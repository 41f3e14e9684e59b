----------------------------- MODULE MediaCipher -----------------------------
(***************************************************************************)
(* One sender's Encryptor and one receiver's Decryptor for that sender     *)
(* (dave/src/ratchet.rs), with an unreliable network between them.  Both   *)
(* ends learn the epochs of the MLS group in order but independently: the  *)
(* sender stages the ratchet of an epoch and activates it later, the       *)
(* receiver appends a CryptorManager for it.  The network loses,           *)
(* duplicates and reorders frames at will: any frame ever sent may be      *)
(* handed to the Decryptor in any step.                                    *)
(***************************************************************************)
EXTENDS CryptorManager, FiniteSets

CONSTANTS
  RatchetExpiry,  \* RATCHET_EXPIRY
  MaxEpoch,       \* bound: epochs the group goes through
  MaxNonce,       \* bound: nonces the sender draws in an epoch
  MaxFrames,      \* bound: frames the sender puts on the wire
  MaxTime         \* bound: length of the model's clock

ASSUME MediaCipherAssumption ==
  /\ RatchetExpiry \in Nat
  /\ MaxEpoch \in Nat
  /\ MaxNonce \in Nat
  /\ MaxFrames \in Nat
  /\ MaxTime \in Nat

VARIABLES
  now,         \* clock.elapsed()
  group_epoch, \* [sender, receiver]: last epoch whose secrets each end derived
  encryptor,   \* Encryptor
  managers,    \* Decryptor.managers, oldest first
  sent,        \* history: the frames the sender put on the wire
  emissions,   \* history: how many it put there
  delivered,   \* history: the frames the Decryptor opened
  deliveries   \* history: how many times it opened one

vars == <<now, group_epoch, encryptor, managers, sent, emissions, delivered, deliveries>>

Frame == [epoch : Nat, generation : Nat, nonce : Nat]

\* A frame's place in the sender's order within its epoch.
Position(f) == WrappedNonce(f.generation, f.nonce)

NewEncryptor ==
  [active |-> None, pending |-> None, cipher |-> None, generation |-> 0, nonce |-> 0]

Init ==
  /\ now = 0
  /\ group_epoch = [sender |-> 0, receiver |-> 0]
  /\ encryptor = NewEncryptor
  /\ managers = << >>
  /\ sent = {} /\ emissions = 0
  /\ delivered = {} /\ deliveries = 0

-----------------------------------------------------------------------------
(* Sender *)

\* Encryptor::stage_ratchet, with the ratchet of the next epoch.
StageRatchet ==
  /\ group_epoch.sender < MaxEpoch
  /\ group_epoch' = [group_epoch EXCEPT !.sender = @ + 1]
  /\ encryptor' = [encryptor EXCEPT !.pending = group_epoch.sender + 1]
  /\ UNCHANGED <<now, managers, sent, emissions, delivered, deliveries>>

\* Encryptor::activate_pending
ActivatePending ==
  /\ encryptor.pending # None
  /\ encryptor' = [NewEncryptor EXCEPT !.active = encryptor.pending]
  /\ UNCHANGED <<now, group_epoch, managers, sent, emissions, delivered, deliveries>>

\* Encryptor::reset
ResetEncryptor ==
  /\ encryptor # NewEncryptor
  /\ encryptor' = NewEncryptor
  /\ UNCHANGED <<now, group_epoch, managers, sent, emissions, delivered, deliveries>>

\* Mutant: an encryptor without a cipher does not make one for generation 0.
MutAdvanceWithoutCipher(e) ==
  LET nonce      == (e.nonce + 1) % (GenerationWrap * NoncesPerGeneration)
      generation == ComputeWrappedGeneration(e.generation, nonce \div NoncesPerGeneration)
  IN  [e EXCEPT !.nonce = nonce,
                !.generation = generation,
                !.cipher = IF generation # e.generation THEN generation ELSE @]

\* Encryptor::advance_cipher: the next truncated nonce, and a new cipher when
\* it starts another generation.
AdvanceCipher(e) ==
  LET nonce      == (e.nonce + 1) % (GenerationWrap * NoncesPerGeneration)
      generation == ComputeWrappedGeneration(e.generation, nonce \div NoncesPerGeneration)
  IN  [e EXCEPT !.nonce = nonce,
                !.generation = generation,
                !.cipher = IF generation # e.generation \/ e.cipher = None
                           THEN generation ELSE @]

\* One round of Encryptor::encrypt_into.  A ciphertext that fails
\* validate_processed is dropped and the next round draws another nonce, so a
\* round may use up a nonce without sending anything.
Encrypt(valid) ==
  /\ encryptor.active # None
  /\ WrappedNonce(encryptor.generation, encryptor.nonce) < MaxNonce
  /\ emissions < MaxFrames
  /\ encryptor' = AdvanceCipher(encryptor)
  /\ IF valid
     THEN /\ sent' = sent \cup {[epoch |-> encryptor.active,
                                 generation |-> encryptor'.cipher,
                                 nonce |-> encryptor'.nonce]}
          /\ emissions' = emissions + 1
     ELSE UNCHANGED <<sent, emissions>>
  /\ UNCHANGED <<now, group_epoch, managers, delivered, deliveries>>

-----------------------------------------------------------------------------
(* Receiver *)

\* Decryptor::transition_to_ratchet: every manager is given the retention
\* window, then the new epoch's manager is appended.
TransitionToRatchet ==
  /\ group_epoch.receiver < MaxEpoch
  /\ group_epoch' = [group_epoch EXCEPT !.receiver = @ + 1]
  /\ managers' = Append([i \in 1 .. Len(managers) |->
                           [managers[i] EXCEPT !.expiry = now + RatchetExpiry]],
                        NewManager(group_epoch.receiver + 1, now))
  /\ UNCHANGED <<now, encryptor, sent, emissions, delivered, deliveries>>

\* Mutant: a manager goes at its expiry instead of after it.
MutExpiredAtDeadline(m) == m.expiry # None /\ m.expiry <= now

Expired(m) == m.expiry # None /\ m.expiry < now

\* Decryptor::cleanup_expired_managers: pops from the front only.
CleanupExpiredManagers ==
  LET k == CHOOSE k \in 0 .. Len(managers) :
             /\ \A i \in 1 .. k : Expired(managers[i])
             /\ k < Len(managers) => ~Expired(managers[k + 1])
  IN  SubSeq(managers, k + 1, Len(managers))

\* Mutant: only the newest manager keeps what the attempt changed in it.
MutDecryptUpdatesNewest(f) ==
  LET kept    == CleanupExpiredManagers
      tried   == [i \in 1 .. Len(kept) |-> ManagerDecrypt(kept[i], f, now)]
      opening == {i \in 1 .. Len(kept) : tried[i].result = "Ok"}
  IN  /\ managers' = [i \in 1 .. Len(kept) |->
                        IF i = Len(kept) THEN tried[i].manager ELSE kept[i]]
      /\ IF opening # {}
         THEN /\ delivered' = delivered \cup {f}
              /\ deliveries' = deliveries + 1
         ELSE UNCHANGED <<delivered, deliveries>>
      /\ UNCHANGED <<now, group_epoch, encryptor, sent, emissions>>

\* Decryptor::decrypt of an encrypted frame: newest manager first, up to the
\* one that opens it.  A manager that fails may still have changed.
Decrypt(f) ==
  LET kept    == CleanupExpiredManagers
      tried   == [i \in 1 .. Len(kept) |-> ManagerDecrypt(kept[i], f, now)]
      opening == {i \in 1 .. Len(kept) : tried[i].result = "Ok"}
      reached == {i \in 1 .. Len(kept) : \A j \in opening : j <= i}
  IN  /\ managers' = [i \in 1 .. Len(kept) |->
                        IF i \in reached THEN tried[i].manager ELSE kept[i]]
      /\ IF opening # {}
         THEN /\ delivered' = delivered \cup {f}
              /\ deliveries' = deliveries + 1
         ELSE UNCHANGED <<delivered, deliveries>>
      /\ UNCHANGED <<now, group_epoch, encryptor, sent, emissions>>

\* Decryptor::decrypt of a silence or an unencrypted frame: only the expired
\* managers go.
DecryptPlain ==
  /\ managers' = CleanupExpiredManagers
  /\ UNCHANGED <<now, group_epoch, encryptor, sent, emissions, delivered, deliveries>>

\* Session::reset drops the Decryptor; a later epoch makes a new one.
DropDecryptor ==
  /\ managers # << >>
  /\ managers' = << >>
  /\ UNCHANGED <<now, group_epoch, encryptor, sent, emissions, delivered, deliveries>>

Tick ==
  /\ now < MaxTime
  /\ now' = now + 1
  /\ UNCHANGED <<group_epoch, encryptor, managers, sent, emissions, delivered, deliveries>>

Next ==
  \/ StageRatchet
  \/ ActivatePending
  \/ ResetEncryptor
  \/ \E valid \in BOOLEAN : Encrypt(valid)
  \/ TransitionToRatchet
  \/ \E f \in sent : Decrypt(f)
  \/ DecryptPlain
  \/ DropDecryptor
  \/ Tick

Spec == Init /\ [][Next]_vars

-----------------------------------------------------------------------------
(* Properties *)

Manager ==
  [epoch : Nat, ratchet : [next_generation : Nat, cache : SUBSET Nat],
   ciphers : SUBSET [generation : Nat, expiry : OptNat],
   created_at : Nat, expiry : OptNat,
   oldest_generation : Nat, newest_generation : Nat, newest_nonce : OptNat,
   order : Seq(Nat), members : SUBSET Nat]

\* The types, and that the Decryptor opens only frames the Encryptor sealed.
TypeOK ==
  /\ now \in Nat
  /\ group_epoch \in [sender : Nat, receiver : Nat]
  /\ encryptor \in [active : OptNat, pending : OptNat, cipher : OptNat,
                    generation : Nat, nonce : Nat]
  /\ managers \in Seq(Manager)
  /\ sent \subseteq Frame /\ emissions \in Nat
  /\ delivered \subseteq sent /\ deliveries \in Nat

\* A frame is opened at most once, however often the network repeats it and
\* whatever happens to the managers in between: replay window, generation
\* change, retention and removal of managers.
NoReplay == deliveries = Cardinality(delivered)

\* The sender never seals two frames with the same key and nonce, also when the
\* 32-bit truncated nonce wraps and after ActivatePending starts again from 0.
NoNonceReuse == emissions = Cardinality(sent)

\* Members of the window lie below the newest nonce.
WindowBelowNewest(m) ==
  /\ m.newest_nonce = None => m.members = {}
  /\ m.newest_nonce # None => \A x \in m.members : x < m.newest_nonce

\* The manager will refuse the frame as a replay.
Seen(m, f) ==
  /\ m.newest_nonce # None
  /\ Position(f) <= m.newest_nonce
  /\ Position(f) \notin m.members

\* The inductive form of NoReplay: each epoch has at most one manager, it is
\* made before any frame of the epoch is opened, and it has marked as seen every
\* frame of its epoch that was opened.
ReplayInv ==
  /\ NoReplay
  /\ IsFiniteSet(delivered)
  /\ \A f \in delivered : f.epoch <= group_epoch.receiver
  /\ \A i \in 1 .. Len(managers) :
       /\ WindowBelowNewest(managers[i])
       /\ managers[i].epoch <= group_epoch.receiver
       /\ \A j \in 1 .. Len(managers) : managers[i].epoch = managers[j].epoch => i = j
       /\ \A f \in delivered : f.epoch = managers[i].epoch => Seen(managers[i], f)

PositionsDelivered(m) == {Position(f) : f \in {g \in delivered : g.epoch = m.epoch}}

\* The replay window remembers exactly what it has to: of the positions after
\* the first one opened and within MAX_MISSING_NONCES of the newest, the ones
\* not opened yet.  Pruning the queue from the front is therefore enough, and
\* no late frame in the window is mistaken for a replay.  The queue, which keeps
\* entries of nonces that have arrived, is never longer than the window.
WindowExact ==
  \A i \in 1 .. Len(managers) :
    LET m == managers[i]
        opened == PositionsDelivered(m)
    IN  IF m.newest_nonce = None
        THEN opened = {} /\ m.members = {}
        ELSE /\ Len(m.order) <= MaxMissingNonces
             /\ m.newest_nonce \in opened
             /\ \A n \in opened : n <= m.newest_nonce
             /\ m.members = {n \in 0 .. m.newest_nonce :
                               /\ n \notin opened
                               /\ n >= m.newest_nonce - MaxMissingNonces
                               /\ \E first \in opened : first < n}

\* The ratchet caches the keys of exactly the generations from the oldest one
\* on: a retired generation's key is gone, and one not retired can still be
\* had, so HashRatchet::get never fails inside CryptorManager::cipher.
CacheExact ==
  \A i \in 1 .. Len(managers) :
    LET m == managers[i]
    IN  /\ m.ratchet.cache = m.oldest_generation .. (m.ratchet.next_generation - 1)
        /\ \A c \in m.ciphers : c.generation \in m.ratchet.cache

\* A frame that arrives late, but inside the window, and whose generation has
\* not been retired, opens.
LateFrameOpens ==
  \A i \in 1 .. Len(managers) : \A f \in sent \ delivered :
    LET m == managers[i]
    IN  /\ f.epoch = m.epoch
        /\ Position(f) \in m.members
        /\ f.generation >= CleanupExpiredCiphers(m, now).oldest_generation
        => ManagerDecrypt(m, f, now).result = "Ok"

\* A manager is removed by the clean-up only when a later one was appended more
\* than RATCHET_EXPIRY ago, so media in flight at a transition can be opened.
RetainedThroughTransition ==
  [][managers' # << >> =>
       \A i \in 1 .. Len(managers) :
         (\A j \in 1 .. Len(managers') : managers'[j].epoch # managers[i].epoch)
         => /\ i < Len(managers)
            /\ now > managers[i + 1].created_at + RatchetExpiry]_vars
=============================================================================
