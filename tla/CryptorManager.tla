--------------------------- MODULE CryptorManager ---------------------------
(***************************************************************************)
(* The per-ratchet half of the DAVE media cipher (dave/src/ratchet.rs):    *)
(* HashRatchet, the truncated-nonce arithmetic shared by the two ends, and *)
(* CryptorManager, which keeps the ciphers and the replay window of ONE    *)
(* receive ratchet.  Every method is an operator from a manager record to  *)
(* a manager record; module MediaCipher composes them into a state machine.*)
(*                                                                         *)
(* A key is abstracted to the pair <<epoch, generation>>: the ratchet of   *)
(* an epoch derives one key per generation, and the AEAD opens a frame     *)
(* exactly when it is tried with the key that sealed it.                   *)
(***************************************************************************)
EXTENDS Integers, Sequences

CONSTANTS
  NoncesPerGeneration, \* 1 << RATCHET_GENERATION_SHIFT_BITS
  GenerationWrap,      \* GENERATION_WRAP: generations a truncated nonce tells apart
  MaxGenerationGap,    \* MAX_GENERATION_GAP
  MaxMissingNonces,    \* MAX_MISSING_NONCES
  FramesPerTick,       \* MAX_FRAMES_PER_SECOND, per unit of model time
  CipherExpiry,        \* CIPHER_EXPIRY
  None                 \* Option::None

ASSUME CryptorAssumption ==
  /\ NoncesPerGeneration \in Nat \ {0}
  /\ GenerationWrap \in Nat \ {0}
  /\ MaxGenerationGap \in Nat
  /\ MaxMissingNonces \in Nat
  /\ FramesPerTick \in Nat
  /\ CipherExpiry \in Nat
  /\ None \notin Int

OptNat == Nat \cup {None}

-----------------------------------------------------------------------------
(* Truncated nonces *)

\* Mutant: the wrap of the 8-bit generation is not carried.
MutGenerationNoCarry(oldest, generation) ==
  (oldest \div GenerationWrap) * GenerationWrap + generation

\* The generation, at or after `oldest`, that an 8-bit generation stands for.
ComputeWrappedGeneration(oldest, generation) ==
  LET remainder == oldest % GenerationWrap
      factor    == oldest \div GenerationWrap + (IF generation < remainder THEN 1 ELSE 0)
  IN  factor * GenerationWrap + generation

\* A truncated nonce keeps its low bits; the generation is put back above them.
WrappedNonce(generation, nonce) ==
  generation * NoncesPerGeneration + (nonce % NoncesPerGeneration)

-----------------------------------------------------------------------------
(* HashRatchet: the generations derived so far and the ones still cached *)

NewRatchet == [next_generation |-> 0, cache |-> {}]

\* HashRatchet::get refuses a generation that was derived and then erased.
RatchetHas(r, generation) ==
  generation \in r.cache \/ generation >= r.next_generation

RatchetGet(r, generation) ==
  IF generation \in r.cache
  THEN r
  ELSE [next_generation |-> generation + 1,
        cache |-> r.cache \cup (r.next_generation .. generation)]

-----------------------------------------------------------------------------
(* MissingNonceWindow: insertion order and current members *)

\* Mutant: the oldest nonce of the window is pruned too.
MutPruneOneTooMany(m, oldest) ==
  [m EXCEPT !.order   = SelectSeq(@, LAMBDA n : n > oldest),
            !.members = {n \in @ : n > oldest}]

\* The queue's front is popped while it is older than `oldest`.
PruneBefore(m, oldest) ==
  LET k == CHOOSE k \in 0 .. Len(m.order) :
             /\ \A i \in 1 .. k : m.order[i] < oldest
             /\ k < Len(m.order) => m.order[k + 1] >= oldest
  IN  [m EXCEPT !.order   = SubSeq(@, k + 1, Len(@)),
                !.members = @ \ {m.order[i] : i \in 1 .. k}]

\* push_back of first, first+1, .., last.  They are all above the newest nonce
\* and the members all below it (WindowExact of module MediaCipher), so
\* `members.insert` never finds one of them present and each is queued.
PushBack(m, first, last) ==
  [m EXCEPT !.order   = @ \o [i \in 1 .. (last - first + 1) |-> first + i - 1],
            !.members = @ \cup (first .. last)]

-----------------------------------------------------------------------------
(* CryptorManager *)

NewManager(epoch, now) ==
  [epoch          |-> epoch,
   ratchet        |-> NewRatchet,
   ciphers        |-> {},  \* of [generation, expiry]
   created_at     |-> now,
   expiry         |-> None,
   oldest_generation |-> 0,
   newest_generation |-> 0,
   newest_nonce   |-> None,
   order          |-> << >>,
   members        |-> {}]

MaxLifetimeGeneration(m, now) ==
  (FramesPerTick * (now - m.created_at)) \div NoncesPerGeneration

CanProcessNonce(m, generation, nonce) ==
  \/ m.newest_nonce = None
  \/ WrappedNonce(generation, nonce) > m.newest_nonce
  \/ WrappedNonce(generation, nonce) \in m.members

HasCipher(m, generation) == \E c \in m.ciphers : c.generation = generation

\* Mutant: retired generations stay in the ratchet's cache.
MutCleanupKeepsKeys(m, now) ==
  LET live   == {c \in m.ciphers : c.expiry = None \/ c.expiry > now}
      stops  == {g \in m.oldest_generation .. m.newest_generation :
                   g = m.newest_generation \/ \E c \in live : c.generation = g}
  IN  [m EXCEPT !.ciphers = live,
                !.oldest_generation = CHOOSE g \in stops : \A h \in stops : g <= h]

\* Mutant: every generation before the newest is erased, retired or not.
MutCleanupErasesAll(m, now) ==
  LET live   == {c \in m.ciphers : c.expiry = None \/ c.expiry > now}
      stops  == {g \in m.oldest_generation .. m.newest_generation :
                   g = m.newest_generation \/ \E c \in live : c.generation = g}
  IN  [m EXCEPT !.ciphers = live,
                !.oldest_generation = CHOOSE g \in stops : \A h \in stops : g <= h,
                !.ratchet.cache = @ \ (m.oldest_generation .. (m.newest_generation - 1))]

\* Expired ciphers go; then the oldest generation moves up to the first one
\* that still has a cipher, or to the newest, and the ratchet forgets the
\* generations it passes.
CleanupExpiredCiphers(m, now) ==
  LET live   == {c \in m.ciphers : c.expiry = None \/ c.expiry > now}
      stops  == {g \in m.oldest_generation .. m.newest_generation :
                   g = m.newest_generation \/ \E c \in live : c.generation = g}
      oldest == IF stops = {} THEN m.oldest_generation
                ELSE CHOOSE g \in stops : \A h \in stops : g <= h
  IN  [m EXCEPT !.ciphers = live,
                !.oldest_generation = oldest,
                !.ratchet.cache = @ \ (m.oldest_generation .. (oldest - 1))]

\* CryptorManager::cipher finds no cryptor for the generation.
GenerationRefused(m, generation, now) ==
  \/ generation < m.oldest_generation
  \/ generation > m.newest_generation + MaxGenerationGap
  \/ generation > MaxLifetimeGeneration(m, now)

\* CryptorManager::cipher once the generation is accepted.
WithCipher(m, generation, now) ==
  IF HasCipher(m, generation) THEN m
  ELSE [m EXCEPT
         !.ratchet = RatchetGet(@, generation),
         !.ciphers = @ \cup {[generation |-> generation,
                              expiry |-> IF generation < m.newest_generation
                                         THEN now + CipherExpiry ELSE None]}]

\* Mutant: a late nonce stays in the window of missing nonces.
MutRecordNonceForgetsRemoval(m, wrapped) ==
  IF m.newest_nonce # None /\ wrapped <= m.newest_nonce THEN m
  ELSE [m EXCEPT !.newest_nonce = wrapped,
                 !.members = IF m.newest_nonce = None THEN @
                             ELSE @ \cup ((m.newest_nonce + 1) .. (wrapped - 1))]

\* report_success, replay window half.
RecordNonce(m, wrapped) ==
  IF m.newest_nonce = None
  THEN [m EXCEPT !.newest_nonce = wrapped]
  ELSE IF wrapped > m.newest_nonce
  THEN LET oldest_missing == IF wrapped < MaxMissingNonces THEN 0
                             ELSE wrapped - MaxMissingNonces
           from == IF oldest_missing > m.newest_nonce THEN oldest_missing
                   ELSE m.newest_nonce + 1
       IN  [PushBack(PruneBefore(m, oldest_missing), from, wrapped - 1)
              EXCEPT !.newest_nonce = wrapped]
  ELSE [m EXCEPT !.members = @ \ {wrapped}]

\* report_success, cipher half: older ciphers start to expire.
RecordGeneration(m, generation, now) ==
  IF generation <= m.newest_generation \/ ~HasCipher(m, generation) THEN m
  ELSE [m EXCEPT
         !.newest_generation = generation,
         !.ciphers = {IF c.generation < generation
                      THEN [c EXCEPT !.expiry = now + CipherExpiry] ELSE c : c \in @}]

ReportSuccess(m, generation, nonce, now) ==
  RecordGeneration(RecordNonce(m, WrappedNonce(generation, nonce)), generation, now)

\* CryptorManager::decrypt: the manager afterwards and the result.  A frame is
\* [epoch, generation, nonce]; only its truncated nonce is on the wire, its
\* epoch and generation say which key sealed it.
ManagerDecrypt(m, frame, now) ==
  LET generation == ComputeWrappedGeneration(m.oldest_generation,
                                             frame.nonce \div NoncesPerGeneration)
      cleaned    == CleanupExpiredCiphers(m, now)
      opened     == WithCipher(cleaned, generation, now)
  IN  IF ~CanProcessNonce(m, generation, frame.nonce)
      THEN [manager |-> m, result |-> "ReplayedNonce"]
      ELSE IF GenerationRefused(cleaned, generation, now)
           \/ (/\ ~HasCipher(cleaned, generation)
               /\ ~RatchetHas(cleaned.ratchet, generation))
      THEN [manager |-> cleaned, result |-> "MissingCryptor"]
      ELSE IF frame.epoch # m.epoch \/ frame.generation # generation
      THEN [manager |-> opened, result |-> "Aead"]
      ELSE [manager |-> ReportSuccess(opened, generation, frame.nonce, now),
            result  |-> "Ok"]
=============================================================================
