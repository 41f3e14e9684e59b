---------------------------- MODULE DaveSession ----------------------------
(***************************************************************************)
(* The MLS session behind DAVE media: Session of dave/src/session.rs, with *)
(* the plaintext passthrough of dave/src/passthrough.rs.                   *)
(*                                                                         *)
(* OpenMLS is external: of a group only what the session branches on is    *)
(* kept, its epoch, its other members, the proposals stored in it and the  *)
(* commit this client last proposed for it.  Whether OpenMLS accepts a     *)
(* message of another member is an attribute of the message.               *)
(*                                                                         *)
(* The keys of a sender or decryptor are named by the group epoch they are *)
(* derived from.  A passthrough deadline is the time left until it: None   *)
(* while plaintext is allowed without limit, 0 when it is not allowed.     *)
(***************************************************************************)
EXTENDS DaveGatewayState, FiniteSets, Functions

CONSTANTS Members,   \* the users that may join the group besides this one
          Grace      \* DAVE_PLAINTEXT_RECEIVE_GRACE, in ticks

ASSUME DaveSessionAssumption == Grace \in Nat \ {0} /\ IsFiniteSet(Members)

NoDecryptors == [u \in {} |-> 0]

NewSession ==
  [external_sender |-> FALSE,
   group |-> "none",               \* "none", "pending" or "established"
   epoch |-> 0,
   status |-> "Inactive",
   receive_ready |-> FALSE,
   staged |-> None,                \* Encryptor: the pending ratchet
   sending |-> None,               \* Encryptor: the active ratchet
   decryptors |-> NoDecryptors,    \* user -> passthrough deadline of its decryptor
   passthrough |-> 0,
   stored |-> {},                  \* proposals stored in the group
   pending_commit |-> None,        \* the number of the own commit outstanding
   merged |-> None,                \* the own commit that made the group's epoch, if one did
   commits |-> 0]                  \* own commits so far, which numbers them

Enabled == [kind |-> "Enabled"]

DisabledAfterGrace == [kind |-> "DisabledAfter"]

(* PlaintextPassthrough::apply                                             *)
ApplyPassthrough(until, mode) ==
  CASE mode = Enabled -> None
    [] mode # Enabled /\ until = None -> Grace
    [] OTHER -> until      \* min(until, Grace)

SetPassthroughMode(session, mode) ==
  [session EXCEPT !.passthrough = ApplyPassthrough(@, mode),
                  !.decryptors = [u \in DOMAIN @ |-> ApplyPassthrough(@[u], mode)]]

(* set_external_sender of a session without an established group: the only *)
(* kind it is called on.                                                   *)
SetExternalSender(session) ==
  [session EXCEPT !.external_sender = TRUE, !.group = "pending", !.epoch = 0,
                  !.stored = {}, !.pending_commit = None, !.status = "Pending"]

(* A proposals message is a record of its id, its operation, whether       *)
(* OpenMLS and the gateway policy accept it and, for a revocation, the     *)
(* proposal it names.                                                      *)
ProposalsRefused(session, message) ==
  \/ session.group = "none"
  \/ message.operation = "Append" /\ ~message.valid
  \/ message.operation = "Revoke" /\ message.target \notin session.stored

ProcessProposals(session, message) ==
  LET stored == IF message.operation = "Append" THEN session.stored \cup {message.id}
                                                ELSE session.stored \ {message.target}
  IN  IF stored = {}
        THEN [session EXCEPT !.stored = stored, !.pending_commit = None,
                             !.status = CASE @ = "AwaitingCommit" -> "Active"
                                          [] @ = "AwaitingInitialResponse" -> "Pending"
                                          [] OTHER -> @]
        ELSE [session EXCEPT !.stored = stored,
                             !.commits = @ + 1,
                             !.pending_commit = session.commits + 1,
                             !.status = IF session.group = "established"
                                          THEN "AwaitingCommit"
                                          ELSE "AwaitingInitialResponse"]

(* activate_established_group: every other member has a decryptor, a new   *)
(* one with the session's passthrough; the sender's keys are only staged.  *)
ActivateEstablishedGroup(session, members) ==
  [session EXCEPT !.status = "Active",
                  !.decryptors = [u \in members |->
                                    IF u \in DOMAIN @ THEN @[u] ELSE session.passthrough],
                  !.staged = session.epoch,
                  !.receive_ready = TRUE]

WelcomeRefused(session, message) ==
  \/ session.group = "established"
  \/ ~session.external_sender
  \/ ~message.valid

ProcessWelcome(session, message) ==
  ActivateEstablishedGroup(
    [session EXCEPT !.group = "established", !.epoch = 1, !.stored = {},
                    !.pending_commit = None, !.merged = None],
    message.members)

MutAnyOwnCommit(session, message) ==
  \/ session.group = "none"
  \/ ~session.external_sender
  \/ session.group = "pending" /\ session.status = "Pending"
  \/ message.own = None /\ ~(message.valid /\ message.epoch = session.epoch)
  \/ message.own # None /\ session.pending_commit = None

(* An own commit is recognised only while it is the one outstanding; one   *)
(* of another member only in the epoch it was made for.                    *)
CommitRefused(session, message) ==
  \/ session.group = "none"
  \/ ~session.external_sender
  \/ session.group = "pending" /\ session.status = "Pending"
  \/ message.own = None /\ ~(message.valid /\ message.epoch = session.epoch)
  \/ message.own # None /\ message.own # session.pending_commit

(* Of an own commit OpenMLS merges the one it keeps pending.               *)
ProcessCommit(session, message) ==
  ActivateEstablishedGroup(
    [session EXCEPT !.group = "established", !.epoch = @ + 1, !.stored = {},
                    !.pending_commit = None,
                    !.merged = IF message.own = None THEN None ELSE session.pending_commit],
    message.members)

(* Encryptor::activate_pending                                             *)
ActivateStagedSender(session) ==
  IF session.staged = None THEN session
  ELSE [session EXCEPT !.sending = session.staged, !.staged = None]

SendReady(session) == session.sending # None
=============================================================================
