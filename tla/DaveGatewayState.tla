-------------------------- MODULE DaveGatewayState --------------------------
(***************************************************************************)
(* What the voice gateway has told this client about DAVE:                 *)
(* DaveInternalState of cacophony/src/state.rs, with the predicates on it  *)
(* of cacophony/src/dave.rs.                                               *)
(*                                                                         *)
(* A protocol is None (Unknown), 0 (Transport) or a DAVE version.  A phase *)
(* is a record in which the fields its kind does not have are None, or 0   *)
(* for seq, as the accessors transition_id(), epoch() and                  *)
(* prepare_epoch_seq() report them.                                        *)
(***************************************************************************)
EXTENDS Integers, Sequences

CONSTANT None

Phase(kind, protocol, transition_id, epoch, seq) ==
  [kind |-> kind, protocol |-> protocol, transition_id |-> transition_id,
   epoch |-> epoch, seq |-> seq]

NewDave ==
  [phase |-> Phase("Unknown", None, None, None, 0),
   active |-> None,             \* send and receive, which only set_both assigns
   external_sender |-> FALSE,
   proposals |-> <<>>,
   commit |-> None, welcome |-> None]

IsDave(protocol) == protocol # None /\ protocol > 0

TransitionId(dave) == dave.phase.transition_id

ProtocolVersion(dave) == dave.phase.protocol

ClearPendingMls(dave) ==
  [dave EXCEPT !.proposals = <<>>, !.commit = None, !.welcome = None]

ClearPendingMlsIf(dave, condition) == IF condition THEN ClearPendingMls(dave) ELSE dave

SetSessionProtocol(dave, protocol) ==
  LET cleared == ClearPendingMlsIf(dave, dave.phase.protocol # protocol)
  IN  [cleared EXCEPT !.phase = Phase("Session", protocol, None, None, 0),
                      !.active = IF IsDave(protocol) THEN @ ELSE protocol]

WithoutTransition(phase) ==
  IF phase.kind = "PreparedEpoch"
    THEN [phase EXCEPT !.transition_id = None]
    ELSE Phase("Session", phase.protocol, None, None, 0)

(* Pending MLS messages go whether or not the transition is the prepared   *)
(* one.                                                                    *)
ExecuteTransition(dave, transition_id) ==
  ClearPendingMls(
    IF TransitionId(dave) = transition_id
      THEN [dave EXCEPT !.active = dave.phase.protocol, !.phase = WithoutTransition(@)]
      ELSE dave)

PrepareTransition(dave, transition_id, protocol) ==
  LET cleared == ClearPendingMlsIf(dave, TransitionId(dave) # transition_id)
      prepared ==
        [cleared EXCEPT !.phase =
           IF @.kind = "PreparedEpoch"
             THEN [@ EXCEPT !.protocol = protocol, !.transition_id = transition_id]
             ELSE Phase("PreparedTransition", protocol, transition_id, None, 0)]
  IN  IF prepared.phase.epoch = 1 /\ transition_id = 0 /\ IsDave(protocol)
        THEN ExecuteTransition(prepared, transition_id)
        ELSE prepared

PrepareEpoch(dave, protocol, epoch) ==
  LET cleared == ClearPendingMlsIf(dave, epoch = 1 \/ dave.phase.epoch # epoch)
  IN  [cleared EXCEPT !.phase =
         Phase("PreparedEpoch", protocol, @.transition_id, epoch, @.seq + 1)]

WithTransitionId(phase, transition_id) ==
  IF phase.kind = "PreparedEpoch"
    THEN [phase EXCEPT !.transition_id = transition_id]
    ELSE Phase("PreparedTransition", phase.protocol, transition_id, None, 0)

SetPendingMlsMessage(dave, message) ==
  LET cleared == ClearPendingMlsIf(dave, TransitionId(dave) # message.transition_id)
      moved == [cleared EXCEPT !.phase = WithTransitionId(@, message.transition_id)]
  IN  IF message.kind = "Commit" THEN [moved EXCEPT !.commit = message]
                                 ELSE [moved EXCEPT !.welcome = message]

MutReadyIgnoresTransition(dave) ==
  dave.commit = None /\ dave.welcome = None /\ dave.proposals = <<>>

GatewayMediaReady(dave) ==
  /\ TransitionId(dave) = None
  /\ dave.commit = None /\ dave.welcome = None
  /\ dave.proposals = <<>>

TransitionZeroMediaReady(dave, transition_ready) ==
  TransitionId(dave) = 0 /\ transition_ready = 0

(* send_requires_dave and receive_transform_active: the two active         *)
(* protocols are always set together, so they are the same predicate.      *)
RequiresDave(dave) ==
  \/ IsDave(dave.active)
  \/ TransitionId(dave) = 0 /\ IsDave(ProtocolVersion(dave))
  \/ dave.active = None /\ IsDave(ProtocolVersion(dave))
=============================================================================
