-------------------------- MODULE DaveCoordinator ---------------------------
(***************************************************************************)
(* Negotiation of DAVE with the voice gateway: DaveCoordinator of          *)
(* cacophony/src/dave.rs over DaveGatewayState and DaveSession, driven by  *)
(* the gateway events of cacophony/src/gateway.rs as the websocket branch  *)
(* of the driver (cacophony/src/connection/driver.rs) does: a message is   *)
(* handled, its effects applied and the coordinator pumped before anything *)
(* else runs.  One gateway event is therefore one step.                    *)
(*                                                                         *)
(* The connection begins with the session description connect waited for.  *)
(* The events that came before it are replayed first, one after the other  *)
(* with no pump between them; the driver then pumps and reads on.  The     *)
(* gateway is external: it sends any event at any time, a description, an  *)
(* epoch or a transition it has sent before included.                      *)
(***************************************************************************)
EXTENDS DaveSession, SequencesExt

CONSTANTS Transitions,   \* transition ids the gateway uses
          Versions,      \* protocol versions it announces
          Epochs,        \* epochs it announces
          MaxEvents      \* bound: gateway events per behaviour

ASSUME DaveCoordinatorAssumption ==
  /\ 0 \in Transitions /\ Transitions \subseteq Nat
  /\ Versions \subseteq Nat /\ Epochs \subseteq Nat \ {0} /\ MaxEvents \in Nat

VARIABLES dave,      \* DaveInternalState
          co,        \* DaveCoordinator, but for its session
          session,   \* DaveCoordinator.session
          roster,    \* roster_authoritative
          running,   \* the driver has started: what was kept is replayed
          open,      \* no error has ended the driver
          events,    \* gateway events so far
          redescribed, \* history: the session was described again
          handed,    \* history: ids of the MLS messages given to the session
                     \* since the epoch the gateway prepares last changed
          log        \* history: what the last step did

vars == <<dave, co, session, roster, running, open, events, redescribed, handed, log>>

NewCoordinator ==
  [external_sender_set |-> FALSE,
   sent_key_package_for |-> None,
   processed_proposals |-> 0,
   processed_commit |-> None, processed_welcome |-> None,
   transition_ready |-> None,
   prepared_epoch |-> None,
   last_applied |-> None]        \* DavePassthroughController

(* Among the events kept may be the external sender and the roster, in any *)
(* place: the others of the replay do not look at them.                    *)
Init ==
  /\ \E v \in Versions \cup {None}, known \in BOOLEAN :
       dave = [SetSessionProtocol(NewDave, v) EXCEPT !.external_sender = known]
  /\ co = NewCoordinator
  /\ session = NewSession
  /\ roster \in BOOLEAN
  /\ running = FALSE /\ open = TRUE
  /\ events = 0
  /\ redescribed = FALSE /\ handed = {}
  /\ log = [event |-> "Connect", commands |-> <<>>, handed |-> <<>>, refused |-> FALSE]

(* The coordinator in the middle of a pump: its fields, its session, the   *)
(* commands pushed so far and the error that ended the pump, if any.       *)
Pumping(c, s) ==
  [co |-> c, session |-> s, commands |-> <<>>, handed |-> <<>>, refused |-> FALSE,
   error |-> FALSE]

ApplyMode(x, mode) ==
  IF x.co.last_applied = mode THEN x
  ELSE [x EXCEPT !.session = SetPassthroughMode(@, mode), !.co.last_applied = mode]

MutGraceNeverEnds(x) == [x EXCEPT !.session = SetPassthroughMode(@, Enabled)]

AllowPlaintextReceiveGrace(x) ==
  [x EXCEPT !.session = SetPassthroughMode(SetPassthroughMode(@, Enabled), DisabledAfterGrace),
            !.co.last_applied = DisabledAfterGrace]

MarkTransitionReady(x, d) ==
  LET t == TransitionId(d)
      marked == [x EXCEPT !.co.transition_ready = t]
  IN  IF t = None \/ x.co.transition_ready = t THEN x
      ELSE IF t # 0
        THEN [marked EXCEPT !.commands =
                Append(@, [kind |-> "TransitionReady", transition_id |-> t])]
      ELSE IF IsDave(ProtocolVersion(d)) THEN AllowPlaintextReceiveGrace(marked)
      ELSE marked

MutActivateEarly(x, d) ==
  IF IsDave(d.active) /\ x.session.staged # None
    THEN [x EXCEPT !.session = ActivateStagedSender(@), !.co.transition_ready = None]
    ELSE x

ActivateSenderIfTransitionExecuted(x, d) ==
  IF TransitionId(d) = None /\ IsDave(d.active) /\ x.session.staged # None
    THEN [x EXCEPT !.session = ActivateStagedSender(@), !.co.transition_ready = None]
    ELSE x

ActivateSenderIfTransitionZeroReady(x, d) ==
  IF TransitionZeroMediaReady(d, x.co.transition_ready)
    THEN [x EXCEPT !.session = ActivateStagedSender(@)]
    ELSE x

PreparedEpoch(d) ==
  IF IsDave(ProtocolVersion(d)) /\ d.phase.epoch # None
    THEN [epoch |-> d.phase.epoch, protocol_version |-> ProtocolVersion(d), seq |-> d.phase.seq]
    ELSE None

(* The new session has no group, no keys and plaintext disabled.  (Own     *)
(* commits stay numbered apart.)                                           *)
ReplaceSession(x) ==
  [x EXCEPT !.session = [NewSession EXCEPT !.commits = x.session.commits],
            !.co.last_applied = None,
            !.co.external_sender_set = FALSE]

SyncPreparedEpoch(x, d) ==
  LET prepared == PreparedEpoch(d)
      reset == [x EXCEPT !.co.sent_key_package_for = None,
                         !.co.processed_proposals = 0,
                         !.co.processed_commit = None,
                         !.co.processed_welcome = None]
      synced ==
        CASE prepared = None -> x
          [] prepared # None /\ prepared.epoch = 1 /\ ~x.session.receive_ready ->
               ReplaceSession([reset EXCEPT !.co.transition_ready = None])
          [] OTHER -> reset
  IN  IF x.co.prepared_epoch = prepared THEN x
      ELSE [synced EXCEPT !.co.prepared_epoch = prepared]

AdoptExternalSender(x, d) ==
  IF d.external_sender /\ ~x.co.external_sender_set
    THEN [x EXCEPT !.session = SetExternalSender(@), !.co.external_sender_set = TRUE]
    ELSE x

KeyPackageScope(x, d) ==
  IF x.co.prepared_epoch # None /\ x.co.prepared_epoch.epoch = 1
    THEN x.co.prepared_epoch
    ELSE [epoch |-> None, protocol_version |-> ProtocolVersion(d), seq |-> 0]

MutSendKeyPackage(x, scope) ==
  [x EXCEPT !.commands = Append(@, [kind |-> "KeyPackage", scope |-> scope])]

SendKeyPackage(x, scope) ==
  [x EXCEPT !.commands = Append(@, [kind |-> "KeyPackage", scope |-> scope]),
            !.co.sent_key_package_for = scope]

SendKeyPackageOnce(x, d) ==
  IF x.co.sent_key_package_for = KeyPackageScope(x, d) THEN x
  ELSE SendKeyPackage(x, KeyPackageScope(x, d))

(* One proposals message of the pump's loop.  A refused one is skipped.    *)
PumpProposals(x, message) ==
  LET counted == [x EXCEPT !.co.processed_proposals = @ + 1, !.handed = Append(@, message.id)]
      processed == ProcessProposals(x.session, message)
  IN  IF ProposalsRefused(x.session, message)
        THEN counted
        ELSE [counted EXCEPT !.session = processed,
                             !.commands = IF processed.pending_commit = None THEN @
                                          ELSE Append(@, [kind |-> "CommitWelcome",
                                                          commit |-> processed.pending_commit])]

RecoverAfterInvalidGroup(x, d) ==
  [SendKeyPackage(AdoptExternalSender(ReplaceSession(x), d), KeyPackageScope(x, d))
     EXCEPT !.co.processed_proposals = Len(d.proposals)]

MutNeverProcessed(x, message) == FALSE

AlreadyProcessed(x, message) ==
  message = IF message.kind = "Commit" THEN x.co.processed_commit ELSE x.co.processed_welcome

(* One pending commit or welcome of the pump's loop.  A refused one makes  *)
(* the pump push an invalid-commit command and a new key package, and then *)
(* fail.                                                                   *)
PumpMlsMessage(x, d, message) ==
  LET refused == IF message.kind = "Commit" THEN CommitRefused(x.session, message)
                                            ELSE WelcomeRefused(x.session, message)
      noted == [x EXCEPT !.handed = Append(@, message.id),
                         !.co.processed_commit = IF message.kind = "Commit" THEN message ELSE @,
                         !.co.processed_welcome = IF message.kind = "Welcome" THEN message ELSE @]
      processed == IF message.kind = "Commit" THEN ProcessCommit(x.session, message)
                                              ELSE ProcessWelcome(x.session, message)
      reported == [noted EXCEPT !.commands =
                     IF TransitionId(d) = None THEN @
                     ELSE Append(@, [kind |-> "InvalidCommitWelcome",
                                     transition_id |-> TransitionId(d)])]
  IN  IF x.error \/ message = None THEN x
      ELSE IF AlreadyProcessed(x, message) THEN x
      ELSE IF refused
        THEN [RecoverAfterInvalidGroup(reported, d) EXCEPT !.error = TRUE, !.refused = TRUE]
      ELSE MarkTransitionReady([noted EXCEPT !.session = processed], d)

MutCountKept(x, d) == x

(* The gateway state was cleared since the last pump.                      *)
RestartProposals(x, d) ==
  IF x.co.processed_proposals > Len(d.proposals)
    THEN [x EXCEPT !.co.processed_proposals = 0]
    ELSE x

(* DaveCoordinator::pump                                                   *)
Pump(x, d, authoritative) ==
  LET synced == ActivateSenderIfTransitionExecuted(SyncPreparedEpoch(x, d), d)
      transport == MarkTransitionReady(ApplyMode(synced, Enabled), d)
      packaged == SendKeyPackageOnce(
                    AdoptExternalSender(ApplyMode(synced, DisabledAfterGrace), d), d)
      counted == RestartProposals(ActivateSenderIfTransitionExecuted(packaged, d), d)
      unprocessed == SubSeq(d.proposals, counted.co.processed_proposals + 1, Len(d.proposals))
      proposed == FoldLeft(PumpProposals, counted, unprocessed)
      messaged == PumpMlsMessage(PumpMlsMessage(proposed, d, d.welcome), d, d.commit)
  IN  IF ~IsDave(ProtocolVersion(d)) THEN transport
      ELSE IF ~packaged.co.external_sender_set THEN packaged
      ELSE IF unprocessed # <<>> /\ ~authoritative THEN counted
      ELSE IF messaged.error THEN messaged
      ELSE ActivateSenderIfTransitionExecuted(ActivateSenderIfTransitionZeroReady(messaged, d), d)

EpochChanges(before, after) == after.prepared_epoch \notin {None, before.prepared_epoch}

(* pump_dave after an event, with x what the pump leaves.  When it fails,  *)
(* its commands are dropped and the driver ends.                           *)
PumpDave(event, x) ==
  /\ co' = x.co /\ session' = x.session
  /\ open' = ~x.error
  /\ redescribed' = (redescribed \/ event = "SessionDescription")
  /\ handed' = IF EpochChanges(co, x.co) THEN ToSet(x.handed) ELSE handed \cup ToSet(x.handed)
  /\ log' = [event |-> event, handed |-> x.handed, refused |-> x.refused,
             commands |-> IF x.error THEN <<>> ELSE x.commands]

(* An event that leaves the gateway state d; grace says whether its        *)
(* effects allow plaintext for a while.  The driver applies the effects    *)
(* and pumps (handle_websocket_message, apply_gateway_effects, pump_dave); *)
(* the replay throws the effects away.  An event that changes nothing is   *)
(* left out: PumpSettled says that the pump after it does nothing either.  *)
Handle(event, d, grace, authoritative) ==
  LET start == Pumping(co, session)
      granted == IF grace THEN AllowPlaintextReceiveGrace(start) ELSE start
  IN  /\ open
      /\ events < MaxEvents /\ events' = events + 1
      /\ d # dave \/ authoritative # roster
      /\ dave' = d
      /\ roster' = authoritative
      /\ \/ running /\ PumpDave(event, Pump(granted, d, authoritative))
         \/ ~running /\ PumpDave(event, start)
      /\ UNCHANGED running

(* The replay is over and the driver starts: it pumps before it reads.     *)
StartDriver ==
  /\ ~running /\ running' = TRUE
  /\ PumpDave("StartDriver", Pump(Pumping(co, session), dave, roster))
  /\ UNCHANGED <<dave, roster, events>>

(* The first description is never replayed: connect itself has used it.    *)
OnSessionDescription ==
  \E v \in Versions \cup {None} :
    running /\ Handle("SessionDescription", SetSessionProtocol(dave, v), FALSE, roster)

OnPrepareTransition ==
  \E t \in Transitions, v \in Versions :
    Handle("PrepareTransition", PrepareTransition(dave, t, v), FALSE, roster)

OnExecuteTransition ==
  \E t \in Transitions :
    Handle("ExecuteTransition", ExecuteTransition(dave, t),
           /\ TransitionId(dave) = t
           /\ ~IsDave(dave.active) /\ IsDave(ProtocolVersion(dave)),
           roster)

OnPrepareEpoch ==
  \E v \in Versions, e \in Epochs :
    Handle("PrepareEpoch", PrepareEpoch(dave, v, e), FALSE, roster)

OnExternalSender ==
  Handle("ExternalSender", [dave EXCEPT !.external_sender = TRUE], FALSE, roster)

OnProposals ==
  \E message \in [id : {events + 1}, negotiated : {IsDave(ProtocolVersion(dave))},
                  operation : {"Append"}, valid : BOOLEAN, target : {0}]
               \cup [id : {events + 1}, negotiated : {IsDave(ProtocolVersion(dave))},
                     operation : {"Revoke"}, valid : {TRUE},
                     target : session.stored \cup {p.id : p \in ToSet(dave.proposals)}] :
    Handle("Proposals", [dave EXCEPT !.proposals = Append(@, message)], FALSE, roster)

(* The gateway announces an own commit of this client, or one of another   *)
(* member of its group.                                                    *)
OnCommit ==
  \E t \in Transitions, own \in 1 .. session.commits \cup {None},
     valid \in BOOLEAN, members \in SUBSET Members :
    /\ IF own = None THEN valid => session.group = "established" ELSE valid
    /\ valid \/ members = {}
    /\ Handle("Commit",
              SetPendingMlsMessage(dave, [kind |-> "Commit", id |-> events + 1,
                                          transition_id |-> t, own |-> own,
                                          epoch |-> session.epoch,
                                          valid |-> valid, members |-> members]),
              FALSE, roster)

(* A welcome that OpenMLS accepts is made from a key package, which only   *)
(* the running driver sends.                                               *)
OnWelcome ==
  \E t \in Transitions, valid \in BOOLEAN, members \in SUBSET Members :
    /\ IF valid THEN running ELSE members = {}
    /\ Handle("Welcome",
              SetPendingMlsMessage(dave, [kind |-> "Welcome", id |-> events + 1,
                                          transition_id |-> t, own |-> None, epoch |-> None,
                                          valid |-> valid, members |-> members]),
              FALSE, roster)

(* ClientsConnect, ClientConnect and ClientDisconnect                      *)
OnRoster == Handle("Roster", dave, FALSE, TRUE)

TickDown(until) == IF until \in {None, 0} THEN until ELSE until - 1

Tick ==
  /\ open
  /\ session.passthrough \notin {None, 0}
  /\ session' = [session EXCEPT !.passthrough = TickDown(@),
                               !.decryptors = [u \in DOMAIN @ |-> TickDown(@[u])]]
  /\ UNCHANGED <<dave, co, roster, running, open, events, redescribed, handed, log>>

Next ==
  \/ StartDriver \/ OnSessionDescription \/ OnPrepareTransition \/ OnExecuteTransition
  \/ OnPrepareEpoch \/ OnExternalSender \/ OnProposals \/ OnCommit \/ OnWelcome
  \/ OnRoster \/ Tick

Spec == Init /\ [][Next]_vars

-----------------------------------------------------------------------------

(* media_ready of current_dave_media_status                                *)
MediaReady ==
  \/ ~RequiresDave(dave)
  \/ /\ session.receive_ready /\ SendReady(session)
     /\ GatewayMediaReady(dave) \/ TransitionZeroMediaReady(dave, co.transition_ready)

(* When the driver reports media ready for a connection that requires      *)
(* DAVE, and that is not leaving it, the sender encrypts with the keys of  *)
(* the epoch the group is in: no newer keys wait to be activated.  There   *)
(* are two exceptions.  A session described again while no DAVE sender is  *)
(* active drops the transition the newer keys wait for, and nothing is     *)
(* left to hold media back.  And a transition 0 that turns from transport  *)
(* to DAVE counts as ready from before, while the pump that would activate *)
(* the keys stops at proposals until the roster is known.  With a DAVE     *)
(* sender active, keys never wait without a transition to wait for.        *)
MediaReadyKeyed ==
  open /\ running =>
    /\ RequiresDave(dave) /\ IsDave(ProtocolVersion(dave)) /\ MediaReady =>
         \/ session.sending = session.epoch /\ session.staged = None
         \/ redescribed /\ ~IsDave(dave.active) /\ session.staged = session.epoch
         \/ TransitionId(dave) = 0 /\ ~roster /\ dave.proposals # <<>>
    /\ TransitionId(dave) = None /\ IsDave(dave.active) => session.staged = None

(* The client tells the gateway that it is ready for the transition that   *)
(* is pending, and for a DAVE transition only when it has just joined or   *)
(* advanced the group: it can decrypt, and the sender's keys of the        *)
(* group's epoch are staged.  When the gateway announced one of the        *)
(* client's own commits, the epoch is the one that commit made, not one    *)
(* the client has proposed since.                                          *)
ReadyMeansKeyed ==
  \A i \in DOMAIN log.commands :
    log.commands[i].kind = "TransitionReady" =>
      /\ log.commands[i].transition_id = TransitionId(dave)
      /\ IsDave(ProtocolVersion(dave)) =>
           /\ session.receive_ready /\ session.staged = session.epoch
           /\ dave.commit # None => session.merged = dave.commit.own

(* While a DAVE version is negotiated, plaintext is never accepted without *)
(* a deadline, whatever sequence of grace periods, replaced sessions and   *)
(* protocol changes led there; and every decryptor, created before or      *)
(* after the last mode change, accepts it as long as the session says.     *)
PlaintextBounded ==
  /\ open /\ IsDave(ProtocolVersion(dave)) => session.passthrough # None
  /\ \A u \in DOMAIN session.decryptors : session.decryptors[u] = session.passthrough

(* Once the external sender and the roster are known, every proposals      *)
(* message the gateway state holds has been given to the MLS session: the  *)
(* coordinator's count never runs ahead of a list that was cleared and has *)
(* grown again.  Only proposals that arrive while no DAVE version is       *)
(* negotiated may be passed over: nothing looks at the count then.         *)
NoProposalSkipped ==
  open /\ running /\ IsDave(ProtocolVersion(dave)) /\ co.external_sender_set /\ roster =>
    \A p \in ToSet(dave.proposals) : p.negotiated => p.id \in handed

(* The pump, which runs after every message of the gateway, has nothing    *)
(* left to do once it has run: a message that is not about DAVE makes it   *)
(* send nothing, hand nothing to the session and change nothing.           *)
PumpSettled ==
  open /\ running =>
    LET x == Pump(Pumping(co, session), dave, roster)
    IN  x.commands = <<>> /\ x.handed = <<>> /\ x.co = co /\ x.session = session

(* No proposals message, commit or welcome is given to the MLS session     *)
(* twice while the epoch the gateway prepares stays the same.  When that   *)
(* is announced anew or changes its version, the coordinator forgets what  *)
(* it has processed, and what the gateway state still holds is handed over *)
(* again.                                                                  *)
HandedOnce ==
  [][log' # log /\ ToSet(log'.handed) \cap handed # {} => EpochChanges(co, co')]_vars

(* The sender changes keys only when the gateway executes a transition; or *)
(* for transition 0, which is executed as soon as the client is ready or,  *)
(* when it restarts the group at epoch 1, as soon as it is prepared.  Only *)
(* where the session was described again, which withdraws the transition   *)
(* that keys are waiting or will wait for, an active DAVE sender changes   *)
(* them without.                                                           *)
SenderSwitchesOnExecute ==
  [][session'.sending # session.sending /\ session'.sending # None
     => \/ log'.event = "ExecuteTransition"
        \/ TransitionId(dave') = 0
        \/ /\ log'.event = "PrepareTransition"
           /\ dave'.phase.epoch = 1 /\ TransitionId(dave') = None
        \/ redescribed' /\ TransitionId(dave') = None /\ IsDave(dave'.active)]_vars

(* A commit or welcome the session refuses is reported to the gateway.     *)
InvalidGroupReported ==
  log.refused => \E i \in DOMAIN log.commands : log.commands[i].kind = "InvalidCommitWelcome"
=============================================================================
