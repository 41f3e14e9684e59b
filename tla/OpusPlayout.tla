----------------------------- MODULE OpusPlayout -----------------------------
(***************************************************************************)
(* Clocked playout of Opus packets: the OpusPlayout handle of the          *)
(* application, the bounded media queue, and ActiveOpusPlayout in the      *)
(* connection driver (cacophony/src/connection/playout.rs).                *)
(*                                                                         *)
(* Instants are offsets from now: due is next_send_at, 0 or less when it   *)
(* has been reached.  The driver is one task.  A branch of its select runs *)
(* to its end, and the loop calls resolve_active_playout once more at its  *)
(* top, before the next branch: resolves counts the calls that are still   *)
(* to come.  Time passes and the application runs in between.              *)
(*                                                                         *)
(* The application is one task that starts, feeds, finishes and drops      *)
(* playouts, and may be cancelled at any await.                            *)
(***************************************************************************)
EXTENDS Integers, Sequences, FiniteSets, FiniteSetsExt, TLC

CONSTANTS FrameDuration,   \* of a packet, in ticks
          ReadyTimeout,    \* dave_send_media_ready_timeout, in ticks
          QueueCapacity,   \* media_queue_capacity
          MaxPlayouts,     \* bound: playouts started
          MaxFrames,       \* bound: packets pushed
          MaxLate,         \* bound: lateness is not told apart beyond this
          None

ASSUME OpusPlayoutAssumption ==
  /\ FrameDuration \in Nat \ {0} /\ ReadyTimeout \in Nat /\ QueueCapacity \in Nat \ {0}
  /\ MaxPlayouts \in Nat /\ MaxFrames \in Nat
  /\ MaxLate \in Nat /\ MaxLate >= (MaxFrames + 3) * FrameDuration

VARIABLES
  active,       \* SendPipeline.active_playout
  next_id,      \* next_playout_id
  media,        \* the media queue: PlayoutCommands
  ready,        \* media_ready of current_dave_media_status
  resolves,     \* calls of resolve_active_playout before the next select
  app,          \* the application: where it is, and the id of its OpusPlayout
  pushed,       \* history: packets pushed so far
  unsettled,    \* history: packets of the app's playout neither sent nor stale
  announced,    \* history: the gateway was last told that we are speaking
  last,         \* history: the packet sent last
  level,        \* history: media sent ahead of the clock, in ticks
  skipped,      \* history: stale packets dropped since next_send_at was set
  fresh_dropped \* history: a packet was dropped that was not stale

vars == <<active, next_id, media, ready, resolves, app, pushed, unsettled, announced, last,
          level, skipped, fresh_dropped>>

Init ==
  /\ active = None /\ next_id = 1 /\ media = <<>> /\ ready = TRUE /\ resolves = 0
  /\ app = [state |-> "idle", id |-> None]
  /\ pushed = 0 /\ unsettled = {} /\ announced = FALSE /\ last = 0 /\ level = 0
  /\ skipped = 0 /\ fresh_dropped = FALSE

MutMaxStale == 4 * FrameDuration

MaxStale == 3 * FrameDuration

-----------------------------------------------------------------------------
(* The application *)

HasRoom == Len(media) < QueueCapacity

(* Only the queue and the application change.                              *)
AppStep ==
  UNCHANGED <<active, next_id, ready, resolves, announced, last, level, skipped, fresh_dropped>>

StartOpusPlayout ==
  /\ app.state = "idle" /\ next_id <= MaxPlayouts /\ HasRoom
  /\ media' = Append(media, [op |-> "Start", live |-> TRUE])
  /\ app' = [state |-> "starting", id |-> None]
  /\ UNCHANGED <<pushed, unsettled>> /\ AppStep

(* The future of start_opus_playout is dropped.                            *)
AbandonStart ==
  /\ app.state = "starting"
  /\ media' = [i \in DOMAIN media |->
                 IF media[i].op = "Start" THEN [media[i] EXCEPT !.live = FALSE] ELSE media[i]]
  /\ app' = [state |-> "idle", id |-> None]
  /\ UNCHANGED <<pushed, unsettled>> /\ AppStep

(* push_packet (n = 1) or push_packet_batch                                *)
PushPackets(n) ==
  /\ app.state = "open" /\ HasRoom /\ pushed + n <= MaxFrames
  /\ LET frames == [i \in 1 .. n |-> pushed + i]
     IN  /\ media' = Append(media, [op |-> "Frames", id |-> app.id, frames |-> frames])
         /\ unsettled' = unsettled \cup {frames[i] : i \in 1 .. n}
  /\ pushed' = pushed + n
  /\ UNCHANGED app /\ AppStep

Finish ==
  /\ app.state = "open" /\ HasRoom
  /\ media' = Append(media, [op |-> "Finish", id |-> app.id])
  /\ app' = [app EXCEPT !.state = "finishing"]
  /\ UNCHANGED <<pushed, unsettled>> /\ AppStep

(* OpusPlayout::drop: of an open playout, of one whose finish is           *)
(* cancelled or of one whose finish has failed.                            *)
DropPlayout ==
  /\ app.state \in {"open", "finishing", "failed"}
  /\ media' = IF HasRoom THEN Append(media, [op |-> "Cancel", id |-> app.id]) ELSE media
  /\ app' = [state |-> "idle", id |-> None]
  /\ unsettled' = {}
  /\ UNCHANGED pushed /\ AppStep

(* finish has returned its statistics.                                     *)
Return ==
  /\ app.state = "finished"
  /\ app' = [state |-> "idle", id |-> None]
  /\ unsettled' = {}
  /\ UNCHANGED <<media, pushed>> /\ AppStep

(* The reply to the Finish of playout id.                                  *)
ReplyFinish(id, state) ==
  IF app.state = "finishing" /\ app.id = id THEN [app EXCEPT !.state = state] ELSE app

-----------------------------------------------------------------------------
(* Playout commands *)

NewPlayout(id) ==
  [id |-> id, frames |-> <<>>, due |-> None, ready_left |-> None, finish |-> FALSE,
   speaking |-> FALSE]

IsActive(id) == active # None /\ active.id = id

MutPush(playout, frames) == [playout EXCEPT !.frames = frames \o @]

(* push and push_many: an underflow restarts the clock.                    *)
PushMany(playout, frames) ==
  LET underflow == /\ playout.frames = <<>> /\ ~playout.finish
                   /\ playout.due # None /\ playout.due < 0
  IN  [playout EXCEPT !.frames = @ \o frames, !.due = IF underflow THEN None ELSE @]

OnStart(command) ==
  IF active # None
    THEN /\ resolves' = 1
         /\ app' = IF command.live THEN [app EXCEPT !.state = "idle"] ELSE app
         /\ UNCHANGED <<active, next_id, level>>
    ELSE /\ resolves' = 2
         /\ active' = NewPlayout(next_id) /\ next_id' = next_id + 1
         /\ app' = IF command.live THEN [state |-> "open", id |-> next_id] ELSE app
         /\ level' = 0

OnFrames(command) ==
  /\ resolves' = 2
  /\ active' = IF IsActive(command.id) THEN PushMany(active, command.frames) ELSE active
  /\ UNCHANGED <<next_id, app, announced, level>>

OnFinish(command) ==
  /\ resolves' = 2
  /\ active' = IF IsActive(command.id) THEN [active EXCEPT !.finish = TRUE] ELSE active
  /\ app' = IF IsActive(command.id) THEN app ELSE ReplyFinish(command.id, "failed")
  /\ UNCHANGED <<next_id, announced, level>>

MutOnCancel(command) ==
  /\ resolves' = 2
  /\ active' = IF IsActive(command.id) THEN None ELSE active
  /\ UNCHANGED <<next_id, app, announced, level>>

OnCancel(command) ==
  /\ resolves' = 2
  /\ active' = IF IsActive(command.id) THEN None ELSE active
  /\ announced' = IF IsActive(command.id) THEN FALSE ELSE announced
  /\ app' = IF IsActive(command.id) THEN ReplyFinish(command.id, "failed") ELSE app
  /\ UNCHANGED <<next_id, level>>

HandlePlayoutCommand ==
  /\ resolves = 0 /\ media # <<>>
  /\ media' = Tail(media)
  /\ LET command == Head(media)
     IN  \/ command.op = "Start" /\ OnStart(command) /\ UNCHANGED announced
         \/ command.op = "Frames" /\ OnFrames(command)
         \/ command.op = "Finish" /\ OnFinish(command)
         \/ command.op = "Cancel" /\ OnCancel(command)
  /\ UNCHANGED <<ready, pushed, unsettled, last, skipped, fresh_dropped>>
-----------------------------------------------------------------------------
(* resolve_active_playout *)

Reached(instant) == instant # None => instant <= 0

MutReadyToComplete == active.finish /\ Reached(active.due)

ReadyToComplete ==
  /\ active.finish /\ active.frames = <<>>
  /\ Reached(active.due)

(* The packet at the front can be sent now.                                *)
FrontDue == active.frames # <<>> /\ Reached(active.due)

Lateness == IF active.due = None THEN 0 ELSE -active.due

(* Stale packets are dropped, but for the last one, until the clock is     *)
(* less than three packets late.                                           *)
Stale ==
  IF Lateness < MaxStale THEN 0
  ELSE Min({Len(active.frames) - 1, (Lateness - MaxStale) \div FrameDuration + 1})

(* Where the clock stands then: if it is still too late it is rebased.     *)
DueAt ==
  LET lateness == Lateness - Stale * FrameDuration
  IN  IF lateness >= MaxStale THEN 0 ELSE -lateness

DropStale(playout) ==
  [playout EXCEPT !.frames = SubSeq(@, Stale + 1, Len(@))]

StaleFrames == {active.frames[i] : i \in 1 .. Stale}

(* What dropping does to the history: a packet is stale when its own slot, *)
(* counted from next_send_at, is three packets ago.                        *)
NoteStale ==
  /\ fresh_dropped' = (fresh_dropped \/
       /\ Stale > 0
       /\ Lateness - (skipped + Stale - 1) * FrameDuration < MaxStale)

CompletePlayout ==
  /\ ReadyToComplete
  /\ active' = None /\ announced' = FALSE
  /\ app' = ReplyFinish(active.id, "finished")
  /\ UNCHANGED <<unsettled, last, level, skipped, fresh_dropped>>

NothingDue ==
  /\ ~ReadyToComplete /\ ~FrontDue
  /\ UNCHANGED <<active, announced, app, unsettled, last, level, skipped, fresh_dropped>>

(* A packet is due but media is not ready: the playout waits, or fails     *)
(* when it has waited long enough.                                         *)
AwaitMediaReady ==
  /\ FrontDue /\ ~ready
  /\ LET left == IF active.ready_left = None THEN ReadyTimeout ELSE active.ready_left
     IN  \/ /\ left = 0
            /\ active' = None /\ announced' = FALSE
            /\ app' = ReplyFinish(active.id, "failed")
         \/ /\ left > 0
            /\ active' = [DropStale(active) EXCEPT !.ready_left = left]
            /\ UNCHANGED <<announced, app>>
  /\ NoteStale /\ skipped' = skipped + Stale
  /\ unsettled' = unsettled \ StaleFrames
  /\ UNCHANGED <<last, level>>

SendPacket ==
  /\ FrontDue /\ ready
  /\ LET fresh == DropStale(active)
     IN  /\ active' = [fresh EXCEPT !.frames = Tail(@), !.due = DueAt + FrameDuration,
                                    !.ready_left = None, !.speaking = TRUE]
         /\ last' = Head(fresh.frames)
         /\ unsettled' = (unsettled \ StaleFrames) \ {Head(fresh.frames)}
  /\ announced' = TRUE
  /\ level' = level + FrameDuration
  /\ NoteStale /\ skipped' = 0
  /\ UNCHANGED app

(* send_ready_opus_packet fails.                                           *)
SendFails ==
  /\ FrontDue /\ ready
  /\ active' = None /\ announced' = FALSE
  /\ app' = ReplyFinish(active.id, "failed")
  /\ NoteStale
  /\ unsettled' = unsettled \ StaleFrames
  /\ UNCHANGED <<last, level, skipped>>

Resolve ==
  /\ resolves > 0 /\ resolves' = resolves - 1
  /\ \/ /\ active = None
        /\ UNCHANGED <<active, announced, app, unsettled, last, level, skipped, fresh_dropped>>
     \/ active # None /\ CompletePlayout
     \/ active # None /\ NothingDue
     \/ active # None /\ AwaitMediaReady
     \/ active # None /\ SendPacket
     \/ active # None /\ SendFails
  /\ UNCHANGED <<next_id, media, ready, pushed>>

-----------------------------------------------------------------------------
(* The other branches of the driver's loop *)

MutWakeDue == active # None /\ active.frames # <<>> /\ Reached(active.due)

(* wake_deadline or dave_deadline of the active playout has been reached.  *)
WakeDue ==
  /\ active # None
  /\ \/ active.frames # <<>> /\ Reached(active.due)
     \/ active.frames = <<>> /\ active.finish /\ active.due # None /\ Reached(active.due)
     \/ active.frames # <<>> /\ active.ready_left = 0

DriverStep == UNCHANGED <<active, next_id, media, app, pushed, unsettled, announced, last, level,
                          skipped, fresh_dropped>>

Wake == resolves = 0 /\ WakeDue /\ resolves' = 2 /\ UNCHANGED ready /\ DriverStep

(* A websocket message, which may change whether media is ready.           *)
WebsocketMessage ==
  /\ resolves = 0 /\ resolves' = 2 /\ ready' \in BOOLEAN /\ DriverStep

(* A UDP packet, a heartbeat or a command of another kind.                 *)
OtherEvent == resolves = 0 /\ resolves' = 1 /\ UNCHANGED ready /\ DriverStep

Less(n) == IF n = None \/ n = 0 THEN n ELSE n - 1

Tick ==
  /\ active' = IF active = None THEN None
               ELSE [active EXCEPT !.due = IF @ = None \/ @ = -MaxLate THEN @ ELSE @ - 1,
                                   !.ready_left = Less(@)]
  /\ level' = Less(level)
  /\ UNCHANGED <<next_id, media, ready, resolves, app, pushed, unsettled, announced, last,
                 skipped, fresh_dropped>>

Next ==
  \/ StartOpusPlayout \/ AbandonStart \/ PushPackets(1) \/ PushPackets(2) \/ Finish
  \/ DropPlayout \/ Return
  \/ HandlePlayoutCommand \/ Resolve \/ Wake \/ WebsocketMessage \/ OtherEvent
  \/ Tick

Spec == Init /\ [][Next]_vars

(* The clock runs, and the driver runs each branch to its end.  Its select *)
(* polls the branches in random order: one that is ready again and again   *)
(* is taken.                                                               *)
FairSpec ==
  /\ Spec
  /\ WF_vars(Tick) /\ WF_vars(Resolve)
  /\ SF_vars(HandlePlayoutCommand) /\ SF_vars(Wake)

-----------------------------------------------------------------------------

(* The gateway believes we are speaking exactly as long as the active      *)
(* playout has announced it: the last packet, a failed send, a DAVE        *)
(* timeout and a cancelled playout all take the announcement back.         *)
SpeakingAgrees == announced = (active # None /\ active.speaking)

(* finish returns its statistics only when every packet the application    *)
(* pushed has been sent or dropped as stale, and never leaves the playout  *)
(* active.                                                                 *)
FinishDelivers ==
  app.state = "finished" =>
    /\ unsettled = {}
    /\ active # None => active.id # app.id

(* Packets are sent in the order they were pushed, and none twice, across  *)
(* batches, underflows and playouts.                                       *)
SentInOrder == [][last' # last => last' > last]_vars

(* A playout never runs more than three packets ahead of the clock: in any *)
(* time of n packets it sends at most n + 3, however late the driver ran,  *)
(* whatever was dropped, rebased or restarted after an underflow.          *)
PacedByClock == level < 4 * FrameDuration

(* finish returns: when the packets are played, when sending one fails, or *)
(* when media does not become ready in time.                               *)
FinishAnswered == app.state = "finishing" ~> app.state # "finishing"

(* What OpusPlayoutStats calls dropped_stale_frames, and                   *)
(* cacophony/README.md "stale-frame handling": a packet is dropped only    *)
(* when its own slot of the playout clock has passed by three packets.     *)
DroppedFramesWereStale == ~fresh_dropped
=============================================================================
