--------------------------- MODULE ConnectionDriver ---------------------------
(***************************************************************************)
(* The life of a connection: the Connection handle and its requests, the   *)
(* driver task with its select loop, and the join task behind              *)
(* close_and_wait (cacophony/src/connection/handle.rs and driver.rs).      *)
(* The connect and the heartbeats are in module VoiceGateway, the frame    *)
(* stream in RtpReceive and the playout in OpusPlayout.                    *)
(*                                                                         *)
(* A request is a call of the application that waits for a oneshot reply.  *)
(* The application may drop the call at any await.  A reply sender that is *)
(* dropped unanswered makes the call return Closed.                        *)
(*                                                                         *)
(* pc says where the driver is: "top" at the head of its loop, "select",   *)
(* "sending" in the sends that media being ready set free, "command_send"  *)
(* in the send of a command (both await), "drain" after the loop, "return" *)
(* when its queues are drained but not yet dropped, "ended".               *)
(* Times are what is left of them, in ticks.                               *)
(***************************************************************************)
EXTENDS Integers, Sequences, FiniteSetsExt, Functions

CONSTANTS Request,          \* calls the application makes, each once
          Waiter,           \* calls of close_and_wait
          CommandCapacity,  \* of the command queue (128)
          MediaCapacity,    \* media_queue_capacity
          MaxWait,          \* max_wait and dave_send_media_ready_timeout
          None

(* The calls that are answered.  Finish stands for both that go through    *)
(* the media queue: start_opus_playout takes the same way and is answered  *)
(* when it is handled.                                                     *)
Kind == {"RawUdp", "RtpUdp", "Stream", "Status", "WaitReady", "Send", "Speaking", "Finish"}

Result == {"Ok", "Failed", "Closed"}   \* of a call; Failed: any other error

Timed == {"waits", "sends"}   \* the two DeadlineQueues

(* Where a call is while the driver has it.                                *)
Place == Timed \cup {"command", "media", "receives", "sending", "finish"}

ASSUME ConnectionAssumption ==
  /\ CommandCapacity \in Nat \ {0} /\ MediaCapacity \in Nat \ {0}
  /\ MaxWait \in Nat
  /\ None \notin Request \cup Waiter \cup Place \cup Result /\ "Close" \notin Request

VARIABLES
  handle,     \* a Connection exists
  closed,     \* ConnectionClose: "open", "swapped" (closed_once) or "published" (and the watch)
  req,        \* the requests: kind, the caller's state, where the driver holds it, time left
  commands,   \* command queue
  media,      \* media queue (the playout commands that carry a reply)
  receives,   \* pending_packet_receives: a number for each, lower ones came first
  pc, result, \* the driver: where it is, and what run returns
  abort,      \* the driver task is to be aborted at its next await
  ready,      \* media_ready of current_dave_media_status
  join,       \* the join task: holds the JoinHandle, the waiter it serves, its channel
  waiter      \* the calls of close_and_wait

vars == <<handle, closed, req, commands, media, receives, pc, result, abort, ready, join, waiter>>

app == <<handle, closed, join, waiter>>
queues == <<commands, media, receives>>

Init ==
  /\ handle = TRUE /\ closed = "open" /\ abort = FALSE
  /\ req = [r \in Request |-> [kind |-> None, caller |-> "idle", place |-> None, left |-> None]]
  /\ commands = <<>> /\ media = <<>> /\ receives = <<>>
  /\ pc = "top" /\ result = None /\ ready \in BOOLEAN
  /\ join = [task |-> TRUE, serving |-> None, channel |-> <<>>]
  /\ waiter = [w \in Waiter |-> "idle"]

-----------------------------------------------------------------------------
(* Replies *)

(* The reply to a call is sent, or its sender dropped: Closed.  Only a     *)
(* caller that has not gone sees it.  dave_media_status falls back to the  *)
(* public state.                                                           *)
Answer(call, answer) ==
  [call EXCEPT !.place = None, !.left = None, !.kind = None,
               !.caller = IF @ \notin {"sending", "waiting"} THEN @
                          ELSE IF call.kind = "Status" THEN "Ok" ELSE answer]

AnswerAll(calls, answer) ==
  req' = [r \in Request |-> IF r \in calls THEN Answer(req[r], answer) ELSE req[r]]

In(places) == {r \in Request : req[r].place \in places}

Held == {r \in Request : req[r].place # None}

-----------------------------------------------------------------------------
(* The application's requests *)

Driver == <<pc, result, abort, ready>>

(* ensure_open.  A playout has its own sender and outlives the handle.     *)
Call(r, kind, wait) ==
  /\ req[r].caller = "idle" /\ (handle \/ kind = "Finish")
  /\ LET call == [kind |-> kind, caller |-> "sending", place |-> None, left |-> wait]
     IN  req' = [req EXCEPT ![r] = IF closed = "open" THEN call ELSE Answer(call, "Closed")]
  /\ UNCHANGED <<app, queues, Driver>>

(* send_command: try_send fails on a full or a dropped queue.  SetSpeaking *)
(* has no reply.                                                           *)
SendCommand(r) ==
  /\ req[r].caller = "sending" /\ req[r].kind # "Finish"
  /\ LET full == Len(commands) >= CommandCapacity
     IN  /\ commands' = IF pc = "ended" \/ full THEN commands ELSE Append(commands, r)
         /\ IF pc = "ended" \/ full
              THEN AnswerAll({r}, IF pc = "ended" THEN "Closed" ELSE "Failed")
              ELSE req' = [req EXCEPT ![r].place = "command",
                             ![r].caller = IF req[r].kind = "Speaking" THEN "Ok" ELSE "waiting"]
  /\ UNCHANGED <<app, media, receives, Driver>>

(* media_tx.send waits for room.                                           *)
SendMedia(r) ==
  /\ req[r].caller = "sending" /\ req[r].kind = "Finish"
  /\ \/ /\ pc = "ended"
        /\ AnswerAll({r}, "Closed")
        /\ UNCHANGED media
     \/ /\ pc # "ended" /\ Len(media) < MediaCapacity
        /\ media' = Append(media, r)
        /\ req' = [req EXCEPT ![r].place = "media", ![r].caller = "waiting"]
  /\ UNCHANGED <<app, commands, receives, Driver>>

(* The future of a call is dropped.                                        *)
DropCall(r) ==
  /\ req[r].caller \in {"sending", "waiting"}
  /\ req' = [req EXCEPT ![r].caller = "gone"]
  /\ UNCHANGED <<app, queues, Driver>>

-----------------------------------------------------------------------------
(* Closing *)

(* close: an atomic swap elects the one caller that then tells the watch.  *)
Close ==
  /\ handle /\ closed = "open" /\ closed' = "swapped"
  /\ UNCHANGED <<handle, req, queues, Driver, join, waiter>>

Publish ==
  /\ closed = "swapped" /\ closed' = "published"
  /\ UNCHANGED <<handle, req, queues, Driver, join, waiter>>

(* close by the driver: nothing if another caller has swapped.             *)
DriverClose == closed' = IF closed = "open" THEN "published" ELSE closed

(* close_and_wait after its close: a Close command if there is room.       *)
CloseAndWait(w) ==
  /\ handle /\ closed # "open" /\ waiter[w] = "idle"
  /\ commands' = IF pc # "ended" /\ Len(commands) < CommandCapacity
                   THEN Append(commands, "Close") ELSE commands
  /\ waiter' = [waiter EXCEPT ![w] = "sending"]
  /\ UNCHANGED <<handle, closed, req, media, receives, Driver, join>>

(* Its Wait goes into the join task's channel, which has one place.        *)
JoinSend(w) ==
  /\ waiter[w] = "sending" /\ join.channel = <<>>
  /\ waiter' = [waiter EXCEPT ![w] = "waiting"]
  /\ join' = [join EXCEPT !.channel = <<w>>]
  /\ UNCHANGED <<handle, closed, req, queues, Driver>>

DropWait(w) ==
  /\ waiter[w] \in {"sending", "waiting"}
  /\ waiter' = [waiter EXCEPT ![w] = "gone"]
  /\ UNCHANGED <<handle, closed, req, queues, Driver, join>>

JoinRecv ==
  /\ join.serving = None /\ join.channel # <<>>
  /\ join' = [join EXCEPT !.serving = Head(join.channel), !.channel = <<>>]
  /\ UNCHANGED <<handle, closed, req, queues, Driver, waiter>>

MutJoinReply ==
  /\ join.serving # None
  /\ waiter' = [waiter EXCEPT ![join.serving] =
       IF @ # "waiting" THEN @ ELSE IF join.task /\ pc = "ended" THEN result ELSE "Ok"]
  /\ join' = [join EXCEPT !.serving = None, !.task = FALSE]
  /\ UNCHANGED <<handle, closed, req, queues, Driver>>

(* The first Wait takes the JoinHandle, awaits the driver and gets its     *)
(* result; later ones get Ok.                                              *)
JoinReply ==
  /\ join.serving # None
  /\ join.task => pc = "ended"
  /\ waiter' = [waiter EXCEPT ![join.serving] =
       IF @ # "waiting" THEN @ ELSE IF join.task THEN result ELSE "Ok"]
  /\ join' = [join EXCEPT !.serving = None, !.task = FALSE]
  /\ UNCHANGED <<handle, closed, req, queues, Driver>>

(* The last Connection is dropped: no call of it is left.  The join task   *)
(* aborts the driver too when its channel ends.                            *)
DropConnection ==
  /\ handle /\ closed # "swapped"
  /\ \A r \in Request : req[r].kind # "Finish" => req[r].caller \notin {"sending", "waiting"}
  /\ \A w \in Waiter : waiter[w] \notin {"sending", "waiting"}
  /\ handle' = FALSE /\ closed' = "published" /\ abort' = TRUE
  /\ UNCHANGED <<req, queues, pc, result, ready, join, waiter>>

-----------------------------------------------------------------------------
(* The driver: the head of its loop *)

Fail == pc' = "drain" /\ result' = "Failed"

MutExpired == {r \in In({"waits"}) : req[r].left = 0}

Expired == {r \in In(Timed) : req[r].left = 0}

MutResolve(discarded, finished, answer) ==
  req' = [r \in Request |->
    CASE r \in discarded -> Answer(req[r], "Closed")
      [] r \in finished -> Answer(req[r], answer)
      [] ready /\ req[r].place = "sends" -> [req[r] EXCEPT !.place = "sending", !.left = None]
      [] r \in Expired -> Answer(req[r], IF ready THEN "Ok" ELSE "Failed")
      [] OTHER -> req[r]]

(* resolve_pending_media_ready: when media is ready all waits are over and *)
(* all held sends begin; otherwise those whose time is up fail.  discarded *)
(* are the packet receives whose callers have gone; finished is the        *)
(* playout whose statistics are due.                                       *)
Resolve(discarded, finished, answer) ==
  req' = [r \in Request |->
    CASE r \in discarded -> Answer(req[r], "Closed")
      [] r \in finished -> Answer(req[r], answer)
      [] ready /\ req[r].place = "waits" -> Answer(req[r], "Ok")
      [] ready /\ req[r].place = "sends" -> [req[r] EXCEPT !.place = "sending", !.left = None]
      [] ~ready /\ r \in Expired -> Answer(req[r], "Failed")
      [] OTHER -> req[r]]

LoopTop ==
  /\ pc = "top"
  /\ LET gone == {r \in In({"receives"}) : req[r].caller = "gone"}
     IN  /\ receives' = Restrict(receives, DOMAIN receives \ gone)
         /\ \E finished \in SUBSET In({"finish"}), answer \in {"Ok", "Failed"} :
              Resolve(gone, finished, answer)
  /\ \/ /\ pc' = IF ready /\ In({"sends"}) # {} THEN "sending" ELSE "select"
        /\ UNCHANGED result
     \/ Fail      \* resolve_active_playout could not tell the gateway
  /\ UNCHANGED <<app, commands, media, abort, ready>>

(* send_ready_media_frame of one of the sends: it fails for one of many    *)
(* reasons, or returns Closed at its next packet once the watch says so.   *)
SendNext ==
  /\ pc \in {"sending", "command_send"}
  /\ \E r \in In({"sending"}), answer \in {"Ok", "Failed", "Closed"} :
       /\ answer = "Closed" => closed = "published"
       /\ AnswerAll({r}, answer)
       /\ pc' = IF In({"sending"}) # {r} THEN pc ELSE IF pc = "sending" THEN "select" ELSE "top"
  /\ UNCHANGED <<app, queues, result, abort, ready>>

-----------------------------------------------------------------------------
(* The branches of its select *)

(* The driver keeps r in one of its own queues.                            *)
Hold(r, place) == req' = [req EXCEPT ![r].place = place]

(* push_packet_receive                                                     *)
PushReceive(r) ==
  receives' = [q \in DOMAIN receives \cup {r} |->
                 IF q = r THEN 1 + Max(Range(receives) \cup {0}) ELSE receives[q]]

OnCommand(r) ==
  \/ /\ r = "Close"
     /\ DriverClose /\ pc' = "top"
     /\ UNCHANGED <<req, receives, result>>
  \/ /\ r # "Close" /\ req[r].kind = "Speaking"
     /\ AnswerAll({r}, "Ok")
     /\ (pc' = "top" /\ UNCHANGED result) \/ Fail
     /\ UNCHANGED <<closed, receives>>
  \/ /\ r # "Close" /\ req[r].kind \in {"RawUdp", "RtpUdp"}
     /\ Hold(r, "receives") /\ PushReceive(r) /\ pc' = "top"
     /\ UNCHANGED <<closed, result>>
  \/ /\ r # "Close" /\ req[r].kind = "Stream"      \* refused while another stream is open
     /\ \E answer \in {"Ok", "Failed"} : AnswerAll({r}, answer)
     /\ pc' = "top"
     /\ UNCHANGED <<closed, receives, result>>
  \/ /\ r # "Close" /\ req[r].kind = "Status"
     /\ AnswerAll({r}, "Ok") /\ pc' = "top"
     /\ UNCHANGED <<closed, receives, result>>
  \/ /\ r # "Close" /\ req[r].kind = "WaitReady"
     /\ (IF ready THEN AnswerAll({r}, "Ok")
         ELSE IF req[r].left = 0 THEN AnswerAll({r}, "Failed") ELSE Hold(r, "waits"))
     /\ pc' = "top"
     /\ UNCHANGED <<closed, receives, result>>
  \/ /\ r # "Close" /\ req[r].kind = "Send"
     /\ Hold(r, IF ready THEN "sending" ELSE "sends")
     /\ pc' = IF ready THEN "command_send" ELSE "top"
     /\ UNCHANGED <<closed, receives, result>>

HandleCommand ==
  /\ pc = "select" /\ commands # <<>>
  /\ OnCommand(Head(commands)) /\ commands' = Tail(commands)
  /\ UNCHANGED <<handle, join, waiter, media, abort, ready>>

(* Finish of the active playout is kept; of another one it is refused.     *)
HandlePlayoutCommand ==
  /\ pc = "select" /\ media # <<>>
  /\ media' = Tail(media)
  /\ \/ In({"finish"}) = {} /\ Hold(Head(media), "finish")
     \/ AnswerAll({Head(media)}, "Closed")
  /\ pc' = "top"
  /\ UNCHANGED <<app, commands, receives, result, abort, ready>>

(* wait_for_close, or the command queue has lost its last sender.          *)
CloseBranch ==
  /\ pc = "select" /\ (closed = "published" \/ (~handle /\ commands = <<>>))
  /\ pc' = "drain" /\ result' = "Ok"
  /\ UNCHANGED <<app, req, queues, abort, ready>>

(* The first receive of a kind.                                            *)
FirstOf(kind) ==
  LET of == {r \in DOMAIN receives : req[r].kind = kind}
  IN  {r \in of : \A q \in of : receives[r] <= receives[q]}

MutUdpPacket ==
  /\ pc = "select" /\ pc' = "top"
  /\ AnswerAll(FirstOf("RawUdp"), "Ok")
  /\ UNCHANGED <<app, queues, result, abort, ready>>

(* A datagram answers the first receive of each kind that accepts it; its  *)
(* length may be over the caller's limit.                                  *)
UdpPacket ==
  /\ pc = "select" /\ pc' = "top"
  /\ \E rtcp \in BOOLEAN, answer \in {"Ok", "Failed"} :
       LET taken == FirstOf("RawUdp") \cup (IF rtcp THEN {} ELSE FirstOf("RtpUdp"))
       IN  /\ AnswerAll(taken, answer)
           /\ receives' = Restrict(receives, DOMAIN receives \ taken)
  /\ UNCHANGED <<app, commands, media, result, abort, ready>>

(* The earliest deadline of next_driver_wake_deadline has been reached.    *)
Wake ==
  /\ pc = "select" /\ Expired # {}
  /\ pc' = "top"
  /\ UNCHANGED <<app, req, queues, result, abort, ready>>

(* A message, which may change whether media is ready.  What the branch    *)
(* then calls is what the head of the loop calls again at once.            *)
WebsocketEvent ==
  /\ pc = "select" /\ pc' = "top"
  /\ ready' \in BOOLEAN
  /\ UNCHANGED <<app, req, queues, result, abort>>

(* A heartbeat, or the deadline of another part of the driver.             *)
OtherBranch == pc = "select" /\ pc' = "top" /\ UNCHANGED <<app, req, queues, result, abort, ready>>

(* A close frame, or the end of the stream.                                *)
WebsocketClosed ==
  /\ pc = "select" /\ pc' = "drain" /\ result' = "Ok" /\ DriverClose
  /\ UNCHANGED <<handle, req, queues, abort, ready, join, waiter>>

(* A read error, a message that cannot be parsed or handled, a failed      *)
(* pump, write or receive, a heartbeat without answer.                     *)
DriverFails ==
  /\ pc = "select" /\ Fail
  /\ UNCHANGED <<app, req, queues, abort, ready>>

-----------------------------------------------------------------------------
(* The end of the driver *)

(* run after run_loop: close, and complete_pending_closed.                 *)
Drain ==
  /\ pc = "drain" /\ pc' = "return"
  /\ DriverClose
  /\ AnswerAll(Held, "Closed")
  /\ commands' = <<>> /\ media' = <<>> /\ receives' = <<>>
  /\ UNCHANGED <<handle, join, waiter, result, abort, ready>>

(* Everything the driver owns is dropped, commands that came after the     *)
(* drain included.                                                         *)
Dropped ==
  /\ pc' = "ended"
  /\ AnswerAll(Held, "Closed")
  /\ commands' = <<>> /\ media' = <<>> /\ receives' = <<>>
  /\ ready' = FALSE
  /\ UNCHANGED <<app, abort>>

Return == pc = "return" /\ Dropped /\ UNCHANGED result

(* An aborted task ends at an await.                                       *)
Abort == abort /\ pc \in {"select", "sending", "command_send"} /\ Dropped /\ result' = "Failed"

-----------------------------------------------------------------------------

Less(n) == IF n = None \/ n = 0 THEN n ELSE n - 1

Tick ==
  /\ req' = [r \in Request |-> IF req[r].place \in Timed THEN [req[r] EXCEPT !.left = Less(@)]
                               ELSE req[r]]
  /\ pc # "ended"
  /\ UNCHANGED <<app, queues, pc, result, abort, ready>>

(* The calls the application makes: only two of them take a time.          *)
Calls == {<<kind, None>> : kind \in Kind \ {"WaitReady", "Send"}}
         \cup {<<"WaitReady", wait>> : wait \in 0 .. MaxWait} \cup {<<"Send", MaxWait>>}

Next ==
  \/ \E r \in Request :
       \/ \E c \in Calls : Call(r, c[1], c[2])
       \/ SendCommand(r) \/ SendMedia(r) \/ DropCall(r)
  \/ Close \/ Publish \/ DropConnection
  \/ \E w \in Waiter : CloseAndWait(w) \/ JoinSend(w) \/ DropWait(w)
  \/ JoinRecv \/ JoinReply
  \/ LoopTop \/ SendNext \/ HandleCommand \/ HandlePlayoutCommand
  \/ CloseBranch \/ UdpPacket \/ Wake \/ WebsocketEvent \/ WebsocketClosed
  \/ OtherBranch \/ DriverFails \/ Drain \/ Return \/ Abort
  \/ Tick

Spec == Init /\ [][Next]_vars

(* The clock runs, and a task that can go on does.  The branches of the    *)
(* select are polled in random order: one that is ready again and again is *)
(* taken.  A branch runs to its end: its awaits, also the writes to the    *)
(* websocket, which have no timeout, are assumed to complete.  Nothing     *)
(* else is assumed of the gateway, the network, the other branches or the  *)
(* application.                                                            *)
FairSpec ==
  /\ Spec
  /\ WF_vars(Tick) /\ WF_vars(Publish)
  /\ WF_vars(LoopTop \/ SendNext \/ Drain \/ Return)
  /\ SF_vars(HandleCommand) /\ SF_vars(CloseBranch) /\ SF_vars(Wake)
  /\ WF_vars(JoinRecv \/ JoinReply) /\ \A w \in Waiter : WF_vars(JoinSend(w))

-----------------------------------------------------------------------------

(* A request waits in exactly one place: the queues, none of which is over *)
(* its capacity, and the places of the requests agree, and whoever waits   *)
(* is in the hands of a living driver, also a call sent after the driver   *)
(* drained its queues.                                                     *)
InOneQueue ==
  /\ DOMAIN receives = In({"receives"}) /\ Range(media) = In({"media"})
  /\ Range(commands) \ {"Close"} = In({"command"})
  /\ \A i, j \in DOMAIN commands : commands[i] = commands[j] /\ i # j => commands[i] = "Close"
  /\ Len(commands) <= CommandCapacity /\ Len(media) <= MediaCapacity
  /\ \A r \in Request : req[r].caller = "waiting" => req[r].place # None /\ pc # "ended"

(* When the driver sleeps in its select and media is ready, it holds       *)
(* neither a wait for readiness nor a send: becoming ready, in whichever   *)
(* branch, has set all of them free before.                                *)
NothingHeldWhenReady == pc = "select" /\ ready => In(Timed) = {}

Service == INSTANCE ConnectionService WITH
  open <- closed = "open", ended <- pc = "ended",
  outcome <- IF pc = "ended" THEN result ELSE None,
  call <- [r \in Request |-> IF req[r].caller = "sending" THEN "idle" ELSE req[r].caller],
  wait <- [w \in Waiter |-> IF waiter[w] = "sending" THEN "waiting" ELSE waiter[w]],
  reported <- ~join.task

(* The contract of the handle: every call is answered, at the latest by    *)
(* the end of the driver; close_and_wait returns, and only after that end; *)
(* one caller consumes the driver's result; a closed connection ends.      *)
ServiceKept == Service!Spec

(* wait_until_media_ready and a send that waits for DAVE return by their   *)
(* own deadline: no other event has to wake the driver.                    *)
TimedCallsReturn ==
  \A r \in Request : (req[r].caller = "waiting" /\ req[r].kind \in {"WaitReady", "Send"})
                       ~> req[r].caller # "waiting"

=============================================================================
