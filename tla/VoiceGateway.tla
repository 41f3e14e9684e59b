----------------------------- MODULE VoiceGateway -----------------------------
(***************************************************************************)
(* The websocket to the voice gateway: the stages of a connect, the events *)
(* that arrive while it is under way and are replayed when it is done, the *)
(* roster they describe, and the heartbeats of the running driver          *)
(* (cacophony/src/gateway.rs and connection/driver.rs).                    *)
(*                                                                         *)
(* The gateway itself is external.  It answers Identify with Ready and     *)
(* SelectProtocol with SessionDescription, tells of the members of the     *)
(* channel from Ready on, answers each heartbeat at most once, and may     *)
(* hang up.  Its messages arrive in order.  Times are in ticks; while it   *)
(* runs, the driver serves a branch of its select within MaxLate ticks of  *)
(* the branch being ready.                                                 *)
(***************************************************************************)
EXTENDS Integers, Sequences, SequencesExt, Functions

CONSTANTS User, Ssrc,       \* other members of the channel, and their sources
          Me,               \* user_id of the connection
          HelloInterval,    \* heartbeat_interval of Hello
          MinAckTimeout,    \* the least heartbeat_ack_timeout (1 s)
          StageTimeout,     \* of each stage of the connect
          MaxLate,
          MaxEvents,        \* numbered events the gateway sends
          None

ASSUME GatewayAssumption ==
  /\ HelloInterval \in Nat /\ MinAckTimeout \in Nat /\ StageTimeout \in Nat
  /\ MaxLate \in Nat /\ MaxEvents \in Nat
  /\ Me \notin User /\ None \notin User \cup Ssrc \cup Nat

VARIABLES
  stage,      \* of the client
  left,       \* of the time of a stage of the connect
  peer,       \* the gateway: what it has sent last of its side of the connect
  members,    \* the gateway's account of the channel: its members,
  sources,    \*   and the user of each announced source
  numbered,   \* events numbered so far
  owed,       \* the gateway has a heartbeat to answer
  inbox,      \* messages on the way to the client or unread in its socket
  pending,    \* pending_events of wait_for_session_description
  client,     \* the connection state: users, ssrc_users, speaking, authoritative, last_seq
  ack,        \* GatewayHeartbeatAckState, sent_at by its age
  beating,    \* a heartbeat is being sent: the driver awaits the write
  due,        \* time to the next heartbeat tick; negative when it is late
  waiting     \* how long the first unread message has waited for a running driver

channel == <<peer, members, sources, numbered, owed>>
heart == <<ack, beating, due>>
vars == <<stage, left, channel, inbox, pending, client, heart, waiting>>

Connecting == {"WebSocketConnect", "Hello", "Ready", "UdpDiscovery", "SessionDescription"}

Op == {"Hello", "Ready", "SessionDescription", "ClientsConnect", "ClientConnect",
       "ClientDisconnect", "Speaking", "HeartbeatAck", "Other", "Binary"}

(* heartbeat_interval_ms: at least 1.                                      *)
Interval == IF HelloInterval < 1 THEN 1 ELSE HelloInterval

(* heartbeat_ack_timeout                                                   *)
AckTimeout == IF 2 * Interval < MinAckTimeout THEN MinAckTimeout ELSE 2 * Interval

Init ==
  /\ stage = "WebSocketConnect" /\ left = StageTimeout
  /\ peer = "new" /\ members = {} /\ sources = <<>> /\ numbered = 0 /\ owed = FALSE
  /\ inbox = <<>> /\ pending = <<>> /\ waiting = 0
  /\ client = [users |-> {Me}, sources |-> <<>>, speaking |-> {},
               authoritative |-> FALSE, last_seq |-> None]
  /\ ack = [pending |-> FALSE, age |-> None] /\ beating = FALSE /\ due = Interval

-----------------------------------------------------------------------------
(* The gateway *)

Message(op, users, ssrc, seq) == [op |-> op, users |-> users, ssrc |-> ssrc, seq |-> seq]

Deliver(message) ==
  /\ stage # "WebSocketConnect"
  /\ inbox' = Append(inbox, message)
  /\ UNCHANGED <<stage, left, pending, client, heart, waiting>>

(* Its side of the connect: what it sends when, and what it says next.     *)
Opens(op, from, to, at) ==
  /\ peer = from /\ peer' = to /\ stage = at
  /\ Deliver(Message(op, {}, None, None))
  /\ UNCHANGED <<members, sources, numbered, owed>>

Answers ==
  \/ Opens("Hello", "new", "greeted", "Hello")
  \/ Opens("Ready", "greeted", "ready", "Ready")
  \/ Opens("SessionDescription", "ready", "described", "SessionDescription")

(* An event that it numbers.                                               *)
Event(op, users, ssrc) ==
  /\ peer \in {"greeted", "ready", "described"} /\ numbered < MaxEvents
  /\ numbered' = numbered + 1
  /\ Deliver(Message(op, users, ssrc, numbered'))
  /\ UNCHANGED <<peer, owed>>

Tells(user, ssrc) == [s \in DOMAIN sources \cup {ssrc} |-> IF s = ssrc THEN user ELSE sources[s]]

Arrive(user) ==
  /\ peer # "greeted" /\ user \notin members /\ members' = members \cup {user}
  /\ \/ Event("ClientsConnect", {user}, None) /\ UNCHANGED sources
     \/ Event("ClientConnect", {user}, None) /\ UNCHANGED sources
     \/ \E ssrc \in Ssrc : Event("ClientConnect", {user}, ssrc) /\ sources' = Tells(user, ssrc)

Speak(user, ssrc) ==
  /\ user \in members /\ UNCHANGED members
  /\ \/ Event("Speaking", {user}, ssrc) /\ sources' = Tells(user, ssrc)
     \/ Event("Speaking", {}, ssrc) /\ UNCHANGED sources      \* user_id is optional

Leave(user) ==
  /\ user \in members /\ members' = members \ {user}
  /\ Event("ClientDisconnect", {user}, None)
  /\ sources' = Restrict(sources, {s \in DOMAIN sources : sources[s] # user})

(* Other stands for the text events, Binary for the binary ones, that      *)
(* change neither the roster nor the heartbeats.                           *)
OtherEvent ==
  /\ \E op \in {"Other", "Binary"} : Event(op, {}, None)
  /\ UNCHANGED <<members, sources>>

AnswerHeartbeat ==
  /\ owed /\ owed' = FALSE /\ peer = "described"
  /\ Deliver(Message("HeartbeatAck", {}, None, None))
  /\ UNCHANGED <<peer, members, sources, numbered>>

HangUp ==
  /\ peer # "gone" /\ peer' = "gone"
  /\ UNCHANGED <<stage, left, members, sources, numbered, owed, inbox, pending, client, heart, waiting>>

-----------------------------------------------------------------------------
(* What an event does to the connection state *)

Numbered(state, event) ==
  IF event.seq = None THEN state ELSE [state EXCEPT !.last_seq = event.seq]

Assign(users, event) ==
  [s \in DOMAIN users \cup {event.ssrc} |->
     IF s = event.ssrc THEN CHOOSE u \in event.users : TRUE ELSE users[s]]

(* The update of last_seq, then handle_text_event or                       *)
(* handle_voice_binary_event; HeartbeatAck is in ReadEvent.                *)
Apply(state, event) ==
  LET now == Numbered(state, event)
  IN  CASE event.op = "Speaking" ->
             [now EXCEPT !.sources = IF event.users = {} THEN @ ELSE Assign(@, event),
                         !.speaking = @ \cup {event.ssrc}]
        [] event.op = "ClientsConnect" ->
             [now EXCEPT !.authoritative = TRUE, !.users = @ \cup event.users]
        [] event.op = "ClientConnect" ->
             [now EXCEPT !.authoritative = TRUE, !.users = @ \cup event.users,
                         !.sources = IF event.ssrc = None THEN @ ELSE Assign(@, event)]
        [] event.op = "ClientDisconnect" ->
             [now EXCEPT !.authoritative = TRUE, !.users = @ \ event.users,
                         !.sources = Restrict(@, {s \in DOMAIN @ : @[s] \notin event.users})]
        [] OTHER -> now

-----------------------------------------------------------------------------
(* The connect *)

(* The next stage, with a time of its own.                                 *)
Enter(next) == stage' = next /\ left' = StageTimeout

Connect ==
  /\ stage = "WebSocketConnect" /\ Enter("Hello")
  /\ UNCHANGED <<channel, inbox, pending, client, heart, waiting>>

(* A message is read within the connect.                                   *)
Read(at) ==
  /\ stage = at /\ inbox # <<>> /\ inbox' = Tail(inbox)
  /\ UNCHANGED <<channel, heart, waiting>>

(* read_event, then Identify.                                              *)
ReadHello ==
  /\ Read("Hello") /\ Enter("Ready")
  /\ client' = Numbered(client, Head(inbox))
  /\ UNCHANGED pending

(* wait_for_opcode: read_event passes over binary messages, and other      *)
(* events than Ready are dropped.                                          *)
WaitForOpcode ==
  /\ Read("Ready")
  /\ client' = IF Head(inbox).op = "Binary" THEN client ELSE Numbered(client, Head(inbox))
  /\ IF Head(inbox).op = "Ready" THEN Enter("UdpDiscovery") ELSE UNCHANGED <<stage, left>>
  /\ UNCHANGED pending

(* The answer to the discovery request, then SelectProtocol.               *)
Discover ==
  /\ stage = "UdpDiscovery" /\ Enter("SessionDescription")
  /\ UNCHANGED <<channel, inbox, pending, client, heart, waiting>>

MutWaitForSessionDescription ==
  /\ Read("SessionDescription")
  /\ LET event == Head(inbox)
     IN  /\ client' = IF event.op = "Binary" THEN client ELSE Numbered(client, event)
         /\ IF event.op = "SessionDescription" THEN Enter("running") ELSE UNCHANGED <<stage, left>>
  /\ UNCHANGED pending

(* wait_for_session_description keeps what comes before the description.   *)
(* The new state is made with the description, replay_pending_voice_events *)
(* applies what was kept, and the driver starts, all without an await.     *)
WaitForSessionDescription ==
  /\ Read("SessionDescription")
  /\ LET event == Head(inbox)
         now == IF event.op = "Binary" THEN client ELSE Numbered(client, event)
     IN  IF event.op = "SessionDescription"
           THEN /\ client' = FoldLeft(Apply, now, pending)
                /\ pending' = <<>> /\ Enter("running")
           ELSE /\ client' = now
                /\ pending' = Append(pending, event) /\ UNCHANGED <<stage, left>>

(* stage_timeout: the time is up, or the stage fails before: no            *)
(* connection, the end of the stream, a message that cannot be parsed.     *)
StageFails ==
  /\ stage \in Connecting /\ stage' = "failed"
  /\ UNCHANGED <<left, channel, inbox, pending, client, heart, waiting>>

-----------------------------------------------------------------------------
(* The running driver *)

MutAcknowledge(event) == UNCHANGED ack

(* GatewayHeartbeatAckState::acknowledge, by any HeartbeatAck.             *)
Acknowledge(event) ==
  IF event.op = "HeartbeatAck" THEN ack' = [pending |-> FALSE, age |-> None] ELSE UNCHANGED ack

(* handle_websocket_message                                                *)
ReadEvent ==
  /\ stage = "running" /\ ~beating
  /\ inbox # <<>> /\ inbox' = Tail(inbox) /\ waiting' = 0
  /\ client' = Apply(client, Head(inbox))
  /\ Acknowledge(Head(inbox))
  /\ UNCHANGED <<stage, left, channel, pending, beating, due>>

(* The stream ends: a closed connection, or the error of a broken one.     *)
EndOfStream ==
  /\ inbox = <<>> /\ peer = "gone" /\ ~beating
  /\ stage = "running" /\ stage' \in {"closed", "failed"}
  /\ UNCHANGED <<left, channel, inbox, pending, client, heart, waiting>>

(* The heartbeat branch.  The interval keeps its schedule: ticks that were *)
(* missed follow at once.                                                  *)
HeartbeatTick ==
  /\ stage = "running" /\ ~beating /\ due <= 0
  /\ due' = due + Interval
  /\ \/ /\ ack.pending /\ ack.age >= AckTimeout
        /\ stage' = "timeout"                     \* HeartbeatAckTimeout
        /\ UNCHANGED <<beating, owed>>
     \/ /\ ack.pending /\ ack.age < AckTimeout
        /\ UNCHANGED <<stage, beating, owed>>
     \/ /\ ~ack.pending /\ beating' = TRUE /\ owed' = TRUE
        /\ UNCHANGED stage
     \/ /\ ~ack.pending /\ peer = "gone" /\ stage' = "failed"
        /\ UNCHANGED <<beating, owed>>
  /\ UNCHANGED <<left, peer, members, sources, numbered, inbox, pending, client, ack, waiting>>

(* mark_sent, once the write is done.                                      *)
MarkSent ==
  /\ beating /\ beating' = FALSE
  /\ ack' = [pending |-> TRUE, age |-> 0]
  /\ UNCHANGED <<stage, left, channel, inbox, pending, client, due, waiting>>

-----------------------------------------------------------------------------
(* Time *)

ConnectTime ==
  /\ stage \in Connecting /\ left > 0
  /\ left' = left - 1
  /\ UNCHANGED <<heart, waiting>>

DriverTime ==
  /\ stage = "running" /\ due > -MaxLate
  /\ inbox # <<>> => waiting < MaxLate
  /\ due' = due - 1
  /\ waiting' = IF inbox = <<>> THEN 0 ELSE waiting + 1
  /\ ack' = [ack EXCEPT !.age = IF ack.pending THEN @ + 1 ELSE @]
  /\ UNCHANGED <<left, beating>>

Time ==
  /\ ConnectTime \/ DriverTime
  /\ UNCHANGED <<stage, channel, inbox, pending, client>>

Next ==
  \/ Answers
  \/ \E user \in User : Arrive(user) \/ Leave(user) \/ \E ssrc \in Ssrc : Speak(user, ssrc)
  \/ OtherEvent \/ AnswerHeartbeat \/ HangUp
  \/ Connect \/ ReadHello \/ WaitForOpcode \/ Discover \/ WaitForSessionDescription
  \/ StageFails
  \/ ReadEvent \/ EndOfStream \/ HeartbeatTick \/ MarkSent
  \/ Time

Spec == Init /\ [][Next]_vars

-----------------------------------------------------------------------------
(* Properties *)

(* Once a running connection has read everything, its roster is the        *)
(* gateway's: the members and the user of every announced source, with the *)
(* events that arrived between Ready and SessionDescription and were       *)
(* replayed, and without the sources of those who left.  The seq_ack that  *)
(* its next heartbeat carries is then of an event the state contains, and  *)
(* the roster counts as authoritative as soon as it names anyone.          *)
RosterExact ==
  stage = "running" /\ inbox = <<>> =>
    /\ client.users = members \cup {Me}
    /\ client.sources = sources
    /\ members # {} => client.authoritative
    /\ client.last_seq \in 0 .. numbered \cup {None}

AckUnread == {i \in DOMAIN inbox : inbox[i].op = "HeartbeatAck"}

(* The driver waits for exactly one acknowledgement while one heartbeat is *)
(* unanswered or its acknowledgement unread.  It never waits longer than   *)
(* the timeout, one interval and its own lateness, so a gateway that       *)
(* has gone silent is noticed; and it gives up with HeartbeatAckTimeout    *)
(* only after the whole timeout, with no acknowledgement read.             *)
HeartbeatWatch ==
  /\ stage = "running" => (ack.pending \/ beating <=> owed \/ AckUnread # {})
  /\ \A i, j \in AckUnread : i = j
  /\ owed => AckUnread = {}
  /\ ack.pending => ack.age < AckTimeout + Interval + MaxLate
  /\ stage = "timeout" =>
       ack.pending /\ ack.age >= AckTimeout /\ (owed \/ AckUnread # {})

=============================================================================
