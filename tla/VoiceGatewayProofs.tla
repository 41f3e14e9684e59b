-------------------------- MODULE VoiceGatewayProofs --------------------------
(***************************************************************************)
(* The heartbeat watch of VoiceGateway holds for every interval, timeout   *)
(* and lateness, every set of users and any number of events.              *)
(***************************************************************************)
EXTENDS VoiceGateway, TLAPS

Messages == [op : Op, users : SUBSET User, ssrc : Ssrc \cup {None}, seq : Nat \cup {None}]

Acks(messages) == {i \in DOMAIN messages : messages[i].op = "HeartbeatAck"}

Ended == {"failed", "timeout", "closed"}

TypesOfHeart ==
  /\ stage \in Connecting \cup {"running"} \cup Ended
  /\ inbox \in Seq(Messages) /\ numbered \in Nat
  /\ owed \in BOOLEAN /\ beating \in BOOLEAN /\ due \in Int
  /\ ack \in [pending : BOOLEAN, age : Nat \cup {None}]
  /\ ack.pending => ack.age \in Nat

(* The tick that ends a wait is never far: while an acknowledgement is     *)
(* awaited, its age and the time to the next tick stay below the timeout   *)
(* and one interval, since each tick that let it pass saw it younger than  *)
(* the timeout.                                                            *)
Schedule ==
  /\ due >= -MaxLate
  /\ stage \in Connecting =>
       ~ack.pending /\ ~beating /\ ~owed /\ Acks(inbox) = {} /\ due = Interval
  /\ beating => ~ack.pending /\ stage = "running"
  /\ due <= Interval
  /\ stage = "running" /\ ack.pending => ack.age + due < AckTimeout + Interval

HeartInv == TypesOfHeart /\ Schedule /\ HeartbeatWatch

(* The interval is at least one tick, and the timeout at least two of it.  *)
LEMMA Intervals ==
  /\ Interval \in Nat /\ Interval >= 1
  /\ AckTimeout \in Nat /\ AckTimeout >= 2 * Interval
  /\ MaxLate \in Nat
BY GatewayAssumption DEF GatewayAssumption, Interval, AckTimeout

(* What a message that arrives adds to the unread acknowledgements.        *)
LEMMA AppendAcks ==
  ASSUME NEW s \in Seq(Messages), NEW m \in Messages
  PROVE  /\ Append(s, m) \in Seq(Messages)
         /\ m.op # "HeartbeatAck" => Acks(Append(s, m)) = Acks(s)
         /\ m.op = "HeartbeatAck" => Acks(Append(s, m)) = Acks(s) \cup {Len(s) + 1}
         /\ Len(s) + 1 \notin Acks(s)
<1>1. /\ Append(s, m) \in Seq(Messages) /\ DOMAIN Append(s, m) = 1 .. (Len(s) + 1)
      /\ Append(s, m)[Len(s) + 1] = m
      /\ DOMAIN s = 1 .. Len(s) /\ Len(s) \in Nat
      /\ \A i \in 1 .. Len(s) : Append(s, m)[i] = s[i]
  OBVIOUS
<1> QED BY <1>1 DEF Acks

(* Reading the first message takes away its acknowledgement and no other.  *)
LEMMA TailAcks ==
  ASSUME NEW s \in Seq(Messages), s # <<>>
  PROVE  /\ Tail(s) \in Seq(Messages) /\ Head(s) \in Messages
         /\ \A i : i \in Acks(Tail(s)) <=> i \in Nat \ {0} /\ i + 1 \in Acks(s)
         /\ Head(s).op = "HeartbeatAck" <=> 1 \in Acks(s)
<1>1. /\ Tail(s) \in Seq(Messages) /\ DOMAIN Tail(s) = 1 .. (Len(s) - 1)
      /\ DOMAIN s = 1 .. Len(s) /\ Len(s) \in Nat \ {0} /\ Head(s) = s[1]
      /\ \A i \in 1 .. Len(s) - 1 : Tail(s)[i] = s[i + 1]
      /\ Head(s) \in Messages
  OBVIOUS
<1> QED BY <1>1 DEF Acks

(* A gateway's message that is no acknowledgement leaves the heart alone.  *)
LEMMA DeliverKeeps ==
  ASSUME HeartInv, NEW m \in Messages, m.op # "HeartbeatAck", Deliver(m),
         UNCHANGED owed, numbered' \in Nat
  PROVE  HeartInv'
<1>1. /\ inbox' = Append(inbox, m) /\ stage' = stage
      /\ ack' = ack /\ beating' = beating /\ due' = due
  BY DEF Deliver, heart
<1>2. inbox' \in Seq(Messages) /\ Acks(inbox') = Acks(inbox)
  BY <1>1, AppendAcks DEF HeartInv, TypesOfHeart
<1>3. TypesOfHeart' /\ Schedule'
  BY <1>1, <1>2 DEF HeartInv, TypesOfHeart, Schedule
<1>4. HeartbeatWatch'
  BY <1>1, <1>2 DEF HeartInv, HeartbeatWatch, AckUnread, Acks
<1> QED BY <1>3, <1>4 DEF HeartInv

(* The invariant is inductive.                                             *)
LEMMA HeartStep == HeartInv /\ [Next]_vars => HeartInv'
<1> SUFFICES ASSUME HeartInv, [Next]_vars PROVE HeartInv'
  OBVIOUS
<1> USE DEF heart, channel
<1>1. ASSUME NEW op, NEW from, NEW to, NEW at, Opens(op, from, to, at), op \in Op \ {"HeartbeatAck"}
      PROVE HeartInv'
  <2>1. Message(op, {}, None, None) \in Messages /\ Message(op, {}, None, None).op # "HeartbeatAck"
    BY <1>1 DEF Message, Messages
  <2> QED BY <1>1, <2>1, DeliverKeeps DEF Opens, HeartInv, TypesOfHeart
<1>2. ASSUME NEW op \in Op \ {"HeartbeatAck"}, NEW users \in SUBSET User,
             NEW ssrc \in Ssrc \cup {None}, Event(op, users, ssrc)
      PROVE HeartInv'
  <2>1. numbered' \in Nat
    BY <1>2 DEF Event, HeartInv, TypesOfHeart
  <2>2. /\ Message(op, users, ssrc, numbered') \in Messages
        /\ Message(op, users, ssrc, numbered').op # "HeartbeatAck"
    BY <1>2, <2>1 DEF Message, Messages
  <2> QED BY <1>2, <2>1, <2>2, DeliverKeeps DEF Event
<1>3. CASE Answers
  BY <1>1, <1>3 DEF Answers, Op
<1>4. ASSUME NEW user \in User, Arrive(user) PROVE HeartInv'
  BY <1>2, <1>4 DEF Arrive, Op
<1>5. ASSUME NEW user \in User, Leave(user) PROVE HeartInv'
  BY <1>2, <1>5 DEF Leave, Op
<1>6. ASSUME NEW user \in User, NEW ssrc \in Ssrc, Speak(user, ssrc) PROVE HeartInv'
  BY <1>2, <1>6 DEF Speak, Op
<1>7. CASE OtherEvent
  BY <1>2, <1>7 DEF OtherEvent, Op
<1>8. CASE AnswerHeartbeat
  <2> DEFINE m == Message("HeartbeatAck", {}, None, None)
  <2>1. m \in Messages /\ m.op = "HeartbeatAck"
    BY DEF Message, Messages, Op
  <2>2. /\ inbox' = Append(inbox, m) /\ stage' = stage /\ numbered' = numbered
        /\ ack' = ack /\ beating' = beating /\ due' = due
        /\ owed /\ owed' = FALSE
    BY <1>8 DEF AnswerHeartbeat, Deliver
  <2> HIDE DEF m
  <2>3. inbox' \in Seq(Messages) /\ Acks(inbox) = {} /\ Acks(inbox') = {Len(inbox) + 1}
    BY <2>1, <2>2, AppendAcks DEF HeartInv, TypesOfHeart, HeartbeatWatch, AckUnread, Acks
  <2>4. TypesOfHeart'
    BY ZenonT(30), <2>2, <2>3 DEF HeartInv, TypesOfHeart
  <2>5. Schedule'
    BY <2>2, <2>3 DEF HeartInv, Schedule
  <2>6. HeartbeatWatch'
    BY <2>2, <2>3 DEF HeartInv, HeartbeatWatch, AckUnread, Acks
  <2> QED BY <2>4, <2>5, <2>6 DEF HeartInv
<1>9. CASE HangUp
  BY <1>9 DEF HangUp, HeartInv, TypesOfHeart, Schedule, HeartbeatWatch, AckUnread, Acks
<1>10. CASE Connect \/ Discover \/ StageFails
  BY <1>10 DEF Connect, Discover, StageFails, Enter, Connecting, Ended,
       HeartInv, TypesOfHeart, Schedule, HeartbeatWatch, AckUnread, Acks
<1>11. CASE ReadHello \/ WaitForOpcode \/ WaitForSessionDescription
  <2>1. /\ stage \in Connecting /\ inbox # <<>> /\ inbox' = Tail(inbox)
        /\ owed' = owed /\ ack' = ack /\ beating' = beating /\ due' = due
        /\ numbered' = numbered
    BY <1>11 DEF ReadHello, WaitForOpcode, WaitForSessionDescription, Read, Connecting
  <2>2. stage' \in Connecting \cup {"running"}
    BY <1>11 DEF ReadHello, WaitForOpcode, WaitForSessionDescription, Read, Enter, Connecting
  <2>3. inbox' \in Seq(Messages) /\ Acks(inbox) = {}
    BY <2>1, TailAcks DEF HeartInv, TypesOfHeart, Schedule
  <2>4. Acks(inbox') = {}
    BY <2>1, <2>3, TailAcks DEF HeartInv, TypesOfHeart
  <2>5. TypesOfHeart' /\ Schedule'
    BY <2>1, <2>2, <2>3, <2>4 DEF HeartInv, TypesOfHeart, Schedule, Connecting, Ended
  <2>6. HeartbeatWatch'
    BY <2>1, <2>2, <2>4 DEF HeartInv, Schedule, HeartbeatWatch, AckUnread, Acks, Connecting
  <2> QED BY <2>5, <2>6 DEF HeartInv
<1>12. CASE ReadEvent
  <2>1. /\ stage = "running" /\ stage' = stage /\ ~beating /\ beating' = beating
        /\ inbox # <<>> /\ inbox' = Tail(inbox)
        /\ owed' = owed /\ due' = due /\ numbered' = numbered
    BY <1>12 DEF ReadEvent
  <2>2. /\ inbox' \in Seq(Messages) /\ Acks(inbox) \subseteq Nat
        /\ \A i : i \in Acks(inbox') <=> i \in Nat \ {0} /\ i + 1 \in Acks(inbox)
        /\ Head(inbox).op = "HeartbeatAck" <=> 1 \in Acks(inbox)
    BY <2>1, TailAcks DEF HeartInv, TypesOfHeart, Acks
  <2>3. /\ \A i, j \in Acks(inbox) : i = j
        /\ owed => Acks(inbox) = {}
        /\ ack.pending <=> owed \/ Acks(inbox) # {}
    BY <2>1 DEF HeartInv, HeartbeatWatch, AckUnread, Acks
  <2>4. CASE Head(inbox).op = "HeartbeatAck"
    <3>1. ack' = [pending |-> FALSE, age |-> None] /\ Acks(inbox') = {} /\ ~owed
      BY <1>12, <2>2, <2>3, <2>4 DEF ReadEvent, Acknowledge
    <3>2. TypesOfHeart' /\ Schedule'
      BY <2>1, <2>2, <3>1 DEF HeartInv, TypesOfHeart, Schedule, Connecting
    <3>3. HeartbeatWatch'
      BY <2>1, <3>1 DEF HeartbeatWatch, AckUnread, Acks
    <3> QED BY <3>2, <3>3 DEF HeartInv
  <2>5. CASE Head(inbox).op # "HeartbeatAck"
    <3>1. ack' = ack
      BY <1>12, <2>5 DEF ReadEvent, Acknowledge
    <3>2. /\ \A i, j \in Acks(inbox') : i = j
          /\ Acks(inbox') = {} <=> Acks(inbox) = {}
      <4>1. \A i \in Acks(inbox) : i - 1 \in Acks(inbox')
        BY <2>1, <2>2, <2>5 DEF HeartInv, TypesOfHeart, Acks
      <4>2. \A i, j \in Acks(inbox') : i = j
        BY <2>2, <2>3
      <4> QED BY <2>2, <4>1, <4>2
    <3>3. TypesOfHeart' /\ Schedule'
      BY <2>1, <2>2, <3>1 DEF HeartInv, TypesOfHeart, Schedule, Connecting
    <3>4. HeartbeatWatch'
      BY <2>1, <2>3, <3>1, <3>2 DEF HeartInv, HeartbeatWatch, AckUnread, Acks
    <3> QED BY <3>3, <3>4 DEF HeartInv
  <2> QED BY <2>4, <2>5
<1>13. CASE EndOfStream
  BY <1>13 DEF EndOfStream, Connecting, Ended,
       HeartInv, TypesOfHeart, Schedule, HeartbeatWatch, AckUnread, Acks
<1>14. CASE HeartbeatTick
  <2>1. /\ stage = "running" /\ ~beating /\ due <= 0 /\ due' = due + Interval
        /\ inbox' = inbox /\ ack' = ack /\ numbered' = numbered
    BY <1>14 DEF HeartbeatTick
  <2>2. CASE ack.pending
    <3>1. owed' = owed /\ beating' = beating
      BY <1>14, <2>2 DEF HeartbeatTick
    <3>2. \/ stage' = "timeout" /\ ack.age >= AckTimeout
          \/ stage' = "running" /\ ack.age < AckTimeout
      BY <1>14, <2>1, <2>2 DEF HeartbeatTick
    <3>3. TypesOfHeart' /\ Schedule'
      BY <2>1, <3>1, <3>2, Intervals DEF HeartInv, TypesOfHeart, Schedule, Connecting, Ended
    <3>4. HeartbeatWatch'
      BY <2>1, <2>2, <3>1, <3>2 DEF HeartInv, HeartbeatWatch, AckUnread
    <3> QED BY <3>3, <3>4 DEF HeartInv
  <2>3. CASE ~ack.pending
    <3>1. \/ beating' = TRUE /\ owed' = TRUE /\ stage' = "running"
          \/ beating' = FALSE /\ owed' = owed /\ stage' = "failed"
      BY <1>14, <2>1, <2>3 DEF HeartbeatTick, HeartInv, TypesOfHeart
    <3>2. AckUnread = {} /\ ~owed
      BY <2>1, <2>3 DEF HeartInv, HeartbeatWatch
    <3>3. due' \in Int /\ due' >= -MaxLate /\ due' <= Interval
      BY <2>1, Intervals DEF HeartInv, TypesOfHeart, Schedule
    <3>4. TypesOfHeart'
      BY ZenonT(30), <2>1, <3>1, <3>3 DEF HeartInv, TypesOfHeart, Ended
    <3>5. Schedule'
      BY <2>1, <2>3, <3>1, <3>3 DEF Schedule, Connecting
    <3>6. HeartbeatWatch'
      BY <2>1, <2>3, <3>1, <3>2 DEF HeartInv, HeartbeatWatch, AckUnread
    <3> QED BY <3>4, <3>5, <3>6 DEF HeartInv
  <2> QED BY <2>2, <2>3
<1>15. CASE MarkSent
  <2>1. /\ beating /\ beating' = FALSE /\ ack' = [pending |-> TRUE, age |-> 0]
        /\ stage' = stage /\ owed' = owed /\ inbox' = inbox /\ due' = due /\ numbered' = numbered
    BY <1>15 DEF MarkSent
  <2>2. stage = "running"
    BY <2>1 DEF HeartInv, Schedule
  <2>3. /\ ack' \in [pending : BOOLEAN, age : Nat \cup {None}]
        /\ ack'.pending /\ ack'.age = 0 /\ 0 \in Nat
    BY <2>1
  <2>4. TypesOfHeart'
    BY ZenonT(30), <2>1, <2>3 DEF HeartInv, TypesOfHeart
  <2>5. Schedule'
    BY <2>1, <2>2, <2>3, Intervals DEF HeartInv, TypesOfHeart, Schedule, Connecting
  <2>6. HeartbeatWatch'
    BY <2>1, <2>2, Intervals DEF HeartInv, HeartbeatWatch, AckUnread
  <2> QED BY <2>4, <2>5, <2>6 DEF HeartInv
<1>16. CASE Time
  <2>1. CASE ConnectTime
    BY <1>16, <2>1 DEF Time, ConnectTime, HeartInv, TypesOfHeart, Schedule, HeartbeatWatch,
         AckUnread, Acks
  <2>2. CASE DriverTime
    <3>1. /\ stage = "running" /\ stage' = stage /\ due > -MaxLate /\ due' = due - 1
          /\ beating' = beating /\ owed' = owed /\ inbox' = inbox /\ numbered' = numbered
          /\ ack' = [ack EXCEPT !.age = IF ack.pending THEN @ + 1 ELSE @]
      BY <1>16, <2>2 DEF Time, DriverTime
    <3>2. /\ ack' \in [pending : BOOLEAN, age : Nat \cup {None}]
          /\ ack'.pending = ack.pending
          /\ ack.pending => ack'.age \in Nat /\ ack'.age = ack.age + 1
      BY <3>1 DEF HeartInv, TypesOfHeart
    <3>3. due' \in Int /\ due' >= -MaxLate /\ due' <= Interval
      BY <3>1, Intervals DEF HeartInv, TypesOfHeart, Schedule
    <3>4. TypesOfHeart'
      BY ZenonT(30), <3>1, <3>2, <3>3 DEF HeartInv, TypesOfHeart
    <3>5. Schedule'
      BY <3>1, <3>2, <3>3, Intervals DEF HeartInv, TypesOfHeart, Schedule, Connecting
    <3>6. ack'.pending => ack'.age < AckTimeout + Interval + MaxLate
      BY <3>1, <3>2, <3>3, <3>5, Intervals DEF Schedule
    <3>7. HeartbeatWatch'
      BY <3>1, <3>2, <3>6 DEF HeartInv, HeartbeatWatch, AckUnread
    <3> QED BY <3>4, <3>5, <3>7 DEF HeartInv
  <2> QED BY <1>16, <2>1, <2>2 DEF Time
<1>17. CASE UNCHANGED vars
  BY <1>17 DEF vars, HeartInv, TypesOfHeart, Schedule, HeartbeatWatch, AckUnread, Acks
<1> QED
  BY ZenonT(30), <1>3, <1>4, <1>5, <1>6, <1>7, <1>8, <1>9, <1>10, <1>11, <1>12, <1>13, <1>14,
     <1>15, <1>16, <1>17 DEF Next

(* For every heartbeat interval, least timeout and lateness of the driver: *)
(* one acknowledgement is awaited exactly while one is outstanding, a      *)
(* silent gateway is noticed in time, and HeartbeatAckTimeout is never     *)
(* returned early or after the acknowledgement was read.                   *)
THEOREM HeartbeatsWatched == Spec => []HeartbeatWatch
<1>1. Init => HeartInv
  <2> SUFFICES ASSUME Init PROVE HeartInv
    OBVIOUS
  <2>1. Acks(inbox) = {} /\ inbox \in Seq(Messages)
    BY DEF Init, Acks
  <2>2. ack \in [pending : BOOLEAN, age : Nat \cup {None}] /\ ~ack.pending
    BY DEF Init
  <2>3. stage \in Connecting /\ numbered \in Nat /\ due \in Int
    BY Intervals DEF Init, Connecting
  <2>4. TypesOfHeart
    BY ZenonT(30), <2>1, <2>2, <2>3 DEF Init, TypesOfHeart
  <2>5. Schedule
    BY <2>1, Intervals DEF Init, Schedule
  <2>6. HeartbeatWatch
    BY <2>1 DEF Init, HeartbeatWatch, AckUnread, Acks
  <2> QED BY <2>4, <2>5, <2>6 DEF HeartInv
<1>2. HeartInv => HeartbeatWatch
  BY DEF HeartInv
<1> QED BY <1>1, <1>2, HeartStep, PTL DEF Spec

=============================================================================
