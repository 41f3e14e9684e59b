------------------------ MODULE ConnectionDriverProofs ------------------------
(***************************************************************************)
(* For any number of requests and waiters and any capacities: every call   *)
(* is in exactly one place (InOneQueue), and the driver implements the     *)
(* safety part of the contract of ConnectionService.                       *)
(***************************************************************************)
EXTENDS ConnectionDriver, TLAPS

Callers == Result \cup {"idle", "sending", "waiting", "gone"}

CallState ==
  [kind : Kind \cup {None}, caller : Callers, place : Place \cup {None}, left : Nat \cup {None}]

Item == Request \cup {"Close"}

Types ==
  /\ req \in [Request -> CallState]
  /\ commands \in Seq(Item) /\ media \in Seq(Request)

Distinct(s) == \A i, j \in DOMAIN s : s[i] = s[j] /\ i # j => s[i] = "Close"

(* A call is placed only after it was sent, and nowhere once the driver    *)
(* has ended.                                                              *)
Placed ==
  /\ \A r \in Request : req[r].caller \in {"idle", "sending"} => req[r].place = None
  /\ pc = "ended" => \A r \in Request : req[r].place = None
  /\ Distinct(media)

QueueInv == Types /\ Placed /\ InOneQueue

-----------------------------------------------------------------------------
(* Sequences *)

(* Append adds one element at the end of a queue (mpsc send); a queue      *)
(* without repetition, Close aside, stays one.                             *)
LEMMA AppendRange ==
  ASSUME NEW S, NEW s \in Seq(S), NEW e \in S
  PROVE  /\ Append(s, e) \in Seq(S) /\ Len(Append(s, e)) = Len(s) + 1
         /\ Range(Append(s, e)) = Range(s) \cup {e}
         /\ Distinct(s) /\ (e = "Close" \/ e \notin Range(s)) => Distinct(Append(s, e))
<1>1. /\ Append(s, e) \in Seq(S) /\ DOMAIN Append(s, e) = 1 .. (Len(s) + 1)
      /\ Append(s, e)[Len(s) + 1] = e /\ Len(Append(s, e)) = Len(s) + 1
      /\ DOMAIN s = 1 .. Len(s) /\ Len(s) \in Nat
      /\ \A i \in 1 .. Len(s) : Append(s, e)[i] = s[i]
  OBVIOUS
<1>2. Range(Append(s, e)) = Range(s) \cup {e}
  BY <1>1 DEF Range
<1>3. ASSUME Distinct(s), e = "Close" \/ e \notin Range(s) PROVE Distinct(Append(s, e))
  BY <1>1, <1>3 DEF Range, Distinct
<1> QED BY <1>1, <1>2, <1>3

(* recv takes the head of a queue, and a head other than Close is then no  *)
(* longer in it.                                                           *)
LEMMA TailRange ==
  ASSUME NEW S, NEW s \in Seq(S), s # <<>>
  PROVE  /\ Tail(s) \in Seq(S) /\ Head(s) \in S /\ Len(Tail(s)) <= Len(s)
         /\ Range(s) = Range(Tail(s)) \cup {Head(s)}
         /\ Distinct(s) => Distinct(Tail(s))
         /\ Distinct(s) /\ Head(s) # "Close" => Head(s) \notin Range(Tail(s))
<1>1. /\ Tail(s) \in Seq(S) /\ DOMAIN Tail(s) = 1 .. (Len(s) - 1) /\ Len(Tail(s)) = Len(s) - 1
      /\ DOMAIN s = 1 .. Len(s) /\ Len(s) \in Nat \ {0} /\ Head(s) = s[1] /\ s[1] \in S
      /\ \A i \in 1 .. Len(s) - 1 : Tail(s)[i] = s[i + 1]
  OBVIOUS
<1>2. Range(Tail(s)) \cup {Head(s)} \subseteq Range(s)
  BY <1>1 DEF Range
<1>3. ASSUME NEW i \in DOMAIN s PROVE s[i] \in Range(Tail(s)) \cup {Head(s)}
  <2>1. CASE i = 1
    BY <1>1, <2>1
  <2>2. CASE i # 1
    <3>1. i - 1 \in DOMAIN Tail(s) /\ Tail(s)[i - 1] = s[i]
      BY <1>1, <1>3, <2>2
    <3> QED BY <3>1 DEF Range
  <2> QED BY <2>1, <2>2
<1>4. Range(s) = Range(Tail(s)) \cup {Head(s)}
  BY <1>2, <1>3 DEF Range
<1>5. ASSUME Distinct(s) PROVE Distinct(Tail(s))
  BY <1>1, <1>5 DEF Distinct
<1>6. ASSUME Distinct(s), Head(s) # "Close" PROVE Head(s) \notin Range(Tail(s))
  BY <1>1, <1>6 DEF Distinct, Range
<1> QED BY <1>1, <1>4, <1>5, <1>6

(* A queue that was drained or dropped.                                    *)
LEMMA EmptyQueue ==
  ASSUME NEW S
  PROVE  <<>> \in Seq(S) /\ Len(<<>>) = 0 /\ Range(<<>>) = {} /\ Distinct(<<>>) /\ DOMAIN <<>> = {}
BY DEF Range, Distinct

(* None is not a place, and Close not a request.                           *)
LEMMA NoneApart ==
  /\ None \notin Place /\ None \notin {"command"} /\ None \notin {"media"}
  /\ None \notin {"receives"} /\ None \notin {"sending"} /\ "Close" \notin Request
BY ConnectionAssumption DEF ConnectionAssumption, Place

-----------------------------------------------------------------------------
(* Replies *)

(* A reply takes a call out of its place, and changes a caller only that   *)
(* still expects it.                                                       *)
LEMMA AnswerEffect ==
  ASSUME NEW c \in CallState, NEW a \in Result
  PROVE  /\ Answer(c, a) \in CallState /\ Answer(c, a).place = None
         /\ c.caller \notin {"sending", "waiting"} => Answer(c, a).caller = c.caller
         /\ c.caller \in {"sending", "waiting"} => Answer(c, a).caller \in Result
<1> DEFINE caller == IF c.caller \notin {"sending", "waiting"} THEN c.caller
                     ELSE IF c.kind = "Status" THEN "Ok" ELSE a
<1>1. Answer(c, a) = [c EXCEPT !.place = None, !.left = None, !.kind = None, !.caller = caller]
  BY DEF Answer
<1>2. /\ caller \in Callers
      /\ c.caller \notin {"sending", "waiting"} => caller = c.caller
      /\ c.caller \in {"sending", "waiting"} => caller \in Result
  BY DEF CallState, Callers, Result
<1> HIDE DEF caller
<1> QED BY <1>1, <1>2, Zenon DEF CallState, Place

(* The replies of one step: who is answered leaves its place, nobody else  *)
(* changes.                                                                *)
LEMMA AnswerAllEffect ==
  ASSUME Types, NEW calls \in SUBSET Request, NEW a \in Result, AnswerAll(calls, a)
  PROVE  /\ req' \in [Request -> CallState]
         /\ \A r \in Request \ calls : req'[r] = req[r]
         /\ \A r \in calls :
              /\ req'[r].place = None
              /\ req[r].caller \notin {"sending", "waiting"} => req'[r].caller = req[r].caller
              /\ req[r].caller \in {"sending", "waiting"} => req'[r].caller \in Result
<1>1. \A r \in Request : req[r] \in CallState
  BY DEF Types
<1>2. \A r \in Request : req'[r] = IF r \in calls THEN Answer(req[r], a) ELSE req[r]
  BY DEF AnswerAll
<1>3. DOMAIN req' = Request /\ req' = [r \in Request |-> req'[r]]
  BY DEF AnswerAll
<1>4. \A r \in Request : req'[r] \in CallState
  BY <1>1, <1>2, AnswerEffect
<1> QED BY <1>1, <1>2, <1>3, <1>4, AnswerEffect

-----------------------------------------------------------------------------
(* Every call is in one place: the steps that move calls *)

(* A step that leaves every call in its place.                             *)
LEMMA SamePlaces ==
  ASSUME QueueInv, UNCHANGED queues, pc' = pc, req' \in [Request -> CallState],
         \A r \in Request : /\ req'[r].place = req[r].place
                            /\ req'[r].caller \in {"idle", "sending"} => req'[r].place = None
                            /\ req'[r].caller = "waiting" => req'[r].place # None
  PROVE  QueueInv'
<1>1. \A S : In(S)' = In(S)
  BY DEF In
<1>2. commands' = commands /\ media' = media /\ receives' = receives
  BY DEF queues
<1>3. Types' /\ Placed'
  BY <1>2 DEF QueueInv, Types, Placed
<1>4. InOneQueue'
  BY <1>1, <1>2 DEF QueueInv, InOneQueue, Placed
<1> QED BY <1>3, <1>4 DEF QueueInv

(* A step of the rest of the system.                                       *)
LEMMA QueuesKept ==
  ASSUME QueueInv, UNCHANGED <<req, queues>>, pc' = "ended" => pc = "ended"
  PROVE  QueueInv'
BY DEF QueueInv, Types, Placed, InOneQueue, queues, In

(* A call has been made, and is in no place yet (ensure_open).             *)
LEMMA CallQueues ==
  ASSUME QueueInv, NEW r \in Request, NEW c \in Calls, Call(r, c[1], c[2])
  PROVE  QueueInv'
<1> DEFINE call == [kind |-> c[1], caller |-> "sending", place |-> None, left |-> c[2]]
           made == IF closed = "open" THEN call ELSE Answer(call, "Closed")
<1>1. c[1] \in Kind /\ c[2] \in Nat \cup {None}
  BY ConnectionAssumption DEF Calls, ConnectionAssumption, Kind
<1>2. call \in CallState
  BY <1>1 DEF CallState, Callers, Place
<1>3. call.caller = "sending" /\ call.place = None
  OBVIOUS
<1> HIDE DEF call
<1>4. /\ made \in CallState /\ made.place = None
      /\ made.caller \in Result \cup {"sending"}
  BY <1>2, <1>3, AnswerEffect DEF Result
<1>5. /\ req' = [req EXCEPT ![r] = made] /\ req[r].caller = "idle"
      /\ UNCHANGED queues /\ pc' = pc
  BY DEF Call, call, Driver
<1> HIDE DEF made
<1>6. req' \in [Request -> CallState] /\ req[r].place = None
  BY <1>4, <1>5 DEF QueueInv, Types, Placed
<1>7. \A q \in Request : req'[q] = IF q = r THEN made ELSE req[q]
  BY <1>5 DEF QueueInv, Types
<1>8. ASSUME NEW q \in Request
      PROVE  /\ req'[q].place = req[q].place
             /\ req'[q].caller \in {"idle", "sending"} => req'[q].place = None
             /\ req'[q].caller = "waiting" => req'[q].place # None
  BY <1>4, <1>6, <1>7 DEF QueueInv, Placed, InOneQueue, Result
<1> QED BY <1>5, <1>6, <1>8, SamePlaces

(* A dropped future leaves its call where it is: the driver finds the      *)
(* reply channel closed later.                                             *)
LEMMA DropCallQueues ==
  ASSUME QueueInv, NEW r \in Request, DropCall(r)
  PROVE  QueueInv'
<1>1. /\ req' = [req EXCEPT ![r].caller = "gone"]
      /\ UNCHANGED queues /\ pc' = pc
  BY DEF DropCall, Driver
<1>2. req \in [Request -> CallState]
  BY DEF QueueInv, Types
<1>3. req' \in [Request -> CallState]
  BY <1>1, <1>2 DEF CallState, Callers
<1>4. \A q \in Request : /\ req'[q].place = req[q].place
                         /\ req'[q].caller = IF q = r THEN "gone" ELSE req[q].caller
  BY <1>1, <1>2 DEF CallState
<1>5. ASSUME NEW q \in Request
      PROVE  /\ req'[q].place = req[q].place
             /\ req'[q].caller \in {"idle", "sending"} => req'[q].place = None
             /\ req'[q].caller = "waiting" => req'[q].place # None
  BY <1>4 DEF QueueInv, Placed, InOneQueue
<1> QED BY <1>1, <1>3, <1>5, SamePlaces

(* Time moves no call.                                                     *)
LEMMA TickQueues ==
  ASSUME QueueInv, Tick
  PROVE  QueueInv'
<1>1. req \in [Request -> CallState]
  BY DEF QueueInv, Types
<1>2. ASSUME NEW q \in Request
      PROVE  /\ req'[q] \in CallState
             /\ req'[q].place = req[q].place /\ req'[q].caller = req[q].caller
  <2>1. req'[q] = IF req[q].place \in Timed THEN [req[q] EXCEPT !.left = Less(req[q].left)] ELSE req[q]
    BY DEF Tick
  <2>2. Less(req[q].left) \in Nat \cup {None}
    BY <1>1 DEF Less, CallState
  <2> QED BY <1>1, <2>1, <2>2 DEF CallState
<1>3. req' \in [Request -> CallState]
  BY <1>2 DEF Tick
<1>4. ASSUME NEW q \in Request
      PROVE  /\ req'[q].place = req[q].place
             /\ req'[q].caller \in {"idle", "sending"} => req'[q].place = None
             /\ req'[q].caller = "waiting" => req'[q].place # None
  BY <1>2 DEF QueueInv, Placed, InOneQueue
<1>5. UNCHANGED queues /\ pc' = pc
  BY DEF Tick
<1> QED BY <1>3, <1>4, <1>5, SamePlaces

(* Callers and places agree.                                               *)
Agree ==
  \A r \in Request : /\ req[r].caller \in {"idle", "sending"} => req[r].place = None
                     /\ req[r].caller = "waiting" => req[r].place # None

(* What the invariant says of the queues and the callers.                  *)
LEMMA QueueFacts ==
  ASSUME QueueInv
  PROVE  /\ req \in [Request -> CallState] /\ Agree
         /\ commands \in Seq(Item) /\ media \in Seq(Request)
         /\ Distinct(commands) /\ Distinct(media)
         /\ Len(commands) <= CommandCapacity /\ Len(media) <= MediaCapacity
         /\ DOMAIN receives = In({"receives"}) /\ Range(media) = In({"media"})
         /\ Range(commands) \ {"Close"} = In({"command"})
BY DEF QueueInv, Types, Placed, InOneQueue, Agree, Distinct

(* Calls that are answered leave their places, and no other call moves.    *)
LEMMA AnsweredOut ==
  ASSUME QueueInv, NEW calls \in SUBSET Request, NEW a \in Result, AnswerAll(calls, a)
  PROVE  /\ req' \in [Request -> CallState] /\ Agree'
         /\ \A p \in Place : In({p})' = In({p}) \ calls
<1>1. /\ req' \in [Request -> CallState]
      /\ \A r \in Request \ calls : req'[r] = req[r]
      /\ \A r \in calls :
           /\ req'[r].place = None
           /\ req[r].caller \notin {"sending", "waiting"} => req'[r].caller = req[r].caller
           /\ req[r].caller \in {"sending", "waiting"} => req'[r].caller \in Result
  BY AnswerAllEffect DEF QueueInv
<1>2. Agree'
  BY <1>1 DEF Agree, QueueInv, Placed, InOneQueue, Result
<1>3. ASSUME NEW p \in Place PROVE In({p})' = In({p}) \ calls
  BY <1>1, NoneApart DEF In
<1> QED BY <1>1, <1>2, <1>3

(* A call that the driver holds moves to another of its places.            *)
LEMMA Moved ==
  ASSUME QueueInv, NEW r \in Request, NEW place \in Place,
         req[r].place # None, Hold(r, place)
  PROVE  /\ req' \in [Request -> CallState] /\ Agree'
         /\ \A p \in Place : In({p})' = IF p = place THEN In({p}) \cup {r} ELSE In({p}) \ {r}
<1>1. req \in [Request -> CallState] /\ req' = [req EXCEPT ![r].place = place]
  BY DEF QueueInv, Types, Hold
<1>2. req' \in [Request -> CallState]
  BY <1>1 DEF CallState
<1>3. \A q \in Request : /\ req'[q].place = IF q = r THEN place ELSE req[q].place
                         /\ req'[q].caller = req[q].caller
  BY <1>1 DEF CallState
<1>4. Agree'
  BY <1>3, NoneApart, QueueFacts DEF Agree
<1>5. ASSUME NEW p \in Place
      PROVE  In({p})' = IF p = place THEN In({p}) \cup {r} ELSE In({p}) \ {r}
  BY <1>3 DEF In
<1> QED BY <1>2, <1>4, <1>5, Zenon

(* What is left to show once a step's places are known.                    *)
LEMMA QueuesMatch ==
  ASSUME req' \in [Request -> CallState], Agree', pc' # "ended",
         commands' \in Seq(Item), media' \in Seq(Request),
         Distinct(commands'), Distinct(media'),
         Len(commands') <= CommandCapacity, Len(media') <= MediaCapacity,
         DOMAIN receives' = In({"receives"})', Range(media') = In({"media"})',
         Range(commands') \ {"Close"} = In({"command"})'
  PROVE  QueueInv'
<1>1. Types' /\ Placed'
  BY DEF Types, Placed, Agree
<1>2. InOneQueue'
  BY DEF InOneQueue, Agree, Distinct
<1> QED BY <1>1, <1>2 DEF QueueInv

(* A call is answered that was in no place.                                *)
LEMMA AnsweredAtOnce ==
  ASSUME QueueInv, NEW r \in Request, NEW a \in Result, AnswerAll({r}, a),
         req[r].place = None, UNCHANGED queues, pc' = pc
  PROVE  QueueInv'
<1>1. req' \in [Request -> CallState] /\ Agree'
  BY AnsweredOut
<1>2. \A q \in Request : req'[q].place = req[q].place
  BY AnswerAllEffect DEF QueueInv
<1> QED BY <1>1, <1>2, SamePlaces DEF Agree

(* A call that is sent takes its place.                                    *)
LEMMA Sent ==
  ASSUME QueueInv, NEW r \in Request, NEW place \in Place,
         NEW caller \in Callers \ {"idle", "sending"}, req[r].place = None,
         req' = [req EXCEPT ![r].place = place, ![r].caller = caller]
  PROVE  /\ req' \in [Request -> CallState] /\ Agree'
         /\ \A p \in Place : In({p})' = IF p = place THEN In({p}) \cup {r} ELSE In({p})
<1> DEFINE sent == [req[r] EXCEPT !.place = place, !.caller = caller]
<1>1. req \in [Request -> CallState] /\ req' = [req EXCEPT ![r] = sent]
  BY Zenon DEF QueueInv, Types
<1>2. sent \in CallState /\ sent.place = place /\ sent.caller = caller
  BY <1>1 DEF CallState
<1> HIDE DEF sent
<1>3. /\ req' \in [Request -> CallState]
      /\ \A q \in Request : req'[q] = IF q = r THEN sent ELSE req[q]
  BY <1>1, <1>2, Zenon
<1>4. Agree'
  BY <1>2, <1>3, NoneApart, QueueFacts DEF Agree
<1>5. ASSUME NEW p \in Place
      PROVE  In({p})' = IF p = place THEN In({p}) \cup {r} ELSE In({p})
  BY <1>2, <1>3, NoneApart DEF In
<1> QED BY <1>3, <1>4, <1>5

(* send_command: the call is in the command queue, or answered at once.    *)
LEMMA SendCommandQueues ==
  ASSUME QueueInv, NEW r \in Request, SendCommand(r)
  PROVE  QueueInv'
<1> DEFINE full == Len(commands) >= CommandCapacity
<1>0. req[r].place = None /\ pc' = pc /\ media' = media /\ receives' = receives
  BY QueueFacts DEF SendCommand, Driver, Agree
<1>1. CASE pc = "ended" \/ full
  <2>1. \E a \in Result : AnswerAll({r}, a)
    BY <1>1 DEF SendCommand, Result
  <2>2. UNCHANGED queues
    BY <1>0, <1>1 DEF SendCommand, queues
  <2> QED BY <1>0, <2>1, <2>2, AnsweredAtOnce
<1>2. CASE pc # "ended" /\ ~full
  <2> DEFINE caller == IF req[r].kind = "Speaking" THEN "Ok" ELSE "waiting"
  <2>1. /\ commands' = Append(commands, r)
        /\ req' = [req EXCEPT ![r].place = "command", ![r].caller = caller]
    BY <1>2 DEF SendCommand
  <2>2. "command" \in Place /\ caller \in Callers \ {"idle", "sending"}
    BY QueueFacts DEF Place, Callers, Result
  <2> HIDE DEF caller
  <2>3. /\ req' \in [Request -> CallState] /\ Agree'
        /\ \A p \in Place : In({p})' = IF p = "command" THEN In({p}) \cup {r} ELSE In({p})
    BY <1>0, <2>1, <2>2, Sent, Zenon
  <2>4. /\ In({"command"})' = In({"command"}) \cup {r}
        /\ In({"receives"})' = In({"receives"}) /\ In({"media"})' = In({"media"})
    BY <2>3, Zenon DEF Place
  <2>5. r \in Item /\ r \notin Range(commands)
    BY <1>0, QueueFacts, NoneApart DEF Item, In
  <2>6. /\ commands' \in Seq(Item) /\ Distinct(commands')
        /\ Len(commands') = Len(commands) + 1 /\ Range(commands') = Range(commands) \cup {r}
    BY <2>1, <2>5, AppendRange, QueueFacts
  <2>7. Len(commands') <= CommandCapacity
    BY <1>2, <2>6, QueueFacts, ConnectionAssumption DEF ConnectionAssumption
  <2>8. Range(commands') \ {"Close"} = In({"command"})'
    BY <2>4, <2>6, QueueFacts, NoneApart
  <2> QED BY <1>0, <1>2, <2>3, <2>4, <2>6, <2>7, <2>8, QueueFacts, QueuesMatch
<1> QED BY <1>1, <1>2

(* media_tx.send: the call is in the media queue, or answered at once.     *)
LEMMA SendMediaQueues ==
  ASSUME QueueInv, NEW r \in Request, SendMedia(r)
  PROVE  QueueInv'
<1>0. req[r].place = None /\ pc' = pc /\ commands' = commands /\ receives' = receives
  BY QueueFacts DEF SendMedia, Driver, Agree
<1>1. CASE AnswerAll({r}, "Closed") /\ UNCHANGED media
  BY <1>0, <1>1, AnsweredAtOnce DEF queues, Result
<1>2. CASE /\ pc # "ended" /\ Len(media) < MediaCapacity /\ media' = Append(media, r)
           /\ req' = [req EXCEPT ![r].place = "media", ![r].caller = "waiting"]
  <2>1. "media" \in Place /\ "waiting" \in Callers \ {"idle", "sending"}
    BY QueueFacts DEF Place, Callers
  <2>2. /\ req' \in [Request -> CallState] /\ Agree'
        /\ \A p \in Place : In({p})' = IF p = "media" THEN In({p}) \cup {r} ELSE In({p})
    BY <1>0, <1>2, <2>1, Sent, Zenon
  <2>3. /\ In({"command"})' = In({"command"})
        /\ In({"receives"})' = In({"receives"}) /\ In({"media"})' = In({"media"}) \cup {r}
    BY <2>2, Zenon DEF Place
  <2>4. r \notin Range(media)
    BY <1>0, QueueFacts, NoneApart DEF In
  <2>5. /\ media' \in Seq(Request) /\ Distinct(media')
        /\ Len(media') = Len(media) + 1 /\ Range(media') = Range(media) \cup {r}
    BY <1>2, <2>4, AppendRange, QueueFacts
  <2>6. Len(media') <= MediaCapacity
    BY <1>2, <2>5, QueueFacts, ConnectionAssumption DEF ConnectionAssumption
  <2> QED BY <1>0, <1>2, <2>2, <2>3, <2>5, <2>6, QueueFacts, QueuesMatch
<1> QED BY <1>1, <1>2 DEF SendMedia

(* close_and_wait adds a Close only where there is room.                   *)
LEMMA CloseAndWaitQueues ==
  ASSUME QueueInv, NEW w \in Waiter, CloseAndWait(w)
  PROVE  QueueInv'
<1>1. req' = req /\ pc' = pc /\ media' = media /\ receives' = receives
  BY DEF CloseAndWait, Driver
<1>2. CASE commands' = commands
  BY <1>1, <1>2, QueuesKept DEF queues
<1>3. CASE /\ pc # "ended" /\ Len(commands) < CommandCapacity
           /\ commands' = Append(commands, "Close")
  <2>1. /\ commands' \in Seq(Item) /\ Distinct(commands')
        /\ Len(commands') = Len(commands) + 1 /\ Range(commands') = Range(commands) \cup {"Close"}
    BY <1>3, AppendRange, QueueFacts DEF Item
  <2>2. Len(commands') <= CommandCapacity
    BY <1>3, <2>1, QueueFacts, ConnectionAssumption DEF ConnectionAssumption
  <2>3. Agree' /\ \A S : In(S)' = In(S)
    BY <1>1, QueueFacts DEF Agree, In
  <2> QED BY <1>1, <1>3, <2>1, <2>2, <2>3, QueueFacts, QueuesMatch
<1> QED BY <1>2, <1>3 DEF CloseAndWait

(* A command leaves its queue: it is answered, or moves to another place.  *)
LEMMA HandleCommandQueues ==
  ASSUME QueueInv, HandleCommand
  PROVE  QueueInv'
<1> DEFINE r == Head(commands)
<1>1. /\ commands # <<>> /\ commands' = Tail(commands) /\ media' = media
      /\ pc = "select" /\ OnCommand(r)
  BY DEF HandleCommand
<1>2. /\ commands' \in Seq(Item) /\ Distinct(commands') /\ r \in Item
      /\ Len(commands') <= CommandCapacity
      /\ Range(commands) = Range(commands') \cup {r}
      /\ r # "Close" => r \notin Range(commands')
  <2>1. /\ Len(commands') <= Len(commands) /\ Len(commands') \in Nat /\ Len(commands) \in Nat
        /\ commands' \in Seq(Item) /\ Distinct(commands') /\ r \in Item
        /\ Range(commands) = Range(commands') \cup {r}
        /\ r # "Close" => r \notin Range(commands')
    BY <1>1, TailRange, QueueFacts
  <2> QED BY <2>1, QueueFacts, ConnectionAssumption DEF ConnectionAssumption
<1>3. pc' # "ended"
  BY <1>1 DEF OnCommand, Fail
<1> HIDE DEF r
<1>4. CASE r = "Close"
  <2>1. req' = req /\ receives' = receives
    BY <1>1, <1>4, NoneApart DEF OnCommand
  <2>2. Agree' /\ \A p \in Place : In({p})' = In({p})
    BY <2>1, QueueFacts DEF Agree, In
  <2>3. Range(commands') \ {"Close"} = In({"command"})'
    BY <1>2, <1>4, <2>2, QueueFacts, Zenon DEF Place
  <2>4. DOMAIN receives' = In({"receives"})' /\ Range(media') = In({"media"})'
    BY <1>1, <2>1, <2>2, QueueFacts, Zenon DEF Place
  <2> QED BY <1>1, <1>2, <1>3, <2>1, <2>2, <2>3, <2>4, QueueFacts, QueuesMatch
<1>5. CASE r # "Close"
  <2>1. r \in Request /\ req[r].place = "command"
    BY <1>2, <1>5, QueueFacts DEF Item, In
  <2>2. \/ /\ receives' = receives /\ \E a \in Result : AnswerAll({r}, a)
        \/ /\ receives' = receives /\ \E place \in Place \ {"command", "receives", "media"} : Hold(r, place)
        \/ /\ Hold(r, "receives") /\ DOMAIN receives' = DOMAIN receives \cup {r}
    BY <1>1, <1>5 DEF OnCommand, PushReceive, Result, Place, Timed
  <2>3. /\ req' \in [Request -> CallState] /\ Agree'
        /\ In({"command"})' = In({"command"}) \ {r}
        /\ In({"media"})' = In({"media"}) \ {r}
        /\ DOMAIN receives' = In({"receives"})'
    <3>1. r \notin In({"media"}) /\ r \notin In({"receives"})
      BY <2>1 DEF In
    <3>2. CASE receives' = receives /\ \E a \in Result : AnswerAll({r}, a)
      <4>1. /\ req' \in [Request -> CallState] /\ Agree'
            /\ \A p \in Place : In({p})' = In({p}) \ {r}
        BY <2>1, <3>2, AnsweredOut, Zenon
      <4> QED BY <3>1, <3>2, <4>1, QueueFacts, Zenon DEF Place
    <3>3. CASE /\ receives' = receives
               /\ \E place \in Place \ {"command", "receives", "media"} : Hold(r, place)
      <4>1. PICK place \in Place \ {"command", "receives", "media"} : Hold(r, place)
        BY <3>3
      <4>2. /\ req' \in [Request -> CallState] /\ Agree'
            /\ \A p \in Place : In({p})' = IF p = place THEN In({p}) \cup {r} ELSE In({p}) \ {r}
        BY <2>1, <4>1, Moved, NoneApart, Zenon
      <4>3. /\ In({"command"})' = In({"command"}) \ {r} /\ In({"media"})' = In({"media"}) \ {r}
            /\ In({"receives"})' = In({"receives"}) \ {r}
        BY <4>1, <4>2, Zenon DEF Place
      <4>4. DOMAIN receives' = In({"receives"})'
        BY <3>1, <3>3, <4>3, QueueFacts, Zenon
      <4> QED BY <4>2, <4>3, <4>4
    <3>4. CASE Hold(r, "receives") /\ DOMAIN receives' = DOMAIN receives \cup {r}
      <4>1. /\ req' \in [Request -> CallState] /\ Agree'
            /\ \A p \in Place : In({p})' = IF p = "receives" THEN In({p}) \cup {r} ELSE In({p}) \ {r}
        BY <2>1, <3>4, Moved, NoneApart, Zenon DEF Place
      <4>2. /\ In({"receives"})' = In({"receives"}) \cup {r}
            /\ In({"command"})' = In({"command"}) \ {r} /\ In({"media"})' = In({"media"}) \ {r}
        BY <4>1, Zenon DEF Place
      <4>3. DOMAIN receives' = In({"receives"})'
        BY <3>4, <4>2, QueueFacts
      <4> QED BY <4>1, <4>2, <4>3
    <3> QED BY <2>2, <3>2, <3>3, <3>4
  <2>4. Range(commands') \ {"Close"} = In({"command"})'
    BY <1>2, <1>5, <2>3, QueueFacts
  <2>5. Range(media') = In({"media"})'
    BY <1>1, <2>1, <2>3, QueueFacts DEF In
  <2> QED BY <1>1, <1>2, <1>3, <2>3, <2>4, <2>5, QueueFacts, QueuesMatch
<1> QED BY <1>4, <1>5

(* The same of a Finish of a playout.                                      *)
LEMMA HandlePlayoutCommandQueues ==
  ASSUME QueueInv, HandlePlayoutCommand
  PROVE  QueueInv'
<1> DEFINE r == Head(media)
<1>1. /\ media # <<>> /\ media' = Tail(media) /\ commands' = commands /\ receives' = receives
      /\ pc' # "ended" /\ (Hold(r, "finish") \/ AnswerAll({r}, "Closed"))
  BY DEF HandlePlayoutCommand
<1>2. /\ Len(media') <= Len(media) /\ Len(media') \in Nat /\ Len(media) \in Nat
      /\ media' \in Seq(Request) /\ Distinct(media') /\ r \in Request
      /\ Range(media) = Range(media') \cup {r}
      /\ r # "Close" => r \notin Range(media')
  BY <1>1, TailRange, QueueFacts
<1>3. Len(media') <= MediaCapacity
  BY <1>2, QueueFacts, ConnectionAssumption DEF ConnectionAssumption
<1> HIDE DEF r
<1>4. req[r].place = "media"
  BY <1>2, QueueFacts DEF In
<1>5. /\ req' \in [Request -> CallState] /\ Agree'
      /\ \A p \in Place \ {"finish"} : In({p})' = In({p}) \ {r}
  <2>1. CASE Hold(r, "finish")
    BY <1>2, <1>4, <2>1, Moved, NoneApart, Zenon DEF Place
  <2>2. CASE AnswerAll({r}, "Closed")
    BY <1>2, <2>2, AnsweredOut DEF Result
  <2> QED BY <1>1, <2>1, <2>2
<1>6. /\ In({"command"})' = In({"command"}) /\ In({"receives"})' = In({"receives"})
      /\ In({"media"})' = In({"media"}) \ {r}
  <2>1. r \notin In({"command"}) /\ r \notin In({"receives"})
    BY <1>4 DEF In
  <2> QED BY <1>5, <2>1, Zenon DEF Place
<1>7. Range(media') = In({"media"})'
  <2>1. /\ Range(media) = In({"media"}) /\ Range(media) = Range(media') \cup {r}
        /\ r \notin Range(media')
    BY <1>2, QueueFacts, NoneApart
  <2>2. In({"media"})' = Range(media) \ {r}
    BY <1>6, <2>1
  <2> QED BY <2>1, <2>2
<1> QED BY <1>1, <1>2, <1>3, <1>5, <1>6, <1>7, QueueFacts, QueuesMatch

(* A send that is over is in no place.                                     *)
LEMMA SendNextQueues ==
  ASSUME QueueInv, SendNext
  PROVE  QueueInv'
<1>1. PICK r \in In({"sending"}), a \in Result : AnswerAll({r}, a)
  BY DEF SendNext, Result
<1>2. /\ commands' = commands /\ media' = media /\ receives' = receives /\ pc' # "ended"
  BY DEF SendNext, queues
<1>3. r \in Request /\ req[r].place = "sending"
  BY DEF In
<1>4. /\ req' \in [Request -> CallState] /\ Agree'
      /\ \A p \in Place : In({p})' = In({p}) \ {r}
  BY <1>1, <1>3, AnsweredOut, Zenon
<1>5. /\ In({"command"})' = In({"command"}) /\ In({"receives"})' = In({"receives"})
      /\ In({"media"})' = In({"media"})
  <2>1. r \notin In({"command"}) /\ r \notin In({"receives"}) /\ r \notin In({"media"})
    BY <1>3 DEF In
  <2>2. /\ In({"command"})' = In({"command"}) \ {r} /\ In({"media"})' = In({"media"}) \ {r}
        /\ In({"receives"})' = In({"receives"}) \ {r}
    BY <1>4, Zenon DEF Place
  <2> QED BY <2>1, <2>2
<1> QED BY <1>2, <1>4, <1>5, QueueFacts, QueuesMatch

(* A datagram takes calls out of pending_packet_receives and answers the   *)
(* same calls.                                                             *)
LEMMA UdpPacketQueues ==
  ASSUME QueueInv, UdpPacket
  PROVE  QueueInv'
<1>1. PICK taken \in SUBSET DOMAIN receives, a \in Result :
        AnswerAll(taken, a) /\ receives' = Restrict(receives, DOMAIN receives \ taken)
  <2>1. PICK rtcp \in BOOLEAN, a \in {"Ok", "Failed"} :
          LET taken == FirstOf("RawUdp") \cup (IF rtcp THEN {} ELSE FirstOf("RtpUdp"))
          IN  AnswerAll(taken, a) /\ receives' = Restrict(receives, DOMAIN receives \ taken)
    BY Zenon DEF UdpPacket
  <2> DEFINE taken == FirstOf("RawUdp") \cup (IF rtcp THEN {} ELSE FirstOf("RtpUdp"))
  <2>2. taken \in SUBSET DOMAIN receives
    BY DEF FirstOf
  <2> HIDE DEF FirstOf
  <2> QED BY <2>1, <2>2 DEF Result
<1>2. /\ commands' = commands /\ media' = media /\ pc' # "ended"
  BY DEF UdpPacket
<1>3. taken \in SUBSET Request /\ taken \subseteq In({"receives"})
  BY QueueFacts DEF In
<1>4. /\ req' \in [Request -> CallState] /\ Agree'
      /\ \A p \in Place : In({p})' = In({p}) \ taken
  BY <1>1, <1>3, AnsweredOut
<1>5. /\ In({"command"})' = In({"command"}) /\ In({"media"})' = In({"media"})
      /\ In({"receives"})' = In({"receives"}) \ taken
  <2>1. taken \cap In({"command"}) = {} /\ taken \cap In({"media"}) = {}
    BY <1>3 DEF In
  <2> QED BY <1>4, <2>1, Zenon DEF Place
<1>6. DOMAIN receives' = In({"receives"})'
  BY <1>1, <1>5, QueueFacts DEF Restrict
<1> QED BY <1>2, <1>4, <1>5, <1>6, QueueFacts, QueuesMatch

(* The driver lets go of everything.                                       *)
LEMMA EmptiedQueues ==
  ASSUME QueueInv, AnswerAll(Held, "Closed"),
         commands' = <<>>, media' = <<>>, receives' = <<>>
  PROVE  QueueInv'
<1>1. Held \in SUBSET Request /\ "Closed" \in Result
  BY DEF Held, Result
<1>2. req' \in [Request -> CallState] /\ Agree'
  BY <1>1, AnsweredOut, Zenon
<1>3. \A r \in Request : req'[r].place = None
  BY <1>1, AnswerAllEffect DEF QueueInv, Held
<1>4. \A p \in Place : In({p})' = {}
  BY <1>3, NoneApart DEF In
<1>5. Types'
  BY <1>2, EmptyQueue DEF Types
<1>6. Placed'
  BY <1>3, EmptyQueue DEF Placed
<1>7. InOneQueue'
  <2>1. /\ In({"receives"})' = {} /\ In({"media"})' = {} /\ In({"command"})' = {}
    BY <1>4, Zenon DEF Place
  <2>2. \A r \in Request : req'[r].caller # "waiting"
    BY <1>2, <1>3 DEF Agree
  <2>3. Len(commands') <= CommandCapacity /\ Len(media') <= MediaCapacity
    BY EmptyQueue, ConnectionAssumption DEF ConnectionAssumption
  <2> QED BY <2>1, <2>2, <2>3, EmptyQueue, Zenon DEF InOneQueue
<1> QED BY <1>5, <1>6, <1>7 DEF QueueInv

(* At the head of the loop, answered calls and released sends leave the    *)
(* driver's own places only.                                               *)
LEMMA LoopTopEffect ==
  ASSUME QueueInv, LoopTop
  PROVE  /\ req' \in [Request -> CallState] /\ Agree'
         /\ \A p \in {"command", "media"} : In({p})' = In({p})
         /\ DOMAIN receives' = In({"receives"})'
         /\ \A r \in Request : \/ req'[r].caller = req[r].caller
                               \/ req[r].caller = "waiting" /\ req'[r].caller \in Result
<1> DEFINE gone == {r \in In({"receives"}) : req[r].caller = "gone"}
<1>1. PICK finished \in SUBSET In({"finish"}), a \in Result : Resolve(gone, finished, a)
  BY Zenon DEF LoopTop, Result
<1>2. receives' = Restrict(receives, DOMAIN receives \ gone)
  BY DEF LoopTop
<1>3. ASSUME NEW r \in Request
      PROVE  /\ req'[r] \in CallState
             /\ \/ req'[r] = req[r] /\ r \notin gone
                \/ /\ req[r].place \in Place \ {"command", "media", "receives"} \/ r \in gone
                   /\ \/ req'[r].place = "sending" /\ req'[r].caller = req[r].caller
                         /\ req[r].place = "sends"
                      \/ \E answer \in Result : req'[r] = Answer(req[r], answer)
  <2> DEFINE released == [req[r] EXCEPT !.place = "sending", !.left = None]
  <2>0. req[r] \in CallState
    BY QueueFacts
  <2>1. released \in CallState /\ released.place = "sending" /\ released.caller = req[r].caller
    BY <2>0, Zenon DEF CallState, Place
  <2>2. \A answer \in Result : Answer(req[r], answer) \in CallState
    BY <2>0, AnswerEffect
  <2>3. req'[r] = CASE r \in gone -> Answer(req[r], "Closed")
                    [] r \in finished -> Answer(req[r], a)
                    [] ready /\ req[r].place = "waits" -> Answer(req[r], "Ok")
                    [] ready /\ req[r].place = "sends" -> released
                    [] ~ready /\ r \in Expired -> Answer(req[r], "Failed")
                    [] OTHER -> req[r]
    BY <1>1, Zenon DEF Resolve
  <2>4. /\ r \in gone => req[r].place = "receives"
        /\ r \in finished => req[r].place = "finish"
        /\ r \in Expired => req[r].place \in {"waits", "sends"}
    BY <1>1 DEF In, Expired, Timed
  <2> HIDE DEF released, gone
  <2>5. CASE r \in gone
    <3>1. req'[r] = Answer(req[r], "Closed")
      BY <2>3, <2>4, <2>5
    <3> QED BY <2>2, <2>5, <3>1 DEF Result
  <2>6. CASE r \in finished
    <3>1. req'[r] = Answer(req[r], a)
      BY <2>3, <2>4, <2>6
    <3>2. req[r].place \in Place \ {"command", "media", "receives"}
      BY <2>4, <2>6 DEF Place
    <3> QED BY <2>2, <3>1, <3>2
  <2>7. CASE ready /\ req[r].place = "waits"
    <3>1. req'[r] = Answer(req[r], "Ok")
      BY <2>3, <2>4, <2>7
    <3>2. req[r].place \in Place \ {"command", "media", "receives"}
      BY <2>7 DEF Place, Timed
    <3> QED BY <2>2, <3>1, <3>2 DEF Result
  <2>8. CASE ready /\ req[r].place = "sends"
    <3>1. req'[r] = released
      BY <2>3, <2>4, <2>8
    <3>2. req[r].place \in Place \ {"command", "media", "receives"}
      BY <2>8 DEF Place, Timed
    <3> QED BY <2>1, <2>8, <3>1, <3>2
  <2>9. CASE ~ready /\ r \in Expired
    <3>1. req'[r] = Answer(req[r], "Failed")
      BY <2>3, <2>4, <2>9
    <3>2. req[r].place \in Place \ {"command", "media", "receives"}
      BY <2>4, <2>9 DEF Place, Timed
    <3> QED BY <2>2, <3>1, <3>2 DEF Result
  <2>10. CASE /\ r \notin gone /\ r \notin finished /\ ~(ready /\ req[r].place = "waits")
              /\ ~(ready /\ req[r].place = "sends") /\ ~(~ready /\ r \in Expired)
    <3>1. req'[r] = req[r]
      BY <2>3, <2>10
    <3> QED BY <2>0, <2>10, <3>1
  <2> QED BY <2>5, <2>6, <2>7, <2>8, <2>9, <2>10
<1> HIDE DEF gone
<1>4. req' \in [Request -> CallState]
  BY <1>1, <1>3, Zenon DEF Resolve
<1>5. ASSUME NEW r \in Request
      PROVE  /\ \/ req'[r].caller = req[r].caller
                \/ req[r].caller = "waiting" /\ req'[r].caller \in Result
             /\ \/ req'[r].place = req[r].place /\ req'[r].caller = req[r].caller /\ r \notin gone
                \/ /\ req[r].place \in Place \ {"command", "media", "receives"} \/ r \in gone
                   /\ \/ /\ req'[r].place = "sending" /\ req'[r].caller = req[r].caller
                         /\ req[r].place = "sends"
                      \/ req'[r].place = None /\ req'[r].caller # "waiting"
  <2>1. req[r] \in CallState /\ (req[r].place # None => req[r].caller # "sending")
    BY QueueFacts DEF Agree
  <2>2. r \in gone => req[r].place = "receives"
    BY DEF gone, In
  <2>3. CASE \E answer \in Result : req'[r] = Answer(req[r], answer)
    BY <1>3, <2>1, <2>2, <2>3, AnswerEffect, NoneApart DEF Result
  <2>4. CASE ~\E answer \in Result : req'[r] = Answer(req[r], answer)
    BY <1>3, <2>4
  <2> QED BY <2>3, <2>4
<1>6. ASSUME NEW r \in Request
      PROVE  /\ req'[r].caller \in {"idle", "sending"} => req'[r].place = None
             /\ req'[r].caller = "waiting" => req'[r].place # None
  <2>1. /\ req[r].caller \in {"idle", "sending"} => req[r].place = None
        /\ req[r].caller = "waiting" => req[r].place # None
        /\ None # "sends" /\ None # "sending"
    BY QueueFacts, NoneApart DEF Agree, Place, Timed
  <2> QED BY <1>5, <2>1 DEF Result
<1>7. \A p \in {"command", "media"} : In({p})' = In({p})
  <2>1. \A r \in gone : req[r].place = "receives"
    BY DEF gone, In
  <2> QED BY <1>5, <2>1, NoneApart DEF In
<1>8. DOMAIN receives' = In({"receives"}) \ gone
  BY <1>2, QueueFacts DEF Restrict
<1>9. In({"receives"})' = In({"receives"}) \ gone
  <2>1. \A r \in gone : req[r].place = "receives"
    BY DEF gone, In
  <2>2. \A r \in Request : req'[r].place = "receives" <=> req[r].place = "receives" /\ r \notin gone
    BY <1>5, <2>1, NoneApart
  <2> QED BY <2>2 DEF In
<1> QED BY <1>4, <1>5, <1>6, <1>7, <1>8, <1>9 DEF Agree

(* The head of the loop loses no call.                                     *)
LEMMA LoopTopQueues ==
  ASSUME QueueInv, LoopTop
  PROVE  QueueInv'
<1>1. commands' = commands /\ media' = media /\ pc' # "ended"
  BY DEF LoopTop, Fail
<1>2. In({"command"})' = In({"command"}) /\ In({"media"})' = In({"media"})
  BY LoopTopEffect
<1> QED BY <1>1, <1>2, LoopTopEffect, QueueFacts, QueuesMatch

-----------------------------------------------------------------------------

(* Nothing is queued at the start.                                         *)
LEMMA QueueInit == Init => QueueInv
<1> SUFFICES ASSUME Init PROVE QueueInv
  OBVIOUS
<1>1. \A r \in Request : /\ req[r] \in CallState
                         /\ req[r].place = None /\ req[r].caller = "idle"
  BY DEF Init, CallState, Callers
<1>2. Types
  BY <1>1, EmptyQueue DEF Init, Types
<1>3. Placed
  BY <1>1, EmptyQueue DEF Init, Placed
<1>4. In({"receives"}) = {} /\ In({"media"}) = {} /\ In({"command"}) = {}
  BY <1>1, NoneApart DEF In
<1>5. Len(commands) <= CommandCapacity /\ Len(media) <= MediaCapacity
  BY EmptyQueue, ConnectionAssumption DEF Init, ConnectionAssumption
<1>6. InOneQueue
  BY <1>1, <1>4, <1>5, EmptyQueue, Zenon DEF Init, InOneQueue
<1> QED BY <1>2, <1>3, <1>6 DEF QueueInv

(* The steps that touch neither a call nor a queue.                        *)
Elsewhere ==
  \/ Close \/ Publish \/ DropConnection \/ JoinRecv \/ JoinReply
  \/ \E w \in Waiter : JoinSend(w) \/ DropWait(w)
  \/ CloseBranch \/ Wake \/ WebsocketEvent \/ WebsocketClosed \/ OtherBranch \/ DriverFails

(* Every step keeps the queues and the places of the calls in agreement.   *)
LEMMA QueueStep == QueueInv /\ [Next]_vars => QueueInv'
<1> SUFFICES ASSUME QueueInv, [Next]_vars PROVE QueueInv'
  OBVIOUS
<1>1. CASE Elsewhere
  <2>1. UNCHANGED <<req, queues>> /\ (pc' = "ended" => pc = "ended")
    BY <1>1 DEF Elsewhere, Close, Publish, DropConnection, JoinRecv, JoinReply, JoinSend, DropWait,
         CloseBranch, Wake, WebsocketEvent, WebsocketClosed, OtherBranch, DriverFails, Fail, Driver
  <2> QED BY <2>1, QueuesKept
<1>2. ASSUME NEW r \in Request, \/ \E c \in Calls : Call(r, c[1], c[2])
                                \/ SendCommand(r) \/ SendMedia(r) \/ DropCall(r)
      PROVE  QueueInv'
  BY <1>2, CallQueues, SendCommandQueues, SendMediaQueues, DropCallQueues
<1>3. ASSUME NEW w \in Waiter, CloseAndWait(w) PROVE QueueInv'
  BY <1>3, CloseAndWaitQueues
<1>4. CASE LoopTop \/ SendNext \/ HandleCommand \/ HandlePlayoutCommand \/ UdpPacket \/ Tick
  BY <1>4, LoopTopQueues, SendNextQueues, HandleCommandQueues, HandlePlayoutCommandQueues,
     UdpPacketQueues, TickQueues
<1>5. CASE Drain \/ Return \/ Abort
  <2>1. AnswerAll(Held, "Closed") /\ commands' = <<>> /\ media' = <<>> /\ receives' = <<>>
    BY <1>5 DEF Drain, Return, Abort, Dropped
  <2> QED BY <2>1, EmptiedQueues
<1>6. CASE UNCHANGED vars
  BY <1>6, QueuesKept DEF vars, queues
<1> QED BY <1>1, <1>2, <1>3, <1>4, <1>5, <1>6 DEF Next, Elsewhere

(* Whatever the application, the gateway and the network do, every call is *)
(* in exactly one place, no queue overflows, and nobody waits for a driver *)
(* that has ended or has lost the call: the reply is never forgotten.      *)
THEOREM EveryCallIsHeld == Spec => []InOneQueue
<1>1. QueueInv => InOneQueue
  BY DEF QueueInv
<1> QED BY <1>1, QueueInit, QueueStep, PTL DEF Spec

-----------------------------------------------------------------------------
(* The driver, the join task and closing *)

Waits == {"idle", "sending", "waiting", "gone", "Ok", "Failed"}

(* The waiter in the channel and the one being served are two that have    *)
(* not returned; the join task lets go of the driver only after its end;   *)
(* the driver ends only closed, and with a result.                         *)
TaskInv ==
  /\ closed \in {"open", "swapped", "published"} /\ waiter \in [Waiter -> Waits]
  /\ join \in [task : BOOLEAN, serving : Waiter \cup {None}, channel : Seq(Waiter)]
  /\ join.channel # <<>> => \E w \in Waiter : /\ join.channel = <<w>> /\ w # join.serving
                                              /\ waiter[w] \in {"waiting", "gone"}
  /\ join.serving # None => waiter[join.serving] \in {"waiting", "gone"}
  /\ ~join.task => pc = "ended"
  /\ pc \in {"return", "ended"} => closed # "open"
  /\ abort => closed # "open"
  /\ pc \in {"drain", "return", "ended"} => result \in {"Ok", "Failed"}

(* The steps of the driver and of requests.                                *)
DriverSteps ==
  \/ \E r \in Request : \/ \E c \in Calls : Call(r, c[1], c[2])
                        \/ SendCommand(r) \/ SendMedia(r) \/ DropCall(r)
  \/ LoopTop \/ SendNext \/ HandleCommand \/ HandlePlayoutCommand
  \/ CloseBranch \/ UdpPacket \/ Wake \/ WebsocketEvent \/ WebsocketClosed
  \/ OtherBranch \/ DriverFails \/ Drain \/ Return \/ Abort \/ Tick

(* What they do to the rest.                                               *)
LEMMA DriverStepsEffect ==
  ASSUME TaskInv, DriverSteps
  PROVE  /\ join' = join /\ waiter' = waiter /\ abort' = abort
         /\ closed' = closed \/ (closed = "open" /\ closed' = "published")
         /\ \/ pc' = pc /\ result' = result
            \/ pc \notin {"return", "ended"} /\ pc' \notin {"drain", "return", "ended"}
            \/ pc \notin {"return", "ended"} /\ pc' = "drain" /\ result' \in {"Ok", "Failed"}
            \/ pc = "drain" /\ pc' = "return" /\ result' = result /\ closed' # "open"
            \/ pc = "return" /\ pc' = "ended" /\ result' = result
            \/ pc # "ended" /\ abort /\ pc' = "ended" /\ result' = "Failed"
<1>1. CASE \E r \in Request : \/ \E c \in Calls : Call(r, c[1], c[2])
                              \/ SendCommand(r) \/ SendMedia(r) \/ DropCall(r)
  BY <1>1, Zenon DEF Call, SendCommand, SendMedia, DropCall, app, Driver
<1>2. CASE LoopTop \/ SendNext
  BY <1>2, Zenon DEF LoopTop, SendNext, app, Fail
<1>3. CASE HandleCommand
  BY <1>3 DEF HandleCommand, OnCommand, Fail, DriverClose
<1>4. CASE \/ HandlePlayoutCommand \/ CloseBranch \/ UdpPacket \/ Wake \/ WebsocketEvent
           \/ OtherBranch \/ DriverFails \/ Tick
  BY <1>4 DEF HandlePlayoutCommand, CloseBranch, UdpPacket, Wake, WebsocketEvent, OtherBranch,
       DriverFails, Tick, app, Fail
<1>5. CASE WebsocketClosed \/ Drain
  BY <1>5 DEF WebsocketClosed, Drain, DriverClose
<1>6. CASE Return \/ Abort
  BY <1>6 DEF Return, Abort, Dropped, app
<1> QED BY <1>1, <1>2, <1>3, <1>4, <1>5, <1>6 DEF DriverSteps

(* At the start nobody waits for the end.                                  *)
LEMMA TaskInit == Init => TaskInv
BY ConnectionAssumption, EmptyQueue DEF Init, TaskInv, Waits

(* Every step keeps the relation of the driver, the join task and its      *)
(* waiters.                                                                *)
LEMMA TaskStep == TaskInv /\ [Next]_vars => TaskInv'
<1> SUFFICES ASSUME TaskInv, [Next]_vars PROVE TaskInv'
  OBVIOUS
<1>1. CASE DriverSteps
  BY <1>1, DriverStepsEffect DEF TaskInv
<1>2. CASE Close \/ Publish \/ DropConnection
  BY <1>2 DEF Close, Publish, DropConnection, Driver, TaskInv
<1>3. ASSUME NEW w \in Waiter, CloseAndWait(w) PROVE TaskInv'
  BY <1>3 DEF CloseAndWait, Driver, TaskInv, Waits
<1>4. ASSUME NEW w \in Waiter, JoinSend(w) PROVE TaskInv'
  <2> <<w>> \in Seq(Waiter)
    OBVIOUS
  <2>1. /\ join'.channel = <<w>> /\ join'.serving = join.serving /\ join'.task = join.task
        /\ join' \in [task : BOOLEAN, serving : Waiter \cup {None}, channel : Seq(Waiter)]
    BY <1>4, ZenonT(30) DEF JoinSend, TaskInv
  <2>2. /\ waiter' \in [Waiter -> Waits] /\ waiter[w] = "sending" /\ waiter'[w] = "waiting"
        /\ \A v \in Waiter : v # w => waiter'[v] = waiter[v]
    BY <1>4 DEF JoinSend, TaskInv, Waits
  <2>3. w # join.serving
    BY <2>2, ConnectionAssumption DEF TaskInv
  <2>4. UNCHANGED <<closed, pc, result, abort>>
    BY <1>4 DEF JoinSend, Driver
  <2> QED BY <2>1, <2>2, <2>3, <2>4 DEF TaskInv
<1>5. ASSUME NEW w \in Waiter, DropWait(w) PROVE TaskInv'
  BY <1>5 DEF DropWait, Driver, TaskInv, Waits
<1>6. CASE JoinRecv
  <2>1. PICK w \in Waiter : join.channel = <<w>> /\ waiter[w] \in {"waiting", "gone"}
    BY <1>6 DEF JoinRecv, TaskInv
  <2> <<>> \in Seq(Waiter) /\ Head(<<w>>) = w
    OBVIOUS
  <2> join' = [join EXCEPT !.serving = w, !.channel = <<>>]
    BY <1>6, <2>1 DEF JoinRecv
  <2>2. /\ join'.channel = <<>> /\ join'.serving = w /\ join'.task = join.task
        /\ join' \in [task : BOOLEAN, serving : Waiter \cup {None}, channel : Seq(Waiter)]
    BY ZenonT(30) DEF TaskInv
  <2>3. UNCHANGED <<closed, pc, result, abort, waiter>>
    BY <1>6 DEF JoinRecv, Driver
  <2> QED BY <2>1, <2>2, <2>3 DEF TaskInv
<1>7. CASE JoinReply
  <2>1. /\ join'.channel = join.channel /\ join'.serving = None /\ pc = "ended"
        /\ join' \in [task : BOOLEAN, serving : Waiter \cup {None}, channel : Seq(Waiter)]
    BY <1>7, Zenon DEF JoinReply, TaskInv
  <2>2. /\ waiter' \in [Waiter -> Waits]
        /\ \A v \in Waiter : v # join.serving => waiter'[v] = waiter[v]
    BY <1>7 DEF JoinReply, TaskInv, Waits
  <2>3. UNCHANGED <<closed, pc, result, abort>>
    BY <1>7 DEF JoinReply, Driver
  <2>4. ASSUME NEW w \in Waiter, join.channel = <<w>>, w # join.serving,
               waiter[w] \in {"waiting", "gone"}
        PROVE  join'.channel = <<w>> /\ w # join'.serving /\ waiter'[w] \in {"waiting", "gone"}
    BY <2>1, <2>2, <2>4, ConnectionAssumption
  <2>5. join'.channel # <<>> => \E w \in Waiter : /\ join'.channel = <<w>> /\ w # join'.serving
                                                /\ waiter'[w] \in {"waiting", "gone"}
    BY <2>1, <2>4 DEF TaskInv
  <2> QED BY <2>1, <2>2, <2>3, <2>5 DEF TaskInv
<1>8. CASE UNCHANGED vars
  BY <1>8 DEF vars, TaskInv
<1> QED BY <1>1, <1>2, <1>3, <1>4, <1>5, <1>6, <1>7, <1>8 DEF Next, DriverSteps

-----------------------------------------------------------------------------
(* The contract of ConnectionService *)

(* Callers change only from waiting to a reply.                            *)
Replied == \A r \in Request : \/ req'[r].caller = req[r].caller
                              \/ req[r].caller = "waiting" /\ req'[r].caller \in Result

(* Calls that the driver holds are answered.                               *)
LEMMA HeldReplied ==
  ASSUME QueueInv, NEW calls \in SUBSET Request, NEW a \in Result, AnswerAll(calls, a),
         \A r \in calls : req[r].place # None
  PROVE  Replied
<1>1. Agree /\ Types
  BY QueueFacts DEF QueueInv
<1> QED BY <1>1, AnswerAllEffect, Zenon DEF Replied, Agree

(* A call that moves is not answered.                                      *)
LEMMA HoldReplied ==
  ASSUME QueueInv, NEW r \in Request, NEW place, Hold(r, place)
  PROVE  Replied
<1>1. req \in [Request -> CallState] /\ req' = [req EXCEPT ![r].place = place]
  BY DEF QueueInv, Types, Hold
<1>2. \A q \in Request : req'[q].caller = req[q].caller
  BY <1>1 DEF CallState
<1> QED BY <1>2 DEF Replied

(* The first command, and the first request of a playout, are held.        *)
LEMMA HeadHeld ==
  ASSUME QueueInv
  PROVE  /\ commands # <<>> /\ Head(commands) # "Close" =>
              Head(commands) \in Request /\ req[Head(commands)].place # None
         /\ media # <<>> => Head(media) \in Request /\ req[Head(media)].place # None
<1>1. /\ commands \in Seq(Item) /\ media \in Seq(Request)
      /\ Range(media) = In({"media"}) /\ Range(commands) \ {"Close"} = In({"command"})
  BY QueueFacts
<1>2. ASSUME commands # <<>>, Head(commands) # "Close" PROVE Head(commands) \in In({"command"})
  BY <1>1, <1>2, TailRange
<1>3. ASSUME media # <<>> PROVE Head(media) \in In({"media"})
  BY <1>1, <1>3, TailRange
<1> QED BY <1>2, <1>3, NoneApart DEF In

(* The steps of the living driver, and of the clock, answer only those     *)
(* that wait.                                                              *)
LEMMA DriverReplies ==
  ASSUME QueueInv,
         \/ LoopTop \/ SendNext \/ HandleCommand \/ HandlePlayoutCommand \/ UdpPacket
         \/ Drain \/ Return \/ Abort \/ Tick
  PROVE  Replied
<1>1. CASE LoopTop
  BY <1>1, LoopTopEffect DEF Replied
<1>2. CASE SendNext
  <2>1. PICK r \in In({"sending"}), answer \in Result : AnswerAll({r}, answer)
    BY <1>2 DEF SendNext, Result
  <2>2. r \in Request /\ req[r].place # None
    BY NoneApart DEF In
  <2> QED BY <2>1, <2>2, HeldReplied
<1>3. CASE HandleCommand
  <2> DEFINE r == Head(commands)
  <2>1. OnCommand(r) /\ commands # <<>>
    BY <1>3 DEF HandleCommand
  <2>2. r # "Close" => r \in Request /\ req[r].place # None
    BY <2>1, HeadHeld
  <2> HIDE DEF r
  <2>3. \/ r = "Close" /\ req' = req
        \/ r # "Close" /\ \E answer \in Result : AnswerAll({r}, answer)
        \/ r # "Close" /\ \E place \in Place : Hold(r, place)
    BY <2>1 DEF OnCommand, Result, Place, Timed
  <2>4. CASE req' = req
    BY <2>4 DEF Replied
  <2> QED BY <2>2, <2>3, <2>4, HeldReplied, HoldReplied
<1>4. CASE HandlePlayoutCommand
  <2> DEFINE r == Head(media)
  <2>1. /\ r \in Request /\ req[r].place # None
        /\ Hold(r, "finish") \/ AnswerAll({r}, "Closed")
    BY <1>4, HeadHeld DEF HandlePlayoutCommand
  <2> HIDE DEF r
  <2> QED BY <2>1, HeldReplied, HoldReplied DEF Result
<1>5. CASE UdpPacket
  <2>1. PICK rtcp \in BOOLEAN, answer \in {"Ok", "Failed"} :
          AnswerAll(FirstOf("RawUdp") \cup (IF rtcp THEN {} ELSE FirstOf("RtpUdp")), answer)
    BY <1>5, Zenon DEF UdpPacket
  <2> DEFINE taken == FirstOf("RawUdp") \cup (IF rtcp THEN {} ELSE FirstOf("RtpUdp"))
  <2>2. taken \subseteq DOMAIN receives
    BY DEF FirstOf
  <2>3. AnswerAll(taken, answer) /\ answer \in Result
    BY <2>1 DEF Result
  <2> HIDE DEF taken
  <2>4. taken \subseteq Request /\ \A r \in taken : req[r].place # None
    BY <2>2, QueueFacts, NoneApart DEF In
  <2> QED BY <2>3, <2>4, HeldReplied
<1>6. CASE Drain \/ Return \/ Abort
  <2>1. AnswerAll(Held, "Closed")
    BY <1>6 DEF Drain, Return, Abort, Dropped
  <2>2. Held \subseteq Request /\ \A r \in Held : req[r].place # None
    BY DEF Held
  <2> QED BY <2>1, <2>2, HeldReplied DEF Result
<1>7. CASE Tick
  <2>1. ASSUME NEW q \in Request PROVE req'[q].caller = req[q].caller
    <3>1. req[q] \in CallState
      BY QueueFacts
    <3>2. req'[q] = req[q] \/ req'[q] = [req[q] EXCEPT !.left = Less(req[q].left)]
      BY <1>7 DEF Tick
    <3> QED BY <3>1, <3>2 DEF CallState
  <2> QED BY <2>1 DEF Replied
<1> QED BY <1>1, <1>2, <1>3, <1>4, <1>5, <1>6, <1>7

(* What the contract sees of the callers and the waiters.                  *)
CallOf == [r \in Request |-> IF req[r].caller = "sending" THEN "idle" ELSE req[r].caller]

WaitOf == [w \in Waiter |-> IF waiter[w] = "sending" THEN "waiting" ELSE waiter[w]]

(* A step of a living driver serves.                                       *)
LEMMA ServeStep ==
  ASSUME QueueInv, QueueInv', Replied, pc # "ended", pc' # "ended",
         closed' = "open" => closed = "open", waiter' = waiter, join'.task = join.task
  PROVE  Service!Serve
<1>1. \A r \in Request : req[r].caller \in Callers /\ req'[r].caller \in Callers
  BY DEF QueueInv, Types, CallState
<1>2. CallOf' \in [Request -> Service!Reply \cup {"idle", "waiting", "gone"}]
  BY <1>1 DEF CallOf, Callers, Result, Service!Reply
<1>3. \A r \in Request : CallOf'[r] # CallOf[r] => CallOf[r] = "waiting" /\ CallOf'[r] \in Service!Reply
  BY DEF CallOf, Replied, Result, Service!Reply
<1>4. (closed' = "open") \in {closed = "open", FALSE}
  BY Zenon
<1>5. UNCHANGED WaitOf
  BY DEF WaitOf
<1> QED BY <1>2, <1>3, <1>4, <1>5, Zenon DEF Service!Serve, CallOf, WaitOf

(* The end of the driver.                                                  *)
LEMMA EndStep ==
  ASSUME QueueInv, QueueInv', TaskInv, Replied, pc # "ended", pc' = "ended", closed # "open",
         result' \in {"Ok", "Failed"}, closed' = closed, waiter' = waiter, join'.task = join.task
  PROVE  Service!End
<1>1. \A r \in Request : req'[r].caller \in Callers \ {"waiting"}
  BY DEF QueueInv, Types, CallState, InOneQueue
<1>2. CallOf' \in [Request -> Service!Reply \cup {"idle", "gone"}]
  BY <1>1 DEF CallOf, Callers, Result, Service!Reply
<1>3. \A r \in Request : CallOf'[r] # CallOf[r] => CallOf[r] = "waiting" /\ CallOf'[r] \in Service!Reply
  BY DEF CallOf, Replied, Result, Service!Reply
<1>4. UNCHANGED WaitOf
  BY DEF WaitOf
<1> QED BY <1>2, <1>3, <1>4 DEF Service!End, Service!Outcome, CallOf, WaitOf

(* Nothing the contract sees has changed.                                  *)
LEMMA Unseen ==
  ASSUME UNCHANGED <<closed, pc, result>>, CallOf' = CallOf, WaitOf' = WaitOf, join'.task = join.task
  PROVE  UNCHANGED Service!vars
BY DEF Service!vars, CallOf, WaitOf

(* One call changes: it is accepted, refused or dropped.                   *)
LEMMA OneCall ==
  ASSUME NEW r \in Request, NEW c, CallOf' = [CallOf EXCEPT ![r] = c],
         UNCHANGED <<closed, pc, result, waiter, join>>,
         \/ CallOf[r] = "idle" /\ c = "waiting" /\ pc # "ended"
         \/ CallOf[r] = "idle" /\ c \in Result
         \/ CallOf[r] \in {"idle", "waiting"} /\ c = "gone"
  PROVE  Service!Accept(r) \/ Service!Refuse(r) \/ Service!Leave(r)
<1>1. CASE CallOf[r] = "idle" /\ c = "waiting" /\ pc # "ended"
  BY <1>1 DEF Service!Accept, CallOf
<1>2. CASE CallOf[r] = "idle" /\ c \in Result
  BY <1>2, Zenon DEF Service!Refuse, Service!Reply, CallOf, Result
<1>3. CASE CallOf[r] \in {"idle", "waiting"} /\ c = "gone"
  BY <1>3 DEF Service!Leave, CallOf
<1> QED BY <1>1, <1>2, <1>3

(* The application's steps.                                                *)
LEMMA RequestStep ==
  ASSUME QueueInv, NEW r \in Request,
         \/ \E c \in Calls : Call(r, c[1], c[2])
         \/ SendCommand(r) \/ SendMedia(r) \/ DropCall(r)
  PROVE  Service!Accept(r) \/ Service!Refuse(r) \/ Service!Leave(r) \/ UNCHANGED Service!vars
<1>1. req \in [Request -> CallState] /\ Types
  BY DEF QueueInv, Types
<1>2. UNCHANGED <<closed, pc, result, waiter, join>>
  BY Zenon DEF Call, SendCommand, SendMedia, DropCall, app, Driver
<1>3. ASSUME NEW c, \A q \in Request : req'[q].caller = IF q = r THEN c ELSE req[q].caller,
             \/ req[r].caller = "idle" /\ c = "sending"
             \/ req[r].caller \in {"idle", "sending"} /\ c \in Result
             \/ req[r].caller = "sending" /\ c = "waiting" /\ pc # "ended"
             \/ req[r].caller \in {"sending", "waiting"} /\ c = "gone"
      PROVE  Service!Accept(r) \/ Service!Refuse(r) \/ Service!Leave(r) \/ UNCHANGED Service!vars
  <2>1. CASE c = "sending"
    <3>1. CallOf' = CallOf /\ WaitOf' = WaitOf
      BY <1>2, <1>3, <2>1 DEF CallOf, WaitOf, Result
    <3> QED BY <1>2, <3>1, Unseen
  <2>2. CASE c # "sending"
    <3>1. CallOf' = [CallOf EXCEPT ![r] = c]
      BY <1>3, <2>2, Zenon DEF CallOf
    <3>2. \/ CallOf[r] = "idle" /\ c = "waiting" /\ pc # "ended"
          \/ CallOf[r] = "idle" /\ c \in Result
          \/ CallOf[r] \in {"idle", "waiting"} /\ c = "gone"
      BY <1>3, <2>2 DEF CallOf
    <3> QED BY <1>2, <3>1, <3>2, OneCall, Zenon
  <2> QED BY <2>1, <2>2
<1>4. ASSUME NEW a \in Result, AnswerAll({r}, a), req[r].caller = "sending"
      PROVE  Service!Accept(r) \/ Service!Refuse(r) \/ Service!Leave(r) \/ UNCHANGED Service!vars
  <2>1. req'[r].caller \in Result /\ \A q \in Request \ {r} : req'[q] = req[q]
    BY <1>1, <1>4, AnswerAllEffect, Zenon
  <2> QED BY <1>3, <1>4, <2>1
<1>5. ASSUME NEW p, NEW c \in Result \cup {"waiting"}, req[r].caller = "sending", pc # "ended",
             req' = [req EXCEPT ![r].place = p, ![r].caller = c]
      PROVE  Service!Accept(r) \/ Service!Refuse(r) \/ Service!Leave(r) \/ UNCHANGED Service!vars
  <2> DEFINE sent == [req[r] EXCEPT !.place = p, !.caller = c]
  <2>1. sent.caller = c /\ req' = [req EXCEPT ![r] = sent]
    BY <1>1, <1>5, Zenon DEF CallState
  <2> HIDE DEF sent
  <2>2. \A q \in Request : req'[q].caller = IF q = r THEN c ELSE req[q].caller
    BY <1>1, <2>1
  <2> QED BY <1>3, <1>5, <2>2, Zenon
<1>6. ASSUME NEW c \in Calls, Call(r, c[1], c[2])
      PROVE  Service!Accept(r) \/ Service!Refuse(r) \/ Service!Leave(r) \/ UNCHANGED Service!vars
  <2> DEFINE call == [kind |-> c[1], caller |-> "sending", place |-> None, left |-> c[2]]
             made == IF closed = "open" THEN call ELSE Answer(call, "Closed")
  <2>1. call \in CallState
    <3>1. c[1] \in Kind /\ c[2] \in Nat \cup {None}
      BY ConnectionAssumption DEF Calls, ConnectionAssumption, Kind
    <3> QED BY <3>1 DEF CallState, Callers, Place
  <2>2. call.caller = "sending"
    OBVIOUS
  <2>3. req' = [req EXCEPT ![r] = made] /\ req[r].caller = "idle"
    BY <1>6 DEF Call
  <2> HIDE DEF call
  <2>4. made.caller \in Result \cup {"sending"}
    BY <2>1, <2>2, AnswerEffect DEF Result
  <2> HIDE DEF made
  <2>5. \A q \in Request : req'[q].caller = IF q = r THEN made.caller ELSE req[q].caller
    BY <1>1, <2>3
  <2> QED BY <1>3, <2>3, <2>4, <2>5
<1>7. CASE SendCommand(r)
  <2>1. \/ \E a \in Result : AnswerAll({r}, a)
        \/ pc # "ended" /\ \E c \in Result \cup {"waiting"} :
                             req' = [req EXCEPT ![r].place = "command", ![r].caller = c]
    BY <1>7 DEF SendCommand, Result
  <2>2. req[r].caller = "sending"
    BY <1>7 DEF SendCommand
  <2> QED BY <1>4, <1>5, <2>1, <2>2
<1>8. CASE SendMedia(r)
  <2>1. \/ AnswerAll({r}, "Closed")
        \/ pc # "ended" /\ req' = [req EXCEPT ![r].place = "media", ![r].caller = "waiting"]
    BY <1>8 DEF SendMedia
  <2>2. req[r].caller = "sending"
    BY <1>8 DEF SendMedia
  <2> QED BY <1>4, <1>5, <2>1, <2>2 DEF Result
<1>9. CASE DropCall(r)
  <2>1. /\ \A q \in Request : req'[q].caller = IF q = r THEN "gone" ELSE req[q].caller
        /\ req[r].caller \in {"sending", "waiting"}
    BY <1>1, <1>9 DEF DropCall, CallState
  <2> QED BY <1>3, <2>1
<1> QED BY <1>6, <1>7, <1>8, <1>9

(* Closing: waiters come, go, and return with the result of the driver.    *)
LEMMA WaiterStep ==
  ASSUME TaskInv, \/ JoinRecv \/ JoinReply
                  \/ \E w \in Waiter : CloseAndWait(w) \/ JoinSend(w) \/ DropWait(w)
  PROVE  \/ \E w \in Waiter : Service!Wait(w) \/ Service!LeaveWait(w) \/ Service!Return(w)
         \/ Service!Lose \/ UNCHANGED Service!vars
<1>1. UNCHANGED <<closed, pc, result, req>> /\ CallOf' = CallOf
  BY DEF JoinRecv, JoinReply, CloseAndWait, JoinSend, DropWait, Driver, CallOf
<1>2. waiter \in [Waiter -> Waits]
  BY DEF TaskInv
<1>3. CASE JoinRecv
  <2>1. WaitOf' = WaitOf /\ join'.task = join.task
    BY <1>3 DEF JoinRecv, TaskInv, WaitOf
  <2> QED BY <1>1, <2>1, Unseen
<1>4. ASSUME NEW w \in Waiter, JoinSend(w) PROVE UNCHANGED Service!vars
  <2>1. WaitOf' = WaitOf
    BY <1>2, <1>4 DEF JoinSend, WaitOf
  <2>2. join'.task = join.task
    BY <1>4 DEF JoinSend, TaskInv
  <2> QED BY <1>1, <2>1, <2>2, Unseen
<1>5. ASSUME NEW w \in Waiter, CloseAndWait(w) PROVE Service!Wait(w)
  <2>1. WaitOf' = [WaitOf EXCEPT ![w] = "waiting"] /\ WaitOf[w] = "idle"
    BY <1>2, <1>5, Zenon DEF CloseAndWait, WaitOf
  <2>2. join' = join /\ closed # "open"
    BY <1>5 DEF CloseAndWait
  <2> QED BY <1>1, <2>1, <2>2 DEF Service!Wait, WaitOf, CallOf
<1>6. ASSUME NEW w \in Waiter, DropWait(w) PROVE Service!LeaveWait(w)
  <2>1. WaitOf' = [WaitOf EXCEPT ![w] = "gone"] /\ WaitOf[w] = "waiting"
    BY <1>2, <1>6, Zenon DEF DropWait, WaitOf
  <2>2. join' = join
    BY <1>6 DEF DropWait
  <2> QED BY <1>1, <2>1, <2>2 DEF Service!LeaveWait, WaitOf, CallOf
<1>7. CASE JoinReply
  <2>1. PICK w \in Waiter :
        /\ pc = "ended" /\ join'.task = FALSE
        /\ result \in {"Ok", "Failed"} /\ waiter[w] \in {"waiting", "gone"}
        /\ waiter' = [waiter EXCEPT ![w] =
             IF @ # "waiting" THEN @ ELSE IF join.task THEN result ELSE "Ok"]
    BY <1>7, Zenon DEF JoinReply, TaskInv
  <2>2. CASE waiter[w] = "waiting"
    <3>1. /\ WaitOf[w] = "waiting"
          /\ WaitOf' = [WaitOf EXCEPT ![w] = IF join.task THEN result ELSE "Ok"]
      BY <1>2, <2>1, <2>2, Zenon DEF WaitOf
    <3>2. Service!Return(w)
      BY <1>1, <2>1, <3>1, Zenon DEF Service!Return, WaitOf, CallOf
    <3> QED BY <3>2
  <2>3. CASE waiter[w] = "gone"
    <3>1. WaitOf[w] = "gone" /\ WaitOf' = WaitOf
      BY <1>2, <2>1, <2>3 DEF WaitOf
    <3>2. Service!Lose
      BY <1>1, <2>1, <3>1 DEF Service!Lose, WaitOf, CallOf
    <3> QED BY <3>2
  <2> QED BY <2>1, <2>2, <2>3
<1> QED BY <1>3, <1>4, <1>5, <1>6, <1>7

(* The contract holds at the start.                                        *)
LEMMA ServiceInit == Init => Service!Init
<1> SUFFICES ASSUME Init PROVE Service!Init
  OBVIOUS
<1>1. CallOf = [r \in Request |-> "idle"] /\ WaitOf = [w \in Waiter |-> "idle"]
  BY DEF Init, CallOf, WaitOf
<1>2. closed = "open" /\ pc # "ended" /\ join.task = TRUE
  BY DEF Init
<1> QED BY <1>1, <1>2 DEF Service!Init, CallOf, WaitOf

(* Every step is a step of the contract or is not seen by it.              *)
LEMMA ServiceStep ==
  ASSUME QueueInv, QueueInv', TaskInv, TaskInv', [Next]_vars
  PROVE  [Service!Next]_(Service!vars)
<1>1. ASSUME NEW r \in Request, \/ \E c \in Calls : Call(r, c[1], c[2])
                                \/ SendCommand(r) \/ SendMedia(r) \/ DropCall(r)
      PROVE  [Service!Next]_(Service!vars)
  BY <1>1, RequestStep DEF Service!Next
<1>2. CASE \/ JoinRecv \/ JoinReply
           \/ \E w \in Waiter : CloseAndWait(w) \/ JoinSend(w) \/ DropWait(w)
  BY <1>2, WaiterStep DEF Service!Next
<1>3. CASE Close \/ DropConnection
  <2>1. /\ UNCHANGED <<req, pc, result, waiter, join>> /\ closed' # "open"
    BY <1>3 DEF Close, DropConnection, Driver
  <2>2. CASE pc # "ended"
    BY <2>1, <2>2, ServeStep DEF Replied, Service!Next
  <2>3. CASE pc = "ended"
    <3>1. closed # "open" /\ UNCHANGED <<CallOf, WaitOf>>
      BY <2>1, <2>3 DEF TaskInv, CallOf, WaitOf
    <3>2. UNCHANGED Service!vars
      BY <2>1, <3>1 DEF Service!vars, CallOf, WaitOf
    <3> QED BY <3>2
  <2> QED BY <2>2, <2>3
<1>4. CASE Publish
  <2>1. /\ UNCHANGED <<pc, result, CallOf, WaitOf, join>> /\ closed # "open" /\ closed' # "open"
    BY <1>4 DEF Publish, Driver, CallOf, WaitOf
  <2>2. UNCHANGED Service!vars
    BY <2>1 DEF Service!vars, CallOf, WaitOf
  <2> QED BY <2>2
<1>5. CASE \/ LoopTop \/ SendNext \/ HandleCommand \/ HandlePlayoutCommand \/ UdpPacket
           \/ Drain \/ Tick \/ CloseBranch \/ Wake \/ WebsocketEvent \/ WebsocketClosed
           \/ OtherBranch \/ DriverFails
  <2>1. ASSUME req' = req PROVE Replied
    BY <2>1 DEF Replied
  <2>2. CloseBranch \/ Wake \/ WebsocketEvent \/ WebsocketClosed \/ OtherBranch \/ DriverFails
          => req' = req
    BY DEF CloseBranch, Wake, WebsocketEvent, WebsocketClosed, OtherBranch, DriverFails
  <2>3. Replied
    BY <1>5, <2>1, <2>2, DriverReplies
  <2>4. /\ join' = join /\ waiter' = waiter /\ (closed' = "open" => closed = "open")
    BY <1>5, DriverStepsEffect DEF DriverSteps
  <2>5. pc # "ended" /\ pc' # "ended"
    BY <1>5, Zenon DEF LoopTop, SendNext, HandleCommand, OnCommand, HandlePlayoutCommand, UdpPacket, Drain,
         Tick, CloseBranch, Wake, WebsocketEvent, WebsocketClosed, OtherBranch, DriverFails, Fail
  <2> QED BY <2>3, <2>4, <2>5, ServeStep DEF Service!Next
<1>6. CASE Return \/ Abort
  <2>1. Replied
    BY <1>6, DriverReplies
  <2>2. /\ pc # "ended" /\ pc' = "ended" /\ closed # "open" /\ result' \in {"Ok", "Failed"}
        /\ closed' = closed /\ waiter' = waiter /\ join' = join
    BY <1>6 DEF Return, Abort, Dropped, app, TaskInv
  <2> QED BY <2>1, <2>2, EndStep DEF Service!Next
<1>7. CASE UNCHANGED vars
  <2>1. UNCHANGED <<closed, pc, result, CallOf, WaitOf, join>>
    BY <1>7 DEF vars, app, CallOf, WaitOf
  <2> QED BY <2>1, Unseen
<1> QED BY <1>1, <1>2, <1>3, <1>4, <1>5, <1>6, <1>7 DEF Next

(* The driver implements the safety part of the contract: a call is        *)
(* accepted only by a living driver, answered once, and at the latest by   *)
(* the step that ends it; close_and_wait returns only after that step, and *)
(* one of its callers, at most, has the driver's result.                   *)
THEOREM ConnectionServes == Spec => Service!Safety
<1>1. QueueInv /\ TaskInv /\ QueueInv' /\ TaskInv' /\ [Next]_vars => [Service!Next]_(Service!vars)
  BY ServiceStep
<1> QED BY <1>1, QueueInit, QueueStep, TaskInit, TaskStep, ServiceInit, PTL DEF Spec, Service!Safety

=============================================================================
