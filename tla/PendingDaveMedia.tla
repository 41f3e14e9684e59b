-------------------------- MODULE PendingDaveMedia --------------------------
(***************************************************************************)
(* Encrypted frames that cannot be decrypted yet: PendingDaveMediaQueues   *)
(* of cacophony/src/state.rs over BucketDeadlineQueue of                   *)
(* cacophony/src/queue.rs, and the driver code that decodes, queues,       *)
(* retries and expires them (cacophony/src/connection/receive.rs).         *)
(*                                                                         *)
(* A frame is [id, ssrc, left]: its place in the order of arrival, its     *)
(* source and the time left until enqueued_at + ttl.  No two frames arrive *)
(* at the same Instant, so that deadlines are ordered as ids are.          *)
(*                                                                         *)
(* The gateway's messages come from module DaveCoordinator's side of the   *)
(* program; here they are what they may do to the three facts a frame      *)
(* waits for, with the retry each handler of cacophony/src/gateway.rs      *)
(* asks for.  One websocket message is handled, and its retry run to the   *)
(* end, before the driver does anything else: retry is not {} while it is  *)
(* inside retry_pending_dave_media.  Only the clock runs on.               *)
(***************************************************************************)
EXTENDS Integers, Sequences, FiniteSets, SequencesExt

CONSTANTS Ssrcs,      \* the sources
          Ttl,        \* dave_pending_media_ttl, in ticks
          MaxFrames,  \* bound: frames that arrive
          None

ASSUME PendingAssumption == Ttl \in Nat \ {0} /\ MaxFrames \in Nat

VARIABLES
  buckets,     \* BucketQueue: the frames waiting, by what they wait for
  deadlines,   \* DeadlineSet: the time left for each bucket's head
  ssrc_users,  \* the sources whose user is known
  ready,       \* DaveCoordinator::ready
  gateway,     \* gateway_media_ready or transition_zero_media_ready
  retry,       \* DavePendingMediaRetry of the message being handled
  tries,       \* history: how often each frame was tried in this retry
  arrived,     \* history: number of frames that have arrived
  outcome,     \* history: what became of each frame
  delivered    \* history: ids of the frames of each source handed out, in order

vars == <<buckets, deadlines, ssrc_users, ready, gateway, retry, tries, arrived,
          outcome, delivered>>

Bucket == {"MissingUser", "SessionNotReady", "GatewayPending", "DecryptStatePending"}

DaveState == Bucket \ {"MissingUser"}   \* DavePendingMediaRetry::dave_state

Media == [id : 1 .. MaxFrames, ssrc : Ssrcs, left : 0 .. Ttl]

Init ==
  /\ buckets = [b \in Bucket |-> <<>>] /\ deadlines = [b \in Bucket |-> None]
  /\ ssrc_users = {} /\ ready = FALSE /\ gateway = FALSE
  /\ retry = {} /\ tries = [i \in 1 .. MaxFrames |-> 0]
  /\ arrived = 0 /\ outcome = [i \in 1 .. MaxFrames |-> None] /\ delivered = [s \in Ssrcs |-> <<>>]

-----------------------------------------------------------------------------
(* BucketDeadlineQueue *)

HeadDeadline(queue) == IF queue = <<>> THEN None ELSE queue[1].left

MutPushFront(queue, m) == <<m>> \o queue

(* Behind the frames whose deadline is not later.                          *)
PushInOrder(queue, m) ==
  LET k == Cardinality({i \in DOMAIN queue : queue[i].id < m.id})
  IN  InsertAt(queue, k + 1, m)

MutSetBuckets(queues) ==
  /\ buckets' = queues
  /\ deadlines' = [b \in Bucket |-> IF queues[b] # <<>> /\ deadlines[b] = 0 THEN None
                                   ELSE HeadDeadline(queues[b])]

(* The buckets are left with these queues, and their deadlines refreshed.  *)
SetBuckets(queues) ==
  /\ buckets' = queues
  /\ deadlines' = [b \in Bucket |-> HeadDeadline(queues[b])]

(* first_matching: of the buckets to retry, the one whose head is oldest.  *)
IsNext(b) ==
  /\ b \in retry /\ deadlines[b] # None
  /\ \A c \in retry : deadlines[c] # None => buckets[b][1].id <= buckets[c][1].id

-----------------------------------------------------------------------------
(* Decoding one frame *)

(* What the frame has to wait for; None: it can be decrypted.              *)
WaitsFor(m) ==
  CASE m.ssrc \notin ssrc_users -> "MissingUser"
    [] m.ssrc \in ssrc_users /\ ~ready -> "SessionNotReady"
    [] m.ssrc \in ssrc_users /\ ready /\ ~gateway -> "GatewayPending"
    [] OTHER -> None

DecryptStateCanStillChange == ~ready \/ ~gateway

MutDecodeOrEnqueue(queues, m) ==
  \/ /\ WaitsFor(m) # None
     /\ SetBuckets([buckets EXCEPT ![WaitsFor(m)] = PushInOrder(@, m)])
     /\ UNCHANGED <<outcome, delivered>>
  \/ /\ WaitsFor(m) = None
     /\ SetBuckets(queues)
     /\ outcome' = [outcome EXCEPT ![m.id] = "delivered"]
     /\ delivered' = [delivered EXCEPT ![m.ssrc] = Append(@, m.id)]

(* decode_or_enqueue_dave_media of m, which is in none of the queues: it   *)
(* is queued, or decrypted with one of the results the session may give.   *)
DecodeOrEnqueue(queues, m) ==
  \/ /\ WaitsFor(m) # None
     /\ SetBuckets([queues EXCEPT ![WaitsFor(m)] = PushInOrder(@, m)])
     /\ UNCHANGED <<outcome, delivered>>
  \/ /\ WaitsFor(m) = None
     /\ SetBuckets(queues)
     /\ outcome' = [outcome EXCEPT ![m.id] = "delivered"]
     /\ delivered' = [delivered EXCEPT ![m.ssrc] = Append(@, m.id)]
  \/ /\ WaitsFor(m) = None
     /\ \E recoverable \in BOOLEAN :
          IF recoverable /\ m.left > 0 /\ DecryptStateCanStillChange
            THEN /\ SetBuckets([queues EXCEPT !["DecryptStatePending"] = PushInOrder(@, m)])
                 /\ UNCHANGED outcome
            ELSE /\ SetBuckets(queues)
                 /\ outcome' = [outcome EXCEPT ![m.id] = "failed"]
     /\ UNCHANGED delivered

(* A whole frame of source s comes out of the reorder buffer.              *)
Arrive(s) ==
  /\ retry = {} /\ arrived < MaxFrames
  /\ arrived' = arrived + 1
  /\ DecodeOrEnqueue(buckets, [id |-> arrived + 1, ssrc |-> s, left |-> Ttl])
  /\ UNCHANGED <<ssrc_users, ready, gateway, retry, tries>>

-----------------------------------------------------------------------------
(* Gateway messages *)

(* The retry that follows the handling of a message.                       *)
Retry(bits) ==
  /\ retry' = bits
  /\ UNCHANGED <<tries, arrived, delivered>>

(* Session descriptions, transitions, epochs, MLS messages and             *)
(* ClientsConnect, with the pump that follows: either readiness may change.*)
OnDaveEvent(r, g) ==
  /\ retry = {}
  /\ ready' = r /\ gateway' = g
  /\ Retry(DaveState)
  /\ UNCHANGED <<buckets, deadlines, ssrc_users, outcome>>

(* The source whose user a message names, if it names both.                *)
Named == {{}} \cup {{s} : s \in Ssrcs}

OnSpeaking(named) ==
  /\ retry = {}
  /\ ssrc_users' = ssrc_users \cup named
  /\ Retry({"MissingUser"})
  /\ UNCHANGED <<buckets, deadlines, ready, gateway, outcome>>

MutClientConnectRetriesDave(named, r, g) ==
  /\ retry = {}
  /\ ssrc_users' = ssrc_users \cup named
  /\ ready' = r /\ gateway' = g
  /\ Retry(DaveState)
  /\ UNCHANGED <<buckets, deadlines, outcome>>

OnClientConnect(named, r, g) ==
  /\ retry = {}
  /\ ssrc_users' = ssrc_users \cup named
  /\ ready' = r /\ gateway' = g
  /\ Retry(Bucket)
  /\ UNCHANGED <<buckets, deadlines, outcome>>

(* Waiting frames of the sources of a departed user are pruned.            *)
Pruned(removed) == {i \in 1 .. MaxFrames :
  \E b \in Bucket : \E j \in DOMAIN buckets[b] :
    buckets[b][j].id = i /\ buckets[b][j].ssrc \in removed}

OnClientDisconnect(removed, r, g) ==
  /\ retry = {}
  /\ removed # {} /\ removed \subseteq ssrc_users
  /\ ssrc_users' = ssrc_users \ removed
  /\ ready' = r /\ gateway' = g
  /\ SetBuckets([b \in Bucket |-> SelectSeq(buckets[b], LAMBDA m : m.ssrc \notin removed)])
  /\ outcome' = [i \in 1 .. MaxFrames |-> IF i \in Pruned(removed) THEN "pruned" ELSE outcome[i]]
  /\ Retry(DaveState)

-----------------------------------------------------------------------------
(* The retry loop and expiry *)

RetryNext ==
  \E b \in Bucket :
    /\ IsNext(b)
    /\ LET m == Head(buckets[b])
           rest == [buckets EXCEPT ![b] = Tail(@)]
       IN  /\ tries' = [tries EXCEPT ![m.id] = IF @ < 2 THEN @ + 1 ELSE @]
           /\ IF m.left = 0
                THEN /\ SetBuckets(rest)
                     /\ outcome' = [outcome EXCEPT ![m.id] = "expired"]
                     /\ UNCHANGED delivered
                ELSE DecodeOrEnqueue(rest, m)
    /\ UNCHANGED <<ssrc_users, ready, gateway, retry, arrived>>

RetryDone ==
  /\ retry # {} /\ \A b \in retry : deadlines[b] = None
  /\ retry' = {} /\ tries' = [i \in 1 .. MaxFrames |-> 0]
  /\ UNCHANGED <<buckets, deadlines, ssrc_users, ready, gateway, arrived, outcome, delivered>>

Unexpired(queue) ==
  LET k == CHOOSE k \in 0 .. Len(queue) :
             /\ \A i \in 1 .. k : queue[i].left = 0
             /\ k < Len(queue) => queue[k + 1].left # 0
  IN  SubSeq(queue, k + 1, Len(queue))

(* The driver wakes at the earliest deadline: expire_pending_dave_media.   *)
ExpirePending ==
  /\ retry = {}
  /\ \E b \in Bucket : deadlines[b] = 0
  /\ LET kept == [b \in Bucket |-> IF deadlines[b] = 0 THEN Unexpired(buckets[b])
                                               ELSE buckets[b]]
         gone == {i \in 1 .. MaxFrames : \E b \in Bucket :
                    \E j \in 1 .. Len(buckets[b]) - Len(kept[b]) : buckets[b][j].id = i}
     IN  /\ SetBuckets(kept)
         /\ outcome' = [i \in 1 .. MaxFrames |-> IF i \in gone THEN "expired" ELSE outcome[i]]
  /\ UNCHANGED <<ssrc_users, ready, gateway, retry, tries, arrived, delivered>>

Less(n) == IF n > 0 THEN n - 1 ELSE 0

(* Time passes, inside the retry loop too.                                 *)
Tick ==
  /\ \E b \in Bucket : \E j \in DOMAIN buckets[b] : buckets[b][j].left > 0
  /\ buckets' = [b \in Bucket |-> [j \in DOMAIN buckets[b] |->
                                     [buckets[b][j] EXCEPT !.left = Less(@)]]]
  /\ deadlines' = [b \in Bucket |-> IF deadlines[b] = None THEN None ELSE Less(deadlines[b])]
  /\ UNCHANGED <<ssrc_users, ready, gateway, retry, tries, arrived, outcome, delivered>>

Next ==
  \/ \E s \in Ssrcs : Arrive(s)
  \/ \E named \in Named : OnSpeaking(named)
  \/ \E r, g \in BOOLEAN : OnDaveEvent(r, g)
  \/ \E named \in Named, r, g \in BOOLEAN : OnClientConnect(named, r, g)
  \/ \E removed \in SUBSET Ssrcs, r, g \in BOOLEAN : OnClientDisconnect(removed, r, g)
  \/ RetryNext
  \/ RetryDone
  \/ ExpirePending
  \/ Tick

Spec == Init /\ [][Next]_vars

(* The clock runs and a retry, once begun, runs to its end.  The branches  *)
(* of the driver's select are polled in random order: the wake, ready      *)
(* again and again, is taken.                                              *)
FairSpec ==
  /\ Spec
  /\ WF_vars(Tick) /\ WF_vars(RetryNext) /\ WF_vars(RetryDone)
  /\ SF_vars(ExpirePending)

-----------------------------------------------------------------------------

Places(i) == {<<b, j>> \in Bucket \X (1 .. MaxFrames) :
                j \in DOMAIN buckets[b] /\ buckets[b][j].id = i}

(* A frame that has arrived waits in exactly one place or has left with    *)
(* exactly one outcome, through any sequence of retries, expiries and      *)
(* departures: none is lost, and none both waits and is handed out.        *)
ExactlyOnce ==
  \A i \in 1 .. arrived :
    /\ Cardinality(Places(i)) = IF outcome[i] = None THEN 1 ELSE 0
    /\ (outcome[i] = "delivered") = (\E s \in Ssrcs : i \in Range(delivered[s]))

(* Every gateway event asks for the retry of all the frames it may have    *)
(* unblocked: between two messages each frame waits in the bucket of what  *)
(* it is really waiting for, and none could be decrypted already.          *)
WaitsForItsReason ==
  retry = {} => \A b \in Bucket : \A j \in DOMAIN buckets[b] : WaitsFor(buckets[b][j]) = b

(* The encrypted frames of a source are handed out in the order in which   *)
(* they arrived, whichever buckets they went through.                      *)
SourceOrderKept ==
  \A s \in Ssrcs : \A i, j \in DOMAIN delivered[s] : i < j => delivered[s][i] < delivered[s][j]

(* No frame waits for ever: it is handed out, or reported as failed or     *)
(* expired, or its source leaves.                                          *)
Settles == \A i \in 1 .. MaxFrames : (i <= arrived) ~> (outcome[i] # None)

(* What the test pending_dave_media_retry_takes_only_selected_buckets says *)
(* of the loop over pop_retry: it ends when it has taken each frame of the *)
(* selected buckets once.                                                  *)
RetriedOnce == \A i \in 1 .. MaxFrames : tries[i] <= 1
=============================================================================
