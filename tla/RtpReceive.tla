---------------------------- MODULE RtpReceive -----------------------------
(***************************************************************************)
(* The receive path from the UDP socket to the queue of ready frames, for  *)
(* media that needs no DAVE decryption: ReceiveState of                    *)
(* cacophony/src/state.rs with its two schedules (sources with buffered    *)
(* media ready, and reorder deadlines), and the collect loop and ready     *)
(* queue of cacophony/src/connection/receive.rs.                           *)
(*                                                                         *)
(* The driver is one task: while it collects, nothing else happens, which  *)
(* is what the variable collecting says.  Each iteration of the collect    *)
(* loop is a step.                                                         *)
(*                                                                         *)
(* The network loses, duplicates and reorders packets, within MaxSkip      *)
(* positions ahead of and MaxDelay positions behind the furthest one that  *)
(* has arrived.  Both are less than half a turn of the sequence numbers,   *)
(* as far as the receiver can tell late from early; the stream itself may  *)
(* go through any number of turns.                                         *)
(***************************************************************************)
EXTENDS ReceiveSsrc

CONSTANTS Sources,    \* the SSRCs
          ReadyMax,   \* ready_frame_buffer_max
          MaxSkip,    \* bound: how far ahead the next packet to arrive may be
          MaxDelay    \* bound: how late a packet may arrive

ASSUME RtpReceiveAssumption ==
  /\ ReadyMax \in Nat \ {0} /\ MaxSkip \in Nat \ {0} /\ MaxDelay \in Nat
  /\ MaxSkip + ReorderMax < SeqSpace \div 2 /\ MaxDelay + ReorderMax < SeqSpace \div 2

VARIABLES ssrc,                  \* HashMap<u32, ReceiveSsrcState>; None: no entry
          ready_ssrcs,           \* VecDeque<u32>
          queued_ready_ssrcs,    \* HashSet<u32>
          rtp_reorder_deadlines, \* DeadlineSet<u32>, as time left; None: no entry
          ready_frames,          \* BoundedDeque of results
          collecting,            \* the driver is inside collect_ready_voice_frames
          top,                   \* the furthest position that has arrived, by source
          cursor,                \* history: the position next_seq stands for
          fed,                   \* history: packets fed to the assembler, in order, each
                                 \* with the position the cursor stood at
          lost                   \* history: positions reported lost

schedules == <<ready_ssrcs, queued_ready_ssrcs, rtp_reorder_deadlines>>

history == <<cursor, fed, lost>>

vars == <<ssrc, ready_ssrcs, queued_ready_ssrcs, rtp_reorder_deadlines, ready_frames,
          collecting, top, cursor, fed, lost>>

Init ==
  /\ ssrc = [s \in Sources |-> None]
  /\ ready_ssrcs = <<>> /\ queued_ready_ssrcs = {}
  /\ rtp_reorder_deadlines = [s \in Sources |-> None]
  /\ ready_frames = <<>> /\ collecting = FALSE
  /\ top = [s \in Sources |-> 0]
  /\ cursor = [s \in Sources |-> 0]
  /\ fed = [s \in Sources |-> <<>>]
  /\ lost = [s \in Sources |-> {}]

MutRefreshNoDeadline(s, st, queue, queued) ==
  LET enqueue == HasReadyBufferedMedia(st) /\ s \notin queued
  IN  /\ ready_ssrcs' = IF enqueue THEN Append(queue, s) ELSE queue
      /\ queued_ready_ssrcs' = IF enqueue THEN queued \cup {s} ELSE queued
      /\ UNCHANGED rtp_reorder_deadlines

(* Source s is now in state st; queue and queued are the ready queue and   *)
(* its index set as the operation left them.                               *)
RefreshSsrcSchedules(s, st, queue, queued) ==
  LET enqueue == HasReadyBufferedMedia(st) /\ s \notin queued
  IN  /\ ready_ssrcs' = IF enqueue THEN Append(queue, s) ELSE queue
      /\ queued_ready_ssrcs' = IF enqueue THEN queued \cup {s} ELSE queued
      /\ rtp_reorder_deadlines' =
           [rtp_reorder_deadlines EXCEPT ![s] = ReorderDeadline(st)]

(* BoundedDeque::push_back: at capacity the oldest entry is dropped.       *)
PushReady(queue, s, frame) ==
  IF frame = NoFrame
    THEN queue
    ELSE LET kept == IF Len(queue) = ReadyMax THEN Tail(queue) ELSE queue
         IN  Append(kept, [ssrc |-> s, kind |-> frame.kind, packets |-> frame.packets])

(* The cursor and the loss event in positions.  The cursor moves past what *)
(* is reported lost and then past the packet that is fed, if any.          *)
CursorAfter(s, result) ==
  IF ssrc[s] = None
    THEN result.fed[1] + 1
    ELSE cursor[s] + Forward(result.st.next_seq, ssrc[s].next_seq)

LostAt(s, result) == {cursor[s] + Forward(seq, ssrc[s].next_seq) : seq \in result.lost}

(* What a per-source operation leaves behind.                              *)
Apply(s, result, queue, queued) ==
  /\ ssrc' = [ssrc EXCEPT ![s] = result.st]
  /\ RefreshSsrcSchedules(s, result.st, queue, queued)
  /\ ready_frames' = PushReady(ready_frames, s, result.frame)
  /\ cursor' = [cursor EXCEPT ![s] = CursorAfter(s, result)]
  /\ fed' = [fed EXCEPT ![s] =
               @ \o [i \in DOMAIN result.fed |->
                       [packet |-> result.fed[i], place |-> CursorAfter(s, result) - 1]]]
  /\ lost' = [lost EXCEPT ![s] = @ \cup LostAt(s, result)]

(* handle_received_udp_packet for the packet at position p of source s.    *)
Receive(s, p) ==
  /\ ~collecting
  /\ p \in Positions
  /\ top[s] - MaxDelay <= p /\ p <= top[s] + MaxSkip
  /\ top' = [top EXCEPT ![s] = IF p > @ THEN p ELSE @]
  /\ Apply(s, PushMediaPacket(IF ssrc[s] = None THEN NewSsrc ELSE ssrc[s], p),
           ready_ssrcs, queued_ready_ssrcs)
  /\ collecting' = TRUE

(* One iteration of drain_ordered_media inside the collect loop: first the *)
(* sources with ready media, then the expired gaps, else the loop is over. *)
CollectReady ==
  /\ collecting /\ Len(ready_frames) < ReadyMax
  /\ ready_ssrcs # <<>>
  /\ LET s == Head(ready_ssrcs)
         queue == Tail(ready_ssrcs)
         queued == queued_ready_ssrcs \ {s}
     IN  IF ssrc[s] # None /\ HasReadyBufferedMedia(ssrc[s])
           THEN Apply(s, PopReadyBufferedFrame(ssrc[s], {}), queue, queued)
           ELSE /\ ready_ssrcs' = queue /\ queued_ready_ssrcs' = queued
                /\ UNCHANGED <<ssrc, rtp_reorder_deadlines, ready_frames, history>>
  /\ UNCHANGED <<collecting, top>>

CollectExpired ==
  /\ collecting /\ Len(ready_frames) < ReadyMax
  /\ ready_ssrcs = <<>>
  /\ \E s \in Sources :
       /\ rtp_reorder_deadlines[s] = 0
       /\ IF ssrc[s] # None /\ ReorderDeadline(ssrc[s]) = 0
            THEN Apply(s, ExpireMissingHead(ssrc[s], FALSE), ready_ssrcs, queued_ready_ssrcs)
            ELSE /\ rtp_reorder_deadlines' = [rtp_reorder_deadlines EXCEPT ![s] = None]
                 /\ UNCHANGED <<ssrc, ready_ssrcs, queued_ready_ssrcs, ready_frames, history>>
  /\ UNCHANGED <<collecting, top>>

CollectDone ==
  /\ collecting
  /\ \/ Len(ready_frames) = ReadyMax
     \/ ready_ssrcs = <<>> /\ \A s \in Sources : rtp_reorder_deadlines[s] # 0
  /\ collecting' = FALSE
  /\ UNCHANGED <<ssrc, schedules, ready_frames, top, history>>

(* The driver wakes at a reorder deadline, or for another event, and       *)
(* collects.                                                               *)
Wake ==
  /\ ~collecting
  /\ \/ \E s \in Sources : rtp_reorder_deadlines[s] = 0
     \/ ready_ssrcs # <<>>
  /\ collecting' = TRUE
  /\ UNCHANGED <<ssrc, schedules, ready_frames, top, history>>

(* The frame stream has room and takes the oldest ready frame.             *)
FlushFrameStream ==
  /\ ~collecting
  /\ ready_frames # <<>>
  /\ ready_frames' = Tail(ready_frames)
  /\ UNCHANGED <<ssrc, schedules, collecting, top, history>>

(* prune_ssrcs for the sources a departed user leaves: their state, their  *)
(* schedules and their ready frames go.                                    *)
PruneSsrcs(removed) ==
  /\ ~collecting
  /\ removed # {}
  /\ ssrc' = [s \in Sources |-> IF s \in removed THEN None ELSE ssrc[s]]
  /\ queued_ready_ssrcs' = queued_ready_ssrcs \ removed
  /\ ready_ssrcs' = SelectSeq(ready_ssrcs, LAMBDA s : s \notin removed)
  /\ rtp_reorder_deadlines' =
       [s \in Sources |-> IF s \in removed THEN None ELSE rtp_reorder_deadlines[s]]
  /\ ready_frames' =
       SelectSeq(ready_frames, LAMBDA f : f.kind = "error" \/ f.ssrc \notin removed)
  /\ cursor' = [s \in Sources |-> IF s \in removed THEN 0 ELSE cursor[s]]
  /\ fed' = [s \in Sources |-> IF s \in removed THEN <<>> ELSE fed[s]]
  /\ lost' = [s \in Sources |-> IF s \in removed THEN {} ELSE lost[s]]
  /\ UNCHANGED <<collecting, top>>

Age(st) ==
  [st EXCEPT !.missing =
     [seq \in DOMAIN @ |-> IF @[seq] < ReorderTtl THEN @[seq] + 1 ELSE ReorderTtl]]

(* Time passes.                                                            *)
Tick ==
  /\ ~collecting
  /\ \E s \in Sources : ssrc[s] # None /\ ssrc[s].missing # NoEntries
  /\ ssrc' = [s \in Sources |-> IF ssrc[s] = None THEN None ELSE Age(ssrc[s])]
  /\ rtp_reorder_deadlines' =
       [s \in Sources |-> IF rtp_reorder_deadlines[s] \in {None, 0}
                            THEN rtp_reorder_deadlines[s]
                            ELSE rtp_reorder_deadlines[s] - 1]
  /\ UNCHANGED <<ready_ssrcs, queued_ready_ssrcs, ready_frames, collecting, top, history>>

Next ==
  \/ \E s \in Sources, p \in Positions : Receive(s, p)
  \/ CollectReady
  \/ CollectExpired
  \/ CollectDone
  \/ Wake
  \/ FlushFrameStream
  \/ \E removed \in SUBSET Sources : PruneSsrcs(removed)
  \/ Tick

Spec == Init /\ [][Next]_vars

(* A collect loop runs to its end.  Time passes, the application reads its *)
(* frame stream, which the head of the loop fills, and the driver's select *)
(* (which polls its branches in random order) takes the timer branch,      *)
(* however many packets keep arriving: not always just when a packet of    *)
(* another source has filled the ready queue.  Nothing is assumed of the   *)
(* network.                                                                *)
Fairness ==
  /\ WF_vars(CollectReady) /\ WF_vars(CollectExpired) /\ WF_vars(CollectDone)
  /\ SF_vars(Wake /\ Len(ready_frames) < ReadyMax)
  /\ SF_vars(FlushFrameStream) /\ SF_vars(Tick)

FairSpec == Spec /\ Fairness
-----------------------------------------------------------------------------
Seqs == 0 .. SeqSpace - 1

SsrcTypeOK(st) ==
  /\ st.next_seq \in Seqs
  /\ DOMAIN st.missing \subseteq Seqs
  /\ \A seq \in DOMAIN st.missing : st.missing[seq] \in 0 .. ReorderTtl
  /\ DOMAIN st.pending_media \subseteq Seqs
  /\ \A seq \in DOMAIN st.pending_media :
       st.pending_media[seq] \in Positions /\ SeqOf(st.pending_media[seq]) = seq
  /\ Cardinality(DOMAIN st.pending_media) <= ReorderMax
  /\ st.asm.partial \in Seq(Positions)
  /\ st.asm.completed \in Seq(Seq(Positions))

(* The types, with the bounds of the two buffers: no source buffers more   *)
(* than rtp_reorder_buffer_max_frames packets and the ready queue holds no *)
(* more than ready_frame_buffer_max results.                               *)
TypeOK ==
  /\ \A s \in Sources : ssrc[s] = None \/ SsrcTypeOK(ssrc[s])
  /\ ready_ssrcs \in Seq(Sources) /\ queued_ready_ssrcs \subseteq Sources
  /\ rtp_reorder_deadlines \in [Sources -> 0 .. ReorderTtl \cup {None}]
  /\ ready_frames \in Seq([ssrc : Sources, kind : {"frame", "error"},
                           packets : Seq(Positions)])
  /\ Len(ready_frames) <= ReadyMax
  /\ collecting \in BOOLEAN
  /\ top \in [Sources -> Nat]
  /\ cursor \in [Sources -> Nat]
  /\ fed \in [Sources -> Seq([packet : Positions, place : Nat])]
  /\ lost \in [Sources -> SUBSET Nat]

(* Packets reach the assembler in stream order and none twice, whatever    *)
(* the network reorders or duplicates and however often the 16-bit number  *)
(* wraps: each is fed at its own place.  The one exception is a packet     *)
(* that an expiry passed over while it was buffered.  It was reported      *)
(* lost, stays in the buffer, and is fed once more than a turn later, when *)
(* the cursor comes to its number again.                                   *)
InOrder ==
  \A s \in Sources : \A i \in DOMAIN fed[s] :
    /\ fed[s][i].packet # fed[s][i].place => fed[s][i].packet \in lost[s]
    /\ \A j \in DOMAIN fed[s] : fed[s][i].packet = fed[s][j].packet => i = j

(* Nothing disappears silently: every place the cursor of a source has     *)
(* passed had a packet fed at it or was reported in a loss event, and      *)
(* never both.  With InOrder, a packet goes missing unreported only where  *)
(* one that was passed over is fed at its place.                           *)
NoSilentLoss ==
  \A s \in Sources :
    fed[s] # <<>> =>
      LET places == {fed[s][i].place : i \in DOMAIN fed[s]}
      IN  /\ places \cup lost[s] = fed[s][1].place .. cursor[s] - 1
          /\ places \cap lost[s] = {}

FrameOf(p) == {q \in Positions : Stream[q].ts = Stream[p].ts}

(* The packet did not reach the assembler at its place, or was malformed.  *)
Broken(s, p) ==
  \/ Stream[p].fault # "none"
  \/ [packet |-> p, place |-> p] \notin Range(fed[s])

(* A ready frame is made of consecutive packets of one frame of the        *)
(* sender, and of all of them but for three cases.  Where the codec does   *)
(* not mark its first packet, the head is missing after a loss or a        *)
(* malformed packet; a NAL unit in mid-frame that is fragmented drops what *)
(* came before it; and the end is missing from an AV1 frame without a      *)
(* marker when something malformed, or passed over before, was fed there.  *)
(* (Of a frame in which a packet that was passed over is fed, nothing is   *)
(* said: it may mix two.)                                                  *)
WholeFrames ==
  \A i \in DOMAIN ready_frames :
    LET s == ready_frames[i].ssrc
        packets == ready_frames[i].packets
        first == packets[1]
        last == packets[Len(packets)]
        before == {q \in FrameOf(first) : q < first}
        after == {q \in FrameOf(first) : q > last}
    IN  ready_frames[i].kind = "frame" /\ Range(packets) \cap lost[s] = {} =>
          /\ \A j \in 1 .. Len(packets) - 1 : packets[j + 1] = packets[j] + 1
          /\ last \in FrameOf(first)
          /\ before # {} =>
               \/ Stream[first].codec = "NalFragment"
               \/ /\ Stream[first].codec \in {"NalUnit", "Av1"}
                  /\ \E q \in before : Broken(s, q)
          /\ after # {} => Stream[last].codec = "Av1" /\ \E q \in after : Broken(s, q)

(* The schedules are never stale: a source with media ready is queued      *)
(* exactly once, and the deadline the driver sleeps until is the one of    *)
(* the gap each source's cursor stands at.  A source never waits for a     *)
(* packet without a timer: when a packet is buffered that was not passed   *)
(* over, the one at the cursor is buffered too, or is marked missing.      *)
SchedulesExact ==
  /\ queued_ready_ssrcs = Range(ready_ssrcs)
  /\ Len(ready_ssrcs) = Cardinality(queued_ready_ssrcs)
  /\ \A s \in Sources :
       /\ ssrc[s] # None /\ HasReadyBufferedMedia(ssrc[s]) => s \in queued_ready_ssrcs
       /\ rtp_reorder_deadlines[s] =
            IF ssrc[s] = None THEN None ELSE ReorderDeadline(ssrc[s])
       /\ ssrc[s] # None =>
            LET st == ssrc[s]
            IN  Range(st.pending_media) \subseteq lost[s]
                \/ st.next_seq \in DOMAIN st.missing \cup DOMAIN st.pending_media

WaitsAtGap(s) == ssrc[s] # None /\ ssrc[s].next_seq \in DOMAIN ssrc[s].missing

(* Every gap is eventually left behind, filled or given up, without any    *)
(* further packet having to arrive: no source waits at gaps for ever.      *)
GapResolves == \A s \in Sources : WaitsAtGap(s) ~> ~WaitsAtGap(s)
=============================================================================
