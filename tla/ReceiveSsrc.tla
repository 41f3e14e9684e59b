---------------------------- MODULE ReceiveSsrc ----------------------------
(***************************************************************************)
(* The reorder buffer of one RTP source: ReceiveSsrcState of               *)
(* cacophony/src/state.rs.                                                 *)
(*                                                                         *)
(* A state is a record of next_seq (None before the first packet), missing *)
(* (the sequence numbers waited for, each with the time since the gap was  *)
(* detected, which stops counting at ReorderTtl because the code only      *)
(* compares it with that), pending_media (the buffered packets, by         *)
(* sequence number) and the frame assembler.                               *)
(*                                                                         *)
(* An operation returns the new state, the frame or error handed back,     *)
(* the packets it fed to the assembler and the sequence numbers it         *)
(* reported in a loss event.                                               *)
(***************************************************************************)
EXTENDS RtpFrameAssembler, FiniteSets, Functions

CONSTANTS ReorderTtl,    \* rtp_reorder_ttl, in ticks
          ReorderMax,    \* rtp_reorder_buffer_max_frames
          None

ASSUME ReorderAssumption ==
  ReorderTtl \in Nat \ {0} /\ ReorderMax \in Nat \ {0}

NoEntries == [seq \in {} |-> 0]

NewSsrc == [next_seq |-> None, missing |-> NoEntries, pending_media |-> NoEntries,
            asm |-> NewAssembler]

Result(st, frame, fed, lost) == [st |-> st, frame |-> frame, fed |-> fed, lost |-> lost]

Without(map, seqs) == Restrict(map, DOMAIN map \ seqs)

(* entry(seq).or_insert(value) for every seq of a set.                     *)
OrInsert(map, seqs, value) ==
  [seq \in DOMAIN map \cup seqs |-> IF seq \in DOMAIN map THEN map[seq] ELSE value]

(* seq.wrapping_sub(expected)                                              *)
Forward(seq, expected) == (seq - expected + SeqSpace) % SeqSpace

Run(first, n) == {(first + i) % SeqSpace : i \in 0 .. n - 1}

MarkMissing(missing, expected, forward) == OrInsert(missing, Run(expected, forward), 0)

HasReadyBufferedMedia(st) ==
  st.asm.completed # <<>> \/ st.next_seq \in DOMAIN st.pending_media

(* pending_reorder_deadline, as the time left until it.                    *)
ReorderDeadline(st) ==
  IF st.next_seq \in DOMAIN st.missing THEN ReorderTtl - st.missing[st.next_seq] ELSE None

(* assembler.push_packet(packet) once the cursor stands at its sequence    *)
(* number: the cursor advances first.                                      *)
Feed(st, p, lost) ==
  LET pushed == PushPacket(st.asm, p)
  IN  Result([st EXCEPT !.next_seq = NextSeq(SeqOf(p)),
                        !.missing = Without(@, {SeqOf(p)}),
                        !.pending_media = Without(@, {SeqOf(p)}),
                        !.asm = pushed.asm],
             pushed.frame, <<p>>, lost)

PopReadyBufferedFrame(st, lost) ==
  CASE st.asm.completed # <<>> ->
         LET popped == PopCompleted(st.asm)
         IN  Result([st EXCEPT !.asm = popped.asm], popped.frame, <<>>, lost)
    [] st.asm.completed = <<>> /\ st.next_seq \in DOMAIN st.pending_media ->
         Feed(st, st.pending_media[st.next_seq], lost)
    [] OTHER -> Result(st, NoFrame, <<>>, lost)

(* How many missing sequence numbers in a row, from the cursor on, are     *)
(* given up: all of them when forced, else those whose time is up.         *)
ExpiredRun(st, force) ==
  CHOOSE n \in 0 .. Cardinality(DOMAIN st.missing) :
    LET expired(i) == LET seq == (st.next_seq + i) % SeqSpace
                      IN  /\ seq \in DOMAIN st.missing
                          /\ force \/ st.missing[seq] = ReorderTtl
    IN  (\A i \in 0 .. n - 1 : expired(i)) /\ ~expired(n)

MutExpireReportsOne(st, force) ==
  LET n == IF st.next_seq = None THEN 0 ELSE ExpiredRun(st, force)
      lost == Run(st.next_seq, n)
  IN  IF n = 0
        THEN Result(st, NoFrame, <<>>, {})
        ELSE Result([st EXCEPT !.next_seq = (@ + n) % SeqSpace,
                               !.missing = Without(@, lost),
                               !.asm = NewAssembler],
                    NoFrame, <<>>, {st.next_seq})

ExpireMissingHead(st, force) ==
  LET n == IF st.next_seq = None THEN 0 ELSE ExpiredRun(st, force)
      lost == Run(st.next_seq, n)
  IN  IF n = 0
        THEN Result(st, NoFrame, <<>>, {})
        ELSE Result([st EXCEPT !.next_seq = (@ + n) % SeqSpace,
                               !.missing = Without(@, lost),
                               !.asm = NewAssembler],
                    NoFrame, <<>>, lost)

MutPushAheadUnbounded(st, p, forward) ==
  IF forward > ReorderMax
    THEN Feed(NewSsrc, p, Run(st.next_seq, forward))
    ELSE PopReadyBufferedFrame([st EXCEPT !.missing = MarkMissing(@, st.next_seq, forward),
                                          !.pending_media = OrInsert(@, {SeqOf(p)}, p)], {})

(* A packet ahead of the cursor: a gap wider than the buffer is given up   *)
(* at once, with everything buffered behind it; a narrower one is waited   *)
(* for.                                                                    *)
PushAhead(st, p, forward) ==
  LET seq == SeqOf(p)
      marked == [st EXCEPT !.missing = MarkMissing(@, st.next_seq, forward),
                           !.pending_media = OrInsert(@, {seq}, p)]
      expired == IF Cardinality(DOMAIN marked.pending_media) > ReorderMax
                   THEN ExpireMissingHead(marked, TRUE)
                   ELSE Result(marked, NoFrame, <<>>, {})
  IN  IF forward > ReorderMax
        THEN Feed(NewSsrc, p, Run(st.next_seq, forward))
        ELSE PopReadyBufferedFrame(expired.st, expired.lost)

MutNoOldPacketCheck(st, p) ==
  IF st.next_seq = None \/ SeqOf(p) = st.next_seq
    THEN Feed(st, p, {})
    ELSE PushAhead(st, p, Forward(SeqOf(p), st.next_seq))

PushMediaPacket(st, p) ==
  LET forward == Forward(SeqOf(p), st.next_seq)
  IN  CASE st.next_seq = None \/ SeqOf(p) = st.next_seq -> Feed(st, p, {})
        [] st.next_seq # None /\ SeqOf(p) # st.next_seq /\ forward < SeqSpace \div 2 ->
             PushAhead(st, p, forward)
        [] OTHER -> Result(st, NoFrame, <<>>, {})
=============================================================================
