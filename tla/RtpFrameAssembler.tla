------------------------- MODULE RtpFrameAssembler -------------------------
(***************************************************************************)
(* Reassembly of encoded frames from in-order RTP packets: the             *)
(* RtpFrameAssembler of cacophony/src/media.rs and the frame boundaries    *)
(* the payload parsers of cacophony/src/rtp_payload.rs report to it.       *)
(*                                                                         *)
(* The packets of a stream are numbered by their position in it, a         *)
(* natural number that never wraps; only the 16-bit sequence number        *)
(* derived from it travels.  Stream gives what the parsers can tell of the *)
(* packet at each position:                                                *)
(*   codec   "Opus", "Vpx" (VP8, VP9), "Av1", "NalUnit" (an H.264/H.265    *)
(*           single or aggregated NAL unit) or "NalFragment" (an FU)       *)
(*   ts      the RTP timestamp, which the packets of one frame share       *)
(*   start   the payload's own start bit                                   *)
(*   end     the packet ends its frame (the marker and, where the codec    *)
(*           has one, its end bit)                                         *)
(*   fault   "none", "parse" (the payload header is malformed) or "append" *)
(*           (the header parses, the depacketized payload does not)        *)
(***************************************************************************)
EXTENDS Integers, Sequences

CONSTANTS SeqSpace,   \* number of sequence numbers (2^16 in the code)
          FirstSeq,   \* sequence number before the first packet's
          Stream      \* sequence of packet descriptions

Codecs == {"Opus", "Vpx", "Av1", "NalUnit", "NalFragment"}

ASSUME StreamAssumption ==
  /\ SeqSpace \in Nat /\ SeqSpace > 3 /\ SeqSpace % 2 = 0 /\ FirstSeq \in 0 .. SeqSpace - 1
  /\ \A p \in DOMAIN Stream :
       Stream[p] \in [codec : Codecs, ts : Nat, start : BOOLEAN, end : BOOLEAN,
                      fault : {"none", "parse", "append"}]

Positions == DOMAIN Stream

SeqOf(p) == (FirstSeq + p) % SeqSpace

NextSeq(seq) == (seq + 1) % SeqSpace

(* A frame and a partial frame are the positions of their packets; no      *)
(* partial is <<>>.                                                        *)
NewAssembler == [partial |-> <<>>, completed |-> <<>>]

IsH26x(p) == Stream[p].codec \in {"NalUnit", "NalFragment"}

SameCodec(p, q) == Stream[p].codec = Stream[q].codec \/ (IsH26x(p) /\ IsH26x(q))

MatchesContext(partial, p) == partial # <<>> /\ SameCodec(partial[1], p)

AcceptsNext(partial, p) ==
  MatchesContext(partial, p) /\ SeqOf(p) = NextSeq(SeqOf(partial[Len(partial)]))

MutNeverSplit(partial, p) == FALSE

ShouldCompleteBefore(partial, p) ==
  /\ MatchesContext(partial, p)
  /\ Stream[p].codec = "Av1"
  /\ Stream[partial[1]].ts # Stream[p].ts

MutStartsAnywhere(p, continues) == ~continues

(* The boundary.starts_frame each parser computes, given whether the       *)
(* packet continues a partial frame.                                       *)
StartsFrame(p, continues) ==
  CASE Stream[p].codec = "Opus" -> TRUE
    [] Stream[p].codec = "Av1" -> ~continues /\ Stream[p].start
    [] Stream[p].codec = "NalUnit" -> ~continues
    [] OTHER -> Stream[p].start

NoFrame == [kind |-> "none", packets |-> <<>>]

FrameError == [kind |-> "error", packets |-> <<>>]

(* completed.pop_front(): the assembler left and the frame returned.       *)
PopCompleted(asm) ==
  IF asm.completed = <<>>
    THEN [asm |-> asm, frame |-> NoFrame]
    ELSE [asm |-> [asm EXCEPT !.completed = Tail(@)],
          frame |-> [kind |-> "frame", packets |-> Head(asm.completed)]]

(* A packet that cannot start a frame is skipped when it continues none;   *)
(* a packet that starts one replaces whatever partial there was, and that  *)
(* partial stays behind when the new frame is complete at once.            *)
PushPacket(asm, p) ==
  LET split == ShouldCompleteBefore(asm.partial, p)
      completed == IF split THEN Append(asm.completed, asm.partial) ELSE asm.completed
      old == IF split THEN <<>> ELSE asm.partial
      continues == AcceptsNext(old, p)
      kept == IF ~continues /\ MatchesContext(old, p) THEN <<>> ELSE old
      starts == StartsFrame(p, continues)
      extends == continues /\ ~starts
      frame == IF extends THEN Append(kept, p) ELSE <<p>>
      rest == IF extends THEN <<>> ELSE kept
  IN  CASE Stream[p].fault = "parse" ->
             [asm |-> [partial |-> kept, completed |-> completed], frame |-> FrameError]
        [] Stream[p].fault # "parse" /\ ~continues /\ ~starts ->
             PopCompleted([partial |-> kept, completed |-> completed])
        [] Stream[p].fault = "append" /\ (continues \/ starts) ->
             [asm |-> [partial |-> rest, completed |-> completed], frame |-> FrameError]
        [] OTHER ->
             PopCompleted(IF Stream[p].end \/ Stream[p].codec = "Opus"
                            THEN [partial |-> rest, completed |-> Append(completed, frame)]
                            ELSE [partial |-> frame, completed |-> completed])
=============================================================================
