----------------------------- MODULE RtpPayload -----------------------------
(***************************************************************************)
(* The RTP payload formats of cacophony/src/rtp_payload.rs: how a frame is *)
(* cut into payloads of at most MaxPayload bytes, and what a receiver's    *)
(* parser makes of one.                                                    *)
(*                                                                         *)
(* A payload is a record of what its header bytes say (first and last      *)
(* fragment, the NAL unit header of a fragment) and its bytes.  size       *)
(* counts the header bytes too.  Aggregated NAL units and several AV1      *)
(* elements in a payload are accepted by the parser, never produced by the *)
(* packetizer, and left out, as are the optional fields of the VP8 and VP9 *)
(* descriptors.                                                            *)
(***************************************************************************)
EXTENDS DaveFrame

CONSTANT MaxPayload   \* RTP_MEDIA_PAYLOAD_MAX_BYTES (1200)

ASSUME PayloadAssumption == MaxPayload \in Nat /\ MaxPayload > 3

Codec == {"Opus", "Vp8", "Vp9", "H264", "H265", "Av1"}

H26x == {"H264", "H265"}

(* AnnexBNalus passes over empty units.                                    *)
Units(f) == SelectSeq(Nalus(f), LAMBDA n : n.end > n.start)

(* A packetizer: the frame, the unit or offset it is at and the offset of  *)
(* the next fragment in that unit.                                         *)
NewPacketizer(codec, f) ==
  IF f = <<>> \/ (codec \in H26x /\ Units(f) = <<>>) THEN None
  ELSE [codec |-> codec, frame |-> f, at |-> 0, fragment |-> 0]

Payload(kind, first, last, head, overhead, bytes) ==
  [kind |-> kind, first |-> first, last |-> last, head |-> head, bytes |-> bytes,
   size |-> overhead + Len(bytes)]

(* A step of a packetizer: a payload with its marker, the end, or an error.*)
Emit(payload, marker, packetizer) ==
  [step |-> "payload", payload |-> payload, marker |-> marker, packetizer |-> packetizer]

Done == [step |-> "done"]

TooLarge == [step |-> "error"]

NextSingle(pk) ==
  IF pk.at > 0 THEN Done
  ELSE IF Len(pk.frame) > MaxPayload THEN TooLarge
  ELSE Emit(Payload("raw", TRUE, TRUE, <<>>, 0, pk.frame), FALSE, [pk EXCEPT !.at = 1])

MutNextFragmented(pk) ==
  LET end == Least(pk.at + MaxPayload, Len(pk.frame))
      last == end = Len(pk.frame)
  IN  IF pk.at >= Len(pk.frame) THEN Done
      ELSE Emit(Payload("raw", pk.at = 0, last, <<>>, 1, Cut(pk.frame, pk.at, end)), last,
                [pk EXCEPT !.at = end])

(* VP8 and VP9 *)
NextFragmented(pk) ==
  LET end == Least(pk.at + MaxPayload - 1, Len(pk.frame))
      last == end = Len(pk.frame)
  IN  IF pk.at >= Len(pk.frame) THEN Done
      ELSE Emit(Payload("raw", pk.at = 0, last, <<>>, 1, Cut(pk.frame, pk.at, end)), last,
                [pk EXCEPT !.at = end])

(* A unit that does not fit is sent as fragments that carry its header.    *)
NextNalu(pk, nalu, lastUnit) ==
  LET n == NalHeaderBytes(pk.codec)
      body == Cut(nalu, n, Len(nalu))
      end == Least(pk.fragment + MaxPayload - (n + 1), Len(body))
      last == end = Len(body)
  IN  IF Len(nalu) <= MaxPayload
        THEN Emit(Payload("nalu", TRUE, TRUE, <<>>, 0, nalu), lastUnit, [pk EXCEPT !.at = @ + 1])
        ELSE Emit(Payload("fragment", pk.fragment = 0, last, Cut(nalu, 0, n), n + 1,
                          Cut(body, pk.fragment, end)),
                  lastUnit /\ last,
                  IF last THEN [pk EXCEPT !.at = @ + 1, !.fragment = 0]
                          ELSE [pk EXCEPT !.fragment = end])

(* at counts the units taken.                                              *)
NextUnit(pk, units) ==
  IF pk.at = Len(units) THEN Done
  ELSE NextNalu(pk, Cut(pk.frame, units[pk.at + 1].start, units[pk.at + 1].end),
                pk.at + 1 = Len(units))

NextH26x(pk) == NextUnit(pk, Units(pk.frame))

Av1ObuEnd(f, at) ==
  LET body == at + IF Extended(f[at + 1]) THEN 2 ELSE 1
      size == ReadUleb(Cut(f, body, Len(f)))
  IN  IF body > Len(f) THEN None
      ELSE IF ~Sized(f[at + 1]) THEN Len(f)
      ELSE IF size = None THEN None
      ELSE IF body + size.len + size.value > Len(f) THEN None
      ELSE body + size.len + size.value

(* One OBU, or a fragment of one, in a payload.                            *)
NextObu(pk, obuEnd) ==
  LET from == pk.at + pk.fragment
      end == Least(from + MaxPayload - 1, obuEnd)
      last == end = obuEnd
  IN  IF pk.at >= Len(pk.frame) THEN Done
      ELSE IF obuEnd = None THEN TooLarge
      ELSE Emit(Payload("raw", pk.fragment = 0, last, <<>>, 1, Cut(pk.frame, from, end)),
                obuEnd = Len(pk.frame) /\ last,
                IF last THEN [pk EXCEPT !.at = obuEnd, !.fragment = 0]
                        ELSE [pk EXCEPT !.fragment = end - pk.at])

NextAv1(pk) == NextObu(pk, Av1ObuEnd(pk.frame, pk.at))

NextPayload(pk) ==
  CASE pk.codec = "Opus" -> NextSingle(pk)
    [] pk.codec \in {"Vp8", "Vp9"} -> NextFragmented(pk)
    [] pk.codec \in H26x -> NextH26x(pk)
    [] OTHER -> NextAv1(pk)

-----------------------------------------------------------------------------
(* The receiver's parsers *)

(* A NAL unit type no single-unit payload may have, or no type at all.     *)
Malformed(codec, payload) ==
  /\ payload.kind = "nalu"
  /\ IF codec = "H264" THEN payload.bytes[1] = 0 ELSE Len(payload.bytes) < 2

(* boundary.starts_frame and boundary.completes_frame                      *)
StartsFrame(codec, payload, continues) ==
  CASE codec = "Opus" -> TRUE
    [] codec = "Av1" -> ~continues /\ payload.first
    [] payload.kind = "nalu" -> ~continues
    [] OTHER -> payload.first

CompletesFrame(codec, payload, marker) ==
  CASE codec = "Opus" -> TRUE
    [] codec = "Vp9" -> marker \/ payload.last
    [] codec = "Vp8" -> marker /\ payload.bytes # <<>>
    [] payload.kind = "fragment" -> marker /\ payload.last
    [] OTHER -> marker

AppendDepacketized(frame, payload) ==
  frame \o (CASE payload.kind = "nalu" -> LongStartCode \o payload.bytes
              [] payload.kind = "fragment" /\ payload.first ->
                   LongStartCode \o payload.head \o payload.bytes
              [] OTHER -> payload.bytes)
=============================================================================
