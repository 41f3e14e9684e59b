----------------------------- MODULE MCMediaPath -----------------------------
(***************************************************************************)
(* Frames for module MediaPath.  Each says what a receiver must get when   *)
(* it travels as it is (plain) and when it is encrypted (sealed).  Start   *)
(* codes come back long, a last NAL unit of one byte and some AV1 OBUs are *)
(* left out of encrypted frames, and there the last OBU has no size.       *)
(***************************************************************************)
EXTENDS MediaPath

Frame(codec, bytes, plain, sealed) ==
  [codec |-> codec, bytes |-> bytes, plain |-> plain, sealed |-> sealed]

Unit(bytes) == LongStartCode \o bytes

Unchanged(codec, bytes) == Frame(codec, bytes, bytes, bytes)

OneUnit(codec, nalu) == Frame(codec, <<0, 0, 1>> \o nalu, Unit(nalu), Unit(nalu))

TwoUnits(codec, a, b) ==
  Frame(codec, Unit(a) \o <<0, 0, 1>> \o b, Unit(a) \o Unit(b), Unit(a) \o Unit(b))

(* A slice; one whose clear bytes end with two zeros; one with an          *)
(* emulation prevention byte; one that cannot be parsed; one of two        *)
(* packets; two slices; a parameter set and a slice, which is of two       *)
(* packets in the second of them; a parameter set, alone and behind a      *)
(* slice, so that the frame ends in clear bytes; a slice and an end of     *)
(* sequence.                                                               *)
LongSlice == <<5, 15, 9, 9, 9, 9, 9, 9, 9, 9, 9, 9, 9, 9, 2>>

H264Frames ==
  {OneUnit("H264", <<5, 15, 9, 2>>), OneUnit("H264", <<5, 12, 1, 0, 0, 9>>),
   OneUnit("H264", <<5, 1, 0, 0, 3, 8, 2, 9>>), OneUnit("H264", <<5, 0>>),
   OneUnit("H264", LongSlice),
   TwoUnits("H264", <<5, 15, 9>>, <<5, 15, 2>>), TwoUnits("H264", <<7, 8>>, <<5, 15, 9>>),
   TwoUnits("H264", <<7, 8>>, LongSlice),
   OneUnit("H264", <<7, 8>>), TwoUnits("H264", <<5, 15, 9>>, <<7, 8>>),
   Frame("H264", <<0, 0, 1, 5, 15, 9, 0, 0, 1, 10>>,
         Unit(<<5, 15, 9>>) \o Unit(<<10>>), Unit(<<5, 15, 9>>))}

H265Frames ==
  {OneUnit("H265", <<4, 9, 7, 2>>), TwoUnits("H265", <<8, 9, 7>>, <<4, 9, 7>>)}

(* A key frame of two packets, an inter frame, a key frame too short for   *)
(* its header.                                                             *)
Vp8Frames ==
  {Unchanged("Vp8", <<2, 7, 8, 5, 6, 9>>), Unchanged("Vp8", <<3, 9>>), Unchanged("Vp8", <<2, 7>>)}

Vp9Frames == {Unchanged("Vp9", <<9, 3, 9, 3, 9, 3, 9>>)}

(* One OBU; a temporal delimiter and two OBUs; one OBU with an extension;  *)
(* two OBUs of which the second is cut short.                              *)
Av1Frames ==
  {Frame("Av1", <<5, 2, 9, 9>>, <<5, 2, 9, 9>>, <<4, 9, 9>>),
   Frame("Av1", <<9, 0, 5, 1, 9, 13, 1, 7>>, <<9, 0, 5, 1, 9, 13, 1, 7>>, <<5, 1, 9, 12, 7>>),
   Frame("Av1", <<7, 3, 1, 9>>, <<7, 3, 1, 9>>, <<6, 3, 9>>),
   Unchanged("Av1", <<5, 1, 9, 5, 7, 9>>)}

AllFrames ==
  {Unchanged("Opus", <<9, 9>>)} \cup H264Frames \cup H265Frames \cup Vp8Frames \cup Vp9Frames
    \cup Av1Frames

AllVideo == [codec : Codec \ {"Opus"}, ssrc : {1}] \cup {[codec |-> "H264", ssrc |-> 2]}

SomeVideo == {[codec |-> "Av1", ssrc |-> 1], [codec |-> "H264", ssrc |-> 2]}
=============================================================================
