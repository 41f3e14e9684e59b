--------------------------- MODULE MCRtpReceive ----------------------------
(***************************************************************************)
(* Streams for model-checking RtpReceive.                                  *)
(***************************************************************************)
EXTENDS RtpReceive

Packet(codec, ts, start, end) ==
  [codec |-> codec, ts |-> ts, start |-> start, end |-> end, fault |-> "none"]

(* VP8 frames of three, one and two packets and, as the session changes    *)
(* its codec to and fro, H.264 frames of two NAL units: the second is      *)
(* fragmented in one frame, the first is a malformed aggregate in another. *)
(* The stream is longer than a turn of the sequence numbers: packet 3, the *)
(* end of a VP8 frame, has the number of packet 13, the end of another.    *)
VideoStream == <<Packet("Vpx", 1, TRUE, FALSE), Packet("Vpx", 1, FALSE, FALSE),
                 Packet("Vpx", 1, FALSE, TRUE),
                 Packet("NalUnit", 2, TRUE, FALSE), Packet("NalUnit", 2, TRUE, TRUE),
                 Packet("NalUnit", 3, TRUE, FALSE),
                 Packet("NalFragment", 3, TRUE, FALSE), Packet("NalFragment", 3, FALSE, TRUE),
                 Packet("Vpx", 4, TRUE, TRUE),
                 [Packet("NalUnit", 5, TRUE, FALSE) EXCEPT !.fault = "append"],
                 Packet("NalUnit", 5, TRUE, TRUE),
                 Packet("Vpx", 6, TRUE, FALSE), Packet("Vpx", 6, FALSE, TRUE)>>

(* AV1: a first frame whose last packet is empty, and a second whose last  *)
(* packet carries no marker, so that only the next timestamp completes it. *)
(* A packet that begins with an OBU has the start bit, in mid-frame too.   *)
Av1Stream == <<Packet("Av1", 1, TRUE, FALSE),
               [Packet("Av1", 1, FALSE, FALSE) EXCEPT !.fault = "parse"],
               Packet("Av1", 2, TRUE, FALSE), Packet("Av1", 2, TRUE, FALSE),
               Packet("Av1", 3, TRUE, TRUE)>>
=============================================================================
