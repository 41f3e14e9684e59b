------------------------------ MODULE DaveFrame ------------------------------
(***************************************************************************)
(* The format of a DAVE media frame (dave/src/frame.rs, codec.rs and       *)
(* leb128.rs): which bytes of an encoded frame stay readable for the       *)
(* packetizer, how clear and encrypted bytes are interleaved, the          *)
(* supplemental data behind them, and how a receiver takes it all apart.   *)
(*                                                                         *)
(* A byte has Width bits instead of 8, so that lengths soon need two       *)
(* digits.  0, 1 and 3 keep their part in start codes.  The first byte of  *)
(* a NAL unit is its type.  An OBU header has its size bit, its extension  *)
(* bit and its type above them.  The cipher is free: it may produce any    *)
(* bytes.                                                                  *)
(***************************************************************************)
EXTENDS Integers, SequencesExt

CONSTANTS Width,         \* bits of a byte
          UlebDigits,    \* digits of a LEB128 number below its top bit (9)
          TagBytes,      \* of the AEAD tag (8)
          Vp8KeyHeader,  \* clear bytes of a VP8 key frame (10)
          MaxZeroBits,   \* of an Exp-Golomb number (32)
          MaxNonce,      \* the largest truncated nonce (u32::MAX)
          None

ASSUME FormatAssumption ==
  /\ Width \in Nat /\ Width > 2 /\ UlebDigits \in Nat \ {0} /\ TagBytes \in Nat \ {0}
  /\ Vp8KeyHeader \in Nat \ {0} /\ MaxZeroBits \in Nat \ {0} /\ MaxNonce \in Nat

Radix == 2 ^ (Width - 1)     \* of LEB128; a byte is below 2 * Radix

H264Slice == 5               \* the NAL unit types that are encrypted: slices,
H265Cutoff == 6              \* and for H265 every type below this one
DroppedObu == 2              \* temporal delimiter, tile list and padding
MarkerByte == 2 * Radix - 2
Marker == <<MarkerByte, MarkerByte>>
LongStartCode == <<0, 0, 0, 1>>

(* s[from .. to], counted from 0 as in the code, without to.               *)
Cut(s, from, to) == SubSeq(s, from + 1, to)

Least(a, b) == IF a < b THEN a ELSE b

-----------------------------------------------------------------------------
(* LEB128 *)

Uleb(value) ==
  LET write[v \in 0 .. value] ==
        IF v < Radix THEN <<v>> ELSE <<Radix + (v % Radix)>> \o write[v \div Radix]
  IN  write[value]

(* The number at the head of bytes and its length, or None.                *)
ReadUleb(bytes) ==
  LET read[i \in 0 .. Len(bytes)] ==
        CASE i = Len(bytes) \/ (i = UlebDigits /\ bytes[i + 1] > 1) -> None
          [] i < Len(bytes) /\ (i = UlebDigits => bytes[i + 1] <= 1)
             /\ (i = UlebDigits \/ bytes[i + 1] < Radix) ->
               [value |-> bytes[i + 1] * Radix ^ i, len |-> i + 1]
          [] OTHER ->
               LET rest == read[i + 1]
               IN  IF rest = None THEN None
                   ELSE [rest EXCEPT !.value = @ + (bytes[i + 1] - Radix) * Radix ^ i]
  IN  read[0]

-----------------------------------------------------------------------------
(* Annex B *)

MutFindNextNalu(f, from) ==
  LET scan[i \in 0 .. Len(f) + 3] ==
        CASE i >= Len(f) - 3 -> None
          [] i < Len(f) - 3 /\ f[i + 1] = 0 /\ f[i + 2] = 0 /\ f[i + 3] = 1 ->
               [start |-> i + 3, code |-> 3]
          [] OTHER -> scan[i + 3]
  IN  scan[from]

(* The first start code at or after from that a byte follows.              *)
FindNextNalu(f, from) ==
  LET scan[i \in 0 .. Len(f) + 3] ==
        CASE i >= Len(f) - 3 -> None
          [] i < Len(f) - 3 /\ f[i + 3] = 0 -> scan[i + 1]
          [] i < Len(f) - 3 /\ f[i + 1] = 0 /\ f[i + 2] = 0 /\ f[i + 3] = 1 ->
               [start |-> i + 3, code |-> IF i >= 1 /\ f[i] = 0 THEN 4 ELSE 3]
          [] OTHER -> scan[i + 3]
  IN  scan[from]

StartCodes(f) ==
  LET walk[from \in 0 .. Len(f)] ==
        LET nalu == FindNextNalu(f, from)
        IN  IF nalu = None THEN <<>> ELSE <<nalu>> \o walk[nalu.start]
  IN  walk[0]

NalusAt(codes, frameLen) ==
  [k \in DOMAIN codes |->
     [start |-> codes[k].start,
      end |-> IF k = Len(codes) THEN frameLen ELSE codes[k + 1].start - codes[k + 1].code]]

(* The NAL units, each from its header to the next start code.             *)
Nalus(f) == NalusAt(StartCodes(f), Len(f))

-----------------------------------------------------------------------------
(* What is encrypted of a frame: the OutboundFrameProcessor *)

End(range) == range.offset + range.len

NewProcessor == [ranges |-> <<>>, clear |-> <<>>, secret |-> <<>>, index |-> 0]

(* Adjacent clear bytes become one range.                                  *)
AddUnencrypted(p, bytes) ==
  LET extends == p.ranges # <<>> /\ End(Last(p.ranges)) = p.index
  IN  IF bytes = <<>> THEN p
      ELSE [p EXCEPT !.ranges = IF extends THEN [@ EXCEPT ![Len(@)].len = @ + Len(bytes)]
                                ELSE Append(@, [offset |-> p.index, len |-> Len(bytes)]),
                     !.clear = @ \o bytes, !.index = @ + Len(bytes)]

AddEncrypted(p, bytes) == [p EXCEPT !.secret = @ \o bytes, !.index = @ + Len(bytes)]

FallbackAllEncrypted(f) == AddEncrypted(NewProcessor, f)

ProcessVp8(f) ==
  LET n == IF f[1] % 2 = 0 THEN Vp8KeyHeader ELSE 1
  IN  IF n > Len(f) THEN FallbackAllEncrypted(f)
      ELSE AddEncrypted(AddUnencrypted(NewProcessor, Cut(f, 0, n)), Cut(f, n, Len(f)))

(* The bytes that hold the first three Exp-Golomb numbers of a slice       *)
(* header.  An emulation prevention byte is skipped.                       *)
BytesCoveringPps(payload) ==
  LET bits == Len(payload) * Width
      Escape(b) == b >= 2 /\ payload[b + 1] = 3 /\ payload[b] = 0 /\ payload[b - 1] = 0
      Zero(bit) == (payload[(bit \div Width) + 1] \div (2 ^ (Width - 1 - (bit % Width)))) % 2 = 0
      scan[bit \in 0 .. 3 * bits, zeros \in 0 .. MaxZeroBits, values \in 0 .. 3] ==
        IF values = 3 THEN (bit \div Width) + 1
        ELSE IF bit >= bits \/ zeros = MaxZeroBits THEN None
        ELSE IF bit % Width = 0 /\ Escape(bit \div Width) THEN scan[bit + Width, zeros, values]
        ELSE IF Zero(bit) THEN scan[bit + 1, zeros + 1, values]
        ELSE scan[bit + 1 + zeros, 0, values + 1]
  IN  scan[0, 0, 0]

NalHeaderBytes(codec) == IF codec = "H264" THEN 1 ELSE 2

EncryptsPayload(codec, type) == IF codec = "H264" THEN type = H264Slice ELSE type < H265Cutoff

ClearPrefix(codec, nalu) ==
  IF codec = "H265" THEN (IF Len(nalu) < 2 THEN None ELSE 2)
  ELSE LET pps == BytesCoveringPps(Tail(nalu)) IN IF pps = None THEN None ELSE 1 + pps

(* Every start code becomes a long one.  A last NAL unit of one byte is    *)
(* not taken.                                                              *)
ProcessH26x(codec, f) ==
  LET nalus == SelectSeq(Nalus(f), LAMBDA n : n.start < Len(f) - 1)
      Unit(n) == Cut(f, n.start, n.end)
      Secret(n) == EncryptsPayload(codec, f[n.start + 1])
      Prefix(n) == ClearPrefix(codec, Unit(n))
      Add(p, n) ==
        LET unit == Unit(n)
            clear == IF Secret(n) THEN Prefix(n) ELSE Len(unit)
        IN  AddEncrypted(AddUnencrypted(AddUnencrypted(p, LongStartCode), Cut(unit, 0, clear)),
                         Cut(unit, clear, Len(unit)))
      unfit == \E k \in DOMAIN nalus :
                 Secret(nalus[k]) /\ (\/ Prefix(nalus[k]) = None
                                      \/ Prefix(nalus[k]) > Len(Unit(nalus[k])))
  IN  IF Len(f) < 3 + NalHeaderBytes(codec) \/ Nalus(f) = <<>> \/ unfit
        THEN FallbackAllEncrypted(f) ELSE FoldLeft(Add, NewProcessor, nalus)

Sized(head) == head % 2 = 1

Extended(head) == (head \div 2) % 2 = 1

(* The OBU at an offset, or None: its header bytes and its payload.        *)
ReadObu(f, at) ==
  LET head == f[at + 1]
      body == at + IF Extended(head) THEN 2 ELSE 1
      size == ReadUleb(Cut(f, body, Len(f)))
  IN  IF body >= Len(f) \/ (Sized(head) /\ size = None) THEN None
      ELSE LET from == IF Sized(head) THEN body + size.len ELSE body
               to == IF Sized(head) THEN from + size.value ELSE Len(f)
           IN  IF to > Len(f) THEN None
               ELSE [head |-> head, extension |-> Cut(f, at + 1, body), from |-> from, to |-> to]

Obus(f) ==
  LET walk[at \in 0 .. Len(f)] ==
        LET obu == ReadObu(f, at)
            rest == walk[obu.to]
        IN  IF at = Len(f) THEN <<>>
            ELSE IF obu = None THEN None
            ELSE IF rest = None THEN None ELSE <<obu>> \o rest
  IN  walk[0]

(* Some OBUs are left out.  An OBU that reaches the end of the frame loses *)
(* its size, because the supplemental data will follow it.                 *)
ProcessAv1(f) ==
  LET obus == Obus(f)
      Add(p, obu) ==
        LET rewrite == Sized(obu.head) /\ obu.to = Len(f)
            size == IF Sized(obu.head) /\ ~rewrite THEN Uleb(obu.to - obu.from) ELSE <<>>
            head == IF rewrite THEN obu.head - 1 ELSE obu.head
        IN  IF obu.head \div 4 = DroppedObu THEN p
            ELSE AddEncrypted(AddUnencrypted(p, <<head>> \o obu.extension \o size),
                              Cut(f, obu.from, obu.to))
  IN  IF obus = None THEN FallbackAllEncrypted(f) ELSE FoldLeft(Add, NewProcessor, obus)

Process(codec, f) ==
  CASE codec \in {"Opus", "Vp9"} -> FallbackAllEncrypted(f)
    [] codec = "Vp8" -> ProcessVp8(f)
    [] codec = "Av1" -> ProcessAv1(f)
    [] OTHER -> ProcessH26x(codec, f)

-----------------------------------------------------------------------------
(* Clear and encrypted bytes: the InterleavedFramePlan *)

Split(ranges, f) ==
  LET Step(s, r) == [clear |-> s.clear \o Cut(f, r.offset, End(r)),
                     secret |-> s.secret \o Cut(f, s.at, r.offset), at |-> End(r)]
      split == FoldLeft(Step, [clear |-> <<>>, secret |-> <<>>, at |-> 0], ranges)
  IN  [split EXCEPT !.secret = @ \o Cut(f, split.at, Len(f))]

Reconstruct(ranges, clear, secret) ==
  LET Step(s, r) ==
        [out |-> s.out \o Cut(secret, s.secret, s.secret + (r.offset - s.at))
                       \o Cut(clear, s.clear, s.clear + r.len),
         clear |-> s.clear + r.len, secret |-> s.secret + (r.offset - s.at), at |-> End(r)]
      done == FoldLeft(Step, [out |-> <<>>, clear |-> 0, secret |-> 0, at |-> 0], ranges)
  IN  done.out \o Cut(secret, done.secret, Len(secret))

-----------------------------------------------------------------------------
(* Supplemental data *)

RangeBytes(ranges) ==
  FlattenSeq([k \in DOMAIN ranges |-> Uleb(ranges[k].offset) \o Uleb(ranges[k].len)])

(* What follows the tag, or None when its size does not fit a byte.        *)
SupplementalTail(nonce, ranges) ==
  LET fields == Uleb(nonce) \o RangeBytes(ranges)
      size == TagBytes + Len(fields) + 1 + Len(Marker)
  IN  IF size >= 2 * Radix THEN None ELSE fields \o <<size>> \o Marker

ParseUnencryptedRanges(bytes, frameLen) ==
  LET parse[at \in 0 .. Len(bytes), previous \in 0 .. frameLen] ==
        LET offset == ReadUleb(Cut(bytes, at, Len(bytes)))
            len == ReadUleb(Cut(bytes, at + offset.len, Len(bytes)))
            end == offset.value + len.value
            rest == parse[at + offset.len + len.len, end]
        IN  IF at = Len(bytes) THEN <<>>
            ELSE IF offset = None THEN None
            ELSE IF len = None THEN None
            ELSE IF offset.value < previous \/ end > frameLen THEN None
            ELSE IF rest = None THEN None
            ELSE <<[offset |-> offset.value, len |-> len.value]>> \o rest
  IN  parse[0, 0]

(* FrameParseScratch::parse: None for a frame that is not a protocol frame.*)
ParseFrame(f) ==
  LET size == f[Len(f) - 2]
      fields == Cut(f, Len(f) - size + TagBytes, Len(f) - 3)
      nonce == ReadUleb(fields)
      body == Cut(f, 0, Len(f) - size)
      ranges == ParseUnencryptedRanges(Cut(fields, nonce.len, Len(fields)), Len(body))
  IN  IF Len(f) < TagBytes + 3 THEN None
      ELSE IF Cut(f, Len(f) - 2, Len(f)) # Marker THEN None
      ELSE IF size < TagBytes + 3 \/ size > Len(f) THEN None
      ELSE IF nonce = None THEN None
      ELSE IF nonce.value > MaxNonce \/ ranges = None THEN None
      ELSE [nonce |-> nonce.value, body |-> body, ranges |-> ranges,
            tag |-> Cut(f, Len(f) - size, Len(f) - size + TagBytes)]

-----------------------------------------------------------------------------
(* Encryption *)

(* encrypt_processed with what the cipher returned.                        *)
EncryptProcessed(p, nonce, ciphertext, tag) ==
  LET tail == SupplementalTail(nonce, p.ranges)
  IN  IF tail = None THEN None
      ELSE Reconstruct(p.ranges, p.clear, ciphertext) \o tag \o tail

HasStartCode(bytes) == FindNextNalu(bytes, 0) # None

MutValidateH26x(p, f) ==
  LET Before(k) == IF k = 1 THEN 0 ELSE End(p.ranges[k - 1])
      last == Before(Len(p.ranges) + 1)
  IN  /\ \A k \in DOMAIN p.ranges : ~HasStartCode(Cut(f, Before(k), p.ranges[k].offset))
      /\ last = p.index \/ ~HasStartCode(Cut(f, last, Len(f)))

(* No encrypted section makes a start code, not even with its neighbours.  *)
ValidateH26x(p, f) ==
  LET Before(k) == IF k = 1 THEN 0 ELSE End(p.ranges[k - 1])
      Padded(from) == IF from < 2 THEN 0 ELSE from - 2
      last == Before(Len(p.ranges) + 1)
  IN  /\ \A k \in DOMAIN p.ranges :
           \/ Before(k) = p.ranges[k].offset
           \/ ~HasStartCode(Cut(f, Padded(Before(k)), Least(p.ranges[k].offset + 2, Len(f))))
      /\ last = p.index \/ ~HasStartCode(Cut(f, Padded(last), Len(f)))

ValidateProcessed(codec, p, f) == codec \in {"H264", "H265"} => ValidateH26x(p, f)
=============================================================================
