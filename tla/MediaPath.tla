------------------------------ MODULE MediaPath ------------------------------
(***************************************************************************)
(* The way of an encoded frame from a caller to another participant:       *)
(* SendPipeline and send_ready_media_frame (connection/send.rs), the       *)
(* encryption loop (dave/src/ratchet.rs), the frame format (DaveFrame),    *)
(* the packetizer (RtpPayload), OutboundRtpState::build_packet (media.rs), *)
(* and at the other end RtpFrameAssembler (media.rs) byte by byte and      *)
(* FrameCipher::decrypt_into (dave/src/frame.rs).                          *)
(*                                                                         *)
(* The network delivers in order, as behind the reorder buffer of module   *)
(* RtpReceive, and loses any packet.  Keys and replays are in module       *)
(* MediaCipher: here a sealed frame opens when its nonce, clear bytes,     *)
(* ciphertext and tag are those the sender produced together.              *)
(***************************************************************************)
EXTENDS RtpPayload

CONSTANTS Frames,      \* the frames callers send: [codec, bytes, plain, sealed]
          Video,       \* the video media a session may begin with: [codec, ssrc]
          Updated,     \* those of them it may be updated to
          CipherBytes, \* what the cipher's output is made of
          FreeBytes,   \* bytes of a ciphertext that are chosen one by one,
          FreeFrames,  \* for this many frames
          LaterByte,   \* what the ciphertexts after those are made of
          MaxAttempts, \* MAX_CIPHERTEXT_VALIDATION_RETRIES (10)
          SeqSpace,    \* 2^16
          TimeSpace,   \* 2^32, of timestamps and of nonce suffixes
          FirstSeq,    \* the sequence numbers a stream may have got to
          MaxFrames, MaxUpdates   \* bounds: frames sent, session updates

ASSUME PathAssumption ==
  /\ \A f \in Frames : f.codec \in Codec /\ f.bytes # <<>>
  /\ \A v \in Video : v.codec \in Codec \ {"Opus"}
  /\ Updated \subseteq Video /\ LaterByte \in CipherBytes
  /\ MaxAttempts \in Nat \ {0} /\ FreeBytes \in Nat \ {0} /\ FreeFrames \in Nat
  /\ SeqSpace \in Nat \ {0} /\ TimeSpace \in Nat \ {0}
  /\ FirstSeq \subseteq 0 .. SeqSpace - 1 /\ MaxFrames \in Nat /\ MaxUpdates \in Nat

AudioSsrc == 0

Ssrc == {AudioSsrc} \cup {v.ssrc : v \in Video}

VARIABLES
  rtp,        \* outbound_audio_rtp and outbound_video_rtp
  pc,         \* of the send: "idle", "encrypt" or "send"
  job,        \* the frame being sent, or sent last, and what is expected of it
  processor,  \* frame_processor, from process to the last attempt
  attempts,   \* encryptions tried for this frame
  nonce,      \* truncated_nonce
  seal,       \* what the cipher produced for the frame being packetized
  packetizer,
  result,     \* of the last send: "Ok" or "Error"; None before and during one
  wire,       \* the packet under way
  lost,       \* a packet of this frame was lost
  partial,    \* per SSRC, the receiver's partial frame
  got,        \* the frames handed out since this send began
  frames, updates,  \* counted against their bounds; frames numbers the sends
  malformed   \* history: the sends whose frame the packetizer could not take apart

sender == <<pc, job, processor, attempts, nonce, seal, packetizer, result>>
receiver == <<wire, lost, partial, got>>
vars == <<rtp, sender, receiver, frames, updates, malformed>>

-----------------------------------------------------------------------------
(* OutboundRtpState *)

NewRtp(codec, ssrc, seq) == [codec |-> codec, ssrc |-> ssrc, seq |-> seq, ts |-> 0, suffix |-> 0]

MediaType(codec) == IF codec = "Opus" THEN "audio" ELSE "video"

(* The packet goes out under the state's numbers, which then move on.  of  *)
(* is no part of it: it says which sends the bytes are from.               *)
BuiltPacket(s, payload, marker, dave) ==
  [codec |-> s.codec, ssrc |-> s.ssrc, seq |-> s.seq, ts |-> s.ts, suffix |-> s.suffix,
   marker |-> marker, payload |-> payload, dave |-> dave, of |-> {frames}]

Advanced(s, marker) ==
  [s EXCEPT !.seq = (@ + 1) % SeqSpace, !.suffix = (@ + 1) % TimeSpace,
            !.ts = IF MediaType(s.codec) = "audio" \/ marker THEN (@ + 1) % TimeSpace ELSE @]

-----------------------------------------------------------------------------
Init ==
  /\ \E seq \in FirstSeq, v \in Video \cup {None} :
       rtp = [audio |-> NewRtp("Opus", AudioSsrc, seq),
              video |-> IF v = None THEN None ELSE NewRtp(v.codec, v.ssrc, seq)]
  /\ pc = "idle" /\ job = None /\ processor = None /\ attempts = 0 /\ nonce = 0
  /\ seal = None /\ packetizer = None /\ result = None
  /\ wire = None /\ lost = FALSE /\ partial = [s \in Ssrc |-> None] /\ got = <<>>
  /\ frames = 0 /\ updates = 0 /\ malformed = {}

(* update_negotiated_media: a stream with the same SSRC goes on counting   *)
(* under its new codec.  An update before the first frame is like another  *)
(* initial state.  What was recorded of the last send is forgotten.        *)
UpdateNegotiatedMedia(v) ==
  /\ pc = "idle" /\ wire = None /\ frames > 0 /\ updates < MaxUpdates
  /\ updates' = updates + 1
  /\ rtp' = [rtp EXCEPT !.video =
                IF v = None THEN None
                ELSE IF @ # None /\ @.ssrc = v.ssrc THEN [@ EXCEPT !.codec = v.codec]
                ELSE NewRtp(v.codec, v.ssrc, 0)]
  /\ job' = None /\ seal' = None /\ result' = None /\ lost' = FALSE /\ got' = <<>>
  /\ UNCHANGED <<pc, processor, attempts, nonce, packetizer, wire, partial, frames, malformed>>

(* RtpPayloadPacketizer::new and the checks behind it: the stream must     *)
(* exist and have this codec.                                              *)
StartPackets(codec, bytes) ==
  LET stream == rtp[MediaType(codec)]
      pk == NewPacketizer(codec, bytes)
      accepted == pk # None /\ stream # None /\ stream.codec = codec
  IN  /\ pc' = IF accepted THEN "send" ELSE "idle"
      /\ packetizer' = IF accepted THEN pk ELSE None
      /\ result' = IF accepted THEN None ELSE "Error"

(* send_ready_media_frame, up to the first encryption.  With dave the      *)
(* frame is processed; otherwise it is packetized as it is.                *)
StartSend(f, dave) ==
  /\ pc = "idle" /\ wire = None /\ frames < MaxFrames
  /\ frames' = frames + 1
  /\ job' = [codec |-> f.codec, dave |-> dave, bytes |-> f.bytes,
             want |-> IF dave THEN f.sealed ELSE f.plain]
  /\ attempts' = 0 /\ seal' = None /\ lost' = FALSE /\ got' = <<>>
  /\ IF dave
       THEN /\ processor' = Process(f.codec, f.bytes)
            /\ pc' = "encrypt" /\ packetizer' = None /\ result' = None
       ELSE /\ processor' = None
            /\ StartPackets(f.codec, f.bytes)
  /\ UNCHANGED <<rtp, nonce, wire, partial, updates, malformed>>

(* Aes128Gcm8 may make any bytes.  A bound: those behind the first         *)
(* FreeBytes repeat the last of them, and only the first FreeFrames frames *)
(* have a choice.                                                          *)
Ciphertexts(n) ==
  IF frames > FreeFrames THEN {[i \in 1 .. n |-> LaterByte]}
  ELSE {[i \in 1 .. n |-> c[Least(i, FreeBytes)]] :
          c \in [1 .. Least(n, FreeBytes) -> CipherBytes]}

(* One attempt of encrypt_into: the nonce moves on whatever comes of it.   *)
Encrypt ==
  /\ pc = "encrypt"
  /\ nonce' = nonce + 1
  /\ \E cipher \in Ciphertexts(Len(processor.secret)), tag \in Ciphertexts(TagBytes) :
       LET f == EncryptProcessed(processor, nonce', cipher, tag)
           valid == f # None /\ ValidateProcessed(job.codec, processor, f)
           giveUp == f = None \/ attempts + 1 = MaxAttempts
       IN  IF valid
             THEN /\ processor' = None /\ attempts' = 0
                  /\ StartPackets(job.codec, f)
                  /\ seal' = IF pc' = "idle" THEN None
                             ELSE [nonce |-> nonce', processor |-> processor, cipher |-> cipher,
                                   tag |-> tag, frame |-> f]
             ELSE /\ pc' = IF giveUp THEN "idle" ELSE "encrypt"
                  /\ result' = IF giveUp THEN "Error" ELSE None
                  /\ processor' = IF giveUp THEN None ELSE processor
                  /\ attempts' = IF giveUp THEN 0 ELSE attempts + 1
                  /\ UNCHANGED <<seal, packetizer>>
  /\ UNCHANGED <<rtp, job, receiver, frames, updates, malformed>>

EndSend(outcome) == pc' = "idle" /\ packetizer' = None /\ result' = outcome

MutSendPacket(sent) ==
  /\ pc = "send" /\ wire = None
  /\ \E next \in {NextPayload(packetizer)}, stream \in {rtp[MediaType(job.codec)]} :
         \/ /\ next.step = "payload"
            /\ rtp' = IF sent THEN [rtp EXCEPT ![MediaType(job.codec)] = Advanced(@, next.marker)] ELSE rtp
            /\ IF sent
                 THEN /\ wire' = BuiltPacket(stream, next.payload, next.marker, job.dave)
                      /\ packetizer' = next.packetizer /\ UNCHANGED <<pc, result>>
                 ELSE EndSend("Error") /\ UNCHANGED wire
            /\ UNCHANGED malformed
         \/ /\ next.step # "payload" /\ ~sent
            /\ EndSend(IF next.step = "done" THEN "Ok" ELSE "Error")
            /\ malformed' = IF next.step = "done" THEN malformed ELSE malformed \cup {frames}
            /\ UNCHANGED <<rtp, wire>>
  /\ UNCHANGED <<job, processor, attempts, nonce, seal, lost, partial, got, frames, updates>>

(* A round of the loop: the next payload, its packet, and the socket,      *)
(* which takes the packet or fails (or the connection is closed).  The     *)
(* numbers are spent either way.  The loop ends with the frame, or with    *)
(* the first error.                                                        *)
SendPacket(sent) ==
  /\ pc = "send" /\ wire = None
  /\ \E next \in {NextPayload(packetizer)}, stream \in {rtp[MediaType(job.codec)]} :
         \/ /\ next.step = "payload"
            /\ rtp' = [rtp EXCEPT ![MediaType(job.codec)] = Advanced(@, next.marker)]
            /\ IF sent
                 THEN /\ wire' = BuiltPacket(stream, next.payload, next.marker, job.dave)
                      /\ packetizer' = next.packetizer /\ UNCHANGED <<pc, result>>
                 ELSE EndSend("Error") /\ UNCHANGED wire
            /\ UNCHANGED malformed
         \/ /\ next.step # "payload" /\ ~sent
            /\ EndSend(IF next.step = "done" THEN "Ok" ELSE "Error")
            /\ malformed' = IF next.step = "done" THEN malformed ELSE malformed \cup {frames}
            /\ UNCHANGED <<rtp, wire>>
  /\ UNCHANGED <<job, processor, attempts, nonce, seal, lost, partial, got, frames, updates>>

-----------------------------------------------------------------------------
(* The receiver *)

(* decrypt_into of the sealed frame of this send, or of what looks like it.*)
OpenedAs(parsed, split) ==
  IF parsed = None \/ seal = None THEN None
  ELSE IF /\ parsed.nonce = seal.nonce /\ parsed.tag = seal.tag
          /\ split.clear = seal.processor.clear /\ split.secret = seal.cipher
    THEN Reconstruct(parsed.ranges, split.clear, seal.processor.secret)
  ELSE None

OpenedParsed(parsed) == OpenedAs(parsed, Split(parsed.ranges, parsed.body))

Opened(bytes) == OpenedParsed(ParseFrame(bytes))

HandedOut(p) ==
  [codec |-> p.codec, dave |-> p.dave, of |-> p.of,
   bytes |-> IF p.dave THEN Opened(p.bytes) ELSE p.bytes]

MatchesContext(p, packet) == p # None /\ p.codec = packet.codec /\ p.dave = packet.dave

AcceptsNext(p, packet) == MatchesContext(p, packet) /\ packet.seq = (p.seq + 1) % SeqSpace

(* RtpFrameAssembler::push_packet, with the frames it completes handed out *)
(* at once.                                                                *)
PushPacket(packet) ==
  LET old == partial[packet.ssrc]
      split == MatchesContext(old, packet) /\ packet.codec = "Av1" /\ old.ts # packet.ts
      continues == ~split /\ AcceptsNext(old, packet)
      kept == IF split \/ (~continues /\ MatchesContext(old, packet)) THEN None ELSE old
      starts == StartsFrame(packet.codec, packet.payload, continues)
      extends == continues /\ ~starts
      base == IF extends THEN old
              ELSE [codec |-> packet.codec, dave |-> packet.dave, ts |-> packet.ts, bytes |-> <<>>,
                    of |-> {}]
      frame == [codec |-> base.codec, dave |-> base.dave, ts |-> base.ts, seq |-> packet.seq,
                bytes |-> AppendDepacketized(base.bytes, packet.payload),
                of |-> base.of \cup packet.of]
      rest == IF extends THEN None ELSE kept
      early == IF split THEN <<HandedOut(old)>> ELSE <<>>
      completes == CompletesFrame(packet.codec, packet.payload, packet.marker)
      skipped == Malformed(packet.codec, packet.payload) \/ (~continues /\ ~starts)
  IN  [partial |-> IF skipped THEN kept ELSE IF completes THEN rest ELSE frame,
       out |-> early \o IF ~skipped /\ completes THEN <<HandedOut(frame)>> ELSE <<>>]

Deliver ==
  /\ wire # None
  /\ \E pushed \in {PushPacket(wire)} :
         /\ partial' = [partial EXCEPT ![wire.ssrc] = pushed.partial]
         /\ got' = got \o pushed.out
  /\ wire' = None
  /\ UNCHANGED <<rtp, sender, lost, frames, updates, malformed>>

Lose ==
  /\ wire # None /\ wire' = None /\ lost' = TRUE
  /\ UNCHANGED <<rtp, sender, partial, got, frames, updates, malformed>>

Next ==
  \/ \E v \in Updated \cup {None} : UpdateNegotiatedMedia(v)
  \/ \E f \in Frames, dave \in BOOLEAN : StartSend(f, dave)
  \/ Encrypt
  \/ \E sent \in BOOLEAN : SendPacket(sent)
  \/ Deliver
  \/ Lose

Spec == Init /\ [][Next]_vars

-----------------------------------------------------------------------------
(* Properties *)

(* A NAL unit behind the first one is sent in fragments.                   *)
FragmentsLaterUnit(f) ==
  \E k \in 2 .. Len(Units(f)) : Units(f)[k].end - Units(f)[k].start > MaxPayload

(* The frame ends in clear bytes, which nobody looks behind, and there is  *)
(* a start code.                                                           *)
UnseenStartCode(p, f) ==
  /\ p.ranges # <<>> /\ End(Last(p.ranges)) = p.index
  /\ HasStartCode(Cut(f, p.index - 2, Len(f)))

(* A send that reports success and whose packets all arrive gives the      *)
(* receiver the frame, whatever ciphertext and tag the cipher made of it:  *)
(* the packetizer never takes encrypted bytes for a boundary, the          *)
(* supplemental data is found again behind them, and every byte comes back *)
(* to its place.  It fails in three cases.  A NAL unit in mid-frame that   *)
(* is fragmented makes the assembler drop the units before it.  The tag    *)
(* behind an H.26x frame that ends in clear bytes may hold a start code.   *)
(* And an AV1 frame is glued to one before it that had to be broken off    *)
(* because an OBU behind its first packet was malformed.                   *)
RoundTrip ==
  result = "Ok" /\ wire = None /\ ~lost =>
    \/ \E i \in DOMAIN got : got[i].bytes = job.want
    \/ /\ job.codec \in H26x
       /\ \/ FragmentsLaterUnit(IF job.dave THEN seal.frame ELSE job.bytes)
          \/ job.dave /\ UnseenStartCode(seal.processor, seal.frame)
    \/ \E i \in DOMAIN got : job.codec = "Av1" /\ frames \in got[i].of /\ got[i].of \cap malformed # {}

(* Whatever was lost, failed half-way or renegotiated before, no frame     *)
(* handed out holds bytes of two sends, unless the packetizer broke off    *)
(* the earlier one in the middle of an AV1 frame: then no number is spent  *)
(* and the next frame goes on where that one stopped.  An encrypted frame  *)
(* is the one being sent or does not open.  An unencrypted one that is all *)
(* of this send is its frame or, where the format does not mark a frame's  *)
(* first unit, the last units of it; only the remains of an AV1 frame are  *)
(* handed out during a later send.                                         *)
OnlySentFrames ==
  \A i \in DOMAIN got :
    /\ \A earlier, later \in got[i].of :
         earlier < later => got[i].codec = "Av1" /\ earlier \in malformed
    /\ got[i].dave => got[i].bytes \in {job.want, None}
    /\ ~got[i].dave /\ got[i].of = {frames} =>
         \/ got[i].bytes = job.want
         \/ got[i].codec \in H26x \cup {"Av1"} /\ IsSuffix(got[i].bytes, job.want)
    /\ frames \notin got[i].of => got[i].codec = "Av1"

(* No payload is larger than RTP_MEDIA_PAYLOAD_MAX_BYTES and none is       *)
(* empty, so that build_packet never rejects one in the middle of a frame. *)
PayloadsFit ==
  wire # None => wire.payload.size <= MaxPayload /\ wire.payload.bytes # <<>>

(* The skipping scan of find_next_nalu finds the first start code that a   *)
(* byte follows, from every offset of every frame that is packetized.      *)
ScanExact ==
  packetizer # None /\ packetizer.at = 0 =>
    LET f == packetizer.frame
        Codes(from) == {i \in from .. Len(f) - 4 : Cut(f, i, i + 3) = <<0, 0, 1>>}
    IN  \A from \in 0 .. Len(f) - 1 :
          LET found == FindNextNalu(f, from)
          IN  IF Codes(from) = {} THEN found = None
              ELSE found # None /\ found.start - 3 \in Codes(from)
                   /\ \A i \in Codes(from) : found.start - 3 <= i
=============================================================================
