# Verification of cacophony

`cacophony` is an async Rust client for Discord voice; `dave` is its library for
DAVE, the end-to-end encryption of voice media. This directory holds TLA+ models
of the parts whose correctness depends on order, time and failure, the TLC
configurations that check them on small instances, and TLAPS proofs about three
of them. `PROJECT.json` maps every definition to the lines it models and lists the
components, runs, mutants, findings, hazards and theorems.

## The system

A `Connection` is a handle. Behind it one **driver** task (`connection/driver.rs`)
owns all state and loops over a `tokio::select!` of heartbeats, application
commands, media commands, websocket messages, UDP packets and its own earliest
deadline. What it drives:

| part | code | model |
|---|---|---|
| media keys: hash ratchet, replay window, retained ratchets | `dave/src/ratchet.rs` | `CryptorManager`, `MediaCipher`, `MediaCipherProofs` |
| reorder buffer, schedules, ready queue | `state.rs`, `connection/receive.rs` | `ReceiveSsrc`, `RtpReceive` |
| frame assembly | `media.rs`, `rtp_payload.rs` | `RtpFrameAssembler` |
| what the gateway said about DAVE | `state.rs` | `DaveGatewayState` |
| the MLS session | `dave/src/session.rs`, `passthrough.rs` | `DaveSession` (OpenMLS external) |
| the coordinator between them | `dave.rs`, `gateway.rs` | `DaveCoordinator` |
| encrypted frames that have to wait | `state.rs`, `queue.rs`, `connection/receive.rs` | `PendingDaveMedia` |
| clocked Opus playout | `connection/playout.rs` | `OpusPlayout` |
| handle, requests, select loop, close, join task | `connection/handle.rs`, `driver.rs` | `ConnectionDriver`, `ConnectionDriverProofs`; contract: `ConnectionService` |
| connect, roster, heartbeats | `gateway.rs`, `connection/driver.rs` | `VoiceGateway`, `VoiceGatewayProofs` |
| outbound media: send loop, RTP numbers, renegotiation | `connection/send.rs`, `media.rs` | `MediaPath` |
| packetization and payload parsing | `rtp_payload.rs` | `RtpPayload` |
| DAVE frame format, Annex B, LEB128 | `dave/src/frame.rs`, `codec.rs`, `leb128.rs` | `DaveFrame` |
| Opus and PCM utilities, Ogg | `opus.rs`, `pcm.rs` | no |
| AEAD of media frames | `dave/src/gcm.rs` | what it promises: `MediaPath`, `MediaCipher` |
| observers, statistics, errors, identity | the rest | no |

(Paths without `dave/` are under `cacophony/src`.)

## The modules

**CryptorManager / MediaCipher.** `CryptorManager` has one operator per method of
`HashRatchet`, `MissingNonceWindow` and `CryptorManager`, each from a manager
record to a manager record. `MediaCipher` puts one sender's `Encryptor` and one
receiver's `Decryptor` on either side of a network that loses, repeats and
reorders frames: any frame ever sent may be delivered in any step. A key is
`<<epoch, generation>>`, and a frame opens only with the key that sealed it.
Truncated nonces really are truncated and reconstructed.

**RtpFrameAssembler / ReceiveSsrc / RtpReceive.** Packets are positions in a
stream; their sequence number is `(FirstSeq + p) % SeqSpace`. `ReceiveSsrc` is
one source's reorder buffer as operators, `RtpReceive` the state machine: packets
arrive, the driver collects (`collecting` keeps the loop uninterrupted, each
iteration is a step), deadlines pass, sources leave. `cursor`, `fed` and `lost` are
histories: how far a source has got, which packet the assembler was given at which
place of the stream, and the places reported lost. `MCRtpReceive` holds the streams:
VP8 frames of one to three packets between H.264 frames of two NAL units, one of them
fragmented in mid-frame and one malformed; and AV1 frames, one with an empty packet and
one that only the next timestamp ends. This path is for media that needs no DAVE
decryption.

**DaveGatewayState / DaveSession / DaveCoordinator.** The first two are operators
on the gateway's and the session's state. In `DaveCoordinator` each action is one
gateway event: the handler's state change *and* the pump that follows it.
Whether OpenMLS accepts a message is an attribute of the message. The events that
came before the session description are replayed without a pump; `StartDriver` is the
first one. After that the gateway may send anything in any order and as often as it
likes, another description included.

**PendingDaveMedia.** The four buckets with the deadline of each head, the retry
each gateway event asks for, the retry loop, expiry and pruning. The facts a frame
waits for (user known, session ready, gateway ready) are changed only by events
that may change them; that an unrelated message changes nothing is `PumpSettled`
of `DaveCoordinator`. No two frames are taken to arrive at the same `Instant`.

**OpusPlayout.** The application's handle, the bounded queue, the commands and
`resolve_active_playout`. Instants are offsets from now. The application may be
cancelled at any await. `set_speaking`, which an application could call against
its own playout, is left out; a connection that closes under a playout is in
`ConnectionDriver`.

**ConnectionDriver / ConnectionService.** A request is a record: its kind, the
caller's state, where the driver holds it, the time it has left. The actions are the
caller's steps (call, `try_send`, drop of the future), both halves of
`ConnectionClose::close`, `close_and_wait` and the join task, and one action per
branch of the driver's `select!`. `pc` makes the awaits visible: a close, an abort or
another call may come between any two of its steps. The sends of a frame are one
await each; what happens inside is `MediaPath`. The writes to the websocket inside a
branch have no timeout and are taken to complete. `Finish` also stands for
`start_opus_playout`, whose command takes the same way through the media queue. `ConnectionService` is the contract:
calls are accepted, answered or refused, the connection ends, waits return.
`ConnectionDriver` implements it under the mapping `Service`.

**VoiceGateway.** The client's stages of a connect with their timeouts, the events
that `wait_for_session_description` keeps and the replay, the roster, and the
heartbeat branch with its await between the write and `mark_sent`. The gateway is
external: `members` and `sources` are its own account of the channel, against which
the client's is compared. While the driver runs it is assumed to serve a ready branch
within `MaxLate` ticks; a websocket write that never completes is outside that
assumption, and then nobody checks the heartbeat.

**DaveFrame / RtpPayload / MediaPath.** The first two are operators over sequences of
small bytes (`Width` bits, so that every range of the formats has members): which
bytes of each codec stay clear, the supplemental data, the start-code scan, validation
of a ciphertext; packetizer and parser for each codec. `MediaPath` puts them in line:
a caller's frame, the encryption loop with any ciphertext the cipher may make, the
packet loop with a socket that may fail, a network that loses packets, the assembler
and `decrypt_into`. Every packet, partial frame and frame handed out carries the sends
its bytes are from (`of`), and `malformed` the sends the packetizer broke off.
`MCMediaPath` holds the frames, each with what a receiver must get; among them are
frames that cannot be parsed, that end in clear bytes, whose second NAL unit is
fragmented, and whose second OBU is cut short.

## The runs

| run | checks | size (distinct states) |
|---|---|---|
| `media_cipher` | nothing opened twice, no nonce reused, window and key cache exact, late frames open, old ratchet retained | 481,324 |
| `rtp_video` | order, no silent loss, whole frames, over more than a turn of the sequence numbers | 146,008 |
| `rtp_two_sources` | schedules exact with two AV1 sources and departures, their frames whole, every gap left behind | 50,294 |
| `dave_coordinator` | readiness only with current keys, bounded plaintext, each MLS message once, pump idempotent, key switch on execute | 271,032 |
| `pending_dave_media` | each frame exactly one fate, waits for its real reason, source order, settles | 100,727 |
| `opus_playout` | speaking flag, finish, order, pace, finish answered | 155,642 |
| `connection` | every call in one queue of a living driver and answered, timed calls return by their own deadline, nothing held that is free, the contract `ConnectionService` refined with its liveness | 94,670 |
| `voice_gateway` | the roster is the gateway's, replay included; a silent gateway noticed in time, and one that has answered blamed only while its answer waits unread | 900,314 |
| `media_path` | frames of six codecs come back byte for byte, none mixes two, payloads fit, the skipping start-code scan is exact | 296,505 |

Every property of these runs has a mutant: a plausible slip in one mapped
definition that TLC must report.

Three runs show the code doing other than its documents or tests say:

| run | what happens |
|---|---|
| `dave_invalid_group` | recovery after a refused commit or welcome queues commands that the returned error discards |
| `pending_retry_spins` | `retry_pending_dave_media` re-queues a frame into a bucket it is draining and takes it again, without an await, until the frame expires |
| `playout_drops_fresh` | while media is not ready, each wake drops packets again for the same lateness |

The first ends the driver: `open` becomes false. The second partly masks
`WaitsForItsReason`: a retried bucket is left empty because frames that still have to
wait stay in the loop until they expire.

### Exceptions

Several properties hold but for cases in which the code does something else. The
instances contain these cases, the comment of each property names them, and its formula
excludes nothing more:

* An expiry passes over packets that have arrived (`mark_missing` marks buffered packets
  too, `state.rs:1553`) and reports them lost. They stay in the buffer, count against its
  limit, and are fed a turn of the sequence numbers later at the place of another packet
  (`InOrder`, `NoSilentLoss`, `WholeFrames`).
* The first fragment of an H.264 or H.265 NAL unit in mid-frame starts a new frame
  (`media.rs:285`), which drops the NAL units before it: a parameter set before a large
  slice (`WholeFrames`, `RoundTrip`). An encrypted frame then does not open.
* H.264, H.265 and AV1 do not mark the first packet of a frame, so after a loss the last
  units of a frame are handed out as a frame (`WholeFrames`, `OnlySentFrames`).
* A malformed packet, or one of a turn ago, may cut the end of an AV1 frame without a
  marker (`WholeFrames`).
* `validate_h26x_encrypted_frame` does not look behind a frame that ends in clear bytes
  (`dave/src/frame.rs:964`): a tag that holds a start code is cut by the packetizer and
  the frame does not open, although `dave/README.md:38` promises the retry (`RoundTrip`).
* An AV1 frame whose later OBU is malformed fails after its first packets were sent, and
  the error spends no sequence number and no timestamp (`rtp_payload.rs:599`). The next
  AV1 frame continues it at the receiver: the two are one frame, and if they are
  encrypted it does not open (`RoundTrip`, `OnlySentFrames`).
* A second session description drops a pending transition and activates the staged
  sender (`state.rs:988`) (`MediaReadyKeyed`, `SenderSwitchesOnExecute`). A transition 0
  that turns to DAVE counts as ready while proposals wait for the roster
  (`MediaReadyKeyed`).
* A new prepared epoch makes the coordinator forget which messages it has handed over
  (`HandedOnce`).

Two more observations, which no property is about: H.264 and H.265 frames that cannot
be parsed are encrypted whole and then cannot be packetized, so the send fails, as
`media_path` shows with one of them; the replay of kept events sets `last_seq` back
below that of the description, and `speaking` keeps the sources of users who have left.

## Bounds

* `media_cipher`: two nonces per generation and three generations before the
  truncated nonce wraps, so seven nonces cross both; two epochs make one
  transition; a window of two overflows with three frames.
* `rtp_video`: ten sequence numbers starting at 6, so that thirteen packets wrap and go
  on for more than a turn; packets skip up to two and are late up to two, with a buffer
  of two, so both the forced expiry and the reset of the buffer happen. An assumption
  keeps skips and delays, with the buffer, below half the sequence numbers, as the
  16-bit arithmetic needs. `rtp_two_sources`: five packets of either source, sixteen
  numbers and a ready queue of one place, which a source fills for the other.
* `dave_coordinator`: four events, replayed or not, to which the external sender and the
  roster, known from the start or not, come in addition: enough to prepare, stage keys
  and then describe the session again or change the epoch under them. One other member
  is enough for decryptors made before and after a mode change. All seven properties
  also hold with five events (1,877,454 states, three minutes), which the run leaves out
  for its length.
* `pending_dave_media`: two sources and three frames, so that two frames of one
  source are in different buckets beside one of the other.
* `opus_playout`: five packets, more than the three-packet limit for staleness;
  two playouts, of which the second starts after any end of the first. Lateness saturates
  at `MaxLate`, which an assumption keeps beyond what the code tells apart.
* `connection`: one request that may be of any kind, so that every place it can wait
  in meets every end of the driver; two calls of `close_and_wait`, so that they race
  for the join handle; queues of one place, which a `Close` command fills. The theorems
  have any number of each.
* `voice_gateway`: two users and one source, so that a source changes hands; three
  numbered events, each before or after the description; an interval of zero, which the
  code raises to one; a least timeout of three ticks, above twice the interval; a
  driver up to two ticks late, so that missed ticks follow each other.
* `media_path`: bytes of four bits; tags of three bytes and ciphertexts whose first three
  bytes are any zeros and ones, the others repeating the third, which makes start codes
  inside the ciphertext, inside the tag and across every border. The second frame has
  one ciphertext: it is there to meet the remains of the first. Payloads of up to 14
  bytes, so that some frames of two NAL units travel whole and some have their second
  unit fragmented; two attempts at encryption; one renegotiation, to AV1 on the same
  SSRC, H.264 on another, or no video; sequence numbers that start two below their end.

Deadlock is checked except where the bounds stop the model or a connection ends
(`media_cipher`, the `dave_` runs, `pending_dave_media`, `connection`,
`voice_gateway`, `media_path`).

## Fairness

The driver's `select!` polls its branches in random order, so a branch that is
ready again and again is taken: strong fairness for the timer branch and, in
`OpusPlayout`, the media branch. Loops without an await, once begun, run to their
end: weak fairness for their steps. Time passes. `RtpReceive` also assumes that
the application reads its frame stream, and that the timer branch is not always taken
just when another source has filled the ready queue. `ConnectionDriver` assumes strong fairness of
the command, close and timer branches, and weak fairness of the tasks that can go on:
the driver between two awaits, the join task, a waiter with room in the join task's
channel, and whoever has swapped `closed_once` and has yet to tell the watch.

A branch that was taken is assumed to finish. For `ConnectionDriver` that includes the
writes to the websocket (`driver.rs:151`, `159`, `170`, `235`), which have no timeout: a
gateway that stops reading can block one for ever, and then no call is answered before
the task is aborted. `TimedCallsReturn` and the progress part of `ServiceKept` hold
under that assumption. Nothing else is assumed of the network or the gateway, and
nothing of a caller: a call may never be made, or be dropped at any await.

## Proofs

Three modules hold theorems, each for all values of the constants that satisfy the
named assumptions of its module.

`MediaCipherProofs` proves, under `CryptorAssumption` and `MediaCipherAssumption`:

* `TypeCorrect`: `Spec => []TypeOK`;
* `NeverReplays`: `Spec => []NoReplay`, no frame is opened twice.

`NoReplay` counts openings and is not inductive. `Inv` adds (`ReplayInv`) that each
epoch has at most one manager; that it is made before any frame of its epoch is
opened; that all members of its window lie below its newest nonce; and that it has
*seen* every opened frame of its epoch: the frame's position is not above the newest
nonce and not in the window. A manager opens only positions it has not seen
(`ManagerDecryptFacts`, `OpeningManager`), recording one never un-sees another
(`RecordNonceFacts`), and the clean-up only removes a prefix of managers, whose
epochs never return (`CleanupManagersOK`, `TransitionStep`). Each action has a step
lemma; `NextInv` combines them. TLC finds `ReplayInv` invariant on the instance of
`media_cipher` too.

`ConnectionDriverProofs` proves, under `ConnectionAssumption`:

* `EveryCallIsHeld`: `Spec => []InOneQueue`;
* `ConnectionServes`: `Spec => Service!Safety`, the driver implements the contract.

`InOneQueue` is not inductive alone: `QueueInv` adds the types, that a call has a place
only after it was sent, that the media queue holds nothing twice, and that an ended
driver holds nothing. For the refinement `TaskInv` adds what the join task and the end
of the driver owe each other: the `JoinHandle` is given up only by an ended driver, a
driver past its loop has a result, one past its drain or about to be aborted is
closed, and whoever the join task serves or has queued has called.

`ServiceStep` maps every step: the application's to `Accept`, `Refuse`, `Leave`, `Wait`
and `LeaveWait`, the driver's to `Serve` (with no call answered, a stutter), `Return`
and `Abort` to `End`, `JoinReply` to `Return` or, when its caller has gone, `Lose`.

`VoiceGatewayProofs` proves, under `GatewayAssumption`:

* `HeartbeatsWatched`: `Spec => []HeartbeatWatch`.

The bound on the age of a heartbeat follows only with the next tick in view: the
inductive invariant relates `ack.age` to `due`, so that a heartbeat past its timeout
is judged by the next tick, and counts the acknowledgements owed and unread.

Everything else is model-checked only, on the instances above. Liveness under
fairness (`GapResolves`, `Settles`, `FinishAnswered`, `TimedCallsReturn`, the progress
part of `ServiceKept`) stays with TLC in any case, and so do the properties of
`DaveFrame` and `RtpPayload`, which are about what folds over bytes compute.

## Not modelled

* The arithmetic of the ciphers (of `gcm.rs` what its callers rely on is modelled: any
  ciphertext may come out, and a sealed frame opens with its own key, nonce and bytes
  only), the transport encryption, MLS internals, key generation and fingerprints.
* JSON and binary layouts of gateway messages, the UDP discovery packet, the RTP
  header, aggregated H.26x payloads (parsed, but never written by this packetizer).
* Opus and PCM conversion, Ogg writing, telemetry, statistics, errors, buffers: data
  processing no modelled decision depends on.
* Timer granularity and the order of equal `Instant`s are abstracted.
* The modules are composed along the data (`MediaPath`) and the control of a
  connection (`ConnectionDriver`); one state space of all of them is beyond TLC. Where
  they meet, each leaves the other's choice free: `ready` in `ConnectionDriver`, the
  session's answers in `PendingDaveMedia`.
