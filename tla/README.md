# TLA+ models of the ire transport layer

This directory holds TLA+ models of the I2P router `ire`, under `src/`. They are checked with TLC.
The modelled part is the transport layer: the NTCP ("T1") handshake, the established-session frame codec, and the dispatcher that chooses a transport and drains both transports' inbound streams.
The models are written from `src/src/transport/ntcp/mod.rs` and `src/src/transport/mod.rs`.
Code that this repository does not contain is modelled from `spec.md`, and `PROJECT.json` marks it `spec_modelled`. That code is the AES wrapper, the frame serialisers, the inbound listener and NTCP2.

## 1. Inventory of the system

| Part | Source | State | Operations | Interacts with |
|---|---|---|---|---|
| Frame codec `Codec` | ntcp/mod.rs 450-541 | `aes` (two CBC IVs), `decrypted` (decrypted prefix of the read buffer) | `encode` (extend the buffer to the MTU, serialise at offset 0, truncate, encrypt in place), `decode` (decrypt the new whole blocks, parse the decrypted prefix, split off the frame) | tokio `FramedRead`/`FramedWrite` buffers; the peer's codec over TCP |
| Outbound handshake codec | ntcp/mod.rs 246-444 | `state`, `aes`, `decrypted`, `iv_enc` | decode SessionCreated / SessionConfirmB; encode SessionRequest / SessionConfirmA | `OBHandshakeState`, and `Codec` at the switch |
| `OBHandshakeState` | ntcp/mod.rs 594-772 | `SessionRequest → SessionCreated → SessionConfirmA → SessionConfirmB → Established`, `rtt_timer`, `ts_a`, `ts_b`, `dh_y` | `next_frame`, `handle_frame` (RTT, hash check, sign, verify) | the outbound codec |
| `OutboundHandshakeTransport` and connector | ntcp/mod.rs 774-970 | the two state machines above plus the `Framed` buffers | `connect`, `send_frames`, `handle_frames`, `poll`, the connector's `poll` and `transmute_transport` | `Engine::connect` |
| `Engine::connect` | ntcp/mod.rs 979-1010 | 10 s `Timeout` | select(handshake, timeout) | the connector |
| Inbound handshake codec | ntcp/mod.rs 66-244 | `state`, `aes`, `decrypted`, `iv_dec`, `dh_x` | decode SessionRequest / SessionConfirmA; encode SessionCreated / SessionConfirmB | the inbound driver (not in the repository) |
| `DHSessionKeyBuilder` | transport/mod.rs 189-229 | `dh_priv`, `dh_pub` | `get_pub`, `build_session_key` (Java `toByteArray` normalisation) | both handshake codecs |
| Dispatcher `Manager`/`Engine`/`Handle`/`Bid` | transport/mod.rs 36-187 | `engine: Option<Engine>`, `select_flag`, unbounded channels | `send` (lowest bid wins), `start` (at most once), `Engine::poll` (fair select over the two transports) | `ntcp::Manager`, `ntcp2::Manager` (not in the repository) |

What makes the system hard to get right:
- TCP splits the byte stream at arbitrary points, including inside an AES block.
- Each direction keeps one AES-CBC chain that runs from the SessionCreated tail, through SessionConfirmA/B, into every data frame.
- Two codecs (handshake, then `Codec`) share one chain and one cursor across the switch.
- A timer races the last handshake messages.
- A peer may send wrong hashes or signatures, and an attacker may alter ciphertext.

## 2. Modules

- `NTCPFraming`: pure operators shared by the codec models. A byte stream is a sequence of 8-byte units, two per AES block. Each unit records its kind (ciphertext, plaintext, clear, junk, zero), its cipher-block ordinal, and its frame and index. `DecryptBlocks` models `decrypt_blocks` on `buf[from..]`. Block *g* decrypts correctly exactly when the IV is block *g-1* of the same stream, and afterwards the IV is the last block processed, as in real CBC. `ParseFrame` gives the parser results that a decrypted prefix can produce.
- `NTCPCodec` (+ `MCNTCPCodec`): one direction of an established session.
  - Sender actions:
    - `StartSend` models `Codec::encode` behind `FramedWrite::start_send`.
    - `PollComplete` models a possibly partial write.
  - Receiver actions:
    - `ReadBuf` reads any number of arrived units.
    - `DecodeNotEnough`, `DecodeFrame`, `DecodeIncomplete` and `DecodeError` are the four outcomes of `Codec::decode`.
  - `is_readable` follows tokio's `FramedRead` loop: decode while readable, read when the decoder returned `None`.
- `NTCPHandshake` (+ `MCNTCPHandshake`): the whole handshake between Alice (the initiator) and Bob (the responder), over both TCP directions, with the switch of both ends to `Codec` and data frames from Bob to Alice.
  - Each Alice action is one whole poll step of the code:
    - decode, then `handle_frame`, then `send_frames`;
    - for example, `OBHandleSessionCreated` decodes SessionCreated, checks the hash, signs, encodes and writes SessionConfirmA, and moves both the codec and `OBHandshakeState` to SessionConfirmB.
  - Each error return is its own action: hash mismatch, bad signature, parse error, the `expect` panic.
  - `Transmute` is the connector's `transmute_transport`. `Framed::from_parts` keeps the read buffer, with `is_readable` true iff the buffer is non-empty. `Codec::from` keeps `aes` and `decrypted`.
  - The responder's driver is not in the repository and follows spec 4.4: answer SessionRequest, verify SessionConfirmA, answer SessionConfirmB, start the session.
  - Environment actions:
    - `ConnectTimesOut` models the `select` of `Engine::connect`. It polls the handshake first and the timeout only when the handshake is `NotReady`. So the timeout ends the connect only at a point where Alice waits for bytes and is not established: before TCP connects, or once her codec has decoded all it has. A deadline that passes while Alice is busy takes effect at her next such point.
    - `Tamper` alters one ciphertext unit in flight.
    - The `partial` fault makes `poll_complete` write only part of one of Alice's messages. `send_frame` ignores the `NotReady`. The rest stays in the `FramedWrite` buffer, and only the next `send_frame` would flush it. That send comes only after the peer has answered the whole message, so the rest is never written.
    - `ClockStepBack` steps the system clock back. It is only in `SpecClock`.

- `DHKey` (+ `MCDHKey`): `build_session_key`'s conversion of the exchanged DH value to a key, as RECURSIVE operators.
  - It is checked against a reference built from Java's `BigInteger.toByteArray`.
  - It uses 4-bit bytes and a 2-byte key, and checks every value up to three bytes: short values, values with the top bit set, and values longer than the key.

- The codecs' own state machines are the tables `IBDecodeNext`, `IBEncodeNext`, `OBDecodeNext` and `OBEncodeNext`, from each codec's "Update the state machine" match. Each codec step applies them, rather than copying Alice's `OBHandshakeState`.
- Alice's sending follows the code's structure:
  - `OBNext` is the typestate `OBHandshake<S>::next`.
  - `NextFrame` is `OBHandshakeState::next_frame`. It gives the frame and the next state in SessionRequest and SessionConfirmA, and None elsewhere.
  - `SendFrames` is the `send_frames` loop. It encodes the frame, moving the codec to the same next state, and writes it. Each poll that handles a frame ends with `SendFrames`, as `Stream::poll` does.
  - `OBPoll` groups the outcomes of one `OutboundHandshakeTransport::poll`.
- `HandshakeOutcome`: the abstract promise of one connection attempt to its two ends.
  - Each end's outcome is decided once.
  - An end fails with an error only after a forged hash, signature or ciphertext that it checks. A message cut short never causes an error: the waiting end can only time out or see the close.
  - Alice accepts only after Bob did, and only with a genuine SessionCreated hash and SessionConfirmB signature.
  - Alice's established session breaks only on altered ciphertext.
  - Bob closes only after Alice gave up.
  - `NTCPHandshake` implements it: `ImplementsHandshakeOutcome` maps `alice <- result[Alice]`, `bob <- result[Bob]` and `forged <- bad`.
- `FrameChannel`: the abstract promise of one direction of a session. The receiver gets a prefix of the frames the sender accepted, in order, until the channel breaks, and nothing after that. `NTCPCodec` implements it: `ImplementsFrameChannel` is `FrameChannel!Spec` under the mapping `sent <- Accepted`, `got <- delivered`, `broken <- rx_error`.
- In `NTCPHandshake`, `OBReadEOF` models Alice's `FramedRead` reading the end of the stream after Bob has refused the handshake and closed. `handle_frames` then returns `Ready(None)`, and the connector's `poll` turns that into `NotReady` (lines 957-967). The only step still open to Alice after that is the timeout.
- `Dispatcher` (+ `MCDispatcher`): `transport::Manager`, `Engine`, `Handle` and `Bid`.
  - `Init` is `Manager::new`, with the engine held in `Some`.
  - `Start` takes the engine. `StartAgain` is the second `start`, whose `expect` panics and stops the process.
  - `Send` is `Manager::send`:
    - each transport bids or not, over `[TIds -> Offer]`;
    - `MinBid` folds `KeepLower` over the chain `<<ntcp, ntcp2>>`: `filter_map` drops a missing bid, and `min_by_key` replaces the bid it keeps only with a strictly lower one, so ties go to NTCP;
    - with no bid, the message goes back to the caller;
    - otherwise a `Sink::send` future is pending. It enqueues on the winner's channel only when `PollSend` polls it.
  - `HandleSend` and `HandleTimestamp` enqueue at once.
  - `util::Select` is not in the repository. It is modelled from its use:
    - the flag toggles on every poll;
    - the stream the flag names is polled first;
    - the merged stream ends only when both streams have ended.
  - `EngineSelect*` are the four results of one `select.poll()` inside `Engine::poll`'s loop: an item, `Ready(None)`, `NotReady` (the engine parks) and an error (the engine fails).
  - The transports' engines are environment actions: `Produce`, `EndStream` and `FailStream`.

## 3. Runs

| Run | Config | Expect | What it shows |
|---|---|---|---|
| codec | NTCPCodec.cfg | pass | With a caller that flushes before sending, no TCP split of three 1-2 block frames makes decoding fail. Frames arrive in order, and the two CBC IVs never drift (`CipherStreamContiguous`). |
| codec_corruption | NTCPCodecCorruption.cfg | pass | Even with the overwrite and oversize bugs below, the codec implements `FrameChannel`: the decoder never returns a wrong, skipped or duplicated frame, because CBC chaining turns every loss into a parse error. |
| codec_overwrite | NTCPCodecOverwrite.cfg | violation | A caller that calls `start_send` again before the flush completes loses bytes, and the peer's decode fails. |
| codec_oversize | NTCPCodecOversize.cfg | violation | A frame above the MTU leaves a zero-filled buffer that is written to the peer. |
| codec_stranded | NTCPCodecStranded.cfg | violation | A complete frame, already decrypted, stays in the buffer until more bytes arrive. |
| handshake | NTCPHandshake.cfg | pass | Between honest peers, under every TCP split and every point at which the timeout can end the connect: both ends implement `HandshakeOutcome`, so nothing fails without a forged cause; once SessionConfirmB has reached Alice's buffer, the timeout can no longer fail her connect (`EstablishedWins`); both CBC chains intact across both codec switches; Bob's data frames delivered in order; both ends established whenever the timeout does not fire. |
| handshake_faults | NTCPHandshakeFaults.cfg | pass | With a wrong hash, wrong signatures, one altered ciphertext unit or one of Alice's messages cut short by the socket, both ends still implement `HandshakeOutcome`: no session the checks should refuse, no failure without a forged cause, no outcome revised. No wrong data frame is ever delivered. |
| dhkey | DHKey.cfg | pass | `build_session_key` agrees with the Java derivation for every value in range. |
| handshake_clock | NTCPHandshakeClock.cfg | violation | A clock stepped back while Alice waits for SessionCreated panics `handle_frame`. |
| handshake_eof | NTCPHandshakeEOF.cfg | violation | After Bob refuses a bad signature and closes, Alice's connect future stays pending until the timeout fires (`PeerCloseFailsConnect`). |
| dispatcher | Dispatcher.cfg | pass | Every accepted message is queued on the transport a declarative reference picks: the least one among the lowest bidders (`LowestBidWins`, against the `min_by_key` fold). Every message a transport yields is eventually taken unless a stream fails (`IngressDrained`). |
| dispatcher_spin | DispatcherSpin.cfg | violation | Once both transport streams have ended, `Engine::poll` never returns (`EngineParks`). |

For each property of a passing run, `PROJECT.json` names a mutant: a plausible bug in a mapped definition that TLC must catch.

## 4. Findings

1. **Stranded frame** (`Codec::decode`, line 487; same shape at lines 106 and 337).
   - `decode` returns `Ok(None)` when no new whole block was decrypted, before it parses the frames already decrypted.
   - When one read brings two frames, the second one waits until the peer sends more bytes.
   - If the peer sends nothing more, the frame is never delivered.
   - The same applies to a data frame that arrives together with SessionConfirmB: the handshake codec decrypts it and `Codec::from` inherits the count.
2. **Overwrite of unflushed bytes** (`Codec::encode`, line 511).
   - `encode` serialises at offset 0 of the `FramedWrite` buffer and truncates it.
   - A second `start_send` before the first frame is fully written therefore destroys the unwritten part of the first frame.
   - The encrypt IV has already moved past the lost blocks, so the session dies on the peer's side.
3. **Oversize frame kills the session** (line 524).
   - `BufferTooSmall` returns an error but leaves `NTCP_MTU` zero bytes in the write buffer, and the next flush writes them.
   - Spec section 7 says a too-large message is dropped and the session kept.
4. **RTT panic** (line 725).
   - `rtt_timer.elapsed().expect(..)` panics if the wall clock is stepped back during the handshake.
   - Spec 4.4 says the RTT does not gate the handshake.
5. **Peer close is not an error** (line 963).
   - When Bob rejects the handshake and closes, `handle_frames` returns `Ready(None)`.
   - The connector answers `NotReady` without a wake-up, so `connect` fails only after the 10 s timeout.
   - Spec section 5 says a connection-level error propagates to the owning task.
6. **Dispatcher spin** (`Engine::poll`, transport/mod.rs line 179).
   - `while let Async::Ready(f) = select.poll()?` also continues on `Ready(None)`.
   - Once both transport streams have ended, the loop never exits, and the task holds its thread.
   - Spec 4.6 says the dispatcher parks.

## 5. Bounds, fairness, abstractions

**Units and blocks.** One unit stands for 8 bytes, and a block is two units. This is the coarsest grain at which a TCP split can fall inside an AES block, which is the case that exercises `decrypted`.

**Codec bounds.**
- Frame sizes: 1-2 blocks, with an MTU of 2 blocks. The oversize configs allow 3 blocks.
- Three frames. Three frames are needed for a read to hold the tail of one frame, a whole frame and the head of a third.
- Up to 6 units in flight.

**Handshake bounds.**
- Message sizes:
  - SessionRequest: 2 clear units.
  - SessionCreated: 2 clear units plus one block, for its 48-byte encrypted tail.
  - SessionConfirmA: 2 blocks, so it can arrive in two parts.
  - SessionConfirmB: 1 block.
- Two data frames from Bob. One can arrive with SessionConfirmB and one after the switch.
- Handshake messages are written whole, since a fresh socket accepts a few hundred bytes. The exception is the `partial` fault of `handshake_faults`, which cuts one of Alice's messages at any unit.

**Fairness.**
- `Spec` assumes weak fairness of each end's steps. The tokio reactor polls a task whenever bytes arrive on its socket, and `FramedRead` keeps decoding while its buffer is readable.
- The timeout has no fairness in `Spec`. `HandshakeCompletes` and `PeerCloseFailsConnect` are therefore stated for behaviours in which the timeout never fires.
- The codec's `FairSpec` adds weak fairness of writes, reads and decoding. Under it, `EveryFrameDelivered` fails (finding 1).
- `Dispatcher` assumes weak fairness of `EngineStep`. The executor polls a task that was notified, and a stream that yields or ends notifies it. `Produce`, `EndStream` and `FailStream` are the transports' own behaviour and get no fairness.

**Dispatcher bounds.**
- One message through `send` or a `Handle`. `LowestBidWins` is about each message on its own, and one message already ranges over every pair of bids from {1, 2, none}, ties included.
- Two inbound messages per transport. That is enough for a loop that returned after one item, or that polled only one stream, to leave a message behind (`IngressDrained`).
- Every interleaving of ending and failing streams is explored.
- `DispatcherSpin` uses one inbound message, because the spin needs only both streams ended.

**Not modelled.**
- Key agreement and the actual DH, AES and Ed25519 values. Hashes and signatures are reduced to "verifies or not", and ciphertext integrity to block ordinals.
- Timestamps.
- NTCP2.
- The inbound accept loop and session registry.
- The order in which the router polls the `send` futures. That code is outside this repository. Spec 5 promises submission order, and it holds only for a caller that polls each future before the next `send` (hazard at transport/mod.rs line 161).
- The liveness cost of a partial handshake write is not checked as a property. The attempt waits for the 10 s timeout, which `Spec` does not assume fires.
- Fairness of `util::Select` between the two streams. `util.rs` is not in the repository, so a bound on how long one transport waits would check the modelled selector, not this code.
- Stream errors in the dispatcher. An error from either stream ends the engine by `?`; spec 5 makes this the intended behaviour, so `IngressDrained` exempts a failed engine.
- tokio-core's wake-up rules. The hazards in `PROJECT.json` say what this leaves unchecked.
