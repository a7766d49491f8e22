--------------------------- MODULE NTCPHandshake ---------------------------
(***************************************************************************)
(* The NTCP (transport "T1") four-message handshake between an initiator,  *)
(* Alice (OutboundHandshakeTransport, OutboundTransportConnector and the   *)
(* Engine::connect timeout), and a responder, Bob (InboundHandshakeCodec   *)
(* and the inbound driver that feeds it), over one TCP connection, and the *)
(* hand-off of both ends to the established Codec (src/transport/ntcp/     *)
(* mod.rs).  The CBC state of each direction runs from the SessionCreated  *)
(* tail through SessionConfirmA/B into the data frames, so the model       *)
(* follows the bytes and both decrypt cursors across the hand-off.        *)
(*                                                                         *)
(* A handshake message is written whole to the socket (a fresh connection  *)
(* accepts a few hundred bytes) unless the "partial" fault cuts one of     *)
(* Alice's short; TCP splits it at any 8-byte unit on the reading side.    *)
(* Signatures and hashes are abstracted to whether they verify: the        *)
(* environment may make a peer send a wrong one (Faults).                 *)
(***************************************************************************)
EXTENDS Integers, Sequences, SequencesExt, NTCPFraming

CONSTANTS
    Msg3Blocks,  \* SessionConfirmA length in AES blocks
    MaxData,     \* bound: data frames Bob's established Codec sends
    Faults       \* faults the environment may inject, a subset of FaultKinds

\* "hash": Bob's SessionCreated carries a wrong H(dh_x || dh_y);
\* "sigA"/"sigB": the SessionConfirmA/B signature does not verify;
\* "tamper": one ciphertext unit is altered in flight;
\* "partial": the socket takes only part of one of Alice's messages.
FaultKinds == {"hash", "sigA", "sigB", "tamper", "partial"}

ASSUME /\ Msg3Blocks \in Nat \ {0}
       /\ MaxData \in Nat
       /\ Faults \subseteq FaultKinds

Alice == "alice"
Bob == "bob"
Parties == {Alice, Bob}
Peer(p) == IF p = Alice THEN Bob ELSE Alice

HandshakeStates ==
    {"SessionRequest", "SessionCreated", "SessionConfirmA", "SessionConfirmB",
     "Established"}

\* Alice: the outcome of the connect future; Bob: of his inbound session.
Results == {"pending", "session", "error", "timeout", "panic", "closed"}

VARIABLES
    cstate,        \* party -> state of its handshake codec
    ob_state,      \* Alice's OBHandshakeState (OutboundHandshakeTransport.state)
    iv_enc,        \* party -> Aes256 encrypt IV (last cipher block sent)
    iv_dec,        \* party -> Aes256 decrypt IV (last cipher block received)
    wire,          \* party -> bytes in flight TO the party
    rbuf,          \* party -> its FramedRead buffer
    decrypted,     \* party -> the codec's `decrypted` prefix of rbuf
    readable,      \* party -> FramedRead is_readable
    result,        \* party -> Results
    bad,           \* faults injected so far
    clock_behind,  \* SystemTime was stepped back before Alice's rtt_timer
    data_sent,     \* data frames Bob's Codec has sent
    delivered,     \* data frames Alice's Codec has returned
    eof            \* Alice's FramedRead has read the end of the stream

vars == <<cstate, ob_state, iv_enc, iv_dec, wire, rbuf, decrypted, readable,
          result, bad, clock_behind, data_sent, delivered, eof>>

-----------------------------------------------------------------------------
(* Wire images of the messages, in 8-byte units *)

Msg1Units == 2                 \* 256-byte dh_x + 32-byte hash, in clear
Msg2Units == 4                 \* dh_y in clear (2 units) + 48-byte AES tail
Msg3Units == UnitsPerBlock * Msg3Blocks
Msg4Units == UnitsPerBlock
DataUnits == UnitsPerBlock

\* Frame ids per direction: 1 = msg1/msg2, 2 = msg3/msg4, then data.
DataFrameId(j) == 2 + j

FrameUnitsTo(p, f) ==
    IF p = Bob THEN (IF f = 1 THEN Msg1Units ELSE Msg3Units)
    ELSE CASE f = 1 -> Msg2Units [] f = 2 -> Msg4Units [] OTHER -> DataUnits

\* OutboundHandshakeCodec::encode(SessionRequest): serialised, not encrypted.
SessionRequestBytes == [j \in 1..Msg1Units |-> Unit("raw", 0, 1, j)]

\* InboundHandshakeCodec::encode(SessionCreated): the 48-byte inner part is
\* encrypted by the fresh Aes256 in a temporary buffer, then written after
\* dh_y.
SessionCreatedBytes(iv) ==
    <<Unit("raw", 0, 1, 1), Unit("raw", 0, 1, 2)>>
    \o EncryptBlocks(<<Unit("pt", 0, 1, 3), Unit("pt", 0, 1, 4)>>, iv)

\* OutboundHandshakeCodec::encode(SessionConfirmA): serialised, encrypted.
SessionConfirmABytes(iv) == EncryptBlocks(PlainFrame(2, Msg3Blocks), iv)

\* InboundHandshakeCodec::encode(SessionConfirmB): serialised, encrypted.
SessionConfirmBBytes(iv) == EncryptBlocks(PlainFrame(2, 1), iv)

\* Codec::encode of a one-block data frame.
DataFrameBytes(f, iv) == EncryptBlocks(PlainFrame(f, 1), iv)

\* The environment decides whether a peer sends a wrong hash or signature.
MayCorrupt(kind) == IF kind \in Faults THEN {{}, {kind}} ELSE {{}}

Init ==
    /\ cstate = [p \in Parties |-> "SessionRequest"]
    /\ ob_state = "SessionRequest"
    /\ iv_enc = [p \in Parties |-> 0]          \* the encrypt seeds
    /\ iv_dec = [p \in Parties |-> NoBlock]    \* iv_dec: [0u8; 16]
    /\ wire = [p \in Parties |-> <<>>]
    /\ rbuf = [p \in Parties |-> <<>>]
    /\ decrypted = [p \in Parties |-> 0]
    /\ readable = [p \in Parties |-> FALSE]
    /\ result = [p \in Parties |-> "pending"]
    /\ bad = {}
    /\ clock_behind = FALSE
    /\ data_sent = 0
    /\ delivered = <<>>
    /\ eof = FALSE

-----------------------------------------------------------------------------
(* Helpers shared by the codecs *)

Live(p) == result[p] \in {"pending", "session"}

Send(p, bytes) == wire' = [wire EXCEPT ![Peer(p)] = @ \o bytes]

SetOf(f, p, v) == [f EXCEPT ![p] = v]

\* The codecs' own state machines ("Update the state machine"): a decoded
\* or encoded frame moves the codec to the next state; any other state
\* panics (decode) or is refused before encoding (encode).
IBDecodeNext == ("SessionRequest" :> "SessionCreated") @@
                ("SessionConfirmA" :> "SessionConfirmB")
IBEncodeNext == ("SessionCreated" :> "SessionConfirmA") @@
                ("SessionConfirmB" :> "Established")
OBDecodeNext == ("SessionCreated" :> "SessionConfirmA") @@
                ("SessionConfirmB" :> "Established")
OBEncodeNext == ("SessionRequest" :> "SessionCreated") @@
                ("SessionConfirmA" :> "SessionConfirmB")

\* decrypt_blocks(&mut buf[self.decrypted..]) and the parser on the
\* decrypted prefix, in the states where the codec decrypts in place.
Dec(p) == DecryptBlocks(rbuf[p], decrypted[p], iv_dec[p])

Cursor(p) == decrypted[p] + UnitsPerBlock * Dec(p).blocks

Parsed(p) == ParseFrame(SubSeq(Dec(p).buf, 1, Cursor(p)),
                        LAMBDA f : FrameUnitsTo(p, f))

Decrypting(p) ==
    \/ p = Alice /\ result[Alice] = "pending" /\ cstate[Alice] = "SessionConfirmB"
    \/ p = Alice /\ result[Alice] = "session"
    \/ p = Bob /\ result[Bob] = "pending" /\ cstate[Bob] = "SessionConfirmA"

\* Fault: decrypted is not reduced by the consumed frame.
SplitFrame_NoIncrement(p, res) ==
    /\ rbuf' = SetOf(rbuf, p, SubSeq(Dec(p).buf, res.n + 1, Len(Dec(p).buf)))
    /\ decrypted' = SetOf(decrypted, p, decrypted[p] - res.n)
    /\ iv_dec' = SetOf(iv_dec, p, Dec(p).iv)

\* A frame parsed: buf.split_to(consumed); self.decrypted -= consumed,
\* keeping the IV the decryption ended on.
SplitFrame(p, res) ==
    /\ rbuf' = SetOf(rbuf, p, SubSeq(Dec(p).buf, res.n + 1, Len(Dec(p).buf)))
    /\ decrypted' = SetOf(decrypted, p, Cursor(p) - res.n)
    /\ iv_dec' = SetOf(iv_dec, p, Dec(p).iv)

\* FramedRead::poll: the decoder asked for more bytes; read what has arrived.
ReadBuf(p, k) ==
    /\ Live(p) /\ ~readable[p]
    /\ k \in 1..Len(wire[p])
    /\ rbuf' = SetOf(rbuf, p, rbuf[p] \o SubSeq(wire[p], 1, k))
    /\ wire' = SetOf(wire, p, SubSeq(wire[p], k + 1, Len(wire[p])))
    /\ readable' = SetOf(readable, p, TRUE)
    /\ UNCHANGED <<cstate, ob_state, iv_enc, iv_dec, decrypted, result, bad,
                   clock_behind, data_sent, delivered, eof>>

\* No new whole block: Ok(None) before parsing.
DecodeNotEnough(p) ==
    /\ Decrypting(p) /\ readable[p]
    /\ Dec(p).blocks = 0
    /\ readable' = SetOf(readable, p, FALSE)
    /\ UNCHANGED <<cstate, ob_state, iv_enc, iv_dec, wire, rbuf, decrypted,
                   result, bad, clock_behind, data_sent,
                   delivered, eof>>

\* The parser needs more bytes: Ok(None), the new blocks stay decrypted.
DecodeIncomplete(p) ==
    /\ Decrypting(p) /\ readable[p]
    /\ Dec(p).blocks > 0
    /\ Incomplete \in Parsed(p)
    /\ rbuf' = SetOf(rbuf, p, Dec(p).buf)
    /\ decrypted' = SetOf(decrypted, p, Cursor(p))
    /\ iv_dec' = SetOf(iv_dec, p, Dec(p).iv)
    /\ readable' = SetOf(readable, p, FALSE)
    /\ UNCHANGED <<cstate, ob_state, iv_enc, wire, result, bad,
                   clock_behind, data_sent, delivered, eof>>

\* The parser fails: Err("parse error"); the party drops the connection.
DecodeError(p) ==
    /\ Decrypting(p) /\ readable[p]
    /\ Dec(p).blocks > 0
    /\ ParseError \in Parsed(p)
    /\ result' = SetOf(result, p, "error")
    /\ UNCHANGED <<cstate, ob_state, iv_enc, iv_dec, wire, rbuf, decrypted,
                   readable, bad, clock_behind, data_sent,
                   delivered, eof>>

-----------------------------------------------------------------------------
(* Bob: InboundHandshakeCodec and the inbound driver *)

\* session_request(buf) is Incomplete: Ok(None).
IBRequestIncomplete ==
    /\ result[Bob] = "pending" /\ readable[Bob]
    /\ cstate[Bob] = "SessionRequest"
    /\ Len(rbuf[Bob]) < Msg1Units
    /\ readable' = SetOf(readable, Bob, FALSE)
    /\ UNCHANGED <<cstate, ob_state, iv_enc, iv_dec, wire, rbuf, decrypted,
                   result, bad, clock_behind, data_sent,
                   delivered, eof>>

\* Fault: iv_dec is not taken from the SessionRequest hash.
IBHandleSessionRequest_NoIvDec ==
    /\ result[Bob] = "pending" /\ readable[Bob]
    /\ cstate[Bob] = "SessionRequest"
    /\ Len(rbuf[Bob]) >= Msg1Units
    /\ rbuf' = SetOf(rbuf, Bob, SubSeq(rbuf[Bob], Msg1Units + 1, Len(rbuf[Bob])))
    /\ cstate' = SetOf(cstate, Bob, "SessionConfirmA")
    /\ Send(Bob, SessionCreatedBytes(iv_enc[Bob]))
    /\ iv_enc' = SetOf(iv_enc, Bob, iv_enc[Bob] + 1)
    /\ \E c \in MayCorrupt("hash") : bad' = bad \cup c
    /\ UNCHANGED <<ob_state, iv_dec, decrypted, readable, result,
                   clock_behind, data_sent, delivered, eof>>

\* SessionRequest decoded: dh_x kept, iv_dec := hash[16..32] (the seed of
\* Alice's encrypt stream), buffer split, state SessionCreated.  The driver
\* answers with SessionCreated, whose encode builds the Aes256, encrypts
\* the inner part (one block) and moves the codec to SessionConfirmA.
IBHandleSessionRequest ==
    /\ result[Bob] = "pending" /\ readable[Bob]
    /\ cstate[Bob] = "SessionRequest"
    /\ Len(rbuf[Bob]) >= Msg1Units
    /\ rbuf' = SetOf(rbuf, Bob, SubSeq(rbuf[Bob], Msg1Units + 1, Len(rbuf[Bob])))
    /\ iv_dec' = SetOf(iv_dec, Bob, 0)
    /\ cstate' = SetOf(cstate, Bob, IBEncodeNext[IBDecodeNext[cstate[Bob]]])
    /\ Send(Bob, SessionCreatedBytes(iv_enc[Bob]))
    /\ iv_enc' = SetOf(iv_enc, Bob, iv_enc[Bob] + 1)
    /\ \E c \in MayCorrupt("hash") : bad' = bad \cup c
    /\ UNCHANGED <<ob_state, decrypted, readable, result,
                   clock_behind, data_sent, delivered, eof>>

\* SessionConfirmA decoded (state SessionConfirmB) and its signature
\* verified by the driver, which sends SessionConfirmB (encode encrypts it
\* and moves the codec to Established) and turns the transport into a
\* Codec session carrying aes and decrypted.
IBHandleSessionConfirmA ==
    /\ Decrypting(Bob) /\ readable[Bob]
    /\ Dec(Bob).blocks > 0
    /\ \E res \in Parsed(Bob) : res.r = "done" /\ SplitFrame(Bob, res)
    /\ "sigA" \notin bad
    /\ cstate' = SetOf(cstate, Bob, IBEncodeNext[IBDecodeNext[cstate[Bob]]])
    /\ Send(Bob, SessionConfirmBBytes(iv_enc[Bob]))
    /\ iv_enc' = SetOf(iv_enc, Bob, iv_enc[Bob] + 1)
    /\ \E c \in MayCorrupt("sigB") : bad' = bad \cup c
    /\ result' = SetOf(result, Bob, "session")
    /\ UNCHANGED <<ob_state, readable, clock_behind, data_sent,
                   delivered, eof>>

\* SessionConfirmA signature invalid: ConnectionRefused, connection dropped.
IBSessionConfirmABadSig ==
    /\ Decrypting(Bob) /\ readable[Bob]
    /\ Dec(Bob).blocks > 0
    /\ \E res \in Parsed(Bob) : res.r = "done"
    /\ "sigA" \in bad
    /\ result' = SetOf(result, Bob, "error")
    /\ UNCHANGED <<cstate, ob_state, iv_enc, iv_dec, wire, rbuf, decrypted,
                   readable, bad, clock_behind, data_sent,
                   delivered, eof>>

\* Bob's session sends a data frame: Codec::encode, written whole.
BobSendData ==
    /\ result[Bob] = "session"
    /\ data_sent < MaxData
    /\ Send(Bob, DataFrameBytes(DataFrameId(data_sent + 1), iv_enc[Bob]))
    /\ iv_enc' = SetOf(iv_enc, Bob, iv_enc[Bob] + 1)
    /\ data_sent' = data_sent + 1
    /\ UNCHANGED <<cstate, ob_state, iv_dec, rbuf, decrypted, readable, result,
                   bad, clock_behind, delivered, eof>>

\* Alice's end is gone: Bob's FramedRead reaches end of stream and his
\* handshake or session ends.
BobSeesEOF ==
    /\ Live(Bob)
    /\ result[Alice] \in {"error", "timeout", "panic"}
    /\ wire[Bob] = <<>> /\ ~readable[Bob]
    /\ result' = SetOf(result, Bob, "closed")
    /\ UNCHANGED <<cstate, ob_state, iv_enc, iv_dec, wire, rbuf, decrypted,
                   readable, bad, clock_behind, data_sent,
                   delivered, eof>>

-----------------------------------------------------------------------------
(* Alice: OutboundHandshakeTransport, its connector and Engine::connect *)

\* The typestate OBHandshake<S>: each state's `next` consumes it and
\* yields the following state.
OBNext ==
    ("SessionRequest" :> "SessionCreated") @@
    ("SessionCreated" :> "SessionConfirmA") @@
    ("SessionConfirmA" :> "SessionConfirmB") @@
    ("SessionConfirmB" :> "Established")

\* OBHandshakeState::next_frame: in the two states where Alice speaks, the
\* frame to send and the next state; elsewhere None and the same state.
NextFrame(s) ==
    IF s \in {"SessionRequest", "SessionConfirmA"}
    THEN [frame |-> s, next |-> OBNext[s]]
    ELSE [frame |-> "None", next |-> s]

OBIsEstablished == ob_state = "Established"

\* How many units of an n-unit message poll_complete gets written.
WriteLens(n) == IF "partial" \in Faults /\ "partial" \notin bad THEN 1..n ELSE {n}

\* send_frame: start_send encodes into the FramedWrite buffer, then
\* poll_complete writes what the socket takes, and a NotReady from it is
\* ignored.  The rest would only be flushed by the next send_frame, and
\* Alice sends her next message only after the peer has answered this one
\* whole, so a short write leaves the rest unwritten for good.  c: the
\* faults the message carries.
SendFrame(bytes, c) ==
    \E k \in WriteLens(Len(bytes)) :
        /\ Send(Alice, SubSeq(bytes, 1, k))
        /\ bad' = bad \cup c \cup (IF k < Len(bytes) THEN {"partial"} ELSE {})

\* send_frames after the OB state became s and the codec state cs: while
\* next_frame yields a frame, send_frame (start_send, which encodes and
\* moves the codec to the state after it, then poll_complete).  After one
\* frame next_frame is None, so at most one frame is written.
SendFrames(s, cs) ==
    LET nf == NextFrame(s) IN
    /\ ob_state' = nf.next
    /\ cstate' = SetOf(cstate, Alice, IF nf.frame = "None" THEN cs ELSE OBEncodeNext[cs])
    /\ CASE nf.frame = "SessionRequest" ->
              /\ SendFrame(SessionRequestBytes, {})
              /\ UNCHANGED iv_enc
         [] nf.frame = "SessionConfirmA" ->
              /\ \E c \in MayCorrupt("sigA") :
                    SendFrame(SessionConfirmABytes(iv_enc[Alice]), c)
              /\ iv_enc' = SetOf(iv_enc, Alice, iv_enc[Alice] + Msg3Blocks)
         [] OTHER -> UNCHANGED <<wire, iv_enc, bad>>

\* OutboundHandshakeTransport::connect, once TCP is connected: the first
\* send_frames encodes SessionRequest (codec -> SessionCreated, OB state ->
\* SessionCreated with rtt_timer := now) and writes it.
AliceConnect ==
    /\ ob_state = "SessionRequest" /\ result[Alice] = "pending"
    /\ SendFrames(ob_state, cstate[Alice])
    /\ UNCHANGED <<iv_dec, rbuf, decrypted, readable, result,
                   clock_behind, data_sent, delivered, eof>>

\* session_created_enc(&buf) is Incomplete: Ok(None).
OBCreatedIncomplete ==
    /\ result[Alice] = "pending" /\ readable[Alice]
    /\ cstate[Alice] = "SessionCreated"
    /\ Len(rbuf[Alice]) < Msg2Units
    /\ readable' = SetOf(readable, Alice, FALSE)
    /\ UNCHANGED <<cstate, ob_state, iv_enc, iv_dec, wire, rbuf, decrypted,
                   result, bad, clock_behind, data_sent,
                   delivered, eof>>

\* The SessionCreated tail decrypted by the Aes256 just built from dh_y.
CreatedTail == DecryptBlocks(SubSeq(rbuf[Alice], 3, Msg2Units), 0, 0)

\* handle_frame: H(dh_x || dh_y) recomputed equals the decrypted hash field.
HashMatches == CreatedTail.buf[1].k = "pt" /\ "hash" \notin bad

\* rtt_timer.elapsed().expect(..) panics: the clock is behind rtt_timer.
OBSessionCreatedClockPanic ==
    /\ result[Alice] = "pending" /\ readable[Alice]
    /\ cstate[Alice] = "SessionCreated"
    /\ Len(rbuf[Alice]) >= Msg2Units
    /\ clock_behind
    /\ result' = SetOf(result, Alice, "panic")
    /\ UNCHANGED <<cstate, ob_state, iv_enc, iv_dec, wire, rbuf, decrypted,
                   readable, bad, clock_behind, data_sent,
                   delivered, eof>>

\* Fault: poll handles the frame but does not call send_frames.
OBHandleSessionCreated_NoSend ==
    /\ result[Alice] = "pending" /\ readable[Alice]
    /\ cstate[Alice] = "SessionCreated"
    /\ Len(rbuf[Alice]) >= Msg2Units
    /\ ~clock_behind /\ HashMatches
    /\ rbuf' = SetOf(rbuf, Alice, SubSeq(rbuf[Alice], Msg2Units + 1, Len(rbuf[Alice])))
    /\ iv_dec' = SetOf(iv_dec, Alice, CreatedTail.iv)
    /\ cstate' = SetOf(cstate, Alice, "SessionConfirmA")
    /\ ob_state' = "SessionConfirmA"
    /\ UNCHANGED <<iv_enc, wire, decrypted, readable, result, bad,
                   clock_behind, data_sent, delivered, eof>>

\* SessionCreated decoded (codec -> SessionConfirmA) and handled: the hash
\* checks, so OB state -> SessionConfirmA; poll's send_frames then encodes
\* SessionConfirmA (codec and OB state -> SessionConfirmB) and writes it.
OBHandleSessionCreated ==
    /\ result[Alice] = "pending" /\ readable[Alice]
    /\ cstate[Alice] = "SessionCreated"
    /\ Len(rbuf[Alice]) >= Msg2Units
    /\ ~clock_behind /\ HashMatches
    /\ rbuf' = SetOf(rbuf, Alice, SubSeq(rbuf[Alice], Msg2Units + 1, Len(rbuf[Alice])))
    /\ iv_dec' = SetOf(iv_dec, Alice, CreatedTail.iv)
    /\ SendFrames(OBNext[ob_state], OBDecodeNext[cstate[Alice]])
    /\ UNCHANGED <<decrypted, readable, result, clock_behind,
                   data_sent, delivered, eof>>

\* Hash mismatch: InvalidData, the connect future fails.
OBSessionCreatedHashMismatch ==
    /\ result[Alice] = "pending" /\ readable[Alice]
    /\ cstate[Alice] = "SessionCreated"
    /\ Len(rbuf[Alice]) >= Msg2Units
    /\ ~clock_behind /\ ~HashMatches
    /\ result' = SetOf(result, Alice, "error")
    /\ UNCHANGED <<cstate, ob_state, iv_enc, iv_dec, wire, rbuf, decrypted,
                   readable, bad, clock_behind, data_sent,
                   delivered, eof>>

\* Fault: the SessionConfirmB signature is not verified.
OBHandleSessionConfirmB_NoVerify ==
    /\ Decrypting(Alice) /\ readable[Alice] /\ result[Alice] = "pending"
    /\ Dec(Alice).blocks > 0
    /\ \E res \in Parsed(Alice) : res.r = "done" /\ SplitFrame(Alice, res)
    /\ cstate' = SetOf(cstate, Alice, "Established")
    /\ ob_state' = "Established"
    /\ UNCHANGED <<iv_enc, wire, readable, result, bad,
                   clock_behind, data_sent, delivered, eof>>

\* SessionConfirmB decoded (codec -> Established, decrypted -= consumed) and
\* its signature verified: OB state -> Established.
OBHandleSessionConfirmB ==
    /\ Decrypting(Alice) /\ readable[Alice] /\ result[Alice] = "pending"
    /\ Dec(Alice).blocks > 0
    /\ \E res \in Parsed(Alice) : res.r = "done" /\ SplitFrame(Alice, res)
    /\ "sigB" \notin bad
    /\ SendFrames(OBNext[ob_state], OBDecodeNext[cstate[Alice]])
    /\ UNCHANGED <<readable, result, clock_behind, data_sent,
                   delivered, eof>>

\* SessionConfirmB signature invalid: ConnectionRefused.
OBSessionConfirmBBadSig ==
    /\ Decrypting(Alice) /\ readable[Alice] /\ result[Alice] = "pending"
    /\ Dec(Alice).blocks > 0
    /\ \E res \in Parsed(Alice) : res.r = "done"
    /\ "sigB" \in bad
    /\ result' = SetOf(result, Alice, "error")
    /\ UNCHANGED <<cstate, ob_state, iv_enc, iv_dec, wire, rbuf, decrypted,
                   readable, bad, clock_behind, data_sent,
                   delivered, eof>>

\* The handshake codec in state Established decodes nothing (Ok(None)); the
\* handle_frames loop keeps reading until the socket has no more bytes.
OBDecodeEstablished ==
    /\ result[Alice] = "pending" /\ readable[Alice]
    /\ cstate[Alice] = "Established"
    /\ readable' = SetOf(readable, Alice, FALSE)
    /\ UNCHANGED <<cstate, ob_state, iv_enc, iv_dec, wire, rbuf, decrypted,
                   result, bad, clock_behind, data_sent,
                   delivered, eof>>

\* Bob has dropped the connection and Alice has read all it sent: her
\* FramedRead reads 0 bytes and calls decode_eof, which with an empty
\* buffer is Ok(None) (Bob refuses after Alice consumed SessionCreated and
\* sends nothing more, so her buffer is empty).  Stream::poll returns Ready(None), so handle_frames
\* returns Ready(None) and the connector's second transport.poll() is
\* Ready(None) again: OutboundTransportConnector::poll returns NotReady
\* without any read having registered the task for a wake-up.
OBReadEOF ==
    /\ result[Alice] = "pending" /\ ~OBIsEstablished
    /\ result[Bob] \in {"error", "closed"}
    /\ wire[Alice] = <<>> /\ ~readable[Alice] /\ ~eof
    /\ rbuf[Alice] = <<>>
    /\ eof' = TRUE
    /\ UNCHANGED <<cstate, ob_state, iv_enc, iv_dec, wire, rbuf, decrypted,
                   readable, result, bad, clock_behind, data_sent,
                   delivered>>

\* Fault: the session Codec starts with decrypted = 0.
Transmute_FreshCodec ==
    /\ result[Alice] = "pending" /\ OBIsEstablished
    /\ result' = SetOf(result, Alice, "session")
    /\ decrypted' = SetOf(decrypted, Alice, 0)
    /\ readable' = SetOf(readable, Alice, Len(rbuf[Alice]) > 0)
    /\ UNCHANGED <<cstate, ob_state, iv_enc, iv_dec, wire, rbuf, bad,
                   clock_behind, data_sent, delivered, eof>>

\* OutboundTransportConnector::poll sees is_established and transmutes:
\* Framed::from_parts keeps the read buffer (is_readable iff non-empty) and
\* Codec::from keeps aes and decrypted.  The connect future resolves.
Transmute ==
    /\ result[Alice] = "pending" /\ OBIsEstablished
    /\ result' = SetOf(result, Alice, "session")
    /\ readable' = SetOf(readable, Alice, Len(rbuf[Alice]) > 0)
    /\ UNCHANGED <<cstate, ob_state, iv_enc, iv_dec, wire, rbuf, decrypted, bad,
                   clock_behind, data_sent, delivered, eof>>

-----------------------------------------------------------------------------
(* Alice's established Codec, the timeout, and the environment *)

\* Fault: the frame is returned but the buffer is not advanced.
SessionFrame_NoAdvance ==
    /\ result[Alice] = "session" /\ readable[Alice]
    /\ Dec(Alice).blocks > 0
    /\ \E res \in Parsed(Alice) :
        /\ res.r = "done"
        /\ rbuf' = SetOf(rbuf, Alice, Dec(Alice).buf)
        /\ decrypted' = SetOf(decrypted, Alice, Cursor(Alice))
        /\ iv_dec' = SetOf(iv_dec, Alice, Dec(Alice).iv)
        /\ delivered' = Append(delivered, res.f)
    /\ UNCHANGED <<cstate, ob_state, iv_enc, wire, readable, result, bad,
                   clock_behind, data_sent, eof>>

\* Codec::decode returns a data frame.
SessionFrame ==
    /\ result[Alice] = "session" /\ readable[Alice]
    /\ Dec(Alice).blocks > 0
    /\ \E res \in Parsed(Alice) :
        /\ res.r = "done"
        /\ SplitFrame(Alice, res)
        /\ delivered' = Append(delivered, res.f)
    /\ UNCHANGED <<cstate, ob_state, iv_enc, wire, readable, result, bad,
                   clock_behind, data_sent, eof>>

\* Mutant: select polls the timeout first, so it ends any pending connect.
ConnectTimesOut_TimeoutFirst ==
    /\ result[Alice] = "pending"
    /\ result' = SetOf(result, Alice, "timeout")
    /\ UNCHANGED <<cstate, ob_state, iv_enc, iv_dec, wire, rbuf, decrypted,
                   readable, bad, clock_behind, data_sent, delivered, eof>>

\* Engine::connect's select(handshake, Timeout::new(10 s)) polls the
\* handshake first and the timeout only when the handshake is NotReady, so
\* the timeout ends the connect at a poll where the connector waits for
\* bytes and is not established: before TCP connects or once the codec
\* has decoded all it can ("timeout during handshake").  The deadline
\* passing while Alice is busy takes effect at her next such point.
ConnectTimesOut ==
    /\ result[Alice] = "pending"
    /\ ~readable[Alice] /\ ~OBIsEstablished
    /\ result' = SetOf(result, Alice, "timeout")
    /\ UNCHANGED <<cstate, ob_state, iv_enc, iv_dec, wire, rbuf, decrypted,
                   readable, bad, clock_behind, data_sent, delivered, eof>>

\* A man in the middle alters one ciphertext unit in flight.
Tamper(p) ==
    /\ "tamper" \in Faults /\ "tamper" \notin bad
    /\ \E j \in DOMAIN wire[p] :
        /\ wire[p][j].k = "ct"
        /\ wire' = SetOf(wire, p, [wire[p] EXCEPT ![j].i = 0])
    /\ bad' = bad \cup {"tamper"}
    /\ UNCHANGED <<cstate, ob_state, iv_enc, iv_dec, rbuf, decrypted, readable,
                   result, clock_behind, data_sent, delivered,
                   eof>>

\* The system clock is stepped back (NTP, manual change) while Alice waits
\* for SessionCreated.
ClockStepBack ==
    /\ ob_state = "SessionCreated" /\ result[Alice] = "pending"
    /\ ~clock_behind
    /\ clock_behind' = TRUE
    /\ UNCHANGED <<cstate, ob_state, iv_enc, iv_dec, wire, rbuf, decrypted,
                   readable, result, bad, data_sent, delivered,
                   eof>>

-----------------------------------------------------------------------------

\* OutboundHandshakeTransport::poll, once its FramedRead has bytes to decode
\* or has hit the end of the stream: a decoded frame goes to handle_frame
\* (an error ends the connect future) and then to send_frames; Ok(None)
\* from decode is NotReady; end of stream is Ready(None).
OBPoll ==
    \/ OBCreatedIncomplete \/ OBHandleSessionCreated
    \/ OBSessionCreatedHashMismatch
    \/ OBHandleSessionConfirmB \/ OBSessionConfirmBBadSig
    \/ OBDecodeEstablished \/ OBReadEOF

AliceStep ==
    \/ AliceConnect
    \/ \E k \in 1..Len(wire[Alice]) : ReadBuf(Alice, k)
    \/ OBPoll \/ Transmute \/ SessionFrame
    \/ DecodeNotEnough(Alice) \/ DecodeIncomplete(Alice) \/ DecodeError(Alice)

BobStep ==
    \/ \E k \in 1..Len(wire[Bob]) : ReadBuf(Bob, k)
    \/ IBRequestIncomplete \/ IBHandleSessionRequest
    \/ IBHandleSessionConfirmA \/ IBSessionConfirmABadSig
    \/ DecodeNotEnough(Bob) \/ DecodeIncomplete(Bob) \/ DecodeError(Bob)
    \/ BobSeesEOF

Next ==
    \/ AliceStep
    \/ BobStep
    \/ BobSendData
    \/ ConnectTimesOut
    \/ \E p \in Parties : Tamper(p)

\* Next with a system clock that may be stepped back.
NextClock == Next \/ ClockStepBack \/ OBSessionCreatedClockPanic

\* Each end's reactor polls its task whenever bytes arrive or it made
\* progress; the timer is not assumed to fire.
Spec == Init /\ [][Next]_vars /\ WF_vars(AliceStep) /\ WF_vars(BobStep)

SpecClock == Init /\ [][NextClock]_vars

-----------------------------------------------------------------------------
(* Properties *)

TypeOK ==
    /\ cstate \in [Parties -> HandshakeStates]
    /\ ob_state \in HandshakeStates
    /\ iv_enc \in [Parties -> Nat]
    /\ iv_dec \in [Parties -> Nat \cup {NoBlock}]
    /\ \A p \in Parties :
          /\ \A j \in DOMAIN wire[p] : wire[p][j].k \in Kinds
          /\ \A j \in DOMAIN rbuf[p] : rbuf[p][j].k \in Kinds
          /\ decrypted[p] \in 0..Len(rbuf[p])
    /\ readable \in [Parties -> BOOLEAN]
    /\ result \in [Parties -> Results]
    /\ bad \subseteq Faults
    /\ clock_behind \in BOOLEAN
    /\ data_sent \in 0..MaxData
    /\ delivered \in Seq(Nat)
    /\ eof \in BOOLEAN

\* Once a receiver's codec has its Aes256 (Alice from SessionCreated on, Bob
\* from his answer to SessionRequest), the bytes it has not decrypted yet
\* (rest of its buffer, TCP) are exactly the sender's cipher blocks
\* iv_dec+1 .. iv_enc, whole and in order: through SessionConfirmA/B, the
\* codec switch and the data frames, neither CBC chain drifts.
StreamsContiguous ==
    \A p \in Parties :
        (Live(p) /\ cstate[p] \notin {"SessionRequest", "SessionCreated"}) =>
            LET pending == SubSeq(rbuf[p], decrypted[p] + 1, Len(rbuf[p]))
                           \o wire[p]
            IN /\ Len(pending) = UnitsPerBlock * (iv_enc[Peer(p)] - iv_dec[p])
               /\ \A j \in DOMAIN pending :
                      /\ pending[j].k = "ct"
                      /\ pending[j].g = iv_dec[p] + (j - 1) \div UnitsPerBlock + 1

\* Alice's session returns Bob's data frames in order, each once, including
\* frames that arrived with SessionConfirmB and were decrypted by the
\* handshake codec before the switch to Codec.
DataDeliveredInOrder ==
    IsPrefix(delivered, [j \in 1..data_sent |-> DataFrameId(j)])

\* If the timeout never fires, both ends reach an established session.
HandshakeCompletes ==
    [](result[Alice] # "timeout")
        => <>(result[Alice] = "session" /\ result[Bob] = "session")

\* An established handshake wins the race with the 10 s timeout: once all
\* of SessionConfirmB is in Alice's read buffer, or her codec has decoded
\* it, the timeout never fails her connect (select polls the handshake
\* before the timeout, and the connector returns the session from the poll
\* that handles SessionConfirmB).
ConfirmBReceived ==
    \/ cstate[Alice] = "Established"
    \/ cstate[Alice] = "SessionConfirmB" /\ Len(rbuf[Alice]) >= Msg4Units

EstablishedWins ==
    [][result'[Alice] = "timeout" => ~ConfirmBReceived]_vars

\* Whatever TCP does and whatever a faulty or malicious peer sends, the
\* connect future and Bob's inbound session behave as HandshakeOutcome
\* promises: each outcome is final; an end fails with an error only after
\* a forged hash, signature or ciphertext; Alice's connect yields a session
\* only after Bob's, with SessionCreated's hash and SessionConfirmB's
\* signature genuine; Alice's Codec fails only on altered ciphertext; Bob's
\* side closes only after Alice's end gave up.
Outcome == INSTANCE HandshakeOutcome
               WITH alice <- result[Alice], bob <- result[Bob], forged <- bad

ImplementsHandshakeOutcome == Outcome!Spec

\* When Bob refuses the handshake and drops the connection, Alice's
\* connect future fails on its own, without waiting for the 10 s timer
\* (spec 5: a connection-level error propagates to the owning task).
PeerCloseFailsConnect ==
    [](result[Alice] # "timeout")
        => ((result[Bob] = "error") ~> (result[Alice] # "pending"))

\* RTT measurement never decides the outcome of a handshake (spec 4.4):
\* Alice's task does not panic on handle_frame(SessionCreated).
RttNeverGates == result[Alice] # "panic"

=============================================================================
