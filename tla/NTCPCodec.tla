----------------------------- MODULE NTCPCodec -----------------------------
(***************************************************************************)
(* One direction of an established NTCP session: the sender's Codec       *)
(* encoder behind a tokio FramedWrite, a TCP byte stream, and the          *)
(* receiver's Codec decoder behind a FramedRead (src/transport/ntcp/mod.rs,*)
(* "Message transport", lines 450-541).                                   *)
(*                                                                         *)
(* The sender's caller may call start_send and poll_complete in any order  *)
(* (the futures Sink contract); TCP delivers the bytes in order but splits *)
(* them at any 8-byte unit, so a read may end inside an AES block or hold  *)
(* several frames.  The receiver's task runs the FramedRead loop: decode   *)
(* while the buffer is readable, read from the socket when it is not.     *)
(***************************************************************************)
EXTENDS Integers, Sequences, SequencesExt, NTCPFraming

CONSTANTS
    FrameSizes,      \* sizes, in AES blocks, of the frames the caller sends
    MTUBlocks,       \* NTCP_MTU in AES blocks: a larger frame is rejected
    MaxFrames,       \* bound: number of frames the caller sends
    WireCap,         \* bound: units in flight in the TCP connection
    FlushBeforeSend  \* TRUE: the caller only sends once the write buffer is empty

ASSUME /\ FrameSizes \subseteq Nat \ {0}
       /\ MTUBlocks \in Nat \ {0}
       /\ MaxFrames \in Nat /\ WireCap \in Nat \ {0}
       /\ FlushBeforeSend \in BOOLEAN

VARIABLES
    submitted,    \* sizes of the frames handed to start_send, in order
    iv_enc,       \* sender's Aes256 encrypt IV (last cipher block written)
    wbuf,         \* FramedWrite buffer: encoded, not yet written to TCP
    wire,         \* bytes in the TCP connection
    rbuf,         \* FramedRead buffer
    decrypted,    \* Codec.decrypted: length of the decrypted prefix of rbuf
    iv_dec,       \* receiver's Aes256 decrypt IV
    is_readable,  \* FramedRead: rbuf may hold a frame, decode before reading
    delivered,    \* frames the receiver's decoder returned, in order
    rx_error      \* decode returned Err: the receiving task drops the session

vars == <<submitted, iv_enc, wbuf, wire, rbuf, decrypted, iv_dec,
          is_readable, delivered, rx_error>>

MTUUnits == UnitsPerBlock * MTUBlocks

FrameUnits(f) == UnitsPerBlock * submitted[f]

\* The frames the encoder accepted (fitting the MTU), in submission order.
Accepted == SelectSeq([j \in 1..Len(submitted) |-> j],
                      LAMBDA j : submitted[j] <= MTUBlocks)

Init ==
    /\ submitted = <<>>
    /\ iv_enc = 0
    /\ wbuf = <<>>
    /\ wire = <<>>
    /\ rbuf = <<>>
    /\ decrypted = 0
    /\ iv_dec = 0
    /\ is_readable = FALSE
    /\ delivered = <<>>
    /\ rx_error = FALSE

-----------------------------------------------------------------------------
(* Sender *)

\* What is left in the write buffer when gen_frame fails with
\* BufferTooSmall: the buffer was zero-extended to NTCP_MTU, the size hint
\* written at offset 0, and nothing is truncated.
OversizeResidue(buf) ==
    [j \in 1..IF Len(buf) < MTUUnits THEN MTUUnits ELSE Len(buf) |->
        IF j = 1 THEN ZeroUnit ELSE IF j <= Len(buf) THEN buf[j] ELSE ZeroUnit]

\* Fault: the CBC IV is restarted from the seed for every frame.
StartSend_IVReset(n) ==
    /\ Len(submitted) < MaxFrames
    /\ FlushBeforeSend => wbuf = <<>>
    /\ submitted' = Append(submitted, n)
    /\ IF n <= MTUBlocks
       THEN /\ wbuf' = EncryptBlocks(PlainFrame(Len(submitted) + 1, n), 0)
            /\ iv_enc' = n
       ELSE /\ wbuf' = OversizeResidue(wbuf)
            /\ UNCHANGED iv_enc
    /\ UNCHANGED <<wire, rbuf, decrypted, iv_dec, is_readable, delivered, rx_error>>

(***************************************************************************)
(* FramedWrite::start_send -> Codec::encode.  The buffer is extended to    *)
(* NTCP_MTU, the frame serialised at offset 0 and the buffer truncated to  *)
(* its size, then encrypted in place: whatever was still unflushed in the  *)
(* buffer is overwritten.  A frame larger than the MTU is an InvalidData   *)
(* error that leaves the zero-extended buffer behind.                      *)
(***************************************************************************)
StartSend(n) ==
    /\ Len(submitted) < MaxFrames
    /\ FlushBeforeSend => wbuf = <<>>
    /\ submitted' = Append(submitted, n)
    /\ IF n <= MTUBlocks
       THEN /\ wbuf' = EncryptBlocks(PlainFrame(Len(submitted) + 1, n), iv_enc)
            /\ iv_enc' = iv_enc + n
       ELSE /\ wbuf' = OversizeResidue(wbuf)
            /\ UNCHANGED iv_enc
    /\ UNCHANGED <<wire, rbuf, decrypted, iv_dec, is_readable, delivered, rx_error>>

\* FramedWrite::poll_complete: writes a prefix of the buffer to the socket
\* (the rest when the socket is writable again).
PollComplete(k) ==
    /\ k \in 1..Len(wbuf)
    /\ Len(wire) + k <= WireCap
    /\ wire' = wire \o SubSeq(wbuf, 1, k)
    /\ wbuf' = SubSeq(wbuf, k + 1, Len(wbuf))
    /\ UNCHANGED <<submitted, iv_enc, rbuf, decrypted, iv_dec, is_readable,
                   delivered, rx_error>>

-----------------------------------------------------------------------------
(* Receiver *)

\* FramedRead::poll: the decoder asked for more bytes; read what TCP has.
ReadBuf(k) ==
    /\ ~is_readable /\ ~rx_error
    /\ k \in 1..Len(wire)
    /\ rbuf' = rbuf \o SubSeq(wire, 1, k)
    /\ wire' = SubSeq(wire, k + 1, Len(wire))
    /\ is_readable' = TRUE
    /\ UNCHANGED <<submitted, iv_enc, wbuf, decrypted, iv_dec, delivered, rx_error>>

\* Codec::decode, first step: decrypt_blocks(&mut buf[self.decrypted..]).
Decryption == DecryptBlocks(rbuf, decrypted, iv_dec)

\* self.decrypted += end
Cursor == decrypted + UnitsPerBlock * Decryption.blocks

\* frame::frame(&buf[0..self.decrypted])
Parsed == ParseFrame(SubSeq(Decryption.buf, 1, Cursor), FrameUnits)

\* decrypt_blocks found no new whole block: return Ok(None) without parsing.
DecodeNotEnough ==
    /\ is_readable /\ ~rx_error
    /\ Decryption.blocks = 0
    /\ is_readable' = FALSE
    /\ UNCHANGED <<submitted, iv_enc, wbuf, wire, rbuf, decrypted, iv_dec,
                   delivered, rx_error>>

\* Fault: the decrypt IV of this call is not kept for the next call.
DecodeFrame_StaleIV ==
    /\ is_readable /\ ~rx_error
    /\ Decryption.blocks > 0
    /\ \E res \in Parsed :
        /\ res.r = "done"
        /\ rbuf' = SubSeq(Decryption.buf, res.n + 1, Len(Decryption.buf))
        /\ decrypted' = Cursor - res.n
        /\ delivered' = Append(delivered, res.f)
    /\ UNCHANGED <<submitted, iv_enc, wbuf, wire, iv_dec, is_readable, rx_error>>

\* Fault: the parsed frame is returned but the buffers are not advanced.
DecodeFrame_NoAdvance ==
    /\ is_readable /\ ~rx_error
    /\ Decryption.blocks > 0
    /\ \E res \in Parsed :
        /\ res.r = "done"
        /\ rbuf' = Decryption.buf
        /\ decrypted' = Cursor
        /\ delivered' = Append(delivered, res.f)
    /\ iv_dec' = Decryption.iv
    /\ UNCHANGED <<submitted, iv_enc, wbuf, wire, is_readable, rx_error>>

\* Fault: the cursor is not advanced by the bytes just decrypted.
DecodeFrame_NoIncrement ==
    /\ is_readable /\ ~rx_error
    /\ Decryption.blocks > 0
    /\ \E res \in Parsed :
        /\ res.r = "done"
        /\ rbuf' = SubSeq(Decryption.buf, res.n + 1, Len(Decryption.buf))
        /\ decrypted' = decrypted - res.n
        /\ delivered' = Append(delivered, res.f)
    /\ iv_dec' = Decryption.iv
    /\ UNCHANGED <<submitted, iv_enc, wbuf, wire, is_readable, rx_error>>

\* A frame parsed: buf.split_to(consumed); self.decrypted -= consumed.
DecodeFrame ==
    /\ is_readable /\ ~rx_error
    /\ Decryption.blocks > 0
    /\ \E res \in Parsed :
        /\ res.r = "done"
        /\ rbuf' = SubSeq(Decryption.buf, res.n + 1, Len(Decryption.buf))
        /\ decrypted' = Cursor - res.n
        /\ delivered' = Append(delivered, res.f)
    /\ iv_dec' = Decryption.iv
    /\ UNCHANGED <<submitted, iv_enc, wbuf, wire, is_readable, rx_error>>

\* The parser needs more bytes: Ok(None), with the new blocks decrypted.
DecodeIncomplete ==
    /\ is_readable /\ ~rx_error
    /\ Decryption.blocks > 0
    /\ Incomplete \in Parsed
    /\ rbuf' = Decryption.buf
    /\ decrypted' = Cursor
    /\ iv_dec' = Decryption.iv
    /\ is_readable' = FALSE
    /\ UNCHANGED <<submitted, iv_enc, wbuf, wire, delivered, rx_error>>

\* The parser failed: Err("parse error"), the session is dropped.
DecodeError ==
    /\ is_readable /\ ~rx_error
    /\ Decryption.blocks > 0
    /\ ParseError \in Parsed
    /\ rx_error' = TRUE
    /\ UNCHANGED <<submitted, iv_enc, wbuf, wire, rbuf, decrypted, iv_dec,
                   is_readable, delivered>>

Decode == DecodeNotEnough \/ DecodeFrame \/ DecodeIncomplete \/ DecodeError

-----------------------------------------------------------------------------

Next ==
    \/ \E n \in FrameSizes : StartSend(n)
    \/ \E k \in 1..WireCap : PollComplete(k)
    \/ \E k \in 1..WireCap : ReadBuf(k)
    \/ Decode

Spec == Init /\ [][Next]_vars

\* The reactor wakes the writer while the socket is writable and the reader
\* when bytes arrive; FramedRead decodes until it needs more bytes.
FairSpec == Spec /\ WF_vars(\E k \in 1..WireCap : PollComplete(k))
                 /\ WF_vars(\E k \in 1..WireCap : ReadBuf(k))
                 /\ WF_vars(Decode)

-----------------------------------------------------------------------------
(* Properties *)

TypeOK ==
    /\ submitted \in Seq(FrameSizes)
    /\ iv_enc \in Nat /\ iv_dec \in Nat \cup {NoBlock}
    /\ \A b \in {wbuf, wire, rbuf} :
           \A j \in DOMAIN b : b[j].k \in Kinds
    /\ decrypted \in 0..Len(rbuf)
    /\ is_readable \in BOOLEAN /\ rx_error \in BOOLEAN
    /\ delivered \in Seq(1..MaxFrames)

\* Codec::decode never fails on an honest stream: however TCP splits the
\* bytes, the decrypted cursor and the CBC decrypt IV stay on block and
\* frame boundaries.
NoDecodeError == ~rx_error

\* The decoder returns exactly the frames the encoder accepted, in order,
\* each once (no loss, duplication or reordering across frame boundaries).
DeliveredInOrder == IsPrefix(delivered, Accepted)

\* The bytes the receiver has not decrypted yet (rest of its buffer, TCP,
\* sender's buffer) are exactly the cipher blocks iv_dec+1 .. iv_enc, whole
\* and in order: the two persistent CBC IVs never drift apart.
CipherStreamContiguous ==
    LET pending == SubSeq(rbuf, decrypted + 1, Len(rbuf)) \o wire \o wbuf
    IN /\ Len(pending) = UnitsPerBlock * (iv_enc - iv_dec)
       /\ \A j \in DOMAIN pending :
              /\ pending[j].k = "ct"
              /\ pending[j].g = iv_dec + (j - 1) \div UnitsPerBlock + 1

\* Every frame the encoder accepted is eventually returned by the decoder
\* (a frame whose bytes have all arrived is not left in the buffer).
EveryFrameDelivered ==
    \A j \in 1..MaxFrames : (Len(Accepted) >= j) ~> (Len(delivered) >= j)

\* The codec implements the frame channel of an established session: with
\* the accepted frames as what was sent, the decoder's results as what was
\* got and a decode error as the break, every step of the sender, of TCP
\* and of the decoder is a step of FrameChannel or leaves it unchanged.  In
\* particular no frame is returned after a decode error, and none twice.
Channel == INSTANCE FrameChannel
               WITH Frames <- 1..MaxFrames, sent <- Accepted,
                    got <- delivered, broken <- rx_error

ImplementsFrameChannel == Channel!Spec

=============================================================================
