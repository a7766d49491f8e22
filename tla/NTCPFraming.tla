---------------------------- MODULE NTCPFraming ----------------------------
(***************************************************************************)
(* Byte-stream abstraction shared by the NTCP (transport "T1") codecs in   *)
(* src/transport/ntcp/mod.rs.                                              *)
(*                                                                         *)
(* A TCP byte stream is a sequence of units of 8 bytes, so that an AES     *)
(* block (AES_BLOCK_SIZE = 16 bytes) is two units and TCP may split a      *)
(* stream inside a block.  A unit is a record                              *)
(*   k : "ct"   ciphertext of an AES-CBC stream                            *)
(*       "pt"   plaintext recovered by a correct decryption                *)
(*       "raw"  plaintext sent unencrypted (handshake header fields)       *)
(*       "junk" plaintext produced by a wrong decryption                   *)
(*       "zero" unencrypted filler that is not part of any frame           *)
(*   g : ordinal of the cipher block in its direction's CBC stream (1, 2..)*)
(*   f : the frame (message) the unit belongs to                           *)
(*   i : index of the unit inside that frame (1..)                         *)
(* CBC is abstracted to what decides whether a block decrypts correctly:   *)
(* the IV of each direction is the ordinal of the last cipher block        *)
(* processed (0 is the handshake-derived seed), and block g decrypts to    *)
(* its plaintext exactly when the decryptor's IV is g - 1.  Like real CBC, *)
(* the IV after a block is that block, whatever its plaintext came out as. *)
(***************************************************************************)
EXTENDS Integers, Sequences

\* AES_BLOCK_SIZE (16 bytes) in 8-byte units.
UnitsPerBlock == 2

\* An IV that is not a cipher block of the stream (zeros, plaintext, junk).
NoBlock == -1

Kinds == {"ct", "pt", "raw", "junk", "zero"}

Unit(k, g, f, i) == [k |-> k, g |-> g, f |-> f, i |-> i]

JunkUnit == Unit("junk", 0, 0, 0)

ZeroUnit == Unit("zero", 0, 0, 0)

\* The n-block plaintext of frame f, in place in the buffer before
\* encryption (gen_frame / gen_session_confirm_a / ... write it at offset 0).
PlainFrame(f, n) == [j \in 1..UnitsPerBlock * n |-> Unit("pt", 0, f, j)]

\* Aes256::encrypt_blocks over a whole-block buffer starting after cipher
\* block iv: unit j lies in block iv + ceil(j / 2).
EncryptBlocks(p, iv) ==
    [j \in DOMAIN p |-> [p[j] EXCEPT !.k = "ct",
                                     !.g = iv + (j - 1) \div UnitsPerBlock + 1]]

\* The ordinal of a 16-byte chunk when it is one whole cipher block, NoBlock
\* otherwise (a chunk straddling two blocks, plaintext, zeros).
CipherBlock(c) ==
    IF /\ c[1].k = "ct" /\ c[2].k = "ct"
       /\ c[1].g = c[2].g /\ c[1].i + 1 = c[2].i
    THEN c[1].g
    ELSE NoBlock

(***************************************************************************)
(* Aes256::decrypt_blocks(&mut buf[from..]): decrypts every whole block of *)
(* buf after position from in place and returns the number of blocks      *)
(* (0 stands for the "not enough data" None) and the new decrypt IV.       *)
(***************************************************************************)
DecryptBlocks(buf, from, iv) ==
    LET nb == IF from < Len(buf) THEN (Len(buf) - from) \div UnitsPerBlock ELSE 0
        Chunk(b) == SubSeq(buf, from + UnitsPerBlock * (b - 1) + 1,
                                from + UnitsPerBlock * b)
        IvBefore(b) == IF b = 1 THEN iv ELSE CipherBlock(Chunk(b - 1))
        Correct(b) == /\ CipherBlock(Chunk(b)) # NoBlock
                      /\ CipherBlock(Chunk(b)) = IvBefore(b) + 1
        BlockOf(j) == (j - from - 1) \div UnitsPerBlock + 1
        Plain(j) == IF j <= from \/ j > from + UnitsPerBlock * nb THEN buf[j]
                    ELSE IF Correct(BlockOf(j)) THEN [buf[j] EXCEPT !.k = "pt"]
                    ELSE JunkUnit
    IN [blocks |-> nb,
        buf    |-> [j \in DOMAIN buf |-> Plain(j)],
        iv     |-> IF nb = 0 THEN iv ELSE CipherBlock(Chunk(nb))]

(***************************************************************************)
(* The frame parsers (frame::frame, frame::session_confirm_a, ...) on a    *)
(* decrypted prefix p: the set of results they can give.  FrameUnits(f) is *)
(* the length of frame f, which its first bytes (size hint, RI length)     *)
(* announce.  A frame that is all correct plaintext parses; one with junk  *)
(* in its body fails the checksum or the signature parse; junk in its      *)
(* header is a garbage length, which may ask for more bytes or fail.       *)
(***************************************************************************)
Done(n, f) == [r |-> "done", n |-> n, f |-> f]

Incomplete == [r |-> "incomplete", n |-> 0, f |-> 0]

ParseError == [r |-> "error", n |-> 0, f |-> 0]

ParseFrame(p, FrameUnits(_)) ==
    IF Len(p) = 0 THEN {Incomplete}
    ELSE IF p[1].k = "pt" /\ p[1].i = 1
    THEN IF Len(p) < FrameUnits(p[1].f) THEN {Incomplete}
         ELSE IF \A j \in 1..FrameUnits(p[1].f) :
                    p[j].k = "pt" /\ p[j].f = p[1].f /\ p[j].i = j
              THEN {Done(FrameUnits(p[1].f), p[1].f)}
              ELSE {ParseError}
    ELSE {Incomplete, ParseError}

=============================================================================
