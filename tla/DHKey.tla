------------------------------- MODULE DHKey -------------------------------
(***************************************************************************)
(* DHSessionKeyBuilder::build_session_key (src/transport/mod.rs): the      *)
(* exchanged DH value is turned into a 32-byte SessionKey the way I2P's    *)
(* Java router does it, by BigInteger.toByteArray() (minimal two's         *)
(* complement, big-endian), padded with zero bytes on the right and cut to *)
(* 32 bytes.  The Rust code builds the same array from the minimal         *)
(* unsigned big-endian bytes, a prepended zero byte when the top bit is    *)
(* set, and right padding.  The modular exponentiation is not modelled:    *)
(* every exchanged value below a bound is a possible input.                *)
(***************************************************************************)
EXTENDS Integers, Sequences

CONSTANTS
    ByteBits,   \* bits per byte (8 in the code)
    KeyLen,     \* SessionKey length in bytes (32 in the code)
    MaxDHKey    \* bound: largest exchanged DH value considered

ASSUME ByteBits \in Nat \ {0} /\ KeyLen \in Nat \ {0} /\ MaxDHKey \in Nat

Base == 2 ^ ByteBits

Zeros(n) == [j \in 1..n |-> 0]

\* BigUint::to_bytes_be: minimal big-endian bytes, <<0>> for zero.
RECURSIVE ToBytesBE(_)
ToBytesBE(x) == IF x < Base THEN <<x>> ELSE Append(ToBytesBE(x \div Base), x % Base)

\* Fault: the high bit of the first byte is not looked at.
Rectify_NoPrepend(buf) == buf

\* if buf[0] & 0x80 != 0 { buf.insert(0, 0x00) }
Rectify(buf) == IF buf[1] >= Base \div 2 THEN <<0>> \o buf ELSE buf

\* if length < 32 { buf.extend(repeat(0).take(32 - length)) }
PadKey(buf) == IF Len(buf) < KeyLen THEN buf \o Zeros(KeyLen - Len(buf)) ELSE buf

\* key.copy_from_slice(&buf[0..32])
BuildSessionKey(x) == SubSeq(PadKey(Rectify(ToBytesBE(x))), 1, KeyLen)

(***************************************************************************)
(* Reference: Java's BigInteger.toByteArray() of a non-negative value has  *)
(* bitLength / 8 + 1 bytes; I2P's DHSessionKeyBuilder copies the first 32  *)
(* (or all, zero-filled on the right).                                     *)
(***************************************************************************)
RECURSIVE BitLength(_)
BitLength(x) == IF x = 0 THEN 0 ELSE 1 + BitLength(x \div 2)

ToByteArray(x) ==
    LET n == BitLength(x) \div ByteBits + 1
    IN [j \in 1..n |-> (x \div Base ^ (n - j)) % Base]

JavaSessionKey(x) ==
    LET buf == ToByteArray(x)
    IN [j \in 1..KeyLen |-> IF j <= Len(buf) THEN buf[j] ELSE 0]

-----------------------------------------------------------------------------

VARIABLE dh_key   \* the exchanged DH value of the current handshake

Init == dh_key \in 0..MaxDHKey

\* A new handshake exchanges another value.
Exchange == \E x \in 0..MaxDHKey : dh_key' = x

Spec == Init /\ [][Exchange]_dh_key

\* build_session_key gives the key the Java router derives from the same
\* DH value: same bytes, same order, same padding and truncation.
KeyMatchesJava == BuildSessionKey(dh_key) = JavaSessionKey(dh_key)

=============================================================================
