------------------------------ MODULE MCDHKey ------------------------------
(* Model-checking instance of DHKey with 4-bit bytes and a 2-byte key, so  *)
(* that every value of up to three bytes is checked: short values that are *)
(* padded, values whose top bit forces a zero byte, and values longer than *)
(* the key that are cut.                                                   *)
EXTENDS DHKey

MCMaxDHKey == 2 ^ 12 - 1
=============================================================================
