------------------------------ MODULE MCCipher ------------------------------
(* Instances of Cipher for model checking. *)
EXTENDS Cipher

\* Each byte of a word is treated by itself: every value of every byte.
EveryByte == UNION {SUBSET ((8 * b)..(8 * b + 7)) : b \in 0..7}
=============================================================================
