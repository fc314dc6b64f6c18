---------------------------- MODULE MCConnection ----------------------------
(***************************************************************************)
(* Small instances of Connection.  Two bits stand for the 64 of a          *)
(* validation value: both ciphers swap the bits between two key additions, *)
(* as Encrypt swaps the halves of every byte, and differ everywhere.       *)
(***************************************************************************)
EXTENDS ConnectionInv

TwoEach == [s \in Side |-> 2]
ServerTwo == [s \in Side |-> IF s = "Server" THEN 2 ELSE 1]
ServerOne == [s \in Side |-> IF s = "Server" THEN 1 ELSE 0]

Bits == 0..3
Dedicated == [d \in Bits |-> <<1, 3, 0, 2>>[d + 1]]
PeerToPeer == [d \in Bits |-> <<2, 0, 3, 1>>[d + 1]]
MCCiphers == {Dedicated, PeerToPeer}

\* One bit, and one kind of owner, is enough where the bytes of any word may be
\* read as a value and so match or not.
Bit == 0..1
Flip == [d \in Bit |-> 1 - d]
OneCipher == {Flip}
=============================================================================
