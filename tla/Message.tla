------------------------------ MODULE Message ------------------------------
(***************************************************************************)
(* A Message (Network/src/Network/Message.h, Message.inl): a header with   *)
(* the id and the size, and a body that << appends to and >> takes from.   *)
(*                                                                         *)
(* What the applications write and read are 8-byte values, an ID or a      *)
(* point in time: a body is a sequence of them.                            *)
(***************************************************************************)
EXTENDS Integers, Sequences

CONSTANT SizeValues     \* how many values header.size has: 2^32

ASSUME SizeAssumption == SizeValues \in Nat /\ SizeValues > 0

DataSize == 8

Empty(kind) == [id |-> kind, size |-> 0, body |-> <<>>]

\* operator<<
Write(m, data) ==
    [m EXCEPT !.body = Append(@, data),
              !.size = (@ + DataSize) % SizeValues]

\* operator>>: what it reads, and what it leaves.
Read(m) == m.body[Len(m.body)]
AfterRead(m) ==
    [m EXCEPT !.body = SubSeq(@, 1, Len(@) - 1),
              !.size = (@ - DataSize) % SizeValues]

\* header.size is the size of the body, as far as it can be.
SizeRight(m) == m.size = (DataSize * Len(m.body)) % SizeValues
=============================================================================
