------------------------------- MODULE Cipher -------------------------------
(***************************************************************************)
(* Connection<ID>::Encrypt (Network/src/Network/Connection.inl), with which *)
(* each end of a connection proves what kind of owner it has.              *)
(*                                                                         *)
(* A 64-bit word is the set of the positions of its 1 bits, 0 being the    *)
(* least significant: ^ is then the symmetric difference, & the            *)
(* intersection, | the union.                                              *)
(***************************************************************************)
EXTENDS Integers, Sequences

Bits  == 0..63
Words == SUBSET Bits

CONSTANT Challenges     \* the words the server's clock may give

ASSUME ChallengesAssumption == Challenges \subseteq Words

Owners == {"DedicatedServer", "DedicatedClient", "PeerToPeerNode"}

\* The bits of a word written as its 16 hexadecimal digits.
Hex(digits) ==
    {i \in Bits : (digits[16 - (i \div 4)] \div <<1, 2, 4, 8>>[(i % 4) + 1]) % 2 = 1}

\* The two constants of each case of the switch.
DedicatedKey ==
    [before |-> Hex(<<13,14,10,13,11,14,14,15,12,0,13,14,12,10,15,14>>),
     after  |-> Hex(<<12,0,13,14,15,10,12,14,1,2,3,4,5,6,7,8>>)]
PeerKey ==
    [before |-> Hex(<<12,0,13,14,12,10,15,14,13,14,10,13,11,14,14,15>>),
     after  |-> Hex(<<1,2,3,4,5,6,7,8,12,0,13,14,15,10,12,14>>)]

Key(o) == IF o = "PeerToPeerNode" THEN PeerKey ELSE DedicatedKey

Xor(x, y) == (x \ y) \cup (y \ x)

\* Mistake: the mask of the second half is that of the first.
SwapNibbles_SameMask(x) ==
    {i - 4 : i \in {j \in x : j % 8 >= 4}} \cup
    {i + 4 : i \in {j \in x : j % 8 >= 4 /\ j < 60}}

\* The two halves of each byte change places.
SwapNibbles(x) ==
    {i - 4 : i \in {j \in x : j % 8 >= 4}} \cup
    {i + 4 : i \in {j \in x : j % 8 < 4}}

\* Mistake: the nodes share the case of the other owners.
Encrypt_OneCase(o, data) ==
    Xor(SwapNibbles(Xor(data, DedicatedKey.before)), DedicatedKey.after)

\* Mistake: one constant twice, with no swap: the second ^ undoes the first.
Encrypt_Undone(o, data) == Xor(Xor(data, Key(o).before), Key(o).before)

Encrypt(o, data) ==
    Xor(SwapNibbles(Xor(data, Key(o).before)), Key(o).after)

\* What undoes it.
Decrypt(o, data) ==
    Xor(SwapNibbles(Xor(data, Key(o).after)), Key(o).before)

-----------------------------------------------------------------------------
(* The words of a validation between two ends of one kind: the challenge,   *)
(* the client's answer, the server's answer to that.                        *)

VARIABLES owner, words

vars == <<owner, words>>

Init ==
    /\ owner \in Owners
    /\ \E now \in Challenges : words = <<now>>

Answer ==
    /\ Len(words) < 3
    /\ words' = Append(words, Encrypt(owner, words[Len(words)]))
    /\ UNCHANGED owner

Spec == Init /\ [][Answer]_vars

-----------------------------------------------------------------------------
TypeOK ==
    /\ owner \in Owners
    /\ words \in Seq(Words)
    /\ Len(words) \in 1..3

\* No two challenges have the same answer: what was answered can be computed
\* back from the answer.
AnswersTellChallenges ==
    \A i \in 1..(Len(words) - 1) : Decrypt(owner, words[i + 1]) = words[i]

\* Sending back what was received is never the right answer, and the server's
\* answer is not its challenge again.
EchoIsWrong ==
    \A i, j \in 1..Len(words) : i # j => words[i] # words[j]

\* Comment in Connection.inl:103-104: peer to peer nodes "can't connect to
\* servers and clients can't connect to them": the two kinds never agree on the
\* answer to any word of an exchange, and owners of one kind always do.
OwnersNeverAgree ==
    \A o \in Owners, i \in 1..Len(words) :
       Encrypt(o, words[i]) = Encrypt(owner, words[i]) <=>
          (o = "PeerToPeerNode" <=> owner = "PeerToPeerNode")
=============================================================================
