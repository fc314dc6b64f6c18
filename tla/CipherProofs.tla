---------------------------- MODULE CipherProofs ----------------------------
(***************************************************************************)
(* What Encrypt guarantees for every word: it can be undone, it changes    *)
(* every word, and two kinds of owner never agree.                         *)
(***************************************************************************)
EXTENDS Cipher, SequenceTheorems, TLAPS

\* Bit i of a byte's one half is exchanged with bit Partner(i) of the other.
Partner(i) == IF i % 8 < 4 THEN i + 4 ELSE i - 4

LEMMA PartnerBit ==
  ASSUME NEW i \in Bits
  PROVE  Partner(i) \in Bits /\ Partner(Partner(i)) = i
  BY DEF Partner, Bits

LEMMA SwapBit ==
  ASSUME NEW x \in Words
  PROVE  /\ SwapNibbles(x) \in Words
         /\ \A i \in Bits : i \in SwapNibbles(x) <=> Partner(i) \in x
<1>1. ASSUME NEW k, k \in SwapNibbles(x)
      PROVE  k \in Bits /\ Partner(k) \in x
  <2>1. CASE \E i \in {j \in x : j % 8 >= 4} : k = i - 4
    <3>1. PICK i \in x : i % 8 >= 4 /\ k = i - 4
      BY <2>1
    <3>2. i \in 0..63
      BY DEF Words, Bits
    <3>3. k \in 0..63 /\ k % 8 < 4 /\ k + 4 = i
      BY <3>1, <3>2
    <3> QED
      BY <3>1, <3>3 DEF Partner, Bits
  <2>2. CASE \E i \in {j \in x : j % 8 < 4} : k = i + 4
    <3>1. PICK i \in x : i % 8 < 4 /\ k = i + 4
      BY <2>2
    <3>2. i \in 0..63
      BY DEF Words, Bits
    <3>3. k \in 0..63 /\ ~(k % 8 < 4) /\ k - 4 = i
      BY <3>1, <3>2
    <3> QED
      BY <3>1, <3>3 DEF Partner, Bits
  <2> QED
    BY <1>1, <2>1, <2>2 DEF SwapNibbles
<1>2. ASSUME NEW i \in Bits, Partner(i) \in x
      PROVE  i \in SwapNibbles(x)
  <2>1. CASE i % 8 < 4
    <3>1. i + 4 \in x /\ (i + 4) % 8 >= 4 /\ i = (i + 4) - 4
      BY <1>2, <2>1 DEF Partner, Bits
    <3> QED
      BY <3>1 DEF SwapNibbles
  <2>2. CASE ~(i % 8 < 4)
    <3>1. i - 4 \in x /\ (i - 4) % 8 < 4 /\ i = (i - 4) + 4
      BY <1>2, <2>2 DEF Partner, Bits
    <3> QED
      BY <3>1 DEF SwapNibbles
  <2> QED
    BY <2>1, <2>2
<1> QED
  BY <1>1, <1>2 DEF Words

LEMMA KeyWords ==
  ASSUME NEW o \in Owners
  PROVE  Key(o).before \in Words /\ Key(o).after \in Words
  BY DEF Key, PeerKey, DedicatedKey, Hex, Words

\* Encrypt and Decrypt, bit by bit.
LEMMA EncryptBit ==
  ASSUME NEW o \in Owners, NEW x \in Words
  PROVE  /\ Encrypt(o, x) \in Words
         /\ \A i \in Bits :
               i \in Encrypt(o, x) <=>
                  ~((Partner(i) \in x <=> Partner(i) \in Key(o).before) <=> i \notin Key(o).after)
<1>1. Xor(x, Key(o).before) \in Words
  BY KeyWords DEF Xor, Words
<1>2. /\ SwapNibbles(Xor(x, Key(o).before)) \in Words
      /\ \A i \in Bits : i \in SwapNibbles(Xor(x, Key(o).before)) <=> Partner(i) \in Xor(x, Key(o).before)
  BY <1>1, SwapBit
<1>3. Encrypt(o, x) \in Words
  BY <1>2, KeyWords DEF Encrypt, Xor, Words
<1> QED
  BY <1>2, <1>3, Zenon DEF Encrypt, Xor

LEMMA DecryptBit ==
  ASSUME NEW o \in Owners, NEW x \in Words
  PROVE  /\ Decrypt(o, x) \in Words
         /\ \A i \in Bits :
               i \in Decrypt(o, x) <=>
                  ~((Partner(i) \in x <=> Partner(i) \in Key(o).after) <=> i \notin Key(o).before)
<1>1. Xor(x, Key(o).after) \in Words
  BY KeyWords DEF Xor, Words
<1>2. /\ SwapNibbles(Xor(x, Key(o).after)) \in Words
      /\ \A i \in Bits : i \in SwapNibbles(Xor(x, Key(o).after)) <=> Partner(i) \in Xor(x, Key(o).after)
  BY <1>1, SwapBit
<1>3. Decrypt(o, x) \in Words
  BY <1>2, KeyWords DEF Decrypt, Xor, Words
<1> QED
  BY <1>2, <1>3, Zenon DEF Decrypt, Xor

LEMMA Undone ==
  ASSUME NEW o \in Owners, NEW x \in Words
  PROVE  Decrypt(o, Encrypt(o, x)) = x
<1>1. Encrypt(o, x) \in Words /\ Decrypt(o, Encrypt(o, x)) \in Words
  BY EncryptBit, DecryptBit
<1>2. ASSUME NEW i \in Bits
      PROVE  i \in Decrypt(o, Encrypt(o, x)) <=> i \in x
  <2>1. i \in Decrypt(o, Encrypt(o, x)) <=>
           ~((Partner(i) \in Encrypt(o, x) <=> Partner(i) \in Key(o).after) <=> i \notin Key(o).before)
    BY <1>1, DecryptBit
  <2>2. Partner(i) \in Encrypt(o, x) <=>
           ~((i \in x <=> i \in Key(o).before) <=> Partner(i) \notin Key(o).after)
    BY EncryptBit, PartnerBit
  <2> QED
    BY <2>1, <2>2
<1> QED
  BY <1>1, <1>2 DEF Words

\* The two bits of the keys that settle the rest.
LEMMA KeyBits ==
  /\ 60 \in DedicatedKey.before /\ 56 \notin DedicatedKey.before
  /\ 60 \notin DedicatedKey.after /\ 56 \notin DedicatedKey.after
  /\ 60 \notin PeerKey.before /\ 56 \notin PeerKey.before
  /\ 60 \in PeerKey.after /\ 56 \notin PeerKey.after
  /\ Partner(56) = 60 /\ Partner(60) = 56 /\ 56 \in Bits /\ 60 \in Bits
  BY DEF DedicatedKey, PeerKey, Hex, Bits, Partner

LEMMA KindsDiffer ==
  ASSUME NEW x \in Words, NEW o \in Owners, NEW q \in Owners,
         ~(o = "PeerToPeerNode" <=> q = "PeerToPeerNode")
  PROVE  Encrypt(o, x) # Encrypt(q, x)
<1>1. \A r \in Owners : 56 \in Encrypt(r, x) <=>
          ~((60 \in x <=> 60 \in Key(r).before) <=> 56 \notin Key(r).after)
  BY EncryptBit, KeyBits
<1>2. ~(60 \in Key(o).before <=> 60 \in Key(q).before) /\ 56 \notin Key(o).after /\ 56 \notin Key(q).after
  BY KeyBits DEF Key
<1> QED
  BY <1>1, <1>2

LEMMA Changes ==
  ASSUME NEW x \in Words, NEW o \in Owners
  PROVE  Encrypt(o, x) # x /\ Encrypt(o, Encrypt(o, x)) # x
<1> DEFINE y == Encrypt(o, x)
<1>0. y \in Words
  BY EncryptBit
<1>1. /\ 56 \in y <=> ~((60 \in x <=> 60 \in Key(o).before) <=> 56 \notin Key(o).after)
      /\ 60 \in y <=> ~((56 \in x <=> 56 \in Key(o).before) <=> 60 \notin Key(o).after)
  BY EncryptBit, KeyBits
<1> HIDE DEF y
<1>2. 56 \in Encrypt(o, y) <=> ~((60 \in y <=> 60 \in Key(o).before) <=> 56 \notin Key(o).after)
  BY <1>0, EncryptBit, KeyBits
<1>3. /\ 60 \in Key(o).before <=> 60 \notin Key(o).after
      /\ 56 \notin Key(o).before /\ 56 \notin Key(o).after
  BY KeyBits DEF Key
<1>4. y # x
  BY <1>1, <1>3
<1>5. Encrypt(o, y) # x
  BY <1>1, <1>2, <1>3
<1> QED
  BY <1>4, <1>5 DEF y

-----------------------------------------------------------------------------
\* Each word but the first is the answer to the one before it.
Answered == \A i \in 1..(Len(words) - 1) : words[i + 1] = Encrypt(owner, words[i])

CipherInv == TypeOK /\ Answered

LEMMA CipherInit == Init => CipherInv
  BY ChallengesAssumption DEF Init, CipherInv, TypeOK, Answered

LEMMA CipherNext == CipherInv /\ [Answer]_vars => CipherInv'
<1> SUFFICES ASSUME CipherInv, [Answer]_vars
             PROVE  CipherInv'
  OBVIOUS
<1> USE DEF CipherInv, TypeOK
<1>1. CASE Answer
  <2> DEFINE next == Encrypt(owner, words[Len(words)])
  <2>1. Len(words) \in 1..2 /\ words \in Seq(Words) /\ owner \in Owners
    BY <1>1 DEF Answer
  <2>2. next \in Words
    BY <2>1, EncryptBit
  <2>3. words' = Append(words, next) /\ owner' = owner
    BY <1>1 DEF Answer
  <2> HIDE DEF next
  <2>4. /\ words' \in Seq(Words) /\ Len(words') = Len(words) + 1
        /\ words'[Len(words) + 1] = next
        /\ \A i \in 1..Len(words) : words'[i] = words[i]
    BY <2>1, <2>2, <2>3
  <2>5. TypeOK'
    BY <2>1, <2>3, <2>4
  <2>6. ASSUME NEW i \in 1..(Len(words') - 1)
        PROVE  words'[i + 1] = Encrypt(owner, words'[i])
    <3>1. CASE i = Len(words)
      BY <2>1, <2>4, <3>1 DEF next
    <3>2. CASE i # Len(words)
      <4>1. i \in 1..(Len(words) - 1) /\ i + 1 \in 1..Len(words)
        BY <2>1, <2>4, <3>2
      <4>2. words[i + 1] = Encrypt(owner, words[i])
        BY <4>1 DEF Answered
      <4> QED
        BY <2>4, <4>1, <4>2
    <3> QED
      BY <3>1, <3>2
  <2> QED
    BY <2>3, <2>5, <2>6, Zenon DEF Answered, Encrypt, Key
<1>2. CASE UNCHANGED vars
  BY <1>2 DEF vars, Answered, Encrypt, Key
<1> QED
  BY <1>1, <1>2

LEMMA CipherInvariant == Spec => []CipherInv
  BY CipherInit, CipherNext, PTL DEF Spec

\* The words of a validation are words, and there are at most three.
THEOREM CipherTypeCorrect == Spec => []TypeOK
<1>1. CipherInv => TypeOK
  BY DEF CipherInv
<1> QED
  BY <1>1, CipherInvariant, PTL

\* Every answer of a validation (Encrypt of Connection.inl) tells the word it
\* answers, whatever the clock of the server gave as its challenge.
THEOREM AnswersAreInvertible == Spec => []AnswersTellChallenges
<1>1. CipherInv => AnswersTellChallenges
  <2> SUFFICES ASSUME CipherInv, NEW i \in 1..(Len(words) - 1)
               PROVE  Decrypt(owner, words[i + 1]) = words[i]
    BY DEF AnswersTellChallenges
  <2>1. words[i] \in Words /\ owner \in Owners
    BY DEF CipherInv, TypeOK
  <2>2. words[i + 1] = Encrypt(owner, words[i])
    BY DEF CipherInv, Answered
  <2> QED
    BY <2>1, <2>2, Undone
<1> QED
  BY <1>1, CipherInvariant, PTL

\* The three words of a validation differ: an end that sends back what it was
\* sent is refused, and so is one that has the server's challenge answered by
\* the challenge itself.
THEOREM EchoesAreRefused == Spec => []EchoIsWrong
<1>1. CipherInv => EchoIsWrong
  <2> SUFFICES ASSUME CipherInv, NEW i \in 1..Len(words), NEW j \in 1..Len(words), i < j
               PROVE  words[i] # words[j]
    <3>1. Len(words) \in Nat
      BY DEF CipherInv, TypeOK
    <3> QED
      BY <3>1 DEF EchoIsWrong
  <2>1. words \in Seq(Words) /\ owner \in Owners /\ Len(words) \in 1..3
    BY DEF CipherInv, TypeOK
  <2>2. i \in 1..(Len(words) - 1) /\ words[i] \in Words
    BY <2>1
  <2>3. words[i + 1] = Encrypt(owner, words[i])
    BY <2>2 DEF CipherInv, Answered
  <2>4. CASE j = i + 1
    BY <2>1, <2>2, <2>3, <2>4, Changes
  <2>5. CASE j # i + 1
    <3>0. i \in 1..Len(words) /\ j \in 1..Len(words) /\ i < j
      OBVIOUS
    <3>1. j = (i + 1) + 1 /\ i + 1 \in 1..(Len(words) - 1)
      <4> DEFINE n == Len(words)
      <4>1. n \in 1..3 /\ i \in 1..n /\ j \in 1..n /\ i < j /\ j # i + 1
        BY <2>1, <2>5, <3>0
      <4> HIDE DEF n
      <4>2. i \in Int /\ j \in Int /\ n \in Int /\ 1 <= i /\ j <= n /\ n <= 3
        BY <4>1
      <4>3. j = (i + 1) + 1 /\ i + 1 \in 1..(n - 1)
        BY <4>1, <4>2
      <4> QED
        BY <4>3 DEF n
    <3>2. words[j] = Encrypt(owner, words[i + 1])
      BY <3>1 DEF CipherInv, Answered
    <3>3. words[j] = Encrypt(owner, Encrypt(owner, words[i]))
      BY <2>3, <3>2
    <3> QED
      BY <2>1, <2>2, <3>3, Changes
  <2> QED
    BY <2>4, <2>5
<1> QED
  BY <1>1, CipherInvariant, PTL

\* A peer to peer node and a server or client never give the same answer, two
\* owners of one kind always do: what Connection.inl:103-104 asks of Encrypt.
THEOREM KindsNeverAgree == Spec => []OwnersNeverAgree
<1>1. CipherInv => OwnersNeverAgree
  <2> SUFFICES ASSUME CipherInv, NEW o \in Owners, NEW i \in 1..Len(words)
               PROVE  Encrypt(o, words[i]) = Encrypt(owner, words[i]) <=>
                         (o = "PeerToPeerNode" <=> owner = "PeerToPeerNode")
    BY DEF OwnersNeverAgree
  <2>1. words[i] \in Words /\ owner \in Owners
    BY DEF CipherInv, TypeOK
  <2>2. CASE o = "PeerToPeerNode" <=> owner = "PeerToPeerNode"
    <3>1. Key(o) = Key(owner)
      BY <2>2 DEF Key
    <3> QED
      BY <2>2, <3>1 DEF Encrypt
  <2>3. CASE ~(o = "PeerToPeerNode" <=> owner = "PeerToPeerNode")
    BY <2>1, <2>3, KindsDiffer
  <2> QED
    BY <2>2, <2>3
<1> QED
  BY <1>1, CipherInvariant, PTL
=============================================================================
