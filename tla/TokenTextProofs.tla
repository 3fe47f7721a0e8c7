-------------------------- MODULE TokenTextProofs --------------------------
(***************************************************************************)
(* Reading a token's text undoes writing it, for every prefix, alphabet    *)
(* and length, the underscores of the secret included.                     *)
(***************************************************************************)
EXTENDS TokenText, TLAPS, SequenceTheorems

\* Where the parts of a concatenation stand, and those of a piece.
LEMMA Joined ==
  ASSUME NEW S, NEW s \in Seq(S), NEW t \in Seq(S), NEW m, NEW n, m = Len(s), n = Len(t)
  PROVE  /\ m \in Nat /\ n \in Nat
         /\ s \o t \in Seq(S) /\ Len(s \o t) = m + n
         /\ \A i \in 1..m : (s \o t)[i] = s[i]
         /\ \A i \in 1..n : (s \o t)[m + i] = t[i]
<1>1. m \in Nat /\ n \in Nat
  BY LenProperties
<1>2. /\ s \o t \in Seq(S) /\ Len(s \o t) = m + n
      /\ \A i \in 1 .. m + n : (s \o t)[i] = IF i <= m THEN s[i] ELSE t[i - m]
  BY ConcatProperties
<1> DEFINE st == s \o t
<1> HIDE DEF st
<1>3. ASSUME NEW i \in 1..m PROVE st[i] = s[i]
  <2>1. i \in 1 .. m + n /\ i <= m
    BY <1>1
  <2>2. QED
    BY <1>2, <2>1 DEF st
<1>4. ASSUME NEW i \in 1..n PROVE st[m + i] = t[i]
  <2>1. m + i \in 1 .. m + n /\ ~(m + i <= m) /\ (m + i) - m = i
    BY <1>1
  <2>2. QED
    BY <1>2, <2>1 DEF st
<1>5. QED
  BY <1>1, <1>2, <1>3, <1>4 DEF st

LEMMA Piece ==
  ASSUME NEW S, NEW s \in Seq(S), NEW m \in Nat, NEW n \in Nat, m + n <= Len(s)
  PROVE  LET t == SubSeq(s, m + 1, m + n)
         IN t \in Seq(S) /\ Len(t) = n /\ \A i \in 1..n : t[i] = s[m + i]
<1> DEFINE a == m + 1
           b == m + n
           t == SubSeq(s, a, b)
<1>1. Len(s) \in Nat /\ \A i \in 1..Len(s) : s[i] \in S
  BY LenProperties, ElementOfSeq
<1>2. a \in Int /\ b \in Int /\ \A i \in a..b : i \in 1..Len(s)
  BY <1>1
<1>3. IF a <= b THEN b - a + 1 = n ELSE n = 0
  OBVIOUS
<1>4. \A i \in 1..n : i \in 1 .. b - a + 1 /\ a + i - 1 = m + i
  OBVIOUS
<1> HIDE DEF a, b
<1>5. \A i \in a..b : s[i] \in S
  BY <1>1, <1>2
<1>6. /\ t \in Seq(S)
      /\ Len(t) = IF a <= b THEN b - a + 1 ELSE 0
      /\ \A i \in 1 .. b - a + 1 : t[i] = s[a + i - 1]
  BY <1>2, <1>5, SubSeqProperties
<1> HIDE DEF t
<1>7. Len(t) = n /\ \A i \in 1..n : t[i] = s[m + i]
  BY <1>3, <1>4, <1>6
<1>8. QED
  BY <1>6, <1>7 DEF t, a, b

\* A minted text: the prefix, the id, an underscore and the secret.
LEMMA PlaintextParts ==
  ASSUME NEW id \in Seq(Byte), NEW secret \in Seq(Byte)
  PROVE  LET text == Plaintext(id, secret)
             P == Len(Prefix)
             I == Len(id)
             S == Len(secret)
         IN /\ text \in Seq(Byte) /\ Len(text) = P + I + 1 + S
            /\ P \in Nat /\ I \in Nat /\ S \in Nat
            /\ \A i \in 1..P : text[i] = Prefix[i]
            /\ \A i \in 1..I : text[P + i] = id[i]
            /\ text[P + I + 1] = Separator
            /\ \A i \in 1..S : text[P + I + 1 + i] = secret[i]
<1> DEFINE P == Len(Prefix)
           I == Len(id)
           S == Len(secret)
           underscore == <<Separator>>
           head == Prefix \o id
           cut == head \o underscore
           text == cut \o secret
<1>1. Prefix \in Seq(Byte) /\ underscore \in Seq(Byte) /\ 1 = Len(underscore) /\ underscore[1] = Separator
  BY TokenTextAssumption
<1> HIDE DEF underscore
<1>2. P = Len(Prefix) /\ I = Len(id) /\ S = Len(secret)
  OBVIOUS
<1> HIDE DEF P, I, S
<1>3. /\ P \in Nat /\ I \in Nat
      /\ head \in Seq(Byte) /\ P + I = Len(head)
      /\ \A i \in 1..P : head[i] = Prefix[i]
      /\ \A i \in 1..I : head[P + i] = id[i]
  BY <1>1, <1>2, Joined
<1> HIDE DEF head
<1>4. /\ cut \in Seq(Byte) /\ P + I + 1 = Len(cut)
      /\ \A i \in 1 .. P + I : cut[i] = head[i]
      /\ \A i \in 1..1 : cut[P + I + i] = underscore[i]
  <2> DEFINE H == P + I
             U == Len(underscore)
  <2>1. H = Len(head) /\ U = 1
    BY <1>1, <1>3
  <2>2. \A m, n : m = Len(head) /\ n = Len(underscore) =>
          /\ cut \in Seq(Byte) /\ Len(cut) = m + n
          /\ \A i \in 1..m : cut[i] = head[i]
          /\ \A i \in 1..n : cut[m + i] = underscore[i]
    BY <1>1, <1>3, Joined
  <2> HIDE DEF H, U, cut
  <2>3. /\ cut \in Seq(Byte) /\ Len(cut) = H + U
        /\ \A i \in 1..H : cut[i] = head[i]
        /\ \A i \in 1..U : cut[H + i] = underscore[i]
    BY <2>1, <2>2 DEF U
  <2>4. QED
    BY <1>3, <2>1, <2>3 DEF H
<1> HIDE DEF cut
<1>5. /\ text \in Seq(Byte) /\ Len(text) = P + I + 1 + S /\ S \in Nat
      /\ \A i \in 1 .. P + I + 1 : text[i] = cut[i]
      /\ \A i \in 1..S : text[P + I + 1 + i] = secret[i]
  <2> DEFINE C == P + I + 1
  <2>1. C = Len(cut)
    BY <1>4
  <2> HIDE DEF C
  <2>2. /\ text \in Seq(Byte) /\ Len(text) = C + S /\ S \in Nat
        /\ \A i \in 1..C : text[i] = cut[i]
        /\ \A i \in 1..S : text[C + i] = secret[i]
    BY <1>2, <1>4, <2>1, Joined
  <2>3. QED
    BY <1>3, <2>2 DEF C
<1> HIDE DEF text
<1>6. ASSUME NEW i \in 1..P PROVE text[i] = Prefix[i]
  <2>1. i \in 1 .. P + I /\ i \in 1 .. P + I + 1
    BY <1>3
  <2>2. QED
    BY <1>3, <1>4, <1>5, <2>1
<1>7. ASSUME NEW i \in 1..I PROVE text[P + i] = id[i]
  <2>1. P + i \in 1 .. P + I /\ P + i \in 1 .. P + I + 1
    BY <1>3
  <2>2. QED
    BY <1>3, <1>4, <1>5, <2>1
<1>8. text[P + I + 1] = Separator
  <2>1. P + I + 1 \in 1 .. P + I + 1 /\ 1 \in 1..1
    BY <1>3
  <2>2. QED
    BY <1>1, <1>4, <1>5, <2>1
<1>9. text = Plaintext(id, secret)
  BY DEF Plaintext, text, cut, head, underscore
<1>10. QED
  BY <1>3, <1>5, <1>6, <1>7, <1>8, <1>9 DEF P, I, S

\* An underscore with none before it is where the text is cut.
LEMMA TheFirst ==
  ASSUME NEW text, NEW i \in Underscores(text), Len(text) \in Nat,
         \A j \in Underscores(text) : i <= j
  PROVE  CutAt(text) = i
<1> DEFINE first == CutAt(text)
<1>1. first \in Underscores(text) /\ \A j \in Underscores(text) : first <= j
  BY DEF CutAt
<1>2. first \in Int /\ i \in Int /\ first <= i /\ i <= first
  BY <1>1 DEF Underscores
<1> HIDE DEF first
<1>3. first = i
  BY <1>2
<1>4. QED
  BY <1>3 DEF first

\* The id has no underscore, so the first one after the prefix is the separator,
\* and every piece of the text is where ParseToken looks for it.
LEMMA DrawsAreRead == EveryDrawIsRead
<1>1. SUFFICES ASSUME NEW id \in Id, NEW secret \in Secret
               PROVE  /\ WellFormed(Plaintext(id, secret))
                      /\ Parsed(Plaintext(id, secret)) = [id |-> id, secret |-> secret]
  BY DEF EveryDrawIsRead
<1> DEFINE P == Len(Prefix)
           I == Len(id)
           S == Len(secret)
           text == Plaintext(id, secret)
           rest == SubSeq(text, P + 1, P + (I + 1 + S))
<1>2. /\ id \in Seq(Byte) /\ I = IdLength /\ secret \in Seq(Byte) /\ S = SecretLength
       /\ Prefix \in Seq(Byte) /\ I \in Nat /\ S \in Nat /\ P \in Nat
  <2>1. /\ id \in [1..IdLength -> Byte] /\ IdLength \in Nat
        /\ secret \in [1..SecretLength -> Byte] /\ SecretLength \in Nat
    BY TokenTextAssumption DEF Id, Secret
  <2>2. id \in Seq(Byte) /\ secret \in Seq(Byte)
    BY <2>1, SeqDef, Zenon
  <2>3. I = IdLength
    BY <2>1, <2>2, LenProperties
  <2>4. S = SecretLength
    BY <2>1, <2>2, LenProperties
  <2>5. QED
    BY <2>1, <2>2, <2>3, <2>4, TokenTextAssumption, LenProperties
<1>3. /\ text \in Seq(Byte) /\ Len(text) = P + I + 1 + S
      /\ \A i \in 1..P : text[i] = Prefix[i]
      /\ \A i \in 1..I : text[P + i] = id[i]
      /\ text[P + I + 1] = Separator
      /\ \A i \in 1..S : text[P + I + 1 + i] = secret[i]
  BY <1>2, PlaintextParts
<1>4. /\ id \in Seq(Byte) /\ I = Len(id) /\ secret \in Seq(Byte) /\ S = Len(secret)
      /\ I = IdLength /\ S = SecretLength
      /\ \A i \in 1..I : id[i] \in Crockford /\ id[i] # Separator
      /\ Prefix \in Seq(Byte) /\ I \in Nat /\ S \in Nat /\ P \in Nat
  BY <1>2, TokenTextAssumption DEF Id
<1> HIDE DEF P, I, S, text
<1>5. /\ rest \in Seq(Byte) /\ Len(rest) = I + 1 + S
      /\ \A i \in 1..(I + 1 + S) : rest[i] = text[P + i]
  BY <1>4, <1>3, Piece
<1>6. CutPrefix(text) = rest
  <2> DEFINE front == SubSeq(text, 1, P)
  <2>1. front \in Seq(Byte) /\ Len(front) = P /\ \A i \in 1..P : front[i] = text[i]
    <3>1. 0 + 1 = 1 /\ 0 + P = P /\ 0 \in Nat /\ 0 + P <= Len(text)
      BY <1>4, <1>3
    <3>2. \A i \in 1..P : 0 + i = i
      OBVIOUS
    <3>3. QED
      BY <1>4, <1>3, <3>1, <3>2, Piece
  <2> HIDE DEF front
  <2>2. front = Prefix
    BY <1>4, <1>3, <2>1, SeqEqual DEF P
  <2>3. HasPrefix(text)
    BY <1>4, <1>3, <2>2 DEF HasPrefix, P, front
  <2>4. Len(text) = P + (I + 1 + S)
    BY <1>4, <1>3
  <2>5. QED
    BY <2>3, <2>4 DEF CutPrefix, P
<1> HIDE DEF rest
<1>7. ASSUME NEW i \in 1..I PROVE rest[i] = id[i]
  <2>1. i \in 1..(I + 1 + S)
    BY <1>4
  <2>2. QED
    BY <1>3, <1>5, <2>1
<1>8. rest[I + 1] = Separator
  <2>1. I + 1 \in 1..(I + 1 + S) /\ P + (I + 1) = P + I + 1
    BY <1>4
  <2>2. QED
    BY <1>3, <1>5, <2>1
<1>9. ASSUME NEW i \in 1..S PROVE rest[I + 1 + i] = secret[i]
  <2>1. I + 1 + i \in 1..(I + 1 + S) /\ P + (I + 1 + i) = P + I + 1 + i
    BY <1>4
  <2>2. QED
    BY <1>3, <1>5, <2>1
<1>10. I + 1 \in Underscores(rest) /\ CutAt(rest) = I + 1
  <2>1. I + 1 \in Underscores(rest)
    BY <1>4, <1>5, <1>8 DEF Underscores
  <2>2. ASSUME NEW j \in Underscores(rest) PROVE I + 1 <= j
    <3>1. j \in 1..(I + 1 + S) /\ rest[j] = Separator
      BY <1>5 DEF Underscores
    <3>2. ~(j \in 1..I)
      BY <1>4, <1>7, <3>1
    <3>3. QED
      BY <1>4, <3>1, <3>2
  <2>3. Len(rest) \in Nat
    BY <1>4, <1>5
  <2>4. QED
    BY <2>1, <2>2, <2>3, TheFirst
<1>11. Before(rest) = id
  <2> DEFINE front == SubSeq(rest, 1, I)
  <2>1. front \in Seq(Byte) /\ Len(front) = I /\ \A i \in 1..I : front[i] = rest[i]
    <3>1. 0 + 1 = 1 /\ 0 + I = I /\ 0 \in Nat /\ 0 + I <= Len(rest)
      BY <1>4, <1>5
    <3>2. \A i \in 1..I : 0 + i = i
      OBVIOUS
    <3>3. QED
      BY <1>4, <1>5, <3>1, <3>2, Piece
  <2> HIDE DEF front
  <2>2. front = id
    BY <1>4, <1>7, <2>1, SeqEqual
  <2>3. (I + 1) - 1 = I
    BY <1>4
  <2>4. QED
    BY <1>10, <2>2, <2>3 DEF Before, front
<1>12. After(rest) = secret
  <2> DEFINE tail == SubSeq(rest, (I + 1) + 1, (I + 1) + S)
  <2>1. tail \in Seq(Byte) /\ Len(tail) = S /\ \A i \in 1..S : tail[i] = rest[(I + 1) + i]
    <3>1. I + 1 \in Nat /\ (I + 1) + S <= Len(rest)
      BY <1>4, <1>5
    <3>2. QED
      BY <1>4, <1>5, <3>1, Piece
  <2> HIDE DEF tail
  <2>2. tail = secret
    BY <1>4, <1>9, <2>1, SeqEqual
  <2>3. QED
    BY <1>5, <1>10, <2>2 DEF After, tail
<1>13. WellFormed(text) /\ Parsed(text) = [id |-> id, secret |-> secret]
  BY <1>4, <1>6, <1>10, <1>11, <1>12 DEF WellFormed, Parsed
<1>14. QED
  BY <1>13 DEF text

\* MintedIsRead: a token that was minted is read back from its text, whatever was
\* drawn for it (Mint, ParseToken).
THEOREM MintedTokensAreRead == Spec => []MintedIsRead
<1>1. MintedIsRead
  BY DrawsAreRead DEF MintedIsRead
<1>2. QED
  BY <1>1, PTL
=============================================================================
