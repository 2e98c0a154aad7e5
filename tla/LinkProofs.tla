----------------------------- MODULE LinkProofs -----------------------------
(***************************************************************************)
(* The two streams of a connection: LinkInv is inductive; from it follow   *)
(* which replies the peer reads, and which positions a player is sent back *)
(* to; and a read that begins with a request is heard as that.             *)
(***************************************************************************)
EXTENDS Link, WireProofs, FiniteSetTheorems

----------------------------------------------------------------------------
(* The requests on their way, and what a read is taken for *)

\* The requests of the game are bytes, and their variables have values.
LEMMA RequestFacts ==
    ASSUME NEW r \in Requests
    PROVE  /\ WellFormed(r) /\ Encode(r) \in Seq(Byte) /\ Len(Encode(r)) \in Nat \ {0}
           /\ r.vars \in Seq(SoundVariable)
BY LinkAssumption, EncodeType, WellFormedVars

\* Requests as bytes.
Encodes(rs) == [i \in DOMAIN rs |-> Encode(rs[i])]

\* They are as many sequences of bytes.
LEMMA EncodesType ==
    ASSUME NEW rs \in Seq(Requests)
    PROVE  /\ Encodes(rs) \in Seq(Seq(Byte)) /\ Len(Encodes(rs)) = Len(rs)
           /\ \A k \in 1..Len(rs) : Encodes(rs)[k] = Encode(rs[k])
<1> DEFINE m == Len(rs)
           p == Encodes(rs)
<1>1. m \in Nat /\ DOMAIN rs = 1..m
  BY LenProperties
<1>2. \A k \in 1..m : Encode(rs[k]) \in Seq(Byte)
  <2> TAKE k \in 1..m
  <2>1. rs[k] \in Requests
    BY ElementOfSeq
  <2>2. QED
    BY <2>1, RequestFacts
<1>3. p = [k \in 1..m |-> Encode(rs[k])]
  BY <1>1 DEF Encodes
<1> HIDE DEF m, p
<1>4. p \in [1..m -> Seq(Byte)]
  BY <1>2, <1>3
<1>5. p \in Seq(Seq(Byte))
  BY <1>1, <1>4, SeqDef
<1> DEFINE l == Len(p)
<1>6. l \in Nat /\ 1..l = 1..m
  <2>1. l \in Nat /\ DOMAIN p = 1..l
    BY <1>5, LenProperties
  <2>2. DOMAIN p = 1..m
    BY <1>3
  <2>3. QED
    BY <2>1, <2>2
<1> HIDE DEF l
<1>7. l = m
  BY <1>1, <1>6
<1>8. QED
  BY <1>3, <1>5, <1>7 DEF m, p, l

\* What is sent, and what of it can be read, are bytes.
LEMMA SentType ==
    ASSUME unread \in Seq(Requests), skip \in Nat
    PROVE  /\ Sent \in Seq(Byte) /\ Available \in Seq(Byte)
           /\ skip = 0 => Available = Sent
           /\ skip <= Len(Sent) => Len(Available) = Len(Sent) - skip
           /\ skip > Len(Sent) => Available = <<>>
<1>1. Sent \in Seq(Byte)
  <2>1. Sent = FlattenSeq(Encodes(unread))
    BY DEF Sent, Encodes
  <2>2. QED
    BY <2>1, EncodesType, FlattenType
<1> DEFINE l == Len(Sent)
<1>2. l \in Nat
  BY <1>1, LenProperties
<1>3. \A j \in (skip + 1)..l : Sent[j] \in Byte
  <2>1. \A j \in (skip + 1)..l : j \in 1..l
    BY <1>2
  <2>2. QED
    BY <1>1, <2>1, ElementOfSeq
<1>4. Available = SubSeq(Sent, skip + 1, l)
  BY DEF Available
<1>5. skip + 1 \in Int /\ l \in Int
  BY <1>2
<1>6. /\ Available \in Seq(Byte)
      /\ Len(Available) = IF skip + 1 <= l THEN l - (skip + 1) + 1 ELSE 0
  BY <1>3, <1>4, <1>5, SubSeqProperties
<1>7. skip = 0 => Available = Sent
  BY <1>1, <1>4, SubSeqFull
<1> HIDE DEF l
<1>8. skip <= l => Len(Available) = l - skip
  BY <1>2, <1>6
<1>9. skip > l => Available = <<>>
  BY <1>2, <1>4, SubSeqEmpty
<1>10. QED
  BY <1>1, <1>6, <1>7, <1>8, <1>9 DEF l

\* What is sent begins with the first request.
LEMMA SentBegins ==
    ASSUME unread \in Seq(Requests), unread # <<>>
    PROVE  Begins(Sent, Encode(Head(unread)))
<1> DEFINE p == Encodes(unread)
           off == [k \in 0..Len(p) |-> Len(FlattenSeq(SubSeq(p, 1, k)))]
<1>1. p \in Seq(Seq(Byte)) /\ Len(p) \in Nat \ {0} /\ p[1] = Encode(Head(unread))
  <2>1. Len(unread) \in Nat \ {0}
    BY EmptySeq
  <2>2. 1 \in 1..Len(unread)
    BY <2>1
  <2>3. Head(unread) = unread[1]
    BY DEF Head
  <2>4. QED
    BY <2>1, <2>2, <2>3, EncodesType
<1>2. Sent = FlattenSeq(p)
  BY DEF Sent, Encodes
<1> HIDE DEF p
<1>3. Chunks(p, off, Sent)
  <2>1. off = [k \in 0..Len(p) |-> Len(FlattenSeq(SubSeq(p, 1, k)))]
    OBVIOUS
  <2> HIDE DEF off
  <2>2. QED
    BY <1>1, <1>2, <2>1, FlattenChunks
<1> HIDE DEF off
<1>4. /\ off[0] = 0 /\ off[1] = off[0] + Len(p[1]) /\ off[1] <= Len(Sent)
      /\ \A j \in 1..Len(p[1]) : Sent[off[0] + j] = p[1][j]
  <2>1. 1 \in 1..Len(p) /\ 1 - 1 = 0
    BY <1>1
  <2>2. /\ off[1] = off[1 - 1] + Len(p[1]) /\ off[1] <= Len(Sent)
        /\ \A j \in 1..Len(p[1]) : Sent[off[1 - 1] + j] = p[1][j]
    BY <1>3, <2>1 DEF Chunks
  <2>3. QED
    BY <1>3, <2>2 DEF Chunks
<1>5. Len(p[1]) \in Nat
  <2>1. p[1] \in Seq(Byte)
    BY <1>1, ElementOfSeq
  <2>2. QED
    BY <2>1, LenProperties
<1>6. Len(p[1]) <= Len(Sent) /\ \A j \in 1..Len(p[1]) : Sent[j] = p[1][j]
  BY <1>4, <1>5
<1>7. QED
  BY <1>1, <1>6 DEF Begins

\* What the read buffer holds after a read.
LEMMA FillType ==
    ASSUME unread \in Seq(Requests), skip \in Nat,
           buffer \in [1..(BufferSize + 4) -> Byte],
           NEW n \in Nat, n <= Len(Available), n <= BufferSize
    PROVE  /\ Fill(n) \in [1..(BufferSize + 4) -> Byte]
           /\ Fill(n) \in Seq(Byte) /\ Len(Fill(n)) = BufferSize + 4
           /\ \A i \in 1..n : Fill(n)[i] = Available[i]
<1> DEFINE m == BufferSize + 4
<1>1. m \in Nat /\ n <= m /\ BufferSize \in Nat
  BY LinkAssumption
<1>2. Available \in Seq(Byte) /\ Len(Available) \in Nat
  BY SentType, LenProperties
<1>3. \A i \in 1..n : Available[i] \in Byte
  BY <1>2
<1>4. Fill(n) = [i \in 1..m |-> IF i <= n THEN Available[i] ELSE buffer[i]]
  BY DEF Fill
<1>5. Fill(n) \in [1..m -> Byte]
  BY <1>3, <1>4
<1> HIDE DEF m
<1>6. Fill(n) \in Seq(Byte)
  BY <1>1, <1>5, SeqDef
<1> DEFINE l == Len(Fill(n))
<1>7. l \in Nat /\ 1..l = 1..m
  <2>1. l \in Nat /\ DOMAIN Fill(n) = 1..l
    BY <1>6, LenProperties
  <2>2. DOMAIN Fill(n) = 1..m
    BY <1>5
  <2>3. QED
    BY <2>1, <2>2
<1> HIDE DEF l
<1>8. l = m
  BY <1>1, <1>7
<1>9. \A i \in 1..n : Fill(n)[i] = Available[i]
  BY <1>1, <1>4
<1>10. QED
  BY <1>5, <1>6, <1>8, <1>9 DEF l, m

\* Whatever a read brings, it is taken for a request.
LEMMA FillTaken ==
    ASSUME unread \in Seq(Requests), skip \in Nat,
           buffer \in [1..(BufferSize + 4) -> Byte],
           NEW n \in Nat, n <= Len(Available), n <= BufferSize
    PROVE  /\ Taken(Fill(n), n) \in Request
           /\ Len(Taken(Fill(n), n).text) < Half
           /\ Taken(Fill(n), n).vars \in Seq(SoundVariable)
<1> DEFINE b == Fill(n)
<1>1. b \in Seq(Byte) /\ Len(b) = BufferSize + 4
  BY FillType
<1> HIDE DEF b
<1>2. n + 4 <= Len(b) /\ Base + 1 <= Len(b)
  BY <1>1, LinkAssumption, ByteFacts
<1>3. QED
  BY <1>1, <1>2, TakenType DEF b

\* A read that begins with a whole request is heard as that.
LEMMA FillHears ==
    ASSUME unread \in Seq(Requests), unread # <<>>, skip = 0,
           buffer \in [1..(BufferSize + 4) -> Byte],
           NEW n \in Nat, n <= Len(Available), n <= BufferSize,
           Len(Encode(Head(unread))) <= n
    PROVE  LET t == Taken(Fill(n), n)
               r == Head(unread)
           IN  /\ t.type = r.type
               /\ t.source = Expected(r).source /\ t.text = Expected(r).text
               /\ \E rest \in Seq(SoundVariable) :
                     /\ t.vars = r.vars \o rest
                     /\ n = Len(Encode(r)) => rest = <<>>
<1> DEFINE b == Fill(n)
           r == Head(unread)
<1>1. b \in Seq(Byte) /\ Len(b) = BufferSize + 4 /\ \A i \in 1..n : b[i] = Available[i]
  BY FillType
<1>2. r \in Requests /\ WellFormed(r)
  BY HeadTailProperties, RequestFacts
<1>3. Begins(Available, Encode(r))
  BY SentBegins, SentType
<1>4. Len(Encode(r)) \in Nat /\ Len(Encode(r)) <= n
  BY <1>2, RequestFacts
<1> HIDE DEF b, r
<1>5. n + 4 <= Len(b)
  BY <1>1, LinkAssumption
<1>6. Begins(b, Encode(r))
  <2>1. Len(Encode(r)) <= Len(b)
    BY <1>1, <1>4, LinkAssumption
  <2>2. \A i \in 1..Len(Encode(r)) : i \in 1..n
    BY <1>4
  <2>3. \A i \in 1..Len(Encode(r)) : b[i] = Encode(r)[i]
    BY <1>1, <1>3, <2>2 DEF Begins
  <2>4. QED
    BY <2>1, <2>3 DEF Begins
<1>7. LET t == Taken(b, n)
      IN  /\ t.type = r.type
          /\ t.source = Expected(r).source /\ t.text = Expected(r).text
          /\ \E rest \in Seq(SoundVariable) :
                /\ t.vars = r.vars \o rest
                /\ n = Len(Encode(r)) => rest = <<>>
  BY <1>1, <1>2, <1>4, <1>5, <1>6, RequestIsHeard
<1>8. QED
  BY <1>7 DEF b, r

----------------------------------------------------------------------------
(* Positions, and the layout of replies *)

\* A set of numbers of a sequence that is not empty has a greatest.
LEMMA GreatestIndex ==
    ASSUME NEW m \in Nat, NEW S \in SUBSET (1..m), S # {}
    PROVE  \E i \in S : \A j \in S : j <= i
<1> DEFINE D == {m - i : i \in S}
<1>1. D \in SUBSET Nat /\ D # {}
  <2>1. \A i \in S : i \in 1..m /\ m - i \in Nat
    OBVIOUS
  <2>2. D # {}
    OBVIOUS
  <2>3. QED
    BY <2>1, <2>2
<1>2. PICK d \in D : \A e \in D : d <= e
  <2> HIDE DEF D
  <2>1. QED
    BY <1>1, LeastNatural
<1>3. PICK i \in S : d = m - i
  BY <1>2
<1>4. ASSUME NEW j \in S PROVE j <= i
  <2>1. m - j \in D
    OBVIOUS
  <2>2. m - i <= m - j /\ i \in Nat /\ j \in Nat
    BY <1>2, <1>3, <2>1
  <2>3. QED
    BY <2>2
<1>5. QED
  BY <1>4

\* A position stays one, whatever variables are reported.
LEMMA MovedType ==
    ASSUME NEW p \in Position, NEW vs \in Seq(SoundVariable)
    PROVE  Moved(p, vs) \in Position
<1>1. Len(vs) \in Nat /\ DOMAIN vs = 1..Len(vs)
  BY LenProperties
<1> DEFINE v(x) == IF \E i \in DOMAIN vs : vs[i].type = x
                   THEN vs[CHOOSE i \in DOMAIN vs :
                              /\ vs[i].type = x
                              /\ \A j \in DOMAIN vs : vs[j].type = x => j <= i].value
                   ELSE p[x]
<1>2. ASSUME NEW x \in Axis PROVE v(x) \in [1..4 -> Byte]
  <2>1. CASE ~(\E i \in DOMAIN vs : vs[i].type = x)
    BY <2>1 DEF Position
  <2>2. CASE \E i \in DOMAIN vs : vs[i].type = x
    <3> DEFINE S == {i \in 1..Len(vs) : vs[i].type = x}
               P(i) == /\ vs[i].type = x
                       /\ \A j \in DOMAIN vs : vs[j].type = x => j <= i
               c == CHOOSE i \in DOMAIN vs : P(i)
    <3>1. S # {} /\ S \in SUBSET (1..Len(vs))
      BY <1>1, <2>2
    <3>2. PICK i \in S : \A j \in S : j <= i
      <4> DEFINE m == Len(vs)
      <4> HIDE DEF S, m
      <4>1. S \in SUBSET (1..m) /\ m \in Nat
        BY <1>1, <3>1 DEF m
      <4>2. QED
        BY <3>1, <4>1, GreatestIndex
    <3>3. i \in DOMAIN vs /\ P(i)
      BY <1>1, <3>2
    <3>4. c \in DOMAIN vs /\ P(c)
      <4> HIDE DEF P
      <4>1. QED
        BY <3>3
    <3>5. v(x) = vs[c].value
      BY <2>2
    <3> HIDE DEF c
    <3>6. vs[c] \in SoundVariable /\ vs[c].type = x
      BY <1>1, <3>4, ElementOfSeq
    <3>7. x \in FloatVar
      BY DEF Axis, FloatVar, PositionX, PositionY, PositionZ
    <3>8. vs[c].value \in [1..4 -> Byte]
      BY <3>6, <3>7 DEF SoundVariable, Values
    <3>9. QED
      BY <3>5, <3>8
  <2>3. QED
    BY <2>1, <2>2
<1>3. Moved(p, vs) = [x \in Axis |-> v(x)]
  BY DEF Moved
<1> HIDE DEF v
<1>4. QED
  BY <1>2, <1>3 DEF Position

\* The sizes of the replies to one request are far below Limit.
LEMMA BaseLimit == Base >= 2 /\ Limit \in Nat /\ Base + 14 <= Limit
<1>1. Base \in Nat /\ Base >= 2
  BY ByteFacts
<1> DEFINE b == Base
<1>2. b \in Nat /\ b >= 2
  BY <1>1
<1>3. Limit = b * b * b * b
  BY DEF Limit
<1> HIDE DEF b
<1>4. b * b \in Nat /\ b * b >= 2 * b
  BY <1>2
<1> DEFINE c == b * b
<1>5. c \in Nat /\ c >= 2 * b /\ Limit = c * b * b
  BY <1>3, <1>4
<1> HIDE DEF c
<1>6. c * b \in Nat /\ c * b >= 2 * c
  BY <1>2, <1>5
<1> DEFINE d == c * b
<1>7. d \in Nat /\ d >= 2 * c /\ Limit = d * b
  BY <1>5, <1>6
<1> HIDE DEF d
<1>8. d * b \in Nat /\ d * b >= 2 * d
  BY <1>2, <1>7
<1>9. Limit \in Nat /\ Limit >= 2 * d
  BY <1>7, <1>8
<1>10. b + 14 <= 2 * d
  BY <1>2, <1>5, <1>7
<1>11. b >= 2 /\ Limit \in Nat /\ b + 14 <= Limit
  BY <1>2, <1>7, <1>9, <1>10
<1>12. QED
  BY <1>11 DEF b

\* A sequence of k bytes that begins with x.
Starts(a, x, k) == a \in Seq(Byte) /\ Len(a) = k /\ a[1] = x

\* What begins with x begins with x when more is put behind it.
LEMMA Joined ==
    ASSUME NEW a, NEW b \in Seq(Byte), NEW x, NEW k \in Nat \ {0}, NEW l \in Nat,
           Starts(a, x, k), Len(b) = l
    PROVE  Starts(a \o b, x, k + l)
<1>0. a \in Seq(Byte) /\ Len(a) = k /\ a[1] = x
  BY DEF Starts
<1>1. /\ a \o b \in Seq(Byte) /\ Len(a \o b) = Len(a) + Len(b)
      /\ \A i \in 1..(Len(a) + Len(b)) :
            (a \o b)[i] = IF i <= Len(a) THEN a[i] ELSE b[i - Len(a)]
  BY <1>0, ConcatProperties
<1>2. /\ a \o b \in Seq(Byte) /\ Len(a \o b) = k + l
      /\ \A i \in 1..(k + l) : (a \o b)[i] = IF i <= k THEN a[i] ELSE b[i - k]
  BY <1>0, <1>1
<1>3. 1 \in 1..(k + l) /\ 1 <= k
  OBVIOUS
<1>4. (a \o b)[1] = x
  BY <1>0, <1>2, <1>3
<1>5. QED
  BY <1>2, <1>4 DEF Starts

\* strlen is at most the length of the string.
LEMMA StrLenType ==
    ASSUME NEW s \in Seq(Byte)
    PROVE  StrLen(s) \in 0..Len(s)
<1> DEFINE m == Len(s)
           P(n) == /\ \A i \in 1..n : s[i] # 0
                   /\ n < m => s[n + 1] = 0
           S == {n \in 0..m : n = m \/ s[n + 1] = 0}
<1>1. m \in Nat
  BY LenProperties
<1>2. StrLen(s) = CHOOSE n \in 0..m : P(n)
  BY DEF StrLen
<1> HIDE DEF m
<1>3. S \in SUBSET Nat /\ m \in S
  BY <1>1
<1>4. PICK n \in S : \A k \in S : n <= k
  <2> HIDE DEF S
  <2>1. QED
    BY <1>3, LeastNatural
<1>5. n \in 0..m /\ P(n)
  <2>1. n \in 0..m /\ (n < m => s[n + 1] = 0)
    BY <1>1, <1>4
  <2>2. ASSUME NEW i \in 1..n PROVE s[i] # 0
    <3>1. i - 1 \in 0..m /\ ~(n <= i - 1) /\ (i - 1) + 1 = i
      BY <1>1, <2>1
    <3>2. i - 1 \notin S
      BY <1>4, <3>1
    <3>3. QED
      BY <3>1, <3>2
  <2>3. QED
    BY <2>1, <2>2
<1> HIDE DEF P
<1>6. (CHOOSE k \in 0..m : P(k)) \in 0..m
  BY <1>5
<1>7. QED
  BY <1>2, <1>6 DEF m

\* A string in a reply is its length and at most all its characters.
LEMMA AddStringType ==
    ASSUME NEW s \in Seq(Byte)
    PROVE  AddString(s) \in Seq(Byte) /\ Len(AddString(s)) \in 1..(Len(s) + 1)
<1> DEFINE n == StrLen(s)
           m == Len(s)
           t == SubSeq(s, 1, n)
<1>1. m \in Nat /\ n \in 0..m /\ Base \in Nat \ {0}
  BY StrLenType, LenProperties, ByteFacts
<1> HIDE DEF n
<1>2. \A i \in 1..n : i \in 1..m
  BY <1>1
<1>3. \A i \in 1..n : s[i] \in Byte
  BY <1>2, ElementOfSeq
<1>4. t \in Seq(Byte) /\ Len(t) = IF 1 <= n THEN n - 1 + 1 ELSE 0
  <2>1. 1 \in Int /\ n \in Int
    BY <1>1
  <2>2. QED
    BY <1>3, <2>1, SubSeqProperties
<1>5. Truncated(n) \in Byte
  <2>1. n \in Nat
    BY <1>1
  <2>2. n % Base \in 0..(Base - 1)
    BY <1>1, <2>1, Remainder
  <2>3. QED
    BY <2>2 DEF Truncated, Byte
<1>6. AddString(s) = <<Truncated(n)>> \o t
  BY DEF AddString, n
<1> HIDE DEF t
<1>7. AddString(s) \in Seq(Byte) /\ Len(AddString(s)) = Len(t) + 1
  BY <1>4, <1>5, <1>6, BytePrefixed
<1> HIDE DEF m
<1>8. Len(t) \in 0..m
  BY <1>1, <1>4
<1> DEFINE l == Len(t)
<1>9. l + 1 \in 1..(m + 1)
  <2>1. l \in 0..m
    BY <1>8
  <2> HIDE DEF l
  <2>2. QED
    BY <1>1, <2>1
<1>10. QED
  BY <1>7, <1>9 DEF m

\* The same for the four bytes of a coordinate.
LEMMA JoinedFour ==
    ASSUME NEW a, NEW b \in [1..4 -> Byte], NEW x, NEW k \in Nat \ {0}, NEW j, j = k + 4,
           Starts(a, x, k)
    PROVE  Starts(a \o b, x, j)
<1> DEFINE l == 4
<1>1. b \in Seq(Byte) /\ Len(b) = l /\ l \in Nat /\ j = k + l
  BY OfFour
<1> HIDE DEF l
<1>2. QED
  BY <1>1, Joined

\* A chat message begins with its type and is short enough for a size.
LEMMA ChatReplyType ==
    ASSUME NEW text \in Seq(Byte), Len(text) < Half, Message \in Byte
    PROVE  /\ ChatReply(text) \in Seq(Byte) /\ ChatReply(text)[1] = Message
           /\ Len(ChatReply(text)) \in 1..(Limit - 1)
<1> DEFINE a == AddString(Username)
           b == AddString(text)
           c == AddBool(FALSE)
           m == <<Message>>
<1>1. /\ a \in Seq(Byte) /\ Len(a) \in 1..Half
      /\ b \in Seq(Byte) /\ Len(b) \in 1..Half
  <2>1. Username \in Seq(Byte) /\ Len(Username) < Half
    BY LinkAssumption
  <2>2. a \in Seq(Byte) /\ Len(a) \in 1..(Len(Username) + 1)
    BY <2>1, AddStringType
  <2>3. b \in Seq(Byte) /\ Len(b) \in 1..(Len(text) + 1)
    BY AddStringType
  <2> DEFINE u == Len(Username)
             t == Len(text)
             la == Len(a)
             lb == Len(b)
  <2>4. u \in Nat /\ t \in Nat /\ u < Half /\ t < Half /\ Half \in Nat
        /\ la \in 1..(u + 1) /\ lb \in 1..(t + 1)
    BY <2>1, <2>2, <2>3, ByteFacts, LenProperties
  <2> HIDE DEF u, t, la, lb
  <2>5. la \in 1..Half /\ lb \in 1..Half
    BY <2>4
  <2>6. QED
    BY <2>2, <2>3, <2>5 DEF la, lb
<1>2. c \in Seq(Byte) /\ Len(c) = 1
  <2>1. c = <<0>>
    BY DEF AddBool
  <2>2. QED
    BY <2>1, OneIs, BitIsByte
<1>3. Starts(m, Message, 1)
  BY OneIs DEF Starts
<1>4. ChatReply(text) = ((m \o a) \o b) \o c
  BY DEF ChatReply
<1> DEFINE la == Len(a)
           lb == Len(b)
           d == m \o a
           e == d \o b
<1>5. la \in 1..Half /\ lb \in 1..Half /\ Half \in Nat /\ la \in Nat /\ lb \in Nat
  BY <1>1, ByteFacts
<1>6. Starts(d, Message, 1 + la)
  <2> HIDE DEF a, m
  <2>1. QED
    BY <1>1, <1>3, <1>5, Joined
<1>7. Starts(e, Message, (1 + la) + lb)
  <2> HIDE DEF d, b
  <2>1. 1 + la \in Nat \ {0}
    <3> HIDE DEF la
    <3>1. QED
      BY <1>5
  <2>2. QED
    BY <1>1, <1>5, <1>6, <2>1, Joined
<1>8. Starts(ChatReply(text), Message, ((1 + la) + lb) + 1)
  <2> HIDE DEF e, c
  <2>1. (1 + la) + lb \in Nat \ {0}
    <3> HIDE DEF la, lb
    <3>1. QED
      BY <1>5
  <2>2. Starts(e \o c, Message, ((1 + la) + lb) + 1)
    BY <1>2, <1>7, <2>1, Joined
  <2>3. QED
    BY <1>4, <2>2 DEF e, d
<1> HIDE DEF la, lb
<1>9. ((1 + la) + lb) + 1 \in 1..(Limit - 1)
  <2>1. Base = Half + Half /\ Base + 14 <= Limit /\ Limit \in Nat
    BY ByteFacts, BaseLimit
  <2>2. QED
    BY <1>5, <2>1
<1>10. QED
  BY <1>8, <1>9 DEF Starts

\* So does the reply with the saved position.
LEMMA LoadReplyType ==
    ASSUME NEW p \in Position, LoadPosition \in Byte
    PROVE  /\ LoadReply(p) \in Seq(Byte) /\ LoadReply(p)[1] = LoadPosition
           /\ Len(LoadReply(p)) \in 1..(Limit - 1)
<1> DEFINE a == p[PositionX]
           b == p[PositionY]
           c == p[PositionZ]
           m == <<LoadPosition>>
<1>1. a \in [1..4 -> Byte] /\ b \in [1..4 -> Byte] /\ c \in [1..4 -> Byte]
  BY DEF Position, Axis
<1>3. LoadReply(p) = ((m \o a) \o b) \o c
  BY DEF LoadReply
<1> HIDE DEF a, b, c
<1>4. Starts(m, LoadPosition, 1)
  BY OneIs DEF Starts
<1> HIDE DEF m
<1>5. Starts(m \o a, LoadPosition, 5)
  <2>1. 1 \in Nat \ {0} /\ 5 = 1 + 4
    OBVIOUS
  <2>2. QED
    BY <1>1, <1>4, <2>1, JoinedFour
<1>6. Starts((m \o a) \o b, LoadPosition, 9)
  <2>1. 5 \in Nat \ {0} /\ 9 = 5 + 4
    OBVIOUS
  <2>2. QED
    BY <1>1, <1>5, <2>1, JoinedFour
<1>7. Starts(((m \o a) \o b) \o c, LoadPosition, 13)
  <2>1. 9 \in Nat \ {0} /\ 13 = 9 + 4
    OBVIOUS
  <2>2. QED
    BY <1>1, <1>6, <2>1, JoinedFour
<1>8. 13 \in 1..(Limit - 1)
  BY BaseLimit, ByteFacts
<1>9. QED
  BY <1>3, <1>7, <1>8 DEF Starts

----------------------------------------------------------------------------
(* What may be a reply *)

\* What may be a reply when o reads were odd and the game has reported b.
Fine(a, o, b) ==
    /\ Len(a) \in 1..(Limit - 1)
    /\ o = 0 /\ a[1] = LoadPosition => \E p \in b : a = LoadReply(p)

\* The same of all replies of a list.
AllFine(s, o, b) == s \in Seq(Seq(Byte)) /\ \A i \in 1..Len(s) : Fine(s[i], o, b)

\* What may be a reply may be one when more was reported or misread.
LEMMA FineStays ==
    ASSUME NEW a, NEW o, NEW b, NEW o2, NEW b2,
           Fine(a, o, b), b \subseteq b2, o2 = 0 => o = 0
    PROVE  Fine(a, o2, b2)
BY DEF Fine

\* So it is with a list.
LEMMA AllFineStays ==
    ASSUME NEW s, NEW o, NEW b, NEW o2, NEW b2,
           AllFine(s, o, b), b \subseteq b2, o2 = 0 => o = 0
    PROVE  AllFine(s, o2, b2)
BY FineStays DEF AllFine

\* An empty list is fine.
LEMMA NoneFine ==
    ASSUME NEW o, NEW b
    PROVE  AllFine(<<>>, o, b)
BY DEF AllFine

\* So is a list of one reply that is.
LEMMA OneFine ==
    ASSUME NEW a \in Seq(Byte), NEW o, NEW b, Fine(a, o, b)
    PROVE  AllFine(<<a>>, o, b)
<1> DEFINE T == Seq(Byte)
           s == <<a>>
<1>1. a \in T
  OBVIOUS
<1> HIDE DEF T
<1>2. s \in Seq(T) /\ Len(s) = 1 /\ s[1] = a
  BY <1>1, OneIs
<1> HIDE DEF s
<1>3. \A i \in 1..Len(s) : Fine(s[i], o, b)
  BY <1>2
<1>4. QED
  BY <1>2, <1>3 DEF AllFine, T, s

\* So is a list with one such reply more.
LEMMA MoreFine ==
    ASSUME NEW s, NEW a \in Seq(Byte), NEW o, NEW b, AllFine(s, o, b), Fine(a, o, b)
    PROVE  AllFine(Append(s, a), o, b)
<1> DEFINE T == Seq(Byte)
           t == Append(s, a)
           m == Len(s)
<1>1. a \in T /\ s \in Seq(T) /\ \A i \in 1..m : Fine(s[i], o, b)
  BY DEF AllFine
<1> HIDE DEF T
<1>2. /\ t \in Seq(T) /\ Len(t) = m + 1 /\ m \in Nat
      /\ \A i \in 1..m : t[i] = s[i] /\ t[m + 1] = a
  <2>1. /\ t \in Seq(T) /\ Len(t) = Len(s) + 1
        /\ \A i \in 1..Len(s) : t[i] = s[i]
        /\ t[Len(s) + 1] = a
    BY <1>1, AppendProperties
  <2>2. Len(s) \in Nat
    BY <1>1, LenProperties
  <2>3. QED
    BY <2>1, <2>2
<1>3. t[m + 1] = a
  BY <1>1, AppendProperties
<1> HIDE DEF t, m
<1>4. ASSUME NEW i \in 1..Len(t) PROVE Fine(t[i], o, b)
  <2>1. i \in 1..m \/ i = m + 1
    BY <1>2
  <2>2. QED
    BY <1>1, <1>2, <1>3, <2>1
<1>5. QED
  BY <1>2, <1>4 DEF AllFine, T, t

\* So is the rest of a list; its first is such a reply.
LEMMA TailFine ==
    ASSUME NEW s, s # <<>>, NEW o, NEW b, AllFine(s, o, b)
    PROVE  AllFine(Tail(s), o, b) /\ Head(s) \in Seq(Byte) /\ Fine(Head(s), o, b)
<1> DEFINE T == Seq(Byte)
           t == Tail(s)
<1>1. s \in Seq(T) /\ \A i \in 1..Len(s) : Fine(s[i], o, b)
  BY DEF AllFine
<1> HIDE DEF T
<1>2. /\ Head(s) \in T /\ t \in Seq(T) /\ Len(t) = Len(s) - 1
      /\ \A i \in 1..Len(t) : t[i] = s[i + 1]
  BY <1>1, HeadTailProperties
<1>3. Len(s) \in Nat \ {0} /\ Head(s) = s[1]
  BY <1>1, EmptySeq
<1> HIDE DEF t
<1>4. \A i \in 1..Len(t) : i + 1 \in 1..Len(s)
  BY <1>2, <1>3
<1>5. \A i \in 1..Len(t) : Fine(t[i], o, b)
  BY <1>1, <1>2, <1>4
<1>6. Fine(Head(s), o, b)
  BY <1>1, <1>3
<1>7. QED
  BY <1>2, <1>5, <1>6 DEF AllFine, T, t

\* So is the list turned round: an update drains the inbox from the back.
LEMMA ReverseFine ==
    ASSUME NEW s, NEW o, NEW b, AllFine(s, o, b)
    PROVE  AllFine(Reverse(s), o, b)
<1> DEFINE T == Seq(Byte)
           m == Len(s)
           t == Reverse(s)
<1>1. s \in Seq(T) /\ \A i \in 1..m : Fine(s[i], o, b)
  BY DEF AllFine
<1> HIDE DEF T
<1>2. m \in Nat /\ \A i \in 1..m : s[i] \in T
  BY <1>1, LenProperties, ElementOfSeq
<1>3. t = [i \in 1..m |-> s[(m - i) + 1]]
  BY DEF Reverse
<1> HIDE DEF m, t
<1>4. \A i \in 1..m : (m - i) + 1 \in 1..m
  BY <1>2
<1>5. t \in [1..m -> T]
  BY <1>2, <1>3, <1>4
<1>6. t \in Seq(T)
  BY <1>2, <1>5, SeqDef
<1>7. \A i \in 1..m : Fine(t[i], o, b)
  <2> TAKE i \in 1..m
  <2>1. t[i] = s[(m - i) + 1]
    BY <1>3
  <2>2. QED
    BY <1>1, <1>4, <2>1 DEF m
<1>8. Len(t) = m
  <2> DEFINE l == Len(t)
  <2>1. l \in Nat /\ DOMAIN t = 1..l
    BY <1>6, LenProperties
  <2>2. DOMAIN t = 1..m
    BY <1>3
  <2> HIDE DEF l
  <2>3. l = m
    BY <1>2, <2>1, <2>2
  <2>4. QED
    BY <2>3 DEF l
<1>9. QED
  BY <1>6, <1>7, <1>8 DEF AllFine, T, t

\* Whatever a handler answers may be a reply.
LEMMA AnswerFine ==
    ASSUME NEW t \in Request, NEW o, NEW b,
           AllFine(inbox, o, b), saved \in Position, o = 0 => saved \in b
    PROVE  AllFine(Answer(t), o, b)
<1>1. t.type \in Byte
  BY DEF Request
<1>2. CASE t.type = UpdateGame
  <2>1. Answer(t) = Reverse(inbox)
    BY <1>2 DEF Answer, UpdateGame, LoadPosition, ServerInfo, LevelList, PlayerList,
                SignOn, UpdateSelf, Message, SavePosition
  <2>2. QED
    BY <2>1, ReverseFine
<1>3. CASE t.type = LoadPosition
  <2>1. Answer(t) = IF AllowTeleport THEN <<LoadReply(saved)>> ELSE <<>>
    BY <1>3 DEF Answer, UpdateGame, LoadPosition, ServerInfo, LevelList, PlayerList,
                SignOn, UpdateSelf, Message, SavePosition
  <2>2. /\ LoadReply(saved) \in Seq(Byte) /\ LoadReply(saved)[1] = LoadPosition
        /\ Len(LoadReply(saved)) \in 1..(Limit - 1)
    BY <1>1, <1>3, LoadReplyType
  <2>3. Fine(LoadReply(saved), o, b)
    BY <2>2 DEF Fine
  <2>4. QED
    BY <2>1, <2>2, <2>3, OneFine, NoneFine
<1>4. CASE t.type \in {ServerInfo, LevelList, PlayerList}
  <2>1. Answer(t) = << <<t.type>> >>
    BY <1>4 DEF Answer, UpdateGame, LoadPosition, ServerInfo, LevelList, PlayerList,
                SignOn, UpdateSelf, Message, SavePosition
  <2>2. <<t.type>> \in Seq(Byte) /\ Len(<<t.type>>) = 1 /\ <<t.type>>[1] = t.type
    BY <1>1, OneIs
  <2>3. t.type # LoadPosition
    BY <1>4 DEF LoadPosition, ServerInfo, LevelList, PlayerList
  <2>4. 1 \in 1..(Limit - 1)
    BY BaseLimit, ByteFacts
  <2>5. Fine(<<t.type>>, o, b)
    BY <2>2, <2>3, <2>4 DEF Fine
  <2>6. QED
    BY <2>1, <2>2, <2>5, OneFine
<1>5. CASE t.type \in {SignOn, UpdateSelf, Message, SavePosition}
  <2>1. Answer(t) = <<>>
    BY <1>5 DEF Answer, UpdateGame, LoadPosition, ServerInfo, LevelList, PlayerList,
                SignOn, UpdateSelf, Message, SavePosition
  <2>2. QED
    BY <2>1, NoneFine
<1>6. CASE /\ t.type # UpdateGame /\ t.type # LoadPosition
           /\ t.type \notin {ServerInfo, LevelList, PlayerList}
           /\ t.type \notin {SignOn, UpdateSelf, Message, SavePosition}
  <2>1. Answer(t) = <<GoAway>>
    BY <1>6 DEF Answer
  <2>2. GoAway \in Seq(Byte) /\ Len(GoAway) \in 1..(Limit - 1) /\ GoAway[1] # LoadPosition
    <3>1. GoAway \in Seq(Byte) /\ GoAway # <<>> /\ GoAway[1] # LoadPosition /\ Len(GoAway) < Limit
      BY LinkAssumption DEF Limit
    <3>2. Len(GoAway) \in Nat \ {0} /\ Limit \in Nat
      BY <3>1, EmptySeq, BaseLimit
    <3>3. QED
      BY <3>1, <3>2
  <2>3. Fine(GoAway, o, b)
    BY <2>2 DEF Fine
  <2>4. QED
    BY <2>1, <2>2, <2>3, OneFine
<1>7. QED
  BY <1>2, <1>3, <1>4, <1>5, <1>6

\* The chat message that comes back to its sender is fine.
LEMMA ChatFine ==
    ASSUME NEW t \in Request, Len(t.text) < Half, t.type = Message, NEW o, NEW b
    PROVE  /\ ChatReply(t.text) \in Seq(Byte) /\ ChatReply(t.text)[1] = Message
           /\ Fine(ChatReply(t.text), o, b)
<1>1. t.text \in Seq(Byte) /\ Message \in Byte
  BY DEF Request
<1>2. /\ ChatReply(t.text) \in Seq(Byte) /\ ChatReply(t.text)[1] = Message
      /\ Len(ChatReply(t.text)) \in 1..(Limit - 1)
  BY <1>1, ChatReplyType
<1>3. Message # LoadPosition
  BY DEF Message, LoadPosition
<1>4. QED
  BY <1>2, <1>3 DEF Fine

\* The stream of one more reply.
LEMMA OnStreamAppend ==
    ASSUME NEW as \in Seq(Seq(Byte)), \A k \in 1..Len(as) : Len(as[k]) < Limit,
           NEW a \in Seq(Byte), Len(a) < Limit
    PROVE  OnStream(Append(as, a)) = OnStream(as) \o AddSizeByte(a)
<1> DEFINE T == Seq(Byte)
           bs == Append(as, a)
           m == Len(as)
           p == SizedReplies(as)
           q == SizedReplies(bs)
<1>0. as \in Seq(T) /\ a \in T
  OBVIOUS
<1> HIDE DEF T
<1>1. /\ bs \in Seq(T) /\ Len(bs) = m + 1 /\ m \in Nat
      /\ \A i \in 1..m : bs[i] = as[i]
  <2> HIDE DEF p, q
  <2>1. bs \in Seq(T)
    BY <1>0, AppendProperties
  <2>2. Len(bs) = m + 1
    BY <1>0, AppendProperties
  <2>3. \A i \in 1..m : bs[i] = as[i]
    BY <1>0, AppendProperties
  <2>4. m \in Nat
    BY <1>0, LenProperties
  <2> HIDE DEF bs, m
  <2>5. QED
    BY <2>1, <2>2, <2>3, <2>4
<1>2. bs[m + 1] = a
  BY <1>0, AppendProperties
<1>3. DOMAIN as = 1..m /\ DOMAIN bs = 1..(m + 1)
  BY <1>0, <1>1, LenProperties
<1>4. p \in Seq(T) /\ Len(p) = m
  BY SizedRepliesType DEF T
<1>5. AddSizeByte(a) \in T
  BY Sized DEF T
<1>6. p = [i \in 1..m |-> AddSizeByte(as[i])] /\ q = [i \in 1..(m + 1) |-> AddSizeByte(bs[i])]
  BY <1>3 DEF SizedReplies
<1> HIDE DEF bs, m, p, q
<1>7. q = Append(p, AddSizeByte(a))
  <2>1. /\ Append(p, AddSizeByte(a)) \in Seq(T) /\ Len(Append(p, AddSizeByte(a))) = m + 1
        /\ \A i \in 1..m : Append(p, AddSizeByte(a))[i] = p[i]
        /\ Append(p, AddSizeByte(a))[m + 1] = AddSizeByte(a)
    <3>1. /\ Append(p, AddSizeByte(a)) \in Seq(T)
          /\ Len(Append(p, AddSizeByte(a))) = Len(p) + 1
          /\ \A i \in 1..Len(p) : Append(p, AddSizeByte(a))[i] = p[i]
          /\ Append(p, AddSizeByte(a))[Len(p) + 1] = AddSizeByte(a)
      BY <1>4, <1>5, AppendProperties
    <3>2. QED
      BY <1>4, <3>1
  <2> DEFINE r == Append(p, AddSizeByte(a))
  <2>2. r \in Seq(T) /\ Len(r) = m + 1
    BY <2>1
  <2>3. ASSUME NEW i \in 1..(m + 1) PROVE r[i] = q[i]
    <3>1. CASE i = m + 1
      <4>1. q[i] = AddSizeByte(a)
        BY <1>2, <1>6, <3>1
      <4>2. QED
        BY <2>1, <3>1, <4>1
    <3>2. CASE i # m + 1
      <4>1. i \in 1..m
        BY <1>1, <3>2
      <4>2. r[i] = p[i] /\ p[i] = AddSizeByte(as[i]) /\ bs[i] = as[i]
        BY <1>1, <1>6, <2>1, <4>1
      <4>3. q[i] = AddSizeByte(bs[i])
        BY <1>6
      <4>4. QED
        BY <4>2, <4>3
    <3>3. QED
      BY <3>1, <3>2
  <2> HIDE DEF r
  <2>4. DOMAIN r = 1..(m + 1)
    BY <2>2, LenProperties
  <2>5. r = [i \in 1..(m + 1) |-> r[i]]
    BY <2>2, <2>4
  <2>6. r = q
    BY <1>6, <2>3, <2>5
  <2>7. QED
    BY <2>6 DEF r
<1>8. FlattenSeq(q) = FlattenSeq(p) \o AddSizeByte(a)
  BY <1>4, <1>5, <1>7, FlattenAppend DEF T
<1>9. QED
  BY <1>8 DEF OnStream, SizedReplies, p, q, bs

----------------------------------------------------------------------------
(* The requests that end within a read. *)

\* As many requests end within the first n bytes as Ended counts: their lengths
\* add up to n at most.
LEMMA EndedWithin ==
    ASSUME unread \in Seq(Requests), NEW n \in Nat
    PROVE  LET k == Ended(n)
           IN  /\ k \in 0..Len(unread)
               /\ Len(FlattenSeq([i \in 1..k |-> Encode(unread[i])])) \in Nat
               /\ Len(FlattenSeq([i \in 1..k |-> Encode(unread[i])])) <= n
<1> DEFINE m == Len(unread)
           p == Encodes(unread)
           F(k) == Len(FlattenSeq([i \in 1..k |-> Encode(unread[i])]))
           E == {k \in 1..m : F(k) <= n}
<1>1. m \in Nat /\ DOMAIN unread = 1..m
  BY LenProperties
<1>2. p \in Seq(Seq(Byte)) /\ Len(p) = m /\ \A i \in 1..m : p[i] = Encode(unread[i])
  BY EncodesType
<1>3. Ended(n) = Cardinality(E)
  BY <1>1 DEF Ended
<1> HIDE DEF p
<1>4. ASSUME NEW k \in 0..m
      PROVE  F(k) = Len(FlattenSeq(SubSeq(p, 1, k))) /\ F(k) \in Nat
  <2>1. \A i \in 1..k : i \in 1..m
    BY <1>1
  <2>2. \A i \in 1..k : p[i] \in Seq(Byte) /\ p[i] = Encode(unread[i])
    BY <1>2, <2>1, ElementOfSeq
  <2> DEFINE t == SubSeq(p, 1, k)
             u == [i \in 1..k |-> Encode(unread[i])]
  <2>3. t = [i \in 1..k |-> p[i]]
    <3>1. 1 \in Int /\ k \in Int
      BY <1>1
    <3>2. /\ t \in Seq(Seq(Byte)) /\ Len(t) = IF 1 <= k THEN k - 1 + 1 ELSE 0
          /\ \A i \in 1..(k - 1 + 1) : t[i] = p[1 + i - 1]
      BY <2>2, <3>1, SubSeqProperties
    <3>3. Len(t) = k /\ \A i \in 1..k : t[i] = p[i]
      <4> HIDE DEF t
      <4>1. k \in Nat
        BY <1>1
      <4>2. QED
        BY <3>2, <4>1
    <3>4. DOMAIN t = 1..k
      <4> HIDE DEF t
      <4>1. QED
        BY <3>2, <3>3, LenProperties
    <3>5. t = [i \in 1..k |-> t[i]]
      <4> HIDE DEF t
      <4>1. QED
        BY <3>2, <3>4
    <3> HIDE DEF t
    <3>6. QED
      BY <3>3, <3>5
  <2>4. t = u
    BY <2>2, <2>3
  <2>5. t \in Seq(Seq(Byte))
    BY <2>2, SubSeqProperties
  <2> HIDE DEF t, u
  <2>6. FlattenSeq(t) \in Seq(Byte)
    BY <2>5, FlattenType
  <2>7. Len(FlattenSeq(t)) \in Nat
    BY <2>6, LenProperties
  <2>8. QED
    BY <2>4, <2>7 DEF t, u
<1>5. CASE E = {}
  <2>1. Ended(n) = 0
    BY <1>3, <1>5, FS_EmptySet
  <2>2. F(0) \in Nat /\ F(0) <= n
    <3>1. 0 \in 0..m
      BY <1>1
    <3>2. SubSeq(p, 1, 0) = <<>>
      BY SubSeqEmpty
    <3>3. F(0) = 0
      BY <1>4, <3>1, <3>2, FlattenEmpty
    <3>4. QED
      BY <3>3
  <2>3. QED
    BY <1>1, <2>1, <2>2
<1>6. CASE E # {}
  <2> DEFINE G(k) == F(k)
  <2>1. PICK g \in E : \A j \in E : j <= g
    <3>1. E \in SUBSET (1..m)
      OBVIOUS
    <3> HIDE DEF E, m
    <3>2. QED
      BY <1>1, <1>6, <3>1, GreatestIndex
  <2>2. g \in 1..m /\ g \in 0..m /\ F(g) <= n
    BY <1>1, <2>1
  <2>3. ASSUME NEW k \in 1..g PROVE k \in E
    <3> DEFINE t == SubSeq(p, 1, g)
               off == [j \in 0..Len(t) |-> Len(FlattenSeq(SubSeq(t, 1, j)))]
    <3>1. t \in Seq(Seq(Byte)) /\ Len(t) = g
      <4>1. \A i \in 1..g : i \in 1..m
        BY <1>1, <2>2
      <4>2. \A i \in 1..g : p[i] \in Seq(Byte)
        BY <1>2, <4>1, ElementOfSeq
      <4>3. t \in Seq(Seq(Byte)) /\ Len(t) = IF 1 <= g THEN g - 1 + 1 ELSE 0
        <5>1. 1 \in Int /\ g \in Int
          BY <1>1, <2>2
        <5>2. QED
          BY <4>2, <5>1, SubSeqProperties
      <4> HIDE DEF t, E, m, F
      <4>4. Len(t) = g
        BY <1>1, <2>2, <4>3
      <4>5. QED
        BY <4>3, <4>4
    <3>2. Chunks(t, off, FlattenSeq(t))
      <4>1. off = [j \in 0..Len(t) |-> Len(FlattenSeq(SubSeq(t, 1, j)))]
        OBVIOUS
      <4> HIDE DEF off, t
      <4>2. QED
        BY <3>1, <4>1, FlattenChunks
    <3>3. SubSeq(t, 1, k) = SubSeq(p, 1, k)
      <4>1. 1 \in 1..Len(p) /\ g \in 1..Len(p) /\ 1 \in 1..(g - 1 + 1) /\ k \in 1..(g - 1 + 1)
            /\ 1 + 1 - 1 = 1 /\ 1 + k - 1 = k
        <5> HIDE DEF E, F, m
        <5>1. QED
          BY <1>1, <1>2, <2>2
      <4> DEFINE T == Seq(Byte)
      <4>2. p \in Seq(T)
        BY <1>2
      <4> HIDE DEF T, E, F, m, t
      <4>3. SubSeq(SubSeq(p, 1, g), 1, k) = SubSeq(p, 1 + 1 - 1, 1 + k - 1)
        BY <4>1, <4>2, SubSeqOfSubSeq
      <4>4. QED
        BY <4>1, <4>3 DEF t
    <3>4. off[k] <= Len(FlattenSeq(t)) /\ off[k] = Len(FlattenSeq(SubSeq(p, 1, k)))
      <4>1. k \in 1..Len(t) /\ k \in 0..Len(t)
        <5> HIDE DEF t, off, E, F, m
        <5>1. QED
          BY <1>1, <2>2, <3>1
      <4>2. off[k] = Len(FlattenSeq(SubSeq(t, 1, k)))
        BY <4>1
      <4> HIDE DEF off, t
      <4>3. off[k] <= Len(FlattenSeq(t))
        BY <3>2, <4>1 DEF Chunks
      <4>4. QED
        BY <3>3, <4>2, <4>3
    <3>5. k \in 1..m /\ k \in 0..m
      <4> HIDE DEF E, F, m
      <4>1. QED
        BY <1>1, <2>2
    <3>6. F(k) <= F(g) /\ F(k) \in Nat /\ F(g) \in Nat
      <4>1. F(k) = Len(FlattenSeq(SubSeq(p, 1, k))) /\ F(g) = Len(FlattenSeq(SubSeq(p, 1, g)))
            /\ F(k) \in Nat /\ F(g) \in Nat
        BY <1>4, <2>2, <3>5
      <4> HIDE DEF F, off
      <4>2. QED
        BY <3>4, <4>1
    <3> HIDE DEF F
    <3>7. F(k) <= n
      BY <2>2, <3>6
    <3>8. QED
      BY <3>5, <3>7
  <2>4. E = 1..g
    <3>1. \A k \in E : k \in 1..g
      <4>1. \A k \in E : k \in 1..m
        OBVIOUS
      <4> HIDE DEF E, F, m
      <4>2. QED
        BY <1>1, <2>1, <2>2, <4>1
    <3> HIDE DEF E
    <3>2. QED
      BY <2>3, <3>1
  <2>5. Cardinality(E) = g
    <3>1. 1 \in Int /\ g \in Int /\ g \in Nat \ {0}
      BY <1>1, <2>2
    <3>2. Cardinality(1..g) = IF 1 > g THEN 0 ELSE g - 1 + 1
      BY <3>1, FS_Interval
    <3>3. Cardinality(1..g) = g
      BY <3>1, <3>2
    <3> HIDE DEF E
    <3>4. QED
      BY <2>4, <3>3
  <2>6. F(g) \in Nat
    BY <1>4, <2>2
  <2> HIDE DEF E, F, m
  <2>7. Ended(n) = g
    BY <1>3, <2>5
  <2>8. QED
    BY <2>2, <2>6, <2>7 DEF F, m
<1>7. QED
  BY <1>5, <1>6

----------------------------------------------------------------------------
(* The invariant, and the handlers *)

\* The invariant, over what may be a reply.
LEMMA RepliesFine ==
    ASSUME LinkTypeOK
    PROVE  /\ InboxInv <=> /\ AllFine(inbox, odd, been)
                           /\ \A i \in 1..Len(inbox) : inbox[i][1] = Message
           /\ RepliesInv <=> AllFine(replies, odd, been)
           /\ AnswersInv <=> AllFine(answers, odd, been)
<1>1. /\ inbox \in Seq(Seq(Byte)) /\ DOMAIN inbox = 1..Len(inbox)
      /\ replies \in Seq(Seq(Byte)) /\ DOMAIN replies = 1..Len(replies)
      /\ answers \in Seq(Seq(Byte)) /\ DOMAIN answers = 1..Len(answers)
  BY LenProperties DEF LinkTypeOK
<1>2. \A a : ReplyInv(a) <=> Fine(a, odd, been)
  BY DEF ReplyInv, Fine, Limit
<1>3. QED
  BY <1>1, <1>2 DEF InboxInv, RepliesInv, AnswersInv, AllFine

\* The same after a step.
LEMMA RepliesFineNext ==
    ASSUME LinkTypeOK'
    PROVE  /\ InboxInv' <=> /\ AllFine(inbox', odd', been')
                            /\ \A i \in 1..Len(inbox') : inbox'[i][1] = Message
           /\ RepliesInv' <=> AllFine(replies', odd', been')
           /\ AnswersInv' <=> AllFine(answers', odd', been')
<1>1. /\ inbox' \in Seq(Seq(Byte)) /\ DOMAIN inbox' = 1..Len(inbox')
      /\ replies' \in Seq(Seq(Byte)) /\ DOMAIN replies' = 1..Len(replies')
      /\ answers' \in Seq(Seq(Byte)) /\ DOMAIN answers' = 1..Len(answers')
  BY LenProperties DEF LinkTypeOK
<1>2. \A a : ReplyInv(a)' <=> Fine(a, odd', been')
  BY DEF ReplyInv, Fine, Limit
<1>3. QED
  BY <1>1, <1>2 DEF InboxInv, RepliesInv, AnswersInv, AllFine, ReplyInv, Fine, Limit

\* A handler keeps positions positions, and what may be a reply.
LEMMA HandleKeeps ==
    ASSUME LinkTypeOK, InboxInv, odd = 0 => saved \in been,
           NEW t \in Request, Len(t.text) < Half, t.vars \in Seq(SoundVariable), Handle(t)
    PROVE  /\ pos' \in Position /\ saved' \in Position
           /\ AllFine(inbox', odd, been)
           /\ \A i \in 1..Len(inbox') : inbox'[i][1] = Message
           /\ AllFine(replies', odd, been)
<1>1. AllFine(inbox, odd, been) /\ \A i \in 1..Len(inbox) : inbox[i][1] = Message
  BY RepliesFine
<1>2. pos \in Position /\ saved \in Position
  BY DEF LinkTypeOK
<1>3. pos' \in Position
  BY <1>2, MovedType DEF Handle
<1>4. saved' \in Position
  BY <1>2 DEF Handle, Teleport
<1>5. AllFine(replies', odd, been)
  <2>1. replies' = Answer(t)
    BY DEF Handle
  <2>2. AllFine(Answer(t), odd, been)
    BY <1>1, <1>2, AnswerFine
  <2>3. QED
    BY <2>1, <2>2
<1>6. AllFine(inbox', odd, been) /\ \A i \in 1..Len(inbox') : inbox'[i][1] = Message
  <2>1. CASE t.type = UpdateGame
    <3>1. inbox' = <<>>
      BY <2>1 DEF Handle, UpdateGame, Message
    <3>2. \A i \in 1..Len(<<>>) : <<>>[i][1] = Message
      OBVIOUS
    <3>3. QED
      BY <3>1, <3>2, NoneFine
  <2>2. CASE t.type = Message
    <3> DEFINE c == ChatReply(t.text)
               T == Seq(Byte)
    <3>1. inbox' = Append(inbox, c)
      BY <2>2 DEF Handle, UpdateGame, Message
    <3>2. c \in Seq(Byte) /\ c[1] = Message /\ Fine(c, odd, been)
      BY <2>2, ChatFine
    <3> HIDE DEF c
    <3>3. AllFine(Append(inbox, c), odd, been)
      BY <1>1, <3>2, MoreFine
    <3>4. inbox \in Seq(T) /\ c \in T
      BY <3>2 DEF LinkTypeOK
    <3> HIDE DEF T
    <3> DEFINE u == Append(inbox, c)
               m == Len(inbox)
    <3>5. Len(u) = m + 1 /\ \A i \in 1..m : u[i] = inbox[i]
      BY <3>4, AppendProperties
    <3>6. u[m + 1] = c
      BY <3>4, AppendProperties
    <3>7. m \in Nat
      BY <3>4, LenProperties
    <3> HIDE DEF u, m
    <3>8. ASSUME NEW i \in 1..Len(u) PROVE u[i][1] = Message
      <4>1. i \in 1..m \/ i = m + 1
        BY <3>5, <3>7
      <4>2. CASE i \in 1..m
        <5>1. u[i] = inbox[i]
          BY <3>5, <4>2
        <5>2. inbox[i][1] = Message
          BY <1>1, <4>2 DEF m
        <5>3. QED
          BY <5>1, <5>2
      <4>3. CASE i = m + 1
        BY <3>2, <3>6, <4>3
      <4>4. QED
        BY <4>1, <4>2, <4>3
    <3>9. QED
      BY <3>1, <3>3, <3>8 DEF u
  <2>3. CASE t.type # UpdateGame /\ t.type # Message
    <3>1. inbox' = inbox
      BY <2>3 DEF Handle
    <3>2. QED
      BY <1>1, <3>1
  <2>4. QED
    BY <2>1, <2>2, <2>3
<1>7. QED
  BY <1>3, <1>4, <1>5, <1>6

----------------------------------------------------------------------------
(* The inductive invariant *)

\* The invariant holds when a client has signed on.
LEMMA LinkInitInv == LinkInit => LinkInv
<1> SUFFICES ASSUME LinkInit PROVE LinkInv
  OBVIOUS
<1> USE DEF LinkInit
<1>1. Spawn \in Position /\ SendRoom \in Nat
  BY LinkAssumption
<1>2. buffer \in [1..(BufferSize + 4) -> Byte]
  BY LinkAssumption
<1>3. heard \in [taken : Request, first : Seq(Requests), whole : BOOLEAN]
  <2>1. SignedOn \in Request
    <3>1. 0 \in Byte
      BY BitIsByte
    <3>2. QED
      BY <3>1 DEF SignedOn, Request, SignOn
  <2>2. QED
    BY <2>1
<1>4. LinkTypeOK
  <2>1. unread \in Seq(Requests) /\ skip \in Nat /\ nSent \in Nat /\ odd \in Nat
    BY EmptySeq
  <2>2. mine \in Position /\ been \in SUBSET Position /\ pos \in Position /\ saved \in Position
    <3>1. mine = Spawn /\ been = {Spawn} /\ pos = Spawn /\ saved = Spawn
      OBVIOUS
    <3> HIDE DEF LinkInit
    <3>2. mine \in Position /\ pos \in Position /\ saved \in Position
      BY <1>1, <3>1
    <3>3. been \in SUBSET Position
      BY <1>1, <3>1
    <3>4. QED
      BY <3>2, <3>3
  <2>3. /\ inbox \in Seq(Seq(Byte)) /\ replies \in Seq(Seq(Byte)) /\ answers \in Seq(Seq(Byte))
        /\ writes \in Seq([reply : Seq(Byte), done : Nat]) /\ wire \in Seq(Byte \cup {Stale})
    BY EmptySeq
  <2>4. room \in 0..SendRoom /\ late \in BOOLEAN
    <3>1. late = FALSE /\ room = SendRoom
      OBVIOUS
    <3> HIDE DEF LinkInit
    <3>2. SendRoom \in 0..SendRoom
      BY <1>1
    <3>3. QED
      BY <3>1, <3>2, Zenon
  <2>5. QED
    BY <1>2, <1>3, <2>1, <2>2, <2>3, <2>4 DEF LinkTypeOK
<1>5. InboxInv /\ RepliesInv /\ AnswersInv
  BY DEF InboxInv, RepliesInv, AnswersInv
<1>6. PositionInv
  <2> DEFINE p == [k \in 0..Len(unread) |-> Spawn]
  <2>1. Len(unread) = 0 /\ p[0] = Spawn /\ DOMAIN unread = {}
    OBVIOUS
  <2>2. p \in [0..Len(unread) -> been]
    OBVIOUS
  <2>3. p[0] = pos /\ p[Len(unread)] = mine
    BY <2>1
  <2> HIDE DEF p
  <2>4. OnItsWay
    BY <2>1, <2>2, <2>3 DEF OnItsWay
  <2>5. QED
    BY <2>4 DEF PositionInv
<1>7. WritesInv
  BY DEF WritesInv
<1>8. WireInv
  <2>1. OnStream(<<>>) = <<>>
    <3>1. [i \in DOMAIN <<>> |-> AddSizeByte(<<>>[i])] = <<>>
      OBVIOUS
    <3>2. QED
      BY <3>1, FlattenEmpty DEF OnStream
  <2>2. QED
    BY <2>1 DEF WireInv
<1>9. QED
  BY <1>4, <1>5, <1>6, <1>7, <1>8 DEF LinkInv

\* A request more is on its way: the game has reported one position more.
LEMMA PeerSendsKeeps ==
    ASSUME LinkInv, NEW r \in Requests, PeerSends(r)
    PROVE  LinkInv'
<1> USE DEF PeerSends, readVars, writeVars
<1>1. LinkTypeOK
  BY DEF LinkInv
<1>2. r.vars \in Seq(SoundVariable)
  BY RequestFacts
<1>3. mine' \in Position
  BY <1>1, <1>2, MovedType DEF LinkTypeOK
<1> DEFINE m == Len(unread)
<1>4. /\ unread' \in Seq(Requests) /\ Len(unread') = m + 1
      /\ \A i \in 1..m : unread'[i] = unread[i]
  BY <1>1, AppendProperties DEF LinkTypeOK
<1>5. unread'[m + 1] = r
  BY <1>1, AppendProperties DEF LinkTypeOK
<1>6. LinkTypeOK'
  BY <1>1, <1>3, <1>4 DEF LinkTypeOK
<1>7. been \subseteq been' /\ mine' \in been'
  OBVIOUS
<1>8. InboxInv' /\ RepliesInv' /\ AnswersInv'
  <2>1. /\ AllFine(inbox, odd, been) /\ \A i \in 1..Len(inbox) : inbox[i][1] = Message
        /\ AllFine(replies, odd, been) /\ AllFine(answers, odd, been)
    BY <1>1, RepliesFine DEF LinkInv
  <2>2. /\ AllFine(inbox, odd, been') /\ AllFine(replies, odd, been')
        /\ AllFine(answers, odd, been')
    BY <1>7, <2>1, AllFineStays
  <2>3. /\ AllFine(inbox', odd', been') /\ \A i \in 1..Len(inbox') : inbox'[i][1] = Message
        /\ AllFine(replies', odd', been') /\ AllFine(answers', odd', been')
    BY <2>1, <2>2
  <2>4. QED
    BY <1>6, <2>3, RepliesFineNext
<1>9. PositionInv'
  <2> SUFFICES ASSUME odd = 0 PROVE skip = 0 /\ saved \in been' /\ OnItsWay'
    BY DEF PositionInv
  <2>1. skip = 0 /\ saved \in been /\ OnItsWay
    BY DEF LinkInv, PositionInv
  <2>2. PICK p \in [0..m -> been] :
           /\ p[0] = pos /\ p[m] = mine
           /\ \A k \in DOMAIN unread : p[k] = Moved(p[k - 1], unread[k].vars)
    BY <2>1 DEF OnItsWay
  <2>3. m \in Nat /\ DOMAIN unread = 1..m /\ DOMAIN unread' = 1..(m + 1)
    BY <1>1, <1>4, LenProperties DEF LinkTypeOK
  <2> HIDE DEF m
  <2> DEFINE q == [k \in 0..(m + 1) |-> IF k = m + 1 THEN mine' ELSE p[k]]
  <2>4. \A k \in 0..m : k # m + 1 /\ k \in 0..(m + 1) /\ q[k] = p[k]
    BY <2>3
  <2>5. q[m + 1] = mine'
    BY <2>3
  <2>6. q \in [0..(m + 1) -> been']
    <3>1. ASSUME NEW k \in 0..(m + 1), k # m + 1 PROVE p[k] \in been'
      <4>1. k \in 0..m
        BY <2>3, <3>1
      <4>2. QED
        BY <1>7, <4>1
    <3>2. QED
      BY <1>7, <3>1
  <2> HIDE DEF q
  <2>7. q[0] = pos'
    <3>1. 0 \in 0..m
      BY <2>3
    <3>2. QED
      BY <2>2, <2>4, <3>1
  <2>8. ASSUME NEW k \in 1..(m + 1) PROVE q[k] = Moved(q[k - 1], unread'[k].vars)
    <3>1. CASE k = m + 1
      <4>1. k - 1 = m /\ m \in 0..m
        BY <2>3, <3>1
      <4>2. q[k - 1] = mine
        BY <2>2, <2>4, <4>1
      <4>3. q[k] = Moved(mine, r.vars)
        BY <2>5, <3>1
      <4>4. QED
        BY <1>5, <3>1, <4>2, <4>3 DEF m
    <3>2. CASE k # m + 1
      <4>1. k \in 1..m /\ k \in 0..m /\ k - 1 \in 0..m
        BY <2>3, <3>2
      <4>2. p[k] = Moved(p[k - 1], unread[k].vars)
        BY <2>2, <2>3, <4>1
      <4>3. unread'[k] = unread[k]
        BY <1>4, <4>1 DEF m
      <4>4. q[k] = p[k] /\ q[k - 1] = p[k - 1]
        BY <2>4, <4>1
      <4>5. QED
        BY <4>2, <4>3, <4>4
    <3>3. QED
      BY <3>1, <3>2
  <2>9. OnItsWay'
    <3>1. Len(unread') = m + 1
      BY <1>4 DEF m
    <3>2. \A k \in DOMAIN unread' : q[k] = Moved(q[k - 1], unread'[k].vars)
      BY <2>3, <2>8
    <3>3. q \in [0..Len(unread') -> been'] /\ q[Len(unread')] = mine'
      BY <2>5, <2>6, <3>1
    <3>4. QED
      BY <2>7, <3>2, <3>3 DEF OnItsWay
  <2>10. QED
    BY <1>7, <2>1, <2>9
<1>10. WritesInv' /\ WireInv'
  BY DEF LinkInv, WritesInv, WireInv, OnStream
<1>11. QED
  BY <1>6, <1>8, <1>9, <1>10 DEF LinkInv

\* The peer makes room.
LEMMA PeerReadsKeeps ==
    ASSUME LinkInv, PeerReads
    PROVE  LinkInv'
<1> USE DEF PeerReads, readVars, peerVars
<1>1. LinkTypeOK
  BY DEF LinkInv
<1>2. room' \in 0..SendRoom
  BY <1>1, LinkAssumption DEF LinkTypeOK, Least
<1>3. LinkTypeOK'
  BY <1>1, <1>2 DEF LinkTypeOK
<1>4. QED
  BY <1>3 DEF LinkInv, InboxInv, RepliesInv, AnswersInv, ReplyInv, PositionInv, OnItsWay,
              WritesInv, WireInv, OnStream

\* What the handlers of a read need of the invariant, and give.
LEMMA HandlerKeeps ==
    ASSUME LinkInv, NEW n \in Nat, n <= Len(Available), n <= BufferSize,
           Handle(Taken(Fill(n), n))
    PROVE  /\ Taken(Fill(n), n) \in Request
           /\ Fill(n) \in [1..(BufferSize + 4) -> Byte]
           /\ pos' \in Position /\ saved' \in Position
           /\ inbox' \in Seq(Seq(Byte)) /\ replies' \in Seq(Seq(Byte))
           /\ AllFine(inbox', odd, been)
           /\ \A i \in 1..Len(inbox') : inbox'[i][1] = Message
           /\ AllFine(replies', odd, been) /\ AllFine(answers, odd, been)
<1>1. LinkTypeOK /\ InboxInv /\ AnswersInv /\ (odd = 0 => saved \in been)
  BY DEF LinkInv, PositionInv
<1>2. /\ unread \in Seq(Requests) /\ skip \in Nat
      /\ buffer \in [1..(BufferSize + 4) -> Byte]
  BY <1>1 DEF LinkTypeOK
<1> DEFINE t == Taken(Fill(n), n)
<1>3. t \in Request /\ Len(t.text) < Half /\ t.vars \in Seq(SoundVariable)
  BY <1>2, FillTaken
<1>4. Fill(n) \in [1..(BufferSize + 4) -> Byte]
  BY <1>2, FillType
<1> HIDE DEF t
<1>5. /\ pos' \in Position /\ saved' \in Position
      /\ AllFine(inbox', odd, been)
      /\ \A i \in 1..Len(inbox') : inbox'[i][1] = Message
      /\ AllFine(replies', odd, been)
  <2>1. Handle(t)
    BY DEF t
  <2>2. QED
    BY <1>1, <1>3, <2>1, HandleKeeps
<1>6. AllFine(answers, odd, been)
  BY <1>1, RepliesFine
<1>7. QED
  BY <1>3, <1>4, <1>5, <1>6 DEF AllFine, t

\* A whole request: the position moves on to the one reported next, and only the
\* position before it can be saved.
LEMMA ReadWholeKeeps ==
    ASSUME LinkInv, ReadWhole
    PROVE  LinkInv'
<1> DEFINE r == Head(unread)
           n == Len(Encode(r))
           t == Taken(Fill(n), n)
<1>1. LinkTypeOK
  BY DEF LinkInv
<1>2. /\ unread \in Seq(Requests) /\ skip \in Nat
      /\ buffer \in [1..(BufferSize + 4) -> Byte]
  BY <1>1 DEF LinkTypeOK
<1>3. /\ unread # <<>> /\ skip = 0 /\ n <= BufferSize /\ buffer' = Fill(n)
      /\ heard' = [taken |-> Taken(buffer', n), first |-> <<r>>, whole |-> TRUE]
      /\ Handle(heard'.taken)
      /\ unread' = Tail(unread)
      /\ UNCHANGED <<skip, nSent, mine, been, odd, writes, wire, room, answers, late>>
  BY DEF ReadWhole, writeVars
<1>4. r \in Requests /\ n \in Nat
  BY <1>2, <1>3, HeadTailProperties, RequestFacts
<1>5. n <= Len(Available)
  <2>1. Begins(Sent, Encode(r)) /\ Available = Sent
    BY <1>2, <1>3, SentBegins, SentType
  <2>2. QED
    BY <2>1 DEF Begins
<1>6. heard' = [taken |-> t, first |-> <<r>>, whole |-> TRUE] /\ Handle(t)
  BY <1>3
<1>7. \E rest \in Seq(SoundVariable) : t.vars = r.vars \o rest /\ rest = <<>>
  <2>1. n <= n
    BY <1>4
  <2>2. QED
    BY <1>2, <1>3, <1>4, <1>5, <2>1, FillHears
<1>8. t.vars = r.vars
  <2>1. r.vars \in Seq(SoundVariable)
    BY <1>4, RequestFacts
  <2>2. r.vars \o <<>> = r.vars
    BY <2>1, ConcatEmptySeq
  <2>3. QED
    BY <1>7, <2>2
<1> HIDE DEF n
<1>9. /\ t \in Request /\ Fill(n) \in [1..(BufferSize + 4) -> Byte]
      /\ pos' \in Position /\ saved' \in Position
      /\ inbox' \in Seq(Seq(Byte)) /\ replies' \in Seq(Seq(Byte))
      /\ AllFine(inbox', odd, been)
      /\ \A i \in 1..Len(inbox') : inbox'[i][1] = Message
      /\ AllFine(replies', odd, been) /\ AllFine(answers, odd, been)
  BY <1>3, <1>4, <1>5, <1>6, HandlerKeeps
<1> DEFINE m == Len(unread)
<1>10. /\ unread' \in Seq(Requests) /\ Len(unread') = m - 1 /\ m \in Nat \ {0}
       /\ \A i \in 1..(m - 1) : unread'[i] = unread[i + 1]
  <2>1. /\ unread' \in Seq(Requests) /\ Len(unread') = Len(unread) - 1
        /\ \A i \in 1..Len(unread') : unread'[i] = unread[i + 1]
    BY <1>2, <1>3, HeadTailProperties
  <2>2. Len(unread) \in Nat \ {0}
    BY <1>2, <1>3, EmptySeq
  <2>3. QED
    BY <2>1, <2>2
<1> HIDE DEF t
<1>11. heard' \in [taken : Request, first : Seq(Requests), whole : BOOLEAN]
  <2>1. <<r>> \in Seq(Requests)
    BY <1>4
  <2>2. QED
    BY <1>6, <1>9, <2>1
<1>12. LinkTypeOK'
  BY <1>1, <1>3, <1>9, <1>10, <1>11 DEF LinkTypeOK
<1>13. InboxInv' /\ RepliesInv' /\ AnswersInv'
  <2>1. /\ AllFine(inbox', odd', been') /\ AllFine(replies', odd', been')
        /\ AllFine(answers', odd', been')
    BY <1>3, <1>9
  <2>2. QED
    BY <1>9, <1>12, <2>1, RepliesFineNext
<1>14. PositionInv'
  <2> SUFFICES ASSUME odd = 0 PROVE skip = 0 /\ saved' \in been /\ OnItsWay'
    BY <1>3 DEF PositionInv
  <2>1. saved \in been /\ OnItsWay
    BY DEF LinkInv, PositionInv
  <2>2. PICK p \in [0..m -> been] :
           /\ p[0] = pos /\ p[m] = mine
           /\ \A k \in DOMAIN unread : p[k] = Moved(p[k - 1], unread[k].vars)
    BY <2>1 DEF OnItsWay
  <2>3. DOMAIN unread = 1..m /\ DOMAIN unread' = 1..(m - 1)
    BY <1>2, <1>10, LenProperties
  <2>4. pos' = p[1]
    <3>1. pos' = Moved(pos, r.vars)
      BY <1>6, <1>8 DEF Handle
    <3>2. r = unread[1]
      BY <1>2, <1>3, EmptySeq DEF Head
    <3>3. 1 \in 1..m /\ 1 - 1 = 0
      BY <1>10
    <3>4. p[1] = Moved(p[1 - 1], unread[1].vars)
      BY <2>2, <2>3, <3>3
    <3> HIDE DEF r
    <3>5. p[1] = Moved(p[0], r.vars)
      BY <3>2, <3>3, <3>4
    <3>6. QED
      BY <2>2, <3>1, <3>5
  <2>5. saved' \in been
    <3>1. saved' = pos \/ saved' = saved
      BY <1>6 DEF Handle, Teleport
    <3>2. 0 \in 0..m
      BY <1>10
    <3>3. pos \in been
      BY <2>2, <3>2
    <3>4. QED
      BY <2>1, <3>1, <3>3
  <2> HIDE DEF m
  <2> DEFINE q == [k \in 0..(m - 1) |-> p[k + 1]]
  <2>6. \A k \in 0..(m - 1) : k + 1 \in 0..m /\ q[k] = p[k + 1]
    BY <1>10
  <2>7. q \in [0..(m - 1) -> been]
    BY <2>6
  <2> HIDE DEF q
  <2>8. q[0] = pos' /\ q[m - 1] = mine
    <3>1. 0 \in 0..(m - 1) /\ m - 1 \in 0..(m - 1) /\ (m - 1) + 1 = m /\ 0 + 1 = 1
      BY <1>10
    <3>2. q[0] = p[0 + 1] /\ q[m - 1] = p[(m - 1) + 1]
      BY <2>6, <3>1
    <3>3. QED
      BY <2>2, <2>4, <3>1, <3>2
  <2>9. ASSUME NEW k \in 1..(m - 1) PROVE q[k] = Moved(q[k - 1], unread'[k].vars)
    <3>1. /\ k \in 0..(m - 1) /\ k - 1 \in 0..(m - 1) /\ k + 1 \in 1..m
          /\ (k - 1) + 1 = k /\ (k + 1) - 1 = k
      BY <1>10
    <3>2. q[k] = p[k + 1] /\ q[k - 1] = p[(k - 1) + 1]
      BY <2>6, <3>1
    <3>3. p[k + 1] = Moved(p[(k + 1) - 1], unread[k + 1].vars)
      BY <2>2, <2>3, <3>1
    <3>4. unread'[k] = unread[k + 1]
      BY <1>10
    <3>5. QED
      BY <3>1, <3>2, <3>3, <3>4
  <2>10. OnItsWay'
    <3>1. Len(unread') = m - 1 /\ mine' = mine /\ been' = been
      BY <1>3, <1>10 DEF m
    <3>2. \A k \in DOMAIN unread' : q[k] = Moved(q[k - 1], unread'[k].vars)
      BY <2>3, <2>9 DEF m
    <3>3. q \in [0..Len(unread') -> been'] /\ q[Len(unread')] = mine'
      BY <2>7, <2>8, <3>1
    <3>4. QED
      BY <2>8, <3>2, <3>3 DEF OnItsWay
  <2>11. QED
    BY <1>3, <2>5, <2>10
<1>15. WritesInv' /\ WireInv'
  BY <1>3 DEF LinkInv, WritesInv, WireInv, OnStream
<1>16. QED
  BY <1>12, <1>13, <1>14, <1>15 DEF LinkInv

\* Any other bytes: nothing is said of the position any more.
LEMMA ReadOddKeeps ==
    ASSUME LinkInv, NEW n \in 1..BufferSize, ReadOdd(n)
    PROVE  LinkInv'
<1> DEFINE k == Ended(skip + n)
           before == Len(FlattenSeq([i \in 1..k |-> Encode(unread[i])]))
           t == Taken(Fill(n), n)
<1>1. LinkTypeOK
  BY DEF LinkInv
<1>2. /\ unread \in Seq(Requests) /\ skip \in Nat /\ odd \in Nat
      /\ buffer \in [1..(BufferSize + 4) -> Byte]
  BY <1>1 DEF LinkTypeOK
<1>3. /\ n \in 1..Len(Available) /\ n <= BufferSize
      /\ odd' = odd + 1
      /\ buffer' = Fill(n)
      /\ \E first : /\ \/ first = <<>>
                       \/ skip = 0 /\ Len(Encode(Head(unread))) <= n /\ first = <<Head(unread)>>
                    /\ heard' = [taken |-> t, first |-> first, whole |-> FALSE]
      /\ Handle(t)
      /\ unread' = SubSeq(unread, k + 1, Len(unread))
      /\ skip' = skip + n - before
      /\ UNCHANGED <<nSent, mine, been, writes, wire, room, answers, late>>
  <2>1. /\ n \in 1..Len(Available) /\ n <= BufferSize
        /\ odd' = odd + 1
        /\ buffer' = Fill(n)
        /\ unread' = SubSeq(unread, k + 1, Len(unread))
        /\ skip' = skip + n - before
        /\ UNCHANGED <<nSent, mine, been, writes, wire, room, answers, late>>
    BY DEF ReadOdd, writeVars
  <2> HIDE DEF k, before
  <2>2. /\ heard' = [taken |-> t,
                     first |-> IF skip = 0 /\ Len(Encode(Head(unread))) <= n
                               THEN <<Head(unread)>> ELSE <<>>,
                     whole |-> FALSE]
        /\ Handle(heard'.taken)
    BY DEF ReadOdd
  <2> HIDE DEF t
  <2>3. Handle(t)
    BY <2>2
  <2>4. QED
    BY <2>1, <2>2, <2>3
<1>4. n \in Nat /\ n <= Len(Available)
  <2>1. Available \in Seq(Byte)
    BY <1>2, SentType
  <2>2. Len(Available) \in Nat
    BY <2>1, LenProperties
  <2>3. n \in Nat
    BY LinkAssumption
  <2>4. QED
    BY <1>3, <2>2, <2>3
<1>5. /\ t \in Request /\ Fill(n) \in [1..(BufferSize + 4) -> Byte]
      /\ pos' \in Position /\ saved' \in Position
      /\ inbox' \in Seq(Seq(Byte)) /\ replies' \in Seq(Seq(Byte))
      /\ AllFine(inbox', odd, been)
      /\ \A i \in 1..Len(inbox') : inbox'[i][1] = Message
      /\ AllFine(replies', odd, been) /\ AllFine(answers, odd, been)
  BY <1>3, <1>4, HandlerKeeps
<1>6. unread # <<>>
  <2>1. CASE unread = <<>>
    <3>1. [i \in DOMAIN <<>> |-> Encode((<<>>)[i])] = <<>>
      OBVIOUS
    <3>2. Sent = <<>>
      BY <2>1, <3>1, FlattenEmpty DEF Sent
    <3>3. Available = <<>>
      <4>1. Len(<<>>) = 0
        OBVIOUS
      <4>2. skip + 1 \in Int /\ Len(Sent) \in Int /\ skip + 1 > Len(Sent)
        BY <1>2, <3>2, <4>1
      <4>3. QED
        BY <4>2, SubSeqEmpty DEF Available
    <3>4. QED
      BY <1>3, <3>3
  <2>2. QED
    BY <2>1
<1> HIDE DEF t
<1>7. k \in 0..Len(unread) /\ before \in Nat /\ before <= skip + n
  <2>1. skip + n \in Nat
    BY <1>2, <1>4
  <2>2. QED
    BY <1>2, <2>1, EndedWithin
<1> HIDE DEF k, before
<1>8. unread' \in Seq(Requests) /\ skip' \in Nat /\ odd' \in Nat \ {0}
  <2>1. unread' \in Seq(Requests)
    <3> DEFINE l == Len(unread)
    <3>1. l \in Nat
      BY <1>2, LenProperties
    <3>2. k + 1 \in Int /\ l \in Int /\ \A j \in (k + 1)..l : j \in 1..l
      BY <1>7, <3>1
    <3>3. \A j \in (k + 1)..l : unread[j] \in Requests
      BY <1>2, <3>2, ElementOfSeq
    <3>4. SubSeq(unread, k + 1, l) \in Seq(Requests)
      BY <3>2, <3>3, SubSeqProperties
    <3>5. QED
      BY <1>3, <3>4
  <2>2. skip' \in Nat
    BY <1>2, <1>3, <1>4, <1>7
  <2>3. odd' \in Nat \ {0}
    BY <1>2, <1>3
  <2>4. QED
    BY <2>1, <2>2, <2>3
<1>9. heard' \in [taken : Request, first : Seq(Requests), whole : BOOLEAN]
  <2>1. PICK first :
           /\ \/ first = <<>>
              \/ skip = 0 /\ Len(Encode(Head(unread))) <= n /\ first = <<Head(unread)>>
           /\ heard' = [taken |-> t, first |-> first, whole |-> FALSE]
    BY <1>3
  <2>2. Head(unread) \in Requests
    BY <1>2, <1>6, HeadTailProperties
  <2>3. <<Head(unread)>> \in Seq(Requests) /\ <<>> \in Seq(Requests)
    BY <2>2
  <2>4. first \in Seq(Requests)
    BY <2>1, <2>3
  <2>5. QED
    BY <1>5, <2>1, <2>4
<1>10. LinkTypeOK'
  BY <1>1, <1>3, <1>5, <1>8, <1>9 DEF LinkTypeOK
<1>11. InboxInv' /\ RepliesInv' /\ AnswersInv'
  <2>1. been \subseteq been' /\ (odd' = 0 => odd = 0)
    BY <1>3, <1>8
  <2>2. /\ AllFine(inbox', odd', been') /\ AllFine(replies', odd', been')
        /\ AllFine(answers, odd', been')
    BY <1>5, <2>1, AllFineStays
  <2>3. AllFine(answers', odd', been')
    BY <1>3, <2>2
  <2>4. QED
    BY <1>5, <1>10, <2>2, <2>3, RepliesFineNext
<1>12. PositionInv'
  BY <1>8 DEF PositionInv
<1>13. WritesInv' /\ WireInv'
  BY <1>3 DEF LinkInv, WritesInv, WireInv, OnStream
<1>14. QED
  BY <1>10, <1>11, <1>12, <1>13 DEF LinkInv

----------------------------------------------------------------------------
(* do_write: the writes that are not finished *)

\* Bytes on the socket.
OnWire == Byte \cup {Stale}

\* A write that was started.
Write == [reply : Seq(Byte), done : Nat]

\* What is written of a reply are bytes on the socket.
LEMMA SocketType ==
    ASSUME NEW w \in Seq(OnWire), NEW s \in Seq(Byte)
    PROVE  w \o s \in Seq(OnWire)
<1>1. s \in Seq(OnWire)
  <2>1. Len(s) \in Nat /\ s \in [1..Len(s) -> Byte]
    BY LenProperties
  <2>2. Byte \subseteq OnWire
    BY DEF OnWire
  <2> HIDE DEF OnWire
  <2>3. s \in [1..Len(s) -> OnWire]
    BY <2>1, <2>2
  <2>4. QED
    BY <2>1, <2>3, SeqDef
<1> HIDE DEF OnWire
<1>2. QED
  BY <1>1, ConcatProperties

\* So is what is written of memory that was freed.
LEMMA StaleType ==
    ASSUME NEW w \in Seq(OnWire), NEW k \in Nat
    PROVE  w \o [j \in 1..k |-> Stale] \in Seq(OnWire)
<1> DEFINE s == [j \in 1..k |-> Stale]
<1>1. s \in [1..k -> OnWire]
  BY DEF OnWire
<1> HIDE DEF s, OnWire
<1>2. s \in Seq(OnWire)
  BY <1>1, SeqDef
<1>3. w \o s \in Seq(OnWire)
  BY <1>2, ConcatProperties
<1>4. QED
  BY <1>3 DEF s

\* What was written of a reply.
LEMMA BeginningType ==
    ASSUME NEW s \in Seq(Byte), NEW k \in 0..Len(s)
    PROVE  /\ SubSeq(s, 1, k) \in Seq(Byte)
           /\ k = Len(s) => SubSeq(s, 1, k) = s
<1> DEFINE l == Len(s)
<1>1. l \in Nat
  BY LenProperties
<1>2. 1 \in Int /\ k \in Int /\ \A j \in 1..k : j \in 1..l
  BY <1>1
<1>3. \A j \in 1..k : s[j] \in Byte
  BY <1>2, ElementOfSeq
<1>4. SubSeq(s, 1, k) \in Seq(Byte)
  BY <1>2, <1>3, SubSeqProperties
<1>5. QED
  BY <1>4, SubSeqFull

\* A write that is not finished.
Unfinished(ws) == ws \in Seq(Write) /\ \A i \in 1..Len(ws) : ws[i].done < Len(ws[i].reply)

\* A write more that is not finished.
LEMMA UnfinishedMore ==
    ASSUME NEW ws, Unfinished(ws), NEW w \in Write, w.done < Len(w.reply)
    PROVE  Unfinished(Append(ws, w))
<1> DEFINE m == Len(ws)
           u == Append(ws, w)
<1>1. ws \in Seq(Write) /\ \A i \in 1..m : ws[i].done < Len(ws[i].reply)
  BY DEF Unfinished
<1> HIDE DEF Write
<1>2. m \in Nat
  BY <1>1, LenProperties
<1>3. u \in Seq(Write)
  BY <1>1, AppendProperties
<1>4. Len(u) = m + 1
  BY <1>1, AppendProperties
<1>5. \A i \in 1..m : u[i] = ws[i]
  BY <1>1, AppendProperties
<1>6. u[m + 1] = w
  BY <1>1, AppendProperties
<1> HIDE DEF m, u
<1>7. ASSUME NEW i \in 1..Len(u) PROVE u[i].done < Len(u[i].reply)
  <2>1. i \in 1..m \/ i = m + 1
    BY <1>2, <1>4
  <2>2. QED
    BY <1>1, <1>5, <1>6, <2>1
<1>8. QED
  BY <1>3, <1>7 DEF Unfinished, u

\* A write that goes on and is not finished.
LEMMA UnfinishedOn ==
    ASSUME NEW ws, Unfinished(ws), NEW i \in 1..Len(ws), NEW k \in Nat,
           ws[i].done + k < Len(ws[i].reply)
    PROVE  Unfinished([ws EXCEPT ![i].done = @ + k])
<1> DEFINE m == Len(ws)
           u == [ws EXCEPT ![i].done = @ + k]
           w == [ws[i] EXCEPT !.done = @ + k]
<1>1. ws \in Seq(Write) /\ \A j \in 1..m : ws[j].done < Len(ws[j].reply)
  BY DEF Unfinished
<1>2. m \in Nat /\ ws \in [1..m -> Write]
  <2> HIDE DEF Write
  <2>1. QED
    BY <1>1, LenProperties
<1>3. ws[i] \in Write
  BY <1>2
<1>4. w \in Write /\ w.done < Len(w.reply)
  <2>1. w.done = ws[i].done + k /\ w.reply = ws[i].reply
    BY <1>3 DEF Write
  <2>2. w \in Write
    BY <1>3 DEF Write
  <2>3. QED
    BY <2>1, <2>2
<1>5. u = [ws EXCEPT ![i] = w]
  OBVIOUS
<1> HIDE DEF w, Write
<1>6. u \in [1..m -> Write]
  BY <1>2, <1>4, <1>5
<1>7. \A j \in 1..m : u[j] = IF j = i THEN w ELSE ws[j]
  BY <1>2, <1>5
<1> HIDE DEF u
<1>8. u \in Seq(Write)
  BY <1>2, <1>6, SeqDef
<1> DEFINE l == Len(u)
<1>9. l \in Nat /\ 1..l = 1..m
  <2>1. l \in Nat /\ DOMAIN u = 1..l
    BY <1>8, LenProperties
  <2>2. DOMAIN u = 1..m
    BY <1>6
  <2>3. QED
    BY <2>1, <2>2
<1> HIDE DEF l
<1>10. \A j \in 1..l : u[j].done < Len(u[j].reply)
  BY <1>1, <1>4, <1>7, <1>9
<1>11. QED
  BY <1>8, <1>10 DEF Unfinished, u, l

\* A write less.
LEMMA UnfinishedLess ==
    ASSUME NEW ws, Unfinished(ws), NEW i \in 1..Len(ws)
    PROVE  Unfinished(RemoveAt(ws, i))
<1> DEFINE m == Len(ws)
           a == SubSeq(ws, 1, i - 1)
           b == SubSeq(ws, i + 1, m)
           u == a \o b
           la == Len(a)
           lb == Len(b)
<1>1. ws \in Seq(Write) /\ \A j \in 1..m : ws[j].done < Len(ws[j].reply)
  BY DEF Unfinished
<1> HIDE DEF Write
<1>2. m \in Nat /\ i \in 1..m /\ \A j \in 1..m : ws[j] \in Write
  BY <1>1, LenProperties, ElementOfSeq
<1>3. u = RemoveAt(ws, i)
  BY DEF RemoveAt
<1> HIDE DEF m
<1>4. /\ \A j \in 1..(i - 1) : j \in 1..m
      /\ \A j \in (i + 1)..m : j \in 1..m
      /\ 1 \in Int /\ i - 1 \in Int /\ i + 1 \in Int /\ m \in Int
  BY <1>2
<1>5. /\ a \in Seq(Write) /\ Len(a) = IF 1 <= i - 1 THEN (i - 1) - 1 + 1 ELSE 0
      /\ \A j \in 1..((i - 1) - 1 + 1) : a[j] = ws[1 + j - 1]
  <2>1. \A j \in 1..(i - 1) : ws[j] \in Write
    BY <1>2, <1>4
  <2>2. QED
    BY <1>4, <2>1, SubSeqProperties
<1>6. /\ b \in Seq(Write) /\ Len(b) = IF i + 1 <= m THEN m - (i + 1) + 1 ELSE 0
      /\ \A j \in 1..(m - (i + 1) + 1) : b[j] = ws[(i + 1) + j - 1]
  <2>1. \A j \in (i + 1)..m : ws[j] \in Write
    BY <1>2, <1>4
  <2>2. QED
    BY <1>4, <2>1, SubSeqProperties
<1>7. u \in Seq(Write)
  BY <1>5, <1>6, ConcatProperties
<1>8. Len(u) = la + lb
  BY <1>5, <1>6, ConcatProperties
<1>9. \A j \in 1..(la + lb) : u[j] = IF j <= la THEN a[j] ELSE b[j - la]
  BY <1>5, <1>6, ConcatProperties
<1> HIDE DEF a, b, u, la, lb
<1>10. la = i - 1 /\ lb = m - i
  BY <1>2, <1>5, <1>6 DEF la, lb
<1>11. ASSUME NEW j \in 1..Len(u) PROVE u[j].done < Len(u[j].reply)
  <2>1. CASE j <= la
    <3>1. u[j] = a[j] /\ j \in 1..((i - 1) - 1 + 1) /\ 1 + j - 1 = j /\ j \in 1..m
      BY <1>2, <1>8, <1>9, <1>10, <2>1, SMTT(60)
    <3>2. u[j] = ws[j]
      BY <1>5, <3>1
    <3>3. QED
      BY <1>1, <3>1, <3>2 DEF m
  <2>2. CASE ~(j <= la)
    <3> DEFINE c == j - la
    <3>1. /\ u[j] = b[c] /\ c \in 1..(m - (i + 1) + 1)
          /\ (i + 1) + c - 1 \in 1..m
      BY <1>2, <1>8, <1>9, <1>10, <2>2
    <3> HIDE DEF c
    <3>2. u[j] = ws[(i + 1) + c - 1]
      BY <1>6, <3>1
    <3>3. QED
      BY <1>1, <3>1, <3>2 DEF m
  <2>3. QED
    BY <2>1, <2>2
<1>12. QED
  BY <1>3, <1>7, <1>11 DEF Unfinished

\* WritesInv, over Unfinished.
LEMMA WritesUnfinished ==
    ASSUME LinkTypeOK, WritesInv
    PROVE  Unfinished(writes) /\ DOMAIN writes = 1..Len(writes)
<1>1. writes \in Seq(Write)
  BY DEF LinkTypeOK, Write
<1>2. DOMAIN writes = 1..Len(writes)
  BY <1>1, LenProperties
<1>3. QED
  BY <1>1, <1>2 DEF Unfinished, WritesInv

\* The same after a step.
LEMMA UnfinishedNext ==
    ASSUME Unfinished(writes')
    PROVE  writes' \in Seq([reply : Seq(Byte), done : Nat]) /\ WritesInv'
<1>1. writes' \in Seq(Write)
  BY DEF Unfinished
<1>2. DOMAIN writes' = 1..Len(writes')
  BY <1>1, LenProperties
<1>3. QED
  BY <1>1, <1>2 DEF Unfinished, WritesInv, Write

\* A write is started: if it is finished at once, and all before it were, the
\* stream holds the reply behind those before it.
LEMMA DoWriteKeeps ==
    ASSUME LinkInv, DoWrite
    PROVE  LinkInv'
<1> DEFINE a == Head(replies)
           reply == AddSizeByte(a)
           l == Len(reply)
<1>1. LinkTypeOK /\ WritesInv /\ WireInv
  BY DEF LinkInv
<1>2. PICK k \in AtOnce(l) :
         /\ wire' = wire \o SubSeq(reply, 1, k)
         /\ room' = room - k
         /\ writes' = IF k = l THEN writes
                      ELSE Append(writes, [reply |-> reply, done |-> k])
         /\ late' = (late \/ k < l)
  BY DEF DoWrite
<1>3. /\ replies # <<>> /\ answers' = Append(answers, a) /\ replies' = Tail(replies)
      /\ UNCHANGED <<unread, skip, nSent, mine, been, buffer, heard, odd, pos, saved, inbox>>
  BY DEF DoWrite, peerVars, readVars
<1>4. /\ AllFine(inbox, odd, been) /\ \A i \in 1..Len(inbox) : inbox[i][1] = Message
      /\ AllFine(replies, odd, been) /\ AllFine(answers, odd, been)
  BY <1>1, RepliesFine DEF LinkInv
<1>5. AllFine(replies', odd, been) /\ a \in Seq(Byte) /\ Fine(a, odd, been)
  BY <1>3, <1>4, TailFine
<1>6. AllFine(answers', odd, been)
  BY <1>3, <1>4, <1>5, MoreFine
<1>7. Len(a) \in Nat /\ Len(a) < Limit
  <2>1. Len(a) \in 1..(Limit - 1) /\ Limit \in Nat
    BY <1>5, BaseLimit DEF Fine
  <2> HIDE DEF a
  <2>2. QED
    BY <2>1
<1>8. reply \in Seq(Byte) /\ l = 4 + Len(a)
  BY <1>5, <1>7, Sized
<1> HIDE DEF a
<1>9. l \in Nat
  BY <1>7, <1>8
<1> HIDE DEF reply
<1>10. room \in 0..SendRoom /\ SendRoom \in Nat /\ wire \in Seq(OnWire)
  BY <1>1, LinkAssumption DEF LinkTypeOK, OnWire
<1>11. k \in 0..l /\ room' \in 0..SendRoom /\ (writes = <<>> => k = Least(room, l))
  <2> HIDE DEF l
  <2>1. k = Least(room, l) \/ (writes # <<>> /\ k = 0)
    BY DEF AtOnce
  <2>2. QED
    BY <1>2, <1>9, <1>10, <2>1 DEF Least
<1>12. /\ SubSeq(reply, 1, k) \in Seq(Byte)
       /\ k = l => SubSeq(reply, 1, k) = reply
  BY <1>8, <1>11, BeginningType
<1>13. wire' \in Seq(Byte \cup {Stale})
  BY <1>2, <1>10, <1>12, SocketType DEF OnWire
<1>14. Unfinished(writes')
  <2>1. Unfinished(writes)
    BY <1>1, WritesUnfinished
  <2> DEFINE w == [reply |-> reply, done |-> k]
  <2>2. CASE k = l
    BY <1>2, <2>1, <2>2
  <2>3. CASE k # l
    <3>1. k \in Nat /\ k < l
      <4> HIDE DEF l
      <4>1. QED
        BY <1>9, <1>11, <2>3
    <3>2. w \in Write /\ w.done < Len(w.reply)
      BY <1>8, <3>1 DEF Write
    <3>3. writes' = Append(writes, w)
      BY <1>2, <2>3
    <3> HIDE DEF w
    <3>4. QED
      BY <2>1, <3>2, <3>3, UnfinishedMore
  <2>4. QED
    BY <2>2, <2>3
<1>15. writes' \in Seq([reply : Seq(Byte), done : Nat]) /\ WritesInv'
  BY <1>14, UnfinishedNext
<1>16. late' \in BOOLEAN
  BY <1>2
<1>17. LinkTypeOK'
  <2>1. replies' \in Seq(Seq(Byte)) /\ answers' \in Seq(Seq(Byte))
    BY <1>5, <1>6 DEF AllFine
  <2> HIDE DEF l
  <2>2. QED
    BY <1>1, <1>3, <1>11, <1>13, <1>15, <1>16, <2>1 DEF LinkTypeOK
<1>18. InboxInv' /\ RepliesInv' /\ AnswersInv'
  <2>1. /\ AllFine(inbox', odd', been') /\ \A i \in 1..Len(inbox') : inbox'[i][1] = Message
        /\ AllFine(replies', odd', been') /\ AllFine(answers', odd', been')
    BY <1>3, <1>4, <1>5, <1>6
  <2>2. QED
    BY <1>17, <2>1, RepliesFineNext
<1>19. PositionInv'
  BY <1>3 DEF LinkInv, PositionInv, OnItsWay
<1>20. WireInv'
  <2> SUFFICES ASSUME ~late' PROVE writes' = <<>> /\ wire' = OnStream(answers')
    BY DEF WireInv
  <2>1. ~late /\ ~(k < l)
    BY <1>2
  <2>2. writes = <<>> /\ wire = OnStream(answers)
    BY <1>1, <2>1 DEF WireInv
  <2>3. k = l
    <3> HIDE DEF l
    <3>1. QED
      BY <1>9, <1>11, <2>1
  <2>4. writes' = <<>> /\ wire' = OnStream(answers) \o reply
    BY <1>2, <1>12, <2>2, <2>3
  <2>5. answers \in Seq(Seq(Byte)) /\ \A j \in 1..Len(answers) : Len(answers[j]) < Limit
    <3>1. answers \in Seq(Seq(Byte)) /\ \A j \in 1..Len(answers) : Len(answers[j]) \in 1..(Limit - 1)
      BY <1>4 DEF AllFine, Fine
    <3>2. Limit \in Nat
      BY BaseLimit
    <3>3. ASSUME NEW j \in 1..Len(answers) PROVE Len(answers[j]) < Limit
      <4> DEFINE x == Len(answers[j])
      <4>1. x \in 1..(Limit - 1)
        BY <3>1
      <4> HIDE DEF x
      <4>2. x < Limit
        BY <3>2, <4>1
      <4>3. QED
        BY <4>2 DEF x
    <3>4. QED
      BY <3>1, <3>3
  <2>6. OnStream(Append(answers, a)) = OnStream(answers) \o reply
    BY <1>5, <1>7, <2>5, OnStreamAppend DEF reply
  <2>7. OnStream(answers') = wire'
    BY <1>3, <2>4, <2>6
  <2>8. QED
    BY <2>4, <2>7
<1>21. QED
  BY <1>15, <1>17, <1>18, <1>19, <1>20 DEF LinkInv

\* A write goes on: there is one only after a reply did not fit.
LEMMA WriteSomeKeeps ==
    ASSUME LinkInv, NEW i \in DOMAIN writes, WriteSome(i)
    PROVE  LinkInv'
<1> DEFINE d == writes[i].done
           l == Len(writes[i].reply)
           left == l - d
           k == Least(room, left)
<1>1. LinkTypeOK /\ WritesInv /\ WireInv
  BY DEF LinkInv
<1>2. /\ room > 0
      /\ wire' = wire \o [j \in 1..k |-> Stale]
      /\ room' = room - k
      /\ writes' = IF k = left THEN RemoveAt(writes, i)
                   ELSE [writes EXCEPT ![i].done = @ + k]
  BY DEF WriteSome
<1>3. UNCHANGED <<unread, skip, nSent, mine, been, buffer, heard, odd, pos, saved, inbox,
                  replies, answers, late>>
  BY DEF WriteSome, peerVars, readVars
<1>4. Unfinished(writes) /\ i \in 1..Len(writes)
  BY <1>1, WritesUnfinished
<1>5. d \in Nat /\ l \in Nat /\ d < l
  <2>1. writes \in Seq(Write) /\ d < l
    BY <1>4 DEF Unfinished
  <2>2. writes[i] \in Write
    <3> HIDE DEF Write
    <3>1. QED
      BY <1>4, <2>1, ElementOfSeq
  <2>3. d \in Nat /\ writes[i].reply \in Seq(Byte)
    BY <2>2 DEF Write
  <2>4. l \in Nat
    BY <2>3, LenProperties
  <2>5. QED
    BY <2>1, <2>3, <2>4
<1>6. room \in 0..SendRoom /\ SendRoom \in Nat /\ wire \in Seq(OnWire)
  BY <1>1, LinkAssumption DEF LinkTypeOK, OnWire
<1> DEFINE kk == k
<1>7. kk \in Nat /\ room - kk \in 0..SendRoom /\ (kk # left => d + kk < l)
  <2> HIDE DEF d, l
  <2>1. QED
    BY <1>2, <1>5, <1>6 DEF Least
<1> HIDE DEF kk
<1>8. wire' \in Seq(Byte \cup {Stale})
  <2>1. wire \o [j \in 1..kk |-> Stale] \in Seq(OnWire)
    BY <1>6, <1>7, StaleType
  <2>2. QED
    BY <1>2, <2>1 DEF kk, OnWire
<1>9. Unfinished(writes')
  <2>1. CASE kk = left
    <3>1. writes' = RemoveAt(writes, i)
      BY <1>2, <2>1 DEF kk
    <3>2. QED
      BY <1>4, <3>1, UnfinishedLess
  <2>2. CASE kk # left
    <3>1. writes' = [writes EXCEPT ![i].done = @ + kk]
      BY <1>2, <2>2 DEF kk
    <3>2. writes[i].done + kk < Len(writes[i].reply)
      BY <1>7, <2>2
    <3>3. QED
      BY <1>4, <1>7, <3>1, <3>2, UnfinishedOn
  <2>3. QED
    BY <2>1, <2>2
<1>10. writes' \in Seq([reply : Seq(Byte), done : Nat]) /\ WritesInv'
  BY <1>9, UnfinishedNext
<1>11. room' \in 0..SendRoom
  BY <1>2, <1>7 DEF kk
<1>12. LinkTypeOK'
  BY <1>1, <1>3, <1>8, <1>10, <1>11 DEF LinkTypeOK
<1>13. InboxInv' /\ RepliesInv' /\ AnswersInv'
  BY <1>3 DEF LinkInv, InboxInv, RepliesInv, AnswersInv, ReplyInv
<1>14. PositionInv'
  BY <1>3 DEF LinkInv, PositionInv, OnItsWay
<1>15. WireInv'
  <2>1. late
    <3>1. CASE ~late
      <4>1. writes = <<>>
        BY <1>1, <3>1 DEF WireInv
      <4>2. Len(writes) = 0
        BY <4>1
      <4>3. QED
        BY <1>4, <4>2
    <3>2. QED
      BY <3>1
  <2>2. QED
    BY <1>3, <2>1 DEF WireInv
<1>16. QED
  BY <1>10, <1>12, <1>13, <1>14, <1>15 DEF LinkInv

\* A step that changes nothing.
LEMMA LinkStutters ==
    ASSUME LinkInv, UNCHANGED linkVars
    PROVE  LinkInv'
BY DEF linkVars, peerVars, readVars, writeVars, LinkInv, LinkTypeOK, InboxInv, RepliesInv,
       AnswersInv, ReplyInv, PositionInv, OnItsWay, WritesInv, WireInv, OnStream

\* Every step keeps the invariant.
LEMMA LinkInvStep == LinkInv /\ [LinkNext]_linkVars => LinkInv'
<1> SUFFICES ASSUME LinkInv, [LinkNext]_linkVars PROVE LinkInv'
  OBVIOUS
<1>1. ASSUME NEW r \in Requests, PeerSends(r) PROVE LinkInv'
  BY <1>1, PeerSendsKeeps
<1>2. CASE PeerReads
  BY <1>2, PeerReadsKeeps
<1>3. CASE ReadWhole
  BY <1>3, ReadWholeKeeps
<1>4. ASSUME NEW n \in 1..BufferSize, ReadOdd(n) PROVE LinkInv'
  BY <1>4, ReadOddKeeps
<1>5. CASE DoWrite
  BY <1>5, DoWriteKeeps
<1>6. ASSUME NEW i \in DOMAIN writes, WriteSome(i) PROVE LinkInv'
  BY <1>6, WriteSomeKeeps
<1>7. CASE UNCHANGED linkVars
  BY <1>7, LinkStutters
<1>8. QED
  BY <1>1, <1>2, <1>3, <1>4, <1>5, <1>6, <1>7 DEF LinkNext

\* The inductive invariant of the two streams of a connection (do_read,
\* handle_request, do_write): LinkInv holds at every step.
THEOREM LinkInvAlways == LinkSpec => []LinkInv
BY LinkInitInv, LinkInvStep, PTL DEF LinkSpec

\* While every read is one whole request, a player is only sent back to a
\* position its game has reported as a whole (HandleSavePositionMessage,
\* HandleLoadPositionMessage).
THEOREM LoadedAlwaysReported == LinkSpec => []LoadedWasReported
<1>1. LinkInv => LoadedWasReported
  BY DEF LinkInv, AnswersInv, ReplyInv, LoadedWasReported
<1>2. QED
  BY <1>1, LinkInvAlways, PTL

\* While every reply fits the send buffer, the peer reads the replies off the
\* stream whole and in order (add_size_byte, do_write).
THEOREM RepliesAlwaysWhole == LinkSpec => []RepliesArriveWhole
<1>1. LinkInv => RepliesArriveWhole
  <2> SUFFICES ASSUME LinkInv, ~late PROVE RepliesOn(wire) = answers
    BY DEF RepliesArriveWhole
  <2>1. AllFine(answers, odd, been)
    BY RepliesFine DEF LinkInv
  <2>2. wire = FlattenSeq(SizedReplies(answers))
    BY DEF LinkInv, WireInv, OnStream, SizedReplies
  <2>3. answers \in Seq(Seq(Byte)) /\ \A j \in 1..Len(answers) : Len(answers[j]) < Limit
    <3>1. answers \in Seq(Seq(Byte)) /\ \A j \in 1..Len(answers) : Len(answers[j]) \in 1..(Limit - 1)
      BY <2>1 DEF AllFine, Fine
    <3>2. Limit \in Nat
      BY BaseLimit
    <3>3. ASSUME NEW j \in 1..Len(answers) PROVE Len(answers[j]) < Limit
      <4> DEFINE x == Len(answers[j])
      <4>1. x \in 1..(Limit - 1)
        BY <3>1
      <4> HIDE DEF x
      <4>2. x < Limit
        BY <3>2, <4>1
      <4>3. QED
        BY <4>2 DEF x
    <3>4. QED
      BY <3>1, <3>3
  <2>4. QED
    BY <2>2, <2>3, RepliesAreRead
<1>2. QED
  BY <1>1, LinkInvAlways, PTL

----------------------------------------------------------------------------
(* The first request of a read *)

\* What was heard of the request that a read begins with.
Hears(h, r) ==
    LET first == Expected(r)
    IN  /\ h.taken.type = first.type
        /\ h.taken.source = first.source /\ h.taken.text = first.text
        /\ IsPrefix(first.vars, h.taken.vars)
        /\ h.whole => h.taken = first

\* A sequence is a prefix of itself with more behind it.
LEMMA PrefixOf ==
    ASSUME NEW T, NEW s \in Seq(T), NEW t \in Seq(T)
    PROVE  IsPrefix(s, s \o t)
<1> DEFINE u == s \o t
           m == Len(s)
<1>1. m \in Nat /\ Len(t) \in Nat
  BY LenProperties
<1>2. u \in Seq(T)
  BY ConcatProperties
<1>3. Len(u) = m + Len(t)
  BY ConcatProperties
<1>4. \A i \in 1..m : u[i] = s[i]
  <2> TAKE i \in 1..m
  <2>1. i \in 1..(Len(s) + Len(t)) /\ i <= Len(s)
    BY <1>1
  <2>2. QED
    BY <2>1, ConcatProperties
<1> HIDE DEF u
<1>5. m <= Len(u)
  BY <1>1, <1>3
<1>6. SubSeq(s, 1, m) = s
  BY SubSeqFull
<1>7. SubSeq(u, 1, m) = s
  <2> DEFINE v == SubSeq(u, 1, m)
  <2>1. 1 \in Int /\ m \in Int /\ \A j \in 1..m : j \in 1..Len(u)
    BY <1>1, <1>3
  <2>2. \A j \in 1..m : u[j] \in T
    BY <1>2, <2>1, ElementOfSeq
  <2>3. /\ v \in Seq(T) /\ Len(v) = IF 1 <= m THEN m - 1 + 1 ELSE 0
        /\ \A j \in 1..(m - 1 + 1) : v[j] = u[1 + j - 1]
    BY <2>1, <2>2, SubSeqProperties
  <2> HIDE DEF v, m
  <2>4. Len(v) = m /\ \A j \in 1..m : v[j] = u[j]
    BY <1>1, <2>3, SMTT(60)
  <2>5. DOMAIN v = 1..m /\ DOMAIN s = 1..m
    BY <2>3, <2>4, LenProperties DEF m
  <2>6. \A j \in 1..m : v[j] = s[j]
    BY <1>4, <2>4
  <2>7. v = [j \in 1..m |-> v[j]] /\ s = [j \in 1..m |-> s[j]]
    <3>1. v \in [1..m -> T] /\ s \in [1..m -> T]
      BY <2>3, <2>4, LenProperties DEF m
    <3>2. QED
      BY <3>1
  <2>8. v = s
    BY <2>6, <2>7
  <2>9. QED
    BY <2>8 DEF v
<1>8. QED
  BY <1>5, <1>6, <1>7 DEF IsPrefix, u

\* A read that begins with a whole request is heard as that request.
LEMMA BeginsHeard ==
    ASSUME LinkInv, unread # <<>>, skip = 0,
           NEW n \in Nat, n <= Len(Available), n <= BufferSize,
           Len(Encode(Head(unread))) <= n,
           NEW whole \in BOOLEAN, whole => n = Len(Encode(Head(unread)))
    PROVE  Hears([taken |-> Taken(Fill(n), n), first |-> <<Head(unread)>>, whole |-> whole],
                 Head(unread))
<1> DEFINE t == Taken(Fill(n), n)
           r == Head(unread)
           e == Expected(r)
<1>1. /\ unread \in Seq(Requests) /\ skip \in Nat
      /\ buffer \in [1..(BufferSize + 4) -> Byte]
  BY DEF LinkInv, LinkTypeOK
<1>2. /\ t.type = r.type /\ t.source = e.source /\ t.text = e.text
      /\ \E rest \in Seq(SoundVariable) :
            t.vars = r.vars \o rest /\ (n = Len(Encode(r)) => rest = <<>>)
  BY <1>1, FillHears
<1>3. r \in Requests
  BY <1>1, HeadTailProperties
<1>4. t \in Request
  BY <1>1, FillTaken
<1> HIDE DEF t
<1>5. r \in Request /\ r.vars \in Seq(SoundVariable)
  BY <1>3, RequestFacts DEF WellFormed
<1> DEFINE same == n = Len(Encode(r))
<1>6. PICK rest \in Seq(SoundVariable) : t.vars = r.vars \o rest /\ (same => rest = <<>>)
  BY <1>2
<1>7. whole => same
  OBVIOUS
<1> HIDE DEF same, r
<1>8. /\ e.type = r.type /\ e.vars = r.vars
      /\ e = [type |-> r.type, source |-> e.source, text |-> e.text, vars |-> r.vars]
  <2> DEFINE so == IF Len(r.source) < Half THEN r.source ELSE <<>>
             te == IF Len(r.source) >= Half THEN StringAt(r.source, 1)
                   ELSE IF Len(r.text) < Half THEN r.text ELSE <<>>
  <2>1. e = [r EXCEPT !.source = so, !.text = te]
    BY DEF Expected
  <2> HIDE DEF e, so, te
  <2>2. QED
    BY <1>5, <2>1 DEF Request
<1>9. IsPrefix(r.vars, t.vars)
  BY <1>5, <1>6, PrefixOf
<1>10. whole => t = e
  <2> SUFFICES ASSUME whole PROVE t = e
    OBVIOUS
  <2>1. t.vars = r.vars
    BY <1>5, <1>6, <1>7, ConcatEmptySeq
  <2>2. t = [type |-> t.type, source |-> t.source, text |-> t.text, vars |-> t.vars]
    BY <1>4 DEF Request
  <2> HIDE DEF e
  <2>3. QED
    BY <1>2, <1>8, <2>1, <2>2 DEF r
<1>11. /\ t.type = e.type /\ t.source = e.source /\ t.text = e.text
       /\ IsPrefix(e.vars, t.vars)
  BY <1>2, <1>8, <1>9 DEF r
<1> HIDE DEF e
<1>12. QED
  BY <1>10, <1>11 DEF Hears, t, r, e

\* FirstIsHeard after a read, over Hears.
LEMMA FirstHeardNext ==
    ASSUME \/ heard'.first = <<>>
           \/ \E r : heard'.first = <<r>> /\ Hears(heard', r)
    PROVE  FirstIsHeard'
<1>1. CASE heard'.first = <<>>
  <2>1. DOMAIN heard'.first = {}
    BY <1>1, SMTT(60)
  <2>2. QED
    BY <2>1 DEF FirstIsHeard
<1>2. ASSUME NEW r, heard'.first = <<r>>, Hears(heard', r) PROVE FirstIsHeard'
  <2>1. DOMAIN heard'.first = {1} /\ heard'.first[1] = r
    BY <1>2
  <2>2. ASSUME NEW i \in DOMAIN heard'.first PROVE Hears(heard', heard'.first[i])
    BY <1>2, <2>1
  <2>3. QED
    BY <2>2 DEF FirstIsHeard, Hears, Expected
<1>3. QED
  BY <1>1, <1>2

\* Every step keeps FirstIsHeard: a read begins with a whole request or with none.
LEMMA FirstHeardStep ==
    ASSUME LinkInv, FirstIsHeard, [LinkNext]_linkVars
    PROVE  FirstIsHeard'
<1>1. CASE ReadWhole
  <2> DEFINE r == Head(unread)
             n == Len(Encode(r))
             h == [taken |-> Taken(Fill(n), n), first |-> <<r>>, whole |-> TRUE]
  <2>1. unread # <<>> /\ skip = 0 /\ n <= BufferSize /\ heard' = h
    BY <1>1 DEF ReadWhole
  <2>2. unread \in Seq(Requests) /\ skip \in Nat
    BY DEF LinkInv, LinkTypeOK
  <2>3. n \in Nat /\ n <= n /\ n <= Len(Available)
    <3>1. Begins(Sent, Encode(r)) /\ Available = Sent
      BY <2>1, <2>2, SentBegins, SentType
    <3>2. r \in Requests
      BY <2>1, <2>2, HeadTailProperties
    <3>3. n \in Nat
      BY <3>2, RequestFacts
    <3>4. QED
      BY <3>1, <3>3 DEF Begins
  <2>4. Hears(h, r)
    BY <2>1, <2>3, BeginsHeard
  <2>5. heard'.first = <<r>>
    BY <2>1
  <2> HIDE DEF h
  <2>6. QED
    BY <2>1, <2>4, <2>5, FirstHeardNext
<1>2. ASSUME NEW n \in 1..BufferSize, ReadOdd(n) PROVE FirstIsHeard'
  <2> DEFINE r == Head(unread)
             t == Taken(Fill(n), n)
             begins == skip = 0 /\ Len(Encode(r)) <= n
  <2>1. /\ n \in 1..Len(Available) /\ n <= BufferSize
        /\ heard' = [taken |-> t, first |-> IF begins THEN <<r>> ELSE <<>>, whole |-> FALSE]
    BY <1>2 DEF ReadOdd
  <2>2. unread \in Seq(Requests) /\ skip \in Nat
    BY DEF LinkInv, LinkTypeOK
  <2>3. n \in Nat /\ n <= Len(Available) /\ unread # <<>>
    <3>1. Available \in Seq(Byte) /\ Len(Available) \in Nat
      BY <2>2, SentType, LenProperties
    <3>2. n \in Nat /\ n <= Len(Available)
      BY <2>1, <3>1, LinkAssumption
    <3>3. CASE unread = <<>>
      <4>1. [i \in DOMAIN <<>> |-> Encode((<<>>)[i])] = <<>>
        OBVIOUS
      <4>2. Sent = <<>>
        BY <3>3, <4>1, FlattenEmpty DEF Sent
      <4>3. Available = <<>>
        <5>1. Len(<<>>) = 0
          OBVIOUS
        <5>2. skip + 1 \in Int /\ Len(Sent) \in Int /\ skip + 1 > Len(Sent)
          BY <2>2, <4>2, <5>1
        <5>3. QED
          BY <5>2, SubSeqEmpty DEF Available
      <4>4. QED
        BY <2>1, <4>3
    <3>4. QED
      BY <3>2, <3>3
  <2>4. CASE begins
    <3> DEFINE h == [taken |-> t, first |-> <<r>>, whole |-> FALSE]
    <3>1. skip = 0 /\ Len(Encode(Head(unread))) <= n
      BY <2>4
    <3>2. Hears(h, r)
      BY <2>1, <2>3, <3>1, BeginsHeard
    <3>3. heard' = h /\ heard'.first = <<r>>
      <4> HIDE DEF t, r
      <4>1. QED
        BY <2>1, <2>4
    <3> HIDE DEF h
    <3>4. QED
      BY <3>2, <3>3, FirstHeardNext
  <2>5. CASE ~begins
    <3>1. heard'.first = <<>>
      <4> HIDE DEF t, r
      <4>1. QED
        BY <2>1, <2>5
    <3>2. QED
      BY <3>1, FirstHeardNext
  <2>6. QED
    BY <2>4, <2>5
<1>3. CASE heard' = heard
  BY <1>3 DEF FirstIsHeard
<1>4. QED
  <2>1. CASE LinkNext
    <3>1. ASSUME NEW r \in Requests, PeerSends(r) PROVE heard' = heard
      BY <3>1 DEF PeerSends, readVars
    <3>2. PeerReads => heard' = heard
      BY DEF PeerReads, readVars
    <3>3. DoWrite => heard' = heard
      BY DEF DoWrite, readVars
    <3>4. ASSUME NEW i \in DOMAIN writes, WriteSome(i) PROVE heard' = heard
      BY <3>4 DEF WriteSome, readVars
    <3>5. QED
      BY <1>1, <1>2, <1>3, <2>1, <3>1, <3>2, <3>3, <3>4 DEF LinkNext
  <2>2. CASE UNCHANGED linkVars
    <3>1. heard' = heard
      BY <2>2 DEF linkVars, readVars
    <3>2. QED
      BY <1>3, <3>1
  <2>3. QED
    BY <2>1, <2>2

\* A read that begins with a whole request is taken for it, whatever the buffer
\* held before, but for strings whose length is no char (GetString).
THEOREM FirstAlwaysHeard == LinkSpec => []FirstIsHeard
<1>1. LinkInit => FirstIsHeard
  <2> SUFFICES ASSUME LinkInit PROVE FirstIsHeard
    OBVIOUS
  <2>1. heard.first = <<>>
    BY DEF LinkInit
  <2>2. DOMAIN heard.first = {}
    BY <2>1
  <2>3. QED
    BY <2>2 DEF FirstIsHeard
<1>2. LinkInv /\ FirstIsHeard /\ [LinkNext]_linkVars => FirstIsHeard'
  BY FirstHeardStep
<1>3. QED
  BY <1>1, <1>2, LinkInvAlways, PTL DEF LinkSpec
=============================================================================
