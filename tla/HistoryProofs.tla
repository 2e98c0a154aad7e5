---------------------------- MODULE HistoryProofs ----------------------------
(***************************************************************************)
(* The update history implements the feed, for any number of clients and   *)
(* variables and any size of the window.                                   *)
(***************************************************************************)
EXTENDS UpdateHistory, SequenceTheorems, TLAPS

----------------------------------------------------------------------------
(* Remainders of a modulus that is not a number *)

LEMMA MultipleBelow ==
    ASSUME NEW n \in Nat \ {0}, NEW d \in Int, n * d < n, n * d > -n
    PROVE  d = 0
<1>1. CASE d >= 1
  <2>1. n * d >= n
    BY <1>1
  <2>2. QED
    BY <2>1
<1>2. CASE d <= -1
  <2>1. n * d <= -n
    BY <1>2
  <2>2. QED
    BY <2>1
<1>3. QED
  BY <1>1, <1>2

LEMMA DivMod ==
    ASSUME NEW n \in Nat \ {0}, NEW x \in Int
    PROVE  /\ x % n \in 0..(n - 1) /\ x \div n \in Int
           /\ x = n * (x \div n) + (x % n)
OBVIOUS

LEMMA ModUnique ==
    ASSUME NEW n \in Nat \ {0}, NEW a \in Int, NEW b \in 0..(n - 1),
           NEW y \in Int, y = n * a + b
    PROVE  y % n = b
<1> DEFINE q == y \div n
           m == y % n
<1>1. m \in 0..(n - 1) /\ q \in Int /\ y = n * q + m
  BY DivMod
<1> HIDE DEF q, m
<1>2. n * (a - q) = m - b
  <2>1. n * (a - q) = n * a - n * q
    BY <1>1
  <2>2. QED
    BY <1>1, <2>1
<1>3. a - q = 0
  <2>1. n * (a - q) < n /\ n * (a - q) > -n /\ a - q \in Int
    BY <1>1, <1>2
  <2>2. QED
    BY <2>1, MultipleBelow
<1>4. m = b
  BY <1>1, <1>2, <1>3
<1>5. QED
  BY <1>4 DEF m

LEMMA ModNext ==
    ASSUME NEW n \in Nat \ {0}, NEW x \in Int
    PROVE  (x + 1) % n = IF (x % n) + 1 = n THEN 0 ELSE (x % n) + 1
<1> DEFINE q == x \div n
           m == x % n
<1>1. m \in 0..(n - 1) /\ q \in Int /\ x = n * q + m
  BY DivMod
<1> HIDE DEF q, m
<1>2. CASE m + 1 = n
  <2>1. n * (q + 1) = n * q + n
    BY <1>1
  <2>2. x + 1 = n * (q + 1) + 0
    BY <1>1, <1>2, <2>1
  <2>3. (x + 1) % n = 0
    BY <1>1, <2>2, ModUnique
  <2>4. QED
    BY <1>2, <2>3 DEF m
<1>3. CASE m + 1 # n
  <2>1. x + 1 = n * q + (m + 1)
    BY <1>1
  <2>2. (x + 1) % n = m + 1
    BY <1>1, <1>3, <2>1, ModUnique
  <2>3. QED
    BY <1>3, <2>2 DEF m
<1>4. QED
  BY <1>2, <1>3

----------------------------------------------------------------------------
(* The inductive invariant *)

\* A key counted down past 0 goes on at max_history.
Wrap(x) == IF x >= 0 THEN x ELSE x + (MaxHistory + 1)

\* Where the last update of a reader that lags g would be, less one.
Place(g) == g % (MaxHistory + 1)

LEMMA PlaceFacts ==
    /\ \A g \in Int : Place(g) \in 0..MaxHistory
    /\ \A g \in Nat : Place(g) <= g
    /\ \A g \in 0..MaxHistory : Place(g) = g
    /\ \A g \in Int : Place(g + 1) = IF Place(g) = MaxHistory THEN 0
                                     ELSE Place(g) + 1
<1> DEFINE n == MaxHistory + 1
<1>1. n \in Nat \ {0} /\ MaxHistory \in Nat
  BY HistoryAssumption
<1> HIDE DEF n
<1>2. \A g \in Int : g % n \in 0..(n - 1)
  BY <1>1, DivMod
<1>3. \A g \in 0..(n - 1) : g % n = g
  BY <1>1
<1>4. \A g \in Nat : g % n <= g
  <2>1. SUFFICES ASSUME NEW g \in Nat PROVE g % n <= g
    OBVIOUS
  <2>2. CASE g <= n - 1
    BY <1>1, <1>3, <2>2
  <2>3. CASE g > n - 1
    BY <1>1, <1>2, <2>3
  <2>4. QED
    BY <1>1, <2>2, <2>3
<1>5. \A g \in Int : (g + 1) % n = IF (g % n) + 1 = n THEN 0 ELSE (g % n) + 1
  BY <1>1, ModNext
<1>6. n - 1 = MaxHistory
  BY <1>1 DEF n
<1>7. \A g \in Int : (g % n) + 1 = n <=> g % n = MaxHistory
  BY <1>1, <1>2, <1>6
<1>8. \A g : Place(g) = g % n
  BY DEF Place, n
<1>9. QED
  BY <1>2, <1>3, <1>4, <1>5, <1>6, <1>7, <1>8

\* The i-th update of the window was published i updates ago.
WindowLaw(h, index) ==
    \A i \in DOMAIN h : h[i].key = Wrap(index - i)

\* What a reader's key k and its lag g say of each other and of the window.
ReaderLaw(h, index, k, g) ==
    /\ k = -1 => g = 0
    /\ k # -1 /\ g >= 0 => /\ k = Wrap(index - 1 - Place(g))
                           /\ g < Len(h) \/ Len(h) = MaxHistory
    /\ k # -1 /\ g < 0 => k = index - 1 - g /\ Len(h) = index

\* What a reader that lags g is owed of the updates behind its key: at least
\* the last g updates, as far as the window holds them, and no more while it
\* holds all of them.
OwedLaw(h, g, o) ==
    /\ \A y \in DOMAIN h : y <= g => h[y].types \subseteq o
    /\ g < MaxHistory =>
           \A v \in o : \E y \in DOMAIN h : y <= g /\ v \in h[y].types

\* The whole debt o: what is passed over (q) and what is behind the key.
Debt(h, g, o, q) == \E due \in SUBSET Var : OwedLaw(h, g, due) /\ o = q \cup due

HistoryInv ==
    /\ HistoryTypeOK
    /\ \A w \in Client : WindowLaw(history[w], historyIndex[w])
    /\ \A r, w \in Client :
          /\ ReaderLaw(history[w], historyIndex[w], keys[r][w], lag[r][w])
          /\ Debt(history[w], lag[r][w], owed[r][w], passed[r][w])

----------------------------------------------------------------------------
(* A publication (add_history) *)

LEMMA AddHistoryFacts ==
    ASSUME NEW h \in Seq(Entry), Len(h) <= MaxHistory,
           NEW index \in KeySpace, NEW T \in SUBSET Var
    PROVE  LET a == AddHistory(h, index, T)
           IN  /\ a \in Seq(Entry)
               /\ Len(a) = IF Len(h) < MaxHistory THEN Len(h) + 1 ELSE MaxHistory
               /\ a[1] = [key |-> index, types |-> T]
               /\ \A i \in DOMAIN a : i = 1 \/ (i - 1 \in DOMAIN h /\ a[i] = h[i - 1])
               /\ \A i \in DOMAIN h : i < MaxHistory =>
                     i + 1 \in DOMAIN a /\ a[i + 1] = h[i]
<1> DEFINE e == [key |-> index, types |-> T]
           longer == <<e>> \o h
<1>1. e \in Entry /\ <<e>> \in Seq(Entry) /\ Len(<<e>>) = 1 /\ <<e>>[1] = e
  BY DEF Entry
<1> HIDE DEF e
<1>2. /\ longer \in Seq(Entry) /\ Len(longer) = Len(h) + 1
      /\ \A i \in 1..(Len(h) + 1) : longer[i] = IF i <= 1 THEN e ELSE h[i - 1]
  <2>1. \A i \in 1..(1 + Len(h)) :
           longer[i] = IF i <= 1 THEN <<e>>[i] ELSE h[i - 1]
    BY <1>1, ConcatProperties
  <2>2. longer \in Seq(Entry) /\ Len(longer) = 1 + Len(h)
    BY <1>1, ConcatProperties
  <2>3. QED
    BY <1>1, <2>1, <2>2
<1> HIDE DEF longer
<1>3. MaxHistory \in Nat \ {0}
  BY HistoryAssumption
<1>4. AddHistory(h, index, T) = IF Len(longer) > MaxHistory
                                THEN SubSeq(longer, 1, MaxHistory) ELSE longer
  BY DEF AddHistory, longer, e
<1>5. DOMAIN h = 1..Len(h) /\ Len(h) \in Nat
  OBVIOUS
<1>6. CASE Len(longer) > MaxHistory
  <2>1. \A i \in 1..MaxHistory : longer[i] \in Entry
    BY <1>2, <1>3, <1>6
  <2>2. SubSeq(longer, 1, MaxHistory) = [i \in 1..MaxHistory |-> longer[i]]
    BY <1>2, <1>3, <1>6
  <2>3. QED
    BY <1>2, <1>3, <1>4, <1>5, <1>6, <2>1, <2>2 DEF e
<1>7. CASE ~(Len(longer) > MaxHistory)
  BY <1>2, <1>3, <1>4, <1>5, <1>7 DEF e
<1>8. QED
  BY <1>6, <1>7

LEMMA AddHistoryType ==
    ASSUME NEW h \in Seq(Entry), Len(h) <= MaxHistory,
           NEW index \in KeySpace, NEW T \in SUBSET Var
    PROVE  /\ AddHistory(h, index, T) \in Seq(Entry)
           /\ Len(AddHistory(h, index, T)) <= MaxHistory
<1>1. /\ AddHistory(h, index, T) \in Seq(Entry)
      /\ Len(AddHistory(h, index, T))
           = IF Len(h) < MaxHistory THEN Len(h) + 1 ELSE MaxHistory
  BY AddHistoryFacts
<1>2. Len(h) \in Nat /\ MaxHistory \in Nat
  BY HistoryAssumption
<1>3. QED
  BY <1>1, <1>2

LEMMA NextIndexFacts ==
    ASSUME NEW index \in KeySpace
    PROVE  /\ NextIndex(index) \in KeySpace
           /\ Wrap(NextIndex(index) - 1) = index
           /\ \A j \in 1..MaxHistory :
                 Wrap(NextIndex(index) - (j + 1)) = Wrap(index - j)
BY HistoryAssumption DEF NextIndex, KeySpace, Wrap

LEMMA PublishedWindow ==
    ASSUME NEW h \in Seq(Entry), Len(h) <= MaxHistory,
           NEW index \in KeySpace, NEW T \in SUBSET Var, WindowLaw(h, index)
    PROVE  WindowLaw(AddHistory(h, index, T), NextIndex(index))
<1> DEFINE a == AddHistory(h, index, T)
<1>1. /\ a[1] = [key |-> index, types |-> T]
      /\ \A i \in DOMAIN a : i = 1 \/ (i - 1 \in DOMAIN h /\ a[i] = h[i - 1])
      /\ DOMAIN a \subseteq Nat /\ DOMAIN h \subseteq 1..MaxHistory
  BY AddHistoryFacts, HistoryAssumption
<1> HIDE DEF a
<1>2. SUFFICES ASSUME NEW i \in DOMAIN a
               PROVE  a[i].key = Wrap(NextIndex(index) - i)
  BY DEF WindowLaw, a
<1>3. CASE i = 1
  BY <1>1, <1>3, NextIndexFacts
<1>4. CASE i # 1
  <2>1. i - 1 \in DOMAIN h /\ i - 1 \in 1..MaxHistory /\ a[i] = h[i - 1]
        /\ (i - 1) + 1 = i
    BY <1>1, <1>4
  <2>2. a[i].key = Wrap(index - (i - 1))
    BY <2>1 DEF WindowLaw
  <2>3. QED
    BY <2>1, <2>2, NextIndexFacts
<1>5. QED
  BY <1>3, <1>4

LEMMA PublishedReader ==
    ASSUME NEW h \in Seq(Entry), Len(h) <= MaxHistory,
           NEW index \in KeySpace, NEW T \in SUBSET Var,
           NEW k \in KeySpace \cup {-1}, NEW g \in Int,
           ReaderLaw(h, index, k, g)
    PROVE  ReaderLaw(AddHistory(h, index, T), NextIndex(index), k,
                     IF k # -1 THEN g + 1 ELSE g)
<1> DEFINE a == AddHistory(h, index, T)
<1>1. Len(a) = IF Len(h) < MaxHistory THEN Len(h) + 1 ELSE MaxHistory
  BY AddHistoryFacts
<1> HIDE DEF a
<1>2. MaxHistory \in Nat \ {0} /\ index \in 0..MaxHistory /\ Len(h) \in Nat
  BY HistoryAssumption DEF KeySpace
<1>3. CASE k = -1
  BY <1>3 DEF ReaderLaw
<1>4. CASE k # -1 /\ g >= 0
  <2>1. Place(g) \in 0..MaxHistory
        /\ Place(g + 1) = IF Place(g) = MaxHistory THEN 0 ELSE Place(g) + 1
    BY PlaceFacts
  <2>2. k = Wrap(index - 1 - Place(g)) /\ (g < Len(h) \/ Len(h) = MaxHistory)
    BY <1>4 DEF ReaderLaw
  <2>3. k = Wrap(NextIndex(index) - 1 - Place(g + 1))
    BY <1>2, <2>1, <2>2, SMTT(60) DEF Wrap, NextIndex
  <2>4. g + 1 < Len(a) \/ Len(a) = MaxHistory
    BY <1>1, <1>2, <2>2
  <2>5. QED
    BY <1>4, <2>3, <2>4 DEF ReaderLaw, a
<1>5. CASE k # -1 /\ g < 0
  <2>1. k = index - 1 - g /\ Len(h) = index /\ k \in 0..MaxHistory
    BY <1>5 DEF ReaderLaw, KeySpace
  <2>2. CASE g = -1
    <3>1. Place(g + 1) = 0 /\ g + 1 = 0
      BY <1>2, <2>2, PlaceFacts
    <3>2. k = Wrap(NextIndex(index) - 1 - Place(g + 1))
      BY <1>2, <2>1, <2>2, <3>1 DEF Wrap, NextIndex
    <3>3. g + 1 < Len(a)
      BY <1>1, <1>2, <3>1
    <3>4. QED
      BY <1>5, <3>1, <3>2, <3>3 DEF ReaderLaw, a
  <2>3. CASE g < -1
    <3>1. NextIndex(index) = index + 1 /\ Len(a) = index + 1
      BY <1>1, <1>2, <2>1, <2>3 DEF NextIndex
    <3>2. QED
      BY <1>2, <1>5, <2>1, <2>3, <3>1 DEF ReaderLaw, a
  <2>4. QED
    BY <1>5, <2>2, <2>3
<1>6. QED
  BY <1>3, <1>4, <1>5

LEMMA PublishedOwed ==
    ASSUME NEW h \in Seq(Entry), Len(h) <= MaxHistory,
           NEW index \in KeySpace, NEW T \in SUBSET Var,
           NEW k \in KeySpace \cup {-1}, NEW g \in Int, NEW o \in SUBSET Var,
           ReaderLaw(h, index, k, g), OwedLaw(h, g, o)
    PROVE  OwedLaw(AddHistory(h, index, T), IF k # -1 THEN g + 1 ELSE g,
                   IF k # -1 /\ g >= 0 THEN o \cup T ELSE o)
<1> DEFINE a == AddHistory(h, index, T)
<1>1. /\ a[1] = [key |-> index, types |-> T] /\ 1 \in DOMAIN a
      /\ \A i \in DOMAIN a : i = 1 \/ (i - 1 \in DOMAIN h /\ a[i] = h[i - 1])
      /\ \A i \in DOMAIN h : i < MaxHistory =>
            i + 1 \in DOMAIN a /\ a[i + 1] = h[i]
      /\ \A i \in DOMAIN a : i \in Nat /\ i >= 1
      /\ \A i \in DOMAIN h : i \in Nat /\ i >= 1
  BY AddHistoryFacts, HistoryAssumption
<1>2. MaxHistory \in Nat \ {0}
  BY HistoryAssumption
<1> HIDE DEF a
<1>3. CASE g <= 0 /\ (k = -1 \/ g < 0)
  <2> DEFINE g2 == IF k # -1 THEN g + 1 ELSE g
  <2>1. g2 \in Int /\ g2 <= 0 /\ ~(k # -1 /\ g >= 0)
    BY <1>3 DEF ReaderLaw
  <2>2. o = {}
    <3>1. \A y \in DOMAIN h : ~(y <= g)
      BY <1>1, <1>3
    <3>2. g < MaxHistory
      BY <1>2, <1>3
    <3>3. QED
      BY <3>1, <3>2 DEF OwedLaw
  <2>3. \A y \in DOMAIN a : ~(y <= g2)
    BY <1>1, <2>1
  <2> HIDE DEF g2
  <2>4. OwedLaw(a, g2, o)
    BY <2>2, <2>3 DEF OwedLaw
  <2>5. QED
    BY <2>1, <2>4 DEF a, g2
<1>4. CASE k # -1 /\ g >= 0
  <2>1. ASSUME NEW y \in DOMAIN a, y <= g + 1
        PROVE  a[y].types \subseteq o \cup T
    <3>1. CASE y = 1
      BY <1>1, <3>1
    <3>2. CASE y # 1
      <4>1. y - 1 \in DOMAIN h /\ a[y] = h[y - 1] /\ y - 1 <= g
        BY <1>1, <2>1, <3>2
      <4>2. QED
        BY <4>1 DEF OwedLaw
    <3>3. QED
      BY <3>1, <3>2
  <2>2. ASSUME g + 1 < MaxHistory, NEW v \in o \cup T
        PROVE  \E y \in DOMAIN a : y <= g + 1 /\ v \in a[y].types
    <3>1. CASE v \in T
      BY <1>1, <1>4, <3>1
    <3>2. CASE v \in o
      <4>1. g < MaxHistory
        BY <1>2, <2>2
      <4>2. PICK y \in DOMAIN h : y <= g /\ v \in h[y].types
        BY <3>2, <4>1 DEF OwedLaw
      <4>3. y < MaxHistory /\ y + 1 <= g + 1
        BY <1>1, <1>2, <2>2, <4>2
      <4>4. QED
        BY <1>1, <4>2, <4>3
    <3>3. QED
      BY <2>2, <3>1, <3>2
  <2>3. OwedLaw(a, g + 1, o \cup T)
    BY <2>1, <2>2 DEF OwedLaw
  <2>4. QED
    BY <1>4, <2>3 DEF a
<1>5. QED
  BY <1>3, <1>4 DEF ReaderLaw

\* What a reader is owed of a publication is behind its key, or passed over
\* while the writer has not come as far as the key.
LEMMA PublishedDebt ==
    ASSUME NEW h \in Seq(Entry), Len(h) <= MaxHistory,
           NEW index \in KeySpace, NEW T \in SUBSET Var,
           NEW k \in KeySpace \cup {-1}, NEW g \in Int,
           NEW o, NEW q, ReaderLaw(h, index, k, g), Debt(h, g, o, q)
    PROVE  Debt(AddHistory(h, index, T), IF k # -1 THEN g + 1 ELSE g,
                IF k # -1 THEN o \cup T ELSE o,
                IF k # -1 /\ g < 0 THEN q \cup T ELSE q)
<1>1. PICK due \in SUBSET Var : OwedLaw(h, g, due) /\ o = q \cup due
  BY DEF Debt
<1> DEFINE d == IF k # -1 /\ g >= 0 THEN due \cup T ELSE due
<1>2. OwedLaw(AddHistory(h, index, T), IF k # -1 THEN g + 1 ELSE g, d)
  BY <1>1, PublishedOwed
<1>3. d \in SUBSET Var
  OBVIOUS
<1>4. (IF k # -1 THEN o \cup T ELSE o)
        = (IF k # -1 /\ g < 0 THEN q \cup T ELSE q) \cup d
  BY <1>1
<1> HIDE DEF d
<1>5. QED
  BY <1>2, <1>3, <1>4 DEF Debt

----------------------------------------------------------------------------
(* A poll (get_missing_update_variable_types) *)

LEMMA WrapInjective ==
    ASSUME NEW index \in 0..MaxHistory,
           NEW i \in 1..(MaxHistory + 1), NEW j \in 1..(MaxHistory + 1)
    PROVE  Wrap(index - i) = Wrap(index - j) <=> i = j
BY HistoryAssumption DEF Wrap

\* A reader's key is in the window at one place at most, which its lag tells.
LEMMA KeyFound ==
    ASSUME NEW h \in Seq(Entry), Len(h) <= MaxHistory, NEW index \in KeySpace,
           WindowLaw(h, index), NEW k \in KeySpace, NEW g \in Int,
           ReaderLaw(h, index, k, g), NEW i \in DOMAIN h
    PROVE  h[i].key = k <=> g >= 0 /\ i - 1 = Place(g)
<1>1. /\ MaxHistory \in Nat \ {0} /\ index \in 0..MaxHistory /\ k \in 0..MaxHistory
      /\ i \in 1..Len(h) /\ Len(h) \in Nat /\ k # -1
      /\ h[i].key = Wrap(index - i)
  BY HistoryAssumption DEF KeySpace, WindowLaw
<1>2. CASE g >= 0
  <2>1. k = Wrap(index - 1 - Place(g))
    BY <1>1, <1>2 DEF ReaderLaw
  <2>2. Place(g) \in 0..MaxHistory
    BY PlaceFacts
  <2>3. /\ i \in 1..(MaxHistory + 1) /\ Place(g) + 1 \in 1..(MaxHistory + 1)
        /\ index - (Place(g) + 1) = index - 1 - Place(g)
    BY <1>1, <2>2
  <2>4. Wrap(index - i) = Wrap(index - (Place(g) + 1)) <=> i = Place(g) + 1
    BY <1>1, <2>3, WrapInjective
  <2>5. i = Place(g) + 1 <=> i - 1 = Place(g)
    BY <2>2, <2>3
  <2>6. QED
    BY <1>1, <1>2, <2>1, <2>3, <2>4, <2>5
<1>3. CASE g < 0
  <2>1. k = index - 1 - g /\ Len(h) = index
    BY <1>1, <1>3 DEF ReaderLaw
  <2>2. QED
    BY <1>1, <1>3, <2>1 DEF Wrap
<1>4. QED
  BY <1>2, <1>3

LEMMA MissingLaw ==
    ASSUME NEW h \in Seq(Entry), Len(h) <= MaxHistory, NEW index \in KeySpace,
           WindowLaw(h, index), NEW k \in KeySpace, NEW g \in Int,
           ReaderLaw(h, index, k, g), NEW o \in SUBSET Var, OwedLaw(h, g, o)
    PROVE  /\ Missing(h, k) \subseteq o
           /\ g \in 0..(MaxHistory - 1) => Missing(h, k) = o
<1>1. \A i \in DOMAIN h : h[i].key = k <=> g >= 0 /\ i - 1 = Place(g)
  BY KeyFound
<1>2. /\ MaxHistory \in Nat \ {0} /\ k # -1
      /\ DOMAIN h = 1..Len(h) /\ Len(h) \in Nat
  BY HistoryAssumption DEF KeySpace
<1>3. Missing(h, k) \subseteq o
  <2>1. SUFFICES ASSUME NEW y \in DOMAIN h, NEW i \in DOMAIN h, y < i,
                        h[i].key = k
                 PROVE  h[y].types \subseteq o
    BY DEF Missing
  <2>2. g >= 0 /\ i - 1 = Place(g)
    BY <1>1, <2>1
  <2>3. Place(g) <= g /\ Place(g) \in Int
    BY <2>2, PlaceFacts
  <2>4. y <= g
    BY <1>2, <2>1, <2>2, <2>3
  <2>5. QED
    BY <2>1, <2>4 DEF OwedLaw
<1>4. ASSUME g \in 0..(MaxHistory - 1) PROVE o \subseteq Missing(h, k)
  <2>1. SUFFICES ASSUME NEW v \in o PROVE v \in Missing(h, k)
    OBVIOUS
  <2>2. PICK y \in DOMAIN h : y <= g /\ v \in h[y].types
    BY <1>2, <1>4, <2>1 DEF OwedLaw
  <2>3. g < Len(h)
    <3>1. g >= 0 /\ g < MaxHistory
      BY <1>2, <1>4, SMTT(60)
    <3>2. g < Len(h) \/ Len(h) = MaxHistory
      BY <1>2, <3>1 DEF ReaderLaw
    <3>3. QED
      BY <3>1, <3>2
  <2>4. g + 1 \in DOMAIN h /\ y < g + 1 /\ Place(g) = g
    <3>1. g \in 0..MaxHistory
      BY <1>2, <1>4
    <3>2. Place(g) = g
      BY <3>1, PlaceFacts
    <3>3. QED
      BY <1>2, <1>4, <2>2, <2>3, <3>2
  <2>5. h[g + 1].key = k
    <3>1. (g + 1) - 1 = g /\ g >= 0
      BY <1>4
    <3>2. QED
      BY <1>1, <2>4, <3>1
  <2>6. \A j \in 1..g : h[j].key # k
    BY <1>1, <1>2, <1>4, <2>3, <2>4
  <2>7. (g + 1) - 1 = g
    OBVIOUS
  <2>8. QED
    BY <2>2, <2>4, <2>5, <2>6, <2>7 DEF Missing
<1>5. QED
  BY <1>3, <1>4

\* A reader that takes over the newest key lags nothing and is owed nothing.
LEMMA NewestKey ==
    ASSUME NEW h \in Seq(Entry), Len(h) <= MaxHistory, NEW index \in KeySpace,
           WindowLaw(h, index)
    PROVE  /\ LastUpdateKey(h) \in KeySpace \cup {-1}
           /\ ReaderLaw(h, index, LastUpdateKey(h), 0)
           /\ Debt(h, 0, {}, {})
<1>1. Len(h) \in Nat /\ DOMAIN h = 1..Len(h) /\ 0 \in 0..MaxHistory
      /\ MaxHistory \in Nat \ {0}
  BY HistoryAssumption
<1>2. Place(0) = 0
  BY <1>1, PlaceFacts
<1>3. Debt(h, 0, {}, {})
  <2>1. OwedLaw(h, 0, {})
    BY <1>1 DEF OwedLaw
  <2>2. QED
    BY <2>1 DEF Debt
<1>4. CASE Len(h) < 1
  BY <1>1, <1>3, <1>4 DEF LastUpdateKey, ReaderLaw
<1>5. CASE ~(Len(h) < 1)
  <2>1. 1 \in DOMAIN h /\ h[1] \in Entry /\ LastUpdateKey(h) = h[1].key
    BY <1>1, <1>5 DEF LastUpdateKey
  <2>2. h[1].key = Wrap(index - 1) /\ h[1].key \in KeySpace
    BY <2>1 DEF WindowLaw, Entry
  <2>3. index - 1 - Place(0) = index - 1
    BY <1>2 DEF KeySpace
  <2>4. h[1].key # -1
    BY <2>2 DEF KeySpace
  <2>5. 0 < Len(h) /\ h[1].key = Wrap(index - 1 - Place(0))
    BY <1>1, <1>5, <2>2, <2>3
  <2>6. ReaderLaw(h, index, h[1].key, 0)
    BY <2>4, <2>5 DEF ReaderLaw
  <2>7. QED
    BY <1>3, <2>1, <2>2, <2>6
<1>6. QED
  BY <1>4, <1>5

\* What a poll sends, on the state's own variables.
LEMMA ReplyLaw ==
    ASSUME HistoryInv, NEW r \in Client, NEW w \in Client
    PROVE  /\ Reply(r, w) \subseteq owed[r][w]
           /\ lag[r][w] \in 0..(MaxHistory - 1)
                => Reply(r, w) \cup passed[r][w] = owed[r][w]
           /\ Reply(r, w) \in SUBSET Var
<1>1. /\ history[w] \in Seq(Entry) /\ Len(history[w]) <= MaxHistory
      /\ historyIndex[w] \in KeySpace /\ keys[r][w] \in KeySpace \cup {-1}
      /\ lag[r][w] \in Int /\ owed[r][w] \in SUBSET Var
      /\ WindowLaw(history[w], historyIndex[w])
      /\ ReaderLaw(history[w], historyIndex[w], keys[r][w], lag[r][w])
      /\ Debt(history[w], lag[r][w], owed[r][w], passed[r][w])
  BY DEF HistoryInv, HistoryTypeOK
<1>2. PICK due \in SUBSET Var : /\ OwedLaw(history[w], lag[r][w], due)
                               /\ owed[r][w] = passed[r][w] \cup due
  BY <1>1 DEF Debt
<1>3. /\ Reply(r, w) \subseteq due
      /\ lag[r][w] \in 0..(MaxHistory - 1) => Reply(r, w) = due
  <2>1. CASE keys[r][w] = -1
    <3>1. lag[r][w] = 0
      BY <1>1, <2>1 DEF ReaderLaw
    <3>2. due = {}
      <4>1. 0 < MaxHistory /\ \A y \in DOMAIN history[w] : ~(y <= 0)
        BY <1>1, HistoryAssumption
      <4>2. QED
        BY <1>2, <3>1, <4>1 DEF OwedLaw
    <3>3. QED
      BY <2>1, <3>2 DEF Reply
  <2>2. CASE keys[r][w] # -1
    <3>1. keys[r][w] \in KeySpace
      BY <1>1, <2>2
    <3>2. QED
      BY <1>1, <1>2, <2>2, <3>1, MissingLaw DEF Reply
  <2>3. QED
    BY <2>1, <2>2
<1>4. QED
  BY <1>1, <1>2, <1>3

----------------------------------------------------------------------------
(* The invariant is inductive *)

LEMMA UpdateStep ==
    ASSUME HistoryInv, NEW p \in Client, NEW T \in SUBSET Var,
           NEW S \in SUBSET (Client \ {p}), Update(p, T, S)
    PROVE  HistoryInv'
<1>t. HistoryTypeOK
  BY DEF HistoryInv
<1>h. ASSUME NEW w \in Client
      PROVE  /\ history'[w] = IF w = p /\ T # {}
                              THEN AddHistory(history[w], historyIndex[w], T)
                              ELSE history[w]
             /\ historyIndex'[w] = IF w = p /\ T # {}
                                   THEN NextIndex(historyIndex[w])
                                   ELSE historyIndex[w]
  BY <1>t DEF Update, HistoryTypeOK
<1>k. ASSUME NEW r \in Client, NEW w \in Client
      PROVE  /\ keys'[r][w] = IF r = p /\ w \in S THEN KeyAfter(r, w) ELSE keys[r][w]
             /\ sent'[r][w] = IF r = p /\ w \in S THEN Reply(r, w) ELSE sent[r][w]
             /\ owed'[r][w] = IF r = p /\ w \in S /\ Reply(r, w) # {} THEN {}
                              ELSE IF w = p /\ T # {} /\ keys[r][w] # -1
                              THEN owed[r][w] \cup T
                              ELSE owed[r][w]
             /\ passed'[r][w] = IF r = p /\ w \in S /\ Reply(r, w) # {} THEN {}
                                ELSE IF w = p /\ T # {} /\ keys[r][w] # -1 /\ lag[r][w] < 0
                                THEN passed[r][w] \cup T
                                ELSE passed[r][w]
             /\ lag'[r][w] = IF r = p /\ w \in S /\ Reply(r, w) # {} THEN 0
                             ELSE IF w = p /\ T # {} /\ keys[r][w] # -1
                             THEN lag[r][w] + 1
                             ELSE lag[r][w]
  BY <1>t DEF Update, HistoryTypeOK
<1>1. ASSUME NEW w \in Client
      PROVE  /\ history[w] \in Seq(Entry) /\ Len(history[w]) <= MaxHistory
             /\ historyIndex[w] \in KeySpace
             /\ WindowLaw(history[w], historyIndex[w])
  BY DEF HistoryInv, HistoryTypeOK
<1>2. ASSUME NEW r \in Client, NEW w \in Client
      PROVE  /\ keys[r][w] \in KeySpace \cup {-1} /\ lag[r][w] \in Int
             /\ owed[r][w] \in SUBSET Var /\ sent[r][w] \in SUBSET Var
             /\ passed[r][w] \in SUBSET Var
             /\ ReaderLaw(history[w], historyIndex[w], keys[r][w], lag[r][w])
             /\ Debt(history[w], lag[r][w], owed[r][w], passed[r][w])
  BY DEF HistoryInv, HistoryTypeOK
<1>3. ASSUME NEW w \in Client
      PROVE  /\ history'[w] \in Seq(Entry) /\ Len(history'[w]) <= MaxHistory
             /\ historyIndex'[w] \in KeySpace
             /\ WindowLaw(history'[w], historyIndex'[w])
  <2>1. CASE w = p /\ T # {}
    <3>1. /\ AddHistory(history[w], historyIndex[w], T) \in Seq(Entry)
          /\ Len(AddHistory(history[w], historyIndex[w], T)) <= MaxHistory
      BY <1>1, AddHistoryType
    <3>2. QED
      BY <1>h, <1>1, <2>1, <3>1, NextIndexFacts, PublishedWindow
  <2>2. CASE ~(w = p /\ T # {})
    BY <1>h, <1>1, <2>2
  <2>3. QED
    BY <2>1, <2>2
<1>4. ASSUME NEW r \in Client, NEW w \in Client
      PROVE  /\ keys'[r][w] \in KeySpace \cup {-1} /\ lag'[r][w] \in Int
             /\ owed'[r][w] \in SUBSET Var /\ sent'[r][w] \in SUBSET Var
             /\ passed'[r][w] \in SUBSET Var
             /\ ReaderLaw(history'[w], historyIndex'[w], keys'[r][w], lag'[r][w])
             /\ Debt(history'[w], lag'[r][w], owed'[r][w], passed'[r][w])
  <2>1. CASE r = p /\ w \in S
    <3>1. w # p /\ history'[w] = history[w] /\ historyIndex'[w] = historyIndex[w]
      BY <1>h, <2>1
    <3>2. /\ LastUpdateKey(history[w]) \in KeySpace \cup {-1}
          /\ ReaderLaw(history[w], historyIndex[w], LastUpdateKey(history[w]), 0)
          /\ Debt(history[w], 0, {}, {})
      BY <1>1, NewestKey
    <3>3. Reply(r, w) \in SUBSET Var
      BY ReplyLaw
    <3>4. CASE Reply(r, w) # {}
      <4>1. /\ keys'[r][w] = LastUpdateKey(history[w]) /\ lag'[r][w] = 0
            /\ owed'[r][w] = {} /\ passed'[r][w] = {}
            /\ sent'[r][w] = Reply(r, w)
        BY <1>k, <2>1, <3>4 DEF KeyAfter
      <4>2. QED
        BY <3>1, <3>2, <3>3, <4>1
    <3>5. CASE Reply(r, w) = {}
      <4>1. /\ lag'[r][w] = lag[r][w] /\ owed'[r][w] = owed[r][w]
            /\ passed'[r][w] = passed[r][w] /\ sent'[r][w] = {}
            /\ keys'[r][w] = IF keys[r][w] = -1 THEN LastUpdateKey(history[w])
                                                ELSE keys[r][w]
        BY <1>k, <2>1, <3>1, <3>5 DEF KeyAfter
      <4>2. keys[r][w] = -1 => lag[r][w] = 0
        BY <1>2 DEF ReaderLaw
      <4>3. QED
        BY <1>2, <3>1, <3>2, <4>1, <4>2
    <3>6. QED
      BY <3>4, <3>5
  <2>2. CASE ~(r = p /\ w \in S) /\ w = p /\ T # {}
    <3>1. /\ history'[w] = AddHistory(history[w], historyIndex[w], T)
          /\ historyIndex'[w] = NextIndex(historyIndex[w])
          /\ keys'[r][w] = keys[r][w] /\ sent'[r][w] = sent[r][w]
          /\ lag'[r][w] = IF keys[r][w] # -1 THEN lag[r][w] + 1 ELSE lag[r][w]
          /\ owed'[r][w] = IF keys[r][w] # -1
                           THEN owed[r][w] \cup T ELSE owed[r][w]
          /\ passed'[r][w] = IF keys[r][w] # -1 /\ lag[r][w] < 0
                             THEN passed[r][w] \cup T ELSE passed[r][w]
      <4>1. /\ history'[w] = AddHistory(history[w], historyIndex[w], T)
            /\ historyIndex'[w] = NextIndex(historyIndex[w])
        BY <1>h, <2>2
      <4>2. keys'[r][w] = keys[r][w] /\ sent'[r][w] = sent[r][w]
        BY <1>k, <2>2
      <4>3. lag'[r][w] = IF keys[r][w] # -1 THEN lag[r][w] + 1 ELSE lag[r][w]
        BY <1>k, <2>2
      <4>4. owed'[r][w] = IF keys[r][w] # -1
                          THEN owed[r][w] \cup T ELSE owed[r][w]
        BY <1>k, <2>2
      <4>5. passed'[r][w] = IF keys[r][w] # -1 /\ lag[r][w] < 0
                            THEN passed[r][w] \cup T ELSE passed[r][w]
        BY <1>k, <2>2
      <4>6. QED
        BY <4>1, <4>2, <4>3, <4>4, <4>5
    <3>2. ReaderLaw(AddHistory(history[w], historyIndex[w], T),
                    NextIndex(historyIndex[w]), keys[r][w],
                    IF keys[r][w] # -1 THEN lag[r][w] + 1 ELSE lag[r][w])
      BY <1>1, <1>2, PublishedReader
    <3>3. Debt(AddHistory(history[w], historyIndex[w], T),
               IF keys[r][w] # -1 THEN lag[r][w] + 1 ELSE lag[r][w],
               IF keys[r][w] # -1 THEN owed[r][w] \cup T ELSE owed[r][w],
               IF keys[r][w] # -1 /\ lag[r][w] < 0
               THEN passed[r][w] \cup T ELSE passed[r][w])
      BY <1>1, <1>2, PublishedDebt
    <3>4. /\ ReaderLaw(history'[w], historyIndex'[w], keys'[r][w], lag'[r][w])
          /\ Debt(history'[w], lag'[r][w], owed'[r][w], passed'[r][w])
      BY <3>1, <3>2, <3>3
    <3>5. QED
      BY <1>2, <3>1, <3>4
  <2>3. CASE ~(r = p /\ w \in S) /\ ~(w = p /\ T # {})
    <3>1. /\ history'[w] = history[w] /\ historyIndex'[w] = historyIndex[w]
          /\ keys'[r][w] = keys[r][w] /\ sent'[r][w] = sent[r][w]
          /\ lag'[r][w] = lag[r][w] /\ owed'[r][w] = owed[r][w]
          /\ passed'[r][w] = passed[r][w]
      BY <1>h, <1>k, <2>3, ZenonT(60)
    <3>2. QED
      BY <1>2, <3>1
  <2>4. QED
    BY <2>1, <2>2, <2>3
<1>5. HistoryTypeOK'
  <2>1. history' \in [Client -> Seq(Entry)] /\ historyIndex' \in [Client -> KeySpace]
    <3>1. DOMAIN history' = Client /\ DOMAIN historyIndex' = Client
          /\ history' = [w \in Client |-> history'[w]]
          /\ historyIndex' = [w \in Client |-> historyIndex'[w]]
      BY <1>t DEF Update, HistoryTypeOK
    <3>2. QED
      BY <1>3, <3>1
  <2>2. keys' \in [Client -> [Client -> KeySpace \cup {-1}]]
    <3>1. keys' = [r \in Client |-> [w \in Client |-> keys'[r][w]]]
      BY <1>t DEF Update, HistoryTypeOK
    <3>2. QED
      BY <1>4, <3>1
  <2>3. sent' \in [Client -> [Client -> SUBSET Var]]
    <3>1. sent' = [r \in Client |-> [w \in Client |-> sent'[r][w]]]
      BY <1>t DEF Update, HistoryTypeOK
    <3>2. QED
      BY <1>4, <3>1
  <2>4. owed' \in [Client -> [Client -> SUBSET Var]]
    <3>1. owed' = [r \in Client |-> [w \in Client |-> owed'[r][w]]]
      BY DEF Update
    <3>2. QED
      BY <1>4, <3>1
  <2>5. lag' \in [Client -> [Client -> Int]]
    <3>1. lag' = [r \in Client |-> [w \in Client |-> lag'[r][w]]]
      BY DEF Update
    <3>2. QED
      BY <1>4, <3>1
  <2>6. passed' \in [Client -> [Client -> SUBSET Var]]
    <3>1. passed' = [r \in Client |-> [w \in Client |-> passed'[r][w]]]
      BY DEF Update
    <3>2. QED
      BY <1>4, <3>1
  <2>7. QED
    BY <1>3, <2>1, <2>2, <2>3, <2>4, <2>5, <2>6 DEF HistoryTypeOK
<1>6. QED
  BY <1>3, <1>4, <1>5 DEF HistoryInv

\* A client that signs on again starts a new window under keys its readers
\* remember from the old one.
LEMMA RejoinStep ==
    ASSUME HistoryInv, NEW p \in Client, Rejoin(p)
    PROVE  HistoryInv'
<1>t. HistoryTypeOK
  BY DEF HistoryInv
<1>n. MaxHistory \in Nat \ {0} /\ 0 \in KeySpace
  BY HistoryAssumption DEF KeySpace
<1>1. ASSUME NEW w \in Client
      PROVE  /\ history'[w] = IF w = p THEN <<>> ELSE history[w]
             /\ historyIndex'[w] = IF w = p THEN 0 ELSE historyIndex[w]
  BY <1>t DEF Rejoin, HistoryTypeOK
<1>2. ASSUME NEW r \in Client, NEW w \in Client
      PROVE  /\ keys'[r][w] = IF r = p THEN -1 ELSE keys[r][w]
             /\ sent'[r][w] = IF r = p THEN {} ELSE sent[r][w]
             /\ owed'[r][w] = IF r = p \/ w = p THEN {} ELSE owed[r][w]
             /\ passed'[r][w] = IF r = p \/ w = p THEN {} ELSE passed[r][w]
             /\ lag'[r][w] = IF r = p THEN 0
                             ELSE IF w = p /\ keys[r][p] # -1 THEN -1 - keys[r][p]
                             ELSE lag[r][w]
  BY <1>t DEF Rejoin, HistoryTypeOK
<1>3. WindowLaw(<<>>, 0) /\ <<>> \in Seq(Entry) /\ Len(<<>>) = 0
  BY DEF WindowLaw
<1>4. ASSUME NEW w \in Client
      PROVE  WindowLaw(history'[w], historyIndex'[w])
  BY <1>1, <1>3 DEF HistoryInv
<1>5. ASSUME NEW h, NEW g \in Int, g <= 0,
             \A y \in DOMAIN h : y >= 1 /\ y \in Nat
      PROVE  Debt(h, g, {}, {})
  <2>1. OwedLaw(h, g, {})
    BY <1>5 DEF OwedLaw
  <2>2. QED
    BY <2>1 DEF Debt
<1>6. ASSUME NEW r \in Client, NEW w \in Client
      PROVE  /\ keys'[r][w] \in KeySpace \cup {-1} /\ lag'[r][w] \in Int
             /\ ReaderLaw(history'[w], historyIndex'[w], keys'[r][w], lag'[r][w])
             /\ Debt(history'[w], lag'[r][w], owed'[r][w], passed'[r][w])
  <2>1. /\ keys[r][w] \in KeySpace \cup {-1} /\ lag[r][w] \in Int
        /\ ReaderLaw(history[w], historyIndex[w], keys[r][w], lag[r][w])
        /\ Debt(history[w], lag[r][w], owed[r][w], passed[r][w])
    BY DEF HistoryInv, HistoryTypeOK
  <2>2. \A y \in DOMAIN history'[w] : y >= 1 /\ y \in Nat
    <3>1. history'[w] \in Seq(Entry)
      BY <1>t, <1>1, <1>3 DEF HistoryTypeOK
    <3>2. QED
      BY <3>1
  <2>3. CASE r = p
    <3>1. keys'[r][w] = -1 /\ lag'[r][w] = 0 /\ owed'[r][w] = {}
          /\ passed'[r][w] = {}
      BY <1>2, <2>3
    <3>2. QED
      BY <1>5, <2>2, <3>1 DEF ReaderLaw
  <2>4. CASE r # p /\ w = p /\ keys[r][w] # -1
    <3>1. /\ history'[w] = <<>> /\ historyIndex'[w] = 0
          /\ keys'[r][w] = keys[r][w] /\ owed'[r][w] = {} /\ passed'[r][w] = {}
          /\ lag'[r][w] = -1 - keys[r][w]
      BY <1>1, <1>2, <2>4
    <3>2. keys[r][w] \in 0..MaxHistory
      BY <2>1, <2>4 DEF KeySpace
    <3>3. lag'[r][w] \in Int /\ lag'[r][w] < 0 /\ keys[r][w] = 0 - 1 - lag'[r][w]
      BY <1>n, <3>1, <3>2
    <3>4. ReaderLaw(history'[w], historyIndex'[w], keys'[r][w], lag'[r][w])
      BY <1>3, <2>4, <3>1, <3>3 DEF ReaderLaw
    <3>5. QED
      BY <1>5, <2>1, <2>2, <3>1, <3>3, <3>4
  <2>5. CASE r # p /\ w = p /\ keys[r][w] = -1
    <3>1. keys'[r][w] = -1 /\ lag'[r][w] = 0 /\ owed'[r][w] = {}
          /\ passed'[r][w] = {}
      BY <1>2, <2>1, <2>5 DEF ReaderLaw
    <3>2. QED
      BY <1>5, <2>2, <3>1 DEF ReaderLaw
  <2>6. CASE r # p /\ w # p
    BY <1>1, <1>2, <2>1, <2>6
  <2>7. QED
    BY <2>3, <2>4, <2>5, <2>6
<1>7. HistoryTypeOK'
  <2>1. history' \in [Client -> Seq(Entry)] /\ historyIndex' \in [Client -> KeySpace]
        /\ keys' \in [Client -> [Client -> KeySpace \cup {-1}]]
        /\ sent' \in [Client -> [Client -> SUBSET Var]]
    BY <1>n, <1>3, <1>t DEF Rejoin, HistoryTypeOK
  <2>2. /\ owed' \in [Client -> [Client -> SUBSET Var]]
        /\ passed' \in [Client -> [Client -> SUBSET Var]]
    BY <1>t DEF Rejoin, HistoryTypeOK
  <2>3. lag' \in [Client -> [Client -> Int]]
    <3>1. lag' = [r \in Client |-> [w \in Client |-> lag'[r][w]]]
      BY DEF Rejoin
    <3>2. QED
      BY <1>6, <3>1
  <2>4. \A w \in Client : Len(history'[w]) <= MaxHistory
    BY <1>n, <1>t, <1>1, <1>3 DEF HistoryTypeOK
  <2>5. QED
    BY <2>1, <2>2, <2>3, <2>4 DEF HistoryTypeOK
<1>8. QED
  BY <1>4, <1>6, <1>7 DEF HistoryInv

LEMMA HistoryInitial == Init => HistoryInv
<1>1. SUFFICES ASSUME Init PROVE HistoryInv
  OBVIOUS
<1>2. MaxHistory \in Nat \ {0} /\ 0 \in KeySpace
  BY HistoryAssumption DEF KeySpace
<1>3. <<>> \in Seq(Entry) /\ Len(<<>>) = 0 /\ DOMAIN <<>> = {}
  OBVIOUS
<1>4. HistoryTypeOK
  BY <1>1, <1>2, <1>3 DEF Init, Pairs, HistoryTypeOK
<1>5. WindowLaw(<<>>, 0) /\ ReaderLaw(<<>>, 0, -1, 0) /\ Debt(<<>>, 0, {}, {})
  <2>1. OwedLaw(<<>>, 0, {})
    BY <1>3 DEF OwedLaw
  <2>2. QED
    BY <1>3, <2>1 DEF WindowLaw, ReaderLaw, Debt
<1>6. QED
  BY <1>1, <1>4, <1>5 DEF Init, Pairs, HistoryInv

LEMMA HistoryStep ==
    ASSUME HistoryInv, [Next]_vars
    PROVE  HistoryInv'
<1>1. CASE UNCHANGED vars
  BY <1>1 DEF vars, HistoryInv, HistoryTypeOK
<1>2. QED
  BY <1>1, UpdateStep, RejoinStep DEF Next

THEOREM HistoryInvariant == Spec => []HistoryInv
BY HistoryInitial, HistoryStep, PTL DEF Spec

----------------------------------------------------------------------------
(* What the runs check *)

THEOREM HistoryTyped == Spec => []HistoryTypeOK
<1>1. HistoryInv => HistoryTypeOK
  BY DEF HistoryInv
<1>2. QED
  BY <1>1, HistoryInvariant, PTL

\* The window holds consecutive keys (add_history).
THEOREM WindowsAreConsecutive == Spec => []WindowConsecutive
<1>1. ASSUME HistoryInv PROVE WindowConsecutive
  <2>1. SUFFICES ASSUME NEW c \in Client, NEW i \in DOMAIN history[c]
                 PROVE  history[c][i].key = (historyIndex[c] - i) % (MaxHistory + 1)
    BY DEF WindowConsecutive
  <2>2. history[c][i].key = Wrap(historyIndex[c] - i)
    BY <1>1 DEF HistoryInv, WindowLaw
  <2>3. /\ historyIndex[c] \in 0..MaxHistory /\ MaxHistory \in Nat
        /\ i \in 1..MaxHistory
    <3>1. /\ history[c] \in Seq(Entry) /\ Len(history[c]) <= MaxHistory
          /\ historyIndex[c] \in 0..MaxHistory
      BY <1>1 DEF HistoryInv, HistoryTypeOK, KeySpace
    <3>2. i \in 1..Len(history[c]) /\ Len(history[c]) \in Nat
      BY <3>1
    <3>3. QED
      BY <3>1, <3>2, HistoryAssumption
  <2> DEFINE n == MaxHistory + 1
             x == historyIndex[c] - i
  <2>4. n \in Nat \ {0} /\ (x \in 0..(n - 1) \/ x \in (-n)..(-1))
    BY <2>3
  <2> HIDE DEF n, x
  <2>5. x % n = IF x >= 0 THEN x ELSE x + n
    <3>1. CASE x \in 0..(n - 1)
      BY <2>4, <3>1
    <3>2. CASE x \in (-n)..(-1)
      BY <2>4, <3>2
    <3>3. QED
      BY <2>4, <3>1, <3>2
  <2>6. QED
    BY <2>2, <2>5 DEF Wrap, n, x
<1>2. QED
  BY <1>1, HistoryInvariant, PTL

\* Where a reader's key is in the window (get_missing_update_variable_types).
THEOREM KeysObeyLaw == Spec => []KeyLaw
<1>1. ASSUME HistoryInv PROVE KeyLaw
  <2>1. SUFFICES ASSUME NEW r \in Client, NEW w \in Client, keys[r][w] # -1,
                        NEW i \in DOMAIN history[w]
                 PROVE  history[w][i].key = keys[r][w]
                          <=> lag[r][w] >= 0
                              /\ i - 1 = lag[r][w] % (MaxHistory + 1)
    BY DEF KeyLaw
  <2>2. /\ history[w] \in Seq(Entry) /\ Len(history[w]) <= MaxHistory
        /\ historyIndex[w] \in KeySpace /\ keys[r][w] \in KeySpace
        /\ lag[r][w] \in Int
        /\ WindowLaw(history[w], historyIndex[w])
        /\ ReaderLaw(history[w], historyIndex[w], keys[r][w], lag[r][w])
    BY <1>1, <2>1 DEF HistoryInv, HistoryTypeOK
  <2>3. history[w][i].key = keys[r][w] <=> lag[r][w] >= 0 /\ i - 1 = Place(lag[r][w])
    BY <2>2, KeyFound
  <2>4. QED
    BY <2>3 DEF Place
<1>2. QED
  BY <1>1, HistoryInvariant, PTL

\* A reader in time loses nothing but what a writer that signed on again
\* published up to the reader's key (get_missing_update_variable_types).
THEOREM OnlyRejoinsLoseUpdates == Spec => []OnlyRejoinsLose
<1>1. ASSUME HistoryInv PROVE OnlyRejoinsLose
  <2>1. SUFFICES ASSUME NEW r \in Client, NEW w \in Client, keys[r][w] # -1,
                        lag[r][w] \in 0..(MaxHistory - 1)
                 PROVE  Missing(history[w], keys[r][w]) \cup passed[r][w] = owed[r][w]
    BY DEF OnlyRejoinsLose
  <2>2. Reply(r, w) \cup passed[r][w] = owed[r][w]
    BY <1>1, <2>1, ReplyLaw
  <2>3. QED
    BY <2>1, <2>2 DEF Reply
<1>2. QED
  BY <1>1, HistoryInvariant, PTL

----------------------------------------------------------------------------
(* The refinement of Feed *)

\* A reader is synced when it has a key.
Synced == [r \in Client |-> [w \in Client |-> keys[r][w] # -1]]

LEMMA FeedInitial == Init => feed!Init
<1>1. SUFFICES ASSUME Init PROVE feed!Init
  OBVIOUS
<1>2. Synced = [r \in Client |-> [w \in Client |-> FALSE]]
  <2>1. \A r, w \in Client : ~(keys[r][w] # -1)
    BY <1>1 DEF Init, Pairs
  <2>2. QED
    BY <2>1, Zenon DEF Synced
<1>3. QED
  BY <1>1, <1>2 DEF Init, Pairs, Synced, feed!Init, feed!Nothing

LEMMA FeedUpdate ==
    ASSUME HistoryInv, NEW p \in Client, NEW T \in SUBSET Var,
           NEW S \in SUBSET (Client \ {p}), Update(p, T, S)
    PROVE  feed!Update(p, T, S)
<1> DEFINE D == [w \in S |-> Reply(p, w)]
           M == {w \in S : KeyAfter(p, w) # -1}
<1>t. HistoryTypeOK
  BY DEF HistoryInv
<1>1. D \in [S -> SUBSET Var] /\ \A w \in S : feed!Delivers(p, w, D[w])
  BY ReplyLaw DEF feed!Delivers
<1>2. sent' = [sent EXCEPT ![p] =
                  [w \in Client |-> IF w \in S THEN D[w] ELSE @[w]]]
  BY <1>t DEF Update, HistoryTypeOK
<1>3. owed' = [feed!OwedAfter(p, T) EXCEPT ![p] =
                  [w \in Client |-> IF w \in S /\ D[w] # {} THEN {} ELSE @[w]]]
  BY <1>t DEF Update, HistoryTypeOK, feed!OwedAfter
<1>p. passed' = [feed!PassedAfter(p, T) EXCEPT ![p] =
                    [w \in Client |-> IF w \in S /\ D[w] # {} THEN {} ELSE @[w]]]
  BY <1>t DEF Update, HistoryTypeOK, feed!PassedAfter
<1>4. lag' = [feed!LagAfter(p, T) EXCEPT ![p] =
                 [w \in Client |-> IF w \in S /\ D[w] # {} THEN 0 ELSE @[w]]]
  BY <1>t DEF Update, HistoryTypeOK, feed!LagAfter
<1>5. M \in SUBSET S
  OBVIOUS
<1>6. Synced' = [Synced EXCEPT ![p] = [w \in Client |-> @[w] \/ w \in M]]
  <2>1. ASSUME NEW r \in Client, NEW w \in Client
        PROVE  keys'[r][w] # -1
                 <=> keys[r][w] # -1 \/ (r = p /\ w \in M)
    <3>1. keys'[r][w] = IF r = p /\ w \in S THEN KeyAfter(p, w) ELSE keys[r][w]
      BY <1>t DEF Update, HistoryTypeOK
    <3>2. ASSUME r = p, w \in S, keys[r][w] # -1 PROVE KeyAfter(p, w) # -1
      <4>1. CASE Reply(p, w) = {}
        BY <3>2, <4>1 DEF KeyAfter
      <4>2. CASE Reply(p, w) # {}
        <5>1. history[w] # <<>> /\ history[w] \in Seq(Entry)
          BY <1>t, <3>2, <4>2 DEF Reply, Missing, HistoryTypeOK
        <5>2. history[w][1] \in Entry /\ ~(Len(history[w]) < 1)
          BY <5>1
        <5>3. LastUpdateKey(history[w]) # -1
          BY <5>2, HistoryAssumption DEF LastUpdateKey, Entry, KeySpace
        <5>4. QED
          BY <4>2, <5>3 DEF KeyAfter
      <4>3. QED
        BY <4>1, <4>2
    <3>3. QED
      BY <3>1, <3>2
  <2>2. QED
    BY <2>1, Zenon DEF Synced
<1>7. QED
  BY <1>1, <1>2, <1>3, <1>p, <1>4, <1>5, <1>6 DEF feed!Update, Synced

LEMMA FeedRejoin ==
    ASSUME HistoryInv, NEW p \in Client, Rejoin(p)
    PROVE  feed!Rejoin(p)
<1> DEFINE d == [r \in Client |-> IF keys[r][p] # -1 THEN -1 - keys[r][p] ELSE -1]
<1>t. HistoryTypeOK
  BY DEF HistoryInv
<1>1. d \in [Client -> -(MaxHistory + 1)..(-1)]
  <2>1. \A r \in Client : keys[r][p] \in 0..MaxHistory \/ keys[r][p] = -1
    BY <1>t DEF HistoryTypeOK, KeySpace
  <2>2. QED
    BY <2>1, HistoryAssumption
<1>2. lag' = [r \in Client |-> [x \in Client |->
                 IF r = p THEN 0
                 ELSE IF x = p /\ Synced[r][p] THEN d[r] ELSE lag[r][x]]]
  BY DEF Rejoin, Synced
<1>3. /\ owed' = [r \in Client |-> [x \in Client |->
                     IF p \in {r, x} THEN {} ELSE owed[r][x]]]
      /\ passed' = [r \in Client |-> [x \in Client |->
                       IF p \in {r, x} THEN {} ELSE passed[r][x]]]
  BY DEF Rejoin
<1>4. sent' = [sent EXCEPT ![p] = [x \in Client |-> {}]]
  BY DEF Rejoin
<1>5. Synced' = [Synced EXCEPT ![p] = [x \in Client |-> FALSE]]
  <2>1. ASSUME NEW r \in Client, NEW w \in Client
        PROVE  keys'[r][w] # -1 <=> r # p /\ keys[r][w] # -1
    BY <1>t DEF Rejoin, HistoryTypeOK
  <2>2. QED
    BY <2>1, Zenon DEF Synced
<1>6. QED
  BY <1>1, <1>2, <1>3, <1>4, <1>5 DEF feed!Rejoin, Synced

\* The history implements the feed: what a poll delivers is what the feed
\* promises, and every other step is a step of the feed (HandleUpdate).
THEOREM HistoryImplementsFeed == Spec => ImplementsFeed
<1>1. ASSUME HistoryInv, [Next]_vars PROVE [feed!Next]_feed!feedVars
  <2>1. CASE UNCHANGED vars
    BY <2>1 DEF vars, feed!feedVars
  <2>2. ASSUME NEW p \in Client, NEW T \in SUBSET Var,
               NEW S \in SUBSET (Client \ {p}), Update(p, T, S)
        PROVE  feed!Next
    BY <1>1, <2>2, FeedUpdate DEF feed!Next
  <2>3. ASSUME NEW p \in Client, Rejoin(p) PROVE feed!Next
    BY <1>1, <2>3, FeedRejoin DEF feed!Next
  <2>4. QED
    BY <1>1, <2>1, <2>2, <2>3 DEF Next
<1>2. QED
  BY <1>1, FeedInitial, HistoryInvariant, PTL DEF Spec, ImplementsFeed, feed!Spec
=============================================================================
