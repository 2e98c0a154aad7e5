---------------------------- MODULE ListingProofs ----------------------------
(***************************************************************************)
(* What the lists say of the room, for every value of the constants.       *)
(***************************************************************************)
EXTENDS Listing, RosterProofs, FiniteSetTheorems, WellFoundedInduction

\* The player list names the player itself and whom its game shows once its
\* inbox is delivered (get_player_list, HandleSignOn).
THEOREM PlayerListsAreViews == RoomSpec => []PlayerListIsView
<1>1. ASSUME ViewInv PROVE PlayerListIsView
  <2>1. SUFFICES ASSUME NEW r \in Listed
                 PROVE  PlayerList(r)
                          = Deliver(world[r], inbox[r]) \cup {username[r]}
    BY DEF PlayerListIsView
  <2>2. session[r] = "on"
    BY <1>1, <2>1, RoomAssumption DEF ViewInv, RoomInv, RosterKeyed, Listed
  <2>3. Deliver(world[r], inbox[r])
          = {username[w] : w \in LevelMates(username[r], level[r])}
    BY <1>1, <2>1 DEF ViewInv, RosterViewExact
  <2>4. PlayerList(r) = {username[w] : w \in LevelMates(username[r], level[r])}
                          \cup {username[r]}
    BY <2>1, <2>2 DEF PlayerList, LevelMates
  <2>5. QED
    BY <2>3, <2>4
<1>2. QED
  BY <1>1, ViewInvariant, PTL

----------------------------------------------------------------------------
(* Sums over a finite set, as MapThenSumSet takes them: one element after   *)
(* the other out of the set                                                 *)

First(T) == CHOOSE x \in T : TRUE

\* If s gives the sums of the weights w over smaller parts of S, so does this.
Summing(s, w, S) ==
    [T \in SUBSET S |-> IF T = {} THEN 0 ELSE w[First(T)] + s[T \ {First(T)}]]

SumOf(w, S) == (CHOOSE s : s = Summing(s, w, S))[S]

LEMMA FirstFacts ==
    ASSUME NEW S, NEW T \in SUBSET S, T # {}
    PROVE  /\ First(T) \in T /\ First(T) \in S /\ T \ {First(T)} \in SUBSET S
           /\ (T \ {First(T)}) \cup {First(T)} = T /\ First(T) \notin T \ {First(T)}
<1>1. First(T) \in T
  BY DEF First
<1>2. QED
  BY <1>1

\* There is only one such function: a smallest part on which two differ would
\* have a smaller one on which they differ.
LEMMA SumUnique ==
    ASSUME NEW S, IsFiniteSet(S), NEW w, NEW s, NEW t,
           s = Summing(s, w, S), t = Summing(t, w, S)
    PROVE  s[S] = t[S]
<1> DEFINE R == StrictSubsetOrdering(S)
           Bad == {T \in SUBSET S : s[T] # t[T]}
<1>1. IsWellFoundedOn(R, SUBSET S)
  BY FS_StrictSubsetOrderingWellFounded, FS_FiniteSubsetsOfFinite
<1>2. SUFFICES ASSUME Bad # {} PROVE FALSE
  OBVIOUS
<1>3. Bad \subseteq SUBSET S
  OBVIOUS
<1>4. \A T \in SUBSET S :
         /\ s[T] = IF T = {} THEN 0 ELSE w[First(T)] + s[T \ {First(T)}]
         /\ t[T] = IF T = {} THEN 0 ELSE w[First(T)] + t[T \ {First(T)}]
  BY DEF Summing
<1> HIDE DEF R, Bad
<1>5. PICK T \in Bad : \A U \in Bad : ~(<<U, T>> \in R)
  BY <1>1, <1>2, <1>3, WFMin
<1>6. T \in SUBSET S /\ s[T] # t[T] /\ T # {}
  BY <1>4, <1>5 DEF Bad
<1> DEFINE U == T \ {First(T)}
<1>7. U \in SUBSET S /\ U \subseteq T /\ U # T
  BY <1>6, FirstFacts
<1>8. s[U] # t[U]
  BY <1>4, <1>6
<1> HIDE DEF U
<1>9. U \in Bad /\ <<U, T>> \in R
  BY <1>6, <1>7, <1>8 DEF Bad, R, StrictSubsetOrdering
<1>10. QED
  BY <1>5, <1>9

LEMMA SumIs ==
    ASSUME NEW S, IsFiniteSet(S), NEW w, NEW t, t = Summing(t, w, S)
    PROVE  SumOf(w, S) = t[S]
<1> DEFINE s == CHOOSE s : s = Summing(s, w, S)
<1>1. s = Summing(s, w, S)
  OBVIOUS
<1> HIDE DEF s
<1>2. s[S] = t[S]
  BY <1>1, SumUnique
<1>3. QED
  BY <1>2 DEF SumOf, s

----------------------------------------------------------------------------
(* The players by level *)

Present == {n \in Name : clients[n] # NoClient}

PresentOn(L) == {n \in Present : level[clients[n]] \in L}

LEMMA OneLevelMore ==
    ASSUME IsFiniteSet(Present), NEW L, NEW l, l \notin L
    PROVE  Cardinality(PresentOn(L \cup {l}))
             = PlayersOn(l) + Cardinality(PresentOn(L))
<1> DEFINE A == PresentOn(L)
           B == PresentOn({l})
<1>1. IsFiniteSet(A) /\ IsFiniteSet(B)
  BY FS_Subset DEF PresentOn
<1>2. A \cap B = {} /\ PresentOn(L \cup {l}) = A \cup B
  BY DEF PresentOn
<1>3. PlayersOn(l) = Cardinality(B)
  <2>1. B = {n \in Name : clients[n] # NoClient /\ level[clients[n]] = l}
    BY DEF PresentOn, Present
  <2>2. QED
    BY <2>1 DEF PlayersOn
<1> HIDE DEF A, B
<1>4. Cardinality(A) \in Nat /\ Cardinality(B) \in Nat
  BY <1>1, FS_CardinalityType
<1>5. Cardinality(A \cup B) = Cardinality(B) + Cardinality(A)
  <2>1. Cardinality(A \cup B)
          = Cardinality(A) + Cardinality(B) - Cardinality(A \cap B)
    BY <1>1, FS_Union
  <2>2. Cardinality(A \cap B) = 0
    BY <1>2, FS_EmptySet
  <2>3. QED
    BY <1>4, <2>1, <2>2
<1>6. QED
  BY <1>2, <1>3, <1>5 DEF A

\* The players on some levels, counted level by level: entry i of I has the
\* level f[i], and no two entries have the same.
LEMMA LevelsCounted ==
    ASSUME IsFiniteSet(Present), NEW I, IsFiniteSet(I), NEW f,
           \A i, j \in I : f[i] = f[j] => i = j
    PROVE  SumOf([i \in I |-> PlayersOn(f[i])], I)
             = Cardinality(PresentOn({f[i] : i \in I}))
<1> DEFINE w == [i \in I |-> PlayersOn(f[i])]
           t == [T \in SUBSET I |-> Cardinality(PresentOn({f[i] : i \in T}))]
<1>1. ASSUME NEW T \in SUBSET I, T # {}
      PROVE  t[T] = w[First(T)] + t[T \ {First(T)}]
  <2> DEFINE x == First(T)
             L == {f[i] : i \in T \ {x}}
  <2>1. x \in T /\ x \in I /\ T \ {x} \in SUBSET I /\ w[x] = PlayersOn(f[x])
    BY <1>1, FirstFacts
  <2> HIDE DEF x
  <2>2. f[x] \notin L /\ {f[i] : i \in T} = L \cup {f[x]}
    BY <1>1, <2>1
  <2>3. Cardinality(PresentOn(L \cup {f[x]}))
          = PlayersOn(f[x]) + Cardinality(PresentOn(L))
    BY <2>2, OneLevelMore
  <2>4. QED
    BY <1>1, <2>1, <2>2, <2>3 DEF x
<1>2. t[{}] = 0
  <2>1. PresentOn({f[i] : i \in {}}) = {}
    BY DEF PresentOn
  <2>2. QED
    BY <2>1, FS_EmptySet
<1>3. t = Summing(t, w, I)
  BY <1>1, <1>2 DEF Summing
<1> HIDE DEF w
<1>4. SumOf(w, I) = t[I]
  <2> HIDE DEF t
  <2>1. QED
    BY <1>3, SumIs
<1>5. QED
  BY <1>4 DEF w

\* The players on some entries, one entry after the other: the pairs of an
\* entry and a player on its level.  Two entries may have the same level.
Pairs(I, f) == {p \in I \X Present : level[clients[p[2]]] = f[p[1]]}

LEMMA OneEntryMore ==
    ASSUME IsFiniteSet(Present), NEW I, IsFiniteSet(I), NEW f, NEW x \in I
    PROVE  Cardinality(Pairs(I, f))
             = PlayersOn(f[x]) + Cardinality(Pairs(I \ {x}, f))
<1> DEFINE A == Pairs(I \ {x}, f)
           B == Pairs({x}, f)
           P == PresentOn({f[x]})
           g == [n \in P |-> <<x, n>>]
<1>1. IsFiniteSet(A) /\ IsFiniteSet(B)
  <2>1. IsFiniteSet(I \X Present)
    BY FS_Product
  <2>2. A \subseteq I \X Present /\ B \subseteq I \X Present
    BY DEF Pairs
  <2>3. QED
    BY <2>1, <2>2, FS_Subset
<1>2. A \cap B = {} /\ Pairs(I, f) = A \cup B
  BY DEF Pairs
<1>3. g \in Bijection(P, B)
  <2>1. \A n \in P : <<x, n>> \in B
    BY DEF Pairs, PresentOn
  <2>2. \A p \in B : p[2] \in P /\ p = <<x, p[2]>>
    BY DEF Pairs, PresentOn
  <2>3. QED
    BY <2>1, <2>2 DEF Bijection, Injection, Surjection, IsInjective
<1>4. IsFiniteSet(P)
  BY FS_Subset DEF PresentOn
<1>5. PlayersOn(f[x]) = Cardinality(P)
  <2>1. P = {n \in Name : clients[n] # NoClient /\ level[clients[n]] = f[x]}
    BY DEF PresentOn, Present
  <2>2. QED
    BY <2>1 DEF PlayersOn
<1> HIDE DEF A, B, P, g
<1>6. Cardinality(P) = Cardinality(B)
  BY <1>3, <1>4, FS_Bijection DEF ExistsBijection
<1>7. Cardinality(A \cup B) = Cardinality(B) + Cardinality(A)
  <2>1. Cardinality(A \cup B)
          = Cardinality(A) + Cardinality(B) - Cardinality(A \cap B)
    BY <1>1, FS_Union
  <2>2. Cardinality(A \cap B) = 0
    BY <1>2, FS_EmptySet
  <2>3. Cardinality(A) \in Nat /\ Cardinality(B) \in Nat
    BY <1>1, FS_CardinalityType
  <2>4. QED
    BY <2>1, <2>2, <2>3
<1>8. QED
  BY <1>2, <1>5, <1>6, <1>7 DEF A

LEMMA EntriesCounted ==
    ASSUME IsFiniteSet(Present), NEW I, IsFiniteSet(I), NEW f
    PROVE  SumOf([i \in I |-> PlayersOn(f[i])], I) = Cardinality(Pairs(I, f))
<1> DEFINE w == [i \in I |-> PlayersOn(f[i])]
           t == [T \in SUBSET I |-> Cardinality(Pairs(T, f))]
<1>1. ASSUME NEW T \in SUBSET I, T # {}
      PROVE  t[T] = w[First(T)] + t[T \ {First(T)}]
  <2> DEFINE x == First(T)
  <2>1. x \in T /\ x \in I /\ T \ {x} \in SUBSET I /\ w[x] = PlayersOn(f[x])
    BY <1>1, FirstFacts
  <2>2. IsFiniteSet(T)
    BY FS_Subset
  <2> HIDE DEF x
  <2>3. Cardinality(Pairs(T, f)) = PlayersOn(f[x]) + Cardinality(Pairs(T \ {x}, f))
    BY <2>1, <2>2, OneEntryMore
  <2>4. QED
    BY <2>1, <2>3 DEF x
<1>2. t[{}] = 0
  <2>1. Pairs({}, f) = {}
    BY DEF Pairs
  <2>2. QED
    BY <2>1, FS_EmptySet
<1>3. t = Summing(t, w, I)
  BY <1>1, <1>2 DEF Summing
<1> HIDE DEF w
<1>4. SumOf(w, I) = t[I]
  <2> HIDE DEF t
  <2>1. QED
    BY <1>3, SumIs
<1>5. QED
  BY <1>4 DEF w

\* The sums of get_level_list.
LEMMA SumOfDefaults ==
    ASSUME NEW I
    PROVE  MapThenSumSet(DefaultCount, I)
             = SumOf([i \in I |-> PlayersOn(MapList[i])], I)
<1> DEFINE w == [i \in I |-> PlayersOn(MapList[i])]
           F(s) == [T \in SUBSET I |->
                      IF T = {} THEN 0
                      ELSE DefaultCount(First(T)) + s[T \ {First(T)}]]
<1>1. \A s : F(s) = Summing(s, w, I)
  BY FirstFacts DEF Summing, DefaultCount
<1>2. MapThenSumSet(DefaultCount, I) = (CHOOSE s : s = F(s))[I]
  BY DEF MapThenSumSet, MapThenFoldSet, First
<1> HIDE DEF F, w
<1>3. (CHOOSE s : s = F(s)) = (CHOOSE s : s = Summing(s, w, I))
  BY <1>1
<1>4. QED
  BY <1>2, <1>3 DEF SumOf, w

LEMMA SumOfCustoms ==
    ASSUME NEW E
    PROVE  MapThenSumSet(CustomCount, E)
             = SumOf([c \in E |-> PlayersOn([d \in E |-> level[d]][c])], E)
<1> DEFINE w == [c \in E |-> PlayersOn([d \in E |-> level[d]][c])]
           F(s) == [T \in SUBSET E |->
                      IF T = {} THEN 0
                      ELSE CustomCount(First(T)) + s[T \ {First(T)}]]
<1>1. \A s : F(s) = Summing(s, w, E)
  BY FirstFacts DEF Summing, CustomCount
<1>2. MapThenSumSet(CustomCount, E) = (CHOOSE s : s = F(s))[E]
  BY DEF MapThenSumSet, MapThenFoldSet, First
<1> HIDE DEF F, w
<1>3. (CHOOSE s : s = F(s)) = (CHOOSE s : s = Summing(s, w, E))
  BY <1>1
<1>4. QED
  BY <1>2, <1>3 DEF SumOf, w

----------------------------------------------------------------------------
(* Finitely many players are present at any time. *)

PresentInv == IsFiniteSet(Present)

LEMMA PresentStep ==
    ASSUME RoomTypeOK, PresentInv, [RoomNext]_roomVars
    PROVE  PresentInv'
<1> USE DEF PresentInv
<1>1. ASSUME NEW c \in Conn, NEW n \in Name, NEW l \in Level,
             NEW wellFormed \in BOOLEAN, SignOnAccepted(c, n, l, wellFormed)
      PROVE  PresentInv'
  <2>1. Present' \in SUBSET (Present \cup {n})
    BY <1>1 DEF SignOnAccepted, Present, RoomTypeOK
  <2>2. IsFiniteSet(Present \cup {n})
    BY FS_AddElement
  <2>3. QED
    BY <2>1, <2>2, FS_Subset
<1>2. ASSUME NEW c \in Conn, ClientDisconnected(c)
      PROVE  PresentInv'
  <2>1. Present' \in SUBSET Present
    BY <1>2 DEF ClientDisconnected, RemoveClient, Present, roomVars
  <2>2. QED
    BY <2>1, FS_Subset
<1>3. ASSUME UNCHANGED clients PROVE PresentInv'
  <2>1. Present' = Present
    BY <1>3 DEF Present
  <2>2. QED
    BY <2>1
<1>4. QED
  BY <1>1, <1>2, <1>3
  DEF RoomNext, HandleSignOn, SignOnAgain, SignOnRefused, HandleChatMessage,
      HandleUpdate, roomVars

LEMMA PresentFinite == RoomSpec => []PresentInv
<1>1. RoomInit => PresentInv
  <2>1. ASSUME RoomInit PROVE Present = {}
    BY <2>1 DEF RoomInit, Present
  <2>2. QED
    BY <2>1, FS_EmptySet DEF PresentInv
<1>2. QED
  BY <1>1, PresentStep, RoomTyped, PTL DEF RoomSpec

----------------------------------------------------------------------------
(* The level list *)

\* The configured maps whose path no earlier one has: one for each path.
Unrepeated == DOMAIN MapList \ Repeated

LEMMA FirstOfEachPath ==
    /\ \A i, j \in Unrepeated : MapList[i] = MapList[j] => i = j
    /\ {MapList[i] : i \in Unrepeated} = Configured
<1> DEFINE I == DOMAIN MapList
<1>1. I = 1..Len(MapList) /\ Len(MapList) \in Nat
  BY ListingAssumption
<1>2. \A i, j \in Unrepeated : MapList[i] = MapList[j] => i = j
  <2>1. SUFFICES ASSUME NEW i \in Unrepeated, NEW j \in Unrepeated,
                        MapList[i] = MapList[j], i < j
                 PROVE  FALSE
    BY <1>1 DEF Unrepeated
  <2>2. i \in 1..(j - 1) /\ j \in I
    BY <1>1, <2>1 DEF Unrepeated
  <2>3. QED
    BY <2>1, <2>2 DEF Unrepeated, Repeated
<1>3. ASSUME NEW i \in I PROVE \E j \in Unrepeated : MapList[j] = MapList[i]
  <2> DEFINE S == {k \in I : MapList[k] = MapList[i]}
             R == OpToRel(<, Nat)
  <2>1. S \in SUBSET Nat /\ S # {}
    BY <1>1, <1>3
  <2>2. IsWellFoundedOn(R, Nat)
    BY NatLessThanWellFounded
  <2>3. \A m, n \in Nat : m < n => <<m, n>> \in R
    BY DEF OpToRel
  <2> HIDE DEF R, S
  <2>4. PICK j \in S : \A k \in S : ~(<<k, j>> \in R)
    BY <2>1, <2>2, WFMin
  <2>5. j \in I /\ MapList[j] = MapList[i]
    BY <2>4 DEF S
  <2>6. j \notin Repeated
    <3>1. SUFFICES ASSUME NEW k \in 1..(j - 1), MapList[k] = MapList[j]
                   PROVE  FALSE
      BY DEF Repeated
    <3>2. k \in I /\ k < j /\ k \in Nat /\ j \in Nat
      BY <1>1, <2>5, <3>1
    <3>3. k \in S
      BY <2>5, <3>1, <3>2 DEF S
    <3>4. QED
      BY <2>3, <2>4, <3>2, <3>3
  <2>7. QED
    BY <2>5, <2>6 DEF Unrepeated
<1>4. QED
  BY <1>2, <1>3 DEF Unrepeated, Configured

\* The configured maps count the players on them once, and again for each time a
\* path is configured again.
LEMMA DefaultsCounted ==
    ASSUME IsFiniteSet(Present)
    PROVE  /\ MapThenSumSet(DefaultCount, DOMAIN MapList)
                = Cardinality(PresentOn(Configured))
                    + MapThenSumSet(DefaultCount, Repeated)
           /\ MapThenSumSet(DefaultCount, Repeated) \in Nat
<1> DEFINE I == DOMAIN MapList
           A == Pairs(Unrepeated, MapList)
           B == Pairs(Repeated, MapList)
<1>1. IsFiniteSet(I)
  <2>1. I = 1..Len(MapList) /\ Len(MapList) \in Nat
    BY ListingAssumption
  <2>2. QED
    BY <2>1, FS_Interval
<1>2. Unrepeated \subseteq I /\ Repeated \subseteq I /\ I = Unrepeated \cup Repeated
      /\ Unrepeated \cap Repeated = {}
  BY DEF Unrepeated, Repeated
<1>3. IsFiniteSet(Unrepeated) /\ IsFiniteSet(Repeated)
  BY <1>1, <1>2, FS_Subset
<1>4. IsFiniteSet(A) /\ IsFiniteSet(B)
  <2>1. IsFiniteSet(I \X Present)
    BY <1>1, FS_Product
  <2>2. A \subseteq I \X Present /\ B \subseteq I \X Present
    BY <1>2 DEF Pairs
  <2>3. QED
    BY <2>1, <2>2, FS_Subset
<1>5. A \cap B = {} /\ Pairs(I, MapList) = A \cup B
  BY <1>2 DEF Pairs
<1>6. MapThenSumSet(DefaultCount, I) = Cardinality(Pairs(I, MapList))
  BY <1>1, SumOfDefaults, EntriesCounted
<1>7. MapThenSumSet(DefaultCount, Repeated) = Cardinality(B)
  BY <1>3, SumOfDefaults, EntriesCounted
<1>8. Cardinality(A) = Cardinality(PresentOn(Configured))
  <2>1. SumOf([i \in Unrepeated |-> PlayersOn(MapList[i])], Unrepeated)
          = Cardinality(A)
    BY <1>3, EntriesCounted
  <2>2. SumOf([i \in Unrepeated |-> PlayersOn(MapList[i])], Unrepeated)
          = Cardinality(PresentOn({MapList[i] : i \in Unrepeated}))
    BY <1>3, FirstOfEachPath, LevelsCounted
  <2>3. QED
    BY <2>1, <2>2, FirstOfEachPath
<1> HIDE DEF A, B
<1>9. Cardinality(A) \in Nat /\ Cardinality(B) \in Nat
  BY <1>4, FS_CardinalityType
<1>10. Cardinality(A \cup B) = Cardinality(A) + Cardinality(B)
  <2>1. Cardinality(A \cup B)
          = Cardinality(A) + Cardinality(B) - Cardinality(A \cap B)
    BY <1>4, FS_Union
  <2>2. Cardinality(A \cap B) = 0
    BY <1>5, FS_EmptySet
  <2>3. QED
    BY <1>9, <2>1, <2>2
<1>11. QED
  BY <1>5, <1>6, <1>7, <1>8, <1>9, <1>10

\* The entries that players add count those on no configured map, each once.
LEMMA CustomsCounted ==
    ASSUME IsFiniteSet(Present)
    PROVE  MapThenSumSet(CustomCount, CustomEntries)
             = Cardinality(PresentOn({level[c] : c \in Listed} \ Configured))
<1> DEFINE E == CustomEntries
           f == [c \in E |-> level[c]]
<1>1. IsFiniteSet(E)
  <2> DEFINE P == {clients[n] : n \in Present}
             g == [n \in Present |-> clients[n]]
  <2>1. E \in SUBSET P
    BY RoomAssumption DEF CustomEntries, Listed, Present
  <2>2. g \in Surjection(Present, P)
    BY DEF Surjection
  <2> HIDE DEF g, P
  <2>3. IsFiniteSet(P)
    BY <2>2, FS_Surjection
  <2>4. QED
    BY <2>1, <2>3, FS_Subset
<1>2. ASSUME NEW c \in E, NEW d \in E, f[c] = f[d] PROVE c = d
  BY <1>2 DEF CustomEntries
<1>3. {f[c] : c \in E} = {level[c] : c \in Listed} \ Configured
  <2>1. ASSUME NEW c \in Listed, level[c] \notin Configured
        PROVE  \E d \in E : level[d] = level[c]
    <3> DEFINE d == FirstOn(level[c])
    <3>1. d \in Listed /\ level[d] = level[c]
      BY <2>1 DEF FirstOn
    <3>2. d = FirstOn(level[d])
      BY <3>1
    <3> HIDE DEF d
    <3>3. d \in E
      BY <2>1, <3>1, <3>2 DEF CustomEntries
    <3>4. QED
      BY <3>1, <3>3
  <2>2. \A d \in E : d \in Listed /\ level[d] \notin Configured
    BY DEF CustomEntries
  <2>3. QED
    BY <2>1, <2>2
<1>4. MapThenSumSet(CustomCount, E) = SumOf([c \in E |-> PlayersOn(f[c])], E)
  BY SumOfCustoms
<1>5. SumOf([c \in E |-> PlayersOn(f[c])], E)
        = Cardinality(PresentOn({f[c] : c \in E}))
  <2> HIDE DEF f, E
  <2>1. QED
    BY <1>1, <1>2, LevelsCounted
<1>6. QED
  BY <1>3, <1>4, <1>5

\* The numbers in the level list add up to the number of players, and to those
\* on a path once more for each time it is configured again (get_level_list,
\* get_nr_players).
THEOREM LevelListCountsEveryone == RoomSpec => []PlayersCountedPerEntry
<1>1. ASSUME RoomTypeOK, PresentInv PROVE PlayersCountedPerEntry
  <2> USE DEF PresentInv
  <2> DEFINE D == {level[c] : c \in Listed} \ Configured
             A == PresentOn(Configured)
             B == PresentOn(D)
  <2>1. A \cup B = Present /\ A \cap B = {}
    BY <1>1, RoomAssumption DEF PresentOn, Present, Listed, RoomTypeOK
  <2>2. IsFiniteSet(A) /\ IsFiniteSet(B)
    BY <1>1, FS_Subset DEF PresentOn
  <2>3. NrPlayers = Cardinality(Present)
    BY DEF NrPlayers, Present
  <2>4. MapThenSumSet(CustomCount, CustomEntries) = Cardinality(B)
    BY <1>1, CustomsCounted
  <2>5. /\ MapThenSumSet(DefaultCount, DOMAIN MapList)
             = Cardinality(A) + MapThenSumSet(DefaultCount, Repeated)
        /\ MapThenSumSet(DefaultCount, Repeated) \in Nat
    BY <1>1, DefaultsCounted
  <2> DEFINE again == MapThenSumSet(DefaultCount, Repeated)
  <2>6. PlayersCounted = (Cardinality(A) + again) + Cardinality(B)
    BY <2>4, <2>5 DEF PlayersCounted
  <2> HIDE DEF A, B
  <2>7. Cardinality(A) \in Nat /\ Cardinality(B) \in Nat
    BY <2>2, FS_CardinalityType
  <2>8. Cardinality(Present) = Cardinality(A) + Cardinality(B)
    <3>1. Cardinality(A \cup B)
            = Cardinality(A) + Cardinality(B) - Cardinality(A \cap B)
      BY <2>2, FS_Union
    <3>2. Cardinality(A \cap B) = 0
      BY <2>1, FS_EmptySet
    <3>3. QED
      BY <2>1, <2>7, <3>1, <3>2
  <2>9. PlayersCountedPerEntry <=> PlayersCounted = NrPlayers + again
    BY DEF PlayersCountedPerEntry
  <2> HIDE DEF again
  <2>10. again \in Nat
    BY <2>5 DEF again
  <2>11. QED
    BY <2>3, <2>6, <2>7, <2>8, <2>9, <2>10
<1>2. QED
  BY <1>1, PresentFinite, RoomTyped, PTL
=============================================================================
