-------------------------------- MODULE Feed --------------------------------
(***************************************************************************)
(* What the update history promises, without its window and its keys: a    *)
(* reader that polls in time is sent every variable published since its    *)
(* last delivery, but for what is passed over when the publisher signs on  *)
(* again.                                                                  *)
(*                                                                         *)
(* Every client publishes sets of variables and reads the others.  A       *)
(* reader is synced with a publisher by its first poll, which delivers     *)
(* nothing, and is owed from then on what is published.                    *)
(***************************************************************************)
EXTENDS Integers, FiniteSets

CONSTANTS Client, Var, Window  \* Window: publications that are remembered

VARIABLES
    synced,  \* synced[r][w]: r has polled w before
    owed,    \* owed[r][w]: the variables r has to be sent of w
    passed,  \* passed[r][w]: those of them that r may not be sent
    lag,     \* lag[r][w]: publications of w since the last delivery to r;
             \* negative while w, rejoined, publishes what r takes for
             \* its predecessor's
    sent     \* sent[r][w]: what the last poll of w delivered to r

feedVars == <<synced, owed, passed, lag, sent>>

Nothing(x) == [r \in Client |-> [w \in Client |-> x]]

Init ==
    /\ synced = Nothing(FALSE)
    /\ owed = Nothing({})
    /\ passed = Nothing({})
    /\ lag = Nothing(0)
    /\ sent = Nothing({})

\* The publisher p adds the variables T to what its readers are owed.
OwedAfter(p, T) ==
    [r \in Client |-> [w \in Client |->
        IF w = p /\ T # {} /\ synced[r][w] THEN owed[r][w] \cup T
                                       ELSE owed[r][w]]]

PassedAfter(p, T) ==
    [r \in Client |-> [w \in Client |->
        IF w = p /\ T # {} /\ synced[r][w] /\ lag[r][w] < 0
        THEN passed[r][w] \cup T ELSE passed[r][w]]]

LagAfter(p, T) ==
    [r \in Client |-> [w \in Client |->
        IF w = p /\ T # {} /\ synced[r][w] THEN lag[r][w] + 1 ELSE lag[r][w]]]

\* The poll of w by r delivers D: everything owed but what is passed over while
\* the lag is within the window, and no more than what is owed in any case.
Delivers(r, w, D) ==
    /\ D \subseteq owed[r][w]
    /\ lag[r][w] \in 0..(Window - 1) => D \cup passed[r][w] = owed[r][w]

\* p publishes T, possibly nothing, and polls the clients S.  A delivery pays
\* the whole debt, delivered or not.
Update(p, T, S) ==
    \E D \in [S -> SUBSET Var] :
        /\ sent' = [sent EXCEPT ![p] =
                       [w \in Client |-> IF w \in S THEN D[w] ELSE @[w]]]
        /\ \A w \in S : Delivers(p, w, D[w])
        /\ owed' = [OwedAfter(p, T) EXCEPT ![p] =
                       [w \in Client |-> IF w \in S /\ D[w] # {}
                                         THEN {} ELSE @[w]]]
        /\ passed' = [PassedAfter(p, T) EXCEPT ![p] =
                         [w \in Client |-> IF w \in S /\ D[w] # {}
                                           THEN {} ELSE @[w]]]
        /\ lag' = [LagAfter(p, T) EXCEPT ![p] =
                       [w \in Client |-> IF w \in S /\ D[w] # {}
                                         THEN 0 ELSE @[w]]]
        /\ \E M \in SUBSET S :
              synced' = [synced EXCEPT ![p] =
                            [w \in Client |-> @[w] \/ w \in M]]

\* w is replaced by a client of the same name: it starts as a reader, and its
\* readers take it for its predecessor.
Rejoin(w) ==
    /\ synced' = [synced EXCEPT ![w] = [x \in Client |-> FALSE]]
    /\ owed' = [r \in Client |-> [x \in Client |->
                   IF w \in {r, x} THEN {} ELSE owed[r][x]]]
    /\ passed' = [r \in Client |-> [x \in Client |->
                     IF w \in {r, x} THEN {} ELSE passed[r][x]]]
    /\ sent' = [sent EXCEPT ![w] = [x \in Client |-> {}]]
    /\ \E d \in [Client -> -(Window + 1)..(-1)] :
          lag' = [r \in Client |-> [x \in Client |->
                     IF r = w THEN 0
                     ELSE IF x = w /\ synced[r][w] THEN d[r]
                     ELSE lag[r][x]]]

Next ==
    \E p \in Client :
        \/ \E T \in SUBSET Var, S \in SUBSET (Client \ {p}) : Update(p, T, S)
        \/ Rejoin(p)

Spec == Init /\ [][Next]_feedVars
=============================================================================
