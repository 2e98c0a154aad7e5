---------------------------- MODULE UpdateHistory ----------------------------
(***************************************************************************)
(* The update history: how the variables a client reports reach the other  *)
(* clients on its level.                                                   *)
(*                                                                         *)
(* It models add_history, get_last_update_key, get_key, set_key and        *)
(* get_missing_update_variable_types of client, and the parts of           *)
(* request_handler::HandleUpdate that use them.  Each client keeps a       *)
(* window of its last updates, newest first, each under a key that wraps   *)
(* around, and for every other client the key of the last update it was    *)
(* sent.  The values are not modelled: a reply carries the current value   *)
(* of every variable it names.                                             *)
(***************************************************************************)
EXTENDS Integers, Sequences, FiniteSets

CONSTANTS
    Client,      \* the clients, by username
    Var,         \* player_variable_type
    MaxHistory,  \* client::max_history
    MaxLag       \* bound: w publishes until a reader lags MaxLag[w] updates

ASSUME HistoryAssumption ==
    /\ MaxHistory \in Nat \ {0}
    /\ MaxLag \in [Client -> Nat]

VARIABLES
    history,       \* client_update_history: [key, types], newest first
    historyIndex,  \* history_index: the key of the next update
    keys,          \* keys[r][w]: client r's key for the name w, -1 for none
    sent,          \* the variables in the last UpdateCharacter of w to r
    owed,          \* history variable: what w published since r's key for w
                   \* was set, or since w signed on again under that name
    passed,        \* history variable: the part of it that w published under
                   \* keys up to the one r has from w's predecessor (lag < 0)
    lag            \* history variable: how many updates of w are newer than
                   \* the one under r's key; negative while w, signed on again,
                   \* has not come as far as that key

vars == <<history, historyIndex, keys, sent, owed, passed, lag>>

KeySpace == 0..MaxHistory

Entry == [key : KeySpace, types : SUBSET Var]

Pairs(x) == [r \in Client |-> [w \in Client |-> x]]

----------------------------------------------------------------------------
(* client *)

\* Mutant of AddHistory: one update too many is kept.
AddHistoryOneMore(h, index, T) ==
    LET longer == <<[key |-> index, types |-> T]>> \o h
    IN  IF Len(longer) > MaxHistory + 1 THEN SubSeq(longer, 1, MaxHistory + 1)
                                        ELSE longer

\* add_history: insert in front, advance the index past max_history to 0, and
\* drop the oldest update of more than max_history.
AddHistory(h, index, T) ==
    LET longer == <<[key |-> index, types |-> T]>> \o h
    IN  IF Len(longer) > MaxHistory THEN SubSeq(longer, 1, MaxHistory)
                                    ELSE longer

\* Mutant of NextIndex: the index wraps one too early.
NextIndexEarly(index) == IF index + 1 >= MaxHistory THEN 0 ELSE index + 1

NextIndex(index) == IF index + 1 > MaxHistory THEN 0 ELSE index + 1

LastUpdateKey(h) == IF Len(h) < 1 THEN -1 ELSE h[1].key

\* Mutant of Missing: the newest update is taken for received.
MissingButNewest(h, key) ==
    UNION {h[y].types : y \in
        {y \in DOMAIN h :
            \E i \in DOMAIN h : /\ 1 < y /\ y < i
                                /\ h[i].key = key
                                /\ \A j \in 1..(i - 1) : h[j].key # key}}

\* get_missing_update_variable_types: the updates in front of the first one
\* under the key; nothing when that is the front or the key is not there.
Missing(h, key) ==
    UNION {h[y].types : y \in
        {y \in DOMAIN h :
            \E i \in DOMAIN h : /\ y < i
                                /\ h[i].key = key
                                /\ \A j \in 1..(i - 1) : h[j].key # key}}

----------------------------------------------------------------------------
(* HandleUpdate *)

\* Mutant of Reply: a reader without a key is sent the window.
ReplyWithWindow(r, w) ==
    IF keys[r][w] = -1
    THEN UNION {history[w][i].types : i \in DOMAIN history[w]}
    ELSE Missing(history[w], keys[r][w])

\* What r is sent of w, and r's key for w afterwards.  Without a key nothing
\* is sent, and the newest key is taken; an empty reply leaves the key.
Reply(r, w) ==
    IF keys[r][w] = -1 THEN {} ELSE Missing(history[w], keys[r][w])

\* Mutant of KeyAfter: an empty reply takes the newest key, too.
KeyAfterAnyPoll(r, w) == LastUpdateKey(history[w])

KeyAfter(r, w) ==
    IF keys[r][w] = -1 \/ Reply(r, w) # {}
    THEN LastUpdateKey(history[w]) ELSE keys[r][w]

\* Client p reports the variables T and is sent the updates of the clients S,
\* those of its level that are listed at that moment.
Update(p, T, S) ==
    /\ T # {} => \A r \in Client : lag[r][p] < MaxLag[p]
    /\ history' = IF T = {} THEN history
                  ELSE [history EXCEPT ![p] = AddHistory(@, historyIndex[p], T)]
    /\ historyIndex' = IF T = {} THEN historyIndex
                       ELSE [historyIndex EXCEPT ![p] = NextIndex(@)]
    /\ keys' = [keys EXCEPT ![p] =
                   [w \in Client |-> IF w \in S THEN KeyAfter(p, w) ELSE @[w]]]
    /\ sent' = [sent EXCEPT ![p] =
                   [w \in Client |-> IF w \in S THEN Reply(p, w) ELSE @[w]]]
    /\ owed' = [r \in Client |-> [w \in Client |->
                   IF r = p /\ w \in S /\ Reply(p, w) # {} THEN {}
                   ELSE IF w = p /\ T # {} /\ keys[r][w] # -1
                   THEN owed[r][w] \cup T
                   ELSE owed[r][w]]]
    /\ passed' = [r \in Client |-> [w \in Client |->
                   IF r = p /\ w \in S /\ Reply(p, w) # {} THEN {}
                   ELSE IF w = p /\ T # {} /\ keys[r][w] # -1 /\ lag[r][w] < 0
                   THEN passed[r][w] \cup T
                   ELSE passed[r][w]]]
    /\ lag' = [r \in Client |-> [w \in Client |->
                   IF r = p /\ w \in S /\ Reply(p, w) # {} THEN 0
                   ELSE IF w = p /\ T # {} /\ keys[r][w] # -1
                   THEN lag[r][w] + 1
                   ELSE lag[r][w]]]

\* The player w left and signs on again: a new client object with the same
\* name, while the others keep the key they had for that name.
Rejoin(w) ==
    /\ history' = [history EXCEPT ![w] = <<>>]
    /\ historyIndex' = [historyIndex EXCEPT ![w] = 0]
    /\ keys' = [keys EXCEPT ![w] = [x \in Client |-> -1]]
    /\ sent' = [sent EXCEPT ![w] = [x \in Client |-> {}]]
    /\ owed' = [r \in Client |-> [x \in Client |->
                   IF w \in {r, x} THEN {} ELSE owed[r][x]]]
    /\ passed' = [r \in Client |-> [x \in Client |->
                   IF w \in {r, x} THEN {} ELSE passed[r][x]]]
    /\ lag' = [r \in Client |-> [x \in Client |->
                   IF r = w THEN 0
                   ELSE IF x = w /\ keys[r][w] # -1 THEN -1 - keys[r][w]
                   ELSE lag[r][x]]]

----------------------------------------------------------------------------

Init ==
    /\ history = [c \in Client |-> <<>>]
    /\ historyIndex = [c \in Client |-> 0]
    /\ keys = Pairs(-1)
    /\ sent = Pairs({})
    /\ owed = Pairs({})
    /\ passed = Pairs({})
    /\ lag = Pairs(0)

Next ==
    \E p \in Client :
        \/ \E T \in SUBSET Var, S \in SUBSET (Client \ {p}) : Update(p, T, S)
        \/ Rejoin(p)

Spec == Init /\ [][Next]_vars

----------------------------------------------------------------------------
(* Properties *)

\* Every variable has its type; the window holds at most MaxHistory updates.
HistoryTypeOK ==
    /\ history \in [Client -> Seq(Entry)]
    /\ \A c \in Client : Len(history[c]) <= MaxHistory
    /\ historyIndex \in [Client -> KeySpace]
    /\ keys \in [Client -> [Client -> KeySpace \cup {-1}]]
    /\ sent \in [Client -> [Client -> SUBSET Var]]
    /\ owed \in [Client -> [Client -> SUBSET Var]]
    /\ passed \in [Client -> [Client -> SUBSET Var]]
    /\ lag \in [Client -> [Client -> Int]]

\* The window holds consecutive keys, so it names no update twice although
\* the keys wrap around (add_history).
WindowConsecutive ==
    \A c \in Client : \A i \in DOMAIN history[c] :
        history[c][i].key = (historyIndex[c] - i) % (MaxHistory + 1)

\* Where a reader's key is in the window (get_missing_update_variable_types).
\* Lag 0 is the update under that key: the last one the reader was sent, or,
\* when the writer signed on again, the new client's update under the same key.
\* The key is at the place of the lag while the window holds that, then
\* nowhere, and after MaxHistory + 1 updates at one the reader never received.
KeyLaw ==
    \A r, w \in Client : keys[r][w] # -1 =>
        \A i \in DOMAIN history[w] :
            history[w][i].key = keys[r][w]
              <=> lag[r][w] >= 0 /\ i - 1 = lag[r][w] % (MaxHistory + 1)

\* A reader that lags less than the window misses nothing at its next poll but
\* what a writer that signed on again published under the keys up to the one
\* the reader remembers (get_missing_update_variable_types).  That is taken for
\* received, and is not sent until it changes again.
OnlyRejoinsLose ==
    \A r, w \in Client :
        keys[r][w] # -1 /\ lag[r][w] \in 0..(MaxHistory - 1)
          => Missing(history[w], keys[r][w]) \cup passed[r][w] = owed[r][w]

\* The history implements the feed.
feed == INSTANCE Feed WITH
    Window <- MaxHistory,
    synced <- [r \in Client |-> [w \in Client |-> keys[r][w] # -1]]

ImplementsFeed == feed!Spec

\* "Skip the lastest update with -1 because that one is already received."
\* (src/src/client.cpp:486): the update found under a reader's key is the last
\* one the reader was sent, so what is in front of it is all that is missing.
\* Set aside what a writer that signed on again published before (passed), which
\* contradicts the comment, too.  Violated: a reader that lags MaxHistory + 2
\* updates finds its key at an update it never received, and what is behind
\* that is never sent.
FoundUpdateWasReceived ==
    \A r, w \in Client :
        keys[r][w] # -1 /\ Missing(history[w], keys[r][w]) # {}
          => Missing(history[w], keys[r][w]) \cup passed[r][w] = owed[r][w]
=============================================================================
