------------------------------- MODULE Listing -------------------------------
(***************************************************************************)
(* What the server answers about the room: the number of players           *)
(* (ServerInfo), the levels with their players (LevelList) and the players *)
(* of a level (PlayerList).                                                *)
(*                                                                         *)
(* It models get_nr_players, get_level_list and get_player_list of         *)
(* client_manager as functions of the room's state; the queries change     *)
(* nothing.  The order of the entries is left out.                         *)
(***************************************************************************)
EXTENDS Room, FiniteSetsExt

CONSTANT MapList  \* config::map_list_: the path of each configured map

ASSUME ListingAssumption ==
    MapList \in Seq(Level) /\ {MapList[i] : i \in DOMAIN MapList} = Maps

\* get_nr_players: the entries of clients_.
NrPlayers == Cardinality({n \in Name : clients[n] # NoClient})

PlayersOn(l) ==
    Cardinality({n \in Name : clients[n] # NoClient /\ level[clients[n]] = l})

Configured == {MapList[i] : i \in DOMAIN MapList}

\* The player that the loop over clients_ meets first on a level.
FirstOn(l) == CHOOSE c \in Listed : level[c] = l

\* Mutant of CustomEntries: already_added is not tested.
CustomEntryPerPlayer == {c \in Listed : level[c] \notin Configured}

\* get_level_list: the players that add an entry for their level: the first on
\* each level that is no default map.
CustomEntries == {c \in Listed : level[c] \notin Configured /\ c = FirstOn(level[c])}

\* get_level_list: the players that the i-th configured map is listed with, and
\* those the entry is listed with that c adds.
DefaultCount(i) == PlayersOn(MapList[i])

CustomCount(c) == PlayersOn(level[c])

\* The players get_level_list counts on all its entries together.
PlayersCounted ==
    MapThenSumSet(DefaultCount, DOMAIN MapList)
        + MapThenSumSet(CustomCount, CustomEntries)

\* Mutant of PlayerList: the level is not compared.
PlayerListOfAll(c) == {username[r] : r \in Listed}

\* get_player_list: the initiator's level mates and the initiator itself; the
\* list of a connection without a client is empty.
PlayerList(c) ==
    {username[r] : r \in {r \in Listed : session[c] # "none" /\ level[r] = level[c]}}

----------------------------------------------------------------------------
(* Properties *)

\* The configured maps whose path an earlier one has.
Repeated == {i \in DOMAIN MapList : \E j \in 1..(i - 1) : MapList[j] = MapList[i]}

\* The numbers in the level list add up to the number of players, and to its
\* players once more for each time a path is configured again: nobody is
\* missed, on whatever level, and nobody is counted twice on another account.
PlayersCountedPerEntry ==
    PlayersCounted = NrPlayers + MapThenSumSet(DefaultCount, Repeated)

\* The list a listed player asks for names itself and those its game shows
\* once its inbox is delivered (get_player_list reads the list the notices
\* were derived from, polls before).
PlayerListIsView ==
    \A r \in Listed :
        PlayerList(r) = Deliver(world[r], inbox[r]) \cup {username[r]}
=============================================================================
