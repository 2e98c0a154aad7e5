------------------------------ MODULE Character ------------------------------
(***************************************************************************)
(* One character: as its player's game has it, as the server has it, and   *)
(* as the game of another player, the observer, shows it.                  *)
(*                                                                         *)
(* It models the report, death and revival parts of                        *)
(* request_handler::HandleUpdate with the setters of client,               *)
(* AddUpdateSelf and AddOtherClientVariables.  The variables are those of  *)
(* player_variable_type, but the velocities (UpdateSelf leaves them out)   *)
(* and remove_blood (no game reports it).  A variable has two values:      *)
(* TRUE, which is what a revival restores, and FALSE.  What the observer   *)
(* is owed is what UpdateHistory sends it while it polls in time.          *)
(*                                                                         *)
(* The games are external.  They send updates at the configured refresh    *)
(* rate, so an update may be on its way to the server while an UpdateSelf  *)
(* is on its way to the game.                                              *)
(***************************************************************************)
EXTENDS Integers, Sequences

CONSTANTS
    Var,            \* player_variable_type
    Restored,       \* the variables a revival sets
    Vital,          \* the variables that decide whether a player is down
    Uninitialised,  \* the values a bool that was never set may hold
    MaxUpdates,     \* bound: UpdateGame messages on their way
    MaxRevivals     \* bound: UpdateSelf messages on their way

ASSUME CharacterAssumption ==
    /\ Vital \subseteq Restored /\ Restored \subseteq Var
    /\ Uninitialised \subseteq BOOLEAN /\ Uninitialised # {}
    /\ MaxUpdates \in Nat \ {0} /\ MaxRevivals \in Nat \ {0}

VARIABLES
    value,         \* the variables of the client object
    deathChanged,  \* client::death_changed_
    waited,        \* more than 5 seconds have passed since time_of_death_
    reader,        \* the observer's key for this client: "nothing" to have
                   \* a key for, "unsynced" (-1), or "synced"
    owed, known,   \* variables the observer is to be sent, and was ever sent
    picture,       \* the variables as the observer's game has them
    game,          \* the variables as the player's game has them
    changed,       \* variables of the game that changed since its last update
    toServer,      \* UpdateGame messages on their way, each a function
    toOwner,       \* UpdateSelf messages on their way, likewise
    upSince        \* history variable: the player was up in its own game
                   \* at some time since the last announcement of its death

vars == <<value, deathChanged, waited, reader, owed, known, picture, game,
          changed, toServer, toOwner, upSince>>

\* The variables f after those of msg are set.
Update(f, msg) == [v \in Var |-> IF v \in DOMAIN msg THEN msg[v] ELSE f[v]]

Down(f) == \E v \in Vital : ~f[v]

----------------------------------------------------------------------------
(* The player's game, external *)

Change(v) ==
    /\ game' = [game EXCEPT ![v] = ~@]
    /\ changed' = changed \cup {v}
    /\ upSince' = (upSince \/ ~Down(game'))
    /\ UNCHANGED <<value, deathChanged, waited, reader, owed, known, picture,
                   toServer, toOwner>>

\* An update has all that changed, and possibly more: a health that was low
\* and is lower has changed too.
Send ==
    /\ Len(toServer) < MaxUpdates
    /\ \E T \in SUBSET Var :
          /\ changed \subseteq T
          /\ toServer' = Append(toServer, [v \in T |-> game[v]])
    /\ changed' = {}
    /\ UNCHANGED <<value, deathChanged, waited, reader, owed, known, picture,
                   game, toOwner, upSince>>

\* The game takes over what it is sent; it may report some of that back.
ReceiveSelf ==
    /\ toOwner # <<>>
    /\ game' = Update(game, Head(toOwner))
    /\ toOwner' = Tail(toOwner)
    /\ \E T \in SUBSET DOMAIN Head(toOwner) : changed' = changed \cup T
    /\ upSince' = (upSince \/ ~Down(game'))
    /\ UNCHANGED <<value, deathChanged, waited, reader, owed, known, picture,
                   toServer>>

\* The clock passes the 5 seconds.
Tick ==
    /\ ~waited
    /\ waited' = TRUE
    /\ UNCHANGED <<value, deathChanged, reader, owed, known, picture, game,
                   changed, toServer, toOwner, upSince>>

----------------------------------------------------------------------------
(* HandleUpdate of the player *)

\* Mutant of Publish: an update replaces what was owed.
PublishLatest(msg) == IF reader = "synced" THEN DOMAIN msg ELSE {}

\* add_history, for a synced observer.
Publish(msg) == IF reader = "synced" THEN owed \cup DOMAIN msg ELSE {}

\* Mutant of Dies: death_changed_ is not set.
DiesUnmarked(f) ==
    /\ Down(f) /\ ~deathChanged
    /\ value' = f
    /\ waited' = FALSE
    /\ upSince' = ~Down(game)
    /\ UNCHANGED <<deathChanged, toOwner>>

\* "Only announce death once."
Dies(f) ==
    /\ Down(f) /\ ~deathChanged
    /\ value' = f
    /\ deathChanged' = TRUE
    /\ waited' = FALSE
    /\ upSince' = ~Down(game)
    /\ UNCHANGED toOwner

StaysDown(f) ==
    /\ Down(f) /\ deathChanged /\ ~waited
    /\ value' = f
    /\ UNCHANGED <<deathChanged, waited, upSince, toOwner>>

Restore(f) == [v \in Var |-> v \in Restored \/ f[v]]

\* Mutant of SelfUpdate: the variables a revival restored are not new.
SelfUpdateReported(msg, f) == [v \in DOMAIN msg |-> f[v]]

\* The variables that are new: the setters were called for those of the
\* update and for those of the revival.
SelfUpdate(msg, f) == [v \in DOMAIN msg \cup Restored |-> f[v]]

\* "Revive the player after some seconds (experimental)."
Revives(f, msg) ==
    /\ Down(f) /\ deathChanged /\ waited
    /\ Len(toOwner) < MaxRevivals
    /\ value' = Restore(f)
    /\ toOwner' = Append(toOwner, SelfUpdate(msg, value'))
    /\ UNCHANGED <<deathChanged, waited, upSince>>

IsUp(f) ==
    /\ ~Down(f)
    /\ value' = f
    /\ deathChanged' = FALSE
    /\ UNCHANGED <<waited, upSince, toOwner>>

HandleUpdate ==
    /\ toServer # <<>>
    /\ toServer' = Tail(toServer)
    /\ LET msg == Head(toServer)
           f == Update(value, msg)
       IN  /\ Dies(f) \/ StaysDown(f) \/ Revives(f, msg) \/ IsUp(f)
           /\ owed' = Publish(msg)
           /\ reader' = IF reader = "nothing" /\ DOMAIN msg # {}
                        THEN "unsynced" ELSE reader
    /\ UNCHANGED <<known, picture, game, changed>>

----------------------------------------------------------------------------
(* HandleUpdate of the observer: its first poll takes a key, a later one is *)
(* sent the current values of what is owed.                                 *)

ObserverPolls ==
    /\ \/ /\ reader = "unsynced"
          /\ reader' = "synced"
          /\ UNCHANGED <<owed, known, picture>>
       \/ /\ reader = "synced"
          /\ owed' = {}
          /\ known' = known \cup owed
          /\ picture' = Update(picture, [v \in owed |-> value[v]])
          /\ UNCHANGED reader
    /\ UNCHANGED <<value, deathChanged, waited, game, changed, toServer,
                   toOwner, upSince>>

----------------------------------------------------------------------------

\* A new client: its character is well, and death_changed_ was never set.
Init ==
    /\ value = [v \in Var |-> TRUE]
    /\ deathChanged \in Uninitialised
    /\ waited = TRUE
    /\ reader = "nothing"
    /\ owed = {} /\ known = {}
    /\ picture = [v \in Var |-> TRUE]
    /\ game = [v \in Var |-> TRUE]
    /\ changed = {}
    /\ toServer = <<>> /\ toOwner = <<>>
    /\ upSince = TRUE

Next ==
    \/ \E v \in Var : Change(v)
    \/ Send
    \/ ReceiveSelf
    \/ Tick
    \/ HandleUpdate
    \/ ObserverPolls

Spec == Init /\ [][Next]_vars

\* The game keeps sending updates (its timer drops it otherwise), messages
\* arrive, and the clock advances.
FairSpec ==
    /\ Spec
    /\ WF_vars(Send) /\ WF_vars(ReceiveSelf)
    /\ WF_vars(Tick) /\ WF_vars(HandleUpdate)

----------------------------------------------------------------------------
(* Properties *)

\* A message names some of the variables.
Msg == UNION {[T -> BOOLEAN] : T \in SUBSET Var}

\* Every variable has its type.
CharacterTypeOK ==
    /\ value \in [Var -> BOOLEAN]
    /\ deathChanged \in BOOLEAN /\ waited \in BOOLEAN /\ upSince \in BOOLEAN
    /\ reader \in {"nothing", "unsynced", "synced"}
    /\ owed \subseteq Var /\ known \subseteq Var /\ changed \subseteq Var
    /\ picture \in [Var -> BOOLEAN] /\ game \in [Var -> BOOLEAN]
    /\ toServer \in Seq(Msg) /\ Len(toServer) <= MaxUpdates
    /\ toOwner \in Seq(Msg) /\ Len(toOwner) <= MaxRevivals

Named(v, s) == \E i \in DOMAIN s : v \in DOMAIN s[i]

\* The server takes a character for better than its player does only while
\* the player has yet to report a wound or to hear of a revival, also when
\* the two cross on the way (AddUpdateSelf sends all that a revival set).
NeverTooWell ==
    \A v \in Restored :
        value[v] /\ ~game[v]
          => v \in changed \/ Named(v, toServer) \/ Named(v, toOwner)

\* Of the variables it was ever sent, the observer has the server's values
\* but for those it is owed and for revivals, which HandleUpdate does not put
\* into the history: it may show someone as down who is up, and not the
\* reverse.
ObserverMissesOnlyRevivals ==
    \A v \in known :
        picture[v] # value[v] => v \in owed \/ (v \in Restored /\ value[v])

\* An UpdateSelf on its way has all that the revival set.
SelfUpdatesRestore ==
    \A i \in DOMAIN toOwner : \A v \in Restored :
        v \in DOMAIN toOwner[i] /\ toOwner[i][v]

\* An update on its way that says well of a variable that is not comes before
\* another one that names it, or before an UpdateSelf.
LateReportsAreCorrected ==
    \A i \in DOMAIN toServer : \A v \in DOMAIN toServer[i] \cap Restored :
        toServer[i][v] /\ ~game[v]
          => \/ v \in changed \/ Named(v, toOwner)
             \/ \E j \in DOMAIN toServer : i < j /\ v \in DOMAIN toServer[j]

\* The inductive invariant: what crosses on the way decides what the two
\* sides agree on afterwards.
CharacterInv ==
    /\ CharacterTypeOK
    /\ SelfUpdatesRestore /\ LateReportsAreCorrected /\ NeverTooWell
    /\ reader # "synced" => known = {}
    /\ ObserverMissesOnlyRevivals

\* A player that is down gets up again, whatever crosses on the way: each
\* death is noticed, waits out its delay and is answered by a revival that
\* arrives (HandleUpdate).
PlayersGetUp == Down(game) ~> ~Down(game)

\* "Only announce death once."
\* (src/src/request_handler.cpp:396): between two announcements the player
\* has been up in its own game.  Violated: the update that the server takes
\* for a recovery follows its own revival and precedes the UpdateSelf; what
\* the game, still down, reports next is announced as another death.
DeathAnnouncedOnce ==
    [][Dies(value') => upSince]_vars
=============================================================================
