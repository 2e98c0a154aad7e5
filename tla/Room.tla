-------------------------------- MODULE Room --------------------------------
(***************************************************************************)
(* The room: who is signed on, what each signed-on client still has to be  *)
(* told, and which characters its game shows.                              *)
(*                                                                         *)
(* It models client_manager, the inbox of client, and the handlers of      *)
(* request_handler that use them: HandleSignOn, HandleChatMessage, the     *)
(* inbox and death part of HandleUpdate, and client_disconnected.  A       *)
(* connection owns at most one client object, so a client is named by its  *)
(* connection.  The server runs one thread, so a handler is one step.      *)
(***************************************************************************)
EXTENDS Integers, Sequences, SequencesExt

CONSTANTS
    Conn,           \* the connections, each with its this_client_ pointer
    Name,           \* the usernames players ask for
    Level,          \* the level paths players ask for
    Maps,           \* the level paths of the configured map list
    AllowOtherMaps, \* config: levels outside the map list are accepted
    NoClient, NoName, NoLevel,
    Uninitialised,  \* the values a bool that was never set may hold
    MaxInbox        \* bound: an inbox this long gets no chat and no death

ASSUME RoomAssumption ==
    /\ NoClient \notin Conn /\ NoName \notin Name /\ NoLevel \notin Level
    /\ Maps \subseteq Level /\ AllowOtherMaps \in BOOLEAN
    /\ Uninitialised \subseteq BOOLEAN /\ Uninitialised # {}
    /\ MaxInbox \in Nat

VARIABLES
    session,      \* "none": no client object; "refused": one that never
                  \* signed on; "on": signed on
    username, level,
    clients,      \* client_manager::clients_, keyed by username
    inbox,        \* client::inbox_ of each client, oldest notice first
    world,        \* the other characters the game client was told to show
    deathChanged  \* client::death_changed_

roomVars == <<session, username, level, clients, inbox, world, deathChanged>>

Session == {"none", "refused", "on"}

Notice == [type: {"joined", "spawn", "left", "remove", "chat", "died"},
           from: Conn]

Note(type, c) == [type |-> type, from |-> c]

----------------------------------------------------------------------------
(* client_manager *)

Listed == {c \in Conn : \E n \in Name : clients[n] = c}

\* Mutant of Recipients: the level is not compared.
RecipientsOnAnyLevel(c) == Listed \ {c}

\* The clients add_to_inbox posts to: every listed client but the initiator
\* itself that is on the initiator's level.
Recipients(c) == {r \in Listed \ {c} : level[r] = level[c]}

\* Mutant of LevelMates: the initiator is not skipped.
LevelMatesAndSelf(n, l) == {r \in Listed : level[r] = l}

\* Mutant of LevelMates: the level is not compared.
LevelMatesOnAnyLevel(n, l) == {r \in Listed : username[r] # n}

\* What get_clients returns to a client called n on level l.
LevelMates(n, l) == {r \in Listed : username[r] # n /\ level[r] = l}

Post(box, R, notices) ==
    [r \in Conn |-> IF r \in R THEN box[r] \o notices ELSE box[r]]

\* remove_client: with an initiator, every client is taken off the list.
RemoveClient == [n \in Name |-> NoClient]

HaveRoom(box, R) == \A r \in R : Len(box[r]) < MaxInbox

----------------------------------------------------------------------------
(* The game client: what a sequence of replies, in the order they are sent, *)
(* does to the characters it shows.                                         *)

About(s, type, n) ==
    {i \in DOMAIN s : s[i].type = type /\ username[s[i].from] = n}

Deliver(shown, s) ==
    {n \in Name :
        \/ n \in shown /\ About(s, "remove", n) = {}
        \/ \E i \in About(s, "spawn", n) :
               \A j \in About(s, "remove", n) : j < i}

\* HandleUpdate empties the inbox with get_inbox_message, which takes the
\* notice at the back.
DrainOrder(box) == Reverse(box)

----------------------------------------------------------------------------
(* HandleSignOn *)

\* Mutant of SignOnAgain: the newcomer is announced before the test.
SignOnAgainAnnounced(c) ==
    /\ session[c] # "none"
    /\ inbox' = Post(inbox, Recipients(c), <<Note("spawn", c)>>)
    /\ UNCHANGED <<session, username, level, clients, world, deathChanged>>

\* "Client tried signing on, while already being signed on... weird."
SignOnAgain(c) ==
    /\ session[c] # "none"
    /\ UNCHANGED roomVars

\* Mutants of Acceptable: allow_other_maps, or the name test, is forgotten.
AcceptableOnAnyMap(n, l, wellFormed) ==
    wellFormed /\ \A r \in Listed : username[r] # n

AcceptableUnderAnyName(n, l, wellFormed) ==
    wellFormed /\ (AllowOtherMaps \/ l \in Maps)

Acceptable(n, l, wellFormed) ==
    /\ wellFormed
    /\ AllowOtherMaps \/ l \in Maps
    /\ \A r \in Listed : username[r] # n

\* An Error reply.  The client object stays, with no name and no level.
SignOnRefused(c, n, l, wellFormed) ==
    /\ session[c] = "none"
    /\ ~Acceptable(n, l, wellFormed)
    /\ session' = [session EXCEPT ![c] = "refused"]
    /\ \E b \in Uninitialised : deathChanged' = [deathChanged EXCEPT ![c] = b]
    /\ UNCHANGED <<username, level, clients, inbox, world>>

\* The client is on the list before the others are looked up.
SignOnAccepted(c, n, l, wellFormed) ==
    /\ session[c] = "none"
    /\ Acceptable(n, l, wellFormed)
    /\ session' = [session EXCEPT ![c] = "on"]
    /\ username' = [username EXCEPT ![c] = n]
    /\ level' = [level EXCEPT ![c] = l]
    /\ clients' = [clients EXCEPT ![n] = c]
    /\ world' = [world EXCEPT ![c] = {username'[r] : r \in LevelMates(n, l)'}]
    /\ inbox' = Post(inbox, Recipients(c)',
                     <<Note("joined", c), Note("spawn", c)>>)
    \* the constructor leaves death_changed_ uninitialised
    /\ \E b \in Uninitialised : deathChanged' = [deathChanged EXCEPT ![c] = b]

HandleSignOn(c, n, l, wellFormed) ==
    \/ SignOnAgain(c)
    \/ SignOnRefused(c, n, l, wellFormed)
    \/ SignOnAccepted(c, n, l, wellFormed)

----------------------------------------------------------------------------
(* HandleChatMessage: to the level mates and back to the sender. *)

HandleChatMessage(c) ==
    /\ session[c] # "none"
    /\ HaveRoom(inbox, Recipients(c) \cup {c})
    /\ inbox' = Post(inbox, Recipients(c) \cup {c}, <<Note("chat", c)>>)
    /\ UNCHANGED <<session, username, level, clients, world, deathChanged>>

----------------------------------------------------------------------------
(* HandleUpdate: drain the inbox, then look at the reported health.  "down" *)
(* is what the client reports: a health at or below zero, or not awake.     *)

Drained(c) == [inbox EXCEPT ![c] = <<>>]

\* Mutant of DrainInbox: the notices are popped and not sent.
DrainInboxUnsent(c) == UNCHANGED world

DrainInbox(c) ==
    world' = [world EXCEPT ![c] = Deliver(@, DrainOrder(inbox[c]))]

\* "Only announce death once."
UpdateDies(c) ==
    /\ ~deathChanged[c]
    /\ HaveRoom(Drained(c), Recipients(c) \cup {c})
    /\ DrainInbox(c)
    /\ inbox' = Post(Drained(c), Recipients(c) \cup {c}, <<Note("died", c)>>)
    /\ deathChanged' = [deathChanged EXCEPT ![c] = TRUE]

\* Already announced: at most a revival, which only replies to the client.
UpdateDead(c) ==
    /\ deathChanged[c]
    /\ DrainInbox(c)
    /\ inbox' = Drained(c)
    /\ UNCHANGED deathChanged

UpdateAlive(c) ==
    /\ DrainInbox(c)
    /\ inbox' = Drained(c)
    /\ deathChanged' = [deathChanged EXCEPT ![c] = FALSE]

HandleUpdate(c) ==
    /\ session[c] # "none"
    /\ UpdateDies(c) \/ UpdateDead(c) \/ UpdateAlive(c)
    /\ UNCHANGED <<session, username, level, clients>>

----------------------------------------------------------------------------
(* client_disconnected, called by connection::stop.  The client object      *)
(* stays with the connection; nothing marks it as gone.                     *)

ClientDisconnected(c) ==
    IF session[c] = "none"
    THEN UNCHANGED roomVars
    ELSE /\ inbox' = Post(inbox, Recipients(c),
                          <<Note("left", c), Note("remove", c)>>)
         /\ clients' = RemoveClient
         /\ UNCHANGED <<session, username, level, world, deathChanged>>

----------------------------------------------------------------------------

RoomInit ==
    /\ session = [c \in Conn |-> "none"]
    /\ username = [c \in Conn |-> NoName]
    /\ level = [c \in Conn |-> NoLevel]
    /\ clients = [n \in Name |-> NoClient]
    /\ inbox = [c \in Conn |-> <<>>]
    /\ world = [c \in Conn |-> {}]
    /\ deathChanged = [c \in Conn |-> FALSE]

RoomNext ==
    \E c \in Conn :
        \/ \E n \in Name, l \in Level, wellFormed \in BOOLEAN :
               HandleSignOn(c, n, l, wellFormed)
        \/ HandleChatMessage(c)
        \/ HandleUpdate(c)
        \/ ClientDisconnected(c)

RoomSpec == RoomInit /\ [][RoomNext]_roomVars

----------------------------------------------------------------------------
(* Properties *)

\* Every variable has its type.
RoomTypeOK ==
    /\ session \in [Conn -> Session]
    /\ username \in [Conn -> Name \cup {NoName}]
    /\ level \in [Conn -> Level \cup {NoLevel}]
    /\ clients \in [Name -> Conn \cup {NoClient}]
    /\ inbox \in [Conn -> Seq(Notice)]
    /\ world \in [Conn -> SUBSET Name]
    /\ deathChanged \in [Conn -> BOOLEAN]

\* The key of a client in clients_ is the username the client itself holds,
\* and only clients that signed on are listed, on a level the configuration
\* admits (HandleSignOn, add_client).
RosterKeyed ==
    \A n \in Name : clients[n] # NoClient =>
        /\ session[clients[n]] = "on"
        /\ username[clients[n]] = n
        /\ level[clients[n]] \in (IF AllowOtherMaps THEN Level ELSE Maps)

\* Chat, joins, deaths and departures stay within the group: a notice that
\* waits for a client comes from a client on the same level (add_to_inbox).
GroupIsolation ==
    \A r \in Conn : \A i \in DOMAIN inbox[r] :
        level[inbox[r][i].from] = level[r]

\* A connection without a client has no name, no level and no inbox, and no
\* one waits to hear of it.
StrangersUnknown ==
    \A c \in Conn : session[c] = "none" =>
        /\ username[c] = NoName /\ level[c] = NoLevel
        /\ inbox[c] = <<>> /\ world[c] = {}
        /\ \A r \in Conn : \A i \in DOMAIN inbox[r] : inbox[r][i].from # c

\* The inductive invariant of the room's types and of its group isolation: a
\* notice stays within its group because its sender never changes level once
\* it has a client.
RoomInv ==
    RoomTypeOK /\ RosterKeyed /\ StrangersUnknown /\ GroupIsolation

\* A client is never told to show itself, neither by the replies to its own
\* sign-on nor by a notice (get_clients skips by name, add_to_inbox by
\* pointer, and the two agree).
NoSelfSpawn ==
    \A r \in Conn :
        /\ username[r] \notin world[r]
        /\ About(inbox[r], "spawn", username[r]) = {}

\* What a listed client will show once its inbox is delivered in order: exactly
\* the listed clients on its level.  Neither the replies to a sign-on nor the
\* notices nor a drain lose a character or keep one too many.
RosterViewExact ==
    \A r \in Listed :
        Deliver(world[r], inbox[r])
            = {username[w] : w \in LevelMates(username[r], level[r])}

\* No client is told twice to show a character: an order to show n waits at
\* most once, and not while n is shown already (HandleSignOn posts to the
\* others what get_clients gives to the newcomer).
SpawnedOnce ==
    \A r \in Conn, n \in Name :
        /\ \A i, j \in About(inbox[r], "spawn", n) : i = j
        /\ n \in world[r] => About(inbox[r], "spawn", n) = {}

\* Whom a poll sends updates of that its game does not show, although the
\* notices of the same poll came first: only a client that was taken off the
\* list gets them, of clients no notice tells it about (HandleUpdate takes
\* whoever get_clients returns, without a test that the poller is listed).
UpdatesOfStrangers ==
    \A r \in Conn : \A w \in LevelMates(username[r], level[r]) :
        \/ username[w] \in Deliver(world[r], DrainOrder(inbox[r]))
        \/ r \notin Listed /\ \A i \in DOMAIN inbox[r] : inbox[r][i].from # w

\* A client that is still listed has no departure waiting: a departure is the
\* last it hears of the others (remove_client empties the list).
ListedSeeNoDeparture ==
    \A r \in Listed : \A i \in DOMAIN inbox[r] :
        inbox[r][i].type \notin {"left", "remove"}

\* The inductive invariant of the view: with no departure waiting, the order
\* of a drain makes no difference.
ViewInv == RoomInv /\ ListedSeeNoDeparture /\ RosterViewExact

\* "Add commands from queue if available."
\* (src/src/request_handler.cpp:385): a drain has the effect of the notices in
\* the order they were posted.  Violated: the inbox is a stack.
DrainedAsQueued ==
    [][\A c \in Conn :
          ~IsPrefix(inbox[c], inbox'[c])
            => world'[c] = Deliver(world[c], inbox[c])]_roomVars
=============================================================================
