------------------------------- MODULE Server -------------------------------
(***************************************************************************)
(* The server around the room: acceptor, connections, their asynchronous   *)
(* reads, writes and timers, and the manager that stops them.              *)
(*                                                                         *)
(* It models connection, connection_manager and server on top of Room.     *)
(* io_service runs on one thread: a completion handler is one step, and    *)
(* between two handlers anything may complete.  An operation that has      *)
(* completed waits as a queued handler, which nothing can recall: closing  *)
(* a socket or cancelling a timer only affects what has not completed.     *)
(* Connections are not reused: a peer that returns is another member of    *)
(* Conn.                                                                   *)
(***************************************************************************)
EXTENDS Room

CONSTANT MaxWrites  \* bound: asynchronous writes outstanding on a connection

ASSUME ServerAssumption == MaxWrites \in Nat \ {0}

VARIABLES
    up,           \* the process runs: it has neither crashed nor been killed
    acceptorOpen,
    connections,  \* connection_manager::connections_
    socket,       \* "none", "open", "shut" (both ways) or "closed"
    readOp,       \* async_read_some: "none", "pending", or its handler is
                  \* queued with "data" or with an "error"
    armed,        \* the deadline timer has a wait that has not completed
    fired,        \* client_timed_out is queued for an expiry
    writes        \* asynchronous writes whose handlers have not run

serverVars == <<up, acceptorOpen, connections, socket, readOp, armed, fired,
                writes>>

vars == <<roomVars, serverVars>>

\* Something still holds a shared pointer to the connection: the manager, or
\* the `self` captured by a read or write handler.  The timer's handler holds
\* a bare `this`.
Alive(c) == c \in connections \/ readOp[c] # "none" \/ writes[c] > 0

----------------------------------------------------------------------------
(* The world outside: peers, kernel and clock. *)

\* do_accept, connection_manager::start and the first do_read.
Accept(c) ==
    /\ acceptorOpen
    /\ socket[c] = "none"
    /\ connections' = connections \cup {c}
    /\ socket' = [socket EXCEPT ![c] = "open"]
    /\ readOp' = [readOp EXCEPT ![c] = "pending"]
    /\ armed' = [armed EXCEPT ![c] = TRUE]
    /\ UNCHANGED <<roomVars, up, acceptorOpen, fired, writes>>

ReadCompletes(c, result) ==
    /\ readOp[c] = "pending"
    /\ readOp' = [readOp EXCEPT ![c] = result]
    /\ UNCHANGED <<roomVars, up, acceptorOpen, connections, socket, armed,
                   fired, writes>>

\* A message is there; on a socket that was shut down, one that had arrived
\* before.
DataArrives(c) == socket[c] \in {"open", "shut"} /\ ReadCompletes(c, "data")

\* The peer closes or resets the connection.
PeerFails(c) == socket[c] = "open" /\ ReadCompletes(c, "error")

\* A socket that was shut down reads as ended once its buffer is empty.
ReadEof(c) == socket[c] = "shut" /\ ReadCompletes(c, "error")

TimerExpires(c) ==
    /\ armed[c]
    /\ ~fired[c]
    /\ armed' = [armed EXCEPT ![c] = FALSE]
    /\ fired' = [fired EXCEPT ![c] = TRUE]
    /\ UNCHANGED <<roomVars, up, acceptorOpen, connections, socket, readOp,
                   writes>>

----------------------------------------------------------------------------
(* connection_manager *)

\* Mutant of CloseSockets: the reads are not aborted.
CloseSocketsOnly(S, reads) ==
    /\ socket' = [c \in Conn |-> IF c \in S THEN "closed" ELSE socket[c]]
    /\ readOp' = reads

\* Closing the sockets of S aborts the reads that have not completed.
CloseSockets(S, reads) ==
    /\ socket' = [c \in Conn |-> IF c \in S THEN "closed" ELSE socket[c]]
    /\ readOp' = [c \in Conn |-> IF c \in S /\ reads[c] = "pending"
                                 THEN "error" ELSE reads[c]]

\* Mutants of ManagerStop: the connection is not erased; a connection that was
\* erased before is left alone.
ManagerStopKept(c, reads) ==
    /\ UNCHANGED connections
    /\ ClientDisconnected(c)
    /\ CloseSockets({c}, reads)

ManagerStopOnce(c, reads) ==
    /\ connections' = connections \ {c}
    /\ IF c \in connections THEN ClientDisconnected(c) ELSE UNCHANGED roomVars
    /\ CloseSockets({c}, reads)

\* stop(c) erases c, which may be gone already, and calls connection::stop,
\* which reports the disconnection and closes the socket.
ManagerStop(c, reads) ==
    /\ connections' = connections \ {c}
    /\ ClientDisconnected(c)
    /\ CloseSockets({c}, reads)

\* stop_all: the first client to go takes everyone off the list, so the
\* others find nobody to tell.  The set is ordered by address: any may come
\* first.
StopAll ==
    /\ connections' = {}
    /\ CloseSockets(connections, readOp)
    /\ IF \A c \in connections : session[c] = "none"
       THEN UNCHANGED roomVars
       ELSE \E c \in connections : session[c] # "none" /\ ClientDisconnected(c)

----------------------------------------------------------------------------
(* The read handler *)

\* handle_request on one message, answered with k replies.
Request(c, k) ==
    \/ /\ k = 0
       /\ \/ UNCHANGED roomVars          \* UpdateSelf, SavePosition
          \/ SignOnAgain(c)
          \/ HandleChatMessage(c)
    \/ /\ k > 0
       /\ \/ UNCHANGED roomVars          \* LoadPosition, ServerInfo,
                                         \* LevelList, PlayerList, unknown
          \/ \E n \in Name, l \in Level, wellFormed \in BOOLEAN :
                \/ SignOnRefused(c, n, l, wellFormed)
                \/ SignOnAccepted(c, n, l, wellFormed)
    \/ HandleUpdate(c)

\* Mutant of HandleRead: cancel_one after do_read cancels the new wait.
HandleReadUntimed(c) ==
    /\ readOp[c] = "data"
    /\ readOp' = [readOp EXCEPT ![c] =
                     IF socket[c] = "closed" THEN "error" ELSE "pending"]
    /\ armed' = [armed EXCEPT ![c] = FALSE]
    /\ UNCHANGED <<up, acceptorOpen, connections, socket, fired>>
    /\ \E k \in 0..(MaxWrites - writes[c]) :
          /\ writes' = [writes EXCEPT ![c] = @ + k]
          /\ Request(c, k)

\* Without an error: handle_request, do_write, cancel_one, do_read.  do_read
\* arms the timer again and reads, on a closed socket in vain.
HandleRead(c) ==
    /\ readOp[c] = "data"
    /\ readOp' = [readOp EXCEPT ![c] =
                     IF socket[c] = "closed" THEN "error" ELSE "pending"]
    /\ armed' = [armed EXCEPT ![c] = TRUE]
    /\ UNCHANGED <<up, acceptorOpen, connections, socket, fired>>
    /\ \E k \in 0..(MaxWrites - writes[c]) :
          /\ writes' = [writes EXCEPT ![c] = @ + k]
          /\ Request(c, k)

\* UpdateGame, Message, SavePosition and LoadPosition use this_client_ without
\* a test: before any SignOn it is null.
HandleReadWithoutClient(c) ==
    /\ readOp[c] = "data"
    /\ session[c] = "none"
    /\ up' = FALSE
    /\ UNCHANGED <<roomVars, acceptorOpen, connections, socket, readOp, armed,
                   fired, writes>>

\* Mutant of HandleReadError: no cancel_one.
HandleReadErrorTimed(c) ==
    /\ readOp[c] = "error"
    /\ ManagerStop(c, [readOp EXCEPT ![c] = "none"])
    /\ UNCHANGED <<up, acceptorOpen, armed, fired, writes>>

\* With an error: cancel_one and stop.  No read follows.
HandleReadError(c) ==
    /\ readOp[c] = "error"
    /\ armed' = [armed EXCEPT ![c] = FALSE]
    /\ ManagerStop(c, [readOp EXCEPT ![c] = "none"])
    /\ UNCHANGED <<up, acceptorOpen, fired, writes>>

----------------------------------------------------------------------------
(* The write handler: without a signed-on client the socket is shut down,  *)
(* otherwise an error stops the connection.                                *)

\* Mutant of HandleWrite: has_signed_on_ is not tested.
HandleWriteUntested(c, ok) ==
    /\ writes[c] > 0
    /\ writes' = [writes EXCEPT ![c] = @ - 1]
    /\ \/ /\ session[c] = "none"
          /\ socket' = [socket EXCEPT ![c] =
                           IF @ = "closed" THEN @ ELSE "shut"]
          /\ UNCHANGED <<roomVars, connections, readOp>>
       \/ /\ session[c] # "none" /\ ~ok
          /\ ManagerStop(c, readOp)
       \/ /\ session[c] # "none" /\ ok
          /\ UNCHANGED <<roomVars, connections, socket, readOp>>
    /\ UNCHANGED <<up, acceptorOpen, armed, fired>>

HandleWrite(c, ok) ==
    /\ writes[c] > 0
    /\ writes' = [writes EXCEPT ![c] = @ - 1]
    /\ \/ /\ session[c] # "on"
          /\ socket' = [socket EXCEPT ![c] =
                           IF @ = "closed" THEN @ ELSE "shut"]
          /\ UNCHANGED <<roomVars, connections, readOp>>
       \/ /\ session[c] = "on" /\ ~ok
          /\ ManagerStop(c, readOp)
       \/ /\ session[c] = "on" /\ ok
          /\ UNCHANGED <<roomVars, connections, socket, readOp>>
    /\ UNCHANGED <<up, acceptorOpen, armed, fired>>

----------------------------------------------------------------------------
(* client_timed_out for an expiry.  On a connection that was destroyed the  *)
(* bare `this` dangles: the process may stop or go on.                      *)

HandleTimer(c) ==
    /\ fired[c]
    /\ fired' = [fired EXCEPT ![c] = FALSE]
    /\ \/ /\ Alive(c)
          /\ ManagerStop(c, readOp)
          /\ UNCHANGED up
       \/ /\ ~Alive(c)
          /\ up' \in BOOLEAN
          /\ UNCHANGED <<roomVars, connections, socket, readOp>>
    /\ UNCHANGED <<acceptorOpen, armed, writes>>

\* do_await_stop, on the first signal.
HandleSignal ==
    /\ acceptorOpen
    /\ acceptorOpen' = FALSE
    /\ StopAll
    /\ UNCHANGED <<up, armed, fired, writes>>

----------------------------------------------------------------------------

Init ==
    /\ RoomInit
    /\ up = TRUE
    /\ acceptorOpen = TRUE
    /\ connections = {}
    /\ socket = [c \in Conn |-> "none"]
    /\ readOp = [c \in Conn |-> "none"]
    /\ armed = [c \in Conn |-> FALSE]
    /\ fired = [c \in Conn |-> FALSE]
    /\ writes = [c \in Conn |-> 0]

Outside(c) ==
    Accept(c) \/ DataArrives(c) \/ PeerFails(c) \/ ReadEof(c) \/ TimerExpires(c)

ReadHandler(c) ==
    HandleRead(c) \/ HandleReadWithoutClient(c) \/ HandleReadError(c)

WriteHandler(c) == \E ok \in BOOLEAN : HandleWrite(c, ok)

Next ==
    /\ up
    /\ \/ \E c \in Conn :
              Outside(c) \/ ReadHandler(c) \/ WriteHandler(c) \/ HandleTimer(c)
       \/ HandleSignal

Spec == Init /\ [][Next]_vars

\* io_service runs every queued handler, a small reply always fits the socket
\* buffer or fails, a socket that was shut down has only finitely much left to
\* read, and a timer that messages no longer set anew expires.
Fairness ==
    \A c \in Conn :
        /\ WF_vars(up /\ ReadHandler(c))
        /\ WF_vars(up /\ WriteHandler(c))
        /\ WF_vars(up /\ HandleTimer(c))
        /\ SF_vars(up /\ ReadEof(c))
        /\ <>[](readOp[c] # "data") => WF_vars(up /\ TimerExpires(c))

FairSpec == Spec /\ Fairness

----------------------------------------------------------------------------
(* Properties *)

\* Every variable has its type.
ServerTypeOK ==
    /\ up \in BOOLEAN /\ acceptorOpen \in BOOLEAN
    /\ connections \in SUBSET Conn
    /\ socket \in [Conn -> {"none", "open", "shut", "closed"}]
    /\ readOp \in [Conn -> {"none", "pending", "data", "error"}]
    /\ armed \in [Conn -> BOOLEAN]
    /\ fired \in [Conn -> BOOLEAN]
    /\ writes \in [Conn -> 0..MaxWrites]

\* The manager holds exactly the connections whose socket is in use, and each
\* of them has a read outstanding, so an end of stream cannot go unnoticed.
\* Before it is accepted, a connection has nothing outstanding.
ManagedIsServed ==
    \A c \in Conn :
        /\ c \in connections <=> socket[c] \in {"open", "shut"}
        /\ c \in connections => readOp[c] # "none"
        /\ socket[c] = "none" => readOp[c] = "none" /\ writes[c] = 0

\* Whatever stops a connection, the timer it leaves armed is cancelled by a
\* read handler that is still to come (connection::stop cancels nothing).
ArmedTimerHasReader ==
    \A c \in Conn : armed[c] => readOp[c] # "none"

\* A listed client always has a read outstanding, also when it signed on by a
\* message that was queued while its connection was stopped: the handler that
\* takes it off the list is still to come.
RosterIsServed ==
    \A c \in Listed : readOp[c] # "none"

\* After a signal the last handlers run and io_service::run returns.
Quiet ==
    \A c \in Conn :
        readOp[c] = "none" /\ ~armed[c] /\ ~fired[c] /\ writes[c] = 0

ShutdownCompletes == ~acceptorOpen ~> (Quiet \/ ~up)

\* A client whose SignOn was refused is disconnected (the write handler shuts
\* the socket down, and the read handler sees it end).
RefusedIsDropped ==
    \A c \in Conn : session[c] = "refused" ~> (c \notin connections \/ ~up)

\* A connection whose peer falls silent is dropped by its timer.
SilentPeerIsDropped ==
    \A c \in Conn :
        <>[](readOp[c] # "data") => <>[](c \notin connections \/ ~up)

\* A client that signs on after its connection was stopped does not stay on
\* the list for ever.
StoppedLeavesRoster ==
    \A c \in Conn :
        c \in Listed /\ c \notin connections ~> (c \notin Listed \/ ~up)

\* "Check if someone is already using that username."
\* (src/src/request_handler.cpp:190): two connections in service never have
\* signed on under one name.  Violated: a departure takes everyone off the
\* list (remove_client), which frees the names of those who stay.
DistinctUsernames ==
    \A c, d \in connections :
        c # d /\ session[c] = "on" /\ session[d] = "on"
          => username[c] # username[d]

\* "Stop all asynchronous operations associated with the connection."
\* (src/include/connection.hpp:35): once a connection was stopped it does
\* nothing more, so a client in service only loses its place on the list in a
\* step that stops a connection.  Violated: the aborted read of a connection
\* that its timer stopped stops it again, after newcomers have signed on.
StoppedConnectionIsInert ==
    [][connections' = connections =>
          Listed \cap connections \subseteq Listed']_vars
=============================================================================
