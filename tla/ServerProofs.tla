---------------------------- MODULE ServerProofs ----------------------------
(***************************************************************************)
(* Theorems about Server, for every value of its constants: the server     *)
(* implements the room, and nothing that still matters is left without a   *)
(* handler to come.                                                        *)
(***************************************************************************)
EXTENDS Server, RoomProofs

\* Every step of the server is a step of the room or leaves it alone.
LEMMA ServerStepIsRoomStep ==
    ASSUME ServerTypeOK, [Next]_vars
    PROVE  [RoomNext]_roomVars
<1>1. ASSUME NEW c \in Conn, Outside(c) PROVE UNCHANGED roomVars
  BY <1>1 DEF Outside, Accept, DataArrives, PeerFails, ReadEof, ReadCompletes,
              TimerExpires
<1>2. ASSUME NEW c \in Conn, ClientDisconnected(c) PROVE [RoomNext]_roomVars
  BY <1>2 DEF RoomNext
<1>3. ASSUME NEW c \in Conn, NEW k, Request(c, k) PROVE [RoomNext]_roomVars
  <2>1. ASSUME NEW n \in Name, NEW l \in Level, NEW wellFormed \in BOOLEAN,
               \/ SignOnRefused(c, n, l, wellFormed)
               \/ SignOnAccepted(c, n, l, wellFormed)
        PROVE  RoomNext
    BY <2>1 DEF RoomNext, HandleSignOn
  <2>2. QED
    BY <1>3, <2>1 DEF Request, SignOnAgain, RoomNext
<1>4. ASSUME NEW c \in Conn, ReadHandler(c) PROVE [RoomNext]_roomVars
  BY <1>2, <1>3, <1>4
  DEF ReadHandler, HandleRead, HandleReadWithoutClient, HandleReadError,
      ManagerStop
<1>5. ASSUME NEW c \in Conn, WriteHandler(c) PROVE [RoomNext]_roomVars
  BY <1>2, <1>5 DEF WriteHandler, HandleWrite, ManagerStop
<1>6. ASSUME NEW c \in Conn, HandleTimer(c) PROVE [RoomNext]_roomVars
  BY <1>2, <1>6 DEF HandleTimer, ManagerStop
<1>7. ASSUME HandleSignal PROVE [RoomNext]_roomVars
  BY <1>2, <1>7 DEF HandleSignal, StopAll, ServerTypeOK
<1>8. ASSUME UNCHANGED vars PROVE UNCHANGED roomVars
  BY <1>8 DEF vars
<1>9. QED
  BY <1>1, <1>4, <1>5, <1>6, <1>7, <1>8 DEF Next

----------------------------------------------------------------------------
(* The connections by themselves *)

\* The inductive invariant of the connections: which of them are served, and
\* which may still be dropped by a timer, depend on each other.
ConnInv == ServerTypeOK /\ ManagedIsServed /\ ArmedTimerHasReader

\* connection_manager::stop takes one connection out of the set, closes its
\* socket and aborts its read.
LEMMA ManagerStopEffect ==
    ASSUME NEW c \in Conn, NEW reads, ManagerStop(c, reads)
    PROVE  /\ connections' = connections \ {c}
           /\ socket' = [d \in Conn |-> IF d = c THEN "closed" ELSE socket[d]]
           /\ readOp' = [d \in Conn |-> IF d = c /\ reads[d] = "pending"
                                        THEN "error" ELSE reads[d]]
BY DEF ManagerStop, CloseSockets

LEMMA OutsideStep ==
    ASSUME ConnInv, NEW c \in Conn, Outside(c), UNCHANGED up
    PROVE  ConnInv'
<1>1. CASE Accept(c)
  BY <1>1 DEF Accept, ConnInv, ServerTypeOK, ManagedIsServed,
              ArmedTimerHasReader
<1>2. ASSUME NEW result \in {"data", "error"}, ReadCompletes(c, result)
      PROVE  ConnInv'
  BY <1>2 DEF ReadCompletes, ConnInv, ServerTypeOK, ManagedIsServed,
              ArmedTimerHasReader
<1>3. CASE TimerExpires(c)
  BY <1>3 DEF TimerExpires, ConnInv, ServerTypeOK, ManagedIsServed,
              ArmedTimerHasReader
<1>4. QED
  BY <1>1, <1>2, <1>3 DEF Outside, DataArrives, PeerFails, ReadEof

LEMMA ReadHandlerStep ==
    ASSUME ConnInv, NEW c \in Conn, ReadHandler(c)
    PROVE  ConnInv'
<1> USE ServerAssumption
<1>1. CASE HandleRead(c)
  <2>1. writes' \in [Conn -> 0..MaxWrites]
    BY <1>1 DEF HandleRead, ConnInv, ServerTypeOK
  <2>2. ServerTypeOK'
    BY <1>1, <2>1 DEF HandleRead, ConnInv, ServerTypeOK
  <2>3. \A d \in Conn : readOp[d] # "none" => readOp'[d] # "none"
    BY <1>1 DEF HandleRead, ConnInv, ServerTypeOK
  <2>4. ManagedIsServed'
    <3>1. socket[c] # "none" /\ UNCHANGED <<connections, socket>>
      BY <1>1 DEF HandleRead, ConnInv, ManagedIsServed
    <3>2. \A d \in Conn : d # c => readOp'[d] = readOp[d] /\ writes'[d] = writes[d]
      BY <1>1 DEF HandleRead, ConnInv, ServerTypeOK
    <3>3. QED
      BY <2>3, <3>1, <3>2 DEF ConnInv, ManagedIsServed
  <2>5. ArmedTimerHasReader'
    BY <1>1, <2>3 DEF HandleRead, ConnInv, ServerTypeOK, ArmedTimerHasReader
  <2>6. QED
    BY <2>2, <2>4, <2>5 DEF ConnInv
<1>2. CASE HandleReadWithoutClient(c)
  BY <1>2 DEF HandleReadWithoutClient, ConnInv, ServerTypeOK, ManagedIsServed,
              ArmedTimerHasReader
<1>3. CASE HandleReadError(c)
  <2> DEFINE reads == [readOp EXCEPT ![c] = "none"]
  <2>1. /\ ManagerStop(c, reads) /\ armed' = [armed EXCEPT ![c] = FALSE]
        /\ UNCHANGED <<up, acceptorOpen, fired, writes>>
    BY <1>3 DEF HandleReadError
  <2>2. /\ connections' = connections \ {c}
        /\ socket' = [d \in Conn |-> IF d = c THEN "closed" ELSE socket[d]]
        /\ readOp' = [d \in Conn |-> IF d = c THEN "none" ELSE readOp[d]]
    <3>1. \A d \in Conn : reads[d] = IF d = c THEN "none" ELSE readOp[d]
      BY DEF ConnInv, ServerTypeOK
    <3> HIDE DEF reads
    <3>2. /\ connections' = connections \ {c}
          /\ socket' = [d \in Conn |-> IF d = c THEN "closed" ELSE socket[d]]
          /\ readOp' = [d \in Conn |-> IF d = c /\ reads[d] = "pending"
                                       THEN "error" ELSE reads[d]]
      BY <2>1, ManagerStopEffect
    <3>3. ASSUME NEW d \in Conn
          PROVE  (IF d = c /\ reads[d] = "pending" THEN "error" ELSE reads[d])
                   = IF d = c THEN "none" ELSE readOp[d]
      BY <3>1
    <3>4. QED
      BY <3>2, <3>3
  <2>3. QED
    BY <2>1, <2>2 DEF ConnInv, ServerTypeOK, ManagedIsServed,
                      ArmedTimerHasReader
<1>4. QED
  BY <1>1, <1>2, <1>3 DEF ReadHandler

\* A stop from outside the read handler leaves the read to report an error.
LEMMA StopKeepsReader ==
    ASSUME ConnInv, NEW c \in Conn, ManagerStop(c, readOp), UNCHANGED armed,
           \A d \in Conn : d # c => writes'[d] = writes[d]
    PROVE  /\ connections' \in SUBSET Conn
           /\ socket' \in [Conn -> {"none", "open", "shut", "closed"}]
           /\ readOp' \in [Conn -> {"none", "pending", "data", "error"}]
           /\ \A d \in Conn : readOp[d] # "none" => readOp'[d] # "none"
           /\ ManagedIsServed' /\ ArmedTimerHasReader'
<1>1. /\ connections' = connections \ {c}
      /\ socket' = [d \in Conn |-> IF d = c THEN "closed" ELSE socket[d]]
      /\ readOp' = [d \in Conn |-> IF d = c /\ readOp[d] = "pending"
                                   THEN "error" ELSE readOp[d]]
  BY ManagerStopEffect
<1>2. /\ connections' \in SUBSET Conn
      /\ socket' \in [Conn -> {"none", "open", "shut", "closed"}]
      /\ readOp' \in [Conn -> {"none", "pending", "data", "error"}]
  BY <1>1 DEF ConnInv, ServerTypeOK
<1>3. \A d \in Conn : readOp[d] # "none" => readOp'[d] # "none"
  BY <1>1
<1>4. \A d \in Conn : d # c => socket'[d] = socket[d] /\ readOp'[d] = readOp[d]
  BY <1>1
<1>5. socket'[c] = "closed" /\ c \notin connections'
  BY <1>1
<1>6. ManagedIsServed'
  BY <1>1, <1>3, <1>4, <1>5 DEF ConnInv, ManagedIsServed
<1>7. ArmedTimerHasReader'
  BY <1>3 DEF ConnInv, ArmedTimerHasReader
<1>8. QED
  BY <1>2, <1>3, <1>6, <1>7

LEMMA WriteHandlerStep ==
    ASSUME ConnInv, NEW c \in Conn, WriteHandler(c)
    PROVE  ConnInv'
<1> USE ServerAssumption
<1>1. PICK ok \in BOOLEAN : HandleWrite(c, ok)
  BY DEF WriteHandler
<1>2. /\ writes' \in [Conn -> 0..MaxWrites] /\ socket[c] # "none"
      /\ \A d \in Conn : d # c => writes'[d] = writes[d]
      /\ UNCHANGED <<up, acceptorOpen, armed, fired>>
  BY <1>1 DEF HandleWrite, ConnInv, ServerTypeOK, ManagedIsServed
<1>3. CASE ManagerStop(c, readOp)
  BY <1>2, <1>3, StopKeepsReader DEF ConnInv, ServerTypeOK
<1>4. CASE /\ socket' = [socket EXCEPT ![c] =
                            IF @ = "closed" THEN @ ELSE "shut"]
           /\ UNCHANGED <<connections, readOp>>
  <2>1. /\ \A d \in Conn : d # c => socket'[d] = socket[d]
        /\ socket'[c] = IF socket[c] = "closed" THEN "closed" ELSE "shut"
        /\ socket' \in [Conn -> {"none", "open", "shut", "closed"}]
    BY <1>4 DEF ConnInv, ServerTypeOK
  <2>2. socket[c] \in {"open", "shut", "closed"}
    BY <1>2 DEF ConnInv, ServerTypeOK
  <2>3. ServerTypeOK' /\ ArmedTimerHasReader'
    BY <1>2, <1>4, <2>1 DEF ConnInv, ServerTypeOK, ArmedTimerHasReader
  <2>4. ManagedIsServed'
    BY <1>2, <1>4, <2>1, <2>2 DEF ConnInv, ManagedIsServed
  <2>5. QED
    BY <2>3, <2>4 DEF ConnInv
<1>5. CASE UNCHANGED <<connections, socket, readOp>>
  <2>1. ServerTypeOK' /\ ArmedTimerHasReader'
    BY <1>2, <1>5 DEF ConnInv, ServerTypeOK, ArmedTimerHasReader
  <2>2. ManagedIsServed'
    BY <1>2, <1>5 DEF ConnInv, ManagedIsServed
  <2>3. QED
    BY <2>1, <2>2 DEF ConnInv
<1>6. QED
  BY <1>1, <1>3, <1>4, <1>5 DEF HandleWrite

LEMMA TimerStep ==
    ASSUME ConnInv, NEW c \in Conn, HandleTimer(c)
    PROVE  ConnInv'
<1>1. fired' \in [Conn -> BOOLEAN] /\ UNCHANGED <<acceptorOpen, armed, writes>>
  BY DEF HandleTimer, ConnInv, ServerTypeOK
<1>2. CASE ManagerStop(c, readOp) /\ UNCHANGED up
  BY <1>1, <1>2, StopKeepsReader DEF ConnInv, ServerTypeOK
<1>3. CASE up' \in BOOLEAN /\ UNCHANGED <<connections, socket, readOp>>
  BY <1>1, <1>3 DEF ConnInv, ServerTypeOK, ManagedIsServed,
                    ArmedTimerHasReader
<1>4. QED
  BY <1>2, <1>3 DEF HandleTimer

LEMMA SignalStep ==
    ASSUME ConnInv, HandleSignal
    PROVE  ConnInv'
<1>1. /\ connections' = {} /\ acceptorOpen' = FALSE
      /\ socket' = [d \in Conn |-> IF d \in connections THEN "closed"
                                   ELSE socket[d]]
      /\ readOp' = [d \in Conn |-> IF d \in connections /\ readOp[d] = "pending"
                                   THEN "error" ELSE readOp[d]]
      /\ UNCHANGED <<up, armed, fired, writes>>
  BY DEF HandleSignal, StopAll, CloseSockets
<1>2. \A d \in Conn : /\ readOp[d] # "none" <=> readOp'[d] # "none"
                      /\ socket'[d] \notin {"open", "shut"}
                      /\ socket'[d] = "none" => socket[d] = "none"
  BY <1>1 DEF ConnInv, ManagedIsServed
<1>3. ServerTypeOK'
  BY <1>1 DEF ConnInv, ServerTypeOK
<1>4. ManagedIsServed' /\ ArmedTimerHasReader'
  BY <1>1, <1>2 DEF ConnInv, ManagedIsServed, ArmedTimerHasReader
<1>5. QED
  BY <1>3, <1>4 DEF ConnInv

LEMMA ConnStep ==
    ASSUME ConnInv, [Next]_vars
    PROVE  ConnInv'
<1>1. CASE UNCHANGED vars
  BY <1>1 DEF vars, serverVars, ConnInv, ServerTypeOK, ManagedIsServed,
              ArmedTimerHasReader
<1>2. ASSUME NEW c \in Conn, Outside(c) PROVE ConnInv'
  <2>1. UNCHANGED up
    BY <1>2 DEF Outside, Accept, DataArrives, PeerFails, ReadEof,
                ReadCompletes, TimerExpires
  <2>2. QED
    BY <1>2, <2>1, OutsideStep
<1>3. QED
  BY <1>1, <1>2, ReadHandlerStep, WriteHandlerStep, TimerStep, SignalStep
  DEF Next

LEMMA ConnInit == Init => ConnInv
BY ServerAssumption
DEF Init, ConnInv, ServerTypeOK, ManagedIsServed, ArmedTimerHasReader

\* The connections by themselves: ManagedIsServed and ArmedTimerHasReader hold
\* together, each because of the other (do_read, connection_manager::stop).
THEOREM ConnInvariant == Spec => []ConnInv
BY ConnInit, ConnStep, PTL DEF Spec

\* The server implements the room: whatever peers, timers and signals do, the
\* room only ever takes its own steps.
THEOREM ServerImplementsRoom == Spec => RoomSpec
<1>1. Init => RoomInit
  BY DEF Init
<1>2. ConnInv /\ [Next]_vars => [RoomNext]_roomVars
  BY ServerStepIsRoomStep DEF ConnInv
<1>3. QED
  BY <1>1, <1>2, ConnInvariant, PTL DEF Spec, RoomSpec

\* Every managed connection has a read outstanding, and no other socket is in
\* use.
THEOREM ManagedAreServed == Spec => []ManagedIsServed
<1>1. ConnInv => ManagedIsServed
  BY DEF ConnInv
<1>2. QED
  BY <1>1, ConnInvariant, PTL

\* An armed timer always has a read handler to come, which will cancel it.
THEOREM ArmedTimersAreCancelled == Spec => []ArmedTimerHasReader
<1>1. ConnInv => ArmedTimerHasReader
  BY DEF ConnInv
<1>2. QED
  BY <1>1, ConnInvariant, PTL

----------------------------------------------------------------------------
(* The list and the connections together *)

\* Only a read handler that reports an error ends the reading of a connection,
\* and it takes the client off the list in the same step.
LEMMA RosterServedStep ==
    ASSUME ConnInv, RoomInv, RosterIsServed, [Next]_vars
    PROVE  RosterIsServed'
<1> USE RoomAssumption
<1>1. SUFFICES ASSUME NEW c \in Conn, c \in Listed', readOp'[c] = "none"
               PROVE  FALSE
  BY DEF RosterIsServed, Listed
<1>2. \A d \in Listed : session[d] = "on"
  BY DEF RoomInv, RosterKeyed, Listed
<1>3. CASE readOp[c] = "none"
  <2>1. c \notin Listed
    BY <1>3 DEF RosterIsServed
  <2>2. ASSUME NEW d \in Conn, ClientDisconnected(d) PROVE c \notin Listed'
    BY <2>1, <2>2 DEF ClientDisconnected, RemoveClient, roomVars, Listed
  <2>3. ASSUME UNCHANGED clients PROVE c \notin Listed'
    BY <2>1, <2>3 DEF Listed
  <2>4. PICK d \in Conn : HandleRead(d)
    BY <1>1, <2>2, <2>3
    DEF Next, vars, roomVars, Outside, Accept, DataArrives, PeerFails, ReadEof,
        ReadCompletes, TimerExpires, ReadHandler, HandleReadWithoutClient,
        HandleReadError, WriteHandler, HandleWrite, HandleTimer, HandleSignal,
        StopAll, ManagerStop, ConnInv, ServerTypeOK
  <2>5. d # c
    BY <1>3, <2>4 DEF HandleRead
  <2>6. c \notin Listed'
    <3>1. PICK k : Request(d, k)
      BY <2>4 DEF HandleRead
    <3>2. ASSUME NEW n \in Name, NEW l \in Level, NEW wellFormed \in BOOLEAN,
                 SignOnAccepted(d, n, l, wellFormed)
          PROVE  c \notin Listed'
      BY <2>1, <2>5, <3>2 DEF SignOnAccepted, Listed, RoomInv, RoomTypeOK
    <3>3. QED
      BY <2>3, <3>1, <3>2 DEF Request, SignOnAgain, HandleChatMessage,
                              SignOnRefused, HandleUpdate, roomVars
  <2>7. QED
    BY <1>1, <2>6
<1>4. CASE readOp[c] # "none"
  <2>1. HandleReadError(c)
    <3>1. ASSUME NEW d \in Conn, ManagerStop(d, readOp) PROVE readOp'[c] # "none"
      BY <1>4, <3>1, ManagerStopEffect
    <3>2. ASSUME HandleSignal PROVE readOp'[c] # "none"
      BY <1>4, <3>2 DEF HandleSignal, StopAll, CloseSockets
    <3>3. ASSUME NEW d \in Conn, Outside(d) PROVE readOp'[c] # "none"
      BY <1>4, <3>3 DEF Outside, Accept, DataArrives, PeerFails, ReadEof,
                        ReadCompletes, TimerExpires, ConnInv, ServerTypeOK
    <3>4. ASSUME NEW d \in Conn, HandleReadError(d), d # c
          PROVE  readOp'[c] # "none"
      <4> DEFINE reads == [readOp EXCEPT ![d] = "none"]
      <4>1. ManagerStop(d, reads)
        BY <3>4 DEF HandleReadError
      <4>2. reads[c] = readOp[c]
        BY <3>4 DEF ConnInv, ServerTypeOK
      <4> HIDE DEF reads
      <4>3. readOp'[c] = readOp[c]
        <5>1. readOp' = [x \in Conn |-> IF x = d /\ reads[x] = "pending"
                                       THEN "error" ELSE reads[x]]
          BY <4>1, ManagerStopEffect
        <5>2. QED
          BY <3>4, <4>2, <5>1
      <4>4. QED
        BY <1>4, <4>3
    <3>5. ASSUME NEW d \in Conn, HandleRead(d) PROVE readOp'[c] # "none"
      BY <1>4, <3>5 DEF HandleRead, ConnInv, ServerTypeOK
    <3>6. readOp' # readOp
      BY <1>1, <1>4
    <3>7. QED
      BY <1>1, <3>1, <3>2, <3>3, <3>4, <3>5, <3>6
      DEF Next, vars, serverVars, ReadHandler, HandleReadWithoutClient,
          WriteHandler, HandleWrite, HandleTimer
  <2>2. ClientDisconnected(c)
    BY <2>1 DEF HandleReadError, ManagerStop
  <2>3. c \notin Listed'
    BY <1>2, <2>2 DEF ClientDisconnected, RemoveClient, roomVars, Listed
  <2>4. QED
    BY <1>1, <2>3
<1>5. QED
  BY <1>3, <1>4

\* A listed client always has a read handler to come, so an end of stream, an
\* abort or an expiry will take it off the list.
THEOREM RosterServed == Spec => []RosterIsServed
<1>1. Init => RosterIsServed
  BY RoomAssumption DEF Init, RoomInit, RosterIsServed, Listed
<1>2. Spec => []RoomInv
  BY ServerImplementsRoom, RoomInvariant, PTL
<1>3. QED
  BY <1>1, <1>2, ConnInvariant, RosterServedStep, PTL DEF Spec
=============================================================================
