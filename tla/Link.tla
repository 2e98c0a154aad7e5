-------------------------------- MODULE Link --------------------------------
(***************************************************************************)
(* The two byte streams of a connection: the requests of a signed-on       *)
(* client, cut into reads as they come, and the replies, written to a      *)
(* socket whose buffer may fill.                                           *)
(*                                                                         *)
(* It models the read buffer of connection, handle_request and its         *)
(* handlers as far as they answer this client, the saved position, and     *)
(* do_write with the writes boost::asio goes on with afterwards.  Other    *)
(* players, deaths and histories are in Room, Character and UpdateHistory. *)
(***************************************************************************)
EXTENDS Wire, FiniteSets

CONSTANTS
    Requests,       \* the requests the peer's game may send
    Username,       \* the client's name
    Spawn,          \* the position the client signed on with
    AllowTeleport,  \* config: positions may be saved and loaded
    GoAway,         \* the plain text an unknown message is answered with
    BufferSize,     \* the size of buffer_: 8192
    Leftover,       \* the bytes buffer_, and the memory behind it, may hold
    SendRoom,       \* the size of the socket's send buffer
    Gulp,           \* the bytes the peer reads at a time
    MaxRequests,    \* bound: requests the peer sends
    MaxUnread,      \* bound: requests on their way
    MaxOdd          \* bound: reads that are not one whole request

Axis == {PositionX, PositionY, PositionZ}

Position == [Axis -> [1..4 -> Byte]]

\* The username was read off a SignOn; the buffer holds a type and two strings;
\* GoAway does not begin like a LoadPosition reply, and its size is an int.
ASSUME LinkAssumption ==
    /\ \A r \in Requests : WellFormed(r)
    /\ Username \in Seq(Byte) /\ Len(Username) < Half
    /\ GoAway \in Seq(Byte) /\ GoAway # <<>> /\ GoAway[1] # LoadPosition
    /\ Len(GoAway) < Base * Base * Base * Base
    /\ Spawn \in Position /\ AllowTeleport \in BOOLEAN
    /\ Leftover \subseteq Byte /\ Leftover # {}
    /\ BufferSize \in Nat /\ BufferSize > Base
    /\ SendRoom \in Nat \ {0} /\ Gulp \in Nat \ {0}
    /\ MaxRequests \in Nat /\ MaxUnread \in Nat /\ MaxOdd \in Nat

VARIABLES
    unread,   \* the requests that were sent and not read to their end
    skip,     \* the bytes of the first of them that were read already
    nSent,    \* how many requests were sent
    mine,     \* the position as the peer has reported it
    been,     \* history variable: the positions the peer has reported
    buffer,   \* connection::buffer_, and the 4 bytes behind it, of which a
              \* value is read that is cut off at its end
    heard,    \* the last read: what the server took it for, the request it
              \* begins with, if a whole one, and whether that is all
    odd,      \* how many reads were not one whole request
    pos, saved,  \* client::pos..., client::saved_pos...
    inbox,    \* client::inbox_, oldest first
    replies,  \* connection::replies_, oldest first
    writes,   \* the writes that are not finished: the reply with its size,
              \* and how many bytes of it are on the socket
    wire,     \* the bytes on the socket, oldest first, read by the peer or not
    room,     \* the bytes that still fit the socket's send buffer
    answers,  \* history variable: the replies whose write was started
    late      \* history variable: a reply did not fit the send buffer

peerVars == <<unread, skip, nSent, mine, been>>
readVars == <<buffer, heard, odd, pos, saved, inbox>>
writeVars == <<writes, wire, room, answers, late>>

linkVars == <<peerVars, readVars, replies, writeVars>>

\* A byte of memory that was freed: it may have any value.
Stale == Base

----------------------------------------------------------------------------
(* The peer *)

\* A position after the variables vs; of several values the last one counts.
Moved(p, vs) ==
    [x \in Axis |->
        IF \E i \in DOMAIN vs : vs[i].type = x
        THEN vs[CHOOSE i \in DOMAIN vs :
                   /\ vs[i].type = x
                   /\ \A j \in DOMAIN vs : vs[j].type = x => j <= i].value
        ELSE p[x]]

PeerSends(r) ==
    /\ nSent < MaxRequests /\ Len(unread) < MaxUnread
    /\ nSent' = nSent + 1
    /\ unread' = Append(unread, r)
    /\ mine' = Moved(mine, r.vars)
    /\ been' = been \cup {mine'}
    /\ UNCHANGED <<skip, readVars, replies, writeVars>>

Least(m, n) == IF m < n THEN m ELSE n

\* The peer reads what there is, at most Gulp bytes, which makes room.
PeerReads ==
    /\ room < SendRoom
    /\ room' = Least(SendRoom, room + Gulp)
    /\ UNCHANGED <<peerVars, readVars, replies, writes, wire, answers, late>>

----------------------------------------------------------------------------
(* handle_request, on what was taken for the request r *)

\* Mutant of Teleport: the saved position is not complete.
TeleportFlat(r) ==
    IF AllowTeleport /\ r.type = SavePosition
    THEN saved' = [saved EXCEPT ![PositionX] = pos[PositionX],
                                ![PositionZ] = pos[PositionZ]]
    ELSE UNCHANGED saved

\* HandleSavePositionMessage
Teleport(r) ==
    IF AllowTeleport /\ r.type = SavePosition
    THEN saved' = pos ELSE UNCHANGED saved

LoadReply(p) == <<LoadPosition>> \o p[PositionX] \o p[PositionY] \o p[PositionZ]

ChatReply(text) ==
    <<Message>> \o AddString(Username) \o AddString(text) \o AddBool(FALSE)

\* The replies to r: an update drains the inbox from the back; the contents
\* of the lists are left out.
Answer(r) ==
    CASE r.type = UpdateGame -> Reverse(inbox)
      [] r.type = LoadPosition -> IF AllowTeleport THEN <<LoadReply(saved)>>
                                                   ELSE <<>>
      [] r.type \in {ServerInfo, LevelList, PlayerList} -> << <<r.type>> >>
      [] r.type \in {SignOn, UpdateSelf, Message, SavePosition} -> <<>>
      [] OTHER -> <<GoAway>>

Handle(r) ==
    /\ pos' = Moved(pos, r.vars)
    /\ Teleport(r)
    /\ inbox' = CASE r.type = UpdateGame -> <<>>
                  [] r.type = Message -> Append(inbox, ChatReply(r.text))
                  [] OTHER -> inbox
    /\ replies' = Answer(r)

----------------------------------------------------------------------------
(* The read handler of do_read.  It waits while the handler that runs has   *)
(* replies to write.                                                        *)

Sent == FlattenSeq([i \in DOMAIN unread |-> Encode(unread[i])])

Available == SubSeq(Sent, skip + 1, Len(Sent))

\* The first n bytes of buffer_ are overwritten.
Fill(n) ==
    [i \in 1..(BufferSize + 4) |-> IF i <= n THEN Available[i] ELSE buffer[i]]

\* A whole request, read by itself.
ReadWhole ==
    /\ replies = <<>>
    /\ unread # <<>> /\ skip = 0
    /\ LET n == Len(Encode(Head(unread)))
       IN  /\ n <= BufferSize
           /\ buffer' = Fill(n)
           /\ heard' = [taken |-> Taken(buffer', n), first |-> <<Head(unread)>>,
                        whole |-> TRUE]
           /\ Handle(heard'.taken)
    /\ unread' = Tail(unread)
    /\ UNCHANGED <<skip, nSent, mine, been, odd, writeVars>>

\* How many requests end within the first n bytes sent.
Ended(n) ==
    Cardinality({k \in DOMAIN unread :
        Len(FlattenSeq([i \in 1..k |-> Encode(unread[i])])) <= n})

\* Any other n bytes: half a request, the rest of one, or several.
ReadOdd(n) ==
    /\ replies = <<>>
    /\ odd < MaxOdd
    /\ n \in 1..Len(Available) /\ n <= BufferSize
    /\ ~(skip = 0 /\ n = Len(Encode(Head(unread))))
    /\ odd' = odd + 1
    /\ buffer' = Fill(n)
    /\ LET begins == skip = 0 /\ Len(Encode(Head(unread))) <= n
       IN  heard' = [taken |-> Taken(buffer', n),
                     first |-> IF begins THEN <<Head(unread)>> ELSE <<>>,
                     whole |-> FALSE]
    /\ Handle(heard'.taken)
    /\ LET k == Ended(skip + n)
           before == Len(FlattenSeq([i \in 1..k |-> Encode(unread[i])]))
       IN  /\ unread' = SubSeq(unread, k + 1, Len(unread))
           /\ skip' = skip + n - before
    /\ UNCHANGED <<nSent, mine, been, writeVars>>

----------------------------------------------------------------------------
(* do_write *)

\* What async_write writes at once: all that fits; nothing, perhaps, while an
\* earlier write waits for the socket.
AtOnce(size) ==
    {Least(room, size)} \cup (IF writes = <<>> THEN {} ELSE {0})

\* One round of do_write's loop: the size is put in front of the first reply,
\* its write is started, and it is erased, whether it was written or not.
DoWrite ==
    /\ replies # <<>>
    /\ LET reply == AddSizeByte(Head(replies))
       IN  \E k \in AtOnce(Len(reply)) :
              /\ wire' = wire \o SubSeq(reply, 1, k)
              /\ room' = room - k
              /\ writes' = IF k = Len(reply) THEN writes
                           ELSE Append(writes, [reply |-> reply, done |-> k])
              /\ late' = (late \/ k < Len(reply))
    /\ answers' = Append(answers, Head(replies))
    /\ replies' = Tail(replies)
    /\ UNCHANGED <<peerVars, readVars>>

\* async_write goes on with a write when there is room: with what is now in
\* the memory its reply had.
WriteSome(i) ==
    /\ replies = <<>>
    /\ i \in DOMAIN writes /\ room > 0
    /\ LET left == Len(writes[i].reply) - writes[i].done
           k == Least(room, left)
       IN  /\ wire' = wire \o [j \in 1..k |-> Stale]
           /\ room' = room - k
           /\ writes' = IF k = left THEN RemoveAt(writes, i)
                        ELSE [writes EXCEPT ![i].done = @ + k]
    /\ UNCHANGED <<peerVars, readVars, replies, answers, late>>

----------------------------------------------------------------------------

SignedOn == [type |-> SignOn, source |-> <<>>, text |-> <<>>, vars |-> <<>>]

LinkInit ==
    /\ unread = <<>> /\ skip = 0 /\ nSent = 0
    /\ mine = Spawn /\ been = {Spawn}
    /\ \E b \in Leftover : buffer = [i \in 1..(BufferSize + 4) |-> b]
    /\ heard = [taken |-> SignedOn, first |-> <<>>, whole |-> FALSE]
    /\ odd = 0
    /\ pos = Spawn /\ saved = Spawn
    /\ inbox = <<>> /\ replies = <<>> /\ writes = <<>>
    /\ wire = <<>> /\ room = SendRoom
    /\ answers = <<>> /\ late = FALSE

LinkNext ==
    \/ \E r \in Requests : PeerSends(r)
    \/ PeerReads
    \/ ReadWhole
    \/ \E n \in 1..BufferSize : ReadOdd(n)
    \/ DoWrite
    \/ \E i \in DOMAIN writes : WriteSome(i)

LinkSpec == LinkInit /\ [][LinkNext]_linkVars

----------------------------------------------------------------------------
(* Properties *)

LinkTypeOK ==
    /\ unread \in Seq(Requests) /\ skip \in Nat /\ nSent \in Nat
    /\ mine \in Position /\ been \in SUBSET Position
    /\ buffer \in [1..(BufferSize + 4) -> Byte]
    /\ heard \in [taken : Request, first : Seq(Requests), whole : BOOLEAN]
    /\ odd \in Nat
    /\ pos \in Position /\ saved \in Position
    /\ inbox \in Seq(Seq(Byte)) /\ replies \in Seq(Seq(Byte))
    /\ writes \in Seq([reply : Seq(Byte), done : Nat])
    /\ wire \in Seq(Byte \cup {Stale}) /\ room \in 0..SendRoom
    /\ answers \in Seq(Seq(Byte)) /\ late \in BOOLEAN

\* A reply has a size that fits its four bytes, and names a position only if the
\* game has reported it, as long as every read was one whole request.
ReplyInv(a) ==
    /\ Len(a) \in 1..(Base * Base * Base * Base - 1)
    /\ odd = 0 /\ a[1] = LoadPosition => \E p \in been : a = LoadReply(p)

\* The position the server has becomes the one the game has, request by request,
\* over positions the game has reported.
OnItsWay ==
    \E p \in [0..Len(unread) -> been] :
        /\ p[0] = pos /\ p[Len(unread)] = mine
        /\ \A k \in DOMAIN unread : p[k] = Moved(p[k - 1], unread[k].vars)

OnStream(as) == FlattenSeq([i \in DOMAIN as |-> AddSizeByte(as[i])])

InboxInv == \A i \in DOMAIN inbox : ReplyInv(inbox[i]) /\ inbox[i][1] = Message

RepliesInv == \A i \in DOMAIN replies : ReplyInv(replies[i])

AnswersInv == \A i \in DOMAIN answers : ReplyInv(answers[i])

PositionInv == odd = 0 => skip = 0 /\ saved \in been /\ OnItsWay

WritesInv == \A i \in DOMAIN writes : writes[i].done < Len(writes[i].reply)

WireInv == ~late => writes = <<>> /\ wire = OnStream(answers)

\* The inductive invariant of the streams: the types; what may be a reply; the
\* position while every read was one whole request; the writes that are not
\* finished; the bytes on the socket while every reply fit.
LinkInv ==
    /\ LinkTypeOK
    /\ InboxInv
    /\ RepliesInv
    /\ AnswersInv
    /\ PositionInv
    /\ WritesInv
    /\ WireInv

\* A read that begins with a whole request is taken for it, whatever the buffer
\* still holds of longer ones, but for strings whose length is no char
\* (GetString).  More that comes with it is lost, unless it is taken for further
\* variables of an update, which is read up to the size of the read (HandleUpdate).
FirstIsHeard ==
    \A i \in DOMAIN heard.first :
        LET first == Expected(heard.first[i])
        IN  /\ heard.taken.type = first.type
            /\ heard.taken.source = first.source /\ heard.taken.text = first.text
            /\ IsPrefix(first.vars, heard.taken.vars)
            /\ heard.whole => heard.taken = first

\* While every reply fits the send buffer, the peer reads off the stream the
\* replies themselves, whole and in the order of do_write.
RepliesArriveWhole ==
    ~late => RepliesOn(wire) = answers

\* While every read is one whole request, a player is only ever sent back to a
\* position its game has reported as a whole, though the game reports the
\* coordinates one by one (HandleSavePositionMessage, HandleLoadPositionMessage).
LoadedWasReported ==
    odd = 0 =>
        \A i \in DOMAIN answers :
            answers[i][1] = LoadPosition => \E p \in been : answers[i] = LoadReply(p)

\* "the reply object must remain valid and not be changed until the write
\* operation has completed" (src/include/reply.hpp:18): the reply of a write
\* that is not finished is still among the replies.  Violated: do_write erases
\* the reply when its write is started.
ReplyOutlivesWrite ==
    \A i \in DOMAIN writes :
        \E j \in DOMAIN replies : AddSizeByte(replies[j]) = writes[i].reply
=============================================================================
