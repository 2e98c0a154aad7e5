# A verification of ogmp_server

ogmp_server is the server of the Overgrowth multiplayer mod: game clients sign
on to a level, poll the server at a refresh rate with what changed about their
character, and are sent chat, arrivals, departures and what changed about the
other characters of their level. This directory models its core in TLA+,
model-checks it with TLC and proves the invariants that matter with TLAPS.

## 1. The system

| Part | State it keeps | Operations | Talks to |
| --- | --- | --- | --- |
| `server` | acceptor, signal set | accept, stop on a signal | starts connections, `stop_all` |
| `connection_manager` | the set of live connections | `start`, `stop`, `stop_all` | connections |
| `connection` | socket, deadline timer, `this_client_`, replies | read, write and timer handlers, `stop` | `request_handler`, its manager |
| `request_handler` | nothing of its own between messages | one handler per message type, `client_disconnected` | `client_manager`, the client |
| `client_manager` | `clients_`, a map from username to client | `add_client`, `remove_client`, `get_clients`, `add_to_inbox`, lists | the inboxes of clients |
| `client` | identity, character variables, inbox, update history, keys | setters, history, inbox | - |
| `reply`, `Get...` | a byte buffer | encode, decode | the socket |
| `request_parser` | a state machine that nothing drives | `parse` returns `good` at once | - |
| `config`, `log`, `mime_types`, `main` | settings read once | - | - |

**Concurrency.** `main` calls `io_service::run` on one thread, so a completion
handler is atomic and the mutexes of `client_manager` are never contended. What
interleaves is *which* handler runs next: each connection has a read, a timer
and writes outstanding, each may complete at any time, and a completed
operation is queued where neither `close` nor `cancel_one` can recall it. Below the handlers
are two byte streams per connection, which the kernel cuts where it likes.

**What is hard.** A connection is stopped by whichever of a failed read, a
failed write, a timer and a signal comes first, and nothing records that it was
stopped. The roster is keyed by name while filters compare pointers or names.
Notices wait in inboxes that are drained at the next poll. Reports, revivals and
updates of others cross on the way. History keys wrap around. Nothing in a
request says how long it is, and a reply is erased when its write is started. `PROJECT.json`
lists these hazards line by line with the properties aimed at them.

**What makes each part correct.**

- *roster*: one client per name; a notice stays on its level; a player's game
  shows the players of its level, each told once, none too many.
- *connections*: every connection in service, armed timer or listed client has
  a handler still to come; refused and silent peers are dropped; a signal ends
  the process; a stopped connection does nothing more.
- *history*: a reader that polls in time is sent all that was published since
  its last delivery, and a key never names the wrong update; where the code does
  not keep this, it is known what is lost (4.4).
- *lists*: a player that asks is told what its game shows, and every player is
  counted once on each entry of its level.
- *streams*: a read that begins with a request is taken for it, and replies arrive
  whole and in order.
- *character*: the server's and the observers' picture of a player differ from
  the player's own only by what is on its way.

## 2. Modules

| Module | Models | Notes |
| --- | --- | --- |
| `Room` | `client_manager`, inboxes, `HandleSignOn`, `HandleChatMessage`, inbox and death in `HandleUpdate`, `client_disconnected` | one action per handler |
| `Server` | `connection`, `connection_manager`, `server` | extends `Room`: its handlers call Room's |
| `Feed` | what the update history promises | abstract |
| `UpdateHistory` | `add_history`, keys, `get_missing_update_variable_types`, their use in `HandleUpdate` | implements `Feed` |
| `Character` | reports, death and revival in `HandleUpdate`, the setters, `AddUpdateSelf`, `AddOtherClientVariables` | with two external games |
| `Listing` | `get_nr_players`, `get_level_list`, `get_player_list` | functions of `Room`'s state |
| `Wire` | `GetString`, `GetFloat`, `GetBool`, `GetInt`, the loop of `HandleUpdate`, `add_to_buffers`, `add_size_byte` | functions on bytes |
| `Link` | `buffer_`, `handle_request` as far as it answers its own client, the saved position, `do_write` | extends `Wire` |
| `MCRoom`, `MCServer`, `MCHistory`, `MCCharacter`, `MCLink` | the instances TLC checks | |
| `RoomProofs`, `RosterProofs`, `ListingProofs`, `ServerProofs`, `HistoryProofs`, `CharacterProofs`, `WireProofs`, `LinkProofs` | theorems and their proofs | |

The composition is `Room` inside `Server`: a message handled on a connection is
a step of the room, and `ServerImplementsRoom` proves that the server takes no
other steps on the room's variables. `UpdateHistory` and `Character` model the
remaining state of the same handler, `HandleUpdate`, apart from the room: they
touch disjoint members of `client`. `Character` takes from `UpdateHistory` what
`OnlyRejoinsLose` shows, namely that a reader in time is sent all that was
published by a player that did not sign on again. `Link` is one connection seen from below: where the other
modules have a message and a reply, it has the bytes of either.

### Room

`session[c]` is the client object of connection `c`: none, one whose `SignOn`
was refused (it stays, without a name), or one that signed on. `clients` is the
map of `client_manager`; `inbox` holds notices by kind and sender; `world` is
the one external variable, the characters a game was told to show. A handler
that posts two notices posts both in its step. `remove_client` empties the
whole map, which is what the code does.

`death_changed_` is never initialised: the choice of its first value is the
constant `Uninitialised`, both Booleans in the runs.

### Server

`readOp` and `fired` separate an operation that has completed, whose handler is
queued, from one that is pending: only the latter is affected by closing the
socket or cancelling the timer. `Alive` says whether a shared pointer to the
connection is left; the timer holds none. `Accept` gives the connection its
first read and timer. The read handler handles one message, writes `k` replies,
cancels and re-arms the timer and reads again; a message other than `SignOn` or
a query on a connection without a client dereferences a null pointer, and the
process stops (`up`). A timer may expire when its connection is already
destroyed: its handler then reads freed memory, and the model lets the process
stop or go on. A peer that returns is a new connection, so `Conn` bounds
the connections of a behaviour, not the simultaneous ones.

### Listing

The three queries change nothing, so they are operators on the room's state,
checked in each state of the run `room`: a list is asked for between polls and
reads the roster as it is, while the game shows what it was last told.
`get_level_list` counts per entry: one for each configured map, and one for each
other level, which the first of its players that the loop over `clients_` meets
adds (`FirstOn`, `CustomEntries`). A path that is configured twice has two entries
and its players count on both, as `PlayersCountedPerEntry` says.

### UpdateHistory and Feed

Each client has its window `history`, `historyIndex` and, for every name, a key
in `keys`. `sent` is the last update delivered to each reader; `owed`, `passed` and
`lag` are history variables. A player that rejoins starts a new window while
its readers keep the key of its predecessor; `lag` is negative until the new
keys have come as far as that one. `owed` is all the player published since the
reader's key was set or since the player rejoined, and `passed` the part of it
under keys up to the remembered one: when the new window has an update under that
key, the code takes it for the one the reader received, and sends only what is in
front of it. `Feed` keeps only these variables: while the lag is within the window, a poll
delivers everything owed but what is passed over, and never anything that is not
owed. The refinement maps "has a key" to `synced`.

### Character

The variables of one player as the player's game, the server and one observer
have them. A variable has two values, the one a revival restores and another;
the velocities (which `UpdateSelf` leaves out) and `remove_blood` (which no game
reports) are left out. Messages in both directions are queues, since the game
sends updates at a fixed rate and does not wait for answers. The game is not in
the repository: it is assumed to report what changed, possibly more, to start
well, and to take over what `UpdateSelf` names; whether it reports that back is
left open. Here one read is one message; `Link` drops that.

### Wire and Link

A byte has `2 * Half` values, of which a `char` takes the upper half for
negative; `Half` is 128 in the code. The functions of `Wire` are those of the
code with its signs and truncations: a string as long as `Half` is read as
empty, its characters as the values behind it.

In `Link` the game sends requests and the server reads bytes: `ReadWhole` reads
one request by itself, `ReadOdd` any other number of bytes, which may be half a
request or several. Both fill `buffer`, which is never cleared, and handle what
`Taken` makes of it. The loop of `HandleUpdate` tests the end of the read before
a variable and not before its value, so a value may be read from the four bytes
behind `buffer_`; the model has those too, with any content. `DoWrite` is one round of `do_write`'s loop: it starts a
write, of which the socket takes what fits (or nothing, while an earlier write
waits), and erases the reply. `WriteSome` goes on with a write that did not fit;
the bytes it sends are `Stale`, for their memory was freed. The peer reads `Gulp`
bytes at a time, in any order with the rest. The game sends `WellFormed`
requests: a source and a text only with chat, variables only with an update,
each with a value of its type. `HandleChatMessage` reads the source and does not
use it; what it takes a chat for is `Expected`: a string of `Half` bytes or more is
empty, and behind such a source the text is read from within the source. `LinkInv` is the inductive invariant: `PositionInv` relates the
position the server has to the one the game has through the requests between
them, `WireInv` the bytes on the socket to the replies. The game's layout of requests, the
socket and what `async_write` does after it returned are external. Notices of
other players, deaths and the contents of the lists are left out.

## 3. Runs

| Run | Shows | Bounds |
| --- | --- | --- |
| `room` | `ViewInv`, `GroupIsolation`, `NoSelfSpawn`, `RosterViewExact`, `SpawnedOnce`, `UpdatesOfStrangers`, `PlayerListIsView`, `PlayersCountedPerEntry` | 3 connections, 2 names, 3 levels of which 1 is configured, twice, other maps admitted, inbox bound 1 for chat and deaths |
| `server` | `ManagedIsServed`, `ArmedTimerHasReader`, `RosterIsServed`, `RosterKeyed` | 2 connections, 2 names, 2 levels of which 1 is admitted, 1 write outstanding |
| `server_live` | `ShutdownCompletes`, `RefusedIsDropped`, `SilentPeerIsDropped`, `StoppedLeavesRoster` | 2 connections, 1 name, no chat |
| `history` | `HistoryTypeOK`, `WindowConsecutive`, `KeyLaw`, `OnlyRejoinsLose`, `ImplementsFeed` | 2 clients, 2 variables, window 2, one lags to 3, the other to 1 |
| `character` | `CharacterInv`, `NeverTooWell`, `ObserverMissesOnlyRevivals`, `PlayersGetUp` | 2 variables, 1 message each way |
| `link` | `LinkInv`, `FirstIsHeard`, `RepliesArriveWhole`, `LoadedWasReported` | bytes of 32 values, 7 requests of which 4 are sent, 2 on their way, 1 odd read, a socket of 18 bytes |
| `room_queue` | `DrainedAsQueued` violated | as `room` |
| `server_names` | `DistinctUsernames` violated | 3 connections, 1 name |
| `server_inert` | `StoppedConnectionIsInert` violated | as `server` |
| `history_alias` | `FoundUpdateWasReceived` violated | as `history`, lag to 4 and 1 |
| `character_death` | `DeathAnnouncedOnce` violated | 2 variables, 1 message each way |
| `link_writes` | `ReplyOutlivesWrite` violated | as `link` |

**Why the bounds are enough.** Three connections give a newcomer, one who stays
and one who leaves; two names make clashes, and names freed by a departure are
taken again. `MaxInbox` bounds only chat and deaths, which change no other
state; joins and departures are bounded by the connections. Two connections
suffice in `server` for one to be stopped while another signs on. `MaxWrites` 1
leaves a write completing before or after the next message that has no answer;
two answers being written at once are covered by the theorems only. A window of
two has keys 0 to 2, and its updates' lags are 0 and 1. One client that
publishes to lag 3 reaches every case of `KeyLaw`: in the window, out of it,
and, when the keys have wrapped, found again at the newest update; in
`history_alias` it goes on to lag 4, where the key is found behind the newest
and the rest is never sent. The other publishes to lag 1, so that it reads as
well as it is read. A player that rejoins is read with each key its predecessor
may have left. One message each way in `character` is enough for a report and a
revival to cross, because either may be delayed past any number of messages in
the other direction; the proof covers any number. In `link` the requests are
chat with and without a source, with a text and with a source that is too long,
updates with a variable of every kind and positions reported by one coordinate
and by two, and both teleports. Two requests on their way let an odd read cut a
request, join two, or leave a rest that the next read takes for a request; after
one odd read the buffer and the position are already wrong, and `FirstIsHeard`
asks that a later whole read is not. The socket holds one reply and not two, so
a write is late, is overtaken, or overtakes. The bytes have 32 values because a
string of 128 would only make states longer; the theorems of `WireProofs` hold
for any `Half`, and with it replies longer than a byte counts. All invariants of
the passing runs, and the refinement, have a theorem and hold for every value of
the constants.

`CHECK_DEADLOCK FALSE` is set where the system may stop: after a crash or a
completed shutdown, and in `link` when the game has sent all it may.

**Fairness.** `Server`: `io_service` runs every queued handler (weak fairness of
the handlers), a small reply fits the socket buffer or fails, and a socket that
was shut down has finitely much left to read, though data may come before its
end (strong fairness of the end of stream). A timer need only expire on a
connection that eventually receives nothing more: `do_read` sets it anew for
every message, so a peer that keeps talking is never dropped by it, and what
drops a refused peer must be the write handler. Nothing is assumed of peers: no
message need ever arrive. `Character`: the game keeps sending (the timer drops
it otherwise), messages arrive, and the clock advances; the delay of a revival
starts anew only with another death, never with a poll.

## 4. What the code does otherwise

Each violated property quotes what a comment says and the code does not do; the
traces are in the runs.

1. *The inbox is a stack* (`client.cpp:267`). A poll that drains an arrival and a
   departure of one player is sent the departure first and keeps a ghost.
2. *`remove_client` removes everyone* (`client_manager.cpp:66`). After any
   departure the players that stay are off the list: no notice reaches them, and
   their names can be taken. Their polls are answered as before, with updates of
   whoever is listed on their level: of newcomers their game was never told to
   show. `UpdatesOfStrangers` says that this is the only case of an update of a
   character that is not shown, and that nothing that waits will show it. It is why
   `RosterViewExact` speaks of listed clients and why a listed client never has a
   departure waiting.
3. *A stopped connection is stopped again* (`connection.cpp:23`), by its aborted
   read, and with 2. that empties the list of those who came in between.
4. *A history key may name an update that was never received*
   (`client.cpp:480`), when a reader lags more than the window. The key a reader
   has of a player that left names an update of the player that rejoined, too:
   what that player published up to it is taken for received and not sent until it
   changes again. `OnlyRejoinsLose` says exactly which updates these are;
   `FoundUpdateWasReceived` sets them aside, so that its trace shows the first case.
5. *One death may be announced twice* (`request_handler.cpp:433`), when updates
   of the fallen player cross its revival.
6. *A reply is erased while it is written* (`connection.cpp:81`), against
   `reply.hpp:17`: once the socket is full, the rest of a reply is whatever its
   freed memory holds. `RepliesArriveWhole` therefore ends with the first reply
   that does not fit.

## 5. Proofs

All proofs assume only the named assumptions of the modules (`RoomAssumption`,
`ListingAssumption`, `ServerAssumption`, `HistoryAssumption`,
`CharacterAssumption`, `WireAssumption`, `LinkAssumption`): the sets, the window,
the bytes and the buffers may be of any size. `LinkAssumption` says that the
game's requests are well formed, that the username was read off a `SignOn` (so it
is shorter than `Half`), that the buffer holds more than one string, and that the
answer to an unknown message has a size that fits four bytes and does not begin
like the reply to `LoadPosition`.

- `RoomProofs`: `RoomInv` is inductive. `GroupIsolation` by itself is not: a
  notice stays on its level because its sender does, and a sender does not
  change its level because `HandleSignOn` does nothing on a connection that has
  a client; so the invariant adds that a connection without a client is unknown
  to every inbox (`StrangersUnknown`). `RosterIsKeyed` and `GroupsAreIsolated`
  follow.
- `RosterProofs`: `RosterViewIsExact`. The inductive invariant `ViewInv` adds
  `ListedSeeNoDeparture`: with no departure waiting, the order in which an inbox
  is drained makes no difference (`DeliveryWithoutDeparture`), and a view is the
  union of what is shown and what is to come (`ViewSum`). A sign-on adds the
  newcomer to exactly those views its own view starts from.
  `ViewInv` is inductive. `UpdatesOfStrangers` follows from it for listed clients;
  for the others it needs `UnlistedUnaware`, that a client off the list has no
  notice of one on it (`WhoIsUpdatedOfStrangers`): nobody comes back to the list,
  and a newcomer is a stranger to every inbox.
  `NoSelfSpawn` and `SpawnedOnce` speak of clients that are no longer listed too,
  about which `ViewInv` says nothing: `SpawnInv` adds that arrivals that wait are
  not of those already shown, which a sign-on preserves because the newcomer is a
  stranger to every view and every inbox.
- `ListingProofs`: `PlayerListsAreViews`, from `RosterViewIsExact` and the
  keyed roster. `LevelListCountsEveryone`, for every map list: the entries that
  players add are for different levels (`CustomsCounted`), so their sum is taken
  level by level, each step adding those listed on it (`LevelsCounted`). The
  configured entries are summed one by one, as pairs of an entry and a player on
  its level (`EntriesCounted`); split into the first entry of each path and the
  repeated ones, the first count everyone on a configured level once
  (`FirstOfEachPath`, `DefaultsCounted`). The sums are over finite sets only because
  finitely many players are listed at any time, whatever the set of names: that is
  the invariant it needs (`PresentInv`).
- `ServerProofs`: `ServerImplementsRoom`, step by step; the two
  invariants of the connections by themselves, which are inductive only together
  and with the types (`ConnInv`, defined there); and `RosterServed`, which combines
  both: a client is listed only by a handler that reads again.
- `CharacterProofs`: `CharacterInv`. `NeverTooWell` is not inductive: it needs
  that an `UpdateSelf` on its way names all that was restored, and that a report
  that says well of what is not is followed by a correction
  (`LateReportsAreCorrected`).

- `HistoryProofs`: `HistoryInv` is inductive. `WindowLaw` says which key is where
  in the window, `ReaderLaw` where in it the key of a reader is that lags `g`
  (`Place(g)`, the lag modulo the size of the key space), and `Debt` that a
  reader is owed what is passed over and the last `g` updates (`OwedLaw`). A publication
  adds to the first or to the second, as the writer has not or has come as
  far as the key (`PublishedDebt`). `WindowConsecutive`, `KeyLaw` and
  `OnlyRejoinsLose` follow, and with them each step of the history is a
  step of `Feed` (`HistoryImplementsFeed`). The size of the window is a constant,
  so `DivMod` and `ModUnique` first give what the proof needs of remainders.
- `WireProofs`: what is written as a string is read as it was, and the next value
  right behind it, if its length is below `Half` (`ShortStringIsRead`); otherwise
  it is read as empty and its characters as what follows (`LongStringIsEmpty`).
  `ChatIsHeard` combines the two for a source and a text of any lengths.
  `RequestIsHeard` says the same of a whole request of any type: a read that
  begins with it is taken for it, the variables of an update each with its value
  and in order; what follows can only add variables to an update. `RepliesAreRead`
  says it of the other direction: any replies, each behind its size, are read off
  the stream as they were, since a size below `Base`^4 is read as it was written
  (`SizeIsRead`).
- `LinkProofs`: `LinkInv` is inductive (`LinkInvAlways`). `LoadedWasReported` by
  itself is not: a saved position was one the game reported because the position
  the server has is, which is because every request between the two moves the
  server's position to the one the game reported next (`OnItsWay`); an odd read
  breaks that chain, so `PositionInv` speaks of behaviours without one.
  `RepliesArriveWhole` needs `WireInv`, that the socket holds exactly the replies
  behind their sizes while none was late, and that every size fits four bytes
  (`ReplyInv`). `FirstIsHeard` follows of each read from `RequestIsHeard`, for
  what is sent begins with the first request on its way (`SentBegins`).

**Recursion over data.** `Reports`, `RepliesOn` and `FlattenSeq` are recursive
functions over places or parts. That they have values at all (`WalkExists`,
`FlatExists`), and what those are (`WalkAlong`, `FlattenChunks`), is proved
without the library's induction theorems, whose operator parameters the provers
cannot instantiate: of the places at which a claim fails there would be a least
one (`LeastNatural`, from the well-foundedness of the naturals), and the step
before it refutes that (`UpTo`). A walk is described by its places, items and
next places as plain functions, so that one lemma serves both the variables of an
update and the replies of a stream.

Only model-checked: liveness, which is `ShutdownCompletes`, `RefusedIsDropped`,
`SilentPeerIsDropped`, `StoppedLeavesRoster` and `PlayersGetUp`; fairness is out of the prover's reach. The violated properties need no proof: a
trace refutes them.

## 6. Not modelled

- `request_parser`, and the HTTP helpers of `request_handler`: left over from
  the program this one was made from. `parse` returns `good` without looking at
  its input, and nothing calls the others.
- `config`, `log`, `mime_types` and `main`: read or set once. What the handlers
  take from the configuration are constants of the modules.
- `add_command`, `get_client` and `pop_inactive_clients` of `client_manager`:
  never called.
- The text of messages, and the contents of the lists in `Link`.
- The resolution and binding of the listening address.

Three hazards have no property. A message that needs a client and comes before
`SignOn` (`request_handler.cpp:283`) stops the process; the model has the step,
and nothing in the repository promises otherwise. The inbox of a client that
talks and never polls (`client.cpp:53`) grows without bound, which the models
cut off by `MaxInbox`. A first death may go unannounced because `death_changed_`
is not initialised (`client.cpp:9`); the models start with either value. Where a
property covers a hazard only in part, `PROJECT.json` says which part. That a
write which did not fit its socket ends is not stated: nothing but the socket and
`boost::asio` decides it.

## 7. Plan

Done, in this order: `Room`, `Server`, `Feed` and `UpdateHistory`, `Character`
with their proofs; then `Listing`, `Wire` and `Link`, and the proofs of the
history, of its refinement, and of `NoSelfSpawn` and `SpawnedOnce`.

After that the invariants that sum, or take bytes apart: the level list, whole
requests and streams in `Wire`, and `LinkInv` with what follows from it.

Left: the condition under which each violated property does hold, as a theorem
(for `FoundUpdateWasReceived` the lag within the window, for `DistinctUsernames`
a roster nobody has left yet); and a composition of `Link` with `Room`, in which
the replies of a poll are those of the room's notices.
