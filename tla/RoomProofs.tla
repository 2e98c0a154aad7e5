----------------------------- MODULE RoomProofs -----------------------------
(***************************************************************************)
(* Theorems about Room, for every value of its constants.                  *)
(***************************************************************************)
EXTENDS Room, TLAPS

\* A notice posted to some clients is appended to their inboxes and to no
\* other (add_to_inbox).
LEMMA PostType ==
    ASSUME NEW box \in [Conn -> Seq(Notice)], NEW R,
           NEW notices \in Seq(Notice)
    PROVE  Post(box, R, notices) \in [Conn -> Seq(Notice)]
BY DEF Post

\* What is in an inbox after a post was there before or was posted to it.
LEMMA PostContent ==
    ASSUME NEW box \in [Conn -> Seq(Notice)], NEW R,
           NEW notices \in Seq(Notice), NEW r \in Conn,
           NEW i \in DOMAIN Post(box, R, notices)[r]
    PROVE  \/ i \in DOMAIN box[r] /\ Post(box, R, notices)[r][i] = box[r][i]
           \/ /\ r \in R
              /\ \E j \in DOMAIN notices :
                    Post(box, R, notices)[r][i] = notices[j]
<1>1. CASE r \notin R
  BY <1>1 DEF Post
<1>2. CASE r \in R
  <2>1. Post(box, R, notices)[r] = box[r] \o notices
    BY <1>2 DEF Post
  <2>2. i \in 1..(Len(box[r]) + Len(notices))
    BY <2>1
  <2>3. CASE i <= Len(box[r])
    BY <2>1, <2>2, <2>3
  <2>4. CASE ~(i <= Len(box[r]))
    <3>1. i - Len(box[r]) \in DOMAIN notices
      BY <2>2, <2>4
    <3>2. (box[r] \o notices)[i] = notices[i - Len(box[r])]
      BY <2>2, <2>4
    <3>3. QED
      BY <2>1, <3>1, <3>2, <1>2
  <2>5. QED
    BY <2>3, <2>4
<1>3. QED
  BY <1>1, <1>2

----------------------------------------------------------------------------
(* Type correctness *)

LEMMA NoteType ==
    ASSUME NEW c \in Conn,
           NEW type \in {"joined", "spawn", "left", "remove", "chat", "died"}
    PROVE  /\ Note(type, c) \in Notice
           /\ Note(type, c).from = c /\ Note(type, c).type = type
BY DEF Note, Notice

LEMMA OneNote ==
    ASSUME NEW c \in Conn, NEW x \in Notice, x.from = c
    PROVE  /\ <<x>> \in Seq(Notice) /\ DOMAIN <<x>> = {1} /\ <<x>>[1] = x
           /\ \A j \in DOMAIN <<x>> : <<x>>[j].from = c
<1>1. <<x>> \in Seq(Notice) /\ DOMAIN <<x>> = {1} /\ <<x>>[1] = x
  OBVIOUS
<1>2. QED
  BY <1>1

LEMMA TwoNotes ==
    ASSUME NEW c \in Conn, NEW x \in Notice, x.from = c,
           NEW y \in Notice, y.from = c
    PROVE  /\ <<x, y>> \in Seq(Notice) /\ DOMAIN <<x, y>> = {1, 2}
           /\ <<x, y>>[1] = x /\ <<x, y>>[2] = y
           /\ \A j \in DOMAIN <<x, y>> : <<x, y>>[j].from = c
<1>1. /\ <<x, y>> \in Seq(Notice) /\ DOMAIN <<x, y>> = {1, 2}
      /\ <<x, y>>[1] = x /\ <<x, y>>[2] = y
  OBVIOUS
<1>2. QED
  BY <1>1

\* What every handler but a sign-on leaves as it is, and DrainInbox.
LEMMA DrainType ==
    ASSUME RoomTypeOK, NEW c \in Conn, DrainInbox(c)
    PROVE  /\ world' \in [Conn -> SUBSET Name]
           /\ Drained(c) \in [Conn -> Seq(Notice)]
<1>1. Deliver(world[c], DrainOrder(inbox[c])) \in SUBSET Name
  BY DEF Deliver
<1>2. QED
  BY <1>1 DEF DrainInbox, Drained, RoomTypeOK

\* The conjuncts of RoomInv, handler by handler.  SignOnAccepted is the one
\* step that changes a name or a level, and only of a stranger.
LEMMA SignOnAcceptedStep ==
    ASSUME RoomInv, NEW c \in Conn, NEW n \in Name, NEW l \in Level,
           NEW wellFormed \in BOOLEAN, SignOnAccepted(c, n, l, wellFormed)
    PROVE  RoomInv'
<1> USE RoomAssumption
<1> DEFINE R == Recipients(c)'
           notices == <<Note("joined", c), Note("spawn", c)>>
<1>1. notices \in Seq(Notice) /\ \A j \in DOMAIN notices : notices[j].from = c
  BY NoteType, OneNote, TwoNotes
<1>2. inbox' = Post(inbox, R, notices) /\ inbox \in [Conn -> Seq(Notice)]
  BY DEF SignOnAccepted, RoomInv, RoomTypeOK
<1> HIDE DEF notices
<1>4. \A r \in Listed : r # c /\ r \in Conn /\ username[r] \in Name
  BY DEF RoomInv, RosterKeyed, SignOnAccepted, Listed
<1>l. /\ \A r \in Listed' : r \in Conn /\ (r = c \/ r \in Listed)
      /\ username'[c] = n /\ level'[c] = l
      /\ \A d \in Conn : d # c => /\ username'[d] = username[d]
                                  /\ level'[d] = level[d]
  BY DEF SignOnAccepted, RoomInv, RoomTypeOK, Listed
<1>r. /\ \A r \in R : r \in Listed /\ level[r] = l
      /\ \A r \in LevelMates(n, l)' : r \in Listed
  BY <1>l, <1>4 DEF Recipients, LevelMates
<1> HIDE DEF R
<1>3. ASSUME NEW r \in Conn, NEW i \in DOMAIN inbox'[r]
      PROVE  \/ i \in DOMAIN inbox[r] /\ inbox'[r][i] = inbox[r][i]
             \/ r \in R /\ inbox'[r][i].from = c
  BY <1>1, <1>2, <1>3, PostContent
<1>5. RoomTypeOK'
  <2>1. inbox' \in [Conn -> Seq(Notice)]
    BY <1>1, <1>2, PostType
  <2>2. {username'[r] : r \in LevelMates(n, l)'} \in SUBSET Name
    BY <1>4, <1>l, <1>r
  <2>3. world' \in [Conn -> SUBSET Name]
    BY <2>2 DEF SignOnAccepted, RoomInv, RoomTypeOK
  <2>4. QED
    BY <2>1, <2>3, ZenonT(60) DEF SignOnAccepted, RoomInv, RoomTypeOK, Session
<1>6. RosterKeyed'
  <2>1. level'[c] \in (IF AllowOtherMaps THEN Level ELSE Maps)
    BY DEF SignOnAccepted, Acceptable, RoomInv, RoomTypeOK
  <2>2. session'[c] = "on" /\ username'[c] = n
    BY DEF SignOnAccepted, RoomInv, RoomTypeOK
  <2>3. ASSUME NEW m \in Name, clients'[m] # NoClient, m # n
        PROVE  clients[m] = clients'[m] /\ clients[m] # c /\ clients[m] \in Conn
    BY <2>3 DEF SignOnAccepted, RoomInv, RoomTypeOK, RosterKeyed
  <2>4. clients'[n] = c
    BY DEF SignOnAccepted, RoomInv, RoomTypeOK
  <2>5. \A d \in Conn : d # c => /\ session'[d] = session[d]
                                 /\ username'[d] = username[d]
                                 /\ level'[d] = level[d]
    BY DEF SignOnAccepted, RoomInv, RoomTypeOK
  <2>6. QED
    BY <2>1, <2>2, <2>3, <2>4, <2>5 DEF RosterKeyed, RoomInv
<1>7. StrangersUnknown'
  <2>1. SUFFICES ASSUME NEW d \in Conn, session'[d] = "none"
                 PROVE  /\ username'[d] = NoName /\ level'[d] = NoLevel
                        /\ inbox'[d] = <<>> /\ world'[d] = {}
                        /\ \A r \in Conn : \A i \in DOMAIN inbox'[r] :
                              inbox'[r][i].from # d
    BY DEF StrangersUnknown
  <2>2. d # c /\ session[d] = "none"
    BY <2>1 DEF SignOnAccepted, RoomInv, RoomTypeOK
  <2>3. d \notin Listed
    BY <2>2 DEF RoomInv, RosterKeyed, Listed
  <2>4. inbox'[d] = inbox[d]
    BY <1>2, <1>r, <2>3 DEF Post
  <2>5. /\ username'[d] = NoName /\ level'[d] = NoLevel
        /\ inbox'[d] = <<>> /\ world'[d] = {}
    BY <2>2, <2>4 DEF SignOnAccepted, RoomInv, RoomTypeOK, StrangersUnknown
  <2>6. ASSUME NEW r \in Conn, NEW i \in DOMAIN inbox'[r]
        PROVE  inbox'[r][i].from # d
    BY <1>3, <2>2, <2>6 DEF RoomInv, StrangersUnknown
  <2>7. QED
    BY <2>5, <2>6
<1>8. GroupIsolation'
  <2>1. SUFFICES ASSUME NEW r \in Conn, NEW i \in DOMAIN inbox'[r]
                 PROVE  level'[inbox'[r][i].from] = level'[r]
    BY DEF GroupIsolation
  <2>2. level'[c] = l /\ \A d \in Conn : d # c => level'[d] = level[d]
    BY DEF SignOnAccepted, RoomInv, RoomTypeOK
  <2>3. CASE r \in R /\ inbox'[r][i].from = c
    BY <1>4, <1>l, <1>r, <2>3
  <2>4. CASE i \in DOMAIN inbox[r] /\ inbox'[r][i] = inbox[r][i]
    <3>1. inbox[r] # <<>> /\ inbox[r][i].from # c /\ inbox[r][i].from \in Conn
      <4>1. inbox[r][i] \in Notice
        BY <1>2, <2>4
      <4>2. inbox[r] # <<>>
        BY <2>4
      <4>3. inbox[r][i].from # c
        BY <2>4 DEF SignOnAccepted, RoomInv, StrangersUnknown
      <4>4. QED
        BY <4>1, <4>2, <4>3 DEF Notice
    <3>2. r # c
      BY <3>1 DEF SignOnAccepted, RoomInv, StrangersUnknown
    <3>3. QED
      BY <2>2, <2>4, <3>1, <3>2 DEF RoomInv, GroupIsolation
  <2>5. QED
    BY <1>3, <2>3, <2>4
<1>9. QED
  BY <1>5, <1>6, <1>7, <1>8 DEF RoomInv

\* A handler that only posts to inboxes it may have emptied: what is new comes
\* from the client c, whose level the recipients share.
LEMMA PostStep ==
    ASSUME RoomInv, NEW c \in Conn, session[c] # "none",
           NEW box \in [Conn -> Seq(Notice)],
           \A r \in Conn : box[r] = inbox[r] \/ box[r] = <<>>,
           NEW R, \A r \in R : r \in Conn => level[r] = level[c] /\ session[r] # "none",
           NEW notices \in Seq(Notice),
           \A j \in DOMAIN notices : notices[j].from = c,
           inbox' = Post(box, R, notices),
           UNCHANGED <<session, username, level>>,
           world' \in [Conn -> SUBSET Name],
           \A d \in Conn : session[d] = "none" => world'[d] = {}
    PROVE  StrangersUnknown' /\ GroupIsolation'
<1>1. ASSUME NEW r \in Conn, NEW i \in DOMAIN inbox'[r]
      PROVE  \/ i \in DOMAIN inbox[r] /\ inbox'[r][i] = inbox[r][i]
             \/ r \in R /\ inbox'[r][i].from = c
  BY <1>1, PostContent
<1>2. ASSUME NEW d \in Conn, session[d] = "none" PROVE inbox'[d] = <<>>
  BY <1>2 DEF Post, RoomInv, StrangersUnknown
<1>3. StrangersUnknown'
  <2>1. ASSUME NEW d \in Conn, session[d] = "none", NEW r \in Conn,
               NEW i \in DOMAIN inbox'[r]
        PROVE  inbox'[r][i].from # d
    BY <1>1, <2>1 DEF RoomInv, StrangersUnknown
  <2>2. QED
    BY <1>2, <2>1 DEF StrangersUnknown, RoomInv
<1>4. GroupIsolation'
  BY <1>1 DEF GroupIsolation, RoomInv
<1>5. QED
  BY <1>3, <1>4

\* The recipients of a notice from a client all have one (add_to_inbox).
LEMMA RecipientsSignedOn ==
    ASSUME RoomInv, NEW c \in Conn
    PROVE  \A r \in Recipients(c) : r \in Conn /\ session[r] = "on"
                                    /\ level[r] = level[c]
BY RoomAssumption DEF Recipients, Listed, RoomInv, RosterKeyed

LEMMA ChatStep ==
    ASSUME RoomInv, NEW c \in Conn, HandleChatMessage(c)
    PROVE  RoomInv'
<1> DEFINE R == Recipients(c) \cup {c}
           notices == <<Note("chat", c)>>
<1>1. notices \in Seq(Notice) /\ \A j \in DOMAIN notices : notices[j].from = c
  BY NoteType, OneNote, TwoNotes
<1>2. inbox' = Post(inbox, R, notices) /\ inbox \in [Conn -> Seq(Notice)]
  BY DEF HandleChatMessage, RoomInv, RoomTypeOK
<1>3. \A r \in R : r \in Conn => level[r] = level[c] /\ session[r] # "none"
  BY RecipientsSignedOn DEF HandleChatMessage
<1> HIDE DEF notices, R
<1>4. inbox' \in [Conn -> Seq(Notice)]
  BY <1>1, <1>2, PostType
<1>5. RoomTypeOK' /\ RosterKeyed'
  BY <1>4 DEF HandleChatMessage, RoomInv, RoomTypeOK, RosterKeyed
<1>6. /\ session[c] # "none" /\ UNCHANGED <<session, username, level>>
      /\ world' \in [Conn -> SUBSET Name]
      /\ \A d \in Conn : session[d] = "none" => world'[d] = {}
  BY DEF HandleChatMessage, RoomInv, RoomTypeOK, StrangersUnknown
<1>7. StrangersUnknown' /\ GroupIsolation'
  BY <1>1, <1>2, <1>3, <1>6, PostStep
<1>8. QED
  BY <1>5, <1>7 DEF RoomInv

LEMMA UpdateStep ==
    ASSUME RoomInv, NEW c \in Conn, HandleUpdate(c)
    PROVE  RoomInv'
<1> DEFINE R == Recipients(c) \cup {c}
           notices == <<Note("died", c)>>
<1>1. notices \in Seq(Notice) /\ \A j \in DOMAIN notices : notices[j].from = c
  BY NoteType, OneNote, TwoNotes
<1>2. DrainInbox(c)
  BY DEF HandleUpdate, UpdateDies, UpdateDead, UpdateAlive
<1>3. world' \in [Conn -> SUBSET Name] /\ Drained(c) \in [Conn -> Seq(Notice)]
  BY <1>2, DrainType DEF RoomInv
<1>4. \A r \in Conn : Drained(c)[r] = inbox[r] \/ Drained(c)[r] = <<>>
  BY DEF Drained, RoomInv, RoomTypeOK
<1>5. \A r \in R : r \in Conn => level[r] = level[c] /\ session[r] # "none"
  BY RecipientsSignedOn DEF HandleUpdate
<1>6. /\ session[c] # "none" /\ UNCHANGED <<session, username, level, clients>>
      /\ \A d \in Conn : session[d] = "none" => world'[d] = {}
  BY <1>2 DEF HandleUpdate, DrainInbox, RoomInv, RoomTypeOK, StrangersUnknown
<1> HIDE DEF notices, R
<1>7. \/ inbox' = Post(Drained(c), R, notices)
      \/ inbox' = Post(Drained(c), {}, notices)
  <2>1. CASE UpdateDies(c)
    BY <2>1 DEF UpdateDies, R, notices
  <2>2. CASE UpdateDead(c) \/ UpdateAlive(c)
    <3>1. inbox' = Drained(c)
      BY <2>2 DEF UpdateDead, UpdateAlive
    <3>2. Post(Drained(c), {}, notices) = Drained(c)
      BY <1>3 DEF Post
    <3>3. QED
      BY <3>1, <3>2
  <2>3. QED
    BY <2>1, <2>2 DEF HandleUpdate
<1>8. inbox' \in [Conn -> Seq(Notice)]
  <2>1. ASSUME NEW Q PROVE Post(Drained(c), Q, notices) \in [Conn -> Seq(Notice)]
    BY <1>1, <1>3, PostType
  <2>2. QED
    BY <1>7, <2>1
<1>9. deathChanged' \in [Conn -> BOOLEAN]
  BY DEF HandleUpdate, UpdateDies, UpdateDead, UpdateAlive, RoomInv, RoomTypeOK
<1>10. RoomTypeOK' /\ RosterKeyed'
  BY <1>3, <1>6, <1>8, <1>9 DEF RoomInv, RoomTypeOK, RosterKeyed
<1>11. StrangersUnknown' /\ GroupIsolation'
  <2>1. \A r \in {} : r \in Conn => level[r] = level[c] /\ session[r] # "none"
    OBVIOUS
  <2>2. CASE inbox' = Post(Drained(c), R, notices)
    BY <1>1, <1>3, <1>4, <1>5, <1>6, <2>2, PostStep
  <2>3. CASE inbox' = Post(Drained(c), {}, notices)
    BY <1>1, <1>3, <1>4, <1>6, <2>1, <2>3, PostStep
  <2>4. QED
    BY <1>7, <2>2, <2>3
<1>12. QED
  BY <1>10, <1>11 DEF RoomInv

LEMMA DisconnectedStep ==
    ASSUME RoomInv, NEW c \in Conn, ClientDisconnected(c),
           session[c] # "none"
    PROVE  RoomInv'
<1> DEFINE R == Recipients(c)
           notices == <<Note("left", c), Note("remove", c)>>
<1>1. notices \in Seq(Notice) /\ \A j \in DOMAIN notices : notices[j].from = c
  BY NoteType, OneNote, TwoNotes
<1>2. inbox' = Post(inbox, R, notices) /\ inbox \in [Conn -> Seq(Notice)]
  BY DEF ClientDisconnected, RoomInv, RoomTypeOK
<1>3. \A r \in R : r \in Conn => level[r] = level[c] /\ session[r] # "none"
  BY RecipientsSignedOn
<1> HIDE DEF notices, R
<1>4. inbox' \in [Conn -> Seq(Notice)]
  BY <1>1, <1>2, PostType
<1>5. RoomTypeOK' /\ RosterKeyed'
  <2>1. clients' = [n \in Name |-> NoClient]
    BY DEF ClientDisconnected, RemoveClient
  <2>2. UNCHANGED <<session, username, level, world, deathChanged>>
    BY DEF ClientDisconnected
  <2>3. RoomTypeOK'
    BY <1>4, <2>1, <2>2 DEF RoomInv, RoomTypeOK
  <2>4. RosterKeyed'
    BY <2>1 DEF RosterKeyed
  <2>5. QED
    BY <2>3, <2>4
<1>6. /\ UNCHANGED <<session, username, level>>
      /\ world' \in [Conn -> SUBSET Name]
      /\ \A d \in Conn : session[d] = "none" => world'[d] = {}
  BY DEF ClientDisconnected, RoomInv, RoomTypeOK, StrangersUnknown
<1>7. StrangersUnknown' /\ GroupIsolation'
  BY <1>1, <1>2, <1>3, <1>6, PostStep
<1>8. QED
  BY <1>5, <1>7 DEF RoomInv

LEMMA StutterStep ==
    ASSUME RoomInv, UNCHANGED roomVars
    PROVE  RoomInv'
BY DEF RoomInv, roomVars, RoomTypeOK, RosterKeyed, StrangersUnknown,
       GroupIsolation

LEMMA SignOnRefusedStep ==
    ASSUME RoomInv, NEW c \in Conn, NEW n \in Name, NEW l \in Level,
           NEW wellFormed \in BOOLEAN, SignOnRefused(c, n, l, wellFormed)
    PROVE  RoomInv'
<1> USE RoomAssumption
<1>1. RoomTypeOK'
  BY DEF SignOnRefused, RoomInv, RoomTypeOK, Session
<1>2. \A d \in Conn : session'[d] = "none" => session[d] = "none"
  BY DEF SignOnRefused, RoomInv, RoomTypeOK
<1>3. \A d \in Conn : session[d] = "on" => session'[d] = "on"
  BY DEF SignOnRefused, RoomInv, RoomTypeOK
<1>4. RosterKeyed'
  BY <1>3 DEF SignOnRefused, RoomInv, RoomTypeOK, RosterKeyed
<1>5. StrangersUnknown' /\ GroupIsolation'
  BY <1>2 DEF SignOnRefused, RoomInv, StrangersUnknown, GroupIsolation
<1>6. QED
  BY <1>1, <1>4, <1>5 DEF RoomInv

LEMMA RoomInvStep ==
    ASSUME RoomInv, [RoomNext]_roomVars
    PROVE  RoomInv'
<1>1. ASSUME NEW c \in Conn, NEW n \in Name, NEW l \in Level,
             NEW wellFormed \in BOOLEAN, HandleSignOn(c, n, l, wellFormed)
      PROVE  RoomInv'
  BY <1>1, SignOnRefusedStep, SignOnAcceptedStep, StutterStep
  DEF HandleSignOn, SignOnAgain
<1>2. ASSUME NEW c \in Conn, ClientDisconnected(c) PROVE RoomInv'
  BY <1>2, DisconnectedStep, StutterStep DEF ClientDisconnected
<1>3. QED
  BY <1>1, <1>2, ChatStep, UpdateStep, StutterStep DEF RoomNext

LEMMA RoomInvInit == RoomInit => RoomInv
BY RoomAssumption
DEF RoomInit, RoomInv, RoomTypeOK, RosterKeyed, StrangersUnknown,
    GroupIsolation, Session

\* The inductive invariant holds of the room.
THEOREM RoomInvariant == RoomSpec => []RoomInv
BY RoomInvInit, RoomInvStep, PTL DEF RoomSpec

\* Every variable of the room keeps its type.
THEOREM RoomTyped == RoomSpec => []RoomTypeOK
<1>1. RoomInv => RoomTypeOK
  BY DEF RoomInv
<1>2. QED
  BY <1>1, RoomInvariant, PTL

\* clients_ is keyed by the names of its clients, all signed on and on a level
\* the configuration admits.
THEOREM RosterIsKeyed == RoomSpec => []RosterKeyed
<1>1. RoomInv => RosterKeyed
  BY DEF RoomInv
<1>2. QED
  BY <1>1, RoomInvariant, PTL

\* No notice ever waits for a client on another level than its sender's.
THEOREM GroupsAreIsolated == RoomSpec => []GroupIsolation
<1>1. RoomInv => GroupIsolation
  BY DEF RoomInv
<1>2. QED
  BY <1>1, RoomInvariant, PTL
=============================================================================
