---------------------------- MODULE RosterProofs ----------------------------
(***************************************************************************)
(* What a listed client knows of the roster, for every value of Room's     *)
(* constants: exactly its level mates, each told once, and none updated    *)
(* before it is shown.  No client is told to show itself.                  *)
(***************************************************************************)
EXTENDS RoomProofs, SequenceTheorems

\* s holds an order to show the character n, where u gives the names.
SpawnIn(u, s, n) ==
    \E i \in DOMAIN s : s[i].type = "spawn" /\ u[s[i].from] = n

\* The characters s has an order to show, where u gives the names.
Coming(u, s) == {n \in Name : SpawnIn(u, s, n)}

\* An order to show n is in an inbox after a post when it was there before or
\* was posted to it (add_to_inbox).
LEMMA PostSpawn ==
    ASSUME NEW box \in [Conn -> Seq(Notice)], NEW R,
           NEW notices \in Seq(Notice), NEW r \in Conn, NEW u, NEW n
    PROVE  SpawnIn(u, Post(box, R, notices)[r], n)
             <=> SpawnIn(u, box[r], n) \/ (r \in R /\ SpawnIn(u, notices, n))
<1>1. CASE r \notin R
  BY <1>1 DEF Post
<1>2. CASE r \in R
  <2>1. Post(box, R, notices)[r] = box[r] \o notices
    BY <1>2 DEF Post
  <2>2. ASSUME SpawnIn(u, box[r], n) PROVE SpawnIn(u, box[r] \o notices, n)
    <3>1. PICK i \in DOMAIN box[r] : box[r][i].type = "spawn" /\ u[box[r][i].from] = n
      BY <2>2 DEF SpawnIn
    <3>2. i \in DOMAIN (box[r] \o notices) /\ (box[r] \o notices)[i] = box[r][i]
      BY <3>1
    <3>3. QED
      BY <3>1, <3>2 DEF SpawnIn
  <2>3. ASSUME SpawnIn(u, notices, n) PROVE SpawnIn(u, box[r] \o notices, n)
    <3>1. PICK j \in DOMAIN notices : notices[j].type = "spawn" /\ u[notices[j].from] = n
      BY <2>3 DEF SpawnIn
    <3>2. DEFINE i == Len(box[r]) + j
    <3>3. i \in DOMAIN (box[r] \o notices) /\ (box[r] \o notices)[i] = notices[j]
      BY <3>1
    <3>4. QED
      BY <3>1, <3>3 DEF SpawnIn
  <2>4. ASSUME SpawnIn(u, box[r] \o notices, n)
        PROVE  SpawnIn(u, box[r], n) \/ SpawnIn(u, notices, n)
    <3>1. PICK i \in DOMAIN (box[r] \o notices) :
               /\ (box[r] \o notices)[i].type = "spawn"
               /\ u[(box[r] \o notices)[i].from] = n
      BY <2>4 DEF SpawnIn
    <3>2. \/ i \in DOMAIN box[r] /\ (box[r] \o notices)[i] = box[r][i]
          \/ \E j \in DOMAIN notices : (box[r] \o notices)[i] = notices[j]
      BY <1>2, <2>1, PostContent
    <3>3. QED
      BY <3>1, <3>2 DEF SpawnIn
  <2>5. QED
    BY <1>2, <2>1, <2>2, <2>3, <2>4
<1>3. QED
  BY <1>1, <1>2

\* Without a departure, delivering the notices in either order adds the waiting
\* characters to the shown ones.
LEMMA DeliveryWithoutDeparture ==
    ASSUME NEW shown \in SUBSET Name, NEW s \in Seq(Notice),
           \A i \in DOMAIN s : s[i].type # "remove"
    PROVE  /\ Deliver(shown, s) = shown \cup Coming(username, s)
           /\ Deliver(shown, DrainOrder(s)) = shown \cup Coming(username, s)
           /\ Deliver(shown, s)' = shown \cup Coming(username', s)
<1>1. Deliver(shown, s) = shown \cup Coming(username, s)
  BY DEF Deliver, About, Coming, SpawnIn
<1>2. Deliver(shown, s)' = shown \cup Coming(username', s)
  BY DEF Deliver, About, Coming, SpawnIn
<1>3. Deliver(shown, DrainOrder(s)) = shown \cup Coming(username, s)
  <2> DEFINE t == DrainOrder(s)
  <2>1. /\ DOMAIN t = DOMAIN s
        /\ \A i \in DOMAIN s : t[i] = s[Len(s) - i + 1] /\ Len(s) - i + 1 \in DOMAIN s
        /\ \A i \in DOMAIN s : s[i] = t[Len(s) - i + 1]
    BY DEF DrainOrder, Reverse
  <2> HIDE DEF t
  <2>2. \A n : About(t, "remove", n) = {}
    BY <2>1 DEF About
  <2>3. ASSUME NEW n PROVE About(t, "spawn", n) # {} <=> SpawnIn(username, s, n)
    BY <2>1 DEF About, SpawnIn
  <2>4. QED
    BY <2>2, <2>3 DEF Deliver, Coming, t
<1>4. QED
  BY <1>1, <1>2, <1>3

\* So the view of a client without a departure waiting is what it shows and
\* what it is about to show.
LEMMA ViewIs ==
    ASSUME NEW r \in Conn
    PROVE  /\ RoomTypeOK /\ (\A i \in DOMAIN inbox[r] : inbox[r][i].type # "remove")
                => Deliver(world[r], inbox[r])
                     = world[r] \cup Coming(username, inbox[r])
           /\ RoomTypeOK' /\ (\A i \in DOMAIN inbox'[r] : inbox'[r][i].type # "remove")
                => Deliver(world[r], inbox[r])'
                     = world'[r] \cup Coming(username', inbox'[r])
<1>1. RoomTypeOK => world[r] \in SUBSET Name /\ inbox[r] \in Seq(Notice)
  BY DEF RoomTypeOK
<1>2. RoomTypeOK' => world'[r] \in SUBSET Name /\ inbox'[r] \in Seq(Notice)
  BY DEF RoomTypeOK
<1>3. RoomTypeOK /\ (\A i \in DOMAIN inbox[r] : inbox[r][i].type # "remove")
        => Deliver(world[r], inbox[r]) = world[r] \cup Coming(username, inbox[r])
  BY <1>1, DeliveryWithoutDeparture
<1>4. RoomTypeOK' /\ (\A i \in DOMAIN inbox'[r] : inbox'[r][i].type # "remove")
        => Deliver(world[r], inbox[r])'
             = world'[r] \cup Coming(username', inbox'[r])
  BY <1>2 DEF Deliver, About, Coming, SpawnIn
<1>5. QED
  BY <1>3, <1>4

\* RosterViewExact in that form.
ViewSum ==
    \A r \in Listed :
        world[r] \cup Coming(username, inbox[r])
            = {username[w] : w \in LevelMates(username[r], level[r])}

LEMMA ViewSumHolds ==
    ASSUME ViewInv
    PROVE  ViewSum
<1>1. \A r \in Listed : r \in Conn
  BY DEF Listed
<1>2. QED
  BY <1>1, ViewIs
  DEF ViewInv, RoomInv, ListedSeeNoDeparture, RosterViewExact, ViewSum

LEMMA ViewSumSuffices ==
    ASSUME RoomTypeOK', ListedSeeNoDeparture', ViewSum'
    PROVE  RosterViewExact'
<1>1. SUFFICES ASSUME NEW r \in Conn, r \in Listed'
               PROVE  Deliver(world[r], inbox[r])'
                        = {username'[w] : w \in LevelMates(username[r], level[r])'}
  BY DEF RosterViewExact, Listed
<1>2. \A i \in DOMAIN inbox'[r] : inbox'[r][i].type # "remove"
  BY <1>1 DEF ListedSeeNoDeparture
<1>3. Deliver(world[r], inbox[r])' = world'[r] \cup Coming(username', inbox'[r])
  BY <1>2, ViewIs
<1>4. QED
  BY <1>1, <1>3 DEF ViewSum

\* A step that leaves the list, the names and the levels alone, and posts
\* nothing about showing or removing a character, keeps the view.
LEMMA QuietPost ==
    ASSUME ViewInv, NEW c \in Conn, NEW R,
           NEW box \in [Conn -> Seq(Notice)], NEW notices \in Seq(Notice),
           \A j \in DOMAIN notices :
               notices[j].type \notin {"spawn", "left", "remove"},
           inbox' = Post(box, R, notices),
           UNCHANGED <<username, level, clients>>,
           \A r \in Listed :
               \/ box[r] = inbox[r] /\ world'[r] = world[r]
               \/ box[r] = <<>> /\ world'[r] = world[r] \cup Coming(username, inbox[r])
    PROVE  ListedSeeNoDeparture' /\ ViewSum'
<1>1. Listed' = Listed
  BY DEF Listed
<1>2. ListedSeeNoDeparture'
  <2>1. SUFFICES ASSUME NEW r \in Listed, r \in Conn, NEW i \in DOMAIN inbox'[r]
                 PROVE  inbox'[r][i].type \notin {"left", "remove"}
    BY <1>1 DEF ListedSeeNoDeparture, Listed
  <2>2. \/ i \in DOMAIN box[r] /\ inbox'[r][i] = box[r][i]
        \/ \E j \in DOMAIN notices : inbox'[r][i] = notices[j]
    BY <2>1, PostContent
  <2>3. box[r] = inbox[r] \/ DOMAIN box[r] = {}
    BY <2>1
  <2>4. QED
    BY <2>1, <2>2, <2>3 DEF ViewInv, ListedSeeNoDeparture
<1>3. ViewSum'
  <2>0. \A r \in Listed :
           {username'[w] : w \in LevelMates(username[r], level[r])'}
             = world[r] \cup Coming(username, inbox[r])
    <3>1. SUFFICES ASSUME NEW r \in Listed
                   PROVE  {username'[w] : w \in LevelMates(username[r], level[r])'}
                            = world[r] \cup Coming(username, inbox[r])
      OBVIOUS
    <3>2. LevelMates(username[r], level[r])' = LevelMates(username[r], level[r])
      BY <1>1 DEF LevelMates
    <3>3. username' = username
      OBVIOUS
    <3>4. {username'[w] : w \in LevelMates(username[r], level[r])'}
            = {username[w] : w \in LevelMates(username[r], level[r])}
      BY <3>2, <3>3
    <3>5. QED
      BY <3>4, ViewSumHolds DEF ViewSum
  <2>1. SUFFICES ASSUME NEW r \in Listed, r \in Conn
                 PROVE  world'[r] \cup Coming(username', inbox'[r])
                          = world[r] \cup Coming(username, inbox[r])
    <3>1. \A r \in Listed : r \in Conn
      BY DEF Listed
    <3>2. QED
      BY <1>1, <2>0, <3>1 DEF ViewSum
  <2>2. \A n : ~SpawnIn(username, notices, n)
    BY DEF SpawnIn
  <2>3. Coming(username', inbox'[r]) = Coming(username, box[r])
    <3>1. ASSUME NEW n
          PROVE  SpawnIn(username, inbox'[r], n) <=> SpawnIn(username, box[r], n)
      BY <2>1, <2>2, PostSpawn
    <3>2. QED
      BY <3>1 DEF Coming
  <2>4. CASE box[r] = inbox[r] /\ world'[r] = world[r]
    BY <2>1, <2>3, <2>4
  <2>5. CASE box[r] = <<>> /\ world'[r] = world[r] \cup Coming(username, inbox[r])
    <3>1. \A n : ~SpawnIn(username, box[r], n)
      BY <2>5 DEF SpawnIn
    <3>2. QED
      BY <2>3, <2>5, <3>1 DEF Coming
  <2>6. QED
    BY <2>1, <2>4, <2>5
<1>4. QED
  BY <1>2, <1>3

\* A sign-on adds one client, and tells exactly its level mates, which is whom
\* the newcomer is told of.
LEMMA SignOnAcceptedView ==
    ASSUME ViewInv, NEW c \in Conn, NEW n \in Name, NEW l \in Level,
           NEW wellFormed \in BOOLEAN, SignOnAccepted(c, n, l, wellFormed)
    PROVE  ListedSeeNoDeparture' /\ ViewSum'
<1> USE RoomAssumption
<1> DEFINE R == Recipients(c)'
           notices == <<Note("joined", c), Note("spawn", c)>>
<1>1. /\ notices \in Seq(Notice) /\ DOMAIN notices = {1, 2}
      /\ notices[1].type = "joined" /\ notices[2].type = "spawn"
      /\ notices[2].from = c
  BY NoteType, TwoNotes
<1>2. inbox' = Post(inbox, R, notices) /\ inbox \in [Conn -> Seq(Notice)]
  BY DEF SignOnAccepted, ViewInv, RoomInv, RoomTypeOK
<1> HIDE DEF notices
<1>3. /\ username'[c] = n /\ level'[c] = l
      /\ \A d \in Conn : d # c => /\ username'[d] = username[d]
                                  /\ level'[d] = level[d]
                                  /\ world'[d] = world[d]
      /\ world'[c] = {username'[r] : r \in LevelMates(n, l)'}
  BY DEF SignOnAccepted, ViewInv, RoomInv, RoomTypeOK
<1>4. \A r \in Listed : r # c /\ r \in Conn /\ username[r] # n
                        /\ username[r] \in Name
  BY DEF ViewInv, RoomInv, RosterKeyed, SignOnAccepted, Acceptable, Listed
<1>5. c \in Listed' /\ \A r \in Listed : r \in Listed'
  <2>1. clients' = [clients EXCEPT ![n] = c] /\ clients \in [Name -> Conn \cup {NoClient}]
    BY DEF SignOnAccepted, ViewInv, RoomInv, RoomTypeOK
  <2>2. c \in Listed'
    BY <2>1 DEF Listed
  <2>3. ASSUME NEW r \in Listed PROVE r \in Listed'
    <3>1. PICK m \in Name : clients[m] = r
      BY DEF Listed
    <3>2. m # n
      BY <1>4, <3>1 DEF ViewInv, RoomInv, RosterKeyed
    <3>3. QED
      BY <1>4, <2>1, <3>1, <3>2 DEF Listed
  <2>4. QED
    BY <2>2, <2>3
<1>6. \A r \in Listed' : r = c \/ r \in Listed
  BY DEF SignOnAccepted, ViewInv, RoomInv, RoomTypeOK, Listed
<1>r. \A r \in Conn : r \in R <=> r \in Listed /\ level[r] = l
  BY <1>3, <1>4, <1>5, <1>6 DEF Recipients
<1> HIDE DEF R
<1>7. inbox'[c] = <<>>
  <2>1. inbox[c] = <<>>
    BY DEF SignOnAccepted, ViewInv, RoomInv, StrangersUnknown
  <2>2. c \notin R
    BY <1>4, <1>r
  <2>3. QED
    BY <1>2, <2>1, <2>2 DEF Post
<1>8. ListedSeeNoDeparture'
  <2>1. SUFFICES ASSUME NEW r \in Conn, r \in Listed', NEW i \in DOMAIN inbox'[r]
                 PROVE  inbox'[r][i].type \notin {"left", "remove"}
    BY DEF ListedSeeNoDeparture, Listed
  <2>2. r \in Listed
    BY <1>6, <1>7, <2>1
  <2>3. \/ i \in DOMAIN inbox[r] /\ inbox'[r][i] = inbox[r][i]
        \/ \E j \in DOMAIN notices : inbox'[r][i] = notices[j]
    <3>1. notices \in Seq(Notice)
      BY <1>1
    <3>2. QED
      BY <1>2, <2>1, <3>1, PostContent, SMTT(60)
  <2>4. QED
    BY <1>1, <2>2, <2>3 DEF ViewInv, ListedSeeNoDeparture
<1>9. \A m : SpawnIn(username', notices, m) <=> m = n
  BY <1>1, <1>3 DEF SpawnIn
<1>10. ASSUME NEW r \in Conn, NEW m
       PROVE  SpawnIn(username', inbox[r], m) <=> SpawnIn(username, inbox[r], m)
  <2>1. ASSUME NEW i \in DOMAIN inbox[r]
        PROVE  inbox[r][i].from # c /\ inbox[r][i].from \in Conn
    <3>1. inbox[r][i] \in Notice
      BY <1>2
    <3>2. QED
      BY <3>1 DEF Notice, SignOnAccepted, ViewInv, RoomInv, StrangersUnknown
  <2>2. QED
    BY <1>3, <2>1 DEF SpawnIn
<1>11. ASSUME NEW r \in Conn
       PROVE  Coming(username', inbox'[r])
                = Coming(username, inbox[r]) \cup (IF r \in R THEN {n} ELSE {})
  <2>1. ASSUME NEW m
        PROVE  SpawnIn(username', inbox'[r], m)
                 <=> SpawnIn(username, inbox[r], m) \/ (r \in R /\ m = n)
    BY <1>1, <1>2, <1>9, <1>10, PostSpawn
  <2>2. QED
    BY <2>1 DEF Coming
<1>12. ASSUME NEW r \in Conn, r \in Listed'
       PROVE  world'[r] \cup Coming(username', inbox'[r])
                = {username'[w] : w \in LevelMates(username[r], level[r])'}
  <2>1. {w \in Listed' : username'[w] # username'[r] /\ level'[w] = level'[r]}
          = {w \in Listed : username[w] # username'[r] /\ level[w] = level'[r]}
              \cup {w \in {c} : n # username'[r] /\ l = level'[r]}
    BY <1>3, <1>4, <1>5, <1>6
  <2>2. LevelMates(username[r], level[r])'
          = {w \in Listed : username[w] # username'[r] /\ level[w] = level'[r]}
              \cup {w \in {c} : n # username'[r] /\ l = level'[r]}
    <3>1. LevelMates(username[r], level[r])'
            = {w \in Listed' : username'[w] # username'[r] /\ level'[w] = level'[r]}
      BY DEF LevelMates
    <3>2. QED
      BY <2>1, <3>1
  <2>3. CASE r = c
    <3>1. Coming(username', inbox'[r]) = {}
      BY <1>7, <2>3 DEF Coming, SpawnIn
    <3>2. LevelMates(username[r], level[r])' = LevelMates(n, l)'
      BY <1>3, <2>3 DEF LevelMates
    <3>3. QED
      BY <1>3, <2>3, <3>1, <3>2
  <2>4. CASE r # c
    <3>1. r \in Listed /\ username'[r] = username[r] /\ level'[r] = level[r]
          /\ world'[r] = world[r] /\ username[r] # n
      BY <1>3, <1>4, <1>6, <1>12, <2>4
    <3>2. LevelMates(username[r], level[r])'
            = LevelMates(username[r], level[r])
                \cup {w \in {c} : l = level[r]}
      BY <2>2, <3>1 DEF LevelMates
    <3>3. \A w \in LevelMates(username[r], level[r]) : username'[w] = username[w]
      BY <1>3, <1>4 DEF LevelMates
    <3>4. {username'[w] : w \in LevelMates(username[r], level[r])'}
            = {username[w] : w \in LevelMates(username[r], level[r])}
                \cup (IF r \in R THEN {n} ELSE {})
      BY <1>3, <1>r, <3>1, <3>2, <3>3
    <3>5. world[r] \cup Coming(username, inbox[r])
            = {username[w] : w \in LevelMates(username[r], level[r])}
      BY <3>1, ViewSumHolds DEF ViewSum
    <3>6. QED
      BY <1>11, <3>1, <3>4, <3>5
  <2>5. QED
    BY <2>3, <2>4
<1>13. ViewSum'
  BY <1>12 DEF ViewSum, Listed
<1>14. QED
  BY <1>8, <1>13

LEMMA ChatView ==
    ASSUME ViewInv, NEW c \in Conn, HandleChatMessage(c)
    PROVE  ListedSeeNoDeparture' /\ ViewSum'
<1> DEFINE notices == <<Note("chat", c)>>
<1>1. /\ notices \in Seq(Notice)
      /\ \A j \in DOMAIN notices :
            notices[j].type \notin {"spawn", "left", "remove"}
  BY NoteType, OneNote
<1>2. /\ inbox' = Post(inbox, Recipients(c) \cup {c}, notices)
      /\ inbox \in [Conn -> Seq(Notice)]
      /\ UNCHANGED <<username, level, clients, world>>
  BY DEF HandleChatMessage, ViewInv, RoomInv, RoomTypeOK
<1> HIDE DEF notices
<1>3. QED
  BY <1>1, <1>2, QuietPost

LEMMA UpdateView ==
    ASSUME ViewInv, NEW c \in Conn, HandleUpdate(c)
    PROVE  ListedSeeNoDeparture' /\ ViewSum'
<1> DEFINE notices == <<Note("died", c)>>
<1>1. /\ notices \in Seq(Notice)
      /\ \A j \in DOMAIN notices :
            notices[j].type \notin {"spawn", "left", "remove"}
  BY NoteType, OneNote
<1>2. /\ DrainInbox(c) /\ UNCHANGED <<username, level, clients>>
      /\ world \in [Conn -> SUBSET Name] /\ inbox \in [Conn -> Seq(Notice)]
  BY DEF HandleUpdate, UpdateDies, UpdateDead, UpdateAlive, ViewInv, RoomInv,
         RoomTypeOK
<1>3. Drained(c) \in [Conn -> Seq(Notice)]
  BY <1>2, DrainType DEF ViewInv, RoomInv
<1>4. ASSUME NEW r \in Listed
      PROVE  \/ Drained(c)[r] = inbox[r] /\ world'[r] = world[r]
             \/ Drained(c)[r] = <<>> /\ world'[r] = world[r] \cup Coming(username, inbox[r])
  <2>1. r \in Conn
    BY DEF Listed
  <2>2. CASE r # c
    BY <1>2, <2>1, <2>2 DEF Drained, DrainInbox
  <2>3. CASE r = c
    <3>1. Drained(c)[r] = <<>>
      BY <1>2, <2>3 DEF Drained
    <3>2. world'[r] = Deliver(world[r], DrainOrder(inbox[r]))
      BY <1>2, <2>3 DEF DrainInbox
    <3>3. \A i \in DOMAIN inbox[r] : inbox[r][i].type # "remove"
      BY <1>4 DEF ViewInv, ListedSeeNoDeparture
    <3>4. Deliver(world[r], DrainOrder(inbox[r]))
            = world[r] \cup Coming(username, inbox[r])
      BY <1>2, <2>1, <3>3, DeliveryWithoutDeparture
    <3>5. QED
      BY <3>1, <3>2, <3>4
  <2>4. QED
    BY <2>2, <2>3
<1> HIDE DEF notices
<1>5. \E R : inbox' = Post(Drained(c), R, notices)
  <2>1. CASE UpdateDies(c)
    BY <2>1 DEF UpdateDies, notices
  <2>2. CASE UpdateDead(c) \/ UpdateAlive(c)
    <3>1. inbox' = Drained(c)
      BY <2>2 DEF UpdateDead, UpdateAlive
    <3>2. Post(Drained(c), {}, notices) = Drained(c)
      BY <1>3 DEF Post
    <3>3. QED
      BY <3>1, <3>2
  <2>3. QED
    BY <2>1, <2>2 DEF HandleUpdate
<1>6. QED
  BY <1>1, <1>2, <1>3, <1>4, <1>5, QuietPost

\* A departure takes everyone off the list: nobody is left to be wrong.
LEMMA DisconnectedView ==
    ASSUME ViewInv, NEW c \in Conn, ClientDisconnected(c), session[c] # "none"
    PROVE  ListedSeeNoDeparture' /\ ViewSum'
<1>1. Listed' = {}
  BY RoomAssumption DEF ClientDisconnected, RemoveClient, Listed
<1>2. QED
  BY <1>1 DEF ListedSeeNoDeparture, ViewSum

LEMMA SameView ==
    ASSUME ViewInv, UNCHANGED <<username, level, clients, inbox, world>>
    PROVE  ListedSeeNoDeparture' /\ ViewSum'
BY ViewSumHolds DEF ViewInv, ListedSeeNoDeparture, ViewSum, Listed, LevelMates

LEMMA ViewStep ==
    ASSUME ViewInv, [RoomNext]_roomVars
    PROVE  ViewInv'
<1>1. SUFFICES ListedSeeNoDeparture' /\ ViewSum'
  BY RoomInvStep, ViewSumSuffices DEF ViewInv, RoomInv
<1>2. ASSUME NEW c \in Conn, NEW n \in Name, NEW l \in Level,
             NEW wellFormed \in BOOLEAN, HandleSignOn(c, n, l, wellFormed)
      PROVE  ListedSeeNoDeparture' /\ ViewSum'
  BY <1>2, SignOnAcceptedView, SameView
  DEF HandleSignOn, SignOnAgain, SignOnRefused, roomVars
<1>3. ASSUME NEW c \in Conn, ClientDisconnected(c)
      PROVE  ListedSeeNoDeparture' /\ ViewSum'
  BY <1>3, DisconnectedView, SameView DEF ClientDisconnected, roomVars
<1>4. CASE UNCHANGED roomVars
  BY <1>4, SameView DEF roomVars
<1>5. QED
  BY <1>2, <1>3, <1>4, ChatView, UpdateView DEF RoomNext

LEMMA ViewInit == RoomInit => ViewInv
<1>1. ASSUME RoomInit PROVE Listed = {}
  BY <1>1, RoomAssumption DEF RoomInit, Listed
<1>2. QED
  BY <1>1, RoomInvInit DEF ViewInv, ListedSeeNoDeparture, RosterViewExact

\* A listed client knows exactly the listed clients on its level, shown or
\* waiting to be shown (HandleSignOn, add_to_inbox, HandleUpdate's drain).
THEOREM RosterViewIsExact == RoomSpec => []RosterViewExact
<1>1. ViewInv => RosterViewExact
  BY DEF ViewInv
<1>2. QED
  BY <1>1, ViewInit, ViewStep, PTL DEF RoomSpec
\* The inductive invariant of the view (HandleSignOn, HandleUpdate,
\* client_disconnected).
THEOREM ViewInvariant == RoomSpec => []ViewInv
BY ViewInit, ViewStep, PTL DEF RoomSpec

----------------------------------------------------------------------------
(* Who is sent updates of whom *)

\* A client that is not on the list has no notice of one that is: nobody comes
\* back to the list, and no notice reaches those who were taken off it.
UnlistedUnaware ==
    \A r \in Conn \ Listed : \A i \in DOMAIN inbox[r] :
        inbox[r][i].from \notin Listed

\* Notices go to clients on the list, or from a client to itself.
LEMMA PostUnaware ==
    ASSUME UnlistedUnaware, RoomInv, NEW c \in Conn,
           NEW box \in [Conn -> Seq(Notice)],
           \A r \in Conn : box[r] = inbox[r] \/ box[r] = <<>>,
           NEW notices \in Seq(Notice), \A j \in DOMAIN notices : notices[j].from = c,
           inbox' = Post(box, Recipients(c) \cup {c}, notices),
           UNCHANGED clients
    PROVE  UnlistedUnaware'
<1>1. Listed' = Listed
  BY DEF Listed
<1>2. SUFFICES ASSUME NEW r \in Conn, r \notin Listed, NEW i \in DOMAIN inbox'[r]
               PROVE  inbox'[r][i].from \notin Listed
  BY <1>1 DEF UnlistedUnaware
<1> DEFINE R == Recipients(c) \cup {c}
<1>3. r \in R => r = c
  BY <1>2 DEF Recipients
<1> HIDE DEF R
<1>4. \/ i \in DOMAIN box[r] /\ inbox'[r][i] = box[r][i]
      \/ r \in R /\ \E j \in DOMAIN notices : inbox'[r][i] = notices[j]
  <2>1. inbox' = Post(box, R, notices)
    BY DEF R
  <2>2. i \in DOMAIN Post(box, R, notices)[r]
    BY <1>2, <2>1
  <2>3. \/ i \in DOMAIN box[r] /\ Post(box, R, notices)[r][i] = box[r][i]
        \/ r \in R /\ \E j \in DOMAIN notices : Post(box, R, notices)[r][i] = notices[j]
    BY <2>2, PostContent
  <2>4. QED
    BY <2>1, <2>3
<1>5. CASE i \in DOMAIN box[r] /\ inbox'[r][i] = box[r][i]
  <2>1. box[r] = inbox[r]
    <3>1. box[r] # <<>>
      BY <1>5
    <3>2. QED
      BY <3>1
  <2>2. QED
    BY <1>2, <1>5, <2>1 DEF UnlistedUnaware
<1>6. CASE r \in R /\ \E j \in DOMAIN notices : inbox'[r][i] = notices[j]
  BY <1>2, <1>3, <1>6
<1>7. QED
  BY <1>4, <1>5, <1>6

LEMMA SignOnAcceptedUnaware ==
    ASSUME UnlistedUnaware, RoomInv, NEW c \in Conn, NEW n \in Name, NEW l \in Level,
           NEW wellFormed \in BOOLEAN, SignOnAccepted(c, n, l, wellFormed)
    PROVE  UnlistedUnaware'
<1>1. Listed' \subseteq Listed \cup {c}
  BY RoomAssumption DEF SignOnAccepted, RoomInv, RoomTypeOK, Listed
<1>2. Listed \subseteq Listed'
  <2>1. \A m \in Name : clients[m] # NoClient => username[clients[m]] = m /\ clients[m] \in Listed
    BY RoomAssumption DEF RoomInv, RosterKeyed, RoomTypeOK, Listed
  <2>2. clients[n] \notin Conn
    BY <2>1, RoomAssumption DEF SignOnAccepted, Acceptable
  <2>3. QED
    BY <2>2 DEF SignOnAccepted, RoomInv, RoomTypeOK, Listed
<1>3. SUFFICES ASSUME NEW r \in Conn, r \notin Listed', NEW i \in DOMAIN inbox'[r]
               PROVE  inbox'[r][i].from \notin Listed'
  BY DEF UnlistedUnaware
<1>4. inbox'[r] = inbox[r]
  BY <1>3 DEF SignOnAccepted, Post, Recipients
<1>5. inbox[r][i].from \notin Listed
  BY <1>2, <1>3, <1>4 DEF UnlistedUnaware
<1>6. inbox[r][i].from # c
  BY <1>3, <1>4 DEF SignOnAccepted, RoomInv, StrangersUnknown
<1>7. QED
  BY <1>1, <1>4, <1>5, <1>6

LEMMA UnawareStep ==
    ASSUME UnlistedUnaware, RoomInv, [RoomNext]_roomVars
    PROVE  UnlistedUnaware'
<1>1. CASE UNCHANGED <<clients, inbox>>
  BY <1>1 DEF UnlistedUnaware, Listed
<1>2. ASSUME NEW c \in Conn, HandleChatMessage(c) PROVE UnlistedUnaware'
  <2> DEFINE notices == <<Note("chat", c)>>
  <2>1. notices \in Seq(Notice) /\ \A j \in DOMAIN notices : notices[j].from = c
    BY NoteType, OneNote
  <2>2. inbox' = Post(inbox, Recipients(c) \cup {c}, notices) /\ UNCHANGED clients
        /\ inbox \in [Conn -> Seq(Notice)]
    BY <1>2 DEF HandleChatMessage, RoomInv, RoomTypeOK
  <2> HIDE DEF notices
  <2>3. QED
    BY <2>1, <2>2, PostUnaware
<1>3. ASSUME NEW c \in Conn, HandleUpdate(c) PROVE UnlistedUnaware'
  <2> DEFINE notices == <<Note("died", c)>>
  <2>1. notices \in Seq(Notice) /\ \A j \in DOMAIN notices : notices[j].from = c
    BY NoteType, OneNote
  <2>2. UNCHANGED clients /\ inbox \in [Conn -> Seq(Notice)]
    BY <1>3 DEF HandleUpdate, RoomInv, RoomTypeOK
  <2>3. /\ Drained(c) \in [Conn -> Seq(Notice)]
        /\ \A r \in Conn : Drained(c)[r] = inbox[r] \/ Drained(c)[r] = <<>>
    BY <2>2, DrainType DEF Drained, RoomInv
  <2> HIDE DEF notices
  <2>4. CASE UpdateDies(c)
    <3>1. inbox' = Post(Drained(c), Recipients(c) \cup {c}, notices)
      BY <2>4 DEF UpdateDies, notices
    <3>2. QED
      BY <2>1, <2>2, <2>3, <3>1, PostUnaware
  <2>5. CASE UpdateDead(c) \/ UpdateAlive(c)
    <3>1. inbox' = Drained(c) /\ Listed' = Listed
      BY <2>2, <2>5 DEF UpdateDead, UpdateAlive, Listed
    <3>2. QED
      BY <2>3, <3>1 DEF UnlistedUnaware
  <2>6. QED
    BY <1>3, <2>4, <2>5 DEF HandleUpdate
<1>4. ASSUME NEW c \in Conn, ClientDisconnected(c), session[c] # "none"
      PROVE  UnlistedUnaware'
  <2>1. Listed' = {}
    BY <1>4, RoomAssumption DEF ClientDisconnected, RemoveClient, Listed
  <2>2. QED
    BY <2>1 DEF UnlistedUnaware
<1>5. ASSUME NEW c \in Conn, ClientDisconnected(c) PROVE UnlistedUnaware'
  BY <1>1, <1>4, <1>5 DEF ClientDisconnected, roomVars
<1>6. ASSUME NEW c \in Conn, NEW n \in Name, NEW l \in Level,
             NEW wellFormed \in BOOLEAN, HandleSignOn(c, n, l, wellFormed)
      PROVE  UnlistedUnaware'
  BY <1>1, <1>6, SignOnAcceptedUnaware
  DEF HandleSignOn, SignOnAgain, SignOnRefused, roomVars
<1>7. CASE UNCHANGED roomVars
  BY <1>1, <1>7 DEF roomVars
<1>8. QED
  BY <1>2, <1>3, <1>5, <1>6, <1>7 DEF RoomNext

LEMMA Unaware == RoomSpec => []UnlistedUnaware
<1>1. RoomInit => UnlistedUnaware
  BY DEF RoomInit, UnlistedUnaware
<1>2. RoomInv /\ UnlistedUnaware /\ [RoomNext]_roomVars => UnlistedUnaware'
  BY UnawareStep
<1>3. QED
  BY <1>1, <1>2, RoomInvariant, PTL DEF RoomSpec

\* On the list, the updates that follow a drain find their characters shown, for
\* with no departure waiting its order makes no difference; off the list, they
\* may be of anyone who signed on since (HandleUpdate).
THEOREM WhoIsUpdatedOfStrangers == RoomSpec => []UpdatesOfStrangers
<1>1. ASSUME ViewInv, UnlistedUnaware PROVE UpdatesOfStrangers
  <2>1. SUFFICES ASSUME NEW r \in Conn, NEW w \in LevelMates(username[r], level[r])
                 PROVE  \/ username[w] \in Deliver(world[r], DrainOrder(inbox[r]))
                        \/ /\ r \notin Listed
                           /\ \A i \in DOMAIN inbox[r] : inbox[r][i].from # w
    BY DEF UpdatesOfStrangers
  <2>2. CASE r \in Listed
    <3>1. world[r] \in SUBSET Name /\ inbox[r] \in Seq(Notice)
      BY <1>1, <2>1 DEF ViewInv, RoomInv, RoomTypeOK
    <3>2. \A i \in DOMAIN inbox[r] : inbox[r][i].type # "remove"
      BY <1>1, <2>2 DEF ViewInv, ListedSeeNoDeparture
    <3>3. Deliver(world[r], DrainOrder(inbox[r]))
            = world[r] \cup Coming(username, inbox[r])
      BY <2>1, <3>1, <3>2, DeliveryWithoutDeparture
    <3>4. QED
      BY <1>1, <2>1, <2>2, <3>3, ViewSumHolds DEF ViewSum
  <2>3. CASE r \notin Listed
    BY <1>1, <2>1, <2>3 DEF UnlistedUnaware, LevelMates
  <2>4. QED
    BY <2>2, <2>3
<1>2. QED
  BY <1>1, ViewInvariant, Unaware, PTL

----------------------------------------------------------------------------
(* Who is told to show whom *)

\* The i-th notice of s is an order to show a character that is not the
\* reader's own and not shown yet, and no other notice orders it.
SpawnsOnce(s, i, u, own, shown) ==
    s[i].type = "spawn" =>
        /\ u[s[i].from] # own /\ u[s[i].from] \notin shown
        /\ \A j \in DOMAIN s :
              s[j].type = "spawn" /\ u[s[j].from] = u[s[i].from] => j = i

\* NoSelfSpawn and SpawnedOnce, notice by notice.
SpawnInv ==
    \A r \in Conn :
        /\ username[r] \notin world[r]
        /\ \A i \in DOMAIN inbox[r] :
              SpawnsOnce(inbox[r], i, username, username[r], world[r])

\* Where nothing about showing a character is posted, nothing changes but that
\* drained orders take effect (HandleChatMessage, HandleUpdate,
\* client_disconnected).
LEMMA QuietSpawns ==
    ASSUME SpawnInv, NEW R,
           NEW box \in [Conn -> Seq(Notice)], NEW notices \in Seq(Notice),
           \A j \in DOMAIN notices : notices[j].type # "spawn",
           inbox' = Post(box, R, notices),
           UNCHANGED username,
           \A r \in Conn :
               \/ box[r] = inbox[r] /\ world'[r] = world[r]
               \/ /\ box[r] = <<>>
                  /\ world'[r] \subseteq world[r] \cup Coming(username, inbox[r])
    PROVE  SpawnInv'
<1>1. SUFFICES ASSUME NEW r \in Conn
               PROVE  /\ username'[r] \notin world'[r]
                      /\ \A i \in DOMAIN inbox'[r] :
                            SpawnsOnce(inbox'[r], i, username', username'[r],
                                       world'[r])
  BY DEF SpawnInv
<1>2. ASSUME NEW i \in DOMAIN inbox'[r], inbox'[r][i].type = "spawn"
      PROVE  i \in DOMAIN box[r] /\ inbox'[r][i] = box[r][i]
  BY <1>1, <1>2, PostContent
<1>3. CASE box[r] = inbox[r] /\ world'[r] = world[r]
  BY <1>1, <1>2, <1>3 DEF SpawnInv, SpawnsOnce
<1>4. CASE /\ box[r] = <<>>
           /\ world'[r] \subseteq world[r] \cup Coming(username, inbox[r])
  <2>1. \A i \in DOMAIN inbox'[r] : inbox'[r][i].type # "spawn"
    BY <1>2, <1>4
  <2>2. username'[r] \notin world'[r]
    BY <1>1, <1>4, ZenonT(60) DEF SpawnInv, SpawnsOnce, Coming, SpawnIn
  <2>3. QED
    BY <2>1, <2>2 DEF SpawnsOnce
<1>5. QED
  BY <1>1, <1>3, <1>4

LEMMA TwoMore ==
    ASSUME NEW s \in Seq(Notice), NEW t \in Seq(Notice), Len(t) = 2
    PROVE  /\ \A i \in DOMAIN s : i \in DOMAIN (s \o t) /\ (s \o t)[i] = s[i]
                                  /\ i <= Len(s)
           /\ \A i \in DOMAIN (s \o t) :
                 i \in DOMAIN s \/ i = Len(s) + 1 \/ i = Len(s) + 2
           /\ (s \o t)[Len(s) + 1] = t[1] /\ (s \o t)[Len(s) + 2] = t[2]
<1>1. Len(s) \in Nat /\ DOMAIN s = 1..Len(s) /\ DOMAIN t = 1..Len(t)
  OBVIOUS
<1>2. Len(s \o t) = Len(s) + Len(t) /\ s \o t \in Seq(Notice)
  BY ConcatProperties
<1>3. DOMAIN (s \o t) = 1..Len(s \o t)
  BY <1>2
<1>4. DOMAIN (s \o t) = 1..(Len(s) + 2)
  BY <1>2, <1>3
<1>5. \A i \in DOMAIN s : (s \o t)[i] = s[i]
  OBVIOUS
<1>6. (s \o t)[Len(s) + 1] = t[1] /\ (s \o t)[Len(s) + 2] = t[2]
  BY <1>1, ConcatProperties
<1>7. QED
  BY <1>1, <1>4, <1>5, <1>6

\* A newcomer's name is on no one's screen and in no inbox of its level mates,
\* for it is not on the list (HandleSignOn).
LEMMA SignOnAcceptedSpawns ==
    ASSUME ViewInv, SpawnInv, NEW c \in Conn, NEW n \in Name, NEW l \in Level,
           NEW wellFormed \in BOOLEAN, SignOnAccepted(c, n, l, wellFormed)
    PROVE  SpawnInv'
<1> USE RoomAssumption
<1> DEFINE R == Recipients(c)'
           notices == <<Note("joined", c), Note("spawn", c)>>
<1>1. /\ notices \in Seq(Notice) /\ DOMAIN notices = {1, 2}
      /\ notices[1].type = "joined" /\ notices[2].type = "spawn"
      /\ notices[2].from = c
  BY NoteType, TwoNotes
<1>2. inbox' = Post(inbox, R, notices) /\ inbox \in [Conn -> Seq(Notice)]
  BY DEF SignOnAccepted, ViewInv, RoomInv, RoomTypeOK
<1> HIDE DEF notices
<1>3. /\ username'[c] = n
      /\ \A d \in Conn : d # c => /\ username'[d] = username[d]
                                  /\ world'[d] = world[d]
      /\ world'[c] = {username'[r] : r \in LevelMates(n, l)'}
  BY DEF SignOnAccepted, ViewInv, RoomInv, RoomTypeOK
<1>4. \A r \in Listed : r # c /\ r \in Conn /\ username[r] # n
  BY DEF ViewInv, RoomInv, RosterKeyed, SignOnAccepted, Acceptable, Listed
<1>5. \A r \in R : r # c /\ r \in Listed
  BY DEF SignOnAccepted, ViewInv, RoomInv, RoomTypeOK, Listed, Recipients
<1>6. ASSUME NEW r \in R
      PROVE  n \notin world[r] /\ ~SpawnIn(username, inbox[r], n)
  <2>1. n \notin {username[w] : w \in LevelMates(username[r], level[r])}
    BY <1>4 DEF LevelMates
  <2>2. n \notin world[r] \cup Coming(username, inbox[r])
    BY <1>5, <1>6, <2>1, ViewSumHolds DEF ViewSum
  <2>3. QED
    BY <2>2 DEF Coming
<1> HIDE DEF R
<1>7. ASSUME NEW r \in Conn, NEW i \in DOMAIN inbox[r]
      PROVE  /\ inbox[r][i].from \in Conn
             /\ username'[inbox[r][i].from] = username[inbox[r][i].from]
  <2>1. inbox[r][i] \in Notice
    BY <1>2, <1>7
  <2>2. inbox[r][i].from # c
    BY <1>7 DEF SignOnAccepted, ViewInv, RoomInv, StrangersUnknown
  <2>3. QED
    BY <1>3, <2>1, <2>2 DEF Notice
<1>8. SUFFICES ASSUME NEW r \in Conn
               PROVE  /\ username'[r] \notin world'[r]
                      /\ \A i \in DOMAIN inbox'[r] :
                            SpawnsOnce(inbox'[r], i, username', username'[r],
                                       world'[r])
  BY DEF SpawnInv
<1>9. CASE r = c
  <2>1. inbox'[c] = <<>>
    <3>1. inbox[c] = <<>> /\ c \notin R
      BY <1>5 DEF SignOnAccepted, ViewInv, RoomInv, StrangersUnknown
    <3>2. QED
      BY <1>2, <3>1 DEF Post
  <2>2. n \notin world'[c]
    BY <1>3 DEF LevelMates
  <2>3. QED
    BY <1>3, <1>9, <2>1, <2>2
<1>10. CASE r # c /\ r \notin R
  <2>1. inbox'[r] = inbox[r] /\ username'[r] = username[r] /\ world'[r] = world[r]
    BY <1>2, <1>3, <1>10 DEF Post
  <2>2. QED
    BY <1>7, <1>8, <2>1 DEF SpawnInv, SpawnsOnce
<1>11. CASE r \in R
  <2>1. r # c /\ username'[r] = username[r] /\ world'[r] = world[r]
        /\ username[r] # n
    BY <1>3, <1>4, <1>5, <1>11
  <2>2. /\ inbox'[r] = inbox[r] \o notices /\ inbox[r] \in Seq(Notice)
        /\ notices \in Seq(Notice) /\ Len(notices) = 2
    BY <1>1, <1>2, <1>8, <1>11 DEF Post
  <2>3. /\ \A i \in DOMAIN inbox[r] :
              /\ i \in DOMAIN inbox'[r] /\ inbox'[r][i] = inbox[r][i]
              /\ i <= Len(inbox[r])
        /\ \A i \in DOMAIN inbox'[r] :
              \/ i \in DOMAIN inbox[r]
              \/ i = Len(inbox[r]) + 1 \/ i = Len(inbox[r]) + 2
        /\ inbox'[r][Len(inbox[r]) + 1] = notices[1]
        /\ inbox'[r][Len(inbox[r]) + 2] = notices[2]
    <3>1. Len(notices) = 2 /\ notices \in Seq(Notice)
      BY <1>1, <2>2
    <3>2. QED
      BY <2>2, <3>1, TwoMore
  <2>4. \A i \in DOMAIN inbox'[r] : inbox'[r][i].type = "spawn" =>
           \/ i \in DOMAIN inbox[r] /\ inbox'[r][i] = inbox[r][i]
           \/ i = Len(inbox[r]) + 2 /\ username'[inbox'[r][i].from] = n
    BY <1>1, <1>3, <2>3
  <2>5. \A i \in DOMAIN inbox[r] : inbox[r][i].type = "spawn" =>
           username[inbox[r][i].from] # n
    BY <1>6, <1>11 DEF SpawnIn
  <2>6. SUFFICES ASSUME NEW i \in DOMAIN inbox'[r], inbox'[r][i].type = "spawn"
                 PROVE  /\ username'[inbox'[r][i].from] # username'[r]
                        /\ username'[inbox'[r][i].from] \notin world'[r]
                        /\ \A j \in DOMAIN inbox'[r] :
                              /\ inbox'[r][j].type = "spawn"
                              /\ username'[inbox'[r][j].from]
                                   = username'[inbox'[r][i].from]
                              => j = i
    BY <1>8, <2>1 DEF SpawnsOnce, SpawnInv
  <2>7. CASE i \in DOMAIN inbox[r] /\ inbox'[r][i] = inbox[r][i]
    BY <1>7, <1>8, <2>1, <2>4, <2>5, <2>6, <2>7 DEF SpawnInv, SpawnsOnce
  <2>8. CASE i = Len(inbox[r]) + 2 /\ username'[inbox'[r][i].from] = n
    BY <1>6, <1>7, <1>8, <1>11, <2>1, <2>4, <2>5, <2>8
  <2>9. QED
    BY <2>4, <2>6, <2>7, <2>8
<1>12. QED
  BY <1>9, <1>10, <1>11

\* The other handlers.
LEMMA ChatSpawns ==
    ASSUME ViewInv, SpawnInv, NEW c \in Conn, HandleChatMessage(c)
    PROVE  SpawnInv'
<1> DEFINE notices == <<Note("chat", c)>>
<1>1. notices \in Seq(Notice) /\ \A j \in DOMAIN notices : notices[j].type # "spawn"
  BY NoteType, OneNote
<1>2. /\ inbox' = Post(inbox, Recipients(c) \cup {c}, notices)
      /\ UNCHANGED <<username, world>> /\ inbox \in [Conn -> Seq(Notice)]
  BY DEF HandleChatMessage, ViewInv, RoomInv, RoomTypeOK
<1> HIDE DEF notices
<1>3. QED
  BY <1>1, <1>2, QuietSpawns

LEMMA DisconnectedSpawns ==
    ASSUME ViewInv, SpawnInv, NEW c \in Conn, ClientDisconnected(c),
           session[c] # "none"
    PROVE  SpawnInv'
<1> DEFINE notices == <<Note("left", c), Note("remove", c)>>
<1>1. notices \in Seq(Notice) /\ \A j \in DOMAIN notices : notices[j].type # "spawn"
  <2>1. notices \in Seq(Notice) /\ DOMAIN notices = {1, 2}
        /\ notices[1].type = "left" /\ notices[2].type = "remove"
    BY NoteType, TwoNotes
  <2>2. QED
    BY <2>1
<1>2. /\ inbox' = Post(inbox, Recipients(c), notices)
      /\ UNCHANGED <<username, world>> /\ inbox \in [Conn -> Seq(Notice)]
  BY DEF ClientDisconnected, ViewInv, RoomInv, RoomTypeOK
<1> HIDE DEF notices
<1>3. QED
  BY <1>1, <1>2, QuietSpawns

LEMMA UpdateSpawns ==
    ASSUME ViewInv, SpawnInv, NEW c \in Conn, HandleUpdate(c)
    PROVE  SpawnInv'
<1> DEFINE notices == <<Note("died", c)>>
<1>1. notices \in Seq(Notice) /\ \A j \in DOMAIN notices : notices[j].type # "spawn"
  BY NoteType, OneNote
<1>2. /\ DrainInbox(c) /\ UNCHANGED username
      /\ world \in [Conn -> SUBSET Name] /\ inbox \in [Conn -> Seq(Notice)]
  BY DEF HandleUpdate, UpdateDies, UpdateDead, UpdateAlive, ViewInv, RoomInv,
         RoomTypeOK
<1>3. Drained(c) \in [Conn -> Seq(Notice)]
  BY <1>2, DrainType DEF ViewInv, RoomInv
<1>4. Deliver(world[c], DrainOrder(inbox[c]))
        \subseteq world[c] \cup Coming(username, inbox[c])
  <2> DEFINE s == inbox[c]
             t == DrainOrder(s)
  <2>1. \A i \in DOMAIN t : \E j \in DOMAIN s : t[i] = s[j]
    <3>1. s \in Seq(Notice)
      BY <1>2
    <3>2. QED
      BY <3>1 DEF DrainOrder, Reverse
  <2> HIDE DEF s, t
  <2>2. \A n \in Name : About(t, "spawn", n) # {} => SpawnIn(username, s, n)
    BY <2>1 DEF About, SpawnIn
  <2>3. Deliver(world[c], t) \subseteq world[c] \cup Coming(username, s)
    BY <2>2 DEF Deliver, Coming
  <2>4. QED
    BY <2>3 DEF s, t
<1>5. ASSUME NEW r \in Conn
      PROVE  \/ Drained(c)[r] = inbox[r] /\ world'[r] = world[r]
             \/ /\ Drained(c)[r] = <<>>
                /\ world'[r] \subseteq world[r] \cup Coming(username, inbox[r])
  BY <1>2, <1>4, <1>5 DEF Drained, DrainInbox
<1> HIDE DEF notices
<1>6. \E R : inbox' = Post(Drained(c), R, notices)
  <2>1. CASE UpdateDies(c)
    BY <2>1 DEF UpdateDies, notices
  <2>2. CASE UpdateDead(c) \/ UpdateAlive(c)
    <3>1. inbox' = Drained(c)
      BY <2>2 DEF UpdateDead, UpdateAlive
    <3>2. Post(Drained(c), {}, notices) = Drained(c)
      BY <1>3 DEF Post
    <3>3. QED
      BY <3>1, <3>2
  <2>3. QED
    BY <2>1, <2>2 DEF HandleUpdate
<1>7. QED
  BY <1>1, <1>2, <1>3, <1>5, <1>6, QuietSpawns

LEMMA SpawnStep ==
    ASSUME ViewInv, SpawnInv, [RoomNext]_roomVars
    PROVE  SpawnInv'
<1>1. CASE UNCHANGED <<username, inbox, world>>
  BY <1>1 DEF SpawnInv
<1>2. ASSUME NEW c \in Conn, NEW n \in Name, NEW l \in Level,
             NEW wellFormed \in BOOLEAN, HandleSignOn(c, n, l, wellFormed)
      PROVE  SpawnInv'
  BY <1>1, <1>2, SignOnAcceptedSpawns
  DEF HandleSignOn, SignOnAgain, SignOnRefused, roomVars
<1>3. ASSUME NEW c \in Conn, ClientDisconnected(c)
      PROVE  SpawnInv'
  BY <1>1, <1>3, DisconnectedSpawns DEF ClientDisconnected, roomVars
<1>4. CASE UNCHANGED roomVars
  BY <1>1, <1>4 DEF roomVars
<1>5. QED
  BY <1>2, <1>3, <1>4, ChatSpawns, UpdateSpawns DEF RoomNext

LEMMA SpawnInvariant == RoomSpec => []SpawnInv
<1>1. RoomInit => SpawnInv
  BY DEF RoomInit, SpawnInv
<1>2. ViewInv /\ SpawnInv /\ [RoomNext]_roomVars => SpawnInv'
  BY SpawnStep
<1>3. QED
  BY <1>1, <1>2, ViewInvariant, PTL DEF RoomSpec

\* No client is told to show itself (get_clients skips by name, add_to_inbox by
\* pointer).
THEOREM NobodySpawnsItself == RoomSpec => []NoSelfSpawn
<1>1. SpawnInv => NoSelfSpawn
  BY DEF SpawnInv, SpawnsOnce, NoSelfSpawn, About
<1>2. QED
  BY <1>1, SpawnInvariant, PTL

\* No client is told twice to show a character (HandleSignOn).
THEOREM EveryoneSpawnsOnce == RoomSpec => []SpawnedOnce
<1>1. SpawnInv => SpawnedOnce
  BY DEF SpawnInv, SpawnsOnce, SpawnedOnce, About
<1>2. QED
  BY <1>1, SpawnInvariant, PTL
=============================================================================
