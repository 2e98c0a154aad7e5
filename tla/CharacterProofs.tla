-------------------------- MODULE CharacterProofs --------------------------
(***************************************************************************)
(* What the server and the observer have wrong of a character, for every   *)
(* set of variables and any number of messages on their way.               *)
(***************************************************************************)
EXTENDS Character, TLAPS

LEMMA UpdateType ==
    ASSUME NEW f \in [Var -> BOOLEAN], NEW msg \in Msg
    PROVE  /\ Update(f, msg) \in [Var -> BOOLEAN]
           /\ DOMAIN msg \subseteq Var
           /\ \A v \in DOMAIN msg : Update(f, msg)[v] = msg[v]
           /\ \A v \in Var \ DOMAIN msg : Update(f, msg)[v] = f[v]
<1>1. PICK T \in SUBSET Var : msg \in [T -> BOOLEAN]
  BY DEF Msg
<1>2. \A v \in DOMAIN msg : msg[v] \in BOOLEAN
  BY <1>1
<1>3. QED
  BY <1>1, <1>2 DEF Update

\* What is left of the messages when the first has arrived.
LEMMA RestOfMessages ==
    ASSUME NEW s \in Seq(Msg), s # <<>>
    PROVE  /\ Head(s) \in Msg /\ Head(s) = s[1] /\ 1 \in DOMAIN s
           /\ Tail(s) \in Seq(Msg) /\ Len(Tail(s)) = Len(s) - 1
           /\ \A i \in DOMAIN Tail(s) : i + 1 \in DOMAIN s /\ Tail(s)[i] = s[i + 1]
           /\ \A i \in DOMAIN s : i # 1 => i - 1 \in DOMAIN Tail(s)
                                           /\ Tail(s)[i - 1] = s[i]
OBVIOUS

\* What there is when another is sent.
LEMMA AnotherMessage ==
    ASSUME NEW s \in Seq(Msg), NEW m \in Msg
    PROVE  /\ Append(s, m) \in Seq(Msg) /\ Len(Append(s, m)) = Len(s) + 1
           /\ DOMAIN s \subseteq DOMAIN Append(s, m)
           /\ \A i \in DOMAIN s : Append(s, m)[i] = s[i] /\ i < Len(s) + 1
           /\ Len(s) + 1 \in DOMAIN Append(s, m) /\ Append(s, m)[Len(s) + 1] = m
           /\ \A i \in DOMAIN Append(s, m) : i \in DOMAIN s \/ i = Len(s) + 1
OBVIOUS

LEMMA CharacterInit == Init => CharacterInv
<1> SUFFICES ASSUME Init PROVE CharacterInv
  OBVIOUS
<1> USE CharacterAssumption
<1>1. CharacterTypeOK
  BY DEF Init, CharacterTypeOK
<1>2. QED
  BY <1>1 DEF Init, CharacterInv, SelfUpdatesRestore, LateReportsAreCorrected,
              NeverTooWell, ObserverMissesOnlyRevivals

----------------------------------------------------------------------------

LEMMA ChangeStep ==
    ASSUME CharacterInv, NEW v \in Var, Change(v)
    PROVE  CharacterInv'
<1>1. CharacterTypeOK'
  BY DEF Change, CharacterInv, CharacterTypeOK
<1>2. \A w \in Var : w # v => game'[w] = game[w]
  BY DEF Change, CharacterInv, CharacterTypeOK
<1>3. /\ changed' = changed \cup {v}
      /\ UNCHANGED <<value, reader, owed, known, picture, toServer, toOwner>>
  BY DEF Change
<1>4. SelfUpdatesRestore' /\ ObserverMissesOnlyRevivals'
      /\ (reader # "synced" => known = {})'
  BY <1>3 DEF CharacterInv, SelfUpdatesRestore, ObserverMissesOnlyRevivals
<1>5. NeverTooWell'
  BY <1>2, <1>3, CharacterAssumption DEF CharacterInv, NeverTooWell, Named
<1>6. LateReportsAreCorrected'
  BY <1>2, <1>3, CharacterAssumption
  DEF CharacterInv, LateReportsAreCorrected, Named
<1>7. QED
  BY <1>1, <1>4, <1>5, <1>6 DEF CharacterInv

LEMMA SendStep ==
    ASSUME CharacterInv, Send
    PROVE  CharacterInv'
<1>1. PICK T \in SUBSET Var :
         changed \subseteq T /\ toServer' = Append(toServer, [v \in T |-> game[v]])
  BY DEF Send
<1> DEFINE m == [v \in T |-> game[v]]
<1>2. m \in Msg /\ toServer \in Seq(Msg)
  BY DEF CharacterInv, CharacterTypeOK, Msg
<1>3. DOMAIN m = T /\ \A v \in T : m[v] = game[v]
  OBVIOUS
<1> HIDE DEF m
<1>4. toServer' = Append(toServer, m)
  BY <1>1 DEF m
<1>5. /\ changed' = {}
      /\ UNCHANGED <<value, reader, owed, known, picture, game, toOwner>>
  BY DEF Send
<1>6. CharacterTypeOK'
  <2>1. toServer' \in Seq(Msg) /\ Len(toServer') <= MaxUpdates
    BY <1>2, <1>4, AnotherMessage, CharacterAssumption
    DEF Send, CharacterInv, CharacterTypeOK
  <2>2. QED
    BY <2>1 DEF Send, CharacterInv, CharacterTypeOK
<1>7. SelfUpdatesRestore' /\ ObserverMissesOnlyRevivals'
      /\ (reader # "synced" => known = {})'
  BY <1>5 DEF CharacterInv, SelfUpdatesRestore, ObserverMissesOnlyRevivals
<1>8. \A v : Named(v, toServer) => Named(v, toServer')
  BY <1>2, <1>4, AnotherMessage DEF Named
<1>9. \A v \in T : Named(v, toServer')
  BY <1>2, <1>3, <1>4, AnotherMessage DEF Named
<1>10. NeverTooWell'
  BY <1>1, <1>5, <1>8, <1>9 DEF CharacterInv, NeverTooWell
<1>11. LateReportsAreCorrected'
  <2>1. SUFFICES ASSUME NEW i \in DOMAIN toServer',
                        NEW v \in DOMAIN toServer'[i] \cap Restored,
                        toServer'[i][v], ~game[v]
                 PROVE  \/ Named(v, toOwner)
                        \/ \E j \in DOMAIN toServer' :
                              i < j /\ v \in DOMAIN toServer'[j]
    BY <1>5 DEF LateReportsAreCorrected
  <2>2. i \in DOMAIN toServer /\ toServer'[i] = toServer[i] /\ i < Len(toServer) + 1
    BY <1>2, <1>3, <1>4, <2>1, AnotherMessage
  <2>3. \/ v \in changed \/ Named(v, toOwner)
        \/ \E j \in DOMAIN toServer : i < j /\ v \in DOMAIN toServer[j]
    BY <2>1, <2>2 DEF CharacterInv, LateReportsAreCorrected
  <2>4. CASE v \in changed
    BY <1>1, <1>2, <1>3, <1>4, <2>2, <2>4, AnotherMessage
  <2>5. CASE \E j \in DOMAIN toServer : i < j /\ v \in DOMAIN toServer[j]
    BY <1>2, <1>4, <2>5, AnotherMessage
  <2>6. QED
    BY <2>3, <2>4, <2>5
<1>12. QED
  BY <1>6, <1>7, <1>10, <1>11 DEF CharacterInv

LEMMA ReceiveSelfStep ==
    ASSUME CharacterInv, ReceiveSelf
    PROVE  CharacterInv'
<1> DEFINE m == Head(toOwner)
<1>1. toOwner \in Seq(Msg) /\ toOwner # <<>> /\ toOwner' = Tail(toOwner)
  BY DEF ReceiveSelf, CharacterInv, CharacterTypeOK
<1>2. m \in Msg /\ m = toOwner[1] /\ 1 \in DOMAIN toOwner
  BY <1>1, RestOfMessages
<1>3. \A v \in Restored : v \in DOMAIN m /\ m[v]
  BY <1>2 DEF CharacterInv, SelfUpdatesRestore
<1>4. game' = Update(game, m) /\ game \in [Var -> BOOLEAN]
  BY DEF ReceiveSelf, CharacterInv, CharacterTypeOK
<1>5. \A v \in Restored : game'[v]
  BY <1>2, <1>3, <1>4, UpdateType
<1>6. UNCHANGED <<value, reader, owed, known, picture, toServer>>
  BY DEF ReceiveSelf
<1>7. CharacterTypeOK'
  <2>1. toOwner' \in Seq(Msg) /\ Len(toOwner') <= MaxRevivals
    BY <1>1, RestOfMessages, CharacterAssumption DEF CharacterInv, CharacterTypeOK
  <2>2. game' \in [Var -> BOOLEAN] /\ changed' \subseteq Var
    BY <1>2, <1>4, UpdateType DEF ReceiveSelf, CharacterInv, CharacterTypeOK
  <2>3. upSince' \in BOOLEAN
    BY DEF ReceiveSelf, CharacterInv, CharacterTypeOK
  <2>4. QED
    BY <2>1, <2>2, <2>3 DEF ReceiveSelf, CharacterInv, CharacterTypeOK
<1>8. SelfUpdatesRestore'
  BY <1>1, RestOfMessages DEF CharacterInv, SelfUpdatesRestore
<1>9. ObserverMissesOnlyRevivals' /\ (reader # "synced" => known = {})'
  BY <1>6 DEF CharacterInv, ObserverMissesOnlyRevivals
<1>10. NeverTooWell' /\ LateReportsAreCorrected'
  BY <1>5 DEF NeverTooWell, LateReportsAreCorrected
<1>11. QED
  BY <1>7, <1>8, <1>9, <1>10 DEF CharacterInv

----------------------------------------------------------------------------
(* HandleUpdate *)

\* Whichever of the four outcomes, the server has of every variable what it
\* was told or what a revival restored, and a revival is on its way then.
LEMMA HandleUpdateEffect ==
    ASSUME CharacterInv, HandleUpdate
    PROVE  LET msg == Head(toServer) IN
           /\ value' \in [Var -> BOOLEAN]
           /\ \A v \in Var :
                 \/ value'[v] = (IF v \in DOMAIN msg THEN msg[v] ELSE value[v])
                 \/ v \in Restored /\ value'[v]
           /\ \/ /\ toOwner' = toOwner
                 /\ value' = Update(value, msg)
              \/ \E m \in Msg :
                    /\ toOwner' = Append(toOwner, m)
                    /\ Len(toOwner) < MaxRevivals
                    /\ \A v \in Restored : v \in DOMAIN m /\ m[v]
<1> USE CharacterAssumption
<1> DEFINE msg == Head(toServer)
           f == Update(value, msg)
<1>1. msg \in Msg
  BY RestOfMessages DEF HandleUpdate, CharacterInv, CharacterTypeOK
<1>2. /\ f \in [Var -> BOOLEAN]
      /\ \A v \in Var : f[v] = (IF v \in DOMAIN msg THEN msg[v] ELSE value[v])
      /\ DOMAIN msg \subseteq Var
  BY <1>1, UpdateType DEF CharacterInv, CharacterTypeOK
<1>3. Dies(f) \/ StaysDown(f) \/ Revives(f, msg) \/ IsUp(f)
  BY DEF HandleUpdate
<1> HIDE DEF f, msg
<1>4. CASE Dies(f) \/ StaysDown(f) \/ IsUp(f)
  <2>1. toOwner' = toOwner /\ value' = f
    BY <1>4 DEF Dies, StaysDown, IsUp
  <2>2. QED
    BY <1>2, <2>1 DEF f, msg
<1>5. CASE Revives(f, msg)
  <2>1. value' = Restore(f) /\ Len(toOwner) < MaxRevivals
        /\ toOwner' = Append(toOwner, SelfUpdate(msg, value'))
    BY <1>5 DEF Revives
  <2>2. /\ value' \in [Var -> BOOLEAN]
        /\ \A v \in Restored : value'[v]
        /\ \A v \in Var : v \notin Restored => value'[v] = f[v]
    BY <1>2, <2>1 DEF Restore
  <2>3. SelfUpdate(msg, value') \in [DOMAIN msg \cup Restored -> BOOLEAN]
    BY <1>2, <2>2 DEF SelfUpdate
  <2>4. DOMAIN msg \cup Restored \in SUBSET Var
    BY <1>2
  <2>5. SelfUpdate(msg, value') \in Msg
    BY <2>3, <2>4 DEF Msg
  <2>6. \A v \in Restored : /\ v \in DOMAIN SelfUpdate(msg, value')
                            /\ SelfUpdate(msg, value')[v]
    BY <2>2 DEF SelfUpdate
  <2>7. \E m \in Msg : /\ toOwner' = Append(toOwner, m)
                       /\ Len(toOwner) < MaxRevivals
                       /\ \A v \in Restored : v \in DOMAIN m /\ m[v]
    BY <2>1, <2>5, <2>6
  <2>8. \A v \in Var :
           \/ value'[v] = (IF v \in DOMAIN msg THEN msg[v] ELSE value[v])
           \/ v \in Restored /\ value'[v]
    BY <1>2, <2>2
  <2>9. QED
    BY <2>2, <2>7, <2>8 DEF msg
<1>6. QED
  BY <1>3, <1>4, <1>5

LEMMA HandleUpdateStep ==
    ASSUME CharacterInv, HandleUpdate
    PROVE  CharacterInv'
<1> USE CharacterAssumption
<1> DEFINE msg == Head(toServer)
<1>1. toServer \in Seq(Msg) /\ toServer # <<>> /\ toServer' = Tail(toServer)
      /\ toOwner \in Seq(Msg)
  BY DEF HandleUpdate, CharacterInv, CharacterTypeOK
<1>2. msg \in Msg /\ msg = toServer[1] /\ 1 \in DOMAIN toServer
      /\ DOMAIN msg \subseteq Var
  <2>1. msg \in Msg /\ msg = toServer[1] /\ 1 \in DOMAIN toServer
    BY <1>1, RestOfMessages
  <2>2. QED
    BY <2>1 DEF Msg
<1>3. /\ value' \in [Var -> BOOLEAN]
      /\ \A v \in Var :
            \/ value'[v] = (IF v \in DOMAIN msg THEN msg[v] ELSE value[v])
            \/ v \in Restored /\ value'[v]
  BY HandleUpdateEffect
<1>4. \/ toOwner' = toOwner /\ value' = Update(value, msg)
      \/ \E m \in Msg : /\ toOwner' = Append(toOwner, m)
                        /\ Len(toOwner) < MaxRevivals
                        /\ \A v \in Restored : v \in DOMAIN m /\ m[v]
  BY HandleUpdateEffect
<1>5. UNCHANGED <<known, picture, game, changed>>
  BY DEF HandleUpdate
<1>6. owed' = Publish(msg) /\ reader' \in {"nothing", "unsynced", "synced"}
      /\ (reader' = "synced" <=> reader = "synced")
  BY DEF HandleUpdate, CharacterInv, CharacterTypeOK
<1> HIDE DEF msg
<1>7. toOwner' \in Seq(Msg) /\ Len(toOwner') <= MaxRevivals
  <2>1. CASE toOwner' = toOwner
    BY <2>1 DEF CharacterInv, CharacterTypeOK
  <2>2. CASE \E m \in Msg : toOwner' = Append(toOwner, m)
                            /\ Len(toOwner) < MaxRevivals
    <3>1. toOwner' \in Seq(Msg) /\ Len(toOwner') = Len(toOwner) + 1
          /\ Len(toOwner) \in Nat
      BY <1>1, <2>2, AnotherMessage
    <3>2. QED
      BY <2>2, <3>1
  <2>3. QED
    BY <1>4, <2>1, <2>2
<1>8. CharacterTypeOK'
  <2>1. toServer' \in Seq(Msg) /\ Len(toServer') <= MaxUpdates
    BY <1>1, RestOfMessages DEF CharacterInv, CharacterTypeOK
  <2>2. deathChanged' \in BOOLEAN /\ waited' \in BOOLEAN /\ upSince' \in BOOLEAN
    BY DEF HandleUpdate, Dies, StaysDown, Revives, IsUp, CharacterInv,
           CharacterTypeOK
  <2>3. owed' \subseteq Var
    BY <1>2, <1>6 DEF Publish, CharacterInv, CharacterTypeOK
  <2>4. QED
    BY <1>3, <1>5, <1>6, <1>7, <2>1, <2>2, <2>3 DEF CharacterInv, CharacterTypeOK
<1>9. SelfUpdatesRestore'
  BY <1>1, <1>4, AnotherMessage DEF CharacterInv, SelfUpdatesRestore
<1>10. \A v : Named(v, toOwner) => Named(v, toOwner')
  BY <1>1, <1>4, AnotherMessage, SMTT(60) DEF Named
<1>11. LateReportsAreCorrected'
  <2>1. SUFFICES ASSUME NEW i \in DOMAIN toServer',
                        NEW v \in DOMAIN toServer'[i] \cap Restored,
                        toServer'[i][v], ~game[v]
                 PROVE  \/ v \in changed \/ Named(v, toOwner')
                        \/ \E j \in DOMAIN toServer' :
                              i < j /\ v \in DOMAIN toServer'[j]
    BY <1>5 DEF LateReportsAreCorrected
  <2>2. i + 1 \in DOMAIN toServer /\ toServer[i + 1] = toServer'[i] /\ i \in Nat
    BY <1>1, <2>1, RestOfMessages
  <2>3. \/ v \in changed \/ Named(v, toOwner)
        \/ \E j \in DOMAIN toServer : i + 1 < j /\ v \in DOMAIN toServer[j]
    BY <2>1, <2>2 DEF CharacterInv, LateReportsAreCorrected
  <2>4. ASSUME NEW j \in DOMAIN toServer, i + 1 < j, v \in DOMAIN toServer[j]
        PROVE  \E k \in DOMAIN toServer' : i < k /\ v \in DOMAIN toServer'[k]
    <3>1. j - 1 \in DOMAIN toServer' /\ toServer'[j - 1] = toServer[j] /\ i < j - 1
      BY <1>1, <2>2, <2>4, RestOfMessages
    <3>2. QED
      BY <2>4, <3>1
  <2>5. QED
    BY <1>10, <2>3, <2>4
<1>12. NeverTooWell'
  <2>1. SUFFICES ASSUME NEW v \in Restored, value'[v], ~game[v], v \notin changed,
                        ~Named(v, toOwner')
                 PROVE  Named(v, toServer')
    BY <1>5 DEF NeverTooWell
  <2>2. toOwner' = toOwner /\ value' = Update(value, msg)
    BY <1>1, <1>4, <2>1, AnotherMessage DEF Named
  <2>3. \E j \in DOMAIN toServer : 1 < j /\ v \in DOMAIN toServer[j]
    <3>1. CASE v \in DOMAIN msg
      <4>1. toServer[1][v]
        BY <1>2, <2>1, <2>2, <3>1 DEF Update
      <4>2. QED
        BY <1>2, <2>1, <2>2, <3>1, <4>1 DEF CharacterInv, LateReportsAreCorrected
    <3>2. CASE v \notin DOMAIN msg
      <4>1. value[v]
        BY <2>1, <2>2, <3>2 DEF Update
      <4>2. Named(v, toServer)
        BY <2>1, <2>2, <4>1 DEF CharacterInv, NeverTooWell
      <4>3. QED
        BY <1>1, <1>2, <3>2, <4>2 DEF Named
    <3>3. QED
      BY <3>1, <3>2
  <2>4. PICK j \in DOMAIN toServer : 1 < j /\ v \in DOMAIN toServer[j]
    BY <2>3
  <2>5. j - 1 \in DOMAIN toServer' /\ toServer'[j - 1] = toServer[j]
    BY <1>1, <2>4, RestOfMessages
  <2>6. QED
    BY <2>4, <2>5 DEF Named
<1>13. ObserverMissesOnlyRevivals' /\ (reader # "synced" => known = {})'
  <2>1. ASSUME NEW v \in known, picture[v] # value'[v]
        PROVE  v \in owed' \/ (v \in Restored /\ value'[v])
    <3>1. reader = "synced" /\ v \in Var
      BY <2>1 DEF CharacterInv, CharacterTypeOK
    <3>2. owed' = owed \cup DOMAIN msg
      BY <1>6, <3>1 DEF Publish
    <3>3. QED
      BY <1>3, <2>1, <3>1, <3>2 DEF CharacterInv, ObserverMissesOnlyRevivals
  <2>2. QED
    BY <1>5, <1>6, <2>1 DEF CharacterInv, ObserverMissesOnlyRevivals
<1>14. QED
  BY <1>8, <1>9, <1>11, <1>12, <1>13 DEF CharacterInv

----------------------------------------------------------------------------

LEMMA ObserverStep ==
    ASSUME CharacterInv, ObserverPolls
    PROVE  CharacterInv'
<1>1. UNCHANGED <<value, game, changed, toServer, toOwner>>
  BY DEF ObserverPolls
<1>2. SelfUpdatesRestore' /\ LateReportsAreCorrected' /\ NeverTooWell'
  BY <1>1 DEF CharacterInv, SelfUpdatesRestore, LateReportsAreCorrected,
              NeverTooWell, Named
<1>3. CASE reader = "unsynced" /\ reader' = "synced"
           /\ UNCHANGED <<owed, known, picture>>
  <2>1. CharacterTypeOK'
    BY <1>3 DEF ObserverPolls, CharacterInv, CharacterTypeOK
  <2>2. QED
    BY <1>1, <1>2, <1>3, <2>1 DEF CharacterInv, ObserverMissesOnlyRevivals
<1>4. CASE /\ reader = "synced" /\ UNCHANGED reader
           /\ owed' = {} /\ known' = known \cup owed
           /\ picture' = Update(picture, [v \in owed |-> value[v]])
  <2> DEFINE m == [v \in owed |-> value[v]]
  <2>1. m \in Msg /\ DOMAIN m = owed /\ \A v \in owed : m[v] = value[v]
    BY DEF CharacterInv, CharacterTypeOK, Msg
  <2> HIDE DEF m
  <2>2. picture' = Update(picture, m) /\ picture \in [Var -> BOOLEAN]
    BY <1>4 DEF m, CharacterInv, CharacterTypeOK
  <2>3. /\ picture' \in [Var -> BOOLEAN]
        /\ \A v \in owed : picture'[v] = value[v]
        /\ \A v \in Var \ owed : picture'[v] = picture[v]
    BY <2>1, <2>2, UpdateType
  <2>4. CharacterTypeOK'
    BY <1>4, <2>3 DEF ObserverPolls, CharacterInv, CharacterTypeOK
  <2>5. ObserverMissesOnlyRevivals'
    BY <1>1, <1>4, <2>3
    DEF CharacterInv, CharacterTypeOK, ObserverMissesOnlyRevivals
  <2>6. QED
    BY <1>2, <1>4, <2>4, <2>5 DEF CharacterInv
<1>5. QED
  BY <1>3, <1>4 DEF ObserverPolls

LEMMA CharacterStep ==
    ASSUME CharacterInv, [Next]_vars
    PROVE  CharacterInv'
<1>1. CASE Tick
  BY <1>1 DEF Tick, CharacterInv, CharacterTypeOK, SelfUpdatesRestore,
              LateReportsAreCorrected, NeverTooWell, Named,
              ObserverMissesOnlyRevivals
<1>2. CASE UNCHANGED vars
  BY <1>2 DEF vars, CharacterInv, CharacterTypeOK, SelfUpdatesRestore,
              LateReportsAreCorrected, NeverTooWell, Named,
              ObserverMissesOnlyRevivals
<1>3. QED
  BY <1>1, <1>2, ChangeStep, SendStep, ReceiveSelfStep, HandleUpdateStep,
     ObserverStep DEF Next

\* The invariant of what is on its way (HandleUpdate, AddUpdateSelf).
THEOREM CharacterInvariant == Spec => []CharacterInv
BY CharacterInit, CharacterStep, PTL DEF Spec

\* The server never takes a player for better than the player is, but for what
\* is still to be reported or to arrive (HandleUpdate, AddUpdateSelf).
THEOREM ServerNeverTooWell == Spec => []NeverTooWell
<1>1. CharacterInv => NeverTooWell
  BY DEF CharacterInv
<1>2. QED
  BY <1>1, CharacterInvariant, PTL

\* All an observer that polls in time has wrong is a revival
\* (AddOtherClientVariables).
THEOREM OnlyRevivalsAreMissed == Spec => []ObserverMissesOnlyRevivals
<1>1. CharacterInv => ObserverMissesOnlyRevivals
  BY DEF CharacterInv
<1>2. QED
  BY <1>1, CharacterInvariant, PTL
=============================================================================
