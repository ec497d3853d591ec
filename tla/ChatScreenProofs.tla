--------------------------- MODULE ChatScreenProofs ---------------------------
(***************************************************************************)
(* Proofs about ChatScreen, for any number of messages, dialogs, requests  *)
(* and faults.                                                             *)
(***************************************************************************)
EXTENDS ChatScreen, FiniteSetTheorems, SequenceTheorems, TLAPS

(* What the helpers return.                                                *)

\* A set of naturals that is not empty has a least element.
LEMMA Least ==
  ASSUME NEW S, S \subseteq Nat, S # {}
  PROVE  \E i \in S : \A j \in S : i <= j
<1>1. PICK i \in S : \A j \in S : ~ (<<j, i>> \in OpToRel(<, Nat))
  BY WFMin, NatLessThanWellFounded, Zenon
<1>2. ASSUME NEW j \in S, j < i PROVE FALSE
  <2>1. <<j, i>> \in OpToRel(<, Nat)
    BY <1>2 DEF OpToRel
  <2>2. QED
    BY <1>1, <2>1
<1>3. QED
  BY <1>2, i \in Nat

\* querySelector gives a bubble of m, or none.
LEMMA FirstBubbleIn ==
  ASSUME list \in Seq(Bubble), NEW m \in Messages
  PROVE  /\ FirstBubble(m) \in 0..Len(list)
         /\ FirstBubble(m) # 0 => FirstBubble(m) \in DOMAIN list
<1>1. BubblesOf(m) \subseteq 1..Len(list)
  BY LenProperties DEF BubblesOf
<1>2. Len(list) \in Nat
  BY LenProperties
<1>3. CASE BubblesOf(m) = {}
  BY <1>2, <1>3 DEF FirstBubble
<1>4. CASE BubblesOf(m) # {}
  <2>1. \E i \in BubblesOf(m) : \A j \in BubblesOf(m) : i <= j
    <3>1. BubblesOf(m) \subseteq Nat
      BY <1>1, <1>2
    <3>2. QED
      BY <3>1, <1>4, Least
  <2>2. FirstBubble(m) \in BubblesOf(m)
    BY <2>1, <1>4 DEF FirstBubble
  <2>3. QED
    BY <2>2, <1>1, <1>2, LenProperties
<1>5. QED
  BY <1>3, <1>4

\* The rendered rows: one bubble each.
LEMMA BubblesAre ==
  ASSUME NEW rows \in SUBSET Messages
  PROVE  /\ Bubbles(rows) \in Seq(Bubble)
         /\ Len(Bubbles(rows)) = Cardinality(rows)
         /\ Cardinality(rows) \in Nat
         /\ \A i \in 1..Cardinality(rows) :
              /\ Bubbles(rows)[i].msg \in rows
              /\ Bubbles(rows)[i].from = "history"
         /\ \A m \in rows : Position(rows, m) \in 1..Cardinality(rows)
<1> DEFINE n == Cardinality(rows)
<1>1. IsFiniteSet(rows) /\ n \in Nat /\ ExistsBijection(1..n, rows)
  BY ScreenAssumption, FS_Subset, FS_CardinalityType
<1>2. SetToSeq(rows) \in [1..n -> rows] /\ IsInjective(SetToSeq(rows))
  <2>1. \E f \in [1..n -> rows] : IsInjective(f)
    BY <1>1, Zenon DEF ExistsBijection, Bijection, Injection
  <2>2. QED
    BY <2>1, Zenon DEF SetToSeq
<1>3. \A i \in 1..n : SetToSeq(rows)[i] \in rows
  BY <1>2
<1>4. Bubbles(rows) \in [1..n -> Bubble]
  BY <1>3 DEF Bubbles, Bubble
<1>5. Bubbles(rows) \in Seq(Bubble) /\ Len(Bubbles(rows)) = n
  BY <1>1, <1>4
<1>6. \A i \in 1..n : Bubbles(rows)[i].msg \in rows
                      /\ Bubbles(rows)[i].from = "history"
  BY <1>3 DEF Bubbles
<1>7. ASSUME NEW m \in rows PROVE Position(rows, m) \in 1..n
  <2>1. Cardinality(1..n) = n /\ IsFiniteSet(1..n)
    BY <1>1, FS_Interval
  <2>2. SetToSeq(rows) \in Injection(1..n, rows)
    BY <1>2, Zenon DEF Injection
  <2>3. SetToSeq(rows) \in Surjection(1..n, rows)
    BY <2>1, <2>2, <1>1, FS_Injection
  <2>4. \E i \in 1..n : SetToSeq(rows)[i] = m
    BY <2>3, Zenon DEF Surjection
  <2>5. QED
    BY <2>4 DEF Position
<1>8. QED
  BY <1>1, <1>5, <1>6, <1>7

\* Marking: nothing is forgotten, and nothing asked for behind the lock.
LEMMA MarkReadDoes ==
  ASSUME pending \subseteq Messages, asked \subseteq Messages,
         unmarked \subseteq Messages,
         NEW seen \in SUBSET Messages, NEW flush \in BOOLEAN,
         MarkRead(seen, flush)
  PROVE  /\ asked' \subseteq Messages /\ pending' \subseteq Messages
         /\ \A m \in asked \cup pending \cup unmarked \cup seen :
              clock[m] = "none" => m \in asked' \cup pending' \cup unmarked'
         /\ flush => pending' = {}
         /\ ~flush /\ locked => asked' \subseteq asked
         /\ pending' \subseteq pending \/ hidden \/ locked
BY DEF MarkRead

\* Hiding a bubble changes nothing else of the list.
LEMMA HideDoes ==
  ASSUME list \in Seq(Bubble), NEW i \in DOMAIN list
  PROVE  /\ Hide(i) \in Seq(Bubble)
         /\ Len(Hide(i)) = Len(list)
         /\ DOMAIN Hide(i) = DOMAIN list
         /\ \A j \in DOMAIN list : /\ Hide(i)[j].msg = list[j].msg
                                   /\ Hide(i)[j].from = list[j].from
<1>1. DOMAIN list = 1..Len(list) /\ list[i] \in Bubble
  BY LenProperties, ElementOfSeq
<1>2. Hide(i) = [list EXCEPT ![i] = [list[i] EXCEPT !.shown = FALSE]]
  BY DEF Hide
<1>3. [list[i] EXCEPT !.shown = FALSE] \in Bubble
  BY <1>1 DEF Bubble
<1>4. Hide(i) \in Seq(Bubble) /\ Len(Hide(i)) = Len(list)
  BY <1>1, <1>2, <1>3, ExceptSeq
<1>5. \A j \in DOMAIN list : Hide(i)[j].msg = list[j].msg
                             /\ Hide(i)[j].from = list[j].from
  <2> SUFFICES ASSUME NEW j \in DOMAIN list
               PROVE  Hide(i)[j].msg = list[j].msg /\ Hide(i)[j].from = list[j].from
    OBVIOUS
  <2>1. list[j] \in Bubble
    BY <1>1, ElementOfSeq
  <2>2. QED
    BY <2>1, <1>1, <1>2 DEF Bubble
<1>6. QED
  BY <1>1, <1>2, <1>4, <1>5

\* A request that is new, or was under way with the same rows.
Inherits(k) ==
  \/ k.rows = {} /\ k.dated = {}
  \/ \E l \in loads :
       k.dialog = l.dialog /\ k.rows = l.rows /\ k.dated = l.dated

\* A new request: the ones under way keep all but being the latest.
LEMMA LoadDoes ==
  ASSUME loads \subseteq Load, NEW d \in Dialogs, NEW flush \in BOOLEAN,
         LoadChatHistory(d, flush)
  PROVE  /\ loads' \subseteq Load
         /\ \A k \in loads' : Inherits(k)
         /\ \A l \in loads : l.flush => \E k \in loads' : k.flush
         /\ flush => \E k \in loads' : k.flush
         /\ list' = << >> /\ timers' = [m \in Messages |-> 0]
<1> DEFINE new == [dialog |-> d, flush |-> flush, latest |-> TRUE,
                   read |-> FALSE, rows |-> {}, dated |-> {}]
<1>1. loads' = {[l EXCEPT !.latest = FALSE] : l \in loads} \cup {new}
  BY DEF LoadChatHistory
<1>2. new \in Load /\ new.rows = {} /\ new.dated = {} /\ new.flush = flush
  BY DEF Load
<1>3. ASSUME NEW l \in loads
      PROVE  LET k == [l EXCEPT !.latest = FALSE]
             IN  k \in Load /\ k.dialog = l.dialog /\ k.rows = l.rows
                 /\ k.dated = l.dated /\ k.flush = l.flush
  <2>1. l \in Load
    OBVIOUS
  <2>2. QED
    BY <2>1 DEF Load
<1>4. list' = << >> /\ timers' = [m \in Messages |-> 0]
  BY DEF LoadChatHistory, StopAllTTLTimers, NoTimers
<1> HIDE DEF new
<1>5. loads' \subseteq Load
  BY <1>1, <1>2, <1>3
<1>6. ASSUME NEW k \in loads'
      PROVE  Inherits(k)
  <2>1. CASE k = new
    BY <2>1, <1>2 DEF Inherits
  <2>2. ASSUME NEW l \in loads, k = [l EXCEPT !.latest = FALSE]
        PROVE  k.dialog = l.dialog /\ k.rows = l.rows /\ k.dated = l.dated
    BY <2>2, <1>3, Zenon
  <2>3. k = new \/ \E l \in loads : k = [l EXCEPT !.latest = FALSE]
    BY <1>1, Zenon
  <2>4. QED
    BY <2>1, <2>2, <2>3 DEF Inherits
<1>7. \A l \in loads : l.flush => \E k \in loads' : k.flush
  BY <1>1, <1>3
<1>8. flush => \E k \in loads' : k.flush
  BY <1>1, <1>2
<1>9. QED
  BY <1>4, <1>5, <1>6, <1>7, <1>8
-----------------------------------------------------------------------------
(* Types.                                                                  *)

NewRows(l) == {m \in Messages : DialogOf[m] = l.dialog /\ life[m] = "live"}

Read(l) == [l EXCEPT !.read = TRUE, !.rows = NewRows(l),
                     !.dated = {m \in NewRows(l) : clock[m] # "none"}]

\* What a request that reads the server's rows changes of it.
LEMMA ReadIs ==
  ASSUME NEW l \in Load
  PROVE  /\ Read(l) \in Load
         /\ Read(l).dialog = l.dialog /\ Read(l).flush = l.flush
         /\ Read(l).rows = NewRows(l)
         /\ \A m \in Read(l).dated : clock[m] # "none"
BY DEF Load, Read, NewRows

\* The answer of the server is to one request.
LEMMA ListMessagesReads ==
  ASSUME NEW l \in loads, ListMessages(l)
  PROVE  loads' = (loads \ {l}) \cup {Read(l)}
BY DEF ListMessages, Read, NewRows

\* The events keep the list and its intervals together.
LEMMA HandleTypes ==
  ASSUME TypeOK, HandleWSMessage
  PROVE  /\ list' \in Seq(Bubble)
         /\ timers' \in [Messages -> 0..Len(list')]
         /\ pending' \subseteq Messages
         /\ asked' \subseteq Messages
         /\ unmarked' \subseteq Messages
<1> DEFINE m == Head(wire)[2]
<1>1. Head(wire) \in Event /\ m \in Messages
  <2>1. Head(wire) \in Event
    BY HeadTailProperties DEF TypeOK, HandleWSMessage
  <2>2. QED
    BY <2>1 DEF Event
<1>2. /\ list \in Seq(Bubble) /\ Len(list) \in Nat
      /\ timers \in [Messages -> 0..Len(list)]
      /\ pending \subseteq Messages /\ asked \subseteq Messages
      /\ unmarked \subseteq Messages
  BY LenProperties DEF TypeOK
<1>3. OnMessageNew(m) \/ OnTTLStarted(m) \/ OnMessageDeleted(m)
  BY <1>1 DEF HandleWSMessage, Event
<1> HIDE DEF m
<1>4. CASE OnMessageNew(m)
  <2>1. CASE current = DialogOf[m]
    <3>1. [msg |-> m, from |-> "live", shown |-> TRUE] \in Bubble
      BY <1>1 DEF Bubble
    <3>2. list' \in Seq(Bubble) /\ Len(list') = Len(list) + 1
      BY <3>1, <2>1, <1>2, <1>4, AppendProperties DEF OnMessageNew, AppendBubble
    <3>3. MarkRead({m}, FALSE) /\ timers' = timers
      BY <2>1, <1>4 DEF OnMessageNew
    <3>4. pending' \subseteq Messages /\ asked' \subseteq Messages
          /\ unmarked' \subseteq Messages
      BY <3>3, <1>1, <1>2 DEF MarkRead
    <3>5. QED
      BY <3>2, <3>3, <3>4, <1>2
  <2>2. CASE current # DialogOf[m]
    BY <2>2, <1>2, <1>4 DEF OnMessageNew, listVars, markVars
  <2>3. QED
    BY <2>1, <2>2
<1>5. CASE OnTTLStarted(m)
  <2>1. FirstBubble(m) \in 0..Len(list)
        /\ (FirstBubble(m) # 0 => FirstBubble(m) \in DOMAIN list)
    BY <1>1, <1>2, FirstBubbleIn
  <2>2. list' \in Seq(Bubble) /\ Len(list') = Len(list)
    BY <2>1, <1>2, <1>5, HideDoes DEF OnTTLStarted
  <2>3. timers' \in [Messages -> 0..Len(list)]
    BY <2>1, <1>1, <1>2, <1>5 DEF OnTTLStarted
  <2>4. QED
    BY <2>2, <2>3, <1>2, <1>5 DEF OnTTLStarted, markVars
<1>6. CASE OnMessageDeleted(m)
  <2>1. FirstBubble(m) # 0 => FirstBubble(m) \in DOMAIN list
    BY <1>1, <1>2, FirstBubbleIn
  <2>2. list' \in Seq(Bubble) /\ Len(list') = Len(list)
    BY <2>1, <1>2, <1>6, HideDoes DEF OnMessageDeleted
  <2>3. timers' \in [Messages -> 0..Len(list)]
    BY <1>1, <1>2, <1>6 DEF OnMessageDeleted
  <2>4. QED
    BY <2>2, <2>3, <1>2, <1>6 DEF OnMessageDeleted, markVars
<1>7. QED
  BY <1>3, <1>4, <1>5, <1>6

\* An answer of the history does so too.
LEMMA AnswerTypes ==
  ASSUME TypeOK, NEW l \in loads, HistoryAnswer(l)
  PROVE  /\ list' \in Seq(Bubble)
         /\ timers' \in [Messages -> 0..Len(list')]
         /\ pending' \subseteq Messages
         /\ asked' \subseteq Messages
         /\ unmarked' \subseteq Messages
<1> DEFINE rows == Fresh(l)
<1>1. l \in Load /\ l.rows \subseteq Messages /\ l.flush \in BOOLEAN
  BY DEF TypeOK, Load
<1>2. rows \in SUBSET Messages
  BY <1>1 DEF Fresh
<1>3. /\ list \in Seq(Bubble) /\ Len(list) \in Nat
      /\ timers \in [Messages -> 0..Len(list)]
      /\ pending \subseteq Messages /\ asked \subseteq Messages
      /\ unmarked \subseteq Messages
      /\ locked \in BOOLEAN
  BY LenProperties DEF TypeOK
<1>4. /\ list' = list \o Bubbles(rows)
      /\ MarkRead(Unread(rows, l.dated), MayFlush(l))
      /\ timers' = [m \in Messages |-> IF m \in rows \cap l.dated
                                        THEN Len(list) + Position(rows, m)
                                        ELSE timers[m]]
  BY DEF HistoryAnswer
<1> HIDE DEF rows
<1>5. list' \in Seq(Bubble) /\ Len(list') = Len(list) + Cardinality(rows)
  BY <1>2, <1>3, <1>4, BubblesAre, ConcatProperties
<1>6. timers' \in [Messages -> 0..Len(list')]
  <2> SUFFICES ASSUME NEW m \in Messages PROVE timers'[m] \in 0..Len(list')
    BY <1>4
  <2>1. Cardinality(rows) \in Nat
    BY <1>2, BubblesAre
  <2>2. CASE m \in rows \cap l.dated
    <3>1. Position(rows, m) \in 1..Cardinality(rows)
      BY <2>2, <1>2, BubblesAre
    <3>2. QED
      BY <3>1, <2>1, <2>2, <1>3, <1>4, <1>5
  <2>3. CASE m \notin rows \cap l.dated
    BY <2>1, <2>3, <1>3, <1>4, <1>5
  <2>4. QED
    BY <2>2, <2>3
<1>7. pending' \subseteq Messages /\ asked' \subseteq Messages
      /\ unmarked' \subseteq Messages
  BY <1>2, <1>3, <1>4 DEF MarkRead, Unread
<1>8. QED
  BY <1>5, <1>6, <1>7

\* Where the user has left the app, and what the lock remembers of it.
ScreenInv ==
  /\ locked <=> screen = "unlock"
  /\ screen = "chat" => current \in Dialogs
  /\ screen = "home" => current = NoDialog
  /\ screen = "unlock" =>
       IF before.screen = "chat"
       THEN before.dialog = current /\ current \in Dialogs
       ELSE current = NoDialog

\* The screen starts empty, with every variable in its type.
LEMMA TypeInit == Init => TypeOK /\ ScreenInv
<1> SUFFICES ASSUME Init PROVE TypeOK /\ ScreenInv
  OBVIOUS
<1>1. /\ list \in Seq(Bubble) /\ wire \in Seq(Event)
      /\ timers \in [Messages -> 0..Len(list)]
  BY EmptySeq DEF Init, NoTimers
<1>2. /\ life \in [Messages -> {"absent", "live", "removed"}]
      /\ clock \in [Messages -> {"none", "running", "past"}]
      /\ before \in [screen : AppScreens, dialog : Dialogs \cup {NoDialog}]
      /\ faults \in 0..MaxFaults
  BY ScreenAssumption DEF Init, NoLock, AppScreens
<1>3. ScreenInv
  BY DEF Init, ScreenInv
<1>4. TypeOK
  BY <1>1, <1>2, Zenon DEF Init, TypeOK, AppScreens
<1>5. QED
  BY <1>3, <1>4

\* Every step keeps the types.
LEMMA TypeStep == TypeOK /\ ScreenInv /\ [Next]_vars => TypeOK'
<1> SUFFICES ASSUME TypeOK, ScreenInv, [Next]_vars PROVE TypeOK'
  OBVIOUS
<1> USE ScreenAssumption
<1> USE DEF serverVars, linkVars, lockVars, listVars, markVars, clientVars
<1>0. /\ list \in Seq(Bubble) /\ Len(list) \in Nat
      /\ wire \in Seq(Event) /\ Range(wire) \subseteq Event
  BY LenProperties DEF TypeOK, Range
<1>1. ASSUME NEW m \in Messages, PeerPosts(m) PROVE TypeOK'
  BY <1>1 DEF TypeOK, PeerPosts, Owe, Event
<1>2. ASSUME NEW m \in Messages, StartTTL(m) PROVE TypeOK'
  BY <1>2 DEF TypeOK, StartTTL, Owe, Event
<1>3. ASSUME NEW m \in Messages, MarkFails(m) \/ TimeOut(m) PROVE TypeOK'
  <2>1. CASE MarkFails(m)
    <3>1. /\ faults' \in 0..MaxFaults
          /\ asked' \subseteq Messages /\ unmarked' \subseteq Messages
      BY <2>1 DEF TypeOK, MarkFails, Fault
    <3>2. QED
      BY <2>1, <3>1 DEF TypeOK, MarkFails
  <2>2. CASE TimeOut(m)
    BY <2>2 DEF TypeOK, TimeOut
  <2>3. QED
    BY <1>3, <2>1, <2>2
<1>4. ASSUME NEW m \in Messages, RemoveMessage(m) PROVE TypeOK'
  BY <1>4 DEF TypeOK, RemoveMessage, Owe, Event
<1>5. ASSUME NEW e \in owed, Send(e) PROVE TypeOK'
  <2>1. e \in Event
    BY DEF TypeOK
  <2>2. wire' \in Seq(Event)
    BY <2>1, <1>0, <1>5, AppendProperties DEF Send
  <2>3. crossed' \subseteq Event
    BY <2>1, <1>5 DEF TypeOK, Send
  <2>4. QED
    BY <2>2, <2>3, <1>5 DEF TypeOK, Send
<1>6. ASSUME NEW m \in Messages, HideExpiredBubble(m) PROVE TypeOK'
  <2>1. timers[m] \in DOMAIN list
    BY <1>6, <1>0, LenProperties DEF TypeOK, HideExpiredBubble
  <2>2. list' \in Seq(Bubble) /\ Len(list') = Len(list)
    BY <2>1, <1>0, <1>6, HideDoes DEF HideExpiredBubble
  <2>3. timers' \in [Messages -> 0..Len(list')]
    BY <2>2, <1>0, <1>6 DEF TypeOK, HideExpiredBubble
  <2>4. QED
    BY <2>2, <2>3, <1>6 DEF TypeOK, HideExpiredBubble
<1>7. ASSUME NEW l \in loads, ListMessages(l) PROVE TypeOK'
  <2>1. loads' \subseteq Load
    BY <1>7, ListMessagesReads, ReadIs DEF TypeOK
  <2>2. crossed' \subseteq Event
    BY <1>0, <1>7 DEF TypeOK, ListMessages, UnderWay
  <2>3. QED
    BY <2>1, <2>2, <1>7 DEF TypeOK, ListMessages
<1>8. ASSUME NEW l \in loads, HistoryAnswer(l) PROVE TypeOK'
  <2>1. /\ list' \in Seq(Bubble) /\ timers' \in [Messages -> 0..Len(list')]
        /\ pending' \subseteq Messages /\ asked' \subseteq Messages
        /\ unmarked' \subseteq Messages
    BY <1>8, AnswerTypes
  <2>2. QED
    BY <2>1, <1>8 DEF TypeOK, HistoryAnswer
<1>9. ASSUME NEW l \in loads, HistoryFails(l) PROVE TypeOK'
  <2>1. pending' \subseteq Messages /\ asked' \subseteq Messages
        /\ unmarked' \subseteq Messages
    BY <1>9 DEF TypeOK, HistoryFails, MarkRead
  <2>2. QED
    BY <2>1, <1>9 DEF TypeOK, HistoryFails, Fault
<1>10. CASE HandleWSMessage
  <2>1. /\ list' \in Seq(Bubble) /\ timers' \in [Messages -> 0..Len(list')]
        /\ pending' \subseteq Messages /\ asked' \subseteq Messages
        /\ unmarked' \subseteq Messages
    BY <1>10, HandleTypes
  <2>2. wire' \in Seq(Event) /\ Head(wire) \in Event
    BY <1>0, <1>10, HeadTailProperties DEF HandleWSMessage
  <2>3. crossed' \subseteq Event
    BY <2>2, <1>10 DEF TypeOK, HandleWSMessage, Overtaken
  <2>4. QED
    BY <2>1, <2>2, <2>3, <1>10 DEF TypeOK, HandleWSMessage
<1>11. CASE Register
  BY <1>11 DEF TypeOK, Register
<1> DEFINE LoadTypes == /\ loads' \subseteq Load
                       /\ list' \in Seq(Bubble)
                       /\ timers' \in [Messages -> 0..Len(list')]
                       /\ crossed' \subseteq Event
<1>12. ASSUME NEW d \in Dialogs, NEW flush \in BOOLEAN, LoadChatHistory(d, flush)
       PROVE  LoadTypes
  <2>1. loads' \subseteq Load /\ list' = << >> /\ timers' = [m \in Messages |-> 0]
    BY <1>12, LoadDoes DEF TypeOK
  <2>2. crossed' = {} /\ list' \in Seq(Bubble) /\ Len(list') = 0
    BY <2>1, <1>12, EmptySeq DEF LoadChatHistory
  <2>3. QED
    BY <2>1, <2>2
<1>13. ASSUME NoLoad PROVE LoadTypes
  BY <1>13 DEF TypeOK, NoLoad
<1> HIDE DEF LoadTypes
<1>14. CASE Open
  <2>1. current # NoDialog => current \in Dialogs
    BY DEF TypeOK
  <2>2. LoadTypes
    BY <2>1, <1>12, <1>13, <1>14 DEF Open, Reloads
  <2>3. QED
    BY <2>2, <1>14 DEF TypeOK, Open, LoadTypes
<1>15. CASE Break
  <2>1. wire' \in Seq(Event)
    BY <1>15, EmptySeq DEF Break
  <2>2. /\ link' = "waiting" /\ registered' = FALSE /\ faults' \in 0..MaxFaults
        /\ UNCHANGED <<serverVars, screen, current, lockVars, listVars,
                       markVars, loads, crossed>>
    BY <1>15 DEF TypeOK, Break, Fault
  <2>3. QED
    BY <2>1, <2>2 DEF TypeOK
<1>16. CASE DoReconnectWS
  BY <1>16 DEF TypeOK, DoReconnectWS, Fault
<1>17. ASSUME ConnectFromHome
       PROVE  /\ link' \in {"off", "waiting", "connecting", "open"}
              /\ registered' = registered /\ wire' = wire
              /\ faults' \in 0..MaxFaults
  BY <1>17 DEF TypeOK, ConnectFromHome, Fault
<1>18. ASSUME NEW d \in Dialogs, ShowChat(d) PROVE TypeOK'
  <2>1. LoadTypes
    BY <1>12, <1>18 DEF ShowChat
  <2>2. QED
    BY <2>1, <1>18 DEF TypeOK, ShowChat, LoadTypes, AppScreens
<1>19. CASE BackFromChat
  <2>1. timers' \in [Messages -> 0..Len(list')]
    BY <1>0, <1>19 DEF BackFromChat, StopAllTTLTimers, NoTimers
  <2>2. QED
    BY <2>1, <1>17, <1>19 DEF TypeOK, BackFromChat, AppScreens
<1>20. CASE LoadHome
  BY <1>17, <1>20 DEF TypeOK, LoadHome
<1>21. CASE OnAppHidden
  BY <1>21 DEF TypeOK, OnAppHidden
<1>22. ASSUME NEW long \in BOOLEAN, OnAppVisible(long) PROVE TypeOK'
  <2>1. current # NoDialog => current \in Dialogs
    BY DEF TypeOK
  <2>2. LoadTypes
    BY <2>1, <1>12, <1>13, <1>22 DEF OnAppVisible
  <2>3. /\ before' \in [screen : AppScreens, dialog : Dialogs \cup {NoDialog}]
        /\ screen' \in AppScreens \cup {"unlock"}
        /\ locked' \in BOOLEAN
    <3>1. CASE long /\ screen \in AppScreens
      BY <3>1, <1>22 DEF TypeOK, OnAppVisible
    <3>2. CASE ~ (long /\ screen \in AppScreens)
      BY <3>2, <1>22 DEF TypeOK, OnAppVisible
    <3>3. QED
      BY <3>1, <3>2
  <2>4. hidden' \in BOOLEAN
    BY <1>22 DEF OnAppVisible
  <2>5. hiddenAt' \in BOOLEAN
    BY <1>22, Zenon DEF OnAppVisible
  <2>6. UNCHANGED <<serverVars, linkVars, current, markVars, faults>>
    BY <1>22 DEF OnAppVisible
  <2>7. QED
    BY <2>2, <2>3, <2>4, <2>5, <2>6 DEF TypeOK, LoadTypes
<1>23. CASE UnlockAfterResume
  <2>1. before.screen = "chat" => before.dialog \in Dialogs
    BY <1>23 DEF UnlockAfterResume, ScreenInv
  <2>2. LoadTypes
    BY <2>1, <1>12, <1>13, <1>23 DEF UnlockAfterResume
  <2>3. /\ link' \in {"off", "waiting", "connecting", "open"}
        /\ registered' = registered /\ wire' = wire
        /\ faults' \in 0..MaxFaults
    BY <1>17, <1>23 DEF TypeOK, UnlockAfterResume
  <2>4. QED
    BY <2>1, <2>2, <2>3, <1>23
       DEF TypeOK, UnlockAfterResume, LoadTypes, Unlocked, NoLock, AppScreens
<1>24. CASE UNCHANGED vars
  BY <1>24 DEF TypeOK, vars
<1>25. QED
  BY <1>1, <1>2, <1>3, <1>4, <1>5, <1>6, <1>7, <1>8, <1>9, <1>10, <1>11, <1>14,
     <1>15, <1>16, <1>18, <1>19, <1>20, <1>21, <1>22, <1>23, <1>24
     DEF Next, Server, Answer, User

\* Every step keeps the screen, the lock and the open dialog in agreement.
LEMMA ScreenStep == TypeOK /\ ScreenInv /\ [Next]_vars => ScreenInv'
<1> SUFFICES ASSUME TypeOK, ScreenInv, [Next]_vars PROVE ScreenInv'
  OBVIOUS
<1> USE ScreenAssumption
<1> USE DEF serverVars, linkVars, lockVars, listVars, markVars, clientVars
<1>1. ASSUME UNCHANGED <<screen, current, locked, before>> PROVE ScreenInv'
  BY <1>1 DEF ScreenInv
<1>2. ASSUME NEW m \in Messages, Server(m) \/ HideExpiredBubble(m)
      PROVE  ScreenInv'
  BY <1>1, <1>2 DEF Server, PeerPosts, StartTTL, MarkFails, TimeOut, RemoveMessage,
                    HideExpiredBubble
<1>3. ASSUME NEW e \in owed, Send(e) PROVE ScreenInv'
  BY <1>1, <1>3 DEF Send
<1>4. ASSUME NEW l \in loads, ListMessages(l) \/ HistoryAnswer(l) \/ HistoryFails(l)
      PROVE  ScreenInv'
  BY <1>1, <1>4 DEF ListMessages, HistoryAnswer, HistoryFails
<1>5. CASE HandleWSMessage \/ Register \/ Open \/ Break \/ DoReconnectWS
  BY <1>1, <1>5 DEF HandleWSMessage, Register, Open, Break, DoReconnectWS
<1>6. ASSUME NEW d \in Dialogs, ShowChat(d) PROVE ScreenInv'
  BY <1>6 DEF ShowChat, ScreenInv
<1>7. CASE BackFromChat
  BY <1>7 DEF BackFromChat, ScreenInv
<1>8. CASE LoadHome \/ OnAppHidden
  BY <1>1, <1>8 DEF LoadHome, OnAppHidden
<1>9. ASSUME NEW long \in BOOLEAN, OnAppVisible(long) PROVE ScreenInv'
  <2>1. CASE long /\ screen \in AppScreens
    <3>1. /\ locked' = TRUE /\ screen' = "unlock" /\ current' = current
          /\ before' = [screen |-> screen, dialog |-> current]
      BY <2>1, <1>9 DEF OnAppVisible
    <3>2. before'.screen = screen /\ before'.dialog = current
      BY <3>1
    <3>3. screen = "chat" => current \in Dialogs
      BY DEF ScreenInv
    <3>4. screen # "chat" => current = NoDialog
      BY <2>1 DEF ScreenInv, AppScreens
    <3>5. QED
      BY <3>1, <3>2, <3>3, <3>4 DEF ScreenInv
  <2>2. CASE ~ (long /\ screen \in AppScreens)
    BY <2>2, <1>1, <1>9 DEF OnAppVisible
  <2>3. QED
    BY <2>1, <2>2
<1>10. CASE UnlockAfterResume
  <2>1. before.screen \in {"home", "chat"}
    BY DEF TypeOK, AppScreens
  <2>2. QED
    BY <2>1, <1>10 DEF UnlockAfterResume, Unlocked, ScreenInv
<1>11. CASE UNCHANGED vars
  BY <1>1, <1>11 DEF vars
<1>12. QED
  BY <1>2, <1>3, <1>4, <1>5, <1>6, <1>7, <1>8, <1>9, <1>10, <1>11
     DEF Next, Answer, User

\* The variables keep their types.
THEOREM TypeCorrect == Spec => []TypeOK
<1>1. TypeOK /\ ScreenInv /\ [Next]_vars => (TypeOK /\ ScreenInv)'
  BY TypeStep, ScreenStep
<1>2. QED
  BY <1>1, TypeInit, PTL DEF Spec
-----------------------------------------------------------------------------
(* What the answers and the events bring.                                  *)

\* A row asked for is of its dialog, and a deadline that was read is running.
LoadsInv ==
  \A l \in loads : /\ \A m \in l.rows : DialogOf[m] = l.dialog
                   /\ \A m \in l.dated : clock[m] # "none"

\* A deadline is never taken back.
LEMMA ClockStays ==
  ASSUME TypeOK, [Next]_vars, NEW m \in Messages, clock[m] # "none"
  PROVE  clock'[m] # "none"
<1> USE DEF TypeOK, serverVars, clientVars
<1>1. ASSUME NEW n \in Messages, StartTTL(n) \/ TimeOut(n) PROVE clock'[m] # "none"
  BY <1>1 DEF StartTTL, TimeOut
<1>2. ASSUME clock' = clock PROVE clock'[m] # "none"
  BY <1>2
<1>3. ASSUME NEW n \in Messages,
             PeerPosts(n) \/ MarkFails(n) \/ RemoveMessage(n) \/ HideExpiredBubble(n)
      PROVE  clock' = clock
  BY <1>3 DEF PeerPosts, MarkFails, RemoveMessage, HideExpiredBubble
<1>4. ASSUME NEW e \in owed, Send(e) PROVE clock' = clock
  BY <1>4 DEF Send
<1>5. ASSUME NEW l \in loads, ListMessages(l) \/ HistoryAnswer(l) \/ HistoryFails(l)
      PROVE  clock' = clock
  BY <1>5 DEF ListMessages, HistoryAnswer, HistoryFails
<1>6. ASSUME HandleWSMessage \/ Register \/ Open \/ Break \/ DoReconnectWS
      PROVE  clock' = clock
  BY <1>6 DEF HandleWSMessage, Register, Open, Break, DoReconnectWS
<1>7. ASSUME User PROVE clock' = clock
  BY <1>7 DEF User, ShowChat, BackFromChat, LoadHome, OnAppHidden, OnAppVisible,
              UnlockAfterResume
<1>8. ASSUME UNCHANGED vars PROVE clock' = clock
  BY <1>8 DEF vars
<1>9. QED
  BY <1>1, <1>2, <1>3, <1>4, <1>5, <1>6, <1>7, <1>8 DEF Next, Server, Answer

\* Which requests are under way after a step, by what the step does.
LEMMA LoadsAfter ==
  ASSUME TypeOK, ScreenInv, [Next]_vars
  PROVE  \/ loads' \subseteq loads
         \/ \E l \in loads : ListMessages(l)
         \/ \E d \in Dialogs, flush \in BOOLEAN : LoadChatHistory(d, flush)
<1> USE DEF serverVars, linkVars, clientVars, NoLoad
<1>1. ASSUME NEW m \in Messages, Server(m) \/ HideExpiredBubble(m)
      PROVE  loads' = loads
  BY <1>1 DEF Server, PeerPosts, StartTTL, MarkFails, TimeOut,
              RemoveMessage, HideExpiredBubble
<1>2. ASSUME NEW e \in owed, Send(e) PROVE loads' = loads
  BY <1>2 DEF Send
<1>3. ASSUME NEW l \in loads, HistoryAnswer(l) \/ HistoryFails(l)
      PROVE  loads' \subseteq loads
  BY <1>3 DEF HistoryAnswer, HistoryFails
<1>4. ASSUME HandleWSMessage \/ Register \/ Break \/ DoReconnectWS
      PROVE  loads' = loads
  BY <1>4 DEF HandleWSMessage, Register, Break, DoReconnectWS
<1>5. current # NoDialog => current \in Dialogs
  BY DEF TypeOK
<1>6. CASE Open
  BY <1>5, <1>6 DEF Open, Reloads
<1>7. ASSUME NEW d \in Dialogs, ShowChat(d) PROVE LoadChatHistory(d, FALSE)
  BY <1>7 DEF ShowChat
<1>8. ASSUME BackFromChat \/ LoadHome \/ OnAppHidden PROVE loads' = loads
  BY <1>8 DEF BackFromChat, LoadHome, OnAppHidden
<1>9. ASSUME NEW long \in BOOLEAN, OnAppVisible(long)
      PROVE  loads' = loads \/ \E d \in Dialogs : LoadChatHistory(d, TRUE)
  BY <1>5, <1>9 DEF OnAppVisible
<1>10. CASE UnlockAfterResume
  <2>1. before.screen = "chat" => before.dialog \in Dialogs
    BY <1>10 DEF UnlockAfterResume, ScreenInv
  <2>2. QED
    BY <2>1, <1>10 DEF UnlockAfterResume
<1>11. ASSUME UNCHANGED vars PROVE loads' = loads
  BY <1>11 DEF vars
<1>12. QED
  BY <1>1, <1>2, <1>3, <1>4, <1>6, <1>7, <1>8, <1>9, <1>10, <1>11
     DEF Next, Answer, User

\* Every answer under way keeps to the rows of its own dialog.
LEMMA LoadsStep == TypeOK /\ ScreenInv /\ LoadsInv /\ [Next]_vars => LoadsInv'
<1> SUFFICES ASSUME TypeOK, ScreenInv, LoadsInv, [Next]_vars PROVE LoadsInv'
  OBVIOUS
<1>1. \A m \in Messages : clock[m] # "none" => clock'[m] # "none"
  BY ClockStays
<1>2. loads \subseteq Load /\ \A l \in loads : l.dated \subseteq Messages
  BY DEF TypeOK, Load
<1>3. CASE loads' \subseteq loads
  BY <1>1, <1>2, <1>3 DEF LoadsInv
<1>4. ASSUME NEW l \in loads, ListMessages(l) PROVE LoadsInv'
  <2>1. /\ Read(l).dialog = l.dialog /\ Read(l).rows = NewRows(l)
        /\ Read(l).dated \subseteq Messages
        /\ \A m \in Read(l).dated : clock[m] # "none"
    BY <1>2, ReadIs DEF Load
  <2>2. \A m \in Read(l).rows : DialogOf[m] = Read(l).dialog
    BY <2>1 DEF NewRows
  <2>3. \A k \in loads' : k \in loads \/ k = Read(l)
    BY <1>4, ListMessagesReads
  <2>4. QED
    BY <1>1, <1>2, <2>1, <2>2, <2>3 DEF LoadsInv
<1>5. ASSUME NEW d \in Dialogs, NEW flush \in BOOLEAN, LoadChatHistory(d, flush)
      PROVE  LoadsInv'
  <2>1. \A k \in loads' : Inherits(k)
    BY <1>2, <1>5, LoadDoes
  <2>2. QED
    BY <1>1, <1>2, <2>1 DEF LoadsInv, Inherits
<1>6. QED
  BY <1>3, <1>4, <1>5, LoadsAfter

\* A bubble that was there before, hidden since or not.
Kept(i) ==
  /\ i \in DOMAIN list
  /\ list'[i].msg = list[i].msg
  /\ list'[i].from = list[i].from

\* An event draws at most a live bubble of the open dialog, which is marked or
\* waits for it; marks are not lost, nor made behind the lock.
LEMMA HandleDoes ==
  ASSUME TypeOK, HandleWSMessage
  PROVE  /\ \A i \in DOMAIN list' :
              \/ Kept(i)
              \/ /\ list'[i].from = "live"
                 /\ list'[i].msg \in Messages
                 /\ clock[list'[i].msg] = "none" =>
                      list'[i].msg \in asked' \cup pending' \cup unmarked'
         /\ \A m \in asked \cup pending \cup unmarked :
              clock[m] = "none" => m \in asked' \cup pending' \cup unmarked'
         /\ locked => asked' \subseteq asked
         /\ pending' \subseteq pending \/ (current # NoDialog /\ (hidden \/ locked))
<1> DEFINE m == Head(wire)[2]
<1>1. Head(wire) \in Event /\ m \in Messages
  <2>1. Head(wire) \in Event
    BY HeadTailProperties DEF TypeOK, HandleWSMessage
  <2>2. QED
    BY <2>1 DEF Event
<1>2. /\ list \in Seq(Bubble) /\ Len(list) \in Nat /\ DOMAIN list = 1..Len(list)
      /\ pending \subseteq Messages /\ asked \subseteq Messages
      /\ unmarked \subseteq Messages
  BY LenProperties DEF TypeOK
<1>3. OnMessageNew(m) \/ OnTTLStarted(m) \/ OnMessageDeleted(m)
  BY <1>1 DEF HandleWSMessage, Event
<1> HIDE DEF m
<1>4. ASSUME UNCHANGED <<list, markVars>>
      PROVE  (\A i \in DOMAIN list' : Kept(i)) /\ markVars' = markVars
  BY <1>4 DEF Kept, markVars
<1>5. CASE OnMessageNew(m)
  <2>1. CASE current # DialogOf[m]
    BY <2>1, <1>4, <1>5 DEF OnMessageNew, listVars, markVars
  <2>2. CASE current = DialogOf[m]
    <3> DEFINE b == [msg |-> m, from |-> "live", shown |-> TRUE]
    <3>1. b \in Bubble /\ b.from = "live" /\ b.msg = m
      BY <1>1 DEF Bubble
    <3>2. list' = Append(list, b) /\ MarkRead({m}, FALSE)
      BY <2>2, <1>5 DEF OnMessageNew, AppendBubble
    <3> HIDE DEF b
    <3>3. /\ list' \in Seq(Bubble) /\ Len(list') = Len(list) + 1
          /\ \A i \in 1..Len(list) : list'[i] = list[i]
          /\ list'[Len(list) + 1] = b
      BY <3>1, <3>2, <1>2, AppendProperties
    <3>4. DOMAIN list' = 1..(Len(list) + 1)
      BY <3>3, LenProperties
    <3>5. /\ \A n \in asked \cup pending \cup unmarked \cup {m} :
               clock[n] = "none" => n \in asked' \cup pending' \cup unmarked'
          /\ locked => asked' \subseteq asked
          /\ pending' \subseteq pending \/ hidden \/ locked
      BY <3>2, <1>1, <1>2, MarkReadDoes
    <3>6. current # NoDialog
      BY <2>2, <1>1, ScreenAssumption
    <3>7. ASSUME NEW i \in DOMAIN list'
          PROVE  \/ Kept(i)
                 \/ /\ list'[i].from = "live"
                    /\ list'[i].msg \in Messages
                    /\ clock[list'[i].msg] = "none" =>
                         list'[i].msg \in asked' \cup pending' \cup unmarked'
      <4>1. CASE i \in 1..Len(list)
        BY <4>1, <3>3, <1>2 DEF Kept
      <4>2. CASE i = Len(list) + 1
        BY <4>2, <3>1, <3>3, <3>5, <1>1
      <4>3. QED
        BY <4>1, <4>2, <3>4, <1>2
    <3>8. QED
      BY <3>5, <3>6, <3>7
  <2>3. QED
    BY <2>1, <2>2
<1>6. ASSUME NEW i \in DOMAIN list, list' = Hide(i)
      PROVE  \A j \in DOMAIN list' : Kept(j)
  BY <1>6, <1>2, HideDoes DEF Kept
<1>7. ASSUME list' = list PROVE \A j \in DOMAIN list' : Kept(j)
  BY <1>7 DEF Kept
<1>8. FirstBubble(m) # 0 => FirstBubble(m) \in DOMAIN list
  BY <1>1, <1>2, FirstBubbleIn
<1>9. CASE OnTTLStarted(m) \/ OnMessageDeleted(m)
  <2>1. asked' = asked /\ pending' = pending /\ unmarked' = unmarked
    BY <1>9 DEF OnTTLStarted, OnMessageDeleted, markVars
  <2>2. list' = list \/ (FirstBubble(m) \in DOMAIN list /\ list' = Hide(FirstBubble(m)))
    BY <1>8, <1>9 DEF OnTTLStarted, OnMessageDeleted
  <2>3. QED
    BY <2>1, <2>2, <1>6, <1>7
<1>10. QED
  BY <1>3, <1>5, <1>9

\* An answer draws what it brings of the open dialog, marks it or keeps it in mind.
LEMMA AnswerDoes ==
  ASSUME TypeOK, NEW l \in loads, HistoryAnswer(l)
  PROVE  /\ \A i \in DOMAIN list' :
              \/ Kept(i)
              \/ /\ list'[i].from = "history"
                 /\ list'[i].msg \in Fresh(l)
         /\ Fresh(l) \subseteq l.rows
         /\ Fresh(l) # {} => current = l.dialog /\ current # NoDialog
         /\ \A m \in asked \cup pending \cup unmarked \cup (Fresh(l) \ l.dated) :
              clock[m] = "none" => m \in asked' \cup pending' \cup unmarked'
         /\ locked => asked' \subseteq asked
         /\ l.flush /\ ~locked => pending' = {}
         /\ pending' \subseteq pending \/ (Fresh(l) # {} /\ (hidden \/ locked))
<1> DEFINE rows == Fresh(l)
<1>1. l \in Load /\ l.rows \subseteq Messages /\ l.flush \in BOOLEAN /\ l.dialog \in Dialogs
  BY DEF TypeOK, Load
<1>2. rows \in SUBSET Messages /\ rows \subseteq l.rows
      /\ (rows # {} => current = l.dialog /\ current # NoDialog)
  BY <1>1, ScreenAssumption DEF Fresh, Stale
<1>3. /\ list \in Seq(Bubble) /\ Len(list) \in Nat /\ DOMAIN list = 1..Len(list)
      /\ pending \subseteq Messages /\ asked \subseteq Messages
      /\ unmarked \subseteq Messages
      /\ locked \in BOOLEAN
  BY LenProperties DEF TypeOK
<1>4. /\ list' = list \o Bubbles(rows)
      /\ MarkRead(rows \ l.dated, MayFlush(l))
  BY DEF HistoryAnswer, Unread
<1> HIDE DEF rows
<1>5. /\ Bubbles(rows) \in Seq(Bubble) /\ Cardinality(rows) \in Nat
      /\ Len(Bubbles(rows)) = Cardinality(rows)
      /\ \A i \in 1..Cardinality(rows) : /\ Bubbles(rows)[i].msg \in rows
                                         /\ Bubbles(rows)[i].from = "history"
  BY <1>2, BubblesAre
<1>6. /\ list' \in Seq(Bubble) /\ Len(list') = Len(list) + Cardinality(rows)
      /\ \A i \in 1..(Len(list) + Cardinality(rows)) :
           list'[i] = IF i <= Len(list) THEN list[i] ELSE Bubbles(rows)[i - Len(list)]
  <2>1. PICK more \in Seq(Bubble) : more = Bubbles(rows)
    BY <1>5
  <2>2. /\ list \o more \in Seq(Bubble)
        /\ Len(list \o more) = Len(list) + Len(more)
        /\ \A i \in 1..(Len(list) + Len(more)) :
             (list \o more)[i] = IF i <= Len(list) THEN list[i] ELSE more[i - Len(list)]
    BY ONLY <1>3, ConcatProperties
  <2>3. QED
    BY <1>4, <1>5, <2>1, <2>2
<1>7. ASSUME NEW i \in DOMAIN list'
      PROVE  Kept(i) \/ (list'[i].from = "history" /\ list'[i].msg \in rows)
  <2>1. i \in 1..(Len(list) + Cardinality(rows))
    BY <1>6, LenProperties
  <2>2. CASE i <= Len(list)
    BY <2>1, <2>2, <1>3, <1>5, <1>6 DEF Kept
  <2>3. CASE i > Len(list)
    <3>1. i - Len(list) \in 1..Cardinality(rows) /\ list'[i] = Bubbles(rows)[i - Len(list)]
      BY <2>1, <2>3, <1>3, <1>5, <1>6
    <3>2. QED
      BY <3>1, <1>5
  <2>4. QED
    BY <2>1, <2>2, <2>3, <1>3, <1>5
<1>8. /\ MayFlush(l) \in BOOLEAN
      /\ (l.flush /\ ~locked => MayFlush(l)) /\ (locked => ~MayFlush(l))
  BY <1>1, <1>3, Zenon DEF MayFlush
<1>9. /\ \A m \in asked \cup pending \cup unmarked \cup (rows \ l.dated) :
           clock[m] = "none" => m \in asked' \cup pending' \cup unmarked'
      /\ MayFlush(l) => pending' = {}
      /\ ~MayFlush(l) /\ locked => asked' \subseteq asked
  BY <1>2, <1>3, <1>4, <1>8, MarkReadDoes
<1>10. pending' \subseteq pending \/ (rows # {} /\ (hidden \/ locked))
  BY <1>4 DEF MarkRead
<1>11. QED
  BY <1>2, <1>7, <1>8, <1>9, <1>10 DEF rows
-----------------------------------------------------------------------------
(* The theorems.                                                           *)

\* Every step keeps the rows on the screen those of the open dialog.
LEMMA HistoryStep ==
  TypeOK /\ ScreenInv /\ LoadsInv /\ HistoryOfOpenChat /\ [Next]_vars
    => HistoryOfOpenChat'
<1> SUFFICES ASSUME TypeOK, ScreenInv, LoadsInv, HistoryOfOpenChat, [Next]_vars
             PROVE  HistoryOfOpenChat'
  OBVIOUS
<1> USE DEF serverVars, linkVars, lockVars, listVars, markVars, clientVars, NoLoad
<1>1. ASSUME UNCHANGED <<screen, current>>, \A i \in DOMAIN list' : Kept(i)
      PROVE  HistoryOfOpenChat'
  BY <1>1 DEF HistoryOfOpenChat, Kept
<1>2. ASSUME UNCHANGED <<screen, current, list>> PROVE HistoryOfOpenChat'
  BY <1>2 DEF HistoryOfOpenChat
<1>3. ASSUME NEW d \in Dialogs, NEW flush \in BOOLEAN, LoadChatHistory(d, flush)
      PROVE  HistoryOfOpenChat'
  <2>1. list' = << >>
    BY <1>3 DEF LoadChatHistory
  <2>2. DOMAIN list' = {}
    BY <2>1
  <2>3. QED
    BY <2>2 DEF HistoryOfOpenChat
<1>4. ASSUME NEW m \in Messages, Server(m) PROVE HistoryOfOpenChat'
  BY <1>2, <1>4 DEF Server, PeerPosts, StartTTL, MarkFails, TimeOut, RemoveMessage
<1>5. ASSUME NEW m \in Messages, HideExpiredBubble(m) PROVE HistoryOfOpenChat'
  <2>1. timers[m] \in DOMAIN list /\ list \in Seq(Bubble)
    BY <1>5, LenProperties DEF TypeOK, HideExpiredBubble
  <2>2. \A i \in DOMAIN list' : Kept(i)
    BY <2>1, <1>5, HideDoes DEF HideExpiredBubble, Kept
  <2>3. QED
    BY <2>2, <1>1, <1>5 DEF HideExpiredBubble
<1>6. ASSUME NEW e \in owed, Send(e) PROVE HistoryOfOpenChat'
  BY <1>2, <1>6 DEF Send
<1>7. ASSUME NEW l \in loads, ListMessages(l) \/ HistoryFails(l)
      PROVE  HistoryOfOpenChat'
  BY <1>2, <1>7 DEF ListMessages, HistoryFails
<1>8. ASSUME NEW l \in loads, HistoryAnswer(l) PROVE HistoryOfOpenChat'
  <2> SUFFICES ASSUME screen' = "chat", NEW i \in DOMAIN list',
                      list'[i].from = "history"
               PROVE  DialogOf[list'[i].msg] = current'
    BY DEF HistoryOfOpenChat
  <2>1. screen' = screen /\ current' = current
    BY <1>8 DEF HistoryAnswer
  <2>2. CASE Kept(i)
    BY <2>1, <2>2 DEF HistoryOfOpenChat, Kept
  <2>3. CASE list'[i].msg \in Fresh(l)
    <3>1. list'[i].msg \in l.rows /\ current = l.dialog
      BY <2>3, <1>8, AnswerDoes
    <3>2. QED
      BY <2>1, <3>1 DEF LoadsInv
  <2>4. QED
    BY <2>2, <2>3, <1>8, AnswerDoes
<1>9. CASE HandleWSMessage
  <2> SUFFICES ASSUME screen' = "chat", NEW i \in DOMAIN list',
                      list'[i].from = "history"
               PROVE  DialogOf[list'[i].msg] = current'
    BY DEF HistoryOfOpenChat
  <2>1. screen' = screen /\ current' = current
    BY <1>9 DEF HandleWSMessage
  <2>2. Kept(i)
    BY <1>9, HandleDoes
  <2>3. QED
    BY <2>1, <2>2 DEF HistoryOfOpenChat, Kept
<1>10. CASE Register \/ Break \/ DoReconnectWS \/ LoadHome \/ OnAppHidden
  BY <1>2, <1>10 DEF Register, Break, DoReconnectWS, LoadHome, OnAppHidden
<1>11. current # NoDialog => current \in Dialogs
  BY DEF TypeOK
<1>12. CASE Open
  BY <1>2, <1>3, <1>11, <1>12 DEF Open, Reloads
<1>13. ASSUME NEW d \in Dialogs, ShowChat(d) PROVE HistoryOfOpenChat'
  BY <1>3, <1>13 DEF ShowChat
<1>14. CASE BackFromChat
  BY <1>14 DEF BackFromChat, HistoryOfOpenChat
<1>15. ASSUME NEW long \in BOOLEAN, OnAppVisible(long) PROVE HistoryOfOpenChat'
  <2>1. CASE screen' = "unlock"
    BY <2>1 DEF HistoryOfOpenChat
  <2>2. CASE screen' # "unlock"
    BY <2>2, <1>2, <1>3, <1>11, <1>15 DEF OnAppVisible
  <2>3. QED
    BY <2>1, <2>2
<1>16. CASE UnlockAfterResume
  <2>1. CASE before.screen = "chat"
    <3>1. before.dialog \in Dialogs /\ LoadChatHistory(before.dialog, TRUE)
      BY <2>1, <1>16 DEF UnlockAfterResume, ScreenInv
    <3>2. QED
      BY <3>1, <1>3
  <2>2. CASE before.screen # "chat"
    BY <2>2, <1>16 DEF UnlockAfterResume, HistoryOfOpenChat
  <2>3. QED
    BY <2>1, <2>2
<1>17. CASE UNCHANGED vars
  BY <1>2, <1>17 DEF vars
<1>18. QED
  BY <1>4, <1>5, <1>6, <1>7, <1>8, <1>9, <1>10, <1>12, <1>13, <1>14, <1>15,
     <1>16, <1>17 DEF Next, Answer, User

\* The history on the screen is that of the open dialog, though answers come
\* late and out of order.
THEOREM HistoryIsOfOpenChat == Spec => []HistoryOfOpenChat
<1> DEFINE Inv == TypeOK /\ ScreenInv /\ LoadsInv /\ HistoryOfOpenChat
<1>1. Init => Inv
  <2> SUFFICES ASSUME Init PROVE LoadsInv /\ HistoryOfOpenChat
    BY TypeInit
  <2>1. loads = {} /\ screen = "home"
    BY DEF Init
  <2>2. QED
    BY <2>1 DEF LoadsInv, HistoryOfOpenChat
<1>2. Inv /\ [Next]_vars => Inv'
  BY TypeStep, ScreenStep, LoadsStep, HistoryStep
<1>3. QED
  BY <1>1, <1>2, PTL DEF Spec

\* No message is marked read behind the lock.
THEOREM NothingMarkedBehindLock == Spec => LockedMarksNothing
<1>1. TypeOK /\ ScreenInv /\ [Next]_vars =>
        [locked /\ locked' => asked' \subseteq asked]_vars
  <2> SUFFICES ASSUME TypeOK, Next, locked, locked'
               PROVE  asked' \subseteq asked
    OBVIOUS
  <2> USE DEF serverVars, linkVars, lockVars, listVars, markVars, clientVars
  <2>1. ASSUME NEW m \in Messages, Server(m) \/ HideExpiredBubble(m)
        PROVE  asked' \subseteq asked
    BY <2>1 DEF Server, PeerPosts, StartTTL, MarkFails, TimeOut,
                RemoveMessage, HideExpiredBubble
  <2>2. ASSUME NEW e \in owed, Send(e) PROVE asked' \subseteq asked
    BY <2>2 DEF Send
  <2>3. ASSUME NEW l \in loads, ListMessages(l) PROVE asked' \subseteq asked
    BY <2>3 DEF ListMessages
  <2>4. ASSUME NEW l \in loads, HistoryAnswer(l) PROVE asked' \subseteq asked
    BY <2>4, AnswerDoes
  <2>5. ASSUME NEW l \in loads, HistoryFails(l) PROVE asked' \subseteq asked
    BY <2>5 DEF HistoryFails, MarkRead, MayFlush
  <2>6. CASE HandleWSMessage
    BY <2>6, HandleDoes
  <2>7. CASE Register \/ Open \/ Break \/ DoReconnectWS \/ User
    BY <2>7 DEF Register, Open, Break, DoReconnectWS, User, ShowChat, BackFromChat,
                LoadHome, OnAppHidden, OnAppVisible, UnlockAfterResume
  <2>8. QED
    BY <2>1, <2>2, <2>3, <2>4, <2>5, <2>6, <2>7 DEF Next, Answer
<1>2. TypeOK /\ ScreenInv /\ [Next]_vars => (TypeOK /\ ScreenInv)'
  BY TypeStep, ScreenStep
<1>3. QED
  BY <1>1, <1>2, TypeInit, PTL DEF Spec, LockedMarksNothing

(* Whatever the open list shows unread is asked for or kept in mind, and what *)
(* is kept in mind will be flushed: by the return to the app or a request.    *)

PendingOfChat == current = NoDialog => pending = {}

PendingFlushed == pending # {} => hidden \/ locked \/ \E l \in loads : l.flush

ShownMarked ==
  current # NoDialog =>
    \A i \in DOMAIN list :
      clock[list[i].msg] = "none" => list[i].msg \in asked \cup pending \cup unmarked

MarkInv == PendingOfChat /\ PendingFlushed /\ ShownMarked

\* With no dialog open nothing waits to be marked.
LEMMA PendingOfChatStep ==
  TypeOK /\ ScreenInv /\ MarkInv /\ [Next]_vars => PendingOfChat'
<1> SUFFICES ASSUME TypeOK, ScreenInv, MarkInv, [Next]_vars PROVE PendingOfChat'
  OBVIOUS
<1> USE DEF serverVars, linkVars, lockVars, listVars, markVars, clientVars
<1>1. ASSUME UNCHANGED <<current, pending>> PROVE PendingOfChat'
  BY <1>1 DEF MarkInv, PendingOfChat
<1>2. ASSUME current' = current, pending' \subseteq pending \/ current # NoDialog
      PROVE  PendingOfChat'
  BY <1>2 DEF MarkInv, PendingOfChat
<1>3. ASSUME current' \in Dialogs PROVE PendingOfChat'
  BY <1>3, ScreenAssumption DEF PendingOfChat
<1>4. ASSUME NEW m \in Messages, Server(m) \/ HideExpiredBubble(m)
      PROVE  PendingOfChat'
  BY <1>1, <1>4 DEF Server, PeerPosts, StartTTL, MarkFails, TimeOut, RemoveMessage,
                    HideExpiredBubble
<1>5. ASSUME NEW e \in owed, Send(e) PROVE PendingOfChat'
  BY <1>1, <1>5 DEF Send
<1>6. ASSUME NEW l \in loads, ListMessages(l) PROVE PendingOfChat'
  BY <1>1, <1>6 DEF ListMessages
<1>7. ASSUME NEW l \in loads, HistoryAnswer(l) PROVE PendingOfChat'
  <2>1. pending' \subseteq pending \/ current # NoDialog
    BY <1>7, AnswerDoes
  <2>2. QED
    BY <2>1, <1>2, <1>7 DEF HistoryAnswer
<1>8. ASSUME NEW l \in loads, HistoryFails(l) PROVE PendingOfChat'
  <2>1. pending' \subseteq pending
    BY <1>8 DEF HistoryFails, MarkRead
  <2>2. QED
    BY <2>1, <1>2, <1>8 DEF HistoryFails
<1>9. CASE HandleWSMessage
  <2>1. pending' \subseteq pending \/ current # NoDialog
    BY <1>9, HandleDoes
  <2>2. QED
    BY <2>1, <1>2, <1>9 DEF HandleWSMessage
<1>10. CASE Register \/ Open \/ Break \/ DoReconnectWS \/ LoadHome \/ OnAppHidden
  BY <1>1, <1>10 DEF Register, Open, Break, DoReconnectWS, LoadHome, OnAppHidden
<1>11. ASSUME NEW d \in Dialogs, ShowChat(d) PROVE PendingOfChat'
  BY <1>3, <1>11 DEF ShowChat
<1>12. CASE BackFromChat
  BY <1>12 DEF BackFromChat, PendingOfChat
<1>13. ASSUME NEW long \in BOOLEAN, OnAppVisible(long) PROVE PendingOfChat'
  BY <1>1, <1>13 DEF OnAppVisible
<1>14. CASE UnlockAfterResume
  BY <1>1, <1>3, <1>14 DEF UnlockAfterResume, ScreenInv
<1>15. CASE UNCHANGED vars
  BY <1>1, <1>15 DEF vars
<1>16. QED
  BY <1>4, <1>5, <1>6, <1>7, <1>8, <1>9, <1>10, <1>11, <1>12, <1>13, <1>14, <1>15
     DEF Next, Answer, User

\* What waits will be marked: by the return to the app, the unlock or a request.
LEMMA PendingFlushedStep ==
  TypeOK /\ ScreenInv /\ MarkInv /\ [Next]_vars => PendingFlushed'
<1> SUFFICES ASSUME TypeOK, ScreenInv, MarkInv, [Next]_vars PROVE PendingFlushed'
  OBVIOUS
<1> USE DEF serverVars, linkVars, lockVars, listVars, markVars, clientVars
<1> DEFINE Flushing(set) == \E l \in set : l.flush
<1>0. /\ loads \subseteq Load
      /\ current # NoDialog => current \in Dialogs
      /\ PendingFlushed /\ PendingOfChat
      /\ hidden \in BOOLEAN /\ locked \in BOOLEAN
  BY DEF TypeOK, MarkInv
<1>1. ASSUME pending' \subseteq pending, hidden' = hidden, locked' = locked,
             Flushing(loads) => Flushing(loads')
      PROVE  PendingFlushed'
  BY <1>0, <1>1 DEF PendingFlushed
<1>2. ASSUME pending' = {} PROVE PendingFlushed'
  BY <1>2 DEF PendingFlushed
<1>3. ASSUME hidden' \/ locked' PROVE PendingFlushed'
  BY <1>3 DEF PendingFlushed
<1>4. ASSUME UNCHANGED <<pending, hidden, locked, loads>> PROVE PendingFlushed'
  BY <1>1, <1>4
<1>5. ASSUME NEW d \in Dialogs, NEW flush \in BOOLEAN, LoadChatHistory(d, flush)
      PROVE  (Flushing(loads) \/ flush) => Flushing(loads')
  BY <1>0, <1>5, LoadDoes
<1>6. ASSUME NEW m \in Messages, Server(m) \/ HideExpiredBubble(m)
      PROVE  PendingFlushed'
  BY <1>4, <1>6 DEF Server, PeerPosts, StartTTL, MarkFails, TimeOut, RemoveMessage,
                    HideExpiredBubble
<1>7. ASSUME NEW e \in owed, Send(e) PROVE PendingFlushed'
  BY <1>4, <1>7 DEF Send
<1>8. ASSUME NEW l \in loads, ListMessages(l) PROVE PendingFlushed'
  <2>1. loads' = (loads \ {l}) \cup {Read(l)} /\ Read(l).flush = l.flush
    BY <1>0, <1>8, ListMessagesReads, ReadIs
  <2>2. Flushing(loads) => Flushing(loads')
    BY <2>1
  <2>3. QED
    BY <2>2, <1>1, <1>8 DEF ListMessages
<1>9. ASSUME NEW l \in loads, loads' = loads \ {l}, hidden' = hidden, locked' = locked,
             l.flush /\ ~locked => pending' = {},
             pending' \subseteq pending \/ hidden \/ locked
      PROVE  PendingFlushed'
  <2>1. CASE hidden \/ locked
    BY <2>1, <1>3, <1>9
  <2>2. CASE ~hidden /\ ~locked /\ l.flush
    BY <2>2, <1>2, <1>9
  <2>3. CASE ~hidden /\ ~locked /\ ~l.flush
    <3>1. Flushing(loads) => Flushing(loads')
      BY <2>3, <1>9
    <3>2. QED
      BY <3>1, <2>3, <1>1, <1>9
  <2>4. QED
    BY <2>1, <2>2, <2>3
<1>10. ASSUME NEW l \in loads, HistoryAnswer(l) PROVE PendingFlushed'
  <2>1. /\ l.flush /\ ~locked => pending' = {}
        /\ pending' \subseteq pending \/ hidden \/ locked
    BY <1>10, AnswerDoes
  <2>2. loads' = loads \ {l} /\ hidden' = hidden /\ locked' = locked
    BY <1>10 DEF HistoryAnswer
  <2>3. QED
    BY <2>1, <2>2, <1>9
<1>11. ASSUME NEW l \in loads, HistoryFails(l) PROVE PendingFlushed'
  <2>1. l.flush /\ ~locked => pending' = {}
    BY <1>11 DEF HistoryFails, MarkRead, MayFlush
  <2>2. pending' \subseteq pending
    BY <1>11 DEF HistoryFails, MarkRead
  <2>3. loads' = loads \ {l} /\ hidden' = hidden /\ locked' = locked
    BY <1>11 DEF HistoryFails
  <2>4. QED
    BY <2>1, <2>2, <2>3, <1>9
<1>12. CASE HandleWSMessage
  <2>1. pending' \subseteq pending \/ hidden \/ locked
    BY <1>12, HandleDoes
  <2>2. hidden' = hidden /\ locked' = locked /\ loads' = loads
    BY <1>12 DEF HandleWSMessage
  <2>3. QED
    BY <2>1, <2>2, <1>1, <1>3
<1>13. CASE Register \/ Break \/ DoReconnectWS \/ LoadHome
  BY <1>4, <1>13 DEF Register, Break, DoReconnectWS, LoadHome
<1>14. CASE Open
  <2>1. Flushing(loads) => Flushing(loads')
    BY <1>0, <1>5, <1>14 DEF Open, Reloads, NoLoad
  <2>2. QED
    BY <2>1, <1>1, <1>14 DEF Open
<1>15. ASSUME NEW d \in Dialogs, ShowChat(d) PROVE PendingFlushed'
  <2>1. pending = {}
    BY <1>0, <1>15 DEF ShowChat, ScreenInv, PendingOfChat
  <2>2. QED
    BY <2>1, <1>2, <1>15 DEF ShowChat
<1>16. CASE BackFromChat
  BY <1>2, <1>16 DEF BackFromChat
<1>17. CASE OnAppHidden
  BY <1>3, <1>17 DEF OnAppHidden
<1>18. ASSUME NEW long \in BOOLEAN, OnAppVisible(long) PROVE PendingFlushed'
  <2>1. pending' = pending
    BY <1>18 DEF OnAppVisible
  <2>2. CASE locked'
    BY <2>2, <1>3
  <2>3. CASE ~locked' /\ current # NoDialog
    <3>1. ~ (long /\ screen \in AppScreens)
      BY <2>3, <1>18 DEF OnAppVisible
    <3>2. ~locked
      BY <3>1, <2>3, <1>18 DEF OnAppVisible
    <3>3. LoadChatHistory(current, TRUE)
      BY <3>1, <3>2, <2>3, <1>18, Zenon DEF OnAppVisible
    <3>4. QED
      BY <3>3, <2>3, <1>0, <1>5 DEF PendingFlushed
  <2>4. CASE current = NoDialog
    BY <2>1, <2>4, <1>0, <1>2 DEF PendingOfChat
  <2>5. QED
    BY <2>2, <2>3, <2>4
<1>19. CASE UnlockAfterResume
  <2>1. pending' = pending
    BY <1>19 DEF UnlockAfterResume
  <2>2. CASE before.screen = "chat"
    <3>1. before.dialog \in Dialogs /\ LoadChatHistory(before.dialog, TRUE)
      BY <2>2, <1>19 DEF UnlockAfterResume, ScreenInv
    <3>2. QED
      BY <3>1, <1>5 DEF PendingFlushed
  <2>3. CASE before.screen # "chat"
    <3>1. current = NoDialog
      BY <2>3, <1>19 DEF UnlockAfterResume, ScreenInv
    <3>2. QED
      BY <3>1, <2>1, <1>0, <1>2 DEF PendingOfChat
  <2>4. QED
    BY <2>2, <2>3
<1>20. CASE UNCHANGED vars
  BY <1>4, <1>20 DEF vars
<1>21. QED
  BY <1>6, <1>7, <1>8, <1>10, <1>11, <1>12, <1>13, <1>14, <1>15, <1>16, <1>17,
     <1>18, <1>19, <1>20 DEF Next, Answer, User

\* What is shown of the peer unread is asked for or waits.
LEMMA ShownMarkedStep ==
  TypeOK /\ ScreenInv /\ LoadsInv /\ MarkInv /\ [Next]_vars => ShownMarked'
<1> SUFFICES ASSUME TypeOK, ScreenInv, LoadsInv, MarkInv, [Next]_vars
             PROVE  ShownMarked'
  OBVIOUS
<1> USE DEF serverVars, linkVars, lockVars, listVars, markVars, clientVars
<1>0. /\ ShownMarked
      /\ list \in Seq(Bubble)
      /\ \A i \in DOMAIN list : list[i].msg \in Messages
      /\ \A m \in Messages : clock[m] # "none" => clock'[m] # "none"
  <2>1. list \in Seq(Bubble)
    BY DEF TypeOK
  <2>2. \A i \in DOMAIN list : list[i] \in Bubble
    BY <2>1, LenProperties, ElementOfSeq
  <2>3. QED
    BY <2>1, <2>2, ClockStays DEF MarkInv, Bubble
<1>1. ASSUME UNCHANGED <<current, list>>,
             \A m \in asked \cup pending \cup unmarked :
               clock'[m] = "none" => m \in asked' \cup pending' \cup unmarked'
      PROVE  ShownMarked'
  BY <1>0, <1>1 DEF ShownMarked
<1>2. ASSUME UNCHANGED <<current, list, asked, pending, unmarked>> PROVE ShownMarked'
  BY <1>1, <1>2
<1>3. ASSUME NEW d \in Dialogs, NEW flush \in BOOLEAN, LoadChatHistory(d, flush)
      PROVE  ShownMarked'
  <2>1. list' = << >>
    BY <1>3 DEF LoadChatHistory
  <2>2. DOMAIN list' = {}
    BY <2>1
  <2>3. QED
    BY <2>2 DEF ShownMarked
<1>4. ASSUME NEW m \in Messages,
             PeerPosts(m) \/ MarkFails(m) \/ TimeOut(m) \/ RemoveMessage(m)
      PROVE  ShownMarked'
  BY <1>1, <1>2, <1>4 DEF PeerPosts, MarkFails, TimeOut, RemoveMessage
<1>5. ASSUME NEW m \in Messages, StartTTL(m) PROVE ShownMarked'
  <2>1. /\ UNCHANGED <<current, list, pending, unmarked>>
        /\ asked' = asked \ {m}
        /\ clock'[m] = "running"
    BY <1>5 DEF StartTTL, TypeOK
  <2>2. QED
    BY <2>1, <1>1
<1>6. ASSUME NEW m \in Messages, HideExpiredBubble(m) PROVE ShownMarked'
  <2>1. timers[m] \in DOMAIN list
    BY <1>0, <1>6, LenProperties DEF TypeOK, HideExpiredBubble
  <2>2. \A i \in DOMAIN list' : Kept(i)
    BY <2>1, <1>0, <1>6, HideDoes DEF HideExpiredBubble, Kept
  <2>3. UNCHANGED <<current, asked, pending, unmarked, clock>>
    BY <1>6 DEF HideExpiredBubble
  <2>4. QED
    BY <2>2, <2>3, <1>0 DEF ShownMarked, Kept
<1>7. ASSUME NEW e \in owed, Send(e) PROVE ShownMarked'
  BY <1>2, <1>7 DEF Send
<1>8. ASSUME NEW l \in loads, ListMessages(l) PROVE ShownMarked'
  BY <1>2, <1>8 DEF ListMessages
<1>9. ASSUME NEW l \in loads, HistoryAnswer(l) PROVE ShownMarked'
  <2>1. current' = current /\ clock' = clock
    BY <1>9 DEF HistoryAnswer
  <2>2. /\ \A m \in asked \cup pending \cup unmarked \cup (Fresh(l) \ l.dated) :
             clock[m] = "none" => m \in asked' \cup pending' \cup unmarked'
        /\ \A m \in l.dated : clock[m] # "none"
    BY <1>9, AnswerDoes DEF LoadsInv
  <2> SUFFICES ASSUME current # NoDialog, NEW i \in DOMAIN list',
                      clock[list'[i].msg] = "none"
               PROVE  list'[i].msg \in asked' \cup pending' \cup unmarked'
    BY <2>1 DEF ShownMarked
  <2>3. CASE Kept(i)
    BY <2>2, <2>3, <1>0 DEF ShownMarked, Kept
  <2>4. CASE list'[i].msg \in Fresh(l)
    BY <2>2, <2>4
  <2>5. QED
    BY <2>3, <2>4, <1>9, AnswerDoes
<1>10. ASSUME NEW l \in loads, HistoryFails(l) PROVE ShownMarked'
  <2>1. l.flush \in BOOLEAN /\ locked \in BOOLEAN
        /\ pending \subseteq Messages /\ asked \subseteq Messages
        /\ unmarked \subseteq Messages
    BY DEF TypeOK, Load
  <2>2. MayFlush(l) \in BOOLEAN
    BY <2>1, Zenon DEF MayFlush
  <2>3. MarkRead({}, MayFlush(l)) /\ UNCHANGED <<current, list, clock>>
    BY <1>10 DEF HistoryFails
  <2>4. \A m \in asked \cup pending \cup unmarked : clock[m] = "none" =>
      m \in asked' \cup pending' \cup unmarked'
    BY <2>1, <2>2, <2>3, MarkReadDoes
  <2>5. QED
    BY <2>3, <2>4, <1>1
<1>11. CASE HandleWSMessage
  <2>1. current' = current /\ clock' = clock
    BY <1>11 DEF HandleWSMessage
  <2>2. \A m \in asked \cup pending \cup unmarked : clock[m] = "none" =>
      m \in asked' \cup pending' \cup unmarked'
    BY <1>11, HandleDoes
  <2> SUFFICES ASSUME current # NoDialog, NEW i \in DOMAIN list',
                      clock[list'[i].msg] = "none"
               PROVE  list'[i].msg \in asked' \cup pending' \cup unmarked'
    BY <2>1 DEF ShownMarked
  <2>3. CASE Kept(i)
    BY <2>2, <2>3, <1>0 DEF ShownMarked, Kept
  <2>4. CASE ~Kept(i)
    BY <2>4, <1>11, HandleDoes
  <2>5. QED
    BY <2>3, <2>4
<1>12. CASE Register \/ Break \/ DoReconnectWS \/ LoadHome \/ OnAppHidden
  BY <1>2, <1>12 DEF Register, Break, DoReconnectWS, LoadHome, OnAppHidden
<1>13. current # NoDialog => current \in Dialogs
  BY DEF TypeOK
<1>14. CASE Open
  BY <1>2, <1>3, <1>13, <1>14 DEF Open, Reloads, NoLoad
<1>15. ASSUME NEW d \in Dialogs, ShowChat(d) PROVE ShownMarked'
  BY <1>3, <1>15 DEF ShowChat
<1>16. CASE BackFromChat
  BY <1>16 DEF BackFromChat, ShownMarked
<1>17. ASSUME NEW long \in BOOLEAN, OnAppVisible(long) PROVE ShownMarked'
  BY <1>2, <1>3, <1>13, <1>17 DEF OnAppVisible, NoLoad
<1>18. CASE UnlockAfterResume
  <2>1. before.screen = "chat" => before.dialog \in Dialogs
    BY <1>18 DEF UnlockAfterResume, ScreenInv
  <2>2. QED
    BY <2>1, <1>2, <1>3, <1>18 DEF UnlockAfterResume, NoLoad
<1>19. CASE UNCHANGED vars
  BY <1>2, <1>19 DEF vars
<1>20. QED
  BY <1>4, <1>5, <1>6, <1>7, <1>8, <1>9, <1>10, <1>11, <1>12, <1>14, <1>15, <1>16,
     <1>17, <1>18, <1>19 DEF Next, Server, Answer, User

\* What the user is shown of the peer and is not yet read has a markRead call under
\* way, also when it came while the app was away or locked; or its last call has
\* failed, which the client does not make good by itself.
THEOREM ShownAreRead == Spec => []ShownIsRead
<1> DEFINE Inv == TypeOK /\ ScreenInv /\ LoadsInv /\ MarkInv
<1>1. Init => Inv
  <2> SUFFICES ASSUME Init PROVE LoadsInv /\ MarkInv
    BY TypeInit
  <2>1. loads = {} /\ pending = {} /\ current = NoDialog
    BY DEF Init
  <2>2. QED
    BY <2>1 DEF LoadsInv, MarkInv, PendingOfChat, PendingFlushed, ShownMarked
<1>2. Inv /\ [Next]_vars => Inv'
  <2> SUFFICES ASSUME Inv, [Next]_vars PROVE Inv'
    OBVIOUS
  <2>1. TypeOK' /\ ScreenInv' /\ LoadsInv'
    BY TypeStep, ScreenStep, LoadsStep
  <2>2. PendingOfChat' /\ PendingFlushed' /\ ShownMarked'
    BY PendingOfChatStep, PendingFlushedStep, ShownMarkedStep
  <2>3. QED
    BY <2>1, <2>2 DEF MarkInv
<1>3. Inv => ShownIsRead
  <2> SUFFICES ASSUME Inv, ~hidden, loads = {}, NEW m \in Messages,
                      Displayed(m), clock[m] = "none"
               PROVE  m \in asked \cup unmarked
    BY DEF ShownIsRead
  <2>1. screen = "chat" /\ ~locked /\ current # NoDialog
    BY ScreenAssumption DEF Displayed, ScreenInv
  <2>2. pending = {}
    BY <2>1 DEF MarkInv, PendingFlushed
  <2>3. PICK i \in DOMAIN list : list[i].msg = m
    BY DEF Displayed, BubblesOf
  <2>4. QED
    BY <2>1, <2>2, <2>3 DEF MarkInv, ShownMarked
<1>4. QED
  BY <1>1, <1>2, <1>3, PTL DEF Spec
-----------------------------------------------------------------------------
(* What the events have brought to the open list.                          *)

News(m)     == <<"message_new", m>>
Started(m)  == <<"message_ttl_started", m>>
Deletion(m) == <<"message_deleted", m>>

\* The news of m is still to come.
Ahead(m) == life[m] = "absent" \/ News(m) \in UnderWay

\* The news of a message is told once, and not before it is stored.
Told ==
  \A m \in Messages :
    /\ News(m) \in owed => News(m) \notin Range(wire)
    /\ \A i, j \in DOMAIN wire : wire[i] = News(m) /\ wire[j] = News(m) => i = j
    /\ life[m] = "absent" => News(m) \notin UnderWay

\* A queue that takes an event.
LEMMA AppendRange ==
  ASSUME NEW s \in Seq(Event), NEW e \in Event
  PROVE  /\ Range(Append(s, e)) = Range(s) \cup {e}
         /\ DOMAIN Append(s, e) = 1..(Len(s) + 1) /\ DOMAIN s = 1..Len(s)
         /\ Len(s) \in Nat
         /\ \A i \in 1..Len(s) : Append(s, e)[i] = s[i]
         /\ Append(s, e)[Len(s) + 1] = e
<1>1. /\ Append(s, e) \in Seq(Event) /\ Len(Append(s, e)) = Len(s) + 1
      /\ \A i \in 1..Len(s) : Append(s, e)[i] = s[i]
      /\ Append(s, e)[Len(s) + 1] = e
      /\ Len(s) \in Nat /\ DOMAIN s = 1..Len(s)
  BY AppendProperties, LenProperties
<1>2. DOMAIN Append(s, e) = 1..(Len(s) + 1)
  BY <1>1, LenProperties
<1>3. \A x : x \in Range(Append(s, e)) <=> x \in Range(s) \/ x = e
  BY <1>1, <1>2 DEF Range
<1>4. QED
  BY <1>1, <1>2, <1>3

\* A queue that gives its first event.
LEMMA TailRange ==
  ASSUME NEW s \in Seq(Event), s # << >>
  PROVE  /\ Head(s) \in Event /\ Range(s) = Range(Tail(s)) \cup {Head(s)}
         /\ DOMAIN Tail(s) = 1..(Len(s) - 1) /\ DOMAIN s = 1..Len(s)
         /\ Len(s) \in Nat \ {0} /\ s[1] = Head(s)
         /\ \A i \in 1..(Len(s) - 1) : Tail(s)[i] = s[i + 1]
<1>1. /\ Tail(s) \in Seq(Event) /\ Len(Tail(s)) = Len(s) - 1
      /\ \A i \in 1..(Len(s) - 1) : Tail(s)[i] = s[i + 1]
      /\ Head(s) \in Event
  BY HeadTailProperties
<1>2. Len(s) \in Nat \ {0} /\ DOMAIN s = 1..Len(s)
  BY EmptySeq, LenProperties
<1>3. DOMAIN Tail(s) = 1..(Len(s) - 1)
  BY <1>1, LenProperties
<1>4. s[1] = Head(s)
  OBVIOUS
<1>5. \A x : x \in Range(s) <=> x \in Range(Tail(s)) \/ x = Head(s)
  <2>1. ASSUME NEW i \in DOMAIN s
        PROVE  s[i] \in Range(Tail(s)) \/ s[i] = Head(s)
    <3>1. CASE i = 1
      BY <3>1, <1>4
    <3>2. CASE i # 1
      <4>1. i - 1 \in DOMAIN Tail(s) /\ Tail(s)[i - 1] = s[i]
        BY <3>2, <1>1, <1>2, <1>3
      <4>2. QED
        BY <4>1 DEF Range
    <3>3. QED
      BY <3>1, <3>2
  <2>2. ASSUME NEW i \in DOMAIN Tail(s) PROVE Tail(s)[i] \in Range(s)
    <3>1. i + 1 \in DOMAIN s /\ Tail(s)[i] = s[i + 1]
      BY <1>1, <1>2, <1>3
    <3>2. QED
      BY <3>1 DEF Range
  <2>3. Head(s) \in Range(s)
    BY <1>2, <1>4 DEF Range
  <2>4. QED
    BY <2>1, <2>2, <2>3 DEF Range
<1>6. QED
  BY <1>1, <1>2, <1>3, <1>4, <1>5

\* What a step does to the events.
LEMMA EventSteps ==
  ASSUME TypeOK, [Next]_vars
  PROVE  \/ \E m \in Messages : PeerPosts(m) \/ StartTTL(m) \/ RemoveMessage(m)
         \/ \E e \in owed : Send(e)
         \/ HandleWSMessage
         \/ Break
         \/ UNCHANGED <<life, owed, wire>> /\ \A m \in Messages :
              clock[m] # clock'[m] => clock[m] # "none"
<1> USE DEF serverVars, linkVars, clientVars
<1>1. ASSUME NEW m \in Messages, TimeOut(m)
      PROVE  UNCHANGED <<life, owed, wire>> /\ \A n \in Messages :
               clock[n] # clock'[n] => clock[n] # "none"
  BY <1>1 DEF TimeOut, TypeOK
<1> DEFINE Same == UNCHANGED <<life, clock, owed, wire>>
<1>2. ASSUME NEW m \in Messages, MarkFails(m) \/ HideExpiredBubble(m) PROVE Same
  BY <1>2 DEF MarkFails, HideExpiredBubble
<1>3. ASSUME NEW l \in loads, ListMessages(l) \/ HistoryAnswer(l) \/ HistoryFails(l)
      PROVE  Same
  BY <1>3 DEF ListMessages, HistoryAnswer, HistoryFails
<1>4. ASSUME Register \/ Open \/ DoReconnectWS PROVE Same
  BY <1>4 DEF Register, Open, DoReconnectWS
<1>5. ASSUME User PROVE Same
  BY <1>5 DEF User, ShowChat, BackFromChat, LoadHome, OnAppHidden, OnAppVisible,
              UnlockAfterResume, ConnectFromHome
<1>6. ASSUME UNCHANGED vars PROVE Same
  BY <1>6 DEF vars
<1>7. QED
  BY <1>1, <1>2, <1>3, <1>4, <1>5, <1>6 DEF Next, Server, Answer

\* Every step tells the news of a message at most once, and never again.
LEMMA ToldStep ==
  ASSUME TypeOK, Told, [Next]_vars
  PROVE  /\ Told'
         /\ \A m \in Messages : Ahead(m)' => Ahead(m)
         /\ \A m \in Messages :
              HandleWSMessage /\ Head(wire) = News(m) => ~Ahead(m)'
<1> DEFINE Goal(m) ==
      /\ News(m) \in owed' => News(m) \notin Range(wire')
      /\ \A i, j \in DOMAIN wire' : wire'[i] = News(m) /\ wire'[j] = News(m) => i = j
      /\ life'[m] = "absent" => News(m) \notin owed' \cup Range(wire')
      /\ life'[m] = "absent" \/ News(m) \in owed' \cup Range(wire') => Ahead(m)
      /\ HandleWSMessage /\ Head(wire) = News(m) =>
           ~ (life'[m] = "absent" \/ News(m) \in owed' \cup Range(wire'))
<1> SUFFICES ASSUME NEW m \in Messages PROVE Goal(m)
  BY DEF Told, Ahead, UnderWay
<1> USE DEF serverVars, linkVars, clientVars
<1>0. /\ wire \in Seq(Event) /\ owed \subseteq Event
      /\ life \in [Messages -> {"absent", "live", "removed"}]
      /\ News(m) \in Event
      /\ News(m) \in owed => News(m) \notin Range(wire)
      /\ \A i, j \in DOMAIN wire : wire[i] = News(m) /\ wire[j] = News(m) => i = j
      /\ life[m] = "absent" => News(m) \notin owed \cup Range(wire)
  BY DEF TypeOK, Told, UnderWay, News, Event
<1>1. HandleWSMessage => wire' # wire
  <2> SUFFICES ASSUME HandleWSMessage PROVE wire' # wire
    OBVIOUS
  <2>1. wire # << >> /\ wire' = Tail(wire)
    BY DEF HandleWSMessage
  <2>2. Len(wire') = Len(wire) - 1 /\ Len(wire) \in Nat
    BY <2>1, <1>0, HeadTailProperties, LenProperties
  <2>3. QED
    BY <2>2
<1>2. ASSUME NEW n \in Messages, PeerPosts(n) PROVE Goal(m)
  <2>1. /\ life[n] = "absent" /\ life' = [life EXCEPT ![n] = "live"]
        /\ owed' = owed \cup {News(n)} /\ wire' = wire
    BY <1>2 DEF PeerPosts, Owe, News
  <2>2. News(n) = News(m) => n = m
    BY DEF News
  <2>3. QED
    BY <2>1, <2>2, <1>0, <1>1 DEF Ahead, UnderWay
<1>3. ASSUME NEW n \in Messages, StartTTL(n) \/ RemoveMessage(n) PROVE Goal(m)
  <2>1. /\ wire' = wire
        /\ owed' = owed \cup {Started(n)} \/ owed' = owed \cup {Deletion(n)}
        /\ life'[m] = "absent" <=> life[m] = "absent"
    BY <1>0, <1>3 DEF StartTTL, RemoveMessage, Owe, Started, Deletion
  <2>2. News(m) # Started(n) /\ News(m) # Deletion(n)
    BY DEF News, Started, Deletion
  <2>3. QED
    BY <2>1, <2>2, <1>0, <1>1 DEF Ahead, UnderWay
<1>4. ASSUME NEW e \in owed, Send(e) PROVE Goal(m)
  <2>1. owed' = owed \ {e} /\ life' = life /\ wire' \in {wire, Append(wire, e)}
    BY <1>4 DEF Send
  <2>2. e \in Event
    BY <1>0
  <2>3. ~HandleWSMessage
    <3>1. CASE wire' = wire
      BY <3>1, <1>1
    <3>2. CASE wire' = Append(wire, e)
      <4>1. Len(wire') = Len(wire) + 1 /\ Len(wire) \in Nat
        BY <3>2, <2>2, <1>0, AppendProperties, LenProperties
      <4>2. ASSUME HandleWSMessage PROVE Len(wire') = Len(wire) - 1
        BY <4>2, <1>0, HeadTailProperties DEF HandleWSMessage
      <4>3. QED
        BY <4>1, <4>2
    <3>3. QED
      BY <2>1, <3>1, <3>2
  <2>4. CASE wire' = wire
    BY <2>1, <2>3, <2>4, <1>0 DEF Ahead, UnderWay
  <2>5. CASE wire' = Append(wire, e)
    <3>1. Range(wire') = Range(wire) \cup {e}
      BY <2>2, <2>5, <1>0, AppendRange
    <3>2. \A i, j \in DOMAIN wire' : wire'[i] = News(m) /\ wire'[j] = News(m) => i = j
      <4>1. CASE e = News(m)
        <5>1. \A i \in DOMAIN wire : wire[i] # News(m)
          BY <4>1, <1>0 DEF Range
        <5>2. QED
          BY <5>1, <2>2, <2>5, <1>0, AppendRange
      <4>2. CASE e # News(m)
        BY <4>2, <2>2, <2>5, <1>0, AppendRange
      <4>3. QED
        BY <4>1, <4>2
    <3>3. QED
      BY <3>1, <3>2, <2>1, <2>3, <1>0 DEF Ahead, UnderWay
  <2>6. QED
    BY <2>1, <2>4, <2>5
<1>5. CASE HandleWSMessage
  <2>1. /\ wire # << >> /\ wire' = Tail(wire) /\ owed' = owed /\ life' = life
    BY <1>5 DEF HandleWSMessage
  <2>2. Range(wire) = Range(wire') \cup {Head(wire)}
    BY <2>1, <1>0, TailRange
  <2>3. \A i, j \in DOMAIN wire' : wire'[i] = News(m) /\ wire'[j] = News(m) => i = j
    <3>1. \A i \in DOMAIN wire' : i + 1 \in DOMAIN wire /\ wire'[i] = wire[i + 1] /\ i \in Int
      BY <2>1, <1>0, TailRange
    <3>2. QED
      BY <3>1, <1>0
  <2>4. Head(wire) = News(m) => News(m) \notin Range(wire')
    <3>1. \A i \in DOMAIN wire' : i + 1 \in DOMAIN wire /\ wire'[i] = wire[i + 1] /\ i \in Nat \ {0}
      BY <2>1, <1>0, TailRange
    <3>2. 1 \in DOMAIN wire /\ wire[1] = Head(wire)
      BY <2>1, <1>0, TailRange
    <3>3. ASSUME Head(wire) = News(m), NEW i \in DOMAIN wire', wire'[i] = News(m)
          PROVE  FALSE
      <4>1. i + 1 \in DOMAIN wire /\ wire[i + 1] = News(m) /\ i + 1 # 1
        BY <3>1, <3>3
      <4>2. QED
        BY <4>1, <3>2, <3>3, <1>0
    <3>4. QED
      BY <3>3 DEF Range
  <2>5. QED
    BY <2>1, <2>2, <2>3, <2>4, <1>0 DEF Ahead, UnderWay
<1>6. CASE Break
  <2>1. owed' = owed /\ life' = life /\ wire' = << >>
    BY <1>6 DEF Break
  <2>2. Range(wire') = {} /\ DOMAIN wire' = {}
    BY <2>1 DEF Range
  <2>3. link' # link \/ ~HandleWSMessage
    BY <1>6 DEF Break, HandleWSMessage
  <2>4. ~HandleWSMessage
    BY <2>3, <1>6 DEF Break, HandleWSMessage
  <2>5. QED
    BY <2>1, <2>2, <2>4, <1>0 DEF Ahead, UnderWay
<1>7. CASE UNCHANGED <<life, owed, wire>>
  BY <1>7, <1>0, <1>1 DEF Ahead, UnderWay
<1>8. QED
  BY <1>2, <1>3, <1>4, <1>5, <1>6, <1>7, EventSteps

-----------------------------------------------------------------------------
(* What a step does to the open list.                                      *)

\* The list is left alone; nothing more is asked for.
Quiet ==
  /\ loads' \subseteq loads
  /\ list' = list
  /\ crossed \subseteq crossed'
  /\ timers' = timers \/ (timers' = NoTimers /\ current' = NoDialog)

\* A step asks for the history, or has a part in it, brings an event, hides a
\* bubble that has timed out, or is quiet.
LEMMA ListSteps ==
  ASSUME TypeOK, ScreenInv, [Next]_vars
  PROVE  \/ \E d \in Dialogs, flush \in BOOLEAN : LoadChatHistory(d, flush)
         \/ \E l \in loads : ListMessages(l) \/ HistoryAnswer(l)
         \/ HandleWSMessage
         \/ \E m \in Messages : HideExpiredBubble(m)
         \/ Quiet
<1> USE DEF serverVars, linkVars, listVars, clientVars, NoLoad, Quiet, StopAllTTLTimers
<1>1. ASSUME NEW m \in Messages, Server(m) PROVE Quiet
  BY <1>1 DEF Server, PeerPosts, StartTTL, MarkFails, TimeOut, RemoveMessage
<1>2. ASSUME NEW e \in owed, Send(e) PROVE Quiet
  BY <1>2 DEF Send
<1>3. ASSUME NEW l \in loads, HistoryFails(l) PROVE Quiet
  BY <1>3 DEF HistoryFails
<1>4. ASSUME Register \/ Break \/ DoReconnectWS PROVE Quiet
  BY <1>4 DEF Register, Break, DoReconnectWS
<1>5. current # NoDialog => current \in Dialogs
  BY DEF TypeOK
<1>6. ASSUME Open
      PROVE  Quiet \/ \E d \in Dialogs : LoadChatHistory(d, FALSE)
  BY <1>5, <1>6 DEF Open, Reloads
<1>7. ASSUME NEW d \in Dialogs, ShowChat(d) PROVE LoadChatHistory(d, FALSE)
  BY <1>7 DEF ShowChat
<1>8. ASSUME BackFromChat \/ LoadHome \/ OnAppHidden PROVE Quiet
  BY <1>8 DEF BackFromChat, LoadHome, OnAppHidden
<1>9. ASSUME NEW long \in BOOLEAN, OnAppVisible(long)
      PROVE  Quiet \/ \E d \in Dialogs : LoadChatHistory(d, TRUE)
  BY <1>5, <1>9 DEF OnAppVisible
<1>10. ASSUME UnlockAfterResume
       PROVE  Quiet \/ \E d \in Dialogs : LoadChatHistory(d, TRUE)
  <2>1. before.screen = "chat" => before.dialog \in Dialogs
    BY <1>10 DEF UnlockAfterResume, ScreenInv
  <2>2. QED
    BY <2>1, <1>10 DEF UnlockAfterResume
<1>11. ASSUME UNCHANGED vars PROVE Quiet
  BY <1>11 DEF vars
<1>12. QED
  BY <1>1, <1>2, <1>3, <1>4, <1>6, <1>7, <1>8, <1>9, <1>10, <1>11
     DEF Next, Answer, User

Shown(m) == \E i \in BubblesOf(m) : list[i].shown

\* The bubbles of m stay, and none comes back to sight.
Same(m) == BubblesOf(m)' = BubblesOf(m) /\ (Shown(m)' => Shown(m))

\* Hiding: every other bubble stays as it is.
LEMMA HideSame ==
  ASSUME list \in Seq(Bubble), NEW i \in DOMAIN list, list' = Hide(i)
  PROVE  /\ \A m \in Messages : Same(m)
         /\ \A m \in Messages : BubblesOf(m) \subseteq {i} => ~Shown(m)'
<1>1. DOMAIN list = 1..Len(list) /\ list[i] \in Bubble
  BY LenProperties, ElementOfSeq
<1>2. list' = [list EXCEPT ![i] = [list[i] EXCEPT !.shown = FALSE]]
  BY DEF Hide
<1>3. /\ DOMAIN list' = DOMAIN list
      /\ \A j \in DOMAIN list : list'[j].msg = list[j].msg
  BY HideDoes
<1>4. list'[i] = [list[i] EXCEPT !.shown = FALSE]
  BY <1>1, <1>2
<1>5. ~list'[i].shown
  BY <1>1, <1>4 DEF Bubble
<1>6. \A j \in DOMAIN list : j # i => list'[j] = list[j]
  BY <1>1, <1>2
<1>7. \A m \in Messages : BubblesOf(m)' = BubblesOf(m)
  BY <1>3 DEF BubblesOf
<1>8. QED
  BY <1>5, <1>6, <1>7 DEF Same, Shown, BubblesOf

\* An event draws at most one bubble, for the message whose news it is.
LEMMA HandleDraws ==
  ASSUME TypeOK, HandleWSMessage, NEW m \in Messages
  PROVE  /\ BubblesOf(m) \subseteq BubblesOf(m)'
         /\ Head(wire) # News(m) => Same(m)
         /\ BubblesOf(m) = {} => \A i, j \in BubblesOf(m)' : i = j
         /\ Head(wire) = Deletion(m) /\ (\A i, j \in BubblesOf(m) : i = j) =>
              ~Shown(m)'
         /\ Head(wire) = Started(m) =>
              \/ BubblesOf(m) = {} /\ timers'[m] = timers[m]
              \/ timers'[m] \in BubblesOf(m) /\ timers'[m] # 0
         /\ \/ timers'[m] = timers[m]
            \/ Head(wire) = Started(m)
            \/ Head(wire) = Deletion(m) /\ timers'[m] = 0
<1> DEFINE n == Head(wire)[2]
<1>1. Head(wire) \in Event /\ n \in Messages
  <2>1. Head(wire) \in Event
    BY HeadTailProperties DEF TypeOK, HandleWSMessage
  <2>2. QED
    BY <2>1 DEF Event
<1>2. /\ list \in Seq(Bubble) /\ Len(list) \in Nat /\ DOMAIN list = 1..Len(list)
      /\ timers \in [Messages -> 0..Len(list)]
  BY LenProperties DEF TypeOK
<1>3. \/ Head(wire) = News(n) /\ OnMessageNew(n)
      \/ Head(wire) = Started(n) /\ OnTTLStarted(n)
      \/ Head(wire) = Deletion(n) /\ OnMessageDeleted(n)
  <2>1. Head(wire) = <<Head(wire)[1], n>>
        /\ Head(wire)[1] \in {"message_new", "message_ttl_started", "message_deleted"}
    BY <1>1 DEF Event
  <2>2. CASE Head(wire)[1] = "message_new"
    BY <2>1, <2>2 DEF HandleWSMessage, News
  <2>3. CASE Head(wire)[1] = "message_ttl_started"
    BY <2>1, <2>3 DEF HandleWSMessage, Started
  <2>4. CASE Head(wire)[1] = "message_deleted"
    BY <2>1, <2>4 DEF HandleWSMessage, Deletion
  <2>5. QED
    BY <2>1, <2>2, <2>3, <2>4
<1>4. /\ \A k \in Messages : News(n) # Started(k) /\ News(n) # Deletion(k)
      /\ \A k \in Messages : Started(n) # News(k) /\ Started(n) # Deletion(k)
      /\ \A k \in Messages : Deletion(n) # News(k) /\ Deletion(n) # Started(k)
      /\ News(n) = News(m) => n = m
      /\ Started(n) = Started(m) => n = m
      /\ Deletion(n) = Deletion(m) => n = m
  BY DEF News, Started, Deletion
<1> HIDE DEF n
<1>5. ASSUME list' = list PROVE Same(m)
  BY <1>5 DEF Same, Shown, BubblesOf
<1>6. FirstBubble(n) \in 0..Len(list) /\ (FirstBubble(n) # 0 => FirstBubble(n) \in DOMAIN list)
  BY <1>1, <1>2, FirstBubbleIn
<1>7. /\ FirstBubble(n) = 0 => BubblesOf(n) = {}
      /\ FirstBubble(n) # 0 => FirstBubble(n) \in BubblesOf(n)
  <2>1. CASE BubblesOf(n) = {}
    BY <2>1 DEF FirstBubble
  <2>2. CASE BubblesOf(n) # {}
    <3>1. BubblesOf(n) \subseteq Nat \ {0}
      BY <1>2 DEF BubblesOf
    <3>2. \E i \in BubblesOf(n) : \A j \in BubblesOf(n) : i <= j
      BY <3>1, <2>2, Least
    <3>3. FirstBubble(n) \in BubblesOf(n)
      BY <3>2, <2>2 DEF FirstBubble
    <3>4. QED
      BY <3>1, <3>3
  <2>3. QED
    BY <2>1, <2>2
<1>8. CASE Head(wire) = News(n) /\ OnMessageNew(n)
  <2>1. timers' = timers
    BY <1>8 DEF OnMessageNew, listVars
  <2>2. CASE current # DialogOf[n]
    <3>1. Same(m)
      BY <2>2, <1>5, <1>8 DEF OnMessageNew, listVars
    <3>2. QED
      BY <2>1, <3>1, <1>4, <1>8 DEF Same
  <2>3. CASE current = DialogOf[n]
    <3> DEFINE b == [msg |-> n, from |-> "live", shown |-> TRUE]
    <3>1. b \in Bubble /\ b.msg = n
      BY <1>1 DEF Bubble
    <3>2. list' = Append(list, b)
      BY <2>3, <1>8 DEF OnMessageNew, AppendBubble
    <3> HIDE DEF b
    <3>3. /\ list' \in Seq(Bubble) /\ Len(list') = Len(list) + 1
          /\ \A i \in 1..Len(list) : list'[i] = list[i]
          /\ list'[Len(list) + 1] = b
      BY <3>1, <3>2, <1>2, AppendProperties
    <3>4. DOMAIN list' = 1..(Len(list) + 1)
      BY <3>3, LenProperties
    <3>5. BubblesOf(m)' \subseteq BubblesOf(m) \cup {Len(list) + 1}
      BY <3>3, <3>4, <1>2 DEF BubblesOf
    <3>6. BubblesOf(m) \subseteq BubblesOf(m)'
      BY <3>3, <3>4, <1>2 DEF BubblesOf
    <3>7. n # m => Same(m)
      BY <3>1, <3>3, <3>4, <1>2 DEF Same, Shown, BubblesOf
    <3>8. QED
      BY <2>1, <3>5, <3>6, <3>7, <1>4, <1>8
  <2>4. QED
    BY <2>2, <2>3
<1>9. ASSUME list' = list \/ (FirstBubble(n) # 0 /\ list' = Hide(FirstBubble(n)))
      PROVE  Same(m)
  BY <1>2, <1>5, <1>6, <1>9, HideSame
<1>10. CASE Head(wire) = Started(n) /\ OnTTLStarted(n)
  <2>1. Same(m)
    BY <1>9, <1>10 DEF OnTTLStarted
  <2>2. timers' = IF FirstBubble(n) = 0 THEN timers
                  ELSE [timers EXCEPT ![n] = FirstBubble(n)]
    BY <1>10 DEF OnTTLStarted
  <2>3. CASE n = m
    BY <2>1, <2>2, <2>3, <1>1, <1>2, <1>4, <1>7, <1>10 DEF Same
  <2>4. CASE n # m
    BY <2>1, <2>2, <2>4, <1>1, <1>2, <1>4, <1>10 DEF Same
  <2>5. QED
    BY <2>3, <2>4
<1>11. CASE Head(wire) = Deletion(n) /\ OnMessageDeleted(n)
  <2>1. Same(m)
    BY <1>9, <1>11 DEF OnMessageDeleted
  <2>2. timers' = [timers EXCEPT ![n] = 0]
    BY <1>11 DEF OnMessageDeleted
  <2>3. ASSUME n = m, \A i, j \in BubblesOf(m) : i = j PROVE ~Shown(m)'
    <3>1. CASE FirstBubble(m) = 0
      BY <2>1, <2>3, <3>1, <1>7 DEF Same, Shown
    <3>2. CASE FirstBubble(m) # 0
      <4>1. list' = Hide(FirstBubble(m)) /\ BubblesOf(m) \subseteq {FirstBubble(m)}
        BY <2>3, <3>2, <1>7, <1>11 DEF OnMessageDeleted
      <4>2. QED
        BY <4>1, <2>3, <3>2, <1>2, <1>6, HideSame
    <3>3. QED
      BY <3>1, <3>2
  <2>4. QED
    BY <2>1, <2>2, <2>3, <1>1, <1>2, <1>4, <1>11 DEF Same
<1>12. QED
  BY <1>3, <1>8, <1>10, <1>11

\* The rendered rows have one bubble each, and Position finds it.
LEMMA OneBubblePerRow ==
  ASSUME NEW rows \in SUBSET Messages
  PROVE  /\ \A i, j \in 1..Cardinality(rows) :
              Bubbles(rows)[i].msg = Bubbles(rows)[j].msg => i = j
         /\ \A m \in rows : Bubbles(rows)[Position(rows, m)].msg = m
<1> DEFINE n == Cardinality(rows)
<1>1. IsFiniteSet(rows) /\ n \in Nat /\ ExistsBijection(1..n, rows)
  BY ScreenAssumption, FS_Subset, FS_CardinalityType
<1>2. SetToSeq(rows) \in [1..n -> rows] /\ IsInjective(SetToSeq(rows))
  <2>1. \E f \in [1..n -> rows] : IsInjective(f)
    BY <1>1, Zenon DEF ExistsBijection, Bijection, Injection
  <2>2. QED
    BY <2>1, Zenon DEF SetToSeq
<1>3. \A i \in 1..n : Bubbles(rows)[i].msg = SetToSeq(rows)[i]
  BY DEF Bubbles
<1>4. \A i, j \in 1..n : SetToSeq(rows)[i] = SetToSeq(rows)[j] => i = j
  <2>1. DOMAIN SetToSeq(rows) = 1..n
    BY <1>2
  <2>2. QED
    BY <2>1, <1>2 DEF IsInjective
<1>5. ASSUME NEW m \in rows PROVE SetToSeq(rows)[Position(rows, m)] = m
  <2>1. Cardinality(1..n) = n /\ IsFiniteSet(1..n)
    BY <1>1, FS_Interval
  <2>2. SetToSeq(rows) \in Injection(1..n, rows)
    BY <1>2, Zenon DEF Injection
  <2>3. SetToSeq(rows) \in Surjection(1..n, rows)
    BY <2>1, <2>2, <1>1, FS_Injection
  <2>4. \E i \in 1..n : SetToSeq(rows)[i] = m
    BY <2>3, Zenon DEF Surjection
  <2>5. QED
    BY <2>4 DEF Position
<1>6. QED
  BY <1>3, <1>4, <1>5, BubblesAre

\* An answer draws one bubble for each fresh row, with its timer.
LEMMA AnswerDraws ==
  ASSUME TypeOK, NEW l \in loads, HistoryAnswer(l), NEW m \in Messages
  PROVE  /\ m \notin Fresh(l) => Same(m) /\ timers'[m] = timers[m]
         /\ m \in Fresh(l) =>
              /\ BubblesOf(m) = {} => \A i, j \in BubblesOf(m)' : i = j
              /\ BubblesOf(m) \subseteq BubblesOf(m)'
              /\ IF m \in l.dated
                 THEN timers'[m] \in BubblesOf(m)' /\ timers'[m] # 0
                 ELSE timers'[m] = timers[m]
<1> DEFINE rows == Fresh(l)
           c    == Cardinality(rows)
<1>1. rows \in SUBSET Messages
  BY DEF TypeOK, Load, Fresh
<1>2. list \in Seq(Bubble) /\ Len(list) \in Nat /\ DOMAIN list = 1..Len(list)
  BY LenProperties DEF TypeOK
<1>3. /\ list' = list \o Bubbles(rows)
      /\ timers' = [k \in Messages |-> IF k \in rows \cap l.dated
                                        THEN Len(list) + Position(rows, k)
                                        ELSE timers[k]]
  BY DEF HistoryAnswer
<1> HIDE DEF rows
<1>4. /\ Bubbles(rows) \in Seq(Bubble) /\ c \in Nat /\ Len(Bubbles(rows)) = c
      /\ \A i \in 1..c : Bubbles(rows)[i].msg \in rows
      /\ \A k \in rows : Position(rows, k) \in 1..c
      /\ \A i, j \in 1..c : Bubbles(rows)[i].msg = Bubbles(rows)[j].msg => i = j
      /\ \A k \in rows : Bubbles(rows)[Position(rows, k)].msg = k
  BY <1>1, BubblesAre, OneBubblePerRow
<1> HIDE DEF c
<1>5. /\ list' \in Seq(Bubble) /\ Len(list') = Len(list) + c
      /\ \A i \in 1..(Len(list) + c) :
           list'[i] = IF i <= Len(list) THEN list[i] ELSE Bubbles(rows)[i - Len(list)]
  <2>1. Bubbles(rows) \in Seq(Bubble) /\ c \in Nat /\ Len(Bubbles(rows)) = c
    BY <1>4
  <2>2. list' = list \o Bubbles(rows)
    BY <1>3
  <2>3. QED
    BY <1>2, <2>1, <2>2, ConcatProperties
<1>6. DOMAIN list' = 1..(Len(list) + c)
  BY <1>5, LenProperties
<1>7. \A i \in DOMAIN list : i \in DOMAIN list' /\ list'[i] = list[i]
  BY <1>2, <1>4, <1>5, <1>6
<1>8. ASSUME NEW i \in DOMAIN list', i \notin DOMAIN list
      PROVE  i - Len(list) \in 1..c /\ list'[i] = Bubbles(rows)[i - Len(list)]
  BY <1>2, <1>4, <1>5, <1>6, <1>8
<1>9. BubblesOf(m) \subseteq BubblesOf(m)'
  BY <1>7 DEF BubblesOf
<1>10. ASSUME m \notin rows PROVE Same(m) /\ timers'[m] = timers[m]
  <2>1. BubblesOf(m)' \subseteq BubblesOf(m)
    <3> SUFFICES ASSUME NEW i \in DOMAIN list', list'[i].msg = m, i \notin DOMAIN list
                 PROVE  FALSE
      BY <1>7 DEF BubblesOf
    <3>1. QED
      BY <1>4, <1>8, <1>10
  <2>2. BubblesOf(m)' = BubblesOf(m)
    BY <2>1, <1>9
  <2>3. Shown(m)' => Shown(m)
    BY <2>2, <1>7 DEF Shown, BubblesOf
  <2>4. QED
    BY <2>2, <2>3, <1>3, <1>10 DEF Same
<1>11. ASSUME BubblesOf(m) = {}, NEW i \in BubblesOf(m)', NEW j \in BubblesOf(m)'
       PROVE  i = j
  <2>1. /\ i \in DOMAIN list' /\ list'[i].msg = m /\ i \notin DOMAIN list /\ i \in Int
        /\ j \in DOMAIN list' /\ list'[j].msg = m /\ j \notin DOMAIN list /\ j \in Int
    BY <1>6, <1>7, <1>11 DEF BubblesOf
  <2>2. i - Len(list) = j - Len(list)
    BY <2>1, <1>4, <1>8
  <2>3. QED
    BY <2>1, <2>2, <1>2
<1>12. ASSUME m \in rows \cap l.dated
       PROVE  timers'[m] \in BubblesOf(m)' /\ timers'[m] # 0
  <2>1. /\ Position(rows, m) \in 1..c
        /\ timers'[m] = Len(list) + Position(rows, m)
    BY <1>3, <1>4, <1>12
  <2>2. /\ timers'[m] \in DOMAIN list' /\ timers'[m] # 0
        /\ list'[timers'[m]] = Bubbles(rows)[Position(rows, m)]
    BY <2>1, <1>2, <1>4, <1>5, <1>6
  <2>3. list'[timers'[m]].msg = m
    BY <2>2, <1>4, <1>12
  <2>4. QED
    BY <2>2, <2>3 DEF BubblesOf
<1>13. m \notin l.dated => timers'[m] = timers[m]
  BY <1>3
<1>14. QED
  BY <1>9, <1>10, <1>11, <1>12, <1>13 DEF rows

-----------------------------------------------------------------------------
(* One bubble for a message.                                               *)

OneLatest == \A k, l \in loads : k.latest /\ l.latest => k = l

Loading == \E l \in loads : l.latest

AtMostOne(m) == \A i, j \in BubblesOf(m) : i = j

\* While the news of m is to come, or the history, m is not on the list; and an
\* answer brings no row whose news is to come.
Drawn ==
  \A m \in Messages : News(m) \notin crossed =>
    /\ AtMostOne(m)
    /\ Ahead(m) \/ Loading => BubblesOf(m) = {}
    /\ \A l \in loads : l.latest /\ m \in l.rows => ~Ahead(m)

\* After a new request it is the latest one, with no row as yet.
LEMMA LoadEmpties ==
  ASSUME loads \subseteq Load, NEW d \in Dialogs, NEW flush \in BOOLEAN,
         LoadChatHistory(d, flush)
  PROVE  /\ OneLatest'
         /\ \A l \in loads' : l.latest => l.rows = {}
         /\ \A m \in Messages : BubblesOf(m)' = {} /\ timers'[m] = 0
<1> DEFINE new == [dialog |-> d, flush |-> flush, latest |-> TRUE,
                   read |-> FALSE, rows |-> {}, dated |-> {}]
<1>1. loads' = {[l EXCEPT !.latest = FALSE] : l \in loads} \cup {new}
      /\ list' = << >> /\ timers' = [m \in Messages |-> 0]
  BY DEF LoadChatHistory, StopAllTTLTimers, NoTimers
<1>2. new.rows = {}
  OBVIOUS
<1>3. ASSUME NEW l \in loads PROVE [l EXCEPT !.latest = FALSE].latest = FALSE
  <2>1. l \in Load
    OBVIOUS
  <2>2. QED
    BY <2>1 DEF Load
<1> HIDE DEF new
<1>4. \A l \in loads' : l.latest => l = new
  BY <1>1, <1>3
<1>5. DOMAIN list' = {}
  BY <1>1
<1>6. QED
  BY <1>1, <1>2, <1>4, <1>5 DEF OneLatest, BubblesOf

\* What the server's read makes of a request.
LEMMA ReadKeeps ==
  ASSUME TypeOK, NEW l \in loads, ListMessages(l)
  PROVE  /\ loads' = (loads \ {l}) \cup {Read(l)}
         /\ Read(l).latest = l.latest
         /\ Read(l).rows = NewRows(l)
         /\ Read(l).dated = {m \in NewRows(l) : clock[m] # "none"}
         /\ \A m \in Messages : Same(m) /\ timers'[m] = timers[m]
         /\ crossed \subseteq crossed'
         /\ l.latest => \A m \in Messages : News(m) \in UnderWay => News(m) \in crossed'
<1>1. l \in Load
  BY DEF TypeOK
<1>2. /\ Read(l).latest = l.latest /\ Read(l).rows = NewRows(l)
      /\ Read(l).dated = {m \in NewRows(l) : clock[m] # "none"}
  BY <1>1 DEF Load, Read
<1>3. list' = list /\ timers' = timers
  BY DEF ListMessages, listVars
<1>4. crossed' = IF l.latest THEN crossed \cup {e \in UnderWay : e[1] = "message_new"}
                 ELSE crossed
  BY DEF ListMessages
<1>5. QED
  BY <1>2, <1>3, <1>4, ListMessagesReads DEF Same, Shown, BubblesOf, News

\* Every step leaves at most one request the latest.
LEMMA OneLatestStep == TypeOK /\ ScreenInv /\ OneLatest /\ [Next]_vars => OneLatest'
<1> SUFFICES ASSUME TypeOK, ScreenInv, OneLatest, [Next]_vars PROVE OneLatest'
  OBVIOUS
<1>1. CASE loads' \subseteq loads
  BY <1>1 DEF OneLatest
<1>2. ASSUME NEW l \in loads, ListMessages(l) PROVE OneLatest'
  <2>1. loads' = (loads \ {l}) \cup {Read(l)} /\ Read(l).latest = l.latest
    BY <1>2, ReadKeeps
  <2>2. QED
    BY <2>1 DEF OneLatest
<1>3. ASSUME NEW d \in Dialogs, NEW flush \in BOOLEAN, LoadChatHistory(d, flush)
      PROVE  OneLatest'
  <2>1. loads \subseteq Load
    BY DEF TypeOK
  <2>2. QED
    BY <2>1, <1>3, LoadEmpties
<1>4. QED
  BY <1>1, <1>2, <1>3, LoadsAfter

\* Hiding an expired bubble touches no other.
LEMMA TickDoes ==
  ASSUME TypeOK, NEW n \in Messages, HideExpiredBubble(n)
  PROVE  /\ \A m \in Messages : Same(m)
         /\ \A m \in Messages : m # n => timers'[m] = timers[m]
         /\ timers'[n] = 0 /\ timers[n] \in DOMAIN list
         /\ BubblesOf(n) \subseteq {timers[n]} => ~Shown(n)'
         /\ loads' = loads /\ crossed' = crossed
<1>1. /\ list \in Seq(Bubble) /\ DOMAIN list = 1..Len(list)
      /\ timers \in [Messages -> 0..Len(list)]
  BY LenProperties DEF TypeOK
<1>2. /\ timers[n] # 0 /\ list' = Hide(timers[n])
      /\ timers' = [timers EXCEPT ![n] = 0]
      /\ loads' = loads /\ crossed' = crossed
  BY DEF HideExpiredBubble
<1>3. timers[n] \in DOMAIN list
  BY <1>1, <1>2
<1>4. QED
  BY <1>1, <1>2, <1>3, HideSame

\* An event that comes beside a request has crossed it.
LEMMA HandleCrosses ==
  ASSUME HandleWSMessage
  PROVE  /\ loads' = loads /\ crossed \subseteq crossed'
         /\ Head(wire) \in UnderWay
         /\ Loading => Head(wire) \in crossed'
         /\ \A m \in Messages : Head(wire) = News(m) => Overtaken(m) \subseteq crossed'
BY DEF HandleWSMessage, UnderWay, Range, Loading, News

\* Every step keeps the bubbles at one for each message.
LEMMA DrawnStep ==
  TypeOK /\ ScreenInv /\ Told /\ OneLatest /\ Drawn /\ [Next]_vars => Drawn'
<1> SUFFICES ASSUME TypeOK, ScreenInv, Told, OneLatest, Drawn, [Next]_vars,
                    NEW m \in Messages, News(m) \notin crossed'
             PROVE  /\ AtMostOne(m)'
                    /\ Ahead(m)' \/ Loading' => BubblesOf(m)' = {}
                    /\ \A l \in loads' : l.latest /\ m \in l.rows => ~Ahead(m)'
  BY DEF Drawn
<1> DEFINE Goal == /\ AtMostOne(m)'
                   /\ Ahead(m)' \/ Loading' => BubblesOf(m)' = {}
                   /\ \A l \in loads' : l.latest /\ m \in l.rows => ~Ahead(m)'
<1> SUFFICES Goal
  OBVIOUS
<1>1. /\ Ahead(m)' => Ahead(m)
      /\ HandleWSMessage /\ Head(wire) = News(m) => ~Ahead(m)'
  BY ToldStep
<1>2. ASSUME News(m) \notin crossed
      PROVE  /\ AtMostOne(m)
             /\ Ahead(m) \/ Loading => BubblesOf(m) = {}
             /\ \A l \in loads : l.latest /\ m \in l.rows => ~Ahead(m)
  BY <1>2 DEF Drawn
<1>3. ASSUME BubblesOf(m)' = BubblesOf(m), loads' \subseteq loads,
             News(m) \notin crossed
      PROVE  Goal
  BY <1>1, <1>2, <1>3 DEF AtMostOne, Loading
<1>4. ASSUME NEW d \in Dialogs, NEW flush \in BOOLEAN, LoadChatHistory(d, flush)
      PROVE  Goal
  <2>1. loads \subseteq Load
    BY DEF TypeOK
  <2>2. BubblesOf(m)' = {} /\ \A l \in loads' : l.latest => l.rows = {}
    BY <2>1, <1>4, LoadEmpties
  <2>3. QED
    BY <2>2 DEF AtMostOne
<1>5. ASSUME NEW l \in loads, ListMessages(l) PROVE Goal
  <2>1. /\ loads' = (loads \ {l}) \cup {Read(l)} /\ Read(l).latest = l.latest
        /\ Read(l).rows = NewRows(l) /\ BubblesOf(m)' = BubblesOf(m)
        /\ News(m) \notin crossed
        /\ l.latest => News(m) \notin UnderWay
    BY <1>5, ReadKeeps DEF Same
  <2>2. Loading' => Loading
    BY <2>1 DEF Loading
  <2>3. l.latest /\ m \in NewRows(l) => ~Ahead(m)
    BY <2>1 DEF NewRows, Ahead
  <2>4. QED
    BY <2>1, <2>2, <2>3, <1>1, <1>2 DEF AtMostOne
<1>6. ASSUME NEW l \in loads, HistoryAnswer(l) PROVE Goal
  <2>1. loads' = loads \ {l} /\ crossed' = crossed
    BY <1>6 DEF HistoryAnswer
  <2>2. CASE m \notin Fresh(l)
    BY <2>1, <2>2, <1>3, <1>6, AnswerDraws DEF Same
  <2>3. CASE m \in Fresh(l)
    <3>1. l.latest /\ m \in l.rows
      BY <2>3 DEF Fresh, Stale
    <3>2. BubblesOf(m) = {} /\ ~Ahead(m)
      BY <3>1, <2>1, <1>2 DEF Loading
    <3>3. ~Loading'
      BY <3>1, <2>1 DEF Loading, OneLatest
    <3>4. AtMostOne(m)'
      BY <3>2, <2>3, <1>6, AnswerDraws DEF AtMostOne
    <3>5. QED
      BY <3>2, <3>3, <3>4, <1>1 DEF Loading
  <2>4. QED
    BY <2>2, <2>3
<1>7. CASE HandleWSMessage
  <2>1. /\ loads' = loads /\ News(m) \notin crossed
        /\ Head(wire) \in UnderWay
        /\ Head(wire) = News(m) => ~Loading
    BY <1>7, HandleCrosses
  <2>2. CASE Head(wire) # News(m)
    BY <2>1, <2>2, <1>3, <1>7, HandleDraws DEF Same
  <2>3. CASE Head(wire) = News(m)
    <3>1. BubblesOf(m) = {} /\ ~Ahead(m)' /\ ~Loading'
      BY <2>1, <2>3, <1>1, <1>2, <1>7 DEF Ahead, Loading
    <3>2. AtMostOne(m)'
      BY <3>1, <1>7, HandleDraws DEF AtMostOne
    <3>3. QED
      BY <3>1, <3>2
  <2>4. QED
    BY <2>2, <2>3
<1>8. ASSUME NEW n \in Messages, HideExpiredBubble(n) PROVE Goal
  BY <1>3, <1>8, TickDoes DEF Same
<1>9. CASE Quiet
  <2>1. BubblesOf(m)' = BubblesOf(m)
    BY <1>9 DEF Quiet, BubblesOf
  <2>2. QED
    BY <2>1, <1>3, <1>9 DEF Quiet
<1>10. QED
  BY <1>4, <1>5, <1>6, <1>7, <1>8, <1>9, ListSteps

BubbleInv == TypeOK /\ ScreenInv /\ Told /\ OneLatest /\ Drawn

\* The empty screen has nothing twice, and every step keeps it so.
LEMMA BubbleInvariant == (Init => BubbleInv) /\ (BubbleInv /\ [Next]_vars => BubbleInv')
<1>1. ASSUME Init PROVE BubbleInv
  <2>1. TypeOK /\ ScreenInv
    BY <1>1, TypeInit
  <2>2. owed = {} /\ wire = << >> /\ list = << >> /\ loads = {}
    BY <1>1 DEF Init
  <2>3. DOMAIN wire = {} /\ DOMAIN list = {}
    BY <2>2
  <2>4. Range(wire) = {} /\ UnderWay = {}
    BY <2>2, <2>3 DEF Range, UnderWay
  <2>5. Told
    BY <2>2, <2>3, <2>4 DEF Told
  <2>6. \A m \in Messages : BubblesOf(m) = {}
    BY <2>3 DEF BubblesOf
  <2>7. OneLatest /\ Drawn
    BY <2>2, <2>6 DEF OneLatest, Drawn, AtMostOne
  <2>8. QED
    BY <2>1, <2>5, <2>7 DEF BubbleInv
<1>2. ASSUME BubbleInv, [Next]_vars PROVE BubbleInv'
  BY <1>2, TypeStep, ScreenStep, ToldStep, OneLatestStep, DrawnStep DEF BubbleInv
<1>3. QED
  BY <1>1, <1>2

\* A message has one bubble, unless its news crossed the history request.
THEOREM OneBubbleEach == Spec => []OneBubble
<1>1. BubbleInv => OneBubble
  <2> SUFFICES ASSUME BubbleInv, NEW m \in Messages, News(m) \notin crossed
               PROVE  Cardinality(BubblesOf(m)) <= 1
    BY DEF OneBubble, News
  <2>1. AtMostOne(m)
    BY DEF BubbleInv, Drawn
  <2>2. CASE BubblesOf(m) = {}
    BY <2>2, FS_EmptySet
  <2>3. CASE BubblesOf(m) # {}
    <3>1. PICK i \in BubblesOf(m) : TRUE
      BY <2>3
    <3>2. BubblesOf(m) = {i}
      BY <3>1, <2>1 DEF AtMostOne
    <3>3. Cardinality(BubblesOf(m)) = 1
      BY <3>2, FS_Singleton, Zenon
    <3>4. QED
      BY <3>3
  <2>4. QED
    BY <2>2, <2>3
<1>2. QED
  BY <1>1, BubbleInvariant, PTL DEF Spec

-----------------------------------------------------------------------------
(* What has been removed leaves; what runs has a timer.                    *)

\* The client takes the events of an open chat, or asks for the history when it
\* comes back to it.
Listening == link = "open" /\ ~hidden /\ ~locked /\ current # NoDialog

\* What the event tells has happened.
Done(e) ==
  IF e[1] = "message_deleted" THEN life[e[2]] = "removed" ELSE clock[e[2]] # "none"

\* It has been handled, or the history that was read since makes up for it.
Silent(e) == Listening /\ Done(e) /\ e \notin UnderWay /\ e \notin crossed

\* A client that listens and did not has asked for the history.
LEMMA ListeningStep ==
  ASSUME TypeOK, ScreenInv, [Next]_vars, Listening'
  PROVE  Listening \/ \E d \in Dialogs, flush \in BOOLEAN : LoadChatHistory(d, flush)
<1> USE DEF serverVars, linkVars, lockVars, listVars, markVars, clientVars, Listening
<1>1. CASE UNCHANGED <<link, hidden, locked, current>>
  BY <1>1
<1>2. ASSUME NEW m \in Messages, Server(m) \/ HideExpiredBubble(m)
      PROVE  UNCHANGED <<link, hidden, locked, current>>
  BY <1>2 DEF Server, PeerPosts, StartTTL, MarkFails, TimeOut,
              RemoveMessage, HideExpiredBubble
<1>3. ASSUME NEW e \in owed, Send(e)
      PROVE  UNCHANGED <<link, hidden, locked, current>>
  BY <1>3 DEF Send
<1>4. ASSUME NEW l \in loads, ListMessages(l) \/ HistoryAnswer(l) \/ HistoryFails(l)
      PROVE  UNCHANGED <<link, hidden, locked, current>>
  BY <1>4 DEF ListMessages, HistoryAnswer, HistoryFails
<1>5. ASSUME HandleWSMessage \/ Register
      PROVE  UNCHANGED <<link, hidden, locked, current>>
  BY <1>5 DEF HandleWSMessage, Register
<1>6. ASSUME Break \/ DoReconnectWS PROVE FALSE
  BY <1>6 DEF Break, DoReconnectWS
<1>7. current # NoDialog => current \in Dialogs
  BY DEF TypeOK
<1>8. CASE Open
  BY <1>7, <1>8 DEF Open, Reloads
<1>9. CASE \E d \in Dialogs : ShowChat(d)
  BY <1>9 DEF ShowChat
<1>10. ASSUME BackFromChat \/ OnAppHidden PROVE FALSE
  BY <1>10 DEF BackFromChat, OnAppHidden
<1>11. CASE LoadHome
  BY <1>11 DEF LoadHome, ConnectFromHome
<1>12. ASSUME NEW long \in BOOLEAN, OnAppVisible(long)
       PROVE  \E d \in Dialogs : LoadChatHistory(d, TRUE)
  <2>1. ~ (long /\ screen \in AppScreens)
    BY <1>12 DEF OnAppVisible
  <2>2. ~locked /\ current # NoDialog
    BY <2>1, <1>12 DEF OnAppVisible
  <2>3. LoadChatHistory(current, TRUE)
    BY <2>1, <2>2, <1>12, Zenon DEF OnAppVisible
  <2>4. QED
    BY <2>2, <2>3, <1>7
<1>13. CASE UnlockAfterResume
  BY <1>13 DEF UnlockAfterResume, ScreenInv
<1>14. ASSUME UNCHANGED vars PROVE UNCHANGED <<link, hidden, locked, current>>
  BY <1>14 DEF vars
<1>15. QED
  BY <1>1, <1>2, <1>3, <1>4, <1>5, <1>6, <1>8, <1>9, <1>10, <1>11, <1>12, <1>13,
     <1>14 DEF Next, Answer, User

\* An event becomes silent by being handled, or by a new request.
LEMMA SilentStep ==
  ASSUME TypeOK, ScreenInv, [Next]_vars, NEW m \in Messages,
         NEW e \in {Started(m), Deletion(m)}, Silent(e)'
  PROVE  \/ Silent(e)
         \/ HandleWSMessage /\ Head(wire) = e
         \/ \E d \in Dialogs, flush \in BOOLEAN : LoadChatHistory(d, flush)
<1> USE DEF serverVars, linkVars, clientVars
<1> SUFFICES ASSUME ~ \E d \in Dialogs, flush \in BOOLEAN : LoadChatHistory(d, flush)
             PROVE  Silent(e) \/ (HandleWSMessage /\ Head(wire) = e)
  OBVIOUS
<1>0. /\ wire \in Seq(Event) /\ owed \subseteq Event /\ e \in Event
      /\ life \in [Messages -> {"absent", "live", "removed"}]
      /\ clock \in [Messages -> {"none", "running", "past"}]
      /\ e[2] = m
      /\ (e[1] = "message_deleted" /\ e = Deletion(m))
           \/ (e[1] = "message_ttl_started" /\ e = Started(m))
  BY DEF TypeOK, Started, Deletion, Event
<1>1. Listening
  BY ListeningStep DEF Silent
<1>2. crossed \subseteq crossed' /\ e \notin crossed'
  <2>1. crossed \subseteq crossed'
    <3>1. ASSUME NEW l \in loads, ListMessages(l) PROVE crossed \subseteq crossed'
      BY <3>1 DEF ListMessages
    <3>2. ASSUME NEW l \in loads, HistoryAnswer(l) PROVE crossed \subseteq crossed'
      BY <3>2 DEF HistoryAnswer
    <3>3. ASSUME HandleWSMessage PROVE crossed \subseteq crossed'
      BY <3>3, HandleCrosses
    <3>4. ASSUME NEW n \in Messages, HideExpiredBubble(n) PROVE crossed \subseteq crossed'
      BY <3>4, TickDoes
    <3>5. QED
      BY <3>1, <3>2, <3>3, <3>4, ListSteps DEF Quiet
  <2>2. QED
    BY <2>1 DEF Silent
<1>3. e \notin owed' /\ e \notin Range(wire') /\ Done(e)'
  BY DEF Silent, UnderWay
<1>4. ASSUME Done(e), e \notin owed, e \notin Range(wire) PROVE Silent(e)
  BY <1>1, <1>2, <1>4 DEF Silent, UnderWay
<1>5. ASSUME NEW n \in Messages, PeerPosts(n) \/ StartTTL(n) \/ RemoveMessage(n)
      PROVE  Silent(e)
  <2>1. owed \subseteq owed' /\ wire' = wire
    BY <1>5 DEF PeerPosts, StartTTL, RemoveMessage, Owe
  <2>2. CASE PeerPosts(n)
    <3>1. life[n] = "absent" /\ life' = [life EXCEPT ![n] = "live"] /\ clock' = clock
      BY <2>2 DEF PeerPosts
    <3>2. Done(e)
      BY <3>1, <1>0, <1>3 DEF Done
    <3>3. QED
      BY <3>2, <2>1, <1>3, <1>4
  <2>3. CASE StartTTL(n)
    <3>1. /\ clock' = [clock EXCEPT ![n] = "running"] /\ life' = life
          /\ Started(n) \in owed'
      BY <2>3 DEF StartTTL, Owe, Started
    <3>2. Done(e)
      BY <3>1, <1>0, <1>3 DEF Done
    <3>3. QED
      BY <3>2, <2>1, <1>3, <1>4
  <2>4. CASE RemoveMessage(n)
    <3>1. /\ life' = [life EXCEPT ![n] = "removed"] /\ clock' = clock
          /\ Deletion(n) \in owed'
      BY <2>4 DEF RemoveMessage, Owe, Deletion
    <3>2. Done(e)
      BY <3>1, <1>0, <1>3 DEF Done
    <3>3. QED
      BY <3>2, <2>1, <1>3, <1>4
  <2>5. QED
    BY <1>5, <2>2, <2>3, <2>4
<1>6. ASSUME NEW f \in owed, Send(f) PROVE Silent(e)
  <2>1. /\ owed' = owed \ {f} /\ life' = life /\ clock' = clock
        /\ wire' = IF registered THEN Append(wire, f) ELSE wire
        /\ ~registered /\ link = "open" => f \in crossed'
    BY <1>6 DEF Send
  <2>2. f \in Event
    BY <1>0
  <2>3. Range(wire) \subseteq Range(wire') /\ (registered => f \in Range(wire'))
    BY <2>1, <2>2, <1>0, AppendRange
  <2>4. f # e
    BY <2>1, <2>3, <1>1, <1>2, <1>3 DEF Listening
  <2>5. Done(e)
    BY <2>1, <1>3 DEF Done
  <2>6. QED
    BY <2>1, <2>3, <2>4, <2>5, <1>3, <1>4
<1>7. CASE HandleWSMessage
  <2>1. /\ wire # << >> /\ wire' = Tail(wire) /\ owed' = owed
        /\ life' = life /\ clock' = clock
    BY <1>7 DEF HandleWSMessage
  <2>2. Range(wire) = Range(wire') \cup {Head(wire)}
    BY <2>1, <1>0, TailRange
  <2>3. Done(e)
    BY <2>1, <1>3 DEF Done
  <2>4. QED
    BY <2>1, <2>2, <2>3, <1>3, <1>4, <1>7
<1>8. ~Break
  BY DEF Break, Silent, Listening
<1>9. CASE /\ UNCHANGED <<life, owed, wire>>
           /\ \A n \in Messages : clock[n] # clock'[n] => clock[n] # "none"
  <2>1. Done(e)
    BY <1>0, <1>3, <1>9 DEF Done
  <2>2. QED
    BY <2>1, <1>3, <1>4, <1>9
<1>10. QED
  BY <1>5, <1>6, <1>7, <1>8, <1>9, EventSteps

\* What was told removed is neither seen nor brought by the answer to come.
Gone ==
  \A m \in Messages :
    Silent(Deletion(m)) /\ News(m) \notin crossed =>
      /\ ~Shown(m)
      /\ \A l \in loads : l.latest => m \notin l.rows

\* A timer is one of a bubble of its message.
Pointing == \A m \in Messages : timers[m] # 0 => timers[m] \in BubblesOf(m)

\* What was told to run is timed, and so will be what the answer to come brings.
Timed ==
  \A m \in Messages :
    Silent(Started(m)) /\ News(m) \notin crossed =>
      /\ Shown(m) => timers[m] # 0
      /\ \A l \in loads : l.latest => m \notin l.rows \ l.dated

LeaveInv == BubbleInv /\ LoadsInv /\ Gone /\ Pointing /\ Timed

\* A timer stays one of its message.
LEMMA PointingStep == LeaveInv /\ [Next]_vars => Pointing'
<1> SUFFICES ASSUME LeaveInv, [Next]_vars, NEW m \in Messages, timers'[m] # 0
             PROVE  timers'[m] \in BubblesOf(m)'
  BY DEF Pointing
<1> USE DEF LeaveInv, BubbleInv
<1>1. timers[m] # 0 => timers[m] \in BubblesOf(m)
  BY DEF Pointing
<1>2. ASSUME timers'[m] = timers[m], BubblesOf(m) \subseteq BubblesOf(m)'
      PROVE  timers'[m] \in BubblesOf(m)'
  BY <1>1, <1>2
<1>3. ASSUME NEW d \in Dialogs, NEW flush \in BOOLEAN, LoadChatHistory(d, flush)
      PROVE  FALSE
  <2>1. loads \subseteq Load
    BY DEF TypeOK
  <2>2. QED
    BY <2>1, <1>3, LoadEmpties
<1>4. ASSUME NEW l \in loads, ListMessages(l) PROVE timers'[m] \in BubblesOf(m)'
  BY <1>2, <1>4, ReadKeeps DEF Same
<1>5. ASSUME NEW l \in loads, HistoryAnswer(l) PROVE timers'[m] \in BubblesOf(m)'
  BY <1>2, <1>5, AnswerDraws DEF Same
<1>6. CASE HandleWSMessage
  <2>1. BubblesOf(m) \subseteq BubblesOf(m)'
    BY <1>6, HandleDraws
  <2>2. CASE Head(wire) = Started(m)
    <3>1. Head(wire) # Deletion(m)
      BY <2>2 DEF Started, Deletion
    <3>2. QED
      BY <2>1, <2>2, <3>1, <1>2, <1>6, HandleDraws
  <2>3. CASE Head(wire) # Started(m)
    BY <2>1, <2>3, <1>2, <1>6, HandleDraws
  <2>4. QED
    BY <2>2, <2>3
<1>7. ASSUME NEW n \in Messages, HideExpiredBubble(n)
      PROVE  timers'[m] \in BubblesOf(m)'
  BY <1>2, <1>7, TickDoes DEF Same
<1>8. CASE Quiet
  BY <1>2, <1>8 DEF Quiet, BubblesOf, NoTimers
<1>9. QED
  BY <1>3, <1>4, <1>5, <1>6, <1>7, <1>8, ListSteps

\* The news of a message does not come after an event of it that was silent.
LEMMA NotAfter ==
  ASSUME TypeOK, HandleWSMessage, NEW m \in Messages,
         NEW e \in {Started(m), Deletion(m)}, Silent(e), e \notin crossed'
  PROVE  Head(wire) # News(m)
<1> SUFFICES ASSUME Head(wire) = News(m) PROVE FALSE
  OBVIOUS
<1>1. e \in Overtaken(m)
  BY DEF Silent, Done, Overtaken, Event, Started, Deletion
<1>2. QED
  BY <1>1, HandleCrosses

\* What was told removed stays away.
LEMMA GoneStep == LeaveInv /\ [Next]_vars => Gone'
<1> SUFFICES ASSUME LeaveInv, [Next]_vars, NEW m \in Messages,
                    Silent(Deletion(m))', News(m) \notin crossed'
             PROVE  ~Shown(m)' /\ \A l \in loads' : l.latest => m \notin l.rows
  BY DEF Gone, News, Deletion
<1> USE DEF LeaveInv, BubbleInv
<1> DEFINE Goal == ~Shown(m)' /\ \A l \in loads' : l.latest => m \notin l.rows
<1> SUFFICES Goal
  OBVIOUS
<1>1. ASSUME NEW d \in Dialogs, NEW flush \in BOOLEAN, LoadChatHistory(d, flush)
      PROVE  Goal
  <2>1. loads \subseteq Load
    BY DEF TypeOK
  <2>2. BubblesOf(m)' = {} /\ \A l \in loads' : l.latest => l.rows = {}
    BY <2>1, <1>1, LoadEmpties
  <2>3. QED
    BY <2>2 DEF Shown
<1>2. \/ Silent(Deletion(m))
      \/ HandleWSMessage /\ Head(wire) = Deletion(m)
      \/ \E d \in Dialogs, flush \in BOOLEAN : LoadChatHistory(d, flush)
  BY SilentStep
<1>3. ASSUME HandleWSMessage, Head(wire) = Deletion(m) PROVE Goal
  <2>1. News(m) \notin crossed /\ ~Loading /\ loads' = loads
    BY <1>3, HandleCrosses DEF Silent
  <2>2. AtMostOne(m)
    BY <2>1 DEF Drawn
  <2>3. QED
    BY <2>1, <2>2, <1>3, HandleDraws DEF AtMostOne, Loading
<1> SUFFICES ASSUME Silent(Deletion(m)) PROVE Goal
  BY <1>1, <1>2, <1>3
<1>4. ASSUME News(m) \notin crossed
      PROVE  ~Shown(m) /\ \A l \in loads : l.latest => m \notin l.rows
  BY <1>4 DEF Gone
<1>5. ASSUME Shown(m)' => Shown(m), loads' \subseteq loads, crossed \subseteq crossed'
      PROVE  Goal
  BY <1>4, <1>5
<1>6. ASSUME NEW l \in loads, ListMessages(l) PROVE Goal
  <2>1. /\ loads' = (loads \ {l}) \cup {Read(l)} /\ Read(l).latest = l.latest
        /\ Read(l).rows = NewRows(l) /\ crossed \subseteq crossed'
        /\ Shown(m)' => Shown(m)
    BY <1>6, ReadKeeps DEF Same
  <2>2. m \notin NewRows(l)
    BY DEF Silent, Done, Deletion, NewRows
  <2>3. QED
    BY <2>1, <2>2, <1>4
<1>7. ASSUME NEW l \in loads, HistoryAnswer(l) PROVE Goal
  <2>1. loads' = loads \ {l} /\ crossed' = crossed
    BY <1>7 DEF HistoryAnswer
  <2>2. m \notin Fresh(l)
    BY <2>1, <1>4 DEF Fresh, Stale
  <2>3. QED
    BY <2>1, <2>2, <1>5, <1>7, AnswerDraws DEF Same
<1>8. CASE HandleWSMessage
  <2>1. Head(wire) # News(m)
    BY <1>8, NotAfter DEF Silent
  <2>2. QED
    BY <2>1, <1>5, <1>8, HandleCrosses, HandleDraws DEF Same
<1>9. ASSUME NEW n \in Messages, HideExpiredBubble(n) PROVE Goal
  BY <1>5, <1>9, TickDoes DEF Same
<1>10. CASE Quiet
  BY <1>5, <1>10 DEF Quiet, Shown, BubblesOf
<1>11. QED
  BY <1>1, <1>6, <1>7, <1>8, <1>9, <1>10, ListSteps

\* What was told to run stays timed.
LEMMA TimedStep == LeaveInv /\ [Next]_vars => Timed'
<1> SUFFICES ASSUME LeaveInv, [Next]_vars, NEW m \in Messages,
                    Silent(Started(m))', News(m) \notin crossed'
             PROVE  /\ Shown(m)' => timers'[m] # 0
                    /\ \A l \in loads' : l.latest => m \notin l.rows \ l.dated
  BY DEF Timed, News, Started
<1> USE DEF LeaveInv, BubbleInv
<1> DEFINE Goal == /\ Shown(m)' => timers'[m] # 0
                   /\ \A l \in loads' : l.latest => m \notin l.rows \ l.dated
<1> SUFFICES Goal
  OBVIOUS
<1>1. ASSUME NEW d \in Dialogs, NEW flush \in BOOLEAN, LoadChatHistory(d, flush)
      PROVE  Goal
  <2>1. loads \subseteq Load
    BY DEF TypeOK
  <2>2. BubblesOf(m)' = {} /\ \A l \in loads' : l.latest => l.rows = {}
    BY <2>1, <1>1, LoadEmpties
  <2>3. QED
    BY <2>2 DEF Shown
<1>2. \/ Silent(Started(m))
      \/ HandleWSMessage /\ Head(wire) = Started(m)
      \/ \E d \in Dialogs, flush \in BOOLEAN : LoadChatHistory(d, flush)
  BY SilentStep
<1>3. ASSUME HandleWSMessage, Head(wire) = Started(m) PROVE Goal
  <2>1. ~Loading /\ loads' = loads
    BY <1>3, HandleCrosses DEF Silent
  <2>2. Same(m)
    BY <1>3, HandleDraws DEF News, Started
  <2>3. Shown(m)' => timers'[m] # 0
    BY <2>2, <1>3, HandleDraws DEF Same, Shown
  <2>4. QED
    BY <2>1, <2>3 DEF Loading
<1> SUFFICES ASSUME Silent(Started(m)) PROVE Goal
  BY <1>1, <1>2, <1>3
<1>4. ASSUME News(m) \notin crossed
      PROVE  /\ Shown(m) => timers[m] # 0
             /\ \A l \in loads : l.latest => m \notin l.rows \ l.dated
  BY <1>4 DEF Timed
<1>5. ASSUME Shown(m)' => Shown(m), timers'[m] = timers[m], loads' \subseteq loads,
             crossed \subseteq crossed'
      PROVE  Goal
  BY <1>4, <1>5
<1>6. ASSUME NEW l \in loads, ListMessages(l) PROVE Goal
  <2>1. /\ loads' = (loads \ {l}) \cup {Read(l)} /\ Read(l).latest = l.latest
        /\ Read(l).rows = NewRows(l) /\ crossed \subseteq crossed'
        /\ Read(l).dated = {n \in NewRows(l) : clock[n] # "none"}
        /\ (Shown(m)' => Shown(m)) /\ timers'[m] = timers[m]
    BY <1>6, ReadKeeps DEF Same
  <2>2. clock[m] # "none"
    BY DEF Silent, Done, Started
  <2>3. QED
    BY <2>1, <2>2, <1>4
<1>7. ASSUME NEW l \in loads, HistoryAnswer(l) PROVE Goal
  <2>1. loads' = loads \ {l} /\ crossed' = crossed
    BY <1>7 DEF HistoryAnswer
  <2>2. CASE m \notin Fresh(l)
    BY <2>1, <2>2, <1>5, <1>7, AnswerDraws DEF Same
  <2>3. CASE m \in Fresh(l)
    <3>1. m \in l.dated
      BY <2>1, <2>3, <1>4 DEF Fresh, Stale
    <3>2. timers'[m] # 0
      BY <3>1, <2>3, <1>7, AnswerDraws
    <3>3. QED
      BY <3>2, <2>1, <1>4
  <2>4. QED
    BY <2>2, <2>3
<1>8. CASE HandleWSMessage
  <2>1. Head(wire) # News(m)
    BY <1>8, NotAfter DEF Silent
  <2>2. Same(m) /\ loads' = loads /\ crossed \subseteq crossed'
    BY <2>1, <1>8, HandleCrosses, HandleDraws
  <2>3. CASE timers'[m] = timers[m]
    BY <2>2, <2>3, <1>5 DEF Same
  <2>4. CASE Head(wire) = Deletion(m)
    <3>1. AtMostOne(m)
      BY <2>2 DEF Drawn
    <3>2. ~Shown(m)'
      BY <2>4, <3>1, <1>8, HandleDraws DEF AtMostOne
    <3>3. QED
      BY <2>2, <3>2, <1>4
  <2>5. QED
    BY <2>3, <2>4, <1>3, <1>8, HandleDraws
<1>9. ASSUME NEW n \in Messages, HideExpiredBubble(n) PROVE Goal
  <2>1. CASE n # m
    BY <2>1, <1>5, <1>9, TickDoes DEF Same
  <2>2. CASE n = m
    <3>1. News(m) \notin crossed /\ loads' = loads /\ timers[m] # 0
      BY <2>2, <1>9, TickDoes DEF HideExpiredBubble
    <3>2. BubblesOf(m) \subseteq {timers[m]}
      BY <3>1 DEF Drawn, AtMostOne, Pointing
    <3>3. ~Shown(m)'
      BY <2>2, <3>2, <1>9, TickDoes
    <3>4. QED
      BY <3>1, <3>3, <1>4
  <2>3. QED
    BY <2>1, <2>2
<1>10. CASE Quiet
  <2>1. timers' = timers
    BY <1>10 DEF Quiet, Silent, Listening
  <2>2. QED
    BY <2>1, <1>5, <1>10 DEF Quiet, Shown, BubblesOf
<1>11. QED
  BY <1>1, <1>6, <1>7, <1>8, <1>9, <1>10, ListSteps

\* The empty screen owes nothing, and every step keeps it so.
LEMMA LeaveInvariant == (Init => LeaveInv) /\ (LeaveInv /\ [Next]_vars => LeaveInv')
<1>1. ASSUME Init PROVE LeaveInv
  <2>1. BubbleInv
    BY <1>1, BubbleInvariant
  <2>2. link = "connecting" /\ loads = {} /\ timers = NoTimers
    BY <1>1 DEF Init
  <2>3. Gone /\ Timed
    BY <2>2 DEF Gone, Timed, Silent, Listening
  <2>4. Pointing /\ LoadsInv
    BY <2>2 DEF Pointing, NoTimers, LoadsInv
  <2>5. QED
    BY <2>1, <2>3, <2>4 DEF LeaveInv
<1>2. ASSUME LeaveInv, [Next]_vars PROVE LeaveInv'
  <2>1. BubbleInv'
    BY <1>2, BubbleInvariant DEF LeaveInv
  <2>2. LoadsInv'
    BY <1>2, LoadsStep DEF LeaveInv, BubbleInv
  <2>3. Gone' /\ Pointing' /\ Timed'
    BY <1>2, GoneStep, PointingStep, TimedStep
  <2>4. QED
    BY <2>1, <2>2, <2>3 DEF LeaveInv
<1>3. QED
  BY <1>1, <1>2

\* What the user looks at when all is settled has been told everything.
LEMMA SettledTold ==
  ASSUME LeaveInv, Settled, NEW m \in Messages, Displayed(m)
  PROVE  Listening /\ UnderWay = {} /\ Shown(m)
<1>1. screen = "chat" /\ link = "open" /\ ~hidden /\ owed = {} /\ wire = << >>
  BY DEF Settled, Displayed
<1>2. ~locked /\ current # NoDialog
  BY <1>1, ScreenAssumption DEF LeaveInv, BubbleInv, ScreenInv
<1>3. DOMAIN wire = {}
  BY <1>1
<1>4. Range(wire) = {}
  BY <1>3 DEF Range
<1>5. QED
  BY <1>1, <1>2, <1>4 DEF Listening, UnderWay, Displayed, Shown

\* Once all is settled a removed message is not on the screen, unless the
\* history request crossed its news or its removal.
THEOREM RemovedOnesLeave == Spec => []RemovedLeaves
<1>1. LeaveInv => RemovedLeaves
  <2> SUFFICES ASSUME LeaveInv, Settled, NEW m \in Messages, Displayed(m),
                      life[m] = "removed",
                      News(m) \notin crossed, Deletion(m) \notin crossed
               PROVE  FALSE
    BY DEF RemovedLeaves, Crossed, News, Deletion
  <2>1. Listening /\ UnderWay = {} /\ Shown(m)
    BY SettledTold
  <2>2. Silent(Deletion(m))
    BY <2>1 DEF Silent, Done, Deletion
  <2>3. QED
    BY <2>1, <2>2 DEF LeaveInv, Gone
<1>2. QED
  BY <1>1, LeaveInvariant, PTL DEF Spec

\* Once all is settled a message on the screen whose deadline runs has a timer,
\* unless the history request crossed its news or the start of its clock.
THEOREM TimersKeepRunning == Spec => []TimersRun
<1>1. LeaveInv => TimersRun
  <2> SUFFICES ASSUME LeaveInv, Settled, NEW m \in Messages, Displayed(m),
                      clock[m] # "none", timers[m] = 0,
                      News(m) \notin crossed, Started(m) \notin crossed
               PROVE  FALSE
    BY DEF TimersRun, Crossed, News, Started
  <2>1. Listening /\ UnderWay = {} /\ Shown(m)
    BY SettledTold
  <2>2. Silent(Started(m))
    BY <2>1 DEF Silent, Done, Started
  <2>3. QED
    BY <2>1, <2>2 DEF LeaveInv, Timed
<1>2. QED
  BY <1>1, LeaveInvariant, PTL DEF Spec
=============================================================================
