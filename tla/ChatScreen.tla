------------------------------ MODULE ChatScreen ------------------------------
(***************************************************************************)
(* The chat screen of the mobile client (mobile/src/main.ts): what the     *)
(* list of bubbles shows, while history answers, WebSocket events, TTL     *)
(* timers, the resume lock and the reconnections of the socket run into    *)
(* each other.                                                             *)
(*                                                                         *)
(* JavaScript runs a callback to its end, so an action is a callback: what *)
(* stands between two awaits.  Reads of the local storage are not seen by  *)
(* other callbacks and belong to the callback that awaits them.  The       *)
(* server (services/chat, hub, expirer) is reduced to what the client can  *)
(* tell of it.  The user is signed in, and every message is the peer's:    *)
(* signing in and out, sending and deleting one's own messages, and the    *)
(* service worker's open_dialog are left out.                              *)
(***************************************************************************)
EXTENDS Integers, FiniteSets, Sequences, SequencesExt

CONSTANTS
  Dialogs,
  NoDialog,
  Messages,
  DialogOf,   \* DialogOf[m]: the dialog of m
  MaxLoads,   \* bound: history requests under way at once
  MaxFaults   \* bound: connections that break and requests that fail

ASSUME ScreenAssumption ==
  /\ NoDialog \notin Dialogs
  /\ DialogOf \in [Messages -> Dialogs]
  /\ IsFiniteSet(Messages)
  /\ MaxLoads \in Nat \ {0}
  /\ MaxFaults \in Nat

VARIABLES
  life,       \* on the server: "absent", "live" or "removed"
  clock,      \* expires_at: "none", "running" or "past"
  owed,       \* events whose statement is done and that are not sent yet
  link,       \* ws: "off", "waiting" (timer), "connecting" or "open"
  registered, \* the hub knows the connection
  wire,       \* events on the connection, in order
  screen,     \* the active screen
  current,    \* currentDialogId
  hidden,     \* document.hidden
  hiddenAt,   \* hiddenAt is set
  locked,     \* appLocked
  before,     \* screenBeforeLock, dialogBeforeLock
  list,       \* the bubbles of messages-list
  timers,     \* ttlTimers: the bubble each interval hides, 0 without one
  pending,    \* pendingMarkRead
  asked,      \* markRead calls under way, of messages not read before
  unmarked,   \* for the properties: messages whose last markRead call has failed
  loads,      \* getMessages calls under way
  crossed,    \* for the properties: events the open list may have missed, or may
              \* bring a second time, because they crossed the history request
  faults

serverVars == <<life, clock, owed>>
linkVars   == <<link, registered, wire>>
lockVars   == <<hidden, hiddenAt, locked, before>>
listVars   == <<list, timers>>
markVars   == <<pending, asked, unmarked>>
vars == <<serverVars, linkVars, screen, current, lockVars, listVars, markVars,
          loads, crossed, faults>>

AppScreens == {"home", "chat"}
Bubble == [msg : Messages, from : {"history", "live"}, shown : BOOLEAN]
Load   == [dialog : Dialogs, flush : BOOLEAN, latest : BOOLEAN,
           read : BOOLEAN, rows : SUBSET Messages, dated : SUBSET Messages]
Event  == {"message_new", "message_ttl_started", "message_deleted"} \X Messages

NoTimers == [m \in Messages |-> 0]
NoLock   == [screen |-> "home", dialog |-> NoDialog]

TypeOK ==
  /\ life \in [Messages -> {"absent", "live", "removed"}]
  /\ clock \in [Messages -> {"none", "running", "past"}]
  /\ owed \subseteq Event
  /\ link \in {"off", "waiting", "connecting", "open"}
  /\ registered \in BOOLEAN
  /\ wire \in Seq(Event)
  /\ screen \in AppScreens \cup {"unlock"}
  /\ current \in Dialogs \cup {NoDialog}
  /\ <<hidden, hiddenAt, locked>> \in BOOLEAN \X BOOLEAN \X BOOLEAN
  /\ before \in [screen : AppScreens, dialog : Dialogs \cup {NoDialog}]
  /\ list \in Seq(Bubble)
  /\ timers \in [Messages -> 0..Len(list)]
  /\ pending \subseteq Messages
  /\ asked \subseteq Messages
  /\ unmarked \subseteq Messages
  /\ loads \subseteq Load
  /\ crossed \subseteq Event
  /\ faults \in 0..MaxFaults

\* Signed in, on the list of dialogs, the socket being opened.
Init ==
  /\ life = [m \in Messages |-> "absent"]
  /\ clock = [m \in Messages |-> "none"]
  /\ owed = {}
  /\ link = "connecting"
  /\ registered = FALSE
  /\ wire = << >>
  /\ screen = "home"
  /\ current = NoDialog
  /\ hidden = FALSE
  /\ hiddenAt = FALSE
  /\ locked = FALSE
  /\ before = NoLock
  /\ list = << >>
  /\ timers = NoTimers
  /\ pending = {}
  /\ asked = {}
  /\ unmarked = {}
  /\ loads = {}
  /\ crossed = {}
  /\ faults = 0

Fault == faults < MaxFaults /\ faults' = faults + 1
-----------------------------------------------------------------------------
(* The server, as the client sees it.                                      *)

clientVars == <<screen, current, lockVars, listVars, markVars, loads, faults>>

Owe(type, m) == owed' = owed \cup {<<type, m>>}

\* The peer's message is stored.
PeerPosts(m) ==
  /\ life[m] = "absent"
  /\ life' = [life EXCEPT ![m] = "live"]
  /\ Owe("message_new", m)
  /\ UNCHANGED <<clock, linkVars, clientVars, crossed>>

\* MarkRead: the first read starts the timer.
StartTTL(m) ==
  /\ life[m] = "live"
  /\ clock[m] = "none"
  /\ m \in asked
  /\ clock' = [clock EXCEPT ![m] = "running"]
  /\ asked' = asked \ {m}
  /\ Owe("message_ttl_started", m)
  /\ UNCHANGED <<life, linkVars, screen, current, lockVars, listVars, pending,
                 unmarked, loads, faults, crossed>>

\* The call does not get through, or the message is gone (404): the rejection is
\* caught and dropped, and nothing calls again before the history is loaded.
MarkFails(m) ==
  /\ m \in asked
  /\ IF life[m] = "removed" THEN UNCHANGED faults ELSE Fault
  /\ asked' = asked \ {m}
  /\ unmarked' = unmarked \cup {m}
  /\ UNCHANGED <<serverVars, linkVars, screen, current, lockVars, listVars,
                 pending, loads, crossed>>

\* The expirer removes it, or its author does.
RemoveMessage(m) ==
  /\ life[m] = "live"
  /\ life' = [life EXCEPT ![m] = "removed"]
  /\ Owe("message_deleted", m)
  /\ UNCHANGED <<clock, linkVars, clientVars, crossed>>

\* Hub.Send, some time after the statement.  What is sent while the socket is open
\* and not yet registered is lost, and no later reload makes up for it.
Send(e) ==
  /\ e \in owed
  /\ owed' = owed \ {e}
  /\ wire' = IF registered THEN Append(wire, e) ELSE wire
  /\ crossed' = IF ~registered /\ link = "open" THEN crossed \cup {e} ELSE crossed
  /\ UNCHANGED <<life, clock, link, registered, clientVars>>

TimeOut(m) ==
  /\ clock[m] = "running"
  /\ clock' = [clock EXCEPT ![m] = "past"]
  /\ UNCHANGED <<life, owed, linkVars, clientVars, crossed>>
-----------------------------------------------------------------------------
(* History: loadChatHistory up to its await, the server's read, the answer. *)

StopAllTTLTimers == NoTimers

\* The new request makes the ones under way stale (++chatHistoryGen).
LoadChatHistory(d, flush) ==
  /\ Cardinality(loads) < MaxLoads
  /\ loads' = {[l EXCEPT !.latest = FALSE] : l \in loads}
                \cup {[dialog |-> d, flush |-> flush, latest |-> TRUE,
                       read |-> FALSE, rows |-> {}, dated |-> {}]}
  /\ list' = << >>
  /\ timers' = StopAllTTLTimers
  /\ crossed' = {}

NoLoad == UNCHANGED <<loads, listVars, crossed>>

UnderWay == owed \cup Range(wire)

\* ListMessages: the live messages of the dialog, with their expires_at.
ListMessages(l) ==
  /\ ~l.read
  /\ LET rows == {m \in Messages : DialogOf[m] = l.dialog /\ life[m] = "live"}
     IN  loads' = (loads \ {l}) \cup
                    {[l EXCEPT !.read  = TRUE,
                               !.rows  = rows,
                               !.dated = {m \in rows : clock[m] # "none"}]}
  /\ crossed' = IF l.latest THEN crossed \cup {e \in UnderWay : e[1] = "message_new"}
                            ELSE crossed
  /\ UNCHANGED <<serverVars, linkVars, screen, current, lockVars, listVars,
                 markVars, faults>>

\* Mutants of Stale: no check; only the dialog is compared.
NeverStale(l)  == FALSE
OtherDialog(l) == current # l.dialog

Stale(l) == ~l.latest \/ current # l.dialog

\* Mutant of MayFlush: flushPendingMarkRead does not look at the lock.
AlwaysFlush(l) == l.flush

MayFlush(l) == l.flush /\ ~locked

\* tryMarkRead for the messages of seen, then flushPendingMarkRead if flush.
MarkRead(seen, flush) ==
  LET now   == IF hidden \/ locked THEN {} ELSE seen
      later == pending \cup (seen \ now)
      calls == IF flush THEN now \cup later ELSE now
  IN  /\ asked' = asked \cup {m \in calls : clock[m] = "none"}
      /\ unmarked' = unmarked \ calls
      /\ pending' = IF flush THEN {} ELSE later

\* Mutant of Unread: messages of the history are not marked.
NoneUnread(rows, dated) == {}

Unread(rows, dated) == rows \ dated

\* The rows that are rendered: a stale answer is dropped, and so is a row that
\* has timed out.
Fresh(l) ==
  {m \in l.rows : ~Stale(l) /\ ~(m \in l.dated /\ clock[m] = "past")}

Bubbles(rows) ==
  [i \in 1..Cardinality(rows) |->
     [msg |-> SetToSeq(rows)[i], from |-> "history", shown |-> TRUE]]

Position(rows, m) ==
  CHOOSE i \in 1..Cardinality(rows) : SetToSeq(rows)[i] = m

\* They go below what the list holds by now; a row with a deadline gets an
\* interval.
HistoryAnswer(l) ==
  /\ l.read
  /\ loads' = loads \ {l}
  /\ list' = list \o Bubbles(Fresh(l))
  /\ timers' = [m \in Messages |->
                  IF m \in Fresh(l) \cap l.dated
                  THEN Len(list) + Position(Fresh(l), m) ELSE timers[m]]
  /\ MarkRead(Unread(Fresh(l), l.dated), MayFlush(l))
  /\ UNCHANGED <<serverVars, linkVars, screen, current, lockVars,
                 crossed, faults>>

\* The error is logged; what follows the await of the caller runs all the same.
HistoryFails(l) ==
  /\ Fault
  /\ loads' = loads \ {l}
  /\ MarkRead({}, MayFlush(l))
  /\ UNCHANGED <<serverVars, linkVars, screen, current, lockVars, listVars,
                 crossed>>
-----------------------------------------------------------------------------
(* Events: they find the list as it is when they arrive.                   *)

BubblesOf(m) == {i \in DOMAIN list : list[i].msg = m}

\* querySelector: the first bubble of m, 0 without one.
FirstBubble(m) ==
  IF BubblesOf(m) = {} THEN 0
  ELSE CHOOSE i \in BubblesOf(m) : \A j \in BubblesOf(m) : i <= j

Hide(i) == [list EXCEPT ![i].shown = FALSE]

AppendBubble(m) ==
  list' = Append(list, [msg |-> m, from |-> "live", shown |-> TRUE])

OnMessageNew(m) ==
  IF current = DialogOf[m]
  THEN AppendBubble(m) /\ MarkRead({m}, FALSE) /\ UNCHANGED timers
  ELSE UNCHANGED <<listVars, markVars>>

\* Mutant of OnTTLStarted: only a timer that runs is set anew.
RestartOnly(m) == UNCHANGED <<listVars, markVars>>

\* startTTLTimer hides a bubble at once when the deadline has passed, and
\* sets the interval all the same.
OnTTLStarted(m) ==
  LET i == FirstBubble(m)
  IN  /\ timers' = IF i = 0 THEN timers ELSE [timers EXCEPT ![m] = i]
      /\ list' = IF i # 0 /\ clock[m] = "past" THEN Hide(i) ELSE list
      /\ UNCHANGED markVars

OnMessageDeleted(m) ==
  LET i == FirstBubble(m)
  IN  /\ timers' = [timers EXCEPT ![m] = 0]
      /\ list' = IF i # 0 THEN Hide(i) ELSE list
      /\ UNCHANGED markVars

\* Events of m that went before the news of m.
Overtaken(m) ==
  {e \in Event : /\ e[2] = m
                /\ \/ e[1] = "message_ttl_started" /\ clock[m] # "none"
                   \/ e[1] = "message_deleted" /\ life[m] = "removed"
                /\ e \notin UnderWay}

HandleWSMessage ==
  /\ link = "open"
  /\ wire # << >>
  /\ wire' = Tail(wire)
  /\ LET e == Head(wire)
         m == e[2]
     IN  /\ CASE e[1] = "message_new"         -> OnMessageNew(m)
              [] e[1] = "message_ttl_started" -> OnTTLStarted(m)
              [] e[1] = "message_deleted"     -> OnMessageDeleted(m)
         /\ crossed' = crossed
                         \cup (IF \E l \in loads : l.latest THEN {e} ELSE {})
                         \cup (IF e[1] = "message_new" THEN Overtaken(m) ELSE {})
  /\ UNCHANGED <<serverVars, link, registered, screen, current, lockVars, loads,
                 faults>>

\* A tick of the interval after the deadline.
HideExpiredBubble(m) ==
  /\ timers[m] # 0
  /\ clock[m] = "past"
  /\ list' = Hide(timers[m])
  /\ timers' = [timers EXCEPT ![m] = 0]
  /\ UNCHANGED <<serverVars, linkVars, screen, current, lockVars, markVars,
                 loads, crossed, faults>>
-----------------------------------------------------------------------------
(* The socket.                                                             *)

Register ==
  /\ link \in {"connecting", "open"}
  /\ ~registered
  /\ registered' = TRUE
  /\ UNCHANGED <<serverVars, link, wire, clientVars, crossed>>

\* Mutant of Reloads: what has been missed is not fetched.
NoReload == FALSE

Reloads == current # NoDialog /\ ~locked /\ ~hidden

Open ==
  /\ link = "connecting"
  /\ link' = "open"
  /\ IF Reloads THEN LoadChatHistory(current, FALSE) ELSE NoLoad
  /\ UNCHANGED <<serverVars, registered, wire, screen, current, lockVars,
                 markVars, faults>>

\* The connection is gone: the close event sets the timer of three seconds.
Break ==
  /\ link \in {"connecting", "open"}
  /\ Fault
  /\ link' = "waiting"
  /\ registered' = FALSE
  /\ wire' = << >>
  /\ UNCHANGED <<serverVars, screen, current, lockVars, listVars, markVars,
                 loads, crossed>>

\* doReconnectWS: ensureFreshAccess gives a token; or it throws, because the
\* access token has expired and the PIN is not in memory (locked) or the server
\* is not reached.  Then nothing sets the timer again.
DoReconnectWS ==
  /\ link = "waiting"
  /\ \/ link' = "connecting" /\ UNCHANGED faults
     \/ link' = "off" /\ IF locked THEN UNCHANGED faults ELSE Fault
  /\ UNCHANGED <<serverVars, registered, wire, screen, current, lockVars,
                 listVars, markVars, loads, crossed>>

\* connectWS from loadHome.
ConnectFromHome ==
  /\ link' \in IF link \in {"off", "waiting"} THEN {"connecting", link} ELSE {link}
  /\ IF link' = link /\ link \in {"off", "waiting"} THEN Fault ELSE UNCHANGED faults
  /\ UNCHANGED <<registered, wire>>
-----------------------------------------------------------------------------
(* The user: dialogs, leaving the app and coming back, the lock.           *)

ShowChat(d) ==
  /\ screen = "home"
  /\ ~hidden
  /\ screen' = "chat"
  /\ current' = d
  /\ LoadChatHistory(d, FALSE)
  /\ UNCHANGED <<serverVars, linkVars, lockVars, markVars, faults>>

BackFromChat ==
  /\ screen = "chat"
  /\ ~hidden
  /\ screen' = "home"
  /\ current' = NoDialog
  /\ timers' = StopAllTTLTimers
  /\ pending' = {}
  /\ ConnectFromHome
  /\ UNCHANGED <<serverVars, lockVars, list, asked, unmarked, loads, crossed>>

\* The refresh button of the list of dialogs.
LoadHome ==
  /\ screen = "home"
  /\ ~hidden
  /\ ConnectFromHome
  /\ UNCHANGED <<serverVars, screen, current, lockVars, listVars, markVars,
                 loads, crossed>>

OnAppHidden ==
  /\ ~hidden
  /\ hidden' = TRUE
  /\ hiddenAt' = (hiddenAt \/ (~locked /\ screen \in AppScreens))
  /\ UNCHANGED <<serverVars, linkVars, screen, current, locked, before, listVars,
                 markVars, loads, crossed, faults>>

\* long: the app was away for PIN_LOCK_GRACE_MS.
OnAppVisible(long) ==
  /\ hidden
  /\ hidden' = FALSE
  /\ long => hiddenAt /\ ~locked
  /\ hiddenAt' = (hiddenAt /\ locked)
  /\ IF long /\ screen \in AppScreens
     THEN /\ locked' = TRUE
          /\ before' = [screen |-> screen, dialog |-> current]
          /\ screen' = "unlock"
          /\ NoLoad
     ELSE /\ UNCHANGED <<locked, before, screen>>
          /\ IF ~locked /\ current # NoDialog
             THEN LoadChatHistory(current, TRUE) ELSE NoLoad
  /\ UNCHANGED <<serverVars, linkVars, current, markVars, faults>>

Unlocked == locked' = FALSE /\ hiddenAt' = FALSE /\ before' = NoLock

\* The PIN was right and rotateSession has succeeded: unlockAfterResume.
UnlockAfterResume ==
  /\ screen = "unlock"
  /\ ~hidden
  /\ Unlocked
  /\ screen' = before.screen
  /\ IF before.screen = "chat"
     THEN /\ current' = before.dialog
          /\ LoadChatHistory(before.dialog, TRUE)
          /\ UNCHANGED <<linkVars, faults>>
     ELSE UNCHANGED current /\ NoLoad /\ ConnectFromHome
  /\ UNCHANGED <<serverVars, hidden, markVars>>

-----------------------------------------------------------------------------
Server(m) ==
  PeerPosts(m) \/ StartTTL(m) \/ MarkFails(m) \/ TimeOut(m) \/ RemoveMessage(m)
Answer  == \E l \in loads : ListMessages(l) \/ HistoryAnswer(l)
User    ==
  \/ \E d \in Dialogs : ShowChat(d)
  \/ BackFromChat \/ LoadHome
  \/ OnAppHidden
  \/ \E long \in BOOLEAN : OnAppVisible(long)
  \/ UnlockAfterResume

Next ==
  \/ \E m \in Messages : Server(m) \/ HideExpiredBubble(m)
  \/ \E e \in owed : Send(e)
  \/ Answer
  \/ \E l \in loads : HistoryFails(l)
  \/ HandleWSMessage
  \/ Register \/ Open \/ Break \/ DoReconnectWS
  \/ User

Spec == Init /\ [][Next]_vars

\* Callbacks run; handlers go on and answer; nothing is assumed of the users.
Fairness ==
  /\ WF_vars(\E e \in owed : Send(e))
  /\ WF_vars(Answer)
  /\ WF_vars(HandleWSMessage)
  /\ WF_vars(Register)
  /\ WF_vars(Open)
  /\ WF_vars(DoReconnectWS)
  /\ \A m \in Messages : WF_vars(HideExpiredBubble(m))

FairSpec == Spec /\ Fairness
-----------------------------------------------------------------------------
(* Properties.                                                             *)

\* An answer of the history that comes after another dialog was opened, or
\* after a newer request, is dropped: the history on the screen is that of the
\* open dialog.
HistoryOfOpenChat ==
  screen = "chat" =>
    \A i \in DOMAIN list :
      list[i].from = "history" => DialogOf[list[i].msg] = current

\* A message has one bubble, however requests, events and reconnections
\* overlap; except one whose news was under way beside the history request,
\* which both bring it.
OneBubble ==
  \A m \in Messages :
    <<"message_new", m>> \notin crossed => Cardinality(BubblesOf(m)) <= 1

\* No message is marked read while the app is locked, not even by a history
\* answer that was asked for before (docs/sprint-8-checklist.md:68).
LockedMarksNothing == [][locked /\ locked' => asked' \subseteq asked]_vars

Displayed(m) == screen = "chat" /\ \E i \in BubblesOf(m) : list[i].shown

\* The user looks at the chat, the socket works and nothing is under way.
Settled ==
  /\ ~hidden
  /\ link = "open" /\ registered
  /\ owed = {} /\ wire = << >> /\ loads = {}

Crossed(m, types) == \E type \in types : <<type, m>> \in crossed

\* A removed message has left the open chat once its event has arrived, or the
\* reload after a break, after being away, after the lock: nothing that happens
\* while the client does not listen stays on the screen (main.ts:207).  The named
\* exception is an event that crossed the history request: its deletion was handled
\* while the GET was under way, or came before the news; then the bubble stays, against
\* docs/api-sprint-4.md:224.
RemovedLeaves ==
  Settled =>
    \A m \in Messages :
      Displayed(m) /\ life[m] = "removed" =>
        Crossed(m, {"message_new", "message_deleted"})

\* A message on the screen whose deadline runs has an interval to hide it, so
\* that it leaves though its message_deleted be lost (main.ts:382-383); but for a
\* message whose news or whose message_ttl_started crossed the history request.
TimersRun ==
  Settled =>
    \A m \in Messages :
      Displayed(m) /\ clock[m] # "none" =>
        timers[m] # 0 \/ Crossed(m, {"message_new", "message_ttl_started"})

\* What the user is shown of the peer and is not yet read has a markRead call under
\* way, also when it came while the app was away or locked.  The named exception is
\* a call that has failed (main.ts:463, 475): the message stays unread until a
\* later history brings it again, and then a new call is made.
ShownIsRead ==
  ~hidden /\ loads = {} =>
    \A m \in Messages :
      Displayed(m) /\ clock[m] = "none" => m \in asked \cup unmarked

\* main.ts:218: after a break the client reconnects in three seconds.  When
\* the timer fires behind the lock with an expired access token, nobody tries
\* again, and unlocking returns to the chat without a connection.
Reconnects ==
  screen = "chat" /\ ~hidden /\ ~locked /\ link \in {"off", "waiting"} ~>
    screen # "chat" \/ hidden \/ link \in {"connecting", "open"}
=============================================================================
