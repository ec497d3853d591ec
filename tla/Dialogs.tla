------------------------------- MODULE Dialogs -------------------------------
(***************************************************************************)
(* A dialog of two users and the pages of its history: CreateDialogByUser-  *)
(* name and GetOrCreate (internal/services/chat/dialogs.go,                 *)
(* internal/store/dialog_repository.go), ListMessages from the handler to   *)
(* the SELECT (internal/handlers/chat/handler.go, internal/services/chat/   *)
(* service.go, internal/store/message_repository.go).                       *)
(*                                                                         *)
(* A client walks the history from the newest message to the oldest: each   *)
(* answer names the cursor of the next page, the created_at of its last     *)
(* row cut to a whole second.  Messages are posted and removed meanwhile; a *)
(* message carries the time its INSERT began and is seen once it commits.   *)
(***************************************************************************)
EXTENDS Integers, FiniteSets

CONSTANTS
  Users,     \* numbers: user ids are compared
  DialogIds, \* ids a server may propose for a new dialog
  Messages,
  None,      \* no dialog
  Limit,     \* the query's limit
  Second,    \* ticks of created_at in a second
  MaxTime    \* bound: the clock

ASSUME DialogsAssumption ==
  /\ Users \subseteq Int
  /\ None \notin DialogIds
  /\ Limit \in Nat \ {0}
  /\ Second \in Nat \ {0}
  /\ MaxTime \in Nat

Pairs == {p \in Users \X Users : p[1] # p[2]}
Unset == -1

VARIABLES
  row,     \* row[<<a, b>>]: the dialog with user_a_id = a, user_b_id = b
  opened,  \* opened[<<u, v>>]: the id u was given for the dialog with v
  home,    \* home[m]: dialog_id of m, None before it is posted
  stamp,   \* stamp[m]: created_at, Unset before
  visible, \* messages whose INSERT has committed
  removed, \* messages with deleted_at
  now,
  reader,  \* <<u, v>>: u walks the dialog with v; << >> for no walk
  before,  \* the cursor of the next request, Unset for none
  listed,  \* messages the walk has been given
  twice,   \* those it has been given more than once
  there,   \* messages that could be listed when the walk began
  cuts     \* created_at of the rows the cursors were made from

tableVars == <<row, opened, home, stamp, visible, removed>>
walkVars  == <<reader, before, listed, twice, there, cuts>>
vars == <<tableVars, now, walkVars>>

TypeOK ==
  /\ row \in [Users \X Users -> DialogIds \cup {None}]
  /\ opened \in [Pairs -> DialogIds \cup {None}]
  /\ home \in [Messages -> DialogIds \cup {None}]
  /\ stamp \in [Messages -> Unset..MaxTime]
  /\ visible \subseteq {m \in Messages : home[m] # None}
  /\ removed \subseteq visible
  /\ now \in 0..MaxTime
  /\ reader \in Pairs \cup {<< >>}
  /\ before \in Unset..MaxTime
  /\ twice \subseteq listed
  /\ listed \subseteq visible
  /\ there \subseteq visible
  /\ cuts \subseteq 0..MaxTime

Init ==
  /\ row = [p \in Users \X Users |-> None]
  /\ opened = [p \in Pairs |-> None]
  /\ home = [m \in Messages |-> None]
  /\ stamp = [m \in Messages |-> Unset]
  /\ visible = {}
  /\ removed = {}
  /\ now = 0
  /\ reader = << >>
  /\ before = Unset
  /\ listed = {}
  /\ twice = {}
  /\ there = {}
  /\ cuts = {}
-----------------------------------------------------------------------------
(* Dialogs and messages.                                                   *)

\* Mutant of DialogUsers: the pair is stored as it comes.
AsGiven(u, v) == <<u, v>>

\* normalizeDialogUsers.
DialogUsers(u, v) == IF u < v THEN <<u, v>> ELSE <<v, u>>

\* INSERT ... ON CONFLICT (user_a_id, user_b_id) DO UPDATE ... RETURNING id.
\* A proposed id is a fresh UUID.
GetOrCreate(u, v) ==
  /\ u # v
  /\ \E id \in DialogIds :
       LET key == DialogUsers(u, v)
           got == IF row[key] = None THEN id ELSE row[key]
       IN  /\ \A p \in DOMAIN row : row[p] # id
           /\ row' = [row EXCEPT ![key] = got]
           /\ opened' = [opened EXCEPT ![<<u, v>>] = got]
  /\ UNCHANGED <<home, stamp, visible, removed, now, walkVars>>

\* Create: created_at is NOW(), when the statement begins ...
BeginPost(p, m) ==
  /\ opened[p] # None
  /\ home[m] = None
  /\ home' = [home EXCEPT ![m] = opened[p]]
  /\ stamp' = [stamp EXCEPT ![m] = now]
  /\ UNCHANGED <<row, opened, visible, removed, now, walkVars>>

\* ... and the row is seen when it has committed.
CommitPost(m) ==
  /\ home[m] # None
  /\ m \notin visible
  /\ visible' = visible \cup {m}
  /\ UNCHANGED <<row, opened, home, stamp, removed, now, walkVars>>

\* The author or the expirer.
Remove(m) ==
  /\ m \in visible \ removed
  /\ removed' = removed \cup {m}
  /\ UNCHANGED <<row, opened, home, stamp, visible, now, walkVars>>

Tick ==
  /\ now < MaxTime
  /\ now' = now + 1
  /\ UNCHANGED <<tableVars, walkVars>>
-----------------------------------------------------------------------------
(* A walk through the history.                                             *)

\* Messages of a dialog that have not been removed.
History(d) == {m \in visible \ removed : home[m] = d}

\* Mutant of Earlier: created_at <= $2.
NotLater(t, cursor) == t <= cursor

Earlier(t, cursor) == t < cursor

Eligible(d) ==
  {m \in History(d) : before # Unset => Earlier(stamp[m], before)}

\* Mutant of IsPage: LIMIT without ORDER BY.
AnyPage(P, E) == Cardinality(P) = Limit \/ (P = E /\ Cardinality(P) < Limit)

\* ORDER BY created_at DESC LIMIT Limit, out of the rows E.
IsPage(P, E) ==
  /\ Cardinality(P) = Limit \/ (P = E /\ Cardinality(P) < Limit)
  /\ \A m \in P, n \in E \ P : stamp[m] >= stamp[n]

\* Format(time.RFC3339), parsed again by the next request.
Cut(t) == (t \div Second) * Second

BeginWalk(p) ==
  /\ reader = << >>
  /\ opened[p] # None
  /\ reader' = p
  /\ before' = Unset
  /\ listed' = {}
  /\ twice' = {}
  /\ there' = History(opened[p])
  /\ cuts' = {}
  /\ UNCHANGED <<tableVars, now>>

\* Request, SELECT and answer of one page; next_before is given for a full one.
NextPage ==
  /\ reader # << >>
  /\ \E P \in SUBSET Eligible(opened[reader]) :
       /\ IsPage(P, Eligible(opened[reader]))
       /\ listed' = listed \cup P
       /\ twice' = twice \cup (P \cap listed)
       /\ IF Cardinality(P) = Limit
            THEN \E last \in P :
                   /\ \A m \in P : stamp[last] <= stamp[m]
                   /\ before' = Cut(stamp[last])
                   /\ cuts' = cuts \cup {stamp[last]}
                   /\ UNCHANGED reader
            ELSE /\ reader' = << >>
                 /\ UNCHANGED <<before, cuts>>
  /\ UNCHANGED <<tableVars, now, there>>
-----------------------------------------------------------------------------
Next ==
  \/ \E u, v \in Users : GetOrCreate(u, v)
  \/ \E p \in Pairs, m \in Messages : BeginPost(p, m)
  \/ \E m \in Messages : CommitPost(m) \/ Remove(m)
  \/ Tick
  \/ \E p \in Pairs : BeginWalk(p)
  \/ NextPage

Spec == Init /\ [][Next]_vars

\* The client asks for the next page while there is one.
FairSpec == Spec /\ WF_vars(NextPage)
-----------------------------------------------------------------------------
(* Properties.                                                             *)

\* However often and at the same time two users ask for a dialog with each
\* other, they write to one and read one history.
OneDialogPerPair ==
  \A p \in Pairs :
    LET q == <<p[2], p[1]>>
    IN  opened[p] # None /\ opened[q] # None => opened[p] = opened[q]

\* Older rows of the second that a cursor was cut to.
Skipped(m) == \E t \in cuts : Cut(t) <= stamp[m] /\ stamp[m] <= t

\* A finished walk has listed every message that was there when it began and
\* has not been removed since, whatever was posted or removed meanwhile, and
\* none twice; missing are only the messages a cursor has cut off with its
\* second.
WalkListsEach ==
  reader = << >> =>
    /\ \A m \in there \ removed : m \in listed \/ Skipped(m)
    /\ twice = {}

\* A walk comes to its end, also while messages are posted.
WalkEnds == (reader # << >>) ~> (reader = << >>)
=============================================================================
