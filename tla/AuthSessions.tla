----------------------------- MODULE AuthSessions -----------------------------
(***************************************************************************)
(* Refresh sessions of auth-proxy: the table auth_sessions                 *)
(* (internal/store/auth_session_repository.go) under the concurrent        *)
(* requests of internal/services/auth/service.go.                          *)
(*                                                                         *)
(* A session stands for its row, its id and its refresh token (the row     *)
(* holds the token's hash, unique).  A refresh or a logout reads the row,  *)
(* decides in memory and then writes, so another request may come between; *)
(* the reading step is Begin..., the writing step an action of its own.    *)
(* Whoever has a token may present it at any time, also beside another     *)
(* request with it: the promise that keeps one page's refreshes apart      *)
(* (api.ts) ends with a rejected fetch or a reload while the server may    *)
(* still be at work, binds neither a logout nor anybody else.              *)
(* A token that fails the parse before the row is read (ParseRefreshClaims)*)
(* is answered session_revoked without a step: its exp is the row's        *)
(* expires_at, so beside a forged token that is an expired row's.          *)
(***************************************************************************)
EXTENDS FiniteSets

CONSTANTS
  Sessions,   \* session ids (uuid)
  Families,   \* family ids (uuid)
  Users,
  DeviceIds,  \* values of the X-Device-ID header
  Requests,   \* HTTP requests the server handles at the same time
  NoSession, NoFamily, NoUser, NoDevice

ASSUME AuthAssumption ==
  /\ NoSession \notin Sessions
  /\ NoFamily \notin Families
  /\ NoUser \notin Users
  /\ NoDevice \notin DeviceIds

VARIABLES
  created,   \* rows of auth_sessions
  family,    \* family_id
  user,      \* user_id
  device,    \* device_id, NoDevice for NULL
  from,      \* rotated_from, NoSession for NULL
  holder,    \* the X-Device-ID of the request the session was issued to
  revoked,   \* rows with revoked_at
  expired,   \* rows whose expires_at has passed
  known,     \* sessions whose token a client has received
  pc,        \* pc[r]: "idle", or the write that request r is about to do
  tok,       \* tok[r]: the session r has read, while it is under way
  dev,       \* dev[r]: its X-Device-ID header
  loggedOut, \* sessions that a logout has revoked
  compromised, \* sessions whose family was revoked for a reused token
  branch     \* history: branch[s], the session that began the branch of s

rowVars == <<created, family, user, device, from, holder, revoked, expired>>
reqVars == <<pc, tok, dev>>
endVars == <<loggedOut, compromised>>
vars    == <<rowVars, known, reqVars, endVars, branch>>

TypeOK ==
  /\ created \subseteq Sessions
  /\ family \in [Sessions -> Families \cup {NoFamily}]
  /\ user \in [Sessions -> Users \cup {NoUser}]
  /\ device \in [Sessions -> DeviceIds \cup {NoDevice}]
  /\ from \in [Sessions -> Sessions \cup {NoSession}]
  /\ holder \in [Sessions -> DeviceIds \cup {NoDevice}]
  /\ revoked \subseteq created
  /\ expired \subseteq created
  /\ known \subseteq created
  /\ pc \in [Requests -> {"idle", "reuse", "rotate", "revoke"}]
  /\ tok \in [Requests -> Sessions \cup {NoSession}]
  /\ dev \in [Requests -> DeviceIds \cup {NoDevice}]
  /\ loggedOut \subseteq created
  /\ compromised \subseteq created
  /\ branch \in [Sessions -> Sessions \cup {NoSession}]

Init ==
  /\ created = {}
  /\ family = [s \in Sessions |-> NoFamily]
  /\ user = [s \in Sessions |-> NoUser]
  /\ device = [s \in Sessions |-> NoDevice]
  /\ from = [s \in Sessions |-> NoSession]
  /\ holder = [s \in Sessions |-> NoDevice]
  /\ revoked = {}
  /\ expired = {}
  /\ known = {}
  /\ pc = [r \in Requests |-> "idle"]
  /\ tok = [r \in Requests |-> NoSession]
  /\ dev = [r \in Requests |-> NoDevice]
  /\ loggedOut = {}
  /\ compromised = {}
  /\ branch = [s \in Sessions |-> NoSession]
-----------------------------------------------------------------------------
FamilyOf(s) == {n \in created : family[n] = family[s]}
Live(f) == {s \in created \ revoked : family[s] = f}

\* INSERT of a new row; a lost response leaves the client without the token.
Insert(s, f, u, d, parent, asker, delivered) ==
  /\ s \notin created
  /\ created' = created \cup {s}
  /\ family' = [family EXCEPT ![s] = f]
  /\ user' = [user EXCEPT ![s] = u]
  /\ device' = [device EXCEPT ![s] = d]
  /\ from' = [from EXCEPT ![s] = parent]
  /\ holder' = [holder EXCEPT ![s] = asker]
  /\ known' = IF delivered THEN known \cup {s} ELSE known

\* The username and the password were accepted: a new family with one row.
Login(u, d, f, s, delivered) ==
  /\ \A n \in created : family[n] # f
  /\ Insert(s, f, u, d, NoSession, d, delivered)
  /\ branch' = [branch EXCEPT ![s] = s]
  /\ UNCHANGED <<revoked, expired, reqVars, endVars>>

\* Whatever the answer is.
Finish(r) ==
  /\ pc' = [pc EXCEPT ![r] = "idle"]
  /\ tok' = [tok EXCEPT ![r] = NoSession]
  /\ dev' = [dev EXCEPT ![r] = NoDevice]

Start(r, step, s, d) ==
  /\ pc' = [pc EXCEPT ![r] = step]
  /\ tok' = [tok EXCEPT ![r] = s]
  /\ dev' = [dev EXCEPT ![r] = d]

\* Mutant of DeviceAccepted: a missing header passes for any session.
HeaderOptional(s, d) == device[s] = NoDevice \/ d = NoDevice \/ device[s] = d

DeviceAccepted(s, d) == device[s] = NoDevice \/ device[s] = d

\* Mutant of RefreshPath: the check of revoked_at is forgotten.
TrustingPath(s, d) ==
  IF s \in expired THEN "expired"
  ELSE IF DeviceAccepted(s, d) THEN "rotate" ELSE "mismatch"

\* Refresh after FindByTokenHash, in the order of its checks.
RefreshPath(s, d) ==
  IF s \in revoked THEN "reuse"
  ELSE IF s \in expired THEN "expired"
  ELSE IF DeviceAccepted(s, d) THEN "rotate" ELSE "mismatch"

BeginRefresh(r, s, d) ==
  /\ pc[r] = "idle"
  /\ s \in known
  /\ LET path == RefreshPath(s, d)
     IN  IF path \in {"reuse", "rotate"}
           THEN Start(r, path, s, d)
           ELSE Finish(r)
  /\ UNCHANGED <<rowVars, known, endVars, branch>>

\* Mutant of Replaced: only the INSERT of the rotation is made.
NothingReplaced(s) == {}

\* The row the rotation's UPDATE revokes.
Replaced(s) == {s}

\* RotateSession: one transaction.  It does not look at revoked_at again and
\* creates the row also when the one it read has been revoked since: such a
\* rotation is late, and its session begins a branch of its own.
RotateSession(r, n, delivered) ==
  /\ pc[r] = "rotate"
  /\ LET s == tok[r]
     IN  /\ Insert(n, family[s], user[s], device[s], s, dev[r], delivered)
         /\ revoked' = revoked \cup Replaced(s)
         /\ branch' = [branch EXCEPT ![n] = IF s \in revoked THEN n ELSE branch[s]]
  /\ Finish(r)
  /\ UNCHANGED <<expired, endVars>>

\* Mutant of Compromised: reuse revokes the presented session only.
JustThisOne(s) == {s}

\* The rows RevokeFamily revokes.
Compromised(s) == FamilyOf(s)

\* Reuse detection; the answer is session_compromised.
RevokeFamily(r) ==
  /\ pc[r] = "reuse"
  /\ revoked' = revoked \cup Compromised(tok[r])
  /\ compromised' = compromised \cup FamilyOf(tok[r])
  /\ Finish(r)
  /\ UNCHANGED <<created, family, user, device, from, holder, expired, known,
                 loggedOut, branch>>

\* Logout: a revoked session is answered 204 at once.
BeginLogout(r, s) ==
  /\ pc[r] = "idle"
  /\ s \in known
  /\ IF s \in revoked
       THEN Finish(r)
       ELSE Start(r, "revoke", s, NoDevice)
  /\ UNCHANGED <<rowVars, known, endVars, branch>>

RevokeSession(r) ==
  /\ pc[r] = "revoke"
  /\ revoked' = revoked \cup {tok[r]}
  /\ loggedOut' = loggedOut \cup ({tok[r]} \ revoked)
  /\ Finish(r)
  /\ UNCHANGED <<created, family, user, device, from, holder, expired, known,
                 compromised, branch>>

\* RevokeAllForUser, one statement.  The service offers it; no HTTP route of
\* this version calls it.
RevokeAll(u) ==
  LET mine == {s \in created : user[s] = u}
  IN  /\ mine \ revoked # {}
      /\ revoked' = revoked \cup mine
      /\ UNCHANGED <<created, family, user, device, from, holder, expired,
                     known, reqVars, endVars, branch>>

\* The write fails and is rolled back (a failing RevokeFamily is only logged),
\* or the server is killed before it.
WriteFails(r) ==
  /\ pc[r] \in {"rotate", "revoke", "reuse"}
  /\ Finish(r)
  /\ UNCHANGED <<rowVars, known, endVars, branch>>

\* Every row lives for the same RefreshTokenTTL, so a row expires after the
\* row it was rotated from.
Expire(s) ==
  /\ s \in created \ expired
  /\ from[s] \in expired \cup {NoSession}
  /\ expired' = expired \cup {s}
  /\ UNCHANGED <<created, family, user, device, from, holder, revoked, known,
                 reqVars, endVars, branch>>
-----------------------------------------------------------------------------
Serve(r) ==
  \/ \E s \in Sessions, d \in DeviceIds \cup {NoDevice} : BeginRefresh(r, s, d)
  \/ \E n \in Sessions, delivered \in BOOLEAN : RotateSession(r, n, delivered)
  \/ RevokeFamily(r)
  \/ \E s \in Sessions : BeginLogout(r, s)
  \/ RevokeSession(r)
  \/ WriteFails(r)

Next ==
  \/ \E u \in Users, d \in DeviceIds \cup {NoDevice}, f \in Families,
        s \in Sessions, delivered \in BOOLEAN : Login(u, d, f, s, delivered)
  \/ \E r \in Requests : Serve(r)
  \/ \E u \in Users : RevokeAll(u)
  \/ \E s \in Sessions : Expire(s)

Spec == Init /\ [][Next]_vars
-----------------------------------------------------------------------------
(* Properties.                                                             *)

\* All sessions of a family belong to the user and the device of its login,
\* and each was issued to a request that named that device: the binding is
\* carried and checked along every chain of rotations, also where concurrent
\* refreshes make it a tree.
FamilyBound ==
  \A s, n \in created :
    family[s] = family[n] =>
      /\ user[s] = user[n]
      /\ device[s] = device[n]
      /\ device[s] # NoDevice => holder[n] = device[s]

\* A family is over when all its sessions are revoked and no rotation of it
\* is under way.  It stays over: neither a replayed token, nor a late write,
\* nor a retry brings a usable session back.
Over(f) ==
  /\ \E s \in created : family[s] = f
  /\ Live(f) = {}
  /\ \A r \in Requests : pc[r] = "rotate" => family[tok[r]] # f

OverIsFinal == [][\A f \in Families : Over(f) => Over(f)']_vars

\* A branch of rotations, each made on a row still usable at its write, has at
\* most one usable session, across lost answers, retries of an old token, failed
\* writes, logouts and overlapping refreshes.  Only a rotation whose row was
\* revoked between its check and its write (auth_session_repository.go:114)
\* opens another branch: a family has at most one usable session more for each.
OneLivePerBranch ==
  \A s, n \in created \ revoked : branch[s] = branch[n] => s = n

\* The table implements SessionChain under any overlap of requests: a session
\* is rotated only by a request that found it usable, each rotation leaves one
\* session usable for the one it read, and what was replaced or closed never
\* becomes usable again.
Chain == INSTANCE SessionChain WITH
  heads <- [f \in Families |-> Live(f)],
  issued <- [f \in Families |-> {s \in created : family[s] = f}],
  turn <- [r \in Requests |-> IF pc[r] = "rotate" THEN tok[r] ELSE NoSession]

ImplementsChain == Chain!Spec

\* A detected reuse ends every branch of the family for good: whatever stays
\* usable, or becomes so, is of a branch that a late rotation opens afterwards;
\* with it the family outlives the reuse (docs/api-sprint-3.md:268-282 has it end).
ReuseEndsBranches == \A n \in created \ revoked : branch[n] \notin compromised

\* A logout that has revoked a usable session ends its branch for good: the token,
\* its retries and the requests under way bring nothing usable back to it.  It is
\* less than docs/api-sprint-3.md:12 says: a refresh that read the row before it
\* opens a new branch, and a logout that read the row before a rotation is answered
\* 204 and revokes nothing.
LogoutEndsBranch ==
  \A s \in loggedOut, n \in created \ revoked : branch[n] # branch[s]
=============================================================================
