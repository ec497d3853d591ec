-------------------------- MODULE AuthSessionsProofs --------------------------
(***************************************************************************)
(* Proofs about AuthSessions, for any number of sessions, families, users  *)
(* and concurrent requests.                                                *)
(***************************************************************************)
EXTENDS AuthSessions, TLAPS

\* What the rows and the requests always look like beside their types.
RowShape ==
  \A s \in created :
    /\ family[s] \in Families
    /\ from[s] # NoSession =>
         /\ from[s] \in created
         /\ from[s] \in revoked
         /\ family[from[s]] = family[s]

RequestShape ==
  \A r \in Requests :
    /\ pc[r] # "idle" => tok[r] \in created
    /\ pc[r] = "rotate" => DeviceAccepted(tok[r], dev[r])

BaseInv == TypeOK /\ RowShape /\ RequestShape /\ FamilyBound

LEMMA InitBase == Init => BaseInv
  BY AuthAssumption
     DEF Init, BaseInv, TypeOK, RowShape, RequestShape, FamilyBound

\* The fields of an inserted row; every other row keeps its own.
LEMMA InsertFields ==
  ASSUME TypeOK, NEW s \in Sessions, NEW f \in Families, NEW u, NEW d,
         NEW parent, NEW asker, NEW delivered \in BOOLEAN,
         u \in Users \cup {NoUser}, d \in DeviceIds \cup {NoDevice},
         parent \in Sessions \cup {NoSession},
         asker \in DeviceIds \cup {NoDevice},
         Insert(s, f, u, d, parent, asker, delivered)
  PROVE  /\ s \notin created /\ created' = created \cup {s}
         /\ known' \subseteq created'
         /\ family' \in [Sessions -> Families \cup {NoFamily}]
         /\ user' \in [Sessions -> Users \cup {NoUser}]
         /\ device' \in [Sessions -> DeviceIds \cup {NoDevice}]
         /\ from' \in [Sessions -> Sessions \cup {NoSession}]
         /\ holder' \in [Sessions -> DeviceIds \cup {NoDevice}]
         /\ family'[s] = f /\ user'[s] = u /\ device'[s] = d
         /\ from'[s] = parent /\ holder'[s] = asker
         /\ \A n \in Sessions \ {s} :
              /\ family'[n] = family[n] /\ user'[n] = user[n]
              /\ device'[n] = device[n] /\ from'[n] = from[n]
              /\ holder'[n] = holder[n]
  BY DEF TypeOK, Insert

\* The request variables after Start and after Finish.
LEMMA RequestTypes ==
  ASSUME TypeOK, NEW r \in Requests,
         \/ Finish(r)
         \/ \E step \in {"reuse", "rotate", "revoke"}, s \in Sessions,
               d \in DeviceIds \cup {NoDevice} : Start(r, step, s, d)
  PROVE  /\ pc' \in [Requests -> {"idle", "reuse", "rotate", "revoke"}]
         /\ tok' \in [Requests -> Sessions \cup {NoSession}]
         /\ dev' \in [Requests -> DeviceIds \cup {NoDevice}]
         /\ \A q \in Requests \ {r} :
              pc'[q] = pc[q] /\ tok'[q] = tok[q] /\ dev'[q] = dev[q]
<1>1. CASE Finish(r)
  BY <1>1 DEF TypeOK, Finish
<1>2. CASE \E step \in {"reuse", "rotate", "revoke"}, s \in Sessions,
              d \in DeviceIds \cup {NoDevice} : Start(r, step, s, d)
  BY <1>2 DEF TypeOK, Start
<1>3. QED
  BY <1>1, <1>2

LEMMA LoginBase ==
  ASSUME BaseInv, NEW u \in Users, NEW d \in DeviceIds \cup {NoDevice},
         NEW f \in Families, NEW s \in Sessions, NEW delivered \in BOOLEAN,
         Login(u, d, f, s, delivered)
  PROVE  BaseInv'
<1>1. Insert(s, f, u, d, NoSession, d, delivered)
      /\ UNCHANGED <<revoked, expired, pc, tok, dev, loggedOut, compromised>>
      /\ branch' = [branch EXCEPT ![s] = s]
      /\ \A n \in created : family[n] # f
  BY DEF Login, reqVars, endVars
<1>2. /\ s \notin created /\ created' = created \cup {s}
      /\ known' \subseteq created'
      /\ family' \in [Sessions -> Families \cup {NoFamily}]
      /\ user' \in [Sessions -> Users \cup {NoUser}]
      /\ device' \in [Sessions -> DeviceIds \cup {NoDevice}]
      /\ from' \in [Sessions -> Sessions \cup {NoSession}]
      /\ holder' \in [Sessions -> DeviceIds \cup {NoDevice}]
  BY <1>1, InsertFields DEF BaseInv
<1>3. /\ family'[s] = f /\ user'[s] = u /\ device'[s] = d
      /\ from'[s] = NoSession /\ holder'[s] = d
      /\ \A n \in Sessions \ {s} :
           /\ family'[n] = family[n] /\ user'[n] = user[n]
           /\ device'[n] = device[n] /\ from'[n] = from[n]
           /\ holder'[n] = holder[n]
  BY <1>1, InsertFields DEF BaseInv
<1>4. created \subseteq Sessions
  BY DEF BaseInv, TypeOK
<1>5. TypeOK'
  BY <1>1, <1>2 DEF BaseInv, TypeOK
<1>6. RowShape'
  BY <1>1, <1>2, <1>3, <1>4 DEF BaseInv, RowShape
<1>7. RequestShape'
  BY <1>1, <1>2, <1>3, <1>4 DEF BaseInv, RequestShape, DeviceAccepted
<1>8. FamilyBound'
  BY <1>1, <1>2, <1>3, <1>4 DEF BaseInv, FamilyBound
<1>9. QED
  BY <1>5, <1>6, <1>7, <1>8 DEF BaseInv

LEMMA RotateBase ==
  ASSUME BaseInv, NEW r \in Requests, NEW n \in Sessions,
         NEW delivered \in BOOLEAN, RotateSession(r, n, delivered)
  PROVE  BaseInv'
<1>1. PICK s \in created : s = tok[r] /\ DeviceAccepted(s, dev[r])
  BY DEF BaseInv, RequestShape, RotateSession
<1>2. s \in Sessions /\ created \subseteq Sessions /\ family[s] \in Families
      /\ user[s] \in Users \cup {NoUser}
      /\ device[s] \in DeviceIds \cup {NoDevice}
      /\ dev[r] \in DeviceIds \cup {NoDevice}
  BY DEF BaseInv, TypeOK, RowShape
<1>3. /\ Insert(n, family[s], user[s], device[s], s, dev[r], delivered)
      /\ revoked' = revoked \cup {s}
      /\ Finish(r)
      /\ UNCHANGED <<expired, loggedOut, compromised>>
      /\ branch' = [branch EXCEPT ![n] = IF s \in revoked THEN n ELSE branch[s]]
  BY <1>1 DEF RotateSession, Replaced, endVars
<1>4. /\ n \notin created /\ created' = created \cup {n}
      /\ known' \subseteq created'
      /\ family' \in [Sessions -> Families \cup {NoFamily}]
      /\ user' \in [Sessions -> Users \cup {NoUser}]
      /\ device' \in [Sessions -> DeviceIds \cup {NoDevice}]
      /\ from' \in [Sessions -> Sessions \cup {NoSession}]
      /\ holder' \in [Sessions -> DeviceIds \cup {NoDevice}]
  BY <1>2, <1>3, InsertFields DEF BaseInv
<1>5. /\ family'[n] = family[s] /\ user'[n] = user[s]
      /\ device'[n] = device[s] /\ from'[n] = s /\ holder'[n] = dev[r]
      /\ \A m \in Sessions \ {n} :
           /\ family'[m] = family[m] /\ user'[m] = user[m]
           /\ device'[m] = device[m] /\ from'[m] = from[m]
           /\ holder'[m] = holder[m]
  BY <1>2, <1>3, InsertFields DEF BaseInv
<1>6. /\ pc' \in [Requests -> {"idle", "reuse", "rotate", "revoke"}]
      /\ tok' \in [Requests -> Sessions \cup {NoSession}]
      /\ dev' \in [Requests -> DeviceIds \cup {NoDevice}]
      /\ \A q \in Requests \ {r} :
           pc'[q] = pc[q] /\ tok'[q] = tok[q] /\ dev'[q] = dev[q]
  BY <1>3, RequestTypes DEF BaseInv
<1>7. TypeOK'
  BY <1>3, <1>4, <1>6 DEF BaseInv, TypeOK
<1>8. RowShape'
  BY <1>2, <1>3, <1>4, <1>5 DEF BaseInv, RowShape
<1>9. RequestShape'
  <2>1. pc'[r] = "idle"
    BY <1>3 DEF BaseInv, TypeOK, Finish
  <2>2. QED
    BY <1>2, <1>4, <1>5, <1>6, <2>1
       DEF BaseInv, RequestShape, DeviceAccepted
<1>10. FamilyBound'
  BY <1>1, <1>2, <1>4, <1>5 DEF BaseInv, FamilyBound, DeviceAccepted
<1>11. QED
  BY <1>7, <1>8, <1>9, <1>10 DEF BaseInv

\* The steps that insert no row.
LEMMA OtherBase ==
  ASSUME BaseInv,
         UNCHANGED <<created, family, user, device, from, holder, known>>,
         revoked \subseteq revoked', revoked' \subseteq created,
         expired' \subseteq created, loggedOut' \subseteq created,
         compromised' \subseteq created, branch' = branch,
         pc' \in [Requests -> {"idle", "reuse", "rotate", "revoke"}],
         tok' \in [Requests -> Sessions \cup {NoSession}],
         dev' \in [Requests -> DeviceIds \cup {NoDevice}],
         RequestShape'
  PROVE  BaseInv'
<1>1. TypeOK'
  BY DEF BaseInv, TypeOK
<1>2. RowShape' /\ FamilyBound'
  BY DEF BaseInv, RowShape, FamilyBound
<1>3. QED
  BY <1>1, <1>2 DEF BaseInv

LEMMA ServeBase ==
  ASSUME BaseInv, NEW r \in Requests, Serve(r)
  PROVE  BaseInv'
<1>1. ASSUME NEW s \in Sessions, NEW d \in DeviceIds \cup {NoDevice},
             BeginRefresh(r, s, d)
      PROVE  BaseInv'
  <2>1. s \in created
    BY <1>1 DEF BeginRefresh, BaseInv, TypeOK
  <2>2. \/ Finish(r)
        \/ Start(r, "reuse", s, d)
        \/ Start(r, "rotate", s, d) /\ DeviceAccepted(s, d)
    <3>1. IF RefreshPath(s, d) \in {"reuse", "rotate"}
            THEN Start(r, RefreshPath(s, d), s, d)
            ELSE Finish(r)
      BY <1>1, Zenon DEF BeginRefresh
    <3>2. CASE s \in revoked
      <4>1. RefreshPath(s, d) = "reuse"
        BY <3>2 DEF RefreshPath
      <4>2. QED
        BY <3>1, <4>1, Zenon
    <3>3. CASE s \notin revoked /\ s \notin expired /\ DeviceAccepted(s, d)
      <4>1. RefreshPath(s, d) = "rotate"
        BY <3>3 DEF RefreshPath
      <4>2. QED
        BY <3>1, <3>3, <4>1
    <3>4. CASE s \notin revoked /\ (s \in expired \/ ~DeviceAccepted(s, d))
      <4>1. RefreshPath(s, d) \notin {"reuse", "rotate"}
        BY <3>4 DEF RefreshPath
      <4>2. QED
        BY <3>1, <4>1, Zenon
    <3>5. QED
      BY <3>2, <3>3, <3>4
  <2>3. UNCHANGED <<created, family, user, device, from, holder, known,
                    revoked, expired, loggedOut, compromised, branch>>
    BY <1>1 DEF BeginRefresh, rowVars, endVars
  <2>4. RequestShape'
    BY <2>1, <2>2, <2>3 DEF BaseInv, TypeOK, RequestShape, DeviceAccepted,
       Finish, Start
  <2>5. QED
    BY <2>2, <2>3, <2>4, OtherBase, RequestTypes DEF BaseInv, TypeOK
<1>2. ASSUME NEW s \in Sessions, BeginLogout(r, s) PROVE BaseInv'
  <2>1. s \in created
    BY <1>2 DEF BeginLogout, BaseInv, TypeOK
  <2>2. Finish(r) \/ Start(r, "revoke", s, NoDevice)
    BY <1>2 DEF BeginLogout
  <2>3. UNCHANGED <<created, family, user, device, from, holder, known,
                    revoked, expired, loggedOut, compromised, branch>>
    BY <1>2 DEF BeginLogout, rowVars, endVars
  <2>4. RequestShape'
    BY <2>1, <2>2, <2>3 DEF BaseInv, TypeOK, RequestShape, DeviceAccepted,
       Finish, Start
  <2>5. QED
    BY <2>2, <2>3, <2>4, OtherBase, RequestTypes DEF BaseInv, TypeOK
<1>3. ASSUME RevokeSession(r) \/ WriteFails(r) \/ RevokeFamily(r)
      PROVE  BaseInv'
  <2>1. tok[r] \in created
    BY <1>3 DEF BaseInv, RequestShape, RevokeSession, WriteFails, RevokeFamily
  <2>2. Finish(r)
    BY <1>3 DEF RevokeSession, WriteFails, RevokeFamily
  <2>3. /\ UNCHANGED <<created, family, user, device, from, holder, known,
                       expired>>
        /\ revoked \subseteq revoked' /\ revoked' \subseteq created
        /\ loggedOut' \subseteq created
        /\ compromised' \subseteq created /\ branch' = branch
    BY <1>3, <2>1 DEF RevokeSession, WriteFails, RevokeFamily, rowVars, endVars,
       Compromised, FamilyOf, BaseInv, TypeOK
  <2>4. RequestShape'
    BY <2>2, <2>3 DEF BaseInv, TypeOK, RequestShape, DeviceAccepted, Finish
  <2>5. QED
    BY <2>2, <2>3, <2>4, OtherBase, RequestTypes DEF BaseInv, TypeOK
<1>4. QED
  BY <1>1, <1>2, <1>3, RotateBase DEF Serve

LEMMA BaseStep == BaseInv /\ [Next]_vars => BaseInv'
<1> SUFFICES ASSUME BaseInv, [Next]_vars PROVE BaseInv'
  OBVIOUS
<1>1. ASSUME NEW u \in Users, RevokeAll(u) PROVE BaseInv'
  <2>1. RequestShape'
    BY <1>1 DEF BaseInv, RevokeAll, RequestShape, DeviceAccepted, reqVars
  <2>2. QED
    BY <1>1, <2>1, OtherBase DEF BaseInv, TypeOK, RevokeAll, reqVars, endVars
<1>2. ASSUME NEW s \in Sessions, Expire(s) PROVE BaseInv'
  <2>1. RequestShape'
    BY <1>2 DEF BaseInv, Expire, RequestShape, DeviceAccepted, reqVars
  <2>2. QED
    BY <1>2, <2>1, OtherBase DEF BaseInv, TypeOK, Expire, reqVars, endVars
<1>3. CASE UNCHANGED vars
  <2>1. RequestShape'
    BY <1>3 DEF BaseInv, vars, rowVars, reqVars, RequestShape, DeviceAccepted
  <2>2. QED
    BY <1>3, <2>1, OtherBase DEF BaseInv, TypeOK, vars, rowVars, reqVars, endVars
<1>4. QED
  BY <1>1, <1>2, <1>3, LoginBase, ServeBase DEF Next

\* The table and the requests are well-typed in every reachable state.
THEOREM TypeCorrect == Spec => []TypeOK
<1>1. BaseInv => TypeOK
  BY DEF BaseInv
<1>2. QED
  BY InitBase, BaseStep, <1>1, PTL DEF Spec

\* User and device bindings hold along every tree of rotations.
THEOREM FamiliesBound == Spec => []FamilyBound
<1>1. BaseInv => FamilyBound
  BY DEF BaseInv
<1>2. QED
  BY InitBase, BaseStep, <1>1, PTL DEF Spec
-----------------------------------------------------------------------------
(* OverIsFinal.                                                            *)

\* A request starts a rotation only on a session that is usable.
LEMMA RotateNeedsLive ==
  ASSUME BaseInv, NEW r \in Requests, NEW s \in Sessions,
         NEW d \in DeviceIds \cup {NoDevice}, BeginRefresh(r, s, d),
         pc'[r] = "rotate"
  PROVE  s \in Live(family[s]) /\ tok'[r] = s /\ s \notin revoked
<1>1. s \in created
  BY DEF BeginRefresh, BaseInv, TypeOK
<1>2. IF RefreshPath(s, d) \in {"reuse", "rotate"}
        THEN Start(r, RefreshPath(s, d), s, d)
        ELSE Finish(r)
  BY Zenon DEF BeginRefresh
<1>3. CASE RefreshPath(s, d) \in {"reuse", "rotate"}
  <2>1. Start(r, RefreshPath(s, d), s, d)
    BY <1>2, <1>3, Zenon
  <2>2. pc'[r] = RefreshPath(s, d) /\ tok'[r] = s
    BY <2>1, Zenon DEF Start, BaseInv, TypeOK
  <2>3. s \notin revoked
    BY <2>2 DEF RefreshPath
  <2>4. QED
    BY <1>1, <2>2, <2>3 DEF Live
<1>4. CASE RefreshPath(s, d) \notin {"reuse", "rotate"}
  <2>1. Finish(r)
    BY <1>2, <1>4, Zenon
  <2>2. pc'[r] = "idle"
    BY <2>1 DEF Finish, BaseInv, TypeOK
  <2>3. QED
    BY <2>2
<1>5. QED
  BY <1>3, <1>4

\* The steps that insert no row and start no rotation keep a family over.
LEMMA OverKept ==
  ASSUME NEW f \in Families, Over(f), UNCHANGED <<created, family>>,
         revoked \subseteq revoked',
         \A r \in Requests :
           pc'[r] = "rotate" => pc[r] = "rotate" /\ tok'[r] = tok[r]
  PROVE  Over(f)'
  BY DEF Over, Live

LEMMA OverStep ==
  ASSUME BaseInv, [Next]_vars, NEW f \in Families, Over(f)
  PROVE  Over(f)'
<1> USE DEF BaseInv, TypeOK
<1>1. ASSUME NEW u \in Users, NEW d \in DeviceIds \cup {NoDevice},
             NEW g \in Families, NEW s \in Sessions,
             NEW delivered \in BOOLEAN, Login(u, d, g, s, delivered)
      PROVE  Over(f)'
  <2>1. Insert(s, g, u, d, NoSession, d, delivered) /\ g # f
        /\ UNCHANGED <<revoked, pc, tok>>
    BY <1>1 DEF Login, Over, reqVars
  <2>2. /\ created' = created \cup {s} /\ s \notin created
        /\ family'[s] = g
        /\ \A n \in Sessions \ {s} : family'[n] = family[n]
    BY <2>1 DEF Insert
  <2>3. QED
    BY <2>1, <2>2 DEF Over, Live, RequestShape
<1>2. ASSUME NEW r \in Requests, NEW n \in Sessions,
             NEW delivered \in BOOLEAN, RotateSession(r, n, delivered)
      PROVE  Over(f)'
  <2>1. PICK s \in created : s = tok[r] /\ family[s] # f
    BY <1>2 DEF RequestShape, RotateSession, Over
  <2>2. /\ n \notin created /\ created' = created \cup {n}
        /\ family'[n] = family[s]
        /\ \A m \in Sessions \ {n} : family'[m] = family[m]
        /\ revoked \subseteq revoked'
    BY <1>2, <2>1 DEF RotateSession, Insert
  <2>3. /\ pc'[r] = "idle"
        /\ \A q \in Requests \ {r} : pc'[q] = pc[q] /\ tok'[q] = tok[q]
    BY <1>2 DEF RotateSession, Finish
  <2>4. QED
    BY <2>1, <2>2, <2>3 DEF Over, Live, RequestShape
<1>3. ASSUME NEW r \in Requests, NEW s \in Sessions,
             NEW d \in DeviceIds \cup {NoDevice}, BeginRefresh(r, s, d)
      PROVE  Over(f)'
  <2>1. UNCHANGED <<created, family, revoked>> /\ pc[r] = "idle"
    BY <1>3 DEF BeginRefresh, rowVars
  <2>2. \A q \in Requests \ {r} : pc'[q] = pc[q] /\ tok'[q] = tok[q]
    BY <1>3 DEF BeginRefresh, Start, Finish
  <2>3. pc'[r] = "rotate" => family[tok'[r]] # f
    BY <1>3, RotateNeedsLive DEF Over, Live
  <2>4. QED
    BY <2>1, <2>2, <2>3 DEF Over, Live
<1>4. ASSUME NEW r \in Requests, NEW s \in Sessions, BeginLogout(r, s)
      PROVE  Over(f)'
  BY <1>4, OverKept DEF BeginLogout, Start, Finish, rowVars
<1>5. ASSUME NEW r \in Requests,
             RevokeSession(r) \/ WriteFails(r) \/ RevokeFamily(r)
      PROVE  Over(f)'
  BY <1>5, OverKept DEF RevokeSession, WriteFails, RevokeFamily, Finish, rowVars
<1>6. ASSUME NEW u \in Users, RevokeAll(u) PROVE Over(f)'
  BY <1>6, OverKept DEF RevokeAll, reqVars
<1>7. ASSUME NEW s \in Sessions, Expire(s) PROVE Over(f)'
  BY <1>7, OverKept DEF Expire, reqVars
<1>8. CASE UNCHANGED vars
  BY <1>8, OverKept DEF vars, rowVars, reqVars
<1>9. QED
  <2> HIDE DEF BaseInv, TypeOK
  <2>1. QED
    BY <1>1, <1>2, <1>3, <1>4, <1>5, <1>6, <1>7, <1>8 DEF Next, Serve

\* Once a family has no usable session and no rotation under way it never has
\* one again, under any concurrency, loss or replay.
THEOREM OverFinal == Spec => OverIsFinal
<1>1. BaseInv /\ [Next]_vars => [\A f \in Families : Over(f) => Over(f)']_vars
  BY OverStep
<1>2. QED
  BY InitBase, BaseStep, <1>1, PTL DEF Spec, OverIsFinal
-----------------------------------------------------------------------------
(* OneLivePerBranch, ReuseEndsBranches, LogoutEndsBranch.                  *)

\* A branch lies in one family.
BranchShape ==
  \A s \in created : branch[s] \in created /\ family[branch[s]] = family[s]

BranchInv ==
  /\ BranchShape
  /\ OneLivePerBranch
  /\ ReuseEndsBranches
  /\ LogoutEndsBranch

\* The steps that insert no row.
LEMMA BranchKept ==
  ASSUME BranchInv, UNCHANGED <<created, family, branch>>,
         revoked \subseteq revoked',
         \A n \in created \ revoked' : branch[n] \in compromised' => branch[n] \in compromised,
         \A n \in created \ revoked', s \in loggedOut' \ loggedOut : branch[n] # branch[s]
  PROVE  BranchInv'
<1>1. BranchShape'
  BY DEF BranchInv, BranchShape
<1>2. OneLivePerBranch'
  BY DEF BranchInv, OneLivePerBranch
<1>3. ReuseEndsBranches'
  BY DEF BranchInv, ReuseEndsBranches
<1>4. LogoutEndsBranch'
  BY DEF BranchInv, LogoutEndsBranch
<1>5. QED
  BY <1>1, <1>2, <1>3, <1>4 DEF BranchInv

\* A row that begins a branch, at a login or by a late rotation.
LEMMA BranchBegun ==
  ASSUME TypeOK, BranchInv, NEW n \in Sessions, n \notin created,
         created' = created \cup {n}, revoked \subseteq revoked',
         \A m \in Sessions \ {n} : family'[m] = family[m],
         branch' = [branch EXCEPT ![n] = n], UNCHANGED <<compromised, loggedOut>>
  PROVE  BranchInv'
<1>1. branch'[n] = n /\ \A m \in created : m # n /\ branch'[m] = branch[m]
  BY DEF TypeOK
<1>2. BranchShape'
  BY <1>1 DEF TypeOK, BranchInv, BranchShape
<1>3. OneLivePerBranch'
  BY <1>1 DEF BranchInv, BranchShape, OneLivePerBranch
<1>4. ReuseEndsBranches'
  BY <1>1 DEF TypeOK, BranchInv, ReuseEndsBranches
<1>5. LogoutEndsBranch'
  BY <1>1 DEF TypeOK, BranchInv, BranchShape, LogoutEndsBranch
<1>6. QED
  BY <1>2, <1>3, <1>4, <1>5 DEF BranchInv

\* A rotation of a row that is still usable stays on its branch.
LEMMA BranchGoesOn ==
  ASSUME TypeOK, BranchInv, NEW n \in Sessions, n \notin created,
         NEW s \in created \ revoked,
         created' = created \cup {n}, revoked' = revoked \cup {s},
         family'[n] = family[s],
         \A m \in Sessions \ {n} : family'[m] = family[m],
         branch' = [branch EXCEPT ![n] = branch[s]], UNCHANGED <<compromised, loggedOut>>
  PROVE  BranchInv'
<1>1. branch'[n] = branch[s] /\ \A m \in created : m # n /\ branch'[m] = branch[m]
  BY DEF TypeOK
<1>2. BranchShape'
  BY <1>1 DEF TypeOK, BranchInv, BranchShape
<1>3. OneLivePerBranch'
  BY <1>1 DEF BranchInv, OneLivePerBranch
<1>4. ReuseEndsBranches'
  BY <1>1 DEF BranchInv, ReuseEndsBranches
<1>5. LogoutEndsBranch'
  BY <1>1 DEF TypeOK, BranchInv, LogoutEndsBranch
<1>6. QED
  BY <1>2, <1>3, <1>4, <1>5 DEF BranchInv

LEMMA BranchStep ==
  ASSUME BaseInv, BranchInv, [Next]_vars
  PROVE  BranchInv'
<1> USE DEF BaseInv
<1>1. ASSUME NEW u \in Users, NEW d \in DeviceIds \cup {NoDevice},
             NEW g \in Families, NEW s \in Sessions,
             NEW delivered \in BOOLEAN, Login(u, d, g, s, delivered)
      PROVE  BranchInv'
  <2>1. /\ s \notin created /\ created' = created \cup {s}
        /\ branch' = [branch EXCEPT ![s] = s]
        /\ UNCHANGED <<revoked, compromised, loggedOut>>
        /\ \A m \in Sessions \ {s} : family'[m] = family[m]
    BY <1>1 DEF Login, Insert, endVars, TypeOK
  <2>2. QED
    BY <2>1, BranchBegun
<1>2. ASSUME NEW r \in Requests, NEW n \in Sessions,
             NEW delivered \in BOOLEAN, RotateSession(r, n, delivered)
      PROVE  BranchInv'
  <2>1. PICK s \in created : s = tok[r]
    BY <1>2 DEF RequestShape, RotateSession
  <2>2. /\ n \notin created /\ created' = created \cup {n}
        /\ revoked' = revoked \cup {s}
        /\ branch' = [branch EXCEPT ![n] = IF s \in revoked THEN n ELSE branch[s]]
        /\ UNCHANGED <<compromised, loggedOut>>
        /\ family'[n] = family[s]
        /\ \A m \in Sessions \ {n} : family'[m] = family[m]
    BY <1>2, <2>1 DEF RotateSession, Replaced, Insert, endVars, TypeOK
  <2>3. CASE s \in revoked
    BY <2>2, <2>3, BranchBegun
  <2>4. CASE s \notin revoked
    BY <2>2, <2>4, BranchGoesOn
  <2>5. QED
    BY <2>3, <2>4
<1>3. ASSUME NEW r \in Requests, RevokeFamily(r) PROVE BranchInv'
  <2>1. PICK s \in created : s = tok[r]
    BY <1>3 DEF RequestShape, RevokeFamily
  <2>2. /\ UNCHANGED <<created, family, branch, loggedOut>>
        /\ revoked' = revoked \cup FamilyOf(s)
        /\ compromised' = compromised \cup FamilyOf(s)
    BY <1>3, <2>1 DEF RevokeFamily, Compromised
  <2>3. \A n \in created \ revoked' : branch[n] \notin FamilyOf(s)
    BY <2>2 DEF BranchInv, BranchShape, FamilyOf
  <2>4. QED
    BY <2>2, <2>3, BranchKept
<1>4. ASSUME UNCHANGED <<created, family, branch, compromised, loggedOut>>,
             revoked \subseteq revoked'
      PROVE  BranchInv'
  BY <1>4, BranchKept
<1>5. ASSUME NEW r \in Requests, NEW s \in Sessions,
             BeginLogout(r, s) \/ \E d \in DeviceIds \cup {NoDevice} : BeginRefresh(r, s, d)
      PROVE  BranchInv'
  BY <1>4, <1>5 DEF BeginLogout, BeginRefresh, rowVars, endVars
<1>6. ASSUME NEW r \in Requests, RevokeSession(r) PROVE BranchInv'
  <2>1. PICK s \in created : s = tok[r]
    BY <1>6 DEF RequestShape, RevokeSession
  <2>2. /\ UNCHANGED <<created, family, branch, compromised>>
        /\ revoked' = revoked \cup {s}
        /\ loggedOut' = loggedOut \cup ({s} \ revoked)
    BY <1>6, <2>1 DEF RevokeSession
  <2>3. \A n \in created \ revoked', t \in loggedOut' \ loggedOut : branch[n] # branch[t]
    BY <2>2 DEF BranchInv, OneLivePerBranch
  <2>4. QED
    BY <2>2, <2>3, BranchKept
<1>10. ASSUME NEW r \in Requests, WriteFails(r) PROVE BranchInv'
  BY <1>4, <1>10 DEF WriteFails, rowVars, endVars
<1>7. ASSUME NEW u \in Users, RevokeAll(u) PROVE BranchInv'
  BY <1>4, <1>7 DEF RevokeAll, endVars
<1>8. ASSUME NEW s \in Sessions, Expire(s) PROVE BranchInv'
  BY <1>4, <1>8 DEF Expire, endVars
<1>9. CASE UNCHANGED vars
  BY <1>4, <1>9 DEF vars, rowVars, endVars
<1>11. QED
  <2> HIDE DEF BaseInv
  <2>1. QED
    BY <1>1, <1>2, <1>3, <1>5, <1>6, <1>7, <1>8, <1>9, <1>10 DEF Next, Serve

LEMMA InitBranch == Init => BranchInv
  BY DEF Init, BranchInv, BranchShape, OneLivePerBranch, ReuseEndsBranches, LogoutEndsBranch

\* A family has one usable session, and one more at most for each rotation whose
\* row was revoked between its check and its write, whoever presents its tokens.
THEOREM OneLive == Spec => []OneLivePerBranch
<1>1. BranchInv => OneLivePerBranch
  BY DEF BranchInv
<1>2. QED
  BY InitBase, BaseStep, InitBranch, BranchStep, <1>1, PTL DEF Spec

\* After a detected reuse nothing that was there is usable, nor what comes of it,
\* but for the late rotations.
THEOREM ReuseEnds == Spec => []ReuseEndsBranches
<1>1. BranchInv => ReuseEndsBranches
  BY DEF BranchInv
<1>2. QED
  BY InitBase, BaseStep, InitBranch, BranchStep, <1>1, PTL DEF Spec

\* After a logout that found its session usable nothing of the session's branch
\* is usable, whatever requests with its tokens were under way.
THEOREM LogoutEnds == Spec => []LogoutEndsBranch
<1>1. BranchInv => LogoutEndsBranch
  BY DEF BranchInv
<1>2. QED
  BY InitBase, BaseStep, InitBranch, BranchStep, <1>1, PTL DEF Spec
-----------------------------------------------------------------------------
(* ImplementsChain.                                                        *)

\* The three variables of SessionChain.
Heads  == [f \in Families |-> Live(f)]
Issued == [f \in Families |-> {s \in created : family[s] = f}]
Turn   == [r \in Requests |-> IF pc[r] = "rotate" THEN tok[r] ELSE NoSession]

\* What a change of the rows and of one request does to them.
LEMMA HeadsSame ==
  ASSUME UNCHANGED <<created, family, revoked>>
  PROVE  UNCHANGED <<Heads, Issued>>
  BY DEF Heads, Issued, Live

LEMMA TurnOf ==
  ASSUME TypeOK, NEW r \in Requests,
         \A q \in Requests \ {r} : pc'[q] = pc[q] /\ tok'[q] = tok[q]
  PROVE  /\ pc'[r] = "rotate" => Turn' = [Turn EXCEPT ![r] = tok'[r]]
         /\ pc'[r] # "rotate" => Turn' = [Turn EXCEPT ![r] = NoSession]
  BY DEF Turn

LEMMA InsertIssues ==
  ASSUME TypeOK, NEW n \in Sessions, NEW g \in Families, n \notin created,
         created' = created \cup {n}, family'[n] = g,
         \A m \in Sessions \ {n} : family'[m] = family[m]
  PROVE  /\ \A f \in Families : n \notin Issued[f]
         /\ Issued' = [Issued EXCEPT ![g] = @ \cup {n}]
<1>1. \A f \in Families : n \notin Issued[f]
  BY DEF Issued
<1>2. \A f \in Families :
        {s \in created' : family'[s] = f}
          = IF f = g THEN Issued[g] \cup {n} ELSE Issued[f]
  BY DEF Issued, TypeOK
<1>3. QED
  BY <1>1, <1>2 DEF Issued

LEMMA LoginRefines ==
  ASSUME BaseInv, NEW u \in Users, NEW d \in DeviceIds \cup {NoDevice},
         NEW g \in Families, NEW s \in Sessions, NEW delivered \in BOOLEAN,
         Login(u, d, g, s, delivered)
  PROVE  Chain!Next
<1> USE DEF BaseInv
<1>1. /\ created' = created \cup {s} /\ s \notin created
      /\ family'[s] = g /\ UNCHANGED <<revoked, pc, tok>>
      /\ \A n \in Sessions \ {s} : family'[n] = family[n]
      /\ \A n \in created : family[n] # g
  BY DEF Login, Insert, reqVars, TypeOK
<1>2. Issued[g] = {}
  BY <1>1 DEF Issued
<1>3. (\A f \in Families : s \notin Issued[f]) /\ Issued' = [Issued EXCEPT ![g] = @ \cup {s}]
  BY <1>1, InsertIssues
<1>4. Heads' = [Heads EXCEPT ![g] = {s}]
  <2>1. \A f \in Families : Live(f)' = IF f = g THEN {s} ELSE Live(f)
    BY <1>1 DEF Live, TypeOK
  <2>2. QED
    BY <2>1 DEF Heads
<1>5. Turn' = Turn
  BY <1>1 DEF Turn
<1> HIDE DEF BaseInv
<1>6. Chain!Open(g, s)
  BY <1>2, <1>3, <1>4, <1>5 DEF Chain!Open, Chain!Issue, Heads, Issued, Turn
<1>7. QED
  BY <1>6 DEF Chain!Next

LEMMA RotateRefines ==
  ASSUME BaseInv, NEW r \in Requests, NEW n \in Sessions,
         NEW delivered \in BOOLEAN, RotateSession(r, n, delivered)
  PROVE  Chain!Next
<1> USE DEF BaseInv
<1>1. PICK s \in created : s = tok[r]
  BY DEF RequestShape, RotateSession
<1>2. PICK g \in Families : g = family[s]
  BY DEF RowShape
<1>3. /\ created' = created \cup {n} /\ n \notin created
      /\ family'[n] = g /\ revoked' = revoked \cup {s}
      /\ \A m \in Sessions \ {n} : family'[m] = family[m]
      /\ pc[r] = "rotate" /\ Finish(r)
  BY <1>1, <1>2 DEF RotateSession, Insert, Replaced, TypeOK
<1>4. Turn[r] = s /\ s \in Issued[g]
  BY <1>1, <1>2, <1>3 DEF Turn, Issued
<1>5. (\A f \in Families : n \notin Issued[f]) /\ Issued' = [Issued EXCEPT ![g] = @ \cup {n}]
  BY <1>3, InsertIssues
<1>6. Heads' = [Heads EXCEPT ![g] = (@ \ {s}) \cup {n}]
  <2>1. \A f \in Families :
          Live(f)' = IF f = g THEN (Live(f) \ {s}) \cup {n} ELSE Live(f)
    BY <1>1, <1>2, <1>3 DEF Live, TypeOK
  <2>2. QED
    BY <2>1 DEF Heads
<1>7. Turn' = [Turn EXCEPT ![r] = NoSession]
  <2>1. pc'[r] = "idle" /\ \A q \in Requests \ {r} : pc'[q] = pc[q] /\ tok'[q] = tok[q]
    BY <1>3 DEF Finish, TypeOK
  <2>2. QED
    BY <2>1, TurnOf
<1> HIDE DEF BaseInv
<1>8. Chain!Advance(r, g, n)
  BY <1>4, <1>5, <1>6, <1>7 DEF Chain!Advance, Chain!Issue, Heads, Issued, Turn
<1>9. QED
  BY <1>8 DEF Chain!Next

LEMMA BeginFrame ==
  ASSUME TypeOK, NEW r \in Requests, NEW s \in Sessions,
         NEW d \in DeviceIds \cup {NoDevice}, BeginRefresh(r, s, d)
  PROVE  /\ UNCHANGED <<created, family, revoked>> /\ pc[r] = "idle"
         /\ \A q \in Requests \ {r} : pc'[q] = pc[q] /\ tok'[q] = tok[q]
<1>1. UNCHANGED <<created, family, revoked>> /\ pc[r] = "idle"
  BY DEF BeginRefresh, rowVars
<1>2. Finish(r) \/ \E step \in {"reuse", "rotate"} : Start(r, step, s, d)
  BY Zenon DEF BeginRefresh
<1>3. \A q \in Requests \ {r} : pc'[q] = pc[q] /\ tok'[q] = tok[q]
  BY <1>2 DEF Start, Finish, TypeOK
<1>4. QED
  BY <1>1, <1>3

LEMMA BeginRefines ==
  ASSUME BaseInv, NEW r \in Requests, NEW s \in Sessions,
         NEW d \in DeviceIds \cup {NoDevice}, BeginRefresh(r, s, d)
  PROVE  [Chain!Next]_(Chain!vars)
<1> USE DEF BaseInv
<1>1. /\ UNCHANGED <<created, family, revoked>> /\ pc[r] = "idle"
      /\ \A q \in Requests \ {r} : pc'[q] = pc[q] /\ tok'[q] = tok[q]
  BY BeginFrame
<1>2. UNCHANGED <<Heads, Issued>> /\ Turn[r] = NoSession
  BY <1>1, HeadsSame DEF Turn
<1>3. CASE pc'[r] = "rotate"
  <2>1. s \in Live(family[s]) /\ tok'[r] = s /\ family[s] \in Families
    BY <1>3, RotateNeedsLive DEF Live, RowShape
  <2>2. Turn' = [Turn EXCEPT ![r] = s]
    BY <1>1, <1>3, <2>1, TurnOf
  <2>3. s \in Heads[family[s]]
    BY <2>1 DEF Heads
  <2> HIDE DEF BaseInv
  <2>4. Chain!Take(r, family[s], s)
    BY <1>2, <2>2, <2>3 DEF Chain!Take, Heads, Issued, Turn
  <2>5. QED
    BY <2>1, <2>4 DEF Chain!Next
<1>4. CASE pc'[r] # "rotate"
  <2>1. Turn' = Turn
    BY <1>1, <1>4 DEF Turn
  <2>2. QED
    BY <1>2, <2>1 DEF Chain!vars, Heads, Issued, Turn
<1>5. QED
  BY <1>3, <1>4

\* A request that ends, or starts a logout, without a change of the rows.
LEMMA DropRefines ==
  ASSUME BaseInv, NEW r \in Requests, UNCHANGED <<created, family, revoked>>,
         pc'[r] # "rotate",
         \A q \in Requests \ {r} : pc'[q] = pc[q] /\ tok'[q] = tok[q]
  PROVE  Chain!Next
<1>1. UNCHANGED <<Heads, Issued>> /\ Turn' = [Turn EXCEPT ![r] = NoSession]
  BY HeadsSame, TurnOf DEF BaseInv
<1>2. Chain!Drop(r)
  BY <1>1 DEF Chain!Drop, Heads, Issued, Turn
<1>3. QED
  BY <1>2 DEF Chain!Next

\* The revoking steps: the rows of S, in one statement.
LEMMA CloseRefines ==
  ASSUME BaseInv, NEW S \in SUBSET Sessions, UNCHANGED <<created, family>>,
         revoked' = revoked \cup S,
         \A q \in Requests : (pc[q] = "rotate" \/ pc'[q] = "rotate") => UNCHANGED <<pc[q], tok[q]>>
  PROVE  Chain!Next
<1>1. Heads' = [f \in Families |-> Heads[f] \ S] /\ Issued' = Issued
  <2>1. \A f \in Families : Live(f)' = Live(f) \ S
    BY DEF Live
  <2>2. QED
    BY <2>1 DEF Heads, Issued
<1>2. Turn' = Turn
  BY DEF Turn
<1>3. Chain!Close(S)
  BY <1>1, <1>2 DEF Chain!Close, Heads, Issued, Turn
<1>4. QED
  BY <1>3 DEF Chain!Next

LEMMA StepRefines == BaseInv /\ [Next]_vars => [Chain!Next]_(Chain!vars)
<1> SUFFICES ASSUME BaseInv, [Next]_vars PROVE [Chain!Next]_(Chain!vars)
  OBVIOUS
<1>1. ASSUME NEW r \in Requests, NEW s \in Sessions, BeginLogout(r, s)
      PROVE  Chain!Next
  BY <1>1, DropRefines DEF BeginLogout, rowVars, Start, Finish, BaseInv, TypeOK
<1>2. ASSUME NEW r \in Requests, WriteFails(r) PROVE Chain!Next
  BY <1>2, DropRefines DEF WriteFails, rowVars, Finish, BaseInv, TypeOK
<1>3. ASSUME NEW r \in Requests, RevokeSession(r) \/ RevokeFamily(r)
      PROVE  Chain!Next
  <2>1. tok[r] \in created /\ created \subseteq Sessions /\ UNCHANGED <<created, family>>
    BY <1>3 DEF BaseInv, TypeOK, RequestShape, RevokeSession, RevokeFamily
  <2>2. PICK S \in SUBSET Sessions : revoked' = revoked \cup S
    BY <1>3, <2>1 DEF RevokeSession, RevokeFamily, Compromised, FamilyOf
  <2>3. \A q \in Requests :
          (pc[q] = "rotate" \/ pc'[q] = "rotate") => UNCHANGED <<pc[q], tok[q]>>
    BY <1>3 DEF RevokeSession, RevokeFamily, Finish, BaseInv, TypeOK
  <2>4. QED
    BY <2>1, <2>2, <2>3, CloseRefines
<1>4. ASSUME NEW u \in Users, RevokeAll(u) PROVE Chain!Next
  <2> DEFINE mine == {s \in created : user[s] = u}
  <2>1. /\ UNCHANGED <<created, family, pc, tok>> /\ revoked' = revoked \cup mine
        /\ mine \in SUBSET Sessions
    BY <1>4 DEF RevokeAll, reqVars, BaseInv, TypeOK
  <2> HIDE DEF mine
  <2>2. QED
    BY <2>1, CloseRefines
<1>5. ASSUME UNCHANGED <<created, family, revoked, pc, tok>>
      PROVE  UNCHANGED Chain!vars
  BY <1>5 DEF Chain!vars, Live
<1>6. ASSUME NEW s \in Sessions, Expire(s) PROVE UNCHANGED Chain!vars
  BY <1>5, <1>6 DEF Expire, reqVars
<1>7. CASE UNCHANGED vars
  BY <1>5, <1>7 DEF vars, rowVars, reqVars
<1>8. QED
  BY <1>1, <1>2, <1>3, <1>4, <1>6, <1>7, LoginRefines, RotateRefines, BeginRefines
     DEF Next, Serve

\* Under any overlap of requests, whoever sends them, the table is SessionChain:
\* a session is rotated only by a request that found it usable, and is replaced
\* or closed for good.
THEOREM TableImplementsChain == Spec => ImplementsChain
<1>1. Init => Chain!Init
  BY DEF Init, Chain!Init, Live
<1>2. QED
  BY <1>1, InitBase, BaseStep, StepRefines, PTL DEF Spec, ImplementsChain, Chain!Spec
=============================================================================
