--------------------------- MODULE RateLimiterProofs ---------------------------
(***************************************************************************)
(* Proofs about RateLimiter, for every rate, burst and clean-up time and   *)
(* any number of requests and addresses.                                   *)
(***************************************************************************)
EXTENDS RateLimiter, SequenceTheorems, TLAPS

\* A whole bucket serves at least one login.
LEMMA Sizes ==
  /\ Full \in Nat
  /\ Cost \in Nat \ {0}
  /\ Cost <= Full
<1>1. Burst \in Nat /\ Cost \in Nat /\ Burst >= 1 /\ Cost >= 1
  BY LimiterAssumption
<1>2. Burst * Cost \in Nat /\ Burst * Cost >= Cost
  BY <1>1
<1>3. QED
  BY <1>1, <1>2 DEF Full

\* The cost of one login more.
LEMMA OneMore == \A n \in Int : (n + 1) * Cost = n * Cost + Cost
BY LimiterAssumption

\* A request that holds a bucket got it no longer than Stall ago, when the
\* entry was seen; the entry is still there, and its bucket was used last no
\* later than Stall after it was seen.
Fresh ==
  /\ \A r \in Requests : \A a \in Addresses : at[r] = a =>
       /\ a \in known
       /\ since[r] <= lastSeen[a]
       /\ now <= since[r] + Stall
  /\ \A a \in known : lastTime[a] <= lastSeen[a] + Stall

\* What an address got through since its i-th login, and what it has left, is
\* no more than the burst and the refill.
Budget ==
  \A a \in Addresses : \A i \in 1..Len(passed[a]) :
    (Len(passed[a]) - i + 1) * Cost + Available(a)
      <= Full + (now - passed[a][i])

\* What a bucket holds after its refill.
LEMMA RefillBounds ==
  ASSUME TypeOK, NEW a \in Addresses
  PROVE  /\ Refilled(a) \in 0..Full
         /\ Refilled(a) <= tokens[a] + (now - lastTime[a])
         /\ Refilled(a) < Full => Refilled(a) = tokens[a] + (now - lastTime[a])
<1>1. /\ Full \in Nat /\ now \in Nat /\ tokens[a] \in 0..Full
      /\ lastTime[a] \in 0..now
  BY Sizes, LimiterAssumption DEF TypeOK, Time
<1>2. QED
  BY <1>1 DEF Refilled, Smaller

LEMMA InitInv == Init => TypeOK /\ Fresh /\ Budget /\ WindowBound
<1> SUFFICES ASSUME Init PROVE TypeOK /\ Fresh /\ Budget /\ WindowBound
  OBVIOUS
<1>1. TypeOK
  BY Sizes, LimiterAssumption DEF Init, TypeOK, Time
<1>2. Fresh
  BY LimiterAssumption DEF Init, Fresh
<1>3. \A a \in Addresses : Len(passed[a]) = 0
  BY DEF Init
<1>4. QED
  BY <1>1, <1>2, <1>3 DEF Budget, WindowBound
-----------------------------------------------------------------------------
(* Types.                                                                  *)

LEMMA TypeStep == TypeOK /\ [Next]_vars => TypeOK'
<1> SUFFICES ASSUME TypeOK, [Next]_vars PROVE TypeOK'
  OBVIOUS
<1>0. now \in Nat /\ Full \in Nat
  BY Sizes, LimiterAssumption DEF TypeOK, Time
<1>1. ASSUME NEW r \in Requests, NEW a \in Addresses, Get(r, a) PROVE TypeOK'
  <2>1. /\ known' \subseteq Addresses
        /\ at' \in [Requests -> Addresses \cup {"none"}]
        /\ since' \in [Requests -> 0..now]
        /\ lastSeen' \in [Addresses -> 0..now]
    BY <1>0, <1>1 DEF Get, TypeOK
  <2>2. tokens' \in [Addresses -> 0..Full] /\ lastTime' \in [Addresses -> 0..now]
    <3>1. CASE a \in known
      BY <1>1, <3>1 DEF Get, TypeOK
    <3>2. CASE a \notin known
      <4>1. /\ tokens' = [tokens EXCEPT ![a] = Full]
            /\ lastTime' = [lastTime EXCEPT ![a] = now]
        BY <1>1, <3>2 DEF Get
      <4>2. Full \in 0..Full /\ now \in 0..now
        BY <1>0
      <4>3. QED
        BY <4>1, <4>2 DEF TypeOK
    <3>3. QED
      BY <3>1, <3>2
  <2>3. QED
    BY <1>1, <2>1, <2>2 DEF Get, TypeOK
<1>2. ASSUME NEW r \in Requests, NEW a \in Addresses, LetThrough(r, a)
      PROVE TypeOK'
  <2>1. Refilled(a) - Cost \in 0..Full
    BY <1>2, Sizes, RefillBounds DEF LetThrough
  <2>2. Append(passed[a], now) \in Seq(0..now)
    BY <1>0 DEF TypeOK
  <2>3. QED
    <3>1. /\ tokens' \in [Addresses -> 0..Full] /\ lastTime' \in [Addresses -> 0..now]
          /\ passed' \in [Addresses -> Seq(0..now)] /\ promised' \in [Addresses -> Int]
      BY <1>0, <1>2, <2>1, <2>2 DEF LetThrough, TypeOK
    <3>2. /\ at' \in [Requests -> Addresses \cup {"none"}]
          /\ since' \in [Requests -> 0..now]
      BY <1>0, <1>2 DEF LetThrough, Release, TypeOK
    <3>3. QED
      BY <1>2, <3>1, <3>2 DEF LetThrough, Release, TypeOK
<1>3. ASSUME NEW r \in Requests, NEW a \in Addresses, Refuse(r, a)
      PROVE TypeOK'
  <2>1. Refilled(a) \in 0..Full
    BY RefillBounds
  <2>2. now + Second * WaitSeconds(Cost - Refilled(a)) \in Int
    BY <1>0, <2>1, Sizes, LimiterAssumption DEF WaitSeconds
  <2>3. QED
    BY <1>0, <1>3, <2>1, <2>2 DEF Refuse, Release, TypeOK
<1>4. CASE Cleanup
  BY <1>4 DEF Cleanup, TypeOK
<1>5. CASE Tick
  <2>1. now' \in Time /\ 0..now \subseteq 0..now'
    BY <1>0, <1>5, LimiterAssumption DEF Tick, Time
  <2>2. \A a \in Addresses : passed[a] \in Seq(0..now')
    BY <2>1, SeqMonotonic DEF TypeOK
  <2>3. passed' \in [Addresses -> Seq(0..now')]
    BY <1>5, <2>2 DEF Tick, TypeOK
  <2>4. QED
    BY <1>0, <1>5, <2>1, <2>3 DEF Tick, TypeOK
<1>6. CASE UNCHANGED vars
  BY <1>6 DEF vars, TypeOK
<1>7. QED
  BY <1>1, <1>2, <1>3, <1>4, <1>5, <1>6 DEF Next

\* Type correctness of the limiter: a bucket holds between no token and the
\* burst, and its times are in the past.
THEOREM TypeCorrect == Spec => []TypeOK
<1>1. Init => TypeOK
  BY InitInv
<1>2. TypeOK /\ [Next]_vars => TypeOK'
  BY TypeStep
<1>3. QED
  BY <1>1, <1>2, PTL DEF Spec
-----------------------------------------------------------------------------
(* The clean-up takes no bucket that is in use.                            *)

LEMMA FreshStep == TypeOK /\ Fresh /\ [Next]_vars => Fresh'
<1> SUFFICES ASSUME TypeOK, Fresh, [Next]_vars PROVE Fresh'
  OBVIOUS
<1>0. /\ now \in Nat /\ Stall \in Nat /\ TTL \in Nat /\ TTL >= Stall
      /\ known \subseteq Addresses
      /\ \A a \in Addresses : lastTime[a] \in 0..now /\ lastSeen[a] \in 0..now
      /\ \A r \in Requests : since[r] \in 0..now
  BY Sizes, LimiterAssumption DEF TypeOK, Time
<1>1. ASSUME NEW r \in Requests, NEW a \in Addresses, Get(r, a) PROVE Fresh'
  <2>1. /\ now' = now /\ known' = known \cup {a} /\ lastSeen'[a] = now
        /\ \A b \in Addresses \ {a} : lastSeen'[b] = lastSeen[b]
        /\ \A b \in known : lastTime'[b] = lastTime[b]
        /\ a \notin known => lastTime'[a] = now
    BY <1>0, <1>1 DEF Get, TypeOK
  <2>2. ASSUME NEW q \in Requests, NEW b \in Addresses, at'[q] = b
        PROVE  b \in known' /\ since'[q] <= lastSeen'[b] /\ now <= since'[q] + Stall
    <3>1. CASE q = r
      BY <1>0, <1>1, <2>1, <2>2, <3>1 DEF Get, TypeOK
    <3>2. CASE q # r
      <4>1. at[q] = b /\ since'[q] = since[q]
        BY <1>1, <2>2, <3>2 DEF Get, TypeOK
      <4>2. b \in known /\ since[q] <= lastSeen[b] /\ now <= since[q] + Stall
        BY <4>1 DEF Fresh
      <4>3. QED
        BY <1>0, <2>1, <4>1, <4>2
    <3>3. QED
      BY <3>1, <3>2
  <2>3. ASSUME NEW b \in known' PROVE lastTime'[b] <= lastSeen'[b] + Stall
    <3>1. CASE b \in known
      <4>1. lastTime[b] <= lastSeen[b] + Stall
        BY <3>1 DEF Fresh
      <4>2. CASE b = a
        BY <1>0, <2>1, <3>1, <4>2
      <4>3. CASE b # a
        BY <1>0, <2>1, <3>1, <4>1, <4>3
      <4>4. QED
        BY <4>2, <4>3
    <3>2. CASE b \notin known
      BY <1>0, <2>1, <2>3, <3>2
    <3>3. QED
      BY <3>1, <3>2
  <2>4. QED
    BY <2>1, <2>2, <2>3 DEF Fresh
<1>2. ASSUME NEW r \in Requests, NEW a \in Addresses, at[r] = a,
             lastTime' = [lastTime EXCEPT ![a] = now], Release(r)
      PROVE  Fresh'
  <2>1. now <= lastSeen[a] + Stall
    BY <1>0, <1>2 DEF Fresh
  <2>2. \A b \in known : lastTime'[b] <= lastSeen[b] + Stall
    BY <1>0, <1>2, <2>1 DEF Fresh, TypeOK
  <2>3. \A q \in Requests, b \in Addresses :
          at'[q] = b => at[q] = b /\ since'[q] = since[q]
    BY <1>2, LimiterAssumption DEF Release, TypeOK
  <2>4. QED
    BY <1>2, <2>2, <2>3 DEF Release, Fresh
<1>3. ASSUME NEW r \in Requests, NEW a \in Addresses,
             LetThrough(r, a) \/ Refuse(r, a)
      PROVE  Fresh'
  BY <1>2, <1>3 DEF LetThrough, Refuse
<1>4. CASE Cleanup
  <2>1. \A r \in Requests, a \in Addresses : at[r] = a => ~Stale(a)
    BY <1>0 DEF Fresh, Stale
  <2>2. QED
    BY <1>4, <2>1 DEF Cleanup, Fresh
<1>5. CASE Tick
  BY <1>0, <1>5, LimiterAssumption DEF Tick, Fresh
<1>6. CASE UNCHANGED vars
  BY <1>6 DEF vars, Fresh
<1>7. QED
  BY <1>1, <1>3, <1>4, <1>5, <1>6 DEF Next
-----------------------------------------------------------------------------
(* What each step does to the tokens an address can count on.              *)

LEMMA Basics ==
  ASSUME TypeOK
  PROVE  /\ now \in Nat /\ Full \in Nat /\ known \subseteq Addresses
         /\ \A a \in Addresses : /\ tokens[a] \in 0..Full
                                /\ lastTime[a] \in 0..now
                                /\ lastSeen[a] \in 0..now
                                /\ Available(a) \in 0..Full
BY Sizes, LimiterAssumption, RefillBounds DEF TypeOK, Time, Available

\* A new entry is as good as none.
LEMMA GetKeeps ==
  ASSUME TypeOK, NEW r \in Requests, NEW a \in Addresses, Get(r, a)
  PROVE  \A b \in Addresses : Available(b)' = Available(b)
<1> SUFFICES ASSUME NEW b \in Addresses PROVE Available(b)' = Available(b)
  OBVIOUS
<1>1. CASE b \in known
  BY <1>1 DEF Get, Available, Refilled, Smaller, TypeOK
<1>2. CASE b \notin known /\ b = a
  <2>1. tokens'[b] = Full /\ lastTime'[b] = now /\ now' = now /\ b \in known'
    BY <1>2 DEF Get, TypeOK
  <2>2. Refilled(b)' = Full
    BY <2>1, Basics DEF Refilled, Smaller
  <2>3. QED
    BY <1>2, <2>1, <2>2 DEF Available, Full
<1>3. CASE b \notin known /\ b # a
  BY <1>3 DEF Get, Available, Full
<1>4. QED
  BY <1>1, <1>2, <1>3

\* A refusal only writes down the refill.
LEMMA RefuseKeeps ==
  ASSUME TypeOK, NEW r \in Requests, NEW a \in Addresses, Refuse(r, a)
  PROVE  \A b \in Addresses : Available(b)' = Available(b)
<1>1. now' = now /\ known' = known
  BY DEF Refuse, Release
<1>2. Refilled(a)' = Refilled(a)
  <2>1. tokens'[a] = Refilled(a) /\ lastTime'[a] = now
    BY DEF Refuse, TypeOK
  <2>2. Refilled(a) \in 0..Full
    BY RefillBounds
  <2>3. QED
    BY <1>1, <2>1, <2>2, Basics DEF Refilled, Smaller
<1>3. \A b \in Addresses \ {a} : Refilled(b)' = Refilled(b)
  BY <1>1 DEF Refuse, Refilled, Smaller, TypeOK
<1>4. QED
  BY <1>1, <1>2, <1>3 DEF Available

\* An entry that is forgotten was full.
LEMMA CleanupKeeps ==
  ASSUME TypeOK, Fresh, Cleanup
  PROVE  \A b \in Addresses : Available(b)' = Available(b)
<1> SUFFICES ASSUME NEW b \in Addresses PROVE Available(b)' = Available(b)
  OBVIOUS
<1>1. Refilled(b)' = Refilled(b)
  BY DEF Cleanup, Refilled, Smaller
<1>2. CASE b \in known /\ Stale(b)
  <2>1. lastTime[b] <= lastSeen[b] + Stall
    BY <1>2 DEF Fresh
  <2>2. now - lastTime[b] >= Full
    BY <1>2, <2>1, Basics, LimiterAssumption DEF Stale
  <2>3. Refilled(b) = Full
    BY <2>2, Basics DEF Refilled, Smaller
  <2>4. QED
    BY <1>2, <2>3 DEF Cleanup, Available
<1>3. CASE ~(b \in known /\ Stale(b))
  BY <1>1, <1>3 DEF Cleanup, Available
<1>4. QED
  BY <1>2, <1>3

\* A login takes its cost from its own address.
LEMMA LetThroughTakes ==
  ASSUME TypeOK, Fresh, NEW r \in Requests, NEW a \in Addresses,
         LetThrough(r, a)
  PROVE  /\ Available(a) = Refilled(a) /\ Refilled(a) >= Cost
         /\ Available(a)' = Available(a) - Cost
         /\ \A b \in Addresses \ {a} : Available(b)' = Available(b)
<1>1. a \in known /\ Refilled(a) >= Cost /\ Refilled(a) \in 0..Full
  BY RefillBounds DEF LetThrough, Fresh
<1>2. /\ tokens'[a] = Refilled(a) - Cost /\ lastTime'[a] = now
      /\ now' = now /\ a \in known'
  BY <1>1 DEF LetThrough, Release, TypeOK
<1>3. Refilled(a)' = Refilled(a) - Cost
  BY <1>1, <1>2, Basics, Sizes DEF Refilled, Smaller
<1>4. \A b \in Addresses \ {a} : Available(b)' = Available(b)
  BY DEF LetThrough, Release, Available, Refilled, Smaller, TypeOK
<1>5. QED
  BY <1>1, <1>2, <1>3, <1>4 DEF Available

LEMMA TickRefills ==
  ASSUME TypeOK, Tick
  PROVE  \A b \in Addresses :
           Available(b)' = IF Available(b) < Full THEN Available(b) + 1 ELSE Full
<1> SUFFICES ASSUME NEW b \in Addresses
             PROVE  Available(b)' =
                      IF Available(b) < Full THEN Available(b) + 1 ELSE Full
  OBVIOUS
<1>1. now' = now + 1 /\ UNCHANGED <<known, tokens, lastTime>>
  BY DEF Tick
<1>2. Refilled(b)' = IF Refilled(b) < Full THEN Refilled(b) + 1 ELSE Full
  BY <1>1, Basics DEF Refilled, Smaller
<1>3. Full' = Full /\ Full \in Nat
  BY Basics DEF Full
<1>4. QED
  BY <1>1, <1>2, <1>3 DEF Available
-----------------------------------------------------------------------------
(* The budget.                                                             *)

\* The arithmetic of a step that adds no more tokens than time.
LEMMA Shift ==
  \A spent, left, next, first, t, u, full \in Int :
    spent + left <= full + (t - first) /\ next <= left + (u - t) =>
      spent + next <= full + (u - first)
OBVIOUS

\* A step that neither lets a login through nor turns the clock back keeps
\* the budget if it adds no more tokens than time.
LEMMA BudgetKept ==
  ASSUME TypeOK, TypeOK', Budget, WindowBound, UNCHANGED passed,
         now' \in Nat, now <= now',
         \A a \in Addresses : Available(a)' <= Available(a) + (now' - now)
  PROVE  Budget' /\ WindowBound'
<1>1. ASSUME NEW a \in Addresses, NEW i \in 1..Len(passed[a])
      PROVE  (Len(passed[a]) - i + 1) * Cost + Available(a)'
               <= Full + (now' - passed[a][i])
  <2>1. Available(a) \in Int /\ Available(a)' \in Int
    <3>1. Refilled(a) \in 0..Full
      BY RefillBounds
    <3>2. tokens'[a] \in Int /\ now' \in Int /\ lastTime'[a] \in Int
      BY Sizes, LimiterAssumption DEF TypeOK, Time
    <3>3. Refilled(a)' \in Int
      BY <3>2, Sizes DEF Refilled, Smaller
    <3>4. QED
      BY <3>1, <3>3, Sizes DEF Available
  <2>2. /\ (Len(passed[a]) - i + 1) * Cost \in Int
        /\ passed[a][i] \in Int /\ now \in Int /\ Full \in Int
    <3>1. passed[a] \in Seq(0..now) /\ now \in Int
      BY LimiterAssumption DEF TypeOK, Time
    <3>2. passed[a][i] \in 0..now /\ Len(passed[a]) - i + 1 \in Int
      BY <3>1
    <3>3. QED
      BY <3>1, <3>2, Sizes
  <2>3. (Len(passed[a]) - i + 1) * Cost + Available(a)
          <= Full + (now - passed[a][i])
    BY DEF Budget
  <2>4. Available(a)' <= Available(a) + (now' - now)
    OBVIOUS
  <2>5. now \in Int /\ now' \in Int
    BY <2>2
  <2>6. QED
    BY <2>1, <2>2, <2>3, <2>4, <2>5, Shift
<1>2. QED
  BY <1>1 DEF Budget, WindowBound

\* A login that is let through pays for itself.
LEMMA BudgetSpent ==
  ASSUME TypeOK, TypeOK', Fresh, Budget, WindowBound,
         NEW r \in Requests, NEW a \in Addresses, LetThrough(r, a)
  PROVE  Budget' /\ WindowBound'
<1> DEFINE n == Len(passed[a])
<1>1. /\ a \in known /\ now \in Nat /\ n \in Nat
      /\ Refilled(a) \in 0..Full /\ Refilled(a) >= Cost
      /\ passed[a] \in Seq(0..now)
  <2>1. Refilled(a) \in 0..Full
    BY RefillBounds
  <2>2. a \in known /\ Refilled(a) >= Cost
    BY DEF LetThrough, Fresh
  <2>3. passed[a] \in Seq(0..now) /\ now \in Nat
    BY LimiterAssumption DEF TypeOK, Time
  <2>4. QED
    BY <2>1, <2>2, <2>3
<1>2. /\ passed'[a] = Append(passed[a], now)
      /\ \A b \in Addresses \ {a} : passed'[b] = passed[b]
  BY DEF LetThrough, TypeOK
<1>3. /\ Len(passed'[a]) = n + 1
      /\ \A i \in 1..n : passed'[a][i] = passed[a][i] /\ passed[a][i] \in 0..now
      /\ passed'[a][n + 1] = now
  BY <1>1, <1>2
<1>4. \A b \in Addresses \ {a} : Available(b)' = Available(b)
  BY LetThroughTakes
<1>5. Available(a)' = Refilled(a) - Cost
  BY LetThroughTakes
<1>6. ASSUME NEW i \in 1..(n + 1)
      PROVE  (n + 1 - i + 1) * Cost + (Refilled(a) - Cost)
               <= Full + (now - passed'[a][i])
  <2>1. CASE i = n + 1
    <3>1. (n + 1 - i + 1) * Cost = Cost
      BY <1>1, <2>1, Sizes
    <3>2. QED
      BY <1>1, <1>3, <2>1, <3>1, Sizes
  <2>2. CASE i \in 1..n
    <3>1. (n - i + 1) * Cost + Refilled(a) <= Full + (now - passed[a][i])
      BY <1>1, <2>2 DEF Budget, Available
    <3> DEFINE k == n - i + 1
               old == k * Cost
               first == passed[a][i]
    <3>2. k \in Int /\ k + 1 = n + 1 - i + 1
      BY <1>1
    <3>3. (k + 1) * Cost = old + Cost /\ old \in Int
      BY <3>2, OneMore, Sizes
    <3>4. first \in Int /\ passed'[a][i] = first
      BY <1>3, <2>2
    <3>5. old + Refilled(a) <= Full + (now - first)
      BY <3>1
    <3>6. old + Cost + (Refilled(a) - Cost) <= Full + (now - first)
      <4> HIDE DEF old, first
      <4>1. QED
        BY <1>1, <3>3, <3>4, <3>5, Sizes
    <3>7. (n + 1 - i + 1) * Cost = old + Cost
      BY <3>2, <3>3
    <3>8. QED
      BY <3>4, <3>6, <3>7
  <2>3. i = n + 1 \/ i \in 1..n
    <3>1. n \in Nat
      BY <1>1
    <3> HIDE DEF n
    <3>2. QED
      BY <3>1
  <2>4. QED
    BY <2>1, <2>2, <2>3
<1>7. Budget'
  <2>1. ASSUME NEW b \in Addresses, NEW i \in 1..Len(passed'[b])
        PROVE  (Len(passed'[b]) - i + 1) * Cost + Available(b)'
                 <= Full + (now' - passed'[b][i])
    <3>1. now' = now
      BY DEF LetThrough, Release
    <3>2. CASE b = a
      BY <1>3, <1>5, <1>6, <3>1, <3>2
    <3>3. CASE b # a
      BY <1>2, <1>4, <3>1, <3>3 DEF Budget
    <3>4. QED
      BY <3>2, <3>3
  <2>2. QED
    BY <2>1 DEF Budget
<1>8. WindowBound'
  <2>1. ASSUME NEW b \in Addresses,
               NEW i \in 1..Len(passed'[b]), NEW j \in 1..Len(passed'[b]),
               i <= j
        PROVE  (j - i + 1) * Cost <= Full + (passed'[b][j] - passed'[b][i])
    <3>1. CASE b # a
      BY <1>2, <2>1, <3>1 DEF WindowBound
    <3>2. CASE b = a /\ j \in 1..n
      <4>1. i \in 1..n
        BY <1>1, <1>3, <2>1, <3>2
      <4>2. QED
        BY <1>3, <2>1, <3>2, <4>1 DEF WindowBound
    <3>3. CASE b = a /\ j = n + 1
      <4>1. (n + 1 - i + 1) * Cost + (Refilled(a) - Cost)
               <= Full + (now - passed'[a][i])
        BY <1>3, <1>6, <3>3
      <4>2. (n + 1 - i + 1) * Cost \in Int /\ passed'[a][i] \in Int
        <5>1. i \in 1..(n + 1)
          BY <1>3, <2>1, <3>3
        <5>2. n + 1 - i + 1 \in Int /\ Cost \in Int
          BY <1>1, <5>1, Sizes
        <5>3. passed'[a][i] \in Int
          <6>1. CASE i = n + 1
            BY <1>1, <1>3, <6>1
          <6>2. CASE i \in 1..n
            BY <1>1, <1>3, <6>2
          <6>3. n \in Nat
            BY <1>1
          <6>4. i = n + 1 \/ i \in 1..n
            <7> HIDE DEF n
            <7>1. QED
              BY <5>1, <6>3
          <6>5. QED
            BY <6>1, <6>2, <6>4
        <5>4. QED
          BY <5>2, <5>3
      <4>3. (n + 1 - i + 1) * Cost <= Full + (now - passed'[a][i])
        <5>1. \A p, q \in Int :
                p + (Refilled(a) - Cost) <= Full + (now - q) => p <= Full + (now - q)
          BY <1>1, Sizes
        <5>2. QED
          BY <4>1, <4>2, <5>1, Zenon
      <4>4. QED
        BY <1>3, <3>3, <4>3
    <3>4. QED
      BY <1>1, <1>3, <3>1, <3>2, <3>3
  <2>2. QED
    BY <2>1 DEF WindowBound
<1>9. QED
  BY <1>7, <1>8

LEMMA BudgetStep ==
  ASSUME TypeOK, TypeOK', Fresh, Budget, WindowBound, [Next]_vars
  PROVE  Budget' /\ WindowBound'
<1>0. ASSUME UNCHANGED passed, now' = now,
             \A b \in Addresses : Available(b)' = Available(b)
      PROVE  Budget' /\ WindowBound'
  <2>1. now' - now = 0 /\ now' \in Nat /\ now <= now'
    BY <1>0, Basics
  <2>2. \A b \in Addresses : Available(b)' <= Available(b) + (now' - now)
    BY <1>0, <2>1, Basics
  <2>3. QED
    BY <1>0, <2>1, <2>2, BudgetKept
<1>1. ASSUME NEW r \in Requests, NEW a \in Addresses, Get(r, a) \/ Refuse(r, a)
      PROVE  Budget' /\ WindowBound'
  <2>1. UNCHANGED passed /\ now' = now
    BY <1>1 DEF Get, Refuse, Release
  <2>2. QED
    BY <1>0, <1>1, <2>1, GetKeeps, RefuseKeeps
<1>2. ASSUME NEW r \in Requests, NEW a \in Addresses, LetThrough(r, a)
      PROVE  Budget' /\ WindowBound'
  BY <1>2, BudgetSpent
<1>3. CASE Cleanup
  <2>1. UNCHANGED passed /\ now' = now
    BY <1>3 DEF Cleanup
  <2>2. QED
    BY <1>0, <1>3, <2>1, CleanupKeeps
<1>4. CASE Tick
  <2>1. now' = now + 1 /\ UNCHANGED passed
    BY <1>4 DEF Tick
  <2>2. now' - now = 1 /\ now' \in Nat /\ now <= now'
    BY <2>1, Basics
  <2>3. \A b \in Addresses : Available(b)' <= Available(b) + (now' - now)
    BY <1>4, <2>2, Basics, TickRefills
  <2>4. QED
    BY <2>1, <2>2, <2>3, BudgetKept
<1>5. CASE UNCHANGED vars
  BY <1>0, <1>5 DEF vars, Available, Refilled, Smaller, Full
<1>6. QED
  BY <1>1, <1>2, <1>3, <1>4, <1>5 DEF Next

\* In no span of time does an address get more logins through than the burst
\* and the refill of that span, for every rate, burst and clean-up time that
\* is longer than a whole refill, and however requests and the clean-up
\* interleave.
THEOREM LoginsBounded == Spec => []WindowBound
<1> DEFINE Inv == TypeOK /\ Fresh /\ Budget /\ WindowBound
<1>1. Init => Inv
  BY InitInv
<1>2. Inv /\ [Next]_vars => Inv'
  <2> SUFFICES ASSUME Inv, [Next]_vars PROVE Inv'
    OBVIOUS
  <2>1. TypeOK'
    BY TypeStep
  <2>2. Fresh'
    BY FreshStep
  <2>3. Budget' /\ WindowBound'
    BY <2>1, BudgetStep
  <2>4. QED
    BY <2>1, <2>2, <2>3
<1>3. QED
  BY <1>1, <1>2, PTL DEF Spec
-----------------------------------------------------------------------------
(* Retry-After.                                                            *)

\* Rounded up to whole seconds, the wait is long enough.
LEMMA WaitCovers == \A n \in Nat : Second * WaitSeconds(n) \in Int /\ Second * WaitSeconds(n) >= n
<1> SUFFICES ASSUME NEW n \in Nat
             PROVE  Second * WaitSeconds(n) \in Int /\ Second * WaitSeconds(n) >= n
  OBVIOUS
<1> DEFINE up == n + Second - 1
<1>1. Second \in Nat /\ Second >= 1 /\ up \in Nat
  BY LimiterAssumption
<1>2. /\ up \div Second \in Nat
      /\ up = Second * (up \div Second) + (up % Second)
      /\ up % Second \in 0..(Second - 1)
  <2> HIDE DEF up
  <2>1. QED
    BY <1>1
<1>3. WaitSeconds(n) = up \div Second
  BY DEF WaitSeconds
<1> DEFINE wait == Second * (up \div Second)
<1>4. wait \in Int
  <2> HIDE DEF up
  <2>1. QED
    BY <1>1, <1>2
<1>5. wait >= n
  <2>1. up = wait + (up % Second) /\ up = n + Second - 1
    BY <1>2
  <2> HIDE DEF wait, up
  <2>2. QED
    BY <1>1, <1>2, <1>4, <2>1
<1>6. QED
  BY <1>3, <1>4, <1>5

\* By the time that was promised the bucket will hold the cost of a login.
Promised ==
  \A a \in known :
    \/ promised[a] = -1
    \/ tokens[a] >= Cost
    \/ tokens[a] + (promised[a] - lastTime[a]) >= Cost

LEMMA PromisedStep == TypeOK /\ Promised /\ [Next]_vars => Promised'
<1> SUFFICES ASSUME TypeOK, Promised, [Next]_vars PROVE Promised'
  OBVIOUS
<1>0. now \in Nat /\ known \subseteq Addresses
  BY LimiterAssumption DEF TypeOK, Time
<1>1. ASSUME NEW r \in Requests, NEW a \in Addresses, Get(r, a) PROVE Promised'
  <2>1. /\ known' = known \cup {a} /\ promised' = promised
        /\ \A b \in known : tokens'[b] = tokens[b] /\ lastTime'[b] = lastTime[b]
        /\ a \notin known => tokens'[a] = Full
    BY <1>0, <1>1 DEF Get, TypeOK
  <2>2. QED
    BY <2>1, Sizes DEF Promised
<1>2. ASSUME NEW r \in Requests, NEW a \in Addresses, LetThrough(r, a)
      PROVE  Promised'
  <2>1. /\ known' = known /\ promised'[a] = -1
        /\ \A b \in Addresses \ {a} : /\ tokens'[b] = tokens[b]
                                     /\ lastTime'[b] = lastTime[b]
                                     /\ promised'[b] = promised[b]
    BY <1>2 DEF LetThrough, Release, TypeOK
  <2>2. QED
    BY <1>0, <2>1 DEF Promised
<1>3. ASSUME NEW r \in Requests, NEW a \in Addresses, Refuse(r, a)
      PROVE  Promised'
  <2> DEFINE missing == Cost - Refilled(a)
  <2>1. Refilled(a) \in Nat /\ missing \in Nat
    BY <1>3, Sizes, RefillBounds DEF Refuse
  <2>2. /\ known' = known
        /\ tokens'[a] = Refilled(a) /\ lastTime'[a] = now
        /\ promised'[a] = now + Second * WaitSeconds(missing)
        /\ \A b \in Addresses \ {a} : /\ tokens'[b] = tokens[b]
                                     /\ lastTime'[b] = lastTime[b]
                                     /\ promised'[b] = promised[b]
    BY <1>3 DEF Refuse, Release, TypeOK
  <2>3. /\ Second * WaitSeconds(missing) \in Int
        /\ Second * WaitSeconds(missing) >= missing
    BY <2>1, WaitCovers
  <2>4. tokens'[a] + (promised'[a] - lastTime'[a]) >= Cost
    <3> DEFINE wait == Second * WaitSeconds(missing)
    <3>1. wait \in Int /\ wait >= Cost - Refilled(a) /\ promised'[a] = now + wait
      BY <2>2, <2>3
    <3> HIDE DEF wait
    <3>2. QED
      BY <1>0, <2>1, <2>2, <3>1, Sizes
  <2>5. QED
    BY <1>0, <2>2, <2>4 DEF Promised
<1>4. CASE Cleanup
  BY <1>4 DEF Cleanup, Promised
<1>5. CASE Tick
  BY <1>5 DEF Tick, Promised
<1>6. CASE UNCHANGED vars
  BY <1>6 DEF vars, Promised
<1>7. QED
  BY <1>1, <1>2, <1>3, <1>4, <1>5, <1>6 DEF Next

\* Retry-After is long enough: who waits for it is not refused, unless another
\* login from the address came between, for every rate, burst and clean-up
\* time, whole seconds or not.
THEOREM RetryAfterHolds == Spec => RetryAfterTrue
<1> DEFINE Inv == TypeOK /\ Fresh /\ Promised
<1>1. Init => Inv
  BY InitInv DEF Init, Promised
<1>2. Inv /\ [Next]_vars => Inv'
  BY TypeStep, FreshStep, PromisedStep
<1>3. ASSUME Inv, NEW r \in Requests, NEW a \in Addresses, Refuse(r, a)
      PROVE  promised[a] = -1 \/ now < promised[a]
  <2>1. /\ a \in known /\ now \in Nat /\ tokens[a] \in Nat
        /\ lastTime[a] \in 0..now /\ promised[a] \in Int
    BY <1>3, Sizes, LimiterAssumption DEF Refuse, Fresh, TypeOK, Time
  <2>2. Refilled(a) < Cost
    BY <1>3 DEF Refuse
  <2>3. tokens[a] + (now - lastTime[a]) < Cost
    BY <2>1, <2>2, Sizes DEF Refilled, Smaller
  <2>4. QED
    BY <1>3, <2>1, <2>3, Sizes DEF Promised
<1>4. Inv => [\A r \in Requests, a \in Addresses :
                Refuse(r, a) => promised[a] = -1 \/ now < promised[a]]_vars
  BY <1>3
<1>5. QED
  BY <1>1, <1>2, <1>4, PTL DEF Spec, RetryAfterTrue
-----------------------------------------------------------------------------
(* The abstract bucket.                                                    *)

LEMMA InitRefines == Init => Bucket!Init
<1> SUFFICES ASSUME Init PROVE Bucket!Init
  OBVIOUS
<1>1. \A a \in Addresses : /\ Available(a) = Full
                            /\ Len(passed[a]) = 0
                            /\ promised[a] = -1
  BY DEF Init, Available
<1>2. QED
  BY <1>1 DEF Bucket!Init

LEMMA StepRefines ==
  ASSUME TypeOK, Fresh, [Next]_vars
  PROVE  [Bucket!Next]_(Bucket!vars)
<1> DEFINE level == [a \in Addresses |-> Available(a)]
           logins == [a \in Addresses |-> Len(passed[a])]
           refused == [a \in Addresses |-> promised[a] # -1]
<1>0. ASSUME UNCHANGED <<passed, promised>>,
             \A b \in Addresses : Available(b)' = Available(b)
      PROVE  UNCHANGED Bucket!vars
  BY <1>0 DEF Bucket!vars
<1>1. ASSUME NEW r \in Requests, NEW a \in Addresses, Get(r, a)
      PROVE  UNCHANGED Bucket!vars
  BY <1>0, <1>1, GetKeeps DEF Get
<1>2. ASSUME NEW r \in Requests, NEW a \in Addresses, LetThrough(r, a)
      PROVE  Bucket!Take(a)
  <2>1. level[a] >= Cost
    BY <1>2, LetThroughTakes
  <2>2. level' = [level EXCEPT ![a] = @ - Cost]
    BY <1>2, LetThroughTakes
  <2>3. logins' = [logins EXCEPT ![a] = @ + 1]
    <3>1. Len(Append(passed[a], now)) = Len(passed[a]) + 1
      BY DEF TypeOK
    <3>2. passed' = [passed EXCEPT ![a] = Append(passed[a], now)]
      BY <1>2 DEF LetThrough
    <3>3. QED
      BY <3>1, <3>2 DEF TypeOK
  <2>4. refused' = [refused EXCEPT ![a] = FALSE]
    BY <1>2 DEF LetThrough, TypeOK
  <2>5. QED
    BY <2>1, <2>2, <2>3, <2>4 DEF Bucket!Take
<1>3. ASSUME NEW r \in Requests, NEW a \in Addresses, Refuse(r, a)
      PROVE  Bucket!Refuse(a)
  <2>1. level[a] < Cost
    BY <1>3 DEF Refuse, Fresh, Available
  <2>2. UNCHANGED <<level, logins>>
    BY <1>3, RefuseKeeps DEF Refuse
  <2>3. refused' = [refused EXCEPT ![a] = TRUE]
    <3>1. promised'[a] # -1
      <4>1. Cost - Refilled(a) \in Nat /\ now \in Nat
        BY <1>3, Sizes, RefillBounds, Basics DEF Refuse
      <4> DEFINE wait == Second * WaitSeconds(Cost - Refilled(a))
      <4>2. wait \in Int /\ wait >= Cost - Refilled(a)
        BY <4>1, WaitCovers
      <4>3. promised'[a] = now + wait
        BY <1>3 DEF Refuse, TypeOK
      <4> HIDE DEF wait
      <4>4. QED
        BY <4>1, <4>2, <4>3, Basics, RefillBounds
    <3>2. \A b \in Addresses \ {a} : promised'[b] = promised[b]
      BY <1>3 DEF Refuse, TypeOK
    <3>3. QED
      BY <3>1, <3>2
  <2>4. QED
    BY <2>1, <2>2, <2>3 DEF Bucket!Refuse
<1>4. CASE Cleanup
  BY <1>0, <1>4, CleanupKeeps DEF Cleanup
<1>5. CASE Tick
  <2>1. level' = [a \in Addresses |-> IF level[a] < Full THEN level[a] + 1 ELSE Full]
    BY <1>5, TickRefills
  <2>2. UNCHANGED <<logins, refused>>
    BY <1>5 DEF Tick
  <2>3. Bucket!Refill
    BY <2>1, <2>2 DEF Bucket!Refill
  <2>4. QED
    BY <2>3 DEF Bucket!Next
<1>6. CASE UNCHANGED vars
  BY <1>0, <1>6 DEF vars, Available, Refilled, Smaller, Full
<1>7. QED
  BY <1>1, <1>2, <1>3, <1>4, <1>5, <1>6 DEF Next, Bucket!Next

\* Lazy refills, entries made and forgotten, and overlapping requests cannot
\* be told from one bucket for each address that time fills, for every rate
\* and burst and any number of addresses and requests.
THEOREM LimiterImplementsBucket == Spec => ImplementsBucket
<1> DEFINE Inv == TypeOK /\ Fresh
<1>1. Init => Inv /\ Bucket!Init
  BY InitInv, InitRefines
<1>2. Inv /\ [Next]_vars => Inv'
  BY TypeStep, FreshStep
<1>3. Inv /\ [Next]_vars => [Bucket!Next]_(Bucket!vars)
  BY StepRefines
<1>4. QED
  BY <1>1, <1>2, <1>3, PTL DEF Spec, ImplementsBucket, Bucket!Spec
=============================================================================
