------------------------------ MODULE RateLimiter ------------------------------
(***************************************************************************)
(* The login rate limiter of auth-proxy (internal/app/authproxy/            *)
(* middleware.go): a token bucket for each address, found or made under     *)
(* one mutex (get), used under another (allow), and forgotten by a clean-up *)
(* that runs beside the requests.                                           *)
(*                                                                         *)
(* Time is counted in ticks, tokens in the ticks it takes to refill them:   *)
(* the bucket gains one unit a tick and a login costs Cost units.           *)
(***************************************************************************)
EXTENDS Integers, Sequences

CONSTANTS
  Requests,  \* handlers that can run at a time
  Addresses,
  Burst,     \* rateLimitMaxAttempts, the bucket's maxBurst
  Cost,      \* ticks in 1 / rate: rateLimitWindowSec / rateLimitMaxAttempts
  Second,    \* ticks in a second, the unit of Retry-After
  TTL,       \* rateLimitCleanupTTL
  Stall,     \* how long a request can be held up between get and allow
  MaxTime    \* bound: the clock

Full == Burst * Cost

\* The clean-up time of five minutes exceeds the minute of a whole refill by
\* more than a request is held up between its two mutexes.
ASSUME LimiterAssumption ==
  /\ Burst \in Nat \ {0}
  /\ Cost \in Nat \ {0}
  /\ Second \in Nat \ {0}
  /\ TTL \in Nat
  /\ Stall \in Nat
  /\ TTL >= Full + Stall
  /\ "none" \notin Addresses
  /\ MaxTime \in Nat

VARIABLES
  now,
  known,    \* addresses that have an entry
  tokens,   \* tokens[a], lastTime[a]: the bucket of a's entry
  lastTime,
  lastSeen, \* lastSeen[a] of the entry
  at,       \* at[r]: the address whose bucket request r holds, or "none"
  since,    \* since[r]: when r got it
  passed,   \* passed[a]: the times at which a's logins were let through
  promised  \* promised[a]: when the last Retry-After ends, -1 for none

vars == <<now, known, tokens, lastTime, lastSeen, at, since, passed, promised>>

Time == 0..MaxTime

TypeOK ==
  /\ now \in Time
  /\ known \subseteq Addresses
  /\ tokens \in [Addresses -> 0..Full]
  /\ lastTime \in [Addresses -> 0..now]
  /\ lastSeen \in [Addresses -> 0..now]
  /\ at \in [Requests -> Addresses \cup {"none"}]
  /\ since \in [Requests -> 0..now]
  /\ passed \in [Addresses -> Seq(0..now)]
  /\ promised \in [Addresses -> Int]

Init ==
  /\ now = 0
  /\ known = {}
  /\ tokens = [a \in Addresses |-> Full]
  /\ lastTime = [a \in Addresses |-> 0]
  /\ lastSeen = [a \in Addresses |-> 0]
  /\ at = [r \in Requests |-> "none"]
  /\ since = [r \in Requests |-> 0]
  /\ passed = [a \in Addresses |-> << >>]
  /\ promised = [a \in Addresses |-> -1]
-----------------------------------------------------------------------------
\* A new bucket is full.
Get(r, a) ==
  /\ at[r] = "none"
  /\ at' = [at EXCEPT ![r] = a]
  /\ since' = [since EXCEPT ![r] = now]
  /\ known' = known \cup {a}
  /\ lastSeen' = [lastSeen EXCEPT ![a] = now]
  /\ IF a \in known
       THEN UNCHANGED <<tokens, lastTime>>
       ELSE /\ tokens' = [tokens EXCEPT ![a] = Full]
            /\ lastTime' = [lastTime EXCEPT ![a] = now]
  /\ UNCHANGED <<now, passed, promised>>

Smaller(x, y) == IF x < y THEN x ELSE y

\* Mutant of Refilled: math.Min is lost.
Uncapped(a) == tokens[a] + (now - lastTime[a])

\* What allow finds in the bucket: the refill since it was used last.
Refilled(a) == Smaller(Full, tokens[a] + (now - lastTime[a]))

\* Mutant of WaitSeconds: rounded down.
WholeSeconds(missing) == missing \div Second

\* math.Ceil((1 - tokens) / rate).
WaitSeconds(missing) == (missing + Second - 1) \div Second

Release(r) ==
  /\ at' = [at EXCEPT ![r] = "none"]
  /\ since' = [since EXCEPT ![r] = 0]
  /\ UNCHANGED <<now, known, lastSeen>>

\* allow takes a token, and the login goes on.
LetThrough(r, a) ==
  /\ at[r] = a
  /\ Refilled(a) >= Cost
  /\ tokens' = [tokens EXCEPT ![a] = Refilled(a) - Cost]
  /\ lastTime' = [lastTime EXCEPT ![a] = now]
  /\ passed' = [passed EXCEPT ![a] = Append(@, now)]
  /\ promised' = [promised EXCEPT ![a] = -1]
  /\ Release(r)

\* 429 with Retry-After; the refill is kept.
Refuse(r, a) ==
  /\ at[r] = a
  /\ Refilled(a) < Cost
  /\ tokens' = [tokens EXCEPT ![a] = Refilled(a)]
  /\ lastTime' = [lastTime EXCEPT ![a] = now]
  /\ promised' = [promised EXCEPT ![a] =
                    now + Second * WaitSeconds(Cost - Refilled(a))]
  /\ UNCHANGED passed
  /\ Release(r)

\* Mutant of Stale: an entry is stale when its bucket could serve a login.
HasToken(a) == Refilled(a) >= Cost

\* lastSeen.Before(now - TTL).
Stale(a) == lastSeen[a] < now - TTL

Cleanup ==
  /\ \E a \in known : Stale(a)
  /\ known' = {a \in known : ~Stale(a)}
  /\ UNCHANGED <<now, tokens, lastTime, lastSeen, at, since, passed, promised>>

Tick ==
  /\ now < MaxTime
  /\ \A r \in Requests : at[r] # "none" => now < since[r] + Stall
  /\ now' = now + 1
  /\ UNCHANGED <<known, tokens, lastTime, lastSeen, at, since, passed, promised>>

Next ==
  \/ \E r \in Requests, a \in Addresses :
       Get(r, a) \/ LetThrough(r, a) \/ Refuse(r, a)
  \/ Cleanup
  \/ Tick

Spec == Init /\ [][Next]_vars
-----------------------------------------------------------------------------
(* Properties.                                                             *)

\* In no span of time does an address get more logins through than the burst
\* and what the rate has refilled in that span: neither the clean-up, which
\* forgets the bucket, nor requests that share it add a token.  It is more than
\* docs/api-sprint-4.md:285 allows: nearly twice the burst in a window of 60 seconds.
WindowBound ==
  \A a \in Addresses : \A i, j \in 1..Len(passed[a]) :
    i <= j => (j - i + 1) * Cost <= Full + (passed[a][j] - passed[a][i])

\* A client that waits for as long as Retry-After says is not refused, unless
\* another login from its address has been let through meanwhile.
RetryAfterTrue ==
  [][\A r \in Requests, a \in Addresses :
       Refuse(r, a) => promised[a] = -1 \/ now < promised[a]]_vars

\* The tokens of the next login from a: a new entry has a full bucket.
Available(a) == IF a \in known THEN Refilled(a) ELSE Full

Bucket == INSTANCE TokenBucket WITH
  level <- [a \in Addresses |-> Available(a)],
  logins <- [a \in Addresses |-> Len(passed[a])],
  refused <- [a \in Addresses |-> promised[a] # -1]

\* The limiter is one bucket for each address, filled as time passes: that the
\* refill is computed only when a login comes, that an entry is made for the
\* first one and forgotten by the clean-up, and that requests overlap, shows
\* nowhere.
ImplementsBucket == Bucket!Spec
=============================================================================
