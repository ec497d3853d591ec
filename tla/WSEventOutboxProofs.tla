-------------------------- MODULE WSEventOutboxProofs --------------------------
(***************************************************************************)
(* Proofs about WSEventOutbox and the Hub inside it, for every number of   *)
(* messages, users, expirers, connections and faults, and for batches of   *)
(* any size.                                                               *)
(***************************************************************************)
EXTENDS WSEventOutbox, FiniteSetTheorems, SequenceTheorems, TLAPS

(* What Without returns.                                                   *)

\* The members of a finite set of integers are counted off in order.
LEMMA NthProperties ==
  ASSUME NEW I \in SUBSET Int, IsFiniteSet(I)
  PROVE  /\ \A k \in 1..Cardinality(I) : Nth(I, k) \in I
         /\ \A k, l \in 1..Cardinality(I) : k < l => Nth(I, k) < Nth(I, l)
         /\ \A i \in I : \E k \in 1..Cardinality(I) : i = Nth(I, k)
<1> DEFINE upTo(i) == {j \in I : j <= i}
           n       == Cardinality(I)
           rank    == [i \in I |-> Cardinality(upTo(i))]
<1>1. \A i \in I : IsFiniteSet(upTo(i)) /\ Cardinality(upTo(i)) <= n
  BY FS_Subset
<1>2. n \in Nat /\ \A i \in I : Cardinality(upTo(i)) \in Nat
  BY <1>1, FS_CardinalityType
<1>3. ASSUME NEW i \in I PROVE Cardinality(upTo(i)) # 0
  <2>1. i \in upTo(i)
    OBVIOUS
  <2>2. QED
    BY <1>1, <2>1, FS_EmptySet
<1>4. rank \in [I -> 1..n]
  BY <1>1, <1>2, <1>3
<1>5. ASSUME NEW i \in I, NEW j \in I, i < j PROVE rank[i] < rank[j]
  <2>1. upTo(i) \in SUBSET upTo(j) /\ upTo(i) # upTo(j)
    <3>0. i \in Int /\ j \in Int /\ I \subseteq Int
      OBVIOUS
    <3>1. j \in upTo(j) /\ j \notin upTo(i)
      BY <1>5, <3>0
    <3>2. ASSUME NEW h \in I, h <= i PROVE h <= j
      BY <1>5, <3>0, <3>2
    <3>3. upTo(i) \subseteq upTo(j)
      BY <3>2
    <3>4. QED
      BY <3>1, <3>3
  <2>2. Cardinality(upTo(i)) <= Cardinality(upTo(j))
        /\ Cardinality(upTo(i)) # Cardinality(upTo(j))
    BY <1>1, <2>1, FS_Subset
  <2>3. QED
    BY <1>2, <2>2
<1>6. \A i, j \in I : rank[i] = rank[j] => i = j
  <2>1. \A i, j \in I : i = j \/ i < j \/ j < i
    OBVIOUS
  <2>2. \A i, j \in I : rank[i] \in Int
    BY <1>4
  <2>3. QED
    BY <1>5, <2>1, <2>2
<1>7. \A k \in 1..n : \E i \in I : rank[i] = k
  <2>1. IsFiniteSet(1..n) /\ Cardinality(1..n) = n
    BY <1>2, FS_Interval
  <2>2. rank \in Injection(I, 1..n)
    BY <1>4, <1>6, Zenon DEF Injection, IsInjective
  <2>3. rank \in Surjection(I, 1..n)
    BY <2>1, <2>2, FS_Injection
  <2>4. QED
    BY <2>3, Zenon DEF Surjection
<1>8. ASSUME NEW k \in 1..n PROVE Nth(I, k) \in I /\ rank[Nth(I, k)] = k
  <2>1. \E i \in I : Cardinality(upTo(i)) = k
    BY <1>7
  <2>2. QED
    BY <2>1 DEF Nth
<1> HIDE DEF rank
<1>9. ASSUME NEW k \in 1..n, NEW l \in 1..n, k < l
      PROVE  Nth(I, k) < Nth(I, l)
  <2>1. Nth(I, k) \in Int /\ Nth(I, l) \in Int
    BY <1>8
  <2>2. Nth(I, k) # Nth(I, l)
    BY <1>8, <1>9
  <2>3. ~ (Nth(I, l) < Nth(I, k))
    <3>1. ~ (rank[Nth(I, l)] < rank[Nth(I, k)])
      BY <1>8, <1>9
    <3>2. QED
      BY <1>5, <1>8, <3>1
  <2>4. QED
    BY <2>1, <2>2, <2>3
<1>10. \A i \in I : i = Nth(I, rank[i])
  BY <1>4, <1>6, <1>8
<1>11. QED
  BY <1>4, <1>8, <1>9, <1>10

\* The elements that stay, in their order.
LEMMA WithoutProperties ==
  ASSUME NEW T, NEW s \in Seq(T), NEW S
  PROVE  /\ Without(s, S) \in Seq(T)
         /\ ToSet(Without(s, S)) = ToSet(s) \ S
         /\ \E at \in [1..Len(Without(s, S)) -> 1..Len(s)] :
              /\ \A k \in 1..Len(Without(s, S)) : Without(s, S)[k] = s[at[k]]
              /\ \A k, l \in 1..Len(Without(s, S)) : k < l => at[k] < at[l]
<1> DEFINE kept == {i \in DOMAIN s : s[i] \notin S}
           n    == Cardinality(kept)
           w    == Without(s, S)
           at   == [k \in 1..n |-> Nth(kept, k)]
<1>1. DOMAIN s = 1..Len(s) /\ Len(s) \in Nat /\ \A i \in 1..Len(s) : s[i] \in T
  BY LenProperties, ElementOfSeq
<1>2. kept \in SUBSET (1..Len(s)) /\ kept \in SUBSET Int
  BY <1>1
<1>3. IsFiniteSet(kept) /\ n \in Nat
  <2>1. IsFiniteSet(1..Len(s))
    BY <1>1, FS_Interval
  <2>2. IsFiniteSet(kept)
    BY <1>2, <2>1, FS_Subset
  <2>3. QED
    BY <2>2, FS_CardinalityType
<1>4. /\ \A k \in 1..n : at[k] \in kept
      /\ \A k, l \in 1..n : k < l => at[k] < at[l]
      /\ \A i \in kept : \E k \in 1..n : i = at[k]
  BY <1>2, <1>3, NthProperties
<1>5. w = [k \in 1..n |-> s[at[k]]]
  BY DEF Without
<1> HIDE DEF at, n, w
<1>6. w \in Seq(T) /\ Len(w) = n /\ DOMAIN w = 1..n
  BY <1>1, <1>2, <1>3, <1>4, <1>5
<1>7. \A k \in 1..n : w[k] = s[at[k]]
  BY <1>5
<1>8. ToSet(w) = ToSet(s) \ S
  <2>1. ASSUME NEW e \in ToSet(w) PROVE e \in ToSet(s) \ S
    BY <1>4, <1>6, <1>7, <2>1 DEF ToSet
  <2>2. ASSUME NEW e \in ToSet(s) \ S PROVE e \in ToSet(w)
    <3>1. PICK i \in DOMAIN s : e = s[i]
      BY <2>2 DEF ToSet
    <3>2. PICK k \in 1..n : i = at[k]
      BY <1>4, <2>2, <3>1
    <3>3. QED
      BY <1>6, <1>7, <3>1, <3>2 DEF ToSet
  <2>3. QED
    BY <2>1, <2>2
<1>9. at \in [1..n -> 1..Len(s)]
  BY <1>2, <1>4 DEF at
<1>10. QED
  BY <1>4, <1>6, <1>7, <1>8, <1>9 DEF w
-----------------------------------------------------------------------------
(* Sequences without repetition.                                           *)

NoRepeat(s) == \A i, j \in 1..Len(s) : s[i] = s[j] => i = j

LEMMA InToSet ==
  ASSUME NEW T, NEW s \in Seq(T)
  PROVE  /\ \A e : e \in ToSet(s) <=> \E i \in 1..Len(s) : s[i] = e
         /\ ToSet(s) \subseteq T
         /\ s = << >> <=> ToSet(s) = {}
<1>1. DOMAIN s = 1..Len(s) /\ Len(s) \in Nat /\ \A i \in 1..Len(s) : s[i] \in T
  BY LenProperties, ElementOfSeq
<1>2. s # << >> => 1 \in 1..Len(s)
  BY <1>1, EmptySeq
<1>3. s = << >> => Len(s) = 0
  BY EmptySeq
<1>4. ASSUME NEW e PROVE e \in ToSet(s) <=> \E i \in 1..Len(s) : s[i] = e
  BY <1>1 DEF ToSet
<1>5. ToSet(s) \subseteq T
  BY <1>1, <1>4
<1>6. s = << >> <=> ToSet(s) = {}
  <2>1. CASE s = << >>
    BY <1>3, <1>4, <2>1
  <2>2. CASE s # << >>
    BY <1>2, <1>4, <2>2
  <2>3. QED
    BY <2>1, <2>2
<1>7. QED
  BY <1>4, <1>5, <1>6

LEMMA AppendKeeps ==
  ASSUME NEW T, NEW s \in Seq(T), NEW e \in T
  PROVE  /\ ToSet(Append(s, e)) = ToSet(s) \cup {e}
         /\ NoRepeat(s) /\ e \notin ToSet(s) => NoRepeat(Append(s, e))
<1> DEFINE t == Append(s, e)
<1>1. t \in Seq(T) /\ Len(t) = Len(s) + 1 /\ Len(s) \in Nat
      /\ (\A i \in 1..Len(s) : t[i] = s[i]) /\ t[Len(s) + 1] = e
  BY AppendProperties, LenProperties
<1> HIDE DEF t
<1>2. \A f : f \in ToSet(t) <=> \E i \in 1..Len(t) : t[i] = f
  BY <1>1, InToSet
<1>3. \A f : f \in ToSet(s) <=> \E i \in 1..Len(s) : s[i] = f
  BY InToSet
<1>4. ToSet(t) = ToSet(s) \cup {e}
  <2>1. \A i \in 1..Len(t) : i \in 1..Len(s) \/ i = Len(s) + 1
    BY <1>1
  <2>2. Len(s) + 1 \in 1..Len(t) /\ \A i \in 1..Len(s) : i \in 1..Len(t)
    BY <1>1
  <2>3. ASSUME NEW f \in ToSet(t) PROVE f \in ToSet(s) \cup {e}
    BY <1>1, <1>2, <1>3, <2>1
  <2>4. ASSUME NEW f \in ToSet(s) \cup {e} PROVE f \in ToSet(t)
    BY <1>1, <1>2, <1>3, <2>2
  <2>5. QED
    BY <2>3, <2>4
<1>5. ASSUME NoRepeat(s), e \notin ToSet(s) PROVE NoRepeat(t)
  <2>1. \A i \in 1..Len(s) : s[i] # e
    BY <1>3, <1>5
  <2>2. \A i \in 1..Len(t) : i \in 1..Len(s) \/ i = Len(s) + 1
    BY <1>1
  <2>3. SUFFICES ASSUME NEW i \in 1..Len(t), NEW j \in 1..Len(t), t[i] = t[j]
                 PROVE  i = j
    BY DEF NoRepeat
  <2>4. CASE i \in 1..Len(s) /\ j \in 1..Len(s)
    BY <1>1, <1>5, <2>3, <2>4 DEF NoRepeat
  <2>5. CASE i \notin 1..Len(s) \/ j \notin 1..Len(s)
    BY <1>1, <2>1, <2>2, <2>3, <2>5
  <2>6. QED
    BY <2>4, <2>5
<1>6. QED
  BY <1>4, <1>5 DEF t

LEMMA TailKeeps ==
  ASSUME NEW T, NEW s \in Seq(T), s # << >>
  PROVE  /\ Head(s) \in T /\ Tail(s) \in Seq(T)
         /\ ToSet(s) = ToSet(Tail(s)) \cup {Head(s)}
         /\ NoRepeat(s) => NoRepeat(Tail(s)) /\ Head(s) \notin ToSet(Tail(s))
<1> DEFINE t == Tail(s)
<1>1. /\ Head(s) \in T /\ Head(s) = s[1]
      /\ t \in Seq(T) /\ Len(t) = Len(s) - 1
      /\ Len(s) \in Nat \ {0}
      /\ \A i \in 1..Len(t) : t[i] = s[i + 1]
  BY HeadTailProperties, EmptySeq
<1> HIDE DEF t
<1>2. \A f : f \in ToSet(t) <=> \E i \in 1..Len(t) : t[i] = f
  BY <1>1, InToSet
<1>3. \A f : f \in ToSet(s) <=> \E i \in 1..Len(s) : s[i] = f
  BY InToSet
<1>4. /\ \A i \in 1..Len(t) : i + 1 \in 1..Len(s) /\ i + 1 # 1
      /\ \A i \in 1..Len(s) : i = 1 \/ (i - 1 \in 1..Len(t) /\ (i - 1) + 1 = i)
      /\ 1 \in 1..Len(s)
  BY <1>1
<1>5. ToSet(s) = ToSet(t) \cup {Head(s)}
  <2>1. ASSUME NEW f \in ToSet(s), f # Head(s) PROVE f \in ToSet(t)
    <3>1. PICK i \in 1..Len(s) : s[i] = f
      BY <1>3, <2>1
    <3>2. i - 1 \in 1..Len(t) /\ t[i - 1] = f
      BY <1>1, <1>4, <2>1, <3>1
    <3>3. QED
      BY <1>2, <3>2
  <2>2. ASSUME NEW f \in ToSet(t) PROVE f \in ToSet(s)
    BY <1>1, <1>2, <1>3, <1>4, <2>2
  <2>3. Head(s) \in ToSet(s)
    BY <1>1, <1>3, <1>4
  <2>4. QED
    BY <2>1, <2>2, <2>3
<1>6. ASSUME NoRepeat(s) PROVE NoRepeat(t) /\ Head(s) \notin ToSet(t)
  <2>1. \A i \in 1..Len(t) : t[i] # s[1]
    BY <1>1, <1>4, <1>6 DEF NoRepeat
  <2>2. ASSUME NEW i \in 1..Len(t), NEW j \in 1..Len(t), t[i] = t[j] PROVE i = j
    <3>1. i + 1 = j + 1
      BY <1>1, <1>4, <1>6, <2>2 DEF NoRepeat
    <3>2. QED
      BY <3>1
  <2>3. QED
    BY <1>1, <1>2, <2>1, <2>2 DEF NoRepeat
<1>7. QED
  BY <1>1, <1>5, <1>6 DEF t

\* What Without keeps stays without repetition, and in its order.
LEMMA WithoutKeeps ==
  ASSUME NEW T, NEW s \in Seq(T), NEW S, NoRepeat(s)
  PROVE  NoRepeat(Without(s, S))
<1> DEFINE w == Without(s, S)
<1>1. PICK at \in [1..Len(w) -> 1..Len(s)] :
        /\ \A k \in 1..Len(w) : w[k] = s[at[k]]
        /\ \A k, l \in 1..Len(w) : k < l => at[k] < at[l]
  BY WithoutProperties
<1>2. w \in Seq(T) /\ Len(w) \in Nat /\ Len(s) \in Nat
  BY WithoutProperties, LenProperties
<1> HIDE DEF w
<1>3. SUFFICES ASSUME NEW i \in 1..Len(w), NEW j \in 1..Len(w), w[i] = w[j]
               PROVE  i = j
  BY DEF NoRepeat, w
<1>4. at[i] = at[j] /\ at[i] \in Int
  <2>1. at[i] \in 1..Len(s) /\ at[j] \in 1..Len(s)
    BY <1>1
  <2>2. s[at[i]] = s[at[j]]
    BY <1>1, <1>3
  <2>3. QED
    BY <2>1, <2>2 DEF NoRepeat
<1>5. ~ (i < j) /\ ~ (j < i)
  BY <1>1, <1>2, <1>4
<1>6. QED
  BY <1>2, <1>5
-----------------------------------------------------------------------------
\* The events of a tick are those of its messages, each once.
LEMMA BuildEventsAre ==
  ASSUME NEW E \in SUBSET Messages, NEW ms \in SetToSeqs(E)
  PROVE  /\ BuildEvents(ms) \in Seq(Events)
         /\ ToSet(BuildEvents(ms)) = UNION {EventsOf(m) : m \in E}
         /\ NoRepeat(BuildEvents(ms))
<1> DEFINE n     == Cardinality(E)
           half(i) == (i + 1) \div 2
           part(i) == IF i % 2 = 1 THEN UserA[ms[half(i)]] ELSE UserB[ms[half(i)]]
           es    == BuildEvents(ms)
<1>1. n \in Nat /\ IsFiniteSet(E)
  BY OutboxAssumption, FS_Subset, FS_CardinalityType
<1>2. ms \in [1..n -> E] /\ \A i, j \in 1..n : i # j => ms[i] # ms[j]
  BY DEF SetToSeqs
<1>3. Len(ms) = n
  BY <1>1, <1>2
<1>4. \A m \in E : \E k \in 1..n : ms[k] = m
  <2>1. IsFiniteSet(1..n) /\ Cardinality(1..n) = n
    BY <1>1, FS_Interval
  <2>2. ms \in Injection(1..n, E)
    BY <1>2, Zenon DEF Injection, IsInjective
  <2>3. ms \in Surjection(1..n, E)
    BY <1>1, <2>1, <2>2, FS_Injection
  <2>4. QED
    BY <2>3, Zenon DEF Surjection
<1>5. es = [i \in 1..(2 * n) |-> <<ms[half(i)], part(i)>>]
  BY <1>3 DEF BuildEvents
<1>6. \A i \in 1..(2 * n) : half(i) \in 1..n
  BY <1>1
<1> HIDE DEF half, es
<1>7. \A i \in 1..(2 * n) : es[i] \in EventsOf(ms[half(i)])
  BY <1>5 DEF EventsOf
<1>8. \A m \in E : EventsOf(m) \subseteq Events
  BY DEF Events
<1>9. \A i \in 1..(2 * n) : es[i] \in Events
  BY <1>2, <1>6, <1>7, <1>8
<1>10. es \in Seq(Events) /\ Len(es) = 2 * n /\ DOMAIN es = 1..(2 * n)
  <2>1. es \in [1..(2 * n) -> Events]
    BY <1>5, <1>9, Zenon
  <2>2. 2 * n \in Nat
    BY <1>1
  <2>3. QED
    BY <2>1, <2>2
<1>11. ToSet(es) = UNION {EventsOf(m) : m \in E}
  <2>1. ASSUME NEW m \in E PROVE EventsOf(m) \subseteq ToSet(es)
    <3>1. PICK k \in 1..n : ms[k] = m
      BY <1>4
    <3>2. /\ 2 * k \in 1..(2 * n) /\ half(2 * k) = k /\ (2 * k) % 2 = 0
          /\ 2 * k - 1 \in 1..(2 * n) /\ half(2 * k - 1) = k
          /\ (2 * k - 1) % 2 = 1
      BY <1>1 DEF half
    <3>3. es[2 * k] = <<m, UserB[m]>> /\ es[2 * k - 1] = <<m, UserA[m]>>
      BY <1>5, <3>1, <3>2
    <3>4. QED
      BY <1>10, <3>2, <3>3 DEF ToSet, EventsOf
  <2>2. \A i \in 1..(2 * n) : es[i] \in UNION {EventsOf(m) : m \in E}
    BY <1>2, <1>6, <1>7
  <2>3. ToSet(es) \subseteq UNION {EventsOf(m) : m \in E}
    BY <1>10, <2>2 DEF ToSet
  <2>4. QED
    BY <2>1, <2>3
<1>12. ASSUME NEW i \in 1..(2 * n), NEW j \in 1..(2 * n), es[i] = es[j]
       PROVE  i = j
  <2>1. ms[half(i)] = ms[half(j)] /\ part(i) = part(j)
    BY <1>5, <1>12
  <2>2. half(i) = half(j)
    BY <1>2, <1>6, <2>1
  <2>3. ms[half(i)] \in Messages
    BY <1>2, <1>6
  <2>4. UserA[ms[half(i)]] # UserB[ms[half(i)]]
    BY <2>3, OutboxAssumption
  <2>5. i % 2 = 1 <=> j % 2 = 1
    BY <2>1, <2>2, <2>4
  <2>6. QED
    BY <1>1, <2>2, <2>5 DEF half
<1>13. QED
  BY <1>10, <1>11, <1>12 DEF es, NoRepeat
-----------------------------------------------------------------------------
(* The invariant.                                                          *)

\* The hub keeps a list for each user an event can be for.
Registry == conns \in [Users \cup Served -> Seq(Conns)]

\* Two expirers never hold the same event, nor one that is in the table.
Once ==
  /\ NoRepeat(queue)
  /\ ToSet(queue) \cap processed = {}
  /\ \A e \in ToSet(queue) \cup processed : e[1] \in removed
  /\ \A x \in Expirers :
       /\ NoRepeat(unsaved[x])
       /\ ToSet(unsaved[x]) \cap (ToSet(queue) \cup processed) = {}
       /\ \A e \in ToSet(unsaved[x]) : e[1] \in removed
       /\ \A y \in Expirers \ {x} :
            ToSet(unsaved[x]) \cap ToSet(unsaved[y]) = {}

\* The poller's batch is the head of the queue, however much is inserted
\* behind it, and what it counts as sent has been handed over.
Claim ==
  /\ Len(batch) <= Len(queue)
  /\ \A i \in 1..Len(batch) : queue[i] = batch[i]
  /\ pc = "idle" => batch = << >>
  /\ pc \in {"send", "write"} => sent < Len(batch)
  /\ pc = "mark" => sent = Len(batch)
  /\ \A i \in 1..sent : batch[i] \in handed
  /\ pc = "write" => batch[sent + 1] \in handed

\* What has been handed over is processed or a head of the queue.
Handed ==
  /\ processed \subseteq handed
  /\ handed \subseteq ToSet(queue) \cup processed
  /\ \A i, j \in 1..Len(queue) :
       i < j /\ queue[j] \in handed => queue[i] \in handed

\* Those the Send under way has passed and that are still open have the event.
Told ==
  \A i \in 1..written : link[copied[i]] = "open" => copied[i] \in got

HubInv == HubTypeOK /\ Registry /\ Told

IInv ==
  TypeOK /\ Registry /\ Once /\ Claim /\ Handed /\ NothingLost /\ Told
-----------------------------------------------------------------------------
(* The steps of the hub.                                                   *)

\* A new connection is on its user's list and on no list a Send has copied.
LEMMA RegisterStep ==
  ASSUME HubInv, NEW c \in Conns, Register(c)
  PROVE  HubInv'
<1> DEFINE u == UserOf[c]
<1>1. u \in Served /\ conns[u] \in Seq(Conns)
  BY DEF HubInv, Registry, Served
<1>2. /\ Append(conns[u], c) \in Seq(Conns)
      /\ ToSet(Append(conns[u], c)) = ToSet(conns[u]) \cup {c}
  BY <1>1, AppendProperties, AppendKeeps
<1>3. /\ conns' \in [Users \cup Served -> Seq(Conns)]
      /\ \A v \in Users \cup Served :
           conns'[v] = IF v = u THEN Append(conns[u], c) ELSE conns[v]
  BY <1>1, <1>2 DEF HubInv, Registry, Register
<1>4. /\ link' \in [Conns -> {"none", "open", "dead", "closed"}]
      /\ \A d \in Conns : link'[d] = IF d = c THEN "open" ELSE link[d]
  BY DEF HubInv, HubTypeOK, Register
<1>5. ASSUME NEW v \in Served
      PROVE  /\ conns'[v] \in Seq(Conns)
             /\ \A d \in Conns :
                  d \in ToSet(conns'[v]) <=> UserOf[d] = v /\ link'[d] # "none"
  <2>1. CASE v = u
    BY <1>2, <1>3, <1>4, <1>5, <2>1 DEF HubInv, HubTypeOK
  <2>2. CASE v # u
    BY <1>3, <1>4, <1>5, <2>2 DEF HubInv, HubTypeOK
  <2>3. QED
    BY <2>1, <2>2
<1>6. HubTypeOK'
  BY <1>4, <1>5 DEF HubInv, HubTypeOK, Register
<1>7. Told'
  <2>1. copied \in Seq(Conns) /\ written \in 0..Len(copied) /\ Len(copied) \in Nat
    BY LenProperties DEF HubInv, HubTypeOK
  <2>2. \A i \in 1..written : copied[i] \in ToSet(copied) /\ copied[i] \in Conns
    BY <2>1, InToSet, ElementOfSeq
  <2>3. \A i \in 1..written : copied[i] # c
    BY <2>2 DEF Register
  <2>4. QED
    BY <1>4, <2>2, <2>3 DEF HubInv, Told, Register
<1>8. QED
  BY <1>3, <1>6, <1>7 DEF HubInv, Registry

\* A connection goes silent, or its Read fails.
LEMMA LinkStep ==
  ASSUME HubInv, NEW c \in Conns, PeerVanishes(c) \/ PeerCloses(c) \/ Heartbeat(c)
  PROVE  HubInv'
<1>1. /\ link[c] # "none" /\ link'[c] \in {"dead", "closed"}
      /\ link' \in [Conns -> {"none", "open", "dead", "closed"}]
      /\ \A d \in Conns \ {c} : link'[d] = link[d]
      /\ UNCHANGED <<conns, copied, written, got>>
  BY DEF HubInv, HubTypeOK, PeerVanishes, PeerCloses, Heartbeat, PingFailed
<1>2. HubTypeOK'
  BY <1>1 DEF HubInv, HubTypeOK
<1>3. Told'
  <2>1. copied \in Seq(Conns) /\ written \in 0..Len(copied) /\ Len(copied) \in Nat
    BY LenProperties DEF HubInv, HubTypeOK
  <2>2. \A i \in 1..written : copied[i] \in Conns
    BY <2>1, ElementOfSeq
  <2>3. QED
    BY <1>1, <2>2 DEF HubInv, Told
<1>4. QED
  BY <1>1, <1>2, <1>3 DEF HubInv, Registry

LEMMA UnregisterStep ==
  ASSUME HubInv, NEW c \in Conns, Unregister(c)
  PROVE  HubInv'
<1> DEFINE u == UserOf[c]
<1>1. u \in Served /\ conns[u] \in Seq(Conns)
  BY DEF HubInv, Registry, Served
<1>2. /\ Without(conns[u], {c}) \in Seq(Conns)
      /\ ToSet(Without(conns[u], {c})) = ToSet(conns[u]) \ {c}
  BY <1>1, WithoutProperties
<1>3. /\ conns' \in [Users \cup Served -> Seq(Conns)]
      /\ \A v \in Users \cup Served :
           conns'[v] = IF v = u THEN Without(conns[u], {c}) ELSE conns[v]
  BY <1>1, <1>2 DEF HubInv, Registry, Unregister
<1>4. /\ link' \in [Conns -> {"none", "open", "dead", "closed"}]
      /\ \A d \in Conns : link'[d] = IF d = c THEN "none" ELSE link[d]
  BY DEF HubInv, HubTypeOK, Unregister
<1>5. ASSUME NEW v \in Served
      PROVE  /\ conns'[v] \in Seq(Conns)
             /\ \A d \in Conns :
                  d \in ToSet(conns'[v]) <=> UserOf[d] = v /\ link'[d] # "none"
  <2>1. CASE v = u
    BY <1>2, <1>3, <1>4, <1>5, <2>1 DEF HubInv, HubTypeOK
  <2>2. CASE v # u
    BY <1>3, <1>4, <1>5, <2>2 DEF HubInv, HubTypeOK
  <2>3. QED
    BY <2>1, <2>2
<1>6. HubTypeOK'
  BY <1>4, <1>5 DEF HubInv, HubTypeOK, Unregister
<1>7. Told'
  <2>1. copied \in Seq(Conns) /\ written \in 0..Len(copied) /\ Len(copied) \in Nat
    BY LenProperties DEF HubInv, HubTypeOK
  <2>2. \A i \in 1..written : copied[i] \in Conns
    BY <2>1, ElementOfSeq
  <2>3. QED
    BY <1>4, <2>2 DEF HubInv, Told, Unregister
<1>8. QED
  BY <1>3, <1>6, <1>7 DEF HubInv, Registry

LEMMA ShutdownStep ==
  ASSUME HubInv, Shutdown
  PROVE  HubInv' /\ copied' = << >>
<1>1. /\ << >> \in Seq(Conns) /\ Len(<< >>) = 0 /\ ToSet(<< >>) = {}
  BY EmptySeq, InToSet
<1>2. /\ conns' \in [Users \cup Served -> Seq(Conns)]
      /\ \A v \in Users \cup Served : conns'[v] = << >>
  BY <1>1 DEF HubInv, Registry, Shutdown
<1>3. /\ link' \in [Conns -> {"none", "open", "dead", "closed"}]
      /\ \A d \in Conns : link'[d] = "none"
  BY DEF Shutdown
<1>4. HubTypeOK'
  BY <1>1, <1>2, <1>3 DEF HubTypeOK, Shutdown
<1>5. QED
  BY <1>2, <1>4 DEF HubInv, Registry, Told, Shutdown

\* The list is copied when the last Send has ended.
LEMMA BeginSendStep ==
  ASSUME HubInv, copied = << >>, NEW u \in Users \cup Served, BeginSend(u)
  PROVE  HubInv'
<1>1. conns[u] \in Seq(Conns) /\ Len(conns[u]) \in Nat
  BY LenProperties DEF HubInv, Registry
<1>2. written = 0 /\ got = {}
  <2>1. Len(copied) = 0 /\ ToSet(copied) = {}
    BY EmptySeq, InToSet
  <2>2. QED
    BY <2>1 DEF HubInv, HubTypeOK
<1>3. HubTypeOK'
  BY <1>1, <1>2 DEF HubInv, HubTypeOK, BeginSend
<1>4. QED
  BY <1>2, <1>3 DEF HubInv, Registry, Told, BeginSend

\* A round of Send's loop: it ends with the last connection, and every one
\* passed so far that is still open has the event.
LEMMA AdvanceStep ==
  ASSUME HubInv, written < Len(copied), UNCHANGED <<link, conns>>,
         NEW reached \in SUBSET {Target}, Advance(written + 1, reached),
         link[Target] = "open" => Target \in reached
  PROVE  /\ HubInv'
         /\ copied' \in {copied, << >>}
         /\ copied' = << >> =>
              \A c \in ToSet(copied) : link'[c] = "open" => c \in got \cup {Target}
<1>1. /\ copied \in Seq(Conns) /\ Len(copied) \in Nat /\ written \in 0..Len(copied)
      /\ got \subseteq ToSet(copied)
  BY LenProperties DEF HubInv, HubTypeOK
<1>2. written + 1 \in 1..Len(copied) /\ Target \in ToSet(copied)
  BY <1>1, InToSet DEF Target
<1>3. \A i \in 1..(written + 1) : i \in 1..written \/ i = written + 1
  BY <1>1
<1>4. CASE written + 1 = Len(copied)
  <2>1. copied' = << >> /\ written' = 0 /\ got' = {}
    BY <1>4 DEF Advance, EndSend
  <2>2. << >> \in Seq(Conns) /\ Len(<< >>) = 0 /\ ToSet(<< >>) = {}
    BY EmptySeq, InToSet
  <2>3. HubTypeOK'
    BY <2>1, <2>2 DEF HubInv, HubTypeOK
  <2>4. ASSUME NEW c \in ToSet(copied), link'[c] = "open"
        PROVE  c \in got \cup {Target}
    <3>1. PICK i \in 1..Len(copied) : copied[i] = c
      BY <1>1, InToSet
    <3>2. CASE i \in 1..written
      BY <2>4, <3>1, <3>2 DEF HubInv, Told
    <3>3. CASE i = written + 1
      BY <3>1, <3>3 DEF Target
    <3>4. QED
      BY <1>3, <1>4, <3>2, <3>3
  <2>5. QED
    BY <2>1, <2>3, <2>4 DEF HubInv, Registry, Told
<1>5. CASE written + 1 # Len(copied)
  <2>1. written' = written + 1 /\ got' = got \cup reached /\ copied' = copied
    BY <1>5 DEF Advance
  <2>2. HubTypeOK'
    BY <1>1, <1>2, <2>1 DEF HubInv, HubTypeOK
  <2>3. ASSUME NEW i \in 1..(written + 1), link[copied[i]] = "open"
        PROVE  copied[i] \in got \cup reached
    <3>1. CASE i \in 1..written
      BY <2>3, <3>1 DEF HubInv, Told
    <3>2. CASE i = written + 1
      BY <2>3, <3>2 DEF Target
    <3>3. QED
      BY <1>3, <3>1, <3>2
  <2>4. copied # << >>
    BY <1>1, <1>2, EmptySeq
  <2>5. QED
    BY <2>1, <2>2, <2>3, <2>4 DEF HubInv, Registry, Told
<1>6. QED
  BY <1>4, <1>5

LEMMA WriteStep ==
  ASSUME HubInv, Write \/ WriteSwallowed
  PROVE  /\ HubInv'
         /\ copied' \in {copied, << >>}
         /\ copied' = << >> =>
              \A c \in ToSet(copied) : link'[c] = "open" => c \in got \cup {Target}
<1>1. written < Len(copied) /\ UNCHANGED <<link, conns>>
  BY DEF Write, WriteSwallowed
<1>2. \/ link[Target] = "open" /\ Advance(written + 1, {Target})
      \/ link[Target] # "open" /\ Advance(written + 1, {})
  BY DEF Write, WriteSwallowed, AfterError
<1>3. QED
  BY <1>1, <1>2, AdvanceStep
-----------------------------------------------------------------------------
(* The initial state and type correctness.                                 *)

LEMMA InitInv == Init => IInv
<1> SUFFICES ASSUME Init PROVE IInv
  OBVIOUS
<1>1. /\ Len(<< >>) = 0 /\ ToSet(<< >>) = {}
      /\ \A T : << >> \in Seq(T)
  BY EmptySeq, InToSet
<1>2. \A u \in Served : conns[u] = << >>
  BY DEF Init, HubInit
<1>3. HubTypeOK
  BY <1>1, <1>2 DEF Init, HubInit, HubTypeOK
<1>4. Registry
  BY <1>1 DEF Init, HubInit, Registry
<1>5. TypeOK
  BY <1>1, <1>3, OutboxAssumption DEF Init, HubInit, TypeOK
<1>6. Once /\ Claim /\ Handed
  BY <1>1 DEF Init, Once, Claim, Handed, NoRepeat
<1>7. NothingLost /\ Told
  BY DEF Init, HubInit, NothingLost, Told
<1>8. QED
  BY <1>3, <1>4, <1>5, <1>6, <1>7 DEF IInv

\* An event's place in the poller's round: the last one ends it.
LEMMA EventDoneType ==
  ASSUME TypeOK, sent < Len(batch), EventDone
  PROVE  sent' \in 0..Len(batch) /\ pc' \in {"send", "mark"}
<1>1. Len(batch) \in Nat
  BY LenProperties DEF TypeOK
<1>2. QED
  BY <1>1 DEF TypeOK, EventDone

LEMMA ClaimedIs ==
  ASSUME queue \in Seq(Events), queue # << >>
  PROVE  /\ Claimed \in Seq(Events)
         /\ Len(Claimed) \in 1..Len(queue)
         /\ Len(Claimed) <= DeliverBatch
         /\ \A i \in 1..Len(Claimed) : Claimed[i] = queue[i]
<1> DEFINE n == Smaller(Len(queue), DeliverBatch)
<1>1. Len(queue) \in Nat \ {0} /\ DeliverBatch \in Nat \ {0}
  BY EmptySeq, OutboxAssumption
<1>2. n \in 1..Len(queue) /\ n <= DeliverBatch
  BY <1>1 DEF Smaller
<1>3. \A i \in 1..n : queue[i] \in Events
  BY <1>1, <1>2, ElementOfSeq
<1>4. /\ Claimed \in Seq(Events)
      /\ Len(Claimed) = IF 1 <= n THEN n - 1 + 1 ELSE 0
      /\ \A i \in 1..(n - 1 + 1) : Claimed[i] = queue[1 + i - 1]
  BY <1>2, <1>3, SubSeqProperties DEF Claimed
<1>5. Len(Claimed) = n /\ \A i \in 1..n : Claimed[i] = queue[i]
  BY <1>2, <1>4
<1>6. QED
  BY <1>2, <1>4, <1>5

LEMMA TypeStep ==
  ASSUME TypeOK, HubInv, Claim, [Next]_vars
  PROVE  TypeOK' /\ HubInv'
<1> USE DEF expVars, pollVars, hubVars
<1>0. UNCHANGED hubVars => HubInv'
  BY DEF HubInv, HubTypeOK, Registry, Told
<1>00. /\ Len(batch) \in Nat /\ Len(<< >>) = 0
       /\ << >> \in Seq(Events)
  BY LenProperties, EmptySeq DEF TypeOK
<1>1. ASSUME NEW m \in Messages, TimeOut(m) PROVE TypeOK' /\ HubInv'
  BY <1>0, <1>1 DEF TimeOut, TypeOK, HubInv
<1>2. ASSUME NEW x \in Expirers, ExpireMessages(x) PROVE TypeOK' /\ HubInv'
  <2>0. PICK E \in SUBSET Removable :
          /\ removed' = removed \cup E
          /\ \E ms \in SetToSeqs(E) :
               unsaved' = [unsaved EXCEPT ![x] = BuildEvents(ms)]
    BY <1>2 DEF ExpireMessages
  <2>1. PICK ms \in SetToSeqs(E) :
          unsaved' = [unsaved EXCEPT ![x] = BuildEvents(ms)]
    BY <2>0
  <2>2. E \in SUBSET Messages
    BY DEF Removable, TypeOK
  <2>3. BuildEvents(ms) \in Seq(Events)
    BY <2>2, BuildEventsAre
  <2>4. unsaved' \in [Expirers -> Seq(Events)] /\ removed' \subseteq timedOut
    BY <2>0, <2>1, <2>3 DEF TypeOK, Removable
  <2>5. QED
    BY <1>0, <1>2, <2>4 DEF ExpireMessages, TypeOK, HubInv
<1>3. ASSUME NEW x \in Expirers, InsertEvent(x) PROVE TypeOK' /\ HubInv'
  <2>1. unsaved[x] \in Seq(Events) /\ unsaved[x] # << >>
    BY <1>3 DEF InsertEvent, TypeOK
  <2>2. Head(unsaved[x]) \in Events /\ Tail(unsaved[x]) \in Seq(Events)
    BY <2>1, TailKeeps
  <2>3. unsaved' \in [Expirers -> Seq(Events)] /\ queue' \in Seq(Events)
    BY <1>3, <2>2, AppendProperties DEF InsertEvent, TypeOK
  <2>4. QED
    BY <1>0, <1>3, <2>3 DEF InsertEvent, TypeOK, HubInv
<1>4. ASSUME NEW x \in Expirers, AbandonTick(x) PROVE TypeOK' /\ HubInv'
  <2>1. ToSet(unsaved[x]) \subseteq Events
    BY InToSet DEF TypeOK
  <2>2. QED
    BY <1>0, <1>00, <1>4, <2>1 DEF AbandonTick, TypeOK, HubInv
<1>5. CASE ClaimBatch
  <2>1. batch' \in Seq(Events) /\ Len(batch') <= DeliverBatch /\ 0 \in 0..Len(batch')
    BY <1>5, ClaimedIs DEF ClaimBatch, TypeOK
  <2>2. QED
    BY <1>0, <1>5, <2>1 DEF ClaimBatch, TypeOK, HubInv
<1>6. CASE SendEvent
  <2>1. sent + 1 \in 1..Len(batch) /\ sent < Len(batch)
    BY <1>00, <1>6 DEF SendEvent, Claim, TypeOK
  <2>2. batch[sent + 1] \in Events
    BY <2>1, ElementOfSeq DEF TypeOK
  <2>3. batch[sent + 1][2] \in Users \cup Served /\ copied = << >>
    BY <1>6, <2>2 DEF Users, SendEvent, TypeOK
  <2>4. HubInv'
    BY <1>6, <2>3, BeginSendStep DEF SendEvent
  <2>5. /\ sent' \in 0..Len(batch) /\ pc' \in {"idle", "send", "write", "mark"}
        /\ copied' # << >> <=> pc' = "write"
    BY <1>6, <2>1, EventDoneType DEF SendEvent, TypeOK
  <2>6. QED
    BY <1>6, <2>2, <2>4, <2>5 DEF SendEvent, TypeOK, HubInv
<1>7. ASSUME InSend(Write) \/ InSend(WriteSwallowed) PROVE TypeOK' /\ HubInv'
  <2>1. (Write \/ WriteSwallowed) /\ pc = "write" /\ sent < Len(batch)
    BY <1>7 DEF InSend, Claim
  <2>2. HubInv' /\ copied' \in {copied, << >>}
    BY <2>1, WriteStep
  <2>3. /\ sent' \in 0..Len(batch) /\ pc' \in {"idle", "send", "write", "mark"}
        /\ copied' # << >> <=> pc' = "write"
    BY <1>7, <2>1, <2>2, EventDoneType DEF InSend, TypeOK
  <2>4. QED
    BY <1>7, <2>2, <2>3 DEF InSend, TypeOK, HubInv
<1>8. CASE MarkProcessedBatch
  <2>1. /\ queue' \in Seq(Events) /\ processed' \subseteq Events
    BY <1>8, WithoutProperties, InToSet DEF MarkProcessedBatch, MarkedIds, TypeOK
  <2>2. QED
    BY <1>0, <1>00, <1>8, <2>1, OutboxAssumption
    DEF MarkProcessedBatch, Release, TypeOK, HubInv
<1>9. CASE MarkFails
  BY <1>0, <1>00, <1>9, OutboxAssumption DEF MarkFails, Release, TypeOK, HubInv
<1>10. CASE Restart
  <2>1. HubInv' /\ copied' = << >>
    BY <1>10, ShutdownStep DEF Restart
  <2>2. QED
    BY <1>00, <1>10, <2>1, OutboxAssumption DEF Restart, Release, TypeOK, HubInv
<1>11. ASSUME NEW c \in Conns, Peer(c) \/ TearDown(c) PROVE TypeOK' /\ HubInv'
  <2>1. Register(c) \/ (PeerVanishes(c) \/ PeerCloses(c) \/ Heartbeat(c))
        \/ Unregister(c)
    BY <1>11 DEF Peer, TearDown, Beside
  <2>2. HubInv'
    BY <2>1, RegisterStep, LinkStep, UnregisterStep
  <2>3. copied' = copied
    BY <2>1 DEF Register, PeerVanishes, PeerCloses, Heartbeat, Unregister
  <2>4. QED
    BY <1>11, <2>2, <2>3 DEF Peer, TearDown, Beside, TypeOK, HubInv
<1>12. CASE UNCHANGED vars
  BY <1>0, <1>12 DEF vars, TypeOK, HubInv
<1>13. QED
  BY <1>1, <1>2, <1>3, <1>4, <1>5, <1>6, <1>7, <1>8, <1>9, <1>10, <1>11, <1>12
  DEF Next, Expire, Poll, BlockedWrite
-----------------------------------------------------------------------------
(* The way of an event.                                                    *)

Delivery == Once /\ Claim /\ Handed /\ NothingLost

LEMMA ExpireStep ==
  ASSUME TypeOK, Delivery, NEW x \in Expirers, ExpireMessages(x)
  PROVE  Delivery'
<1>1. PICK E \in SUBSET Removable :
        /\ removed' = removed \cup E
        /\ \E ms \in SetToSeqs(E) :
             unsaved' = [unsaved EXCEPT ![x] = BuildEvents(ms)]
  BY DEF ExpireMessages
<1>2. PICK ms \in SetToSeqs(E) :
        unsaved' = [unsaved EXCEPT ![x] = BuildEvents(ms)]
  BY <1>1
<1> DEFINE new == BuildEvents(ms)
<1>3. E \subseteq Messages /\ E \cap removed = {}
  BY DEF Removable, TypeOK
<1>4. /\ ToSet(new) = UNION {EventsOf(m) : m \in E}
      /\ NoRepeat(new)
  BY <1>3, BuildEventsAre
<1> HIDE DEF new
<1>5. \A e \in ToSet(new) : e[1] \in E
  BY <1>4 DEF EventsOf
<1>6. /\ unsaved'[x] = new
      /\ \A y \in Expirers \ {x} : unsaved'[y] = unsaved[y]
  BY <1>2 DEF TypeOK, new
<1>7. /\ unsaved[x] = << >> /\ ToSet(unsaved[x]) = {}
      /\ UNCHANGED <<abandoned, queue, processed, pollVars, handed>>
  BY InToSet DEF ExpireMessages, TypeOK
<1>8. Once'
  <2>1. ToSet(new) \cap (ToSet(queue) \cup processed) = {}
    BY <1>3, <1>5 DEF Delivery, Once
  <2>2. \A y \in Expirers : ToSet(new) \cap ToSet(unsaved[y]) = {}
    BY <1>3, <1>5 DEF Delivery, Once
  <2>3. ASSUME NEW y \in Expirers
        PROVE  /\ NoRepeat(unsaved'[y])
               /\ ToSet(unsaved'[y]) \cap (ToSet(queue) \cup processed) = {}
               /\ \A e \in ToSet(unsaved'[y]) : e[1] \in removed'
               /\ \A z \in Expirers \ {y} :
                    ToSet(unsaved'[y]) \cap ToSet(unsaved'[z]) = {}
    <3>1. CASE y = x
      BY <1>1, <1>4, <1>5, <1>6, <2>1, <2>2, <3>1
    <3>2. CASE y # x
      BY <1>1, <1>6, <2>2, <3>2 DEF Delivery, Once
    <3>3. QED
      BY <3>1, <3>2
  <2>4. QED
    BY <1>1, <1>7, <2>3 DEF Delivery, Once
<1>9. Claim' /\ Handed'
  BY <1>7 DEF Delivery, Claim, Handed, pollVars
<1>10. NothingLost'
  <2>1. ASSUME NEW m \in removed \cup E, NEW e \in EventsOf(m) \ abandoned
        PROVE  \/ \E y \in Expirers : e \in ToSet(unsaved'[y])
               \/ e \in ToSet(queue)
               \/ e \in processed \cap handed
    <3>1. CASE m \in E
      BY <1>4, <1>6, <3>1
    <3>2. CASE m \in removed
      BY <1>6, <1>7, <3>2 DEF Delivery, NothingLost, Announced, Waiting
    <3>3. QED
      BY <3>1, <3>2
  <2>2. QED
    BY <1>1, <1>7, <2>1 DEF NothingLost, Announced, Waiting
<1>11. QED
  BY <1>8, <1>9, <1>10 DEF Delivery

LEMMA InsertStep ==
  ASSUME TypeOK, Delivery, NEW x \in Expirers, InsertEvent(x)
  PROVE  Delivery'
<1> DEFINE h == Head(unsaved[x])
           t == Tail(unsaved[x])
<1>1. unsaved[x] \in Seq(Events) /\ unsaved[x] # << >> /\ queue \in Seq(Events)
  BY DEF InsertEvent, TypeOK
<1>2. /\ h \in Events /\ t \in Seq(Events)
      /\ ToSet(unsaved[x]) = ToSet(t) \cup {h}
      /\ NoRepeat(t) /\ h \notin ToSet(t)
  BY <1>1, TailKeeps DEF Delivery, Once
<1>3. h \notin ToSet(queue) /\ h \notin processed /\ h[1] \in removed
  BY <1>2 DEF Delivery, Once
<1>4. /\ queue' = Append(queue, h)
      /\ unsaved' = [unsaved EXCEPT ![x] = t]
      /\ UNCHANGED <<removed, abandoned, processed, pollVars, handed>>
  BY DEF InsertEvent
<1> HIDE DEF h, t
<1>5. /\ ToSet(queue') = ToSet(queue) \cup {h} /\ NoRepeat(queue')
      /\ Len(queue') = Len(queue) + 1 /\ Len(queue) \in Nat
      /\ \A i \in 1..Len(queue) : queue'[i] = queue[i]
      /\ queue'[Len(queue) + 1] = h
  BY <1>1, <1>2, <1>3, <1>4, AppendKeeps, AppendProperties, LenProperties
  DEF Delivery, Once
<1>6. /\ unsaved'[x] = t
      /\ \A y \in Expirers \ {x} : unsaved'[y] = unsaved[y]
  BY <1>4 DEF TypeOK
<1>7. Once'
  <2>1. \A y \in Expirers \ {x} : h \notin ToSet(unsaved[y])
    BY <1>2 DEF Delivery, Once
  <2>2. ASSUME NEW y \in Expirers
        PROVE  /\ NoRepeat(unsaved'[y])
               /\ ToSet(unsaved'[y]) \cap (ToSet(queue') \cup processed) = {}
               /\ \A e \in ToSet(unsaved'[y]) : e[1] \in removed
               /\ \A z \in Expirers \ {y} :
                    ToSet(unsaved'[y]) \cap ToSet(unsaved'[z]) = {}
    <3>1. CASE y = x
      BY <1>2, <1>5, <1>6, <3>1 DEF Delivery, Once
    <3>2. CASE y # x
      BY <1>2, <1>5, <1>6, <2>1, <3>2 DEF Delivery, Once
    <3>3. QED
      BY <3>1, <3>2
  <2>3. /\ ToSet(queue') \cap processed = {}
        /\ \A e \in ToSet(queue') \cup processed : e[1] \in removed
    BY <1>3, <1>5 DEF Delivery, Once
  <2>4. QED
    BY <1>4, <1>5, <2>2, <2>3 DEF Once
<1>8. Claim'
  <2>1. Len(batch) \in Nat
    BY LenProperties DEF TypeOK
  <2>2. \A i \in 1..Len(batch) : i \in 1..Len(queue)
    BY <1>5, <2>1 DEF Delivery, Claim
  <2>3. QED
    BY <1>4, <1>5, <2>1, <2>2 DEF Delivery, Claim, pollVars
<1>9. Handed'
  <2>1. h \notin handed
    BY <1>3 DEF Delivery, Handed
  <2>2. \A i, j \in 1..Len(queue') :
          i < j => i \in 1..Len(queue) /\ (j \in 1..Len(queue) \/ j = Len(queue) + 1)
    BY <1>5
  <2>3. QED
    BY <1>4, <1>5, <2>1, <2>2 DEF Delivery, Handed
<1>10. NothingLost'
  <2>1. ASSUME NEW m \in removed, NEW e \in EventsOf(m) \ abandoned
        PROVE  \/ \E y \in Expirers : e \in ToSet(unsaved'[y])
               \/ e \in ToSet(queue')
               \/ e \in processed \cap handed
    BY <1>2, <1>5, <1>6 DEF Delivery, NothingLost, Announced, Waiting
  <2>2. QED
    BY <1>4, <2>1 DEF NothingLost, Announced, Waiting
<1>11. QED
  BY <1>7, <1>8, <1>9, <1>10 DEF Delivery

LEMMA AbandonStep ==
  ASSUME TypeOK, Delivery, NEW x \in Expirers, AbandonTick(x)
  PROVE  Delivery'
<1>1. /\ unsaved' = [unsaved EXCEPT ![x] = << >>]
      /\ abandoned' = abandoned \cup ToSet(unsaved[x])
      /\ UNCHANGED <<removed, queue, processed, pollVars, handed>>
  BY DEF AbandonTick
<1>2. /\ unsaved'[x] = << >>
      /\ \A y \in Expirers \ {x} : unsaved'[y] = unsaved[y]
  BY <1>1 DEF TypeOK
<1>3. ToSet(<< >>) = {} /\ NoRepeat(<< >>)
  BY EmptySeq, InToSet DEF NoRepeat
<1>4. Once'
  BY <1>1, <1>2, <1>3 DEF Delivery, Once
<1>5. Claim' /\ Handed'
  BY <1>1 DEF Delivery, Claim, Handed, pollVars
<1>6. NothingLost'
  <2>1. ASSUME NEW m \in removed, NEW e \in EventsOf(m) \ abandoned'
        PROVE  \/ \E y \in Expirers : e \in ToSet(unsaved'[y])
               \/ e \in ToSet(queue)
               \/ e \in processed \cap handed
    BY <1>1, <1>2 DEF Delivery, NothingLost, Announced, Waiting
  <2>2. QED
    BY <1>1, <2>1 DEF NothingLost, Announced, Waiting
<1>7. QED
  BY <1>4, <1>5, <1>6 DEF Delivery

\* The hub is handed the next event of the queue, not one behind it.
LEMMA SendEventStep ==
  ASSUME TypeOK, Delivery, SendEvent
  PROVE  Delivery'
<1> DEFINE e == batch[sent + 1]
<1>1. /\ Len(batch) \in Nat /\ Len(queue) \in Nat /\ sent \in 0..Len(batch)
      /\ sent < Len(batch) /\ Len(batch) <= Len(queue)
  BY LenProperties DEF TypeOK, SendEvent, Delivery, Claim
<1>2. sent + 1 \in 1..Len(batch) /\ sent + 1 \in 1..Len(queue) /\ e = queue[sent + 1]
  BY <1>1 DEF Delivery, Claim
<1>3. /\ handed' = handed \cup {e}
      /\ UNCHANGED <<expVars, queue, processed, batch>>
      /\ EventDone \/ (pc' = "write" /\ sent' = sent)
  BY DEF SendEvent
<1> HIDE DEF e
<1>4. e \in ToSet(queue)
  BY <1>2, InToSet DEF TypeOK
<1>5. Claim'
  <2>1. CASE pc' = "write" /\ sent' = sent
    BY <1>1, <1>2, <1>3, <2>1 DEF Delivery, Claim, e
  <2>2. CASE EventDone
    <3>1. sent' = sent + 1 /\ pc' \in {"mark", "send"}
          /\ (pc' = "mark" <=> sent + 1 = Len(batch))
      BY <2>2 DEF EventDone
    <3>2. \A i \in 1..sent' : i \in 1..sent \/ i = sent + 1
      BY <1>1, <3>1
    <3>3. \A i \in 1..sent' : batch[i] \in handed'
      BY <1>3, <3>2 DEF Delivery, Claim, e
    <3>4. sent' <= Len(batch) /\ (pc' = "send" => sent' < Len(batch))
      BY <1>1, <3>1
    <3>5. QED
      BY <1>3, <3>1, <3>3, <3>4 DEF Delivery, Claim
  <2>3. QED
    BY <1>3, <2>1, <2>2
<1>6. Handed'
  <2>1. ASSUME NEW i \in 1..Len(queue), NEW j \in 1..Len(queue),
               i < j, queue[j] \in handed \cup {e}
        PROVE  queue[i] \in handed
    <3>1. CASE queue[j] \in handed
      BY <2>1, <3>1 DEF Delivery, Handed
    <3>2. CASE queue[j] = e
      <4>1. j = sent + 1
        BY <1>2, <3>2 DEF Delivery, Once, NoRepeat
      <4>2. i \in 1..sent /\ i \in 1..Len(batch)
        BY <1>1, <2>1, <4>1
      <4>3. QED
        BY <4>2 DEF Delivery, Claim
    <3>3. QED
      BY <2>1, <3>1, <3>2
  <2>2. QED
    BY <1>3, <1>4, <2>1 DEF Delivery, Handed
<1>7. Once' /\ NothingLost'
  BY <1>3 DEF Delivery, Once, NothingLost, Announced, Waiting, expVars
<1>8. QED
  BY <1>5, <1>6, <1>7 DEF Delivery

LEMMA InSendStep ==
  ASSUME TypeOK, Delivery, InSend(Write) \/ InSend(WriteSwallowed)
  PROVE  Delivery'
<1>1. /\ pc = "write"
      /\ EventDone \/ UNCHANGED <<pc, sent>>
      /\ UNCHANGED <<expVars, queue, processed, batch, handed>>
  BY DEF InSend
<1>2. Len(batch) \in Nat /\ sent \in 0..Len(batch) /\ sent < Len(batch)
  BY <1>1, LenProperties DEF TypeOK, Delivery, Claim
<1>3. Claim'
  <2>1. CASE UNCHANGED <<pc, sent>>
    BY <1>1, <2>1 DEF Delivery, Claim
  <2>2. CASE EventDone
    <3>1. sent' = sent + 1 /\ pc' \in {"mark", "send"}
          /\ (pc' = "mark" <=> sent + 1 = Len(batch))
      BY <2>2 DEF EventDone
    <3>2. \A i \in 1..sent' : i \in 1..sent \/ i = sent + 1
      BY <1>2, <3>1
    <3>3. \A i \in 1..sent' : batch[i] \in handed
      BY <1>1, <3>2 DEF Delivery, Claim
    <3>4. pc' = "send" => sent' < Len(batch)
      BY <1>2, <3>1
    <3>5. QED
      BY <1>1, <3>1, <3>3, <3>4 DEF Delivery, Claim
  <2>3. QED
    BY <1>1, <2>1, <2>2
<1>4. QED
  BY <1>1, <1>3
  DEF Delivery, Once, Handed, NothingLost, Announced, Waiting, expVars

\* The rows that are marked are queued and have been handed over.
LEMMA MarkedAre ==
  ASSUME TypeOK, Delivery, MarkProcessedBatch
  PROVE  ToSet(batch) \subseteq ToSet(queue) /\ ToSet(batch) \subseteq handed
<1>1. /\ queue \in Seq(Events) /\ batch \in Seq(Events)
      /\ Len(batch) \in Nat /\ Len(queue) \in Nat
  BY LenProperties DEF TypeOK
<1>2. ASSUME NEW e \in ToSet(batch) PROVE e \in ToSet(queue) /\ e \in handed
  <2>1. PICK i \in 1..Len(batch) : batch[i] = e
    BY <1>1, InToSet
  <2>2. sent = Len(batch) /\ batch[i] \in handed
    BY <2>1 DEF MarkProcessedBatch, Delivery, Claim
  <2>3. i \in 1..Len(queue) /\ queue[i] = e
    BY <1>1, <2>1 DEF Delivery, Claim
  <2>4. QED
    BY <1>1, <2>1, <2>2, <2>3, InToSet
<1>3. QED
  BY <1>2

\* The rows that stay are those behind the batch, in their order.
LEMMA MarkStep ==
  ASSUME TypeOK, Delivery, MarkProcessedBatch
  PROVE  Delivery'
<1> DEFINE rest == Without(queue, ToSet(batch))
<1>1. queue \in Seq(Events) /\ batch \in Seq(Events) /\ NoRepeat(queue)
  BY DEF TypeOK, Delivery, Once
<1>2. /\ queue' = rest
      /\ processed' = processed \cup ToSet(batch)
      /\ pc' = "idle" /\ batch' = << >> /\ sent' = 0
      /\ UNCHANGED <<expVars, handed>>
  BY DEF MarkProcessedBatch, MarkedIds, Release
<1>3. /\ rest \in Seq(Events) /\ NoRepeat(rest)
      /\ ToSet(rest) = ToSet(queue) \ ToSet(batch)
  BY <1>1, WithoutProperties, WithoutKeeps
<1>4. PICK at \in [1..Len(rest) -> 1..Len(queue)] :
        /\ \A k \in 1..Len(rest) : rest[k] = queue[at[k]]
        /\ \A k, l \in 1..Len(rest) : k < l => at[k] < at[l]
  BY <1>1, WithoutProperties
<1>5. Len(rest) \in Nat /\ Len(batch) \in Nat /\ Len(queue) \in Nat
  BY <1>1, <1>3, LenProperties
<1> HIDE DEF rest
<1>6. ToSet(batch) \subseteq ToSet(queue) /\ ToSet(batch) \subseteq handed
  BY MarkedAre
<1>7. Once'
  BY <1>2, <1>3, <1>6 DEF Delivery, Once, expVars
<1>8. Claim'
  <2>1. Len(<< >>) = 0
    BY EmptySeq
  <2>2. QED
    BY <1>2, <1>5, <2>1 DEF Claim
<1>9. Handed'
  <2>1. ASSUME NEW k \in 1..Len(rest), NEW l \in 1..Len(rest),
               k < l, rest[l] \in handed
        PROVE  rest[k] \in handed
    <3>1. at[k] \in 1..Len(queue) /\ at[l] \in 1..Len(queue) /\ at[k] < at[l]
      BY <1>4, <2>1
    <3>2. rest[k] = queue[at[k]] /\ rest[l] = queue[at[l]]
      BY <1>4
    <3>3. QED
      BY <2>1, <3>1, <3>2 DEF Delivery, Handed
  <2>2. QED
    BY <1>2, <1>3, <1>6, <2>1 DEF Delivery, Handed
<1>10. NothingLost'
  <2>1. ASSUME NEW m \in removed, NEW e \in EventsOf(m) \ abandoned
        PROVE  \/ Waiting(e) # {}
               \/ e \in ToSet(rest)
               \/ e \in (processed \cup ToSet(batch)) \cap handed
    BY <1>3, <1>6 DEF Delivery, NothingLost, Announced
  <2>2. QED
    BY <1>2, <2>1 DEF NothingLost, Announced, Waiting, expVars
<1>11. QED
  BY <1>7, <1>8, <1>9, <1>10 DEF Delivery

LEMMA DeliveryStep ==
  ASSUME TypeOK, Delivery, [Next]_vars
  PROVE  Delivery'
<1>1. ASSUME UNCHANGED <<removed, unsaved, abandoned, queue, processed, pollVars, handed>>
      PROVE  Delivery'
  BY <1>1 DEF Delivery, Once, Claim, Handed, NothingLost, Announced, Waiting, pollVars
<1>2. CASE ClaimBatch
  <2>1. /\ pc' = "send" /\ batch' = Claimed /\ sent' = 0
        /\ UNCHANGED <<expVars, queue, processed, handed>>
        /\ queue \in Seq(Events) /\ queue # << >>
    BY <1>2 DEF ClaimBatch, TypeOK
  <2>2. /\ Len(batch') \in 1..Len(queue)
        /\ \A i \in 1..Len(batch') : batch'[i] = queue[i]
    BY <2>1, ClaimedIs
  <2>3. Claim'
    BY <2>1, <2>2 DEF Claim
  <2>4. QED
    BY <2>1, <2>3
    DEF Delivery, Once, Handed, NothingLost, Announced, Waiting, expVars
<1>3. CASE MarkFails \/ Restart
  <2>1. /\ pc' = "idle" /\ batch' = << >> /\ sent' = 0
        /\ UNCHANGED <<expVars, queue, processed, handed>>
    BY <1>3 DEF MarkFails, Restart, Release
  <2>2. Len(<< >>) = 0 /\ Len(queue) \in Nat
    BY EmptySeq, LenProperties DEF TypeOK
  <2>3. Claim'
    BY <2>1, <2>2 DEF Claim
  <2>4. QED
    BY <2>1, <2>3
    DEF Delivery, Once, Handed, NothingLost, Announced, Waiting, expVars
<1>4. ASSUME NEW m \in Messages, TimeOut(m) PROVE Delivery'
  BY <1>1, <1>4 DEF TimeOut
<1>5. ASSUME NEW c \in Conns, Peer(c) \/ TearDown(c) PROVE Delivery'
  BY <1>1, <1>5 DEF Peer, TearDown, Beside, expVars
<1>6. CASE UNCHANGED vars
  BY <1>1, <1>6 DEF vars, expVars
<1>7. QED
  BY <1>2, <1>3, <1>4, <1>5, <1>6, ExpireStep, InsertStep, AbandonStep,
     SendEventStep, InSendStep, MarkStep
  DEF Next, Expire, Poll, BlockedWrite

LEMMA Inductive == IInv /\ [Next]_vars => IInv'
<1> SUFFICES ASSUME IInv, [Next]_vars PROVE IInv'
  OBVIOUS
<1>1. TypeOK /\ HubInv /\ Delivery
  BY DEF IInv, TypeOK, HubInv, Delivery
<1>2. TypeOK' /\ HubInv'
  BY <1>1, TypeStep DEF Delivery
<1>3. Delivery'
  BY <1>1, DeliveryStep
<1>4. QED
  BY <1>2, <1>3 DEF IInv, HubInv, Delivery

LEMMA Invariance == Spec => []IInv
  BY InitInv, Inductive, PTL DEF Spec
-----------------------------------------------------------------------------
(* The theorems.                                                           *)

\* Type correctness of the queue, the poller and the hub.
THEOREM TypeCorrect == Spec => []TypeOK
<1>1. IInv => TypeOK
  BY DEF IInv
<1>2. QED
  BY <1>1, Invariance, PTL

LEMMA AtMostOne ==
  ASSUME NEW s, Len(s) \in Nat, NoRepeat(s), NEW e
  PROVE  LET I == {i \in 1..Len(s) : s[i] = e}
         IN  /\ Cardinality(I) \in {0, 1}
             /\ Cardinality(I) = 1 => \E i \in 1..Len(s) : s[i] = e
<1> DEFINE I == {i \in 1..Len(s) : s[i] = e}
<1>1. CASE I = {}
  BY <1>1, FS_EmptySet
<1>2. CASE I # {}
  <2>1. PICK i \in I : TRUE
    BY <1>2
  <2>2. I = {i}
    BY <2>1 DEF NoRepeat
  <2>3. Cardinality(I) = 1
    BY <2>2, FS_Singleton
  <2>4. QED
    BY <2>1, <2>3
<1>3. QED
  BY <1>1, <1>2

\* No event is announced twice: not by two expirers, nor by one that has
\* started again, nor by a row that is processed and still queued.
THEOREM EventsAreOnce == Spec => []EachEventOnce
<1>1. ASSUME IInv PROVE EachEventOnce
  <2>1. queue \in Seq(Events) /\ Len(queue) \in Nat
    BY <1>1, LenProperties DEF IInv, TypeOK
  <2>2. SUFFICES ASSUME NEW e \in Events
                 PROVE  /\ Cardinality({i \in 1..Len(queue) : queue[i] = e})
                             + Cardinality(Waiting(e))
                             + (IF e \in processed THEN 1 ELSE 0) <= 1
                        /\ e \in ToSet(queue) \cup processed => e[1] \in removed
    BY DEF EachEventOnce
  <2> DEFINE Q == {i \in 1..Len(queue) : queue[i] = e}
  <2>3. Cardinality(Q) \in {0, 1} /\ (Cardinality(Q) = 1 => e \in ToSet(queue))
    <3>1. NoRepeat(queue)
      BY <1>1 DEF IInv, Once
    <3>2. Cardinality(Q) \in {0, 1}
          /\ (Cardinality(Q) = 1 => \E i \in 1..Len(queue) : queue[i] = e)
      BY <2>1, <3>1, AtMostOne
    <3>3. QED
      BY <2>1, <3>2, InToSet
  <2>4. Cardinality(Waiting(e)) \in {0, 1}
        /\ (Cardinality(Waiting(e)) = 1 => \E x \in Expirers : e \in ToSet(unsaved[x]))
    <3>1. CASE Waiting(e) = {}
      BY <3>1, FS_EmptySet
    <3>2. CASE Waiting(e) # {}
      <4>1. PICK x \in Expirers : e \in ToSet(unsaved[x])
        BY <3>2 DEF Waiting
      <4>2. Waiting(e) = {x}
        BY <1>1, <4>1 DEF Waiting, IInv, Once
      <4>3. Cardinality(Waiting(e)) = 1
        BY <4>2, FS_Singleton
      <4>4. QED
        BY <4>1, <4>3
    <3>3. QED
      BY <3>1, <3>2
  <2> HIDE DEF Q
  <2>5. /\ ~ (e \in ToSet(queue) /\ e \in processed)
        /\ \A x \in Expirers : e \in ToSet(unsaved[x]) =>
             e \notin ToSet(queue) /\ e \notin processed
    BY <1>1 DEF IInv, Once
  <2>6. Cardinality(Q) + Cardinality(Waiting(e))
          + (IF e \in processed THEN 1 ELSE 0) <= 1
    BY <2>3, <2>4, <2>5
  <2>7. QED
    BY <1>1, <2>6 DEF IInv, Once, Q
<1>2. QED
  BY <1>1, Invariance, PTL

\* The two events of a message reach the hub in the order of their insertion.
THEOREM OrderKept == Spec => []HandedInOrder
<1>1. IInv => HandedInOrder
  BY DEF IInv, Handed, HandedInOrder
<1>2. QED
  BY <1>1, Invariance, PTL

\* A removal is announced to both users, unless its tick has failed between
\* its statements.
THEOREM NoneLost == Spec => []NothingLost
<1>1. IInv => NothingLost
  BY DEF IInv
<1>2. QED
  BY <1>1, Invariance, PTL

\* A Send skips no connection that stays open, whatever the others do.
THEOREM SendReachesOpen == Spec => OpenOnesAreTold
<1> DEFINE A == copied # << >> /\ copied' = << >> =>
                  \A c \in ToSet(copied) :
                    link'[c] = "open" => c \in got \cup {Target}
<1>1. ASSUME IInv, [Next]_vars PROVE [A]_vars
  <2>1. HubInv /\ TypeOK
    BY <1>1 DEF IInv, HubInv, TypeOK
  <2>2. SUFFICES ASSUME copied # << >>, copied' = << >>,
                        NEW c \in ToSet(copied), link'[c] = "open"
                 PROVE  c \in got \cup {Target}
    OBVIOUS
  <2>3. pc = "write" /\ c \in Conns
    BY <2>1, <2>2, InToSet DEF TypeOK, HubTypeOK
  <2>4. CASE Write \/ WriteSwallowed
    BY <2>1, <2>2, <2>4, WriteStep
  <2>5. CASE Shutdown
    BY <2>2, <2>3, <2>5 DEF Shutdown
  <2>6. ASSUME copied' = copied PROVE FALSE
    BY <2>2, <2>6
  <2>7. \/ Write \/ WriteSwallowed \/ Shutdown \/ copied' = copied
    BY <1>1, <2>3
    DEF Next, Expire, Poll, BlockedWrite, InSend, TimeOut, ExpireMessages,
        InsertEvent, AbandonTick, ClaimBatch, SendEvent, MarkProcessedBatch,
        MarkFails, Restart, Peer, TearDown, Beside, Register, PeerVanishes,
        PeerCloses, Heartbeat, Unregister, hubVars, vars
  <2>8. QED
    BY <2>4, <2>5, <2>6, <2>7
<1>2. QED
  BY <1>1, Invariance, PTL DEF Spec, OpenOnesAreTold
-----------------------------------------------------------------------------
(* The two participants of a message are served in order.                  *)

\* Second events of s come behind the first ones of their messages, or those
\* are in S.
FirstBefore(s, S) ==
  \A m \in Messages, j \in 1..Len(s) : s[j] = Promise!Second(m) =>
    \/ Promise!First(m) \in S
    \/ \E i \in 1..Len(s) : i < j /\ s[i] = Promise!First(m)

LEMMA BuildEventsInOrder ==
  ASSUME NEW E \in SUBSET Messages, NEW ms \in SetToSeqs(E)
  PROVE  FirstBefore(BuildEvents(ms), {})
<1> DEFINE n  == Cardinality(E)
           es == BuildEvents(ms)
<1>1. n \in Nat
  BY OutboxAssumption, FS_Subset, FS_CardinalityType
<1>2. ms \in [1..n -> E]
  BY DEF SetToSeqs
<1>3. Len(ms) = n
  BY <1>1, <1>2
<1>4. es = [i \in 1..(2 * n) |->
              LET m == ms[(i + 1) \div 2]
              IN  <<m, IF i % 2 = 1 THEN UserA[m] ELSE UserB[m]>>]
  BY <1>3 DEF BuildEvents
<1>5. Len(es) = 2 * n
  <2>1. 2 * n \in Nat
    BY <1>1
  <2> HIDE DEF n
  <2>2. QED
    BY <1>4, <2>1
<1> HIDE DEF es, n
<1>6. SUFFICES ASSUME NEW m \in Messages, NEW j \in 1..(2 * n),
                      es[j] = Promise!Second(m)
               PROVE  \E i \in 1..(2 * n) : i < j /\ es[i] = Promise!First(m)
  BY <1>5 DEF FirstBefore, es
<1>7. ms[(j + 1) \div 2] = m /\ j % 2 # 1
  BY <1>4, <1>6, OutboxAssumption DEF Promise!Second
<1>8. j - 1 \in 1..(2 * n) /\ (j - 1) % 2 = 1 /\ ((j - 1) + 1) \div 2 = (j + 1) \div 2
  BY <1>1, <1>7
<1>9. es[j - 1] = Promise!First(m)
  BY <1>4, <1>7, <1>8 DEF Promise!First
<1>10. QED
  BY <1>1, <1>8, <1>9

LEMMA FirstBeforeMore ==
  ASSUME NEW s, NEW S, NEW T, FirstBefore(s, S), S \subseteq T
  PROVE  FirstBefore(s, T)
BY DEF FirstBefore

LEMMA FirstBeforeAppend ==
  ASSUME NEW s \in Seq(Events), NEW S, NEW e \in Events, FirstBefore(s, S),
         \A m \in Messages :
           e = Promise!Second(m) => Promise!First(m) \in ToSet(s) \cup S
  PROVE  FirstBefore(Append(s, e), S)
<1> DEFINE t == Append(s, e)
<1>1. /\ Len(t) = Len(s) + 1 /\ Len(s) \in Nat
      /\ \A i \in 1..Len(s) : t[i] = s[i]
      /\ t[Len(s) + 1] = e
  BY AppendProperties, LenProperties
<1> HIDE DEF t
<1>2. SUFFICES ASSUME NEW m \in Messages, NEW j \in 1..Len(t),
                      t[j] = Promise!Second(m), Promise!First(m) \notin S
               PROVE  \E i \in 1..Len(t) : i < j /\ t[i] = Promise!First(m)
  BY DEF FirstBefore, t
<1>3. CASE j \in 1..Len(s)
  <2>1. PICK i \in 1..Len(s) : i < j /\ s[i] = Promise!First(m)
    BY <1>1, <1>2, <1>3 DEF FirstBefore
  <2>2. QED
    BY <1>1, <2>1
<1>4. CASE j = Len(s) + 1
  <2>1. PICK i \in 1..Len(s) : s[i] = Promise!First(m)
    BY <1>1, <1>2, <1>4, InToSet
  <2>2. QED
    BY <1>1, <1>4, <2>1
<1>5. QED
  BY <1>1, <1>3, <1>4

LEMMA FirstBeforeTail ==
  ASSUME NEW s \in Seq(Events), NEW S, s # << >>, FirstBefore(s, S)
  PROVE  /\ FirstBefore(Tail(s), S \cup {Head(s)})
         /\ \A m \in Messages :
              Head(s) = Promise!Second(m) => Promise!First(m) \in S
<1> DEFINE t == Tail(s)
<1>1. /\ Head(s) = s[1] /\ Len(t) = Len(s) - 1 /\ Len(s) \in Nat \ {0}
      /\ \A i \in 1..Len(t) : t[i] = s[i + 1]
  BY HeadTailProperties, EmptySeq
<1> HIDE DEF t
<1>2. \A m \in Messages : Head(s) = Promise!Second(m) => Promise!First(m) \in S
  BY <1>1 DEF FirstBefore
<1>3. ASSUME NEW m \in Messages, NEW j \in 1..Len(t),
             t[j] = Promise!Second(m), Promise!First(m) \notin S \cup {Head(s)}
      PROVE  \E i \in 1..Len(t) : i < j /\ t[i] = Promise!First(m)
  <2>1. j + 1 \in 1..Len(s) /\ s[j + 1] = Promise!Second(m)
    BY <1>1, <1>3
  <2>2. PICK i \in 1..Len(s) : i < j + 1 /\ s[i] = Promise!First(m)
    BY <1>3, <2>1 DEF FirstBefore
  <2>3. i # 1
    BY <1>1, <1>3, <2>2
  <2>4. i - 1 \in 1..Len(t) /\ (i - 1) + 1 = i /\ i - 1 < j
    BY <1>1, <2>2, <2>3
  <2>5. QED
    BY <1>1, <2>2, <2>4
<1>4. QED
  BY <1>2, <1>3 DEF FirstBefore, t

LEMMA FirstBeforeWithout ==
  ASSUME NEW s \in Seq(Events), NEW S, NEW R, NoRepeat(s), FirstBefore(s, S)
  PROVE  FirstBefore(Without(s, R), S \cup R)
<1> DEFINE w == Without(s, R)
<1>1. PICK at \in [1..Len(w) -> 1..Len(s)] :
        /\ \A k \in 1..Len(w) : w[k] = s[at[k]]
        /\ \A k, l \in 1..Len(w) : k < l => at[k] < at[l]
  BY WithoutProperties
<1>2. /\ w \in Seq(Events) /\ Len(w) \in Nat /\ Len(s) \in Nat
      /\ ToSet(w) = ToSet(s) \ R
  BY WithoutProperties, LenProperties
<1> HIDE DEF w
<1>3. SUFFICES ASSUME NEW m \in Messages, NEW k \in 1..Len(w),
                      w[k] = Promise!Second(m),
                      Promise!First(m) \notin S \cup R
               PROVE  \E l \in 1..Len(w) : l < k /\ w[l] = Promise!First(m)
  BY DEF FirstBefore, w
<1>4. at[k] \in 1..Len(s) /\ s[at[k]] = Promise!Second(m)
  BY <1>1, <1>3
<1>5. PICK i \in 1..Len(s) : i < at[k] /\ s[i] = Promise!First(m)
  BY <1>3, <1>4 DEF FirstBefore
<1>6. Promise!First(m) \in ToSet(w)
  BY <1>2, <1>3, <1>5, InToSet
<1>7. PICK l \in 1..Len(w) : w[l] = Promise!First(m)
  BY <1>2, <1>6, InToSet
<1>8. at[l] = i
  <2>1. at[l] \in 1..Len(s) /\ s[at[l]] = s[i]
    BY <1>1, <1>5, <1>7
  <2>2. QED
    BY <1>5, <2>1 DEF NoRepeat
<1>9. l < k
  <2>1. ~ (k < l) /\ k # l
    BY <1>1, <1>4, <1>5, <1>8
  <2>2. QED
    BY <1>2, <2>1
<1>10. QED
  BY <1>7, <1>9
-----------------------------------------------------------------------------
(* The abstract delivery.                                                  *)

InOrder ==
  /\ FirstBefore(queue, processed)
  /\ \A x \in Expirers : FirstBefore(unsaved[x], ToSet(queue) \cup processed)

\* What a failed tick has lost is nowhere else.
Lost ==
  \A e \in abandoned :
    /\ e[1] \in removed
    /\ e \notin ToSet(queue) \cup processed
    /\ \A x \in Expirers : e \notin ToSet(unsaved[x])

LEMMA InOrderStep ==
  ASSUME TypeOK, Delivery, InOrder, [Next]_vars
  PROVE  InOrder'
<1>1. ASSUME UNCHANGED <<unsaved, queue, processed>> PROVE InOrder'
  BY <1>1 DEF InOrder
<1>2. ASSUME NEW x \in Expirers, ExpireMessages(x) PROVE InOrder'
  <2>0. PICK E \in SUBSET Messages : \E ms \in SetToSeqs(E) :
          unsaved' = [unsaved EXCEPT ![x] = BuildEvents(ms)]
    BY <1>2 DEF ExpireMessages, Removable, TypeOK
  <2>1. PICK ms \in SetToSeqs(E) :
          unsaved' = [unsaved EXCEPT ![x] = BuildEvents(ms)]
    BY <2>0
  <2>2. FirstBefore(BuildEvents(ms), ToSet(queue) \cup processed)
    BY BuildEventsInOrder, FirstBeforeMore
  <2>3. \A y \in Expirers :
          unsaved'[y] = IF y = x THEN BuildEvents(ms) ELSE unsaved[y]
    BY <2>1 DEF TypeOK
  <2>4. UNCHANGED <<queue, processed>>
    BY <1>2 DEF ExpireMessages
  <2>5. QED
    BY <2>2, <2>3, <2>4 DEF InOrder
<1>3. ASSUME NEW x \in Expirers, InsertEvent(x) PROVE InOrder'
  <2> DEFINE h == Head(unsaved[x])
  <2>1. /\ unsaved[x] \in Seq(Events) /\ unsaved[x] # << >>
        /\ queue \in Seq(Events) /\ h \in Events
        /\ ToSet(Append(queue, h)) = ToSet(queue) \cup {h}
    BY <1>3, TailKeeps, AppendKeeps DEF InsertEvent, TypeOK
  <2>2. /\ queue' = Append(queue, h) /\ processed' = processed
        /\ \A y \in Expirers :
             unsaved'[y] = IF y = x THEN Tail(unsaved[x]) ELSE unsaved[y]
    BY <1>3 DEF InsertEvent, TypeOK
  <2>3. /\ FirstBefore(Tail(unsaved[x]), (ToSet(queue) \cup processed) \cup {h})
        /\ \A m \in Messages : h = Promise!Second(m) =>
             Promise!First(m) \in ToSet(queue) \cup processed
    BY <2>1, FirstBeforeTail DEF InOrder
  <2> HIDE DEF h
  <2>4. FirstBefore(queue', processed')
    BY <2>1, <2>2, <2>3, FirstBeforeAppend DEF InOrder
  <2>5. ASSUME NEW y \in Expirers
        PROVE  FirstBefore(unsaved'[y], ToSet(queue') \cup processed')
    <3>1. ToSet(queue') \cup processed' = (ToSet(queue) \cup processed) \cup {h}
      BY <2>1, <2>2
    <3>2. CASE y = x
      BY <2>2, <2>3, <3>1, <3>2
    <3>3. CASE y # x
      BY <2>2, <3>1, <3>3, FirstBeforeMore DEF InOrder
    <3>4. QED
      BY <3>2, <3>3
  <2>6. QED
    BY <2>4, <2>5 DEF InOrder
<1>4. ASSUME NEW x \in Expirers, AbandonTick(x) PROVE InOrder'
  <2>1. /\ UNCHANGED <<queue, processed>>
        /\ \A y \in Expirers : unsaved'[y] = IF y = x THEN << >> ELSE unsaved[y]
    BY <1>4 DEF AbandonTick, TypeOK
  <2>2. \A S : FirstBefore(<< >>, S)
    BY EmptySeq DEF FirstBefore
  <2>3. QED
    BY <2>1, <2>2 DEF InOrder
<1>5. CASE MarkProcessedBatch
  <2>1. /\ queue' = Without(queue, ToSet(batch))
        /\ processed' = processed \cup ToSet(batch)
        /\ UNCHANGED unsaved
        /\ queue \in Seq(Events) /\ NoRepeat(queue)
    BY <1>5 DEF MarkProcessedBatch, MarkedIds, expVars, TypeOK, Delivery, Once
  <2>2. FirstBefore(queue', processed')
    BY <2>1, FirstBeforeWithout DEF InOrder
  <2>3. ToSet(queue) \cup processed \subseteq ToSet(queue') \cup processed'
    BY <2>1, WithoutProperties
  <2>4. QED
    BY <2>1, <2>2, <2>3, FirstBeforeMore DEF InOrder
<1>6. QED
  BY <1>1, <1>2, <1>3, <1>4, <1>5
  DEF Next, Expire, Poll, BlockedWrite, TimeOut, ClaimBatch, SendEvent, InSend,
      MarkFails, Restart, Peer, TearDown, Beside, expVars, vars

LEMMA LostStep ==
  ASSUME TypeOK, Delivery, Lost, [Next]_vars
  PROVE  Lost'
<1>1. ASSUME UNCHANGED <<expVars, queue, processed>> PROVE Lost'
  BY <1>1 DEF Lost, expVars
<1>2. ASSUME NEW x \in Expirers, ExpireMessages(x) PROVE Lost'
  <2>1. PICK E \in SUBSET Removable :
          /\ removed' = removed \cup E
          /\ \E ms \in SetToSeqs(E) :
               unsaved' = [unsaved EXCEPT ![x] = BuildEvents(ms)]
    BY <1>2 DEF ExpireMessages
  <2>2. PICK ms \in SetToSeqs(E) :
          unsaved' = [unsaved EXCEPT ![x] = BuildEvents(ms)]
    BY <2>1
  <2>3. E \subseteq Messages /\ E \cap removed = {}
    BY DEF Removable, TypeOK
  <2>4. \A e \in ToSet(BuildEvents(ms)) : e[1] \in E
    BY <2>3, BuildEventsAre DEF EventsOf
  <2>5. \A y \in Expirers :
          unsaved'[y] = IF y = x THEN BuildEvents(ms) ELSE unsaved[y]
    BY <2>2 DEF TypeOK
  <2>6. UNCHANGED <<abandoned, queue, processed>>
    BY <1>2 DEF ExpireMessages
  <2>7. QED
    BY <2>1, <2>3, <2>4, <2>5, <2>6 DEF Lost
<1>3. ASSUME NEW x \in Expirers, InsertEvent(x) PROVE Lost'
  <2> DEFINE h == Head(unsaved[x])
  <2>1. /\ unsaved[x] \in Seq(Events) /\ unsaved[x] # << >>
        /\ ToSet(unsaved[x]) = ToSet(Tail(unsaved[x])) \cup {h}
        /\ ToSet(Append(queue, h)) = ToSet(queue) \cup {h}
    BY <1>3, TailKeeps, AppendKeeps DEF InsertEvent, TypeOK
  <2>2. /\ queue' = Append(queue, h)
        /\ UNCHANGED <<removed, abandoned, processed>>
        /\ \A y \in Expirers :
             unsaved'[y] = IF y = x THEN Tail(unsaved[x]) ELSE unsaved[y]
    BY <1>3 DEF InsertEvent, TypeOK
  <2> HIDE DEF h
  <2>3. QED
    BY <2>1, <2>2 DEF Lost
<1>4. ASSUME NEW x \in Expirers, AbandonTick(x) PROVE Lost'
  <2>1. /\ UNCHANGED <<removed, queue, processed>>
        /\ abandoned' = abandoned \cup ToSet(unsaved[x])
        /\ \A y \in Expirers : unsaved'[y] = IF y = x THEN << >> ELSE unsaved[y]
    BY <1>4 DEF AbandonTick, TypeOK
  <2>2. ToSet(<< >>) = {}
    BY InToSet, EmptySeq
  <2>3. QED
    BY <2>1, <2>2 DEF Lost, Delivery, Once
<1>5. CASE MarkProcessedBatch
  <2>1. /\ queue' = Without(queue, ToSet(batch))
        /\ processed' = processed \cup ToSet(batch)
        /\ UNCHANGED expVars
        /\ queue \in Seq(Events)
    BY <1>5 DEF MarkProcessedBatch, MarkedIds, TypeOK
  <2>2. ToSet(queue') \cup processed' = ToSet(queue) \cup processed
    BY <1>5, <2>1, WithoutProperties, MarkedAre
  <2>3. QED
    BY <2>1, <2>2 DEF Lost, expVars
<1>6. ASSUME NEW m \in Messages, TimeOut(m) PROVE Lost'
  BY <1>6 DEF TimeOut, Lost
<1>7. QED
  BY <1>1, <1>2, <1>3, <1>4, <1>5, <1>6
  DEF Next, Expire, Poll, BlockedWrite, ClaimBatch, SendEvent, InSend,
      MarkFails, Restart, Peer, TearDown, Beside, expVars, vars

PInv == IInv /\ InOrder /\ Lost

LEMMA SameEvents ==
  /\ Events = Promise!Events
  /\ \A m \in Messages : EventsOf(m) = {Promise!First(m), Promise!Second(m)}
  /\ \A e \in Events : e[1] \in Messages /\ e \in EventsOf(e[1])
  /\ \A m \in Messages : \A e \in EventsOf(m) : e \in Events /\ e[1] = m
<1>1. \A m \in Messages : EventsOf(m) = {Promise!First(m), Promise!Second(m)}
  BY DEF EventsOf, Promise!First, Promise!Second
<1>2. \A m \in Messages : \A e \in EventsOf(m) : e \in Events /\ e[1] = m
  BY DEF EventsOf, Events
<1>3. \A e \in Events : e[1] \in Messages /\ e \in EventsOf(e[1])
  BY DEF Events, EventsOf
<1>4. Events = Promise!Events
  BY <1>1 DEF Events, Promise!Events
<1>5. QED
  BY <1>1, <1>2, <1>3, <1>4

\* An event is in one phase, which its places determine.
Phases ==
  \A e \in Events :
    /\ Phase(e) = "owed" <=> \E x \in Expirers : e \in ToSet(unsaved[x])
    /\ Phase(e) = "queued" <=> e \in ToSet(queue)
    /\ Phase(e) = "done" <=> e \in processed
    /\ Phase(e) = "lost" <=> e \in abandoned
    /\ Phase(e) = "none" <=> e[1] \notin removed
    /\ Phase(e) \in {"none", "owed", "queued", "lost", "done"}

LEMMA PhasesAre == PInv => Phases
<1> SUFFICES ASSUME PInv, NEW e \in Events
             PROVE  /\ Phase(e) = "owed" <=> \E x \in Expirers : e \in ToSet(unsaved[x])
                    /\ Phase(e) = "queued" <=> e \in ToSet(queue)
                    /\ Phase(e) = "done" <=> e \in processed
                    /\ Phase(e) = "lost" <=> e \in abandoned
                    /\ Phase(e) = "none" <=> e[1] \notin removed
                    /\ Phase(e) \in {"none", "owed", "queued", "lost", "done"}
  BY DEF Phases
<1> DEFINE owed == \E x \in Expirers : e \in ToSet(unsaved[x])
<1>1. Waiting(e) # {} <=> owed
  BY DEF Waiting
<1>2. /\ owed => e \notin ToSet(queue) \cup processed /\ e[1] \in removed
      /\ e \in ToSet(queue) => e \notin processed /\ e[1] \in removed
      /\ e \in processed => e[1] \in removed
  BY DEF PInv, IInv, Once
<1>3. e \in abandoned =>
        ~owed /\ e \notin ToSet(queue) \cup processed /\ e[1] \in removed
  BY DEF PInv, Lost
<1>4. e[1] \in removed =>
        owed \/ e \in ToSet(queue) \cup processed \/ e \in abandoned
  BY <1>1, SameEvents DEF PInv, IInv, NothingLost, Announced
<1>5. /\ owed => Phase(e) = "owed"
      /\ e \in ToSet(queue) => Phase(e) = "queued"
      /\ e \in processed => Phase(e) = "done"
      /\ e \in abandoned => Phase(e) = "lost"
      /\ e[1] \notin removed => Phase(e) = "none"
  <2> HIDE DEF owed
  <2>1. CASE owed
    BY <1>1, <1>2, <1>3, <2>1 DEF Phase
  <2>2. CASE e \in ToSet(queue)
    BY <1>1, <1>2, <1>3, <2>2 DEF Phase
  <2>3. CASE e \in processed
    BY <1>1, <1>2, <1>3, <2>3 DEF Phase
  <2>4. CASE e \in abandoned
    BY <1>1, <1>2, <1>3, <2>4 DEF Phase
  <2>5. CASE e[1] \notin removed
    BY <1>1, <1>2, <1>3, <2>5 DEF Phase
  <2>6. QED
    BY <2>1, <2>2, <2>3, <2>4, <2>5
<1> HIDE DEF owed
<1>6. /\ Phase(e) = "owed" <=> owed
      /\ Phase(e) = "queued" <=> e \in ToSet(queue)
      /\ Phase(e) = "done" <=> e \in processed
      /\ Phase(e) = "lost" <=> e \in abandoned
      /\ Phase(e) = "none" <=> e[1] \notin removed
      /\ Phase(e) \in {"none", "owed", "queued", "lost", "done"}
  BY <1>2, <1>3, <1>4, <1>5
<1>7. QED
  BY <1>6 DEF owed

LEMMA PInvStep == PInv /\ [Next]_vars => PInv'
BY Inductive, InOrderStep, LostStep DEF PInv, IInv, Delivery

\* A step that takes the events of S to another phase and no others anywhere.
LEMMA Moves ==
  ASSUME Phases, Phases', UNCHANGED handed, NEW S, NEW to,
         \A e \in S \cap Events : Phase(e)' = to,
         \A e \in Events \ S : Phase(e)' = Phase(e)
  PROVE  Promise!Move(S, to)
BY SameEvents DEF Promise!Move

LEMMA InitPromises == Init => Promise!Init
<1> SUFFICES ASSUME Init PROVE Promise!Init
  OBVIOUS
<1>1. ToSet(<< >>) = {}
  BY InToSet, EmptySeq
<1>2. \A e \in Events : Phase(e) = "none"
  BY <1>1 DEF Init, Phase, Waiting
<1>3. handed = {}
  BY DEF Init
<1>4. QED
  BY <1>2, <1>3, SameEvents DEF Promise!Init

\* A step that leaves every event where it is.
LEMMA Stays ==
  ASSUME Phases, Phases',
         UNCHANGED <<removed, unsaved, abandoned, handed>>,
         ToSet(queue') = ToSet(queue), processed' = processed
  PROVE  UNCHANGED Promise!vars
<1>1. \A e \in Events : Phase(e)' = Phase(e)
  BY DEF Phases
<1>2. QED
  BY <1>1 DEF Promise!vars

LEMMA PhaseAt ==
  /\ Promise!At("none") = {e \in Events : Phase(e) = "none"}
  /\ Promise!At("owed") = {e \in Events : Phase(e) = "owed"}
  /\ Promise!At("queued") = {e \in Events : Phase(e) = "queued"}
  /\ Promise!At("done") = {e \in Events : Phase(e) = "done"}
BY SameEvents DEF Promise!At

LEMMA RemovePromise ==
  ASSUME PInv, PInv', Phases, Phases', NEW x \in Expirers, ExpireMessages(x)
  PROVE  Promise!Next
<1>1. PICK E \in SUBSET Removable :
        /\ removed' = removed \cup E
        /\ \E ms \in SetToSeqs(E) :
             unsaved' = [unsaved EXCEPT ![x] = BuildEvents(ms)]
  BY DEF ExpireMessages
<1>2. PICK ms \in SetToSeqs(E) :
        unsaved' = [unsaved EXCEPT ![x] = BuildEvents(ms)]
  BY <1>1
<1>3. E \subseteq Messages /\ E \cap removed = {}
  BY DEF Removable, PInv, IInv, TypeOK
<1> DEFINE S == {Promise!First(m) : m \in E} \cup {Promise!Second(m) : m \in E}
<1>4. S = UNION {EventsOf(m) : m \in E} /\ ToSet(BuildEvents(ms)) = S
  <2>1. S = UNION {EventsOf(m) : m \in E}
    BY <1>3, SameEvents
  <2>2. QED
    BY <1>3, <2>1, BuildEventsAre
<1>5. \A e \in Events : e \in S <=> e[1] \in E
  BY <1>3, <1>4, SameEvents
<1> HIDE DEF S
<1>6. /\ \A y \in Expirers :
           unsaved'[y] = IF y = x THEN BuildEvents(ms) ELSE unsaved[y]
      /\ UNCHANGED <<abandoned, queue, processed, handed>>
      /\ unsaved[x] = << >>
  BY <1>2 DEF ExpireMessages, PInv, IInv, TypeOK
<1>7. \A e \in S \cap Events : Phase(e)' = "owed"
  BY <1>4, <1>6 DEF Phases
<1>8. \A e \in Events \ S : Phase(e)' = Phase(e)
  <2>1. SUFFICES ASSUME NEW e \in Events \ S PROVE Phase(e)' = Phase(e)
    OBVIOUS
  <2>2. e \notin ToSet(unsaved[x])
    BY <1>6, InToSet DEF PInv, IInv, TypeOK
  <2>3. (\E y \in Expirers : e \in ToSet(unsaved'[y]))
          <=> (\E y \in Expirers : e \in ToSet(unsaved[y]))
    BY <1>4, <1>6, <2>2
  <2>4. e[1] \in removed' <=> e[1] \in removed
    BY <1>1, <1>5
  <2>5. QED
    BY <1>6, <2>3, <2>4 DEF Phases
<1>9. Promise!Move(S, "owed")
  BY <1>6, <1>7, <1>8, Moves
<1>10. \A m \in E : {Promise!First(m), Promise!Second(m)} \subseteq Promise!At("none")
  BY <1>3, SameEvents, PhaseAt DEF Phases
<1>11. Promise!Remove(E)
  BY <1>9 DEF Promise!Remove, S
<1>12. QED
  BY <1>3, <1>10, <1>11 DEF Promise!Next

LEMMA QueuePromise ==
  ASSUME PInv, PInv', Phases, Phases', NEW x \in Expirers, InsertEvent(x)
  PROVE  Promise!Next
<1>0. Head(unsaved[x]) \in Events
  BY TailKeeps DEF InsertEvent, PInv, IInv, TypeOK
<1>00. PICK h \in Events : h = Head(unsaved[x])
  BY <1>0
<1>1. /\ unsaved[x] \in Seq(Events) /\ unsaved[x] # << >> /\ h \in Events
      /\ ToSet(unsaved[x]) = ToSet(Tail(unsaved[x])) \cup {h}
      /\ ToSet(Append(queue, h)) = ToSet(queue) \cup {h}
  BY <1>00, TailKeeps, AppendKeeps DEF InsertEvent, PInv, IInv, TypeOK
<1>2. /\ queue' = Append(queue, h)
      /\ UNCHANGED <<removed, abandoned, processed, handed>>
      /\ \A y \in Expirers :
           unsaved'[y] = IF y = x THEN Tail(unsaved[x]) ELSE unsaved[y]
  BY <1>00 DEF InsertEvent, PInv, IInv, TypeOK
<1>3. \A m \in Messages : h = Promise!Second(m) =>
        Promise!First(m) \in ToSet(queue) \cup processed
  BY <1>00, <1>1, FirstBeforeTail DEF PInv, InOrder
<1>4. Phase(h) = "owed" /\ Phase(h)' = "queued"
  <2>1. h \in ToSet(unsaved[x]) /\ h \in ToSet(queue')
    BY <1>1, <1>2
  <2>2. Phase(h) = "owed"
    BY <1>1, <2>1 DEF Phases
  <2>3. Phase(h)' = "queued" <=> h \in ToSet(queue')
    BY <1>1 DEF Phases
  <2>4. QED
    BY <2>1, <2>2, <2>3
<1>5. \A e \in Events \ {h} : Phase(e)' = Phase(e)
  <2>1. SUFFICES ASSUME NEW e \in Events \ {h} PROVE Phase(e)' = Phase(e)
    OBVIOUS
  <2>2. (\E y \in Expirers : e \in ToSet(unsaved'[y]))
          <=> (\E y \in Expirers : e \in ToSet(unsaved[y]))
    BY <1>1, <1>2
  <2>3. e \in ToSet(queue') <=> e \in ToSet(queue)
    BY <1>1, <1>2
  <2>4. QED
    BY <1>2, <2>2, <2>3 DEF Phases
<1>6. Promise!Move({h}, "queued")
  <2>1. \A e \in {h} \cap Events : Phase(e)' = "queued"
    BY <1>4
  <2>2. QED
    BY <1>2, <1>5, <2>1, Moves
<1>7. ToSet(queue) \cup processed \subseteq Promise!At("queued") \cup Promise!At("done")
  <2>1. ToSet(queue) \subseteq Events /\ processed \subseteq Events
    BY InToSet DEF PInv, IInv, TypeOK
  <2>2. QED
    BY <2>1, PhaseAt DEF Phases
<1>8. Promise!Queue(h)
  BY <1>3, <1>6, <1>7 DEF Promise!Queue, Promise!InTurn
<1>9. h \in Promise!At("owed")
  BY <1>1, <1>4, PhaseAt
<1>10. QED
  BY <1>8, <1>9 DEF Promise!Next

LEMMA LosePromise ==
  ASSUME PInv, PInv', Phases, Phases', NEW x \in Expirers, AbandonTick(x)
  PROVE  Promise!Next
<1>0. PICK S : S = ToSet(unsaved[x])
  OBVIOUS
<1>1. /\ UNCHANGED <<removed, queue, processed, handed>>
      /\ abandoned' = abandoned \cup S
      /\ \A y \in Expirers : unsaved'[y] = IF y = x THEN << >> ELSE unsaved[y]
  BY <1>0 DEF AbandonTick, PInv, IInv, TypeOK
<1>2. ToSet(<< >>) = {} /\ S \subseteq Events
  BY <1>0, InToSet, EmptySeq DEF PInv, IInv, TypeOK
<1>3. \A e \in S \cap Events : Phase(e)' = "lost" /\ Phase(e) = "owed"
  BY <1>0, <1>1 DEF Phases
<1>4. \A e \in Events \ S : Phase(e)' = Phase(e)
  <2>1. SUFFICES ASSUME NEW e \in Events \ S PROVE Phase(e)' = Phase(e)
    OBVIOUS
  <2>2. (\E y \in Expirers : e \in ToSet(unsaved'[y]))
          <=> (\E y \in Expirers : e \in ToSet(unsaved[y]))
    BY <1>0, <1>1, <1>2
  <2>3. QED
    BY <1>1, <2>2 DEF Phases
<1>5. Promise!Lose(S)
  BY <1>1, <1>3, <1>4, Moves DEF Promise!Lose
<1>6. S \in SUBSET Promise!At("owed")
  BY <1>2, <1>3, PhaseAt
<1>7. QED
  BY <1>5, <1>6 DEF Promise!Next

LEMMA HandPromise ==
  ASSUME PInv, PInv', Phases, Phases', SendEvent
  PROVE  Promise!Next
<1> DEFINE e == batch[sent + 1]
<1>1. /\ Len(batch) \in Nat /\ Len(queue) \in Nat /\ sent \in 0..Len(batch)
      /\ sent < Len(batch) /\ Len(batch) <= Len(queue)
      /\ queue \in Seq(Events)
  BY LenProperties DEF PInv, IInv, TypeOK, SendEvent, Claim
<1>2. /\ sent + 1 \in 1..Len(queue) /\ e = queue[sent + 1]
      /\ \A i \in 1..sent : queue[i] \in handed
  BY <1>1 DEF PInv, IInv, Claim
<1>3. /\ handed' = handed \cup {e}
      /\ UNCHANGED <<expVars, queue, processed>>
  BY DEF SendEvent
<1> HIDE DEF e
<1>4. e \in ToSet(queue) /\ e \in Events
  BY <1>1, <1>2, InToSet
<1>5. ASSUME NEW m \in Messages, e = Promise!Second(m)
      PROVE  Promise!First(m) \in handed
  <2>1. CASE Promise!First(m) \in processed
    BY <2>1 DEF PInv, IInv, Handed
  <2>2. CASE \E i \in 1..Len(queue) : i < sent + 1 /\ queue[i] = Promise!First(m)
    BY <1>1, <1>2, <2>2
  <2>3. QED
    BY <1>2, <1>5, <2>1, <2>2 DEF PInv, InOrder, FirstBefore
<1>6. \A f \in Events : Phase(f)' = Phase(f)
  BY <1>3 DEF Phases, expVars
<1>7. Promise!Hand(e)
  BY <1>3, <1>5, <1>6 DEF Promise!Hand, Promise!InTurn
<1>8. e \in Promise!At("queued")
  BY <1>4, PhaseAt DEF Phases
<1>9. QED
  BY <1>7, <1>8 DEF Promise!Next

LEMMA FinishPromise ==
  ASSUME PInv, PInv', Phases, Phases', MarkProcessedBatch
  PROVE  Promise!Next
<1>0. PICK S : S = ToSet(batch)
  OBVIOUS
<1>1. S \subseteq ToSet(queue) /\ S \subseteq handed
  BY <1>0, MarkedAre DEF PInv, IInv, Delivery
<1>2. /\ ToSet(queue') = ToSet(queue) \ S
      /\ processed' = processed \cup S
      /\ UNCHANGED <<expVars, handed>>
      /\ ToSet(queue) \subseteq Events
  BY <1>0, WithoutProperties, InToSet
  DEF MarkProcessedBatch, MarkedIds, PInv, IInv, TypeOK
<1>3. \A e \in S \cap Events : Phase(e)' = "done" /\ Phase(e) = "queued"
  BY <1>1, <1>2 DEF Phases
<1>4. \A e \in Events \ S : Phase(e)' = Phase(e)
  BY <1>2 DEF Phases, expVars
<1>5. Promise!Finish(S)
  BY <1>2, <1>3, <1>4, Moves DEF Promise!Finish
<1>6. S \in SUBSET (Promise!At("queued") \cap handed)
  BY <1>1, <1>2, <1>3, PhaseAt
<1>7. QED
  BY <1>5, <1>6 DEF Promise!Next

LEMMA StepPromises ==
  ASSUME PInv, PInv', Phases, Phases', [Next]_vars
  PROVE  [Promise!Next]_(Promise!vars)
<1>1. \/ \E x \in Expirers :
           ExpireMessages(x) \/ InsertEvent(x) \/ AbandonTick(x)
      \/ SendEvent \/ MarkProcessedBatch
      \/ UNCHANGED <<removed, unsaved, abandoned, queue, processed, handed>>
  BY DEF Next, Expire, Poll, BlockedWrite, TimeOut, ClaimBatch, InSend,
         MarkFails, Restart, Peer, TearDown, Beside, expVars, vars
<1>2. UNCHANGED <<removed, unsaved, abandoned, queue, processed, handed>> =>
        UNCHANGED Promise!vars
  BY Stays
<1>3. QED
  BY <1>1, <1>2, RemovePromise, QueuePromise, LosePromise, HandPromise,
     FinishPromise

\* Expirers, poller, restarts and connections together keep the simple promise
\* to the participants of a removed message, for any number of messages,
\* expirers, connections and faults, and for batches of any size.
THEOREM OutboxImplementsPromise == Spec => ImplementsPromise
<1>1. Init => PInv /\ Promise!Init
  <2>1. ASSUME Init PROVE InOrder /\ Lost
    BY <2>1, EmptySeq DEF Init, InOrder, Lost, FirstBefore
  <2>2. QED
    BY <2>1, InitInv, InitPromises DEF PInv
<1>2. PInv /\ [Next]_vars => PInv'
  BY PInvStep
<1>3. PInv /\ PInv' /\ Phases /\ Phases' /\ [Next]_vars =>
        [Promise!Next]_(Promise!vars)
  BY StepPromises
<1>4. QED
  BY <1>1, <1>2, <1>3, PhasesAre, PTL DEF Spec, ImplementsPromise, Promise!Spec
=============================================================================
