--------------------------------- MODULE Hub ---------------------------------
(***************************************************************************)
(* The WebSocket hub of main-service (internal/hub/hub.go, conn.go) and the *)
(* handler that serves a connection (internal/handlers/ws/handler.go): the  *)
(* registry of connections, their heartbeat, and one call of Send.          *)
(*                                                                         *)
(* Send copies the user's list under the lock and writes to the copy        *)
(* without it, so connections come and go between its writes.  A write to a *)
(* peer that no longer reads is swallowed by the socket's buffer or blocks, *)
(* also behind another sender that holds the connection's mutex, until the  *)
(* heartbeat gives the connection up.  The gauge is left out.  WSEventOutbox *)
(* composes this module with the poller that calls Send.                    *)
(***************************************************************************)
EXTENDS Integers, FiniteSets, Sequences, SequencesExt

CONSTANTS
  Conns,   \* connections that can exist at a time
  UserOf   \* UserOf[c]: the user whose token opened c

VARIABLES
  link,    \* link[c]: "none", "open", "dead" (the peer no longer reads, the
           \* socket stands) or "closed" (Read has failed, c is registered)
  conns,   \* conns[u]: Hub.conns, the registered connections in order
  copied,  \* the list Send has copied, << >> when no Send is under way
  written, \* how many of them it has written to
  got      \* those of them whose peer has the event

hubVars == <<link, conns, copied, written, got>>

Served == {UserOf[c] : c \in Conns}

\* The k-th of the integers in I, in increasing order.
Nth(I, k) == CHOOSE i \in I : Cardinality({j \in I : j <= i}) = k

\* s without the elements of S, the others in their order.
Without(s, S) ==
  LET kept == {i \in DOMAIN s : s[i] \notin S}
  IN  [k \in 1..Cardinality(kept) |-> s[Nth(kept, k)]]

HubTypeOK ==
  /\ link \in [Conns -> {"none", "open", "dead", "closed"}]
  /\ \A u \in Served :
       /\ conns[u] \in Seq(Conns)
       /\ \A c \in Conns :
            c \in ToSet(conns[u]) <=> UserOf[c] = u /\ link[c] # "none"
  /\ copied \in Seq(Conns)
  /\ written \in 0..Len(copied)
  /\ got \subseteq ToSet(copied)

HubInit(users) ==
  /\ link = [c \in Conns |-> "none"]
  /\ conns = [u \in users |-> << >>]
  /\ copied = << >>
  /\ written = 0
  /\ got = {}
-----------------------------------------------------------------------------
(* The life of a connection.                                               *)

\* Connect: Accept and Register.  A new connection is none that a Send holds.
Register(c) ==
  /\ link[c] = "none"
  /\ c \notin ToSet(copied)
  /\ link' = [link EXCEPT ![c] = "open"]
  /\ conns' = [conns EXCEPT ![UserOf[c]] = Append(@, c)]
  /\ UNCHANGED <<copied, written, got>>

\* Nothing tells the server: the network is cut, the browser is frozen.
PeerVanishes(c) ==
  /\ link[c] = "open"
  /\ link' = [link EXCEPT ![c] = "dead"]
  /\ UNCHANGED <<conns, copied, written, got>>

\* RunConn's Read fails.
PeerCloses(c) ==
  /\ link[c] = "open"
  /\ link' = [link EXCEPT ![c] = "closed"]
  /\ UNCHANGED <<conns, copied, written, got>>

\* Mutant of PingFailed: runHeartbeat returns without cancel.
NoCancel == "dead"

\* cancel: Read returns, and the socket is closed with its context.
PingFailed == "closed"

\* The pong does not come within the ping timeout.
Heartbeat(c) ==
  /\ link[c] = "dead"
  /\ link' = [link EXCEPT ![c] = PingFailed]
  /\ UNCHANGED <<conns, copied, written, got>>

\* Connect's deferred function.
Unregister(c) ==
  /\ link[c] = "closed"
  /\ link' = [link EXCEPT ![c] = "none"]
  /\ conns' = [conns EXCEPT ![UserOf[c]] = Without(@, {c})]
  /\ UNCHANGED <<copied, written, got>>

\* The process ends: its connections and its Send with it.
Shutdown ==
  /\ link' = [c \in Conns |-> "none"]
  /\ conns' = [u \in DOMAIN conns |-> << >>]
  /\ copied' = << >>
  /\ written' = 0
  /\ got' = {}
-----------------------------------------------------------------------------
(* Send.                                                                   *)

\* False for a user without connections.
BeginSend(u) ==
  /\ copied' = conns[u]
  /\ UNCHANGED <<link, conns, written, got>>

EndSend ==
  /\ copied' = << >>
  /\ written' = 0
  /\ got' = {}

\* Mutant of AfterError: the loop is left at the first error.
StopAtError == Len(copied)

\* A failed write is logged, and the loop goes on.
AfterError == written + 1

Target == copied[written + 1]

\* One round of the loop, n connections done after it.
Advance(n, reached) ==
  IF n = Len(copied)
    THEN EndSend
    ELSE /\ written' = n
         /\ got' = got \cup reached
         /\ UNCHANGED copied

Write ==
  /\ written < Len(copied)
  /\ CASE link[Target] = "open" -> Advance(written + 1, {Target})
       [] link[Target] \in {"closed", "none"} -> Advance(AfterError, {})
       [] OTHER -> FALSE
  /\ UNCHANGED <<link, conns>>

\* A write to a peer that no longer reads returns; until then it blocks.
WriteSwallowed ==
  /\ written < Len(copied)
  /\ link[Target] = "dead"
  /\ Advance(written + 1, {})
  /\ UNCHANGED <<link, conns>>
=============================================================================
