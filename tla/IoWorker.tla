------------------------------ MODULE IoWorker ------------------------------
(***************************************************************************)
(* Webclient::work and the io_context it runs (base_websocket.h).  Every   *)
(* program thread that has connected its clients calls work(), which is    *)
(* meant to turn the first caller into the io thread and to return at once *)
(* for the others.  The counter m_work decides: it is incremented, and     *)
(* then read again, in separate atomic operations.                         *)
(*                                                                         *)
(* The io_context is single_con's m_ioc.  Its run() returns when nothing   *)
(* is outstanding, leaves the context stopped, and then returns at once    *)
(* each time it is called; restart() is never called.                      *)
(***************************************************************************)
EXTENDS Naturals, FiniteSets

CONSTANTS
  Threads,       \* the threads that call work()
  MaxClients,    \* bound: calls of Webclient::connect
  ConnectFirst,  \* a client is connected before the first call of work()
  OneByOne,      \* a thread calls work() only when no other is on its way in
  ClientsEnd     \* a client's chain of handlers may end (closed, or deaf)

ASSUME MaxClientsAssumption == MaxClients \in Nat
ASSUME FlagsAssumption == {ConnectFirst, OneByOne, ClientsEnd} \subseteq BOOLEAN

VARIABLES
  m_work,   \* single_con::m_work
  pc,       \* where each thread is in work()
  made,     \* calls of connect so far
  clients,  \* clients with an operation outstanding on the io_context
  stopped   \* the io_context is stopped

vars == <<m_work, pc, made, clients, stopped>>

\* "idle": outside work(), which it has not called; "check": before the test
\* of m_work; "loop": before the test in the loop; "run": in m_ioc.run();
\* "returned": work() has returned.
Places == {"idle", "check", "loop", "run", "returned"}

Init ==
  /\ m_work = 0
  /\ pc = [t \in Threads |-> "idle"]
  /\ made = 0 /\ clients = 0
  /\ stopped = FALSE

\* Webclient::connect starts a lookup on the io_context.
Connect ==
  /\ made < MaxClients
  /\ made' = made + 1
  /\ clients' = clients + 1
  /\ UNCHANGED <<m_work, pc, stopped>>

\* ++m_work
Enter(t) ==
  /\ pc[t] = "idle"
  /\ ConnectFirst => made > 0
  /\ OneByOne => \A u \in Threads : pc[u] \notin {"check", "loop"}
  /\ m_work' = m_work + 1
  /\ pc' = [pc EXCEPT ![t] = "check"]
  /\ UNCHANGED <<made, clients, stopped>>

\* A slip: the first two callers stay.
CheckOffByOne(t) ==
  /\ pc[t] = "check"
  /\ pc' = [pc EXCEPT ![t] = IF m_work > 2 THEN "returned" ELSE "loop"]
  /\ UNCHANGED <<m_work, made, clients, stopped>>

\* A slip: the value before the increment is expected.
CheckExpectsZero(t) ==
  /\ pc[t] = "check"
  /\ pc' = [pc EXCEPT ![t] = IF m_work # 0 THEN "returned" ELSE "loop"]
  /\ UNCHANGED <<m_work, made, clients, stopped>>

\* if (m_work != 1) return;
Check(t) ==
  /\ pc[t] = "check"
  /\ pc' = [pc EXCEPT ![t] = IF m_work # 1 THEN "returned" ELSE "loop"]
  /\ UNCHANGED <<m_work, made, clients, stopped>>

\* if (m_work == 1) m_ioc.run(); otherwise the loop spins.
Loop(t) ==
  /\ pc[t] = "loop"
  /\ m_work = 1
  /\ pc' = [pc EXCEPT ![t] = "run"]
  /\ UNCHANGED <<m_work, made, clients, stopped>>

\* run() returns, to the loop: the context has stopped or runs out of work.
RunReturns(t) ==
  /\ pc[t] = "run"
  /\ stopped \/ clients = 0
  /\ stopped' = TRUE
  /\ pc' = [pc EXCEPT ![t] = "loop"]
  /\ UNCHANGED <<m_work, made, clients>>

Serving(t) == pc[t] = "run" /\ ~stopped

\* The io thread runs the last handler of a client.
ClientEnds ==
  /\ ClientsEnd
  /\ clients > 0
  /\ \E t \in Threads : Serving(t)
  /\ clients' = clients - 1
  /\ UNCHANGED <<m_work, pc, made, stopped>>

Next ==
  \/ Connect \/ ClientEnds
  \/ \E t \in Threads : Enter(t) \/ Check(t) \/ Loop(t) \/ RunReturns(t)

Spec == Init /\ [][Next]_vars

\* Threads are scheduled: one that is inside work() takes its next step.
FairSpec ==
  /\ Spec
  /\ \A t \in Threads : WF_vars(Check(t) \/ Loop(t) \/ RunReturns(t))

-----------------------------------------------------------------------------
TypeOK ==
  /\ m_work \in Nat
  /\ pc \in [Threads -> Places]
  /\ made \in 0 .. MaxClients
  /\ clients \in Nat
  /\ stopped \in BOOLEAN

Inside(t) == pc[t] \in {"loop", "run"}

\* However many threads call work(), and in whatever order they increment and
\* read m_work, at most one gets past the test: handlers of a client never
\* run on two threads at a time, which WebSocketSSLClient relies on.
OneIoThread == \A t, u \in Threads : Inside(t) /\ Inside(u) => t = u

\* "start boost ioc srv" (unitTest/main.cpp:136): once some thread has called
\* work(), connected clients are served.
StartsServing == (clients > 0 /\ \E t \in Threads : pc[t] # "idle")
                   ~> (\E t \in Threads : Serving(t))
=============================================================================
