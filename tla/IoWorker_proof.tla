--------------------------- MODULE IoWorker_proof ---------------------------
(***************************************************************************)
(* OneIoThread holds for any set of threads calling work().  The mutual    *)
(* exclusion itself is not inductive: that a thread which reads m_work = 1 *)
(* is alone follows from what the counter says of the callers so far.      *)
(***************************************************************************)
EXTENDS IoWorker, TLAPS

\* While m_work is 0 nobody has called work(), and while it is 1 one thread
\* has.  Past the test there is one at most.
CounterInv ==
  /\ m_work \in Nat
  /\ m_work = 0 => \A t \in Threads : pc[t] = "idle"
  /\ m_work = 1 => \A t, u \in Threads :
                     pc[t] # "idle" /\ pc[u] # "idle" => t = u
  /\ OneIoThread

\* The variables keep their types, whoever calls work() and connect.
THEOREM TypeCorrect == Spec => []TypeOK
<1>1. Init => TypeOK
  <2> SUFFICES ASSUME Init
               PROVE  TypeOK
    OBVIOUS
  <2>1. made \in 0 .. MaxClients /\ m_work \in Nat /\ clients \in Nat
    BY MaxClientsAssumption DEF Init
  <2>2. pc \in [Threads -> Places]
    BY DEF Init, Places
  <2>3. stopped \in BOOLEAN
    BY Zenon DEF Init
  <2>4. QED
    BY <2>1, <2>2, <2>3 DEF TypeOK
<1>2. TypeOK /\ [Next]_vars => TypeOK'
  <2> SUFFICES ASSUME TypeOK, [Next]_vars
               PROVE  TypeOK'
    OBVIOUS
  <2> USE MaxClientsAssumption DEF TypeOK, Places
  <2>1. CASE Connect
    BY <2>1 DEF Connect
  <2>2. CASE ClientEnds
    BY <2>2 DEF ClientEnds
  <2>3. ASSUME NEW t \in Threads, Enter(t)
        PROVE  TypeOK'
    BY <2>3 DEF Enter
  <2>4. ASSUME NEW t \in Threads, Check(t)
        PROVE  TypeOK'
    BY <2>4 DEF Check
  <2>5. ASSUME NEW t \in Threads, Loop(t)
        PROVE  TypeOK'
    BY <2>5 DEF Loop
  <2>6. ASSUME NEW t \in Threads, RunReturns(t)
        PROVE  TypeOK'
    BY <2>6 DEF RunReturns
  <2>7. CASE UNCHANGED vars
    BY <2>7 DEF vars
  <2>8. QED
    BY <2>1, <2>2, <2>3, <2>4, <2>5, <2>6, <2>7 DEF Next
<1>3. QED
  BY <1>1, <1>2, PTL DEF Spec

LEMMA CounterInit == Init => CounterInv
BY DEF Init, CounterInv, OneIoThread, Inside

LEMMA CounterStep == TypeOK /\ CounterInv /\ [Next]_vars => CounterInv'
<1> SUFFICES ASSUME TypeOK, CounterInv, [Next]_vars
             PROVE  CounterInv'
  OBVIOUS
<1> USE DEF TypeOK, CounterInv, OneIoThread, Inside
<1>1. CASE Connect
  BY <1>1 DEF Connect
<1>2. CASE ClientEnds
  BY <1>2 DEF ClientEnds
<1>3. ASSUME NEW t \in Threads, Enter(t)
      PROVE  CounterInv'
  \* The first caller finds everybody idle; after it m_work exceeds 1.
  <2>1. /\ m_work' = m_work + 1
        /\ pc' = [pc EXCEPT ![t] = "check"]
    BY <1>3 DEF Enter
  <2>2. OneIoThread'
    BY <2>1
  <2>3. CASE m_work = 0
    BY <2>1, <2>2, <2>3
  <2>4. CASE m_work # 0
    BY <2>1, <2>2, <2>4
  <2>5. QED
    BY <2>3, <2>4
<1>4. ASSUME NEW t \in Threads, Check(t)
      PROVE  CounterInv'
  <2>1. /\ m_work' = m_work
        /\ pc[t] = "check"
        /\ pc' = [pc EXCEPT ![t] = IF m_work # 1 THEN "returned" ELSE "loop"]
    BY <1>4 DEF Check
  <2>2. CASE m_work = 1
    \* t is the only caller, so nobody is inside yet.
    <3>1. \A u \in Threads : u # t => pc[u] = "idle"
      BY <2>1, <2>2
    <3>2. QED
      BY <2>1, <2>2, <3>1
  <2>3. CASE m_work # 1
    BY <2>1, <2>3
  <2>4. QED
    BY <2>2, <2>3
<1>5. ASSUME NEW t \in Threads, Loop(t)
      PROVE  CounterInv'
  BY <1>5 DEF Loop
<1>6. ASSUME NEW t \in Threads, RunReturns(t)
      PROVE  CounterInv'
  BY <1>6 DEF RunReturns
<1>7. CASE UNCHANGED vars
  BY <1>7 DEF vars
<1>8. QED
  BY <1>1, <1>2, <1>3, <1>4, <1>5, <1>6, <1>7 DEF Next

\* At most one thread gets past the test of m_work, whatever the number of
\* threads that call work() and the order of their increments and reads.
THEOREM MutualExclusion == Spec => []OneIoThread
<1>1. TypeOK /\ CounterInv /\ [Next]_vars => CounterInv'
  BY CounterStep
<1>2. CounterInv => OneIoThread
  BY DEF CounterInv
<1>3. QED
  BY CounterInit, TypeCorrect, <1>1, <1>2, PTL DEF Spec
=============================================================================
