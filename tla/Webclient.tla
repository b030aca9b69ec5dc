------------------------------ MODULE Webclient -----------------------------
(***************************************************************************)
(* The registry of clients behind Webclient::connect and get_cli           *)
(* (base_websocket.h) as a program uses it (unitTest/main.cpp): threads    *)
(* connect their clients and then call work(), the io thread runs the      *)
(* clients' callbacks, which find their client again through get_cli and   *)
(* an index variable of the caller, and another thread subscribes.         *)
(*                                                                         *)
(* connect() writes the index to a variable of its caller, of which it    *)
(* keeps a reference: it reads the variable again for the entry in m_dat,  *)
(* and by then another connect through the same variable may have changed  *)
(* it.  It starts the client before the client is in m_dat, and takes no   *)
(* lock.  Its variants for the three Binance endpoints do the same with a  *)
(* variable of their own.  The io thread is that of IoWorker.              *)
(***************************************************************************)
EXTENDS Naturals, Sequences, FiniteSets

CONSTANTS
  Threads,     \* the threads that connect clients and call work()
  Cells,       \* the callers' index variables
  NoCell,      \* stands for a call that has none: connect_endpoint_*
  Plan,        \* for each thread, the cells of its calls of connect
  MaxConnects, \* bound: the calls of connect that Plan holds
  MaxLookups   \* bound: subscriptions tried by the other thread

Ids == 1 .. MaxConnects

ASSUME NoCellAssumption == NoCell \notin Cells
ASSUME PlanAssumption == Plan \in [Threads -> Seq(Cells \cup {NoCell}) \ {<<>>}]
ASSUME BoundsAssumption == MaxConnects \in Nat /\ MaxLookups \in Nat

VARIABLES
  m_index, m_dat,  \* single_con's; m_dat maps the ids in it to clients
  cell,            \* the value of each index variable (0: none, -1 in the code)
  todo,            \* the connects each thread still has to do
  at,              \* where each thread is in connect()
  mine,            \* the value of ++m_index in connect(), which names its client
  sought,          \* the key with which m_dat[id] began its search
  client,          \* client[c]: "none", "started" or "open"
  owner,           \* owner[c]: the cell of the connect that made client c
  overlapped,      \* history: connects have disturbed each other (Overlap)
  heard,           \* the last callback: its client and what get_cli gave it
  subs,            \* the subscriptions in force: index variable and client
  lookups,
  m_work, pc, made, clients, stopped   \* of IoWorker

Worker == INSTANCE IoWorker
            WITH MaxClients <- MaxConnects, ConnectFirst <- FALSE,
                 OneByOne <- TRUE, ClientsEnd <- FALSE

worker == <<m_work, pc, made, clients, stopped>>
registry ==
  <<m_index, m_dat, cell, todo, at, mine, sought, client, owner, overlapped>>
vars == <<registry, heard, subs, lookups, worker>>

Init ==
  /\ m_index = 0
  /\ m_dat = <<>>
  /\ cell = [v \in Cells |-> 0]
  /\ todo = Plan
  /\ at = [t \in Threads |-> "out"]
  /\ mine = [t \in Threads |-> 0] /\ sought = [t \in Threads |-> 0]
  /\ client = [c \in Ids |-> "none"]
  /\ owner = [c \in Ids |-> NoCell]
  /\ overlapped = FALSE
  /\ heard = [by |-> 0, got |-> 0]
  /\ subs = {} /\ lookups = 0
  /\ Worker!Init

-----------------------------------------------------------------------------
(* connect(), in a thread.                                                 *)

Var(t) == Head(todo[t])

\* id, wherever connect() reads it: the caller's variable, or its own.
Id(t) == IF Var(t) = NoCell THEN mine[t] ELSE cell[Var(t)]

Inserting == \E t \in Threads : at[t] = "inserting"

\* Two connects are under way through one variable, or two change the map.
Overlap(t) ==
  \E u \in Threads \ {t} :
    \/ at[t] = "out" /\ at[u] # "out" /\ Var(t) # NoCell /\ Var(u) = Var(t)
    \/ at[t] = "started" /\ at[u] = "inserting"

\* A slip: the index is counted in two steps, between which another thread
\* can draw the same.
DrawUncounted(t) ==
  /\ at[t] = "out" /\ todo[t] # <<>> /\ m_index < MaxConnects
  /\ m_index' \in {m_index + 1} \cup (IF \E u \in Threads : at[u] = "drawn" /\ u # t
                                       THEN {m_index} ELSE {})
  /\ mine' = [mine EXCEPT ![t] = m_index']
  /\ at' = [at EXCEPT ![t] = "drawn"]
  /\ overlapped' = (overlapped \/ Overlap(t))
  /\ UNCHANGED <<m_dat, cell, todo, sought, client, owner, heard, subs, lookups,
                 worker>>

\* ++m_index, which is atomic.
Draw(t) ==
  /\ at[t] = "out" /\ todo[t] # <<>> /\ m_index < MaxConnects
  /\ m_index' = m_index + 1
  /\ mine' = [mine EXCEPT ![t] = m_index']
  /\ at' = [at EXCEPT ![t] = "drawn"]
  /\ overlapped' = (overlapped \/ Overlap(t))
  /\ UNCHANGED <<m_dat, cell, todo, sought, client, owner, heard, subs, lookups,
                 worker>>

\* A slip: the caller gets the value before the increment.
AssignPost(t) ==
  /\ at[t] = "drawn"
  /\ cell' = IF Var(t) = NoCell THEN cell ELSE [cell EXCEPT ![Var(t)] = mine[t] - 1]
  /\ at' = [at EXCEPT ![t] = "taken"]
  /\ UNCHANGED <<m_index, m_dat, todo, mine, sought, client, owner, overlapped,
                 heard, subs, lookups, worker>>

\* id = the value drawn.
Assign(t) ==
  /\ at[t] = "drawn"
  /\ cell' = IF Var(t) = NoCell THEN cell ELSE [cell EXCEPT ![Var(t)] = mine[t]]
  /\ at' = [at EXCEPT ![t] = "taken"]
  /\ UNCHANGED <<m_index, m_dat, todo, mine, sought, client, owner, overlapped,
                 heard, subs, lookups, worker>>

\* The client is made and cli->Connect(path) starts its lookup.  The id it is
\* given, whatever it is by now, is handed to callbacks that do not look at it.
Start(t) ==
  /\ at[t] = "taken"
  /\ client' = [client EXCEPT ![mine[t]] = "started"]
  /\ owner' = [owner EXCEPT ![mine[t]] = Var(t)]
  /\ at' = [at EXCEPT ![t] = "started"]
  /\ Worker!Connect
  /\ UNCHANGED <<m_index, m_dat, cell, todo, mine, sought, overlapped, heard,
                 subs, lookups>>

\* m_dat[id] begins its search of the map, to which it has a reference of id.
BeginInsert(t) ==
  /\ at[t] = "started"
  /\ sought' = [sought EXCEPT ![t] = Id(t)]
  /\ at' = [at EXCEPT ![t] = "inserting"]
  /\ overlapped' = (overlapped \/ Overlap(t))
  /\ UNCHANGED <<m_index, m_dat, cell, todo, mine, client, owner, heard, subs,
                 lookups, worker>>

\* A slip: the entry's key is read from the counter.
KeysCounter(t) == {m_index}

\* The key of the entry that m_dat[id] finds or makes.  It is one value if id
\* has not changed; if it has, a search that began with one value and ended
\* with the other can also have stopped at an entry between them.
Keys(t) ==
  {sought[t], Id(t)}
    \cup {k \in DOMAIN m_dat : \/ k \in sought[t] .. Id(t)
                                \/ k \in Id(t) .. sought[t]}

\* m_dat[id] = cli is done, and connect() returns.  Of what becomes of a tree
\* that two threads change at once, the model has that an entry is lost.
EndInsert(t) ==
  /\ at[t] = "inserting"
  /\ \/ \E k \in Keys(t) :
          m_dat' = [c \in DOMAIN m_dat \cup {k} |-> IF c = k THEN mine[t] ELSE m_dat[c]]
     \/ /\ \E u \in Threads \ {t} : at[u] = "inserting"
        /\ m_dat' = m_dat
  /\ todo' = [todo EXCEPT ![t] = Tail(@)]
  /\ at' = [at EXCEPT ![t] = "out"]
  /\ UNCHANGED <<m_index, cell, mine, sought, client, owner, overlapped, heard,
                 subs, lookups, worker>>

\* work(), when the thread has connected its clients and no other is on its
\* way in.  With a client connected run() does not return.
Work(t) ==
  /\ \/ at[t] = "out" /\ todo[t] = <<>> /\ Worker!Enter(t)
     \/ Worker!Check(t) \/ Worker!Loop(t)
  /\ UNCHANGED <<registry, heard, subs, lookups>>

-----------------------------------------------------------------------------
(* The io thread.                                                          *)

Serving == \E t \in Threads : Worker!Serving(t)

\* A client comes up, or loses its connection; a subscription does not
\* outlive its connection, and is not repeated.
Up(c) ==
  /\ Serving /\ client[c] = "started"
  /\ client' = [client EXCEPT ![c] = "open"]
  /\ UNCHANGED <<m_index, m_dat, cell, todo, at, mine, sought, owner,
                 overlapped, heard, subs, lookups, worker>>

Lost(c) ==
  /\ Serving /\ client[c] = "open"
  /\ client' = [client EXCEPT ![c] = "started"]
  /\ subs' = {s \in subs : s[2] # c}
  /\ UNCHANGED <<m_index, m_dat, cell, todo, at, mine, sought, owner,
                 overlapped, heard, lookups, worker>>

\* get_cli: the id's client, 0 for nullptr.  While the map is being changed a
\* search in it can miss what is there.
get_cli(id) ==
  (IF id \in DOMAIN m_dat THEN {m_dat[id]} ELSE {0})
    \cup (IF Inserting THEN {0} ELSE {})

\* A PING arrives on client c, and its callback looks for the client to send
\* the PONG on (on_rtn_depth, on_rtn_order_and_fill).
Ping(c) ==
  /\ Serving /\ client[c] = "open" /\ owner[c] # NoCell
  /\ \E d \in get_cli(cell[owner[c]]) : heard' = [by |-> c, got |-> d]
  /\ UNCHANGED <<registry, subs, lookups, worker>>

-----------------------------------------------------------------------------
\* sub_order_ws, sub_fill_ws, sub_depth in the other thread, after a sleep:
\* nothing is sent when there is no client, and nothing comes of it when the
\* client is not up.
Subscribe(v) ==
  /\ lookups < MaxLookups
  /\ lookups' = lookups + 1
  /\ \E c \in get_cli(cell[v]) :
       subs' = IF c # 0 /\ client[c] = "open" THEN subs \cup {<<v, c>>}
                                              ELSE subs
  /\ UNCHANGED <<registry, heard, worker>>

Next ==
  \/ \E t \in Threads :
       \/ Draw(t) \/ Assign(t)
       \/ Start(t) \/ BeginInsert(t) \/ EndInsert(t) \/ Work(t)
  \/ \E c \in Ids : Up(c) \/ Lost(c) \/ Ping(c)
  \/ \E v \in Cells : Subscribe(v)

Spec == Init /\ [][Next]_vars

\* Threads are scheduled: one inside connect() or work() takes its next step.
FairSpec ==
  /\ Spec
  /\ \A t \in Threads :
       WF_vars(Draw(t) \/ Assign(t) \/ Start(t) \/ BeginInsert(t)
                 \/ EndInsert(t) \/ Work(t))

-----------------------------------------------------------------------------
TypeOK ==
  /\ m_index \in 0 .. MaxConnects
  /\ DOMAIN m_dat \subseteq Ids /\ m_dat \in [DOMAIN m_dat -> Ids]
  /\ cell \in [Cells -> 0 .. MaxConnects]
  /\ todo \in [Threads -> Seq(Cells \cup {NoCell})]
  /\ at \in [Threads -> {"out", "drawn", "taken", "started", "inserting"}]
  /\ mine \in [Threads -> 0 .. MaxConnects]
  /\ sought \in [Threads -> 0 .. MaxConnects]
  /\ client \in [Ids -> {"none", "started", "open"}]
  /\ owner \in [Ids -> Cells \cup {NoCell}]
  /\ overlapped \in BOOLEAN
  /\ subs \subseteq Cells \X Ids

\* So long as connects through one variable do not overlap, and no two threads
\* change m_dat at once, an entry of m_dat is never given to another client or
\* lost, however else connect() in one thread comes between its steps in
\* another: each reads id again (base_websocket.h:343), and finds the number
\* it drew from single_con's one atomic counter.  Where they do overlap one
\* client's entry is given to another, or an entry is lost.
EntriesStay ==
  [][~overlapped =>
       \A c \in DOMAIN m_dat : c \in DOMAIN m_dat' /\ m_dat'[c] = m_dat[c]]_vars

\* Under the same condition a subscription goes to a client that was connected
\* for the index variable it names, even when that variable is read while
\* connect() is under way.
SubscribesOwn == ~overlapped => \A s \in subs : owner[s[2]] = s[1]

\* Under the same condition every callback finds its client, and its own:
\* pub_cli->Send(jsonstr) (unitTest/main.cpp:76) does not ask whether it is
\* null.  It misses only while a thread connects through the callback's index
\* variable or changes the map, the io thread being at work already, and takes
\* another client for its own only when the variable was given to connect()
\* again, for that client.
MissesOnlyWhileConnecting ==
  [][~overlapped /\ heard' # heard =>
       \/ heard'.got = heard'.by
       \/ /\ heard'.got = 0
          /\ \E t \in Threads : \/ at[t] = "inserting"
                                \/ at[t] # "out" /\ Var(t) = owner[heard'.by]
       \/ /\ heard'.got # 0
          /\ owner[heard'.got] = owner[heard'.by]]_vars

\* The clients' one io thread is the first that has connected its own: from
\* the moment every thread has called work() on, clients are served for ever,
\* although later callers leave m_work at a value that would end its loop.
KeepsServing == <>[]Serving
=============================================================================
