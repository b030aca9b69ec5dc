--------------------------- MODULE Webclient_proof --------------------------
(***************************************************************************)
(* What the registry promises holds for any number of threads, cells and   *)
(* connects.  The argument follows a number from m_index to m_dat: one      *)
(* thread draws it, writes it to an index variable, and finds it there      *)
(* again for as long as no other connect uses the variable.                *)
(***************************************************************************)
EXTENDS Webclient, TLAPS

\* Numbers in use were counted by m_index, and threads in connect() have
\* numbers of their own.
Counted ==
  /\ \A v \in Cells : cell[v] \in 0 .. m_index
  /\ \A c \in Ids : client[c] # "none" => c \in 1 .. m_index
  /\ \A t \in Threads : at[t] # "out" => todo[t] # <<>> /\ mine[t] \in 1 .. m_index
  /\ \A t, u \in Threads :
       t # u /\ at[t] # "out" /\ at[u] # "out" => mine[t] # mine[u]

\* The client of a number exists from Start on, for the variable of its connect.
Started ==
  \A t \in Threads :
    /\ at[t] \in {"drawn", "taken"} => client[mine[t]] = "none"
    /\ at[t] \in {"started", "inserting"} =>
         client[mine[t]] # "none" /\ owner[mine[t]] = Var(t)

\* A variable that has been given to a connect holds a number.
Assigned ==
  /\ \A t \in Threads :
       at[t] \in {"taken", "started", "inserting"} =>
         \A v \in Cells : v = Var(t) => cell[v] # 0
  /\ \A t \in Threads : at[t] = "inserting" => sought[t] # 0
  /\ \A c \in Ids : client[c] # "none" =>
       \A v \in Cells : v = owner[c] => cell[v] # 0

\* A variable's number is being connected for it, or its client was.
CellsKnown ==
  \A v \in Cells :
    cell[v] # 0 =>
      \/ \E t \in Threads : at[t] = "taken" /\ mine[t] = cell[v] /\ Var(t) = v
      \/ client[cell[v]] # "none" /\ owner[cell[v]] = v

\* Connects that do not overlap find their number in their variable.
Apart ==
  /\ \A t, u \in Threads :
       t # u /\ at[t] # "out" /\ at[u] # "out" /\ Var(t) # NoCell => Var(u) # Var(t)
  /\ \A t, u \in Threads : at[t] = "inserting" /\ at[u] = "inserting" => t = u
  /\ \A t \in Threads :
       at[t] \in {"taken", "started", "inserting"} =>
         \A v \in Cells : v = Var(t) => cell[v] = mine[t]
  /\ \A t \in Threads : at[t] = "inserting" => sought[t] = mine[t]

\* Then m_dat has every client under its own number, or the thread that
\* started it is about to put it there.
Entries ==
  /\ \A k \in DOMAIN m_dat : k \in 1 .. m_index /\ m_dat[k] = k
  /\ \A t \in Threads : at[t] # "out" => mine[t] \notin DOMAIN m_dat
  /\ \A c \in Ids : client[c] # "none" =>
       \/ c \in DOMAIN m_dat
       \/ \E t \in Threads : at[t] \in {"started", "inserting"} /\ mine[t] = c

SubsKnown == \A s \in subs : client[s[2]] # "none" /\ owner[s[2]] = s[1]

RegistryInv ==
  /\ TypeOK
  /\ Counted /\ Started /\ Assigned /\ CellsKnown
  /\ ~overlapped => Apart /\ Entries /\ SubsKnown

LEMMA RegistryInit == Init => RegistryInv
<1> SUFFICES ASSUME Init PROVE RegistryInv
  OBVIOUS
<1> USE BoundsAssumption, PlanAssumption DEF Init, Ids
<1>1. DOMAIN m_dat = {}
  OBVIOUS
<1>2. m_dat \in [DOMAIN m_dat -> Ids]
  BY <1>1
<1>3. TypeOK
  <2>1. m_index \in 0 .. MaxConnects /\ 0 \in 0 .. MaxConnects
    OBVIOUS
  <2>2. DOMAIN m_dat \subseteq Ids /\ todo \in [Threads -> Seq(Cells \cup {NoCell})]
    BY <1>1
  <2>3. QED
    BY ONLY <2>1, <2>2, <1>2, Init DEF Init, TypeOK
<1>4. Counted /\ Started /\ Assigned /\ CellsKnown
  BY DEF Counted, Started, Assigned, CellsKnown
<1>5. Apart /\ Entries /\ SubsKnown
  BY <1>1 DEF Apart, Entries, SubsKnown
<1>6. QED
  BY <1>3, <1>4, <1>5 DEF RegistryInv

\* A number is drawn: it is greater than every number in use.
LEMMA DrawStep ==
  ASSUME RegistryInv, NEW t \in Threads, Draw(t)
  PROVE  RegistryInv'
<1> USE BoundsAssumption DEF RegistryInv, Ids
<1> DEFINE n == m_index + 1
<1>1. /\ at[t] = "out" /\ todo[t] # <<>> /\ m_index < MaxConnects
      /\ m_index' = n
      /\ mine' = [mine EXCEPT ![t] = n]
      /\ at' = [at EXCEPT ![t] = "drawn"]
      /\ overlapped' = (overlapped \/ Overlap(t))
      /\ UNCHANGED <<m_dat, cell, todo, sought, client, owner, subs>>
  BY DEF Draw
<1>2. /\ m_index \in Nat /\ n \in 1 .. MaxConnects /\ n \in 1 .. n
      /\ n \notin 0 .. m_index /\ n \notin 1 .. m_index
      /\ 0 .. m_index \subseteq 0 .. n /\ 1 .. m_index \subseteq 1 .. n
  BY <1>1 DEF TypeOK
<1> HIDE DEF n
<1>3. /\ mine'[t] = n /\ at'[t] = "drawn"
      /\ \A u \in Threads \ {t} : mine'[u] = mine[u] /\ at'[u] = at[u]
      /\ \A u \in Threads : Var(u)' = Var(u)
  BY <1>1 DEF TypeOK, Var
<1>4. TypeOK'
  BY <1>1, <1>2 DEF TypeOK
<1>5. Counted'
  BY <1>1, <1>2, <1>3 DEF Counted
<1>6. Started'
  <2>1. client[n] = "none"
    BY <1>2 DEF Counted
  <2>2. QED
    BY <1>1, <1>3, <2>1 DEF Started
<1>7. Assigned'
  BY <1>1, <1>3 DEF Assigned
<1>8. CellsKnown'
  <2>1. \A u \in Threads : at[u] = "taken" => u # t
    BY <1>1
  <2>2. QED
    BY <1>1, <1>3, <2>1 DEF CellsKnown
<1>9. ASSUME ~overlapped' PROVE (Apart /\ Entries /\ SubsKnown)'
  <2>1. ~overlapped /\ ~Overlap(t)
    BY <1>1, <1>9 DEF TypeOK
  <2>2. Apart'
    <3>1. \A u \in Threads \ {t} :
            at[u] # "out" => (Var(t) # NoCell => Var(u) # Var(t)) /\ (Var(u) # NoCell => Var(u) # Var(t))
      BY <1>1, <2>1 DEF Overlap
    <3>2. QED
      BY <1>1, <1>3, <2>1, <3>1 DEF Apart
  <2>3. Entries'
    <3>1. n \notin DOMAIN m_dat
      BY <1>2, <2>1 DEF Entries
    <3>2. \A u \in Threads : at[u] \in {"started", "inserting"} => u # t
      BY <1>1
    <3>3. QED
      BY <1>1, <1>2, <1>3, <2>1, <3>1, <3>2 DEF Entries
  <2>4. SubsKnown'
    BY <1>1, <2>1 DEF SubsKnown
  <2>5. QED
    BY <2>2, <2>3, <2>4
<1>10. QED
  BY <1>4, <1>5, <1>6, <1>7, <1>8, <1>9

\* It is written to the variable of its connect.
LEMMA AssignStep ==
  ASSUME RegistryInv, NEW t \in Threads, Assign(t)
  PROVE  RegistryInv'
<1> USE BoundsAssumption DEF RegistryInv, Ids
<1>1. /\ at[t] = "drawn"
      /\ cell' = IF Var(t) = NoCell THEN cell ELSE [cell EXCEPT ![Var(t)] = mine[t]]
      /\ at' = [at EXCEPT ![t] = "taken"]
      /\ UNCHANGED <<m_index, m_dat, todo, mine, sought, client, owner, overlapped, subs>>
  BY DEF Assign
<1>2. /\ at'[t] = "taken"
      /\ \A u \in Threads \ {t} : at'[u] = at[u]
      /\ \A u \in Threads : Var(u)' = Var(u)
  BY <1>1 DEF TypeOK, Var
<1>3. mine[t] \in 1 .. m_index /\ mine[t] # 0
  BY <1>1 DEF Counted, TypeOK
<1>4. /\ cell' \in [Cells -> 0 .. MaxConnects]
      /\ \A v \in Cells : cell'[v] = IF v = Var(t) THEN mine[t] ELSE cell[v]
  <2>1. cell \in [Cells -> 0 .. MaxConnects] /\ mine[t] \in 0 .. MaxConnects
    BY DEF TypeOK
  <2>2. CASE Var(t) = NoCell
    BY <1>1, <2>1, <2>2, NoCellAssumption
  <2>3. CASE Var(t) # NoCell
    <3>1. cell' = [cell EXCEPT ![Var(t)] = mine[t]]
      BY <1>1, <2>3
    <3>2. QED
      BY <2>1, <3>1
  <2>4. QED
    BY <2>2, <2>3
<1>5. TypeOK'
  BY <1>1, <1>4 DEF TypeOK
<1>6. Counted'
  <2>1. mine[t] \in 0 .. m_index
    BY <1>3 DEF TypeOK
  <2>2. \A v \in Cells : cell'[v] \in 0 .. m_index
    BY <1>4, <2>1 DEF Counted
  <2>3. QED
    BY <1>1, <1>2, <2>2 DEF Counted
<1>7. Started'
  BY <1>1, <1>2 DEF Started
<1>8. Assigned'
  BY <1>1, <1>2, <1>3, <1>4 DEF Assigned
<1>9. CellsKnown'
  <2> SUFFICES ASSUME NEW v \in Cells, cell'[v] # 0
               PROVE  \/ \E u \in Threads : at'[u] = "taken" /\ mine[u] = cell'[v] /\ Var(u) = v
                      \/ client[cell'[v]] # "none" /\ owner[cell'[v]] = v
    BY <1>1, <1>2 DEF CellsKnown
  <2>1. CASE v = Var(t)
    BY <1>2, <1>4, <2>1
  <2>2. CASE v # Var(t)
    <3>1. \A u \in Threads : at[u] = "taken" => at'[u] = "taken"
      BY <1>1, <1>2
    <3>2. QED
      BY <1>4, <2>2, <3>1 DEF CellsKnown
  <2>3. QED
    BY <2>1, <2>2
<1>10. ASSUME ~overlapped PROVE (Apart /\ Entries /\ SubsKnown)'
  <2>1. Apart'
    <3>1. \A u \in Threads \ {t} : at[u] # "out" => \A v \in Cells : v = Var(u) => v # Var(t)
      BY <1>1, <1>10, NoCellAssumption DEF Apart
    <3>2. \A u \in Threads : at'[u] \in {"taken", "started", "inserting"} =>
            \A v \in Cells : v = Var(u) => cell'[v] = mine[u]
      BY <1>2, <1>4, <1>10, <3>1 DEF Apart
    <3>3. QED
      BY <1>1, <1>2, <1>10, <3>2 DEF Apart
  <2>2. Entries' /\ SubsKnown'
    <3>1. \A u \in Threads : at[u] \in {"started", "inserting"} => at'[u] = at[u]
      BY <1>1, <1>2
    <3>2. QED
      BY <1>1, <1>2, <1>10, <3>1 DEF Entries, SubsKnown
  <2>3. QED
    BY <2>1, <2>2
<1>11. QED
  BY <1>1, <1>5, <1>6, <1>7, <1>8, <1>9, <1>10

\* The client of a number exists, and is its connect's.
LEMMA StartStep ==
  ASSUME RegistryInv, NEW t \in Threads, Start(t)
  PROVE  RegistryInv'
<1> USE BoundsAssumption DEF RegistryInv, Ids
<1>1. /\ at[t] = "taken"
      /\ client' = [client EXCEPT ![mine[t]] = "started"]
      /\ owner' = [owner EXCEPT ![mine[t]] = Var(t)]
      /\ at' = [at EXCEPT ![t] = "started"]
      /\ UNCHANGED <<m_index, m_dat, cell, todo, mine, sought, overlapped, subs>>
  BY DEF Start
<1>2. /\ todo[t] # <<>> /\ mine[t] \in 1 .. m_index /\ mine[t] \in Ids
      /\ client[mine[t]] = "none"
  BY <1>1 DEF Counted, Started, TypeOK
<1>3. Var(t) \in Cells \cup {NoCell}
  BY <1>2 DEF TypeOK, Var
<1>4. /\ client'[mine[t]] = "started" /\ owner'[mine[t]] = Var(t)
      /\ \A c \in Ids \ {mine[t]} : client'[c] = client[c] /\ owner'[c] = owner[c]
      /\ at'[t] = "started" /\ \A u \in Threads \ {t} : at'[u] = at[u]
      /\ \A u \in Threads : Var(u)' = Var(u)
  BY <1>1, <1>2 DEF TypeOK, Var
<1>5. \A u \in Threads \ {t} : at[u] # "out" => mine[u] # mine[t] /\ mine[u] \in Ids
  BY <1>1 DEF Counted, TypeOK
<1>6. TypeOK'
  BY <1>1, <1>2, <1>3 DEF TypeOK
<1>7. Counted'
  BY <1>1, <1>2, <1>4 DEF Counted
<1>8. Started'
  BY <1>1, <1>2, <1>4, <1>5 DEF Started
<1>9. Assigned'
  BY <1>1, <1>2, <1>4 DEF Assigned
<1>10. CellsKnown'
  <2> SUFFICES ASSUME NEW v \in Cells, cell[v] # 0
               PROVE  \/ \E u \in Threads : at'[u] = "taken" /\ mine[u] = cell[v] /\ Var(u) = v
                      \/ client'[cell[v]] # "none" /\ owner'[cell[v]] = v
    BY <1>1, <1>4 DEF CellsKnown
  <2>1. cell[v] \in Ids
    BY DEF TypeOK
  <2>2. CASE client[cell[v]] # "none" /\ owner[cell[v]] = v
    BY <1>2, <1>4, <2>1, <2>2
  <2>3. ASSUME NEW u \in Threads, at[u] = "taken", mine[u] = cell[v], Var(u) = v
        PROVE  \/ at'[u] = "taken"
               \/ client'[cell[v]] # "none" /\ owner'[cell[v]] = v
    BY <1>4, <2>3
  <2>4. QED
    BY <2>2, <2>3 DEF CellsKnown
<1>11. ASSUME ~overlapped PROVE (Apart /\ Entries /\ SubsKnown)'
  <2>1. Apart'
    BY <1>1, <1>4, <1>11 DEF Apart
  <2>2. Entries'
    <3>1. \A c \in Ids : client'[c] # "none" =>
            \/ c \in DOMAIN m_dat
            \/ \E u \in Threads : at'[u] \in {"started", "inserting"} /\ mine[u] = c
      <4> SUFFICES ASSUME NEW c \in Ids, client'[c] # "none"
                   PROVE  \/ c \in DOMAIN m_dat
                          \/ \E u \in Threads : at'[u] \in {"started", "inserting"} /\ mine[u] = c
        OBVIOUS
      <4>1. CASE c = mine[t]
        BY <1>4, <4>1
      <4>2. CASE c # mine[t]
        <5>1. \A u \in Threads : at[u] \in {"started", "inserting"} => at'[u] = at[u]
          BY <1>1, <1>4
        <5>2. QED
          BY <1>4, <1>11, <4>2, <5>1 DEF Entries
      <4>3. QED
        BY <4>1, <4>2
    <3>2. QED
      BY <1>1, <1>4, <1>11, <3>1 DEF Entries
  <2>3. SubsKnown'
    BY <1>1, <1>2, <1>4, <1>11 DEF SubsKnown, TypeOK
  <2>4. QED
    BY <2>1, <2>2, <2>3
<1>12. QED
  BY <1>1, <1>6, <1>7, <1>8, <1>9, <1>10, <1>11

\* m_dat[id] begins its search with what is in the variable by then.
LEMMA BeginStep ==
  ASSUME RegistryInv, NEW t \in Threads, BeginInsert(t)
  PROVE  RegistryInv'
<1> USE BoundsAssumption DEF RegistryInv, Ids
<1>1. /\ at[t] = "started"
      /\ sought' = [sought EXCEPT ![t] = Id(t)]
      /\ at' = [at EXCEPT ![t] = "inserting"]
      /\ overlapped' = (overlapped \/ Overlap(t))
      /\ UNCHANGED <<m_index, m_dat, cell, todo, mine, client, owner, subs>>
  BY DEF BeginInsert
<1>2. /\ at'[t] = "inserting" /\ sought'[t] = Id(t)
      /\ \A u \in Threads \ {t} : at'[u] = at[u] /\ sought'[u] = sought[u]
      /\ \A u \in Threads : Var(u)' = Var(u)
  BY <1>1 DEF TypeOK, Var
<1>3. Var(t) \in Cells \cup {NoCell} /\ mine[t] \in 1 .. m_index
  BY <1>1 DEF TypeOK, Counted, Var
<1>4. Id(t) \in 0 .. MaxConnects /\ Id(t) # 0
  BY <1>1, <1>3 DEF Id, Assigned, TypeOK
<1>5. TypeOK'
  BY <1>1, <1>4 DEF TypeOK
<1>6. Counted' /\ Started'
  BY <1>1, <1>2 DEF Counted, Started
<1>7. Assigned'
  BY <1>1, <1>2, <1>4 DEF Assigned
<1>8. CellsKnown'
  <2>1. \A u \in Threads : at[u] = "taken" => at'[u] = "taken"
    BY <1>1, <1>2
  <2>2. QED
    BY <1>1, <1>2, <2>1 DEF CellsKnown
<1>9. ASSUME ~overlapped' PROVE (Apart /\ Entries /\ SubsKnown)'
  <2>1. ~overlapped /\ ~Overlap(t)
    BY <1>1, <1>9 DEF TypeOK
  <2>2. Id(t) = mine[t]
    BY <1>1, <1>3, <2>1 DEF Id, Apart
  <2>3. \A u \in Threads \ {t} : at[u] # "inserting"
    BY <1>1, <2>1 DEF Overlap
  <2>4. Apart'
    BY <1>1, <1>2, <2>1, <2>2, <2>3 DEF Apart
  <2>5. Entries' /\ SubsKnown'
    <3>1. \A u \in Threads : at[u] \in {"started", "inserting"} => at'[u] \in {"started", "inserting"}
      BY <1>2
    <3>2. QED
      BY <1>1, <1>2, <2>1, <3>1 DEF Entries, SubsKnown
  <2>6. QED
    BY <2>4, <2>5
<1>10. QED
  BY <1>5, <1>6, <1>7, <1>8, <1>9

\* Where connects do not overlap, the only key of an entry is the number drawn.
LEMMA OwnKey ==
  ASSUME RegistryInv, ~overlapped, NEW t \in Threads, at[t] = "inserting"
  PROVE  Keys(t) = {mine[t]} /\ mine[t] \notin DOMAIN m_dat
<1> USE DEF RegistryInv
<1>1. sought[t] = mine[t] /\ mine[t] \in Nat /\ mine[t] \notin DOMAIN m_dat
  BY BoundsAssumption DEF Apart, Entries, TypeOK
<1>2. Var(t) \in Cells \cup {NoCell}
  BY DEF Var, Counted, TypeOK
<1>3. Id(t) = mine[t]
  BY <1>2 DEF Id, Apart
<1>4. QED
  BY <1>1, <1>3 DEF Keys

\* The entry is made.
LEMMA EndStep ==
  ASSUME RegistryInv, NEW t \in Threads, EndInsert(t)
  PROVE  /\ RegistryInv'
         /\ ~overlapped => \A c \in DOMAIN m_dat : c \in DOMAIN m_dat' /\ m_dat'[c] = m_dat[c]
<1> USE BoundsAssumption DEF RegistryInv, Ids
<1>1. /\ at[t] = "inserting"
      /\ todo' = [todo EXCEPT ![t] = Tail(@)]
      /\ at' = [at EXCEPT ![t] = "out"]
      /\ UNCHANGED <<m_index, cell, mine, sought, client, owner, overlapped, subs>>
  BY DEF EndInsert
<1>2. /\ at'[t] = "out"
      /\ \A u \in Threads \ {t} : at'[u] = at[u] /\ todo'[u] = todo[u] /\ Var(u)' = Var(u)
  BY <1>1 DEF TypeOK, Var
<1>3. /\ todo[t] # <<>> /\ mine[t] \in 1 .. m_index /\ mine[t] \in Ids
      /\ sought[t] \in Ids
  BY <1>1 DEF Counted, Assigned, TypeOK
<1>4. Id(t) \in Ids
  <2>1. Var(t) \in Cells \cup {NoCell}
    BY <1>3 DEF TypeOK, Var
  <2>2. QED
    BY <1>1, <1>3, <2>1 DEF Id, Assigned, TypeOK
<1>5. Keys(t) \subseteq Ids
  BY <1>3, <1>4 DEF Keys, TypeOK
<1>6. DOMAIN m_dat' \subseteq Ids /\ m_dat' \in [DOMAIN m_dat' -> Ids]
  <2>1. CASE m_dat' = m_dat
    BY <2>1 DEF TypeOK
  <2>2. ASSUME NEW k \in Keys(t),
               m_dat' = [c \in DOMAIN m_dat \cup {k} |-> IF c = k THEN mine[t] ELSE m_dat[c]]
        PROVE  DOMAIN m_dat' \subseteq Ids /\ m_dat' \in [DOMAIN m_dat' -> Ids]
    BY <1>3, <1>5, <2>2 DEF TypeOK
  <2>3. QED
    BY <2>1, <2>2 DEF EndInsert
<1>7. TypeOK'
  <2>1. todo[t] \in Seq(Cells \cup {NoCell})
    BY DEF TypeOK
  <2>2. Tail(todo[t]) \in Seq(Cells \cup {NoCell})
    BY <1>3, <2>1
  <2>3. QED
    BY <1>1, <1>6, <2>2 DEF TypeOK
<1>8. Counted' /\ Started'
  BY <1>1, <1>2 DEF Counted, Started
<1>9. Assigned'
  BY <1>1, <1>2 DEF Assigned
<1>10. CellsKnown'
  <2>1. \A u \in Threads : at[u] = "taken" => u # t
    BY <1>1
  <2>2. QED
    BY <1>1, <1>2, <2>1 DEF CellsKnown
<1>11. ASSUME ~overlapped
       PROVE  /\ (Apart /\ Entries /\ SubsKnown)'
              /\ \A c \in DOMAIN m_dat : c \in DOMAIN m_dat' /\ m_dat'[c] = m_dat[c]
  <2>1. Keys(t) = {mine[t]} /\ mine[t] \notin DOMAIN m_dat
    BY <1>1, <1>11, OwnKey
  <2>2. \A u \in Threads \ {t} : at[u] # "inserting"
    BY <1>1, <1>11 DEF Apart
  <2>3. m_dat' = [c \in DOMAIN m_dat \cup {mine[t]} |-> IF c = mine[t] THEN mine[t] ELSE m_dat[c]]
    BY <2>1, <2>2 DEF EndInsert
  <2>4. Apart'
    BY <1>1, <1>2, <1>11 DEF Apart
  <2>5. Entries'
    <3>1. \A k \in DOMAIN m_dat' : k \in 1 .. m_index /\ m_dat'[k] = k
      BY <1>3, <1>11, <2>3 DEF Entries
    <3>2. \A u \in Threads : at'[u] # "out" => mine[u] \notin DOMAIN m_dat'
      BY <1>1, <1>2, <1>11, <2>3 DEF Entries, Counted
    <3>3. \A c \in Ids : client[c] # "none" =>
            \/ c \in DOMAIN m_dat'
            \/ \E u \in Threads : at'[u] \in {"started", "inserting"} /\ mine[u] = c
      BY <1>2, <1>11, <2>3 DEF Entries
    <3>4. QED
      BY <1>1, <3>1, <3>2, <3>3 DEF Entries
  <2>6. SubsKnown'
    BY <1>1, <1>11 DEF SubsKnown
  <2>7. QED
    BY <2>1, <2>3, <2>4, <2>5, <2>6
<1>12. QED
  BY <1>1, <1>7, <1>8, <1>9, <1>10, <1>11

\* A client that comes up or loses its connection stays in the registry.
LEMMA ConnectionStep ==
  ASSUME RegistryInv, NEW c \in Ids, Up(c) \/ Lost(c)
  PROVE  RegistryInv'
<1> USE DEF RegistryInv
<1>1. /\ UNCHANGED <<m_index, m_dat, cell, todo, at, mine, sought, owner, overlapped>>
      /\ subs' \subseteq subs
      /\ client' \in [Ids -> {"none", "started", "open"}]
      /\ \A d \in Ids : client'[d] = "none" <=> client[d] = "none"
  BY DEF Up, Lost, TypeOK
<1>2. \A t \in Threads : Var(t)' = Var(t)
  BY <1>1 DEF Var
<1>3. /\ \A t \in Threads : at[t] # "out" => mine[t] \in Ids
      /\ \A v \in Cells : cell[v] # 0 => cell[v] \in Ids
  BY BoundsAssumption DEF TypeOK, Counted, Ids
<1>4. TypeOK'
  BY <1>1 DEF TypeOK
<1>5. Counted'
  BY <1>1 DEF Counted
<1>6. Started'
  <2> SUFFICES ASSUME NEW t \in Threads
               PROVE  /\ at[t] \in {"drawn", "taken"} => client'[mine[t]] = "none"
                      /\ at[t] \in {"started", "inserting"} =>
                           client'[mine[t]] # "none" /\ owner[mine[t]] = Var(t)
    BY <1>1, <1>2 DEF Started
  <2>1. at[t] # "out" => (client'[mine[t]] = "none" <=> client[mine[t]] = "none")
    BY <1>1, <1>3
  <2>2. QED
    BY <2>1 DEF Started
<1>7. Assigned' /\ CellsKnown'
  BY <1>1, <1>2, <1>3 DEF Assigned, CellsKnown
<1>8. ~overlapped => (Apart /\ Entries /\ SubsKnown)'
  <2>1. Apart => Apart'
    BY <1>1, <1>2 DEF Apart
  <2>2. Entries => Entries'
    BY <1>1 DEF Entries
  <2>3. SubsKnown => SubsKnown'
    BY <1>1 DEF SubsKnown, TypeOK
  <2>4. QED
    BY <2>1, <2>2, <2>3
<1>9. QED
  BY <1>1, <1>4, <1>5, <1>6, <1>7, <1>8

\* Where connects do not overlap, a lookup finds the variable's own client or
\* none.
LEMMA FindsOwn ==
  ASSUME RegistryInv, ~overlapped, NEW v \in Cells,
         NEW c \in get_cli(cell[v]), c # 0
  PROVE  c \in Ids /\ c = cell[v] /\ client[c] # "none" /\ owner[c] = v
<1> USE DEF RegistryInv
<1>1. cell[v] \in DOMAIN m_dat /\ c = m_dat[cell[v]]
  BY DEF get_cli
<1>2. c = cell[v] /\ c \in Ids /\ c \in DOMAIN m_dat
  BY <1>1 DEF Entries, TypeOK
<1>3. \A t \in Threads : at[t] = "taken" => mine[t] # c
  BY <1>2 DEF Entries
<1>4. c # 0 /\ cell[v] # 0
  BY <1>2
<1>5. QED
  BY <1>2, <1>3, <1>4 DEF CellsKnown

\* A subscription is made on the client of its variable.
LEMMA SubscribeStep ==
  ASSUME RegistryInv, NEW v \in Cells, Subscribe(v)
  PROVE  RegistryInv'
<1> USE DEF RegistryInv
<1>1. PICK c \in get_cli(cell[v]) :
        subs' = IF c # 0 /\ client[c] = "open" THEN subs \cup {<<v, c>>} ELSE subs
  BY DEF Subscribe
<1>2. UNCHANGED registry
  BY DEF Subscribe
<1>3. \A t \in Threads : Var(t)' = Var(t)
  BY <1>2 DEF Var, registry
<1>4. c # 0 => c \in Ids
  BY DEF get_cli, TypeOK
<1>5. subs' \subseteq Cells \X Ids
  BY <1>1, <1>4 DEF TypeOK
<1>6. TypeOK'
  BY <1>2, <1>5 DEF TypeOK, registry
<1>7. Counted' /\ Started' /\ Assigned' /\ CellsKnown'
  <2>1. Counted' /\ Started'
    BY <1>2, <1>3 DEF Counted, Started, registry
  <2>2. Assigned' /\ CellsKnown'
    BY <1>2, <1>3 DEF Assigned, CellsKnown, registry
  <2>3. QED
    BY <2>1, <2>2
<1>8. ASSUME ~overlapped PROVE (Apart /\ Entries /\ SubsKnown)'
  <2>1. Apart' /\ Entries'
    BY <1>2, <1>3, <1>8 DEF Apart, Entries, registry
  <2>2. SubsKnown'
    <3>1. \A s \in subs : client[s[2]] # "none" /\ owner[s[2]] = s[1]
      BY <1>8 DEF SubsKnown
    <3>2. c # 0 => client[c] # "none" /\ owner[c] = v
      BY <1>8, FindsOwn
    <3>3. \A s \in subs' : s \in subs \/ (c # 0 /\ s = <<v, c>>)
      BY <1>1
    <3>4. \A s \in subs' : client[s[2]] # "none" /\ owner[s[2]] = s[1]
      BY <3>1, <3>2, <3>3
    <3>5. QED
      BY <1>2, <3>4 DEF SubsKnown, registry
  <2>3. QED
    BY <2>1, <2>2
<1>9. QED
  BY <1>2, <1>6, <1>7, <1>8 DEF registry

LEMMA OtherStep ==
  ASSUME RegistryInv, UNCHANGED <<registry, subs>>
  PROVE  RegistryInv'
<1>1. \A t \in Threads : Var(t)' = Var(t)
  BY DEF Var, registry
<1>2. TypeOK' /\ Counted' /\ Started'
  BY <1>1 DEF RegistryInv, TypeOK, Counted, Started, registry
<1>3. Assigned' /\ CellsKnown'
  BY <1>1 DEF RegistryInv, Assigned, CellsKnown, registry
<1>4. ~overlapped => (Apart /\ Entries /\ SubsKnown)'
  BY <1>1 DEF RegistryInv, Apart, Entries, SubsKnown, registry
<1>5. QED
  BY <1>2, <1>3, <1>4 DEF RegistryInv, registry

LEMMA RegistryStep == RegistryInv /\ [Next]_vars => RegistryInv'
<1> SUFFICES ASSUME RegistryInv, [Next]_vars PROVE RegistryInv'
  OBVIOUS
<1>1. ASSUME NEW t \in Threads, Work(t) PROVE RegistryInv'
  BY <1>1, OtherStep DEF Work
<1>2. ASSUME NEW c \in Ids, Ping(c) PROVE RegistryInv'
  BY <1>2, OtherStep DEF Ping
<1>3. CASE UNCHANGED vars
  BY <1>3, OtherStep DEF vars
<1>4. QED
  BY <1>1, <1>2, <1>3, DrawStep, AssignStep, StartStep, BeginStep, EndStep, ConnectionStep,
     SubscribeStep DEF Next

LEMMA RegistryInvariant == Spec => []RegistryInv
BY RegistryInit, RegistryStep, PTL DEF Spec

\* The registry's variables keep their types, whoever connects what.
THEOREM TypeCorrect == Spec => []TypeOK
<1>1. RegistryInv => TypeOK
  BY DEF RegistryInv
<1>2. QED
  BY <1>1, RegistryInvariant, PTL

\* So long as connects do not overlap, every subscription is with a client
\* connected for the variable it names.
THEOREM SubscriptionsAreOwn == Spec => []SubscribesOwn
<1>1. RegistryInv => SubscribesOwn
  BY DEF RegistryInv, SubsKnown, SubscribesOwn
<1>2. QED
  BY <1>1, RegistryInvariant, PTL

\* So long as connects do not overlap, no entry of m_dat is given to another
\* client or lost.
THEOREM EntriesNeverChange == Spec => EntriesStay
<1> DEFINE Stays ==
      ~overlapped => \A c \in DOMAIN m_dat : c \in DOMAIN m_dat' /\ m_dat'[c] = m_dat[c]
<1>1. RegistryInv /\ [Next]_vars => [Stays]_vars
  <2> SUFFICES ASSUME RegistryInv, Next PROVE Stays
    OBVIOUS
  <2>1. CASE \E t \in Threads : EndInsert(t)
    BY <2>1, EndStep
  <2>2. CASE UNCHANGED m_dat
    BY <2>2
  <2>3. QED
    BY <2>1, <2>2 DEF Next, Draw, Assign, Start, BeginInsert, Work, Up, Lost, Ping, Subscribe,
                      registry
<1>2. QED
  BY <1>1, RegistryInvariant, PTL DEF Spec, EntriesStay

\* So long as connects do not overlap, a callback that does not find its own
\* client runs while a thread connects through its variable or changes the map,
\* or its variable was given to connect() again.
THEOREM MissesAreExplained == Spec => MissesOnlyWhileConnecting
<1> DEFINE Explained ==
      ~overlapped /\ heard' # heard =>
        \/ heard'.got = heard'.by
        \/ /\ heard'.got = 0
           /\ \E t \in Threads : \/ at[t] = "inserting"
                                 \/ at[t] # "out" /\ Var(t) = owner[heard'.by]
        \/ /\ heard'.got # 0
           /\ owner[heard'.got] = owner[heard'.by]
<1>1. RegistryInv /\ [Next]_vars => [Explained]_vars
  <2> SUFFICES ASSUME RegistryInv, Next, ~overlapped, heard' # heard
               PROVE  Explained
    OBVIOUS
  <2>1. PICK c \in Ids : Ping(c)
    BY DEF Next, Draw, Assign, Start, BeginInsert, EndInsert, Work, Up, Lost, Subscribe
  <2>2. client[c] = "open" /\ owner[c] \in Cells
    BY <2>1 DEF Ping, RegistryInv, TypeOK
  <2> DEFINE v == owner[c]
  <2>3. PICK d \in get_cli(cell[v]) : heard' = [by |-> c, got |-> d]
    BY <2>1 DEF Ping
  <2>4. CASE d # 0
    BY <2>2, <2>3, <2>4, FindsOwn
  <2>5. CASE d = 0 /\ ~Inserting
    <3>1. cell[v] # 0 /\ cell[v] \in Ids
      BY <2>2, BoundsAssumption DEF RegistryInv, Assigned, TypeOK, Ids
    <3>2. cell[v] \notin DOMAIN m_dat
      <4>1. cell[v] \in DOMAIN m_dat => m_dat[cell[v]] = cell[v]
        BY DEF RegistryInv, Entries
      <4>2. QED
        BY <2>3, <2>5, <3>1, <4>1 DEF get_cli
    <3>3. \E t \in Threads : at[t] # "out" /\ Var(t) = v
      <4>1. CASE client[cell[v]] # "none" /\ owner[cell[v]] = v
        <5>1. PICK t \in Threads : at[t] \in {"started", "inserting"} /\ mine[t] = cell[v]
          BY <3>1, <3>2, <4>1 DEF RegistryInv, Entries
        <5>2. Var(t) = v
          BY <4>1, <5>1 DEF RegistryInv, Started
        <5>3. QED
          BY <5>1, <5>2
      <4>2. CASE \E t \in Threads : at[t] = "taken" /\ mine[t] = cell[v] /\ Var(t) = v
        BY <4>2
      <4>3. QED
        BY <2>2, <3>1, <4>1, <4>2 DEF RegistryInv, CellsKnown
    <3>4. QED
      BY <2>3, <2>5, <3>3
  <2>6. CASE d = 0 /\ Inserting
    BY <2>3, <2>6 DEF Inserting
  <2>7. QED
    BY <2>4, <2>5, <2>6
<1>2. QED
  BY <1>1, RegistryInvariant, PTL DEF Spec, MissesOnlyWhileConnecting
=============================================================================
