------------------------ MODULE AdapterCommonProofs -------------------------
(***************************************************************************)
(* Proofs about the adapter and its list of sideband devices.              *)
(***************************************************************************)
EXTENDS AdapterCommon, FiniteSetTheorems, SequenceTheorems, TLAPS

(***************************************************************************)
(* How a step moves a thread                                               *)
(***************************************************************************)

Thread == [at : Places, device : Owners, action : {"None", "Start", "Stop"},
           endpoint : Names, topo : Subs, wave : Subs, made : SUBSET Subs, ok : BOOLEAN]

\* The other threads stay where they are.
Moves(t) == \A u \in Threads \ {t} : thread'[u] = thread[u]

LEMMA Numbers == Main \in Threads /\ Main = 0 /\ Adapter = 0 /\ Main \notin Callbacks /\ Adapter \notin Objects
                 /\ Threads = {Main} \cup Callbacks
  BY SubdeviceAssumption DEF Main, Adapter, Threads

LEMMA IdleThread ==
  Idle \in Thread /\ Idle.at = "Idle" /\ Idle.device = Adapter
<1>1. NoSubdevice \in Subs
  BY DEF NoSubdevice, Subs, Names, Owners
<1>2. Idle.at = "Idle" /\ Idle.device = Adapter
  BY DEF Idle
<1>3. Idle \in Thread
  BY <1>1 DEF Idle, Thread, Owners, Names, Places
<1> QED BY <1>2, <1>3

\* Goto changes the place only.
LEMMA Gone ==
  ASSUME FilterTypes, NEW t \in Threads, NEW here \in Places, Goto(t, here)
  PROVE  /\ thread' \in [Threads -> Thread] /\ Moves(t)
         /\ thread'[t].at = here /\ thread'[t].device = thread[t].device
<1>1. thread \in [Threads -> Thread] /\ thread[t] \in Thread
  BY DEF FilterTypes, Thread
<1>2. PICK p : p = [thread[t] EXCEPT !.at = here]
  OBVIOUS
<1>3. p \in Thread /\ p.at = here /\ p.device = thread[t].device
  BY <1>1, <1>2 DEF Thread
<1>4. thread' = [thread EXCEPT ![t] = p]
  BY <1>2 DEF Goto
<1> QED BY <1>1, <1>3, <1>4 DEF Moves

LEMMA Becomes ==
  ASSUME FilterTypes, NEW t \in Threads, NEW p \in Thread, thread' = [thread EXCEPT ![t] = p]
  PROVE  thread' \in [Threads -> Thread] /\ Moves(t) /\ thread'[t] = p
<1>1. thread \in [Threads -> Thread]
  BY DEF FilterTypes, Thread
<1> QED BY <1>1 DEF Moves

(***************************************************************************)
(* Counting holders                                                        *)
(***************************************************************************)

\* The tasks for a device in a queue of tasks.
For(q, d) == {i \in DOMAIN q : q[i].device = d}

LEMMA ForFinite ==
  ASSUME NEW q \in Seq(Tasks), NEW d
  PROVE  IsFiniteSet(For(q, d)) /\ Cardinality(For(q, d)) \in Nat
<1>1. Len(q) \in Nat /\ For(q, d) \in SUBSET (1 .. Len(q))
  BY DEF For
<1>2. IsFiniteSet(1 .. Len(q))
  BY <1>1, FS_Interval
<1>3. IsFiniteSet(For(q, d))
  BY <1>1, <1>2, FS_Subset
<1> QED BY <1>3, FS_CardinalityType

LEMMA ForAppend ==
  ASSUME NEW q \in Seq(Tasks), NEW x \in Tasks, NEW d
  PROVE  Cardinality(For(Append(q, x), d)) = Cardinality(For(q, d)) + Held(x.device = d)
<1>1. PICK n : n = Len(q) + 1
  OBVIOUS
<1>2. /\ DOMAIN Append(q, x) = 1 .. n /\ DOMAIN q = 1 .. n - 1 /\ n \in Nat \ {0}
      /\ Append(q, x)[n] = x /\ \A i \in 1 .. n - 1 : Append(q, x)[i] = q[i]
  BY <1>1
<1>3. n \notin For(q, d)
  BY <1>2 DEF For
<1>4. CASE x.device = d
  <2>1. For(Append(q, x), d) = For(q, d) \cup {n}
    BY <1>2, <1>4 DEF For
  <2> QED BY <1>3, <1>4, <2>1, ForFinite, FS_AddElement DEF Held
<1>5. CASE x.device # d
  <2>1. For(Append(q, x), d) = For(q, d)
    BY <1>2, <1>5 DEF For
  <2> QED BY <1>5, <2>1, ForFinite DEF Held
<1> QED BY <1>4, <1>5

LEMMA ForTail ==
  ASSUME NEW q \in Seq(Tasks), q # <<>>, NEW d
  PROVE  Cardinality(For(q, d)) = Cardinality(For(Tail(q), d)) + Held(Head(q).device = d)
<1>1. PICK n : n = Len(q)
  OBVIOUS
<1>2. PICK r : r = Tail(q)
  OBVIOUS
<1>3. /\ n \in Nat \ {0} /\ DOMAIN q = 1 .. n /\ DOMAIN r = 1 .. n - 1 /\ r \in Seq(Tasks)
      /\ Head(q) = q[1] /\ \A i \in 1 .. n - 1 : r[i] = q[i + 1]
  BY <1>1, <1>2, HeadTailProperties
<1>4. PICK f : f = [i \in For(r, d) |-> i + 1]
  OBVIOUS
<1>5. f \in Bijection(For(r, d), For(q, d) \ {1})
  <2>1. f \in [For(r, d) -> For(q, d) \ {1}]
    BY <1>3, <1>4 DEF For
  <2>2. \A i, j \in For(r, d) : f[i] = f[j] => i = j
    BY <1>3, <1>4 DEF For
  <2>3. ASSUME NEW j \in For(q, d) \ {1} PROVE \E i \in For(r, d) : f[i] = j
    <3>1. j - 1 \in For(r, d) /\ (j - 1) + 1 = j
      BY <1>3 DEF For
    <3> QED BY <1>4, <3>1
  <2> QED BY <2>1, <2>2, <2>3 DEF Bijection, Injection, Surjection, IsInjective
<1>6. IsFiniteSet(For(r, d)) /\ IsFiniteSet(For(q, d)) /\ Cardinality(For(q, d)) \in Nat
  BY <1>3, ForFinite
<1>7. Cardinality(For(q, d) \ {1}) = Cardinality(For(r, d))
  BY <1>5, <1>6, FS_Bijection DEF ExistsBijection
<1>8. Cardinality(For(q, d) \ {1}) = IF 1 \in For(q, d) THEN Cardinality(For(q, d)) - 1 ELSE Cardinality(For(q, d))
  BY <1>6, FS_RemoveElement
<1>9. 1 \in For(q, d) <=> Head(q).device = d
  BY <1>3 DEF For
<1> QED BY <1>2, <1>6, <1>7, <1>8, <1>9 DEF Held

\* One thread changes the device it works for.
LEMMA ThreadsChange ==
  ASSUME NEW t \in Threads, Moves(t), NEW d
  PROVE  /\ Cardinality(ThreadsFor(d)) \in Nat /\ IsFiniteSet(ThreadsFor(d))
         /\ Cardinality(ThreadsFor(d)') = Cardinality(ThreadsFor(d)) - Held(thread[t].device = d)
                                                                     + Held(thread'[t].device = d)
<1>1. IsFiniteSet(Threads)
  BY SubdeviceAssumption, FS_AddElement DEF Threads
<1>2. PICK S : S = ThreadsFor(d)
  OBVIOUS
<1>3. PICK T : T = ThreadsFor(d)'
  OBVIOUS
<1>4. S \ {t} = T \ {t} /\ (t \in S <=> thread[t].device = d) /\ (t \in T <=> thread'[t].device = d)
  BY <1>2, <1>3 DEF ThreadsFor, Moves
<1>5. IsFiniteSet(S) /\ IsFiniteSet(T)
  BY <1>1, <1>2, <1>3, FS_Subset DEF ThreadsFor
<1>6. Cardinality(S) \in Nat /\ Cardinality(T) \in Nat
  BY <1>5, FS_CardinalityType
<1>7. /\ Cardinality(S \ {t}) = IF t \in S THEN Cardinality(S) - 1 ELSE Cardinality(S)
      /\ Cardinality(T \ {t}) = IF t \in T THEN Cardinality(T) - 1 ELSE Cardinality(T)
  BY <1>5, FS_RemoveElement
<1> QED BY <1>2, <1>3, <1>4, <1>5, <1>6, <1>7 DEF Held

\* RefsExact for one device, and the number of its holders.
Count(d) == Held(Listed(d)) + Held(pnp.device = d) + Cardinality(TasksFor(d)) + Cardinality(ThreadsFor(d))
Exact(d) ==
  /\ object[d].refs = Count(d)
  /\ object[d].refs = 0 <=> object[d].m_State \in {"Unused", "Deleted"}

LEMMA CountIs ==
  ASSUME ListTypes, NEW d
  PROVE  /\ Held(Listed(d)) \in Nat /\ Held(pnp.device = d) \in Nat
         /\ Cardinality(TasksFor(d)) \in Nat /\ Cardinality(ThreadsFor(d)) \in Nat
         /\ TasksFor(d) = For(m_WorkTasks, d) /\ Count(d) \in Nat
<1>1. Held(Listed(d)) \in Nat /\ Held(pnp.device = d) \in Nat
  BY DEF Held
<1>2. TasksFor(d) = For(m_WorkTasks, d)
  BY DEF TasksFor, For
<1>3. Cardinality(TasksFor(d)) \in Nat
  BY <1>2, ForFinite DEF ListTypes
<1>4. IsFiniteSet(Threads)
  BY SubdeviceAssumption, FS_AddElement DEF Threads
<1>5. IsFiniteSet(ThreadsFor(d))
  BY <1>4, FS_Subset DEF ThreadsFor
<1>6. Cardinality(ThreadsFor(d)) \in Nat
  BY <1>5, FS_CardinalityType
<1> QED BY <1>1, <1>2, <1>3, <1>6 DEF Count

LEMMA RefsAre == RefsExact <=> \A d \in Objects : Exact(d)
  BY DEF RefsExact, Exact, Count

LEMMA RefsAreNext == RefsExact' <=> \A d \in Objects : Exact(d)'
  BY DEF RefsExact, Exact, Count

\* Who holds a device: nobody else does when its count is 0, and what holds it
\* keeps the count above 0.
LEMMA Holders ==
  ASSUME ListTypes, NEW d \in Objects, Exact(d)
  PROVE  /\ Listed(d) \/ pnp.device = d \/ (\E i \in DOMAIN m_WorkTasks : m_WorkTasks[i].device = d)
             \/ (\E t \in Threads : thread[t].device = d) => object[d].refs # 0
         /\ ~Listed(d) /\ pnp.device # d /\ TasksFor(d) = {} /\ (\A t \in Threads : thread[t].device # d)
              => object[d].refs = 0
         /\ object[d].refs \in Nat
<1>1. PICK T : T = TasksFor(d)
  OBVIOUS
<1>2. PICK H : H = ThreadsFor(d)
  OBVIOUS
<1>3. IsFiniteSet(Threads)
  BY SubdeviceAssumption, FS_AddElement DEF Threads
<1>4. IsFiniteSet(T) /\ IsFiniteSet(H)
  <2>1. IsFiniteSet(T)
    BY <1>1, CountIs, ForFinite DEF ListTypes
  <2>2. IsFiniteSet(H)
    BY <1>2, <1>3, FS_Subset DEF ThreadsFor
  <2> QED BY <2>1, <2>2
<1>5. PICK a, b, x, y : a = Held(Listed(d)) /\ b = Held(pnp.device = d) /\ x = Cardinality(T) /\ y = Cardinality(H)
  OBVIOUS
<1>6. (x = 0 <=> T = {}) /\ (y = 0 <=> H = {})
  BY <1>4, <1>5, FS_EmptySet
<1>7. object[d].refs = a + b + x + y
  BY <1>1, <1>2, <1>5 DEF Exact, Count
<1>8. a \in Nat /\ b \in Nat /\ x \in Nat /\ y \in Nat
  BY <1>1, <1>2, <1>5, CountIs
<1>9. /\ (\E i \in DOMAIN m_WorkTasks : m_WorkTasks[i].device = d) => T # {}
      /\ (\E t \in Threads : thread[t].device = d) => H # {}
      /\ (\A t \in Threads : thread[t].device # d) => H = {}
      /\ TasksFor(d) = {} => T = {}
  BY <1>1, <1>2 DEF TasksFor, ThreadsFor
<1>10. (a = 0 <=> ~Listed(d)) /\ (b = 0 <=> pnp.device # d)
  BY <1>5 DEF Held
<1>11. object[d].refs \in Nat /\ (object[d].refs = 0 <=> a = 0 /\ b = 0 /\ x = 0 /\ y = 0)
  BY <1>7, <1>8
<1>12. Listed(d) \/ pnp.device = d \/ T # {} \/ H # {} <=> object[d].refs # 0
  BY <1>6, <1>10, <1>11
<1> QED BY <1>9, <1>11, <1>12

LEMMA NoTasks == ASSUME m_WorkTasks = <<>>, NEW d PROVE TasksFor(d) = {}
  BY DEF TasksFor

(***************************************************************************)
(* What steps do to the list                                               *)
(***************************************************************************)

Notice == [at : {"Idle", "Arrival", "Insert", "Removal", "Remove"}, link : Names, device : Owners]
Object == [link : Names, m_State : States, refs : Nat]

\* The devices, the tasks and their holders are left alone.
LEMMA ListFrame ==
  ASSUME ListInv, UNCHANGED <<object, m_Devices, m_WorkTasks, kind>>, pnp' \in Notice,
         \/ pnp' = pnp
         \/ pnp.at \notin {"Insert", "Remove"} /\ pnp'.at \notin {"Insert", "Remove"} /\ pnp'.device = Adapter,
         m_PowerRelations' = m_PowerRelations \/ m_PowerRelations' = {},
         \A t \in Threads : thread'[t].device = thread[t].device
  PROVE  ListInv'
<1>1. ListTypes'
  BY DEF ListInv, ListTypes, Notice
<1>2. pnp'.device = pnp.device
  BY DEF ListInv, ListSound
<1>3. \A d : Listed(d)' <=> Listed(d)
  BY DEF Listed
<1>4. \A l : DeviceFind(l)' = DeviceFind(l)
  BY DEF DeviceFind
<1>5. ListSound'
  BY <1>2, <1>3, <1>4 DEF ListInv, ListSound
<1>6. OnePerLink' /\ DependenciesHeld'
  BY DEF ListInv, OnePerLink, DependenciesHeld
<1>7. ASSUME NEW d \in Objects PROVE Exact(d)'
  <2>1. Exact(d)
    BY RefsAre DEF ListInv
  <2>2. TasksFor(d)' = TasksFor(d) /\ ThreadsFor(d)' = ThreadsFor(d)
    BY DEF TasksFor, ThreadsFor
  <2>3. Count(d)' = Count(d)
    BY <1>2, <1>3, <2>2 DEF Count
  <2> QED BY <2>1, <2>3 DEF Exact
<1>8. RefsExact'
  BY <1>7, RefsAreNext
<1> QED BY <1>1, <1>5, <1>6, <1>8 DEF ListInv

\* The object of a device loses a reference; others are left alone.
Dropped(d) ==
  /\ object' \in [Objects -> Object] /\ m_PowerRelations' \subseteq m_PowerRelations
  /\ object'[d].refs = object[d].refs - 1 /\ object'[d].link = object[d].link
  /\ object'[d].refs = 0 <=> object'[d].m_State \in {"Unused", "Deleted"}
  /\ \A e \in Objects \ {d} : object'[e] = object[e]

\* A reference is dropped, with the new state, if the object lives on.
LEMMA ReleaseDrops ==
  ASSUME ListInv, NEW d \in Objects, object[d].refs # 0, NEW state \in States \ {"Unused", "Deleted"},
         UNCHANGED kind,
         \/ Release(d)
         \/ /\ object[d].refs # 1 /\ object' = [object EXCEPT ![d].refs = @ - 1, ![d].m_State = state]
            /\ UNCHANGED m_PowerRelations
  PROVE  Dropped(d) /\ DependenciesHeld'
<1>1. /\ object \in [Objects -> Object] /\ object[d] \in Object
      /\ object[d].m_State \notin {"Unused", "Deleted"}
  BY RefsAre DEF ListInv, ListTypes, Object, Exact
<1>2. PICK p : p = IF object[d].refs = 1 THEN [object[d] EXCEPT !.refs = 0, !.m_State = "Deleted"]
                   ELSE IF Release(d) THEN [object[d] EXCEPT !.refs = @ - 1]
                   ELSE [object[d] EXCEPT !.refs = @ - 1, !.m_State = state]
  OBVIOUS
<1>3. object' = [object EXCEPT ![d] = p]
  BY <1>1, <1>2 DEF Release
<1>4. object[d].refs \in Nat \ {0} /\ object[d].refs - 1 \in Nat /\ (object[d].refs - 1 = 0 <=> object[d].refs = 1)
  BY <1>1 DEF Object
<1>5. /\ p \in Object /\ p.refs = object[d].refs - 1 /\ p.link = object[d].link
      /\ p.refs = 0 <=> p.m_State \in {"Unused", "Deleted"}
  <2>1. CASE object[d].refs = 1
    <3>1. p = [object[d] EXCEPT !.refs = 0, !.m_State = "Deleted"]
      BY <1>2, <2>1
    <3>2. p.refs = 0 /\ p.m_State = "Deleted" /\ p.link = object[d].link /\ "Deleted" \in States
      BY <1>1, <3>1 DEF Object, States
    <3>3. p \in Object
      BY <1>1, <3>1, <3>2 DEF Object
    <3> QED BY <2>1, <3>2, <3>3
  <2>2. CASE object[d].refs # 1 /\ Release(d)
    BY <1>1, <1>2, <1>4, <2>2 DEF Object
  <2>3. CASE object[d].refs # 1 /\ ~Release(d)
    BY <1>1, <1>2, <1>4, <2>3 DEF Object
  <2> QED BY <2>1, <2>2, <2>3
<1>6. object'[d] = p /\ \A e \in Objects \ {d} : object'[e] = object[e]
  BY <1>1, <1>3
<1>7. /\ m_PowerRelations' \subseteq m_PowerRelations
      /\ object[d].refs = 1 => \A e \in m_PowerRelations' : e.pdo # object[d].link
  BY DEF Release, RemoveDeviceAsPowerDependency, ListInv, DependenciesHeld
<1>8. Dropped(d)
  BY <1>1, <1>3, <1>5, <1>6, <1>7 DEF Dropped
<1>9. DependenciesHeld'
  <2>1. ASSUME NEW e \in m_PowerRelations' PROVE object'[e.of].refs # 0 /\ object'[e.of].link = e.pdo
    <3>1. e \in m_PowerRelations /\ e.of \in Objects /\ object[e.of].refs # 0 /\ object[e.of].link = e.pdo
      BY <1>7 DEF ListInv, DependenciesHeld, ListTypes
    <3>2. CASE e.of = d
      <4>1. object[d].refs # 1
        BY <1>7, <3>1, <3>2
      <4> QED BY <1>4, <1>5, <1>6, <3>1, <3>2, <4>1
    <3>3. CASE e.of # d
      BY <1>6, <3>1, <3>3
    <3> QED BY <3>2, <3>3
  <2> QED BY <2>1, <1>7 DEF DependenciesHeld, ListInv
<1> QED BY <1>8, <1>9

\* The notification callback has made an object.
LEMMA ObjectMade ==
  ASSUME ListInv, ArrivalCreate
  PROVE  ListInv'
<1>1. /\ pnp.at = "Arrival" /\ pnp.device = Adapter /\ pnp \in Notice /\ UNCHANGED <<m_Devices, m_WorkTasks, kind, thread>>
  BY DEF ArrivalCreate, ListInv, ListSound, ListTypes, Notice, subdeviceVars, list, external
<1>2. CASE pnp' = NoNotice /\ UNCHANGED <<object, m_PowerRelations>>
  <2>1. pnp' \in Notice /\ pnp'.at = "Idle" /\ pnp'.device = Adapter
    BY <1>2 DEF NoNotice, Notice, Names, Owners
  <2> QED BY <1>1, <1>2, <2>1, ListFrame
<1>3. ASSUME NEW new \in Objects, object[new] = Unused, DeviceFind(pnp.link) = {},
             pnp' = [pnp EXCEPT !.at = "Insert", !.device = new],
             object' = [object EXCEPT ![new] = [link |-> pnp.link, m_State |-> "Running", refs |-> 1]],
             NEW ok, IF kind = "Usb" THEN AddDeviceAsPowerDependency(new, pnp.link, ok) ELSE UNCHANGED m_PowerRelations
      PROVE  ListInv'
  <2>1. PICK o : o = [link |-> pnp.link, m_State |-> "Running", refs |-> 1]
    OBVIOUS
  <2>2. o \in Object /\ o.link = pnp.link /\ o.m_State = "Running" /\ o.refs = 1
    BY <1>1, <2>1 DEF Object, Notice, States
  <2>3. object' \in [Objects -> Object] /\ object'[new] = o /\ \A d \in Objects \ {new} : object'[d] = object[d]
    BY <1>3, <2>1, <2>2 DEF ListInv, ListTypes, Object
  <2>4. pnp' \in Notice /\ pnp'.at = "Insert" /\ pnp'.device = new /\ pnp'.link = pnp.link
    BY <1>1, <1>3 DEF Notice, Owners
  <2>5. Exact(new) /\ object[new].refs = 0
    BY <1>3, RefsAre DEF ListInv, Unused
  <2>6. /\ ~Listed(new) /\ \A i \in DOMAIN m_Devices : m_Devices[i] # new
    BY <2>5, Holders DEF ListInv, Listed
  <2>7. /\ m_PowerRelations' \subseteq m_PowerRelations \cup {[pdo |-> pnp.link, of |-> new]}
        /\ kind # "Usb" => m_PowerRelations' = {}
    BY <1>3 DEF AddDeviceAsPowerDependency, ListInv, DependenciesHeld
  <2>8. ListTypes'
    <3>1. [pdo |-> pnp.link, of |-> new] \in [pdo : Names, of : Objects]
      BY <1>1 DEF Notice
    <3> QED BY <1>1, <2>3, <2>4, <2>7, <3>1 DEF ListInv, ListTypes, Notice, Object
  <2>9. \A d : Listed(d)' <=> Listed(d)
    BY <1>1 DEF Listed
  <2>10. \A i \in DOMAIN m_Devices : m_Devices[i] \in Objects /\ object'[m_Devices[i]] = object[m_Devices[i]]
    BY <2>3, <2>6 DEF ListInv, ListTypes
  <2>11. DeviceFind(pnp.link)' = {}
    BY <1>1, <1>3, <2>4, <2>10 DEF DeviceFind
  <2>12. ListSound'
    BY <1>1, <2>2, <2>3, <2>4, <2>6, <2>9, <2>11, Numbers DEF ListInv, ListSound
  <2>13. OnePerLink'
    BY <1>1, <2>10 DEF ListInv, OnePerLink
  <2>14. DependenciesHeld'
    <3>1. ASSUME NEW e \in m_PowerRelations' PROVE object'[e.of].refs # 0 /\ object'[e.of].link = e.pdo
      <4>1. CASE e \in m_PowerRelations
        <5>1. e.of \in Objects /\ object[e.of].refs # 0 /\ object[e.of].link = e.pdo
          BY <4>1 DEF ListInv, ListTypes, DependenciesHeld
        <5> QED BY <2>3, <2>5, <5>1
      <4>2. CASE e = [pdo |-> pnp.link, of |-> new]
        <5>1. e.of = new /\ e.pdo = pnp.link
          BY <4>2
        <5> QED BY <2>2, <2>3, <5>1
      <4> QED BY <2>7, <4>1, <4>2
    <3> QED BY <1>1, <2>7, <3>1 DEF DependenciesHeld
  <2>15. ASSUME NEW d \in Objects PROVE Exact(d)'
    <3>1. Exact(d)
      BY RefsAre DEF ListInv
    <3>2. TasksFor(d)' = TasksFor(d) /\ ThreadsFor(d)' = ThreadsFor(d)
      BY <1>1 DEF TasksFor, ThreadsFor
    <3>3. Held(pnp.device = d) = 0 /\ Held(pnp'.device = d) = IF d = new THEN 1 ELSE 0
      BY <1>1, <2>4, Numbers DEF Held
    <3>4. Held(Listed(d))' = Held(Listed(d))
      BY <2>9 DEF Held
    <3>5. Count(d)' = Count(d) + (IF d = new THEN 1 ELSE 0)
      BY <3>2, <3>3, <3>4, CountIs DEF ListInv, Count
    <3> QED BY <2>2, <2>3, <2>5, <3>1, <3>5, CountIs DEF Exact, ListInv
  <2>16. RefsExact'
    BY <2>15, RefsAreNext
  <2> QED BY <2>8, <2>12, <2>13, <2>14, <2>16 DEF ListInv
<1> QED BY <1>1, <1>2, <1>3 DEF ArrivalCreate

\* What RefsExact says of a device, without the state of its object.
LEMMA Recount ==
  ASSUME ListInv, NEW d \in Objects, NEW k \in Int, Count(d)' = Count(d) + k,
         object'[d].refs = object[d].refs + k,
         object'[d].refs = 0 <=> object'[d].m_State \in {"Unused", "Deleted"}
  PROVE  Exact(d)'
  BY RefsAre DEF ListInv, Exact

LEMMA NoNoticeIs == NoNotice \in Notice /\ NoNotice.at = "Idle" /\ NoNotice.device = Adapter /\ NoNotice.link = "None"
  BY DEF NoNotice, Notice, Names, Owners

\* The notification callback gives up the reference it has; the list stays.
LEMMA NoticeDropped ==
  ASSUME ListInv, NEW d \in Objects, pnp.device = d, pnp' = NoNotice, Release(d),
         UNCHANGED <<m_Devices, m_WorkTasks, kind, thread>>
  PROVE  ListInv'
<1>1. Exact(d) /\ object[d].refs # 0
  BY RefsAre, Holders DEF ListInv
<1>2. "Failed" \in States \ {"Unused", "Deleted"}
  BY DEF States
<1>3. Dropped(d) /\ DependenciesHeld'
  BY <1>1, <1>2, ReleaseDrops
<1>4. \A e \in Objects : object'[e].link = object[e].link
  BY <1>3 DEF Dropped
<1>5. ListTypes'
  BY <1>3, NoNoticeIs DEF Dropped, Object, Notice, ListInv, ListTypes
<1>6. \A e : Listed(e)' <=> Listed(e)
  BY DEF Listed
<1>7. ListSound'
  BY NoNoticeIs DEF ListInv, ListSound
<1>8. OnePerLink'
  <2>1. \A i \in DOMAIN m_Devices : m_Devices[i] \in Objects
    BY DEF ListInv, ListTypes
  <2> QED BY <1>4, <2>1 DEF ListInv, OnePerLink
<1>9. ASSUME NEW e \in Objects PROVE Exact(e)'
  <2>1. TasksFor(e)' = TasksFor(e) /\ ThreadsFor(e)' = ThreadsFor(e)
    BY DEF TasksFor, ThreadsFor
  <2>2. Held(pnp'.device = e) = 0 /\ Held(pnp.device = e) = (IF e = d THEN 1 ELSE 0) /\ Held(Listed(e))' = Held(Listed(e))
    BY <1>6, NoNoticeIs, Numbers DEF Held
  <2>3. Count(e)' = Count(e) + (IF e = d THEN -1 ELSE 0)
    BY <2>1, <2>2, CountIs DEF ListInv, Count
  <2>4. object[e].refs \in Nat
    BY DEF ListInv, ListTypes
  <2>5. CASE e = d
    BY <1>3, <2>3, <2>4, <2>5, Recount DEF Dropped
  <2>6. CASE e # d
    <3>1. object'[e] = object[e] /\ Exact(e)
      BY <1>3, <2>6, RefsAre DEF Dropped, ListInv
    <3> QED BY <2>3, <2>6, <3>1, CountIs DEF Exact, ListInv
  <2> QED BY <2>5, <2>6
<1> QED BY <1>3, <1>5, <1>7, <1>8, <1>9, RefsAreNext DEF ListInv

\* A new device enters the list, with its first task.
LEMMA Inserted ==
  ASSUME ListInv, NEW d \in Objects, pnp.at = "Insert", pnp.device = d, pnp' = NoNotice,
         m_Devices' = Append(m_Devices, d),
         m_WorkTasks' = Append(m_WorkTasks, [device |-> d, action |-> "Start"]),
         object' = [object EXCEPT ![d].refs = @ + 1],
         UNCHANGED <<m_PowerRelations, kind, thread>>
  PROVE  ListInv'
<1>1. /\ ~Listed(d) /\ object[d].link = pnp.link /\ DeviceFind(pnp.link) = {}
      /\ m_Devices \in Seq(Objects) /\ m_WorkTasks \in Seq(Tasks) /\ object \in [Objects -> Object]
  BY DEF ListInv, ListSound, ListTypes, Object
<1>2. PICK c : c = [device |-> d, action |-> "Start"]
  OBVIOUS
<1>3. c \in Tasks /\ c.device = d /\ m_WorkTasks' = Append(m_WorkTasks, c)
  BY <1>2 DEF Tasks
<1>4. PICK p : p = [object[d] EXCEPT !.refs = @ + 1]
  OBVIOUS
<1>5. p \in Object /\ p.refs = object[d].refs + 1 /\ p.link = object[d].link /\ p.m_State = object[d].m_State
  BY <1>1, <1>4 DEF Object
<1>6. object' \in [Objects -> Object] /\ object'[d] = p /\ \A e \in Objects \ {d} : object'[e] = object[e]
  BY <1>1, <1>4, <1>5
<1>7. PICK n : n = Len(m_Devices)
  OBVIOUS
<1>8. /\ n \in Nat /\ DOMAIN m_Devices = 1 .. n /\ DOMAIN m_Devices' = 1 .. n + 1 /\ m_Devices'[n + 1] = d
      /\ \A i \in 1 .. n : m_Devices'[i] = m_Devices[i]
  BY <1>1, <1>7
<1>9. ListTypes'
  <2>1. m_Devices' \in Seq(Objects) /\ m_WorkTasks' \in Seq(Tasks)
    BY <1>1, <1>3
  <2> QED BY <1>6, <2>1, NoNoticeIs DEF ListInv, ListTypes, Object, Notice
<1>10. \A i \in 1 .. n : m_Devices[i] \in Objects /\ m_Devices[i] # d /\ object[m_Devices[i]].link # pnp.link
  BY <1>1, <1>8 DEF Listed, DeviceFind
<1>11. \A e : Listed(e)' <=> Listed(e) \/ e = d
  BY <1>8 DEF Listed
<1>12. ListSound'
  <2>1. \A i, j \in 1 .. n + 1 : m_Devices'[i] = m_Devices'[j] => i = j
    BY <1>8, <1>10 DEF ListInv, ListSound
  <2> QED BY <1>8, <2>1, NoNoticeIs DEF ListSound
<1>13. OnePerLink'
  <2>1. \A i \in 1 .. n : object'[m_Devices'[i]].link = object[m_Devices[i]].link
    BY <1>6, <1>8, <1>10
  <2>2. object'[m_Devices'[n + 1]].link = pnp.link
    BY <1>1, <1>5, <1>6, <1>8
  <2>3. \A i, j \in 1 .. n : object[m_Devices[i]].link = object[m_Devices[j]].link => i = j
    BY <1>8 DEF ListInv, OnePerLink
  <2> QED BY <1>8, <1>10, <2>1, <2>2, <2>3 DEF OnePerLink
<1>14. DependenciesHeld'
  <2>1. ASSUME NEW e \in m_PowerRelations PROVE object'[e.of].refs # 0 /\ object'[e.of].link = e.pdo
    <3>1. e.of \in Objects /\ object[e.of].refs # 0 /\ object[e.of].link = e.pdo /\ object[d].refs \in Nat
      BY <1>1 DEF ListInv, ListTypes, DependenciesHeld, Object
    <3>2. object[d].refs + 1 # 0
      BY <3>1
    <3> QED BY <1>5, <1>6, <3>1, <3>2
  <2> QED BY <2>1 DEF DependenciesHeld, ListInv
<1>15. ASSUME NEW e \in Objects PROVE Exact(e)'
  <2>1. TasksFor(e)' = For(m_WorkTasks', e) /\ TasksFor(e) = For(m_WorkTasks, e) /\ ThreadsFor(e)' = ThreadsFor(e)
    BY DEF TasksFor, ThreadsFor, For
  <2>2. Cardinality(TasksFor(e)') = Cardinality(TasksFor(e)) + (IF e = d THEN 1 ELSE 0)
    BY <1>1, <1>3, <2>1, ForAppend DEF Held
  <2>3. /\ Held(pnp'.device = e) = 0 /\ Held(pnp.device = e) = (IF e = d THEN 1 ELSE 0)
        /\ Held(Listed(e))' = Held(Listed(e)) + (IF e = d THEN 1 ELSE 0)
    BY <1>1, <1>11, NoNoticeIs, Numbers DEF Held
  <2>4. Count(e)' = Count(e) + (IF e = d THEN 1 ELSE 0)
    BY <2>1, <2>2, <2>3, CountIs DEF ListInv, Count
  <2>5. Exact(e) /\ object[e].refs \in Nat
    BY RefsAre DEF ListInv, ListTypes
  <2>6. CASE e = d
    <3>1. object[d].refs # 0
      BY <2>5, <2>6, Holders DEF ListInv
    <3>2. object'[e].refs = object[e].refs + 1 /\ object'[e].refs # 0 /\ object'[e].m_State = object[e].m_State
      BY <1>5, <1>6, <2>5, <2>6
    <3>3. object[e].m_State \notin {"Unused", "Deleted"}
      BY <2>5, <2>6, <3>1 DEF Exact
    <3> QED BY <2>4, <2>6, <3>2, <3>3, Recount
  <2>7. CASE e # d
    BY <1>6, <2>4, <2>5, <2>7, CountIs DEF Exact, ListInv
  <2> QED BY <2>6, <2>7
<1> QED BY <1>9, <1>12, <1>13, <1>14, <1>15, RefsAreNext DEF ListInv

\* The notification callback takes a reference to the device it has found.
LEMMA Found ==
  ASSUME ListInv, NEW d \in DeviceFind(pnp.link), pnp.at = "Removal",
         pnp' = [pnp EXCEPT !.at = "Remove", !.device = d],
         object' = [object EXCEPT ![d].refs = @ + 1],
         UNCHANGED <<m_Devices, m_WorkTasks, m_PowerRelations, kind, thread>>
  PROVE  ListInv'
<1>1. d \in Objects /\ Listed(d) /\ object \in [Objects -> Object] /\ pnp \in Notice /\ pnp.device = Adapter
  BY DEF DeviceFind, Listed, ListInv, ListTypes, ListSound, Object, Notice
<1>2. pnp' \in Notice /\ pnp'.at = "Remove" /\ pnp'.device = d /\ pnp'.link = pnp.link
  BY <1>1 DEF Notice, Owners
<1>3. PICK p : p = [object[d] EXCEPT !.refs = @ + 1]
  OBVIOUS
<1>4. p \in Object /\ p.refs = object[d].refs + 1 /\ p.link = object[d].link /\ p.m_State = object[d].m_State
  BY <1>1, <1>3 DEF Object
<1>5. object' \in [Objects -> Object] /\ object'[d] = p /\ \A e \in Objects \ {d} : object'[e] = object[e]
  BY <1>1, <1>3, <1>4
<1>6. ListTypes'
  BY <1>2, <1>5 DEF ListInv, ListTypes, Object, Notice
<1>7. \A e : Listed(e)' <=> Listed(e)
  BY DEF Listed
<1>8. ListSound'
  BY <1>1, <1>2, <1>7, Numbers DEF ListInv, ListSound
<1>9. OnePerLink'
  <2>1. \A i \in DOMAIN m_Devices : m_Devices[i] \in Objects
    BY DEF ListInv, ListTypes
  <2> QED BY <1>4, <1>5, <2>1 DEF ListInv, OnePerLink
<1>10. DependenciesHeld'
  <2>1. ASSUME NEW e \in m_PowerRelations PROVE object'[e.of].refs # 0 /\ object'[e.of].link = e.pdo
    <3>1. e.of \in Objects /\ object[e.of].refs # 0 /\ object[e.of].link = e.pdo /\ object[d].refs \in Nat
      BY <1>1 DEF ListInv, ListTypes, DependenciesHeld, Object
    <3>2. object[d].refs + 1 # 0
      BY <3>1
    <3> QED BY <1>4, <1>5, <3>1, <3>2
  <2> QED BY <2>1 DEF DependenciesHeld, ListInv
<1>11. ASSUME NEW e \in Objects PROVE Exact(e)'
  <2>1. TasksFor(e)' = TasksFor(e) /\ ThreadsFor(e)' = ThreadsFor(e)
    BY DEF TasksFor, ThreadsFor
  <2>2. Held(pnp.device = e) = 0 /\ Held(pnp'.device = e) = (IF e = d THEN 1 ELSE 0) /\ Held(Listed(e))' = Held(Listed(e))
    BY <1>1, <1>2, <1>7, Numbers DEF Held
  <2>3. Count(e)' = Count(e) + (IF e = d THEN 1 ELSE 0)
    BY <2>1, <2>2, CountIs DEF ListInv, Count
  <2>4. Exact(e) /\ object[e].refs \in Nat
    BY RefsAre DEF ListInv, ListTypes
  <2>5. CASE e = d
    <3>1. object[d].refs # 0
      BY <1>1, <2>4, <2>5, Holders DEF ListInv
    <3>2. object'[e].refs = object[e].refs + 1 /\ object'[e].refs # 0 /\ object'[e].m_State = object[e].m_State
      BY <1>4, <1>5, <2>4, <2>5
    <3>3. object[e].m_State \notin {"Unused", "Deleted"}
      BY <2>4, <2>5, <3>1 DEF Exact
    <3> QED BY <2>3, <2>5, <3>2, <3>3, Recount
  <2>6. CASE e # d
    BY <1>5, <2>3, <2>4, <2>6, CountIs DEF Exact, ListInv
  <2> QED BY <2>5, <2>6
<1> QED BY <1>6, <1>8, <1>9, <1>10, <1>11, RefsAreNext DEF ListInv

\* The entries of the list that are left keep their order.
LEMMA EntryRemoved ==
  ASSUME NEW d, m_Devices \in Seq(Objects), RemoveEntryList(d),
         \A i, j \in DOMAIN m_Devices : m_Devices[i] = m_Devices[j] => i = j
  PROVE  /\ m_Devices' \in Seq(Objects)
         /\ \A e : Listed(e)' <=> Listed(e) /\ e # d
         /\ \E k \in Nat : \A i \in DOMAIN m_Devices' :
              /\ (IF i < k THEN i ELSE i + 1) \in DOMAIN m_Devices /\ i \in Nat
              /\ m_Devices'[i] = m_Devices[IF i < k THEN i ELSE i + 1]
<1>1. PICK k \in DOMAIN m_Devices :
        m_Devices[k] = d /\ m_Devices' = SubSeq(m_Devices, 1, k - 1) \o SubSeq(m_Devices, k + 1, Len(m_Devices))
  BY DEF RemoveEntryList
<1>2. PICK n : n = Len(m_Devices)
  OBVIOUS
<1>3. n \in Nat /\ k \in 1 .. n /\ DOMAIN m_Devices = 1 .. n
  BY <1>2
<1>4. PICK a, b : a = SubSeq(m_Devices, 1, k - 1) /\ b = SubSeq(m_Devices, k + 1, n)
  OBVIOUS
<1>5. /\ a \in Seq(Objects) /\ Len(a) = k - 1 /\ b \in Seq(Objects) /\ Len(b) = n - k
      /\ \A i \in 1 .. k - 1 : a[i] = m_Devices[i]
      /\ \A i \in 1 .. n - k : b[i] = m_Devices[k + i]
  <2>1. /\ 1 \in 1 .. Len(m_Devices) + 1 /\ k - 1 \in 1 - 1 .. Len(m_Devices)
        /\ k + 1 \in 1 .. Len(m_Devices) + 1 /\ n \in k + 1 - 1 .. Len(m_Devices)
    BY <1>2, <1>3
  <2>2. /\ a \in Seq(Objects) /\ Len(a) = (IF 1 <= k - 1 THEN k - 1 - 1 + 1 ELSE 0)
        /\ \A i \in 1 .. k - 1 - 1 + 1 : a[i] = m_Devices[1 + i - 1]
    BY <1>4, <2>1, SubSeqProperties
  <2>3. /\ b \in Seq(Objects) /\ Len(b) = (IF k + 1 <= n THEN n - (k + 1) + 1 ELSE 0)
        /\ \A i \in 1 .. n - (k + 1) + 1 : b[i] = m_Devices[(k + 1) + i - 1]
    BY <1>4, <2>1, SubSeqProperties
  <2>4. /\ k - 1 - 1 + 1 = k - 1 /\ n - (k + 1) + 1 = n - k
        /\ \A i \in 1 .. k - 1 : 1 + i - 1 = i
        /\ \A i \in 1 .. n - k : (k + 1) + i - 1 = k + i
    BY <1>3
  <2>5. Len(a) = k - 1 /\ Len(b) = n - k
    BY <1>3, <2>2, <2>3
  <2> QED BY <2>2, <2>3, <2>4, <2>5
<1>6. m_Devices' = a \o b
  BY <1>1, <1>2, <1>4
<1>7. /\ m_Devices' \in Seq(Objects) /\ DOMAIN m_Devices' = 1 .. n - 1
      /\ \A i \in 1 .. n - 1 : m_Devices'[i] = IF i < k THEN m_Devices[i] ELSE m_Devices[i + 1]
  <2>1. /\ m_Devices' \in Seq(Objects) /\ Len(m_Devices') = Len(a) + Len(b)
        /\ \A i \in 1 .. Len(a) + Len(b) : m_Devices'[i] = IF i <= Len(a) THEN a[i] ELSE b[i - Len(a)]
    BY <1>5, <1>6, ConcatProperties
  <2>2. (k - 1) + (n - k) = n - 1
    BY <1>3
  <2>3. DOMAIN m_Devices' = 1 .. n - 1
    BY <1>5, <2>1, <2>2
  <2>4. ASSUME NEW i \in 1 .. n - 1 PROVE m_Devices'[i] = IF i < k THEN m_Devices[i] ELSE m_Devices[i + 1]
    <3>1. m_Devices'[i] = IF i <= k - 1 THEN a[i] ELSE b[i - (k - 1)]
      BY <1>5, <2>1, <2>2
    <3>2. CASE i < k
      BY <1>3, <1>5, <3>1, <3>2
    <3>3. CASE ~(i < k)
      <4>1. i - (k - 1) \in 1 .. n - k /\ k + (i - (k - 1)) = i + 1 /\ ~(i <= k - 1)
        BY <1>3, <3>3
      <4> QED BY <1>5, <3>1, <3>3, <4>1
    <3> QED BY <3>2, <3>3
  <2> QED BY <2>1, <2>3, <2>4
<1>8. ASSUME NEW e PROVE Listed(e)' <=> Listed(e) /\ e # d
  <2>1. ASSUME Listed(e)' PROVE Listed(e) /\ e # d
    <3>1. PICK i \in 1 .. n - 1 : m_Devices'[i] = e
      BY <1>7, <2>1 DEF Listed
    <3>2. PICK j \in 1 .. n : m_Devices[j] = e /\ j # k
      BY <1>3, <1>7, <3>1
    <3> QED BY <1>1, <1>3, <3>2 DEF Listed
  <2>2. ASSUME Listed(e), e # d PROVE Listed(e)'
    <3>1. PICK j \in 1 .. n : m_Devices[j] = e /\ j # k
      BY <1>1, <1>3, <2>2 DEF Listed
    <3>2. CASE j < k
      BY <1>3, <1>7, <3>1, <3>2 DEF Listed
    <3>3. CASE j > k
      <4>1. j - 1 \in 1 .. n - 1 /\ ~(j - 1 < k) /\ (j - 1) + 1 = j
        BY <1>3, <3>3
      <4> QED BY <1>7, <3>1, <4>1 DEF Listed
    <3> QED BY <1>3, <3>1, <3>2, <3>3
  <2> QED BY <2>1, <2>2
<1>9. \A i \in DOMAIN m_Devices' :
        /\ (IF i < k THEN i ELSE i + 1) \in DOMAIN m_Devices /\ i \in Nat
        /\ m_Devices'[i] = m_Devices[IF i < k THEN i ELSE i + 1]
  BY <1>3, <1>7
<1>10. k \in Nat
  BY <1>3
<1> QED BY <1>7, <1>8, <1>9, <1>10

\* OnePerLink and the rest of ListSound, when entries leave the list.
LEMMA ListShrinks ==
  ASSUME ListInv, pnp'.at = "Idle", pnp'.device = Adapter, NEW k \in Nat,
         \A e \in Objects : object'[e].link = object[e].link,
         \A i \in DOMAIN m_Devices' :
              /\ (IF i < k THEN i ELSE i + 1) \in DOMAIN m_Devices /\ i \in Nat
              /\ m_Devices'[i] = m_Devices[IF i < k THEN i ELSE i + 1]
  PROVE  ListSound' /\ OnePerLink'
<1>1. ASSUME NEW i \in DOMAIN m_Devices', NEW j \in DOMAIN m_Devices',
             (IF i < k THEN i ELSE i + 1) = (IF j < k THEN j ELSE j + 1)
      PROVE  i = j
  <2>1. i \in Nat /\ j \in Nat
    OBVIOUS
  <2> QED BY <1>1, <2>1
<1>2. \A i \in DOMAIN m_Devices : m_Devices[i] \in Objects
  BY DEF ListInv, ListTypes
<1>3. \A i, j \in DOMAIN m_Devices' : m_Devices'[i] = m_Devices'[j] => i = j
  BY <1>1 DEF ListInv, ListSound
<1>4. OnePerLink'
  BY <1>1, <1>2 DEF ListInv, OnePerLink
<1> QED BY <1>3, <1>4, Numbers DEF ListSound

\* A device leaves the list, and its last task is queued.
LEMMA Removed ==
  ASSUME ListInv, NEW d \in Objects, pnp.at = "Remove", pnp.device = d, pnp' = NoNotice,
         Release(d), RemoveEntryList(d),
         m_WorkTasks' = Append(m_WorkTasks, [device |-> d, action |-> "Stop"]),
         UNCHANGED <<kind, thread>>
  PROVE  ListInv'
<1>1. /\ m_Devices \in Seq(Objects) /\ m_WorkTasks \in Seq(Tasks) /\ object \in [Objects -> Object] /\ Listed(d)
      /\ \A i, j \in DOMAIN m_Devices : m_Devices[i] = m_Devices[j] => i = j
  BY DEF ListInv, ListSound, ListTypes, Object
<1>2. PICK c : c = [device |-> d, action |-> "Stop"]
  OBVIOUS
<1>3. c \in Tasks /\ c.device = d /\ m_WorkTasks' = Append(m_WorkTasks, c)
  BY <1>2 DEF Tasks
<1>4. "Failed" \in States \ {"Unused", "Deleted"} /\ object[d].refs # 0
  BY RefsAre, Holders DEF States, ListInv
<1>5. Dropped(d) /\ DependenciesHeld'
  BY <1>4, ReleaseDrops
<1>6. \A e \in Objects : object'[e].link = object[e].link
  BY <1>5 DEF Dropped
<1>7. m_Devices' \in Seq(Objects) /\ \A e : Listed(e)' <=> Listed(e) /\ e # d
  BY <1>1, EntryRemoved
<1>8. ListSound' /\ OnePerLink'
  BY <1>1, <1>6, EntryRemoved, ListShrinks, NoNoticeIs
<1>9. ListTypes'
  <2>1. m_WorkTasks' \in Seq(Tasks)
    BY <1>1, <1>3
  <2> QED BY <1>5, <1>7, <2>1, NoNoticeIs DEF Dropped, Object, Notice, ListInv, ListTypes
<1>10. ASSUME NEW e \in Objects PROVE Exact(e)'
  <2>1. TasksFor(e)' = For(m_WorkTasks', e) /\ TasksFor(e) = For(m_WorkTasks, e) /\ ThreadsFor(e)' = ThreadsFor(e)
    BY DEF TasksFor, ThreadsFor, For
  <2>2. Cardinality(TasksFor(e)') = Cardinality(TasksFor(e)) + (IF e = d THEN 1 ELSE 0)
    BY <1>1, <1>3, <2>1, ForAppend DEF Held
  <2>3. /\ Held(pnp'.device = e) = 0 /\ Held(pnp.device = e) = (IF e = d THEN 1 ELSE 0)
        /\ Held(Listed(e))' = Held(Listed(e)) - (IF e = d THEN 1 ELSE 0)
    BY <1>1, <1>7, NoNoticeIs, Numbers DEF Held
  <2>4. Count(e)' = Count(e) + (IF e = d THEN -1 ELSE 0)
    BY <2>1, <2>2, <2>3, CountIs DEF ListInv, Count
  <2>5. Exact(e) /\ object[e].refs \in Nat
    BY RefsAre DEF ListInv, ListTypes
  <2>6. CASE e = d
    BY <1>5, <2>4, <2>5, <2>6, Recount DEF Dropped
  <2>7. CASE e # d
    BY <1>5, <2>4, <2>5, <2>7, CountIs DEF Dropped, Exact, ListInv
  <2> QED BY <2>6, <2>7
<1> QED BY <1>5, <1>8, <1>9, <1>10, RefsAreNext DEF ListInv

\* The object of a device changes its state only.
Restated(d) ==
  /\ object' \in [Objects -> Object]
  /\ object'[d].refs = object[d].refs /\ object'[d].link = object[d].link
  /\ object'[d].refs = 0 <=> object'[d].m_State \in {"Unused", "Deleted"}
  /\ \A e \in Objects \ {d} : object'[e] = object[e]

LEMMA StoppingSet ==
  ASSUME ListInv, NEW d \in Objects, object[d].refs # 0,
         object' = object \/ object' = [object EXCEPT ![d].m_State = "Stopping"]
  PROVE  Restated(d)
<1>1. object \in [Objects -> Object] /\ object[d] \in Object /\ Exact(d)
  BY RefsAre DEF ListInv, ListTypes, Object
<1>2. CASE object' = object
  BY <1>1, <1>2 DEF Restated, Exact
<1>3. CASE object' = [object EXCEPT ![d].m_State = "Stopping"]
  <2>1. PICK p : p = [object[d] EXCEPT !.m_State = "Stopping"]
    OBVIOUS
  <2>2. p \in Object /\ p.refs = object[d].refs /\ p.link = object[d].link /\ p.m_State = "Stopping"
    BY <1>1, <2>1 DEF Object, States
  <2>3. object' = [object EXCEPT ![d] = p]
    BY <1>3, <2>1
  <2> QED BY <1>1, <2>2, <2>3 DEF Restated
<1> QED BY <1>2, <1>3

\* What does not depend on the states of the objects.
LEMMA RestatedKeeps ==
  ASSUME ListInv, NEW d \in Objects, Restated(d), UNCHANGED <<m_PowerRelations, kind>>
  PROVE  DependenciesHeld' /\ \A e \in Objects : object'[e].link = object[e].link
<1>1. \A e \in Objects : object'[e].link = object[e].link /\ object'[e].refs = object[e].refs
  BY DEF Restated
<1>2. \A e \in m_PowerRelations : e.of \in Objects
  BY DEF ListInv, ListTypes
<1> QED BY <1>1, <1>2 DEF ListInv, DependenciesHeld

\* A task passes its reference to the thread that runs it.
LEMMA Taken ==
  ASSUME ListInv, NEW t \in Threads, Moves(t), m_WorkTasks # <<>>, m_WorkTasks' = Tail(m_WorkTasks),
         thread[t].device = Adapter, thread'[t].device = Head(m_WorkTasks).device,
         \/ object' = object
         \/ object' = [object EXCEPT ![Head(m_WorkTasks).device].m_State = "Stopping"],
         UNCHANGED <<m_Devices, pnp, m_PowerRelations, kind>>
  PROVE  ListInv'
<1>1. m_WorkTasks \in Seq(Tasks) /\ m_WorkTasks' \in Seq(Tasks)
  BY DEF ListInv, ListTypes
<1>2. PICK d : d = Head(m_WorkTasks).device
  OBVIOUS
<1>3. d \in Objects /\ \E i \in DOMAIN m_WorkTasks : m_WorkTasks[i].device = d
  <2>1. Head(m_WorkTasks) = m_WorkTasks[1] /\ 1 \in DOMAIN m_WorkTasks /\ Head(m_WorkTasks) \in Tasks
    BY <1>1
  <2> QED BY <1>2, <2>1 DEF Tasks
<1>4. object[d].refs # 0
  BY <1>3, RefsAre, Holders DEF ListInv
<1>5. Restated(d)
  BY <1>2, <1>3, <1>4, StoppingSet
<1>6. DependenciesHeld' /\ \A e \in Objects : object'[e].link = object[e].link
  BY <1>3, <1>5, RestatedKeeps
<1>7. ListTypes'
  BY <1>1, <1>5 DEF ListInv, ListTypes, Restated, Object
<1>8. \A e : Listed(e)' <=> Listed(e)
  BY DEF Listed
<1>9. DeviceFind(pnp.link)' = DeviceFind(pnp.link)
  BY <1>6 DEF DeviceFind
<1>10. ListSound'
  <2>1. pnp.at = "Insert" => pnp.device \in Objects
    BY DEF ListInv, ListSound, ListTypes, Owners
  <2> QED BY <1>6, <1>8, <1>9, <2>1 DEF ListInv, ListSound
<1>11. OnePerLink'
  <2>1. \A i \in DOMAIN m_Devices : m_Devices[i] \in Objects
    BY DEF ListInv, ListTypes
  <2> QED BY <1>6, <2>1 DEF ListInv, OnePerLink
<1>12. ASSUME NEW e \in Objects PROVE Exact(e)'
  <2>1. TasksFor(e)' = For(m_WorkTasks', e) /\ TasksFor(e) = For(m_WorkTasks, e)
    BY DEF TasksFor, For
  <2>2. Cardinality(TasksFor(e)) = Cardinality(TasksFor(e)') + (IF e = d THEN 1 ELSE 0)
    BY <1>1, <1>2, <2>1, ForTail DEF Held
  <2>3. Cardinality(ThreadsFor(e)') = Cardinality(ThreadsFor(e)) + (IF e = d THEN 1 ELSE 0)
    <3>1. Held(thread[t].device = e) = 0 /\ Held(thread'[t].device = e) = IF e = d THEN 1 ELSE 0
      BY <1>2, Numbers DEF Held
    <3> QED BY <3>1, ThreadsChange
  <2>4. Held(pnp'.device = e) = Held(pnp.device = e) /\ Held(Listed(e))' = Held(Listed(e))
    BY <1>8 DEF Held
  <2>5. Cardinality(TasksFor(e)') \in Nat
    BY <1>1, <2>1, ForFinite
  <2>6. Count(e)' = Count(e)
    BY <2>2, <2>3, <2>4, <2>5, CountIs DEF ListInv, Count
  <2>7. Exact(e)
    BY RefsAre DEF ListInv
  <2> QED BY <1>5, <2>6, <2>7 DEF Exact, Restated
<1> QED BY <1>6, <1>7, <1>10, <1>11, <1>12, RefsAreNext DEF ListInv

\* Cleanup takes over the reference of the list.
LEMMA StopBegins ==
  ASSUME ListInv, NEW t \in Threads, Moves(t), m_Devices # <<>>, m_Devices' = Tail(m_Devices),
         thread[t].device = Adapter, thread'[t].device = Head(m_Devices), pnp.at = "Idle",
         object' = [object EXCEPT ![Head(m_Devices)].m_State = "Stopping"],
         UNCHANGED <<m_WorkTasks, pnp, m_PowerRelations, kind>>
  PROVE  ListInv'
<1>1. PICK n : n = Len(m_Devices)
  OBVIOUS
<1>2. PICK d : d = Head(m_Devices)
  OBVIOUS
<1>3. /\ n \in Nat \ {0} /\ DOMAIN m_Devices = 1 .. n /\ d = m_Devices[1] /\ d \in Objects
      /\ m_Devices' \in Seq(Objects) /\ DOMAIN m_Devices' = 1 .. n - 1
      /\ \A i \in 1 .. n - 1 : m_Devices'[i] = m_Devices[i + 1]
  BY <1>1, <1>2, HeadTailProperties DEF ListInv, ListTypes
<1>4. pnp'.at = "Idle" /\ pnp'.device = Adapter /\ pnp.device = Adapter
  BY DEF ListInv, ListSound
<1>5. Listed(d) /\ object[d].refs # 0
  <2>1. Listed(d)
    BY <1>3 DEF Listed
  <2> QED BY <1>3, <2>1, RefsAre, Holders DEF ListInv
<1>6. Restated(d)
  BY <1>2, <1>3, <1>5, StoppingSet
<1>7. DependenciesHeld' /\ \A e \in Objects : object'[e].link = object[e].link
  BY <1>3, <1>6, RestatedKeeps
<1>8. ListTypes'
  BY <1>3, <1>6 DEF ListInv, ListTypes, Restated, Object
<1>9. ListSound' /\ OnePerLink'
  <2>1. \A i \in DOMAIN m_Devices' : /\ (IF i < 1 THEN i ELSE i + 1) \in DOMAIN m_Devices /\ i \in Nat
                                     /\ m_Devices'[i] = m_Devices[IF i < 1 THEN i ELSE i + 1]
    BY <1>3
  <2> QED BY <1>4, <1>7, <2>1, ListShrinks
<1>10. \A e : Listed(e)' <=> Listed(e) /\ e # d
  <2>1. \A i, j \in 1 .. n : m_Devices[i] = m_Devices[j] => i = j
    BY <1>3 DEF ListInv, ListSound
  <2>2. ASSUME NEW e PROVE Listed(e)' => Listed(e) /\ e # d
    BY <1>3, <2>1 DEF Listed
  <2>3. ASSUME NEW e, Listed(e), e # d PROVE Listed(e)'
    <3>1. PICK j \in 1 .. n : m_Devices[j] = e /\ j # 1
      BY <1>3, <2>3 DEF Listed
    <3>2. j - 1 \in 1 .. n - 1 /\ (j - 1) + 1 = j
      BY <1>3, <3>1
    <3> QED BY <1>3, <3>1, <3>2 DEF Listed
  <2> QED BY <2>2, <2>3
<1>11. ASSUME NEW e \in Objects PROVE Exact(e)'
  <2>1. TasksFor(e)' = TasksFor(e)
    BY DEF TasksFor
  <2>2. Cardinality(ThreadsFor(e)') = Cardinality(ThreadsFor(e)) + (IF e = d THEN 1 ELSE 0)
    <3>1. Held(thread[t].device = e) = 0 /\ Held(thread'[t].device = e) = IF e = d THEN 1 ELSE 0
      BY <1>2, Numbers DEF Held
    <3> QED BY <3>1, ThreadsChange
  <2>3. Held(pnp'.device = e) = Held(pnp.device = e) /\ Held(Listed(e)) = Held(Listed(e))' + (IF e = d THEN 1 ELSE 0)
    BY <1>5, <1>10 DEF Held
  <2>4. Held(Listed(e))' \in Nat
    BY DEF Held
  <2>5. Count(e)' = Count(e)
    BY <2>1, <2>2, <2>3, <2>4, CountIs DEF ListInv, Count
  <2>6. Exact(e)
    BY RefsAre DEF ListInv
  <2> QED BY <1>6, <2>5, <2>6 DEF Exact, Restated
<1> QED BY <1>7, <1>8, <1>9, <1>11, RefsAreNext DEF ListInv

\* Start or Stop is done, and the thread drops its reference.
LEMMA TaskDone ==
  ASSUME ListInv, NEW t \in Threads, Moves(t), NEW d \in Objects, thread[t].device = d, thread'[t].device = Adapter,
         NEW state \in States, state \notin {"Unused", "Deleted"},
         IF object[d].refs = 1 THEN Release(d)
         ELSE /\ object' = [object EXCEPT ![d].refs = @ - 1, ![d].m_State = state]
              /\ UNCHANGED m_PowerRelations,
         UNCHANGED <<m_Devices, m_WorkTasks, pnp, kind>>
  PROVE  ListInv'
<1>1. object[d].refs # 0
  BY RefsAre, Holders DEF ListInv
<1>2. Dropped(d) /\ DependenciesHeld'
  BY <1>1, ReleaseDrops
<1>3. \A e \in Objects : object'[e].link = object[e].link
  BY <1>2 DEF Dropped
<1>4. ListTypes'
  BY <1>2 DEF Dropped, Object, ListInv, ListTypes
<1>5. \A e : Listed(e)' <=> Listed(e)
  BY DEF Listed
<1>6. DeviceFind(pnp.link)' = DeviceFind(pnp.link)
  BY <1>3 DEF DeviceFind
<1>7. ListSound'
  <2>1. pnp.at = "Insert" => pnp.device \in Objects
    BY DEF ListInv, ListSound, ListTypes, Owners
  <2> QED BY <1>3, <1>5, <1>6, <2>1 DEF ListInv, ListSound
<1>8. OnePerLink'
  <2>1. \A i \in DOMAIN m_Devices : m_Devices[i] \in Objects
    BY DEF ListInv, ListTypes
  <2> QED BY <1>3, <2>1 DEF ListInv, OnePerLink
<1>9. ASSUME NEW e \in Objects PROVE Exact(e)'
  <2>1. TasksFor(e)' = TasksFor(e)
    BY DEF TasksFor
  <2>2. Cardinality(ThreadsFor(e)') = Cardinality(ThreadsFor(e)) - (IF e = d THEN 1 ELSE 0)
    <3>1. Held(thread[t].device = e) = (IF e = d THEN 1 ELSE 0) /\ Held(thread'[t].device = e) = 0
      BY Numbers DEF Held
    <3> QED BY <3>1, ThreadsChange
  <2>3. Held(pnp'.device = e) = Held(pnp.device = e) /\ Held(Listed(e))' = Held(Listed(e))
    BY <1>5 DEF Held
  <2>4. Count(e)' = Count(e) + (IF e = d THEN -1 ELSE 0)
    BY <2>1, <2>2, <2>3, CountIs DEF ListInv, Count
  <2>5. Exact(e) /\ object[e].refs \in Nat
    BY RefsAre DEF ListInv, ListTypes
  <2>6. CASE e = d
    BY <1>2, <2>4, <2>5, <2>6, Recount DEF Dropped
  <2>7. CASE e # d
    BY <1>2, <2>4, <2>5, <2>7, CountIs DEF Dropped, Exact, ListInv
  <2> QED BY <2>6, <2>7
<1> QED BY <1>2, <1>4, <1>7, <1>8, <1>9, RefsAreNext DEF ListInv

(***************************************************************************)
(* The steps that install and remove filters                               *)
(***************************************************************************)

\* A thread goes from one place to another with the same device.
Goes(t, from, to) ==
  /\ thread[t].at = from /\ thread'[t].at = to /\ thread'[t].device = thread[t].device
  /\ Moves(t)

LEMMA GivenTypes ==
  ASSUME FilterTypes, NEW t \in Threads, NEW p \in {"Topo", "Wave"}
  PROVE  Given(t, p) \subseteq Subs
<1>1. thread[t].endpoint \in Names /\ thread[t].device \in Owners
  BY DEF FilterTypes
<1>2. Subdevice(thread[t].endpoint, p, thread[t].device) \in Subs
  BY <1>1 DEF Subdevice, Subs
<1>3. NoSubdevice \in Subs
  BY DEF NoSubdevice, Subs, Names, Owners
<1> QED BY <1>2, <1>3 DEF Given, GetCachedSubdevice, FilterTypes

LEMMA InstallTypes ==
  ASSUME FilterTypes, NEW t \in Threads, NEW p \in {"Topo", "Wave"},
         NEW s, NEW made, NEW ok, Install(t, p, s, made, ok)
  PROVE  m_SubdeviceCache' \subseteq Subs /\ registered' \subseteq Subs
<1>1. Subdevice(thread[t].endpoint, p, thread[t].device) \in Subs
  BY GivenTypes DEF Given
<1> QED BY <1>1 DEF Install, FilterTypes, CacheSubdevice, InstallSubdevice

LEMMA TopologyStep ==
  ASSUME FilterTypes, NEW t \in Threads, InstallTopology(t), UNCHANGED installed
  PROVE  FilterTypes' /\ Goes(t, "Topology", "Wave")
<1>1. PICK s \in Given(t, "Topo"), made \in SUBSET Given(t, "Topo"), ok \in Filtering(t) :
        /\ Install(t, "Topo", s, made, ok)
        /\ thread' = [thread EXCEPT ![t].at = "Wave", ![t].topo = s, ![t].made = made]
  BY DEF InstallTopology
<1>2. s \in Subs /\ made \in SUBSET Subs /\ m_SubdeviceCache' \subseteq Subs /\ registered' \subseteq Subs
  BY <1>1, GivenTypes, InstallTypes
<1>3. thread \in [Threads -> Thread] /\ thread[t] \in Thread
  BY DEF FilterTypes, Thread
<1>4. PICK p : p = [thread[t] EXCEPT !.at = "Wave", !.topo = s, !.made = made]
  OBVIOUS
<1>5. "Wave" \in Places
  BY DEF Places, Starting
<1>6. p \in Thread /\ p.at = "Wave" /\ p.device = thread[t].device
  BY <1>2, <1>3, <1>4, <1>5 DEF Thread
<1>7. thread' = [thread EXCEPT ![t] = p]
  BY <1>1, <1>3, <1>4
<1>8. thread' \in [Threads -> Thread] /\ Moves(t) /\ thread'[t] = p
  BY <1>6, <1>7, Becomes
<1>9. thread[t].at = "Topology" /\ UNCHANGED <<connected, unknown>>
  BY DEF InstallTopology, At
<1>10. FilterTypes'
  BY <1>2, <1>8, <1>9 DEF FilterTypes, Thread
<1> QED BY <1>6, <1>8, <1>9, <1>10 DEF Goes

LEMMA WaveStep ==
  ASSUME FilterTypes, NEW t \in Threads, InstallWave(t), UNCHANGED installed
  PROVE  FilterTypes' /\ Goes(t, "Wave", "Connect")
<1>1. PICK s \in Given(t, "Wave"), made \in SUBSET Given(t, "Wave"), ok \in Filtering(t) :
        /\ Install(t, "Wave", s, made, ok)
        /\ thread' = [thread EXCEPT ![t].at = "Connect", ![t].wave = s, ![t].made = @ \cup made, ![t].ok = ok]
  BY DEF InstallWave
<1>2. s \in Subs /\ made \in SUBSET Subs /\ m_SubdeviceCache' \subseteq Subs /\ registered' \subseteq Subs
  BY <1>1, GivenTypes, InstallTypes
<1>3. thread \in [Threads -> Thread] /\ thread[t] \in Thread
  BY DEF FilterTypes, Thread
<1>4. PICK p : p = [thread[t] EXCEPT !.at = "Connect", !.wave = s, !.made = @ \cup made, !.ok = ok]
  OBVIOUS
<1>5. "Connect" \in Places /\ ok \in BOOLEAN
  BY DEF Places, Starting, Filtering, Outcome
<1>6. p \in Thread /\ p.at = "Connect" /\ p.device = thread[t].device
  BY <1>2, <1>3, <1>4, <1>5 DEF Thread
<1>7. thread' = [thread EXCEPT ![t] = p]
  BY <1>1, <1>3, <1>4
<1>8. thread' \in [Threads -> Thread] /\ Moves(t) /\ thread'[t] = p
  BY <1>6, <1>7, Becomes
<1>9. thread[t].at = "Wave" /\ UNCHANGED <<connected, unknown>>
  BY DEF InstallWave, At
<1>10. FilterTypes'
  BY <1>2, <1>8, <1>9 DEF FilterTypes, Thread
<1> QED BY <1>6, <1>8, <1>9, <1>10 DEF Goes

LEMMA ConnectStep ==
  ASSUME FilterTypes, NEW t \in Threads, NEW next \in Places, InstallConnect(t, next), UNCHANGED installed
  PROVE  FilterTypes' /\ Goes(t, "Connect", next)
<1>1. PICK i : i = thread[t]
  OBVIOUS
<1>2. i \in Thread /\ i.at = "Connect"
  BY <1>1 DEF FilterTypes, Thread, InstallConnect, At
<1>3. PICK ok \in Filtering(t) :
        /\ connected' \in {connected \cup {<<i.topo, i.wave>>}, connected \ {<<i.topo, i.wave>>}, connected}
        /\ registered' \in {registered, registered \ i.made}
        /\ m_SubdeviceCache' \subseteq m_SubdeviceCache
        /\ unknown' = IF ok /\ i.device # Adapter
                      THEN [unknown EXCEPT ![i.device] = <<i.topo, i.wave>>] ELSE unknown
        /\ thread' = [thread EXCEPT ![t] = [Idle EXCEPT
                 !.at = next, !.device = i.device, !.action = i.action, !.ok = ok]]
  BY <1>1 DEF InstallConnect, ConnectTopologies
<1>4. PICK p : p = [Idle EXCEPT !.at = next, !.device = i.device, !.action = i.action, !.ok = ok]
  OBVIOUS
<1>5. i.topo \in Subs /\ i.wave \in Subs /\ i.device \in Owners /\ i.action \in {"None", "Start", "Stop"} /\ ok \in BOOLEAN
  BY <1>2 DEF Thread, Filtering, Outcome
<1>6. p \in Thread /\ p.at = next /\ p.device = i.device
  BY <1>4, <1>5, IdleThread DEF Thread
<1>7. thread' \in [Threads -> Thread] /\ Moves(t) /\ thread'[t] = p
  BY <1>3, <1>4, <1>6, Becomes
<1>8. connected' \subseteq Subs \X Subs /\ registered' \subseteq Subs /\ m_SubdeviceCache' \subseteq Subs
  BY <1>3, <1>5 DEF FilterTypes
<1>9. unknown' \in [Objects -> Subs \X Subs]
  BY <1>3, <1>5 DEF FilterTypes
<1>10. FilterTypes'
  BY <1>7, <1>8, <1>9 DEF FilterTypes, Thread
<1> QED BY <1>1, <1>2, <1>6, <1>7, <1>10 DEF Goes

LEMMA RemoveSteps ==
  ASSUME FilterTypes, NEW t \in Threads, UNCHANGED installed,
         RemoveDisconnect(t, "Release") \/ RemoveWave(t) \/ RemoveTopology(t, "Release")
  PROVE  /\ FilterTypes'
         /\ \/ Goes(t, "Disconnect", "RemoveWave") \/ Goes(t, "Disconnect", "Release")
            \/ Goes(t, "RemoveWave", "RemoveTopology") \/ Goes(t, "RemoveTopology", "Release")
<1>1. "RemoveWave" \in Places /\ "RemoveTopology" \in Places /\ "Release" \in Places
  BY DEF Places, Cleaning, Awaiting, Flushing, Stopping, Removal
<1>2. CASE RemoveDisconnect(t, "Release")
  <2>1. PICK to \in {"RemoveWave", "Release"} : Goto(t, to) /\ connected' \subseteq connected
    BY <1>2 DEF RemoveDisconnect, DisconnectTopologies
  <2>2. thread' \in [Threads -> Thread] /\ Goes(t, "Disconnect", to)
    BY <1>1, <1>2, <2>1, Gone DEF Goes, RemoveDisconnect, At
  <2>3. FilterTypes'
    BY <1>2, <2>1, <2>2 DEF FilterTypes, Thread, RemoveDisconnect
  <2> QED BY <2>2, <2>3
<1>3. CASE RemoveWave(t)
  <2>1. Goto(t, "RemoveTopology") /\ m_SubdeviceCache' \subseteq m_SubdeviceCache /\ registered' \subseteq registered
    BY <1>3 DEF RemoveWave, RemoveCachedSubdevice, UnregisterSubdevice
  <2>2. thread' \in [Threads -> Thread] /\ Goes(t, "RemoveWave", "RemoveTopology")
    BY <1>1, <1>3, <2>1, Gone DEF Goes, RemoveWave, At
  <2>3. FilterTypes'
    BY <1>3, <2>1, <2>2 DEF FilterTypes, Thread, RemoveWave
  <2> QED BY <2>2, <2>3
<1>4. CASE RemoveTopology(t, "Release")
  <2>1. Goto(t, "Release") /\ m_SubdeviceCache' \subseteq m_SubdeviceCache /\ registered' \subseteq registered
    BY <1>4 DEF RemoveTopology, RemoveCachedSubdevice, UnregisterSubdevice
  <2>2. thread' \in [Threads -> Thread] /\ Goes(t, "RemoveTopology", "Release")
    BY <1>1, <1>4, <2>1, Gone DEF Goes, RemoveTopology, At
  <2>3. NoSubdevice \in Subs
    BY DEF NoSubdevice, Subs, Names, Owners
  <2>4. unknown' \in [Objects -> Subs \X Subs]
    BY <1>4, <2>3 DEF RemoveTopology, FilterTypes
  <2>5. FilterTypes'
    BY <1>4, <2>1, <2>2, <2>4 DEF FilterTypes, Thread, RemoveTopology
  <2> QED BY <2>2, <2>5
<1> QED BY <1>2, <1>3, <1>4

(***************************************************************************)
(* Who runs when                                                           *)
(***************************************************************************)

MainPlaces == {"Idle", "Exit", "ExitFailed", "Dispatch"} \cup Starting \cup Cleaning
CallbackPlaces == {"Idle", "Take", "Topology", "Wave", "Connect"} \cup Removal
CallbackIs(t) ==
  /\ thread[t].at \in CallbackPlaces
  /\ thread[t].device = Adapter <=> thread[t].at \in {"Idle", "Take"}
CallbacksIdle == \A t \in Callbacks : At(t, "Idle")

\* The sideband devices are in use: neither a start nor the end of a Cleanup is under way.
Live == common = "Live" /\ enableCleanup /\ thread[Main].at \notin Starting \cup Stopping \cup {"Empty"}

LEMMA LiveWhen ==
  ASSUME ControlInv
  PROVE  /\ notification => Live /\ thread[Main].at \notin Awaiting
         /\ pnp.at # "Idle" => Live /\ thread[Main].at \notin Flushing
         /\ workItem # "None" => Live
         /\ \A t \in Callbacks : ~At(t, "Idle") => Live
<1>1. Stopping \subseteq Flushing /\ Flushing \subseteq Awaiting
  BY DEF Flushing, Awaiting
<1>2. /\ Quiet => ~notification /\ pnp.at = "Idle" /\ workItem = "None" /\ \A t \in Callbacks : At(t, "Idle")
      /\ ~Live => Quiet \/ thread[Main].at \in Stopping
  BY DEF ControlInv, CleanupWaits, Live, Quiet
<1> QED BY <1>1, <1>2 DEF ControlInv, CleanupWaits

\* A step of a callback, while they may run.
LEMMA LiveStep ==
  ASSUME ControlInv, Live, FilterTypes', thread'[Main] = thread[Main],
         UNCHANGED <<common, m_pCommon, m_AdapterInstances, enableCleanup, notification>>,
         thread[Main].at \in Flushing => pnp'.at = "Idle",
         \A t \in Callbacks : CallbackIs(t)', TasksServed'
  PROVE  ControlInv'
<1>1. ThreadPlaces'
  BY DEF ControlInv, ThreadPlaces, CallbackIs, CallbackPlaces
<1>2. AdapterLives'
  BY DEF ControlInv, AdapterLives, Live, At
<1>3. CleanupWaits'
  BY DEF ControlInv, CleanupWaits, Live
<1> QED BY <1>1, <1>2, <1>3 DEF ControlInv

\* A callback goes on.
LEMMA CallbackGoes ==
  ASSUME ControlInv, NEW t \in Callbacks, ~At(t, "Idle"), FilterTypes', Moves(t),
         CallbackIs(t)', ~At(t, "Idle")',
         UNCHANGED <<common, m_pCommon, m_AdapterInstances, enableCleanup, notification, pnp>>
  PROVE  ControlInv'
<1>1. Live
  BY LiveWhen
<1>2. thread'[Main] = thread[Main] /\ \A u \in Callbacks : CallbackIs(u)'
  BY Numbers DEF Moves, ControlInv, ThreadPlaces, CallbackIs, CallbackPlaces
<1>3. TasksServed'
  BY DEF TasksServed, At
<1>4. thread[Main].at \in Flushing => pnp'.at = "Idle"
  BY DEF ControlInv, CleanupWaits
<1> QED BY <1>1, <1>2, <1>3, <1>4, LiveStep

\* A step of the thread that runs StartDevice and PnpHandler.
LEMMA MainGoes ==
  ASSUME ControlInv, Moves(Main), FilterTypes', UNCHANGED <<pnp, m_WorkTasks>>, AdapterLives',
         NEW to \in MainPlaces, thread'[Main].at = to, thread'[Main].device # Adapter <=> to \in Removal,
         to \in Awaiting => ~notification', to \in Flushing => pnp.at = "Idle",
         to \in Stopping => workItem' = "None" /\ m_WorkTasks = <<>> /\ CallbacksIdle,
         (common' # "Live" \/ ~enableCleanup' \/ to \in Starting \cup {"Empty"}) => Quiet',
         workItem' = workItem \/ m_WorkTasks = <<>>
  PROVE  ControlInv'
<1>1. \A t \in Callbacks : thread'[t] = thread[t]
  BY Numbers DEF Moves
<1>2. ThreadPlaces'
  BY <1>1 DEF ControlInv, ThreadPlaces, MainPlaces
<1>3. CleanupWaits'
  <2>1. CallbacksIdle' <=> CallbacksIdle
    BY <1>1 DEF CallbacksIdle, At
  <2> QED BY <2>1 DEF CleanupWaits, CallbacksIdle
<1>4. TasksServed'
  BY <1>1 DEF ControlInv, TasksServed, At
<1> QED BY <1>2, <1>3, <1>4 DEF ControlInv

LEMMA QuietStays ==
  ASSUME Quiet, Moves(Main), UNCHANGED notification \/ ~notification',
         UNCHANGED <<pnp, workItem, m_Devices, m_WorkTasks>>
  PROVE  Quiet'
<1>1. \A t \in Callbacks : thread'[t] = thread[t]
  BY Numbers DEF Moves
<1> QED BY <1>1 DEF Quiet, At

\* The places are different ones.
LEMMA PlaceNames ==
  /\ MainPlaces \subseteq Places /\ CallbackPlaces \subseteq Places
  /\ {"Init", "Endpoints", "Topology", "Wave", "Connect", "Installed", "Sideband"} = Starting
  /\ {"Disconnect", "RemoveWave", "RemoveTopology", "Release"} = Removal
  /\ Stopping = {"StopAll", "Disconnect", "RemoveWave", "RemoveTopology", "Release"}
  /\ Flushing = {"Flush", "StopAll", "Disconnect", "RemoveWave", "RemoveTopology", "Release"}
  /\ Awaiting = {"Await", "Flush", "StopAll", "Disconnect", "RemoveWave", "RemoveTopology", "Release"}
  /\ Cleaning = {"Cleanup", "Unregister", "Empty", "Await", "Flush", "StopAll", "Disconnect",
                 "RemoveWave", "RemoveTopology", "Release"}
  /\ MainPlaces = {"Idle", "Exit", "ExitFailed", "Dispatch", "Init", "Endpoints", "Topology", "Wave",
                   "Connect", "Installed", "Sideband", "Cleanup", "Unregister", "Empty", "Await",
                   "Flush", "StopAll", "Disconnect", "RemoveWave", "RemoveTopology", "Release"}
  /\ CallbackPlaces = {"Idle", "Take", "Topology", "Wave", "Connect", "Disconnect", "RemoveWave",
                       "RemoveTopology", "Release"}
  BY DEF MainPlaces, CallbackPlaces, Places, Starting, Cleaning, Awaiting, Flushing, Stopping, Removal

(***************************************************************************)
(* RefsInv is kept by every step                                           *)
(***************************************************************************)

\* A step of the notification callback or the Plug and Play manager.
LEMMA NoticeControl ==
  ASSUME RefsInv, Live, UNCHANGED <<filters, thread, adapterVars, notification, enableCleanup>>,
         thread[Main].at \in Flushing => pnp'.at = "Idle",
         (m_WorkTasks' = m_WorkTasks /\ workItem' = workItem) \/ workItem' = "Enqueued"
  PROVE  ControlInv'
<1>1. FilterTypes'
  BY DEF RefsInv, ControlInv, FilterTypes, filters, adapterVars
<1>2. \A t \in Callbacks : CallbackIs(t)'
  BY DEF RefsInv, ControlInv, ThreadPlaces, CallbackIs, CallbackPlaces
<1>3. TasksServed'
  BY DEF RefsInv, ControlInv, TasksServed, At
<1> QED BY <1>1, <1>2, <1>3, LiveStep DEF RefsInv, adapterVars

LEMMA NotifyStep ==
  ASSUME RefsInv, NEW l \in Links, NEW e \in {"Arrival", "Removal"}, Notify(e, l)
  PROVE  RefsInv'
<1>1. /\ notification /\ pnp.at = "Idle" /\ pnp' = [NoNotice EXCEPT !.at = e, !.link = l]
      /\ UNCHANGED <<filters, thread, adapterVars, notification, enableCleanup, workItem, m_Devices, m_WorkTasks,
                     object, m_PowerRelations, kind>>
  BY DEF Notify, EvtBthHfpScoBypassInterfaceChange, EvtUsbSidebandInterfaceChange, InterfaceChange,
         subdeviceVars, external, list
<1>2. pnp' \in Notice /\ pnp'.at = e /\ pnp'.device = Adapter
  <2>1. l \in Names
    BY DEF Names
  <2> QED BY <1>1, <2>1, NoNoticeIs DEF Notice
<1>3. ListInv'
  BY <1>1, <1>2, ListFrame DEF RefsInv
<1>4. Live /\ thread[Main].at \notin Awaiting
  BY <1>1, LiveWhen DEF RefsInv
<1>5. ControlInv'
  BY <1>1, <1>4, NoticeControl DEF Awaiting
<1> QED BY <1>3, <1>5 DEF RefsInv

LEMMA NotifiedStep ==
  ASSUME RefsInv, Notified
  PROVE  RefsInv'
<1>1. /\ ArrivalCreate \/ ArrivalInsert \/ RemovalFind \/ RemovalTask
      /\ UNCHANGED <<filters, thread, adapterVars, notification, enableCleanup, kind>>
  BY DEF Notified, BthHfpScoInterfaceArrival, UsbSidebandInterfaceArrival, BthHfpScoInterfaceRemoval,
         UsbSidebandInterfaceRemoval, ArrivalCreate, ArrivalInsert, RemovalFind, RemovalTask, subdeviceVars, external
<1>2. pnp.at # "Idle"
  BY <1>1 DEF ArrivalCreate, ArrivalInsert, RemovalFind, RemovalTask
<1>3. Live /\ thread[Main].at \notin Flushing
  BY <1>2, LiveWhen DEF RefsInv
<1>4. ControlInv'
  <2>1. (m_WorkTasks' = m_WorkTasks /\ workItem' = workItem) \/ workItem' = "Enqueued"
    BY <1>1 DEF ArrivalCreate, ArrivalInsert, RemovalFind, RemovalTask, list
  <2> QED BY <1>1, <1>3, <2>1, NoticeControl
<1>5. pnp.at \in {"Insert", "Remove"} => pnp.device \in Objects
  BY DEF RefsInv, ListInv, ListSound, ListTypes, Owners
<1>6. CASE ArrivalCreate
  BY <1>4, <1>6, ObjectMade DEF RefsInv
<1>7. CASE ArrivalInsert
  <2>1. CASE Release(pnp.device) /\ UNCHANGED <<list, workItem>>
    BY <1>1, <1>4, <1>5, <1>7, <2>1, NoticeDropped DEF RefsInv, ArrivalInsert, list
  <2>2. CASE ~(Release(pnp.device) /\ UNCHANGED <<list, workItem>>)
    BY <1>1, <1>4, <1>5, <1>7, <2>2, Inserted DEF RefsInv, ArrivalInsert
  <2> QED BY <2>1, <2>2
<1>8. CASE RemovalFind
  <2>1. CASE pnp' = NoNotice /\ UNCHANGED object
    BY <1>1, <1>4, <1>8, <2>1, ListFrame, NoNoticeIs DEF RefsInv, RemovalFind, list
  <2>2. CASE ~(pnp' = NoNotice /\ UNCHANGED object)
    BY <1>1, <1>4, <1>8, <2>2, Found DEF RefsInv, RemovalFind, list
  <2> QED BY <2>1, <2>2
<1>9. CASE RemovalTask
  <2>1. CASE UNCHANGED <<list, workItem>>
    BY <1>1, <1>4, <1>5, <1>9, <2>1, NoticeDropped DEF RefsInv, RemovalTask, list
  <2>2. CASE ~UNCHANGED <<list, workItem>>
    BY <1>1, <1>4, <1>5, <1>9, <2>2, Removed DEF RefsInv, RemovalTask
  <2> QED BY <2>1, <2>2
<1> QED BY <1>1, <1>6, <1>7, <1>8, <1>9

LEMMA WorkingStep ==
  ASSUME RefsInv, NEW t \in Callbacks, Working(t)
  PROVE  RefsInv'
<1>0. t \in Threads /\ t # Main /\ FilterTypes /\ ControlInv /\ ListInv /\ CallbackIs(t)
  BY Numbers DEF RefsInv, ControlInv, ThreadPlaces, CallbackIs, CallbackPlaces
<1>1. InterfaceWorkItem(t) /\ UNCHANGED adapterVars
  BY DEF Working, EvtBthHfpScoBypassInterfaceWorkItem, EvtUsbSidebandInterfaceWorkItem
<1>2. UNCHANGED <<kind, pnp, notification, enableCleanup, m_Devices, common, m_pCommon, m_AdapterInstances, installed>>
  BY <1>1 DEF InterfaceWorkItem, CallbackBegins, TakeTask, StartFails, ReleaseTask, listVars, external, list, adapterVars
<1>3. CASE CallbackBegins(t)
  <2>1. /\ workItem = "Enqueued" /\ At(t, "Idle") /\ Goto(t, "Take")
        /\ UNCHANGED <<m_WorkTasks, object, m_PowerRelations, filters>>
    BY <1>3 DEF CallbackBegins, list
  <2>2. /\ thread' \in [Threads -> Thread] /\ Moves(t)
        /\ thread'[t].at = "Take" /\ thread'[t].device = thread[t].device
    <3>1. "Take" \in Places
      BY DEF Places
    <3> QED BY <1>0, <2>1, <3>1, Gone
  <2>3. \A u \in Threads : thread'[u].device = thread[u].device
    BY <2>2 DEF Moves
  <2>4. ListInv'
    BY <1>0, <1>2, <2>1, <2>3, ListFrame DEF ListInv, ListTypes, Notice
  <2>5. Live
    BY <1>0, <2>1, LiveWhen
  <2>6. \A u \in Callbacks : CallbackIs(u)'
    BY <1>0, <2>1, <2>2 DEF Moves, ControlInv, ThreadPlaces, CallbackIs, CallbackPlaces, At, Threads
  <2>7. FilterTypes'
    BY <1>0, <1>2, <2>1, <2>2 DEF FilterTypes, Thread, filters
  <2>8. TasksServed'
    BY <2>2 DEF TasksServed, At
  <2>9. ControlInv'
    BY <1>0, <1>2, <2>2, <2>5, <2>6, <2>7, <2>8, LiveStep, Numbers DEF Moves, ControlInv, CleanupWaits
  <2> QED BY <2>4, <2>9 DEF RefsInv
<1>4. CASE TakeTask(t) /\ m_WorkTasks = <<>>
  <2>1. /\ At(t, "Take") /\ thread' = [thread EXCEPT ![t] = Idle]
        /\ UNCHANGED <<m_WorkTasks, object, m_PowerRelations, filters, workItem>>
    BY <1>4 DEF TakeTask
  <2>2. /\ thread' \in [Threads -> Thread] /\ Moves(t) /\ thread'[t] = Idle
    BY <1>0, <2>1, Becomes, IdleThread
  <2>3. \A u \in Threads : thread'[u].device = thread[u].device
    BY <1>0, <2>1, <2>2, IdleThread DEF Moves, CallbackIs, At
  <2>4. ListInv'
    BY <1>0, <1>2, <2>1, <2>3, ListFrame DEF ListInv, ListTypes, Notice
  <2>5. Live
    BY <1>0, <2>1, LiveWhen DEF At
  <2>6. \A u \in Callbacks : CallbackIs(u)'
    BY <1>0, <2>2, IdleThread DEF Moves, ControlInv, ThreadPlaces, CallbackIs, CallbackPlaces, Threads
  <2>7. FilterTypes'
    BY <1>0, <1>2, <2>1, <2>2 DEF FilterTypes, Thread, filters
  <2>8. TasksServed'
    BY <1>4, <2>1 DEF TasksServed
  <2>9. ControlInv'
    BY <1>0, <1>2, <2>2, <2>5, <2>6, <2>7, <2>8, LiveStep, Numbers DEF Moves, ControlInv, CleanupWaits
  <2> QED BY <2>4, <2>9 DEF RefsInv
<1>5. CASE TakeTask(t) /\ m_WorkTasks # <<>>
  <2>1. PICK c : c = Head(m_WorkTasks)
    OBVIOUS
  <2>2. PICK at : at = IF c.action = "Start" THEN "Topology" ELSE "Disconnect"
    OBVIOUS
  <2>3. PICK p : p = [Idle EXCEPT !.at = at, !.device = c.device, !.action = c.action, !.endpoint = object[c.device].link]
    OBVIOUS
  <2>4. /\ At(t, "Take") /\ m_WorkTasks' = Tail(m_WorkTasks) /\ thread' = [thread EXCEPT ![t] = p]
        /\ object' = object \/ object' = [object EXCEPT ![c.device].m_State = "Stopping"]
        /\ UNCHANGED <<m_PowerRelations, filters, workItem>>
    BY <1>5, <2>1, <2>2, <2>3 DEF TakeTask
  <2>5. c \in Tasks
    BY <1>0, <1>5, <2>1 DEF ListInv, ListTypes
  <2>6. p \in Thread /\ p.at = at /\ p.device = c.device
    <3>1. object[c.device].link \in Names /\ at \in Places /\ c.device \in Objects /\ c.action \in {"Start", "Stop"}
      BY <1>0, <2>2, <2>5, PlaceNames DEF Tasks, ListInv, ListTypes
    <3> QED BY <2>3, <3>1, IdleThread DEF Thread, Owners
  <2>7. thread' \in [Threads -> Thread] /\ Moves(t) /\ thread'[t] = p
    BY <1>0, <2>4, <2>6, Becomes
  <2>8. thread[t].device = Adapter
    BY <1>0, <2>4 DEF CallbackIs, At
  <2>9. ListInv'
    BY <1>0, <1>2, <1>5, <2>1, <2>4, <2>6, <2>7, <2>8, Taken
  <2>10. FilterTypes'
    BY <1>0, <1>2, <2>4, <2>7 DEF FilterTypes, Thread, filters
  <2>11. CallbackIs(t)' /\ ~At(t, "Idle")' /\ ~At(t, "Idle")
    <3>1. at \in {"Topology", "Disconnect"} /\ c.device \in Objects
      BY <2>2, <2>5 DEF Tasks
    <3> QED BY <2>4, <2>6, <2>7, <3>1, PlaceNames, Numbers DEF CallbackIs, At
  <2> QED BY <1>0, <1>2, <2>7, <2>9, <2>10, <2>11, CallbackGoes DEF RefsInv
<1>6. CASE ReleaseTask(t, "Take")
  <2>1. PICK d : d = thread[t].device
    OBVIOUS
  <2>2. At(t, "Release") /\ d \in Objects /\ UNCHANGED <<workItem, m_WorkTasks, filters>>
    BY <1>0, <1>6, <2>1, PlaceNames DEF ReleaseTask, CallbackIs, At, FilterTypes, Owners, list
  <2>3. PICK p : p = [Idle EXCEPT !.at = "Take"]
    OBVIOUS
  <2>4. p \in Thread /\ p.at = "Take" /\ p.device = Adapter
    BY <2>3, IdleThread, PlaceNames DEF Thread
  <2>5. thread' \in [Threads -> Thread] /\ Moves(t) /\ thread'[t] = p
    BY <1>0, <1>6, <2>3, <2>4, Becomes DEF ReleaseTask
  <2>6. Exact(d) /\ object[d].refs # 0 /\ object[d].m_State \in States \ {"Unused", "Deleted"}
    <3>1. Exact(d) /\ object[d].refs # 0
      BY <1>0, <2>1, <2>2, RefsAre, Holders DEF ListInv
    <3> QED BY <1>0, <2>2, <3>1 DEF Exact, ListInv, ListTypes
  <2>7. PICK state : state = IF thread[t].action = "Stop" THEN "Stopped"
                             ELSE IF thread[t].ok THEN object[d].m_State ELSE "Failed"
    OBVIOUS
  <2>8. state \in States /\ state \notin {"Unused", "Deleted"}
    BY <2>6, <2>7 DEF States
  <2>9. IF object[d].refs = 1 THEN Release(d)
        ELSE /\ object' = [object EXCEPT ![d].refs = @ - 1, ![d].m_State = state]
             /\ UNCHANGED m_PowerRelations
    BY <1>6, <2>1, <2>7 DEF ReleaseTask
  <2>10. ListInv'
    BY <1>0, <1>2, <2>1, <2>2, <2>4, <2>5, <2>8, <2>9, TaskDone
  <2>11. FilterTypes'
    BY <1>0, <1>2, <2>2, <2>5 DEF FilterTypes, Thread, filters
  <2>12. CallbackIs(t)' /\ ~At(t, "Idle")' /\ ~At(t, "Idle")
    BY <2>2, <2>4, <2>5, PlaceNames DEF CallbackIs, At
  <2> QED BY <1>0, <1>2, <2>5, <2>10, <2>11, <2>12, CallbackGoes DEF RefsInv
<1>7. ASSUME NEW from \in CallbackPlaces, NEW to \in CallbackPlaces, Goes(t, from, to), FilterTypes',
             from \notin {"Idle", "Take"}, to \notin {"Idle", "Take"}, UNCHANGED listVars
      PROVE  RefsInv'
  <2>1. CallbackIs(t)' /\ ~At(t, "Idle")' /\ ~At(t, "Idle") /\ Moves(t)
    BY <1>0, <1>7 DEF CallbackIs, Goes, At
  <2>2. \A u \in Threads : thread'[u].device = thread[u].device
    BY <1>7 DEF Moves, Goes
  <2>3. UNCHANGED <<object, m_WorkTasks, m_PowerRelations>>
    BY <1>7 DEF listVars
  <2>4. ListInv'
    BY <1>0, <1>2, <2>2, <2>3, ListFrame DEF ListInv, ListTypes, Notice
  <2> QED BY <1>0, <1>2, <1>7, <2>1, <2>4, CallbackGoes DEF RefsInv
<1>8. CASE StartFails(t)
  <2>1. PICK p : p = [thread[t] EXCEPT !.at = "Release", !.ok = FALSE]
    OBVIOUS
  <2>2. At(t, "Topology") /\ thread' = [thread EXCEPT ![t] = p] /\ UNCHANGED <<listVars, filters>>
    BY <1>0, <1>8, <2>1 DEF StartFails, FilterTypes
  <2>3. p \in Thread /\ p.at = "Release" /\ p.device = thread[t].device
    <3>1. thread[t] \in Thread
      BY <1>0 DEF FilterTypes, Thread
    <3> QED BY <2>1, <3>1, PlaceNames DEF Thread
  <2>4. thread' \in [Threads -> Thread] /\ Goes(t, "Topology", "Release")
    BY <1>0, <2>2, <2>3, Becomes DEF Goes, At
  <2>5. FilterTypes'
    BY <1>0, <1>2, <2>2, <2>4 DEF FilterTypes, Thread, filters
  <2> QED BY <1>7, <2>2, <2>4, <2>5, PlaceNames
<1>9. CASE InstallTopology(t) /\ UNCHANGED listVars
  BY <1>0, <1>2, <1>7, <1>9, TopologyStep, PlaceNames
<1>10. CASE InstallWave(t) /\ UNCHANGED listVars
  BY <1>0, <1>2, <1>7, <1>10, WaveStep, PlaceNames
<1>11. CASE InstallConnect(t, "Release") /\ UNCHANGED listVars
  <2>1. "Release" \in Places
    BY PlaceNames
  <2> QED BY <1>0, <1>2, <1>7, <1>11, <2>1, ConnectStep, PlaceNames
<1>12. CASE (RemoveDisconnect(t, "Release") \/ RemoveWave(t) \/ RemoveTopology(t, "Release")) /\ UNCHANGED listVars
  BY <1>0, <1>2, <1>7, <1>12, RemoveSteps, PlaceNames
<1> QED BY <1>1, <1>3, <1>4, <1>5, <1>6, <1>8, <1>9, <1>10, <1>11, <1>12 DEF InterfaceWorkItem

\* StartDevice or PnpHandler goes on and leaves the sideband devices alone.
LEMMA MainMoves ==
  ASSUME RefsInv, Moves(Main), FilterTypes', UNCHANGED listVars, AdapterLives',
         NEW to \in MainPlaces, thread'[Main].at = to, thread'[Main].device = thread[Main].device,
         to \in Removal <=> thread[Main].at \in Removal,
         to \in Awaiting => thread[Main].at \in Awaiting, to \in Flushing => thread[Main].at \in Flushing,
         to \in Stopping => thread[Main].at \in Stopping,
         (common' # "Live" \/ to \in Starting \cup {"Empty"}) => Quiet
  PROVE  RefsInv'
<1>1. UNCHANGED <<kind, pnp, notification, enableCleanup, workItem, m_Devices, m_WorkTasks, object, m_PowerRelations>>
  BY DEF listVars, external
<1>2. ~enableCleanup => Quiet
  BY DEF RefsInv, ControlInv, CleanupWaits
<1>3. (common' # "Live" \/ ~enableCleanup' \/ to \in Starting \cup {"Empty"}) => Quiet'
  BY <1>1, <1>2, QuietStays
<1>4. thread'[Main].device # Adapter <=> to \in Removal
  BY DEF RefsInv, ControlInv, ThreadPlaces
<1>5. to \in Awaiting => ~notification'
  BY <1>1 DEF RefsInv, ControlInv, CleanupWaits
<1>6. to \in Flushing => pnp.at = "Idle"
  BY <1>1 DEF RefsInv, ControlInv, CleanupWaits
<1>7. to \in Stopping => workItem' = "None" /\ m_WorkTasks = <<>> /\ CallbacksIdle
  BY <1>1 DEF RefsInv, ControlInv, CleanupWaits, CallbacksIdle
<1>8. ControlInv'
  BY <1>1, <1>3, <1>4, <1>5, <1>6, <1>7, MainGoes DEF RefsInv
<1>9. \A u \in Threads : thread'[u].device = thread[u].device
  BY DEF Moves
<1>10. pnp' \in Notice
  BY <1>1 DEF RefsInv, ListInv, ListTypes, Notice
<1>11. ListInv'
  BY <1>1, <1>9, <1>10, ListFrame DEF RefsInv
<1> QED BY <1>8, <1>11 DEF RefsInv

\* Goto, as a step of it.
LEMMA MainGoto ==
  ASSUME RefsInv, NEW to \in MainPlaces, Goto(Main, to), m_SubdeviceCache' \subseteq m_SubdeviceCache,
         registered' \subseteq registered, connected' \subseteq connected, UNCHANGED <<unknown, installed>>
  PROVE  /\ FilterTypes' /\ Moves(Main) /\ thread'[Main].at = to /\ thread'[Main].device = thread[Main].device
<1>1. to \in Places /\ FilterTypes /\ Main \in Threads
  BY PlaceNames, Numbers DEF RefsInv, ControlInv
<1>2. /\ thread' \in [Threads -> Thread] /\ Moves(Main)
      /\ thread'[Main].at = to /\ thread'[Main].device = thread[Main].device
  BY <1>1, Gone
<1>3. FilterTypes'
  BY <1>1, <1>2 DEF FilterTypes, Thread
<1> QED BY <1>2, <1>3

LEMMA StartStep ==
  ASSUME RefsInv, StartDevice
  PROVE  RefsInv'
<1>0. Main \in Threads /\ FilterTypes /\ ControlInv /\ ListInv
  BY Numbers DEF RefsInv, ControlInv
<1>q. thread[Main].at \in Starting => Quiet /\ common = "Live" /\ thread[Main].device = Adapter
  <2>1. Starting \cap Removal = {}
    BY DEF Starting, Removal
  <2> QED BY <1>0, <2>1 DEF ControlInv, CleanupWaits, AdapterLives, ThreadPlaces
<1>1. CASE NewAdapterCommon /\ m_AdapterInstances = 0 /\ common' = "Live" /\ Goto(Main, "Init") /\ UNCHANGED device
  <2>1. UNCHANGED <<listVars, filters, m_pCommon, installed>> /\ thread[Main].at = "Idle" /\ m_AdapterInstances' = 1
    BY <1>1 DEF NewAdapterCommon, At
  <2>2. common = "None" /\ m_pCommon = FALSE
    BY <1>0, <1>1 DEF ControlInv, AdapterLives
  <2>3. FilterTypes' /\ Moves(Main) /\ thread'[Main].at = "Init" /\ thread'[Main].device = thread[Main].device
    BY <1>1, <2>1, MainGoto, PlaceNames DEF filters
  <2>4. AdapterLives'
    BY <1>1, <2>1, <2>2, <2>3 DEF AdapterLives, At
  <2>5. Quiet
    BY <1>0, <2>2 DEF ControlInv, CleanupWaits
  <2> QED BY <2>1, <2>3, <2>4, <2>5, MainMoves, PlaceNames
<1>2. CASE NewAdapterCommon /\ UNCHANGED <<common, thread>>
  <2>1. UNCHANGED <<listVars, filters, m_pCommon, installed>> /\ m_AdapterInstances' = 1
    BY <1>2 DEF NewAdapterCommon
  <2>2. PICK to : to = thread[Main].at
    OBVIOUS
  <2>3. to \in MainPlaces /\ Moves(Main)
    BY <1>0, <1>2, <2>2 DEF ControlInv, ThreadPlaces, MainPlaces, Moves
  <2>4. FilterTypes' /\ AdapterLives'
    BY <1>0, <1>2, <2>1 DEF ControlInv, FilterTypes, AdapterLives, filters, At
  <2>5. (common' # "Live" \/ to \in Starting \cup {"Empty"}) => Quiet
    BY <1>0, <1>2, <2>2 DEF ControlInv, CleanupWaits
  <2> QED BY <1>2, <2>1, <2>2, <2>3, <2>4, <2>5, MainMoves
<1>3. CASE AdapterInit
  <2>1. /\ thread[Main].at = "Init" /\ enableCleanup' = FALSE /\ m_SubdeviceCache' = {} /\ m_PowerRelations' = {} /\ installed' = 0
        /\ UNCHANGED <<kind, pnp, notification, workItem, m_Devices, m_WorkTasks, object, registered, connected, unknown,
                       m_AdapterInstances, common, m_pCommon>>
    BY <1>3 DEF AdapterInit, At, external, list
  <2>2. PICK to \in {"Endpoints", "ExitFailed"} : Goto(Main, to)
    BY <1>3 DEF AdapterInit
  <2>3. to \in Places /\ to \in MainPlaces
    BY PlaceNames
  <2>4. /\ thread' \in [Threads -> Thread] /\ Moves(Main)
        /\ thread'[Main].at = to /\ thread'[Main].device = thread[Main].device
    BY <1>0, <2>2, <2>3, Gone
  <2>5. installed' \in 0 .. Len(AllEndpoints)
    BY <1>0, <2>1 DEF FilterTypes
  <2>6. FilterTypes'
    BY <1>0, <2>1, <2>4, <2>5 DEF FilterTypes, Thread
  <2>7. Quiet /\ common = "Live" /\ thread[Main].device = Adapter
    BY <1>q, <2>1, PlaceNames
  <2>8. Quiet'
    BY <2>1, <2>4, <2>7, QuietStays
  <2>9. AdapterLives'
    BY <1>0, <2>1, <2>4, <2>7 DEF ControlInv, AdapterLives, At
  <2>10. ControlInv'
    BY <1>0, <2>1, <2>2, <2>3, <2>4, <2>6, <2>7, <2>8, <2>9, MainGoes, PlaceNames
  <2>11. \A u \in Threads : thread'[u].device = thread[u].device
    BY <2>4 DEF Moves
  <2>12. pnp' \in Notice
    BY <1>0, <2>1 DEF ListInv, ListTypes, Notice
  <2>13. ListInv'
    BY <1>0, <2>1, <2>11, <2>12, ListFrame
  <2> QED BY <2>10, <2>13 DEF RefsInv
<1>4. ASSUME At(Main, "Endpoints"), InstallNext PROVE RefsInv'
  <2>1. UNCHANGED <<listVars, filters, common, m_pCommon, m_AdapterInstances>> /\ thread[Main].at = "Endpoints"
    BY <1>4 DEF InstallNext, At
  <2>2. Quiet /\ common = "Live" /\ thread[Main].device = Adapter
    BY <1>q, <2>1, PlaceNames
  <2>3. CASE Goto(Main, "Sideband") /\ UNCHANGED installed
    <3>1. FilterTypes' /\ Moves(Main) /\ thread'[Main].at = "Sideband" /\ thread'[Main].device = thread[Main].device
      BY <2>1, <2>3, MainGoto, PlaceNames DEF filters
    <3>2. AdapterLives'
      BY <1>0, <2>1, <2>2, <3>1 DEF ControlInv, AdapterLives, At
    <3> QED BY <2>1, <2>2, <3>1, <3>2, MainMoves, PlaceNames
  <2>4. CASE ~(Goto(Main, "Sideband") /\ UNCHANGED installed)
    <3>1. PICK p : p = [Idle EXCEPT !.at = "Topology", !.endpoint = AllEndpoints[installed + 1]]
      OBVIOUS
    <3>2. installed # Len(AllEndpoints) /\ installed' = installed + 1 /\ thread' = [thread EXCEPT ![Main] = p]
      BY <1>4, <2>4, <3>1 DEF InstallNext
    <3>3. Len(AllEndpoints) \in Nat
      BY EndpointsAssumption DEF AllEndpoints
    <3>4. installed' \in 1 .. Len(AllEndpoints) /\ installed' \in 0 .. Len(AllEndpoints)
      BY <1>0, <3>2, <3>3 DEF FilterTypes
    <3>5. AllEndpoints[installed + 1] \in Names
      BY <3>2, <3>4 DEF Names
    <3>6. p \in Thread /\ p.at = "Topology" /\ p.device = Adapter
      BY <3>1, <3>5, IdleThread, PlaceNames DEF Thread
    <3>7. thread' \in [Threads -> Thread] /\ Moves(Main) /\ thread'[Main] = p
      BY <1>0, <3>2, <3>6, Becomes
    <3>8. FilterTypes'
      BY <1>0, <2>1, <3>4, <3>7 DEF FilterTypes, Thread, filters
    <3>9. AdapterLives'
      BY <1>0, <2>1, <2>2, <3>6, <3>7 DEF ControlInv, AdapterLives, At, filters
    <3> QED BY <2>1, <2>2, <3>6, <3>7, <3>8, <3>9, MainMoves, PlaceNames
  <2> QED BY <2>3, <2>4
<1>5. ASSUME NEW from \in Starting, NEW to \in Starting \cup {"ExitFailed"}, Goes(Main, from, to), FilterTypes',
             UNCHANGED <<listVars, adapterVars>>
      PROVE  RefsInv'
  <2>1. Quiet /\ common = "Live" /\ thread[Main].device = Adapter /\ thread[Main].at = from
    BY <1>q, <1>5 DEF Goes
  <2>2. Moves(Main) /\ thread'[Main].at = to /\ thread'[Main].device = thread[Main].device
    BY <1>5 DEF Goes
  <2>3. AdapterLives'
    BY <1>0, <1>5, <2>1, <2>2, PlaceNames DEF ControlInv, AdapterLives, At, adapterVars
  <2> QED BY <1>5, <2>1, <2>2, <2>3, MainMoves, PlaceNames
<1>6. CASE InstallSteps
  <2>1. UNCHANGED <<listVars, adapterVars>> /\ UNCHANGED installed
    BY <1>6 DEF InstallSteps, adapterVars
  <2>2. CASE InstallTopology(Main)
    BY <1>0, <1>5, <2>1, <2>2, TopologyStep, PlaceNames
  <2>3. CASE InstallWave(Main)
    BY <1>0, <1>5, <2>1, <2>3, WaveStep, PlaceNames
  <2>4. CASE InstallConnect(Main, "Installed")
    <3>1. "Installed" \in Places
      BY PlaceNames
    <3> QED BY <1>0, <1>5, <2>1, <2>4, <3>1, ConnectStep, PlaceNames
  <2> QED BY <1>6, <2>2, <2>3, <2>4 DEF InstallSteps
<1>7. CASE InstallEndpointRenderFilters \/ InstallEndpointCaptureFilters
  <2>1. UNCHANGED <<listVars, filters, adapterVars>> /\ thread[Main].at = "Installed"
    BY <1>7 DEF InstallEndpointRenderFilters, InstallEndpointCaptureFilters, At
  <2>2. PICK to \in {"Endpoints", "ExitFailed"} : Goto(Main, to)
    BY <1>7 DEF InstallEndpointRenderFilters, InstallEndpointCaptureFilters
  <2>3. FilterTypes' /\ Goes(Main, "Installed", to)
    BY <2>1, <2>2, MainGoto, PlaceNames DEF filters, adapterVars, Goes
  <2> QED BY <1>5, <2>1, <2>2, <2>3, PlaceNames
<1>8. CASE StartSideband /\ disabled
  <2>1. UNCHANGED <<listVars, filters, adapterVars>> /\ thread[Main].at = "Sideband" /\ Goto(Main, "Exit")
    BY <1>8 DEF StartSideband, At
  <2>2. FilterTypes' /\ Moves(Main) /\ thread'[Main].at = "Exit" /\ thread'[Main].device = thread[Main].device
    BY <2>1, MainGoto, PlaceNames DEF filters, adapterVars
  <2>3. Quiet /\ common = "Live" /\ thread[Main].device = Adapter
    BY <1>q, <2>1, PlaceNames
  <2>4. AdapterLives'
    BY <1>0, <2>1, <2>2, <2>3 DEF ControlInv, AdapterLives, At, adapterVars
  <2> QED BY <2>1, <2>2, <2>3, <2>4, MainMoves, PlaceNames DEF adapterVars
<1>9. CASE StartSideband /\ ~disabled
  <2>1. /\ InitSideband("Exit", "ExitFailed") /\ thread[Main].at = "Sideband" /\ UNCHANGED adapterVars
    BY <1>9 DEF StartSideband, At, InitBthScoBypass, InitUsbSideband
  <2>2. /\ enableCleanup' = TRUE /\ m_Devices' = <<>> /\ m_WorkTasks' = <<>>
        /\ UNCHANGED <<kind, pnp, object, m_PowerRelations, filters>>
    BY <2>1 DEF InitSideband, external
  <2>3. PICK to \in {"Exit", "ExitFailed"} : Goto(Main, to)
    BY <2>1 DEF InitSideband
  <2>4. FilterTypes' /\ Moves(Main) /\ thread'[Main].at = to /\ thread'[Main].device = thread[Main].device
    BY <2>1, <2>2, <2>3, MainGoto, PlaceNames DEF filters, adapterVars
  <2>5. Quiet /\ common = "Live" /\ thread[Main].device = Adapter
    BY <1>q, <2>1, PlaceNames
  <2>6. m_Devices' = m_Devices /\ m_WorkTasks' = m_WorkTasks /\ m_WorkTasks = <<>>
    BY <2>2, <2>5 DEF Quiet
  <2>7. AdapterLives'
    BY <1>0, <2>1, <2>4, <2>5 DEF ControlInv, AdapterLives, At, adapterVars
  <2>8. common' = "Live"
    BY <2>1, <2>5 DEF adapterVars
  <2>9. ControlInv'
    BY <1>0, <2>2, <2>4, <2>5, <2>6, <2>7, <2>8, MainGoes, PlaceNames
  <2>10. \A u \in Threads : thread'[u].device = thread[u].device
    BY <2>4 DEF Moves
  <2>11. pnp' \in Notice
    BY <1>0, <2>2 DEF ListInv, ListTypes, Notice
  <2>12. ListInv'
    BY <1>0, <2>2, <2>6, <2>10, <2>11, ListFrame
  <2> QED BY <2>9, <2>12 DEF RefsInv
<1>10. CASE StartDeviceExit
  <2>1. /\ thread[Main].at \in {"Exit", "ExitFailed"} /\ m_pCommon' = TRUE /\ thread' = [thread EXCEPT ![Main] = Idle]
        /\ UNCHANGED <<listVars, filters, m_AdapterInstances, common, installed>>
    BY <1>10 DEF StartDeviceExit
  <2>2. thread' \in [Threads -> Thread] /\ Moves(Main) /\ thread'[Main] = Idle
    BY <1>0, <2>1, Becomes, IdleThread
  <2>3. thread[Main].device = Adapter /\ common = "Live"
    BY <1>0, <2>1, PlaceNames DEF ControlInv, ThreadPlaces, AdapterLives
  <2>4. FilterTypes'
    BY <1>0, <2>1, <2>2 DEF FilterTypes, Thread, filters
  <2>5. AdapterLives'
    BY <1>0, <2>1, <2>2, <2>3, IdleThread, PlaceNames DEF ControlInv, AdapterLives, At
  <2> QED BY <2>1, <2>2, <2>3, <2>4, <2>5, IdleThread, MainMoves, PlaceNames
<1>11. CASE InstallAllRenderFilters \/ InstallAllCaptureFilters
  BY <1>4, <1>11 DEF InstallAllRenderFilters, InstallAllCaptureFilters
<1>12. CASE NewAdapterCommon
  BY <1>1, <1>2, <1>12 DEF NewAdapterCommon
<1> QED BY <1>3, <1>6, <1>7, <1>8, <1>9, <1>10, <1>11, <1>12 DEF StartDevice

LEMMA PnpHandlerStep ==
  ASSUME RefsInv, NEW next, PnpHandler(next)
  PROVE  RefsInv'
<1>1. PICK to : to = IF m_pCommon THEN "Cleanup" ELSE "Dispatch"
  OBVIOUS
<1>2. /\ thread[Main].at = "Idle" /\ Goto(Main, to) /\ to \in {"Cleanup", "Dispatch"}
      /\ UNCHANGED <<listVars, filters, m_AdapterInstances, common, m_pCommon, installed>>
  BY <1>1 DEF PnpHandler, At
<1>3. FilterTypes' /\ Moves(Main) /\ thread'[Main].at = to /\ thread'[Main].device = thread[Main].device
  BY <1>2, MainGoto, PlaceNames DEF filters
<1>4. (to = "Cleanup" => common = "Live") /\ (to = "Dispatch" => common # "Live")
  BY <1>1, <1>2 DEF RefsInv, ControlInv, AdapterLives, At
<1>5. AdapterLives'
  BY <1>2, <1>3, <1>4, PlaceNames DEF RefsInv, ControlInv, AdapterLives, At, filters
<1>6. common' # "Live" => Quiet
  BY <1>2 DEF RefsInv, ControlInv, CleanupWaits
<1> QED BY <1>2, <1>3, <1>5, <1>6, MainMoves, PlaceNames

\* A step of Cleanup that leaves the list and its objects alone.
LEMMA CleanupMoves ==
  ASSUME RefsInv, NEW from \in Cleaning, NEW to \in Cleaning, thread[Main].at = from, Goto(Main, to),
         from \notin Removal, to \notin Removal,
         UNCHANGED <<kind, pnp, enableCleanup, m_Devices, m_WorkTasks, object, m_PowerRelations, filters, adapterVars>>,
         to \in Awaiting => ~notification', to \in Flushing => pnp.at = "Idle",
         to \in Stopping => workItem' = "None" /\ m_WorkTasks = <<>> /\ CallbacksIdle,
         workItem' = workItem \/ m_WorkTasks = <<>>,
         Quiet => ~notification' /\ UNCHANGED workItem, to = "Empty" => Quiet
  PROVE  RefsInv'
<1>1. to \in MainPlaces /\ from # "Idle" /\ to # "Idle" /\ to # "Dispatch" /\ to \notin Starting
  BY PlaceNames
<1>2. FilterTypes' /\ Moves(Main) /\ thread'[Main].at = to /\ thread'[Main].device = thread[Main].device
  BY <1>1, MainGoto DEF filters, adapterVars
<1>3. common = "Live" /\ common' = "Live"
  BY DEF RefsInv, ControlInv, AdapterLives, adapterVars
<1>4. AdapterLives'
  BY <1>1, <1>2, <1>3 DEF RefsInv, ControlInv, AdapterLives, At, adapterVars
<1>5. thread'[Main].device # Adapter <=> to \in Removal
  BY <1>2 DEF RefsInv, ControlInv, ThreadPlaces
<1>6. ~enableCleanup' \/ to = "Empty" => Quiet'
  <2>1. ~enableCleanup \/ to = "Empty" => Quiet /\ ~notification' /\ UNCHANGED workItem
    BY DEF RefsInv, ControlInv, CleanupWaits
  <2> QED BY <1>2, <2>1, QuietStays
<1>7. ControlInv'
  BY <1>1, <1>2, <1>3, <1>4, <1>5, <1>6, MainGoes DEF RefsInv
<1>8. \A u \in Threads : thread'[u].device = thread[u].device
  BY <1>2 DEF Moves
<1>9. pnp' \in Notice
  BY DEF RefsInv, ListInv, ListTypes, Notice
<1>10. ListInv'
  BY <1>8, <1>9, ListFrame DEF RefsInv
<1> QED BY <1>7, <1>10 DEF RefsInv

\* Every step in which Cleanup takes a device, stops it or releases it.
LEMMA StoppingGoes ==
  ASSUME RefsInv, ListInv', FilterTypes', Moves(Main), NEW to \in Stopping, thread[Main].at \in Stopping,
         thread'[Main].at = to, thread'[Main].device # Adapter <=> to \in Removal,
         UNCHANGED <<pnp, m_WorkTasks, notification, enableCleanup, workItem, adapterVars>>,
         UNCHANGED m_Devices \/ m_Devices # <<>>
  PROVE  RefsInv'
<1>1. to \in MainPlaces /\ to \notin Starting \cup {"Empty", "Idle", "Dispatch"} /\ to \in Cleaning /\ to \in Awaiting /\ to \in Flushing
  BY PlaceNames
<1>2. thread[Main].at \in Awaiting /\ thread[Main].at \in Flushing /\ thread[Main].at \in Cleaning
  BY PlaceNames
<1>3. common = "Live" /\ common' = "Live"
  BY <1>2 DEF RefsInv, ControlInv, AdapterLives, adapterVars
<1>4. AdapterLives'
  BY <1>1, <1>3 DEF RefsInv, ControlInv, AdapterLives, At, adapterVars
<1>5. ~enableCleanup' => Quiet'
  <2>1. ~enableCleanup' => Quiet
    BY DEF RefsInv, ControlInv, CleanupWaits
  <2>2. Quiet => UNCHANGED m_Devices
    BY DEF Quiet
  <2> QED BY <2>1, <2>2, QuietStays
<1>6. ControlInv'
  BY <1>1, <1>2, <1>3, <1>4, <1>5, MainGoes DEF RefsInv, ControlInv, CleanupWaits, CallbacksIdle
<1> QED BY <1>6 DEF RefsInv

LEMMA CleanupSidebandStep ==
  ASSUME RefsInv, CleanupSideband("Empty"), UNCHANGED adapterVars
  PROVE  RefsInv'
<1>0. Main \in Threads /\ FilterTypes /\ ControlInv /\ ListInv /\ UNCHANGED installed
  BY Numbers DEF RefsInv, ControlInv, adapterVars
<1>q. Quiet => ~notification /\ workItem = "None" /\ m_Devices = <<>>
  BY DEF Quiet
<1>1. CASE CleanupUnregister
  <2>1. /\ notification' = FALSE
        /\ UNCHANGED <<kind, pnp, enableCleanup, workItem, m_Devices, m_WorkTasks, object, m_PowerRelations, filters>>
    BY <1>1 DEF CleanupUnregister, external, list
  <2>2. Quiet => ~notification' /\ UNCHANGED workItem
    BY <1>q, <2>1
  <2>3. CASE At(Main, "Unregister") /\ Goto(Main, "Await")
    BY <2>1, <2>2, <2>3, CleanupMoves, PlaceNames DEF At
  <2>4. CASE At(Main, "Await") /\ pnp.at = "Idle" /\ Goto(Main, "Flush")
    BY <2>1, <2>2, <2>4, CleanupMoves, PlaceNames DEF At
  <2> QED BY <1>1, <2>3, <2>4 DEF CleanupUnregister
<1>2. CASE CleanupFlush
  <2>1. /\ thread[Main].at = "Flush" /\ workItem # "Enqueued" /\ CallbacksIdle /\ Goto(Main, "StopAll") /\ workItem' = "None"
        /\ UNCHANGED <<kind, pnp, notification, enableCleanup, m_Devices, m_WorkTasks, object, m_PowerRelations, filters>>
    BY <1>2 DEF CleanupFlush, external, list, At, CallbacksIdle
  <2>2. m_WorkTasks = <<>> /\ ~notification /\ pnp.at = "Idle"
    BY <1>0, <2>1, PlaceNames DEF ControlInv, TasksServed, CleanupWaits, CallbacksIdle
  <2>3. Quiet => ~notification' /\ UNCHANGED workItem
    BY <1>q, <2>1
  <2> QED BY <2>1, <2>2, <2>3, CleanupMoves, PlaceNames
<1>3. CASE CleanupStop("Empty") /\ m_Devices = <<>>
  <2>1. /\ thread[Main].at = "StopAll" /\ Goto(Main, "Empty")
        /\ UNCHANGED <<kind, pnp, notification, enableCleanup, workItem, m_Devices, m_WorkTasks, object, m_PowerRelations, filters>>
    BY <1>3 DEF CleanupStop, external, list, At
  <2>2. Quiet /\ ~notification'
    BY <1>0, <1>3, <2>1, PlaceNames DEF ControlInv, CleanupWaits, Quiet
  <2> QED BY <2>1, <2>2, CleanupMoves, PlaceNames
<1>4. CASE CleanupStop("Empty") /\ m_Devices # <<>>
  <2>1. PICK d : d = Head(m_Devices)
    OBVIOUS
  <2>2. PICK p : p = [Idle EXCEPT !.at = "Disconnect", !.device = d, !.action = "Stop", !.endpoint = object[d].link]
    OBVIOUS
  <2>3. /\ thread[Main].at = "StopAll" /\ m_Devices' = Tail(m_Devices) /\ thread' = [thread EXCEPT ![Main] = p]
        /\ object' = [object EXCEPT ![d].m_State = "Stopping"]
        /\ UNCHANGED <<kind, pnp, notification, enableCleanup, workItem, m_WorkTasks, m_PowerRelations, filters>>
    BY <1>4, <2>1, <2>2 DEF CleanupStop, external, At
  <2>4. d \in Objects /\ object[d].link \in Names
    BY <1>0, <1>4, <2>1 DEF ListInv, ListTypes
  <2>5. p \in Thread /\ p.at = "Disconnect" /\ p.device = d
    BY <2>2, <2>4, IdleThread, PlaceNames DEF Thread, Owners
  <2>6. thread' \in [Threads -> Thread] /\ Moves(Main) /\ thread'[Main] = p
    BY <1>0, <2>3, <2>5, Becomes
  <2>7. FilterTypes'
    BY <1>0, <2>3, <2>6 DEF FilterTypes, Thread, filters
  <2>8. thread[Main].device = Adapter /\ pnp.at = "Idle"
    BY <1>0, <2>3, PlaceNames DEF ControlInv, ThreadPlaces, CleanupWaits
  <2>9. ListInv'
    BY <1>0, <1>4, <2>1, <2>3, <2>5, <2>6, <2>8, StopBegins
  <2>10. "Disconnect" \in Stopping /\ "Disconnect" \in Removal /\ "StopAll" \in Stopping /\ d # Adapter
    BY <2>4, PlaceNames, Numbers
  <2> QED BY <1>4, <2>3, <2>5, <2>6, <2>7, <2>9, <2>10, StoppingGoes
<1>5. CASE ReleaseTask(Main, "StopAll")
  <2>1. PICK d : d = thread[Main].device
    OBVIOUS
  <2>2. /\ thread[Main].at = "Release" /\ d \in Objects
        /\ UNCHANGED <<kind, pnp, notification, enableCleanup, workItem, m_Devices, m_WorkTasks, filters>>
    BY <1>0, <1>5, <2>1, PlaceNames DEF ReleaseTask, ControlInv, ThreadPlaces, At, FilterTypes, Owners, list, external
  <2>3. PICK p : p = [Idle EXCEPT !.at = "StopAll"]
    OBVIOUS
  <2>4. p \in Thread /\ p.at = "StopAll" /\ p.device = Adapter
    BY <2>3, IdleThread, PlaceNames DEF Thread
  <2>5. thread' \in [Threads -> Thread] /\ Moves(Main) /\ thread'[Main] = p
    BY <1>0, <1>5, <2>3, <2>4, Becomes DEF ReleaseTask
  <2>6. Exact(d) /\ object[d].refs # 0 /\ object[d].m_State \in States \ {"Unused", "Deleted"}
    <3>1. Exact(d) /\ object[d].refs # 0
      BY <1>0, <2>1, <2>2, RefsAre, Holders DEF ListInv
    <3> QED BY <1>0, <2>2, <3>1 DEF Exact, ListInv, ListTypes
  <2>7. PICK state : state = IF thread[Main].action = "Stop" THEN "Stopped"
                             ELSE IF thread[Main].ok THEN object[d].m_State ELSE "Failed"
    OBVIOUS
  <2>8. state \in States /\ state \notin {"Unused", "Deleted"}
    BY <2>6, <2>7 DEF States
  <2>9. IF object[d].refs = 1 THEN Release(d)
        ELSE /\ object' = [object EXCEPT ![d].refs = @ - 1, ![d].m_State = state]
             /\ UNCHANGED m_PowerRelations
    BY <1>5, <2>1, <2>7 DEF ReleaseTask
  <2>10. ListInv'
    BY <1>0, <2>1, <2>2, <2>4, <2>5, <2>8, <2>9, TaskDone
  <2>11. FilterTypes'
    BY <1>0, <2>2, <2>5 DEF FilterTypes, Thread, filters
  <2>12. "StopAll" \in Stopping /\ "StopAll" \notin Removal /\ "Release" \in Stopping
    BY PlaceNames
  <2> QED BY <2>2, <2>4, <2>5, <2>10, <2>11, <2>12, StoppingGoes
<1>6. CASE (RemoveDisconnect(Main, "Release") \/ RemoveWave(Main) \/ RemoveTopology(Main, "Release")) /\ UNCHANGED listVars
  <2>1. PICK from \in Removal, to \in Removal : Goes(Main, from, to)
    BY <1>0, <1>6, RemoveSteps, PlaceNames
  <2>2. FilterTypes'
    BY <1>0, <1>6, RemoveSteps
  <2>3. /\ Moves(Main) /\ thread[Main].at = from /\ thread'[Main].at = to /\ thread'[Main].device = thread[Main].device
    BY <2>1 DEF Goes
  <2>4. thread'[Main].device # Adapter <=> to \in Removal
    BY <1>0, <2>1, <2>3 DEF ControlInv, ThreadPlaces
  <2>5. from \in Stopping /\ to \in Stopping
    BY <2>1, PlaceNames
  <2>6. UNCHANGED <<kind, pnp, notification, enableCleanup, workItem, m_Devices, m_WorkTasks, object, m_PowerRelations>>
    BY <1>6 DEF listVars, external
  <2>7. \A u \in Threads : thread'[u].device = thread[u].device
    BY <2>3 DEF Moves
  <2>8. pnp' \in Notice
    BY <1>0, <2>6 DEF ListInv, ListTypes, Notice
  <2>9. ListInv'
    BY <1>0, <2>6, <2>7, <2>8, ListFrame
  <2> QED BY <2>2, <2>3, <2>4, <2>5, <2>6, <2>9, StoppingGoes
<1> QED BY <1>1, <1>2, <1>3, <1>4, <1>5, <1>6 DEF CleanupSideband

LEMMA RemovingStep ==
  ASSUME RefsInv, Removing
  PROVE  RefsInv'
<1>0. Main \in Threads /\ FilterTypes /\ ControlInv /\ ListInv
  BY Numbers DEF RefsInv, ControlInv
<1>1. CASE At(Main, "Cleanup") /\ Goto(Main, IF enableCleanup THEN "Unregister" ELSE "Empty")
           /\ UNCHANGED <<listVars, filters, adapterVars>>
  <2>1. UNCHANGED <<kind, pnp, notification, enableCleanup, workItem, m_Devices, m_WorkTasks, object, m_PowerRelations>>
    BY <1>1 DEF listVars, external
  <2>2. ~enableCleanup => Quiet
    BY <1>0 DEF ControlInv, CleanupWaits
  <2>3. PICK to : to = IF enableCleanup THEN "Unregister" ELSE "Empty"
    OBVIOUS
  <2>4. /\ to \in Cleaning /\ to \notin Removal /\ to \notin Awaiting /\ to \notin Flushing /\ to \notin Stopping
        /\ "Cleanup" \in Cleaning /\ "Cleanup" \notin Removal /\ (to = "Empty" => Quiet)
        /\ Quiet => ~notification' /\ UNCHANGED workItem
    BY <2>1, <2>2, <2>3, PlaceNames DEF Quiet
  <2> QED BY <1>1, <2>1, <2>3, <2>4, CleanupMoves DEF At
<1>2. CASE (CleanupBthScoBypass \/ CleanupUsbSideband) /\ UNCHANGED adapterVars
  BY <1>2, CleanupSidebandStep DEF CleanupBthScoBypass, CleanupUsbSideband
<1>3. CASE /\ At(Main, "Empty") /\ Goto(Main, "Dispatch") /\ EmptySubdeviceCache
           /\ m_pCommon' = FALSE /\ common' = "Released"
           /\ UNCHANGED <<listVars, registered, connected, unknown, driverVars, device, m_AdapterInstances, installed>>
  <2>1. FilterTypes' /\ Moves(Main) /\ thread'[Main].at = "Dispatch" /\ thread'[Main].device = thread[Main].device
    BY <1>3, MainGoto, PlaceNames DEF EmptySubdeviceCache
  <2>2. Quiet /\ common = "Live" /\ thread[Main].at = "Empty"
    BY <1>0, <1>3, PlaceNames DEF ControlInv, CleanupWaits, AdapterLives, At
  <2>3. AdapterLives'
    BY <1>0, <1>3, <2>1, <2>2, PlaceNames DEF ControlInv, AdapterLives, At, EmptySubdeviceCache
  <2> QED BY <1>3, <2>1, <2>2, <2>3, MainMoves, PlaceNames
<1>4. CASE PcDispatchIrp
  <2>1. /\ thread[Main].at = "Dispatch" /\ thread' = [thread EXCEPT ![Main] = Idle] /\ registered' = {} /\ connected' = {}
        /\ UNCHANGED <<listVars, m_SubdeviceCache, unknown, adapterVars>>
    BY <1>4 DEF PcDispatchIrp, At
  <2>2. thread' \in [Threads -> Thread] /\ Moves(Main) /\ thread'[Main] = Idle
    BY <1>0, <2>1, Becomes, IdleThread
  <2>3. thread[Main].device = Adapter /\ common # "Live" /\ Quiet
    BY <1>0, <2>1, PlaceNames DEF ControlInv, ThreadPlaces, AdapterLives, At, CleanupWaits
  <2>4. FilterTypes'
    BY <1>0, <2>1, <2>2 DEF FilterTypes, Thread, adapterVars
  <2>5. AdapterLives'
    BY <1>0, <2>1, <2>2, <2>3, IdleThread, PlaceNames DEF ControlInv, AdapterLives, At, adapterVars
  <2> QED BY <2>1, <2>2, <2>3, <2>4, <2>5, IdleThread, MainMoves, PlaceNames
<1> QED BY <1>1, <1>2, <1>3, <1>4 DEF Removing, Cleanup

\* The other steps change nothing that RefsInv is about but the life of the adapter.
LEMMA OtherStep ==
  ASSUME RefsInv, UNCHANGED <<subdeviceVars, listVars, m_pCommon, installed>>,
         \/ UNCHANGED <<common, m_AdapterInstances>>
         \/ common = "Released" /\ common' = "None"
  PROVE  RefsInv'
<1>1. PICK to : to = thread[Main].at
  OBVIOUS
<1>2. UNCHANGED <<thread, filters>>
  BY DEF subdeviceVars
<1>3. Moves(Main) /\ to \in MainPlaces /\ thread'[Main].at = to
  BY <1>1, <1>2 DEF RefsInv, ControlInv, ThreadPlaces, MainPlaces, Moves
<1>4. FilterTypes' /\ AdapterLives'
  BY <1>2 DEF RefsInv, ControlInv, FilterTypes, AdapterLives, At, filters
<1>5. (common' # "Live" \/ to \in Starting \cup {"Empty"}) => Quiet
  BY <1>1 DEF RefsInv, ControlInv, CleanupWaits
<1> QED BY <1>1, <1>2, <1>3, <1>4, <1>5, MainMoves

\* RefsInv holds of a driver that is not loaded, and every step keeps it.
THEOREM RefsInvariance == Spec => []RefsInv
<1>1. Init => RefsInv
  <2> SUFFICES ASSUME Init PROVE RefsInv
    OBVIOUS
  <2>1. /\ thread = [t \in Threads |-> Idle] /\ pnp = NoNotice /\ object = [d \in Objects |-> Unused]
        /\ unknown = [d \in Objects |-> <<NoSubdevice, NoSubdevice>>] /\ installed = 0
        /\ m_Devices = <<>> /\ m_WorkTasks = <<>> /\ m_PowerRelations = {}
        /\ m_SubdeviceCache = {} /\ registered = {} /\ connected = {}
        /\ notification = FALSE /\ enableCleanup = FALSE /\ workItem = "None"
        /\ m_AdapterInstances = 0 /\ common = "None" /\ m_pCommon = FALSE
    BY DEF Init, SubdeviceInit, SidebandListInit
  <2>2. PICK e : e = <<>>
    OBVIOUS
  <2>3. e \in Seq(Objects) /\ e \in Seq(Tasks) /\ DOMAIN e = {}
    BY <2>2
  <2>4. Unused \in Object /\ Unused.refs = 0 /\ Unused.m_State = "Unused"
    BY DEF Unused, Object, Names, States
  <2>5. m_Devices = e /\ m_WorkTasks = e
    BY <2>1, <2>2
  <2>6. ListTypes
    BY <2>1, <2>3, <2>4, <2>5, NoNoticeIs DEF ListTypes, Object, Notice
  <2>7. ListSound /\ OnePerLink
    BY <2>1, <2>3, <2>5, NoNoticeIs DEF ListSound, OnePerLink
  <2>8. DependenciesHeld
    BY <2>1 DEF DependenciesHeld
  <2>9. ASSUME NEW d \in Objects PROVE Exact(d)
    <3>1. TasksFor(d) = {}
      BY <2>3, <2>5 DEF TasksFor
    <3>2. ThreadsFor(d) = {}
      BY <2>1, IdleThread, Numbers DEF ThreadsFor
    <3>3. Held(Listed(d)) = 0 /\ Held(pnp.device = d) = 0
      BY <2>1, <2>3, <2>5, NoNoticeIs, Numbers DEF Held, Listed
    <3>4. Cardinality(TasksFor(d)) = 0 /\ Cardinality(ThreadsFor(d)) = 0
      BY <3>1, <3>2, FS_EmptySet
    <3>5. Count(d) = 0
      BY <3>3, <3>4 DEF Count
    <3> QED BY <2>1, <2>4, <3>5 DEF Exact
  <2>10. ListInv
    BY <2>6, <2>7, <2>8, <2>9, RefsAre DEF ListInv
  <2>11. NoSubdevice \in Subs
    BY DEF NoSubdevice, Subs, Names, Owners
  <2>12. installed \in 0 .. Len(AllEndpoints)
    BY <2>1, EndpointsAssumption DEF AllEndpoints
  <2>13. FilterTypes
    BY <2>1, <2>11, <2>12, IdleThread DEF FilterTypes, Thread
  <2>14. \A t \in Threads : thread[t].at = "Idle" /\ thread[t].device = Adapter
    BY <2>1, IdleThread
  <2>15. ThreadPlaces
    BY <2>14, Numbers, PlaceNames DEF ThreadPlaces
  <2>16. AdapterLives
    BY <2>1, <2>14, Numbers, PlaceNames DEF AdapterLives, At
  <2>17. Quiet
    BY <2>1, <2>14, Numbers, NoNoticeIs DEF Quiet, At
  <2>18. CleanupWaits /\ TasksServed
    BY <2>17 DEF CleanupWaits, TasksServed, Quiet
  <2> QED BY <2>10, <2>13, <2>15, <2>16, <2>18 DEF RefsInv, ControlInv
<1>2. RefsInv /\ [Next]_vars => RefsInv'
  <2> SUFFICES ASSUME RefsInv, [Next]_vars PROVE RefsInv'
    OBVIOUS
  <2>1. CASE DriverEntry \/ DriverUnload \/ AddDevice \/ AdapterDeleted \/ UNCHANGED vars
    BY <2>1, OtherStep DEF DriverEntry, DriverUnload, AddDevice, AdapterDeleted, vars, adapterVars
  <2>2. CASE \E l \in Links, e \in {"Arrival", "Removal"} : Notify(e, l)
    BY <2>2, NotifyStep
  <2>3. CASE \E t \in Callbacks : Working(t)
    BY <2>3, WorkingStep
  <2>4. CASE PnpHandler("Stopped") \/ PnpHandler("Absent")
    BY <2>4, PnpHandlerStep
  <2> QED BY <2>1, <2>2, <2>3, <2>4, StartStep, RemovingStep, NotifiedStep DEF Next
<1> QED BY <1>1, <1>2, PTL DEF Spec

\* Every reference a device counts has a holder and every holder is counted,
\* for any number of devices, links and callbacks, whatever fails and however
\* arrivals, removals, tasks and the removal of the adapter interleave. So
\* Release deletes a device exactly when nobody can reach it.
THEOREM ReferencesAreExact == Spec => []RefsExact
<1>1. RefsInv => RefsExact
  BY DEF RefsInv, ListInv
<1> QED BY <1>1, RefsInvariance, PTL

\* When Cleanup has emptied the cache and released the adapter, no sideband
\* device, task, callback, filter or power dependency is left.
THEOREM CleanupLeavesNothing == Spec => []CleanIsEmpty
<1>1. RefsInv => CleanIsEmpty
  <2> SUFFICES ASSUME RefsInv, common # "Live" PROVE CleanIsEmpty
    BY DEF CleanIsEmpty
  <2>1. Quiet /\ ListInv /\ ListTypes
    BY DEF RefsInv, ControlInv, CleanupWaits, ListInv
  <2>2. \A t \in Threads : thread[t].device = Adapter
    <3>1. thread[Main].device = Adapter
      BY PlaceNames DEF RefsInv, ControlInv, AdapterLives, ThreadPlaces
    <3>2. \A t \in Callbacks : thread[t].device = Adapter
      BY <2>1 DEF RefsInv, ControlInv, ThreadPlaces, Quiet, At
    <3> QED BY <3>1, <3>2, Numbers
  <2>3. pnp.device = Adapter /\ \A d : ~Listed(d) /\ TasksFor(d) = {}
    <3>1. pnp.device = Adapter
      BY <2>1 DEF Quiet, ListInv, ListSound
    <3>2. m_Devices = <<>> /\ m_WorkTasks = <<>>
      BY <2>1 DEF Quiet
    <3>3. DOMAIN m_Devices = {}
      BY <3>2
    <3> QED BY <3>1, <3>2, <3>3, NoTasks DEF Listed
  <2>4. ASSUME NEW d \in Objects PROVE object[d].refs = 0 /\ object[d].m_State \in {"Unused", "Deleted"}
    <3>1. Exact(d)
      BY <2>1, RefsAre DEF ListInv
    <3>2. object[d].refs = 0
      BY <2>1, <2>2, <2>3, <3>1, Numbers, Holders
    <3> QED BY <3>1, <3>2 DEF Exact
  <2>5. m_PowerRelations = {}
    <3>1. \A e \in m_PowerRelations : e.of \in Objects /\ object[e.of].refs # 0
      BY <2>1 DEF ListInv, ListTypes, DependenciesHeld
    <3> QED BY <2>4, <3>1
  <2>6. m_SubdeviceCache = {}
    BY DEF RefsInv, ControlInv, AdapterLives
  <2> QED BY <2>1, <2>4, <2>5, <2>6 DEF CleanIsEmpty, Quiet
<1> QED BY <1>1, RefsInvariance, PTL

\* However often an interface is reported, the list has one device for it
\* (BthHfpDeviceFind and UsbHsDeviceFind before the insertion).
THEOREM OneDevicePerLink == Spec => []OnePerLink
<1>1. RefsInv => OnePerLink
  BY DEF RefsInv, ListInv
<1> QED BY <1>1, RefsInvariance, PTL

\* A power dependency is of a device that is not deleted, so that
\* RemoveDeviceAsPowerDependency is called for every one that was added.
THEOREM PowerFollowsDevices == Spec => []DependenciesLive
<1>1. RefsInv => DependenciesLive
  <2> SUFFICES ASSUME RefsInv, NEW e \in m_PowerRelations PROVE object[e.of].m_State # "Deleted"
    BY DEF DependenciesLive
  <2>1. e.of \in Objects /\ object[e.of].refs # 0
    BY DEF RefsInv, ListInv, ListTypes, DependenciesHeld
  <2>2. Exact(e.of)
    BY <2>1, RefsAre DEF RefsInv, ListInv
  <2> QED BY <2>1, <2>2 DEF Exact
<1> QED BY <1>1, RefsInvariance, PTL

(***************************************************************************)
(* One worker at a time                                                    *)
(***************************************************************************)

Order == ThreadTasks /\ TasksInOrder /\ StopComesFirst
Filtered == RegisteredKnown /\ MadeAlone /\ ConnectedKnown /\ WaveGone

\* No other thread works for a device or on filters.
Alone(t) == \A u \in Threads \ {t} : thread[u].device = Adapter /\ thread[u].at \notin Installing \cup Removal

LEMMA WorkPlaces ==
  /\ Installing = {"Topology", "Wave", "Connect"} /\ Installing \subseteq Starting
  /\ RemovingFilters = {"Disconnect", "RemoveWave", "RemoveTopology"} /\ RemovingFilters \subseteq Removal
  /\ Removal = {"Disconnect", "RemoveWave", "RemoveTopology", "Release"}
  BY DEF Installing, RemovingFilters, Starting, Removal

LEMMA AloneWhen ==
  ASSUME RefsInv, ThreadTasks, NEW t \in Threads,
         \/ t \in Callbacks /\ ~At(t, "Idle")
         \/ t = Main /\ (thread[Main].at \in Starting \cup Stopping \/ common # "Live")
  PROVE  Alone(t) /\ (t \in Callbacks => t = 1)
<1>1. ControlInv /\ ThreadPlaces
  BY DEF RefsInv, ControlInv
<1>2. \A u \in Callbacks : At(u, "Idle") => thread[u].device = Adapter /\ thread[u].at \notin Installing \cup Removal
  BY <1>1, WorkPlaces DEF ThreadPlaces, At
<1>3. CASE t \in Callbacks /\ ~At(t, "Idle")
  <2>1. Live
    BY <1>1, <1>3, LiveWhen
  <2>2. thread[Main].at \notin Installing \cup Removal /\ thread[Main].device = Adapter
    BY <1>1, <2>1, WorkPlaces, PlaceNames DEF Live, ThreadPlaces
  <2>3. t = 1 /\ \A u \in Callbacks \ {t} : At(u, "Idle")
    BY <1>3 DEF ThreadTasks
  <2> QED BY <1>2, <2>2, <2>3, Numbers DEF Alone
<1>4. CASE t = Main /\ (thread[Main].at \in Starting \cup Stopping \/ common # "Live")
  <2>1. \A u \in Callbacks : At(u, "Idle")
    BY <1>1, <1>4 DEF ControlInv, CleanupWaits, Quiet
  <2> QED BY <1>2, <1>4, <2>1, Numbers DEF Alone
<1> QED BY <1>3, <1>4

LEMMA AloneNext ==
  ASSUME NEW t \in Threads, Alone(t), Moves(t)
  PROVE  Alone(t)'
  BY DEF Alone, Moves

\* What the work of one thread says of the tasks that run.
LEMMA RunsOf ==
  ASSUME NEW t \in Threads, Alone(t)
  PROVE  \A d \in Objects, a \in {"Start", "Stop"} : Runs(d, a) <=> thread[t].device = d /\ thread[t].action = a
  BY Numbers DEF Alone, Runs

LEMMA RunsOfNext ==
  ASSUME NEW t \in Threads, Alone(t)'
  PROVE  \A d \in Objects, a \in {"Start", "Stop"} : Runs(d, a)' <=> thread'[t].device = d /\ thread'[t].action = a
  BY Numbers DEF Alone, Runs

LEMMA RunsSame ==
  ASSUME NEW t \in Threads, Moves(t), thread'[t].device = thread[t].device,
         thread[t].device \in Objects => thread'[t].action = thread[t].action
  PROVE  \A d \in Objects : \A a : Runs(d, a)' <=> Runs(d, a)
<1>1. \A d \in Objects : \A a : \A u \in Threads :
        (thread'[u].device = d /\ thread'[u].action = a) <=> (thread[u].device = d /\ thread[u].action = a)
  BY DEF Moves
<1> QED BY <1>1 DEF Runs

\* What ThreadTasks says of a thread, of the thread of StartDevice, and of links.
TaskOf(t) ==
  thread[t].device \in Objects =>
    /\ thread[t].action # "None"
    /\ thread[t].at \in Installing => thread[t].action = "Start" /\ Bare(thread[t].device)
    /\ thread[t].at \in RemovingFilters => thread[t].action = "Stop"
    /\ thread[t].at = "Release" /\ thread[t].action = "Stop" => Bare(thread[t].device)
    /\ thread[t].at # "Release" => thread[t].endpoint = object[thread[t].device].link
EndpointOf == thread[Main].at \in Installing => installed > 0 /\ thread[Main].endpoint = AllEndpoints[installed]
LinksKnown == \A d \in Objects : object[d].m_State # "Unused" => object[d].link \in Links

LEMMA ThreadTasksAre ==
  ThreadTasks <=> /\ \A t \in Callbacks : t = 1 \/ At(t, "Idle")
                  /\ \A t \in Threads : TaskOf(t)
                  /\ EndpointOf /\ LinksKnown
  BY DEF ThreadTasks, TaskOf, EndpointOf, LinksKnown

LEMMA ThreadTasksNext ==
  ASSUME NEW t \in Threads, ThreadTasks, Alone(t), Moves(t), t \in Callbacks => t = 1,
         TaskOf(t)', t = Main => EndpointOf', LinksKnown'
  PROVE  ThreadTasks'
<1>1. \A u \in Callbacks : u = 1 \/ At(u, "Idle")'
  BY Numbers DEF ThreadTasks, Moves, At
<1>2. \A u \in Threads : TaskOf(u)'
  <2>1. \A u \in Threads \ {t} : thread'[u].device = Adapter
    BY DEF Alone, Moves
  <2> QED BY <2>1, Numbers DEF TaskOf
<1>3. EndpointOf'
  <2>1. t # Main => thread'[Main].at \notin Installing
    BY Numbers DEF Alone, Moves
  <2> QED BY <2>1 DEF EndpointOf
<1> QED BY <1>1, <1>2, <1>3 DEF ThreadTasks, TaskOf, EndpointOf, LinksKnown

LEMMA TaskIs ==
  ASSUME NEW q \in Seq(Tasks)
  PROVE  \A i \in DOMAIN q : q[i] \in Tasks /\ q[i].device \in Objects /\ q[i].action \in {"Start", "Stop"}
<1>1. \A x \in Tasks : x.device \in Objects /\ x.action \in {"Start", "Stop"}
  BY DEF Tasks
<1>2. \A i \in DOMAIN q : q[i] \in Tasks
  OBVIOUS
<1> QED BY <1>1, <1>2

(***************************************************************************)
(* The order of the tasks                                                  *)
(***************************************************************************)

\* A thread goes on with what it does, or begins or ends without a device.
LEMMA OrderStays ==
  ASSUME RefsInv, Order, NEW t \in Threads, Moves(t), thread'[t].device = thread[t].device,
         thread[t].device \in Objects => thread'[t].action = thread[t].action,
         UNCHANGED <<m_WorkTasks, m_Devices, object, pnp>>,
         \A d \in Objects : ~Bare(d)' => ~Bare(d) \/ Runs(d, "Start")
  PROVE  TasksInOrder' /\ StopComesFirst'
<1>1. \A d \in Objects : \A a : Runs(d, a)' <=> Runs(d, a)
  BY RunsSame
<1>2. \A d, a : Queued(d, a)' <=> Queued(d, a)
  BY DEF Queued
<1>3. \A d \in Objects : ~Bare(d)' => ~Bare(d) \/ Runs(d, "Start")
  OBVIOUS
<1>4. \A d \in Objects : (InUse(d)' => InUse(d)) /\ (ToStop(d)' <=> ToStop(d)) /\ (Listed(d)' <=> Listed(d))
  BY <1>1, <1>2, <1>3 DEF InUse, ToStop, Listed
<1>5. m_WorkTasks \in Seq(Tasks) /\ \A i \in DOMAIN m_WorkTasks : m_WorkTasks[i].device \in Objects
  <2>1. m_WorkTasks \in Seq(Tasks)
    BY DEF RefsInv, ListInv, ListTypes
  <2> QED BY <2>1, TaskIs
<1>6. pnp.at = "Insert" => pnp.device \in Objects
  BY Numbers DEF RefsInv, ListInv, ListTypes, ListSound, Owners
<1>7. TasksInOrder'
  <2>1. ASSUME NEW i \in DOMAIN m_WorkTasks, m_WorkTasks[i].action = "Start"
        PROVE  /\ Bare(m_WorkTasks[i].device)' /\ \A u \in Threads : thread'[u].device # m_WorkTasks[i].device
               /\ \A j \in 1 .. i - 1 : m_WorkTasks[j].device # m_WorkTasks[i].device
    <3>1. /\ Bare(m_WorkTasks[i].device) /\ \A u \in Threads : thread[u].device # m_WorkTasks[i].device
          /\ \A j \in 1 .. i - 1 : m_WorkTasks[j].device # m_WorkTasks[i].device
      BY <2>1 DEF Order, TasksInOrder
    <3>2. \A u \in Threads : thread'[u].device = thread[u].device
      BY DEF Moves
    <3>3. Bare(m_WorkTasks[i].device)'
      <4>1. PICK d \in Objects : d = m_WorkTasks[i].device
        BY <1>5
      <4>2. Bare(d) /\ ~Runs(d, "Start")
        BY <3>1, <4>1 DEF Runs, Bare
      <4> QED BY <1>3, <4>1, <4>2 DEF Bare
    <3> QED BY <3>1, <3>2, <3>3
  <2>2. /\ pnp.at # "Idle" => pnp.link \in Links
        /\ pnp.at = "Insert" =>
             ~InUse(pnp.device)' /\ ~ToStop(pnp.device)' /\ object[pnp.device].m_State # "Stopped"
    BY <1>4, <1>6 DEF Order, TasksInOrder
  <2>3. \A d \in Objects : InUse(d)' => (Listed(d)' \/ ToStop(d)') /\ object[d].m_State # "Stopped"
    BY <1>4 DEF Order, TasksInOrder
  <2>4. pnp' = pnp /\ object' = object /\ m_WorkTasks' = m_WorkTasks
    OBVIOUS
  <2>5. \A i \in DOMAIN m_WorkTasks' : m_WorkTasks'[i].action = "Start" =>
         /\ Bare(m_WorkTasks[i].device)' /\ \A u \in Threads : thread'[u].device # m_WorkTasks'[i].device
         /\ \A j \in 1 .. i - 1 : m_WorkTasks'[j].device # m_WorkTasks'[i].device
    BY <2>1, <2>4
  <2> QED BY <2>2, <2>3, <2>4, <2>5 DEF TasksInOrder
<1>8. StopComesFirst'
  BY <1>1, <1>3 DEF Order, StopComesFirst
<1> QED BY <1>7, <1>8

\* The same for a thread that works alone.
LEMMA OrderKept ==
  ASSUME RefsInv, Order, NEW t \in Threads, Alone(t), Moves(t), thread'[t].device = thread[t].device,
         thread[t].device \in Objects => thread'[t].action = thread[t].action,
         UNCHANGED <<m_WorkTasks, m_Devices, object, pnp>>,
         \A d \in Objects : d # thread[t].device => Bare(d)' = Bare(d),
         thread[t].device \in Objects => Bare(thread[t].device)' \/ ~Bare(thread[t].device)
                                         \/ thread[t].action = "Start"
  PROVE  TasksInOrder' /\ StopComesFirst'
<1>1. \A d \in Objects : Runs(d, "Start") <=> thread[t].device = d /\ thread[t].action = "Start"
  BY RunsOf
<1>2. \A d \in Objects : ~Bare(d)' => ~Bare(d) \/ Runs(d, "Start")
  BY <1>1
<1> QED BY <1>2, OrderStays

\* How the queue changes.
LEMMA QueueType ==
  ASSUME RefsInv
  PROVE  /\ m_WorkTasks \in Seq(Tasks)
         /\ \A i \in DOMAIN m_WorkTasks : m_WorkTasks[i] \in Tasks /\ m_WorkTasks[i].device \in Objects
                                          /\ m_WorkTasks[i].action \in {"Start", "Stop"}
<1>1. m_WorkTasks \in Seq(Tasks)
  BY DEF RefsInv, ListInv, ListTypes
<1> QED BY <1>1, TaskIs

LEMMA QueueTail ==
  ASSUME RefsInv, m_WorkTasks # <<>>, m_WorkTasks' = Tail(m_WorkTasks), NEW n, n = Len(m_WorkTasks)
  PROVE  /\ n \in Nat \ {0} /\ DOMAIN m_WorkTasks = 1 .. n /\ DOMAIN m_WorkTasks' = 1 .. n - 1
         /\ Head(m_WorkTasks) = m_WorkTasks[1]
         /\ \A i \in 1 .. n - 1 : m_WorkTasks'[i] = m_WorkTasks[i + 1]
  BY QueueType, HeadTailProperties

LEMMA QueueAppend ==
  ASSUME RefsInv, NEW x \in Tasks, m_WorkTasks' = Append(m_WorkTasks, x), NEW n, n = Len(m_WorkTasks)
  PROVE  /\ n \in Nat /\ DOMAIN m_WorkTasks = 1 .. n /\ DOMAIN m_WorkTasks' = 1 .. n + 1
         /\ m_WorkTasks'[n + 1] = x
         /\ \A i \in 1 .. n : m_WorkTasks'[i] = m_WorkTasks[i]
  BY QueueType

\* A thread takes a task.
LEMMA OrderTaken ==
  ASSUME RefsInv, Order, NEW t \in Threads, Alone(t), Moves(t), thread[t].device = Adapter,
         m_WorkTasks # <<>>, m_WorkTasks' = Tail(m_WorkTasks),
         thread'[t].device = Head(m_WorkTasks).device, thread'[t].action = Head(m_WorkTasks).action,
         UNCHANGED <<m_Devices, pnp, unknown>>,
         \A d \in Objects : object'[d].link = object[d].link
                            /\ object'[d].m_State \in {object[d].m_State, "Stopping"}
  PROVE  TasksInOrder' /\ StopComesFirst'
<1>1. PICK n : n = Len(m_WorkTasks)
  OBVIOUS
<1>2. PICK c : c = m_WorkTasks[1]
  OBVIOUS
<1>3. /\ n \in Nat \ {0} /\ DOMAIN m_WorkTasks = 1 .. n /\ DOMAIN m_WorkTasks' = 1 .. n - 1
      /\ Head(m_WorkTasks) = c /\ \A i \in 1 .. n - 1 : m_WorkTasks'[i] = m_WorkTasks[i + 1]
  BY <1>1, <1>2, QueueTail
<1>4. c \in Tasks /\ c.device \in Objects /\ c.action \in {"Start", "Stop"}
  BY <1>2, <1>3, QueueType
<1>5. \A i \in 1 .. n : m_WorkTasks[i].device \in Objects /\ m_WorkTasks[i].action \in {"Start", "Stop"}
  BY <1>3, QueueType
<1>6. Alone(t)'
  BY AloneNext
<1>7. \A d \in Objects, a \in {"Start", "Stop"} :
        ~Runs(d, a) /\ (Runs(d, a)' <=> d = c.device /\ a = c.action)
  BY <1>3, <1>6, RunsOf, RunsOfNext, Numbers
<1>8. \A d \in Objects, a \in {"Start", "Stop"} : Queued(d, a) <=> Queued(d, a)' \/ (d = c.device /\ a = c.action)
  <2> SUFFICES ASSUME NEW d \in Objects, NEW a \in {"Start", "Stop"}
               PROVE  Queued(d, a) <=> Queued(d, a)' \/ (d = c.device /\ a = c.action)
    OBVIOUS
  <2>1. Queued(d, a)' => Queued(d, a)
    <3>1. ASSUME NEW i \in 1 .. n - 1, m_WorkTasks'[i].device = d, m_WorkTasks'[i].action = a
          PROVE  Queued(d, a)
      <4>1. i + 1 \in DOMAIN m_WorkTasks /\ m_WorkTasks[i + 1].device = d /\ m_WorkTasks[i + 1].action = a
        BY <1>3, <3>1
      <4> QED BY <4>1 DEF Queued
    <3> QED BY <1>3, <3>1 DEF Queued
  <2>2. d = c.device /\ a = c.action => Queued(d, a)
    BY <1>2, <1>3 DEF Queued
  <2>3. Queued(d, a) => Queued(d, a)' \/ (d = c.device /\ a = c.action)
    <3>1. ASSUME NEW i \in 1 .. n, m_WorkTasks[i].device = d, m_WorkTasks[i].action = a, i # 1
          PROVE  Queued(d, a)'
      <4>1. i - 1 \in DOMAIN m_WorkTasks' /\ m_WorkTasks'[i - 1] = m_WorkTasks[i]
        BY <1>3, <3>1
      <4> QED BY <3>1, <4>1 DEF Queued
    <3> QED BY <1>2, <1>3, <3>1 DEF Queued
  <2> QED BY <2>1, <2>2, <2>3
<1>9. \A d \in Objects : Bare(d)' = Bare(d)
  BY DEF Bare
<1>10. \A d \in Objects : (InUse(d)' => InUse(d)) /\ (ToStop(d)' <=> ToStop(d)) /\ (Listed(d)' <=> Listed(d))
  BY <1>4, <1>7, <1>8, <1>9 DEF InUse, ToStop, Listed
<1>11. pnp.at = "Insert" => pnp.device \in Objects
  BY Numbers DEF RefsInv, ListInv, ListTypes, ListSound, Owners
<1>12. ASSUME NEW i \in 1 .. n - 1, m_WorkTasks'[i].action = "Start"
       PROVE  /\ Bare(m_WorkTasks[i].device)' /\ \A u \in Threads : thread'[u].device # m_WorkTasks'[i].device
              /\ \A j \in 1 .. i - 1 : m_WorkTasks'[j].device # m_WorkTasks'[i].device
  <2>1. PICK k : k = i + 1
    OBVIOUS
  <2>2. k \in 2 .. n /\ m_WorkTasks'[i] = m_WorkTasks[k]
    BY <1>3, <2>1
  <2>3. /\ Bare(m_WorkTasks[k].device) /\ \A u \in Threads : thread[u].device # m_WorkTasks[k].device
        /\ \A j \in 1 .. k - 1 : m_WorkTasks[j].device # m_WorkTasks[k].device
    BY <1>3, <1>12, <2>2 DEF Order, TasksInOrder
  <2>4. c.device # m_WorkTasks[k].device
    BY <1>2, <2>2, <2>3
  <2>5. \A u \in Threads : thread'[u].device # m_WorkTasks[k].device
    BY <1>3, <2>3, <2>4 DEF Moves
  <2>6. \A j \in 1 .. i - 1 : m_WorkTasks'[j].device # m_WorkTasks[k].device
    <3>1. \A j \in 1 .. i - 1 : j + 1 \in 1 .. k - 1 /\ m_WorkTasks'[j] = m_WorkTasks[j + 1]
      BY <1>3, <2>1
    <3> QED BY <2>3, <3>1
  <2> QED BY <1>5, <2>2, <2>3, <2>5, <2>6 DEF Bare
<1>13. TasksInOrder'
  <2>1. /\ pnp'.at # "Idle" => pnp'.link \in Links
        /\ pnp'.at = "Insert" =>
             ~InUse(pnp.device)' /\ ~ToStop(pnp.device)' /\ object'[pnp'.device].m_State # "Stopped"
    BY <1>10, <1>11 DEF Order, TasksInOrder
  <2>2. \A d \in Objects : InUse(d)' => (Listed(d)' \/ ToStop(d)') /\ object'[d].m_State # "Stopped"
    BY <1>10 DEF Order, TasksInOrder
  <2>3. pnp' = pnp
    OBVIOUS
  <2> QED BY <1>3, <1>12, <2>1, <2>2, <2>3 DEF TasksInOrder
<1>14. ASSUME NEW j \in 1 .. n - 1, NEW d \in Objects \ {m_WorkTasks'[j].device}, m_WorkTasks'[j].action = "Start",
              object'[d].link = object'[m_WorkTasks'[j].device].link,
              ~Bare(d)' \/ Runs(d, "Start")' \/ \E k \in 1 .. j - 1 : m_WorkTasks'[k].device = d
       PROVE  Runs(d, "Stop")' \/ \E i \in 1 .. j - 1 : m_WorkTasks'[i] = [device |-> d, action |-> "Stop"]
  <2>1. PICK m : m = j + 1
    OBVIOUS
  <2>2. m \in 2 .. n /\ m_WorkTasks'[j] = m_WorkTasks[m] /\ m_WorkTasks[m].device \in Objects
    BY <1>3, <1>5, <2>1
  <2>3. ~Bare(d) \/ \E k \in 1 .. m - 1 : m_WorkTasks[k].device = d
    <3>1. CASE Runs(d, "Start")'
      <4>1. 1 \in 1 .. m - 1 /\ m_WorkTasks[1].device = d
        BY <1>2, <1>7, <2>2, <3>1
      <4> QED BY <4>1
    <3>2. ASSUME NEW k \in 1 .. j - 1, m_WorkTasks'[k].device = d PROVE \E l \in 1 .. m - 1 : m_WorkTasks[l].device = d
      <4>1. k + 1 \in 1 .. m - 1 /\ m_WorkTasks[k + 1].device = d
        BY <1>3, <2>1, <3>2
      <4> QED BY <4>1
    <3> QED BY <1>9, <1>14, <3>1, <3>2
  <2>4. \E i \in 1 .. m - 1 : m_WorkTasks[i] = [device |-> d, action |-> "Stop"]
    <3>1. m_WorkTasks[m].action = "Start" /\ object[d].link = object[m_WorkTasks[m].device].link
          /\ d \in Objects \ {m_WorkTasks[m].device} /\ m \in DOMAIN m_WorkTasks
      BY <1>3, <1>14, <2>2
    <3> QED BY <1>7, <2>3, <3>1 DEF Order, StopComesFirst
  <2>5. PICK i \in 1 .. m - 1 : m_WorkTasks[i] = [device |-> d, action |-> "Stop"]
    BY <2>4
  <2>6. CASE i = 1
    BY <1>2, <1>7, <2>5, <2>6
  <2>7. CASE i # 1
    <3>1. i - 1 \in 1 .. j - 1 /\ m_WorkTasks'[i - 1] = m_WorkTasks[i]
      BY <1>3, <2>1, <2>7
    <3> QED BY <2>5, <3>1
  <2> QED BY <2>6, <2>7
<1>15. StopComesFirst'
  <2> SUFFICES ASSUME NEW j \in DOMAIN m_WorkTasks', NEW d \in Objects \ {m_WorkTasks'[j].device},
                      m_WorkTasks'[j].action = "Start", object'[d].link = object'[m_WorkTasks'[j].device].link,
                      ~Bare(d)' \/ Runs(d, "Start")' \/ \E k \in 1 .. j - 1 : m_WorkTasks'[k].device = d
               PROVE  Runs(d, "Stop")' \/ \E i \in 1 .. j - 1 : m_WorkTasks'[i] = [device |-> d, action |-> "Stop"]
    BY DEF StopComesFirst
  <2> QED BY <1>3, <1>14
<1> QED BY <1>13, <1>15

\* Cleanup stops a device that is left.
LEMMA OrderStops ==
  ASSUME RefsInv, Order, Alone(Main), Moves(Main), thread[Main].device = Adapter,
         m_WorkTasks = <<>>, m_Devices # <<>>, m_Devices' = Tail(m_Devices), pnp.at = "Idle",
         thread'[Main].device = Head(m_Devices), thread'[Main].action = "Stop",
         UNCHANGED <<m_WorkTasks, pnp, unknown>>,
         \A d \in Objects : object'[d].link = object[d].link
                            /\ object'[d].m_State \in {object[d].m_State, "Stopping"}
  PROVE  TasksInOrder' /\ StopComesFirst'
<1>1. PICK n : n = Len(m_Devices)
  OBVIOUS
<1>2. PICK c : c = m_Devices[1]
  OBVIOUS
<1>3. m_Devices \in Seq(Objects)
  BY DEF RefsInv, ListInv, ListTypes
<1>4. /\ n \in Nat \ {0} /\ DOMAIN m_Devices = 1 .. n /\ DOMAIN m_Devices' = 1 .. n - 1
      /\ Head(m_Devices) = c /\ c \in Objects /\ \A i \in 1 .. n - 1 : m_Devices'[i] = m_Devices[i + 1]
  BY <1>1, <1>2, <1>3, HeadTailProperties
<1>5. Alone(Main)' /\ Main \in Threads
  BY AloneNext, Numbers
<1>6. \A d \in Objects, a \in {"Start", "Stop"} :
        ~Runs(d, a) /\ (Runs(d, a)' <=> d = c /\ a = "Stop")
  BY <1>4, <1>5, RunsOf, RunsOfNext, Numbers
<1>7. DOMAIN m_WorkTasks = {} /\ DOMAIN m_WorkTasks' = {}
  OBVIOUS
<1>8. \A d, a : ~Queued(d, a) /\ ~Queued(d, a)'
  BY <1>7 DEF Queued
<1>9. \A d \in Objects : Listed(d) => Listed(d)' \/ d = c
  <2> SUFFICES ASSUME NEW d \in Objects, Listed(d), d # c PROVE Listed(d)'
    OBVIOUS
  <2>1. PICK i \in 1 .. n : m_Devices[i] = d
    BY <1>4 DEF Listed
  <2>2. i - 1 \in DOMAIN m_Devices' /\ m_Devices'[i - 1] = d
    BY <1>2, <1>4, <2>1
  <2> QED BY <2>2 DEF Listed
<1>10. \A d \in Objects : Bare(d)' = Bare(d)
  BY DEF Bare
<1>11. \A d \in Objects : InUse(d)' => (Listed(d)' \/ ToStop(d)') /\ object'[d].m_State # "Stopped"
  BY <1>6, <1>8, <1>9, <1>10 DEF Order, TasksInOrder, InUse, ToStop
<1>12. TasksInOrder'
  BY <1>7, <1>11 DEF TasksInOrder
<1>13. StopComesFirst'
  BY <1>7 DEF StopComesFirst
<1> QED BY <1>12, <1>13

\* A task is done.
LEMMA OrderReleased ==
  ASSUME RefsInv, Order, NEW t \in Threads, Alone(t), Moves(t), NEW d \in Objects, thread[t].device = d,
         thread[t].at = "Release", thread'[t].device = Adapter,
         UNCHANGED <<m_WorkTasks, m_Devices, pnp, unknown>>,
         \A e \in Objects :
            /\ object'[e].link = object[e].link
            /\ object'[e].m_State # "Stopped" \/ object'[e].m_State = object[e].m_State
               \/ (e = d /\ thread[t].action = "Stop")
  PROVE  TasksInOrder' /\ StopComesFirst'
<1>1. Alone(t)'
  BY AloneNext
<1>2. \A e \in Objects, a \in {"Start", "Stop"} :
        ~Runs(e, a)' /\ (Runs(e, a) <=> e = d /\ thread[t].action = a)
  <2>1. \A e \in Objects, a \in {"Start", "Stop"} : ~Runs(e, a)'
    BY <1>1, RunsOfNext, Numbers
  <2>2. \A e \in Objects, a \in {"Start", "Stop"} : Runs(e, a) <=> e = d /\ thread[t].action = a
    BY RunsOf
  <2> QED BY <2>1, <2>2
<1>3. \A e, a : Queued(e, a)' <=> Queued(e, a)
  BY DEF Queued
<1>4. \A e \in Objects : (Bare(e)' <=> Bare(e)) /\ (Listed(e)' <=> Listed(e))
  BY DEF Bare, Listed
<1>5. m_WorkTasks \in Seq(Tasks)
      /\ \A i \in DOMAIN m_WorkTasks : m_WorkTasks[i] \in Tasks /\ m_WorkTasks[i].device \in Objects
                                       /\ m_WorkTasks[i].action \in {"Start", "Stop"}
  BY QueueType
<1>6. ~Queued(d, "Start")
  BY DEF Order, TasksInOrder, Queued
<1>7. thread[t].action = "Stop" => Bare(d)
  BY DEF Order, ThreadTasks
<1>8. \A e \in Objects : (InUse(e)' => InUse(e)) /\ (ToStop(e)' => ToStop(e))
  BY <1>2, <1>3, <1>4 DEF InUse, ToStop
<1>9. ~InUse(d)' \/ thread[t].action # "Stop"
  BY <1>2, <1>3, <1>4, <1>6, <1>7 DEF InUse
<1>10. pnp.at = "Insert" => pnp.device \in Objects
  BY Numbers DEF RefsInv, ListInv, ListTypes, ListSound, Owners
<1>11. TasksInOrder'
  <2>1. ASSUME NEW e \in Objects, InUse(e)'
        PROVE  (Listed(e)' \/ ToStop(e)') /\ object'[e].m_State # "Stopped"
    <3>1. InUse(e) /\ (Listed(e) \/ ToStop(e)) /\ object[e].m_State # "Stopped" /\ (e = d => thread[t].action # "Stop")
      BY <1>8, <1>9, <2>1 DEF Order, TasksInOrder
    <3>2. Listed(e)' \/ ToStop(e)'
      BY <1>2, <1>3, <1>4, <3>1 DEF ToStop
    <3> QED BY <3>1, <3>2
  <2>2. pnp.at = "Insert" => pnp.device # d
    <3>1. thread[t].action \in {"Start", "Stop"}
      BY DEF Order, ThreadTasks, RefsInv, ControlInv, FilterTypes
    <3>2. InUse(d) \/ ToStop(d)
      BY <1>2, <3>1 DEF InUse, ToStop
    <3> QED BY <3>2 DEF Order, TasksInOrder
  <2>3. /\ pnp.at # "Idle" => pnp.link \in Links
        /\ pnp.at = "Insert" =>
             ~InUse(pnp.device)' /\ ~ToStop(pnp.device)' /\ object'[pnp.device].m_State # "Stopped"
    BY <1>8, <1>10, <2>2 DEF Order, TasksInOrder
  <2>4. \A u \in Threads : thread'[u].device = thread[u].device \/ thread'[u].device = Adapter
    BY DEF Moves
  <2>5. ASSUME NEW i \in DOMAIN m_WorkTasks, m_WorkTasks[i].action = "Start"
        PROVE  /\ Bare(m_WorkTasks[i].device)' /\ \A u \in Threads : thread'[u].device # m_WorkTasks[i].device
               /\ \A j \in 1 .. i - 1 : m_WorkTasks[j].device # m_WorkTasks[i].device
    <3>1. /\ Bare(m_WorkTasks[i].device) /\ \A u \in Threads : thread[u].device # m_WorkTasks[i].device
          /\ \A j \in 1 .. i - 1 : m_WorkTasks[j].device # m_WorkTasks[i].device
      BY <2>5 DEF Order, TasksInOrder
    <3>2. Bare(m_WorkTasks[i].device)'
      BY <3>1 DEF Bare
    <3> QED BY <1>5, <2>4, <3>1, <3>2, Numbers
  <2>6. m_WorkTasks' = m_WorkTasks /\ pnp' = pnp
    OBVIOUS
  <2> QED BY <2>1, <2>3, <2>5, <2>6 DEF TasksInOrder
<1>12. StopComesFirst'
  <2> SUFFICES ASSUME NEW j \in DOMAIN m_WorkTasks, NEW e \in Objects \ {m_WorkTasks[j].device},
                      m_WorkTasks[j].action = "Start", object'[e].link = object'[m_WorkTasks[j].device].link,
                      ~Bare(e)' \/ Runs(e, "Start")' \/ \E k \in 1 .. j - 1 : m_WorkTasks[k].device = e
               PROVE  \E i \in 1 .. j - 1 : m_WorkTasks[i] = [device |-> e, action |-> "Stop"]
    BY DEF StopComesFirst
  <2>1. ~Bare(e) \/ \E k \in 1 .. j - 1 : m_WorkTasks[k].device = e
    BY <1>2, <1>4
  <2>2. object[e].link = object[m_WorkTasks[j].device].link
    BY <1>5
  <2>3. Runs(e, "Stop") \/ \E i \in 1 .. j - 1 : m_WorkTasks[i] = [device |-> e, action |-> "Stop"]
    BY <2>1, <2>2 DEF Order, StopComesFirst
  <2>4. CASE Runs(e, "Stop")
    <3>1. e = d /\ thread[t].action = "Stop" /\ Bare(e)
      BY <1>2, <1>7, <2>4
    <3>2. PICK k \in 1 .. j - 1 : m_WorkTasks[k].device = e
      BY <2>1, <3>1
    <3>3. k \in DOMAIN m_WorkTasks
      BY <1>5
    <3>4. m_WorkTasks[k].action # "Start"
      BY <1>6, <3>1, <3>2, <3>3 DEF Queued
    <3>5. \A x \in Tasks : x = [device |-> x.device, action |-> x.action]
      BY DEF Tasks
    <3> QED BY <1>5, <3>2, <3>3, <3>4, <3>5
  <2> QED BY <2>3, <2>4
<1> QED BY <1>11, <1>12

\* The objects keep their links, and no device becomes a stopped one.
Ages ==
  \A e \in Objects :
    /\ object'[e].link = object[e].link
    /\ object'[e].m_State # "Stopped" \/ object'[e].m_State = object[e].m_State
    /\ object[e].m_State = "Unused" => object'[e].m_State = "Unused"

LEMMA ReleaseAges ==
  ASSUME RefsInv, NEW d \in Objects, Release(d), object[d].refs # 0
  PROVE  Ages
<1>1. object \in [Objects -> Object] /\ object[d] \in Object /\ object[d].m_State # "Unused"
  BY RefsAre DEF RefsInv, ListInv, ListTypes, Object, Exact
<1>2. PICK p : p = IF object[d].refs = 1 THEN [object[d] EXCEPT !.refs = 0, !.m_State = "Deleted"]
                   ELSE [object[d] EXCEPT !.refs = @ - 1]
  OBVIOUS
<1>3. object' = [object EXCEPT ![d] = p]
  BY <1>1, <1>2 DEF Release
<1>4. p.link = object[d].link /\ p.m_State \in {object[d].m_State, "Deleted"}
  BY <1>1, <1>2 DEF Object
<1>5. object'[d] = p /\ \A e \in Objects \ {d} : object'[e] = object[e]
  BY <1>1, <1>3
<1> QED BY <1>1, <1>4, <1>5 DEF Ages

LEMMA CountedAges ==
  ASSUME RefsInv, NEW d \in Objects, object' = [object EXCEPT ![d].refs = @ + 1]
  PROVE  Ages /\ object'[d].m_State = object[d].m_State
<1>1. object \in [Objects -> Object] /\ object[d] \in Object
  BY DEF RefsInv, ListInv, ListTypes, Object
<1>2. PICK p : p = [object[d] EXCEPT !.refs = @ + 1]
  OBVIOUS
<1>3. object' = [object EXCEPT ![d] = p] /\ p.link = object[d].link /\ p.m_State = object[d].m_State
  BY <1>1, <1>2 DEF Object
<1>4. object'[d] = p /\ \A e \in Objects \ {d} : object'[e] = object[e]
  BY <1>1, <1>3
<1> QED BY <1>3, <1>4 DEF Ages

\* The threads stay where they are.
LEMMA ThreadTasksKept ==
  ASSUME RefsInv, ThreadTasks, UNCHANGED <<thread, unknown, installed>>, LinksKnown',
         \A t \in Threads : thread[t].device \in Objects =>
            object'[thread[t].device].link = object[thread[t].device].link
  PROVE  ThreadTasks'
<1>1. \A d \in Objects : Bare(d)' = Bare(d)
  BY DEF Bare
<1>2. \A t \in Threads : TaskOf(t)'
  <2> SUFFICES ASSUME NEW t \in Threads, thread[t].device \in Objects PROVE TaskOf(t)'
    BY DEF TaskOf
  <2>1. TaskOf(t)
    BY ThreadTasksAre
  <2>2. PICK d \in Objects : d = thread[t].device
    OBVIOUS
  <2> QED BY <2>1, <2>2 DEF TaskOf, Bare
<1>3. EndpointOf' /\ \A t \in Callbacks : t = 1 \/ At(t, "Idle")'
  BY ThreadTasksAre DEF EndpointOf, At
<1> QED BY <1>2, <1>3 DEF ThreadTasks, TaskOf, EndpointOf, LinksKnown

LEMMA AgesKeepThreads ==
  ASSUME RefsInv, ThreadTasks, UNCHANGED <<thread, unknown, installed>>, Ages
  PROVE  ThreadTasks'
<1>1. LinksKnown'
  BY ThreadTasksAre DEF Ages, LinksKnown
<1>2. \A t \in Threads : thread[t].device \in Objects =>
            object'[thread[t].device].link = object[thread[t].device].link
  BY DEF Ages
<1> QED BY <1>1, <1>2, ThreadTasksKept

\* The notification callback leaves the list and the queue alone.
LEMMA OrderNotice ==
  ASSUME RefsInv, Order, UNCHANGED <<thread, unknown, installed, m_WorkTasks, m_Devices>>, Ages,
         pnp'.at # "Insert", pnp'.at # "Idle" => pnp'.link \in Links
  PROVE  Order'
<1>1. ThreadTasks'
  BY AgesKeepThreads DEF Order
<1>2. \A d \in Objects : (InUse(d)' <=> InUse(d)) /\ (ToStop(d)' <=> ToStop(d)) /\ (Listed(d)' <=> Listed(d))
  BY DEF InUse, ToStop, Listed, Bare, Runs, Queued
<1>3. \A d \in Objects : InUse(d)' => (Listed(d)' \/ ToStop(d)') /\ object'[d].m_State # "Stopped"
  BY <1>2 DEF Order, TasksInOrder, Ages
<1>4. \A i \in DOMAIN m_WorkTasks : m_WorkTasks[i].device \in Objects
  BY QueueType
<1>5. TasksInOrder'
  BY <1>3 DEF Order, TasksInOrder, Bare
<1>6. StopComesFirst'
  BY <1>4 DEF Order, StopComesFirst, Ages, Bare, Runs
<1> QED BY <1>1, <1>5, <1>6 DEF Order

\* A new object.
LEMMA OrderCreated ==
  ASSUME RefsInv, Order, UNCHANGED <<thread, unknown, installed, m_WorkTasks, m_Devices>>, pnp.at = "Arrival",
         NEW new \in Objects, object[new] = Unused,
         pnp' = [pnp EXCEPT !.at = "Insert", !.device = new],
         object' = [object EXCEPT ![new] = [link |-> pnp.link, m_State |-> "Running", refs |-> 1]]
  PROVE  /\ Order' /\ ~InUse(new) /\ ~ToStop(new) /\ (\A t \in Threads : thread[t].device # new)
         /\ \A d \in Objects \ {new} : object'[d] = object[d]
<1>1. pnp \in Notice /\ object \in [Objects -> Object] /\ object[new].refs = 0 /\ ListTypes /\ Exact(new)
  BY RefsAre DEF RefsInv, ListInv, ListTypes, Notice, Object, Unused
<1>2. /\ ~Listed(new) /\ (\A i \in DOMAIN m_WorkTasks : m_WorkTasks[i].device # new)
      /\ \A t \in Threads : thread[t].device # new
  BY <1>1, Holders
<1>3. ~InUse(new) /\ ~ToStop(new)
  BY <1>2 DEF Order, TasksInOrder, ToStop, Queued, Runs
<1>4. PICK o : o = [link |-> pnp.link, m_State |-> "Running", refs |-> 1]
  OBVIOUS
<1>5. object' = [object EXCEPT ![new] = o] /\ o.link = pnp.link /\ o.m_State = "Running"
  BY <1>4
<1>6. object'[new] = o /\ \A d \in Objects \ {new} : object'[d] = object[d]
  BY <1>1, <1>5
<1>7. pnp'.at = "Insert" /\ pnp'.device = new /\ pnp'.link = pnp.link /\ pnp.link \in Links
  BY <1>1 DEF Notice, Order, TasksInOrder
<1>8. ThreadTasks'
  <2>1. LinksKnown'
    BY <1>5, <1>6, <1>7, ThreadTasksAre DEF LinksKnown, Order
  <2> QED BY <1>2, <1>6, <2>1, ThreadTasksKept DEF Order
<1>9. \A d \in Objects : (InUse(d)' <=> InUse(d)) /\ (ToStop(d)' <=> ToStop(d)) /\ (Listed(d)' <=> Listed(d))
  BY DEF InUse, ToStop, Listed, Bare, Runs, Queued
<1>10. \A d \in Objects : InUse(d)' => (Listed(d)' \/ ToStop(d)') /\ object'[d].m_State # "Stopped"
  BY <1>5, <1>6, <1>9 DEF Order, TasksInOrder
<1>11. ~InUse(pnp.device)' /\ ~ToStop(pnp.device)' /\ object'[pnp'.device].m_State # "Stopped"
  <2>1. ~InUse(new)' /\ ~ToStop(new)'
    BY <1>3, <1>9
  <2> QED BY <1>5, <1>6, <1>7, <2>1 DEF InUse, ToStop, Bare, Queued, Runs
<1>12. TasksInOrder'
  BY <1>7, <1>10, <1>11 DEF Order, TasksInOrder, Bare
<1>13. StopComesFirst'
  <2> SUFFICES ASSUME NEW j \in DOMAIN m_WorkTasks, NEW d \in Objects \ {m_WorkTasks[j].device},
                      m_WorkTasks[j].action = "Start", object'[d].link = object'[m_WorkTasks[j].device].link,
                      ~Bare(d) \/ Runs(d, "Start") \/ \E k \in 1 .. j - 1 : m_WorkTasks[k].device = d
               PROVE  Runs(d, "Stop") \/ \E i \in 1 .. j - 1 : m_WorkTasks[i] = [device |-> d, action |-> "Stop"]
    BY DEF StopComesFirst, Bare, Runs
  <2>1. m_WorkTasks[j].device \in Objects \ {new} /\ DOMAIN m_WorkTasks = 1 .. Len(m_WorkTasks)
        /\ Len(m_WorkTasks) \in Nat
    BY <1>2, QueueType
  <2>2. d # new
    <3>1. ~Bare(d) \/ Runs(d, "Start") => InUse(d)
      BY DEF InUse
    <3>2. ASSUME NEW k \in 1 .. j - 1, m_WorkTasks[k].device = d PROVE d # new
      <4>1. k \in DOMAIN m_WorkTasks
        BY <2>1
      <4> QED BY <1>2, <3>2, <4>1
    <3> QED BY <1>3, <3>1, <3>2
  <2> QED BY <1>6, <2>1, <2>2 DEF Order, StopComesFirst
<1> QED BY <1>2, <1>3, <1>6, <1>8, <1>12, <1>13 DEF Order

\* A new device enters the list with the task that starts it.
LEMMA OrderInserted ==
  ASSUME RefsInv, Order, UNCHANGED <<thread, unknown, installed>>, Ages,
         NEW d \in Objects, pnp.at = "Insert", pnp.device = d, pnp' = NoNotice, object'[d].m_State = object[d].m_State,
         m_Devices' = Append(m_Devices, d), m_WorkTasks' = Append(m_WorkTasks, [device |-> d, action |-> "Start"])
  PROVE  Order'
<1>1. ThreadTasks'
  BY AgesKeepThreads DEF Order
<1>2. PICK n : n = Len(m_WorkTasks)
  OBVIOUS
<1>3. PICK c : c = [device |-> d, action |-> "Start"]
  OBVIOUS
<1>4. c \in Tasks /\ c.device = d /\ c.action = "Start" /\ m_WorkTasks' = Append(m_WorkTasks, c)
  BY <1>3 DEF Tasks
<1>5. /\ n \in Nat /\ DOMAIN m_WorkTasks = 1 .. n /\ DOMAIN m_WorkTasks' = 1 .. n + 1
      /\ m_WorkTasks'[n + 1] = c /\ \A i \in 1 .. n : m_WorkTasks'[i] = m_WorkTasks[i]
  BY <1>2, <1>4, QueueAppend
<1>6. \A i \in 1 .. n : m_WorkTasks[i] \in Tasks /\ m_WorkTasks[i].device \in Objects
                        /\ m_WorkTasks[i].action \in {"Start", "Stop"}
  BY <1>5, QueueType
<1>7. ~InUse(d) /\ ~ToStop(d) /\ object[d].m_State # "Stopped" /\ Bare(d)
  BY DEF Order, TasksInOrder, InUse
<1>8. (\A i \in 1 .. n : m_WorkTasks[i].device # d) /\ \A u \in Threads : thread[u].device # d
  <2>1. \A i \in 1 .. n : m_WorkTasks[i].device # d
    BY <1>5, <1>6, <1>7 DEF InUse, ToStop, Queued
  <2>2. \A u \in Threads : thread[u].device = d => thread[u].action \in {"Start", "Stop"}
    BY DEF Order, ThreadTasks, RefsInv, ControlInv, FilterTypes
  <2>3. \A u \in Threads : thread[u].device # d
    BY <1>7, <2>2 DEF InUse, ToStop, Runs
  <2> QED BY <2>1, <2>3
<1>9. m_Devices \in Seq(Objects)
  BY DEF RefsInv, ListInv, ListTypes
<1>10. \A e \in Objects : Listed(e)' <=> Listed(e) \/ e = d
  <2>1. PICK m : m = Len(m_Devices)
    OBVIOUS
  <2>2. /\ m \in Nat /\ DOMAIN m_Devices = 1 .. m /\ DOMAIN m_Devices' = 1 .. m + 1
        /\ m_Devices'[m + 1] = d /\ \A i \in 1 .. m : m_Devices'[i] = m_Devices[i]
    BY <1>9, <2>1
  <2> QED BY <2>2 DEF Listed
<1>11. \A e, a : Queued(e, a)' <=> Queued(e, a) \/ (e = d /\ a = "Start")
  BY <1>4, <1>5 DEF Queued
<1>12. \A e \in Objects : \A a : Runs(e, a)' <=> Runs(e, a)
  BY DEF Runs
<1>13. \A e \in Objects : /\ e # d => (InUse(e)' <=> InUse(e))
                          /\ ToStop(e)' <=> ToStop(e)
  BY <1>11, <1>12 DEF InUse, ToStop, Bare
<1>14. TasksInOrder'
  <2>1. \A e \in Objects : InUse(e)' => (Listed(e)' \/ ToStop(e)') /\ object'[e].m_State # "Stopped"
    BY <1>7, <1>10, <1>13 DEF Order, TasksInOrder, Ages
  <2>2. ASSUME NEW i \in 1 .. n + 1, m_WorkTasks'[i].action = "Start"
        PROVE  /\ unknown[m_WorkTasks'[i].device] = <<NoSubdevice, NoSubdevice>>
               /\ \A u \in Threads : thread[u].device # m_WorkTasks'[i].device
               /\ \A j \in 1 .. i - 1 : m_WorkTasks'[j].device # m_WorkTasks'[i].device
    <3>1. CASE i = n + 1
      <4>1. \A j \in 1 .. i - 1 : m_WorkTasks'[j].device # d
        BY <1>5, <1>8, <3>1
      <4> QED BY <1>4, <1>5, <1>7, <1>8, <3>1, <4>1 DEF Bare
    <3>2. CASE i # n + 1
      <4>1. i \in 1 .. n /\ m_WorkTasks'[i] = m_WorkTasks[i] /\ \A j \in 1 .. i - 1 : m_WorkTasks'[j] = m_WorkTasks[j]
        BY <1>5, <3>2
      <4>2. i \in DOMAIN m_WorkTasks /\ m_WorkTasks[i].action = "Start"
        BY <1>5, <2>2, <4>1
      <4> QED BY <4>1, <4>2 DEF Order, TasksInOrder, Bare
    <3> QED BY <3>1, <3>2
  <2>3. pnp'.at = "Idle"
    BY NoNoticeIs
  <2> QED BY <1>5, <2>1, <2>2, <2>3 DEF TasksInOrder, Bare
<1>15. StopComesFirst'
  <2> SUFFICES ASSUME NEW j \in 1 .. n + 1, NEW e \in Objects \ {m_WorkTasks'[j].device},
                      m_WorkTasks'[j].action = "Start", object'[e].link = object'[m_WorkTasks'[j].device].link,
                      ~Bare(e) \/ Runs(e, "Start") \/ \E k \in 1 .. j - 1 : m_WorkTasks'[k].device = e
               PROVE  Runs(e, "Stop") \/ \E i \in 1 .. j - 1 : m_WorkTasks'[i] = [device |-> e, action |-> "Stop"]
    BY <1>5 DEF StopComesFirst, Bare, Runs
  <2>1. \A k \in 1 .. j - 1 : k \in 1 .. n /\ m_WorkTasks'[k] = m_WorkTasks[k]
    BY <1>5
  <2>2. CASE j # n + 1
    <3>1. j \in DOMAIN m_WorkTasks /\ m_WorkTasks'[j] = m_WorkTasks[j]
      BY <1>5, <2>2
    <3>2. object[e].link = object[m_WorkTasks[j].device].link
      BY <1>5, <1>6, <3>1 DEF Ages
    <3>3. ~Bare(e) \/ Runs(e, "Start") \/ \E k \in 1 .. j - 1 : m_WorkTasks[k].device = e
      BY <2>1
    <3>4. e \in Objects \ {m_WorkTasks[j].device} /\ m_WorkTasks[j].action = "Start"
      BY <3>1
    <3>5. Runs(e, "Stop") \/ \E i \in 1 .. j - 1 : m_WorkTasks[i] = [device |-> e, action |-> "Stop"]
      BY <3>1, <3>2, <3>3, <3>4 DEF Order, StopComesFirst
    <3> QED BY <2>1, <3>5
  <2>3. CASE j = n + 1
    <3>1. e # d /\ object[e].link = object[d].link
      BY <1>4, <1>5, <2>3 DEF Ages
    <3>2. ~Listed(e)
      <4>1. object[d].link = pnp.link /\ DeviceFind(pnp.link) = {}
        BY DEF RefsInv, ListInv, ListSound
      <4> QED BY <3>1, <4>1 DEF DeviceFind, Listed
    <3>3. ASSUME NEW i \in 1 .. n, m_WorkTasks[i].device = e, m_WorkTasks[i].action = "Stop"
          PROVE  \E k \in 1 .. j - 1 : m_WorkTasks'[k] = [device |-> e, action |-> "Stop"]
      <4>1. \A x \in Tasks : x = [device |-> x.device, action |-> x.action]
        BY DEF Tasks
      <4>2. PICK x \in Tasks : x = m_WorkTasks[i]
        BY <1>6
      <4>3. m_WorkTasks[i] = [device |-> e, action |-> "Stop"] /\ i \in 1 .. j - 1
        <5>1. x = [device |-> e, action |-> "Stop"]
          BY <3>3, <4>1, <4>2
        <5> QED BY <1>5, <2>3, <4>2, <5>1
      <4> QED BY <2>1, <4>3
    <3>4. InUse(e) => Runs(e, "Stop") \/ Queued(e, "Stop")
      BY <3>2 DEF Order, TasksInOrder, ToStop
    <3>5. InUse(e) \/ Queued(e, "Stop")
      <4>1. ASSUME NEW k \in 1 .. j - 1, m_WorkTasks'[k].device = e PROVE Queued(e, "Start") \/ Queued(e, "Stop")
        BY <1>5, <1>6, <2>1, <4>1 DEF Queued
      <4> QED BY <4>1 DEF InUse
    <3> QED BY <1>5, <3>3, <3>4, <3>5 DEF Queued
  <2> QED BY <2>2, <2>3
<1> QED BY <1>1, <1>14, <1>15 DEF Order

\* A device leaves the list and the task that stops it is queued.
LEMMA OrderRemoved ==
  ASSUME RefsInv, Order, UNCHANGED <<thread, unknown, installed>>, Ages,
         NEW d \in Objects, pnp' = NoNotice,
         \A e \in Objects : Listed(e)' <=> Listed(e) /\ e # d,
         m_WorkTasks' = Append(m_WorkTasks, [device |-> d, action |-> "Stop"])
  PROVE  Order'
<1>1. ThreadTasks'
  BY AgesKeepThreads DEF Order
<1>2. PICK n : n = Len(m_WorkTasks)
  OBVIOUS
<1>3. PICK c : c = [device |-> d, action |-> "Stop"]
  OBVIOUS
<1>4. c \in Tasks /\ c.device = d /\ c.action = "Stop" /\ m_WorkTasks' = Append(m_WorkTasks, c)
  BY <1>3 DEF Tasks
<1>5. /\ n \in Nat /\ DOMAIN m_WorkTasks = 1 .. n /\ DOMAIN m_WorkTasks' = 1 .. n + 1
      /\ m_WorkTasks'[n + 1] = c /\ \A i \in 1 .. n : m_WorkTasks'[i] = m_WorkTasks[i]
  BY <1>2, <1>4, QueueAppend
<1>6. \A i \in 1 .. n : m_WorkTasks[i].device \in Objects
  BY <1>5, QueueType
<1>7. \A e, a : Queued(e, a)' <=> Queued(e, a) \/ (e = d /\ a = "Stop")
  BY <1>4, <1>5 DEF Queued
<1>8. \A e \in Objects : \A a : Runs(e, a)' <=> Runs(e, a)
  BY DEF Runs
<1>9. \A e \in Objects : (InUse(e)' <=> InUse(e)) /\ (ToStop(e)' <=> ToStop(e) \/ e = d)
  BY <1>7, <1>8 DEF InUse, ToStop, Bare
<1>10. ASSUME NEW i \in DOMAIN m_WorkTasks', m_WorkTasks'[i].action = "Start"
       PROVE  i \in 1 .. n /\ m_WorkTasks'[i] = m_WorkTasks[i] /\ \A j \in 1 .. i - 1 : m_WorkTasks'[j] = m_WorkTasks[j]
  <2>1. i # n + 1
    BY <1>4, <1>5, <1>10
  <2> QED BY <1>5, <2>1
<1>11. TasksInOrder'
  <2>1. \A e \in Objects : InUse(e)' => (Listed(e)' \/ ToStop(e)') /\ object'[e].m_State # "Stopped"
    BY <1>9 DEF Order, TasksInOrder, Ages
  <2>2. ASSUME NEW i \in DOMAIN m_WorkTasks', m_WorkTasks'[i].action = "Start"
        PROVE  /\ unknown[m_WorkTasks'[i].device] = <<NoSubdevice, NoSubdevice>>
               /\ \A u \in Threads : thread[u].device # m_WorkTasks'[i].device
               /\ \A j \in 1 .. i - 1 : m_WorkTasks'[j].device # m_WorkTasks'[i].device
    <3>1. i \in DOMAIN m_WorkTasks /\ m_WorkTasks[i].action = "Start" /\ m_WorkTasks'[i] = m_WorkTasks[i]
          /\ \A j \in 1 .. i - 1 : m_WorkTasks'[j] = m_WorkTasks[j]
      BY <1>5, <1>10, <2>2
    <3>2. /\ Bare(m_WorkTasks[i].device) /\ \A u \in Threads : thread[u].device # m_WorkTasks[i].device
          /\ \A j \in 1 .. i - 1 : m_WorkTasks[j].device # m_WorkTasks[i].device
      BY <3>1 DEF Order, TasksInOrder
    <3> QED BY <3>1, <3>2 DEF Bare
  <2>3. pnp'.at = "Idle"
    BY NoNoticeIs
  <2> QED BY <2>1, <2>2, <2>3 DEF TasksInOrder, Bare
<1>12. StopComesFirst'
  <2> SUFFICES ASSUME NEW j \in DOMAIN m_WorkTasks', NEW e \in Objects \ {m_WorkTasks'[j].device},
                      m_WorkTasks'[j].action = "Start", object'[e].link = object'[m_WorkTasks'[j].device].link,
                      ~Bare(e) \/ Runs(e, "Start") \/ \E k \in 1 .. j - 1 : m_WorkTasks'[k].device = e
               PROVE  Runs(e, "Stop") \/ \E i \in 1 .. j - 1 : m_WorkTasks'[i] = [device |-> e, action |-> "Stop"]
    BY DEF StopComesFirst, Bare, Runs
  <2>1. j \in DOMAIN m_WorkTasks /\ m_WorkTasks'[j] = m_WorkTasks[j] /\ \A k \in 1 .. j - 1 : m_WorkTasks'[k] = m_WorkTasks[k]
    BY <1>5, <1>10
  <2>2. object[e].link = object[m_WorkTasks[j].device].link /\ e \in Objects \ {m_WorkTasks[j].device}
        /\ m_WorkTasks[j].action = "Start"
    BY <1>5, <1>6, <2>1 DEF Ages
  <2>3. ~Bare(e) \/ Runs(e, "Start") \/ \E k \in 1 .. j - 1 : m_WorkTasks[k].device = e
    BY <2>1
  <2>4. Runs(e, "Stop") \/ \E i \in 1 .. j - 1 : m_WorkTasks[i] = [device |-> e, action |-> "Stop"]
    BY <2>1, <2>2, <2>3 DEF Order, StopComesFirst
  <2> QED BY <2>1, <2>4
<1> QED BY <1>1, <1>11, <1>12 DEF Order

(***************************************************************************)
(* The filters                                                             *)
(***************************************************************************)

MadeOf(t) ==
  LET i == thread[t] IN
  /\ i.at \notin {"Wave", "Connect"} => i.made = {}
  /\ i.at \in Installing => \A s \in registered : s.endpoint = i.endpoint => s \in i.made
  /\ i.made \subseteq registered
  /\ i.at = "Wave" => i.made \subseteq {i.topo}
  /\ i.at = "Connect" => i.made \subseteq {i.topo, i.wave}
  /\ \A s \in i.made : s.endpoint = i.endpoint /\ s.owner = i.device
                       /\ (i.at = "Wave" => s.part = "Topo")
  /\ i.at \in {"Wave", "Connect"} => i.topo = NoSubdevice \/ (i.topo \in i.made /\ i.topo.part = "Topo")
  /\ i.at = "Connect" =>
       /\ i.wave = NoSubdevice \/ (i.wave \in i.made /\ i.wave.part = "Wave")
       /\ i.ok => i.wave # NoSubdevice

LEMMA MadeAre == MadeAlone <=> \A t \in Threads : MadeOf(t)
  BY DEF MadeAlone, MadeOf

LEMMA MadeNext ==
  ASSUME NEW t \in Threads, MadeAlone, Alone(t), Moves(t), MadeOf(t)'
  PROVE  MadeAlone'
<1>1. \A u \in Threads \ {t} : MadeOf(u)'
  <2> SUFFICES ASSUME NEW u \in Threads \ {t} PROVE MadeOf(u)'
    OBVIOUS
  <2>1. thread'[u] = thread[u] /\ thread[u].at \notin Installing /\ thread[u].made = {}
    BY WorkPlaces DEF Alone, Moves, MadeAlone
  <2> QED BY <2>1, WorkPlaces DEF MadeOf
<1>2. \A u \in Threads : MadeOf(u)'
  BY <1>1
<1> QED BY <1>2 DEF MadeAlone, MadeOf

\* A filter of a device, and who has made it.
Owned(s) ==
  /\ s.endpoint = object[s.owner].link
  /\ \/ s = unknown[s.owner][1] \/ s = unknown[s.owner][2]
     \/ \E t \in Threads : thread[t].device = s.owner /\ s \in thread[t].made
PairOf(d) ==
  /\ unknown[d][1] \in {NoSubdevice, Subdevice(object[d].link, "Topo", d)}
  /\ unknown[d][2] \in {NoSubdevice, Subdevice(object[d].link, "Wave", d)}
Endpointed(s) == \E i \in 1 .. installed : s.endpoint = AllEndpoints[i]

LEMMA RegisteredAre ==
  RegisteredKnown <=>
    /\ m_SubdeviceCache \subseteq registered
    /\ \A s \in registered : s.part # "None" /\ (s.owner = Adapter => Endpointed(s)) /\ (s.owner # Adapter => Owned(s))
    /\ \A d \in Objects : PairOf(d)
  BY DEF RegisteredKnown, Owned, PairOf, Endpointed

LEMMA RegisteredAreNext ==
  RegisteredKnown' <=>
    /\ m_SubdeviceCache' \subseteq registered'
    /\ \A s \in registered' : /\ s.part # "None" /\ (s.owner = Adapter => Endpointed(s)')
                              /\ (s.owner # Adapter => Owned(s)')
    /\ \A d \in Objects : PairOf(d)'
  BY DEF RegisteredKnown, Owned, PairOf, Endpointed

\* Who has made a filter, seen from the one thread that works.
LEMMA OwnedOf ==
  ASSUME MadeAlone, NEW t \in Threads, Alone(t), NEW s \in registered, s.owner # Adapter
  PROVE  Owned(s) <=> /\ s.endpoint = object[s.owner].link
                      /\ \/ s = unknown[s.owner][1] \/ s = unknown[s.owner][2]
                         \/ thread[t].device = s.owner /\ s \in thread[t].made
  BY DEF Owned, Alone

LEMMA OwnedByPair ==
  ASSUME RefsInv, Filtered, NEW s \in registered, s.owner # Adapter, \A t \in Threads : s \notin thread[t].made
  PROVE  /\ s.owner \in Objects /\ ~Bare(s.owner) /\ s.endpoint = object[s.owner].link
         /\ s = unknown[s.owner][1] \/ s = unknown[s.owner][2]
<1>1. s \in Subs /\ s.owner \in Objects
  BY DEF RefsInv, ControlInv, FilterTypes, Subs, Owners
<1>2. s.part # "None" /\ Owned(s)
  BY RegisteredAre DEF Filtered
<1>3. NoSubdevice.part = "None"
  BY DEF NoSubdevice
<1>4. s = unknown[s.owner][1] \/ s = unknown[s.owner][2]
  BY <1>2 DEF Owned
<1>5. ~Bare(s.owner)
  BY <1>2, <1>3, <1>4 DEF Bare
<1> QED BY <1>1, <1>2, <1>4, <1>5 DEF Owned

\* A step of the notification callback.
LEMMA FilteredFrame ==
  ASSUME RefsInv, Filtered,
         UNCHANGED <<m_SubdeviceCache, registered, connected, unknown, thread, installed>>,
         \A d \in Objects : \/ object'[d].link = object[d].link
                            \/ Bare(d) /\ \A t \in Threads : thread[t].device # d
  PROVE  Filtered'
<1>1. \A s \in registered : s.owner # Adapter => s.owner \in Objects /\ s.part # "None"
  BY RegisteredAre DEF Filtered, RefsInv, ControlInv, FilterTypes, Subs, Owners
<1>2. NoSubdevice.part = "None"
  BY DEF NoSubdevice
<1>3. \A s \in registered : s.owner # Adapter => Owned(s)'
  <2> SUFFICES ASSUME NEW s \in registered, s.owner # Adapter PROVE Owned(s)'
    OBVIOUS
  <2>1. Owned(s) /\ s.owner \in Objects /\ s.part # "None"
    BY <1>1, RegisteredAre DEF Filtered
  <2>2. object'[s.owner].link = object[s.owner].link
    BY <1>2, <2>1 DEF Owned, Bare
  <2> QED BY <2>1, <2>2 DEF Owned
<1>4. \A d \in Objects : PairOf(d)'
  BY RegisteredAre DEF Filtered, PairOf, Bare
<1>5. RegisteredKnown'
  BY <1>3, <1>4, RegisteredAre, RegisteredAreNext DEF Filtered, Endpointed
<1>6. MadeAlone' /\ ConnectedKnown' /\ WaveGone'
  BY DEF Filtered, MadeAlone, ConnectedKnown, WaveGone, At
<1> QED BY <1>5, <1>6 DEF Filtered

\* A thread moves and leaves the filters alone.
LEMMA FilteredMoves ==
  ASSUME RefsInv, Filtered, NEW t \in Threads, Alone(t), Moves(t),
         UNCHANGED <<registered, connected, unknown>>, m_SubdeviceCache' \subseteq m_SubdeviceCache,
         thread[t].made = {}, thread'[t].made = {},
         thread'[t].at \notin {"Wave", "Connect", "RemoveWave", "RemoveTopology"},
         thread'[t].at \in Installing => \A s \in registered : s.endpoint # thread'[t].endpoint,
         installed' \in Nat, installed' >= installed,
         \A d \in Objects : object'[d].link = object[d].link
  PROVE  Filtered'
<1>1. Alone(t)' /\ installed \in Nat
  BY AloneNext, EndpointsAssumption DEF RefsInv, ControlInv, FilterTypes, AllEndpoints
<1>2. MadeOf(t)'
  BY WorkPlaces DEF MadeOf
<1>3. MadeAlone'
  BY <1>2, MadeNext DEF Filtered
<1>4. \A s \in registered : s.owner # Adapter => Owned(s)'
  <2> SUFFICES ASSUME NEW s \in registered, s.owner # Adapter PROVE Owned(s)'
    OBVIOUS
  <2>1. \A u \in Threads : s \notin thread[u].made
    BY WorkPlaces DEF Alone, Filtered, MadeAlone
  <2> QED BY <2>1, OwnedByPair DEF Owned
<1>5. \A s \in registered : s.owner = Adapter => Endpointed(s)'
  <2> SUFFICES ASSUME NEW s \in registered, s.owner = Adapter PROVE Endpointed(s)'
    OBVIOUS
  <2>1. PICK i \in 1 .. installed : s.endpoint = AllEndpoints[i]
    BY RegisteredAre DEF Filtered, Endpointed
  <2>2. i \in 1 .. installed'
    BY <1>1
  <2> QED BY <2>1, <2>2 DEF Endpointed, AllEndpoints
<1>6. \A d \in Objects : PairOf(d)'
  BY RegisteredAre DEF Filtered, PairOf
<1>7. RegisteredKnown'
  BY <1>4, <1>5, <1>6, RegisteredAre, RegisteredAreNext DEF Filtered
<1>8. ConnectedKnown'
  <2> SUFFICES ASSUME NEW c \in connected, NEW u \in Threads
               PROVE  /\ thread'[u].at \in Installing => c[1].endpoint # thread'[u].endpoint
                      /\ thread'[u].at \in {"RemoveWave", "RemoveTopology"} => c # unknown[thread'[u].device]
    BY DEF Filtered, ConnectedKnown
  <2>1. c[1] \in registered
    BY DEF Filtered, ConnectedKnown
  <2>2. CASE u = t
    BY <2>1, <2>2
  <2>3. CASE u # t
    BY <2>3 DEF Moves, Filtered, ConnectedKnown
  <2> QED BY <2>2, <2>3
<1>9. WaveGone'
  BY DEF Filtered, WaveGone, At, Moves
<1> QED BY <1>3, <1>7, <1>8, <1>9 DEF Filtered

\* A part of the filters of a name is made by the thread: none is there yet.
LEMMA PartMade ==
  ASSUME RefsInv, Filtered, NEW t \in Threads, NEW p \in {"Topo", "Wave"},
         thread[t].at = "Topology" \/ (thread[t].at = "Wave" /\ p = "Wave"),
         NEW s, NEW made, NEW ok, Install(t, p, s, made, ok),
         NEW new, new = Subdevice(thread[t].endpoint, p, thread[t].device)
  PROVE  /\ registered' = registered \cup made /\ m_SubdeviceCache' \subseteq m_SubdeviceCache \cup made
         /\ (s = new /\ made = {new}) \/ (s = NoSubdevice /\ made = {} /\ ~ok)
         /\ new.part = p /\ new.owner = thread[t].device /\ new.endpoint = thread[t].endpoint
<1>1. GetCachedSubdevice(thread[t].endpoint, p) = {}
  <2> SUFFICES ASSUME NEW c \in m_SubdeviceCache, c.endpoint = thread[t].endpoint, c.part = p PROVE FALSE
    BY DEF GetCachedSubdevice
  <2>1. c \in registered /\ MadeOf(t) /\ thread[t].at \in Installing
    BY MadeAre, RegisteredAre, WorkPlaces DEF Filtered
  <2>2. c \in thread[t].made
    BY <2>1 DEF MadeOf
  <2> QED BY <2>1, <2>2 DEF MadeOf
<1>2. /\ (s = new /\ made = {new}) \/ (s = NoSubdevice /\ made = {} /\ ~ok)
      /\ registered' = registered \cup made /\ m_SubdeviceCache' \subseteq m_SubdeviceCache \cup made
  BY <1>1 DEF Install, InstallSubdevice, CacheSubdevice
<1>3. new.part = p /\ new.owner = thread[t].device /\ new.endpoint = thread[t].endpoint
  BY DEF Subdevice
<1> QED BY <1>2, <1>3

LEMMA MadeRegistered ==
  ASSUME RefsInv, Order, Filtered, NEW t \in Threads, Alone(t), Moves(t), thread[t].at \in Installing,
         NEW made, registered' = registered \cup made, m_SubdeviceCache' \subseteq m_SubdeviceCache \cup made,
         \A s \in made : s.part # "None" /\ s.owner = thread[t].device /\ s.endpoint = thread[t].endpoint,
         thread'[t].device = thread[t].device, thread'[t].endpoint = thread[t].endpoint,
         thread'[t].at \in {"Wave", "Connect"},
         thread'[t].made = thread[t].made \cup made, UNCHANGED <<connected, unknown, object, installed>>
  PROVE  RegisteredKnown' /\ ConnectedKnown' /\ WaveGone'
<1>1. thread[t].device \in Owners
  BY DEF RefsInv, ControlInv, FilterTypes
<1>2. \A s \in registered' : s.owner # Adapter => Owned(s)'
  <2> SUFFICES ASSUME NEW s \in registered', s.owner # Adapter PROVE Owned(s)'
    OBVIOUS
  <2>1. CASE s \in made
    <3>1. s.endpoint = object[s.owner].link
      <4>1. thread[t].device \in Objects /\ TaskOf(t) /\ thread[t].at # "Release"
        BY <1>1, <2>1, ThreadTasksAre, WorkPlaces DEF Order, Owners
      <4> QED BY <2>1, <4>1 DEF TaskOf
    <3> QED BY <2>1, <3>1 DEF Owned
  <2>2. CASE s \in registered
    <3>1. /\ s.endpoint = object[s.owner].link
          /\ \/ s = unknown[s.owner][1] \/ s = unknown[s.owner][2]
             \/ thread[t].device = s.owner /\ s \in thread[t].made
      BY <2>2, OwnedOf, RegisteredAre DEF Filtered
    <3> QED BY <3>1 DEF Owned
  <2> QED BY <2>1, <2>2
<1>3. \A s \in registered' : s.owner = Adapter => Endpointed(s)'
  <2> SUFFICES ASSUME NEW s \in registered', s.owner = Adapter PROVE Endpointed(s)'
    OBVIOUS
  <2>1. CASE s \in made
    <3>1. t = Main /\ EndpointOf
      BY <2>1, Numbers, WorkPlaces, ThreadTasksAre DEF Order, RefsInv, ControlInv, ThreadPlaces
    <3>2. installed \in Nat /\ installed > 0 /\ s.endpoint = AllEndpoints[installed]
      BY <2>1, <3>1 DEF EndpointOf, RefsInv, ControlInv, FilterTypes
    <3>3. installed \in 1 .. installed
      BY <3>2
    <3> QED BY <3>2, <3>3 DEF Endpointed, AllEndpoints
  <2>2. CASE s \in registered
    BY <2>2, RegisteredAre DEF Filtered, Endpointed, AllEndpoints
  <2> QED BY <2>1, <2>2
<1>4. RegisteredKnown'
  BY <1>2, <1>3, RegisteredAre, RegisteredAreNext DEF Filtered, PairOf
<1>5. \A u \in Threads : u # t => thread'[u] = thread[u] /\ thread[u].at \notin Installing \cup Removal
  BY DEF Alone, Moves
<1>6. ConnectedKnown'
  <2> SUFFICES ASSUME NEW c \in connected, NEW u \in Threads
               PROVE  /\ thread'[u].at \in Installing => c[1].endpoint # thread'[u].endpoint
                      /\ thread'[u].at \in {"RemoveWave", "RemoveTopology"} => c # unknown[thread'[u].device]
    BY DEF Filtered, ConnectedKnown
  <2>1. CASE u = t
    BY <2>1, WorkPlaces DEF Filtered, ConnectedKnown
  <2>2. CASE u # t
    BY <1>5, <2>2 DEF Filtered, ConnectedKnown
  <2> QED BY <2>1, <2>2
<1>7. WaveGone'
  BY <1>5, WorkPlaces DEF WaveGone, At
<1> QED BY <1>4, <1>6, <1>7

LEMMA TopologyFiltered ==
  ASSUME RefsInv, Order, Filtered, NEW t \in Threads, Alone(t), InstallTopology(t), UNCHANGED <<object, installed>>
  PROVE  /\ Filtered' /\ Moves(t) /\ thread'[t].at = "Wave" /\ UNCHANGED unknown
         /\ thread'[t].device = thread[t].device /\ thread'[t].action = thread[t].action
         /\ thread'[t].endpoint = thread[t].endpoint
<1>1. PICK s \in Given(t, "Topo"), made \in SUBSET Given(t, "Topo"), ok \in Filtering(t) :
        /\ Install(t, "Topo", s, made, ok)
        /\ thread' = [thread EXCEPT ![t].at = "Wave", ![t].topo = s, ![t].made = made]
  BY DEF InstallTopology
<1>2. thread \in [Threads -> Thread] /\ thread[t] \in Thread /\ thread[t].at = "Topology"
      /\ UNCHANGED <<connected, unknown>>
  BY DEF RefsInv, ControlInv, FilterTypes, Thread, InstallTopology, At
<1>3. PICK p : p = [thread[t] EXCEPT !.at = "Wave", !.topo = s, !.made = made]
  OBVIOUS
<1>4. /\ p.at = "Wave" /\ p.topo = s /\ p.made = made /\ p.device = thread[t].device
      /\ p.action = thread[t].action /\ p.endpoint = thread[t].endpoint
  BY <1>2, <1>3 DEF Thread
<1>5. thread'[t] = p /\ Moves(t)
  BY <1>1, <1>2, <1>3 DEF Moves
<1>6. PICK new : new = Subdevice(thread[t].endpoint, "Topo", thread[t].device)
  OBVIOUS
<1>7. /\ registered' = registered \cup made /\ m_SubdeviceCache' \subseteq m_SubdeviceCache \cup made
      /\ (s = new /\ made = {new}) \/ (s = NoSubdevice /\ made = {} /\ ~ok)
      /\ new.part = "Topo" /\ new.owner = thread[t].device /\ new.endpoint = thread[t].endpoint
  BY <1>1, <1>2, <1>6, PartMade
<1>8. MadeOf(t) /\ thread[t].made = {}
  BY <1>2, MadeAre DEF Filtered, MadeOf
<1>9. RegisteredKnown' /\ ConnectedKnown' /\ WaveGone'
  BY <1>2, <1>4, <1>5, <1>7, <1>8, MadeRegistered, WorkPlaces
<1>10. MadeOf(t)'
  <2>1. \A x \in registered' : x.endpoint = thread[t].endpoint => x \in made
    BY <1>2, <1>7, <1>8, WorkPlaces DEF MadeOf
  <2> QED BY <1>4, <1>5, <1>7, <2>1 DEF MadeOf
<1>11. MadeAlone'
  BY <1>5, <1>10, MadeNext DEF Filtered
<1> QED BY <1>2, <1>4, <1>5, <1>9, <1>11 DEF Filtered

LEMMA WaveFiltered ==
  ASSUME RefsInv, Order, Filtered, NEW t \in Threads, Alone(t), InstallWave(t), UNCHANGED <<object, installed>>
  PROVE  /\ Filtered' /\ Moves(t) /\ thread'[t].at = "Connect" /\ UNCHANGED unknown
         /\ thread'[t].device = thread[t].device /\ thread'[t].action = thread[t].action
         /\ thread'[t].endpoint = thread[t].endpoint
<1>1. PICK s \in Given(t, "Wave"), made \in SUBSET Given(t, "Wave"), ok \in Filtering(t) :
        /\ Install(t, "Wave", s, made, ok)
        /\ thread' = [thread EXCEPT ![t].at = "Connect", ![t].wave = s, ![t].made = @ \cup made, ![t].ok = ok]
  BY DEF InstallWave
<1>2. thread \in [Threads -> Thread] /\ thread[t] \in Thread /\ thread[t].at = "Wave"
      /\ UNCHANGED <<connected, unknown>>
  BY DEF RefsInv, ControlInv, FilterTypes, Thread, InstallWave, At
<1>3. PICK p : p = [thread[t] EXCEPT !.at = "Connect", !.wave = s, !.made = @ \cup made, !.ok = ok]
  OBVIOUS
<1>4. /\ p.at = "Connect" /\ p.wave = s /\ p.made = thread[t].made \cup made /\ p.device = thread[t].device
      /\ p.action = thread[t].action /\ p.endpoint = thread[t].endpoint /\ p.topo = thread[t].topo /\ p.ok = ok
  BY <1>2, <1>3 DEF Thread
<1>5. thread'[t] = p /\ Moves(t)
  BY <1>1, <1>2, <1>3 DEF Moves
<1>6. PICK new : new = Subdevice(thread[t].endpoint, "Wave", thread[t].device)
  OBVIOUS
<1>7. /\ registered' = registered \cup made /\ m_SubdeviceCache' \subseteq m_SubdeviceCache \cup made
      /\ (s = new /\ made = {new}) \/ (s = NoSubdevice /\ made = {} /\ ~ok)
      /\ new.part = "Wave" /\ new.owner = thread[t].device /\ new.endpoint = thread[t].endpoint
  BY <1>1, <1>2, <1>6, PartMade
<1>8. MadeOf(t)
  BY MadeAre DEF Filtered
<1>9. RegisteredKnown' /\ ConnectedKnown' /\ WaveGone'
  BY <1>2, <1>4, <1>5, <1>7, MadeRegistered, WorkPlaces
<1>10. MadeOf(t)'
  <2>1. \A x \in registered' : x.endpoint = thread[t].endpoint => x \in p.made
    BY <1>2, <1>4, <1>7, <1>8, WorkPlaces DEF MadeOf
  <2>2. p.made \subseteq registered' /\ p.made \subseteq {p.topo, p.wave}
    BY <1>2, <1>4, <1>7, <1>8 DEF MadeOf
  <2>3. \A x \in p.made : x.endpoint = p.endpoint /\ x.owner = p.device
    BY <1>4, <1>7, <1>8 DEF MadeOf
  <2>4. p.topo = NoSubdevice \/ (p.topo \in p.made /\ p.topo.part = "Topo")
    BY <1>2, <1>4, <1>8 DEF MadeOf
  <2>5. (p.wave = NoSubdevice \/ (p.wave \in p.made /\ p.wave.part = "Wave")) /\ (p.ok => p.wave # NoSubdevice)
    <3>1. NoSubdevice.part = "None"
      BY DEF NoSubdevice
    <3> QED BY <1>4, <1>7, <3>1
  <2> QED BY <1>4, <1>5, <2>1, <2>2, <2>3, <2>4, <2>5 DEF MadeOf
<1>11. MadeAlone'
  BY <1>5, <1>10, MadeNext DEF Filtered
<1> QED BY <1>2, <1>4, <1>5, <1>9, <1>11 DEF Filtered

\* The filters of a thread at "Connect".
LEMMA AtConnect ==
  ASSUME RefsInv, Order, Filtered, NEW t \in Threads, thread[t].at = "Connect", NEW i, i = thread[t]
  PROVE  /\ i \in Thread /\ i.made \subseteq {i.topo, i.wave} /\ i.made \subseteq registered
         /\ i.topo = NoSubdevice \/ (i.topo \in i.made /\ i.topo = Subdevice(i.endpoint, "Topo", i.device))
         /\ i.wave = NoSubdevice \/ (i.wave \in i.made /\ i.wave = Subdevice(i.endpoint, "Wave", i.device))
         /\ i.ok => i.wave # NoSubdevice
         /\ \A s \in i.made : s.endpoint = i.endpoint /\ s.owner = i.device
         /\ i.device \in Objects => /\ i.action = "Start" /\ Bare(i.device)
                                    /\ i.endpoint = object[i.device].link
<1>1. i \in Thread /\ MadeOf(t) /\ TaskOf(t)
  BY MadeAre, ThreadTasksAre DEF RefsInv, ControlInv, FilterTypes, Thread, Order, Filtered
<1>2. \A s \in Subs : s = Subdevice(s.endpoint, s.part, s.owner)
  BY DEF Subs, Subdevice
<1>3. i.topo \in Subs /\ i.wave \in Subs
  BY <1>1 DEF Thread
<1>4. /\ i.made \subseteq {i.topo, i.wave} /\ i.made \subseteq registered
      /\ i.topo = NoSubdevice \/ (i.topo \in i.made /\ i.topo.part = "Topo")
      /\ i.wave = NoSubdevice \/ (i.wave \in i.made /\ i.wave.part = "Wave")
      /\ i.ok => i.wave # NoSubdevice
      /\ \A s \in i.made : s.endpoint = i.endpoint /\ s.owner = i.device
  BY <1>1 DEF MadeOf
<1>5. i.topo \in i.made /\ i.topo.part = "Topo" => i.topo = Subdevice(i.endpoint, "Topo", i.device)
  BY <1>2, <1>3, <1>4
<1>6. i.wave \in i.made /\ i.wave.part = "Wave" => i.wave = Subdevice(i.endpoint, "Wave", i.device)
  BY <1>2, <1>3, <1>4
<1>7. i.device \in Objects => i.action = "Start" /\ Bare(i.device) /\ i.endpoint = object[i.device].link
  BY <1>1, WorkPlaces DEF TaskOf
<1> QED BY <1>1, <1>4, <1>5, <1>6, <1>7

LEMMA ConnectFiltered ==
  ASSUME RefsInv, Order, Filtered, NEW t \in Threads, Alone(t), NEW next \in {"Release", "Installed"},
         InstallConnect(t, next), UNCHANGED <<object, installed>>
  PROVE  /\ Filtered' /\ Moves(t) /\ thread'[t].at = next
         /\ thread'[t].device = thread[t].device /\ thread'[t].action = thread[t].action
         /\ \A d \in Objects : d # thread[t].device => unknown'[d] = unknown[d]
<1>1. PICK i : i = thread[t]
  OBVIOUS
<1>2. PICK both : both = (i.topo # NoSubdevice /\ i.wave # NoSubdevice)
  OBVIOUS
<1>3. PICK ok \in BOOLEAN :
        /\ ~both => ok = i.ok
        /\ IF both THEN ConnectTopologies(i.topo, i.wave, ok) ELSE UNCHANGED connected
        /\ IF ok
           THEN UNCHANGED <<m_SubdeviceCache, registered>>
           ELSE /\ registered' = registered \ i.made
                /\ m_SubdeviceCache' = {c \in m_SubdeviceCache :
                     \A s \in i.made : s.endpoint # c.endpoint \/ s.part # c.part}
        /\ unknown' = IF ok /\ i.device # Adapter
                      THEN [unknown EXCEPT ![i.device] = <<i.topo, i.wave>>] ELSE unknown
        /\ thread' = [thread EXCEPT ![t] = [Idle EXCEPT
             !.at = next, !.device = i.device, !.action = i.action, !.ok = ok]]
  BY <1>1, <1>2 DEF InstallConnect, Filtering, Outcome
<1>4. PICK p : p = [Idle EXCEPT !.at = next, !.device = i.device, !.action = i.action, !.ok = ok]
  OBVIOUS
<1>5. p.at = next /\ p.device = i.device /\ p.action = i.action /\ p.made = {}
  BY <1>4 DEF Idle
<1>6. thread \in [Threads -> Thread] /\ thread[t].at = "Connect" /\ unknown \in [Objects -> Subs \X Subs]
      /\ i.device \in Owners
  BY <1>1 DEF RefsInv, ControlInv, FilterTypes, Thread, InstallConnect, At
<1>7. thread'[t] = p /\ Moves(t)
  BY <1>3, <1>4, <1>6 DEF Moves
<1>8. /\ i \in Thread /\ i.made \subseteq {i.topo, i.wave} /\ i.made \subseteq registered
      /\ i.topo = NoSubdevice \/ (i.topo \in i.made /\ i.topo = Subdevice(i.endpoint, "Topo", i.device))
      /\ i.wave = NoSubdevice \/ (i.wave \in i.made /\ i.wave = Subdevice(i.endpoint, "Wave", i.device))
      /\ i.ok => i.wave # NoSubdevice
      /\ \A s \in i.made : s.endpoint = i.endpoint /\ s.owner = i.device
      /\ i.device \in Objects => /\ i.action = "Start" /\ Bare(i.device)
                                 /\ i.endpoint = object[i.device].link
  BY <1>1, <1>6, AtConnect
<1>9. \A u \in Threads : u # t => /\ thread'[u] = thread[u] /\ thread[u].at \notin Installing \cup Removal
                                  /\ thread[u].made = {} /\ thread[u].device = Adapter
  <2> SUFFICES ASSUME NEW u \in Threads \ {t}
               PROVE  /\ thread'[u] = thread[u] /\ thread[u].at \notin Installing \cup Removal
                      /\ thread[u].made = {} /\ thread[u].device = Adapter
    OBVIOUS
  <2>1. thread'[u] = thread[u] /\ thread[u].at \notin Installing \cup Removal /\ thread[u].device = Adapter
    BY <1>7 DEF Alone, Moves
  <2>2. MadeOf(u)
    BY MadeAre DEF Filtered
  <2> QED BY <2>1, <2>2, WorkPlaces DEF MadeOf
<1>10. MadeOf(t)'
  BY <1>5, <1>7, WorkPlaces DEF MadeOf
<1>11. MadeAlone'
  BY <1>7, <1>10, MadeNext DEF Filtered
<1>12. WaveGone'
  BY <1>5, <1>7, <1>9, WorkPlaces DEF WaveGone, At
<1>13. \A d \in Objects : d # i.device => unknown'[d] = unknown[d]
  BY <1>3, <1>6
<1>14. \A c \in connected : c[1].endpoint # i.endpoint /\ c[2].endpoint # i.endpoint
                            /\ c[1].endpoint = c[2].endpoint /\ c[1] \in registered /\ c[2] \in registered
  BY <1>1, <1>6, WorkPlaces DEF Filtered, ConnectedKnown
<1>15. \A u \in Threads : thread'[u].at \notin Installing /\ thread'[u].at \notin {"RemoveWave", "RemoveTopology"}
  BY <1>5, <1>7, <1>9, WorkPlaces
<1>16. NoSubdevice.part = "None" /\ \A s \in registered : s.part # "None" /\ s # NoSubdevice
  <2>1. NoSubdevice.part = "None"
    BY DEF NoSubdevice
  <2> QED BY <2>1, RegisteredAre DEF Filtered
<1>17. \A s \in registered : s.owner # Adapter =>
         /\ s.owner \in Objects /\ s.endpoint = object[s.owner].link
         /\ \/ s = unknown[s.owner][1] \/ s = unknown[s.owner][2]
            \/ i.device = s.owner /\ s \in i.made
  <2>1. \A s \in registered : s \in Subs /\ (s.owner # Adapter => s.owner \in Objects)
    BY DEF RefsInv, ControlInv, FilterTypes, Subs, Owners
  <2> QED BY <1>1, <2>1, OwnedOf, RegisteredAre DEF Filtered
<1>18. ASSUME ok PROVE Filtered'
  <2>1. UNCHANGED <<m_SubdeviceCache, registered>>
        /\ connected' = (IF both THEN connected \cup {<<i.topo, i.wave>>} ELSE connected)
    BY <1>3, <1>18 DEF ConnectTopologies
  <2>2. i.device \in Objects => unknown'[i.device] = <<i.topo, i.wave>>
    BY <1>3, <1>6, <1>18, Numbers
  <2>3. ASSUME NEW s \in registered, s.owner # Adapter PROVE Owned(s)'
    <3>1. CASE s.owner = i.device
      <4>1. s \in i.made
        BY <1>8, <1>16, <1>17, <2>3, <3>1 DEF Bare
      <4> QED BY <1>8, <1>17, <2>2, <2>3, <3>1, <4>1 DEF Owned
    <3>2. CASE s.owner # i.device
      BY <1>13, <1>17, <2>3, <3>2 DEF Owned
    <3> QED BY <3>1, <3>2
  <2>4. ASSUME NEW d \in Objects PROVE PairOf(d)'
    <3>1. CASE d = i.device
      BY <1>8, <2>2, <3>1 DEF PairOf
    <3>2. CASE d # i.device
      BY <1>13, <3>2, RegisteredAre DEF PairOf, Filtered
    <3> QED BY <3>1, <3>2
  <2>5. RegisteredKnown'
    BY <2>1, <2>3, <2>4, RegisteredAre, RegisteredAreNext DEF Filtered, Endpointed, AllEndpoints
  <2>6. ConnectedKnown'
    <3> SUFFICES ASSUME NEW c \in connected'
                 PROVE  /\ c[1] \in registered' /\ c[2] \in registered'
                        /\ c[1].owner = c[2].owner /\ c[1].endpoint = c[2].endpoint
                        /\ c[1].owner # Adapter => c = unknown'[c[1].owner]
      BY <1>15 DEF ConnectedKnown
    <3>1. CASE c \in connected
      <4>1. c[1] \in registered /\ c[2] \in registered /\ c[1].owner = c[2].owner /\ c[1].endpoint = c[2].endpoint
            /\ (c[1].owner # Adapter => c = unknown[c[1].owner])
        BY <3>1 DEF Filtered, ConnectedKnown
      <4>2. c[1].owner # Adapter => c[1].owner \in Objects /\ c[1].owner # i.device
        BY <1>8, <1>16, <1>17, <4>1 DEF Bare
      <4> QED BY <1>13, <2>1, <4>1, <4>2
    <3>2. CASE both /\ c = <<i.topo, i.wave>>
      <4>1. c[1] = i.topo /\ c[2] = i.wave /\ i.topo \in i.made /\ i.wave \in i.made
        BY <1>2, <1>8, <3>2
      <4>2. c[1] \in registered /\ c[2] \in registered /\ c[1].owner = i.device /\ c[2].owner = i.device
            /\ c[1].endpoint = c[2].endpoint
        BY <1>8, <4>1
      <4>3. i.device # Adapter => i.device \in Objects
        BY <1>6 DEF Owners
      <4> QED BY <2>1, <2>2, <3>2, <4>2, <4>3
    <3> QED BY <2>1, <3>1, <3>2
  <2> QED BY <1>11, <1>12, <2>5, <2>6 DEF Filtered
<1>19. ASSUME ~ok PROVE Filtered'
  <2>1. /\ registered' = registered \ i.made /\ unknown' = unknown /\ connected' \subseteq connected
        /\ m_SubdeviceCache' = {c \in m_SubdeviceCache : \A s \in i.made : s.endpoint # c.endpoint \/ s.part # c.part}
    BY <1>3, <1>19 DEF ConnectTopologies
  <2>2. \A s \in registered' : s.owner # Adapter => Owned(s)'
    BY <1>17, <2>1 DEF Owned
  <2>3. m_SubdeviceCache' \subseteq registered'
    BY <2>1, RegisteredAre DEF Filtered
  <2>4. RegisteredKnown'
    BY <2>1, <2>2, <2>3, RegisteredAre, RegisteredAreNext DEF Filtered, Endpointed, AllEndpoints, PairOf
  <2>5. ConnectedKnown'
    <3> SUFFICES ASSUME NEW c \in connected'
                 PROVE  /\ c[1] \in registered' /\ c[2] \in registered'
                        /\ c[1].owner = c[2].owner /\ c[1].endpoint = c[2].endpoint
                        /\ c[1].owner # Adapter => c = unknown'[c[1].owner]
      BY <1>15 DEF ConnectedKnown
    <3>1. c[1] \in registered /\ c[2] \in registered /\ c[1].owner = c[2].owner /\ c[1].endpoint = c[2].endpoint
          /\ (c[1].owner # Adapter => c = unknown[c[1].owner])
      BY <2>1 DEF Filtered, ConnectedKnown
    <3>2. c[1] \notin i.made /\ c[2] \notin i.made
      BY <1>8, <1>14, <2>1
    <3> QED BY <2>1, <3>1, <3>2
  <2> QED BY <1>11, <1>12, <2>4, <2>5 DEF Filtered
<1>20. Filtered'
  BY <1>18, <1>19
<1> QED BY <1>1, <1>5, <1>7, <1>13, <1>20

\* The names of a device's pair of filters.
LEMMA PairNames ==
  ASSUME RefsInv, Filtered, NEW d \in Objects
  PROVE  /\ unknown[d] = <<unknown[d][1], unknown[d][2]>>
         /\ \A s \in registered : /\ s # NoSubdevice
                                  /\ s = unknown[d][1] => s.endpoint = object[d].link /\ s.part = "Topo" /\ s.owner = d
                                  /\ s = unknown[d][2] => s.endpoint = object[d].link /\ s.part = "Wave" /\ s.owner = d
<1>1. unknown[d] \in Subs \X Subs
  BY DEF RefsInv, ControlInv, FilterTypes
<1>2. unknown[d] = <<unknown[d][1], unknown[d][2]>>
  BY <1>1
<1>3. PairOf(d) /\ \A s \in registered : s.part # "None"
  BY RegisteredAre DEF Filtered
<1>4. NoSubdevice.part = "None"
  BY DEF NoSubdevice
<1>5. \A p \in {"Topo", "Wave"} :
        LET s == Subdevice(object[d].link, p, d) IN s.endpoint = object[d].link /\ s.part = p /\ s.owner = d
  BY DEF Subdevice
<1> QED BY <1>2, <1>3, <1>4, <1>5 DEF PairOf

\* Connections of the device are its pair.
LEMMA ConnectedPair ==
  ASSUME RefsInv, Filtered, NEW d \in Objects, NEW c \in connected, c[1].owner = d \/ c[2].owner = d
  PROVE  c = unknown[d]
  BY Numbers DEF Filtered, ConnectedKnown

\* The wave filter, then the topology filter of a device is taken back.
LEMMA FilterTakenBack ==
  ASSUME RefsInv, Filtered, NEW d \in Objects, NEW k \in {1, 2}, NEW part, NEW endpoint, endpoint = object[d].link,
         part = IF k = 1 THEN "Topo" ELSE "Wave",
         registered' = registered \ {unknown[d][k]}, unknown[d] \notin connected, connected' = connected,
         m_SubdeviceCache' = m_SubdeviceCache \ GetCachedSubdevice(endpoint, part)
  PROVE  /\ m_SubdeviceCache' \subseteq registered'
         /\ \A c \in connected : c[1] \in registered' /\ c[2] \in registered'
         /\ \A c \in connected : c[1].owner # d
<1>1. \A s \in registered : s = unknown[d][k] => s.endpoint = endpoint /\ s.part = part /\ s.owner = d
  BY PairNames
<1>2. m_SubdeviceCache' \subseteq registered'
  <2> SUFFICES ASSUME NEW s \in m_SubdeviceCache, s = unknown[d][k] PROVE s \in GetCachedSubdevice(endpoint, part)
    BY RegisteredAre DEF Filtered
  <2>1. s \in registered
    BY RegisteredAre DEF Filtered
  <2> QED BY <1>1, <2>1 DEF GetCachedSubdevice
<1>3. \A c \in connected : c[1].owner # d /\ c[2].owner # d
  BY ConnectedPair
<1>4. \A c \in connected : c[1] \in registered /\ c[2] \in registered
  BY DEF Filtered, ConnectedKnown
<1> QED BY <1>1, <1>2, <1>3, <1>4

LEMMA RemoveFiltered ==
  ASSUME RefsInv, Order, Filtered, NEW t \in Threads, Alone(t), UNCHANGED <<object, installed>>,
         RemoveDisconnect(t, "Release") \/ RemoveWave(t) \/ RemoveTopology(t, "Release")
  PROVE  /\ Filtered' /\ Moves(t)
         /\ thread'[t].device = thread[t].device /\ thread'[t].action = thread[t].action
         /\ thread'[t].endpoint = thread[t].endpoint /\ thread[t].action = "Stop" /\ thread[t].device \in Objects
         /\ thread'[t].at \in {"Release", "RemoveWave", "RemoveTopology"}
         /\ thread'[t].at = "Release" => Bare(thread[t].device)'
         /\ \A d \in Objects : d # thread[t].device => unknown'[d] = unknown[d]
         /\ Bare(thread[t].device) => Bare(thread[t].device)'
<1>1. PICK d : d = thread[t].device
  OBVIOUS
<1>2. /\ thread \in [Threads -> Thread] /\ thread[t] \in Thread /\ unknown \in [Objects -> Subs \X Subs]
      /\ thread[t].at \in RemovingFilters
  BY WorkPlaces DEF RefsInv, ControlInv, FilterTypes, Thread, RemoveDisconnect, RemoveWave, RemoveTopology, At
<1>3. d \in Objects
  <2>1. d \in Owners /\ d # Adapter
    BY <1>1, <1>2, WorkPlaces, Numbers DEF Thread, RefsInv, ControlInv, ThreadPlaces
  <2> QED BY <2>1 DEF Owners
<1>4. thread[t].action = "Stop" /\ thread[t].endpoint = object[d].link
  BY <1>1, <1>2, <1>3, WorkPlaces, ThreadTasksAre DEF Order, TaskOf
<1>5. PICK to \in {"Release", "RemoveWave", "RemoveTopology"} : Goto(t, to)
  BY DEF RemoveDisconnect, RemoveWave, RemoveTopology
<1>6. PICK p : p = [thread[t] EXCEPT !.at = to]
  OBVIOUS
<1>7. p.at = to /\ p.device = d /\ p.action = thread[t].action /\ p.endpoint = thread[t].endpoint /\ p.made = thread[t].made
  BY <1>1, <1>2, <1>6 DEF Thread
<1>8. thread'[t] = p /\ Moves(t)
  BY <1>2, <1>5, <1>6 DEF Goto, Moves
<1>9. \A u \in Threads : thread[u].made = {} /\ thread'[u].made = {}
  <2> SUFFICES ASSUME NEW u \in Threads PROVE thread[u].made = {} /\ thread'[u].made = {}
    OBVIOUS
  <2>1. MadeOf(u) /\ (u # t => thread'[u] = thread[u] /\ thread[u].at \notin Installing)
    BY <1>8, MadeAre DEF Filtered, Alone, Moves
  <2>2. thread[u].made = {}
    BY <1>2, <2>1, WorkPlaces DEF MadeOf
  <2> QED BY <1>7, <1>8, <2>1, <2>2
<1>10. MadeAlone'
  <2>1. MadeOf(t)'
    BY <1>7, <1>8, <1>9, WorkPlaces DEF MadeOf
  <2> QED BY <1>8, <2>1, MadeNext DEF Filtered
<1>11. \A u \in Threads : /\ thread'[u].at \notin Installing
                          /\ thread'[u].at \in {"RemoveWave", "RemoveTopology"} => u = t
  BY <1>7, <1>8, WorkPlaces DEF Alone, Moves
<1>12. \A s \in registered : s.owner # Adapter =>
         s.owner \in Objects /\ s.endpoint = object[s.owner].link /\ (s = unknown[s.owner][1] \/ s = unknown[s.owner][2])
  BY <1>9, OwnedByPair
<1>13. registered' \subseteq registered
  BY DEF RemoveDisconnect, RemoveWave, RemoveTopology, UnregisterSubdevice
<1>14. \A s \in registered' : s.part # "None" /\ (s.owner = Adapter => Endpointed(s)')
  BY <1>13, RegisteredAre DEF Filtered, Endpointed, AllEndpoints
<1>15. CASE RemoveDisconnect(t, "Release")
  <2>1. UNCHANGED <<m_SubdeviceCache, registered, unknown>>
    BY <1>15 DEF RemoveDisconnect
  <2>2. RegisteredKnown'
    <3>1. \A s \in registered' : s.owner # Adapter => Owned(s)'
      BY <1>12, <2>1 DEF Owned
    <3> QED BY <1>14, <2>1, <3>1, RegisteredAre, RegisteredAreNext DEF Filtered, PairOf
  <2>3. \/ Bare(d) /\ thread'[t].at = "Release" /\ connected' = connected
        \/ ~Bare(d) /\ thread'[t].at = "RemoveWave" /\ connected' = connected \ {unknown[d]}
    <3>1. CASE Bare(d)
      <4>1. Goto(t, "Release") /\ connected' = connected
        BY <1>1, <1>15, <3>1 DEF RemoveDisconnect, Bare
      <4>2. thread'[t].at = "Release"
        BY <1>2, <4>1 DEF Goto, Thread
      <4> QED BY <3>1, <4>1, <4>2
    <3>2. CASE ~Bare(d)
      <4>1. /\ Goto(t, "RemoveWave")
            /\ IF NoSubdevice \in {unknown[d][1], unknown[d][2]} THEN connected' = connected
               ELSE connected' = connected \ {<<unknown[d][1], unknown[d][2]>>}
        BY <1>1, <1>15, <3>2 DEF RemoveDisconnect, DisconnectTopologies, Bare
      <4>2. thread'[t].at = "RemoveWave"
        BY <1>2, <4>1 DEF Goto, Thread
      <4>3. unknown[d] = <<unknown[d][1], unknown[d][2]>>
        BY <1>3, PairNames
      <4>4. NoSubdevice \in {unknown[d][1], unknown[d][2]} => unknown[d] \notin connected
        <5>1. NoSubdevice \notin registered
          BY <1>3, PairNames
        <5> QED BY <5>1 DEF Filtered, ConnectedKnown
      <4> QED BY <3>2, <4>1, <4>2, <4>3, <4>4
    <3> QED BY <3>1, <3>2
  <2>4. ConnectedKnown'
    <3> SUFFICES ASSUME NEW c \in connected'
                 PROVE  /\ c[1] \in registered' /\ c[2] \in registered'
                        /\ c[1].owner = c[2].owner /\ c[1].endpoint = c[2].endpoint
                        /\ c[1].owner # Adapter => c = unknown'[c[1].owner]
                        /\ thread'[t].at \in {"RemoveWave", "RemoveTopology"} => c # unknown'[thread'[t].device]
      BY <1>11 DEF ConnectedKnown
    <3>1. c \in connected
      BY <2>3
    <3> QED BY <1>7, <1>8, <2>1, <2>3, <3>1 DEF Filtered, ConnectedKnown
  <2>5. WaveGone'
    BY <1>11, <2>3 DEF WaveGone, At
  <2>6. Filtered'
    BY <1>10, <2>2, <2>4, <2>5 DEF Filtered
  <2>7. thread'[t].at = "Release" => Bare(thread[t].device)'
    BY <1>7, <1>8, <2>1, <2>3 DEF Bare
  <2>8. Bare(thread[t].device) => Bare(thread[t].device)'
    BY <1>1, <1>7, <1>8, <2>1 DEF Bare
  <2> QED BY <1>1, <1>3, <1>4, <1>7, <1>8, <2>1, <2>6, <2>7, <2>8
<1>16. CASE RemoveWave(t)
  <2>1. /\ thread[t].at = "RemoveWave" /\ UNCHANGED <<connected, unknown>>
        /\ m_SubdeviceCache' = m_SubdeviceCache \ GetCachedSubdevice(thread[t].endpoint, "Wave")
        /\ registered' = registered \ {unknown[d][2]}
    BY <1>1, <1>16 DEF RemoveWave, RemoveCachedSubdevice, UnregisterSubdevice, At
  <2>2. thread'[t].at = "RemoveTopology"
    BY <1>2, <1>16 DEF RemoveWave, Goto, Thread
  <2>3. unknown[d] \notin connected
    BY <1>1, <2>1 DEF Filtered, ConnectedKnown
  <2>4. PICK part : part = "Wave"
    OBVIOUS
  <2>5. m_SubdeviceCache' \subseteq registered' /\ \A c \in connected : c[1] \in registered' /\ c[2] \in registered'
    BY <1>3, <1>4, <2>1, <2>3, <2>4, FilterTakenBack
  <2>6. RegisteredKnown'
    <3>1. \A s \in registered' : s.owner # Adapter => Owned(s)'
      BY <1>12, <1>13, <2>1 DEF Owned
    <3> QED BY <1>14, <2>1, <2>5, <3>1, RegisteredAre, RegisteredAreNext DEF Filtered, PairOf
  <2>7. ConnectedKnown'
    <3> SUFFICES ASSUME NEW c \in connected
                 PROVE  /\ c[1] \in registered' /\ c[2] \in registered'
                        /\ c[1].owner = c[2].owner /\ c[1].endpoint = c[2].endpoint
                        /\ c[1].owner # Adapter => c = unknown[c[1].owner]
                        /\ c # unknown[thread'[t].device]
      BY <1>11, <2>1 DEF ConnectedKnown
    <3> QED BY <1>7, <1>8, <2>3, <2>5 DEF Filtered, ConnectedKnown
  <2>8. WaveGone'
    BY <1>7, <1>8, <1>11, <2>1 DEF WaveGone, At
  <2>9. Filtered'
    BY <1>10, <2>6, <2>7, <2>8 DEF Filtered
  <2>10. Bare(thread[t].device) => Bare(thread[t].device)'
    BY <1>1, <1>7, <1>8, <2>1 DEF Bare
  <2> QED BY <1>1, <1>3, <1>4, <1>7, <1>8, <2>1, <2>2, <2>9, <2>10
<1>17. CASE RemoveTopology(t, "Release")
  <2>1. /\ thread[t].at = "RemoveTopology" /\ connected' = connected
        /\ m_SubdeviceCache' = m_SubdeviceCache \ GetCachedSubdevice(thread[t].endpoint, "Topo")
        /\ registered' = registered \ {unknown[d][1]}
        /\ unknown' = [unknown EXCEPT ![d] = <<NoSubdevice, NoSubdevice>>]
    BY <1>1, <1>17 DEF RemoveTopology, RemoveCachedSubdevice, UnregisterSubdevice, At
  <2>2. thread'[t].at = "Release"
    BY <1>2, <1>17 DEF RemoveTopology, Goto, Thread
  <2>3. unknown[d] \notin connected /\ unknown[d][2] \notin registered
    BY <1>1, <2>1 DEF Filtered, ConnectedKnown, WaveGone, At
  <2>4. PICK part : part = "Topo"
    OBVIOUS
  <2>5. /\ m_SubdeviceCache' \subseteq registered'
        /\ \A c \in connected : c[1] \in registered' /\ c[2] \in registered' /\ c[1].owner # d
    BY <1>3, <1>4, <2>1, <2>3, <2>4, FilterTakenBack
  <2>6. unknown'[d] = <<NoSubdevice, NoSubdevice>> /\ \A e \in Objects : e # d => unknown'[e] = unknown[e]
    BY <1>2, <1>3, <2>1
  <2>7. \A s \in registered' : s.owner # d
    BY <1>3, <1>12, <2>1, <2>3, Numbers
  <2>8. RegisteredKnown'
    <3>1. \A s \in registered' : s.owner # Adapter => Owned(s)'
      BY <1>12, <1>13, <2>6, <2>7 DEF Owned
    <3>2. \A e \in Objects : PairOf(e)'
      BY <2>6, RegisteredAre DEF Filtered, PairOf
    <3> QED BY <1>14, <2>5, <3>1, <3>2, RegisteredAreNext
  <2>9. ConnectedKnown'
    <3> SUFFICES ASSUME NEW c \in connected
                 PROVE  /\ c[1] \in registered' /\ c[2] \in registered'
                        /\ c[1].owner = c[2].owner /\ c[1].endpoint = c[2].endpoint
                        /\ c[1].owner # Adapter => c = unknown'[c[1].owner]
      BY <1>11, <2>1, <2>2 DEF ConnectedKnown
    <3>1. c[1] \in registered /\ c[1].owner # d
      BY <1>13, <2>5
    <3>2. c[1].owner # Adapter => unknown'[c[1].owner] = unknown[c[1].owner]
      BY <1>12, <2>6, <3>1
    <3> QED BY <2>5, <3>2 DEF Filtered, ConnectedKnown
  <2>10. WaveGone'
    BY <1>11, <2>2 DEF WaveGone, At
  <2>11. Filtered'
    BY <1>10, <2>8, <2>9, <2>10 DEF Filtered
  <2>12. Bare(thread[t].device)'
    BY <1>7, <1>8, <2>6 DEF Bare
  <2> QED BY <1>1, <1>3, <1>4, <1>7, <1>8, <2>2, <2>6, <2>11, <2>12
<1> QED BY <1>15, <1>16, <1>17

(***************************************************************************)
(* The steps                                                               *)
(***************************************************************************)

Sound == Order /\ Filtered /\ NothingLeft

\* The other steps leave all of it alone.
LEMMA OthersKeep ==
  ASSUME Sound, UNCHANGED <<subdeviceVars, listVars, installed>>,
         common' = common \/ (common = "Released" /\ common' = "None")
  PROVE  Sound'
<1>1. /\ UNCHANGED <<m_SubdeviceCache, registered, connected, unknown, thread, installed>>
      /\ UNCHANGED <<pnp, m_Devices, m_WorkTasks, object>>
  BY DEF subdeviceVars, filters, listVars
<1>2. ThreadTasks'
  BY <1>1 DEF Sound, Order, ThreadTasks, At, Bare
<1>3. \A d, a : (Runs(d, a)' <=> Runs(d, a)) /\ (Queued(d, a)' <=> Queued(d, a))
  BY <1>1 DEF Runs, Queued
<1>4. \A d : (InUse(d)' <=> InUse(d)) /\ (ToStop(d)' <=> ToStop(d)) /\ (Listed(d)' <=> Listed(d)) /\ (Bare(d)' <=> Bare(d))
  BY <1>1, <1>3 DEF InUse, ToStop, Listed, Bare
<1>5. TasksInOrder'
  <2>1. ~InUse(pnp.device)' /\ ~ToStop(pnp.device)' <=> ~InUse(pnp.device) /\ ~ToStop(pnp.device)
    BY <1>1, <1>4 DEF InUse, ToStop, Queued, Runs, Bare
  <2>2. \A d \in Objects : InUse(d)' => (Listed(d)' \/ ToStop(d)') /\ object'[d].m_State # "Stopped"
    BY <1>1, <1>4 DEF Sound, Order, TasksInOrder
  <2>3. pnp'.at = "Insert" => ~InUse(pnp.device)' /\ ~ToStop(pnp.device)' /\ object'[pnp'.device].m_State # "Stopped"
    BY <1>1, <2>1 DEF Sound, Order, TasksInOrder
  <2> QED BY <1>1, <2>2, <2>3 DEF Sound, Order, TasksInOrder, Bare
<1>6. StopComesFirst'
  BY <1>1 DEF Sound, Order, StopComesFirst, Bare, Runs
<1>7. RegisteredKnown'
  BY <1>1 DEF Sound, Filtered, RegisteredKnown, AllEndpoints
<1>8. MadeAlone' /\ ConnectedKnown' /\ WaveGone'
  BY <1>1 DEF Sound, Filtered, MadeAlone, ConnectedKnown, WaveGone, At
<1>9. NothingLeft'
  BY <1>1 DEF Sound, NothingLeft, At
<1> QED BY <1>2, <1>5, <1>6, <1>7, <1>8, <1>9 DEF Sound, Order, Filtered

\* The notification callback leaves threads and filters alone.
LEMMA NoticeKeeps ==
  ASSUME RefsInv, Sound, Order', UNCHANGED <<filters, thread, adapterVars>>,
         \A d \in Objects : \/ object'[d].link = object[d].link
                            \/ Bare(d) /\ \A t \in Threads : thread[t].device # d
  PROVE  Sound'
<1>1. UNCHANGED <<m_SubdeviceCache, registered, connected, unknown, thread, installed, common>>
  BY DEF filters, adapterVars
<1>2. Filtered'
  BY <1>1, FilteredFrame DEF Sound
<1>3. NothingLeft'
  BY <1>1 DEF Sound, NothingLeft, At
<1> QED BY <1>2, <1>3 DEF Sound

LEMMA NotifyKeeps ==
  ASSUME RefsInv, Sound, NEW l \in Links, NEW e \in {"Arrival", "Removal"}, Notify(e, l)
  PROVE  Sound'
<1>1. /\ pnp' = [NoNotice EXCEPT !.at = e, !.link = l]
      /\ UNCHANGED <<filters, thread, adapterVars, m_Devices, m_WorkTasks, object>>
  BY DEF Notify, EvtBthHfpScoBypassInterfaceChange, EvtUsbSidebandInterfaceChange, InterfaceChange,
         subdeviceVars, list
<1>2. pnp'.at = e /\ pnp'.link = l
  BY <1>1, NoNoticeIs DEF Notice
<1>3. Ages
  BY <1>1 DEF Ages
<1>4. UNCHANGED <<unknown, installed>>
  BY <1>1 DEF filters, adapterVars
<1>5. Order'
  BY <1>1, <1>2, <1>3, <1>4, OrderNotice DEF Sound
<1> QED BY <1>1, <1>5, NoticeKeeps

LEMMA NotifiedKeeps ==
  ASSUME RefsInv, Sound, Notified
  PROVE  Sound'
<1>1. /\ ArrivalCreate \/ ArrivalInsert \/ RemovalFind \/ RemovalTask
      /\ UNCHANGED <<filters, thread, adapterVars>> /\ UNCHANGED <<unknown, installed>>
  BY DEF Notified, BthHfpScoInterfaceArrival, UsbSidebandInterfaceArrival, BthHfpScoInterfaceRemoval,
         UsbSidebandInterfaceRemoval, ArrivalCreate, ArrivalInsert, RemovalFind, RemovalTask, subdeviceVars,
         filters, adapterVars
<1>2. Order /\ ListInv /\ ListTypes /\ (pnp.at # "Idle" => pnp.link \in Links) /\ pnp \in Notice
  BY DEF Sound, Order, TasksInOrder, RefsInv, ListInv, ListTypes, Notice
<1>3. NoNotice.at # "Insert" /\ NoNotice.at = "Idle"
  BY NoNoticeIs
<1>4. pnp.at \in {"Insert", "Remove"} => pnp.device \in Objects /\ object[pnp.device].refs # 0
  <2>1. pnp.at \in {"Insert", "Remove"} => pnp.device \in Objects
    BY DEF RefsInv, ListInv, ListSound, ListTypes, Owners
  <2>2. ASSUME NEW d \in Objects, pnp.device = d PROVE object[d].refs # 0
    BY <1>2, <2>2, RefsAre, Holders DEF ListInv
  <2> QED BY <2>1, <2>2
<1>5. ASSUME Ages, Order' PROVE Sound'
  BY <1>1, <1>5, NoticeKeeps DEF Ages
<1>6. ASSUME Ages, UNCHANGED <<m_WorkTasks, m_Devices>>, pnp'.at # "Insert", pnp'.at # "Idle" => pnp'.link \in Links
      PROVE  Sound'
  BY <1>1, <1>2, <1>5, <1>6, OrderNotice
<1>7. CASE ArrivalCreate
  <2>1. UNCHANGED <<m_WorkTasks, m_Devices>> /\ pnp.at = "Arrival"
    BY <1>7 DEF ArrivalCreate, list
  <2>2. CASE pnp' = NoNotice /\ UNCHANGED object
    BY <1>3, <1>6, <2>1, <2>2 DEF Ages
  <2>3. CASE ~(pnp' = NoNotice /\ UNCHANGED object)
    <3>1. PICK new \in Objects :
            /\ object[new] = Unused /\ pnp' = [pnp EXCEPT !.at = "Insert", !.device = new]
            /\ object' = [object EXCEPT ![new] = [link |-> pnp.link, m_State |-> "Running", refs |-> 1]]
      BY <1>7, <2>3 DEF ArrivalCreate
    <3>2. /\ Order' /\ ~InUse(new) /\ (\A t \in Threads : thread[t].device # new)
          /\ \A d \in Objects \ {new} : object'[d] = object[d]
      BY <1>1, <1>2, <2>1, <3>1, OrderCreated
    <3> QED BY <1>1, <3>2, NoticeKeeps DEF InUse
  <2> QED BY <2>2, <2>3
<1>8. CASE ArrivalInsert
  <2>1. PICK d \in Objects : d = pnp.device
    BY <1>4, <1>8 DEF ArrivalInsert
  <2>2. pnp.at = "Insert" /\ pnp' = NoNotice /\ object[d].refs # 0
    BY <1>4, <1>8, <2>1 DEF ArrivalInsert
  <2>3. CASE Release(d) /\ UNCHANGED <<list, workItem>>
    <3>1. Ages /\ UNCHANGED <<m_WorkTasks, m_Devices>>
      BY <2>2, <2>3, ReleaseAges DEF list
    <3> QED BY <1>3, <1>6, <2>2, <3>1
  <2>4. CASE ~(Release(d) /\ UNCHANGED <<list, workItem>>)
    <3>1. /\ m_Devices' = Append(m_Devices, d)
          /\ m_WorkTasks' = Append(m_WorkTasks, [device |-> d, action |-> "Start"])
          /\ object' = [object EXCEPT ![d].refs = @ + 1]
      BY <1>8, <2>1, <2>4 DEF ArrivalInsert
    <3>2. Ages /\ object'[d].m_State = object[d].m_State
      BY <3>1, CountedAges
    <3>3. Order'
      BY <1>1, <1>2, <2>1, <2>2, <3>1, <3>2, OrderInserted
    <3> QED BY <1>5, <3>2, <3>3
  <2> QED BY <2>3, <2>4
<1>9. CASE RemovalFind
  <2>1. UNCHANGED <<m_WorkTasks, m_Devices>> /\ pnp.at = "Removal"
    BY <1>9 DEF RemovalFind, list
  <2>2. CASE pnp' = NoNotice /\ UNCHANGED object
    BY <1>3, <1>6, <2>1, <2>2 DEF Ages
  <2>3. CASE ~(pnp' = NoNotice /\ UNCHANGED object)
    <3>1. PICK d \in DeviceFind(pnp.link) :
            pnp' = [pnp EXCEPT !.at = "Remove", !.device = d] /\ object' = [object EXCEPT ![d].refs = @ + 1]
      BY <1>9, <2>3 DEF RemovalFind
    <3>2. d \in Objects
      BY DEF DeviceFind
    <3>3. Ages
      BY <3>1, <3>2, CountedAges
    <3>4. pnp'.at = "Remove" /\ pnp'.link = pnp.link
      BY <1>2, <3>1 DEF Notice
    <3> QED BY <1>2, <1>6, <2>1, <3>3, <3>4
  <2> QED BY <2>2, <2>3
<1>10. CASE RemovalTask
  <2>1. PICK d \in Objects : d = pnp.device
    BY <1>4, <1>10 DEF RemovalTask
  <2>2. pnp.at = "Remove" /\ pnp' = NoNotice /\ object[d].refs # 0 /\ Release(d)
    BY <1>4, <1>10, <2>1 DEF RemovalTask
  <2>3. Ages
    BY <2>2, ReleaseAges
  <2>4. CASE UNCHANGED list
    <3>1. UNCHANGED <<m_WorkTasks, m_Devices>>
      BY <2>4 DEF list
    <3> QED BY <1>3, <1>6, <2>2, <2>3, <3>1
  <2>5. CASE ~UNCHANGED list
    <3>1. RemoveEntryList(d) /\ m_WorkTasks' = Append(m_WorkTasks, [device |-> d, action |-> "Stop"])
      BY <1>10, <2>1, <2>5 DEF RemovalTask
    <3>2. \A e \in Objects : Listed(e)' <=> Listed(e) /\ e # d
      BY <1>2, <3>1, EntryRemoved DEF ListInv, ListTypes, ListSound
    <3>3. Order'
      BY <1>1, <1>2, <2>2, <2>3, <3>1, <3>2, OrderRemoved
    <3> QED BY <1>5, <2>3, <3>3
  <2> QED BY <2>4, <2>5
<1> QED BY <1>1, <1>7, <1>8, <1>9, <1>10

\* A thread installs or removes filters.
LEMMA RunKeeps ==
  ASSUME RefsInv, Order, Filtered, NEW t \in Threads, Alone(t), t \in Callbacks => t = 1, UNCHANGED <<listVars, installed>>,
         NEW next \in {"Release", "Installed"}, next = "Installed" => thread[t].device = Adapter,
         \/ InstallTopology(t) \/ InstallWave(t) \/ InstallConnect(t, next)
         \/ RemoveDisconnect(t, "Release") \/ RemoveWave(t) \/ RemoveTopology(t, "Release")
  PROVE  /\ Order' /\ Filtered' /\ Moves(t)
         /\ thread'[t].at \in {"Wave", "Connect", "Release", "Installed", "RemoveWave", "RemoveTopology"}
<1>1. UNCHANGED <<m_WorkTasks, m_Devices, object, pnp>>
  BY DEF listVars
<1>2. LinksKnown' /\ TaskOf(t) /\ (t = Main => EndpointOf) /\ ThreadTasks
  <2>1. LinksKnown /\ TaskOf(t) /\ EndpointOf
    BY ThreadTasksAre DEF Order
  <2> QED BY <1>1, <2>1 DEF LinksKnown, Order
<1>3. ASSUME Moves(t), thread'[t].device = thread[t].device, thread'[t].action = thread[t].action, TaskOf(t)',
             t = Main => EndpointOf', \A d \in Objects : d # thread[t].device => unknown'[d] = unknown[d],
             thread[t].device \in Objects => Bare(thread[t].device)' \/ ~Bare(thread[t].device)
                                             \/ thread[t].action = "Start"
      PROVE  Order'
  <2>1. ThreadTasks'
    BY <1>2, <1>3, ThreadTasksNext
  <2>2. \A d \in Objects : d # thread[t].device => Bare(d)' = Bare(d)
    BY <1>3 DEF Bare
  <2>3. TasksInOrder' /\ StopComesFirst'
    BY <1>1, <1>3, <2>2, OrderKept
  <2> QED BY <2>1, <2>3 DEF Order
<1>4. ASSUME Moves(t), thread'[t].device = thread[t].device, thread'[t].action = thread[t].action,
             thread'[t].endpoint = thread[t].endpoint, thread[t].at \in Installing, UNCHANGED unknown,
             thread'[t].at \in {"Wave", "Connect"}
      PROVE  Order'
  <2>1. \A d : Bare(d)' <=> Bare(d)
    BY <1>4 DEF Bare
  <2>2. thread'[t].at \in Installing /\ thread'[t].at \notin RemovingFilters /\ thread'[t].at # "Release"
        /\ thread[t].at # "Release"
    BY <1>4, WorkPlaces
  <2>3. TaskOf(t)'
    <3>1. CASE thread[t].device \in Objects
      <4>1. PICK d \in Objects : d = thread[t].device
        BY <3>1
      <4>2. thread[t].action = "Start" /\ Bare(d) /\ thread[t].endpoint = object[d].link
        BY <1>2, <1>4, <2>2, <4>1 DEF TaskOf
      <4>3. thread'[t].device = d /\ thread'[t].action = "Start" /\ thread'[t].endpoint = object'[d].link
        BY <1>1, <1>4, <4>1, <4>2
      <4>4. unknown'[d] = <<NoSubdevice, NoSubdevice>>
        BY <1>4, <4>2 DEF Bare
      <4> QED BY <2>2, <4>3, <4>4 DEF TaskOf, Bare
    <3>2. CASE thread[t].device \notin Objects
      BY <1>4, <3>2 DEF TaskOf
    <3> QED BY <3>1, <3>2
  <2>4. t = Main => EndpointOf'
    BY <1>2, <1>4, <2>2 DEF EndpointOf, AllEndpoints
  <2>5. thread[t].device \in Objects => thread[t].action = "Start"
    BY <1>2, <1>4 DEF TaskOf
  <2> QED BY <1>3, <1>4, <2>3, <2>4, <2>5
<1>5. CASE InstallTopology(t)
  <2>1. /\ Filtered' /\ Moves(t) /\ thread'[t].at = "Wave" /\ UNCHANGED unknown
        /\ thread'[t].device = thread[t].device /\ thread'[t].action = thread[t].action
        /\ thread'[t].endpoint = thread[t].endpoint
    BY <1>1, <1>5, TopologyFiltered
  <2>2. thread[t].at \in Installing
    BY <1>5, WorkPlaces DEF InstallTopology, At
  <2> QED BY <1>4, <2>1, <2>2
<1>6. CASE InstallWave(t)
  <2>1. /\ Filtered' /\ Moves(t) /\ thread'[t].at = "Connect" /\ UNCHANGED unknown
        /\ thread'[t].device = thread[t].device /\ thread'[t].action = thread[t].action
        /\ thread'[t].endpoint = thread[t].endpoint
    BY <1>1, <1>6, WaveFiltered
  <2>2. thread[t].at \in Installing
    BY <1>6, WorkPlaces DEF InstallWave, At
  <2> QED BY <1>4, <2>1, <2>2
<1>7. CASE InstallConnect(t, next)
  <2>1. /\ Filtered' /\ Moves(t) /\ thread'[t].at = next
        /\ thread'[t].device = thread[t].device /\ thread'[t].action = thread[t].action
        /\ \A d \in Objects : d # thread[t].device => unknown'[d] = unknown[d]
    BY <1>1, <1>7, ConnectFiltered
  <2>2. thread[t].at \in Installing
    BY <1>7, WorkPlaces DEF InstallConnect, At
  <2>3. next \notin Installing \cup RemovingFilters
    BY WorkPlaces
  <2>4. thread[t].device \in Objects => thread[t].action = "Start" /\ next = "Release"
    BY <1>2, <2>2, Numbers DEF TaskOf
  <2>5. TaskOf(t)' /\ (t = Main => EndpointOf')
    BY <2>1, <2>3, <2>4 DEF TaskOf, EndpointOf
  <2>6. Order'
    BY <1>3, <2>1, <2>4, <2>5
  <2> QED BY <2>1, <2>6
<1>8. CASE RemoveDisconnect(t, "Release") \/ RemoveWave(t) \/ RemoveTopology(t, "Release")
  <2>1. /\ Filtered' /\ Moves(t)
        /\ thread'[t].device = thread[t].device /\ thread'[t].action = thread[t].action
        /\ thread'[t].endpoint = thread[t].endpoint /\ thread[t].action = "Stop" /\ thread[t].device \in Objects
        /\ thread'[t].at \in {"Release", "RemoveWave", "RemoveTopology"}
        /\ thread'[t].at = "Release" => Bare(thread[t].device)'
        /\ \A d \in Objects : d # thread[t].device => unknown'[d] = unknown[d]
        /\ Bare(thread[t].device) => Bare(thread[t].device)'
    BY <1>1, <1>8, RemoveFiltered
  <2>2. thread[t].at # "Release"
    BY <1>8 DEF RemoveDisconnect, RemoveWave, RemoveTopology, At
  <2>3. thread'[t].at \notin Installing
    BY <2>1, WorkPlaces
  <2>4. TaskOf(t)'
    <3>1. PICK d \in Objects : d = thread[t].device
      BY <2>1
    <3>2. thread[t].endpoint = object[d].link
      BY <1>2, <2>2, <3>1 DEF TaskOf
    <3>3. thread'[t].at = "Release" => unknown'[d] = <<NoSubdevice, NoSubdevice>>
      BY <2>1, <3>1 DEF Bare
    <3>4. thread'[t].device = d /\ thread'[t].action = "Stop" /\ thread'[t].endpoint = object'[d].link
      BY <1>1, <2>1, <3>1, <3>2
    <3> QED BY <2>3, <3>3, <3>4 DEF TaskOf, Bare
  <2>5. EndpointOf' \/ t # Main
    BY <2>3 DEF EndpointOf
  <2>6. Order'
    BY <1>3, <2>1, <2>4, <2>5
  <2> QED BY <2>1, <2>6
<1> QED BY <1>5, <1>6, <1>7, <1>8

\* A thread has done a task.
LEMMA ReleaseKeeps ==
  ASSUME RefsInv, Order, Filtered, NEW t \in Threads, Alone(t), t \in Callbacks => t = 1,
         NEW next \in {"Take", "StopAll"}, ReleaseTask(t, next), UNCHANGED installed
  PROVE  Order' /\ Filtered' /\ Moves(t) /\ thread'[t].at = next
<1>1. PICK d : d = thread[t].device
  OBVIOUS
<1>2. FilterTypes /\ ThreadPlaces /\ ListInv /\ ListTypes /\ ThreadTasks
  BY DEF RefsInv, ControlInv, ListInv, Order
<1>3. /\ thread[t].at = "Release" /\ d \in Objects
      /\ UNCHANGED <<pnp, m_Devices, m_WorkTasks, m_SubdeviceCache, registered, connected, unknown>>
  <2>1. /\ thread[t].at = "Release"
        /\ UNCHANGED <<pnp, m_Devices, m_WorkTasks, m_SubdeviceCache, registered, connected, unknown>>
    BY DEF ReleaseTask, At, list, filters
  <2>2. d \in Owners /\ d # Adapter
    BY <1>1, <1>2, <2>1, PlaceNames DEF FilterTypes, ThreadPlaces, Threads
  <2> QED BY <2>1, <2>2 DEF Owners
<1>4. PICK p : p = [Idle EXCEPT !.at = next]
  OBVIOUS
<1>5. p \in Thread /\ p.at = next /\ p.device = Adapter /\ p.made = {}
  BY <1>4, IdleThread, PlaceNames DEF Thread, Idle
<1>6. Moves(t) /\ thread'[t] = p
  BY <1>2, <1>4, <1>5, Becomes DEF ReleaseTask, FilterTypes, Thread
<1>7. object[d].refs # 0 /\ object[d].m_State # "Unused" /\ object \in [Objects -> Object]
  <2>1. Exact(d) /\ object[d].refs # 0
    BY <1>1, <1>2, <1>3, RefsAre, Holders DEF ListInv
  <2> QED BY <1>2, <2>1 DEF Exact, ListTypes, Object
<1>8. \A e \in Objects :
        /\ object'[e].link = object[e].link
        /\ object'[e].m_State # "Stopped" \/ object'[e].m_State = object[e].m_State
           \/ (e = d /\ thread[t].action = "Stop")
        /\ object[e].m_State = "Unused" => object'[e].m_State = "Unused"
  <2>1. CASE object[d].refs = 1
    <3>1. Release(d)
      BY <1>1, <2>1 DEF ReleaseTask
    <3> QED BY <1>3, <1>7, <3>1, ReleaseAges DEF Ages
  <2>2. CASE object[d].refs # 1
    <3>1. PICK state : state = IF thread[t].action = "Stop" THEN "Stopped"
                               ELSE IF thread[t].ok THEN object[d].m_State ELSE "Failed"
      OBVIOUS
    <3>2. PICK o : o = [object[d] EXCEPT !.refs = @ - 1, !.m_State = state]
      OBVIOUS
    <3>3. object' = [object EXCEPT ![d] = o]
      BY <1>1, <1>3, <1>7, <2>2, <3>1, <3>2 DEF ReleaseTask
    <3>4. o.link = object[d].link /\ o.m_State = state
      BY <1>3, <1>7, <3>2 DEF Object
    <3>5. object'[d] = o /\ \A e \in Objects \ {d} : object'[e] = object[e]
      BY <1>3, <1>7, <3>3
    <3>6. state # "Stopped" \/ state = object[d].m_State \/ thread[t].action = "Stop"
      BY <3>1
    <3> QED BY <1>7, <3>4, <3>5, <3>6
  <2> QED BY <2>1, <2>2
<1>9. TasksInOrder' /\ StopComesFirst'
  BY <1>1, <1>3, <1>5, <1>6, <1>8, OrderReleased
<1>10. ThreadTasks'
  <2>1. LinksKnown'
    BY <1>2, <1>8, ThreadTasksAre DEF LinksKnown
  <2>2. EndpointOf' \/ t # Main
    BY <1>5, <1>6, WorkPlaces, Numbers DEF EndpointOf
  <2>3. TaskOf(t)'
    BY <1>5, <1>6, Numbers DEF TaskOf
  <2> QED BY <1>2, <1>6, <2>1, <2>2, <2>3, ThreadTasksNext
<1>11. Filtered'
  <2>1. thread[t].made = {}
    BY <1>3, MadeAre DEF Filtered, MadeOf
  <2>2. next \notin {"Wave", "Connect", "RemoveWave", "RemoveTopology"} \cup Installing
    BY WorkPlaces
  <2>3. installed' \in Nat /\ installed' >= installed
    BY <1>2, EndpointsAssumption DEF FilterTypes, AllEndpoints
  <2> QED BY <1>3, <1>5, <1>6, <1>8, <2>1, <2>2, <2>3, FilteredMoves
<1> QED BY <1>5, <1>6, <1>9, <1>10, <1>11 DEF Order

\* No filter has the name of a device that is started next: those of an
\* earlier device of the link are gone, by StopComesFirst.
LEMMA StartsFresh ==
  ASSUME RefsInv, Order, Filtered, NEW t \in Threads, Alone(t), thread[t].device = Adapter, thread[t].made = {},
         m_WorkTasks # <<>>, NEW c, c = Head(m_WorkTasks), c.action = "Start"
  PROVE  \A s \in registered : s.endpoint # object[c.device].link
<1>1. PICK n : n = Len(m_WorkTasks)
  OBVIOUS
<1>2. m_WorkTasks \in Seq(Tasks) /\ c \in Tasks /\ c.device \in Objects
      /\ c = m_WorkTasks[1] /\ 1 \in DOMAIN m_WorkTasks
  <2>1. m_WorkTasks \in Seq(Tasks)
    BY QueueType
  <2>2. n \in Nat /\ n # 0 /\ DOMAIN m_WorkTasks = 1 .. n
    BY <1>1, <2>1
  <2>3. c = m_WorkTasks[1] /\ 1 \in DOMAIN m_WorkTasks
    BY <2>1, <2>2
  <2> QED BY <2>1, <2>3, QueueType
<1>3. PICK d \in Objects : d = c.device
  BY <1>2
<1>4. object[d].link \in Links
  <2>1. Exact(d) /\ object[d].refs # 0
    BY <1>2, <1>3, RefsAre, Holders DEF RefsInv, ListInv
  <2>2. object[d].m_State # "Unused"
    BY <2>1 DEF Exact
  <2> QED BY <2>2, ThreadTasksAre DEF Order, LinksKnown
<1>5. Bare(d)
  BY <1>2, <1>3 DEF Order, TasksInOrder
<1>6. SUFFICES ASSUME NEW s \in registered, s.endpoint = object[d].link PROVE FALSE
  BY <1>3
<1>7. CASE s.owner = Adapter
  <2>1. PICK i \in 1 .. installed : s.endpoint = AllEndpoints[i]
    BY <1>7, RegisteredAre DEF Filtered, Endpointed
  <2>2. i \in DOMAIN AllEndpoints
    BY <2>1, EndpointsAssumption DEF RefsInv, ControlInv, FilterTypes, AllEndpoints
  <2> QED BY <1>4, <1>6, <2>1, <2>2, NamesAssumption
<1>8. CASE s.owner # Adapter
  <2>1. \A u \in Threads : s \notin thread[u].made
    BY WorkPlaces DEF Alone, Filtered, MadeAlone
  <2>2. PICK e \in Objects : e = s.owner
    BY <1>8, <2>1, OwnedByPair
  <2>3. ~Bare(e) /\ s.endpoint = object[e].link
    BY <1>8, <2>1, <2>2, OwnedByPair
  <2>4. e \in Objects \ {m_WorkTasks[1].device} /\ object[e].link = object[m_WorkTasks[1].device].link
        /\ m_WorkTasks[1].action = "Start"
    BY <1>2, <1>3, <1>5, <1>6, <2>3
  <2>5. Runs(e, "Stop") \/ \E i \in 1 .. 1 - 1 : m_WorkTasks[i] = [device |-> e, action |-> "Stop"]
    BY <1>2, <2>3, <2>4 DEF Order, StopComesFirst
  <2>6. ~Runs(e, "Stop")
    BY RunsOf, Numbers
  <2> QED BY <2>5, <2>6
<1> QED BY <1>7, <1>8

\* A callback of the work item, of which there is one at a time.
LEMMA WorkingKeeps ==
  ASSUME RefsInv, Sound, SingleCallback, NEW t \in Callbacks, Working(t)
  PROVE  Sound'
<1>1. InterfaceWorkItem(t) /\ UNCHANGED <<pnp, m_Devices, installed, common>>
  BY DEF Working, EvtBthHfpScoBypassInterfaceWorkItem, EvtUsbSidebandInterfaceWorkItem, InterfaceWorkItem,
         CallbackBegins, TakeTask, StartFails, ReleaseTask, listVars, list, adapterVars
<1>2. /\ t \in Threads /\ t # Main /\ FilterTypes /\ ControlInv /\ ListInv /\ ListTypes /\ CallbackIs(t)
      /\ Order /\ Filtered /\ ThreadTasks
  BY Numbers DEF RefsInv, ControlInv, ListInv, ThreadPlaces, CallbackIs, CallbackPlaces, Sound, Order
<1>3. Live /\ Alone(t) /\ t = 1
  <2>1. CASE At(t, "Idle")
    <3>1. workItem = "Enqueued" /\ t \in Concurrent
      BY <1>1, <2>1 DEF InterfaceWorkItem, CallbackBegins, TakeTask, StartFails, ReleaseTask, At,
                        InstallTopology, InstallWave, InstallConnect, RemoveDisconnect, RemoveWave, RemoveTopology
    <3>2. t = 1
      BY <3>1 DEF SingleCallback
    <3>3. Live
      BY <1>2, <3>1, LiveWhen
    <3>4. thread[Main].at \notin Installing \cup Removal /\ thread[Main].device = Adapter
      BY <1>2, <3>3, WorkPlaces, PlaceNames DEF Live, ControlInv, ThreadPlaces
    <3>5. \A u \in Callbacks \ {t} : thread[u].at = "Idle" /\ thread[u].device = Adapter
      BY <1>2, <3>2 DEF ThreadTasks, At, ControlInv, ThreadPlaces
    <3>6. \A u \in Threads \ {t} : thread[u].device = Adapter /\ thread[u].at \notin Installing \cup Removal
      BY <3>4, <3>5, WorkPlaces, Numbers
    <3> QED BY <3>2, <3>3, <3>6 DEF Alone
  <2>2. CASE ~At(t, "Idle")
    BY <1>2, <2>2, AloneWhen, LiveWhen
  <2> QED BY <2>1, <2>2
<1>4. ASSUME Order', Filtered', Moves(t) PROVE Sound'
  <2>1. common' = "Live" /\ ~At(Main, "Init")'
    <3>1. thread'[Main] = thread[Main]
      BY <1>2, <1>4, Numbers DEF Moves
    <3> QED BY <1>1, <1>3, <3>1, PlaceNames DEF Live, At
  <2>2. NothingLeft'
    BY <2>1 DEF NothingLeft, At
  <2> QED BY <1>4, <2>2 DEF Sound
<1>5. installed \in Nat /\ (thread[t].at \notin {"Wave", "Connect"} => thread[t].made = {})
  BY <1>2, MadeAre, EndpointsAssumption DEF Filtered, MadeOf, FilterTypes, AllEndpoints
<1>6. CASE CallbackBegins(t)
  <2>1. /\ thread[t].at = "Idle" /\ Goto(t, "Take") /\ UNCHANGED <<m_WorkTasks, object>>
        /\ UNCHANGED <<m_SubdeviceCache, registered, connected, unknown>>
    BY <1>6 DEF CallbackBegins, list, filters, At
  <2>2. PICK p : p = [thread[t] EXCEPT !.at = "Take"]
    OBVIOUS
  <2>3. thread[t] \in Thread /\ thread \in [Threads -> Thread]
    BY <1>2 DEF FilterTypes, Thread
  <2>4. p.at = "Take" /\ p.device = thread[t].device /\ p.made = thread[t].made /\ thread[t].device = Adapter
    BY <1>2, <2>1, <2>2, <2>3 DEF Thread, CallbackIs
  <2>5. thread'[t] = p /\ Moves(t)
    BY <1>2, <2>1, <2>2, <2>3 DEF Goto, Moves
  <2>6. TasksInOrder' /\ StopComesFirst'
    <3>1. \A d \in Objects : Bare(d)' = Bare(d)
      BY <2>1 DEF Bare
    <3> QED BY <1>1, <1>2, <1>3, <2>1, <2>4, <2>5, <3>1, OrderKept, Numbers
  <2>7. ThreadTasks'
    <3>1. LinksKnown' /\ TaskOf(t)'
      BY <1>2, <2>1, <2>4, <2>5, Numbers, ThreadTasksAre DEF LinksKnown, TaskOf
    <3> QED BY <1>2, <1>3, <2>5, <3>1, ThreadTasksNext
  <2>8. Filtered'
    <3>1. thread'[t].at \notin {"Wave", "Connect", "RemoveWave", "RemoveTopology"} \cup Installing
      BY <2>4, <2>5, WorkPlaces
    <3> QED BY <1>1, <1>2, <1>3, <1>5, <2>1, <2>4, <2>5, <3>1, FilteredMoves
  <2> QED BY <1>4, <2>5, <2>6, <2>7, <2>8 DEF Order
<1>7. CASE TakeTask(t) /\ m_WorkTasks = <<>>
  <2>1. /\ thread[t].at = "Take" /\ thread' = [thread EXCEPT ![t] = Idle] /\ UNCHANGED <<m_WorkTasks, object>>
        /\ UNCHANGED <<m_SubdeviceCache, registered, connected, unknown>>
    BY <1>7 DEF TakeTask, filters, At
  <2>2. Moves(t) /\ thread'[t] = Idle /\ Idle.made = {} /\ thread[t].device = Adapter
    BY <1>2, <2>1, Becomes, IdleThread DEF CallbackIs, Idle
  <2>3. TasksInOrder' /\ StopComesFirst'
    <3>1. \A d \in Objects : Bare(d)' = Bare(d)
      BY <2>1 DEF Bare
    <3> QED BY <1>1, <1>2, <1>3, <2>1, <2>2, <3>1, OrderKept, IdleThread, Numbers
  <2>4. ThreadTasks'
    <3>1. LinksKnown' /\ TaskOf(t)'
      BY <1>2, <2>1, <2>2, IdleThread, Numbers, ThreadTasksAre DEF LinksKnown, TaskOf
    <3> QED BY <1>2, <1>3, <2>2, <3>1, ThreadTasksNext
  <2>5. Filtered'
    <3>1. thread'[t].at \notin {"Wave", "Connect", "RemoveWave", "RemoveTopology"} \cup Installing
      BY <2>2, IdleThread, WorkPlaces
    <3> QED BY <1>1, <1>2, <1>3, <1>5, <2>1, <2>2, <3>1, FilteredMoves
  <2> QED BY <1>4, <2>2, <2>3, <2>4, <2>5 DEF Order
<1>8. CASE TakeTask(t) /\ m_WorkTasks # <<>>
  <2>1. PICK c : c = Head(m_WorkTasks)
    OBVIOUS
  <2>2. PICK at : at = IF c.action = "Start" THEN "Topology" ELSE "Disconnect"
    OBVIOUS
  <2>3. PICK p : p = [Idle EXCEPT !.at = at, !.device = c.device, !.action = c.action, !.endpoint = object[c.device].link]
    OBVIOUS
  <2>4. /\ thread[t].at = "Take" /\ m_WorkTasks' = Tail(m_WorkTasks) /\ thread' = [thread EXCEPT ![t] = p]
        /\ object' = object \/ object' = [object EXCEPT ![c.device].m_State = "Stopping"]
        /\ UNCHANGED <<m_SubdeviceCache, registered, connected, unknown>>
    BY <1>8, <2>1, <2>2, <2>3 DEF TakeTask, At, filters
  <2>5. c \in Tasks /\ c.device \in Objects /\ c.action \in {"Start", "Stop"}
    <3>1. c \in Tasks
      BY <1>2, <1>8, <2>1 DEF ListTypes
    <3> QED BY <3>1 DEF Tasks
  <2>6. p \in Thread /\ p.at = at /\ p.device = c.device /\ p.action = c.action
        /\ p.endpoint = object[c.device].link /\ p.made = {}
    <3>1. object[c.device].link \in Names /\ at \in Places
      BY <1>2, <2>2, <2>5, PlaceNames DEF ListTypes
    <3> QED BY <2>3, <2>5, <3>1, IdleThread DEF Thread, Owners, Idle
  <2>7. Moves(t) /\ thread'[t] = p /\ thread[t].device = Adapter
    BY <1>2, <2>4, <2>6, Becomes DEF CallbackIs
  <2>8. \A d \in Objects : /\ object'[d].link = object[d].link
                           /\ object'[d].m_State \in {object[d].m_State, "Stopping"}
                           /\ d # c.device => object'[d] = object[d]
    <3>1. object \in [Objects -> Object]
      BY <1>2 DEF ListTypes, Object
    <3>2. PICK o : o = [object[c.device] EXCEPT !.m_State = "Stopping"]
      OBVIOUS
    <3>3. object[c.device] \in Object
      BY <2>5, <3>1
    <3>4. o.link = object[c.device].link /\ o.m_State = "Stopping"
      BY <3>2, <3>3 DEF Object
    <3>5. object' = object \/ object' = [object EXCEPT ![c.device] = o]
      BY <2>4, <3>2
    <3> QED BY <2>5, <3>1, <3>4, <3>5
  <2>9. TasksInOrder' /\ StopComesFirst'
    BY <1>1, <1>2, <1>3, <1>8, <2>1, <2>4, <2>6, <2>7, <2>8, OrderTaken
  <2>10. 1 \in DOMAIN m_WorkTasks /\ m_WorkTasks[1] = c
    <3>1. PICK n : n = Len(m_WorkTasks)
      OBVIOUS
    <3>2. n \in Nat \ {0} /\ DOMAIN m_WorkTasks = 1 .. n /\ Head(m_WorkTasks) = m_WorkTasks[1]
      BY <1>8, <2>4, <3>1, QueueTail
    <3> QED BY <2>1, <3>2
  <2>11. LinksKnown'
    <3>1. Exact(c.device) /\ object[c.device].refs # 0
      BY <1>2, <2>5, <2>10, RefsAre, Holders DEF ListInv
    <3>2. object[c.device].m_State # "Unused"
      BY <3>1 DEF Exact
    <3> QED BY <1>2, <2>8, <3>2, ThreadTasksAre DEF LinksKnown
  <2>12. TaskOf(t)'
    <3>1. PICK d \in Objects : d = c.device
      BY <2>5
    <3>2. c.action = "Start" => unknown'[d] = <<NoSubdevice, NoSubdevice>>
      BY <1>2, <2>4, <2>10, <3>1 DEF Order, TasksInOrder, Bare
    <3>3. /\ at \in Installing => c.action = "Start"
          /\ at \in RemovingFilters => c.action = "Stop"
          /\ at # "Release"
      BY <2>2, <2>5, WorkPlaces
    <3>4. thread'[t].at = at /\ thread'[t].device = d /\ thread'[t].action = c.action
          /\ thread'[t].endpoint = object'[d].link /\ c.action # "None"
      BY <2>5, <2>6, <2>7, <2>8, <3>1
    <3> QED BY <3>2, <3>3, <3>4 DEF TaskOf, Bare
  <2>13. ThreadTasks'
    BY <1>2, <1>3, <2>7, <2>11, <2>12, ThreadTasksNext
  <2>14. Filtered'
    <3>1. thread[t].made = {}
      BY <1>5, <2>4
    <3>2. at \in Installing => \A s \in registered : s.endpoint # p.endpoint
      <4>1. at \in Installing => c.action = "Start"
        BY <2>2, WorkPlaces
      <4>2. c.action = "Start" => \A s \in registered : s.endpoint # object[c.device].link
        BY <1>2, <1>3, <1>8, <2>1, <2>7, <3>1, StartsFresh
      <4> QED BY <2>6, <4>1, <4>2
    <3>3. at \notin {"Wave", "Connect", "RemoveWave", "RemoveTopology"}
      BY <2>2
    <3> QED BY <1>1, <1>2, <1>3, <1>5, <2>4, <2>6, <2>7, <2>8, <3>1, <3>2, <3>3, FilteredMoves
  <2> QED BY <1>4, <2>7, <2>9, <2>13, <2>14 DEF Order
<1>9. CASE StartFails(t)
  <2>1. PICK p : p = [thread[t] EXCEPT !.at = "Release", !.ok = FALSE]
    OBVIOUS
  <2>2. /\ thread[t].at = "Topology" /\ thread' = [thread EXCEPT ![t] = p]
        /\ UNCHANGED <<m_WorkTasks, object, m_SubdeviceCache, registered, connected, unknown>>
    BY <1>2, <1>9, <2>1 DEF StartFails, FilterTypes, listVars, filters, At
  <2>3. p \in Thread /\ p.at = "Release" /\ p.device = thread[t].device /\ p.action = thread[t].action
        /\ p.made = thread[t].made
    <3>1. thread[t] \in Thread
      BY <1>2 DEF FilterTypes, Thread
    <3> QED BY <2>1, <3>1, PlaceNames DEF Thread
  <2>4. Moves(t) /\ thread'[t] = p
    BY <1>2, <2>2, <2>3, Becomes
  <2>5. TaskOf(t)
    BY <1>2, ThreadTasksAre
  <2>6. TasksInOrder' /\ StopComesFirst'
    <3>1. \A d \in Objects : Bare(d)' = Bare(d)
      BY <2>2 DEF Bare
    <3>2. thread[t].device \in Objects => thread[t].action = "Start"
      BY <2>2, <2>5, WorkPlaces DEF TaskOf
    <3> QED BY <1>1, <1>2, <1>3, <2>2, <2>3, <2>4, <3>1, <3>2, OrderKept
  <2>7. ThreadTasks'
    <3>1. TaskOf(t)'
      BY <2>2, <2>3, <2>4, <2>5, WorkPlaces DEF TaskOf
    <3>2. LinksKnown'
      BY <1>2, <2>2, ThreadTasksAre DEF LinksKnown
    <3> QED BY <1>2, <1>3, <2>4, <3>1, <3>2, ThreadTasksNext
  <2>8. Filtered'
    <3>1. thread'[t].at \notin {"Wave", "Connect", "RemoveWave", "RemoveTopology"} \cup Installing
      BY <2>3, <2>4, WorkPlaces
    <3> QED BY <1>1, <1>2, <1>3, <1>5, <2>2, <2>3, <2>4, <3>1, FilteredMoves
  <2> QED BY <1>4, <2>4, <2>6, <2>7, <2>8 DEF Order
<1>10. CASE ReleaseTask(t, "Take")
  BY <1>1, <1>2, <1>3, <1>4, <1>10, ReleaseKeeps
<1>11. CASE /\ \/ InstallTopology(t) \/ InstallWave(t) \/ InstallConnect(t, "Release")
               \/ RemoveDisconnect(t, "Release") \/ RemoveWave(t) \/ RemoveTopology(t, "Release")
            /\ UNCHANGED listVars
  BY <1>1, <1>2, <1>3, <1>4, <1>11, RunKeeps
<1> QED BY <1>1, <1>6, <1>7, <1>8, <1>9, <1>10, <1>11 DEF InterfaceWorkItem

\* The thread of StartDevice and PnpHandler goes on while others may work.
LEMMA MainPasses ==
  ASSUME RefsInv, Order, Filtered, Moves(Main), UNCHANGED <<pnp, m_Devices, m_WorkTasks, object, unknown>>,
         UNCHANGED <<registered, connected>>, m_SubdeviceCache' \subseteq m_SubdeviceCache,
         UNCHANGED installed \/ registered = {},
         thread[Main].device = Adapter, thread'[Main].device = Adapter, thread'[Main].made = {},
         thread[Main].at \notin Installing \cup Removal, thread'[Main].at \notin Installing \cup Removal
  PROVE  Order' /\ Filtered'
<1>1. Main \in Threads /\ Adapter \notin Objects /\ Main \notin Callbacks
  BY Numbers
<1>2. TasksInOrder' /\ StopComesFirst'
  <2>1. \A d \in Objects : ~Bare(d)' => ~Bare(d)
    BY DEF Bare
  <2> QED BY <1>1, <2>1, OrderStays
<1>3. ThreadTasks'
  <2>1. ASSUME NEW u \in Callbacks PROVE u = 1 \/ At(u, "Idle")'
    <3>1. u \in Threads \ {Main}
      BY <1>1, Numbers
    <3>2. thread'[u] = thread[u]
      BY <3>1 DEF Moves
    <3>3. u = 1 \/ thread[u].at = "Idle"
      BY DEF Order, ThreadTasks, At
    <3> QED BY <3>2, <3>3 DEF At
  <2>2. ASSUME NEW u \in Threads PROVE TaskOf(u)'
    <3>1. CASE u = Main
      BY <1>1, <3>1 DEF TaskOf
    <3>2. CASE u # Main
      <4>1. TaskOf(u) /\ thread'[u] = thread[u]
        BY <3>2, ThreadTasksAre DEF Order, Moves
      <4> QED BY <4>1 DEF TaskOf, Bare
    <3> QED BY <3>1, <3>2
  <2>3. EndpointOf' /\ LinksKnown'
    BY ThreadTasksAre DEF EndpointOf, LinksKnown, Order
  <2> QED BY <2>1, <2>2, <2>3 DEF ThreadTasks, TaskOf, EndpointOf, LinksKnown
<1>4. thread[Main].made = {}
  BY <1>1, MadeAre, WorkPlaces DEF Filtered, MadeOf
<1>5. RegisteredKnown'
  <2>1. ASSUME NEW s \in registered, s.owner # Adapter PROVE Owned(s)'
    <3>1. Owned(s)
      BY <2>1, RegisteredAre DEF Filtered
    <3>2. \A u \in Threads : s \in thread[u].made => thread'[u] = thread[u]
      BY <1>4 DEF Moves
    <3> QED BY <3>1, <3>2 DEF Owned
  <2>2. \A s \in registered : s.owner = Adapter => Endpointed(s)'
    BY RegisteredAre DEF Filtered, Endpointed, AllEndpoints
  <2>3. \A d \in Objects : PairOf(d)'
    BY RegisteredAre DEF Filtered, PairOf
  <2>4. m_SubdeviceCache' \subseteq registered' /\ \A s \in registered' : s.part # "None"
    BY RegisteredAre DEF Filtered
  <2> QED BY <2>1, <2>2, <2>3, <2>4, RegisteredAreNext
<1>6. MadeAlone'
  <2>1. ASSUME NEW u \in Threads PROVE MadeOf(u)'
    <3>1. CASE u = Main
      BY <1>1, <3>1, WorkPlaces DEF MadeOf
    <3>2. CASE u # Main
      <4>1. MadeOf(u) /\ thread'[u] = thread[u]
        BY <3>2, MadeAre DEF Filtered, Moves
      <4> QED BY <4>1 DEF MadeOf
    <3> QED BY <3>1, <3>2
  <2> QED BY <2>1 DEF MadeAlone, MadeOf
<1>7. ConnectedKnown'
  <2>1. \A u \in Threads : thread'[u] = thread[u] \/ thread'[u].at \notin Installing \cup {"RemoveWave", "RemoveTopology"}
    BY WorkPlaces DEF Moves
  <2> QED BY <2>1 DEF Filtered, ConnectedKnown
<1>8. WaveGone'
  <2>1. \A u \in Threads : thread'[u] = thread[u] \/ thread'[u].at # "RemoveTopology"
    BY WorkPlaces DEF Moves
  <2> QED BY <2>1 DEF Filtered, WaveGone, At
<1> QED BY <1>2, <1>3, <1>5, <1>6, <1>7, <1>8 DEF Order, Filtered

\* Goto, as such a step.
LEMMA MainGoesOn ==
  ASSUME RefsInv, Order, Filtered, NEW to, Goto(Main, to), to \notin Installing \cup Removal,
         thread[Main].at \notin Installing \cup Removal,
         UNCHANGED <<pnp, m_Devices, m_WorkTasks, object, unknown>>,
         UNCHANGED <<registered, connected>>, m_SubdeviceCache' \subseteq m_SubdeviceCache,
         UNCHANGED installed \/ registered = {}
  PROVE  Order' /\ Filtered' /\ thread'[Main].at = to
<1>1. thread \in [Threads -> Thread] /\ thread[Main] \in Thread /\ Main \in Threads
  BY Numbers DEF RefsInv, ControlInv, FilterTypes, Thread
<1>2. PICK p : p = [thread[Main] EXCEPT !.at = to]
  OBVIOUS
<1>3. p.at = to /\ p.device = thread[Main].device /\ p.made = thread[Main].made
  BY <1>1, <1>2 DEF Thread
<1>4. thread'[Main] = p /\ Moves(Main)
  BY <1>1, <1>2 DEF Goto, Moves
<1>5. thread[Main].device = Adapter /\ thread[Main].made = {}
  BY <1>1, MadeAre, WorkPlaces DEF RefsInv, ControlInv, ThreadPlaces, Filtered, MadeOf
<1> QED BY <1>3, <1>4, <1>5, MainPasses

\* The next endpoint of the adapter has no filter yet.
LEMMA EndpointFresh ==
  ASSUME RefsInv, Order, Filtered, thread[Main].at = "Endpoints", installed # Len(AllEndpoints)
  PROVE  \A s \in registered : s.endpoint # AllEndpoints[installed + 1]
<1>1. Quiet /\ thread[Main].device = Adapter
  BY PlaceNames DEF RefsInv, ControlInv, CleanupWaits, ThreadPlaces
<1>2. installed + 1 \in DOMAIN AllEndpoints /\ installed \in Nat /\ 1 .. installed \subseteq DOMAIN AllEndpoints
  <2>1. PICK n : n = Len(AllEndpoints)
    OBVIOUS
  <2>2. n \in Nat /\ DOMAIN AllEndpoints = 1 .. n
    BY <2>1, EndpointsAssumption DEF AllEndpoints
  <2>3. installed \in 0 .. n /\ installed # n
    BY <2>1 DEF RefsInv, ControlInv, FilterTypes
  <2> QED BY <2>2, <2>3
<1>3. \A t \in Threads : thread[t].device = Adapter /\ thread[t].made = {}
  <2>1. \A t \in Callbacks : thread[t].at = "Idle" /\ thread[t].device = Adapter
    BY <1>1 DEF Quiet, At, RefsInv, ControlInv, ThreadPlaces
  <2>2. \A t \in Threads : thread[t].at \notin {"Wave", "Connect"} => thread[t].made = {}
    BY MadeAre DEF Filtered, MadeOf
  <2> QED BY <1>1, <2>1, <2>2, Numbers
<1> SUFFICES ASSUME NEW s \in registered, s.endpoint = AllEndpoints[installed + 1] PROVE FALSE
  OBVIOUS
<1>4. CASE s.owner = Adapter
  <2>1. PICK i \in 1 .. installed : s.endpoint = AllEndpoints[i]
    BY <1>4, RegisteredAre DEF Filtered, Endpointed
  <2>2. i \in DOMAIN AllEndpoints /\ i # installed + 1
    BY <1>2
  <2> QED BY <1>2, <2>1, <2>2, NamesAssumption
<1>5. CASE s.owner # Adapter
  <2>1. PICK d \in Objects : d = s.owner /\ ~Bare(d)
    BY <1>3, <1>5, OwnedByPair
  <2>2. DOMAIN m_Devices = {} /\ DOMAIN m_WorkTasks = {}
    <3>1. m_Devices = <<>> /\ m_WorkTasks = <<>>
      BY <1>1 DEF Quiet
    <3> QED BY <3>1
  <2>3. ~Listed(d) /\ ~ToStop(d)
    BY <1>3, <2>2, Numbers DEF Listed, ToStop, Queued, Runs
  <2>4. InUse(d)
    BY <2>1 DEF InUse
  <2> QED BY <2>3, <2>4 DEF Order, TasksInOrder
<1> QED BY <1>4, <1>5

\* Of the filters nothing is left but what the devices know.
LEMMA FilteredEmpty ==
  ASSUME Filtered, registered' = {}, connected' = {}, m_SubdeviceCache' = {}, UNCHANGED <<object, unknown>>,
         \A t \in Threads : thread'[t].made = {} /\ thread'[t].at \notin Installing
  PROVE  Filtered'
<1>1. RegisteredKnown'
  <2>1. \A d \in Objects : PairOf(d)'
    BY RegisteredAre DEF Filtered, PairOf
  <2> QED BY <2>1, RegisteredAreNext
<1>2. MadeAlone'
  <2>1. \A t \in Threads : MadeOf(t)'
    BY WorkPlaces DEF MadeOf
  <2> QED BY <2>1 DEF MadeAlone, MadeOf
<1>3. ConnectedKnown' /\ WaveGone'
  BY DEF ConnectedKnown, WaveGone
<1> QED BY <1>1, <1>2, <1>3 DEF Filtered

LEMMA StartKeeps ==
  ASSUME RefsInv, Sound, StartDevice
  PROVE  Sound'
<1>1. /\ Main \in Threads /\ Order /\ Filtered /\ NothingLeft /\ ThreadTasks
      /\ FilterTypes /\ ThreadPlaces /\ AdapterLives /\ CleanupWaits
  BY Numbers DEF RefsInv, ControlInv, Sound, Order
<1>2. thread[Main].at \in Starting => Quiet /\ common = "Live" /\ thread[Main].device = Adapter /\ Alone(Main)
  <2>1. Starting \cap Removal = {}
    BY DEF Starting, Removal
  <2> QED BY <1>1, <2>1, AloneWhen DEF CleanupWaits, AdapterLives, ThreadPlaces
<1>3. ASSUME Order', Filtered', common' = "Live", thread'[Main].at # "Init" PROVE Sound'
  BY <1>3 DEF Sound, NothingLeft, At
<1>4. \A to \in {"Idle", "Init", "Endpoints", "Installed", "Sideband", "Exit", "ExitFailed"} :
        to \notin Installing \cup Removal
  BY WorkPlaces
<1>5. CASE NewAdapterCommon /\ m_AdapterInstances = 0 /\ common' = "Live" /\ Goto(Main, "Init") /\ UNCHANGED device
  <2>1. /\ thread[Main].at = "Idle" /\ UNCHANGED <<pnp, m_Devices, m_WorkTasks, object, unknown, installed>>
        /\ UNCHANGED <<m_SubdeviceCache, registered, connected>>
    BY <1>5 DEF NewAdapterCommon, At, listVars, filters
  <2>2. Order' /\ Filtered'
    BY <1>1, <1>4, <1>5, <2>1, MainGoesOn
  <2>3. common # "Live"
    BY <1>1, <1>5 DEF AdapterLives
  <2>4. registered = {} /\ connected = {}
    BY <1>1, <2>1, <2>3 DEF NothingLeft, At
  <2>5. NothingLeft'
    BY <2>1, <2>4 DEF NothingLeft
  <2> QED BY <2>2, <2>5 DEF Sound
<1>6. CASE NewAdapterCommon /\ UNCHANGED <<common, thread>>
  <2>1. UNCHANGED <<subdeviceVars, listVars, installed>>
    BY <1>6 DEF NewAdapterCommon, subdeviceVars
  <2> QED BY <1>6, <2>1, OthersKeep
<1>7. CASE AdapterInit
  <2>1. /\ thread[Main].at = "Init" /\ m_SubdeviceCache' = {}
        /\ UNCHANGED <<pnp, m_Devices, m_WorkTasks, object, unknown, registered, connected, common>>
    BY <1>7 DEF AdapterInit, At, list
  <2>2. PICK to \in {"Endpoints", "ExitFailed"} : Goto(Main, to)
    BY <1>7 DEF AdapterInit
  <2>3. registered = {}
    BY <1>1, <2>1 DEF NothingLeft, At
  <2>4. Order' /\ Filtered' /\ thread'[Main].at = to
    BY <1>1, <1>4, <2>1, <2>2, <2>3, MainGoesOn
  <2> QED BY <1>2, <1>3, <2>1, <2>4, PlaceNames
<1>8. ASSUME At(Main, "Endpoints"), InstallNext PROVE Sound'
  <2>1. /\ thread[Main].at = "Endpoints" /\ UNCHANGED <<pnp, m_Devices, m_WorkTasks, object, unknown, common>>
        /\ UNCHANGED <<m_SubdeviceCache, registered, connected>>
    BY <1>8 DEF InstallNext, At, listVars, filters
  <2>2. common = "Live" /\ thread[Main].device = Adapter /\ Alone(Main)
    BY <1>2, <2>1, PlaceNames
  <2>3. CASE Goto(Main, "Sideband") /\ UNCHANGED installed
    <3>1. Order' /\ Filtered' /\ thread'[Main].at = "Sideband"
      BY <1>1, <1>4, <2>1, <2>3, MainGoesOn
    <3> QED BY <1>3, <2>1, <2>2, <3>1
  <2>4. CASE ~(Goto(Main, "Sideband") /\ UNCHANGED installed)
    <3>1. PICK e : e = AllEndpoints[installed + 1]
      OBVIOUS
    <3>2. PICK p : p = [Idle EXCEPT !.at = "Topology", !.endpoint = e]
      OBVIOUS
    <3>3. installed # Len(AllEndpoints) /\ installed' = installed + 1 /\ thread' = [thread EXCEPT ![Main] = p]
      BY <1>8, <2>4, <3>1, <3>2 DEF InstallNext
    <3>4. installed \in Nat
      BY <1>1, EndpointsAssumption DEF FilterTypes, AllEndpoints
    <3>5. p.at = "Topology" /\ p.device = Adapter /\ p.made = {} /\ p.endpoint = e
      BY <3>2 DEF Idle
    <3>6. thread'[Main] = p /\ Moves(Main)
      BY <1>1, <3>3 DEF FilterTypes, Moves
    <3>7. TasksInOrder' /\ StopComesFirst'
      <4>1. \A d \in Objects : ~Bare(d)' => ~Bare(d)
        BY <2>1 DEF Bare
      <4> QED BY <1>1, <2>1, <2>2, <3>5, <3>6, <4>1, Numbers, OrderStays
    <3>8. ThreadTasks'
      <4>1. TaskOf(Main)' /\ LinksKnown'
        BY <1>1, <2>1, <3>5, <3>6, Numbers, ThreadTasksAre DEF TaskOf, LinksKnown
      <4>2. EndpointOf'
        <5>1. installed' > 0 /\ thread'[Main].endpoint = AllEndpoints[installed']
          BY <3>1, <3>3, <3>4, <3>5, <3>6
        <5> QED BY <5>1 DEF EndpointOf, AllEndpoints
      <4> QED BY <1>1, <2>2, <3>6, <4>1, <4>2, Numbers, ThreadTasksNext
    <3>9. Filtered'
      <4>1. \A s \in registered : s.endpoint # e
        BY <1>1, <2>1, <3>1, <3>3, EndpointFresh
      <4>2. thread[Main].made = {}
        BY <1>1, <2>1, MadeAre DEF Filtered, MadeOf
      <4>3. installed' \in Nat /\ installed' >= installed
        BY <3>3, <3>4
      <4> QED BY <1>1, <2>1, <2>2, <3>5, <3>6, <4>1, <4>2, <4>3, FilteredMoves
    <3> QED BY <1>3, <2>1, <2>2, <3>5, <3>6, <3>7, <3>8, <3>9 DEF Order
  <2> QED BY <2>3, <2>4
<1>9. CASE InstallSteps
  <2>1. UNCHANGED <<listVars, installed, common>>
        /\ (InstallTopology(Main) \/ InstallWave(Main) \/ InstallConnect(Main, "Installed"))
    BY <1>9 DEF InstallSteps, adapterVars
  <2>2. thread[Main].at \in Starting
    BY <2>1, PlaceNames DEF InstallTopology, InstallWave, InstallConnect, At
  <2>3. /\ Order' /\ Filtered'
        /\ thread'[Main].at \in {"Wave", "Connect", "Release", "Installed", "RemoveWave", "RemoveTopology"}
    BY <1>1, <1>2, <2>1, <2>2, RunKeeps, Numbers
  <2> QED BY <1>2, <1>3, <2>1, <2>2, <2>3
<1>10. CASE InstallEndpointRenderFilters \/ InstallEndpointCaptureFilters
  <2>1. /\ thread[Main].at = "Installed" /\ UNCHANGED <<pnp, m_Devices, m_WorkTasks, object, unknown, common, installed>>
        /\ UNCHANGED <<m_SubdeviceCache, registered, connected>>
    BY <1>10 DEF InstallEndpointRenderFilters, InstallEndpointCaptureFilters, At, listVars, filters, adapterVars
  <2>2. PICK to \in {"Endpoints", "ExitFailed"} : Goto(Main, to)
    BY <1>10 DEF InstallEndpointRenderFilters, InstallEndpointCaptureFilters
  <2>3. Order' /\ Filtered' /\ thread'[Main].at = to
    BY <1>1, <1>4, <2>1, <2>2, MainGoesOn
  <2> QED BY <1>2, <1>3, <2>1, <2>3, PlaceNames
<1>11. CASE StartSideband
  <2>1. thread[Main].at = "Sideband" /\ UNCHANGED <<common, installed>>
    BY <1>11 DEF StartSideband, At, adapterVars
  <2>2. Quiet /\ common = "Live"
    BY <1>2, <2>1, PlaceNames
  <2>3. PICK to \in {"Exit", "ExitFailed"} : Goto(Main, to)
    BY <1>11 DEF StartSideband, InitBthScoBypass, InitUsbSideband, InitSideband
  <2>4. /\ UNCHANGED <<pnp, m_Devices, m_WorkTasks, object, unknown>>
        /\ UNCHANGED <<m_SubdeviceCache, registered, connected>>
    BY <1>11, <2>2 DEF StartSideband, InitBthScoBypass, InitUsbSideband, InitSideband, listVars, filters, Quiet
  <2>5. Order' /\ Filtered' /\ thread'[Main].at = to
    BY <1>1, <1>4, <2>1, <2>3, <2>4, MainGoesOn
  <2> QED BY <1>3, <2>1, <2>2, <2>5
<1>12. CASE StartDeviceExit
  <2>1. /\ thread[Main].at \in {"Exit", "ExitFailed"} /\ thread' = [thread EXCEPT ![Main] = Idle]
        /\ UNCHANGED <<pnp, m_Devices, m_WorkTasks, object, unknown, common, installed>>
        /\ UNCHANGED <<m_SubdeviceCache, registered, connected>>
    BY <1>12 DEF StartDeviceExit, listVars, filters
  <2>2. thread[Main].device = Adapter /\ common = "Live"
    BY <1>1, <2>1, PlaceNames DEF ThreadPlaces, AdapterLives
  <2>3. Moves(Main) /\ thread'[Main] = Idle /\ Idle.made = {}
    BY <1>1, <2>1 DEF FilterTypes, Moves, Idle
  <2>4. Order' /\ Filtered'
    BY <1>1, <1>4, <2>1, <2>2, <2>3, IdleThread, MainPasses
  <2> QED BY <1>3, <2>1, <2>2, <2>3, <2>4, IdleThread
<1>13. CASE InstallAllRenderFilters \/ InstallAllCaptureFilters
  BY <1>8, <1>13 DEF InstallAllRenderFilters, InstallAllCaptureFilters
<1>14. CASE NewAdapterCommon
  BY <1>5, <1>6, <1>14 DEF NewAdapterCommon
<1> QED BY <1>7, <1>9, <1>10, <1>11, <1>12, <1>13, <1>14 DEF StartDevice

LEMMA PnpHandlerKeeps ==
  ASSUME RefsInv, Sound, NEW next, PnpHandler(next)
  PROVE  Sound'
<1>1. PICK to : to = IF m_pCommon THEN "Cleanup" ELSE "Dispatch"
  OBVIOUS
<1>2. /\ thread[Main].at = "Idle" /\ Goto(Main, to) /\ to \in {"Cleanup", "Dispatch"}
      /\ UNCHANGED <<pnp, m_Devices, m_WorkTasks, object, unknown, common, installed>>
      /\ UNCHANGED <<m_SubdeviceCache, registered, connected>>
  BY <1>1 DEF PnpHandler, At, listVars, filters
<1>3. Order' /\ Filtered' /\ thread'[Main].at = to
  <2>1. to \notin Installing \cup Removal /\ thread[Main].at \notin Installing \cup Removal
    BY <1>2, WorkPlaces
  <2> QED BY <1>2, <2>1, MainGoesOn DEF Sound
<1>4. NothingLeft'
  BY <1>2, <1>3 DEF Sound, NothingLeft, At
<1> QED BY <1>3, <1>4 DEF Sound

\* Cleanup stops a device.
LEMMA StopKeeps ==
  ASSUME RefsInv, Order, Filtered, Alone(Main), thread[Main].device = Adapter, thread[Main].at = "StopAll",
         m_WorkTasks = <<>>, m_Devices # <<>>, pnp.at = "Idle", NEW next, CleanupStop(next), UNCHANGED installed
  PROVE  Order' /\ Filtered' /\ thread'[Main].at = "Disconnect"
<1>1. PICK d : d = Head(m_Devices)
  OBVIOUS
<1>2. FilterTypes /\ ListInv /\ ListTypes /\ ThreadTasks /\ Main \in Threads
  BY Numbers DEF RefsInv, ControlInv, ListInv, Order
<1>3. d \in Objects /\ 1 \in DOMAIN m_Devices /\ m_Devices[1] = d
  BY <1>1, <1>2, HeadTailProperties DEF ListTypes
<1>4. PICK p : p = [Idle EXCEPT !.at = "Disconnect", !.device = d, !.action = "Stop", !.endpoint = object[d].link]
  OBVIOUS
<1>5. /\ m_Devices' = Tail(m_Devices) /\ object' = [object EXCEPT ![d].m_State = "Stopping"]
      /\ thread' = [thread EXCEPT ![Main] = p]
      /\ UNCHANGED <<pnp, m_WorkTasks, m_SubdeviceCache, registered, connected, unknown>>
  BY <1>1, <1>4 DEF CleanupStop, filters
<1>6. p.at = "Disconnect" /\ p.device = d /\ p.action = "Stop" /\ p.endpoint = object[d].link /\ p.made = {}
  BY <1>4 DEF Idle
<1>7. thread'[Main] = p /\ Moves(Main)
  BY <1>2, <1>5 DEF FilterTypes, Moves
<1>8. \A e \in Objects : object'[e].link = object[e].link /\ object'[e].m_State \in {object[e].m_State, "Stopping"}
                         /\ (e # d => object'[e] = object[e])
  <2>1. object \in [Objects -> Object] /\ object[d] \in Object
    BY <1>2, <1>3 DEF ListTypes, Object
  <2>2. PICK o : o = [object[d] EXCEPT !.m_State = "Stopping"]
    OBVIOUS
  <2>3. object' = [object EXCEPT ![d] = o] /\ o.link = object[d].link /\ o.m_State = "Stopping"
    BY <1>5, <2>1, <2>2 DEF Object
  <2>4. object'[d] = o /\ \A e \in Objects \ {d} : object'[e] = object[e]
    BY <1>3, <2>1, <2>3
  <2> QED BY <2>3, <2>4
<1>9. TasksInOrder' /\ StopComesFirst'
  BY <1>1, <1>5, <1>6, <1>7, <1>8, OrderStops
<1>10. ThreadTasks'
  <2>1. LinksKnown'
    <3>1. Listed(d)
      BY <1>3 DEF Listed
    <3>2. Exact(d) /\ object[d].refs # 0
      BY <1>2, <1>3, <3>1, RefsAre, Holders DEF ListInv
    <3>3. object[d].m_State # "Unused"
      BY <3>2 DEF Exact
    <3> QED BY <1>2, <1>8, <3>3, ThreadTasksAre DEF LinksKnown
  <2>2. TaskOf(Main)'
    BY <1>3, <1>6, <1>7, <1>8, WorkPlaces DEF TaskOf
  <2>3. EndpointOf'
    BY <1>6, <1>7, WorkPlaces DEF EndpointOf
  <2> QED BY <1>2, <1>7, <2>1, <2>2, <2>3, ThreadTasksNext, Numbers
<1>11. Filtered'
  <2>1. thread[Main].made = {}
    BY <1>2, MadeAre DEF Filtered, MadeOf
  <2>2. thread'[Main].at \notin {"Wave", "Connect", "RemoveWave", "RemoveTopology"} \cup Installing
    BY <1>6, <1>7, WorkPlaces
  <2>3. installed' \in Nat /\ installed' >= installed
    BY <1>2, EndpointsAssumption DEF FilterTypes, AllEndpoints
  <2> QED BY <1>2, <1>5, <1>6, <1>7, <1>8, <2>1, <2>2, <2>3, FilteredMoves
<1> QED BY <1>6, <1>7, <1>9, <1>10, <1>11 DEF Order

LEMMA RemovingKeeps ==
  ASSUME RefsInv, Sound, Removing
  PROVE  Sound'
<1>1. /\ Main \in Threads /\ Main \notin Callbacks /\ Order /\ Filtered /\ NothingLeft /\ ThreadTasks
      /\ FilterTypes /\ ThreadPlaces /\ AdapterLives /\ CleanupWaits
  BY Numbers DEF RefsInv, ControlInv, Sound, Order
<1>2. \A to \in {"Cleanup", "Unregister", "Await", "Flush", "StopAll", "Empty", "Dispatch"} :
        to \notin Installing \cup Removal
  BY WorkPlaces
<1>3. thread[Main].at \in Stopping => Alone(Main) /\ m_WorkTasks = <<>> /\ pnp.at = "Idle"
  <2>1. Stopping \subseteq Flushing
    BY DEF Flushing
  <2> QED BY <1>1, <2>1, AloneWhen DEF CleanupWaits
<1>4. thread[Main].at \in Cleaning => common = "Live"
  BY <1>1 DEF AdapterLives
<1>5. ASSUME Order', Filtered', common' = "Live", thread'[Main].at # "Init" PROVE Sound'
  BY <1>5 DEF Sound, NothingLeft, At
<1>6. ASSUME NEW from \in {"Cleanup", "Unregister", "Await", "Flush", "StopAll"},
             NEW to \in {"Unregister", "Await", "Flush", "StopAll", "Empty"},
             thread[Main].at = from, Goto(Main, to), UNCHANGED <<common, installed>>,
             UNCHANGED <<pnp, m_Devices, m_WorkTasks, object, filters>>
      PROVE  Sound'
  <2>1. UNCHANGED <<m_SubdeviceCache, registered, connected, unknown>>
    BY <1>6 DEF filters
  <2>2. Order' /\ Filtered' /\ thread'[Main].at = to
    BY <1>1, <1>2, <1>6, <2>1, MainGoesOn
  <2> QED BY <1>4, <1>5, <1>6, <2>2, PlaceNames
<1>7. CASE /\ At(Main, "Cleanup") /\ Goto(Main, IF enableCleanup THEN "Unregister" ELSE "Empty")
           /\ UNCHANGED <<listVars, filters, adapterVars>>
  <2>1. PICK to \in {"Unregister", "Empty"} : Goto(Main, to)
    BY <1>7
  <2> QED BY <1>6, <1>7, <2>1 DEF listVars, adapterVars, At
<1>8. ASSUME CleanupSideband("Empty"), UNCHANGED <<common, installed>> PROVE Sound'
  <2>1. CASE CleanupUnregister
    <3>1. PICK from \in {"Unregister", "Await"}, to \in {"Await", "Flush"} : thread[Main].at = from /\ Goto(Main, to)
      BY <2>1 DEF CleanupUnregister, At
    <3> QED BY <1>6, <1>8, <2>1, <3>1 DEF CleanupUnregister, list
  <2>2. CASE CleanupFlush
    BY <1>6, <1>8, <2>2 DEF CleanupFlush, list, At
  <2>3. CASE CleanupStop("Empty") /\ m_Devices = <<>>
    BY <1>6, <1>8, <2>3 DEF CleanupStop, At
  <2>4. CASE CleanupStop("Empty") /\ m_Devices # <<>>
    <3>1. thread[Main].at = "StopAll" /\ thread[Main].device = Adapter
      BY <1>1, <2>4, PlaceNames DEF CleanupStop, At, ThreadPlaces
    <3>2. Order' /\ Filtered' /\ thread'[Main].at = "Disconnect"
      BY <1>1, <1>3, <1>8, <2>4, <3>1, StopKeeps, PlaceNames
    <3> QED BY <1>4, <1>5, <1>8, <3>1, <3>2, PlaceNames
  <2>5. CASE ReleaseTask(Main, "StopAll")
    <3>1. thread[Main].at = "Release"
      BY <2>5 DEF ReleaseTask, At
    <3>2. Order' /\ Filtered' /\ thread'[Main].at = "StopAll"
      BY <1>1, <1>3, <1>8, <2>5, <3>1, ReleaseKeeps, PlaceNames
    <3> QED BY <1>4, <1>5, <1>8, <3>1, <3>2, PlaceNames
  <2>6. CASE /\ RemoveDisconnect(Main, "Release") \/ RemoveWave(Main) \/ RemoveTopology(Main, "Release")
             /\ UNCHANGED listVars
    <3>1. thread[Main].at \in {"Disconnect", "RemoveWave", "RemoveTopology"}
      BY <2>6 DEF RemoveDisconnect, RemoveWave, RemoveTopology, At
    <3>2. "Release" \in {"Release", "Installed"} /\ "Release" # "Installed"
      OBVIOUS
    <3>3. /\ Order' /\ Filtered'
          /\ thread'[Main].at \in {"Wave", "Connect", "Release", "Installed", "RemoveWave", "RemoveTopology"}
      BY <1>1, <1>3, <1>8, <2>6, <3>1, <3>2, RunKeeps, PlaceNames
    <3> QED BY <1>4, <1>5, <1>8, <3>1, <3>3, PlaceNames
  <2> QED BY <1>8, <2>1, <2>2, <2>3, <2>4, <2>5, <2>6 DEF CleanupSideband
<1>9. CASE (CleanupBthScoBypass \/ CleanupUsbSideband) /\ UNCHANGED adapterVars
  BY <1>8, <1>9 DEF CleanupBthScoBypass, CleanupUsbSideband, adapterVars
<1>10. CASE /\ At(Main, "Empty") /\ Goto(Main, "Dispatch") /\ EmptySubdeviceCache
            /\ m_pCommon' = FALSE /\ common' = "Released"
            /\ UNCHANGED <<listVars, registered, connected, unknown, driverVars, device, m_AdapterInstances, installed>>
  <2>1. /\ thread[Main].at = "Empty" /\ m_SubdeviceCache' \subseteq m_SubdeviceCache
        /\ UNCHANGED <<pnp, m_Devices, m_WorkTasks, object, unknown>>
        /\ UNCHANGED <<registered, connected>> /\ UNCHANGED installed
    BY <1>10 DEF EmptySubdeviceCache, listVars, At
  <2>2. Order' /\ Filtered' /\ thread'[Main].at = "Dispatch"
    BY <1>1, <1>2, <1>10, <2>1, MainGoesOn
  <2> QED BY <2>2 DEF Sound, NothingLeft, At
<1>11. CASE PcDispatchIrp
  <2>1. /\ thread[Main].at = "Dispatch" /\ thread' = [thread EXCEPT ![Main] = Idle] /\ registered' = {} /\ connected' = {}
        /\ UNCHANGED <<pnp, m_Devices, m_WorkTasks, object, m_SubdeviceCache, unknown, installed>>
    BY <1>11 DEF PcDispatchIrp, At, listVars, adapterVars
  <2>2. thread[Main].device = Adapter /\ common # "Live" /\ m_SubdeviceCache = {} /\ Alone(Main)
    BY <1>1, <2>1, PlaceNames, AloneWhen DEF ThreadPlaces, AdapterLives, At
  <2>3. Moves(Main) /\ thread'[Main] = Idle /\ Idle.made = {}
    BY <1>1, <2>1 DEF FilterTypes, Moves, Idle
  <2>4. TasksInOrder' /\ StopComesFirst'
    <3>1. \A d \in Objects : ~Bare(d)' => ~Bare(d)
      BY <2>1 DEF Bare
    <3> QED BY <1>1, <2>1, <2>2, <2>3, <3>1, IdleThread, Numbers, OrderStays
  <2>5. ThreadTasks'
    <3>1. TaskOf(Main)' /\ LinksKnown'
      BY <1>1, <2>1, <2>3, IdleThread, Numbers, ThreadTasksAre DEF TaskOf, LinksKnown
    <3>2. EndpointOf'
      BY <2>3, IdleThread, WorkPlaces DEF EndpointOf
    <3> QED BY <1>1, <2>2, <2>3, <3>1, <3>2, ThreadTasksNext
  <2>6. Filtered'
    <3>1. ASSUME NEW t \in Threads PROVE thread'[t].made = {} /\ thread'[t].at \notin Installing
      <4>1. CASE t = Main
        BY <2>3, <4>1, IdleThread, WorkPlaces
      <4>2. CASE t # Main
        <5>1. thread'[t] = thread[t] /\ thread[t].at \notin Installing
          BY <2>2, <2>3, <4>2 DEF Alone, Moves
        <5>2. thread[t].made = {}
          BY <1>1, <5>1, MadeAre, WorkPlaces DEF Filtered, MadeOf
        <5> QED BY <5>1, <5>2
      <4> QED BY <4>1, <4>2
    <3> QED BY <1>1, <2>1, <2>2, <3>1, FilteredEmpty
  <2>7. NothingLeft'
    BY <2>1 DEF NothingLeft
  <2> QED BY <2>4, <2>5, <2>6, <2>7 DEF Sound, Order
<1> QED BY <1>7, <1>9, <1>10, <1>11 DEF Removing, Cleanup

\* What may fail is chosen once.
LEMMA FailingStays ==
  ASSUME [Next]_vars
  PROVE  SingleCallback' <=> SingleCallback
<1>1. CASE UNCHANGED listVars \/ UNCHANGED external
  BY <1>1 DEF SingleCallback, Concurrent, listVars, external
<1>2. CASE \E l \in Links, e \in {"Arrival", "Removal"} : Notify(e, l)
  BY <1>1, <1>2 DEF Notify, EvtBthHfpScoBypassInterfaceChange, EvtUsbSidebandInterfaceChange, InterfaceChange
<1>3. CASE Notified
  BY <1>1, <1>3 DEF Notified, BthHfpScoInterfaceArrival, UsbSidebandInterfaceArrival, BthHfpScoInterfaceRemoval,
         UsbSidebandInterfaceRemoval, ArrivalCreate, ArrivalInsert, RemovalFind, RemovalTask
<1>4. CASE \E t \in Callbacks : Working(t)
  BY <1>1, <1>4 DEF Working, EvtBthHfpScoBypassInterfaceWorkItem, EvtUsbSidebandInterfaceWorkItem, InterfaceWorkItem,
         CallbackBegins, TakeTask, StartFails, ReleaseTask
<1>5. CASE StartDevice
  BY <1>1, <1>5 DEF StartDevice, NewAdapterCommon, AdapterInit, InstallAllRenderFilters, InstallAllCaptureFilters,
         InstallNext, InstallSteps, InstallEndpointRenderFilters, InstallEndpointCaptureFilters, StartSideband,
         InitBthScoBypass, InitUsbSideband, InitSideband, StartDeviceExit
<1>6. CASE Removing
  BY <1>1, <1>6 DEF Removing, Cleanup, CleanupBthScoBypass, CleanupUsbSideband, CleanupSideband, CleanupUnregister,
         CleanupFlush, CleanupStop, ReleaseTask, PcDispatchIrp
<1>7. CASE DriverEntry \/ DriverUnload \/ AddDevice \/ AdapterDeleted \/ PnpHandler("Stopped") \/ PnpHandler("Absent")
           \/ UNCHANGED vars
  BY <1>1, <1>7 DEF DriverEntry, DriverUnload, AddDevice, AdapterDeleted, PnpHandler, vars
<1> QED BY <1>2, <1>3, <1>4, <1>5, <1>6, <1>7 DEF Next

LEMMA SoundAtFirst ==
  ASSUME Init
  PROVE  Sound
<1>1. /\ thread = [t \in Threads |-> Idle] /\ pnp = NoNotice /\ object = [d \in Objects |-> Unused]
      /\ unknown = [d \in Objects |-> <<NoSubdevice, NoSubdevice>>]
      /\ m_Devices = <<>> /\ m_WorkTasks = <<>> /\ m_SubdeviceCache = {} /\ registered = {} /\ connected = {}
  BY DEF Init, SubdeviceInit, SidebandListInit
<1>2. \A t \in Threads : thread[t].at = "Idle" /\ thread[t].device = Adapter /\ thread[t].made = {}
                         /\ thread[t].action = "None"
  BY <1>1 DEF Idle
<1>3. DOMAIN m_WorkTasks = {} /\ Unused.m_State = "Unused" /\ pnp.at = "Idle"
  BY <1>1, NoNoticeIs DEF Unused
<1>4. \A d \in Objects : Bare(d) /\ object[d] = Unused
  BY <1>1 DEF Bare
<1>5. ThreadTasks
  <2>1. \A t \in Threads : TaskOf(t)
    BY <1>2, Numbers DEF TaskOf
  <2>2. EndpointOf /\ \A t \in Callbacks : At(t, "Idle")
    BY <1>2, Numbers, WorkPlaces DEF EndpointOf, At
  <2>3. LinksKnown
    BY <1>3, <1>4 DEF LinksKnown
  <2> QED BY <2>1, <2>2, <2>3, ThreadTasksAre
<1>6. TasksInOrder
  <2>1. \A d \in Objects : ~InUse(d)
    BY <1>2, <1>3, <1>4, Numbers DEF InUse, Queued, Runs
  <2> QED BY <1>3, <2>1 DEF TasksInOrder
<1>7. StopComesFirst
  BY <1>3 DEF StopComesFirst
<1>8. RegisteredKnown
  <2>1. \A d \in Objects : PairOf(d)
    BY <1>1 DEF PairOf
  <2> QED BY <1>1, <2>1, RegisteredAre
<1>9. MadeAlone
  <2>1. \A t \in Threads : MadeOf(t)
    BY <1>1, <1>2, WorkPlaces DEF MadeOf
  <2> QED BY <2>1, MadeAre
<1>10. ConnectedKnown /\ WaveGone /\ NothingLeft
  BY <1>1, <1>2 DEF ConnectedKnown, WaveGone, NothingLeft, At
<1> QED BY <1>5, <1>6, <1>7, <1>8, <1>9, <1>10 DEF Sound, Order, Filtered

\* The order of the tasks and the state of the filters, where the work item
\* runs one callback at a time: a device is started once and before it is
\* stopped, and it finds no filter of an earlier device of the same link.
THEOREM FiltersInvariance == Spec => [](QueueInv /\ FilterInv)
<1> DEFINE Inv == SingleCallback => Sound
<1>1. Init => Inv
  BY SoundAtFirst
<1>2. RefsInv /\ Inv /\ [Next]_vars => Inv'
  <2> SUFFICES ASSUME RefsInv, SingleCallback => Sound, [Next]_vars, SingleCallback' PROVE Sound'
    OBVIOUS
  <2>1. SingleCallback /\ Sound
    BY FailingStays
  <2>2. CASE DriverEntry \/ DriverUnload \/ AddDevice \/ AdapterDeleted \/ UNCHANGED vars
    BY <2>1, <2>2, OthersKeep DEF DriverEntry, DriverUnload, AddDevice, AdapterDeleted, vars, adapterVars
  <2>3. CASE \E l \in Links, e \in {"Arrival", "Removal"} : Notify(e, l)
    BY <2>1, <2>3, NotifyKeeps
  <2>4. CASE \E t \in Callbacks : Working(t)
    BY <2>1, <2>4, WorkingKeeps
  <2>5. CASE PnpHandler("Stopped") \/ PnpHandler("Absent")
    BY <2>1, <2>5, PnpHandlerKeeps
  <2> QED BY <2>1, <2>2, <2>3, <2>4, <2>5, StartKeeps, RemovingKeeps, NotifiedKeeps DEF Next
<1>3. Inv => QueueInv /\ FilterInv
  BY DEF Sound, Order, Filtered, QueueInv, FilterInv
<1> QED BY <1>1, <1>2, <1>3, RefsInvariance, PTL DEF Spec

\* The owner of a registered filter is a device that lives and has not been stopped.
LEMMA OwnersLive ==
  ASSUME RefsInv, Order, Filtered, NEW s \in registered, s.owner # Adapter
  PROVE  object[s.owner].m_State \notin {"Stopped", "Deleted"}
<1>1. PICK d \in Objects : d = s.owner
  BY DEF RefsInv, ControlInv, FilterTypes, Subs, Owners
<1>2. InUse(d)
  <2>1. CASE \E t \in Threads : s \in thread[t].made
    <3>1. PICK t \in Threads : s \in thread[t].made
      BY <2>1
    <3>2. thread[t].device = d /\ thread[t].at \in Installing
      BY <1>1, <3>1, WorkPlaces DEF Filtered, MadeAlone
    <3>3. thread[t].action = "Start"
      BY <3>2 DEF Order, ThreadTasks
    <3> QED BY <3>2, <3>3 DEF InUse, Runs
  <2>2. CASE ~\E t \in Threads : s \in thread[t].made
    BY <1>1, <2>2, OwnedByPair DEF InUse
  <2> QED BY <2>1, <2>2
<1>3. (Listed(d) \/ ToStop(d)) /\ object[d].m_State # "Stopped"
  BY <1>2 DEF Order, TasksInOrder
<1>4. object[d].refs # 0 /\ Exact(d)
  <2>1. Exact(d) /\ ListTypes
    BY RefsAre DEF RefsInv, ListInv
  <2> QED BY <1>3, <2>1, Holders DEF ToStop, Queued, Runs
<1>5. object[d].m_State # "Deleted"
  BY <1>4 DEF Exact
<1> QED BY <1>1, <1>3, <1>5

\* A filter that is found in the cache can be used: it is registered with the
\* port class driver, and the sideband device it was made for has neither been
\* stopped nor deleted (GetCachedSubdevice in InstallEndpointFilters hands out
\* its interfaces unasked). It holds where the work item runs one callback at a
\* time.
THEOREM CachedFiltersLive == Spec => []CacheLive
<1>1. RefsInv /\ QueueInv /\ FilterInv => CacheLive
  <2> SUFFICES ASSUME RefsInv, QueueInv, FilterInv, SingleCallback, NEW s \in m_SubdeviceCache
               PROVE  /\ s \in registered
                      /\ s.owner # Adapter => object[s.owner].m_State \notin {"Stopped", "Deleted"}
    BY DEF CacheLive
  <2>1. Order /\ Filtered
    BY DEF QueueInv, FilterInv, Order, Filtered
  <2>2. s \in registered
    BY <2>1, RegisteredAre DEF Filtered
  <2> QED BY <2>1, <2>2, OwnersLive
<1> QED BY <1>1, RefsInvariance, FiltersInvariance, PTL

\* A sideband device that is deleted leaves no filter registered, and no
\* connection outlives a filter it connects (DisconnectTopologies and
\* UnregisterSubdevice before the last Release). It holds where the work item
\* runs one callback at a time.
THEOREM DeletedLeavesNothing == Spec => []DeletedIsGone
<1>1. RefsInv /\ QueueInv /\ FilterInv => DeletedIsGone
  <2> SUFFICES ASSUME RefsInv, QueueInv, FilterInv, SingleCallback
               PROVE  /\ \A s \in registered : s.owner # Adapter => object[s.owner].m_State # "Deleted"
                      /\ \A c \in connected : c[1] \in registered /\ c[2] \in registered
    BY DEF DeletedIsGone
  <2>1. Order /\ Filtered
    BY DEF QueueInv, FilterInv, Order, Filtered
  <2>2. \A s \in registered : s.owner # Adapter => object[s.owner].m_State # "Deleted"
    BY <2>1, OwnersLive
  <2> QED BY <2>1, <2>2 DEF Filtered, ConnectedKnown
<1> QED BY <1>1, RefsInvariance, FiltersInvariance, PTL
=============================================================================
