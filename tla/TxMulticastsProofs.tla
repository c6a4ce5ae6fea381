------------------------- MODULE TxMulticastsProofs -------------------------
(***************************************************************************)
(* Proofs about TxMulticasts, for any number of flows, bundles, addresses, *)
(* channels, conflicts and restarts.  That a flow keeps its index and the  *)
(* types need nothing; that it can be removed and that nothing is sent     *)
(* unchecked need users who wait for the end of the search.                *)
(***************************************************************************)
EXTENDS TxMulticasts, TLAPS

FlowTables == [TableIx -> Flow \cup {None}]

\* A multicast flow to d
Sends(f, d) == f # None /\ f.dst = d /\ f.multicast

\* add_flow changes one flow: a new one that is silent, or the one that has the
\* destination already.
OneAdded(t, s, i, d, after) ==
  /\ after.table \in FlowTables /\ after.silent \in SUBSET TableIx
  /\ \A j \in TableIx :
       \/ after.table[j] = t[j] /\ (j \in after.silent <=> j \in s)
       \/ /\ j = i /\ t[i] = None /\ j \in after.silent
          /\ Sends(after.table[j], d)
       \/ /\ t[j] # None /\ t[j].dst = d /\ d \notin FreeGroups(t)
          /\ Sends(after.table[j], d)

\* No outcome of add_flow changes more.
LEMMA AddOutcome ==
  ASSUME NEW t \in FlowTables, NEW s \in SUBSET TableIx, NEW i \in TableIx, NEW d \in Groups,
         NEW after \in AddOutcomes(t, s, i, d)
  PROVE  OneAdded(t, s, i, d, after)
<1> USE DEF OneAdded
<1> DEFINE twin == {j \in TableIx : t[j] # None /\ t[j].dst = d}
           flow == [dst |-> d, multicast |-> TRUE]
<1>1. flow \in Flow /\ d \in Dsts /\ Sends(flow, d)
  <2>1. flow \in Flow /\ d \in Dsts
    BY MulticastAssumption DEF Flow
  <2> QED
    BY <2>1, MulticastAssumption DEF Sends
<1>2. CASE twin # {}
  <2>1. after = [table |-> [j \in TableIx |-> IF j \in twin THEN flow ELSE t[j]], silent |-> s \ twin]
    BY <1>2 DEF AddOutcomes
  <2>2. d \notin FreeGroups(t)
    BY <1>2 DEF FreeGroups
  <2> QED
    BY <1>1, <2>1, <2>2 DEF FlowTables
<1>3. CASE twin = {}
  <2>1. \/ after = [table |-> t, silent |-> s]
        \/ t[i] = None /\ after = [table |-> [t EXCEPT ![i] = flow], silent |-> s \cup {i}]
    BY <1>3 DEF AddOutcomes
  <2>2. \/ after.table = t /\ after.silent = s
        \/ t[i] = None /\ after.table = [t EXCEPT ![i] = flow] /\ after.silent = s \cup {i}
    <3>1. CASE after = [table |-> t, silent |-> s]
      BY <3>1
    <3>2. CASE t[i] = None /\ after = [table |-> [t EXCEPT ![i] = flow], silent |-> s \cup {i}]
      BY <3>2, Zenon
    <3> QED
      BY <2>1, <3>1, <3>2
  <2> HIDE DEF flow
  <2>3. after.table \in FlowTables /\ after.silent \in SUBSET TableIx
    BY <1>1, <2>2 DEF FlowTables
  <2>4. ASSUME NEW j \in TableIx
        PROVE  \/ after.table[j] = t[j] /\ (j \in after.silent <=> j \in s)
               \/ j = i /\ t[i] = None /\ j \in after.silent /\ after.table[j] = flow
    BY <2>2 DEF FlowTables
  <2> QED
    BY <1>1, <2>3, <2>4
<1> QED
  BY <1>2, <1>3

\* add_flow_internal for probe n and address d: the bundle, its probe and its
\* flow, and nothing else.
Starts(i, c, preferred, n, d) ==
  /\ bundles[i] = None /\ probes[n] = None
  /\ preferred = None => d \in FreeGroups(table)
  /\ bundles' = [bundles EXCEPT ![i] = [channel |-> c, id |-> n]]
  /\ probes' = [probes EXCEPT ![n] = [index |-> i, channel |-> c, dst |-> d, at |-> "first check"]]
  /\ OneAdded(table, silent, i, d, [table |-> table', silent |-> silent'])

\* That is what the action does.
LEMMA AddFlowSummary ==
  ASSUME TypeOK, NEW i \in TableIx, NEW c \in Channels, NEW preferred \in Groups \cup {None},
         AddFlowInternal(i, c, preferred)
  PROVE  \E n \in Ids, d \in Groups : Starts(i, c, preferred, n, d)
<1>1. PICK n \in Ids, d \in IF preferred = None THEN FreeGroups(table) ELSE {preferred} :
        /\ probes[n] = None
        /\ \E after \in AddOutcomes(table, silent, i, d) :
             table' = after.table /\ silent' = after.silent
        /\ bundles' = [bundles EXCEPT ![i] = [channel |-> c, id |-> n]]
        /\ probes' = [probes EXCEPT ![n] = [index |-> i, channel |-> c, dst |-> d, at |-> "first check"]]
  BY DEF AddFlowInternal
<1>2. d \in Groups /\ (preferred = None => d \in FreeGroups(table))
  BY DEF FreeGroups
<1>3. OneAdded(table, silent, i, d, [table |-> table', silent |-> silent'])
  <2>1. PICK after \in AddOutcomes(table, silent, i, d) : table' = after.table /\ silent' = after.silent
    BY <1>1
  <2>2. table \in FlowTables /\ silent \in SUBSET TableIx
    BY DEF TypeOK, FlowTables
  <2>3. OneAdded(table, silent, i, d, after)
    BY <1>2, <2>2, AddOutcome
  <2> QED
    BY <2>1, <2>3 DEF OneAdded
<1>4. Starts(i, c, preferred, n, d)
  BY <1>1, <1>2, <1>3 DEF Starts, AddFlowInternal
<1> QED
  BY <1>2, <1>4

\* What save_state writes are saved bundles.
LEMMA SavedType ==
  ASSUME NEW bs \in [TableIx -> Bundle \cup {None}], NEW as \in [Ids -> Groups \cup {None}]
  PROVE  Saved(bs, as) \subseteq SavedBundle
<1> SUFFICES ASSUME NEW i \in TableIx, bs[i] # None
             PROVE  [index |-> i, channel |-> bs[i].channel, dst |-> as[bs[i].id]] \in SavedBundle
  BY DEF Saved
<1>1. bs[i] \in Bundle
  OBVIOUS
<1>2. bs[i].channel \in Channels /\ as[bs[i].id] \in Groups \cup {None}
  BY <1>1 DEF Bundle
<1> QED
  BY <1>2 DEF SavedBundle

-----------------------------------------------------------------------------
(***************************************************************************)
(* Types                                                                   *)
(***************************************************************************)

\* Starting a bundle keeps the types.
LEMMA AddFlowTypes ==
  ASSUME TypeOK, NEW i \in TableIx, NEW c \in Channels, NEW preferred \in Groups \cup {None},
         AddFlowInternal(i, c, preferred), phase' \in {phase, "panicked"},
         request' \in {request, None}, to_load' \subseteq to_load
  PROVE  TypeOK'
<1>1. PICK n \in Ids, d \in Groups : Starts(i, c, preferred, n, d)
  BY AddFlowSummary
<1>2. table' \in [TableIx -> Flow \cup {None}] /\ silent' \subseteq TableIx
  BY <1>1 DEF Starts, OneAdded, FlowTables
<1>3. bundles' \in [TableIx -> Bundle \cup {None}]
  BY <1>1 DEF Starts, TypeOK, Bundle
<1>4. probes' \in [Ids -> Probe \cup {None}]
  BY <1>1 DEF Starts, TypeOK, Probe
<1>5. file' \subseteq SavedBundle
  BY <1>3, SavedType DEF AddFlowInternal, TypeOK
<1> QED
  BY <1>2, <1>3, <1>4, <1>5 DEF AddFlowInternal, TypeOK, mdns

\* Every step of a probe keeps the types.
LEMMA ProbeTypes ==
  ASSUME TypeOK, NEW n \in Ids,
         InUse(n) \/ Reserve(n) \/ Activate(n) \/ Retry(n) \/ Abandon(n)
  PROVE  TypeOK'
<1>1. probes[n] \in Probe
  BY DEF InUse, Reserve, Activate, Retry, Abandon, At, TypeOK
<1>2. /\ probes[n].index \in TableIx /\ probes[n].channel \in Channels /\ probes[n].dst \in Groups
      /\ \A w \in {"first check", "second check", "conflict", "ended"}, d \in Groups :
           [probes EXCEPT ![n].dst = d, ![n].at = w] \in [Ids -> Probe \cup {None}]
      /\ \A w \in {"first check", "second check", "conflict", "ended"} :
           [probes EXCEPT ![n].at = w] \in [Ids -> Probe \cup {None}]
  BY <1>1 DEF Probe, TypeOK
<1>3. CASE InUse(n)
  <2>1. conflicts' \in 0 .. MaxConflicts
    <3>1. MaxConflicts \in Nat /\ conflicts \in 0 .. MaxConflicts
      BY MulticastAssumption DEF TypeOK
    <3>2. conflicts < MaxConflicts /\ conflicts' = conflicts + 1
      BY <1>3 DEF InUse
    <3> QED
      BY <3>1, <3>2
  <2>2. probes' \in [Ids -> Probe \cup {None}]
    BY <1>2, <1>3 DEF InUse, Goes
  <2>3. UNCHANGED <<table, silent, bundles, addr, by_channel, advertised, reserved, request, phase, restarts, file, to_load>>
    BY <1>3 DEF InUse, mdns, life
  <2> QED
    BY <2>1, <2>2, <2>3 DEF TypeOK
<1>4. CASE Reserve(n)
  BY <1>2, <1>4 DEF Reserve, Goes, TypeOK, life
<1>5. CASE Activate(n)
  BY <1>2, <1>5 DEF Activate, Goes, TypeOK, life
<1>6. CASE Retry(n)
  <2> DEFINE i == probes[n].index
             t == WithoutMulticast(i)
  <2>1. PICK d \in FreeGroups(t) :
          /\ \E after \in AddOutcomes(t, SilentWithout(i), i, d) :
               table' = after.table /\ silent' = after.silent
          /\ probes' = [probes EXCEPT ![n].dst = d, ![n].at = "first check"]
    BY <1>6 DEF Retry
  <2>2. t \in FlowTables /\ SilentWithout(i) \in SUBSET TableIx /\ i \in TableIx /\ d \in Groups
    BY <1>2 DEF WithoutMulticast, SilentWithout, TypeOK, FlowTables, FreeGroups
  <2> HIDE DEF t, i
  <2>3. table' \in FlowTables /\ silent' \in SUBSET TableIx
    <3>1. PICK after \in AddOutcomes(t, SilentWithout(i), i, d) : table' = after.table /\ silent' = after.silent
      BY <2>1
    <3>2. OneAdded(t, SilentWithout(i), i, d, after)
      BY <2>2, AddOutcome
    <3> QED
      BY <3>1, <3>2 DEF OneAdded
  <2> QED
    BY <1>2, <1>6, <2>1, <2>2, <2>3 DEF Retry, TypeOK, FlowTables, mdns, life
<1>7. CASE Abandon(n)
  BY <1>2, <1>7 DEF Abandon, Goes, TypeOK, mdns, life
<1> QED
  BY <1>3, <1>4, <1>5, <1>6, <1>7

\* Every step keeps the types.
LEMMA TypeStep == TypeOK /\ [Next]_vars => TypeOK'
<1> SUFFICES ASSUME TypeOK, [Next]_vars PROVE TypeOK'
  OBVIOUS
<1>1. CASE UnicastFlow
  <2>1. \E i \in TableIx, f \in Flow \cup {None} : table' = [table EXCEPT ![i] = f]
    BY <1>1 DEF UnicastFlow, Put, Drop, Unicast, Flow
  <2> QED
    BY <1>1, <2>1 DEF UnicastFlow, TypeOK, mdns, life
<1>2. CASE LoadNext
  <2>0. PICK s \in to_load : /\ to_load' = to_load \ {s} /\ UNCHANGED <<phase, request>>
                             /\ \E i \in LoadIndex(s) : AddFlowInternal(i, s.channel, s.dst)
    BY <1>2 DEF LoadNext
  <2>1. PICK i \in LoadIndex(s) : AddFlowInternal(i, s.channel, s.dst)
    BY <2>0
  <2>2. s.channel \in Channels /\ s.dst \in Groups \cup {None} /\ i \in TableIx
    BY DEF TypeOK, SavedBundle, LoadIndex
  <2> QED
    BY <2>0, <2>1, <2>2, AddFlowTypes
<1>3. CASE EndLoad
  BY <1>3 DEF EndLoad, TypeOK, mdns
<1>4. CASE Create
  <2>1. request \in Request
    BY <1>4 DEF Create, TypeOK
  <2>2. request.index \in TableIx /\ request.channel \in Channels
    BY <2>1 DEF Request
  <2>3. CASE AddFlowInternal(request.index, request.channel, None) /\ UNCHANGED phase
    BY <1>4, <2>2, <2>3, AddFlowTypes DEF Create
  <2>4. CASE UNCHANGED <<table, silent, bundles, addr, probes, mdns, restarts, file, conflicts>> /\ phase' = "panicked"
    BY <1>4, <2>4 DEF Create, TypeOK, mdns
  <2> QED
    BY <1>4, <2>3, <2>4 DEF Create
<1>5. ASSUME NEW i \in TableIx, Remove(i) PROVE TypeOK'
  <2>1. bundles[i] \in Bundle /\ bundles' = [bundles EXCEPT ![i] = None]
    BY <1>5 DEF Remove, TypeOK
  <2>2. bundles' \in [TableIx -> Bundle \cup {None}]
    BY <2>1 DEF TypeOK
  <2>3. file' \subseteq SavedBundle
    BY <1>5, <2>2, SavedType DEF Remove, TypeOK
  <2>4. table' \in [TableIx -> Flow \cup {None}] /\ silent' \subseteq TableIx
    BY <1>5 DEF Remove, WithoutMulticast, SilentWithout, TypeOK
  <2> QED
    BY <1>5, <2>1, <2>2, <2>3, <2>4 DEF Remove, TypeOK, life, Bundle
<1>6. ASSUME NEW i \in TableIx, NEW c \in Channels, CreateChecked(i, c) PROVE TypeOK'
  BY <1>6 DEF CreateChecked, TypeOK, Request, mdns, life
<1>7. CASE Shutdown \/ Stop
  BY <1>7 DEF Shutdown, Stop, TypeOK, EmptyTable, mdns
<1>8. CASE Restart
  BY <1>8, MulticastAssumption DEF Restart, TypeOK, EmptyTable, NoProbes, NoPointers, Unicast, Flow
<1>9. CASE UNCHANGED vars
  BY <1>9 DEF vars, TypeOK, mdns, life
<1> QED
  BY <1>1, <1>2, <1>3, <1>4, <1>5, <1>6, <1>7, <1>8, <1>9, ProbeTypes DEF Next

\* What each part of the transmitter may hold: among others, a probe has an
\* address, an index and a channel of the device, and so has what is saved.
THEOREM TypeCorrect == Spec => []TypeOK
<1>1. Init => TypeOK
  BY MulticastAssumption DEF Init, TableInit, EmptyTable, NoProbes, NoPointers, TypeOK
<1> QED
  BY <1>1, TypeStep, PTL DEF Spec

-----------------------------------------------------------------------------
(***************************************************************************)
(* A flow that has lost its address                                        *)
(***************************************************************************)

\* What IndexKept asks of one step, for one probe.
KeepsIndex(n) ==
  (At(n, "conflict") /\ IsMulticast(probes[n].index) /\ probes'[n] \notin {None, probes[n]})
    => LET f == table'[probes[n].index] IN f = None \/ f.multicast

\* A step that leaves the probe alone, restarts or leaves the table alone keeps
\* the index.
LEMMA KeptBy ==
  ASSUME NEW n \in Ids, probes'[n] \in {None, probes[n]} \/ UNCHANGED table
  PROVE  KeepsIndex(n)
BY DEF KeepsIndex, IsMulticast

\* Trying again with another address, the mutex held, keeps the index.
LEMMA RetryKeeps ==
  ASSUME TypeOK, NEW n \in Ids, Retry(n)
  PROVE  KeepsIndex(n)
<1> DEFINE i == probes[n].index
           t == WithoutMulticast(i)
<1>1. probes[n] \in Probe
  BY DEF Retry, At, TypeOK
<1>2. PICK d \in FreeGroups(t) : \E after \in AddOutcomes(t, SilentWithout(i), i, d) : table' = after.table
  BY DEF Retry
<1>3. t \in FlowTables /\ SilentWithout(i) \in SUBSET TableIx /\ i \in TableIx /\ d \in Groups
  BY <1>1 DEF WithoutMulticast, SilentWithout, TypeOK, FlowTables, FreeGroups, Probe
<1>4. IsMulticast(i) => t[i] = None
  BY <1>3 DEF WithoutMulticast, TypeOK
<1> HIDE DEF t, i
<1>5. PICK after \in AddOutcomes(t, SilentWithout(i), i, d) : table' = after.table
  BY <1>2
<1>6. OneAdded(t, SilentWithout(i), i, d, after)
  BY <1>3, AddOutcome
<1>7. IsMulticast(i) => table'[i] = None \/ table'[i].multicast
  BY <1>3, <1>4, <1>5, <1>6 DEF OneAdded, Sends
<1> QED
  BY <1>7 DEF KeepsIndex, i

\* A probe that was told to look for another address changes its flow without
\* giving up the mutex of FlowsTransmitter: no unicast flow gets in between.
THEOREM FlowsKeepTheirIndex == Spec => IndexKept
<1>1. ASSUME TypeOK, [Next]_vars, NEW n \in Ids PROVE KeepsIndex(n)
  <2>1. ASSUME NEW k \in Ids, InUse(k) \/ Reserve(k) \/ Activate(k) \/ Abandon(k) PROVE KeepsIndex(n)
    BY <2>1, KeptBy DEF InUse, Reserve, Activate, Abandon
  <2>2. ASSUME NEW k \in Ids, Retry(k) PROVE KeepsIndex(n)
    <3>1. CASE k = n
      BY <1>1, <2>2, <3>1, RetryKeeps
    <3>2. CASE k # n
      <4>1. probes'[n] = probes[n]
        BY <1>1, <2>2, <3>2 DEF Retry, TypeOK
      <4> QED
        BY <4>1, KeptBy
    <3> QED
      BY <3>1, <3>2
  <2>3. ASSUME NEW i \in TableIx, NEW c \in Channels, NEW preferred \in Groups \cup {None},
               AddFlowInternal(i, c, preferred)
        PROVE  KeepsIndex(n)
    <3>1. PICK k \in Ids, d \in Groups : Starts(i, c, preferred, k, d)
      BY <1>1, <2>3, AddFlowSummary
    <3>2. CASE k = n
      <4>1. ~At(n, "conflict")
        BY <3>1, <3>2 DEF Starts, At
      <4> QED
        BY <4>1 DEF KeepsIndex
    <3>3. CASE k # n
      <4>1. probes'[n] = probes[n]
        BY <1>1, <3>1, <3>3 DEF Starts, TypeOK
      <4> QED
        BY <4>1, KeptBy
    <3> QED
      BY <3>2, <3>3
  <2>4. CASE LoadNext
    <3>1. PICK s \in to_load : \E i \in LoadIndex(s) : AddFlowInternal(i, s.channel, s.dst)
      BY <2>4 DEF LoadNext
    <3>2. PICK i \in LoadIndex(s) : AddFlowInternal(i, s.channel, s.dst)
      BY <3>1
    <3>3. s.channel \in Channels /\ s.dst \in Groups \cup {None} /\ i \in TableIx
      BY <1>1 DEF TypeOK, SavedBundle, LoadIndex
    <3> QED
      BY <2>3, <3>2, <3>3
  <2>5. CASE Create
    <3>1. request.index \in TableIx /\ request.channel \in Channels
      BY <1>1, <2>5 DEF Create, TypeOK, Request
    <3>2. CASE AddFlowInternal(request.index, request.channel, None)
      BY <2>3, <3>1, <3>2
    <3>3. CASE UNCHANGED <<table, silent, bundles, addr, probes, mdns, restarts, file, conflicts>>
      BY <3>3, KeptBy
    <3> QED
      BY <2>5, <3>2, <3>3 DEF Create
  <2>6. CASE UnicastFlow \/ EndLoad \/ Shutdown \/ Stop \/ UNCHANGED vars
    BY <2>6, KeptBy DEF UnicastFlow, EndLoad, Shutdown, Stop, vars
  <2>7. CASE \E i \in TableIx : Remove(i) \/ \E c \in Channels : CreateChecked(i, c)
    BY <2>7, KeptBy DEF Remove, CreateChecked
  <2>8. CASE Restart
    <3>1. probes'[n] = None
      BY <2>8 DEF Restart, NoProbes
    <3> QED
      BY <3>1, KeptBy
  <2> QED
    BY <1>1, <2>1, <2>2, <2>4, <2>5, <2>6, <2>7, <2>8 DEF Next
<1>2. TypeOK /\ [Next]_vars =>
        [\A n \in Ids :
           (At(n, "conflict") /\ IsMulticast(probes[n].index) /\ probes'[n] \notin {None, probes[n]})
             => LET f == table'[probes[n].index] IN f = None \/ f.multicast]_vars
  BY <1>1 DEF KeepsIndex
<1> QED
  BY <1>2, TypeCorrect, PTL DEF Spec, IndexKept

-----------------------------------------------------------------------------
(***************************************************************************)
(* Users who wait for the end of the search                                *)
(***************************************************************************)

\* The parts of IndInv that a step has to keep beside the types.
Kept == /\ ProbeOwns /\ CellUnset /\ GroupsAreMulticast /\ PointersOwned
        /\ phase = "loading" => restarts > 0
        /\ Removable /\ SentIsChecked /\ PointersAdvertised

\* A bundle is started only where there is none, so that no other probe and no
\* multicast flow has its index.
LEMMA AddFlowKeeps ==
  ASSUME IndInv, TypeOK', NEW i \in TableIx, NEW c \in Channels, NEW preferred \in Groups \cup {None},
         AddFlowInternal(i, c, preferred), phase \in {"loading", "serving"}, UNCHANGED phase,
         phase = "serving" => preferred = None
  PROVE  Kept'
<1>1. PICK n \in Ids, d \in Groups : Starts(i, c, preferred, n, d)
  BY AddFlowSummary DEF IndInv
<1>2. UNCHANGED <<addr, by_channel, advertised, reserved, restarts, conflicts>>
  BY DEF AddFlowInternal, mdns
<1>3. Working /\ Working'
  BY DEF Working
<1>4. /\ bundles'[i] = [channel |-> c, id |-> n] /\ bundles'[i] # None
      /\ \A j \in TableIx \ {i} : bundles'[j] = bundles[j]
  <2>1. [channel |-> c, id |-> n] \in Bundle
    BY DEF Bundle
  <2> QED
    BY <1>1, <2>1, MulticastAssumption DEF Starts, IndInv, TypeOK
<1>5. /\ probes'[n].index = i /\ probes'[n].channel = c /\ probes'[n].dst = d
      /\ probes'[n].at = "first check" /\ probes'[n] # None
      /\ \A k \in Ids \ {n} : probes'[k] = probes[k]
  <2>1. [index |-> i, channel |-> c, dst |-> d, at |-> "first check"] \in Probe
    BY DEF Probe
  <2> QED
    BY <1>1, <2>1, MulticastAssumption DEF Starts, IndInv, TypeOK
<1>6. \A j \in TableIx :
        \/ table'[j] = table[j] /\ (j \in silent' <=> j \in silent)
        \/ j = i /\ table[i] = None /\ j \in silent' /\ Sends(table'[j], d)
        \/ /\ table[j] # None /\ table[j].dst = d /\ d \notin FreeGroups(table)
           /\ Sends(table'[j], d)
  BY <1>1 DEF Starts, OneAdded
<1>7. ~IsMulticast(i) /\ bundles[i] = None /\ probes[n] = None
  BY <1>1, <1>3 DEF Starts, IndInv, Removable
<1>8. GroupsAreMulticast'
  BY <1>6 DEF IndInv, GroupsAreMulticast, Sends
<1>9. Removable'
  <2> SUFFICES ASSUME NEW j \in TableIx, IsMulticast(j)', j # i PROVE bundles'[j] # None
    BY <1>4 DEF Removable
  <2>1. IsMulticast(j)
    BY <1>6 DEF IsMulticast, IndInv, GroupsAreMulticast
  <2> QED
    BY <1>3, <1>4, <2>1 DEF IndInv, Removable
<1>10. ProbeOwns'
  <2> SUFFICES ASSUME NEW k \in Ids, Searching(k)'
               PROVE  Owns(k)'
    BY DEF ProbeOwns
  <2>1. CASE k = n
    <3>1. IsMulticast(i)' => table'[i].dst = d
      <4>1. table'[i] = table[i] \/ Sends(table'[i], d)
        BY <1>6
      <4> QED
        BY <1>7, <4>1 DEF IsMulticast, Sends
    <3> QED
      BY <1>4, <1>5, <2>1, <3>1 DEF Owns, IsMulticast
  <2>2. CASE k # n
    <3>1. probes'[k] = probes[k] /\ Searching(k)
      BY <1>5, <2>2 DEF Searching
    <3>2. /\ bundles[probes[k].index] = [channel |-> probes[k].channel, id |-> k]
          /\ IsMulticast(probes[k].index) => table[probes[k].index].dst = probes[k].dst
      BY <1>3, <3>1 DEF IndInv, ProbeOwns, Owns
    <3>3. probes[k].index \in TableIx /\ probes[k] \in Probe
      BY <3>1 DEF IndInv, TypeOK, Searching, Probe
    <3>4. probes[k].index # i
      <4>1. [channel |-> probes[k].channel, id |-> k] \in Bundle
        BY <3>3 DEF Bundle, Probe
      <4> QED
        BY <1>7, <3>2, <4>1, MulticastAssumption
    <3>5. /\ table'[probes[k].index] # None /\ table'[probes[k].index].multicast
          => table'[probes[k].index].dst = probes[k].dst
      <4>1. \/ table'[probes[k].index] = table[probes[k].index]
            \/ /\ table[probes[k].index] # None /\ table[probes[k].index].dst = d
               /\ Sends(table'[probes[k].index], d)
        BY <1>6, <3>3, <3>4
      <4>2. table[probes[k].index] # None /\ table[probes[k].index].dst = d => IsMulticast(probes[k].index)
        BY <3>3 DEF IsMulticast, IndInv, GroupsAreMulticast
      <4> QED
        BY <3>2, <4>1, <4>2 DEF IsMulticast, Sends
    <3>6. bundles'[probes[k].index] = bundles[probes[k].index]
      BY <1>4, <3>3, <3>4
    <3> QED
      BY <3>1, <3>2, <3>5, <3>6 DEF Owns, IsMulticast
  <2> QED
    BY <2>1, <2>2
<1>11. CellUnset'
  BY <1>2, <1>5, <1>7 DEF IndInv, CellUnset, Searching
<1>12. PointersOwned' /\ PointersAdvertised'
  BY <1>2, <1>3, <1>4, <1>7 DEF IndInv, TypeOK, PointersOwned, PointersAdvertised
<1>13. SentIsChecked'
  <2> SUFFICES ASSUME restarts = 0, NEW j \in TableIx, IsMulticast(j)', j \notin silent'
               PROVE  \E k \in Ids : addr[k] = table'[j].dst
    BY <1>2 DEF SentIsChecked
  <2>1. d \in FreeGroups(table)
    <3>1. phase # "loading"
      BY DEF IndInv
    <3> QED
      BY <1>1, <3>1 DEF Starts
  <2>2. table'[j] = table[j] /\ j \notin silent
    BY <1>6, <2>1
  <2> QED
    BY <1>2, <2>2 DEF IndInv, SentIsChecked, IsMulticast
<1> QED
  BY <1>2, <1>8, <1>9, <1>10, <1>11, <1>12, <1>13 DEF Kept, IndInv

\* What changes when a probe moves on: where it is.
LEMMA Moves ==
  ASSUME TypeOK, NEW n \in Ids, NEW w \in {"first check", "second check", "conflict", "ended"},
         probes[n] # None, probes' = [probes EXCEPT ![n].at = w]
  PROVE  /\ \A k \in Ids \ {n} : probes'[k] = probes[k]
         /\ probes'[n].index = probes[n].index /\ probes'[n].channel = probes[n].channel
         /\ probes'[n].dst = probes[n].dst /\ probes'[n].at = w
         /\ probes[n] \in Probe /\ probes'[n] \in Probe /\ probes'[n] # None
<1>1. probes[n] \in Probe
  BY DEF TypeOK
<1>2. /\ probes'[n] = [probes[n] EXCEPT !.at = w]
      /\ \A k \in Ids \ {n} : probes'[k] = probes[k]
  BY DEF TypeOK
<1>3. PICK p : p = probes[n]
  OBVIOUS
<1>4. PICK q : q = probes'[n]
  OBVIOUS
<1>5. q = [p EXCEPT !.at = w] /\ p \in Probe
  BY <1>1, <1>2, <1>3, <1>4
<1>6. q \in Probe /\ q.index = p.index /\ q.channel = p.channel /\ q.dst = p.dst /\ q.at = w
  BY <1>5 DEF Probe
<1> QED
  BY <1>1, <1>2, <1>3, <1>4, <1>6, MulticastAssumption

\* A probe that looks, finds an answer or gives up changes nothing but where it is.
LEMMA LookKeeps ==
  ASSUME IndInv, NEW n \in Ids, InUse(n) \/ Reserve(n) \/ Abandon(n)
  PROVE  Kept'
<1>1. Searching(n)
  BY DEF InUse, Reserve, Abandon, At, Searching
<1>2. UNCHANGED <<table, silent, bundles, addr, by_channel, advertised, phase, restarts>>
  BY DEF InUse, Reserve, Abandon, life, mdns
<1>3. PICK w \in {"first check", "second check", "conflict", "ended"} : probes' = [probes EXCEPT ![n].at = w]
  BY DEF InUse, Reserve, Abandon, Goes
<1>4. /\ \A k \in Ids \ {n} : probes'[k] = probes[k]
      /\ probes'[n].index = probes[n].index /\ probes'[n].channel = probes[n].channel
      /\ probes'[n].dst = probes[n].dst /\ probes'[n] # None
  BY <1>1, <1>3, Moves DEF Searching, IndInv
<1>5. \A k \in Ids : (probes'[k] = None <=> probes[k] = None) /\ (Searching(k)' => Searching(k))
  BY <1>1, <1>4 DEF Searching
<1>6. Working' = Working
  BY <1>2 DEF Working
<1>7. \A k \in Ids : Owns(k) => Owns(k)'
  BY <1>2, <1>4 DEF Owns, IsMulticast
<1>8. ProbeOwns'
  BY <1>5, <1>6, <1>7 DEF ProbeOwns, IndInv
<1>9. CellUnset'
  BY <1>2, <1>5 DEF CellUnset, IndInv
<1> QED
  BY <1>2, <1>6, <1>8, <1>9 DEF Kept, IndInv, GroupsAreMulticast, PointersOwned, Removable, SentIsChecked,
    PointersAdvertised, IsMulticast

\* A probe that activates its flow has looked for its address.
LEMMA ActivateKeeps ==
  ASSUME IndInv, NEW n \in Ids, Activate(n)
  PROVE  Kept'
<1>1. Searching(n) /\ Working
  BY DEF Activate, At, Searching
<1>2. UNCHANGED <<table, bundles, phase, restarts>>
  BY DEF Activate, life
<1>3. /\ \A k \in Ids \ {n} : probes'[k] = probes[k]
      /\ probes[n] \in Probe /\ probes'[n] # None /\ probes'[n].at = "ended"
  BY <1>1, Moves DEF Activate, Goes, Searching, IndInv
<1>4. /\ addr' = [addr EXCEPT ![n] = probes[n].dst]
      /\ by_channel' = [by_channel EXCEPT ![probes[n].channel] = probes[n].index]
      /\ advertised' = [advertised EXCEPT ![probes[n].index] = probes[n].dst]
      /\ silent' = silent \ {probes[n].index}
  BY DEF Activate
<1>5. /\ probes[n].dst \in Groups /\ probes[n].dst # None
      /\ probes[n].index \in TableIx /\ probes[n].channel \in Channels
  BY <1>3, MulticastAssumption DEF Probe
<1>6. /\ addr[n] = None /\ addr'[n] = probes[n].dst
      /\ \A k \in Ids \ {n} : addr'[k] = addr[k]
  BY <1>1, <1>4 DEF IndInv, CellUnset, TypeOK
<1>7. Owns(n)
  BY <1>1 DEF IndInv, ProbeOwns
<1>8. ProbeOwns'
  BY <1>1, <1>2, <1>3 DEF IndInv, ProbeOwns, Searching, Owns, IsMulticast
<1>9. CellUnset'
  BY <1>3, <1>6 DEF IndInv, CellUnset, Searching
<1>10. PointersAdvertised'
  BY <1>4, <1>5 DEF IndInv, TypeOK, PointersAdvertised
<1>11. PointersOwned'
  <2>1. bundles[probes[n].index] # None /\ bundles[probes[n].index].channel = probes[n].channel
    <3>1. PICK b : b = bundles[probes[n].index]
      OBVIOUS
    <3>2. b = [channel |-> probes[n].channel, id |-> n]
      BY <1>7, <3>1 DEF Owns
    <3>3. b \in Bundle /\ b.channel = probes[n].channel
      BY <1>5, <3>2 DEF Bundle
    <3> QED
      BY <3>1, <3>3, MulticastAssumption
  <2> QED
    BY <1>1, <1>2, <1>4, <1>5, <2>1 DEF IndInv, TypeOK, PointersOwned
<1>12. SentIsChecked'
  <2> SUFFICES ASSUME restarts = 0, NEW i \in TableIx, IsMulticast(i), i \notin silent'
               PROVE  \E k \in Ids : addr'[k] = table[i].dst
    BY <1>2 DEF SentIsChecked, IsMulticast
  <2>1. CASE i = probes[n].index
    BY <1>6, <1>7, <2>1 DEF Owns
  <2>2. CASE i # probes[n].index
    <3>1. PICK k \in Ids : addr[k] = table[i].dst
      BY <1>4, <2>2 DEF IndInv, SentIsChecked
    <3>2. table[i].dst # None
      BY MulticastAssumption DEF IndInv, TypeOK, IsMulticast, Flow
    <3>3. k # n
      BY <1>6, <3>1, <3>2
    <3> QED
      BY <1>6, <3>1, <3>3
  <2> QED
    BY <2>1, <2>2
<1> QED
  BY <1>2, <1>8, <1>9, <1>10, <1>11, <1>12 DEF Kept, IndInv, GroupsAreMulticast, Removable, IsMulticast, Working

\* A probe that tries again has a bundle, which the flow it adds belongs to.
LEMMA RetryFlowKeeps ==
  ASSUME IndInv, NEW n \in Ids, Retry(n)
  PROVE  Kept'
<1> DEFINE i == probes[n].index
           t == WithoutMulticast(i)
<1>1. Searching(n) /\ Working
  BY DEF Retry, At, Searching
<1>2. UNCHANGED <<bundles, addr, by_channel, advertised, phase, restarts>>
  BY DEF Retry, life, mdns
<1>3. probes[n] \in Probe /\ i \in TableIx /\ Owns(n)
  BY <1>1 DEF Searching, IndInv, TypeOK, Probe, ProbeOwns
<1>4. PICK d \in FreeGroups(t) :
        /\ \E after \in AddOutcomes(t, SilentWithout(i), i, d) : table' = after.table /\ silent' = after.silent
        /\ probes' = [probes EXCEPT ![n].dst = d, ![n].at = "first check"]
  BY DEF Retry
<1>5. /\ \A k \in Ids \ {n} : probes'[k] = probes[k]
      /\ probes'[n].index = i /\ probes'[n].channel = probes[n].channel /\ probes'[n].dst = d
  BY <1>3, <1>4 DEF IndInv, TypeOK, Probe
<1>6. /\ ~IsMulticast(i) => t[i] = table[i]
      /\ IsMulticast(i) => t[i] = None
      /\ \A j \in TableIx \ {i} : t[j] = table[j] /\ (j \in SilentWithout(i) <=> j \in silent)
  BY <1>3 DEF WithoutMulticast, SilentWithout, IndInv, TypeOK
<1>7. t \in FlowTables /\ SilentWithout(i) \in SUBSET TableIx /\ d \in Groups
  BY <1>3 DEF WithoutMulticast, SilentWithout, IndInv, TypeOK, FlowTables, FreeGroups
<1>8. \A j \in TableIx \ {i} : table'[j] = table[j] /\ (j \in silent' <=> j \in silent)
  <2> HIDE DEF t, i
  <2>1. PICK after \in AddOutcomes(t, SilentWithout(i), i, d) : table' = after.table /\ silent' = after.silent
    BY <1>4
  <2>2. OneAdded(t, SilentWithout(i), i, d, after)
    BY <1>3, <1>7, AddOutcome
  <2> QED
    BY <1>4, <1>6, <2>1, <2>2 DEF OneAdded
<1>9. \/ table'[i] = t[i]
      \/ Sends(table'[i], d) /\ i \in silent'
  <2> HIDE DEF t, i
  <2>1. PICK after \in AddOutcomes(t, SilentWithout(i), i, d) : table' = after.table /\ silent' = after.silent
    BY <1>4
  <2>2. OneAdded(t, SilentWithout(i), i, d, after)
    BY <1>3, <1>7, AddOutcome
  <2> QED
    BY <1>3, <1>4, <1>7, <2>1, <2>2 DEF OneAdded
<1>10. /\ table'[i] # None /\ table'[i].multicast => table'[i].dst = d /\ i \in silent'
       /\ table'[i] # None => (table'[i].multicast <=> table'[i].dst \in Groups)
  BY <1>3, <1>6, <1>7, <1>9 DEF Sends, IsMulticast, IndInv, GroupsAreMulticast
<1>11. bundles[i] = [channel |-> probes[n].channel, id |-> n] /\ bundles[i] # None
  <2>1. [channel |-> probes[n].channel, id |-> n] \in Bundle
    BY <1>3 DEF Bundle, Probe
  <2> QED
    BY <1>3, <2>1, MulticastAssumption DEF Owns
<1>12. ProbeOwns'
  <2> SUFFICES ASSUME NEW k \in Ids, Searching(k)' PROVE Owns(k)'
    BY DEF ProbeOwns
  <2>1. CASE k = n
    BY <1>2, <1>5, <1>10, <1>11, <2>1 DEF Owns, IsMulticast
  <2>2. CASE k # n
    <3>1. probes'[k] = probes[k] /\ Searching(k)
      BY <1>5, <2>2 DEF Searching
    <3>2. Owns(k) /\ probes[k].index \in TableIx
      BY <1>1, <3>1 DEF IndInv, ProbeOwns, Searching, TypeOK, Probe
    <3>3. probes[k].index # i
      <4>1. PICK b : b = bundles[i]
        OBVIOUS
      <4>2. b.id = n
        BY <1>11, <4>1
      <4>3. probes[k].index = i => b.id = k
        BY <3>2, <4>1 DEF Owns
      <4> QED
        BY <2>2, <4>2, <4>3
    <3> HIDE DEF i
    <3>4. table'[probes[k].index] = table[probes[k].index]
      BY <1>8, <3>2, <3>3
    <3> QED
      BY <1>2, <3>1, <3>2, <3>4 DEF Owns, IsMulticast
  <2> QED
    BY <2>1, <2>2
<1> HIDE DEF i, t
<1>13. CellUnset'
  BY <1>1, <1>2, <1>5 DEF IndInv, CellUnset, Searching
<1>14. GroupsAreMulticast'
  BY <1>8, <1>10 DEF IndInv, GroupsAreMulticast
<1>15. Removable'
  BY <1>1, <1>2, <1>8, <1>11 DEF IndInv, Removable, IsMulticast
<1>16. SentIsChecked'
  BY <1>2, <1>8, <1>10 DEF IndInv, SentIsChecked, IsMulticast
<1> QED
  BY <1>2, <1>12, <1>13, <1>14, <1>15, <1>16 DEF Kept, IndInv, PointersOwned, PointersAdvertised, Working

\* A user who waits removes a bundle that no probe looks at any more.
LEMMA RemoveKeeps ==
  ASSUME IndInv, Patient, NEW i \in TableIx, Remove(i)
  PROVE  Kept'
<1>1. /\ bundles[i] # None /\ bundles' = [bundles EXCEPT ![i] = None]
      /\ probes[bundles[i].id].at = "ended"
      /\ by_channel' = [by_channel EXCEPT ![bundles[i].channel] = None]
      /\ advertised' = [advertised EXCEPT ![i] = None] \/ UNCHANGED advertised
      /\ table' = WithoutMulticast(i) /\ silent' = SilentWithout(i)
      /\ phase = "serving" /\ UNCHANGED <<addr, probes, phase, restarts>>
  BY DEF Remove, life
<1>2. bundles[i] \in Bundle /\ bundles[i].id \in Ids /\ bundles[i].channel \in Channels
  BY <1>1 DEF IndInv, TypeOK, Bundle
<1>3. /\ \A j \in TableIx \ {i} : table'[j] = table[j] /\ (j \in silent' <=> j \in silent)
      /\ \A j \in TableIx \ {i} : bundles'[j] = bundles[j] /\ advertised'[j] = advertised[j]
      /\ ~IsMulticast(i)' /\ (table'[i] # None => table'[i] = table[i])
  BY <1>1 DEF IndInv, TypeOK, WithoutMulticast, SilentWithout, IsMulticast
<1>4. Working
  BY <1>1 DEF Working
<1>5. \A c \in Channels : by_channel'[c] # None =>
        by_channel'[c] = by_channel[c] /\ c # bundles[i].channel /\ by_channel[c] \in TableIx
  BY <1>1, <1>2 DEF IndInv, TypeOK
<1>6. \A c \in Channels : by_channel'[c] # None => by_channel[c] # i
  BY <1>4, <1>5 DEF IndInv, PointersOwned
<1>7. PointersOwned' /\ PointersAdvertised'
  BY <1>3, <1>4, <1>5, <1>6 DEF IndInv, PointersOwned, PointersAdvertised
<1>8. ProbeOwns'
  <2> SUFFICES ASSUME NEW k \in Ids, Searching(k) PROVE Owns(k)'
    BY <1>1 DEF ProbeOwns, Searching
  <2>1. Owns(k) /\ probes[k].index \in TableIx
    BY <1>4 DEF IndInv, ProbeOwns, Searching, TypeOK, Probe
  <2>2. probes[k].index # i
    <3>1. PICK b : b = bundles[i]
      OBVIOUS
    <3>2. probes[k].index = i => b.id = k
      BY <2>1, <3>1 DEF Owns
    <3> QED
      BY <1>1, <3>1, <3>2 DEF Searching
  <2> QED
    BY <1>1, <1>3, <2>1, <2>2 DEF Owns, IsMulticast
<1>9. CellUnset'
  BY <1>1 DEF IndInv, CellUnset, Searching
<1>10. GroupsAreMulticast'
  BY <1>3 DEF IndInv, GroupsAreMulticast
<1>11. Removable'
  BY <1>3, <1>4 DEF IndInv, Removable, IsMulticast
<1>12. SentIsChecked'
  BY <1>1, <1>3 DEF IndInv, SentIsChecked, IsMulticast
<1> QED
  BY <1>1, <1>7, <1>8, <1>9, <1>10, <1>11, <1>12 DEF Kept, IndInv

\* Unicast flows come and go at indices without a flow.
LEMMA UnicastKeeps ==
  ASSUME IndInv, UnicastFlow
  PROVE  Kept'
<1>1. UNCHANGED <<silent, bundles, addr, probes, by_channel, advertised, phase, restarts>> /\ Working' = Working
  BY DEF UnicastFlow, mdns, life, Working
<1>2. PICK i \in TableIx : /\ ~IsMulticast(i) /\ ~IsMulticast(i)'
                           /\ \A j \in TableIx \ {i} : table'[j] = table[j]
                           /\ table'[i] # None => ~table'[i].multicast /\ table'[i].dst \notin Groups
  <2>1. CASE \E i \in TableIx, d \in Unicast : Put(i, d, FALSE)
    <3>1. PICK i \in TableIx, d \in Unicast : Put(i, d, FALSE)
      BY <2>1
    <3>2. table[i] = None /\ table' = [table EXCEPT ![i] = [dst |-> d, multicast |-> FALSE]]
      BY <3>1 DEF Put
    <3>3. /\ \A j \in TableIx \ {i} : table'[j] = table[j]
          /\ ~table'[i].multicast /\ table'[i].dst \notin Groups
      BY <3>2 DEF IndInv, TypeOK, Unicast
    <3> QED
      BY <3>2, <3>3 DEF IsMulticast
  <2>2. CASE \E i \in TableIx : Drop(i) /\ ~table[i].multicast
    BY <2>2 DEF Drop, IsMulticast, IndInv, TypeOK
  <2> QED
    BY <2>1, <2>2 DEF UnicastFlow
<1>3. \A k \in Ids : Owns(k) /\ Searching(k) => Owns(k)'
  <2> SUFFICES ASSUME NEW k \in Ids, Owns(k), Searching(k) PROVE Owns(k)'
    OBVIOUS
  <2>1. probes[k].index \in TableIx
    BY DEF Searching, IndInv, TypeOK, Probe
  <2> QED
    BY <1>1, <1>2, <2>1 DEF Owns, IsMulticast
<1>4. ProbeOwns'
  BY <1>1, <1>3 DEF IndInv, ProbeOwns, Searching
<1>5. GroupsAreMulticast'
  BY <1>2 DEF IndInv, GroupsAreMulticast
<1>6. Removable' /\ SentIsChecked'
  BY <1>1, <1>2 DEF IndInv, Removable, SentIsChecked, IsMulticast
<1> QED
  BY <1>1, <1>4, <1>5, <1>6 DEF Kept, IndInv, CellUnset, Searching, PointersOwned, PointersAdvertised

\* A stopped transmitter removes nothing and a new one has no multicast flow.
LEMMA EndKeeps ==
  ASSUME IndInv, Shutdown \/ Stop \/ Restart
  PROVE  Kept'
<1>1. CASE Shutdown
  <2>1. ~Working' /\ phase' # "loading"
    BY <1>1 DEF Shutdown, Working
  <2> QED
    BY <1>1, <2>1 DEF Shutdown, mdns, Kept, IndInv, ProbeOwns, PointersOwned, Removable, CellUnset, Searching,
      GroupsAreMulticast, SentIsChecked, PointersAdvertised, IsMulticast
<1>2. CASE Stop
  <2>1. ~Working' /\ phase' # "loading"
    BY <1>2 DEF Stop, Working
  <2>2. \A i \in TableIx : table'[i] = None
    BY <1>2 DEF Stop, EmptyTable
  <2> QED
    BY <1>2, <2>1, <2>2 DEF Stop, mdns, Kept, IndInv, ProbeOwns, PointersOwned, Removable, CellUnset, Searching,
      GroupsAreMulticast, SentIsChecked, PointersAdvertised, IsMulticast
<1>3. CASE Restart
  <2>1. /\ \A k \in Ids : probes'[k] = None /\ addr'[k] = None
        /\ \A c \in Channels : by_channel'[c] = None
    BY <1>3 DEF Restart, NoProbes, NoPointers
  <2>2. restarts' > 0
    BY <1>3 DEF Restart, IndInv, TypeOK
  <2>3. PICK m \in 0 .. MaxFlows, f \in [TableIx -> Unicast] :
          table' = [i \in TableIx |-> IF i < m THEN [dst |-> f[i], multicast |-> FALSE] ELSE None]
    BY <1>3 DEF Restart
  <2>4. \A i \in TableIx : table'[i] # None => ~table'[i].multicast /\ table'[i].dst \notin Groups
    BY <2>3 DEF Unicast
  <2> QED
    BY <2>1, <2>2, <2>4 DEF Kept, ProbeOwns, PointersOwned, Removable, CellUnset, Searching,
      GroupsAreMulticast, SentIsChecked, PointersAdvertised, IsMulticast
<1> QED
  BY <1>1, <1>2, <1>3

\* Every step keeps the inductive invariant.
LEMMA IndStep ==
  ASSUME Patient, IndInv, [Next]_vars
  PROVE  IndInv'
<1>1. TypeOK'
  BY TypeStep DEF IndInv
<1>2. CASE LoadNext
  <2>1. PICK s \in to_load : \E i \in LoadIndex(s) : AddFlowInternal(i, s.channel, s.dst)
    BY <1>2 DEF LoadNext
  <2>2. PICK i \in LoadIndex(s) : AddFlowInternal(i, s.channel, s.dst)
    BY <2>1
  <2>3. s.channel \in Channels /\ s.dst \in Groups \cup {None} /\ i \in TableIx
    BY DEF IndInv, TypeOK, SavedBundle, LoadIndex
  <2>4. phase = "loading" /\ UNCHANGED phase
    BY <1>2 DEF LoadNext
  <2> QED
    BY <1>1, <2>2, <2>3, <2>4, AddFlowKeeps DEF Kept, IndInv
<1>3. CASE Create
  <2>1. request.index \in TableIx /\ request.channel \in Channels /\ phase = "serving"
    BY <1>3 DEF Create, IndInv, TypeOK, Request
  <2>2. CASE AddFlowInternal(request.index, request.channel, None) /\ UNCHANGED phase
    BY <1>1, <2>1, <2>2, AddFlowKeeps DEF Kept, IndInv
  <2>3. CASE UNCHANGED <<table, silent, bundles, addr, probes, mdns, restarts, file, conflicts>> /\ phase' = "panicked"
    <3>1. Working
      BY <2>1 DEF Working
    <3> QED
      BY <1>1, <2>3, <3>1 DEF mdns, IndInv, ProbeOwns, Owns, PointersOwned, Removable, CellUnset, Searching,
        GroupsAreMulticast, SentIsChecked, PointersAdvertised, IsMulticast
  <2> QED
    BY <1>3, <2>2, <2>3 DEF Create
<1>4. CASE EndLoad \/ (\E i \in TableIx, c \in Channels : CreateChecked(i, c)) \/ UNCHANGED vars
  <2>1. /\ UNCHANGED <<table, silent, bundles, addr, probes, by_channel, advertised, restarts>>
        /\ phase' = "loading" => phase = "loading"
    BY <1>4 DEF EndLoad, CreateChecked, vars, mdns, life
  <2>2. Working' = Working
    BY <1>4 DEF EndLoad, CreateChecked, vars, life, Working
  <2> QED
    BY <1>1, <2>1, <2>2 DEF IndInv, ProbeOwns, Owns, PointersOwned, Removable, CellUnset, Searching,
      GroupsAreMulticast, SentIsChecked, PointersAdvertised, IsMulticast
<1>5. ASSUME NEW n \in Ids, InUse(n) \/ Reserve(n) \/ Activate(n) \/ Retry(n) \/ Abandon(n) PROVE IndInv'
  BY <1>1, <1>5, LookKeeps, ActivateKeeps, RetryFlowKeeps DEF Kept, IndInv
<1>6. ASSUME NEW i \in TableIx, Remove(i) PROVE IndInv'
  BY <1>1, <1>6, RemoveKeeps DEF Kept, IndInv
<1>7. CASE UnicastFlow
  BY <1>1, <1>7, UnicastKeeps DEF Kept, IndInv
<1>8. CASE Shutdown \/ Stop \/ Restart
  BY <1>1, <1>8, EndKeeps DEF Kept, IndInv
<1> QED
  BY <1>2, <1>3, <1>4, <1>5, <1>6, <1>7, <1>8 DEF Next

\* A new transmitter has no bundles, probes or flows.
LEMMA InitInv == Init => IndInv
<1> SUFFICES ASSUME Init PROVE IndInv
  OBVIOUS
<1>1. TypeOK
  BY MulticastAssumption DEF Init, TableInit, EmptyTable, NoProbes, NoPointers, TypeOK
<1>2. /\ \A i \in TableIx : table[i] = None
      /\ \A n \in Ids : probes[n] = None /\ addr[n] = None
      /\ \A c \in Channels : by_channel[c] = None
      /\ phase = "serving"
  BY DEF Init, TableInit, EmptyTable, NoProbes, NoPointers
<1> QED
  BY <1>1, <1>2 DEF IndInv, ProbeOwns, PointersOwned, Removable, CellUnset, Searching,
    GroupsAreMulticast, SentIsChecked, PointersAdvertised, IsMulticast

\* With users who wait for the end of the search, what a probe works on is there.
THEOREM Invariance == ASSUME Patient PROVE Spec => []IndInv
<1>1. IndInv /\ [Next]_vars => IndInv'
  BY IndStep
<1> QED
  BY <1>1, InitInv, PTL DEF Spec

\* Whatever is added at whatever index, lost and added again, a multicast flow of
\* a working transmitter has a bundle, so that remove_flow finds it.
THEOREM EveryFlowRemovable == ASSUME Patient PROVE Spec => []Removable
<1>1. IndInv => Removable
  BY DEF IndInv
<1> QED
  BY <1>1, Invariance, PTL

\* Until a restart, a flow transmits only to an address that some probe has looked
\* for twice.
THEOREM NothingSentUnchecked == ASSUME Patient PROVE Spec => []SentIsChecked
<1>1. IndInv => SentIsChecked
  BY DEF IndInv
<1> QED
  BY <1>1, Invariance, PTL

\* What mDNS says a channel is part of is announced itself.
THEOREM ChannelsPointAtAnnounced == ASSUME Patient PROVE Spec => []PointersAdvertised
<1>1. IndInv => PointersAdvertised
  BY DEF IndInv
<1> QED
  BY <1>1, Invariance, PTL
=============================================================================
