--------------------------- MODULE FlowsTxProofs ---------------------------
(***************************************************************************)
(* Proofs about the manager of FlowsTx, for any number of flows,           *)
(* destinations, cookies and restarts: its tables always describe the same *)
(* flows, and to those who share it it is a FlowTable.                     *)
(***************************************************************************)
EXTENDS FlowsTx, TLAPS

-----------------------------------------------------------------------------
(***************************************************************************)
(* Facts about the parts                                                   *)
(***************************************************************************)

\* There is a first index.
LEMMA FirstIndex == 0 \in Index
<1>1. MaxFlows \in Nat /\ MaxFlows # 0
  BY FlowsAssumption
<1> QED BY <1>1 DEF Index

\* An operation of a kind has the fields of that kind.
LEMMA OpFields ==
  ASSUME ManagerTypes
  PROVE  /\ op.kind = "add" => op \in AddOps
         /\ op.kind = "scanned" => op \in ScanOps
         /\ op.kind = "remove" => op \in StopOps
         /\ op.kind = "update" => op \in SetOps
  BY DEF ManagerTypes, AddOps, ScanOps, StopOps, SetOps, Idle, Ended

\* What save_state writes describes flows, whatever the table.
LEMMA SavedTyped ==
  ASSUME NEW infos \in [Index -> Info \cup {None}]
  PROVE  Saved(infos) \subseteq [dst : Dsts, channels : Channels]
  BY DEF Saved, Info

\* The file holds flows after a save.
LEMMA SaveTyped ==
  ASSUME disk \subseteq [dst : Dsts, channels : Channels],
         NEW infos \in [Index -> Info \cup {None}], Save(infos)
  PROVE  disk' \subseteq [dst : Dsts, channels : Channels]
  BY SavedTyped DEF Save

\* remove_flow_internal keeps the tables in step, whether or not there was a
\* flow.
LEMMA RemovalAgrees ==
  ASSUME ManagerTypes, TablesAgree, NEW i \in Index, RemoveFlowInternal(i)
  PROVE  /\ flows' \in [Index -> Flow \cup {None}]
         /\ info' \in [Index -> Info \cup {None}]
         /\ by_dst' \in [Dsts -> Index \cup {None}]
         /\ TablesAgree'
         /\ \A d \in Dsts : by_dst[d] = None => by_dst'[d] = None
<1> USE SetsAssumption, NoneAssumption
<1>1. /\ flows' \in [Index -> Flow \cup {None}]
      /\ info' \in [Index -> Info \cup {None}]
  BY DEF ManagerTypes, RemoveFlowInternal
<1>2. by_dst' \in [Dsts -> Index \cup {None}]
  BY DEF ManagerTypes, RemoveFlowInternal, Flow
<1>3. TablesAgree'
  <2>1. CASE flows[i] = None
    BY <2>1 DEF ManagerTypes, RemoveFlowInternal, TablesAgree
  <2>2. CASE flows[i] # None
    <3>1. flows[i].dst \in Dsts
      BY <2>2 DEF ManagerTypes, Flow
    <3>2. by_dst' = [by_dst EXCEPT ![flows[i].dst] = None]
      BY <2>2 DEF RemoveFlowInternal
    <3> QED BY <2>2, <3>1, <3>2 DEF ManagerTypes, RemoveFlowInternal, TablesAgree, Flow
  <2> QED BY <2>1, <2>2
<1>4. \A d \in Dsts : by_dst[d] = None => by_dst'[d] = None
  BY DEF ManagerTypes, RemoveFlowInternal, Flow
<1> QED BY <1>1, <1>2, <1>3, <1>4

\* A free index is an index without a flow.
LEMMA FreeIsEmpty ==
  ASSUME ManagerTypes, TablesAgree, NEW want \in Index \cup {None}, NEW i \in FreeIndices(want)
  PROVE  i \in Index /\ flows[i] = None /\ info[i] = None
<1>1. CASE want # None
  BY <1>1 DEF FreeIndices
<1>2. CASE want = None
  <2>1. PICK n \in 0 .. MaxFlows - 1 : i = (seq + n) % MaxFlows /\ flows[(seq + n) % MaxFlows] = None
    BY <1>2 DEF FreeIndices
  <2>2. seq \in 0 .. MaxFlows - 1 /\ MaxFlows \in Nat \ {0}
    BY FlowsAssumption DEF ManagerTypes, Index
  <2>3. (seq + n) % MaxFlows \in 0 .. MaxFlows - 1
    BY <2>2
  <2> QED BY <2>1, <2>3 DEF Index, TablesAgree
<1> QED BY <1>1, <1>2

-----------------------------------------------------------------------------
(***************************************************************************)
(* The inductive invariant                                                 *)
(***************************************************************************)

LEMMA InvInit == Init => IndInv
<1> SUFFICES ASSUME Init PROVE IndInv
  OBVIOUS
<1> USE SetsAssumption, NoneAssumption, FlowsAssumption
<1>1. ManagerTypes
  <2>1. seq \in Index
    BY FirstIndex DEF Init
  <2> QED BY <2>1 DEF Init, ManagerTypes, Empty, EmptyDsts
<1>2. TablesAgree
  BY DEF Init, TablesAgree, Empty, EmptyDsts
<1>3. StillFree
  BY DEF Init, StillFree, Idle
<1> QED BY <1>1, <1>2, <1>3 DEF IndInv

\* The steps that touch nothing of the manager but the operation it is in, or
\* nothing of it at all.
LEMMA QuietStep ==
  ASSUME IndInv, UNCHANGED <<flows, by_dst, info, seq, disk>>,
         op' \in {Idle, Ended} \cup AddOps \cup ScanOps \cup StopOps \cup SetOps,
         to_load' \subseteq [dst : Dsts, channels : Channels],
         op'.kind = "scanned" => by_dst[op'.request.dst] = None
  PROVE  IndInv'
  BY DEF IndInv, ManagerTypes, TablesAgree, StillFree

LEMMA InvStep == IndInv /\ [Next]_vars => IndInv'
<1> SUFFICES ASSUME IndInv, [Next]_vars PROVE IndInv'
  OBVIOUS
<1> USE SetsAssumption, NoneAssumption
<1>t. ManagerTypes /\ TablesAgree /\ StillFree
  BY DEF IndInv
<1>o. /\ op.kind = "add" => op \in AddOps
      /\ op.kind = "scanned" => op \in ScanOps
      /\ op.kind = "remove" => op \in StopOps
      /\ op.kind = "update" => op \in SetOps
  BY <1>t, OpFields
<1>i. Idle.kind # "scanned" /\ Ended.kind # "scanned"
  BY DEF Idle, Ended
<1>1. CASE LoadNext
  <2>1. PICK f \in to_load : /\ to_load' = to_load \ {f}
                            /\ op' = AddRequest(f.dst, f.channels, FALSE, None)
    BY <1>1 DEF LoadNext
  <2>2. f \in [dst : Dsts, channels : Channels]
    BY <1>t DEF ManagerTypes
  <2>3. op' \in AddOps /\ op'.kind # "scanned"
    BY <2>1, <2>2 DEF AddRequest, AddOps
  <2> QED BY <1>1, <1>t, <2>1, <2>3, QuietStep DEF LoadNext, ManagerTypes
<1>2. CASE RequestFlow \/ RequestMulticast
  <2>1. op' \in AddOps /\ op'.kind # "scanned"
    <3>1. PICK d \in Dsts, c \in Channels, m \in BOOLEAN, w \in Index \cup {None} :
            op' = AddRequest(d, c, m, w)
      BY <1>2 DEF RequestFlow, RequestMulticast
    <3> QED BY <3>1 DEF AddRequest, AddOps
  <2> QED BY <1>2, <1>t, <2>1, QuietStep DEF RequestFlow, RequestMulticast, storage, ManagerTypes
<1>3. CASE RequestStop \/ RequestUpdate
  <2>1. op' \in StopOps \cup SetOps /\ op'.kind # "scanned"
    BY <1>3 DEF RequestStop, RequestUpdate, StopOps, SetOps
  <2> QED BY <1>3, <1>t, <2>1, QuietStep DEF RequestStop, RequestUpdate, storage, ManagerTypes
<1>4. CASE AddExisting
  <2> DEFINE i == by_dst[op.dst]
  <2>1. op \in AddOps /\ op.dst \in Dsts /\ i \in Index
    BY <1>4, <1>o, <1>t DEF AddExisting, AddOps, ManagerTypes
  <2>2. FlowInfo(op) \in Info /\ FlowInfo(op).dst = op.dst
    BY <2>1 DEF FlowInfo, AddOps, Info
  <2>3. info' = [info EXCEPT ![i] = FlowInfo(op)] /\ Save(info')
    BY <1>4 DEF AddExisting
  <2>4. info' \in [Index -> Info \cup {None}]
    BY <2>2, <2>3, <1>t DEF ManagerTypes
  <2>5. disk' \subseteq [dst : Dsts, channels : Channels]
    BY <2>3, <2>4, <1>t, SaveTyped DEF ManagerTypes
  <2>6. ManagerTypes'
    BY <1>4, <1>t, <2>4, <2>5 DEF AddExisting, ManagerTypes
  <2>7. flows[i] # None /\ flows[i].dst = op.dst
    BY <2>1, <1>4, <1>t DEF TablesAgree, AddExisting
  <2>8. TablesAgree'
    BY <1>4, <1>t, <2>1, <2>2, <2>3, <2>7 DEF AddExisting, TablesAgree, ManagerTypes
  <2>9. StillFree'
    BY <1>4, <1>i DEF AddExisting, StillFree
  <2> QED BY <2>6, <2>8, <2>9 DEF IndInv
<1>5. CASE ScanExpired
  <2>1. op' \in ScanOps /\ op'.request = op
    BY <1>5, <1>o DEF ScanExpired, ScanOps
  <2> QED BY <1>5, <1>t, <2>1, QuietStep DEF ScanExpired, storage, ManagerTypes
<1>6. CASE RemoveExpired
  <2>1. PICK i \in op.gone : RemoveFlowInternal(i) /\ op' = [op EXCEPT !.gone = @ \ {i}]
    BY <1>6 DEF RemoveExpired
  <2>2. op \in ScanOps /\ i \in Index
    BY <1>6, <1>o, <2>1 DEF RemoveExpired, ScanOps
  <2>3. op' \in ScanOps /\ op'.request = op.request /\ op.request.dst \in Dsts
    BY <2>1, <2>2 DEF ScanOps, AddOps
  <2>4. /\ flows' \in [Index -> Flow \cup {None}]
        /\ info' \in [Index -> Info \cup {None}]
        /\ by_dst' \in [Dsts -> Index \cup {None}]
        /\ TablesAgree'
        /\ \A d \in Dsts : by_dst[d] = None => by_dst'[d] = None
    BY <1>t, <2>1, <2>2, RemovalAgrees
  <2>5. ManagerTypes'
    BY <1>6, <1>t, <2>3, <2>4 DEF RemoveExpired, ManagerTypes, storage
  <2>6. StillFree'
    BY <1>6, <1>t, <2>3, <2>4 DEF RemoveExpired, StillFree
  <2> QED BY <2>4, <2>5, <2>6 DEF IndInv
<1>7. CASE AddNew
  <2> DEFINE r == op.request
  <2>1. op \in ScanOps /\ r \in AddOps /\ r.dst \in Dsts /\ by_dst[r.dst] = None
    BY <1>7, <1>o, <1>t DEF AddNew, ScanOps, AddOps, StillFree
  <2>2. PICK i \in FreeIndices(r.want), k \in Cookies \ CookiesInUse :
          /\ flows' = [flows EXCEPT ![i] = [dst |-> r.dst, cookie |-> k]]
          /\ by_dst' = [by_dst EXCEPT ![r.dst] = i]
          /\ info' = [info EXCEPT ![i] = FlowInfo(r)]
          /\ seq' = IF r.want = None THEN (i + 1) % MaxFlows ELSE seq
          /\ Save(info')
    BY <1>7 DEF AddNew
  <2>3. i \in Index /\ flows[i] = None /\ info[i] = None
    BY <1>t, <2>1, <2>2, FreeIsEmpty DEF AddOps
  <2>4. FlowInfo(r) \in Info /\ FlowInfo(r).dst = r.dst
    BY <2>1 DEF FlowInfo, AddOps, Info
  <2>5. [dst |-> r.dst, cookie |-> k] \in Flow
    BY <2>1, <2>2 DEF Flow
  <2>6. /\ flows' \in [Index -> Flow \cup {None}]
        /\ info' \in [Index -> Info \cup {None}]
        /\ by_dst' \in [Dsts -> Index \cup {None}]
    BY <1>t, <2>1, <2>2, <2>3, <2>4, <2>5 DEF ManagerTypes
  <2>7. disk' \subseteq [dst : Dsts, channels : Channels]
    BY <2>2, <2>6, <1>t, SaveTyped DEF ManagerTypes
  <2>8. seq' \in Index
    <3>1. i \in 0 .. MaxFlows - 1 /\ MaxFlows \in Nat \ {0}
      BY <2>3, FlowsAssumption DEF Index
    <3>2. (i + 1) % MaxFlows \in 0 .. MaxFlows - 1
      BY <3>1
    <3> QED BY <1>t, <2>2, <3>2 DEF Index, ManagerTypes
  <2>9. ManagerTypes'
    BY <1>7, <1>t, <2>6, <2>7, <2>8 DEF AddNew, ManagerTypes
  <2>10. TablesAgree'
    BY <1>t, <2>1, <2>2, <2>3, <2>4, <2>5 DEF TablesAgree, ManagerTypes, Flow
  <2>11. StillFree'
    BY <1>7, <1>i DEF AddNew, StillFree
  <2> QED BY <2>9, <2>10, <2>11 DEF IndInv
<1>8. CASE AddFails
  <2> DEFINE r == op.request
             free == FreeIndices(r.want)
  <2>1. r.want \in Index \cup {None}
    BY <1>8, <1>o DEF AddFails, ScanOps, AddOps
  <2>2. seq' \in Index
    <3>1. seq \in 0 .. MaxFlows - 1 /\ MaxFlows \in Nat \ {0}
      BY <1>t, FlowsAssumption DEF Index, ManagerTypes
    <3>2. (seq + MaxFlows + 1) % MaxFlows \in 0 .. MaxFlows - 1
      BY <3>1
    <3>3. free # {} => (CHOOSE i \in free : TRUE) \in free
      OBVIOUS
    <3>4. ASSUME NEW i \in free PROVE (i + 1) % MaxFlows \in 0 .. MaxFlows - 1
      <4>1. i \in 0 .. MaxFlows - 1
        BY <1>t, <2>1, FreeIsEmpty DEF Index
      <4> QED BY <3>1, <4>1
    <3> HIDE DEF free
    <3> QED BY <1>8, <1>t, <3>2, <3>3, <3>4 DEF AddFails, Index, ManagerTypes, free
  <2>3. ManagerTypes' /\ TablesAgree'
    BY <1>8, <1>t, <2>2 DEF AddFails, ManagerTypes, TablesAgree, storage
  <2>4. StillFree'
    BY <1>8, <1>i DEF AddFails, StillFree
  <2> QED BY <2>3, <2>4 DEF IndInv
<1>9. CASE RemoveFlow
  <2>1. op.index \in Index
    BY <1>9, <1>o DEF RemoveFlow, StopOps
  <2>2. StillFree'
    BY <1>9, <1>i DEF RemoveFlow, StillFree
  <2>3. CASE HandleFits
    <3>1. RemoveFlowInternal(op.index) /\ Save(info')
      BY <1>9, <2>3 DEF RemoveFlow
    <3>2. /\ flows' \in [Index -> Flow \cup {None}]
          /\ info' \in [Index -> Info \cup {None}]
          /\ by_dst' \in [Dsts -> Index \cup {None}]
          /\ TablesAgree'
      BY <1>t, <2>1, <3>1, RemovalAgrees
    <3>3. disk' \subseteq [dst : Dsts, channels : Channels]
      BY <3>1, <3>2, <1>t, SaveTyped DEF ManagerTypes
    <3> QED BY <1>9, <1>t, <2>2, <3>2, <3>3 DEF RemoveFlow, ManagerTypes, IndInv
  <2>4. CASE ~HandleFits
    BY <1>9, <1>t, <2>2, <2>4 DEF RemoveFlow, ManagerTypes, TablesAgree, IndInv
  <2> QED BY <2>3, <2>4
<1>10. CASE SetChannels
  <2>1. op \in SetOps /\ op.index \in Index /\ op.channels \in Channels
    BY <1>10, <1>o DEF SetChannels, SetOps
  <2>2. StillFree'
    BY <1>10, <1>i DEF SetChannels, StillFree
  <2>3. CASE HandleFits
    <3>1. info[op.index] \in Info
      BY <2>1, <2>3, <1>t DEF HandleFits, TablesAgree, ManagerTypes
    <3>2. info' = [info EXCEPT ![op.index].channels = op.channels]
      BY <1>10, <2>3 DEF SetChannels
    <3>3. PICK n : n = [info[op.index] EXCEPT !.channels = op.channels]
      OBVIOUS
    <3>m. n \in Info /\ n.dst = info[op.index].dst
      BY <2>1, <3>1, <3>3 DEF Info
    <3>4. info' = [info EXCEPT ![op.index] = n]
      BY <3>2, <3>3, <2>1, <1>t DEF ManagerTypes
    <3>5. ManagerTypes'
      BY <1>10, <1>t, <2>1, <3>m, <3>4 DEF SetChannels, ManagerTypes, storage
    <3>6. TablesAgree'
      BY <1>10, <1>t, <2>1, <3>1, <3>m, <3>4 DEF SetChannels, TablesAgree, ManagerTypes
    <3> QED BY <2>2, <3>5, <3>6 DEF IndInv
  <2>4. CASE ~HandleFits
    BY <1>10, <1>t, <2>2, <2>4 DEF SetChannels, ManagerTypes, TablesAgree, IndInv, storage
  <2> QED BY <2>3, <2>4
<1>11. CASE RemoveMulticastFlow
  <2>1. PICK i \in Index : RemoveFlowInternal(i)
    BY <1>11 DEF RemoveMulticastFlow
  <2>2. /\ flows' \in [Index -> Flow \cup {None}]
        /\ info' \in [Index -> Info \cup {None}]
        /\ by_dst' \in [Dsts -> Index \cup {None}]
        /\ TablesAgree'
    BY <1>t, <2>1, RemovalAgrees
  <2>3. disk' \subseteq [dst : Dsts, channels : Channels]
    BY <1>11, <2>2, <1>t, SaveTyped DEF ManagerTypes, RemoveMulticastFlow
  <2>4. StillFree'
    BY <1>11, <1>i DEF RemoveMulticastFlow, StillFree, Serving
  <2> QED BY <1>11, <1>t, <2>2, <2>3, <2>4 DEF RemoveMulticastFlow, ManagerTypes, IndInv
<1>12. CASE ActivateMulticastFlow
  BY <1>12, <1>t, QuietStep DEF ActivateMulticastFlow, ManagerTypes, StillFree, manager, storage
<1>13. CASE Shutdown
  BY <1>13, <1>t, <1>i, QuietStep DEF Shutdown, ManagerTypes, storage
<1>14. CASE ClockArrives \/ RTCommand \/ RTExpire
  <2>1. UNCHANGED <<manager, storage>>
    BY <1>14 DEF ClockArrives, RTCommand, RTAddFlow, RTRemoveFlow, RTSetChannels, RTShutdown, RTExpire
  <2> QED BY <1>t, <2>1, QuietStep DEF ManagerTypes, StillFree, manager, storage
<1>15. CASE Restart
  <2>1. seq' \in Index
    BY <1>15, FirstIndex DEF Restart
  <2>2. ManagerTypes'
    BY <1>15, <1>t, <2>1 DEF Restart, ManagerTypes, Empty, EmptyDsts
  <2>3. TablesAgree'
    BY <1>15 DEF Restart, TablesAgree, Empty, EmptyDsts
  <2>4. StillFree'
    BY <1>15, <1>i DEF Restart, StillFree
  <2> QED BY <2>2, <2>3, <2>4 DEF IndInv
<1>16. CASE UNCHANGED vars
  BY <1>16, <1>t, QuietStep DEF vars, manager, storage, ManagerTypes, StillFree
<1> QED BY <1>1, <1>2, <1>3, <1>4, <1>5, <1>6, <1>7, <1>8, <1>9, <1>10, <1>11, <1>12, <1>13,
           <1>14, <1>15, <1>16 DEF Next, Requests, Answers

\* The manager's tables are in step with the operation under way at every step
\* of every interleaving of requests, the real-time thread and restarts.
THEOREM ManagerInvariant == Spec => []IndInv
  BY InvInit, InvStep, PTL DEF Spec

\* The manager's three tables always describe the same flows, one per
\* destination, so that what scan_expired, set_channels and add_flow unwrap is
\* there.
THEOREM TablesInStep == Spec => []TablesAgree
<1>1. IndInv => TablesAgree
  BY DEF IndInv
<1> QED BY <1>1, ManagerInvariant, PTL

-----------------------------------------------------------------------------
(***************************************************************************)
(* The manager is a table of flows                                         *)
(***************************************************************************)

LEMMA SameIndices == Table!TableIx = Index
  BY DEF Index, Table!TableIx

\* What others see of a flow is an entry.
LEMMA ViewEntry ==
  ASSUME ManagerTypes, TablesAgree, NEW i \in Index, flows[i] # None
  PROVE  /\ View[i] = [dst |-> flows[i].dst, multicast |-> info[i].multicast]
         /\ View[i] \in Entry /\ View[i] # None
         /\ View[i].dst = flows[i].dst
<1>1. View[i] = [dst |-> flows[i].dst, multicast |-> info[i].multicast]
  BY DEF View
<1>2. flows[i] \in Flow /\ info[i] \in Info
  BY DEF ManagerTypes, TablesAgree
<1>3. [dst |-> flows[i].dst, multicast |-> info[i].multicast] \in Entry
  BY <1>2 DEF Flow, Info, Entry
<1>4. View[i].dst = flows[i].dst
  BY <1>1
<1> QED BY <1>1, <1>3, <1>4, NoneAssumption

\* A removal drops the flow, or finds none.
LEMMA RemovalDrops ==
  ASSUME ManagerTypes, TablesAgree, NEW i \in Index, RemoveFlowInternal(i)
  PROVE  Table!Drop(i) \/ UNCHANGED View
<1>1. View' = [View EXCEPT ![i] = None]
  BY DEF View, RemoveFlowInternal, ManagerTypes
<1>2. CASE flows[i] = None
  BY <1>1, <1>2 DEF View
<1>3. CASE flows[i] # None
  BY <1>1, <1>3, ViewEntry DEF Table!Drop
<1> QED BY <1>2, <1>3

\* Every step of the transmitter is a step of the table or leaves it alone.
LEMMA StepImplements ==
  ASSUME IndInv, [Next]_vars
  PROVE  Table!TableNext \/ UNCHANGED View
<1> USE SetsAssumption, NoneAssumption
<1>t. ManagerTypes /\ TablesAgree /\ StillFree
  BY DEF IndInv
<1>o. /\ op.kind = "add" => op \in AddOps
      /\ op.kind = "scanned" => op \in ScanOps
      /\ op.kind = "remove" => op \in StopOps
      /\ op.kind = "update" => op \in SetOps
  BY <1>t, OpFields
<1>d. ASSUME NEW i \in Index, RemoveFlowInternal(i) PROVE Table!TableNext \/ UNCHANGED View
  BY <1>d, <1>t, RemovalDrops, SameIndices DEF Table!TableNext
<1>1. CASE UNCHANGED <<flows, info>>
  BY <1>1 DEF View
<1>2. CASE AddExisting
  <2> DEFINE i == by_dst[op.dst]
  <2>1. op \in AddOps /\ op.dst \in Dsts /\ i \in Index
    BY <1>2, <1>o, <1>t DEF AddExisting, AddOps, ManagerTypes
  <2>2. flows[i] # None /\ flows[i].dst = op.dst
    BY <2>1, <1>2, <1>t DEF TablesAgree, AddExisting
  <2>3. FlowInfo(op).multicast = op.multicast /\ op.multicast \in BOOLEAN
    BY <2>1 DEF FlowInfo, AddOps
  <2>4. info' = [info EXCEPT ![i] = FlowInfo(op)] /\ flows' = flows
    BY <1>2 DEF AddExisting
  <2>5. View[i] # None /\ View[i].dst = flows[i].dst
    BY <1>t, <2>1, <2>2, ViewEntry, Zenon
  <2>6. View' = [View EXCEPT ![i] = [dst |-> View[i].dst, multicast |-> op.multicast]]
    BY <1>t, <2>1, <2>2, <2>3, <2>4, <2>5 DEF View, ManagerTypes
  <2>7. Table!Relabel(i, op.multicast)
    BY <2>5, <2>6 DEF Table!Relabel
  <2> QED BY <2>1, <2>3, <2>7, SameIndices DEF Table!TableNext
<1>3. CASE RemoveExpired
  <2>1. PICK i \in op.gone : RemoveFlowInternal(i)
    BY <1>3 DEF RemoveExpired
  <2>2. i \in Index
    BY <1>3, <1>o, <2>1 DEF RemoveExpired, ScanOps
  <2> QED BY <1>d, <2>1, <2>2
<1>4. CASE AddNew
  <2> DEFINE r == op.request
  <2>1. r \in AddOps /\ r.dst \in Dsts /\ by_dst[r.dst] = None
    BY <1>4, <1>o, <1>t DEF AddNew, ScanOps, AddOps, StillFree
  <2>2. PICK i \in FreeIndices(r.want), k \in Cookies \ CookiesInUse :
          /\ flows' = [flows EXCEPT ![i] = [dst |-> r.dst, cookie |-> k]]
          /\ info' = [info EXCEPT ![i] = FlowInfo(r)]
    BY <1>4 DEF AddNew
  <2>3. i \in Index /\ flows[i] = None
    BY <1>t, <2>1, <2>2, FreeIsEmpty DEF AddOps
  <2>4. [dst |-> r.dst, cookie |-> k] \in Flow
    BY <2>1, <2>2 DEF Flow
  <2>5. FlowInfo(r).multicast = r.multicast /\ r.multicast \in BOOLEAN
    BY <2>1 DEF FlowInfo, AddOps
  <2>6. View[i] = None
    BY <2>3 DEF View
  <2>7. View' = [View EXCEPT ![i] = [dst |-> r.dst, multicast |-> r.multicast]]
    BY <1>t, <2>2, <2>3, <2>4, <2>5 DEF View, ManagerTypes
  <2>8. ~Table!InTable(r.dst)
    <3>1. SUFFICES ASSUME NEW j \in Index, View[j] # None, View[j].dst = r.dst PROVE FALSE
      BY SameIndices DEF Table!InTable
    <3>2. flows[j] # None
      BY <3>1 DEF View
    <3>3. flows[j].dst = r.dst
      BY <1>t, <3>1, <3>2, ViewEntry, Zenon
    <3> QED BY <1>t, <2>1, <3>2, <3>3 DEF TablesAgree
  <2>9. Table!Put(i, r.dst, r.multicast)
    BY <2>6, <2>7, <2>8 DEF Table!Put
  <2> QED BY <2>1, <2>3, <2>5, <2>9, SameIndices DEF Table!TableNext
<1>5. CASE RemoveFlow
  <2>1. op.index \in Index
    BY <1>5, <1>o DEF RemoveFlow, StopOps
  <2> QED BY <1>1, <1>5, <1>d, <2>1 DEF RemoveFlow
<1>6. CASE SetChannels
  <2>1. op \in SetOps /\ op.index \in Index
    BY <1>6, <1>o DEF SetChannels, SetOps
  <2>2. CASE HandleFits
    <3>1. info[op.index] \in Info
      BY <2>1, <2>2, <1>t DEF HandleFits, TablesAgree, ManagerTypes
    <3>2. PICK n : n = [info[op.index] EXCEPT !.channels = op.channels]
      OBVIOUS
    <3>3. n.multicast = info[op.index].multicast
      BY <3>1, <3>2 DEF Info
    <3>4. info' = [info EXCEPT ![op.index] = n] /\ flows' = flows
      BY <1>6, <2>2, <3>2 DEF SetChannels
    <3> QED BY <1>t, <2>1, <3>3, <3>4 DEF View, ManagerTypes
  <2>3. CASE ~HandleFits
    BY <1>1, <1>6, <2>3 DEF SetChannels
  <2> QED BY <2>2, <2>3
<1>7. CASE RemoveMulticastFlow
  BY <1>7, <1>d DEF RemoveMulticastFlow
<1>8. CASE Restart
  <2>1. View' = Table!EmptyTable
    BY <1>8, SameIndices DEF Restart, View, Empty, Table!EmptyTable
  <2> QED BY <2>1 DEF Table!TableNext, Table!Clear
<1>9. CASE \/ LoadNext \/ Requests \/ ScanExpired \/ AddFails
           \/ ActivateMulticastFlow \/ Shutdown \/ ClockArrives \/ RTCommand \/ RTExpire
           \/ UNCHANGED vars
  <2>1. UNCHANGED <<flows, info>>
    BY <1>9 DEF LoadNext, Requests, RequestFlow, RequestMulticast, RequestStop, RequestUpdate,
       ScanExpired, AddFails, ActivateMulticastFlow, Shutdown, ClockArrives, RTCommand,
       RTAddFlow, RTRemoveFlow, RTSetChannels, RTShutdown, RTExpire, vars, manager
  <2> QED BY <1>1, <2>1
<1> QED BY <1>2, <1>3, <1>4, <1>5, <1>6, <1>7, <1>8, <1>9 DEF Next, Answers

\* The transmitter implements FlowTable: to the control server and the multicast
\* transmitter that share it under its mutex, a destination has one flow and an
\* index changes hands only when it is empty.
THEOREM ImplementsFlowTable == Spec => IsFlowTable
<1>1. Init => Table!TableInit
  BY SameIndices DEF Init, View, Empty, Table!TableInit, Table!EmptyTable
<1>2. IndInv /\ [Next]_vars => [Table!TableNext]_View
  BY StepImplements
<1> QED BY <1>1, <1>2, ManagerInvariant, PTL DEF Spec, IsFlowTable, Table!TableSpec

-----------------------------------------------------------------------------
(***************************************************************************)
(* The thread behind the queue                                             *)
(***************************************************************************)

\* What the commands of the queue are, and where one is about nothing else.
LEMMA CommandFields ==
  ASSUME NEW c \in Commands
  PROVE  /\ c.type \in {"add", "set", "remove", "shutdown"}
         /\ c.type # "shutdown" => c.index \in Index
         /\ c.type = "add" => c.dst \in Dsts /\ c.cookie \in Cookies /\ c.channels \in Channels
                              /\ c.keepalive \in BOOLEAN
         /\ c.type = "set" => c.channels \in Channels
  BY DEF Commands

\* Nothing of index i is said by command n.
Silent(n, i) == ~Fills(n, i) /\ ~Sets(n, i) /\ ~Empties(n, i)

\* A command is appended: numbers up to the old length mean what they meant.
Grown(i) ==
  /\ Len(queue') = Len(queue) + 1
  /\ \A n \in 0 .. Len(queue) : /\ Fills(n, i)' <=> Fills(n, i)
                                /\ Sets(n, i)' <=> Sets(n, i)
                                /\ Empties(n, i)' <=> Empties(n, i)
                                /\ Sent(n, i)' = Sent(n, i)

LEMMA QueueGrows ==
  ASSUME queue \in Seq(Commands), NEW c \in Commands, queue' = Append(queue, c), UNCHANGED rt,
         NEW i \in Index, NEW e, e = Len(queue) + 1
  PROVE  /\ Grown(i) /\ e \in Nat \ {0} /\ queue' \in Seq(Commands)
         /\ Fills(e, i)' <=> c.type = "add" /\ c.index = i
         /\ Sets(e, i)' <=> c.type = "set" /\ c.index = i
         /\ Empties(e, i)' <=> c.type = "remove" /\ c.index = i
         /\ Sent(e, i)' = c
<1>1. /\ Len(queue) \in Nat /\ Len(queue') = Len(queue) + 1 /\ queue' \in Seq(Commands)
      /\ queue'[Len(queue) + 1] = c
      /\ \A n \in 1 .. Len(queue) : queue'[n] = queue[n]
  OBVIOUS
<1>2. \A n \in 0 .. Len(queue) : n # 0 => n \in 1 .. Len(queue)
  BY <1>1
<1>3. Grown(i)
  BY <1>1, <1>2 DEF Grown, Fills, Sets, Empties, Sent
<1>4. e # 0 /\ e \in Nat
  BY <1>1
<1> QED BY <1>1, <1>3, <1>4 DEF Fills, Sets, Empties, Sent

\* What the slot is when the thread comes to a command does not depend on later
\* commands.
LEMMA GrownBefore ==
  ASSUME Len(queue) \in Nat, NEW i \in Index, Grown(i), NEW n \in 1 .. Len(queue) + 1
  PROVE  /\ Full(n, i)' <=> Full(n, i)
         /\ Free(n, i)' <=> Free(n, i)
         /\ \A m \in 0 .. n - 1 : Emptied(m, n, i)' <=> Emptied(m, n, i)
<1>1. \A m \in 0 .. n - 1 : /\ Emptied(m, n, i)' <=> Emptied(m, n, i)
                            /\ Filled(m, n, i)' <=> Filled(m, n, i)
  <2> SUFFICES ASSUME NEW m \in 0 .. n - 1
               PROVE  /\ Emptied(m, n, i)' <=> Emptied(m, n, i)
                      /\ Filled(m, n, i)' <=> Filled(m, n, i)
    OBVIOUS
  <2>1. \A l \in m + 1 .. n - 1 : l \in 0 .. Len(queue)
    OBVIOUS
  <2> QED BY <2>1 DEF Emptied, Filled, Grown
<1>2. \A m \in 0 .. n - 1 : m \in 0 .. Len(queue)
  OBVIOUS
<1> QED BY <1>1, <1>2 DEF Full, Free, Grown

\* What the slot is after the appended command.
LEMMA GrownAfter ==
  ASSUME Len(queue) \in Nat, NEW i \in Index, Grown(i), NEW e, e = Len(queue) + 1
  PROVE  /\ Fills(e, i)' /\ ~Empties(e, i)' => Full(e + 1, i)'
         /\ Empties(e, i)' /\ ~Fills(e, i)' /\ ~Sets(e, i)' => Free(e + 1, i)'
         /\ Full(e, i) /\ ~Empties(e, i)' => Full(e + 1, i)'
         /\ Free(e, i) /\ ~Fills(e, i)' /\ ~Sets(e, i)' => Free(e + 1, i)'
         /\ \A m \in 0 .. e - 1 : Emptied(m, e, i) => Emptied(m, e + 1, i)'
<1>1. e \in 1 .. Len(queue) + 1 /\ e \in Nat
  OBVIOUS
<1>2. \A m \in 0 .. (e + 1) - 1 : m = e \/ m \in 0 .. e - 1
  BY <1>1
<1>3. \A m \in 0 .. e - 1 : /\ e \in m + 1 .. (e + 1) - 1 /\ m \in 0 .. Len(queue)
                            /\ \A l \in m + 1 .. e - 1 : l \in m + 1 .. (e + 1) - 1 /\ l \in 0 .. Len(queue)
  BY <1>1
<1>4. \A m \in 0 .. e - 1 : /\ Emptied(m, e, i) \/ Empties(e, i)' => Emptied(m, e + 1, i)'
                            /\ Filled(m, e, i) \/ Fills(e, i)' => Filled(m, e + 1, i)'
  BY <1>3 DEF Emptied, Filled, Grown
<1>5. \A m \in 0 .. e - 1 : /\ Fills(m, i)' <=> Fills(m, i)
                            /\ Sets(m, i)' <=> Sets(m, i)
                            /\ Empties(m, i)' <=> Empties(m, i)
  BY <1>3 DEF Grown
<1> QED BY <1>2, <1>4, <1>5 DEF Full, Free

\* What the manager does to its tables when it sends a command.
Promised(c) ==
  /\ c.type = "add" =>
       /\ flows[c.index] = None /\ flows'[c.index] # None
       /\ flows'[c.index].cookie = c.cookie /\ flows'[c.index].dst = c.dst
       /\ info'[c.index].channels = c.channels
       /\ \A j \in Index : flows[j] # None => flows[j].dst # c.dst
  /\ c.type = "set" =>
       /\ flows[c.index] # None /\ flows'[c.index] = flows[c.index]
       /\ info'[c.index].channels = c.channels
  /\ c.type = "remove" => flows'[c.index] = None
  /\ \A j \in Index : c.type = "shutdown" \/ c.index # j =>
       /\ flows'[j] = flows[j]
       /\ flows[j] # None => info'[j].channels = info[j].channels

LEMMA CommandSent ==
  ASSUME ThreadInv, NEW c \in Commands, queue' = Append(queue, c), UNCHANGED realtime, Promised(c)
  PROVE  ThreadInv'
<1>1. /\ queue \in Seq(Commands) /\ Len(queue) \in Nat /\ UNCHANGED <<rt, rt_state>>
      /\ \A i \in Index : CommandsFit(i) /\ EndAgrees(i)
  BY DEF ThreadInv, realtime
<1>2. PICK e : e = Len(queue) + 1
  OBVIOUS
<1>3. e \in Nat \ {0} /\ e = Last /\ Last' = e + 1 /\ Len(queue') = e
  BY <1>1, <1>2 DEF Last
<1>4. ASSUME NEW i \in Index
      PROVE  /\ Grown(i) /\ queue' \in Seq(Commands)
             /\ Fills(e, i)' <=> c.type = "add" /\ c.index = i
             /\ Sets(e, i)' <=> c.type = "set" /\ c.index = i
             /\ Empties(e, i)' <=> c.type = "remove" /\ c.index = i
             /\ Sent(e, i)' = c
  BY <1>1, <1>2, QueueGrows
<1>5. ASSUME NEW i \in Index
      PROVE  /\ Fills(e, i)' /\ ~Empties(e, i)' => Full(e + 1, i)'
             /\ Empties(e, i)' /\ ~Fills(e, i)' /\ ~Sets(e, i)' => Free(e + 1, i)'
             /\ Full(e, i) /\ ~Empties(e, i)' => Full(e + 1, i)'
             /\ Free(e, i) /\ ~Fills(e, i)' /\ ~Sets(e, i)' => Free(e + 1, i)'
             /\ \A m \in 0 .. e - 1 : Emptied(m, e, i) => Emptied(m, e + 1, i)'
  BY <1>1, <1>2, <1>4, GrownAfter
<1>6. ASSUME NEW i \in Index
      PROVE  /\ Full(Last, i) <=> Full(e, i)
             /\ Free(Last, i) <=> Free(e, i)
             /\ Full(Last, i)' <=> Full(e + 1, i)'
             /\ Free(Last, i)' <=> Free(e + 1, i)'
             /\ \A m : Emptied(m, Last, i) <=> Emptied(m, e, i)
             /\ \A m : Emptied(m, Last, i)' <=> Emptied(m, e + 1, i)'
  <2>1. (Last' = e + 1) /\ Last = e
    BY <1>3
  <2> QED BY <2>1 DEF Full, Free, Emptied, Filled
<1>7. ASSUME NEW i \in Index PROVE CommandsFit(i)'
  <2>1. ASSUME NEW n \in 1 .. Len(queue) PROVE (Sets(n, i)' => Full(n, i)') /\ (Fills(n, i)' => Free(n, i)')
    <3>1. n \in 0 .. Len(queue) /\ n \in 1 .. Len(queue) + 1
      BY <1>1
    <3>2. (Sets(n, i) => Full(n, i)) /\ (Fills(n, i) => Free(n, i))
      BY <1>1 DEF CommandsFit
    <3>3. (Full(n, i)' <=> Full(n, i)) /\ (Free(n, i)' <=> Free(n, i))
      BY <1>1, <1>4, <3>1, GrownBefore
    <3> QED BY <1>4, <3>1, <3>2, <3>3 DEF Grown
  <2>2. (Sets(e, i)' => Full(e, i)') /\ (Fills(e, i)' => Free(e, i)')
    <3>1. (Full(e, i)' <=> Full(e, i)) /\ (Free(e, i)' <=> Free(e, i))
      BY <1>1, <1>2, <1>4, GrownBefore
    <3>2. Sets(e, i)' => flows[i] # None
      BY <1>4 DEF Promised
    <3>3. Fills(e, i)' => flows[i] = None
      BY <1>4 DEF Promised
    <3> QED BY <1>1, <1>6, <3>1, <3>2, <3>3 DEF EndAgrees
  <2>3. \A n \in 1 .. Len(queue)' : n = e \/ n \in 1 .. Len(queue)
    BY <1>1, <1>2, <1>3
  <2> QED BY <2>1, <2>2, <2>3 DEF CommandsFit
<1>8. ASSUME NEW i \in Index PROVE EndAgrees(i)'
  <2>1. \A m \in 0 .. Len(queue)' : m = e \/ m \in 0 .. Len(queue)
    BY <1>1, <1>2, <1>3
  <2>2. \A m \in 0 .. Len(queue) : /\ e \in m + 1 .. Len(queue') /\ e \in m + 1 .. (e + 1) - 1 /\ m \in 0 .. e - 1
                                   /\ \A l \in m + 1 .. Len(queue) : l \in m + 1 .. Len(queue') /\ l \in 0 .. Len(queue)
    BY <1>1, <1>2, <1>3
  <2>3. CASE c.type = "shutdown" \/ c.index # i
    <3>1. Silent(e, i)' /\ flows'[i] = flows[i] /\ (flows[i] # None => info'[i].channels = info[i].channels)
      BY <1>4, <2>3 DEF Promised, Silent
    <3>2. CASE flows[i] = None
      BY <1>1, <1>5, <1>6, <3>1, <3>2 DEF EndAgrees, Silent
    <3>3. CASE flows[i] # None
      <4>1. Full(Last, i)'
        BY <1>1, <1>5, <1>6, <3>1, <3>3 DEF EndAgrees, Silent
      <4>2. ASSUME NEW m \in 0 .. Len(queue)', Fills(m, i)', ~Emptied(m, Last, i)'
            PROVE  Sent(m, i)'.cookie = flows'[i].cookie /\ Sent(m, i)'.dst = flows'[i].dst
        <5>1. m \in 0 .. Len(queue)
          BY <2>1, <3>1, <4>2 DEF Silent
        <5>2. Fills(m, i) /\ ~Emptied(m, Last, i) /\ Sent(m, i)' = Sent(m, i)
          BY <1>4, <1>5, <1>6, <2>2, <4>2, <5>1 DEF Grown
        <5> QED BY <1>1, <3>1, <3>3, <5>1, <5>2 DEF EndAgrees
      <4>3. ASSUME NEW m \in 0 .. Len(queue)', Fills(m, i)' \/ Sets(m, i)',
                   \A l \in m + 1 .. Len(queue)' : ~Fills(l, i)' /\ ~Sets(l, i)'
            PROVE  Sent(m, i)'.channels = info'[i].channels
        <5>1. m \in 0 .. Len(queue)
          BY <2>1, <3>1, <4>3 DEF Silent
        <5>2. (Fills(m, i) \/ Sets(m, i)) /\ Sent(m, i)' = Sent(m, i)
          BY <1>4, <4>3, <5>1 DEF Grown
        <5>3. \A l \in m + 1 .. Len(queue) : ~Fills(l, i) /\ ~Sets(l, i)
          BY <1>4, <2>2, <4>3, <5>1 DEF Grown
        <5> QED BY <1>1, <3>1, <3>3, <5>1, <5>2, <5>3 DEF EndAgrees
      <4> QED BY <3>1, <3>3, <4>1, <4>2, <4>3 DEF EndAgrees
    <3> QED BY <3>2, <3>3
  <2>4. CASE c.type = "remove" /\ c.index = i
    BY <1>4, <1>5, <1>6, <2>4 DEF Promised, EndAgrees
  <2>5. CASE c.type = "add" /\ c.index = i
    <3>1. /\ Fills(e, i)' /\ ~Sets(e, i)' /\ ~Empties(e, i)' /\ Sent(e, i)' = c
          /\ flows[i] = None /\ flows'[i] # None /\ flows'[i].cookie = c.cookie /\ flows'[i].dst = c.dst
          /\ info'[i].channels = c.channels
      BY <1>4, <2>5 DEF Promised
    <3>2. Full(Last, i)'
      BY <1>5, <1>6, <3>1
    <3>3. ASSUME NEW m \in 0 .. Len(queue)', Fills(m, i)', ~Emptied(m, Last, i)' PROVE m = e
      <4>1. SUFFICES ASSUME m \in 0 .. Len(queue) PROVE FALSE
        BY <2>1
      <4>2. Fills(m, i) /\ ~Emptied(m, e, i)
        BY <1>4, <1>5, <1>6, <2>2, <3>3, <4>1 DEF Grown
      <4>3. Free(e, i)
        BY <1>1, <1>6, <3>1 DEF EndAgrees
      <4> QED BY <2>2, <4>1, <4>2, <4>3 DEF Free
    <3>4. ASSUME NEW m \in 0 .. Len(queue)', \A l \in m + 1 .. Len(queue)' : ~Fills(l, i)' /\ ~Sets(l, i)' PROVE m = e
      BY <2>1, <2>2, <3>1, <3>4
    <3> QED BY <3>1, <3>2, <3>3, <3>4 DEF EndAgrees
  <2>6. CASE c.type = "set" /\ c.index = i
    <3>1. /\ Sets(e, i)' /\ ~Fills(e, i)' /\ ~Empties(e, i)' /\ Sent(e, i)' = c
          /\ flows[i] # None /\ flows'[i] = flows[i] /\ info'[i].channels = c.channels
      BY <1>4, <2>6 DEF Promised
    <3>2. Full(Last, i)'
      BY <1>1, <1>5, <1>6, <3>1 DEF EndAgrees
    <3>3. ASSUME NEW m \in 0 .. Len(queue)', Fills(m, i)', ~Emptied(m, Last, i)'
          PROVE  Sent(m, i)'.cookie = flows'[i].cookie /\ Sent(m, i)'.dst = flows'[i].dst
      <4>1. m \in 0 .. Len(queue)
        BY <2>1, <3>1, <3>3
      <4>2. Fills(m, i) /\ ~Emptied(m, Last, i) /\ Sent(m, i)' = Sent(m, i)
        BY <1>4, <1>5, <1>6, <2>2, <3>3, <4>1 DEF Grown
      <4> QED BY <1>1, <3>1, <4>1, <4>2 DEF EndAgrees
    <3>4. ASSUME NEW m \in 0 .. Len(queue)', \A l \in m + 1 .. Len(queue)' : ~Fills(l, i)' /\ ~Sets(l, i)' PROVE m = e
      BY <2>1, <2>2, <3>1, <3>4
    <3> QED BY <3>1, <3>2, <3>3, <3>4 DEF EndAgrees
  <2>7. c.type \in {"add", "set", "remove", "shutdown"}
    BY CommandFields
  <2> QED BY <2>3, <2>4, <2>5, <2>6, <2>7
<1>9. ASSUME NEW i \in Index, NEW j \in Index, i # j PROVE MovesInOrder(i, j)'
  <2> SUFFICES ASSUME NEW n \in 1 .. Len(queue)', NEW m \in 0 .. n - 1,
                      Fills(n, i)', Fills(m, j)', Sent(n, i)'.dst = Sent(m, j)'.dst
               PROVE  Emptied(m, n, j)'
    BY DEF MovesInOrder
  <2>1. /\ m \in 0 .. Len(queue) /\ m \in 0 .. e - 1 /\ n \in 1 .. Len(queue) + 1
        /\ n = e \/ (n \in 1 .. Len(queue) /\ n \in 0 .. Len(queue))
    BY <1>1, <1>2, <1>3
  <2>2. Fills(m, j) /\ Sent(m, j)' = Sent(m, j)
    BY <1>4, <2>1 DEF Grown
  <2>3. Emptied(m, n, j)' <=> Emptied(m, n, j)
    BY <1>1, <1>4, <2>1, GrownBefore
  <2>4. CASE n = e
    <3>1. c.type = "add" /\ c.index = i /\ c.dst = Sent(m, j).dst
      BY <1>4, <2>2, <2>4
    <3>2. flows[j] # None => flows[j].dst # c.dst
      BY <3>1 DEF Promised
    <3>3. CASE flows[j] = None
      <4>1. Free(e, j)
        BY <1>1, <1>6, <3>3 DEF EndAgrees
      <4> QED BY <2>1, <2>2, <2>3, <2>4, <4>1 DEF Free
    <3>4. CASE flows[j] # None
      <4>1. Emptied(m, Last, j)
        BY <1>1, <2>1, <2>2, <3>1, <3>2, <3>4 DEF EndAgrees
      <4> QED BY <1>6, <2>3, <2>4, <4>1
    <3> QED BY <3>3, <3>4
  <2>5. CASE n \in 1 .. Len(queue) /\ n \in 0 .. Len(queue)
    <3>1. Fills(n, i) /\ Sent(n, i)' = Sent(n, i)
      BY <1>4, <2>5 DEF Grown
    <3>2. MovesInOrder(i, j)
      BY <1>9 DEF ThreadInv
    <3> QED BY <2>2, <2>3, <2>5, <3>1, <3>2 DEF MovesInOrder
  <2> QED BY <2>1, <2>4, <2>5
<1>10. queue' \in Seq(Commands)
  BY <1>1
<1> QED BY <1>1, <1>7, <1>8, <1>9, <1>10 DEF ThreadInv, NoPanic, OneStreamPerDst

\* The thread has received the first command: the others move up by one, and for
\* index i number 0 now stands for the first one as well.
Shrunk(i) ==
  /\ Len(queue) \in Nat \ {0} /\ Len(queue') = Len(queue) - 1
  /\ \A n \in 1 .. Len(queue) - 1 : /\ Fills(n, i)' <=> Fills(n + 1, i)
                                    /\ Sets(n, i)' <=> Sets(n + 1, i)
                                    /\ Empties(n, i)' <=> Empties(n + 1, i)
                                    /\ Sent(n, i)' = Sent(n + 1, i)
  /\ ~Sets(0, i)' /\ (Fills(0, i)' <=> ~Empties(0, i)') /\ (Fills(0, i) <=> ~Empties(0, i))
  /\ \/ Silent(1, i) /\ (Fills(0, i)' <=> Fills(0, i)) /\ Sent(0, i)' = Sent(0, i)
     \/ Empties(1, i) /\ ~Fills(1, i) /\ ~Sets(1, i) /\ ~Fills(0, i)'
     \/ /\ Fills(1, i) /\ ~Empties(1, i) /\ ~Sets(1, i) /\ Fills(0, i)'
        /\ Sent(0, i)'.cookie = Sent(1, i).cookie /\ Sent(0, i)'.dst = Sent(1, i).dst
        /\ Sent(0, i)'.channels = Sent(1, i).channels
     \/ /\ Sets(1, i) /\ ~Empties(1, i) /\ ~Fills(1, i) /\ Fills(0, i) /\ Fills(0, i)'
        /\ Sent(0, i)'.cookie = Sent(0, i).cookie /\ Sent(0, i)'.dst = Sent(0, i).dst
        /\ Sent(0, i)'.channels = Sent(1, i).channels

LEMMA ShrunkBetween ==
  ASSUME NEW i \in Index, Shrunk(i), NEW n \in 1 .. Len(queue), NEW m \in 0 .. n - 1
  PROVE  /\ Emptied(m, n, i)' <=> Emptied(m + 1, n + 1, i)
         /\ Filled(m, n, i)' <=> Filled(m + 1, n + 1, i)
<1>1. Len(queue) \in Nat
  BY DEF Shrunk
<1>2. \A l \in m + 1 .. n - 1 : l \in 1 .. Len(queue) - 1 /\ l + 1 \in (m + 1) + 1 .. (n + 1) - 1
  BY <1>1
<1>3. \A l \in (m + 1) + 1 .. (n + 1) - 1 : l - 1 \in 1 .. Len(queue) - 1 /\ l - 1 \in m + 1 .. n - 1 /\ (l - 1) + 1 = l
  BY <1>1
<1>4. \A l \in m + 1 .. n - 1 : (Fills(l, i)' <=> Fills(l + 1, i)) /\ (Empties(l, i)' <=> Empties(l + 1, i))
  BY <1>2 DEF Shrunk
<1>5. ASSUME Emptied(m, n, i)' PROVE Emptied(m + 1, n + 1, i)
  BY <1>2, <1>4, <1>5 DEF Emptied
<1>6. ASSUME Emptied(m + 1, n + 1, i) PROVE Emptied(m, n, i)'
  <2>1. PICK l \in (m + 1) + 1 .. (n + 1) - 1 : Empties(l, i)
    BY <1>6 DEF Emptied
  <2>2. PICK k \in m + 1 .. n - 1 : k + 1 = l
    BY <1>3, <2>1
  <2> QED BY <1>4, <2>1, <2>2 DEF Emptied
<1>7. ASSUME Filled(m, n, i)' PROVE Filled(m + 1, n + 1, i)
  BY <1>2, <1>4, <1>7 DEF Filled
<1>8. ASSUME Filled(m + 1, n + 1, i) PROVE Filled(m, n, i)'
  <2>1. PICK l \in (m + 1) + 1 .. (n + 1) - 1 : Fills(l, i)
    BY <1>8 DEF Filled
  <2>2. PICK k \in m + 1 .. n - 1 : k + 1 = l
    BY <1>3, <2>1
  <2> QED BY <1>4, <2>1, <2>2 DEF Filled
<1> QED BY <1>5, <1>6, <1>7, <1>8

\* The first command does not matter where it is not of the kind.
LEMMA FirstSkipped ==
  ASSUME NEW i \in Index, NEW n \in Nat
  PROVE  /\ ~Empties(1, i) => (Emptied(0, n, i) <=> Emptied(1, n, i))
         /\ ~Fills(1, i) => (Filled(0, n, i) <=> Filled(1, n, i))
<1>1. \A l : l \in 0 + 1 .. n - 1 <=> (l = 1 /\ n > 1) \/ l \in 1 + 1 .. n - 1
  OBVIOUS
<1> QED BY <1>1 DEF Emptied, Filled

\* The slot the thread comes to at a command is the one it came to before.
LEMMA ShrunkSlots ==
  ASSUME NEW i \in Index, Shrunk(i), NEW n \in 1 .. Len(queue)
  PROVE  /\ Full(n + 1, i) => Full(n, i)'
         /\ Free(n + 1, i) => Free(n, i)'
<1>1. Len(queue) \in Nat /\ n \in Nat /\ n + 1 \in Nat
  BY DEF Shrunk
<1>2. \A m \in 0 .. n - 1 : /\ m + 1 \in 0 .. (n + 1) - 1
                            /\ m = 0 \/ m \in 1 .. Len(queue) - 1
  BY <1>1
<1>3. 0 \in 0 .. (n + 1) - 1 /\ 1 \in 0 .. (n + 1) - 1 /\ 0 \in 0 .. n - 1 /\ 0 + 1 = 1
  BY <1>1
<1>4. ASSUME NEW m \in 0 .. n - 1, m # 0
      PROVE  /\ Fills(m, i)' <=> Fills(m + 1, i)
             /\ Sets(m, i)' <=> Sets(m + 1, i)
             /\ Empties(m, i)' <=> Empties(m + 1, i)
  BY <1>2, <1>4 DEF Shrunk
<1>5. /\ Emptied(0, n, i)' <=> Emptied(1, n + 1, i)
      /\ Filled(0, n, i)' <=> Filled(1, n + 1, i)
  BY <1>3, ShrunkBetween
<1>6. ASSUME Full(n + 1, i), NEW m \in 0 .. n - 1, Empties(m, i)' PROVE Filled(m, n, i)'
  <2>1. CASE m # 0
    BY <1>2, <1>4, <1>6, <2>1, ShrunkBetween DEF Full
  <2>2. CASE m = 0
    <3>1. Empties(1, i) \/ (Silent(1, i) /\ Empties(0, i))
      BY <1>6, <2>2 DEF Shrunk
    <3>2. CASE Empties(1, i)
      BY <1>3, <1>5, <1>6, <2>2, <3>2 DEF Full
    <3>3. CASE Silent(1, i) /\ Empties(0, i)
      <4>1. Filled(0, n + 1, i)
        BY <1>3, <1>6, <3>3 DEF Full
      <4> QED BY <1>1, <1>5, <2>2, <3>3, <4>1, FirstSkipped DEF Silent
    <3> QED BY <3>1, <3>2, <3>3
  <2> QED BY <2>1, <2>2
<1>7. ASSUME Free(n + 1, i), NEW m \in 0 .. n - 1, Fills(m, i)' \/ Sets(m, i)' PROVE Emptied(m, n, i)'
  <2>1. CASE m # 0
    BY <1>2, <1>4, <1>7, <2>1, ShrunkBetween DEF Free
  <2>2. CASE m = 0
    <3>1. Fills(1, i) \/ Sets(1, i) \/ (Silent(1, i) /\ Fills(0, i))
      BY <1>7, <2>2 DEF Shrunk
    <3>2. CASE Fills(1, i) \/ Sets(1, i)
      BY <1>3, <1>5, <1>7, <2>2, <3>2 DEF Free
    <3>3. CASE Silent(1, i) /\ Fills(0, i)
      <4>1. Emptied(0, n + 1, i)
        BY <1>3, <1>7, <3>3 DEF Free
      <4> QED BY <1>1, <1>5, <2>2, <3>3, <4>1, FirstSkipped DEF Silent
    <3> QED BY <3>1, <3>2, <3>3
  <2> QED BY <2>1, <2>2
<1> QED BY <1>6, <1>7 DEF Full, Free

LEMMA ShrunkFits ==
  ASSUME NEW i \in Index, Shrunk(i), CommandsFit(i)
  PROVE  CommandsFit(i)'
<1> SUFFICES ASSUME NEW n \in 1 .. Len(queue)'
             PROVE  (Sets(n, i)' => Full(n, i)') /\ (Fills(n, i)' => Free(n, i)')
  BY DEF CommandsFit
<1>1. n \in 1 .. Len(queue) - 1 /\ n \in 1 .. Len(queue) /\ n + 1 \in 1 .. Len(queue)
  BY DEF Shrunk
<1>2. (Sets(n + 1, i) => Full(n + 1, i)) /\ (Fills(n + 1, i) => Free(n + 1, i))
  BY <1>1 DEF CommandsFit
<1>3. (Fills(n, i)' <=> Fills(n + 1, i)) /\ (Sets(n, i)' <=> Sets(n + 1, i))
  BY <1>1 DEF Shrunk
<1> QED BY <1>1, <1>2, <1>3, ShrunkSlots

LEMMA ShrunkEnds ==
  ASSUME NEW i \in Index, Shrunk(i), EndAgrees(i), flows'[i] = flows[i], info'[i] = info[i]
  PROVE  EndAgrees(i)'
<1>1. PICK e : e = Len(queue)
  OBVIOUS
<1>2. e \in Nat \ {0} /\ Last' = e /\ Last = e + 1 /\ Len(queue') = e - 1 /\ e \in 1 .. Len(queue)
  BY <1>1 DEF Last, Shrunk
<1>3. /\ Full(Last, i) <=> Full(e + 1, i)
      /\ Free(Last, i) <=> Free(e + 1, i)
      /\ Full(Last, i)' <=> Full(e, i)'
      /\ Free(Last, i)' <=> Free(e, i)'
      /\ \A m : Emptied(m, Last, i) <=> Emptied(m, e + 1, i)
      /\ \A m : Emptied(m, Last, i)' <=> Emptied(m, e, i)'
  <2>1. Last' = e /\ Last = e + 1
    BY <1>2
  <2> QED BY <2>1 DEF Full, Free, Emptied, Filled
<1>4. (Full(e + 1, i) => Full(e, i)') /\ (Free(e + 1, i) => Free(e, i)')
  BY <1>2, ShrunkSlots
<1>5. CASE flows[i] = None
  BY <1>3, <1>4, <1>5 DEF EndAgrees
<1>6. CASE flows[i] # None
  <2>1. Full(Last, i)'
    BY <1>3, <1>4, <1>6 DEF EndAgrees
  <2>2. /\ \A m \in 0 .. Len(queue)' : m \in 0 .. e - 1 /\ m + 1 \in 0 .. Len(queue) /\ (m = 0 \/ m \in 1 .. Len(queue) - 1)
        /\ 0 \in 0 .. Len(queue) /\ 1 \in 0 .. Len(queue)
    BY <1>1, <1>2
  <2>3. ASSUME NEW m \in 0 .. Len(queue)', Fills(m, i)', ~Emptied(m, Last, i)'
        PROVE  Sent(m, i)'.cookie = flows'[i].cookie /\ Sent(m, i)'.dst = flows'[i].dst
    <3>1. ~Emptied(m + 1, Last, i)
      BY <1>2, <1>3, <2>2, <2>3, ShrunkBetween
    <3>2. CASE m # 0
      <4>1. Fills(m + 1, i) /\ Sent(m, i)' = Sent(m + 1, i)
        BY <2>2, <2>3, <3>2 DEF Shrunk
      <4> QED BY <1>6, <2>2, <3>1, <4>1 DEF EndAgrees
    <3>3. CASE m = 0
      <4>0. ~Emptied(1, Last, i) /\ 0 + 1 = 1
        BY <3>1, <3>3
      <4>1. CASE Fills(1, i)
        <5>1. Sent(0, i)'.cookie = Sent(1, i).cookie /\ Sent(0, i)'.dst = Sent(1, i).dst
          BY <2>3, <3>3, <4>1 DEF Shrunk, Silent
        <5> QED BY <1>6, <2>2, <3>3, <4>0, <4>1, <5>1 DEF EndAgrees
      <4>2. CASE ~Fills(1, i)
        <5>1. /\ Fills(0, i) /\ ~Empties(1, i)
              /\ Sent(0, i)'.cookie = Sent(0, i).cookie /\ Sent(0, i)'.dst = Sent(0, i).dst
          BY <2>3, <3>3, <4>2 DEF Shrunk, Silent
        <5>2. ~Emptied(0, Last, i)
          BY <1>2, <4>0, <5>1, FirstSkipped
        <5> QED BY <1>6, <2>2, <3>3, <5>1, <5>2 DEF EndAgrees
      <4> QED BY <4>1, <4>2
    <3> QED BY <3>2, <3>3
  <2>4. ASSUME NEW m \in 0 .. Len(queue)', Fills(m, i)' \/ Sets(m, i)',
               \A l \in m + 1 .. Len(queue)' : ~Fills(l, i)' /\ ~Sets(l, i)'
        PROVE  Sent(m, i)'.channels = info'[i].channels
    <3>1. ASSUME NEW l \in (m + 1) + 1 .. Len(queue) PROVE ~Fills(l, i) /\ ~Sets(l, i)
      <4>1. l - 1 \in m + 1 .. Len(queue') /\ l - 1 \in 1 .. Len(queue) - 1 /\ (l - 1) + 1 = l
        BY <1>1, <1>2
      <4>2. PICK k \in m + 1 .. Len(queue') : k \in 1 .. Len(queue) - 1 /\ k + 1 = l
        BY <4>1
      <4> QED BY <2>4, <4>2 DEF Shrunk
    <3>2. CASE m # 0
      <4>1. (Fills(m + 1, i) \/ Sets(m + 1, i)) /\ Sent(m, i)' = Sent(m + 1, i)
        BY <2>2, <2>4, <3>2 DEF Shrunk
      <4> QED BY <1>6, <2>2, <3>1, <4>1 DEF EndAgrees
    <3>3. CASE m = 0
      <4>0. \A l \in 1 + 1 .. Len(queue) : ~Fills(l, i) /\ ~Sets(l, i)
        BY <3>1, <3>3
      <4>1. CASE Fills(1, i) \/ Sets(1, i)
        <5>1. Sent(0, i)'.channels = Sent(1, i).channels
          BY <2>4, <3>3, <4>1 DEF Shrunk, Silent
        <5> QED BY <1>6, <2>2, <3>3, <4>0, <4>1, <5>1 DEF EndAgrees
      <4>2. CASE ~(Fills(1, i) \/ Sets(1, i))
        <5>1. Fills(0, i) /\ Sent(0, i)' = Sent(0, i)
          BY <2>4, <3>3, <4>2 DEF Shrunk, Silent
        <5>2. \A l \in 0 + 1 .. Len(queue) : l = 1 \/ l \in 1 + 1 .. Len(queue)
          BY <1>1, <1>2
        <5> QED BY <1>6, <2>2, <3>3, <4>0, <4>2, <5>1, <5>2 DEF EndAgrees
      <4> QED BY <4>1, <4>2
    <3> QED BY <3>2, <3>3
  <2> QED BY <1>6, <2>1, <2>3, <2>4 DEF EndAgrees
<1> QED BY <1>5, <1>6

LEMMA ShrunkOrder ==
  ASSUME NEW i \in Index, NEW j \in Index, Shrunk(i), Shrunk(j), MovesInOrder(i, j)
  PROVE  MovesInOrder(i, j)'
<1> SUFFICES ASSUME NEW n \in 1 .. Len(queue)', NEW m \in 0 .. n - 1,
                    Fills(n, i)', Fills(m, j)', Sent(n, i)'.dst = Sent(m, j)'.dst
             PROVE  Emptied(m, n, j)'
  BY DEF MovesInOrder
<1>1. /\ n \in 1 .. Len(queue) - 1 /\ n \in 1 .. Len(queue) /\ n + 1 \in 1 .. Len(queue) /\ n + 1 \in Nat
      /\ m + 1 \in 0 .. (n + 1) - 1 /\ (m = 0 \/ m \in 1 .. Len(queue) - 1)
      /\ 0 \in 0 .. (n + 1) - 1 /\ 1 \in 0 .. (n + 1) - 1
  BY DEF Shrunk
<1>2. Fills(n + 1, i) /\ Sent(n, i)' = Sent(n + 1, i)
  BY <1>1 DEF Shrunk
<1>3. Emptied(m, n, j)' <=> Emptied(m + 1, n + 1, j)
  BY <1>1, ShrunkBetween
<1>4. CASE m # 0
  <2>1. Fills(m + 1, j) /\ Sent(m, j)' = Sent(m + 1, j)
    BY <1>1, <1>4 DEF Shrunk
  <2> QED BY <1>1, <1>2, <1>3, <2>1 DEF MovesInOrder
<1>5. CASE m = 0
  <2>0. Emptied(m + 1, n + 1, j) <=> Emptied(1, n + 1, j)
    BY <1>5
  <2>1. CASE Fills(1, j)
    <3>1. Sent(0, j)'.dst = Sent(1, j).dst
      BY <1>5, <2>1 DEF Shrunk, Silent
    <3> QED BY <1>1, <1>2, <1>3, <1>5, <2>0, <2>1, <3>1 DEF MovesInOrder
  <2>2. CASE ~Fills(1, j)
    <3>1. Fills(0, j) /\ ~Empties(1, j) /\ Sent(0, j)'.dst = Sent(0, j).dst
      BY <1>5, <2>2 DEF Shrunk, Silent
    <3>2. Emptied(0, n + 1, j)
      BY <1>1, <1>2, <1>5, <3>1 DEF MovesInOrder
    <3> QED BY <1>1, <1>3, <2>0, <3>1, <3>2, FirstSkipped
  <2> QED BY <2>1, <2>2
<1> QED BY <1>4, <1>5

\* The thread receives the first command: it does not panic, and is as far behind
\* the manager as the rest of the queue says.
LEMMA CommandReceived ==
  ASSUME ThreadInv, RTCommand
  PROVE  ThreadInv'
<1> USE NoneAssumption
<1>1. /\ queue # <<>> /\ queue' = Tail(queue) /\ rt_state = "running" /\ UNCHANGED <<flows, info>>
  BY DEF RTCommand, RTAddFlow, RTRemoveFlow, RTSetChannels, RTShutdown, Receive, manager
<1>2. PICK c : c = Head(queue)
  OBVIOUS
<1>3. /\ queue \in Seq(Commands) /\ rt \in [Index -> Sender \cup {None}]
      /\ \A i \in Index : CommandsFit(i) /\ EndAgrees(i)
      /\ \A i, j \in Index : i # j => MovesInOrder(i, j)
  BY DEF ThreadInv
<1>4. /\ Len(queue) \in Nat \ {0} /\ Len(queue') = Len(queue) - 1 /\ queue' \in Seq(Commands)
      /\ c \in Commands /\ queue[1] = c
      /\ \A n \in 1 .. Len(queue) - 1 : queue'[n] = queue[n + 1] /\ n # 0 /\ n + 1 # 0
      /\ 1 \in 1 .. Len(queue)
  BY <1>1, <1>2, <1>3
<1>5. ASSUME NEW i \in Index
      PROVE  /\ Len(queue) \in Nat \ {0} /\ Len(queue') = Len(queue) - 1
             /\ \A n \in 1 .. Len(queue) - 1 : /\ Fills(n, i)' <=> Fills(n + 1, i)
                                               /\ Sets(n, i)' <=> Sets(n + 1, i)
                                               /\ Empties(n, i)' <=> Empties(n + 1, i)
                                               /\ Sent(n, i)' = Sent(n + 1, i)
             /\ ~Sets(0, i)' /\ (Fills(0, i)' <=> ~Empties(0, i)') /\ (Fills(0, i) <=> ~Empties(0, i))
             /\ Fills(0, i)' <=> rt'[i] # None
             /\ Fills(0, i) <=> rt[i] # None
             /\ Sent(0, i)' = rt'[i] /\ Sent(0, i) = rt[i] /\ Sent(1, i) = c
             /\ Fills(1, i) <=> c.type = "add" /\ c.index = i
             /\ Sets(1, i) <=> c.type = "set" /\ c.index = i
             /\ Empties(1, i) <=> c.type = "remove" /\ c.index = i
  BY <1>4 DEF Fills, Sets, Empties, Sent
<1>6. ASSUME NEW i \in Index
      PROVE  /\ c.type = "set" /\ c.index = i => rt[i] # None
             /\ c.type = "add" /\ c.index = i => rt[i] = None
  <2>1. /\ Sets(1, i) => Full(1, i)
        /\ Fills(1, i) => Free(1, i)
    BY <1>3, <1>4 DEF CommandsFit
  <2>2. /\ 0 \in 0 .. 1 - 1
        /\ ~Filled(0, 1, i) /\ ~Emptied(0, 1, i)
    BY DEF Filled, Emptied
  <2> QED BY <1>5, <2>1, <2>2 DEF Full, Free
<1>7. /\ c.type \in {"add", "set", "remove", "shutdown"}
      /\ c.type # "shutdown" => c.index \in Index
  BY <1>4, CommandFields
<1>8. ASSUME NEW i \in Index, rt'[i] = rt[i], c.type = "shutdown" \/ c.index # i PROVE Shrunk(i)
  BY <1>5, <1>8 DEF Shrunk, Silent
<1>9. ASSUME rt' \in [Index -> Sender \cup {None}], NoPanic', OneStreamPerDst', \A i \in Index : Shrunk(i)
      PROVE  ThreadInv'
  <2>1. \A i \in Index : CommandsFit(i)' /\ EndAgrees(i)'
    BY <1>1, <1>3, <1>9, ShrunkFits, ShrunkEnds
  <2>2. \A i, j \in Index : i # j => MovesInOrder(i, j)'
    BY <1>3, <1>9, ShrunkOrder
  <2> QED BY <1>4, <1>9, <2>1, <2>2 DEF ThreadInv
<1>10. NoPanic /\ OneStreamPerDst
  BY DEF ThreadInv
<1>11. CASE RTAddFlow
  <2>1. c.type = "add" /\ c.index \in Index
    BY <1>2, <1>7, <1>11 DEF RTAddFlow, Receive
  <2>2. PICK p : p = [dst |-> c.dst, cookie |-> c.cookie, channels |-> c.channels, keepalive |-> c.keepalive]
    OBVIOUS
  <2>3. /\ rt' = [rt EXCEPT ![c.index] = p]
        /\ rt_state' = IF rt[c.index] = None THEN rt_state ELSE "panicked"
    BY <1>2, <1>11, <2>2 DEF RTAddFlow
  <2>4. p \in Sender /\ p.dst = c.dst /\ p.cookie = c.cookie /\ p.channels = c.channels /\ p # None
    <3>1. c.dst \in Dsts /\ c.cookie \in Cookies /\ c.channels \in Channels /\ c.keepalive \in BOOLEAN
      BY <1>4, <2>1, CommandFields
    <3> QED BY <2>2, <3>1 DEF Sender
  <2>5. rt[c.index] = None
    BY <1>6, <2>1
  <2>6. rt' \in [Index -> Sender \cup {None}] /\ NoPanic'
    BY <1>3, <1>10, <2>3, <2>4, <2>5 DEF NoPanic
  <2>7. rt'[c.index] = p /\ \A j \in Index \ {c.index} : rt'[j] = rt[j]
    BY <1>3, <2>1, <2>3
  <2>8. Shrunk(c.index)
    <3>1. PICK i \in Index : i = c.index
      BY <2>1
    <3>2. Shrunk(i)
      BY <1>5, <2>1, <2>4, <2>7, <3>1 DEF Shrunk
    <3> QED BY <3>1, <3>2
  <2>9. OneStreamPerDst'
    <3>1. ASSUME NEW j \in Index, j # c.index, rt[j] # None PROVE rt[j].dst # c.dst
      <4>1. PICK i \in Index : i = c.index
        BY <2>1
      <4>2. MovesInOrder(i, j)
        BY <1>3, <3>1, <4>1
      <4>3. ~Emptied(0, 1, j) /\ 0 \in 0 .. 1 - 1
        BY DEF Emptied
      <4>4. Fills(1, i) /\ Fills(0, j) /\ Sent(1, i) = c /\ Sent(0, j) = rt[j]
        BY <1>5, <2>1, <3>1, <4>1
      <4> QED BY <1>4, <4>2, <4>3, <4>4 DEF MovesInOrder
    <3> QED BY <1>10, <2>4, <2>7, <3>1 DEF OneStreamPerDst
  <2> QED BY <1>8, <1>9, <2>6, <2>7, <2>8, <2>9
<1>12. CASE RTRemoveFlow
  <2>1. c.type = "remove" /\ c.index \in Index
    BY <1>2, <1>7, <1>12 DEF RTRemoveFlow, Receive
  <2>2. rt' = [rt EXCEPT ![c.index] = None] /\ UNCHANGED rt_state
    BY <1>2, <1>12 DEF RTRemoveFlow
  <2>3. rt' \in [Index -> Sender \cup {None}] /\ NoPanic'
    BY <1>3, <1>10, <2>2 DEF NoPanic
  <2>4. rt'[c.index] = None /\ \A j \in Index \ {c.index} : rt'[j] = rt[j]
    BY <1>3, <2>1, <2>2
  <2>5. Shrunk(c.index)
    <3>1. PICK i \in Index : i = c.index
      BY <2>1
    <3>2. Shrunk(i)
      BY <1>5, <2>1, <2>4, <3>1 DEF Shrunk
    <3> QED BY <3>1, <3>2
  <2>6. OneStreamPerDst'
    BY <1>10, <2>4 DEF OneStreamPerDst
  <2> QED BY <1>8, <1>9, <2>3, <2>4, <2>5, <2>6
<1>13. CASE RTSetChannels
  <2>1. c.type = "set" /\ c.index \in Index /\ c.channels \in Channels
    BY <1>2, <1>4, <1>7, <1>13, CommandFields DEF RTSetChannels, Receive
  <2>2. rt[c.index] # None /\ rt[c.index] \in Sender
    BY <1>3, <1>6, <2>1
  <2>3. PICK p : p = [rt[c.index] EXCEPT !.channels = c.channels]
    OBVIOUS
  <2>4. rt' = [rt EXCEPT ![c.index] = p] /\ UNCHANGED rt_state
    BY <1>2, <1>13, <2>2, <2>3 DEF RTSetChannels
  <2>5. p \in Sender /\ p.dst = rt[c.index].dst /\ p.cookie = rt[c.index].cookie /\ p.channels = c.channels /\ p # None
    BY <2>1, <2>2, <2>3 DEF Sender
  <2>6. rt' \in [Index -> Sender \cup {None}] /\ NoPanic'
    BY <1>3, <1>10, <2>4, <2>5 DEF NoPanic
  <2>7. rt'[c.index] = p /\ \A j \in Index \ {c.index} : rt'[j] = rt[j]
    BY <1>3, <2>1, <2>4
  <2>8. Shrunk(c.index)
    <3>1. PICK i \in Index : i = c.index
      BY <2>1
    <3>2. Shrunk(i)
      BY <1>5, <2>1, <2>2, <2>5, <2>7, <3>1 DEF Shrunk
    <3> QED BY <3>1, <3>2
  <2>9. OneStreamPerDst'
    BY <1>10, <2>2, <2>5, <2>7 DEF OneStreamPerDst
  <2> QED BY <1>8, <1>9, <2>6, <2>7, <2>8, <2>9
<1>14. CASE RTShutdown
  <2>1. c.type = "shutdown" /\ UNCHANGED rt /\ rt_state' = "stopped"
    BY <1>2, <1>14 DEF RTShutdown, Receive
  <2> QED BY <1>3, <1>8, <1>9, <1>10, <2>1 DEF NoPanic, OneStreamPerDst
<1> QED BY <1>11, <1>12, <1>13, <1>14 DEF RTCommand

\* A removal is announced to the thread.
LEMMA RemovalSent ==
  ASSUME ManagerTypes, ThreadInv, NEW i \in Index, RemoveFlowInternal(i), UNCHANGED realtime
  PROVE  ThreadInv'
<1>1. PICK c : c = [type |-> "remove", index |-> i]
  OBVIOUS
<1>2. c \in Commands /\ c.type = "remove" /\ c.index = i
  BY <1>1 DEF Commands
<1>3. queue' = Append(queue, c) /\ flows' = [flows EXCEPT ![i] = None] /\ info' = [info EXCEPT ![i] = None]
  BY <1>1 DEF RemoveFlowInternal, Send
<1>4. Promised(c)
  BY <1>2, <1>3 DEF Promised, ManagerTypes
<1> QED BY <1>2, <1>3, <1>4, CommandSent

\* So are new channels for a flow.
LEMMA ChannelsSent ==
  ASSUME ManagerTypes, ThreadInv, NEW i \in Index, NEW ch \in Channels, NEW x, x.channels = ch,
         flows[i] # None, UNCHANGED <<flows, realtime>>, info' = [info EXCEPT ![i] = x],
         Send([type |-> "set", index |-> i, channels |-> ch])
  PROVE  ThreadInv'
<1>1. PICK c : c = [type |-> "set", index |-> i, channels |-> ch]
  OBVIOUS
<1>2. c \in Commands /\ c.type = "set" /\ c.index = i /\ c.channels = ch
  BY <1>1 DEF Commands
<1>3. queue' = Append(queue, c)
  BY <1>1 DEF Send
<1>4. Promised(c)
  BY <1>2 DEF Promised, ManagerTypes
<1> QED BY <1>2, <1>3, <1>4, CommandSent

\* The table of the thread and the queue are left alone.
LEMMA ThreadFrame ==
  ASSUME ThreadInv, UNCHANGED <<queue, rt, flows, info>>, NoPanic'
  PROVE  ThreadInv'
<1>1. /\ NoPanic' /\ OneStreamPerDst' /\ queue' \in Seq(Commands) /\ rt' \in [Index -> Sender \cup {None}]
      /\ UNCHANGED <<queue, rt, flows, info>>
  BY DEF ThreadInv, OneStreamPerDst
<1>2. ASSUME NEW i \in Index PROVE CommandsFit(i)'
  <2>1. CommandsFit(i)
    BY DEF ThreadInv
  <2> QED BY <1>1, <2>1 DEF CommandsFit, Full, Free, Filled, Emptied, Fills, Sets, Empties
<1>3. ASSUME NEW i \in Index PROVE EndAgrees(i)'
  <2>1. EndAgrees(i)
    BY DEF ThreadInv
  <2> QED BY <1>1, <2>1 DEF EndAgrees, Last, Full, Free, Filled, Emptied, Fills, Sets, Empties, Sent
<1>4. ASSUME NEW i \in Index, NEW j \in Index, i # j PROVE MovesInOrder(i, j)'
  <2>1. MovesInOrder(i, j)
    BY <1>4 DEF ThreadInv
  <2>2. \A n : /\ Fills(n, i)' <=> Fills(n, i)
               /\ Fills(n, j)' <=> Fills(n, j)
               /\ Empties(n, j)' <=> Empties(n, j)
               /\ Sent(n, i)' = Sent(n, i) /\ Sent(n, j)' = Sent(n, j)
    BY <1>1 DEF Fills, Empties, Sent
  <2>3. \A m, n : Emptied(m, n, j)' <=> Emptied(m, n, j)
    BY <2>2 DEF Emptied
  <2> QED BY <1>1, <2>1, <2>2, <2>3 DEF MovesInOrder
<1> QED BY <1>1, <1>2, <1>3, <1>4 DEF ThreadInv

LEMMA EmptyQueue == <<>> \in Seq(Commands) /\ Len(<<>>) = 0
  OBVIOUS

LEMMA NoNumbers == ASSUME NEW x, x = 0 PROVE 1 .. x = {} /\ \A m \in 0 .. (x + 1) - 1 : m = 0
  OBVIOUS

\* The thread when the process starts, for the first time and again.
LEMMA ThreadEmpty ==
  ASSUME (queue \in Seq(Commands)), (Len(queue) = 0), (rt = Empty), (flows = Empty), NoPanic
  PROVE  ThreadInv
<1>1. (rt \in [Index -> Sender \cup {None}] /\ \A i \in Index : rt[i] = None /\ flows[i] = None)
  BY DEF Empty
<1>2. (1 .. Len(queue) = {} /\ \A m \in 0 .. Last - 1 : m = 0)
  BY NoNumbers DEF Last
<1>3. ASSUME NEW i \in Index PROVE (CommandsFit(i) /\ EndAgrees(i) /\ \A j \in Index : MovesInOrder(i, j))
  <2>1. Free(Last, i)
    BY <1>1, <1>2 DEF Free, Fills, Sets
  <2> QED BY <1>1, <1>2, <2>1 DEF CommandsFit, EndAgrees, MovesInOrder
<1> QED BY <1>1, <1>3 DEF ThreadInv, NoPanic, OneStreamPerDst

LEMMA ThreadEmptyNext ==
  ASSUME (queue \in Seq(Commands))', (Len(queue) = 0)', (rt = Empty)', (flows = Empty)', NoPanic'
  PROVE  ThreadInv'
<1>1. (rt \in [Index -> Sender \cup {None}] /\ \A i \in Index : rt[i] = None /\ flows[i] = None)'
  BY DEF Empty
<1>2. (1 .. Len(queue) = {} /\ \A m \in 0 .. Last - 1 : m = 0)'
  BY NoNumbers DEF Last
<1>3. ASSUME NEW i \in Index PROVE (CommandsFit(i) /\ EndAgrees(i) /\ \A j \in Index : MovesInOrder(i, j))'
  <2>1. Free(Last, i)'
    BY <1>1, <1>2 DEF Free, Fills, Sets
  <2> QED BY <1>1, <1>2, <2>1 DEF CommandsFit, EndAgrees, MovesInOrder
<1> QED BY <1>1, <1>3 DEF ThreadInv, NoPanic, OneStreamPerDst

\* ThreadInv is kept by every step, given what the manager keeps of its tables.
LEMMA ThreadStep == IndInv /\ ThreadInv /\ [Next]_vars => ThreadInv'
<1> SUFFICES ASSUME IndInv, ThreadInv, [Next]_vars PROVE ThreadInv'
  OBVIOUS
<1> USE SetsAssumption, NoneAssumption
<1>t. ManagerTypes /\ TablesAgree /\ StillFree
  BY DEF IndInv
<1>o. /\ op.kind = "add" => op \in AddOps
      /\ op.kind = "scanned" => op \in ScanOps
      /\ op.kind = "remove" => op \in StopOps
      /\ op.kind = "update" => op \in SetOps
  BY <1>t, OpFields
<1>p. UNCHANGED realtime => NoPanic'
  BY DEF ThreadInv, NoPanic, realtime
<1>1. CASE AddExisting
  <2> DEFINE i == by_dst[op.dst]
  <2>1. op \in AddOps /\ op.dst \in Dsts /\ i \in Index /\ op.channels \in Channels
    BY <1>1, <1>o, <1>t DEF AddExisting, AddOps, ManagerTypes
  <2>2. flows[i] # None
    BY <2>1, <1>1, <1>t DEF TablesAgree, AddExisting
  <2>3. FlowInfo(op).channels = op.channels
    BY DEF FlowInfo
  <2>4. /\ info' = [info EXCEPT ![i] = FlowInfo(op)] /\ UNCHANGED <<flows, realtime>>
        /\ Send([type |-> "set", index |-> i, channels |-> op.channels])
    BY <1>1 DEF AddExisting
  <2> QED BY <1>t, <2>1, <2>2, <2>3, <2>4, ChannelsSent
<1>2. CASE RemoveExpired
  <2>1. PICK i \in op.gone : RemoveFlowInternal(i)
    BY <1>2 DEF RemoveExpired
  <2>2. i \in Index /\ UNCHANGED realtime
    BY <1>2, <1>o, <2>1 DEF RemoveExpired, ScanOps
  <2> QED BY <1>t, <2>1, <2>2, RemovalSent
<1>3. CASE AddNew
  <2> DEFINE r == op.request
  <2>1. r \in AddOps /\ r.dst \in Dsts /\ r.channels \in Channels /\ r.multicast \in BOOLEAN /\ by_dst[r.dst] = None
    BY <1>3, <1>o, <1>t DEF AddNew, ScanOps, AddOps, StillFree
  <2>2. PICK i \in FreeIndices(r.want), k \in Cookies \ CookiesInUse :
          /\ Send([type |-> "add", index |-> i, dst |-> r.dst, cookie |-> k,
                   channels |-> r.channels, keepalive |-> ~r.multicast])
          /\ flows' = [flows EXCEPT ![i] = [dst |-> r.dst, cookie |-> k]]
          /\ info' = [info EXCEPT ![i] = FlowInfo(r)]
    BY <1>3 DEF AddNew
  <2>3. i \in Index /\ flows[i] = None
    BY <1>t, <2>1, <2>2, FreeIsEmpty DEF AddOps
  <2>4. PICK c : c = [type |-> "add", index |-> i, dst |-> r.dst, cookie |-> k,
                      channels |-> r.channels, keepalive |-> ~r.multicast]
    OBVIOUS
  <2>5. /\ c \in Commands /\ c.type = "add" /\ c.index = i /\ c.dst = r.dst /\ c.cookie = k /\ c.channels = r.channels
    BY <2>1, <2>2, <2>3, <2>4 DEF Commands
  <2>6. PICK f : f = [dst |-> r.dst, cookie |-> k]
    OBVIOUS
  <2>7. f \in Flow /\ f.dst = r.dst /\ f.cookie = k /\ f # None
    BY <2>1, <2>2, <2>6 DEF Flow
  <2>8. FlowInfo(r).channels = r.channels
    BY DEF FlowInfo
  <2>9. \A j \in Index : flows[j] # None => flows[j].dst # r.dst
    BY <1>t, <2>1 DEF TablesAgree
  <2>10. queue' = Append(queue, c) /\ flows' = [flows EXCEPT ![i] = f] /\ UNCHANGED realtime
    BY <1>3, <2>2, <2>4, <2>6 DEF Send, AddNew
  <2>11. flows'[i] = f /\ info'[i] = FlowInfo(r) /\ \A j \in Index \ {i} : flows'[j] = flows[j] /\ info'[j] = info[j]
    BY <1>t, <2>2, <2>3, <2>10 DEF ManagerTypes
  <2>12. Promised(c)
    BY <2>3, <2>5, <2>7, <2>8, <2>9, <2>11 DEF Promised
  <2> QED BY <2>5, <2>10, <2>12, CommandSent
<1>4. CASE RemoveFlow
  <2>1. op.index \in Index /\ UNCHANGED realtime
    BY <1>4, <1>o DEF RemoveFlow, StopOps
  <2>2. CASE HandleFits
    BY <1>4, <1>t, <2>1, <2>2, RemovalSent DEF RemoveFlow
  <2>3. CASE ~HandleFits
    BY <1>4, <1>p, <2>1, <2>3, ThreadFrame DEF RemoveFlow, realtime
  <2> QED BY <2>2, <2>3
<1>5. CASE SetChannels
  <2>1. op \in SetOps /\ op.index \in Index /\ op.channels \in Channels /\ UNCHANGED <<flows, realtime>>
    BY <1>5, <1>o DEF SetChannels, SetOps
  <2>2. CASE HandleFits
    <3>1. info[op.index] \in Info /\ flows[op.index] # None
      BY <2>1, <2>2, <1>t DEF HandleFits, TablesAgree, ManagerTypes
    <3>2. PICK n : n = [info[op.index] EXCEPT !.channels = op.channels]
      OBVIOUS
    <3>3. n.channels = op.channels
      BY <3>1, <3>2 DEF Info
    <3>4. /\ info' = [info EXCEPT ![op.index] = n]
          /\ Send([type |-> "set", index |-> op.index, channels |-> op.channels])
      BY <1>5, <2>2, <3>2 DEF SetChannels
    <3> QED BY <1>t, <2>1, <3>1, <3>3, <3>4, ChannelsSent
  <2>3. CASE ~HandleFits
    BY <1>5, <1>p, <2>1, <2>3, ThreadFrame DEF SetChannels, realtime
  <2> QED BY <2>2, <2>3
<1>6. CASE RemoveMulticastFlow
  BY <1>6, <1>t, RemovalSent DEF RemoveMulticastFlow
<1>7. CASE Shutdown
  <2>1. PICK c : c = [type |-> "shutdown"]
    OBVIOUS
  <2>2. c \in Commands /\ c.type = "shutdown"
    BY <2>1 DEF Commands
  <2>3. queue' = Append(queue, c) /\ UNCHANGED <<flows, info, realtime>>
    BY <1>7, <2>1 DEF Shutdown, Send
  <2>4. Promised(c)
    BY <2>2, <2>3 DEF Promised
  <2> QED BY <2>2, <2>3, <2>4, CommandSent
<1>8. CASE RTCommand
  BY <1>8, CommandReceived
<1>9. CASE Restart
  <2>1. queue' \in Seq(Commands) /\ Len(queue') = 0
    BY <1>9, EmptyQueue DEF Restart
  <2>2. rt' = Empty /\ flows' = Empty /\ NoPanic'
    BY <1>9 DEF Restart, NoPanic
  <2> QED BY <2>1, <2>2, ThreadEmptyNext
<1>10. CASE ClockArrives
  <2>1. UNCHANGED <<queue, rt, flows, info>> /\ NoPanic'
    BY <1>10 DEF ClockArrives, manager, NoPanic
  <2> QED BY <2>1, ThreadFrame
<1>11. CASE \/ LoadNext \/ Requests \/ ScanExpired \/ AddFails
            \/ ActivateMulticastFlow \/ RTExpire \/ UNCHANGED vars
  <2>1. UNCHANGED <<queue, realtime, flows, info>>
    BY <1>11 DEF LoadNext, Requests, RequestFlow, RequestMulticast, RequestStop, RequestUpdate,
       ScanExpired, AddFails, ActivateMulticastFlow, RTExpire, vars, manager
  <2> QED BY <2>1, <1>p, ThreadFrame DEF realtime
<1> QED BY <1>1, <1>2, <1>3, <1>4, <1>5, <1>6, <1>7, <1>8, <1>9, <1>10, <1>11 DEF Next, Answers

\* The commands in the queue always lead from what the thread has to what the manager
\* has promised.
THEOREM ThreadInvariance == Spec => []ThreadInv
<1>1. Init => ThreadInv
  <2> SUFFICES ASSUME Init PROVE ThreadInv
    OBVIOUS
  <2>1. queue \in Seq(Commands) /\ Len(queue) = 0
    BY EmptyQueue DEF Init
  <2>2. rt = Empty /\ flows = Empty /\ NoPanic
    BY DEF Init, NoPanic
  <2> QED BY <2>1, <2>2, ThreadEmpty
<1> QED BY <1>1, ThreadStep, ManagerInvariant, PTL DEF Spec

\* The real-time thread never unwraps an empty slot or finds one occupied that it is
\* to fill, however long the queue is and however far it is behind.
THEOREM ThreadNeverPanics == Spec => []NoPanic
<1>1. ThreadInv => NoPanic
  BY DEF ThreadInv
<1> QED BY <1>1, ThreadInvariance, PTL

\* A receiver is never sent two streams at once.
THEOREM OneStreamEach == Spec => []OneStreamPerDst
<1>1. ThreadInv => OneStreamPerDst
  BY DEF ThreadInv
<1> QED BY <1>1, ThreadInvariance, PTL

\* Once the queue is drained the thread transmits exactly the flows of the manager,
\* with their cookies, destinations and channels.
THEOREM DrainedIsExact == Spec => []DrainedAgrees
<1>1. ThreadInv => DrainedAgrees
  <2> SUFFICES ASSUME ThreadInv, Len(queue) = 0, NEW i \in Index
               PROVE  IF flows[i] = None THEN rt[i] = None
                      ELSE /\ rt[i] # None
                           /\ rt[i].cookie = flows[i].cookie /\ rt[i].dst = flows[i].dst
                           /\ rt[i].channels = info[i].channels
    BY EmptyQueue DEF DrainedAgrees
  <2>2. Last = 1 /\ 0 \in 0 .. Last - 1 /\ 0 \in 0 .. Len(queue) /\ 0 + 1 .. Last - 1 = {} /\ 0 + 1 .. Len(queue) = {}
    BY DEF Last
  <2>3. ~Filled(0, Last, i) /\ ~Emptied(0, Last, i)
    BY <2>2 DEF Filled, Emptied
  <2>4. EndAgrees(i) /\ (Fills(0, i) <=> rt[i] # None) /\ (Empties(0, i) <=> rt[i] = None) /\ Sent(0, i) = rt[i]
    BY DEF ThreadInv, Fills, Empties, Sent
  <2>5. CASE flows[i] = None
    BY <2>2, <2>3, <2>4, <2>5 DEF EndAgrees, Free
  <2>6. CASE flows[i] # None
    <3>1. rt[i] # None
      BY <2>2, <2>3, <2>4, <2>6 DEF EndAgrees, Full
    <3> QED BY <2>2, <2>3, <2>4, <2>6, <3>1 DEF EndAgrees
  <2> QED BY <2>5, <2>6
<1> QED BY <1>1, ThreadInvariance, PTL
=============================================================================
