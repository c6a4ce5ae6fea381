------------------------------ MODULE FlowsTx ------------------------------
(***************************************************************************)
(* The transmitter of inferno_aoip/src/device_server/flows_tx.rs with its  *)
(* control server flows_control_server.rs and its state storage.           *)
(*                                                                         *)
(* FlowsTransmitter, the manager, answers requests one at a time under a   *)
(* mutex and keeps three tables; it tells the real-time thread what to do  *)
(* through a bounded queue of commands and shares with it one atomic flag  *)
(* per flow, expired.  The manager's steps are separated where it awaits   *)
(* room in the queue or reads the flags.  Time is left out: the keep-alive *)
(* deadline of a flow may pass at any moment.                              *)
(*                                                                         *)
(* A flow is identified by its cookie, which also names its expired flag.  *)
(* The 16 random bits of the code are a choice among the cookies that are  *)
(* not in use, so that a new flow may repeat the cookie of a dead one.     *)
(***************************************************************************)
EXTENDS Naturals, Sequences, FiniteSets

CONSTANTS
  None,          \* no flow, no index
  Dsts,          \* destinations, address and port
  Multicast,     \* the destinations multicast flows are given
  MaxFlows,      \* MAX_FLOWS
  Cookies,
  Channels,      \* lists of channel indices
  Partial,       \* those with an unassigned channel, which TOML cannot express
  Vacant,        \* those without any channel
  TooLarge,      \* those with an index that is not one of our channels
  QueueCap,      \* capacity of the command queue
  MaxRestarts    \* bound: the process is restarted so many times

Index == 0 .. MaxFlows - 1

ASSUME FlowsAssumption == MaxFlows \in Nat \ {0} /\ QueueCap \in Nat \ {0}
ASSUME SetsAssumption ==
  /\ Multicast \subseteq Dsts
  /\ Partial \cup Vacant \cup TooLarge \subseteq Channels
  /\ None \notin Dsts \cup Index \cup Cookies
ASSUME RestartsAssumption == MaxRestarts \in Nat

\* Entries of the manager's tables, and what others see of them.
Flow  == [dst : Dsts, cookie : Cookies]
Info  == [dst : Dsts, channels : Channels, multicast : BOOLEAN]
Entry == [dst : Dsts, multicast : BOOLEAN]
\* Entries of the thread's table.
Sender == [dst : Dsts, cookie : Cookies, channels : Channels, keepalive : BOOLEAN]
ASSUME NoneAssumption ==
  None \notin Flow /\ None \notin Info /\ None \notin Entry /\ None \notin Sender

VARIABLES
  flows,         \* FlowsTransmitter::flows, with FlowData's cookie and remote
  by_dst,        \* FlowsTransmitter::ip_port_to_id
  info,          \* FlowsTransmitter::flows_info
  seq,           \* flow_seq_id modulo MAX_FLOWS
  op,            \* the operation the holder of the mutex is in
  expired,       \* the cookies whose expired flag is set
  queue,         \* the commands the real-time thread has not received yet
  rt,            \* FlowsTransmitterInternal::flows
  rt_state,      \* the real-time thread
  disk,          \* the file tx_flows of the state storage
  to_load,       \* the flows load_state has still to restore
  restarts

manager  == <<flows, by_dst, info, seq, op>>
realtime == <<rt, rt_state>>
storage  == <<disk, to_load, restarts>>
vars     == <<manager, expired, queue, realtime, storage>>

Idle  == [kind |-> "idle"]
Ended == [kind |-> "ended"]

\* Tables without a flow.
Empty     == [i \in Index |-> None]
EmptyDsts == [d \in Dsts |-> None]

Init ==
  /\ flows = Empty /\ by_dst = EmptyDsts /\ info = Empty
  /\ seq = 0 /\ op = Idle
  /\ expired = {} /\ queue = <<>>
  /\ rt = Empty /\ rt_state = "no clock"
  /\ disk = {} /\ to_load = {} /\ restarts = 0

-----------------------------------------------------------------------------
(***************************************************************************)
(* The state storage                                                       *)
(***************************************************************************)

\* What save_state writes of a table of flow infos: the unicast flows that have
\* channels.
Saved(infos) ==
  {[dst |-> infos[i].dst, channels |-> infos[i].channels] :
     i \in {j \in Index : /\ infos[j] # None
                          /\ ~infos[j].multicast /\ infos[j].channels \notin Vacant}}

\* StateStorage::save serialises everything before it touches the file; the
\* serialisation fails on an unassigned channel, and the error is only logged.
Save(infos) ==
  disk' = IF \E f \in Saved(infos) : f.channels \in Partial THEN disk ELSE Saved(infos)

-----------------------------------------------------------------------------
(***************************************************************************)
(* The manager                                                             *)
(***************************************************************************)

\* commands_sender.send(command).await
Send(command) ==
  /\ Len(queue) < QueueCap
  /\ queue' = Append(queue, command)

\* load_state has ended and the control server runs.
Serving == op = Idle /\ to_load = {}

\* The parameters of add_flow.
AddRequest(dst, channels, multicast, want) ==
  [kind |-> "add", dst |-> dst, channels |-> channels, multicast |-> multicast,
   want |-> want]

\* load_state restores the next saved flow.
LoadNext ==
  /\ op = Idle
  /\ \E f \in to_load :
       /\ to_load' = to_load \ {f}
       /\ op' = AddRequest(f.dst, f.channels, FALSE, None)
  /\ UNCHANGED <<flows, by_dst, info, seq, expired, queue, realtime, disk, restarts>>

\* "request flow" of the control server.  It answers a request for a channel we
\* do not have with an error and then goes on.
RequestFlow ==
  /\ Serving
  /\ \E d \in Dsts, c \in Channels : op' = AddRequest(d, c, FALSE, None)
  /\ UNCHANGED <<flows, by_dst, info, seq, expired, queue, realtime, storage>>

\* TransmitMulticasts::add_flow asks for a flow with an index of its choice.
RequestMulticast ==
  /\ Serving
  /\ \E d \in Multicast, c \in Channels, i \in Index : op' = AddRequest(d, c, TRUE, i)
  /\ UNCHANGED <<flows, by_dst, info, seq, expired, queue, realtime, storage>>

\* "stop flow" and "update flow" of the control server, with any handle.
RequestStop ==
  /\ Serving
  /\ \E i \in Index, k \in Cookies :
       op' = [kind |-> "remove", index |-> i, cookie |-> k]
  /\ UNCHANGED <<flows, by_dst, info, seq, expired, queue, realtime, storage>>

RequestUpdate ==
  /\ Serving
  /\ \E i \in Index, k \in Cookies, c \in Channels :
       op' = [kind |-> "update", index |-> i, cookie |-> k, channels |-> c]
  /\ UNCHANGED <<flows, by_dst, info, seq, expired, queue, realtime, storage>>

FlowInfo(r) == [dst |-> r.dst, channels |-> r.channels, multicast |-> r.multicast]

\* Deliberate error: flows_info keeps the channels of the first request.
AddExistingKeepsInfo ==
  /\ op.kind = "add" /\ by_dst[op.dst] # None
  /\ Send([type |-> "set", index |-> by_dst[op.dst], channels |-> op.channels])
  /\ Save(info)
  /\ op' = Idle
  /\ UNCHANGED <<flows, by_dst, info, seq, expired, realtime, to_load, restarts>>

\* add_flow for a destination that has a flow: its channels are set instead.
AddExisting ==
  /\ op.kind = "add" /\ by_dst[op.dst] # None
  /\ LET i == by_dst[op.dst] IN
       /\ Send([type |-> "set", index |-> i, channels |-> op.channels])
       /\ info' = [info EXCEPT ![i] = FlowInfo(op)]
       /\ Save(info')
  /\ op' = Idle
  /\ UNCHANGED <<flows, by_dst, seq, expired, realtime, to_load, restarts>>

\* scan_expired reads the flags of all flows.
ScanExpired ==
  /\ op.kind = "add" /\ by_dst[op.dst] = None
  /\ op' = [kind |-> "scanned", request |-> op,
            gone |-> {i \in Index : /\ flows[i] # None
                                    /\ flows[i].cookie \in expired
                                    /\ ~info[i].multicast}]
  /\ UNCHANGED <<flows, by_dst, info, seq, expired, queue, realtime, storage>>

\* remove_flow_internal
RemoveFlowInternal(i) ==
  /\ flows' = [flows EXCEPT ![i] = None]
  /\ by_dst' = IF flows[i] = None THEN by_dst ELSE [by_dst EXCEPT ![flows[i].dst] = None]
  /\ info' = [info EXCEPT ![i] = None]
  /\ Send([type |-> "remove", index |-> i])

\* ... and removes the expired ones, which awaits the queue for each.
RemoveExpired ==
  /\ op.kind = "scanned"
  /\ \E i \in op.gone :
       /\ \A j \in op.gone : i <= j
       /\ RemoveFlowInternal(i)
       /\ op' = [op EXCEPT !.gone = @ \ {i}]
  /\ UNCHANGED <<seq, expired, realtime, storage>>

\* Deliberate error: the index is taken without looking whether it is free.
FreeIndicesUnasked(want) == IF want = None THEN {seq} ELSE {want}

\* The index a new flow gets: the one asked for unless it is in use or
\* reserved, or else the next free one after the last one given.
FreeIndices(want) ==
  IF want # None
  THEN {i \in {want} : flows[i] = None /\ info[i] = None}
  ELSE LET at(n) == (seq + n) % MaxFlows IN
       {at(n) : n \in {m \in 0 .. MaxFlows - 1 :
                         /\ flows[at(m)] = None
                         /\ \A l \in 0 .. m - 1 : flows[at(l)] # None}}

\* The cookies of the flows the manager, the queue and the thread know.
CookiesInUse ==
  {flows[i].cookie : i \in {j \in Index : flows[j] # None}}
    \cup {rt[i].cookie : i \in {j \in Index : rt[j] # None}}
    \cup {queue[n].cookie : n \in {m \in 1 .. Len(queue) : queue[m].type = "add"}}

\* The rest of add_flow.  A multicast flow starts expired, for the time in
\* which its address is checked for collisions.
AddNew ==
  /\ op.kind = "scanned" /\ op.gone = {}
  /\ \E i \in FreeIndices(op.request.want), k \in Cookies \ CookiesInUse :
       /\ Send([type |-> "add", index |-> i, dst |-> op.request.dst, cookie |-> k,
                channels |-> op.request.channels, keepalive |-> ~op.request.multicast])
       /\ flows' = [flows EXCEPT ![i] = [dst |-> op.request.dst, cookie |-> k]]
       /\ by_dst' = [by_dst EXCEPT ![op.request.dst] = i]
       /\ info' = [info EXCEPT ![i] = FlowInfo(op.request)]
       /\ expired' = IF op.request.multicast THEN expired \cup {k} ELSE expired \ {k}
       /\ seq' = IF op.request.want = None THEN (i + 1) % MaxFlows ELSE seq
       /\ Save(info')
  /\ op' = Idle
  /\ UNCHANGED <<realtime, to_load, restarts>>

\* No index is left, or a call on the socket fails: what scan_expired has
\* removed stays removed and is not saved.
AddFails ==
  /\ op.kind = "scanned" /\ op.gone = {}
  /\ LET free == FreeIndices(op.request.want) IN
       seq' = IF op.request.want # None THEN seq
              ELSE IF free = {} THEN (seq + MaxFlows + 1) % MaxFlows
              ELSE ((CHOOSE i \in free : TRUE) + 1) % MaxFlows
  /\ op' = Idle
  /\ UNCHANGED <<flows, by_dst, info, expired, queue, realtime, storage>>

\* get_flow, the check of a handle
HandleFits == flows[op.index] # None /\ flows[op.index].cookie = op.cookie

\* remove_flow, and its answer to an unknown handle.
RemoveFlow ==
  /\ op.kind = "remove"
  /\ IF HandleFits
     THEN RemoveFlowInternal(op.index) /\ Save(info')
     ELSE UNCHANGED <<flows, by_dst, info, queue, disk>>
  /\ op' = Idle
  /\ UNCHANGED <<seq, expired, realtime, to_load, restarts>>

\* set_channels; nothing is saved.
SetChannels ==
  /\ op.kind = "update"
  /\ IF HandleFits
     THEN /\ Send([type |-> "set", index |-> op.index, channels |-> op.channels])
          /\ info' = [info EXCEPT ![op.index].channels = op.channels]
     ELSE UNCHANGED <<info, queue>>
  /\ op' = Idle
  /\ UNCHANGED <<flows, by_dst, seq, expired, realtime, storage>>

\* remove_multicast_flow, which only asks for the kind of the flow.
RemoveMulticastFlow ==
  /\ Serving
  /\ \E i \in Index :
       /\ info[i] # None /\ info[i].multicast
       /\ RemoveFlowInternal(i)
  /\ Save(info')
  /\ UNCHANGED <<seq, op, expired, realtime, to_load, restarts>>

\* activate_multicast_flow, called for a flow whose grace period has ended.
ActivateMulticastFlow ==
  /\ Serving
  /\ \E i \in Index :
       /\ flows[i] # None /\ info[i].multicast
       /\ flows[i].cookie \in expired
       /\ expired' = expired \ {flows[i].cookie}
  /\ UNCHANGED <<manager, queue, realtime, storage>>

\* The control server ends and tells the thread to.
Shutdown ==
  /\ Serving
  /\ Send([type |-> "shutdown"])
  /\ op' = Ended
  /\ UNCHANGED <<flows, by_dst, info, seq, expired, realtime, storage>>

-----------------------------------------------------------------------------
(***************************************************************************)
(* The real-time thread                                                    *)
(***************************************************************************)

\* Commands are received only once there is a clock.
ClockArrives ==
  /\ rt_state = "no clock"
  /\ rt_state' = "running"
  /\ UNCHANGED <<manager, expired, queue, rt, storage>>

\* Deliberate error: commands are received only between transmissions.
ReceiveWhileBusy(type) ==
  /\ rt_state = "running"
  /\ \E i \in Index : rt[i] # None
  /\ queue # <<>> /\ Head(queue).type = type
  /\ queue' = Tail(queue)

\* commands_receiver.recv or try_recv returns a command of this type.
Receive(type) ==
  /\ rt_state = "running"
  /\ queue # <<>> /\ Head(queue).type = type
  /\ queue' = Tail(queue)

\* The thread panics where it finds the slot occupied.
RTAddFlow ==
  /\ Receive("add")
  /\ LET c == Head(queue) IN
       /\ rt' = [rt EXCEPT ![c.index] =
                   [dst |-> c.dst, cookie |-> c.cookie, channels |-> c.channels,
                    keepalive |-> c.keepalive]]
       /\ rt_state' = IF rt[c.index] = None THEN rt_state ELSE "panicked"
  /\ UNCHANGED <<manager, expired, storage>>

RTRemoveFlow ==
  /\ Receive("remove")
  /\ rt' = [rt EXCEPT ![Head(queue).index] = None]
  /\ UNCHANGED <<manager, expired, rt_state, storage>>

\* New channels also revive a flow that has expired; the thread panics where
\* there is no flow.
RTSetChannels ==
  /\ Receive("set")
  /\ LET c == Head(queue) IN
       IF rt[c.index] = None
       THEN rt_state' = "panicked" /\ UNCHANGED <<rt, expired>>
       ELSE /\ rt' = [rt EXCEPT ![c.index].channels = c.channels]
            /\ expired' = expired \ {rt[c.index].cookie}
            /\ UNCHANGED rt_state
  /\ UNCHANGED <<manager, storage>>

RTShutdown ==
  /\ Receive("shutdown")
  /\ rt_state' = "stopped"
  /\ UNCHANGED <<manager, expired, rt, storage>>

\* transmit finds that a flow's receiver has not sent keep-alives.
RTExpire ==
  /\ rt_state = "running"
  /\ \E i \in Index :
       /\ rt[i] # None /\ rt[i].keepalive /\ rt[i].cookie \notin expired
       /\ expired' = expired \cup {rt[i].cookie}
  /\ UNCHANGED <<manager, queue, realtime, storage>>

-----------------------------------------------------------------------------

\* The process ends, by itself or in the middle of anything, and starts again.
Restart ==
  /\ restarts < MaxRestarts
  /\ restarts' = restarts + 1
  /\ flows' = Empty /\ by_dst' = EmptyDsts /\ info' = Empty
  /\ seq' = 0 /\ op' = Idle
  /\ expired' = {} /\ queue' = <<>>
  /\ rt' = Empty /\ rt_state' = "no clock"
  /\ to_load' = disk
  /\ UNCHANGED disk

Requests == RequestFlow \/ RequestMulticast \/ RequestStop \/ RequestUpdate
Answers == \/ AddExisting \/ ScanExpired \/ RemoveExpired \/ AddNew \/ AddFails
           \/ RemoveFlow \/ SetChannels
RTCommand == RTAddFlow \/ RTRemoveFlow \/ RTSetChannels \/ RTShutdown

Next ==
  \/ LoadNext \/ Requests \/ Answers
  \/ RemoveMulticastFlow \/ ActivateMulticastFlow \/ Shutdown
  \/ ClockArrives \/ RTCommand \/ RTExpire
  \/ Restart

Spec == Init /\ [][Next]_vars

\* The holder of the mutex goes on when there is room in the queue, load_state
\* goes on to the next flow, and once it has a clock, which the PTP daemon is
\* taken to deliver, the thread goes on receiving commands.
FairSpec ==
  Spec /\ WF_vars(Answers) /\ WF_vars(LoadNext) /\ WF_vars(ClockArrives)
       /\ WF_vars(RTCommand)

-----------------------------------------------------------------------------
(***************************************************************************)
(* Properties                                                              *)
(***************************************************************************)

\* The manager's three tables describe the same flows, one per destination:
\* what scan_expired, set_channels and add_flow take for granted when they
\* unwrap entries of one table under an index of another.
TablesAgree ==
  /\ \A i \in Index :
       IF flows[i] = None THEN info[i] = None
       ELSE /\ info[i] # None /\ info[i].dst = flows[i].dst
            /\ by_dst[flows[i].dst] = i
  /\ \A d \in Dsts : by_dst[d] # None => flows[by_dst[d]] # None
                                       /\ flows[by_dst[d]].dst = d

\* What an operation carries along.
AddOps  == [kind : {"add"}, dst : Dsts, channels : Channels, multicast : BOOLEAN,
            want : Index \cup {None}]
ScanOps == [kind : {"scanned"}, request : AddOps, gone : SUBSET Index]
StopOps == [kind : {"remove"}, index : Index, cookie : Cookies]
SetOps  == [kind : {"update"}, index : Index, cookie : Cookies, channels : Channels]

\* The inductive invariant of the manager: its tables agree, and the destination
\* add_flow has looked up before scan_expired has still no flow after it, so
\* that a second flow for it is not made.
ManagerTypes ==
  /\ flows \in [Index -> Flow \cup {None}]
  /\ info \in [Index -> Info \cup {None}]
  /\ by_dst \in [Dsts -> Index \cup {None}]
  /\ seq \in Index
  /\ op \in {Idle, Ended} \cup AddOps \cup ScanOps \cup StopOps \cup SetOps
  /\ disk \subseteq [dst : Dsts, channels : Channels]
  /\ to_load \subseteq [dst : Dsts, channels : Channels]
StillFree == op.kind = "scanned" => by_dst[op.request.dst] = None
IndInv == ManagerTypes /\ TablesAgree /\ StillFree

\* The thread never unwraps an empty slot or finds one occupied that it is to
\* fill, however far it is behind the manager.
NoPanic == rt_state # "panicked"

\* To those who share it, the transmitter is a table of flows: a destination
\* has one flow, and an index is given to a flow only when it is empty, through
\* revivals, expirations, refusals and restarts.
View == [i \in Index |-> IF flows[i] = None THEN None
                         ELSE [dst |-> flows[i].dst, multicast |-> info[i].multicast]]
Table == INSTANCE FlowTable WITH table <- View
IsFlowTable == Table!TableSpec

\* A receiver is never sent two streams at once, not even while a flow that
\* was moved to another index is still to be removed.
OneStreamPerDst ==
  \A i, j \in Index : rt[i] # None /\ rt[j] # None /\ i # j => rt[i].dst # rt[j].dst

\* Once the queue is drained the thread transmits exactly what the manager has
\* told its clients.
DrainedAgrees ==
  queue = <<>> =>
    \A i \in Index :
      IF flows[i] = None THEN rt[i] = None
      ELSE /\ rt[i] # None
           /\ rt[i].cookie = flows[i].cookie /\ rt[i].dst = flows[i].dst
           /\ rt[i].channels = info[i].channels

\* The inductive invariant of the thread relates what it has done, the commands
\* it has still to receive and what the manager has promised.  Command number n
\* of the queue fills index i, sets its channels or empties it; number 0 stands
\* for what the thread has made of the commands it has received.
Fills(n, i)   == IF n = 0 THEN rt[i] # None ELSE queue[n].type = "add" /\ queue[n].index = i
Sets(n, i)    == n # 0 /\ queue[n].type = "set" /\ queue[n].index = i
Empties(n, i) == IF n = 0 THEN rt[i] = None ELSE queue[n].type = "remove" /\ queue[n].index = i
Sent(n, i)    == IF n = 0 THEN rt[i] ELSE queue[n]

Filled(m, n, i)  == \E l \in m + 1 .. n - 1 : Fills(l, i)
Emptied(m, n, i) == \E l \in m + 1 .. n - 1 : Empties(l, i)

\* Index i has a flow, and has none, when the thread comes to command number n.
Full(n, i) == \A m \in 0 .. n - 1 : Empties(m, i) => Filled(m, n, i)
Free(n, i) == \A m \in 0 .. n - 1 : Fills(m, i) \/ Sets(m, i) => Emptied(m, n, i)

Last == Len(queue) + 1

\* Every command meets the slot it expects.
CommandsFit(i) ==
  \A n \in 1 .. Len(queue) : (Sets(n, i) => Full(n, i)) /\ (Fills(n, i) => Free(n, i))

\* When all are received, the thread has the flows of the manager: those with
\* the last cookie and destination, sent with the last channels.
EndAgrees(i) ==
  IF flows[i] = None THEN Free(Last, i)
  ELSE /\ Full(Last, i)
       /\ \A m \in 0 .. Len(queue) :
            /\ Fills(m, i) /\ ~Emptied(m, Last, i) =>
                 Sent(m, i).cookie = flows[i].cookie /\ Sent(m, i).dst = flows[i].dst
            /\ (Fills(m, i) \/ Sets(m, i))
                 /\ (\A l \in m + 1 .. Len(queue) : ~Fills(l, i) /\ ~Sets(l, i)) =>
                   Sent(m, i).channels = info[i].channels

\* A flow is made only after the one its destination had before is removed.
MovesInOrder(i, j) ==
  \A n \in 1 .. Len(queue) : \A m \in 0 .. n - 1 :
    Fills(n, i) /\ Fills(m, j) /\ Sent(n, i).dst = Sent(m, j).dst => Emptied(m, n, j)

Commands ==
  [type : {"add"}, index : Index, dst : Dsts, cookie : Cookies, channels : Channels,
   keepalive : BOOLEAN]
  \cup [type : {"set"}, index : Index, channels : Channels]
  \cup [type : {"remove"}, index : Index] \cup [type : {"shutdown"}]

ThreadInv ==
  /\ queue \in Seq(Commands) /\ rt \in [Index -> Sender \cup {None}]
  /\ NoPanic /\ OneStreamPerDst
  /\ \A i \in Index : CommandsFit(i) /\ EndAgrees(i)
  /\ \A i, j \in Index : i # j => MovesInOrder(i, j)

\* The holder of the mutex never waits for ever, so every request is answered.
Answered == (op.kind \notin {"idle", "ended"}) ~> (op.kind = "idle")

\* A flow that was granted to a receiver gets to the thread, unless it is
\* removed first or the process ends.
\* (FlowTable: an index changes its flow only by way of being empty.)
Transmitted ==
  \A i \in Index :
    (flows[i] # None) ~> (flows[i] = None \/ (rt[i] # None /\ rt[i].cookie = flows[i].cookie))

-----------------------------------------------------------------------------
(***************************************************************************)
(* What comments and messages of the code say and its steps do not keep to *)
(***************************************************************************)

\* save_state: all unicast flows are in the storage.
SavedAll == (op = Idle /\ to_load = {}) => disk = Saved(info)

\* load_state: the saved flows are restored; those it has not come to when the
\* process ends are restored the next time.
LoadSurvivesRestart ==
  [][restarts' # restarts => {f.dst : f \in to_load} \subseteq {f.dst : f \in disk}]_vars

\* A request that was answered with an error for its channels adds no flow.
RejectedNotAdded == \A i \in Index : info[i] # None => info[i].channels \notin TooLarge

\* scan_expired: a flow it removes is an expired one.
RemovedIsExpired ==
  [][\A i \in Index :
       (op.kind = "scanned" /\ op'.kind = "scanned" /\ flows[i] # None /\ flows'[i] = None)
         => flows[i].cookie \in expired]_vars
=============================================================================
