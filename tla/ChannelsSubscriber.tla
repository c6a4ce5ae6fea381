-------------------------- MODULE ChannelsSubscriber --------------------------
(***************************************************************************)
(* The receiving side of the device:                                       *)
(* inferno_aoip/src/device_server/channels_subscriber.rs with              *)
(* OwnedBuffering, on top of FlowsReceiver.                                 *)
(*                                                                         *)
(* Tasks that run concurrently: the callers of ChannelsSubscriber (the     *)
(* front end), the subscriber's own task, the tasks it spawns (one per     *)
(* transmitter for requests, one per call into the collector or the        *)
(* receiver), the real-time thread, and the transmitters.  The subscriber  *)
(* is cut into steps where it awaits.                                      *)
(*                                                                         *)
(* A source is a channel of a transmitter, standing for its host name, its *)
(* channel name and its channel id.  A ring buffer is the flow and slot it *)
(* was made for.  Flows are numbered as they are made, to tell apart those *)
(* that have used the same index; the number also stands for the handle.   *)
(***************************************************************************)
EXTENDS FlowsReceiver, FiniteSets, SequencesExt

CONSTANTS
  Channels,      \* local channel indices, numbers
  Sources,       \* channels of the transmitters
  Servers,       \* transmitters, numbers
  ServerOf,      \* the transmitter of a source
  BundleSlot,    \* channel_in_bundle of a source
  Bundled,       \* sources that may be put into a multicast bundle
  Operations,    \* bound: the operations the front end is asked for
  MaxCalls,      \* bound: calls of the front end
  MaxFaults,     \* bound: queries, requests, answers and flows lost, times
                 \* without a clock, bundles changed and restarts
  MaxMade,       \* bound: flows made in all
  MaxWaiting     \* bound: spawned tasks that still wait when the worker goes on

ASSUME NetworkAssumption ==
  /\ Channels \subseteq Nat /\ IsFiniteSet(Channels)
  /\ Servers \subseteq Nat /\ IsFiniteSet(Servers)
  /\ ServerOf \in [Sources -> Servers]
  /\ BundleSlot \in [Sources -> Nat] /\ Bundled \subseteq Sources
  /\ None \notin Sources
  /\ Operations \subseteq {"subscribe", "unsubscribe", "refresh", "shutdown"}
  /\ {MaxCalls, MaxFaults, MaxMade, MaxWaiting} \subseteq Nat

VARIABLES
  calls, faults, \* counters of the bounds
  commands,      \* queue of the front end's commands
  info,          \* subscriptions_info
  phase,         \* what the worker awaits: "commands", "requests", "destroy";
                 \* or how it ended: "ended", "panicked"
  dirty,         \* received_command
  channels,      \* the subscriptions
  flows,         \* the flows, by index
  made,          \* flows made so far
  needs_resolving, resolve_now,
  requests,      \* futures still to run, by transmitter
  updates,       \* batches of ChannelSourceUpdates sent back
  destroying,    \* flows whose destruction is awaited
  tasks,         \* spawned and not yet run, in any order
  collector,     \* channels of the samples collector
  saved,         \* the stored subscriptions
  clock,         \* whether a media clock has been seen
  booting,       \* whether the process may be less than two seconds old
  multicast,     \* sources advertised in a multicast bundle
  carried        \* what each unicast flow's transmitter sends, by slot

front  == <<calls, commands>>
worker == <<phase, dirty, channels, needs_resolving, resolve_now, updates, destroying, saved>>
shared == <<info, flows, made, requests, tasks, collector>>
net    == <<faults, clock, booting, multicast, carried>>
vars   == <<front, worker, shared, net, rxvars>>

\* As many as there can be before a scan: a used and a left one per channel.
Indices == 0 .. 2 * Cardinality(Channels) - 1
Keys    == {"unicast", "multicast"} \X Servers
Idle    == [k \in Keys |-> <<>>]

\* A set of numbers in their order: the n-th is the one with n up to it.
Sorted(S) == [n \in 1 .. Cardinality(S) |->
                CHOOSE x \in S : Cardinality({y \in S : y <= x}) = n]

Init ==
  /\ calls = 0 /\ faults = 0 /\ commands = <<>>
  /\ info = [ch \in Channels |-> None]
  /\ phase = "commands" /\ dirty = FALSE
  /\ channels = [ch \in Channels |-> None]
  /\ flows = [f \in Indices |-> None] /\ made = 0
  /\ needs_resolving = FALSE /\ resolve_now = FALSE
  /\ requests = Idle /\ updates = <<>> /\ destroying = {}
  /\ tasks = <<>> /\ collector = [ch \in Channels |-> None]
  /\ saved = [ch \in Channels |-> None]
  /\ clock = FALSE /\ booting = TRUE /\ multicast = {}
  /\ carried = [n \in 1 .. MaxMade |-> None]
  /\ RxInit

Fault   == faults < MaxFaults /\ faults' = faults + 1
NoFault == UNCHANGED faults

-----------------------------------------------------------------------------
(***************************************************************************)
(* The front end                                                           *)
(***************************************************************************)

Call(c) ==
  /\ phase \notin {"ended", "panicked"}
  /\ c.t \in Operations /\ calls < MaxCalls
  /\ calls' = calls + 1
  /\ commands' = Append(commands, c)
  /\ UNCHANGED <<worker, flows, made, requests, tasks, collector, net, rxvars>>

Subscribe(ch, s) ==
  /\ Call([t |-> "subscribe", ch |-> ch, src |-> s])
  /\ info' = [info EXCEPT ![ch] = [src |-> s, status |-> "unresolved"]]

Unsubscribe(ch) ==
  /\ Call([t |-> "unsubscribe", ch |-> ch])
  /\ UNCHANGED info

\* save_state, after a channel was renamed
ForceRefresh == Call([t |-> "refresh"]) /\ UNCHANGED info

Shutdown == Call([t |-> "shutdown"]) /\ UNCHANGED info

-----------------------------------------------------------------------------
(***************************************************************************)
(* Commands                                                                *)
(***************************************************************************)

Subscribed(ch) == channels[ch] # None
Connected(ch)  == Subscribed(ch) /\ channels[ch].remote # None

\* OwnedBuffering spawns its calls of the collector.
Disconnects(chs) == [i \in 1 .. Cardinality(chs) |->
                       [t |-> "disconnect", ch |-> Sorted(chs)[i]]]

\* Deliberate error: the flow is not told.
LeaveKeepsCount(ch) ==
  IF Connected(ch)
  THEN tasks' = tasks \o Disconnects({ch}) /\ UNCHANGED flows
  ELSE UNCHANGED <<tasks, flows>>

\* Deliberate error: the collector is not told.
LeaveInSilence(ch) ==
  IF Connected(ch)
  THEN LET r == channels[ch].remote
       IN  UNCHANGED tasks /\ flows' = [flows EXCEPT ![r.flow].refcount[r.slot] = @ - 1]
  ELSE UNCHANGED <<tasks, flows>>

\* What unsubscribe does about the flow
Leave(ch) ==
  IF Connected(ch)
  THEN LET r == channels[ch].remote
       IN  /\ tasks' = tasks \o Disconnects({ch})
           /\ flows' = IF flows[r.flow] = None THEN flows
                       ELSE [flows EXCEPT ![r.flow].refcount[r.slot] = @ - 1]
  ELSE UNCHANGED <<tasks, flows>>

GoesOn == Len(tasks) <= MaxWaiting

Handle(type) ==
  /\ GoesOn /\ phase = "commands" /\ commands # <<>>
  /\ Head(commands).t = type
  /\ commands' = Tail(commands)
  /\ UNCHANGED <<calls, updates, destroying, saved, made, requests, collector, net, rxvars>>

HandleSubscribe ==
  /\ Handle("subscribe")
  /\ LET c == Head(commands)
     IN  /\ Leave(c.ch)
         /\ channels' = [channels EXCEPT ![c.ch] = [src |-> c.src, remote |-> None]]
  /\ needs_resolving' = TRUE /\ resolve_now' = TRUE
  /\ dirty' = TRUE
  /\ UNCHANGED <<phase, info>>

\* A channel that is not subscribed is only logged.
HandleUnsubscribe ==
  /\ Handle("unsubscribe")
  /\ LET ch == Head(commands).ch
     IN  /\ Leave(ch)
         /\ channels' = [channels EXCEPT ![ch] = None]
         /\ info' = IF Subscribed(ch) THEN [info EXCEPT ![ch] = None] ELSE info
  /\ dirty' = TRUE
  /\ UNCHANGED <<phase, needs_resolving, resolve_now>>

HandleRefresh ==
  /\ Handle("refresh")
  /\ dirty' = TRUE
  /\ UNCHANGED <<phase, channels, needs_resolving, resolve_now, info, tasks, flows>>

\* run returns at once.
HandleShutdown ==
  /\ Handle("shutdown")
  /\ phase' = "ended"
  /\ UNCHANGED <<dirty, channels, needs_resolving, resolve_now, info, tasks, flows>>

Wanted == [ch \in Channels |-> IF Subscribed(ch) THEN channels[ch].src ELSE None]

\* Deliberate error: only subscriptions are stored.
SaveStateAdds == saved' = [ch \in Channels |-> IF dirty /\ Subscribed(ch) THEN Wanted[ch]
                                            ELSE saved[ch]]

save_state == saved' = IF dirty THEN Wanted ELSE saved

\* try_recv finds no more commands; then resolve_subscriptions or scan_flows.
NoMoreCommands ==
  /\ GoesOn /\ phase = "commands" /\ commands = <<>>
  /\ save_state
  /\ dirty' = FALSE

-----------------------------------------------------------------------------
(***************************************************************************)
(* resolve_subscriptions.  The queries are awaited, but nothing that they  *)
(* depend on changes meanwhile: choosing the channels, the queries and the *)
(* plan made from their answers are one step.                              *)
(***************************************************************************)

Src(ch) == channels[ch].src

Needed     == {ch \in Channels : Subscribed(ch) /\ ~Connected(ch)}
Aliases(l) == {ch \in Needed : Src(ch) = Src(l)}

\* needed_channel_indices, dealiased
Leaders    == {l \in Needed : l = Min(Aliases(l))}

\* Channels we already have successfully subscribed
Twins(l)   == {ch \in Channels : Connected(ch) /\ Src(ch) = Src(l)}
Reused     == {l \in Leaders : Twins(l) # {}}
Asked      == Leaders \ Reused

\* ChannelSourceUpdate
Update(l, f, slot) == [chs |-> Aliases(l), flow |-> f, slot |-> slot, src |-> Src(l)]

ReuseUpdates ==
  {LET r == channels[Min(Twins(l))].remote IN Update(l, r.flow, r.slot) : l \in Reused}

\* channels_per_server and channels_per_bundle, for the answers found
PerServer(found, v) == {l \in found : ServerOf[Src(l)] = v /\ Src(l) \notin multicast}
PerBundle(found, v) == {l \in found : ServerOf[Src(l)] = v /\ Src(l) \in multicast}

FlowsOf(kind, v) == {f \in Indices : flows[f] # None /\ flows[f].kind = kind
                                                    /\ flows[f].server = v}

\* Flows that carry a needed channel, though nobody listens to it any more
Carrying(l) ==
  {f \in FlowsOf("unicast", ServerOf[Src(l)]) : Src(l) \in {flows[f].tx[k] : k \in Slots}}

CarriedUpdate(l) ==
  LET f == Min(Carrying(l))
  IN  Update(l, f, Min({k \in Slots : flows[f].tx[k] = Src(l)}))

CarriedUpdates(found, v) == {CarriedUpdate(l) : l \in {m \in PerServer(found, v) : Carrying(m) # {}}}

BundleUpdates(found, v) ==
  {Update(l, f, BundleSlot[Src(l)]) : l \in PerBundle(found, v), f \in FlowsOf("multicast", v)}

\* A slot of a flow, as a number: in the order of all_free_slots
Place(f, k)  == f * PerFlow + k
FlowAt(p)    == p \div PerFlow
SlotAt(p)    == p % PerFlow

FreeSlots(found, v) ==
  {p \in {Place(f, k) : f \in FlowsOf("unicast", v), k \in Slots} :
     /\ flows[FlowAt(p)].refcount[SlotAt(p)] = 0
     /\ \A u \in CarriedUpdates(found, v) : p # Place(u.flow, u.slot)}

\* The channels still to be placed, in order: first into free slots ...
Unplaced(found, v) == Sorted({l \in PerServer(found, v) : Carrying(l) = {}})

Moves(found, v) ==
  LET free == Sorted(FreeSlots(found, v))
      rest == Unplaced(found, v)
  IN  {Update(rest[i], FlowAt(free[i]), SlotAt(free[i])) :
         i \in {j \in DOMAIN rest : j \in DOMAIN free}}

UpdateRequest(found, v, f) ==
  LET us == {u \in Moves(found, v) : u.flow = f}
  IN  [t |-> "update", flow |-> f, updates |-> us,
       tx |-> [k \in Slots |-> IF \E u \in us : u.slot = k THEN (CHOOSE u \in us : u.slot = k).src
                               ELSE flows[f].tx[k]]]

UpdateRequests(found, v) ==
  LET moved == Sorted({u.flow : u \in Moves(found, v)})
  IN  [i \in DOMAIN moved |-> UpdateRequest(found, v, moved[i])]

\* ... then into new flows.
Remaining(found, v) ==
  LET rest == Unplaced(found, v)
      n    == Cardinality(FreeSlots(found, v))
  IN  IF Len(rest) > n THEN SubSeq(rest, n + 1, Len(rest)) ELSE <<>>

\* The flows to be made, in the order in which they get their indices: one per
\* bundle not received yet, then one per chunk of the channels of a transmitter
NewBundles(bundles) == {v \in bundles : FlowsOf("multicast", v) = {}}

Chunk(v, c) == v * Cardinality(Channels) + c
Chunks(found) ==
  {Chunk(p[1], p[2]) : p \in {q \in Servers \X (0 .. Cardinality(Channels) - 1) :
                               q[2] * PerFlow < Len(Remaining(found, q[1]))}}

NewFlows(found, bundles) ==
  LET joined == Sorted(NewBundles(bundles))
      chunks == Sorted(Chunks(found))
  IN  [i \in DOMAIN joined |-> [kind |-> "multicast", server |-> joined[i], chunk |-> 0]]
      \o [i \in DOMAIN chunks |-> [kind |-> "unicast", server |-> chunks[i] \div Cardinality(Channels),
                                   chunk |-> chunks[i] % Cardinality(Channels)]]

Vacant == Sorted({f \in Indices : flows[f] = None})

\* The updates that a new flow, to be at index f, is for
NewUpdates(found, n, f) ==
  IF n.kind = "multicast"
  THEN {Update(l, f, BundleSlot[Src(l)]) : l \in PerBundle(found, n.server)}
  ELSE LET rest == Remaining(found, n.server)
       IN  {Update(rest[i], f, (i - 1) % PerFlow) :
              i \in {j \in DOMAIN rest : (j - 1) \div PerFlow = n.chunk}}

\* Flow::new
NewFlow(n, id, us) ==
  [id |-> id, kind |-> n.kind, server |-> n.server, handle |-> FALSE,
   refcount |-> [k \in Slots |-> 0], rb |-> [k \in Slots |-> FALSE], seen |-> "new",
   tx |-> [k \in Slots |-> IF n.kind = "unicast" /\ \E u \in us : u.slot = k
                           THEN (CHOOSE u \in us : u.slot = k).src ELSE None]]

\* What is known without a request
UpdatesNow(found) ==
  ReuseUpdates \cup (UNION {CarriedUpdates(found, v) : v \in Servers})
               \cup (UNION {BundleUpdates(found, v) : v \in Servers})

\* The requests that make the flows of a transmitter
Own(news, k) == Sorted({i \in DOMAIN news : <<news[i].kind, news[i].server>> = k})

CreateRequests(found, news, k) ==
  [j \in DOMAIN Own(news, k) |->
    LET i == Own(news, k)[j]
    IN  [t |-> "create", flow |-> Vacant[i], updates |-> NewUpdates(found, news[i], Vacant[i])]]

\* found: the channels whose query was answered; bundles: those that were
\* resolved and could be joined.
Resolve(found, bundles) ==
  /\ NoMoreCommands
  /\ resolve_now \/ needs_resolving     \* for the latter, nine seconds have passed
  /\ found \subseteq Asked
  /\ bundles \subseteq {v \in Servers : PerBundle(found, v) # {}}
  /\ IF found = Asked /\ bundles = {v \in Servers : PerBundle(found, v) # {}}
     THEN NoFault ELSE Fault
  /\ \E news \in {NewFlows(found, bundles)} :
         /\ made + Len(news) <= MaxMade
         /\ Len(news) <= Len(Vacant)     \* always, by the choice of Indices
         /\ made' = made + Len(news)
         /\ flows' = [f \in Indices |->
                       IF \E i \in DOMAIN news : Vacant[i] = f
                       THEN LET i == CHOOSE j \in DOMAIN news : Vacant[j] = f
                            IN  NewFlow(news[i], made + i, NewUpdates(found, news[i], f))
                       ELSE flows[f]]
         /\ requests' = [k \in Keys |->
                          (IF k[1] = "unicast" THEN UpdateRequests(found, k[2]) ELSE <<>>)
                          \o CreateRequests(found, news, k)]
  /\ updates' = IF UpdatesNow(found) = {} THEN <<>> ELSE <<UpdatesNow(found)>>
  /\ resolve_now' = FALSE
  /\ needs_resolving' = (needs_resolving /\ Needed # {})
  /\ phase' = "requests"
  /\ UNCHANGED <<front, channels, destroying, info, tasks, collector, clock, booting,
                 multicast, carried, rxvars>>

-----------------------------------------------------------------------------
(***************************************************************************)
(* The requests, a spawned task per transmitter, one after the other       *)
(***************************************************************************)

Running(k, type, kind) ==
  /\ phase = "requests" /\ requests[k] # <<>>
  /\ Head(requests[k]).t = type /\ k[1] = kind
  /\ requests' = [requests EXCEPT ![k] = Tail(@)]
  /\ UNCHANGED <<front, dirty, channels, needs_resolving, resolve_now, destroying, saved,
                 made, tasks, collector, clock, booting, multicast>>

SendBack(k) == updates' = Append(updates, Head(requests[k]).updates)

JoinBundle(k) ==
  /\ Running(k, "create", "multicast")
  /\ LET f == Head(requests[k]).flow IN add_socket(f, flows[f].id)
  /\ SendBack(k)
  /\ UNCHANGED <<phase, info, flows, faults, carried>>

FlowGranted(k) ==
  /\ Running(k, "create", "unicast")
  /\ LET f == Head(requests[k]).flow
     IN  /\ carried' = [carried EXCEPT ![flows[f].id] = flows[f].tx]
         /\ add_socket(f, flows[f].id)
         /\ flows' = [flows EXCEPT ![f].handle = TRUE]
  /\ SendBack(k)
  /\ UNCHANGED <<phase, info, faults>>

\* The request or its answer is lost, or refused.  The unwrap of a channel's
\* info panics with the lock held, which is the end of the subscriber.
FlowRefused(k) ==
  /\ Running(k, "create", "unicast") /\ Fault
  /\ LET f   == Head(requests[k]).flow
         chs == UNION {u.chs : u \in Head(requests[k]).updates}
     IN  /\ carried' \in {carried, [carried EXCEPT ![flows[f].id] = flows[f].tx]}
         /\ IF \A ch \in chs : info[ch] # None
            THEN /\ info' = [ch \in Channels |->
                               IF ch \in chs THEN [info[ch] EXCEPT !.status = "txfail"]
                               ELSE info[ch]]
                 /\ flows' = [flows EXCEPT ![f] = None]
                 /\ UNCHANGED phase
            ELSE phase' = "panicked" /\ UNCHANGED <<info, flows>>
  /\ UNCHANGED <<updates, rxvars>>

\* No socket for the flow
FlowWithoutSocket(k) ==
  /\ Running(k, "create", "unicast") /\ Fault
  /\ flows' = [flows EXCEPT ![Head(requests[k]).flow] = None]
  /\ UNCHANGED <<phase, info, updates, carried, rxvars>>

Id(k) == flows[Head(requests[k]).flow].id

FlowUpdated(k) ==
  /\ Running(k, "update", "unicast")
  /\ carried[Id(k)] # None
  /\ carried' = [carried EXCEPT ![Id(k)] = Head(requests[k]).tx]
  /\ SendBack(k)
  /\ UNCHANGED <<phase, info, flows, faults, rxvars>>

\* The transmitter has dropped the flow, or the request or its answer is lost.
FlowNotUpdated(k) ==
  /\ Running(k, "update", "unicast")
  /\ \/ carried[Id(k)] = None /\ NoFault /\ UNCHANGED carried
     \/ Fault /\ UNCHANGED carried
     \/ carried[Id(k)] # None /\ Fault
           /\ carried' = [carried EXCEPT ![Id(k)] = Head(requests[k]).tx]
  /\ UNCHANGED <<phase, info, flows, updates, rxvars>>

-----------------------------------------------------------------------------
(***************************************************************************)
(* The loop over the updates that come back                                *)
(***************************************************************************)

UpdatesOf(us, f, k) == {u \in us : u.flow = f /\ u.slot = k}
Joining(us, f, k)   == UNION {u.chs : u \in UpdatesOf(us, f, k)}

\* Flow index and slot of the updates that need a ring buffer
NewBuffers(us) ==
  Sorted({Place(u.flow, u.slot) : u \in {v \in us : ~flows[v.flow].rb[v.slot]}})

Apply(us) ==
  LET chs      == UNION {u.chs : u \in us}
      UpdOf(ch) == CHOOSE u \in us : ch \in u.chs
      joined   == Sorted(chs)
      buffers  == NewBuffers(us)
  IN  /\ flows' = [f \in Indices |->
             IF \E u \in us : u.flow = f
             THEN [flows[f] EXCEPT
                    !.tx = [k \in Slots |-> IF UpdatesOf(us, f, k) = {} THEN @[k]
                                            ELSE (CHOOSE u \in UpdatesOf(us, f, k) : TRUE).src],
                    !.refcount = [k \in Slots |-> @[k] + Cardinality(Joining(us, f, k))],
                    !.rb = [k \in Slots |-> @[k] \/ UpdatesOf(us, f, k) # {}]]
             ELSE flows[f]]
      /\ channels' = [ch \in Channels |->
             IF ch \in chs
             THEN [channels[ch] EXCEPT !.remote = [flow |-> UpdOf(ch).flow, slot |-> UpdOf(ch).slot]]
             ELSE channels[ch]]
      /\ info' = [ch \in Channels |->
             IF ch \in chs THEN [src |-> Src(ch), status |-> "inprogress"] ELSE info[ch]]
      /\ tasks' = tasks
           \o [i \in DOMAIN joined |->
                 [t |-> "connect", ch |-> joined[i],
                  rb |-> <<flows[UpdOf(joined[i]).flow].id, UpdOf(joined[i]).slot>>]]
           \o [i \in DOMAIN buffers |->
                 [t |-> "sink", flow |-> FlowAt(buffers[i]), slot |-> SlotAt(buffers[i]),
                  rb |-> <<flows[FlowAt(buffers[i])].id, SlotAt(buffers[i])>>]]

Received ==
  /\ GoesOn /\ phase = "requests" /\ updates # <<>>
  /\ updates' = Tail(updates)
  /\ UNCHANGED <<front, phase, dirty, needs_resolving, resolve_now, destroying, saved,
                 made, requests, collector, booting, multicast, carried, rxvars>>

\* An update that is beyond its flow is forgotten.
ApplyUpdates ==
  /\ Received
  /\ clock' = TRUE /\ NoFault
  /\ Apply({u \in Head(updates) : u.slot \in Slots})

\* The clock is not ready: the whole batch is forgotten.
ForgetUpdates ==
  /\ Received
  /\ ~clock /\ Fault
  /\ UNCHANGED <<clock, flows, channels, info, tasks>>

-----------------------------------------------------------------------------
(***************************************************************************)
(* scan_flows                                                              *)
(***************************************************************************)

\* is_used
Used(f) == \E k \in Slots : flows[f].refcount[k] > 0

Dead    == {f \in Indices : flows[f] # None /\ (~Used(f) \/ flows[f].seen = "silent")}
Orphans == {ch \in Channels : Connected(ch) /\ channels[ch].remote.flow \in {f \in Dead : Used(f)}}

\* In the first two seconds the time of the last packet, zero, looks recent.
Receiving(f) == flows[f] # None /\ Used(f)
                /\ (flows[f].seen = "fresh" \/ (booting' /\ flows[f].seen = "new"))

StatusAfterScan(ch) ==
  IF ch \in Orphans THEN "unresolved"
  ELSE IF Connected(ch) /\ Receiving(channels[ch].remote.flow)
       THEN "receiving" ELSE info[ch].status

\* Deliberate error: the orphans wait for the next subscription.
RetryLater == UNCHANGED <<needs_resolving, resolve_now>>

Retry ==
  /\ needs_resolving' = (needs_resolving \/ Orphans # {})
  /\ resolve_now' = (resolve_now \/ Orphans # {})

scan_flows ==
  /\ booting' \in {booting, FALSE}
  /\ LET unicast == {f \in Dead : flows[f].kind = "unicast"}
         gone    == Sorted(Dead \ unicast)
     IN  IF \E f \in unicast : ~flows[f].handle
         THEN /\ phase' = "panicked"
              /\ UNCHANGED <<channels, flows, info, needs_resolving, resolve_now, tasks, destroying>>
         ELSE /\ phase' = IF unicast = {} THEN "commands" ELSE "destroy"
              /\ channels' = [ch \in Channels |->
                    IF ch \in Orphans THEN [channels[ch] EXCEPT !.remote = None] ELSE channels[ch]]
              /\ info' = [ch \in Channels |->
                    IF info[ch] = None THEN None
                    ELSE [info[ch] EXCEPT !.status = StatusAfterScan(ch)]]
              /\ flows' = [f \in Indices |-> IF f \in Dead THEN None ELSE flows[f]]
              /\ Retry
              /\ destroying' = {[flow |-> f, id |-> flows[f].id] : f \in unicast}
              /\ tasks' = tasks \o Disconnects(Orphans)
                    \o [i \in DOMAIN gone |-> [t |-> "remove", flow |-> gone[i]]]
  /\ UNCHANGED <<front, updates, made, requests, collector, faults, clock, multicast,
                 carried, rxvars>>

\* No resolving this time
ScanOnly == NoMoreCommands /\ ~resolve_now /\ scan_flows

\* All senders of updates are gone.
ScanAfterResolving ==
  /\ GoesOn /\ phase = "requests" /\ requests = Idle /\ updates = <<>>
  /\ scan_flows
  /\ UNCHANGED <<dirty, saved>>

\* Deliberate error: the removal of the socket is not awaited.
DestroyFlowSpawned(d) ==
  /\ phase = "destroy" /\ d \in destroying
  /\ destroying' = destroying \ {d}
  /\ phase' = IF destroying = {d} THEN "commands" ELSE phase
  /\ carried' = [carried EXCEPT ![d.id] = None]
  /\ tasks' = Append(tasks, [t |-> "remove", flow |-> d.flow])
  /\ UNCHANGED <<front, dirty, channels, needs_resolving, resolve_now, updates, saved, info,
                 flows, made, requests, collector, faults, clock, booting, multicast, rxvars>>

\* stop_flow, whose errors are ignored since the transmitter will notice, and
\* remove_socket
DestroyFlow(d) ==
  /\ phase = "destroy" /\ d \in destroying
  /\ destroying' = destroying \ {d}
  /\ phase' = IF destroying = {d} THEN "commands" ELSE phase
  /\ carried' = [carried EXCEPT ![d.id] = None]
  /\ remove_socket(d.flow)
  /\ UNCHANGED <<front, dirty, channels, needs_resolving, resolve_now, updates, saved,
                 shared, faults, clock, booting, multicast>>

-----------------------------------------------------------------------------
(***************************************************************************)
(* The spawned tasks: nothing orders them                                  *)
(***************************************************************************)

RunTask(i, type) ==
  /\ i \in DOMAIN tasks /\ tasks[i].t = type
  /\ tasks' = RemoveAt(tasks, i)
  /\ UNCHANGED <<front, worker, info, flows, made, requests, net>>

ConnectCollector(i) ==
  /\ RunTask(i, "connect")
  /\ collector' = [collector EXCEPT ![tasks[i].ch] = tasks[i].rb]
  /\ UNCHANGED rxvars

DisconnectCollector(i) ==
  /\ RunTask(i, "disconnect")
  /\ collector' = [collector EXCEPT ![tasks[i].ch] = None]
  /\ UNCHANGED rxvars

ConnectSink(i) ==
  /\ RunTask(i, "sink")
  /\ connect_channel(tasks[i].flow, tasks[i].slot, tasks[i].rb)
  /\ UNCHANGED collector

LeaveBundle(i) ==
  /\ RunTask(i, "remove")
  /\ remove_socket(tasks[i].flow)
  /\ UNCHANGED collector

Tasks == \E i \in DOMAIN tasks :
  ConnectCollector(i) \/ DisconnectCollector(i) \/ ConnectSink(i) \/ LeaveBundle(i)

-----------------------------------------------------------------------------
(***************************************************************************)
(* The network, the clock and the process                                  *)
(***************************************************************************)

\* Packets of a flow reach the socket that was opened for it.
Flowing(f) ==
  /\ rx_thread = "runs" /\ f \in SocketIx
  /\ sockets[f] # None /\ sockets[f].flow = flows[f].id
  /\ IF flows[f].kind = "unicast" THEN carried[flows[f].id] # None
     ELSE \E s \in multicast : ServerOf[s] = flows[f].server

See(f, what) ==
  /\ flows[f] # None /\ flows[f].seen # what
  /\ flows' = [flows EXCEPT ![f].seen = what]
  /\ UNCHANGED <<front, worker, info, made, requests, tasks, collector, clock, multicast,
                 carried, rxvars>>

\* last_packet_time is stored.
PacketArrives(f) == See(f, "fresh") /\ Flowing(f) /\ NoFault /\ UNCHANGED booting

\* No packet for two seconds, and the flow is six seconds old: what was spawned
\* or queued before has been done, unless the request is that slow.
Silence(f) ==
  /\ See(f, "silent")
  /\ booting' = FALSE /\ tasks = <<>> /\ (rx_thread = "runs" => rx_commands = <<>>)
  /\ IF Flowing(f) \/ phase = "requests" THEN Fault ELSE NoFault

\* A transmitter drops a flow: it restarts, or misses keepalives.
TxDropsFlow(n) ==
  /\ carried[n] # None /\ Fault
  /\ carried' = [carried EXCEPT ![n] = None]
  /\ UNCHANGED <<front, worker, shared, clock, booting, multicast, rxvars>>

\* A user makes or removes a multicast flow of a transmitter.
TxChangesBundle(s) ==
  /\ Fault
  /\ s \in Bundled
  /\ \A t \in multicast \ {s} : <<ServerOf[t], BundleSlot[t]>> # <<ServerOf[s], BundleSlot[s]>>
  /\ multicast' = IF s \in multicast THEN multicast \ {s} ELSE multicast \cup {s}
  /\ UNCHANGED <<front, worker, shared, clock, booting, carried, rxvars>>

\* The process ends, or is killed, and starts again: load_state.
Restart ==
  /\ Fault
  /\ commands' = <<>> /\ dirty' = FALSE /\ phase' = "commands"
  /\ channels' = [ch \in Channels |-> IF saved[ch] = None THEN None
                                      ELSE [src |-> saved[ch], remote |-> None]]
  /\ info' = [ch \in Channels |-> IF saved[ch] = None THEN None
                                  ELSE [src |-> saved[ch], status |-> "unresolved"]]
  /\ needs_resolving' = (\E ch \in Channels : saved[ch] # None)
  /\ resolve_now' = (\E ch \in Channels : saved[ch] # None)
  /\ flows' = [f \in Indices |-> None]
  /\ requests' = Idle /\ updates' = <<>> /\ destroying' = {} /\ tasks' = <<>>
  /\ collector' = [ch \in Channels |-> None]
  /\ carried' = [n \in 1 .. MaxMade |-> None]
  /\ clock' = FALSE /\ booting' = TRUE
  /\ flows_info' = [i \in SocketIx |-> FALSE] /\ rx_commands' = <<>>
  /\ sockets' = [i \in SocketIx |-> None] /\ rx_thread' = "runs"
  /\ UNCHANGED <<calls, made, saved, multicast>>

-----------------------------------------------------------------------------

FrontEnd ==
  \/ \E ch \in Channels, s \in Sources : Subscribe(ch, s)
  \/ \E ch \in Channels : Unsubscribe(ch)
  \/ ForceRefresh
  \/ Shutdown

Commands ==
  HandleSubscribe \/ HandleUnsubscribe \/ HandleRefresh \/ HandleShutdown

Resolving == \E found \in SUBSET Asked, bundles \in SUBSET Servers : Resolve(found, bundles)

Requests == \E k \in Keys :
  \/ JoinBundle(k) \/ FlowGranted(k) \/ FlowRefused(k) \/ FlowWithoutSocket(k)
  \/ FlowUpdated(k) \/ FlowNotUpdated(k)

Scanning == ScanOnly \/ ScanAfterResolving \/ \E d \in destroying : DestroyFlow(d)

Worker == Commands \/ Resolving \/ ApplyUpdates \/ ForgetUpdates \/ Scanning

Receiver == RxThread /\ UNCHANGED <<front, worker, shared, net>>

Environment ==
  \/ \E f \in Indices : PacketArrives(f) \/ Silence(f)
  \/ \E n \in 1 .. MaxMade : TxDropsFlow(n)
  \/ \E s \in Sources : TxChangesBundle(s)
  \/ Restart

Next == FrontEnd \/ Worker \/ Requests \/ Tasks \/ Receiver \/ Environment

Spec == Init /\ [][Next]_vars

\* Tasks and threads run; the resolver's nine seconds pass; a flow that is
\* neither flowing nor new is noticed; what fails is bounded by MaxFaults.
FairSpec ==
  /\ Spec
  /\ WF_vars(Commands \/ Resolving \/ ApplyUpdates \/ ForgetUpdates \/ Scanning)
  /\ SF_vars(Resolving)
  /\ WF_vars(Requests) /\ WF_vars(Tasks) /\ WF_vars(Receiver)
  /\ \A f \in Indices : WF_vars(PacketArrives(f)) /\ WF_vars(Silence(f))
  /\ SF_vars(ApplyUpdates)

-----------------------------------------------------------------------------
(***************************************************************************)
(* Properties                                                              *)
(***************************************************************************)

FrontEndCommand ==
  [t : {"subscribe"}, ch : Channels, src : Sources] \cup [t : {"unsubscribe"}, ch : Channels]
  \cup [t : {"refresh", "shutdown"}]
Remote == [flow : Indices, slot : Slots]
Subscription == [src : Sources, remote : {None} \cup Remote]
Flow == [id : Nat, kind : {"unicast", "multicast"}, server : Servers, handle : BOOLEAN,
         refcount : [Slots -> Nat], rb : [Slots -> BOOLEAN], seen : {"new", "fresh", "silent"},
         tx : [Slots -> Sources \cup {None}]]
ChannelSourceUpdate == [chs : SUBSET Channels, flow : Indices, slot : Nat, src : Sources]
Request ==
  [t : {"create"}, flow : Indices, updates : SUBSET ChannelSourceUpdate]
  \cup [t : {"update"}, flow : Indices, updates : SUBSET ChannelSourceUpdate,
        tx : [Slots -> Sources \cup {None}]]

Buffer == Nat \X Slots
Socket == [flow : Nat, sinks : [Slots -> SUBSET Buffer]]
RxCommand ==
  [t : {"add"}, index : SocketIx, flow : Nat] \cup [t : {"remove"}, index : SocketIx]
  \cup [t : {"connect"}, index : SocketIx, slot : Slots, rb : Buffer]
Task ==
  [t : {"connect"}, ch : Channels, rb : Buffer] \cup [t : {"disconnect"}, ch : Channels]
  \cup [t : {"sink"}, flow : Indices, slot : Slots, rb : Buffer] \cup [t : {"remove"}, flow : Indices]

ASSUME NoneAssumption == None \notin Subscription \cup Remote \cup Flow \cup Socket

TypeOK ==
  /\ phase \in {"commands", "requests", "destroy", "ended", "panicked"} /\ dirty \in BOOLEAN
  /\ commands \in Seq(FrontEndCommand)
  /\ channels \in [Channels -> {None} \cup Subscription]
  /\ flows \in [Indices -> {None} \cup Flow] /\ made \in Nat
  /\ requests \in [Keys -> Seq(Request)] /\ updates \in Seq(SUBSET ChannelSourceUpdate)
  /\ saved \in [Channels -> {None} \cup Sources]

\* A flow is destroyed when its reference counts say that nobody listens, so
\* they must be exactly the numbers of channels connected to its slots, and no
\* channel may be connected to a flow that is gone.
RefcountExact ==
  /\ \A ch \in Channels : Connected(ch) => flows[channels[ch].remote.flow] # None
  /\ \A f \in Indices : flows[f] # None =>
       \A k \in Slots :
         flows[f].refcount[k] =
           Cardinality({ch \in Channels : Connected(ch)
                                          /\ channels[ch].remote = [flow |-> f, slot |-> k]})

(***************************************************************************)
(* What RefcountExact rests on: the plan of resolve_subscriptions is still *)
(* right when its results come back one by one.                            *)
(***************************************************************************)

\* A transmitter's bundle is received by one flow.
OneBundle ==
  \A f, g \in Indices :
    /\ flows[f] # None /\ flows[g] # None
    /\ flows[f].kind = "multicast" /\ flows[g].kind = "multicast" /\ flows[f].server = flows[g].server
    => f = g

\* What came back is for channels that still wait, in flows that are there.
UpdatesFit ==
  \A i \in DOMAIN updates : \A u \in updates[i] : u.chs \subseteq Needed /\ flows[u.flow] # None

\* So is what is still asked for.
RequestsFit ==
  \A k \in Keys : \A i \in DOMAIN requests[k] :
    /\ flows[requests[k][i].flow] # None
    /\ \A u \in requests[k][i].updates : u.chs \subseteq Needed /\ u.flow = requests[k][i].flow

\* Nobody else has to do with a flow that is being made: it can be given up.
NewIsUnused ==
  \A k \in Keys : \A i \in DOMAIN requests[k] : requests[k][i].t = "create" =>
    LET f == requests[k][i].flow
    IN  /\ \A ch \in Channels : Connected(ch) => channels[ch].remote.flow # f
        /\ \A j \in DOMAIN updates : \A u \in updates[j] : u.flow # f
        /\ \A l \in Keys : \A j \in DOMAIN requests[l] : requests[l][j].flow = f => l = k /\ j = i

\* A channel waits for one update.
OneUpdateEach ==
  /\ \A i, j \in DOMAIN updates : \A u \in updates[i], v \in updates[j] :
       u.chs \cap v.chs # {} => i = j /\ u = v
  /\ \A i \in DOMAIN updates : \A u \in updates[i] :
       \A k \in Keys : \A j \in DOMAIN requests[k] : \A v \in requests[k][j].updates : u.chs \cap v.chs = {}
  /\ \A k, l \in Keys : \A i \in DOMAIN requests[k], j \in DOMAIN requests[l] :
       \A u \in requests[k][i].updates, v \in requests[l][j].updates :
         u.chs \cap v.chs # {} => k = l /\ i = j /\ u = v

PlanFits == phase = "requests" => UpdatesFit /\ RequestsFit /\ NewIsUnused /\ OneUpdateEach

CountInv == TypeOK /\ OneBundle /\ PlanFits /\ RefcountExact

\* A slot is given to another source only when nobody listens to it: the source
\* the subscriber believes to be in a channel's slot is the one it asked for.
SlotsAgree ==
  \A ch \in Channels : Connected(ch) =>
    LET r == channels[ch].remote
    IN  flows[r.flow] # None => flows[r.flow].tx[r.slot] = Src(ch)

\* Whenever the resolver or the scan may unwrap the handle of a flow, it has
\* been received.
HandlesKnown ==
  phase \in {"commands", "destroy"} =>
    \A f \in Indices : flows[f] # None /\ flows[f].kind = "unicast" => flows[f].handle

\* The real-time thread never unwraps a socket that is not there.
ThreadSurvives == rx_thread = "runs"

AtRest == phase = "commands" /\ tasks = <<>> /\ rx_commands = <<>>

\* When everything spawned and queued has been done, the real-time thread has a
\* socket for each flow and no other, with a sink for every ring buffer.
SocketsAgree ==
  AtRest /\ ThreadSurvives =>
    \A f \in Indices \cap SocketIx :
      IF flows[f] = None THEN sockets[f] = None
      ELSE /\ sockets[f] # None /\ sockets[f].flow = flows[f].id
           /\ \A k \in Slots : flows[f].rb[k] => <<flows[f].id, k>> \in sockets[f].sinks[k]

\* debug_assert of AddSocket: the place for a socket is empty.
AddsToEmpty ==
  rx_commands # <<>> /\ Head(rx_commands).t = "add" => sockets[Head(rx_commands).index] = None

\* What RemoveSocket calls a bug otherwise: no sink is left in the socket.
RemovesEmpty ==
  rx_commands # <<>> /\ Head(rx_commands).t = "remove" =>
    LET s == sockets[Head(rx_commands).index]
    IN  s # None => \A k \in Slots : s.sinks[k] = {}

\* When the commands received have been handled, what is stored is what they
\* have asked for.
SavedAll == ~dirty \/ phase = "ended" => saved = Wanted

\* A subscription that stays is received in the end, however often requests,
\* answers or flows were lost before.
Receives ==
  \A ch \in Channels :
    Subscribed(ch) ~> \/ ~Subscribed(ch) \/ phase \in {"ended", "panicked"}
                      \/ /\ Connected(ch) /\ info[ch] # None /\ info[ch].status = "receiving"
                         /\ flows[channels[ch].remote.flow].seen = "fresh"

-----------------------------------------------------------------------------

Pending(ch) == \E i \in DOMAIN commands :
  commands[i].t \in {"subscribe", "unsubscribe"} /\ commands[i].ch = ch

\* What a controller is told about a channel is the subscription it has: it asks
\* for the list right after it has subscribed.
InfoNames ==
  \A ch \in Channels :
    Subscribed(ch) /\ ~Pending(ch) => info[ch] # None /\ info[ch].src = Src(ch)

\* A request that fails is reported, not fatal.
NoPanic == phase # "panicked"

\* The ring buffer that a channel is to be read from
Input(ch) ==
  IF Connected(ch)
  THEN LET r == channels[ch].remote IN <<flows[r.flow].id, r.slot>>
  ELSE None

\* At rest the collector reads exactly the channels that are connected.
CollectorAgrees == AtRest => \A ch \in Channels : collector[ch] = Input(ch)

\* What CollectorAgrees rests on when the worker waits for what it has spawned:
\* a call that is still to be made asks for what is wanted now, and a channel
\* without such a call is read from the right place already.
CallFits(c) ==
  /\ c.t = "connect" => c.rb = Input(c.ch)
  /\ c.t = "disconnect" => Input(c.ch) = None

CalledFor(ch) == \E c \in ToSet(tasks) : c.t \in {"connect", "disconnect"} /\ c.ch = ch

CollectorInv ==
  /\ tasks \in Seq(Task) /\ collector \in [Channels -> {None} \cup Buffer]
  /\ \A c \in ToSet(tasks) : CallFits(c)
  /\ \A ch \in Channels : collector[ch] = Input(ch) \/ CalledFor(ch)

(***************************************************************************)
(* What ThreadSurvives rests on when no removal of a socket is left to     *)
(* itself: either there are no bundles, whose sockets are removed by       *)
(* spawned tasks, or the worker waits for those.                           *)
(***************************************************************************)

Opens(p, i)   == rx_commands[p].t = "add" /\ rx_commands[p].index = i
Removes(p, i) == rx_commands[p].t = "remove" /\ rx_commands[p].index = i

\* After the n-th command in the queue there is a socket at index i.
SocketAfter(n, i) ==
  \E q \in 0 .. n : /\ IF q = 0 THEN sockets[i] # None ELSE Opens(q, i)
                    /\ \A p \in q + 1 .. n : ~Removes(p, i)

QueueSafe ==
  /\ rx_commands \in Seq(RxCommand) /\ sockets \in [SocketIx -> {None} \cup Socket]
  /\ ThreadSurvives
  /\ \A p \in DOMAIN rx_commands : \A i \in SocketIx : Removes(p, i) => SocketAfter(p - 1, i)

\* Once it has done what it was told, the thread has a socket for the flow.
Open(f) == f \in SocketIx => SocketAfter(Len(rx_commands), f)

ToBeMade(f) == \E k \in Keys : \E i \in DOMAIN requests[k] :
                 requests[k][i].t = "create" /\ requests[k][i].flow = f

FlowsOpen ==
  /\ phase \in {"commands", "requests", "destroy"} =>
       \A f \in Indices : flows[f] # None => Open(f) \/ ToBeMade(f)
  /\ phase \in {"commands", "destroy"} => requests = Idle

\* Each socket is removed once, and not while its index is in use again.
LeavesOnce ==
  /\ tasks \in Seq(Task)
  /\ \A i \in DOMAIN tasks : tasks[i].t = "remove" =>
       /\ flows[tasks[i].flow] = None /\ Open(tasks[i].flow)
       /\ \A j \in DOMAIN tasks : tasks[j].t = "remove" /\ tasks[j].flow = tasks[i].flow => i = j
       /\ \A d \in destroying : d.flow # tasks[i].flow
  /\ \A d \in destroying :
       /\ d.flow \in Indices /\ flows[d.flow] = None /\ Open(d.flow)
       /\ \A e \in destroying : d.flow = e.flow => d = e
  /\ phase # "destroy" => destroying = {}

OnlyUnicast ==
  Bundled = {} => /\ multicast = {}
                  /\ \A f \in Indices : flows[f] # None => flows[f].kind = "unicast"
                  /\ \A i \in DOMAIN tasks : tasks[i].t # "remove"

SocketsInv == QueueSafe /\ FlowsOpen /\ LeavesOnce /\ OnlyUnicast

\* A channel that is connected to a flow hears its own source.
HearsItsSource ==
  \A ch \in Channels :
    Connected(ch) /\ flows[channels[ch].remote.flow].kind = "unicast" =>
      LET sent == carried[flows[channels[ch].remote.flow].id]
      IN  sent # None => sent[channels[ch].remote.slot] = Src(ch)
=============================================================================
