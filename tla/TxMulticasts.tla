---------------------------- MODULE TxMulticasts ----------------------------
(***************************************************************************)
(* The multicast transmitter of                                            *)
(* inferno_aoip/src/device_server/tx_multicasts.rs, with the requests of   *)
(* arc_server.rs that use it.  FlowsTransmitter, which it shares with the  *)
(* unicast flows, is the FlowTable it implements.                          *)
(*                                                                         *)
(* A bundle is a multicast flow a user has created.  Its address is looked *)
(* for by a task of its own, the probe, while the flow is there but does   *)
(* not transmit.  The id of a probe also names the cell dst_addr that it   *)
(* shares with its bundle.  A bundle carries one channel.                  *)
(***************************************************************************)
EXTENDS FlowTable, FiniteSets

CONSTANTS
  Groups,        \* multicast addresses
  Channels,
  Patient,       \* whether a user removes only bundles whose probe has ended
  MaxBundles,    \* bound: bundles made between two starts
  MaxConflicts,  \* bound: addresses found in use
  MaxRestarts    \* bound: times the process is restarted

Ids     == 1 .. MaxBundles
Unicast == Dsts \ Groups

Flow    == [dst : Dsts, multicast : BOOLEAN]
Bundle  == [channel : Channels, id : Ids]
Probe   == [index : TableIx, channel : Channels, dst : Groups,
            at : {"first check", "second check", "conflict", "ended"}]
Request == [index : TableIx, channel : Channels]
SavedBundle == [index : TableIx, channel : Channels, dst : Groups \cup {None}]

ASSUME MulticastAssumption ==
  /\ MaxFlows \in Nat \ {0} /\ Groups \subseteq Dsts
  /\ None \notin Dsts \cup Channels \cup TableIx
  /\ None \notin Flow /\ None \notin Bundle /\ None \notin Probe /\ None \notin Request
  /\ Patient \in BOOLEAN
  /\ {MaxBundles, MaxConflicts, MaxRestarts} \subseteq Nat

VARIABLES
  silent,        \* indices of flows whose expired flag is set
  bundles,       \* TransmitMulticasts::bundles
  addr,          \* Bundle::dst_addr, by id
  probes,        \* the tasks add_flow_internal has spawned, by id
  by_channel,    \* multicasts_by_channel
  advertised,    \* the bundles mDNS announces, with their addresses
  reserved,      \* the addresses mDNS announces
  request,       \* the creation arc_server has checked and not yet made
  phase,         \* "loading", "serving", "stopping", "stopped" or "panicked"
  file, to_load, \* tx_multicasts of the state storage, and what is left of it
  conflicts, restarts

mdns   == <<by_channel, advertised, reserved>>
life   == <<phase, restarts>>
vars   == <<table, silent, bundles, addr, probes, mdns, request, life, file, to_load, conflicts>>

NoProbes   == [n \in Ids |-> None]
NoPointers == [c \in Channels |-> None]

Init ==
  /\ TableInit /\ silent = {}
  /\ bundles = EmptyTable /\ addr = NoProbes /\ probes = NoProbes
  /\ by_channel = NoPointers /\ advertised = EmptyTable /\ reserved = {}
  /\ request = None
  /\ phase = "serving" /\ restarts = 0 /\ conflicts = 0
  /\ file = {} /\ to_load = {}

-----------------------------------------------------------------------------
(***************************************************************************)
(* What it uses of FlowsTransmitter, whose mutex makes each call one step  *)
(***************************************************************************)

\* should_work
Working == phase \notin {"stopping", "stopped"}

\* random_multicast_destination
FreeGroups(t) == {g \in Groups : \A i \in TableIx : t[i] # None => t[i].dst # g}

\* add_flow(.., Some(i), true) on the table t: the table and the flags after it.
\* An index in use is an error, as may be a call on the socket; a destination
\* that has a flow gets new channels, and its flag is cleared by the thread.
AddOutcomes(t, s, i, d) ==
  LET twin == {j \in TableIx : t[j] # None /\ t[j].dst = d} IN
  IF twin # {}
  THEN {[table |-> [j \in TableIx |-> IF j \in twin THEN [dst |-> d, multicast |-> TRUE] ELSE t[j]],
         silent |-> s \ twin]}
  ELSE {[table |-> t, silent |-> s]} \cup
       (IF t[i] # None THEN {}
        ELSE {[table |-> [t EXCEPT ![i] = [dst |-> d, multicast |-> TRUE]],
               silent |-> s \cup {i}]})

IsMulticast(i) == table[i] # None /\ table[i].multicast

\* remove_multicast_flow; an error leaves the table and the flags as they are.
WithoutMulticast(i) == IF IsMulticast(i) THEN [table EXCEPT ![i] = None] ELSE table
SilentWithout(i)    == IF IsMulticast(i) THEN silent \ {i} ELSE silent

\* The control server adds unicast flows at indices of its own choice and
\* removes them; any add_flow removes those that have expired.
UnicastFlow ==
  /\ \/ phase = "serving" /\ \E i \in TableIx, d \in Unicast : Put(i, d, FALSE)
     \/ Working /\ \E i \in TableIx : Drop(i) /\ ~table[i].multicast
  /\ UNCHANGED <<silent, bundles, addr, probes, mdns, request, life, file, to_load, conflicts>>

-----------------------------------------------------------------------------
(***************************************************************************)
(* Bundles                                                                 *)
(***************************************************************************)

\* save_state
Saved(bs, as) ==
  {[index |-> i, channel |-> bs[i].channel, dst |-> as[bs[i].id]] :
     i \in {j \in TableIx : bs[j] # None}}

\* add_flow_internal: the flow is added, or not, and the bundle recorded and
\* saved; the probe starts with the address chosen.
AddFlowInternal(i, c, preferred) ==
  /\ bundles[i] = None
  /\ \E n \in Ids, d \in IF preferred = None THEN FreeGroups(table) ELSE {preferred} :
       /\ probes[n] = None /\ \A k \in 1 .. n - 1 : probes[k] # None
       /\ \E after \in AddOutcomes(table, silent, i, d) :
            table' = after.table /\ silent' = after.silent
       /\ bundles' = [bundles EXCEPT ![i] = [channel |-> c, id |-> n]]
       /\ probes' = [probes EXCEPT ![n] = [index |-> i, channel |-> c, dst |-> d, at |-> "first check"]]
  /\ file' = Saved(bundles', addr)
  /\ UNCHANGED <<addr, mdns, restarts, conflicts>>

\* load_state: the index of a saved bundle, exchanged if it is in use.
LoadIndex(s) ==
  IF bundles[s.index] = None THEN {s.index}
  ELSE {i \in TableIx : bundles[i] = None /\ \A j \in 0 .. i - 1 : bundles[j] # None}

\* load_state, bundle by bundle; the program never saves more than there is
\* room for.
LoadNext ==
  /\ phase = "loading"
  /\ \E s \in to_load :
       /\ \A r \in to_load : s.index <= r.index
       /\ to_load' = to_load \ {s}
       /\ \E i \in LoadIndex(s) : AddFlowInternal(i, s.channel, s.dst)
  /\ UNCHANGED <<phase, request>>

EndLoad ==
  /\ phase = "loading" /\ to_load = {}
  /\ phase' = "serving"
  /\ UNCHANGED <<table, silent, bundles, addr, probes, mdns, request, restarts, file, to_load, conflicts>>

\* The request of arc_server to create a bundle, up to the check that no flow
\* has its id; the mutex is then given up.
CreateChecked(i, c) ==
  /\ phase = "serving" /\ request = None
  /\ table[i] = None
  /\ request' = [index |-> i, channel |-> c]
  /\ UNCHANGED <<table, silent, bundles, addr, probes, mdns, life, file, to_load, conflicts>>

\* add_flow, and its assertion that there is no bundle.
Create ==
  /\ phase = "serving" /\ request # None
  /\ request' = None
  /\ \/ AddFlowInternal(request.index, request.channel, None) /\ UNCHANGED phase
     \/ /\ bundles[request.index] # None
        /\ phase' = "panicked"
        /\ UNCHANGED <<table, silent, bundles, addr, probes, mdns, restarts, file, conflicts>>
  /\ UNCHANGED to_load

\* Deliberate error: only what is announced is withdrawn.
RemoveKeepsFlow(i) ==
  /\ phase = "serving" /\ request = None /\ bundles[i] # None
  /\ Patient => probes[bundles[i].id].at = "ended"
  /\ bundles' = [bundles EXCEPT ![i] = None]
  /\ advertised' = [advertised EXCEPT ![i] = None]
  /\ reserved' = reserved \ {addr[bundles[i].id]}
  /\ by_channel' = [by_channel EXCEPT ![bundles[i].channel] = None]
  /\ file' = Saved(bundles', addr)
  /\ UNCHANGED <<table, silent, addr, probes, request, life, to_load, conflicts>>

\* remove_flow.  What is announced is withdrawn if the probe has come to an
\* address; the file is not saved if there was no flow to remove.
Remove(i) ==
  /\ phase = "serving" /\ request = None /\ bundles[i] # None
  /\ Patient => probes[bundles[i].id].at = "ended"
  /\ LET b == bundles[i] IN
       /\ bundles' = [bundles EXCEPT ![i] = None]
       /\ IF addr[b.id] # None
          THEN /\ advertised' = [advertised EXCEPT ![i] = None]
               /\ reserved' = reserved \ {addr[b.id]}
          ELSE UNCHANGED <<advertised, reserved>>
       /\ by_channel' = [by_channel EXCEPT ![b.channel] = None]
  /\ table' = WithoutMulticast(i) /\ silent' = SilentWithout(i)
  /\ file' = IF IsMulticast(i) THEN Saved(bundles', addr) ELSE file
  /\ UNCHANGED <<addr, probes, request, life, to_load, conflicts>>

-----------------------------------------------------------------------------
(***************************************************************************)
(* A probe                                                                 *)
(***************************************************************************)

At(n, where) == probes[n] # None /\ probes[n].at = where
Goes(n, where) == probes' = [probes EXCEPT ![n].at = where]

\* is_multicast_ip_already_used finds an answer; an error counts as one.
InUse(n) ==
  /\ At(n, "first check") \/ At(n, "second check")
  /\ conflicts < MaxConflicts
  /\ conflicts' = conflicts + 1
  /\ Goes(n, "conflict")
  /\ UNCHANGED <<table, silent, bundles, addr, mdns, request, life, file, to_load>>

\* Deliberate error: the flow is activated before the second look.
ReserveAndSend(n) ==
  /\ At(n, "first check")
  /\ reserved' = reserved \cup {probes[n].dst}
  /\ silent' = silent \ {probes[n].index}
  /\ Goes(n, "second check")
  /\ UNCHANGED <<table, bundles, addr, by_channel, advertised, request, life, file, to_load, conflicts>>

\* It finds none: the address is reserved and looked for again.
Reserve(n) ==
  /\ At(n, "first check")
  /\ reserved' = reserved \cup {probes[n].dst}
  /\ Goes(n, "second check")
  /\ UNCHANGED <<table, silent, bundles, addr, by_channel, advertised, request, life, file, to_load, conflicts>>

\* The flow is activated and the bundle announced.  Where there is no flow the
\* task panics, after the announcement.
Activate(n) ==
  /\ At(n, "second check") /\ Working
  /\ LET p == probes[n] IN
       /\ addr' = [addr EXCEPT ![n] = p.dst]
       /\ by_channel' = [by_channel EXCEPT ![p.channel] = p.index]
       /\ advertised' = [advertised EXCEPT ![p.index] = p.dst]
       /\ silent' = silent \ {p.index}
  /\ Goes(n, "ended")
  /\ UNCHANGED <<table, bundles, reserved, request, life, file, to_load, conflicts>>

\* Deliberate error: the mutex is given up between the removal and the
\* addition, and a unicast flow may come in.
RetryUnlocked(n) ==
  /\ At(n, "conflict") /\ Working
  /\ LET i == probes[n].index IN
     \E d \in FreeGroups(WithoutMulticast(i)), u \in Unicast :
       /\ table' = [WithoutMulticast(i) EXCEPT ![i] = [dst |-> u, multicast |-> FALSE]]
       /\ silent' = silent \ {i}
       /\ probes' = [probes EXCEPT ![n].dst = d, ![n].at = "first check"]
  /\ UNCHANGED <<bundles, addr, mdns, request, life, file, to_load, conflicts>>

\* The flow is made again with another address, without giving up the mutex.
\* The reservation of the first one stays.
Retry(n) ==
  /\ At(n, "conflict") /\ Working
  /\ LET i == probes[n].index
         t == WithoutMulticast(i) IN
     \E d \in FreeGroups(t) :
       /\ \E after \in AddOutcomes(t, SilentWithout(i), i, d) :
            table' = after.table /\ silent' = after.silent
       /\ probes' = [probes EXCEPT ![n].dst = d, ![n].at = "first check"]
  /\ UNCHANGED <<bundles, addr, mdns, request, life, file, to_load, conflicts>>

\* Deliberate error: only a probe about to try again looks whether to go on.
AbandonRetries(n) ==
  /\ At(n, "conflict") /\ ~Working
  /\ Goes(n, "ended")
  /\ UNCHANGED <<table, silent, bundles, addr, mdns, request, life, file, to_load, conflicts>>

\* The transmitter is being stopped, or is gone.
Abandon(n) ==
  /\ At(n, "conflict") \/ At(n, "second check")
  /\ ~Working
  /\ Goes(n, "ended")
  /\ UNCHANGED <<table, silent, bundles, addr, mdns, request, life, file, to_load, conflicts>>

-----------------------------------------------------------------------------
(***************************************************************************)
(* The end and the beginning                                               *)
(***************************************************************************)

\* stop_transmitter: shutdown clears should_work and takes the bundles, each of
\* which is then left as it is; a creation under way finds nobody to ask ...
Shutdown ==
  /\ phase = "serving"
  /\ phase' = "stopping" /\ request' = None
  /\ bundles' = EmptyTable
  /\ UNCHANGED <<table, silent, addr, probes, mdns, restarts, file, to_load, conflicts>>

\* ... and the FlowsTransmitter is dropped.
Stop ==
  /\ phase = "stopping"
  /\ phase' = "stopped"
  /\ table' = EmptyTable /\ silent' = {}
  /\ UNCHANGED <<bundles, addr, probes, mdns, request, restarts, file, to_load, conflicts>>

\* The process ends at any moment and starts again; the unicast flows are
\* restored first, from index 0 on.
Restart ==
  /\ restarts < MaxRestarts
  /\ restarts' = restarts + 1
  /\ \E n \in 0 .. MaxFlows, f \in [TableIx -> Unicast] :
       /\ \A i, j \in 0 .. n - 1 : f[i] = f[j] => i = j
       /\ table' = [i \in TableIx |-> IF i < n THEN [dst |-> f[i], multicast |-> FALSE] ELSE None]
  /\ silent' = {} /\ bundles' = EmptyTable /\ addr' = NoProbes /\ probes' = NoProbes
  /\ by_channel' = NoPointers /\ advertised' = EmptyTable /\ reserved' = {}
  /\ request' = None /\ phase' = "loading"
  /\ to_load' = file
  /\ UNCHANGED <<file, conflicts>>

Next ==
  \/ UnicastFlow
  \/ LoadNext \/ EndLoad \/ Create
  \/ \E i \in TableIx : Remove(i) \/ \E c \in Channels : CreateChecked(i, c)
  \/ \E n \in Ids : InUse(n) \/ Reserve(n) \/ Activate(n) \/ Retry(n) \/ Abandon(n)
  \/ Shutdown \/ Stop \/ Restart

Spec == Init /\ [][Next]_vars

\* Tasks that can run do; the addresses that are found in use are bounded.
FairSpec ==
  /\ Spec /\ WF_vars(LoadNext) /\ WF_vars(EndLoad)
  /\ \A n \in Ids : WF_vars(Reserve(n) \/ Activate(n) \/ Retry(n) \/ Abandon(n))

-----------------------------------------------------------------------------
(***************************************************************************)
(* Properties                                                              *)
(***************************************************************************)

TypeOK ==
  /\ table \in [TableIx -> Flow \cup {None}] /\ silent \subseteq TableIx
  /\ bundles \in [TableIx -> Bundle \cup {None}]
  /\ addr \in [Ids -> Groups \cup {None}]
  /\ probes \in [Ids -> Probe \cup {None}]
  /\ by_channel \in [Channels -> TableIx \cup {None}]
  /\ advertised \in [TableIx -> Groups \cup {None}] /\ reserved \subseteq Groups
  /\ request \in Request \cup {None}
  /\ phase \in {"loading", "serving", "stopping", "stopped", "panicked"}
  /\ file \subseteq SavedBundle /\ to_load \subseteq SavedBundle
  /\ conflicts \in 0 .. MaxConflicts /\ restarts \in 0 .. MaxRestarts

\* A channel announced as part of a bundle is part of one that is announced.
PointersAdvertised ==
  \A c \in Channels : by_channel[c] # None => advertised[by_channel[c]] # None

\* A flow that has lost its address gets another one before anybody else gets
\* its index, although unicast flows take any index that is free.
IndexKept ==
  [][\A n \in Ids :
       (At(n, "conflict") /\ IsMulticast(probes[n].index) /\ probes'[n] \notin {None, probes[n]})
         => LET f == table'[probes[n].index] IN f = None \/ f.multicast]_vars

\* A multicast flow can be removed: there is a bundle for it.
Removable == Working => \A i \in TableIx : IsMulticast(i) => bundles[i] # None

\* In a process that was not restarted, nothing is sent to an address before it
\* was looked for twice.
SentIsChecked ==
  restarts = 0 => \A i \in TableIx :
    (IsMulticast(i) /\ i \notin silent) => \E n \in Ids : addr[n] = table[i].dst

\* Every probe ends, also when the transmitter is stopped while it waits.
ProbesEnd == \A n \in Ids : (probes[n] # None) ~> (probes[n] = None \/ At(n, "ended"))

-----------------------------------------------------------------------------
(***************************************************************************)
(* What the properties rest on, if users are patient                       *)
(***************************************************************************)

Searching(n) == probes[n] # None /\ probes[n].at # "ended"

\* A probe that goes on has its bundle, and the flow it looks for.
Owns(n) ==
  /\ bundles[probes[n].index] = [channel |-> probes[n].channel, id |-> n]
  /\ IsMulticast(probes[n].index) => table[probes[n].index].dst = probes[n].dst

ProbeOwns == Working => \A n \in Ids : Searching(n) => Owns(n)

\* A cell is filled when its probe ends, once.
CellUnset == \A n \in Ids : (probes[n] = None \/ Searching(n)) => addr[n] = None

\* Multicast flows have multicast addresses, the others have not.
GroupsAreMulticast ==
  \A i \in TableIx : table[i] # None => (table[i].multicast <=> table[i].dst \in Groups)

\* A channel points at the bundle it is part of.
PointersOwned ==
  Working => \A c \in Channels : by_channel[c] # None =>
    bundles[by_channel[c]] # None /\ bundles[by_channel[c]].channel = c

IndInv ==
  /\ TypeOK /\ ProbeOwns /\ CellUnset /\ GroupsAreMulticast /\ PointersOwned
  /\ phase = "loading" => restarts > 0
  /\ Removable /\ SentIsChecked /\ PointersAdvertised

-----------------------------------------------------------------------------
(***************************************************************************)
(* What comments and messages of the code say and its steps do not keep to *)
(***************************************************************************)

\* add_flow_internal: an announced bundle has an active transmitter.
AdvertisedIsSent ==
  Working => \A i \in TableIx :
    advertised[i] # None => IsMulticast(i) /\ table[i].dst = advertised[i]

\* add_flow_internal: assert!(bundles[flow_index].is_none())
NoPanic == phase # "panicked"
=============================================================================
