----------------------------- MODULE Subdevices -----------------------------
(***************************************************************************)
(* The filters of the adapter (common.cpp). An endpoint has a topology and *)
(* a wave subdevice, which are registered with the port class driver       *)
(* (external), connected to each other and kept in a cache by name. The    *)
(* cache has no lock.                                                      *)
(*                                                                         *)
(* Threads install and remove filters: thread 0 is the one that runs       *)
(* StartDevice and PnpHandler, the others are the callbacks of the         *)
(* adapter's work item.                                                    *)
(***************************************************************************)
EXTENDS Integers, Sequences, FiniteSets

CONSTANTS
    Objects,        \* sideband device objects, in the order they are made: 1..n
    Callbacks       \* callbacks of the work item that may run at a time: 1..n

ASSUME SubdeviceAssumption ==
    Objects \subseteq Nat \ {0} /\ Callbacks \subseteq Nat \ {0} /\ IsFiniteSet(Callbacks)

Main == 0
Threads == {Main} \cup Callbacks
Adapter == 0        \* as the owner of a subdevice: StartDevice

\* A subdevice is known by the name of its endpoint, its part, and who made it.
NoSubdevice == [endpoint |-> "None", part |-> "None", owner |-> Adapter]
Subdevice(e, p, o) == [endpoint |-> e, part |-> p, owner |-> o]

Idle == [at |-> "Idle", device |-> Adapter, action |-> "None", endpoint |-> "None",
         topo |-> NoSubdevice, wave |-> NoSubdevice, made |-> {}, ok |-> TRUE]

VARIABLES
    m_SubdeviceCache,
    registered,     \* subdevices registered with the port class driver
    connected,      \* pairs of subdevices with a physical connection
    unknown,        \* m_Unknown*Topology and m_Unknown*Wave of each device
    thread,         \* where each thread is, and its local variables
    failing         \* the calls that may fail: "None", "Memory", "Filters" (those
                    \* for the filters of a sideband device), "Endpoints" (those
                    \* for the adapter's own filters), "Setup" (other ones)

filters == <<m_SubdeviceCache, registered, connected, unknown>>
subdeviceVars == <<filters, thread>>

\* What a call of some sort may give.
Outcome(calls) == IF failing = calls THEN BOOLEAN ELSE {TRUE}

Filtering(t) == Outcome(IF t = Main THEN "Endpoints" ELSE "Filters")

At(t, here) == thread[t].at = here
Goto(t, here) == thread' = [thread EXCEPT ![t].at = here]

\* The first entry with the name, if there is one.
GetCachedSubdevice(e, p) == {s \in m_SubdeviceCache : s.endpoint = e /\ s.part = p}

CacheSubdevice(s, ok) ==
    m_SubdeviceCache' = IF ok THEN m_SubdeviceCache \cup {s} ELSE m_SubdeviceCache

RemoveCachedSubdevice(e, p) == m_SubdeviceCache' = m_SubdeviceCache \ GetCachedSubdevice(e, p)

EmptySubdeviceCache == m_SubdeviceCache' = {}

\* The interface with its properties, a port, a miniport, and the registration.
InstallSubdevice(s, ok) == registered' = IF ok THEN registered \cup {s} ELSE registered

UnregisterSubdevice(s) == registered \ {s}

\* All connections of the pair, or none.
ConnectTopologies(topo, wave, ok) ==
    connected' = IF ok THEN connected \cup {<<topo, wave>>} ELSE connected \ {<<topo, wave>>}

DisconnectTopologies(topo, wave) == connected' = connected \ {<<topo, wave>>}

(***************************************************************************)
(* InstallEndpointFilters. The status of the topology part is overwritten  *)
(* by that of the wave part.                                               *)
(***************************************************************************)
\* A cached subdevice is used again; otherwise one is made and cached. The
\* part gives subdevice s, having made those in made, with status ok.
Install(t, p, s, made, ok) ==
    LET cached == GetCachedSubdevice(thread[t].endpoint, p)
        new == Subdevice(thread[t].endpoint, p, thread[t].device)
    IN  \/ /\ s \in cached /\ made = {} /\ ok
           /\ UNCHANGED <<m_SubdeviceCache, registered>>
        \/ /\ cached = {} /\ s = new /\ made = {new}
           /\ InstallSubdevice(new, TRUE) /\ CacheSubdevice(new, ok)
        \/ /\ cached = {} /\ s = NoSubdevice /\ made = {} /\ ~ok
           /\ InstallSubdevice(new, FALSE) /\ UNCHANGED m_SubdeviceCache

\* What a part can give.
Given(t, p) ==
    GetCachedSubdevice(thread[t].endpoint, p)
      \cup {Subdevice(thread[t].endpoint, p, thread[t].device), NoSubdevice}

InstallTopology(t) ==
    /\ At(t, "Topology")
    /\ \E s \in Given(t, "Topo"), made \in SUBSET Given(t, "Topo"), ok \in Filtering(t) :
        /\ Install(t, "Topo", s, made, ok)
        /\ thread' = [thread EXCEPT ![t].at = "Wave", ![t].topo = s, ![t].made = made]
    /\ UNCHANGED <<connected, unknown>>

InstallWave(t) ==
    /\ At(t, "Wave")
    /\ \E s \in Given(t, "Wave"), made \in SUBSET Given(t, "Wave"), ok \in Filtering(t) :
        /\ Install(t, "Wave", s, made, ok)
        /\ thread' = [thread EXCEPT ![t].at = "Connect", ![t].wave = s,
                                    ![t].made = @ \cup made, ![t].ok = ok]
    /\ UNCHANGED <<connected, unknown>>

\* Mutant: after a failure the filters that were made stay in the cache.
InstallConnectCached(t, next) ==
    LET i == thread[t]
        both == i.topo # NoSubdevice /\ i.wave # NoSubdevice
    IN  /\ At(t, "Connect")
        /\ \E ok \in Filtering(t) :
            /\ ~both => ok = i.ok
            /\ IF both THEN ConnectTopologies(i.topo, i.wave, ok) ELSE UNCHANGED connected
            /\ registered' = IF ok THEN registered ELSE registered \ i.made
            /\ unknown' = IF ok /\ i.device # Adapter
                          THEN [unknown EXCEPT ![i.device] = <<i.topo, i.wave>>] ELSE unknown
            /\ thread' = [thread EXCEPT ![t] = [Idle EXCEPT
                 !.at = next, !.device = i.device, !.action = i.action, !.ok = ok]]
        /\ UNCHANGED m_SubdeviceCache

\* Both parts are connected. After a failure what was made is unregistered and
\* uncached; otherwise the caller gets the ports.
InstallConnect(t, next) ==
    LET i == thread[t]
        both == i.topo # NoSubdevice /\ i.wave # NoSubdevice
    IN  /\ At(t, "Connect")
        /\ \E ok \in Filtering(t) :
            /\ ~both => ok = i.ok
            /\ IF both THEN ConnectTopologies(i.topo, i.wave, ok) ELSE UNCHANGED connected
            /\ IF ok
               THEN UNCHANGED <<m_SubdeviceCache, registered>>
               ELSE /\ registered' = registered \ i.made
                    /\ m_SubdeviceCache' = {c \in m_SubdeviceCache :
                         \A s \in i.made : s.endpoint # c.endpoint \/ s.part # c.part}
            /\ unknown' = IF ok /\ i.device # Adapter
                          THEN [unknown EXCEPT ![i.device] = <<i.topo, i.wave>>] ELSE unknown
            /\ thread' = [thread EXCEPT ![t] = [Idle EXCEPT
                 !.at = next, !.device = i.device, !.action = i.action, !.ok = ok]]

(***************************************************************************)
(* RemoveEndpointFilters, for the filters of a device.                     *)
(***************************************************************************)
RemoveDisconnect(t, done) ==
    LET d == thread[t].device
        u == unknown[d]
    IN  /\ At(t, "Disconnect")
        /\ IF u = <<NoSubdevice, NoSubdevice>>
           THEN Goto(t, done) /\ UNCHANGED connected
           ELSE /\ Goto(t, "RemoveWave")
                /\ IF NoSubdevice \in {u[1], u[2]} THEN UNCHANGED connected
                   ELSE DisconnectTopologies(u[1], u[2])
        /\ UNCHANGED <<m_SubdeviceCache, registered, unknown>>

\* Mutant: the wave filter leaves the cache but stays registered.
RemoveWaveRegistered(t) ==
    /\ At(t, "RemoveWave") /\ Goto(t, "RemoveTopology")
    /\ RemoveCachedSubdevice(thread[t].endpoint, "Wave")
    /\ UNCHANGED <<registered, connected, unknown>>

RemoveWave(t) ==
    LET d == thread[t].device IN
    /\ At(t, "RemoveWave") /\ Goto(t, "RemoveTopology")
    /\ RemoveCachedSubdevice(thread[t].endpoint, "Wave")
    /\ registered' = UnregisterSubdevice(unknown[d][2])
    /\ UNCHANGED <<connected, unknown>>

RemoveTopology(t, done) ==
    LET d == thread[t].device IN
    /\ At(t, "RemoveTopology") /\ Goto(t, done)
    /\ RemoveCachedSubdevice(thread[t].endpoint, "Topo")
    /\ registered' = UnregisterSubdevice(unknown[d][1])
    /\ unknown' = [unknown EXCEPT ![d] = <<NoSubdevice, NoSubdevice>>]
    /\ UNCHANGED connected

SubdeviceInit ==
    /\ m_SubdeviceCache = {} /\ registered = {} /\ connected = {}
    /\ unknown = [d \in Objects |-> <<NoSubdevice, NoSubdevice>>]
    /\ thread = [t \in Threads |-> Idle]
=============================================================================
