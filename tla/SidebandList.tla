---------------------------- MODULE SidebandList ----------------------------
(***************************************************************************)
(* The adapter's list of sideband devices (common.cpp). The Plug and Play  *)
(* manager (external) reports interfaces that come and go; a callback of   *)
(* the driver makes or finds the device object, changes the list and       *)
(* queues a task; a work item runs the tasks, which start and stop the     *)
(* device. The code is there twice, for Bluetooth and for USB, word for    *)
(* word the same but for the power dependency of a USB device.             *)
(*                                                                         *)
(* A device object is counted: the list, a task, a callback that runs a    *)
(* task and the notification callback hold references to it.               *)
(***************************************************************************)
EXTENDS Subdevices

CONSTANTS
    Cases,          \* the cases looked at: the kind of device, and what may fail
    Links           \* symbolic links of interfaces

VARIABLES
    kind,               \* which of the two lists is looked at: "Bth", "Usb", "Neither"
    pnp,                \* where the notification callback is
    notification,       \* the notification is registered
    enableCleanup,      \* m_BthHfpEnableCleanup, m_UsbSidebandEnableCleanup
    workItem,           \* "None", "Created", or "Enqueued"
    m_Devices, m_WorkTasks,
    object,             \* [link, m_State, refs] of each device object
    m_PowerRelations    \* entries [pdo, of]: power dependencies, for USB

external == <<kind, failing>>
list == <<m_Devices, m_WorkTasks>>
listVars == <<external, pnp, notification, enableCleanup, workItem,
              m_Devices, m_WorkTasks, object, m_PowerRelations>>

NoNotice == [at |-> "Idle", link |-> "None", device |-> Adapter]
Unused == [link |-> "None", m_State |-> "Unused", refs |-> 0]

(***************************************************************************)
(* References.                                                             *)
(***************************************************************************)
AddDeviceAsPowerDependency(d, l, ok) ==
    m_PowerRelations' = IF ok THEN m_PowerRelations \cup {[pdo |-> l, of |-> d]} ELSE m_PowerRelations

\* Every entry for the physical device is removed.
RemoveDeviceAsPowerDependency(l) ==
    m_PowerRelations' = {e \in m_PowerRelations : e.pdo # l}

\* The last reference deletes the object.
Release(d) ==
    IF object[d].refs = 1
    THEN /\ object' = [object EXCEPT ![d].refs = 0, ![d].m_State = "Deleted"]
         /\ IF kind = "Usb" THEN RemoveDeviceAsPowerDependency(object[d].link)
            ELSE UNCHANGED m_PowerRelations
    ELSE /\ object' = [object EXCEPT ![d].refs = @ - 1]
         /\ UNCHANGED m_PowerRelations

\* The device leaves the list it is in.
RemoveEntryList(d) ==
    \E i \in DOMAIN m_Devices :
        /\ m_Devices[i] = d
        /\ m_Devices' = SubSeq(m_Devices, 1, i - 1) \o SubSeq(m_Devices, i + 1, Len(m_Devices))

DeviceFind(l) == {d \in Objects : object[d].link = l /\ \E i \in DOMAIN m_Devices : m_Devices[i] = d}

(***************************************************************************)
(* The Plug and Play manager calls the notification callback, once at a    *)
(* time. An arrival may be reported twice, and a removal of an interface   *)
(* the driver does not know.                                               *)
(***************************************************************************)
InterfaceChange(event, l) ==
    /\ notification /\ pnp.at = "Idle"
    /\ pnp' = [NoNotice EXCEPT !.at = event, !.link = l]
    /\ UNCHANGED <<subdeviceVars, external, notification, enableCleanup, workItem, list,
                   object, m_PowerRelations>>

(***************************************************************************)
(* An interface arrived.                                                   *)
(***************************************************************************)
\* A device that is there already is left alone. Otherwise an object is made
\* and initialised, if there is memory for it; a failure releases it. (Objects
\* bounds the devices that are ever made.)
ArrivalCreate ==
    /\ pnp.at = "Arrival"
    /\ \/ /\ DeviceFind(pnp.link) # {}
          /\ pnp' = NoNotice /\ UNCHANGED <<object, m_PowerRelations>>
       \/ /\ DeviceFind(pnp.link) = {}
          /\ FALSE \in Outcome("Memory") \/ \A d \in Objects : object[d] # Unused
          /\ pnp' = NoNotice /\ UNCHANGED <<object, m_PowerRelations>>
       \/ /\ DeviceFind(pnp.link) = {}
          /\ \E new \in Objects :
               /\ object[new] = Unused /\ \A e \in Objects : object[e] = Unused => new <= e
               /\ pnp' = [pnp EXCEPT !.at = "Insert", !.device = new]
               /\ object' = [object EXCEPT ![new] =
                    [link |-> pnp.link, m_State |-> "Running", refs |-> 1]]
               /\ \E ok \in Outcome("Memory") : IF kind = "Usb"
                    THEN AddDeviceAsPowerDependency(new, pnp.link, ok)
                    ELSE UNCHANGED m_PowerRelations
    /\ UNCHANGED <<subdeviceVars, external, notification, enableCleanup, workItem, list>>

\* Mutant: the task holds no reference of its own.
ArrivalInsertUncounted ==
    LET d == pnp.device IN
    /\ pnp.at = "Insert" /\ pnp' = NoNotice
    /\ m_Devices' = Append(m_Devices, d)
    /\ m_WorkTasks' = Append(m_WorkTasks, [device |-> d, action |-> "Start"])
    /\ workItem' = "Enqueued"
    /\ UNCHANGED <<subdeviceVars, external, notification, enableCleanup, object, m_PowerRelations>>

\* Under the mutex the device and a task are inserted and the work item is
\* enqueued; without memory for the task the device is released.
ArrivalInsert ==
    LET d == pnp.device IN
    /\ pnp.at = "Insert" /\ pnp' = NoNotice
    /\ \/ /\ m_Devices' = Append(m_Devices, d)
          /\ m_WorkTasks' = Append(m_WorkTasks, [device |-> d, action |-> "Start"])
          /\ object' = [object EXCEPT ![d].refs = @ + 1]
          /\ workItem' = "Enqueued" /\ UNCHANGED m_PowerRelations
       \/ FALSE \in Outcome("Memory") /\ Release(d) /\ UNCHANGED <<list, workItem>>
    /\ UNCHANGED <<subdeviceVars, external, notification, enableCleanup>>

(***************************************************************************)
(* An interface was removed.                                               *)
(***************************************************************************)
RemovalFind ==
    /\ pnp.at = "Removal"
    /\ \/ DeviceFind(pnp.link) = {} /\ pnp' = NoNotice /\ UNCHANGED object
       \/ \E d \in DeviceFind(pnp.link) :
            /\ pnp' = [pnp EXCEPT !.at = "Remove", !.device = d]
            /\ object' = [object EXCEPT ![d].refs = @ + 1]
    /\ UNCHANGED <<subdeviceVars, external, notification, enableCleanup, workItem, list,
                   m_PowerRelations>>

\* Mutant: the work item is not enqueued for the new task.
RemovalTaskSilent ==
    LET d == pnp.device IN
    /\ pnp.at = "Remove" /\ pnp' = NoNotice /\ Release(d)
    /\ RemoveEntryList(d)
    /\ m_WorkTasks' = Append(m_WorkTasks, [device |-> d, action |-> "Stop"])
    /\ UNCHANGED <<subdeviceVars, external, notification, enableCleanup, workItem>>

\* The device leaves the list, whose reference is released; the task takes
\* over the reference of the callback. Without memory for the task the device
\* stays in the list.
RemovalTask ==
    LET d == pnp.device IN
    /\ pnp.at = "Remove" /\ pnp' = NoNotice
    /\ Release(d)
    /\ \/ /\ RemoveEntryList(d)
          /\ m_WorkTasks' = Append(m_WorkTasks, [device |-> d, action |-> "Stop"])
          /\ workItem' = "Enqueued"
       \/ FALSE \in Outcome("Memory") /\ UNCHANGED <<list, workItem>>
    /\ UNCHANGED <<subdeviceVars, external, notification, enableCleanup>>

(***************************************************************************)
(* The work item. It is enqueued again while a callback runs, and then a   *)
(* second callback may run beside the first.                               *)
(***************************************************************************)
\* A bound: two callbacks run at a time only where no call fails.
Concurrent == IF failing = "None" THEN Callbacks ELSE {1}

CallbackBegins(t) ==
    /\ workItem = "Enqueued" /\ t \in Concurrent /\ At(t, "Idle") /\ \A u \in Callbacks : u < t => ~At(u, "Idle")
    /\ workItem' = "Created" /\ Goto(t, "Take")
    /\ UNCHANGED <<external, pnp, notification, enableCleanup, list, object,
                   m_PowerRelations, filters>>

\* Under the mutex the oldest task is taken, or the callback ends.
TakeTask(t) ==
    /\ At(t, "Take")
    /\ IF m_WorkTasks = <<>>
       THEN thread' = [thread EXCEPT ![t] = Idle] /\ UNCHANGED <<m_WorkTasks, object>>
       ELSE LET task == Head(m_WorkTasks) IN
            /\ m_WorkTasks' = Tail(m_WorkTasks)
            /\ thread' = [thread EXCEPT ![t] = [Idle EXCEPT
                 !.at = IF task.action = "Start" THEN "Topology" ELSE "Disconnect",
                 !.device = task.device, !.action = task.action,
                 !.endpoint = object[task.device].link]]
            /\ object' = IF task.action = "Start" THEN object
                         ELSE [object EXCEPT ![task.device].m_State = "Stopping"]
    /\ UNCHANGED <<external, pnp, notification, enableCleanup, workItem, m_Devices,
                   m_PowerRelations, filters>>

\* Start fails before it installs its filters, or installs them (Subdevices).
StartFails(t) ==
    /\ FALSE \in Outcome("Filters")
    /\ At(t, "Topology") /\ thread' = [thread EXCEPT ![t].at = "Release", ![t].ok = FALSE]
    /\ UNCHANGED <<listVars, filters>>

\* Start or Stop is done and the reference of the task is released.
ReleaseTask(t, next) ==
    LET d == thread[t].device
        state == IF thread[t].action = "Stop" THEN "Stopped"
                 ELSE IF thread[t].ok THEN object[d].m_State ELSE "Failed"
    IN  /\ At(t, "Release")
        /\ IF object[d].refs = 1 THEN Release(d)
           ELSE /\ object' = [object EXCEPT ![d].refs = @ - 1, ![d].m_State = state]
                /\ UNCHANGED m_PowerRelations
        /\ thread' = [thread EXCEPT ![t] = [Idle EXCEPT !.at = next]]
        /\ UNCHANGED <<external, pnp, notification, enableCleanup, workItem, list, filters>>

InterfaceWorkItem(t) ==
    \/ CallbackBegins(t) \/ TakeTask(t) \/ StartFails(t) \/ ReleaseTask(t, "Take")
    \/ /\ \/ InstallTopology(t) \/ InstallWave(t) \/ InstallConnect(t, "Release")
          \/ RemoveDisconnect(t, "Release") \/ RemoveWave(t) \/ RemoveTopology(t, "Release")
       /\ UNCHANGED listVars

(***************************************************************************)
(* Init and Cleanup, called by StartDevice and PnpHandler.                 *)
(***************************************************************************)
\* Cleanup is enabled before anything that can fail.
InitSideband(next, failed) ==
    /\ enableCleanup' = TRUE /\ m_Devices' = <<>> /\ m_WorkTasks' = <<>>
    /\ \/ /\ Goto(Main, next) /\ workItem' = "Created" /\ notification' = TRUE
       \/ /\ FALSE \in Outcome("Setup") /\ Goto(Main, failed) /\ workItem' \in {"None", "Created"}
          /\ UNCHANGED notification
    /\ UNCHANGED <<external, pnp, object, m_PowerRelations,
                   filters>>

\* Mutant: the callback is waited for first, and then no more are delivered.
CleanupUnregisterLate ==
    /\ \/ At(Main, "Unregister") /\ Goto(Main, "Await") /\ UNCHANGED notification
       \/ At(Main, "Await") /\ pnp.at = "Idle" /\ Goto(Main, "Flush") /\ notification' = FALSE
    /\ UNCHANGED <<external, pnp, enableCleanup, workItem, list, object, m_PowerRelations,
                   filters>>

\* No notification is delivered any more, and a notification callback that
\* runs is waited for.
CleanupUnregister ==
    /\ \/ At(Main, "Unregister") /\ Goto(Main, "Await")
       \/ At(Main, "Await") /\ pnp.at = "Idle" /\ Goto(Main, "Flush")
    /\ notification' = FALSE
    /\ UNCHANGED <<external, pnp, enableCleanup, workItem, list, object, m_PowerRelations,
                   filters>>

\* Mutant: Cleanup goes on while the work item is under way.
CleanupFlushNot ==
    /\ At(Main, "Flush") /\ Goto(Main, "StopAll") /\ workItem' = "None"
    /\ UNCHANGED <<external, pnp, notification, enableCleanup, list, object,
                   m_PowerRelations, filters>>

\* Waits for the work item.
CleanupFlush ==
    /\ At(Main, "Flush") /\ workItem # "Enqueued" /\ \A t \in Callbacks : At(t, "Idle")
    /\ Goto(Main, "StopAll") /\ workItem' = "None"
    /\ UNCHANGED <<external, pnp, notification, enableCleanup, list, object,
                   m_PowerRelations, filters>>

\* The devices that are left are stopped and released one by one.
CleanupStop(next) ==
    /\ At(Main, "StopAll")
    /\ IF m_Devices = <<>> THEN Goto(Main, next) /\ UNCHANGED <<m_Devices, object>>
       ELSE LET d == Head(m_Devices) IN
            /\ m_Devices' = Tail(m_Devices)
            /\ object' = [object EXCEPT ![d].m_State = "Stopping"]
            /\ thread' = [thread EXCEPT ![Main] = [Idle EXCEPT !.at = "Disconnect",
                 !.device = d, !.action = "Stop", !.endpoint = object[d].link]]
    /\ UNCHANGED <<external, pnp, notification, enableCleanup, workItem, m_WorkTasks,
                   m_PowerRelations, filters>>

CleanupSideband(next) ==
    \/ CleanupUnregister \/ CleanupFlush \/ CleanupStop(next) \/ ReleaseTask(Main, "StopAll")
    \/ /\ RemoveDisconnect(Main, "Release") \/ RemoveWave(Main) \/ RemoveTopology(Main, "Release")
       /\ UNCHANGED listVars

SidebandListInit ==
    /\ \E c \in Cases : kind = c.kind /\ failing = c.failing
    /\ pnp = NoNotice
    /\ notification = FALSE /\ enableCleanup = FALSE /\ workItem = "None"
    /\ m_Devices = <<>> /\ m_WorkTasks = <<>> /\ object = [d \in Objects |-> Unused]
    /\ m_PowerRelations = {}
=============================================================================
