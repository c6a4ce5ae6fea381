--------------------------- MODULE AdapterCommon ----------------------------
(***************************************************************************)
(* The adapter from the load of the driver to its unload (adapter.cpp,     *)
(* common.cpp): StartDevice makes the adapter object, installs its own     *)
(* filters and begins to look for sideband devices; PnpHandler takes all   *)
(* of it back when the device is stopped or removed.                       *)
(***************************************************************************)
EXTENDS SidebandList

CONSTANTS
    RenderEndpoints, CaptureEndpoints   \* g_RenderEndpoints, g_CaptureEndpoints

ASSUME EndpointsAssumption == RenderEndpoints \in Seq(STRING) /\ CaptureEndpoints \in Seq(STRING)

VARIABLES
    driver,             \* "Unloaded", "Loaded"
    g_RegistryPath,     \* its buffer is allocated
    disabled,           \* g_DisableBthScoBypass, g_DisableUsbSideband
    device,             \* the Plug and Play state of the device
    m_AdapterInstances,
    common,             \* the adapter object: "None", "Live", "Released"
    m_pCommon,          \* the device extension holds it
    installed           \* endpoints StartDevice has begun to install

adapterVars == <<driver, g_RegistryPath, disabled, device, m_AdapterInstances,
                 common, m_pCommon, installed>>
driverVars == <<driver, g_RegistryPath, disabled>>
vars == <<subdeviceVars, listVars, adapterVars>>

(***************************************************************************)
(* The driver.                                                             *)
(***************************************************************************)
ReleaseRegistryStringBuffer == g_RegistryPath' = FALSE
CopyRegistrySettingsPath(ok) == g_RegistryPath' = ok
GetRegistrySettings == disabled' \in (IF kind = "Neither" THEN {TRUE} ELSE BOOLEAN)

\* A failure after the path was copied releases it again.
DriverEntry ==
    /\ driver = "Unloaded" /\ GetRegistrySettings
    /\ \/ driver' = "Loaded" /\ CopyRegistrySettingsPath(TRUE)
       \/ FALSE \in Outcome("Setup") /\ driver' = "Unloaded" /\ ReleaseRegistryStringBuffer
    /\ UNCHANGED <<subdeviceVars, listVars, device, m_AdapterInstances, common, m_pCommon, installed>>

DriverUnload ==
    /\ driver = "Loaded" /\ device = "Absent" /\ common = "None" /\ At(Main, "Idle")
    /\ driver' = "Unloaded" /\ ReleaseRegistryStringBuffer
    /\ UNCHANGED <<subdeviceVars, listVars, disabled, device, m_AdapterInstances, common, m_pCommon, installed>>

AddDevice ==
    /\ driver = "Loaded" /\ device = "Absent" /\ At(Main, "Idle") /\ device' = "Added"
    /\ UNCHANGED <<subdeviceVars, listVars, driverVars, m_AdapterInstances, common, m_pCommon, installed>>

(***************************************************************************)
(* StartDevice.                                                            *)
(***************************************************************************)
\* There is one adapter object at a time. Without memory for it the count
\* stays up.
NewAdapterCommon ==
    /\ device \in {"Added", "Stopped"} /\ At(Main, "Idle")
    /\ m_AdapterInstances' = 1
    /\ \/ /\ m_AdapterInstances = 0
          /\ common' = "Live" /\ Goto(Main, "Init") /\ UNCHANGED device
       \/ /\ m_AdapterInstances # 0 \/ FALSE \in Outcome("Memory")
          /\ device' = "Failed" /\ UNCHANGED <<common, thread>>
    /\ UNCHANGED <<listVars, filters, driverVars, m_pCommon, installed>>

\* Init, and the registration for power management.
AdapterInit ==
    /\ At(Main, "Init")
    /\ \E ok \in Outcome("Setup") : Goto(Main, IF ok THEN "Endpoints" ELSE "ExitFailed")
    /\ enableCleanup' = FALSE /\ m_SubdeviceCache' = {} /\ m_PowerRelations' = {} /\ installed' = 0
    /\ UNCHANGED <<external, pnp, notification, workItem, list, object,
                   registered, connected, unknown, driverVars, device, m_AdapterInstances, common, m_pCommon>>

AllEndpoints == RenderEndpoints \o CaptureEndpoints

\* Every endpoint of the adapter has names of its own (minipairs.h), and those
\* of a sideband device are made of its link (CreateFilterNames).
ASSUME NamesAssumption ==
    /\ \A i, j \in DOMAIN AllEndpoints : AllEndpoints[i] = AllEndpoints[j] => i = j
    /\ \A i \in DOMAIN AllEndpoints : AllEndpoints[i] \notin Links

\* The next endpoint, until one fails.
InstallNext ==
    /\ IF installed = Len(AllEndpoints) THEN Goto(Main, "Sideband") /\ UNCHANGED installed
       ELSE /\ installed' = installed + 1
            /\ thread' = [thread EXCEPT ![Main] = [Idle EXCEPT !.at = "Topology",
                                                      !.endpoint = AllEndpoints[installed + 1]]]
    /\ UNCHANGED <<listVars, filters, driverVars,
                   device, m_AdapterInstances, common, m_pCommon>>

InstallAllRenderFilters ==
    At(Main, "Endpoints") /\ installed < Len(RenderEndpoints) /\ InstallNext
InstallAllCaptureFilters ==
    At(Main, "Endpoints") /\ installed >= Len(RenderEndpoints) /\ InstallNext

\* The filters are installed; the interfaces of a render port are then looked
\* at, and the result of the last one counts.
InstallEndpointRenderFilters ==
    /\ At(Main, "Installed") /\ installed <= Len(RenderEndpoints)
    /\ \E ok \in Filtering(Main) : Goto(Main, IF thread[Main].ok /\ ok THEN "Endpoints" ELSE "ExitFailed")
    /\ UNCHANGED <<listVars, filters, adapterVars>>

InstallEndpointCaptureFilters ==
    /\ At(Main, "Installed") /\ installed > Len(RenderEndpoints)
    /\ Goto(Main, IF thread[Main].ok THEN "Endpoints" ELSE "ExitFailed")
    /\ UNCHANGED <<listVars, filters, adapterVars>>

InstallSteps ==
    /\ InstallTopology(Main) \/ InstallWave(Main) \/ InstallConnect(Main, "Installed")
    /\ UNCHANGED <<listVars, adapterVars>>

InitBthScoBypass == kind = "Bth" /\ InitSideband("Exit", "ExitFailed")
InitUsbSideband == kind = "Usb" /\ InitSideband("Exit", "ExitFailed")

StartSideband ==
    /\ At(Main, "Sideband") /\ UNCHANGED adapterVars
    /\ IF disabled THEN Goto(Main, "Exit") /\ UNCHANGED <<listVars, filters>>
       ELSE InitBthScoBypass \/ InitUsbSideband

\* Also after a failure the device extension gets the adapter.
StartDeviceExit ==
    /\ thread[Main].at \in {"Exit", "ExitFailed"}
    /\ device' = IF At(Main, "Exit") THEN "Started" ELSE "Failed"
    /\ m_pCommon' = TRUE /\ thread' = [thread EXCEPT ![Main] = Idle]
    /\ UNCHANGED <<listVars, filters, driverVars,
                   m_AdapterInstances, common, installed>>

StartDevice ==
    \/ NewAdapterCommon \/ AdapterInit \/ InstallAllRenderFilters \/ InstallAllCaptureFilters
    \/ InstallSteps \/ InstallEndpointRenderFilters \/ InstallEndpointCaptureFilters
    \/ StartSideband \/ StartDeviceExit

(***************************************************************************)
(* PnpHandler.                                                             *)
(***************************************************************************)
PnpHandler(next) ==
    /\ device \in {"Started", "Failed", "Stopped"} /\ At(Main, "Idle")
    /\ device' = next /\ next # device
    /\ Goto(Main, IF m_pCommon THEN "Cleanup" ELSE "Dispatch")
    /\ UNCHANGED <<listVars, filters, driverVars,
                   m_AdapterInstances, common, m_pCommon, installed>>

CleanupBthScoBypass == kind = "Bth" /\ CleanupSideband("Empty")
CleanupUsbSideband == kind = "Usb" /\ CleanupSideband("Empty")

\* The sideband devices first, if they were looked for; then the cache.
Cleanup ==
    \/ /\ At(Main, "Cleanup") /\ Goto(Main, IF enableCleanup THEN "Unregister" ELSE "Empty")
       /\ UNCHANGED <<listVars, filters, adapterVars>>
    \/ (CleanupBthScoBypass \/ CleanupUsbSideband) /\ UNCHANGED adapterVars
    \/ /\ At(Main, "Empty") /\ Goto(Main, "Dispatch") /\ EmptySubdeviceCache
       /\ m_pCommon' = FALSE /\ common' = "Released"
       /\ UNCHANGED <<listVars, registered, connected, unknown, driverVars, device, m_AdapterInstances, installed>>

\* The port class driver drops the subdevices.
PcDispatchIrp ==
    /\ At(Main, "Dispatch") /\ thread' = [thread EXCEPT ![Main] = Idle]
    /\ registered' = {} /\ connected' = {}
    /\ UNCHANGED <<listVars, m_SubdeviceCache, unknown, adapterVars>>

\* ~CAdapterCommon, when the port class driver and the miniports have released it.
AdapterDeleted ==
    /\ common = "Released" /\ common' = "None" /\ m_AdapterInstances' = m_AdapterInstances - 1
    /\ UNCHANGED <<subdeviceVars, listVars, driverVars, device, m_pCommon, installed>>

(***************************************************************************)
(* The two copies of the code for sideband devices.                        *)
(***************************************************************************)
BthHfpScoInterfaceArrival == kind = "Bth" /\ (ArrivalCreate \/ ArrivalInsert)
UsbSidebandInterfaceArrival == kind = "Usb" /\ (ArrivalCreate \/ ArrivalInsert)
BthHfpScoInterfaceRemoval == kind = "Bth" /\ (RemovalFind \/ RemovalTask)
UsbSidebandInterfaceRemoval == kind = "Usb" /\ (RemovalFind \/ RemovalTask)
EvtBthHfpScoBypassInterfaceChange(e, l) == kind = "Bth" /\ InterfaceChange(e, l)
EvtUsbSidebandInterfaceChange(e, l) == kind = "Usb" /\ InterfaceChange(e, l)
EvtBthHfpScoBypassInterfaceWorkItem(t) == kind = "Bth" /\ InterfaceWorkItem(t)
EvtUsbSidebandInterfaceWorkItem(t) == kind = "Usb" /\ InterfaceWorkItem(t)

Notify(e, l) ==
    /\ EvtBthHfpScoBypassInterfaceChange(e, l) \/ EvtUsbSidebandInterfaceChange(e, l)
    /\ UNCHANGED adapterVars
Notified ==
    /\ \/ BthHfpScoInterfaceArrival \/ UsbSidebandInterfaceArrival
       \/ BthHfpScoInterfaceRemoval \/ UsbSidebandInterfaceRemoval
    /\ UNCHANGED adapterVars
Working(t) ==
    /\ EvtBthHfpScoBypassInterfaceWorkItem(t) \/ EvtUsbSidebandInterfaceWorkItem(t)
    /\ UNCHANGED adapterVars
Removing == Cleanup \/ PcDispatchIrp

Next ==
    \/ DriverEntry \/ DriverUnload \/ AddDevice \/ StartDevice \/ AdapterDeleted
    \/ PnpHandler("Stopped") \/ PnpHandler("Absent") \/ Removing
    \/ Notified \/ \E t \in Callbacks : Working(t)
    \/ \E l \in Links, e \in {"Arrival", "Removal"} : Notify(e, l)

Init ==
    /\ SubdeviceInit /\ SidebandListInit
    /\ driver = "Unloaded" /\ g_RegistryPath = FALSE /\ disabled = FALSE /\ device = "Absent"
    /\ m_AdapterInstances = 0 /\ common = "None" /\ m_pCommon = FALSE /\ installed = 0

\* Work that has begun goes on: the notification callback, the callbacks of
\* the work item, a removal. Nobody need load, start or stop anything.
Fairness == WF_vars(Notified) /\ WF_vars(Removing) /\ \A t \in Callbacks : WF_vars(Working(t))

Spec == Init /\ [][Next]_vars /\ Fairness

(***************************************************************************)
(* Properties.                                                             *)
(***************************************************************************)
Listed(d) == \E i \in DOMAIN m_Devices : m_Devices[i] = d
SingleCallback == Concurrent = {1}
Held(b) == IF b THEN 1 ELSE 0
TasksFor(d) == {i \in DOMAIN m_WorkTasks : m_WorkTasks[i].device = d}
ThreadsFor(d) == {t \in Threads : thread[t].device = d}

\* The reference count of a device is the number of its holders: the list,
\* each task for it, each thread that runs one, the notification callback. A
\* device is deleted exactly when nobody holds it ("For a stop operation this
\* may be the last reference", EvtBthHfpScoBypassInterfaceWorkItem).
RefsExact ==
    \A d \in Objects :
        /\ object[d].refs = Held(Listed(d)) + Held(pnp.device = d)
             + Cardinality(TasksFor(d)) + Cardinality(ThreadsFor(d))
        /\ object[d].refs = 0 <=> object[d].m_State \in {"Unused", "Deleted"}

\* However often an interface is reported, the list has one device for it
\* ("it is possible to receive two notifications for the same interface").
OnePerLink ==
    \A i, j \in DOMAIN m_Devices :
        object[m_Devices[i]].link = object[m_Devices[j]].link => i = j

\* When Cleanup is done nothing of the sideband devices is left, whatever
\* failed and whatever was under way: no device, no task, no callback, no
\* filter, no power dependency.
CleanIsEmpty ==
    common # "Live" =>
        /\ \A d \in Objects : object[d].m_State \in {"Unused", "Deleted"}
        /\ m_WorkTasks = <<>> /\ workItem = "None" /\ pnp.at = "Idle"
        /\ m_SubdeviceCache = {} /\ m_PowerRelations = {}

\* A filter in the cache can be used: it is registered, and the device it was
\* made for lives. (Where the work item runs one callback at a time.)
CacheLive ==
    SingleCallback => \A s \in m_SubdeviceCache :
        /\ s \in registered
        /\ s.owner # Adapter => object[s.owner].m_State \notin {"Stopped", "Deleted"}

\* A device that is deleted leaves no filter behind, and no connection to one.
\* (Where the work item runs one callback at a time.)
DeletedIsGone ==
    SingleCallback => /\ \A s \in registered : s.owner # Adapter => object[s.owner].m_State # "Deleted"
                   /\ \A c \in connected : c[1] \in registered /\ c[2] \in registered

\* The power dependencies are those of physical devices in use.
DependenciesLive ==
    \A e \in m_PowerRelations : object[e.of].m_State # "Deleted"

(***************************************************************************)
(* The inductive invariant of the references. RefsExact rests on who may   *)
(* change the list and when: the notification callback, of which there is  *)
(* one at a time, and Cleanup, which has then waited for it and for the    *)
(* work item.                                                              *)
(***************************************************************************)
\* Places of the thread that runs StartDevice and PnpHandler.
Starting == {"Init", "Endpoints", "Topology", "Wave", "Connect", "Installed", "Sideband"}
Removal == {"Disconnect", "RemoveWave", "RemoveTopology", "Release"}
Stopping == {"StopAll"} \cup Removal
Flushing == {"Flush"} \cup Stopping
Awaiting == {"Await"} \cup Flushing
Cleaning == {"Cleanup", "Unregister", "Empty"} \cup Awaiting

Places == {"Idle", "Take", "Exit", "ExitFailed", "Dispatch"} \cup Starting \cup Cleaning

Names == {"None"} \cup Links \cup {AllEndpoints[i] : i \in 1 .. Len(AllEndpoints)}
Owners == Objects \cup {Adapter}
Subs == [endpoint : Names, part : {"Topo", "Wave", "None"}, owner : Owners]
Tasks == [device : Objects, action : {"Start", "Stop"}]
States == {"Unused", "Running", "Stopping", "Stopped", "Failed", "Deleted"}
ListTypes ==
    /\ m_Devices \in Seq(Objects) /\ m_WorkTasks \in Seq(Tasks)
    /\ object \in [Objects -> [link : Names, m_State : States, refs : Nat]]
    /\ pnp \in [at : {"Idle", "Arrival", "Insert", "Removal", "Remove"}, link : Names, device : Owners]
    /\ m_PowerRelations \subseteq [pdo : Names, of : Objects]
FilterTypes ==
    /\ m_SubdeviceCache \subseteq Subs /\ registered \subseteq Subs
    /\ connected \subseteq Subs \X Subs /\ unknown \in [Objects -> Subs \X Subs]
    /\ thread \in [Threads -> [at : Places, device : Owners, action : {"None", "Start", "Stop"},
                               endpoint : Names, topo : Subs, wave : Subs, made : SUBSET Subs,
                               ok : BOOLEAN]]
    /\ installed \in 0 .. Len(AllEndpoints)

\* There is nothing of the sideband devices.
Quiet ==
    /\ ~notification /\ pnp.at = "Idle" /\ workItem = "None"
    /\ m_Devices = <<>> /\ m_WorkTasks = <<>> /\ \A t \in Callbacks : At(t, "Idle")

\* A thread works for a device exactly while it runs a task for it.
ThreadPlaces ==
    /\ thread[Main].at \in {"Idle", "Exit", "ExitFailed", "Dispatch"} \cup Starting \cup Cleaning
    /\ thread[Main].device # Adapter <=> thread[Main].at \in Removal
    /\ \A t \in Callbacks :
         /\ thread[t].at \in {"Idle", "Take", "Topology", "Wave", "Connect"} \cup Removal
         /\ thread[t].device = Adapter <=> thread[t].at \in {"Idle", "Take"}

\* The adapter object lives from StartDevice to the end of Cleanup.
AdapterLives ==
    /\ common # "None" => m_AdapterInstances = 1
    /\ m_pCommon => common = "Live"
    /\ thread[Main].at \in Starting \cup Cleaning \cup {"Exit", "ExitFailed"} => common = "Live"
    /\ At(Main, "Idle") /\ common = "Live" => m_pCommon
    /\ At(Main, "Dispatch") => common # "Live"
    /\ common # "Live" => m_SubdeviceCache = {}

\* What Cleanup has waited for does not begin again.
CleanupWaits ==
    /\ thread[Main].at \in Awaiting => ~notification
    /\ thread[Main].at \in Flushing => pnp.at = "Idle"
    /\ thread[Main].at \in Stopping =>
         workItem = "None" /\ m_WorkTasks = <<>> /\ \A t \in Callbacks : At(t, "Idle")
    /\ common # "Live" \/ ~enableCleanup \/ thread[Main].at \in Starting \cup {"Empty"} => Quiet

\* A task has a callback to come or under way.
TasksServed == m_WorkTasks # <<>> => workItem = "Enqueued" \/ \E t \in Callbacks : ~At(t, "Idle")

\* A device is in the list once, and the notification callback inserts only
\* one that is not in it and removes one that is.
ListSound ==
    /\ \A i, j \in DOMAIN m_Devices : m_Devices[i] = m_Devices[j] => i = j
    /\ pnp.device # Adapter <=> pnp.at \in {"Insert", "Remove"}
    /\ pnp.at = "Insert" => /\ ~Listed(pnp.device) /\ object[pnp.device].link = pnp.link
                            /\ DeviceFind(pnp.link) = {}
    /\ pnp.at = "Remove" => Listed(pnp.device)

\* A power dependency is of a device that has references left.
DependenciesHeld ==
    /\ \A e \in m_PowerRelations : object[e.of].refs # 0 /\ object[e.of].link = e.pdo
    /\ kind # "Usb" => m_PowerRelations = {}

ListInv == ListTypes /\ ListSound /\ OnePerLink /\ DependenciesHeld /\ RefsExact
ControlInv == FilterTypes /\ ThreadPlaces /\ AdapterLives /\ CleanupWaits /\ TasksServed
RefsInv == ListInv /\ ControlInv

(***************************************************************************)
(* The inductive invariant of the filters, where the work item runs one    *)
(* callback at a time. That a device finds no filter of an earlier one of  *)
(* the same link rests on the order of the tasks: the stop of the earlier  *)
(* device is taken before the start of the later one.                      *)
(***************************************************************************)
Queued(d, a) == \E i \in DOMAIN m_WorkTasks : m_WorkTasks[i].device = d /\ m_WorkTasks[i].action = a
Runs(d, a) == \E t \in Threads : thread[t].device = d /\ thread[t].action = a
ToStop(d) == Queued(d, "Stop") \/ Runs(d, "Stop")

\* A device that has filters, gets them, or is going to get them.
Bare(d) == unknown[d] = <<NoSubdevice, NoSubdevice>>
InUse(d) == ~Bare(d) \/ Queued(d, "Start") \/ Runs(d, "Start")

Installing == {"Topology", "Wave", "Connect"}
RemovingFilters == {"Disconnect", "RemoveWave", "RemoveTopology"}

\* What a thread does for a device is what its task says.
ThreadTasks ==
    /\ \A t \in Callbacks : t = 1 \/ At(t, "Idle")
    /\ \A t \in Threads : thread[t].device \in Objects =>
         /\ thread[t].action # "None"
         /\ thread[t].at \in Installing => thread[t].action = "Start" /\ Bare(thread[t].device)
         /\ thread[t].at \in RemovingFilters => thread[t].action = "Stop"
         /\ thread[t].at = "Release" /\ thread[t].action = "Stop" => Bare(thread[t].device)
         /\ thread[t].at # "Release" => thread[t].endpoint = object[thread[t].device].link
    /\ thread[Main].at \in Installing => installed > 0 /\ thread[Main].endpoint = AllEndpoints[installed]
    /\ \A d \in Objects : object[d].m_State # "Unused" => object[d].link \in Links

\* A device is started once, before it is stopped, and does not leave the list
\* without a task that stops it.
TasksInOrder ==
    /\ \A i \in DOMAIN m_WorkTasks : m_WorkTasks[i].action = "Start" =>
         /\ Bare(m_WorkTasks[i].device) /\ \A t \in Threads : thread[t].device # m_WorkTasks[i].device
         /\ \A j \in 1 .. i - 1 : m_WorkTasks[j].device # m_WorkTasks[i].device
    /\ pnp.at # "Idle" => pnp.link \in Links
    /\ pnp.at = "Insert" =>
         /\ ~InUse(pnp.device) /\ ~ToStop(pnp.device) /\ object[pnp.device].m_State # "Stopped"
    /\ \A d \in Objects : InUse(d) => (Listed(d) \/ ToStop(d)) /\ object[d].m_State # "Stopped"

\* A device of the same link that got or gets filters first, is stopped before
\* the next one is started.
StopComesFirst ==
    \A j \in DOMAIN m_WorkTasks : \A d \in Objects \ {m_WorkTasks[j].device} :
        /\ m_WorkTasks[j].action = "Start" /\ object[d].link = object[m_WorkTasks[j].device].link
        /\ ~Bare(d) \/ Runs(d, "Start") \/ \E k \in 1 .. j - 1 : m_WorkTasks[k].device = d
        => Runs(d, "Stop") \/ \E i \in 1 .. j - 1 : m_WorkTasks[i] = [device |-> d, action |-> "Stop"]

\* A filter that is registered is one its owner knows of.
RegisteredKnown ==
    /\ m_SubdeviceCache \subseteq registered
    /\ \A s \in registered :
         /\ s.part # "None"
         /\ s.owner = Adapter => \E i \in 1 .. installed : s.endpoint = AllEndpoints[i]
         /\ s.owner # Adapter =>
              /\ s.endpoint = object[s.owner].link
              /\ \/ s = unknown[s.owner][1] \/ s = unknown[s.owner][2]
                 \/ \E t \in Threads : thread[t].device = s.owner /\ s \in thread[t].made
    /\ \A d \in Objects :
         /\ unknown[d][1] \in {NoSubdevice, Subdevice(object[d].link, "Topo", d)}
         /\ unknown[d][2] \in {NoSubdevice, Subdevice(object[d].link, "Wave", d)}

\* A thread that installs filters has made all there are of the name.
MadeAlone ==
    \A t \in Threads :
        LET i == thread[t] IN
        /\ i.at \notin {"Wave", "Connect"} => i.made = {}
        /\ i.at \in Installing => \A s \in registered : s.endpoint = i.endpoint => s \in i.made
        /\ i.made \subseteq registered
        /\ i.at = "Wave" => i.made \subseteq {i.topo}
        /\ i.at = "Connect" => i.made \subseteq {i.topo, i.wave}
        /\ \A s \in i.made : s.endpoint = i.endpoint /\ s.owner = i.device
                             /\ (i.at = "Wave" => s.part = "Topo")
        /\ i.at \in {"Wave", "Connect"} =>
             i.topo = NoSubdevice \/ (i.topo \in i.made /\ i.topo.part = "Topo")
        /\ i.at = "Connect" =>
             /\ i.wave = NoSubdevice \/ (i.wave \in i.made /\ i.wave.part = "Wave")
             /\ i.ok => i.wave # NoSubdevice

\* A connection is one of the owner's pair of filters, made after the filters
\* and taken back before them.
ConnectedKnown ==
    \A c \in connected :
        /\ c[1] \in registered /\ c[2] \in registered
        /\ c[1].owner = c[2].owner /\ c[1].endpoint = c[2].endpoint
        /\ c[1].owner # Adapter => c = unknown[c[1].owner]
        /\ \A t \in Threads :
             /\ thread[t].at \in Installing => c[1].endpoint # thread[t].endpoint
             /\ thread[t].at \in {"RemoveWave", "RemoveTopology"} => c # unknown[thread[t].device]

\* The wave filter goes before the topology filter.
WaveGone ==
    \A t \in Threads : At(t, "RemoveTopology") => unknown[thread[t].device][2] \notin registered

\* The port class driver has no filters but those of the adapter object.
NothingLeft ==
    At(Main, "Init") \/ (common # "Live" /\ ~At(Main, "Dispatch")) => registered = {} /\ connected = {}

QueueInv == SingleCallback => ThreadTasks /\ TasksInOrder /\ StopComesFirst
FilterInv == SingleCallback => RegisteredKnown /\ MadeAlone /\ ConnectedKnown /\ WaveGone /\ NothingLeft

\* A device that has left the list is deleted in the end.
Leaves == \A d \in Objects : (object[d].refs > 0 /\ ~Listed(d)) ~> (object[d].m_State = "Deleted" \/ Listed(d))

\* A removal or a stop of the adapter ends, whatever the notification
\* callback and the work item are doing.
RemovalEnds == (thread[Main].at \in {"Cleanup", "Unregister", "Await", "Flush", "StopAll"}) ~> At(Main, "Idle")
=============================================================================
