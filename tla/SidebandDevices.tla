-------------------------- MODULE SidebandDevices ---------------------------
(***************************************************************************)
(* One sideband device of either kind, from its creation to its            *)
(* destruction, with the threads that use it.                              *)
(***************************************************************************)
EXTENDS BthHfpDevice, UsbHsDevice

CONSTANT
    Cases           \* the devices looked at and what goes on with each:
                    \* [kind: {"Bth", "Usb"}, descriptor, use]

ASSUME CasesAssumption ==
    \A c \in Cases : c.kind \in {"Bth", "Usb"} /\ c.descriptor.endpoints \in Seq(Devices)

VARIABLE kind

vars == <<kind, sidebandVars, bthVars, usbVars>>

Init ==
    /\ \E c \in Cases : kind = c.kind /\ descriptor = c.descriptor /\ use = c.use
    /\ SidebandInit /\ BthHfpSpecInit /\ UsbHsSpecInit

\* The object is gone.
Gone == life = "Deleted" /\ UNCHANGED vars

\* A step of the code for one kind of device.
Bth(Step) == kind = "Bth" /\ Step /\ UNCHANGED <<kind, usbVars>>
Usb(Step) == kind = "Usb" /\ Step /\ UNCHANGED <<kind, bthVars>>

Next == Bth(BthHfpNext) \/ Usb(UsbHsNext) \/ Gone

(***************************************************************************)
(* Fairness. A Stop that has begun, a call that has begun and the work     *)
(* item run on. The lower driver completes a request that is cancelled, by *)
(* its caller or by a purge; a synchronous request ends within its         *)
(* timeout. It need not complete any other request, the miniports need not *)
(* call, and the adapter need not start or stop the device.                *)
(***************************************************************************)
StopRuns == life # "Started" /\ (Bth(BthHfpStopping) \/ Usb(UsbHsStopping))
CallRuns(d) == Bth(BthHfpCall(d)) \/ Usb(UsbHsCall(d))
WorkRuns ==
    \E w \in Workers :
        \/ WdfWorkItemRun(w) /\ UNCHANGED <<kind, bthVars, usbVars>>
        \/ Bth(EvtBthHfpDeviceNotificationStatusWorkItem(w))
        \/ Usb(EvtUsbHsDeviceNotificationStatusWorkItem(w))
CancelRuns(d) ==
    \/ Cancelled("Stream") /\ Bth(EvtBthHfpDeviceStreamStatusCompletion)
    \/ Cancelled(StreamOf(d)) /\ Usb(EvtUsbHsDeviceStreamStatusCompletion(d))
PurgeRuns ==
    \E r \in Notifications :
        /\ Cancelled(r)
        /\ \/ Bth(EvtBthHfpDeviceNotificationStatusCompletion(r))
           \/ Usb(EvtUsbHsDeviceNotificationStatusCompletion(r))

Fairness ==
    /\ WF_vars(StopRuns) /\ WF_vars(WorkRuns) /\ WF_vars(PurgeRuns)
    /\ \A d \in Devices : WF_vars(CallRuns(d)) /\ WF_vars(CancelRuns(d))

Spec == Init /\ [][Next]_vars /\ Fairness

(***************************************************************************)
(* Properties.                                                             *)
(***************************************************************************)
InStreamCall(d) == call[d].at \notin {"Idle", "GotVolume"}

\* Type correctness: also, a request is in the collection exactly when its
\* state says so, at most once, and a running callback holds the request it
\* works on alone.
TypeOK ==
    /\ m_State \in {"Invalid", "Initializing", "Running", "Failed", "Stopping", "Stopped"}
    /\ filters \subseteq Devices
    /\ target \in {"Closed", "Open", "Purging", "Purged"}
    /\ request \in [Requests -> {"None", "Ready", "Sent", "Cancelling", "Done", "Collected", "Taken", "Refused"}]
    /\ errors \in [Notifications -> 0..MaxErrors + 1]
    /\ life # "Deleted" => \A r \in Notifications :
        /\ (request[r] = "Collected") <=> \E i \in DOMAIN m_ReqCollection : m_ReqCollection[i] = r
        /\ (request[r] = "Taken") <=> \E w \in Workers : worker[w].req = r
    /\ \A i, j \in DOMAIN m_ReqCollection : m_ReqCollection[i] = m_ReqCollection[j] => i = j
    /\ m_nStreams \in 0..2 * MaxStreams

\* When Stop has returned "there are no more async notifications pending"
\* (BthHfpDevice::Stop, UsbHsDevice::Stop): no request is at the lower
\* driver, the work item neither runs nor will run, and no filter is left.
StoppedIsQuiet ==
    m_State = "Stopped" =>
        /\ \A r \in Requests : ~Pending(r)
        /\ WdfWorkItemFlushed /\ filters = {}

\* The work item calls a handler only while the filter it belongs to is
\* installed: neither Stop nor a Start that failed half way pulls a miniport
\* from under a callback that runs.
CallbackSafe == \A w \in Workers : worker[w].to \subseteq filters

\* A completed notification request is not forgotten: while one is in the
\* collection, the work item is enqueued or one of its callbacks runs. The
\* exception is a request that could not be sent again: the callback that
\* meets it leaves the others in the collection.
CollectedIsServed ==
    m_ReqCollection # <<>> =>
        \/ enqueued \/ \E w \in Workers : worker[w].at # "Idle"
        \/ \E r \in Notifications : request[r] = "Refused"

\* m_nStreams counts the streams of both filters that run or are being
\* started, whatever fails and however the calls of the filters interleave.
StreamsCounted ==
    /\ m_nStreams = running["Speaker"] + running["Mic"]
         + Cardinality({d \in Devices : kind = "Bth" /\ call[d].at \in {"Open", "Enable", "Undo"}})
    /\ \A d \in Devices :
        /\ m_nStreamsOpen[d] = held[d] +
             (IF kind = "Usb" /\ call[d].at \in {"Open", "Enable", "Undo"} THEN 1 ELSE 0)
        /\ m_nStreamsStart[d] = playing[d] +
             (IF call[d].at \in {"SetResources", "Start", "GetResources", "UndoStart"} THEN 1 ELSE 0)

\* Between calls, the state of a stream agrees with the count of its users:
\* unused, it is invalid and its request can be sent again; a USB endpoint
\* holds transport resources exactly while a stream of it is started. (For
\* Bluetooth, as long as calls of the two filters have not overlapped.)
StreamAgrees ==
    /\ kind = "Bth" /\ ~overlapped /\ m_nStreams = 0 /\ m_State # "Invalid"
         /\ (\A d \in Devices : ~InStreamCall(d))
       => status["Stream"] = "Invalid" /\ request["Stream"] \in {"None", "Ready"}
    /\ \A d \in Devices : kind = "Usb" /\ ~InStreamCall(d) =>
        /\ resources[d] <=> m_nStreamsStart[d] > 0
        /\ m_nStreamsOpen[d] = 0 => request[StreamOf(d)] \in {"None", "Ready"}

\* A thread that waits for the end of a stream request will be woken: the
\* event is set, or the request is on its way back (StopBthHfpStreamStatus-
\* Notification and its USB copies wait without a limit).
NoLostWakeup ==
    \A d \in Devices : call[d].at = "Wait" /\ ~overlapped =>
        LET s == IF kind = "Bth" THEN "Stream" ELSE StreamOf(d)
        IN  event[s] \/ request[s] = "Cancelling" \/ target = "Purging"

\* Every call of a miniport returns, also when the device is stopped under
\* it. (For Bluetooth, as long as stream calls do not overlap.)
CallsReturn ==
    \A d \in Devices : (call[d] # Idle) ~> (call[d] = Idle \/ overlapped)

\* A Stop that has begun ends, whatever the lower driver was asked to do.
StopReturns == (m_State = "Stopping") ~> (m_State = "Stopped")

(***************************************************************************)
(* What the safety properties rest on.                                     *)
(***************************************************************************)
Creating == {"WorkItem", "Collection", "Target", "LinkName", "NrecRequest", "VolumeRequests",
             "MuteRequests", "ConnectionRequest", "StreamRequest", "StreamRequests", "FilterNames"}
Asking == {"Capabilities", "Descriptor", "VolumeValues", "VolumeLevels", "Connection", "CodecId",
           "Minipairs", "Hub", "Endpoints", "SpeakerVolume", "SpeakerFilters"}
Installing == {"MicVolume", "MicFilters", "EnableNrec", "EnableSpeaker", "EnableMic",
               "EnableConnection", "Claim", "Started"}
Stopping == {"Purge", "Flush", "RemoveSpeaker", "RemoveMic"}
Ended == {"Released", "Deleted"}

\* The state of the object tells what the adapter's thread has come to.
LifeAgrees ==
    \/ life = "New" /\ m_State = "Invalid"
    \/ life \in Creating /\ m_State = "Initializing"
    \/ life \in Asking \cup Installing /\ m_State \in {"Running", "Failed"}
    \/ life \in Stopping /\ m_State = "Stopping"
    \/ life \in Ended /\ m_State \in {"Initializing", "Stopped"}

New == m_State \in {"Invalid", "Initializing"}
Purged == life \in {"Flush", "RemoveSpeaker", "RemoveMic"} \/ m_State = "Stopped"
Flushed == life \in {"RemoveSpeaker", "RemoveMic"} \/ m_State = "Stopped"

\* Until it runs the object has no filters, and nothing is under way.
NewIsUntouched ==
    New => /\ WdfWorkItemFlushed /\ filters = {} /\ m_ReqCollection = <<>>
           /\ \A r \in Requests : request[r] \in {"None", "Ready"}
           /\ \A d \in Devices : call[d] = Idle /\ running[d] = 0 /\ held[d] = 0 /\ playing[d] = 0

\* A purged target has no requests, and stays purged.
PurgedIsEmpty ==
    /\ Purged => target \in {"Purged", "Closed"}
    /\ target \in {"Purged", "Closed"} => \A r \in Requests : ~Pending(r)

FlushedIsIdle == Flushed => WdfWorkItemFlushed

\* Filters are installed once, the speaker's first, and removed in that order.
MicNext == life = "MicFilters" \/ (kind = "Usb" /\ life \in {"EnableSpeaker", "MicVolume"})
FiltersAgree ==
    /\ filters \subseteq Devices
    /\ life \in Asking => filters = {}
    /\ MicNext \/ m_State = "Stopped" => "Mic" \notin filters
    /\ life = "RemoveMic" \/ m_State = "Stopped" => "Speaker" \notin filters

WorkerRecord == [at : {"Idle", "Take", "Update", "Status", "Callback", "Formats", "Resend"},
                 req : Notifications \cup {"None"}, to : SUBSET Devices]

\* A callback holds a request from taking to sending it, and calls handlers
\* meanwhile.
WorkersAgree ==
    /\ worker \in [Workers -> WorkerRecord]
    /\ \A w \in Workers : /\ worker[w].at \in {"Idle", "Take"} <=> worker[w].req = "None"
                          /\ worker[w].at \in {"Callback", "Formats"} \/ worker[w].to = {}

\* A request in the collection or in a callback has no other use.
CollectionAgrees ==
    /\ m_ReqCollection \in Seq(Notifications)
    /\ \A i \in 1..Len(m_ReqCollection) : request[m_ReqCollection[i]] = "Collected"
    /\ \A i, j \in 1..Len(m_ReqCollection) : m_ReqCollection[i] = m_ReqCollection[j] => i = j
    /\ \A w \in Workers : worker[w].req # "None" => request[worker[w].req] = "Taken"
    /\ \A v, w \in Workers : v # w /\ worker[v].req = worker[w].req => worker[v].req = "None"

RequestStates == {"None", "Ready", "Sent", "Cancelling", "Done", "Collected", "Taken", "Refused"}

QuietInv ==
    /\ request \in [Requests -> RequestStates] /\ enqueued \in BOOLEAN
    /\ target \in {"Closed", "Open", "Purging", "Purged"}
    /\ LifeAgrees /\ NewIsUntouched /\ PurgedIsEmpty /\ FlushedIsIdle /\ FiltersAgree
    /\ WorkersAgree /\ CollectionAgrees
    /\ CallbackSafe /\ CollectedIsServed

(***************************************************************************)
(* What the properties of the streams rest on, next to QuietInv.           *)
(***************************************************************************)
Opening == {"Open", "Enable", "Undo"}
Starting == {"SetResources", "Start", "GetResources", "UndoStart"}
Places == {"Idle", "GotVolume", "Suspend", "SuspendUndo"} \cup StreamCalls \cup Starting
CallRecord == [at : Places, value : {0, 1}]

\* The counts are natural numbers; of a Bluetooth device no stream is started
\* apart from being opened. A filter starts no more streams than it holds.
CountInv ==
    /\ kind \in {"Bth", "Usb"} /\ m_nStreams \in Nat /\ running \in [Devices -> Nat]
    /\ m_nStreamsOpen \in [Devices -> Nat] /\ m_nStreamsStart \in [Devices -> Nat]
    /\ held \in [Devices -> Nat] /\ playing \in [Devices -> Nat]
    /\ call \in [Devices -> CallRecord]
    /\ \A d \in Devices : /\ kind = "Bth" => call[d].at \in {"Idle", "GotVolume"} \cup StreamCalls
                          /\ running[d] + (IF kind = "Bth" /\ call[d].at \in Opening THEN 1 ELSE 0) <= MaxStreams
                          /\ m_nStreamsStart[d] <= held[d]
    /\ StreamsCounted

\* How far the request for the status of a stream can be, by the place its
\* user has come to and the count of its streams.
RequestAgrees(here, count, state) ==
    \/ here \in Opening /\ count = 1 /\ state \in {"None", "Ready"}
    \/ here = "CloseUndo" /\ count = 0 /\ state \in {"None", "Ready"}
    \/ here \in {"Close", "Cancel"} /\ count = 0 /\ state \in {"Sent", "Done"}
    \/ here = "Wait" /\ count = 0 /\ state \in {"Cancelling", "Done"}
    \/ here \notin StreamCalls /\ count = 0 /\ state \in {"None", "Ready"}
    \/ here \notin StreamCalls /\ count > 0 /\ state \in {"Sent", "Done"}

\* Of the two filters of a Bluetooth device at most one is in a stream call,
\* and the request agrees with the place of that one.
BthStreamInv ==
    kind = "Bth" /\ ~overlapped =>
        /\ \A d, e \in Devices : call[d].at \in StreamCalls /\ call[e].at \in StreamCalls => d = e
        /\ \E d \in Devices :
             /\ RequestAgrees(call[d].at, m_nStreams, request["Stream"])
             /\ \A e \in Devices \ {d} : call[e].at \notin StreamCalls
        /\ m_nStreams = 0 /\ (\A d \in Devices : call[d].at \notin StreamCalls)
             => status["Stream"] = "Invalid"
        /\ event["Stream"] <=> ~Pending("Stream")

\* Start has seen the endpoints of a USB device.
Indexed == {"SpeakerVolume", "SpeakerFilters", "EnableSpeaker", "MicVolume", "MicFilters",
            "EnableMic", "Claim"}
HasSpeaker == kind = "Usb" => "Speaker" \in Endpoints

\* Speaker and microphone are told apart by their index while both are used,
\* and the lower driver has a stream request only of a filter that is there.
EndpointsAgree ==
    /\ descriptor.endpoints \in Seq(Devices)
    /\ kind = "Usb" =>
        /\ filters \subseteq Endpoints
        /\ Devices \subseteq Endpoints /\ (life \in Indexed \/ filters # {})
             => m_EpIndex["Mic"] # m_EpIndex["Speaker"]
        /\ \A d \in Devices : /\ Pending(StreamOf(d)) => d \in filters
                              /\ call[d].at # "Idle" \/ held[d] > 0 => d \in filters \/ target # "Open"

UsbStreamOf(d) ==
    /\ RequestAgrees(call[d].at, m_nStreamsOpen[d], request[StreamOf(d)])
    /\ event[StreamOf(d)] => ~Pending(StreamOf(d))
    /\ HasSpeaker /\ ~Pending(StreamOf(d)) => event[StreamOf(d)]
    /\ call[d].at \in Starting => m_nStreamsStart[d] = 1 /\ ~resources[d]
    /\ call[d].at = "Suspend" => m_nStreamsStart[d] = 0
    /\ call[d].at \notin Starting \cup {"Suspend"} => (resources[d] <=> m_nStreamsStart[d] > 0)

UsbStreamInv == kind = "Usb" => \A d \in Devices : UsbStreamOf(d)

StreamInv ==
    /\ event \in [StreamRequests -> BOOLEAN] /\ status \in [StreamRequests -> {"Invalid", "Success"}]
    /\ resources \in [Devices -> BOOLEAN] /\ overlapped \in BOOLEAN
    /\ BthStreamInv /\ EndpointsAgree /\ UsbStreamInv
=============================================================================
