---------------------------- MODULE UsbHsDevice -----------------------------
(***************************************************************************)
(* UsbHsDevice.cpp: a USB headset whose audio is offloaded. Speaker and    *)
(* microphone are endpoints of their own: each has its own counts, stream  *)
(* request and event. Updates name the endpoint they are about.            *)
(***************************************************************************)
EXTENDS SidebandDevice

VARIABLES
    m_EpIndex,          \* m_SpeakerEpIndex, m_MicEpIndex: 0 until Start has seen it
    m_nStreamsOpen, m_nStreamsStart,
    held, playing,      \* streams the filter holds open, streams it has started
    resources           \* m_*TransportResources are allocated

usbVars == <<m_EpIndex, m_nStreamsOpen, m_nStreamsStart, held, playing, resources>>

StreamOf(d) == IF d = "Speaker" THEN "SpkStream" ELSE "MicStream"
Endpoints == {descriptor.endpoints[i] : i \in DOMAIN descriptor.endpoints}

(***************************************************************************)
(* Init and the destructor.                                                *)
(***************************************************************************)
UsbHsInit ==
    /\ life = "New" /\ life' = "WorkItem" /\ m_State' = "Initializing"
    /\ status' = [s \in StreamRequests |-> "Success"]
    /\ UNCHANGED <<env, filters, target, request, completion, worker, values, call, event, usbVars>>

UsbHsCreateWorkItem ==
    /\ \E ok \in BOOLEAN : InitStep("WorkItem", "Collection", ok)
    /\ UNCHANGED <<env, object, target, request, completion, worker, values, call, stream, usbVars>>

UsbHsCreateCollection ==
    /\ \E ok \in BOOLEAN : InitStep("Collection", "Target", ok)
    /\ UNCHANGED <<env, object, target, request, completion, worker, values, call, stream, usbVars>>

\* The device becomes a power dependency of the adapter (module SidebandList); the
\* result is not looked at.
UsbHsOpenTarget ==
    /\ \E ok \in BOOLEAN :
        /\ InitStep("Target", "LinkName", ok)
        /\ target' = IF ok THEN "Open" ELSE target
    /\ UNCHANGED <<env, object, request, completion, worker, values, call, stream, usbVars>>

UsbHsCopyLinkName ==
    /\ \E ok \in BOOLEAN : InitStep("LinkName", "VolumeRequests", ok)
    /\ UNCHANGED <<env, object, target, request, completion, worker, values, call, stream, usbVars>>

UsbHsCreateRequests(here, next, new) ==
    /\ \E ok \in BOOLEAN, made \in SUBSET new :
        /\ ok <=> made = new
        /\ InitStep(here, next, ok)
        /\ request' = [r \in Requests |-> IF r \in made THEN "Ready" ELSE request[r]]
    /\ UNCHANGED <<env, object, target, completion, worker, values, call, stream, usbVars>>

UsbHsCreateVolumeRequests == UsbHsCreateRequests("VolumeRequests", "MuteRequests", {"SpkVol", "MicVol"})
UsbHsCreateMuteRequests == UsbHsCreateRequests("MuteRequests", "StreamRequests", {"SpkMute", "MicMute"})
UsbHsCreateStreamRequests == UsbHsCreateRequests("StreamRequests", "FilterNames", {"SpkStream", "MicStream"})

UsbHsCreateFilterNames ==
    /\ \E ok \in BOOLEAN :
        /\ InitStep("FilterNames", "Descriptor", ok)
        /\ m_State' = IF ok THEN "Running" ELSE m_State
    /\ UNCHANGED <<env, filters, target, request, completion, worker, values, call, stream, usbVars>>

UsbHsDeleteRequests == request' = [r \in Requests |-> "None"]

\* Runs with the last reference: the miniports and their streams are gone.
UsbHsDestructor ==
    /\ life = "Released" /\ life' = "Deleted"
    /\ filters = {} /\ \A d \in Devices : call[d] = Idle /\ held[d] = 0
    /\ target' = "Closed"
    /\ resources' = [d \in Devices |-> FALSE]
    /\ UsbHsDeleteRequests /\ m_ReqCollection' = <<>>
    /\ UNCHANGED <<env, object, errors, buffer, enqueued, worker, values, call, stream,
                   m_EpIndex, m_nStreamsOpen, m_nStreamsStart, held, playing>>

(***************************************************************************)
(* Requests to the device.                                                 *)
(***************************************************************************)
UsbHsSendIoCtrlAsynchronously(r, ok) == WdfRequestSend(r, ok)
UsbHsSendIoCtrlSynchronously(ok) == WdfIoTargetSendIoctlSynchronously(ok)

\* Mutant: a failed request is collected without enqueuing the work item.
MutErrorNotEnqueued(r) ==
    /\ Pending(r)
    /\ \/ /\ Cancelled(r) /\ request' = [request EXCEPT ![r] = "Done"]
          /\ UNCHANGED <<errors, buffer, m_ReqCollection>>
       \/ /\ Disturbed(r) /\ errors[r] < MaxErrors
          /\ errors' = [errors EXCEPT ![r] = @ + 1]
          /\ buffer' = [buffer EXCEPT ![r] = Failed]
          /\ request' = [request EXCEPT ![r] = "Collected"]
          /\ m_ReqCollection' = Append(m_ReqCollection, r)
    /\ UNCHANGED <<env, object, life, target, worker, values, call, stream, enqueued, usbVars>>

EvtUsbHsDeviceNotificationStatusCompletion(r) ==
    LET Drop == /\ request' = [request EXCEPT ![r] = "Done"]
                /\ UNCHANGED <<m_ReqCollection, enqueued>>
        Add == \/ /\ request' = [request EXCEPT ![r] = "Collected"]
                  /\ m_ReqCollection' = Append(m_ReqCollection, r)
                  /\ enqueued' = TRUE
               \/ Drop
    IN  /\ Pending(r)
        /\ \/ Cancelled(r) /\ Drop /\ UNCHANGED <<errors, buffer, news>>
           \/ /\ Disturbed(r)
              /\ errors' = [errors EXCEPT ![r] = @ + 1]
              /\ IF errors[r] + 1 > MaxErrors THEN Drop ELSE Add
              /\ buffer' = [buffer EXCEPT ![r] = Failed]
              /\ UNCHANGED news
           \/ /\ news[r] /\ target = "Open"
              /\ errors' = [errors EXCEPT ![r] = 0]
              /\ buffer' = [buffer EXCEPT ![r] = remote[r]]
              /\ news' = [news EXCEPT ![r] = FALSE]
              /\ Add
        /\ UNCHANGED <<env, object, life, target, worker, remote, cached, call, stream, usbVars>>

\* An update is for the device whose endpoint it names, the speaker first.
UsbHsAddressee(d) == IF m_EpIndex[d] = m_EpIndex["Speaker"] THEN "Speaker" ELSE d

(***************************************************************************)
(* The work item.                                                          *)
(***************************************************************************)
UsbHsTakeRequest(w) ==
    /\ worker[w].at = "Take"
    /\ IF m_ReqCollection = <<>>
       THEN /\ worker' = [worker EXCEPT ![w] = NoWork]
            /\ UNCHANGED <<request, m_ReqCollection>>
       ELSE LET r == Head(m_ReqCollection) IN
            /\ m_ReqCollection' = Tail(m_ReqCollection)
            /\ request' = [request EXCEPT ![r] = "Taken"]
            /\ worker' = [worker EXCEPT ![w] =
                 [at |-> IF buffer[r] = Failed THEN "Resend" ELSE "Update", req |-> r, to |-> {}]]
    /\ UNCHANGED <<env, object, life, target, errors, buffer, enqueued, values, call, stream, usbVars>>

\* A volume or mute update is stored and, if it differs, the handler called.
\* Start never asks for mute updates.
UsbHsUpdate(w) ==
    LET r == worker[w].req
        kind == IF r \in {"SpkVol", "MicVol"} THEN Volume ELSE Mute
        d == UsbHsAddressee(CHOOSE e \in Devices : kind[e] = r)
    IN  /\ worker[w].at = "Update"
        /\ cached' = [cached EXCEPT ![kind[d]] = buffer[r]]
        /\ CallHandlers(w, "Callback", "Resend",
             IF buffer[r] = cached[kind[d]] THEN {} ELSE filters \cap {d})
        /\ UNCHANGED <<env, object, life, target, request, completion, remote, news, call, stream, usbVars>>

UsbHsHandlersReturn(w) ==
    /\ worker[w].at = "Callback"
    /\ worker' = [worker EXCEPT ![w].to = {}, ![w].at = "Resend"]
    /\ UNCHANGED <<env, object, life, target, request, completion, values, call, stream, usbVars>>

UsbHsResend(w) ==
    LET r == worker[w].req IN
    /\ worker[w].at = "Resend"
    /\ \/ /\ target = "Open"
          /\ request' = [request EXCEPT ![r] = "Sent"]
          /\ worker' = [worker EXCEPT ![w] = [NoWork EXCEPT !.at = "Take"]]
       \/ /\ request' = [request EXCEPT ![r] = "Refused"]
          /\ worker' = [worker EXCEPT ![w] = NoWork]
    /\ buffer' = [buffer EXCEPT ![r] = 0]
    /\ UNCHANGED <<env, object, life, target, errors, m_ReqCollection, enqueued, values, call, stream, usbVars>>

EvtUsbHsDeviceNotificationStatusWorkItem(w) ==
    UsbHsTakeRequest(w) \/ UsbHsUpdate(w) \/ UsbHsHandlersReturn(w) \/ UsbHsResend(w)

(***************************************************************************)
(* Volume and mute, called by the topology miniports.                      *)
(***************************************************************************)
UsbHsIsVolumeSupported(d) == descriptor.volume

GetUsbHsSpeakerVolume(ok, v) == UsbHsSendIoCtrlSynchronously(ok) /\ v = remote["SpkVol"]
GetUsbHsMicVolume(ok, v) == UsbHsSendIoCtrlSynchronously(ok) /\ v = remote["MicVol"]
GetUsbHsSpeakerMute(ok, v) == UsbHsSendIoCtrlSynchronously(ok) /\ v = remote["SpkMute"]
GetUsbHsMicMute(ok, v) == UsbHsSendIoCtrlSynchronously(ok) /\ v = remote["MicMute"]
SetUsbHsSpeakerVolume(v) == UsbHsSendIoCtrlSynchronously(TRUE) /\ remote' = [remote EXCEPT !["SpkVol"] = v]
SetUsbHsMicVolume(v) == UsbHsSendIoCtrlSynchronously(TRUE) /\ remote' = [remote EXCEPT !["MicVol"] = v]

UsbHsGetVolume(d) ==
    /\ {"Call", Volume[d]} \subseteq use /\ d \in filters /\ call[d] = Idle /\ UsbHsIsVolumeSupported(d)
    /\ \E v \in {0, 1} :
        /\ IF d = "Speaker" THEN GetUsbHsSpeakerVolume(TRUE, v) ELSE GetUsbHsMicVolume(TRUE, v)
        /\ call' = [call EXCEPT ![d] = [at |-> "GotVolume", value |-> v]]
    /\ UNCHANGED <<env, object, life, target, request, completion, worker, values, stream, usbVars>>

UsbHsGotVolume(d) ==
    /\ call[d].at = "GotVolume"
    /\ cached' = [cached EXCEPT ![Volume[d]] = call[d].value]
    /\ Return(d)
    /\ UNCHANGED <<env, object, life, target, request, completion, worker, remote, news, stream, usbVars>>

UsbHsSetVolume(d) ==
    /\ {"Call", Volume[d]} \subseteq use /\ d \in filters /\ call[d] = Idle /\ UsbHsIsVolumeSupported(d)
    /\ \E v \in {0, 1} : IF d = "Speaker" THEN SetUsbHsSpeakerVolume(v) ELSE SetUsbHsMicVolume(v)
    /\ \E n \in BOOLEAN : news' = [news EXCEPT ![Volume[d]] = n \/ @]
    /\ UNCHANGED <<env, object, life, target, request, completion, worker, cached, call, stream, usbVars>>

(***************************************************************************)
(* Streams, called by the wave miniports.                                  *)
(***************************************************************************)
\* The first stream of a device opens its endpoint.
UsbHsStreamOpen(d) ==
    /\ "Stream" \in use /\ d \in filters /\ call[d] = Idle /\ held[d] < MaxStreams
    /\ m_nStreamsOpen' = [m_nStreamsOpen EXCEPT ![d] = @ + 1]
    /\ IF m_nStreamsOpen[d] = 0
       THEN Goto(d, "Open") /\ UNCHANGED held
       ELSE held' = [held EXCEPT ![d] = @ + 1] /\ UNCHANGED call
    /\ UNCHANGED <<env, object, life, target, request, completion, worker, values, stream,
                   m_EpIndex, m_nStreamsStart, playing, resources>>

SetUsbHsStreamOpen(d) ==
    LET s == StreamOf(d) IN
    /\ call[d].at = "Open"
    /\ \/ /\ UsbHsSendIoCtrlSynchronously(TRUE)
          /\ status' = [status EXCEPT ![s] = "Success"]
          /\ Goto(d, "Enable")
       \/ call' = [call EXCEPT ![d] = [at |-> "Undo", value |-> 0]] /\ UNCHANGED status
    /\ UNCHANGED <<env, object, life, target, request, completion, worker, values, event, usbVars>>

EnableUsbHsStreamStatusNotification(d) ==
    LET s == StreamOf(d) IN
    /\ \E ok \in BOOLEAN :
        /\ UsbHsSendIoCtrlAsynchronously(s, ok)
        /\ event' = [event EXCEPT ![s] = ~ok]
        /\ IF ok THEN Return(d) /\ held' = [held EXCEPT ![d] = @ + 1]
                 ELSE call' = [call EXCEPT ![d] = [at |-> "Undo", value |-> 1]] /\ UNCHANGED held
    /\ UNCHANGED <<env, object, life, target, completion, worker, values, status,
                   m_EpIndex, m_nStreamsOpen, m_nStreamsStart, playing, resources>>

EnableUsbHsSpeakerStreamStatusNotification ==
    call["Speaker"].at = "Enable" /\ EnableUsbHsStreamStatusNotification("Speaker")
EnableUsbHsMicStreamStatusNotification ==
    call["Mic"].at = "Enable" /\ EnableUsbHsStreamStatusNotification("Mic")

UsbHsUndoOpen(d) ==
    /\ call[d].at = "Undo"
    /\ m_nStreamsOpen' = [m_nStreamsOpen EXCEPT ![d] = @ - 1]
    /\ IF call[d].value = 1
       THEN Goto(d, "CloseUndo") /\ UNCHANGED status
       ELSE Return(d) /\ status' = [status EXCEPT ![StreamOf(d)] = "Invalid"]
    /\ UNCHANGED <<env, object, life, target, request, completion, worker, values, event,
                   m_EpIndex, m_nStreamsStart, held, playing, resources>>

\* The first stream to start gives the endpoint its resources, starts it and
\* asks for the transport's resources; a failure takes the count back.
UsbHsStreamStart(d) ==
    /\ call[d] = Idle /\ playing[d] < held[d]
    /\ m_nStreamsStart' = [m_nStreamsStart EXCEPT ![d] = @ + 1]
    /\ IF m_nStreamsStart[d] = 0
       THEN Goto(d, "SetResources") /\ UNCHANGED playing
       ELSE playing' = [playing EXCEPT ![d] = @ + 1] /\ UNCHANGED call
    /\ UNCHANGED <<env, object, life, target, request, completion, worker, values, stream,
                   m_EpIndex, m_nStreamsOpen, held, resources>>

SetTransportResources(d) ==
    /\ call[d].at = "SetResources"
    /\ \E ok \in BOOLEAN : UsbHsSendIoCtrlSynchronously(ok)
                           /\ Goto(d, IF ok THEN "Start" ELSE "UndoStart")
    /\ UNCHANGED <<env, object, life, target, request, completion, worker, values, stream, usbVars>>

SetUsbHsStreamStart(d) ==
    /\ call[d].at = "Start"
    /\ \E ok \in BOOLEAN : UsbHsSendIoCtrlSynchronously(ok)
                           /\ Goto(d, IF ok THEN "GetResources" ELSE "UndoStart")
    /\ UNCHANGED <<env, object, life, target, request, completion, worker, values, stream, usbVars>>

\* Up to seven descriptors are asked for; after a failure all are freed.
GetTransportResources(d) ==
    /\ call[d].at = "GetResources"
    /\ \E ok \in BOOLEAN :
        /\ UsbHsSendIoCtrlSynchronously(ok)
        /\ resources' = [resources EXCEPT ![d] = ok]
        /\ IF ok THEN Return(d) /\ playing' = [playing EXCEPT ![d] = @ + 1]
                 ELSE call' = [call EXCEPT ![d] = [at |-> "UndoStart", value |-> 1]] /\ UNCHANGED playing
    /\ UNCHANGED <<env, object, life, target, request, completion, worker, values, stream,
                   m_EpIndex, m_nStreamsOpen, m_nStreamsStart, held>>

UsbHsUndoStart(d) ==
    /\ call[d].at = "UndoStart"
    /\ m_nStreamsStart' = [m_nStreamsStart EXCEPT ![d] = @ - 1]
    /\ IF call[d].value = 1 THEN Goto(d, "SuspendUndo") ELSE Return(d)
    /\ UNCHANGED <<env, object, life, target, request, completion, worker, values, stream,
                   m_EpIndex, m_nStreamsOpen, held, playing, resources>>

\* The last stream suspends the endpoint and frees the resources.
UsbHsStreamSuspend(d) ==
    /\ call[d] = Idle /\ playing[d] > 0
    /\ m_nStreamsStart' = [m_nStreamsStart EXCEPT ![d] = @ - 1]
    /\ playing' = [playing EXCEPT ![d] = @ - 1]
    /\ IF m_nStreamsStart[d] = 1 THEN Goto(d, "Suspend") ELSE UNCHANGED call
    /\ UNCHANGED <<env, object, life, target, request, completion, worker, values, stream,
                   m_EpIndex, m_nStreamsOpen, held, resources>>

FreeTransportResources(d) == resources' = [resources EXCEPT ![d] = FALSE]

\* Mutant: the last suspend keeps the transport's resources.
MutSuspendKeeps(d) ==
    /\ call[d].at \in {"Suspend", "SuspendUndo"} /\ Return(d)
    /\ UNCHANGED <<env, object, life, target, request, completion, worker, values, stream, usbVars>>

\* The result of the request is not looked at.
SetUsbHsStreamSuspend(d) ==
    /\ call[d].at \in {"Suspend", "SuspendUndo"}
    /\ Return(d)
    /\ IF call[d].at = "Suspend" THEN FreeTransportResources(d) ELSE UNCHANGED resources
    /\ UNCHANGED <<env, object, life, target, request, completion, worker, values, stream,
                   m_EpIndex, m_nStreamsOpen, m_nStreamsStart, held, playing>>

\* The last stream closes the endpoint.
UsbHsStreamClose(d) ==
    /\ call[d] = Idle /\ held[d] > playing[d]
    /\ m_nStreamsOpen' = [m_nStreamsOpen EXCEPT ![d] = @ - 1]
    /\ held' = [held EXCEPT ![d] = @ - 1]
    /\ IF m_nStreamsOpen[d] = 1 THEN Goto(d, "Close") ELSE UNCHANGED call
    /\ UNCHANGED <<env, object, life, target, request, completion, worker, values, stream,
                   m_EpIndex, m_nStreamsStart, playing, resources>>

\* The result of the request is not looked at.
SetUsbHsStreamClose(d) ==
    LET s == StreamOf(d) IN
    /\ call[d].at \in {"Close", "CloseUndo"}
    /\ IF call[d].at = "Close"
       THEN Goto(d, "Cancel") /\ UNCHANGED status
       ELSE Return(d) /\ status' = [status EXCEPT ![s] = "Invalid"]
    /\ UNCHANGED <<env, object, life, target, request, completion, worker, values, event, usbVars>>

UsbHsCancelStreamRequest(d) ==
    /\ call[d].at = "Cancel" /\ WdfRequestCancelSentRequest(StreamOf(d)) /\ Goto(d, "Wait")
    /\ UNCHANGED <<env, object, life, target, completion, worker, values, stream, usbVars>>

\* Waits without a limit for the event of the device.
StopUsbHsStreamStatusNotification(d) ==
    LET s == StreamOf(d) IN
    /\ event[s]
    /\ request' = IF request[s] = "Done" THEN [request EXCEPT ![s] = "Ready"] ELSE request
    /\ status' = [status EXCEPT ![s] = "Invalid"]
    /\ Return(d)
    /\ UNCHANGED <<env, object, life, target, completion, worker, values, event, usbVars>>

StopUsbHsSpeakerStreamStatusNotification ==
    call["Speaker"].at = "Wait" /\ StopUsbHsStreamStatusNotification("Speaker")
StopUsbHsMicStreamStatusNotification ==
    call["Mic"].at = "Wait" /\ StopUsbHsStreamStatusNotification("Mic")

\* The status and the event are those of the endpoint the request names.
EvtUsbHsDeviceStreamStatusCompletion(d) ==
    LET s == StreamOf(UsbHsAddressee(d)) IN
    /\ Pending(StreamOf(d))
    /\ request' = [request EXCEPT ![StreamOf(d)] = "Done"]
    /\ event' = [event EXCEPT ![s] = TRUE]
    /\ \/ status' = [status EXCEPT ![s] = "Invalid"]
       \/ target = "Open" /\ status' = [status EXCEPT ![s] = "Success"]
    /\ UNCHANGED <<env, object, life, target, completion, worker, values, call, usbVars>>

(***************************************************************************)
(* Start and Stop, called by the adapter's work item.                      *)
(***************************************************************************)
\* A synchronous request of Start.
UsbHsAsk(here, next) ==
    \E ok \in BOOLEAN : UsbHsSendIoCtrlSynchronously(ok) /\ StartStep(here, next, ok)

\* The descriptor, and whether the device is behind a hub: size first, then data.
GetUsbHsDescriptor ==
    /\ UsbHsAsk("Descriptor", "Hub")
    /\ UNCHANGED <<env, filters, target, request, completion, worker, values, call, stream, usbVars>>

GetSiop ==
    /\ UsbHsAsk("Hub", "Endpoints")
    /\ UNCHANGED <<env, filters, target, request, completion, worker, values, call, stream, usbVars>>

\* The descriptor of an endpoint, its size first. Pool memory for it.
GetUsbHsEndpointDescriptor(ok) == UsbHsSendIoCtrlSynchronously(ok)

\* The endpoints are looked at one after the other, n of them with success; the
\* last of a direction counts. Two speakers or two microphones are not supported.
GetUsbHsEndpointDescriptors ==
    LET ep == descriptor.endpoints
        Last(d, n) == LET I == {i \in 1..n : ep[i] = d}
                      IN  IF I = {} THEN 0 ELSE (CHOOSE i \in I : \A j \in I : j <= i) - 1
        single == Len(ep) = Cardinality(Endpoints)
    IN  /\ \E n \in 0..Len(ep) :
            LET all == n = Len(ep) IN
            /\ GetUsbHsEndpointDescriptor(n > 0)
            /\ StartStep("Endpoints", "SpeakerVolume", all /\ single)
            /\ m_EpIndex' = [d \in Devices |-> IF all /\ ~single THEN 0 ELSE Last(d, n)]
        /\ UNCHANGED <<env, filters, target, request, completion, worker, values, call, stream,
                       m_nStreamsOpen, m_nStreamsStart, held, playing, resources>>

\* A part of Start for device d, skipped for an endpoint the device has not.
UsbHsPart(d, here, next, ok) ==
    StartStep(here, next, ok) /\ (d \notin Endpoints => ok)

\* The ranges of the values.
GetUsbHsVolumePropertyValues(ok) == UsbHsSendIoCtrlSynchronously(ok)
GetUsbHsMutePropertyValues(ok) == UsbHsSendIoCtrlSynchronously(ok)

\* The value ranges and the present volume and mute state.
UsbHsStartVolume(d, here, next, volumeOk, muteOk) ==
    /\ d \in Endpoints /\ descriptor.volume =>
         GetUsbHsVolumePropertyValues(volumeOk) /\ GetUsbHsMutePropertyValues(muteOk)
    /\ UsbHsPart(d, here, next, volumeOk /\ muteOk)
    /\ cached' = IF d \notin Endpoints \/ ~descriptor.volume THEN cached
                 ELSE [cached EXCEPT ![Volume[d]] = IF volumeOk THEN remote[Volume[d]] ELSE @,
                                     ![Mute[d]] = IF volumeOk /\ muteOk THEN remote[Mute[d]] ELSE @]
    /\ UNCHANGED <<env, filters, target, request, completion, worker, remote, news, call, stream, usbVars>>

UsbHsStartSpeakerVolume ==
    \E v, m \in BOOLEAN : UsbHsStartVolume("Speaker", "SpeakerVolume", "SpeakerFilters", v, m)
UsbHsStartMicVolume ==
    \E v, m \in BOOLEAN : UsbHsStartVolume("Mic", "MicVolume", "MicFilters", v, m)

\* The miniports set their handlers when installed and take them back when removed.
UsbHsSetHandlers(d, on) == filters' = IF on THEN filters \cup {d} ELSE filters \ {d}

\* The formats both sides know: the device is given those of the driver and
\* answers with its choice, the size first.
GetUsbHsEndpointFormatsIntersection(ok) == UsbHsSendIoCtrlSynchronously(ok)

\* A format of the driver must be among them.
VerifyEndpointFormatCompatibility(ok) == ok \in BOOLEAN

\* A copy of the endpoint's description with the device's name and category:
\* of its pins exactly one is of the audio category and one is not.
UsbHsUpdateCustomEndpointCategory(ok) == ok \in BOOLEAN
UsbHsCreateCustomEndpointMinipair(ok) ==
    \E named \in BOOLEAN : UsbHsUpdateCustomEndpointCategory(named) /\ (ok => named)

\* Filters are installed only after all of these have succeeded.
UsbHsInstallFilters(d, here, next) ==
    /\ \E formats, pair, format, ok \in BOOLEAN :
        /\ ok => formats /\ pair /\ format
        /\ d \in Endpoints =>
             /\ GetUsbHsEndpointFormatsIntersection(formats)
             /\ UsbHsCreateCustomEndpointMinipair(pair) /\ VerifyEndpointFormatCompatibility(format)
        /\ UsbHsPart(d, here, next, ok) /\ UsbHsSetHandlers(d, ok /\ d \in Endpoints)
    /\ UNCHANGED <<env, target, request, completion, worker, values, call, stream, usbVars>>

UsbHsInstallSpeakerFilters == UsbHsInstallFilters("Speaker", "SpeakerFilters", "EnableSpeaker")
UsbHsInstallMicFilters == UsbHsInstallFilters("Mic", "MicFilters", "EnableMic")

UsbHsEnable(d, here, next) ==
    /\ \E ok \in BOOLEAN :
        /\ UsbHsPart(d, here, next, ok)
        /\ IF d \in Endpoints /\ descriptor.volume
           THEN UsbHsSendIoCtrlAsynchronously(Volume[d], ok) ELSE ok /\ UNCHANGED request
    /\ UNCHANGED <<env, filters, target, completion, worker, values, call, stream, usbVars>>

EnableUsbHsSpeakerVolumeStatusNotification == UsbHsEnable("Speaker", "EnableSpeaker", "MicVolume")
EnableUsbHsMicVolumeStatusNotification == UsbHsEnable("Mic", "EnableMic", "Claim")

\* The endpoints are paired and the sideband is claimed. A claim that failed
\* is taken back, which may fail as well.
SetSidebandClaimed ==
    /\ \E ok \in BOOLEAN : StartStep("Claim", "Started", ok)
    /\ UNCHANGED <<env, filters, target, request, completion, worker, values, call, stream, usbVars>>

UsbHsStart ==
    \/ GetUsbHsDescriptor \/ GetSiop \/ GetUsbHsEndpointDescriptors
    \/ UsbHsStartSpeakerVolume \/ UsbHsInstallSpeakerFilters \/ EnableUsbHsSpeakerVolumeStatusNotification
    \/ UsbHsStartMicVolume \/ UsbHsInstallMicFilters \/ EnableUsbHsMicVolumeStatusNotification
    \/ SetSidebandClaimed

\* Mutant: the filters are removed before the work item is flushed.
MutRemoveBeforeFlush ==
    \/ /\ life = "Started" /\ life' = "Purge"
       /\ m_State' = "Stopping" /\ target' = "Purging" /\ UNCHANGED filters
    \/ /\ life = "Purge" /\ life' = "Flush"
       /\ \A r \in Requests : ~Pending(r)
       /\ target' = "Purged" /\ filters' = {} /\ UNCHANGED m_State
    \/ /\ life = "Flush" /\ life' = "Released"
       /\ WdfWorkItemFlushed /\ m_State' = "Stopped" /\ UNCHANGED <<filters, target>>

\* Mutant: the target is not purged, only waited for.
MutNoPurge ==
    \/ /\ life = "Started" /\ life' = "Purge"
       /\ m_State' = "Stopping" /\ UNCHANGED <<filters, target>>
    \/ /\ life = "Purge" /\ life' = "Released"
       /\ (\A r \in Requests : ~Pending(r)) /\ WdfWorkItemFlushed
       /\ filters' = {} /\ m_State' = "Stopped" /\ target' = "Purged"

UsbHsStop ==
    \/ /\ life = "Started" /\ life' = "Purge"
       /\ m_State' = "Stopping" /\ target' = "Purging" /\ UNCHANGED filters
    \/ /\ life = "Purge" /\ life' = "Flush"
       /\ \A r \in Requests : ~Pending(r)
       /\ target' = "Purged" /\ UNCHANGED object
    \/ /\ life = "Flush" /\ life' = "RemoveSpeaker"
       /\ WdfWorkItemFlushed /\ UNCHANGED <<object, target>>
    \/ /\ life = "RemoveSpeaker" /\ life' = "RemoveMic"
       /\ UsbHsSetHandlers("Speaker", FALSE) /\ UNCHANGED <<m_State, target>>
    \/ /\ life = "RemoveMic" /\ life' = "Released"
       /\ UsbHsSetHandlers("Mic", FALSE) /\ m_State' = "Stopped" /\ UNCHANGED target

UsbHsStopping ==
    UsbHsStop /\ UNCHANGED <<env, request, completion, worker, values, call, stream, usbVars>>

UsbHsThreads(d) ==
    \/ UsbHsGetVolume(d) \/ UsbHsSetVolume(d)
    \/ UsbHsStreamOpen(d) \/ UsbHsStreamStart(d) \/ UsbHsStreamSuspend(d) \/ UsbHsStreamClose(d)

\* The steps of a call that is under way.
UsbHsCall(d) ==
    \/ UsbHsGotVolume(d) \/ SetUsbHsStreamOpen(d) \/ UsbHsUndoOpen(d)
    \/ SetTransportResources(d) \/ SetUsbHsStreamStart(d) \/ GetTransportResources(d)
    \/ UsbHsUndoStart(d) \/ SetUsbHsStreamSuspend(d) \/ SetUsbHsStreamClose(d)
    \/ UsbHsCancelStreamRequest(d)
    \/ d = "Speaker" /\ (EnableUsbHsSpeakerStreamStatusNotification
                         \/ StopUsbHsSpeakerStreamStatusNotification)
    \/ d = "Mic" /\ (EnableUsbHsMicStreamStatusNotification
                     \/ StopUsbHsMicStreamStatusNotification)

UsbHsLife ==
    \/ UsbHsInit \/ UsbHsCreateWorkItem \/ UsbHsCreateCollection \/ UsbHsOpenTarget
    \/ UsbHsCopyLinkName \/ UsbHsCreateVolumeRequests \/ UsbHsCreateMuteRequests
    \/ UsbHsCreateStreamRequests \/ UsbHsCreateFilterNames \/ UsbHsStart

UsbHsNext ==
    \/ UsbHsLife \/ UsbHsStopping \/ UsbHsDestructor
    \/ \E d \in Devices : UsbHsThreads(d) \/ UsbHsCall(d) \/ EvtUsbHsDeviceStreamStatusCompletion(d)
    \/ \E w \in Workers : (WdfWorkItemRun(w) /\ UNCHANGED usbVars)
                          \/ EvtUsbHsDeviceNotificationStatusWorkItem(w)
    \/ \E r \in Notifications : EvtUsbHsDeviceNotificationStatusCompletion(r)
    \/ \E p \in Properties : RemoteChange(p) /\ UNCHANGED usbVars

UsbHsSpecInit ==
    /\ m_EpIndex = [d \in Devices |-> 0]
    /\ m_nStreamsOpen = [d \in Devices |-> 0] /\ m_nStreamsStart = [d \in Devices |-> 0]
    /\ held = [d \in Devices |-> 0] /\ playing = [d \in Devices |-> 0]
    /\ resources = [d \in Devices |-> FALSE]
=============================================================================
