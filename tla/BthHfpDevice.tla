---------------------------- MODULE BthHfpDevice ----------------------------
(***************************************************************************)
(* BthhfpDevice.cpp: a Bluetooth headset whose audio bypasses the host.    *)
(* Speaker and microphone share one synchronous connection, so the streams *)
(* of both filters share the count m_nStreams, the stream request and its  *)
(* event.                                                                  *)
(***************************************************************************)
EXTENDS SidebandDevice

VARIABLES
    m_nStreams,
    running,     \* streams that were started and not suspended, per filter
    overlapped   \* stream calls of the two filters have been under way together

bthVars == <<m_nStreams, running, overlapped>>

(***************************************************************************)
(* Init and the destructor.                                                *)
(***************************************************************************)
BthHfpInit ==
    /\ life = "New" /\ life' = "WorkItem" /\ m_State' = "Initializing"
    /\ UNCHANGED <<env, filters, target, request, completion, worker, values, call, stream, bthVars>>

BthHfpCreateWorkItem ==
    /\ \E ok \in BOOLEAN : InitStep("WorkItem", "Collection", ok)
    /\ UNCHANGED <<env, object, target, request, completion, worker, values, call, stream, bthVars>>

BthHfpCreateCollection ==
    /\ \E ok \in BOOLEAN : InitStep("Collection", "Target", ok)
    /\ UNCHANGED <<env, object, target, request, completion, worker, values, call, stream, bthVars>>

BthHfpOpenTarget ==
    /\ \E ok \in BOOLEAN :
        /\ InitStep("Target", "LinkName", ok)
        /\ target' = IF ok THEN "Open" ELSE target
    /\ UNCHANGED <<env, object, request, completion, worker, values, call, stream, bthVars>>

BthHfpCopyLinkName ==
    /\ \E ok \in BOOLEAN : InitStep("LinkName", "NrecRequest", ok)
    /\ UNCHANGED <<env, object, target, request, completion, worker, values, call, stream, bthVars>>

\* A request with its context and the memory objects of its buffer.
BthHfpCreateRequests(here, next, new) ==
    /\ \E ok \in BOOLEAN :
        /\ InitStep(here, next, ok)
        /\ \E made \in SUBSET new :
            /\ ok <=> made = new
            /\ request' = [r \in Requests |-> IF r \in made THEN "Ready" ELSE request[r]]
    /\ UNCHANGED <<env, object, target, completion, worker, values, call, stream, bthVars>>

BthHfpCreateNrecRequest == BthHfpCreateRequests("NrecRequest", "VolumeRequests", {"Nrec"})
BthHfpCreateVolumeRequests ==
    BthHfpCreateRequests("VolumeRequests", "ConnectionRequest", {"SpkVol", "MicVol"})
BthHfpCreateConnectionRequest ==
    BthHfpCreateRequests("ConnectionRequest", "StreamRequest", {"Conn"})
BthHfpCreateStreamRequest == BthHfpCreateRequests("StreamRequest", "FilterNames", {"Stream"})

\* The names are built from a hash of the link name.
BthHfpCreateFilterNames ==
    /\ \E ok \in BOOLEAN :
        /\ InitStep("FilterNames", "Capabilities", ok)
        /\ m_State' = IF ok THEN "Running" ELSE m_State
    /\ UNCHANGED <<env, filters, target, request, completion, worker, values, call, stream, bthVars>>

\* The request for NREC is not deleted with the others.
BthHfpDeleteRequests ==
    request' = [r \in Requests |-> IF r = "Nrec" THEN request[r] ELSE "None"]

\* Runs with the last reference: the miniports and their streams are gone.
BthHfpDestructor ==
    /\ life = "Released" /\ life' = "Deleted"
    /\ filters = {} /\ \A d \in Devices : call[d] = Idle /\ running[d] = 0
    /\ target' = "Closed" /\ BthHfpDeleteRequests /\ m_ReqCollection' = <<>>
    /\ UNCHANGED <<env, object, errors, buffer, enqueued, worker, values, call, stream, bthVars>>

(***************************************************************************)
(* Requests to the device.                                                 *)
(***************************************************************************)
\* The request is formatted and sent.
BthHfpSendIoCtrlAsynchronously(r, ok) == WdfRequestSend(r, ok)

\* The answer must come within BTH_HFP_SYNC_REQ_TIMEOUT_IN_SEC.
BthHfpSendIoCtrlSynchronously(ok) == WdfIoTargetSendIoctlSynchronously(ok)

\* The lower driver completes a notification request.
EvtBthHfpDeviceNotificationStatusCompletion(r) ==
    LET Drop == /\ request' = [request EXCEPT ![r] = "Done"]
                /\ UNCHANGED <<m_ReqCollection, enqueued>>
        Add == \/ /\ request' = [request EXCEPT ![r] = "Collected"]
                  /\ m_ReqCollection' = Append(m_ReqCollection, r)
                  /\ enqueued' = TRUE
               \/ Drop
    IN  /\ Pending(r)
        /\ \/ Cancelled(r) /\ Drop /\ UNCHANGED <<errors, buffer, news>>
           \/ /\ Disturbed(r)
              /\ errors' = [errors EXCEPT ![r] = @ + 1]
              /\ IF errors[r] + 1 > MaxErrors THEN Drop ELSE Add
              /\ buffer' = [buffer EXCEPT ![r] = Failed]
              /\ UNCHANGED news
           \/ /\ news[r] /\ target = "Open"
              /\ errors' = [errors EXCEPT ![r] = 0]
              /\ buffer' = [buffer EXCEPT ![r] = remote[r]]
              /\ news' = [news EXCEPT ![r] = FALSE]
              /\ Add
        /\ UNCHANGED <<env, object, life, target, worker, remote, cached, call, stream, bthVars>>

(***************************************************************************)
(* The work item.                                                          *)
(***************************************************************************)
\* Under the spin lock, the oldest request is taken, or the callback ends.
BthHfpTakeRequest(w) ==
    /\ worker[w].at = "Take"
    /\ IF m_ReqCollection = <<>>
       THEN /\ worker' = [worker EXCEPT ![w] = NoWork]
            /\ UNCHANGED <<request, m_ReqCollection>>
       ELSE LET r == Head(m_ReqCollection) IN
            /\ m_ReqCollection' = Tail(m_ReqCollection)
            /\ request' = [request EXCEPT ![r] = "Taken"]
            /\ worker' = [worker EXCEPT ![w] =
                 [at |-> IF buffer[r] = Failed THEN "Resend" ELSE "Update", req |-> r, to |-> {}]]
    /\ UNCHANGED <<env, object, life, target, errors, buffer, enqueued, values, call, stream, bthVars>>

\* A new NREC status is stored; a new volume is stored and, if it differs,
\* the handler of its filter is called.
BthHfpVolumeUpdate(w) ==
    LET r == worker[w].req IN
    /\ worker[w].at = "Update" /\ r # "Conn"
    /\ cached' = [cached EXCEPT ![r] = buffer[r]]
    /\ CallHandlers(w, "Callback", "Resend",
         IF buffer[r] = cached[r] THEN {} ELSE {d \in filters : Volume[d] = r})
    /\ UNCHANGED <<env, object, life, target, request, completion, remote, news, call, stream, bthVars>>

\* Connected: the codec is asked for, and the handlers for the formats are
\* called if it changed. An old device without the request uses codec 0.
BthHfpCodecUpdate(w) ==
    /\ worker[w].at = "Update" /\ worker[w].req = "Conn"
    /\ \/ /\ buffer["Conn"] = 0
          /\ WorkerAt(w, "Status") /\ UNCHANGED cached
       \/ /\ buffer["Conn"] = 1
          /\ \/ \E codec \in {0, remote["Codec"]} :
                 /\ target = "Open"
                 /\ cached' = [cached EXCEPT !["Codec"] = codec]
                 /\ CallHandlers(w, "Formats", "Status",
                      IF codec = cached["Codec"] THEN {} ELSE filters)
             \/ WorkerAt(w, "Status") /\ UNCHANGED cached
    /\ UNCHANGED <<env, object, life, target, request, completion, remote, news, call, stream, bthVars>>

\* The connection status is stored and, if it differs, both handlers are called.
BthHfpConnectionUpdate(w) ==
    /\ worker[w].at = "Status"
    /\ cached' = [cached EXCEPT !["Conn"] = buffer["Conn"]]
    /\ CallHandlers(w, "Callback", "Resend",
         IF buffer["Conn"] = cached["Conn"] THEN {} ELSE filters)
    /\ UNCHANGED <<env, object, life, target, request, completion, remote, news, call, stream, bthVars>>

\* The handlers return.
BthHfpHandlersReturn(w) ==
    /\ worker[w].at \in {"Callback", "Formats"}
    /\ worker' = [worker EXCEPT ![w].to = {},
                    ![w].at = IF @ = "Formats" THEN "Status" ELSE "Resend"]
    /\ UNCHANGED <<env, object, life, target, request, completion, values, call, stream, bthVars>>

\* The request is prepared and sent again. If that fails the callback ends,
\* whatever else is in the collection.
BthHfpResend(w) ==
    LET r == worker[w].req IN
    /\ worker[w].at = "Resend"
    /\ \/ /\ target = "Open"
          /\ request' = [request EXCEPT ![r] = "Sent"]
          /\ worker' = [worker EXCEPT ![w] = [NoWork EXCEPT !.at = "Take"]]
       \/ /\ request' = [request EXCEPT ![r] = "Refused"]
          /\ worker' = [worker EXCEPT ![w] = NoWork]
    /\ buffer' = [buffer EXCEPT ![r] = 0]
    /\ UNCHANGED <<env, object, life, target, errors, m_ReqCollection, enqueued, values, call, stream, bthVars>>

EvtBthHfpDeviceNotificationStatusWorkItem(w) ==
    \/ BthHfpTakeRequest(w) \/ BthHfpVolumeUpdate(w) \/ BthHfpCodecUpdate(w)
    \/ BthHfpConnectionUpdate(w) \/ BthHfpHandlersReturn(w) \/ BthHfpResend(w)

(***************************************************************************)
(* Volume and connection, called by the topology miniports.                *)
(***************************************************************************)
BthHfpIsVolumeSupported == descriptor.volume

GetBthHfpSpeakerVolume(ok, v) == BthHfpSendIoCtrlSynchronously(ok) /\ v = remote["SpkVol"]
GetBthHfpMicVolume(ok, v) == BthHfpSendIoCtrlSynchronously(ok) /\ v = remote["MicVol"]

\* The device is asked first; the copy is replaced when the answer is there.
BthHfpGetVolume(d) ==
    /\ {"Call", Volume[d]} \subseteq use /\ d \in filters /\ call[d] = Idle /\ BthHfpIsVolumeSupported
    /\ \E v \in {0, 1} :
        /\ IF d = "Speaker" THEN GetBthHfpSpeakerVolume(TRUE, v) ELSE GetBthHfpMicVolume(TRUE, v)
        /\ call' = [call EXCEPT ![d] = [at |-> "GotVolume", value |-> v]]
    /\ UNCHANGED <<env, object, life, target, request, completion, worker, values, stream, bthVars>>

BthHfpGotVolume(d) ==
    /\ call[d].at = "GotVolume"
    /\ cached' = [cached EXCEPT ![Volume[d]] = call[d].value]
    /\ Return(d)
    /\ UNCHANGED <<env, object, life, target, request, completion, worker, remote, news, stream, bthVars>>

SetBthHfpSpeakerVolume(v) == remote' = [remote EXCEPT !["SpkVol"] = v]
SetBthHfpMicVolume(v) == remote' = [remote EXCEPT !["MicVol"] = v]

\* The device may report the volume it was given as a change.
BthHfpSetVolume(d) ==
    /\ {"Call", Volume[d]} \subseteq use /\ d \in filters /\ call[d] = Idle /\ BthHfpIsVolumeSupported
    /\ BthHfpSendIoCtrlSynchronously(TRUE)
    /\ \E v \in {0, 1} : IF d = "Speaker" THEN SetBthHfpSpeakerVolume(v) ELSE SetBthHfpMicVolume(v)
    /\ \E n \in BOOLEAN : news' = [news EXCEPT ![Volume[d]] = n \/ @]
    /\ UNCHANGED <<env, object, life, target, request, completion, worker, cached, call, stream, bthVars>>

\* Connect and Disconnect ask the device, which reports the change.
SetBthHfpConnection(v) ==
    /\ BthHfpSendIoCtrlSynchronously(TRUE)
    /\ remote' = [remote EXCEPT !["Conn"] = v]
    /\ news' = [news EXCEPT !["Conn"] = @ \/ remote["Conn"] # v]

BthHfpConnect(d) ==
    /\ "Conn" \in use /\ d \in filters /\ call[d] = Idle
    /\ \E v \in {0, 1} : SetBthHfpConnection(v)
    /\ UNCHANGED <<env, object, life, target, request, completion, worker, cached, call, stream, bthVars>>

(***************************************************************************)
(* Streams, called by the wave miniports.                                  *)
(***************************************************************************)
StreamCalls == {"Open", "Enable", "Undo", "CloseUndo", "Close", "Cancel", "Wait"}
Overlap(d) == overlapped' =
    (overlapped \/ \E e \in Devices \ {d} : call[e].at \in StreamCalls)

\* Only the first stream of the two filters opens the connection.
BthHfpStreamStart(d) ==
    /\ "Stream" \in use /\ d \in filters /\ call[d] = Idle /\ running[d] < MaxStreams
    /\ m_nStreams' = m_nStreams + 1
    /\ IF m_nStreams = 0
       THEN Goto(d, "Open") /\ UNCHANGED running
       ELSE running' = [running EXCEPT ![d] = @ + 1] /\ UNCHANGED call
    /\ Overlap(d)
    /\ UNCHANGED <<env, object, life, target, request, completion, worker, values, stream>>

\* STATUS_DEVICE_BUSY means that it is open already.
SetBthHfpStreamOpen(d) ==
    /\ call[d].at = "Open"
    /\ \/ /\ BthHfpSendIoCtrlSynchronously(TRUE)
          /\ status' = [status EXCEPT !["Stream"] = "Success"]
          /\ Goto(d, "Enable")
       \/ call' = [call EXCEPT ![d] = [at |-> "Undo", value |-> 0]] /\ UNCHANGED status
    /\ UNCHANGED <<env, object, life, target, request, completion, worker, values, event, bthVars>>

\* The event is cleared and the request sent; it is set again if that fails.
EnableBthHfpStreamStatusNotification(d) ==
    /\ call[d].at = "Enable"
    /\ \E ok \in BOOLEAN :
        /\ BthHfpSendIoCtrlAsynchronously("Stream", ok)
        /\ event' = [event EXCEPT !["Stream"] = ~ok]
        /\ IF ok THEN Return(d) /\ running' = [running EXCEPT ![d] = @ + 1]
                 ELSE /\ call' = [call EXCEPT ![d] = [at |-> "Undo", value |-> 1]]
                      /\ UNCHANGED running
    /\ UNCHANGED <<env, object, life, target, completion, worker, values, status,
                   m_nStreams, overlapped>>

\* Mutant: a start that failed keeps its count.
MutUndoKeepsCount(d) ==
    /\ call[d].at = "Undo"
    /\ IF call[d].value = 1
       THEN Goto(d, "CloseUndo") /\ UNCHANGED status
       ELSE Return(d) /\ status' = [status EXCEPT !["Stream"] = "Invalid"]
    /\ UNCHANGED <<env, object, life, target, request, completion, worker, values, event, bthVars>>

\* The failed start takes its count back, closes what it opened (value 1) and
\* marks the stream as invalid.
BthHfpUndoStart(d) ==
    /\ call[d].at = "Undo"
    /\ m_nStreams' = m_nStreams - 1
    /\ IF call[d].value = 1
       THEN Goto(d, "CloseUndo") /\ UNCHANGED status
       ELSE Return(d) /\ status' = [status EXCEPT !["Stream"] = "Invalid"]
    /\ UNCHANGED <<env, object, life, target, request, completion, worker, values, event,
                   running, overlapped>>

\* Only the last stream closes the connection.
BthHfpStreamSuspend(d) ==
    /\ call[d] = Idle /\ running[d] > 0
    /\ m_nStreams' = m_nStreams - 1
    /\ running' = [running EXCEPT ![d] = @ - 1]
    /\ IF m_nStreams = 1 THEN Goto(d, "Close") ELSE UNCHANGED call
    /\ Overlap(d)
    /\ UNCHANGED <<env, object, life, target, request, completion, worker, values, stream>>

\* The result of closing the connection is not looked at.
SetBthHfpStreamClose(d) ==
    /\ call[d].at \in {"Close", "CloseUndo"}
    /\ IF call[d].at = "Close"
       THEN Goto(d, "Cancel") /\ UNCHANGED status
       ELSE Return(d) /\ status' = [status EXCEPT !["Stream"] = "Invalid"]
    /\ UNCHANGED <<env, object, life, target, request, completion, worker, values, event, bthVars>>

\* Mutant: the request is not cancelled before the wait.
MutNoCancel(d) ==
    /\ call[d].at = "Cancel" /\ Goto(d, "Wait")
    /\ UNCHANGED <<env, object, life, target, request, completion, worker, values, stream, bthVars>>

BthHfpCancelStreamRequest(d) ==
    /\ call[d].at = "Cancel" /\ WdfRequestCancelSentRequest("Stream") /\ Goto(d, "Wait")
    /\ UNCHANGED <<env, object, life, target, completion, worker, values, stream, bthVars>>

\* Waits without a limit for the event, then prepares the request for the
\* next start and marks the stream as invalid.
StopBthHfpStreamStatusNotification(d) ==
    /\ call[d].at = "Wait" /\ event["Stream"]
    /\ request' = IF request["Stream"] = "Done" THEN [request EXCEPT !["Stream"] = "Ready"] ELSE request
    /\ status' = [status EXCEPT !["Stream"] = "Invalid"]
    /\ Return(d)
    /\ UNCHANGED <<env, object, life, target, completion, worker, values, event, bthVars>>

\* The lower driver completes the stream request: cancelled, failed, or with
\* the status of the stream, which is invalid when the connection was lost.
EvtBthHfpDeviceStreamStatusCompletion ==
    /\ Pending("Stream")
    /\ request' = [request EXCEPT !["Stream"] = "Done"]
    /\ event' = [event EXCEPT !["Stream"] = TRUE]
    /\ \/ status' = [status EXCEPT !["Stream"] = "Invalid"]
       \/ target = "Open" /\ status' = [status EXCEPT !["Stream"] = "Success"]
    /\ UNCHANGED <<env, object, life, target, completion, worker, values, call, bthVars>>

(***************************************************************************)
(* Start and Stop, called by the adapter's work item.                      *)
(***************************************************************************)
\* A synchronous request of Start.
BthHfpAsk(here, next) ==
    \E ok \in BOOLEAN : BthHfpSendIoCtrlSynchronously(ok) /\ StartStep(here, next, ok)

SetBthHfpDeviceCapabilities ==
    /\ BthHfpAsk("Capabilities", "Descriptor")
    /\ UNCHANGED <<env, filters, target, request, completion, worker, values, call, stream, bthVars>>

\* The size first, then the descriptor.
GetBthHfpDescriptor ==
    /\ BthHfpAsk("Descriptor", IF descriptor.volume THEN "VolumeValues" ELSE "Connection")
    /\ UNCHANGED <<env, filters, target, request, completion, worker, values, call, stream, bthVars>>

GetBthHfpVolumePropertyValues ==
    /\ BthHfpAsk("VolumeValues", "VolumeLevels")
    /\ UNCHANGED <<env, filters, target, request, completion, worker, values, call, stream, bthVars>>

BthHfpStartVolumeLevels ==
    /\ \E spkOk, micOk \in BOOLEAN, spk, mic \in {0, 1} :
        /\ GetBthHfpSpeakerVolume(spkOk, spk) /\ GetBthHfpMicVolume(micOk, mic)
        /\ StartStep("VolumeLevels", "Connection", spkOk /\ micOk)
        /\ cached' = [cached EXCEPT !["SpkVol"] = IF spkOk THEN spk ELSE @,
                                    !["MicVol"] = IF spkOk /\ micOk THEN mic ELSE @]
    /\ UNCHANGED <<env, filters, target, request, completion, worker, remote, news, call, stream, bthVars>>

GetBthHfpConnectionStatus ==
    /\ \E ok \in BOOLEAN :
        /\ BthHfpSendIoCtrlSynchronously(ok)
        /\ StartStep("Connection", "CodecId", ok)
        /\ cached' = IF ok THEN [cached EXCEPT !["Conn"] = remote["Conn"]] ELSE cached
    /\ UNCHANGED <<env, filters, target, request, completion, worker, remote, news, call, stream, bthVars>>

GetBthHfpCodecId ==
    /\ \E ok \in BOOLEAN, codec \in {0, remote["Codec"]} :
        /\ cached["Conn"] = 0 => ok /\ codec = 0
        /\ StartStep("CodecId", "Minipairs", ok)
        /\ cached' = IF ok THEN [cached EXCEPT !["Codec"] = codec] ELSE cached
    /\ UNCHANGED <<env, filters, target, request, completion, worker, remote, news, call, stream, bthVars>>

\* Copies of the endpoints' descriptions, with the device's name and category:
\* of the pins exactly one is of the audio category and one is not.
BthHfpUpdateCustomEndpointCategory(ok) == ok \in BOOLEAN
BthHfpCreateCustomEndpointMinipair ==
    /\ \E ok, named \in BOOLEAN :
        /\ BthHfpUpdateCustomEndpointCategory(named) /\ (ok => named)
        /\ StartStep("Minipairs", "SpeakerFilters", ok)
    /\ UNCHANGED <<env, filters, target, request, completion, worker, values, call, stream, bthVars>>

\* The miniports set their handlers when they are installed and take them
\* back when they are removed.
BthHfpSetHandlers(d, on) == filters' = IF on THEN filters \cup {d} ELSE filters \ {d}

BthHfpInstallSpeakerFilters ==
    /\ \E ok \in BOOLEAN :
        /\ StartStep("SpeakerFilters", "MicFilters", ok) /\ BthHfpSetHandlers("Speaker", ok)
    /\ UNCHANGED <<env, target, request, completion, worker, values, call, stream, bthVars>>

\* A failure of NotifyEndpointPair leaves the filters installed.
BthHfpInstallMicFilters ==
    /\ \E ok, paired \in BOOLEAN :
        /\ StartStep("MicFilters", "EnableNrec", ok /\ paired) /\ BthHfpSetHandlers("Mic", ok)
    /\ UNCHANGED <<env, target, request, completion, worker, values, call, stream, bthVars>>

BthHfpEnable(r, here, next) ==
    /\ \E ok \in BOOLEAN : BthHfpSendIoCtrlAsynchronously(r, ok) /\ StartStep(here, next, ok)
    /\ UNCHANGED <<env, filters, target, completion, worker, values, call, stream, bthVars>>

EnableBthHfpNrecDisableStatusNotification == BthHfpEnable("Nrec", "EnableNrec", "EnableSpeaker")
EnableBthHfpSpeakerVolumeStatusNotification == BthHfpEnable("SpkVol", "EnableSpeaker", "EnableMic")
EnableBthHfpMicVolumeStatusNotification == BthHfpEnable("MicVol", "EnableMic", "EnableConnection")
EnableBthHfpConnectionStatusNotification == BthHfpEnable("Conn", "EnableConnection", "Started")

BthHfpStart ==
    \/ SetBthHfpDeviceCapabilities \/ GetBthHfpDescriptor \/ GetBthHfpVolumePropertyValues
    \/ BthHfpStartVolumeLevels \/ GetBthHfpConnectionStatus \/ GetBthHfpCodecId
    \/ BthHfpCreateCustomEndpointMinipair \/ BthHfpInstallSpeakerFilters \/ BthHfpInstallMicFilters
    \/ EnableBthHfpNrecDisableStatusNotification \/ EnableBthHfpSpeakerVolumeStatusNotification
    \/ EnableBthHfpMicVolumeStatusNotification \/ EnableBthHfpConnectionStatusNotification

\* Mutant: the target is purged without waiting for the requests.
MutPurgeNoWait ==
    \/ /\ life = "Started" /\ life' = "Flush"
       /\ m_State' = "Stopping" /\ target' = "Purged" /\ UNCHANGED filters
    \/ /\ life = "Flush" /\ life' = "RemoveSpeaker"
       /\ WdfWorkItemFlushed /\ UNCHANGED <<object, target>>
    \/ /\ life = "RemoveSpeaker" /\ life' = "RemoveMic"
       /\ BthHfpSetHandlers("Speaker", FALSE) /\ UNCHANGED <<m_State, target>>
    \/ /\ life = "RemoveMic" /\ life' = "Released"
       /\ BthHfpSetHandlers("Mic", FALSE) /\ m_State' = "Stopped" /\ UNCHANGED target

\* Stop purges the target and waits for every request that was sent, waits
\* for the work item, and only then removes the filters.
BthHfpStop ==
    \/ /\ life = "Started" /\ life' = "Purge"
       /\ m_State' = "Stopping" /\ target' = "Purging" /\ UNCHANGED filters
    \/ /\ life = "Purge" /\ life' = "Flush"
       /\ \A r \in Requests : ~Pending(r)
       /\ target' = "Purged" /\ UNCHANGED object
    \/ /\ life = "Flush" /\ life' = "RemoveSpeaker"
       /\ WdfWorkItemFlushed /\ UNCHANGED <<object, target>>
    \/ /\ life = "RemoveSpeaker" /\ life' = "RemoveMic"
       /\ BthHfpSetHandlers("Speaker", FALSE) /\ UNCHANGED <<m_State, target>>
    \/ /\ life = "RemoveMic" /\ life' = "Released"
       /\ BthHfpSetHandlers("Mic", FALSE) /\ m_State' = "Stopped" /\ UNCHANGED target

BthHfpStopping ==
    BthHfpStop /\ UNCHANGED <<env, request, completion, worker, values, call, stream, bthVars>>

BthHfpThreads(d) ==
    \/ BthHfpGetVolume(d) \/ BthHfpSetVolume(d) \/ BthHfpConnect(d)
    \/ BthHfpStreamStart(d) \/ BthHfpStreamSuspend(d)

\* The steps of a call that is under way.
BthHfpCall(d) ==
    \/ BthHfpGotVolume(d) \/ SetBthHfpStreamOpen(d) \/ EnableBthHfpStreamStatusNotification(d)
    \/ BthHfpUndoStart(d) \/ SetBthHfpStreamClose(d) \/ BthHfpCancelStreamRequest(d)
    \/ StopBthHfpStreamStatusNotification(d)

BthHfpLife ==
    \/ BthHfpInit \/ BthHfpCreateWorkItem \/ BthHfpCreateCollection \/ BthHfpOpenTarget
    \/ BthHfpCopyLinkName \/ BthHfpCreateNrecRequest \/ BthHfpCreateVolumeRequests
    \/ BthHfpCreateConnectionRequest \/ BthHfpCreateStreamRequest \/ BthHfpCreateFilterNames
    \/ BthHfpStart

BthHfpNext ==
    \/ BthHfpLife \/ BthHfpStopping \/ BthHfpDestructor
    \/ \E d \in Devices : BthHfpThreads(d) \/ BthHfpCall(d)
    \/ \E w \in Workers : (WdfWorkItemRun(w) /\ UNCHANGED bthVars)
                          \/ EvtBthHfpDeviceNotificationStatusWorkItem(w)
    \/ \E r \in Notifications : EvtBthHfpDeviceNotificationStatusCompletion(r)
    \/ EvtBthHfpDeviceStreamStatusCompletion
    \/ \E p \in Properties : RemoteChange(p) /\ UNCHANGED bthVars

BthHfpSpecInit ==
    m_nStreams = 0 /\ running = [d \in Devices |-> 0] /\ overlapped = FALSE
=============================================================================
