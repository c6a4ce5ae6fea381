--------------------------- MODULE SidebandDevice ---------------------------
(***************************************************************************)
(* What the sideband audio devices of the driver (Bluetooth hands-free,    *)
(* USB headset) have in common: the framework objects they use (external:  *)
(* an I/O target, requests, a work item, events), the device behind the    *)
(* target (external), and the state they keep under the same names.        *)
(*                                                                         *)
(* A device is used by several threads: the adapter's work item (life),    *)
(* which creates, starts, stops and releases it; one thread per filter     *)
(* (call), in which the miniports call it; the device's own work item      *)
(* (worker), whose callback can run twice at a time because it may be      *)
(* enqueued again while it runs; and the completion routines, which run    *)
(* when the lower driver completes a request.                              *)
(***************************************************************************)
EXTENDS Integers, Sequences, FiniteSets

CONSTANTS
    MaxErrors,      \* *_NOTIFICATION_MAX_ERROR_COUNT
    MaxStreams      \* streams a filter has at a time

ASSUME SidebandAssumption == MaxErrors \in Nat /\ MaxStreams \in Nat \ {0}

Devices == {"Speaker", "Mic"}               \* eDeviceType
Volume == [d \in Devices |-> IF d = "Speaker" THEN "SpkVol" ELSE "MicVol"]
Mute == [d \in Devices |-> IF d = "Speaker" THEN "SpkMute" ELSE "MicMute"]
Notifications == {"Nrec", "SpkVol", "MicVol", "SpkMute", "MicMute", "Conn"}
StreamRequests == {"Stream", "SpkStream", "MicStream"}
Requests == Notifications \cup StreamRequests
Properties == Notifications \cup {"Codec"}
Failed == 2                                 \* a request completed with an error
Workers == {1, 2}
Idle == [at |-> "Idle", value |-> 0]
NoWork == [at |-> "Idle", req |-> "None", to |-> {}]

VARIABLES
    use,             \* what goes on in this behaviour: "Stream", or the
                     \* properties that change and are asked for
    descriptor,      \* the device: its endpoints, and whether they have a volume
    m_State, life,   \* state of the object; where the adapter's thread is
    filters,         \* devices whose filters are installed (their handlers are set)
    target,          \* m_WdfIoTarget
    request,         \* state of each request object
    errors, buffer,  \* its context: errors in a row, what it was completed with
    m_ReqCollection, \* completed requests for the work item, oldest first
    enqueued,        \* m_WorkItem is enqueued
    worker,          \* its running callbacks
    remote, news,    \* the device's properties; changes it has not reported yet
    cached,          \* the driver's copies
    call,            \* where each filter's thread is in a call of the device
    status, event    \* m_*StreamStatus, m_*StreamStatusEvent

env == <<use, descriptor>>
object == <<m_State, filters>>
completion == <<errors, buffer, m_ReqCollection, enqueued>>
values == <<remote, news, cached>>
stream == <<status, event>>
sidebandVars == <<env, object, life, target, request, completion, worker,
                  values, call, stream>>

(***************************************************************************)
(* The framework and the lower driver.                                     *)
(***************************************************************************)
Pending(r) == request[r] \in {"Sent", "Cancelling"}

\* A request the lower driver will complete soon; one it may complete with an
\* error or an update at any time.
Cancelled(r) == request[r] = "Cancelling" \/ target = "Purging"
Disturbed(r) == {"Fail", r} \subseteq use

\* WdfRequestSend: a purged target refuses. A request that was completed and
\* not prepared by WdfRequestReuse may be taken or refused.
WdfRequestSend(r, sent) ==
    /\ sent => target = "Open" /\ request[r] \in {"Ready", "Done"}
    /\ request' = IF sent THEN [request EXCEPT ![r] = "Sent"] ELSE request

\* WdfIoTargetSendIoctlSynchronously: an answer, an error, or no answer in time.
WdfIoTargetSendIoctlSynchronously(ok) == ok => target = "Open"

\* WdfRequestCancelSentRequest: nothing happens to a request that is not sent.
WdfRequestCancelSentRequest(r) ==
    request' = IF request[r] = "Sent" THEN [request EXCEPT ![r] = "Cancelling"] ELSE request

\* A system thread takes the work item from its queue and runs the callback.
WdfWorkItemRun(w) ==
    /\ enqueued /\ worker[w].at = "Idle"
    /\ \A v \in Workers : v < w => worker[v].at # "Idle"
    /\ enqueued' = FALSE
    /\ worker' = [worker EXCEPT ![w].at = "Take"]
    /\ UNCHANGED <<env, object, life, target, request, errors, buffer,
                   m_ReqCollection, values, call, stream>>

WdfWorkItemFlushed == ~enqueued /\ \A w \in Workers : worker[w].at = "Idle"

\* The device changes a property. It reports the change by completing the
\* request for it that is pending, or else the next one it gets.
RemoteChange(p) ==
    /\ p \in use /\ target = "Open"
    /\ remote' = [remote EXCEPT ![p] = 1 - @]
    /\ news' = [news EXCEPT ![p] = TRUE]
    /\ UNCHANGED <<env, object, life, target, request, completion, worker,
                   cached, call, stream>>

(***************************************************************************)
(* Steps of the threads.                                                   *)
(***************************************************************************)
\* Init leaves at the first failure; the adapter then releases the object.
InitStep(here, next, ok) == life = here /\ life' = IF ok THEN next ELSE "Released"

\* Start leaves at the first failure with the device in the failed state.
StartStep(here, next, ok) ==
    /\ life = here
    /\ life' = IF ok THEN next ELSE "Started"
    /\ m_State' = IF ok THEN m_State ELSE "Failed"

\* The thread of filter d goes on at here, or leaves the call.
Goto(d, here) == call' = [call EXCEPT ![d].at = here]
Return(d) == call' = [call EXCEPT ![d] = Idle]

\* A callback of the work item goes on at here.
WorkerAt(w, here) == worker' = [worker EXCEPT ![w].at = here]

\* The callback calls the handlers that are set, or goes on at once.
CallHandlers(w, here, next, to) ==
    worker' = [worker EXCEPT ![w].at = IF to = {} THEN next ELSE here, ![w].to = to]

SidebandInit ==
    /\ m_State = "Invalid" /\ life = "New" /\ filters = {} /\ target = "Closed"
    /\ request = [r \in Requests |-> "None"]
    /\ errors = [r \in Notifications |-> 0]
    /\ buffer = [r \in Notifications |-> 0]
    /\ m_ReqCollection = <<>> /\ enqueued = FALSE
    /\ worker = [w \in Workers |-> NoWork]
    /\ remote = [p \in Properties |-> 0] /\ news = [p \in Properties |-> FALSE]
    /\ cached = [p \in Properties |-> 0]
    /\ call = [d \in Devices |-> Idle]
    /\ status = [s \in StreamRequests |-> "Invalid"]
    /\ event = [s \in StreamRequests |-> TRUE]
=============================================================================
