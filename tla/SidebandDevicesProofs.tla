----------------------- MODULE SidebandDevicesProofs ------------------------
(***************************************************************************)
(* Proofs about SidebandDevices, for any devices, any bound on errors and  *)
(* any number of streams.  The steps of both kinds of devices are first    *)
(* shown to be steps of a few sorts, by what they do to the state they     *)
(* share; each sort is then shown to keep the invariants.                  *)
(***************************************************************************)
EXTENDS SidebandDevices, SequenceTheorems, FiniteSetTheorems, TLAPS

core == <<m_State, life, filters, target, request, m_ReqCollection, enqueued, worker>>
uses == <<call, running, held, playing>>

-----------------------------------------------------------------------------
(***************************************************************************)
(* Steps that leave the object, its requests and its work item alone       *)
(***************************************************************************)

\* A step of a call that sends and cancels nothing.
CallStep == UNCHANGED <<kind, core>> /\ (New => UNCHANGED uses)

LEMMA CallStepKeeps == QuietInv /\ CallStep => QuietInv'
BY DEF CallStep, core, uses, QuietInv, LifeAgrees, New, Purged, Flushed, NewIsUntouched, PurgedIsEmpty, FlushedIsIdle,
   MicNext, FiltersAgree, WorkersAgree, CollectionAgrees, CallbackSafe, CollectedIsServed, Pending, WdfWorkItemFlushed

\* A step of a call or of the lower driver that changes the stream request s.
StreamRequestStep(s, state) ==
    /\ ~New /\ UNCHANGED <<kind, m_State, life, filters, target, m_ReqCollection, enqueued, worker>>
    /\ request' = [request EXCEPT ![s] = state]
    /\ \/ state \in {"Ready", "Done"}
       \/ state = "Sent" /\ target = "Open"
       \/ state = "Cancelling" /\ Pending(s)

LEMMA StreamRequestStepKeeps ==
    ASSUME QuietInv, NEW s \in StreamRequests, NEW state, StreamRequestStep(s, state)
    PROVE  QuietInv'
<1>1. s \in Requests /\ s \notin Notifications /\ Notifications \subseteq Requests
  BY DEF StreamRequests, Requests, Notifications
<1>2. /\ request' \in [Requests -> RequestStates]
      /\ \A r \in Notifications : request'[r] = request[r]
      /\ \A r \in Requests : Pending(r)' => Pending(r) \/ target = "Open"
  BY <1>1 DEF StreamRequestStep, QuietInv, RequestStates, Pending
<1>3. ~New'
  BY DEF StreamRequestStep, New
<1>4. LifeAgrees' /\ NewIsUntouched' /\ FlushedIsIdle' /\ FiltersAgree' /\ WorkersAgree' /\ CallbackSafe'
  BY <1>3 DEF StreamRequestStep, QuietInv, LifeAgrees, New, NewIsUntouched, Flushed, FlushedIsIdle, MicNext,
    FiltersAgree, WorkersAgree, CallbackSafe, WdfWorkItemFlushed
<1>5. PurgedIsEmpty'
  BY <1>2 DEF StreamRequestStep, QuietInv, Purged, PurgedIsEmpty
<1>6. CollectionAgrees' /\ CollectedIsServed'
  <2>1. UNCHANGED <<m_ReqCollection, enqueued, worker>>
    BY DEF StreamRequestStep
  <2>2. \A i \in 1..Len(m_ReqCollection) : m_ReqCollection[i] \in Notifications
    BY DEF QuietInv, CollectionAgrees
  <2>3. \A w \in Workers : worker[w].req # "None" => worker[w].req \in Notifications
    BY DEF QuietInv, WorkersAgree, WorkerRecord
  <2> QED
    BY <1>2, <2>1, <2>2, <2>3 DEF QuietInv, CollectionAgrees, CollectedIsServed
<1> QED
  BY <1>2, <1>4, <1>5, <1>6 DEF StreamRequestStep, QuietInv

-----------------------------------------------------------------------------
(***************************************************************************)
(* Notifications: the completion routine and the work item                 *)
(***************************************************************************)

\* A request that comes back is dropped, or collected for the work item.
CompletionStep(r) ==
    /\ Pending(r) /\ UNCHANGED <<kind, m_State, life, filters, target, worker, uses>>
    /\ \/ request' = [request EXCEPT ![r] = "Done"] /\ UNCHANGED <<m_ReqCollection, enqueued>>
       \/ /\ request' = [request EXCEPT ![r] = "Collected"]
          /\ m_ReqCollection' = Append(m_ReqCollection, r) /\ enqueued' = TRUE

LEMMA CompletionStepKeeps ==
    ASSUME QuietInv, NEW r \in Notifications, CompletionStep(r)
    PROVE  QuietInv'
<1>1. r \in Requests /\ Notifications \subseteq Requests /\ request[r] \in {"Sent", "Cancelling"}
  BY DEF Requests, CompletionStep, Pending
<1>2. /\ request' \in [Requests -> RequestStates] /\ enqueued' \in BOOLEAN
      /\ \A q \in Requests \ {r} : request'[q] = request[q]
      /\ request'[r] \in {"Done", "Collected"}
  BY <1>1 DEF CompletionStep, QuietInv, RequestStates
<1>3. ~New
  BY <1>1 DEF QuietInv, NewIsUntouched
<1>4. target \notin {"Purged", "Closed"} /\ ~Purged /\ ~Flushed
  BY <1>1 DEF QuietInv, PurgedIsEmpty, Pending, Purged, Flushed
<1>5. LifeAgrees' /\ NewIsUntouched' /\ FlushedIsIdle' /\ FiltersAgree' /\ WorkersAgree' /\ CallbackSafe' /\ PurgedIsEmpty'
  BY <1>3, <1>4 DEF CompletionStep, QuietInv, LifeAgrees, New, NewIsUntouched, Flushed, FlushedIsIdle, MicNext,
    FiltersAgree, WorkersAgree, CallbackSafe, Purged, PurgedIsEmpty
<1>6. \A i \in 1..Len(m_ReqCollection) : m_ReqCollection[i] \in Notifications /\ m_ReqCollection[i] # r
  BY <1>1 DEF QuietInv, CollectionAgrees
<1>7. \A w \in Workers : worker[w].req # "None" => worker[w].req \in Notifications /\ worker[w].req # r
  BY <1>1 DEF QuietInv, CollectionAgrees, WorkersAgree, WorkerRecord
<1>8. CASE UNCHANGED <<m_ReqCollection, enqueued>>
  <2>1. CollectionAgrees'
    BY <1>1, <1>2, <1>6, <1>7, <1>8 DEF CompletionStep, QuietInv, CollectionAgrees
  <2>2. CollectedIsServed'
    BY <1>1, <1>2, <1>8 DEF CompletionStep, QuietInv, CollectedIsServed
  <2> QED
    BY <1>2, <1>5, <2>1, <2>2 DEF CompletionStep, QuietInv
<1>9. CASE m_ReqCollection' = Append(m_ReqCollection, r) /\ enqueued' = TRUE /\ request' = [request EXCEPT ![r] = "Collected"]
  <2>1. /\ m_ReqCollection' \in Seq(Notifications) /\ Len(m_ReqCollection') = Len(m_ReqCollection) + 1
        /\ Len(m_ReqCollection) \in Nat
        /\ \A i \in 1..Len(m_ReqCollection) : m_ReqCollection'[i] = m_ReqCollection[i]
        /\ m_ReqCollection'[Len(m_ReqCollection) + 1] = r
    BY <1>9 DEF QuietInv, CollectionAgrees
  <2>2. \A i \in 1..Len(m_ReqCollection') : i \in 1..Len(m_ReqCollection) \/ i = Len(m_ReqCollection) + 1
    BY <2>1
  <2>3. \A i \in 1..Len(m_ReqCollection') : request'[m_ReqCollection'[i]] = "Collected"
    <3> SUFFICES ASSUME NEW i \in 1..Len(m_ReqCollection') PROVE request'[m_ReqCollection'[i]] = "Collected"
      OBVIOUS
    <3>1. CASE i \in 1..Len(m_ReqCollection)
      BY <1>1, <1>2, <1>6, <2>1, <3>1 DEF QuietInv, CollectionAgrees
    <3>2. CASE i = Len(m_ReqCollection) + 1
      BY <1>1, <1>9, <2>1, <3>2 DEF QuietInv
    <3> QED
      BY <2>2, <3>1, <3>2
  <2>4. \A i, j \in 1..Len(m_ReqCollection') : m_ReqCollection'[i] = m_ReqCollection'[j] => i = j
    BY <1>6, <2>1, <2>2 DEF QuietInv, CollectionAgrees
  <2>5. CollectionAgrees'
    BY <1>1, <1>2, <1>7, <2>1, <2>3, <2>4 DEF CompletionStep, QuietInv, CollectionAgrees
  <2> QED
    BY <1>2, <1>5, <1>9, <2>5 DEF CompletionStep, QuietInv, CollectedIsServed
<1> QED
  BY <1>8, <1>9 DEF CompletionStep

\* The work item starts.
LEMMA RunStepKeeps ==
    ASSUME QuietInv, NEW w \in Workers, WdfWorkItemRun(w), UNCHANGED <<kind, running, held, playing>>
    PROVE  QuietInv'
<1>1. /\ enqueued /\ enqueued' = FALSE /\ worker[w].at = "Idle"
      /\ UNCHANGED <<kind, m_State, life, filters, target, request, m_ReqCollection, uses>>
      /\ worker' = [worker EXCEPT ![w].at = "Take"]
  BY DEF WdfWorkItemRun, object, uses, QuietInv
<1>2. ~New /\ ~Flushed
  BY <1>1 DEF QuietInv, NewIsUntouched, FlushedIsIdle, WdfWorkItemFlushed
<1>3. /\ worker' \in [Workers -> WorkerRecord]
      /\ worker'[w].at = "Take" /\ worker'[w].req = worker[w].req /\ worker'[w].to = worker[w].to
      /\ \A v \in Workers \ {w} : worker'[v] = worker[v]
  BY <1>1 DEF QuietInv, WorkersAgree, WorkerRecord
<1>4. WorkersAgree' /\ CallbackSafe'
  BY <1>1, <1>3 DEF QuietInv, WorkersAgree, CallbackSafe
<1>5. CollectionAgrees' /\ CollectedIsServed'
  BY <1>1, <1>3 DEF QuietInv, CollectionAgrees, CollectedIsServed
<1> QED
  BY <1>1, <1>2, <1>4, <1>5 DEF QuietInv, LifeAgrees, New, NewIsUntouched, Flushed, FlushedIsIdle, MicNext,
    FiltersAgree, Purged, PurgedIsEmpty, Pending

\* A callback takes the oldest request, or ends.
TakeStep(w) ==
    /\ worker[w].at = "Take" /\ UNCHANGED <<kind, m_State, life, filters, target, enqueued, uses>>
    /\ \/ /\ m_ReqCollection = <<>> /\ worker' = [worker EXCEPT ![w] = NoWork]
          /\ UNCHANGED <<request, m_ReqCollection>>
       \/ /\ m_ReqCollection # <<>> /\ m_ReqCollection' = Tail(m_ReqCollection)
          /\ request' = [request EXCEPT ![Head(m_ReqCollection)] = "Taken"]
          /\ \E at \in {"Resend", "Update"} :
               worker' = [worker EXCEPT ![w] = [at |-> at, req |-> Head(m_ReqCollection), to |-> {}]]

LEMMA TakeStepKeeps ==
    ASSUME QuietInv, NEW w \in Workers, TakeStep(w)
    PROVE  QuietInv'
<1>1. ~New /\ ~Flushed
  BY DEF TakeStep, QuietInv, NewIsUntouched, FlushedIsIdle, WdfWorkItemFlushed
<1>2. LifeAgrees' /\ NewIsUntouched' /\ FlushedIsIdle' /\ FiltersAgree'
  BY <1>1 DEF TakeStep, QuietInv, LifeAgrees, New, NewIsUntouched, Flushed, FlushedIsIdle, MicNext, FiltersAgree
<1>3. CASE m_ReqCollection = <<>> /\ worker' = [worker EXCEPT ![w] = NoWork] /\ UNCHANGED <<request, m_ReqCollection>>
  <2>1. /\ worker' \in [Workers -> WorkerRecord] /\ worker'[w].at = "Idle"
        /\ worker'[w].req = "None" /\ worker'[w].to = {}
        /\ \A v \in Workers \ {w} : worker'[v] = worker[v]
    BY <1>3 DEF NoWork, QuietInv, WorkersAgree, WorkerRecord
  <2>2. WorkersAgree' /\ CallbackSafe'
    BY <2>1 DEF TakeStep, QuietInv, WorkersAgree, CallbackSafe
  <2>3. CollectionAgrees' /\ CollectedIsServed' /\ PurgedIsEmpty'
    BY <1>3, <2>1 DEF TakeStep, QuietInv, CollectionAgrees, CollectedIsServed, Purged, PurgedIsEmpty, Pending
  <2> QED
    BY <1>2, <1>3, <2>2, <2>3 DEF TakeStep, QuietInv
<1>4. CASE m_ReqCollection # <<>>
  <2> DEFINE r == Head(m_ReqCollection)
  <2>1. PICK at \in {"Resend", "Update"} : worker' = [worker EXCEPT ![w] = [at |-> at, req |-> r, to |-> {}]]
    BY <1>4 DEF TakeStep
  <2>2. m_ReqCollection' = Tail(m_ReqCollection) /\ request' = [request EXCEPT ![r] = "Taken"]
    BY <1>4 DEF TakeStep
  <2>3. /\ m_ReqCollection' \in Seq(Notifications) /\ Len(m_ReqCollection') = Len(m_ReqCollection) - 1
        /\ Len(m_ReqCollection) \in Nat \ {0}
        /\ \A i \in 1..Len(m_ReqCollection') : m_ReqCollection'[i] = m_ReqCollection[i + 1]
        /\ r = m_ReqCollection[1] /\ r \in Notifications
    BY <1>4, <2>2 DEF QuietInv, CollectionAgrees
  <2>4. \A i \in 1..Len(m_ReqCollection') : i + 1 \in 1..Len(m_ReqCollection) /\ i + 1 # 1
    BY <2>3
  <2> HIDE DEF r
  <2>5. request[r] = "Collected" /\ r \in Requests /\ Notifications \subseteq Requests /\ r # "None"
    BY <2>3 DEF QuietInv, CollectionAgrees, Requests, Notifications
  <2>6. /\ worker' \in [Workers -> WorkerRecord] /\ worker'[w].at \notin {"Idle", "Take"}
        /\ worker'[w].req = r /\ worker'[w].to = {}
        /\ \A v \in Workers \ {w} : worker'[v] = worker[v]
    BY <2>1, <2>3 DEF QuietInv, WorkersAgree, WorkerRecord
  <2>7. /\ request' \in [Requests -> RequestStates] /\ request'[r] = "Taken"
        /\ \A q \in Requests \ {r} : request'[q] = request[q]
    BY <2>2, <2>5 DEF QuietInv, RequestStates
  <2>8. WorkersAgree' /\ CallbackSafe'
    BY <2>5, <2>6 DEF TakeStep, QuietInv, WorkersAgree, CallbackSafe
  <2>9. PurgedIsEmpty'
    BY <2>7 DEF TakeStep, QuietInv, Purged, PurgedIsEmpty, Pending
  <2>10. \A v \in Workers \ {w} : worker[v].req # "None" => worker[v].req \in Requests \ {r}
    BY <2>5 DEF QuietInv, WorkersAgree, WorkerRecord, CollectionAgrees
  <2>11. \A i \in 1..Len(m_ReqCollection') : m_ReqCollection'[i] \in Requests \ {r}
    BY <2>3, <2>4, <2>5 DEF QuietInv, CollectionAgrees
  <2>12. CollectionAgrees'
    <3>1. \A i \in 1..Len(m_ReqCollection') : request'[m_ReqCollection'[i]] = "Collected"
      BY <2>3, <2>4, <2>7, <2>11 DEF QuietInv, CollectionAgrees
    <3>2. \A i, j \in 1..Len(m_ReqCollection') : m_ReqCollection'[i] = m_ReqCollection'[j] => i = j
      <4> SUFFICES ASSUME NEW i \in 1..Len(m_ReqCollection'), NEW j \in 1..Len(m_ReqCollection'),
                          m_ReqCollection'[i] = m_ReqCollection'[j] PROVE i = j
        OBVIOUS
      <4>1. i + 1 = j + 1
        BY <2>3, <2>4 DEF QuietInv, CollectionAgrees
      <4> QED
        BY <2>3, <4>1
    <3>3. \A v \in Workers : worker'[v].req # "None" => request'[worker'[v].req] = "Taken"
      BY <2>6, <2>7, <2>10 DEF QuietInv, CollectionAgrees
    <3>4. \A u, v \in Workers : u # v /\ worker'[u].req = worker'[v].req => worker'[u].req = "None"
      BY <2>6, <2>10 DEF QuietInv, CollectionAgrees
    <3> QED
      BY <2>3, <3>1, <3>2, <3>3, <3>4 DEF CollectionAgrees
  <2>13. CollectedIsServed'
    BY <2>6 DEF CollectedIsServed
  <2> QED
    BY <1>2, <2>7, <2>8, <2>9, <2>12, <2>13 DEF TakeStep, QuietInv
<1> QED
  BY <1>3, <1>4 DEF TakeStep

\* A callback goes on with its request, calling handlers of filters that are there.
WorkStep(w) ==
    /\ UNCHANGED <<kind, m_State, life, filters, target, request, m_ReqCollection, enqueued, uses>>
    /\ worker[w].at \notin {"Idle", "Take"} /\ worker'[w].at \in {"Status", "Callback", "Formats", "Resend"}
    /\ worker' \in [Workers -> WorkerRecord] /\ \A v \in Workers \ {w} : worker'[v] = worker[v]
    /\ worker'[w].req = worker[w].req /\ worker'[w].to \subseteq filters
    /\ worker'[w].at \in {"Callback", "Formats"} \/ worker'[w].to = {}

LEMMA WorkStepKeeps ==
    ASSUME QuietInv, NEW w \in Workers, WorkStep(w)
    PROVE  QuietInv'
<1>1. ~New /\ ~Flushed
  BY DEF WorkStep, QuietInv, NewIsUntouched, FlushedIsIdle, WdfWorkItemFlushed
<1>2. WorkersAgree' /\ CallbackSafe'
  BY DEF WorkStep, QuietInv, WorkersAgree, CallbackSafe
<1>3. CollectionAgrees' /\ CollectedIsServed'
  BY DEF WorkStep, QuietInv, CollectionAgrees, CollectedIsServed
<1> QED
  BY <1>1, <1>2, <1>3 DEF WorkStep, QuietInv, LifeAgrees, New, NewIsUntouched, Flushed, FlushedIsIdle, MicNext,
    FiltersAgree, Purged, PurgedIsEmpty, Pending

\* A callback sends its request again and takes the next one, or ends.
ResendStep(w) ==
    /\ worker[w].at = "Resend"
    /\ UNCHANGED <<kind, m_State, life, filters, target, m_ReqCollection, enqueued, uses>>
    /\ \/ /\ target = "Open" /\ request' = [request EXCEPT ![worker[w].req] = "Sent"]
          /\ worker' = [worker EXCEPT ![w] = [NoWork EXCEPT !.at = "Take"]]
       \/ /\ request' = [request EXCEPT ![worker[w].req] = "Refused"]
          /\ worker' = [worker EXCEPT ![w] = NoWork]

LEMMA ResendStepKeeps ==
    ASSUME QuietInv, NEW w \in Workers, ResendStep(w)
    PROVE  QuietInv'
<1> DEFINE r == worker[w].req
<1>1. ~New /\ ~Flushed
  BY DEF ResendStep, QuietInv, NewIsUntouched, FlushedIsIdle, WdfWorkItemFlushed
<1>2. LifeAgrees' /\ NewIsUntouched' /\ FlushedIsIdle' /\ FiltersAgree'
  BY <1>1 DEF ResendStep, QuietInv, LifeAgrees, New, NewIsUntouched, Flushed, FlushedIsIdle, MicNext, FiltersAgree
<1>3. r \in Notifications /\ r \in Requests /\ Notifications \subseteq Requests /\ request[r] = "Taken" /\ r # "None"
  BY DEF ResendStep, QuietInv, WorkersAgree, WorkerRecord, CollectionAgrees, Requests
<1>4. /\ request' \in [Requests -> RequestStates]
      /\ request'[r] = "Refused" \/ (request'[r] = "Sent" /\ target = "Open" /\ worker'[w].at = "Take")
      /\ \A q \in Requests \ {r} : request'[q] = request[q]
  BY <1>3 DEF ResendStep, QuietInv, RequestStates, WorkersAgree, NoWork
<1>5. /\ worker' \in [Workers -> WorkerRecord] /\ worker'[w].at \in {"Idle", "Take"}
      /\ worker'[w].req = "None" /\ worker'[w].to = {}
      /\ \A v \in Workers \ {w} : worker'[v] = worker[v]
  BY DEF ResendStep, QuietInv, WorkersAgree, WorkerRecord, NoWork
<1>6. WorkersAgree' /\ CallbackSafe'
  BY <1>5 DEF ResendStep, QuietInv, WorkersAgree, CallbackSafe
<1>7. PurgedIsEmpty'
  BY <1>4 DEF ResendStep, QuietInv, Purged, PurgedIsEmpty, Pending
<1>8. \A i \in 1..Len(m_ReqCollection) : m_ReqCollection[i] \in Requests \ {r}
  BY <1>3 DEF QuietInv, CollectionAgrees
<1>9. \A v \in Workers \ {w} : worker[v].req # "None" => worker[v].req \in Requests \ {r}
  BY <1>3 DEF QuietInv, WorkersAgree, WorkerRecord, CollectionAgrees
<1>10. CollectionAgrees'
  BY <1>4, <1>5, <1>8, <1>9 DEF ResendStep, QuietInv, CollectionAgrees
<1>11. CollectedIsServed'
  BY <1>3, <1>4 DEF CollectedIsServed
<1> QED
  BY <1>2, <1>4, <1>6, <1>7, <1>10, <1>11 DEF ResendStep, QuietInv

-----------------------------------------------------------------------------
(***************************************************************************)
(* The adapter's thread                                                    *)
(***************************************************************************)

\* Init goes on, fails, or ends with a device that runs.
CreateStep ==
    /\ UNCHANGED <<kind, filters, m_ReqCollection, enqueued, worker, uses>>
    /\ target' \in {target, "Open"}
    /\ \E made \in SUBSET Requests : request' = [r \in Requests |-> IF r \in made THEN "Ready" ELSE request[r]]
    /\ \/ life = "New" /\ life' \in Creating /\ m_State' = "Initializing"
       \/ life \in Creating /\ life' \in Creating \cup {"Released"} /\ UNCHANGED m_State
       \/ life \in Creating /\ life' \in Asking /\ m_State' = "Running"

LEMMA CreateStepKeeps == QuietInv /\ CreateStep => QuietInv'
<1> SUFFICES ASSUME QuietInv, CreateStep PROVE QuietInv'
  OBVIOUS
<1>1. New
  BY DEF CreateStep, QuietInv, LifeAgrees, New, Creating, Asking, Installing, Stopping, Ended
<1>2. /\ WdfWorkItemFlushed /\ filters = {} /\ m_ReqCollection = <<>>
      /\ \A r \in Requests : request[r] \in {"None", "Ready"}
      /\ \A d \in Devices : call[d] = Idle /\ running[d] = 0 /\ held[d] = 0 /\ playing[d] = 0
  BY <1>1 DEF QuietInv, NewIsUntouched
<1>3. /\ request' \in [Requests -> RequestStates] /\ target' \in {"Closed", "Open", "Purging", "Purged"}
      /\ \A r \in Requests : request'[r] \in {"None", "Ready"} /\ ~Pending(r)'
  BY <1>2 DEF CreateStep, QuietInv, RequestStates, Pending
<1>4. LifeAgrees' /\ m_State' # "Stopped" /\ life' \notin Stopping
  BY DEF CreateStep, QuietInv, LifeAgrees, Creating, Asking, Installing, Stopping, Ended
<1>5. ~Purged' /\ ~Flushed'
  BY <1>4 DEF Purged, Flushed, Stopping
<1>6. NewIsUntouched' /\ FlushedIsIdle' /\ PurgedIsEmpty'
  BY <1>2, <1>3, <1>5 DEF CreateStep, NewIsUntouched, FlushedIsIdle, PurgedIsEmpty, WdfWorkItemFlushed, uses
<1>7. FiltersAgree' /\ WorkersAgree' /\ CallbackSafe' /\ CollectedIsServed'
  BY <1>2 DEF CreateStep, QuietInv, FiltersAgree, WorkersAgree, CallbackSafe, CollectedIsServed
<1>8. CollectionAgrees'
  <2>1. \A w \in Workers : worker[w].req = "None"
    BY <1>2 DEF QuietInv, WorkersAgree, WdfWorkItemFlushed
  <2> QED
    BY <1>2, <2>1 DEF CreateStep, CollectionAgrees
<1> QED
  BY <1>3, <1>4, <1>6, <1>7, <1>8 DEF CreateStep, QuietInv

\* A step of Start: a filter is installed, a request sent, or neither.
StartSort ==
    /\ life \in Asking \cup Installing /\ life' \in Asking \cup Installing /\ m_State' \in {m_State, "Failed"}
    /\ UNCHANGED <<kind, target, m_ReqCollection, enqueued, worker, uses>>
    /\ \/ /\ filters' = filters /\ (life' \in Asking => life \in Asking)
          /\ MicNext' => MicNext \/ life \in Asking
       \/ /\ life = "SpeakerFilters" /\ life' \notin Asking
          /\ filters' \in {filters \cup {"Speaker"}, filters \ {"Speaker"}}
       \/ /\ MicNext /\ ~MicNext' /\ life' \notin Asking
          /\ filters' \in {filters \cup {"Mic"}, filters \ {"Mic"}}
    /\ \/ UNCHANGED request
       \/ \E r \in Notifications : /\ request[r] \in {"Ready", "Done"} /\ target = "Open"
                                   /\ request' = [request EXCEPT ![r] = "Sent"]

LEMMA StartSortKeeps == QuietInv /\ StartSort => QuietInv'
<1> SUFFICES ASSUME QuietInv, StartSort PROVE QuietInv'
  OBVIOUS
<1>1. LifeAgrees' /\ m_State \in {"Running", "Failed"} /\ m_State' \in {"Running", "Failed"}
  BY DEF StartSort, QuietInv, LifeAgrees, Creating, Asking, Installing, Stopping, Ended
<1>2. ~New' /\ ~Purged' /\ ~Flushed' /\ life' # "RemoveMic"
  BY <1>1 DEF StartSort, New, Purged, Flushed, Asking, Installing
<1>3. FiltersAgree' /\ filters \subseteq filters'
  BY <1>1, <1>2 DEF StartSort, QuietInv, FiltersAgree, Devices, Asking
<1>4. /\ request' \in [Requests -> RequestStates]
      /\ \A r \in Requests : Pending(r)' => Pending(r) \/ target = "Open"
      /\ \A r \in Requests : request[r] \in {"Collected", "Taken", "Refused"} => request'[r] = request[r]
  BY DEF StartSort, QuietInv, RequestStates, Pending
<1>5. Notifications \subseteq Requests
  BY DEF Requests
<1>6. NewIsUntouched' /\ FlushedIsIdle' /\ PurgedIsEmpty'
  BY <1>2, <1>4 DEF StartSort, QuietInv, NewIsUntouched, FlushedIsIdle, PurgedIsEmpty
<1>7. WorkersAgree' /\ CallbackSafe'
  BY <1>3 DEF StartSort, QuietInv, WorkersAgree, CallbackSafe
<1>8. CollectionAgrees' /\ CollectedIsServed'
  <2>1. UNCHANGED <<m_ReqCollection, enqueued, worker>>
    BY DEF StartSort
  <2>2. \A i \in 1..Len(m_ReqCollection) : m_ReqCollection[i] \in Requests
    BY <1>5 DEF QuietInv, CollectionAgrees
  <2>3. \A w \in Workers : worker[w].req # "None" => worker[w].req \in Requests
    BY <1>5 DEF QuietInv, WorkersAgree, WorkerRecord
  <2> QED
    BY <1>4, <1>5, <2>1, <2>2, <2>3 DEF QuietInv, CollectionAgrees, CollectedIsServed
<1> QED
  BY <1>1, <1>3, <1>4, <1>6, <1>7, <1>8 DEF StartSort, QuietInv

\* A step of Stop, the same for both kinds.
StopSort == BthHfpStop /\ UNCHANGED <<kind, request, m_ReqCollection, enqueued, worker, uses>>

LEMMA StopSortKeeps == QuietInv /\ StopSort => QuietInv'
<1> SUFFICES ASSUME QuietInv, StopSort PROVE QuietInv'
  OBVIOUS
<1>1. /\ LifeAgrees' /\ ~New' /\ target' \in {"Closed", "Open", "Purging", "Purged"}
      /\ life \in Stopping => m_State = "Stopping"
  BY DEF StopSort, BthHfpStop, object, QuietInv, LifeAgrees, New, Creating, Asking, Installing, Stopping, Ended
<1>2. PurgedIsEmpty'
  BY <1>1 DEF StopSort, BthHfpStop, object, QuietInv, Purged, PurgedIsEmpty, Pending, Stopping, New
<1>3. FlushedIsIdle'
  BY <1>1 DEF StopSort, BthHfpStop, object, QuietInv, Flushed, FlushedIsIdle, WdfWorkItemFlushed, Stopping
<1>4. FiltersAgree'
  BY <1>1 DEF StopSort, BthHfpStop, BthHfpSetHandlers, object, QuietInv, FiltersAgree, Asking, MicNext, Stopping
<1>5. filters \subseteq filters' \/ WdfWorkItemFlushed
  BY DEF StopSort, BthHfpStop, object, QuietInv, Flushed, FlushedIsIdle
<1>6. CallbackSafe'
  BY <1>5 DEF StopSort, QuietInv, CallbackSafe, WorkersAgree, WdfWorkItemFlushed
<1> QED
  BY <1>1, <1>2, <1>3, <1>4, <1>6 DEF StopSort, QuietInv, NewIsUntouched, WorkersAgree, CollectionAgrees, CollectedIsServed

\* The destructor.
DeleteStep ==
    /\ life = "Released" /\ life' = "Deleted" /\ filters = {}
    /\ target' = "Closed" /\ m_ReqCollection' = <<>>
    /\ \E kept \in SUBSET Requests : request' = [r \in Requests |-> IF r \in kept THEN request[r] ELSE "None"]
    /\ UNCHANGED <<kind, m_State, filters, enqueued, worker, uses>>

LEMMA DeleteStepKeeps == QuietInv /\ DeleteStep => QuietInv'
<1> SUFFICES ASSUME QuietInv, DeleteStep PROVE QuietInv'
  OBVIOUS
<1>1. m_State \in {"Initializing", "Stopped"} /\ LifeAgrees'
  BY DEF DeleteStep, QuietInv, LifeAgrees, Creating, Asking, Installing, Stopping, Ended
<1>2. WdfWorkItemFlushed /\ \A r \in Requests : ~Pending(r)
  BY <1>1 DEF QuietInv, NewIsUntouched, New, Flushed, FlushedIsIdle, Purged, PurgedIsEmpty, Pending
<1>3. \A w \in Workers : worker[w].req = "None"
  BY <1>2 DEF QuietInv, WorkersAgree, WdfWorkItemFlushed
<1>4. /\ request' \in [Requests -> RequestStates]
      /\ \A r \in Requests : request'[r] \in {request[r], "None"}
  BY DEF DeleteStep, QuietInv, RequestStates
<1>5. PurgedIsEmpty' /\ FlushedIsIdle' /\ NewIsUntouched'
  BY <1>2, <1>4 DEF DeleteStep, QuietInv, PurgedIsEmpty, FlushedIsIdle, WdfWorkItemFlushed, Pending, New, NewIsUntouched, uses
<1>6. FiltersAgree' /\ WorkersAgree' /\ CallbackSafe' /\ CollectedIsServed'
  BY DEF DeleteStep, QuietInv, FiltersAgree, WorkersAgree, CallbackSafe, CollectedIsServed
<1>7. CollectionAgrees'
  BY <1>3 DEF DeleteStep, CollectionAgrees
<1> QED
  BY <1>1, <1>4, <1>5, <1>6, <1>7 DEF DeleteStep, QuietInv

-----------------------------------------------------------------------------
(***************************************************************************)
(* The sorts of the steps of a Bluetooth device                            *)
(***************************************************************************)

LEMMA BthCreates ==
    ASSUME QuietInv, UNCHANGED <<kind, usbVars>>,
           \/ BthHfpInit \/ BthHfpCreateWorkItem \/ BthHfpCreateCollection \/ BthHfpOpenTarget
           \/ BthHfpCopyLinkName \/ BthHfpCreateNrecRequest \/ BthHfpCreateVolumeRequests
           \/ BthHfpCreateConnectionRequest \/ BthHfpCreateStreamRequest \/ BthHfpCreateFilterNames
    PROVE  CreateStep
<1> USE DEF Creating, Asking, object, completion, uses, bthVars, usbVars, InitStep
<1>1. \E made \in SUBSET Requests : request = [r \in Requests |-> IF r \in made THEN "Ready" ELSE request[r]]
  <2>1. {} \in SUBSET Requests /\ request = [r \in Requests |-> IF r \in {} THEN "Ready" ELSE request[r]]
    BY DEF QuietInv
  <2> WITNESS {} \in SUBSET Requests
  <2> QED
    BY <2>1
<1>2. CASE BthHfpInit
  BY <1>1, <1>2 DEF BthHfpInit, CreateStep
<1>3. CASE BthHfpCreateWorkItem
  BY <1>1, <1>3 DEF BthHfpCreateWorkItem, CreateStep
<1>4. CASE BthHfpCreateCollection
  BY <1>1, <1>4 DEF BthHfpCreateCollection, CreateStep
<1>5. CASE BthHfpOpenTarget
  BY <1>1, <1>5 DEF BthHfpOpenTarget, CreateStep
<1>6. CASE BthHfpCopyLinkName
  BY <1>1, <1>6 DEF BthHfpCopyLinkName, CreateStep
<1>7. ASSUME NEW here \in Creating, NEW next \in Creating, NEW new \in SUBSET Requests,
             BthHfpCreateRequests(here, next, new)
      PROVE  CreateStep
  <2>1. \E made \in SUBSET new : request' = [r \in Requests |-> IF r \in made THEN "Ready" ELSE request[r]]
    BY <1>7 DEF BthHfpCreateRequests
  <2>2. \E made \in SUBSET Requests : request' = [r \in Requests |-> IF r \in made THEN "Ready" ELSE request[r]]
    BY <2>1
  <2>3. /\ life = here /\ life' \in {next, "Released"} /\ UNCHANGED m_State
        /\ UNCHANGED <<target, filters, m_ReqCollection, enqueued, worker, uses>>
    BY <1>7 DEF BthHfpCreateRequests
  <2> QED
    BY <2>2, <2>3 DEF CreateStep
<1>8. CASE BthHfpCreateNrecRequest
  BY <1>7, <1>8 DEF BthHfpCreateNrecRequest, Requests, Notifications
<1>9. CASE BthHfpCreateVolumeRequests
  BY <1>7, <1>9 DEF BthHfpCreateVolumeRequests, Requests, Notifications
<1>10. CASE BthHfpCreateConnectionRequest
  BY <1>7, <1>10 DEF BthHfpCreateConnectionRequest, Requests, Notifications
<1>11. CASE BthHfpCreateStreamRequest
  BY <1>7, <1>11 DEF BthHfpCreateStreamRequest, Requests, StreamRequests
<1>12. CASE BthHfpCreateFilterNames
  BY <1>1, <1>12 DEF BthHfpCreateFilterNames, CreateStep
<1> QED
  BY <1>2, <1>3, <1>4, <1>5, <1>6, <1>8, <1>9, <1>10, <1>11, <1>12

LEMMA BthStarts ==
    ASSUME QuietInv, kind = "Bth", UNCHANGED <<kind, usbVars>>, BthHfpStart
    PROVE  StartSort
<1> USE DEF Asking, Installing, StartStep, BthHfpAsk, completion, uses, bthVars, usbVars, MicNext
<1>1. CASE SetBthHfpDeviceCapabilities
  BY <1>1 DEF SetBthHfpDeviceCapabilities, StartSort
<1>2. CASE GetBthHfpDescriptor
  BY <1>2 DEF GetBthHfpDescriptor, StartSort
<1>3. CASE GetBthHfpVolumePropertyValues
  BY <1>3 DEF GetBthHfpVolumePropertyValues, StartSort
<1>4. CASE BthHfpStartVolumeLevels
  BY <1>4 DEF BthHfpStartVolumeLevels, StartSort
<1>5. CASE GetBthHfpConnectionStatus
  BY <1>5 DEF GetBthHfpConnectionStatus, StartSort
<1>6. CASE GetBthHfpCodecId
  BY <1>6 DEF GetBthHfpCodecId, StartSort
<1>7. CASE BthHfpCreateCustomEndpointMinipair
  BY <1>7 DEF BthHfpCreateCustomEndpointMinipair, StartSort
<1>8. CASE BthHfpInstallSpeakerFilters
  BY <1>8 DEF BthHfpInstallSpeakerFilters, BthHfpSetHandlers, StartSort
<1>9. CASE BthHfpInstallMicFilters
  BY <1>9 DEF BthHfpInstallMicFilters, BthHfpSetHandlers, StartSort
<1>10. ASSUME NEW r \in Notifications, NEW here \in {"EnableNrec", "EnableSpeaker", "EnableMic", "EnableConnection"},
              NEW next \in {"EnableSpeaker", "EnableMic", "EnableConnection", "Started"}, BthHfpEnable(r, here, next)
       PROVE  StartSort
  <2>1. /\ life = here /\ life' \in {next, "Started"} /\ m_State' \in {m_State, "Failed"}
        /\ UNCHANGED <<filters, target, m_ReqCollection, enqueued, worker, uses>>
    BY <1>10 DEF BthHfpEnable
  <2>2. \/ UNCHANGED request
        \/ target = "Open" /\ request[r] \in {"Ready", "Done"} /\ request' = [request EXCEPT ![r] = "Sent"]
    BY <1>10 DEF BthHfpEnable, BthHfpSendIoCtrlAsynchronously, WdfRequestSend
  <2> QED
    BY <2>1, <2>2 DEF StartSort
<1>11. CASE EnableBthHfpNrecDisableStatusNotification
  BY <1>10, <1>11 DEF EnableBthHfpNrecDisableStatusNotification, Notifications
<1>12. CASE EnableBthHfpSpeakerVolumeStatusNotification
  BY <1>10, <1>12 DEF EnableBthHfpSpeakerVolumeStatusNotification, Notifications
<1>13. CASE EnableBthHfpMicVolumeStatusNotification
  BY <1>10, <1>13 DEF EnableBthHfpMicVolumeStatusNotification, Notifications
<1>14. CASE EnableBthHfpConnectionStatusNotification
  BY <1>10, <1>14 DEF EnableBthHfpConnectionStatusNotification, Notifications
<1> QED
  BY <1>1, <1>2, <1>3, <1>4, <1>5, <1>6, <1>7, <1>8, <1>9, <1>11, <1>12, <1>13, <1>14 DEF BthHfpStart

\* What a call does while the object is new: there are none.
LEMMA CallMeansNotNew ==
    ASSUME QuietInv, NEW d \in Devices, call[d].at # "Idle" \/ d \in filters \/ running[d] # 0 \/ held[d] # 0
    PROVE  ~New
BY DEF QuietInv, NewIsUntouched, Idle

LEMMA BthCalls ==
    ASSUME QuietInv, UNCHANGED <<kind, usbVars>>, NEW d \in Devices, BthHfpThreads(d) \/ BthHfpCall(d)
    PROVE  CallStep \/ \E state \in {"Sent", "Cancelling", "Ready", "Done"} : StreamRequestStep("Stream", state)
<1> USE DEF object, completion, env, usbVars, bthVars
<1>1. ASSUME ~New, UNCHANGED <<m_State, life, filters, target, request, m_ReqCollection, enqueued, worker>>
      PROVE  CallStep
  BY <1>1 DEF CallStep, core
<1>2. CASE BthHfpGetVolume(d)
  BY <1>1, <1>2, CallMeansNotNew DEF BthHfpGetVolume
<1>3. CASE BthHfpSetVolume(d)
  BY <1>1, <1>3, CallMeansNotNew DEF BthHfpSetVolume
<1>4. CASE BthHfpConnect(d)
  BY <1>1, <1>4, CallMeansNotNew DEF BthHfpConnect
<1>5. CASE BthHfpStreamStart(d)
  BY <1>1, <1>5, CallMeansNotNew DEF BthHfpStreamStart
<1>6. CASE BthHfpStreamSuspend(d)
  BY <1>1, <1>6, CallMeansNotNew DEF BthHfpStreamSuspend
<1>7. CASE BthHfpGotVolume(d)
  BY <1>1, <1>7, CallMeansNotNew DEF BthHfpGotVolume
<1>8. CASE SetBthHfpStreamOpen(d)
  BY <1>1, <1>8, CallMeansNotNew DEF SetBthHfpStreamOpen
<1>9. CASE BthHfpUndoStart(d)
  BY <1>1, <1>9, CallMeansNotNew DEF BthHfpUndoStart
<1>10. CASE SetBthHfpStreamClose(d)
  BY <1>1, <1>10, CallMeansNotNew DEF SetBthHfpStreamClose
<1>11. CASE EnableBthHfpStreamStatusNotification(d)
  <2>1. ~New /\ UNCHANGED <<m_State, life, filters, target, m_ReqCollection, enqueued, worker>>
    BY <1>11, CallMeansNotNew DEF EnableBthHfpStreamStatusNotification
  <2>2. request' = request \/ (target = "Open" /\ request' = [request EXCEPT !["Stream"] = "Sent"])
    BY <1>11 DEF EnableBthHfpStreamStatusNotification, BthHfpSendIoCtrlAsynchronously, WdfRequestSend
  <2> QED
    BY <1>1, <2>1, <2>2 DEF StreamRequestStep
<1>12. CASE BthHfpCancelStreamRequest(d)
  <2>1. ~New /\ UNCHANGED <<m_State, life, filters, target, m_ReqCollection, enqueued, worker>>
    BY <1>12, CallMeansNotNew DEF BthHfpCancelStreamRequest
  <2>2. request' = request \/ (Pending("Stream") /\ request' = [request EXCEPT !["Stream"] = "Cancelling"])
    BY <1>12 DEF BthHfpCancelStreamRequest, WdfRequestCancelSentRequest, Pending
  <2> QED
    BY <1>1, <2>1, <2>2 DEF StreamRequestStep
<1>13. CASE StopBthHfpStreamStatusNotification(d)
  <2>1. ~New /\ UNCHANGED <<m_State, life, filters, target, m_ReqCollection, enqueued, worker>>
    BY <1>13, CallMeansNotNew DEF StopBthHfpStreamStatusNotification
  <2>2. request' = request \/ request' = [request EXCEPT !["Stream"] = "Ready"]
    BY <1>13 DEF StopBthHfpStreamStatusNotification
  <2> QED
    BY <1>1, <2>1, <2>2 DEF StreamRequestStep
<1> QED
  BY <1>2, <1>3, <1>4, <1>5, <1>6, <1>7, <1>8, <1>9, <1>10, <1>11, <1>12, <1>13 DEF BthHfpThreads, BthHfpCall

\* A callback that goes on at here, or calls handlers, of some of the filters.
LEMMA HandlersCalled ==
    ASSUME QuietInv, NEW w \in Workers, worker[w].at \notin {"Idle", "Take"},
           NEW here \in {"Callback", "Formats"}, NEW next \in {"Status", "Resend"}, NEW to \in SUBSET filters,
           \/ CallHandlers(w, here, next, to)
           \/ worker[w].at = "Update" /\ WorkerAt(w, next),
           UNCHANGED <<kind, m_State, life, filters, target, request, m_ReqCollection, enqueued, uses>>
    PROVE  WorkStep(w)
<1>1. worker \in [Workers -> WorkerRecord] /\ worker[w].req \in Notifications \cup {"None"} /\ filters \subseteq Devices
  BY DEF QuietInv, WorkersAgree, WorkerRecord, FiltersAgree
<1>2. CASE CallHandlers(w, here, next, to)
  <2>1. /\ worker'[w].at = (IF to = {} THEN next ELSE here) /\ worker'[w].to = to
        /\ worker'[w].req = worker[w].req /\ worker' \in [Workers -> WorkerRecord]
        /\ \A v \in Workers \ {w} : worker'[v] = worker[v]
    BY <1>1, <1>2 DEF CallHandlers, WorkerRecord
  <2> QED
    BY <2>1 DEF WorkStep
<1>3. CASE worker[w].at = "Update" /\ WorkerAt(w, next)
  <2>1. /\ worker'[w].at = next /\ worker'[w].to = worker[w].to
        /\ worker'[w].req = worker[w].req /\ worker' \in [Workers -> WorkerRecord]
        /\ \A v \in Workers \ {w} : worker'[v] = worker[v]
    BY <1>1, <1>3 DEF WorkerAt, WorkerRecord
  <2>2. worker[w].to = {}
    BY <1>3 DEF QuietInv, WorkersAgree
  <2> QED
    BY <2>1, <2>2 DEF WorkStep
<1> QED
  BY <1>2, <1>3

LEMMA BthWorks ==
    ASSUME QuietInv, UNCHANGED <<kind, usbVars>>, NEW w \in Workers, EvtBthHfpDeviceNotificationStatusWorkItem(w)
    PROVE  TakeStep(w) \/ WorkStep(w) \/ ResendStep(w)
<1> USE DEF object, completion, uses, bthVars, usbVars
<1>1. CASE BthHfpTakeRequest(w)
  BY <1>1 DEF BthHfpTakeRequest, TakeStep
<1>2. CASE BthHfpVolumeUpdate(w)
  <2>1. /\ worker[w].at \notin {"Idle", "Take"}
        /\ UNCHANGED <<m_State, life, filters, target, request, m_ReqCollection, enqueued, uses>>
    BY <1>2 DEF BthHfpVolumeUpdate
  <2>2. PICK to \in SUBSET filters : CallHandlers(w, "Callback", "Resend", to)
    BY <1>2 DEF BthHfpVolumeUpdate
  <2> QED
    BY <2>1, <2>2, HandlersCalled
<1>3. CASE BthHfpCodecUpdate(w)
  <2>1. /\ worker[w].at = "Update"
        /\ UNCHANGED <<m_State, life, filters, target, request, m_ReqCollection, enqueued, uses>>
    BY <1>3 DEF BthHfpCodecUpdate
  <2>2. WorkerAt(w, "Status") \/ \E to \in SUBSET filters : CallHandlers(w, "Formats", "Status", to)
    BY <1>3 DEF BthHfpCodecUpdate
  <2>3. {} \in SUBSET filters
    OBVIOUS
  <2> QED
    BY <2>1, <2>2, <2>3, HandlersCalled
<1>4. CASE BthHfpConnectionUpdate(w)
  <2>1. /\ worker[w].at \notin {"Idle", "Take"}
        /\ UNCHANGED <<m_State, life, filters, target, request, m_ReqCollection, enqueued, uses>>
    BY <1>4 DEF BthHfpConnectionUpdate
  <2>2. PICK to \in SUBSET filters : CallHandlers(w, "Callback", "Resend", to)
    BY <1>4 DEF BthHfpConnectionUpdate
  <2> QED
    BY <2>1, <2>2, HandlersCalled
<1>5. CASE BthHfpHandlersReturn(w)
  <2>1. /\ worker'[w].at \in {"Status", "Resend"} /\ worker'[w].to = {}
        /\ worker'[w].req = worker[w].req /\ worker' \in [Workers -> WorkerRecord]
        /\ \A v \in Workers \ {w} : worker'[v] = worker[v]
    BY <1>5 DEF BthHfpHandlersReturn, QuietInv, WorkersAgree, WorkerRecord
  <2> QED
    BY <1>5, <2>1 DEF BthHfpHandlersReturn, WorkStep
<1>6. CASE BthHfpResend(w)
  BY <1>6 DEF BthHfpResend, ResendStep
<1> QED
  BY <1>1, <1>2, <1>3, <1>4, <1>5, <1>6 DEF EvtBthHfpDeviceNotificationStatusWorkItem

LEMMA BthKeeps == QuietInv /\ Bth(BthHfpNext) => QuietInv'
<1> SUFFICES ASSUME QuietInv, kind = "Bth", BthHfpNext, UNCHANGED <<kind, usbVars>> PROVE QuietInv'
  BY DEF Bth
<1>1. CASE BthHfpLife
  BY <1>1, BthCreates, BthStarts, CreateStepKeeps, StartSortKeeps DEF BthHfpLife
<1>2. CASE BthHfpStopping
  BY <1>2, StopSortKeeps DEF BthHfpStopping, StopSort, completion, uses, bthVars, usbVars
<1>3. CASE BthHfpDestructor
  <2>1. \E kept \in SUBSET Requests : request' = [r \in Requests |-> IF r \in kept THEN request[r] ELSE "None"]
    <3> {"Nrec"} \in SUBSET Requests
      BY DEF Requests, Notifications
    <3>1. request' = [r \in Requests |-> IF r \in {"Nrec"} THEN request[r] ELSE "None"]
      BY <1>3 DEF BthHfpDestructor, BthHfpDeleteRequests
    <3> WITNESS {"Nrec"} \in SUBSET Requests
    <3> QED
      BY <3>1
  <2> QED
    BY <1>3, <2>1, DeleteStepKeeps DEF BthHfpDestructor, DeleteStep, object, uses, bthVars, usbVars
<1>4. ASSUME NEW d \in Devices, BthHfpThreads(d) \/ BthHfpCall(d) PROVE QuietInv'
  <2>1. "Stream" \in StreamRequests
    BY DEF StreamRequests
  <2> QED
    BY <1>4, <2>1, BthCalls, CallStepKeeps, StreamRequestStepKeeps
<1>5. ASSUME NEW w \in Workers, WdfWorkItemRun(w), UNCHANGED bthVars PROVE QuietInv'
  BY <1>5, RunStepKeeps DEF bthVars, usbVars
<1>6. ASSUME NEW w \in Workers, EvtBthHfpDeviceNotificationStatusWorkItem(w) PROVE QuietInv'
  BY <1>6, BthWorks, TakeStepKeeps, WorkStepKeeps, ResendStepKeeps
<1>7. ASSUME NEW r \in Notifications, EvtBthHfpDeviceNotificationStatusCompletion(r) PROVE QuietInv'
  <2>1. CompletionStep(r)
    BY <1>7 DEF EvtBthHfpDeviceNotificationStatusCompletion, CompletionStep, object, uses, bthVars, usbVars
  <2> QED
    BY <2>1, CompletionStepKeeps
<1>8. CASE EvtBthHfpDeviceStreamStatusCompletion
  <2>1. "Stream" \in StreamRequests /\ "Stream" \in Requests /\ ~New
    BY <1>8 DEF EvtBthHfpDeviceStreamStatusCompletion, StreamRequests, Requests, Pending, QuietInv, NewIsUntouched
  <2>2. StreamRequestStep("Stream", "Done")
    BY <1>8, <2>1 DEF EvtBthHfpDeviceStreamStatusCompletion, StreamRequestStep, object, completion
  <2> QED
    BY <2>1, <2>2, StreamRequestStepKeeps
<1>9. ASSUME NEW p \in Properties, RemoteChange(p), UNCHANGED bthVars PROVE QuietInv'
  BY <1>9, CallStepKeeps DEF RemoteChange, CallStep, core, uses, object, completion, bthVars, usbVars
<1> QED
  BY <1>1, <1>2, <1>3, <1>4, <1>5, <1>6, <1>7, <1>8, <1>9 DEF BthHfpNext

-----------------------------------------------------------------------------
(***************************************************************************)
(* The sorts of the steps of a USB device                                  *)
(***************************************************************************)

LEMMA UsbCreates ==
    ASSUME QuietInv, UNCHANGED <<kind, bthVars>>,
           \/ UsbHsInit \/ UsbHsCreateWorkItem \/ UsbHsCreateCollection \/ UsbHsOpenTarget
           \/ UsbHsCopyLinkName \/ UsbHsCreateVolumeRequests \/ UsbHsCreateMuteRequests
           \/ UsbHsCreateStreamRequests \/ UsbHsCreateFilterNames
    PROVE  CreateStep
<1> USE DEF Creating, Asking, object, completion, uses, bthVars, usbVars, InitStep
<1>1. \E made \in SUBSET Requests : request = [r \in Requests |-> IF r \in made THEN "Ready" ELSE request[r]]
  <2>1. {} \in SUBSET Requests /\ request = [r \in Requests |-> IF r \in {} THEN "Ready" ELSE request[r]]
    BY DEF QuietInv
  <2> WITNESS {} \in SUBSET Requests
  <2> QED
    BY <2>1
<1>2. CASE UsbHsInit
  BY <1>1, <1>2 DEF UsbHsInit, CreateStep
<1>3. CASE UsbHsCreateWorkItem
  BY <1>1, <1>3 DEF UsbHsCreateWorkItem, CreateStep
<1>4. CASE UsbHsCreateCollection
  BY <1>1, <1>4 DEF UsbHsCreateCollection, CreateStep
<1>5. CASE UsbHsOpenTarget
  BY <1>1, <1>5 DEF UsbHsOpenTarget, CreateStep
<1>6. CASE UsbHsCopyLinkName
  BY <1>1, <1>6 DEF UsbHsCopyLinkName, CreateStep
<1>7. ASSUME NEW here \in Creating, NEW next \in Creating, NEW new \in SUBSET Requests,
             UsbHsCreateRequests(here, next, new)
      PROVE  CreateStep
  <2>1. \E made \in SUBSET new : request' = [r \in Requests |-> IF r \in made THEN "Ready" ELSE request[r]]
    BY <1>7 DEF UsbHsCreateRequests
  <2>2. \E made \in SUBSET Requests : request' = [r \in Requests |-> IF r \in made THEN "Ready" ELSE request[r]]
    BY <2>1
  <2>3. /\ life = here /\ life' \in {next, "Released"} /\ UNCHANGED m_State
        /\ UNCHANGED <<target, filters, m_ReqCollection, enqueued, worker, uses>>
    BY <1>7 DEF UsbHsCreateRequests
  <2> QED
    BY <2>2, <2>3 DEF CreateStep
<1>8. CASE UsbHsCreateVolumeRequests
  BY <1>7, <1>8 DEF UsbHsCreateVolumeRequests, Requests, Notifications
<1>9. CASE UsbHsCreateMuteRequests
  BY <1>7, <1>9 DEF UsbHsCreateMuteRequests, Requests, Notifications
<1>10. CASE UsbHsCreateStreamRequests
  BY <1>7, <1>10 DEF UsbHsCreateStreamRequests, Requests, StreamRequests
<1>11. CASE UsbHsCreateFilterNames
  BY <1>1, <1>11 DEF UsbHsCreateFilterNames, CreateStep
<1> QED
  BY <1>2, <1>3, <1>4, <1>5, <1>6, <1>8, <1>9, <1>10, <1>11

LEMMA UsbStarts ==
    ASSUME QuietInv, kind = "Usb", UNCHANGED <<kind, bthVars>>, UsbHsStart
    PROVE  StartSort
<1> USE DEF Asking, Installing, StartStep, UsbHsAsk, UsbHsPart, completion, uses, bthVars, usbVars, MicNext
<1>1. CASE GetUsbHsDescriptor
  BY <1>1 DEF GetUsbHsDescriptor, StartSort
<1>2. CASE GetSiop
  BY <1>2 DEF GetSiop, StartSort
<1>3. CASE GetUsbHsEndpointDescriptors
  BY <1>3 DEF GetUsbHsEndpointDescriptors, StartSort
<1>4. CASE UsbHsStartSpeakerVolume
  BY <1>4 DEF UsbHsStartSpeakerVolume, UsbHsStartVolume, StartSort
<1>5. CASE UsbHsStartMicVolume
  BY <1>5 DEF UsbHsStartMicVolume, UsbHsStartVolume, StartSort
<1>6. CASE UsbHsInstallSpeakerFilters
  BY <1>6 DEF UsbHsInstallSpeakerFilters, UsbHsInstallFilters, UsbHsSetHandlers, StartSort
<1>7. CASE UsbHsInstallMicFilters
  BY <1>7 DEF UsbHsInstallMicFilters, UsbHsInstallFilters, UsbHsSetHandlers, StartSort
<1>8. ASSUME NEW d \in Devices, NEW here, NEW next, UsbHsEnable(d, here, next)
      PROVE  /\ life = here /\ life' \in {next, "Started"} /\ m_State' \in {m_State, "Failed"}
             /\ UNCHANGED <<filters, target, m_ReqCollection, enqueued, worker, uses>>
             /\ \/ UNCHANGED request
                \/ \E r \in Notifications : /\ request[r] \in {"Ready", "Done"} /\ target = "Open"
                                            /\ request' = [request EXCEPT ![r] = "Sent"]
  <2>1. Volume[d] \in Notifications
    BY DEF Volume, Devices, Notifications
  <2> QED
    BY <1>8, <2>1 DEF UsbHsEnable, UsbHsSendIoCtrlAsynchronously, WdfRequestSend
<1>9. CASE EnableUsbHsSpeakerVolumeStatusNotification
  BY <1>8, <1>9 DEF EnableUsbHsSpeakerVolumeStatusNotification, Devices, StartSort
<1>10. CASE EnableUsbHsMicVolumeStatusNotification
  BY <1>8, <1>10 DEF EnableUsbHsMicVolumeStatusNotification, Devices, StartSort
<1>11. CASE SetSidebandClaimed
  BY <1>11 DEF SetSidebandClaimed, StartSort
<1> QED
  BY <1>1, <1>2, <1>3, <1>4, <1>5, <1>6, <1>7, <1>9, <1>10, <1>11 DEF UsbHsStart

LEMMA UsbCalls ==
    ASSUME QuietInv, UNCHANGED <<kind, bthVars>>, NEW d \in Devices, UsbHsThreads(d) \/ UsbHsCall(d)
    PROVE  CallStep \/ \E state \in {"Sent", "Cancelling", "Ready", "Done"} : StreamRequestStep(StreamOf(d), state)
<1> USE DEF object, completion, env, usbVars, bthVars
<1>1. ASSUME ~New, UNCHANGED <<m_State, life, filters, target, request, m_ReqCollection, enqueued, worker>>
      PROVE  CallStep
  BY <1>1 DEF CallStep, core
<1>2. CASE UsbHsGetVolume(d)
  BY <1>1, <1>2, CallMeansNotNew DEF UsbHsGetVolume
<1>3. CASE UsbHsSetVolume(d)
  BY <1>1, <1>3, CallMeansNotNew DEF UsbHsSetVolume
<1>4. CASE UsbHsStreamOpen(d)
  BY <1>1, <1>4, CallMeansNotNew DEF UsbHsStreamOpen
<1>5. CASE UsbHsStreamStart(d)
  <2>1. held[d] # 0 \/ playing[d] # 0
    BY <1>5 DEF UsbHsStreamStart
  <2>2. ~New
    BY <2>1 DEF QuietInv, NewIsUntouched
  <2> QED
    BY <1>1, <1>5, <2>2 DEF UsbHsStreamStart
<1>6. CASE UsbHsStreamSuspend(d)
  <2>1. playing[d] # 0
    BY <1>6 DEF UsbHsStreamSuspend
  <2>2. ~New
    BY <2>1 DEF QuietInv, NewIsUntouched
  <2> QED
    BY <1>1, <1>6, <2>2 DEF UsbHsStreamSuspend
<1>7. CASE UsbHsStreamClose(d)
  <2>1. held[d] # 0 \/ playing[d] # 0
    BY <1>7 DEF UsbHsStreamClose
  <2>2. ~New
    BY <2>1 DEF QuietInv, NewIsUntouched
  <2> QED
    BY <1>1, <1>7, <2>2 DEF UsbHsStreamClose
<1>8. CASE UsbHsGotVolume(d)
  BY <1>1, <1>8, CallMeansNotNew DEF UsbHsGotVolume
<1>9. CASE SetUsbHsStreamOpen(d)
  BY <1>1, <1>9, CallMeansNotNew DEF SetUsbHsStreamOpen
<1>10. CASE UsbHsUndoOpen(d)
  BY <1>1, <1>10, CallMeansNotNew DEF UsbHsUndoOpen
<1>11. CASE SetTransportResources(d)
  BY <1>1, <1>11, CallMeansNotNew DEF SetTransportResources
<1>12. CASE SetUsbHsStreamStart(d)
  BY <1>1, <1>12, CallMeansNotNew DEF SetUsbHsStreamStart
<1>13. CASE GetTransportResources(d)
  BY <1>1, <1>13, CallMeansNotNew DEF GetTransportResources
<1>14. CASE UsbHsUndoStart(d)
  BY <1>1, <1>14, CallMeansNotNew DEF UsbHsUndoStart
<1>15. CASE SetUsbHsStreamSuspend(d)
  BY <1>1, <1>15, CallMeansNotNew DEF SetUsbHsStreamSuspend
<1>16. CASE SetUsbHsStreamClose(d)
  BY <1>1, <1>16, CallMeansNotNew DEF SetUsbHsStreamClose
<1>17. CASE UsbHsCancelStreamRequest(d)
  <2>1. ~New /\ UNCHANGED <<m_State, life, filters, target, m_ReqCollection, enqueued, worker>>
    BY <1>17, CallMeansNotNew DEF UsbHsCancelStreamRequest
  <2>2. request' = request \/ (Pending(StreamOf(d)) /\ request' = [request EXCEPT ![StreamOf(d)] = "Cancelling"])
    BY <1>17 DEF UsbHsCancelStreamRequest, WdfRequestCancelSentRequest, Pending
  <2> QED
    BY <1>1, <2>1, <2>2 DEF StreamRequestStep
<1>18. CASE call[d].at = "Enable" /\ EnableUsbHsStreamStatusNotification(d)
  <2>1. ~New /\ UNCHANGED <<m_State, life, filters, target, m_ReqCollection, enqueued, worker>>
    BY <1>18, CallMeansNotNew DEF EnableUsbHsStreamStatusNotification
  <2>2. request' = request \/ (target = "Open" /\ request' = [request EXCEPT ![StreamOf(d)] = "Sent"])
    BY <1>18 DEF EnableUsbHsStreamStatusNotification, UsbHsSendIoCtrlAsynchronously, WdfRequestSend
  <2> QED
    BY <1>1, <2>1, <2>2 DEF StreamRequestStep
<1>19. CASE call[d].at = "Wait" /\ StopUsbHsStreamStatusNotification(d)
  <2>1. ~New /\ UNCHANGED <<m_State, life, filters, target, m_ReqCollection, enqueued, worker>>
    BY <1>19, CallMeansNotNew DEF StopUsbHsStreamStatusNotification
  <2>2. request' = request \/ request' = [request EXCEPT ![StreamOf(d)] = "Ready"]
    BY <1>19 DEF StopUsbHsStreamStatusNotification
  <2> QED
    BY <1>1, <2>1, <2>2 DEF StreamRequestStep
<1> QED
  BY <1>2, <1>3, <1>4, <1>5, <1>6, <1>7, <1>8, <1>9, <1>10, <1>11, <1>12, <1>13, <1>14, <1>15, <1>16, <1>17, <1>18, <1>19
  DEF UsbHsThreads, UsbHsCall, EnableUsbHsSpeakerStreamStatusNotification, EnableUsbHsMicStreamStatusNotification,
      StopUsbHsSpeakerStreamStatusNotification, StopUsbHsMicStreamStatusNotification

LEMMA UsbWorks ==
    ASSUME QuietInv, UNCHANGED <<kind, bthVars>>, NEW w \in Workers, EvtUsbHsDeviceNotificationStatusWorkItem(w)
    PROVE  TakeStep(w) \/ WorkStep(w) \/ ResendStep(w)
<1> USE DEF object, completion, uses, bthVars, usbVars
<1>1. CASE UsbHsTakeRequest(w)
  BY <1>1 DEF UsbHsTakeRequest, TakeStep
<1>2. CASE UsbHsUpdate(w)
  <2>1. /\ worker[w].at \notin {"Idle", "Take"}
        /\ UNCHANGED <<m_State, life, filters, target, request, m_ReqCollection, enqueued, uses>>
    BY <1>2 DEF UsbHsUpdate
  <2>2. PICK to \in SUBSET filters : CallHandlers(w, "Callback", "Resend", to)
    BY <1>2 DEF UsbHsUpdate
  <2> QED
    BY <2>1, <2>2, HandlersCalled
<1>3. CASE UsbHsHandlersReturn(w)
  <2>1. /\ worker'[w].at = "Resend" /\ worker'[w].to = {}
        /\ worker'[w].req = worker[w].req /\ worker' \in [Workers -> WorkerRecord]
        /\ \A v \in Workers \ {w} : worker'[v] = worker[v]
    BY <1>3 DEF UsbHsHandlersReturn, QuietInv, WorkersAgree, WorkerRecord
  <2> QED
    BY <1>3, <2>1 DEF UsbHsHandlersReturn, WorkStep
<1>4. CASE UsbHsResend(w)
  BY <1>4 DEF UsbHsResend, ResendStep
<1> QED
  BY <1>1, <1>2, <1>3, <1>4 DEF EvtUsbHsDeviceNotificationStatusWorkItem

LEMMA UsbKeeps == QuietInv /\ Usb(UsbHsNext) => QuietInv'
<1> SUFFICES ASSUME QuietInv, kind = "Usb", UsbHsNext, UNCHANGED <<kind, bthVars>> PROVE QuietInv'
  BY DEF Usb
<1>1. CASE UsbHsLife
  BY <1>1, UsbCreates, UsbStarts, CreateStepKeeps, StartSortKeeps DEF UsbHsLife
<1>2. CASE UsbHsStopping
  BY <1>2, StopSortKeeps DEF UsbHsStopping, UsbHsStop, UsbHsSetHandlers, StopSort, BthHfpStop, BthHfpSetHandlers,
    completion, uses, bthVars, usbVars
<1>3. CASE UsbHsDestructor
  <2>1. \E kept \in SUBSET Requests : request' = [r \in Requests |-> IF r \in kept THEN request[r] ELSE "None"]
    <3>1. request' = [r \in Requests |-> IF r \in {} THEN request[r] ELSE "None"]
      BY <1>3 DEF UsbHsDestructor, UsbHsDeleteRequests
    <3> WITNESS {} \in SUBSET Requests
    <3> QED
      BY <3>1
  <2> QED
    BY <1>3, <2>1, DeleteStepKeeps DEF UsbHsDestructor, DeleteStep, object, uses, bthVars
<1>4. \A d \in Devices : StreamOf(d) \in StreamRequests /\ StreamOf(d) \in Requests
  BY DEF StreamOf, StreamRequests, Requests
<1>5. ASSUME NEW d \in Devices, UsbHsThreads(d) \/ UsbHsCall(d) PROVE QuietInv'
  BY <1>4, <1>5, UsbCalls, CallStepKeeps, StreamRequestStepKeeps
<1>6. ASSUME NEW w \in Workers, WdfWorkItemRun(w), UNCHANGED usbVars PROVE QuietInv'
  BY <1>6, RunStepKeeps DEF bthVars, usbVars
<1>7. ASSUME NEW w \in Workers, EvtUsbHsDeviceNotificationStatusWorkItem(w) PROVE QuietInv'
  BY <1>7, UsbWorks, TakeStepKeeps, WorkStepKeeps, ResendStepKeeps
<1>8. ASSUME NEW r \in Notifications, EvtUsbHsDeviceNotificationStatusCompletion(r) PROVE QuietInv'
  <2>1. CompletionStep(r)
    BY <1>8 DEF EvtUsbHsDeviceNotificationStatusCompletion, CompletionStep, object, uses, bthVars, usbVars
  <2> QED
    BY <2>1, CompletionStepKeeps
<1>9. ASSUME NEW d \in Devices, EvtUsbHsDeviceStreamStatusCompletion(d) PROVE QuietInv'
  <2>1. ~New
    BY <1>4, <1>9 DEF EvtUsbHsDeviceStreamStatusCompletion, Pending, QuietInv, NewIsUntouched
  <2>2. StreamRequestStep(StreamOf(d), "Done")
    BY <1>9, <2>1 DEF EvtUsbHsDeviceStreamStatusCompletion, StreamRequestStep, object, completion
  <2> QED
    BY <1>4, <2>2, StreamRequestStepKeeps
<1>10. ASSUME NEW p \in Properties, RemoteChange(p), UNCHANGED usbVars PROVE QuietInv'
  BY <1>10, CallStepKeeps DEF RemoteChange, CallStep, core, uses, object, completion, bthVars, usbVars
<1> QED
  BY <1>1, <1>2, <1>3, <1>5, <1>6, <1>7, <1>8, <1>9, <1>10 DEF UsbHsNext

-----------------------------------------------------------------------------
(***************************************************************************)
(* Stop, the callbacks and the collection                                  *)
(***************************************************************************)

\* QuietInv holds of a new object, and every step of either kind keeps it.
THEOREM QuietInvariance == Spec => []QuietInv
<1>1. Init => QuietInv
  <2> SUFFICES ASSUME Init PROVE QuietInv
    OBVIOUS
  <2> USE DEF Init, SidebandInit, BthHfpSpecInit, UsbHsSpecInit
  <2>1. /\ request \in [Requests -> RequestStates] /\ enqueued \in BOOLEAN
        /\ target \in {"Closed", "Open", "Purging", "Purged"} /\ LifeAgrees /\ PurgedIsEmpty /\ FiltersAgree
    BY DEF RequestStates, LifeAgrees, PurgedIsEmpty, Purged, Pending, FiltersAgree, Asking, MicNext
  <2>2. \A w \in Workers : worker[w].at = "Idle" /\ worker[w].req = "None" /\ worker[w].to = {}
    BY DEF NoWork
  <2>3. WorkersAgree
    BY <2>2 DEF WorkersAgree, WorkerRecord, NoWork
  <2>4. WdfWorkItemFlushed /\ NewIsUntouched /\ FlushedIsIdle
    BY <2>2 DEF WdfWorkItemFlushed, NewIsUntouched, FlushedIsIdle
  <2>5. CollectionAgrees /\ CallbackSafe /\ CollectedIsServed
    BY <2>2 DEF CollectionAgrees, CallbackSafe, CollectedIsServed
  <2> QED
    BY <2>1, <2>3, <2>4, <2>5 DEF QuietInv
<1>2. QuietInv /\ [Next]_vars => QuietInv'
  <2> SUFFICES ASSUME QuietInv, [Next]_vars PROVE QuietInv'
    OBVIOUS
  <2>1. CASE UNCHANGED vars
    BY <2>1, CallStepKeeps DEF vars, sidebandVars, bthVars, usbVars, object, completion, CallStep, core, uses
  <2>2. CASE Gone
    BY <2>1, <2>2 DEF Gone
  <2> QED
    BY <2>1, <2>2, BthKeeps, UsbKeeps DEF Next
<1> QED
  BY <1>1, <1>2, PTL DEF Spec

\* When Stop has returned, no request is at the lower driver, the work item
\* neither runs nor will run, and no filter is left (Stop of both devices).
THEOREM StopLeavesNothing == Spec => []StoppedIsQuiet
<1>1. QuietInv => StoppedIsQuiet
  BY DEF QuietInv, StoppedIsQuiet, PurgedIsEmpty, Purged, FlushedIsIdle, Flushed, FiltersAgree, Devices
<1> QED
  BY <1>1, QuietInvariance, PTL

\* The work item calls handlers of installed filters only.
THEOREM CallbacksAreSafe == Spec => []CallbackSafe
<1>1. QuietInv => CallbackSafe
  BY DEF QuietInv
<1> QED
  BY <1>1, QuietInvariance, PTL

\* A collected request has a callback to come, unless one could not be sent again.
THEOREM NoRequestForgotten == Spec => []CollectedIsServed
<1>1. QuietInv => CollectedIsServed
  BY DEF QuietInv
<1> QED
  BY <1>1, QuietInvariance, PTL

-----------------------------------------------------------------------------
(***************************************************************************)
(* Counting the streams                                                    *)
(***************************************************************************)

One(here) == IF here \in Opening THEN 1 ELSE 0
counts == <<m_nStreams, running, m_nStreamsOpen, m_nStreamsStart, held, playing>>

\* The thread of filter d has come to here.
CallTo(d, here) ==
    /\ call' \in [Devices -> CallRecord] /\ call'[d].at = here
    /\ \A e \in Devices \ {d} : call'[e] = call[e]

LEMMA Goes ==
    ASSUME CountInv, NEW d \in Devices, NEW here \in Places, Goto(d, here)
    PROVE  CallTo(d, here)
BY DEF CountInv, Goto, CallTo, CallRecord

LEMMA GoesWith ==
    ASSUME CountInv, NEW d \in Devices, NEW here \in Places, NEW v \in {0, 1},
           call' = [call EXCEPT ![d] = [at |-> here, value |-> v]]
    PROVE  CallTo(d, here)
<1>1. [at |-> here, value |-> v] \in CallRecord
  BY DEF CallRecord
<1> QED
  BY <1>1 DEF CountInv, CallTo

LEMMA Returns == ASSUME CountInv, NEW d \in Devices, Return(d) PROVE CallTo(d, "Idle")
<1>1. Idle \in CallRecord /\ Idle.at = "Idle"
  BY DEF Idle, CallRecord, Places
<1> QED
  BY <1>1 DEF CountInv, Return, CallTo

LEMMA Stays == ASSUME CountInv, NEW d \in Devices, UNCHANGED call PROVE CallTo(d, call[d].at)
BY DEF CountInv, CallTo

LEMMA DevicesCard ==
    ASSUME NEW S \in SUBSET Devices
    PROVE  Cardinality(S) = (IF "Speaker" \in S THEN 1 ELSE 0) + (IF "Mic" \in S THEN 1 ELSE 0)
<1>1. S = {} \/ S = {"Speaker"} \/ S = {"Mic"} \/ S = {"Speaker"} \cup {"Mic"}
  BY DEF Devices
<1>2. Cardinality({}) = 0 /\ Cardinality({"Speaker"}) = 1 /\ Cardinality({"Mic"}) = 1 /\ IsFiniteSet({"Speaker"})
  BY FS_EmptySet, FS_Singleton
<1>3. Cardinality({"Speaker"} \cup {"Mic"}) = 2
  <2>1. "Mic" \notin {"Speaker"}
    OBVIOUS
  <2> QED
    BY <1>2, <2>1, FS_AddElement
<1> QED
  BY <1>1, <1>2, <1>3

LEMMA CountFrame == CountInv /\ UNCHANGED <<kind, call, counts>> => CountInv'
BY DEF CountInv, counts, StreamsCounted

\* A step of a call of filter d of a Bluetooth device that changes m_nStreams
\* by as much as it changes what the filter runs and opens.
LEMMA BthCountStep ==
    ASSUME CountInv, kind = "Bth", UNCHANGED <<kind, usbVars>>, NEW d \in Devices,
           NEW here \in {"Idle", "GotVolume"} \cup StreamCalls, CallTo(d, here),
           m_nStreams' \in Nat, NEW x \in Nat, running' = [running EXCEPT ![d] = x],
           m_nStreams' - m_nStreams = (x + One(here)) - (running[d] + One(call[d].at)),
           x + One(here) <= MaxStreams
    PROVE  CountInv'
<1> DEFINE S == {e \in Devices : kind = "Bth" /\ call[e].at \in {"Open", "Enable", "Undo"}}
<1>1. /\ running \in [Devices -> Nat] /\ running' \in [Devices -> Nat] /\ running'[d] = x
      /\ \A e \in Devices \ {d} : running'[e] = running[e] /\ call'[e] = call[e]
      /\ call' \in [Devices -> CallRecord] /\ call'[d].at = here /\ m_nStreams \in Nat
  BY DEF CallTo, CountInv
<1>2. \A e \in Devices : (e \in S <=> call[e].at \in Opening) /\ (e \in S' <=> call'[e].at \in Opening)
  BY DEF Opening
<1>3. /\ Cardinality(S) = One(call["Speaker"].at) + One(call["Mic"].at)
      /\ Cardinality(S') = One(call'["Speaker"].at) + One(call'["Mic"].at)
  <2>1. S \in SUBSET Devices /\ S' \in SUBSET Devices
    OBVIOUS
  <2>2. /\ Cardinality(S) = (IF "Speaker" \in S THEN 1 ELSE 0) + (IF "Mic" \in S THEN 1 ELSE 0)
        /\ Cardinality(S') = (IF "Speaker" \in S' THEN 1 ELSE 0) + (IF "Mic" \in S' THEN 1 ELSE 0)
    BY <2>1, DevicesCard
  <2> HIDE DEF S
  <2> QED
    BY <1>2, <2>2 DEF One, Devices
<1>4. m_nStreams = running["Speaker"] + running["Mic"] + Cardinality(S)
  BY DEF CountInv, StreamsCounted
<1> HIDE DEF S
<1>5. m_nStreams' = running'["Speaker"] + running'["Mic"] + Cardinality(S')
  <2>1. One(here) \in Nat /\ One(call["Speaker"].at) \in Nat /\ One(call["Mic"].at) \in Nat
    BY DEF One
  <2>2. /\ "Speaker" \in Devices /\ "Mic" \in Devices /\ d \in {"Speaker", "Mic"}
    BY DEF Devices
  <2>3. CASE d = "Speaker"
    BY <1>1, <1>3, <1>4, <2>1, <2>2, <2>3
  <2>4. CASE d = "Mic"
    BY <1>1, <1>3, <1>4, <2>1, <2>2, <2>4
  <2> QED
    BY <2>2, <2>3, <2>4
<1>6. \A e \in Devices : /\ call'[e].at \in {"Idle", "GotVolume"} \cup StreamCalls
                         /\ running'[e] + One(call'[e].at) <= MaxStreams
  BY <1>1 DEF CountInv, One
<1>7. \A e \in Devices : call'[e].at \notin {"SetResources", "Start", "GetResources", "UndoStart"}
                         /\ call[e].at \notin {"SetResources", "Start", "GetResources", "UndoStart"}
  BY <1>6 DEF CountInv, StreamCalls
<1>8. StreamsCounted'
  BY <1>5, <1>7 DEF S, CountInv, StreamsCounted, usbVars
<1> QED
  BY <1>1, <1>6, <1>8 DEF CountInv, One, usbVars

LEMMA RunningCounted ==
    ASSUME CountInv, kind = "Bth", NEW d \in Devices
    PROVE  m_nStreams >= running[d] + One(call[d].at)
<1> DEFINE S == {e \in Devices : kind = "Bth" /\ call[e].at \in {"Open", "Enable", "Undo"}}
<1>1. Cardinality(S) = (IF "Speaker" \in S THEN 1 ELSE 0) + (IF "Mic" \in S THEN 1 ELSE 0)
  BY DevicesCard
<1>2. Cardinality(S) = One(call["Speaker"].at) + One(call["Mic"].at)
  BY <1>1 DEF One, Opening, Devices
<1>3. m_nStreams = running["Speaker"] + running["Mic"] + Cardinality(S)
  BY DEF CountInv, StreamsCounted
<1>4. \A e \in Devices : running[e] \in Nat /\ One(call[e].at) \in Nat
  BY DEF CountInv, One
<1> HIDE DEF S
<1> QED
  BY <1>2, <1>3, <1>4 DEF Devices

LEMMA BthCounts == CountInv /\ Bth(BthHfpNext) => CountInv'
<1> SUFFICES ASSUME CountInv, kind = "Bth", BthHfpNext, UNCHANGED <<kind, usbVars>> PROVE CountInv'
  BY DEF Bth
<1> USE DEF bthVars, usbVars, counts
<1>1. CASE BthHfpLife \/ BthHfpStopping \/ BthHfpDestructor
  <2>1. UNCHANGED <<call, bthVars>>
    BY <1>1 DEF BthHfpLife, BthHfpInit, BthHfpCreateWorkItem, BthHfpCreateCollection, BthHfpOpenTarget,
       BthHfpCopyLinkName, BthHfpCreateNrecRequest, BthHfpCreateVolumeRequests, BthHfpCreateConnectionRequest,
       BthHfpCreateStreamRequest, BthHfpCreateRequests, BthHfpCreateFilterNames, BthHfpStart,
       SetBthHfpDeviceCapabilities, GetBthHfpDescriptor, GetBthHfpVolumePropertyValues, BthHfpStartVolumeLevels,
       GetBthHfpConnectionStatus, GetBthHfpCodecId, BthHfpCreateCustomEndpointMinipair,
       BthHfpInstallSpeakerFilters, BthHfpInstallMicFilters, EnableBthHfpNrecDisableStatusNotification,
       EnableBthHfpSpeakerVolumeStatusNotification, EnableBthHfpMicVolumeStatusNotification,
       EnableBthHfpConnectionStatusNotification, BthHfpEnable, BthHfpStopping, BthHfpDestructor
  <2> QED
    BY <2>1, CountFrame
<1>2. ASSUME NEW w \in Workers, (WdfWorkItemRun(w) /\ UNCHANGED bthVars) \/ EvtBthHfpDeviceNotificationStatusWorkItem(w)
      PROVE  CountInv'
  <2>1. UNCHANGED <<call, bthVars>>
    BY <1>2 DEF WdfWorkItemRun, EvtBthHfpDeviceNotificationStatusWorkItem, BthHfpTakeRequest, BthHfpVolumeUpdate,
       BthHfpCodecUpdate, BthHfpConnectionUpdate, BthHfpHandlersReturn, BthHfpResend
  <2> QED
    BY <2>1, CountFrame
<1>3. ASSUME NEW r \in Notifications, EvtBthHfpDeviceNotificationStatusCompletion(r) PROVE CountInv'
  BY <1>3, CountFrame DEF EvtBthHfpDeviceNotificationStatusCompletion
<1>4. CASE EvtBthHfpDeviceStreamStatusCompletion
  BY <1>4, CountFrame DEF EvtBthHfpDeviceStreamStatusCompletion
<1>5. ASSUME NEW p \in Properties, RemoteChange(p), UNCHANGED bthVars PROVE CountInv'
  BY <1>5, CountFrame DEF RemoteChange
<1>6. ASSUME NEW d \in Devices, BthHfpThreads(d) \/ BthHfpCall(d) PROVE CountInv'
  <2>1. /\ call[d] \in CallRecord /\ running[d] \in Nat /\ m_nStreams \in Nat /\ MaxStreams \in Nat
        /\ running[d] + One(call[d].at) <= MaxStreams /\ running = [running EXCEPT ![d] = running[d]]
        /\ m_nStreams >= running[d] + One(call[d].at) /\ call[d].at \in {"Idle", "GotVolume"} \cup StreamCalls
    BY RunningCounted, SidebandAssumption DEF CountInv, One
  <2>2. {"Idle", "GotVolume"} \cup StreamCalls \subseteq Places
    BY DEF Places
  <2>3. ASSUME UNCHANGED counts, NEW here \in {"Idle", "GotVolume"} \cup StreamCalls, CallTo(d, here),
               One(here) = One(call[d].at)
        PROVE  CountInv'
    BY <2>1, <2>3, BthCountStep DEF One
  <2>4. CASE BthHfpGetVolume(d)
    <3>1. PICK v \in {0, 1} : call' = [call EXCEPT ![d] = [at |-> "GotVolume", value |-> v]]
      BY <2>4 DEF BthHfpGetVolume
    <3>2. CallTo(d, "GotVolume")
      BY <2>2, <3>1, Goes, GoesWith, Returns, Stays DEF Places
    <3> QED
      BY <2>3, <2>4, <3>2 DEF BthHfpGetVolume, Idle, One, Opening
  <2>5. CASE BthHfpSetVolume(d) \/ BthHfpConnect(d)
    BY <2>5, CountFrame DEF BthHfpSetVolume, BthHfpConnect
  <2>6. CASE BthHfpGotVolume(d)
    BY <2>2, <2>3, <2>6, Goes, GoesWith, Returns, Stays DEF BthHfpGotVolume, One, Opening
  <2>7. CASE BthHfpStreamStart(d)
    <3>1. One(call[d].at) = 0 /\ One("Open") = 1 /\ m_nStreams' = m_nStreams + 1 /\ running[d] + 1 <= MaxStreams
      BY <2>1, <2>7 DEF BthHfpStreamStart, Idle, One, Opening
    <3>2. CASE m_nStreams = 0
      BY <2>1, <2>2, <2>7, <3>1, <3>2, Goes, BthCountStep DEF BthHfpStreamStart, StreamCalls
    <3>3. CASE m_nStreams # 0
      <4>1. CallTo(d, call[d].at) /\ running' = [running EXCEPT ![d] = running[d] + 1] /\ running[d] + 1 \in Nat
        BY <2>1, <2>7, <3>3, Stays DEF BthHfpStreamStart
      <4>2. /\ m_nStreams' \in Nat /\ running[d] + 1 + One(call[d].at) <= MaxStreams
            /\ m_nStreams' - m_nStreams = (running[d] + 1 + One(call[d].at)) - (running[d] + One(call[d].at))
        BY <2>1, <3>1
      <4> QED
        BY <2>1, <4>1, <4>2, BthCountStep
    <3> QED
      BY <3>2, <3>3
  <2>8. CASE BthHfpStreamSuspend(d)
    <3>1. One(call[d].at) = 0 /\ One("Close") = 0 /\ m_nStreams' = m_nStreams - 1 /\ m_nStreams >= 1 /\ running[d] >= 1
      BY <2>1, <2>8 DEF BthHfpStreamSuspend, Idle, One, Opening
    <3>2. /\ running' = [running EXCEPT ![d] = running[d] - 1] /\ running[d] - 1 \in Nat
          /\ CallTo(d, "Close") \/ CallTo(d, call[d].at)
      BY <2>1, <2>2, <2>8, <3>1, Goes, Stays DEF BthHfpStreamSuspend, StreamCalls
    <3>3. /\ m_nStreams' \in Nat /\ running[d] - 1 <= MaxStreams
          /\ m_nStreams' - m_nStreams = (running[d] - 1) - running[d]
      BY <2>1, <3>1
    <3>4. ASSUME NEW here \in {"Close", call[d].at}, CallTo(d, here) PROVE CountInv'
      <4>1. One(here) = 0 /\ here \in {"Idle", "GotVolume"} \cup StreamCalls
        BY <2>1, <3>1, <3>4 DEF StreamCalls
      <4>2. /\ running[d] - 1 + One(here) <= MaxStreams
            /\ m_nStreams' - m_nStreams = (running[d] - 1 + One(here)) - (running[d] + One(call[d].at))
        BY <2>1, <3>1, <3>2, <3>3, <4>1
      <4> QED
        BY <3>2, <3>3, <3>4, <4>1, <4>2, BthCountStep
    <3> QED
      BY <3>2, <3>4
  <2>9. CASE SetBthHfpStreamOpen(d)
    <3>1. CallTo(d, "Enable") \/ CallTo(d, "Undo")
      BY <2>2, <2>9, Goes, GoesWith, Returns, Stays DEF SetBthHfpStreamOpen, StreamCalls
    <3> QED
      BY <2>3, <2>9, <3>1 DEF SetBthHfpStreamOpen, One, Opening, StreamCalls
  <2>10. CASE EnableBthHfpStreamStatusNotification(d)
    <3>1. /\ One(call[d].at) = 1 /\ One("Undo") = 1 /\ One("Idle") = 0
          /\ \/ CallTo(d, "Idle") /\ running' = [running EXCEPT ![d] = @ + 1]
             \/ CallTo(d, "Undo") /\ UNCHANGED running
      BY <2>2, <2>10, Goes, GoesWith, Returns, Stays DEF EnableBthHfpStreamStatusNotification, One, Opening, StreamCalls
    <3> QED
      BY <2>1, <2>10, <3>1, BthCountStep DEF EnableBthHfpStreamStatusNotification, StreamCalls
  <2>11. CASE BthHfpUndoStart(d)
    <3>1. /\ One(call[d].at) = 1 /\ One("CloseUndo") = 0 /\ One("Idle") = 0 /\ m_nStreams >= 1
          /\ CallTo(d, "Idle") \/ CallTo(d, "CloseUndo")
      BY <2>1, <2>2, <2>11, Goes, GoesWith, Returns, Stays DEF BthHfpUndoStart, One, Opening, StreamCalls
    <3> QED
      BY <2>1, <2>11, <3>1, BthCountStep DEF BthHfpUndoStart, StreamCalls
  <2>12. CASE SetBthHfpStreamClose(d)
    <3>1. CallTo(d, "Idle") \/ CallTo(d, "Cancel")
      BY <2>2, <2>12, Goes, GoesWith, Returns, Stays DEF SetBthHfpStreamClose, StreamCalls
    <3> QED
      BY <2>3, <2>12, <3>1 DEF SetBthHfpStreamClose, One, Opening, StreamCalls
  <2>13. CASE BthHfpCancelStreamRequest(d)
    BY <2>2, <2>3, <2>13, Goes, GoesWith, Returns, Stays DEF BthHfpCancelStreamRequest, One, Opening, StreamCalls
  <2>14. CASE StopBthHfpStreamStatusNotification(d)
    BY <2>2, <2>3, <2>14, Goes, GoesWith, Returns, Stays DEF StopBthHfpStreamStatusNotification, One, Opening, StreamCalls
  <2> QED
    BY <1>6, <2>4, <2>5, <2>6, <2>7, <2>8, <2>9, <2>10, <2>11, <2>12, <2>13, <2>14 DEF BthHfpThreads, BthHfpCall
<1> QED
  BY <1>1, <1>2, <1>3, <1>4, <1>5, <1>6 DEF BthHfpNext

\* Counts of filter d alone are changed.
CountsOf(d) ==
    /\ held' \in [Devices -> Nat] /\ playing' \in [Devices -> Nat]
    /\ m_nStreamsOpen' \in [Devices -> Nat] /\ m_nStreamsStart' \in [Devices -> Nat]
    /\ \A e \in Devices \ {d} :
         /\ held'[e] = held[e] /\ playing'[e] = playing[e]
         /\ m_nStreamsOpen'[e] = m_nStreamsOpen[e] /\ m_nStreamsStart'[e] = m_nStreamsStart[e]

\* A step of a call of filter d of a USB device that changes the counts by as
\* much as it changes what the filter holds and plays.
LEMMA UsbCountStep ==
    ASSUME CountInv, kind = "Usb", UNCHANGED <<kind, m_nStreams, running>>, NEW d \in Devices,
           NEW here \in Places, CallTo(d, here), CountsOf(d),
           m_nStreamsOpen'[d] = held'[d] + One(here),
           m_nStreamsStart'[d] = playing'[d] + (IF here \in Starting THEN 1 ELSE 0), m_nStreamsStart'[d] <= held'[d]
    PROVE  CountInv'
<1> DEFINE S == {e \in Devices : kind = "Bth" /\ call[e].at \in {"Open", "Enable", "Undo"}}
<1>1. /\ call' \in [Devices -> CallRecord] /\ call'[d].at = here
      /\ \A e \in Devices \ {d} : call'[e] = call[e]
  BY DEF CallTo
<1>2. S = {} /\ S' = {}
  OBVIOUS
<1>3. m_nStreams' = running'["Speaker"] + running'["Mic"] + Cardinality(S')
  BY <1>2 DEF CountInv, StreamsCounted
<1>4. \A e \in Devices :
        /\ m_nStreamsOpen'[e] = held'[e] + One(call'[e].at)
        /\ m_nStreamsStart'[e] = playing'[e] + (IF call'[e].at \in Starting THEN 1 ELSE 0)
        /\ m_nStreamsStart'[e] <= held'[e]
  BY <1>1 DEF CountsOf, CountInv, StreamsCounted, One, Opening, Starting
<1>5. StreamsCounted'
  BY <1>3, <1>4 DEF StreamsCounted, One, Opening, Starting
<1> QED
  BY <1>1, <1>4, <1>5 DEF CountsOf, CountInv, One

LEMMA UsbCounts == CountInv /\ Usb(UsbHsNext) => CountInv'
<1> SUFFICES ASSUME CountInv, kind = "Usb", UsbHsNext, UNCHANGED <<kind, bthVars>> PROVE CountInv'
  BY DEF Usb
<1> USE DEF bthVars, usbVars, counts
<1>1. CASE UsbHsLife \/ UsbHsStopping \/ UsbHsDestructor
  <2>1. UNCHANGED <<call, m_nStreamsOpen, m_nStreamsStart, held, playing>>
    BY <1>1 DEF UsbHsLife, UsbHsInit, UsbHsCreateWorkItem, UsbHsCreateCollection, UsbHsOpenTarget,
       UsbHsCopyLinkName, UsbHsCreateVolumeRequests, UsbHsCreateMuteRequests, UsbHsCreateStreamRequests,
       UsbHsCreateRequests, UsbHsCreateFilterNames, UsbHsStart, GetUsbHsDescriptor, GetSiop,
       GetUsbHsEndpointDescriptors, UsbHsStartSpeakerVolume, UsbHsStartMicVolume, UsbHsStartVolume,
       UsbHsInstallSpeakerFilters, UsbHsInstallMicFilters, UsbHsInstallFilters,
       EnableUsbHsSpeakerVolumeStatusNotification, EnableUsbHsMicVolumeStatusNotification, UsbHsEnable,
       SetSidebandClaimed, UsbHsStopping, UsbHsDestructor
  <2> QED
    BY <2>1, CountFrame
<1>2. ASSUME NEW w \in Workers, (WdfWorkItemRun(w) /\ UNCHANGED usbVars) \/ EvtUsbHsDeviceNotificationStatusWorkItem(w)
      PROVE  CountInv'
  <2>1. UNCHANGED <<call, usbVars>>
    BY <1>2 DEF WdfWorkItemRun, EvtUsbHsDeviceNotificationStatusWorkItem, UsbHsTakeRequest, UsbHsUpdate,
       UsbHsHandlersReturn, UsbHsResend
  <2> QED
    BY <2>1, CountFrame
<1>3. ASSUME NEW r \in Notifications, EvtUsbHsDeviceNotificationStatusCompletion(r) PROVE CountInv'
  BY <1>3, CountFrame DEF EvtUsbHsDeviceNotificationStatusCompletion
<1>4. ASSUME NEW d \in Devices, EvtUsbHsDeviceStreamStatusCompletion(d) PROVE CountInv'
  BY <1>4, CountFrame DEF EvtUsbHsDeviceStreamStatusCompletion
<1>5. ASSUME NEW p \in Properties, RemoteChange(p), UNCHANGED usbVars PROVE CountInv'
  BY <1>5, CountFrame DEF RemoteChange
<1>6. ASSUME NEW d \in Devices, UsbHsThreads(d) \/ UsbHsCall(d) PROVE CountInv'
  <2> DEFINE Two(here) == IF here \in Starting THEN 1 ELSE 0
  <2>1. /\ held[d] \in Nat /\ playing[d] \in Nat /\ m_nStreamsOpen[d] \in Nat /\ m_nStreamsStart[d] \in Nat
        /\ m_nStreamsOpen[d] = held[d] + One(call[d].at) /\ m_nStreamsStart[d] = playing[d] + Two(call[d].at)
        /\ m_nStreamsStart[d] <= held[d] /\ call[d].at \in Places
    BY DEF CountInv, StreamsCounted, One, Opening, Starting, CallRecord
  <2>2. /\ held \in [Devices -> Nat] /\ playing \in [Devices -> Nat]
        /\ m_nStreamsOpen \in [Devices -> Nat] /\ m_nStreamsStart \in [Devices -> Nat]
    BY DEF CountInv
  <2>3. \A here \in Opening : One(here) = 1 /\ Two(here) = 0
    BY DEF One, Opening, Starting
  <2>4. \A here \in Starting : One(here) = 0 /\ Two(here) = 1
    BY DEF One, Opening, Starting
  <2>5. \A here \in Places \ (Opening \cup Starting) : One(here) = 0 /\ Two(here) = 0
    BY DEF One
  <2>6. Opening \subseteq Places /\ Starting \subseteq Places
        /\ {"Idle", "GotVolume", "Suspend", "SuspendUndo", "CloseUndo", "Close", "Cancel", "Wait"} = Places \ (Opening \cup Starting)
    BY DEF Places, Opening, Starting, StreamCalls
  <2> DEFINE Others == {"Idle", "GotVolume", "Suspend", "SuspendUndo", "CloseUndo", "Close", "Cancel", "Wait"}
  <2>7. ASSUME UNCHANGED counts, NEW here \in Places, CallTo(d, here), One(here) = One(call[d].at),
               Two(here) = Two(call[d].at)
        PROVE  CountInv'
    BY <2>1, <2>7, UsbCountStep DEF CountsOf, CountInv
  <2>8. CASE UsbHsGetVolume(d)
    <3>1. PICK v \in {0, 1} : call' = [call EXCEPT ![d] = [at |-> "GotVolume", value |-> v]]
      BY <2>8 DEF UsbHsGetVolume
    <3>2. CallTo(d, "GotVolume")
      BY <3>1, GoesWith DEF Places
    <3>3. call[d].at = "Idle"
      BY <2>8 DEF UsbHsGetVolume, Idle
    <3> QED
      BY <2>5, <2>6, <2>7, <2>8, <3>2, <3>3 DEF UsbHsGetVolume
  <2>9. CASE UsbHsSetVolume(d)
    BY <2>9, CountFrame DEF UsbHsSetVolume
  <2>10. CASE UsbHsGotVolume(d) \/ SetUsbHsStreamSuspend(d) \/ SetUsbHsStreamClose(d) \/ UsbHsCancelStreamRequest(d)
              \/ (call[d].at = "Wait" /\ StopUsbHsStreamStatusNotification(d))
    <3>1. call[d].at \in Others /\ UNCHANGED counts
      BY <2>10 DEF UsbHsGotVolume, SetUsbHsStreamSuspend, SetUsbHsStreamClose, UsbHsCancelStreamRequest,
         StopUsbHsStreamStatusNotification
    <3>2. CallTo(d, "Idle") \/ CallTo(d, "Cancel") \/ CallTo(d, "Wait")
      BY <2>6, <2>10, Goes, Returns DEF UsbHsGotVolume, SetUsbHsStreamSuspend, SetUsbHsStreamClose,
         UsbHsCancelStreamRequest, StopUsbHsStreamStatusNotification
    <3> QED
      BY <2>5, <2>6, <2>7, <3>1, <3>2
  <2>11. CASE UsbHsStreamOpen(d)
    <3>1. /\ m_nStreamsOpen' = [m_nStreamsOpen EXCEPT ![d] = m_nStreamsOpen[d] + 1] /\ call[d].at = "Idle"
          /\ UNCHANGED <<m_nStreams, running, m_nStreamsStart, playing>>
          /\ \/ CallTo(d, "Open") /\ UNCHANGED held
             \/ CallTo(d, "Idle") /\ held' = [held EXCEPT ![d] = held[d] + 1]
      BY <2>6, <2>11, Goes, Stays DEF UsbHsStreamOpen, Idle, Opening
    <3>2. One("Open") = 1 /\ Two("Open") = 0 /\ One("Idle") = 0 /\ Two("Idle") = 0 /\ "Open" \in Places /\ "Idle" \in Places
      BY <2>3, <2>5, <2>6 DEF Opening
    <3>3. CASE CallTo(d, "Open") /\ UNCHANGED held
      BY <2>1, <2>2, <3>1, <3>2, <3>3, UsbCountStep DEF CountsOf
    <3>4. CASE CallTo(d, "Idle") /\ held' = [held EXCEPT ![d] = held[d] + 1]
      BY <2>1, <2>2, <3>1, <3>2, <3>4, UsbCountStep DEF CountsOf
    <3> QED
      BY <3>1, <3>3, <3>4
  <2>12. CASE SetUsbHsStreamOpen(d)
    <3>1. CallTo(d, "Enable") \/ CallTo(d, "Undo")
      BY <2>6, <2>12, Goes, GoesWith DEF SetUsbHsStreamOpen, Opening
    <3> QED
      BY <2>3, <2>6, <2>7, <2>12, <3>1 DEF SetUsbHsStreamOpen, Opening
  <2>13. CASE call[d].at = "Enable" /\ EnableUsbHsStreamStatusNotification(d)
    <3>1. /\ UNCHANGED <<m_nStreams, running, m_nStreamsOpen, m_nStreamsStart, playing>>
          /\ \/ CallTo(d, "Idle") /\ held' = [held EXCEPT ![d] = held[d] + 1]
             \/ CallTo(d, "Undo") /\ UNCHANGED held
      BY <2>6, <2>13, GoesWith, Returns DEF EnableUsbHsStreamStatusNotification, Opening
    <3>2. One("Undo") = 1 /\ Two("Undo") = 0 /\ One("Idle") = 0 /\ Two("Idle") = 0 /\ One(call[d].at) = 1 /\ Two(call[d].at) = 0
          /\ "Undo" \in Places /\ "Idle" \in Places
      BY <2>3, <2>5, <2>6, <2>13 DEF Opening
    <3>3. CASE CallTo(d, "Undo") /\ UNCHANGED held
      BY <2>7, <3>1, <3>2, <3>3
    <3>4. CASE CallTo(d, "Idle") /\ held' = [held EXCEPT ![d] = held[d] + 1]
      BY <2>1, <2>2, <3>1, <3>2, <3>4, UsbCountStep DEF CountsOf
    <3> QED
      BY <3>1, <3>3, <3>4
  <2>14. CASE UsbHsUndoOpen(d)
    <3>1. /\ UNCHANGED <<m_nStreams, running, m_nStreamsStart, held, playing>>
          /\ m_nStreamsOpen' = [m_nStreamsOpen EXCEPT ![d] = m_nStreamsOpen[d] - 1]
          /\ CallTo(d, "Idle") \/ CallTo(d, "CloseUndo")
      BY <2>6, <2>14, Goes, Returns DEF UsbHsUndoOpen
    <3>2. /\ \A here \in {"Idle", "CloseUndo"} : One(here) = 0 /\ Two(here) = 0 /\ here \in Places
          /\ One(call[d].at) = 1 /\ Two(call[d].at) = 0
      BY <2>3, <2>5, <2>6, <2>14 DEF UsbHsUndoOpen, Opening
    <3>3. m_nStreamsOpen[d] - 1 \in Nat /\ m_nStreamsOpen[d] - 1 = held[d]
      BY <2>1, <3>2
    <3> QED
      BY <2>1, <2>2, <3>1, <3>2, <3>3, UsbCountStep DEF CountsOf
  <2>15. CASE UsbHsStreamStart(d)
    <3>1. /\ m_nStreamsStart' = [m_nStreamsStart EXCEPT ![d] = m_nStreamsStart[d] + 1] /\ call[d].at = "Idle"
          /\ UNCHANGED <<m_nStreams, running, m_nStreamsOpen, held>> /\ playing[d] < held[d]
          /\ \/ CallTo(d, "SetResources") /\ UNCHANGED playing
             \/ CallTo(d, "Idle") /\ playing' = [playing EXCEPT ![d] = playing[d] + 1]
      BY <2>6, <2>15, Goes, Stays DEF UsbHsStreamStart, Idle, Starting
    <3>2. /\ One("SetResources") = 0 /\ Two("SetResources") = 1 /\ One("Idle") = 0 /\ Two("Idle") = 0
          /\ "SetResources" \in Places /\ "Idle" \in Places
      BY <2>4, <2>5, <2>6 DEF Starting
    <3>3. m_nStreamsStart[d] + 1 \in Nat /\ m_nStreamsStart[d] = playing[d] /\ playing[d] + 1 <= held[d] /\ playing[d] + 1 \in Nat
      BY <2>1, <3>1, <3>2
    <3>4. CASE CallTo(d, "SetResources") /\ UNCHANGED playing
      BY <2>1, <2>2, <3>1, <3>2, <3>3, <3>4, UsbCountStep DEF CountsOf
    <3>5. CASE CallTo(d, "Idle") /\ playing' = [playing EXCEPT ![d] = playing[d] + 1]
      BY <2>1, <2>2, <3>1, <3>2, <3>3, <3>5, UsbCountStep DEF CountsOf
    <3> QED
      BY <3>1, <3>4, <3>5
  <2>16. CASE SetTransportResources(d) \/ SetUsbHsStreamStart(d)
    <3>1. /\ UNCHANGED counts /\ call[d].at \in Starting
          /\ CallTo(d, "Start") \/ CallTo(d, "GetResources") \/ CallTo(d, "UndoStart")
      BY <2>6, <2>16, Goes DEF SetTransportResources, SetUsbHsStreamStart, Starting
    <3> QED
      BY <2>4, <2>6, <2>7, <3>1 DEF Starting
  <2>17. CASE GetTransportResources(d)
    <3>1. /\ UNCHANGED <<m_nStreams, running, m_nStreamsOpen, m_nStreamsStart, held>>
          /\ \/ CallTo(d, "Idle") /\ playing' = [playing EXCEPT ![d] = playing[d] + 1]
             \/ CallTo(d, "UndoStart") /\ UNCHANGED playing
      BY <2>6, <2>17, GoesWith, Returns DEF GetTransportResources, Starting
    <3>2. /\ One("UndoStart") = 0 /\ Two("UndoStart") = 1 /\ One("Idle") = 0 /\ Two("Idle") = 0
          /\ One(call[d].at) = 0 /\ Two(call[d].at) = 1 /\ "UndoStart" \in Places /\ "Idle" \in Places
      BY <2>4, <2>5, <2>6, <2>17 DEF GetTransportResources, Starting
    <3>3. CASE CallTo(d, "UndoStart") /\ UNCHANGED playing
      BY <2>7, <3>1, <3>2, <3>3
    <3>4. CASE CallTo(d, "Idle") /\ playing' = [playing EXCEPT ![d] = playing[d] + 1]
      BY <2>1, <2>2, <3>1, <3>2, <3>4, UsbCountStep DEF CountsOf
    <3> QED
      BY <3>1, <3>3, <3>4
  <2>18. CASE UsbHsUndoStart(d)
    <3>1. /\ UNCHANGED <<m_nStreams, running, m_nStreamsOpen, held, playing>>
          /\ m_nStreamsStart' = [m_nStreamsStart EXCEPT ![d] = m_nStreamsStart[d] - 1]
          /\ CallTo(d, "Idle") \/ CallTo(d, "SuspendUndo")
      BY <2>6, <2>18, Goes, Returns DEF UsbHsUndoStart
    <3>2. /\ \A here \in {"Idle", "SuspendUndo"} : One(here) = 0 /\ Two(here) = 0 /\ here \in Places
          /\ One(call[d].at) = 0 /\ Two(call[d].at) = 1
      BY <2>4, <2>5, <2>6, <2>18 DEF UsbHsUndoStart, Starting
    <3>3. m_nStreamsStart[d] - 1 \in Nat /\ m_nStreamsStart[d] - 1 = playing[d] /\ m_nStreamsStart[d] - 1 <= held[d]
      BY <2>1, <3>2
    <3> QED
      BY <2>1, <2>2, <3>1, <3>2, <3>3, UsbCountStep DEF CountsOf
  <2>19. CASE UsbHsStreamSuspend(d)
    <3>1. /\ m_nStreamsStart' = [m_nStreamsStart EXCEPT ![d] = m_nStreamsStart[d] - 1] /\ call[d].at = "Idle"
          /\ UNCHANGED <<m_nStreams, running, m_nStreamsOpen, held>> /\ playing[d] > 0
          /\ playing' = [playing EXCEPT ![d] = playing[d] - 1]
          /\ CallTo(d, "Suspend") \/ CallTo(d, "Idle")
      BY <2>6, <2>19, Goes, Stays DEF UsbHsStreamSuspend, Idle
    <3>2. \A here \in {"Idle", "Suspend"} : One(here) = 0 /\ Two(here) = 0 /\ here \in Places
      BY <2>5, <2>6
    <3>3. /\ m_nStreamsStart[d] - 1 \in Nat /\ playing[d] - 1 \in Nat /\ m_nStreamsStart[d] - 1 = playing[d] - 1
          /\ m_nStreamsStart[d] - 1 <= held[d]
      BY <2>1, <3>1, <3>2
    <3> QED
      BY <2>1, <2>2, <3>1, <3>2, <3>3, UsbCountStep DEF CountsOf
  <2>20. CASE UsbHsStreamClose(d)
    <3>1. /\ m_nStreamsOpen' = [m_nStreamsOpen EXCEPT ![d] = m_nStreamsOpen[d] - 1] /\ call[d].at = "Idle"
          /\ UNCHANGED <<m_nStreams, running, m_nStreamsStart, playing>> /\ held[d] > playing[d]
          /\ held' = [held EXCEPT ![d] = held[d] - 1]
          /\ CallTo(d, "Close") \/ CallTo(d, "Idle")
      BY <2>6, <2>20, Goes, Stays DEF UsbHsStreamClose, Idle
    <3>2. \A here \in {"Idle", "Close"} : One(here) = 0 /\ Two(here) = 0 /\ here \in Places
      BY <2>5, <2>6
    <3>3. /\ m_nStreamsOpen[d] - 1 \in Nat /\ held[d] - 1 \in Nat /\ m_nStreamsOpen[d] - 1 = held[d] - 1
          /\ m_nStreamsStart[d] <= held[d] - 1
      BY <2>1, <3>1, <3>2
    <3> QED
      BY <2>1, <2>2, <3>1, <3>2, <3>3, UsbCountStep DEF CountsOf
  <2> QED
    BY <1>6, <2>8, <2>9, <2>10, <2>11, <2>12, <2>13, <2>14, <2>15, <2>16, <2>17, <2>18, <2>19, <2>20
    DEF UsbHsThreads, UsbHsCall, EnableUsbHsSpeakerStreamStatusNotification, EnableUsbHsMicStreamStatusNotification,
        StopUsbHsSpeakerStreamStatusNotification, StopUsbHsMicStreamStatusNotification
<1> QED
  BY <1>1, <1>2, <1>3, <1>4, <1>5, <1>6 DEF UsbHsNext

\* CountInv holds of a new object, and every step of either kind keeps it.
THEOREM CountInvariance == Spec => []CountInv
<1>1. Init => CountInv
  <2> SUFFICES ASSUME Init PROVE CountInv
    OBVIOUS
  <2> USE DEF Init, SidebandInit, BthHfpSpecInit, UsbHsSpecInit
  <2>1. kind \in {"Bth", "Usb"}
    BY CasesAssumption
  <2>2. call \in [Devices -> CallRecord] /\ \A d \in Devices : call[d].at = "Idle"
    BY DEF Idle, CallRecord, Places
  <2>3. \A d \in Devices : /\ call[d].at \notin {"Open", "Enable", "Undo"} /\ call[d].at \notin Opening
                           /\ call[d].at \notin {"SetResources", "Start", "GetResources", "UndoStart"}
    BY <2>2 DEF Opening
  <2>4. Cardinality({d \in Devices : kind = "Bth" /\ call[d].at \in {"Open", "Enable", "Undo"}}) = 0
    <3>1. {d \in Devices : kind = "Bth" /\ call[d].at \in {"Open", "Enable", "Undo"}} = {}
      BY <2>3
    <3> QED
      BY <3>1, FS_EmptySet
  <2>5. StreamsCounted
    BY <2>3, <2>4 DEF StreamsCounted, Devices
  <2> QED
    BY <2>1, <2>2, <2>3, <2>5, SidebandAssumption DEF CountInv
<1>2. CountInv /\ [Next]_vars => CountInv'
  <2> SUFFICES ASSUME CountInv, [Next]_vars PROVE CountInv'
    OBVIOUS
  <2>1. CASE UNCHANGED vars
    BY <2>1, CountFrame DEF vars, sidebandVars, bthVars, usbVars, counts
  <2> QED
    BY <2>1, BthCounts, UsbCounts DEF Next, Gone
<1> QED
  BY <1>1, <1>2, PTL DEF Spec

\* m_nStreams, m_nStreamsOpen and m_nStreamsStart count the streams of the filters,
\* however the calls interleave and whichever step of a start fails.
THEOREM CountsAreExact == Spec => []StreamsCounted
<1>1. CountInv => StreamsCounted
  BY DEF CountInv
<1> QED
  BY <1>1, CountInvariance, PTL

-----------------------------------------------------------------------------
(***************************************************************************)
(* The stream of a Bluetooth device                                        *)
(***************************************************************************)

Unsent == {"None", "Ready"}

\* What the adapter's thread does to the stream requests.
LEMMA CreateStepStreams ==
    ASSUME QuietInv, CreateStep, NEW s \in StreamRequests
    PROVE  request[s] \in Unsent /\ request'[s] \in Unsent
<1>1. New /\ s \in Requests
  BY DEF CreateStep, QuietInv, LifeAgrees, New, Creating, Asking, Installing, Stopping, Ended, Requests
<1>2. request[s] \in Unsent
  BY <1>1 DEF QuietInv, NewIsUntouched, Unsent
<1> QED
  BY <1>1, <1>2 DEF CreateStep, Unsent

LEMMA StartSortStreams ==
    ASSUME QuietInv, StartSort, NEW s \in StreamRequests
    PROVE  request'[s] = request[s]
BY DEF StartSort, QuietInv, Requests, Notifications, StreamRequests

\* The work item handles notifications, never a stream request.
LEMMA WorkStreams ==
    ASSUME QuietInv, NEW w \in Workers, WdfWorkItemRun(w) \/ TakeStep(w) \/ WorkStep(w) \/ ResendStep(w),
           NEW s \in StreamRequests
    PROVE  request'[s] = request[s]
<1>1. s \in Requests /\ s \notin Notifications /\ s # "None"
  BY DEF Requests, StreamRequests, Notifications
<1>2. CASE TakeStep(w)
  <2>1. m_ReqCollection # <<>> => Head(m_ReqCollection) \in Notifications
    BY DEF QuietInv, CollectionAgrees
  <2> QED
    BY <1>1, <1>2, <2>1 DEF TakeStep, QuietInv
<1>3. CASE ResendStep(w)
  <2>1. worker[w].req \in Notifications \cup {"None"}
    BY DEF QuietInv, WorkersAgree, WorkerRecord
  <2> QED
    BY <1>1, <1>3, <2>1 DEF ResendStep, QuietInv
<1> QED
  BY <1>2, <1>3 DEF WdfWorkItemRun, WorkStep

LEMMA BthStreamFrame ==
    ASSUME BthStreamInv, UNCHANGED <<kind, overlapped, call, m_nStreams, status, event>>,
           \/ request'["Stream"] = request["Stream"]
           \/ request["Stream"] \in Unsent /\ request'["Stream"] \in Unsent
    PROVE  BthStreamInv'
<1>1. Pending("Stream")' <=> Pending("Stream")
  BY DEF Pending, Unsent
<1>2. \A d \in Devices : RequestAgrees(call[d].at, m_nStreams, request["Stream"])
                         => RequestAgrees(call[d].at, m_nStreams, request'["Stream"])
  BY DEF RequestAgrees, Unsent
<1> QED
  BY <1>1, <1>2 DEF BthStreamInv

\* The filter d alone is in a stream call.
LEMMA BthAlone ==
    ASSUME BthStreamInv, kind = "Bth", overlapped = FALSE, NEW d \in Devices,
           \/ call[d].at \in StreamCalls \/ \A e \in Devices \ {d} : call[e].at \notin StreamCalls
    PROVE  /\ \A e \in Devices \ {d} : call[e].at \notin StreamCalls
           /\ RequestAgrees(call[d].at, m_nStreams, request["Stream"])
           /\ m_nStreams = 0 /\ call[d].at \notin StreamCalls => status["Stream"] = "Invalid"
           /\ event["Stream"] <=> ~Pending("Stream")
<1>1. \A e \in Devices \ {d} : call[e].at \notin StreamCalls
  BY DEF BthStreamInv
<1>2. PICK c \in Devices : /\ RequestAgrees(call[c].at, m_nStreams, request["Stream"])
                           /\ \A e \in Devices \ {c} : call[e].at \notin StreamCalls
  BY DEF BthStreamInv
<1>3. RequestAgrees(call[d].at, m_nStreams, request["Stream"])
  <2>1. CASE c = d
    BY <1>2, <2>1
  <2>2. CASE c # d
    <3>1. call[c].at \notin StreamCalls /\ call[d].at \notin StreamCalls
      BY <1>1, <1>2, <2>2
    <3> QED
      BY <1>2, <3>1 DEF RequestAgrees, Opening, StreamCalls
  <2> QED
    BY <2>1, <2>2
<1> QED
  BY <1>1, <1>3 DEF BthStreamInv

LEMMA BthStreamStep ==
    ASSUME NEW d \in Devices, NEW here, CallTo(d, here), \A e \in Devices \ {d} : call[e].at \notin StreamCalls,
           RequestAgrees(here, m_nStreams', request'["Stream"]),
           m_nStreams' = 0 /\ here \notin StreamCalls => status'["Stream"] = "Invalid",
           event'["Stream"] <=> ~Pending("Stream")'
    PROVE  BthStreamInv'
<1>1. call'[d].at = here /\ \A e \in Devices \ {d} : call'[e].at \notin StreamCalls
  BY DEF CallTo
<1> QED
  BY <1>1 DEF BthStreamInv

LEMMA BthStreams ==
    ASSUME QuietInv, CountInv, StreamInv, Bth(BthHfpNext)
    PROVE  StreamInv'
<1>1. kind = "Bth" /\ BthHfpNext /\ UNCHANGED <<kind, usbVars>>
  BY DEF Bth
<1> DEFINE Same == request'["Stream"] = request["Stream"]
                   \/ (request["Stream"] \in Unsent /\ request'["Stream"] \in Unsent)
<1>2. "Stream" \in StreamRequests /\ "Stream" \in Requests /\ StreamRequests \subseteq Requests
  BY DEF StreamRequests, Requests
<1>3. ASSUME BthStreamInv', UNCHANGED descriptor, overlapped' \in BOOLEAN,
             event' \in [StreamRequests -> BOOLEAN], status' \in [StreamRequests -> {"Invalid", "Success"}]
      PROVE  StreamInv'
  BY <1>1, <1>3 DEF StreamInv, EndpointsAgree, UsbStreamInv, usbVars
<1>4. ASSUME UNCHANGED <<descriptor, overlapped, call, m_nStreams, status, event>>, Same
      PROVE  StreamInv'
  BY <1>1, <1>3, <1>4, BthStreamFrame DEF StreamInv
<1>5. CASE BthHfpLife
  <2>1. UNCHANGED <<descriptor, overlapped, call, m_nStreams, status, event>>
    BY <1>5 DEF BthHfpLife, BthHfpInit, BthHfpCreateWorkItem, BthHfpCreateCollection, BthHfpOpenTarget,
       BthHfpCopyLinkName, BthHfpCreateNrecRequest, BthHfpCreateVolumeRequests, BthHfpCreateConnectionRequest,
       BthHfpCreateStreamRequest, BthHfpCreateRequests, BthHfpCreateFilterNames, BthHfpStart,
       SetBthHfpDeviceCapabilities, GetBthHfpDescriptor, GetBthHfpVolumePropertyValues, BthHfpStartVolumeLevels,
       GetBthHfpConnectionStatus, GetBthHfpCodecId, BthHfpCreateCustomEndpointMinipair,
       BthHfpInstallSpeakerFilters, BthHfpInstallMicFilters, EnableBthHfpNrecDisableStatusNotification,
       EnableBthHfpSpeakerVolumeStatusNotification, EnableBthHfpMicVolumeStatusNotification,
       EnableBthHfpConnectionStatusNotification, BthHfpEnable, bthVars, stream, env
  <2>2. CreateStep \/ StartSort
    BY <1>1, <1>5, BthCreates, BthStarts DEF BthHfpLife
  <2> QED
    BY <1>2, <1>4, <2>1, <2>2, CreateStepStreams, StartSortStreams
<1>6. CASE BthHfpStopping
  BY <1>4, <1>6 DEF BthHfpStopping, bthVars, stream, env
<1>7. CASE BthHfpDestructor
  <2>1. \A d \in Devices : call[d] = Idle /\ call[d].at = "Idle" /\ running[d] = 0
    BY <1>7 DEF BthHfpDestructor, Idle
  <2>2. m_nStreams = 0
    <3>1. {d \in Devices : kind = "Bth" /\ call[d].at \in {"Open", "Enable", "Undo"}} = {}
      BY <2>1
    <3>2. m_nStreams = running["Speaker"] + running["Mic"] + 0
      BY <3>1, FS_EmptySet DEF CountInv, StreamsCounted
    <3> QED
      BY <2>1, <3>2 DEF Devices
  <2>3. overlapped = FALSE => request["Stream"] \in Unsent
    <3>1. \A d \in Devices : call[d].at \notin StreamCalls
      BY <2>1 DEF StreamCalls
    <3>2. "Speaker" \in Devices
      BY DEF Devices
    <3>3. overlapped = FALSE => RequestAgrees(call["Speaker"].at, m_nStreams, request["Stream"])
      BY <1>1, <3>1, <3>2, BthAlone DEF StreamInv
    <3> QED
      BY <2>1, <2>2, <3>2, <3>3 DEF RequestAgrees, Unsent, Opening
  <2>4. request'["Stream"] = "None" /\ UNCHANGED <<descriptor, overlapped, call, m_nStreams, status, event>>
    BY <1>2, <1>7 DEF BthHfpDestructor, BthHfpDeleteRequests, bthVars, stream, env
  <2>5. CASE overlapped = FALSE
    BY <1>4, <2>3, <2>4, <2>5 DEF Unsent
  <2>6. CASE overlapped # FALSE
    BY <1>3, <2>4, <2>6 DEF StreamInv, BthStreamInv
  <2> QED
    BY <2>5, <2>6
<1>8. ASSUME NEW w \in Workers, (WdfWorkItemRun(w) /\ UNCHANGED bthVars) \/ EvtBthHfpDeviceNotificationStatusWorkItem(w)
      PROVE  StreamInv'
  <2>1. UNCHANGED <<descriptor, overlapped, call, m_nStreams, status, event>>
    BY <1>8 DEF WdfWorkItemRun, EvtBthHfpDeviceNotificationStatusWorkItem, BthHfpTakeRequest, BthHfpVolumeUpdate,
       BthHfpCodecUpdate, BthHfpConnectionUpdate, BthHfpHandlersReturn, BthHfpResend, bthVars, stream, env
  <2>2. WdfWorkItemRun(w) \/ TakeStep(w) \/ WorkStep(w) \/ ResendStep(w)
    BY <1>1, <1>8, BthWorks
  <2>3. request'["Stream"] = request["Stream"]
    BY <2>2, WorkStreams DEF StreamRequests
  <2> QED
    BY <1>4, <2>1, <2>3
<1>9. ASSUME NEW r \in Notifications, EvtBthHfpDeviceNotificationStatusCompletion(r) PROVE StreamInv'
  <2>1. UNCHANGED <<descriptor, overlapped, call, m_nStreams, status, event>>
    BY <1>9 DEF EvtBthHfpDeviceNotificationStatusCompletion, bthVars, stream, env
  <2>2. request'["Stream"] = request["Stream"]
    BY <1>2, <1>9 DEF EvtBthHfpDeviceNotificationStatusCompletion, QuietInv, Notifications
  <2> QED
    BY <1>4, <2>1, <2>2
<1>10. ASSUME NEW p \in Properties, RemoteChange(p), UNCHANGED bthVars PROVE StreamInv'
  BY <1>4, <1>10 DEF RemoteChange, bthVars, stream, env
<1>11. CASE EvtBthHfpDeviceStreamStatusCompletion
  <2>1. /\ UNCHANGED <<descriptor, overlapped, call, m_nStreams>> /\ Pending("Stream") /\ request'["Stream"] = "Done"
        /\ event' \in [StreamRequests -> BOOLEAN] /\ status' \in [StreamRequests -> {"Invalid", "Success"}]
        /\ event'["Stream"] = TRUE
    BY <1>2, <1>11 DEF EvtBthHfpDeviceStreamStatusCompletion, bthVars, env, StreamInv, QuietInv
  <2>2. CASE overlapped # FALSE
    BY <1>3, <2>1, <2>2 DEF StreamInv, BthStreamInv
  <2>3. CASE overlapped = FALSE
    <3>1. PICK c \in Devices : /\ RequestAgrees(call[c].at, m_nStreams, request["Stream"])
                               /\ \A e \in Devices \ {c} : call[e].at \notin StreamCalls
      BY <1>1, <2>3 DEF StreamInv, BthStreamInv
    <3>2. /\ RequestAgrees(call[c].at, m_nStreams, "Done") /\ ~Pending("Stream")'
          /\ ~(m_nStreams = 0 /\ call[c].at \notin StreamCalls)
      BY <2>1, <3>1 DEF RequestAgrees, Pending, StreamCalls, Opening, CountInv
    <3>3. BthStreamInv'
      BY <2>1, <3>1, <3>2, Stays, BthStreamStep
    <3> QED
      BY <1>3, <2>1, <3>3 DEF StreamInv
  <2> QED
    BY <2>2, <2>3
<1>12. ASSUME NEW d \in Devices, BthHfpThreads(d) \/ BthHfpCall(d) PROVE StreamInv'
  <2> DEFINE Typed == /\ UNCHANGED descriptor /\ overlapped' \in BOOLEAN /\ event' \in [StreamRequests -> BOOLEAN]
                      /\ status' \in [StreamRequests -> {"Invalid", "Success"}]
  <2>1. ASSUME Typed, overlapped = TRUE \/ overlapped' = TRUE, overlapped' \in {overlapped, TRUE} PROVE StreamInv'
    BY <1>3, <2>1 DEF BthStreamInv
  <2>2. /\ overlapped \in BOOLEAN /\ event \in [StreamRequests -> BOOLEAN]
        /\ status \in [StreamRequests -> {"Invalid", "Success"}] /\ request["Stream"] \in RequestStates
        /\ m_nStreams \in Nat
    BY <1>2 DEF StreamInv, QuietInv, CountInv
  <2>3. ASSUME NEW here, CallTo(d, here), UNCHANGED <<descriptor, overlapped, m_nStreams, status, event, request>>,
               call[d].at \notin StreamCalls, here \notin StreamCalls
        PROVE  StreamInv'
    <3>1. CASE overlapped = TRUE
      BY <2>1, <2>2, <2>3, <3>1
    <3>2. CASE overlapped = FALSE
      <4>1. /\ \A e \in Devices : call'[e].at \in StreamCalls <=> call[e].at \in StreamCalls
            /\ \A e \in Devices : RequestAgrees(call[e].at, m_nStreams, request["Stream"])
                                    => RequestAgrees(call'[e].at, m_nStreams, request["Stream"])
        BY <2>3 DEF CallTo, RequestAgrees, StreamCalls, Opening
      <4>2. BthStreamInv /\ (Pending("Stream")' <=> Pending("Stream"))
        BY <2>3 DEF StreamInv, Pending
      <4>3. BthStreamInv'
        BY <1>1, <2>3, <3>2, <4>1, <4>2 DEF BthStreamInv
      <4> QED
        BY <1>3, <2>2, <2>3, <4>3
    <3> QED
      BY <2>2, <3>1, <3>2
  <2>4. CASE BthHfpGetVolume(d)
    <3>1. PICK v \in {0, 1} : call' = [call EXCEPT ![d] = [at |-> "GotVolume", value |-> v]]
      BY <2>4 DEF BthHfpGetVolume
    <3>2. CallTo(d, "GotVolume")
      BY <3>1, GoesWith DEF Places
    <3>3. call[d].at \notin StreamCalls /\ "GotVolume" \notin StreamCalls
      BY <2>4 DEF BthHfpGetVolume, Idle, StreamCalls
    <3> QED
      BY <2>3, <2>4, <3>2, <3>3 DEF BthHfpGetVolume, env, bthVars, stream
  <2>5. CASE BthHfpSetVolume(d) \/ BthHfpConnect(d)
    BY <1>4, <2>5 DEF BthHfpSetVolume, BthHfpConnect, env, bthVars, stream
  <2>6. CASE BthHfpGotVolume(d)
    <3>1. CallTo(d, "Idle") /\ call[d].at \notin StreamCalls /\ "Idle" \notin StreamCalls
      BY <2>6, Returns DEF BthHfpGotVolume, StreamCalls
    <3> QED
      BY <2>3, <2>6, <3>1 DEF BthHfpGotVolume, env, bthVars, stream
  <2>7. ASSUME Typed, UNCHANGED overlapped, call[d].at \in StreamCalls, NEW here, CallTo(d, here),
               RequestAgrees(call[d].at, m_nStreams, request["Stream"]) /\ (event["Stream"] <=> ~Pending("Stream")) =>
                 /\ RequestAgrees(here, m_nStreams', request'["Stream"])
                 /\ m_nStreams' = 0 /\ here \notin StreamCalls => status'["Stream"] = "Invalid"
                 /\ event'["Stream"] <=> ~Pending("Stream")'
        PROVE  StreamInv'
    <3>1. CASE overlapped = TRUE
      BY <2>1, <2>7, <3>1
    <3>2. CASE overlapped = FALSE
      <4>1. /\ \A e \in Devices \ {d} : call[e].at \notin StreamCalls
            /\ RequestAgrees(call[d].at, m_nStreams, request["Stream"])
            /\ event["Stream"] <=> ~Pending("Stream")
        BY <1>1, <2>7, <3>2, BthAlone DEF StreamInv
      <4>2. BthStreamInv'
        BY <2>7, <4>1, BthStreamStep
      <4> QED
        BY <1>3, <2>7, <4>2
    <3> QED
      BY <2>2, <3>1, <3>2
  <2>8. ASSUME Typed, Overlap(d), call[d].at \notin StreamCalls, NEW here, CallTo(d, here),
               RequestAgrees(call[d].at, m_nStreams, request["Stream"]) /\ (event["Stream"] <=> ~Pending("Stream")) =>
                 /\ RequestAgrees(here, m_nStreams', request'["Stream"])
                 /\ m_nStreams' = 0 => here \in StreamCalls
                 /\ event'["Stream"] <=> ~Pending("Stream")'
        PROVE  StreamInv'
    <3>1. CASE overlapped' = TRUE
      BY <2>1, <2>8, <3>1
    <3>2. CASE overlapped' = FALSE
      <4>1. overlapped = FALSE /\ \A e \in Devices \ {d} : call[e].at \notin StreamCalls
        BY <2>2, <2>8, <3>2 DEF Overlap
      <4>2. /\ RequestAgrees(call[d].at, m_nStreams, request["Stream"])
            /\ event["Stream"] <=> ~Pending("Stream")
        BY <1>1, <4>1, BthAlone DEF StreamInv
      <4>3. BthStreamInv'
        BY <2>8, <4>1, <4>2, BthStreamStep
      <4> QED
        BY <1>3, <2>8, <4>3
    <3> QED
      BY <2>8, <3>1, <3>2
  <2>9. CASE BthHfpStreamStart(d)
    <3>0. call[d].at = "Idle" /\ {"Idle", "Open", "Close"} \subseteq Places
      BY <2>9 DEF BthHfpStreamStart, Idle, Places, StreamCalls
    <3>1. /\ Typed /\ Overlap(d) /\ call[d].at = "Idle" /\ UNCHANGED <<request, event>> /\ m_nStreams' = m_nStreams + 1
          /\ (m_nStreams = 0 /\ CallTo(d, "Open")) \/ (m_nStreams # 0 /\ CallTo(d, "Idle"))
      <4>1. /\ UNCHANGED <<descriptor, status, request, event>> /\ m_nStreams' = m_nStreams + 1 /\ Overlap(d)
        BY <2>9 DEF BthHfpStreamStart, env, stream
      <4>2. overlapped' \in BOOLEAN
        BY <2>2, <4>1 DEF Overlap
      <4>3. (m_nStreams = 0 /\ CallTo(d, "Open")) \/ (m_nStreams # 0 /\ CallTo(d, "Idle"))
        <5>1. IF m_nStreams = 0 THEN Goto(d, "Open") ELSE UNCHANGED call
          BY <2>9 DEF BthHfpStreamStart
        <5>2. UNCHANGED call => CallTo(d, "Idle")
          BY <3>0, Stays
        <5>3. Goto(d, "Open") => CallTo(d, "Open")
          BY <3>0, Goes
        <5> QED
          BY <5>1, <5>2, <5>3
      <4> QED
        BY <2>2, <3>0, <4>1, <4>2, <4>3
    <3>2. CASE m_nStreams = 0 /\ CallTo(d, "Open")
      <4>1. RequestAgrees("Idle", 0, request["Stream"]) => RequestAgrees("Open", 1, request["Stream"])
        BY DEF RequestAgrees, Opening, StreamCalls
      <4> QED
        BY <2>8, <3>1, <3>2, <4>1 DEF Pending, StreamCalls
    <3>3. CASE m_nStreams # 0 /\ CallTo(d, "Idle")
      <4>1. RequestAgrees("Idle", m_nStreams, request["Stream"]) => RequestAgrees("Idle", m_nStreams + 1, request["Stream"])
        BY <2>2, <3>3 DEF RequestAgrees, Opening, StreamCalls
      <4>2. m_nStreams + 1 # 0
        BY <2>2
      <4> QED
        BY <2>8, <3>1, <3>3, <4>1, <4>2 DEF Pending, StreamCalls
    <3> QED
      BY <3>1, <3>2, <3>3
  <2>10. CASE BthHfpStreamSuspend(d)
    <3>0. call[d].at = "Idle" /\ {"Idle", "Open", "Close"} \subseteq Places
      BY <2>10 DEF BthHfpStreamSuspend, Idle, Places, StreamCalls
    <3>1. /\ Typed /\ Overlap(d) /\ call[d].at = "Idle" /\ UNCHANGED <<request, event>> /\ m_nStreams' = m_nStreams - 1
          /\ (m_nStreams = 1 /\ CallTo(d, "Close")) \/ (m_nStreams # 1 /\ CallTo(d, "Idle"))
      <4>1. /\ UNCHANGED <<descriptor, status, request, event>> /\ m_nStreams' = m_nStreams - 1 /\ Overlap(d)
        BY <2>10 DEF BthHfpStreamSuspend, env, stream
      <4>2. overlapped' \in BOOLEAN
        BY <2>2, <4>1 DEF Overlap
      <4>3. (m_nStreams = 1 /\ CallTo(d, "Close")) \/ (m_nStreams # 1 /\ CallTo(d, "Idle"))
        <5>1. IF m_nStreams = 1 THEN Goto(d, "Close") ELSE UNCHANGED call
          BY <2>10 DEF BthHfpStreamSuspend
        <5>2. UNCHANGED call => CallTo(d, "Idle")
          BY <3>0, Stays
        <5>3. Goto(d, "Close") => CallTo(d, "Close")
          BY <3>0, Goes
        <5> QED
          BY <5>1, <5>2, <5>3
      <4> QED
        BY <2>2, <3>0, <4>1, <4>2, <4>3
    <3>2. CASE m_nStreams = 1 /\ CallTo(d, "Close")
      <4>1. RequestAgrees("Idle", 1, request["Stream"]) => RequestAgrees("Close", 0, request["Stream"])
        BY DEF RequestAgrees, Opening, StreamCalls
      <4> QED
        BY <2>8, <3>1, <3>2, <4>1 DEF Pending, StreamCalls
    <3>3. CASE m_nStreams # 1 /\ CallTo(d, "Idle")
      <4>0. m_nStreams > 1
        <5>1. m_nStreams >= running[d] + One(call[d].at) /\ running[d] \in Nat /\ running[d] > 0 /\ One(call[d].at) \in Nat
          BY <1>1, <2>10, RunningCounted DEF BthHfpStreamSuspend, CountInv, One
        <5> QED
          BY <2>2, <3>3, <5>1
      <4>1. RequestAgrees("Idle", m_nStreams, request["Stream"]) => RequestAgrees("Idle", m_nStreams - 1, request["Stream"])
        BY <2>2, <4>0 DEF RequestAgrees, Opening, StreamCalls
      <4>2. m_nStreams - 1 # 0
        BY <2>2, <4>0
      <4> QED
        BY <2>8, <3>1, <3>3, <4>1, <4>2 DEF Pending, StreamCalls
    <3> QED
      BY <3>1, <3>2, <3>3
  <2>11. CASE SetBthHfpStreamOpen(d)
    <3>1. /\ Typed /\ UNCHANGED <<overlapped, request, event, m_nStreams>> /\ call[d].at = "Open"
          /\ CallTo(d, "Enable") \/ CallTo(d, "Undo")
      BY <2>2, <2>11, Goes, GoesWith DEF SetBthHfpStreamOpen, Places, StreamCalls, env, bthVars
    <3>2. \A here \in {"Enable", "Undo"} : /\ RequestAgrees("Open", m_nStreams, request["Stream"])
                                              => RequestAgrees(here, m_nStreams, request["Stream"])
                                           /\ here \in StreamCalls
      BY DEF RequestAgrees, Opening, StreamCalls
    <3> QED
      BY <2>7, <3>1, <3>2 DEF Pending, StreamCalls
  <2>12. CASE EnableBthHfpStreamStatusNotification(d)
    <3>1. /\ Typed /\ UNCHANGED <<overlapped, status, m_nStreams>> /\ call[d].at = "Enable"
          /\ \/ CallTo(d, "Idle") /\ request' = [request EXCEPT !["Stream"] = "Sent"] /\ event'["Stream"] = FALSE
             \/ CallTo(d, "Undo") /\ UNCHANGED request /\ event'["Stream"] = TRUE
      BY <1>2, <2>2, <2>12, GoesWith, Returns DEF EnableBthHfpStreamStatusNotification, Places, StreamCalls, env, bthVars,
         BthHfpSendIoCtrlAsynchronously, WdfRequestSend
    <3>2. RequestAgrees("Enable", m_nStreams, request["Stream"]) =>
            /\ m_nStreams = 1 /\ ~Pending("Stream")
            /\ RequestAgrees("Idle", m_nStreams, "Sent") /\ RequestAgrees("Undo", m_nStreams, request["Stream"])
      BY DEF RequestAgrees, Opening, StreamCalls, Pending
    <3>3. CASE CallTo(d, "Idle") /\ request' = [request EXCEPT !["Stream"] = "Sent"] /\ event'["Stream"] = FALSE
      <4>1. request'["Stream"] = "Sent" /\ Pending("Stream")'
        BY <1>2, <3>3 DEF QuietInv, Pending
      <4> QED
        BY <2>7, <3>1, <3>2, <3>3, <4>1 DEF StreamCalls
    <3>4. CASE CallTo(d, "Undo") /\ UNCHANGED request /\ event'["Stream"] = TRUE
      BY <2>7, <3>1, <3>2, <3>4 DEF StreamCalls, Pending
    <3> QED
      BY <3>1, <3>3, <3>4
  <2>13. CASE BthHfpUndoStart(d)
    <3>1. /\ Typed /\ UNCHANGED <<overlapped, request, event>> /\ call[d].at = "Undo" /\ m_nStreams' = m_nStreams - 1
          /\ CallTo(d, "CloseUndo") \/ (CallTo(d, "Idle") /\ status'["Stream"] = "Invalid")
      <4>1. "CloseUndo" \in Places
        BY DEF Places, StreamCalls
      <4>2. \/ Goto(d, "CloseUndo") /\ UNCHANGED status
            \/ Return(d) /\ status' = [status EXCEPT !["Stream"] = "Invalid"]
        BY <2>13 DEF BthHfpUndoStart
      <4>3. /\ status' \in [StreamRequests -> {"Invalid", "Success"}]
            /\ CallTo(d, "CloseUndo") \/ (CallTo(d, "Idle") /\ status'["Stream"] = "Invalid")
        BY <1>2, <2>2, <4>1, <4>2, Goes, Returns
      <4> QED
        BY <2>2, <2>13, <4>3 DEF BthHfpUndoStart, env
    <3>2. RequestAgrees("Undo", m_nStreams, request["Stream"]) =>
            RequestAgrees("CloseUndo", m_nStreams - 1, request["Stream"]) /\ RequestAgrees("Idle", m_nStreams - 1, request["Stream"])
      BY DEF RequestAgrees, Opening, StreamCalls
    <3> QED
      BY <2>7, <3>1, <3>2 DEF Pending, StreamCalls
  <2>14. CASE SetBthHfpStreamClose(d)
    <3>1. /\ Typed /\ UNCHANGED <<overlapped, request, event, m_nStreams>>
          /\ \/ call[d].at = "Close" /\ CallTo(d, "Cancel")
             \/ call[d].at = "CloseUndo" /\ CallTo(d, "Idle") /\ status'["Stream"] = "Invalid"
      BY <1>2, <2>2, <2>14, Goes, Returns DEF SetBthHfpStreamClose, Places, StreamCalls, env, bthVars
    <3>2. /\ RequestAgrees("Close", m_nStreams, request["Stream"]) => RequestAgrees("Cancel", m_nStreams, request["Stream"])
          /\ RequestAgrees("CloseUndo", m_nStreams, request["Stream"]) => RequestAgrees("Idle", m_nStreams, request["Stream"])
      BY DEF RequestAgrees, Opening, StreamCalls
    <3> QED
      BY <2>7, <3>1, <3>2 DEF Pending, StreamCalls
  <2>15. CASE BthHfpCancelStreamRequest(d)
    <3>1. /\ Typed /\ UNCHANGED <<overlapped, event, m_nStreams>> /\ call[d].at = "Cancel" /\ CallTo(d, "Wait")
          /\ request'["Stream"] = IF request["Stream"] = "Sent" THEN "Cancelling" ELSE request["Stream"]
      BY <1>2, <2>2, <2>15, Goes DEF BthHfpCancelStreamRequest, WdfRequestCancelSentRequest, Places, StreamCalls, env,
         bthVars, stream, QuietInv
    <3>2. RequestAgrees("Cancel", m_nStreams, request["Stream"]) =>
            RequestAgrees("Wait", m_nStreams, request'["Stream"]) /\ (Pending("Stream")' <=> Pending("Stream"))
      BY <3>1 DEF RequestAgrees, Opening, StreamCalls, Pending
    <3> QED
      BY <2>7, <3>1, <3>2 DEF StreamCalls
  <2>16. CASE StopBthHfpStreamStatusNotification(d)
    <3>1. /\ Typed /\ UNCHANGED <<overlapped, event, m_nStreams>> /\ call[d].at = "Wait" /\ CallTo(d, "Idle")
          /\ request'["Stream"] = IF request["Stream"] = "Done" THEN "Ready" ELSE request["Stream"]
          /\ status'["Stream"] = "Invalid" /\ event["Stream"]
      BY <1>2, <2>2, <2>16, Returns DEF StopBthHfpStreamStatusNotification, StreamCalls, env, bthVars, QuietInv
    <3>2. RequestAgrees("Wait", m_nStreams, request["Stream"]) /\ ~Pending("Stream") =>
            RequestAgrees("Idle", m_nStreams, request'["Stream"]) /\ ~Pending("Stream")'
      BY <3>1 DEF RequestAgrees, Opening, StreamCalls, Pending
    <3> QED
      BY <2>7, <3>1, <3>2 DEF StreamCalls
  <2> QED
    BY <1>12, <2>4, <2>5, <2>6, <2>9, <2>10, <2>11, <2>12, <2>13, <2>14, <2>15, <2>16 DEF BthHfpThreads, BthHfpCall
<1> QED
  BY <1>1, <1>5, <1>6, <1>7, <1>8, <1>9, <1>10, <1>11, <1>12 DEF BthHfpNext

-----------------------------------------------------------------------------
(***************************************************************************)
(* The endpoints of a USB device                                           *)
(***************************************************************************)

\* The index Start gives to device d: the last endpoint of its direction.
IndexOf(ep, d) ==
    LET I == {i \in 1..Len(ep) : ep[i] = d}
    IN  IF I = {} THEN 0 ELSE (CHOOSE i \in I : \A j \in I : j <= i) - 1

\* Among endpoints of different directions, each has an index of its own.
LEMMA IndexesDiffer ==
    ASSUME NEW ep \in Seq(Devices), Len(ep) = Cardinality({ep[i] : i \in DOMAIN ep}),
           Devices \subseteq {ep[i] : i \in DOMAIN ep}
    PROVE  IndexOf(ep, "Mic") # IndexOf(ep, "Speaker")
<1> DEFINE T == {ep[i] : i \in DOMAIN ep}
           S == 1..Len(ep)
<1>1. DOMAIN ep = S /\ Len(ep) \in Nat /\ ep \in [S -> Devices]
  BY LenProperties
<1>2. IsFiniteSet(S) /\ Cardinality(S) = Cardinality(T)
  <2>0. 1 \in Int /\ Len(ep) \in Int
    BY <1>1
  <2>1. IsFiniteSet(1..Len(ep)) /\ Cardinality(1..Len(ep)) = IF 1 > Len(ep) THEN 0 ELSE Len(ep) - 1 + 1
    BY <2>0, FS_Interval
  <2> QED
    BY <1>1, <2>1
<1>3. ep \in Surjection(S, T)
  <2>1. ep \in [S -> T]
    <3>1. \A i \in S : ep[i] \in T
      BY <1>1
    <3> HIDE DEF T
    <3> QED
      BY <1>1, <3>1
  <2>2. \A t \in T : \E i \in S : ep[i] = t
    BY <1>1
  <2> QED
    BY <2>1, <2>2 DEF Surjection
<1>4. \A i, j \in S : ep[i] = ep[j] => i = j
  <2>1. ep \in Injection(S, T)
    BY <1>2, <1>3, FS_SurjSameCardinalityImpliesInj
  <2> QED
    BY <2>1 DEF Injection, IsInjective
<1>5. ASSUME NEW d \in Devices PROVE \E i \in S : ep[i] = d /\ IndexOf(ep, d) = i - 1
  <2> DEFINE I == {i \in S : ep[i] = d}
  <2>1. PICK i \in S : ep[i] = d
    BY <1>1, <1>5
  <2>2. I = {i}
    BY <1>4, <2>1
  <2>3. (CHOOSE k \in {i} : \A j \in {i} : j <= k) = i
    <3>1. \E k \in {i} : \A j \in {i} : j <= k
      BY <1>1
    <3> QED
      BY <3>1
  <2>4. IndexOf(ep, d) = i - 1
    BY <2>2, <2>3 DEF IndexOf
  <2> QED
    BY <2>1, <2>4
<1>6. "Mic" \in Devices /\ "Speaker" \in Devices
  BY DEF Devices
<1>7. PICK m \in S : ep[m] = "Mic" /\ IndexOf(ep, "Mic") = m - 1
  BY <1>5, <1>6
<1>8. PICK k \in S : ep[k] = "Speaker" /\ IndexOf(ep, "Speaker") = k - 1
  BY <1>5, <1>6
<1>9. m # k /\ m \in Nat /\ k \in Nat
  BY <1>1, <1>7, <1>8
<1> QED
  BY <1>7, <1>8, <1>9

LEMMA SeesEndpoints ==
    ASSUME EndpointsAgree, kind = "Usb", UNCHANGED kind, GetUsbHsEndpointDescriptors, filters = {}
    PROVE  /\ life' \in {"SpeakerVolume", "Started"} /\ filters' = {} /\ UNCHANGED <<descriptor, target, request, call, held>>
           /\ life' = "SpeakerVolume" /\ Devices \subseteq Endpoints => m_EpIndex'["Mic"] # m_EpIndex'["Speaker"]
<1> DEFINE ep == descriptor.endpoints
           single == Len(ep) = Cardinality(Endpoints)
<1>1. /\ life' \in {"SpeakerVolume", "Started"} /\ filters' = {}
      /\ UNCHANGED <<descriptor, target, request, call, held>>
  BY DEF GetUsbHsEndpointDescriptors, StartStep, env
<1>2. ep \in Seq(Devices)
  BY DEF EndpointsAgree
<1>3. ASSUME life' = "SpeakerVolume"
      PROVE  single /\ \A d \in Devices : m_EpIndex'[d] = IndexOf(ep, d)
  <2>1. PICK n \in 0..Len(ep) :
          /\ life' = IF n = Len(ep) /\ single THEN "SpeakerVolume" ELSE "Started"
          /\ m_EpIndex' = [d \in Devices |->
               IF n = Len(ep) /\ ~single THEN 0
               ELSE LET I == {i \in 1..n : ep[i] = d}
                    IN  IF I = {} THEN 0 ELSE (CHOOSE i \in I : \A j \in I : j <= i) - 1]
    BY DEF GetUsbHsEndpointDescriptors, StartStep
  <2>2. n = Len(ep) /\ single
    BY <1>3, <2>1
  <2> HIDE DEF ep, single
  <2> QED
    BY <2>1, <2>2 DEF IndexOf
<1>4. ASSUME life' = "SpeakerVolume", Devices \subseteq Endpoints
      PROVE  m_EpIndex'["Mic"] # m_EpIndex'["Speaker"]
  <2>1. IndexOf(ep, "Mic") # IndexOf(ep, "Speaker")
    BY <1>2, <1>3, <1>4, IndexesDiffer DEF Endpoints
  <2> QED
    BY <1>3, <1>4, <2>1 DEF Devices
<1> QED
  BY <1>1, <1>4

\* Calls begin, and requests are sent, of filters that are there.
LEMMA EndpointsFrame ==
    ASSUME EndpointsAgree, UNCHANGED <<kind, descriptor, life, filters, target, m_EpIndex>>,
           \A d \in Devices : /\ (call'[d].at # "Idle" \/ held'[d] > 0)
                                 => (call[d].at # "Idle" \/ held[d] > 0 \/ d \in filters)
                              /\ Pending(StreamOf(d))' => Pending(StreamOf(d)) \/ d \in filters
    PROVE  EndpointsAgree'
BY DEF EndpointsAgree, Endpoints

LEMMA UsbEndpoints ==
    ASSUME QuietInv, CountInv, EndpointsAgree, kind = "Usb", UNCHANGED <<kind, bthVars>>, UsbHsNext
    PROVE  EndpointsAgree'
<1>1. \A d \in Devices : StreamOf(d) \in StreamRequests /\ StreamOf(d) \in Requests /\ StreamOf(d) \notin Notifications
  BY DEF StreamOf, StreamRequests, Requests, Notifications
<1> DEFINE Create == \/ UsbHsInit \/ UsbHsCreateWorkItem \/ UsbHsCreateCollection \/ UsbHsOpenTarget
                     \/ UsbHsCopyLinkName \/ UsbHsCreateVolumeRequests \/ UsbHsCreateMuteRequests
                     \/ UsbHsCreateStreamRequests \/ UsbHsCreateFilterNames
<1>2. CASE Create
  <2>1. CreateStep
    BY <1>2, UsbCreates
  <2>2. \A d \in Devices : ~Pending(StreamOf(d))'
    BY <1>1, <2>1, CreateStepStreams DEF Unsent, Pending
  <2>3. New
    BY <2>1 DEF CreateStep, QuietInv, LifeAgrees, New, Creating, Asking, Installing, Stopping, Ended
  <2>4. filters' = {} /\ \A d \in Devices : call'[d] = Idle /\ held'[d] = 0
    BY <2>1, <2>3 DEF CreateStep, uses, QuietInv, NewIsUntouched
  <2>5. life' \notin Indexed /\ UNCHANGED descriptor
    BY <1>2 DEF UsbHsInit, UsbHsCreateWorkItem, UsbHsCreateCollection, UsbHsOpenTarget,
       UsbHsCopyLinkName, UsbHsCreateVolumeRequests, UsbHsCreateMuteRequests, UsbHsCreateStreamRequests,
       UsbHsCreateRequests, UsbHsCreateFilterNames, InitStep, Indexed, env
  <2>6. \A d \in Devices : ~(call'[d].at # "Idle" \/ held'[d] > 0)
    BY <2>4 DEF Idle
  <2> QED
    BY <2>2, <2>4, <2>5, <2>6 DEF EndpointsAgree
<1>3. CASE UsbHsStart
  <2>1. StartSort
    BY <1>3, UsbStarts
  <2>2. /\ \A d \in Devices : Pending(StreamOf(d))' <=> Pending(StreamOf(d))
        /\ UNCHANGED <<target, call, held>>
    BY <1>1, <2>1, StartSortStreams DEF Pending, StartSort, uses
  <2>3. ASSUME life \in Indexed, UNCHANGED <<descriptor, m_EpIndex>>, filters \subseteq filters', filters' \subseteq Endpoints
        PROVE  EndpointsAgree'
    BY <2>2, <2>3 DEF EndpointsAgree, Endpoints
  <2>4. CASE GetUsbHsDescriptor \/ GetSiop
    <3>1. /\ life' \in {"Hub", "Endpoints", "Started"} /\ life \in Asking
          /\ UNCHANGED <<descriptor, filters, m_EpIndex>>
      BY <2>4 DEF GetUsbHsDescriptor, GetSiop, UsbHsAsk, StartStep, Asking, env, usbVars
    <3>2. filters = {}
      BY <3>1 DEF QuietInv, FiltersAgree
    <3> QED
      BY <2>2, <3>1, <3>2 DEF EndpointsAgree, Indexed
  <2>5. CASE GetUsbHsEndpointDescriptors
    <3>1. life \in Asking
      BY <2>5 DEF GetUsbHsEndpointDescriptors, StartStep, Asking
    <3>2. filters = {}
      BY <3>1 DEF QuietInv, FiltersAgree
    <3>3. /\ life' \in {"SpeakerVolume", "Started"} /\ filters' = {} /\ UNCHANGED descriptor
          /\ life' = "SpeakerVolume" /\ Devices \subseteq Endpoints => m_EpIndex'["Mic"] # m_EpIndex'["Speaker"]
      BY <2>5, <3>2, SeesEndpoints
    <3>4. Endpoints' = Endpoints
      BY <3>3 DEF Endpoints
    <3> QED
      BY <2>2, <3>2, <3>3, <3>4 DEF EndpointsAgree, Indexed
  <2>6. CASE UsbHsStartSpeakerVolume \/ UsbHsStartMicVolume \/ EnableUsbHsSpeakerVolumeStatusNotification
             \/ EnableUsbHsMicVolumeStatusNotification \/ SetSidebandClaimed
    <3>1. life \in Indexed /\ UNCHANGED <<descriptor, m_EpIndex, filters>>
      BY <2>6 DEF UsbHsStartSpeakerVolume, UsbHsStartMicVolume, UsbHsStartVolume, EnableUsbHsSpeakerVolumeStatusNotification,
         EnableUsbHsMicVolumeStatusNotification, UsbHsEnable, SetSidebandClaimed, UsbHsPart, StartStep, Indexed, env, usbVars
    <3> QED
      BY <2>3, <3>1 DEF EndpointsAgree
  <2>7. CASE UsbHsInstallSpeakerFilters \/ UsbHsInstallMicFilters
    <3>1. PICK d \in Devices, here \in {"SpeakerFilters", "MicFilters"} :
            UsbHsInstallFilters(d, here, IF d = "Speaker" THEN "EnableSpeaker" ELSE "EnableMic")
            /\ (here = "SpeakerFilters" <=> d = "Speaker")
      BY <2>7 DEF UsbHsInstallSpeakerFilters, UsbHsInstallMicFilters, Devices
    <3>2. /\ life = here /\ UNCHANGED <<descriptor, m_EpIndex>>
          /\ (filters' = filters \cup {d} /\ d \in Endpoints) \/ filters' = filters \ {d}
      BY <3>1 DEF UsbHsInstallFilters, UsbHsPart, UsbHsSetHandlers, StartStep, env, usbVars
    <3>3. d \notin filters
      BY <3>1, <3>2 DEF QuietInv, FiltersAgree, MicNext, Asking, Devices
    <3>4. filters \subseteq filters' /\ filters' \subseteq Endpoints /\ life \in Indexed
      BY <3>1, <3>2, <3>3 DEF EndpointsAgree, Indexed
    <3> QED
      BY <2>3, <3>2, <3>4
  <2> QED
    BY <1>3, <2>4, <2>5, <2>6, <2>7 DEF UsbHsStart
<1>4. CASE UsbHsStopping
  <2>1. /\ UNCHANGED <<descriptor, m_EpIndex, request, call, held>> /\ life' \notin Indexed
        /\ filters' \subseteq filters /\ target' # "Open"
        /\ filters' = filters \/ life \in {"RemoveSpeaker", "RemoveMic"}
    <3>1. life \in {"Flush", "RemoveSpeaker", "RemoveMic"} => target # "Open"
      BY DEF QuietInv, PurgedIsEmpty, Purged
    <3> QED
      BY <1>4, <3>1 DEF UsbHsStopping, UsbHsStop, UsbHsSetHandlers, Indexed, object, env, usbVars
  <2>2. filters' # filters => \A d \in Devices : ~Pending(StreamOf(d))
    BY <1>1, <2>1 DEF QuietInv, PurgedIsEmpty, Purged
  <2>3. \A d \in Devices : Pending(StreamOf(d))' => Pending(StreamOf(d)) /\ filters' = filters
    BY <2>1, <2>2 DEF Pending
  <2>4. Endpoints' = Endpoints
    BY <2>1 DEF Endpoints
  <2> QED
    BY <2>1, <2>3, <2>4 DEF EndpointsAgree
<1>5. CASE UsbHsDestructor
  <2>1. /\ filters' = {} /\ life' = "Deleted" /\ UNCHANGED <<descriptor, m_EpIndex>>
        /\ \A d \in Devices : call'[d] = Idle /\ held'[d] = 0 /\ request'[StreamOf(d)] = "None"
    BY <1>1, <1>5 DEF UsbHsDestructor, UsbHsDeleteRequests, env, object
  <2>2. \A d \in Devices : ~Pending(StreamOf(d))' /\ ~(call'[d].at # "Idle" \/ held'[d] > 0)
    BY <2>1 DEF Pending, Idle
  <2> QED
    BY <2>1, <2>2 DEF EndpointsAgree, Indexed
<1>6. ASSUME UNCHANGED <<descriptor, life, filters, target, m_EpIndex, call, held>>,
             \A d \in Devices : request'[StreamOf(d)] = request[StreamOf(d)]
      PROVE  EndpointsAgree'
  BY <1>6, EndpointsFrame DEF Pending
<1>7. ASSUME NEW w \in Workers, (WdfWorkItemRun(w) /\ UNCHANGED usbVars) \/ EvtUsbHsDeviceNotificationStatusWorkItem(w)
      PROVE  EndpointsAgree'
  <2>1. UNCHANGED <<descriptor, life, filters, target, m_EpIndex, call, held>>
    BY <1>7 DEF WdfWorkItemRun, EvtUsbHsDeviceNotificationStatusWorkItem, UsbHsTakeRequest, UsbHsUpdate,
       UsbHsHandlersReturn, UsbHsResend, env, object, usbVars
  <2>2. WdfWorkItemRun(w) \/ TakeStep(w) \/ WorkStep(w) \/ ResendStep(w)
    BY <1>7, UsbWorks
  <2> QED
    BY <1>1, <1>6, <2>1, <2>2, WorkStreams
<1>8. ASSUME NEW r \in Notifications, EvtUsbHsDeviceNotificationStatusCompletion(r) PROVE EndpointsAgree'
  <2>1. /\ UNCHANGED <<descriptor, life, filters, target, m_EpIndex, call, held>>
        /\ request' = [request EXCEPT ![r] = "Done"] \/ request' = [request EXCEPT ![r] = "Collected"]
    BY <1>8 DEF EvtUsbHsDeviceNotificationStatusCompletion, env, object, usbVars
  <2> QED
    BY <1>1, <1>6, <2>1 DEF QuietInv
<1>9. ASSUME NEW p \in Properties, RemoteChange(p), UNCHANGED usbVars PROVE EndpointsAgree'
  BY <1>6, <1>9 DEF RemoteChange, env, object, usbVars
<1>10. ASSUME NEW d \in Devices, EvtUsbHsDeviceStreamStatusCompletion(d) PROVE EndpointsAgree'
  <2>1. /\ UNCHANGED <<descriptor, life, filters, target, m_EpIndex, call, held>>
        /\ request' = [request EXCEPT ![StreamOf(d)] = "Done"]
    BY <1>10 DEF EvtUsbHsDeviceStreamStatusCompletion, env, object, usbVars
  <2>2. \A e \in Devices : Pending(StreamOf(e))' => Pending(StreamOf(e))
    BY <1>1, <2>1 DEF QuietInv, Pending
  <2> QED
    BY <2>1, <2>2, EndpointsFrame
<1>11. ASSUME NEW d \in Devices, UsbHsThreads(d) \/ UsbHsCall(d) PROVE EndpointsAgree'
  <2>1. ASSUME UNCHANGED <<descriptor, life, filters, target, m_EpIndex>>,
               \A e \in Devices \ {d} : /\ call'[e] = call[e] /\ held'[e] = held[e]
                                        /\ request'[StreamOf(e)] = request[StreamOf(e)],
               (call'[d].at = "Idle" /\ held'[d] = held[d]) \/ call[d].at # "Idle" \/ held[d] > 0 \/ d \in filters,
               Pending(StreamOf(d))' => Pending(StreamOf(d)) \/ d \in filters
        PROVE  EndpointsAgree'
    BY <2>1, EndpointsFrame DEF Pending
  <2>2. /\ UNCHANGED <<descriptor, life, filters, target, m_EpIndex>>
        /\ \A e \in Devices \ {d} : call'[e] = call[e] /\ held'[e] = held[e]
    BY <1>11 DEF UsbHsThreads, UsbHsGetVolume, UsbHsSetVolume, UsbHsStreamOpen, UsbHsStreamStart, UsbHsStreamSuspend,
       UsbHsStreamClose, UsbHsCall, UsbHsGotVolume, SetUsbHsStreamOpen, UsbHsUndoOpen, SetTransportResources,
       SetUsbHsStreamStart, GetTransportResources, UsbHsUndoStart, SetUsbHsStreamSuspend, SetUsbHsStreamClose,
       UsbHsCancelStreamRequest, EnableUsbHsSpeakerStreamStatusNotification, StopUsbHsSpeakerStreamStatusNotification,
       EnableUsbHsMicStreamStatusNotification, StopUsbHsMicStreamStatusNotification,
       EnableUsbHsStreamStatusNotification, StopUsbHsStreamStatusNotification, Goto, Return, env, object, usbVars, CountInv
  <2>3. call[d].at # "Idle" \/ held[d] > 0 \/ d \in filters
    <3>1. /\ held[d] \in Nat /\ playing[d] \in Nat /\ m_nStreamsStart[d] \in Nat /\ m_nStreamsStart[d] <= held[d]
          /\ m_nStreamsStart[d] = playing[d] + (IF call[d].at \in Starting THEN 1 ELSE 0)
      BY DEF CountInv, StreamsCounted, Starting
    <3>2. CASE UsbHsThreads(d)
      <4>1. CASE UsbHsGetVolume(d) \/ UsbHsSetVolume(d) \/ UsbHsStreamOpen(d)
        BY <4>1 DEF UsbHsGetVolume, UsbHsSetVolume, UsbHsStreamOpen
      <4>2. CASE UsbHsStreamStart(d) \/ UsbHsStreamClose(d)
        BY <3>1, <4>2 DEF UsbHsStreamStart, UsbHsStreamClose
      <4>3. CASE UsbHsStreamSuspend(d)
        BY <3>1, <4>3 DEF UsbHsStreamSuspend
      <4> QED
        BY <3>2, <4>1, <4>2, <4>3 DEF UsbHsThreads
    <3>3. CASE UsbHsCall(d)
      BY <3>3 DEF UsbHsCall, UsbHsGotVolume, SetUsbHsStreamOpen, UsbHsUndoOpen, SetTransportResources,
       SetUsbHsStreamStart, GetTransportResources, UsbHsUndoStart, SetUsbHsStreamSuspend, SetUsbHsStreamClose,
       UsbHsCancelStreamRequest, EnableUsbHsSpeakerStreamStatusNotification, StopUsbHsSpeakerStreamStatusNotification,
       EnableUsbHsMicStreamStatusNotification, StopUsbHsMicStreamStatusNotification
    <3> QED
      BY <1>11, <3>2, <3>3
  <2>4. CASE request' = request
    BY <2>1, <2>2, <2>3, <2>4 DEF Pending
  <2>5. CASE request' # request
    <3>1. \E state \in {"Sent", "Cancelling", "Ready", "Done"} : StreamRequestStep(StreamOf(d), state)
      BY <1>11, <2>5, UsbCalls DEF CallStep, core
    <3>2. PICK state \in {"Sent", "Cancelling", "Ready", "Done"} : StreamRequestStep(StreamOf(d), state)
      BY <3>1
    <3>3. \A e \in Devices \ {d} : request'[StreamOf(e)] = request[StreamOf(e)]
      BY <1>1, <3>2 DEF StreamRequestStep, QuietInv, StreamOf, Devices
    <3>4. state = "Sent" => d \in filters
      <4>1. state = "Sent" => call[d].at = "Enable" /\ target = "Open"
        BY <1>1, <1>11, <2>5, <3>2 DEF StreamRequestStep, QuietInv, UsbHsThreads, UsbHsGetVolume, UsbHsSetVolume, UsbHsStreamOpen,
           UsbHsStreamStart, UsbHsStreamSuspend, UsbHsStreamClose, UsbHsCall, UsbHsGotVolume, SetUsbHsStreamOpen, UsbHsUndoOpen,
           SetTransportResources, SetUsbHsStreamStart, GetTransportResources, UsbHsUndoStart, SetUsbHsStreamSuspend,
           SetUsbHsStreamClose, UsbHsCancelStreamRequest, EnableUsbHsSpeakerStreamStatusNotification,
           StopUsbHsSpeakerStreamStatusNotification, EnableUsbHsMicStreamStatusNotification,
           StopUsbHsMicStreamStatusNotification, StopUsbHsStreamStatusNotification, WdfRequestCancelSentRequest
      <4> QED
        BY <4>1 DEF EndpointsAgree
    <3>5. Pending(StreamOf(d))' => Pending(StreamOf(d)) \/ d \in filters
      BY <1>1, <3>2, <3>4 DEF StreamRequestStep, QuietInv, Pending
    <3> QED
      BY <2>1, <2>2, <2>3, <3>3, <3>5
  <2> QED
    BY <2>4, <2>5
<1> QED
  BY <1>2, <1>3, <1>4, <1>5, <1>7, <1>8, <1>9, <1>10, <1>11 DEF UsbHsNext, UsbHsLife

-----------------------------------------------------------------------------
(***************************************************************************)
(* The streams of a USB device                                             *)
(***************************************************************************)

\* UsbStreamOf in terms of what is known of the stream.
UsbAgrees(here, open, started, state, set, has) ==
    /\ RequestAgrees(here, open, state)
    /\ set => state \notin {"Sent", "Cancelling"}
    /\ HasSpeaker /\ state \notin {"Sent", "Cancelling"} => set
    /\ here \in Starting => started = 1 /\ ~has
    /\ here = "Suspend" => started = 0
    /\ here \notin Starting \cup {"Suspend"} => (has <=> started > 0)

LEMMA UsbAgreesIs ==
    ASSUME NEW d \in Devices
    PROVE  UsbStreamOf(d) <=> UsbAgrees(call[d].at, m_nStreamsOpen[d], m_nStreamsStart[d], request[StreamOf(d)],
                                        event[StreamOf(d)], resources[d])
BY DEF UsbStreamOf, UsbAgrees, Pending

LEMMA UsbAgreesNext ==
    ASSUME NEW d \in Devices, UNCHANGED <<kind, descriptor>>,
           UsbAgrees(call'[d].at, m_nStreamsOpen'[d], m_nStreamsStart'[d], request'[StreamOf(d)],
                     event'[StreamOf(d)], resources'[d])
    PROVE  UsbStreamOf(d)'
BY DEF UsbStreamOf, UsbAgrees, Pending, HasSpeaker, Endpoints

LEMMA UsbStreamFrame ==
    ASSUME NEW d \in Devices, UsbStreamOf(d), UNCHANGED <<kind, descriptor>>, call'[d].at = call[d].at,
           m_nStreamsOpen'[d] = m_nStreamsOpen[d], m_nStreamsStart'[d] = m_nStreamsStart[d],
           event'[StreamOf(d)] = event[StreamOf(d)], resources'[d] = resources[d],
           \/ request'[StreamOf(d)] = request[StreamOf(d)]
           \/ request[StreamOf(d)] \in Unsent /\ request'[StreamOf(d)] \in Unsent
    PROVE  UsbStreamOf(d)'
<1>1. UsbAgrees(call[d].at, m_nStreamsOpen[d], m_nStreamsStart[d], request'[StreamOf(d)],
                event[StreamOf(d)], resources[d])
  BY UsbAgreesIs DEF UsbAgrees, RequestAgrees, Unsent
<1> QED
  BY <1>1, UsbAgreesNext

\* The steps of the calls of filter d.
LEMMA UsbCallStreams ==
    ASSUME QuietInv, CountInv, StreamInv, kind = "Usb", UNCHANGED <<kind, bthVars>>,
           NEW d \in Devices, UsbHsThreads(d) \/ UsbHsCall(d)
    PROVE  UsbStreamOf(d)'
<1> DEFINE s == StreamOf(d)
<1> DEFINE Now(here) == UsbAgrees(here, m_nStreamsOpen[d], m_nStreamsStart[d], request[s], event[s], resources[d])
<1> DEFINE Then(here) == UsbAgrees(here, m_nStreamsOpen'[d], m_nStreamsStart'[d], request'[s], event'[s], resources'[d])
<1>1. /\ s \in StreamRequests /\ s \in Requests
      /\ m_nStreamsOpen[d] \in Nat /\ m_nStreamsStart[d] \in Nat /\ held[d] \in Nat /\ playing[d] \in Nat
      /\ request[s] \in RequestStates
  BY DEF StreamOf, StreamRequests, Requests, CountInv, QuietInv
<1>2. Now(call[d].at)
  BY UsbAgreesIs DEF StreamInv, UsbStreamInv
<1>3. UNCHANGED descriptor
  BY DEF UsbHsThreads, UsbHsGetVolume, UsbHsSetVolume, UsbHsStreamOpen, UsbHsStreamStart, UsbHsStreamSuspend,
     UsbHsStreamClose, UsbHsCall, UsbHsGotVolume, SetUsbHsStreamOpen, UsbHsUndoOpen, SetTransportResources,
     SetUsbHsStreamStart, GetTransportResources, UsbHsUndoStart, SetUsbHsStreamSuspend, SetUsbHsStreamClose,
     UsbHsCancelStreamRequest, EnableUsbHsSpeakerStreamStatusNotification, StopUsbHsSpeakerStreamStatusNotification,
     EnableUsbHsMicStreamStatusNotification, StopUsbHsMicStreamStatusNotification,
     EnableUsbHsStreamStatusNotification, StopUsbHsStreamStatusNotification, env
<1>4. ASSUME NEW here, CallTo(d, here), Then(here) PROVE UsbStreamOf(d)'
  BY <1>3, <1>4, UsbAgreesNext DEF CallTo
<1>5. call[d] = Idle => call[d].at = "Idle"
  BY DEF Idle
<1>6. /\ m_nStreamsOpen \in [Devices -> Nat] /\ m_nStreamsStart \in [Devices -> Nat]
      /\ resources \in [Devices -> BOOLEAN] /\ event \in [StreamRequests -> BOOLEAN]
      /\ request \in [Requests -> RequestStates]
  BY DEF CountInv, StreamInv, QuietInv
<1>7. /\ m_nStreamsOpen[d] = held[d] + (IF call[d].at \in Opening THEN 1 ELSE 0)
      /\ m_nStreamsStart[d] = playing[d] + (IF call[d].at \in Starting THEN 1 ELSE 0)
  BY DEF CountInv, StreamsCounted, Opening, Starting
<1>8. /\ {"GotVolume", "Suspend", "SuspendUndo", "Idle", "Open", "Enable", "Undo", "CloseUndo", "Close", "Cancel", "Wait",
         "SetResources", "Start", "GetResources", "UndoStart"} \subseteq Places
  BY DEF Places, StreamCalls, Starting
<1> HIDE DEF s
<1> USE DEF UsbAgrees, RequestAgrees, Opening, Starting, StreamCalls
<1>9. CASE UsbHsGetVolume(d)
  <2>1. PICK v \in {0, 1} : call' = [call EXCEPT ![d] = [at |-> "GotVolume", value |-> v]]
    BY <1>9 DEF UsbHsGetVolume
  <2>2. CallTo(d, "GotVolume")
    BY <1>8, <2>1, GoesWith
  <2>3. call[d].at = "Idle" /\ UNCHANGED <<m_nStreamsOpen, m_nStreamsStart, request, event, resources>>
    BY <1>5, <1>9 DEF UsbHsGetVolume, stream, usbVars
  <2>4. Then("GotVolume")
    BY <1>2, <2>3
  <2> QED
    BY <1>4, <2>2, <2>4
<1>10. CASE UsbHsSetVolume(d)
  <2>1. UNCHANGED <<call, m_nStreamsOpen, m_nStreamsStart, request, event, resources>>
    BY <1>10 DEF UsbHsSetVolume, stream, usbVars
  <2> QED
    BY <1>2, <1>3, <2>1, UsbAgreesNext DEF s
<1>11. CASE UsbHsStreamOpen(d)
  <2>1. /\ call[d].at = "Idle" /\ UNCHANGED <<m_nStreamsStart, request, event, resources>>
        /\ m_nStreamsOpen'[d] = m_nStreamsOpen[d] + 1
    BY <1>5, <1>6, <1>11 DEF UsbHsStreamOpen, stream
  <2>2. CASE m_nStreamsOpen[d] = 0
    <3>1. CallTo(d, "Open")
      BY <1>8, <1>11, <2>2, Goes DEF UsbHsStreamOpen
    <3>2. Then("Open")
      BY <1>2, <2>1, <2>2
    <3> QED
      BY <1>4, <3>1, <3>2
  <2>3. CASE m_nStreamsOpen[d] # 0
    <3>1. CallTo(d, "Idle")
      BY <1>11, <2>1, <2>3, Stays DEF UsbHsStreamOpen
    <3>2. Then("Idle")
      BY <1>1, <1>2, <2>1, <2>3
    <3> QED
      BY <1>4, <3>1, <3>2
  <2> QED
    BY <2>2, <2>3
<1>12. CASE UsbHsStreamStart(d)
  <2>1. /\ call[d].at = "Idle" /\ UNCHANGED <<m_nStreamsOpen, request, event, resources>>
        /\ m_nStreamsStart'[d] = m_nStreamsStart[d] + 1
    BY <1>5, <1>6, <1>12 DEF UsbHsStreamStart, stream
  <2>2. CASE m_nStreamsStart[d] = 0
    <3>1. CallTo(d, "SetResources")
      BY <1>8, <1>12, <2>2, Goes DEF UsbHsStreamStart
    <3>2. Then("SetResources")
      BY <1>2, <2>1, <2>2
    <3> QED
      BY <1>4, <3>1, <3>2
  <2>3. CASE m_nStreamsStart[d] # 0
    <3>1. CallTo(d, "Idle")
      BY <1>12, <2>1, <2>3, Stays DEF UsbHsStreamStart
    <3>2. Then("Idle")
      BY <1>1, <1>2, <2>1, <2>3
    <3> QED
      BY <1>4, <3>1, <3>2
  <2> QED
    BY <2>2, <2>3
<1>13. CASE UsbHsStreamSuspend(d)
  <2>1. /\ call[d].at = "Idle" /\ UNCHANGED <<m_nStreamsOpen, request, event, resources>>
        /\ m_nStreamsStart'[d] = m_nStreamsStart[d] - 1 /\ playing[d] > 0
    BY <1>5, <1>6, <1>13 DEF UsbHsStreamSuspend, stream
  <2>2. CASE m_nStreamsStart[d] = 1
    <3>1. CallTo(d, "Suspend")
      BY <1>8, <1>13, <2>2, Goes DEF UsbHsStreamSuspend
    <3>2. Then("Suspend")
      BY <1>2, <2>1, <2>2
    <3> QED
      BY <1>4, <3>1, <3>2
  <2>3. CASE m_nStreamsStart[d] # 1
    <3>1. CallTo(d, "Idle")
      BY <1>13, <2>1, <2>3, Stays DEF UsbHsStreamSuspend
    <3>2. m_nStreamsStart[d] > 1
      BY <1>1, <1>7, <2>1, <2>3
    <3>3. Then("Idle")
      BY <1>1, <1>2, <2>1, <3>2
    <3> QED
      BY <1>4, <3>1, <3>3
  <2> QED
    BY <2>2, <2>3
<1>14. CASE UsbHsStreamClose(d)
  <2>1. /\ call[d].at = "Idle" /\ UNCHANGED <<m_nStreamsStart, request, event, resources>>
        /\ m_nStreamsOpen'[d] = m_nStreamsOpen[d] - 1 /\ held[d] > playing[d]
    BY <1>5, <1>6, <1>14 DEF UsbHsStreamClose, stream
  <2>2. CASE m_nStreamsOpen[d] = 1
    <3>1. CallTo(d, "Close")
      BY <1>8, <1>14, <2>2, Goes DEF UsbHsStreamClose
    <3>2. Then("Close")
      BY <1>2, <2>1, <2>2
    <3> QED
      BY <1>4, <3>1, <3>2
  <2>3. CASE m_nStreamsOpen[d] # 1
    <3>1. CallTo(d, "Idle")
      BY <1>14, <2>1, <2>3, Stays DEF UsbHsStreamClose
    <3>2. m_nStreamsOpen[d] > 1
      BY <1>1, <1>7, <2>1, <2>3
    <3>3. Then("Idle")
      BY <1>1, <1>2, <2>1, <3>2
    <3> QED
      BY <1>4, <3>1, <3>3
  <2> QED
    BY <2>2, <2>3
<1>15. CASE UsbHsGotVolume(d)
  <2>1. CallTo(d, "Idle") /\ call[d].at = "GotVolume"
    BY <1>15, Returns DEF UsbHsGotVolume
  <2>2. UNCHANGED <<m_nStreamsOpen, m_nStreamsStart, request, event, resources>>
    BY <1>15 DEF UsbHsGotVolume, stream, usbVars
  <2>3. Then("Idle")
    BY <1>2, <2>1, <2>2
  <2> QED
    BY <1>4, <2>1, <2>3
<1>16. CASE SetUsbHsStreamOpen(d)
  <2>1. call[d].at = "Open" /\ UNCHANGED <<m_nStreamsOpen, m_nStreamsStart, request, event, resources>>
    BY <1>16 DEF SetUsbHsStreamOpen, usbVars
  <2>2. CallTo(d, "Enable") \/ CallTo(d, "Undo")
    BY <1>8, <1>16, Goes, GoesWith DEF SetUsbHsStreamOpen
  <2>3. Then("Enable") /\ Then("Undo")
    BY <1>2, <2>1
  <2> QED
    BY <1>4, <2>2, <2>3
<1>17. CASE UsbHsUndoOpen(d)
  <2>1. /\ call[d].at = "Undo" /\ UNCHANGED <<m_nStreamsStart, request, event, resources>>
        /\ m_nStreamsOpen'[d] = m_nStreamsOpen[d] - 1
    BY <1>6, <1>17 DEF UsbHsUndoOpen
  <2>2. CallTo(d, "CloseUndo") \/ CallTo(d, "Idle")
    BY <1>8, <1>17, Goes, Returns DEF UsbHsUndoOpen
  <2>3. Then("CloseUndo") /\ Then("Idle")
    BY <1>2, <2>1
  <2> QED
    BY <1>4, <2>2, <2>3
<1>18. CASE SetTransportResources(d) \/ SetUsbHsStreamStart(d)
  <2>1. call[d].at \in Starting /\ UNCHANGED <<m_nStreamsOpen, m_nStreamsStart, request, event, resources>>
    BY <1>18 DEF SetTransportResources, SetUsbHsStreamStart, stream, usbVars
  <2>2. PICK here \in {"Start", "GetResources", "UndoStart"} : Goto(d, here)
    BY <1>18 DEF SetTransportResources, SetUsbHsStreamStart
  <2>3. CallTo(d, here)
    BY <1>8, <2>2, Goes
  <2>4. Then(here)
    BY <1>2, <2>1, <2>2
  <2> QED
    BY <1>4, <2>3, <2>4
<1>19. CASE GetTransportResources(d)
  <2>1. call[d].at = "GetResources" /\ UNCHANGED <<m_nStreamsOpen, m_nStreamsStart, request, event>>
    BY <1>19 DEF GetTransportResources, stream
  <2>2. \/ resources' = [resources EXCEPT ![d] = TRUE] /\ Return(d)
        \/ resources' = [resources EXCEPT ![d] = FALSE] /\ call' = [call EXCEPT ![d] = [at |-> "UndoStart", value |-> 1]]
    BY <1>19 DEF GetTransportResources
  <2>3. (resources'[d] = TRUE /\ CallTo(d, "Idle")) \/ (resources'[d] = FALSE /\ CallTo(d, "UndoStart"))
    BY <1>6, <1>8, <2>2, Returns, GoesWith
  <2>4. /\ resources'[d] = TRUE => Then("Idle")
        /\ resources'[d] = FALSE => Then("UndoStart")
    BY <1>2, <2>1
  <2> QED
    BY <1>4, <2>3, <2>4
<1>20. CASE UsbHsUndoStart(d)
  <2>1. /\ call[d].at = "UndoStart" /\ UNCHANGED <<m_nStreamsOpen, request, event, resources>>
        /\ m_nStreamsStart'[d] = m_nStreamsStart[d] - 1
    BY <1>6, <1>20 DEF UsbHsUndoStart, stream
  <2>2. CallTo(d, "SuspendUndo") \/ CallTo(d, "Idle")
    BY <1>8, <1>20, Goes, Returns DEF UsbHsUndoStart
  <2>3. Then("SuspendUndo") /\ Then("Idle")
    BY <1>2, <2>1
  <2> QED
    BY <1>4, <2>2, <2>3
<1>21. CASE SetUsbHsStreamSuspend(d)
  <2>1. /\ call[d].at \in {"Suspend", "SuspendUndo"} /\ UNCHANGED <<m_nStreamsOpen, m_nStreamsStart, request, event>>
        /\ resources'[d] = IF call[d].at = "Suspend" THEN FALSE ELSE resources[d]
    BY <1>6, <1>21 DEF SetUsbHsStreamSuspend, FreeTransportResources, stream
  <2>2. CallTo(d, "Idle")
    BY <1>21, Returns DEF SetUsbHsStreamSuspend
  <2>3. Then("Idle")
    BY <1>2, <2>1
  <2> QED
    BY <1>4, <2>2, <2>3
<1>22. CASE SetUsbHsStreamClose(d)
  <2>1. UNCHANGED <<m_nStreamsOpen, m_nStreamsStart, request, event, resources>>
    BY <1>22 DEF SetUsbHsStreamClose, usbVars
  <2>2. (call[d].at = "Close" /\ CallTo(d, "Cancel")) \/ (call[d].at = "CloseUndo" /\ CallTo(d, "Idle"))
    BY <1>8, <1>22, Goes, Returns DEF SetUsbHsStreamClose
  <2>3. /\ call[d].at = "Close" => Then("Cancel")
        /\ call[d].at = "CloseUndo" => Then("Idle")
    BY <1>2, <2>1
  <2> QED
    BY <1>4, <2>2, <2>3
<1>23. CASE UsbHsCancelStreamRequest(d)
  <2>1. /\ call[d].at = "Cancel" /\ UNCHANGED <<m_nStreamsOpen, m_nStreamsStart, event, resources>>
        /\ request'[s] = IF request[s] = "Sent" THEN "Cancelling" ELSE request[s]
    BY <1>1, <1>6, <1>23 DEF UsbHsCancelStreamRequest, WdfRequestCancelSentRequest, stream, usbVars, s
  <2>2. CallTo(d, "Wait")
    BY <1>8, <1>23, Goes DEF UsbHsCancelStreamRequest
  <2>3. Then("Wait")
    BY <1>2, <2>1
  <2> QED
    BY <1>4, <2>2, <2>3
<1>24. CASE call[d].at = "Enable" /\ EnableUsbHsStreamStatusNotification(d)
  <2>1. call[d].at = "Enable" /\ UNCHANGED <<m_nStreamsOpen, m_nStreamsStart, resources>>
    BY <1>24 DEF EnableUsbHsStreamStatusNotification
  <2>2. \/ request' = [request EXCEPT ![s] = "Sent"] /\ event' = [event EXCEPT ![s] = FALSE] /\ Return(d)
        \/ request' = request /\ event' = [event EXCEPT ![s] = TRUE]
           /\ call' = [call EXCEPT ![d] = [at |-> "Undo", value |-> 1]]
    BY <1>24 DEF EnableUsbHsStreamStatusNotification, UsbHsSendIoCtrlAsynchronously, WdfRequestSend, s
  <2>3. \/ request'[s] = "Sent" /\ event'[s] = FALSE /\ CallTo(d, "Idle")
        \/ request'[s] = request[s] /\ event'[s] = TRUE /\ CallTo(d, "Undo")
    BY <1>1, <1>6, <1>8, <2>2, Returns, GoesWith
  <2>4. /\ request'[s] = "Sent" /\ event'[s] = FALSE => Then("Idle")
        /\ request'[s] = request[s] /\ event'[s] = TRUE => Then("Undo")
    BY <1>2, <2>1
  <2> QED
    BY <1>4, <2>3, <2>4
<1>25. CASE call[d].at = "Wait" /\ StopUsbHsStreamStatusNotification(d)
  <2>1. /\ call[d].at = "Wait" /\ UNCHANGED <<m_nStreamsOpen, m_nStreamsStart, event, resources>> /\ event[s]
        /\ request'[s] = IF request[s] = "Done" THEN "Ready" ELSE request[s]
    BY <1>1, <1>6, <1>25 DEF StopUsbHsStreamStatusNotification, usbVars, s
  <2>2. CallTo(d, "Idle")
    BY <1>25, Returns DEF StopUsbHsStreamStatusNotification
  <2>3. Then("Idle")
    BY <1>2, <2>1
  <2> QED
    BY <1>4, <2>2, <2>3
<1> QED
  BY <1>9, <1>10, <1>11, <1>12, <1>13, <1>14, <1>15, <1>16, <1>17, <1>18, <1>19, <1>20, <1>21, <1>22, <1>23, <1>24, <1>25
  DEF UsbHsThreads, UsbHsCall, EnableUsbHsSpeakerStreamStatusNotification, EnableUsbHsMicStreamStatusNotification,
      StopUsbHsSpeakerStreamStatusNotification, StopUsbHsMicStreamStatusNotification

\* The completion of a stream request sets the event of its own stream as long as
\* the endpoints are told apart, which they are while both are used.
LEMMA UsbCompletionStreams ==
    ASSUME QuietInv, CountInv, StreamInv, kind = "Usb", UNCHANGED <<kind, bthVars>>,
           NEW d \in Devices, EvtUsbHsDeviceStreamStatusCompletion(d), NEW e \in Devices
    PROVE  UsbStreamOf(e)'
<1> DEFINE a == UsbHsAddressee(d)
<1>1. /\ StreamOf(d) \in StreamRequests /\ StreamOf(d) \in Requests /\ StreamOf(e) \in StreamRequests
      /\ StreamOf(e) \in Requests /\ a \in {d, "Speaker"} /\ a \in Devices
      /\ \A b, c \in Devices : StreamOf(b) = StreamOf(c) => b = c
  BY DEF StreamOf, StreamRequests, Requests, Devices, UsbHsAddressee
<1>2. /\ Pending(StreamOf(d)) /\ request' = [request EXCEPT ![StreamOf(d)] = "Done"]
      /\ event' = [event EXCEPT ![StreamOf(a)] = TRUE]
      /\ UNCHANGED <<descriptor, call, m_nStreamsOpen, m_nStreamsStart, resources>>
  BY DEF EvtUsbHsDeviceStreamStatusCompletion, env, usbVars
<1>3. request \in [Requests -> RequestStates] /\ event \in [StreamRequests -> BOOLEAN]
  BY DEF QuietInv, StreamInv
<1>4. a = d \/ ~(Devices \subseteq Endpoints)
  <2>1. d \in filters /\ filters \subseteq Endpoints /\ (Devices \subseteq Endpoints => m_EpIndex["Mic"] # m_EpIndex["Speaker"])
    BY <1>2 DEF StreamInv, EndpointsAgree
  <2> QED
    BY <2>1 DEF UsbHsAddressee, Devices
<1>5. UsbAgrees(call[e].at, m_nStreamsOpen[e], m_nStreamsStart[e], request[StreamOf(e)], event[StreamOf(e)], resources[e])
  BY UsbAgreesIs DEF StreamInv, UsbStreamInv
<1> HIDE DEF a
<1>6. CASE e = d
  <2>1. request'[StreamOf(e)] = "Done" /\ request[StreamOf(e)] \in {"Sent", "Cancelling"}
    BY <1>1, <1>2, <1>3, <1>6 DEF Pending
  <2>2. HasSpeaker => event'[StreamOf(e)] = TRUE
    <3>1. HasSpeaker => d = "Speaker" \/ Devices \subseteq Endpoints
      <4>1. d \in Endpoints
        BY <1>2 DEF StreamInv, EndpointsAgree
      <4> QED
        BY <4>1 DEF HasSpeaker, Devices
    <3>2. HasSpeaker => a = d
      BY <1>1, <1>4, <3>1
    <3> QED
      BY <1>1, <1>2, <1>3, <1>6, <3>2
  <2>3. UsbAgrees(call[e].at, m_nStreamsOpen[e], m_nStreamsStart[e], "Done", event'[StreamOf(e)], resources[e])
    BY <1>5, <2>1, <2>2 DEF UsbAgrees, RequestAgrees
  <2> QED
    BY <1>2, <2>1, <2>3, UsbAgreesNext
<1>7. CASE e # d
  <2>1. request'[StreamOf(e)] = request[StreamOf(e)]
    BY <1>1, <1>2, <1>3, <1>7
  <2>2. CASE a # e
    <3>1. event'[StreamOf(e)] = event[StreamOf(e)]
      BY <1>1, <1>2, <1>3, <2>2
    <3> QED
      BY <1>2, <1>5, <2>1, <3>1, UsbAgreesNext
  <2>3. CASE a = e
    <3>1. event'[StreamOf(e)] = TRUE
      BY <1>1, <1>2, <1>3, <2>3
    <3>2. ~Pending(StreamOf(e))
      BY <1>2, <1>4, <1>7, <2>3 DEF StreamInv, EndpointsAgree, Devices
    <3>3. UsbAgrees(call[e].at, m_nStreamsOpen[e], m_nStreamsStart[e], request[StreamOf(e)], TRUE, resources[e])
      BY <1>5, <3>2 DEF UsbAgrees, Pending
    <3> QED
      BY <1>2, <2>1, <3>1, <3>3, UsbAgreesNext
  <2> QED
    BY <2>2, <2>3
<1> QED
  BY <1>6, <1>7

LEMMA UsbStreams ==
    ASSUME QuietInv, CountInv, StreamInv, Usb(UsbHsNext)
    PROVE  StreamInv'
<1>1. kind = "Usb" /\ UsbHsNext /\ UNCHANGED <<kind, bthVars>>
  BY DEF Usb
<1>2. EndpointsAgree'
  BY <1>1, UsbEndpoints DEF StreamInv
<1>3. \A d \in Devices : /\ StreamOf(d) \in StreamRequests /\ StreamOf(d) \in Requests /\ StreamOf(d) \notin Notifications
                         /\ UsbStreamOf(d)
  BY <1>1 DEF StreamOf, StreamRequests, Requests, Notifications, StreamInv, UsbStreamInv
<1>4. /\ event \in [StreamRequests -> BOOLEAN] /\ status \in [StreamRequests -> {"Invalid", "Success"}]
      /\ resources \in [Devices -> BOOLEAN] /\ overlapped' \in BOOLEAN /\ request \in [Requests -> RequestStates]
  BY <1>1 DEF StreamInv, bthVars, QuietInv
<1>5. ASSUME \A d \in Devices : UsbStreamOf(d)', event' \in [StreamRequests -> BOOLEAN],
             status' \in [StreamRequests -> {"Invalid", "Success"}], resources' \in [Devices -> BOOLEAN]
      PROVE  StreamInv'
  BY <1>1, <1>2, <1>4, <1>5 DEF StreamInv, BthStreamInv, UsbStreamInv
<1>6. ASSUME UNCHANGED <<descriptor, call, m_nStreamsOpen, m_nStreamsStart, event, resources>>,
             status' \in [StreamRequests -> {"Invalid", "Success"}],
             \A d \in Devices : \/ request'[StreamOf(d)] = request[StreamOf(d)]
                                \/ request[StreamOf(d)] \in Unsent /\ request'[StreamOf(d)] \in Unsent
      PROVE  StreamInv'
  <2>1. \A d \in Devices : UsbStreamOf(d)'
    BY <1>1, <1>3, <1>6, UsbStreamFrame
  <2> QED
    BY <1>4, <1>5, <1>6, <2>1
<1>7. CASE UsbHsLife
  <2>1. /\ UNCHANGED <<descriptor, call, m_nStreamsOpen, m_nStreamsStart, event, resources>>
        /\ UNCHANGED status \/ status' = [s \in StreamRequests |-> "Success"]
    BY <1>7 DEF UsbHsLife, UsbHsInit, UsbHsCreateWorkItem, UsbHsCreateCollection, UsbHsOpenTarget,
       UsbHsCopyLinkName, UsbHsCreateVolumeRequests, UsbHsCreateMuteRequests, UsbHsCreateStreamRequests,
       UsbHsCreateRequests, UsbHsCreateFilterNames, UsbHsStart, GetUsbHsDescriptor, GetSiop,
       GetUsbHsEndpointDescriptors, UsbHsStartSpeakerVolume, UsbHsStartMicVolume, UsbHsStartVolume,
       UsbHsInstallSpeakerFilters, UsbHsInstallMicFilters, UsbHsInstallFilters,
       EnableUsbHsSpeakerVolumeStatusNotification, EnableUsbHsMicVolumeStatusNotification, UsbHsEnable,
       SetSidebandClaimed, env, stream, usbVars
  <2>2. status' \in [StreamRequests -> {"Invalid", "Success"}]
    BY <1>4, <2>1
  <2>3. CreateStep \/ StartSort
    BY <1>1, <1>7, UsbCreates, UsbStarts DEF UsbHsLife
  <2> QED
    BY <1>3, <1>6, <2>1, <2>2, <2>3, CreateStepStreams, StartSortStreams
<1>8. CASE UsbHsStopping
  BY <1>4, <1>6, <1>8 DEF UsbHsStopping, env, stream, usbVars
<1>9. CASE UsbHsDestructor
  <2>1. /\ UNCHANGED <<descriptor, call, m_nStreamsOpen, m_nStreamsStart, event, status>>
        /\ resources' = [d \in Devices |-> FALSE] /\ request' = [r \in Requests |-> "None"]
        /\ \A d \in Devices : call[d] = Idle /\ held[d] = 0
    BY <1>9 DEF UsbHsDestructor, UsbHsDeleteRequests, env, stream
  <2>2. ASSUME NEW d \in Devices PROVE UsbStreamOf(d)'
    <3>1. call[d].at = "Idle" /\ held[d] = 0
      BY <2>1 DEF Idle
    <3>2. m_nStreamsOpen[d] = 0 /\ m_nStreamsStart[d] = 0
      BY <3>1 DEF CountInv, StreamsCounted
    <3>3. UsbAgrees("Idle", 0, 0, request[StreamOf(d)], event[StreamOf(d)], resources[d])
      BY <1>3, <3>1, <3>2, UsbAgreesIs
    <3>4. UsbAgrees("Idle", 0, 0, "None", event[StreamOf(d)], FALSE)
      BY <3>3 DEF UsbAgrees, RequestAgrees, StreamCalls, Opening, Starting
    <3>5. request'[StreamOf(d)] = "None" /\ resources'[d] = FALSE
      BY <1>3, <2>1
    <3> QED
      BY <1>1, <2>1, <3>1, <3>2, <3>4, <3>5, UsbAgreesNext
  <2> QED
    BY <1>4, <1>5, <2>1, <2>2
<1>10. ASSUME NEW w \in Workers, (WdfWorkItemRun(w) /\ UNCHANGED usbVars) \/ EvtUsbHsDeviceNotificationStatusWorkItem(w)
       PROVE  StreamInv'
  <2>1. UNCHANGED <<descriptor, call, m_nStreamsOpen, m_nStreamsStart, event, resources, status>>
    BY <1>10 DEF WdfWorkItemRun, EvtUsbHsDeviceNotificationStatusWorkItem, UsbHsTakeRequest, UsbHsUpdate,
       UsbHsHandlersReturn, UsbHsResend, env, stream, usbVars
  <2>2. WdfWorkItemRun(w) \/ TakeStep(w) \/ WorkStep(w) \/ ResendStep(w)
    BY <1>1, <1>10, UsbWorks
  <2>3. \A d \in Devices : request'[StreamOf(d)] = request[StreamOf(d)]
    BY <1>3, <2>2, WorkStreams
  <2> QED
    BY <1>4, <1>6, <2>1, <2>3
<1>11. ASSUME NEW r \in Notifications, EvtUsbHsDeviceNotificationStatusCompletion(r) PROVE StreamInv'
  <2>1. UNCHANGED <<descriptor, call, m_nStreamsOpen, m_nStreamsStart, event, resources, status>>
    BY <1>11 DEF EvtUsbHsDeviceNotificationStatusCompletion, env, stream, usbVars
  <2>2. request' = [request EXCEPT ![r] = "Done"] \/ request' = [request EXCEPT ![r] = "Collected"]
    BY <1>11 DEF EvtUsbHsDeviceNotificationStatusCompletion
  <2>3. \A d \in Devices : request'[StreamOf(d)] = request[StreamOf(d)]
    BY <1>3, <1>4, <2>2
  <2> QED
    BY <1>4, <1>6, <2>1, <2>3
<1>12. ASSUME NEW p \in Properties, RemoteChange(p), UNCHANGED usbVars PROVE StreamInv'
  BY <1>4, <1>6, <1>12 DEF RemoteChange, env, stream, usbVars
<1>13. ASSUME NEW d \in Devices, EvtUsbHsDeviceStreamStatusCompletion(d) PROVE StreamInv'
  <2>1. \A e \in Devices : UsbStreamOf(e)'
    BY <1>1, <1>13, UsbCompletionStreams
  <2>2. /\ event' \in [StreamRequests -> BOOLEAN] /\ status' \in [StreamRequests -> {"Invalid", "Success"}]
        /\ UNCHANGED resources
    BY <1>4, <1>13 DEF EvtUsbHsDeviceStreamStatusCompletion, usbVars
  <2> QED
    BY <1>4, <1>5, <2>1, <2>2
<1>14. ASSUME NEW d \in Devices, UsbHsThreads(d) \/ UsbHsCall(d) PROVE StreamInv'
  <2>1. UsbStreamOf(d)'
    BY <1>1, <1>14, UsbCallStreams
  <2> DEFINE Alone(e) == /\ call'[e] = call[e] /\ m_nStreamsOpen'[e] = m_nStreamsOpen[e]
                         /\ m_nStreamsStart'[e] = m_nStreamsStart[e] /\ resources'[e] = resources[e]
                         /\ event'[StreamOf(e)] = event[StreamOf(e)] /\ request'[StreamOf(e)] = request[StreamOf(e)]
             Typed == /\ event' \in [StreamRequests -> BOOLEAN] /\ status' \in [StreamRequests -> {"Invalid", "Success"}]
                      /\ resources' \in [Devices -> BOOLEAN]
  <2>2. /\ StreamOf(d) \in StreamRequests /\ StreamOf(d) \in Requests
        /\ \A e \in Devices \ {d} : e # d /\ StreamOf(e) \in StreamRequests /\ StreamOf(e) \in Requests /\ StreamOf(e) # StreamOf(d)
    BY <1>3 DEF StreamOf, Devices
  <2>3. /\ call \in [Devices -> CallRecord] /\ m_nStreamsOpen \in [Devices -> Nat] /\ m_nStreamsStart \in [Devices -> Nat]
    BY DEF CountInv
  <2>4. UNCHANGED descriptor /\ Typed /\ \A e \in Devices \ {d} : Alone(e)
    <3> USE <1>4, <2>2, <2>3 DEF stream, usbVars, env, Goto, Return
    <3>1. CASE UsbHsGetVolume(d) \/ UsbHsSetVolume(d) \/ UsbHsGotVolume(d)
      BY <3>1 DEF UsbHsGetVolume, UsbHsSetVolume, UsbHsGotVolume
    <3>2. CASE UsbHsStreamOpen(d) \/ UsbHsStreamStart(d)
      BY <3>2 DEF UsbHsStreamOpen, UsbHsStreamStart
    <3>3. CASE UsbHsStreamSuspend(d) \/ UsbHsStreamClose(d)
      BY <3>3 DEF UsbHsStreamSuspend, UsbHsStreamClose
    <3>4. CASE SetUsbHsStreamOpen(d) \/ UsbHsUndoOpen(d) \/ SetUsbHsStreamClose(d)
      BY <3>4 DEF SetUsbHsStreamOpen, UsbHsUndoOpen, SetUsbHsStreamClose
    <3>5. CASE SetTransportResources(d) \/ SetUsbHsStreamStart(d) \/ UsbHsUndoStart(d)
      BY <3>5 DEF SetTransportResources, SetUsbHsStreamStart, UsbHsUndoStart
    <3>6. CASE GetTransportResources(d) \/ SetUsbHsStreamSuspend(d)
      BY <3>6 DEF GetTransportResources, SetUsbHsStreamSuspend, FreeTransportResources
    <3>7. CASE UsbHsCancelStreamRequest(d)
      BY <3>7 DEF UsbHsCancelStreamRequest, WdfRequestCancelSentRequest
    <3>8. CASE EnableUsbHsStreamStatusNotification(d)
      BY <3>8 DEF EnableUsbHsStreamStatusNotification, UsbHsSendIoCtrlAsynchronously, WdfRequestSend
    <3>9. CASE StopUsbHsStreamStatusNotification(d)
      BY <3>9 DEF StopUsbHsStreamStatusNotification
    <3> QED
      BY <1>14, <3>1, <3>2, <3>3, <3>4, <3>5, <3>6, <3>7, <3>8, <3>9 DEF UsbHsThreads, UsbHsCall,
         EnableUsbHsSpeakerStreamStatusNotification, EnableUsbHsMicStreamStatusNotification,
         StopUsbHsSpeakerStreamStatusNotification, StopUsbHsMicStreamStatusNotification
  <2>5. \A e \in Devices \ {d} : UsbStreamOf(e)'
    BY <1>1, <1>3, <2>4, UsbStreamFrame
  <2> QED
    BY <1>5, <2>1, <2>4, <2>5
<1> QED
  BY <1>1, <1>7, <1>8, <1>9, <1>10, <1>11, <1>12, <1>13, <1>14 DEF UsbHsNext

\* StreamInv holds of a new object, and every step of either kind keeps it.
THEOREM StreamInvariance == Spec => []StreamInv
<1>1. Init => StreamInv
  <2> SUFFICES ASSUME Init PROVE StreamInv
    OBVIOUS
  <2> USE DEF Init, SidebandInit, BthHfpSpecInit, UsbHsSpecInit
  <2>1. kind \in {"Bth", "Usb"} /\ descriptor.endpoints \in Seq(Devices)
    BY CasesAssumption
  <2>2. /\ \A d \in Devices : call[d].at = "Idle" /\ StreamOf(d) \in StreamRequests /\ StreamOf(d) \in Requests
        /\ "Stream" \in StreamRequests /\ "Stream" \in Requests
        /\ "Idle" \notin StreamCalls \cup Opening \cup Starting \cup {"Suspend"}
    BY DEF Idle, StreamOf, StreamRequests, Requests, StreamCalls, Opening, Starting
  <2>3. \A r \in Requests : request[r] = "None" /\ ~Pending(r)
    BY DEF Pending
  <2>4. BthStreamInv
    <3>1. "Speaker" \in Devices
      BY DEF Devices
    <3>2. RequestAgrees(call["Speaker"].at, m_nStreams, request["Stream"])
      BY <2>2, <2>3, <3>1 DEF RequestAgrees
    <3> QED
      BY <2>2, <2>3, <3>1, <3>2 DEF BthStreamInv
  <2>5. EndpointsAgree
    BY <2>1, <2>2, <2>3 DEF EndpointsAgree, Indexed
  <2>6. UsbStreamInv
    BY <2>2, <2>3 DEF UsbStreamInv, UsbStreamOf, RequestAgrees
  <2> QED
    BY <2>4, <2>5, <2>6 DEF StreamInv
<1>2. QuietInv /\ CountInv /\ StreamInv /\ [Next]_vars => StreamInv'
  <2> SUFFICES ASSUME QuietInv, CountInv, StreamInv, [Next]_vars PROVE StreamInv'
    OBVIOUS
  <2>1. CASE UNCHANGED vars
    BY <2>1 DEF vars, sidebandVars, bthVars, usbVars, env, object, stream, StreamInv, BthStreamInv, EndpointsAgree, Endpoints,
       UsbStreamInv, UsbStreamOf, HasSpeaker, Pending
  <2> QED
    BY <2>1, BthStreams, UsbStreams DEF Next, Gone
<1> QED
  BY <1>1, <1>2, QuietInvariance, CountInvariance, PTL DEF Spec

\* Between calls, an unused stream is invalid and its request can be sent again, and a
\* USB endpoint holds transport resources exactly while a stream of it is started.
THEOREM StreamsAgree == Spec => []StreamAgrees
<1>1. QuietInv /\ CountInv /\ StreamInv => StreamAgrees
  <2> SUFFICES ASSUME QuietInv, CountInv, StreamInv PROVE StreamAgrees
    OBVIOUS
  <2>1. ASSUME NEW d \in Devices, ~InStreamCall(d) PROVE call[d].at \notin StreamCalls \cup Starting \cup Opening \cup {"Suspend"}
    BY <2>1 DEF InStreamCall, StreamCalls, Starting, Opening
  <2>2. ASSUME kind = "Bth", ~overlapped, m_nStreams = 0, \A d \in Devices : ~InStreamCall(d)
        PROVE  status["Stream"] = "Invalid" /\ request["Stream"] \in {"None", "Ready"}
    <3>1. \A d \in Devices : call[d].at \notin StreamCalls \cup Opening
      BY <2>1, <2>2
    <3>2. PICK d \in Devices : RequestAgrees(call[d].at, m_nStreams, request["Stream"])
      BY <2>2 DEF StreamInv, BthStreamInv
    <3>3. status["Stream"] = "Invalid"
      BY <2>2, <3>1 DEF StreamInv, BthStreamInv
    <3> QED
      BY <2>2, <3>1, <3>2, <3>3 DEF RequestAgrees, StreamCalls
  <2>3. ASSUME NEW d \in Devices, kind = "Usb", ~InStreamCall(d)
        PROVE  /\ resources[d] <=> m_nStreamsStart[d] > 0
               /\ m_nStreamsOpen[d] = 0 => request[StreamOf(d)] \in {"None", "Ready"}
    <3>1. call[d].at \notin StreamCalls \cup Starting \cup Opening \cup {"Suspend"} /\ UsbStreamOf(d)
      BY <2>1, <2>3 DEF StreamInv, UsbStreamInv
    <3> QED
      BY <3>1 DEF UsbStreamOf, RequestAgrees, StreamCalls
  <2> QED
    BY <2>2, <2>3 DEF StreamAgrees
<1> QED
  BY <1>1, QuietInvariance, CountInvariance, StreamInvariance, PTL

\* A thread that waits for the end of a stream request will be woken. A headset without
\* a speaker is left out: its microphone has the index the speaker's was initialised
\* with, and the completion sets the event of the speaker.
THEOREM WaitersAreWoken == Spec => [](HasSpeaker => NoLostWakeup)
<1>1. CountInv /\ StreamInv => (HasSpeaker => NoLostWakeup)
  <2> SUFFICES ASSUME CountInv, StreamInv, HasSpeaker, NEW d \in Devices, call[d].at = "Wait", ~overlapped
               PROVE  LET s == IF kind = "Bth" THEN "Stream" ELSE StreamOf(d)
                      IN  event[s] \/ request[s] = "Cancelling"
    BY DEF NoLostWakeup
  <2>1. "Wait" \in StreamCalls /\ "Wait" \notin Opening
    BY DEF StreamCalls, Opening
  <2>2. CASE kind = "Bth"
    <3>1. RequestAgrees("Wait", m_nStreams, request["Stream"]) /\ (event["Stream"] <=> ~Pending("Stream"))
      BY <2>1, <2>2, BthAlone DEF StreamInv
    <3> QED
      BY <2>1, <2>2, <3>1 DEF RequestAgrees, Pending
  <2>3. CASE kind = "Usb"
    BY <2>1, <2>3 DEF StreamInv, UsbStreamInv, UsbStreamOf, RequestAgrees, Pending
  <2> QED
    BY <2>2, <2>3 DEF CountInv
<1> QED
  BY <1>1, CountInvariance, StreamInvariance, PTL
=============================================================================
