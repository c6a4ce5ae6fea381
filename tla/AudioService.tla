---------------------------- MODULE AudioService ----------------------------
(***************************************************************************)
(* The receiving service of inferno_wasapi: run_audio_service of main.rs,  *)
(* its WASAPI render thread, the queue between the Dante callback and that *)
(* thread, and the IPC server of ipc.rs that can end the service.          *)
(*                                                                         *)
(* A sample is its frame number and its Dante channel.  The queue is under *)
(* a mutex, so a callback and a rendering are one step each.               *)
(***************************************************************************)
EXTENDS Naturals, Sequences

CONSTANTS
  Channels,      \* Dante channels
  DevChannels,   \* channels of the WASAPI device
  MaxQueue,      \* max_queue, in samples
  MaxBatch,      \* bound: frames in one callback
  MaxSpace,      \* bound: frames the device asks for at once
  MaxFrames,     \* bound: frames received in all
  MaxClients,    \* bound: clients of the IPC server at the same time
  Silence        \* a sample of no frame

ASSUME ChannelsAssumption ==
  /\ Channels \in Nat \ {0} /\ DevChannels \in Nat \ {0}
  /\ MaxQueue \in Nat /\ MaxQueue % Channels = 0
ASSUME BoundsAssumption ==
  {MaxBatch, MaxSpace, MaxFrames, MaxClients} \subseteq Nat \ {0}

VARIABLES
  main,          \* where run_audio_service is
  render,        \* the render thread
  ready,         \* what it has reported through ready_tx
  shutdown,      \* the flag shared with it
  queue,         \* audio_queue
  out,           \* what was last written to the device
  received,      \* frames the callback was called with
  receiving,     \* the callback is registered
  ipc,           \* start_ipc_server: "none", "listening" or "gone"
  clients,       \* handle_client tasks, each with a clone of shutdown_tx
  signalled      \* a client or the environment has asked for the end

audio   == <<queue, out, received>>
control == <<ipc, clients, signalled>>
threads == <<main, render, ready, shutdown, receiving>>
vars    == <<audio, control, threads>>

Init ==
  /\ main = "starting" /\ render = "none" /\ ready = "none"
  /\ shutdown = FALSE /\ receiving = FALSE
  /\ queue = <<>> /\ out = <<>> /\ received = 0
  /\ ipc = "none" /\ clients = 0 /\ signalled = FALSE

-----------------------------------------------------------------------------
(***************************************************************************)
(* run_audio_service                                                       *)
(***************************************************************************)

SpawnRender ==
  /\ main = "starting"
  /\ main' = "awaiting ready"
  /\ render' = "opening"
  /\ UNCHANGED <<ready, shutdown, receiving, audio, control>>

\* The device is ready: the Dante server, the IPC server and the callback start.
StartServing ==
  /\ main = "awaiting ready" /\ ready = "ok"
  /\ main' = "serving"
  /\ receiving' = TRUE
  /\ ipc' = "listening"
  /\ UNCHANGED <<render, ready, shutdown, audio, clients, signalled>>

\* The device is not: the thread is joined and the service fails.
FailStart ==
  /\ main = "awaiting ready" /\ ready = "error"
  /\ shutdown' = TRUE
  /\ main' = "failing"
  /\ UNCHANGED <<render, ready, receiving, audio, control>>

\* select: ext_shutdown or ipc_shutdown_rx has changed; the latter also returns
\* when the last sender is gone.
SendersGone == ipc = "gone" /\ clients = 0

BeginStop ==
  /\ main = "serving"
  /\ signalled \/ SendersGone
  /\ shutdown' = TRUE
  /\ main' = "stopping"
  /\ UNCHANGED <<render, ready, receiving, audio, control>>

\* server.stop_receiver and server.shutdown
StopReceiver ==
  /\ main = "stopping"
  /\ receiving' = FALSE
  /\ main' = "joining"
  /\ UNCHANGED <<render, ready, shutdown, audio, control>>

\* wasapi_thread.join
JoinRender ==
  /\ main \in {"joining", "failing"}
  /\ render = "ended"
  /\ main' = IF main = "joining" THEN "done" ELSE "failed"
  /\ UNCHANGED <<render, ready, shutdown, receiving, audio, control>>

-----------------------------------------------------------------------------
(***************************************************************************)
(* The callback of the Dante receiver                                      *)
(***************************************************************************)

\* n frames after the first m, interleaved.
Frames(m, n) ==
  [i \in 1 .. n * Channels |->
     [frame |-> m + 1 + ((i - 1) \div Channels), channel |-> (i - 1) % Channels]]

\* Deliberate error: the batch is cut off where the queue is full.
CallbackCutsOff ==
  /\ receiving
  /\ \E n \in 1 .. MaxBatch :
       /\ received + n <= MaxFrames
       /\ received' = received + n
       /\ LET all == queue \o Frames(received, n) IN
            queue' = IF Len(queue) >= MaxQueue THEN queue
                     ELSE IF Len(all) > MaxQueue + 1 THEN SubSeq(all, 1, MaxQueue + 1)
                     ELSE all
  /\ UNCHANGED <<out, control, threads>>

\* A batch that finds the queue full is dropped, any other is appended whole.
Callback ==
  /\ receiving
  /\ \E n \in 1 .. MaxBatch :
       /\ received + n <= MaxFrames
       /\ received' = received + n
       /\ queue' = IF Len(queue) >= MaxQueue THEN queue ELSE queue \o Frames(received, n)
  /\ UNCHANGED <<out, control, threads>>

-----------------------------------------------------------------------------
(***************************************************************************)
(* wasapi_render_thread                                                    *)
(***************************************************************************)

\* The device is opened and started, or one of the calls fails.
OpenDevice ==
  /\ render = "opening"
  /\ \/ ready' = "ok" /\ render' = "waiting"
     \/ ready' = "error" /\ render' = "ended"
  /\ UNCHANGED <<main, shutdown, receiving, audio, control>>

\* Deliberate error: the thread goes on until the process ends.
LookAtFlagNever ==
  /\ render = "waiting"
  /\ render' = "in loop"
  /\ UNCHANGED <<main, ready, shutdown, receiving, audio, control>>

\* The thread looks at the flag before it waits for the device.
LookAtFlag ==
  /\ render = "waiting"
  /\ render' = IF shutdown THEN "ended" ELSE "in loop"
  /\ UNCHANGED <<main, ready, shutdown, receiving, audio, control>>

\* The wait for the device times out, or the device has no room.
NothingToDo ==
  /\ render = "in loop"
  /\ render' = "waiting"
  /\ UNCHANGED <<main, ready, shutdown, receiving, audio, control>>

\* Deliberate error: the samples are copied and left in the queue.
RenderPeeks ==
  /\ render = "in loop"
  /\ render' = "waiting"
  /\ \E frames \in 1 .. MaxSpace :
       out' = [i \in 1 .. frames * DevChannels |->
                 IF i <= Len(queue) THEN queue[i] ELSE Silence]
  /\ UNCHANGED <<queue, received, main, ready, shutdown, receiving, control>>

\* The device asks for frames: they are popped, and padded with silence.
Render ==
  /\ render = "in loop"
  /\ render' = "waiting"
  /\ \E frames \in 1 .. MaxSpace :
       LET needed == frames * DevChannels
           taken  == IF Len(queue) < needed THEN Len(queue) ELSE needed
       IN  /\ out' = [i \in 1 .. needed |-> IF i <= taken THEN queue[i] ELSE Silence]
           /\ queue' = SubSeq(queue, taken + 1, Len(queue))
  /\ UNCHANGED <<received, main, ready, shutdown, receiving, control>>

-----------------------------------------------------------------------------
(***************************************************************************)
(* The IPC server                                                          *)
(***************************************************************************)

\* A client connects and its instance of the pipe is replaced.
Connect ==
  /\ ipc = "listening" /\ clients < MaxClients
  /\ clients' = clients + 1
  /\ UNCHANGED <<ipc, signalled, audio, threads>>

\* An instance of the pipe cannot be created: start_ipc_server returns.
PipeFails ==
  /\ ipc = "listening"
  /\ ipc' = "gone"
  /\ UNCHANGED <<clients, signalled, audio, threads>>

ClientLeaves ==
  /\ clients > 0
  /\ clients' = clients - 1
  /\ UNCHANGED <<ipc, signalled, audio, threads>>

\* A client sends Shutdown, or the service manager stops the service.
AskForEnd ==
  /\ main = "serving"
  /\ signalled' = TRUE
  /\ UNCHANGED <<ipc, clients, audio, threads>>

-----------------------------------------------------------------------------

Main == SpawnRender \/ StartServing \/ FailStart \/ BeginStop \/ StopReceiver \/ JoinRender
RenderThread == OpenDevice \/ LookAtFlag \/ NothingToDo \/ Render
Ipc == Connect \/ PipeFails \/ ClientLeaves \/ AskForEnd

Next == Main \/ RenderThread \/ Callback \/ Ipc

Spec == Init /\ [][Next]_vars

\* main and the render thread are threads of their own; the wait of the render
\* thread for the device ends after 200 ms at the latest.
FairSpec == Spec /\ WF_vars(Main) /\ WF_vars(RenderThread)

-----------------------------------------------------------------------------
(***************************************************************************)
(* Properties                                                              *)
(***************************************************************************)

TypeOK ==
  /\ main \in {"starting", "awaiting ready", "serving", "stopping", "joining",
               "failing", "done", "failed"}
  /\ render \in {"none", "opening", "waiting", "in loop", "ended"}
  /\ ready \in {"none", "ok", "error"}
  /\ shutdown \in BOOLEAN /\ receiving \in BOOLEAN /\ signalled \in BOOLEAN
  /\ queue \in Seq([frame : 1 .. MaxFrames, channel : 0 .. Channels - 1])
  /\ Len(out) % DevChannels = 0
  /\ received \in 0 .. MaxFrames
  /\ ipc \in {"none", "listening", "gone"}
  /\ clients \in 0 .. MaxClients

\* The sample written for a channel of the device.
Written(f, c) == out[f * DevChannels + c + 1]

\* Every channel of the device plays its Dante channel or silence, a device
\* channel without one plays silence, and the channels of a frame come from the
\* same frame, whatever was dropped, popped or padded.
ChannelsMatch ==
  \A f \in 0 .. (Len(out) \div DevChannels) - 1, c, d \in 0 .. DevChannels - 1 :
    Written(f, c) # Silence =>
      /\ Written(f, c).channel = c
      /\ d < Channels => Written(f, d) # Silence /\ Written(f, d).frame = Written(f, c).frame

\* A stalled device lets the queue grow past its limit by less than one batch.
QueueBounded == Len(queue) <= MaxQueue - Channels + MaxBatch * Channels

\* Frames are played in the order in which they were received, each once.
PlayedInOrder ==
  [][\A i \in 1 .. Len(out), j \in 1 .. Len(out') :
       (out' # out /\ out[i] # Silence /\ out'[j] # Silence)
         => out[i].frame < out'[j].frame]_vars

\* A request for the end is granted, and a device that cannot be opened ends the
\* service, with the render thread and the callback: the join never waits for a
\* thread that never looks at the flag.
AllEnded == render = "ended" /\ ~receiving
Ends ==
  /\ signalled ~> (main = "done" /\ AllEnded)
  /\ (ready = "error") ~> (main = "failed" /\ AllEnded)

-----------------------------------------------------------------------------

\* What the comments say of the queue: it never holds more than 250 ms.
QueueCapped == Len(queue) <= MaxQueue
=============================================================================
