---------------------------- MODULE FlowsReceiver ----------------------------
(***************************************************************************)
(* The receiver of media flows, inferno_aoip/src/device_server/flows_rx.rs: *)
(* the handle FlowsReceiver, which any task may call, the queue of commands *)
(* and the real-time thread that owns the sockets.                          *)
(*                                                                         *)
(* A socket knows the flow it was opened for; the samples of a packet, and *)
(* the clock, are left to RingBuffer.  The operations of the handle are    *)
(* actions of whoever calls them (ChannelsSubscriber extends this module). *)
(***************************************************************************)
EXTENDS Naturals, Sequences

CONSTANTS
  None,          \* Option::None
  MaxFlows,      \* MAX_FLOWS
  PerFlow,       \* channels in a flow
  RxQueue        \* capacity of the queue of commands

ASSUME FlowsAssumption == {MaxFlows, PerFlow, RxQueue} \subseteq Nat \ {0}

VARIABLES
  flows_info,    \* which indices have a FlowInfo
  rx_commands,   \* the queue
  sockets,       \* of the real-time thread, by index
  rx_thread      \* "runs", or "panicked"

rxvars == <<flows_info, rx_commands, sockets, rx_thread>>

Slots    == 0 .. PerFlow - 1
SocketIx == 0 .. MaxFlows - 1

RxInit ==
  /\ flows_info = [i \in SocketIx |-> FALSE]
  /\ rx_commands = <<>>
  /\ sockets = [i \in SocketIx |-> None]
  /\ rx_thread = "runs"

-----------------------------------------------------------------------------
(***************************************************************************)
(* The handle.  An index out of range is logged and forgotten.             *)
(***************************************************************************)

\* commands_sender.send awaits room; an error, once the thread is gone, is only
\* logged.
Send(c) ==
  IF rx_thread = "runs"
  THEN Len(rx_commands) < RxQueue /\ rx_commands' = Append(rx_commands, c)
  ELSE UNCHANGED rx_commands

add_socket(i, flow) ==
  IF i \in SocketIx
  THEN /\ flows_info' = [flows_info EXCEPT ![i] = TRUE]
       /\ Send([t |-> "add", index |-> i, flow |-> flow])
       /\ UNCHANGED <<sockets, rx_thread>>
  ELSE UNCHANGED rxvars

remove_socket(i) ==
  IF i \in SocketIx
  THEN /\ flows_info' = [flows_info EXCEPT ![i] = FALSE]
       /\ Send([t |-> "remove", index |-> i])
       /\ UNCHANGED <<sockets, rx_thread>>
  ELSE UNCHANGED rxvars

connect_channel(i, slot, rb) ==
  IF i \in SocketIx /\ flows_info[i] /\ slot \in Slots
  THEN /\ Send([t |-> "connect", index |-> i, slot |-> slot, rb |-> rb])
       /\ UNCHANGED <<flows_info, sockets, rx_thread>>
  ELSE UNCHANGED rxvars

-----------------------------------------------------------------------------
(***************************************************************************)
(* The real-time thread, one command per turn of its loop                  *)
(***************************************************************************)

Command(type) ==
  /\ rx_thread = "runs" /\ rx_commands # <<>>
  /\ Head(rx_commands).t = type
  /\ rx_commands' = Tail(rx_commands)
  /\ UNCHANGED flows_info

\* mem::replace, whatever was there before
RunAddSocket ==
  /\ Command("add")
  /\ LET c == Head(rx_commands)
     IN  sockets' = [sockets EXCEPT ![c.index] =
                       [flow |-> c.flow, sinks |-> [k \in Slots |-> {}]]]
  /\ UNCHANGED rx_thread

\* unwrap of the socket
RunRemoveSocket ==
  /\ Command("remove")
  /\ LET i == Head(rx_commands).index
     IN  /\ rx_thread' = IF sockets[i] = None THEN "panicked" ELSE rx_thread
         /\ sockets' = [sockets EXCEPT ![i] = None]

RunConnectChannel ==
  /\ Command("connect")
  /\ LET c == Head(rx_commands)
     IN  sockets' = IF sockets[c.index] = None THEN sockets
                    ELSE [sockets EXCEPT ![c.index].sinks[c.slot] = @ \cup {c.rb}]
  /\ UNCHANGED rx_thread

RxThread == RunAddSocket \/ RunRemoveSocket \/ RunConnectChannel
=============================================================================
