----------------------------- MODULE FlowTable -----------------------------
(***************************************************************************)
(* What FlowsTransmitter promises to those who share it under its mutex: a *)
(* table of flows in which no destination occurs twice and an index passes *)
(* from one flow to another only by way of being empty.  Channels, handles *)
(* and the real-time thread are left out.                                  *)
(***************************************************************************)
EXTENDS Naturals

CONSTANTS
  None,          \* no flow
  MaxFlows,      \* MAX_FLOWS
  Dsts           \* destinations

TableIx == 0 .. MaxFlows - 1

VARIABLE table   \* the destination of each flow, and whether it is multicast

InTable(d) == \E i \in TableIx : table[i] # None /\ table[i].dst = d

EmptyTable == [i \in TableIx |-> None]

TableInit == table = EmptyTable

\* add_flow, for a destination that has no flow
Put(i, d, m) ==
  /\ table[i] = None /\ ~InTable(d)
  /\ table' = [table EXCEPT ![i] = [dst |-> d, multicast |-> m]]

\* add_flow, for one that has
Relabel(i, m) ==
  /\ table[i] # None
  /\ table' = [table EXCEPT ![i] = [dst |-> table[i].dst, multicast |-> m]]

\* remove_flow, remove_multicast_flow, scan_expired
Drop(i) == table[i] # None /\ table' = [table EXCEPT ![i] = None]

\* The process starts again.
Clear == table' = EmptyTable

TableNext ==
  \/ \E i \in TableIx, d \in Dsts, m \in BOOLEAN : Put(i, d, m)
  \/ \E i \in TableIx, m \in BOOLEAN : Relabel(i, m)
  \/ \E i \in TableIx : Drop(i)
  \/ Clear

TableSpec == TableInit /\ [][TableNext]_table
=============================================================================
