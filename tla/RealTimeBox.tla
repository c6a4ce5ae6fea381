---------------------------- MODULE RealTimeBox ----------------------------
(***************************************************************************)
(* The channel of inferno_aoip/src/util/real_time_box_channel.rs, which    *)
(* hands boxed values to a real-time thread and takes the old ones back,   *)
(* so that the real-time thread neither allocates nor frees memory.        *)
(*                                                                         *)
(* The two sides share two AtomicOptionBoxes, next and prev.  Each swap or *)
(* take of one of them is a step here; between two of them a box is in the *)
(* hands of one side.  Boxes are numbered in the order they are allocated, *)
(* the initial one is 0.                                                   *)
(***************************************************************************)
EXTENDS Naturals

CONSTANTS
  None,          \* an empty AtomicOptionBox
  MaxSends       \* bound: so many boxes are sent

ASSUME NoneAssumption == None \notin Nat
ASSUME SendsAssumption == MaxSends \in Nat

VARIABLES
  next,          \* Shared::next, the box the receiver should take
  prev,          \* Shared::prev, the box the sender should drop
  curr,          \* RealTimeBoxReceiver::curr
  spc,           \* the sender: "idle", or "swap" within send
  sending,       \* the box send was given and has not put into next yet
  rpc,           \* where the receiver is in update
  hold,          \* the box update has in its hands
  sent,          \* how many boxes were allocated for send
  freed,         \* the boxes the sender dropped
  rt_freed       \* the boxes the real-time thread dropped

shared   == <<next, prev>>
sender   == <<spc, sending, sent, freed>>
receiver == <<curr, rpc, hold, rt_freed>>
vars     == <<shared, sender, receiver>>

\* The boxes in a place that holds at most one.
In(place) == IF place = None THEN {} ELSE {place}

Init ==
  /\ next = None /\ prev = None
  /\ curr = 0
  /\ spc = "idle" /\ sending = None
  /\ rpc = "idle" /\ hold = None
  /\ sent = 0 /\ freed = {} /\ rt_freed = {}

-----------------------------------------------------------------------------
(***************************************************************************)
(* RealTimeBoxSender                                                       *)
(***************************************************************************)

\* prev.take, and the drop of what was there.
TakeGarbage ==
  /\ prev' = None
  /\ freed' = freed \cup In(prev)

CollectGarbage ==
  /\ spc = "idle"
  /\ TakeGarbage
  /\ UNCHANGED <<next, spc, sending, sent, receiver>>

\* send starts by collecting garbage.
BeginSend ==
  /\ spc = "idle" /\ sent < MaxSends
  /\ sent' = sent + 1
  /\ sending' = sent'
  /\ spc' = "swap"
  /\ TakeGarbage
  /\ UNCHANGED <<next, receiver>>

\* Deliberate error: the swap keeps the box the receiver has not taken.
EndSendKeepsOld ==
  /\ spc = "swap"
  /\ next' = IF next = None THEN sending ELSE next
  /\ freed' = IF next = None THEN freed ELSE freed \cup {sending}
  /\ sending' = None
  /\ spc' = "idle"
  /\ UNCHANGED <<prev, sent, receiver>>

\* The swap of next: a box the receiver never took is dropped.
EndSend ==
  /\ spc = "swap"
  /\ next' = sending
  /\ freed' = freed \cup In(next)
  /\ sending' = None
  /\ spc' = "idle"
  /\ UNCHANGED <<prev, sent, receiver>>

-----------------------------------------------------------------------------
(***************************************************************************)
(* RealTimeBoxReceiver::update                                             *)
(***************************************************************************)

\* The take of prev that asks whether the sender has collected it.
TakePrev ==
  /\ rpc = "idle"
  /\ hold' = prev
  /\ prev' = None
  /\ rpc' = IF prev = None THEN "take" ELSE "put"
  /\ UNCHANGED <<next, sender, curr, rt_freed>>

\* Deliberate error: the box in next becomes current but stays in next.
TakeNextShared ==
  /\ rpc = "take"
  /\ IF next = None
     THEN rpc' = "idle" /\ UNCHANGED <<curr, hold>>
     ELSE rpc' = "put" /\ curr' = next /\ hold' = curr
  /\ UNCHANGED <<shared, sender, rt_freed>>

\* There is room in prev: the take of next, which becomes current.
TakeNext ==
  /\ rpc = "take"
  /\ next' = None
  /\ IF next = None
     THEN rpc' = "idle" /\ UNCHANGED <<curr, hold>>
     ELSE rpc' = "put" /\ curr' = next /\ hold' = curr
  /\ UNCHANGED <<prev, sender, rt_freed>>

\* The swap of prev, at the end of either branch of update.  What was there
\* is dropped by this, the real-time, thread.
PutPrev ==
  /\ rpc = "put"
  /\ prev' = hold
  /\ rt_freed' = rt_freed \cup In(prev)
  /\ hold' = None
  /\ rpc' = "idle"
  /\ UNCHANGED <<next, sender, curr>>

-----------------------------------------------------------------------------

Update == TakePrev \/ TakeNext \/ PutPrev

Next == CollectGarbage \/ BeginSend \/ EndSend \/ Update

Spec == Init /\ [][Next]_vars

\* The real-time thread calls update again and again, and a send that was
\* begun is finished.
Running == WF_vars(Update) /\ WF_vars(EndSend)

\* In addition the sender keeps being called, and not every time in the moment
\* between an update's take of prev and its putting it back.
CollectingSpec == Spec /\ Running /\ SF_vars(CollectGarbage)

-----------------------------------------------------------------------------
(***************************************************************************)
(* Properties                                                              *)
(***************************************************************************)

Boxes == Nat \cup {None}

TypeOK ==
  /\ next \in Boxes /\ prev \in Boxes /\ curr \in Nat
  /\ spc \in {"idle", "swap"} /\ sending \in Boxes
  /\ rpc \in {"idle", "take", "put"} /\ hold \in Boxes
  /\ sent \in Nat
  /\ freed \subseteq Nat /\ rt_freed \subseteq Nat

\* Every box is in exactly one place: update and send, however they
\* interleave, neither leak a box nor drop or use one twice.
SingleOwner ==
  /\ (0 .. sent) = In(next) \cup In(prev) \cup {curr} \cup In(sending)
                     \cup In(hold) \cup freed \cup rt_freed
  /\ curr \notin In(next) \cup In(prev) \cup In(sending) \cup In(hold)
  /\ In(next) \cap (In(prev) \cup In(sending) \cup In(hold)) = {}
  /\ In(prev) \cap (In(sending) \cup In(hold)) = {}
  /\ In(sending) \cap In(hold) = {}
  /\ (freed \cup rt_freed)
       \cap (In(next) \cup In(prev) \cup {curr} \cup In(sending) \cup In(hold)) = {}

\* The real-time thread never frees memory: its swaps of prev find prev empty,
\* as its debug assertions say, because only it ever fills prev.
RealTimeNeverFrees ==
  /\ rt_freed = {}
  /\ rpc = "put" => prev = None

\* The receiver never goes back to an older value.
NeverOlder == [][curr' >= curr]_vars

\* The last value sent becomes the receiver's: update does not wait for ever for
\* the sender to collect prev, as long as the sender goes on collecting.
Delivered == \A n \in 1 .. MaxSends : []((sent = n) => <>(curr = n \/ sent > n))

\* The channel implements a mailbox for one value.
Promise == INSTANCE Mailbox WITH waiting <- next, current <- curr, issued <- sent
IsMailbox == Promise!Spec

-----------------------------------------------------------------------------
(***************************************************************************)
(* The inductive invariant of RealTimeBoxProofs                            *)
(***************************************************************************)

\* Who has what when, and the ages of the boxes.
OwnInv ==
  /\ spc = "swap" => sending = sent
  /\ spc = "idle" => sending = None
  /\ rpc = "put" => hold # None
  /\ rpc # "idle" => prev = None
  /\ rpc # "put" => hold = None
  /\ curr <= sent
  /\ next # None => curr < next /\ next <= sent
  /\ spc = "swap" => curr < sent /\ next # sent

\* The inductive invariant: ownership and ages together.
IndInv == TypeOK /\ SingleOwner /\ RealTimeNeverFrees /\ OwnInv
=============================================================================
