---------------------- MODULE ChannelsSubscriberProofs ----------------------
(***************************************************************************)
(* Proofs about the subscriber: the reference counts of its flows, the     *)
(* stored subscriptions, the inputs of the collector and the sockets of    *)
(* the real-time thread.                                                   *)
(***************************************************************************)
EXTENDS ChannelsSubscriber, FiniteSetTheorems, SequenceTheorems, TLAPS

(***************************************************************************)
(* Numbers in order                                                        *)
(***************************************************************************)

UpTo(S, x) == {y \in S : y <= x}

\* The number of members up to a member tells which one it is.
LEMMA Ranks ==
  ASSUME NEW S, S \subseteq Nat, IsFiniteSet(S)
  PROVE  /\ Cardinality(S) \in Nat
         /\ \A x \in S : Cardinality(UpTo(S, x)) \in 1 .. Cardinality(S)
         /\ \A x, y \in S : Cardinality(UpTo(S, x)) = Cardinality(UpTo(S, y)) => x = y
         /\ \A n \in 1 .. Cardinality(S) : \E x \in S : Cardinality(UpTo(S, x)) = n
<1>1. Cardinality(S) \in Nat
  BY FS_CardinalityType
<1>2. ASSUME NEW x \in S
      PROVE  /\ IsFiniteSet(UpTo(S, x)) /\ Cardinality(UpTo(S, x)) \in Nat
             /\ Cardinality(UpTo(S, x)) <= Cardinality(S) /\ Cardinality(UpTo(S, x)) # 0
  <2>1. UpTo(S, x) \in SUBSET S /\ x \in UpTo(S, x)
    BY DEF UpTo
  <2>2. IsFiniteSet(UpTo(S, x)) /\ Cardinality(UpTo(S, x)) <= Cardinality(S)
    BY <2>1, FS_Subset
  <2> QED BY <2>1, <2>2, FS_CardinalityType, FS_EmptySet
<1>3. \A x \in S : Cardinality(UpTo(S, x)) \in 1 .. Cardinality(S)
  BY <1>1, <1>2
<1>4. ASSUME NEW x \in S, NEW y \in S, x < y
      PROVE  Cardinality(UpTo(S, x)) # Cardinality(UpTo(S, y))
  <2>1. x \in Nat /\ y \in Nat /\ \A z \in S : z \in Nat
    OBVIOUS
  <2>2. ~(y <= x) /\ y <= y /\ \A z \in S : z <= x => z <= y
    BY <1>4, <2>1
  <2>3. UpTo(S, x) \subseteq UpTo(S, y)
    BY <2>2 DEF UpTo
  <2>4. y \in UpTo(S, y) /\ y \notin UpTo(S, x)
    BY <2>2 DEF UpTo
  <2> QED BY <1>2, <2>3, <2>4, FS_Subset
<1>5. \A x, y \in S : Cardinality(UpTo(S, x)) = Cardinality(UpTo(S, y)) => x = y
  BY <1>4
<1>6. PICK rank : rank = [x \in S |-> Cardinality(UpTo(S, x))]
  OBVIOUS
<1>7. rank \in Injection(S, 1 .. Cardinality(S))
  BY <1>3, <1>5, <1>6 DEF Injection, IsInjective
<1>8. IsFiniteSet(1 .. Cardinality(S)) /\ Cardinality(1 .. Cardinality(S)) = Cardinality(S)
  BY <1>1, FS_Interval
<1>9. rank \in Surjection(S, 1 .. Cardinality(S))
  BY <1>7, <1>8, FS_Injection
<1>10. \A n \in 1 .. Cardinality(S) : \E x \in S : Cardinality(UpTo(S, x)) = n
  BY <1>6, <1>9 DEF Surjection
<1> QED BY <1>1, <1>3, <1>5, <1>10

\* Sorted has every member once.
LEMMA SortedIs ==
  ASSUME NEW S, S \subseteq Nat, IsFiniteSet(S)
  PROVE  /\ Cardinality(S) \in Nat /\ DOMAIN Sorted(S) = 1 .. Cardinality(S)
         /\ Len(Sorted(S)) = Cardinality(S) /\ Sorted(S) \in Seq(S)
         /\ \A i \in 1 .. Cardinality(S) : Sorted(S)[i] \in S
         /\ \A i, j \in 1 .. Cardinality(S) : Sorted(S)[i] = Sorted(S)[j] => i = j
         /\ \A x \in S : \E i \in 1 .. Cardinality(S) : Sorted(S)[i] = x
<1>1. PICK n : n = Cardinality(S)
  OBVIOUS
<1>2. n \in Nat
  BY <1>1, Ranks
<1>3. Sorted(S) = [i \in 1 .. n |-> CHOOSE x \in S : Cardinality(UpTo(S, x)) = i]
  BY <1>1 DEF Sorted, UpTo
<1>4. PICK q : q = Sorted(S)
  OBVIOUS
<1>5. ASSUME NEW i \in 1 .. n PROVE q[i] \in S /\ Cardinality(UpTo(S, q[i])) = i
  <2>1. q[i] = CHOOSE x \in S : Cardinality(UpTo(S, x)) = i
    BY <1>3, <1>4
  <2>2. \E x \in S : Cardinality(UpTo(S, x)) = i
    BY <1>1, Ranks
  <2> QED BY <2>1, <2>2
<1>6. q \in [1 .. n -> S]
  BY <1>3, <1>4, <1>5
<1>7. q \in Seq(S) /\ Len(q) = n /\ DOMAIN q = 1 .. n
  BY <1>2, <1>6
<1>8. \A i, j \in 1 .. n : q[i] = q[j] => i = j
  BY <1>5
<1>9. ASSUME NEW x \in S PROVE \E i \in 1 .. n : q[i] = x
  <2>1. Cardinality(UpTo(S, x)) \in 1 .. n
    BY <1>1, Ranks
  <2>2. PICK i \in 1 .. n : i = Cardinality(UpTo(S, x))
    BY <2>1
  <2>3. q[i] \in S /\ Cardinality(UpTo(S, q[i])) = Cardinality(UpTo(S, x))
    BY <1>5, <2>2
  <2>4. q[i] = x
    BY <2>3, Ranks
  <2> QED BY <2>4
<1> QED BY <1>1, <1>2, <1>4, <1>5, <1>7, <1>8, <1>9

LEMMA MinIs ==
  ASSUME NEW S, S \subseteq Nat, IsFiniteSet(S), S # {}
  PROVE  Min(S) \in S
<1>1. Cardinality(S) \in Nat /\ Cardinality(S) # 0
  BY FS_CardinalityType, FS_EmptySet
<1>a. 1 \in 1 .. Cardinality(S)
  BY <1>1
<1>2. PICK x \in S : Cardinality(UpTo(S, x)) = 1
  BY <1>a, Ranks
<1>3. UpTo(S, x) \in SUBSET S /\ x \in UpTo(S, x)
  BY DEF UpTo
<1>4. IsFiniteSet(UpTo(S, x))
  BY <1>3, FS_Subset
<1>5. PICK z : UpTo(S, x) = {z}
  BY <1>2, <1>4, FS_Singleton
<1>6. \A y \in S : x <= y
  <2> SUFFICES ASSUME NEW y \in S, ~(x <= y) PROVE FALSE
    OBVIOUS
  <2>1. y \in UpTo(S, x) /\ y # x
    BY DEF UpTo
  <2> QED BY <1>3, <1>5, <2>1
<1> QED BY <1>6 DEF Min

\* A number made of two
LEMMA Parts ==
  ASSUME NEW a \in Nat, NEW b \in Nat, NEW m \in Nat, b < m
  PROVE  (a * m + b) \div m = a /\ (a * m + b) % m = b
<1>1. PICK q : q = (a * m + b) \div m
  OBVIOUS
<1>2. PICK r : r = (a * m + b) % m
  OBVIOUS
<1>3. a * m \in Nat /\ m > 0
  OBVIOUS
<1>4. q \in Int /\ r \in 0 .. m - 1 /\ a * m + b = m * q + r
  BY <1>1, <1>2, <1>3
<1>5. CASE q > a
  BY <1>3, <1>4, <1>5
<1>6. CASE q < a
  BY <1>3, <1>4, <1>6
<1> QED BY <1>1, <1>2, <1>3, <1>4, <1>5, <1>6

LEMMA Numbers ==
  /\ Channels \subseteq Nat /\ IsFiniteSet(Channels) /\ Servers \subseteq Nat /\ IsFiniteSet(Servers)
  /\ Indices \subseteq Nat /\ IsFiniteSet(Indices) /\ Slots \subseteq Nat /\ IsFiniteSet(Slots)
  /\ Cardinality(Channels) \in Nat /\ PerFlow \in Nat \ {0}
<1>1. Channels \subseteq Nat /\ IsFiniteSet(Channels) /\ Servers \subseteq Nat /\ IsFiniteSet(Servers)
  BY NetworkAssumption
<1>2. PerFlow \in Nat \ {0}
  BY FlowsAssumption
<1>3. Cardinality(Channels) \in Nat
  BY <1>1, FS_CardinalityType
<1>4. Indices \subseteq Nat /\ IsFiniteSet(Indices)
  BY <1>3, FS_Interval DEF Indices
<1>5. Slots \subseteq Nat /\ IsFiniteSet(Slots)
  BY <1>2, FS_Interval DEF Slots
<1> QED BY <1>1, <1>2, <1>3, <1>4, <1>5

LEMMA FiniteChannels == ASSUME NEW S \in SUBSET Channels PROVE IsFiniteSet(S) /\ Cardinality(S) \in Nat /\ S \subseteq Nat
<1>1. IsFiniteSet(S)
  BY Numbers, FS_Subset
<1> QED BY <1>1, Numbers, FS_CardinalityType

(***************************************************************************)
(* What most steps leave alone                                             *)
(***************************************************************************)

\* The channels connected to a slot
Joined(f, k) == {ch \in Channels : Connected(ch) /\ channels[ch].remote = [flow |-> f, slot |-> k]}

Counted ==
  /\ \A ch \in Channels : Connected(ch) => flows[channels[ch].remote.flow] # None
  /\ \A f \in Indices : flows[f] # None => \A k \in Slots : flows[f].refcount[k] = Cardinality(Joined(f, k))

LEMMA CountedIs == RefcountExact <=> Counted
  BY DEF RefcountExact, Counted, Joined

LEMMA CountedIsNext == RefcountExact' <=> Counted'
  BY DEF RefcountExact, Counted, Joined

\* The flows are the same ones, with the same counts.
FlowsAlike ==
  \A f \in Indices :
    /\ flows'[f] # None <=> flows[f] # None
    /\ flows[f] # None => flows'[f].refcount = flows[f].refcount
         /\ flows'[f].kind = flows[f].kind /\ flows'[f].server = flows[f].server

LEMMA SubscriptionIs ==
  ASSUME NEW ch \in Channels, channels \in [Channels -> {None} \cup Subscription]
  PROVE  /\ Subscribed(ch) => channels[ch] \in Subscription /\ Src(ch) \in Sources
         /\ Connected(ch) => /\ channels[ch].remote \in Remote /\ channels[ch].remote.flow \in Indices
                             /\ channels[ch].remote.slot \in Slots
  BY DEF Subscribed, Connected, Subscription, Remote, Src

LEMMA StaysCounted ==
  ASSUME CountInv, FlowsAlike, UNCHANGED channels
  PROVE  RefcountExact' /\ OneBundle'
<1>1. \A ch : Connected(ch)' <=> Connected(ch)
  BY DEF Connected, Subscribed
<1>2. \A f, k : Joined(f, k)' = Joined(f, k)
  BY <1>1 DEF Joined
<1>3. Counted /\ OneBundle
  BY CountedIs DEF CountInv
<1>4. \A ch \in Channels : Connected(ch) => channels[ch].remote.flow \in Indices
  BY SubscriptionIs DEF CountInv, TypeOK
<1>5. Counted'
  BY <1>1, <1>2, <1>3, <1>4 DEF Counted, FlowsAlike
<1>6. OneBundle'
  BY <1>3 DEF OneBundle, FlowsAlike
<1> QED BY <1>5, <1>6, CountedIsNext

LEMMA StaysPlanned ==
  ASSUME CountInv, FlowsAlike, UNCHANGED <<channels, requests, updates, phase>>
  PROVE  PlanFits'
<1> SUFFICES ASSUME phase = "requests" PROVE PlanFits'
  BY DEF PlanFits
<1>1. UpdatesFit /\ RequestsFit /\ NewIsUnused /\ OneUpdateEach
  BY DEF CountInv, PlanFits
<1>2. Needed' = Needed /\ \A ch : Connected(ch)' <=> Connected(ch)
  BY DEF Needed, Connected, Subscribed
<1>3. /\ \A i \in DOMAIN updates : \A u \in updates[i] : u.flow \in Indices
      /\ \A k \in Keys : \A i \in DOMAIN requests[k] : requests[k][i].flow \in Indices
  <2>1. \A i \in DOMAIN updates : updates[i] \subseteq ChannelSourceUpdate
    BY DEF CountInv, TypeOK
  <2>2. \A k \in Keys : \A i \in DOMAIN requests[k] : requests[k][i] \in Request
    BY DEF CountInv, TypeOK
  <2> QED BY <2>1, <2>2 DEF ChannelSourceUpdate, Request
<1>4. UpdatesFit' /\ RequestsFit'
  BY <1>1, <1>2, <1>3 DEF UpdatesFit, RequestsFit, FlowsAlike
<1>5. NewIsUnused'
  BY <1>1, <1>2 DEF NewIsUnused
<1>6. OneUpdateEach'
  BY <1>1 DEF OneUpdateEach
<1> QED BY <1>4, <1>5, <1>6 DEF PlanFits

\* A step that does not change the plan, or ends it, and leaves channels and flows alone
LEMMA QuietStep ==
  ASSUME CountInv, TypeOK', FlowsAlike, UNCHANGED channels,
         phase' # "requests" \/ UNCHANGED <<phase, requests, updates>>
  PROVE  CountInv'
<1>1. RefcountExact' /\ OneBundle'
  BY StaysCounted
<1>2. PlanFits'
  BY StaysPlanned DEF PlanFits
<1> QED BY <1>1, <1>2 DEF CountInv

LEMMA Alike == ASSUME UNCHANGED flows PROVE FlowsAlike
  BY DEF FlowsAlike

LEMMA FrontEndStep ==
  ASSUME CountInv, FrontEnd
  PROVE  CountInv'
<1>1. PICK c \in FrontEndCommand : Call(c)
  <2>1. CASE \E ch \in Channels, s \in Sources : Subscribe(ch, s)
    <3>1. PICK ch \in Channels, s \in Sources : Call([t |-> "subscribe", ch |-> ch, src |-> s])
      BY <2>1 DEF Subscribe
    <3>2. [t |-> "subscribe", ch |-> ch, src |-> s] \in FrontEndCommand
      BY DEF FrontEndCommand
    <3> QED BY <3>1, <3>2
  <2>2. CASE \E ch \in Channels : Unsubscribe(ch)
    <3>1. PICK ch \in Channels : Call([t |-> "unsubscribe", ch |-> ch])
      BY <2>2 DEF Unsubscribe
    <3>2. [t |-> "unsubscribe", ch |-> ch] \in FrontEndCommand
      BY DEF FrontEndCommand
    <3> QED BY <3>1, <3>2
  <2>3. [t |-> "refresh"] \in FrontEndCommand /\ [t |-> "shutdown"] \in FrontEndCommand
    BY DEF FrontEndCommand
  <2> QED BY <2>1, <2>2, <2>3 DEF FrontEnd, ForceRefresh, Shutdown
<1>2. commands' = Append(commands, c) /\ UNCHANGED <<phase, dirty, channels, flows, made, requests, updates, saved>>
  BY <1>1 DEF Call, worker
<1>3. TypeOK'
  <2>1. commands' \in Seq(FrontEndCommand)
    BY <1>2 DEF CountInv, TypeOK
  <2> QED BY <1>2, <2>1 DEF CountInv, TypeOK
<1> QED BY <1>2, <1>3, Alike, QuietStep

\* What the steps of the spawned tasks, of the receiver and of the network change is not
\* what the counts depend on.
LEMMA OutsideStep ==
  ASSUME CountInv,
         \/ Tasks \/ Receiver \/ (\E n \in 1 .. MaxMade : TxDropsFlow(n)) \/ (\E s \in Sources : TxChangesBundle(s))
         \/ UNCHANGED vars
  PROVE  CountInv'
<1>1. UNCHANGED <<commands, phase, dirty, channels, flows, made, requests, updates, saved>>
  <2>1. CASE Tasks
    BY <2>1 DEF Tasks, ConnectCollector, DisconnectCollector, ConnectSink, LeaveBundle, RunTask, front, worker
  <2>2. CASE Receiver
    BY <2>2 DEF Receiver, front, worker, shared
  <2>3. CASE (\E n \in 1 .. MaxMade : TxDropsFlow(n)) \/ (\E s \in Sources : TxChangesBundle(s))
    BY <2>3 DEF TxDropsFlow, TxChangesBundle, front, worker, shared
  <2>4. CASE UNCHANGED vars
    BY <2>4 DEF vars, front, worker, shared
  <2> QED BY <2>1, <2>2, <2>3, <2>4
<1>2. TypeOK'
  BY <1>1 DEF CountInv, TypeOK
<1> QED BY <1>1, <1>2, Alike, QuietStep

LEMMA SeeStep ==
  ASSUME CountInv, NEW f \in Indices, PacketArrives(f) \/ Silence(f)
  PROVE  CountInv'
<1>1. PICK what \in {"fresh", "silent"} : See(f, what)
  BY DEF PacketArrives, Silence
<1>2. PICK g : g = [flows[f] EXCEPT !.seen = what]
  OBVIOUS
<1>3. /\ flows[f] # None /\ flows' = [flows EXCEPT ![f] = g]
      /\ UNCHANGED <<commands, phase, dirty, channels, made, requests, updates, saved>>
  BY <1>1, <1>2 DEF See, front, worker
<1>4. flows \in [Indices -> {None} \cup Flow] /\ flows[f] \in Flow
  BY <1>3 DEF CountInv, TypeOK
<1>5. g \in Flow /\ g.refcount = flows[f].refcount /\ g.kind = flows[f].kind /\ g.server = flows[f].server
  BY <1>2, <1>4 DEF Flow
<1>6. flows' \in [Indices -> {None} \cup Flow] /\ flows'[f] = g /\ \A h \in Indices \ {f} : flows'[h] = flows[h]
  BY <1>3, <1>4, <1>5
<1>7. g # None
  BY <1>5, NoneAssumption
<1>8. FlowsAlike
  BY <1>3, <1>5, <1>6, <1>7 DEF FlowsAlike
<1>9. TypeOK'
  BY <1>3, <1>6 DEF CountInv, TypeOK
<1> QED BY <1>3, <1>8, <1>9, QuietStep

(***************************************************************************)
(* Commands                                                                *)
(***************************************************************************)

LEMMA BundlesKept ==
  ASSUME OneBundle,
         \A h \in Indices : flows'[h] # None =>
           flows[h] # None /\ flows'[h].kind = flows[h].kind /\ flows'[h].server = flows[h].server
  PROVE  OneBundle'
  BY DEF OneBundle

\* A channel leaves its slot.
LEMMA ChannelLeaves ==
  ASSUME CountInv, NEW ch \in Channels, NEW s \in {None} \cup Subscription, s # None => s.remote = None,
         Leave(ch), channels' = [channels EXCEPT ![ch] = s], phase' = "commands",
         commands' \in Seq(FrontEndCommand), dirty' \in BOOLEAN, UNCHANGED <<made, requests, updates, saved>>
  PROVE  CountInv'
<1>1. channels \in [Channels -> {None} \cup Subscription] /\ flows \in [Indices -> {None} \cup Flow]
  BY DEF CountInv, TypeOK
<1>2. /\ channels' \in [Channels -> {None} \cup Subscription] /\ channels'[ch] = s
      /\ \A c \in Channels \ {ch} : channels'[c] = channels[c]
  BY <1>1
<1>3. ~Connected(ch)' /\ \A c \in Channels \ {ch} : Connected(c)' <=> Connected(c)
  BY <1>2 DEF Connected, Subscribed
<1>4. Counted /\ OneBundle
  BY CountedIs DEF CountInv
<1>5. \A f, k : Joined(f, k)' = Joined(f, k) \ {ch}
  BY <1>2, <1>3 DEF Joined
<1>6. PlanFits'
  BY DEF PlanFits
<1>7. CASE ~Connected(ch)
  <2>1. UNCHANGED flows /\ \A f, k : ch \notin Joined(f, k)
    BY <1>7 DEF Leave, Joined
  <2>2. \A f, k : Joined(f, k)' = Joined(f, k)
    BY <1>5, <2>1
  <2>3. Counted' /\ OneBundle'
    BY <1>2, <1>3, <1>4, <2>1, <2>2 DEF Counted, OneBundle
  <2>4. TypeOK'
    BY <1>2, <2>1 DEF CountInv, TypeOK
  <2> QED BY <1>6, <2>3, <2>4, CountedIsNext DEF CountInv
<1>8. CASE Connected(ch)
  <2>1. PICK f, k : f = channels[ch].remote.flow /\ k = channels[ch].remote.slot
    OBVIOUS
  <2>2. f \in Indices /\ k \in Slots /\ channels[ch].remote = [flow |-> f, slot |-> k]
    BY <1>1, <1>8, <2>1, SubscriptionIs DEF Remote
  <2>3. flows[f] # None /\ flows[f] \in Flow /\ flows[f].refcount \in [Slots -> Nat]
    BY <1>1, <1>4, <1>8, <2>1, <2>2 DEF Counted, Flow
  <2>4. PICK n : n = flows[f].refcount[k]
    OBVIOUS
  <2>5. PICK rc : rc = [flows[f].refcount EXCEPT ![k] = n - 1]
    OBVIOUS
  <2>6. PICK g : g = [flows[f] EXCEPT !.refcount = rc]
    OBVIOUS
  <2>7. flows' = [flows EXCEPT ![f] = g]
    BY <1>1, <1>8, <2>1, <2>2, <2>3, <2>4, <2>5, <2>6 DEF Leave
  <2>8. n = Cardinality(Joined(f, k)) /\ n \in Nat \ {0} /\ Cardinality(Joined(f, k)') = n - 1
    <3>1. IsFiniteSet(Joined(f, k)) /\ ch \in Joined(f, k)
      BY <1>8, <2>2, FiniteChannels DEF Joined
    <3>2. n = Cardinality(Joined(f, k)) /\ n \in Nat /\ n # 0
      BY <1>4, <2>2, <2>3, <2>4, <3>1, FS_EmptySet DEF Counted
    <3>3. Cardinality(Joined(f, k) \ {ch}) = n - 1
      BY <3>1, <3>2, FS_RemoveElement
    <3> QED BY <1>5, <3>2, <3>3
  <2>9. rc \in [Slots -> Nat] /\ rc[k] = n - 1 /\ \A i \in Slots \ {k} : rc[i] = flows[f].refcount[i]
    BY <2>2, <2>3, <2>5, <2>8
  <2>10. g \in Flow /\ g.refcount = rc /\ g.kind = flows[f].kind /\ g.server = flows[f].server
    BY <2>3, <2>6, <2>9 DEF Flow
  <2>11. g # None
    BY <2>10, NoneAssumption
  <2>12. flows' \in [Indices -> {None} \cup Flow] /\ flows'[f] = g /\ \A h \in Indices \ {f} : flows'[h] = flows[h]
    BY <1>1, <2>2, <2>7, <2>10
  <2>13. TypeOK'
    BY <1>2, <2>12 DEF CountInv, TypeOK
  <2>14. OneBundle'
    <3>1. ASSUME NEW h \in Indices, flows'[h] # None
          PROVE  flows[h] # None /\ flows'[h].kind = flows[h].kind /\ flows'[h].server = flows[h].server
      BY <2>3, <2>10, <2>12, <3>1
    <3> QED BY <1>4, <3>1, BundlesKept
  <2>15. \A c \in Channels : Connected(c)' => flows'[channels'[c].remote.flow] # None
    <3> SUFFICES ASSUME NEW c \in Channels, Connected(c)' PROVE flows'[channels'[c].remote.flow] # None
      OBVIOUS
    <3>1. c # ch /\ Connected(c) /\ channels'[c] = channels[c]
      BY <1>2, <1>3
    <3>2. channels[c].remote.flow \in Indices /\ flows[channels[c].remote.flow] # None
      BY <1>1, <1>4, <3>1, SubscriptionIs DEF Counted
    <3> QED BY <2>11, <2>12, <3>1, <3>2
  <2>16. ASSUME NEW h \in Indices, flows'[h] # None, NEW i \in Slots
         PROVE  flows'[h].refcount[i] = Cardinality(Joined(h, i)')
    <3>1. CASE h = f /\ i = k
      BY <2>8, <2>9, <2>10, <2>12, <3>1
    <3>2. CASE ~(h = f /\ i = k)
      <4>1. Joined(h, i)' = Joined(h, i)
        <5>1. channels[ch].remote # [flow |-> h, slot |-> i]
          BY <2>1, <3>2
        <5>2. ch \notin Joined(h, i)
          BY <5>1 DEF Joined
        <5> QED BY <1>5, <5>2
      <4>2. flows[h] # None /\ flows'[h].refcount[i] = flows[h].refcount[i]
        BY <2>3, <2>9, <2>10, <2>12, <2>16, <3>2
      <4> QED BY <1>4, <4>1, <4>2 DEF Counted
    <3> QED BY <3>1, <3>2
  <2>17. Counted'
    BY <2>15, <2>16 DEF Counted
  <2> QED BY <1>6, <2>13, <2>14, <2>17, CountedIsNext DEF CountInv
<1> QED BY <1>7, <1>8

LEMMA CommandsStep ==
  ASSUME CountInv, Commands
  PROVE  CountInv'
<1>1. PICK c : c = Head(commands)
  OBVIOUS
<1>2. \E type : Handle(type) /\ type \in {"subscribe", "unsubscribe", "refresh", "shutdown"}
  BY DEF Commands, HandleSubscribe, HandleUnsubscribe, HandleRefresh, HandleShutdown
<1>3. /\ phase = "commands" /\ commands # <<>> /\ commands' = Tail(commands)
      /\ UNCHANGED <<made, requests, updates, saved>>
  BY <1>2 DEF Handle
<1>4. commands \in Seq(FrontEndCommand)
  BY DEF CountInv, TypeOK
<1>5. c \in FrontEndCommand /\ commands' \in Seq(FrontEndCommand)
  BY <1>1, <1>3, <1>4
<1>6. CASE HandleSubscribe
  <2>1. c.t = "subscribe" /\ Leave(c.ch) /\ channels' = [channels EXCEPT ![c.ch] = [src |-> c.src, remote |-> None]]
        /\ dirty' = TRUE /\ phase' = "commands"
    BY <1>1, <1>3, <1>6 DEF HandleSubscribe, Handle
  <2>2. c.ch \in Channels /\ c.src \in Sources
    BY <1>5, <2>1 DEF FrontEndCommand
  <2>3. PICK s : s = [src |-> c.src, remote |-> None]
    OBVIOUS
  <2>4. s \in Subscription /\ s.remote = None
    BY <2>2, <2>3 DEF Subscription
  <2> QED BY <1>3, <1>5, <2>1, <2>2, <2>3, <2>4, ChannelLeaves
<1>7. CASE HandleUnsubscribe
  <2>1. c.t = "unsubscribe" /\ Leave(c.ch) /\ channels' = [channels EXCEPT ![c.ch] = None]
        /\ dirty' = TRUE /\ phase' = "commands"
    BY <1>1, <1>3, <1>7 DEF HandleUnsubscribe, Handle
  <2>2. c.ch \in Channels
    BY <1>5, <2>1 DEF FrontEndCommand
  <2> QED BY <1>3, <1>5, <2>1, <2>2, ChannelLeaves
<1>8. CASE HandleRefresh \/ HandleShutdown
  <2>1. UNCHANGED <<channels, flows>> /\ dirty' \in BOOLEAN /\ phase' \in {"commands", "ended"}
    BY <1>3, <1>8 DEF HandleRefresh, HandleShutdown, CountInv, TypeOK
  <2>2. TypeOK'
    BY <1>3, <1>5, <2>1 DEF CountInv, TypeOK
  <2> QED BY <2>1, <2>2, Alike, QuietStep
<1> QED BY <1>6, <1>7, <1>8 DEF Commands

(***************************************************************************)
(* Requests                                                                *)
(***************************************************************************)

\* The first request for a key is taken; its updates may be sent back.
LEMMA Moved ==
  ASSUME CountInv, NEW k \in Keys, requests[k] # <<>>, requests' = [requests EXCEPT ![k] = Tail(@)]
  PROVE  /\ 1 \in DOMAIN requests[k] /\ Head(requests[k]) = requests[k][1] /\ requests[k][1] \in Request
         /\ requests' \in [Keys -> Seq(Request)]
         /\ \A l \in Keys \ {k} : requests'[l] = requests[l]
         /\ \A j \in DOMAIN requests'[k] : /\ j + 1 \in DOMAIN requests[k] /\ j + 1 # 1 /\ j \in Nat
                                           /\ requests'[k][j] = requests[k][j + 1]
<1>1. requests \in [Keys -> Seq(Request)] /\ requests[k] \in Seq(Request)
  BY DEF CountInv, TypeOK
<1>2. PICK q : q = requests[k]
  OBVIOUS
<1>3. PICK r : r = Tail(q)
  OBVIOUS
<1>4. q \in Seq(Request) /\ q # <<>>
  BY <1>1, <1>2
<1>5. /\ Len(q) \in Nat \ {0} /\ Head(q) = q[1] /\ r \in Seq(Request) /\ DOMAIN q = 1 .. Len(q) /\ DOMAIN r = 1 .. Len(q) - 1
      /\ \A j \in 1 .. Len(q) - 1 : r[j] = q[j + 1]
  BY <1>3, <1>4, HeadTailProperties
<1>6. requests' = [requests EXCEPT ![k] = r]
  BY <1>2, <1>3
<1>7. requests' \in [Keys -> Seq(Request)] /\ requests'[k] = r /\ \A l \in Keys \ {k} : requests'[l] = requests[l]
  BY <1>1, <1>5, <1>6
<1>8. 1 \in DOMAIN q /\ q[1] \in Request
  BY <1>4, <1>5
<1>9. \A j \in DOMAIN r : j + 1 \in DOMAIN q /\ j + 1 # 1 /\ j \in Nat /\ r[j] = q[j + 1]
  BY <1>5
<1> QED BY <1>2, <1>5, <1>7, <1>8, <1>9

\* Where a request was before
Before(k, l, j) == IF l = k THEN j + 1 ELSE j

LEMMA MovedFrom ==
  ASSUME CountInv, NEW k \in Keys, requests[k] # <<>>, requests' = [requests EXCEPT ![k] = Tail(@)]
  PROVE  /\ \A l \in Keys : \A j \in DOMAIN requests'[l] :
              /\ Before(k, l, j) \in DOMAIN requests[l] /\ requests'[l][j] = requests[l][Before(k, l, j)]
              /\ ~(l = k /\ Before(k, l, j) = 1)
         /\ \A l \in Keys : \A i, j \in DOMAIN requests'[l] : Before(k, l, i) = Before(k, l, j) => i = j
<1>1. \A l \in Keys : \A j \in DOMAIN requests'[l] :
              /\ Before(k, l, j) \in DOMAIN requests[l] /\ requests'[l][j] = requests[l][Before(k, l, j)]
              /\ ~(l = k /\ Before(k, l, j) = 1)
  BY Moved DEF Before
<1>2. ASSUME NEW l \in Keys, NEW i \in DOMAIN requests'[l], NEW j \in DOMAIN requests'[l],
             Before(k, l, i) = Before(k, l, j)
      PROVE  i = j
  <2>1. CASE l = k
    <3>1. i \in Nat /\ j \in Nat /\ i + 1 = j + 1
      BY <1>2, <2>1, Moved DEF Before
    <3> QED BY <3>1
  <2>2. CASE l # k
    BY <1>2, <2>2 DEF Before
  <2> QED BY <2>1, <2>2
<1> QED BY <1>1, <1>2

\* What is left of the requests fits as before.
LEMMA RestFits ==
  ASSUME CountInv, phase = "requests", NEW k \in Keys, requests[k] # <<>>, requests' = [requests EXCEPT ![k] = Tail(@)],
         UNCHANGED <<channels, updates>>, \A f \in Indices : flows'[f] = None => flows[f] = None \/ (requests[k][1].flow = f /\ requests[k][1].t = "create")
  PROVE  UpdatesFit' /\ RequestsFit' /\ NewIsUnused' /\ OneUpdateEach'
<1>m. /\ \A l \in Keys : \A j \in DOMAIN requests'[l] :
           /\ Before(k, l, j) \in DOMAIN requests[l] /\ requests'[l][j] = requests[l][Before(k, l, j)]
           /\ ~(l = k /\ Before(k, l, j) = 1)
      /\ \A l \in Keys : \A i, j \in DOMAIN requests'[l] : Before(k, l, i) = Before(k, l, j) => i = j
  BY MovedFrom
<1>1. UpdatesFit /\ RequestsFit /\ NewIsUnused /\ OneUpdateEach
  BY DEF CountInv, PlanFits
<1>2. Needed' = Needed /\ \A ch : Connected(ch)' <=> Connected(ch)
  BY DEF Needed, Connected, Subscribed
<1>3. 1 \in DOMAIN requests[k]
  BY Moved
<1>4. UpdatesFit'
  <2> SUFFICES ASSUME NEW i \in DOMAIN updates, NEW u \in updates[i] PROVE u.chs \subseteq Needed /\ flows'[u.flow] # None
    BY <1>2 DEF UpdatesFit
  <2>1. u.flow \in Indices
    BY DEF CountInv, TypeOK, ChannelSourceUpdate
  <2>2. u.chs \subseteq Needed /\ flows[u.flow] # None
    BY <1>1 DEF UpdatesFit
  <2>3. requests[k][1].t = "create" => requests[k][1].flow # u.flow
    BY <1>1, <1>3 DEF NewIsUnused
  <2> QED BY <2>1, <2>2, <2>3
<1>5. RequestsFit'
  <2> SUFFICES ASSUME NEW l \in Keys, NEW j \in DOMAIN requests'[l]
               PROVE  /\ flows'[requests'[l][j].flow] # None
                      /\ \A u \in requests'[l][j].updates : u.chs \subseteq Needed /\ u.flow = requests'[l][j].flow
    BY <1>2 DEF RequestsFit
  <2>1. PICK i : i = Before(k, l, j)
    OBVIOUS
  <2>2. i \in DOMAIN requests[l] /\ requests'[l][j] = requests[l][i] /\ ~(l = k /\ i = 1)
    BY <2>1, <1>m
  <2>3. requests[l][i].flow \in Indices
    BY <2>2 DEF CountInv, TypeOK, Request
  <2>4. requests[k][1].t = "create" => requests[l][i].flow # requests[k][1].flow
    BY <1>1, <1>3, <2>2 DEF NewIsUnused
  <2> QED BY <1>1, <2>2, <2>3, <2>4 DEF RequestsFit
<1>6. NewIsUnused'
  <2> SUFFICES ASSUME NEW l \in Keys, NEW j \in DOMAIN requests'[l], requests'[l][j].t = "create"
               PROVE  LET f == requests'[l][j].flow
                      IN  /\ \A ch \in Channels : Connected(ch) => channels[ch].remote.flow # f
                          /\ \A i \in DOMAIN updates : \A u \in updates[i] : u.flow # f
                          /\ \A m \in Keys : \A i \in DOMAIN requests'[m] : requests'[m][i].flow = f => m = l /\ i = j
    BY <1>2 DEF NewIsUnused
  <2>1. PICK n : n = Before(k, l, j)
    OBVIOUS
  <2>2. n \in DOMAIN requests[l] /\ requests'[l][j] = requests[l][n]
    BY <2>1, <1>m
  <2>3. PICK f : f = requests[l][n].flow
    OBVIOUS
  <2>4. /\ \A ch \in Channels : Connected(ch) => channels[ch].remote.flow # f
        /\ \A i \in DOMAIN updates : \A u \in updates[i] : u.flow # f
        /\ \A m \in Keys : \A i \in DOMAIN requests[m] : requests[m][i].flow = f => m = l /\ i = n
    BY <1>1, <2>2, <2>3 DEF NewIsUnused
  <2>5. ASSUME NEW m \in Keys, NEW i \in DOMAIN requests'[m], requests'[m][i].flow = f PROVE m = l /\ i = j
    <3>1. Before(k, m, i) \in DOMAIN requests[m] /\ requests'[m][i] = requests[m][Before(k, m, i)]
      BY <1>m
    <3>2. m = l /\ Before(k, m, i) = n
      BY <2>4, <2>5, <3>1
    <3> QED BY <2>1, <3>2, <1>m
  <2> QED BY <2>2, <2>3, <2>4, <2>5
<1>7. OneUpdateEach'
  <2>1. \A i, j \in DOMAIN updates : \A u \in updates[i], v \in updates[j] : u.chs \cap v.chs # {} => i = j /\ u = v
    BY <1>1 DEF OneUpdateEach
  <2>2. ASSUME NEW i \in DOMAIN updates, NEW u \in updates[i], NEW l \in Keys, NEW j \in DOMAIN requests'[l],
               NEW v \in requests'[l][j].updates
        PROVE  u.chs \cap v.chs = {}
    <3>1. Before(k, l, j) \in DOMAIN requests[l] /\ requests'[l][j] = requests[l][Before(k, l, j)]
      BY <1>m
    <3> QED BY <1>1, <3>1 DEF OneUpdateEach
  <2>3. ASSUME NEW l \in Keys, NEW m \in Keys, NEW i \in DOMAIN requests'[l], NEW j \in DOMAIN requests'[m],
               NEW u \in requests'[l][i].updates, NEW v \in requests'[m][j].updates, u.chs \cap v.chs # {}
        PROVE  l = m /\ i = j /\ u = v
    <3>1. PICK a, b : a = Before(k, l, i) /\ b = Before(k, m, j)
      OBVIOUS
    <3>2. /\ a \in DOMAIN requests[l] /\ requests'[l][i] = requests[l][a]
          /\ b \in DOMAIN requests[m] /\ requests'[m][j] = requests[m][b]
      BY <3>1, <1>m
    <3>3. l = m /\ a = b /\ u = v
      BY <1>1, <2>3, <3>2 DEF OneUpdateEach
    <3> QED BY <3>1, <3>3, <1>m
  <2> QED BY <2>1, <2>2, <2>3 DEF OneUpdateEach
<1> QED BY <1>4, <1>5, <1>6, <1>7

\* So is everything when the updates of the request are sent back.
LEMMA SentBackFits ==
  ASSUME CountInv, phase = "requests", NEW k \in Keys, requests[k] # <<>>, requests' = [requests EXCEPT ![k] = Tail(@)],
         updates' = Append(updates, Head(requests[k]).updates), UNCHANGED channels, FlowsAlike
  PROVE  UpdatesFit' /\ RequestsFit' /\ NewIsUnused' /\ OneUpdateEach' /\ updates' \in Seq(SUBSET ChannelSourceUpdate)
<1>m. /\ \A l \in Keys : \A j \in DOMAIN requests'[l] :
           /\ Before(k, l, j) \in DOMAIN requests[l] /\ requests'[l][j] = requests[l][Before(k, l, j)]
           /\ ~(l = k /\ Before(k, l, j) = 1)
      /\ \A l \in Keys : \A i, j \in DOMAIN requests'[l] : Before(k, l, i) = Before(k, l, j) => i = j
  BY MovedFrom
<1>1. UpdatesFit /\ RequestsFit /\ NewIsUnused /\ OneUpdateEach
  BY DEF CountInv, PlanFits
<1>2. Needed' = Needed /\ \A ch : Connected(ch)' <=> Connected(ch)
  BY DEF Needed, Connected, Subscribed
<1>3. PICK r : r = requests[k][1]
  OBVIOUS
<1>4. 1 \in DOMAIN requests[k] /\ Head(requests[k]) = r /\ r \in Request
  BY <1>3, Moved
<1>5. /\ flows[r.flow] # None /\ \A u \in r.updates : u.chs \subseteq Needed /\ u.flow = r.flow
      /\ r.flow \in Indices /\ r.updates \in SUBSET ChannelSourceUpdate
  BY <1>1, <1>3, <1>4 DEF RequestsFit, Request
<1>6. updates \in Seq(SUBSET ChannelSourceUpdate)
  BY DEF CountInv, TypeOK
<1>7. PICK n : n = Len(updates) + 1
  OBVIOUS
<1>8. /\ updates' \in Seq(SUBSET ChannelSourceUpdate)
      /\ \A i \in DOMAIN updates' : \/ i \in DOMAIN updates /\ updates'[i] = updates[i]
                                    \/ i = n /\ updates'[i] = r.updates
  BY <1>4, <1>5, <1>6, <1>7
<1>9. \A i \in DOMAIN updates : \A u \in updates[i] : u.flow \in Indices
  BY <1>6 DEF ChannelSourceUpdate
<1>10. UpdatesFit'
  <2> SUFFICES ASSUME NEW i \in DOMAIN updates', NEW u \in updates'[i] PROVE u.chs \subseteq Needed /\ flows'[u.flow] # None
    BY <1>2 DEF UpdatesFit
  <2>1. CASE i \in DOMAIN updates /\ updates'[i] = updates[i]
    <3>1. u \in updates[i]
      BY <2>1
    <3> QED BY <1>1, <1>9, <2>1, <3>1 DEF UpdatesFit, FlowsAlike
  <2>2. CASE updates'[i] = r.updates
    BY <1>5, <2>2 DEF FlowsAlike
  <2> QED BY <1>8, <2>1, <2>2
<1>11. RequestsFit'
  <2> SUFFICES ASSUME NEW l \in Keys, NEW j \in DOMAIN requests'[l]
               PROVE  /\ flows'[requests'[l][j].flow] # None
                      /\ \A u \in requests'[l][j].updates : u.chs \subseteq Needed /\ u.flow = requests'[l][j].flow
    BY <1>2 DEF RequestsFit
  <2>1. PICK i : i = Before(k, l, j)
    OBVIOUS
  <2>2. i \in DOMAIN requests[l] /\ requests'[l][j] = requests[l][i]
    BY <1>m, <2>1
  <2>3. requests[l][i].flow \in Indices
    BY <2>2 DEF CountInv, TypeOK, Request
  <2> QED BY <1>1, <2>2, <2>3 DEF RequestsFit, FlowsAlike
<1>12. NewIsUnused'
  <2> SUFFICES ASSUME NEW l \in Keys, NEW j \in DOMAIN requests'[l], requests'[l][j].t = "create"
               PROVE  LET f == requests'[l][j].flow
                      IN  /\ \A ch \in Channels : Connected(ch) => channels[ch].remote.flow # f
                          /\ \A i \in DOMAIN updates' : \A u \in updates'[i] : u.flow # f
                          /\ \A m \in Keys : \A i \in DOMAIN requests'[m] : requests'[m][i].flow = f => m = l /\ i = j
    BY <1>2 DEF NewIsUnused
  <2>1. PICK p : p = Before(k, l, j)
    OBVIOUS
  <2>2. p \in DOMAIN requests[l] /\ requests'[l][j] = requests[l][p] /\ ~(l = k /\ p = 1)
    BY <1>m, <2>1
  <2>3. PICK f : f = requests[l][p].flow
    OBVIOUS
  <2>4. /\ \A ch \in Channels : Connected(ch) => channels[ch].remote.flow # f
        /\ \A i \in DOMAIN updates : \A u \in updates[i] : u.flow # f
        /\ \A m \in Keys : \A i \in DOMAIN requests[m] : requests[m][i].flow = f => m = l /\ i = p
    BY <1>1, <2>2, <2>3 DEF NewIsUnused
  <2>5. ASSUME NEW m \in Keys, NEW i \in DOMAIN requests'[m], requests'[m][i].flow = f PROVE m = l /\ i = j
    <3>1. Before(k, m, i) \in DOMAIN requests[m] /\ requests'[m][i] = requests[m][Before(k, m, i)]
      BY <1>m
    <3>2. m = l /\ Before(k, m, i) = p
      BY <2>4, <2>5, <3>1
    <3> QED BY <1>m, <2>1, <3>2
  <2>6. r.flow # f
    BY <1>3, <1>4, <2>2, <2>4
  <2>7. \A i \in DOMAIN updates' : \A u \in updates'[i] : u.flow # f
    BY <1>5, <1>8, <2>4, <2>6
  <2> QED BY <2>2, <2>3, <2>4, <2>5, <2>7
<1>13. OneUpdateEach'
  <2>0. \A i \in DOMAIN updates : \A u \in updates[i], v \in r.updates : u.chs \cap v.chs = {}
    BY <1>1, <1>3, <1>4 DEF OneUpdateEach
  <2>1. ASSUME NEW i \in DOMAIN updates', NEW j \in DOMAIN updates', NEW u \in updates'[i], NEW v \in updates'[j],
               u.chs \cap v.chs # {}
        PROVE  i = j /\ u = v
    <3>1. CASE i \in DOMAIN updates /\ updates'[i] = updates[i] /\ j \in DOMAIN updates /\ updates'[j] = updates[j]
      <4>1. u \in updates[i] /\ v \in updates[j]
        BY <3>1
      <4> QED BY <1>1, <2>1, <3>1, <4>1 DEF OneUpdateEach
    <3>2. CASE i = n /\ updates'[i] = r.updates /\ j = n
      <4>1. u \in requests[k][1].updates /\ v \in requests[k][1].updates
        BY <1>3, <3>2
      <4> QED BY <1>1, <1>4, <2>1, <3>2, <4>1 DEF OneUpdateEach
    <3>3. CASE i \in DOMAIN updates /\ updates'[i] = updates[i] /\ updates'[j] = r.updates
      <4>1. u.chs \cap v.chs = {}
        BY <2>0, <3>3
      <4> QED BY <2>1, <4>1
    <3>4. CASE updates'[i] = r.updates /\ j \in DOMAIN updates /\ updates'[j] = updates[j]
      <4>1. v.chs \cap u.chs = {}
        BY <2>0, <3>4
      <4> QED BY <2>1, <4>1
    <3> QED BY <1>8, <3>1, <3>2, <3>3, <3>4
  <2>2. ASSUME NEW i \in DOMAIN updates', NEW u \in updates'[i], NEW l \in Keys, NEW j \in DOMAIN requests'[l],
               NEW v \in requests'[l][j].updates
        PROVE  u.chs \cap v.chs = {}
    <3>0. PICK b : b = Before(k, l, j)
      OBVIOUS
    <3>1. b \in DOMAIN requests[l] /\ requests'[l][j] = requests[l][b] /\ ~(l = k /\ b = 1)
      BY <1>m, <3>0
    <3>2. CASE i \in DOMAIN updates /\ updates'[i] = updates[i]
      <4>1. u \in updates[i] /\ v \in requests[l][b].updates
        BY <3>1, <3>2
      <4> QED BY <1>1, <3>1, <3>2, <4>1 DEF OneUpdateEach
    <3>3. CASE updates'[i] = r.updates
      <4>1. u \in requests[k][1].updates /\ v \in requests[l][b].updates
        BY <1>3, <3>1, <3>3
      <4> QED BY <1>1, <1>4, <3>1, <4>1 DEF OneUpdateEach
    <3> QED BY <1>8, <3>2, <3>3
  <2>3. ASSUME NEW l \in Keys, NEW m \in Keys, NEW i \in DOMAIN requests'[l], NEW j \in DOMAIN requests'[m],
               NEW u \in requests'[l][i].updates, NEW v \in requests'[m][j].updates, u.chs \cap v.chs # {}
        PROVE  l = m /\ i = j /\ u = v
    <3>1. PICK a, b : a = Before(k, l, i) /\ b = Before(k, m, j)
      OBVIOUS
    <3>2. /\ a \in DOMAIN requests[l] /\ requests'[l][i] = requests[l][a]
          /\ b \in DOMAIN requests[m] /\ requests'[m][j] = requests[m][b]
      BY <1>m, <3>1
    <3>3. l = m /\ a = b /\ u = v
      BY <1>1, <2>3, <3>2 DEF OneUpdateEach
    <3> QED BY <1>m, <3>1, <3>3
  <2> QED BY <2>1, <2>2, <2>3 DEF OneUpdateEach
<1> QED BY <1>8, <1>10, <1>11, <1>12, <1>13

\* The updates of a request are sent back.
LEMMA SendsBack ==
  ASSUME CountInv, NEW k \in Keys, requests[k] # <<>>, requests' = [requests EXCEPT ![k] = Tail(@)],
         phase = "requests", SendBack(k), FlowsAlike, flows' \in [Indices -> {None} \cup Flow],
         UNCHANGED <<commands, phase, dirty, channels, made, saved>>
  PROVE  CountInv'
<1>1. requests' \in [Keys -> Seq(Request)]
  BY Moved
<1>2. UpdatesFit' /\ RequestsFit' /\ NewIsUnused' /\ OneUpdateEach' /\ updates' \in Seq(SUBSET ChannelSourceUpdate)
  BY SentBackFits DEF SendBack
<1>3. TypeOK'
  BY <1>1, <1>2 DEF CountInv, TypeOK
<1>4. RefcountExact' /\ OneBundle'
  BY StaysCounted
<1> QED BY <1>2, <1>3, <1>4 DEF CountInv, PlanFits

\* A request has failed: a flow that it was to make is given up.
LEMMA GivesUp ==
  ASSUME CountInv, NEW k \in Keys, requests[k] # <<>>, requests' = [requests EXCEPT ![k] = Tail(@)],
         phase = "requests",
         \/ UNCHANGED flows
         \/ Head(requests[k]).t = "create" /\ flows' = [flows EXCEPT ![Head(requests[k]).flow] = None],
         UNCHANGED <<commands, phase, dirty, channels, made, saved, updates>>
  PROVE  CountInv'
<1>1. PICK r : r = requests[k][1]
  OBVIOUS
<1>2. 1 \in DOMAIN requests[k] /\ Head(requests[k]) = r /\ r \in Request /\ requests' \in [Keys -> Seq(Request)]
  BY <1>1, Moved
<1>3. r.flow \in Indices /\ flows \in [Indices -> {None} \cup Flow]
  BY <1>2 DEF Request, CountInv, TypeOK
<1>4. /\ flows' \in [Indices -> {None} \cup Flow] /\ \A h \in Indices \ {r.flow} : flows'[h] = flows[h]
      /\ flows'[r.flow] = flows[r.flow] \/ (flows'[r.flow] = None /\ r.t = "create")
  BY <1>2, <1>3
<1>5. \A f \in Indices : flows'[f] = None => flows[f] = None \/ (requests[k][1].flow = f /\ requests[k][1].t = "create")
  <2> SUFFICES ASSUME NEW f \in Indices, flows'[f] = None, flows[f] # None PROVE r.flow = f /\ r.t = "create"
    BY <1>1
  <2>1. f = r.flow
    BY <1>4
  <2> QED BY <1>4, <2>1
<1>6. UpdatesFit' /\ RequestsFit' /\ NewIsUnused' /\ OneUpdateEach'
  BY <1>5, RestFits
<1>7. TypeOK'
  BY <1>2, <1>4 DEF CountInv, TypeOK
<1>8. OneBundle'
  <2>1. \A h \in Indices : flows'[h] # None => flows[h] # None /\ flows'[h].kind = flows[h].kind /\ flows'[h].server = flows[h].server
    BY <1>4
  <2> QED BY <2>1, BundlesKept DEF CountInv
<1>9. \A ch : Connected(ch)' <=> Connected(ch)
  BY DEF Connected, Subscribed
<1>10. \A f, i : Joined(f, i)' = Joined(f, i)
  BY <1>9 DEF Joined
<1>11. Counted
  BY CountedIs DEF CountInv
<1>12. ASSUME NEW ch \in Channels, Connected(ch) PROVE flows'[channels[ch].remote.flow] # None
  <2>1. channels[ch].remote.flow \in Indices /\ flows[channels[ch].remote.flow] # None
    BY <1>11, <1>12, SubscriptionIs DEF Counted, CountInv, TypeOK
  <2>2. NewIsUnused
    BY DEF CountInv, PlanFits
  <2>3. r.t = "create" => channels[ch].remote.flow # r.flow
    BY <1>1, <1>2, <1>12, <2>2 DEF NewIsUnused
  <2> QED BY <1>4, <2>1, <2>3
<1>13. \A f \in Indices : flows'[f] # None => \A i \in Slots : flows'[f].refcount[i] = Cardinality(Joined(f, i)')
  BY <1>4, <1>10, <1>11 DEF Counted
<1>14. Counted'
  BY <1>9, <1>12, <1>13 DEF Counted
<1> QED BY <1>6, <1>7, <1>8, <1>14, CountedIsNext DEF CountInv, PlanFits

LEMMA RequestsStep ==
  ASSUME CountInv, Requests
  PROVE  CountInv'
<1>1. PICK k \in Keys : \/ JoinBundle(k) \/ FlowGranted(k) \/ FlowRefused(k) \/ FlowWithoutSocket(k)
                        \/ FlowUpdated(k) \/ FlowNotUpdated(k)
  BY DEF Requests
<1>2. /\ phase = "requests" /\ requests[k] # <<>> /\ requests' = [requests EXCEPT ![k] = Tail(@)]
      /\ UNCHANGED <<commands, dirty, channels, made, saved>>
  BY <1>1 DEF JoinBundle, FlowGranted, FlowRefused, FlowWithoutSocket, FlowUpdated, FlowNotUpdated, Running, front
<1>3. flows \in [Indices -> {None} \cup Flow]
  BY DEF CountInv, TypeOK
<1>4. CASE JoinBundle(k) \/ FlowUpdated(k)
  <2>1. UNCHANGED <<phase, flows>> /\ SendBack(k)
    BY <1>4 DEF JoinBundle, FlowUpdated
  <2> QED BY <1>2, <1>3, <2>1, Alike, SendsBack
<1>5. CASE FlowGranted(k)
  <2>1. PICK f, g : f = Head(requests[k]).flow /\ g = [flows[f] EXCEPT !.handle = TRUE]
    OBVIOUS
  <2>2. flows' = [flows EXCEPT ![f] = g] /\ UNCHANGED phase /\ SendBack(k)
    BY <1>5, <2>1 DEF FlowGranted
  <2>3. PICK r : r = requests[k][1]
    OBVIOUS
  <2>4. 1 \in DOMAIN requests[k] /\ Head(requests[k]) = r /\ r \in Request
    BY <1>2, <2>3, Moved
  <2>5. RequestsFit
    BY <1>2 DEF CountInv, PlanFits
  <2>6. f \in Indices /\ flows[f] # None
    BY <2>1, <2>3, <2>4, <2>5 DEF RequestsFit, Request
  <2>7. flows[f] \in Flow
    BY <1>3, <2>6
  <2>8. g \in Flow /\ g.refcount = flows[f].refcount /\ g.kind = flows[f].kind /\ g.server = flows[f].server
    BY <2>1, <2>7 DEF Flow
  <2>9. g # None
    BY <2>8, NoneAssumption
  <2>10. flows' \in [Indices -> {None} \cup Flow] /\ flows'[f] = g /\ \A h \in Indices \ {f} : flows'[h] = flows[h]
    BY <1>3, <2>2, <2>6, <2>8
  <2>11. FlowsAlike
    BY <2>6, <2>8, <2>9, <2>10 DEF FlowsAlike
  <2> QED BY <1>2, <2>2, <2>10, <2>11, SendsBack
<1>6. CASE FlowRefused(k)
  <2>1. CASE UNCHANGED phase
    <3>1. Head(requests[k]).t = "create" /\ UNCHANGED updates
          /\ (UNCHANGED flows \/ flows' = [flows EXCEPT ![Head(requests[k]).flow] = None])
      BY <1>6 DEF FlowRefused, Running
    <3> QED BY <1>2, <2>1, <3>1, GivesUp
  <2>2. CASE phase' # phase
    <3>1. phase' = "panicked" /\ UNCHANGED <<flows, updates>>
      BY <1>6, <2>2 DEF FlowRefused
    <3>2. requests' \in [Keys -> Seq(Request)]
      BY <1>2, Moved
    <3>3. TypeOK'
      BY <1>2, <3>1, <3>2 DEF CountInv, TypeOK
    <3> QED BY <1>2, <3>1, <3>3, Alike, QuietStep
  <2> QED BY <2>1, <2>2
<1>7. CASE FlowWithoutSocket(k)
  <2>1. Head(requests[k]).t = "create" /\ UNCHANGED <<phase, updates>> /\ flows' = [flows EXCEPT ![Head(requests[k]).flow] = None]
    BY <1>7 DEF FlowWithoutSocket, Running
  <2> QED BY <1>2, <2>1, GivesUp
<1>8. CASE FlowNotUpdated(k)
  <2>1. UNCHANGED <<phase, flows, updates>>
    BY <1>8 DEF FlowNotUpdated
  <2> QED BY <1>2, <2>1, GivesUp
<1> QED BY <1>1, <1>4, <1>5, <1>6, <1>7, <1>8

(***************************************************************************)
(* The updates that come back                                              *)
(***************************************************************************)

LEMMA BatchTaken ==
  ASSUME CountInv, updates # <<>>, updates' = Tail(updates)
  PROVE  /\ 1 \in DOMAIN updates /\ Head(updates) = updates[1] /\ updates[1] \in SUBSET ChannelSourceUpdate
         /\ updates' \in Seq(SUBSET ChannelSourceUpdate)
         /\ \A j \in DOMAIN updates' : j + 1 \in DOMAIN updates /\ j + 1 # 1 /\ j \in Nat /\ updates'[j] = updates[j + 1]
<1>1. updates \in Seq(SUBSET ChannelSourceUpdate)
  BY DEF CountInv, TypeOK
<1>5. /\ Len(updates) \in Nat \ {0} /\ Head(updates) = updates[1] /\ updates' \in Seq(SUBSET ChannelSourceUpdate)
      /\ DOMAIN updates = 1 .. Len(updates) /\ DOMAIN updates' = 1 .. Len(updates) - 1
      /\ \A j \in 1 .. Len(updates) - 1 : updates'[j] = updates[j + 1]
  BY <1>1, HeadTailProperties
<1> QED BY <1>1, <1>5

\* The other updates still fit when channels that none of them is for are connected to
\* flows that are not being made.
LEMMA BatchFits ==
  ASSUME CountInv, phase = "requests", updates # <<>>, updates' = Tail(updates), UNCHANGED requests,
         \A f \in Indices : flows[f] # None => flows'[f] # None,
         NEW us \in SUBSET updates[1],
         Needed' = Needed \ UNION {u.chs : u \in us},
         \A ch \in Channels : Connected(ch)' => \/ Connected(ch) /\ channels'[ch].remote.flow = channels[ch].remote.flow
                                                \/ \E u \in us : channels'[ch].remote.flow = u.flow
  PROVE  UpdatesFit' /\ RequestsFit' /\ NewIsUnused' /\ OneUpdateEach'
<1>m. /\ 1 \in DOMAIN updates /\ updates[1] \in SUBSET ChannelSourceUpdate
      /\ \A j \in DOMAIN updates' : j + 1 \in DOMAIN updates /\ j + 1 # 1 /\ j \in Nat /\ updates'[j] = updates[j + 1]
  BY BatchTaken
<1>1. UpdatesFit /\ RequestsFit /\ NewIsUnused /\ OneUpdateEach
  BY DEF CountInv, PlanFits
<1>2. updates \in Seq(SUBSET ChannelSourceUpdate) /\ requests \in [Keys -> Seq(Request)]
  BY DEF CountInv, TypeOK
<1>3. UpdatesFit'
  <2> SUFFICES ASSUME NEW i \in DOMAIN updates', NEW v \in updates'[i] PROVE v.chs \subseteq Needed' /\ flows'[v.flow] # None
    BY DEF UpdatesFit
  <2>1. PICK n : n = i + 1
    OBVIOUS
  <2>2. n \in DOMAIN updates /\ n # 1 /\ v \in updates[n]
    BY <1>m, <2>1
  <2>3. v.chs \subseteq Needed /\ flows[v.flow] # None
    BY <1>1, <2>2 DEF UpdatesFit
  <2>4. v.flow \in Indices
    BY <1>2, <2>2 DEF ChannelSourceUpdate
  <2>5. \A u \in us : u.chs \cap v.chs = {}
    BY <1>1, <1>m, <2>2 DEF OneUpdateEach
  <2> QED BY <2>3, <2>4, <2>5
<1>4. RequestsFit'
  <2> SUFFICES ASSUME NEW l \in Keys, NEW j \in DOMAIN requests[l]
               PROVE  /\ flows'[requests[l][j].flow] # None
                      /\ \A v \in requests[l][j].updates : v.chs \subseteq Needed' /\ v.flow = requests[l][j].flow
    BY DEF RequestsFit
  <2>1. /\ flows[requests[l][j].flow] # None
        /\ \A v \in requests[l][j].updates : v.chs \subseteq Needed /\ v.flow = requests[l][j].flow
    BY <1>1 DEF RequestsFit
  <2>2. requests[l][j].flow \in Indices
    BY <1>2 DEF Request
  <2>3. \A v \in requests[l][j].updates : \A u \in us : u.chs \cap v.chs = {}
    BY <1>1, <1>m DEF OneUpdateEach
  <2> QED BY <2>1, <2>2, <2>3
<1>5. NewIsUnused'
  <2> SUFFICES ASSUME NEW l \in Keys, NEW j \in DOMAIN requests[l], requests[l][j].t = "create"
               PROVE  LET f == requests[l][j].flow
                      IN  /\ \A ch \in Channels : Connected(ch)' => channels'[ch].remote.flow # f
                          /\ \A i \in DOMAIN updates' : \A u \in updates'[i] : u.flow # f
                          /\ \A m \in Keys : \A i \in DOMAIN requests[m] : requests[m][i].flow = f => m = l /\ i = j
    BY DEF NewIsUnused
  <2>1. PICK f : f = requests[l][j].flow
    OBVIOUS
  <2>2. /\ \A ch \in Channels : Connected(ch) => channels[ch].remote.flow # f
        /\ \A i \in DOMAIN updates : \A u \in updates[i] : u.flow # f
        /\ \A m \in Keys : \A i \in DOMAIN requests[m] : requests[m][i].flow = f => m = l /\ i = j
    BY <1>1, <2>1 DEF NewIsUnused
  <2>3. \A i \in DOMAIN updates' : \A u \in updates'[i] : u.flow # f
    BY <1>m, <2>2
  <2>4. \A u \in us : u.flow # f
    BY <1>m, <2>2
  <2>5. \A ch \in Channels : Connected(ch)' => channels'[ch].remote.flow # f
    BY <2>2, <2>4
  <2> QED BY <2>1, <2>2, <2>3, <2>5
<1>6. OneUpdateEach'
  <2>1. ASSUME NEW i \in DOMAIN updates', NEW j \in DOMAIN updates', NEW u \in updates'[i], NEW v \in updates'[j],
               u.chs \cap v.chs # {}
        PROVE  i = j /\ u = v
    <3>1. PICK a, b : a = i + 1 /\ b = j + 1
      OBVIOUS
    <3>2. a \in DOMAIN updates /\ b \in DOMAIN updates /\ u \in updates[a] /\ v \in updates[b] /\ i \in Nat /\ j \in Nat
      BY <1>m, <3>1
    <3>3. a = b /\ u = v
      BY <1>1, <2>1, <3>2 DEF OneUpdateEach
    <3> QED BY <3>1, <3>2, <3>3
  <2>2. ASSUME NEW i \in DOMAIN updates', NEW u \in updates'[i], NEW l \in Keys, NEW j \in DOMAIN requests[l],
               NEW v \in requests[l][j].updates
        PROVE  u.chs \cap v.chs = {}
    <3>1. PICK a : a = i + 1
      OBVIOUS
    <3>2. a \in DOMAIN updates /\ u \in updates[a]
      BY <1>m, <3>1
    <3> QED BY <1>1, <3>2 DEF OneUpdateEach
  <2>3. \A l, m \in Keys : \A i \in DOMAIN requests[l], j \in DOMAIN requests[m] :
          \A u \in requests[l][i].updates, v \in requests[m][j].updates :
            u.chs \cap v.chs # {} => l = m /\ i = j /\ u = v
    BY <1>1 DEF OneUpdateEach
  <2> QED BY <2>1, <2>2, <2>3 DEF OneUpdateEach
<1> QED BY <1>3, <1>4, <1>5, <1>6

LEMMA ForgetStep ==
  ASSUME CountInv, ForgetUpdates
  PROVE  CountInv'
<1>1. /\ phase = "requests" /\ updates # <<>> /\ updates' = Tail(updates)
      /\ UNCHANGED <<commands, phase, dirty, channels, flows, made, requests, saved>>
  BY DEF ForgetUpdates, Received, front
<1>2. Needed' = Needed /\ \A ch \in Channels : Connected(ch)' => Connected(ch)
  BY <1>1 DEF Needed, Connected, Subscribed
<1>3. PICK us \in SUBSET updates[1] : us = {}
  OBVIOUS
<1>4. Needed' = Needed \ UNION {u.chs : u \in us}
  BY <1>2, <1>3
<1>5. UpdatesFit' /\ RequestsFit' /\ NewIsUnused' /\ OneUpdateEach'
  BY <1>1, <1>2, <1>4, BatchFits
<1>6. TypeOK'
  BY <1>1, BatchTaken DEF CountInv, TypeOK
<1>7. RefcountExact' /\ OneBundle'
  BY <1>1, Alike, StaysCounted
<1> QED BY <1>5, <1>6, <1>7 DEF CountInv, PlanFits

\* What is done with the updates us of a batch
Applied(us) ==
  /\ us \in SUBSET updates[1] /\ us \in SUBSET ChannelSourceUpdate
  /\ \A u \in us : /\ u.chs \subseteq Needed /\ u.chs \subseteq Channels /\ u.flow \in Indices /\ flows[u.flow] # None
                   /\ u.slot \in Slots /\ u.src \in Sources
  /\ \A u, v \in us : u.chs \cap v.chs # {} => u = v
  /\ channels' \in [Channels -> {None} \cup Subscription]
  /\ \A u \in us : \A ch \in u.chs :
       /\ channels'[ch] \in Subscription /\ channels'[ch].src = channels[ch].src
       /\ channels'[ch].remote = [flow |-> u.flow, slot |-> u.slot]
       /\ channels'[ch].remote.flow = u.flow /\ channels'[ch].remote.slot = u.slot /\ Connected(ch)'
  /\ \A ch \in Channels : ch \notin UNION {u.chs : u \in us} => channels'[ch] = channels[ch]
  /\ flows' \in [Indices -> {None} \cup Flow]
  /\ \A f \in Indices :
       /\ (flows'[f] # None <=> flows[f] # None)
       /\ flows[f] # None => /\ flows'[f].kind = flows[f].kind /\ flows'[f].server = flows[f].server
                             /\ flows'[f].id = flows[f].id
                             /\ \A k \in Slots : flows'[f].refcount[k] = flows[f].refcount[k] + Cardinality(Joining(us, f, k))

LEMMA ApplyIs ==
  ASSUME CountInv, Received, NEW us, us = {u \in Head(updates) : u.slot \in Slots}, Apply(us)
  PROVE  Applied(us)
<1>1. /\ phase = "requests" /\ updates # <<>> /\ updates' = Tail(updates)
      /\ UNCHANGED <<commands, phase, dirty, made, requests, saved>>
  BY DEF Received, front
<1>2. us = {u \in Head(updates) : u.slot \in Slots}
  OBVIOUS
<1>3. Apply(us)
  OBVIOUS
<1>4. /\ 1 \in DOMAIN updates /\ us \in SUBSET updates[1] /\ us \in SUBSET ChannelSourceUpdate
      /\ updates' \in Seq(SUBSET ChannelSourceUpdate)
  BY <1>1, <1>2, BatchTaken
<1>5. UpdatesFit /\ OneUpdateEach
  BY <1>1 DEF CountInv, PlanFits
<1>6. /\ \A u \in us : u.chs \subseteq Needed /\ u.chs \subseteq Channels /\ u.flow \in Indices /\ flows[u.flow] # None
                       /\ u.slot \in Slots /\ u.src \in Sources
      /\ \A u, v \in us : u.chs \cap v.chs # {} => u = v
  <2>1. \A u \in us : u.chs \subseteq Needed /\ flows[u.flow] # None
    BY <1>4, <1>5 DEF UpdatesFit
  <2>2. \A u \in us : u.chs \subseteq Channels /\ u.flow \in Indices /\ u.slot \in Slots /\ u.src \in Sources
    BY <1>2, <1>4 DEF ChannelSourceUpdate
  <2>3. \A u, v \in us : u.chs \cap v.chs # {} => u = v
    BY <1>4, <1>5 DEF OneUpdateEach
  <2> QED BY <2>1, <2>2, <2>3
<1>7. channels \in [Channels -> {None} \cup Subscription] /\ flows \in [Indices -> {None} \cup Flow]
  BY DEF CountInv, TypeOK
<1>8. PICK chs : chs = UNION {u.chs : u \in us}
  OBVIOUS
<1>9. chs \subseteq Needed /\ chs \subseteq Channels
  BY <1>6, <1>8
<1>10. ASSUME NEW u \in us, NEW ch \in u.chs
       PROVE  channels'[ch] = [channels[ch] EXCEPT !.remote = [flow |-> u.flow, slot |-> u.slot]]
  <2>1. PICK w : w = CHOOSE v \in us : ch \in v.chs
    OBVIOUS
  <2>2. w \in us /\ ch \in w.chs
    BY <2>1
  <2>3. w = u
    BY <1>6, <2>2
  <2>4. ch \in Channels /\ ch \in chs
    BY <1>6, <1>8
  <2>5. channels'[ch] = [channels[ch] EXCEPT !.remote = [flow |-> w.flow, slot |-> w.slot]]
    BY <1>3, <1>8, <2>1, <2>4 DEF Apply
  <2> QED BY <2>3, <2>5
<1>11. \A ch \in Channels \ chs : channels'[ch] = channels[ch]
  BY <1>3, <1>8 DEF Apply
<1>12. ASSUME NEW u \in us, NEW ch \in u.chs
       PROVE  /\ channels'[ch] \in Subscription /\ channels'[ch].src = channels[ch].src /\ channels'[ch].remote \in Remote
              /\ channels'[ch].remote = [flow |-> u.flow, slot |-> u.slot]
              /\ channels'[ch].remote.flow = u.flow /\ channels'[ch].remote.slot = u.slot /\ Connected(ch)'
  <2>1. PICK r : r = [flow |-> u.flow, slot |-> u.slot]
    OBVIOUS
  <2>2. r \in Remote /\ r.flow = u.flow /\ r.slot = u.slot
    BY <1>6, <2>1 DEF Remote
  <2>3. ch \in Channels /\ ch \in Needed
    BY <1>6
  <2>4. channels[ch] \in Subscription
    BY <1>7, <2>3, SubscriptionIs DEF Needed
  <2>5. PICK s : s = [channels[ch] EXCEPT !.remote = r]
    OBVIOUS
  <2>6. s \in Subscription /\ s.remote = r /\ s.src = channels[ch].src
    BY <2>2, <2>4, <2>5 DEF Subscription
  <2>7. channels'[ch] = s
    BY <1>10, <2>1, <2>5
  <2>8. s # None /\ r # None
    BY <2>2, <2>6, NoneAssumption
  <2> QED BY <2>1, <2>2, <2>6, <2>7, <2>8 DEF Connected, Subscribed
<1>13. channels' \in [Channels -> {None} \cup Subscription]
  <2>1. DOMAIN channels' = Channels /\ channels' = [ch \in Channels |-> channels'[ch]]
    BY <1>3 DEF Apply
  <2>2. ASSUME NEW ch \in Channels PROVE channels'[ch] \in {None} \cup Subscription
    <3>1. CASE ch \in chs
      <4>1. PICK u \in us : ch \in u.chs
        BY <1>8, <3>1
      <4> QED BY <1>12, <4>1
    <3>2. CASE ch \notin chs
      BY <1>7, <1>11, <3>2
    <3> QED BY <3>1, <3>2
  <2> QED BY <2>1, <2>2
<1>14. ASSUME NEW f, NEW k PROVE Cardinality(Joining(us, f, k)) \in Nat
  <2>1. Joining(us, f, k) \in SUBSET Channels
    BY <1>6 DEF Joining, UpdatesOf
  <2> QED BY <2>1, FiniteChannels
<1>15. ASSUME NEW f \in Indices
       PROVE  /\ flows'[f] \in {None} \cup Flow /\ (flows'[f] # None <=> flows[f] # None)
              /\ flows[f] # None => /\ flows'[f].kind = flows[f].kind /\ flows'[f].server = flows[f].server
                                    /\ flows'[f].id = flows[f].id
                                    /\ \A k \in Slots : flows'[f].refcount[k] = flows[f].refcount[k] + Cardinality(Joining(us, f, k))
  <2>1. CASE \E u \in us : u.flow = f
    <3>1. flows[f] # None
      BY <1>6, <2>1
    <3>2. flows[f] \in Flow
      BY <1>7, <3>1
    <3>3. PICK tx : tx = [k \in Slots |-> IF UpdatesOf(us, f, k) = {} THEN flows[f].tx[k]
                                          ELSE (CHOOSE u \in UpdatesOf(us, f, k) : TRUE).src]
      OBVIOUS
    <3>4. PICK rc : rc = [k \in Slots |-> flows[f].refcount[k] + Cardinality(Joining(us, f, k))]
      OBVIOUS
    <3>5. PICK rb : rb = [k \in Slots |-> flows[f].rb[k] \/ UpdatesOf(us, f, k) # {}]
      OBVIOUS
    <3>6. PICK g : g = [flows[f] EXCEPT !.tx = tx, !.refcount = rc, !.rb = rb]
      OBVIOUS
    <3>7. flows'[f] = g
      BY <1>3, <2>1, <3>3, <3>4, <3>5, <3>6 DEF Apply
    <3>8. flows[f].tx \in [Slots -> Sources \cup {None}] /\ flows[f].refcount \in [Slots -> Nat] /\ flows[f].rb \in [Slots -> BOOLEAN]
      BY <3>2 DEF Flow
    <3>9. tx \in [Slots -> Sources \cup {None}]
      <4>1. ASSUME NEW k \in Slots, UpdatesOf(us, f, k) # {}
            PROVE  (CHOOSE u \in UpdatesOf(us, f, k) : TRUE).src \in Sources
        <5>1. PICK w : w = CHOOSE u \in UpdatesOf(us, f, k) : TRUE
          OBVIOUS
        <5>2. w \in UpdatesOf(us, f, k)
          BY <4>1, <5>1
        <5> QED BY <1>6, <5>1, <5>2 DEF UpdatesOf
      <4> QED BY <3>3, <3>8, <4>1
    <3>10. rc \in [Slots -> Nat]
      BY <1>14, <3>4, <3>8
    <3>11. rb \in [Slots -> BOOLEAN]
      BY <3>5, <3>8
    <3>12. g \in Flow /\ g.refcount = rc /\ g.kind = flows[f].kind /\ g.server = flows[f].server /\ g.id = flows[f].id
      BY <3>2, <3>6, <3>9, <3>10, <3>11 DEF Flow
    <3>13. g # None
      BY <3>12, NoneAssumption
    <3> QED BY <3>1, <3>4, <3>7, <3>12, <3>13
  <2>2. CASE ~\E u \in us : u.flow = f
    <3>1. flows'[f] = flows[f]
      BY <1>3, <2>2 DEF Apply
    <3>2. \A k : Cardinality(Joining(us, f, k)) = 0
      <4>1. \A k : Joining(us, f, k) = {}
        BY <2>2 DEF Joining, UpdatesOf
      <4> QED BY <4>1, FS_EmptySet
    <3>3. flows[f] # None => flows[f] \in Flow /\ flows[f].refcount \in [Slots -> Nat]
      BY <1>7 DEF Flow
    <3>4. flows[f] # None => \A k \in Slots : flows[f].refcount[k] \in Nat
      BY <3>3
    <3> QED BY <1>7, <3>1, <3>2, <3>4
  <2> QED BY <2>1, <2>2
<1>16. flows' \in [Indices -> {None} \cup Flow]
  <2>1. DOMAIN flows' = Indices /\ flows' = [f \in Indices |-> flows'[f]]
    BY <1>3 DEF Apply
  <2> QED BY <1>15, <2>1
<1>17. \A ch \in Channels : ch \notin UNION {u.chs : u \in us} => channels'[ch] = channels[ch]
  BY <1>8, <1>11
<1> QED BY <1>4, <1>6, <1>12, <1>13, <1>15, <1>16, <1>17 DEF Applied

LEMMA ApplyStep ==
  ASSUME CountInv, ApplyUpdates
  PROVE  CountInv' /\ Wanted' = Wanted
<1>1. /\ phase = "requests" /\ updates # <<>> /\ updates' = Tail(updates)
      /\ UNCHANGED <<commands, phase, dirty, made, requests, saved>>
  BY DEF ApplyUpdates, Received, front
<1>2. PICK us : us = {u \in Head(updates) : u.slot \in Slots}
  OBVIOUS
<1>3. Received /\ Apply(us)
  BY <1>2 DEF ApplyUpdates
<1>a. Applied(us)
  BY <1>2, <1>3, ApplyIs
<1>4. us \in SUBSET updates[1] /\ updates' \in Seq(SUBSET ChannelSourceUpdate)
  BY <1>a, <1>1, BatchTaken DEF Applied
<1>6. /\ \A u \in us : u.chs \subseteq Needed /\ u.chs \subseteq Channels /\ u.flow \in Indices /\ flows[u.flow] # None
      /\ \A u, v \in us : u.chs \cap v.chs # {} => u = v
  BY <1>a DEF Applied
<1>7. channels \in [Channels -> {None} \cup Subscription] /\ flows \in [Indices -> {None} \cup Flow]
  BY DEF CountInv, TypeOK
<1>8. PICK chs : chs = UNION {u.chs : u \in us}
  OBVIOUS
<1>9. chs \subseteq Needed /\ chs \subseteq Channels
  BY <1>6, <1>8
<1>11. \A ch \in Channels \ chs : channels'[ch] = channels[ch]
  BY <1>a, <1>8 DEF Applied
<1>12. ASSUME NEW u \in us, NEW ch \in u.chs
       PROVE  /\ channels'[ch] \in Subscription /\ channels'[ch].src = channels[ch].src
              /\ channels'[ch].remote = [flow |-> u.flow, slot |-> u.slot]
              /\ channels'[ch].remote.flow = u.flow /\ channels'[ch].remote.slot = u.slot /\ Connected(ch)'
  BY <1>a DEF Applied
<1>13. channels' \in [Channels -> {None} \cup Subscription] /\ flows' \in [Indices -> {None} \cup Flow]
  BY <1>a DEF Applied
<1>14. \A ch \in Channels \ chs : (Connected(ch)' <=> Connected(ch)) /\ (Subscribed(ch)' <=> Subscribed(ch))
  BY <1>11 DEF Connected, Subscribed
<1>15. \A ch \in chs : Connected(ch)' /\ ~Connected(ch) /\ \E u \in us : ch \in u.chs /\ channels'[ch].remote.flow = u.flow
  <2> SUFFICES ASSUME NEW ch \in chs
               PROVE  Connected(ch)' /\ ~Connected(ch) /\ \E u \in us : ch \in u.chs /\ channels'[ch].remote.flow = u.flow
    OBVIOUS
  <2>1. PICK u \in us : ch \in u.chs
    BY <1>8
  <2>2. Connected(ch)' /\ channels'[ch].remote.flow = u.flow
    BY <1>12, <2>1
  <2>3. ~Connected(ch)
    BY <1>9 DEF Needed
  <2> QED BY <2>1, <2>2, <2>3
<1>16. Needed' = Needed \ chs
  BY <1>9, <1>14, <1>15 DEF Needed
<1>17. ASSUME NEW f, NEW k
       PROVE  Joined(f, k)' = Joined(f, k) \cup Joining(us, f, k) /\ Joined(f, k) \cap Joining(us, f, k) = {}
              /\ Joining(us, f, k) \subseteq chs
  <2>1. Joining(us, f, k) \subseteq chs
    BY <1>8 DEF Joining, UpdatesOf
  <2>2. Joined(f, k) \cap chs = {}
    BY <1>15 DEF Joined
  <2>3. ASSUME NEW ch \in chs PROVE ch \in Joined(f, k)' <=> ch \in Joining(us, f, k)
    <3>1. PICK u \in us : ch \in u.chs
      BY <1>8
    <3>2. /\ Connected(ch)' /\ channels'[ch].remote = [flow |-> u.flow, slot |-> u.slot]
          /\ channels'[ch].remote.flow = u.flow /\ channels'[ch].remote.slot = u.slot
      BY <1>12, <3>1
    <3>3. ch \in Channels
      BY <1>9
    <3>4. ch \in Joined(f, k)' <=> u.flow = f /\ u.slot = k
      BY <3>2, <3>3 DEF Joined
    <3>5. ch \in Joining(us, f, k) <=> u.flow = f /\ u.slot = k
      BY <1>6, <3>1 DEF Joining, UpdatesOf
    <3> QED BY <3>4, <3>5
  <2>4. ASSUME NEW ch \in Channels \ chs PROVE ch \in Joined(f, k)' <=> ch \in Joined(f, k)
    BY <1>11, <1>14 DEF Joined
  <2>5. Joined(f, k)' \subseteq Channels /\ Joined(f, k) \subseteq Channels
    BY DEF Joined
  <2> QED BY <1>9, <2>1, <2>2, <2>3, <2>4, <2>5
<1>18. ASSUME NEW f, NEW k
       PROVE  /\ Cardinality(Joining(us, f, k)) \in Nat
              /\ Cardinality(Joined(f, k)') = Cardinality(Joined(f, k)) + Cardinality(Joining(us, f, k))
  <2>1. Joined(f, k) \in SUBSET Channels /\ Joining(us, f, k) \in SUBSET Channels
    BY <1>9, <1>17 DEF Joined
  <2>2. /\ IsFiniteSet(Joined(f, k)) /\ IsFiniteSet(Joining(us, f, k))
        /\ Cardinality(Joined(f, k)) \in Nat /\ Cardinality(Joining(us, f, k)) \in Nat
    BY <2>1, FiniteChannels
  <2>3. Cardinality(Joined(f, k) \cup Joining(us, f, k))
          = Cardinality(Joined(f, k)) + Cardinality(Joining(us, f, k)) - Cardinality(Joined(f, k) \cap Joining(us, f, k))
    BY <2>2, FS_Union
  <2>4. Cardinality(Joined(f, k) \cap Joining(us, f, k)) = 0
    BY <1>17, FS_EmptySet
  <2>5. PICK a, b : a = Cardinality(Joined(f, k)) /\ b = Cardinality(Joining(us, f, k))
    OBVIOUS
  <2>6. a \in Nat /\ b \in Nat /\ Cardinality(Joined(f, k) \cup Joining(us, f, k)) = a + b
    BY <2>2, <2>3, <2>4, <2>5
  <2>7. Joined(f, k)' = Joined(f, k) \cup Joining(us, f, k)
    BY <1>17
  <2> QED BY <2>5, <2>6, <2>7
<1>19. ASSUME NEW f \in Indices
       PROVE  /\ (flows'[f] # None <=> flows[f] # None)
              /\ flows[f] # None => /\ flows'[f].kind = flows[f].kind /\ flows'[f].server = flows[f].server
                                    /\ \A k \in Slots : flows'[f].refcount[k] = flows[f].refcount[k] + Cardinality(Joining(us, f, k))
  BY <1>a DEF Applied
<1>21. TypeOK'
  BY <1>1, <1>4, <1>13 DEF CountInv, TypeOK
<1>22. OneBundle'
  BY <1>19, BundlesKept DEF CountInv
<1>23. Counted
  BY CountedIs DEF CountInv
<1>24. Counted'
  <2>1. ASSUME NEW ch \in Channels, Connected(ch)' PROVE flows'[channels'[ch].remote.flow] # None
    <3>1. CASE ch \in chs
      <4>1. PICK u \in us : channels'[ch].remote.flow = u.flow
        BY <1>15, <3>1
      <4> QED BY <1>6, <1>19, <4>1
    <3>2. CASE ch \notin chs
      <4>1. Connected(ch) /\ channels'[ch] = channels[ch]
        BY <1>11, <1>14, <2>1, <3>2
      <4>2. channels[ch].remote.flow \in Indices /\ flows[channels[ch].remote.flow] # None
        BY <1>7, <1>23, <4>1, SubscriptionIs DEF Counted
      <4> QED BY <1>19, <4>1, <4>2
    <3> QED BY <3>1, <3>2
  <2>2. ASSUME NEW f \in Indices, flows'[f] # None, NEW k \in Slots PROVE flows'[f].refcount[k] = Cardinality(Joined(f, k)')
    <3>1. flows[f] # None /\ flows'[f].refcount[k] = flows[f].refcount[k] + Cardinality(Joining(us, f, k))
      BY <1>19, <2>2
    <3>2. flows[f].refcount[k] = Cardinality(Joined(f, k))
      BY <1>23, <3>1 DEF Counted
    <3> QED BY <1>18, <3>1, <3>2
  <2> QED BY <2>1, <2>2 DEF Counted
<1>25. UpdatesFit' /\ RequestsFit' /\ NewIsUnused' /\ OneUpdateEach'
  <2>1. \A ch \in Channels : Connected(ch)' => \/ Connected(ch) /\ channels'[ch].remote.flow = channels[ch].remote.flow
                                               \/ \E u \in us : channels'[ch].remote.flow = u.flow
    BY <1>11, <1>14, <1>15
  <2>2. \A f \in Indices : flows[f] # None => flows'[f] # None
    BY <1>19
  <2>3. Needed' = Needed \ UNION {u.chs : u \in us}
    BY <1>8, <1>16
  <2> QED BY <1>1, <1>4, <2>1, <2>2, <2>3, BatchFits
<1>26. CountInv'
  BY <1>21, <1>22, <1>24, <1>25, CountedIsNext DEF CountInv, PlanFits
<1>27. ASSUME NEW ch \in Channels PROVE Wanted'[ch] = Wanted[ch]
  <2>1. CASE ch \in chs
    <3>1. PICK u \in us : ch \in u.chs
      BY <1>8, <2>1
    <3>2. channels'[ch] \in Subscription /\ channels'[ch].src = channels[ch].src
      BY <1>12, <3>1
    <3>3. channels'[ch] # None /\ channels[ch] # None
      BY <1>9, <2>1, <3>2, NoneAssumption DEF Needed, Subscribed
    <3> QED BY <3>2, <3>3 DEF Wanted, Subscribed
  <2>2. CASE ch \notin chs
    BY <1>11, <2>2 DEF Wanted, Subscribed
  <2> QED BY <2>1, <2>2
<1>28. Wanted' = Wanted
  BY <1>27 DEF Wanted
<1> QED BY <1>26, <1>28

(***************************************************************************)
(* scan_flows                                                              *)
(***************************************************************************)

LEMMA WantedType ==
  ASSUME channels \in [Channels -> {None} \cup Subscription]
  PROVE  Wanted \in [Channels -> {None} \cup Sources]
<1>1. \A ch \in Channels : Subscribed(ch) => channels[ch].src \in Sources
  BY SubscriptionIs DEF Src
<1> QED BY <1>1 DEF Wanted

LEMMA ScanStep ==
  ASSUME CountInv, ScanOnly \/ ScanAfterResolving
  PROVE  CountInv'
<1>1. channels \in [Channels -> {None} \cup Subscription] /\ flows \in [Indices -> {None} \cup Flow]
  BY DEF CountInv, TypeOK
<1>2. scan_flows /\ UNCHANGED <<commands, updates, made, requests>>
  BY DEF ScanOnly, ScanAfterResolving, scan_flows, front
<1>3. dirty' \in BOOLEAN /\ saved' \in [Channels -> {None} \cup Sources]
  <2>1. saved \in [Channels -> {None} \cup Sources] /\ dirty \in BOOLEAN /\ Wanted \in [Channels -> {None} \cup Sources]
    BY <1>1, WantedType DEF CountInv, TypeOK
  <2>2. CASE ScanOnly
    BY <2>1, <2>2 DEF ScanOnly, NoMoreCommands, save_state
  <2>3. CASE ScanAfterResolving
    BY <2>1, <2>3 DEF ScanAfterResolving
  <2> QED BY <2>2, <2>3
<1>4. CASE phase' = "panicked" /\ UNCHANGED <<channels, flows>>
  <2>1. TypeOK'
    BY <1>2, <1>3, <1>4 DEF CountInv, TypeOK
  <2> QED BY <1>4, <2>1, Alike, QuietStep
<1>5. CASE /\ phase' \in {"commands", "destroy"}
           /\ channels' = [ch \in Channels |-> IF ch \in Orphans THEN [channels[ch] EXCEPT !.remote = None] ELSE channels[ch]]
           /\ flows' = [f \in Indices |-> IF f \in Dead THEN None ELSE flows[f]]
  <2>1. ASSUME NEW ch \in Channels
        PROVE  /\ channels'[ch] \in {None} \cup Subscription
               /\ ch \in Orphans => ~Connected(ch)'
               /\ ch \notin Orphans => channels'[ch] = channels[ch] /\ (Connected(ch)' <=> Connected(ch))
    <3>1. CASE ch \in Orphans
      <4>1. channels[ch] \in Subscription
        BY <1>1, <3>1, SubscriptionIs DEF Orphans, Connected
      <4>2. PICK s : s = [channels[ch] EXCEPT !.remote = None]
        OBVIOUS
      <4>3. s \in Subscription /\ s.remote = None /\ channels'[ch] = s
        BY <1>5, <3>1, <4>1, <4>2 DEF Subscription
      <4> QED BY <3>1, <4>3 DEF Connected
    <3>2. CASE ch \notin Orphans
      BY <1>1, <1>5, <3>2 DEF Connected, Subscribed
    <3> QED BY <3>1, <3>2
  <2>2. channels' \in [Channels -> {None} \cup Subscription]
    BY <1>5, <2>1
  <2>3. /\ flows' \in [Indices -> {None} \cup Flow]
        /\ \A f \in Indices : (f \in Dead => flows'[f] = None) /\ (f \notin Dead => flows'[f] = flows[f])
    BY <1>1, <1>5
  <2>4. TypeOK'
    BY <1>2, <1>3, <1>5, <2>2, <2>3 DEF CountInv, TypeOK
  <2>5. OneBundle'
    <3>1. \A f \in Indices : flows'[f] # None => flows'[f] = flows[f]
      BY <2>3
    <3> QED BY <3>1, BundlesKept DEF CountInv
  <2>6. Counted
    BY CountedIs DEF CountInv
  <2>7. ASSUME NEW ch \in Channels, Connected(ch)' PROVE flows'[channels'[ch].remote.flow] # None
    <3>1. ch \notin Orphans /\ Connected(ch) /\ channels'[ch] = channels[ch]
      BY <2>1, <2>7
    <3>2. PICK f, k : f = channels[ch].remote.flow /\ k = channels[ch].remote.slot
      OBVIOUS
    <3>3. f \in Indices /\ k \in Slots /\ channels[ch].remote = [flow |-> f, slot |-> k] /\ flows[f] # None
      BY <1>1, <2>6, <3>1, <3>2, SubscriptionIs DEF Remote, Counted
    <3>4. Used(f)
      <4>1. ch \in Joined(f, k) /\ IsFiniteSet(Joined(f, k)) /\ Cardinality(Joined(f, k)) \in Nat
        BY <3>1, <3>3, FiniteChannels DEF Joined
      <4>2. Cardinality(Joined(f, k)) # 0
        BY <4>1, FS_EmptySet
      <4>3. flows[f].refcount[k] = Cardinality(Joined(f, k))
        BY <2>6, <3>3 DEF Counted
      <4>4. flows[f].refcount[k] > 0
        BY <4>1, <4>2, <4>3
      <4> QED BY <3>3, <4>4 DEF Used
    <3>5. f \notin Dead
      BY <3>1, <3>2, <3>4 DEF Orphans
    <3> QED BY <2>3, <3>1, <3>2, <3>3, <3>5
  <2>8. ASSUME NEW f \in Indices, flows'[f] # None, NEW k \in Slots PROVE flows'[f].refcount[k] = Cardinality(Joined(f, k)')
    <3>1. f \notin Dead /\ flows'[f] = flows[f]
      BY <2>3, <2>8
    <3>2. ASSUME NEW ch \in Channels, channels[ch].remote = [flow |-> f, slot |-> k] PROVE ch \notin Orphans
      BY <3>1, <3>2 DEF Orphans
    <3>3. Joined(f, k)' = Joined(f, k)
      BY <2>1, <3>2 DEF Joined
    <3> QED BY <2>6, <2>8, <3>1, <3>3 DEF Counted
  <2>9. Counted'
    BY <2>7, <2>8 DEF Counted
  <2>10. PlanFits'
    BY <1>5 DEF PlanFits
  <2> QED BY <2>4, <2>5, <2>9, <2>10, CountedIsNext DEF CountInv
<1> QED BY <1>2, <1>4, <1>5 DEF scan_flows

LEMMA DestroyStep ==
  ASSUME CountInv, NEW d \in destroying, DestroyFlow(d)
  PROVE  CountInv'
<1>1. phase' \in {"commands", "destroy"} /\ UNCHANGED <<commands, dirty, channels, flows, made, requests, updates, saved>>
  BY DEF DestroyFlow, front, shared
<1>2. TypeOK'
  BY <1>1 DEF CountInv, TypeOK
<1> QED BY <1>1, <1>2, Alike, QuietStep

(***************************************************************************)
(* The start of the process                                                *)
(***************************************************************************)

\* Nothing is connected and there is no flow.
LEMMA Afresh ==
  ASSUME flows = [f \in Indices |-> None], \A ch \in Channels : ~Connected(ch), phase = "commands", TypeOK
  PROVE  CountInv
<1>1. Counted /\ OneBundle /\ PlanFits
  BY DEF Counted, OneBundle, PlanFits
<1> QED BY <1>1, CountedIs DEF CountInv

LEMMA IdleType == Idle \in [Keys -> Seq(Request)] /\ <<>> \in Seq(SUBSET ChannelSourceUpdate) /\ <<>> \in Seq(FrontEndCommand)
  BY DEF Idle

LEMMA CountInit ==
  ASSUME Init
  PROVE  CountInv
<1>1. TypeOK
  BY IdleType DEF Init, TypeOK
<1>2. \A ch \in Channels : ~Connected(ch)
  BY DEF Init, Connected, Subscribed
<1> QED BY <1>1, <1>2, Afresh DEF Init

LEMMA AfreshNext ==
  ASSUME flows' = [f \in Indices |-> None], \A ch \in Channels : ~Connected(ch)', phase' = "commands", TypeOK'
  PROVE  CountInv'
<1>1. Counted' /\ OneBundle' /\ PlanFits'
  BY DEF Counted, OneBundle, PlanFits
<1> QED BY <1>1, CountedIsNext DEF CountInv

LEMMA RestartStep ==
  ASSUME CountInv, Restart
  PROVE  CountInv'
<1>1. /\ commands' = <<>> /\ dirty' = FALSE /\ phase' = "commands" /\ flows' = [f \in Indices |-> None]
      /\ requests' = Idle /\ updates' = <<>> /\ UNCHANGED <<made, saved>>
  BY DEF Restart
<1>2. saved \in [Channels -> {None} \cup Sources]
  BY DEF CountInv, TypeOK
<1>3. ASSUME NEW ch \in Channels PROVE channels'[ch] \in {None} \cup Subscription /\ ~Connected(ch)'
  <2>1. CASE saved[ch] = None
    BY <2>1 DEF Restart, Connected, Subscribed
  <2>2. CASE saved[ch] # None
    <3>1. PICK s : s = [src |-> saved[ch], remote |-> None]
      OBVIOUS
    <3>2. s \in Subscription /\ s.remote = None
      BY <1>2, <2>2, <3>1 DEF Subscription
    <3>3. channels'[ch] = s
      BY <2>2, <3>1 DEF Restart
    <3> QED BY <3>2, <3>3 DEF Connected
  <2> QED BY <2>1, <2>2
<1>4. channels' \in [Channels -> {None} \cup Subscription]
  <2>1. DOMAIN channels' = Channels /\ channels' = [ch \in Channels |-> channels'[ch]]
    BY DEF Restart
  <2> QED BY <1>3, <2>1
<1>5. TypeOK'
  BY <1>1, <1>4, IdleType DEF CountInv, TypeOK
<1> QED BY <1>1, <1>3, <1>5, AfreshNext

(***************************************************************************)
(* resolve_subscriptions: the updates of the plan, each for the channels   *)
(* that want one source                                                    *)
(***************************************************************************)

LEMMA LeadersAre ==
  ASSUME NEW l \in Leaders, NEW m \in Leaders
  PROVE  l \in Needed /\ Aliases(l) \subseteq Needed /\ (Aliases(l) \cap Aliases(m) # {} => l = m)
<1>1. l \in Needed /\ Aliases(l) \subseteq Needed
  BY DEF Leaders, Aliases
<1>2. ASSUME Aliases(l) \cap Aliases(m) # {} PROVE l = m
  <2>1. Src(l) = Src(m)
    BY <1>2 DEF Aliases
  <2>2. Aliases(l) = Aliases(m)
    BY <2>1 DEF Aliases
  <2> QED BY <2>2 DEF Leaders
<1> QED BY <1>1, <1>2

LEMMA UpdateIs ==
  ASSUME TypeOK, NEW l \in Leaders, NEW f, NEW s
  PROVE  /\ Update(l, f, s).chs = Aliases(l) /\ Update(l, f, s).flow = f /\ Update(l, f, s).slot = s
         /\ Update(l, f, s).src = Src(l) /\ Src(l) \in Sources /\ l \in Channels
         /\ f \in Indices /\ s \in Nat => Update(l, f, s) \in ChannelSourceUpdate
<1>1. l \in Channels /\ Subscribed(l) /\ Aliases(l) \subseteq Channels
  BY DEF Leaders, Needed, Aliases
<1>2. Src(l) \in Sources
  BY <1>1, SubscriptionIs DEF TypeOK
<1> QED BY <1>1, <1>2 DEF Update, ChannelSourceUpdate

LEMMA FiniteImage ==
  ASSUME NEW S, IsFiniteSet(S), NEW T, IsFiniteSet(T), NEW m \in Nat, S \subseteq Nat, T \subseteq Nat
  PROVE  \E R : IsFiniteSet(R) /\ R \subseteq Nat /\ \A a \in S, b \in T : a * m + b \in R
<1>1. IsFiniteSet(S \X T)
  BY FS_Product
<1>2. PICK g : g = [p \in S \X T |-> p[1] * m + p[2]]
  OBVIOUS
<1>3. PICK R : R = {g[p] : p \in S \X T}
  OBVIOUS
<1>4. g \in Surjection(S \X T, R)
  BY <1>2, <1>3 DEF Surjection
<1>5. IsFiniteSet(R)
  BY <1>1, <1>4, FS_Surjection
<1>6. ASSUME NEW a \in S, NEW b \in T PROVE a * m + b \in R
  <2>1. <<a, b>> \in S \X T /\ g[<<a, b>>] = a * m + b
    BY <1>2
  <2> QED BY <1>3, <2>1
<1>7. R \subseteq Nat
  <2> SUFFICES ASSUME NEW p \in S \X T PROVE g[p] \in Nat
    BY <1>3
  <2>1. PICK a, b : a = p[1] /\ b = p[2]
    OBVIOUS
  <2>2. a \in Nat /\ b \in Nat /\ g[p] = a * m + b
    BY <1>2, <2>1
  <2>3. a * m \in Nat
    BY <2>2
  <2> QED BY <2>2, <2>3
<1> QED BY <1>5, <1>6, <1>7

\* An update that needs no request, for the channels of a leader
NowFor(found, l, u) ==
  \/ l \in Reused /\ u = Update(l, channels[Min(Twins(l))].remote.flow, channels[Min(Twins(l))].remote.slot)
  \/ l \in found /\ Src(l) \notin multicast /\ Carrying(l) # {} /\ u = CarriedUpdate(l)
  \/ /\ l \in found /\ Src(l) \in multicast
     /\ \E f \in FlowsOf("multicast", ServerOf[Src(l)]) : u = Update(l, f, BundleSlot[Src(l)])

LEMMA AskedAre ==
  ASSUME TypeOK, NEW found \in SUBSET Asked, NEW l \in found
  PROVE  l \in Leaders /\ l \notin Reused /\ l \in Channels /\ Src(l) \in Sources /\ ServerOf[Src(l)] \in Servers
         /\ BundleSlot[Src(l)] \in Nat
<1>1. l \in Leaders /\ l \notin Reused
  BY DEF Asked
<1>2. l \in Channels /\ Src(l) \in Sources
  BY <1>1, UpdateIs
<1> QED BY <1>1, <1>2, NetworkAssumption

LEMMA CarriedIs ==
  ASSUME TypeOK, NEW l \in Leaders, Carrying(l) # {}
  PROVE  /\ CarriedUpdate(l) \in ChannelSourceUpdate /\ CarriedUpdate(l).chs = Aliases(l)
         /\ flows[CarriedUpdate(l).flow] # None
<1>1. Carrying(l) \subseteq Indices
  BY DEF Carrying, FlowsOf
<1>2. IsFiniteSet(Carrying(l)) /\ Carrying(l) \subseteq Nat
  BY <1>1, Numbers, FS_Subset
<1>3. PICK f : f = Min(Carrying(l))
  OBVIOUS
<1>4. f \in Carrying(l)
  BY <1>2, <1>3, MinIs
<1>5. f \in Indices /\ flows[f] # None /\ \E k \in Slots : flows[f].tx[k] = Src(l)
  BY <1>4 DEF Carrying, FlowsOf
<1>6. PICK S : S = {k \in Slots : flows[f].tx[k] = Src(l)}
  OBVIOUS
<1>7. S # {} /\ S \subseteq Slots
  BY <1>5, <1>6
<1>8. IsFiniteSet(S) /\ S \subseteq Nat
  BY <1>7, Numbers, FS_Subset
<1>9. Min(S) \in Nat
  BY <1>7, <1>8, MinIs
<1>10. CarriedUpdate(l) = Update(l, f, Min(S))
  BY <1>3, <1>6 DEF CarriedUpdate
<1> QED BY <1>5, <1>9, <1>10, UpdateIs

LEMMA ReusedIs ==
  ASSUME CountInv, NEW l \in Reused
  PROVE  LET r == channels[Min(Twins(l))].remote
         IN  r.flow \in Indices /\ r.slot \in Nat /\ flows[r.flow] # None
<1>1. PICK ch : ch = Min(Twins(l))
  OBVIOUS
<1>2. Twins(l) \subseteq Channels /\ Twins(l) # {}
  BY DEF Twins, Reused
<1>3. IsFiniteSet(Twins(l)) /\ Twins(l) \subseteq Nat
  BY <1>2, FiniteChannels
<1>4. ch \in Twins(l)
  BY <1>1, <1>2, <1>3, MinIs
<1>5. ch \in Channels /\ Connected(ch)
  BY <1>4 DEF Twins
<1>6. Counted
  BY CountedIs DEF CountInv
<1>7. channels[ch].remote.flow \in Indices /\ channels[ch].remote.slot \in Nat
  BY <1>5, SubscriptionIs, Numbers DEF CountInv, TypeOK
<1> QED BY <1>1, <1>5, <1>6, <1>7 DEF Counted

LEMMA NowIs ==
  ASSUME CountInv, NEW found \in SUBSET Asked, NEW u \in UpdatesNow(found)
  PROVE  \E l \in Leaders : /\ NowFor(found, l, u) /\ u \in ChannelSourceUpdate /\ u.chs = Aliases(l)
                            /\ flows[u.flow] # None
<1>1. TypeOK
  BY DEF CountInv
<1>2. CASE u \in ReuseUpdates
  <2>1. PICK l \in Reused : u = Update(l, channels[Min(Twins(l))].remote.flow, channels[Min(Twins(l))].remote.slot)
    BY <1>2 DEF ReuseUpdates
  <2>2. l \in Leaders
    BY DEF Reused
  <2>3. PICK r : r = channels[Min(Twins(l))].remote
    OBVIOUS
  <2>4. r.flow \in Indices /\ r.slot \in Nat /\ flows[r.flow] # None
    BY <2>3, ReusedIs
  <2>5. u = Update(l, r.flow, r.slot)
    BY <2>1, <2>3
  <2>6. u \in ChannelSourceUpdate /\ u.chs = Aliases(l) /\ u.flow = r.flow
    BY <1>1, <2>2, <2>4, <2>5, UpdateIs
  <2> QED BY <2>1, <2>2, <2>4, <2>6 DEF NowFor
<1>3. CASE \E v \in Servers : u \in CarriedUpdates(found, v)
  <2>1. PICK v \in Servers : u \in CarriedUpdates(found, v)
    BY <1>3
  <2>2. PICK l \in PerServer(found, v) : Carrying(l) # {} /\ u = CarriedUpdate(l)
    BY <2>1 DEF CarriedUpdates
  <2>3. l \in found /\ Src(l) \notin multicast
    BY <2>2 DEF PerServer
  <2>4. l \in Leaders
    BY <1>1, <2>3, AskedAre
  <2> QED BY <1>1, <2>2, <2>3, <2>4, CarriedIs DEF NowFor
<1>4. CASE \E v \in Servers : u \in BundleUpdates(found, v)
  <2>1. PICK v \in Servers : u \in BundleUpdates(found, v)
    BY <1>4
  <2>2. PICK l \in PerBundle(found, v), f \in FlowsOf("multicast", v) : u = Update(l, f, BundleSlot[Src(l)])
    BY <2>1 DEF BundleUpdates
  <2>3. l \in found /\ Src(l) \in multicast /\ v = ServerOf[Src(l)] /\ f \in Indices /\ flows[f] # None
    BY <2>2 DEF PerBundle, FlowsOf
  <2>4. l \in Leaders /\ BundleSlot[Src(l)] \in Nat
    BY <1>1, <2>3, AskedAre
  <2>5. u \in ChannelSourceUpdate /\ u.chs = Aliases(l) /\ u.flow = f
    BY <1>1, <2>2, <2>3, <2>4, UpdateIs
  <2> QED BY <2>2, <2>3, <2>4, <2>5 DEF NowFor
<1>5. u \in ReuseUpdates \/ (\E v \in Servers : u \in CarriedUpdates(found, v)) \/ (\E v \in Servers : u \in BundleUpdates(found, v))
  <2>1. u \in ReuseUpdates \/ u \in UNION {CarriedUpdates(found, v) : v \in Servers} \/ u \in UNION {BundleUpdates(found, v) : v \in Servers}
    BY DEF UpdatesNow
  <2>2. u \in UNION {CarriedUpdates(found, v) : v \in Servers} => \E v \in Servers : u \in CarriedUpdates(found, v)
    OBVIOUS
  <2>3. u \in UNION {BundleUpdates(found, v) : v \in Servers} => \E v \in Servers : u \in BundleUpdates(found, v)
    OBVIOUS
  <2> QED BY <2>1, <2>2, <2>3
<1> QED BY <1>2, <1>3, <1>4, <1>5

LEMMA OneNow ==
  ASSUME CountInv, NEW found \in SUBSET Asked, NEW l \in Leaders, NEW u, NEW v, NowFor(found, l, u), NowFor(found, l, v)
  PROVE  u = v
<1>1. TypeOK /\ OneBundle
  BY DEF CountInv
<1>2. CASE l \in Reused
  BY <1>1, <1>2, AskedAre DEF NowFor
<1>3. CASE l \in found /\ Src(l) \notin multicast
  BY <1>1, <1>3, AskedAre DEF NowFor
<1>4. CASE l \in found /\ Src(l) \in multicast
  <2>1. l \notin Reused
    BY <1>1, <1>4, AskedAre
  <2>2. PICK f \in FlowsOf("multicast", ServerOf[Src(l)]) : u = Update(l, f, BundleSlot[Src(l)])
    BY <1>4, <2>1 DEF NowFor
  <2>3. PICK g \in FlowsOf("multicast", ServerOf[Src(l)]) : v = Update(l, g, BundleSlot[Src(l)])
    BY <1>4, <2>1 DEF NowFor
  <2>4. f = g
    BY <1>1, <2>2, <2>3 DEF OneBundle, FlowsOf
  <2> QED BY <2>2, <2>3, <2>4
<1> QED BY <1>2, <1>3, <1>4 DEF NowFor

(***************************************************************************)
(* The channels that are placed into slots                                 *)
(***************************************************************************)

ToPlace(found, v) == {l \in PerServer(found, v) : Carrying(l) = {}}
Free(found, v)    == Cardinality(FreeSlots(found, v))

LEMMA FreeAre ==
  ASSUME NEW found, NEW v
  PROVE  /\ Free(found, v) \in Nat
         /\ LET free == Sorted(FreeSlots(found, v))
            IN  /\ DOMAIN free = 1 .. Free(found, v)
                /\ \A i \in 1 .. Free(found, v) : /\ FlowAt(free[i]) \in FlowsOf("unicast", v)
                                                  /\ SlotAt(free[i]) \in Slots
<1>1. PICK S : S = FreeSlots(found, v)
  OBVIOUS
<1>2. \A p \in S : \E f \in FlowsOf("unicast", v), k \in Slots : p = f * PerFlow + k
  BY <1>1 DEF FreeSlots, Place
<1>3. FlowsOf("unicast", v) \subseteq Indices
  BY DEF FlowsOf
<1>4. \A p \in S : \E f \in Indices, k \in Slots : p = f * PerFlow + k
  BY <1>2, <1>3
<1>5. IsFiniteSet(S) /\ S \subseteq Nat
  <2>1. /\ IsFiniteSet(Indices) /\ IsFiniteSet(Slots) /\ Indices \subseteq Nat /\ Slots \subseteq Nat
        /\ PerFlow \in Nat
    BY Numbers
  <2>2. PICK R : IsFiniteSet(R) /\ R \subseteq Nat /\ \A f \in Indices, k \in Slots : f * PerFlow + k \in R
    BY <2>1, FiniteImage
  <2>4. S \subseteq R
    BY <1>4, <2>2
  <2> QED BY <2>2, <2>4, FS_Subset
<1>6. PICK free : free = Sorted(S)
  OBVIOUS
<1>7. /\ Cardinality(S) \in Nat /\ DOMAIN free = 1 .. Cardinality(S)
      /\ \A i \in 1 .. Cardinality(S) : free[i] \in S
  BY <1>5, <1>6, SortedIs
<1>8. ASSUME NEW p \in S PROVE FlowAt(p) \in FlowsOf("unicast", v) /\ SlotAt(p) \in Slots
  <2>1. PICK f \in FlowsOf("unicast", v), k \in Slots : p = f * PerFlow + k
    BY <1>2
  <2>2. f \in Nat /\ k \in Nat /\ PerFlow \in Nat /\ k < PerFlow
    <3>1. f \in Nat /\ PerFlow \in Nat
      BY <1>3, Numbers
    <3> QED BY <3>1 DEF Slots
  <2>3. p \div PerFlow = f /\ p % PerFlow = k
    BY <2>1, <2>2, Parts
  <2> QED BY <2>1, <2>3 DEF FlowAt, SlotAt
<1> QED BY <1>1, <1>6, <1>7, <1>8 DEF Free

LEMMA UnplacedAre ==
  ASSUME TypeOK, NEW found \in SUBSET Asked, NEW v
  PROVE  LET rest == Unplaced(found, v)
             n    == Cardinality(ToPlace(found, v))
         IN  /\ n \in Nat /\ DOMAIN rest = 1 .. n /\ Len(rest) = n /\ rest \in Seq(ToPlace(found, v))
             /\ \A i \in 1 .. n : rest[i] \in ToPlace(found, v)
             /\ \A i, j \in 1 .. n : rest[i] = rest[j] => i = j
<1>1. ToPlace(found, v) \subseteq Channels
  BY AskedAre DEF ToPlace, PerServer
<1>2. IsFiniteSet(ToPlace(found, v)) /\ ToPlace(found, v) \subseteq Nat
  BY <1>1, FiniteChannels
<1>3. Unplaced(found, v) = Sorted(ToPlace(found, v))
  BY DEF Unplaced, ToPlace
<1> QED BY <1>2, <1>3, SortedIs

LEMMA RemainingAre ==
  ASSUME TypeOK, NEW found \in SUBSET Asked, NEW v
  PROVE  LET rest == Remaining(found, v)
             all  == Unplaced(found, v)
         IN  \A i \in DOMAIN rest : /\ i \in Nat \ {0} /\ i + Free(found, v) \in DOMAIN all
                                    /\ rest[i] = all[i + Free(found, v)]
<1>1. PICK all, n, m : all = Unplaced(found, v) /\ n = Free(found, v) /\ m = Cardinality(ToPlace(found, v))
  OBVIOUS
<1>2. m \in Nat /\ DOMAIN all = 1 .. m /\ Len(all) = m /\ all \in Seq(ToPlace(found, v)) /\ n \in Nat
  BY <1>1, UnplacedAre, FreeAre
<1>3. PICK rest : rest = Remaining(found, v)
  OBVIOUS
<1>4. rest = IF m > n THEN SubSeq(all, n + 1, m) ELSE <<>>
  BY <1>1, <1>2, <1>3 DEF Remaining, Free
<1>5. CASE m > n
  <2>1. rest = [i \in 1 .. m - n |-> all[i + n]]
    BY <1>2, <1>4, <1>5
  <2> QED BY <1>1, <1>2, <1>3, <1>5, <2>1
<1>6. CASE ~(m > n)
  <2>1. rest = <<>>
    BY <1>4, <1>6
  <2> QED BY <1>3, <2>1
<1> QED BY <1>5, <1>6

(***************************************************************************)
(* The flows to be made                                                    *)
(***************************************************************************)

LEMMA ChunksAre ==
  ASSUME NEW found
  PROVE  /\ IsFiniteSet(Chunks(found)) /\ Chunks(found) \subseteq Nat
         /\ \A x \in Chunks(found) : x \div Cardinality(Channels) \in Servers
         /\ \A x, y \in Chunks(found) : /\ x \div Cardinality(Channels) = y \div Cardinality(Channels)
                                        /\ x % Cardinality(Channels) = y % Cardinality(Channels)
                                        => x = y
<1>1. PICK m : m = Cardinality(Channels)
  OBVIOUS
<1>2. m \in Nat /\ Servers \subseteq Nat /\ IsFiniteSet(Servers)
  BY <1>1, Numbers
<1>3. PICK C : C = 0 .. m - 1
  OBVIOUS
<1>4. IsFiniteSet(C) /\ C \subseteq Nat /\ \A c \in C : c < m
  BY <1>2, <1>3, FS_Interval
<1>5. ASSUME NEW x \in Chunks(found) PROVE \E v \in Servers, c \in C : x = v * m + c
  <2>1. PICK p \in Servers \X C : x = Chunk(p[1], p[2])
    BY <1>1, <1>3 DEF Chunks
  <2>2. p[1] \in Servers /\ p[2] \in C
    OBVIOUS
  <2> QED BY <1>1, <2>1, <2>2 DEF Chunk
<1>6. PICK R : IsFiniteSet(R) /\ R \subseteq Nat /\ \A v \in Servers, c \in C : v * m + c \in R
  BY <1>2, <1>4, FiniteImage
<1>7. Chunks(found) \subseteq R
  BY <1>5, <1>6
<1>8. IsFiniteSet(Chunks(found)) /\ Chunks(found) \subseteq Nat
  BY <1>6, <1>7, FS_Subset
<1>9. ASSUME NEW x \in Chunks(found) PROVE \E v \in Servers, c \in C : x = v * m + c /\ x \div m = v /\ x % m = c
  <2>1. PICK v \in Servers, c \in C : x = v * m + c
    BY <1>5
  <2>2. v \in Nat /\ c \in Nat /\ c < m
    BY <1>2, <1>4
  <2>3. x \div m = v /\ x % m = c
    BY <1>2, <2>1, <2>2, Parts
  <2> QED BY <2>1, <2>3
<1>10. \A x \in Chunks(found) : x \div m \in Servers
  BY <1>9, Zenon
<1>11. ASSUME NEW x \in Chunks(found), NEW y \in Chunks(found), x \div m = y \div m, x % m = y % m PROVE x = y
  <2>1. PICK v \in Servers, c \in C : x = v * m + c /\ x \div m = v /\ x % m = c
    BY <1>9
  <2>2. PICK w \in Servers, d \in C : y = w * m + d /\ y \div m = w /\ y % m = d
    BY <1>9
  <2>3. v = w /\ c = d
    BY <1>11, <2>1, <2>2, Zenon
  <2> QED BY <2>1, <2>2, <2>3
<1> QED BY <1>1, <1>8, <1>10, <1>11

\* What is needed of the flows to be made: each has a place, and no two are the same.
FlowsToMake(news) ==
  /\ Len(news) \in Nat /\ DOMAIN news = 1 .. Len(news)
  /\ \A n \in DOMAIN news : /\ news[n].kind \in {"unicast", "multicast"} /\ news[n].server \in Servers
                            /\ news[n].kind = "multicast" => FlowsOf("multicast", news[n].server) = {}
                            /\ n \in 1 .. Len(Vacant)
  /\ \A n, m \in DOMAIN news :
       news[n].kind = news[m].kind /\ news[n].server = news[m].server
       /\ (news[n].kind = "multicast" \/ news[n].chunk = news[m].chunk) => n = m

LEMMA VacantAre ==
  /\ Len(Vacant) \in Nat /\ DOMAIN Vacant = 1 .. Len(Vacant)
  /\ \A n \in 1 .. Len(Vacant) : Vacant[n] \in Indices /\ flows[Vacant[n]] = None
  /\ \A n, m \in 1 .. Len(Vacant) : Vacant[n] = Vacant[m] => n = m
<1>1. PICK S : S = {f \in Indices : flows[f] = None}
  OBVIOUS
<1>2. S \subseteq Indices
  BY <1>1
<1>3. IsFiniteSet(S) /\ S \subseteq Nat
  BY <1>2, Numbers, FS_Subset
<1>4. Vacant = Sorted(S)
  BY <1>1 DEF Vacant
<1>5. /\ Len(Vacant) = Cardinality(S) /\ Cardinality(S) \in Nat /\ DOMAIN Vacant = 1 .. Cardinality(S)
      /\ \A n \in 1 .. Cardinality(S) : Vacant[n] \in S
      /\ \A n, m \in 1 .. Cardinality(S) : Vacant[n] = Vacant[m] => n = m
  BY <1>3, <1>4, SortedIs
<1> QED BY <1>1, <1>5

LEMMA NewsAre ==
  ASSUME NEW found, NEW bundles \in SUBSET Servers, NEW news, news = NewFlows(found, bundles), Len(news) <= Len(Vacant)
  PROVE  FlowsToMake(news)
<1>1. PICK joined, chunks, c, a, b : /\ joined = Sorted(NewBundles(bundles)) /\ chunks = Sorted(Chunks(found))
                                     /\ c = Cardinality(Channels)
                                     /\ a = Cardinality(NewBundles(bundles)) /\ b = Cardinality(Chunks(found))
  OBVIOUS
<1>2. NewBundles(bundles) \subseteq Servers
  BY DEF NewBundles
<1>3. IsFiniteSet(NewBundles(bundles)) /\ NewBundles(bundles) \subseteq Nat
  BY <1>2, Numbers, FS_Subset
<1>4. /\ a \in Nat /\ DOMAIN joined = 1 .. a /\ \A i \in 1 .. a : joined[i] \in NewBundles(bundles)
      /\ \A i, j \in 1 .. a : joined[i] = joined[j] => i = j
  BY <1>1, <1>3, SortedIs
<1>5. /\ b \in Nat /\ DOMAIN chunks = 1 .. b /\ \A i \in 1 .. b : chunks[i] \in Chunks(found)
      /\ \A i, j \in 1 .. b : chunks[i] = chunks[j] => i = j
  BY <1>1, ChunksAre, SortedIs
<1>6. PICK s : s = [i \in 1 .. a |-> [kind |-> "multicast", server |-> joined[i], chunk |-> 0]]
  OBVIOUS
<1>7. PICK t : t = [i \in 1 .. b |-> [kind |-> "unicast", server |-> chunks[i] \div c, chunk |-> chunks[i] % c]]
  OBVIOUS
<1>8. news = s \o t
  BY <1>1, <1>4, <1>5, <1>6, <1>7 DEF NewFlows
<1>9. PICK E : E = {s[i] : i \in 1 .. a} \cup {t[i] : i \in 1 .. b}
  OBVIOUS
<1>10. s \in Seq(E) /\ Len(s) = a /\ t \in Seq(E) /\ Len(t) = b
  BY <1>4, <1>5, <1>6, <1>7, <1>9
<1>11. /\ Len(news) = a + b /\ DOMAIN news = 1 .. a + b
       /\ \A n \in 1 .. a + b : news[n] = IF n <= a THEN s[n] ELSE t[n - a]
  <2>1. s \o t \in Seq(E) /\ Len(s \o t) = a + b
    BY <1>10, ConcatProperties
  <2>2. \A n \in 1 .. a + b : (s \o t)[n] = IF n <= a THEN s[n] ELSE t[n - a]
    BY <1>10, ConcatProperties
  <2>3. news \in Seq(E) /\ Len(news) = a + b
    BY <1>8, <2>1
  <2>4. DOMAIN news = 1 .. a + b
    BY <2>3
  <2> QED BY <1>8, <2>2, <2>3, <2>4
<1>12. ASSUME NEW n \in DOMAIN news
       PROVE  \/ n \in 1 .. a /\ news[n].kind = "multicast" /\ news[n].server = joined[n]
              \/ /\ n - a \in 1 .. b /\ n \in Nat
                 /\ news[n].kind = "unicast" /\ news[n].server = chunks[n - a] \div c
                 /\ news[n].chunk = chunks[n - a] % c
  <2>1. CASE n <= a
    <3>1. n \in 1 .. a /\ news[n] = s[n]
      BY <1>4, <1>5, <1>11, <2>1
    <3> QED BY <1>6, <3>1
  <2>2. CASE ~(n <= a)
    <3>1. PICK i : i = n - a
      OBVIOUS
    <3>2. n \in Nat /\ i \in 1 .. b /\ news[n] = t[i]
      BY <1>4, <1>5, <1>11, <2>2, <3>1
    <3> QED BY <1>7, <3>1, <3>2
  <2> QED BY <2>1, <2>2
<1>13. ASSUME NEW n \in DOMAIN news
       PROVE  /\ news[n].kind \in {"unicast", "multicast"} /\ news[n].server \in Servers
              /\ news[n].kind = "multicast" => FlowsOf("multicast", news[n].server) = {}
  <2>1. CASE n \in 1 .. a /\ news[n].kind = "multicast" /\ news[n].server = joined[n]
    BY <1>2, <1>4, <2>1 DEF NewBundles
  <2>2. CASE /\ n - a \in 1 .. b /\ news[n].kind = "unicast" /\ news[n].server = chunks[n - a] \div c
    <3>1. chunks[n - a] \in Chunks(found)
      BY <1>5, <2>2
    <3> QED BY <1>1, <2>2, <3>1, ChunksAre
  <2> QED BY <1>12, <2>1, <2>2
<1>14. ASSUME NEW n \in DOMAIN news, NEW m \in DOMAIN news, news[n].kind = news[m].kind, news[n].server = news[m].server,
              news[n].kind = "multicast" \/ news[n].chunk = news[m].chunk
       PROVE  n = m
  <2>1. CASE news[n].kind = "multicast"
    <3>1. n \in 1 .. a /\ m \in 1 .. a /\ joined[n] = joined[m]
      BY <1>12, <1>14, <2>1
    <3> QED BY <1>4, <3>1
  <2>2. CASE news[n].kind = "unicast"
    <3>1. PICK i, j : i = n - a /\ j = m - a
      OBVIOUS
    <3>2. /\ i \in 1 .. b /\ j \in 1 .. b /\ n \in Nat /\ m \in Nat
          /\ chunks[i] \div c = chunks[j] \div c /\ chunks[i] % c = chunks[j] % c
      BY <1>12, <1>14, <2>2, <3>1
    <3>3. chunks[i] \in Chunks(found) /\ chunks[j] \in Chunks(found)
      BY <1>5, <3>2
    <3>4. chunks[i] = chunks[j]
      BY <1>1, <3>2, <3>3, ChunksAre
    <3>5. i = j
      BY <1>5, <3>2, <3>4
    <3> QED BY <1>4, <3>1, <3>2, <3>5
  <2> QED BY <1>13, <2>1, <2>2
<1>15. Len(news) \in Nat /\ DOMAIN news = 1 .. Len(news)
  BY <1>4, <1>5, <1>11
<1>16. \A n \in DOMAIN news : n \in 1 .. Len(Vacant)
  BY <1>15, VacantAre
<1> QED BY <1>13, <1>14, <1>15, <1>16 DEF FlowsToMake

(***************************************************************************)
(* The updates that need a request                                         *)
(***************************************************************************)

\* l is to go into a slot that is free.
MovedFor(found, l, u) ==
  LET v == ServerOf[Src(l)]
  IN  /\ Src(l) \notin multicast /\ Carrying(l) = {}
      /\ \E a \in DOMAIN Unplaced(found, v) :
           /\ Unplaced(found, v)[a] = l /\ a <= Free(found, v)
           /\ u = Update(l, FlowAt(Sorted(FreeSlots(found, v))[a]), SlotAt(Sorted(FreeSlots(found, v))[a]))

\* l is to go into the flow n of those to be made.
MadeFor(found, news, l, n, u) ==
  LET v == ServerOf[Src(l)]
  IN  /\ news[n].server = v
      /\ \/ /\ news[n].kind = "unicast" /\ Src(l) \notin multicast /\ Carrying(l) = {}
            /\ \E a \in DOMAIN Unplaced(found, v) :
                 /\ Unplaced(found, v)[a] = l /\ a > Free(found, v)
                 /\ news[n].chunk = (a - Free(found, v) - 1) \div PerFlow
                 /\ u = Update(l, Vacant[n], (a - Free(found, v) - 1) % PerFlow)
         \/ /\ news[n].kind = "multicast" /\ Src(l) \in multicast /\ FlowsOf("multicast", v) = {}
            /\ u = Update(l, Vacant[n], BundleSlot[Src(l)])

AskFor(found, news, l, u) ==
  l \in found /\ (MovedFor(found, l, u) \/ \E n \in DOMAIN news : MadeFor(found, news, l, n, u))

LEMMA MovesAre ==
  ASSUME CountInv, NEW found \in SUBSET Asked, NEW v, NEW u \in Moves(found, v)
  PROVE  /\ u.flow \in FlowsOf("unicast", v) /\ u \in ChannelSourceUpdate
         /\ \E l \in found : u.chs = Aliases(l) /\ MovedFor(found, l, u)
<1>1. TypeOK
  BY DEF CountInv
<1>2. PICK free, rest : free = Sorted(FreeSlots(found, v)) /\ rest = Unplaced(found, v)
  OBVIOUS
<1>3. PICK a \in DOMAIN rest : a \in DOMAIN free /\ u = Update(rest[a], FlowAt(free[a]), SlotAt(free[a]))
  BY <1>2 DEF Moves
<1>4. Free(found, v) \in Nat /\ DOMAIN free = 1 .. Free(found, v) /\ FlowAt(free[a]) \in FlowsOf("unicast", v) /\ SlotAt(free[a]) \in Slots
  BY <1>2, <1>3, FreeAre
<1>5. PICK l : l = rest[a]
  OBVIOUS
<1>6. l \in ToPlace(found, v)
  BY <1>1, <1>2, <1>3, <1>5, UnplacedAre
<1>7. l \in found /\ ServerOf[Src(l)] = v /\ Src(l) \notin multicast /\ Carrying(l) = {}
  BY <1>6 DEF ToPlace, PerServer
<1>8. l \in Leaders
  BY <1>1, <1>7, AskedAre
<1>9. FlowAt(free[a]) \in Indices /\ SlotAt(free[a]) \in Nat
  BY <1>4, Numbers DEF FlowsOf
<1>10. u = Update(l, FlowAt(free[a]), SlotAt(free[a]))
  BY <1>3, <1>5
<1>11. u \in ChannelSourceUpdate /\ u.chs = Aliases(l) /\ u.flow = FlowAt(free[a])
  BY <1>1, <1>8, <1>9, <1>10, UpdateIs
<1>12. a <= Free(found, v)
  BY <1>3, <1>4
<1>13. MovedFor(found, l, u)
  BY <1>2, <1>3, <1>5, <1>7, <1>10, <1>12 DEF MovedFor
<1> QED BY <1>4, <1>7, <1>11, <1>13

LEMMA NewUpdatesAre ==
  ASSUME CountInv, NEW found \in SUBSET Asked, NEW news, NEW n \in DOMAIN news, Vacant[n] \in Indices,
         news[n].kind \in {"unicast", "multicast"}, news[n].server \in Servers,
         news[n].kind = "multicast" => FlowsOf("multicast", news[n].server) = {},
         NEW u \in NewUpdates(found, news[n], Vacant[n])
  PROVE  /\ u.flow = Vacant[n] /\ u \in ChannelSourceUpdate
         /\ \E l \in found : u.chs = Aliases(l) /\ MadeFor(found, news, l, n, u)
<1>1. TypeOK
  BY DEF CountInv
<1>2. PICK v : v = news[n].server
  OBVIOUS
<1>3. CASE news[n].kind = "multicast"
  <2>1. PICK l \in PerBundle(found, v) : u = Update(l, Vacant[n], BundleSlot[Src(l)])
    BY <1>2, <1>3 DEF NewUpdates
  <2>2. l \in found /\ ServerOf[Src(l)] = v /\ Src(l) \in multicast
    BY DEF PerBundle
  <2>3. l \in Leaders /\ BundleSlot[Src(l)] \in Nat
    BY <1>1, <2>2, AskedAre
  <2>4. u \in ChannelSourceUpdate /\ u.chs = Aliases(l) /\ u.flow = Vacant[n]
    BY <1>1, <2>1, <2>3, UpdateIs
  <2>5. MadeFor(found, news, l, n, u)
    BY <1>2, <1>3, <2>1, <2>2 DEF MadeFor
  <2> QED BY <2>2, <2>4, <2>5
<1>4. CASE news[n].kind = "unicast"
  <2>1. PICK rest, all, fr : rest = Remaining(found, v) /\ all = Unplaced(found, v) /\ fr = Free(found, v)
    OBVIOUS
  <2>2. PICK i \in DOMAIN rest : (i - 1) \div PerFlow = news[n].chunk /\ u = Update(rest[i], Vacant[n], (i - 1) % PerFlow)
    BY <1>2, <1>4, <2>1 DEF NewUpdates
  <2>3. PICK l, a : l = rest[i] /\ a = i + fr
    OBVIOUS
  <2>4. i \in Nat \ {0} /\ a \in DOMAIN all /\ l = all[a] /\ fr \in Nat
    BY <1>1, <2>1, <2>3, RemainingAre, FreeAre
  <2>5. l \in ToPlace(found, v)
    BY <1>1, <2>1, <2>4, UnplacedAre
  <2>6. l \in found /\ ServerOf[Src(l)] = v /\ Src(l) \notin multicast /\ Carrying(l) = {}
    BY <2>5 DEF ToPlace, PerServer
  <2>7. l \in Leaders
    BY <1>1, <2>6, AskedAre
  <2>8. a - fr - 1 = i - 1 /\ a > fr
    BY <2>3, <2>4
  <2>9. u = Update(l, Vacant[n], (a - fr - 1) % PerFlow) /\ news[n].chunk = (a - fr - 1) \div PerFlow
    BY <2>2, <2>3, <2>8
  <2>10. (i - 1) % PerFlow \in Nat
    <3>1. i - 1 \in Nat /\ PerFlow \in Nat \ {0}
      BY <2>4, Numbers
    <3> QED BY <3>1
  <2>11. u = Update(l, Vacant[n], (i - 1) % PerFlow)
    BY <2>2, <2>3
  <2>12. u \in ChannelSourceUpdate /\ u.chs = Aliases(l) /\ u.flow = Vacant[n]
    BY <1>1, <2>7, <2>10, <2>11, UpdateIs
  <2>13. MadeFor(found, news, l, n, u)
    BY <1>2, <1>4, <2>1, <2>4, <2>6, <2>8, <2>9 DEF MadeFor
  <2> QED BY <2>6, <2>12, <2>13
<1> QED BY <1>3, <1>4

\* There is one for each leader.
LEMMA OneAsk ==
  ASSUME CountInv, NEW found \in SUBSET Asked, NEW news, FlowsToMake(news),
         NEW l, NEW u, NEW w, AskFor(found, news, l, u), AskFor(found, news, l, w)
  PROVE  u = w
<1>1. TypeOK
  BY DEF CountInv
<1>2. PICK v, all, fr : v = ServerOf[Src(l)] /\ all = Unplaced(found, v) /\ fr = Free(found, v)
  OBVIOUS
<1>3. /\ fr \in Nat /\ \A i, j \in DOMAIN all : all[i] = all[j] => i = j
      /\ \A i \in DOMAIN all : i \in Nat
  <2>1. fr \in Nat
    BY <1>2, FreeAre
  <2>2. PICK m : m = Cardinality(ToPlace(found, v))
    OBVIOUS
  <2>3. m \in Nat /\ DOMAIN all = 1 .. m /\ \A i, j \in 1 .. m : all[i] = all[j] => i = j
    BY <1>1, <1>2, <2>2, UnplacedAre
  <2> QED BY <2>1, <2>3
<1>4. \A n, m \in DOMAIN news :
        news[n].kind = news[m].kind /\ news[n].server = news[m].server
        /\ (news[n].kind = "multicast" \/ news[n].chunk = news[m].chunk) => n = m
  BY DEF FlowsToMake
<1>5. CASE Src(l) \in multicast
  <2>1. PICK n \in DOMAIN news : news[n].server = v /\ news[n].kind = "multicast" /\ u = Update(l, Vacant[n], BundleSlot[Src(l)])
    BY <1>2, <1>5 DEF AskFor, MovedFor, MadeFor
  <2>2. PICK m \in DOMAIN news : news[m].server = v /\ news[m].kind = "multicast" /\ w = Update(l, Vacant[m], BundleSlot[Src(l)])
    BY <1>2, <1>5 DEF AskFor, MovedFor, MadeFor
  <2>3. n = m
    BY <1>4, <2>1, <2>2
  <2> QED BY <2>1, <2>2, <2>3
<1>6. CASE Src(l) \notin multicast
  <2>1. PICK a \in DOMAIN all : all[a] = l
    BY <1>2, <1>6 DEF AskFor, MovedFor, MadeFor
  <2>2. \A b \in DOMAIN all : all[b] = l => b = a
    BY <1>3, <2>1
  <2>3. CASE a <= fr
    <3>1. PICK f, s : f = FlowAt(Sorted(FreeSlots(found, v))[a]) /\ s = SlotAt(Sorted(FreeSlots(found, v))[a])
      OBVIOUS
    <3>2. ~(a > fr)
      BY <1>3, <2>1, <2>3
    <3>3. u = Update(l, f, s)
      BY <1>2, <1>6, <2>2, <3>1, <3>2 DEF AskFor, MovedFor, MadeFor
    <3>4. w = Update(l, f, s)
      BY <1>2, <1>6, <2>2, <3>1, <3>2 DEF AskFor, MovedFor, MadeFor
    <3> QED BY <3>3, <3>4
  <2>4. CASE a > fr
    <3>1. PICK c, s : c = (a - fr - 1) \div PerFlow /\ s = (a - fr - 1) % PerFlow
      OBVIOUS
    <3>2. ~(a <= fr)
      BY <1>3, <2>1, <2>4
    <3>3. PICK n \in DOMAIN news : news[n].server = v /\ news[n].kind = "unicast" /\ news[n].chunk = c /\ u = Update(l, Vacant[n], s)
      BY <1>2, <1>6, <2>2, <3>1, <3>2 DEF AskFor, MovedFor, MadeFor
    <3>4. PICK m \in DOMAIN news : news[m].server = v /\ news[m].kind = "unicast" /\ news[m].chunk = c /\ w = Update(l, Vacant[m], s)
      BY <1>2, <1>6, <2>2, <3>1, <3>2 DEF AskFor, MovedFor, MadeFor
    <3>5. n = m
      BY <1>4, <3>3, <3>4
    <3> QED BY <3>3, <3>4, <3>5
  <2>5. a <= fr \/ a > fr
    BY <1>3, <2>1
  <2> QED BY <2>3, <2>4, <2>5
<1> QED BY <1>5, <1>6

\* None is for a leader that needs no request.
LEMMA NotBoth ==
  ASSUME CountInv, NEW found \in SUBSET Asked, NEW news, NEW l, NEW u, NEW w, NowFor(found, l, u), AskFor(found, news, l, w)
  PROVE  FALSE
<1>1. l \in found /\ l \notin Reused
  BY AskedAre DEF AskFor, CountInv
<1>2. CASE Src(l) \in multicast
  BY <1>1, <1>2 DEF NowFor, AskFor, MovedFor, MadeFor
<1>3. CASE Src(l) \notin multicast
  BY <1>1, <1>3 DEF NowFor, AskFor, MovedFor, MadeFor
<1> QED BY <1>2, <1>3

(***************************************************************************)
(* The requests of the plan                                                *)
(***************************************************************************)

\* What a request of the plan is, in the list for the key k
Plans(found, news, k, r) ==
  /\ r \in Request /\ r.flow \in Indices
  /\ \/ r.t = "update" /\ k[1] = "unicast" /\ r.flow \in FlowsOf("unicast", k[2])
     \/ r.t = "create" /\ \E n \in DOMAIN news : r.flow = Vacant[n] /\ <<news[n].kind, news[n].server>> = k
  /\ \A u \in r.updates : u.flow = r.flow /\ \E l \in found : u.chs = Aliases(l) /\ AskFor(found, news, l, u)

Planned(found, news, k, q) ==
  /\ q \in Seq(Request) /\ \A i \in DOMAIN q : Plans(found, news, k, q[i])
  /\ \A i, j \in DOMAIN q : q[i].flow = q[j].flow => i = j

Listed(found, news, k, type, q) == Planned(found, news, k, q) /\ \A i \in DOMAIN q : q[i].t = type

LEMMA UpdateRequestsAre ==
  ASSUME CountInv, NEW found \in SUBSET Asked, NEW news, NEW k, k[1] = "unicast", NEW q, q = UpdateRequests(found, k[2])
  PROVE  Listed(found, news, k, "update", q)
<1>v. PICK v : v = k[2]
  OBVIOUS
<1>q. q = UpdateRequests(found, v)
  BY <1>v
<1>1. TypeOK
  BY DEF CountInv
<1>2. PICK S, moved, n : S = {u.flow : u \in Moves(found, v)} /\ moved = Sorted(S) /\ n = Cardinality(S)
  OBVIOUS
<1>3. S \subseteq FlowsOf("unicast", v) /\ S \subseteq Indices
  BY <1>2, MovesAre DEF FlowsOf
<1>4. IsFiniteSet(S) /\ S \subseteq Nat
  BY <1>3, Numbers, FS_Subset
<1>5. /\ n \in Nat /\ DOMAIN moved = 1 .. n /\ \A i \in 1 .. n : moved[i] \in S
      /\ \A i, j \in 1 .. n : moved[i] = moved[j] => i = j
  BY <1>2, <1>4, SortedIs
<1>6. DOMAIN q = 1 .. n
  BY <1>q, <1>2, <1>5 DEF UpdateRequests
<1>7. ASSUME NEW i \in 1 .. n
      PROVE  /\ q[i] \in Request /\ q[i].t = "update" /\ q[i].flow = moved[i]
             /\ q[i].updates = {u \in Moves(found, v) : u.flow = moved[i]}
  <2>1. PICK f, us : f = moved[i] /\ us = {u \in Moves(found, v) : u.flow = moved[i]}
    OBVIOUS
  <2>2. f \in Indices /\ flows[f] # None
    BY <1>3, <1>5, <2>1 DEF FlowsOf
  <2>3. us \in SUBSET ChannelSourceUpdate
    BY <2>1, MovesAre
  <2>4. PICK tx : tx = [s \in Slots |-> IF \E u \in us : u.slot = s THEN (CHOOSE u \in us : u.slot = s).src ELSE flows[f].tx[s]]
    OBVIOUS
  <2>5. PICK p : p = [t |-> "update", flow |-> f, updates |-> us, tx |-> tx]
    OBVIOUS
  <2>6. q[i] = p
    <3>1. q[i] = UpdateRequest(found, v, f)
      BY <1>q, <1>2, <1>5, <2>1 DEF UpdateRequests
    <3>2. us = {u \in Moves(found, v) : u.flow = f}
      BY <2>1
    <3>3. UpdateRequest(found, v, f) = p
      BY <2>4, <2>5, <3>2 DEF UpdateRequest
    <3> QED BY <3>1, <3>3
  <2>7. tx \in [Slots -> Sources \cup {None}]
    <3>1. flows[f].tx \in [Slots -> Sources \cup {None}]
      BY <1>1, <2>2 DEF TypeOK, Flow
    <3>2. ASSUME NEW s \in Slots, \E u \in us : u.slot = s PROVE (CHOOSE u \in us : u.slot = s).src \in Sources
      <4>1. PICK w : w = CHOOSE u \in us : u.slot = s
        OBVIOUS
      <4>2. w \in us
        BY <3>2, <4>1
      <4>3. w \in ChannelSourceUpdate
        BY <2>3, <4>2
      <4> QED BY <4>1, <4>3 DEF ChannelSourceUpdate
    <3> QED BY <2>4, <3>1, <3>2
  <2>8. p \in Request /\ p.t = "update" /\ p.flow = f /\ p.updates = us
    BY <2>2, <2>3, <2>5, <2>7 DEF Request
  <2> QED BY <2>1, <2>6, <2>8
<1>8. q \in Seq(Request)
  <2>1. q = [i \in 1 .. n |-> q[i]]
    BY <1>q, <1>2, <1>5 DEF UpdateRequests
  <2> QED BY <1>5, <1>7, <2>1
<1>9. ASSUME NEW i \in DOMAIN q
      PROVE  q[i].t = "update" /\ Plans(found, news, k, q[i])
  <2>1. q[i].t = "update" /\ q[i].flow \in FlowsOf("unicast", v)
    BY <1>3, <1>5, <1>6, <1>7
  <2>2. ASSUME NEW u \in q[i].updates
        PROVE  u.flow = q[i].flow /\ \E l \in found : u.chs = Aliases(l) /\ AskFor(found, news, l, u)
    <3>1. u \in Moves(found, v) /\ u.flow = q[i].flow
      BY <1>6, <1>7
    <3>2. PICK l \in found : u.chs = Aliases(l) /\ MovedFor(found, l, u)
      BY <3>1, MovesAre
    <3> QED BY <3>1, <3>2 DEF AskFor
  <2>3. q[i] \in Request
    BY <1>6, <1>7
  <2>4. q[i].flow \in Indices
    BY <2>1 DEF FlowsOf
  <2> QED BY <1>v, <2>1, <2>2, <2>3, <2>4 DEF Plans
<1>10. \A i, j \in DOMAIN q : q[i].flow = q[j].flow => i = j
  BY <1>5, <1>6, <1>7
<1> QED BY <1>8, <1>9, <1>10 DEF Listed, Planned

LEMMA MadeAre ==
  ASSUME CountInv, NEW found \in SUBSET Asked, NEW news, FlowsToMake(news), NEW n \in DOMAIN news,
         NEW u \in NewUpdates(found, news[n], Vacant[n])
  PROVE  /\ u.flow = Vacant[n] /\ u \in ChannelSourceUpdate
         /\ \E l \in found : u.chs = Aliases(l) /\ AskFor(found, news, l, u)
<1>1. /\ news[n].kind \in {"unicast", "multicast"} /\ news[n].server \in Servers /\ n \in 1 .. Len(Vacant)
      /\ news[n].kind = "multicast" => FlowsOf("multicast", news[n].server) = {}
  BY DEF FlowsToMake
<1>2. Vacant[n] \in Indices
  BY <1>1, VacantAre
<1>3. /\ u.flow = Vacant[n] /\ u \in ChannelSourceUpdate
      /\ \E l \in found : u.chs = Aliases(l) /\ MadeFor(found, news, l, n, u)
  BY <1>1, <1>2, NewUpdatesAre
<1> QED BY <1>3 DEF AskFor

LEMMA CreateRequestsAre ==
  ASSUME CountInv, NEW found \in SUBSET Asked, NEW news, FlowsToMake(news), NEW k, NEW q, q = CreateRequests(found, news, k)
  PROVE  Listed(found, news, k, "create", q)
<1>1. Len(news) \in Nat /\ DOMAIN news = 1 .. Len(news) /\ \A n \in DOMAIN news : n \in 1 .. Len(Vacant)
  BY DEF FlowsToMake
<1>2. \A n \in DOMAIN news : n \in 1 .. Len(Vacant) /\ Vacant[n] \in Indices
  BY <1>1, VacantAre
<1>3. PICK S, own, m : S = {n \in DOMAIN news : <<news[n].kind, news[n].server>> = k} /\ own = Own(news, k) /\ m = Cardinality(S)
  OBVIOUS
<1>4. IsFiniteSet(S) /\ S \subseteq Nat
  <2>1. IsFiniteSet(1 .. Len(news)) /\ S \subseteq 1 .. Len(news)
    BY <1>1, <1>3, FS_Interval
  <2>2. IsFiniteSet(S)
    BY <2>1, FS_Subset
  <2>3. \A n \in 1 .. Len(news) : n \in Nat
    BY <1>1
  <2> QED BY <2>1, <2>2, <2>3
<1>m. m = Cardinality(S)
  BY <1>3
<1>5. own = Sorted(S)
  BY <1>3 DEF Own
<1>6. /\ m \in Nat /\ DOMAIN own = 1 .. m /\ \A i \in 1 .. m : own[i] \in S
      /\ \A i, j \in 1 .. m : own[i] = own[j] => i = j
  BY <1>m, <1>4, <1>5, SortedIs
<1>7. DOMAIN q = 1 .. m /\ q = [i \in 1 .. m |-> q[i]]
  BY <1>3, <1>6 DEF CreateRequests
<1>8. ASSUME NEW i \in 1 .. m
      PROVE  /\ q[i] \in Request /\ q[i].t = "create" /\ q[i].flow = Vacant[own[i]]
             /\ q[i].updates = NewUpdates(found, news[own[i]], Vacant[own[i]]) /\ own[i] \in DOMAIN news
  <2>1. PICK n, us : n = own[i] /\ us = NewUpdates(found, news[n], Vacant[n])
    OBVIOUS
  <2>2. n \in DOMAIN news /\ Vacant[n] \in Indices
    BY <1>2, <1>3, <1>6, <2>1
  <2>3. us \in SUBSET ChannelSourceUpdate
    BY <2>1, <2>2, MadeAre
  <2>4. PICK p : p = [t |-> "create", flow |-> Vacant[n], updates |-> us]
    OBVIOUS
  <2>5. q[i] = p
    BY <1>3, <1>6, <2>1, <2>4 DEF CreateRequests
  <2>6. p \in Request /\ p.t = "create" /\ p.flow = Vacant[n] /\ p.updates = us
    BY <2>2, <2>3, <2>4 DEF Request
  <2> QED BY <2>1, <2>2, <2>5, <2>6
<1>9. q \in Seq(Request)
  BY <1>6, <1>7, <1>8
<1>10. ASSUME NEW i \in DOMAIN q
       PROVE  q[i].t = "create" /\ Plans(found, news, k, q[i])
  <2>1. PICK n : n = own[i]
    OBVIOUS
  <2>2. n \in S /\ n \in DOMAIN news /\ q[i].t = "create" /\ q[i].flow = Vacant[n] /\ q[i].updates = NewUpdates(found, news[n], Vacant[n])
    BY <1>6, <1>7, <1>8, <2>1
  <2>3. <<news[n].kind, news[n].server>> = k /\ Vacant[n] \in Indices
    BY <1>2, <1>3, <2>2
  <2>4. ASSUME NEW u \in q[i].updates
        PROVE  u.flow = q[i].flow /\ \E l \in found : u.chs = Aliases(l) /\ AskFor(found, news, l, u)
    <3>1. u \in NewUpdates(found, news[n], Vacant[n])
      BY <2>2
    <3> QED BY <2>2, <3>1, MadeAre
  <2>5. q[i] \in Request
    BY <1>7, <1>8
  <2> QED BY <2>2, <2>3, <2>4, <2>5 DEF Plans
<1>11. ASSUME NEW i \in DOMAIN q, NEW j \in DOMAIN q, q[i].flow = q[j].flow PROVE i = j
  <2>1. Vacant[own[i]] = Vacant[own[j]] /\ own[i] \in 1 .. Len(Vacant) /\ own[j] \in 1 .. Len(Vacant)
    BY <1>2, <1>7, <1>8, <1>11
  <2>2. own[i] = own[j]
    BY <2>1, VacantAre
  <2> QED BY <1>6, <1>7, <2>2
<1> QED BY <1>9, <1>10, <1>11 DEF Listed, Planned

LEMMA PlanIs ==
  ASSUME CountInv, NEW found \in SUBSET Asked, NEW news, FlowsToMake(news), NEW k, NEW q,
         q = (IF k[1] = "unicast" THEN UpdateRequests(found, k[2]) ELSE <<>>) \o CreateRequests(found, news, k)
  PROVE  Planned(found, news, k, q)
<1>1. PICK a, b, n, m : /\ a = IF k[1] = "unicast" THEN UpdateRequests(found, k[2]) ELSE <<>>
                        /\ b = CreateRequests(found, news, k) /\ n = Len(a) /\ m = Len(b)
  OBVIOUS
<1>2. /\ a \in Seq(Request) /\ \A i \in DOMAIN a : a[i].t = "update" /\ Plans(found, news, k, a[i])
      /\ \A i, j \in DOMAIN a : a[i].flow = a[j].flow => i = j
  <2>1. Listed(found, news, k, "update", a)
    <3>1. CASE k[1] = "unicast"
      <4>1. a = UpdateRequests(found, k[2])
        BY <1>1, <3>1
      <4> QED BY <3>1, <4>1, UpdateRequestsAre
    <3>2. CASE k[1] # "unicast"
      <4>1. a = <<>>
        BY <1>1, <3>2
      <4> QED BY <4>1 DEF Listed, Planned
    <3> QED BY <3>1, <3>2
  <2> QED BY <2>1 DEF Listed, Planned
<1>b. b = CreateRequests(found, news, k)
  BY <1>1
<1>3. /\ b \in Seq(Request) /\ \A i \in DOMAIN b : b[i].t = "create" /\ Plans(found, news, k, b[i])
      /\ \A i, j \in DOMAIN b : b[i].flow = b[j].flow => i = j
  <2>1. Listed(found, news, k, "create", b)
    BY <1>b, CreateRequestsAre
  <2> QED BY <2>1 DEF Listed, Planned
<1>4. n \in Nat /\ DOMAIN a = 1 .. n /\ m \in Nat /\ DOMAIN b = 1 .. m
  BY <1>1, <1>2, <1>3
<1>5. q = a \o b
  BY <1>1
<1>6. q \in Seq(Request) /\ Len(q) = n + m
  BY <1>1, <1>2, <1>3, <1>5, ConcatProperties
<1>7. \A i \in 1 .. n + m : q[i] = IF i <= n THEN a[i] ELSE b[i - n]
  BY <1>1, <1>2, <1>3, <1>5, ConcatProperties
<1>8. ASSUME NEW i \in DOMAIN q
      PROVE  \/ i \in DOMAIN a /\ q[i] = a[i]
             \/ i - n \in DOMAIN b /\ q[i] = b[i - n] /\ i \in Nat
  <2>1. i \in 1 .. n + m
    BY <1>4, <1>6
  <2>2. CASE i <= n
    BY <1>4, <1>7, <2>1, <2>2
  <2>3. CASE ~(i <= n)
    <3>1. PICK j : j = i - n
      OBVIOUS
    <3>2. i \in Nat /\ j \in 1 .. m
      BY <1>4, <2>1, <2>3, <3>1
    <3>3. q[i] = b[j]
      BY <1>7, <2>1, <2>3, <3>1
    <3> QED BY <1>4, <3>1, <3>2, <3>3
  <2> QED BY <2>2, <2>3
<1>9. ASSUME NEW i \in DOMAIN q PROVE Plans(found, news, k, q[i])
  <2>1. CASE i \in DOMAIN a /\ q[i] = a[i]
    BY <1>2, <2>1
  <2>2. CASE i - n \in DOMAIN b /\ q[i] = b[i - n]
    BY <1>3, <2>2
  <2> QED BY <1>8, <2>1, <2>2
<1>10. \A i \in DOMAIN a, j \in DOMAIN b : a[i].flow # b[j].flow
  <2> SUFFICES ASSUME NEW i \in DOMAIN a, NEW j \in DOMAIN b PROVE a[i].flow # b[j].flow
    OBVIOUS
  <2>1. flows[a[i].flow] # None
    BY <1>2 DEF Plans, FlowsOf
  <2>2. PICK x \in DOMAIN news : b[j].flow = Vacant[x]
    BY <1>3 DEF Plans
  <2>3. x \in 1 .. Len(Vacant)
    BY DEF FlowsToMake
  <2> QED BY <2>1, <2>2, <2>3, VacantAre
<1>11. ASSUME NEW i \in DOMAIN q, NEW j \in DOMAIN q, q[i].flow = q[j].flow PROVE i = j
  <2>1. CASE i \in DOMAIN a /\ q[i] = a[i] /\ j \in DOMAIN a /\ q[j] = a[j]
    BY <1>2, <1>11, <2>1
  <2>2. CASE i - n \in DOMAIN b /\ q[i] = b[i - n] /\ i \in Nat /\ j - n \in DOMAIN b /\ q[j] = b[j - n] /\ j \in Nat
    <3>1. PICK x, y : x = i - n /\ y = j - n
      OBVIOUS
    <3>2. x \in DOMAIN b /\ y \in DOMAIN b /\ b[x].flow = b[y].flow
      BY <1>11, <2>2, <3>1
    <3>3. x = y
      BY <1>3, <3>2
    <3> QED BY <1>4, <2>2, <3>1, <3>3
  <2> QED BY <1>8, <1>10, <1>11, <2>1, <2>2
<1> QED BY <1>6, <1>9, <1>11 DEF Planned

LEMMA NewFlowIs ==
  ASSUME NEW n, NEW id \in Nat, NEW us \in SUBSET ChannelSourceUpdate, n.kind \in {"unicast", "multicast"}, n.server \in Servers
  PROVE  /\ NewFlow(n, id, us) \in Flow /\ NewFlow(n, id, us) # None
         /\ NewFlow(n, id, us).kind = n.kind /\ NewFlow(n, id, us).server = n.server
         /\ \A k \in Slots : NewFlow(n, id, us).refcount[k] = 0
<1>1. PICK tx : tx = [k \in Slots |-> IF n.kind = "unicast" /\ \E u \in us : u.slot = k
                                      THEN (CHOOSE u \in us : u.slot = k).src ELSE None]
  OBVIOUS
<1>2. PICK rc : rc = [k \in Slots |-> 0]
  OBVIOUS
<1>3. PICK rb : rb = [k \in Slots |-> FALSE]
  OBVIOUS
<1>4. PICK p : p = [id |-> id, kind |-> n.kind, server |-> n.server, handle |-> FALSE, refcount |-> rc, rb |-> rb,
                    seen |-> "new", tx |-> tx]
  OBVIOUS
<1>5. NewFlow(n, id, us) = p
  BY <1>1, <1>2, <1>3, <1>4 DEF NewFlow
<1>6. tx \in [Slots -> Sources \cup {None}]
  <2>1. ASSUME NEW k \in Slots, \E u \in us : u.slot = k PROVE (CHOOSE u \in us : u.slot = k).src \in Sources
    <3>1. PICK w : w = CHOOSE u \in us : u.slot = k
      OBVIOUS
    <3>2. w \in us
      BY <2>1, <3>1
    <3>3. w \in ChannelSourceUpdate
      BY <3>2
    <3> QED BY <3>1, <3>3 DEF ChannelSourceUpdate
  <2> QED BY <1>1, <2>1
<1>7. rc \in [Slots -> Nat] /\ rb \in [Slots -> BOOLEAN] /\ \A k \in Slots : rc[k] = 0
  BY <1>2, <1>3
<1>8. p \in Flow /\ p.kind = n.kind /\ p.server = n.server /\ p.refcount = rc
  BY <1>4, <1>6, <1>7 DEF Flow
<1> QED BY <1>5, <1>7, <1>8, NoneAssumption

\* What Resolve does with the flows
LEMMA FlowsAfter ==
  ASSUME CountInv, NEW found \in SUBSET Asked, NEW news, FlowsToMake(news),
         flows' = [f \in Indices |->
                    IF \E i \in DOMAIN news : Vacant[i] = f
                    THEN LET i == CHOOSE j \in DOMAIN news : Vacant[j] = f
                         IN  NewFlow(news[i], made + i, NewUpdates(found, news[i], f))
                    ELSE flows[f]]
  PROVE  /\ flows' \in [Indices -> {None} \cup Flow]
         /\ \A f \in Indices : flows[f] # None => flows'[f] = flows[f]
         /\ \A n \in DOMAIN news : /\ Vacant[n] \in Indices /\ flows[Vacant[n]] = None /\ flows'[Vacant[n]] # None
                                   /\ flows'[Vacant[n]].kind = news[n].kind /\ flows'[Vacant[n]].server = news[n].server
                                   /\ \A k \in Slots : flows'[Vacant[n]].refcount[k] = 0
         /\ \A f \in Indices : flows[f] = None /\ flows'[f] # None => \E n \in DOMAIN news : Vacant[n] = f
         /\ \A n, m \in DOMAIN news : Vacant[n] = Vacant[m] => n = m
<1>1. /\ flows \in [Indices -> {None} \cup Flow] /\ made \in Nat
  BY DEF CountInv, TypeOK
<1>2. \A n \in DOMAIN news : n \in 1 .. Len(Vacant) /\ n \in Nat /\ news[n].kind \in {"unicast", "multicast"} /\ news[n].server \in Servers
  BY DEF FlowsToMake
<1>3. /\ \A n \in DOMAIN news : Vacant[n] \in Indices /\ flows[Vacant[n]] = None
      /\ \A n, m \in DOMAIN news : Vacant[n] = Vacant[m] => n = m
  BY <1>2, VacantAre
<1>4. ASSUME NEW f \in Indices, ~\E n \in DOMAIN news : Vacant[n] = f PROVE flows'[f] = flows[f]
  BY <1>4
<1>5. ASSUME NEW n \in DOMAIN news
      PROVE  /\ flows'[Vacant[n]] \in Flow /\ flows'[Vacant[n]] # None
             /\ flows'[Vacant[n]].kind = news[n].kind /\ flows'[Vacant[n]].server = news[n].server
             /\ \A k \in Slots : flows'[Vacant[n]].refcount[k] = 0
  <2>1. PICK f, us, id : f = Vacant[n] /\ us = NewUpdates(found, news[n], f) /\ id = made + n
    OBVIOUS
  <2>2. PICK i : i = CHOOSE j \in DOMAIN news : Vacant[j] = f
    OBVIOUS
  <2>3. i \in DOMAIN news /\ Vacant[i] = f
    BY <2>1, <2>2
  <2>4. i = n
    BY <1>3, <2>1, <2>3
  <2>5. f \in Indices /\ \E j \in DOMAIN news : Vacant[j] = f
    BY <1>3, <2>1
  <2>6. flows'[f] = NewFlow(news[i], made + i, NewUpdates(found, news[i], f))
    BY <2>2, <2>5
  <2>7. flows'[f] = NewFlow(news[n], id, us)
    BY <2>1, <2>4, <2>6
  <2>8. us \in SUBSET ChannelSourceUpdate
    BY <2>1, MadeAre
  <2>9. id \in Nat
    BY <1>1, <1>2, <2>1
  <2>10. news[n].kind \in {"unicast", "multicast"} /\ news[n].server \in Servers
    BY <1>2
  <2>11. /\ flows'[f] \in Flow /\ flows'[f] # None /\ flows'[f].kind = news[n].kind /\ flows'[f].server = news[n].server
         /\ \A k \in Slots : flows'[f].refcount[k] = 0
    BY <2>7, <2>8, <2>9, <2>10, NewFlowIs
  <2> QED BY <2>1, <2>11
<1>6. \A f \in Indices : flows'[f] \in {None} \cup Flow
  <2> SUFFICES ASSUME NEW f \in Indices PROVE flows'[f] \in {None} \cup Flow
    OBVIOUS
  <2>1. CASE \E n \in DOMAIN news : Vacant[n] = f
    BY <1>5, <2>1
  <2>2. CASE ~\E n \in DOMAIN news : Vacant[n] = f
    BY <1>1, <1>4, <2>2
  <2> QED BY <2>1, <2>2
<1>7. flows' \in [Indices -> {None} \cup Flow]
  <2>1. DOMAIN flows' = Indices /\ flows' = [f \in Indices |-> flows'[f]]
    OBVIOUS
  <2> QED BY <1>6, <2>1
<1>8. \A f \in Indices : flows[f] # None => flows'[f] = flows[f]
  BY <1>3, <1>4
<1>9. \A f \in Indices : flows[f] = None /\ flows'[f] # None => \E n \in DOMAIN news : Vacant[n] = f
  BY <1>4
<1> QED BY <1>3, <1>5, <1>7, <1>8, <1>9

LEMMA ResolveStep ==
  ASSUME CountInv, Resolving
  PROVE  CountInv'
<1>1. PICK found \in SUBSET Asked, bundles \in SUBSET Servers : Resolve(found, bundles)
  BY DEF Resolving
<1>2. PICK news : news = NewFlows(found, bundles)
  OBVIOUS
<1>3. /\ made' = made + Len(news) /\ Len(news) <= Len(Vacant)
      /\ flows' = [f \in Indices |->
                    IF \E i \in DOMAIN news : Vacant[i] = f
                    THEN LET i == CHOOSE j \in DOMAIN news : Vacant[j] = f
                         IN  NewFlow(news[i], made + i, NewUpdates(found, news[i], f))
                    ELSE flows[f]]
      /\ requests' = [k \in Keys |->
                       (IF k[1] = "unicast" THEN UpdateRequests(found, k[2]) ELSE <<>>) \o CreateRequests(found, news, k)]
  BY <1>1, <1>2 DEF Resolve
<1>4. /\ phase' = "requests" /\ dirty' = FALSE /\ UNCHANGED <<commands, channels>>
      /\ saved' = (IF dirty THEN Wanted ELSE saved)
      /\ updates' = (IF UpdatesNow(found) = {} THEN <<>> ELSE <<UpdatesNow(found)>>)
  BY <1>1 DEF Resolve, NoMoreCommands, save_state, front
<1>5. FlowsToMake(news)
  BY <1>2, <1>3, NewsAre
<1>6. /\ flows' \in [Indices -> {None} \cup Flow]
      /\ \A f \in Indices : flows[f] # None => flows'[f] = flows[f]
      /\ \A n \in DOMAIN news : /\ Vacant[n] \in Indices /\ flows[Vacant[n]] = None /\ flows'[Vacant[n]] # None
                                /\ flows'[Vacant[n]].kind = news[n].kind /\ flows'[Vacant[n]].server = news[n].server
                                /\ \A k \in Slots : flows'[Vacant[n]].refcount[k] = 0
      /\ \A f \in Indices : flows[f] = None /\ flows'[f] # None => \E n \in DOMAIN news : Vacant[n] = f
      /\ \A n, m \in DOMAIN news : Vacant[n] = Vacant[m] => n = m
  BY <1>3, <1>5, FlowsAfter
<1>7. ASSUME NEW k \in Keys
      PROVE  /\ requests'[k] \in Seq(Request) /\ \A i \in DOMAIN requests'[k] : Plans(found, news, k, requests'[k][i])
             /\ \A i, j \in DOMAIN requests'[k] : requests'[k][i].flow = requests'[k][j].flow => i = j
  <2>1. PICK q : q = requests'[k]
    OBVIOUS
  <2>2. q = (IF k[1] = "unicast" THEN UpdateRequests(found, k[2]) ELSE <<>>) \o CreateRequests(found, news, k)
    BY <1>3, <2>1
  <2>3. Planned(found, news, k, q)
    BY <1>5, <2>2, PlanIs
  <2> QED BY <2>1, <2>3 DEF Planned
<1>8. requests' \in [Keys -> Seq(Request)]
  <2>1. requests' = [k \in Keys |-> requests'[k]]
    BY <1>3
  <2> QED BY <1>7, <2>1
<1>9. ASSUME NEW u \in UpdatesNow(found)
      PROVE  /\ u \in ChannelSourceUpdate /\ flows[u.flow] # None
             /\ \E l \in Leaders : NowFor(found, l, u) /\ u.chs = Aliases(l)
  BY NowIs
<1>10. /\ updates' \in Seq(SUBSET ChannelSourceUpdate)
       /\ \A i \in DOMAIN updates' : i = 1 /\ updates'[i] = UpdatesNow(found)
  <2>1. UpdatesNow(found) \in SUBSET ChannelSourceUpdate
    BY <1>9
  <2>2. CASE updates' = <<>>
    <3>1. updates' \in Seq(SUBSET ChannelSourceUpdate) /\ DOMAIN updates' = {}
      BY <2>2
    <3> QED BY <3>1
  <2>3. CASE updates' = <<UpdatesNow(found)>>
    BY <2>1, <2>3
  <2> QED BY <1>4, <2>2, <2>3
<1>11. TypeOK'
  <2>1. made' \in Nat
    BY <1>3, <1>5 DEF CountInv, TypeOK, FlowsToMake
  <2>2. saved' \in [Channels -> {None} \cup Sources]
    BY <1>4, WantedType DEF CountInv, TypeOK
  <2> QED BY <1>4, <1>6, <1>8, <1>10, <2>1, <2>2 DEF CountInv, TypeOK
<1>12. Needed' = Needed /\ (\A ch : Connected(ch)' <=> Connected(ch)) /\ (\A f, k : Joined(f, k)' = Joined(f, k))
  <2>1. \A ch : Connected(ch)' <=> Connected(ch)
    BY <1>4 DEF Connected, Subscribed
  <2>2. Needed' = Needed
    BY <1>4 DEF Needed, Connected, Subscribed
  <2> QED BY <1>4, <2>1, <2>2 DEF Joined
<1>13. Counted
  BY CountedIs DEF CountInv
<1>14. \A ch \in Channels : Connected(ch) => channels[ch].remote.flow \in Indices /\ flows[channels[ch].remote.flow] # None
  BY <1>13, SubscriptionIs DEF Counted, CountInv, TypeOK
<1>15. Counted'
  <2>1. \A ch \in Channels : Connected(ch)' => flows'[channels'[ch].remote.flow] # None
    BY <1>4, <1>6, <1>12, <1>14
  <2>2. ASSUME NEW f \in Indices, flows'[f] # None, NEW k \in Slots PROVE flows'[f].refcount[k] = Cardinality(Joined(f, k)')
    <3>1. CASE flows[f] # None
      BY <1>6, <1>12, <1>13, <3>1 DEF Counted
    <3>2. CASE flows[f] = None
      <4>1. flows'[f].refcount[k] = 0
        BY <1>6, <2>2, <3>2
      <4>2. Joined(f, k) = {}
        BY <1>14, <3>2 DEF Joined
      <4> QED BY <1>12, <4>1, <4>2, FS_EmptySet
    <3> QED BY <3>1, <3>2
  <2> QED BY <2>1, <2>2 DEF Counted
<1>16. OneBundle'
  <2> SUFFICES ASSUME NEW f \in Indices, NEW g \in Indices, flows'[f] # None, flows'[g] # None,
                      flows'[f].kind = "multicast", flows'[g].kind = "multicast", flows'[f].server = flows'[g].server
               PROVE  f = g
    BY DEF OneBundle
  <2>0. ASSUME NEW h \in Indices, flows'[h] # None, flows'[h].kind = "multicast"
        PROVE  \/ flows[h] # None /\ flows'[h] = flows[h] /\ h \in FlowsOf("multicast", flows'[h].server)
               \/ \E n \in DOMAIN news : /\ Vacant[n] = h /\ news[n].kind = "multicast" /\ news[n].server = flows'[h].server
                                         /\ FlowsOf("multicast", flows'[h].server) = {}
    <3>1. CASE flows[h] # None
      BY <1>6, <2>0, <3>1 DEF FlowsOf
    <3>2. CASE flows[h] = None
      <4>1. PICK n \in DOMAIN news : Vacant[n] = h
        BY <1>6, <2>0, <3>2
      <4>2. news[n].kind = "multicast" /\ news[n].server = flows'[h].server
        BY <1>6, <2>0, <4>1
      <4>3. FlowsOf("multicast", news[n].server) = {}
        BY <1>5, <4>2 DEF FlowsToMake
      <4> QED BY <4>1, <4>2, <4>3
    <3> QED BY <3>1, <3>2
  <2>1. CASE flows[f] # None /\ flows'[f] = flows[f] /\ flows[g] # None /\ flows'[g] = flows[g]
    BY <2>1 DEF CountInv, OneBundle
  <2>2. CASE \E n \in DOMAIN news : Vacant[n] = f /\ news[n].kind = "multicast" /\ news[n].server = flows'[f].server
    <3>1. PICK n \in DOMAIN news : Vacant[n] = f /\ news[n].kind = "multicast" /\ news[n].server = flows'[f].server
      BY <2>2
    <3>2. FlowsOf("multicast", flows'[g].server) = {}
      BY <1>5, <3>1 DEF FlowsToMake
    <3>3. PICK m \in DOMAIN news : Vacant[m] = g /\ news[m].kind = "multicast" /\ news[m].server = flows'[g].server
      BY <2>0, <3>2
    <3>4. n = m
      BY <1>5, <3>1, <3>3 DEF FlowsToMake
    <3> QED BY <3>1, <3>3, <3>4
  <2>3. CASE FlowsOf("multicast", flows'[g].server) = {}
    <3>1. FlowsOf("multicast", flows'[f].server) = {}
      BY <2>3
    <3>2. \E n \in DOMAIN news : Vacant[n] = f /\ news[n].kind = "multicast" /\ news[n].server = flows'[f].server
      BY <2>0, <3>1
    <3> QED BY <2>2, <3>2
  <2> QED BY <2>0, <2>1, <2>2, <2>3
<1>17. UpdatesFit'
  <2> SUFFICES ASSUME NEW i \in DOMAIN updates', NEW u \in updates'[i] PROVE u.chs \subseteq Needed /\ flows'[u.flow] # None
    BY <1>12 DEF UpdatesFit
  <2>1. u \in UpdatesNow(found)
    BY <1>10
  <2>2. u \in ChannelSourceUpdate /\ flows[u.flow] # None
    BY <1>9, <2>1
  <2>3. PICK l \in Leaders : u.chs = Aliases(l)
    BY <1>9, <2>1
  <2>4. u.flow \in Indices
    BY <2>2 DEF ChannelSourceUpdate
  <2> QED BY <1>6, <2>2, <2>3, <2>4, LeadersAre
<1>18. \A l \in found : l \in Leaders
  BY DEF Asked
<1>19. RequestsFit'
  <2> SUFFICES ASSUME NEW k \in Keys, NEW i \in DOMAIN requests'[k]
               PROVE  /\ flows'[requests'[k][i].flow] # None
                      /\ \A u \in requests'[k][i].updates : u.chs \subseteq Needed /\ u.flow = requests'[k][i].flow
    BY <1>12 DEF RequestsFit
  <2>1. PICK r : r = requests'[k][i]
    OBVIOUS
  <2>2. Plans(found, news, k, r)
    BY <1>7, <2>1
  <2>3. flows'[r.flow] # None
    <3>1. CASE r.flow \in FlowsOf("unicast", k[2])
      BY <1>6, <3>1 DEF FlowsOf
    <3>2. CASE \E n \in DOMAIN news : r.flow = Vacant[n]
      BY <1>6, <3>2
    <3> QED BY <2>2, <3>1, <3>2 DEF Plans
  <2>4. ASSUME NEW u \in r.updates PROVE u.chs \subseteq Needed /\ u.flow = r.flow
    <3>1. u.flow = r.flow
      BY <2>2 DEF Plans
    <3>2. PICK l \in found : u.chs = Aliases(l)
      BY <2>2 DEF Plans
    <3> QED BY <1>18, <3>1, <3>2, LeadersAre
  <2> QED BY <2>1, <2>3, <2>4
<1>20. ASSUME NEW k \in Keys, NEW i \in DOMAIN requests'[k], NEW l \in Keys, NEW j \in DOMAIN requests'[l],
              requests'[k][i].flow = requests'[l][j].flow
       PROVE  k = l /\ i = j
  <2>1. PICK r, w : r = requests'[k][i] /\ w = requests'[l][j]
    OBVIOUS
  <2>2. Plans(found, news, k, r) /\ Plans(found, news, l, w) /\ r.flow = w.flow
    BY <1>7, <1>20, <2>1
  <2>3. k = <<k[1], k[2]>> /\ l = <<l[1], l[2]>>
    BY DEF Keys
  <2>4. CASE /\ k[1] = "unicast" /\ r.flow \in FlowsOf("unicast", k[2])
             /\ l[1] = "unicast" /\ w.flow \in FlowsOf("unicast", l[2])
    <3>1. k[2] = l[2]
      BY <2>2, <2>4 DEF FlowsOf
    <3>2. k = l
      BY <2>3, <2>4, <3>1
    <3> QED BY <1>7, <1>20, <3>2
  <2>5. CASE /\ \E n \in DOMAIN news : r.flow = Vacant[n] /\ <<news[n].kind, news[n].server>> = k
             /\ \E n \in DOMAIN news : w.flow = Vacant[n] /\ <<news[n].kind, news[n].server>> = l
    <3>1. PICK n \in DOMAIN news : r.flow = Vacant[n] /\ <<news[n].kind, news[n].server>> = k
      BY <2>5
    <3>2. PICK m \in DOMAIN news : w.flow = Vacant[m] /\ <<news[m].kind, news[m].server>> = l
      BY <2>5
    <3>3. n = m
      BY <1>6, <2>2, <3>1, <3>2
    <3>4. k = l
      BY <3>1, <3>2, <3>3
    <3> QED BY <1>7, <1>20, <3>4
  <2>6. ASSUME NEW x, NEW n \in DOMAIN news PROVE Vacant[n] \notin FlowsOf("unicast", x)
    BY <1>6 DEF FlowsOf
  <2> QED BY <2>2, <2>4, <2>5, <2>6 DEF Plans
<1>21. NewIsUnused'
  <2> SUFFICES ASSUME NEW k \in Keys, NEW i \in DOMAIN requests'[k], requests'[k][i].t = "create"
               PROVE  LET f == requests'[k][i].flow
                      IN  /\ \A ch \in Channels : Connected(ch) => channels[ch].remote.flow # f
                          /\ \A j \in DOMAIN updates' : \A u \in updates'[j] : u.flow # f
                          /\ \A l \in Keys : \A j \in DOMAIN requests'[l] : requests'[l][j].flow = f => l = k /\ j = i
    BY <1>4, <1>12 DEF NewIsUnused
  <2>1. PICK f : f = requests'[k][i].flow
    OBVIOUS
  <2>2. Plans(found, news, k, requests'[k][i])
    BY <1>7
  <2>3. flows[f] = None
    BY <1>6, <2>1, <2>2 DEF Plans
  <2>4. \A ch \in Channels : Connected(ch) => channels[ch].remote.flow # f
    BY <1>14, <2>3
  <2>5. \A j \in DOMAIN updates' : \A u \in updates'[j] : u.flow # f
    BY <1>9, <1>10, <2>3
  <2>6. \A l \in Keys : \A j \in DOMAIN requests'[l] : requests'[l][j].flow = f => l = k /\ j = i
    BY <1>20, <2>1
  <2> QED BY <2>1, <2>4, <2>5, <2>6
<1>22. OneUpdateEach'
  <2>1. ASSUME NEW i \in DOMAIN updates', NEW j \in DOMAIN updates', NEW u \in updates'[i], NEW w \in updates'[j],
               u.chs \cap w.chs # {}
        PROVE  i = j /\ u = w
    <3>1. i = j /\ u \in UpdatesNow(found) /\ w \in UpdatesNow(found)
      BY <1>10
    <3>2. PICK l \in Leaders : NowFor(found, l, u) /\ u.chs = Aliases(l)
      BY <1>9, <3>1
    <3>3. PICK m \in Leaders : NowFor(found, m, w) /\ w.chs = Aliases(m)
      BY <1>9, <3>1
    <3>4. l = m
      BY <2>1, <3>2, <3>3, LeadersAre
    <3>5. u = w
      BY <3>2, <3>3, <3>4, OneNow
    <3> QED BY <3>1, <3>5
  <2>2. ASSUME NEW i \in DOMAIN updates', NEW u \in updates'[i], NEW k \in Keys, NEW j \in DOMAIN requests'[k],
               NEW w \in requests'[k][j].updates
        PROVE  u.chs \cap w.chs = {}
    <3> SUFFICES ASSUME u.chs \cap w.chs # {} PROVE FALSE
      OBVIOUS
    <3>1. u \in UpdatesNow(found)
      BY <1>10
    <3>2. PICK l \in Leaders : NowFor(found, l, u) /\ u.chs = Aliases(l)
      BY <1>9, <3>1
    <3>3. PICK m \in found : w.chs = Aliases(m) /\ AskFor(found, news, m, w)
      BY <1>7 DEF Plans
    <3>4. l = m
      BY <1>18, <3>2, <3>3, LeadersAre
    <3> QED BY <3>2, <3>3, <3>4, NotBoth
  <2>3. ASSUME NEW k \in Keys, NEW l \in Keys, NEW i \in DOMAIN requests'[k], NEW j \in DOMAIN requests'[l],
               NEW u \in requests'[k][i].updates, NEW w \in requests'[l][j].updates, u.chs \cap w.chs # {}
        PROVE  k = l /\ i = j /\ u = w
    <3>1. PICK x \in found : u.chs = Aliases(x) /\ AskFor(found, news, x, u) /\ u.flow = requests'[k][i].flow
      BY <1>7 DEF Plans
    <3>2. PICK y \in found : w.chs = Aliases(y) /\ AskFor(found, news, y, w) /\ w.flow = requests'[l][j].flow
      BY <1>7 DEF Plans
    <3>3. x = y
      BY <1>18, <2>3, <3>1, <3>2, LeadersAre
    <3>4. u = w
      BY <1>5, <3>1, <3>2, <3>3, OneAsk
    <3> QED BY <1>20, <3>1, <3>2, <3>4
  <2> QED BY <2>1, <2>2, <2>3 DEF OneUpdateEach
<1> QED BY <1>11, <1>15, <1>16, <1>17, <1>19, <1>21, <1>22, CountedIsNext DEF CountInv, PlanFits

(***************************************************************************)
(* The theorem                                                             *)
(***************************************************************************)

LEMMA CountStep ==
  ASSUME CountInv, [Next]_vars
  PROVE  CountInv'
<1>1. CASE FrontEnd
  BY <1>1, FrontEndStep
<1>2. CASE Worker
  <2>1. CASE Commands
    BY <2>1, CommandsStep
  <2>2. CASE Resolving
    BY <2>2, ResolveStep
  <2>3. CASE ApplyUpdates
    BY <2>3, ApplyStep
  <2>4. CASE ForgetUpdates
    BY <2>4, ForgetStep
  <2>5. CASE Scanning
    BY <2>5, ScanStep, DestroyStep DEF Scanning
  <2> QED BY <1>2, <2>1, <2>2, <2>3, <2>4, <2>5 DEF Worker
<1>3. CASE Requests
  BY <1>3, RequestsStep
<1>4. CASE Tasks \/ Receiver \/ UNCHANGED vars
  BY <1>4, OutsideStep
<1>5. CASE Environment
  BY <1>5, SeeStep, OutsideStep, RestartStep DEF Environment
<1> QED BY <1>1, <1>2, <1>3, <1>4, <1>5 DEF Next

\* The invariant that RefcountExact rests on: the types, one flow per bundle, and a plan
\* whose results fit one by one.
THEOREM CountInvariance == Spec => []CountInv
<1>1. Init => CountInv
  BY CountInit
<1>2. CountInv /\ [Next]_vars => CountInv'
  BY CountStep
<1> QED BY <1>1, <1>2, PTL DEF Spec

\* The reference counts of a flow are the numbers of channels connected to its slots, and
\* no channel is connected to a flow that is gone, whatever the subscriptions, the
\* transmitters, the failures and the order in which the tasks run.
THEOREM CountsAreExact == Spec => []RefcountExact
<1>1. CountInv => RefcountExact
  BY DEF CountInv
<1> QED BY <1>1, CountInvariance, PTL

(***************************************************************************)
(* What is stored                                                          *)
(***************************************************************************)

\* When every command received has been handled, they are what is stored.
CleanStored == ~dirty => saved = Wanted

LEMMA WantedKept == ASSUME UNCHANGED channels PROVE Wanted' = Wanted
  BY DEF Wanted, Subscribed

\* A channel whose flow is given up is still subscribed.
LEMMA ScanKeepsWanted ==
  ASSUME CountInv, scan_flows
  PROVE  Wanted' = Wanted
<1>1. CASE UNCHANGED channels
  BY <1>1, WantedKept
<1>2. CASE channels' = [ch \in Channels |-> IF ch \in Orphans THEN [channels[ch] EXCEPT !.remote = None] ELSE channels[ch]]
  <2>1. ASSUME NEW ch \in Channels PROVE Wanted'[ch] = Wanted[ch]
    <3>1. CASE ch \in Orphans
      <4>1. Subscribed(ch) /\ channels[ch] \in Subscription
        BY <3>1, SubscriptionIs DEF Orphans, Connected, CountInv, TypeOK
      <4>2. PICK s : s = [channels[ch] EXCEPT !.remote = None]
        OBVIOUS
      <4>3. s \in Subscription /\ s.src = channels[ch].src /\ channels'[ch] = s
        BY <1>2, <3>1, <4>1, <4>2 DEF Subscription
      <4>4. s # None
        BY <4>3, NoneAssumption
      <4> QED BY <4>1, <4>3, <4>4 DEF Wanted, Subscribed
    <3>2. CASE ch \notin Orphans
      BY <1>2, <3>2 DEF Wanted, Subscribed
    <3> QED BY <3>1, <3>2
  <2> QED BY <2>1 DEF Wanted
<1> QED BY <1>1, <1>2 DEF scan_flows

LEMMA LoadedIsWanted ==
  ASSUME CountInv, Restart
  PROVE  saved' = Wanted'
<1>1. saved \in [Channels -> {None} \cup Sources] /\ saved' = saved
  BY DEF CountInv, TypeOK, Restart
<1>2. ASSUME NEW ch \in Channels PROVE Wanted'[ch] = saved[ch]
  <2>1. CASE saved[ch] = None
    BY <2>1 DEF Restart, Wanted, Subscribed
  <2>2. CASE saved[ch] # None
    <3>1. PICK s : s = [src |-> saved[ch], remote |-> None]
      OBVIOUS
    <3>2. s \in Subscription /\ s.src = saved[ch] /\ channels'[ch] = s
      BY <1>1, <2>2, <3>1 DEF Subscription, Restart
    <3>3. s # None
      BY <3>2, NoneAssumption
    <3> QED BY <3>2, <3>3 DEF Wanted, Subscribed
  <2> QED BY <2>1, <2>2
<1> QED BY <1>1, <1>2 DEF Wanted

LEMMA StoredStep ==
  ASSUME CountInv, CleanStored, [Next]_vars
  PROVE  CleanStored'
<1>1. CASE UNCHANGED <<dirty, saved>> /\ Wanted' = Wanted
  BY <1>1 DEF CleanStored
<1>2. CASE NoMoreCommands /\ Wanted' = Wanted
  BY <1>2 DEF NoMoreCommands, save_state, CleanStored
<1>3. ASSUME UNCHANGED <<channels, dirty, saved>> PROVE CleanStored'
  BY <1>1, <1>3, WantedKept
<1>4. CASE FrontEnd
  BY <1>3, <1>4 DEF FrontEnd, Subscribe, Unsubscribe, ForceRefresh, Shutdown, Call, worker
<1>5. CASE Commands
  <2>1. CASE HandleShutdown
    BY <1>3, <2>1 DEF HandleShutdown, Handle
  <2>2. CASE HandleSubscribe \/ HandleUnsubscribe \/ HandleRefresh
    BY <2>2 DEF HandleSubscribe, HandleUnsubscribe, HandleRefresh, CleanStored
  <2> QED BY <1>5, <2>1, <2>2 DEF Commands
<1>6. CASE Resolving
  <2>1. NoMoreCommands /\ UNCHANGED channels
    BY <1>6 DEF Resolving, Resolve
  <2> QED BY <1>2, <2>1, WantedKept
<1>7. CASE ApplyUpdates
  <2>1. UNCHANGED <<dirty, saved>>
    BY <1>7 DEF ApplyUpdates, Received
  <2> QED BY <1>1, <1>7, <2>1, ApplyStep
<1>8. CASE ForgetUpdates
  BY <1>3, <1>8 DEF ForgetUpdates, Received
<1>9. CASE Scanning
  <2>1. CASE ScanOnly
    BY <1>2, <2>1, ScanKeepsWanted DEF ScanOnly
  <2>2. CASE ScanAfterResolving
    BY <1>1, <2>2, ScanKeepsWanted DEF ScanAfterResolving
  <2>3. CASE \E d \in destroying : DestroyFlow(d)
    BY <1>3, <2>3 DEF DestroyFlow
  <2> QED BY <1>9, <2>1, <2>2, <2>3 DEF Scanning
<1>10. CASE Requests
  BY <1>3, <1>10 DEF Requests, JoinBundle, FlowGranted, FlowRefused, FlowWithoutSocket, FlowUpdated, FlowNotUpdated, Running
<1>11. CASE Tasks \/ Receiver \/ UNCHANGED vars
  BY <1>3, <1>11 DEF Tasks, ConnectCollector, DisconnectCollector, ConnectSink, LeaveBundle, RunTask, Receiver, vars, worker
<1>12. CASE Environment
  <2>1. CASE Restart
    BY <2>1, LoadedIsWanted DEF CleanStored
  <2>2. CASE (\E f \in Indices : PacketArrives(f) \/ Silence(f)) \/ (\E n \in 1 .. MaxMade : TxDropsFlow(n))
             \/ (\E s \in Sources : TxChangesBundle(s))
    BY <1>3, <2>2 DEF PacketArrives, Silence, See, TxDropsFlow, TxChangesBundle, worker
  <2> QED BY <1>12, <2>1, <2>2 DEF Environment
<1> QED BY <1>4, <1>5, <1>6, <1>7, <1>8, <1>9, <1>10, <1>11, <1>12 DEF Next, Worker

\* Whenever the worker has handled the commands it received, even while it resolves or
\* scans, what is stored is what they have asked for; a restart loses nothing of it.
THEOREM CleanIsStored == Spec => [](~dirty => saved = Wanted)
<1>1. Init => CleanStored
  BY DEF Init, CleanStored, Wanted, Subscribed
<1>2. CountInv /\ CleanStored /\ [Next]_vars => CleanStored'
  BY StoredStep
<1>3. CleanStored => (~dirty => saved = Wanted)
  BY DEF CleanStored
<1> QED BY <1>1, <1>2, <1>3, CountInvariance, PTL DEF Spec

NotShutDown == phase # "ended" /\ \A i \in DOMAIN commands : commands[i].t # "shutdown"

LEMMA NotShutDownStep ==
  ASSUME "shutdown" \notin Operations, CountInv, NotShutDown, [Next]_vars
  PROVE  NotShutDown'
<1>1. CASE UNCHANGED commands /\ phase' # "ended"
  BY <1>1 DEF NotShutDown
<1>2. commands \in Seq(FrontEndCommand) /\ phase # "ended"
  BY DEF CountInv, TypeOK, NotShutDown
<1>3. CASE FrontEnd
  <2>1. PICK c : Call(c)
    BY <1>3 DEF FrontEnd, Subscribe, Unsubscribe, ForceRefresh, Shutdown
  <2>2. c.t # "shutdown" /\ commands' = Append(commands, c) /\ phase' = phase
    BY <2>1 DEF Call, worker
  <2> QED BY <1>2, <2>2 DEF NotShutDown
<1>4. CASE Commands
  <2>1. PICK type : Handle(type) /\ (type = "shutdown" \/ UNCHANGED phase)
    BY <1>4 DEF Commands, HandleSubscribe, HandleUnsubscribe, HandleRefresh, HandleShutdown
  <2>2. commands # <<>> /\ Head(commands).t = type /\ commands' = Tail(commands)
    BY <2>1 DEF Handle
  <2>3. type # "shutdown"
    BY <1>2, <2>2 DEF NotShutDown
  <2>4. \A i \in DOMAIN commands' : commands'[i].t # "shutdown"
    <3>1. ASSUME NEW i \in DOMAIN commands' PROVE i + 1 \in DOMAIN commands /\ commands'[i] = commands[i + 1]
      BY <1>2, <2>2
    <3> QED BY <3>1 DEF NotShutDown
  <2> QED BY <1>2, <2>1, <2>3, <2>4 DEF NotShutDown
<1>5. CASE Resolving \/ ApplyUpdates \/ ForgetUpdates
  BY <1>1, <1>2, <1>5 DEF Resolving, Resolve, ApplyUpdates, ForgetUpdates, Received, front
<1>6. CASE Scanning
  <2>1. CASE scan_flows
    BY <1>1, <1>2, <2>1 DEF scan_flows, front
  <2>2. CASE \E d \in destroying : DestroyFlow(d)
    BY <1>1, <1>2, <2>2 DEF DestroyFlow, front
  <2> QED BY <1>6, <2>1, <2>2 DEF Scanning, ScanOnly, ScanAfterResolving
<1>7. CASE Requests
  BY <1>1, <1>2, <1>7 DEF Requests, JoinBundle, FlowGranted, FlowRefused, FlowWithoutSocket, FlowUpdated, FlowNotUpdated, Running, front
<1>8. CASE Tasks \/ Receiver \/ UNCHANGED vars
  BY <1>1, <1>2, <1>8 DEF Tasks, ConnectCollector, DisconnectCollector, ConnectSink, LeaveBundle, RunTask, Receiver, vars, front, worker
<1>9. CASE Environment
  <2>1. CASE Restart
    BY <2>1 DEF Restart, NotShutDown
  <2>2. CASE (\E f \in Indices : PacketArrives(f) \/ Silence(f)) \/ (\E n \in 1 .. MaxMade : TxDropsFlow(n))
             \/ (\E s \in Sources : TxChangesBundle(s))
    BY <1>1, <1>2, <2>2 DEF PacketArrives, Silence, See, TxDropsFlow, TxChangesBundle, front, worker
  <2> QED BY <1>9, <2>1, <2>2 DEF Environment
<1> QED BY <1>3, <1>4, <1>5, <1>6, <1>7, <1>8, <1>9 DEF Next, Worker

\* A subscriber that is never shut down always has the subscriptions stored, at the latest
\* when the commands received have been handled.  (A shutdown command returns at once, and
\* what was handled just before it is not stored.)
THEOREM SubscriptionsAreSaved ==
  ASSUME "shutdown" \notin Operations
  PROVE  Spec => []SavedAll
<1>1. Init => NotShutDown
  BY DEF Init, NotShutDown
<1>2. CountInv /\ NotShutDown /\ [Next]_vars => NotShutDown'
  BY NotShutDownStep
<1>3. NotShutDown /\ (~dirty => saved = Wanted) => SavedAll
  BY DEF NotShutDown, SavedAll
<1> QED BY <1>1, <1>2, <1>3, CountInvariance, CleanIsStored, PTL DEF Spec

(***************************************************************************)
(* The collector                                                           *)
(***************************************************************************)

LEMMA BothHold ==
  ASSUME NEW S, NEW p \in Seq(S), NEW q \in Seq(S)
  PROVE  p \o q \in Seq(S) /\ ToSet(p \o q) = ToSet(p) \cup ToSet(q)
<1>1. PICK m, n : m = Len(p) /\ n = Len(q)
  OBVIOUS
<1>2. m \in Nat /\ n \in Nat /\ DOMAIN p = 1 .. m /\ DOMAIN q = 1 .. n
  BY <1>1
<1>3. PICK r : r = p \o q
  OBVIOUS
<1>4. r \in Seq(S) /\ DOMAIN r = 1 .. m + n /\ \A i \in 1 .. m + n : r[i] = IF i <= m THEN p[i] ELSE q[i - m]
  BY <1>1, <1>2, <1>3, ConcatProperties, LenProperties
<1>5. ToSet(r) \subseteq ToSet(p) \cup ToSet(q)
  <2> SUFFICES ASSUME NEW i \in 1 .. m + n PROVE r[i] \in ToSet(p) \cup ToSet(q)
    BY <1>4 DEF ToSet
  <2>1. CASE i <= m
    <3>1. i \in DOMAIN p /\ r[i] = p[i]
      BY <1>2, <1>4, <2>1
    <3> QED BY <3>1 DEF ToSet
  <2>2. CASE i > m
    <3>1. i - m \in DOMAIN q /\ r[i] = q[i - m]
      BY <1>2, <1>4, <2>2
    <3> QED BY <3>1 DEF ToSet
  <2> QED BY <1>2, <2>1, <2>2
<1>6. ToSet(p) \subseteq ToSet(r)
  <2>1. ASSUME NEW i \in DOMAIN p PROVE i \in DOMAIN r /\ r[i] = p[i]
    BY <1>2, <1>4
  <2> QED BY <2>1 DEF ToSet
<1>7. ToSet(q) \subseteq ToSet(r)
  <2>1. ASSUME NEW i \in DOMAIN q PROVE i + m \in DOMAIN r /\ r[i + m] = q[i]
    BY <1>2, <1>4
  <2> QED BY <2>1 DEF ToSet
<1> QED BY <1>3, <1>4, <1>5, <1>6, <1>7

LEMMA SubSeqHolds ==
  ASSUME NEW S, NEW q \in Seq(S), NEW m \in Nat \ {0}, NEW n \in Nat, n <= Len(q)
  PROVE  SubSeq(q, m, n) \in Seq(S) /\ ToSet(SubSeq(q, m, n)) = {q[j] : j \in m .. n}
<1>1. PICK r : r = SubSeq(q, m, n)
  OBVIOUS
<1>2. \A i \in m .. n : q[i] \in S
  OBVIOUS
<1>3. r \in Seq(S) /\ Len(r) = (IF m <= n THEN n - m + 1 ELSE 0) /\ \A i \in 1 .. n - m + 1 : r[i] = q[m + i - 1]
  BY <1>1, <1>2, SubSeqProperties
<1>4. DOMAIN r = 1 .. n - m + 1
  BY <1>3
<1>5. ToSet(r) \subseteq {q[j] : j \in m .. n}
  <2>1. ASSUME NEW i \in 1 .. n - m + 1 PROVE m + i - 1 \in m .. n /\ r[i] = q[m + i - 1]
    BY <1>3
  <2> QED BY <1>4, <2>1 DEF ToSet
<1>6. ASSUME NEW j \in m .. n PROVE q[j] \in ToSet(r)
  <2>1. PICK i : i = j - m + 1
    OBVIOUS
  <2>2. i \in 1 .. n - m + 1 /\ m + i - 1 = j
    BY <2>1
  <2>3. r[i] = q[j]
    BY <1>3, <2>2
  <2> QED BY <1>4, <2>2, <2>3 DEF ToSet
<1> QED BY <1>1, <1>3, <1>5, <1>6

\* A task has been taken.
LEMMA OneTaken ==
  ASSUME NEW S, NEW q \in Seq(S), NEW i \in DOMAIN q
  PROVE  /\ RemoveAt(q, i) \in Seq(S) /\ q[i] \in S
         /\ ToSet(RemoveAt(q, i)) \subseteq ToSet(q)
         /\ ToSet(q) \subseteq ToSet(RemoveAt(q, i)) \cup {q[i]}
<1>1. PICK n : n = Len(q)
  OBVIOUS
<1>2. n \in Nat /\ DOMAIN q = 1 .. n /\ i \in 1 .. n /\ q[i] \in S
  BY <1>1
<1>3. PICK a, b : a = SubSeq(q, 1, i - 1) /\ b = SubSeq(q, i + 1, n)
  OBVIOUS
<1>4. a \in Seq(S) /\ ToSet(a) = {q[j] : j \in 1 .. i - 1}
  <2>1. PICK l, k : l = 1 /\ k = i - 1
    OBVIOUS
  <2>2. l \in Nat \ {0} /\ k \in Nat /\ k <= Len(q) /\ a = SubSeq(q, l, k)
    BY <1>1, <1>2, <1>3, <2>1
  <2>3. SubSeq(q, l, k) \in Seq(S) /\ ToSet(SubSeq(q, l, k)) = {q[j] : j \in l .. k}
    BY <2>2, SubSeqHolds
  <2> QED BY <2>1, <2>2, <2>3
<1>5. b \in Seq(S) /\ ToSet(b) = {q[j] : j \in i + 1 .. n}
  <2>1. PICK l : l = i + 1
    OBVIOUS
  <2>2. l \in Nat \ {0} /\ n \in Nat /\ n <= Len(q) /\ b = SubSeq(q, l, n)
    BY <1>1, <1>2, <1>3, <2>1
  <2>3. SubSeq(q, l, n) \in Seq(S) /\ ToSet(SubSeq(q, l, n)) = {q[j] : j \in l .. n}
    BY <2>2, SubSeqHolds
  <2> QED BY <2>1, <2>2, <2>3
<1>6. RemoveAt(q, i) = a \o b
  BY <1>1, <1>3 DEF RemoveAt
<1>7. a \o b \in Seq(S) /\ ToSet(a \o b) = ToSet(a) \cup ToSet(b)
  BY <1>4, <1>5, BothHold
<1>8. ToSet(q) = {q[j] : j \in 1 .. n}
  BY <1>2 DEF ToSet
<1>9. (1 .. i - 1) \subseteq 1 .. n /\ (i + 1 .. n) \subseteq 1 .. n /\ \A j \in 1 .. n : j \in 1 .. i - 1 \/ j = i \/ j \in i + 1 .. n
  BY <1>2
<1>10. ToSet(a) \cup ToSet(b) \subseteq ToSet(q) /\ ToSet(q) \subseteq ToSet(a) \cup ToSet(b) \cup {q[i]}
  BY <1>4, <1>5, <1>8, <1>9
<1> QED BY <1>2, <1>6, <1>7, <1>10

LEMMA EmptyHolds == ToSet(<<>>) = {} /\ \A S : <<>> \in Seq(S)
  BY DEF ToSet

LEMMA NothingWaits ==
  ASSUME MaxWaiting = 0, CollectorInv, GoesOn
  PROVE  tasks = <<>> /\ \A ch \in Channels : collector[ch] = Input(ch)
<1>1. tasks = <<>>
  <2>1. tasks \in Seq(Task) /\ Len(tasks) <= 0
    BY DEF CollectorInv, GoesOn
  <2> QED BY <2>1, EmptySeq
<1>2. ~\E c \in ToSet(tasks) : TRUE
  BY <1>1, EmptyHolds
<1> QED BY <1>1, <1>2 DEF CollectorInv, CalledFor

\* What the calls in the set C, spawned in a step that leaves the other channels alone, do
LEMMA SpawnedFit ==
  ASSUME CollectorInv, \A ch \in Channels : collector[ch] = Input(ch), UNCHANGED collector,
         tasks' \in Seq(Task), \A c \in ToSet(tasks') : CallFits(c)',
         \A ch \in Channels : Input(ch)' = Input(ch) \/ CalledFor(ch)'
  PROVE  CollectorInv'
<1>1. collector' \in [Channels -> {None} \cup Buffer]
  BY DEF CollectorInv
<1>2. \A ch \in Channels : collector'[ch] = Input(ch)' \/ CalledFor(ch)'
  OBVIOUS
<1> QED BY <1>1, <1>2 DEF CollectorInv

LEMMA TaskIs ==
  ASSUME NEW c \in Task
  PROVE  /\ c.t \in {"connect", "disconnect"} => c.ch \in Channels
         /\ c.t = "connect" => c.rb \in Buffer
  BY DEF Task

\* No call is spawned and every channel is to be read from where it was.
LEMMA InputsKept ==
  ASSUME CollectorInv, UNCHANGED <<tasks, collector>>, \A ch \in Channels : Input(ch)' = Input(ch)
  PROVE  CollectorInv'
<1>1. \A c \in ToSet(tasks) : c \in Task
  BY DEF CollectorInv, ToSet
<1>2. ASSUME NEW c \in ToSet(tasks) PROVE CallFits(c)'
  <2>1. CallFits(c) /\ c \in Task
    BY <1>1 DEF CollectorInv
  <2>2. c.t \in {"connect", "disconnect"} => Input(c.ch)' = Input(c.ch)
    BY <2>1, TaskIs
  <2> QED BY <2>1, <2>2 DEF CallFits
<1>3. \A ch \in Channels : CalledFor(ch)' <=> CalledFor(ch)
  BY DEF CalledFor
<1>4. ToSet(tasks') = ToSet(tasks)
  OBVIOUS
<1> QED BY <1>2, <1>3, <1>4 DEF CollectorInv

\* The flows that channels are connected to are still the same.
LEMMA SameInputs ==
  ASSUME CountInv, UNCHANGED channels, \A f \in Indices : flows[f] # None => flows'[f] = None \/ flows'[f].id = flows[f].id, CountInv'
  PROVE  \A ch \in Channels : Input(ch)' = Input(ch)
<1> SUFFICES ASSUME NEW ch \in Channels PROVE Input(ch)' = Input(ch)
  OBVIOUS
<1>1. Connected(ch)' <=> Connected(ch)
  BY DEF Connected, Subscribed
<1>2. CASE ~Connected(ch)
  BY <1>1, <1>2 DEF Input
<1>3. CASE Connected(ch)
  <2>1. PICK r : r = channels[ch].remote
    OBVIOUS
  <2>2. r.flow \in Indices
    BY <1>3, <2>1, SubscriptionIs DEF CountInv, TypeOK
  <2>3. flows[r.flow] # None
    BY <1>3, <2>1 DEF CountInv, RefcountExact
  <2>4. RefcountExact' /\ Connected(ch)' /\ channels'[ch].remote = r
    BY <1>1, <1>3, <2>1 DEF CountInv
  <2>5. flows'[r.flow] # None
    BY <2>4 DEF RefcountExact
  <2>6. flows'[r.flow].id = flows[r.flow].id
    BY <2>2, <2>3, <2>5
  <2> QED BY <1>1, <1>3, <2>1, <2>4, <2>6 DEF Input
<1> QED BY <1>2, <1>3

\* A spawned task runs.
LEMMA TasksCollect ==
  ASSUME CollectorInv, Tasks
  PROVE  CollectorInv'
<1>1. PICK i \in DOMAIN tasks : ConnectCollector(i) \/ DisconnectCollector(i) \/ ConnectSink(i) \/ LeaveBundle(i)
  BY DEF Tasks
<1>2. UNCHANGED <<channels, flows>> /\ tasks' = RemoveAt(tasks, i)
  BY <1>1 DEF ConnectCollector, DisconnectCollector, ConnectSink, LeaveBundle, RunTask, worker
<1>3. \A ch : Input(ch)' = Input(ch)
  BY <1>2 DEF Input, Connected, Subscribed
<1>4. PICK d : d = tasks[i]
  OBVIOUS
<1>5. /\ tasks' \in Seq(Task) /\ d \in Task
      /\ ToSet(tasks') \subseteq ToSet(tasks) /\ ToSet(tasks) \subseteq ToSet(tasks') \cup {d}
  BY <1>2, <1>4, OneTaken DEF CollectorInv
<1>6. d \in ToSet(tasks)
  BY <1>4 DEF ToSet
<1>7. CallFits(d)
  BY <1>6 DEF CollectorInv
<1>8. /\ collector' \in [Channels -> {None} \cup Buffer]
      /\ \A ch \in Channels : ch = d.ch /\ d.t \in {"connect", "disconnect"} => collector'[ch] = Input(ch)
      /\ \A ch \in Channels : ch # d.ch \/ d.t \notin {"connect", "disconnect"} => collector'[ch] = collector[ch]
  <2>1. collector \in [Channels -> {None} \cup Buffer]
    BY DEF CollectorInv
  <2>2. CASE d.t = "connect"
    <3>1. d.ch \in Channels /\ d.rb \in Buffer /\ d.rb = Input(d.ch)
      BY <1>5, <1>7, <2>2, TaskIs DEF CallFits
    <3>2. collector' = [collector EXCEPT ![d.ch] = d.rb]
      BY <1>1, <1>4, <2>2 DEF ConnectCollector, DisconnectCollector, ConnectSink, LeaveBundle, RunTask
    <3> QED BY <2>1, <2>2, <3>1, <3>2
  <2>3. CASE d.t = "disconnect"
    <3>1. d.ch \in Channels /\ None = Input(d.ch)
      BY <1>5, <1>7, <2>3, TaskIs DEF CallFits
    <3>2. collector' = [collector EXCEPT ![d.ch] = None]
      BY <1>1, <1>4, <2>3 DEF ConnectCollector, DisconnectCollector, ConnectSink, LeaveBundle, RunTask
    <3> QED BY <2>1, <2>3, <3>1, <3>2
  <2>4. CASE d.t \notin {"connect", "disconnect"}
    <3>1. UNCHANGED collector
      BY <1>1, <1>4, <2>4 DEF ConnectCollector, DisconnectCollector, ConnectSink, LeaveBundle, RunTask
    <3> QED BY <2>1, <2>4, <3>1
  <2> QED BY <2>2, <2>3, <2>4
<1>9. \A c \in ToSet(tasks') : CallFits(c)'
  <2>1. \A c \in ToSet(tasks') : CallFits(c)
    BY <1>5 DEF CollectorInv
  <2> QED BY <1>3, <2>1 DEF CallFits
<1>10. ASSUME NEW ch \in Channels PROVE collector'[ch] = Input(ch)' \/ CalledFor(ch)'
  <2>1. CASE ch = d.ch /\ d.t \in {"connect", "disconnect"}
    BY <1>3, <1>8, <2>1
  <2>2. CASE ch # d.ch \/ d.t \notin {"connect", "disconnect"}
    <3>1. collector'[ch] = collector[ch]
      BY <1>8, <2>2
    <3>2. CalledFor(ch) => CalledFor(ch)'
      BY <1>5, <2>2 DEF CalledFor
    <3> QED BY <1>3, <3>1, <3>2 DEF CollectorInv
  <2> QED BY <2>1, <2>2
<1> QED BY <1>5, <1>8, <1>9, <1>10 DEF CollectorInv

LEMMA DisconnectsAre ==
  ASSUME NEW D \in SUBSET Channels
  PROVE  /\ Disconnects(D) \in Seq(Task)
         /\ \A c \in ToSet(Disconnects(D)) : c.t = "disconnect" /\ c.ch \in D
         /\ \A ch \in D : \E c \in ToSet(Disconnects(D)) : c.t = "disconnect" /\ c.ch = ch
<1>1. PICK n, q : n = Cardinality(D) /\ q = Disconnects(D)
  OBVIOUS
<1>2. /\ n \in Nat /\ \A i \in 1 .. n : Sorted(D)[i] \in D
      /\ \A ch \in D : \E i \in 1 .. n : Sorted(D)[i] = ch
  BY <1>1, FiniteChannels, SortedIs
<1>3. ASSUME NEW i \in 1 .. n PROVE q[i] \in Task /\ q[i].t = "disconnect" /\ q[i].ch = Sorted(D)[i]
  <2>1. PICK c : c = [t |-> "disconnect", ch |-> Sorted(D)[i]]
    OBVIOUS
  <2>2. c \in Task /\ c.t = "disconnect" /\ c.ch = Sorted(D)[i]
    BY <1>2, <2>1 DEF Task
  <2>3. q[i] = c
    BY <1>1, <2>1 DEF Disconnects
  <2> QED BY <2>2, <2>3
<1>4. DOMAIN q = 1 .. n /\ q = [i \in 1 .. n |-> q[i]]
  BY <1>1 DEF Disconnects
<1>5. q \in Seq(Task)
  BY <1>2, <1>3, <1>4
<1>6. \A c \in ToSet(q) : c.t = "disconnect" /\ c.ch \in D
  BY <1>2, <1>3, <1>4 DEF ToSet
<1>7. \A ch \in D : \E c \in ToSet(q) : c.t = "disconnect" /\ c.ch = ch
  <2> SUFFICES ASSUME NEW ch \in D PROVE \E c \in ToSet(q) : c.t = "disconnect" /\ c.ch = ch
    OBVIOUS
  <2>1. PICK i \in 1 .. n : Sorted(D)[i] = ch
    BY <1>2
  <2>2. q[i] \in ToSet(q)
    BY <1>4, <2>1 DEF ToSet
  <2> QED BY <1>3, <2>1, <2>2
<1> QED BY <1>1, <1>5, <1>6, <1>7

\* A channel that stays connected where it was is read from where it was.
LEMMA InputKept ==
  ASSUME CountInv, NEW ch \in Channels, channels'[ch] = channels[ch],
         Connected(ch) => flows'[channels[ch].remote.flow].id = flows[channels[ch].remote.flow].id
  PROVE  Input(ch)' = Input(ch)
<1>1. Connected(ch)' <=> Connected(ch)
  BY DEF Connected, Subscribed
<1>2. CASE ~Connected(ch)
  BY <1>1, <1>2 DEF Input
<1>3. CASE Connected(ch)
  <2>1. PICK r : r = channels[ch].remote
    OBVIOUS
  <2>2. channels'[ch].remote = r /\ flows'[r.flow].id = flows[r.flow].id
    BY <1>3, <2>1
  <2> QED BY <1>1, <1>3, <2>1, <2>2 DEF Input
<1> QED BY <1>2, <1>3

LEMMA IsLive ==
  ASSUME CountInv, NEW ch \in Channels, Connected(ch)
  PROVE  channels[ch].remote.flow \in Indices /\ flows[channels[ch].remote.flow] # None /\ flows[channels[ch].remote.flow] \in Flow
<1>1. channels[ch].remote.flow \in Indices
  BY SubscriptionIs DEF CountInv, TypeOK
<1>2. flows[channels[ch].remote.flow] # None
  BY DEF CountInv, RefcountExact
<1> QED BY <1>1, <1>2 DEF CountInv, TypeOK

LEMMA LeaveCollects ==
  ASSUME MaxWaiting = 0, CountInv, CollectorInv, GoesOn, NEW ch \in Channels, NEW s, s # None => s.remote = None,
         Leave(ch), channels' = [channels EXCEPT ![ch] = s], UNCHANGED collector
  PROVE  CollectorInv'
<1>1. tasks = <<>> /\ \A c \in Channels : collector[c] = Input(c)
  BY NothingWaits
<1>2. channels \in [Channels -> {None} \cup Subscription] /\ flows \in [Indices -> {None} \cup Flow]
  BY DEF CountInv, TypeOK
<1>3. channels'[ch] = s /\ \A c \in Channels \ {ch} : channels'[c] = channels[c]
  BY <1>2
<1>4. ~Connected(ch)'
  BY <1>3 DEF Connected, Subscribed
<1>5. Input(ch)' = None
  BY <1>4 DEF Input
<1>6. CASE ~Connected(ch)
  <2>1. UNCHANGED <<flows, tasks>>
    BY <1>6 DEF Leave
  <2>2. \A c \in Channels \ {ch} : Input(c)' = Input(c)
    BY <1>3, <2>1, InputKept
  <2>3. Input(ch) = None
    BY <1>6 DEF Input
  <2> QED BY <1>5, <2>1, <2>2, <2>3, InputsKept
<1>7. CASE Connected(ch)
  <2>1. PICK f, k : f = channels[ch].remote.flow /\ k = channels[ch].remote.slot
    OBVIOUS
  <2>2. f \in Indices /\ flows[f] # None /\ flows[f] \in Flow
    BY <1>7, <2>1, IsLive
  <2>3. PICK g : g = [flows[f] EXCEPT !.refcount[k] = @ - 1]
    OBVIOUS
  <2>4. flows' = [flows EXCEPT ![f] = g]
    BY <1>7, <2>1, <2>2, <2>3 DEF Leave
  <2>5. g.id = flows[f].id
    BY <2>2, <2>3 DEF Flow
  <2>6. \A h \in Indices : flows'[h].id = flows[h].id
    BY <1>2, <2>2, <2>4, <2>5
  <2>7. \A c \in Channels \ {ch} : Input(c)' = Input(c)
    BY <1>3, <2>6, IsLive, InputKept
  <2>8. tasks' = tasks \o Disconnects({ch})
    BY <1>7 DEF Leave
  <2>9. PICK q : q = Disconnects({ch})
    OBVIOUS
  <2>10. {ch} \in SUBSET Channels
    OBVIOUS
  <2>11. /\ q \in Seq(Task) /\ (\A c \in ToSet(q) : c.t = "disconnect" /\ c.ch \in {ch})
         /\ \E c \in ToSet(q) : c.t = "disconnect" /\ c.ch = ch
    BY <2>9, <2>10, DisconnectsAre
  <2>12. tasks' = q
    BY <1>1, <2>8, <2>9, <2>11, ConcatEmptySeq
  <2>13. \A c \in ToSet(tasks') : CallFits(c)'
    BY <1>5, <2>11, <2>12 DEF CallFits
  <2>14. CalledFor(ch)'
    BY <2>11, <2>12 DEF CalledFor
  <2> QED BY <1>1, <2>7, <2>11, <2>12, <2>13, <2>14, SpawnedFit
<1> QED BY <1>6, <1>7

LEMMA CommandsCollect ==
  ASSUME MaxWaiting = 0, CountInv, CollectorInv, Commands
  PROVE  CollectorInv'
<1>1. PICK c : c = Head(commands)
  OBVIOUS
<1>2. PICK type : Handle(type)
  BY DEF Commands, HandleSubscribe, HandleUnsubscribe, HandleRefresh, HandleShutdown
<1>3. GoesOn /\ commands # <<>> /\ UNCHANGED collector
  BY <1>2 DEF Handle
<1>4. c \in FrontEndCommand
  BY <1>1, <1>3 DEF CountInv, TypeOK
<1>5. CASE HandleSubscribe
  <2>1. c.t = "subscribe" /\ Leave(c.ch) /\ channels' = [channels EXCEPT ![c.ch] = [src |-> c.src, remote |-> None]]
    BY <1>1, <1>5 DEF HandleSubscribe, Handle
  <2>2. c.ch \in Channels
    BY <1>4, <2>1 DEF FrontEndCommand
  <2>3. PICK s : s = [src |-> c.src, remote |-> None]
    OBVIOUS
  <2>4. s.remote = None
    BY <2>3
  <2> QED BY <1>3, <2>1, <2>2, <2>3, <2>4, LeaveCollects
<1>6. CASE HandleUnsubscribe
  <2>1. c.t = "unsubscribe" /\ Leave(c.ch) /\ channels' = [channels EXCEPT ![c.ch] = None]
    BY <1>1, <1>6 DEF HandleUnsubscribe, Handle
  <2>2. c.ch \in Channels
    BY <1>4, <2>1 DEF FrontEndCommand
  <2> QED BY <1>3, <2>1, <2>2, LeaveCollects
<1>7. CASE HandleRefresh \/ HandleShutdown
  <2>1. UNCHANGED <<channels, flows, tasks>>
    BY <1>7 DEF HandleRefresh, HandleShutdown
  <2>2. \A ch \in Channels : Input(ch)' = Input(ch)
    BY <2>1 DEF Input, Connected, Subscribed
  <2> QED BY <1>3, <2>1, <2>2, InputsKept
<1> QED BY <1>5, <1>6, <1>7 DEF Commands

LEMMA ScanCollects ==
  ASSUME MaxWaiting = 0, CountInv, CollectorInv, GoesOn, scan_flows, CountInv'
  PROVE  CollectorInv'
<1>1. UNCHANGED collector
  BY DEF scan_flows
<1>2. CASE UNCHANGED <<channels, flows, tasks>>
  <2>1. \A ch \in Channels : Input(ch)' = Input(ch)
    BY <1>2 DEF Input, Connected, Subscribed
  <2> QED BY <1>1, <1>2, <2>1, InputsKept
<1>3. ASSUME NEW gone, gone = Sorted(Dead \ {f \in Dead : flows[f].kind = "unicast"}),
             channels' = [ch \in Channels |-> IF ch \in Orphans THEN [channels[ch] EXCEPT !.remote = None] ELSE channels[ch]],
             flows' = [f \in Indices |-> IF f \in Dead THEN None ELSE flows[f]],
             tasks' = tasks \o Disconnects(Orphans) \o [i \in DOMAIN gone |-> [t |-> "remove", flow |-> gone[i]]]
      PROVE  CollectorInv'
  <2>1. tasks = <<>> /\ \A ch \in Channels : collector[ch] = Input(ch)
    BY NothingWaits
  <2>2. PICK q, p : q = Disconnects(Orphans) /\ p = [i \in DOMAIN gone |-> [t |-> "remove", flow |-> gone[i]]]
    OBVIOUS
  <2>3. /\ q \in Seq(Task) /\ (\A c \in ToSet(q) : c.t = "disconnect" /\ c.ch \in Orphans)
        /\ \A ch \in Orphans : \E c \in ToSet(q) : c.t = "disconnect" /\ c.ch = ch
    BY <2>2, DisconnectsAre DEF Orphans
  <2>4. p \in Seq(Task) /\ \A c \in ToSet(p) : c.t = "remove"
    <3>1. PICK S : S = Dead \ {f \in Dead : flows[f].kind = "unicast"}
      OBVIOUS
    <3>2. S \subseteq Indices /\ IsFiniteSet(S) /\ S \subseteq Nat
      <4>1. S \subseteq Indices
        BY <3>1 DEF Dead
      <4> QED BY <4>1, Numbers, FS_Subset
    <3>3. PICK n : n = Cardinality(S)
      OBVIOUS
    <3>4. n \in Nat /\ DOMAIN gone = 1 .. n /\ \A i \in 1 .. n : gone[i] \in S
      BY <1>3, <3>1, <3>2, <3>3, SortedIs
    <3>5. ASSUME NEW i \in 1 .. n PROVE p[i] \in Task /\ p[i].t = "remove"
      <4>1. PICK c : c = [t |-> "remove", flow |-> gone[i]]
        OBVIOUS
      <4>2. c \in Task /\ c.t = "remove"
        BY <3>2, <3>4, <4>1 DEF Task
      <4>3. p[i] = c
        BY <2>2, <3>4, <4>1
      <4> QED BY <4>2, <4>3
    <3>6. DOMAIN p = 1 .. n /\ p = [i \in 1 .. n |-> p[i]]
      BY <2>2, <3>4
    <3>7. p \in Seq(Task)
      BY <3>4, <3>5, <3>6
    <3> QED BY <3>5, <3>6, <3>7 DEF ToSet
  <2>5. tasks' = q \o p
    <3>1. tasks \o q = q
      BY <2>1, <2>3, ConcatEmptySeq
    <3> QED BY <1>3, <2>2, <3>1
  <2>6. tasks' \in Seq(Task) /\ ToSet(tasks') = ToSet(q) \cup ToSet(p)
    BY <2>3, <2>4, <2>5, BothHold
  <2>7. ASSUME NEW ch \in Orphans PROVE Input(ch)' = None
    <3>1. ch \in Channels /\ channels[ch] \in Subscription
      BY <2>7, SubscriptionIs DEF Orphans, Connected, CountInv, TypeOK
    <3>2. PICK s : s = [channels[ch] EXCEPT !.remote = None]
      OBVIOUS
    <3>3. s.remote = None /\ channels'[ch] = s
      BY <1>3, <3>1, <3>2 DEF Subscription
    <3>4. ~Connected(ch)'
      BY <3>3 DEF Connected
    <3> QED BY <3>4 DEF Input
  <2>8. ASSUME NEW ch \in Channels \ Orphans PROVE Input(ch)' = Input(ch)
    <3>1. channels'[ch] = channels[ch]
      BY <1>3
    <3>2. ASSUME Connected(ch) PROVE flows'[channels[ch].remote.flow].id = flows[channels[ch].remote.flow].id
      <4>1. Connected(ch)'
        BY <3>1, <3>2 DEF Connected, Subscribed
      <4>2. channels[ch].remote.flow \in Indices
        BY <3>2, IsLive
      <4>3. flows'[channels[ch].remote.flow] # None
        BY <3>1, <4>1 DEF CountInv, RefcountExact
      <4> QED BY <1>3, <4>2, <4>3
    <3> QED BY <3>1, <3>2, InputKept
  <2>9. \A c \in ToSet(tasks') : CallFits(c)'
    BY <2>3, <2>4, <2>6, <2>7 DEF CallFits
  <2>10. \A ch \in Orphans : CalledFor(ch)'
    BY <2>3, <2>6 DEF CalledFor
  <2> QED BY <1>1, <2>1, <2>6, <2>8, <2>9, <2>10, SpawnedFit
<1> QED BY <1>2, <1>3 DEF scan_flows

\* The ring buffers of a batch
LEMMA BuffersAre ==
  ASSUME CountInv, NEW us, Applied(us)
  PROVE  LET buffers == NewBuffers(us)
             q == [i \in DOMAIN buffers |->
                    [t |-> "sink", flow |-> FlowAt(buffers[i]), slot |-> SlotAt(buffers[i]),
                     rb |-> <<flows[FlowAt(buffers[i])].id, SlotAt(buffers[i])>>]]
         IN  q \in Seq(Task) /\ \A c \in ToSet(q) : c.t = "sink"
<1>1. PICK S : S = {Place(u.flow, u.slot) : u \in {v \in us : ~flows[v.flow].rb[v.slot]}}
  OBVIOUS
<1>2. \A u \in us : u.flow \in Indices /\ flows[u.flow] # None /\ u.slot \in Slots
  BY DEF Applied
<1>3. \A p \in S : \E f \in Indices, k \in Slots : p = f * PerFlow + k /\ flows[f] # None
  BY <1>1, <1>2 DEF Place
<1>4. IsFiniteSet(S) /\ S \subseteq Nat
  <2>1. IsFiniteSet(Indices) /\ IsFiniteSet(Slots) /\ Indices \subseteq Nat /\ Slots \subseteq Nat /\ PerFlow \in Nat
    BY Numbers
  <2>2. PICK R : IsFiniteSet(R) /\ R \subseteq Nat /\ \A f \in Indices, k \in Slots : f * PerFlow + k \in R
    BY <2>1, FiniteImage
  <2>3. S \subseteq R
    BY <1>3, <2>2
  <2> QED BY <2>2, <2>3, FS_Subset
<1>5. PICK buffers, n : buffers = Sorted(S) /\ n = Cardinality(S)
  OBVIOUS
<1>6. n \in Nat /\ DOMAIN buffers = 1 .. n /\ \A i \in 1 .. n : buffers[i] \in S
  BY <1>4, <1>5, SortedIs
<1>7. ASSUME NEW p \in S PROVE FlowAt(p) \in Indices /\ SlotAt(p) \in Slots /\ flows[FlowAt(p)].id \in Nat
  <2>1. PICK f \in Indices, k \in Slots : p = f * PerFlow + k /\ flows[f] # None
    BY <1>3
  <2>2. f \in Nat /\ k \in Nat /\ PerFlow \in Nat /\ k < PerFlow
    <3>1. f \in Nat /\ PerFlow \in Nat
      BY Numbers
    <3> QED BY <3>1 DEF Slots
  <2>3. p \div PerFlow = f /\ p % PerFlow = k
    BY <2>1, <2>2, Parts
  <2>4. flows[f] \in Flow
    BY <2>1 DEF CountInv, TypeOK
  <2>5. flows[f].id \in Nat
    BY <2>4 DEF Flow
  <2> QED BY <2>1, <2>3, <2>5 DEF FlowAt, SlotAt
<1>8. PICK q : q = [i \in DOMAIN buffers |->
                     [t |-> "sink", flow |-> FlowAt(buffers[i]), slot |-> SlotAt(buffers[i]),
                      rb |-> <<flows[FlowAt(buffers[i])].id, SlotAt(buffers[i])>>]]
  OBVIOUS
<1>9. ASSUME NEW i \in 1 .. n PROVE q[i] \in Task /\ q[i].t = "sink"
  <2>1. PICK f, k, b : f = FlowAt(buffers[i]) /\ k = SlotAt(buffers[i]) /\ b = <<flows[f].id, k>>
    OBVIOUS
  <2>2. f \in Indices /\ k \in Slots /\ b \in Buffer
    <3>1. buffers[i] \in S
      BY <1>6
    <3>2. FlowAt(buffers[i]) \in Indices /\ SlotAt(buffers[i]) \in Slots /\ flows[FlowAt(buffers[i])].id \in Nat
      BY <1>7, <3>1
    <3> QED BY <2>1, <3>2 DEF Buffer
  <2>3. PICK c : c = [t |-> "sink", flow |-> f, slot |-> k, rb |-> b]
    OBVIOUS
  <2>4. c \in Task /\ c.t = "sink"
    BY <2>2, <2>3 DEF Task
  <2>5. q[i] = c
    BY <1>6, <1>8, <2>1, <2>3
  <2> QED BY <2>4, <2>5
<1>10. DOMAIN q = 1 .. n /\ q = [i \in 1 .. n |-> q[i]]
  BY <1>6, <1>8
<1>11. q \in Seq(Task)
  BY <1>6, <1>9, <1>10
<1>12. \A c \in ToSet(q) : c.t = "sink"
  BY <1>9, <1>10 DEF ToSet
<1> QED BY <1>1, <1>5, <1>8, <1>11, <1>12 DEF NewBuffers

LEMMA ApplyCollects ==
  ASSUME MaxWaiting = 0, CountInv, CollectorInv, ApplyUpdates
  PROVE  CollectorInv'
<1>1. PICK us : us = {u \in Head(updates) : u.slot \in Slots}
  OBVIOUS
<1>2. Received /\ Apply(us)
  BY <1>1 DEF ApplyUpdates
<1>3. Applied(us)
  BY <1>1, <1>2, ApplyIs
<1>4. GoesOn /\ UNCHANGED collector
  BY <1>2 DEF Received
<1>5. tasks = <<>> /\ \A ch \in Channels : collector[ch] = Input(ch)
  BY <1>4, NothingWaits
<1>6. PICK chs : chs = UNION {u.chs : u \in us}
  OBVIOUS
<1>7. chs \in SUBSET Channels
  BY <1>3, <1>6 DEF Applied
<1>8. PICK joined, n : joined = Sorted(chs) /\ n = Cardinality(chs)
  OBVIOUS
<1>9. /\ n \in Nat /\ DOMAIN joined = 1 .. n /\ (\A i \in 1 .. n : joined[i] \in chs)
      /\ \A ch \in chs : \E i \in 1 .. n : joined[i] = ch
  BY <1>7, <1>8, FiniteChannels, SortedIs
<1>10. PICK upd : upd = [ch \in chs |-> CHOOSE u \in us : ch \in u.chs]
  OBVIOUS
<1>11. \A ch \in chs : upd[ch] \in us /\ ch \in upd[ch].chs
  <2> SUFFICES ASSUME NEW ch \in chs PROVE upd[ch] \in us /\ ch \in upd[ch].chs
    OBVIOUS
  <2>1. \E u \in us : ch \in u.chs
    BY <1>6
  <2>2. upd[ch] = CHOOSE u \in us : ch \in u.chs
    BY <1>10
  <2> QED BY <2>1, <2>2
<1>12. PICK q : q = [i \in DOMAIN joined |->
                      [t |-> "connect", ch |-> joined[i],
                       rb |-> <<flows[(CHOOSE u \in us : joined[i] \in u.chs).flow].id, (CHOOSE u \in us : joined[i] \in u.chs).slot>>]]
  OBVIOUS
<1>13. PICK p : p = [i \in DOMAIN NewBuffers(us) |->
                      [t |-> "sink", flow |-> FlowAt(NewBuffers(us)[i]), slot |-> SlotAt(NewBuffers(us)[i]),
                       rb |-> <<flows[FlowAt(NewBuffers(us)[i])].id, SlotAt(NewBuffers(us)[i])>>]]
  OBVIOUS
<1>14. tasks' = tasks \o q \o p
  BY <1>2, <1>6, <1>8, <1>12, <1>13 DEF Apply
<1>15. p \in Seq(Task) /\ \A c \in ToSet(p) : c.t = "sink"
  BY <1>3, <1>13, BuffersAre
<1>16. ASSUME NEW ch \in chs
       PROVE  Input(ch)' = <<flows[upd[ch].flow].id, upd[ch].slot>> /\ Input(ch)' \in Buffer
  <2>1. PICK u : u = upd[ch]
    OBVIOUS
  <2>2. u \in us /\ ch \in u.chs
    BY <1>11, <2>1
  <2>3. /\ channels'[ch].remote.flow = u.flow /\ channels'[ch].remote.slot = u.slot /\ Connected(ch)'
        /\ u.flow \in Indices /\ flows[u.flow] # None /\ u.slot \in Slots
    BY <1>3, <2>2 DEF Applied
  <2>4. flows'[u.flow].id = flows[u.flow].id
    BY <1>3, <2>3 DEF Applied
  <2>5. flows[u.flow] \in Flow
    BY <2>3 DEF CountInv, TypeOK
  <2>6. flows[u.flow].id \in Nat
    BY <2>5 DEF Flow
  <2>7. Input(ch)' = <<flows[u.flow].id, u.slot>>
    BY <2>3, <2>4 DEF Input
  <2> QED BY <2>1, <2>3, <2>6, <2>7 DEF Buffer
<1>17. ASSUME NEW i \in 1 .. n
       PROVE  q[i] \in Task /\ q[i].t = "connect" /\ q[i].ch = joined[i] /\ q[i].rb = Input(joined[i])'
  <2>1. PICK ch : ch = joined[i]
    OBVIOUS
  <2>2. ch \in chs /\ upd[ch] = CHOOSE u \in us : ch \in u.chs
    BY <1>9, <1>10, <2>1
  <2>3. PICK b : b = <<flows[upd[ch].flow].id, upd[ch].slot>>
    OBVIOUS
  <2>4. PICK c : c = [t |-> "connect", ch |-> ch, rb |-> b]
    OBVIOUS
  <2>5. b = Input(ch)' /\ b \in Buffer
    BY <1>16, <2>2, <2>3
  <2>6. c \in Task /\ c.t = "connect" /\ c.ch = ch /\ c.rb = b
    BY <1>7, <2>2, <2>4, <2>5 DEF Task
  <2>7. q[i] = c
    BY <1>9, <1>12, <2>1, <2>2, <2>3, <2>4
  <2> QED BY <2>1, <2>5, <2>6, <2>7
<1>18. DOMAIN q = 1 .. n /\ q = [i \in 1 .. n |-> q[i]]
  BY <1>9, <1>12
<1>19. q \in Seq(Task)
  BY <1>9, <1>17, <1>18
<1>20. \A c \in ToSet(q) : c.t = "connect" /\ c.rb = Input(c.ch)'
  <2> SUFFICES ASSUME NEW i \in 1 .. n PROVE q[i].t = "connect" /\ q[i].rb = Input(q[i].ch)'
    BY <1>18 DEF ToSet
  <2> QED BY <1>17
<1>21. tasks' = q \o p
  <2>1. tasks \o q = q
    BY <1>5, <1>19, ConcatEmptySeq
  <2> QED BY <1>14, <2>1
<1>22. tasks' \in Seq(Task) /\ ToSet(tasks') = ToSet(q) \cup ToSet(p)
  BY <1>15, <1>19, <1>21, BothHold
<1>23. \A c \in ToSet(tasks') : CallFits(c)'
  BY <1>15, <1>20, <1>22 DEF CallFits
<1>24. ASSUME NEW ch \in chs PROVE CalledFor(ch)'
  <2>1. PICK i \in 1 .. n : joined[i] = ch
    BY <1>9
  <2>2. q[i] \in ToSet(q)
    BY <1>18 DEF ToSet
  <2>3. q[i] \in ToSet(tasks') /\ q[i].t = "connect" /\ q[i].ch = ch
    BY <1>17, <1>22, <2>1, <2>2
  <2> QED BY <2>3 DEF CalledFor
<1>25. ASSUME NEW ch \in Channels \ chs PROVE Input(ch)' = Input(ch)
  <2>1. channels'[ch] = channels[ch]
    BY <1>3, <1>6 DEF Applied
  <2>2. ASSUME Connected(ch) PROVE flows'[channels[ch].remote.flow].id = flows[channels[ch].remote.flow].id
    <3>1. PICK f \in Indices : f = channels[ch].remote.flow /\ flows[f] # None
      BY <2>2, IsLive
    <3>2. flows'[f].id = flows[f].id
      BY <1>3, <3>1 DEF Applied
    <3> QED BY <3>1, <3>2
  <2> QED BY <2>1, <2>2, InputKept
<1> QED BY <1>4, <1>5, <1>22, <1>23, <1>24, <1>25, SpawnedFit

\* A flow that is being made or resolved, and what is heard of a flow, moves no channel.
LEMMA RequestsCollect ==
  ASSUME CountInv, CountInv', CollectorInv, Requests
  PROVE  CollectorInv'
<1>1. PICK k \in Keys : \/ JoinBundle(k) \/ FlowGranted(k) \/ FlowRefused(k) \/ FlowWithoutSocket(k)
                        \/ FlowUpdated(k) \/ FlowNotUpdated(k)
  BY DEF Requests
<1>2. UNCHANGED <<channels, tasks, collector>> /\ phase = "requests" /\ requests[k] # <<>>
      /\ requests' = [requests EXCEPT ![k] = Tail(@)]
  BY <1>1 DEF JoinBundle, FlowGranted, FlowRefused, FlowWithoutSocket, FlowUpdated, FlowNotUpdated, Running
<1>3. PICK f, g : f = Head(requests[k]).flow /\ g = [flows[f] EXCEPT !.handle = TRUE]
  OBVIOUS
<1>4. flows \in [Indices -> {None} \cup Flow]
  BY DEF CountInv, TypeOK
<1>5. UNCHANGED flows \/ flows' = [flows EXCEPT ![f] = None] \/ flows' = [flows EXCEPT ![f] = g]
  BY <1>1, <1>3 DEF JoinBundle, FlowGranted, FlowRefused, FlowWithoutSocket, FlowUpdated, FlowNotUpdated
<1>6. \A h \in Indices : flows[h] # None => flows'[h] = None \/ flows'[h].id = flows[h].id
  <2>1. CASE UNCHANGED flows
    BY <2>1
  <2>2. CASE flows' = [flows EXCEPT ![f] = None]
    BY <1>4, <2>2
  <2>3. CASE flows' = [flows EXCEPT ![f] = g]
    <3>1. ASSUME NEW h \in Indices, flows[h] # None PROVE flows'[h].id = flows[h].id
      <4>1. CASE h = f
        <5>1. flows[f] \in Flow
          BY <1>4, <3>1, <4>1
        <5>2. g.id = flows[f].id
          BY <1>3, <5>1 DEF Flow
        <5> QED BY <1>4, <2>3, <4>1, <5>2
      <4>2. CASE h # f
        BY <1>4, <2>3, <4>2
      <4> QED BY <4>1, <4>2
    <3> QED BY <3>1
  <2> QED BY <1>5, <2>1, <2>2, <2>3
<1> QED BY <1>2, <1>6, SameInputs, InputsKept

LEMMA ResolvingCollects ==
  ASSUME CountInv, CountInv', CollectorInv, Resolving
  PROVE  CollectorInv'
<1>1. PICK found \in SUBSET Asked, bundles \in SUBSET Servers : Resolve(found, bundles)
  BY DEF Resolving
<1>2. PICK news : news = NewFlows(found, bundles)
  OBVIOUS
<1>3. /\ Len(news) <= Len(Vacant)
      /\ flows' = [f \in Indices |->
                    IF \E i \in DOMAIN news : Vacant[i] = f
                    THEN LET i == CHOOSE j \in DOMAIN news : Vacant[j] = f
                         IN  NewFlow(news[i], made + i, NewUpdates(found, news[i], f))
                    ELSE flows[f]]
  BY <1>1, <1>2 DEF Resolve
<1>4. UNCHANGED <<channels, tasks, collector>>
  BY <1>1 DEF Resolve
<1>5. FlowsToMake(news)
  BY <1>1, <1>2, <1>3, NewsAre DEF Resolve
<1>6. \A f \in Indices : flows[f] # None => flows'[f] = flows[f]
  BY <1>3, <1>5, FlowsAfter
<1> QED BY <1>4, <1>6, SameInputs, InputsKept

LEMMA SeeCollects ==
  ASSUME CountInv, CountInv', CollectorInv, NEW f \in Indices, PacketArrives(f) \/ Silence(f)
  PROVE  CollectorInv'
<1>1. PICK what : See(f, what)
  BY DEF PacketArrives, Silence
<1>2. PICK g : g = [flows[f] EXCEPT !.seen = what]
  OBVIOUS
<1>3. flows[f] # None /\ flows' = [flows EXCEPT ![f] = g] /\ UNCHANGED <<channels, tasks, collector>>
  BY <1>1, <1>2 DEF See, worker
<1>4. flows \in [Indices -> {None} \cup Flow]
  BY DEF CountInv, TypeOK
<1>5. flows[f] \in Flow
  BY <1>3, <1>4
<1>6. g.id = flows[f].id
  BY <1>2, <1>5 DEF Flow
<1>7. \A h \in Indices : flows'[h].id = flows[h].id
  BY <1>3, <1>4, <1>6
<1> QED BY <1>3, <1>7, SameInputs, InputsKept

LEMMA CollectorStep ==
  ASSUME MaxWaiting = 0, CountInv, CountInv', CollectorInv, [Next]_vars
  PROVE  CollectorInv'
<1>1. ASSUME UNCHANGED <<channels, flows, tasks, collector>> PROVE CollectorInv'
  <2>1. \A ch \in Channels : Input(ch)' = Input(ch)
    BY <1>1 DEF Input, Connected, Subscribed
  <2> QED BY <1>1, <2>1, InputsKept
<1>2. CASE FrontEnd
  BY <1>1, <1>2 DEF FrontEnd, Subscribe, Unsubscribe, ForceRefresh, Shutdown, Call, worker
<1>3. CASE Commands
  BY <1>3, CommandsCollect
<1>4. CASE Resolving
  BY <1>4, ResolvingCollects
<1>5. CASE ApplyUpdates
  BY <1>5, ApplyCollects
<1>6. CASE ForgetUpdates
  BY <1>1, <1>6 DEF ForgetUpdates, Received
<1>7. CASE Scanning
  <2>1. CASE ScanOnly \/ ScanAfterResolving
    <3>1. GoesOn /\ scan_flows
      BY <2>1 DEF ScanOnly, ScanAfterResolving, NoMoreCommands
    <3> QED BY <3>1, ScanCollects
  <2>2. CASE \E d \in destroying : DestroyFlow(d)
    BY <1>1, <2>2 DEF DestroyFlow, shared
  <2> QED BY <1>7, <2>1, <2>2 DEF Scanning
<1>8. CASE Requests
  BY <1>8, RequestsCollect
<1>9. CASE Tasks
  BY <1>9, TasksCollect
<1>10. CASE Receiver \/ UNCHANGED vars
  BY <1>1, <1>10 DEF Receiver, vars, worker, shared
<1>11. CASE Environment
  <2>1. CASE Restart
    <3>1. /\ tasks' = <<>> /\ collector' = [ch \in Channels |-> None]
          /\ channels' = [ch \in Channels |-> IF saved[ch] = None THEN None ELSE [src |-> saved[ch], remote |-> None]]
      BY <2>1 DEF Restart
    <3>2. \A ch \in Channels : ~Connected(ch)'
      BY <3>1 DEF Connected, Subscribed
    <3>3. \A ch \in Channels : collector'[ch] = Input(ch)'
      BY <3>1, <3>2 DEF Input
    <3>4. tasks' \in Seq(Task) /\ ToSet(tasks') = {} /\ collector' \in [Channels -> {None} \cup Buffer]
      BY <3>1, EmptyHolds
    <3> QED BY <3>3, <3>4 DEF CollectorInv
  <2>2. CASE \E f \in Indices : PacketArrives(f) \/ Silence(f)
    BY <2>2, SeeCollects
  <2>3. CASE (\E n \in 1 .. MaxMade : TxDropsFlow(n)) \/ (\E s \in Sources : TxChangesBundle(s))
    BY <1>1, <2>3 DEF TxDropsFlow, TxChangesBundle, worker, shared
  <2> QED BY <1>11, <2>1, <2>2, <2>3 DEF Environment
<1> QED BY <1>2, <1>3, <1>4, <1>5, <1>6, <1>7, <1>8, <1>9, <1>10, <1>11 DEF Next, Worker

\* When the spawned calls are done before the worker goes on, the collector reads at rest
\* exactly the channels that are connected, each from the ring buffer of its own flow and
\* slot.  (With calls that overtake each other it need not: connect and disconnect of a
\* channel are spawned one by one.)
THEOREM CollectorReadsConnected ==
  ASSUME MaxWaiting = 0
  PROVE  Spec => []CollectorAgrees
<1>1. Init => CollectorInv
  <2> SUFFICES ASSUME Init PROVE CollectorInv
    OBVIOUS
  <2>1. tasks = <<>> /\ collector = [ch \in Channels |-> None] /\ \A ch \in Channels : ~Connected(ch)
    BY DEF Init, Connected, Subscribed
  <2>2. \A ch \in Channels : collector[ch] = Input(ch)
    BY <2>1 DEF Input
  <2>3. tasks \in Seq(Task) /\ ToSet(tasks) = {} /\ collector \in [Channels -> {None} \cup Buffer]
    BY <2>1, EmptyHolds
  <2> QED BY <2>2, <2>3 DEF CollectorInv
<1>2. CountInv /\ CountInv' /\ CollectorInv /\ [Next]_vars => CollectorInv'
  BY CollectorStep
<1>3. CollectorInv => CollectorAgrees
  <2> SUFFICES ASSUME CollectorInv, AtRest PROVE \A ch \in Channels : collector[ch] = Input(ch)
    BY DEF CollectorAgrees
  <2>1. ToSet(tasks) = {}
    BY EmptyHolds DEF AtRest
  <2> QED BY <2>1 DEF CollectorInv, CalledFor
<1> QED BY <1>1, <1>2, <1>3, CountInvariance, PTL DEF Spec

(***************************************************************************)
(* The sockets of the real-time thread                                     *)
(***************************************************************************)

LEMMA Appended ==
  ASSUME NEW S, NEW q \in Seq(S), NEW c \in S, NEW n, n = Len(q)
  PROVE  /\ Append(q, c) \in Seq(S) /\ n \in Nat /\ Len(Append(q, c)) = n + 1
         /\ (\A i \in 1 .. n : Append(q, c)[i] = q[i]) /\ Append(q, c)[n + 1] = c
         /\ DOMAIN q = 1 .. n /\ DOMAIN Append(q, c) = 1 .. n + 1
  OBVIOUS

\* What was there after n commands is there when others follow them.
LEMMA FollowedBy ==
  ASSUME NEW n \in Nat, NEW i, UNCHANGED sockets, \A p \in 1 .. n : rx_commands'[p] = rx_commands[p]
  PROVE  SocketAfter(n, i) => SocketAfter(n, i)'
<1>1. \A p \in 1 .. n : (Removes(p, i)' <=> Removes(p, i)) /\ (Opens(p, i)' <=> Opens(p, i))
  BY DEF Removes, Opens
<1> SUFFICES ASSUME SocketAfter(n, i) PROVE SocketAfter(n, i)'
  OBVIOUS
<1>2. PICK q \in 0 .. n : /\ IF q = 0 THEN sockets[i] # None ELSE Opens(q, i)
                          /\ \A p \in q + 1 .. n : ~Removes(p, i)
  BY DEF SocketAfter
<1>3. \A p \in q + 1 .. n : p \in 1 .. n
  OBVIOUS
<1>4. q # 0 => q \in 1 .. n
  OBVIOUS
<1>5. IF q = 0 THEN sockets'[i] # None ELSE Opens(q, i)'
  BY <1>1, <1>2, <1>4
<1>6. \A p \in q + 1 .. n : ~Removes(p, i)'
  BY <1>1, <1>2, <1>3
<1> QED BY <1>5, <1>6 DEF SocketAfter

\* A command has been queued.
LEMMA SocketSent ==
  ASSUME QueueSafe, NEW c \in RxCommand, Send(c), UNCHANGED <<sockets, rx_thread>>,
         c.t = "remove" => SocketAfter(Len(rx_commands), c.index)
  PROVE  /\ QueueSafe'
         /\ \A i \in SocketIx : SocketAfter(Len(rx_commands), i) /\ ~(c.t = "remove" /\ c.index = i)
                                => SocketAfter(Len(rx_commands), i)'
         /\ c.t = "add" => SocketAfter(Len(rx_commands), c.index)'
<1>1. PICK n : n = Len(rx_commands)
  OBVIOUS
<1>2. rx_commands' = Append(rx_commands, c) /\ rx_commands \in Seq(RxCommand)
  BY DEF Send, QueueSafe, ThreadSurvives
<1>3. /\ rx_commands' \in Seq(RxCommand) /\ n \in Nat /\ Len(rx_commands') = n + 1
      /\ (\A p \in 1 .. n : rx_commands'[p] = rx_commands[p]) /\ rx_commands'[n + 1] = c
      /\ DOMAIN rx_commands = 1 .. n /\ DOMAIN rx_commands' = 1 .. n + 1
  BY <1>1, <1>2, Appended
<1>4. ASSUME NEW m \in 0 .. n, NEW i, SocketAfter(m, i) PROVE SocketAfter(m, i)'
  <2>1. m \in Nat /\ \A p \in 1 .. m : rx_commands'[p] = rx_commands[p]
    BY <1>3
  <2> QED BY <1>4, <2>1, FollowedBy
<1>0. \A p \in 1 .. n : \A i \in SocketIx : Removes(p, i) => SocketAfter(p - 1, i)
  BY <1>3 DEF QueueSafe
<1>5. ASSUME NEW p \in 1 .. n + 1, NEW i \in SocketIx, Removes(p, i)'
      PROVE  SocketAfter(p - 1, i)'
  <2>1. CASE p \in 1 .. n
    <3>1. Removes(p, i)
      BY <1>3, <1>5, <2>1 DEF Removes
    <3>2. SocketAfter(p - 1, i) /\ p - 1 \in 0 .. n
      BY <1>0, <1>3, <2>1, <3>1
    <3> QED BY <1>4, <3>2
  <2>2. CASE p = n + 1
    <3>1. c.t = "remove" /\ c.index = i
      BY <1>3, <1>5, <2>2 DEF Removes
    <3>2. SocketAfter(n, i) /\ n \in 0 .. n
      BY <1>1, <1>3, <3>1
    <3>3. SocketAfter(n, i)'
      BY <1>4, <3>2
    <3>4. p - 1 = n
      BY <1>3, <2>2
    <3> QED BY <3>3, <3>4
  <2> QED BY <1>3, <2>1, <2>2
<1>6. QueueSafe'
  <2>1. sockets' \in [SocketIx -> {None} \cup Socket] /\ ThreadSurvives'
    BY DEF QueueSafe, ThreadSurvives
  <2> QED BY <1>3, <1>5, <2>1 DEF QueueSafe
<1>7. ASSUME NEW i, SocketAfter(n, i), ~(c.t = "remove" /\ c.index = i) PROVE SocketAfter(n + 1, i)'
  <2>1. SocketAfter(n, i)' /\ ~Removes(n + 1, i)'
    BY <1>3, <1>4, <1>7 DEF Removes
  <2>2. PICK q \in 0 .. n : /\ IF q = 0 THEN sockets'[i] # None ELSE Opens(q, i)'
                            /\ \A p \in q + 1 .. n : ~Removes(p, i)'
    BY <2>1 DEF SocketAfter
  <2>3. q \in 0 .. n + 1 /\ \A p \in q + 1 .. n + 1 : p \in q + 1 .. n \/ p = n + 1
    BY <1>3
  <2>4. \A p \in q + 1 .. n + 1 : ~Removes(p, i)'
    BY <2>1, <2>2, <2>3
  <2> QED BY <2>2, <2>3, <2>4 DEF SocketAfter
<1>8. ASSUME c.t = "add" PROVE SocketAfter(n + 1, c.index)'
  <2>1. Opens(n + 1, c.index)'
    BY <1>3, <1>8 DEF Opens
  <2>2. n + 1 \in 0 .. n + 1 /\ n + 1 # 0 /\ ~\E p \in n + 1 + 1 .. n + 1 : TRUE
    BY <1>3
  <2> QED BY <2>1, <2>2 DEF SocketAfter
<1>9. Len(rx_commands)' = n + 1
  BY <1>3
<1> QED BY <1>1, <1>6, <1>7, <1>8, <1>9

\* The real-time thread has taken a command.
LEMMA SocketRan ==
  ASSUME QueueSafe, RxThread
  PROVE  QueueSafe' /\ \A i \in SocketIx : SocketAfter(Len(rx_commands), i) => SocketAfter(Len(rx_commands), i)'
<1>1. PICK n, c : n = Len(rx_commands) /\ c = Head(rx_commands)
  OBVIOUS
<1>2. /\ rx_commands # <<>> /\ rx_commands' = Tail(rx_commands) /\ rx_commands \in Seq(RxCommand)
      /\ sockets \in [SocketIx -> {None} \cup Socket] /\ rx_thread = "runs"
  BY DEF RxThread, RunAddSocket, RunRemoveSocket, RunConnectChannel, Command, QueueSafe
<1>3. /\ n \in Nat /\ n >= 1 /\ c \in RxCommand /\ c = rx_commands[1] /\ rx_commands' \in Seq(RxCommand)
      /\ DOMAIN rx_commands = 1 .. n /\ DOMAIN rx_commands' = 1 .. n - 1 /\ Len(rx_commands') = n - 1
      /\ \A p \in 1 .. n - 1 : rx_commands'[p] = rx_commands[p + 1]
  BY <1>1, <1>2
<1>4. c.index \in SocketIx
  BY <1>3 DEF RxCommand
<1>5. c.t = "remove" => sockets[c.index] # None
  <2> SUFFICES ASSUME c.t = "remove" PROVE sockets[c.index] # None
    OBVIOUS
  <2>1. 1 \in DOMAIN rx_commands /\ Removes(1, c.index)
    BY <1>3 DEF Removes
  <2>2. SocketAfter(1 - 1, c.index)
    BY <1>4, <2>1 DEF QueueSafe
  <2>3. PICK q \in 0 .. 1 - 1 : IF q = 0 THEN sockets[c.index] # None ELSE Opens(q, c.index)
    BY <2>2 DEF SocketAfter
  <2>4. q = 0
    OBVIOUS
  <2> QED BY <2>3, <2>4
<1>6. /\ sockets' \in [SocketIx -> {None} \cup Socket] /\ rx_thread' = "runs"
      /\ \A i \in SocketIx : sockets[i] # None /\ ~(c.t = "remove" /\ c.index = i) => sockets'[i] # None
      /\ c.t = "add" => sockets'[c.index] # None
  <2>1. CASE RunAddSocket
    <3>1. PICK r, s : r = [k \in Slots |-> {}] /\ s = [flow |-> c.flow, sinks |-> r]
      OBVIOUS
    <3>2. r \in [Slots -> SUBSET Buffer]
      BY <3>1
    <3>3. c.t = "add"
      BY <1>1, <2>1 DEF RunAddSocket, Command
    <3>4. c.flow \in Nat
      BY <1>3, <3>3 DEF RxCommand
    <3>5. s \in Socket /\ s # None
      BY <3>1, <3>2, <3>4, NoneAssumption DEF Socket
    <3>6. sockets' = [sockets EXCEPT ![c.index] = s] /\ UNCHANGED rx_thread
      BY <1>1, <2>1, <3>1 DEF RunAddSocket
    <3> QED BY <1>2, <1>4, <3>5, <3>6
  <2>2. CASE RunRemoveSocket
    <3>1. sockets' = [sockets EXCEPT ![c.index] = None] /\ c.t = "remove"
      BY <1>1, <2>2 DEF RunRemoveSocket, Command
    <3>2. rx_thread' = IF sockets[c.index] = None THEN "panicked" ELSE rx_thread
      BY <1>1, <2>2 DEF RunRemoveSocket
    <3> QED BY <1>2, <1>4, <1>5, <3>1, <3>2
  <2>3. CASE RunConnectChannel
    <3>1. c.t = "connect" /\ UNCHANGED rx_thread
      BY <1>1, <2>3 DEF RunConnectChannel, Command
    <3>2. c.slot \in Slots /\ c.rb \in Buffer
      BY <1>3, <3>1 DEF RxCommand
    <3>3. CASE sockets[c.index] = None
      <4>1. UNCHANGED sockets
        BY <1>1, <2>3, <3>3 DEF RunConnectChannel
      <4> QED BY <1>2, <3>1, <4>1
    <3>4. CASE sockets[c.index] # None
      <4>1. PICK s : s = [sockets[c.index] EXCEPT !.sinks[c.slot] = @ \cup {c.rb}]
        OBVIOUS
      <4>2. sockets[c.index] \in Socket
        BY <1>2, <1>4, <3>4
      <4>3. s \in Socket
        BY <3>2, <4>1, <4>2 DEF Socket
      <4>4. s # None
        BY <4>3, NoneAssumption
      <4>5. sockets' = [sockets EXCEPT ![c.index] = s]
        BY <1>1, <2>3, <3>4, <4>1 DEF RunConnectChannel
      <4> QED BY <1>2, <1>4, <3>1, <4>3, <4>4, <4>5
    <3> QED BY <3>3, <3>4
  <2> QED BY <2>1, <2>2, <2>3 DEF RxThread
<1>7. ASSUME NEW m \in 1 .. n, NEW i \in SocketIx, SocketAfter(m, i) PROVE SocketAfter(m - 1, i)'
  <2>1. PICK q \in 0 .. m : /\ IF q = 0 THEN sockets[i] # None ELSE Opens(q, i)
                            /\ \A p \in q + 1 .. m : ~Removes(p, i)
    BY <1>7 DEF SocketAfter
  <2>2. ASSUME NEW p \in 1 .. m - 1 PROVE rx_commands'[p] = rx_commands[p + 1] /\ p + 1 \in 1 .. m
    BY <1>3
  <2>3. CASE q = 0
    <3>1. 1 \in q + 1 .. m
      BY <1>3, <2>3
    <3>2. ~Removes(1, i)
      BY <2>1, <3>1
    <3>3. sockets'[i] # None
      BY <1>3, <1>6, <2>1, <2>3, <3>2 DEF Removes
    <3>4. \A p \in 1 .. m - 1 : ~Removes(p, i)'
      <4> SUFFICES ASSUME NEW p \in 1 .. m - 1 PROVE ~Removes(p, i)'
        OBVIOUS
      <4>1. p + 1 \in q + 1 .. m
        BY <1>3, <2>3
      <4> QED BY <2>1, <2>2, <4>1 DEF Removes
    <3>5. 0 \in 0 .. m - 1 /\ 0 + 1 = 1
      BY <1>3
    <3> QED BY <3>3, <3>4, <3>5 DEF SocketAfter
  <2>4. CASE q = 1
    <3>1. c.t = "add" /\ c.index = i
      BY <1>3, <2>1, <2>4 DEF Opens
    <3>2. sockets'[i] # None
      BY <1>6, <3>1
    <3>3. \A p \in 1 .. m - 1 : ~Removes(p, i)'
      <4> SUFFICES ASSUME NEW p \in 1 .. m - 1 PROVE ~Removes(p, i)'
        OBVIOUS
      <4>1. p + 1 \in q + 1 .. m
        BY <1>3, <2>4
      <4> QED BY <2>1, <2>2, <4>1 DEF Removes
    <3>4. 0 \in 0 .. m - 1 /\ 0 + 1 = 1
      BY <1>3
    <3> QED BY <3>2, <3>3, <3>4 DEF SocketAfter
  <2>5. CASE q > 1
    <3>1. PICK z : z = q - 1
      OBVIOUS
    <3>2. z \in 0 .. m - 1 /\ z # 0 /\ z \in 1 .. m - 1 /\ z + 1 = q
      BY <1>3, <2>5, <3>1
    <3>3. Opens(z, i)'
      <4>1. rx_commands'[z] = rx_commands[q]
        BY <2>2, <3>2
      <4>2. Opens(q, i)
        BY <2>1, <2>5
      <4> QED BY <4>1, <4>2 DEF Opens
    <3>4. \A p \in z + 1 .. m - 1 : ~Removes(p, i)'
      <4> SUFFICES ASSUME NEW p \in z + 1 .. m - 1 PROVE ~Removes(p, i)'
        OBVIOUS
      <4>1. p + 1 \in q + 1 .. m /\ p \in 1 .. m - 1
        BY <1>3, <3>2
      <4> QED BY <2>1, <2>2, <4>1 DEF Removes
    <3> QED BY <3>2, <3>3, <3>4 DEF SocketAfter
  <2> QED BY <2>3, <2>4, <2>5
<1>8. ASSUME NEW p \in 1 .. n - 1, NEW i \in SocketIx, Removes(p, i)' PROVE SocketAfter(p - 1, i)'
  <2>1. PICK z : z = p + 1
    OBVIOUS
  <2>2. z \in 1 .. n /\ z - 1 = p /\ p \in 1 .. n /\ p - 1 \in Nat
    BY <1>3, <2>1
  <2>3. Removes(z, i)
    BY <1>3, <1>8, <2>1 DEF Removes
  <2>4. SocketAfter(z - 1, i)
    BY <1>3, <2>2, <2>3 DEF QueueSafe
  <2> QED BY <1>7, <2>2, <2>4
<1>9. QueueSafe'
  BY <1>3, <1>6, <1>8 DEF QueueSafe, ThreadSurvives
<1>10. n \in 1 .. n /\ Len(rx_commands)' = n - 1
  BY <1>3
<1> QED BY <1>1, <1>7, <1>9, <1>10

LEMMA QueueKept ==
  ASSUME QueueSafe, UNCHANGED rxvars
  PROVE  QueueSafe' /\ \A g : Open(g) => Open(g)'
<1>1. UNCHANGED <<rx_commands, sockets, rx_thread>>
  BY DEF rxvars
<1>2. \A n, i : SocketAfter(n, i)' <=> SocketAfter(n, i)
  BY <1>1 DEF SocketAfter, Opens, Removes
<1>3. \A p, i : Removes(p, i)' <=> Removes(p, i)
  BY <1>1 DEF Removes
<1>4. Len(rx_commands)' = Len(rx_commands)
  BY <1>1
<1>5. \A g : Open(g) => Open(g)'
  BY <1>2, <1>4 DEF Open
<1>6. QueueSafe'
  BY <1>1, <1>2, <1>3 DEF QueueSafe, ThreadSurvives
<1> QED BY <1>5, <1>6

LEMMA SocketAdded ==
  ASSUME QueueSafe, NEW f, NEW id \in Nat, add_socket(f, id)
  PROVE  QueueSafe' /\ Open(f)' /\ \A g : Open(g) => Open(g)'
<1>1. CASE f \in SocketIx
  <2>1. PICK c : c = [t |-> "add", index |-> f, flow |-> id]
    OBVIOUS
  <2>2. c \in RxCommand /\ c.t = "add" /\ c.index = f
    BY <1>1, <2>1 DEF RxCommand
  <2>3. Send(c) /\ UNCHANGED <<sockets, rx_thread>>
    BY <1>1, <2>1 DEF add_socket
  <2>4. /\ QueueSafe' /\ SocketAfter(Len(rx_commands), f)'
        /\ \A i \in SocketIx : SocketAfter(Len(rx_commands), i) => SocketAfter(Len(rx_commands), i)'
    BY <2>2, <2>3, SocketSent
  <2> QED BY <2>4 DEF Open
<1>2. CASE f \notin SocketIx
  <2>1. UNCHANGED rxvars
    BY <1>2 DEF add_socket
  <2> QED BY <1>2, <2>1, QueueKept DEF Open
<1> QED BY <1>1, <1>2

LEMMA SocketRemoved ==
  ASSUME QueueSafe, NEW f, Open(f), remove_socket(f)
  PROVE  QueueSafe' /\ \A g : g # f /\ Open(g) => Open(g)'
<1>1. CASE f \in SocketIx
  <2>1. PICK c : c = [t |-> "remove", index |-> f]
    OBVIOUS
  <2>2. c \in RxCommand /\ c.t = "remove" /\ c.index = f
    BY <1>1, <2>1 DEF RxCommand
  <2>3. Send(c) /\ UNCHANGED <<sockets, rx_thread>>
    BY <1>1, <2>1 DEF remove_socket
  <2>4. SocketAfter(Len(rx_commands), c.index)
    BY <1>1, <2>2 DEF Open
  <2>5. /\ QueueSafe'
        /\ \A i \in SocketIx : SocketAfter(Len(rx_commands), i) /\ i # f => SocketAfter(Len(rx_commands), i)'
    BY <2>2, <2>3, <2>4, SocketSent
  <2> QED BY <2>5 DEF Open
<1>2. CASE f \notin SocketIx
  <2>1. UNCHANGED rxvars
    BY <1>2 DEF remove_socket
  <2> QED BY <2>1, QueueKept
<1> QED BY <1>1, <1>2

LEMMA SinkSent ==
  ASSUME QueueSafe, NEW f, NEW k, NEW rb \in Buffer, connect_channel(f, k, rb)
  PROVE  QueueSafe' /\ \A g : Open(g) => Open(g)'
<1>1. CASE f \in SocketIx /\ flows_info[f] /\ k \in Slots
  <2>1. PICK c : c = [t |-> "connect", index |-> f, slot |-> k, rb |-> rb]
    OBVIOUS
  <2>2. c \in RxCommand /\ c.t = "connect"
    BY <1>1, <2>1 DEF RxCommand
  <2>3. Send(c) /\ UNCHANGED <<sockets, rx_thread>>
    BY <1>1, <2>1 DEF connect_channel
  <2>4. /\ QueueSafe'
        /\ \A i \in SocketIx : SocketAfter(Len(rx_commands), i) => SocketAfter(Len(rx_commands), i)'
    BY <2>2, <2>3, SocketSent
  <2> QED BY <2>4 DEF Open
<1>2. CASE ~(f \in SocketIx /\ flows_info[f] /\ k \in Slots)
  <2>1. UNCHANGED rxvars
    BY <1>2 DEF connect_channel
  <2> QED BY <2>1, QueueKept
<1> QED BY <1>1, <1>2

\* Steps that make no flow and spawn no removal
LEMMA StillSafe ==
  ASSUME SocketsInv, QueueSafe', \A f \in Indices : Open(f) => Open(f)',
         \A f \in Indices : flows'[f] # None => flows[f] # None /\ flows'[f].kind = flows[f].kind,
         tasks' \in Seq(Task),
         \A i \in DOMAIN tasks' : tasks'[i].t = "remove" => i \in DOMAIN tasks /\ tasks[i] = tasks'[i],
         UNCHANGED destroying, Bundled = {} => UNCHANGED multicast,
         \/ UNCHANGED phase
         \/ phase # "destroy" /\ phase' \notin {"commands", "requests", "destroy"},
         \/ UNCHANGED requests
         \/ /\ phase = "requests"
            /\ phase' = "requests" =>
                 \A f \in Indices : flows'[f] # None /\ ToBeMade(f) => Open(f)' \/ ToBeMade(f)'
  PROVE  SocketsInv'
<1>1. FlowsOpen'
  <2>1. ASSUME phase' \in {"commands", "requests", "destroy"}, NEW f \in Indices, flows'[f] # None
        PROVE  Open(f)' \/ ToBeMade(f)'
    <3>1. flows[f] # None /\ UNCHANGED phase
      BY <2>1
    <3>2. Open(f) \/ ToBeMade(f)
      BY <2>1, <3>1 DEF SocketsInv, FlowsOpen
    <3>3. CASE Open(f)
      BY <3>3
    <3>4. CASE ToBeMade(f)
      <4>1. CASE UNCHANGED requests
        BY <3>4, <4>1 DEF ToBeMade
      <4>2. CASE phase = "requests" /\ ~UNCHANGED requests
        <5>1. phase' = "requests"
          BY <3>1, <4>2
        <5>2. \A g \in Indices : flows'[g] # None /\ ToBeMade(g) => Open(g)' \/ ToBeMade(g)'
          BY <4>2, <5>1
        <5> QED BY <2>1, <3>4, <5>2
      <4> QED BY <4>1, <4>2
    <3> QED BY <3>2, <3>3, <3>4
  <2>2. phase' \in {"commands", "destroy"} => requests' = Idle
    BY DEF SocketsInv, FlowsOpen
  <2>3. Idle' = Idle
    BY DEF Idle, Keys
  <2> QED BY <2>1, <2>2, <2>3 DEF FlowsOpen
<1>2. LeavesOnce'
  <2>1. LeavesOnce /\ \A i \in DOMAIN tasks : tasks[i] \in Task
    BY DEF SocketsInv, LeavesOnce
  <2>2. ASSUME NEW i \in DOMAIN tasks', tasks'[i].t = "remove"
        PROVE  /\ flows'[tasks'[i].flow] = None /\ Open(tasks[i].flow)'
               /\ \A j \in DOMAIN tasks' : tasks'[j].t = "remove" /\ tasks'[j].flow = tasks'[i].flow => i = j
               /\ \A d \in destroying' : d.flow # tasks'[i].flow
    <3>1. i \in DOMAIN tasks /\ tasks[i] = tasks'[i]
      BY <2>2
    <3>2. PICK f : f = tasks[i].flow
      OBVIOUS
    <3>3. f \in Indices
      BY <2>1, <2>2, <3>1, <3>2 DEF Task
    <3>4. /\ flows[f] = None /\ Open(f)
          /\ \A j \in DOMAIN tasks : tasks[j].t = "remove" /\ tasks[j].flow = f => i = j
          /\ \A d \in destroying : d.flow # f
      BY <2>1, <2>2, <3>1, <3>2 DEF LeavesOnce
    <3>5. flows'[f] = None
      BY <3>3, <3>4
    <3>6. Open(f)'
      BY <3>3, <3>4
    <3>7. \A j \in DOMAIN tasks' : tasks'[j].t = "remove" /\ tasks'[j].flow = f => i = j
      <4> SUFFICES ASSUME NEW j \in DOMAIN tasks', tasks'[j].t = "remove", tasks'[j].flow = f PROVE i = j
        OBVIOUS
      <4>1. j \in DOMAIN tasks /\ tasks[j] = tasks'[j]
        OBVIOUS
      <4> QED BY <3>4, <4>1
    <3>8. \A d \in destroying' : d.flow # f
      BY <3>4
    <3>9. tasks'[i].flow = f
      BY <3>1, <3>2
    <3>10. Open(tasks[i].flow)'
      BY <3>6, <3>9 DEF Open
    <3> QED BY <3>5, <3>7, <3>8, <3>9, <3>10
  <2>3. \A d \in destroying' : /\ d.flow \in Indices /\ flows'[d.flow] = None /\ Open(d.flow)'
                               /\ \A e \in destroying' : d.flow = e.flow => d = e
    <3>1. \A d \in destroying : /\ d.flow \in Indices /\ flows[d.flow] = None /\ Open(d.flow)
                                /\ \A e \in destroying : d.flow = e.flow => d = e
      BY <2>1 DEF LeavesOnce
    <3> QED BY <3>1
  <2>4. phase' # "destroy" => destroying' = {}
    BY <2>1 DEF LeavesOnce
  <2>5. Indices' = Indices
    BY DEF Indices
  <2> QED BY <2>2, <2>3, <2>4, <2>5 DEF LeavesOnce
<1>3. OnlyUnicast'
  BY DEF SocketsInv, OnlyUnicast
<1> QED BY <1>1, <1>2, <1>3 DEF SocketsInv

\* Nothing is spawned but calls that do not remove a socket.
LEMMA OthersSpawned ==
  ASSUME LeavesOnce, NEW q \in Seq(Task), \A c \in ToSet(q) : c.t # "remove", tasks' = tasks \o q
  PROVE  /\ tasks' \in Seq(Task)
         /\ \A i \in DOMAIN tasks' : tasks'[i].t = "remove" => i \in DOMAIN tasks /\ tasks[i] = tasks'[i]
<1>1. tasks \in Seq(Task)
  BY DEF LeavesOnce
<1>2. PICK m, n : m = Len(tasks) /\ n = Len(q)
  OBVIOUS
<1>3. m \in Nat /\ n \in Nat /\ DOMAIN tasks = 1 .. m /\ DOMAIN q = 1 .. n
  BY <1>1, <1>2
<1>4. tasks' \in Seq(Task) /\ DOMAIN tasks' = 1 .. m + n
      /\ \A i \in 1 .. m + n : tasks'[i] = IF i <= m THEN tasks[i] ELSE q[i - m]
  BY <1>1, <1>2, <1>3, ConcatProperties, LenProperties
<1>5. ASSUME NEW i \in 1 .. m + n, tasks'[i].t = "remove" PROVE i \in DOMAIN tasks /\ tasks[i] = tasks'[i]
  <2>1. CASE i <= m
    BY <1>3, <1>4, <2>1
  <2>2. CASE i > m
    <3>1. i - m \in DOMAIN q /\ tasks'[i] = q[i - m]
      BY <1>3, <1>4, <2>2
    <3>2. q[i - m] \in ToSet(q)
      BY <3>1 DEF ToSet
    <3> QED BY <1>5, <3>1, <3>2
  <2> QED BY <1>3, <2>1, <2>2
<1> QED BY <1>4, <1>5

LEMMA Unspawned ==
  ASSUME LeavesOnce, UNCHANGED tasks
  PROVE  /\ tasks' \in Seq(Task)
         /\ \A i \in DOMAIN tasks' : tasks'[i].t = "remove" => i \in DOMAIN tasks /\ tasks[i] = tasks'[i]
  BY DEF LeavesOnce

\* Nothing happens to the flows, the requests or the sockets.
LEMMA QuietSafe ==
  ASSUME SocketsInv, UNCHANGED <<flows, tasks, destroying, phase, requests, rxvars>>, Bundled = {} => UNCHANGED multicast
  PROVE  SocketsInv'
<1>1. QueueSafe' /\ \A f \in Indices : Open(f) => Open(f)'
  BY QueueKept DEF SocketsInv
<1>2. LeavesOnce
  BY DEF SocketsInv
<1> QED BY <1>1, <1>2, Unspawned, StillSafe

LEMMA LeaveSafe ==
  ASSUME CountInv, SocketsInv, NEW ch \in Channels, Leave(ch),
         UNCHANGED <<destroying, phase, requests, multicast, rxvars>>
  PROVE  SocketsInv'
<1>1. QueueSafe' /\ \A f \in Indices : Open(f) => Open(f)'
  BY QueueKept DEF SocketsInv
<1>2. LeavesOnce
  BY DEF SocketsInv
<1>3. CASE ~Connected(ch)
  BY <1>3, QuietSafe DEF Leave
<1>4. CASE Connected(ch)
  <2>1. PICK f, k, g, q : /\ f = channels[ch].remote.flow /\ k = channels[ch].remote.slot
                          /\ g = [flows[f] EXCEPT !.refcount[k] = @ - 1] /\ q = Disconnects({ch})
    OBVIOUS
  <2>2. f \in Indices /\ flows[f] # None /\ flows[f] \in Flow
    BY <1>4, <2>1, IsLive
  <2>3. flows' = [flows EXCEPT ![f] = g] /\ tasks' = tasks \o q
    BY <1>4, <2>1, <2>2 DEF Leave
  <2>4. g.kind = flows[f].kind
    BY <2>1, <2>2 DEF Flow
  <2>5. flows \in [Indices -> {None} \cup Flow]
    BY DEF CountInv, TypeOK
  <2>6. \A h \in Indices : flows'[h] # None => flows[h] # None /\ flows'[h].kind = flows[h].kind
    BY <2>2, <2>3, <2>4, <2>5
  <2>7. {ch} \in SUBSET Channels
    OBVIOUS
  <2>8. q \in Seq(Task) /\ \A c \in ToSet(q) : c.t # "remove"
    BY <2>1, <2>7, DisconnectsAre
  <2>9. /\ tasks' \in Seq(Task)
        /\ \A i \in DOMAIN tasks' : tasks'[i].t = "remove" => i \in DOMAIN tasks /\ tasks[i] = tasks'[i]
    BY <1>2, <2>3, <2>8, OthersSpawned
  <2> QED BY <1>1, <2>6, <2>9, StillSafe
<1> QED BY <1>3, <1>4

LEMMA CommandsSafe ==
  ASSUME CountInv, SocketsInv, Commands
  PROVE  SocketsInv'
<1>1. PICK c : c = Head(commands)
  OBVIOUS
<1>2. PICK type : Handle(type)
  BY DEF Commands, HandleSubscribe, HandleUnsubscribe, HandleRefresh, HandleShutdown
<1>3. /\ phase = "commands" /\ commands # <<>>
      /\ UNCHANGED <<destroying, requests, multicast, rxvars>>
  BY <1>2 DEF Handle, net
<1>4. c \in FrontEndCommand
  BY <1>1, <1>3 DEF CountInv, TypeOK
<1>5. CASE HandleSubscribe
  <2>1. c.t = "subscribe" /\ Leave(c.ch) /\ UNCHANGED phase
    BY <1>1, <1>5 DEF HandleSubscribe, Handle
  <2>2. c.ch \in Channels
    BY <1>4, <2>1 DEF FrontEndCommand
  <2> QED BY <1>3, <2>1, <2>2, LeaveSafe
<1>6. CASE HandleUnsubscribe
  <2>1. c.t = "unsubscribe" /\ Leave(c.ch) /\ UNCHANGED phase
    BY <1>1, <1>6 DEF HandleUnsubscribe, Handle
  <2>2. c.ch \in Channels
    BY <1>4, <2>1 DEF FrontEndCommand
  <2> QED BY <1>3, <2>1, <2>2, LeaveSafe
<1>7. CASE HandleRefresh
  BY <1>3, <1>7, QuietSafe DEF HandleRefresh
<1>8. CASE HandleShutdown
  <2>1. phase' = "ended" /\ UNCHANGED <<flows, tasks>>
    BY <1>8 DEF HandleShutdown
  <2>2. QueueSafe' /\ \A f \in Indices : Open(f) => Open(f)'
    BY <1>3, QueueKept DEF SocketsInv
  <2>3. LeavesOnce
    BY DEF SocketsInv
  <2>4. /\ tasks' \in Seq(Task)
        /\ \A i \in DOMAIN tasks' : tasks'[i].t = "remove" => i \in DOMAIN tasks /\ tasks[i] = tasks'[i]
    BY <2>1, <2>3, Unspawned
  <2> QED BY <1>3, <2>1, <2>2, <2>4, StillSafe
<1> QED BY <1>5, <1>6, <1>7, <1>8 DEF Commands

\* The calls that connect the channels of a batch
JoinedBy(us) == Sorted(UNION {u.chs : u \in us})

ConnectCalls(us) ==
  [i \in DOMAIN JoinedBy(us) |->
    LET u == CHOOSE v \in us : JoinedBy(us)[i] \in v.chs
    IN  [t |-> "connect", ch |-> JoinedBy(us)[i], rb |-> <<flows[u.flow].id, u.slot>>]]

LEMMA ConnectsAre ==
  ASSUME CountInv, NEW us, Applied(us)
  PROVE  ConnectCalls(us) \in Seq(Task) /\ \A c \in ToSet(ConnectCalls(us)) : c.t = "connect"
<1>1. PICK chs, joined, n, q : /\ chs = UNION {u.chs : u \in us} /\ joined = JoinedBy(us)
                               /\ n = Cardinality(chs) /\ q = ConnectCalls(us)
  OBVIOUS
<1>2. chs \in SUBSET Channels
  BY <1>1 DEF Applied
<1>3. n \in Nat /\ DOMAIN joined = 1 .. n /\ \A i \in 1 .. n : joined[i] \in chs
  BY <1>1, <1>2, FiniteChannels, SortedIs DEF JoinedBy
<1>4. q = [i \in 1 .. n |-> [t |-> "connect", ch |-> joined[i],
                              rb |-> <<flows[(CHOOSE u \in us : joined[i] \in u.chs).flow].id,
                                       (CHOOSE u \in us : joined[i] \in u.chs).slot>>]]
  BY <1>1, <1>3 DEF ConnectCalls
<1>5. ASSUME NEW i \in 1 .. n PROVE q[i] \in Task /\ q[i].t = "connect"
  <2>1. PICK ch, w : ch = joined[i] /\ w = CHOOSE u \in us : ch \in u.chs
    OBVIOUS
  <2>2. ch \in chs
    BY <1>3, <2>1
  <2>3. \E u \in us : ch \in u.chs
    BY <1>1, <2>2
  <2>4. w \in us
    BY <2>1, <2>3
  <2>5. w.flow \in Indices /\ flows[w.flow] # None /\ w.slot \in Slots
    BY <2>4 DEF Applied
  <2>6. flows[w.flow] \in Flow
    BY <2>5 DEF CountInv, TypeOK
  <2>7. flows[w.flow].id \in Nat
    BY <2>6 DEF Flow
  <2>8. PICK b : b = <<flows[w.flow].id, w.slot>>
    OBVIOUS
  <2>9. b \in Buffer
    BY <2>5, <2>7, <2>8 DEF Buffer
  <2>10. PICK c : c = [t |-> "connect", ch |-> ch, rb |-> b]
    OBVIOUS
  <2>11. c \in Task /\ c.t = "connect"
    BY <1>2, <2>2, <2>9, <2>10 DEF Task
  <2>12. q[i] = c
    BY <1>4, <2>1, <2>8, <2>10
  <2> QED BY <2>11, <2>12
<1>6. DOMAIN q = 1 .. n /\ q = [i \in 1 .. n |-> q[i]]
  BY <1>4
<1>7. q \in Seq(Task)
  <2>1. \A i \in 1 .. n : q[i] \in Task
    BY <1>5
  <2> QED BY <1>3, <1>6, <2>1
<1> QED BY <1>1, <1>5, <1>6, <1>7 DEF ToSet

LEMMA ApplySafe ==
  ASSUME CountInv, SocketsInv, ApplyUpdates
  PROVE  SocketsInv'
<1>1. PICK us : us = {u \in Head(updates) : u.slot \in Slots}
  OBVIOUS
<1>2. Received /\ Apply(us)
  BY <1>1 DEF ApplyUpdates
<1>3. Applied(us)
  BY <1>1, <1>2, ApplyIs
<1>4. UNCHANGED <<destroying, phase, requests, multicast, rxvars>>
  BY <1>2 DEF Received
<1>5. PICK q : q = ConnectCalls(us)
  OBVIOUS
<1>6. PICK p : p = [i \in DOMAIN NewBuffers(us) |->
                      [t |-> "sink", flow |-> FlowAt(NewBuffers(us)[i]), slot |-> SlotAt(NewBuffers(us)[i]),
                       rb |-> <<flows[FlowAt(NewBuffers(us)[i])].id, SlotAt(NewBuffers(us)[i])>>]]
  OBVIOUS
<1>7. tasks' = tasks \o q \o p
  BY <1>2, <1>5, <1>6 DEF Apply, ConnectCalls, JoinedBy
<1>8. q \in Seq(Task) /\ \A c \in ToSet(q) : c.t = "connect"
  BY <1>3, <1>5, ConnectsAre
<1>9. p \in Seq(Task) /\ \A c \in ToSet(p) : c.t = "sink"
  BY <1>3, <1>6, BuffersAre
<1>10. PICK r : r = q \o p
  OBVIOUS
<1>11. r \in Seq(Task) /\ ToSet(r) = ToSet(q) \cup ToSet(p)
  BY <1>8, <1>9, <1>10, BothHold
<1>12. \A c \in ToSet(r) : c.t # "remove"
  BY <1>8, <1>9, <1>11
<1>13. LeavesOnce /\ tasks \in Seq(Task)
  BY DEF SocketsInv, LeavesOnce
<1>14. tasks' = tasks \o r
  BY <1>7, <1>8, <1>9, <1>10, <1>13, ConcatAssociative
<1>15. /\ tasks' \in Seq(Task)
       /\ \A i \in DOMAIN tasks' : tasks'[i].t = "remove" => i \in DOMAIN tasks /\ tasks[i] = tasks'[i]
  BY <1>11, <1>12, <1>13, <1>14, OthersSpawned
<1>16. \A f \in Indices : flows'[f] # None => flows[f] # None /\ flows'[f].kind = flows[f].kind
  BY <1>3 DEF Applied
<1>17. QueueSafe' /\ \A f \in Indices : Open(f) => Open(f)'
  BY <1>4, QueueKept DEF SocketsInv
<1> QED BY <1>4, <1>15, <1>16, <1>17, StillSafe

LEMMA SeeSafe ==
  ASSUME CountInv, SocketsInv, NEW f \in Indices, PacketArrives(f) \/ Silence(f)
  PROVE  SocketsInv'
<1>1. PICK what : See(f, what)
  BY DEF PacketArrives, Silence
<1>2. PICK g : g = [flows[f] EXCEPT !.seen = what]
  OBVIOUS
<1>3. /\ flows[f] # None /\ flows' = [flows EXCEPT ![f] = g]
      /\ UNCHANGED <<tasks, destroying, phase, requests, multicast, rxvars>>
  BY <1>1, <1>2 DEF See, worker
<1>4. flows \in [Indices -> {None} \cup Flow]
  BY DEF CountInv, TypeOK
<1>5. flows[f] \in Flow
  BY <1>3, <1>4
<1>6. g.kind = flows[f].kind
  BY <1>2, <1>5 DEF Flow
<1>7. \A h \in Indices : flows'[h] # None => flows[h] # None /\ flows'[h].kind = flows[h].kind
  BY <1>3, <1>4, <1>6
<1>8. QueueSafe' /\ \A h \in Indices : Open(h) => Open(h)'
  BY <1>3, QueueKept DEF SocketsInv
<1>9. /\ tasks' \in Seq(Task)
      /\ \A i \in DOMAIN tasks' : tasks'[i].t = "remove" => i \in DOMAIN tasks /\ tasks[i] = tasks'[i]
  BY <1>3, Unspawned DEF SocketsInv
<1> QED BY <1>3, <1>7, <1>8, <1>9, StillSafe

LEMMA ReceiverSafe ==
  ASSUME SocketsInv, Receiver
  PROVE  SocketsInv'
<1>1. UNCHANGED <<flows, tasks, destroying, phase, requests, multicast>> /\ RxThread
  BY DEF Receiver, worker, shared, net
<1>2. QueueSafe' /\ \A f \in Indices : Open(f) => Open(f)'
  BY <1>1, SocketRan DEF SocketsInv, Open
<1>3. LeavesOnce
  BY DEF SocketsInv
<1> QED BY <1>1, <1>2, <1>3, Unspawned, StillSafe

\* A request has been taken from the head of its queue.
LEMMA StillToBeMade ==
  ASSUME CountInv, NEW k \in Keys, requests[k] # <<>>, requests' = [requests EXCEPT ![k] = Tail(@)],
         NEW f, ToBeMade(f)
  PROVE  ToBeMade(f)' \/ (Head(requests[k]).t = "create" /\ Head(requests[k]).flow = f)
<1>1. requests \in [Keys -> Seq(Request)]
  BY DEF CountInv, TypeOK
<1>2. PICK l \in Keys : \E i \in DOMAIN requests[l] : requests[l][i].t = "create" /\ requests[l][i].flow = f
  BY DEF ToBeMade
<1>3. PICK i \in DOMAIN requests[l] : requests[l][i].t = "create" /\ requests[l][i].flow = f
  BY <1>2
<1>4. CASE l # k
  <2>1. requests'[l] = requests[l]
    BY <1>1, <1>4
  <2>2. i \in DOMAIN requests'[l] /\ requests'[l][i].t = "create" /\ requests'[l][i].flow = f
    BY <1>3, <2>1
  <2>3. ToBeMade(f)'
    BY <2>2 DEF ToBeMade
  <2> QED BY <2>3
<1>5. CASE l = k
  <2>1. PICK q, n : q = requests[k] /\ n = Len(q)
    OBVIOUS
  <2>2. q \in Seq(Request) /\ q # <<>>
    BY <1>1, <2>1
  <2>3. /\ n \in Nat /\ DOMAIN q = 1 .. n /\ DOMAIN Tail(q) = 1 .. n - 1 /\ Head(q) = q[1]
        /\ \A j \in 1 .. n - 1 : Tail(q)[j] = q[j + 1]
    BY <2>1, <2>2
  <2>4. i \in 1 .. n
    BY <1>5, <2>1, <2>3
  <2>5. CASE i = 1
    BY <1>3, <1>5, <2>1, <2>3, <2>5
  <2>6. CASE i # 1
    <3>1. PICK j : j = i - 1
      OBVIOUS
    <3>2. j \in 1 .. n - 1 /\ j + 1 = i
      BY <2>3, <2>4, <2>6, <3>1
    <3>3. requests'[k] = Tail(q)
      BY <1>1, <2>1
    <3>4. j \in DOMAIN requests'[k] /\ requests'[k][j] = requests[k][i]
      BY <2>1, <2>3, <3>2, <3>3
    <3>5. requests'[k][j].t = "create" /\ requests'[k][j].flow = f
      BY <1>3, <1>5, <3>4
    <3>6. ToBeMade(f)'
      BY <3>4, <3>5 DEF ToBeMade
    <3> QED BY <3>6
  <2> QED BY <2>5, <2>6
<1> QED BY <1>4, <1>5

LEMMA RequestsSafe ==
  ASSUME CountInv, SocketsInv, Requests
  PROVE  SocketsInv'
<1>1. PICK k \in Keys : \/ JoinBundle(k) \/ FlowGranted(k) \/ FlowRefused(k) \/ FlowWithoutSocket(k)
                        \/ FlowUpdated(k) \/ FlowNotUpdated(k)
  BY DEF Requests
<1>2. /\ phase = "requests" /\ requests[k] # <<>> /\ requests' = [requests EXCEPT ![k] = Tail(@)]
      /\ UNCHANGED <<tasks, destroying, multicast>>
  BY <1>1 DEF JoinBundle, FlowGranted, FlowRefused, FlowWithoutSocket, FlowUpdated, FlowNotUpdated, Running
<1>3. PICK r, f, g : r = Head(requests[k]) /\ f = r.flow /\ g = [flows[f] EXCEPT !.handle = TRUE]
  OBVIOUS
<1>4. flows \in [Indices -> {None} \cup Flow] /\ requests \in [Keys -> Seq(Request)]
  BY DEF CountInv, TypeOK
<1>5. r \in Request /\ f \in Indices
  <2>1. requests[k] \in Seq(Request) /\ requests[k] # <<>>
    BY <1>2, <1>4
  <2>2. r \in Request
    BY <1>3, <2>1
  <2> QED BY <1>3, <2>2 DEF Request
<1>6. flows[f] # None /\ flows[f] \in Flow
  <2>1. RequestsFit
    BY <1>2 DEF CountInv, PlanFits
  <2>2. 1 \in DOMAIN requests[k] /\ r = requests[k][1]
    BY <1>2, <1>3, <1>4
  <2>3. flows[f] # None
    BY <1>3, <2>1, <2>2 DEF RequestsFit
  <2> QED BY <1>4, <1>5, <2>3
<1>7. flows[f].id \in Nat /\ g.kind = flows[f].kind
  BY <1>3, <1>6 DEF Flow
<1>8. /\ tasks' \in Seq(Task)
      /\ \A i \in DOMAIN tasks' : tasks'[i].t = "remove" => i \in DOMAIN tasks /\ tasks[i] = tasks'[i]
  BY <1>2, Unspawned DEF SocketsInv
<1>9. \A h : ToBeMade(h) => ToBeMade(h)' \/ (r.t = "create" /\ h = f)
  BY <1>2, <1>3, StillToBeMade
<1>10. QueueSafe /\ f = Head(requests[k]).flow /\ r.t = Head(requests[k]).t
  BY <1>3 DEF SocketsInv
<1>11. CASE JoinBundle(k) \/ FlowGranted(k)
  <2>1. add_socket(f, flows[f].id) /\ UNCHANGED phase
    BY <1>10, <1>11 DEF JoinBundle, FlowGranted
  <2>2. QueueSafe' /\ Open(f)' /\ \A h : Open(h) => Open(h)'
    BY <1>7, <1>10, <2>1, SocketAdded
  <2>3. UNCHANGED flows \/ flows' = [flows EXCEPT ![f] = g]
    BY <1>3, <1>11 DEF JoinBundle, FlowGranted
  <2>4. \A h \in Indices : flows'[h] # None => flows[h] # None /\ flows'[h].kind = flows[h].kind
    BY <1>4, <1>5, <1>6, <1>7, <2>3
  <2>5. \A h \in Indices : ToBeMade(h) => Open(h)' \/ ToBeMade(h)'
    BY <1>9, <2>2
  <2> QED BY <1>2, <1>8, <2>1, <2>2, <2>4, <2>5, StillSafe
<1>12. CASE FlowRefused(k) \/ FlowWithoutSocket(k)
  <2>1. UNCHANGED rxvars
    BY <1>12 DEF FlowRefused, FlowWithoutSocket
  <2>2. QueueSafe' /\ \A h : Open(h) => Open(h)'
    BY <1>10, <2>1, QueueKept
  <2>3. \/ UNCHANGED phase /\ flows' = [flows EXCEPT ![f] = None]
        \/ phase' = "panicked" /\ UNCHANGED flows
    <3>1. CASE FlowRefused(k)
      <4>1. PICK chs : chs = UNION {u.chs : u \in Head(requests[k]).updates}
        OBVIOUS
      <4>2. IF \A ch \in chs : info[ch] # None
            THEN flows' = [flows EXCEPT ![f] = None] /\ UNCHANGED phase
            ELSE phase' = "panicked" /\ UNCHANGED flows
        BY <1>10, <3>1, <4>1 DEF FlowRefused
      <4> QED BY <4>2
    <3>2. CASE FlowWithoutSocket(k)
      BY <1>10, <3>2 DEF FlowWithoutSocket
    <3> QED BY <1>12, <3>1, <3>2
  <2>4. \A h \in Indices : flows'[h] # None => flows[h] # None /\ flows'[h].kind = flows[h].kind
    BY <1>4, <1>5, <2>3
  <2>5. phase' = "requests" =>
          \A h \in Indices : flows'[h] # None /\ ToBeMade(h) => Open(h)' \/ ToBeMade(h)'
    BY <1>4, <1>5, <1>9, <2>3
  <2>6. UNCHANGED phase \/ (phase # "destroy" /\ phase' \notin {"commands", "requests", "destroy"})
    <3>1. UNCHANGED phase \/ phase' = "panicked"
      BY <2>3
    <3> QED BY <1>2, <3>1
  <2> QED BY <1>2, <1>8, <2>2, <2>4, <2>5, <2>6, StillSafe
<1>13. CASE FlowUpdated(k) \/ FlowNotUpdated(k)
  <2>1. UNCHANGED <<rxvars, flows, phase>> /\ r.t = "update"
    BY <1>10, <1>13 DEF FlowUpdated, FlowNotUpdated, Running
  <2>2. QueueSafe' /\ \A h : Open(h) => Open(h)'
    BY <1>10, <2>1, QueueKept
  <2>3. \A h \in Indices : ToBeMade(h) => ToBeMade(h)'
    BY <1>9, <2>1
  <2> QED BY <1>2, <1>8, <2>1, <2>2, <2>3, StillSafe
<1> QED BY <1>1, <1>11, <1>12, <1>13

\* A task has been taken: where the others have gone
LEMMA OthersMove ==
  ASSUME NEW S, NEW q \in Seq(S), NEW i \in DOMAIN q, NEW r, r = RemoveAt(q, i)
  PROVE  \A j \in DOMAIN r : IF j < i THEN j \in DOMAIN q /\ r[j] = q[j] ELSE j + 1 \in DOMAIN q /\ r[j] = q[j + 1]
<1>1. PICK n : n = Len(q)
  OBVIOUS
<1>2. n \in Nat /\ DOMAIN q = 1 .. n /\ i \in 1 .. n
  BY <1>1
<1>3. PICK a, b, l, k : a = SubSeq(q, 1, l) /\ b = SubSeq(q, k, n) /\ l = i - 1 /\ k = i + 1
  OBVIOUS
<1>4. /\ l \in Nat /\ k \in Nat \ {0} /\ l <= n /\ 1 \in Nat \ {0}
      /\ \A j \in 1 .. l : q[j] \in S
      /\ \A j \in k .. n : q[j] \in S
  BY <1>2, <1>3
<1>5. a \in Seq(S) /\ Len(a) = l /\ \A j \in 1 .. l : a[j] = q[j]
  BY <1>1, <1>2, <1>3, <1>4
<1>6. b \in Seq(S) /\ Len(b) = n - i /\ \A j \in 1 .. n - i : b[j] = q[j + i]
  <2>1. /\ b \in Seq(S) /\ Len(b) = (IF k <= n THEN n - k + 1 ELSE 0)
        /\ \A j \in 1 .. n - k + 1 : b[j] = q[k + j - 1]
    BY <1>2, <1>3, <1>4, SubSeqProperties
  <2>2. n - k + 1 = n - i /\ (k <= n => n - i = n - k + 1) /\ (~(k <= n) => n - i = 0)
    BY <1>2, <1>3
  <2>3. \A j \in 1 .. n - i : k + j - 1 = j + i
    BY <1>2, <1>3
  <2> QED BY <2>1, <2>2, <2>3
<1>7. r = a \o b
  BY <1>1, <1>3 DEF RemoveAt
<1>8. /\ DOMAIN r = 1 .. l + (n - i)
      /\ \A j \in 1 .. l + (n - i) : r[j] = IF j <= l THEN a[j] ELSE b[j - l]
  BY <1>2, <1>5, <1>6, <1>7, ConcatProperties, LenProperties
<1> SUFFICES ASSUME NEW j \in DOMAIN r
             PROVE  IF j < i THEN j \in DOMAIN q /\ r[j] = q[j] ELSE j + 1 \in DOMAIN q /\ r[j] = q[j + 1]
  OBVIOUS
<1>9. j \in 1 .. n - 1 /\ j \in 1 .. l + (n - i)
  BY <1>2, <1>3, <1>8
<1>10. CASE j < i
  <2>1. j \in 1 .. l /\ j <= l
    BY <1>2, <1>3, <1>9, <1>10
  <2> QED BY <1>2, <1>5, <1>8, <1>9, <1>10, <2>1
<1>11. CASE ~(j < i)
  <2>1. PICK m : m = j - l
    OBVIOUS
  <2>2. m \in 1 .. n - i /\ m + i = j + 1 /\ ~(j <= l)
    <3>1. l \in Int /\ n \in Int /\ i \in Int /\ j \in Int /\ l = i - 1 /\ j <= n - 1 /\ j >= i
      BY <1>2, <1>3, <1>9, <1>11
    <3> QED BY <2>1, <3>1
  <2>3. r[j] = b[m]
    BY <1>8, <1>9, <2>1, <2>2
  <2>4. b[m] = q[j + 1]
    BY <1>6, <2>2
  <2> QED BY <1>2, <1>9, <1>11, <2>3, <2>4
<1> QED BY <1>10, <1>11

\* A spawned task runs: the removal of a socket, if it is one, was the only one.
LEMMA TasksSafe ==
  ASSUME SocketsInv, Tasks
  PROVE  SocketsInv'
<1>1. PICK i \in DOMAIN tasks : ConnectCollector(i) \/ DisconnectCollector(i) \/ ConnectSink(i) \/ LeaveBundle(i)
  BY DEF Tasks
<1>2. tasks' = RemoveAt(tasks, i) /\ UNCHANGED <<flows, phase, requests, destroying, multicast>>
  BY <1>1 DEF ConnectCollector, DisconnectCollector, ConnectSink, LeaveBundle, RunTask, worker, net
<1>3. PICK c : c = tasks[i]
  OBVIOUS
<1>4. LeavesOnce /\ QueueSafe /\ FlowsOpen /\ OnlyUnicast /\ tasks \in Seq(Task)
  BY DEF SocketsInv, LeavesOnce
<1>5. /\ c \in Task /\ tasks' \in Seq(Task)
      /\ \A j \in DOMAIN tasks' : IF j < i THEN j \in DOMAIN tasks /\ tasks'[j] = tasks[j]
                                  ELSE j + 1 \in DOMAIN tasks /\ tasks'[j] = tasks[j + 1]
  BY <1>2, <1>3, <1>4, OneTaken, OthersMove
<1>6. c.t = "remove" =>
        /\ flows[c.flow] = None /\ Open(c.flow)
        /\ \A j \in DOMAIN tasks : tasks[j].t = "remove" /\ tasks[j].flow = c.flow => i = j
        /\ \A d \in destroying : d.flow # c.flow
  BY <1>3, <1>4 DEF LeavesOnce
<1>7. QueueSafe' /\ \A g : (c.t = "remove" => g # c.flow) /\ Open(g) => Open(g)'
  <2>1. CASE ConnectCollector(i) \/ DisconnectCollector(i)
    <3>1. UNCHANGED rxvars
      BY <2>1 DEF ConnectCollector, DisconnectCollector
    <3> QED BY <1>4, <3>1, QueueKept
  <2>2. CASE ConnectSink(i)
    <3>1. c.t = "sink" /\ connect_channel(c.flow, c.slot, c.rb)
      BY <1>3, <2>2 DEF ConnectSink, RunTask
    <3>2. c.rb \in Buffer
      BY <1>5, <3>1 DEF Task
    <3> QED BY <1>4, <3>1, <3>2, SinkSent
  <2>3. CASE LeaveBundle(i)
    <3>1. c.t = "remove" /\ remove_socket(c.flow)
      BY <1>3, <2>3 DEF LeaveBundle, RunTask
    <3> QED BY <1>4, <1>6, <3>1, SocketRemoved
  <2> QED BY <1>1, <2>1, <2>2, <2>3
<1>8. FlowsOpen'
  <2>1. \A f \in Indices : flows[f] # None /\ Open(f) => Open(f)'
    BY <1>6, <1>7
  <2>2. \A f : ToBeMade(f)' <=> ToBeMade(f)
    BY <1>2 DEF ToBeMade
  <2> QED BY <1>2, <1>4, <2>1, <2>2 DEF FlowsOpen
<1>9. ASSUME NEW j \in DOMAIN tasks', tasks'[j].t = "remove"
      PROVE  /\ flows'[tasks'[j].flow] = None /\ Open(tasks[j].flow)'
             /\ \A l \in DOMAIN tasks' : tasks'[l].t = "remove" /\ tasks'[l].flow = tasks'[j].flow => j = l
             /\ \A d \in destroying' : d.flow # tasks'[j].flow
  <2>1. PICK f, z : f = tasks'[j].flow /\ z = IF j < i THEN j ELSE j + 1
    OBVIOUS
  <2>2. i \in Nat /\ \A l \in DOMAIN tasks' : l \in Nat
    BY <1>4, <1>5
  <2>3. z \in DOMAIN tasks /\ tasks'[j] = tasks[z] /\ z # i
    BY <1>5, <2>1, <2>2
  <2>4. /\ flows[f] = None /\ Open(f) /\ \A d \in destroying : d.flow # f
        /\ \A l \in DOMAIN tasks : tasks[l].t = "remove" /\ tasks[l].flow = f => z = l
    BY <1>4, <1>9, <2>1, <2>3 DEF LeavesOnce
  <2>5. c.t = "remove" => c.flow # f
    BY <1>3, <2>3, <2>4
  <2>6. Open(f)'
    BY <1>7, <2>4, <2>5
  <2>7. ASSUME NEW l \in DOMAIN tasks', tasks'[l].t = "remove", tasks'[l].flow = f PROVE j = l
    <3>1. PICK y : y = IF l < i THEN l ELSE l + 1
      OBVIOUS
    <3>2. y \in DOMAIN tasks /\ tasks'[l] = tasks[y]
      BY <1>5, <3>1
    <3>3. y = z
      BY <2>4, <2>7, <3>2
    <3> QED BY <2>1, <2>2, <3>1, <3>3
  <2>8. Open(tasks[j].flow)'
    BY <2>1, <2>6 DEF Open
  <2> QED BY <1>2, <2>1, <2>4, <2>7, <2>8
<1>10. LeavesOnce'
  <2>1. ASSUME NEW d \in destroying
        PROVE  /\ d.flow \in Indices /\ flows[d.flow] = None /\ Open(d.flow)'
               /\ \A e \in destroying : d.flow = e.flow => d = e
    BY <1>4, <1>6, <1>7 DEF LeavesOnce
  <2>2. phase # "destroy" => destroying = {}
    BY <1>4 DEF LeavesOnce
  <2> QED BY <1>2, <1>5, <1>9, <2>1, <2>2 DEF LeavesOnce
<1>11. OnlyUnicast'
  <2>1. ASSUME Bundled = {}, NEW j \in DOMAIN tasks' PROVE tasks'[j].t # "remove"
    BY <1>4, <1>5, <2>1 DEF OnlyUnicast
  <2> QED BY <1>2, <1>4, <2>1 DEF OnlyUnicast
<1> QED BY <1>7, <1>8, <1>10, <1>11 DEF SocketsInv

\* A flow is destroyed, and its socket is removed.
LEMMA DestroySafe ==
  ASSUME SocketsInv, NEW d \in destroying, DestroyFlow(d)
  PROVE  SocketsInv'
<1>1. /\ phase = "destroy" /\ destroying' = destroying \ {d} /\ remove_socket(d.flow)
      /\ phase' = (IF destroying = {d} THEN "commands" ELSE phase)
      /\ UNCHANGED <<flows, tasks, requests, multicast>>
  BY DEF DestroyFlow, shared
<1>2. LeavesOnce /\ QueueSafe /\ FlowsOpen /\ OnlyUnicast
  BY DEF SocketsInv
<1>3. \A e \in destroying : /\ e.flow \in Indices /\ flows[e.flow] = None /\ Open(e.flow)
                            /\ \A g \in destroying : e.flow = g.flow => e = g
  BY <1>2 DEF LeavesOnce
<1>4. QueueSafe' /\ \A g : g # d.flow /\ Open(g) => Open(g)'
  BY <1>1, <1>2, <1>3, SocketRemoved
<1>5. FlowsOpen'
  <2>1. \A f \in Indices : flows[f] # None /\ Open(f) => Open(f)'
    BY <1>3, <1>4
  <2>2. \A f : ToBeMade(f)' <=> ToBeMade(f)
    BY <1>1 DEF ToBeMade
  <2>3. phase' \in {"commands", "destroy"} /\ requests' = Idle
    BY <1>1, <1>2 DEF FlowsOpen
  <2>4. \A f \in Indices : flows'[f] # None => Open(f)' \/ ToBeMade(f)'
    BY <1>1, <1>2, <2>1, <2>2 DEF FlowsOpen
  <2> QED BY <2>3, <2>4 DEF FlowsOpen
<1>6. LeavesOnce'
  <2>1. ASSUME NEW i \in DOMAIN tasks, tasks[i].t = "remove"
        PROVE  /\ flows[tasks[i].flow] = None /\ Open(tasks[i].flow)'
               /\ \A j \in DOMAIN tasks : tasks[j].t = "remove" /\ tasks[j].flow = tasks[i].flow => i = j
               /\ \A e \in destroying' : e.flow # tasks[i].flow
    <3>1. PICK f : f = tasks[i].flow
      OBVIOUS
    <3>2. /\ flows[f] = None /\ Open(f) /\ \A e \in destroying : e.flow # f
          /\ \A j \in DOMAIN tasks : tasks[j].t = "remove" /\ tasks[j].flow = f => i = j
      BY <1>2, <2>1, <3>1 DEF LeavesOnce
    <3>3. Open(f)'
      BY <1>4, <3>2
    <3>4. tasks'[i].flow = f
      BY <1>1, <3>1
    <3>5. Open(tasks[i].flow)'
      BY <3>3, <3>4 DEF Open
    <3> QED BY <1>1, <3>1, <3>2, <3>5
  <2>2. ASSUME NEW e \in destroying'
        PROVE  /\ e.flow \in Indices /\ flows[e.flow] = None /\ Open(e.flow)'
               /\ \A g \in destroying' : e.flow = g.flow => e = g
    <3>1. e \in destroying /\ e # d
      BY <1>1, <2>2
    <3>2. e.flow # d.flow
      BY <1>3, <3>1
    <3> QED BY <1>1, <1>3, <1>4, <3>1, <3>2
  <2>3. phase' # "destroy" => destroying' = {}
    BY <1>1
  <2>4. tasks' \in Seq(Task)
    BY <1>1, <1>2 DEF LeavesOnce
  <2> QED BY <1>1, <2>1, <2>2, <2>3, <2>4 DEF LeavesOnce
<1>7. OnlyUnicast'
  BY <1>1, <1>2 DEF OnlyUnicast
<1> QED BY <1>4, <1>5, <1>6, <1>7 DEF SocketsInv

\* When the worker goes on, no removal waits.
LEMMA NoRemovals ==
  ASSUME Bundled = {} \/ MaxWaiting = 0, SocketsInv, GoesOn
  PROVE  \A i \in DOMAIN tasks : tasks[i].t # "remove"
<1>1. CASE Bundled = {}
  BY <1>1 DEF SocketsInv, OnlyUnicast
<1>2. CASE MaxWaiting = 0
  <2>1. tasks \in Seq(Task) /\ Len(tasks) <= 0
    BY <1>2 DEF SocketsInv, LeavesOnce, GoesOn
  <2>2. DOMAIN tasks = {}
    BY <2>1
  <2> QED BY <2>2
<1> QED BY <1>1, <1>2

LEMMA NothingAsked ==
  ASSUME requests = Idle
  PROVE  \A f : ~ToBeMade(f)
  BY DEF ToBeMade, Idle

LEMMA ScanSafe ==
  ASSUME Bundled = {} \/ MaxWaiting = 0, CountInv, SocketsInv, GoesOn, requests = Idle, phase \in {"commands", "requests"},
         scan_flows, UNCHANGED rxvars
  PROVE  SocketsInv'
<1>1. UNCHANGED <<requests, multicast>>
  BY DEF scan_flows
<1>2. LeavesOnce /\ QueueSafe /\ FlowsOpen /\ OnlyUnicast /\ tasks \in Seq(Task)
  BY DEF SocketsInv, LeavesOnce
<1>3. QueueSafe' /\ \A f : Open(f) => Open(f)'
  BY <1>2, QueueKept
<1>4. \A f \in Indices : flows[f] # None => Open(f)
  BY <1>2, NothingAsked DEF FlowsOpen
<1>5. CASE UNCHANGED <<flows, tasks, destroying>> /\ phase' = "panicked"
  <2>1. /\ tasks' \in Seq(Task)
        /\ \A i \in DOMAIN tasks' : tasks'[i].t = "remove" => i \in DOMAIN tasks /\ tasks[i] = tasks'[i]
    BY <1>2, <1>5, Unspawned
  <2>2. phase # "destroy" /\ phase' \notin {"commands", "requests", "destroy"}
    BY <1>5
  <2> QED BY <1>1, <1>3, <1>5, <2>1, <2>2, StillSafe
<1>6. ASSUME NEW unicast, unicast = {f \in Dead : flows[f].kind = "unicast"},
             NEW gone, gone = Sorted(Dead \ unicast),
             phase' = (IF unicast = {} THEN "commands" ELSE "destroy"),
             flows' = [f \in Indices |-> IF f \in Dead THEN None ELSE flows[f]],
             destroying' = {[flow |-> f, id |-> flows[f].id] : f \in unicast},
             tasks' = tasks \o Disconnects(Orphans) \o [i \in DOMAIN gone |-> [t |-> "remove", flow |-> gone[i]]]
      PROVE  SocketsInv'
  <2>1. PICK S, n : S = Dead \ unicast /\ n = Cardinality(S)
    OBVIOUS
  <2>2. S \subseteq Indices /\ IsFiniteSet(S) /\ S \subseteq Nat
    <3>1. S \subseteq Indices
      BY <2>1 DEF Dead
    <3> QED BY <3>1, Numbers, FS_Subset
  <2>3. /\ n \in Nat /\ DOMAIN gone = 1 .. n /\ (\A i \in 1 .. n : gone[i] \in S)
        /\ \A i, j \in 1 .. n : gone[i] = gone[j] => i = j
    BY <1>6, <2>1, <2>2, SortedIs
  <2>4. PICK q, p, a : /\ q = Disconnects(Orphans) /\ p = [i \in 1 .. n |-> [t |-> "remove", flow |-> gone[i]]]
                       /\ a = tasks \o q
    OBVIOUS
  <2>5. q \in Seq(Task) /\ \A c \in ToSet(q) : c.t = "disconnect"
    BY <2>4, DisconnectsAre DEF Orphans
  <2>6. /\ p \in Seq(Task) /\ Len(p) = n
        /\ \A i \in 1 .. n : p[i].t = "remove" /\ p[i].flow = gone[i]
    <3>1. ASSUME NEW i \in 1 .. n PROVE p[i] \in Task /\ p[i].t = "remove" /\ p[i].flow = gone[i]
      <4>1. PICK c : c = [t |-> "remove", flow |-> gone[i]]
        OBVIOUS
      <4>2. c \in Task /\ c.t = "remove" /\ c.flow = gone[i]
        BY <2>2, <2>3, <4>1 DEF Task
      <4>3. p[i] = c
        BY <2>4, <4>1
      <4> QED BY <4>2, <4>3
    <3>2. DOMAIN p = 1 .. n /\ p = [i \in 1 .. n |-> p[i]]
      BY <2>4
    <3>3. \A i \in 1 .. n : p[i] \in Task
      BY <3>1
    <3>4. p \in Seq(Task) /\ Len(p) = n
      BY <2>3, <3>2, <3>3
    <3> QED BY <3>1, <3>4
  <2>7. a \in Seq(Task) /\ \A c \in ToSet(a) : c.t # "remove"
    <3>1. a \in Seq(Task) /\ ToSet(a) = ToSet(tasks) \cup ToSet(q)
      BY <1>2, <2>4, <2>5, BothHold
    <3>2. \A c \in ToSet(tasks) : c.t # "remove"
      BY NoRemovals DEF ToSet
    <3> QED BY <2>5, <3>1, <3>2
  <2>8. PICK m : m = Len(a)
    OBVIOUS
  <2>9. /\ m \in Nat /\ tasks' \in Seq(Task) /\ DOMAIN tasks' = 1 .. m + n
        /\ \A i \in 1 .. m + n : tasks'[i] = IF i <= m THEN a[i] ELSE p[i - m]
    <3>1. tasks' = a \o p
      BY <1>6, <2>3, <2>4
    <3>2. PICK r : r = a \o p
      OBVIOUS
    <3>3. m \in Nat /\ n \in Nat /\ Len(p) = n /\ p \in Seq(Task) /\ a \in Seq(Task)
      BY <2>3, <2>6, <2>7, <2>8
    <3>4. /\ r \in Seq(Task) /\ Len(r) = m + n
          /\ \A i \in 1 .. m + n : r[i] = IF i <= m THEN a[i] ELSE p[i - m]
      BY <2>8, <3>2, <3>3, ConcatProperties
    <3>5. DOMAIN r = 1 .. m + n
      BY <3>4
    <3> QED BY <3>1, <3>2, <3>3, <3>4, <3>5
  <2>10. ASSUME NEW i \in DOMAIN tasks', tasks'[i].t = "remove"
         PROVE  i - m \in 1 .. n /\ tasks'[i].flow = gone[i - m]
    <3>1. i \in 1 .. m + n
      BY <2>9
    <3>2. CASE i <= m
      <4>1. i \in DOMAIN a /\ tasks'[i] = a[i]
        BY <2>7, <2>8, <2>9, <3>1, <3>2
      <4> QED BY <2>7, <2>10, <4>1 DEF ToSet
    <3>3. CASE i > m
      <4>1. i - m \in 1 .. n /\ tasks'[i] = p[i - m]
        BY <2>3, <2>9, <3>1, <3>3
      <4> QED BY <2>6, <4>1
    <3> QED BY <2>9, <3>1, <3>2, <3>3
  <2>11. \A f \in Dead : f \in Indices /\ flows[f] # None /\ flows'[f] = None /\ Open(f)'
    BY <1>3, <1>4, <1>6 DEF Dead
  <2>12. \A d \in destroying' : d.flow \in unicast /\ d = [flow |-> d.flow, id |-> flows[d.flow].id]
    BY <1>6
  <2>13. unicast \subseteq Dead /\ S \subseteq Dead
    BY <1>6, <2>1
  <2>14. LeavesOnce'
    <3>1. ASSUME NEW i \in DOMAIN tasks', tasks'[i].t = "remove"
          PROVE  /\ flows'[tasks'[i].flow] = None /\ Open(tasks[i].flow)'
                 /\ \A j \in DOMAIN tasks' : tasks'[j].t = "remove" /\ tasks'[j].flow = tasks'[i].flow => i = j
                 /\ \A d \in destroying' : d.flow # tasks'[i].flow
      <4>1. PICK f : f = tasks'[i].flow
        OBVIOUS
      <4>2. f \in S /\ i - m \in 1 .. n /\ f = gone[i - m]
        BY <2>3, <2>10, <3>1, <4>1
      <4>3. flows'[f] = None /\ Open(f)'
        BY <2>11, <2>13, <4>2
      <4>4. Open(tasks[i].flow)'
        BY <4>1, <4>3 DEF Open
      <4>5. ASSUME NEW j \in DOMAIN tasks', tasks'[j].t = "remove", tasks'[j].flow = f PROVE i = j
        <5>1. PICK x, y : x = i - m /\ y = j - m
          OBVIOUS
        <5>2. x \in 1 .. n /\ y \in 1 .. n /\ gone[x] = gone[y]
          BY <2>10, <4>2, <4>5, <5>1
        <5>3. x = y
          BY <2>3, <5>2
        <5>4. i \in Int /\ j \in Int /\ m \in Int
          BY <2>9
        <5> QED BY <5>1, <5>3, <5>4
      <4>6. \A d \in destroying' : d.flow # f
        BY <2>1, <2>12, <4>2
      <4> QED BY <4>1, <4>3, <4>4, <4>5, <4>6
    <3>2. \A d \in destroying' : /\ d.flow \in Indices /\ flows'[d.flow] = None /\ Open(d.flow)'
                                 /\ \A e \in destroying' : d.flow = e.flow => d = e
      BY <2>11, <2>12, <2>13
    <3>3. phase' # "destroy" => destroying' = {}
      BY <1>6
    <3> QED BY <2>9, <3>1, <3>2, <3>3 DEF LeavesOnce
  <2>15. FlowsOpen'
    <3>1. \A f \in Indices : flows'[f] # None => Open(f)'
      BY <1>3, <1>4, <1>6
    <3> QED BY <1>1, <3>1 DEF FlowsOpen
  <2>16. OnlyUnicast'
    <3> SUFFICES ASSUME Bundled = {}
                 PROVE  /\ multicast' = {}
                        /\ \A f \in Indices : flows'[f] # None => flows'[f].kind = "unicast"
                        /\ \A i \in DOMAIN tasks' : tasks'[i].t # "remove"
      BY DEF OnlyUnicast
    <3>1. multicast = {} /\ \A f \in Indices : flows[f] # None => flows[f].kind = "unicast"
      BY <1>2 DEF OnlyUnicast
    <3>2. \A f \in Indices : flows'[f] # None => flows'[f].kind = "unicast"
      BY <1>6, <3>1
    <3>3. S = {}
      BY <1>6, <2>1, <3>1 DEF Dead
    <3>4. \A i \in DOMAIN tasks' : tasks'[i].t # "remove"
      BY <2>3, <2>10, <3>3
    <3> QED BY <1>1, <3>1, <3>2, <3>4
  <2> QED BY <1>3, <2>14, <2>15, <2>16 DEF SocketsInv
<1> QED BY <1>5, <1>6 DEF scan_flows

LEMMA FiniteUpTo == ASSUME NEW z \in Nat PROVE IsFiniteSet(1 .. z) /\ \A i \in 1 .. z : i \in Nat
  BY FS_Interval

\* The flows that are made are asked for.
LEMMA NewsAsked ==
  ASSUME CountInv, NEW found \in SUBSET Asked, NEW news, FlowsToMake(news), NEW n \in DOMAIN news,
         NEW f, f = Vacant[n],
         requests' = [k \in Keys |-> (IF k[1] = "unicast" THEN UpdateRequests(found, k[2]) ELSE <<>>)
                                     \o CreateRequests(found, news, k)]
  PROVE  ToBeMade(f)'
<1>1. PICK k : k = <<news[n].kind, news[n].server>>
  OBVIOUS
<1>2. k \in Keys
  BY <1>1 DEF FlowsToMake, Keys
<1>3. PICK a, b : /\ a = IF k[1] = "unicast" THEN UpdateRequests(found, k[2]) ELSE <<>>
                  /\ b = CreateRequests(found, news, k)
  OBVIOUS
<1>4. a \in Seq(Request)
  <2>1. CASE k[1] = "unicast"
    BY <1>3, <2>1, UpdateRequestsAre DEF Listed, Planned
  <2>2. CASE k[1] # "unicast"
    BY <1>3, <2>2
  <2> QED BY <2>1, <2>2
<1>5. b \in Seq(Request)
  BY <1>3, CreateRequestsAre DEF Listed, Planned
<1>6. PICK S, own, m : S = {i \in DOMAIN news : <<news[i].kind, news[i].server>> = k} /\ own = Own(news, k) /\ m = Cardinality(S)
  OBVIOUS
<1>7. IsFiniteSet(S) /\ S \subseteq Nat
  <2>1. PICK z : z = Len(news)
    OBVIOUS
  <2>2. z \in Nat /\ S \subseteq 1 .. z
    BY <1>6, <2>1 DEF FlowsToMake
  <2>3. IsFiniteSet(1 .. z) /\ \A i \in 1 .. z : i \in Nat
    BY <2>2, FiniteUpTo
  <2> QED BY <2>2, <2>3, FS_Subset
<1>8. n \in S /\ own = Sorted(S)
  BY <1>1, <1>6 DEF Own
<1>9. PICK j \in 1 .. m : own[j] = n /\ DOMAIN own = 1 .. m
  BY <1>6, <1>7, <1>8, SortedIs
<1>10. j \in DOMAIN b /\ b[j].t = "create" /\ b[j].flow = f
  BY <1>1, <1>3, <1>6, <1>9 DEF CreateRequests
<1>11. PICK z : z = Len(a) + j
  OBVIOUS
<1>12. z \in DOMAIN (a \o b) /\ (a \o b)[z] = b[j]
  BY <1>4, <1>5, <1>10, <1>11
<1>13. requests'[k] = a \o b
  BY <1>2, <1>3
<1>14. z \in DOMAIN requests'[k] /\ requests'[k][z].t = "create" /\ requests'[k][z].flow = f
  BY <1>10, <1>12, <1>13
<1> QED BY <1>2, <1>14 DEF ToBeMade

\* They are unicast flows if there are no bundles.
LEMMA UnicastNews ==
  ASSUME multicast = {}, NEW found \in SUBSET Asked, NEW bundles, bundles \subseteq {v \in Servers : PerBundle(found, v) # {}},
         NEW n \in DOMAIN NewFlows(found, bundles)
  PROVE  NewFlows(found, bundles)[n].kind = "unicast"
<1>1. bundles = {}
  BY DEF PerBundle
<1>2. PICK S, chunks, b : S = NewBundles(bundles) /\ chunks = Sorted(Chunks(found)) /\ b = Cardinality(Chunks(found))
  OBVIOUS
<1>3. S = {} /\ S \subseteq Nat
  BY <1>1, <1>2 DEF NewBundles
<1>4. Sorted(S) = <<>>
  <2>1. Cardinality(S) = 0 /\ IsFiniteSet(S)
    BY <1>3, FS_EmptySet
  <2>2. Len(Sorted(S)) = 0 /\ Sorted(S) \in Seq(S)
    BY <1>3, <2>1, SortedIs
  <2> QED BY <2>2, EmptySeq
<1>5. b \in Nat /\ DOMAIN chunks = 1 .. b
  BY <1>2, ChunksAre, SortedIs
<1>6. PICK p, q : /\ p = [i \in DOMAIN Sorted(S) |-> [kind |-> "multicast", server |-> Sorted(S)[i], chunk |-> 0]]
                  /\ q = [i \in 1 .. b |-> [kind |-> "unicast", server |-> chunks[i] \div Cardinality(Channels),
                                            chunk |-> chunks[i] % Cardinality(Channels)]]
  OBVIOUS
<1>7. NewFlows(found, bundles) = p \o q
  BY <1>2, <1>5, <1>6 DEF NewFlows
<1>8. p = <<>> /\ \A i \in 1 .. b : q[i].kind = "unicast"
  BY <1>4, <1>6
<1>9. PICK T : T = {q[i] : i \in 1 .. b}
  OBVIOUS
<1>10. q \in Seq(T) /\ DOMAIN q = 1 .. b
  <2>1. DOMAIN q = 1 .. b /\ q = [i \in 1 .. b |-> q[i]]
    BY <1>6
  <2>2. \A i \in 1 .. b : q[i] \in T
    BY <1>9
  <2> QED BY <1>5, <2>1, <2>2
<1>11. NewFlows(found, bundles) = q
  BY <1>7, <1>8, <1>10, ConcatEmptySeq
<1> QED BY <1>8, <1>10, <1>11

LEMMA ResolveSafe ==
  ASSUME Bundled = {} \/ MaxWaiting = 0, CountInv, SocketsInv, Resolving
  PROVE  SocketsInv'
<1>1. PICK found \in SUBSET Asked, bundles \in SUBSET Servers : Resolve(found, bundles)
  BY DEF Resolving
<1>2. PICK news : news = NewFlows(found, bundles)
  OBVIOUS
<1>3. /\ Len(news) <= Len(Vacant)
      /\ flows' = [f \in Indices |->
                    IF \E i \in DOMAIN news : Vacant[i] = f
                    THEN LET i == CHOOSE j \in DOMAIN news : Vacant[j] = f
                         IN  NewFlow(news[i], made + i, NewUpdates(found, news[i], f))
                    ELSE flows[f]]
      /\ requests' = [k \in Keys |-> (IF k[1] = "unicast" THEN UpdateRequests(found, k[2]) ELSE <<>>)
                                     \o CreateRequests(found, news, k)]
  BY <1>1, <1>2 DEF Resolve
<1>4. /\ GoesOn /\ phase = "commands" /\ phase' = "requests" /\ UNCHANGED <<tasks, destroying, multicast, rxvars>>
      /\ bundles \subseteq {v \in Servers : PerBundle(found, v) # {}}
  BY <1>1 DEF Resolve, NoMoreCommands
<1>5. FlowsToMake(news)
  BY <1>2, <1>3, NewsAre
<1>6. /\ \A f \in Indices : flows[f] # None => flows'[f] = flows[f]
      /\ \A n \in DOMAIN news : flows'[Vacant[n]].kind = news[n].kind
      /\ \A f \in Indices : flows[f] = None /\ flows'[f] # None => \E n \in DOMAIN news : Vacant[n] = f
  <2>1. \A f \in Indices : flows[f] # None => flows'[f] = flows[f]
    BY <1>3, <1>5, FlowsAfter
  <2>2. \A n \in DOMAIN news : flows'[Vacant[n]].kind = news[n].kind
    BY <1>3, <1>5, FlowsAfter
  <2>3. \A f \in Indices : flows[f] = None /\ flows'[f] # None => \E n \in DOMAIN news : Vacant[n] = f
    BY <1>3, <1>5, FlowsAfter
  <2> QED BY <2>1, <2>2, <2>3
<1>7. LeavesOnce /\ QueueSafe /\ FlowsOpen /\ OnlyUnicast
  BY DEF SocketsInv
<1>8. QueueSafe' /\ \A f : Open(f) => Open(f)'
  BY <1>4, <1>7, QueueKept
<1>9. \A i \in DOMAIN tasks : tasks[i].t # "remove"
  BY <1>4, NoRemovals
<1>10. destroying = {}
  BY <1>4, <1>7 DEF LeavesOnce
<1>11. FlowsOpen'
  <2>1. requests = Idle
    BY <1>4, <1>7 DEF FlowsOpen
  <2>2. ASSUME NEW f \in Indices, flows'[f] # None PROVE Open(f)' \/ ToBeMade(f)'
    <3>1. CASE flows[f] # None
      <4>1. Open(f)
        BY <1>4, <1>7, <2>1, <3>1, NothingAsked DEF FlowsOpen
      <4> QED BY <1>8, <4>1
    <3>2. CASE flows[f] = None
      <4>1. PICK n \in DOMAIN news : Vacant[n] = f
        BY <1>6, <2>2, <3>2
      <4> QED BY <1>3, <1>5, <4>1, NewsAsked
    <3> QED BY <3>1, <3>2
  <2> QED BY <1>4, <2>2 DEF FlowsOpen
<1>12. LeavesOnce'
  BY <1>4, <1>7, <1>9, <1>10 DEF LeavesOnce
<1>13. OnlyUnicast'
  <2> SUFFICES ASSUME Bundled = {}
               PROVE  /\ multicast' = {}
                      /\ \A f \in Indices : flows'[f] # None => flows'[f].kind = "unicast"
                      /\ \A i \in DOMAIN tasks' : tasks'[i].t # "remove"
    BY DEF OnlyUnicast
  <2>1. multicast = {} /\ \A f \in Indices : flows[f] # None => flows[f].kind = "unicast"
    BY <1>7 DEF OnlyUnicast
  <2>2. \A n \in DOMAIN news : news[n].kind = "unicast"
    BY <1>2, <1>4, <2>1, UnicastNews
  <2>3. \A f \in Indices : flows'[f] # None => flows'[f].kind = "unicast"
    BY <1>6, <2>1, <2>2
  <2> QED BY <1>4, <1>9, <2>1, <2>3
<1> QED BY <1>8, <1>11, <1>12, <1>13 DEF SocketsInv

\* Nothing has been queued and no socket is needed.
LEMMA SafeAfresh ==
  ASSUME rx_commands = <<>>, sockets = [i \in SocketIx |-> None], rx_thread = "runs", tasks = <<>>, destroying = {},
         flows = [f \in Indices |-> None], requests = Idle, Bundled = {} => multicast = {}
  PROVE  SocketsInv
<1>1. QueueSafe
  BY EmptyHolds DEF QueueSafe, ThreadSurvives
<1>2. FlowsOpen
  BY DEF FlowsOpen
<1>3. LeavesOnce
  BY EmptyHolds DEF LeavesOnce
<1>4. OnlyUnicast
  BY DEF OnlyUnicast
<1> QED BY <1>1, <1>2, <1>3, <1>4 DEF SocketsInv

LEMMA SafeAfreshNext ==
  ASSUME rx_commands' = <<>>, sockets' = [i \in SocketIx |-> None], rx_thread' = "runs", tasks' = <<>>, destroying' = {},
         flows' = [f \in Indices |-> None], requests' = Idle, Bundled = {} => multicast' = {}
  PROVE  SocketsInv'
<1>1. QueueSafe'
  BY EmptyHolds DEF QueueSafe, ThreadSurvives
<1>2. FlowsOpen'
  BY DEF FlowsOpen
<1>3. LeavesOnce'
  BY EmptyHolds DEF LeavesOnce
<1>4. OnlyUnicast'
  BY DEF OnlyUnicast
<1> QED BY <1>1, <1>2, <1>3, <1>4 DEF SocketsInv

LEMMA SocketsStep ==
  ASSUME Bundled = {} \/ MaxWaiting = 0, CountInv, SocketsInv, [Next]_vars
  PROVE  SocketsInv'
<1>1. CASE FrontEnd
  BY <1>1, QuietSafe DEF FrontEnd, Subscribe, Unsubscribe, ForceRefresh, Shutdown, Call, worker, net
<1>2. CASE Commands
  BY <1>2, CommandsSafe
<1>3. CASE Resolving
  BY <1>3, ResolveSafe
<1>4. CASE ApplyUpdates
  BY <1>4, ApplySafe
<1>5. CASE ForgetUpdates
  BY <1>5, QuietSafe DEF ForgetUpdates, Received
<1>6. CASE Scanning
  <2>1. CASE ScanOnly
    <3>1. GoesOn /\ phase = "commands" /\ scan_flows
      BY <2>1 DEF ScanOnly, NoMoreCommands
    <3>2. requests = Idle /\ UNCHANGED rxvars
      BY <3>1 DEF SocketsInv, FlowsOpen, scan_flows
    <3> QED BY <3>1, <3>2, ScanSafe
  <2>2. CASE ScanAfterResolving
    <3>1. GoesOn /\ phase = "requests" /\ scan_flows /\ requests = Idle
      BY <2>2 DEF ScanAfterResolving
    <3>2. UNCHANGED rxvars
      BY <3>1 DEF scan_flows
    <3> QED BY <3>1, <3>2, ScanSafe
  <2>3. CASE \E d \in destroying : DestroyFlow(d)
    BY <2>3, DestroySafe
  <2> QED BY <1>6, <2>1, <2>2, <2>3 DEF Scanning
<1>7. CASE Requests
  BY <1>7, RequestsSafe
<1>8. CASE Tasks
  BY <1>8, TasksSafe
<1>9. CASE Receiver
  BY <1>9, ReceiverSafe
<1>10. CASE UNCHANGED vars
  BY <1>10, QuietSafe DEF vars, worker, shared, net
<1>11. CASE Environment
  <2>1. CASE \E f \in Indices : PacketArrives(f) \/ Silence(f)
    BY <2>1, SeeSafe
  <2>2. CASE \E n \in 1 .. MaxMade : TxDropsFlow(n)
    BY <2>2, QuietSafe DEF TxDropsFlow, worker, shared
  <2>3. CASE \E s \in Sources : TxChangesBundle(s)
    <3>1. Bundled # {} /\ UNCHANGED <<worker, shared, rxvars>>
      BY <2>3 DEF TxChangesBundle
    <3> QED BY <3>1, QuietSafe DEF worker, shared
  <2>4. CASE Restart
    <3>1. /\ rx_commands' = <<>> /\ sockets' = [i \in SocketIx |-> None] /\ rx_thread' = "runs"
          /\ tasks' = <<>> /\ destroying' = {} /\ flows' = [f \in Indices |-> None] /\ requests' = Idle
          /\ UNCHANGED multicast
      BY <2>4 DEF Restart
    <3>2. Bundled = {} => multicast' = {}
      BY <3>1 DEF SocketsInv, OnlyUnicast
    <3> QED BY <3>1, <3>2, SafeAfreshNext
  <2> QED BY <1>11, <2>1, <2>2, <2>3, <2>4 DEF Environment
<1> QED BY <1>1, <1>2, <1>3, <1>4, <1>5, <1>6, <1>7, <1>8, <1>9, <1>10, <1>11 DEF Next, Worker

\* The invariant that ThreadSurvives rests on: every removal in the queue comes after the
\* socket it removes, and no index is used again while the removal of its socket is still
\* to be queued.
THEOREM SocketsInvariance ==
  ASSUME Bundled = {} \/ MaxWaiting = 0
  PROVE  Spec => []SocketsInv
<1>1. Init => SocketsInv
  BY SafeAfresh DEF Init, RxInit
<1>2. CountInv /\ SocketsInv /\ [Next]_vars => SocketsInv'
  BY SocketsStep
<1> QED BY <1>1, <1>2, CountInvariance, PTL DEF Spec

\* The real-time thread never unwraps a socket that is not there, however subscriptions,
\* refusals, silent flows and restarts follow each other and however late the thread is:
\* scan_flows waits for the removal of a unicast flow's socket before an index is used
\* again.  The removal of a bundle's socket is spawned and not waited for: with bundles
\* it has to be done before the worker goes on.
THEOREM RealTimeThreadSurvives ==
  ASSUME Bundled = {} \/ MaxWaiting = 0
  PROVE  Spec => []ThreadSurvives
<1>1. SocketsInv => ThreadSurvives
  BY DEF SocketsInv, QueueSafe
<1> QED BY <1>1, SocketsInvariance, PTL
=============================================================================
