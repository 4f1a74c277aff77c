---------------------------- MODULE PollLoopProofs ----------------------------
(* Theorems of PollLoop, for every set of descriptors and every bound.     *)
EXTENDS PollLoop, FiniteSetTheorems, WellFoundedInduction, TLAPS

\* The sets of descriptors the loop handles are finite sets of naturals.
LEMMA FiniteDescriptors ==
  /\ IsFiniteSet(Descriptors)
  /\ Descriptors \subseteq Nat
  /\ \A S \in SUBSET Descriptors : IsFiniteSet(S) /\ Cardinality(S) \in Nat
<1>1. IsFiniteSet(Descriptors)
  BY FiniteAssumption, FS_AddElement DEF Descriptors
<1>2. Descriptors \subseteq Nat
  BY ListenAssumption, ClientsAssumption DEF Descriptors
<1> QED BY <1>1, <1>2, FS_Subset, FS_CardinalityType

\* What poll() reports is a set of descriptors.
LEMMA ReadableType == TypeOK => Readable \in SUBSET Descriptors
BY DEF TypeOK, Readable, Descriptors

LEMMA TypeStep == TypeOK /\ NeverBlocks /\ [Next]_vars => TypeOK'
<1> SUFFICES ASSUME TypeOK, NeverBlocks, [Next]_vars PROVE TypeOK'
  OBVIOUS
<1> USE BoundsAssumption, FiniteDescriptors DEF TypeOK, kernelVars, loopVars
<1>1. CASE Poll
  BY <1>1, ReadableType DEF Poll, Flags, Descriptors
<1>2. CASE Connect
  <2>1. CASE AcceptOne /\ Listen \in flagged
    <3>1. backlog > 0
      BY <1>2, <2>1 DEF Connect, NeverBlocks
    <3> QED BY <1>2, <2>1, <3>1 DEF Connect, AcceptOne
  <2>2. CASE UNCHANGED <<watched, kernelVars, nready>>
    BY <1>2, <2>2 DEF Connect
  <2> QED BY <1>2, <2>1, <2>2 DEF Connect
<1>3. ASSUME NEW d \in Descriptors, ScanOne(d)
      PROVE  TypeOK'
  <2>1. d \in Nat
    OBVIOUS
  <2>2. input' \in [Clients -> 0..MaxInput] /\ watched' \subseteq Clients
    BY <1>3 DEF ScanOne, Receive, Descriptors
  <2> QED BY <1>3, <2>1, <2>2 DEF ScanOne, CountDown
<1>4. CASE Request
  BY <1>4 DEF Request
<1>5. ASSUME NEW c \in Clients, Arrive(c)
      PROVE  TypeOK'
  BY <1>5 DEF Arrive
<1>6. CASE UNCHANGED vars
  BY <1>6 DEF vars
<1> QED BY <1>1, <1>2, <1>3, <1>4, <1>5, <1>6 DEF Next, Server, Kernel

\* Reading the lowest flagged descriptor leaves the others.
LEMMA ScanLeavesRest ==
  ASSUME TypeOK, NEW d \in Descriptors, ScanOne(d)
  PROVE  /\ Remaining' = Remaining \ {d}
         /\ d \in Remaining
         /\ Cardinality(Remaining') = Cardinality(Remaining) - 1
<1> USE FiniteDescriptors
<1>1. Remaining \in SUBSET Descriptors /\ d \in Remaining
  BY DEF TypeOK, Remaining, ScanOne
<1>2. Remaining' = Remaining \ {d}
  <2>1. Remaining' = {e \in flagged : d + 1 <= e}
    BY DEF Remaining, ScanOne
  <2>2. \A e \in flagged : e \in Nat
    BY DEF TypeOK
  <2>3. cursor <= d /\ \A e \in Remaining : d <= e
    BY <1>1 DEF Remaining, ScanOne
  <2>4. ASSUME NEW e \in flagged
        PROVE  d + 1 <= e <=> cursor <= e /\ e # d
    <3>1. cursor <= e => d <= e
      BY <2>3 DEF Remaining
    <3> QED BY <2>2, <2>3, <3>1 DEF TypeOK
  <2> QED BY <2>1, <2>4 DEF Remaining
<1> QED BY <1>1, <1>2, FS_RemoveElement

LEMMA CountStep ==
  ASSUME TypeOK, CountMatchesFlags, [Next]_vars
  PROVE  CountMatchesFlags'
<1> USE FiniteDescriptors DEF kernelVars, loopVars
<1>1. CASE Poll
  <2>1. Readable \in SUBSET Descriptors /\ Readable # {}
    BY <1>1, ReadableType DEF Poll
  <2>2. Cardinality(Readable) \in Nat /\ Cardinality(Readable) # 0
    BY <2>1, FS_EmptySet
  <2> QED BY <1>1, <2>2 DEF Poll, Flags, CountMatchesFlags
<1>2. CASE Connect
  <2>1. Remaining = flagged /\ Remaining' = flagged /\ flagged' = flagged
    <3>1. cursor = 0 /\ cursor' = 0 /\ flagged' = flagged
      BY <1>2 DEF Connect, CountMatchesFlags
    <3>2. \A d \in flagged : 0 <= d
      BY DEF TypeOK
    <3> QED BY <3>1, <3>2 DEF Remaining
  <2>2. Cardinality(flagged) \in Nat
    BY DEF TypeOK
  <2>3. nready' = Cardinality(flagged) - (IF Listen \in flagged THEN 1 ELSE 0)
    BY <1>2, <2>2 DEF Connect, CountMatchesFlags
  <2>4. pc' = (IF nready' <= 0 THEN "poll" ELSE "scan") /\ nready' \in Int
    BY <1>2, <2>2, <2>3 DEF Connect
  <2> QED BY <2>1, <2>3, <2>4 DEF CountMatchesFlags
<1>3. ASSUME NEW d \in Descriptors, ScanOne(d)
      PROVE  CountMatchesFlags'
  <2>1. Remaining \in SUBSET Descriptors
    BY DEF Remaining, TypeOK
  <2>2. pc = "scan" /\ nready' = nready - 1 /\ UNCHANGED flagged
        /\ pc' = IF nready' <= 0 THEN "poll" ELSE "scan"
    BY <1>3 DEF ScanOne, CountDown
  <2> QED BY <1>3, <2>1, <2>2, ScanLeavesRest DEF CountMatchesFlags, TypeOK
<1>4. ASSUME UNCHANGED loopVars
      PROVE  CountMatchesFlags'
  BY <1>4 DEF CountMatchesFlags, Remaining
<1> QED BY <1>1, <1>2, <1>3, <1>4 DEF Next, Server, Kernel, Request, Arrive, vars

LEMMA BlockStep ==
  ASSUME TypeOK, NeverBlocks, CountMatchesFlags, [Next]_vars
  PROVE  NeverBlocks'
<1> USE DEF kernelVars, loopVars
<1>1. CASE Poll
  <2>1. Listen \notin watched
    BY ClientsAssumption, ListenAssumption DEF TypeOK
  <2>2. flagged' = Readable /\ UNCHANGED <<watched, backlog, input>>
    BY <1>1 DEF Poll, Flags
  <2>3. \A c \in flagged' \ {Listen} : c \in watched' /\ input'[c] > 0
    BY <2>2 DEF Readable
  <2>4. Listen \in flagged' => backlog' > 0
    BY <2>1, <2>2 DEF Readable
  <2> QED BY <2>3, <2>4 DEF NeverBlocks, Remaining
<1>2. CASE Connect
  <2>1. Remaining' = Remaining /\ pc = "connect" /\ pc' # "connect"
    BY <1>2 DEF Connect, Remaining
  <2>2. ASSUME NEW c \in Remaining \ {Listen}
        PROVE  c \in watched' /\ input'[c] > 0
    <3>1. c \in watched /\ input[c] > 0 /\ c \in Clients
      BY <2>1 DEF NeverBlocks, TypeOK
    <3> QED BY <1>2, <3>1 DEF Connect, AcceptOne, TypeOK
  <2> QED BY <2>1, <2>2 DEF NeverBlocks
<1>3. ASSUME NEW d \in Descriptors, ScanOne(d)
      PROVE  NeverBlocks'
  <2>1. Remaining' = Remaining \ {d} /\ pc = "scan" /\ pc' # "connect"
    BY <1>3, ScanLeavesRest DEF ScanOne
  <2>2. ASSUME NEW c \in Remaining \ {Listen}, c # d
        PROVE  c \in watched' /\ input'[c] > 0
    <3>1. c \in watched /\ input[c] > 0 /\ c \in Clients
      BY <2>1 DEF NeverBlocks, TypeOK
    <3> QED BY <1>3, <2>2, <3>1 DEF ScanOne, Receive, TypeOK
  <2> QED BY <2>1, <2>2 DEF NeverBlocks
<1>4. CASE Request
  BY <1>4, BoundsAssumption DEF Request, NeverBlocks, Remaining, TypeOK
<1>5. ASSUME NEW c \in Clients, Arrive(c)
      PROVE  NeverBlocks'
  <2>1. \A e \in Clients : input[e] > 0 => input'[e] > 0
    BY <1>5, BoundsAssumption DEF Arrive, TypeOK
  <2>2. UNCHANGED <<watched, backlog, loopVars>>
    BY <1>5 DEF Arrive
  <2> QED BY <2>1, <2>2 DEF NeverBlocks, Remaining, TypeOK
<1>6. CASE UNCHANGED vars
  BY <1>6 DEF vars, NeverBlocks, Remaining
<1> QED BY <1>1, <1>2, <1>3, <1>4, <1>5, <1>6 DEF Next, Server, Kernel

LoopInv == TypeOK /\ CountMatchesFlags /\ NeverBlocks

LEMMA LoopInit == Init => LoopInv
BY ListenAssumption, BoundsAssumption
   DEF Init, LoopInv, TypeOK, CountMatchesFlags, NeverBlocks, Descriptors

LEMMA LoopStep == LoopInv /\ [Next]_vars => LoopInv'
BY TypeStep, CountStep, BlockStep DEF LoopInv

\* Every variable of the loop keeps its type.
THEOREM LoopTypes == Spec => []TypeOK
BY LoopInit, LoopStep, PTL DEF Spec, LoopInv

\* The single thread is never blocked in read() or accept(): what poll() flagged
\* is still there when the scan gets to it, whatever the kernel does meanwhile.
THEOREM LoopNeverBlocks == Spec => []NeverBlocks
BY LoopInit, LoopStep, PTL DEF Spec, LoopInv

\* nready always equals what the scan has left, less one for the listening socket.
THEOREM LoopCounts == Spec => []CountMatchesFlags
BY LoopInit, LoopStep, PTL DEF Spec, LoopInv

\* A non-empty set of numbers has a least element.
LEMMA Least ==
  ASSUME NEW S \in SUBSET Nat, S # {}
  PROVE  \E m \in S : \A k \in S : m <= k
<1>1. IsWellFoundedOn(OpToRel(<, Nat), Nat)
  BY NatLessThanWellFounded
<1>2. PICK m \in S : \A k \in S : ~(<<k, m>> \in OpToRel(<, Nat))
  BY <1>1, WFMin
<1>3. \A k \in S : ~(k < m)
  BY <1>2 DEF OpToRel
<1> QED BY <1>3

\* The scan never runs to the end of the table with nready above zero: there is a next
\* flagged descriptor, and it is the listening socket or a client with input.
ScanGoesOn ==
  pc = "scan" =>
    \E d \in Remaining :
      /\ \A e \in Remaining : d <= e
      /\ d = Listen \/ (d \in watched /\ input[d] > 0)

THEOREM LoopNeverStuck == Spec => []ScanGoesOn
<1>1. LoopInv => ScanGoesOn
  <2> SUFFICES ASSUME LoopInv, pc = "scan" PROVE ScanGoesOn
    BY Zenon DEF ScanGoesOn
  <2>1. Remaining \in SUBSET Descriptors
    BY DEF LoopInv, TypeOK, Remaining
  <2>2. Cardinality(Remaining) \in Nat /\ Cardinality(Remaining) > 0
    BY <2>1, FiniteDescriptors DEF LoopInv, CountMatchesFlags, TypeOK
  <2>3. Remaining # {} /\ Remaining \in SUBSET Nat
    BY <2>1, <2>2, FiniteDescriptors, FS_EmptySet
  <2>4. PICK d \in Remaining : \A e \in Remaining : d <= e
    BY <2>3, Least
  <2>5. d = Listen \/ (d \in watched /\ input[d] > 0)
    BY <2>4 DEF LoopInv, NeverBlocks
  <2> QED BY <2>4, <2>5, Zenon DEF ScanGoesOn
<1> QED BY <1>1, LoopInit, LoopStep, PTL DEF Spec

\* A scan skips a flagged descriptor only if a connection came with the same
\* poll(), and then only the highest one.
THEOREM LoopSkipsOne == Spec => LeavesAtMostTheHighest
<1> DEFINE left == {d \in flagged : cursor' <= d}
           A == pc # "poll" /\ pc' = "poll" =>
                  (left # {} => Listen \in flagged /\ Cardinality(left) = 1)
<1>1. ASSUME LoopInv, [Next]_vars
      PROVE  A
  <2> SUFFICES ASSUME pc # "poll", pc' = "poll"
               PROVE  left # {} => Listen \in flagged /\ Cardinality(left) = 1
    OBVIOUS
  <2> TypeOK /\ CountMatchesFlags
    BY <1>1 DEF LoopInv
  <2> USE FiniteDescriptors
  <2>0. left \in SUBSET Descriptors /\ Remaining \in SUBSET Descriptors
    BY DEF TypeOK, Remaining
  <2>1. CASE Connect
    <3>1. Cardinality(flagged) \in Nat /\ nready = Cardinality(flagged) /\ nready > 0
      BY <2>1 DEF Connect, CountMatchesFlags, TypeOK
    <3>2. nready' <= 0
      BY <2>1 DEF Connect
    <3>3. Listen \in flagged /\ Cardinality(flagged) = 1
      BY <2>1, <3>1, <3>2 DEF Connect
    <3>4. left = flagged
      <4>1. cursor' = 0
        BY <2>1 DEF Connect, CountMatchesFlags
      <4>2. \A d \in flagged : 0 <= d
        BY DEF TypeOK
      <4> QED BY <4>1, <4>2
    <3> QED BY <3>3, <3>4
  <2>2. ASSUME NEW d \in Descriptors, ScanOne(d)
        PROVE  left # {} => Listen \in flagged /\ Cardinality(left) = 1
    <3>1. Remaining' = left
      BY <2>2 DEF ScanOne, Remaining
    <3>2. Cardinality(left) = Cardinality(Remaining) - 1
      BY <2>2, <3>1, ScanLeavesRest
    <3>3. nready > 0 /\ nready - 1 <= 0 /\ nready \in Int
          /\ nready = Cardinality(Remaining) - (IF Listen \in flagged THEN 1 ELSE 0)
      BY <2>2 DEF ScanOne, CountDown, CountMatchesFlags, TypeOK
    <3>4. Cardinality(left) \in Nat /\ Cardinality(Remaining) \in Nat
          /\ (Cardinality(left) = 0 => left = {})
      BY <2>0, FS_EmptySet
    <3> QED BY <3>2, <3>3, <3>4
  <2> QED BY <1>1, <2>1, <2>2
          DEF Next, Server, Kernel, Poll, Request, Arrive, loopVars, vars
<1>2. LoopInv /\ [Next]_vars => [A]_vars
  BY <1>1
<1> QED BY <1>2, LoopInit, LoopStep, PTL DEF Spec, LeavesAtMostTheHighest
=============================================================================
