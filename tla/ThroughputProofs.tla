-------------------------- MODULE ThroughputProofs --------------------------
(***************************************************************************)
(* Theorems about ThroughputServer, for any set of descriptors and any     *)
(* bounds: the tables share no descriptor, the number of sink clients and  *)
(* the count of bytes are right, no read of the scan blocks, the thread    *)
(* always has a step, and a scan skips at most one flagged slot.           *)
(***************************************************************************)
EXTENDS ThroughputServer, FiniteSetTheorems, WellFoundedInduction, TLAPS

LEMMA Constants ==
  /\ Cmd \in Nat /\ Sink \in Nat /\ Cmd # Sink
  /\ Clients \subseteq Nat /\ Cmd \notin Clients /\ Sink \notin Clients
  /\ \A t \in Tables : Listen(t) \in {Cmd, Sink} /\ Listen(t) \notin Clients /\ Listen(t) \in Nat
  /\ Other("cmd") = "sink" /\ Other("sink") = "cmd" /\ Tables = {"cmd", "sink"}
  /\ IsFiniteSet(Clients \cup {Cmd, Sink})
<1>1. IsFiniteSet(Clients \cup {Cmd, Sink})
  <2>1. IsFiniteSet({Cmd, Sink})
    <3>1. {Cmd, Sink} = {Cmd} \cup {Sink}
      OBVIOUS
    <3>2. IsFiniteSet({Cmd}) /\ IsFiniteSet({Sink})
      BY FS_Singleton
    <3>3. IsFiniteSet({Cmd} \cup {Sink})
      BY <3>2, FS_Union
    <3> QED BY <3>1, <3>3
  <2> QED BY <2>1, FiniteAssumption, FS_Union
<1> QED BY <1>1, ListenAssumption, ClientsAssumption DEF Listen, Other, Tables

LEMMA Modular ==
  ASSUME NEW n \in Int
  PROVE  n % Modulus \in 0..(Modulus - 1)
BY ModulusAssumption

\* What a read changes.
LEMMA ReadTypes ==
  ASSUME TypeOK, NEW c \in slots[turn], Read(turn, c)
  PROVE  /\ counter' \in 0..(Modulus - 1) /\ reported' \in 0..(Modulus - 1) /\ failed' \in Nat
         /\ input' \in [Clients -> Nat]
         /\ peer' \in [Clients -> {"free", "open", "closed", "reset"}]
         /\ \A d \in Clients \ {c} : input'[d] = input[d] /\ peer'[d] = peer[d]
         /\ \/ /\ UNCHANGED <<slots, sinkClients>>
               /\ Free' = Free
            \/ /\ c \in Clients
               /\ slots' = [slots EXCEPT ![turn] = @ \ {c}]
               /\ Free' = Free \cup {c}
               /\ sinkClients' = IF turn = "sink" THEN sinkClients - 1 ELSE sinkClients
<1> USE DEF TypeOK, countVars
<1>0. 0 \in 0..(Modulus - 1)
  BY ModulusAssumption
<1>1. CASE turn = "cmd" /\ ReadLine(c)
  <2>1. counter' \in 0..(Modulus - 1) /\ reported' \in 0..(Modulus - 1) /\ failed' \in Nat
    <3>1. (reported + counter) % Modulus \in 0..(Modulus - 1)
      BY Modular
    <3> QED BY <1>0, <1>1, <3>1 DEF ReadLine, ResetCounter, NoCount
  <2> QED BY <1>1, <2>1 DEF ReadLine, Free
<1>2. CASE turn = "sink" /\ ReadBytes(c)
  <2>1. PICK n \in 1..input[c] : /\ input' = [input EXCEPT ![c] = @ - n]
                                 /\ counter' = (counter + n) % Modulus
    BY <1>2 DEF ReadBytes
  <2>2. counter' \in 0..(Modulus - 1)
    <3>1. c \in Clients /\ input[c] \in Nat
      BY <1>2 DEF ReadBytes
    <3>2. counter + n \in Int
      BY <3>1
    <3> QED BY <2>1, <3>2, Modular
  <2>3. input' \in [Clients -> Nat] /\ \A d \in Clients \ {c} : input'[d] = input[d]
    BY <1>2, <2>1 DEF ReadBytes
  <2> QED BY <1>2, <2>2, <2>3 DEF ReadBytes, Free
<1>3. CASE ReadFails(turn, c)
  <2>1. counter' \in 0..(Modulus - 1) /\ reported' \in 0..(Modulus - 1) /\ failed' \in Nat
    <3>1. (counter - 1) % Modulus \in 0..(Modulus - 1)
      BY Modular
    <3> QED BY <1>3, <3>1 DEF ReadFails, NoCount
  <2>2. Free' = Free
    BY <1>3 DEF ReadFails, Free
  <2> QED BY <1>3, <2>1, <2>2 DEF ReadFails
<1>4. CASE Disconnect(turn, c)
  <2>1. Free' = Free \cup {c}
    BY <1>4 DEF Disconnect, Free
  <2> QED BY <1>4, <2>1 DEF Disconnect
<1> QED BY <1>1, <1>2, <1>3, <1>4 DEF Read

\* Nothing but clients and listening sockets is flagged, and a listening socket is
\* flagged when a request waits for it.
LEMMA FlagsShape ==
  ASSUME TypeOK
  PROVE  /\ Flags(turn) \subseteq slots[turn]
         /\ IsFiniteSet(Flags(turn)) /\ Cardinality(Flags(turn)) \in Nat
         /\ Listen(turn) \in Flags(turn) => waiting[turn] > 0
         /\ \A c \in Flags(turn) \cap Clients : input[c] > 0 \/ peer[c] \in {"closed", "reset"}
<1>1. Flags(turn) \subseteq slots[turn]
  BY DEF Flags, Readable, TypeOK
<1>2. slots[turn] \subseteq Clients \cup {Cmd, Sink}
  BY DEF TypeOK
<1>3. IsFiniteSet(Flags(turn))
  BY <1>1, <1>2, Constants, FS_Subset
<1>4. Cardinality(Flags(turn)) \in Nat
  BY <1>3, FS_CardinalityType
<1>5. turn \in Tables
  BY DEF TypeOK
<1> QED BY <1>1, <1>3, <1>4, <1>5, Constants DEF Flags, Readable

\* The tables share no descriptor, and a descriptor is in one of them exactly while it is not free.
THEOREM TypeCorrect == Spec => []TypeOK
<1>1. Init => TypeOK
  BY Constants, ModulusAssumption, BoundsAssumption DEF Init, TypeOK, Free, Listen, Tables
<1>2. TypeOK /\ [Next]_vars => TypeOK'
  <2> SUFFICES ASSUME TypeOK, [Next]_vars PROVE TypeOK'
    OBVIOUS
  <2> USE DEF loopVars, countVars, kernelVars
  <2>0. turn \in Tables /\ Other(turn) \in Tables
    BY Constants DEF TypeOK
  <2>1. CASE Poll
    <3>1. flagged' \subseteq Clients \cup {Cmd, Sink} /\ Cardinality(flagged') \in Nat
      BY <2>1, FlagsShape DEF Poll, TypeOK
    <3>2. turn' \in Tables /\ cursor' \in Nat \cup {Polling} /\ nready' \in Nat
      BY <2>0, <2>1, <3>1 DEF Poll, NextTable, TypeOK
    <3>3. CASE Listen(turn) \in flagged'
      <4>1. PICK c \in Free :
              /\ slots' = [slots EXCEPT ![turn] = @ \cup {c}]
              /\ peer' = [peer EXCEPT ![c] = "open"]
              /\ waiting' = [waiting EXCEPT ![turn] = @ - 1]
              /\ sinkClients' = IF turn = "sink" THEN sinkClients + 1 ELSE sinkClients
        BY <2>1, <3>3 DEF Poll, Accept
      <4>2. waiting[turn] > 0
        BY <2>1, <3>3, FlagsShape DEF Poll
      <4>3. waiting' \in [Tables -> Nat]
        BY <2>0, <4>1, <4>2 DEF TypeOK
      <4>4. c \in Clients /\ \A t \in Tables : c \notin slots[t]
        BY Constants DEF TypeOK, Free
      <4>5. Free' = Free \ {c}
        BY <4>1, <4>4 DEF Free, TypeOK
      <4>6. /\ slots' \in [Tables -> SUBSET (Clients \cup {Cmd, Sink})]
            /\ \A t \in Tables : slots'[t] \ Clients = {Listen(t)}
            /\ slots'["cmd"] \cap slots'["sink"] = {}
            /\ (slots'["cmd"] \cup slots'["sink"]) \cap Clients = Clients \ Free'
        BY <2>0, <4>1, <4>4, <4>5, Constants DEF TypeOK
      <4>7. peer' \in [Clients -> {"free", "open", "closed", "reset"}] /\ sinkClients' \in Int
        BY <4>1, <4>4 DEF TypeOK
      <4> QED BY <2>1, <3>1, <3>2, <4>3, <4>6, <4>7 DEF Poll, TypeOK
    <3>4. CASE Listen(turn) \notin flagged'
      BY <2>1, <3>1, <3>2, <3>4 DEF Poll, TypeOK, Free
    <3> QED BY <3>3, <3>4
  <2>2. ASSUME NEW c \in Clients \cup {Cmd, Sink}, ScanOne(c)
        PROVE  TypeOK'
    <3>1. c \in slots[turn] /\ c \in Nat /\ Read(turn, c)
      BY <2>2, Constants DEF ScanOne, Remaining
    <3>2. turn' \in Tables /\ cursor' \in Nat \cup {Polling} /\ nready' \in Nat
      BY <2>0, <2>2, <3>1 DEF ScanOne, NextTable, CountDown, TypeOK
    <3>3. /\ counter' \in 0..(Modulus - 1) /\ reported' \in 0..(Modulus - 1) /\ failed' \in Nat
          /\ input' \in [Clients -> Nat]
          /\ peer' \in [Clients -> {"free", "open", "closed", "reset"}]
      BY <3>1, ReadTypes
    <3>4. /\ slots' \in [Tables -> SUBSET (Clients \cup {Cmd, Sink})]
          /\ \A t \in Tables : slots'[t] \ Clients = {Listen(t)}
          /\ slots'["cmd"] \cap slots'["sink"] = {}
          /\ (slots'["cmd"] \cup slots'["sink"]) \cap Clients = Clients \ Free'
          /\ sinkClients' \in Int
      <4>1. CASE UNCHANGED <<slots, sinkClients>> /\ Free' = Free
        BY <4>1 DEF TypeOK
      <4>2. CASE /\ c \in Clients
                 /\ slots' = [slots EXCEPT ![turn] = @ \ {c}]
                 /\ Free' = Free \cup {c}
                 /\ sinkClients' = IF turn = "sink" THEN sinkClients - 1 ELSE sinkClients
        BY <2>0, <3>1, <4>2, Constants DEF TypeOK
      <4> QED BY <3>1, <4>1, <4>2, ReadTypes
    <3> QED BY <2>2, <3>2, <3>3, <3>4 DEF ScanOne, TypeOK
  <2>3. ASSUME NEW t \in Tables, Request(t)
        PROVE  TypeOK'
    BY <2>3, BoundsAssumption DEF Request, TypeOK, Free
  <2>4. ASSUME NEW c \in Clients, SendBytes(c)
        PROVE  TypeOK'
    BY <2>4, BoundsAssumption DEF SendBytes, TypeOK, Free
  <2>5. ASSUME NEW c \in Clients, SendLine(c)
        PROVE  TypeOK'
    BY <2>5 DEF SendLine, TypeOK, Free
  <2>6. ASSUME NEW c \in Clients, Leave(c)
        PROVE  TypeOK'
    <3>1. PICK e \in {"closed", "reset"} : peer' = [peer EXCEPT ![c] = e]
      BY <2>6 DEF Leave
    <3>2. Free' = Free
      BY <2>6, <3>1 DEF Leave, Free, TypeOK
    <3> QED BY <2>6, <3>1, <3>2 DEF Leave, TypeOK
  <2>7. CASE UNCHANGED vars
    BY <2>7 DEF vars, TypeOK, Free
  <2> QED BY <2>1, <2>2, <2>3, <2>4, <2>5, <2>6, <2>7 DEF Next, Server, Environment
<1> QED BY <1>1, <1>2, PTL DEF Spec

\* m_sinkClientCount is the number of sink connections, for any hand-over of descriptors
\* between the tables.
THEOREM CountsClients == Spec => []ClientsCounted
<1>1. Init => ClientsCounted
  <2> SUFFICES ASSUME Init PROVE ClientsCounted
    OBVIOUS
  <2>1. slots["sink"] = {Sink}
    BY DEF Init, Listen, Tables
  <2>2. Cardinality({Sink}) = 1
    BY FS_Singleton
  <2> QED BY <2>1, <2>2 DEF Init, ClientsCounted
<1>2. TypeOK /\ ClientsCounted /\ [Next]_vars => ClientsCounted'
  <2> SUFFICES ASSUME TypeOK, ClientsCounted, [Next]_vars PROVE ClientsCounted'
    OBVIOUS
  <2> USE DEF ClientsCounted
  <2>0. IsFiniteSet(slots["sink"])
    <3>1. slots["sink"] \subseteq Clients \cup {Cmd, Sink}
      BY Constants DEF TypeOK
    <3> QED BY <3>1, Constants, FS_Subset
  <2>1. Cardinality(slots["sink"]) \in Nat
    BY <2>0, FS_CardinalityType
  <2>2. CASE Poll /\ Listen(turn) \in flagged'
    <3>1. PICK c \in Free :
            /\ slots' = [slots EXCEPT ![turn] = @ \cup {c}]
            /\ sinkClients' = IF turn = "sink" THEN sinkClients + 1 ELSE sinkClients
      BY <2>2 DEF Poll, Accept
    <3>2. c \notin slots["sink"]
      BY Constants DEF TypeOK, Free
    <3>3. Cardinality(slots["sink"] \cup {c}) = Cardinality(slots["sink"]) + 1
      BY <2>0, <3>2, FS_AddElement
    <3>4. CASE turn = "sink"
      <4>1. slots'["sink"] = slots["sink"] \cup {c}
        BY <3>1, <3>4, Constants DEF TypeOK
      <4>2. Cardinality(slots'["sink"]) = Cardinality(slots["sink"]) + 1
        BY <3>3, <4>1
      <4>3. sinkClients' = sinkClients + 1
        BY <3>1, <3>4
      <4> QED BY <2>1, <4>2, <4>3
    <3>5. CASE turn = "cmd"
      BY <3>1, <3>5 DEF TypeOK
    <3> QED BY <3>4, <3>5 DEF TypeOK, Tables
  <2>3. CASE Poll /\ Listen(turn) \notin flagged'
    BY <2>3 DEF Poll
  <2>4. ASSUME NEW c \in Clients \cup {Cmd, Sink}, ScanOne(c)
        PROVE  ClientsCounted'
    <3>1. c \in slots[turn] /\ Read(turn, c)
      BY <2>4 DEF ScanOne, Remaining
    <3>2. CASE UNCHANGED <<slots, sinkClients>>
      BY <3>2
    <3>3. CASE /\ slots' = [slots EXCEPT ![turn] = @ \ {c}]
               /\ sinkClients' = IF turn = "sink" THEN sinkClients - 1 ELSE sinkClients
      <4>1. c \in slots["sink"] => Cardinality(slots["sink"] \ {c}) = Cardinality(slots["sink"]) - 1
        BY <2>0, FS_RemoveElement
      <4> QED BY <2>1, <3>1, <3>3, <4>1, Constants DEF TypeOK
    <3> QED BY <3>1, <3>2, <3>3, ReadTypes
  <2>5. CASE Environment
    BY <2>5 DEF Environment, Request, SendBytes, SendLine, Leave
  <2>6. CASE UNCHANGED vars
    BY <2>6 DEF vars
  <2> QED BY <2>2, <2>3, <2>4, <2>5, <2>6 DEF Next, Server
<1> QED BY <1>1, <1>2, TypeCorrect, PTL DEF Spec

CanRead(c) == input[c] > 0 \/ peer[c] \in {"closed", "reset"}

\* nready is taken down twice for the listening socket.
TakenTwice == IF Listen(turn) \in flagged THEN 1 ELSE 0

\* Why a scan neither blocks nor runs past its table: as many reads are left as flagged
\* slots, less one next to a new connection, and only the scan's own reads take a
\* client's input away.
ScanInv ==
  cursor # Polling =>
    /\ nready > 0 /\ nready = Cardinality(Remaining) - TakenTwice
    /\ \A c \in Remaining \cap Clients : CanRead(c)

LEMMA RemainingFinite ==
  ASSUME TypeOK
  PROVE  IsFiniteSet(Remaining) /\ Cardinality(Remaining) \in Nat
<1>1. Remaining \subseteq Clients \cup {Cmd, Sink}
  BY DEF Remaining, TypeOK
<1>2. IsFiniteSet(Remaining)
  BY <1>1, Constants, FS_Subset
<1> QED BY <1>2, FS_CardinalityType

\* A poll starts a scan whose flagged slots are all there.
LEMMA PollKeepsScanInv ==
  ASSUME TypeOK, Poll, cursor' # Polling
  PROVE  ScanInv'
<1>1. /\ flagged' = Flags(turn) /\ cursor' = 0 /\ turn' = turn /\ input' = input
      /\ nready' = Cardinality(flagged') - (IF Listen(turn) \in flagged' THEN 1 ELSE 0)
      /\ nready' > 0
  BY FlagsShape DEF Poll, NextTable
<1>2. turn \in Tables /\ slots[turn] \subseteq Nat
  BY Constants DEF TypeOK
<1>3. slots[turn] \subseteq slots'[turn] /\ \A c \in Clients \ Free : peer'[c] = peer[c]
  <2>1. CASE Listen(turn) \in flagged'
    <3>1. PICK c \in Free : /\ slots' = [slots EXCEPT ![turn] = @ \cup {c}]
                            /\ peer' = [peer EXCEPT ![c] = "open"]
      BY <2>1 DEF Poll, Accept
    <3> QED BY <1>2, <3>1 DEF TypeOK, Free
  <2>2. CASE Listen(turn) \notin flagged'
    BY <2>2 DEF Poll
  <2> QED BY <2>1, <2>2
<1>4. Remaining' = Flags(turn)
  BY <1>1, <1>2, <1>3, FlagsShape DEF Remaining
<1>5. nready' = Cardinality(Remaining') - TakenTwice'
  BY <1>1, <1>4, FlagsShape DEF TakenTwice
<1>6. \A c \in Remaining' \cap Clients : CanRead(c)'
  <2>1. \A c \in slots[turn] \cap Clients : c \in Clients \ Free
    BY <1>2, Constants DEF TypeOK
  <2> QED BY <1>1, <1>3, <1>4, <2>1, FlagsShape DEF CanRead
<1> QED BY <1>1, <1>5, <1>6 DEF ScanInv

\* A read takes its slot from the ones that remain, and changes no other client.
LEMMA ScanKeepsScanInv ==
  ASSUME TypeOK, ScanInv, NEW c \in Clients \cup {Cmd, Sink}, ScanOne(c), cursor' # Polling
  PROVE  ScanInv'
<1>1. /\ cursor # Polling /\ c \in Remaining /\ \A d \in Remaining : c <= d
      /\ cursor' = c + 1 /\ nready' = nready - 1 /\ nready' > 0
      /\ turn' = turn /\ flagged' = flagged
  BY DEF ScanOne, NextTable, CountDown, TypeOK
<1>2. /\ turn \in Tables /\ slots[turn] \subseteq Nat
      /\ c \in slots[turn] /\ Read(turn, c) /\ cursor \in Nat
  BY <1>1, Constants DEF ScanOne, Remaining, TypeOK
<1>3. slots'[turn] \subseteq slots[turn] /\ slots[turn] \ {c} \subseteq slots'[turn]
  <2>1. CASE UNCHANGED slots
    BY <2>1
  <2>2. CASE slots' = [slots EXCEPT ![turn] = @ \ {c}]
    BY <1>2, <2>2 DEF TypeOK
  <2> QED BY <1>2, <2>1, <2>2, ReadTypes
<1>4. Remaining' = Remaining \ {c}
  <2>1. \A d \in slots[turn] : c + 1 <= d => d # c /\ cursor <= d
    BY <1>1, <1>2 DEF Remaining
  <2>2. \A d \in Remaining \ {c} : c + 1 <= d
    BY <1>1, <1>2 DEF Remaining
  <2> QED BY <1>1, <1>3, <2>1, <2>2 DEF Remaining
<1>5. Cardinality(Remaining') = Cardinality(Remaining) - 1
  BY <1>1, <1>4, RemainingFinite, FS_RemoveElement
<1>6. nready' = Cardinality(Remaining') - TakenTwice'
  BY <1>1, <1>5, RemainingFinite DEF ScanInv, TypeOK, TakenTwice
<1>7. \A d \in Remaining' \cap Clients : CanRead(d)'
  BY <1>1, <1>2, <1>4, ReadTypes DEF ScanInv, CanRead
<1> QED BY <1>1, <1>6, <1>7 DEF ScanInv

LEMMA ScanHolds == Spec => []ScanInv
<1>1. Init => ScanInv
  BY DEF Init, ScanInv
<1>2. TypeOK /\ ScanInv /\ [Next]_vars => ScanInv'
  <2> SUFFICES ASSUME TypeOK, ScanInv, [Next]_vars, cursor' # Polling PROVE ScanInv'
    BY DEF ScanInv
  <2>1. CASE Poll
    BY <2>1, PollKeepsScanInv
  <2>2. ASSUME NEW c \in Clients \cup {Cmd, Sink}, ScanOne(c)
        PROVE  ScanInv'
    BY <2>2, ScanKeepsScanInv
  <2>3. ASSUME UNCHANGED <<slots, loopVars>>, \A c \in Clients : CanRead(c) => CanRead(c)'
        PROVE  ScanInv'
    <3>1. Remaining' = Remaining /\ TakenTwice' = TakenTwice /\ UNCHANGED <<cursor, nready>>
      BY <2>3 DEF Remaining, loopVars, TakenTwice
    <3>2. \A c \in Remaining \cap Clients : CanRead(c) => CanRead(c)'
      BY <2>3
    <3> QED BY <3>1, <3>2 DEF ScanInv
  <2>4. CASE Environment
    <3>1. UNCHANGED <<slots, loopVars>>
      BY <2>4 DEF Environment, Request, SendBytes, SendLine, Leave
    <3>2. \A c \in Clients : CanRead(c) => CanRead(c)'
      BY <2>4 DEF Environment, Request, SendBytes, SendLine, Leave, CanRead, TypeOK
    <3> QED BY <2>3, <3>1, <3>2
  <2>5. CASE UNCHANGED vars
    <3>1. UNCHANGED <<slots, loopVars>> /\ \A c \in Clients : CanRead(c) => CanRead(c)'
      BY <2>5 DEF vars, kernelVars, CanRead
    <3> QED BY <2>3, <3>1
  <2> QED BY <2>1, <2>2, <2>4, <2>5 DEF Next, Server
<1> QED BY <1>1, <1>2, TypeCorrect, PTL DEF Spec

\* No read of a scan blocks the thread, and a scan finds the slots it still counts on.
THEOREM ScanNeverBlocks == Spec => []NeverBlocks
<1>1. TypeOK /\ ScanInv => NeverBlocks
  <2> SUFFICES ASSUME TypeOK, ScanInv, cursor # Polling PROVE NeverBlocks
    BY DEF NeverBlocks
  <2>1. Remaining # {}
    BY RemainingFinite, FS_EmptySet DEF ScanInv, TypeOK, TakenTwice
  <2> QED BY <2>1 DEF NeverBlocks, ScanInv, CanRead
<1> QED BY <1>1, ScanHolds, TypeCorrect, PTL

\* A scan of loopCmd or loopSink returns before it has come to all the slots poll()
\* flagged only when a connection was new, and then it leaves exactly one, not the lowest.
SkipsAtMostOne ==
  [][cursor # Polling /\ cursor' = Polling =>
       LET left == {d \in Remaining : \E c \in Remaining : c < d}
       IN left # {} => Listen(turn) \in flagged /\ Cardinality(left) = 1]_vars

THEOREM ScanSkipsOne == Spec => SkipsAtMostOne
<1> DEFINE left == {d \in Remaining : \E c \in Remaining : c < d}
           A == cursor # Polling /\ cursor' = Polling =>
                  (left # {} => Listen(turn) \in flagged /\ Cardinality(left) = 1)
<1>1. ASSUME TypeOK, ScanInv, [Next]_vars PROVE A
  <2> SUFFICES ASSUME cursor # Polling, cursor' = Polling
               PROVE  left # {} => Listen(turn) \in flagged /\ Cardinality(left) = 1
    OBVIOUS
  <2>1. PICK c \in Clients \cup {Cmd, Sink} : ScanOne(c)
    BY <1>1 DEF Next, Server, Environment, Poll, Request, SendBytes, SendLine, Leave, vars, loopVars
  <2>2. c \in Remaining /\ (\A d \in Remaining : c <= d) /\ nready - 1 <= 0
    <3>1. c \in Remaining /\ (\A d \in Remaining : c <= d) /\ c \in Nat
      BY <2>1, Constants DEF ScanOne
    <3>2. c + 1 # Polling
      BY <3>1 DEF Polling
    <3>3. CountDown <= 0
      BY <2>1, <3>2 DEF ScanOne
    <3> QED BY <3>1, <3>3 DEF CountDown
  <2>3. Remaining \subseteq Nat
    BY <1>1, Constants DEF Remaining, TypeOK
  <2>4. left = Remaining \ {c}
    <3>1. ASSUME NEW d \in Remaining PROVE (\E e \in Remaining : e < d) <=> d # c
      BY <2>2, <2>3
    <3> QED BY <3>1
  <2>5. Cardinality(left) = Cardinality(Remaining) - 1 /\ IsFiniteSet(left)
    BY <1>1, <2>2, <2>4, RemainingFinite, FS_RemoveElement, FS_Subset
  <2>6. Cardinality(left) \in Nat /\ (left # {} => Cardinality(left) # 0)
    BY <2>5, FS_CardinalityType, FS_EmptySet
  <2>7. nready > 0 /\ nready = Cardinality(Remaining) - TakenTwice /\ nready \in Nat
    BY <1>1 DEF ScanInv, TypeOK
  <2> HIDE DEF left
  <2> QED BY <1>1, <2>2, <2>5, <2>6, <2>7, RemainingFinite DEF TakenTwice
<1>2. TypeOK /\ ScanInv /\ [Next]_vars => [A]_vars
  BY <1>1
<1> QED BY <1>2, TypeCorrect, ScanHolds, PTL DEF Spec, SkipsAtMostOne

\* Every connection request that waits finds a free descriptor.
Descriptors == waiting["cmd"] + waiting["sink"] <= Cardinality(Free)

\* The thread always has a way on: accept() finds a descriptor for the request that was
\* flagged, and read() of the slot the scan comes to next has something to give, bytes,
\* the end or an error.
ThreadGoesOn ==
  /\ cursor = Polling /\ waiting[turn] > 0 => Free # {}
  /\ cursor # Polling =>
       \E c \in Remaining :
         /\ \A d \in Remaining : c <= d
         /\ \/ c = Listen(turn)
            \/ c \in Clients /\ (input[c] > 0 \/ peer[c] \in {"closed", "reset"})

LEMMA FreeFinite == IsFiniteSet(Free) /\ Cardinality(Free) \in Nat
<1>1. Free \subseteq Clients
  BY DEF Free
<1> QED BY <1>1, FiniteAssumption, FS_Subset, FS_CardinalityType

LEMMA DescriptorsStep == TypeOK /\ Descriptors /\ [Next]_vars => Descriptors'
<1> SUFFICES ASSUME TypeOK, Descriptors, [Next]_vars PROVE Descriptors'
  OBVIOUS
<1>0. /\ waiting["cmd"] \in Nat /\ waiting["sink"] \in Nat /\ turn \in Tables
      /\ DOMAIN waiting = Tables /\ peer \in [Clients -> {"free", "open", "closed", "reset"}]
  BY DEF TypeOK, Tables
<1>1. ASSUME UNCHANGED waiting, Free \subseteq Free' PROVE Descriptors'
  <2>1. IsFiniteSet(Free')
    BY FiniteAssumption, FS_Subset DEF Free
  <2>2. Cardinality(Free) <= Cardinality(Free') /\ Cardinality(Free') \in Nat
    BY <1>1, <2>1, FS_Subset, FS_CardinalityType
  <2> QED BY <1>0, <1>1, <2>2, FreeFinite DEF Descriptors
<1>2. CASE Poll /\ Listen(turn) \in flagged'
  <2>1. PICK c \in Free : /\ peer' = [peer EXCEPT ![c] = "open"]
                          /\ waiting' = [waiting EXCEPT ![turn] = @ - 1]
    BY <1>2 DEF Poll, Accept
  <2>2. Free' = Free \ {c}
    BY <1>0, <2>1 DEF Free
  <2>3. Cardinality(Free') = Cardinality(Free) - 1
    BY <2>1, <2>2, FreeFinite, FS_RemoveElement
  <2>4. waiting'["cmd"] + waiting'["sink"] = waiting["cmd"] + waiting["sink"] - 1
    BY <1>0, <2>1 DEF Tables
  <2> QED BY <1>0, <2>3, <2>4, FreeFinite DEF Descriptors
<1>3. CASE Poll /\ Listen(turn) \notin flagged'
  BY <1>1, <1>3 DEF Poll, Free
<1>4. ASSUME NEW c \in Clients \cup {Cmd, Sink}, ScanOne(c) PROVE Descriptors'
  <2>1. UNCHANGED waiting /\ Read(turn, c)
    BY <1>4 DEF ScanOne
  <2>2. Free \subseteq Free'
    BY <1>0, <2>1 DEF Read, ReadLine, ReadBytes, ReadFails, Disconnect, Free
  <2> QED BY <1>1, <2>1, <2>2
<1>5. ASSUME NEW t \in Tables, Request(t) PROVE Descriptors'
  <2>1. /\ waiting' = [waiting EXCEPT ![t] = @ + 1] /\ Free' = Free
        /\ Cardinality(Free) > waiting["cmd"] + waiting["sink"]
    BY <1>5 DEF Request, Free
  <2>2. waiting'["cmd"] + waiting'["sink"] = waiting["cmd"] + waiting["sink"] + 1
    BY <1>0, <2>1 DEF Tables
  <2> QED BY <1>0, <2>1, <2>2, FreeFinite DEF Descriptors
<1>6. ASSUME NEW c \in Clients, SendBytes(c) \/ SendLine(c) \/ Leave(c) PROVE Descriptors'
  BY <1>0, <1>1, <1>6 DEF SendBytes, SendLine, Leave, Free
<1>7. CASE UNCHANGED vars
  BY <1>1, <1>7 DEF vars, kernelVars, Free
<1> QED BY <1>2, <1>3, <1>4, <1>5, <1>6, <1>7 DEF Next, Server, Environment

\* A non-empty set of numbers has a least element.
LEMMA Least ==
  ASSUME NEW S \in SUBSET Nat, S # {}
  PROVE  \E m \in S : \A k \in S : m <= k
<1>1. IsWellFoundedOn(OpToRel(<, Nat), Nat)
  BY NatLessThanWellFounded
<1>2. PICK m \in S : \A k \in S : ~(<<k, m>> \in OpToRel(<, Nat))
  BY <1>1, WFMin
<1>3. \A k \in S : ~(k < m)
  BY <1>2 DEF OpToRel
<1> QED BY <1>3

\* The thread of the server always has a step: NeverBlocks, and descriptors enough.
THEOREM ThreadNeverStuck == Spec => []ThreadGoesOn
<1>1. Init => Descriptors
  <2> SUFFICES ASSUME Init PROVE Descriptors
    OBVIOUS
  <2>1. waiting["cmd"] = 0 /\ waiting["sink"] = 0
    BY DEF Init, Tables
  <2> QED BY <2>1, FreeFinite DEF Descriptors
<1>2. ASSUME TypeOK, Descriptors, waiting[turn] > 0 PROVE Free # {}
  <2>1. waiting["cmd"] \in Nat /\ waiting["sink"] \in Nat /\ turn \in {"cmd", "sink"}
    BY <1>2 DEF TypeOK, Tables
  <2>2. Cardinality(Free) > 0
    BY <1>2, <2>1, FreeFinite DEF Descriptors
  <2> QED BY <2>2, FS_EmptySet
<1>3. ASSUME TypeOK, NeverBlocks, cursor # Polling
      PROVE  \E c \in Remaining :
               /\ \A d \in Remaining : c <= d
               /\ \/ c = Listen(turn)
                  \/ c \in Clients /\ (input[c] > 0 \/ peer[c] \in {"closed", "reset"})
  <2>1. Remaining \subseteq Nat /\ Remaining # {}
    BY <1>3, Constants DEF NeverBlocks, Remaining, TypeOK
  <2>2. PICK c \in Remaining : \A d \in Remaining : c <= d
    BY <2>1, Least
  <2>3. c \in Clients \/ c = Listen(turn)
    BY <1>3, <2>2 DEF Remaining, TypeOK
  <2> QED BY <1>3, <2>2, <2>3 DEF NeverBlocks
<1>4. TypeOK /\ Descriptors /\ NeverBlocks => ThreadGoesOn
  BY <1>2, <1>3 DEF ThreadGoesOn
<1> QED BY <1>1, <1>4, DescriptorsStep, TypeCorrect, ScanNeverBlocks, PTL DEF Spec

-----------------------------------------------------------------------------
(* Arithmetic of unsigned long long.                                       *)

LEMMA Division ==
  ASSUME NEW a \in Int
  PROVE  /\ a = Modulus * (a \div Modulus) + (a % Modulus)
         /\ a \div Modulus \in Int /\ a % Modulus \in 0..(Modulus - 1)
BY ModulusAssumption

\* A multiple of the modulus makes no difference.
LEMMA MultipleVanishes ==
  ASSUME NEW q \in Int, NEW b \in Int
  PROVE  (b - Modulus * q) % Modulus = b % Modulus
<1> DEFINE d == b \div Modulus
           r == b % Modulus
<1>1. b = Modulus * d + r /\ d \in Int /\ r \in 0..(Modulus - 1)
  BY Division
<1> HIDE DEF d, r
<1>2. b - Modulus * q = Modulus * (d - q) + r
  BY <1>1, ModulusAssumption
<1>3. (Modulus * (d - q) + r) % Modulus = r
  BY <1>1, ModulusAssumption
<1> QED BY <1>2, <1>3 DEF r

\* A sum may be reduced at any of its terms.
LEMMA ReducedTerm ==
  ASSUME NEW a \in Int, NEW b \in Int
  PROVE  ((a % Modulus) + b) % Modulus = (a + b) % Modulus
<1>1. a % Modulus = a - Modulus * (a \div Modulus) /\ a \div Modulus \in Int /\ a + b \in Int
  BY Division, ModulusAssumption
<1>2. (a % Modulus) + b = (a + b) - Modulus * (a \div Modulus)
  BY <1>1, ModulusAssumption
<1> QED BY <1>1, <1>2, MultipleVanishes

-----------------------------------------------------------------------------
(* The bytes that wait for the sink.                                       *)

LEMMA UnreadByte ==
  ASSUME NEW b
  PROVE  b \in UnreadBytes <=>
           \E c \in slots["sink"] \cap Clients : \E k \in 1..input[c] : b = <<c, k>>
BY DEF UnreadBytes

\* Why no byte is lost with a descriptor: one that is free has nothing to read, and the
\* unread bytes of the sink are always finitely many.
BytesInv ==
  /\ \A c \in Free : input[c] = 0
  /\ IsFiniteSet(UnreadBytes)
  /\ BytesAccounted

\* Replies and reads that failed.
LEMMA CountersInt ==
  ASSUME TypeOK, BytesInv
  PROVE  /\ reported \in Int /\ counter \in Int /\ failed \in Int /\ sent \in Int
         /\ Unread \in Nat
<1>1. Cardinality(UnreadBytes) \in Nat
  BY FS_CardinalityType DEF BytesInv
<1> QED BY <1>1, ModulusAssumption, BoundsAssumption DEF TypeOK, Unread

\* A step that leaves the table of the sink and the input of its clients alone.
LEMMA SameBytes ==
  ASSUME TypeOK, TypeOK',
         \A c \in Clients : input[c] # 0 \/ input'[c] # 0 =>
            /\ c \in slots["sink"] <=> c \in slots'["sink"]
            /\ c \in slots["sink"] => input'[c] = input[c]
  PROVE  UnreadBytes' = UnreadBytes
<1> SUFFICES ASSUME NEW b PROVE b \in UnreadBytes <=> b \in UnreadBytes'
  OBVIOUS
<1>1. b \in UnreadBytes' <=>
        \E c \in slots'["sink"] \cap Clients : \E k \in 1..input'[c] : b = <<c, k>>
  BY DEF UnreadBytes
<1>2. \A c \in Clients : input[c] \in Nat /\ input'[c] \in Nat
  BY DEF TypeOK
<1> QED BY <1>1, <1>2, UnreadByte

Total == reported + counter + failed + Unread

\* One more byte is sent, and waits.
LEMMA SendKeepsBytes ==
  ASSUME TypeOK, TypeOK', BytesInv, NEW c \in Clients, SendBytes(c)
  PROVE  BytesInv'
<1> DEFINE byte == <<c, input[c] + 1>>
<1>1. /\ c \in slots["sink"] /\ input[c] \in Nat /\ input' = [input EXCEPT ![c] = @ + 1]
      /\ sent' = sent + 1 /\ UNCHANGED <<slots, countVars, peer>>
  BY DEF SendBytes, TypeOK
<1>2. UnreadBytes' = UnreadBytes \cup {byte}
  <2> SUFFICES ASSUME NEW b PROVE b \in UnreadBytes' <=> b \in UnreadBytes \/ b = byte
    OBVIOUS
  <2>1. b \in UnreadBytes' <=>
          \E d \in slots["sink"] \cap Clients : \E k \in 1..input'[d] : b = <<d, k>>
    BY <1>1 DEF UnreadBytes
  <2>2. 1..input'[c] = (1..input[c]) \cup {input[c] + 1}
    BY <1>1 DEF TypeOK
  <2>3. \A d \in Clients \ {c} : input'[d] = input[d]
    BY <1>1 DEF TypeOK
  <2> QED BY <1>1, <2>1, <2>2, <2>3, UnreadByte
<1>3. byte \notin UnreadBytes
  BY <1>1, UnreadByte
<1>4. IsFiniteSet(UnreadBytes') /\ Unread' = Unread + 1
  BY <1>2, <1>3, FS_AddElement DEF BytesInv, Unread
<1>5. (Total + 1) % Modulus = (sent + 1) % Modulus
  <2>1. Total \in Int /\ sent \in Int
    BY CountersInt DEF Total
  <2>2. ((Total % Modulus) + 1) % Modulus = (Total + 1) % Modulus
    BY <2>1, ReducedTerm
  <2>3. ((sent % Modulus) + 1) % Modulus = (sent + 1) % Modulus
    BY <2>1, ReducedTerm
  <2> QED BY <2>2, <2>3 DEF BytesInv, BytesAccounted, Total
<1>6. Total' = Total + 1
  BY <1>1, <1>4, CountersInt DEF Total, countVars
<1>7. BytesAccounted'
  BY <1>1, <1>5, <1>6 DEF BytesAccounted, Total
<1>8. \A d \in Free' : input'[d] = 0
  BY <1>1 DEF BytesInv, Free, SendBytes
<1> QED BY <1>4, <1>7, <1>8 DEF BytesInv

\* What a read takes from the socket it adds to the counter.
LEMMA ReadKeepsBytes ==
  ASSUME TypeOK, TypeOK', BytesInv, NEW c \in slots["sink"], ReadBytes(c), sent' = sent
  PROVE  BytesInv'
<1>1. /\ c \in Clients /\ input[c] \in Nat
      /\ UNCHANGED <<slots, sinkClients, reported, failed, peer>>
  BY DEF ReadBytes, TypeOK
<1>2. PICK n \in 1..input[c] : /\ input' = [input EXCEPT ![c] = @ - n]
                               /\ counter' = (counter + n) % Modulus
  BY DEF ReadBytes
<1> DEFINE read == {c} \X ((input[c] - n + 1)..input[c])
<1>3. UnreadBytes' = UnreadBytes \ read
  <2> SUFFICES ASSUME NEW b PROVE b \in UnreadBytes' <=> b \in UnreadBytes /\ b \notin read
    OBVIOUS
  <2>1. b \in UnreadBytes' <=>
          \E d \in slots["sink"] \cap Clients : \E k \in 1..input'[d] : b = <<d, k>>
    BY <1>1 DEF UnreadBytes
  <2>2. \A k : k \in 1..input'[c] <=> k \in 1..input[c] /\ k \notin (input[c] - n + 1)..input[c]
    BY <1>1, <1>2 DEF TypeOK
  <2>3. \A d \in Clients \ {c} : input'[d] = input[d]
    BY <1>2 DEF TypeOK
  <2>4. \A k : <<c, k>> \in read <=> k \in (input[c] - n + 1)..input[c]
    OBVIOUS
  <2>5. \A d \in Clients \ {c} : \A k : <<d, k>> \notin read
    OBVIOUS
  <2> HIDE DEF read
  <2>6. CASE \E d \in slots["sink"] \cap Clients : \E k : b = <<d, k>>
    <3>0. PICK d \in slots["sink"] \cap Clients : \E k : b = <<d, k>>
      BY <2>6
    <3>1. PICK k : b = <<d, k>>
      BY <3>0
    <3>2. b \in UnreadBytes' <=> k \in 1..input'[d]
      BY <2>1, <3>1
    <3>3. b \in UnreadBytes <=> k \in 1..input[d]
      BY <3>1, UnreadByte
    <3>4. CASE d = c
      BY <2>2, <2>4, <3>1, <3>2, <3>3, <3>4
    <3>5. CASE d # c
      BY <2>3, <2>5, <3>1, <3>2, <3>3, <3>5
    <3> QED BY <3>4, <3>5
  <2>7. CASE ~ \E d \in slots["sink"] \cap Clients : \E k : b = <<d, k>>
    BY <2>1, <2>7, UnreadByte
  <2> QED BY <2>6, <2>7
<1>4. read \subseteq UnreadBytes
  <2> SUFFICES ASSUME NEW k \in (input[c] - n + 1)..input[c] PROVE <<c, k>> \in UnreadBytes
    OBVIOUS
  <2>1. k \in 1..input[c]
    BY <1>1
  <2> QED BY <1>1, <2>1, UnreadByte
<1>5. IsFiniteSet(read) /\ Cardinality(read) = n
  <2>1. IsFiniteSet({c}) /\ Cardinality({c}) = 1
    BY FS_Singleton
  <2>2. /\ IsFiniteSet((input[c] - n + 1)..input[c])
        /\ Cardinality((input[c] - n + 1)..input[c]) = n
    <3>1. input[c] - n + 1 \in Int /\ input[c] \in Int /\ ~(input[c] - n + 1 > input[c])
      BY <1>1
    <3>2. input[c] - (input[c] - n + 1) + 1 = n
      BY <1>1
    <3> QED BY <3>1, <3>2, FS_Interval
  <2> DEFINE places == (input[c] - n + 1)..input[c]
  <2>3. IsFiniteSet(places) /\ Cardinality(places) = n
    BY <2>2
  <2> HIDE DEF places
  <2>4. IsFiniteSet({c} \X places) /\ Cardinality({c} \X places) = 1 * n
    BY <2>1, <2>3, FS_Product
  <2> QED BY <2>4 DEF places
<1> HIDE DEF read
<1>6. UnreadBytes \cap read = read
  BY <1>4
<1>7. IsFiniteSet(UnreadBytes') /\ Unread' = Unread - n
  BY <1>3, <1>5, <1>6, FS_Difference DEF BytesInv, Unread
<1>8. counter + n \in Int /\ reported + failed + (Unread - n) \in Int
  BY <1>1, CountersInt
<1>9. Total' % Modulus = Total % Modulus
  <2>1. Total' = ((counter + n) % Modulus) + (reported + failed + (Unread - n))
    BY <1>1, <1>2, <1>7, <1>8, CountersInt, Division DEF Total
  <2>2. (counter + n) + (reported + failed + (Unread - n)) = Total
    BY <1>1, <1>8, CountersInt DEF Total
  <2> QED BY <1>8, <2>1, <2>2, ReducedTerm
<1>10. BytesAccounted'
  BY <1>9 DEF BytesInv, BytesAccounted, Total
<1>11. \A d \in Free' : input'[d] = 0
  BY <1>1, <1>2 DEF BytesInv, Free, TypeOK
<1> QED BY <1>7, <1>10, <1>11 DEF BytesInv

\* A step that reads nothing from the sink and keeps what it owes.
LEMMA OtherKeepsBytes ==
  ASSUME TypeOK, TypeOK', BytesInv, UnreadBytes' = UnreadBytes,
         \A c \in Free' : input'[c] = 0,
         sent' = sent, (reported + counter + failed)' % Modulus = (reported + counter + failed) % Modulus
  PROVE  BytesInv'
<1>1. Unread' = Unread
  BY DEF Unread
<1>2. IsFiniteSet(UnreadBytes')
  BY DEF BytesInv
<1>3. /\ reported + counter + failed \in Int /\ (reported + counter + failed)' \in Int
      /\ Unread \in Int
  BY CountersInt, ModulusAssumption DEF TypeOK
<1>4. Total' = (reported + counter + failed)' + Unread /\ Total = (reported + counter + failed) + Unread
  BY <1>1 DEF Total
<1>5. Total' % Modulus = Total % Modulus
  BY <1>3, <1>4, ReducedTerm
<1>6. BytesAccounted'
  BY <1>5 DEF BytesInv, BytesAccounted, Total
<1> QED BY <1>2, <1>6 DEF BytesInv

\* One read of the scan: a line or bytes, a failure, or the end of a connection.
LEMMA ScanKeepsBytes ==
  ASSUME TypeOK, TypeOK', BytesInv, NEW c \in slots[turn], Read(turn, c), sent' = sent
  PROVE  BytesInv'
<1> USE DEF countVars
<1>0. turn \in {"cmd", "sink"} /\ slots["cmd"] \cap slots["sink"] = {}
  BY DEF TypeOK, Tables
<1>1. CASE turn = "cmd" /\ ReadLine(c)
  <2>1. /\ c \in Clients /\ c \notin slots["sink"]
        /\ input' = [input EXCEPT ![c] = 0] /\ slots' = slots /\ peer' = peer
    BY <1>0, <1>1 DEF ReadLine
  <2>2. UnreadBytes' = UnreadBytes
    BY <2>1, SameBytes DEF TypeOK
  <2>3. \A d \in Free' : input'[d] = 0
    BY <2>1 DEF BytesInv, Free, TypeOK
  <2>4. (reported + counter + failed)' % Modulus = (reported + counter + failed) % Modulus
    <3>1. CASE NoCount
      BY <3>1 DEF NoCount
    <3>2. CASE ResetCounter
      <4>1. reported + counter \in Int /\ failed \in Int
        BY CountersInt
      <4>2. (reported + counter + failed)' = ((reported + counter) % Modulus) + failed
        BY <3>2, <4>1, Division DEF ResetCounter
      <4>3. (((reported + counter) % Modulus) + failed) % Modulus = ((reported + counter) + failed) % Modulus
        BY <4>1, ReducedTerm
      <4> QED BY <4>2, <4>3
    <3> QED BY <1>1, <3>1, <3>2 DEF ReadLine
  <2> QED BY <2>2, <2>3, <2>4, OtherKeepsBytes
<1>2. CASE turn = "sink" /\ ReadBytes(c)
  BY <1>2, ReadKeepsBytes
<1>3. CASE ReadFails(turn, c)
  <2>1. input' = input /\ slots' = slots /\ Free' = Free
    <3>1. \A d \in Clients : peer'[d] = "free" <=> peer[d] = "free"
      BY <1>3 DEF ReadFails, TypeOK
    <3> QED BY <1>3, <3>1 DEF ReadFails, Free
  <2>2. UnreadBytes' = UnreadBytes
    BY <2>1, SameBytes
  <2>3. \A d \in Free' : input'[d] = 0
    BY <2>1 DEF BytesInv
  <2>4. (reported + counter + failed)' % Modulus = (reported + counter + failed) % Modulus
    <3>1. CASE turn = "sink"
      <4>1. counter - 1 \in Int /\ reported + failed + 1 \in Int /\ reported \in Int /\ failed \in Int
        BY CountersInt
      <4>2. (reported + counter + failed)' = ((counter - 1) % Modulus) + (reported + failed + 1)
        BY <1>3, <3>1, <4>1, Division DEF ReadFails
      <4>3. (counter - 1) + (reported + failed + 1) = reported + counter + failed
        BY CountersInt
      <4> QED BY <4>1, <4>2, <4>3, ReducedTerm
    <3>2. CASE turn # "sink"
      BY <1>3, <3>2 DEF ReadFails, NoCount
    <3> QED BY <3>1, <3>2
  <2> QED BY <2>2, <2>3, <2>4, OtherKeepsBytes
<1>4. CASE Disconnect(turn, c)
  <2>1. /\ c \in Clients /\ input[c] = 0 /\ input' = input /\ UNCHANGED countVars
        /\ slots' = [slots EXCEPT ![turn] = @ \ {c}] /\ peer' = [peer EXCEPT ![c] = "free"]
    BY <1>4 DEF Disconnect
  <2>2. UnreadBytes' = UnreadBytes
    BY <1>0, <2>1, SameBytes DEF TypeOK
  <2>3. \A d \in Free' : input'[d] = 0
    BY <2>1 DEF BytesInv, Free, TypeOK
  <2> QED BY <2>1, <2>2, <2>3, OtherKeepsBytes
<1> QED BY <1>1, <1>2, <1>3, <1>4 DEF Read

\* Every byte that was sent is in a reply to /reset, in the counter or still unread, but
\* for the failed reads: whatever order the reads, replies, ends of connections and
\* hand-overs of descriptors come in, and when the counter wraps.
THEOREM AccountsForBytes == Spec => []BytesAccounted
<1>1. Init => BytesInv
  <2> SUFFICES ASSUME Init PROVE BytesInv
    OBVIOUS
  <2>1. UnreadBytes = {}
    BY Constants DEF Init, UnreadBytes, Listen, Tables
  <2>2. IsFiniteSet(UnreadBytes) /\ Unread = 0
    BY <2>1, FS_EmptySet DEF Unread
  <2> QED BY <2>2 DEF Init, BytesInv, BytesAccounted, Free
<1>2. TypeOK /\ TypeOK' /\ BytesInv /\ [Next]_vars => BytesInv'
  <2> SUFFICES ASSUME TypeOK, TypeOK', BytesInv, [Next]_vars PROVE BytesInv'
    OBVIOUS
  <2> USE DEF countVars
  <2>1. CASE Poll
    <3>1. /\ \A c \in Clients \ Free : peer'[c] = peer[c]
          /\ Free' \subseteq Free
          /\ \A c \in Clients \ Free : c \in slots["sink"] <=> c \in slots'["sink"]
          /\ \A c \in Free : c \notin slots["sink"]
      <4>1. CASE Listen(turn) \in flagged'
        <5>1. PICK d \in Free : /\ slots' = [slots EXCEPT ![turn] = @ \cup {d}]
                                /\ peer' = [peer EXCEPT ![d] = "open"]
          BY <2>1, <4>1 DEF Poll, Accept
        <5>2. \A c \in Free : c \notin slots["cmd"] /\ c \notin slots["sink"]
          BY DEF TypeOK, Free
        <5>3. \A c \in Clients : c # d => peer'[c] = peer[c]
          BY <5>1 DEF TypeOK
        <5>4. peer'[d] = "open"
          BY <5>1 DEF TypeOK, Free
        <5> QED BY <5>1, <5>2, <5>3, <5>4 DEF TypeOK, Free
      <4>2. CASE Listen(turn) \notin flagged'
        BY <2>1, <4>2 DEF Poll, TypeOK, Free
      <4> QED BY <4>1, <4>2
    <3>2. UnreadBytes' = UnreadBytes
      BY <2>1, <3>1, SameBytes DEF Poll, BytesInv
    <3>3. \A c \in Free' : input'[c] = 0
      BY <2>1, <3>1 DEF Poll, BytesInv
    <3> QED BY <2>1, <3>2, <3>3, OtherKeepsBytes DEF Poll
  <2>2. ASSUME NEW c \in Clients \cup {Cmd, Sink}, ScanOne(c)
        PROVE  BytesInv'
    BY <2>2, ScanKeepsBytes DEF ScanOne, Remaining
  <2>3. ASSUME NEW c \in Clients, SendBytes(c)
        PROVE  BytesInv'
    BY <2>3, SendKeepsBytes
  <2>4. ASSUME NEW c \in Clients, SendLine(c)
        PROVE  BytesInv'
    <3>1. UnreadBytes' = UnreadBytes
      BY <2>4, SameBytes DEF SendLine, TypeOK
    <3>2. \A d \in Free' : input'[d] = 0
      BY <2>4 DEF SendLine, BytesInv, Free, TypeOK
    <3> QED BY <2>4, <3>1, <3>2, OtherKeepsBytes DEF SendLine
  <2>5. ASSUME UNCHANGED <<slots, countVars, input, sent>>, Free' \subseteq Free
        PROVE  BytesInv'
    <3>1. UnreadBytes' = UnreadBytes
      BY <2>5 DEF UnreadBytes
    <3> QED BY <2>5, <3>1, OtherKeepsBytes DEF BytesInv
  <2>6. ASSUME NEW c \in Clients, Leave(c)
        PROVE  BytesInv'
    <3>1. UNCHANGED <<slots, countVars, input, sent>> /\ Free' \subseteq Free
      BY <2>6 DEF Leave, Free, TypeOK
    <3> QED BY <2>5, <3>1
  <2>7. ASSUME NEW t \in Tables, Request(t)
        PROVE  BytesInv'
    BY <2>5, <2>7 DEF Request, Free
  <2>8. CASE UNCHANGED vars
    BY <2>5, <2>8 DEF vars, kernelVars, Free
  <2> QED BY <2>1, <2>2, <2>3, <2>4, <2>6, <2>7, <2>8 DEF Next, Server, Environment
<1>3. BytesInv => BytesAccounted
  BY DEF BytesInv
<1> QED BY <1>1, <1>2, <1>3, TypeCorrect, PTL DEF Spec
============================================================================
