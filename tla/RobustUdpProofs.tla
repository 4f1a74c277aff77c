---------------------------- MODULE RobustUdpProofs ----------------------------
(* Theorems of RobustUdp, for every number of packets, every stride of the *)
(* client and every width of the acknowledgement word.                     *)
EXTENDS RobustUdp, SequenceTheorems, WellFoundedInduction, TLAPS

(* The inductive invariant.  ForgottenIsStored alone is not inductive: it  *)
(* needs what the replies on their way say, and the end of the transfer    *)
(* needs that a receiving server lacks the packet at its front.            *)

\* A reply on its way names a packet the server has, its bit 0 is not set, and the
\* end message is sent by a server that is done.
RepliesSound ==
  \A r \in toClient :
    /\ 0 \notin r.finish
    /\ r.id = Finished => server = "done"
    /\ r.id # Finished => r.id < first \/ Has(r.id)

\* Foreign data are numbered 0, and the last packet is short.
DataSound ==
  \A d \in toServer \cup held : (d.ok \/ d.id = 0) /\ (d.id = Last => ~d.full)

\* A receiving server waits for packet number first, which is one of the file's.
FrontMissing == server = "receiving" => first \in Packets /\ ~Has(first)

Inv ==
  /\ TypeOK
  /\ ForgottenIsStored
  /\ RepliesSound
  /\ DataSound
  /\ FrontMissing
  /\ FileInOrder
  /\ ClientDoneServerComplete

-----------------------------------------------------------------------------
\* The constants are numbers.
LEMMA Constants ==
  /\ Last \in Nat /\ Last >= 1 /\ End \in Nat /\ End = Last + 1
  /\ Stride \in Nat /\ Stride >= 1 /\ Window \in Nat /\ Window >= 2
  /\ Packets = 0..Last /\ Packets \subseteq Nat
  /\ Finished \notin Packets /\ Finished \in Nat
BY LastAssumption, StrideAssumption, WindowAssumption DEF Finished, End, Packets

\* A non-empty set of numbers has a least element.
LEMMA Least ==
  ASSUME NEW S \in SUBSET Nat, S # {}
  PROVE  \E m \in S : \A k \in S : m <= k
<1>1. IsWellFoundedOn(OpToRel(<, Nat), Nat)
  BY NatLessThanWellFounded
<1>2. PICK m \in S : \A k \in S : ~(<<k, m>> \in OpToRel(<, Nat))
  BY <1>1, WFMin
<1>3. \A k \in S : ~(k < m)
  BY <1>2 DEF OpToRel
<1> QED BY <1>3

\* NextIn gives a member of the set, or End.
LEMMA NextInType ==
  ASSUME NEW S \in SUBSET Packets, NEW i \in Int
  PROVE  NextIn(S, i) \in S \cup {End}
<1>1. CASE \E j \in S : j > i
  <2> DEFINE Above == {j \in S : j > i}
  <2>1. Above \in SUBSET Nat /\ Above # {}
    BY <1>1, Constants
  <2>2. PICK m \in Above : \A k \in Above : m <= k
    BY <2>1, Least
  <2>3. \E j \in S : j > i /\ \A k \in S : k > i => j <= k
    BY <2>2, Constants
  <2> QED BY <1>1, <2>3 DEF NextIn
<1>2. CASE ~ \E j \in S : j > i
  BY <1>2 DEF NextIn
<1> QED BY <1>1, <1>2

\* Datagrams and replies are records of their fields.
LEMMA Fields ==
  /\ \A d \in Datagrams : d.id \in Packets
  /\ \A r \in Replies : /\ r.id \in Packets \cup {Finished}
                        /\ r.finish \in SUBSET (0..Window - 1)
  /\ \A i \in Packets : Packet(i) \in Datagrams
  /\ \A i \in Packets : Packet(i).id = i /\ Packet(i).ok /\ (Packet(i).full <=> i # Last)
BY DEF Datagrams, Replies, Packet

\* The server never sets bit 0 of finishPacket, the one the client looks at.
LEMMA NoBitZero ==
  ASSUME NEW cur \in Int, NEW word \in FinishWords(cur)
  PROVE  0 \notin word /\ word \in SUBSET (0..Window - 1)
<1> DEFINE behind == {i \in cur - Window .. cur - 1 : Bit(i, cur) = 0}
<1>1. word \in SUBSET (0..Window - 1) /\ (0 \in word => \E i \in behind : MayClaim(i))
  BY Constants DEF FinishWords
<1>2. \A i \in cur - Window .. cur - 1 : Bit(i, cur) # 0
  BY Constants DEF Bit
<1> QED BY <1>1, <1>2

\* What storing a datagram does to the file and to the queue.
LEMMA StoreShape ==
  ASSUME TypeOK, NEW d \in Datagrams, ~(d.id < first), Store(d)
  PROVE  \E n \in Nat :
           /\ first + n \in 0..End
           /\ IsRun(held \cup {d}, first, n)
           /\ first' = first + n
           /\ held' = {e \in held \cup {d} : e.id >= first + n}
           /\ server' = IF \E e \in held \cup {d} : e.id < first + n /\ ~e.full
                        THEN "unzipping" ELSE server
           /\ file' \in Seq(Datagrams)
           /\ Len(file') = Len(file) + n
           /\ \A k \in 1..Len(file) : file'[k] = file[k]
           /\ \A k \in 1..n : /\ file'[Len(file) + k] \in held \cup {d}
                              /\ file'[Len(file) + k].id = first + k - 1
<1> DEFINE Q == held \cup {d}
           run(n) == [k \in 1..n |-> CHOOSE e \in Q : e.id = first + k - 1]
<1> USE Constants DEF TypeOK
<1>1. PICK n \in 0..(End - first) :
        /\ IsRun(Q, first, n)
        /\ file' = file \o run(n)
        /\ first' = first + n
        /\ held' = {e \in Q : e.id >= first + n}
        /\ server' = IF \E e \in Q : e.id < first + n /\ ~e.full
                     THEN "unzipping" ELSE server
  BY DEF Store
<1>2. n \in Nat /\ first \in Nat
  OBVIOUS
<1>3. \A k \in 1..n : run(n)[k] \in Q /\ run(n)[k].id = first + k - 1
  <2> SUFFICES ASSUME NEW k \in 1..n PROVE run(n)[k] \in Q /\ run(n)[k].id = first + k - 1
    OBVIOUS
  <2>1. first + k - 1 \in first .. first + n - 1
    BY <1>2
  <2>2. Holds(Q, first + k - 1)
    BY <1>1, <2>1 DEF IsRun
  <2>3. \E e \in Q : e.id = first + k - 1
    BY <2>2 DEF Holds
  <2>4. run(n)[k] = CHOOSE e \in Q : e.id = first + k - 1
    OBVIOUS
  <2> QED BY <2>3, <2>4
<1>4. run(n) \in Seq(Datagrams) /\ Len(run(n)) = n
  <2>1. Q \subseteq Datagrams
    OBVIOUS
  <2>2. \A k \in 1..n : run(n)[k] \in Datagrams
    BY <1>3, <2>1
  <2> HIDE DEF Q
  <2>3. DOMAIN run(n) = 1..n /\ run(n) = [k \in 1..n |-> run(n)[k]]
    OBVIOUS
  <2> HIDE DEF run
  <2>4. run(n) \in [1..n -> Datagrams]
    BY <2>2, <2>3
  <2> QED BY <1>2, <2>4, SeqDef, LenProperties
<1> HIDE DEF run
<1> HIDE DEF Q
<1>5. /\ file' \in Seq(Datagrams)
      /\ Len(file') = Len(file) + n
      /\ \A k \in 1..Len(file) + n :
           file'[k] = IF k <= Len(file) THEN file[k] ELSE run(n)[k - Len(file)]
  <2> DEFINE r == run(n)
  <2>1. file \in Seq(Datagrams) /\ r \in Seq(Datagrams) /\ Len(r) = n /\ file' = file \o r
    BY <1>1, <1>4
  <2> HIDE DEF r
  <2>2. /\ file \o r \in Seq(Datagrams)
        /\ Len(file \o r) = Len(file) + Len(r)
        /\ \A k \in 1 .. Len(file) + Len(r) :
             (file \o r)[k] = IF k <= Len(file) THEN file[k] ELSE r[k - Len(file)]
    BY <2>1, ConcatProperties, Zenon
  <2>3. /\ file' \in Seq(Datagrams)
        /\ Len(file') = Len(file) + n
        /\ \A k \in 1..Len(file) + n :
             file'[k] = IF k <= Len(file) THEN file[k] ELSE r[k - Len(file)]
    BY <2>1, <2>2, Zenon
  <2> QED BY <2>3 DEF r
<1>6. Len(file) \in Nat
  OBVIOUS
<1>7. \A k \in 1..Len(file) : file'[k] = file[k]
  BY <1>2, <1>5, <1>6
<1>8. \A k \in 1..n : file'[Len(file) + k] = run(n)[k]
  <2> TAKE k \in 1..n
  <2>1. Len(file) + k \in 1..Len(file) + n /\ ~(Len(file) + k <= Len(file))
        /\ (Len(file) + k) - Len(file) = k
    BY <1>2, <1>6
  <2> QED BY <1>5, <2>1
<1>9. first + n \in 0..End
  BY <1>1, <1>2
<1> USE DEF Q
<1> QED BY <1>1, <1>2, <1>3, <1>5, <1>7, <1>8, <1>9

-----------------------------------------------------------------------------
LEMMA InvInit == Init => Inv
<1> SUFFICES ASSUME Init PROVE Inv
  OBVIOUS
<1> USE Constants DEF Init
<1>1. TypeOK
  BY DEF TypeOK
<1>2. ForgottenIsStored /\ RepliesSound /\ DataSound
  BY DEF ForgottenIsStored, RepliesSound, DataSound
<1>3. FrontMissing
  BY DEF FrontMissing, Has, Holds
<1>4. FileInOrder /\ ClientDoneServerComplete
  BY DEF FileInOrder, ClientDoneServerComplete
<1> QED BY <1>1, <1>2, <1>3, <1>4 DEF Inv

\* A client that has no packet left has a server that has them all.
LEMMA NothingLeft == Inv /\ unacked = {} => server # "receiving"
<1> SUFFICES ASSUME Inv, unacked = {}, server = "receiving" PROVE FALSE
  OBVIOUS
<1>1. first \in Packets /\ ~Has(first)
  BY DEF Inv, FrontMissing
<1>2. first < first \/ Has(first)
  BY <1>1 DEF Inv, ForgottenIsStored
<1> QED BY <1>1, <1>2, Constants

LEMMA TakeReplyStep == ASSUME Inv, NEW r \in toClient, TakeReply(r) PROVE Inv'
<1> USE Constants DEF Inv, serverVars
<1>1. AckedBy(r) = {r.id}
  BY DEF AckedBy, RepliesSound
<1>2. Has(first)' = Has(first) /\ \A i \in Packets : Has(i)' = Has(i)
  BY DEF TakeReply, Has, Holds
<1>3. TypeOK'
  <2>1. toClient' \subseteq Replies
    BY DEF TakeReply, TypeOK
  <2>2. CASE r.id = Finished
    BY <2>1, <2>2 DEF TakeReply, TypeOK
  <2>3. CASE r.id # Finished
    <3>1. unacked' \in SUBSET Packets
      BY <2>3 DEF TakeReply, TypeOK
    <3>2. it \in Int
      BY DEF TypeOK
    <3>3. NextIn(unacked', it) \in unacked' \cup {End}
      BY <3>1, <3>2, NextInType
    <3>4. it' \in Packets \cup {End}
      BY <2>3, <3>1, <3>3 DEF TakeReply, TypeOK
    <3> QED BY <2>1, <2>3, <3>1, <3>4 DEF TakeReply, TypeOK
  <2> QED BY <2>2, <2>3
<1>4. ForgottenIsStored'
  <2>1. CASE r.id = Finished
    BY <2>1, <1>2 DEF TakeReply, ForgottenIsStored
  <2>2. CASE r.id # Finished
    <3>1. unacked' = unacked \ {r.id} /\ first' = first
      BY <2>2, <1>1 DEF TakeReply
    <3>2. r.id < first \/ Has(r.id)
      BY <2>2 DEF RepliesSound
    <3> QED BY <3>1, <3>2, <1>2 DEF ForgottenIsStored
  <2> QED BY <2>1, <2>2
<1>5. RepliesSound'
  <2>1. toClient' \subseteq toClient
    BY DEF TakeReply
  <2>2. \A q \in toClient' : q.id # Finished => (q.id < first \/ Has(q.id))'
    BY <2>1 DEF TakeReply, RepliesSound, Has, Holds
  <2> QED BY <2>1, <2>2 DEF TakeReply, RepliesSound
<1>6. DataSound' /\ FrontMissing' /\ FileInOrder'
  BY <1>2 DEF TakeReply, DataSound, FrontMissing, FileInOrder
<1>7. ClientDoneServerComplete'
  BY DEF TakeReply, ClientDoneServerComplete, RepliesSound
<1> QED BY <1>3, <1>4, <1>5, <1>6, <1>7

LEMMA WriteStep == Inv /\ Write => Inv'
<1> SUFFICES ASSUME Inv, Write PROVE Inv'
  OBVIOUS
<1> USE Constants DEF Inv, serverVars, Write
<1>1. toServer' \subseteq Datagrams /\ (DataSound')
  <2>1. CASE it = End
    <3>1. PICK stray \in Strays : toServer' = toServer \cup stray
      BY <2>1
    <3>2. stray \subseteq Datagrams /\ \A d \in stray : d.id = 0
      <4>1. \A f \in BOOLEAN : LET d == [id |-> 0, ok |-> FALSE, full |-> f]
                                IN d \in Datagrams /\ d.id = 0
        BY DEF Datagrams
      <4>2. stray = {} \/ \E f \in BOOLEAN : stray = {[id |-> 0, ok |-> FALSE, full |-> f]}
        BY <3>1 DEF Strays
      <4> QED BY <4>1, <4>2
    <3> QED BY <3>1, <3>2 DEF DataSound, TypeOK
  <2>2. CASE it # End
    <3>1. it \in Packets /\ toServer' = toServer \cup {Packet(it)}
      BY <2>2 DEF TypeOK
    <3> QED BY <3>1, Fields DEF DataSound, TypeOK
  <2> QED BY <2>1, <2>2
<1>2. it' \in Packets \cup {End} /\ phase' \in 0..Stride - 1 /\ client' \in {"sending", "done"}
  <2>1. NextIn(unacked, it) \in unacked \cup {End} /\ NextIn(unacked, -1) \in unacked \cup {End}
    BY NextInType DEF TypeOK
  <2>2. phase \in Nat /\ (phase + 1) % Stride \in 0..Stride - 1
    BY DEF TypeOK
  <2>3. unacked \subseteq Packets /\ it \in Packets \cup {End} /\ phase \in 0..Stride - 1
    BY DEF TypeOK
  <2>4. Advance
    OBVIOUS
  <2> HIDE DEF Inv, Write
  <2>5. CASE unacked = {}
    BY <2>3, <2>4, <2>5 DEF Advance
  <2>6. CASE unacked # {}
    <3>1. client' = client /\ phase' \in {0, (phase + 1) % Stride} /\ it' \in unacked \cup {End}
      BY <2>1, <2>4, <2>6 DEF Advance
    <3>2. 0 \in 0..Stride - 1
      OBVIOUS
    <3>3. client \in {"sending", "done"}
      BY DEF Inv, TypeOK
    <3> QED BY <2>2, <2>3, <3>1, <3>2, <3>3
  <2> QED BY <2>5, <2>6
<1>3. TypeOK'
  BY <1>1, <1>2 DEF TypeOK
<1>4. ForgottenIsStored' /\ FrontMissing' /\ FileInOrder' /\ RepliesSound'
  BY DEF ForgottenIsStored, FrontMissing, FileInOrder, RepliesSound, Has, Holds
<1>5. ClientDoneServerComplete'
  BY NothingLeft DEF Advance, ClientDoneServerComplete
<1> QED BY <1>1, <1>3, <1>4, <1>5

\* Unzip, SendFinished, the link and a stuttering step.
LEMMA OtherStep ==
  Inv /\ (Unzip \/ SendFinished \/ Lose \/ UNCHANGED vars) => Inv'
<1> USE Constants DEF Inv, clientVars, serverVars, linkVars
<1>1. ASSUME Inv, Unzip PROVE Inv'
  BY <1>1 DEF Unzip, TypeOK, ForgottenIsStored, FrontMissing, FileInOrder,
     RepliesSound, DataSound, ClientDoneServerComplete, Has, Holds
<1>2. ASSUME Inv, SendFinished PROVE Inv'
  <2> DEFINE end == [id |-> Finished, finish |-> {}]
  <2>1. end \in Replies /\ end.id = Finished /\ end.finish = {}
    BY DEF Replies
  <2>2. TypeOK'
    BY <1>2, <2>1 DEF SendFinished, TypeOK
  <2>3. RepliesSound'
    BY <1>2, <2>1 DEF SendFinished, RepliesSound, Has, Holds
  <2>4. ForgottenIsStored' /\ FrontMissing' /\ FileInOrder' /\ DataSound'
        /\ ClientDoneServerComplete'
    BY <1>2 DEF SendFinished, ForgottenIsStored, FrontMissing, FileInOrder, DataSound,
       ClientDoneServerComplete, Has, Holds
  <2> QED BY <2>2, <2>3, <2>4
<1>3. ASSUME Inv, Lose PROVE Inv'
  <2>1. toServer' \subseteq toServer /\ toClient' \subseteq toClient
    BY <1>3 DEF Lose
  <2>2. TypeOK'
    BY <1>3, <2>1 DEF Lose, TypeOK
  <2>3. RepliesSound' /\ DataSound'
    BY <1>3, <2>1 DEF Lose, RepliesSound, DataSound, Has, Holds
  <2>4. ForgottenIsStored' /\ FrontMissing' /\ FileInOrder' /\ ClientDoneServerComplete'
    BY <1>3 DEF Lose, ForgottenIsStored, FrontMissing, FileInOrder,
       ClientDoneServerComplete, Has, Holds
  <2> QED BY <2>2, <2>3, <2>4
<1>4. ASSUME Inv, UNCHANGED vars PROVE Inv'
  BY <1>4 DEF vars, TypeOK, ForgottenIsStored, FrontMissing, FileInOrder,
     RepliesSound, DataSound, ClientDoneServerComplete, Has, Holds
<1> QED BY <1>1, <1>2, <1>3, <1>4

\* One datagram at the server.
LEMMA ReceiveStep == ASSUME Inv, NEW d \in toServer, ServerReceive(d) PROVE Inv'
<1> USE Constants DEF Inv, clientVars, serverVars
<1>1. d \in Datagrams /\ d.id \in Packets /\ first \in Nat
  BY Fields DEF TypeOK
<1>2. PICK word \in FinishWords(d.id - first) :
        toClient' = toClient \cup {[id |-> d.id, finish |-> word]}
  BY DEF ServerReceive
<1> DEFINE answer == [id |-> d.id, finish |-> word]
<1>3. /\ answer \in Replies /\ answer.id = d.id /\ 0 \notin answer.finish
      /\ toClient' = toClient \cup {answer}
  <2>1. 0 \notin word /\ word \in SUBSET (0..Window - 1)
    BY <1>1, <1>2, NoBitZero
  <2> QED BY <1>1, <1>2, <2>1 DEF Replies
<1> HIDE DEF answer
<1>4. toServer' \subseteq toServer
  BY DEF ServerReceive
\* What was stored stays stored, and the datagram is.
<1>5. ASSUME first' \in 0..End, held' \subseteq Datagrams,
             \A i \in Packets : i < first \/ Has(i) => i < first' \/ Has(i)',
             d.id < first' \/ Has(d.id)'
      PROVE  ForgottenIsStored' /\ RepliesSound'
  <2>1. ForgottenIsStored'
    BY <1>5 DEF ForgottenIsStored, ServerReceive
  <2>2. \A r \in toClient' : 0 \notin r.finish
    BY <1>3 DEF RepliesSound
  <2>3. \A r \in toClient' : r.id = Finished => server' = "done"
    BY <1>1, <1>3 DEF RepliesSound, ServerReceive
  <2>4. \A r \in toClient' : r.id # Finished => (r.id < first' \/ Has(r.id)')
    <3> SUFFICES ASSUME NEW r \in toClient', r.id # Finished
                 PROVE  r.id < first' \/ Has(r.id)'
      OBVIOUS
    <3>1. CASE r \in toClient
      <4>1. r.id \in Packets
        BY <3>1, Fields DEF TypeOK
      <4> QED BY <3>1, <4>1, <1>5 DEF RepliesSound
    <3>2. CASE r = answer
      BY <3>2, <1>3, <1>5
    <3> QED BY <3>1, <3>2, <1>3
  <2>5. \A r \in toClient' : r.id # Finished => (r.id < first \/ Has(r.id))'
    BY <2>4
  <2> QED BY <2>1, <2>2, <2>3, <2>5 DEF RepliesSound
<1>6. CASE d.id < first \/ Has(d.id)
  <2>1. UNCHANGED serverVars
    BY <1>6 DEF ServerReceive
  <2>2. \A i : Has(i)' = Has(i)
    BY <2>1 DEF Has, Holds
  <2>3. TypeOK'
    BY <1>3, <1>4, <2>1 DEF TypeOK, ServerReceive
  <2>4. ForgottenIsStored' /\ RepliesSound'
    BY <1>5, <1>6, <2>1, <2>2, <2>3 DEF TypeOK
  <2>5. DataSound' /\ FrontMissing' /\ FileInOrder' /\ ClientDoneServerComplete'
    BY <1>4, <2>1, <2>2 DEF DataSound, FrontMissing, FileInOrder,
       ClientDoneServerComplete, ServerReceive
  <2> QED BY <2>3, <2>4, <2>5
<1>7. CASE ~(d.id < first \/ Has(d.id))
  <2> DEFINE Q == held \cup {d}
  <2>1. Store(d) /\ server = "receiving" /\ UNCHANGED clientVars
    BY <1>7 DEF ServerReceive
  <2>2. PICK n \in Nat :
           /\ first + n \in 0..End
           /\ IsRun(Q, first, n)
           /\ first' = first + n
           /\ held' = {e \in Q : e.id >= first + n}
           /\ server' = IF \E e \in Q : e.id < first + n /\ ~e.full
                        THEN "unzipping" ELSE server
           /\ file' \in Seq(Datagrams)
           /\ Len(file') = Len(file) + n
           /\ \A k \in 1..Len(file) : file'[k] = file[k]
           /\ \A k \in 1..n : /\ file'[Len(file) + k] \in Q
                              /\ file'[Len(file) + k].id = first + k - 1
    BY <1>1, <1>7, <2>1, StoreShape
  <2>3. Q \subseteq Datagrams /\ (\A e \in Q : e.id \in Packets) /\ first \in 0..End
    BY <1>1, Fields DEF TypeOK
  <2>4. \A e \in Q : (e.ok \/ e.id = 0) /\ (e.id = Last => ~e.full)
    BY DEF DataSound
  <2>5. TypeOK'
    BY <1>3, <1>4, <2>1, <2>2, <2>3 DEF TypeOK
  <2>6. \A e \in Q : e.id < first' \/ Has(e.id)'
    BY <2>2, <2>3 DEF Has, Holds
  <2>7. ForgottenIsStored' /\ RepliesSound'
    <3>1. \A i \in Packets : i < first \/ Has(i) => i < first' \/ Has(i)'
      <4> SUFFICES ASSUME NEW i \in Packets, i < first \/ Has(i)
                   PROVE  i < first' \/ Has(i)'
        OBVIOUS
      <4>1. CASE i < first
        BY <4>1, <2>2, <2>3
      <4>2. CASE Has(i)
        <5>1. PICK e \in Q : e.id = i
          BY <4>2 DEF Has, Holds
        <5> QED BY <5>1, <2>6
      <4> QED BY <4>1, <4>2
    <3> QED BY <3>1, <2>5, <2>6, <1>5 DEF TypeOK
  <2>8. DataSound'
    BY <1>4, <2>2, <2>4 DEF DataSound
  <2>9. FrontMissing'
    <3> SUFFICES ASSUME server' = "receiving" PROVE first' \in Packets /\ ~Has(first)'
      BY DEF FrontMissing
    <3>1. \A e \in Q : e.id < first + n => e.full
      BY <2>2
    <3>2. ~Holds(Q, first + n)
      <4> SUFFICES ASSUME Holds(Q, first + n) PROVE FALSE
        OBVIOUS
      <4>1. \E e \in Q : e.id = first + n - 1 /\ ~e.full
        BY <2>2 DEF IsRun
      <4> QED BY <4>1, <3>1, <2>3
    <3>3. first + n # End
      <4> SUFFICES ASSUME first + n = End PROVE FALSE
        OBVIOUS
      <4>1. CASE n = 0
        BY <4>1, <2>1, <2>3 DEF FrontMissing
      <4>2. CASE n # 0
        <5>1. Last \in first .. first + n - 1
          BY <4>2, <2>2, <2>3
        <5>2. PICK e \in Q : e.id = Last
          BY <5>1, <2>2 DEF IsRun, Holds
        <5> QED BY <5>2, <3>1, <2>4
      <4> QED BY <4>1, <4>2
    <3>4. first' \in Packets
      BY <3>3, <2>2
    <3>5. ~Has(first)'
      BY <3>2, <2>2 DEF Has, Holds
    <3> QED BY <3>4, <3>5
  <2>10. FileInOrder'
    <3>1. Len(file) \in Nat /\ Len(file) = first
      BY <1>1 DEF FileInOrder
    <3>2. Len(file') = first'
      BY <2>2, <3>1
    <3>3. ASSUME NEW k \in 1..Len(file')
          PROVE  file'[k].id = k - 1 /\ (file'[k].ok \/ k = 1)
      <4>1. CASE k <= Len(file)
        <5>1. k \in 1..Len(file) /\ file'[k] = file[k]
          BY <4>1, <2>2, <3>1
        <5> QED BY <5>1 DEF FileInOrder
      <4>2. CASE ~(k <= Len(file))
        <5> DEFINE j == k - Len(file)
        <5>1. j \in 1..n /\ Len(file) + j = k
          BY <4>2, <2>2, <3>1
        <5>2. file'[k] \in Q /\ file'[k].id = first + j - 1
          BY <5>1, <2>2
        <5>3. file'[k].id = k - 1
          BY <5>1, <5>2, <3>1
        <5>4. file'[k].ok \/ k - 1 = 0
          BY <5>2, <5>3, <2>4
        <5> QED BY <5>3, <5>4
      <4> QED BY <4>1, <4>2
    <3> QED BY <3>2, <3>3 DEF FileInOrder
  <2>11. ClientDoneServerComplete'
    BY <2>1 DEF ClientDoneServerComplete, clientVars
  <2> QED BY <2>5, <2>7, <2>8, <2>9, <2>10, <2>11
<1> QED BY <1>6, <1>7

LEMMA InvStep == Inv /\ [Next]_vars => Inv'
<1> SUFFICES ASSUME Inv, [Next]_vars PROVE Inv'
  OBVIOUS
<1>1. ASSUME NEW r \in toClient, TakeReply(r) PROVE Inv'
  BY <1>1, TakeReplyStep
<1>2. ASSUME NEW d \in toServer, ServerReceive(d) PROVE Inv'
  BY <1>2, ReceiveStep
<1>3. CASE Write
  BY <1>3, WriteStep
<1>4. CASE Unzip \/ SendFinished \/ Lose \/ UNCHANGED vars
  BY <1>4, OtherStep
<1> QED BY <1>1, <1>2, <1>3, <1>4 DEF Next

\* The inductive invariant holds of every behaviour.
LEMMA InvHolds == Spec => []Inv
BY InvInit, InvStep, PTL DEF Spec

-----------------------------------------------------------------------------
\* Every variable of client, server and link keeps its type.
THEOREM TransferTypes == Spec => []TypeOK
<1>1. Inv => TypeOK
  BY DEF Inv
<1> QED BY <1>1, InvHolds, PTL

\* dg_cli forgets no packet that dg_echo has not got, however replies are lost,
\* delayed, duplicated and reordered, and whatever finishPacket claims.
THEOREM ForgetsOnlyStored == Spec => []ForgottenIsStored
<1>1. Inv => ForgottenIsStored
  BY DEF Inv
<1> QED BY <1>1, InvHolds, PTL

\* dg_echo writes packet after packet into all.zip, each once and in order.
THEOREM WritesInOrder == Spec => []FileInOrder
<1>1. Inv => FileInOrder
  BY DEF Inv
<1> QED BY <1>1, InvHolds, PTL

\* dg_cli returns only when dg_echo has all it waits for.
THEOREM EndsWhenComplete == Spec => []ClientDoneServerComplete
<1>1. Inv => ClientDoneServerComplete
  BY DEF Inv
<1> QED BY <1>1, InvHolds, PTL

\* While dg_echo receives, dg_cli goes on sending, and the packet the server waits for
\* is among those it sends: no order of losses and replies leaves the server waiting
\* for a packet that nobody sends again.
NeverGivesUp == server = "receiving" => client = "sending" /\ first \in unacked

THEOREM WaitedForIsSent == Spec => []NeverGivesUp
<1>1. ASSUME Inv, server = "receiving" PROVE client = "sending" /\ first \in unacked
  <2>1. first \in Packets /\ ~Has(first)
    BY <1>1 DEF Inv, FrontMissing
  <2>2. first \in unacked
    BY <1>1, <2>1, Constants DEF Inv, ForgottenIsStored
  <2>3. client = "sending"
    BY <1>1 DEF Inv, TypeOK, ClientDoneServerComplete
  <2> QED BY <2>2, <2>3
<1>2. Inv => NeverGivesUp
  BY <1>1 DEF NeverGivesUp
<1> QED BY <1>2, InvHolds, PTL

-----------------------------------------------------------------------------
(* The abstract transfer.                                                  *)

\* What a queue entry tells of its packet: the queue starts at number first, has an
\* entry once, and own data are short for the last packet only.
QueueSound ==
  /\ \A d \in held : d.id >= first
  /\ \A d, e \in held : d.id = e.id => d = e
  /\ \A d \in toServer \cup held : d.ok => (d.full <=> d.id # Last)

LEMMA QueueInit == Init => QueueSound
BY DEF Init, QueueSound

\* A datagram that is stored was not there.
LEMMA StoreQueueSound ==
  ASSUME Inv, QueueSound, NEW d \in toServer, ServerReceive(d)
  PROVE  QueueSound'
<1> USE Constants DEF serverVars
<1>1. toServer' \subseteq toServer
  BY DEF ServerReceive
<1>2. CASE d.id < first \/ Has(d.id)
  BY <1>1, <1>2 DEF ServerReceive, QueueSound
<1>3. CASE ~(d.id < first \/ Has(d.id))
  <2>1. /\ d \in Datagrams /\ Store(d) /\ TypeOK
    BY <1>3 DEF ServerReceive, Inv, TypeOK
  <2>2. PICK n \in Nat : first' = first + n /\ held' = {e \in held \cup {d} : e.id >= first + n}
    BY <1>3, <2>1, StoreShape
  <2>3. \A e \in held : e.id # d.id
    BY <1>3 DEF Has, Holds
  <2> QED BY <1>1, <2>2, <2>3 DEF QueueSound
<1> QED BY <1>2, <1>3

LEMMA QueueStep == Inv /\ QueueSound /\ [Next]_vars => QueueSound'
<1> SUFFICES ASSUME Inv, QueueSound, [Next]_vars PROVE QueueSound'
  OBVIOUS
<1> USE DEF serverVars, clientVars, linkVars, QueueSound
<1>1. ASSUME NEW r \in toClient, TakeReply(r) PROVE QueueSound'
  BY <1>1 DEF TakeReply
<1>2. ASSUME NEW d \in toServer, ServerReceive(d) PROVE QueueSound'
  BY <1>2, StoreQueueSound
<1>3. CASE Write
  <2>1. CASE it = End
    <3>1. PICK stray \in Strays : toServer' = toServer \cup stray
      BY <1>3, <2>1 DEF Write
    <3>2. \A d \in stray : ~d.ok
      BY <3>1 DEF Strays
    <3> QED BY <1>3, <3>1, <3>2 DEF Write
  <2>2. CASE it # End
    <3>1. it \in Packets /\ toServer' = toServer \cup {Packet(it)}
      BY <1>3, <2>2 DEF Write, Inv, TypeOK
    <3> QED BY <1>3, <3>1, Fields DEF Write
  <2> QED BY <2>1, <2>2
<1>4. CASE Unzip \/ SendFinished \/ Lose \/ UNCHANGED vars
  BY <1>4 DEF Unzip, SendFinished, Lose, vars
<1> QED BY <1>1, <1>2, <1>3, <1>4 DEF Next

\* Only place 0 of the file may be spoilt.
OneForeign == Foreign \in {{}, {0}}

LEMMA ForeignFirst == FileInOrder => OneForeign
<1> SUFFICES ASSUME FileInOrder PROVE OneForeign
  OBVIOUS
<1>1. ASSUME NEW i \in Foreign PROVE i = 0
  <2>1. i \in 0..Len(file) - 1 /\ ~(file[i + 1].id = i /\ file[i + 1].ok)
    BY DEF Foreign
  <2>2. Len(file) \in Int
    BY <2>1
  <2>3. i + 1 \in 1..Len(file) /\ (i + 1) - 1 = i
    BY <2>1, <2>2
  <2>4. file[i + 1].id = i /\ (file[i + 1].ok \/ i + 1 = 1)
    BY <2>3 DEF FileInOrder
  <2> QED BY <2>1, <2>4
<1> QED BY <1>1 DEF OneForeign

\* What is stored fills the next places of the file; only place 0 may be spoilt, and
\* the server stops at the last packet or at a spoilt one.
LEMMA StoreFills ==
  ASSUME Inv, QueueSound, NEW d \in Datagrams, d \in toServer, server = "receiving",
         ~(d.id < first \/ Has(d.id)), Store(d), client' = client,
         OneForeign'
  PROVE  [Transfer!Next]_(Transfer!vars)
<1> DEFINE Q == held \cup {d}
<1> USE Constants
<1>1. PICK n \in Nat :
        /\ first + n \in 0..End
        /\ IsRun(Q, first, n)
        /\ server' = IF \E e \in Q : e.id < first + n /\ ~e.full
                     THEN "unzipping" ELSE server
        /\ Len(file') = Len(file) + n
        /\ \A k \in 1..Len(file) : file'[k] = file[k]
        /\ \A k \in 1..n : /\ file'[Len(file) + k] \in Q
                           /\ file'[Len(file) + k].id = first + k - 1
  BY StoreShape DEF Inv
<1>2. /\ Len(file) = first /\ first \in Nat /\ first \in Packets
      /\ \A e \in Q : e.id \in Nat /\ e.id >= first
      /\ \A e, f \in Q : e.id = f.id => e = f
      /\ \A e \in Q : e.ok => (e.full <=> e.id # Last)
      /\ \A e \in Q : e.ok \/ e.id = 0
  <2>1. d.id >= first /\ d.id \in Nat /\ first \in Packets
    BY Fields DEF Inv, FrontMissing
  <2>2. \A e \in held : e.id \in Nat /\ e.id # d.id
    BY Fields DEF Has, Holds, Inv, TypeOK
  <2> QED BY <2>1, <2>2 DEF QueueSound, Inv, FileInOrder, DataSound
\* The new places, as they are after the step.
<1>3. \A i \in first..first + n - 1 : file'[i + 1] \in Q /\ file'[i + 1].id = i
  <2> SUFFICES ASSUME NEW i \in first..first + n - 1
               PROVE  file'[i + 1] \in Q /\ file'[i + 1].id = i
    OBVIOUS
  <2>1. i - first + 1 \in 1..n /\ Len(file) + (i - first + 1) = i + 1
        /\ first + (i - first + 1) - 1 = i
    BY <1>2
  <2> QED BY <1>1, <2>1
<1>4. \E F \in SUBSET (first..first + n - 1) : Foreign' = Foreign \cup F
  <2> DEFINE F == {i \in first..first + n - 1 : ~file'[i + 1].ok}
  <2>1. F \subseteq first..first + n - 1
    BY <1>2, <1>3
  <2>2. 0..Len(file') - 1 = (0..Len(file) - 1) \cup (first..first + n - 1)
    BY <1>1, <1>2
  <2>3. \A i \in 0..Len(file) - 1 : file'[i + 1] = file[i + 1]
    BY <1>1, <1>2
  <2>4. Foreign' = Foreign \cup F
    BY <1>2, <1>3, <2>2, <2>3 DEF Foreign
  <2> QED BY <2>1, <2>4
<1>5. PICK filled \in 0..End : filled = first + n
  BY <1>1
<1>6. Transfer!Fill(filled)
  <2>1. \E F \in SUBSET (Len(file)..filled - 1) : Foreign' = Foreign \cup F
    <3>1. PICK F \in SUBSET (first..first + n - 1) : Foreign' = Foreign \cup F
      BY <1>4
    <3>2. F \in SUBSET (Len(file)..filled - 1)
      BY <1>2, <1>5
    <3> QED BY <3>1, <3>2
  <2>2. Len(file)' = filled
    BY <1>1, <1>2, <1>5
  <2> QED BY <2>1, <2>2 DEF Transfer!Fill, OneForeign
<1>7. CASE \E e \in Q : e.id < first + n /\ ~e.full
  <2>1. PICK e \in Q : e.id < first + n /\ ~e.full
    BY <1>7
  <2>2. e.id = first + n - 1 /\ n > 0
    <3>1. e.id \in Nat /\ first \in Nat /\ n \in Nat /\ e.id >= first /\ e.id < first + n
      BY <1>2, <2>1
    <3>2. e.id \notin first..first + n - 2
      BY <1>1, <2>1 DEF IsRun
    <3> QED BY <3>1, <3>2
  <2>3. file'[first + n] = e
    <3>1. first + n - 1 \in first..first + n - 1 /\ (first + n - 1) + 1 = first + n
      BY <1>2, <2>2
    <3> QED BY <1>2, <1>3, <2>2, <3>1
  <2>4. e.ok => first + n = Last + 1
    BY <1>2, <2>1, <2>2
  <2>5. ~e.ok => first + n - 1 \in Foreign'
    <3>1. first + n - 1 \in 0..Len(file') - 1 /\ (first + n - 1) + 1 = first + n
      BY <1>1, <1>2, <2>2
    <3> QED BY <2>3, <3>1 DEF Foreign
  <2>6. Len(file') = filled /\ filled \in Len(file) + 1..Last + 1
    BY <1>1, <1>2, <1>5, <2>2
  <2>7. Transfer!Complete
    BY <1>1, <1>2, <1>5, <1>6, <1>7, <2>4, <2>5, <2>6 DEF Transfer!Complete
  <2> QED BY <2>7 DEF Transfer!Next
<1>8. CASE ~ \E e \in Q : e.id < first + n /\ ~e.full
  <2>1. first + n # End
    <3> SUFFICES ASSUME first + n = End PROVE FALSE
      OBVIOUS
    <3>1. Last \in first..first + n - 1
      BY <1>2
    <3>2. file'[Last + 1] \in Q /\ file'[Last + 1].id = Last
      BY <1>3, <3>1
    <3>3. file'[Last + 1].ok
      BY <1>2, <3>2
    <3> QED BY <1>2, <1>8, <3>2, <3>3
  <2>2. filled \in Len(file)..Last
    BY <1>1, <1>2, <1>5, <2>1
  <2>3. Transfer!Grow
    BY <1>1, <1>6, <1>8, <2>2, <1>2 DEF Transfer!Grow
  <2> QED BY <2>3 DEF Transfer!Next
<1> QED BY <1>7, <1>8

\* A server that stopped before the end has foreign data in its file.
StopSound == server = "unzipping" => Len(file) = End \/ Foreign # {}

LEMMA StopStep == StopSound /\ [Transfer!Next]_(Transfer!vars) => StopSound'
<1> SUFFICES ASSUME StopSound, [Transfer!Next]_(Transfer!vars) PROVE StopSound'
  OBVIOUS
<1>1. CASE Transfer!Complete
  BY <1>1 DEF Transfer!Complete, StopSound, End
<1>2. CASE Transfer!Grow
  BY <1>2 DEF Transfer!Grow, Transfer!Fill, StopSound
<1>3. CASE Transfer!Unzip \/ Transfer!Fail \/ Transfer!Finish
  BY <1>3 DEF Transfer!Unzip, Transfer!Fail, Transfer!Finish, StopSound
<1>4. CASE Transfer!End
  BY <1>4 DEF Transfer!End, StopSound
<1>5. CASE UNCHANGED Transfer!vars
  BY <1>5 DEF Transfer!vars, StopSound
<1> QED BY <1>1, <1>2, <1>3, <1>4, <1>5 DEF Transfer!Next

LEMMA TransferStep ==
  ASSUME Inv, QueueSound, StopSound, Inv', OneForeign', [Next]_vars
  PROVE  [Transfer!Next]_(Transfer!vars)
<1> USE DEF serverVars, clientVars, linkVars
<1>1. ASSUME UNCHANGED <<file, server>>,
             client' = client \/ (client = "sending" /\ client' = "done")
      PROVE  [Transfer!Next]_(Transfer!vars)
  <2>1. Foreign' = Foreign /\ Len(file)' = Len(file)
    BY <1>1 DEF Foreign
  <2>2. CASE client' = client
    BY <1>1, <2>1, <2>2 DEF Transfer!vars
  <2>3. CASE client = "sending" /\ client' = "done"
    <3>1. server \in {"unzipping", "unzipped", "done", "crashed"}
      BY <1>1, <2>3 DEF Inv, TypeOK, ClientDoneServerComplete
    <3>2. Transfer!End
      BY <1>1, <2>1, <2>3, <3>1 DEF Transfer!End
    <3> QED BY <3>2 DEF Transfer!Next
  <2> QED BY <1>1, <2>2, <2>3
<1>2. ASSUME NEW r \in toClient, TakeReply(r)
      PROVE  [Transfer!Next]_(Transfer!vars)
  BY <1>1, <1>2 DEF TakeReply
<1>3. CASE Write
  BY <1>1, <1>3 DEF Write, Advance
<1>4. CASE Lose \/ UNCHANGED vars
  BY <1>1, <1>4 DEF Lose, vars
<1>5. ASSUME NEW d \in toServer, ServerReceive(d)
      PROVE  [Transfer!Next]_(Transfer!vars)
  <2>1. CASE d.id < first \/ Has(d.id)
    BY <1>1, <1>5, <2>1 DEF ServerReceive
  <2>2. CASE ~(d.id < first \/ Has(d.id))
    BY <1>5, <2>2, StoreFills DEF ServerReceive, Inv, TypeOK
  <2> QED BY <2>1, <2>2
<1>6. CASE Unzip
  <2>1. Foreign' = Foreign /\ Len(file)' = Len(file)
    BY <1>6 DEF Unzip, Foreign
  <2>2. CASE server' = "unzipped"
    BY <1>6, <2>1, <2>2 DEF Unzip, Transfer!Unzip, Transfer!Next
  <2>3. CASE ~Whole /\ server' = "crashed"
    <3>1. Foreign # {}
      BY <1>6, <2>3 DEF Unzip, Whole, StopSound
    <3> QED BY <1>6, <2>1, <2>3, <3>1 DEF Unzip, Transfer!Fail, Transfer!Next
  <2> QED BY <1>6, <2>2, <2>3 DEF Unzip
<1>7. CASE SendFinished
  <2>1. Foreign' = Foreign /\ Len(file)' = Len(file)
    BY <1>7 DEF SendFinished, Foreign
  <2> QED BY <1>7, <2>1 DEF SendFinished, Transfer!Finish, Transfer!Next
<1> QED BY <1>2, <1>3, <1>4, <1>5, <1>6, <1>7 DEF Next

\* dg_cli and dg_echo keep the promise of FileTransfer over a link that loses, delays,
\* reorders and duplicates: one archive, grown in order, each packet once, in which
\* packet 0 is the only place that may hold other data, and without other data in it
\* the server does not die on it.
THEOREM TransferRefined == Spec => ImplementsTransfer
<1>1. Init => Transfer!Init
  <2> SUFFICES ASSUME Init PROVE Transfer!Init
    OBVIOUS
  <2>1. Len(file) = 0
    BY DEF Init
  <2>2. Foreign = {}
    BY <2>1 DEF Foreign
  <2> QED BY <2>1, <2>2 DEF Init, Transfer!Init
<1>2. Inv /\ QueueSound /\ StopSound /\ Inv' /\ OneForeign' /\ [Next]_vars
        => [Transfer!Next]_(Transfer!vars)
  BY TransferStep
<1>3. Init => StopSound
  BY DEF Init, StopSound
<1>4. Inv => OneForeign
  BY ForeignFirst DEF Inv
<1> QED BY <1>1, <1>2, <1>3, <1>4, QueueInit, QueueStep, StopStep, InvHolds, PTL
        DEF Spec, ImplementsTransfer, Transfer!Spec
=============================================================================
