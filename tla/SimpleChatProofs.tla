---------------------------- MODULE SimpleChatProofs ----------------------------
(***************************************************************************)
(* Theorems about SimpleChat, for every set of clients, number of places   *)
(* and bounds, and whatever revents holds before poll() has set it.        *)
(***************************************************************************)
EXTENDS SimpleChat, FiniteSetTheorems, NaturalsInduction, WellFoundedInduction, TLAPS

\* A client has one place, below maxIndex, and a connection; one that is not accepted
\* yet has a connection and no place.
Served ==
  /\ \A i, j \in Slots : slot[i] = slot[j] /\ slot[i] # None => i = j
  /\ \A i \in Slots : slot[i] # None => i <= maxIndex /\ conn[slot[i]] \notin {"free", "lost"}
  /\ \A c \in queue : conn[c] \notin {"free", "lost"} /\ c \notin Online

FlaggedTo(top) == {i \in Flagged : i <= top}

\* What nready counts: the new connection and the flagged places, and among the flagged
\* places those poll() saw, which all have something to read; a place that was filled
\* in this round comes after them when its revents has a flag at all.
Round ==
  /\ phase \in {"poll", "accept"} => cursor = 1
  /\ phase = "accept" =>
       /\ nready = Cardinality(Flagged) + 1
       /\ \A i \in Slots : i <= maxIndex /\ revents[i] => slot[i] # None /\ Readable(slot[i])
  /\ phase = "read" =>
       /\ nready > 0
       /\ \E top \in 0..MaxSlots :
            /\ nready = Cardinality(FlaggedTo(top))
            /\ \A i \in FlaggedTo(top) : Readable(slot[i])

IInv == TypeOK /\ Served /\ CountsAgree /\ Round

-----------------------------------------------------------------------------
(* Sets of places.                                                         *)

LEMMA Constants ==
  /\ MaxSlots \in Nat \ {0} /\ MaxGhosts \in Nat
  /\ IsFiniteSet(Clients) /\ None \notin Clients
  /\ Junk \subseteq BOOLEAN
BY MaxSlotsAssumption, MaxGhostsAssumption, ClientsAssumption, JunkAssumption

\* A set of places is finite and, unless empty, has a least one.
LEMMA PlacesFinite ==
  ASSUME NEW S \in SUBSET Slots
  PROVE  /\ IsFiniteSet(S) /\ Cardinality(S) \in Nat
         /\ S # {} => \E m \in S : \A k \in S : m <= k
<1>1. IsFiniteSet(Slots)
  BY Constants, FS_Interval DEF Slots
<1>2. IsFiniteSet(S) /\ Cardinality(S) \in Nat
  BY <1>1, FS_Subset, FS_CardinalityType
<1>3. ASSUME S # {} PROVE \E m \in S : \A k \in S : m <= k
  <2>1. IsWellFoundedOn(OpToRel(<, Nat), Nat)
    BY NatLessThanWellFounded
  <2>2. S \subseteq Nat
    BY Constants DEF Slots
  <2>3. PICK m \in S : \A k \in S : ~(<<k, m>> \in OpToRel(<, Nat))
    BY <1>3, <2>1, <2>2, WFMin
  <2>4. \A k \in S : ~(k < m)
    BY <2>2, <2>3 DEF OpToRel
  <2> QED BY <2>2, <2>4
<1> QED BY <1>2, <1>3

LEMMA FirstFreeIsFree ==
  ASSUME FreeSlots # {}
  PROVE  FirstFree \in Slots /\ slot[FirstFree] = None
<1>1. FreeSlots \in SUBSET Slots
  BY DEF FreeSlots
<1>2. \E i \in FreeSlots : \A j \in FreeSlots : i <= j
  BY <1>1, PlacesFinite
<1>3. FirstFree \in FreeSlots
  BY <1>2 DEF FirstFree
<1> QED BY <1>3 DEF FreeSlots

LEMMA NextFlaggedIsFirst ==
  ASSUME Flagged # {}
  PROVE  NextFlagged \in Flagged /\ \A j \in Flagged : NextFlagged <= j
<1>1. Flagged \in SUBSET Slots
  BY DEF Flagged
<1>2. \E i \in Flagged : \A j \in Flagged : i <= j
  BY <1>1, PlacesFinite
<1> QED BY <1>2 DEF NextFlagged

LEMMA OnlineFinite ==
  ASSUME TypeOK
  PROVE  Online \subseteq Clients /\ IsFiniteSet(Online) /\ Cardinality(Online) \in Nat
<1>1. Online \subseteq Clients
  BY DEF TypeOK, Online
<1> QED BY <1>1, Constants, FS_Subset, FS_CardinalityType

\* broadcast() reaches everybody who is online but the one left out.
LEMMA ListenersAreOnline ==
  ASSUME TypeOK, Served, NEW e
  PROVE  Listeners(e) = Online \ {e}
<1>1. 1..maxIndex \subseteq Slots
  BY Constants DEF TypeOK, Slots
<1>2. \A i \in Slots : slot[i] # None => i \in 1..maxIndex
  BY Constants DEF TypeOK, Served, Slots
<1> QED BY <1>1, <1>2 DEF Listeners, Online

\* Sending opens no connection and ends none.
LEMMA WrittenKeeps ==
  ASSUME TypeOK, NEW S
  PROVE  /\ Written(S) \in [Clients -> ConnStates]
         /\ \A d \in Clients : /\ Written(S)[d] = "open" <=> conn[d] = "open"
                               /\ Written(S)[d] \in {"free", "lost"} <=> conn[d] \in {"free", "lost"}
<1>1. \A d \in Clients : conn[d] \in ConnStates
  BY DEF TypeOK
<1>2. Written(S) = [d \in Clients |-> Written(S)[d]]
  BY DEF Written
<1>3. ASSUME NEW d \in Clients
      PROVE  /\ Written(S)[d] \in ConnStates
             /\ Written(S)[d] = "open" <=> conn[d] = "open"
             /\ Written(S)[d] \in {"free", "lost"} <=> conn[d] \in {"free", "lost"}
  <2>1. CASE d \in S /\ conn[d] = "closed"
    BY <2>1 DEF Written, ConnStates
  <2>2. CASE d \in S /\ conn[d] = "reset"
    BY <2>2 DEF Written, ConnStates
  <2>3. CASE ~(d \in S /\ conn[d] = "closed") /\ ~(d \in S /\ conn[d] = "reset")
    <3>1. Written(S)[d] = conn[d]
      BY <2>3 DEF Written
    <3> QED BY <1>1, <3>1
  <2> QED BY <2>1, <2>2, <2>3
<1> QED BY <1>2, <1>3

\* A flagged place holds a client that is online.
LEMMA NextIsOnline ==
  ASSUME TypeOK, Flagged # {}
  PROVE  /\ NextFlagged \in Slots /\ NextFlagged <= maxIndex
         /\ slot[NextFlagged] \in Clients /\ slot[NextFlagged] \in Online
BY NextFlaggedIsFirst DEF Flagged, TypeOK, Online

-----------------------------------------------------------------------------
(* The counter of a round.                                                 *)

\* What clients do leaves the round as it is.
LEMMA RoundKept ==
  ASSUME TypeOK, Round, UNCHANGED <<revents, nready, cursor, phase, slot, maxIndex>>,
         \A d \in Online : Readable(d) => Readable(d)'
  PROVE  Round'
<1>1. Flagged' = Flagged /\ \A top : FlaggedTo(top)' = FlaggedTo(top)
  BY DEF Flagged, FlaggedTo
<1>2. \A i \in Slots : slot[i] # None /\ Readable(slot[i]) => Readable(slot[i])'
  BY DEF Online
<1>3. \A top : \A i \in FlaggedTo(top) : i \in Slots /\ slot[i] # None
  BY DEF FlaggedTo, Flagged
<1>4. phase' = "accept" =>
        /\ nready' = Cardinality(Flagged') + 1
        /\ \A i \in Slots : i <= maxIndex' /\ revents'[i] => slot'[i] # None /\ Readable(slot[i])'
  BY <1>1, <1>2 DEF Round, Readable
<1>5. ASSUME phase' = "read"
      PROVE  /\ nready' > 0
             /\ \E top \in 0..MaxSlots :
                  /\ nready' = Cardinality(FlaggedTo(top)')
                  /\ \A i \in FlaggedTo(top)' : Readable(slot[i])'
  <2>1. PICK top \in 0..MaxSlots : /\ nready = Cardinality(FlaggedTo(top))
                                   /\ \A i \in FlaggedTo(top) : Readable(slot[i])
    BY <1>5 DEF Round
  <2>2. \A i \in FlaggedTo(top)' : Readable(slot[i])'
    BY <1>1, <1>2, <1>3, <2>1 DEF Readable
  <2> QED BY <1>1, <1>5, <2>1, <2>2 DEF Round
<1> QED BY <1>4, <1>5 DEF Round

\* accept() hands the rest of the round to the loop that reads.
LEMMA RoundAfterAccept ==
  ASSUME TypeOK, Round, phase = "accept", AfterAccept, UNCHANGED <<revents, cursor>>,
         maxIndex' \in Nat, maxIndex' >= maxIndex,
         \A i \in Slots : slot[i] # None => slot'[i] = slot[i],
         \A d \in Online : Readable(d) => Readable(d)'
  PROVE  /\ Round'
         /\ nready' \in Nat /\ phase' \in {"poll", "read"}
<1>1. /\ nready = Cardinality(Flagged) + 1 /\ cursor = 1
      /\ \A i \in Slots : i <= maxIndex /\ revents[i] => slot[i] # None /\ Readable(slot[i])
  BY DEF Round
<1>2. Flagged \in SUBSET Slots
  BY DEF Flagged
<1>3. Cardinality(Flagged) \in Nat
  BY <1>2, PlacesFinite
<1>4. nready' = Cardinality(Flagged) /\ phase' = IF nready' <= 0 THEN "poll" ELSE "read"
  BY <1>1, <1>3 DEF AfterAccept
<1>5. maxIndex \in 0..MaxSlots
  BY DEF TypeOK
<1>6. FlaggedTo(maxIndex)' = {i \in Flagged' : i <= maxIndex'}
  BY DEF FlaggedTo
<1>7. {i \in Flagged' : i <= maxIndex} = Flagged
  BY <1>1, <1>5, Constants DEF Flagged, Slots
<1>8. \A i \in Flagged : Readable(slot[i])'
  BY <1>1 DEF Flagged, Online, Readable
<1>9. phase' = "read" =>
        /\ nready' > 0
        /\ \E top \in 0..MaxSlots :
             /\ nready' = Cardinality({i \in Flagged' : i <= top})
             /\ \A i \in {j \in Flagged' : j <= top} : Readable(slot[i])'
  <2> HAVE phase' = "read"
  <2> DEFINE S(t) == {i \in Flagged' : i <= t}
  <2>1. nready' = Cardinality(S(maxIndex)) /\ \A i \in S(maxIndex) : Readable(slot[i])'
    BY <1>4, <1>7, <1>8
  <2>2. nready' > 0
    BY <1>3, <1>4
  <2> HIDE DEF S
  <2>3. \E top \in 0..MaxSlots : nready' = Cardinality(S(top)) /\ \A i \in S(top) : Readable(slot[i])'
    BY <1>5, <2>1
  <2> QED BY <2>2, <2>3 DEF S
<1> QED BY <1>1, <1>3, <1>4, <1>9 DEF Round, FlaggedTo

\* A read takes the first flagged place out of the round.
LEMMA RoundAfterRead ==
  ASSUME TypeOK, Round, phase = "read", AfterRead, UNCHANGED <<revents, maxIndex>>, Flagged # {},
         \A i \in Slots \ {NextFlagged} : slot'[i] = slot[i],
         \A d \in Online \ {slot[NextFlagged]} : Readable(d) => Readable(d)',
         \A i \in Slots \ {NextFlagged} : slot[i] # slot[NextFlagged]
  PROVE  /\ Round'
         /\ nready' \in Nat /\ phase' \in {"poll", "read"} /\ cursor' \in 1..MaxSlots + 1
<1> DEFINE n == NextFlagged
<1>1. n \in Flagged /\ \A j \in Flagged : n <= j
  BY NextFlaggedIsFirst
<1>2. n \in Slots /\ n >= cursor /\ cursor \in 1..MaxSlots + 1 /\ nready \in Nat /\ nready > 0
  BY <1>1 DEF Flagged, TypeOK, Round
<1>3. PICK top \in 0..MaxSlots : /\ nready = Cardinality(FlaggedTo(top))
                                 /\ \A i \in FlaggedTo(top) : Readable(slot[i])
  BY DEF Round
<1>4. FlaggedTo(top) \in SUBSET Slots /\ FlaggedTo(top) \subseteq Flagged
  BY DEF FlaggedTo, Flagged
<1>5. n \in FlaggedTo(top)
  <2>1. FlaggedTo(top) # {}
    BY <1>2, <1>3, FS_EmptySet
  <2>2. PICK k \in FlaggedTo(top) : TRUE
    BY <2>1
  <2>3. k \in Flagged /\ k <= top /\ n <= k
    BY <1>1, <2>2 DEF FlaggedTo
  <2> QED BY <1>1, <1>2, <2>3, <1>4, Constants DEF FlaggedTo, Slots
<1>6. Cardinality(FlaggedTo(top) \ {n}) = nready - 1
  BY <1>3, <1>4, <1>5, PlacesFinite, FS_RemoveElement
<1>7. /\ nready' = nready - 1
      /\ phase' = IF nready' <= 0 THEN "poll" ELSE "read"
      /\ cursor' = IF nready' <= 0 THEN 1 ELSE n + 1
  BY DEF AfterRead
<1>8. ASSUME phase' = "read"
      PROVE  {i \in Flagged' : i <= top} = FlaggedTo(top) \ {n}
  <2>1. cursor' = n + 1
    BY <1>7, <1>8
  <2> QED BY <1>1, <1>2, <2>1, Constants DEF Flagged, FlaggedTo, Slots
<1>9. \A i \in FlaggedTo(top) \ {n} : Readable(slot[i])'
  <2> TAKE i \in FlaggedTo(top) \ {n}
  <2>1. i \in Slots /\ slot[i] # None /\ slot[i] # slot[n] /\ slot'[i] = slot[i] /\ Readable(slot[i])
    BY <1>3, <1>4 DEF Flagged
  <2>2. slot[i] \in Online \ {slot[n]}
    BY <2>1 DEF Online
  <2> QED BY <2>1, <2>2 DEF Readable
<1>10. phase' = "read" =>
        /\ nready' > 0
        /\ \E t \in 0..MaxSlots :
             /\ nready' = Cardinality({i \in Flagged' : i <= t})
             /\ \A i \in {j \in Flagged' : j <= t} : Readable(slot[i])'
  <2> HAVE phase' = "read"
  <2> DEFINE S(t) == {i \in Flagged' : i <= t}
  <2>1. nready' = Cardinality(S(top)) /\ \A i \in S(top) : Readable(slot[i])'
    BY <1>6, <1>7, <1>8, <1>9
  <2>2. nready' > 0
    BY <1>2, <1>7
  <2> HIDE DEF S
  <2>3. \E t \in 0..MaxSlots : nready' = Cardinality(S(t)) /\ \A i \in S(t) : Readable(slot[i])'
    BY <2>1
  <2> QED BY <2>2, <2>3 DEF S
<1>11. cursor' \in 1..MaxSlots + 1
  BY <1>2, <1>7, Constants DEF Slots
<1>12. phase' = "poll" => cursor' = 1
  BY <1>2, <1>7
<1> QED BY <1>2, <1>7, <1>10, <1>11, <1>12 DEF Round, FlaggedTo

-----------------------------------------------------------------------------
(* The steps.                                                              *)

LEMMA InitHolds == Init => IInv
<1> SUFFICES ASSUME Init PROVE IInv
  OBVIOUS
<1>1. TypeOK
  BY Constants DEF Init, TypeOK, ConnStates, Slots
<1>2. Online = {} /\ Cardinality(Online) = 0
  BY FS_EmptySet DEF Init, Online
<1>3. Served /\ CountsAgree
  BY <1>2, Constants DEF Init, Served, CountsAgree
<1>4. Round
  BY DEF Init, Round
<1> QED BY <1>1, <1>3, <1>4 DEF IInv

\* A read after which all users, and who sees what, are as before.
LEMMA OtherRead ==
  ASSUME IInv, phase = "read", Flagged # {}, AfterRead,
         UNCHANGED <<slot, maxIndex, total, view, revents, queue, ghosts>>,
         pending' \in [Clients -> Requests \cup {None}],
         \A d \in Clients \ {slot[NextFlagged]} : pending'[d] = pending[d],
         conn' \in [Clients -> ConnStates],
         \A d \in Clients : /\ conn'[d] = "open" <=> conn[d] = "open"
                            /\ conn'[d] \in {"free", "lost"} <=> conn[d] \in {"free", "lost"},
         knows' \in [Clients -> SUBSET Clients]
  PROVE  IInv'
<1>1. /\ NextFlagged \in Slots /\ slot[NextFlagged] \in Clients
      /\ \A i \in Slots \ {NextFlagged} : slot[i] # slot[NextFlagged]
  BY NextIsOnline, Constants DEF IInv, Served
<1>2. \A d \in Online \ {slot[NextFlagged]} : Readable(d) => Readable(d)'
  BY OnlineFinite DEF IInv, Readable
<1>3. Round' /\ nready' \in Nat /\ phase' \in {"poll", "read"} /\ cursor' \in 1..MaxSlots + 1
  BY <1>1, <1>2, RoundAfterRead DEF IInv
<1>4. TypeOK'
  BY <1>3 DEF IInv, TypeOK
<1>5. Online' = Online
  BY DEF Online
<1>6. Served'
  BY <1>5 DEF IInv, Served, TypeOK
<1>7. CountsAgree'
  BY <1>5, OnlineFinite DEF IInv, CountsAgree, Sees
<1> QED BY <1>3, <1>4, <1>6, <1>7 DEF IInv

LEMMA ReadHolds == IInv /\ Read => IInv'
<1> SUFFICES ASSUME IInv, Read PROVE IInv'
  OBVIOUS
<1> DEFINE c == slot[NextFlagged]
<1>1. /\ phase = "read" /\ Flagged # {} /\ UNCHANGED <<revents, queue, ghosts>>
      /\ ReadEnd(c) \/ ReadSay(c) \/ ReadName(c) \/ ReadWho(c) \/ ReadBad(c)
  BY DEF Read
<1>2. NextFlagged \in Slots /\ NextFlagged <= maxIndex /\ c \in Clients /\ c \in Online /\ c # None
  BY <1>1, NextIsOnline, Constants DEF IInv
<1>3. \A i \in Slots \ {NextFlagged} : slot[i] # c
  BY <1>2 DEF IInv, Served
<1>4. CASE ReadEnd(c)
  <2>1. /\ slot' = [slot EXCEPT ![NextFlagged] = None] /\ total' = total - 1
        /\ conn' = [Written(Listeners(c)) EXCEPT ![c] = "free"]
        /\ TellLeft(Listeners(c), c) /\ AfterRead /\ UNCHANGED <<maxIndex, pending>>
    BY <1>4 DEF ReadEnd
  <2>2. \A d \in Clients \ {c} : /\ conn'[d] = "open" <=> conn[d] = "open"
                                 /\ conn'[d] \in {"free", "lost"} <=> conn[d] \in {"free", "lost"}
    BY <2>1, WrittenKeeps DEF IInv
  <2>3. conn' \in [Clients -> ConnStates] /\ conn'[c] = "free"
    BY <1>2, <2>1, WrittenKeeps DEF IInv, ConnStates
  <2>4. \A d \in Online \ {c} : Readable(d) => Readable(d)'
    BY <2>1, <2>2, OnlineFinite DEF IInv, Readable
  <2>5. \A i \in Slots \ {NextFlagged} : slot'[i] = slot[i]
    BY <2>1 DEF IInv, TypeOK
  <2>6. Round' /\ nready' \in Nat /\ phase' \in {"poll", "read"} /\ cursor' \in 1..MaxSlots + 1
    BY <1>1, <1>3, <2>1, <2>4, <2>5, RoundAfterRead DEF IInv
  <2>7. Online' = Online \ {c}
    BY <1>2, <1>3, <2>1, <2>5 DEF Online, IInv, TypeOK
  <2>8. Cardinality(Online') = Cardinality(Online) - 1
    BY <1>2, <2>7, OnlineFinite, FS_RemoveElement DEF IInv
  <2>9. total' \in Nat /\ total' = Cardinality(Online') + ghosts
    <3>1. Cardinality(Online) \in Nat /\ Cardinality(Online) # 0
      BY <1>2, OnlineFinite, FS_EmptySet DEF IInv
    <3> QED BY <2>1, <2>8, <3>1 DEF IInv, CountsAgree, TypeOK
  <2>10. Listeners(c) = Online \ {c}
    BY ListenersAreOnline DEF IInv
  <2>11. TypeOK'
    <3>1. slot' \in [Slots -> Clients \cup {None}]
      BY <2>1 DEF IInv, TypeOK
    <3>2. view' \in [Clients -> Int] /\ knows' \in [Clients -> SUBSET Clients]
      BY <2>1 DEF IInv, TypeOK, TellLeft
    <3> QED BY <1>1, <2>1, <2>3, <2>6, <2>9, <3>1, <3>2 DEF IInv, TypeOK
  <2>12. Served'
    BY <1>1, <1>2, <1>3, <2>1, <2>2, <2>3, <2>5, <2>7, Constants DEF IInv, Served, TypeOK
  <2>13. CountsAgree'
    <3>1. ASSUME NEW d \in Online', conn'[d] = "open" PROVE view'[d] = total'
      <4>1. d \in Clients /\ d \in Listeners(c) /\ conn[d] = "open" /\ view[d] = total
        BY <2>2, <2>7, <2>10, <3>1, OnlineFinite DEF IInv, CountsAgree, Sees
      <4> QED BY <2>1, <4>1 DEF TellLeft, Sees
    <3> QED BY <1>1, <2>9, <3>1 DEF CountsAgree, Sees
  <2> QED BY <2>6, <2>11, <2>12, <2>13 DEF IInv
<1>5. CASE ReadSay(c)
  <2>1. AfterRead /\ UNCHANGED <<slot, maxIndex, total, view, knows>>
    BY <1>5 DEF ReadSay, userVars, screenVars
  <2>2. /\ pending' \in [Clients -> Requests \cup {None}]
        /\ \A d \in Clients \ {c} : pending'[d] = pending[d]
    BY <1>2, <1>5 DEF ReadSay, IInv, TypeOK
  <2>3. /\ conn' \in [Clients -> ConnStates]
        /\ \A d \in Clients : /\ conn'[d] = "open" <=> conn[d] = "open"
                              /\ conn'[d] \in {"free", "lost"} <=> conn[d] \in {"free", "lost"}
    <3>1. CASE conn' = Written(Listeners(c))
      BY <3>1, WrittenKeeps DEF IInv
    <3>2. CASE conn[c] = "reset" /\ conn' = [Written(Listeners(c)) EXCEPT ![c] = "shut"]
      BY <1>2, <3>2, WrittenKeeps DEF IInv, ConnStates
    <3> QED BY <1>5, <3>1, <3>2 DEF ReadSay
  <2>4. knows' \in [Clients -> SUBSET Clients]
    BY <2>1 DEF IInv, TypeOK
  <2> QED BY <1>1, <2>1, <2>2, <2>3, <2>4, OtherRead
<1>6. CASE ReadName(c)
  <2>1. /\ AfterRead /\ UNCHANGED <<slot, maxIndex, total>>
        /\ pending' = [pending EXCEPT ![c] = None]
        /\ conn' = Written(Listeners(c) \cup {c}) /\ TellName(Listeners(c) \cup {c}, c)
    BY <1>6 DEF ReadName, userVars
  <2>2. /\ pending' \in [Clients -> Requests \cup {None}]
        /\ \A d \in Clients \ {c} : pending'[d] = pending[d]
    BY <1>2, <2>1 DEF IInv, TypeOK
  <2>3. knows' \in [Clients -> SUBSET Clients] /\ view' = view
    BY <1>2, <2>1 DEF IInv, TypeOK, TellName
  <2> QED BY <1>1, <2>1, <2>2, <2>3, WrittenKeeps, OtherRead DEF IInv
<1>7. CASE ReadWho(c)
  <2>1. /\ UNCHANGED <<slot, maxIndex, total, view>>
        /\ pending' = [pending EXCEPT ![c] = None]
    BY <1>7 DEF ReadWho, userVars
  <2>2. /\ pending' \in [Clients -> Requests \cup {None}]
        /\ \A d \in Clients \ {c} : pending'[d] = pending[d]
    BY <1>2, <2>1 DEF IInv, TypeOK
  <2>3. CASE conn[c] \in {"broken", "shut"}
    <3>1. phase' = "dead" /\ UNCHANGED <<conn, knows, nready, cursor>>
      BY <1>7, <2>3 DEF ReadWho
    <3>2. TypeOK'
      BY <1>1, <2>1, <2>2, <3>1 DEF IInv, TypeOK
    <3>3. Online' = Online
      BY <2>1 DEF Online
    <3>4. Served' /\ CountsAgree'
      BY <1>1, <2>1, <3>1, <3>3 DEF IInv, Served, CountsAgree, Sees
    <3>5. Round'
      BY <3>1 DEF Round
    <3> QED BY <3>2, <3>4, <3>5 DEF IInv
  <2>4. CASE conn[c] \notin {"broken", "shut"}
    <3>1. /\ AfterRead /\ conn' = Written({c})
          /\ knows' = IF Sees(c) THEN [knows EXCEPT ![c] = Listeners(None)] ELSE knows
      BY <1>7, <2>4 DEF ReadWho
    <3>2. Listeners(None) \subseteq Clients
      BY ListenersAreOnline, OnlineFinite DEF IInv
    <3>3. knows' \in [Clients -> SUBSET Clients]
      BY <3>1, <3>2 DEF IInv, TypeOK
    <3> QED BY <1>1, <2>1, <2>2, <3>1, <3>3, WrittenKeeps, OtherRead DEF IInv
  <2> QED BY <2>3, <2>4
<1>8. CASE ReadBad(c)
  <2>1. /\ AfterRead /\ UNCHANGED <<slot, maxIndex, total, view, knows>>
        /\ pending' = [pending EXCEPT ![c] = None] /\ conn' = Written({c})
    BY <1>8 DEF ReadBad, userVars, screenVars
  <2>2. /\ pending' \in [Clients -> Requests \cup {None}]
        /\ \A d \in Clients \ {c} : pending'[d] = pending[d]
        /\ knows' \in [Clients -> SUBSET Clients]
    BY <1>2, <2>1 DEF IInv, TypeOK
  <2> QED BY <1>1, <2>1, <2>2, WrittenKeeps, OtherRead DEF IInv
<1> QED BY <1>1, <1>4, <1>5, <1>6, <1>7, <1>8

LEMMA PollHolds == IInv /\ Poll => IInv'
<1> SUFFICES ASSUME IInv, Poll PROVE IInv'
  OBVIOUS
<1> DEFINE ready == {i \in 1..maxIndex : slot[i] # None /\ Readable(slot[i])}
           new == IF queue # {} THEN 1 ELSE 0
<1>1. /\ phase = "poll" /\ cursor = 1
      /\ nready' = Cardinality(ready) + new /\ nready' > 0
      /\ revents' = [i \in Slots |-> IF i <= maxIndex THEN i \in ready ELSE revents[i]]
      /\ phase' = IF queue # {} THEN "accept" ELSE "read"
      /\ UNCHANGED <<cursor, slot, maxIndex, total, conn, pending, queue, view, knows, ghosts>>
  BY DEF Poll, userVars, peerVars, screenVars, IInv, Round
<1>2. maxIndex \in 0..MaxSlots /\ ready \in SUBSET Slots
  BY Constants DEF IInv, TypeOK, Slots
<1>3. Cardinality(ready) \in Nat
  BY <1>2, PlacesFinite
<1>4. TypeOK'
  <2>1. revents' \in [Slots -> BOOLEAN]
    <3> HIDE DEF ready
    <3>1. ASSUME NEW i \in Slots PROVE (IF i <= maxIndex THEN i \in ready ELSE revents[i]) \in BOOLEAN
      <4>1. revents[i] \in BOOLEAN
        BY DEF IInv, TypeOK
      <4>2. (i \in ready) \in BOOLEAN
        OBVIOUS
      <4> QED BY <4>1, <4>2
    <3> QED BY <1>1, <3>1
  <2>2. nready' \in Nat /\ phase' \in {"accept", "read"}
    BY <1>1, <1>3
  <2> QED BY <1>1, <2>1, <2>2 DEF IInv, TypeOK
<1>5. Online' = Online
  BY <1>1 DEF Online
<1>6. Served' /\ CountsAgree'
  BY <1>1, <1>5 DEF IInv, Served, CountsAgree, Sees
<1>7. \A i \in Slots : i <= maxIndex => (revents'[i] <=> slot[i] # None /\ Readable(slot[i]))
  <2> TAKE i \in Slots
  <2> HAVE i <= maxIndex
  <2>1. revents'[i] <=> i \in ready
    <3> HIDE DEF ready
    <3> QED BY <1>1
  <2>2. i \in 1..maxIndex
    BY <1>2, Constants DEF Slots
  <2> QED BY <2>1, <2>2
<1>8. Flagged' = ready
  BY <1>1, <1>2, <1>7, Constants DEF Flagged, Slots
<1>9. \A i \in Slots : Readable(slot[i])' <=> Readable(slot[i])
  BY <1>1 DEF Readable
<1>10. Round'
  <2>1. CASE queue # {}
    BY <1>1, <1>7, <1>8, <1>9, <2>1 DEF Round
  <2>2. CASE queue = {}
    <3>1. phase' = "read" /\ nready' = Cardinality(ready)
      BY <1>1, <1>3, <2>2
    <3>2. FlaggedTo(maxIndex)' = ready
      BY <1>1, <1>2, <1>8 DEF FlaggedTo
    <3> DEFINE S(t) == {i \in Flagged' : i <= t}
    <3>3. nready' = Cardinality(S(maxIndex)) /\ \A i \in S(maxIndex) : Readable(slot[i])'
      BY <1>1, <1>2, <1>8, <1>9, <3>1, <3>2 DEF FlaggedTo
    <3> HIDE DEF S
    <3>4. \E t \in 0..MaxSlots : nready' = Cardinality(S(t)) /\ \A i \in S(t) : Readable(slot[i])'
      BY <1>2, <3>3
    <3> QED BY <1>1, <3>1, <3>4 DEF S, Round, FlaggedTo
  <2> QED BY <2>1, <2>2
<1> QED BY <1>4, <1>6, <1>10 DEF IInv

LEMMA AcceptHolds ==
  ASSUME NEW c \in queue
  PROVE  IInv /\ Accept(c) => IInv'
<1> SUFFICES ASSUME IInv, Accept(c) PROVE IInv'
  OBVIOUS
<1> DEFINE f == FirstFree
           others == {slot'[i] : i \in 1..maxIndex'} \ {None, c}
<1>1. /\ phase = "accept" /\ FreeSlots # {}
      /\ slot' = [slot EXCEPT ![f] = c]
      /\ maxIndex' = AtLeast(f) /\ total' = total + 1
      /\ conn' = Written(others \cup {c})
      /\ view' = [d \in Clients |->
           IF ~Sees(d) THEN view[d] ELSE IF d = c THEN total' ELSE IF d \in others THEN view[d] + 1 ELSE view[d]]
      /\ knows' = [d \in Clients |-> IF Sees(d) /\ d \in others \cup {c} THEN knows[d] \cup {c} ELSE knows[d]]
      /\ queue' = queue \ {c}
      /\ AfterAccept /\ UNCHANGED <<pending, revents, cursor, ghosts>>
  BY DEF Accept
<1>2. f \in Slots /\ slot[f] = None
  BY <1>1, FirstFreeIsFree
<1>3. /\ c \in Clients /\ c # None /\ c \notin Online
      /\ conn[c] \notin {"free", "lost"} /\ maxIndex \in 0..MaxSlots /\ total \in Nat
  BY Constants DEF IInv, TypeOK, Served
<1>4. maxIndex' \in 0..MaxSlots /\ maxIndex' >= maxIndex /\ f <= maxIndex'
  BY <1>1, <1>2, <1>3, Constants DEF AtLeast, Slots
<1>5. slot'[f] = c /\ \A i \in Slots \ {f} : slot'[i] = slot[i]
  BY <1>1, <1>2 DEF IInv, TypeOK
<1>6. slot' \in [Slots -> Clients \cup {None}]
  BY <1>1, <1>3 DEF IInv, TypeOK
<1>7. others = Online
  <2>1. 1..maxIndex' \subseteq Slots
    BY <1>4, Constants DEF Slots
  <2>2. \A i \in Slots : slot[i] # None => i \in 1..maxIndex' /\ i # f
    BY <1>2, <1>3, <1>4, Constants DEF IInv, Served, Slots
  <2> QED BY <1>3, <1>5, <2>1, <2>2 DEF Online
<1>8. Online' = Online \cup {c}
  BY <1>2, <1>3, <1>5 DEF Online
<1>9. Cardinality(Online') = Cardinality(Online) + 1
  BY <1>3, <1>8, OnlineFinite, FS_AddElement DEF IInv
<1>10. \A d \in Clients : /\ conn'[d] = "open" <=> conn[d] = "open"
                          /\ conn'[d] \in {"free", "lost"} <=> conn[d] \in {"free", "lost"}
  BY <1>1, WrittenKeeps DEF IInv
<1>11. conn' \in [Clients -> ConnStates]
  BY <1>1, WrittenKeeps DEF IInv
<1>12. \A d \in Online : Readable(d) => Readable(d)'
  BY <1>1, <1>10, OnlineFinite DEF IInv, Readable
<1>13. Round' /\ nready' \in Nat /\ phase' \in {"poll", "read"}
  <2>1. \A i \in Slots : slot[i] # None => slot'[i] = slot[i]
    BY <1>2, <1>5
  <2>2. maxIndex' \in Nat
    BY <1>4, Constants
  <2> QED BY <1>1, <1>4, <1>12, <2>1, <2>2, RoundAfterAccept DEF IInv
<1>14. TypeOK'
  <2>1. view' \in [Clients -> Int] /\ total' \in Nat
    BY <1>1, <1>3 DEF IInv, TypeOK
  <2>2. knows' \in [Clients -> SUBSET Clients]
    BY <1>1, <1>3 DEF IInv, TypeOK
  <2> QED BY <1>1, <1>4, <1>6, <1>11, <1>13, <2>1, <2>2 DEF IInv, TypeOK
<1>15. Served'
  <2>1. \A i, j \in Slots : slot'[i] = slot'[j] /\ slot'[i] # None => i = j
    BY <1>2, <1>3, <1>5 DEF IInv, Served, Online
  <2>2. \A i \in Slots : slot'[i] # None => i <= maxIndex' /\ conn'[slot'[i]] \notin {"free", "lost"}
    <3> TAKE i \in Slots
    <3>1. CASE i = f
      BY <1>3, <1>4, <1>5, <1>10, <3>1
    <3>2. CASE i # f /\ slot[i] # None
      <4>1. slot'[i] = slot[i] /\ slot[i] \in Clients /\ i <= maxIndex /\ conn[slot[i]] \notin {"free", "lost"}
        BY <1>5, <3>2 DEF IInv, Served, TypeOK
      <4>2. i <= maxIndex'
        BY <1>3, <1>4, <4>1, Constants DEF Slots
      <4> QED BY <1>10, <4>1, <4>2
    <3> QED BY <1>5, <3>1, <3>2
  <2>3. \A d \in queue' : conn'[d] \notin {"free", "lost"} /\ d \notin Online'
    BY <1>1, <1>8, <1>10 DEF IInv, Served, TypeOK
  <2> QED BY <2>1, <2>2, <2>3 DEF Served
<1>16. CountsAgree'
  <2>1. total' = Cardinality(Online') + ghosts'
    BY <1>1, <1>9, OnlineFinite DEF IInv, CountsAgree, TypeOK
  <2>2. ASSUME NEW d \in Online', conn'[d] = "open" PROVE view'[d] = total'
    <3>1. d \in Clients /\ conn[d] = "open" /\ (d = c \/ d \in Online)
      BY <1>3, <1>8, <1>10, <2>2, OnlineFinite DEF IInv
    <3>2. d # c => view[d] = total
      BY <3>1 DEF IInv, CountsAgree, Sees
    <3> QED BY <1>1, <1>7, <3>1, <3>2 DEF Sees
  <2> QED BY <2>1, <2>2 DEF CountsAgree, Sees
<1> QED BY <1>13, <1>14, <1>15, <1>16 DEF IInv

LEMMA AcceptNoPlaceHolds ==
  ASSUME NEW c \in queue
  PROVE  IInv /\ AcceptNoPlace(c) => IInv'
<1> SUFFICES ASSUME IInv, AcceptNoPlace(c) PROVE IInv'
  OBVIOUS
<1>1. /\ phase = "accept" /\ queue' = queue \ {c}
      /\ conn' = [conn EXCEPT ![c] = "lost"] /\ pending' = [pending EXCEPT ![c] = None]
      /\ AfterAccept
      /\ UNCHANGED <<slot, maxIndex, total, view, knows, revents, cursor, ghosts>>
  BY DEF AcceptNoPlace, userVars, screenVars
<1>2. c \in Clients /\ c \notin Online /\ maxIndex \in Nat
  BY Constants DEF IInv, TypeOK, Served
<1>3. \A d \in Clients \ {c} : conn'[d] = conn[d] /\ pending'[d] = pending[d]
  BY <1>1 DEF IInv, TypeOK
<1>4. \A d \in Online : Readable(d) => Readable(d)'
  BY <1>2, <1>3, OnlineFinite DEF IInv, Readable
<1>5. Round' /\ nready' \in Nat /\ phase' \in {"poll", "read"}
  BY <1>1, <1>2, <1>4, RoundAfterAccept DEF IInv
<1>6. TypeOK'
  BY <1>1, <1>5 DEF IInv, TypeOK, ConnStates
<1>7. Online' = Online
  BY <1>1 DEF Online
<1>8. \A i \in Slots : slot[i] # None => slot[i] \in Clients \ {c}
  BY <1>2 DEF IInv, TypeOK, Online
<1>9. Served'
  BY <1>1, <1>3, <1>7, <1>8 DEF IInv, Served, TypeOK
<1>10. CountsAgree'
  BY <1>1, <1>2, <1>3, <1>7, OnlineFinite DEF IInv, CountsAgree, Sees
<1> QED BY <1>5, <1>6, <1>9, <1>10 DEF IInv

LEMMA AcceptFailsNoPlaceHolds == IInv /\ AcceptFailsNoPlace => IInv'
<1> SUFFICES ASSUME IInv, AcceptFailsNoPlace PROVE IInv'
  OBVIOUS
<1>1. /\ phase = "accept" /\ AfterAccept
      /\ UNCHANGED <<slot, maxIndex, total, conn, pending, queue, view, knows, revents, cursor, ghosts>>
  BY DEF AcceptFailsNoPlace, userVars, peerVars, screenVars
<1>2. maxIndex \in Nat /\ \A d \in Online : Readable(d) => Readable(d)'
  BY <1>1, Constants DEF IInv, TypeOK, Readable
<1>3. Round' /\ nready' \in Nat /\ phase' \in {"poll", "read"}
  BY <1>1, <1>2, RoundAfterAccept DEF IInv
<1>4. TypeOK'
  BY <1>1, <1>3 DEF IInv, TypeOK
<1>5. Online' = Online
  BY <1>1 DEF Online
<1>6. Served' /\ CountsAgree'
  BY <1>1, <1>5 DEF IInv, Served, CountsAgree, Sees
<1> QED BY <1>3, <1>4, <1>6 DEF IInv

LEMMA AcceptFailsHolds == IInv /\ AcceptFails => IInv'
<1> SUFFICES ASSUME IInv, AcceptFails PROVE IInv'
  OBVIOUS
<1> DEFINE others == {slot[i] : i \in 1..maxIndex'} \ {None}
<1>1. /\ phase = "accept" /\ FreeSlots # {} /\ ghosts < MaxGhosts /\ ghosts' = ghosts + 1
      /\ maxIndex' = AtLeast(FirstFree) /\ total' = total + 1
      /\ conn' = Written(others)
      /\ view' = [d \in Clients |-> IF Sees(d) /\ d \in others THEN view[d] + 1 ELSE view[d]]
      /\ AfterAccept /\ UNCHANGED <<slot, knows, pending, queue, revents, cursor>>
  BY DEF AcceptFails
<1>2. maxIndex \in 0..MaxSlots /\ total \in Nat /\ ghosts \in 0..MaxGhosts
  BY DEF IInv, TypeOK
<1>3. maxIndex' \in 0..MaxSlots /\ maxIndex' \in Nat /\ maxIndex' >= maxIndex
  BY <1>1, <1>2, FirstFreeIsFree, Constants DEF AtLeast, Slots
<1>4. others = Online
  <2>1. 1..maxIndex' \subseteq Slots
    BY <1>3, Constants DEF Slots
  <2>2. \A i \in Slots : slot[i] # None => i \in 1..maxIndex'
    BY <1>2, <1>3, Constants DEF IInv, Served, Slots
  <2> QED BY <2>1, <2>2 DEF Online
<1>5. Online' = Online
  BY <1>1 DEF Online
<1>6. \A d \in Clients : /\ conn'[d] = "open" <=> conn[d] = "open"
                         /\ conn'[d] \in {"free", "lost"} <=> conn[d] \in {"free", "lost"}
  BY <1>1, WrittenKeeps DEF IInv
<1>7. conn' \in [Clients -> ConnStates]
  BY <1>1, WrittenKeeps DEF IInv
<1>8. \A d \in Online : Readable(d) => Readable(d)'
  BY <1>1, <1>6, OnlineFinite DEF IInv, Readable
<1>9. Round' /\ nready' \in Nat /\ phase' \in {"poll", "read"}
  BY <1>1, <1>3, <1>8, RoundAfterAccept DEF IInv
<1>10. TypeOK'
  <2>1. view' \in [Clients -> Int] /\ total' \in Nat /\ ghosts' \in 0..MaxGhosts
    BY <1>1, <1>2, Constants DEF IInv, TypeOK
  <2> QED BY <1>1, <1>3, <1>7, <1>9, <2>1 DEF IInv, TypeOK
<1>11. Served'
  <2>1. \A i \in Slots : slot[i] # None => i <= maxIndex' /\ slot[i] \in Clients
    BY <1>2, <1>3, Constants DEF IInv, Served, TypeOK, Slots
  <2> QED BY <1>1, <1>5, <1>6, <2>1 DEF IInv, Served, TypeOK
<1>12. CountsAgree'
  <2>1. total' = Cardinality(Online') + ghosts'
    BY <1>1, <1>2, <1>5, OnlineFinite DEF IInv, CountsAgree
  <2>2. ASSUME NEW d \in Online', conn'[d] = "open" PROVE view'[d] = total'
    <3>1. d \in Clients /\ d \in Online /\ conn[d] = "open" /\ view[d] = total
      BY <1>5, <1>6, <2>2, OnlineFinite DEF IInv, CountsAgree, Sees
    <3> QED BY <1>1, <1>4, <3>1 DEF Sees
  <2> QED BY <2>1, <2>2 DEF CountsAgree, Sees
<1> QED BY <1>9, <1>10, <1>11, <1>12 DEF IInv

LEMMA PeerHolds ==
  ASSUME NEW c \in Clients
  PROVE  IInv /\ Peer(c) => IInv'
<1> SUFFICES ASSUME IInv, Peer(c) PROVE IInv'
  OBVIOUS
<1>1. UNCHANGED <<revents, nready, cursor, phase, slot, maxIndex, total, ghosts>>
  BY DEF Peer, Connect, Request, Leave, BreakDown, loopVars, userVars
<1>2. Online' = Online
  BY <1>1 DEF Online
<1>3. \A i \in Slots : slot[i] # None => slot[i] \in Online
  BY DEF Online
<1>4. CASE Connect(c)
  <2>1. /\ conn[c] = "free" /\ conn' = [conn EXCEPT ![c] = "open"] /\ queue' = queue \cup {c}
        /\ UNCHANGED <<pending, view, knows>>
    BY <1>4 DEF Connect, screenVars
  <2>2. c \notin Online
    BY <2>1 DEF Online, IInv, Served
  <2>3. conn'[c] = "open" /\ \A d \in Clients \ {c} : conn'[d] = conn[d]
    BY <2>1 DEF IInv, TypeOK
  <2>4. TypeOK'
    BY <1>1, <2>1 DEF IInv, TypeOK, ConnStates
  <2>5. \A d \in Online : conn'[d] = conn[d]
    BY <2>2, <2>3, OnlineFinite DEF IInv
  <2>6. Served'
    BY <1>1, <1>2, <1>3, <2>1, <2>2, <2>3, <2>5 DEF IInv, Served, TypeOK
  <2>7. CountsAgree'
    BY <1>1, <1>2, <2>1, <2>5 DEF IInv, CountsAgree, Sees
  <2>8. Round'
    BY <1>1, <2>1, <2>5, RoundKept DEF IInv, Readable
  <2> QED BY <2>4, <2>6, <2>7, <2>8 DEF IInv
<1>5. CASE Request(c)
  <2>1. PICK r \in Requests : pending' = [pending EXCEPT ![c] = r]
    BY <1>5 DEF Request
  <2>2. pending[c] = None /\ UNCHANGED <<conn, queue, view, knows>>
    BY <1>5 DEF Request, screenVars
  <2>3. TypeOK'
    BY <1>1, <2>1, <2>2 DEF IInv, TypeOK
  <2>4. Served' /\ CountsAgree'
    BY <1>1, <1>2, <2>2 DEF IInv, Served, CountsAgree, Sees
  <2>5. \A d \in Clients : Readable(d) => Readable(d)'
    BY <1>5, <2>1 DEF IInv, TypeOK, Readable, Request
  <2>6. Round'
    BY <1>1, <2>5, OnlineFinite, RoundKept DEF IInv
  <2> QED BY <2>3, <2>4, <2>6 DEF IInv
<1>6. CASE Leave(c)
  <2>1. PICK e \in {"closed", "reset"} : conn' = [conn EXCEPT ![c] = e]
    BY <1>6 DEF Leave
  <2>2. /\ conn[c] = "open" /\ view' = [view EXCEPT ![c] = 0] /\ knows' = [knows EXCEPT ![c] = {}]
        /\ UNCHANGED <<pending, queue>>
    BY <1>6 DEF Leave
  <2>3. conn'[c] = e /\ \A d \in Clients \ {c} : conn'[d] = conn[d] /\ view'[d] = view[d]
    BY <2>1, <2>2 DEF IInv, TypeOK
  <2>4. TypeOK'
    BY <1>1, <2>1, <2>2 DEF IInv, TypeOK, ConnStates
  <2>5. Served'
    <3>1. \A d \in Clients : conn[d] \notin {"free", "lost"} => conn'[d] \notin {"free", "lost"}
      BY <2>1, <2>3
    <3> QED BY <1>1, <1>2, <1>3, <2>2, <3>1, OnlineFinite DEF IInv, Served, TypeOK
  <2>6. CountsAgree'
    <3>1. ASSUME NEW d \in Online, conn'[d] = "open" PROVE view'[d] = total
      BY <2>1, <2>3, <3>1, OnlineFinite DEF IInv, CountsAgree, Sees
    <3> QED BY <1>1, <1>2, <3>1 DEF IInv, CountsAgree, Sees
  <2>7. \A d \in Online : Readable(d) => Readable(d)'
    BY <2>1, <2>2, <2>3, OnlineFinite DEF IInv, Readable
  <2>8. Round'
    BY <1>1, <2>7, RoundKept DEF IInv
  <2> QED BY <2>4, <2>5, <2>6, <2>8 DEF IInv
<1>7. CASE BreakDown(c)
  <2>1. /\ conn[c] = "written" /\ conn' = [conn EXCEPT ![c] = "broken"]
        /\ UNCHANGED <<pending, queue, view, knows>>
    BY <1>7 DEF BreakDown, screenVars
  <2>2. conn'[c] = "broken" /\ \A d \in Clients \ {c} : conn'[d] = conn[d]
    BY <2>1 DEF IInv, TypeOK
  <2>3. TypeOK'
    BY <1>1, <2>1 DEF IInv, TypeOK, ConnStates
  <2>4. \A d \in Clients : /\ conn[d] \notin {"free", "lost"} => conn'[d] \notin {"free", "lost"}
                           /\ conn'[d] = "open" => conn[d] = "open"
                           /\ conn[d] # "open" => conn'[d] # "open"
    BY <2>1, <2>2
  <2>5. Served'
    BY <1>1, <1>2, <1>3, <2>1, <2>4, OnlineFinite DEF IInv, Served, TypeOK
  <2>6. CountsAgree'
    BY <1>1, <1>2, <2>1, <2>4, OnlineFinite DEF IInv, CountsAgree, Sees
  <2>7. \A d \in Online : Readable(d) => Readable(d)'
    BY <2>1, <2>4, OnlineFinite DEF IInv, Readable
  <2>8. Round'
    BY <1>1, <2>7, RoundKept DEF IInv
  <2> QED BY <2>3, <2>5, <2>6, <2>8 DEF IInv
<1> QED BY <1>4, <1>5, <1>6, <1>7 DEF Peer

LEMMA StepHolds == IInv /\ [Next]_vars => IInv'
<1> SUFFICES ASSUME IInv, [Next]_vars PROVE IInv'
  OBVIOUS
<1>1. CASE UNCHANGED vars
  <2>1. UNCHANGED <<slot, revents, maxIndex, total, nready, cursor, phase, conn, pending, queue, view, knows, ghosts>>
    BY <1>1 DEF vars, loopVars, userVars, peerVars, screenVars
  <2>2. TypeOK'
    BY <2>1 DEF IInv, TypeOK
  <2>3. Online' = Online
    BY <2>1 DEF Online
  <2>4. Served' /\ CountsAgree'
    BY <2>1, <2>3 DEF IInv, Served, CountsAgree, Sees
  <2>5. Round'
    BY <2>1, RoundKept DEF IInv, Readable
  <2> QED BY <2>2, <2>4, <2>5 DEF IInv
<1>2. CASE Server
  BY <1>2, PollHolds, ReadHolds, AcceptFailsHolds, AcceptFailsNoPlaceHolds, AcceptHolds,
     AcceptNoPlaceHolds DEF Server
<1>3. CASE \E c \in Clients : Peer(c)
  BY <1>3, PeerHolds
<1> QED BY <1>1, <1>2, <1>3 DEF Next

LEMMA Always == Spec => []IInv
BY InitHolds, StepHolds, PTL DEF Spec

-----------------------------------------------------------------------------
(* Theorems.                                                               *)

\* Every variable keeps its type, nready and totalUserCount never fall below 0.
THEOREM TypesCorrect == Spec => []TypeOK
<1>1. IInv => TypeOK
  BY DEF IInv
<1> QED BY Always, <1>1, PTL

\* totalUserCount is the number of users and of the calls of accept() that failed and were
\* counted as one, and every user can tell it from the notices.
THEOREM CountsRight == Spec => []CountsAgree
<1>1. IInv => CountsAgree
  BY DEF IInv
<1> QED BY Always, <1>1, PTL

\* No read of the loop waits, whatever is in the revents of a place that was filled in
\* the same round.
THEOREM ReadsNeverWait == Spec => []ReadsWhatIsThere
<1>1. IInv => ReadsWhatIsThere
  <2> SUFFICES ASSUME IInv, phase = "read" PROVE Flagged # {} /\ Readable(slot[NextFlagged])
    BY DEF ReadsWhatIsThere
  <2>1. PICK top \in 0..MaxSlots : /\ nready = Cardinality(FlaggedTo(top)) /\ nready > 0
                                   /\ \A i \in FlaggedTo(top) : Readable(slot[i])
    BY DEF IInv, Round
  <2>2. FlaggedTo(top) # {}
    BY <2>1, FS_EmptySet
  <2>3. PICK k \in FlaggedTo(top) : TRUE
    BY <2>2
  <2>4. k \in Flagged /\ k <= top /\ k \in Slots
    BY <2>3 DEF FlaggedTo, Flagged
  <2>5. NextFlagged \in Flagged /\ NextFlagged <= k /\ NextFlagged \in Slots
    BY <2>4, NextFlaggedIsFirst DEF Flagged
  <2>6. NextFlagged \in FlaggedTo(top)
    BY <2>4, <2>5, Constants DEF FlaggedTo, Slots
  <2> QED BY <2>1, <2>5, <2>6
<1> QED BY Always, <1>1, PTL

\* The loop always has a way on: accept() is called only when a connection is waiting, and
\* what a read finds on a connection is one of the cases its branches have.
LoopGoesOn ==
  /\ phase = "accept" => queue # {}
  /\ phase = "read" =>
       LET c == slot[NextFlagged]
       IN \/ pending[c] \in Requests
          \/ pending[c] = None /\ conn[c] \in {"closed", "written", "broken", "reset", "shut"}

THEOREM NeverStuck == Spec => []LoopGoesOn
<1> DEFINE Waiting == phase = "accept" => queue # {}
<1>1. Init => Waiting
  BY DEF Init
<1>2. Waiting /\ [Next]_vars => Waiting'
  BY DEF Next, Server, Peer, vars, loopVars, peerVars, Poll, Read, AcceptFails, AcceptFailsNoPlace,
         Accept, AcceptNoPlace,
         AfterAccept, AfterRead, ReadEnd, ReadSay, ReadName, ReadWho, ReadBad,
         Connect, Request, Leave, BreakDown
<1>3. ASSUME IInv, ReadsWhatIsThere, phase = "read"
      PROVE  LET c == slot[NextFlagged]
             IN \/ pending[c] \in Requests
                \/ pending[c] = None /\ conn[c] \in {"closed", "written", "broken", "reset", "shut"}
  <2>1. Flagged # {} /\ Readable(slot[NextFlagged])
    BY <1>3 DEF ReadsWhatIsThere
  <2>2. NextFlagged \in Flagged
    BY <2>1, NextFlaggedIsFirst
  <2>3. slot[NextFlagged] \in Clients /\ conn[slot[NextFlagged]] \notin {"free", "lost"}
    BY <1>3, <2>2 DEF Flagged, IInv, TypeOK, Served
  <2> QED BY <1>3, <2>1, <2>3 DEF Readable, IInv, TypeOK, ConnStates
<1>4. IInv /\ ReadsWhatIsThere /\ Waiting => LoopGoesOn
  BY <1>3 DEF LoopGoesOn
<1>5. Spec => []Waiting
  BY <1>1, <1>2, PTL DEF Spec
<1> QED BY <1>4, <1>5, Always, ReadsNeverWait, PTL

Followed ==
  \A c, d \in Clients :
    c \in Online /\ Sees(c)' /\ d \in Online' /\ (d \in knows[c] \/ d \notin Online) => d \in knows'[c]

\* Whoever is online keeps knowing the present name of everybody it was told of.
THEOREM NamesKnown == Spec => NamesFollowed
<1>1. IInv /\ [Next]_vars => [Followed]_vars
  <2> SUFFICES ASSUME IInv, Next,
                      NEW c \in Clients, NEW d \in Clients,
                      c \in Online, conn'[c] = "open", d \in Online', d \in knows[c] \/ d \notin Online
               PROVE  d \in knows'[c]
    BY DEF Followed, Sees
  <2>1. knows \in [Clients -> SUBSET Clients]
    BY DEF IInv, TypeOK
  <2>2. CASE Poll \/ \E e \in Clients : Peer(e)
    <3>1. Online' = Online /\ d \in knows[c]
      <4>1. UNCHANGED slot
        BY <2>2 DEF Poll, Peer, Connect, Request, Leave, BreakDown, userVars
      <4> QED BY <4>1 DEF Online
    <3>2. CASE UNCHANGED knows
      BY <3>1, <3>2
    <3>3. ASSUME NEW e \in Clients, Leave(e) PROVE d \in knows'[c]
      <4>1. /\ knows' = [knows EXCEPT ![e] = {}]
            /\ \E s \in {"closed", "reset"} : conn' = [conn EXCEPT ![e] = s]
        BY <3>3 DEF Leave
      <4>2. e # c
        BY <4>1 DEF IInv, TypeOK
      <4> QED BY <2>1, <3>1, <4>1, <4>2
    <3>4. UNCHANGED knows \/ \E e \in Clients : Leave(e)
      BY <2>2 DEF Poll, Peer, Connect, Request, BreakDown, screenVars
    <3> QED BY <3>2, <3>3, <3>4
  <2>3. CASE AcceptFails \/ AcceptFailsNoPlace \/ \E e \in queue : AcceptNoPlace(e)
    <3>1. Online' = Online /\ UNCHANGED knows
      BY <2>3 DEF AcceptFails, AcceptFailsNoPlace, AcceptNoPlace, userVars, screenVars, Online
    <3> QED BY <3>1
  <2>4. ASSUME NEW e \in queue, Accept(e) PROVE d \in knows'[c]
    <3> DEFINE others == {slot'[i] : i \in 1..maxIndex'} \ {None, e}
    <3>1. /\ FreeSlots # {} /\ slot' = [slot EXCEPT ![FirstFree] = e] /\ maxIndex' = AtLeast(FirstFree)
          /\ conn' = Written(others \cup {e})
          /\ knows' = [x \in Clients |-> IF Sees(x) /\ x \in others \cup {e} THEN knows[x] \cup {e} ELSE knows[x]]
      BY <2>4 DEF Accept
    <3>2. FirstFree \in Slots /\ slot[FirstFree] = None
      BY <3>1, FirstFreeIsFree
    <3>3. conn[c] = "open"
      BY <3>1, WrittenKeeps DEF IInv
    <3>4. d \in knows[c] \/ d = e
      BY <3>1, <3>2 DEF Online, IInv, TypeOK
    <3>5. c \in others
      <4>1. PICK i \in Slots : slot[i] = c /\ c # None
        BY Constants DEF Online
      <4>2. i # FirstFree /\ slot'[i] = c /\ c # e
        BY <3>1, <3>2, <4>1 DEF IInv, TypeOK, Served
      <4>3. i \in 1..maxIndex'
        BY <3>1, <3>2, <4>1, Constants DEF IInv, Served, TypeOK, AtLeast, Slots
      <4> QED BY <4>1, <4>2, <4>3
    <3> HIDE DEF others
    <3> QED BY <2>1, <3>1, <3>3, <3>4, <3>5 DEF Sees
  <2>5. CASE Read
    <3> DEFINE e == slot[NextFlagged]
    <3>1. /\ Flagged # {}
          /\ ReadEnd(e) \/ ReadSay(e) \/ ReadName(e) \/ ReadWho(e) \/ ReadBad(e)
      BY <2>5 DEF Read
    <3>2. /\ NextFlagged \in Slots /\ e \in Clients /\ e \in Online /\ e # None
          /\ \A i \in Slots \ {NextFlagged} : slot[i] # e
      BY <3>1, NextIsOnline, Constants DEF IInv, Served
    <3>3. CASE ReadEnd(e)
      <4>1. slot' = [slot EXCEPT ![NextFlagged] = None] /\ knows' = [x \in Clients |-> knows[x] \ {e}]
        BY <3>3 DEF ReadEnd, TellLeft
      <4>2. Online' = Online \ {e}
        BY <3>2, <4>1 DEF Online, IInv, TypeOK
      <4> QED BY <4>1, <4>2
    <3>4. CASE ReadName(e)
      <4>1. /\ UNCHANGED slot /\ conn' = Written(Listeners(e) \cup {e})
            /\ knows' = [x \in Clients |-> IF x \in Listeners(e) \cup {e} /\ Sees(x) THEN knows[x] \cup {e}
                                                                       ELSE knows[x] \ {e}]
        BY <3>4 DEF ReadName, userVars, TellName
      <4>2. Online' = Online /\ conn[c] = "open"
        BY <4>1, WrittenKeeps DEF Online, IInv
      <4>3. c \in Listeners(e) \cup {e}
        BY ListenersAreOnline DEF IInv
      <4> QED BY <4>1, <4>2, <4>3 DEF Sees
    <3>5. CASE ReadWho(e)
      <4>1. UNCHANGED slot /\ (knows' = [knows EXCEPT ![e] = Listeners(None)] \/ UNCHANGED knows)
        BY <3>5 DEF ReadWho, userVars
      <4>2. Online' = Online /\ d \in knows[c] /\ d # None
        BY <4>1, Constants DEF Online
      <4>3. d \in Listeners(None)
        BY <4>2, ListenersAreOnline DEF IInv
      <4> QED BY <2>1, <4>1, <4>2, <4>3
    <3>6. CASE ReadSay(e) \/ ReadBad(e)
      <4>1. UNCHANGED <<slot, knows>>
        BY <3>6 DEF ReadSay, ReadBad, userVars, screenVars
      <4>2. Online' = Online
        BY <4>1 DEF Online
      <4> QED BY <4>1, <4>2
    <3> QED BY <3>1, <3>3, <3>4, <3>5, <3>6
  <2> QED BY <2>2, <2>3, <2>4, <2>5 DEF Next, Server
<1> QED BY Always, <1>1, PTL DEF Spec, NamesFollowed, Followed
=============================================================================
