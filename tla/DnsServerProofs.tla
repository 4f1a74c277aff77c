-------------------------- MODULE DnsServerProofs --------------------------
(***************************************************************************)
(* Theorems about DnsServer: types, the answers relayed from the foreign   *)
(* server, and lookups against the zone files, for every configuration,    *)
(* set of queries and bound.                                               *)
(***************************************************************************)
EXTENDS DnsServer, SequenceTheorems, WellFoundedInduction, TLAPS

\* A non-empty set of numbers has a least element.
LEMMA Least ==
  ASSUME NEW S \in SUBSET Nat, S # {}
  PROVE  \E m \in S : \A k \in S : m <= k
<1>1. IsWellFoundedOn(OpToRel(<, Nat), Nat)
  BY NatLessThanWellFounded
<1>2. PICK m \in S : \A k \in S : ~(<<k, m>> \in OpToRel(<, Nat))
  BY <1>1, WFMin
<1>3. \A k \in S : ~(k < m)
  BY <1>2 DEF OpToRel
<1> QED BY <1>3

-----------------------------------------------------------------------------
(* Names and their prefixes.                                               *)

\* A prefix is the name's first k labels.
LEMMA PrefixShape ==
  ASSUME NEW name \in Names, NEW k \in 0..Len(name)
  PROVE  /\ Prefix(name, k) \in Names
         /\ Len(Prefix(name, k)) = k
         /\ \A i \in 1..k : Prefix(name, k)[i] = name[i]
<1>1. \A i \in 1..k : name[i] \in Labels
  BY DEF Names
<1> QED BY <1>1, SubSeqProperties DEF Names, Prefix

\* Two names of one length with the same labels are one name.
LEMMA SameLabels ==
  ASSUME NEW s \in Names, NEW t \in Names, Len(s) = Len(t),
         \A i \in 1..Len(s) : s[i] = t[i]
  PROVE  s = t
BY SeqEqual DEF Names

LEMMA PrefixOfPrefix ==
  ASSUME NEW name \in Names, NEW k \in 0..Len(name), NEW j \in 0..k
  PROVE  Prefix(Prefix(name, k), j) = Prefix(name, j)
<1>1. /\ Prefix(name, k) \in Names /\ Len(Prefix(name, k)) = k
      /\ \A i \in 1..k : Prefix(name, k)[i] = name[i]
  BY PrefixShape
<1>2. /\ Prefix(Prefix(name, k), j) \in Names /\ Len(Prefix(Prefix(name, k), j)) = j
      /\ \A i \in 1..j : Prefix(Prefix(name, k), j)[i] = Prefix(name, k)[i]
  BY <1>1, PrefixShape
<1>3. j \in 0..Len(name)
  BY DEF Names
<1>4. /\ Prefix(name, j) \in Names /\ Len(Prefix(name, j)) = j
      /\ \A i \in 1..j : Prefix(name, j)[i] = name[i]
  BY <1>3, PrefixShape
<1> QED BY <1>1, <1>2, <1>4, SameLabels

LEMMA WholePrefix ==
  ASSUME NEW name \in Names
  PROVE  Prefix(name, Len(name)) = name
BY SubSeqFull DEF Names, Prefix

LEMMA EmptyPrefix ==
  ASSUME NEW name
  PROVE  Prefix(name, 0) = <<>>
BY SubSeqEmpty DEF Prefix

\* The path to a name has the root, the name, and with a node the nodes above it.
LEMMA PathShape ==
  ASSUME NEW name \in Names
  PROVE  /\ PathTo(name) \subseteq Names
         /\ name \in PathTo(name)
         /\ <<>> \in PathTo(name)
         /\ \A path \in PathTo(name) : PathTo(path) \subseteq PathTo(name)
<1>1. Len(name) \in Nat
  BY DEF Names
<1>2. PathTo(name) \subseteq Names
  BY PrefixShape DEF PathTo
<1>3. name \in PathTo(name)
  BY <1>1, WholePrefix DEF PathTo
<1>4. <<>> \in PathTo(name)
  BY <1>1, EmptyPrefix DEF PathTo
<1>5. ASSUME NEW path \in PathTo(name)
      PROVE  PathTo(path) \subseteq PathTo(name)
  <2>1. PICK k \in 0..Len(name) : path = Prefix(name, k)
    BY DEF PathTo
  <2>2. Len(path) = k
    BY <2>1, PrefixShape
  <2>3. \A j \in 0..k : Prefix(path, j) = Prefix(name, j) /\ j \in 0..Len(name)
    BY <1>1, <2>1, PrefixOfPrefix
  <2> QED BY <2>2, <2>3 DEF PathTo
<1> QED BY <1>2, <1>3, <1>4, <1>5

\* Zones have names and records.
LEMMA ZoneShape ==
  ASSUME NEW i \in 1..Len(Zones)
  PROVE  /\ Zones[i].name \in Names
         /\ RecordsOf(Zones[i]) \subseteq Records
         /\ \A r \in RecordsOf(Zones[i]) : r.fullName = Zones[i].name \o r.name
<1>1. Zones[i] \in [name : Names \ {<<>>}, lines : SUBSET Lines]
  BY ZonesAssumption, ElementOfSeq
<1>2. \A line \in Zones[i].lines :
        /\ line.name \in Names /\ line.class \in Classes
        /\ line.type \in Types /\ line.data \in Names
  BY <1>1 DEF Lines
<1>3. \A line \in Zones[i].lines : Zones[i].name \o line.name \in Names
  BY <1>1, <1>2, ConcatProperties DEF Names
<1>4. \A line \in Zones[i].lines : Record(Zones[i], line) \in Records
  BY <1>2, <1>3 DEF Record, Records, ClassCode, Classes
<1>5. \A line \in Zones[i].lines :
        Record(Zones[i], line).fullName = Zones[i].name \o Record(Zones[i], line).name
  BY DEF Record
<1> QED BY <1>1, <1>4, <1>5 DEF RecordsOf

-----------------------------------------------------------------------------
(* Types.                                                                  *)

LEMMA QueryShape ==
  ASSUME NEW q \in Queries
  PROVE  /\ q.name \in Names /\ q.nip \in Names
         /\ q # NoQuery
BY QueriesAssumption DEF QuerySet

\* What a lookup returns is a set of records.
LEMMA LookupTypes ==
  ASSUME TypeOK
  PROVE  /\ \A name : AllRecords(name) \subseteq Records
         /\ \A q \in Queries : Answers(q) \subseteq Records
         /\ \A q \in Queries : Additionals(q) \subseteq Records
         /\ \A q \in Queries : HasDomain(q.name) => Authorities(q) \subseteq Records
<1>1. \A name : AllRecords(name) \subseteq Records
  BY DEF TypeOK, AllRecords, HasDomain
<1>2. \A q \in Queries : NipRecord(q) \in Records
  <2>1. \A q \in Queries : q.name \o q.nip \in Names
    BY QueryShape, ConcatProperties DEF Names
  <2>2. <<>> \in Names
    BY EmptySeq DEF Names
  <2> QED BY <2>1, <2>2, QueryShape DEF NipRecord, Records, Types, Classes
<1>3. \A q \in Queries : Answers(q) \subseteq Records
  BY <1>1, <1>2 DEF Answers, GetRecord
<1>4. \A q \in Queries : Additionals(q) \subseteq Records
  BY <1>1 DEF Additionals
<1>5. \A name, type : HasDomain(name) => OfType(name, type) \subseteq Records
  BY DEF TypeOK, HasDomain, OfType
<1>6. \A q \in Queries : HasDomain(q.name) => Authorities(q) \subseteq Records
  BY <1>5 DEF Authorities
<1> QED BY <1>1, <1>3, <1>4, <1>6

\* Counting datagrams gives numbers.
LEMMA Counts ==
  ASSUME NEW f \in [Queries -> Nat], NEW q \in Queries
  PROVE  /\ Add(f, q) \in [Queries -> Nat]
         /\ f[q] > 0 => Remove(f, q) \in [Queries -> Nat]
BY DEF Add, Remove

\* insert() keeps the tree closed and the domains on its nodes.
LEMMA LoadKeepsTypes ==
  ASSUME TypeOK, LoadZone
  PROVE  TypeOK'
<1> DEFINE zone == Zones[loaded + 1]
<1>1. Len(Zones) \in Nat /\ loaded \in 0..Len(Zones)
  BY ZonesAssumption DEF TypeOK
<1>2. loaded + 1 \in 1..Len(Zones) /\ loaded' = loaded + 1
  BY <1>1 DEF LoadZone
<1>3. zone.name \in Names /\ RecordsOf(zone) \subseteq Records
  BY <1>2, ZoneShape
<1>4. /\ nodes' = nodes \cup PathTo(zone.name)
      /\ domainAt' = [path \in DOMAIN domainAt \cup {zone.name} |->
                        IF path = zone.name THEN RecordsOf(zone) ELSE domainAt[path]]
  BY <1>2 DEF LoadZone
<1>5. nodes' \subseteq Names /\ <<>> \in nodes'
  BY <1>3, <1>4, PathShape DEF TypeOK
<1>6. \A path \in nodes' : PathTo(path) \subseteq nodes'
  BY <1>3, <1>4, PathShape DEF TypeOK
<1>7. DOMAIN domainAt' \subseteq nodes'
  BY <1>3, <1>4, PathShape DEF TypeOK
<1>8. \A path \in DOMAIN domainAt' : domainAt'[path] \subseteq Records
  BY <1>3, <1>4 DEF TypeOK
<1>9. UNCHANGED <<server, query, inbox, linkVars, out>> /\ loaded' \in 0..Len(Zones)
  BY <1>1, <1>2 DEF LoadZone
<1> QED BY <1>5, <1>6, <1>7, <1>8, <1>9 DEF TypeOK, linkVars

\* TypeOK holds in every state: the tree is closed under the nodes above a node, and the
\* server has a query exactly while it waits.
THEOREM TypeCorrect == Spec => []TypeOK
<1>1. Init => TypeOK
  <2> SUFFICES ASSUME Init PROVE TypeOK
    OBVIOUS
  <2>1. Len(Zones) \in Nat /\ <<>> \in Names /\ PathTo(<<>>) = {<<>>}
    BY ZonesAssumption, EmptySeq, EmptyPrefix DEF Names, PathTo
  <2>2. inbox \in Seq(Queries) /\ Len(inbox) = 0
    BY EmptySeq DEF Init
  <2>3. nodes \subseteq Names /\ <<>> \in nodes /\ \A path \in nodes : PathTo(path) \subseteq nodes
    BY <2>1 DEF Init
  <2>4. DOMAIN domainAt = {}
    BY DEF Init
  <2>5. asked \in [Queries -> Nat] /\ answered \in [Queries -> Nat]
    BY DEF Init
  <2>6. /\ loaded \in 0..Len(Zones) /\ server = "loading" /\ query = NoQuery
        /\ refused = FALSE /\ copied \in 0..MaxCopies /\ lost = FALSE /\ out = {}
    BY <2>1, BoundsAssumption DEF Init
  <2>7. query \in Queries \cup {NoQuery} /\ (server = "waiting") = (query # NoQuery)
    BY <2>6
  <2>8. Len(inbox) <= MaxInbox
    BY <2>2, BoundsAssumption
  <2>9. DOMAIN domainAt \subseteq nodes /\ \A path \in DOMAIN domainAt : domainAt[path] \subseteq Records
    BY <2>4
  <2>10. out \subseteq Replies /\ \A r, s \in out : r = s
    BY <2>6
  <2> QED BY <2>2, <2>3, <2>5, <2>6, <2>7, <2>8, <2>9, <2>10 DEF TypeOK
<1>2. TypeOK /\ [Next]_vars => TypeOK'
  <2> SUFFICES ASSUME TypeOK, [Next]_vars PROVE TypeOK'
    OBVIOUS
  <2> USE DEF treeVars, linkVars
  <2>1. CASE LoadZone
    BY <2>1, LoadKeepsTypes
  <2>2. CASE Start
    BY <2>2 DEF TypeOK, Start
  <2>3. ASSUME NEW q \in Queries, AnswerOwn(q)
        PROVE  TypeOK'
    <3>1. /\ Answers(q) \subseteq Records /\ Authorities(q) \subseteq Records
          /\ Additionals(q) \subseteq Records
      BY <2>3, LookupTypes DEF AnswerOwn
    <3>2. out' \subseteq Replies /\ \A r, s \in out' : r = s
      BY <2>3, <3>1 DEF AnswerOwn, Replies
    <3>3. inbox' \in Seq(Queries) /\ Len(inbox') <= MaxInbox
      BY <2>3, HeadTailProperties, BoundsAssumption DEF AnswerOwn, TypeOK
    <3> QED BY <2>3, <3>2, <3>3 DEF TypeOK, AnswerOwn
  <2>4. ASSUME NEW q \in Queries, Forward(q)
        PROVE  TypeOK'
    <3>1. inbox' \in Seq(Queries) /\ Len(inbox') <= MaxInbox
      BY <2>4, HeadTailProperties, BoundsAssumption DEF Forward, TypeOK
    <3>2. asked' \in [Queries -> Nat]
      BY <2>4, Counts DEF Forward, TypeOK
    <3> QED BY <2>4, <3>1, <3>2, QueryShape DEF TypeOK, Forward
  <2>5. ASSUME NEW a \in Queries, Relay(a)
        PROVE  TypeOK'
    <3>1. out' \subseteq Replies /\ \A r, s \in out' : r = s
      BY <2>5 DEF Relay, TypeOK, Replies
    <3>2. answered' \in [Queries -> Nat]
      BY <2>5, Counts DEF Relay, TypeOK
    <3> QED BY <2>5, <3>1, <3>2 DEF TypeOK, Relay
  <2>6. CASE RelayError
    <3>1. out' \subseteq Replies /\ \A r, s \in out' : r = s
      BY <2>6 DEF RelayError, TypeOK, Replies
    <3> QED BY <2>6, <3>1 DEF TypeOK, RelayError
  <2>7. ASSUME NEW q \in Queries, Send(q)
        PROVE  TypeOK'
    <3>1. inbox' \in Seq(Queries) /\ Len(inbox') <= MaxInbox
      BY <2>7, AppendProperties, BoundsAssumption DEF Send, TypeOK
    <3> QED BY <2>7, <3>1 DEF TypeOK, Send
  <2>8. ASSUME NEW q \in Queries, ForeignAnswer(q)
        PROVE  TypeOK'
    BY <2>8, Counts DEF TypeOK, ForeignAnswer
  <2>9. ASSUME NEW q \in Queries, ForeignRefuse(q)
        PROVE  TypeOK'
    BY <2>9, Counts DEF TypeOK, ForeignRefuse
  <2>10. ASSUME NEW q \in Queries, Lose(q)
         PROVE  TypeOK'
    <3>1. asked' \in [Queries -> Nat] /\ answered' \in [Queries -> Nat]
      <4>1. asked \in [Queries -> Nat] /\ answered \in [Queries -> Nat]
        BY DEF TypeOK
      <4>2. CASE asked[q] > 0 /\ asked' = Remove(asked, q) /\ answered' = answered
        BY <4>1, <4>2, Counts
      <4>3. CASE answered[q] > 0 /\ answered' = Remove(answered, q) /\ asked' = asked
        BY <4>1, <4>3, Counts
      <4> QED BY <2>10, <4>2, <4>3 DEF Lose
    <3> QED BY <2>10, <3>1 DEF TypeOK, Lose
  <2>11. ASSUME NEW q \in Queries, Copy(q)
         PROVE  TypeOK'
    <3>1. asked' \in [Queries -> Nat] /\ answered' \in [Queries -> Nat]
      <4>1. asked \in [Queries -> Nat] /\ answered \in [Queries -> Nat]
        BY DEF TypeOK
      <4>2. CASE asked[q] > 0 /\ asked' = Add(asked, q) /\ answered' = answered
        BY <4>1, <4>2, Counts
      <4>3. CASE answered[q] > 0 /\ answered' = Add(answered, q) /\ asked' = asked
        BY <4>1, <4>3, Counts
      <4> QED BY <2>11, <4>2, <4>3 DEF Copy
    <3>2. copied' \in 0..MaxCopies
      BY <2>11, BoundsAssumption DEF TypeOK, Copy
    <3> QED BY <2>11, <3>1, <3>2 DEF TypeOK, Copy
  <2>12. CASE UNCHANGED vars
    BY <2>12 DEF TypeOK, vars
  <2> QED BY <2>1, <2>2, <2>3, <2>4, <2>5, <2>6, <2>7, <2>8, <2>9, <2>10, <2>11, <2>12
          DEF Next, Server, Environment
<1> QED BY <1>1, <1>2, PTL DEF Spec

-----------------------------------------------------------------------------
(* The answers of the foreign server.                                      *)

\* Without copies at most one datagram of the foreign link exists, it belongs to the
\* query that is waited for, and an error is pending only instead of it.
AtMostOnePending ==
  copied = 0 =>
    /\ \A q \in Queries : q # query => asked[q] = 0 /\ answered[q] = 0
    /\ query \in Queries =>
         /\ asked[query] + answered[query] <= 1
         /\ refused => asked[query] + answered[query] = 0
    /\ refused => query \in Queries

\* Unless the network copies a datagram, the answer that a client is given is the answer to
\* its own query, although the loop compares no ids.
THEOREM RelaysMatch == Spec => []RelaysMatchUnlessCopied
<1>1. Init => AtMostOnePending /\ RelaysMatchUnlessCopied
  BY DEF Init, AtMostOnePending, RelaysMatchUnlessCopied
<1>2. TypeOK /\ AtMostOnePending /\ RelaysMatchUnlessCopied /\ [Next]_vars
        => AtMostOnePending' /\ RelaysMatchUnlessCopied'
  <2> SUFFICES ASSUME TypeOK, AtMostOnePending, RelaysMatchUnlessCopied, [Next]_vars
               PROVE  AtMostOnePending' /\ RelaysMatchUnlessCopied'
    OBVIOUS
  <2> USE DEF treeVars, linkVars, AtMostOnePending, RelaysMatchUnlessCopied
  <2>0. (server = "waiting") = (query # NoQuery) /\ query \in Queries \cup {NoQuery}
    BY DEF TypeOK
  <2>1. CASE LoadZone
    BY <2>1 DEF LoadZone
  <2>2. CASE Start
    BY <2>2 DEF Start
  <2>3. ASSUME NEW q \in Queries, AnswerOwn(q)
        PROVE  AtMostOnePending' /\ RelaysMatchUnlessCopied'
    BY <2>3 DEF AnswerOwn
  <2>4. ASSUME NEW q \in Queries, Forward(q)
        PROVE  AtMostOnePending' /\ RelaysMatchUnlessCopied'
    BY <2>0, <2>4, QueryShape DEF Forward, TypeOK, Add
  <2>5. ASSUME NEW a \in Queries, Relay(a)
        PROVE  AtMostOnePending' /\ RelaysMatchUnlessCopied'
    <3>1. /\ query \in Queries /\ answered[a] > 0 /\ answered' = [answered EXCEPT ![a] = @ - 1]
          /\ query' = NoQuery /\ copied' = copied /\ asked' = asked /\ refused' = refused
          /\ out' = {[kind |-> "relay", to |-> query, of |-> a]}
      BY <2>0, <2>5 DEF Relay, Remove
    <3>2. copied = 0 => /\ a = query /\ answered[a] = 1 /\ asked[a] = 0 /\ ~refused
      BY <3>1 DEF TypeOK
    <3>3. RelaysMatchUnlessCopied'
      BY <3>1, <3>2
    <3>4. \A q \in Queries : copied = 0 => asked'[q] = 0 /\ answered'[q] = 0
      BY <3>1, <3>2 DEF TypeOK
    <3>5. NoQuery \notin Queries
      BY QueriesAssumption
    <3> QED BY <3>1, <3>2, <3>3, <3>4, <3>5
  <2>6. CASE RelayError
    <3>1. query \in Queries /\ query' = NoQuery /\ NoQuery \notin Queries
      BY <2>0, <2>6, QueriesAssumption DEF RelayError
    <3>2. copied = 0 => \A q \in Queries : asked[q] = 0 /\ answered[q] = 0
      BY <2>6, <3>1 DEF RelayError, TypeOK
    <3> QED BY <2>6, <3>1, <3>2 DEF RelayError
  <2>7. ASSUME NEW q \in Queries, Send(q)
        PROVE  AtMostOnePending' /\ RelaysMatchUnlessCopied'
    BY <2>7 DEF Send
  <2>8. ASSUME NEW q \in Queries, ForeignAnswer(q)
        PROVE  AtMostOnePending' /\ RelaysMatchUnlessCopied'
    <3>1. /\ asked[q] > 0 /\ asked' = [asked EXCEPT ![q] = @ - 1]
          /\ answered' = [answered EXCEPT ![q] = @ + 1]
          /\ query' = query /\ copied' = copied /\ refused' = refused /\ out' = {}
      BY <2>8 DEF ForeignAnswer, Add, Remove
    <3>2. copied = 0 => q = query
      BY <3>1
    <3>3. asked \in [Queries -> Nat] /\ answered \in [Queries -> Nat]
      BY DEF TypeOK
    <3> QED BY <3>1, <3>2, <3>3
  <2>9. ASSUME NEW q \in Queries, ForeignRefuse(q)
        PROVE  AtMostOnePending' /\ RelaysMatchUnlessCopied'
    BY <2>9 DEF ForeignRefuse, Remove, TypeOK
  <2>10. ASSUME NEW q \in Queries, Lose(q)
         PROVE  AtMostOnePending' /\ RelaysMatchUnlessCopied'
    BY <2>10 DEF Lose, Remove, TypeOK
  <2>11. ASSUME NEW q \in Queries, Copy(q)
         PROVE  AtMostOnePending' /\ RelaysMatchUnlessCopied'
    BY <2>11 DEF Copy, TypeOK
  <2>12. CASE UNCHANGED vars
    BY <2>12 DEF vars
  <2> QED BY <2>1, <2>2, <2>3, <2>4, <2>5, <2>6, <2>7, <2>8, <2>9, <2>10, <2>11, <2>12
          DEF Next, Server, Environment
<1> QED BY <1>1, <1>2, TypeCorrect, PTL DEF Spec

\* The second recv() has no timeout.  As long as nothing was lost on the foreign link, and
\* no pending error has kept a query from being sent, there is something it waits for: the
\* query itself is on its way, or its answer is, or an error is reported.
AnswerOnItsWay ==
  server = "waiting" /\ ~lost => refused \/ asked[query] > 0 \/ answered[query] > 0

THEOREM WaitsForSomething == Spec => []AnswerOnItsWay
<1>1. Init => AnswerOnItsWay
  BY DEF Init, AnswerOnItsWay
<1>2. TypeOK /\ AnswerOnItsWay /\ [Next]_vars => AnswerOnItsWay'
  <2> SUFFICES ASSUME TypeOK, AnswerOnItsWay, [Next]_vars PROVE AnswerOnItsWay'
    OBVIOUS
  <2> USE DEF treeVars, linkVars, AnswerOnItsWay
  <2>0. /\ asked \in [Queries -> Nat] /\ answered \in [Queries -> Nat]
        /\ server = "waiting" => query \in Queries
    BY DEF TypeOK
  <2>1. CASE LoadZone \/ Start \/ UNCHANGED vars
    BY <2>1 DEF LoadZone, Start, vars
  <2>2. ASSUME NEW q \in Queries, AnswerOwn(q) \/ Relay(q) \/ Send(q) PROVE AnswerOnItsWay'
    BY <2>2 DEF AnswerOwn, Relay, Send
  <2>3. CASE RelayError
    BY <2>3 DEF RelayError
  <2>4. ASSUME NEW q \in Queries, Forward(q) PROVE AnswerOnItsWay'
    <3>1. query' = q /\ asked' = IF refused THEN asked ELSE Add(asked, q)
      BY <2>4 DEF Forward
    <3>2. ~lost' => ~refused
      BY <2>4 DEF Forward
    <3>3. Add(asked, q)[q] > 0
      BY <2>0 DEF Add
    <3> QED BY <3>1, <3>2, <3>3
  <2>5. ASSUME NEW q \in Queries, ForeignAnswer(q) \/ ForeignRefuse(q) PROVE AnswerOnItsWay'
    <3>1. CASE ForeignAnswer(q)
      BY <2>0, <3>1 DEF ForeignAnswer, Add, Remove
    <3>2. CASE ForeignRefuse(q)
      BY <3>1, <3>2 DEF ForeignRefuse
    <3> QED BY <2>5, <3>1, <3>2
  <2>6. ASSUME NEW q \in Queries, Lose(q) \/ Copy(q) PROVE AnswerOnItsWay'
    <3>1. CASE Lose(q)
      BY <3>1 DEF Lose
    <3>2. CASE Copy(q)
      <4>1. \A p \in Queries : asked'[p] >= asked[p] /\ answered'[p] >= answered[p]
        BY <2>0, <3>2 DEF Copy, Add
      <4>2. server' = server /\ query' = query /\ lost' = lost /\ refused' = refused
        BY <3>2 DEF Copy
      <4>3. \A p \in Queries : asked'[p] \in Int /\ answered'[p] \in Int /\ asked[p] \in Nat /\ answered[p] \in Nat
        BY <2>0, <3>2 DEF Copy, Add
      <4> QED BY <2>0, <4>1, <4>2, <4>3
    <3> QED BY <2>6, <3>1, <3>2
  <2> QED BY <2>1, <2>2, <2>3, <2>4, <2>5, <2>6 DEF Next, Server, Environment
<1> QED BY <1>1, <1>2, TypeCorrect, PTL DEF Spec

-----------------------------------------------------------------------------
(* Lookups.                                                                *)

\* The tree is the one of the files that were read: each node is on the path to a zone,
\* and a domain is the last file of its name.
TreeBuilt ==
  /\ \A path \in nodes : path = <<>> \/ \E i \in 1..loaded : path \in PathTo(Zones[i].name)
  /\ \A i \in 1..loaded : Zones[i].name \in DOMAIN domainAt
  /\ \A path \in DOMAIN domainAt : \E i \in 1..loaded :
       /\ path = Zones[i].name
       /\ domainAt[path] = RecordsOf(Zones[i])
       /\ \A j \in 1..loaded : Zones[j].name = path => j <= i
  /\ server # "loading" => loaded = Len(Zones)

LEMMA LoadKeepsTree ==
  ASSUME TypeOK, TreeBuilt, LoadZone
  PROVE  TreeBuilt'
<1> DEFINE zone == Zones[loaded + 1]
<1>1. Len(Zones) \in Nat /\ loaded \in 0..Len(Zones)
  BY ZonesAssumption DEF TypeOK
<1>2. /\ loaded' = loaded + 1 /\ loaded' \in 1..Len(Zones)
      /\ \A i \in 1..loaded' : i \in 1..loaded \/ i = loaded + 1
      /\ 1..loaded \subseteq 1..loaded' /\ loaded + 1 \in 1..loaded'
  BY <1>1 DEF LoadZone
<1>3. /\ nodes' = nodes \cup PathTo(zone.name)
      /\ domainAt' = [path \in DOMAIN domainAt \cup {zone.name} |->
                        IF path = zone.name THEN RecordsOf(zone) ELSE domainAt[path]]
      /\ server' = "loading"
  BY <1>2 DEF LoadZone
<1>4. \A path \in nodes' : path = <<>> \/ \E i \in 1..loaded' : path \in PathTo(Zones[i].name)
  BY <1>2, <1>3 DEF TreeBuilt
<1>5. \A i \in 1..loaded' : Zones[i].name \in DOMAIN domainAt'
  BY <1>2, <1>3 DEF TreeBuilt
<1>6. ASSUME NEW path \in DOMAIN domainAt'
      PROVE  \E i \in 1..loaded' :
               /\ path = Zones[i].name
               /\ domainAt'[path] = RecordsOf(Zones[i])
               /\ \A j \in 1..loaded' : Zones[j].name = path => j <= i
  <2>1. CASE path = zone.name
    <3>1. \A j \in 1..loaded' : j <= loaded + 1
      BY <1>1, <1>2
    <3> QED BY <1>2, <1>3, <2>1, <3>1
  <2>2. CASE path # zone.name
    <3>1. path \in DOMAIN domainAt /\ domainAt'[path] = domainAt[path]
      BY <1>3, <2>2
    <3>2. PICK i \in 1..loaded :
            /\ path = Zones[i].name
            /\ domainAt[path] = RecordsOf(Zones[i])
            /\ \A j \in 1..loaded : Zones[j].name = path => j <= i
      BY <3>1 DEF TreeBuilt
    <3>3. \A j \in 1..loaded' : Zones[j].name = path => j <= i
      BY <1>2, <2>2, <3>2
    <3> QED BY <1>2, <3>1, <3>2, <3>3
  <2> QED BY <2>1, <2>2
<1> QED BY <1>3, <1>4, <1>5, <1>6 DEF TreeBuilt

\* The walk ends at the first label that has no node, and so no longer prefix has one.
LEMMA DepthShape ==
  ASSUME TypeOK, NEW name \in Names
  PROVE  /\ Depth(name) \in 0..Len(name)
         /\ Reached(name) \in nodes
         /\ \A k \in 0..Len(name) : Prefix(name, k) \in nodes => k <= Depth(name)
<1> DEFINE Ends(d) == /\ \A k \in 0..d : Prefix(name, k) \in nodes
                      /\ d < Len(name) => Prefix(name, d + 1) \notin nodes
           Stops == {k \in 0..Len(name) : k < Len(name) => Prefix(name, k + 1) \notin nodes}
<1>1. Len(name) \in Nat
  BY DEF Names
<1>2. Stops \in SUBSET Nat /\ Len(name) \in Stops
  BY <1>1
<1>3. PICK m \in Stops : \A k \in Stops : m <= k
  <2> HIDE DEF Stops
  <2> QED BY <1>2, Least
<1>4. ASSUME NEW k \in 0..m
      PROVE  Prefix(name, k) \in nodes
  <2>1. CASE k = 0
    BY <2>1, EmptyPrefix DEF TypeOK
  <2>2. CASE k # 0
    <3>1. k - 1 \in 0..Len(name) /\ ~(m <= k - 1) /\ k - 1 < Len(name) /\ k - 1 + 1 = k
      BY <1>1, <1>3, <2>2
    <3> QED BY <1>3, <3>1
  <2> QED BY <2>1, <2>2
<1>5. Ends(m) /\ m \in 0..Len(name)
  BY <1>3, <1>4
<1>6. Depth(name) \in 0..Len(name) /\ Ends(Depth(name))
  BY <1>5 DEF Depth
<1>7. ASSUME NEW k \in 0..Len(name), Prefix(name, k) \in nodes, ~(k <= Depth(name))
      PROVE  FALSE
  <2>1. Depth(name) + 1 \in 0..k /\ Depth(name) < Len(name)
    BY <1>1, <1>6, <1>7
  <2>2. Len(Prefix(name, k)) = k
    BY PrefixShape
  <2>3. Prefix(Prefix(name, k), Depth(name) + 1) \in nodes
    BY <1>7, <2>1, <2>2 DEF TypeOK, PathTo
  <2> QED BY <1>6, <2>1, <2>3, PrefixOfPrefix
<1>8. Reached(name) \in nodes
  BY <1>1, <1>6 DEF Reached
<1> QED BY <1>6, <1>7, <1>8

\* The zones that hold a name are prefixes of it.
LEMMA HoldingShape ==
  ASSUME NEW name \in Names, NEW i \in Holding(name)
  PROVE  /\ i \in 1..Len(Zones) /\ Zones[i].name \in Names
         /\ Len(Zones[i].name) \in 0..Len(name)
         /\ Zones[i].name = Prefix(name, Len(Zones[i].name))
<1>1. i \in 1..Len(Zones) /\ IsPrefixOf(Zones[i].name, name)
  BY DEF Holding
<1>2. Zones[i].name \in Names
  BY <1>1, ZoneShape
<1>3. Len(Zones[i].name) \in Nat /\ Len(name) \in Nat
  BY <1>2 DEF Names
<1> QED BY <1>1, <1>2, <1>3 DEF IsPrefixOf

Best(name, i) ==
  \A j \in Holding(name) :
    \/ Len(Zones[j].name) < Len(Zones[i].name)
    \/ Zones[j].name = Zones[i].name /\ j <= i

\* There is a closest zone, and one only.
LEMMA ClosestExists ==
  ASSUME NEW name \in Names, Handled(name)
  PROVE  \E i \in Holding(name) : Best(name, i) /\ Closest(name) = Zones[i]
<1> DEFINE short(i) == Len(name) - Len(Zones[i].name)
           Shorts == {short(i) : i \in Holding(name)}
<1>1. Len(name) \in Nat /\ Len(Zones) \in Nat
  BY ZonesAssumption DEF Names
<1>2. Shorts \in SUBSET Nat /\ Shorts # {}
  BY <1>1, HoldingShape DEF Handled
<1>3. PICK m \in Shorts : \A n \in Shorts : m <= n
  <2> HIDE DEF Shorts
  <2> QED BY <1>2, Least
<1> DEFINE Lasts == {Len(Zones) - i : i \in {j \in Holding(name) : short(j) = m}}
<1>4. Lasts \in SUBSET Nat /\ Lasts # {}
  BY <1>1, <1>3, HoldingShape
<1>5. PICK l \in Lasts : \A n \in Lasts : l <= n
  <2> HIDE DEF Lasts
  <2> QED BY <1>4, Least
<1>6. PICK i \in Holding(name) : short(i) = m /\ l = Len(Zones) - i
  BY <1>5
<1>7. ASSUME NEW j \in Holding(name)
      PROVE  \/ Len(Zones[j].name) < Len(Zones[i].name)
             \/ Zones[j].name = Zones[i].name /\ j <= i
  <2>1. /\ Len(Zones[j].name) \in 0..Len(name) /\ Len(Zones[i].name) \in 0..Len(name)
        /\ j \in 1..Len(Zones) /\ i \in 1..Len(Zones)
    BY HoldingShape
  <2>2. short(i) <= short(j)
    BY <1>3, <1>6
  <2>3. CASE Len(Zones[j].name) = Len(Zones[i].name)
    <3>1. Zones[j].name = Zones[i].name
      BY <2>3, HoldingShape
    <3>2. Len(Zones) - i <= Len(Zones) - j
      BY <1>5, <1>6, <2>3
    <3> QED BY <1>1, <2>1, <3>1, <3>2
  <2> QED BY <1>1, <2>1, <2>2, <2>3
<1>8. Best(name, i)
  BY <1>7 DEF Best
<1> DEFINE c == CHOOSE j \in Holding(name) : Best(name, j)
<1>9. c \in Holding(name) /\ Best(name, c) /\ Closest(name) = Zones[c]
  <2>1. c \in Holding(name) /\ Best(name, c)
    BY <1>8
  <2>2. Closest(name) = Zones[c]
    BY DEF Closest, Best
  <2> QED BY <2>1, <2>2
<1> QED BY <1>9

\* A walk that ends at a domain has found the last file of the closest zone, and no other
\* zone shares more labels with the name.
LEMMA WalkFindsClosest ==
  ASSUME TypeOK, TreeBuilt, server # "loading", NEW name \in Names, HasDomain(name)
  PROVE  /\ Handled(name) /\ ~Hidden(name)
         /\ Closest(name).name = Reached(name)
         /\ domainAt[Reached(name)] = RecordsOf(Closest(name))
<1> DEFINE d == Depth(name)
<1>1. /\ d \in 0..Len(name) /\ Len(name) \in Nat /\ Reached(name) = Prefix(name, d)
      /\ \A k \in 0..Len(name) : Prefix(name, k) \in nodes => k <= d
  BY DepthShape DEF Names, Reached
<1>2. PICK i \in 1..Len(Zones) :
        /\ Reached(name) = Zones[i].name
        /\ domainAt[Reached(name)] = RecordsOf(Zones[i])
        /\ \A j \in 1..Len(Zones) : Zones[j].name = Reached(name) => j <= i
  BY DEF TreeBuilt, HasDomain
<1>3. Len(Zones[i].name) = d
  BY <1>1, <1>2, PrefixShape
<1>4. i \in Holding(name)
  <2>1. Zones[i].name = Prefix(name, d) /\ Len(Zones[i].name) <= Len(name)
    BY <1>1, <1>2, <1>3
  <2>2. IsPrefixOf(Zones[i].name, name)
    BY <1>3, <2>1 DEF IsPrefixOf
  <2> QED BY <2>2 DEF Holding
<1>5. Handled(name)
  BY <1>4 DEF Handled
<1>6. PICK c \in Holding(name) : Best(name, c) /\ Closest(name) = Zones[c]
  BY <1>5, ClosestExists
<1>7. /\ c \in 1..Len(Zones) /\ Len(Zones[c].name) \in 0..Len(name)
      /\ Zones[c].name = Prefix(name, Len(Zones[c].name))
  BY HoldingShape
<1>8. Zones[c].name \in nodes
  BY <1>7 DEF TreeBuilt, TypeOK
<1>9. Len(Zones[c].name) <= d
  BY <1>1, <1>7, <1>8
<1>10. Zones[i].name = Zones[c].name /\ i <= c
  BY <1>1, <1>3, <1>4, <1>6, <1>7, <1>9 DEF Best
<1>11. c = i
  BY <1>2, <1>7, <1>10
<1>12. ASSUME NEW z \in 1..Len(Zones), NEW k \in 1..Len(name), k > d,
              IsPrefixOf(Prefix(name, k), Zones[z].name)
       PROVE  FALSE
  <2>1. Prefix(name, k) \in PathTo(Zones[z].name)
    <3>1. Len(Prefix(name, k)) = k
      BY <1>1, PrefixShape
    <3> QED BY <1>12, <3>1 DEF IsPrefixOf, PathTo
  <2>2. Zones[z].name \in nodes
    BY DEF TreeBuilt, TypeOK
  <2>3. Prefix(name, k) \in nodes
    BY <2>1, <2>2 DEF TypeOK
  <2> QED BY <1>1, <1>12, <2>3
<1>13. ~Hidden(name)
  BY <1>3, <1>6, <1>11, <1>12 DEF Hidden
<1> QED BY <1>2, <1>5, <1>6, <1>11, <1>13

\* A handled name that is not hidden is found.
LEMMA HandledIsFound ==
  ASSUME TypeOK, TreeBuilt, server # "loading", NEW name \in Names,
         Handled(name), ~Hidden(name)
  PROVE  HasDomain(name)
<1> DEFINE d == Depth(name)
<1>1. /\ d \in 0..Len(name) /\ Len(name) \in Nat /\ Reached(name) = Prefix(name, d)
      /\ Reached(name) \in nodes
      /\ \A k \in 0..Len(name) : Prefix(name, k) \in nodes => k <= d
  BY DepthShape DEF Names, Reached
<1>2. PICK c \in Holding(name) : Closest(name) = Zones[c]
  BY ClosestExists
<1> DEFINE m == Len(Zones[c].name)
<1>3. c \in 1..Len(Zones) /\ m \in 0..Len(name) /\ Zones[c].name = Prefix(name, m)
  BY HoldingShape
<1>4. Zones[c].name \in DOMAIN domainAt /\ Zones[c].name \in nodes
  BY <1>3 DEF TreeBuilt, TypeOK
<1>5. m <= d
  BY <1>1, <1>3, <1>4
<1>6. CASE m = d
  BY <1>1, <1>3, <1>4, <1>6 DEF HasDomain
<1>7. CASE m < d
  <2>1. d \in 1..Len(name) /\ Len(Reached(name)) = d
    BY <1>1, <1>3, <1>7, PrefixShape
  <2>2. Len(<<>>) = 0
    OBVIOUS
  <2>3. PICK z \in 1..Len(Zones) : Reached(name) \in PathTo(Zones[z].name)
    BY <1>1, <2>1, <2>2 DEF TreeBuilt
  <2>4. PICK k \in 0..Len(Zones[z].name) : Reached(name) = Prefix(Zones[z].name, k)
    BY <2>3 DEF PathTo
  <2>5. Zones[z].name \in Names /\ Len(Zones[z].name) \in Nat
    <3>1. Zones[z].name \in Names
      BY ZoneShape
    <3> QED BY <3>1 DEF Names
  <2>6. k = d
    BY <2>1, <2>4, <2>5, PrefixShape
  <2>7. IsPrefixOf(Reached(name), Zones[z].name)
    BY <2>1, <2>4, <2>5, <2>6 DEF IsPrefixOf
  <2>8. Hidden(name)
    BY <1>1, <1>2, <1>7, <2>1, <2>7 DEF Hidden
  <2> QED BY <2>8
<1> QED BY <1>1, <1>3, <1>5, <1>6, <1>7

\* A name under a domain is the path of the domain followed by the key.
LEMMA KeyOfName ==
  ASSUME NEW name \in Names, NEW d \in 0..Len(name), NEW s \in Names
  PROVE  (Prefix(name, d) \o s = name) <=> (s = SubSeq(name, d + 1, Len(name)))
<1> DEFINE rest == SubSeq(name, d + 1, Len(name))
           whole == Prefix(name, d) \o s
<1>1. Len(name) \in Nat /\ Len(s) \in Nat /\ \A i \in 1..Len(name) : name[i] \in Labels
  BY DEF Names
<1>2. /\ rest \in Names /\ Len(rest) = Len(name) - d
      /\ \A i \in 1..Len(name) - d : rest[i] = name[d + i]
  <2>1. \A i \in d + 1..Len(name) : name[i] \in Labels
    BY <1>1
  <2>2. /\ rest \in Seq(Labels)
        /\ Len(rest) = IF d + 1 <= Len(name) THEN Len(name) - (d + 1) + 1 ELSE 0
        /\ \A i \in 1..Len(name) - (d + 1) + 1 : rest[i] = name[d + 1 + i - 1]
    BY <1>1, <2>1, SubSeqProperties
  <2> QED BY <1>1, <2>2 DEF Names
<1>3. /\ Prefix(name, d) \in Names /\ Len(Prefix(name, d)) = d
      /\ \A i \in 1..d : Prefix(name, d)[i] = name[i]
  BY PrefixShape
<1>4. /\ whole \in Names /\ Len(whole) = d + Len(s)
      /\ \A i \in 1..d + Len(s) : whole[i] = IF i <= d THEN name[i] ELSE s[i - d]
  <2>1. Prefix(name, d) \in Seq(Labels) /\ s \in Seq(Labels)
    BY <1>3 DEF Names
  <2>2. /\ whole \in Seq(Labels) /\ Len(whole) = Len(Prefix(name, d)) + Len(s)
        /\ \A i \in 1..Len(Prefix(name, d)) + Len(s) :
             whole[i] = IF i <= Len(Prefix(name, d)) THEN Prefix(name, d)[i]
                        ELSE s[i - Len(Prefix(name, d))]
    BY <2>1, ConcatProperties
  <2> HIDE DEF whole
  <2> QED BY <1>1, <1>3, <2>2 DEF Names
<1>5. ASSUME whole = name
      PROVE  s = rest
  <2>1. Len(s) = Len(name) - d
    BY <1>1, <1>4, <1>5
  <2>2. \A i \in 1..Len(s) : d + i \in 1..d + Len(s) /\ ~(d + i <= d) /\ d + i - d = i
    BY <1>1
  <2>3. \A i \in 1..Len(s) : s[i] = rest[i]
    <3>1. \A i \in 1..Len(s) : s[i] = whole[d + i]
      BY <1>4, <2>2
    <3>2. \A i \in 1..Len(s) : rest[i] = name[d + i]
      BY <1>2, <2>1
    <3> QED BY <1>5, <3>1, <3>2
  <2> QED BY <1>2, <2>1, <2>3, SameLabels
<1>6. ASSUME s = rest
      PROVE  whole = name
  <2>1. Len(whole) = Len(name)
    BY <1>1, <1>2, <1>4, <1>6
  <2>2. \A i \in 1..Len(name) : whole[i] = name[i]
    BY <1>1, <1>2, <1>4, <1>6
  <2> QED BY <1>4, <2>1, <2>2, SameLabels
<1> QED BY <1>5, <1>6

\* A lookup of all types returns what the files have for the name, unless it is hidden.
LEMMA LookupIsFile ==
  ASSUME TypeOK, TreeBuilt, server # "loading", NEW name \in Names
  PROVE  AllRecords(name) = IF Hidden(name) THEN {} ELSE FileRecords(name)
<1>1. CASE ~HasDomain(name)
  BY <1>1, HandledIsFound DEF AllRecords, FileRecords
<1>2. CASE HasDomain(name)
  <2>1. /\ Handled(name) /\ ~Hidden(name) /\ Closest(name).name = Reached(name)
        /\ domainAt[Reached(name)] = RecordsOf(Closest(name))
    BY <1>2, WalkFindsClosest
  <2>2. PICK i \in Holding(name) : Closest(name) = Zones[i]
    BY <2>1, ClosestExists
  <2>3. /\ RecordsOf(Closest(name)) \subseteq Records
        /\ \A r \in RecordsOf(Closest(name)) : r.fullName = Reached(name) \o r.name
    BY <2>1, <2>2, HoldingShape, ZoneShape
  <2>4. ASSUME NEW r \in RecordsOf(Closest(name))
        PROVE  r.fullName = name <=> r.name = Key(name)
    <3>1. r.name \in Names /\ r.fullName = Prefix(name, Depth(name)) \o r.name
      BY <2>3 DEF Records, Reached
    <3>2. Depth(name) \in 0..Len(name)
      BY DepthShape
    <3> QED BY <3>1, <3>2, KeyOfName DEF Key
  <2> QED BY <1>2, <2>1, <2>4 DEF AllRecords, FileRecords
<1> QED BY <1>1, <1>2

\* The reply to one query is what the files say.
LEMMA ReplyMatchesFiles ==
  ASSUME TypeOK, TreeBuilt, NEW q \in Queries, AnswerOwn(q)
  PROVE  OwnRepliesMatchFiles'
<1>1. /\ server # "loading" /\ HasDomain(q.name) /\ q.name \in Names
      /\ out' = {[kind |-> "own", to |-> q, answers |-> Answers(q),
                  authorities |-> Authorities(q), additionals |-> Additionals(q)]}
  BY QueryShape DEF AnswerOwn
<1>2. /\ Handled(q.name) /\ ~Hidden(q.name)
      /\ domainAt[Reached(q.name)] = RecordsOf(Closest(q.name))
  BY <1>1, WalkFindsClosest
<1>3. AllRecords(q.name) = FileRecords(q.name)
  BY <1>1, <1>2, LookupIsFile
<1>4. \A a \in Answers(q) :
        AllRecords(AdditionalKey(a)) =
          IF Hidden(AdditionalKey(a)) THEN {} ELSE FileRecords(AdditionalKey(a))
  <2>1. \A a \in Answers(q) : AdditionalKey(a) \in Names
    <3>1. <<>> \in Names
      BY EmptySeq DEF Names
    <3>2. \A a \in Answers(q) : a.data \in Names
      BY LookupTypes DEF Records
    <3> QED BY <3>1, <3>2 DEF AdditionalKey
  <2> QED BY <1>1, <2>1, LookupIsFile
<1>5. q.nip # <<>> => Answers(q) = {NipRecord(q)} /\ Additionals(q) = {}
  BY DEF Answers, Additionals
<1>6. q.nip = <<>> =>
        /\ Answers(q) = {x \in FileRecords(q.name) : x.type = q.type /\ x.class = q.class}
        /\ Additionals(q) = UNION {FileRecords(AdditionalKey(a)) :
                                     a \in {b \in Answers(q) : ~Hidden(AdditionalKey(b))}}
  BY <1>3, <1>4 DEF Answers, Additionals, GetRecord
<1>7. Authorities(q) =
        IF q.type = "NS" THEN {}
        ELSE {x \in RecordsOf(Closest(q.name)) :
                x.type = IF Answers(q) = {} THEN "SOA" ELSE "NS"}
  BY <1>2 DEF Authorities, OfType
<1> QED BY <1>1, <1>2, <1>5, <1>6, <1>7 DEF OwnRepliesMatchFiles

\* What is forwarded is in no zone, or hidden.
ForwardsForeignOrHidden ==
  server = "waiting" => ~Handled(query.name) \/ Hidden(query.name)

LookupInvariant == TreeBuilt /\ OwnRepliesMatchFiles /\ ForwardsForeignOrHidden

\* The invariant of the lookups: the tree is the one of the files, and both claims about
\* what is done with a query.
LEMMA LookupsSound == Spec => []LookupInvariant
<1>1. Init => LookupInvariant
  <2> SUFFICES ASSUME Init PROVE LookupInvariant
    OBVIOUS
  <2>1. TreeBuilt
    BY DEF Init, TreeBuilt
  <2> QED BY <2>1 DEF Init, LookupInvariant, OwnRepliesMatchFiles, ForwardsForeignOrHidden
<1>2. TypeOK /\ LookupInvariant /\ [Next]_vars => LookupInvariant'
  <2> SUFFICES ASSUME TypeOK, LookupInvariant, [Next]_vars PROVE LookupInvariant'
    OBVIOUS
  <2> USE DEF treeVars, linkVars, LookupInvariant
  <2>0. (server = "waiting") = (query # NoQuery)
    BY DEF TypeOK
  <2>1. CASE LoadZone
    BY <2>1, LoadKeepsTree DEF LoadZone, OwnRepliesMatchFiles, ForwardsForeignOrHidden
  <2>2. CASE Start
    BY <2>2 DEF Start, TreeBuilt, OwnRepliesMatchFiles, ForwardsForeignOrHidden
  <2>3. ASSUME NEW q \in Queries, AnswerOwn(q)
        PROVE  LookupInvariant'
    BY <2>3, ReplyMatchesFiles DEF AnswerOwn, TreeBuilt, ForwardsForeignOrHidden
  <2>4. ASSUME NEW q \in Queries, Forward(q)
        PROVE  LookupInvariant'
    <3>1. ~Handled(q.name) \/ Hidden(q.name)
      BY <2>4, QueryShape, HandledIsFound DEF Forward
    <3> QED BY <2>4, <3>1 DEF Forward, TreeBuilt, OwnRepliesMatchFiles, ForwardsForeignOrHidden
  <2>5. ASSUME NEW a \in Queries, Relay(a)
        PROVE  LookupInvariant'
    BY <2>5 DEF Relay, TreeBuilt, OwnRepliesMatchFiles, ForwardsForeignOrHidden
  <2>6. CASE RelayError
    BY <2>6 DEF RelayError, TreeBuilt, OwnRepliesMatchFiles, ForwardsForeignOrHidden
  <2>7. ASSUME NEW q \in Queries, Send(q) \/ ForeignAnswer(q) \/ ForeignRefuse(q) \/ Lose(q) \/ Copy(q)
        PROVE  LookupInvariant'
    <3>1. out' = {} /\ UNCHANGED <<treeVars, server, query>>
      BY <2>7 DEF Send, ForeignAnswer, ForeignRefuse, Lose, Copy
    <3> QED BY <3>1 DEF TreeBuilt, OwnRepliesMatchFiles, ForwardsForeignOrHidden
  <2>8. CASE UNCHANGED vars
    BY <2>8 DEF vars, TreeBuilt, OwnRepliesMatchFiles, ForwardsForeignOrHidden
  <2> QED BY <2>1, <2>2, <2>3, <2>4, <2>5, <2>6, <2>7, <2>8 DEF Next, Server, Environment
<1> QED BY <1>1, <1>2, TypeCorrect, PTL DEF Spec

\* What the server answers itself is what the zone files say, those of the closest zone.
THEOREM AnswersMatchFiles == Spec => []OwnRepliesMatchFiles
<1>1. LookupInvariant => OwnRepliesMatchFiles
  BY DEF LookupInvariant
<1> QED BY <1>1, LookupsSound, PTL

\* The extent of what ForwardsForeignOnly finds: what the server forwards although a zone
\* holds it is hidden by the path to a zone further down, and nothing else.
THEOREM ForwardsMatchFiles == Spec => []ForwardsForeignOrHidden
<1>1. LookupInvariant => ForwardsForeignOrHidden
  BY DEF LookupInvariant
<1> QED BY <1>1, LookupsSound, PTL
============================================================================
