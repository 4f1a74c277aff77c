----------------------------- MODULE DnsServer -----------------------------
(***************************************************************************)
(* The DNS server of hw2: the tree of domains that is built from the zone  *)
(* files, the lookups in it, and the loop that answers a query itself or   *)
(* asks the foreign server and blocks until one datagram comes back.       *)
(*                                                                         *)
(* A name is the sequence of its labels with the root first, the order in  *)
(* which the tree is walked.  TTLs, the layout of messages and their size  *)
(* are left out, as is the order of the records within a section.          *)
(* Operators marked "Variant" are slips the code avoids.                   *)
(***************************************************************************)
EXTENDS Naturals, Sequences

CONSTANTS Labels,
          Zones,      \* the zone files in the order of the configuration
          Queries,    \* what clients may ask
          NoQuery,
          MaxInbox,   \* room in the server's socket buffer
          MaxCopies   \* datagrams of the foreign link that arrive twice

Names == Seq(Labels)
Types == {"A", "AAAA", "NS", "CNAME", "SOA", "MX", "TXT"}
Classes == {"IN", "CS", "CH", "HS"}

\* A line of a zone file; "data" is the name or address that its data hold.
Lines == [name : Names, class : Classes, type : Types, data : Names]

\* "nip" is the address in front of a name that the regular expression matches,
\* "name" what follows it; "id" tells datagrams of the same content apart.
QuerySet == [id : Nat, nip : Names, name : Names,
             type : Types \cup {"OTHER"}, class : Classes]

ASSUME ZonesAssumption == Zones \in Seq([name : Names \ {<<>>}, lines : SUBSET Lines])
ASSUME QueriesAssumption == Queries \subseteq QuerySet /\ NoQuery \notin QuerySet
ASSUME BoundsAssumption == MaxInbox \in Nat /\ MaxCopies \in Nat

VARIABLES
  loaded,     \* lines of the configuration that were read
  nodes,      \* paths of the nodes of m_tree
  domainAt,   \* records of the nodes that have a domain
  server,     \* "loading", "receiving" or "waiting" in the second recv()
  query,      \* the query the server waits for, or NoQuery
  inbox,      \* queries in the buffer of m_socketFd
  asked,      \* copies of each query on their way to the foreign server
  answered,   \* copies of its answer on their way back, or in the socket
  refused,    \* the foreign socket has a pending ECONNREFUSED
  copied,     \* how often the network copied a datagram
  lost,       \* a forwarded query or an answer was lost
  out         \* what the last step sent to a client, if anything

treeVars == <<loaded, nodes, domainAt>>
linkVars == <<asked, answered, refused, copied, lost>>
vars == <<treeVars, server, query, inbox, linkVars, out>>

Prefix(name, k) == SubSeq(name, 1, k)
Add(f, q) == [f EXCEPT ![q] = @ + 1]
Remove(f, q) == [f EXCEPT ![q] = @ - 1]

-----------------------------------------------------------------------------
(* The zone files.                                                         *)

\* "HS" becomes CS.
ClassCode(class) == IF class = "HS" THEN "CS" ELSE class

Record(zone, line) ==
  [fullName |-> zone.name \o line.name, name |-> line.name, type |-> line.type,
   class |-> ClassCode(line.class), data |-> line.data]

RecordsOf(zone) == {Record(zone, line) : line \in zone.lines}

\* Variant: the value is set, the last node is not made.
PathAbove(name) == {Prefix(name, k) : k \in 0..(Len(name) - 1)}

\* The nodes that insert() walks through.
PathTo(name) == {Prefix(name, k) : k \in 0..Len(name)}

LoadZone ==
  /\ server = "loading"
  /\ loaded < Len(Zones)
  /\ loaded' = loaded + 1
  /\ LET zone == Zones[loaded']
     IN /\ nodes' = nodes \cup PathTo(zone.name)
        /\ domainAt' = [path \in DOMAIN domainAt \cup {zone.name} |->
                          IF path = zone.name THEN RecordsOf(zone) ELSE domainAt[path]]
  /\ UNCHANGED <<server, query, inbox, linkVars, out>>

\* The socket is bound once the files are read.
Start ==
  /\ server = "loading"
  /\ loaded = Len(Zones)
  /\ server' = "receiving"
  /\ UNCHANGED <<treeVars, query, inbox, linkVars, out>>

-----------------------------------------------------------------------------
(* Lookups.                                                                *)

\* How many labels the walk follows before it meets one without a node.
Depth(name) ==
  CHOOSE d \in 0..Len(name) :
    /\ \A k \in 0..d : Prefix(name, k) \in nodes
    /\ d < Len(name) => Prefix(name, d + 1) \notin nodes

Reached(name) == Prefix(name, Depth(name))

\* getDomain() is not null.
HasDomain(name) == Reached(name) \in DOMAIN domainAt

\* Variant: one label too many is taken for the path.
KeyTooShort(name) == SubSeq(name, Depth(name) + 2, Len(name))

\* What is left of the name when the walk ends.
Key(name) == SubSeq(name, Depth(name) + 1, Len(name))

\* getRecord() without a type.
AllRecords(name) ==
  IF HasDomain(name) THEN {r \in domainAt[Reached(name)] : r.name = Key(name)} ELSE {}

GetRecord(name, type, class) ==
  {r \in AllRecords(name) : r.type = type /\ r.class = class}

OfType(name, type) == {r \in domainAt[Reached(name)] : r.type = type}

AdditionalKey(record) == IF record.type = "SOA" THEN <<>> ELSE record.data

NipRecord(q) ==
  [fullName |-> q.name \o q.nip, name |-> <<>>, type |-> "A", class |-> "IN", data |-> q.nip]

Answers(q) ==
  IF q.nip = <<>> THEN GetRecord(q.name, q.type, q.class) ELSE {NipRecord(q)}

\* No additional records for an address of the nip.io kind.
Additionals(q) ==
  IF q.nip = <<>> THEN UNION {AllRecords(AdditionalKey(a)) : a \in Answers(q)} ELSE {}

Authorities(q) ==
  IF q.type = "NS" THEN {}
  ELSE IF Answers(q) = {} THEN OfType(q.name, "SOA") ELSE OfType(q.name, "NS")

-----------------------------------------------------------------------------
(* The loop of the server.                                                 *)

AnswerOwn(q) ==
  /\ server = "receiving"
  /\ inbox # <<>> /\ Head(inbox) = q
  /\ HasDomain(q.name)
  /\ inbox' = Tail(inbox)
  /\ out' = {[kind |-> "own", to |-> q, answers |-> Answers(q),
              authorities |-> Authorities(q), additionals |-> Additionals(q)]}
  /\ UNCHANGED <<treeVars, server, query, linkVars>>

\* A pending error is reported by send(), which then sends nothing.
Forward(q) ==
  /\ server = "receiving"
  /\ inbox # <<>> /\ Head(inbox) = q
  /\ ~HasDomain(q.name)
  /\ inbox' = Tail(inbox)
  /\ server' = "waiting"
  /\ query' = q
  /\ asked' = IF refused THEN asked ELSE Add(asked, q)
  /\ lost' = (lost \/ refused)
  /\ refused' = FALSE
  /\ out' = {}
  /\ UNCHANGED <<treeVars, answered, copied>>

\* The first datagram from the foreign server is relayed, whatever it answers.
Relay(a) ==
  /\ server = "waiting"
  /\ answered[a] > 0
  /\ answered' = Remove(answered, a)
  /\ server' = "receiving"
  /\ query' = NoQuery
  /\ out' = {[kind |-> "relay", to |-> query, of |-> a]}
  /\ UNCHANGED <<treeVars, inbox, asked, refused, copied, lost>>

\* Variant: the second recv() has a timeout.
RelayTimeout ==
  /\ server = "waiting"
  /\ refused' = FALSE
  /\ server' = "receiving"
  /\ query' = NoQuery
  /\ out' = {[kind |-> "nothing", to |-> query]}
  /\ UNCHANGED <<treeVars, inbox, asked, answered, copied, lost>>

\* Variant: an error only makes the server wait again.
WaitAgain ==
  /\ server = "waiting"
  /\ refused
  /\ refused' = FALSE
  /\ out' = {}
  /\ UNCHANGED <<treeVars, server, query, inbox, asked, answered, copied, lost>>

\* recv() returns -1; sendto() with this length fails and nothing leaves.
RelayError ==
  /\ server = "waiting"
  /\ refused
  /\ refused' = FALSE
  /\ server' = "receiving"
  /\ query' = NoQuery
  /\ out' = {[kind |-> "nothing", to |-> query]}
  /\ UNCHANGED <<treeVars, inbox, asked, answered, copied, lost>>

Server ==
  \/ LoadZone \/ Start \/ RelayError
  \/ \E q \in Queries : AnswerOwn(q) \/ Forward(q) \/ Relay(q)

-----------------------------------------------------------------------------
(* Clients, the foreign server and the network between it and this one.    *)
(* A client's query that is lost is one that was not sent.                 *)

Send(q) ==
  /\ server # "loading"
  /\ Len(inbox) < MaxInbox
  /\ inbox' = Append(inbox, q)
  /\ out' = {}
  /\ UNCHANGED <<treeVars, server, query, linkVars>>

ForeignAnswer(q) ==
  /\ asked[q] > 0
  /\ asked' = Remove(asked, q)
  /\ answered' = Add(answered, q)
  /\ out' = {}
  /\ UNCHANGED <<treeVars, server, query, inbox, refused, copied, lost>>

\* Nobody listens at the foreign server's port.
ForeignRefuse(q) ==
  /\ asked[q] > 0
  /\ asked' = Remove(asked, q)
  /\ refused' = TRUE
  /\ out' = {}
  /\ UNCHANGED <<treeVars, server, query, inbox, answered, copied, lost>>

Lose(q) ==
  /\ \/ asked[q] > 0 /\ asked' = Remove(asked, q) /\ UNCHANGED answered
     \/ answered[q] > 0 /\ answered' = Remove(answered, q) /\ UNCHANGED asked
  /\ lost' = TRUE
  /\ out' = {}
  /\ UNCHANGED <<treeVars, server, query, inbox, refused, copied>>

Copy(q) ==
  /\ copied < MaxCopies
  /\ \/ asked[q] > 0 /\ asked' = Add(asked, q) /\ UNCHANGED answered
     \/ answered[q] > 0 /\ answered' = Add(answered, q) /\ UNCHANGED asked
  /\ copied' = copied + 1
  /\ out' = {}
  /\ UNCHANGED <<treeVars, server, query, inbox, refused, lost>>

Environment ==
  \E q \in Queries : Send(q) \/ ForeignAnswer(q) \/ ForeignRefuse(q) \/ Lose(q) \/ Copy(q)

Init ==
  /\ loaded = 0 /\ nodes = {<<>>} /\ domainAt = [path \in {} |-> {}]
  /\ server = "loading" /\ query = NoQuery /\ inbox = <<>>
  /\ asked = [q \in Queries |-> 0] /\ answered = [q \in Queries |-> 0]
  /\ refused = FALSE /\ copied = 0 /\ lost = FALSE /\ out = {}

Next == Server \/ Environment

\* The process runs, and the foreign server answers or refuses what reaches it.
Fairness ==
  /\ WF_vars(Server)
  /\ \A q \in Queries : WF_vars(ForeignAnswer(q) \/ ForeignRefuse(q))

Spec == Init /\ [][Next]_vars
FairSpec == Spec /\ Fairness

-----------------------------------------------------------------------------
(* What a configuration promises, without the tree.                        *)

IsPrefixOf(s, t) == Len(s) <= Len(t) /\ Prefix(t, Len(s)) = s

Holding(name) == {i \in 1..Len(Zones) : IsPrefixOf(Zones[i].name, name)}
Handled(name) == Holding(name) # {}

\* The most specific zone, and of two files for one domain the later one.
Closest(name) ==
  Zones[CHOOSE i \in Holding(name) :
          \A j \in Holding(name) :
            \/ Len(Zones[j].name) < Len(Zones[i].name)
            \/ Zones[j].name = Zones[i].name /\ j <= i]

\* A handled name whose walk goes on past the closest zone, along the path to one
\* further down: getDomain() ends at a node without a domain.
Hidden(name) ==
  /\ Handled(name)
  /\ \E i \in 1..Len(Zones), k \in 1..Len(name) :
       /\ k > Len(Closest(name).name)
       /\ IsPrefixOf(Prefix(name, k), Zones[i].name)

FileRecords(name) ==
  IF Handled(name)
  THEN {r \in RecordsOf(Closest(name)) : r.fullName = name}
  ELSE {}

-----------------------------------------------------------------------------
(* Properties.                                                             *)

Records ==
  [fullName : Names, name : Names, type : Types, class : Classes, data : Names]

Replies ==
  [kind : {"own"}, to : Queries, answers : SUBSET Records,
   authorities : SUBSET Records, additionals : SUBSET Records]
  \cup [kind : {"relay"}, to : Queries, of : Queries]
  \cup [kind : {"nothing"}, to : Queries]

\* The type invariant.  Domains hang on nodes of the tree, and the tree has every
\* node on the way to one (DomainManager::insert), so that a walk ends at one node.
TypeOK ==
  /\ loaded \in 0..Len(Zones)
  /\ nodes \subseteq Names /\ <<>> \in nodes
  /\ \A path \in nodes : PathTo(path) \subseteq nodes
  /\ DOMAIN domainAt \subseteq nodes
  /\ \A path \in DOMAIN domainAt : domainAt[path] \subseteq Records
  /\ server \in {"loading", "receiving", "waiting"}
  /\ query \in Queries \cup {NoQuery} /\ (server = "waiting") = (query # NoQuery)
  /\ inbox \in Seq(Queries) /\ Len(inbox) <= MaxInbox
  /\ asked \in [Queries -> Nat] /\ answered \in [Queries -> Nat]
  /\ refused \in BOOLEAN /\ copied \in 0..MaxCopies /\ lost \in BOOLEAN
  /\ out \subseteq Replies /\ \A r, s \in out : r = s

\* What the server answers itself is what the zone files say: for a name under
\* the closest zone the records of that name, type and class; the address of a
\* nip.io name under it; the zone's SOA or NS; and all records of the names that
\* answers refer to, but for the hidden ones, which are not found.  HS records are read
\* as CS (DataBase.cpp:12), so nothing is claimed for these two classes.
OwnRepliesMatchFiles ==
  \A r \in out : r.kind = "own" =>
    LET q == r.to
        Section(type) == {x \in RecordsOf(Closest(q.name)) : x.type = type}
    IN /\ Handled(q.name)
       /\ q.nip # <<>> => r.answers = {NipRecord(q)} /\ r.additionals = {}
       /\ q.nip = <<>> =>
            /\ q.class \in {"IN", "CH"} =>
                 r.answers = {x \in FileRecords(q.name) : x.type = q.type /\ x.class = q.class}
            /\ r.additionals = UNION {FileRecords(AdditionalKey(a)) :
                                          a \in {b \in r.answers : ~Hidden(AdditionalKey(b))}}
       /\ r.authorities = IF q.type = "NS" THEN {}
                          ELSE Section(IF r.answers = {} THEN "SOA" ELSE "NS")

\* hw2/README.md:22: "For domains not handled by your server, your DNS server has to
\* forward the request", and :20 has it respond to the others itself: what is
\* forwarded is in no zone.  The code forwards the hidden names of a zone, too.
ForwardsForeignOnly ==
  server = "waiting" => ~Handled(query.name)

\* The loop compares no ids.  As long as the network makes no copies, a client is
\* still given the answer to its own query: nothing of an earlier query is on its way
\* or in the socket when the next is forwarded.
RelaysMatchUnlessCopied ==
  copied = 0 => \A r \in out : r.kind = "relay" => r.of = r.to

Waits(q) == \E i \in 1..Len(inbox) : inbox[i] = q
Done(q) == \E r \in out : r.to = q

\* Every query that is received is dealt with, as long as nothing on the foreign link is lost.
QueriesServed ==
  \A q \in Queries : Waits(q) ~> (Done(q) \/ lost)

\* hw2/README.md:20: "Your DNS server should respond to a query if a queried domain
\* is handled by your server".  It does not while it waits for an answer that was lost.
OwnQueriesAnswered ==
  \A q \in Queries : (Handled(q.name) /\ Waits(q)) ~> Done(q)
============================================================================
