------------------------------- MODULE SimpleChat -------------------------------
(***************************************************************************)
(* The chat server of lab5, serverpoll.cpp: one loop around poll() that    *)
(* accepts a connection, reads the clients that have something to say, and *)
(* tells everybody who came, left and changed the name.                    *)
(*                                                                         *)
(* A client stands for its connection and its descriptor.  What it says of *)
(* itself is one read long.  What it sees is kept as the number of users   *)
(* it can work out from the notices, and whose present name it was told.   *)
(* Operators marked "Variant" are slips the code avoids.                   *)
(***************************************************************************)
EXTENDS Integers, FiniteSets

CONSTANTS Clients,
          None,         \* an empty slot (descriptor -1), or nothing to read
          MaxSlots,     \* FD_SETSIZE - 1: client[0] is the listening socket
          MaxGhosts,    \* bound: calls of accept() that fail
          MaxWaiting,   \* bound: requests the server has not read
          Junk          \* what revents may hold before poll() has set it

ASSUME MaxSlotsAssumption == MaxSlots \in Nat \ {0}
ASSUME MaxGhostsAssumption == MaxGhosts \in Nat
ASSUME MaxWaitingAssumption == MaxWaiting \in Nat
ASSUME ClientsAssumption == IsFiniteSet(Clients) /\ None \notin Clients
ASSUME JunkAssumption == Junk \subseteq BOOLEAN /\ Junk # {}

VARIABLES
  slot,      \* client[i].fd
  revents,   \* client[i].revents, whether it has a flag that is asked for
  maxIndex,
  total,     \* totalUserCount
  nready,
  cursor,    \* i of the loop that reads
  phase,     \* "poll", "accept", "read" or "dead"
  conn,      \* the state of each connection, see below
  pending,   \* what a client has sent and the server has not read
  queue,     \* connections not yet accepted
  view,      \* users online, by the notices a client got
  knows,     \* those whose present name it was told
  ghosts     \* users counted for calls of accept() that failed

loopVars == <<revents, nready, cursor, phase>>
userVars == <<slot, maxIndex, total>>
peerVars == <<conn, pending, queue>>
screenVars == <<view, knows>>
vars == <<loopVars, userVars, peerVars, screenVars, ghosts>>

Slots == 1..MaxSlots
Requests == {"say", "name", "who", "bad"}

\* A connection is "free" before and after its life; "open"; "closed" when the
\* client has closed it, "written" when the server has written to it since, and
\* "broken" when that was answered with a reset; "reset" when the client has reset it
\* and "shut" when the server has been told so; "lost" when the server has accepted it
\* and has no place for it, so that nothing the client does shows any more.
ConnStates == {"free", "open", "closed", "written", "broken", "reset", "shut", "lost"}

Online == {slot[i] : i \in Slots} \ {None}

-----------------------------------------------------------------------------
(* What the server sends.                                                  *)

\* Variant: the loop ends before maxIndex.
ListenersShort(except) == {slot[i] : i \in 1..maxIndex - 1} \ {None, except}

\* Those the loop of broadcast() sends to.
Listeners(except) == {slot[i] : i \in 1..maxIndex} \ {None, except}

\* send() with MSG_NOSIGNAL to the clients of S.
Written(S) ==
  [c \in Clients |-> CASE c \in S /\ conn[c] = "closed" -> "written"
                       [] c \in S /\ conn[c] = "reset" -> "shut"
                       [] OTHER -> conn[c]]

Sees(c) == conn[c] = "open"

\* The notice that d has left.
TellLeft(S, d) ==
  /\ view' = [c \in Clients |-> IF c \in S /\ Sees(c) THEN view[c] - 1 ELSE view[c]]
  /\ knows' = [c \in Clients |-> knows[c] \ {d}]

\* The notice that the name of d has become another: who does not get it does not
\* know the present name.
TellName(S, d) ==
  /\ knows' = [c \in Clients |-> IF c \in S /\ Sees(c) THEN knows[c] \cup {d} ELSE knows[c] \ {d}]
  /\ UNCHANGED view

-----------------------------------------------------------------------------
(* The loop.                                                               *)

\* read() would not block.
Readable(c) == pending[c] # None \/ conn[c] # "open"

\* poll() returns when something is there, and sets revents of the entries it got.
Poll ==
  LET ready == {i \in 1..maxIndex : slot[i] # None /\ Readable(slot[i])}
      new == IF queue # {} THEN 1 ELSE 0
  IN /\ phase = "poll"
     /\ nready' = Cardinality(ready) + new
     /\ nready' > 0
     /\ revents' = [i \in Slots |-> IF i <= maxIndex THEN i \in ready ELSE revents[i]]
     /\ phase' = IF queue # {} THEN "accept" ELSE "read"
     /\ UNCHANGED <<cursor, userVars, peerVars, screenVars, ghosts>>

\* Variant: the new connection stays in the count of poll().
AfterAcceptUncounted == nready' = nready /\ phase' = "read"

\* "--nready", and the loop that reads if anything is left.
AfterAccept ==
  /\ nready' = nready - 1
  /\ phase' = IF nready' <= 0 THEN "poll" ELSE "read"

FreeSlots == {i \in Slots : slot[i] = None}
FirstFree == CHOOSE i \in FreeSlots : \A j \in FreeSlots : i <= j
AtLeast(i) == IF i > maxIndex THEN i ELSE maxIndex

\* accept() of c into an empty place.
Accept(c) ==
  /\ phase = "accept"
  /\ c \in queue
  /\ FreeSlots # {}
  /\ slot' = [slot EXCEPT ![FirstFree] = c]
  /\ maxIndex' = AtLeast(FirstFree)
  /\ total' = total + 1
  /\ LET others == {slot'[i] : i \in 1..maxIndex'} \ {None, c}
     IN /\ conn' = Written(others \cup {c})
        /\ view' = [d \in Clients |->
             IF ~Sees(d) THEN view[d] ELSE IF d = c THEN total' ELSE IF d \in others THEN view[d] + 1 ELSE view[d]]
        /\ knows' = [d \in Clients |-> IF Sees(d) /\ d \in others \cup {c} THEN knows[d] \cup {c} ELSE knows[d]]
  /\ queue' = queue \ {c}
  /\ AfterAccept
  /\ UNCHANGED <<pending, revents, cursor, ghosts>>

\* "too many clients!": the connection is accepted and nobody looks at it again.
AcceptNoPlace(c) ==
  /\ phase = "accept"
  /\ c \in queue
  /\ FreeSlots = {}
  /\ queue' = queue \ {c}
  /\ conn' = [conn EXCEPT ![c] = "lost"]
  /\ pending' = [pending EXCEPT ![c] = None]
  /\ AfterAccept
  /\ UNCHANGED <<userVars, screenVars, revents, cursor, ghosts>>

\* accept() fails, say for want of descriptors: the connection stays where it is, and
\* -1 is taken for a user.  Bounded by MaxGhosts.
AcceptFails ==
  /\ phase = "accept"
  /\ FreeSlots # {}
  /\ ghosts < MaxGhosts
  /\ ghosts' = ghosts + 1
  /\ maxIndex' = AtLeast(FirstFree)
  /\ total' = total + 1
  /\ LET others == {slot[i] : i \in 1..maxIndex'} \ {None}
     IN /\ conn' = Written(others)
        /\ view' = [d \in Clients |-> IF Sees(d) /\ d \in others THEN view[d] + 1 ELSE view[d]]
  /\ AfterAccept
  /\ UNCHANGED <<slot, knows, pending, queue, revents, cursor>>

\* accept() fails while the table is full: nobody is counted.
AcceptFailsNoPlace ==
  /\ phase = "accept"
  /\ FreeSlots = {}
  /\ AfterAccept
  /\ UNCHANGED <<userVars, peerVars, screenVars, revents, cursor, ghosts>>

\* The slots the loop would still read.
Flagged == {i \in Slots : i >= cursor /\ i <= maxIndex /\ slot[i] # None /\ revents[i]}
NextFlagged == CHOOSE i \in Flagged : \A j \in Flagged : i <= j

\* The loop never comes to its own end, maxIndex: nready has run out before
\* (ReadsWhatIsThere).

\* Variant: one client is read for each poll().
AfterReadOne == nready' = nready - 1 /\ phase' = "poll" /\ cursor' = 1

\* "--nready <= 0".
AfterRead ==
  /\ nready' = nready - 1
  /\ phase' = IF nready' <= 0 THEN "poll" ELSE "read"
  /\ cursor' = IF nready' <= 0 THEN 1 ELSE NextFlagged + 1

\* Variant: the place of a client that has left is not given back.
ReadEndKeepsSlot(c) ==
  /\ pending[c] = None
  /\ conn[c] \in {"closed", "written", "broken", "shut"}
  /\ total' = total - 1
  /\ conn' = [Written(Listeners(c)) EXCEPT ![c] = "free"]
  /\ TellLeft(Listeners(c), c)
  /\ AfterRead
  /\ UNCHANGED <<slot, maxIndex, pending>>

\* read() has given 0 bytes.
ReadEnd(c) ==
  /\ pending[c] = None
  /\ conn[c] \in {"closed", "written", "broken", "shut"}
  /\ slot' = [slot EXCEPT ![NextFlagged] = None]
  /\ total' = total - 1
  /\ conn' = [Written(Listeners(c)) EXCEPT ![c] = "free"]
  /\ TellLeft(Listeners(c), c)
  /\ AfterRead
  /\ UNCHANGED <<maxIndex, pending>>

\* A line to everybody, or the empty one that -1 of a reset connection is taken for.
ReadSay(c) ==
  /\ \/ pending[c] = "say" /\ pending' = [pending EXCEPT ![c] = None]
        /\ conn' = Written(Listeners(c))
     \/ pending[c] = None /\ conn[c] = "reset" /\ UNCHANGED pending
        /\ conn' = [Written(Listeners(c)) EXCEPT ![c] = "shut"]
  /\ AfterRead
  /\ UNCHANGED <<userVars, screenVars>>

\* Variant: the change of a name is told to who made it only.
ReadNameQuietly(c) ==
  /\ pending[c] = "name"
  /\ pending' = [pending EXCEPT ![c] = None]
  /\ conn' = Written({c})
  /\ TellName({c}, c)
  /\ AfterRead
  /\ UNCHANGED userVars

\* "/name "
ReadName(c) ==
  /\ pending[c] = "name"
  /\ pending' = [pending EXCEPT ![c] = None]
  /\ conn' = Written(Listeners(c) \cup {c})
  /\ TellName(Listeners(c) \cup {c}, c)
  /\ AfterRead
  /\ UNCHANGED userVars

\* "/who": the list is sent by write(), which raises a signal when the connection is
\* down.
ReadWho(c) ==
  /\ pending[c] = "who"
  /\ pending' = [pending EXCEPT ![c] = None]
  /\ IF conn[c] \in {"broken", "shut"}
     THEN phase' = "dead" /\ UNCHANGED <<conn, knows, nready, cursor>>
     ELSE /\ conn' = Written({c})
          /\ knows' = IF Sees(c) THEN [knows EXCEPT ![c] = Listeners(None)] ELSE knows
          /\ AfterRead
  /\ UNCHANGED <<userVars, view>>

\* An unknown command.
ReadBad(c) ==
  /\ pending[c] = "bad"
  /\ pending' = [pending EXCEPT ![c] = None]
  /\ conn' = Written({c})
  /\ AfterRead
  /\ UNCHANGED <<userVars, screenVars>>

Read ==
  /\ phase = "read"
  /\ Flagged # {}
  /\ LET c == slot[NextFlagged]
     IN ReadEnd(c) \/ ReadSay(c) \/ ReadName(c) \/ ReadWho(c) \/ ReadBad(c)
  /\ UNCHANGED <<revents, queue, ghosts>>

-----------------------------------------------------------------------------
(* The clients and the network.                                            *)

Connect(c) ==
  /\ conn[c] = "free"
  /\ conn' = [conn EXCEPT ![c] = "open"]
  /\ queue' = queue \cup {c}
  /\ UNCHANGED <<pending, loopVars, userVars, screenVars, ghosts>>

Request(c) ==
  /\ conn[c] = "open"
  /\ pending[c] = None
  /\ Cardinality({d \in Clients : pending[d] # None}) < MaxWaiting
  /\ \E r \in Requests : pending' = [pending EXCEPT ![c] = r]
  /\ UNCHANGED <<conn, queue, loopVars, userVars, screenVars, ghosts>>

\* The client is gone, and with it its screen; what it has sent is read first.
Leave(c) ==
  /\ conn[c] = "open"
  /\ \E s \in {"closed", "reset"} : conn' = [conn EXCEPT ![c] = s]
  /\ view' = [view EXCEPT ![c] = 0]
  /\ knows' = [knows EXCEPT ![c] = {}]
  /\ UNCHANGED <<pending, queue, loopVars, userVars, ghosts>>

\* The answer to what was written after the client had closed.
BreakDown(c) ==
  /\ conn[c] = "written"
  /\ conn' = [conn EXCEPT ![c] = "broken"]
  /\ UNCHANGED <<pending, queue, loopVars, userVars, screenVars, ghosts>>

Init ==
  /\ slot = [i \in Slots |-> None] /\ maxIndex = 0 /\ total = 0
  /\ revents \in [Slots -> Junk] /\ nready = 0 /\ cursor = 1 /\ phase = "poll"
  /\ conn = [c \in Clients |-> "free"] /\ pending = [c \in Clients |-> None] /\ queue = {}
  /\ view = [c \in Clients |-> 0] /\ knows = [c \in Clients |-> {}]
  /\ ghosts = 0

Server ==
  \/ Poll \/ Read \/ AcceptFails \/ AcceptFailsNoPlace
  \/ \E c \in queue : Accept(c) \/ AcceptNoPlace(c)

Peer(c) == phase # "dead" /\ (Connect(c) \/ Request(c) \/ Leave(c) \/ BreakDown(c))

Next == Server \/ \E c \in Clients : Peer(c)

\* The server is one process and runs on; nobody else has to do anything.
Spec == Init /\ [][Next]_vars /\ WF_vars(Server)

-----------------------------------------------------------------------------
(* Properties.                                                             *)

\* Every variable has its type.
TypeOK ==
  /\ slot \in [Slots -> Clients \cup {None}]
  /\ revents \in [Slots -> BOOLEAN]
  /\ maxIndex \in 0..MaxSlots
  /\ total \in Nat /\ nready \in Nat /\ cursor \in 1..MaxSlots + 1
  /\ phase \in {"poll", "accept", "read", "dead"}
  /\ conn \in [Clients -> ConnStates]
  /\ pending \in [Clients -> Requests \cup {None}]
  /\ queue \subseteq Clients
  /\ view \in [Clients -> Int]
  /\ knows \in [Clients -> SUBSET Clients]
  /\ ghosts \in 0..MaxGhosts

\* The loop reads only where there is something to read, so it never waits for one
\* client while others wait for it: whatever revents holds for the place a connection
\* has just been given, nready has run out before the loop comes there.
ReadsWhatIsThere == phase = "read" => Flagged # {} /\ Readable(slot[NextFlagged])

\* The number of users the server counts is the number of those it serves, and one
\* more for each accept() that failed; every user can work out the same number from
\* the welcome and the notices.
CountsAgree ==
  /\ total = Cardinality(Online) + ghosts
  /\ \A c \in Online : Sees(c) => view[c] = total

\* Who is online and has been told the present name of another keeps being told, and
\* is told the names of those who come.
NamesFollowed ==
  [][\A c, d \in Clients :
       c \in Online /\ Sees(c)' /\ d \in Online' /\ (d \in knows[c] \/ d \notin Online) => d \in knows'[c]]_vars

\* However much the others say, the server reads what a client has sent and sees that
\* it has gone, unless it has died of a signal.
EveryoneRead ==
  \A c \in Clients :
    c \in Online /\ Readable(c) ~> phase = "dead" \/ ~(c \in Online /\ Readable(c))
=============================================================================
