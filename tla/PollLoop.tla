------------------------------- MODULE PollLoop -------------------------------
(***************************************************************************)
(* Core::loop of hw1/chatServer: one poll() over the listening socket and  *)
(* the clients, at most one accept(), then a scan of the descriptors that  *)
(* poll() flagged, counting nready down.  What a client's line does to the *)
(* registry is ChatServer; here a read takes the client's input and may    *)
(* end the connection.  The kernel acts between any two steps: input and   *)
(* connection requests arrive while the loop is in the middle of a scan.   *)
(* Operators marked "Variant" are slips the code avoids.                   *)
(***************************************************************************)
EXTENDS Integers, FiniteSets

CONSTANTS Listen,       \* m_listenfd
          Clients,      \* descriptors accept() may return
          MaxBacklog,   \* bound: connection requests that wait
          MaxInput      \* bound: reads' worth of input that waits for a client

\* The listening socket is opened before any client is accepted, so its
\* descriptor is below theirs and the scan reaches it first.
ASSUME ListenAssumption == Listen \in Nat
ASSUME ClientsAssumption == Clients \subseteq Nat /\ \A c \in Clients : Listen < c
ASSUME FiniteAssumption == IsFiniteSet(Clients)
ASSUME BoundsAssumption == MaxBacklog \in Nat /\ MaxInput \in Nat

VARIABLES
  watched,   \* clients with m_client[c].fd = c
  backlog,   \* connection requests the kernel holds
  input,     \* what each client has sent that was not read, end of file included
  pc,        \* "poll", "connect" or "scan": where loop() is
  flagged,   \* descriptors whose revents the last poll() set
  nready,    \* the count poll() returned, as loop() decrements it
  cursor,    \* the scan's loop variable
  last       \* the descriptor receiveClient was last called with since poll()

kernelVars == <<backlog, input>>
loopVars == <<pc, flagged, nready, cursor>>
vars == <<watched, kernelVars, loopVars, last>>

Descriptors == Clients \cup {Listen}

\* Variant: every connected client is taken to be readable.
ReadableUnasked == watched \cup (IF backlog > 0 THEN {Listen} ELSE {})

\* What poll() finds readable.
Readable == {c \in watched : input[c] > 0} \cup (IF backlog > 0 THEN {Listen} ELSE {})

\* The flagged descriptors the scan has not come to.
Remaining == {d \in flagged : cursor <= d}

-----------------------------------------------------------------------------
(* The kernel.                                                             *)

Arrive(c) ==
  /\ c \in watched
  /\ input[c] < MaxInput
  /\ input' = [input EXCEPT ![c] = @ + 1]
  /\ UNCHANGED <<watched, backlog, loopVars, last>>

Request ==
  /\ backlog < MaxBacklog
  /\ backlog' = backlog + 1
  /\ UNCHANGED <<watched, input, loopVars, last>>

-----------------------------------------------------------------------------
(* The loop.                                                               *)

Flags == Readable

Poll ==
  /\ pc = "poll"
  /\ Readable # {}
  /\ flagged' = Flags
  /\ nready' = Cardinality(Readable)
  /\ pc' = "connect"
  /\ cursor' = 0
  /\ last' = Listen
  /\ UNCHANGED <<watched, kernelVars>>

\* Core::connect.  When no descriptor is left, accept() fails and the request stays.
AcceptOne ==
  IF Clients \subseteq watched
  THEN UNCHANGED <<watched, kernelVars>>
  ELSE \E c \in Clients \ watched :
         /\ watched' = watched \cup {c}
         /\ backlog' = backlog - 1
         /\ input' = [input EXCEPT ![c] = 0]

\* Variant: accept() is called whether or not the listening socket is flagged.
ConnectUnasked ==
  /\ pc = "connect"
  /\ AcceptOne
  /\ nready' = nready - 1
  /\ pc' = IF nready' <= 0 THEN "poll" ELSE "scan"
  /\ UNCHANGED <<flagged, cursor, last>>

\* The part of loop() before the scan.
Connect ==
  /\ pc = "connect"
  /\ IF Listen \in flagged
     THEN AcceptOne /\ nready' = nready - 1
     ELSE UNCHANGED <<watched, kernelVars, nready>>
  /\ pc' = IF nready' <= 0 THEN "poll" ELSE "scan"
  /\ UNCHANGED <<flagged, cursor, last>>

\* receiveClient.  A read of the listening socket fails and does nothing else.
Receive(d) ==
  IF d = Listen
  THEN UNCHANGED <<watched, input>>
  ELSE \/ input[d] > 0 /\ input' = [input EXCEPT ![d] = @ - 1] /\ UNCHANGED watched
       \/ input[d] > 0 /\ input' = [input EXCEPT ![d] = 0] /\ watched' = watched \ {d}

\* Variants: the count is decremented twice; the scan stops after one read.
CountDownTwice(d) == nready - 2
CountDownToZero(d) == 0

\* The count of what is left once the scan has read d.
CountDown(d) == nready - 1

\* The next flagged descriptor of the scan, in increasing order.
ScanOne(d) ==
  /\ pc = "scan"
  /\ d \in Remaining
  /\ \A e \in Remaining : d <= e
  /\ Receive(d)
  /\ nready' = CountDown(d)
  /\ pc' = IF nready' <= 0 THEN "poll" ELSE "scan"
  /\ cursor' = d + 1
  /\ last' = d
  /\ UNCHANGED <<backlog, flagged>>

\* The scan never runs out of descriptors with nready above zero: Remaining is not
\* empty while pc is "scan" (CountMatchesFlags), so the end of the for loop is not
\* an action of its own.

-----------------------------------------------------------------------------
Init ==
  /\ watched = {} /\ backlog = 0
  /\ input = [c \in Clients |-> 0]
  /\ pc = "poll" /\ flagged = {} /\ nready = 0 /\ cursor = 0
  /\ last = Listen

Server == Poll \/ Connect \/ \E d \in Descriptors : ScanOne(d)

Kernel == Request \/ \E c \in Clients : Arrive(c)

Next == Server \/ Kernel

\* The server thread runs; the kernel owes nothing.
Spec == Init /\ [][Next]_vars /\ WF_vars(Server)

-----------------------------------------------------------------------------
(* Properties.                                                             *)

\* Every variable has its type.
TypeOK ==
  /\ watched \subseteq Clients
  /\ backlog \in 0..MaxBacklog
  /\ input \in [Clients -> 0..MaxInput]
  /\ pc \in {"poll", "connect", "scan"}
  /\ flagged \subseteq Descriptors
  /\ nready \in Int
  /\ cursor \in Nat
  /\ last \in Descriptors

\* The count and the flags stay in step: until accept() it counts what is
\* flagged, and during the scan it is what is left, less one if the listening
\* socket was flagged: loop() counts that descriptor twice.
CountMatchesFlags ==
  /\ pc = "connect" => nready = Cardinality(flagged) /\ nready > 0 /\ cursor = 0
  /\ pc = "scan" =>
       /\ nready > 0
       /\ nready = Cardinality(Remaining) - (IF Listen \in flagged THEN 1 ELSE 0)

\* read() and accept() never block the only thread: a flagged client the scan has
\* yet to reach is still connected and still has input, and a flagged listening
\* socket still has its request.
NeverBlocks ==
  /\ pc \in {"connect", "scan"} =>
       \A c \in Remaining \ {Listen} : c \in watched /\ input[c] > 0
  /\ pc = "connect" /\ Listen \in flagged => backlog > 0

\* The scan leaves a flagged descriptor unread only when the listening socket was
\* flagged too, and then it leaves exactly the highest one.
LeavesAtMostTheHighest ==
  [][pc # "poll" /\ pc' = "poll" =>
       LET left == {d \in flagged : cursor' <= d}
       IN left # {} => Listen \in flagged /\ Cardinality(left) = 1]_vars

\* When connection requests eventually stop, a connected client that sent
\* something is eventually read.
InputIsRead ==
  <>[](backlog = 0) => \A c \in Clients : (c \in watched /\ input[c] > 0) ~> (last = c)
=============================================================================
