-------------------------- MODULE ThroughputServer --------------------------
(***************************************************************************)
(* The server of lab6: one thread that polls a command channel and a data  *)
(* sink in turn, a byte counter, and the number of sink connections.       *)
(*                                                                         *)
(* The two poll tables are indexed by descriptor, and a descriptor that one *)
(* closes may be given to a client of the other.  The kernel and the       *)
(* clients act between any two steps of the thread.  Replies are what they *)
(* report; time and rates are left out.                                    *)
(* Operators marked "Variant" are slips the code avoids.                   *)
(***************************************************************************)
EXTENDS Integers, FiniteSets

CONSTANTS Cmd, Sink,    \* m_listenfdCmd, m_listenfdSink
          Clients,      \* descriptors accept() may return
          Modulus,      \* of unsigned long long, 2^64 in the code
          MaxSent,      \* bound: bytes that sink clients send
          MaxLines,     \* bound: lines that wait for a command client
          MaxRequests   \* bound: connection requests in a behaviour

\* The listening sockets are opened first.
ASSUME ListenAssumption == Cmd \in Nat /\ Sink \in Nat /\ Cmd < Sink
ASSUME ClientsAssumption == Clients \subseteq Nat /\ \A c \in Clients : Sink < c
ASSUME FiniteAssumption == IsFiniteSet(Clients)
ASSUME ModulusAssumption == Modulus \in Nat \ {0}
ASSUME BoundsAssumption == MaxSent \in Nat /\ MaxLines \in Nat /\ MaxRequests \in Nat

VARIABLES
  slots,        \* for each table the descriptors with fd >= 0
  turn,         \* the table loop() is at: "cmd" or "sink"
  cursor,       \* the scan's loop variable, or Polling
  flagged,      \* descriptors whose revents the last poll() set
  nready,       \* its count, as the code decrements it
  counter,      \* m_counter
  sinkClients,  \* m_sinkClientCount
  reported,     \* sum of the counts that /reset replied
  failed,       \* reads of the sink that returned -1
  waiting,      \* connection requests the kernel holds for each table
  requests,     \* connection requests so far
  input,        \* what each client sent that was not read: bytes or lines
  peer,         \* state of each connection: "free", "open", "closed" or "reset"
  sent          \* bytes that sink clients sent

loopVars == <<turn, cursor, flagged, nready>>
countVars == <<counter, reported, failed>>
kernelVars == <<waiting, requests, input, peer, sent>>
vars == <<slots, sinkClients, loopVars, countVars, kernelVars>>

Tables == {"cmd", "sink"}
Listen(t) == IF t = "cmd" THEN Cmd ELSE Sink
Other(t) == IF t = "cmd" THEN "sink" ELSE "cmd"
Polling == -1

Free == {c \in Clients : peer[c] = "free"}

-----------------------------------------------------------------------------
(* Clients and kernel.                                                     *)

Request(t) ==
  /\ requests < MaxRequests
  /\ Cardinality(Free) > waiting["cmd"] + waiting["sink"]
  /\ requests' = requests + 1
  /\ waiting' = [waiting EXCEPT ![t] = @ + 1]
  /\ UNCHANGED <<slots, sinkClients, loopVars, countVars, input, peer, sent>>

SendBytes(c) ==
  /\ peer[c] = "open" /\ c \in slots["sink"]
  /\ sent < MaxSent
  /\ sent' = sent + 1
  /\ input' = [input EXCEPT ![c] = @ + 1]
  /\ UNCHANGED <<slots, sinkClients, loopVars, countVars, waiting, requests, peer>>

SendLine(c) ==
  /\ peer[c] = "open" /\ c \in slots["cmd"]
  /\ input[c] < MaxLines
  /\ input' = [input EXCEPT ![c] = @ + 1]
  /\ UNCHANGED <<slots, sinkClients, loopVars, countVars, waiting, requests, peer, sent>>

\* The client closes its end, or the connection is reset.
Leave(c) ==
  /\ peer[c] = "open"
  /\ peer' \in {[peer EXCEPT ![c] = e] : e \in {"closed", "reset"}}
  /\ UNCHANGED <<slots, sinkClients, loopVars, countVars, waiting, requests, input, sent>>

-----------------------------------------------------------------------------
(* One read() of a flagged descriptor.                                     *)

\* The reply goes out and nothing else changes: /ping, /report, /clients, other input,
\* a read that failed.
NoCount == UNCHANGED countVars

\* Variant: a reset forgets what it reports.
ResetOnly == counter' = 0 /\ UNCHANGED <<reported, failed>>

\* /reset
ResetCounter ==
  /\ reported' = (reported + counter) % Modulus
  /\ counter' = 0
  /\ UNCHANGED failed

\* All that waits is one read; the command is the one it starts with.
ReadLine(c) ==
  /\ c \in Clients /\ input[c] > 0
  /\ input' = [input EXCEPT ![c] = 0]
  /\ ResetCounter \/ NoCount
  /\ UNCHANGED <<slots, sinkClients, peer>>

ReadBytes(c) ==
  /\ c \in Clients /\ input[c] > 0
  /\ \E n \in 1..input[c] :
       /\ input' = [input EXCEPT ![c] = @ - n]
       /\ counter' = (counter + n) % Modulus
  /\ UNCHANGED <<slots, sinkClients, reported, failed, peer>>

\* read() returns -1: for a listening socket always, once for a connection that was reset.
\* The sink adds it to the counter.
ReadFails(t, c) ==
  /\ \/ c = Listen(t) /\ UNCHANGED peer
     \/ /\ c \in Clients /\ input[c] = 0 /\ peer[c] = "reset"
        /\ peer' = [peer EXCEPT ![c] = "closed"]
  /\ IF t = "sink"
     THEN counter' = (counter - 1) % Modulus /\ failed' = failed + 1 /\ UNCHANGED reported
     ELSE NoCount
  /\ UNCHANGED <<slots, sinkClients, input>>

\* Variant: the descriptor is closed and its slot kept.
DisconnectKeepsSlot(t, c) ==
  /\ c \in Clients /\ input[c] = 0 /\ peer[c] = "closed"
  /\ peer' = [peer EXCEPT ![c] = "free"]
  /\ sinkClients' = IF t = "sink" THEN sinkClients - 1 ELSE sinkClients
  /\ UNCHANGED <<slots, countVars, input>>

\* Variant: one function closes the clients of both tables, and counts them all.
DisconnectCountsBoth(t, c) ==
  /\ c \in Clients /\ input[c] = 0 /\ peer[c] = "closed"
  /\ slots' = [slots EXCEPT ![t] = @ \ {c}]
  /\ peer' = [peer EXCEPT ![c] = "free"]
  /\ sinkClients' = sinkClients - 1
  /\ UNCHANGED <<countVars, input>>

\* clientCmdDisconnect, clientSinkDisconnect
Disconnect(t, c) ==
  /\ c \in Clients /\ input[c] = 0 /\ peer[c] = "closed"
  /\ slots' = [slots EXCEPT ![t] = @ \ {c}]
  /\ peer' = [peer EXCEPT ![c] = "free"]
  /\ sinkClients' = IF t = "sink" THEN sinkClients - 1 ELSE sinkClients
  /\ UNCHANGED <<countVars, input>>

Read(t, c) ==
  \/ t = "cmd" /\ ReadLine(c)
  \/ t = "sink" /\ ReadBytes(c)
  \/ ReadFails(t, c)
  \/ Disconnect(t, c)

-----------------------------------------------------------------------------
(* loopCmd and loopSink.                                                   *)

Readable(t) ==
  {c \in slots[t] \cap Clients : input[c] > 0 \/ peer[c] \in {"closed", "reset"}}
  \cup (IF waiting[t] > 0 THEN {Listen(t)} ELSE {})

\* Variant: revents of the table before is not cleared.
FlagsKept(t) == flagged \cup Readable(t)

Flags(t) == Readable(t)

\* accept() returns the lowest descriptor that is free.
Accept(t) ==
  \E c \in Free :
    /\ \A d \in Free : c <= d
    /\ slots' = [slots EXCEPT ![t] = @ \cup {c}]
    /\ peer' = [peer EXCEPT ![c] = "open"]
    /\ waiting' = [waiting EXCEPT ![t] = @ - 1]
    /\ sinkClients' = IF t = "sink" THEN sinkClients + 1 ELSE sinkClients

NextTable == turn' = Other(turn) /\ cursor' = Polling /\ nready' = 0

Poll ==
  /\ cursor = Polling
  /\ flagged' = Flags(turn)
  /\ LET new == Listen(turn) \in flagged'
         left == Cardinality(flagged') - (IF new THEN 1 ELSE 0)
     IN /\ IF new THEN Accept(turn) ELSE UNCHANGED <<slots, peer, waiting, sinkClients>>
        /\ IF left <= 0
           THEN NextTable
           ELSE nready' = left /\ cursor' = 0 /\ UNCHANGED turn
  /\ UNCHANGED <<countVars, requests, input, sent>>

\* The slots the scan has yet to come to that are flagged.
Remaining == {c \in slots[turn] \cap flagged : cursor <= c}

\* Variant: the scan returns after one read.
CountDownToZero == 0

CountDown == nready - 1

ScanOne(c) ==
  /\ cursor # Polling
  /\ c \in Remaining /\ \A d \in Remaining : c <= d
  /\ Read(turn, c)
  /\ IF CountDown <= 0
     THEN NextTable
     ELSE nready' = CountDown /\ cursor' = c + 1 /\ UNCHANGED turn
  /\ UNCHANGED <<flagged, waiting, requests, sent>>

\* The for loop ends only by its return: NeverBlocks.
-----------------------------------------------------------------------------
Init ==
  /\ slots = [t \in Tables |-> {Listen(t)}]
  /\ turn = "cmd" /\ cursor = Polling /\ flagged = {} /\ nready = 0
  /\ counter = 0 /\ sinkClients = 0 /\ reported = 0 /\ failed = 0
  /\ waiting = [t \in Tables |-> 0] /\ requests = 0 /\ sent = 0
  /\ input = [c \in Clients |-> 0] /\ peer = [c \in Clients |-> "free"]

Server == Poll \/ \E c \in Clients \cup {Cmd, Sink} : ScanOne(c)

Environment ==
  \/ \E t \in Tables : Request(t)
  \/ \E c \in Clients : SendBytes(c) \/ SendLine(c) \/ Leave(c)

Next == Server \/ Environment

\* The thread runs; clients and kernel owe nothing.
Spec == Init /\ [][Next]_vars /\ WF_vars(Server)

-----------------------------------------------------------------------------
(* Properties.                                                             *)

\* Types, and that each descriptor is in at most one table, and there exactly while
\* its connection is not closed by the server.
TypeOK ==
  /\ slots \in [Tables -> SUBSET (Clients \cup {Cmd, Sink})]
  /\ \A t \in Tables : slots[t] \ Clients = {Listen(t)}
  /\ slots["cmd"] \cap slots["sink"] = {}
  /\ (slots["cmd"] \cup slots["sink"]) \cap Clients = Clients \ Free
  /\ turn \in Tables /\ cursor \in Nat \cup {Polling} /\ nready \in Nat
  /\ flagged \subseteq Clients \cup {Cmd, Sink}
  /\ counter \in 0..(Modulus - 1) /\ reported \in 0..(Modulus - 1) /\ failed \in Nat
  /\ sinkClients \in Int
  /\ waiting \in [Tables -> Nat] /\ requests \in 0..MaxRequests /\ sent \in 0..MaxSent
  /\ input \in [Clients -> Nat]
  /\ peer \in [Clients -> {"free", "open", "closed", "reset"}]

\* /clients reports the sink connections that are there (m_sinkClientCount), whichever
\* table had their descriptors before.
ClientsCounted == sinkClients = Cardinality(slots["sink"]) - 1

\* The bytes that wait for the sink: the k-th of what client c has sent.
UnreadBytes == UNION {{c} \X (1..input[c]) : c \in slots["sink"] \cap Clients}

Unread == Cardinality(UnreadBytes)

\* The replies to /reset, the counter and what is still unread account for every byte sent,
\* except that each failed read of the sink takes one off: no byte is counted twice or
\* dropped when a client leaves or its descriptor changes hands.
BytesAccounted == (reported + counter + failed + Unread) % Modulus = sent % Modulus

\* A scan with nready above zero has a flagged slot to come to, and none of its reads blocks
\* the thread: not for a descriptor that was closed or given away since poll().
NeverBlocks ==
  cursor # Polling =>
    /\ nready > 0 /\ Remaining # {}
    /\ \A c \in Remaining \cap Clients : input[c] > 0 \/ peer[c] \in {"closed", "reset"}

\* What a client sent is read in the end, and a client that left is dropped.
ClientsServed ==
  \A c \in Clients :
    /\ input[c] > 0 ~> input[c] = 0
    /\ peer[c] = "closed" ~> peer[c] = "free"

============================================================================
