------------------------------ MODULE RobustUdp ------------------------------
(***************************************************************************)
(* The file transfer of lab8: dg_cli of client.cpp and dg_echo of          *)
(* server.cpp over a link that loses, delays, reorders and duplicates.     *)
(*                                                                         *)
(* The client holds the packets 0..Last, the last one shorter than MAXLINE, *)
(* and sends what is not acknowledged round after round.  Before every     *)
(* Stride-th packet of a round it takes the replies that have arrived.     *)
(* The server answers each datagram, keeps those it still needs, and       *)
(* writes the longest run it has to the file.                              *)
(* Operators marked "Variant" are slips the code avoids.                   *)
(***************************************************************************)
EXTENDS Integers, Sequences

CONSTANTS Last,     \* number of the last packet
          Stride,   \* 10 in the code
          Window    \* bits of finishPacket, 16 in the code; an int has twice as many

\* A reply with number 65534 is the end message: packets have smaller numbers.
\* The headers of 1000 files alone fill more than one packet.
ASSUME LastAssumption == Last \in 1..65533
ASSUME StrideAssumption == Stride \in Nat \ {0}
ASSUME WindowAssumption == Window \in Nat \ {0, 1}

VARIABLES
  unacked,    \* the keys of the client's map "data"
  it,         \* its iterator: a packet number, or End
  phase,      \* i % Stride
  client,     \* "sending" or "done"
  toServer,   \* datagrams on their way
  toClient,   \* replies on their way
  first,      \* firstPacketId
  held,       \* the valid entries of packetQueue
  file,       \* what was written to all.zip, one entry per datagram
  server      \* "receiving", "unzipping", "unzipped", "done" or "crashed"

clientVars == <<unacked, it, phase, client>>
serverVars == <<first, held, file, server>>
linkVars == <<toServer, toClient>>
vars == <<clientVars, serverVars, linkVars>>

Packets == 0..Last
End == Last + 1       \* data.end()
Finished == 65534

\* A datagram: its number, whether the data are the packet's own, and whether it
\* fills MAXLINE.
Datagrams == [id : Packets, ok : BOOLEAN, full : BOOLEAN]
Packet(i) == [id |-> i, ok |-> TRUE, full |-> i # Last]

\* What write() may send through an iterator that is end(): the header of the map
\* is not a packet.  Its first two bytes read as number 0, its length as anything:
\* no datagram leaves if it is no legal length, else one with foreign data does.
Strays == {{}} \cup {{[id |-> 0, ok |-> FALSE, full |-> f]} : f \in BOOLEAN}

\* The packet after i in the map S, or End.
NextIn(S, i) == IF \E j \in S : j > i
                THEN CHOOSE j \in S : j > i /\ \A k \in S : k > i => j <= k
                ELSE End

-----------------------------------------------------------------------------
(* The client.                                                             *)

\* Variant: the test of a bit of finishPacket as it was meant.
AckedByAllBits(reply) == {reply.id} \cup {reply.id - k - 1 : k \in reply.finish}

\* "finishPacket & 1 << i == 1" is finishPacket & (1 << i == 1): bit 0 of the word
\* when i = 0, and nothing for any other i.
AckedBy(reply) == {reply.id} \cup {reply.id - k - 1 : k \in reply.finish \cap {0}}

\* One recv() of the loop that drains the socket; another copy may follow.
TakeReply(reply) ==
  /\ client = "sending"
  /\ phase = 0
  /\ reply \in toClient
  /\ toClient' \in {toClient, toClient \ {reply}}
  /\ IF reply.id = Finished
     THEN client' = "done" /\ UNCHANGED <<unacked, it>>
     ELSE /\ unacked' = unacked \ AckedBy(reply)
          /\ it' = IF it \in AckedBy(reply) THEN NextIn(unacked', it) ELSE it
          /\ UNCHANGED client
  /\ UNCHANGED <<phase, toServer, serverVars>>

\* Variant: the iterator is a number that only counts up.
AdvanceByNumber ==
  IF unacked = {}
  THEN client' = "done" /\ UNCHANGED <<it, phase>>
  ELSE it' = it + 1 /\ phase' = (phase + 1) % Stride /\ UNCHANGED client

\* Where the loops go after the packet at the iterator was sent.  ++ of end()
\* arrives at some node of the tree.
Advance ==
  IF unacked = {}
  THEN client' = "done" /\ UNCHANGED <<it, phase>>
  ELSE /\ UNCHANGED client
       /\ \/ /\ it # End
             /\ NextIn(unacked, it) # End
             /\ it' = NextIn(unacked, it)
             /\ phase' = (phase + 1) % Stride
          \/ /\ it # End
             /\ NextIn(unacked, it) = End
             /\ it' = NextIn(unacked, -1)
             /\ phase' = 0
          \/ /\ it = End
             /\ it' \in unacked
             /\ phase' = (phase + 1) % Stride

\* Variant: a packet is sent once and forgotten.
WriteOnce ==
  /\ client = "sending"
  /\ it # End
  /\ toServer' = toServer \cup {Packet(it)}
  /\ unacked' = unacked \ {it}
  /\ it' = NextIn(unacked, it)
  /\ client' = IF it' = End THEN "done" ELSE client
  /\ UNCHANGED <<phase, toClient, serverVars>>

\* write(), and the rest of the loop's body.
Write ==
  /\ client = "sending"
  /\ IF it = End
     THEN \E stray \in Strays : toServer' = toServer \cup stray
     ELSE toServer' = toServer \cup {Packet(it)}
  /\ Advance
  /\ UNCHANGED <<unacked, toClient, serverVars>>

-----------------------------------------------------------------------------
(* The server.                                                             *)

Holds(Q, i) == \E d \in Q : d.id = i
Has(i) == Holds(held, i)

\* packetQueue.size(): its last entry is always valid.
QueueSize == IF held = {} THEN 0
             ELSE CHOOSE n \in 1..(Last - first + 1) :
                    Has(first + n - 1) /\ \A d \in held : d.id < first + n

\* Whether the server may take entry i of the queue for received.  The entry at
\* size() is read past the end of the queue, and may hold anything.
MayClaim(i) == i < 0 \/ i >= QueueSize \/ Has(first + i)
MustClaim(i) == i < 0 \/ i > QueueSize \/ (i # QueueSize /\ Has(first + i))

\* The bit "1 << (i - cur - 1)" of an int: the negative count is taken modulo the
\* width.  The upper half of the bits does not fit into the short.
Bit(i, cur) == i - cur - 1 + 2 * Window

\* The values finishPacket may get for the datagram of index cur.
FinishWords(cur) ==
  {word \in SUBSET (0..Window - 1) :
     \A k \in 0..Window - 1 :
       LET behind == {i \in cur - Window .. cur - 1 : Bit(i, cur) = k}
       IN /\ k \in word => \E i \in behind : MayClaim(i)
          /\ (\E i \in behind : MustClaim(i)) => k \in word}

\* The front of the queue Q, which starts at number f, gives up n datagrams: they
\* follow each other, only the last may be short, and unless it is short the next
\* one is missing.
IsRun(Q, f, n) ==
  /\ \A i \in f .. f + n - 1 : Holds(Q, i)
  /\ \A d \in Q : d.id \in f .. f + n - 2 => d.full
  /\ Holds(Q, f + n) => n > 0 /\ \E d \in Q : d.id = f + n - 1 /\ ~d.full

\* Variant: whatever comes is written at once.
StoreUnordered(d) ==
  /\ file' = Append(file, d)
  /\ first' = first + 1
  /\ held' = held
  /\ server' = IF d.full THEN server ELSE "unzipping"

\* Storing d, then popping and writing from the front of the queue.
Store(d) ==
  LET Q == held \cup {d}
  IN \E n \in 0..(End - first) :
       LET run == [k \in 1..n |-> CHOOSE e \in Q : e.id = first + k - 1]
       IN /\ IsRun(Q, first, n)
          /\ file' = file \o run
          /\ first' = first + n
          /\ held' = {e \in Q : e.id >= first + n}
          /\ server' = IF \E e \in Q : e.id < first + n /\ ~e.full
                       THEN "unzipping" ELSE server

\* One round of dg_echo's loop.
ServerReceive(d) ==
  /\ server = "receiving"
  /\ d \in toServer
  /\ toServer' \in {toServer, toServer \ {d}}
  /\ \E word \in FinishWords(d.id - first) :
       toClient' = toClient \cup {[id |-> d.id, finish |-> word]}
  /\ IF d.id < first \/ Has(d.id)
     THEN UNCHANGED serverVars
     ELSE Store(d)
  /\ UNCHANGED clientVars

\* The places of the file that do not hold the data of their packet.
Foreign == {i \in 0..Len(file) - 1 : ~(file[i + 1].id = i /\ file[i + 1].ok)}

\* The file is the client's archive.
Whole == Len(file) = End /\ Foreign = {}

\* Opening and extracting throw on a file that is no archive, and nothing catches it.
Unzip ==
  /\ server = "unzipping"
  /\ \/ server' = "unzipped"
     \/ ~Whole /\ server' = "crashed"
  /\ UNCHANGED <<clientVars, linkVars, first, held, file>>

\* Variant: the end messages are sent before the file is unpacked.
SendFinishedEarly ==
  /\ server = "unzipping"
  /\ server' = "done"
  /\ toClient' = toClient \cup {[id |-> Finished, finish |-> {}]}
  /\ UNCHANGED <<clientVars, toServer, first, held, file>>

\* The five end messages.
SendFinished ==
  /\ server = "unzipped"
  /\ server' = "done"
  /\ toClient' = toClient \cup {[id |-> Finished, finish |-> {}]}
  /\ UNCHANGED <<clientVars, toServer, first, held, file>>

-----------------------------------------------------------------------------
(* The link.                                                               *)

Lose ==
  /\ \/ \E d \in toServer : toServer' = toServer \ {d} /\ UNCHANGED toClient
     \/ \E r \in toClient : toClient' = toClient \ {r} /\ UNCHANGED toServer
  /\ UNCHANGED <<clientVars, serverVars>>

Init ==
  /\ unacked = Packets /\ it = 0 /\ phase = 0 /\ client = "sending"
  /\ toServer = {} /\ toClient = {}
  /\ first = 0 /\ held = {} /\ file = <<>> /\ server = "receiving"

Next ==
  \/ \E r \in toClient : TakeReply(r)
  \/ Write
  \/ \E d \in toServer : ServerReceive(d)
  \/ Unzip
  \/ SendFinished
  \/ Lose

\* The client keeps sending: a drain ends, as the server only answers what was
\* sent before it.  A packet that is on its way again and again arrives at last.
Fairness ==
  /\ WF_vars(Write)
  /\ WF_vars(Unzip) /\ WF_vars(SendFinished)
  /\ \A i \in Packets : SF_vars(ServerReceive(Packet(i)))

Spec == Init /\ [][Next]_vars /\ Fairness

-----------------------------------------------------------------------------
(* Properties.                                                             *)

Replies == [id : Packets \cup {Finished}, finish : SUBSET (0..Window - 1)]

\* Every variable has its type.
TypeOK ==
  /\ unacked \subseteq Packets
  /\ it \in Packets \cup {End}
  /\ phase \in 0..Stride - 1
  /\ client \in {"sending", "done"}
  /\ toServer \subseteq Datagrams
  /\ toClient \subseteq Replies
  /\ first \in 0..End
  /\ held \subseteq Datagrams
  /\ file \in Seq(Datagrams)
  /\ server \in {"receiving", "unzipping", "unzipped", "done", "crashed"}

\* A packet the client has forgotten is one the server has: although the server
\* answers before it stores, counts entries it has not got as received and reads
\* one past the end of its queue, no reply makes the client drop another packet.
ForgottenIsStored == \A i \in Packets \ unacked : i < first \/ Has(i)

\* The file holds the packets 0, 1, 2, ... in order and once each, whatever came
\* twice, late or out of order; foreign data get into it as packet 0 only.
FileInOrder ==
  /\ Len(file) = first
  /\ \A k \in 1..Len(file) : file[k].id = k - 1 /\ (file[k].ok \/ k = 1)

\* When the client stops sending, the server has received all it waits for.
ClientDoneServerComplete == client = "done" => server # "receiving"

Transfer == INSTANCE FileTransfer
              WITH Spoilt <- {{}, {0}}, EndsAt <- {"unzipping", "unzipped", "done", "crashed"},
                   written <- Len(file), foreign <- Foreign,
                   sender <- client, receiver <- server

\* The transfer is that of one archive: it only grows, in order and with nothing twice,
\* until it is whole, only its first packet may be spoilt, a server that stops
\* before the end or cannot unpack the file has such a packet, and the client does not
\* end before the server stops receiving.
ImplementsTransfer == Transfer!Spec

\* A link that does not lose a packet for ever lets the server finish, even if
\* every reply is lost; it dies on the file only if that has a spoilt packet.
ServerFinishes == <>(server = "done" \/ (server = "crashed" /\ Foreign # {}))

\* "checks the transmitted files right after your client program terminates": when
\* the client has ended the files are there.
FilesReadyWhenClientEnds == client = "done" => server \in {"unzipped", "done"}
=============================================================================
