--------------------------- MODULE BroadcastTransfer ---------------------------
(***************************************************************************)
(* The file transfer of lab10: client.cpp and server.cpp over raw sockets  *)
(* and a broadcast address.                                                *)
(*                                                                         *)
(* What one process sends comes to both, itself included; each looks at    *)
(* the source address and ignores its own.  The client sends the packets   *)
(* 0..Last one at a time, the last one shorter than MAXLINE, and goes on    *)
(* with the next at any answer.  The server answers every packet but the    *)
(* short one, at which it puts the archive together, unpacks it and says so. *)
(* The link may lose, copy and reorder.                                    *)
(* Operators marked "Variant" are slips the code avoids.                   *)
(***************************************************************************)
EXTENDS Integers, Sequences, FiniteSets

CONSTANTS Last,      \* number of the last packet
          MaxCopies  \* bound: copies the link makes

\* The vectors of both programs have 10000 entries.
ASSUME LastAssumption == Last \in 0..9999
ASSUME MaxCopiesAssumption == MaxCopies \in Nat

VARIABLES
  at,        \* currentPacketNumber
  client,    \* "sending", "waiting" or "done"
  atClient,  \* what the client's socket may give it
  atServer,  \* what the server's socket may give it
  stored,    \* the entries of packetQueue that were received
  archive,   \* zipData, one entry per packet
  files,     \* what was extracted from it
  server,    \* "receiving", "unzipping", "unzipped", "done" or "crashed"
  copied,    \* copies the link has made
  lost       \* whether it has lost anything

clientVars == <<at, client>>
serverVars == <<stored, archive, files, server>>
linkVars == <<copied, lost>>
vars == <<clientVars, serverVars, atClient, atServer, linkVars>>

Packets == 0..Last
Fin == 65534
Hole == -1     \* an entry of packetQueue that is still as it was made

\* A message with its source address.  The copies the link makes are numbered, and
\* an acknowledgement has the number of the packet it answers.
Messages == [from : {"client"}, id : Packets, copy : 0..MaxCopies]
              \cup [from : {"server"}, id : Packets \cup {Fin}, copy : 0..MaxCopies]

Broadcast(sender, n) ==
  LET m == [from |-> sender, id |-> n, copy |-> 0]
  IN atClient' = atClient \cup {m} /\ atServer' = atServer \cup {m}

-----------------------------------------------------------------------------
(* The client.                                                             *)

\* Variant: what lies behind the last packet is sent as well.
SendAny ==
  /\ client = "sending"
  /\ client' = "waiting"
  /\ Broadcast("client", at)
  /\ UNCHANGED <<at, serverVars, linkVars>>

\* sendto().  Behind the last packet the entries have length 0: nothing leaves.
Send ==
  /\ client = "sending"
  /\ client' = "waiting"
  /\ IF at \in Packets THEN Broadcast("client", at) ELSE UNCHANGED <<atClient, atServer>>
  /\ UNCHANGED <<at, serverVars, linkVars>>

\* Variant: the source address is not looked at.
IsAnswerAny(m) == TRUE

\* The test of the source address.
IsAnswer(m) == m.from = "server"

\* One recvfrom() of the loop that waits for an answer.
ClientReceive(m) ==
  /\ client = "waiting"
  /\ m \in atClient
  /\ atClient' = atClient \ {m}
  /\ \/ /\ ~IsAnswer(m)
        /\ UNCHANGED clientVars
     \/ /\ IsAnswer(m) /\ m.id = Fin
        /\ client' = "done" /\ UNCHANGED at
     \/ /\ IsAnswer(m) /\ m.id # Fin
        /\ client' = "sending" /\ at' = at + 1
  /\ UNCHANGED <<atServer, serverVars, linkVars>>

-----------------------------------------------------------------------------
(* The server.                                                             *)

\* Variant: the packet at which the loop stops is left out.
AssembledShort(Q, n) == [k \in 1..n |-> IF k - 1 \in Q THEN k - 1 ELSE Hole]

\* The entries 0..n of the queue, those that never came as they are.
Assembled(Q, n) == [k \in 1..n + 1 |-> IF k - 1 \in Q THEN k - 1 ELSE Hole]

\* One recvfrom() of the server's loop and what follows it.
ServerReceive(m) ==
  /\ server = "receiving"
  /\ m \in atServer
  /\ \/ /\ m.from = "server"
        /\ atServer' = atServer \ {m}
        /\ UNCHANGED <<atClient, serverVars>>
     \/ /\ m.from = "client" /\ m.id # Last
        /\ stored' = stored \cup {m.id}
        /\ LET ack == [from |-> "server", id |-> m.id, copy |-> m.copy]
           IN atServer' = (atServer \ {m}) \cup {ack} /\ atClient' = atClient \cup {ack}
        /\ UNCHANGED <<archive, files, server>>
     \/ /\ m.from = "client" /\ m.id = Last
        /\ stored' = stored \cup {m.id}
        /\ atServer' = atServer \ {m}
        /\ archive' = Assembled(stored', m.id)
        /\ server' = "unzipping"
        /\ UNCHANGED <<atClient, files>>
  /\ UNCHANGED <<clientVars, linkVars>>

Holes == {k \in DOMAIN archive : archive[k] = Hole}

\* Opening and extracting may throw on an archive with holes, and nothing catches it.
Unzip ==
  /\ server = "unzipping"
  /\ \/ server' = "unzipped" /\ files' = archive
     \/ Holes # {} /\ server' = "crashed" /\ UNCHANGED files
  /\ UNCHANGED <<clientVars, atClient, atServer, stored, archive, linkVars>>

\* Variant: the end is announced before the files are there.
SendFinEarly ==
  /\ server = "unzipping"
  /\ server' = "done"
  /\ Broadcast("server", Fin)
  /\ UNCHANGED <<clientVars, stored, archive, files, linkVars>>

\* Variant: the server ends without a word.
ExitSilently ==
  /\ server = "unzipped"
  /\ server' = "done"
  /\ UNCHANGED <<clientVars, atClient, atServer, stored, archive, files, linkVars>>

SendFin ==
  /\ server = "unzipped"
  /\ server' = "done"
  /\ Broadcast("server", Fin)
  /\ UNCHANGED <<clientVars, stored, archive, files, linkVars>>

-----------------------------------------------------------------------------
(* The link.                                                               *)

\* What has come from the other side: a process misses nothing of its own.
OnTheWay == {m \in atServer : m.from = "client"} \cup {m \in atClient : m.from = "server"}

\* Bounded by MaxCopies.
Copy(m) ==
  LET c == [m EXCEPT !.copy = copied + 1]
  IN /\ copied < MaxCopies
     /\ copied' = copied + 1
     /\ IF m.from = "client"
        THEN atServer' = atServer \cup {c} /\ UNCHANGED atClient
        ELSE atClient' = atClient \cup {c} /\ UNCHANGED atServer
     /\ UNCHANGED <<clientVars, serverVars, lost>>

Lose(m) ==
  /\ lost' = TRUE
  /\ IF m.from = "client"
     THEN atServer' = atServer \ {m} /\ UNCHANGED atClient
     ELSE atClient' = atClient \ {m} /\ UNCHANGED atServer
  /\ UNCHANGED <<clientVars, serverVars, copied>>

Init ==
  /\ at = 0 /\ client = "sending"
  /\ atClient = {} /\ atServer = {}
  /\ stored = {} /\ archive = <<>> /\ files = <<>> /\ server = "receiving"
  /\ copied = 0 /\ lost = FALSE

Next ==
  \/ Send
  \/ \E m \in atClient : ClientReceive(m)
  \/ \E m \in atServer : ServerReceive(m)
  \/ Unzip
  \/ SendFin
  \/ \E m \in OnTheWay : Copy(m) \/ Lose(m)

\* Each process keeps reading what has arrived.
Fairness ==
  /\ WF_vars(Send) /\ WF_vars(Unzip) /\ WF_vars(SendFin)
  /\ WF_vars(\E m \in atClient : ClientReceive(m))
  /\ WF_vars(\E m \in atServer : ServerReceive(m))

Spec == Init /\ [][Next]_vars /\ Fairness

-----------------------------------------------------------------------------
(* Properties.                                                             *)

\* Every variable has its type.
TypeOK ==
  /\ at \in Nat
  /\ client \in {"sending", "waiting", "done"}
  /\ atClient \subseteq Messages /\ atServer \subseteq Messages
  /\ stored \subseteq Packets
  /\ archive \in Seq(Packets \cup {Hole}) /\ files \in Seq(Packets \cup {Hole})
  /\ server \in {"receiving", "unzipping", "unzipped", "done", "crashed"}
  /\ copied \in 0..MaxCopies
  /\ lost \in BOOLEAN

\* The archive is put together without a look at what arrived.  Still its packets
\* are in order, up to the last, and it has at most one hole for each copy the link
\* has made: only a copy lets the client run ahead of a packet.  Without copies it
\* is whole, whatever was lost.
HolesAreCopies ==
  server # "receiving" =>
    /\ Len(archive) = Last + 1
    /\ \A k \in DOMAIN archive \ Holes : archive[k] = k - 1
    /\ Cardinality(Holes) <= copied

\* "checks the transmitted files right after your client program terminates": the
\* client ends only when all that was received is unpacked, however many copies it
\* was misled by.
FilesReadyWhenClientEnds == client = "done" => files = archive /\ Len(files) = Last + 1

\* The places of the archive that do not hold their packet.
Foreign == {i \in 0..Len(archive) - 1 : archive[i + 1] # i}

Transfer == INSTANCE FileTransfer
              WITH Spoilt <- {S \in SUBSET (0..Last - 1) : Cardinality(S) <= MaxCopies},
                   EndsAt <- {"done"},
                   written <- Len(archive), foreign <- Foreign,
                   sender <- IF client = "done" THEN "done" ELSE "sending",
                   receiver <- server

\* The transfer is that of one archive, filled once up to its last packet, which is
\* right; no more places are wrong than the link may make copies, without a wrong one
\* the server does not fail, and the client does not end before the server has.
ImplementsTransfer == Transfer!Spec

\* Unless the link loses something, the client learns that the files are there, or the
\* server died on an archive with holes: then the client waits for ever.
TransferEnds == <>(client = "done" \/ lost \/ (server = "crashed" /\ Holes # {}))
=============================================================================
