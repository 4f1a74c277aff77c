---------------------------- MODULE BroadcastProofs ----------------------------
(* Theorems of BroadcastTransfer, for every number of packets and every     *)
(* number of copies.                                                       *)
EXTENDS BroadcastTransfer, FiniteSetTheorems, TLAPS

(* The inductive invariant.  How many packets the client may believe in     *)
(* that the server lacks is a balance: what the client has counted, and the *)
(* acknowledgements and packets on their way, against what the server has  *)
(* or will have and the copies made.                                       *)

Acks == {m \in atClient : m.from = "server" /\ m.id # Fin}
Data == {m \in atServer : m.from = "client"}

\* The numbers of the packets in D.
Ids(D) == {m.id : m \in D}

\* The packets the server has, or may still get.
Known == stored \cup Ids(Data)

Finite == IsFiniteSet(atClient) /\ IsFiniteSet(atServer)

Balance == at + Cardinality(Acks) + Cardinality(Data) <= Cardinality(Known) + copied

\* Nothing is known of a packet that was not sent.
SentOnly == \A i \in Known : i <= at /\ (client = "sending" => i # at)

\* The end message comes from a server that is done.
FinSound == \A m \in atClient : m.from = "server" /\ m.id = Fin => server = "done"

\* The archive is made of what was stored when the last packet came.
ArchiveSound ==
  /\ server # "receiving" => archive = Assembled(stored, Last) /\ Last + 1 <= Cardinality(stored) + copied
  /\ server \in {"unzipped", "done"} => files = archive
  /\ client = "done" => server = "done"

Inv ==
  /\ TypeOK
  /\ Finite
  /\ Balance
  /\ SentOnly
  /\ FinSound
  /\ ArchiveSound

-----------------------------------------------------------------------------
\* The constants are numbers, and no packet has the number of the end message.
LEMMA Constants ==
  /\ Last \in Nat /\ MaxCopies \in Nat /\ Packets \subseteq Nat /\ Last \in Packets
  /\ IsFiniteSet(Packets) /\ Cardinality(Packets) = Last + 1
  /\ Fin \notin Packets /\ Hole \notin Packets
  /\ 0 \in 0..MaxCopies
<1>1. Last \in Nat /\ Last < Fin
  BY LastAssumption DEF Fin
<1>2. IsFiniteSet(Packets) /\ Cardinality(Packets) = Last + 1
  BY <1>1, FS_Interval DEF Packets
<1> QED BY <1>1, <1>2, MaxCopiesAssumption DEF Packets, Fin, Hole

\* The fields of a message.
LEMMA Fields ==
  ASSUME NEW m \in Messages
  PROVE  /\ m.from \in {"client", "server"} /\ m.id \in Packets \cup {Fin} /\ m.copy \in 0..MaxCopies
         /\ m.from = "client" => m.id \in Packets
         /\ m = [from |-> m.from, id |-> m.id, copy |-> m.copy]
BY DEF Messages

\* A message is a record of its fields.
LEMMA MessageOf ==
  ASSUME NEW c \in 0..MaxCopies
  PROVE  /\ \A i \in Packets : [from |-> "client", id |-> i, copy |-> c] \in Messages
         /\ \A i \in Packets \cup {Fin} : [from |-> "server", id |-> i, copy |-> c] \in Messages
BY DEF Messages

\* There are no more numbers than messages.
LEMMA IdsCount ==
  ASSUME NEW D, IsFiniteSet(D)
  PROVE  IsFiniteSet(Ids(D)) /\ Cardinality(Ids(D)) <= Cardinality(D)
<1> DEFINE f == [m \in D |-> m.id]
<1>1. f \in Surjection(D, Ids(D))
  BY DEF Ids, Surjection
<1> QED BY <1>1, FS_Surjection

\* The sets of the balance are finite, and their sizes numbers.
LEMMA BalanceFinite ==
  ASSUME TypeOK, Finite
  PROVE  /\ IsFiniteSet(Acks) /\ IsFiniteSet(Data) /\ IsFiniteSet(stored) /\ IsFiniteSet(Known)
         /\ IsFiniteSet(Ids(Data))
         /\ Cardinality(Acks) \in Nat /\ Cardinality(Data) \in Nat
         /\ Cardinality(stored) \in Nat /\ Cardinality(Known) \in Nat /\ copied \in Nat /\ at \in Nat
         /\ Known \subseteq Packets
<1>1. IsFiniteSet(Acks) /\ IsFiniteSet(Data)
  BY FS_Subset DEF Finite, Acks, Data
<1>2. IsFiniteSet(Ids(Data))
  BY <1>1, IdsCount
<1>3. Known \subseteq Packets
  BY Fields DEF Known, Ids, Data, TypeOK
<1>4. IsFiniteSet(stored) /\ IsFiniteSet(Known)
  BY <1>3, Constants, FS_Subset DEF TypeOK
<1> QED BY <1>1, <1>2, <1>3, <1>4, FS_CardinalityType, Constants DEF TypeOK

\* One more of a finite set is at most one more in number.
LEMMA OneMore ==
  ASSUME NEW S, IsFiniteSet(S), NEW x
  PROVE  /\ IsFiniteSet(S \cup {x}) /\ Cardinality(S \cup {x}) <= Cardinality(S) + 1
         /\ Cardinality(S \cup {x}) \in Nat /\ Cardinality(S) \in Nat
         /\ x \notin S => Cardinality(S \cup {x}) = Cardinality(S) + 1
<1>1. Cardinality(S) \in Nat
  BY FS_CardinalityType
<1>2. IsFiniteSet(S \cup {x})
      /\ Cardinality(S \cup {x}) = IF x \in S THEN Cardinality(S) ELSE Cardinality(S) + 1
  BY FS_AddElement
<1> QED BY <1>1, <1>2

LEMMA OneLess ==
  ASSUME NEW S, IsFiniteSet(S), NEW x
  PROVE  /\ IsFiniteSet(S \ {x}) /\ Cardinality(S \ {x}) >= Cardinality(S) - 1
         /\ Cardinality(S \ {x}) \in Nat /\ Cardinality(S) \in Nat
         /\ x \in S => Cardinality(S \ {x}) = Cardinality(S) - 1
<1>1. Cardinality(S) \in Nat
  BY FS_CardinalityType
<1>2. IsFiniteSet(S \ {x})
      /\ Cardinality(S \ {x}) = IF x \in S THEN Cardinality(S) - 1 ELSE Cardinality(S)
  BY FS_RemoveElement
<1>3. Cardinality(S \ {x}) \in Nat
  BY <1>2, FS_CardinalityType
<1> QED BY <1>1, <1>2, <1>3

-----------------------------------------------------------------------------
(* The steps.                                                              *)

LEMMA InitInv == Init => Inv
<1> SUFFICES ASSUME Init PROVE Inv
  OBVIOUS
<1>1. TypeOK
  <2>1. 0 \in 0..MaxCopies /\ <<>> \in Seq(Packets \cup {Hole})
    BY Constants
  <2> QED BY <2>1 DEF Init, TypeOK
<1>2. Acks = {} /\ Data = {} /\ Known = {}
  BY DEF Init, Acks, Data, Known, Ids
<1>3. Finite /\ Balance
  BY <1>2, FS_EmptySet DEF Init, Finite, Balance
<1>4. SentOnly /\ FinSound /\ ArchiveSound
  BY <1>2 DEF Init, SentOnly, FinSound, ArchiveSound
<1> QED BY <1>1, <1>3, <1>4 DEF Inv

LEMMA SendInv == ASSUME Inv, Send PROVE Inv'
<1> DEFINE m == [from |-> "client", id |-> at, copy |-> 0]
<1>1. /\ client = "sending" /\ client' = "waiting" /\ at' = at
      /\ UNCHANGED <<stored, archive, files, server, copied, lost>>
  BY DEF Send, serverVars, linkVars
<1>2. ArchiveSound'
  BY <1>1 DEF Inv, ArchiveSound
<1>3. CASE at \notin Packets
  <2>1. atClient' = atClient /\ atServer' = atServer
    BY <1>3 DEF Send
  <2> QED BY <1>1, <1>2, <2>1 DEF Inv, TypeOK, Finite, Balance, SentOnly, FinSound, Acks, Data, Known, Ids
<1>4. CASE at \in Packets
  <2>1. atClient' = atClient \cup {m} /\ atServer' = atServer \cup {m}
    BY <1>4 DEF Send, Broadcast
  <2>2. m \in Messages /\ m.from = "client" /\ m.id = at
    BY <1>4, Constants, MessageOf
  <2>3. TypeOK'
    BY <1>1, <2>1, <2>2 DEF Inv, TypeOK
  <2>4. Finite'
    BY <2>1, FS_AddElement DEF Inv, Finite
  <2>5. Acks' = Acks
    BY <2>1, <2>2 DEF Acks
  <2>6. Data' = Data \cup {m}
    BY <2>1, <2>2 DEF Data
  <2>7. Known' = Known \cup {at}
    BY <1>1, <2>2, <2>6 DEF Known, Ids
  <2>8. at \notin Known
    BY <1>1 DEF Inv, SentOnly
  <2>9. /\ Cardinality(Data \cup {m}) <= Cardinality(Data) + 1
        /\ Cardinality(Data \cup {m}) \in Nat
        /\ Cardinality(Known \cup {at}) = Cardinality(Known) + 1
    BY <2>8, BalanceFinite, OneMore DEF Inv
  <2>10. Balance'
    BY <1>1, <2>5, <2>6, <2>7, <2>9, BalanceFinite DEF Inv, Balance
  <2>11. SentOnly'
    BY <1>1, <2>7, BalanceFinite DEF Inv, SentOnly
  <2>12. FinSound'
    BY <1>1, <2>1, <2>2 DEF Inv, FinSound
  <2> QED BY <1>2, <2>3, <2>4, <2>10, <2>11, <2>12 DEF Inv
<1> QED BY <1>3, <1>4

LEMMA ClientReceiveInv == ASSUME Inv, NEW m \in atClient, ClientReceive(m) PROVE Inv'
<1>1. /\ client = "waiting" /\ atClient' = atClient \ {m} /\ atServer' = atServer
      /\ UNCHANGED <<stored, archive, files, server, copied, lost>>
  BY DEF ClientReceive, serverVars, linkVars
<1>2. Finite'
  BY <1>1, FS_RemoveElement DEF Inv, Finite
<1>3. FinSound'
  BY <1>1 DEF Inv, FinSound
<1>4. Data' = Data /\ Known' = Known
  BY <1>1 DEF Data, Known, Ids
<1>5. CASE ~IsAnswer(m) \/ m.id = Fin
  <2>1. at' = at /\ client' \in {"waiting", "done"} /\ (client' = "done" => m.from = "server" /\ m.id = Fin)
    BY <1>1, <1>5 DEF ClientReceive, clientVars, IsAnswer
  <2>2. TypeOK'
    BY <1>1, <2>1 DEF Inv, TypeOK
  <2>3. Acks' = Acks
    BY <1>1, <1>5 DEF Acks, IsAnswer
  <2>4. Balance'
    BY <1>1, <1>4, <2>1, <2>3 DEF Inv, Balance
  <2>5. SentOnly'
    BY <1>1, <1>4, <2>1 DEF Inv, SentOnly
  <2>6. ArchiveSound'
    BY <1>1, <2>1 DEF Inv, ArchiveSound, FinSound
  <2> QED BY <1>2, <1>3, <2>2, <2>4, <2>5, <2>6 DEF Inv
<1>6. CASE IsAnswer(m) /\ m.id # Fin
  <2>1. at' = at + 1 /\ client' = "sending"
    BY <1>6 DEF ClientReceive
  <2>2. TypeOK'
    BY <1>1, <2>1 DEF Inv, TypeOK
  <2>3. Acks' = Acks \ {m} /\ m \in Acks
    BY <1>1, <1>6 DEF Acks, IsAnswer
  <2>4. Cardinality(Acks \ {m}) = Cardinality(Acks) - 1
    BY <2>3, BalanceFinite, OneLess DEF Inv
  <2>5. Balance'
    BY <1>1, <1>4, <2>1, <2>3, <2>4, BalanceFinite DEF Inv, Balance
  <2>6. SentOnly'
    <3>1. \A i \in Known : i <= at /\ i \in Nat
      BY BalanceFinite, Constants DEF Inv, SentOnly
    <3> QED BY <1>4, <2>1, <3>1, BalanceFinite DEF Inv, SentOnly
  <2>7. ArchiveSound'
    BY <1>1, <2>1 DEF Inv, ArchiveSound
  <2> QED BY <1>2, <1>3, <2>2, <2>5, <2>6, <2>7 DEF Inv
<1> QED BY <1>5, <1>6

\* The server ignores a message of its own.
LEMMA ServerOwnInv ==
  ASSUME Inv, NEW m \in atServer, ServerReceive(m), m.from = "server" PROVE Inv'
<1>1. /\ atServer' = atServer \ {m} /\ atClient' = atClient
      /\ UNCHANGED <<at, client, stored, archive, files, server, copied, lost>>
  BY DEF ServerReceive, clientVars, serverVars, linkVars
<1>2. Acks' = Acks /\ Data' = Data /\ Known' = Known
  BY <1>1 DEF Acks, Data, Known, Ids
<1>3. TypeOK' /\ Finite'
  BY <1>1, FS_RemoveElement DEF Inv, TypeOK, Finite
<1> QED BY <1>1, <1>2, <1>3 DEF Inv, Balance, SentOnly, FinSound, ArchiveSound

\* It answers a full packet.
LEMMA ServerPacketInv ==
  ASSUME Inv, NEW m \in atServer, ServerReceive(m), m.from = "client", m.id # Last PROVE Inv'
<1> DEFINE ack == [from |-> "server", id |-> m.id, copy |-> m.copy]
<1>1. /\ server = "receiving" /\ stored' = stored \cup {m.id}
      /\ atServer' = (atServer \ {m}) \cup {ack} /\ atClient' = atClient \cup {ack}
      /\ UNCHANGED <<at, client, archive, files, server, copied, lost>>
  BY DEF ServerReceive, clientVars, linkVars
<1>2. m \in Messages
  BY DEF Inv, TypeOK
<1>3. /\ m.id \in Packets /\ ack \in Messages /\ ack.from = "server" /\ ack.id = m.id
      /\ m.id # Fin
  BY <1>2, Fields, MessageOf, Constants
<1>4. TypeOK'
  BY <1>1, <1>3 DEF Inv, TypeOK
<1>5. Finite'
  BY <1>1, FS_RemoveElement, FS_AddElement DEF Inv, Finite
<1>6. Acks' = Acks \cup {ack}
  BY <1>1, <1>3 DEF Acks
<1>7. Data' = Data \ {m} /\ m \in Data
  BY <1>1, <1>3 DEF Data
<1>8. Known' = Known
  BY <1>1, <1>7 DEF Known, Ids
<1>9. /\ Cardinality(Data \ {m}) = Cardinality(Data) - 1
      /\ Cardinality(Acks \cup {ack}) <= Cardinality(Acks) + 1
      /\ Cardinality(Acks \cup {ack}) \in Nat
  BY <1>7, BalanceFinite, OneLess, OneMore DEF Inv
<1>10. Balance'
  BY <1>1, <1>6, <1>7, <1>8, <1>9, BalanceFinite DEF Inv, Balance
<1>11. SentOnly' /\ FinSound'
  BY <1>1, <1>3, <1>8 DEF Inv, SentOnly, FinSound
<1>12. ArchiveSound'
  BY <1>1 DEF Inv, ArchiveSound
<1> QED BY <1>4, <1>5, <1>10, <1>11, <1>12 DEF Inv

\* It puts the archive together at the short packet, which the client sends when it
\* has counted an answer for each packet before.
LEMMA ServerLastInv ==
  ASSUME Inv, NEW m \in atServer, ServerReceive(m), m.from = "client", m.id = Last PROVE Inv'
<1>1. /\ server = "receiving" /\ server' = "unzipping" /\ stored' = stored \cup {Last}
      /\ atServer' = atServer \ {m} /\ atClient' = atClient
      /\ archive' = Assembled(stored', Last)
      /\ UNCHANGED <<at, client, files, copied, lost>>
  BY DEF ServerReceive, clientVars, linkVars
<1>2. archive' \in Seq(Packets \cup {Hole})
  <2>1. \A k \in 1..Last + 1 : k - 1 \in Packets
    BY Constants DEF Packets
  <2> QED BY <1>1, <2>1, Constants DEF Assembled
<1>3. TypeOK'
  BY <1>1, <1>2, Constants DEF Inv, TypeOK
<1>4. Finite'
  BY <1>1, FS_RemoveElement DEF Inv, Finite
<1>5. Acks' = Acks
  BY <1>1 DEF Acks
<1>6. Data' = Data \ {m} /\ m \in Data
  BY <1>1 DEF Data
<1>7. Known' = Known
  BY <1>1, <1>6 DEF Known, Ids
<1>8. Cardinality(Data \ {m}) = Cardinality(Data) - 1
  BY <1>6, BalanceFinite, OneLess DEF Inv
<1>9. Balance'
  BY <1>1, <1>5, <1>6, <1>7, <1>8, BalanceFinite DEF Inv, Balance
<1>10. SentOnly' /\ FinSound'
  BY <1>1, <1>7 DEF Inv, SentOnly, FinSound
<1>11. Last + 1 <= Cardinality(stored') + copied
  <2>1. Last <= at
    BY <1>6 DEF Inv, SentOnly, Known, Ids
  <2>2. Known = stored' \cup Ids(Data \ {m})
    BY <1>1, <1>6 DEF Known, Ids
  <2>3. IsFiniteSet(stored') /\ Cardinality(stored') \in Nat
    BY <1>1, BalanceFinite, OneMore DEF Inv
  <2>4. /\ IsFiniteSet(Ids(Data \ {m})) /\ Cardinality(Ids(Data \ {m})) \in Nat
        /\ Cardinality(Ids(Data \ {m})) <= Cardinality(Data) - 1
    <3>1. IsFiniteSet(Data \ {m})
      BY BalanceFinite, OneLess DEF Inv
    <3> QED BY <1>8, <3>1, IdsCount, FS_CardinalityType
  <2>5. Cardinality(Known) <= Cardinality(stored') + Cardinality(Ids(Data \ {m}))
    <3>1. IsFiniteSet(stored' \cap Ids(Data \ {m}))
      BY <2>3, FS_Intersection
    <3>2. Cardinality(stored' \cap Ids(Data \ {m})) \in Nat
      BY <3>1, FS_CardinalityType
    <3>3. Cardinality(stored' \cup Ids(Data \ {m}))
            = Cardinality(stored') + Cardinality(Ids(Data \ {m})) - Cardinality(stored' \cap Ids(Data \ {m}))
      BY <2>3, <2>4, FS_Union
    <3> QED BY <2>2, <2>3, <2>4, <3>2, <3>3
  <2> QED BY <2>1, <2>3, <2>4, <2>5, BalanceFinite, Constants DEF Inv, Balance
<1>12. ArchiveSound'
  BY <1>1, <1>11 DEF Inv, ArchiveSound
<1> QED BY <1>3, <1>4, <1>9, <1>10, <1>12 DEF Inv

LEMMA UnzipInv == ASSUME Inv, Unzip PROVE Inv'
<1>1. /\ server = "unzipping"
      /\ \/ server' = "unzipped" /\ files' = archive
         \/ server' = "crashed" /\ files' = files
      /\ UNCHANGED <<at, client, atClient, atServer, stored, archive, copied, lost>>
  BY DEF Unzip, clientVars, linkVars
<1>2. Acks' = Acks /\ Data' = Data /\ Known' = Known
  BY <1>1 DEF Acks, Data, Known, Ids
<1>3. TypeOK'
  BY <1>1 DEF Inv, TypeOK
<1>4. ArchiveSound' /\ FinSound'
  BY <1>1 DEF Inv, ArchiveSound, FinSound
<1> QED BY <1>1, <1>2, <1>3, <1>4 DEF Inv, Finite, Balance, SentOnly

LEMMA SendFinInv == ASSUME Inv, SendFin PROVE Inv'
<1> DEFINE m == [from |-> "server", id |-> Fin, copy |-> 0]
<1>1. /\ server = "unzipped" /\ server' = "done"
      /\ atClient' = atClient \cup {m} /\ atServer' = atServer \cup {m}
      /\ UNCHANGED <<at, client, stored, archive, files, copied, lost>>
  BY DEF SendFin, Broadcast, clientVars, linkVars
<1>2. m \in Messages /\ m.from = "server" /\ m.id = Fin
  BY Constants, MessageOf
<1>3. Acks' = Acks /\ Data' = Data /\ Known' = Known
  BY <1>1, <1>2 DEF Acks, Data, Known, Ids
<1>4. TypeOK' /\ Finite'
  BY <1>1, <1>2, FS_AddElement DEF Inv, TypeOK, Finite
<1>5. ArchiveSound' /\ FinSound'
  BY <1>1 DEF Inv, ArchiveSound, FinSound
<1> QED BY <1>1, <1>3, <1>4, <1>5 DEF Inv, Balance, SentOnly

\* A copy is paid for by the count of copies.
LEMMA CopyInv == ASSUME Inv, NEW m \in OnTheWay, Copy(m) PROVE Inv'
<1> DEFINE c == [m EXCEPT !.copy = copied + 1]
<1>1. /\ copied' = copied + 1 /\ copied < MaxCopies
      /\ UNCHANGED <<at, client, stored, archive, files, server, lost>>
      /\ m.from = "client" => atServer' = atServer \cup {c} /\ atClient' = atClient
      /\ m.from # "client" => atClient' = atClient \cup {c} /\ atServer' = atServer
  BY DEF Copy, clientVars, serverVars
<1>2. m \in Messages
  BY DEF OnTheWay, Inv, TypeOK
<1>3. copied + 1 \in 0..MaxCopies /\ copied \in Nat
  BY <1>1, Constants DEF Inv, TypeOK
<1>4. c = [from |-> m.from, id |-> m.id, copy |-> copied + 1]
  BY <1>2, Fields
<1>5. c \in Messages /\ c.from = m.from /\ c.id = m.id
  BY <1>2, <1>3, <1>4, Fields, MessageOf
<1>6. TypeOK' /\ Finite'
  <2>1. IsFiniteSet(atServer \cup {c}) /\ IsFiniteSet(atClient \cup {c})
    BY FS_AddElement DEF Inv, Finite
  <2>2. \/ atServer' = atServer \cup {c} /\ atClient' = atClient
        \/ atClient' = atClient \cup {c} /\ atServer' = atServer
    BY <1>1
  <2>3. TypeOK'
    BY <1>1, <1>3, <1>5, <2>2 DEF Inv, TypeOK
  <2>4. Finite'
    BY <2>1, <2>2 DEF Inv, Finite
  <2> QED BY <2>3, <2>4
<1>7. ArchiveSound'
  <2>1. stored' = stored /\ archive' = archive /\ files' = files /\ server' = server /\ client' = client
    BY <1>1
  <2>2. Cardinality(stored) \in Nat
    BY BalanceFinite DEF Inv
  <2> QED BY <1>1, <1>3, <2>1, <2>2, Constants DEF Inv, ArchiveSound
<1>8. CASE m.from = "client"
  <2>1. m \in Data
    BY <1>8 DEF OnTheWay, Data
  <2>2. Data' = Data \cup {c} /\ Acks' = Acks
    BY <1>1, <1>5, <1>8 DEF Data, Acks
  <2>3. Known' = Known
    BY <1>1, <1>5, <2>1, <2>2 DEF Known, Ids
  <2>4. Cardinality(Data \cup {c}) <= Cardinality(Data) + 1 /\ Cardinality(Data \cup {c}) \in Nat
    BY BalanceFinite, OneMore DEF Inv
  <2>5. Balance'
    BY <1>1, <2>2, <2>3, <2>4, BalanceFinite DEF Inv, Balance
  <2>6. SentOnly' /\ FinSound'
    BY <1>1, <1>8, <2>3 DEF Inv, SentOnly, FinSound
  <2> QED BY <1>6, <1>7, <2>5, <2>6 DEF Inv
<1>9. CASE m.from # "client"
  <2>1. m \in atClient /\ m.from = "server"
    BY <1>9 DEF OnTheWay
  <2>2. Data' = Data /\ Known' = Known
    BY <1>1, <1>9 DEF Data, Known, Ids
  <2>3. Acks' \subseteq Acks \cup {c}
    BY <1>1, <1>9 DEF Acks
  <2>4. Cardinality(Acks') <= Cardinality(Acks) + 1 /\ Cardinality(Acks') \in Nat
    <3>1. IsFiniteSet(Acks \cup {c}) /\ Cardinality(Acks \cup {c}) <= Cardinality(Acks) + 1
          /\ Cardinality(Acks \cup {c}) \in Nat
      BY BalanceFinite, OneMore DEF Inv
    <3>2. IsFiniteSet(Acks') /\ Cardinality(Acks') <= Cardinality(Acks \cup {c})
      BY <2>3, <3>1, FS_Subset
    <3> QED BY <3>1, <3>2, FS_CardinalityType, BalanceFinite DEF Inv
  <2>5. Balance'
    BY <1>1, <2>2, <2>4, BalanceFinite DEF Inv, Balance
  <2>6. SentOnly' /\ FinSound'
    BY <1>1, <1>5, <1>9, <2>1, <2>2 DEF Inv, SentOnly, FinSound
  <2> QED BY <1>6, <1>7, <2>5, <2>6 DEF Inv
<1> QED BY <1>8, <1>9

LEMMA LoseInv == ASSUME Inv, NEW m \in OnTheWay, Lose(m) PROVE Inv'
<1>1. /\ lost' = TRUE
      /\ UNCHANGED <<at, client, stored, archive, files, server, copied>>
      /\ m.from = "client" => atServer' = atServer \ {m} /\ atClient' = atClient
      /\ m.from # "client" => atClient' = atClient \ {m} /\ atServer' = atServer
  BY DEF Lose, clientVars, serverVars
<1>2. TypeOK' /\ Finite'
  <2>1. IsFiniteSet(atServer \ {m}) /\ IsFiniteSet(atClient \ {m})
    BY FS_RemoveElement DEF Inv, Finite
  <2>2. \/ atServer' = atServer \ {m} /\ atClient' = atClient
        \/ atClient' = atClient \ {m} /\ atServer' = atServer
    BY <1>1
  <2>3. TypeOK'
    BY <1>1, <2>2 DEF Inv, TypeOK
  <2>4. Finite'
    BY <2>1, <2>2 DEF Inv, Finite
  <2> QED BY <2>3, <2>4
<1>3. ArchiveSound'
  BY <1>1 DEF Inv, ArchiveSound
<1>4. FinSound'
  BY <1>1 DEF Inv, FinSound
<1>5. CASE m.from = "client"
  <2>1. m \in Data
    BY <1>5 DEF OnTheWay, Data
  <2>2. Data' = Data \ {m} /\ Acks' = Acks
    BY <1>1, <1>5 DEF Data, Acks
  <2>3. Known \ {m.id} \subseteq Known' /\ Known' \subseteq Known
    BY <1>1, <2>2 DEF Known, Ids
  <2>4. IsFiniteSet(Known') /\ Cardinality(Known') >= Cardinality(Known) - 1 /\ Cardinality(Known') \in Nat
    <3>1. IsFiniteSet(Known')
      BY <2>3, BalanceFinite, FS_Subset DEF Inv
    <3>2. IsFiniteSet(Known \ {m.id}) /\ Cardinality(Known \ {m.id}) >= Cardinality(Known) - 1
          /\ Cardinality(Known \ {m.id}) \in Nat
      BY BalanceFinite, OneLess DEF Inv
    <3>3. Cardinality(Known \ {m.id}) <= Cardinality(Known')
      BY <2>3, <3>1, FS_Subset
    <3> QED BY <3>1, <3>2, <3>3, FS_CardinalityType, BalanceFinite DEF Inv
  <2>5. Cardinality(Data \ {m}) = Cardinality(Data) - 1
    BY <2>1, BalanceFinite, OneLess DEF Inv
  <2>6. Balance'
    BY <1>1, <2>2, <2>4, <2>5, BalanceFinite DEF Inv, Balance
  <2>7. SentOnly'
    BY <1>1, <2>3 DEF Inv, SentOnly
  <2> QED BY <1>2, <1>3, <1>4, <2>6, <2>7 DEF Inv
<1>6. CASE m.from # "client"
  <2>1. Data' = Data /\ Known' = Known /\ Acks' = Acks \ {m}
    BY <1>1, <1>6 DEF Data, Known, Ids, Acks
  <2>2. Cardinality(Acks') <= Cardinality(Acks) /\ Cardinality(Acks') \in Nat
    <3>1. IsFiniteSet(Acks') /\ Cardinality(Acks') <= Cardinality(Acks)
      BY <2>1, BalanceFinite, FS_Subset DEF Inv
    <3> QED BY <3>1, FS_CardinalityType
  <2>3. Balance'
    BY <1>1, <2>1, <2>2, BalanceFinite DEF Inv, Balance
  <2>4. SentOnly'
    BY <1>1, <2>1 DEF Inv, SentOnly
  <2> QED BY <1>2, <1>3, <1>4, <2>3, <2>4 DEF Inv
<1> QED BY <1>5, <1>6

LEMMA StepInv == Inv /\ [Next]_vars => Inv'
<1> SUFFICES ASSUME Inv, [Next]_vars PROVE Inv'
  OBVIOUS
<1>1. CASE Send
  BY <1>1, SendInv
<1>2. CASE \E m \in atClient : ClientReceive(m)
  BY <1>2, ClientReceiveInv
<1>3. ASSUME NEW m \in atServer, ServerReceive(m) PROVE Inv'
  <2>1. m.from \in {"client", "server"}
    BY Fields DEF Inv, TypeOK
  <2> QED BY <1>3, <2>1, ServerOwnInv, ServerPacketInv, ServerLastInv
<1>4. CASE Unzip \/ SendFin
  BY <1>4, UnzipInv, SendFinInv
<1>5. CASE \E m \in OnTheWay : Copy(m) \/ Lose(m)
  BY <1>5, CopyInv, LoseInv
<1>6. CASE UNCHANGED vars
  BY <1>6 DEF vars, clientVars, serverVars, linkVars, Inv, TypeOK, Finite, Balance, SentOnly,
              FinSound, ArchiveSound, Acks, Data, Known, Ids
<1> QED BY <1>1, <1>2, <1>3, <1>4, <1>5, <1>6 DEF Next

LEMMA Invariance == Spec => []Inv
BY InitInv, StepInv, PTL DEF Spec

-----------------------------------------------------------------------------
(* The theorems.                                                           *)

\* How many packets were not stored.
LEMMA Unstored ==
  ASSUME NEW Q \in SUBSET Packets
  PROVE  /\ IsFiniteSet(Packets \ Q) /\ Cardinality(Packets \ Q) \in Nat
         /\ Cardinality(Packets \ Q) = Last + 1 - Cardinality(Q)
<1>1. IsFiniteSet(Q) /\ IsFiniteSet(Packets \ Q)
  BY Constants, FS_Subset
<1>2. Packets = Q \cup (Packets \ Q) /\ Q \cap (Packets \ Q) = {}
  OBVIOUS
<1>3. Cardinality(Packets) = Cardinality(Q) + Cardinality(Packets \ Q) - Cardinality({})
  BY <1>1, <1>2, FS_Union
<1>4. Cardinality(Q) \in Nat /\ Cardinality(Packets \ Q) \in Nat
  BY <1>1, FS_CardinalityType
<1> QED BY <1>1, <1>3, <1>4, Constants, FS_EmptySet

\* The holes of an archive are the packets that were not stored.
LEMMA HolesCounted ==
  ASSUME NEW Q \in SUBSET Packets, archive = Assembled(Q, Last)
  PROVE  /\ Len(archive) = Last + 1
         /\ \A k \in DOMAIN archive \ Holes : archive[k] = k - 1
         /\ IsFiniteSet(Holes) /\ Cardinality(Holes) <= Last + 1 - Cardinality(Q)
<1>1. /\ Len(archive) = Last + 1 /\ DOMAIN archive = 1..Last + 1
      /\ \A k \in 1..Last + 1 : archive[k] = IF k - 1 \in Q THEN k - 1 ELSE Hole
  BY Constants DEF Assembled
<1>2. Holes = {k \in 1..Last + 1 : k - 1 \notin Q}
  BY <1>1 DEF Holes, Hole, Packets
<1>3. IsFiniteSet(Packets \ Q) /\ Cardinality(Packets \ Q) = Last + 1 - Cardinality(Q)
  BY Unstored
<1> DEFINE f == [p \in Packets \ Q |-> p + 1]
<1>4. f \in Surjection(Packets \ Q, Holes)
  <2>1. ASSUME NEW p \in Packets \ Q PROVE p + 1 \in Holes
    BY <1>2, Constants DEF Packets
  <2>2. ASSUME NEW k \in Holes PROVE k - 1 \in Packets \ Q /\ f[k - 1] = k
    BY <1>2, Constants DEF Packets
  <2> QED BY <2>1, <2>2 DEF Surjection
<1>5. IsFiniteSet(Holes) /\ Cardinality(Holes) <= Cardinality(Packets \ Q)
  BY <1>3, <1>4, FS_Surjection
<1> QED BY <1>1, <1>2, <1>3, <1>5

\* The variables keep their types.
THEOREM TypesCorrect == Spec => []TypeOK
<1>1. Inv => TypeOK
  BY DEF Inv
<1> QED BY <1>1, Invariance, PTL

\* The archive is in order, and has at most one hole for each copy the link made
\* (the server's loop over packetQueue, and the client's count of answers).
THEOREM ArchiveHoles == Spec => []HolesAreCopies
<1>1. ASSUME Inv, server # "receiving" PROVE HolesAreCopies
  <2>1. archive = Assembled(stored, Last) /\ Last + 1 <= Cardinality(stored) + copied
    BY <1>1 DEF Inv, ArchiveSound
  <2>2. stored \in SUBSET Packets
    BY <1>1 DEF Inv, TypeOK
  <2>3. /\ Len(archive) = Last + 1
        /\ \A k \in DOMAIN archive \ Holes : archive[k] = k - 1
        /\ IsFiniteSet(Holes) /\ Cardinality(Holes) <= Last + 1 - Cardinality(stored)
    BY <2>1, <2>2, HolesCounted
  <2>4. Cardinality(Holes) \in Nat /\ Cardinality(stored) \in Nat /\ copied \in Nat
    BY <1>1, <2>3, FS_CardinalityType, BalanceFinite DEF Inv
  <2> QED BY <2>1, <2>3, <2>4, Constants DEF HolesAreCopies
<1>2. Inv => HolesAreCopies
  BY <1>1 DEF HolesAreCopies
<1> QED BY <1>2, Invariance, PTL

\* When the client ends, what was received is unpacked.
THEOREM FilesReady == Spec => []FilesReadyWhenClientEnds
<1>1. ASSUME Inv, client = "done" PROVE FilesReadyWhenClientEnds
  <2>1. archive = Assembled(stored, Last) /\ files = archive
    BY <1>1 DEF Inv, ArchiveSound
  <2>2. Len(archive) = Last + 1
    BY <2>1, Constants DEF Assembled
  <2> QED BY <2>1, <2>2 DEF FilesReadyWhenClientEnds
<1>2. Inv => FilesReadyWhenClientEnds
  BY <1>1 DEF FilesReadyWhenClientEnds
<1> QED BY <1>2, Invariance, PTL

-----------------------------------------------------------------------------
(* Nobody waits for nobody.                                                *)

\* Acknowledgements are of packets before the last, and the last packet is on its way
\* to a server that receives while the client is behind it.  While nothing is lost, a
\* client that waits has its packet or the answer to it on its way, or the end message.
Awaited ==
  /\ \A m \in atClient : m.from = "server" => m.id # Last
  /\ ~lost /\ server = "receiving" =>
       /\ at > Last => Last \in Ids(Data)
       /\ client = "waiting" /\ at <= Last => at \in Ids(Data) \cup Ids(Acks)
  /\ ~lost /\ server = "done" /\ client # "done" =>
       \E m \in atClient : m.from = "server" /\ m.id = Fin

LEMMA AwaitedInit == Init => Awaited
BY Constants DEF Init, Awaited

LEMMA AwaitedSend == Inv /\ Awaited /\ Send => Awaited'
<1> SUFFICES ASSUME Inv, Awaited, Send PROVE Awaited'
  OBVIOUS
<1> DEFINE m == [from |-> "client", id |-> at, copy |-> 0]
<1>1. /\ client = "sending" /\ client' = "waiting" /\ at' = at /\ lost' = lost /\ server' = server
      /\ at \in Packets => atClient' = atClient \cup {m} /\ atServer' = atServer \cup {m}
      /\ at \notin Packets => atClient' = atClient /\ atServer' = atServer
  BY DEF Send, Broadcast, serverVars, linkVars
<1>2. Ids(Data) \subseteq Ids(Data)' /\ (at \in Packets => at \in Ids(Data)')
  BY <1>1 DEF Ids, Data
<1>3. \A k \in atClient' : k.from = "server" => k \in atClient
  BY <1>1
<1>4. atClient \subseteq atClient' /\ (at <= Last => at \in Packets)
  BY <1>1, Constants DEF Inv, TypeOK, Packets
<1> QED BY <1>1, <1>2, <1>3, <1>4 DEF Awaited

LEMMA AwaitedClientReceive ==
  ASSUME Inv, Awaited, NEW m \in atClient, ClientReceive(m)
  PROVE  Awaited'
<1>1. /\ client = "waiting" /\ atClient' = atClient \ {m} /\ atServer' = atServer
      /\ server' = server /\ lost' = lost
  BY DEF ClientReceive, serverVars, linkVars
<1>2. Ids(Data)' = Ids(Data)
  BY <1>1 DEF Ids, Data
<1>3. CASE m.from # "server"
  <2>1. at' = at /\ client' = client
    BY <1>3 DEF ClientReceive, IsAnswer, clientVars
  <2>2. Ids(Acks)' = Ids(Acks)
    BY <1>1, <1>3 DEF Ids, Acks
  <2> QED BY <1>1, <1>2, <1>3, <2>1, <2>2 DEF Awaited
<1>4. CASE m.from = "server" /\ m.id = Fin
  <2>1. client' = "done" /\ at' = at
    BY <1>4 DEF ClientReceive, IsAnswer
  <2> QED BY <1>1, <1>2, <2>1 DEF Awaited
<1>5. CASE m.from = "server" /\ m.id # Fin
  <2>1. client' = "sending" /\ at' = at + 1
    BY <1>5 DEF ClientReceive, IsAnswer
  <2>2. ~lost /\ server = "receiving" /\ at + 1 > Last => Last \in Ids(Data)
    <3> SUFFICES ASSUME ~lost, server = "receiving", at + 1 > Last PROVE Last \in Ids(Data)
      OBVIOUS
    <3>1. CASE at > Last
      BY <3>1 DEF Awaited
    <3>2. CASE at = Last
      BY <1>1, <3>2, Constants DEF Awaited, Ids, Acks
    <3> QED BY <3>1, <3>2, Constants DEF Inv, TypeOK
  <2>3. (\E k \in atClient : k.from = "server" /\ k.id = Fin)
        => \E k \in atClient' : k.from = "server" /\ k.id = Fin
    BY <1>1, <1>5
  <2> QED BY <1>1, <1>2, <2>1, <2>2, <2>3 DEF Awaited
<1> QED BY <1>3, <1>4, <1>5

LEMMA AwaitedServerReceive ==
  ASSUME Inv, Awaited, NEW m \in atServer, ServerReceive(m)
  PROVE  Awaited'
<1>1. server = "receiving" /\ at' = at /\ client' = client /\ lost' = lost
  BY DEF ServerReceive, clientVars, linkVars
<1>2. m.from \in {"client", "server"}
  BY Fields DEF Inv, TypeOK
<1>3. CASE m.from = "server"
  <2>1. atServer' = atServer \ {m} /\ atClient' = atClient /\ server' = server
    BY <1>3 DEF ServerReceive, serverVars
  <2>2. Ids(Data)' = Ids(Data) /\ Ids(Acks)' = Ids(Acks)
    BY <1>3, <2>1 DEF Ids, Data, Acks
  <2> QED BY <1>1, <2>1, <2>2 DEF Awaited
<1>4. CASE m.from = "client" /\ m.id # Last
  <2> DEFINE ack == [from |-> "server", id |-> m.id, copy |-> m.copy]
  <2>1. /\ atServer' = (atServer \ {m}) \cup {ack} /\ atClient' = atClient \cup {ack}
        /\ server' = server
    BY <1>4 DEF ServerReceive
  <2>2. ack.from = "server" /\ ack.id = m.id /\ m.id \in Packets /\ m.id # Fin
    BY <1>4, Fields, Constants DEF Inv, TypeOK
  <2> HIDE DEF ack
  <2>3. m.id \in Ids(Acks)' /\ Ids(Acks) \subseteq Ids(Acks)'
    BY <2>1, <2>2 DEF Ids, Acks
  <2>4. \A i \in Ids(Data) : i = m.id \/ i \in Ids(Data)'
    BY <2>1, <2>2 DEF Ids, Data
  <2>5. \A k \in atClient' : k.from = "server" => k.id # Last
    BY <1>4, <2>1, <2>2 DEF Awaited
  <2> QED BY <1>1, <1>4, <2>1, <2>3, <2>4, <2>5 DEF Awaited
<1>5. CASE m.from = "client" /\ m.id = Last
  <2>1. server' = "unzipping" /\ atClient' = atClient
    BY <1>5 DEF ServerReceive
  <2> QED BY <1>1, <2>1 DEF Awaited
<1> QED BY <1>2, <1>3, <1>4, <1>5

LEMMA AwaitedEnd == Inv /\ Awaited /\ (Unzip \/ SendFin) => Awaited'
<1> SUFFICES ASSUME Inv, Awaited, Unzip \/ SendFin PROVE Awaited'
  OBVIOUS
<1>1. CASE Unzip
  BY <1>1 DEF Unzip, Awaited, clientVars, linkVars
<1>2. CASE SendFin
  <2> DEFINE m == [from |-> "server", id |-> Fin, copy |-> 0]
  <2>1. server' = "done" /\ atClient' = atClient \cup {m}
    BY <1>2 DEF SendFin, Broadcast
  <2>2. m.from = "server" /\ m.id = Fin /\ Fin # Last
    BY Constants
  <2> HIDE DEF m
  <2> QED BY <2>1, <2>2 DEF Awaited
<1> QED BY <1>1, <1>2

LEMMA AwaitedLink ==
  ASSUME Inv, Awaited, NEW m \in OnTheWay, Copy(m) \/ Lose(m)
  PROVE  Awaited'
<1>1. at' = at /\ client' = client /\ server' = server
  BY DEF Copy, Lose, clientVars, serverVars
<1>2. CASE Lose(m)
  BY <1>1, <1>2 DEF Lose, Awaited
<1>3. CASE Copy(m)
  <2> DEFINE c == [m EXCEPT !.copy = copied + 1]
  <2>1. m \in Messages
    BY DEF OnTheWay, Inv, TypeOK
  <2>2. c.from = m.from /\ c.id = m.id
    BY <2>1, Fields
  <2> HIDE DEF c
  <2>3. /\ lost' = lost
        /\ IF m.from = "client"
           THEN atServer' = atServer \cup {c} /\ atClient' = atClient
           ELSE atClient' = atClient \cup {c} /\ atServer' = atServer
    BY <1>3 DEF Copy, c
  <2>4. Ids(Data) \subseteq Ids(Data)' /\ Ids(Acks) \subseteq Ids(Acks)' /\ atClient \subseteq atClient'
    BY <2>3 DEF Ids, Data, Acks
  <2>5. \A k \in atClient' : k.from = "server" => k.id # Last
    BY <2>2, <2>3 DEF Awaited, OnTheWay
  <2> QED BY <1>1, <2>3, <2>4, <2>5 DEF Awaited
<1> QED BY <1>2, <1>3

LEMMA AwaitedStep == Inv /\ Awaited /\ [Next]_vars => Awaited'
<1> SUFFICES ASSUME Inv, Awaited, [Next]_vars PROVE Awaited'
  OBVIOUS
<1>1. CASE UNCHANGED vars
  BY <1>1 DEF vars, clientVars, serverVars, linkVars, Awaited, Ids, Data, Acks
<1> QED BY <1>1, AwaitedSend, AwaitedClientReceive, AwaitedServerReceive, AwaitedEnd, AwaitedLink
        DEF Next

\* Client and server have no timeout, and each waits for the other.  As long as the
\* link has lost nothing and the client has not ended, one of them has something to do:
\* a packet to send, an answer or a packet to take, or the archive to unpack; or the
\* server has died on an archive with holes, and nobody will answer the client.
NobodyStuck ==
  ~lost /\ client # "done" =>
    \/ client = "sending"
    \/ client = "waiting" /\ \E m \in atClient : m.from = "server"
    \/ server = "receiving" /\ \E m \in atServer : m.from = "client"
    \/ server \in {"unzipping", "unzipped"}
    \/ server = "crashed" /\ Holes # {}

\* The server dies only on an archive with holes, and the archive stays as it was.
CrashSound == server = "crashed" => Holes # {}

LEMMA CrashStep == CrashSound /\ [Next]_vars => CrashSound'
<1> SUFFICES ASSUME CrashSound, [Next]_vars, server' = "crashed" PROVE Holes' # {}
  BY DEF CrashSound
<1>1. archive' = archive /\ Holes # {}
  BY DEF CrashSound, Next, vars, clientVars, serverVars, linkVars, Send, ClientReceive,
         ServerReceive, Unzip, SendFin, Copy, Lose, Broadcast
<1> QED BY <1>1 DEF Holes

THEOREM NeverBothWait == Spec => []NobodyStuck
<1>1. ASSUME Inv, Awaited, ~lost, client = "waiting", server = "receiving"
      PROVE  Data # {} \/ Acks # {}
  <2>1. at > Last \/ at <= Last
    BY <1>1, Constants DEF Inv, TypeOK
  <2> QED BY <1>1, <2>1 DEF Awaited, Ids
<1>2. Inv /\ Awaited /\ CrashSound => NobodyStuck
  BY <1>1 DEF NobodyStuck, Inv, TypeOK, Awaited, Data, Acks, CrashSound
<1>3. Init => CrashSound
  BY DEF Init, CrashSound
<1> QED BY <1>2, <1>3, AwaitedInit, AwaitedStep, CrashStep, Invariance, PTL DEF Spec

-----------------------------------------------------------------------------
(* The abstract transfer.                                                  *)

\* Nothing is in the archive before the last packet comes.
ArchiveUnmade == server = "receiving" => archive = <<>>

LEMMA UnmadeStep == ArchiveUnmade /\ [Next]_vars => ArchiveUnmade'
BY DEF ArchiveUnmade, Next, vars, clientVars, serverVars, linkVars, Send, ClientReceive,
       ServerReceive, Unzip, SendFin, Copy, Lose, Broadcast

\* The last packet makes the archive: every place of it is filled, the last one rightly.
LEMMA LastPacketCompletes ==
  ASSUME Inv, ArchiveUnmade, NEW m \in atServer, ServerReceive(m), m.from = "client", m.id = Last
  PROVE  Transfer!Complete
<1> DEFINE F == {i \in 0..Last : archive'[i + 1] # i}
<1>1. /\ server = "receiving" /\ server' = "unzipping" /\ client' = client
      /\ stored' = stored \cup {Last} /\ archive' = Assembled(stored', Last)
  BY DEF ServerReceive, clientVars
<1>2. Len(archive) = 0 /\ Foreign = {}
  <2>1. Len(archive) = 0
    BY <1>1 DEF ArchiveUnmade
  <2> QED BY <2>1 DEF Foreign
<1>3. /\ Len(archive)' = Last + 1
      /\ \A k \in 1..Last + 1 : archive'[k] = IF k - 1 \in stored' THEN k - 1 ELSE Hole
  BY <1>1, Constants DEF Assembled
<1>4. Foreign' = Foreign \cup F
  <2>1. 0..Len(archive)' - 1 = 0..Last
    BY <1>3, Constants
  <2> QED BY <1>2, <2>1 DEF Foreign
<1>5. F \in SUBSET (0..Last - 1)
  <2>1. archive'[Last + 1] = Last
    <3>1. Last + 1 \in 1..Last + 1 /\ (Last + 1) - 1 = Last /\ Last \in stored'
      BY <1>1, Constants
    <3> QED BY <1>3, <3>1
  <2>2. \A i \in F : i \in 0..Last /\ i # Last
    BY <2>1
  <2> QED BY <2>2, Constants
<1> HIDE DEF F
<1>6. PICK n \in 0 + 1..Last + 1 : n = Last + 1
  BY Constants
<1>7. F \in SUBSET (0..n - 1)
  BY <1>5, <1>6, Constants
\* The wrong places are those of the packets that were not stored.
<1>8. Cardinality(F) <= MaxCopies
  <2>1. F \subseteq Packets \ stored'
    <3> SUFFICES ASSUME NEW i \in F, i \in stored' PROVE FALSE
      BY <1>5, Constants DEF Packets
    <3>1. i \in 0..Last /\ archive'[i + 1] # i
      BY DEF F
    <3>2. i + 1 \in 1..Last + 1 /\ (i + 1) - 1 = i
      BY <3>1, Constants
    <3> QED BY <1>3, <3>1, <3>2
  <2>2. /\ stored' \subseteq Packets /\ Last + 1 <= Cardinality(stored') + copied'
        /\ copied' \in 0..MaxCopies
    <3>1. Inv'
      BY ServerLastInv
    <3> QED BY <1>1, <3>1 DEF Inv, TypeOK, ArchiveSound
  <2>3. /\ IsFiniteSet(Packets \ stored') /\ Cardinality(Packets \ stored') \in Nat
        /\ Cardinality(Packets \ stored') = Last + 1 - Cardinality(stored')
    BY <2>2, Unstored
  <2>4. Cardinality(F) <= Cardinality(Packets \ stored') /\ IsFiniteSet(F)
    BY <2>1, <2>3, FS_Subset
  <2>5. Cardinality(F) \in Nat /\ Cardinality(stored') \in Nat
    BY <2>2, <2>4, Constants, FS_Subset, FS_CardinalityType
  <2> QED BY <2>2, <2>3, <2>4, <2>5, Constants
<1>9. Foreign' \in {S \in SUBSET (0..Last - 1) : Cardinality(S) <= MaxCopies}
  BY <1>2, <1>4, <1>5, <1>8
<1>10. Transfer!Fill(n)
  BY <1>1, <1>2, <1>3, <1>4, <1>6, <1>7, <1>9 DEF Transfer!Fill
<1> QED BY <1>1, <1>2, <1>3, <1>6, <1>10 DEF Transfer!Complete

\* An archive with holes is not the sender's.
LEMMA HolesForeign == Inv /\ Holes # {} => Foreign # {}
<1> SUFFICES ASSUME Inv, NEW k \in Holes PROVE \E i \in Foreign : TRUE
  OBVIOUS
<1>1. archive \in Seq(Packets \cup {Hole}) /\ k \in DOMAIN archive /\ archive[k] = Hole
  BY DEF Holes, Inv, TypeOK
<1>2. Len(archive) \in Nat /\ k \in 1..Len(archive)
  BY <1>1
<1>3. k - 1 \in 0..Len(archive) - 1 /\ (k - 1) + 1 = k /\ k - 1 # Hole
  BY <1>2 DEF Hole
<1> QED BY <1>1, <1>3 DEF Foreign

LEMMA TransferStep ==
  ASSUME Inv, ArchiveUnmade, [Next]_vars
  PROVE  [Transfer!Next]_(Transfer!vars)
<1> USE DEF serverVars, clientVars, linkVars
<1>1. ASSUME UNCHANGED <<archive, server>>, client' = client \/ (client # "done" /\ client' # "done")
      PROVE  [Transfer!Next]_(Transfer!vars)
  <2>1. Foreign' = Foreign /\ Len(archive)' = Len(archive)
    BY <1>1 DEF Foreign
  <2> QED BY <1>1, <2>1 DEF Transfer!vars
<1>2. CASE Send
  BY <1>1, <1>2 DEF Send
<1>3. ASSUME NEW m \in atClient, ClientReceive(m)
      PROVE  [Transfer!Next]_(Transfer!vars)
  <2>1. CASE client' = "done"
    <3>1. /\ client = "waiting" /\ m.from = "server" /\ m.id = Fin
          /\ UNCHANGED <<archive, server>>
      BY <1>3, <2>1 DEF ClientReceive, IsAnswer
    <3>2. server = "done"
      BY <3>1 DEF Inv, FinSound
    <3>3. Foreign' = Foreign /\ Len(archive)' = Len(archive)
      BY <3>1 DEF Foreign
    <3> QED BY <2>1, <3>1, <3>2, <3>3 DEF Transfer!End, Transfer!Next
  <2>2. CASE client' # "done"
    BY <1>1, <1>3, <2>2 DEF ClientReceive
  <2> QED BY <2>1, <2>2
<1>4. ASSUME NEW m \in atServer, ServerReceive(m)
      PROVE  [Transfer!Next]_(Transfer!vars)
  <2>1. CASE m.from = "client" /\ m.id = Last
    BY <1>4, <2>1, LastPacketCompletes DEF Transfer!Next
  <2>2. CASE ~(m.from = "client" /\ m.id = Last)
    BY <1>1, <1>4, <2>2 DEF ServerReceive
  <2> QED BY <2>1, <2>2
<1>5. ASSUME NEW m \in OnTheWay, Copy(m) \/ Lose(m)
      PROVE  [Transfer!Next]_(Transfer!vars)
  BY <1>1, <1>5 DEF Copy, Lose
<1>6. CASE Unzip
  <2>1. Foreign' = Foreign /\ Len(archive)' = Len(archive)
    BY <1>6 DEF Unzip, Foreign
  <2>2. CASE server' = "unzipped"
    BY <1>6, <2>1, <2>2 DEF Unzip, Transfer!Unzip, Transfer!Next
  <2>3. CASE Holes # {} /\ server' = "crashed"
    BY <1>6, <2>1, <2>3, HolesForeign DEF Unzip, Transfer!Fail, Transfer!Next
  <2> QED BY <1>6, <2>2, <2>3 DEF Unzip
<1>7. CASE SendFin
  <2>1. Foreign' = Foreign /\ Len(archive)' = Len(archive)
    BY <1>7 DEF SendFin, Foreign
  <2> QED BY <1>7, <2>1 DEF SendFin, Transfer!Finish, Transfer!Next
<1>8. CASE UNCHANGED vars
  BY <1>1, <1>8 DEF vars
<1> QED BY <1>2, <1>3, <1>4, <1>5, <1>6, <1>7, <1>8 DEF Next

\* client.cpp and server.cpp of lab10 keep the promise of FileTransfer: the archive is made
\* once, up to its last packet, with other data at any place but the last and at no more
\* places than the link can make copies; without such data the server does not die on it,
\* and the client ends after the server.
THEOREM TransferRefined == Spec => ImplementsTransfer
<1>1. Init => Transfer!Init /\ ArchiveUnmade
  <2> SUFFICES ASSUME Init PROVE Transfer!Init /\ ArchiveUnmade
    OBVIOUS
  <2>1. Len(archive) = 0
    BY DEF Init
  <2>2. Foreign = {}
    BY <2>1 DEF Foreign
  <2> QED BY <2>1, <2>2 DEF Init, Transfer!Init, ArchiveUnmade
<1>2. Inv /\ ArchiveUnmade /\ [Next]_vars => [Transfer!Next]_(Transfer!vars)
  BY TransferStep
<1> QED BY <1>1, <1>2, UnmadeStep, Invariance, PTL
        DEF Spec, ImplementsTransfer, Transfer!Spec
=============================================================================
