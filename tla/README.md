# Verification project: network programming labs and homework

TLA+ models, model-checking runs and proofs for the programs of this repository:
an IRC chat server (`hw1/chatServer`), a DNS server (`hw2/dns-server`) and the
programs of ten labs.

## 1. Inventory

| Component | State it keeps | Operations | Talks to |
|---|---|---|---|
| hw1 registry (`EntityManager`, `User`, `Channel`) | `m_userStorage`, `m_channelStorage`, `m_entity`, `m_entityName` (keys are `string_view`s into the entities), `m_user` and `m_topic` of a channel, `m_joinedChannel` and two "init" flags of a user | add and remove users, create channels, set and change names | called by the command handler; pointers to users are shared with channels |
| hw1 commands (`CommandHandler`) | the table of commands | NICK USER PING LIST JOIN TOPIC NAMES PART USERS PRIVMSG QUIT; errors become numeric replies, two of them connection events | registry; sends to sockets |
| hw1 event loop (`Core`) | poll table `m_client`, `m_maxIndex`, `nready` | poll, accept, read, disconnect, kill | kernel; command handler |
| lab8 transfer (`client.cpp`, `server.cpp`) | client: map of unacknowledged packets and its iterator; server: queue, number of its front, file | send rounds, drain replies; receive, acknowledge, store, write, unzip, end messages | one lossy UDP link |
| hw2 DNS server | tree of domains, records, the name split into labels | read zone files, look up, answer, forward to another server | UDP clients, foreign server |
| lab6 throughput server | byte counter, number of sink clients, time of the last reset, two poll tables | /reset /ping /report /clients, sink reads | kernel |
| lab5 chat server | slots of the poll table with `revents`, `maxIndex`, `totalUserCount`, names | connect, /name, /who, message, disconnect | kernel; what clients are told of each other |
| lab10 broadcast transfer | client: packet number; server: array of packets, archive | send, acknowledge, put together, unzip, end message | one raw broadcast socket, on which each also hears itself |
| lab9 sudoku | boards with their masks, stack of the search, list of solutions | read the board, search, send the solution | a service behind a local stream socket |
| lab4 nkat | none but its children | accept, fork, waitpid | kernel |
| lab2 unpacker | none | read a packed file | files |
| lab3 clients, lab7 programs | none of their own | straight-line I/O; lab7 analyses given programs | remote services |

What is hard in them: two copies of one relation (channel and user), keys that are
views of strings owned elsewhere, pointers to users that go away, several input
lines in one read, flags of one `poll()` used while the world moves on, loss and
reordering of datagrams, acknowledgements computed by expressions that do not
mean what they look like, and iterators that reach `end()`. `PROJECT.json` lists
each hazard with its line and the properties that cover it.

What makes each part correct:

* registry: both copies of the membership agree and mention only live users; the
  index finds what has the name and its keys do not dangle;
* commands: a client moves only itself; a topic is changed by members; who goes
  away leaves all of its channels at once; the process survives;
* event loop: nothing but `poll()` blocks; nobody is skipped for ever;
* transfer: nothing is forgotten before it is stored, the file is in order, the
  server finishes unless its archive is spoilt and does not open; the client does not stop before the
  server has everything;
* DNS server: what it answers itself is what the zone files say, an answer goes to the client that
  asked, and only names outside its zones are forwarded (which the code does not keep: finding 4);
* throughput server: the client count is right although descriptors move between the two tables, and
  the byte counter is the bytes read less one for each failed `read()`, a defect that the property
  accounts for; only `poll()` could block; everyone is read;
* lab5 chat server: the same of its one table; the number of users is that of the table, and one more for each
  failed `accept()`, as the code counts those (also a defect), each user can work out the same number, and
  users know each other's present names;
* broadcast transfer: packets are in order, holes are no more than copies, the client ends when the files
  are there, and it does end unless something is lost or an archive with holes does not open;
* sudoku: the search finds every solution once and nothing else, and the service accepts it.

## 2. Modules

| Module | What it is |
|---|---|
| `ChannelMembership` | abstract: who is online and who is in which channel |
| `ChatServer` | registry, commands and connections of hw1; implements `ChannelMembership` |
| `MCChatServer` | symmetry sets for checking `ChatServer` |
| `ChatServerProofs` | theorems about `ChatServer` |
| `PollLoop`, `PollLoopProofs` | `Core::loop` against the kernel, and its theorems |
| `FileTransfer` | abstract: an archive that grows in order, a receiver, a sender that waits for it |
| `RobustUdp`, `RobustUdpProofs` | lab8 client, server and link, and its theorems; implements `FileTransfer` |
| `DnsServer`, `DnsServerProofs` | hw2 tree, lookups, own answers and forwarding, and its theorems |
| `MCDnsServer` | zone files and queries for checking `DnsServer` |
| `ThroughputServer`, `ThroughputProofs` | the server of lab6 against kernel and clients, and its theorems |
| `SudokuSolver`, `SudokuProofs` | the search of lab9 and its dialogue with the service, and its theorems |
| `MCSudoku` | puzzles of four by four for checking `SudokuSolver` |
| `BroadcastTransfer`, `BroadcastProofs` | lab10 client, server and link, and its theorems; implements `FileTransfer` |
| `SimpleChat`, `SimpleChatProofs` | the server of lab5 against kernel and clients, and its theorems |

Operators marked "Variant" are not the code's. Each is a slip that the code
avoids, beside the definition it would replace; with it the property named for it
in `PROJECT.json` fails, which shows that the property depends on that line.

### ChatServer

The server is one thread, so a step is one accept, one read or one input line. The
lines of one `read()` are handled back to back (`receiveClient`): `Receive(c)` sets
`current`, commands of `c` follow in any number, `EndOfRead` ends them. This keeps
the case that matters, a line after the one that removed its own client
(`LeftoverLine`). A read that fails is a `Receive` without a line.

| Code | Model |
|---|---|
| `m_client[c].fd = c`, descriptors of the process | `slots`, `open` |
| `m_userStorage` with `m_entity`; `m_isNickInit`, `m_isUserInfoInit` | `users`; `nickInit`, `infoInit` |
| `Entity::m_name`, `m_entityName` | `name`; `index`, whose entries are the id and the entity whose name the key views |
| `m_user`, `m_joinedChannel`, `m_topic` | `members`, `joined`, `topic` |
| `generateChannelID` | `created` |
| what was sent by the last step | `out`, a sequence of reply codes per descriptor |
| an exception nobody catches, a null pointer that is used | `crash`, after which nothing happens |

Text is left out: a reply is its numeric, a relayed line is `"MSG"`, the lines of the
welcome after 001 are `"MOTD"`. Names are model values; the argument sets of nicknames and
channel names are separate constants so that a run can make them overlap. One
model value stands for the empty topic. `Kill` leaves the descriptor open (`shutdown`
without `close`), so that `Accept` never gets it again.

### PollLoop

`loop()` is split where the kernel can act: `Poll`, `Connect` (the listening
socket), one `ScanOne` per flagged descriptor. `flagged` holds the `revents` of the
last `poll()`, `nready` the count as the code decrements it. The listening socket
stays flagged after `connect()`, so the scan visits it again, fails to read from it
and takes a second one off the count, as in the code. What a line does is left to
`ChatServer`; here a read takes input, or ends the connection.

### RobustUdp

The client's map is the set `unacked`, its iterator `it`; `phase` is `i % 10`
(`Stride`). `TakeReply` is one `recv()` of the drain, with both ways to acknowledge;
`AckedBy` is `finishPacket & 1 << i == 1` as C++ parses it. `Write` sends the
packet at the iterator and moves on; at `end()` it sends what lies behind the map's header
(`Strays`). The server's `ServerReceive` computes the acknowledgement first
(`FinishWords`, with the entry past the end of the queue free to hold anything),
answers, then stores and writes the run at the front (`Store`, `IsRun`). The link
keeps a set each way: a member may be taken and kept (duplicate), taken in any order, or
lost. Corrupted datagrams fail the UDP checksum and count as lost. The number of
copies of a reply, the pauses of the sender and the archive's contents are abstracted. `Unzip` always may
succeed; on a file that is not the client's archive (`Whole`: what lay behind the map's header came as packet 0, or it was
short and the server stopped with it) `Unzipper` or `extractAll` may throw instead, which nothing catches: the server
is `"crashed"`, and no end message is sent.
Negative shift counts are undefined behaviour; the model takes the outcome of the
builds there are (the count modulo 32).

### FileTransfer

What both transfers promise, without packets, acknowledgements or a link: `written` places of the archive are
filled, `foreign` are those of them that hold other data than their packet's, `receiver` and `sender` are the phases
of the two programs. `Spoilt` are the sets of places that may get other data, `EndsAt` the phases of the receiver in which
the sender may end. A receiver may die of the archive (`Fail`), but only of one with other data in it. The instances say
how the two labs differ. In lab8 only place 0 may be spoilt (by the sender that stood at `end()`), the receiver may stop
early with it, and the client ends as soon as the server stops receiving; in lab10 every place but the last may be (a hole of
the archive), no more of them than the link can make copies, and the client ends only after the server. Almost all steps of
the two are stutters there: what they do to the link, the window and the queue cannot be seen.

### DnsServer

A name is the sequence of its labels, the root first, as `DomainManager` walks it. The
tree is the set `nodes` of paths and the function `domainAt` from paths to the records
of a domain: a node on the way to a deeper zone has no domain. `LoadZone` is one line of the
configuration (a later file for the same domain replaces the earlier), `Start` binds
the socket. `Reached` and `Key` are the node where `getDomain()` ends and what is left of the name.

| Code | Model |
|---|---|
| `m_tree`, `Domain::m_records` | `nodes`, `domainAt` |
| position in `checkConnection()` | `server`: reading files, in the first `recvfrom()`, in the second `recv()` |
| buffer of `m_socketFd` | `inbox` |
| the connected socket to the foreign server | `answered` and `refused` (a pending ICMP error), `asked` for what is on its way there |
| the reply's sections | `out` |

Records keep name, class, type and the name their data refer to. The address
that the regular expression of nip.io names matches is a field of the query. The order
of records, TTLs, compression and sizes are left out. `ClassCode` is `classStr2Int`, which reads HS as
CS. `Handled` says, from the configured files alone, that a name lies in a zone, `Closest` which is the deepest such
zone, and `Hidden` that the walk goes past it: the name shares a label with the path to a deeper zone, but is not in that zone,
so that `getDomain()` ends at a node without a domain. Such a query is forwarded (finding 4), and such a name gets no additional
records. One more fact the model makes visible, which no document denies: an answer the network doubled
goes to the next client whose query is forwarded.

### ThroughputServer

The loops of lab6 are those of `PollLoop` twice, over two tables that are indexed by
descriptor: what `PollLoop` does not have is that one table closes a descriptor and the
other is given it before its own scan. `slots` are the slots with `fd >= 0`, `turn` is
the loop the thread is in, `peer` the state of each connection. A client may leave by an
end of file or by a reset; a reset makes one `read()` return -1 and the next 0. `ReadFails`
adds -1 to the counter modulo the width of `unsigned long long` (`Modulus`), for the listening
socket as well. `reported` and `failed` are what the properties need to account for the bytes;
the code keeps neither. `/report`, `/ping`, `/clients` and any other text
only send, which is `NoCount`; that the last sends an unset buffer is left out.

### SudokuSolver

`N` is 9 and `B` is 3 in the code; a cell is its number in reading order. `stack` is `temp`, `current`
with `number` the entry that is being tried; one step is one round of the loop over the
numbers. `CheckValue` and `SetValue` work on masks, as the class does; `Completions` is the reference: the
boards that complete a puzzle by the rules of the game, found by nothing but trying all. `SearchExact`
compares the two in every state. The service is external: it gives a puzzle with at least one empty cell
and without colliding clues (`PuzzlesAssumption`; the solver starts a full board at row 9, outside the array), and
understands what it reads when that is exactly one command. Without a solution line 152 refers to an entry
of a vector that never allocated; reading through it ends the process (`ReadNothing`). A failed `connect()`
or `read()` is reported and not returned from, and the search then starts on an empty board; this is left out.

### BroadcastTransfer

Every datagram reaches both raw sockets, so `Broadcast` puts it into both `atClient` and
`atServer`, and each program looks at the source address. A socket's set is unordered: datagrams may
overtake. `stored` are the entries of `packetQueue` that came, `archive` is `zipData`, with `Hole` for
an entry as the vector made it. Behind the last packet the client's entries have length 0 and `sendto()`
fails (`Send`). The archive has whole entries of `MAXLINE` bytes: the last repeats bytes of the packet received
before it, which zip tolerates at its end and the model does not show. Zip and unzip are one step each. An archive with
`Holes` may open or may not, depending on where its directory is: if it does not, `Unzipper` or `extractAll` throws, nothing
catches it, and the server dies (`"crashed"`) without an end message. This needs no loss, only a copied
acknowledgement and a packet that is overtaken.

### SimpleChat

A step is one `poll()`, one `accept()` or one `read()` with what follows it; clients, and the kernel's
handling of their connections, act between any two steps.

| Code | Model |
|---|---|
| `client[i].fd`, `client[i].revents` | `slot`, `revents` (whether a flag that is asked for is set) |
| `maxIndex`, `totalUserCount`, `nready` | `maxIndex`, `total`, `nready` |
| position in the loop; `i` of the loop that reads | `phase`; `cursor`, which is 1 while that loop does not run |
| `clientInfo[i].name` | `knows`: who was told the present name of whom |
| the notices that someone came or left | `view`: the number of users a client can work out |
| the connection | `conn`, `pending`, `queue` |

`client` is not initialised but for `fd` and `events`, so `revents` begins as any member of `Junk`.
The states of `conn` are what the code can tell apart on Linux: data are read before an end or a
reset is; a reset is reported once, by a `read()` of -1 or a failed `send()`, and what follows is an end of file; what
is sent after the client has closed is answered by a reset, after which a `write()` raises a signal. -1
of `read()` is taken for an empty message (line 169 writes before the buffer). A line of a client
is one `read()` long. `accept()` that fails is counted as a user with descriptor -1 (`AcceptFails`,
`ghosts`); with a full table the accepted connection is forgotten (`AcceptNoPlace`), and a failed `accept()` only
takes one off `nready` (`AcceptFailsNoPlace`). A "/name " without
a name or line end makes `remove_prefix` go past the end of its view, which is undefined; names are left out of
the model, and this with them.

## 3. Runs

| Run | Instance | Shows |
|---|---|---|
| `chat` | 3 descriptors, 2 nicknames, 1 channel name, room for 2 channels | the eight properties of the server; 47 000 states |
| `nicks_differ` | 2 descriptors | two registered users with one nickname (finding) |
| `poll` | listening socket, 3 clients, 2 waiting requests, 2 reads of input each | the four properties of the loop; 4 400 states |
| `udp` | 3 packets, stride 2, 2 acknowledgement bits | types, what may be forgotten, the order of the file, the refinement of `FileTransfer`, and that the server finishes or dies of a spoilt archive; 83 000 states |
| `udp_ready` | 2 packets | the client ends before the files are unzipped (finding) |
| `dns` | 3 zone files for 2 domains, one two levels below the other; 8 queries, 2 in the buffer, 1 copy | the four properties of the DNS server; 14 000 states |
| `dns_answered` | the same without the query for a hidden name, 1 in the buffer, no copy | a lost datagram stops the server (finding) |
| `dns_forwards` | the same with that query | a name of a configured zone is forwarded (finding) |
| `throughput` | 3 descriptors for clients, 3 connection requests, 2 bytes, 1 waiting line | the five properties of the server; 213 000 states |
| `sudoku` | 6 puzzles of 4 by 4 with no, one, two and four solutions | the four properties of the solver; 345 states |
| `broadcast` | 3 packets, 2 copies | the five properties of the transfer, the refinement of `FileTransfer` among them; 101 000 states |
| `simple_chat` | 3 clients, 2 places, 1 failed `accept()`, 1 unread line | the five properties of the server; 394 000 states, one to three minutes |

Why the bounds are enough. Three descriptors let one client leave while two others stay;
the properties speak of pairs of clients and one channel. Nicknames of the code are
compared for equality only, so two suffice, and the clients and nicknames are symmetric
in `chat` (no run with symmetry checks liveness). `MaxChannels` is a bound on behaviours:
the code makes ids without end. In `PollLoop` the last of three clients
can be skipped while others are read. In `RobustUdp` three packets with stride 2
let the drain happen at the first and at the last packet of a round, and so at
`end()`; two bits let the word have the dead bit and one that can be set (of four
bits of the wider type, as 16 of 32 in the code). `ChatServer` and `RobustUdp`
may stop (the process is dead, both programs have ended), and so may `DnsServer`, which blocks
for ever when a datagram is lost and its buffer is full; deadlock is not checked there. In
`PollLoop` and `ThroughputServer` it is. In `DnsServer` the zones are the ones that tell lookups
apart: a domain with a node without a domain between it and the next, and one file that is
replaced. The queries ask for names in each, between them, outside, of the nip.io
kind, and for names that no record has. `MaxInbox` bounds what waits while one query is
forwarded, and one copy (`MaxCopies`) is enough to reach the wrong client. In
`ThroughputServer` three descriptors and three requests (`MaxRequests`) let a descriptor be closed by one table
and given out by the other while two clients stay; `MaxSent` and `MaxLines` bound what
is unread, and `Modulus` lies above what the counter reaches but is met from below by -1.
The states of `sudoku` are few because the search is deterministic: what varies is the puzzle. The
puzzles have gaps in the first and in the last cell, several solutions on different branches, a board that only
the boxes decide and one whose contradiction shows in the last cell. In `broadcast` two copies are what
it takes to overtake twice, and three packets have a first, a middle and a short last one; `MaxCopies` bounds the
link, and as everything else is sent once, nothing more is bounded. In `simple_chat` two places
for three clients let a place change hands, the table be full and one of two be read first; `MaxGhosts`
bounds failed calls of `accept()`, `MaxWaiting` lines the server has not read (several clients are ready in one
round all the same, as ends and resets are not counted), and `Junk` is the worst value, a flag that is set.
All three may stop: the programs end, or are stuck.

Fairness. `ChatServer` has none: its properties are safety. `PollLoop`: the server thread
runs (weak fairness of its steps); the kernel owes nothing. `InputIsRead` holds when
connection requests eventually stop: without that, the listening socket can be flagged in
every round and the highest client starve. `RobustUdp`: the client's
loop and the server's last steps run (weak fairness), and a packet that is on its way
again and again is received in the end (strong fairness of receiving each packet: a link that
loses every copy lets nobody finish); whether a spoilt archive opens is not assumed, and
`ServerFinishes` takes a death of one as an end. `DnsServer`: the server runs, and the foreign server answers
or refuses what reaches it; the network may lose anything, and `QueriesServed` claims nothing after
that. `ThroughputServer`: the thread runs, the clients owe nothing; as in `PollLoop`,
`ClientsServed` holds because connection requests end. `SudokuSolver`: solver and service run.
`BroadcastTransfer`: each process reads on; nothing is assumed about the link, and `TransferEnds` claims nothing
once something was lost, nor for a client whose server died on an archive with holes, which waits for ever. `SimpleChat`: the server runs; clients, and connection requests without end, owe
nothing: unlike `PollLoop`, a new connection is counted once here, so no client starves. For `RobustUdp`, nothing is assumed about replies, and so
nothing is claimed about the end of the client: if the last replies and the five end
messages are lost it sends for ever.

## 4. Findings

1. `NicksDiffer`: a nickname is entered into the index only when its owner is registered, so
   two clients that send NICK before USER share it (`EntityManager.cpp:70,89`).
2. `FilesReadyWhenClientEnds`: the client ends on its last acknowledgement, the server
   still has to unzip (`lab8/client.cpp:149`, `lab8/server.cpp:155`).
3. `OwnQueriesAnswered`: after a datagram of the foreign link is lost, queries for the server's own
   domains are not answered either (`hw2/dns-server/Server.cpp:170`).
4. `ForwardsForeignOnly`: a name of a configured zone that shares a label with the path to a deeper zone
   is forwarded, although `hw2/README.md:20,22` has the server respond to it (`hw2/dns-server/DomainManager.cpp:17`).

Five more are seen through properties that hold, and have no run of their own:

* JOIN, PART, TOPIC, NAMES and LIST of a registered nickname use the null result of a `dynamic_cast`
  (`EntityManager.cpp:19`, `CommandHandler.cpp:12`), while `hw1/README.md:57` says that a JOIN is always a success. A client
  that sends NICK and USER, then JOIN with its own nickname, ends the process. `JoinSucceeds` states the claim. It fails
  as soon as the argument sets of the two kinds of names overlap; `JoinIsSuccess` and `ProcessLives` hold by `NamesDisjoint`.
* The archive of lab8 may hold foreign data as its packet 0, or end there, and that of lab10 may have holes with nothing lost.
  When it does not open, the exception ends the server (`lab8/server.cpp:157`, `lab10/server.cpp:134`), and in lab10 the client
  waits for ever (`ServerFinishes`, `TransferEnds`).
* The listening socket is counted twice, so that a scan may
  leave the highest flagged client (`Core.cpp:109,121`; `LeavesAtMostTheHighest`).
* A `read()` that fails takes one off the byte counter (`lab6/server.cpp:185`; `BytesAccounted`).
* An `accept()` that fails is counted as a user for ever (`lab5/serverpoll.cpp:119`; `CountsAgree`).

## 5. Proofs

All theorems hold for every value of the constants that meets the named assumptions
(`FdsAssumption`, `IdsAssumption`, ... are about the shape of the id space, `LastAssumption`
about the number of packets).

* `ChatServerProofs`. `TypeCorrect`; `SlotsAgree` by itself; `MembershipAgrees` with the type
  invariant; from it `MembersMoveThemselves` and `MembershipRefined` (each action maps to a
  step of `ChannelMembership` or to a stutter). `IndexSound` needs more than `NamesSound`: that
  an entity in the index is a channel or a registered user, else a rename of an unregistered
  user would leave a stale key; `ServerInvariant` adds it. `TopicsByMembers` needs no invariant
  but that of types. `ProcessLives` assumes `NamesDisjoint` (the README of hw1 says that channel names start with
  '#'; that no nickname does is our assumption, the code checks neither) and shows that
  `removeUser` never throws and no handler gets a null channel; `JoinIsSuccess` is the claim of `hw1/README.md:57` under that
  assumption. `NicksDiffer` (finding 1) is false, and two theorems say how far it holds: `FoundWhileDifferent`, that
  until nicknames are shared each registered user is the one its nickname leads to, and `NicksSharedByUserOnly`, that
  only USER after a race of NICKs shares one. They need that a user which sent NICK has a name of the index (`Named`).
* `PollLoopProofs`. `LoopCounts` is the inductive heart: the count and the rest of the flags move
  together, so the scan never runs dry; `LoopNeverBlocks`, `LoopSkipsOne` and `LoopNeverStuck` follow with it.
* `RobustUdpProofs`. The invariant `Inv` adds to the checked properties what replies on
  their way say (`RepliesSound`: bit 0 is never set, the packet named is stored), that
  foreign data are numbered 0 and the last packet is short (`DataSound`), and that a receiving
  server lacks its front (`FrontMissing`). The proof has a lemma for the acknowledgement
  word (`NoBitZero`) and one for the queue (`StoreShape`). `WaitedForIsSent` reads the invariant the other way round:
  the packet a receiving server waits for is still in the client's map. `TransferRefined` maps every step to one of
  `FileTransfer` or to a stutter, with `{}` and `{0}` as the only sets of spoilt places (`OneForeign`). `ServerReceive` needs
  work, where the run that is written must start where the file ends and hold the packets of its places (`QueueSound`), and so
  does `Unzip`: a server that stopped early has a spoilt packet 0 (`StopSound`), so it dies only with one.
* `DnsServerProofs`. The invariant `TreeBuilt` says what the tree is after `loaded` files: its nodes are the prefixes
  of their names, and a domain has the records of the last file for it. With it a walk that
  ends at a domain ends at the closest zone, which gives `AnswersMatchFiles` for every configuration.
  `ForwardsForeignOnly` is false (finding 4), and `ForwardsMatchFiles` says how far: what is forwarded is in no zone, or hidden. `RelaysMatch` rests on `AtMostOnePending`: without copies, at
  most one datagram of the foreign link exists, it belongs to the query that waits, and none does when the server
  receives. `WaitsForSomething` adds that, unless something was lost, one exists while the server waits.
* `ThroughputProofs`. `TypeCorrect` includes that the tables are disjoint and hold exactly the
  descriptors that are not free, which is inductive as it stands. `CountsClients` adds the cardinality of the
  sink's table. `ScanNeverBlocks` needs `ScanInv`: the flagged slots that remain are exactly `nready`, or one more
  next to a new connection, and all of them can be read, as only the scan itself takes input away or closes. That
  gives `ScanSkipsOne` as well. `AccountsForBytes` writes the
  unread bytes as a set of pairs (client, number), so that a read or a write changes a cardinality and no sum over clients
  has to be unfolded; the rest is arithmetic modulo `Modulus`, in three lemmas.
* `SudokuProofs`. `SearchIsExact` needs that every board on the stack is consistent, agrees with the puzzle, and is
  filled up to its cell, and that a completion below a board has its number still to be tried or lies
  below exactly one of the boards already kept. `SearchFindsAll` reads it at the empty stack, and
  carries it to the end of the program (`Ended`: the search is over once the solution is sent), where `OutcomeIsRight` uses it. `CheckSucceeds`
  adds that the service's board is the solution up to the cursor, and that one command at a time is on its way.
* `BroadcastProofs`. `ArchiveHoles` rests on `Balance`: the packets the client has passed, the answers and the packets on
  their way are together no more than the packets the server has or may still get, and the copies. So when the short packet
  comes, at most `copied` of those before it are missing. `FilesReady` says that no end message exists before the files do.
  `TransferRefined` is that of lab8 with an archive that is made in one step, from the first packet to the last, and
  not before (`ArchiveUnmade`). Its places with other data are the holes, at most `MaxCopies` of them by `ArchiveHoles`, and a
  server that dies has one (`CrashSound`).
* `SimpleChatProofs`. The invariant adds two parts. `Served`: a client has one place, at most at
  `maxIndex`, and a connection. `Round`: what is left of `nready` is the number of flagged places up to some
  `top`, all of them readable; a place filled in this round with stale flags lies above `top`, because poll() has
  cleared the flags of every empty place up to `maxIndex`. So the least flagged place is readable while
  `nready` is positive, and the loop returns before it reaches the other. `NamesKnown` is a case for each
  action, and needs that broadcast() reaches all who are online (`ListenersAreOnline`).

Every liveness property has a safety half that is proved, namely that the system never stands still where it should
go on. For the loops of the servers it is that the thread finds what it is about to read (`LoopNeverStuck`,
`ThreadNeverStuck`, `NeverStuck` of `SimpleChatProofs`: the count of flags is never above the flags that are left, and a
finite set has a least element); for the pairs of programs it is that they do not both wait for the other (`NeverBothWait` of
`BroadcastProofs` and of `SudokuProofs`, `WaitsForSomething`, `WaitedForIsSent`). In lab10 this rests on `Awaited`: until something is
lost, or the server dies on an archive with holes, a waiting client has its packet or the answer on the way. What remains for TLC is that fair steps, which these
theorems show to exist, lead to the goal.

Only model-checked: `InputIsRead`, `ServerFinishes`, `QueriesServed`, `ClientsServed`, `SolvesWhatCanBeSolved`,
`TransferEnds` and `EveryoneRead`, as they rest on fairness, which the prover cannot treat. The refinement of
`FileTransfer` is proved for both labs, and both runs check it.

## 6. Not modelled, and the plan

Left out for good: lab3 and lab7 (clients and programs of other people's services, without state of
their own), lab1 (no code), lab4 (accept, fork and a single `waitpid()` in a turn: its only state is the children
the kernel keeps, and those that end together stay zombies until later turns), lab2 (one pass over a file whose
layout is all there is), the traffic generator of lab6 (it appears as the clients of its server), the bits of a DNS
header, parsing beyond which words a command gets, socket buffers
(a `send()` that blocks), running out of descriptors in all servers but lab5.

The plan, most important first:

1. done: `ChatServer`, `ChannelMembership`, `PollLoop`, `RobustUdp`, `DnsServer`,
   `ThroughputServer`, `SudokuSolver`, `BroadcastTransfer`, `SimpleChat` and their theorems;
   `FileTransfer`, and that lab8 and lab10 implement it;
2. composition: `ChatServer` under `PollLoop`, so that the order of reads in one round and the commands
   they carry are one behaviour;
3. an abstract specification of the DNS lookups.
