------------------------------ MODULE ChatServer ------------------------------
(***************************************************************************)
(* The chat server of hw1/chatServer: the entity registry (EntityManager,  *)
(* User, Channel), the command handlers (CommandHandler) and the part of   *)
(* Core that accepts, reads and drops connections.  The server is one      *)
(* thread; a step is the handling of one connection event or of one input  *)
(* line.  The lines of one read() are handled back to back (receiveClient), *)
(* so between Receive and EndOfRead only the client being read acts.       *)
(* Operators marked "Variant" are not the code's: each is a slip the code   *)
(* avoids, kept beside the definition it would stand for.                   *)
(*                                                                         *)
(* A descriptor is also the id of its user, as in the code.  The ids -1,   *)
(* -2, ... that generateChannelID hands out identify channels.             *)
(***************************************************************************)
EXTENDS Integers, Sequences, FiniteSets

CONSTANTS Fds,          \* descriptors the kernel may return from accept()
          NickArgs,     \* words clients give as a nickname
          ChanArgs,     \* words clients give as a channel name
          Texts,        \* non-empty topic texts
          NoName,       \* the empty m_name of a user that sent no NICK
          NoTopic,      \* the empty m_topic
          None,         \* no entity
          MaxChannels   \* bound: channels created in a behaviour

Names == NickArgs \cup ChanArgs
ChanIds == -MaxChannels .. -1
Ids == Fds \cup ChanIds

ASSUME MaxChannelsAssumption == MaxChannels \in Nat
ASSUME IdsAssumption == Fds \cap ChanIds = {} /\ None \notin Ids
ASSUME NoNameAssumption == NoName \notin Names
ASSUME FdsAssumption == IsFiniteSet(Fds)     \* there are FD_SETSIZE slots

\* README: a channel name starts with '#'.  That no nickname does is an assumption of the
\* runs and theorems that use this; the code does not test it.
NamesDisjoint == NickArgs \cap ChanArgs = {}

VARIABLES
  open,      \* descriptors the process holds open
  slots,     \* descriptors c with m_client[c].fd = c
  users,     \* ids of the User objects in m_userStorage and m_entity
  name,      \* Entity::m_name
  nickInit,  \* users with m_isNickInit
  infoInit,  \* users with m_isUserInfoInit
  joined,    \* User::m_joinedChannel
  created,   \* number of channels made so far (the static id of generateChannelID)
  members,   \* Channel::m_user
  topic,     \* Channel::m_topic
  index,     \* m_entityName: the id, and the entity whose m_name the key views
  current,   \* the client whose input receiveClient is handling
  crash,     \* what killed the process, or "no"
  out        \* what the last step sent to each descriptor

connVars == <<open, slots>>
userVars == <<users, nickInit, infoInit, joined>>
chanVars == <<created, members, topic>>
nameVars == <<name, index>>
stateVars == <<connVars, userVars, chanVars, nameVars>>
vars == <<stateVars, current, crash, out>>

Channels == -created .. -1      \* ids in m_channelStorage

-----------------------------------------------------------------------------
(* Output.  A reply is its numeric, "MSG" a line relayed for a client,     *)
(* "MOTD" the lines of the welcome after 001.                              *)

Codes == {"001", "321", "322", "323", "331", "332", "353", "366", "392", "393",
          "394", "401", "403", "411", "412", "421", "431", "436", "442", "461",
          "MSG", "MOTD", "PONG"}

Silence == [u \in Fds |-> <<>>]
Reply(c, codes) == [Silence EXCEPT ![c] = codes]

\* Channel::sendMsg: every member gets the line, its sender included.
Broadcast(S) == [u \in Fds |-> IF u \in S THEN <<"MSG">> ELSE <<>>]

\* One reply of this code for each of n entries of a list.
Listing(code, n) == [i \in 1..n |-> code]

TopicReply(t) == IF t = NoTopic THEN "331" ELSE "332"

-----------------------------------------------------------------------------
(* The registry.                                                           *)

Registered(u) == u \in nickInit /\ u \in infoInit
Known(n) == index[n].id # None
IsChannel(e) == e \in Channels     \* the dynamic_cast<Channel*> succeeds

Absent == [id |-> None, key |-> None]

\* m_entityName.erase(n)
Erase(ix, n) == [ix EXCEPT ![n] = Absent]

\* m_entityName[n] = e, where the key is a view of e's own name.  operator[] of
\* a map that holds the key already replaces the value and keeps the old key.
Bind(ix, n, e) ==
  [ix EXCEPT ![n] = [id |-> e, key |-> IF @.id = None THEN e ELSE @.key]]

\* The id the next call of generateChannelID returns.
NextChannelId == -(created + 1)

-----------------------------------------------------------------------------
(* Connections.                                                            *)

Idle == crash = "no" /\ current = None
Serving(c) == crash = "no" /\ current = c /\ c \in users

Die(how) == /\ crash' = how
            /\ out' = Silence
            /\ UNCHANGED <<stateVars, current>>

\* EntityManager::removeUser: what is left of the registry without u.
EraseUser(u) ==
  /\ index' = IF Registered(u) THEN Erase(index, name[u]) ELSE index
  /\ users' = users \ {u}
  /\ name' = [name EXCEPT ![u] = NoName]
  /\ nickInit' = nickInit \ {u}
  /\ infoInit' = infoInit \ {u}
  /\ joined' = [joined EXCEPT ![u] = {}]

\* Variants: the channels are not told; m_user is cleared instead of erased from.
WithoutMemberForgotten(u, S) == members
WithoutMemberCleared(u, S) == [ch \in ChanIds |-> IF ch \in S THEN {} ELSE members[ch]]

\* The channels after Channel::removeUser(u) on each of the channels in S.
WithoutMember(u, S) ==
  [ch \in ChanIds |-> IF ch \in S THEN members[ch] \ {u} ELSE members[ch]]

\* Variant: m_client keeps the descriptor.
KeepSlot(u) == UNCHANGED slots

FreeSlot(u) == slots' = slots \ {u}

\* CommandHandler::removeUser.  Channel::removeUser throws when u is no member,
\* and nothing above this call catches it.
RemoveUser(u, codes, stays) ==
  IF \E ch \in joined[u] : u \notin members[ch]
  THEN Die("uncaught")
  ELSE /\ members' = WithoutMember(u, joined[u])
       /\ EraseUser(u)
       /\ FreeSlot(u)
       /\ open' = IF stays THEN open ELSE open \ {u}
       /\ out' = Reply(u, codes)
       /\ UNCHANGED <<created, topic, current, crash>>

\* Core::disconnect closes the descriptor; Core::kill only shuts it down.
Disconnect(c) == RemoveUser(c, <<>>, FALSE)
Kill(c) == RemoveUser(c, <<"436">>, TRUE)

\* EntityManager::addUser: a new User, of which nothing is known yet.
AddUser(c) ==
  /\ users' = users \cup {c}
  /\ name' = [name EXCEPT ![c] = NoName]
  /\ nickInit' = nickInit \ {c}
  /\ infoInit' = infoInit \ {c}
  /\ joined' = [joined EXCEPT ![c] = {}]

\* Core::connect: accept() returns a descriptor the process does not hold.
Accept(c) ==
  /\ Idle
  /\ c \notin open
  /\ open' = open \cup {c}
  /\ IF c \notin slots
     THEN slots' = slots \cup {c} /\ AddUser(c)
     ELSE UNCHANGED <<slots, users, name, nickInit, infoInit, joined>>
  /\ out' = Silence
  /\ UNCHANGED <<chanVars, index, current, crash>>

\* read() returned the bytes of at least one line.
Receive(c) ==
  /\ Idle
  /\ c \in slots
  /\ current' = c
  /\ out' = Silence
  /\ UNCHANGED <<stateVars, crash>>

\* read() returned 0.
ReceiveEof(c) == Idle /\ c \in slots /\ Disconnect(c)

\* The lines of the read are used up.
EndOfRead ==
  /\ crash = "no"
  /\ current # None
  /\ current' = None
  /\ out' = Silence
  /\ UNCHANGED <<stateVars, crash>>

-----------------------------------------------------------------------------
(* Commands.                                                               *)

\* commandHandle looks the user up before anything else; for a line that follows
\* the one that removed the user, the pointer it gets is null.
LeftoverLine(c) ==
  /\ crash = "no"
  /\ current = c
  /\ c \notin users
  /\ Die("null user")

\* Lines that are answered and change nothing: an unknown command (421), a
\* missing parameter (461), and the cases with a code of their own.
BadCommand(c, code) ==
  /\ Serving(c)
  /\ out' = Reply(c, <<code>>)
  /\ UNCHANGED <<stateVars, current, crash>>

\* EntityManager::setNickName of an unregistered user.
InitNick(c, n) ==
  /\ name' = [name EXCEPT ![c] = n]
  /\ nickInit' = nickInit \cup {c}
  /\ index' = IF c \in infoInit THEN Bind(index, n, c) ELSE index

\* Variant: the old name is not removed from m_entityName.
ChangeNickKeepsOld(c, n) ==
  /\ index' = Bind(index, n, c)
  /\ name' = [name EXCEPT ![c] = n]
  /\ UNCHANGED nickInit

\* EntityManager::changeNickName.
ChangeNick(c, n) ==
  /\ index' = Bind(Erase(index, name[c]), n, c)
  /\ name' = [name EXCEPT ![c] = n]
  /\ UNCHANGED nickInit

Nick(c, n) ==
  /\ Serving(c)
  /\ IF Known(n)
     THEN Kill(c)
     ELSE /\ IF Registered(c) THEN ChangeNick(c, n) ELSE InitNick(c, n)
          /\ out' = Silence
          /\ UNCHANGED <<connVars, users, infoInit, joined, chanVars, current, crash>>

User(c) ==
  /\ Serving(c)
  /\ infoInit' = infoInit \cup {c}
  /\ index' = IF c \in nickInit THEN Bind(index, name[c], c) ELSE index
  /\ out' = Reply(c, <<"001", "MOTD">>)
  /\ UNCHANGED <<connVars, users, nickInit, joined, chanVars, name, current, crash>>

\* CommandHandler::joinChannel once the channel is there.
Enter(c, ch) ==
  /\ members' = [members EXCEPT ![ch] = @ \cup {c}]
  /\ joined' = [joined EXCEPT ![c] = @ \cup {ch}]
  /\ out' = [Broadcast(members[ch] \cup {c})
               EXCEPT ![c] = @ \o <<TopicReply(topic[ch]), "353", "366">>]
  /\ UNCHANGED <<connVars, users, nickInit, infoInit, topic, current, crash>>

\* Variant: createChannelIfNotExist without the test whether it exists.
JoinNewAnyway(c, n) ==
  /\ Serving(c)
  /\ created < MaxChannels
  /\ created' = created + 1
  /\ name' = [name EXCEPT ![NextChannelId] = n]
  /\ index' = Bind(index, n, NextChannelId)
  /\ Enter(c, NextChannelId)

JoinNew(c, n) ==
  /\ Serving(c)
  /\ ~Known(n)
  /\ created < MaxChannels
  /\ created' = created + 1
  /\ name' = [name EXCEPT ![NextChannelId] = n]
  /\ index' = Bind(index, n, NextChannelId)
  /\ Enter(c, NextChannelId)

JoinExisting(c, n) ==
  /\ Serving(c)
  /\ Known(n)
  /\ IF IsChannel(index[n].id)
     THEN Enter(c, index[n].id) /\ UNCHANGED <<created, nameVars>>
     ELSE Die("null channel")

\* Variant: the user does not forget the channel it left.
LeaveOneSided(c, ch) ==
  /\ members' = [members EXCEPT ![ch] = @ \ {c}]
  /\ out' = Broadcast(members[ch] \ {c})
  /\ UNCHANGED <<connVars, userVars, created, topic, nameVars, current, crash>>

\* CommandHandler::leaveChannel: the line goes to those who remain.
Leave(c, ch) ==
  /\ members' = [members EXCEPT ![ch] = @ \ {c}]
  /\ joined' = [joined EXCEPT ![c] = @ \ {ch}]
  /\ out' = Broadcast(members[ch] \ {c})
  /\ UNCHANGED <<connVars, users, nickInit, infoInit, created, topic, nameVars,
                 current, crash>>

Part(c, n) ==
  /\ Serving(c)
  /\ IF ~Known(n) THEN BadCommand(c, "403")
     ELSE IF ~IsChannel(index[n].id) THEN Die("null channel")
     ELSE IF c \notin members[index[n].id] THEN BadCommand(c, "442")
     ELSE Leave(c, index[n].id)

\* Variant: the list of parameters is stored instead of the one that follows the name.
SetTopicToList(c, ch, text) ==
  /\ topic' = IF text = <<>> THEN topic ELSE [topic EXCEPT ![ch] = text]
  /\ out' = Reply(c, <<TopicReply(topic'[ch])>>)
  /\ UNCHANGED <<connVars, userVars, created, members, nameVars, current, crash>>

\* setChannelTopic: text is <<>> for a query.
SetTopic(c, ch, text) ==
  /\ topic' = IF text = <<>> THEN topic ELSE [topic EXCEPT ![ch] = text[1]]
  /\ out' = Reply(c, <<TopicReply(topic'[ch])>>)
  /\ UNCHANGED <<connVars, userVars, created, members, nameVars, current, crash>>

Topic(c, n, text) ==
  /\ Serving(c)
  /\ IF ~Known(n) THEN BadCommand(c, "442")
     ELSE IF ~IsChannel(index[n].id) THEN Die("null channel")
     ELSE IF c \notin members[index[n].id] THEN BadCommand(c, "442")
     ELSE SetTopic(c, index[n].id, text)

\* The commands below only send.
Tell(messages) == out' = messages /\ UNCHANGED <<stateVars, current, crash>>

ListUsersOf(c, n) ==
  /\ Serving(c)
  /\ IF ~Known(n) THEN BadCommand(c, "403")
     ELSE IF ~IsChannel(index[n].id) THEN Die("null channel")
     ELSE Tell(Reply(c, <<"332", "353", "366">>))

ListChannels(c) ==
  /\ Serving(c)
  /\ Tell(Reply(c, <<"321">> \o Listing("322", created) \o <<"323">>))

\* A comma list repeats the lookup of one name; the first unknown one ends it.
ListChannel(c, n) ==
  /\ Serving(c)
  /\ IF ~Known(n) THEN Tell(Reply(c, <<"321", "403">>))
     ELSE IF ~IsChannel(index[n].id) THEN Die("null channel")
     ELSE Tell(Reply(c, <<"321", "322", "323">>))

ListAllUsers(c) ==
  /\ Serving(c)
  /\ Tell(Reply(c, <<"392">> \o Listing("393", Cardinality(users)) \o <<"394">>))

\* sendPrivateMsg asks neither for membership nor for registration.
PrivMsg(c, n) ==
  /\ Serving(c)
  /\ IF ~Known(n) THEN BadCommand(c, "401")
     ELSE IF IsChannel(index[n].id) THEN Tell(Broadcast(members[index[n].id]))
     ELSE Tell(Broadcast({index[n].id}))

Ping(c) == Serving(c) /\ Tell(Reply(c, <<"PONG">>))

\* quit() throws Disconnect; the rest of the read is still handled afterwards.
Quit(c) == Serving(c) /\ Disconnect(c)

-----------------------------------------------------------------------------
Init ==
  /\ open = {} /\ slots = {} /\ users = {}
  /\ nickInit = {} /\ infoInit = {}
  /\ name = [e \in Ids |-> NoName]
  /\ joined = [u \in Fds |-> {}]
  /\ created = 0
  /\ members = [ch \in ChanIds |-> {}]
  /\ topic = [ch \in ChanIds |-> NoTopic]
  /\ index = [n \in Names |-> Absent]
  /\ current = None
  /\ crash = "no"
  /\ out = Silence

TopicArgs == {<<>>} \cup {<<t>> : t \in Texts \cup {NoTopic}}

Event(c) == Accept(c) \/ Receive(c) \/ ReceiveEof(c) \/ LeftoverLine(c)

Command(c) ==
  \/ \E code \in {"411", "412", "421", "431", "461"} : BadCommand(c, code)
  \/ \E n \in NickArgs : Nick(c, n)
  \/ User(c)
  \/ \E n \in ChanArgs : \/ JoinNew(c, n) \/ JoinExisting(c, n) \/ Part(c, n)
                         \/ \E text \in TopicArgs : Topic(c, n, text)
                         \/ ListUsersOf(c, n) \/ ListChannel(c, n)
  \/ ListChannels(c) \/ ListAllUsers(c)
  \/ \E n \in Names : PrivMsg(c, n)
  \/ Ping(c)
  \/ Quit(c)

Next == EndOfRead \/ \E c \in Fds : Event(c) \/ Command(c)

Spec == Init /\ [][Next]_vars

-----------------------------------------------------------------------------
(* Properties.                                                             *)

Crashes == {"no", "uncaught", "null user", "null channel"}

IndexEntry == [id : Ids \cup {None}, key : Ids \cup {None}]

\* Every variable has its type.
TypeOK ==
  /\ open \subseteq Fds /\ slots \subseteq Fds /\ users \subseteq Fds
  /\ nickInit \subseteq Fds /\ infoInit \subseteq Fds
  /\ name \in [Ids -> Names \cup {NoName}]
  /\ joined \in [Fds -> SUBSET ChanIds]
  /\ created \in 0..MaxChannels
  /\ members \in [ChanIds -> SUBSET Fds]
  /\ topic \in [ChanIds -> Texts \cup {NoTopic}]
  /\ index \in [Names -> IndexEntry]
  /\ current \in Fds \cup {None}
  /\ crash \in Crashes
  /\ out \in [Fds -> Seq(Codes)]

\* The two copies of the membership relation, Channel::m_user and
\* User::m_joinedChannel, agree, and both speak only of users that exist and of
\* channels that were made: no channel keeps a pointer to a deleted User.
MembershipSymmetric ==
  /\ \A u \in Fds, ch \in ChanIds : u \in members[ch] <=> ch \in joined[u]
  /\ \A ch \in ChanIds : members[ch] \subseteq users
  /\ \A u \in Fds : joined[u] \subseteq Channels

\* m_entityName maps a name to an entity that exists and has this name, and the
\* string its key is a view of belongs to an entity that exists and has not
\* changed its name since ("reference is valid if fd is used").
NamesSound ==
  \A n \in Names : Known(n) =>
    \A e \in {index[n].id, index[n].key} :
      e \in users \cup Channels /\ name[e] = n

\* The poll table and the registry agree on who is connected, and poll() never
\* watches a descriptor that was closed; hence the branch of connect() for a
\* descriptor "used twice" is not taken by a successful accept().
SlotsMatchUsers == slots = users /\ slots \subseteq open

\* When no nickname is a channel name, the process dies of one thing only: a line
\* that came in the same read as the one that removed its client.  No Error
\* escapes removeUser, and no handler gets a null channel.
DiesOfLeftoverLineOnly == crash = "no" \/ (crash = "null user" /\ current \notin users)

\* A channel is found under its name for ever, by its own key; so a name is
\* never that of two channels.
ChannelsStayNamed ==
  \A ch \in Channels : index[name[ch]] = [id |-> ch, key |-> ch]

\* While a client stays connected, only its own commands change the channels it
\* is in: another client's PART, QUIT, disconnection or kill never does.
OnlyOwnCommandMovesMember ==
  [][\A u \in users \cap users', ch \in ChanIds :
       (u \in members'[ch]) # (u \in members[ch]) => current = u]_vars

\* The topic of a channel changes only by a command of one of its members.
TopicChangedByMember ==
  [][\A ch \in ChanIds : topic'[ch] # topic[ch] => current \in members[ch]]_vars

\* The server implements the membership specification: a client that goes away,
\* for whatever reason, leaves all of its channels in one step and no other.
Membership == INSTANCE ChannelMembership
  WITH Clients <- Fds, Channels <- ChanIds, online <- users,
       on <- {p \in Fds \X ChanIds : p[1] \in members[p[2]]}

ImplementsMembership == Membership!Spec

\* "Kilac already used by another one" is a collision: no two registered users
\* have the same nickname.
NicksDiffer ==
  \A u, v \in users : Registered(u) /\ Registered(v) /\ u # v => name[u] # name[v]

\* "JOIN a channel is always a success": it does not take the server down.
JoinSucceeds ==
  [][\A c \in Fds, n \in ChanArgs : JoinExisting(c, n) => crash' = "no"]_vars
=============================================================================
