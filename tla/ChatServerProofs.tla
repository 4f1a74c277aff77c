--------------------------- MODULE ChatServerProofs ---------------------------
(* Theorems of ChatServer, for every set of clients, names and topics.     *)
EXTENDS ChatServer, FiniteSetTheorems, TLAPS

-----------------------------------------------------------------------------
(* Types of what a step sends.                                             *)

\* What is sent to one client, and what is relayed to a set of them, is a
\* sequence of codes for each descriptor.
LEMMA OutputTypes ==
  /\ Silence \in [Fds -> Seq(Codes)]
  /\ \A c \in Fds, codes \in Seq(Codes) : Reply(c, codes) \in [Fds -> Seq(Codes)]
  /\ \A S : Broadcast(S) \in [Fds -> Seq(Codes)]
<1>1. Silence \in [Fds -> Seq(Codes)]
  BY DEF Silence
<1>2. \A c \in Fds, codes \in Seq(Codes) : Reply(c, codes) \in [Fds -> Seq(Codes)]
  BY <1>1 DEF Reply
<1>3. <<"MSG">> \in Seq(Codes) /\ <<>> \in Seq(Codes)
  BY DEF Codes
<1>4. \A S : Broadcast(S) \in [Fds -> Seq(Codes)]
  BY <1>3 DEF Broadcast
<1> QED BY <1>1, <1>2, <1>4

\* The answers to the commands that list channels or users.
LEMMA ListingTypes ==
  ASSUME NEW code \in Codes, NEW first \in Codes, NEW last \in Codes, NEW n \in Nat
  PROVE  <<first>> \o Listing(code, n) \o <<last>> \in Seq(Codes)
<1>1. Listing(code, n) \in Seq(Codes)
  BY DEF Listing
<1>2. <<first>> \in Seq(Codes) /\ <<last>> \in Seq(Codes)
  OBVIOUS
<1> QED BY <1>1, <1>2

\* Binding and erasing a name keep the index a function from names to entries.
LEMMA IndexTypes ==
  ASSUME NEW ix \in [Names -> IndexEntry], NEW n, NEW e \in Ids
  PROVE  /\ Bind(ix, n, e) \in [Names -> IndexEntry]
         /\ Erase(ix, n) \in [Names -> IndexEntry]
BY DEF Bind, Erase, Absent, IndexEntry

-----------------------------------------------------------------------------
(* Type correctness.                                                       *)

\* A step that only sends keeps the types.
LEMMA TellTypes ==
  ASSUME TypeOK, NEW messages \in [Fds -> Seq(Codes)], Tell(messages)
  PROVE  TypeOK'
BY DEF Tell, TypeOK, stateVars, connVars, userVars, chanVars, nameVars

\* So does the death of the process.
LEMMA DieTypes ==
  ASSUME TypeOK, NEW how \in Crashes, Die(how)
  PROVE  TypeOK'
BY OutputTypes DEF Die, TypeOK, stateVars, connVars, userVars, chanVars, nameVars

\* An answer of one code keeps the types.
LEMMA BadCommandTypes ==
  ASSUME TypeOK, NEW c \in Fds, NEW code \in Codes, BadCommand(c, code)
  PROVE  TypeOK'
<1>1. <<code>> \in Seq(Codes)
  OBVIOUS
<1>2. Reply(c, <<code>>) \in [Fds -> Seq(Codes)]
  BY <1>1, OutputTypes
<1> QED BY <1>2 DEF BadCommand, TypeOK, stateVars, connVars, userVars, chanVars, nameVars

\* Removing a user, be it by disconnection or by a kill, keeps the types.
LEMMA RemoveUserTypes ==
  ASSUME TypeOK, NEW u \in Fds, NEW codes \in Seq(Codes), NEW stays \in BOOLEAN,
         RemoveUser(u, codes, stays)
  PROVE  TypeOK'
<1>1. CASE Die("uncaught")
  BY <1>1, DieTypes DEF Crashes
<1>2. CASE ~ Die("uncaught")
  <2> USE <1>2
  <2>1. Reply(u, codes) \in [Fds -> Seq(Codes)]
    BY OutputTypes
  <2>2. index' \in [Names -> IndexEntry]
    <3>1. Erase(index, name[u]) \in [Names -> IndexEntry]
      BY IndexTypes DEF TypeOK, Ids
    <3> QED BY <3>1 DEF RemoveUser, EraseUser, TypeOK
  <2>3. name' \in [Ids -> Names \cup {NoName}] /\ joined' \in [Fds -> SUBSET ChanIds]
    BY DEF RemoveUser, EraseUser, TypeOK
  <2>4. members' \in [ChanIds -> SUBSET Fds]
    BY DEF RemoveUser, WithoutMember, TypeOK
  <2> QED BY <2>1, <2>2, <2>3, <2>4 DEF RemoveUser, EraseUser, FreeSlot, TypeOK
<1> QED BY <1>1, <1>2 DEF RemoveUser

\* The relayed line and the answers a joining client gets.
LEMMA EnterTypes ==
  ASSUME TypeOK, NEW c \in Fds, NEW ch \in ChanIds, Enter(c, ch)
  PROVE  /\ members' \in [ChanIds -> SUBSET Fds]
         /\ joined' \in [Fds -> SUBSET ChanIds]
         /\ out' \in [Fds -> Seq(Codes)]
<1> DEFINE heard == Broadcast(members[ch] \cup {c})
<1>1. heard \in [Fds -> Seq(Codes)]
  BY OutputTypes
<1>2. <<TopicReply(topic[ch]), "353", "366">> \in Seq(Codes)
  BY DEF TopicReply, Codes
<1>3. out' = [heard EXCEPT ![c] = @ \o <<TopicReply(topic[ch]), "353", "366">>]
  BY DEF Enter
<1>4. out' \in [Fds -> Seq(Codes)]
  <2> HIDE DEF heard
  <2>1. heard[c] \o <<TopicReply(topic[ch]), "353", "366">> \in Seq(Codes)
    BY <1>1, <1>2
  <2> QED BY <1>1, <1>3, <2>1
<1> QED BY <1>4 DEF Enter, TypeOK

\* Disconnection and kill.
LEMMA GoneTypes ==
  ASSUME TypeOK, NEW c \in Fds, Disconnect(c) \/ Kill(c)
  PROVE  TypeOK'
<1>1. <<>> \in Seq(Codes) /\ <<"436">> \in Seq(Codes)
  BY DEF Codes
<1> QED BY <1>1, RemoveUserTypes DEF Disconnect, Kill

\* A connection event keeps the types.
LEMMA EventTypes ==
  ASSUME TypeOK, NEW c \in Fds, Event(c)
  PROVE  TypeOK'
<1>1. CASE Accept(c)
  BY <1>1, OutputTypes DEF Accept, AddUser, TypeOK, chanVars
<1>2. CASE Receive(c)
  BY <1>2, OutputTypes DEF Receive, TypeOK, stateVars, connVars, userVars, chanVars, nameVars
<1>3. CASE ReceiveEof(c)
  BY <1>3, GoneTypes DEF ReceiveEof
<1>4. CASE LeftoverLine(c)
  BY <1>4, DieTypes DEF LeftoverLine, Crashes
<1> QED BY <1>1, <1>2, <1>3, <1>4 DEF Event

\* NICK and USER keep the types.
LEMMA RegisterTypes ==
  ASSUME TypeOK, NEW c \in Fds, (\E n \in NickArgs : Nick(c, n)) \/ User(c)
  PROVE  TypeOK'
<1>1. ASSUME NEW n \in NickArgs, Nick(c, n)
      PROVE  TypeOK'
  <2>1. CASE Known(n)
    BY <1>1, <2>1, GoneTypes DEF Nick
  <2>2. CASE ~Known(n)
    <3>1. n \in Names /\ c \in Ids
      BY DEF Names, Ids
    <3>2. /\ Bind(index, n, c) \in [Names -> IndexEntry]
          /\ Bind(Erase(index, name[c]), n, c) \in [Names -> IndexEntry]
      BY <3>1, IndexTypes DEF TypeOK
    <3> QED BY <1>1, <2>2, <3>1, <3>2, OutputTypes
            DEF Nick, ChangeNick, InitNick, TypeOK, connVars, chanVars
  <2> QED BY <2>1, <2>2
<1>2. CASE User(c)
  <2>1. Bind(index, name[c], c) \in [Names -> IndexEntry]
    BY IndexTypes DEF TypeOK, Ids
  <2>2. <<"001", "MOTD">> \in Seq(Codes)
    BY DEF Codes
  <2>3. Reply(c, <<"001", "MOTD">>) \in [Fds -> Seq(Codes)]
    BY <2>2, OutputTypes
  <2> QED BY <1>2, <2>1, <2>3 DEF User, TypeOK, connVars, chanVars
<1> QED BY <1>1, <1>2

\* JOIN, PART and TOPIC keep the types.
LEMMA ChannelTypes ==
  ASSUME TypeOK, NEW c \in Fds, NEW n \in ChanArgs,
         \/ JoinNew(c, n) \/ JoinExisting(c, n) \/ Part(c, n)
         \/ \E text \in TopicArgs : Topic(c, n, text)
  PROVE  TypeOK'
<1>1. n \in Names
  BY DEF Names
<1>2. Channels \subseteq ChanIds
  BY MaxChannelsAssumption DEF Channels, ChanIds, TypeOK
<1>3. CASE JoinNew(c, n)
  <2>1. NextChannelId \in ChanIds
    BY <1>3, MaxChannelsAssumption DEF JoinNew, NextChannelId, ChanIds, TypeOK
  <2>2. Bind(index, n, NextChannelId) \in [Names -> IndexEntry]
    BY <2>1, IndexTypes DEF TypeOK, Ids
  <2>3. created' \in 0..MaxChannels
    BY <1>3, MaxChannelsAssumption DEF JoinNew, TypeOK
  <2>4. name' \in [Ids -> Names \cup {NoName}]
    BY <1>1, <1>3 DEF JoinNew, TypeOK
  <2>5. Enter(c, NextChannelId)
    BY <1>3 DEF JoinNew
  <2> QED BY <1>3, <2>1, <2>2, <2>3, <2>4, <2>5, EnterTypes DEF JoinNew, Enter, TypeOK, connVars
<1>4. CASE JoinExisting(c, n)
  <2>1. CASE IsChannel(index[n].id)
    <3>1. index[n].id \in ChanIds
      BY <1>2, <2>1 DEF IsChannel
    <3>2. Enter(c, index[n].id) /\ UNCHANGED <<created, nameVars>>
      BY <1>4, <2>1 DEF JoinExisting
    <3> QED BY <3>1, <3>2, EnterTypes DEF Enter, TypeOK, connVars, nameVars
  <2>2. CASE ~IsChannel(index[n].id)
    BY <1>4, <2>2, DieTypes DEF JoinExisting, Crashes
  <2> QED BY <2>1, <2>2
<1>5. CASE Part(c, n)
  <2>1. CASE BadCommand(c, "403") \/ BadCommand(c, "442")
    BY <2>1, BadCommandTypes DEF Codes
  <2>2. CASE Die("null channel")
    BY <2>2, DieTypes DEF Crashes
  <2>3. CASE Leave(c, index[n].id)
    BY <2>3, OutputTypes DEF Leave, TypeOK, connVars, nameVars
  <2> QED BY <1>5, <2>1, <2>2, <2>3 DEF Part
<1>6. ASSUME NEW text \in TopicArgs, Topic(c, n, text)
      PROVE  TypeOK'
  <2>1. CASE BadCommand(c, "442")
    BY <2>1, BadCommandTypes DEF Codes
  <2>2. CASE Die("null channel")
    BY <2>2, DieTypes DEF Crashes
  <2>3. CASE SetTopic(c, index[n].id, text)
    <3>1. topic' \in [ChanIds -> Texts \cup {NoTopic}]
      <4>1. text = <<>> \/ text[1] \in Texts \cup {NoTopic}
        BY DEF TopicArgs
      <4> QED BY <2>3, <4>1 DEF SetTopic, TypeOK
    <3>2. <<TopicReply(topic'[index[n].id])>> \in Seq(Codes)
      BY DEF TopicReply, Codes
    <3>3. out' \in [Fds -> Seq(Codes)]
      BY <2>3, <3>2, OutputTypes DEF SetTopic
    <3> QED BY <2>3, <3>1, <3>3 DEF SetTopic, TypeOK, connVars, userVars, nameVars
  <2> QED BY <1>6, <2>1, <2>2, <2>3 DEF Topic
<1> QED BY <1>3, <1>4, <1>5, <1>6

\* The commands that only send keep the types.
LEMMA QueryTypes ==
  ASSUME TypeOK, NEW c \in Fds,
         \/ \E n \in ChanArgs : ListUsersOf(c, n) \/ ListChannel(c, n)
         \/ ListChannels(c) \/ ListAllUsers(c)
         \/ \E n \in Names : PrivMsg(c, n)
         \/ Ping(c)
  PROVE  TypeOK'
<1> DEFINE Sent == \/ \E codes \in Seq(Codes) : Tell(Reply(c, codes))
                   \/ \E S : Tell(Broadcast(S))
<1>1. Sent => TypeOK'
  BY OutputTypes, TellTypes
<1>2. ASSUME \E code \in Codes : BadCommand(c, code)
      PROVE  TypeOK'
  BY <1>2, BadCommandTypes
<1>3. ASSUME Die("null channel")
      PROVE  TypeOK'
  BY <1>3, DieTypes DEF Crashes
<1>4. ASSUME NEW n \in ChanArgs, ListUsersOf(c, n) \/ ListChannel(c, n)
      PROVE  TypeOK'
  <2>1. /\ <<"332", "353", "366">> \in Seq(Codes)
        /\ <<"321", "403">> \in Seq(Codes)
        /\ <<"321", "322", "323">> \in Seq(Codes)
        /\ "403" \in Codes
    BY DEF Codes
  <2> QED BY <1>1, <1>2, <1>3, <1>4, <2>1 DEF ListUsersOf, ListChannel
<1>5. CASE ListChannels(c)
  <2>1. "321" \in Codes /\ "322" \in Codes /\ "323" \in Codes /\ created \in Nat
    BY MaxChannelsAssumption DEF Codes, TypeOK
  <2>2. <<"321">> \o Listing("322", created) \o <<"323">> \in Seq(Codes)
    BY <2>1, ListingTypes
  <2> QED BY <1>1, <1>5, <2>2 DEF ListChannels
<1>6. CASE ListAllUsers(c)
  <2>1. Cardinality(users) \in Nat
    BY FdsAssumption, FS_Subset, FS_CardinalityType DEF TypeOK
  <2>2. "392" \in Codes /\ "393" \in Codes /\ "394" \in Codes
    BY DEF Codes
  <2>3. <<"392">> \o Listing("393", Cardinality(users)) \o <<"394">> \in Seq(Codes)
    BY <2>1, <2>2, ListingTypes
  <2> QED BY <1>1, <1>6, <2>3 DEF ListAllUsers
<1>7. ASSUME NEW n \in Names, PrivMsg(c, n)
      PROVE  TypeOK'
  <2>1. "401" \in Codes
    BY DEF Codes
  <2> QED BY <1>1, <1>2, <1>7, <2>1 DEF PrivMsg
<1>8. CASE Ping(c)
  <2>1. <<"PONG">> \in Seq(Codes)
    BY DEF Codes
  <2> QED BY <1>1, <1>8, <2>1 DEF Ping
<1> QED BY <1>4, <1>5, <1>6, <1>7, <1>8

\* Every step keeps the types.
LEMMA TypeStep == TypeOK /\ [Next]_vars => TypeOK'
<1> SUFFICES ASSUME TypeOK, [Next]_vars PROVE TypeOK'
  OBVIOUS
<1>1. CASE EndOfRead
  BY <1>1, OutputTypes DEF EndOfRead, TypeOK, stateVars, connVars, userVars, chanVars, nameVars
<1>2. ASSUME NEW c \in Fds, Event(c)
      PROVE  TypeOK'
  BY <1>2, EventTypes
<1>3. ASSUME NEW c \in Fds, Command(c)
      PROVE  TypeOK'
  <2>1. CASE \E code \in {"411", "412", "421", "431", "461"} : BadCommand(c, code)
    BY <2>1, BadCommandTypes DEF Codes
  <2>2. CASE Quit(c)
    BY <2>2, GoneTypes DEF Quit
  <2> QED BY <1>3, <2>1, <2>2, RegisterTypes, ChannelTypes, QueryTypes DEF Command
<1>4. CASE UNCHANGED vars
  BY <1>4 DEF TypeOK, vars, stateVars, connVars, userVars, chanVars, nameVars
<1> QED BY <1>1, <1>2, <1>3, <1>4 DEF Next

\* The initial state has the types.
LEMMA TypeInit == Init => TypeOK
BY OutputTypes, MaxChannelsAssumption DEF Init, TypeOK, Absent, IndexEntry, Crashes

\* Every variable of the server always has its type.
THEOREM TypeCorrect == Spec => []TypeOK
BY TypeInit, TypeStep, PTL DEF Spec

-----------------------------------------------------------------------------
(* Connections and membership.                                             *)

\* What a step does to connections and membership: nothing, or one of five
\* things.
Gone(u) ==
  /\ u \in slots \cup users
  /\ members' = WithoutMember(u, joined[u])
  /\ EraseUser(u)
  /\ FreeSlot(u)
  /\ open' \in {open, open \ {u}}
  /\ UNCHANGED <<created, topic>>

MembershipUnchanged == UNCHANGED <<connVars, users, joined, created, members>>

StepKind ==
  \/ MembershipUnchanged
  \/ \E c \in Fds :
       \/ Accept(c)
       \/ Gone(c)
       \/ \E n \in ChanArgs : JoinNew(c, n)
       \/ \E ch \in Channels : Serving(c) /\ Enter(c, ch) /\ UNCHANGED created
       \/ \E ch \in Channels : Serving(c) /\ c \in members[ch] /\ Leave(c, ch)

\* Removing a user whose channels all know it succeeds.
LEMMA RemoveUserKinds ==
  ASSUME NEW c, NEW codes, NEW stays, c \in slots \cup users, RemoveUser(c, codes, stays)
  PROVE  MembershipUnchanged \/ Gone(c)
<1>1. CASE Die("uncaught")
  BY <1>1 DEF Die, MembershipUnchanged, stateVars, connVars, userVars, chanVars
<1>2. CASE ~Die("uncaught")
  BY <1>2 DEF RemoveUser, Gone
<1> QED BY <1>1, <1>2

\* Every step is of one of these kinds.
LEMMA StepKinds ==
  ASSUME TypeOK, [Next]_vars
  PROVE  StepKind
<1> USE DEF connVars, userVars, chanVars, nameVars
<1>1. ASSUME \/ \E how : Die(how)
             \/ \E messages : Tell(messages)
             \/ \E c, code : BadCommand(c, code)
             \/ EndOfRead \/ UNCHANGED vars
      PROVE  MembershipUnchanged
  BY <1>1 DEF Die, Tell, BadCommand, EndOfRead, vars, stateVars, MembershipUnchanged
<1>2. ASSUME NEW c \in Fds, Event(c)
      PROVE  StepKind
  <2>1. CASE Receive(c) \/ LeftoverLine(c)
    BY <2>1 DEF Receive, LeftoverLine, Die, stateVars, MembershipUnchanged, StepKind
  <2>2. CASE ReceiveEof(c)
    BY <2>2, RemoveUserKinds DEF ReceiveEof, Disconnect, StepKind
  <2> QED BY <1>2, <2>1, <2>2 DEF Event, StepKind
<1>3. ASSUME NEW c \in Fds, Command(c)
      PROVE  StepKind
  <2>1. CASE \E n \in NickArgs : Nick(c, n)
    BY <2>1, RemoveUserKinds DEF Nick, Serving, Kill, ChangeNick, InitNick, MembershipUnchanged, StepKind
  <2>2. CASE User(c)
    BY <2>2 DEF User, MembershipUnchanged, StepKind
  <2>3. CASE Quit(c)
    BY <2>3, RemoveUserKinds DEF Quit, Serving, Disconnect, StepKind
  <2>4. ASSUME NEW n \in ChanArgs, JoinExisting(c, n)
        PROVE  StepKind
    BY <1>1, <2>4 DEF JoinExisting, IsChannel, StepKind
  <2>5. ASSUME NEW n \in ChanArgs, Part(c, n)
        PROVE  StepKind
    BY <1>1, <2>5 DEF Part, IsChannel, StepKind
  <2>6. ASSUME NEW n \in ChanArgs, NEW text \in TopicArgs, Topic(c, n, text)
        PROVE  StepKind
    BY <1>1, <2>6 DEF Topic, SetTopic, MembershipUnchanged, StepKind
  <2>7. ASSUME \/ \E n \in ChanArgs : ListUsersOf(c, n) \/ ListChannel(c, n)
               \/ ListChannels(c) \/ ListAllUsers(c) \/ Ping(c)
               \/ \E n \in Names : PrivMsg(c, n)
               \/ \E code \in {"411", "412", "421", "431", "461"} : BadCommand(c, code)
        PROVE  StepKind
    BY <1>1, <2>7 DEF ListUsersOf, ListChannel, ListChannels, ListAllUsers, Ping, PrivMsg, StepKind
  <2>8. ASSUME NEW n \in ChanArgs, JoinNew(c, n)
        PROVE  StepKind
    BY <2>8 DEF StepKind
  <2> QED BY <1>3, <2>1, <2>2, <2>3, <2>4, <2>5, <2>6, <2>7, <2>8 DEF Command
<1> QED BY <1>1, <1>2, <1>3 DEF Next, StepKind

\* The poll table, the open descriptors and the users stay in step.
LEMMA SlotsStep ==
  ASSUME TypeOK, SlotsMatchUsers, [Next]_vars
  PROVE  SlotsMatchUsers'
<1>1. CASE MembershipUnchanged
  BY <1>1 DEF MembershipUnchanged, connVars, SlotsMatchUsers
<1>2. ASSUME NEW c \in Fds, Accept(c)
      PROVE  SlotsMatchUsers'
  BY <1>2 DEF Accept, AddUser, SlotsMatchUsers
<1>3. ASSUME NEW c \in Fds, Gone(c)
      PROVE  SlotsMatchUsers'
  BY <1>3 DEF Gone, FreeSlot, EraseUser, SlotsMatchUsers
<1>4. ASSUME NEW c, NEW ch, Enter(c, ch) \/ Leave(c, ch)
      PROVE  SlotsMatchUsers'
  BY <1>4 DEF Enter, Leave, connVars, SlotsMatchUsers
<1> QED BY <1>1, <1>2, <1>3, <1>4, StepKinds DEF StepKind, JoinNew

\* The two copies of the membership relation stay equal.
LEMMA MembershipStep ==
  ASSUME TypeOK, SlotsMatchUsers, MembershipSymmetric, [Next]_vars
  PROVE  MembershipSymmetric'
<1>0. Channels \subseteq ChanIds
  BY MaxChannelsAssumption DEF Channels, ChanIds, TypeOK
<1>1. CASE MembershipUnchanged
  BY <1>1 DEF MembershipUnchanged, MembershipSymmetric, Channels
<1>2. ASSUME NEW c \in Fds, Accept(c)
      PROVE  MembershipSymmetric'
  <2>1. c \notin slots /\ c \notin users
    BY <1>2 DEF Accept, SlotsMatchUsers
  <2>2. \A ch \in ChanIds : c \notin members[ch]
    BY <2>1 DEF MembershipSymmetric
  <2>3. /\ users' = users \cup {c}
        /\ joined' = [joined EXCEPT ![c] = {}]
        /\ UNCHANGED <<members, created>>
    BY <1>2, <2>1 DEF Accept, AddUser, chanVars
  <2> QED BY <2>2, <2>3 DEF MembershipSymmetric, TypeOK, Channels
<1>3. ASSUME NEW c \in Fds, Gone(c)
      PROVE  MembershipSymmetric'
  <2>1. /\ members' = [ch \in ChanIds |-> IF ch \in joined[c] THEN members[ch] \ {c}
                                                           ELSE members[ch]]
        /\ users' = users \ {c}
        /\ joined' = [joined EXCEPT ![c] = {}]
        /\ UNCHANGED created
    BY <1>3 DEF Gone, EraseUser, WithoutMember
  <2>2. \A ch \in ChanIds : members'[ch] = members[ch] \ {c}
    BY <2>1 DEF MembershipSymmetric
  <2>3. \A u \in Fds, ch \in ChanIds : u \in members'[ch] <=> ch \in joined'[u]
    BY <2>1, <2>2 DEF MembershipSymmetric, TypeOK
  <2> QED BY <2>1, <2>2, <2>3 DEF MembershipSymmetric, TypeOK, Channels
<1>4. ASSUME NEW c \in Fds, NEW ch \in ChanIds, c \in users, Enter(c, ch),
             ch \in Channels', Channels \subseteq Channels'
      PROVE  MembershipSymmetric'
  BY <1>4 DEF Enter, MembershipSymmetric, TypeOK
<1>5. ASSUME NEW c \in Fds, NEW n \in ChanArgs, JoinNew(c, n)
      PROVE  MembershipSymmetric'
  <2>1. /\ NextChannelId \in ChanIds
        /\ NextChannelId \in Channels'
        /\ Channels \subseteq Channels'
    BY <1>5, MaxChannelsAssumption DEF JoinNew, NextChannelId, ChanIds, Channels, TypeOK
  <2> QED BY <1>4, <1>5, <2>1 DEF JoinNew, Serving
<1>6. ASSUME NEW c \in Fds, NEW ch \in Channels, c \in users, Enter(c, ch), UNCHANGED created
      PROVE  MembershipSymmetric'
  BY <1>0, <1>4, <1>6 DEF Channels
<1>7. ASSUME NEW c \in Fds, NEW ch \in Channels, Leave(c, ch)
      PROVE  MembershipSymmetric'
  BY <1>0, <1>7 DEF Leave, MembershipSymmetric, TypeOK, Channels
<1> QED BY <1>1, <1>2, <1>3, <1>5, <1>6, <1>7, StepKinds DEF StepKind, Serving

ConnectionInv == TypeOK /\ SlotsMatchUsers /\ MembershipSymmetric

LEMMA ConnectionInit == Init => ConnectionInv
BY TypeInit, MaxChannelsAssumption DEF ConnectionInv, Init, SlotsMatchUsers, MembershipSymmetric

\* The poll table and the registry always agree on who is connected.
THEOREM SlotsAgree == Spec => []SlotsMatchUsers
<1>1. ConnectionInv /\ [Next]_vars => ConnectionInv'
  BY TypeStep, SlotsStep, MembershipStep DEF ConnectionInv
<1> QED BY <1>1, ConnectionInit, PTL DEF Spec, ConnectionInv

\* A channel has a client as member exactly when the client has the channel
\* among those it joined, whatever order of joins, parts, kills and
\* disconnections led there; no channel keeps a pointer to a deleted user.
THEOREM MembershipAgrees == Spec => []MembershipSymmetric
<1>1. ConnectionInv /\ [Next]_vars => ConnectionInv'
  BY TypeStep, SlotsStep, MembershipStep DEF ConnectionInv
<1> QED BY <1>1, ConnectionInit, PTL DEF Spec, ConnectionInv

\* While a client stays connected, only its own commands move it into or out of
\* a channel.
THEOREM MembersMoveThemselves == Spec => OnlyOwnCommandMovesMember
<1> DEFINE A == \A u \in users \cap users', ch \in ChanIds :
                  (u \in members'[ch]) # (u \in members[ch]) => current = u
<1>1. ASSUME ConnectionInv, [Next]_vars
      PROVE  A
  <2> USE DEF ConnectionInv
  <2>1. CASE MembershipUnchanged
    BY <2>1 DEF MembershipUnchanged
  <2>2. ASSUME NEW c \in Fds, Accept(c)
        PROVE  A
    BY <2>2 DEF Accept, chanVars
  <2>3. ASSUME NEW c \in Fds, Gone(c)
        PROVE  A
    <3>1. c \notin users'
      BY <2>3 DEF Gone, EraseUser
    <3>2. \A ch \in ChanIds : members'[ch] \in {members[ch], members[ch] \ {c}}
      BY <2>3 DEF Gone, WithoutMember
    <3>3. ASSUME NEW u \in users \cap users', NEW ch \in ChanIds
          PROVE  (u \in members'[ch]) # (u \in members[ch]) => current = u
      <4>1. members'[ch] = members[ch] \/ members'[ch] = members[ch] \ {c}
        BY <3>2
      <4>2. u # c
        BY <3>1
      <4> QED BY <4>1, <4>2
    <3> QED BY <3>3
  <2>4. ASSUME NEW c \in Fds, NEW ch, Serving(c), Enter(c, ch) \/ Leave(c, ch)
        PROVE  A
    <3>1. current = c
      BY <2>4 DEF Serving
    <3>2. members' \in {[members EXCEPT ![ch] = @ \cup {c}], [members EXCEPT ![ch] = @ \ {c}]}
      BY <2>4 DEF Enter, Leave
    <3>3. \A d \in ChanIds : members'[d] \in {members[d], members[d] \cup {c}, members[d] \ {c}}
      <4>1. CASE members' = [members EXCEPT ![ch] = @ \cup {c}]
        BY <4>1 DEF TypeOK
      <4>2. CASE members' = [members EXCEPT ![ch] = @ \ {c}]
        BY <4>2 DEF TypeOK
      <4> QED BY <3>2, <4>1, <4>2
    <3>4. ASSUME NEW u \in users \cap users', NEW d \in ChanIds
          PROVE  (u \in members'[d]) # (u \in members[d]) => current = u
      <4>1. CASE u = c
        BY <3>1, <4>1
      <4>2. CASE u # c
        <5>1. u \in members'[d] <=> u \in members[d]
          BY <3>3, <4>2
        <5> QED BY <5>1
      <4> QED BY <4>1, <4>2
    <3> QED BY <3>4
  <2> QED BY <1>1, <2>1, <2>2, <2>3, <2>4, StepKinds DEF StepKind, JoinNew
<1>2. ConnectionInv /\ [Next]_vars => ConnectionInv'
  BY TypeStep, SlotsStep, MembershipStep DEF ConnectionInv
<1>3. ConnectionInv /\ [Next]_vars => [A]_vars
  BY <1>1
<1> QED BY <1>2, <1>3, ConnectionInit, PTL DEF Spec, OnlyOwnCommandMovesMember

\* Only TOPIC by a member of the channel touches a topic.
LEMMA TopicKinds ==
  ASSUME [Next]_vars
  PROVE  \/ UNCHANGED topic
         \/ \E c \in Fds : \E ch, text :
               Serving(c) /\ c \in members[ch] /\ SetTopic(c, ch, text)
<1> USE DEF chanVars
<1>1. ASSUME \/ \E how : Die(how)
             \/ \E messages : Tell(messages)
             \/ \E c, code : BadCommand(c, code)
             \/ \E c, codes, stays : RemoveUser(c, codes, stays)
             \/ \E c, ch : Enter(c, ch) \/ Leave(c, ch)
             \/ EndOfRead \/ UNCHANGED vars
      PROVE  UNCHANGED topic
  BY <1>1 DEF Die, Tell, BadCommand, RemoveUser, Enter, Leave, EndOfRead, vars, stateVars
<1>2. ASSUME NEW c \in Fds, Event(c)
      PROVE  UNCHANGED topic
  BY <1>1, <1>2 DEF Event, Accept, Receive, ReceiveEof, Disconnect, LeftoverLine, stateVars
<1>3. ASSUME NEW c \in Fds, NEW n \in ChanArgs, NEW text, Topic(c, n, text)
      PROVE  \/ UNCHANGED topic
             \/ \E ch : Serving(c) /\ c \in members[ch] /\ SetTopic(c, ch, text)
  BY <1>1, <1>3 DEF Topic
<1>4. ASSUME NEW c \in Fds, Command(c)
      PROVE  \/ UNCHANGED topic
             \/ \E ch, text : Serving(c) /\ c \in members[ch] /\ SetTopic(c, ch, text)
  <2>1. ASSUME \/ \E n \in NickArgs : Nick(c, n)
               \/ User(c) \/ Quit(c)
        PROVE  UNCHANGED topic
    BY <1>1, <2>1 DEF Nick, Kill, User, Quit, Disconnect
  <2>2. ASSUME NEW n \in ChanArgs, JoinNew(c, n) \/ JoinExisting(c, n) \/ Part(c, n)
        PROVE  UNCHANGED topic
    BY <1>1, <2>2 DEF JoinNew, JoinExisting, Part
  <2>3. ASSUME \/ \E n \in ChanArgs : ListUsersOf(c, n) \/ ListChannel(c, n)
               \/ ListChannels(c) \/ ListAllUsers(c) \/ Ping(c)
               \/ \E n \in Names : PrivMsg(c, n)
               \/ \E code \in {"411", "412", "421", "431", "461"} : BadCommand(c, code)
        PROVE  UNCHANGED topic
    BY <1>1, <2>3 DEF ListUsersOf, ListChannel, ListChannels, ListAllUsers, Ping, PrivMsg
  <2> QED BY <1>3, <1>4, <2>1, <2>2, <2>3 DEF Command
<1> QED BY <1>1, <1>2, <1>4 DEF Next

\* The topic of a channel changes only by a command of one of its members.
THEOREM TopicsByMembers == Spec => TopicChangedByMember
<1> DEFINE A == \A ch \in ChanIds : topic'[ch] # topic[ch] => current \in members[ch]
<1>1. ASSUME TypeOK, [Next]_vars
      PROVE  A
  <2>1. CASE UNCHANGED topic
    BY <2>1
  <2>2. ASSUME NEW c \in Fds, NEW ch, NEW text,
               Serving(c), c \in members[ch], SetTopic(c, ch, text)
        PROVE  A
    <3>1. \A d \in ChanIds : d # ch => topic'[d] = topic[d]
      BY <2>2 DEF SetTopic, TypeOK
    <3> QED BY <2>2, <3>1 DEF Serving
  <2> QED BY <1>1, <2>1, <2>2, TopicKinds
<1>2. TypeOK /\ [Next]_vars => [A]_vars
  BY <1>1
<1> QED BY <1>2, TypeInit, TypeStep, PTL DEF Spec, TopicChangedByMember

-----------------------------------------------------------------------------
(* Refinement of the membership specification.                             *)

\* Every step of the server is a step of ChannelMembership or leaves its state.
LEMMA MembershipRefinementStep ==
  ASSUME ConnectionInv, [Next]_vars
  PROVE  [Membership!Next]_(Membership!vars)
<1> DEFINE on == {p \in Fds \X ChanIds : p[1] \in members[p[2]]}
<1> USE DEF ConnectionInv, Membership!vars, Membership!Next
<1>0. Channels \subseteq ChanIds
  BY MaxChannelsAssumption DEF Channels, ChanIds, TypeOK
<1>1. CASE MembershipUnchanged
  BY <1>1 DEF MembershipUnchanged
<1>2. ASSUME NEW c \in Fds, Accept(c)
      PROVE  Membership!Connect(c)
  BY <1>2 DEF Accept, AddUser, SlotsMatchUsers, chanVars, Membership!Connect
<1>3. ASSUME NEW c \in Fds, Gone(c)
      PROVE  Membership!Leave(c)
  <2>1. c \in users /\ users' = users \ {c}
    BY <1>3 DEF Gone, EraseUser, SlotsMatchUsers
  <2>2. \A ch \in ChanIds : members'[ch] = members[ch] \ {c}
    BY <1>3 DEF Gone, WithoutMember, MembershipSymmetric
  <2>3. on' = {p \in on : p[1] # c}
    BY <2>2
  <2> QED BY <2>1, <2>3 DEF Membership!Leave
<1>4. ASSUME NEW c \in Fds, NEW ch \in ChanIds, c \in users, Enter(c, ch)
      PROVE  Membership!Join(c, ch)
  <2>1. on' = on \cup {<<c, ch>>}
    BY <1>4 DEF Enter, TypeOK
  <2> QED BY <1>4, <2>1 DEF Enter, Membership!Join
<1>5. ASSUME NEW c \in Fds, NEW n \in ChanArgs, JoinNew(c, n)
      PROVE  \E ch \in ChanIds : Membership!Join(c, ch)
  <2>1. NextChannelId \in ChanIds
    BY <1>5, MaxChannelsAssumption DEF JoinNew, NextChannelId, ChanIds, TypeOK
  <2> QED BY <1>4, <1>5, <2>1 DEF JoinNew, Serving
<1>6. ASSUME NEW c \in Fds, NEW ch \in ChanIds, c \in members[ch], Leave(c, ch)
      PROVE  Membership!Part(c, ch)
  <2>1. on' = on \ {<<c, ch>>}
    BY <1>6 DEF Leave, TypeOK
  <2> QED BY <1>6, <2>1 DEF Leave, Membership!Part
<1> QED BY <1>0, <1>1, <1>2, <1>3, <1>4, <1>5, <1>6, StepKinds DEF StepKind, Serving

\* The server keeps the promise of ChannelMembership: clients join and leave
\* channels by their own commands, and one that goes away leaves all at once.
THEOREM MembershipRefined == Spec => ImplementsMembership
<1>1. Init => Membership!Init
  BY DEF Init, Membership!Init
<1>2. ConnectionInv /\ [Next]_vars => [Membership!Next]_(Membership!vars)
  BY MembershipRefinementStep
<1>3. ConnectionInv /\ [Next]_vars => ConnectionInv'
  BY TypeStep, SlotsStep, MembershipStep DEF ConnectionInv
<1> QED BY <1>1, <1>2, <1>3, ConnectionInit, PTL DEF Spec, ImplementsMembership, Membership!Spec

-----------------------------------------------------------------------------
(* The name index.                                                         *)

\* What the index needs to know of its entries to stay sound: an entity it names,
\* by id or as the owner of the key's storage, is a channel or a registered user.
\* The name of a registered user can only change through changeNickName, which
\* takes the old name out of the index first.
NamesInv ==
  \A n \in Names : Known(n) =>
    \A e \in {index[n].id, index[n].key} :
      /\ e \in users \cup Channels /\ name[e] = n
      /\ e \in users => Registered(e)

NamesUnchanged == UNCHANGED <<users, nickInit, infoInit, created, name, index>>

NameKind ==
  \/ NamesUnchanged
  \/ \E c \in Fds :
       \/ Accept(c)
       \/ Gone(c)
       \/ \E n \in NickArgs : ~Known(n) /\ Nick(c, n)
       \/ User(c)
       \/ \E n \in ChanArgs : JoinNew(c, n)

\* Every step is of one of these kinds.
LEMMA NameKinds ==
  ASSUME TypeOK, [Next]_vars
  PROVE  NameKind
<1> USE DEF connVars, userVars, chanVars, nameVars
<1>1. ASSUME \/ \E how : Die(how)
             \/ \E messages : Tell(messages)
             \/ \E c, code : BadCommand(c, code)
             \/ \E c, ch : Enter(c, ch) /\ UNCHANGED <<created, nameVars>>
             \/ \E c, ch : Leave(c, ch)
             \/ \E c, ch, text : SetTopic(c, ch, text)
             \/ EndOfRead \/ UNCHANGED vars
      PROVE  NamesUnchanged
  BY <1>1 DEF Die, Tell, BadCommand, Enter, Leave, SetTopic, EndOfRead, vars, stateVars,
              NamesUnchanged
<1>2. ASSUME NEW c \in Fds, NEW codes, NEW stays, c \in slots \cup users,
             RemoveUser(c, codes, stays)
      PROVE  NameKind
  BY <1>1, <1>2 DEF RemoveUser, Gone, NameKind
<1>3. ASSUME NEW c \in Fds, Event(c)
      PROVE  NameKind
  <2>1. CASE Receive(c)
    BY <2>1 DEF Receive, stateVars, NamesUnchanged, NameKind
  <2>2. CASE ReceiveEof(c)
    BY <1>2, <2>2 DEF ReceiveEof, Disconnect
  <2> QED BY <1>1, <1>3, <2>1, <2>2 DEF Event, LeftoverLine, NameKind
<1>4. ASSUME NEW c \in Fds, Command(c)
      PROVE  NameKind
  <2>1. ASSUME NEW n \in NickArgs, Nick(c, n)
        PROVE  NameKind
    BY <1>2, <2>1 DEF Nick, Serving, Kill, NameKind
  <2>2. CASE Quit(c)
    BY <1>2, <2>2 DEF Quit, Serving, Disconnect
  <2>3. ASSUME NEW n \in ChanArgs, JoinExisting(c, n)
        PROVE  NameKind
    BY <1>1, <2>3 DEF JoinExisting, NameKind
  <2>4. ASSUME NEW n \in ChanArgs, Part(c, n)
        PROVE  NameKind
    BY <1>1, <2>4 DEF Part, NameKind
  <2>5. ASSUME NEW n \in ChanArgs, NEW text \in TopicArgs, Topic(c, n, text)
        PROVE  NameKind
    BY <1>1, <2>5 DEF Topic, NameKind
  <2>6. ASSUME \/ \E n \in ChanArgs : ListUsersOf(c, n) \/ ListChannel(c, n)
               \/ ListChannels(c) \/ ListAllUsers(c) \/ Ping(c)
               \/ \E n \in Names : PrivMsg(c, n)
               \/ \E code \in {"411", "412", "421", "431", "461"} : BadCommand(c, code)
        PROVE  NameKind
    BY <1>1, <2>6 DEF ListUsersOf, ListChannel, ListChannels, ListAllUsers, Ping, PrivMsg, NameKind
  <2>7. ASSUME User(c) \/ \E n \in ChanArgs : JoinNew(c, n)
        PROVE  NameKind
    BY <2>7 DEF NameKind
  <2> QED BY <1>4, <2>1, <2>2, <2>3, <2>4, <2>5, <2>6, <2>7 DEF Command
<1> QED BY <1>1, <1>3, <1>4 DEF Next, NameKind

\* The index stays sound.
LEMMA NamesStep ==
  ASSUME ConnectionInv, NamesInv, [Next]_vars
  PROVE  NamesInv'
<1> USE DEF ConnectionInv
<1>0. /\ Channels \subseteq ChanIds
      /\ \A n \in Names : Known(n) <=> index[n].id # None
      /\ None \notin Ids /\ Fds \cap ChanIds = {} /\ Ids = Fds \cup ChanIds
  BY MaxChannelsAssumption, IdsAssumption DEF Channels, ChanIds, TypeOK, Known, Ids
<1>1. CASE NamesUnchanged
  BY <1>1 DEF NamesUnchanged, NamesInv, Known, Registered, Channels
<1>2. ASSUME NEW c \in Fds, Accept(c)
      PROVE  NamesInv'
  <2>1. c \notin users /\ c \notin Channels /\ c \notin slots
    BY <1>0, <1>2 DEF Accept, SlotsMatchUsers
  <2>2. /\ users' = users \cup {c}
        /\ name' = [name EXCEPT ![c] = NoName]
        /\ nickInit' = nickInit \ {c} /\ infoInit' = infoInit \ {c}
        /\ UNCHANGED <<index, created>>
    BY <1>2, <2>1 DEF Accept, AddUser, chanVars
  <2> QED BY <1>0, <2>1, <2>2 DEF NamesInv, Known, Registered, Channels, TypeOK
<1>3. ASSUME NEW c \in Fds, Gone(c)
      PROVE  NamesInv'
  <2>1. /\ c \in users /\ c \notin Channels
        /\ index' = IF Registered(c) THEN Erase(index, name[c]) ELSE index
        /\ users' = users \ {c}
        /\ name' = [name EXCEPT ![c] = NoName]
        /\ nickInit' = nickInit \ {c} /\ infoInit' = infoInit \ {c}
        /\ UNCHANGED created
    BY <1>0, <1>3 DEF Gone, EraseUser, SlotsMatchUsers
  <2>2. ASSUME NEW n \in Names, Known(n)'
        PROVE  Known(n) /\ index'[n] = index[n] /\ index[n].id # c /\ index[n].key # c
    BY <1>0, <2>1, <2>2 DEF Erase, Absent, Known, NamesInv, TypeOK, Registered
  <2> QED BY <1>0, <2>1, <2>2 DEF NamesInv, Registered, Channels, TypeOK
<1>4. ASSUME NEW c \in Fds, NEW n \in NickArgs, ~Known(n), Nick(c, n)
      PROVE  NamesInv'
  <2>0. n \in Names /\ c \in users /\ c \notin Channels /\ c \in Ids
    BY <1>0, <1>4 DEF Names, Nick, Serving
  <2>1. CASE Registered(c)
    <3>1. /\ index' = Bind(Erase(index, name[c]), n, c)
          /\ name' = [name EXCEPT ![c] = n]
          /\ UNCHANGED <<users, nickInit, infoInit, created>>
      BY <1>4, <2>1 DEF Nick, ChangeNick, chanVars
    <3>2. index'[n] = [id |-> c, key |-> c]
      BY <1>0, <1>4, <2>0, <3>1 DEF Bind, Erase, Absent, TypeOK
    <3>3. ASSUME NEW m \in Names, m # n, Known(m)'
          PROVE  Known(m) /\ index'[m] = index[m] /\ index[m].id # c /\ index[m].key # c
      BY <1>0, <3>1, <3>3 DEF Bind, Erase, Absent, Known, NamesInv, TypeOK
    <3>4. Registered(c)' /\ Channels' = Channels
      BY <2>1, <3>1 DEF Registered, Channels
    <3>5. ASSUME NEW e \in users \cup Channels, e # c
          PROVE  name'[e] = name[e] /\ (e \in users => (Registered(e) <=> Registered(e)'))
      <4>1. e \in Ids
        BY <1>0 DEF TypeOK
      <4>2. name'[e] = name[e]
        BY <3>1, <3>5, <4>1 DEF TypeOK
      <4> QED BY <3>1, <4>2 DEF Registered
    <3>6. ASSUME NEW m \in Names, m # n, Known(m)', NEW e \in {index'[m].id, index'[m].key}
          PROVE  /\ e \in users' \cup Channels' /\ name'[e] = m
                 /\ e \in users' => Registered(e)'
      BY <3>1, <3>3, <3>4, <3>5, <3>6 DEF NamesInv
    <3>7. name'[c] = n
      BY <2>0, <3>1 DEF TypeOK
    <3> QED BY <2>0, <3>1, <3>2, <3>4, <3>6, <3>7 DEF NamesInv
  <2>2. CASE ~Registered(c)
    <3>1. /\ name' = [name EXCEPT ![c] = n]
          /\ nickInit' = nickInit \cup {c}
          /\ index' = IF c \in infoInit THEN Bind(index, n, c) ELSE index
          /\ UNCHANGED <<users, infoInit, created>>
      BY <1>4, <2>2 DEF Nick, InitNick, chanVars
    <3>2. \A m \in Names : Known(m) => index[m].id # c /\ index[m].key # c
      BY <2>0, <2>2 DEF NamesInv
    <3>3. c \in infoInit => index'[n] = [id |-> c, key |-> c]
      BY <1>0, <1>4, <2>0, <3>1 DEF Bind, TypeOK
    <3>4. \A m \in Names : m # n \/ c \notin infoInit => index'[m] = index[m]
      BY <3>1 DEF Bind, TypeOK
    <3>5. Channels' = Channels /\ name'[c] = n /\ (c \in infoInit => Registered(c)')
      BY <2>0, <3>1 DEF Registered, Channels, TypeOK
    <3>6. ASSUME NEW e \in users \cup Channels, e # c
          PROVE  name'[e] = name[e] /\ (e \in users => (Registered(e) <=> Registered(e)'))
      <4>1. e \in Ids
        BY <1>0 DEF TypeOK
      <4>2. name'[e] = name[e]
        BY <3>1, <3>6, <4>1 DEF TypeOK
      <4> QED BY <3>1, <3>6, <4>2 DEF Registered
    <3>7. ASSUME NEW m \in Names, m # n \/ c \notin infoInit, Known(m)',
                 NEW e \in {index'[m].id, index'[m].key}
          PROVE  /\ e \in users' \cup Channels' /\ name'[e] = m
                 /\ e \in users' => Registered(e)'
      <4>1. Known(m) /\ e \in {index[m].id, index[m].key}
        BY <3>4, <3>7 DEF Known
      <4> QED BY <3>1, <3>2, <3>5, <3>6, <4>1 DEF NamesInv
    <3> QED BY <2>0, <3>1, <3>3, <3>5, <3>7 DEF NamesInv
  <2> QED BY <2>1, <2>2
<1>5. ASSUME NEW c \in Fds, User(c)
      PROVE  NamesInv'
  <2>1. /\ c \in users /\ c \in Ids
        /\ infoInit' = infoInit \cup {c}
        /\ index' = IF c \in nickInit THEN Bind(index, name[c], c) ELSE index
        /\ UNCHANGED <<users, nickInit, created, name>>
    BY <1>0, <1>5 DEF User, Serving, chanVars
  <2>2. ASSUME NEW n \in Names, Known(n)'
        PROVE  \A e \in {index'[n].id, index'[n].key} :
                 \/ e = c /\ c \in nickInit /\ name[c] = n
                 \/ Known(n) /\ e \in {index[n].id, index[n].key}
    BY <1>0, <2>1, <2>2 DEF Bind, Known, TypeOK
  <2> QED BY <2>1, <2>2 DEF NamesInv, Registered, Channels
<1>6. ASSUME NEW c \in Fds, NEW n \in ChanArgs, JoinNew(c, n)
      PROVE  NamesInv'
  <2>0. n \in Names
    BY DEF Names
  <2>1. /\ NextChannelId \in ChanIds
        /\ NextChannelId \notin Channels
        /\ NextChannelId \in Channels'
        /\ Channels \subseteq Channels'
    BY <1>6, MaxChannelsAssumption DEF JoinNew, NextChannelId, ChanIds, Channels, TypeOK
  <2>2. /\ name' = [name EXCEPT ![NextChannelId] = n]
        /\ index' = Bind(index, n, NextChannelId)
        /\ ~Known(n)
        /\ UNCHANGED <<users, nickInit, infoInit>>
    BY <1>6 DEF JoinNew, Enter
  <2>3. index'[n] = [id |-> NextChannelId, key |-> NextChannelId]
    BY <1>0, <2>0, <2>2 DEF Bind, TypeOK
  <2>4. \A m \in Names : m # n => index'[m] = index[m]
    BY <2>2 DEF Bind, TypeOK
  <2>5. NextChannelId \in Ids /\ NextChannelId \notin users
    BY <1>0, <2>1 DEF TypeOK
  <2>6. name'[NextChannelId] = n
    BY <2>2, <2>5 DEF TypeOK
  <2>7. ASSUME NEW m \in Names, m # n, Known(m)', NEW e \in {index'[m].id, index'[m].key}
        PROVE  /\ e \in users' \cup Channels' /\ name'[e] = m
               /\ e \in users' => Registered(e)'
    <3>1. Known(m) /\ e \in {index[m].id, index[m].key}
      BY <2>4, <2>7 DEF Known
    <3>2. e \in users \cup Channels /\ name[e] = m /\ (e \in users => Registered(e))
      BY <3>1 DEF NamesInv
    <3>3. name'[e] = name[e]
      BY <2>1, <2>2, <2>5, <3>2 DEF TypeOK
    <3> QED BY <2>1, <2>2, <3>2, <3>3 DEF Registered
  <2> QED BY <2>0, <2>1, <2>2, <2>3, <2>5, <2>6, <2>7 DEF NamesInv
<1> QED BY <1>1, <1>2, <1>3, <1>4, <1>5, <1>6, NameKinds DEF NameKind

ServerInv == ConnectionInv /\ NamesInv

LEMMA ServerInvariant == Spec => []ServerInv
<1>1. Init => ServerInv
  BY ConnectionInit DEF ServerInv, NamesInv, Init, Known, Absent
<1>2. ServerInv /\ [Next]_vars => ServerInv'
  BY TypeStep, SlotsStep, MembershipStep, NamesStep DEF ServerInv, ConnectionInv
<1> QED BY <1>1, <1>2, PTL DEF Spec

\* The name index never holds a key that views the name of a deleted or renamed
\* entity, and never leads to an entity of another name, even when several
\* clients choose one nickname or a nickname is the name of a channel.
THEOREM IndexSound == Spec => []NamesSound
<1>1. ServerInv => NamesSound
  BY DEF ServerInv, NamesInv, NamesSound
<1> QED BY <1>1, ServerInvariant, PTL

-----------------------------------------------------------------------------
(* The life of the process, when nicknames and channel names are disjoint.  *)

\* Users have nicknames, channels have channel names, and the index leads from
\* the name of a channel to that channel.
SortedNames ==
  /\ \A u \in Fds : name[u] \in NickArgs \cup {NoName}
  /\ \A ch \in Channels : name[ch] \in ChanArgs
  /\ ChannelsStayNamed

\* No command mixes the two sorts of names.
LEMMA SortedNamesStep ==
  ASSUME NamesDisjoint, ServerInv, SortedNames, [Next]_vars
  PROVE  SortedNames'
<1> USE DEF ServerInv, ConnectionInv
<1>0. /\ Channels \subseteq ChanIds /\ Channels \subseteq Ids /\ Fds \subseteq Ids
      /\ Fds \cap ChanIds = {} /\ NoName \notin Names
      /\ NickArgs \subseteq Names /\ ChanArgs \subseteq Names
      /\ NickArgs \cap ChanArgs = {}
  BY MaxChannelsAssumption, IdsAssumption, NoNameAssumption
     DEF Channels, ChanIds, TypeOK, Ids, Names, NamesDisjoint
<1>1. CASE NamesUnchanged
  BY <1>1 DEF NamesUnchanged, SortedNames, ChannelsStayNamed, Channels
<1>2. ASSUME NEW c \in Fds, NEW n \in NickArgs \cup {NoName}, UNCHANGED created,
             name' = [name EXCEPT ![c] = n] \/ UNCHANGED name,
             \A m \in ChanArgs : index'[m] = index[m]
      PROVE  SortedNames'
  <2>1. Channels' = Channels /\ \A ch \in Channels : name'[ch] = name[ch]
    BY <1>0, <1>2 DEF Channels, TypeOK
  <2>2. \A u \in Fds : name'[u] \in NickArgs \cup {NoName}
    BY <1>0, <1>2 DEF SortedNames, TypeOK
  <2>3. ASSUME NEW ch \in Channels
        PROVE  name'[ch] \in ChanArgs /\ index'[name'[ch]] = [id |-> ch, key |-> ch]
    BY <1>2, <2>1 DEF SortedNames, ChannelsStayNamed
  <2> QED BY <2>1, <2>2, <2>3 DEF SortedNames, ChannelsStayNamed
<1>3. ASSUME NEW c \in Fds, Accept(c)
      PROVE  SortedNames'
  BY <1>2, <1>3 DEF Accept, AddUser, chanVars
<1>4. ASSUME NEW c \in Fds, Gone(c)
      PROVE  SortedNames'
  <2>1. \A m \in ChanArgs : index'[m] = index[m]
    BY <1>0, <1>4 DEF Gone, EraseUser, Erase, SortedNames, TypeOK
  <2> QED BY <1>2, <1>4, <2>1 DEF Gone, EraseUser
<1>5. ASSUME NEW c \in Fds, NEW n \in NickArgs, ~Known(n), Nick(c, n)
      PROVE  SortedNames'
  <2>1. \A m \in ChanArgs : index'[m] = index[m]
    <3>1. index' \in {index, Bind(index, n, c), Bind(Erase(index, name[c]), n, c)}
      BY <1>5 DEF Nick, InitNick, ChangeNick
    <3>2. name[c] \in NickArgs \cup {NoName}
      BY DEF SortedNames
    <3>3. ASSUME NEW m \in ChanArgs, NEW ix \in [Names -> IndexEntry], NEW k, m # k
          PROVE  Bind(ix, k, c)[m] = ix[m] /\ Erase(ix, k)[m] = ix[m]
      BY <1>0, <3>3 DEF Bind, Erase
    <3>4. index \in [Names -> IndexEntry] /\ Erase(index, name[c]) \in [Names -> IndexEntry]
      BY <1>0, IndexTypes DEF TypeOK
    <3>5. \A m \in ChanArgs : m # n /\ m # name[c]
      BY <1>0, <3>2
    <3> QED BY <3>1, <3>3, <3>4, <3>5
  <2>2. name' = [name EXCEPT ![c] = n] /\ UNCHANGED created
    BY <1>5 DEF Nick, InitNick, ChangeNick, chanVars
  <2> QED BY <1>2, <2>1, <2>2
<1>6. ASSUME NEW c \in Fds, User(c)
      PROVE  SortedNames'
  <2>1. \A m \in ChanArgs : index'[m] = index[m]
    BY <1>0, <1>6 DEF User, Bind, SortedNames, TypeOK
  <2> QED BY <1>2, <1>6, <2>1 DEF User, chanVars
<1>7. ASSUME NEW c \in Fds, NEW n \in ChanArgs, JoinNew(c, n)
      PROVE  SortedNames'
  <2>1. /\ NextChannelId \in ChanIds /\ NextChannelId \in Ids /\ NextChannelId \notin Fds
        /\ NextChannelId \notin Channels
        /\ Channels' = Channels \cup {NextChannelId}
    <3>1. created \in Nat /\ created < MaxChannels /\ created' = created + 1
      BY <1>7, MaxChannelsAssumption DEF JoinNew, TypeOK
    <3>2. NextChannelId \in ChanIds
      BY <3>1, MaxChannelsAssumption DEF NextChannelId, ChanIds
    <3>3. NextChannelId \notin Channels /\ Channels' = Channels \cup {NextChannelId}
      BY <3>1 DEF NextChannelId, Channels
    <3> QED BY <1>0, <3>2, <3>3 DEF Ids
  <2>2. /\ name' = [name EXCEPT ![NextChannelId] = n]
        /\ index' = Bind(index, n, NextChannelId)
        /\ index[n].id = None
    BY <1>7 DEF JoinNew, Known
  <2>3. index'[n] = [id |-> NextChannelId, key |-> NextChannelId]
    BY <1>0, <2>2 DEF Bind, TypeOK
  <2>4. ASSUME NEW ch \in Channels
        PROVE  name'[ch] = name[ch] /\ name[ch] # n /\ index'[name[ch]] = index[name[ch]]
    <3>1. name'[ch] = name[ch]
      BY <1>0, <2>1, <2>2 DEF TypeOK
    <3>2. ch # None
      BY <1>0, IdsAssumption
    <3>3. name[ch] # n
      <4>1. index[name[ch]].id = ch
        <5>1. index[name[ch]] = [id |-> ch, key |-> ch]
          BY DEF SortedNames, ChannelsStayNamed
        <5> QED BY <5>1
      <4> QED BY <2>2, <3>2, <4>1
    <3> QED BY <1>0, <2>2, <3>1, <3>3 DEF Bind, SortedNames, TypeOK
  <2>5. name'[NextChannelId] = n /\ \A u \in Fds : name'[u] = name[u]
    BY <1>0, <2>1, <2>2 DEF TypeOK
  <2> QED BY <2>1, <2>3, <2>4, <2>5 DEF SortedNames, ChannelsStayNamed
<1> QED BY <1>1, <1>3, <1>4, <1>5, <1>6, <1>7, NameKinds DEF NameKind

\* removeUser finds every channel it goes through to have the user as member.
LEMMA RemoveUserSafe ==
  ASSUME MembershipSymmetric, NEW u \in Fds, NEW codes, NEW stays, TypeOK,
         RemoveUser(u, codes, stays)
  PROVE  UNCHANGED crash
<1>1. ~ \E ch \in joined[u] : u \notin members[ch]
  BY DEF MembershipSymmetric, TypeOK
<1> QED BY <1>1 DEF RemoveUser

\* With sorted names a name of a channel, once known, leads to a channel.
LEMMA ChannelNameIsChannel ==
  ASSUME NamesDisjoint, ServerInv, SortedNames, NEW n \in ChanArgs, Known(n)
  PROVE  IsChannel(index[n].id)
<1>1. n \in Names /\ n \notin NickArgs /\ n # NoName
  BY NoNameAssumption DEF Names, NamesDisjoint
<1>2. index[n].id \in users \cup Channels /\ name[index[n].id] = n
  BY <1>1 DEF ServerInv, NamesInv
<1> QED BY <1>1, <1>2 DEF SortedNames, IsChannel, ServerInv, ConnectionInv, TypeOK

\* A step kills the process only on a leftover line, and nothing moves afterwards.
LEMMA LifeStep ==
  ASSUME NamesDisjoint, ServerInv, SortedNames, DiesOfLeftoverLineOnly, [Next]_vars
  PROVE  DiesOfLeftoverLineOnly'
<1> USE DEF ServerInv, ConnectionInv, connVars, userVars, chanVars, nameVars, stateVars
<1>1. CASE UNCHANGED vars
  BY <1>1 DEF vars, DiesOfLeftoverLineOnly
<1>2. ASSUME crash = "no", UNCHANGED crash
      PROVE  DiesOfLeftoverLineOnly'
  BY <1>2 DEF DiesOfLeftoverLineOnly
<1>3. CASE EndOfRead
  BY <1>2, <1>3 DEF EndOfRead
<1>4. ASSUME NEW c \in Fds, Event(c)
      PROVE  DiesOfLeftoverLineOnly'
  <2>1. CASE Accept(c) \/ Receive(c)
    BY <1>2, <2>1 DEF Accept, Receive, Idle
  <2>2. CASE ReceiveEof(c)
    BY <1>2, <2>2, RemoveUserSafe DEF ReceiveEof, Disconnect, Idle
  <2>3. CASE LeftoverLine(c)
    BY <2>3 DEF LeftoverLine, Die, DiesOfLeftoverLineOnly
  <2> QED BY <1>4, <2>1, <2>2, <2>3 DEF Event
<1>5. ASSUME NEW c \in Fds, Command(c)
      PROVE  DiesOfLeftoverLineOnly'
  <2>1. crash = "no"
    BY <1>5 DEF Command, BadCommand, Nick, User, JoinNew, JoinExisting, Part, Topic,
                ListUsersOf, ListChannel, ListChannels, ListAllUsers, PrivMsg, Ping, Quit,
                Serving
  <2>2. ASSUME \/ \E messages : Tell(messages)
               \/ \E code : BadCommand(c, code)
        PROVE  UNCHANGED crash
    BY <2>2 DEF Tell, BadCommand
  <2>3. ASSUME NEW n \in NickArgs, Nick(c, n)
        PROVE  UNCHANGED crash
    BY <2>3, RemoveUserSafe DEF Nick, Kill
  <2>4. CASE User(c) \/ Quit(c)
    BY <1>2, <2>1, <2>4, RemoveUserSafe DEF User, Quit, Disconnect
  <2>5. ASSUME NEW n \in ChanArgs, JoinNew(c, n) \/ JoinExisting(c, n) \/ Part(c, n)
        PROVE  UNCHANGED crash
    BY <2>2, <2>5, ChannelNameIsChannel DEF JoinNew, JoinExisting, Part, Enter, Leave
  <2>6. ASSUME NEW n \in ChanArgs, NEW text \in TopicArgs, Topic(c, n, text)
        PROVE  UNCHANGED crash
    BY <2>2, <2>6, ChannelNameIsChannel DEF Topic, SetTopic
  <2>7. ASSUME NEW n \in ChanArgs, ListUsersOf(c, n) \/ ListChannel(c, n)
        PROVE  UNCHANGED crash
    BY <2>2, <2>7, ChannelNameIsChannel DEF ListUsersOf, ListChannel
  <2>8. ASSUME \/ ListChannels(c) \/ ListAllUsers(c) \/ Ping(c)
               \/ \E n \in Names : PrivMsg(c, n)
        PROVE  UNCHANGED crash
    BY <2>2, <2>8 DEF ListChannels, ListAllUsers, Ping, PrivMsg
  <2> QED BY <1>2, <1>5, <2>1, <2>2, <2>3, <2>4, <2>5, <2>6, <2>7, <2>8 DEF Command
<1> QED BY <1>1, <1>3, <1>4, <1>5 DEF Next

\* The two sorts of names never mix.
LEMMA SortedNamesHold ==
  ASSUME NamesDisjoint
  PROVE  Spec => []SortedNames
<1>1. Init => SortedNames
  <2> SUFFICES ASSUME Init PROVE SortedNames
    OBVIOUS
  <2>1. Channels = {} /\ Fds \subseteq Ids
    BY DEF Init, Channels, Ids
  <2> QED BY <2>1 DEF Init, SortedNames, ChannelsStayNamed
<1>2. ServerInv /\ SortedNames /\ [Next]_vars => SortedNames'
  BY SortedNamesStep
<1> QED BY <1>1, <1>2, ServerInvariant, PTL DEF Spec

\* If no nickname is a channel name, the server survives every sequence of
\* connections, disconnections and commands except a line that shares a read
\* with the one that removed its client; and channels keep their names.
THEOREM ProcessLives ==
  ASSUME NamesDisjoint
  PROVE  Spec => [](DiesOfLeftoverLineOnly /\ ChannelsStayNamed)
<1>1. Init => DiesOfLeftoverLineOnly
  BY DEF Init, DiesOfLeftoverLineOnly
<1>2. ServerInv /\ SortedNames /\ DiesOfLeftoverLineOnly /\ [Next]_vars => DiesOfLeftoverLineOnly'
  BY LifeStep
<1>3. SortedNames => ChannelsStayNamed
  BY DEF SortedNames
<1> QED BY <1>1, <1>2, <1>3, ServerInvariant, SortedNamesHold, PTL DEF Spec

\* If no nickname is a channel name, a channel is found under its name for ever, and no
\* two channels have one name.
THEOREM ChannelsKeepNames ==
  ASSUME NamesDisjoint
  PROVE  Spec => []ChannelsStayNamed
BY ProcessLives, PTL

\* "JOIN a channel is always a success" (hw1/README.md:57): it never takes the server
\* down, as long as no nickname is a channel name.
THEOREM JoinIsSuccess ==
  ASSUME NamesDisjoint
  PROVE  Spec => JoinSucceeds
<1>1. ASSUME ServerInv, SortedNames, [Next]_vars, NEW c \in Fds, NEW n \in ChanArgs,
             JoinExisting(c, n)
      PROVE  crash' = "no"
  <2>1. Enter(c, index[n].id) /\ crash = "no"
    BY <1>1, ChannelNameIsChannel DEF JoinExisting, Serving
  <2> QED BY <2>1 DEF Enter
<1>2. ServerInv /\ SortedNames /\ [Next]_vars
        => \A c \in Fds, n \in ChanArgs : JoinExisting(c, n) => crash' = "no"
  BY <1>1
<1> QED BY <1>2, ServerInvariant, SortedNamesHold, PTL DEF Spec, JoinSucceeds

-----------------------------------------------------------------------------
(* Who has a nickname.  NicksDiffer does not hold of the code; this says how *)
(* far it does, and by which command alone it is lost.                       *)

\* A user that sent NICK has the name it gave.
Named == \A u \in nickInit : name[u] \in NickArgs

\* m_entityName leads from the nickname of every registered user to that user, so what is
\* sent to the nickname reaches it.
FoundByNick == \A u \in users : Registered(u) => index[name[u]].id = u

\* USER of a client whose NICK gave a name that somebody else has registered meanwhile.
TakesHeldNick(c) ==
  /\ User(c)
  /\ c \in nickInit
  /\ \E v \in users \ {c} : Registered(v) /\ name[v] = name[c]

\* Two users cannot both be found by one nickname.
LEMMA FoundAreDifferent == FoundByNick => NicksDiffer
BY DEF FoundByNick, NicksDiffer

\* A nickname is given by NICK and lost with its user.
LEMMA NamedStep ==
  ASSUME TypeOK, Named, [Next]_vars
  PROVE  Named'
<1>0. Fds \subseteq Ids /\ ChanIds \cap Fds = {} /\ name \in [Ids -> Names \cup {NoName}]
  BY IdsAssumption DEF Ids, TypeOK
<1>1. CASE NamesUnchanged
  BY <1>1 DEF NamesUnchanged, Named
<1>2. ASSUME NEW c \in Fds, nickInit' = nickInit \ {c}, name' = [name EXCEPT ![c] = NoName]
      PROVE  Named'
  BY <1>0, <1>2 DEF Named, TypeOK
<1>3. ASSUME NEW c \in Fds, Accept(c)
      PROVE  Named'
  BY <1>2, <1>3 DEF Accept, AddUser, Named
<1>4. ASSUME NEW c \in Fds, Gone(c)
      PROVE  Named'
  BY <1>2, <1>4 DEF Gone, EraseUser
<1>5. ASSUME NEW c \in Fds, NEW n \in NickArgs, ~Known(n), Nick(c, n)
      PROVE  Named'
  <2>1. name' = [name EXCEPT ![c] = n] /\ nickInit' \subseteq nickInit \cup {c}
    BY <1>5 DEF Nick, ChangeNick, InitNick
  <2> QED BY <1>0, <2>1 DEF Named, TypeOK
<1>6. ASSUME NEW c \in Fds, User(c)
      PROVE  Named'
  BY <1>6 DEF User, Named
<1>7. ASSUME NEW c \in Fds, NEW n \in ChanArgs, JoinNew(c, n)
      PROVE  Named'
  <2>1. NextChannelId \in ChanIds
    BY <1>7, MaxChannelsAssumption DEF JoinNew, NextChannelId, ChanIds, TypeOK
  <2>2. name' = [name EXCEPT ![NextChannelId] = n] /\ UNCHANGED nickInit
    BY <1>7 DEF JoinNew, Enter
  <2> QED BY <1>0, <2>1, <2>2 DEF Named, TypeOK
<1> QED BY <1>1, <1>3, <1>4, <1>5, <1>6, <1>7, NameKinds DEF NameKind

\* Who is found by its nickname stays so, whatever else happens: a collision with NICK
\* removes the newcomer, a channel is made only of a free name, and a user that leaves or
\* renames takes only its own name out of the index.
LEMMA FoundStep ==
  ASSUME ConnectionInv, Named, FoundByNick, [Next]_vars
  PROVE  FoundByNick' \/ \E c \in Fds : TakesHeldNick(c)
<1> USE DEF ConnectionInv
<1>0. /\ name \in [Ids -> Names \cup {NoName}] /\ index \in [Names -> IndexEntry]
      /\ users \subseteq Fds /\ Fds \subseteq Ids /\ None \notin Fds
      /\ Fds \cap ChanIds = {} /\ NickArgs \subseteq Names
  BY IdsAssumption DEF TypeOK, Ids, Names
<1>1. ASSUME NEW u \in users, Registered(u)
      PROVE  /\ name[u] \in Names /\ index[name[u]].id = u /\ Known(name[u])
             /\ \A v \in users \ {u} : Registered(v) => name[v] # name[u]
  BY <1>0, <1>1 DEF FoundByNick, Named, Registered, Known
<1>2. CASE NamesUnchanged
  BY <1>2 DEF NamesUnchanged, FoundByNick, Registered
<1>3. ASSUME NEW c \in Fds, Accept(c)
      PROVE  FoundByNick'
  BY <1>0, <1>3 DEF Accept, AddUser, FoundByNick, Registered
<1>4. ASSUME NEW c \in Fds, Gone(c)
      PROVE  FoundByNick'
  <2>1. /\ users' = users \ {c} /\ name' = [name EXCEPT ![c] = NoName]
        /\ nickInit' = nickInit \ {c} /\ infoInit' = infoInit \ {c}
        /\ index' = IF Registered(c) THEN Erase(index, name[c]) ELSE index
        /\ c \in users
    BY <1>4 DEF Gone, EraseUser, SlotsMatchUsers
  <2>2. ASSUME NEW u \in users', Registered(u)'
        PROVE  index'[name'[u]].id = u
    <3>1. u \in users /\ u # c /\ Registered(u) /\ name'[u] = name[u]
      BY <1>0, <2>1, <2>2 DEF Registered
    <3>2. Registered(c) => index'[name[u]] = index[name[u]]
      BY <1>0, <1>1, <2>1, <3>1 DEF Erase
    <3> QED BY <1>1, <2>1, <3>1, <3>2
  <2> QED BY <2>2 DEF FoundByNick
<1>5. ASSUME NEW c \in Fds, NEW n \in NickArgs, ~Known(n), Nick(c, n)
      PROVE  FoundByNick'
  <2>1. /\ c \in users /\ n \in Names
        /\ name' = [name EXCEPT ![c] = n]
        /\ UNCHANGED <<users, infoInit>>
    BY <1>0, <1>5 DEF Nick, Serving, ChangeNick, InitNick
  <2>2. ASSUME NEW u \in users, u # c, Registered(u)'
        PROVE  index'[name'[u]].id = u
    <3>1. Registered(u) /\ name'[u] = name[u]
      BY <1>0, <1>5, <2>1, <2>2 DEF Nick, ChangeNick, InitNick, Registered
    <3>2. name[u] # n
      BY <1>1, <1>5, <3>1
    <3>3. CASE Registered(c)
      <4>1. name[u] # name[c]
        BY <1>1, <2>1, <2>2, <3>1, <3>3
      <4>2. index' = Bind(Erase(index, name[c]), n, c)
        BY <1>5, <3>3 DEF Nick, ChangeNick
      <4> QED BY <1>0, <1>1, <3>1, <3>2, <4>1, <4>2 DEF Bind, Erase
    <3>4. CASE ~Registered(c)
      <4>1. index' \in {index, Bind(index, n, c)}
        BY <1>5, <3>4 DEF Nick, InitNick
      <4> QED BY <1>0, <1>1, <3>1, <3>2, <4>1 DEF Bind
    <3> QED BY <3>3, <3>4
  <2>3. Registered(c)' => index'[name'[c]].id = c
    <3>1. name'[c] = n
      BY <1>0, <2>1
    <3>2. ASSUME Registered(c)'
          PROVE  index' = Bind(Erase(index, name[c]), n, c) \/ index' = Bind(index, n, c)
      BY <1>5, <2>1, <3>2 DEF Nick, ChangeNick, InitNick, Registered
    <3>3. Erase(index, name[c]) \in [Names -> IndexEntry]
      BY <1>0, IndexTypes
    <3>4. \A ix \in [Names -> IndexEntry] : Bind(ix, n, c)[n].id = c
      BY <2>1 DEF Bind
    <3> QED BY <1>0, <3>1, <3>2, <3>3, <3>4
  <2> QED BY <2>1, <2>2, <2>3 DEF FoundByNick
<1>6. ASSUME NEW c \in Fds, User(c), ~TakesHeldNick(c)
      PROVE  FoundByNick'
  <2>1. /\ c \in users
        /\ infoInit' = infoInit \cup {c}
        /\ index' = IF c \in nickInit THEN Bind(index, name[c], c) ELSE index
        /\ UNCHANGED <<users, nickInit, name>>
    BY <1>6 DEF User, Serving
  <2>2. ASSUME NEW u \in users, u # c, Registered(u)'
        PROVE  index'[name[u]].id = u
    <3>1. Registered(u)
      BY <2>1, <2>2 DEF Registered
    <3>2. c \in nickInit => name[u] # name[c]
      BY <1>6, <2>2, <3>1 DEF TakesHeldNick
    <3> QED BY <1>0, <1>1, <2>1, <3>1, <3>2 DEF Bind
  <2>3. ASSUME Registered(c)'
        PROVE  index'[name[c]].id = c
    <3>1. c \in nickInit /\ name[c] \in Names
      BY <1>0, <2>1, <2>3 DEF Registered, Named
    <3> QED BY <1>0, <2>1, <3>1 DEF Bind
  <2> QED BY <2>1, <2>2, <2>3 DEF FoundByNick
<1>7. ASSUME NEW c \in Fds, NEW n \in ChanArgs, JoinNew(c, n)
      PROVE  FoundByNick'
  <2>1. NextChannelId \in ChanIds
    BY <1>7, MaxChannelsAssumption DEF JoinNew, NextChannelId, ChanIds, TypeOK
  <2>2. /\ name' = [name EXCEPT ![NextChannelId] = n]
        /\ index' = Bind(index, n, NextChannelId)
        /\ ~Known(n)
        /\ UNCHANGED <<users, nickInit, infoInit>>
    BY <1>7 DEF JoinNew, Enter
  <2>3. ASSUME NEW u \in users, Registered(u)'
        PROVE  index'[name'[u]].id = u
    <3>1. Registered(u) /\ name'[u] = name[u]
      BY <1>0, <2>1, <2>2, <2>3 DEF Registered
    <3>2. name[u] # n
      BY <1>1, <2>2, <3>1
    <3> QED BY <1>0, <1>1, <2>2, <3>1, <3>2 DEF Bind
  <2> QED BY <2>2, <2>3 DEF FoundByNick
<1> QED BY <1>2, <1>3, <1>4, <1>5, <1>6, <1>7, NameKinds DEF NameKind

\* Both parts hold in every state.
LEMMA NamedHolds == Spec => []Named
<1>1. Init => Named
  BY DEF Init, Named
<1>2. TypeOK /\ Named /\ [Next]_vars => Named'
  BY NamedStep
<1> QED BY <1>1, <1>2, TypeCorrect, PTL DEF Spec

LEMMA ConnectionsHold == Spec => []ConnectionInv
<1>1. ServerInv => ConnectionInv
  BY DEF ServerInv
<1> QED BY <1>1, ServerInvariant, PTL

\* setUserInfo is the only way to a shared nickname: while each registered user is found by
\* its nickname, no NICK, JOIN, new connection or end of one changes that, and neither does
\* USER unless its client chose the name before the other registered it.
OnlyUserSharesNick ==
  [][FoundByNick => FoundByNick' \/ \E c \in Fds : TakesHeldNick(c)]_vars

THEOREM NicksSharedByUserOnly == Spec => OnlyUserSharesNick
<1>1. ASSUME ConnectionInv, Named, [Next]_vars
      PROVE  FoundByNick => FoundByNick' \/ \E c \in Fds : TakesHeldNick(c)
  BY <1>1, FoundStep
<1> QED BY <1>1, NamedHolds, ConnectionsHold, PTL DEF Spec, OnlyUserSharesNick

\* So while nobody shares a nickname, what is sent to that of a registered user reaches
\* that user and no other (PRIVMSG goes where m_entityName leads).
THEOREM FoundWhileDifferent == Spec => ([]NicksDiffer => []FoundByNick)
<1>1. Init => FoundByNick
  BY DEF Init, FoundByNick
<1>2. ConnectionInv /\ Named /\ FoundByNick /\ NicksDiffer' /\ [Next]_vars => FoundByNick'
  <2> SUFFICES ASSUME ConnectionInv, Named, FoundByNick, NicksDiffer', [Next]_vars,
                      NEW c \in Fds, TakesHeldNick(c)
               PROVE  FALSE
    BY FoundStep
  <2>1. /\ c \in users /\ c \in nickInit
        /\ infoInit' = infoInit \cup {c}
        /\ UNCHANGED <<users, nickInit, name>>
    BY DEF TakesHeldNick, User, Serving
  <2>2. PICK v \in users \ {c} : Registered(v) /\ name[v] = name[c]
    BY DEF TakesHeldNick
  <2> QED BY <2>1, <2>2 DEF NicksDiffer, Registered
<1> QED BY <1>1, <1>2, NamedHolds, ConnectionsHold, PTL DEF Spec
=============================================================================
