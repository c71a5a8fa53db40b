----------------------- MODULE ChatServerRequestProofs -----------------------
(***************************************************************************)
(* What the request handlers promise, whatever users, groups and processes *)
(* there are and in whatever order requests come: the group file loses     *)
(* nothing and nobody is added to it twice; a port has two ends; a process *)
(* gets no answer it did not ask for; a group message goes to those who    *)
(* have logged in under a name the group lists.                            *)
(***************************************************************************)
EXTENDS ChatServerProofs, FiniteSetTheorems, WellFoundedInduction

-----------------------------------------------------------------------------
(*                             The group file                              *)
-----------------------------------------------------------------------------
(* A set of numbers that is not empty has a least one.                     *)
LEMMA LeastNumber ==
    ASSUME NEW S \in SUBSET Nat, S # {}
    PROVE  \E n \in S : \A k \in S : n <= k
<1>1. PICK n \in S : \A k \in S : <<k, n>> \notin OpToRel(<, Nat)
    BY NatLessThanWellFounded, WFMin
<1>2. \A k \in S : ~(k < n)
    BY <1>1 DEF OpToRel
<1> QED BY <1>2

(* join_group's two early exits: a file it copies to the end lists the     *)
(* joiner in no line of the group.                                         *)
LEMMA CopiedToTheEnd ==
    ASSUME NEW file \in Seq(Lines), NEW g, NEW u,
           ~JoinFaults(file, g, u), ~JoinAlready(file, g, u),
           NEW k \in DOMAIN file
    PROVE  ~Already(file[k], g, u)
<1> SUFFICES ASSUME Already(file[k], g, u) PROVE FALSE
    OBVIOUS
<1> DEFINE Exits == { n \in DOMAIN file : Already(file[n], g, u) \/ file[n] = Blank }
<1>1. DOMAIN file = 1..Len(file) /\ Len(file) \in Nat
    OBVIOUS
<1>2. PICK n \in Exits : \A j \in Exits : n <= j
  <2>1. Exits \in SUBSET Nat /\ Exits # {}
      BY <1>1
  <2> HIDE DEF Exits
  <2> QED BY <2>1, LeastNumber
<1>3. \A j \in 1..(n - 1) : ~Already(file[j], g, u) /\ file[j] # Blank
    BY <1>1, <1>2
<1>4. CASE Already(file[n], g, u)
    BY <1>2, <1>3, <1>4 DEF JoinAlready
<1>5. CASE file[n] = Blank
    BY <1>2, <1>3, <1>5 DEF JoinFaults
<1> QED BY <1>2, <1>4, <1>5

(* What a step may do to the file: nothing, what create_group appends, or  *)
(* what join_group copies when neither of its early exits is taken.        *)
FileStep ==
    \/ groups' = groups
    \/ \E g \in GroupNames, u \in Names, members \in Seq(Names), newline \in BOOLEAN :
            groups' = Created(groups, g, u, members, newline)
    \/ \E g \in GroupNames, u \in Names :
            /\ ~JoinFaults(groups, g, u) /\ ~JoinAlready(groups, g, u)
            /\ groups' = Joined(groups, g, u)

(* Only two handlers write the file, also after a reset.                   *)
LEMMA DispatchWrites ==
    ASSUME TypeOK, NEW i \in Slots, NEW m \in Request, Dispatch(i, m)
    PROVE  FileStep
<1>1. username[i] \in Names
    BY DEF TypeOK
<1>2. m \notin LoginMsg => m \in CommandMsg
    BY DEF Request
<1>3. CASE m.type = "CREATE_GROUP" /\ CreateGroup(i, m)
  <2>1. m.group \in GroupNames /\ m.members \in Seq(Names) /\ m.newline \in BOOLEAN
      BY <1>2, <1>3 DEF CommandMsg, LoginMsg
  <2> QED BY <1>1, <1>3, <2>1 DEF CreateGroup, Stop, FileStep
<1>4. CASE m.type = "JOIN_GROUP" /\ JoinGroup(i, m)
  <2>1. m.group \in GroupNames
      BY <1>2, <1>4 DEF CommandMsg, LoginMsg
  <2> QED BY <1>1, <1>4, <2>1 DEF JoinGroup, CanJoin, Stop, FileStep
<1>5. CASE \/ Login(i, m) \/ SendUserList(i) \/ SendPrivateMessage(i, m)
           \/ SendPublicMessage(i, m) \/ Ignore
    BY <1>5 DEF Login, SendUserList, SendPrivateMessage, SendPublicMessage, Ignore, Stop, FileStep
<1> QED BY <1>3, <1>4, <1>5 DEF Dispatch

(* Every step of the system treats the file so.                            *)
LEMMA StepWrites ==
    ASSUME Inv, [Next]_vars
    PROVE  FileStep
<1>1. ASSUME NEW i \in Slots, HandleRequest(i) PROVE FileStep
  <2>1. i \in Occupied /\ Peer(i) \in Procs
      BY <1>1 DEF HandleRequest, NextDue, IsLowest, Due, Occupied, Inv, SlotTable,
          SlotsHoldConnections
  <2>2. Head(inbox[Peer(i)]) \in Request
      BY <1>1, <2>1, HeadAndTail DEF HandleRequest, Inv, TypeOK
  <2> QED BY <1>1, <2>2, DispatchWrites DEF HandleRequest, Inv
<1>2. ASSUME NEW i \in Slots, HandleReset(i) PROVE FileStep
  <2>1. [type |-> "UNKNOWN"] \in Request
      BY DEF Request, CommandMsg
  <2>2. PICK m \in Request : Dispatch(i, m)
      BY <1>2, <2>1, RequestsAreTyped DEF HandleReset, Request
  <2> QED BY <2>2, DispatchWrites DEF Inv
<1>3. CASE \/ Quit \/ Select \/ Accept \/ AcceptFails \/ EndPass \/ Transmit \/ SendFails
           \/ CloseRefused \/ DropSlot \/ UNCHANGED vars
           \/ \E i \in Slots : HandleDisconnect(i)
    BY <1>3 DEF Quit, Select, Accept, AcceptFails, EndPass, Transmit, SendFails, CloseRefused,
        DropSlot, HandleDisconnect, vars, server, FileStep
<1>4. CASE \E c \in Procs : ClientStep(c)
    BY <1>4 DEF ClientStep, ClientConnect, ClientSend, ClientRecv, ClientEof, ClientExit, server,
        FileStep
<1> QED BY <1>1, <1>2, <1>3, <1>4 DEF Next, ServerStep

(* A line and its place in the file created from another.                  *)
LEMMA CreatedKeeps ==
    ASSUME NEW file \in Seq(Lines), NEW g \in GroupNames, NEW u \in Names,
           NEW members \in Seq(Names), NEW newline \in BOOLEAN
    PROVE  /\ Len(file) <= Len(Created(file, g, u, members, newline))
           /\ \A k \in DOMAIN file : Created(file, g, u, members, newline)[k] = file[k]
<1> DEFINE line == [name |-> g, members |-> <<u>> \o members]
           rest == IF newline THEN <<Blank>> ELSE <<>>
<1>1. line \in Lines /\ Blank \in Lines
    BY DEF Lines, Blank, Names
<1> HIDE DEF line
<1>2. rest \in Seq(Lines) /\ <<line>> \in Seq(Lines)
    BY <1>1
<1> HIDE DEF rest
<1>3. /\ file \o <<line>> \in Seq(Lines) /\ Len(file \o <<line>>) = Len(file) + 1
      /\ \A k \in 1..Len(file) : (file \o <<line>>)[k] = file[k]
    BY <1>2
<1>4. /\ Len((file \o <<line>>) \o rest) = Len(file) + 1 + Len(rest)
      /\ \A k \in 1..Len(file) : ((file \o <<line>>) \o rest)[k] = file[k]
    BY <1>2, <1>3
<1>5. Len(file) \in Nat /\ Len(rest) \in Nat /\ DOMAIN file = 1..Len(file)
    BY <1>2
<1> QED BY <1>4, <1>5 DEF Created, line, rest

(* A line of the copy: the same name, the same members, and the joiner     *)
(* behind them if it is the group's.                                       *)
LEMMA JoinedKeeps ==
    ASSUME NEW file \in Seq(Lines), NEW g \in GroupNames, NEW u \in Names, NEW k \in DOMAIN file
    PROVE  /\ DOMAIN Joined(file, g, u) = DOMAIN file
           /\ Joined(file, g, u)[k].name = file[k].name
           /\ Joined(file, g, u)[k].members =
                IF file[k].name = g THEN Append(file[k].members, u) ELSE file[k].members
BY DEF Joined

(* No line, name or member is ever lost or moved: create_group appends,    *)
(* join_group's copy replaces the file only when it is complete.           *)
THEOREM GroupsOnlyGrowHolds == Spec => GroupsOnlyGrow
<1> DEFINE Kept ==
        /\ Len(groups) <= Len(groups')
        /\ \A k \in DOMAIN groups :
            /\ groups'[k].name = groups[k].name
            /\ \A n \in DOMAIN groups[k].members :
                /\ n \in DOMAIN groups'[k].members
                /\ groups'[k].members[n] = groups[k].members[n]
<1>1. Inv /\ [Next]_vars => Kept
  <2> SUFFICES ASSUME Inv, [Next]_vars PROVE Kept
      OBVIOUS
  <2>1. groups \in Seq(Lines) /\ Len(groups) \in Nat
      BY DEF Inv, TypeOK
  <2>2. CASE groups' = groups
      BY <2>1, <2>2
  <2>3. ASSUME NEW g \in GroupNames, NEW u \in Names, NEW members \in Seq(Names),
               NEW newline \in BOOLEAN, groups' = Created(groups, g, u, members, newline)
        PROVE  Kept
      BY <2>1, <2>3, CreatedKeeps
  <2>4. ASSUME NEW g \in GroupNames, NEW u \in Names, groups' = Joined(groups, g, u)
        PROVE  Kept
    <3>1. Len(groups') = Len(groups)
        BY <2>1, <2>4 DEF Joined
    <3>2. ASSUME NEW k \in DOMAIN groups
          PROVE  /\ groups'[k].name = groups[k].name
                 /\ \A n \in DOMAIN groups[k].members :
                        /\ n \in DOMAIN groups'[k].members
                        /\ groups'[k].members[n] = groups[k].members[n]
      <4>0. groups[k] \in Lines
          BY <2>1
      <4>1. groups[k].members \in Seq(Names)
          BY <4>0 DEF Lines
      <4>2. \A n \in DOMAIN groups[k].members :
                /\ n \in DOMAIN Append(groups[k].members, u)
                /\ Append(groups[k].members, u)[n] = groups[k].members[n]
          BY <4>1, Appended
      <4>3. /\ groups'[k].name = groups[k].name
            /\ groups'[k].members =
                  IF groups[k].name = g THEN Append(groups[k].members, u) ELSE groups[k].members
          BY <2>1, <2>4, JoinedKeeps
      <4> QED BY <4>2, <4>3
    <3> QED BY <2>1, <3>1, <3>2
  <2> QED BY <2>2, <2>3, <2>4, StepWrites DEF FileStep
<1>2. GroupsOnlyGrow <=> [][Kept]_vars
    BY DEF GroupsOnlyGrow
<1> QED BY <1>1, <1>2, InvHolds, PTL DEF Spec

(* Nobody is written a second time into a line that has him: the search of *)
(* join_group for the joiner misses no line of the group.                  *)
THEOREM JoinAddsOnceHolds == Spec => JoinAddsOnce
<1> DEFINE Once == \A k \in DOMAIN groups : ListedTwice(groups'[k]) \subseteq ListedTwice(groups[k])
<1>1. Inv /\ [Next]_vars => Once
  <2> SUFFICES ASSUME Inv, [Next]_vars, NEW k \in DOMAIN groups
               PROVE  ListedTwice(groups'[k]) \subseteq ListedTwice(groups[k])
      OBVIOUS
  <2>1. groups \in Seq(Lines) /\ groups[k] \in Lines /\ groups[k].members \in Seq(Names)
    <3>1. groups \in Seq(Lines)
        BY DEF Inv, TypeOK
    <3>2. groups[k] \in Lines
        BY <3>1
    <3> QED BY <3>1, <3>2 DEF Lines
  <2>2. CASE groups' = groups
      BY <2>2
  <2>3. ASSUME NEW g \in GroupNames, NEW u \in Names, NEW members \in Seq(Names),
               NEW newline \in BOOLEAN, groups' = Created(groups, g, u, members, newline)
        PROVE  groups'[k] = groups[k]
      BY <2>1, <2>3, CreatedKeeps
  <2>4. ASSUME NEW g \in GroupNames, NEW u \in Names,
               ~JoinFaults(groups, g, u), ~JoinAlready(groups, g, u),
               groups' = Joined(groups, g, u)
        PROVE  ListedTwice(groups'[k]) \subseteq ListedTwice(groups[k])
    <3> DEFINE old == groups[k].members
               new == groups'[k].members
    <3>1. new = IF groups[k].name = g THEN Append(old, u) ELSE old
        BY <2>1, <2>4, JoinedKeeps
    <3>2. groups[k].name = g => \A n \in DOMAIN old : old[n] # u
        BY <2>1, <2>4, CopiedToTheEnd DEF Already, Lists
    <3>3. old \in Seq(Names) /\ DOMAIN old = 1..Len(old) /\ Len(old) \in Nat
        BY <2>1
    <3> SUFFICES ASSUME NEW v \in Names, NEW n \in DOMAIN new, NEW j \in DOMAIN new,
                        n # j, new[n] = v, new[j] = v
                 PROVE  /\ n \in DOMAIN old /\ j \in DOMAIN old
                        /\ old[n] = v /\ old[j] = v
        BY DEF ListedTwice
    <3> HIDE DEF old, new
    <3>4. CASE groups[k].name # g
        BY <3>1, <3>4
    <3>5. CASE groups[k].name = g
      <4>1. \A l \in DOMAIN new :
                (l \in DOMAIN old /\ new[l] = old[l]) \/ (l = Len(old) + 1 /\ new[l] = u)
          BY <3>1, <3>3, <3>5, Appended
      <4>2. ~(n = Len(old) + 1 /\ j = Len(old) + 1)
          OBVIOUS
      <4>3. v # u
          BY <3>2, <3>5, <4>1, <4>2
      <4> QED BY <4>1, <4>3
    <3> QED BY <3>4, <3>5
  <2> QED BY <2>2, <2>3, <2>4, StepWrites DEF FileStep
<1>2. JoinAddsOnce <=> [][Once]_vars
    BY DEF JoinAddsOnce
<1> QED BY <1>1, <1>2, InvHolds, PTL DEF Spec

-----------------------------------------------------------------------------
(*                             Who is sent what                            *)
-----------------------------------------------------------------------------
(* What the handlers say to whom.                                          *)
IsSend(o) == o.op = "send"
IsOffer(m) == m.type = "PRIVATE_MESSAGE"

(* The port of a private chat is used up and both ends are told.           *)
OfferMade(i) ==
    \E j \in Occupied \ {i}, o \in Message :
        /\ o.port = ports /\ ports' = ports + 1 /\ fds' = fds
        /\ todo' = <<Send(socket[j], o), Send(socket[i], o)>>
NoOffer ==
    /\ ports' \in Nat /\ ports' >= ports
    /\ \A n \in DOMAIN todo' : IsSend(todo'[n]) => ~IsOffer(todo'[n].msg)

(* An answer goes out first, and to the slot the request came from.        *)
AnswersOnly(i) ==
    \A n \in DOMAIN todo' :
        IsSend(todo'[n]) /\ todo'[n].msg.type \in Answers => n = 1 /\ todo'[n].fd = socket[i]

(* A handler that sends one message to the slot it read from.              *)
LEMMA OneReply ==
    ASSUME TypeOK, NEW i \in Occupied, NEW m \in Message, ~IsOffer(m), ports' = ports,
           \/ todo' = <<Send(socket[i], m)>>
           \/ todo' = <<Send(socket[i], m), Drop(i)>>
    PROVE  NoOffer /\ AnswersOnly(i)
<1>1. socket[i] \in Fds /\ i \in Slots
    BY DEF TypeOK, Occupied
<1>2. Send(socket[i], m) \in Operation /\ Drop(i) \in Operation
    BY <1>1 DEF Send, Drop, Operation
<1>3. \A n \in DOMAIN todo' :
          \/ n = 1 /\ todo'[n] = Send(socket[i], m)
          \/ todo'[n] = Drop(i)
  <2>1. CASE todo' = <<Send(socket[i], m)>>
      BY <1>2, <2>1, ShortSequences
  <2>2. CASE todo' = <<Send(socket[i], m), Drop(i)>>
      BY <1>2, <2>2, ShortSequences
  <2> QED BY <2>1, <2>2
<1>4. /\ Send(socket[i], m).op = "send" /\ Send(socket[i], m).fd = socket[i]
      /\ Send(socket[i], m).msg = m /\ Drop(i).op # "send"
    BY DEF Send, Drop
<1>5. NoOffer
    BY <1>3, <1>4 DEF NoOffer, IsSend, TypeOK
<1>6. AnswersOnly(i)
    BY <1>3, <1>4 DEF AnswersOnly, IsSend
<1> QED BY <1>5, <1>6

(* A handler that has nothing to say.                                      *)
LEMMA NothingSaid ==
    ASSUME TypeOK, NEW i, ports' = ports, todo' = <<>>
    PROVE  NoOffer /\ AnswersOnly(i)
<1>1. DOMAIN todo' = {}
    OBVIOUS
<1> QED BY <1>1 DEF NoOffer, AnswersOnly, TypeOK

(* A handler that tells others, and what it tells is no answer.            *)
LEMMA Broadcast ==
    ASSUME TypeOK, NEW i, ports' = ports, NEW S, NEW m \in Message, ~IsOffer(m),
           m.type \notin Answers, \A r \in S : socket[r[3]] \in Fds, SendAll(S, m)
    PROVE  NoOffer /\ AnswersOnly(i)
<1>1. \A n \in DOMAIN todo' : \E r \in S : todo'[n] = Send(socket[r[3]], m)
    BY SendAllSends
<1>2. \A n \in DOMAIN todo' : todo'[n].msg = m
    BY <1>1 DEF Send
<1> QED BY <1>2 DEF NoOffer, AnswersOnly, TypeOK

(* login answers the sender, whether or not the password is right.         *)
LEMMA LoginSays ==
    ASSUME TypeOK, todo = <<>>, NEW i \in Occupied, NEW m \in LoginMsg, Login(i, m)
    PROVE  NoOffer /\ AnswersOnly(i)
<1> DEFINE ok == <<m.user, m.pass>> \in Accounts
           success == [type |-> "SUCCESS", name |-> m.user, ok |-> ok]
<1>1. CASE Stop("exit") \/ Stop("fault")
  <2>1. ports' = ports /\ todo' = <<>>
      BY <1>1 DEF Stop
  <2> QED BY <2>1, NothingSaid
<1>2. CASE /\ todo' = ConnectMessage(i, m.user, ok) \o (IF ok THEN <<>> ELSE <<Drop(i)>>)
           /\ ports' = ports
  <2>1. m.user \in Names /\ ok \in BOOLEAN /\ i \in Slots /\ socket[i] \in Fds
      BY DEF LoginMsg, Names, Occupied, TypeOK
  <2>2. success \in Message /\ ~IsOffer(success)
      BY <2>1 DEF Message, IsOffer
  <2>3. Send(socket[i], success) \in Operation /\ Drop(i) \in Operation
      BY <2>1, <2>2 DEF Send, Drop, Operation
  <2>4. ok => todo' = <<Send(socket[i], success)>>
      BY <1>2, <2>3, OneAndOne DEF ConnectMessage, Reply
  <2>5. ~ok => todo' = <<Send(socket[i], success), Drop(i)>>
      BY <1>2, <2>3, OneAndOne DEF ConnectMessage, Reply
  <2> HIDE DEF ok, success
  <2> QED BY <1>2, <2>2, <2>4, <2>5, OneReply
<1> QED BY <1>1, <1>2 DEF Login

(* send_private_message tells both ends the port it takes, or answers the  *)
(* sender that there is no such user.                                      *)
LEMMA SendPrivateMessageSays ==
    ASSUME TypeOK, NEW i \in Occupied, NEW m \in CommandMsg, m.type = "PRIVATE_MESSAGE",
           SendPrivateMessage(i, m)
    PROVE  AnswersOnly(i) /\ (OfferMade(i) \/ NoOffer)
<1> DEFINE offer == [type |-> "PRIVATE_MESSAGE", name |-> username[i], port |-> ports]
           error == [type |-> "USERNAME_ERROR", to |-> m.to]
<1>1. ports' = ports + 1 /\ ports \in Nat /\ fds' = fds /\ i \in Slots /\ socket[i] \in Fds
    BY DEF SendPrivateMessage, TakePort, TypeOK, Occupied
<1>2. CASE \E j \in Slots : /\ IsLowest(j, Addressed(i, m.to))
                            /\ todo' = Reply(j, offer) \o Reply(i, offer)
  <2>1. PICK j \in Slots : /\ IsLowest(j, Addressed(i, m.to))
                           /\ todo' = Reply(j, offer) \o Reply(i, offer)
      BY <1>2
  <2>2. j \in Occupied \ {i} /\ socket[j] \in Fds
      BY <2>1 DEF IsLowest, Addressed, TypeOK, Occupied
  <2>3. offer \in Message /\ offer.port = ports /\ offer.type = "PRIVATE_MESSAGE"
      BY DEF Message, TypeOK, Occupied
  <2>4. Send(socket[i], offer) \in Operation /\ Send(socket[j], offer) \in Operation
      BY <1>1, <2>2, <2>3 DEF Send, Operation
  <2>5. todo' = <<Send(socket[j], offer), Send(socket[i], offer)>>
      BY <2>1, <2>4, OneAndOne DEF Reply
  <2>6. \A n \in DOMAIN todo' : todo'[n].msg = offer
      BY <2>4, <2>5, ShortSequences DEF Send
  <2> HIDE DEF offer
  <2>7. OfferMade(i)
      BY <1>1, <2>2, <2>3, <2>5 DEF OfferMade
  <2>8. AnswersOnly(i)
      BY <2>3, <2>6 DEF AnswersOnly, Answers
  <2> QED BY <2>7, <2>8
<1>3. CASE todo' = Reply(i, error)
  <2>1. m.to \in Names
      BY DEF CommandMsg
  <2>2. error \in Message /\ error.type = "USERNAME_ERROR"
      BY <2>1 DEF Message
  <2>3. Send(socket[i], error) \in Operation
      BY <1>1, <2>2 DEF Send, Operation
  <2>4. todo' = <<Send(socket[i], error)>>
      BY <1>3 DEF Reply
  <2>5. \A n \in DOMAIN todo' : n = 1 /\ todo'[n].fd = socket[i] /\ todo'[n].msg = error
      BY <2>3, <2>4, ShortSequences DEF Send
  <2> HIDE DEF error
  <2>6. NoOffer
      BY <1>1, <2>2, <2>5 DEF NoOffer, IsOffer
  <2>7. AnswersOnly(i)
      BY <2>5 DEF AnswersOnly
  <2> QED BY <2>6, <2>7
<1> QED BY <1>2, <1>3 DEF SendPrivateMessage

(* send_public_message tells others, and what it tells is no answer.       *)
LEMMA SendPublicMessageSays ==
    ASSUME TypeOK, todo = <<>>, NEW i \in Occupied,
           NEW m \in CommandMsg, m.type = "PUBLIC_MESSAGE", SendPublicMessage(i, m)
    PROVE  NoOffer /\ AnswersOnly(i)
<1> DEFINE talk == [type |-> "PUBLIC_MESSAGE", name |-> username[i], group |-> m.group]
           S == Recipients(i, m.group)
<1>1. CASE Stop("fault")
  <2>1. ports' = ports /\ todo' = <<>>
      BY <1>1 DEF Stop
  <2> QED BY <2>1, NothingSaid
<1>2. CASE SendAll(S, talk) /\ ports' = ports
  <2>1. m.group \in GroupNames
      BY DEF CommandMsg
  <2>2. talk \in Message /\ ~IsOffer(talk) /\ talk.type \notin Answers
      BY <2>1 DEF Message, TypeOK, Occupied, IsOffer, Answers
  <2>3. \A r \in S : r[3] \in Occupied
      BY DEF Recipients
  <2>4. \A r \in S : socket[r[3]] \in Fds
      BY <2>3 DEF Occupied, TypeOK
  <2> HIDE DEF S, talk
  <2> QED BY <1>2, <2>2, <2>4, Broadcast
<1> QED BY <1>1, <1>2 DEF SendPublicMessage

(* What any handler says.                                                  *)
LEMMA DispatchSays ==
    ASSUME TypeOK, todo = <<>>, NEW i \in Occupied, NEW m \in Request, Dispatch(i, m)
    PROVE  AnswersOnly(i) /\ (OfferMade(i) \/ NoOffer)
<1>1. m.type # "SET_USERNAME" => m \in CommandMsg
    BY DEF Request, LoginMsg
<1>2. CASE m.type = "SET_USERNAME" /\ Login(i, m)
  <2>1. m \in LoginMsg
      BY <1>2 DEF Request, CommandMsg
  <2> QED BY <1>2, <2>1, LoginSays
<1>3. CASE m.type = "GET_USERS" /\ SendUserList(i)
  <2> DEFINE answer == [type |-> "GET_USERS", list |-> { username[j] : j \in Occupied }]
  <2>1. answer \in Message /\ ~IsOffer(answer)
      BY DEF Message, TypeOK, Occupied, IsOffer
  <2>2. todo' = <<Send(socket[i], answer)>> /\ ports' = ports
      BY <1>3 DEF SendUserList, Answer, Reply
  <2> HIDE DEF answer
  <2> QED BY <2>1, <2>2, OneReply
<1>4. CASE m.type = "PRIVATE_MESSAGE" /\ SendPrivateMessage(i, m)
    BY <1>1, <1>4, SendPrivateMessageSays
<1>5. CASE m.type = "PUBLIC_MESSAGE" /\ SendPublicMessage(i, m)
    BY <1>1, <1>5, SendPublicMessageSays
<1>6. CASE m.type = "CREATE_GROUP" /\ CreateGroup(i, m)
  <2> DEFINE answer == [type |-> "CREATE_GROUP", group |-> m.group]
  <2>1. CASE Stop("exit")
    <3>1. ports' = ports /\ todo' = <<>>
        BY <2>1 DEF Stop
    <3> QED BY <3>1, NothingSaid
  <2>2. CASE Answer(i, answer) /\ ports' = ports
    <3>1. m.group \in GroupNames
        BY <1>1, <1>6 DEF CommandMsg
    <3>2. answer \in Message /\ ~IsOffer(answer)
        BY <3>1 DEF Message, IsOffer
    <3>3. todo' = <<Send(socket[i], answer)>>
        BY <2>2 DEF Answer, Reply
    <3> HIDE DEF answer
    <3> QED BY <2>2, <3>2, <3>3, OneReply
  <2> QED BY <1>6, <2>1, <2>2 DEF CreateGroup
<1>7. CASE m.type = "JOIN_GROUP" /\ JoinGroup(i, m)
  <2> DEFINE answer(added) == [type |-> "JOIN_GROUP", group |-> m.group, added |-> added]
  <2>1. CASE Stop("fault")
    <3>1. ports' = ports /\ todo' = <<>>
        BY <2>1 DEF Stop
    <3> QED BY <3>1, NothingSaid
  <2>2. ASSUME NEW added \in BOOLEAN, Answer(i, answer(added)), ports' = ports
        PROVE  NoOffer /\ AnswersOnly(i)
    <3>1. m.group \in GroupNames
        BY <1>1, <1>7 DEF CommandMsg
    <3>2. answer(added) \in Message /\ ~IsOffer(answer(added))
        BY <3>1 DEF Message, IsOffer
    <3>3. todo' = <<Send(socket[i], answer(added))>>
        BY <2>2 DEF Answer, Reply
    <3> HIDE DEF answer
    <3> QED BY <2>2, <3>2, <3>3, OneReply
  <2> QED BY <1>7, <2>1, <2>2 DEF JoinGroup
<1>8. CASE m.type \in {"RECEIVE_FILE", "UNKNOWN"} /\ Ignore
  <2>1. ports' = ports /\ todo' = <<>>
      BY <1>8 DEF Ignore
  <2> QED BY <2>1, NothingSaid
<1> QED BY <1>2, <1>3, <1>4, <1>5, <1>6, <1>7, <1>8 DEF Dispatch

-----------------------------------------------------------------------------
(*                           A port has two ends                           *)
-----------------------------------------------------------------------------
(* The offers a process is still to be sent, and all that it was given.    *)
OffersLeft(c) ==
    { n \in DOMAIN todo : IsSend(todo[n]) /\ fds[todo[n].fd] = c /\ IsOffer(todo[n].msg) }
Given(c, o) ==
    \/ \E n \in Offers(c) : toClient[c][n] = o
    \/ \E n \in OffersLeft(c) : todo[n].msg = o

(* An offer has a port that was used up, no other offer has it, and no     *)
(* third process gets it.                                                  *)
EndsMeet ==
    \A c, d \in Procs : \A o, q \in Message : Given(c, o) /\ Given(d, q) =>
        /\ o.port \in Nat /\ o.port < ports
        /\ o.port = q.port => o = q
        /\ o = q /\ c # d => \A e \in Procs : Given(e, o) => e = c \/ e = d

(* A process is given an offer once.                                       *)
GivenOnce ==
    \A c \in Procs :
        /\ \A n, k \in Offers(c) : toClient[c][n] = toClient[c][k] => n = k
        /\ \A n \in Offers(c), k \in OffersLeft(c) : toClient[c][n] # todo[k].msg
        /\ \A n, k \in OffersLeft(c) : n = k

(* What is given to fewer is given to two at most.                         *)
LEMMA FewerGiven ==
    ASSUME EndsMeet, ports \in Nat, ports' \in Nat, ports' >= ports,
           \A c \in Procs : \A o \in Message : Given(c, o)' => Given(c, o)
    PROVE  EndsMeet'
<1> SUFFICES ASSUME NEW c \in Procs, NEW d \in Procs, NEW o \in Message, NEW q \in Message,
                    Given(c, o)', Given(d, q)'
             PROVE  /\ o.port \in Nat /\ o.port < ports'
                    /\ o.port = q.port => o = q
                    /\ o = q /\ c # d => \A e \in Procs : Given(e, o)' => e = c \/ e = d
    BY DEF EndsMeet
<1>1. Given(c, o) /\ Given(d, q)
    OBVIOUS
<1>2. /\ o.port \in Nat /\ o.port < ports
      /\ o.port = q.port => o = q
      /\ o = q /\ c # d => \A e \in Procs : Given(e, o) => e = c \/ e = d
    BY <1>1 DEF EndsMeet
<1> QED BY <1>2

(* A process reads, or loses, what lies in its socket.                     *)
Shrinks(c) ==
    \/ toClient'[c] = toClient[c]
    \/ toClient'[c] = <<>>
    \/ toClient[c] # <<>> /\ toClient'[c] = Tail(toClient[c])

(* What a process has not read yet is the end of what it had not read.     *)
LEMMA OffersShrink ==
    ASSUME TypeOK, NEW c \in Procs, Shrinks(c)
    PROVE  \E s \in Nat : \A n \in Offers(c)' :
                n \in Nat /\ n + s \in Offers(c) /\ toClient[c][n + s] = toClient'[c][n]
<1>1. toClient[c] \in Seq(Message)
    BY DEF TypeOK
<1>2. CASE toClient'[c] = toClient[c]
  <2>1. \A n \in Offers(c)' :
            n \in Nat /\ n + 0 \in Offers(c) /\ toClient[c][n + 0] = toClient'[c][n]
    <3>1. \A n \in Offers(c)' : n \in Offers(c) /\ n \in 1..Len(toClient[c])
        BY <1>1, <1>2 DEF Offers
    <3>2. \A n \in Offers(c)' : n \in Nat /\ n + 0 = n
        BY <1>1, <3>1
    <3> QED BY <1>2, <3>1, <3>2
  <2> QED BY <2>1
<1>3. CASE toClient'[c] = <<>>
  <2>1. Offers(c)' = {}
      BY <1>3 DEF Offers
  <2> QED BY <2>1
<1>4. CASE toClient[c] # <<>> /\ toClient'[c] = Tail(toClient[c])
  <2>1. \A n \in DOMAIN toClient'[c] :
            n \in Nat /\ n + 1 \in DOMAIN toClient[c] /\ toClient'[c][n] = toClient[c][n + 1]
      BY <1>1, <1>4, HeadAndTail
  <2>2. \A n \in Offers(c)' :
            n \in Nat /\ n + 1 \in Offers(c) /\ toClient[c][n + 1] = toClient'[c][n]
      BY <2>1 DEF Offers
  <2> QED BY <2>2
<1> QED BY <1>2, <1>3, <1>4 DEF Shrinks

(* A step that makes no offer.                                             *)
LEMMA NoOfferKeeps ==
    ASSUME TypeOK, EndsMeet, GivenOnce, \A c \in Procs : Shrinks(c),
           NoOffer \/ UNCHANGED <<todo, fds, ports>>
    PROVE  EndsMeet' /\ GivenOnce'
<1>1. ASSUME NEW c \in Procs
      PROVE  \A n \in OffersLeft(c)' : n \in OffersLeft(c) /\ todo'[n] = todo[n]
    BY DEF OffersLeft, NoOffer
<1>2. ports \in Nat /\ ports' \in Nat /\ ports' >= ports
    BY DEF NoOffer, TypeOK
<1>3. ASSUME NEW c \in Procs, NEW o \in Message, Given(c, o)'
      PROVE  Given(c, o)
  <2>1. CASE \E n \in Offers(c)' : toClient'[c][n] = o
    <3>1. PICK s \in Nat : \A n \in Offers(c)' :
                n \in Nat /\ n + s \in Offers(c) /\ toClient[c][n + s] = toClient'[c][n]
        BY OffersShrink
    <3> QED BY <2>1, <3>1 DEF Given
  <2>2. CASE \E n \in OffersLeft(c)' : todo'[n].msg = o
      BY <1>1, <2>2 DEF Given
  <2> QED BY <1>3, <2>1, <2>2 DEF Given
<1>4. EndsMeet'
    BY <1>2, <1>3, FewerGiven
<1>5. GivenOnce'
  <2> SUFFICES ASSUME NEW c \in Procs
               PROVE  /\ \A n, k \in Offers(c)' : toClient'[c][n] = toClient'[c][k] => n = k
                      /\ \A n \in Offers(c)', k \in OffersLeft(c)' : toClient'[c][n] # todo'[k].msg
                      /\ \A n, k \in OffersLeft(c)' : n = k
      BY DEF GivenOnce
  <2>1. PICK s \in Nat : \A n \in Offers(c)' :
                n \in Nat /\ n + s \in Offers(c) /\ toClient[c][n + s] = toClient'[c][n]
      BY OffersShrink
  <2>2. \A n, k \in Offers(c)' : toClient'[c][n] = toClient'[c][k] => n = k
    <3> SUFFICES ASSUME NEW n \in Offers(c)', NEW k \in Offers(c)',
                        toClient'[c][n] = toClient'[c][k]
                 PROVE  n = k
        OBVIOUS
    <3>1. n + s = k + s
        BY <2>1 DEF GivenOnce
    <3>2. n \in Nat /\ k \in Nat
        BY <2>1
    <3> QED BY <3>1, <3>2
  <2>3. \A n \in Offers(c)', k \in OffersLeft(c)' : toClient'[c][n] # todo'[k].msg
      BY <1>1, <2>1 DEF GivenOnce
  <2>4. \A n, k \in OffersLeft(c)' : n = k
      BY <1>1 DEF GivenOnce
  <2> QED BY <2>2, <2>3, <2>4
<1> QED BY <1>4, <1>5

(* The server tells both ends a port it never gave before.                 *)
LEMMA OfferKeeps ==
    ASSUME TypeOK, SlotsHoldConnections, OneDescriptorEach, EndsMeet, GivenOnce,
           todo = <<>>, NEW i \in Occupied, OfferMade(i), toClient' = toClient
    PROVE  EndsMeet' /\ GivenOnce'
<1>1. PICK j \in Occupied \ {i}, o \in Message :
        /\ o.port = ports /\ ports' = ports + 1 /\ fds' = fds
        /\ todo' = <<Send(socket[j], o), Send(socket[i], o)>>
    BY DEF OfferMade
<1>2. /\ socket[i] \in Fds /\ socket[j] \in Fds /\ socket[i] # socket[j]
      /\ Peer(i) \in Procs /\ Peer(j) \in Procs /\ Peer(i) # Peer(j)
    BY DEF TypeOK, SlotsHoldConnections, OneDescriptorEach, Occupied, Peer
<1>3. Send(socket[i], o) \in Operation /\ Send(socket[j], o) \in Operation
    BY <1>2 DEF Send, Operation
<1>4. /\ DOMAIN todo' = {1, 2} /\ todo'[1] = Send(socket[j], o) /\ todo'[2] = Send(socket[i], o)
    BY <1>1, <1>3, ShortSequences
<1>5. /\ todo'[1].msg = o /\ todo'[1].fd = socket[j]
      /\ todo'[2].msg = o /\ todo'[2].fd = socket[i]
    BY <1>4 DEF Send
<1>6. ASSUME NEW c \in Procs, NEW n \in OffersLeft(c)'
      PROVE  todo'[n].msg = o /\ ((n = 1 /\ c = Peer(j)) \/ (n = 2 /\ c = Peer(i)))
  <2>1. n \in DOMAIN todo' /\ fds'[todo'[n].fd] = c
      BY DEF OffersLeft
  <2>2. n \in {1, 2} /\ fds[todo'[n].fd] = c
      BY <1>1, <1>4, <2>1
  <2> QED BY <1>5, <2>2 DEF Peer
<1>7. \A c \in Procs : Offers(c)' = Offers(c)
    BY DEF Offers
<1>8. \A c \in Procs : OffersLeft(c) = {}
    BY DEF OffersLeft
<1>9. ports \in Nat
    BY DEF TypeOK
<1>10. ASSUME NEW c \in Procs, NEW q \in Message, Given(c, q)'
       PROVE  Given(c, q) \/ (q = o /\ (c = Peer(i) \/ c = Peer(j)))
    BY <1>6, <1>7, <1>10 DEF Given
<1>11. \A c \in Procs : \A q \in Message : Given(c, q) => q.port \in Nat /\ q.port < ports /\ q.port # ports
  <2> SUFFICES ASSUME NEW c \in Procs, NEW q \in Message, Given(c, q)
               PROVE  q.port \in Nat /\ q.port < ports /\ q.port # ports
      OBVIOUS
  <2>1. q.port \in Nat /\ q.port < ports
      BY DEF EndsMeet
  <2> QED BY <1>9, <2>1
<1>12. EndsMeet'
  <2> SUFFICES ASSUME NEW c \in Procs, NEW d \in Procs, NEW p \in Message, NEW q \in Message,
                      Given(c, p)', Given(d, q)'
               PROVE  /\ p.port \in Nat /\ p.port < ports'
                      /\ p.port = q.port => p = q
                      /\ p = q /\ c # d => \A e \in Procs : Given(e, p)' => e = c \/ e = d
      BY DEF EndsMeet
  <2>1. p.port \in Nat /\ p.port < ports'
    <3>1. CASE Given(c, p)
      <4>1. p.port \in Nat /\ p.port < ports /\ ports' = ports + 1
          BY <1>1, <1>11, <3>1
      <4> QED BY <1>9, <4>1
    <3>2. CASE p = o
        BY <1>1, <1>9, <3>2
    <3> QED BY <1>10, <3>1, <3>2
  <2>2. p.port = q.port => p = q
      BY <1>1, <1>10, <1>11 DEF EndsMeet
  <2>3. ASSUME p = q, c # d, NEW e \in Procs, Given(e, p)'
        PROVE  e = c \/ e = d
    <3>1. CASE p = o
      <4>1. c \in {Peer(i), Peer(j)} /\ d \in {Peer(i), Peer(j)} /\ e \in {Peer(i), Peer(j)}
          BY <1>1, <1>10, <1>11, <2>3, <3>1
      <4> QED BY <2>3, <4>1
    <3>2. CASE p # o
      <4>1. Given(c, p) /\ Given(d, p) /\ Given(e, p)
          BY <1>10, <2>3, <3>2
      <4> QED BY <2>3, <4>1 DEF EndsMeet
    <3> QED BY <3>1, <3>2
  <2> QED BY <2>1, <2>2, <2>3
<1>13. GivenOnce'
  <2> SUFFICES ASSUME NEW c \in Procs
               PROVE  /\ \A n, k \in Offers(c)' : toClient'[c][n] = toClient'[c][k] => n = k
                      /\ \A n \in Offers(c)', k \in OffersLeft(c)' : toClient'[c][n] # todo'[k].msg
                      /\ \A n, k \in OffersLeft(c)' : n = k
      BY DEF GivenOnce
  <2>1. \A n, k \in Offers(c)' : toClient'[c][n] = toClient'[c][k] => n = k
      BY <1>7 DEF GivenOnce
  <2>2. ASSUME NEW n \in Offers(c)', NEW k \in OffersLeft(c)'
        PROVE  toClient'[c][n] # todo'[k].msg
    <3>1. n \in Offers(c) /\ toClient[c] \in Seq(Message) /\ n \in DOMAIN toClient[c]
        BY <1>7 DEF Offers, TypeOK
    <3>2. toClient[c][n] \in Message
        BY <3>1
    <3>3. Given(c, toClient[c][n])
        BY <3>1 DEF Given
    <3>4. toClient[c][n] # o
        BY <1>1, <1>11, <3>2, <3>3
    <3> QED BY <1>6, <3>4
  <2>3. \A n, k \in OffersLeft(c)' : n = k
      BY <1>2, <1>6
  <2> QED BY <2>1, <2>2, <2>3
<1> QED BY <1>12, <1>13

(* An offer goes from what is left to do into a socket, or is lost.        *)
LEMMA TransmitKeepsOffers ==
    ASSUME Inv, EndsMeet, GivenOnce, Transmit
    PROVE  EndsMeet' /\ GivenOnce'
<1>1. /\ todo # <<>> /\ todo' = Tail(todo) /\ Head(todo).op = "send" /\ fds' = fds
      /\ ports' = ports /\ ports \in Nat
    BY DEF Transmit, Inv, TypeOK
<1>2. todo \in Seq(Operation)
    BY DEF Inv, TypeOK
<1>3. /\ Head(todo) = todo[1] /\ Head(todo) \in Operation /\ 1 \in DOMAIN todo
      /\ \A n \in DOMAIN todo' : n \in Nat /\ n + 1 \in DOMAIN todo /\ todo'[n] = todo[n + 1]
      /\ DOMAIN todo' \subseteq Nat \ {0}
    BY <1>1, <1>2, HeadAndTail
<1>4. PICK t \in Procs, m \in Message :
        /\ t = fds[todo[1].fd] /\ m = todo[1].msg /\ todo[1].op = "send"
        /\ \/ toClient' = [toClient EXCEPT ![t] = Append(@, m)]
           \/ toClient' = toClient
  <2>1. Head(todo).msg \in Message /\ fds[Head(todo).fd] \in Procs
      BY <1>1, <1>3 DEF Operation, Inv, TodoIsSound
  <2> QED BY <1>1, <1>3, <2>1 DEF Transmit
<1>5. ASSUME NEW c \in Procs, NEW n \in OffersLeft(c)'
      PROVE  n \in Nat \ {0} /\ n + 1 \in OffersLeft(c) /\ todo'[n] = todo[n + 1]
    BY <1>1, <1>3 DEF OffersLeft
<1>6. IsOffer(m) => 1 \in OffersLeft(t)
    BY <1>3, <1>4 DEF OffersLeft, IsSend
<1>7. toClient \in [Procs -> Seq(Message)]
    BY DEF Inv, TypeOK
<1>8. ASSUME NEW c \in Procs, NEW n \in Offers(c)'
      PROVE  \/ n \in Offers(c) /\ toClient'[c][n] = toClient[c][n]
             \/ /\ c = t /\ n = Len(toClient[c]) + 1
                /\ toClient'[c][n] = m /\ IsOffer(m) /\ 1 \in OffersLeft(c)
  <2>1. toClient[c] \in Seq(Message) /\ n \in DOMAIN toClient'[c]
      BY <1>7 DEF Offers
  <2>2. CASE toClient'[c] = toClient[c]
      BY <2>2 DEF Offers
  <2>3. CASE c = t /\ toClient'[c] = Append(toClient[c], m)
    <3>1. \/ n \in DOMAIN toClient[c] /\ toClient'[c][n] = toClient[c][n]
          \/ n = Len(toClient[c]) + 1 /\ toClient'[c][n] = m
        BY <2>1, <2>3, Appended
    <3> QED BY <1>6, <2>3, <3>1 DEF Offers, IsOffer
  <2> QED BY <1>4, <1>7, <2>2, <2>3
<1>9. ASSUME NEW c \in Procs, NEW o \in Message, Given(c, o)'
      PROVE  Given(c, o)
  <2>1. CASE \E n \in Offers(c)' : toClient'[c][n] = o
      BY <1>4, <1>8, <2>1 DEF Given
  <2>2. CASE \E n \in OffersLeft(c)' : todo'[n].msg = o
      BY <1>5, <2>2 DEF Given
  <2> QED BY <1>9, <2>1, <2>2 DEF Given
<1>10. EndsMeet'
  <2>1. ports' >= ports
      BY <1>1
  <2> QED BY <1>1, <1>9, <2>1, FewerGiven
<1>11. GivenOnce'
  <2> SUFFICES ASSUME NEW c \in Procs
               PROVE  /\ \A n, k \in Offers(c)' : toClient'[c][n] = toClient'[c][k] => n = k
                      /\ \A n \in Offers(c)', k \in OffersLeft(c)' : toClient'[c][n] # todo'[k].msg
                      /\ \A n, k \in OffersLeft(c)' : n = k
      BY DEF GivenOnce
  <2>1. \A n, k \in Offers(c)' : toClient'[c][n] = toClient'[c][k] => n = k
      BY <1>4, <1>8 DEF GivenOnce
  <2>2. ASSUME NEW n \in OffersLeft(c)', NEW k \in OffersLeft(c)' PROVE n = k
    <3>1. n + 1 = k + 1 /\ n \in Nat /\ k \in Nat
        BY <1>5 DEF GivenOnce
    <3> QED BY <3>1
  <2>3. ASSUME NEW n \in Offers(c)', NEW k \in OffersLeft(c)'
        PROVE  toClient'[c][n] # todo'[k].msg
    <3>1. k \in Nat \ {0} /\ k + 1 \in OffersLeft(c) /\ todo'[k] = todo[k + 1]
        BY <1>5
    <3>2. CASE n \in Offers(c) /\ toClient'[c][n] = toClient[c][n]
        BY <3>1, <3>2 DEF GivenOnce
    <3>3. CASE 1 \in OffersLeft(c)
      <4>1. k + 1 = 1
          BY <3>1, <3>3 DEF GivenOnce
      <4> QED BY <3>1, <4>1
    <3> QED BY <1>8, <3>2, <3>3
  <2> QED BY <2>1, <2>2, <2>3
<1> QED BY <1>10, <1>11

(* What the server reads, it reads from a slot that is occupied.           *)
LEMMA HandlerSays ==
    ASSUME Inv, NEW i \in Slots, HandleRequest(i) \/ HandleReset(i)
    PROVE  /\ i \in Occupied /\ Peer(i) \in Procs /\ pc = "scan" /\ todo = <<>>
           /\ HandlerEffect /\ AnswersOnly(i) /\ (OfferMade(i) \/ NoOffer)
<1>1. i \in Occupied /\ Peer(i) \in Procs /\ pc = "scan" /\ todo = <<>>
    BY DEF HandleRequest, HandleReset, NextDue, IsLowest, Due, Occupied, Inv, SlotTable,
        SlotsHoldConnections
<1>2. PICK m \in Request : Dispatch(i, m)
  <2>1. CASE HandleRequest(i)
    <3>1. Head(inbox[Peer(i)]) \in Request
        BY <1>1, <2>1, HeadAndTail DEF HandleRequest, Inv, TypeOK
    <3> QED BY <2>1, <3>1 DEF HandleRequest
  <2>2. CASE HandleReset(i)
    <3>1. [type |-> "UNKNOWN"] \in Request
        BY DEF Request, CommandMsg
    <3> QED BY <2>2, <3>1, RequestsAreTyped DEF HandleReset, Request
  <2> QED BY <2>1, <2>2
<1>3. HandlerEffect
    BY <1>1, <1>2, DispatchEffect DEF Inv, SlotTable
<1>4. AnswersOnly(i) /\ (OfferMade(i) \/ NoOffer)
    BY <1>1, <1>2, DispatchSays DEF Inv
<1> QED BY <1>1, <1>3, <1>4

(* A disconnect is told to the others.                                     *)
LEMMA DisconnectSays ==
    ASSUME Inv, NEW i \in Slots, HandleDisconnect(i)
    PROVE  /\ i \in Occupied /\ Peer(i) \in Procs /\ pc = "scan" /\ todo = <<>>
           /\ NoOffer /\ AnswersOnly(0)
           /\ \A n \in DOMAIN todo' : IsSend(todo'[n]) => todo'[n].msg.type \notin Answers
<1> DEFINE S == { <<1, 1, j>> : j \in Occupied \ {i} }
           bye == [type |-> "DISCONNECT", name |-> username[i]]
<1>1. i \in Occupied /\ Peer(i) \in Procs /\ pc = "scan" /\ todo = <<>>
    BY DEF HandleDisconnect, NextDue, IsLowest, Due, Occupied, Inv, SlotTable,
        SlotsHoldConnections
<1>2. bye \in Message /\ ~IsOffer(bye) /\ bye.type \notin Answers
    BY DEF Message, Inv, TypeOK, IsOffer, Answers
<1>3. SendAll(S, bye) /\ ports' = ports
    BY DEF HandleDisconnect
<1>4. \A r \in S : socket[r[3]] \in Fds
    BY DEF Inv, TypeOK, Occupied
<1> HIDE DEF S, bye
<1>5. NoOffer /\ AnswersOnly(0)
    BY <1>2, <1>3, <1>4, Broadcast DEF Inv
<1>6. \A n \in DOMAIN todo' : \E r \in S : todo'[n] = Send(socket[r[3]], bye)
    BY <1>2, <1>3, <1>4, SendAllSends
<1> QED BY <1>1, <1>2, <1>5, <1>6 DEF Send

(* accept() makes no offer and gives no answer.                            *)
LEMMA AcceptSays ==
    ASSUME Inv, Accept
    PROVE  \A n \in DOMAIN todo' : IsSend(todo'[n]) => todo'[n].msg.type = "TOO_FULL"
<1>1. PICK d \in Fds :
          todo' = <<>> \/ todo' = <<Send(d, [type |-> "TOO_FULL"]), Close(d)>>
    BY DEF Accept
<1>2. CASE todo' = <<>>
    BY <1>2
<1>3. CASE todo' = <<Send(d, [type |-> "TOO_FULL"]), Close(d)>>
  <2>1. [type |-> "TOO_FULL"] \in Message
      BY DEF Message
  <2>2. Send(d, [type |-> "TOO_FULL"]) \in Operation /\ Close(d) \in Operation
      BY <2>1 DEF Send, Close, Operation
  <2>3. \A n \in DOMAIN todo' :
            todo'[n] = Send(d, [type |-> "TOO_FULL"]) \/ todo'[n] = Close(d)
      BY <1>3, <2>2, ShortSequences
  <2> QED BY <2>3 DEF Send, Close, IsSend
<1> QED BY <1>1, <1>2, <1>3

(* After a close nothing is left to do.                                    *)
LEMMA CloseIsLast ==
    ASSUME Inv, CloseRefused \/ DropSlot
    PROVE  DOMAIN todo' = {}
<1>1. /\ todo # <<>> /\ todo' = Tail(todo) /\ Head(todo).op \in {"close", "drop"}
      /\ todo \in Seq(Operation)
    BY DEF CloseRefused, DropSlot, Inv, TypeOK
<1>2. Head(todo) = todo[1] /\ 1 \in DOMAIN todo
    BY <1>1, HeadAndTail
<1>3. Len(todo) = 1
    BY <1>1, <1>2 DEF Inv, TodoIsSound
<1>4. todo' \in Seq(Operation) /\ Len(todo') = 0
    BY <1>1, <1>3, HeadAndTail
<1> QED BY <1>4

(* What a client's step does to what it was sent.                          *)
LEMMA ClientShrinks ==
    ASSUME Inv, NEW c \in Procs, ClientStep(c)
    PROVE  /\ UNCHANGED <<todo, fds, ports>>
           /\ \A d \in Procs : Shrinks(d)
<1>1. UNCHANGED <<todo, fds, ports>>
    BY DEF ClientStep, ClientConnect, ClientSend, ClientRecv, ClientEof, ClientExit, server
<1>2. toClient \in [Procs -> Seq(Message)]
    BY DEF Inv, TypeOK
<1>3. \/ toClient' = toClient
      \/ toClient' = [toClient EXCEPT ![c] = <<>>]
      \/ toClient[c] # <<>> /\ toClient' = [toClient EXCEPT ![c] = Tail(@)]
    BY DEF ClientStep, ClientConnect, ClientSend, ClientRecv, ClientEof, ClientExit, Leave,
        Attends
<1> QED BY <1>1, <1>2, <1>3 DEF Shrinks

(* No step gives a port to a third process or to one process twice.        *)
LEMMA StepKeepsOffers == Inv /\ EndsMeet /\ GivenOnce /\ [Next]_vars => EndsMeet' /\ GivenOnce'
<1> SUFFICES ASSUME Inv, EndsMeet, GivenOnce, [Next]_vars PROVE EndsMeet' /\ GivenOnce'
    OBVIOUS
<1>0. TypeOK /\ ports \in Nat
    BY DEF Inv, TypeOK
<1>1. CASE \E i \in Slots : HandleRequest(i) \/ HandleReset(i)
  <2>1. PICK i \in Slots : HandleRequest(i) \/ HandleReset(i)
      BY <1>1
  <2>2. i \in Occupied /\ todo = <<>> /\ (OfferMade(i) \/ NoOffer)
      BY <2>1, HandlerSays
  <2>3. toClient' = toClient
      BY <2>1 DEF HandleRequest, HandleReset
  <2>4. CASE OfferMade(i)
      BY <1>0, <2>2, <2>3, <2>4, OfferKeeps DEF Inv, SlotTable
  <2>5. CASE NoOffer
      BY <1>0, <2>3, <2>5, NoOfferKeeps DEF Shrinks
  <2> QED BY <2>2, <2>4, <2>5
<1>2. CASE \E i \in Slots : HandleDisconnect(i)
  <2>1. NoOffer /\ toClient' = toClient
      BY <1>2, DisconnectSays DEF HandleDisconnect
  <2> QED BY <1>0, <2>1, NoOfferKeeps DEF Shrinks
<1>3. CASE Accept
  <2>1. NoOffer
    <3>1. ports' = ports
        BY <1>3 DEF Accept
    <3>2. \A n \in DOMAIN todo' : IsSend(todo'[n]) => ~IsOffer(todo'[n].msg)
        BY <1>3, AcceptSays DEF IsOffer
    <3> QED BY <1>0, <3>1, <3>2 DEF NoOffer
  <2>2. toClient' = toClient
      BY <1>3 DEF Accept
  <2> QED BY <1>0, <2>1, <2>2, NoOfferKeeps DEF Shrinks
<1>4. CASE CloseRefused \/ DropSlot
  <2>1. NoOffer
      BY <1>0, <1>4, CloseIsLast DEF NoOffer, CloseRefused, DropSlot
  <2>2. toClient' = toClient
      BY <1>4 DEF CloseRefused, DropSlot
  <2> QED BY <1>0, <2>1, <2>2, NoOfferKeeps DEF Shrinks
<1>5. CASE Transmit
    BY <1>5, TransmitKeepsOffers
<1>6. CASE Quit \/ Select \/ AcceptFails \/ EndPass \/ SendFails \/ UNCHANGED vars
  <2>1. UNCHANGED <<todo, fds, ports, toClient>>
      BY <1>6 DEF Quit, Select, AcceptFails, EndPass, SendFails, vars, server, network
  <2> QED BY <1>0, <2>1, NoOfferKeeps DEF Shrinks
<1>7. CASE \E c \in Procs : ClientStep(c)
    BY <1>0, <1>7, ClientShrinks, NoOfferKeeps
<1> QED BY <1>1, <1>2, <1>3, <1>4, <1>5, <1>6, <1>7 DEF Next, ServerStep

(* Two of three, or one.                                                   *)
LEMMA TwoAtMost ==
    ASSUME NEW x, NEW y
    PROVE  Cardinality({x, y}) <= 2
<1>1. IsFiniteSet({x}) /\ Cardinality({x}) = 1
    BY FS_Singleton
<1>2. Cardinality({x} \cup {y}) = IF y \in {x} THEN Cardinality({x}) ELSE Cardinality({x}) + 1
    BY <1>1, FS_AddElement
<1>3. {x} \cup {y} = {x, y}
    OBVIOUS
<1>4. Cardinality({x, y}) = 1 \/ Cardinality({x, y}) = 2
    BY <1>1, <1>2, <1>3
<1> QED BY <1>4

(* What was given in pairs is read in pairs.                               *)
LEMMA OffersPairTwo == TypeOK /\ EndsMeet /\ GivenOnce => PortPairsTwo
<1> SUFFICES ASSUME TypeOK, EndsMeet, GivenOnce PROVE PortPairsTwo
    OBVIOUS
<1>1. ASSUME NEW c \in Procs, NEW n \in Offers(c)
      PROVE  toClient[c][n] \in Message /\ Given(c, toClient[c][n])
  <2>1. toClient[c] \in Seq(Message) /\ n \in DOMAIN toClient[c]
      BY DEF TypeOK, Offers
  <2>2. toClient[c][n] \in Message
      BY <2>1
  <2> QED BY <2>2 DEF Given
<1>2. ASSUME NEW c \in Procs, NEW d \in Procs, NEW n \in Offers(c), NEW k \in Offers(d),
             Port(c, n) = Port(d, k)
      PROVE  toClient[c][n] = toClient[d][k]
    BY <1>1, <1>2 DEF EndsMeet, Port
<1>3. \A c \in Procs : \A n, k \in Offers(c) : Port(c, n) = Port(c, k) => n = k
    BY <1>2 DEF GivenOnce
<1>4. ASSUME NEW c \in Procs, NEW d \in Procs, NEW e \in Procs,
             NEW n \in Offers(c), NEW k \in Offers(d), NEW l \in Offers(e),
             Port(c, n) = Port(d, k), Port(d, k) = Port(e, l)
      PROVE  Cardinality({c, d, e}) <= 2
  <2>1. toClient[c][n] = toClient[d][k] /\ toClient[d][k] = toClient[e][l]
      BY <1>2, <1>4
  <2>2. c = d \/ e = c \/ e = d
      BY <1>1, <2>1 DEF EndsMeet
  <2>3. {c, d, e} = {c, e} \/ {c, d, e} = {c, d}
      BY <2>2
  <2> QED BY <2>3, TwoAtMost
<1> QED BY <1>2, <1>3, <1>4 DEF PortPairsTwo

(* A private chat has two ends: send_private_message gives a port to the   *)
(* two processes it connects and never again, however long the messages    *)
(* take to go out and to be read.                                          *)
THEOREM PortPairsTwoHolds == Spec => []PortPairsTwo
<1>1. Init => EndsMeet /\ GivenOnce
  <2> SUFFICES ASSUME Init PROVE EndsMeet /\ GivenOnce
      OBVIOUS
  <2>1. \A c \in Procs : Offers(c) = {} /\ OffersLeft(c) = {}
      BY DEF Init, Offers, OffersLeft
  <2> QED BY <2>1 DEF EndsMeet, GivenOnce, Given
<1>2. Inv => TypeOK
    BY DEF Inv
<1> QED BY <1>1, <1>2, StepKeepsOffers, OffersPairTwo, InvHolds, PTL DEF Spec

-----------------------------------------------------------------------------
(*                 Nobody gets an answer he did not ask for                *)
-----------------------------------------------------------------------------
(* Nothing is sent to a process before it is accepted, no more of its      *)
(* requests wait than it sent, and an answer is the first thing to do.     *)
NothingEarly ==
    \A c \in Procs : conn[c] = "off" \/ Waiting(c) => toClient[c] = <<>>
RequestsSent ==
    \A c \in Procs : Len(inbox[c]) <= sent[c]
AnswerFirst ==
    \A n \in DOMAIN todo : IsSend(todo[n]) /\ todo[n].msg.type \in Answers => n = 1
Earned == NothingEarly /\ RequestsSent /\ AnswerFirst /\ AnswersEarned

(* The requests of a process that were read, and so may be answered.       *)
Unanswered(c) == sent[c] - Len(inbox[c])

(* The answers in a run of messages can be counted.                        *)
LEMMA AnswersCount ==
    ASSUME NEW s \in Seq(Message)
    PROVE  /\ IsFiniteSet({ n \in DOMAIN s : s[n].type \in Answers })
           /\ Cardinality({ n \in DOMAIN s : s[n].type \in Answers }) \in Nat
<1>1. Len(s) \in Nat /\ DOMAIN s = 1..Len(s)
    OBVIOUS
<1>2. { n \in DOMAIN s : s[n].type \in Answers } \in SUBSET (1..Len(s))
    BY <1>1
<1>3. IsFiniteSet(1..Len(s))
    BY <1>1, FS_Interval
<1>4. IsFiniteSet({ n \in DOMAIN s : s[n].type \in Answers })
    BY <1>2, <1>3, FS_Subset
<1> QED BY <1>4, FS_CardinalityType

(* So can those in a process's socket, before and after a step.            *)
LEMMA UnreadCount ==
    ASSUME TypeOK, NEW c \in Procs
    PROVE  IsFiniteSet(AnswersUnread(c)) /\ Cardinality(AnswersUnread(c)) \in Nat
<1>1. toClient[c] \in Seq(Message)
    BY DEF TypeOK
<1> QED BY <1>1, AnswersCount DEF AnswersUnread

(* The same after a step.                                                  *)
LEMMA UnreadCountNext ==
    ASSUME TypeOK', NEW c \in Procs
    PROVE  Cardinality(AnswersUnread(c)') \in Nat
<1>1. toClient'[c] \in Seq(Message)
    BY DEF TypeOK
<1> QED BY <1>1, AnswersCount DEF AnswersUnread

(* A process that reads has no more of them.                               *)
LEMMA UnreadShrink ==
    ASSUME TypeOK, TypeOK', NEW c \in Procs, Shrinks(c)
    PROVE  Cardinality(AnswersUnread(c)') <= Cardinality(AnswersUnread(c))
<1>1. toClient[c] \in Seq(Message) /\ toClient'[c] \in Seq(Message)
    BY DEF TypeOK
<1>2. /\ IsFiniteSet(AnswersUnread(c)) /\ Cardinality(AnswersUnread(c)) \in Nat
    BY UnreadCount
<1>3. CASE toClient'[c] = toClient[c]
  <2>1. AnswersUnread(c)' = AnswersUnread(c)
      BY <1>3 DEF AnswersUnread
  <2> QED BY <1>2, <2>1
<1>4. CASE toClient'[c] = <<>>
  <2>1. AnswersUnread(c)' = {}
      BY <1>4 DEF AnswersUnread
  <2>2. Cardinality(AnswersUnread(c)') = 0
      BY <2>1, FS_EmptySet
  <2> QED BY <1>2, <2>2
<1>5. CASE toClient[c] # <<>> /\ toClient'[c] = Tail(toClient[c])
  <2>1. \A n \in DOMAIN toClient'[c] :
            n \in Nat /\ n + 1 \in DOMAIN toClient[c] /\ toClient'[c][n] = toClient[c][n + 1]
      BY <1>1, <1>5, HeadAndTail
  <2>2. PICK S, T : S = AnswersUnread(c)' /\ T = AnswersUnread(c)
      OBVIOUS
  <2>3. \A n \in S : n \in Nat /\ n + 1 \in T
      BY <2>1, <2>2 DEF AnswersUnread
  <2>4. [n \in S |-> n + 1] \in Injection(S, T)
    <3>1. [n \in S |-> n + 1] \in [S -> T]
        BY <2>3
    <3>2. \A n, k \in S : n + 1 = k + 1 => n = k
        BY <2>3
    <3> QED BY <3>1, <3>2 DEF Injection, IsInjective
  <2>5. Cardinality(S) <= Cardinality(T)
      BY <1>2, <2>2, <2>4, FS_Injection
  <2> QED BY <2>2, <2>5
<1> QED BY <1>3, <1>4, <1>5 DEF Shrinks

(* One that is sent a message has one more, if it is an answer.            *)
LEMMA UnreadGrow ==
    ASSUME TypeOK, NEW c \in Procs, NEW m \in Message, toClient'[c] = Append(toClient[c], m)
    PROVE  Cardinality(AnswersUnread(c)') = Cardinality(AnswersUnread(c))
                                                + (IF m.type \in Answers THEN 1 ELSE 0)
<1>1. toClient[c] \in Seq(Message)
    BY DEF TypeOK
<1>2. /\ IsFiniteSet(AnswersUnread(c)) /\ Cardinality(AnswersUnread(c)) \in Nat
    BY UnreadCount
<1>3. PICK l \in Nat : l = Len(toClient[c])
    BY <1>1
<1>4. DOMAIN toClient[c] = 1..l
    BY <1>1, <1>3
<1>5. /\ toClient'[c] \in Seq(Message) /\ DOMAIN toClient'[c] = 1..(l + 1)
      /\ toClient'[c][l + 1] = m
      /\ \A n \in 1..l : toClient'[c][n] = toClient[c][n]
  <2>1. Append(toClient[c], m) \in Seq(Message) /\ Len(Append(toClient[c], m)) = l + 1
      BY <1>1, <1>3
  <2>2. Append(toClient[c], m)[l + 1] = m
      BY <1>1, <1>3
  <2>3. \A n \in 1..l : Append(toClient[c], m)[n] = toClient[c][n]
      BY <1>1, <1>3
  <2> QED BY <1>3, <2>1, <2>2, <2>3
<1>6. l + 1 \notin AnswersUnread(c)
    BY <1>4 DEF AnswersUnread
<1>7. CASE m.type \in Answers
  <2>1. AnswersUnread(c)' = AnswersUnread(c) \cup {l + 1}
      BY <1>4, <1>5, <1>7 DEF AnswersUnread
  <2> QED BY <1>2, <1>6, <1>7, <2>1, FS_AddElement
<1>8. CASE m.type \notin Answers
  <2>1. AnswersUnread(c)' = AnswersUnread(c)
      BY <1>4, <1>5, <1>8 DEF AnswersUnread
  <2> QED BY <1>2, <1>8, <2>1
<1> QED BY <1>7, <1>8

(* At most one answer is left to give.                                     *)
LEMMA OneAtMost ==
    ASSUME NEW S \in SUBSET {1}
    PROVE  /\ S = {} => Cardinality(S) = 0
           /\ S # {} => Cardinality(S) = 1
<1>1. S # {} => S = {1}
    OBVIOUS
<1> QED BY <1>1, FS_EmptySet, FS_Singleton

(* The answers still to be given: one at most.                             *)
LEMMA OwedCount ==
    ASSUME AnswerFirst, NEW c \in Procs
    PROVE  /\ AnswersOwed(c) = {} => Cardinality(AnswersOwed(c)) = 0
           /\ AnswersOwed(c) # {} => Cardinality(AnswersOwed(c)) = 1
<1>1. AnswersOwed(c) \in SUBSET {1}
    BY DEF AnswersOwed, AnswerFirst, IsSend
<1> QED BY <1>1, OneAtMost

(* The same after a step.                                                  *)
LEMMA OwedCountNext ==
    ASSUME AnswerFirst', NEW c \in Procs
    PROVE  /\ AnswersOwed(c)' = {} => Cardinality(AnswersOwed(c)') = 0
           /\ AnswersOwed(c)' # {} => Cardinality(AnswersOwed(c)') = 1
<1>1. AnswersOwed(c)' \in SUBSET {1}
    BY DEF AnswersOwed, AnswerFirst, IsSend
<1> QED BY <1>1, OneAtMost

(* Who can be answered after a step could before, or was waiting.          *)
Live(c) == conn[c] = "up" /\ Holds(c)
Reached(c) == conn[c] = "off" \/ Waiting(c)

(* A step that sends nothing, and gives an answer to do only for a request *)
(* it read.                                                                *)
Balanced(c) ==
    \/ AnswersOwed(c)' = {} /\ Unanswered(c)' >= Unanswered(c)
    \/ AnswersOwed(c)' = AnswersOwed(c) /\ Unanswered(c)' >= Unanswered(c)
    \/ todo = <<>> /\ Unanswered(c)' >= Unanswered(c) + 1
SilentStep ==
    \A c \in Procs :
        /\ Shrinks(c)
        /\ Reached(c)' => Reached(c)
        /\ Len(inbox'[c]) <= sent'[c]
        /\ Live(c)' => \/ Live(c) /\ Balanced(c)
                       \/ Waiting(c) /\ AnswersOwed(c)' = {}

(* Such a step leaves every answer earned.                                 *)
LEMMA SilentKeeps ==
    ASSUME TypeOK, TypeOK', Earned, SilentStep, AnswerFirst'
    PROVE  Earned'
<1>1. RequestsSent'
    BY DEF RequestsSent, SilentStep
<1>2. NothingEarly'
  <2> SUFFICES ASSUME NEW c \in Procs, Reached(c)' PROVE toClient'[c] = <<>>
      BY DEF NothingEarly, Reached
  <2>1. toClient[c] = <<>>
      BY DEF SilentStep, Reached, Earned, NothingEarly
  <2> QED BY <2>1 DEF SilentStep, Shrinks
<1>3. AnswersEarned'
  <2> SUFFICES ASSUME NEW c \in Procs, Live(c)'
               PROVE  Cardinality(AnswersUnread(c)') + Cardinality(AnswersOwed(c)')
                        <= Unanswered(c)'
      BY DEF AnswersEarned, Live, Unanswered
  <2>1. /\ Cardinality(AnswersUnread(c)) \in Nat
        /\ Cardinality(AnswersUnread(c)') <= Cardinality(AnswersUnread(c))
      BY UnreadCount, UnreadShrink DEF SilentStep
  <2>2. Cardinality(AnswersUnread(c)') \in Nat
      BY UnreadCountNext
  <2>3. Unanswered(c) \in Int /\ Unanswered(c)' \in Nat
    <3>1. inbox[c] \in Seq(Request) /\ inbox'[c] \in Seq(Request) /\ sent[c] \in Nat /\ sent'[c] \in Nat
        BY DEF TypeOK
    <3>2. Len(inbox[c]) \in Nat /\ Len(inbox'[c]) \in Nat /\ Len(inbox'[c]) <= sent'[c]
        BY <3>1 DEF SilentStep
    <3>3. PICK a \in Nat, b \in Nat, x \in Nat, y \in Nat :
              a = sent[c] /\ b = Len(inbox[c]) /\ x = sent'[c] /\ y = Len(inbox'[c])
        BY <3>1, <3>2
    <3>4. y <= x
        BY <3>2, <3>3
    <3>5. a - b \in Int /\ x - y \in Nat
        BY <3>4
    <3>6. Unanswered(c) = a - b /\ Unanswered(c)' = x - y
        BY <3>3, Zenon DEF Unanswered
    <3> QED BY <3>5, <3>6, Zenon
  <2>4. /\ AnswersOwed(c)' = {} => Cardinality(AnswersOwed(c)') = 0
        /\ Cardinality(AnswersOwed(c)') = 0 \/ Cardinality(AnswersOwed(c)') = 1
      BY OwedCountNext
  <2>5. Cardinality(AnswersOwed(c)) = 0 \/ Cardinality(AnswersOwed(c)) = 1
      BY OwedCount DEF Earned
  <2>6. CASE Live(c) /\ Balanced(c)
    <3>1. Cardinality(AnswersUnread(c)) + Cardinality(AnswersOwed(c)) <= Unanswered(c)
        BY <2>6 DEF Earned, AnswersEarned, Live, Unanswered
    <3>2. CASE AnswersOwed(c)' = {} /\ Unanswered(c)' >= Unanswered(c)
      <4>1. PICK a \in Nat, b \in Nat, o \in Nat, x \in Int, y \in Int :
                /\ a = Cardinality(AnswersUnread(c)) /\ b = Cardinality(AnswersUnread(c)')
                /\ o = Cardinality(AnswersOwed(c)) /\ x = Unanswered(c) /\ y = Unanswered(c)'
          BY <2>1, <2>2, <2>3, <2>5
      <4>2. b <= a /\ a + o <= x /\ y >= x
          BY <2>1, <3>1, <3>2, <4>1
      <4>3. b + 0 <= y
          BY <4>2
      <4>4. Cardinality(AnswersOwed(c)') = 0
          BY <2>4, <3>2
      <4> QED BY <4>1, <4>3, <4>4, Zenon
    <3>3. CASE AnswersOwed(c)' = AnswersOwed(c) /\ Unanswered(c)' >= Unanswered(c)
        BY <2>1, <2>2, <2>3, <2>5, <3>1, <3>3
    <3>4. CASE todo = <<>> /\ Unanswered(c)' >= Unanswered(c) + 1
      <4>1. AnswersOwed(c) = {}
          BY <3>4 DEF AnswersOwed
      <4>2. Cardinality(AnswersOwed(c)) = 0
          BY <4>1, OwedCount DEF Earned
      <4> QED BY <2>1, <2>2, <2>3, <2>4, <3>1, <3>4, <4>2
    <3> QED BY <2>6, <3>2, <3>3, <3>4 DEF Balanced
  <2>7. CASE Waiting(c) /\ AnswersOwed(c)' = {}
    <3>1. toClient[c] = <<>>
        BY <2>7 DEF Earned, NothingEarly
    <3>2. AnswersUnread(c)' = {}
        BY <3>1 DEF SilentStep, Shrinks, AnswersUnread
    <3>3. Cardinality(AnswersUnread(c)') = 0
        BY <3>2, FS_EmptySet
    <3> QED BY <2>3, <2>4, <2>7, <3>3
  <2> QED BY <2>6, <2>7 DEF SilentStep
<1> QED BY <1>1, <1>2, <1>3 DEF Earned

(* A message that is sent was owed; what is not sent is not read either.   *)
LEMMA TransmitKeepsEarned ==
    ASSUME Inv, Inv', Earned, Transmit
    PROVE  Earned'
<1>1. /\ todo # <<>> /\ todo' = Tail(todo) /\ Head(todo).op = "send"
      /\ UNCHANGED <<fds, backlog, inbox, sent>>
    BY DEF Transmit
<1>2. todo \in Seq(Operation)
    BY DEF Inv, TypeOK
<1>3. /\ Head(todo) = todo[1] /\ Head(todo) \in Operation /\ 1 \in DOMAIN todo
      /\ \A n \in DOMAIN todo' : n \in Nat \ {0} /\ n + 1 \in DOMAIN todo /\ todo'[n] = todo[n + 1]
    BY <1>1, <1>2, HeadAndTail
<1>4. PICK t \in Procs, m \in Message :
        /\ t = fds[todo[1].fd] /\ m = todo[1].msg /\ todo[1].op = "send" /\ todo[1].fd \in Fds
        /\ \/ toClient' = [toClient EXCEPT ![t] = Append(@, m)] /\ conn' = conn
           \/ /\ toClient' = toClient /\ conn[t] = "fin"
              /\ \E after \in {"fin", "finrst"} : conn' = [conn EXCEPT ![t] = after]
  <2>1. Head(todo).msg \in Message /\ fds[Head(todo).fd] \in Procs /\ Head(todo).fd \in Fds
      BY <1>1, <1>3 DEF Operation, Inv, TodoIsSound
  <2> QED BY <1>1, <1>3, <2>1 DEF Transmit
<1>5. conn \in [Procs -> {"off", "up", "fin", "rst", "finrst", "gone"}]
    BY DEF Inv, TypeOK
<1>6. /\ \A c \in Procs : conn'[c] = "off" => conn[c] = "off"
      /\ \A c \in Procs : conn'[c] = "up" => conn[c] = "up"
    BY <1>4, <1>5
<1>7. conn[t] # "off" /\ ~Waiting(t)
    BY <1>4 DEF Inv, CallersHaveCalled, SlotTable, QueuedOnce, Holds, Waiting
<1>8. RequestsSent'
    BY <1>1 DEF Earned, RequestsSent
<1>9. \A n \in DOMAIN todo' : IsSend(todo'[n]) => todo'[n].msg.type \notin Answers
  <2> SUFFICES ASSUME NEW n \in DOMAIN todo', IsSend(todo'[n]), todo'[n].msg.type \in Answers
               PROVE  FALSE
      OBVIOUS
  <2>1. n \in Nat \ {0} /\ n + 1 = 1
      BY <1>3 DEF Earned, AnswerFirst
  <2> QED BY <2>1
<1>10. AnswerFirst'
    BY <1>9 DEF AnswerFirst
<1>11. toClient \in [Procs -> Seq(Message)]
    BY DEF Inv, TypeOK
<1>12. NothingEarly'
  <2> SUFFICES ASSUME NEW c \in Procs, conn'[c] = "off" \/ Waiting(c)' PROVE toClient'[c] = <<>>
      BY DEF NothingEarly
  <2>1. conn[c] = "off" \/ Waiting(c)
      BY <1>1, <1>6 DEF Waiting
  <2>2. c # t /\ toClient[c] = <<>>
      BY <1>7, <2>1 DEF Earned, NothingEarly
  <2> QED BY <1>4, <1>11, <2>2
<1>13. AnswersEarned'
  <2> SUFFICES ASSUME NEW c \in Procs, conn'[c] = "up", Holds(c)'
               PROVE  Cardinality(AnswersUnread(c)') + Cardinality(AnswersOwed(c)')
                        <= sent'[c] - Len(inbox'[c])
      BY DEF AnswersEarned
  <2>1. AnswersOwed(c)' = {}
      BY <1>9 DEF AnswersOwed, IsSend
  <2>2. Cardinality(AnswersOwed(c)') = 0
      BY <2>1, FS_EmptySet
  <2>3. Cardinality(AnswersUnread(c)) + Cardinality(AnswersOwed(c)) <= Unanswered(c)
      BY <1>1, <1>6 DEF Earned, AnswersEarned, Holds, Unanswered
  <2>4. Cardinality(AnswersUnread(c)) \in Nat
      BY UnreadCount DEF Inv
  <2>5. Cardinality(AnswersOwed(c)) = 0 \/ Cardinality(AnswersOwed(c)) = 1
      BY OwedCount DEF Earned
  <2>6. Unanswered(c) \in Int
    <3>1. inbox[c] \in Seq(Request) /\ sent[c] \in Nat
        BY DEF Inv, TypeOK
    <3>2. Len(inbox[c]) \in Nat
        BY <3>1
    <3> QED BY <3>1, <3>2 DEF Unanswered
  <2>7. Cardinality(AnswersUnread(c)')
            <= Cardinality(AnswersUnread(c)) + Cardinality(AnswersOwed(c))
    <3>1. CASE toClient'[c] = toClient[c]
      <4>1. AnswersUnread(c)' = AnswersUnread(c)
          BY <3>1 DEF AnswersUnread
      <4> QED BY <2>4, <2>5, <4>1
    <3>2. CASE c = t /\ toClient'[c] = Append(toClient[c], m)
      <4>1. Cardinality(AnswersUnread(c)') = Cardinality(AnswersUnread(c))
                                                + (IF m.type \in Answers THEN 1 ELSE 0)
          BY <3>2, UnreadGrow DEF Inv
      <4>2. m.type \in Answers => AnswersOwed(c) # {}
          BY <1>3, <1>4, <3>2 DEF AnswersOwed
      <4>3. AnswersOwed(c) # {} => Cardinality(AnswersOwed(c)) = 1
          BY OwedCount DEF Earned
      <4> QED BY <2>4, <2>5, <4>1, <4>2, <4>3
    <3> QED BY <1>4, <1>11, <3>1, <3>2
  <2>8. Cardinality(AnswersUnread(c)') \in Nat
      BY UnreadCountNext DEF Inv
  <2>9. Cardinality(AnswersUnread(c)') + Cardinality(AnswersOwed(c)') <= Unanswered(c)
    <3>1. PICK a \in Nat, b \in Nat, o \in Nat, x \in Int :
              /\ a = Cardinality(AnswersUnread(c)) /\ b = Cardinality(AnswersUnread(c)')
              /\ o = Cardinality(AnswersOwed(c)) /\ x = Unanswered(c)
        BY <2>4, <2>5, <2>6, <2>8
    <3>2. a + o <= x /\ b <= a + o
        BY <2>3, <2>7, <3>1, Zenon
    <3>3. b + 0 <= x
        BY <3>2
    <3> QED BY <2>2, <3>1, <3>3, Zenon
  <2> QED BY <1>1, <2>9 DEF Unanswered
<1> QED BY <1>8, <1>10, <1>12, <1>13 DEF Earned

(* The requests that were read can be counted.                             *)
LEMMA UnansweredIsInt ==
    ASSUME TypeOK, NEW c \in Procs
    PROVE  Unanswered(c) \in Int /\ inbox[c] \in Seq(Request) /\ Len(inbox[c]) \in Nat /\ sent[c] \in Nat
<1>1. inbox[c] \in Seq(Request) /\ sent[c] \in Nat
    BY DEF TypeOK
<1>2. Len(inbox[c]) \in Nat
    BY <1>1
<1> QED BY <1>1, <1>2 DEF Unanswered

(* A step after which no answer is left to give.                           *)
NoAnswer == \A n \in DOMAIN todo' : IsSend(todo'[n]) => todo'[n].msg.type \notin Answers

(* Then nobody is owed one.                                                *)
LEMMA NoAnswerOwed ==
    ASSUME NoAnswer
    PROVE  AnswerFirst' /\ \A c \in Procs : AnswersOwed(c)' = {}
<1>1. AnswerFirst'
    BY DEF NoAnswer, AnswerFirst
<1>2. \A c \in Procs : AnswersOwed(c)' = {}
    BY DEF NoAnswer, AnswersOwed, IsSend
<1> QED BY <1>1, <1>2

(* A request that was read is owed one answer, to who sent it.             *)
LEMMA HandlerSilent ==
    ASSUME Inv, Earned, NEW i \in Slots, HandleRequest(i) \/ HandleReset(i)
    PROVE  SilentStep /\ AnswerFirst'
<1>1. /\ i \in Occupied /\ Peer(i) \in Procs /\ todo = <<>>
      /\ HandlerEffect /\ AnswersOnly(i)
    BY HandlerSays
<1>2. AnswerFirst'
    BY <1>1 DEF AnswersOnly, AnswerFirst
<1>3. UNCHANGED <<toClient, backlog, sent>>
    BY DEF HandleRequest, HandleReset
<1>4. socket[i] \in Fds /\ fds'[socket[i]] = Peer(i)
    BY <1>1, MarksAreApart DEF HandlerEffect, Peer, Inv, TypeOK, Occupied
<1>5. ASSUME NEW c \in Procs, c # Peer(i) PROVE AnswersOwed(c)' = {}
    BY <1>1, <1>4, <1>5 DEF AnswersOwed, AnswersOnly, IsSend
<1>6. \A c \in Procs : Holds(c)' => Holds(c)
    BY <1>1, MarksAreApart DEF HandlerEffect, Holds
<1>7. \A c \in Procs : Waiting(c)' => Waiting(c)
    BY <1>3 DEF Waiting
<1>8. CASE HandleRequest(i)
  <2>1. /\ conn' = conn /\ inbox[Peer(i)] # <<>>
        /\ inbox' = [inbox EXCEPT ![Peer(i)] = Tail(@)]
      BY <1>8 DEF HandleRequest
  <2>2. inbox \in [Procs -> Seq(Request)] /\ sent \in [Procs -> Nat]
      BY DEF Inv, TypeOK
  <2>3. PICK p \in Procs : p = Peer(i)
      BY <1>1
  <2>4. inbox'[p] = Tail(inbox[p]) /\ inbox[p] \in Seq(Request) /\ inbox[p] # <<>>
      BY <2>1, <2>2, <2>3
  <2>5. Len(inbox[p]) \in Nat \ {0} /\ Len(inbox'[p]) = Len(inbox[p]) - 1
      BY <2>4, HeadAndTail
  <2>6. \A c \in Procs : c # p => inbox'[c] = inbox[c]
      BY <2>1, <2>2, <2>3
  <2>7. /\ \A c \in Procs : Len(inbox'[c]) <= sent'[c]
        /\ Unanswered(p)' >= Unanswered(p) + 1
        /\ \A c \in Procs : c # p => Unanswered(c)' >= Unanswered(c)
    <3>1. PICK a \in Nat, b \in Nat \ {0} : a = sent[p] /\ b = Len(inbox[p])
        BY <2>2, <2>5
    <3>2. b <= a
        BY <3>1 DEF Earned, RequestsSent
    <3>3. Unanswered(p) = a - b /\ Unanswered(p)' = a - (b - 1) /\ Len(inbox'[p]) = b - 1 /\ sent'[p] = a
        BY <1>3, <2>5, <3>1, Zenon DEF Unanswered
    <3>4. b - 1 <= a /\ a - (b - 1) >= (a - b) + 1
        BY <3>2
    <3>5. Len(inbox'[p]) <= sent'[p] /\ Unanswered(p)' >= Unanswered(p) + 1
        BY <3>3, <3>4, Zenon
    <3>6. \A c \in Procs : c # p => Unanswered(c)' = Unanswered(c) /\ Len(inbox'[c]) <= sent'[c]
        BY <1>3, <2>6 DEF Unanswered, Earned, RequestsSent
    <3>7. \A c \in Procs : Unanswered(c) \in Int
        BY UnansweredIsInt DEF Inv
    <3>8. \A c \in Procs : c # p => Unanswered(c)' >= Unanswered(c)
      <4> SUFFICES ASSUME NEW c \in Procs, c # p PROVE Unanswered(c)' >= Unanswered(c)
          OBVIOUS
      <4>1. PICK x \in Int : x = Unanswered(c)
          BY <3>7
      <4>2. Unanswered(c)' = x /\ x >= x
          BY <3>6, <4>1
      <4> QED BY <4>1, <4>2, Zenon
    <3> QED BY <3>5, <3>6, <3>8
  <2>8. ASSUME NEW c \in Procs, Live(c)' PROVE Live(c) /\ Balanced(c)
    <3>1. Live(c)
        BY <1>6, <2>1, <2>8 DEF Live
    <3>2. CASE c = p
        BY <1>1, <2>7, <3>1, <3>2 DEF Balanced
    <3>3. CASE c # p
        BY <1>5, <2>3, <2>7, <3>1, <3>3 DEF Balanced
    <3> QED BY <3>2, <3>3
  <2>9. \A c \in Procs : Shrinks(c) /\ (Reached(c)' => Reached(c))
      BY <1>3, <1>7, <2>1 DEF Shrinks, Reached
  <2>10. SilentStep
      BY <2>7, <2>8, <2>9 DEF SilentStep
  <2> QED BY <1>2, <2>10
<1>9. CASE HandleReset(i)
  <2>1. conn' = [conn EXCEPT ![Peer(i)] = "finrst"] /\ inbox' = inbox
      BY <1>9 DEF HandleReset
  <2>2. /\ conn'[Peer(i)] = "finrst"
        /\ \A c \in Procs : conn'[c] = "up" => conn[c] = "up" /\ c # Peer(i)
        /\ \A c \in Procs : conn'[c] = "off" => conn[c] = "off"
      BY <1>1, <2>1 DEF Inv, TypeOK
  <2>3. ASSUME NEW c \in Procs, Live(c)' PROVE Live(c) /\ Balanced(c)
    <3>1. Live(c) /\ AnswersOwed(c)' = {}
        BY <1>5, <1>6, <2>2, <2>3 DEF Live
    <3>2. Unanswered(c)' = Unanswered(c) /\ Unanswered(c) \in Int
        BY <1>3, <2>1, UnansweredIsInt DEF Unanswered, Inv
    <3>3. Unanswered(c)' >= Unanswered(c)
        BY <3>2
    <3> QED BY <3>1, <3>3 DEF Balanced
  <2>4. \A c \in Procs : Shrinks(c) /\ (Reached(c)' => Reached(c))
      BY <1>3, <1>7, <2>2 DEF Shrinks, Reached
  <2>5. \A c \in Procs : Len(inbox'[c]) <= sent'[c]
      BY <1>3, <2>1 DEF Earned, RequestsSent
  <2>6. SilentStep
      BY <2>3, <2>4, <2>5 DEF SilentStep
  <2> QED BY <1>2, <2>6
<1> QED BY <1>8, <1>9

(* A close: nobody is owed anything.                                       *)
LEMMA HangUpSilent ==
    ASSUME Inv, Earned, NEW d \in Fds, fds[d] \in Procs, HangUp(d), NoAnswer,
           UNCHANGED <<toClient, backlog, sent>>
    PROVE  SilentStep /\ AnswerFirst'
<1>1. AnswerFirst' /\ \A c \in Procs : AnswersOwed(c)' = {}
    BY NoAnswerOwed
<1>2. /\ fds'[d] = Free /\ \A e \in Fds : e # d => fds'[e] = fds[e]
      /\ \A c \in Procs : c # fds[d] => inbox'[c] = inbox[c] /\ conn'[c] = conn[c]
      /\ \A c \in Procs : conn'[c] = "off" => conn[c] = "off"
    BY HangUpEffect DEF Inv, SlotTable
<1>3. inbox'[fds[d]] = <<>>
    BY DEF HangUp, Inv, TypeOK
<1>4. ASSUME NEW c \in Procs, Live(c)' PROVE Live(c) /\ c # fds[d]
  <2>1. PICK e \in Fds : fds'[e] = c
      BY <1>4 DEF Live, Holds
  <2>2. e # d /\ fds[e] = c
      BY <1>2, <2>1, MarksAreApart
  <2>3. c # fds[d]
      BY <2>2 DEF Inv, SlotTable, OneDescriptorEach
  <2> QED BY <1>2, <1>4, <2>2, <2>3 DEF Live, Holds
<1>5. ASSUME NEW c \in Procs, Live(c)' PROVE Live(c) /\ Balanced(c)
  <2>1. Unanswered(c)' = Unanswered(c) /\ Unanswered(c) \in Int
      BY <1>2, <1>4, <1>5, UnansweredIsInt DEF Unanswered, Inv
  <2>2. Unanswered(c)' >= Unanswered(c)
      BY <2>1
  <2> QED BY <1>1, <1>4, <1>5, <2>2 DEF Balanced
<1>6. ASSUME NEW c \in Procs PROVE Len(inbox'[c]) <= sent'[c]
  <2>1. CASE c = fds[d]
    <3>1. Len(inbox'[c]) = 0
        BY <1>3, <2>1
    <3>2. sent'[c] = sent[c] /\ sent[c] \in Nat
        BY DEF Inv, TypeOK
    <3> QED BY <3>1, <3>2
  <2>2. CASE c # fds[d]
      BY <1>2, <2>2 DEF Earned, RequestsSent
  <2> QED BY <2>1, <2>2
<1>7. \A c \in Procs : Shrinks(c) /\ (Reached(c)' => Reached(c))
    BY <1>2 DEF Shrinks, Reached, Waiting
<1> QED BY <1>1, <1>5, <1>6, <1>7 DEF SilentStep

(* Who is accepted was sent nothing yet.                                   *)
LEMMA AcceptSilent ==
    ASSUME Inv, Earned, Accept
    PROVE  SilentStep /\ AnswerFirst'
<1>1. NoAnswer
    BY AcceptSays DEF NoAnswer, Answers
<1>2. AnswerFirst' /\ \A c \in Procs : AnswersOwed(c)' = {}
    BY <1>1, NoAnswerOwed
<1>3. /\ backlog # <<>> /\ backlog' = Tail(backlog) /\ backlog \in Seq(Procs)
      /\ UNCHANGED <<conn, inbox, toClient, sent>>
    BY DEF Accept, Inv, Stages, TypeOK
<1>4. /\ Head(backlog) = backlog[1] /\ 1 \in DOMAIN backlog
      /\ \A n \in DOMAIN backlog' : n + 1 \in DOMAIN backlog /\ backlog'[n] = backlog[n + 1]
    BY <1>3, HeadAndTail
<1>5. \A c \in Procs : Waiting(c)' => Waiting(c)
    BY <1>4 DEF Waiting
<1>6. \A c \in Procs : Holds(c)' => Holds(c) \/ Waiting(c)
  <2>1. PICK d \in Fds : fds' = [fds EXCEPT ![d] = Head(backlog)]
      BY DEF Accept
  <2>2. fds \in [Fds -> Procs \cup {Free, File}]
      BY DEF Inv, TypeOK
  <2> QED BY <1>4, <2>1, <2>2 DEF Holds, Waiting
<1>7. ASSUME NEW c \in Procs, Live(c)'
      PROVE  (Live(c) /\ Balanced(c)) \/ (Waiting(c) /\ AnswersOwed(c)' = {})
  <2>1. Unanswered(c)' = Unanswered(c) /\ Unanswered(c) \in Int
      BY <1>3, UnansweredIsInt DEF Unanswered, Inv
  <2>2. Unanswered(c)' >= Unanswered(c)
      BY <2>1
  <2> QED BY <1>2, <1>3, <1>6, <1>7, <2>2 DEF Live, Balanced
<1>8. \A c \in Procs : Shrinks(c) /\ (Reached(c)' => Reached(c)) /\ Len(inbox'[c]) <= sent'[c]
    BY <1>3, <1>5 DEF Shrinks, Reached, Earned, RequestsSent
<1> QED BY <1>2, <1>7, <1>8 DEF SilentStep

(* A client asks, reads or ends.                                           *)
LEMMA ClientSilent ==
    ASSUME Inv, Earned, NEW c \in Procs, ClientStep(c)
    PROVE  SilentStep /\ AnswerFirst'
<1>1. UNCHANGED <<todo, fds>> /\ \A e \in Procs : Shrinks(e)
    BY ClientShrinks
<1>2. AnswerFirst'
    BY <1>1 DEF Earned, AnswerFirst
<1>3. \A e \in Procs : AnswersOwed(e)' = AnswersOwed(e) /\ (Holds(e)' <=> Holds(e))
    BY <1>1 DEF AnswersOwed, Holds
<1>4. /\ conn \in [Procs -> {"off", "up", "fin", "rst", "finrst", "gone"}]
      /\ inbox \in [Procs -> Seq(Request)] /\ sent \in [Procs -> Nat] /\ backlog \in Seq(Procs)
    BY DEF Inv, TypeOK
<1>5. CASE ClientSend(c)
  <2>1. UNCHANGED <<conn, backlog>> /\ sent' = [sent EXCEPT ![c] = @ + 1]
      BY <1>5 DEF ClientSend
  <2>2. PICK m : inbox' = [inbox EXCEPT ![c] = Append(@, m)]
      BY <1>5 DEF ClientSend
  <2>3. inbox[c] \in Seq(Request) /\ Len(inbox'[c]) = Len(inbox[c]) + 1 /\ Len(inbox[c]) \in Nat
      BY <1>4, <2>2
  <2>4. /\ Len(inbox'[c]) <= sent'[c] /\ Unanswered(c)' = Unanswered(c)
    <3>1. PICK a \in Nat, b \in Nat : a = sent[c] /\ b = Len(inbox[c])
        BY <1>4, <2>3
    <3>2. b <= a
        BY <3>1 DEF Earned, RequestsSent
    <3>3. sent'[c] = a + 1 /\ Len(inbox'[c]) = b + 1
        BY <1>4, <2>1, <2>3, <3>1
    <3>4. b + 1 <= a + 1 /\ (a + 1) - (b + 1) = a - b
        BY <3>2
    <3> QED BY <3>1, <3>3, <3>4, Zenon DEF Unanswered
  <2>5. \A e \in Procs : e # c => inbox'[e] = inbox[e] /\ sent'[e] = sent[e]
      BY <1>4, <2>1, <2>2
  <2>6. \A e \in Procs : Len(inbox'[e]) <= sent'[e] /\ Unanswered(e)' = Unanswered(e)
      BY <2>4, <2>5 DEF Earned, RequestsSent, Unanswered
  <2>7. \A e \in Procs : Unanswered(e)' >= Unanswered(e)
    <3> SUFFICES ASSUME NEW e \in Procs PROVE Unanswered(e)' >= Unanswered(e)
        OBVIOUS
    <3>1. PICK x \in Int : x = Unanswered(e)
        BY UnansweredIsInt DEF Inv
    <3>2. Unanswered(e)' = x /\ x >= x
        BY <2>6, <3>1
    <3> QED BY <3>1, <3>2, Zenon
  <2>8. \A e \in Procs : (Live(e)' => Live(e) /\ Balanced(e)) /\ (Reached(e)' => Reached(e))
      BY <1>3, <2>1, <2>7 DEF Live, Balanced, Reached, Waiting
  <2>9. SilentStep
      BY <1>1, <2>6, <2>8 DEF SilentStep
  <2> QED BY <1>2, <2>9
<1>6. CASE ClientConnect(c) \/ ClientRecv(c) \/ ClientEof(c) \/ ClientExit(c)
  <2>1. UNCHANGED <<inbox, sent>>
      BY <1>6 DEF ClientConnect, ClientRecv, ClientEof, ClientExit
  <2>2. \A e \in Procs : Holds(e) => conn[e] # "off"
      BY DEF Inv, CallersHaveCalled, Holds
  <2>3. /\ \A e \in Procs : conn'[e] = "up" /\ Holds(e) => conn[e] = "up"
        /\ \A e \in Procs : conn'[e] = "off" => conn[e] = "off"
        /\ \A e \in Procs : Waiting(e)' => Waiting(e) \/ conn[e] = "off"
    <3>1. CASE ClientConnect(c)
      <4>1. conn[c] = "off" /\ conn' = [conn EXCEPT ![c] = "up"] /\ backlog' = Append(backlog, c)
          BY <3>1 DEF ClientConnect
      <4>2. \A n \in DOMAIN backlog' :
                (n \in DOMAIN backlog /\ backlog'[n] = backlog[n]) \/ backlog'[n] = c
          BY <1>4, <4>1, Appended
      <4> QED BY <1>4, <2>2, <4>1, <4>2 DEF Waiting
    <3>2. CASE ClientRecv(c) \/ ClientEof(c) \/ ClientExit(c)
      <4>1. backlog' = backlog /\ conn[c] = "up"
          BY <3>2 DEF ClientRecv, ClientEof, ClientExit, Attends
      <4>2. conn' = conn \/ \E how \in {"gone", "fin", "rst"} : conn' = [conn EXCEPT ![c] = how]
          BY <3>2 DEF ClientRecv, ClientEof, ClientExit, Leave
      <4> QED BY <1>4, <4>1, <4>2 DEF Waiting
    <3> QED BY <1>6, <3>1, <3>2
  <2>4. \A e \in Procs : Unanswered(e)' >= Unanswered(e)
    <3>1. \A e \in Procs : Unanswered(e)' = Unanswered(e) /\ Unanswered(e) \in Int
        BY <2>1, UnansweredIsInt DEF Unanswered, Inv
    <3> QED BY <3>1
  <2>5. \A e \in Procs : (Live(e)' => Live(e) /\ Balanced(e)) /\ (Reached(e)' => Reached(e))
      BY <1>3, <2>3, <2>4 DEF Live, Balanced, Reached
  <2>6. SilentStep
      BY <1>1, <2>1, <2>5 DEF SilentStep, Earned, RequestsSent
  <2> QED BY <1>2, <2>6
<1> QED BY <1>5, <1>6 DEF ClientStep

(* No step sends, or leaves to be sent, an answer nobody asked for.        *)
LEMMA StepKeepsEarned == Inv /\ Earned /\ [Next]_vars => Earned'
<1> SUFFICES ASSUME Inv, Earned, [Next]_vars PROVE Earned'
    OBVIOUS
<1>0. Inv' /\ TypeOK /\ TypeOK'
    BY StepKeepsInv DEF Inv
<1>1. CASE Transmit
    BY <1>0, <1>1, TransmitKeepsEarned
<1>2. ASSUME SilentStep, AnswerFirst' PROVE Earned'
    BY <1>0, <1>2, SilentKeeps
<1>3. CASE \E i \in Slots : HandleRequest(i) \/ HandleReset(i)
    BY <1>2, <1>3, HandlerSilent
<1>4. CASE \E i \in Slots : HandleDisconnect(i)
  <2>1. PICK i \in Slots : HandleDisconnect(i)
      BY <1>4
  <2>2. i \in Occupied /\ Peer(i) \in Procs /\ NoAnswer
      BY <2>1, DisconnectSays DEF NoAnswer
  <2>3. HangUp(socket[i]) /\ UNCHANGED <<toClient, backlog, sent>>
      BY <2>1 DEF HandleDisconnect
  <2>4. socket[i] \in Fds /\ fds[socket[i]] \in Procs
      BY <1>0, <2>2 DEF TypeOK, Occupied, Peer
  <2> QED BY <1>2, <2>2, <2>3, <2>4, HangUpSilent
<1>5. CASE CloseRefused \/ DropSlot
  <2>1. NoAnswer
      BY <1>5, CloseIsLast DEF NoAnswer
  <2>2. todo # <<>> /\ todo \in Seq(Operation) /\ UNCHANGED <<toClient, backlog, sent>>
      BY <1>0, <1>5 DEF CloseRefused, DropSlot, TypeOK
  <2>3. Head(todo) = todo[1] /\ Head(todo) \in Operation /\ 1 \in DOMAIN todo
      BY <2>2, HeadAndTail
  <2>4. PICK d \in Fds : fds[d] \in Procs /\ HangUp(d)
    <3>1. CASE CloseRefused
      <4>1. Head(todo).op = "close" /\ HangUp(Head(todo).fd)
          BY <3>1 DEF CloseRefused
      <4>2. Head(todo).fd \in Fds /\ fds[Head(todo).fd] \in Procs
          BY <2>3, <4>1 DEF Operation, Inv, TodoIsSound
      <4> QED BY <4>1, <4>2
    <3>2. CASE DropSlot
      <4>1. Head(todo).op = "drop" /\ HangUp(socket[Head(todo).slot])
          BY <3>2 DEF DropSlot
      <4>2. Head(todo).slot \in Occupied
          BY <2>3, <4>1 DEF Operation, Inv, TodoIsSound, Occupied
      <4>3. socket[Head(todo).slot] \in Fds /\ fds[socket[Head(todo).slot]] \in Procs
          BY <1>0, <4>2 DEF TypeOK, Occupied, Inv, SlotTable, SlotsHoldConnections, Peer
      <4> QED BY <4>1, <4>3
    <3> QED BY <1>5, <3>1, <3>2
  <2> QED BY <1>2, <2>1, <2>2, <2>4, HangUpSilent
<1>6. CASE Accept
    BY <1>2, <1>6, AcceptSilent
<1>7. CASE \E c \in Procs : ClientStep(c)
    BY <1>2, <1>7, ClientSilent
<1>8. CASE Quit \/ Select \/ AcceptFails \/ EndPass \/ SendFails \/ UNCHANGED vars
  <2>1. UNCHANGED <<todo, fds, backlog, conn, inbox, toClient, sent>>
      BY <1>8 DEF Quit, Select, AcceptFails, EndPass, SendFails, vars, server, network
  <2> QED BY <2>1 DEF Earned, NothingEarly, RequestsSent, AnswerFirst, AnswersEarned, Waiting,
          Holds, AnswersUnread, AnswersOwed, IsSend
<1> QED BY <1>1, <1>3, <1>4, <1>5, <1>6, <1>7, <1>8 DEF Next, ServerStep

(* A live process is never owed or sent more answers than requests of its  *)
(* own were read: handle_client_message answers the slot it read from, and *)
(* that slot is not given to another process before the answer is out.     *)
THEOREM AnswersEarnedHolds == Spec => []AnswersEarned
<1>1. Init => Earned
  <2> SUFFICES ASSUME Init PROVE Earned
      OBVIOUS
  <2>1. NothingEarly /\ RequestsSent /\ AnswerFirst
      BY DEF Init, NothingEarly, RequestsSent, AnswerFirst
  <2>2. \A c \in Procs : conn[c] # "up"
      BY DEF Init
  <2> QED BY <2>1, <2>2 DEF Earned, AnswersEarned
<1>2. Earned => AnswersEarned
    BY DEF Earned
<1> QED BY <1>1, <1>2, StepKeepsEarned, InvHolds, PTL DEF Spec

-----------------------------------------------------------------------------
(*                     Group messages follow the logins                    *)
-----------------------------------------------------------------------------
(* The order of the sends of a broadcast is transitive and strict.         *)
Places == Nat \X Nat \X Nat
LEMMA BeforeIsStrict ==
    ASSUME NEW r \in Places, NEW s \in Places, NEW t \in Places
    PROVE  ~Before(r, r) /\ (Before(r, s) /\ Before(s, t) => Before(r, t))
BY DEF Before, Places

(* So no place comes twice ...                                             *)
LEMMA InOrderOnce ==
    ASSUME NEW k \in Nat, NEW r \in [1..k -> Places],
           \A n \in 1..k : n + 1 \in 1..k => Before(r[n], r[n + 1])
    PROVE  \A a, b \in 1..k : r[a] = r[b] => a = b
<1>1. ASSUME NEW a \in 1..k, NEW d \in Nat \ {0}, a + d \in 1..k
      PROVE  Before(r[a], r[a + d])
  <2> DEFINE Bad == { e \in Nat : e # 0 /\ a + e \in 1..k /\ ~Before(r[a], r[a + e]) }
  <2> SUFFICES ASSUME Bad # {} PROVE FALSE
      BY <1>1
  <2>1. PICK e \in Bad : \A l \in Bad : e <= l
    <3>1. Bad \in SUBSET Nat
        OBVIOUS
    <3> HIDE DEF Bad
    <3> QED BY <3>1, LeastNumber
  <2>2. CASE e = 1
      BY <2>1, <2>2
  <2>3. CASE e # 1
    <3>1. /\ e \in Nat /\ e - 1 \in Nat /\ e - 1 # 0 /\ a + (e - 1) \in 1..k
          /\ (a + (e - 1)) + 1 = a + e /\ a + e \in 1..k /\ ~(e <= e - 1)
        BY <2>1, <2>3
    <3>2. Before(r[a], r[a + (e - 1)])
        BY <2>1, <3>1
    <3>3. Before(r[a + (e - 1)], r[a + e])
        BY <3>1
    <3>4. r[a] \in Places /\ r[a + (e - 1)] \in Places /\ r[a + e] \in Places
        BY <3>1
    <3>5. Before(r[a], r[a + e])
        BY <3>2, <3>3, <3>4, BeforeIsStrict
    <3> QED BY <2>1, <3>5
  <2> QED BY <2>2, <2>3
<1>2. ASSUME NEW a \in 1..k, NEW b \in 1..k, r[a] = r[b], a < b PROVE FALSE
  <2>1. b - a \in Nat \ {0} /\ a + (b - a) = b
      BY <1>2
  <2>2. Before(r[a], r[b])
      BY <1>1, <2>1
  <2>3. r[a] \in Places
      OBVIOUS
  <2> QED BY <1>2, <2>2, <2>3, BeforeIsStrict
<1>3. \A a, b \in 1..k : a = b \/ a < b \/ b < a
    OBVIOUS
<1> QED BY <1>2, <1>3

(* ... and every one does.                                                 *)
LEMMA InOrderAll ==
    ASSUME NEW S \in SUBSET Places, IsFiniteSet(S), NEW r \in InOrder(S)
    PROVE  /\ \A n \in DOMAIN r : r[n] \in S
           /\ \A s \in S : \E n \in DOMAIN r : r[n] = s
<1>1. PICK k \in Nat : k = Cardinality(S) /\ r \in [1..k -> S]
    BY DEF InOrder
<1>2. \A n \in 1..k : n + 1 \in 1..k => Before(r[n], r[n + 1])
    BY <1>1 DEF InOrder
<1>3. r \in [1..k -> Places]
    BY <1>1
<1>4. \A a, b \in 1..k : r[a] = r[b] => a = b
    BY <1>2, <1>3, InOrderOnce
<1>5. r \in Injection(1..k, S)
    BY <1>1, <1>4 DEF Injection, IsInjective
<1>6. Cardinality(1..k) = k
    BY FS_Interval
<1>7. r \in Surjection(1..k, S)
    BY <1>1, <1>5, <1>6, FS_Injection
<1> QED BY <1>1, <1>7 DEF Surjection

(* The recipients of a group message can be counted.                       *)
LEMMA RecipientsCount ==
    ASSUME TypeOK, NEW i \in Slots, NEW g
    PROVE  Recipients(i, g) \in SUBSET Places /\ IsFiniteSet(Recipients(i, g))
<1> DEFINE Listed(k) == {k} \X (DOMAIN groups[k].members) \X (Occupied \ {i})
           All == { Listed(k) : k \in LinesOf(g) }
<1>1. groups \in Seq(Lines) /\ Len(groups) \in Nat /\ DOMAIN groups = 1..Len(groups)
    BY DEF TypeOK
<1>2. \A k \in DOMAIN groups : groups[k].members \in Seq(Names)
  <2>1. \A k \in DOMAIN groups : groups[k] \in Lines
      BY <1>1
  <2> QED BY <2>1 DEF Lines
<1>3. IsFiniteSet(Occupied \ {i}) /\ Occupied \ {i} \subseteq Nat
  <2>1. Occupied \ {i} \in SUBSET Slots /\ Slots \subseteq Nat
      BY DEF Occupied, Slots
  <2>2. IsFiniteSet(Slots)
      BY BoundsAreNaturals, FS_Interval DEF Slots
  <2> QED BY <2>1, <2>2, FS_Subset
<1>4. ASSUME NEW k \in LinesOf(g)
      PROVE  IsFiniteSet(Listed(k)) /\ Listed(k) \subseteq Places
  <2>1. k \in Nat /\ k \in DOMAIN groups
      BY <1>1 DEF LinesOf
  <2>2. PICK l \in Nat : DOMAIN groups[k].members = 1..l
      BY <1>2, <2>1
  <2>3. IsFiniteSet((1..l) \X (Occupied \ {i}))
    <3>1. IsFiniteSet(1..l)
        BY <2>2, FS_Interval
    <3> QED BY <1>3, <3>1, FS_Product
  <2>4. [t \in Listed(k) |-> <<t[2], t[3]>>] \in Injection(Listed(k), (1..l) \X (Occupied \ {i}))
    <3>1. \A t \in Listed(k) : t = <<k, t[2], t[3]>> /\ t[2] \in 1..l /\ t[3] \in Occupied \ {i}
        BY <2>2
    <3> HIDE DEF Listed
    <3>2. \A t, u \in Listed(k) : <<t[2], t[3]>> = <<u[2], u[3]>> => t = u
        BY <3>1
    <3>3. \A t \in Listed(k) : <<t[2], t[3]>> \in (1..l) \X (Occupied \ {i})
        BY <3>1
    <3> QED BY <3>2, <3>3 DEF Injection, IsInjective
  <2>5. IsFiniteSet(Listed(k))
    <3> HIDE DEF Listed
    <3> QED BY <2>3, <2>4, FS_Injection
  <2>6. Listed(k) \subseteq Places
      BY <1>3, <2>1, <2>2 DEF Places
  <2> QED BY <2>5, <2>6
<1>5. IsFiniteSet(LinesOf(g))
  <2>1. LinesOf(g) \subseteq DOMAIN groups
      BY DEF LinesOf
  <2>2. PICK l \in Nat : DOMAIN groups = 1..l
      BY <1>1
  <2>3. IsFiniteSet(1..l)
      BY FS_Interval
  <2> QED BY <2>1, <2>2, <2>3, FS_Subset
<1> HIDE DEF Listed
<1>6. IsFiniteSet(All)
  <2>1. [k \in LinesOf(g) |-> Listed(k)] \in Surjection(LinesOf(g), All)
    <3> DEFINE f == [k \in LinesOf(g) |-> Listed(k)]
    <3>1. \A k \in LinesOf(g) : f[k] = Listed(k)
        OBVIOUS
    <3>2. f \in [LinesOf(g) -> All]
        OBVIOUS
    <3>3. \A s \in All : \E k \in LinesOf(g) : f[k] = s
      <4>1. \A s \in All : \E k \in LinesOf(g) : Listed(k) = s
          OBVIOUS
      <4> HIDE DEF f, All
      <4> QED BY <3>1, <4>1
    <3> HIDE DEF f, All
    <3>4. f \in Surjection(LinesOf(g), All)
        BY <3>2, <3>3 DEF Surjection
    <3> QED BY <3>4 DEF f
  <2> QED BY <1>5, <2>1, FS_Surjection
<1>7. IsFiniteSet(UNION All)
    BY <1>4, <1>6, FS_UNION
<1>8. Recipients(i, g) \in SUBSET (UNION All)
    BY DEF Recipients, Listed
<1>9. UNION All \subseteq Places
    BY <1>4
<1> HIDE DEF All
<1> QED BY <1>7, <1>8, <1>9, FS_Subset

(* Only HandleRequest takes a request out of an inbox whose slot is due.   *)
LEMMA ReadByHandler ==
    ASSUME Inv, [Next]_vars, NEW i \in Slots, NEW type, Reads(i, type)
    PROVE  HandleRequest(i)
<1>1. /\ pc = "scan" /\ todo = <<>> /\ i \in Occupied /\ Peer(i) \in Procs
      /\ inbox[Peer(i)] # <<>> /\ inbox'[Peer(i)] = Tail(inbox[Peer(i)])
    BY DEF Reads, NextDue, IsLowest, Due, Occupied, Inv, SlotTable, SlotsHoldConnections
<1>2. inbox \in [Procs -> Seq(Request)] /\ inbox[Peer(i)] \in Seq(Request)
    BY <1>1 DEF Inv, TypeOK
<1>3. inbox'[Peer(i)] # inbox[Peer(i)]
  <2>1. Len(Tail(inbox[Peer(i)])) # Len(inbox[Peer(i)])
      BY <1>1, <1>2, HeadAndTail
  <2> QED BY <1>1, <2>1
<1>4. \A j \in Slots : NextDue(j) => j = i
  <2>1. \A j \in Slots : NextDue(j) => i <= j /\ j <= i
      BY DEF Reads, NextDue, IsLowest
  <2> QED BY <2>1 DEF Slots
<1>5. ASSUME NEW j \in Slots, HandleRequest(j) PROVE HandleRequest(i)
    BY <1>4, <1>5 DEF HandleRequest
<1>6. ASSUME NEW j \in Slots, HandleReset(j) \/ HandleDisconnect(j) PROVE FALSE
    BY <1>1, <1>4, <1>6 DEF HandleReset, HandleDisconnect
<1>7. CASE Quit \/ Select \/ Accept \/ AcceptFails \/ EndPass \/ UNCHANGED vars
    BY <1>3, <1>7 DEF Quit, Select, Accept, AcceptFails, EndPass, vars, network
<1>8. CASE Transmit \/ SendFails \/ CloseRefused \/ DropSlot
    BY <1>1, <1>8 DEF Transmit, SendFails, CloseRefused, DropSlot
<1>9. ASSUME NEW c \in Procs, ClientStep(c) PROVE FALSE
  <2>1. CASE ClientConnect(c) \/ ClientRecv(c) \/ ClientEof(c) \/ ClientExit(c)
      BY <1>3, <2>1 DEF ClientConnect, ClientRecv, ClientEof, ClientExit
  <2>2. CASE ClientSend(c)
    <3>1. PICK m \in Logins \cup Commands : inbox' = [inbox EXCEPT ![c] = Append(@, m)]
        BY <2>2 DEF ClientSend
    <3>2. m \in Request
        BY RequestsAreTyped DEF Request
    <3>3. inbox'[Peer(i)] = Append(inbox[Peer(i)], m)
        BY <1>1, <1>2, <1>3, <3>1
    <3>4. Len(Append(inbox[Peer(i)], m)) = Len(inbox[Peer(i)]) + 1
        BY <1>2, <3>2, Appended
    <3>5. Len(Tail(inbox[Peer(i)])) = Len(inbox[Peer(i)]) - 1 /\ Len(inbox[Peer(i)]) \in Nat
        BY <1>1, <1>2, HeadAndTail
    <3>6. PICK l \in Nat : l = Len(inbox[Peer(i)])
        BY <3>5
    <3>7. Tail(inbox[Peer(i)]) = Append(inbox[Peer(i)], m)
        BY <1>1, <3>3
    <3>8. l + 1 = l - 1
        BY <3>4, <3>5, <3>6, <3>7, Zenon
    <3> QED BY <3>8
  <2>3. \/ ClientConnect(c) \/ ClientRecv(c) \/ ClientEof(c) \/ ClientExit(c)
        \/ ClientSend(c)
      BY <1>9 DEF ClientStep
  <2> QED BY <2>1, <2>2, <2>3
<1> QED BY <1>5, <1>6, <1>7, <1>8, <1>9 DEF Next, ServerStep

(* The names of the slots follow the logins of the processes in them: who  *)
(* was not accepted has not logged in; who has logged in last did it with  *)
(* the name its slot holds, unless its slot is about to be emptied.        *)
DropLeft(j) == \E n \in DOMAIN todo : todo[n] = Drop(j)
NotBeforeAccept == \A c \in Procs : Reached(c) => session[c] = NoName
NamesFollow ==
    \A j \in Occupied :
        session[Peer(j)] = NoName \/ username[j] = session[Peer(j)] \/ DropLeft(j)

(* A step that stores no name and gives nobody a slot.                     *)
LEMMA NamesStay ==
    ASSUME NotBeforeAccept, NamesFollow, UNCHANGED <<username, session>>,
           \A c \in Procs : Reached(c)' => Reached(c),
           \A j \in Occupied' :
                j \in Occupied /\ Peer(j)' = Peer(j) /\ (DropLeft(j) => DropLeft(j)')
    PROVE  NotBeforeAccept' /\ NamesFollow'
BY DEF NotBeforeAccept, NamesFollow

(* A request handler: login stores the name and counts it as the session's *)
(* if the password is right, and has the slot dropped if it is not.        *)
LEMMA HandlerNames ==
    ASSUME Inv, NotBeforeAccept, NamesFollow, NEW i \in Slots,
           HandleRequest(i) \/ HandleReset(i),
           \A c \in Procs : Reached(c)' => Reached(c)
    PROVE  NotBeforeAccept' /\ NamesFollow'
<1>1. /\ i \in Occupied /\ Peer(i) \in Procs /\ todo = <<>> /\ HandlerEffect
    BY HandlerSays
<1>2. /\ socket' = socket /\ Occupied' = Occupied
      /\ \A j \in Occupied : Peer(j)' = Peer(j) /\ Peer(j) \in Procs
      /\ \A j \in Occupied : Peer(j) = Peer(i) => j = i
  <2>1. socket' = socket
      BY DEF HandleRequest, HandleReset
  <2>2. \A j \in Occupied : socket[j] \in Fds /\ fds[socket[j]] \in Procs
      BY DEF Occupied, Inv, TypeOK, SlotTable, SlotsHoldConnections, Peer
  <2>3. \A j \in Occupied : Peer(j)' = Peer(j)
      BY <1>1, <2>1, <2>2, MarksAreApart DEF HandlerEffect, Peer
  <2>4. \A j \in Occupied : Peer(j) = Peer(i) => j = i
      BY <1>1, <2>2 DEF Peer, Inv, SlotTable, OneDescriptorEach, SlotsHoldConnections
  <2> QED BY <2>1, <2>2, <2>3, <2>4 DEF Occupied, Peer
<1>3. ~Reached(Peer(i))
  <2>1. socket[i] \in Fds /\ fds[socket[i]] = Peer(i)
      BY <1>1 DEF Occupied, Inv, TypeOK, Peer
  <2> QED BY <1>1, <2>1 DEF Reached, Waiting, Holds, Inv, SlotTable, QueuedOnce, CallersHaveCalled
<1>4. \A j : ~DropLeft(j)
    BY <1>1 DEF DropLeft
<1>5. PICK m : Dispatch(i, m)
    BY DEF HandleRequest, HandleReset
<1>6. CASE UNCHANGED <<username, session>>
    BY <1>2, <1>4, <1>6, NamesStay
<1>7. CASE Login(i, m) /\ ~(UNCHANGED <<username, session>>)
  <2>1. PICK ok \in BOOLEAN :
            /\ ok = (<<m.user, m.pass>> \in Accounts)
            /\ username' = [username EXCEPT ![i] = m.user]
            /\ session' = [session EXCEPT ![Peer(i)] = IF ok THEN m.user ELSE @]
            /\ todo' = ConnectMessage(i, m.user, ok) \o (IF ok THEN <<>> ELSE <<Drop(i)>>)
    <3>1. ~Stop("exit") /\ ~Stop("fault")
        BY <1>7 DEF Stop
    <3> DEFINE k == <<m.user, m.pass>> \in Accounts
    <3>2. /\ username' = [username EXCEPT ![i] = m.user]
          /\ session' = [session EXCEPT ![Peer(i)] = IF k THEN m.user ELSE @]
          /\ todo' = ConnectMessage(i, m.user, k) \o (IF k THEN <<>> ELSE <<Drop(i)>>)
        BY <1>7, <3>1 DEF Login, StoreName
    <3>3. k \in BOOLEAN
        OBVIOUS
    <3> HIDE DEF k
    <3>4. k = (<<m.user, m.pass>> \in Accounts)
        BY DEF k
    <3> QED BY <3>2, <3>3, <3>4, Zenon
  <2>2. username \in [Slots -> Names] /\ session \in [Procs -> Names]
      BY DEF Inv, TypeOK
  <2>3. /\ \A j \in Slots : j # i => username'[j] = username[j]
        /\ \A c \in Procs : c # Peer(i) => session'[c] = session[c]
        /\ username'[i] = m.user
        /\ ok => session'[Peer(i)] = m.user
        /\ ~ok => session'[Peer(i)] = session[Peer(i)]
      BY <1>1, <2>1, <2>2
  <2>4. NotBeforeAccept'
      BY <1>3, <2>3 DEF NotBeforeAccept
  <2>5. ~ok => DropLeft(i)'
    <3> SUFFICES ASSUME ~ok PROVE DropLeft(i)'
        OBVIOUS
    <3>1. PICK s : todo' = <<s>> \o <<Drop(i)>>
        BY <2>1 DEF ConnectMessage, Reply
    <3>2. todo' = <<s, Drop(i)>>
      <4>1. PICK S : s \in S /\ Drop(i) \in S
        <5>1. s \in {s, Drop(i)} /\ Drop(i) \in {s, Drop(i)}
            OBVIOUS
        <5> QED BY <5>1
      <4> QED BY <3>1, <4>1, OneAndOne
    <3>3. 2 \in DOMAIN todo' /\ todo'[2] = Drop(i)
        BY <3>2
    <3> QED BY <3>3 DEF DropLeft
  <2>6. ASSUME NEW j \in Occupied'
        PROVE  session'[Peer(j)'] = NoName \/ username'[j] = session'[Peer(j)'] \/ DropLeft(j)'
    <3>1. j \in Occupied /\ Peer(j)' = Peer(j) /\ Peer(j) \in Procs /\ j \in Slots
        BY <1>2 DEF Occupied
    <3>2. CASE j = i
        BY <2>3, <2>5, <3>1, <3>2
    <3>3. CASE j # i
      <4>1. session[Peer(j)] = NoName \/ username[j] = session[Peer(j)]
          BY <1>4, <3>1 DEF NamesFollow
      <4>2. session'[Peer(j)] = session[Peer(j)] /\ username'[j] = username[j]
          BY <1>2, <2>3, <3>1, <3>3
      <4> QED BY <3>1, <4>1, <4>2
    <3> QED BY <3>2, <3>3
  <2>7. NamesFollow'
      BY <2>6 DEF NamesFollow
  <2> QED BY <2>4, <2>7
<1>8. UNCHANGED <<username, session>> \/ Login(i, m)
  <2>1. CASE SendUserList(i)
      BY <2>1 DEF SendUserList
  <2>2. CASE SendPrivateMessage(i, m)
      BY <2>2, Zenon DEF SendPrivateMessage
  <2>3. CASE SendPublicMessage(i, m)
      BY <2>3, Zenon DEF SendPublicMessage, Stop
  <2>4. CASE CreateGroup(i, m)
      BY <2>4, Zenon DEF CreateGroup, Stop
  <2>5. CASE JoinGroup(i, m)
      BY <2>5, Zenon DEF JoinGroup, Stop
  <2>6. CASE Ignore
      BY <2>6 DEF Ignore
  <2> QED BY <1>5, <2>1, <2>2, <2>3, <2>4, <2>5, <2>6, Zenon DEF Dispatch
<1> QED BY <1>6, <1>7, <1>8

(* A close keeps the names of the slots that stay.                         *)
LEMMA HangUpNames ==
    ASSUME Inv, NotBeforeAccept, NamesFollow, UNCHANGED <<username, session>>,
           \A c \in Procs : Reached(c)' => Reached(c),
           NEW d \in Fds, fds[d] \in Procs, HangUp(d),
           Occupied' \subseteq Occupied,
           \A j \in Occupied' : socket'[j] = socket[j] /\ socket[j] # d /\ ~DropLeft(j)
    PROVE  NotBeforeAccept' /\ NamesFollow'
<1>1. \A e \in Fds : e # d => fds'[e] = fds[e]
    BY HangUpEffect DEF Inv, SlotTable
<1>2. \A j \in Occupied' : j \in Occupied /\ Peer(j)' = Peer(j)
    BY <1>1 DEF Peer, Inv, TypeOK, Occupied
<1> QED BY <1>2, NamesStay

(* A process that gets a slot has not logged in.                           *)
LEMMA AcceptNames ==
    ASSUME Inv, NotBeforeAccept, NamesFollow, Accept,
           \A c \in Procs : Reached(c)' => Reached(c)
    PROVE  NotBeforeAccept' /\ NamesFollow'
<1>1. PICK d \in Fds :
        /\ d \in FreeFds /\ fds' = [fds EXCEPT ![d] = Head(backlog)]
        /\ \/ \E i \in Slots : i \notin Occupied /\ socket' = [socket EXCEPT ![i] = d]
           \/ UNCHANGED socket
    BY Zenon DEF Accept, IsLowest
<1>2. /\ todo = <<>> /\ backlog # <<>> /\ UNCHANGED <<username, session>>
      /\ backlog \in Seq(Procs)
    BY DEF Accept, Inv, Stages, TypeOK
<1>3. Head(backlog) = backlog[1] /\ 1 \in DOMAIN backlog
    BY <1>2, HeadAndTail
<1>4. session[Head(backlog)] = NoName
  <2>1. Head(backlog) \in Procs /\ Waiting(Head(backlog))
      BY <1>2, <1>3 DEF Waiting
  <2> QED BY <2>1 DEF NotBeforeAccept, Reached
<1>5. /\ socket \in [Slots -> Fds \cup {0}] /\ fds \in [Fds -> Procs \cup {Free, File}]
      /\ \A j \in Occupied : socket[j] \in Fds /\ fds[socket[j]] \in Procs
    BY DEF Inv, TypeOK, SlotTable, SlotsHoldConnections, Occupied, Peer
<1>6. \A j \in Occupied : socket[j] # d
    BY <1>1, <1>5, MarksAreApart DEF FreeFds
<1>7. \A j : ~DropLeft(j)
    BY <1>2 DEF DropLeft
<1>8. ASSUME NEW j \in Occupied'
      PROVE  \/ j \in Occupied /\ Peer(j)' = Peer(j)
             \/ Peer(j)' = Head(backlog)
  <2>1. j \in Slots /\ socket'[j] # 0
      BY DEF Occupied
  <2>2. CASE socket'[j] = socket[j]
    <3>1. j \in Occupied
        BY <2>1, <2>2 DEF Occupied
    <3> QED BY <1>1, <1>5, <1>6, <2>2, <3>1 DEF Peer
  <2>3. CASE socket'[j] = d
      BY <1>1, <1>5, <2>3 DEF Peer
  <2> QED BY <1>1, <1>5, <2>1, <2>2, <2>3
<1> QED BY <1>2, <1>4, <1>7, <1>8 DEF NotBeforeAccept, NamesFollow

(* Every step.                                                             *)
LEMMA StepKeepsNames ==
    Inv /\ Earned /\ NotBeforeAccept /\ NamesFollow /\ [Next]_vars
        => NotBeforeAccept' /\ NamesFollow'
<1> SUFFICES ASSUME Inv, Earned, NotBeforeAccept, NamesFollow, [Next]_vars
             PROVE  NotBeforeAccept' /\ NamesFollow'
    OBVIOUS
<1>1. CASE Transmit
  <2>1. UNCHANGED <<socket, fds, username, session, backlog>> /\ todo' = Tail(todo) /\ todo # <<>>
      BY <1>1 DEF Transmit
  <2>2. \A c \in Procs : conn'[c] = "off" => conn[c] = "off"
      BY <1>1, Zenon DEF Transmit, Inv, TypeOK, TakesSend
  <2>3. \A c \in Procs : Reached(c)' => Reached(c)
      BY <2>1, <2>2 DEF Reached, Waiting
  <2>4. todo \in Seq(Operation) /\ Head(todo).op = "send"
      BY <1>1 DEF Transmit, Inv, TypeOK
  <2>5. \A j : DropLeft(j) => DropLeft(j)'
    <3> SUFFICES ASSUME NEW j, NEW n \in DOMAIN todo, todo[n] = Drop(j) PROVE DropLeft(j)'
        BY DEF DropLeft
    <3>1. n # 1
        BY <2>1, <2>4, HeadAndTail DEF Drop
    <3>2. n \in 1..Len(todo) /\ Len(todo) \in Nat
        BY <2>4
    <3>3. n - 1 \in DOMAIN todo' /\ todo'[n - 1] = todo[n]
        BY <2>1, <2>4, <3>1, <3>2, HeadAndTail
    <3> QED BY <3>3 DEF DropLeft
  <2>6. Occupied' = Occupied /\ \A j \in Occupied : Peer(j)' = Peer(j)
      BY <2>1 DEF Occupied, Peer
  <2> QED BY <2>1, <2>3, <2>5, <2>6, NamesStay
<1>2. CASE \E i \in Slots : HandleRequest(i) \/ HandleReset(i)
    BY <1>2, HandlerSilent, HandlerNames DEF SilentStep
<1>3. CASE \E i \in Slots : HandleDisconnect(i)
  <2>1. PICK i \in Slots : HandleDisconnect(i)
      BY <1>3
  <2>2. i \in Occupied /\ Peer(i) \in Procs /\ NoAnswer /\ todo = <<>>
      BY <2>1, DisconnectSays DEF NoAnswer
  <2>3. /\ HangUp(socket[i]) /\ UNCHANGED <<toClient, backlog, sent, username, session>>
        /\ socket' = [socket EXCEPT ![i] = 0]
      BY <2>1 DEF HandleDisconnect
  <2>4. socket[i] \in Fds /\ fds[socket[i]] \in Procs
      BY <2>2 DEF Inv, TypeOK, Occupied, Peer
  <2>5. \A c \in Procs : Reached(c)' => Reached(c)
      BY <2>2, <2>3, <2>4, HangUpSilent DEF SilentStep
  <2>6. \A j \in Occupied' : j \in Occupied /\ socket'[j] = socket[j] /\ j # i
      BY <2>3 DEF Occupied, Inv, TypeOK
  <2>7. \A j \in Occupied' : socket[j] # socket[i] /\ ~DropLeft(j)
      BY <2>2, <2>6 DEF Inv, SlotTable, SlotsHoldConnections, DropLeft
  <2> QED BY <2>3, <2>4, <2>5, <2>6, <2>7, HangUpNames
<1>4. CASE CloseRefused
  <2>1. /\ todo # <<>> /\ Head(todo).op = "close" /\ HangUp(Head(todo).fd)
        /\ UNCHANGED <<socket, toClient, backlog, sent, username, session>> /\ todo \in Seq(Operation)
      BY <1>4 DEF CloseRefused, Inv, TypeOK
  <2>2. Head(todo) = todo[1] /\ Head(todo) \in Operation /\ 1 \in DOMAIN todo
      BY <2>1, HeadAndTail
  <2>3. PICK d \in Fds : d = Head(todo).fd /\ fds[d] \in Procs /\ HangUp(d) /\ Refused(d)
      BY <2>1, <2>2 DEF Operation, Inv, TodoIsSound, Refused
  <2>4. NoAnswer
      BY <1>4, CloseIsLast DEF NoAnswer
  <2>5. \A c \in Procs : Reached(c)' => Reached(c)
      BY <2>1, <2>3, <2>4, HangUpSilent DEF SilentStep
  <2>6. \A j \in Occupied' : j \in Occupied /\ socket'[j] = socket[j] /\ socket[j] # d
      BY <2>1, <2>3 DEF Occupied, Inv, SlotTable, NoDescriptorLost
  <2>7. \A j : ~DropLeft(j)
    <3>1. Len(todo) = 1
        BY <2>1, <2>2 DEF Inv, TodoIsSound
    <3>2. \A n \in DOMAIN todo : n = 1
        BY <2>1, <3>1
    <3> QED BY <2>1, <2>2, <3>2 DEF DropLeft, Drop
  <2> QED BY <2>1, <2>3, <2>5, <2>6, <2>7, HangUpNames
<1>5. CASE DropSlot
  <2>1. /\ todo # <<>> /\ Head(todo).op = "drop" /\ HangUp(socket[Head(todo).slot])
        /\ socket' = [socket EXCEPT ![Head(todo).slot] = 0]
        /\ UNCHANGED <<toClient, backlog, sent, username, session>> /\ todo \in Seq(Operation)
      BY <1>5 DEF DropSlot, Inv, TypeOK
  <2>2. Head(todo) = todo[1] /\ Head(todo) \in Operation /\ 1 \in DOMAIN todo
      BY <2>1, HeadAndTail
  <2>3. PICK i \in Occupied : i = Head(todo).slot
      BY <2>1, <2>2 DEF Operation, Inv, TodoIsSound, Occupied
  <2>4. socket[i] \in Fds /\ fds[socket[i]] \in Procs /\ HangUp(socket[i])
      BY <2>1, <2>3 DEF Inv, TypeOK, Occupied, SlotTable, SlotsHoldConnections, Peer
  <2>5. NoAnswer
      BY <1>5, CloseIsLast DEF NoAnswer
  <2>6. \A c \in Procs : Reached(c)' => Reached(c)
      BY <2>1, <2>4, <2>5, HangUpSilent DEF SilentStep
  <2>7. \A j \in Occupied' : j \in Occupied /\ socket'[j] = socket[j] /\ j # i
      BY <2>1, <2>3 DEF Occupied, Inv, TypeOK
  <2>8. \A j \in Occupied' : socket[j] # socket[i]
      BY <2>7 DEF Inv, SlotTable, SlotsHoldConnections
  <2>9. \A j : DropLeft(j) => j = i
    <3>1. Len(todo) = 1
        BY <2>1, <2>2 DEF Inv, TodoIsSound
    <3>2. \A n \in DOMAIN todo : n = 1
        BY <2>1, <3>1
    <3> QED BY <2>2, <2>3, <3>2 DEF DropLeft, Drop
  <2> QED BY <2>1, <2>4, <2>6, <2>7, <2>8, <2>9, HangUpNames
<1>6. CASE Accept
    BY <1>6, AcceptSilent, AcceptNames DEF SilentStep
<1>7. CASE \E c \in Procs : ClientStep(c)
  <2>1. UNCHANGED <<username, session, socket, fds, todo>>
      BY <1>7 DEF ClientStep, ClientConnect, ClientSend, ClientRecv, ClientEof, ClientExit, server
  <2>2. \A c \in Procs : Reached(c)' => Reached(c)
      BY <1>7, ClientSilent DEF SilentStep
  <2>3. Occupied' = Occupied /\ \A j : Peer(j)' = Peer(j) /\ (DropLeft(j)' <=> DropLeft(j))
      BY <2>1 DEF Occupied, Peer, DropLeft
  <2> QED BY <2>1, <2>2, <2>3, NamesStay
<1>8. CASE Quit \/ Select \/ AcceptFails \/ EndPass \/ SendFails \/ UNCHANGED vars
  <2>1. UNCHANGED <<username, session, socket, fds, todo, conn, backlog>>
      BY <1>8 DEF Quit, Select, AcceptFails, EndPass, SendFails, vars, server, network
  <2> QED BY <2>1 DEF NotBeforeAccept, NamesFollow, Reached, Waiting, Occupied, Peer, DropLeft
<1> QED BY <1>1, <1>2, <1>3, <1>4, <1>5, <1>6, <1>7, <1>8 DEF Next, ServerStep

(* Recipients, place by place: a line of the group, a member of the line   *)
(* and the slot of another user of that name.                              *)
LEMMA RecipientsSay ==
    ASSUME NEW i, NEW g, NEW k, NEW n, NEW j
    PROVE  <<k, n, j>> \in Recipients(i, g) <=>
                /\ k \in LinesOf(g) /\ n \in DOMAIN groups[k].members
                /\ j \in Occupied \ {i} /\ groups[k].members[n] = username[j]
<1> DEFINE Listed(l) == {l} \X (DOMAIN groups[l].members) \X (Occupied \ {i})
<1>1. <<k, n, j>>[1] = k /\ <<k, n, j>>[2] = n /\ <<k, n, j>>[3] = j
    OBVIOUS
<1>2. \A l : <<k, n, j>> \in Listed(l) <=>
                l = k /\ n \in DOMAIN groups[k].members /\ j \in Occupied \ {i}
    OBVIOUS
<1>3. <<k, n, j>> \in UNION { Listed(l) : l \in LinesOf(g) } <=>
            k \in LinesOf(g) /\ n \in DOMAIN groups[k].members /\ j \in Occupied \ {i}
  <2> HIDE DEF Listed
  <2> QED BY <1>2
<1>4. <<k, n, j>> \in Recipients(i, g) <=>
        /\ <<k, n, j>> \in UNION { Listed(l) : l \in LinesOf(g) }
        /\ groups[<<k, n, j>>[1]].members[<<k, n, j>>[2]] = username[<<k, n, j>>[3]]
    BY DEF Recipients
<1> QED BY <1>1, <1>3, <1>4

(* The places of a name in the lines of a group.                           *)
LEMMA ListingsSay ==
    ASSUME NEW u, NEW g, NEW k, NEW n
    PROVE  <<k, n>> \in Listings(u, g) <=>
                k \in LinesOf(g) /\ n \in DOMAIN groups[k].members /\ groups[k].members[n] = u
<1> DEFINE Own(l) == { m \in DOMAIN groups[l].members : groups[l].members[m] = u }
<1>1. LinesOf(g) = { j \in DOMAIN groups : groups[j].name = g }
    BY DEF LinesOf
<1>2. <<k, n>> \in Listings(u, g) <=>
            \E l \in LinesOf(g) : <<k, n>> \in {l} \X Own(l)
    BY <1>1 DEF Listings
<1> QED BY <1>2

(* Every place of a recipient is a triple.                                 *)
LEMMA PlacesAreTriples ==
    ASSUME NEW i, NEW g, NEW s \in Recipients(i, g)
    PROVE  s = <<s[1], s[2], s[3]>>
<1> DEFINE Listed(l) == {l} \X (DOMAIN groups[l].members) \X (Occupied \ {i})
<1>1. PICK l \in LinesOf(g) : s \in Listed(l)
    BY DEF Recipients
<1> QED BY <1>1

(* And every listing is a pair.                                            *)
LEMMA ListingsArePairs ==
    ASSUME NEW u, NEW g, NEW t \in Listings(u, g)
    PROVE  t = <<t[1], t[2]>>
BY DEF Listings

(* A slot of the user u is sent one copy for each listing of u.            *)
LEMMA CopiesAreListings ==
    ASSUME TypeOK, NEW i \in Slots, NEW g, NEW j \in Occupied \ {i},
           NEW r \in InOrder(Recipients(i, g))
    PROVE  Cardinality({ n \in DOMAIN r : r[n][3] = j }) = Cardinality(Listings(username[j], g))
<1> DEFINE u == username[j]
           C == { n \in DOMAIN r : r[n][3] = j }
           f == [n \in C |-> <<r[n][1], r[n][2]>>]
<1>1. Recipients(i, g) \in SUBSET Places /\ IsFiniteSet(Recipients(i, g))
    BY RecipientsCount
<1>2. PICK k \in Nat : DOMAIN r = 1..k /\ r \in [1..k -> Recipients(i, g)]
    BY DEF InOrder
<1>3. \A a, b \in 1..k : r[a] = r[b] => a = b
  <2>1. \A n \in 1..k : n + 1 \in 1..k => Before(r[n], r[n + 1])
      BY <1>2 DEF InOrder
  <2>2. r \in [1..k -> Places]
      BY <1>1, <1>2
  <2> QED BY <2>1, <2>2, InOrderOnce
<1>4. \A s \in Recipients(i, g) : \E n \in DOMAIN r : r[n] = s
    BY <1>1, InOrderAll
<1>5. IsFiniteSet(C)
  <2>1. IsFiniteSet(1..k) /\ C \subseteq 1..k
      BY <1>2, FS_Interval
  <2> QED BY <2>1, FS_Subset
<1>6. ASSUME NEW n \in C
      PROVE  f[n] = <<r[n][1], r[n][2]>> /\ f[n] \in Listings(u, g) /\ n \in 1..k
             /\ r[n] = <<r[n][1], r[n][2], j>>
  <2>1. r[n] \in Recipients(i, g) /\ r[n][3] = j /\ n \in 1..k
      BY <1>2
  <2>2. r[n] = <<r[n][1], r[n][2], j>>
      BY <2>1, PlacesAreTriples
  <2>3. <<r[n][1], r[n][2], j>> \in Recipients(i, g)
      BY <2>1, <2>2
  <2>4. <<r[n][1], r[n][2]>> \in Listings(u, g)
      BY <2>3, RecipientsSay, ListingsSay
  <2> QED BY <2>1, <2>2, <2>4
<1>7. ASSUME NEW t \in Listings(u, g) PROVE \E n \in C : f[n] = t
  <2>1. t = <<t[1], t[2]>>
      BY ListingsArePairs
  <2>2. <<t[1], t[2], j>> \in Recipients(i, g)
      BY <2>1, RecipientsSay, ListingsSay
  <2>3. PICK n \in DOMAIN r : r[n] = <<t[1], t[2], j>>
      BY <1>4, <2>2
  <2>4. n \in C /\ f[n] = <<t[1], t[2]>>
      BY <2>3
  <2> QED BY <2>1, <2>4
<1>8. \A a, b \in C : f[a] = f[b] => a = b
  <2> SUFFICES ASSUME NEW a \in C, NEW b \in C, f[a] = f[b] PROVE a = b
      OBVIOUS
  <2>1. r[a][1] = r[b][1] /\ r[a][2] = r[b][2]
      BY <1>6
  <2>2. r[a] = r[b]
      BY <1>6, <2>1
  <2> QED BY <1>3, <1>6, <2>2
<1>9. DOMAIN f = C /\ f \in [C -> Listings(u, g)]
    BY <1>6
<1> HIDE DEF f, C
<1>10. f \in Injection(C, Listings(u, g)) /\ f \in Surjection(C, Listings(u, g))
    BY <1>7, <1>8, <1>9 DEF Injection, IsInjective, Surjection
<1>11. Cardinality(Listings(u, g)) = Cardinality(C)
    BY <1>5, <1>10, FS_Surjection
<1> QED BY <1>11 DEF C

(* send_public_message, when it finds the file and a descriptor for it.    *)
LEMMA GroupTextsGoOut ==
    ASSUME TypeOK, SlotTable, NamesFollow, todo = <<>>, pc = "scan", pc' = "scan",
           NEW i \in Occupied, NEW m, SendPublicMessage(i, m)
    PROVE  /\ \A c \in Procs \ {Peer(i)} : LoggedIn(c) =>
                Cardinality(Copies(c)') = Cardinality(Listings(session[c], m.group))
           /\ LoggedIn(Peer(i)) => \A n \in DOMAIN todo' : todo'[n].msg.name = session[Peer(i)]
<1> DEFINE g == m.group
           talk == [type |-> "PUBLIC_MESSAGE", name |-> username[i], group |-> m.group]
<1>0. i \in Slots
    BY DEF Occupied
<1>1. ~Stop("fault")
    BY DEF Stop
<1>2. PICK d \in FreeFds : fds' = [fds EXCEPT ![d] = File]
    BY <1>1 DEF SendPublicMessage, IsLowest
<1>3. PICK r \in InOrder(Recipients(i, g)) :
            todo' = [n \in DOMAIN r |-> Send(socket[r[n][3]], talk)]
    BY <1>1 DEF SendPublicMessage, SendAll
<1>4. DOMAIN todo' = DOMAIN r /\ \A n \in DOMAIN r :
            todo'[n].fd = socket[r[n][3]] /\ todo'[n].msg.name = username[i]
    BY <1>3 DEF Send
<1>5. \A j \in Occupied : socket[j] \in Fds /\ fds[socket[j]] \in Procs /\ Peer(j) = fds[socket[j]]
    BY DEF Occupied, TypeOK, SlotTable, SlotsHoldConnections, Peer
<1>6. \A j \in Occupied : fds'[socket[j]] = Peer(j)
    BY <1>2, <1>5, MarksAreApart DEF FreeFds, TypeOK
<1>7. \A j, k \in Occupied : Peer(j) = Peer(k) => j = k
    BY <1>5 DEF SlotTable, OneDescriptorEach, SlotsHoldConnections
<1>8. \A j \in Occupied : session[Peer(j)] # NoName => username[j] = session[Peer(j)]
    BY DEF NamesFollow, DropLeft
<1>9. ASSUME NEW c \in Procs \ {Peer(i)}, LoggedIn(c)
      PROVE  Cardinality(Copies(c)') = Cardinality(Listings(session[c], g))
  <2>1. PICK j \in Occupied : Peer(j) = c /\ j # i
    <3>1. PICK e \in Fds : fds[e] = c
        BY <1>9 DEF LoggedIn, Holds
    <3>2. PICK j \in Slots : socket[j] = e
        BY <3>1 DEF SlotTable, NoDescriptorLost, Refused
    <3>3. j \in Occupied
        BY <3>2 DEF Occupied, Fds
    <3> QED BY <3>1, <3>2, <3>3 DEF Peer
  <2>2. username[j] = session[c]
      BY <1>8, <1>9, <2>1 DEF LoggedIn
  <2>3. \A n \in DOMAIN r : r[n][3] \in Occupied
    <3>1. \A n \in DOMAIN r : r[n] \in Recipients(i, g)
        BY DEF InOrder
    <3> QED BY <3>1 DEF Recipients
  <2>4. \A n \in DOMAIN r : fds'[todo'[n].fd] = c <=> r[n][3] = j
      BY <1>4, <1>6, <1>7, <2>1, <2>3
  <2>5. Copies(c)' = { n \in DOMAIN r : r[n][3] = j }
      BY <1>4, <2>4 DEF Copies
  <2>6. Cardinality({ n \in DOMAIN r : r[n][3] = j }) = Cardinality(Listings(username[j], g))
      BY <1>0, <2>1, CopiesAreListings
  <2> QED BY <2>2, <2>5, <2>6
<1>10. LoggedIn(Peer(i)) => username[i] = session[Peer(i)]
    BY <1>8 DEF LoggedIn
<1> QED BY <1>4, <1>9, <1>10

(* A group message goes to every other process that has logged in as often *)
(* as the file lists the name it last logged in with, and to no other that *)
(* has, and bears the name of the sender's login, although the code knows  *)
(* only the names in the slots, which outlive connections.                 *)
THEOREM GroupTextsFollowLoginsHolds == Spec => GroupTextsFollowLogins
<1> DEFINE AllTold ==
        \A i \in Slots : Reads(i, "PUBLIC_MESSAGE") /\ pc' = "scan" =>
            /\ \A c \in Procs \ {Peer(i)} : LoggedIn(c) =>
                  Cardinality(Copies(c)') =
                      Cardinality(Listings(session[c], Head(inbox[Peer(i)]).group))
            /\ LoggedIn(Peer(i)) =>
                  \A n \in DOMAIN todo' : todo'[n].msg.name = session[Peer(i)]
<1>1. Inv /\ NamesFollow /\ [Next]_vars => AllTold
  <2> SUFFICES ASSUME Inv, NamesFollow, [Next]_vars, NEW i \in Slots,
                      Reads(i, "PUBLIC_MESSAGE"), pc' = "scan"
               PROVE  /\ \A c \in Procs \ {Peer(i)} : LoggedIn(c) =>
                            Cardinality(Copies(c)') =
                                Cardinality(Listings(session[c], Head(inbox[Peer(i)]).group))
                      /\ LoggedIn(Peer(i)) =>
                            \A n \in DOMAIN todo' : todo'[n].msg.name = session[Peer(i)]
      OBVIOUS
  <2>1. HandleRequest(i)
      BY ReadByHandler
  <2>2. pc = "scan" /\ todo = <<>> /\ i \in Occupied
      BY <2>1 DEF HandleRequest, NextDue, IsLowest, Due, Occupied
  <2>3. Head(inbox[Peer(i)]).type = "PUBLIC_MESSAGE" /\ Dispatch(i, Head(inbox[Peer(i)]))
      BY <2>1 DEF HandleRequest, Reads
  <2>4. SendPublicMessage(i, Head(inbox[Peer(i)]))
      BY <2>3 DEF Dispatch
  <2> QED BY <2>2, <2>4, GroupTextsGoOut DEF Inv
<1>2. GroupTextsFollowLogins <=> [][AllTold]_vars
    BY DEF GroupTextsFollowLogins
<1>3. Init => Earned /\ NotBeforeAccept /\ NamesFollow
  <2> SUFFICES ASSUME Init PROVE Earned /\ NotBeforeAccept /\ NamesFollow
      OBVIOUS
  <2>1. NothingEarly /\ RequestsSent /\ AnswerFirst
      BY DEF Init, NothingEarly, RequestsSent, AnswerFirst
  <2>2. \A c \in Procs : conn[c] # "up" /\ session[c] = NoName
      BY DEF Init
  <2>3. Occupied = {}
      BY DEF Init, Occupied
  <2> QED BY <2>1, <2>2, <2>3 DEF Earned, AnswersEarned, NotBeforeAccept, NamesFollow
<1> QED BY <1>1, <1>2, <1>3, InvHolds, StepKeepsEarned, StepKeepsNames, PTL DEF Spec
=============================================================================
