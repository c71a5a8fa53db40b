-------------------------- MODULE ChatServerProofs --------------------------
(***************************************************************************)
(* The bookkeeping of the chat server holds for every number of slots,     *)
(* descriptors and clients, and for every set of requests.                 *)
(***************************************************************************)
EXTENDS ChatServerProperties, SequenceTheorems, TLAPS

(* Between two handlers nothing is left to do, and accept() is called when *)
(* there is a call to take.                                                *)
Stages ==
    /\ pc \in {"select", "accept"} => todo = <<>>
    /\ pc = "accept" => backlog # <<>>

(* What is left to do is a run of sends to open connections; a close comes *)
(* last, and only for a connection that has no slot.                       *)
TodoIsSound ==
    \A n \in DOMAIN todo :
        /\ todo[n].op = "send" => fds[todo[n].fd] \in Procs
        /\ todo[n].op = "close" => n = Len(todo) /\ fds[todo[n].fd] \in Procs
        /\ todo[n].op = "drop" => n = Len(todo) /\ socket[todo[n].slot] # 0

(* A process that has not called is in no table.                           *)
CallersHaveCalled ==
    /\ \A d \in Fds : fds[d] \in Procs => conn[fds[d]] # "off"
    /\ \A n \in DOMAIN backlog : conn[backlog[n]] # "off"

(* What select() returned stays true until the loop gets there.            *)
ReadyIsFresh ==
    /\ pc = "accept" => \A d \in ready : fds[d] \in Procs
    /\ pc \in {"accept", "scan"} => \A i \in Slots : Due(i) => Readable(Peer(i))

Inv ==
    /\ TypeOK /\ SlotTable
    /\ Stages /\ TodoIsSound /\ CallersHaveCalled /\ ReadyIsFresh

-----------------------------------------------------------------------------
(* Sequences: the first element and the rest.                              *)
LEMMA HeadAndTail ==
    ASSUME NEW S, NEW s \in Seq(S), s # <<>>
    PROVE  /\ Len(s) \in Nat \ {0} /\ 1 \in DOMAIN s
           /\ Head(s) = s[1] /\ Head(s) \in S
           /\ Tail(s) \in Seq(S)
           /\ Len(Tail(s)) = Len(s) - 1
           /\ \A n \in DOMAIN Tail(s) :
                n \in Nat /\ n + 1 \in DOMAIN s /\ Tail(s)[n] = s[n + 1]
           /\ \A n \in DOMAIN s : n # 1 => n - 1 \in DOMAIN Tail(s) /\ s[n] = Tail(s)[n - 1]
    OBVIOUS

(* Sequences: one more element.                                            *)
LEMMA Appended ==
    ASSUME NEW S, NEW s \in Seq(S), NEW e \in S
    PROVE  /\ Append(s, e) \in Seq(S) /\ Append(s, e) # <<>>
           /\ Len(Append(s, e)) = Len(s) + 1
           /\ \A n \in DOMAIN s : n \in DOMAIN Append(s, e) /\ Append(s, e)[n] = s[n]
           /\ \A n \in DOMAIN Append(s, e) :
                \/ n \in DOMAIN s /\ Append(s, e)[n] = s[n]
                \/ n = Len(s) + 1 /\ Append(s, e)[n] = e
<1>1. Append(s, e) \in Seq(S) /\ Len(Append(s, e)) = Len(s) + 1
    OBVIOUS
<1>2. /\ Len(s) \in Nat /\ DOMAIN s = 1..Len(s)
      /\ DOMAIN Append(s, e) = 1..(Len(s) + 1)
    BY <1>1
<1>3. Append(s, e)[Len(s) + 1] = e /\ \A n \in 1..Len(s) : Append(s, e)[n] = s[n]
    BY <1>2
<1>4. Append(s, e) # <<>>
    BY <1>1, <1>2
<1> QED BY <1>1, <1>2, <1>3, <1>4

(* A sequence of none, of one, of two.                                     *)
LEMMA ShortSequences ==
    ASSUME NEW S, NEW a \in S, NEW b \in S
    PROVE  /\ <<>> \in Seq(S) /\ DOMAIN <<>> = {}
           /\ <<a>> \in Seq(S) /\ Len(<<a>>) = 1 /\ DOMAIN <<a>> = {1} /\ <<a>>[1] = a
           /\ <<a, b>> \in Seq(S) /\ Len(<<a, b>>) = 2 /\ DOMAIN <<a, b>> = {1, 2}
           /\ <<a, b>>[1] = a /\ <<a, b>>[2] = b
<1>1. <<>> \in Seq(S) /\ DOMAIN <<>> = {}
    OBVIOUS
<1>2. <<a>> \in Seq(S) /\ Len(<<a>>) = 1 /\ DOMAIN <<a>> = {1} /\ <<a>>[1] = a
    OBVIOUS
<1>3. <<a, b>> \in Seq(S) /\ Len(<<a, b>>) = 2 /\ <<a, b>>[1] = a /\ <<a, b>>[2] = b
    OBVIOUS
<1>4. DOMAIN <<a, b>> = {1, 2}
    BY <1>3
<1> QED BY <1>1, <1>2, <1>3, <1>4

(* Sequences: one element after another, and nothing after one.            *)
LEMMA OneAndOne ==
    ASSUME NEW S, NEW a \in S, NEW b \in S
    PROVE  <<a>> \o <<b>> = <<a, b>> /\ <<a>> \o <<>> = <<a>>
<1>1. /\ <<a>> \o <<b>> \in Seq(S) /\ Len(<<a>> \o <<b>>) = 2
      /\ (<<a>> \o <<b>>)[1] = a /\ (<<a>> \o <<b>>)[2] = b
    BY ConcatProperties
<1>2. <<a>> \o <<b>> = <<a, b>>
  <2>1. <<a, b>> \in Seq(S) /\ Len(<<a, b>>) = 2 /\ <<a, b>>[1] = a /\ <<a, b>>[2] = b
      BY ShortSequences
  <2>2. \A n \in 1..2 : n = 1 \/ n = 2
      OBVIOUS
  <2>3. \A n \in 1..Len(<<a>> \o <<b>>) : (<<a>> \o <<b>>)[n] = <<a, b>>[n]
      BY <1>1, <2>1, <2>2
  <2> QED BY <1>1, <2>1, <2>3, SeqEqual
<1> QED BY <1>2, ShortSequences, ConcatEmptySeq

(* create_group and join_group leave a file of lines.                      *)
LEMMA CreatedIsAFile ==
    ASSUME NEW file \in Seq(Lines), NEW g \in GroupNames, NEW u \in Names,
           NEW members \in Seq(Names), NEW newline
    PROVE  Created(file, g, u, members, newline) \in Seq(Lines)
<1>1. Blank \in Lines
    BY DEF Blank, Lines, Names
<1>2. [name |-> g, members |-> <<u>> \o members] \in Lines
    BY DEF Lines
<1>3. file \o <<[name |-> g, members |-> <<u>> \o members]>> \in Seq(Lines)
    BY <1>2
<1> QED BY <1>1, <1>3 DEF Created

(* join_group's copy of a file of lines is a file of lines.                *)
LEMMA JoinedIsAFile ==
    ASSUME NEW file \in Seq(Lines), NEW g \in GroupNames, NEW u \in Names
    PROVE  Joined(file, g, u) \in Seq(Lines)
<1>1. ASSUME NEW k \in DOMAIN file
      PROVE  [name |-> g, members |-> Append(file[k].members, u)] \in Lines
  <2>1. file[k] \in Lines
      OBVIOUS
  <2>2. file[k].members \in Seq(Names)
      BY <2>1 DEF Lines
  <2>3. Append(file[k].members, u) \in Seq(Names)
      BY <2>2
  <2> QED BY <2>3 DEF Lines
<1>2. ASSUME NEW k \in DOMAIN file
      PROVE  Joined(file, g, u)[k] \in Lines
    BY <1>1 DEF Joined
<1>3. DOMAIN Joined(file, g, u) = 1..Len(file) /\ Len(file) \in Nat
    BY DEF Joined
<1>4. Joined(file, g, u) \in [1..Len(file) -> Lines]
    BY <1>2, <1>3 DEF Joined
<1> QED BY <1>3, <1>4

(* The sends of a broadcast: one per recipient, and nothing else.          *)
LEMMA SendAllSends ==
    ASSUME NEW S, NEW m \in Message, SendAll(S, m),
           \A r \in S : socket[r[3]] \in Fds
    PROVE  /\ todo' \in Seq(Operation)
           /\ \A n \in DOMAIN todo' : \E r \in S : todo'[n] = Send(socket[r[3]], m)
<1>1. PICK r \in InOrder(S) : todo' = [n \in DOMAIN r |-> Send(socket[r[n][3]], m)]
    BY DEF SendAll
<1>2. PICK k \in Nat : r \in [1..k -> S]
    BY DEF InOrder
<1>3. \A n \in 1..k : r[n] \in S /\ Send(socket[r[n][3]], m) \in Operation
    BY <1>2 DEF Send, Operation
<1>4. todo' = [n \in 1..k |-> Send(socket[r[n][3]], m)]
    BY <1>1, <1>2
<1> QED BY <1>2, <1>3, <1>4

-----------------------------------------------------------------------------
(* What every handler may do, whatever the request: it leaves the types    *)
(* alone, opens no connection and closes none, and what is left to do is a *)
(* run of sends to occupied slots, then at most the drop of one.           *)
HandlerEffect ==
    /\ username' \in [Slots -> Names] /\ ports' \in Nat /\ groups' \in Seq(Lines)
    /\ fds' \in [Fds -> Procs \cup {Free, File}] /\ session' \in [Procs -> Names]
    /\ pc' \in {"scan", "exit", "fault"} /\ todo' \in Seq(Operation)
    /\ \A d \in Fds : fds'[d] = fds[d] \/ (fds[d] = Free /\ fds'[d] = File)
    /\ \A n \in DOMAIN todo' :
        \/ todo'[n].op = "send" /\ \E j \in Occupied : todo'[n].fd = socket[j]
        \/ todo'[n].op = "drop" /\ todo'[n].slot \in Occupied /\ n = Len(todo')

(* A handler that ends the server.                                         *)
LEMMA StopEffect ==
    ASSUME TypeOK, pc = "scan", todo = <<>>, NEW how \in {"exit", "fault"}, Stop(how)
    PROVE  HandlerEffect
BY DEF Stop, HandlerEffect, TypeOK

(* A handler that answers the slot it read from.                           *)
LEMMA ReplyEffect ==
    ASSUME TypeOK, NEW i \in Occupied, NEW m \in Message, todo' = Reply(i, m)
    PROVE  /\ todo' \in Seq(Operation)
           /\ \A n \in DOMAIN todo' :
                todo'[n].op = "send" /\ \E j \in Occupied : todo'[n].fd = socket[j]
<1>1. socket[i] \in Fds
    BY DEF TypeOK, Occupied
<1>2. Send(socket[i], m) \in Operation
    BY <1>1 DEF Send, Operation
<1>3. todo' = <<Send(socket[i], m)>>
    BY DEF Reply
<1>4. todo' \in Seq(Operation) /\ DOMAIN todo' = {1} /\ todo'[1] = Send(socket[i], m)
    BY <1>2, <1>3, ShortSequences
<1> QED BY <1>4 DEF Send

(* login: the name is stored; a drop is left to do if it failed.           *)
LEMMA LoginEffect ==
    ASSUME TypeOK, SlotsHoldConnections, pc = "scan", todo = <<>>,
           NEW i \in Occupied, NEW m \in LoginMsg, Login(i, m)
    PROVE  HandlerEffect
<1> DEFINE ok == <<m.user, m.pass>> \in Accounts
           success == [type |-> "SUCCESS", name |-> m.user, ok |-> ok]
<1>1. CASE Stop("exit") \/ Stop("fault")
    BY <1>1, StopEffect
<1>2. CASE /\ username' = [username EXCEPT ![i] = m.user]
           /\ session' = [session EXCEPT ![Peer(i)] = IF ok THEN m.user ELSE @]
           /\ todo' = ConnectMessage(i, m.user, ok) \o (IF ok THEN <<>> ELSE <<Drop(i)>>)
           /\ UNCHANGED <<ports, groups, fds, pc>>
  <2>1. m.user \in Names /\ ok \in BOOLEAN /\ i \in Slots
      BY DEF LoginMsg, Names, Occupied
  <2>2. username' \in [Slots -> Names] /\ session' \in [Procs -> Names]
      BY <1>2, <2>1 DEF TypeOK
  <2>3. success \in Message
      BY <2>1 DEF Message
  <2>4. socket[i] \in Fds
      BY DEF TypeOK, Occupied
  <2>5. Send(socket[i], success) \in Operation /\ Drop(i) \in Operation
      BY <2>1, <2>3, <2>4 DEF Send, Drop, Operation
  <2>6. /\ ports' \in Nat /\ groups' \in Seq(Lines) /\ pc' = "scan"
        /\ fds' \in [Fds -> Procs \cup {Free, File}] /\ fds' = fds
      BY <1>2 DEF TypeOK
  <2>7. CASE ok
    <3>1. todo' = <<Send(socket[i], success)>>
        BY <1>2, <2>5, <2>7, OneAndOne DEF ConnectMessage, Reply
    <3>2. todo' \in Seq(Operation) /\ DOMAIN todo' = {1} /\ todo'[1] = Send(socket[i], success)
        BY <2>5, <3>1, ShortSequences
    <3>3. todo'[1].op = "send" /\ todo'[1].fd = socket[i]
        BY <3>2 DEF Send
    <3> QED BY <2>2, <2>6, <3>2, <3>3 DEF HandlerEffect
  <2>8. CASE ~ok
    <3>1. todo' = <<Send(socket[i], success), Drop(i)>>
        BY <1>2, <2>5, <2>8, OneAndOne DEF ConnectMessage, Reply
    <3>2. /\ todo' \in Seq(Operation) /\ DOMAIN todo' = {1, 2} /\ Len(todo') = 2
          /\ todo'[1] = Send(socket[i], success) /\ todo'[2] = Drop(i)
        BY <2>5, <3>1, ShortSequences
    <3>3. /\ todo'[1].op = "send" /\ todo'[1].fd = socket[i]
          /\ todo'[2].op = "drop" /\ todo'[2].slot = i
        BY <3>2 DEF Send, Drop
    <3> QED BY <2>2, <2>6, <3>2, <3>3 DEF HandlerEffect
  <2> QED BY <2>7, <2>8
<1> QED BY <1>1, <1>2 DEF Login, StoreName

(* send_user_list answers one slot and changes nothing else.               *)
LEMMA SendUserListEffect ==
    ASSUME TypeOK, pc = "scan", todo = <<>>, NEW i \in Occupied, SendUserList(i)
    PROVE  HandlerEffect
<1> DEFINE answer == [type |-> "GET_USERS", list |-> { username[j] : j \in Occupied }]
<1>1. answer \in Message
    BY DEF Message, TypeOK, Occupied
<1>2. todo' = Reply(i, answer)
    BY DEF SendUserList, Answer
<1> QED BY <1>1, <1>2, ReplyEffect DEF SendUserList, Answer, HandlerEffect, TypeOK

(* send_private_message: one send to each end, or one refusal.             *)
LEMMA SendPrivateMessageEffect ==
    ASSUME TypeOK, pc = "scan", todo = <<>>, NEW i \in Occupied,
           NEW m \in CommandMsg, m.type = "PRIVATE_MESSAGE", SendPrivateMessage(i, m)
    PROVE  HandlerEffect
<1> DEFINE offer == [type |-> "PRIVATE_MESSAGE", name |-> username[i], port |-> ports]
<1>1. m.to \in Names
    BY DEF CommandMsg
<1>2. ports' \in Nat /\ UNCHANGED <<username, groups, fds, pc, session>>
    BY DEF SendPrivateMessage, TakePort, TypeOK
<1>3. CASE \E j \in Slots : /\ IsLowest(j, Addressed(i, m.to))
                            /\ todo' = Reply(j, offer) \o Reply(i, offer)
  <2>1. PICK j \in Slots : /\ IsLowest(j, Addressed(i, m.to))
                           /\ todo' = Reply(j, offer) \o Reply(i, offer)
      BY <1>3
  <2>2. j \in Occupied
      BY <2>1 DEF IsLowest, Addressed
  <2>3. offer \in Message
      BY DEF Message, TypeOK, Occupied
  <2>4. socket[i] \in Fds /\ socket[j] \in Fds
      BY <2>2 DEF TypeOK, Occupied
  <2>5. Send(socket[i], offer) \in Operation /\ Send(socket[j], offer) \in Operation
      BY <2>3, <2>4 DEF Send, Operation
  <2>6. todo' = <<Send(socket[j], offer), Send(socket[i], offer)>>
      BY <2>1, <2>5, OneAndOne DEF Reply
  <2>7. /\ todo' \in Seq(Operation) /\ DOMAIN todo' = {1, 2}
        /\ todo'[1] = Send(socket[j], offer) /\ todo'[2] = Send(socket[i], offer)
      BY <2>5, <2>6, ShortSequences
  <2> QED BY <1>2, <2>2, <2>7 DEF HandlerEffect, TypeOK, Send
<1>4. CASE todo' = Reply(i, [type |-> "USERNAME_ERROR", to |-> m.to])
  <2>1. [type |-> "USERNAME_ERROR", to |-> m.to] \in Message
      BY <1>1 DEF Message
  <2> QED BY <1>2, <1>4, <2>1, ReplyEffect DEF HandlerEffect, TypeOK
<1> QED BY <1>3, <1>4 DEF SendPrivateMessage

(* send_public_message: a descriptor more is in use, and every send goes   *)
(* to an occupied slot.                                                    *)
LEMMA SendPublicMessageEffect ==
    ASSUME TypeOK, pc = "scan", todo = <<>>, NEW i \in Occupied,
           NEW m \in CommandMsg, m.type = "PUBLIC_MESSAGE", SendPublicMessage(i, m)
    PROVE  HandlerEffect
<1> DEFINE talk == [type |-> "PUBLIC_MESSAGE", name |-> username[i], group |-> m.group]
           S == Recipients(i, m.group)
<1>1. CASE Stop("fault")
    BY <1>1, StopEffect
<1>2. CASE /\ \E d \in Fds : IsLowest(d, FreeFds) /\ fds' = [fds EXCEPT ![d] = File]
           /\ SendAll(S, talk)
           /\ UNCHANGED <<username, ports, groups, pc, session>>
  <2>1. m.group \in GroupNames
      BY DEF CommandMsg
  <2>2. talk \in Message
      BY <2>1 DEF Message, TypeOK, Occupied
  <2>3. \A r \in S : r[3] \in Occupied
      BY DEF Recipients
  <2>4. \A r \in S : socket[r[3]] \in Fds
      BY <2>3 DEF Occupied, TypeOK
  <2>5. /\ todo' \in Seq(Operation)
        /\ \A n \in DOMAIN todo' : \E r \in S : todo'[n] = Send(socket[r[3]], talk)
    <3> HIDE DEF S, talk
    <3> QED BY <1>2, <2>2, <2>4, SendAllSends
  <2>6. \A n \in DOMAIN todo' :
            todo'[n].op = "send" /\ \E j \in Occupied : todo'[n].fd = socket[j]
      BY <2>3, <2>5 DEF Send
  <2>7. /\ fds' \in [Fds -> Procs \cup {Free, File}]
        /\ \A d \in Fds : fds'[d] = fds[d] \/ (fds[d] = Free /\ fds'[d] = File)
      BY <1>2 DEF TypeOK, IsLowest, FreeFds
  <2>8. /\ username' \in [Slots -> Names] /\ ports' \in Nat /\ groups' \in Seq(Lines)
        /\ pc' = "scan" /\ session' \in [Procs -> Names]
      BY <1>2 DEF TypeOK
  <2> QED BY <2>5, <2>6, <2>7, <2>8 DEF HandlerEffect
<1> QED BY <1>1, <1>2 DEF SendPublicMessage

(* create_group leaves a file of lines and one answer.                     *)
LEMMA CreateGroupEffect ==
    ASSUME TypeOK, pc = "scan", todo = <<>>, NEW i \in Occupied,
           NEW m \in CommandMsg, m.type = "CREATE_GROUP", CreateGroup(i, m)
    PROVE  HandlerEffect
<1> DEFINE answer == [type |-> "CREATE_GROUP", group |-> m.group]
<1>1. CASE Stop("exit")
    BY <1>1, StopEffect
<1>2. CASE /\ groups' = Created(groups, m.group, username[i], m.members, m.newline)
           /\ Answer(i, answer)
           /\ UNCHANGED <<username, ports, fds, session>>
  <2>1. m.group \in GroupNames /\ m.members \in Seq(Names)
      BY DEF CommandMsg
  <2>2. username[i] \in Names
      BY DEF TypeOK, Occupied
  <2>3. groups' \in Seq(Lines)
      BY <1>2, <2>1, <2>2, CreatedIsAFile DEF TypeOK
  <2>4. answer \in Message
      BY <2>1 DEF Message
  <2>5. todo' = Reply(i, answer) /\ UNCHANGED <<username, ports, fds, session, pc>>
      BY <1>2 DEF Answer
  <2> HIDE DEF answer
  <2> QED BY <2>3, <2>4, <2>5, ReplyEffect DEF HandlerEffect, TypeOK
<1> QED BY <1>1, <1>2 DEF CreateGroup

(* join_group leaves the file or its copy, and one answer.                 *)
LEMMA JoinGroupEffect ==
    ASSUME TypeOK, pc = "scan", todo = <<>>, NEW i \in Occupied,
           NEW m \in CommandMsg, m.type = "JOIN_GROUP", JoinGroup(i, m)
    PROVE  HandlerEffect
<1> DEFINE answer(added) == [type |-> "JOIN_GROUP", group |-> m.group, added |-> added]
<1>1. m.group \in GroupNames
    BY DEF CommandMsg
<1>2. answer(TRUE) \in Message /\ answer(FALSE) \in Message
    BY <1>1 DEF Message
<1>3. username[i] \in Names
    BY DEF TypeOK, Occupied
<1> HIDE DEF answer
<1>4. CASE Stop("fault")
    BY <1>4, StopEffect
<1>5. CASE /\ Answer(i, answer(FALSE))
           /\ UNCHANGED <<username, ports, groups, fds, session>>
    BY <1>2, <1>5, ReplyEffect DEF Answer, HandlerEffect, TypeOK
<1>6. CASE /\ groups' = Joined(groups, m.group, username[i])
           /\ Answer(i, answer(TRUE))
           /\ UNCHANGED <<username, ports, fds, session>>
  <2>1. groups' \in Seq(Lines)
      BY <1>1, <1>3, <1>6, JoinedIsAFile DEF TypeOK
  <2> QED BY <1>2, <1>6, <2>1, ReplyEffect DEF Answer, HandlerEffect, TypeOK
<1> QED BY <1>4, <1>5, <1>6 DEF JoinGroup, answer

(* So does every handler the switch of handle_client_message can reach.    *)
LEMMA DispatchEffect ==
    ASSUME TypeOK, SlotsHoldConnections, pc = "scan", todo = <<>>,
           NEW i \in Occupied, NEW m \in Request, Dispatch(i, m)
    PROVE  HandlerEffect
<1>1. CASE m.type = "SET_USERNAME" /\ Login(i, m)
  <2>1. m \in LoginMsg
      BY <1>1 DEF Request, CommandMsg
  <2> QED BY <1>1, <2>1, LoginEffect
<1>2. m.type # "SET_USERNAME" => m \in CommandMsg
    BY DEF Request, LoginMsg
<1>3. CASE m.type = "GET_USERS" /\ SendUserList(i)
    BY <1>3, SendUserListEffect
<1>4. CASE m.type = "PRIVATE_MESSAGE" /\ SendPrivateMessage(i, m)
    BY <1>2, <1>4, SendPrivateMessageEffect
<1>5. CASE m.type = "PUBLIC_MESSAGE" /\ SendPublicMessage(i, m)
    BY <1>2, <1>5, SendPublicMessageEffect
<1>6. CASE m.type = "CREATE_GROUP" /\ CreateGroup(i, m)
    BY <1>2, <1>6, CreateGroupEffect
<1>7. CASE m.type = "JOIN_GROUP" /\ JoinGroup(i, m)
    BY <1>2, <1>7, JoinGroupEffect
<1>8. CASE m.type \in {"RECEIVE_FILE", "UNKNOWN"} /\ Ignore
    BY <1>8 DEF Ignore, HandlerEffect, TypeOK
<1> QED BY <1>1, <1>3, <1>4, <1>5, <1>6, <1>7, <1>8 DEF Dispatch

-----------------------------------------------------------------------------
(* The initial state.                                                      *)
LEMMA InitHolds == Init => Inv
<1> SUFFICES ASSUME Init PROVE Inv
    OBVIOUS
<1>1. TypeOK
    BY BoundsAreNaturals, RequestsAreTyped DEF Init, TypeOK, Names
<1>2. SlotTable
    BY MarksAreApart DEF Init, SlotTable, SlotsHoldConnections, OneDescriptorEach, QueuedOnce,
        NoDescriptorLost, Occupied
<1>3. Stages /\ TodoIsSound /\ CallersHaveCalled /\ ReadyIsFresh
    BY MarksAreApart DEF Init, Stages, TodoIsSound, CallersHaveCalled, ReadyIsFresh
<1> QED BY <1>1, <1>2, <1>3 DEF Inv

(* A handler that read a request, or found one where there was none.       *)
LEMMA HandlerKeepsInv ==
    ASSUME Inv, NEW i \in Slots, NextDue(i), HandlerEffect, cursor' = i + 1,
           UNCHANGED <<socket, ready, backlog, toClient, sent>>,
           inbox' \in [Procs -> Seq(Request)],
           conn' \in [Procs -> {"off", "up", "fin", "rst", "finrst", "gone"}],
           \A c \in Procs : c # Peer(i) => inbox'[c] = inbox[c] /\ conn'[c] = conn[c],
           \A c \in Procs : conn'[c] = "off" => conn[c] = "off"
    PROVE  Inv'
<1>1. TypeOK'
    BY DEF Inv, TypeOK, HandlerEffect, Slots
<1>2. /\ pc = "scan" /\ todo = <<>> /\ i \in Occupied /\ i >= cursor /\ DOMAIN todo = {}
    BY DEF NextDue, IsLowest, Due, Occupied
<1>3. /\ \A d \in Fds : fds'[d] \in Procs <=> fds[d] \in Procs
      /\ \A d \in Fds : fds[d] \in Procs => fds'[d] = fds[d]
    BY MarksAreApart DEF HandlerEffect
<1>4. \A j \in Occupied : socket[j] \in Fds /\ Peer(j) \in Procs /\ Peer(j)' = Peer(j)
    BY <1>3 DEF Inv, TypeOK, SlotTable, SlotsHoldConnections, Occupied, Peer
<1>5. Occupied' = Occupied
    BY DEF Occupied
<1>6. SlotTable'
  <2>1. SlotsHoldConnections'
      BY <1>4, <1>5 DEF Inv, SlotTable, SlotsHoldConnections
  <2>2. OneDescriptorEach'
      BY <1>3 DEF Inv, SlotTable, OneDescriptorEach
  <2>3. QueuedOnce'
      BY <1>3 DEF Inv, SlotTable, QueuedOnce, Holds, TypeOK
  <2>4. \A d \in Fds : ~Refused(d) /\ ~Refused(d)'
      BY <1>2 DEF HandlerEffect, Refused
  <2>5. NoDescriptorLost'
      BY <1>3, <2>4 DEF Inv, SlotTable, NoDescriptorLost
  <2> QED BY <2>1, <2>2, <2>3, <2>5 DEF SlotTable
<1>7. Stages'
    BY DEF Stages, HandlerEffect
<1>8. TodoIsSound'
    BY <1>3, <1>4 DEF TodoIsSound, HandlerEffect, Occupied, Peer
<1>9. CallersHaveCalled'
    BY <1>3 DEF Inv, TypeOK, CallersHaveCalled
<1>10. ReadyIsFresh'
  <2> SUFFICES ASSUME NEW j \in Slots, Due(j)' PROVE Readable(Peer(j))'
      BY DEF ReadyIsFresh, HandlerEffect
  <2>1. /\ Due(j) /\ j # i /\ j \in Occupied
      BY <1>2 DEF Due, Slots, Occupied, Inv, TypeOK
  <2>2. Readable(Peer(j))
      BY <1>2, <2>1 DEF Inv, ReadyIsFresh
  <2>3. Peer(j) # Peer(i)
      BY <1>2, <1>4, <2>1 DEF Inv, SlotTable, SlotsHoldConnections, OneDescriptorEach, Peer
  <2> QED BY <1>4, <2>1, <2>2, <2>3 DEF Readable
<1> QED BY <1>1, <1>6, <1>7, <1>8, <1>9, <1>10 DEF Inv

(* A request that was read: its handler runs, one message less is waiting. *)
LEMMA HandleRequestKeepsInv ==
    ASSUME Inv, NEW i \in Slots, HandleRequest(i)
    PROVE  Inv'
<1>1. NextDue(i) /\ pc = "scan" /\ todo = <<>> /\ i \in Occupied
    BY DEF HandleRequest, NextDue, IsLowest, Due, Occupied
<1>2. Peer(i) \in Procs
    BY <1>1 DEF Inv, SlotTable, SlotsHoldConnections
<1>3. inbox[Peer(i)] \in Seq(Request) /\ inbox[Peer(i)] # <<>>
    BY <1>2 DEF Inv, TypeOK, HandleRequest
<1>4. Head(inbox[Peer(i)]) \in Request /\ Tail(inbox[Peer(i)]) \in Seq(Request)
    BY <1>3, HeadAndTail
<1>5. HandlerEffect
    BY <1>1, <1>4, DispatchEffect DEF HandleRequest, Inv, SlotTable
<1>6. inbox' \in [Procs -> Seq(Request)] /\ \A c \in Procs : c # Peer(i) => inbox'[c] = inbox[c]
    BY <1>4 DEF HandleRequest, Inv, TypeOK
<1>7. /\ UNCHANGED <<socket, ready, backlog, conn, toClient, sent>> /\ cursor' = i + 1
      /\ conn' \in [Procs -> {"off", "up", "fin", "rst", "finrst", "gone"}]
    BY DEF HandleRequest, Inv, TypeOK
<1> QED BY <1>1, <1>5, <1>6, <1>7, HandlerKeepsInv

(* recv() < 0: some handler runs, whichever it is.                         *)
LEMMA HandleResetKeepsInv ==
    ASSUME Inv, NEW i \in Slots, HandleReset(i)
    PROVE  Inv'
<1>1. NextDue(i) /\ pc = "scan" /\ todo = <<>> /\ i \in Occupied
    BY DEF HandleReset, NextDue, IsLowest, Due, Occupied
<1>2. \A m \in Logins \cup Commands \cup {[type |-> "UNKNOWN"]} : m \in Request
    BY RequestsAreTyped DEF Request, CommandMsg
<1>3. HandlerEffect
    BY <1>1, <1>2, DispatchEffect DEF HandleReset, Inv, SlotTable
<1>4. /\ conn' \in [Procs -> {"off", "up", "fin", "rst", "finrst", "gone"}]
      /\ \A c \in Procs : c # Peer(i) => conn'[c] = conn[c]
      /\ \A c \in Procs : conn'[c] = "off" => conn[c] = "off"
    BY DEF HandleReset, Inv, TypeOK
<1>5. /\ UNCHANGED <<socket, ready, backlog, inbox, toClient, sent>> /\ cursor' = i + 1
      /\ inbox' \in [Procs -> Seq(Request)]
    BY DEF HandleReset, Inv, TypeOK
<1> QED BY <1>1, <1>3, <1>4, <1>5, HandlerKeepsInv

(* close() on a descriptor: the connection leaves the table and nothing    *)
(* else changes.                                                           *)
LEMMA HangUpEffect ==
    ASSUME TypeOK, OneDescriptorEach, NEW d \in Fds, fds[d] \in Procs, HangUp(d)
    PROVE  /\ fds' \in [Fds -> Procs \cup {Free, File}]
           /\ inbox' \in [Procs -> Seq(Request)]
           /\ conn' \in [Procs -> {"off", "up", "fin", "rst", "finrst", "gone"}]
           /\ fds'[d] = Free /\ \A e \in Fds : e # d => fds'[e] = fds[e]
           /\ \A c \in Procs : c # fds[d] => inbox'[c] = inbox[c] /\ conn'[c] = conn[c]
           /\ \A c \in Procs : conn'[c] = "off" => conn[c] = "off"
<1>1. <<>> \in Seq(Request)
    OBVIOUS
<1> QED BY <1>1 DEF HangUp, TypeOK

(* recv() = 0: slot, descriptor and connection are given back together.    *)
LEMMA HandleDisconnectKeepsInv ==
    ASSUME Inv, NEW i \in Slots, HandleDisconnect(i)
    PROVE  Inv'
<1> DEFINE S == { <<1, 1, j>> : j \in Occupied \ {i} }
           bye == [type |-> "DISCONNECT", name |-> username[i]]
<1>1. /\ pc = "scan" /\ todo = <<>> /\ i \in Occupied /\ i >= cursor /\ DOMAIN todo = {}
    BY DEF HandleDisconnect, NextDue, IsLowest, Due, Occupied
<1>2. /\ socket' = [socket EXCEPT ![i] = 0] /\ cursor' = i + 1 /\ HangUp(socket[i])
      /\ UNCHANGED <<username, ports, groups, ready, pc, backlog, toClient, sent, session>>
    BY DEF HandleDisconnect
<1>3. socket[i] \in Fds /\ fds[socket[i]] \in Procs
    BY <1>1 DEF Inv, TypeOK, SlotTable, SlotsHoldConnections, Occupied, Peer
<1>4. /\ fds' \in [Fds -> Procs \cup {Free, File}]
      /\ inbox' \in [Procs -> Seq(Request)]
      /\ conn' \in [Procs -> {"off", "up", "fin", "rst", "finrst", "gone"}]
      /\ fds'[socket[i]] = Free /\ \A e \in Fds : e # socket[i] => fds'[e] = fds[e]
      /\ \A c \in Procs : c # Peer(i) => inbox'[c] = inbox[c] /\ conn'[c] = conn[c]
      /\ \A c \in Procs : conn'[c] = "off" => conn[c] = "off"
    BY <1>2, <1>3, HangUpEffect DEF Inv, SlotTable, Peer
<1>5. \A j \in Occupied \ {i} : /\ socket[j] \in Fds /\ socket[j] # socket[i]
                                /\ Peer(j) \in Procs /\ Peer(j) # Peer(i)
    BY <1>1, <1>3 DEF Inv, TypeOK, SlotTable, SlotsHoldConnections, OneDescriptorEach, Occupied, Peer
<1>6. \A j \in Slots : socket'[j] = IF j = i THEN 0 ELSE socket[j]
    BY <1>2 DEF Inv, TypeOK
<1>7. Occupied' = Occupied \ {i} /\ \A j \in Occupied' : Peer(j)' = Peer(j)
    BY <1>4, <1>5, <1>6 DEF Occupied, Peer
<1>8. bye \in Message
    BY DEF Message, Inv, TypeOK
<1>9. /\ todo' \in Seq(Operation)
      /\ \A n \in DOMAIN todo' : \E r \in S : todo'[n] = Send(socket[r[3]], bye)
  <2>1. \A r \in S : socket[r[3]] \in Fds
      BY <1>5
  <2>2. SendAll(S, bye)
      BY DEF HandleDisconnect
  <2> HIDE DEF S, bye
  <2> QED BY <1>8, <2>1, <2>2, SendAllSends
<1>10. \A n \in DOMAIN todo' :
          todo'[n].op = "send" /\ \E j \in Occupied \ {i} : todo'[n].fd = socket[j]
    BY <1>9 DEF Send
<1> HIDE DEF S, bye
<1>11. TypeOK'
  <2>1. socket' \in [Slots -> Fds \cup {0}]
      BY <1>2 DEF Inv, TypeOK
  <2> QED BY <1>2, <1>4, <1>9, <2>1 DEF Inv, TypeOK, Slots
<1>12. SlotTable'
  <2>1. SlotsHoldConnections'
    <3>1. \A j \in Occupied' : Peer(j)' \in Procs
        BY <1>5, <1>7
    <3>2. \A j, k \in Occupied' : socket'[j] = socket'[k] => socket[j] = socket[k]
        BY <1>6, <1>7 DEF Occupied
    <3>3. \A j, k \in Occupied : socket[j] = socket[k] => j = k
        BY DEF Inv, SlotTable, SlotsHoldConnections
    <3> QED BY <1>7, <3>1, <3>2, <3>3 DEF SlotsHoldConnections
  <2>2. OneDescriptorEach'
      BY <1>4, MarksAreApart DEF Inv, SlotTable, OneDescriptorEach
  <2>3. QueuedOnce'
      BY <1>2, <1>4, MarksAreApart DEF Inv, SlotTable, QueuedOnce, Holds, TypeOK
  <2>4. \A d \in Fds : ~Refused(d) /\ ~Refused(d)'
      BY <1>1, <1>10 DEF Refused
  <2>5. NoDescriptorLost'
    <3> SUFFICES ASSUME NEW d \in Fds, fds'[d] \in Procs
                 PROVE  \E j \in Slots : socket'[j] = d
        BY <2>4 DEF NoDescriptorLost
    <3>1. d # socket[i] /\ fds[d] \in Procs
        BY <1>4, MarksAreApart
    <3>2. PICK j \in Slots : socket[j] = d
        BY <2>4, <3>1 DEF Inv, SlotTable, NoDescriptorLost
    <3> QED BY <1>6, <3>1, <3>2
  <2> QED BY <2>1, <2>2, <2>3, <2>5 DEF SlotTable
<1>13. Stages'
    BY <1>1, <1>2 DEF Stages
<1>14. TodoIsSound'
    BY <1>4, <1>5, <1>10 DEF TodoIsSound, Peer
<1>15. CallersHaveCalled'
  <2>1. \A d \in Fds : fds'[d] \in Procs => conn'[fds'[d]] # "off"
      BY <1>4, MarksAreApart DEF Inv, CallersHaveCalled
  <2>2. \A n \in DOMAIN backlog : backlog[n] \in Procs /\ conn[backlog[n]] # "off"
      BY DEF Inv, TypeOK, CallersHaveCalled
  <2> QED BY <1>2, <1>4, <2>1, <2>2 DEF CallersHaveCalled
<1>16. ReadyIsFresh'
  <2> SUFFICES ASSUME NEW j \in Slots, Due(j)' PROVE Readable(Peer(j))'
      BY <1>1, <1>2 DEF ReadyIsFresh
  <2>1. /\ Due(j) /\ j # i /\ j \in Occupied
      BY <1>1, <1>2, <1>6 DEF Due, Slots, Occupied, Inv, TypeOK
  <2>2. Readable(Peer(j))
      BY <1>1, <2>1 DEF Inv, ReadyIsFresh
  <2> QED BY <1>4, <1>5, <1>7, <2>1, <2>2 DEF Readable
<1> QED BY <1>11, <1>12, <1>13, <1>14, <1>15, <1>16 DEF Inv

-----------------------------------------------------------------------------
(* The loop of main.                                                       *)
LEMMA SelectKeepsInv ==
    ASSUME Inv, Select
    PROVE  Inv'
<1>1. /\ pc = "select" /\ pc' \in {"accept", "scan"} /\ (pc' = "accept" => backlog # <<>>)
      /\ cursor' = 1 /\ ready' = ReadyNow /\ todo = <<>> /\ DOMAIN todo = {}
      /\ UNCHANGED <<socket, username, ports, groups, fds, todo, network, session>>
    BY DEF Select, Stage, Inv, Stages
<1>2. UNCHANGED <<backlog, conn, inbox, toClient, sent>>
    BY <1>1 DEF network
<1>3. ReadyNow \subseteq Fds
    BY DEF ReadyNow, Occupied, Inv, TypeOK
<1>4. TypeOK'
    BY <1>1, <1>2, <1>3 DEF Inv, TypeOK
<1>5. SlotTable'
    BY <1>1, <1>2 DEF Inv, SlotTable, SlotsHoldConnections, OneDescriptorEach, QueuedOnce,
        NoDescriptorLost, Refused, Occupied, Peer, Holds
<1>6. Stages' /\ TodoIsSound' /\ CallersHaveCalled'
    BY <1>1, <1>2 DEF Inv, Stages, TodoIsSound, CallersHaveCalled
<1>7. ReadyIsFresh'
  <2>1. \A d \in ReadyNow : fds[d] \in Procs
      BY DEF ReadyNow, Inv, SlotTable, SlotsHoldConnections, Peer
  <2>2. \A i \in Occupied : socket[i] \in ReadyNow => Readable(Peer(i))
      BY DEF ReadyNow, Inv, SlotTable, SlotsHoldConnections, Peer, Occupied
  <2> QED BY <1>1, <1>2, <2>1, <2>2 DEF ReadyIsFresh, Due, Readable, Peer, Occupied
<1> QED BY <1>4, <1>5, <1>6, <1>7 DEF Inv

(* The end of a pass over the slots.                                       *)
LEMMA EndPassKeepsInv ==
    ASSUME Inv, EndPass
    PROVE  Inv'
<1>1. /\ pc' = "select" /\ ready' = {} /\ todo = <<>>
      /\ UNCHANGED <<socket, username, ports, groups, fds, cursor, todo, session>>
      /\ UNCHANGED <<backlog, conn, inbox, toClient, sent>>
    BY DEF EndPass, network
<1>2. TypeOK'
    BY <1>1 DEF Inv, TypeOK
<1>3. SlotTable'
    BY <1>1 DEF Inv, SlotTable, SlotsHoldConnections, OneDescriptorEach, QueuedOnce,
        NoDescriptorLost, Refused, Occupied, Peer, Holds
<1>4. Stages' /\ TodoIsSound' /\ CallersHaveCalled' /\ ReadyIsFresh'
    BY <1>1 DEF Inv, Stages, TodoIsSound, CallersHaveCalled, ReadyIsFresh
<1> QED BY <1>2, <1>3, <1>4 DEF Inv

(* The steps that end the server: an operator's q, a failed accept or send.*)
LEMMA StopKeepsInv ==
    ASSUME Inv, Quit \/ AcceptFails \/ SendFails
    PROVE  Inv'
<1>1. /\ pc' \in {"quit", "exit"}
      /\ UNCHANGED <<socket, username, ports, groups, fds, ready, cursor, todo, session>>
      /\ UNCHANGED <<backlog, conn, inbox, toClient, sent>>
    BY DEF Quit, AcceptFails, SendFails, network
<1>2. TypeOK'
    BY <1>1 DEF Inv, TypeOK
<1>3. SlotTable'
    BY <1>1 DEF Inv, SlotTable, SlotsHoldConnections, OneDescriptorEach, QueuedOnce,
        NoDescriptorLost, Refused, Occupied, Peer, Holds
<1>4. Stages' /\ TodoIsSound' /\ CallersHaveCalled' /\ ReadyIsFresh'
    BY <1>1 DEF Inv, Stages, TodoIsSound, CallersHaveCalled, ReadyIsFresh
<1> QED BY <1>2, <1>3, <1>4 DEF Inv

(* accept(): whichever way it goes, the caller moves from the queue to a   *)
(* descriptor that no slot and no select() result knows.                   *)
LEMMA AcceptKeepsInv ==
    ASSUME Inv, Accept
    PROVE  Inv'
<1>1. /\ pc = "accept" /\ pc' = "scan" /\ todo = <<>> /\ DOMAIN todo = {}
      /\ backlog # <<>> /\ backlog' = Tail(backlog)
      /\ UNCHANGED <<username, ports, groups, ready, cursor, conn, inbox, toClient, sent, session>>
    BY DEF Accept, Inv, Stages
<1>2. PICK d \in Fds :
        /\ IsLowest(d, FreeFds)
        /\ fds' = [fds EXCEPT ![d] = Head(backlog)]
        /\ \/ \E i \in Slots : /\ IsLowest(i, Slots \ Occupied)
                              /\ socket' = [socket EXCEPT ![i] = d]
                              /\ todo' = <<>>
           \/ /\ IsFull
              /\ todo' = <<Send(d, [type |-> "TOO_FULL"]), Close(d)>>
              /\ UNCHANGED socket
    BY DEF Accept
<1>3. /\ backlog \in Seq(Procs) /\ Head(backlog) = backlog[1] /\ Head(backlog) \in Procs
      /\ 1 \in DOMAIN backlog /\ backlog' \in Seq(Procs)
      /\ \A n \in DOMAIN backlog' :
            n \in Nat /\ n + 1 \in DOMAIN backlog /\ backlog'[n] = backlog[n + 1]
  <2>1. backlog \in Seq(Procs)
      BY DEF Inv, TypeOK
  <2> QED BY <1>1, <2>1, HeadAndTail
<1>4. fds[d] = Free /\ Free \notin Procs /\ \A j \in Occupied : socket[j] # d
    BY <1>2, MarksAreApart DEF IsLowest, FreeFds, Inv, SlotTable, SlotsHoldConnections, Peer
<1>5. /\ fds' \in [Fds -> Procs \cup {Free, File}]
      /\ fds'[d] = backlog[1] /\ \A e \in Fds : e # d => fds'[e] = fds[e]
    BY <1>2, <1>3 DEF Inv, TypeOK
<1>6. \A j \in Occupied : /\ socket[j] \in Fds /\ Peer(j) \in Procs
                          /\ fds'[socket[j]] = fds[socket[j]]
    BY <1>4, <1>5 DEF Inv, TypeOK, SlotTable, SlotsHoldConnections, Occupied, Peer
<1>7. OneDescriptorEach'
  <2>1. \A e \in Fds : fds[e] # backlog[1]
      BY <1>3 DEF Inv, SlotTable, QueuedOnce, Holds
  <2> QED BY <1>5, <2>1 DEF Inv, SlotTable, OneDescriptorEach
<1>8. QueuedOnce'
  <2>1. \A n, k \in DOMAIN backlog' : backlog'[n] = backlog'[k] => n = k
      BY <1>3 DEF Inv, SlotTable, QueuedOnce
  <2>2. ASSUME NEW n \in DOMAIN backlog', NEW e \in Fds PROVE fds'[e] # backlog'[n]
    <3>1. backlog'[n] = backlog[n + 1] /\ backlog[n + 1] # backlog[1]
        BY <1>3 DEF Inv, SlotTable, QueuedOnce
    <3>2. fds[e] # backlog[n + 1]
        BY <1>3 DEF Inv, SlotTable, QueuedOnce, Holds
    <3> QED BY <1>5, <3>1, <3>2
  <2> QED BY <2>1, <2>2 DEF QueuedOnce, Holds
<1>9. CallersHaveCalled'
  <2>1. \A e \in Fds : fds'[e] \in Procs => conn[fds'[e]] # "off"
      BY <1>3, <1>5 DEF Inv, CallersHaveCalled
  <2>2. \A n \in DOMAIN backlog' : conn[backlog'[n]] # "off"
      BY <1>3 DEF Inv, CallersHaveCalled
  <2> QED BY <1>1, <2>1, <2>2 DEF CallersHaveCalled
<1>10. \A e \in Fds : ~Refused(e)
    BY <1>1 DEF Refused
<1>11. Stages'
    BY <1>1 DEF Stages
<1>12. CASE \E i \in Slots : /\ IsLowest(i, Slots \ Occupied)
                             /\ socket' = [socket EXCEPT ![i] = d]
                             /\ todo' = <<>>
  <2>1. PICK i \in Slots : /\ IsLowest(i, Slots \ Occupied)
                           /\ socket' = [socket EXCEPT ![i] = d]
                           /\ todo' = <<>>
      BY <1>12
  <2>2. /\ i \notin Occupied /\ socket[i] = 0 /\ socket' \in [Slots -> Fds \cup {0}]
        /\ \A j \in Slots : socket'[j] = IF j = i THEN d ELSE socket[j]
      BY <2>1 DEF IsLowest, Occupied, Inv, TypeOK
  <2>3. todo' \in Seq(Operation) /\ DOMAIN todo' = {}
      BY <2>1
  <2>4. TypeOK'
      BY <1>1, <1>3, <1>5, <2>2, <2>3 DEF Inv, TypeOK
  <2>5. SlotsHoldConnections'
    <3>1. \A j \in Occupied' : j = i \/ j \in Occupied
        BY <2>2 DEF Occupied
    <3>2. \A j \in Occupied' : fds'[socket'[j]] \in Procs
        BY <1>3, <1>5, <1>6, <2>2, <3>1 DEF Peer, Occupied
    <3>3. \A j, k \in Occupied' : socket'[j] = socket'[k] => j = k
        BY <1>4, <2>2, <3>1 DEF Inv, SlotTable, SlotsHoldConnections, Occupied
    <3> QED BY <3>2, <3>3 DEF SlotsHoldConnections, Peer
  <2>6. NoDescriptorLost'
    <3> SUFFICES ASSUME NEW e \in Fds, fds'[e] \in Procs
                 PROVE  \E j \in Slots : socket'[j] = e
        BY <2>3 DEF NoDescriptorLost, Refused
    <3>1. CASE e = d
        BY <2>2, <3>1
    <3>2. CASE e # d
      <4>1. PICK j \in Slots : socket[j] = e
          BY <1>5, <1>10, <3>2 DEF Inv, SlotTable, NoDescriptorLost
      <4>2. j # i
          BY <2>2, <4>1 DEF Fds
      <4> QED BY <2>2, <4>1, <4>2
    <3> QED BY <3>1, <3>2
  <2>7. TodoIsSound'
      BY <2>3 DEF TodoIsSound
  <2>8. ReadyIsFresh'
    <3> SUFFICES ASSUME NEW j \in Slots, Due(j)' PROVE Readable(Peer(j))'
        BY <1>1 DEF ReadyIsFresh
    <3>1. d \notin ready
        BY <1>1, <1>4 DEF Inv, ReadyIsFresh
    <3>2. j # i /\ Due(j) /\ j \in Occupied
        BY <1>1, <2>2, <3>1 DEF Due, Occupied
    <3>3. Readable(Peer(j)) /\ Peer(j)' = Peer(j)
        BY <1>1, <1>6, <2>2, <3>2 DEF Inv, ReadyIsFresh, Peer
    <3> QED BY <1>1, <3>3 DEF Readable
  <2> QED BY <1>7, <1>8, <1>9, <1>11, <2>4, <2>5, <2>6, <2>7, <2>8 DEF Inv, SlotTable
<1>13. CASE /\ IsFull
            /\ todo' = <<Send(d, [type |-> "TOO_FULL"]), Close(d)>>
            /\ UNCHANGED socket
  <2>1. Send(d, [type |-> "TOO_FULL"]) \in Operation /\ Close(d) \in Operation
      BY DEF Send, Close, Operation, Message
  <2>2. /\ todo' \in Seq(Operation) /\ DOMAIN todo' = {1, 2} /\ Len(todo') = 2
        /\ todo'[1] = Send(d, [type |-> "TOO_FULL"]) /\ todo'[2] = Close(d)
      BY <1>13, <2>1, ShortSequences
  <2>3. /\ todo'[1].op = "send" /\ todo'[1].fd = d
        /\ todo'[2].op = "close" /\ todo'[2].fd = d
      BY <2>2 DEF Send, Close
  <2>4. TypeOK'
      BY <1>1, <1>3, <1>5, <1>13, <2>2 DEF Inv, TypeOK
  <2>5. SlotsHoldConnections'
      BY <1>6, <1>13 DEF Inv, SlotTable, SlotsHoldConnections, Peer, Occupied
  <2>6. NoDescriptorLost'
    <3>1. \A e \in Fds : Refused(e)' <=> e = d
        BY <2>2, <2>3 DEF Refused
    <3>2. \A j \in Slots : socket'[j] # d
        BY <1>4, <1>13 DEF Occupied, Fds
    <3>3. \A e \in Fds : e # d /\ fds'[e] \in Procs => \E j \in Slots : socket'[j] = e
        BY <1>5, <1>10, <1>13 DEF Inv, SlotTable, NoDescriptorLost
    <3> QED BY <3>1, <3>2, <3>3 DEF NoDescriptorLost
  <2>7. TodoIsSound'
      BY <1>3, <1>5, <2>2, <2>3 DEF TodoIsSound
  <2>8. ReadyIsFresh'
    <3> SUFFICES ASSUME NEW j \in Slots, Due(j)' PROVE Readable(Peer(j))'
        BY <1>1 DEF ReadyIsFresh
    <3>1. Due(j) /\ j \in Occupied
        BY <1>1, <1>13 DEF Due, Occupied
    <3>2. Readable(Peer(j)) /\ Peer(j)' = Peer(j)
        BY <1>1, <1>6, <1>13, <3>1 DEF Inv, ReadyIsFresh, Peer
    <3> QED BY <1>1, <3>2 DEF Readable
  <2> QED BY <1>7, <1>8, <1>9, <1>11, <2>4, <2>5, <2>6, <2>7, <2>8 DEF Inv, SlotTable
<1> QED BY <1>2, <1>12, <1>13

-----------------------------------------------------------------------------
(* What a handler left to do.                                              *)
LEMMA TransmitKeepsInv ==
    ASSUME Inv, Transmit
    PROVE  Inv'
<1>1. /\ todo # <<>> /\ todo' = Tail(todo) /\ Head(todo).op = "send"
      /\ UNCHANGED <<socket, username, ports, groups, fds, ready, pc, cursor, backlog, inbox,
                     sent, session>>
    BY DEF Transmit
<1>2. todo \in Seq(Operation)
    BY DEF Inv, TypeOK
<1>3. /\ Len(todo) \in Nat /\ Head(todo) = todo[1] /\ Head(todo) \in Operation /\ 1 \in DOMAIN todo
      /\ todo' \in Seq(Operation) /\ Len(todo') = Len(todo) - 1
      /\ \A n \in DOMAIN todo' : n \in Nat /\ n + 1 \in DOMAIN todo /\ todo'[n] = todo[n + 1]
      /\ \A n \in DOMAIN todo : n # 1 => n - 1 \in DOMAIN todo' /\ todo[n] = todo'[n - 1]
    BY <1>1, <1>2, HeadAndTail
<1>4. Head(todo).msg \in Message
    BY <1>1, <1>3 DEF Operation
<1>5. /\ conn' \in [Procs -> {"off", "up", "fin", "rst", "finrst", "gone"}]
      /\ toClient' \in [Procs -> Seq(Message)]
      /\ \A c \in Procs : conn'[c] = "off" => conn[c] = "off"
      /\ \A c \in Procs : conn'[c] = "up" => conn[c] = "up"
  <2> DEFINE c == fds[Head(todo).fd]
  <2>0. c \in Procs
      BY <1>1, <1>3 DEF Inv, TodoIsSound
  <2> HIDE DEF c
  <2>1. CASE /\ TakesSend(c)
             /\ toClient' = [toClient EXCEPT ![c] = Append(@, Head(todo).msg)]
             /\ UNCHANGED conn
    <3>1. toClient \in [Procs -> Seq(Message)]
        BY DEF Inv, TypeOK
    <3>2. Append(toClient[c], Head(todo).msg) \in Seq(Message)
        BY <1>4, <2>0, <3>1, Appended
    <3>3. toClient' \in [Procs -> Seq(Message)]
        BY <2>1, <3>1, <3>2
    <3> QED BY <2>1, <3>3 DEF Inv, TypeOK
  <2>2. CASE /\ conn[c] = "fin"
             /\ \E after \in {"fin", "finrst"} : conn' = [conn EXCEPT ![c] = after]
             /\ UNCHANGED toClient
      BY <2>2 DEF Inv, TypeOK
  <2> QED BY <2>1, <2>2 DEF Transmit, c
<1>6. TypeOK'
    BY <1>1, <1>3, <1>5 DEF Inv, TypeOK
<1>7. SlotTable'
  <2>1. SlotsHoldConnections' /\ OneDescriptorEach' /\ QueuedOnce'
      BY <1>1 DEF Inv, SlotTable, SlotsHoldConnections, OneDescriptorEach, QueuedOnce,
          Occupied, Peer, Holds
  <2>2. \A d \in Fds : Refused(d)' <=> Refused(d)
    <3>1. ASSUME NEW d \in Fds, Refused(d)' PROVE Refused(d)
        BY <1>3, <3>1 DEF Refused
    <3>2. ASSUME NEW d \in Fds, Refused(d) PROVE Refused(d)'
      <4>1. PICK n \in DOMAIN todo : todo[n].op = "close" /\ todo[n].fd = d
          BY <3>2 DEF Refused
      <4>2. n # 1
          BY <1>1, <1>3, <4>1
      <4>3. n - 1 \in DOMAIN todo' /\ todo'[n - 1] = todo[n]
          BY <1>3, <4>2
      <4> QED BY <4>1, <4>3 DEF Refused
    <3> QED BY <3>1, <3>2
  <2> QED BY <1>1, <2>1, <2>2 DEF Inv, SlotTable, NoDescriptorLost
<1>8. Stages'
    BY <1>1, <1>3 DEF Inv, Stages
<1>9. TodoIsSound'
    BY <1>1, <1>3 DEF Inv, TodoIsSound
<1>10. CallersHaveCalled'
    BY <1>1, <1>5 DEF Inv, TypeOK, CallersHaveCalled
<1>11. ReadyIsFresh'
  <2>1. ASSUME NEW i \in Slots, Due(i), Readable(Peer(i)) PROVE Readable(Peer(i))'
    <3>1. Peer(i) \in Procs /\ Peer(i)' = Peer(i)
        BY <1>1, <2>1 DEF Inv, SlotTable, SlotsHoldConnections, Occupied, Due, Peer
    <3> QED BY <1>1, <1>5, <2>1, <3>1 DEF Readable
  <2> QED BY <1>1, <2>1 DEF Inv, ReadyIsFresh, Due
<1> QED BY <1>6, <1>7, <1>8, <1>9, <1>10, <1>11 DEF Inv

(* The last thing a handler does is to close d: slot i goes with it if it  *)
(* is the drop of a failed login (i = 0 stands for a refused caller).      *)
LEMMA CloseKeepsInv ==
    ASSUME Inv, NEW d \in Fds, fds[d] \in Procs, HangUp(d), Len(todo) = 1,
           todo # <<>>, todo' = Tail(todo), pc' = pc,
           UNCHANGED <<username, ports, groups, ready, cursor, backlog, toClient, sent, session>>,
           socket' \in [Slots -> Fds \cup {0}],
           \A j \in Slots : socket'[j] = IF socket[j] = d THEN 0 ELSE socket[j],
           \A e \in Fds : Refused(e) => e = d
    PROVE  Inv'
<1>1. todo' \in Seq(Operation) /\ DOMAIN todo' = {} /\ todo' = <<>>
  <2>1. todo \in Seq(Operation)
      BY DEF Inv, TypeOK
  <2>2. todo' \in Seq(Operation) /\ Len(todo') = 0
      BY <2>1, HeadAndTail
  <2> QED BY <2>2, EmptySeq
<1>2. /\ fds' \in [Fds -> Procs \cup {Free, File}]
      /\ inbox' \in [Procs -> Seq(Request)]
      /\ conn' \in [Procs -> {"off", "up", "fin", "rst", "finrst", "gone"}]
      /\ fds'[d] = Free /\ \A e \in Fds : e # d => fds'[e] = fds[e]
      /\ \A c \in Procs : c # fds[d] => inbox'[c] = inbox[c] /\ conn'[c] = conn[c]
      /\ \A c \in Procs : conn'[c] = "off" => conn[c] = "off"
    BY HangUpEffect DEF Inv, SlotTable
<1>3. \A j \in Occupied' : /\ j \in Occupied /\ socket'[j] = socket[j] /\ socket[j] # d
                          /\ socket[j] \in Fds
    BY DEF Occupied, Inv, TypeOK
<1>4. \A j \in Occupied' : Peer(j)' = Peer(j) /\ Peer(j) \in Procs /\ Peer(j) # fds[d]
    BY <1>2, <1>3 DEF Inv, SlotTable, SlotsHoldConnections, OneDescriptorEach, Peer
<1>5. TypeOK'
    BY <1>1, <1>2 DEF Inv, TypeOK
<1>6. SlotTable'
  <2>1. SlotsHoldConnections'
      BY <1>3, <1>4 DEF Inv, SlotTable, SlotsHoldConnections
  <2>2. OneDescriptorEach'
    <3>1. ASSUME NEW e \in Fds, NEW f \in Fds, fds'[e] = fds'[f], fds'[e] \in Procs
          PROVE  e = f
      <4>1. e # d /\ f # d
          BY <1>2, <3>1, MarksAreApart
      <4>2. fds[e] = fds[f] /\ fds[e] \in Procs
          BY <1>2, <3>1, <4>1
      <4> QED BY <4>2 DEF Inv, SlotTable, OneDescriptorEach
    <3> QED BY <3>1 DEF OneDescriptorEach
  <2>3. QueuedOnce'
      BY <1>2, MarksAreApart DEF Inv, SlotTable, QueuedOnce, Holds, TypeOK
  <2>4. NoDescriptorLost'
    <3> SUFFICES ASSUME NEW e \in Fds, fds'[e] \in Procs
                 PROVE  \E j \in Slots : socket'[j] = e
        BY <1>1 DEF NoDescriptorLost, Refused
    <3>1. e # d /\ fds[e] \in Procs
        BY <1>2, MarksAreApart
    <3> QED BY <3>1 DEF Inv, SlotTable, NoDescriptorLost
  <2> QED BY <2>1, <2>2, <2>3, <2>4 DEF SlotTable
<1>7. Stages' /\ TodoIsSound'
    BY <1>1 DEF Inv, Stages, TodoIsSound
<1>8. CallersHaveCalled'
  <2>1. \A e \in Fds : fds'[e] \in Procs => conn'[fds'[e]] # "off"
    <3> TAKE e \in Fds
    <3> HAVE fds'[e] \in Procs
    <3>1. e # d /\ fds'[e] = fds[e] /\ fds[e] \in Procs
        BY <1>2, MarksAreApart
    <3>2. conn[fds[e]] # "off"
        BY <3>1 DEF Inv, CallersHaveCalled
    <3> QED BY <1>2, <3>1, <3>2
  <2>2. \A n \in DOMAIN backlog : backlog[n] \in Procs /\ conn[backlog[n]] # "off"
      BY DEF Inv, TypeOK, CallersHaveCalled
  <2> QED BY <1>2, <2>1, <2>2 DEF CallersHaveCalled
<1>9. ReadyIsFresh'
  <2>1. pc # "accept"
      BY DEF Inv, Stages
  <2>2. ASSUME NEW j \in Slots, pc = "scan", Due(j)' PROVE Readable(Peer(j))'
    <3>1. j \in Occupied' /\ Due(j)
        BY <1>3, <2>2 DEF Due, Occupied
    <3>2. Readable(Peer(j))
        BY <2>2, <3>1 DEF Inv, ReadyIsFresh
    <3> QED BY <1>2, <1>4, <3>1, <3>2 DEF Readable
  <2> QED BY <2>1, <2>2 DEF ReadyIsFresh
<1> QED BY <1>5, <1>6, <1>7, <1>8, <1>9 DEF Inv

(* The close that ends send_too_full_message.                              *)
LEMMA CloseRefusedKeepsInv ==
    ASSUME Inv, CloseRefused
    PROVE  Inv'
<1> DEFINE d == Head(todo).fd
<1>1. /\ todo # <<>> /\ Head(todo).op = "close" /\ HangUp(d) /\ todo' = Tail(todo)
      /\ UNCHANGED <<socket, username, ports, groups, ready, pc, cursor, backlog, toClient, sent,
                     session>>
    BY DEF CloseRefused
<1>2. todo \in Seq(Operation)
    BY DEF Inv, TypeOK
<1>3. Head(todo) = todo[1] /\ Head(todo) \in Operation /\ DOMAIN todo = 1..Len(todo)
      /\ 1 \in DOMAIN todo
    BY <1>1, <1>2, HeadAndTail
<1>4. d \in Fds /\ fds[d] \in Procs /\ Len(todo) = 1 /\ Refused(d)
    BY <1>1, <1>3 DEF Inv, TodoIsSound, Operation, Refused
<1>5. \A j \in Slots : socket[j] # d
    BY <1>4 DEF Inv, SlotTable, NoDescriptorLost
<1>6. \A e \in Fds : Refused(e) => e = d
    BY <1>3, <1>4 DEF Refused
<1>7. /\ socket' \in [Slots -> Fds \cup {0}]
      /\ \A j \in Slots : socket'[j] = IF socket[j] = d THEN 0 ELSE socket[j]
    BY <1>1, <1>5 DEF Inv, TypeOK
<1> HIDE DEF d
<1> QED BY <1>1, <1>4, <1>6, <1>7, CloseKeepsInv

(* The close that ends a failed login.                                     *)
LEMMA DropSlotKeepsInv ==
    ASSUME Inv, DropSlot
    PROVE  Inv'
<1> DEFINE i == Head(todo).slot
           d == socket[i]
<1>1. /\ todo # <<>> /\ Head(todo).op = "drop" /\ HangUp(d) /\ todo' = Tail(todo)
      /\ socket' = [socket EXCEPT ![i] = 0]
      /\ UNCHANGED <<username, ports, groups, ready, pc, cursor, backlog, toClient, sent, session>>
    BY DEF DropSlot
<1>2. todo \in Seq(Operation)
    BY DEF Inv, TypeOK
<1>3. Head(todo) = todo[1] /\ Head(todo) \in Operation /\ DOMAIN todo = 1..Len(todo)
      /\ 1 \in DOMAIN todo
    BY <1>1, <1>2, HeadAndTail
<1>4. i \in Slots /\ i \in Occupied /\ Len(todo) = 1
    BY <1>1, <1>3 DEF Inv, TodoIsSound, Operation, Occupied
<1>5. d \in Fds /\ fds[d] \in Procs
    BY <1>4 DEF Inv, TypeOK, SlotTable, SlotsHoldConnections, Occupied, Peer
<1>6. \A e \in Fds : ~Refused(e)
    BY <1>1, <1>3, <1>4 DEF Refused
<1>7. \A j \in Slots : socket[j] = d => j = i
    BY <1>4, <1>5 DEF Inv, SlotTable, SlotsHoldConnections, Occupied, Fds
<1>8. /\ socket' \in [Slots -> Fds \cup {0}]
      /\ \A j \in Slots : socket'[j] = IF socket[j] = d THEN 0 ELSE socket[j]
    BY <1>1, <1>7 DEF Inv, TypeOK
<1> HIDE DEF d
<1> QED BY <1>1, <1>4, <1>5, <1>6, <1>8, CloseKeepsInv

-----------------------------------------------------------------------------
(* The clients.                                                            *)
LEMMA ClientConnectKeepsInv ==
    ASSUME Inv, NEW c \in Procs, ClientConnect(c)
    PROVE  Inv'
<1>1. /\ conn[c] = "off" /\ conn' = [conn EXCEPT ![c] = "up"] /\ backlog' = Append(backlog, c)
      /\ UNCHANGED <<socket, username, ports, groups, fds, ready, pc, cursor, todo>>
      /\ UNCHANGED <<inbox, toClient, sent, session>>
    BY DEF ClientConnect, server
<1>2. backlog \in Seq(Procs)
    BY DEF Inv, TypeOK
<1>3. /\ backlog' \in Seq(Procs) /\ backlog' # <<>>
      /\ Len(backlog) \in Nat /\ DOMAIN backlog = 1..Len(backlog)
      /\ \A n \in DOMAIN backlog' :
            \/ n \in DOMAIN backlog /\ backlog'[n] = backlog[n]
            \/ n = Len(backlog) + 1 /\ backlog'[n] = c
    BY <1>1, <1>2, Appended
<1>4. /\ conn' \in [Procs -> {"off", "up", "fin", "rst", "finrst", "gone"}] /\ conn'[c] = "up"
      /\ \A d \in Procs : d # c => conn'[d] = conn[d]
    BY <1>1 DEF Inv, TypeOK
<1>5. /\ \A d \in Fds : fds[d] # c
      /\ \A n \in DOMAIN backlog : backlog[n] # c
    BY <1>1 DEF Inv, CallersHaveCalled
<1>6. TypeOK'
    BY <1>1, <1>3, <1>4 DEF Inv, TypeOK
<1>7. SlotTable'
  <2>1. SlotsHoldConnections' /\ OneDescriptorEach' /\ NoDescriptorLost'
      BY <1>1 DEF Inv, SlotTable, SlotsHoldConnections, OneDescriptorEach, NoDescriptorLost,
          Refused, Occupied, Peer
  <2>2. QueuedOnce'
      BY <1>1, <1>3, <1>5 DEF Inv, SlotTable, QueuedOnce, Holds
  <2> QED BY <2>1, <2>2 DEF SlotTable
<1>8. Stages' /\ TodoIsSound'
    BY <1>1, <1>3 DEF Inv, Stages, TodoIsSound
<1>9. CallersHaveCalled'
    BY <1>1, <1>2, <1>3, <1>4, <1>5 DEF Inv, CallersHaveCalled
<1>10. ReadyIsFresh'
  <2>1. ASSUME NEW i \in Slots, Due(i), Readable(Peer(i)) PROVE Readable(Peer(i))'
    <3>1. Peer(i) \in Procs /\ Peer(i)' = Peer(i) /\ Peer(i) # c
        BY <1>1, <1>5, <2>1 DEF Inv, TypeOK, SlotTable, SlotsHoldConnections, Occupied, Due, Peer
    <3> QED BY <1>1, <1>4, <2>1, <3>1 DEF Readable
  <2> QED BY <1>1, <2>1 DEF Inv, ReadyIsFresh, Due
<1> QED BY <1>6, <1>7, <1>8, <1>9, <1>10 DEF Inv

(* Whatever a process sends, reads or leaves behind, the server's tables   *)
(* do not move and what was readable stays so.                             *)
LEMMA ClientKeepsInv ==
    ASSUME Inv, NEW c \in Procs, UNCHANGED server, UNCHANGED <<backlog, session>>,
           inbox' \in [Procs -> Seq(Request)], toClient' \in [Procs -> Seq(Message)],
           sent' \in [Procs -> Nat],
           conn' \in [Procs -> {"off", "up", "fin", "rst", "finrst", "gone"}],
           \A d \in Procs : conn'[d] = "off" => conn[d] = "off",
           \A d \in Procs : conn'[d] = "up" => conn[d] = "up",
           \A d \in Procs : inbox[d] # <<>> => inbox'[d] # <<>>
    PROVE  Inv'
<1>1. UNCHANGED <<socket, username, ports, groups, fds, ready, pc, cursor, todo>>
    BY DEF server
<1>2. TypeOK'
    BY <1>1 DEF Inv, TypeOK
<1>3. SlotTable'
    BY <1>1 DEF Inv, SlotTable, SlotsHoldConnections, OneDescriptorEach, QueuedOnce,
        NoDescriptorLost, Refused, Occupied, Peer, Holds
<1>4. Stages' /\ TodoIsSound'
    BY <1>1 DEF Inv, Stages, TodoIsSound
<1>5. CallersHaveCalled'
    BY <1>1 DEF Inv, TypeOK, CallersHaveCalled
<1>6. ReadyIsFresh'
  <2>1. ASSUME NEW i \in Slots, Due(i), Readable(Peer(i)) PROVE Readable(Peer(i))'
    <3>1. Peer(i) \in Procs /\ Peer(i)' = Peer(i)
        BY <1>1, <2>1 DEF Inv, SlotTable, SlotsHoldConnections, Occupied, Due, Peer
    <3> QED BY <2>1, <3>1 DEF Readable
  <2> QED BY <1>1, <2>1 DEF Inv, ReadyIsFresh, Due
<1> QED BY <1>2, <1>3, <1>4, <1>5, <1>6 DEF Inv

(* A process that ends makes its socket readable, never the reverse.       *)
LEMMA LeaveEffect ==
    ASSUME TypeOK, NEW c \in Procs, conn[c] = "up", NEW unread, Leave(c, unread)
    PROVE  /\ toClient' \in [Procs -> Seq(Message)]
           /\ conn' \in [Procs -> {"off", "up", "fin", "rst", "finrst", "gone"}]
           /\ \A d \in Procs : conn'[d] = "off" => conn[d] = "off"
           /\ \A d \in Procs : conn'[d] = "up" => conn[d] = "up"
<1>1. <<>> \in Seq(Message)
    OBVIOUS
<1>2. PICK how \in {"gone", "fin", "rst"} : conn' = [conn EXCEPT ![c] = how]
    BY DEF Leave
<1> QED BY <1>1, <1>2 DEF Leave, TypeOK

(* Every step of a client.                                                 *)
LEMMA ClientStepKeepsInv ==
    ASSUME Inv, NEW c \in Procs, ClientStep(c)
    PROVE  Inv'
<1>1. CASE ClientConnect(c)
    BY <1>1, ClientConnectKeepsInv
<1>2. CASE ClientSend(c)
  <2>1. PICK m \in Logins \cup Commands : inbox' = [inbox EXCEPT ![c] = Append(@, m)]
      BY <1>2 DEF ClientSend
  <2>2. m \in Request /\ inbox[c] \in Seq(Request)
      BY <2>1, RequestsAreTyped DEF Request, Inv, TypeOK
  <2>3. Append(inbox[c], m) \in Seq(Request) /\ Append(inbox[c], m) # <<>>
      BY <2>2, Appended
  <2>4. /\ inbox' \in [Procs -> Seq(Request)]
        /\ \A d \in Procs : inbox[d] # <<>> => inbox'[d] # <<>>
      BY <2>1, <2>3 DEF Inv, TypeOK
  <2>5. /\ UNCHANGED <<server, backlog, conn, toClient, session>> /\ sent' \in [Procs -> Nat]
      BY <1>2 DEF ClientSend, Inv, TypeOK
  <2> QED BY <2>4, <2>5, ClientKeepsInv DEF Inv, TypeOK
<1>3. CASE ClientRecv(c)
  <2>1. toClient[c] \in Seq(Message) /\ toClient[c] # <<>> /\ conn[c] = "up"
      BY <1>3 DEF ClientRecv, Attends, Inv, TypeOK
  <2>2. Tail(toClient[c]) \in Seq(Message)
      BY <2>1, HeadAndTail
  <2>3. CASE toClient' = [toClient EXCEPT ![c] = Tail(@)] /\ UNCHANGED conn
      BY <1>3, <2>2, <2>3, ClientKeepsInv DEF ClientRecv, Inv, TypeOK
  <2>4. CASE Leave(c, Tail(toClient[c]))
      BY <1>3, <2>1, <2>4, LeaveEffect, ClientKeepsInv DEF ClientRecv, Inv, TypeOK
  <2> QED BY <1>3, <2>3, <2>4 DEF ClientRecv
<1>4. CASE ClientEof(c)
    BY <1>4, LeaveEffect, ClientKeepsInv DEF ClientEof, Inv, TypeOK
<1>5. CASE ClientExit(c)
    BY <1>5, LeaveEffect, ClientKeepsInv DEF ClientExit, Inv, TypeOK
<1> QED BY <1>1, <1>2, <1>3, <1>4, <1>5 DEF ClientStep

-----------------------------------------------------------------------------
(* Every step of the system keeps the invariant.                           *)
LEMMA StepKeepsInv == Inv /\ [Next]_vars => Inv'
<1> SUFFICES ASSUME Inv, [Next]_vars PROVE Inv'
    OBVIOUS
<1>1. CASE Select
    BY <1>1, SelectKeepsInv
<1>2. CASE Accept
    BY <1>2, AcceptKeepsInv
<1>3. CASE Quit \/ AcceptFails \/ SendFails
    BY <1>3, StopKeepsInv
<1>4. CASE EndPass
    BY <1>4, EndPassKeepsInv
<1>5. CASE Transmit
    BY <1>5, TransmitKeepsInv
<1>6. CASE CloseRefused
    BY <1>6, CloseRefusedKeepsInv
<1>7. CASE DropSlot
    BY <1>7, DropSlotKeepsInv
<1>8. CASE \E i \in Slots : HandleRequest(i) \/ HandleReset(i) \/ HandleDisconnect(i)
    BY <1>8, HandleRequestKeepsInv, HandleResetKeepsInv, HandleDisconnectKeepsInv
<1>9. CASE \E c \in Procs : ClientStep(c)
    BY <1>9, ClientStepKeepsInv
<1>10. CASE UNCHANGED vars
    BY <1>10 DEF vars, server, network, Inv, TypeOK, SlotTable, SlotsHoldConnections,
        OneDescriptorEach, QueuedOnce, NoDescriptorLost, Refused, Occupied, Peer, Holds, Stages,
        TodoIsSound, CallersHaveCalled, ReadyIsFresh, Due, Readable
<1> QED BY <1>1, <1>2, <1>3, <1>4, <1>5, <1>6, <1>7, <1>8, <1>9, <1>10 DEF Next, ServerStep

(* The invariant holds in every reachable state.                           *)
THEOREM InvHolds == Spec => []Inv
<1>1. Init => Inv
    BY InitHolds
<1>2. Inv /\ [Next]_vars => Inv'
    BY StepKeepsInv
<1> QED BY <1>1, <1>2, PTL DEF Spec

(* Every variable keeps its type, however many slots, descriptors, clients *)
(* and requests there are.                                                 *)
THEOREM TypeCorrect == Spec => []TypeOK
<1>1. Inv => TypeOK
    BY DEF Inv
<1> QED BY <1>1, InvHolds, PTL

(* The slot table, the descriptor table and the queue always agree.        *)
THEOREM SlotTableHolds == Spec => []SlotTable
<1>1. Inv => SlotTable
    BY DEF Inv
<1> QED BY <1>1, InvHolds, PTL

(* The loop of main never calls recv() on a socket with nothing to return. *)
THEOREM NeverBlocksInRecvHolds == Spec => []NeverBlocksInRecv
<1>1. Inv => NeverBlocksInRecv
    BY DEF Inv, ReadyIsFresh, NeverBlocksInRecv
<1> QED BY <1>1, InvHolds, PTL
=============================================================================
