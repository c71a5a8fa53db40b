----------------------------- MODULE ChatServer -----------------------------
(***************************************************************************)
(* The chat server (server.c): one thread around select(), a table of      *)
(* MAX_CLIENTS slots, the group file, the descriptors of the process and   *)
(* the TCP connections of the client processes that call it.               *)
(*                                                                         *)
(* One pass of main's loop is Select (or Quit), then Accept, then one      *)
(* handler per ready slot in slot order, then EndPass.  A handler computes *)
(* its effect in one step and leaves in todo what it still has to do on    *)
(* sockets: the sends, which may block or kill the server one at a time,   *)
(* and the closes that follow them.                                        *)
(*                                                                         *)
(* Not in this module: the bodies that follow SEND_FILE on the socket, and *)
(* what one client makes of a message (client.c).  Texts are left out.     *)
(***************************************************************************)
EXTENDS Naturals, Sequences, FiniteSets, GroupFile

CONSTANTS
    MaxClients,      \* MAX_CLIENTS
    MaxFds,          \* descriptors left to the server after stdio and listen
    Backlog,         \* length of the queue of the listening socket
    BufCap,          \* messages a socket takes before send() blocks
    MaxRequests,     \* messages one client sends at most
    FirstPort,       \* PORTS at the start
    Procs,           \* client processes
    Users,           \* user names
    Passwords,       \* passwords
    NoPassword,      \* a login line without a password
    Accounts,        \* registeredUsers.txt: pairs of a name and a password
    GroupNames,      \* group names as they are typed or read from the file
    Logins,          \* SET_USERNAME messages a client may send
    Commands,        \* other messages a client may send
    InitialGroups,   \* groups.txt at the start
    Free, File       \* a free descriptor, a descriptor of a file left open

Slots == 1..MaxClients
Fds == 1..MaxFds
Names == Users \cup {NoName}
Lines == [name : GroupNames \cup {NoName}, members : Seq(Names)]

(* chatroom_utils.h: the messages of the clients ...                       *)
LoginMsg == [type : {"SET_USERNAME"}, user : Users, pass : Passwords \cup {NoPassword}]
CommandMsg ==
         [type : {"GET_USERS", "RECEIVE_FILE", "UNKNOWN"}]
    \cup [type : {"PRIVATE_MESSAGE"}, to : Names]
    \cup [type : {"PUBLIC_MESSAGE"}, group : GroupNames]
    \cup [type : {"CREATE_GROUP"}, group : GroupNames, members : Seq(Names), newline : BOOLEAN]
    \cup [type : {"JOIN_GROUP"}, group : GroupNames]
Request == LoginMsg \cup CommandMsg

(* ... and those of the server.                                            *)
Message ==
         [type : {"SUCCESS"}, name : Names, ok : BOOLEAN]
    \cup [type : {"DISCONNECT"}, name : Names]
    \cup [type : {"GET_USERS"}, list : SUBSET Names]
    \cup [type : {"PRIVATE_MESSAGE"}, name : Names, port : Nat]
    \cup [type : {"PUBLIC_MESSAGE"}, name : Names, group : GroupNames]
    \cup [type : {"USERNAME_ERROR"}, to : Names]
    \cup [type : {"CREATE_GROUP"}, group : GroupNames]
    \cup [type : {"JOIN_GROUP"}, group : GroupNames, added : BOOLEAN]
    \cup [type : {"TOO_FULL"}]

(* What a handler still has to do on its sockets.                          *)
Send(fd, m) == [op |-> "send", fd |-> fd, msg |-> m]
Close(fd) == [op |-> "close", fd |-> fd]
Drop(i) == [op |-> "drop", slot |-> i]
Operation ==
         [op : {"send"}, fd : Fds, msg : Message]
    \cup [op : {"close"}, fd : Fds]
    \cup [op : {"drop"}, slot : Slots]

ASSUME BoundsAreNaturals ==
    /\ MaxClients \in Nat \ {0} /\ MaxFds \in Nat /\ Backlog \in Nat
    /\ BufCap \in Nat /\ MaxRequests \in Nat /\ FirstPort \in Nat
ASSUME RequestsAreTyped ==
    /\ Logins \subseteq LoginMsg /\ Commands \subseteq CommandMsg
    /\ InitialGroups \in Seq(Lines)
ASSUME MarksAreApart == Free \notin Procs /\ File \notin Procs /\ Free # File

VARIABLES
    socket,     \* clients[i].socket: a descriptor, or 0
    username,   \* clients[i].username: survives the connection that set it
    ports,      \* PORTS
    groups,     \* groups.txt
    fds,        \* the server's descriptor table
    ready,      \* the client descriptors the last select() left in the set
    pc,         \* where the thread stands
    cursor,     \* the loop index of main
    todo,       \* what the running handler still has to do
    backlog,    \* connections not accepted yet
    conn,       \* each process's connection, as the server's kernel sees it
    inbox,      \* bytes from a process the server has not read
    toClient,   \* bytes for a process the process has not read
    sent,       \* messages a process has sent
    session     \* history: the name a process last logged in with

server == <<socket, username, ports, groups, fds, ready, pc, cursor, todo>>
network == <<backlog, conn, inbox, toClient, sent>>
vars == <<server, network, session>>

-----------------------------------------------------------------------------
Down == pc \in {"quit", "exit", "fault"}
Peer(i) == fds[socket[i]]
Occupied == { i \in Slots : socket[i] # 0 }
Holds(c) == \E d \in Fds : fds[d] = c
Waiting(c) == \E n \in DOMAIN backlog : backlog[n] = c
Attached(c) == Holds(c) \/ Waiting(c)

FreeFds == { d \in Fds : fds[d] = Free }
IsLowest(d, S) == d \in S /\ \A e \in S : d <= e

(* mutant: only data makes a descriptor readable *)
ReadableData(c) == inbox[c] # <<>>

(* select() finds a descriptor readable: data, end of file or an error.    *)
Readable(c) == inbox[c] # <<>> \/ conn[c] # "up"

Init ==
    /\ socket = [i \in Slots |-> 0]
    /\ username = [i \in Slots |-> NoName]     \* stack bytes, nobody's name
    /\ ports = FirstPort
    /\ groups = InitialGroups
    /\ fds = [d \in Fds |-> Free]
    /\ ready = {}
    /\ pc = "select"
    /\ cursor = 1
    /\ todo = <<>>
    /\ backlog = <<>>
    /\ conn = [c \in Procs |-> "off"]
    /\ inbox = [c \in Procs |-> <<>>]
    /\ toClient = [c \in Procs |-> <<>>]
    /\ sent = [c \in Procs |-> 0]
    /\ session = [c \in Procs |-> NoName]

-----------------------------------------------------------------------------
(* mutant: the set select() is given is taken for what it returned *)
ReadyAll == { socket[i] : i \in Occupied }

(* mutant: construct_fd_set leaves the last slot out *)
ReadyButLast == { socket[i] : i \in { j \in Occupied : Readable(Peer(j)) /\ j < MaxClients } }

(* main's loop: construct_fd_set and select.                               *)
ReadyNow == { socket[i] : i \in { j \in Occupied : Readable(Peer(j)) } }

(* mutant: no call is taken while the room is full *)
StageUnlessFull == IF backlog # <<>> /\ Occupied # Slots THEN "accept" ELSE "scan"

Stage == IF backlog # <<>> THEN "accept" ELSE "scan"

Select ==
    /\ pc = "select"
    /\ ReadyNow # {} \/ backlog # <<>>
    /\ ready' = ReadyNow
    /\ cursor' = 1
    /\ pc' = Stage
    /\ UNCHANGED <<socket, username, ports, groups, fds, todo, network, session>>

(* The operator types a line that starts with q: handle_user_input,        *)
(* stop_server.  Any other line changes nothing.                           *)
Quit ==
    /\ pc = "select"
    /\ pc' = "quit"
    /\ UNCHANGED <<socket, username, ports, groups, fds, ready, cursor, todo,
                   network, session>>

(* mutant: the test for the last slot comes before the search *)
IsFullByLastSlot == socket[MaxClients] # 0

IsFull == Occupied = Slots

(* handle_new_connection: the first free slot, or TOO_FULL and close.  The *)
(* slot keeps the name of its last user.                                   *)
Accept ==
    /\ pc = "accept"
    /\ \E d \in Fds :
        /\ IsLowest(d, FreeFds)
        /\ fds' = [fds EXCEPT ![d] = Head(backlog)]
        /\ \/ \E i \in Slots :
                /\ IsLowest(i, Slots \ Occupied)
                /\ socket' = [socket EXCEPT ![i] = d]
                /\ todo' = <<>>
           \/ /\ IsFull
              /\ todo' = <<Send(d, [type |-> "TOO_FULL"]), Close(d)>>
              /\ UNCHANGED socket
    /\ backlog' = Tail(backlog)
    /\ pc' = "scan"
    /\ UNCHANGED <<username, ports, groups, ready, cursor, conn, inbox, toClient,
                   sent, session>>

(* accept() fails without a free descriptor, and may fail because the      *)
(* length it is given was never set.                                       *)
AcceptFails ==
    /\ pc = "accept"
    /\ pc' = "exit"
    /\ UNCHANGED <<socket, username, ports, groups, fds, ready, cursor, todo,
                   network, session>>

Due(i) == i >= cursor /\ socket[i] # 0 /\ socket[i] \in ready

EndPass ==
    /\ pc = "scan" /\ todo = <<>>
    /\ \A i \in Slots : ~Due(i)
    /\ pc' = "select"
    /\ ready' = {}
    /\ UNCHANGED <<socket, username, ports, groups, fds, cursor, todo, network, session>>

-----------------------------------------------------------------------------
(* What the sends and closes of a handler do.                              *)
TakesSend(c) == conn[c] = "up" /\ Len(toClient[c]) < BufCap

(* send() succeeds.  To a process that has closed it succeeds as well: the *)
(* answer to the bytes is a reset, which may arrive before the next call.  *)
Transmit ==
    /\ ~Down /\ todo # <<>> /\ Head(todo).op = "send"
    /\ LET c == fds[Head(todo).fd] IN
        \/ /\ TakesSend(c)
           /\ toClient' = [toClient EXCEPT ![c] = Append(@, Head(todo).msg)]
           /\ UNCHANGED conn
        \/ /\ conn[c] = "fin"
           /\ \E after \in {"fin", "finrst"} : conn' = [conn EXCEPT ![c] = after]
           /\ UNCHANGED toClient
    /\ todo' = Tail(todo)
    /\ UNCHANGED <<socket, username, ports, groups, fds, ready, pc, cursor,
                   backlog, inbox, sent, session>>

(* send() to a connection that was reset: SIGPIPE, or "Send failed".       *)
SendFails ==
    /\ ~Down /\ todo # <<>> /\ Head(todo).op = "send"
    /\ conn[fds[Head(todo).fd]] \in {"rst", "finrst"}
    /\ pc' = "exit"
    /\ UNCHANGED <<socket, username, ports, groups, fds, ready, cursor, todo,
                   network, session>>

(* mutant: the socket is forgotten but not closed *)
HangUpNot(d) == d \in Fds /\ UNCHANGED <<fds, inbox, conn>>

(* close(): the descriptor is free again, what was not read is lost.       *)
HangUp(d) ==
    /\ fds' = [fds EXCEPT ![d] = Free]
    /\ inbox' = [inbox EXCEPT ![fds[d]] = <<>>]
    /\ conn' = [conn EXCEPT ![fds[d]] = IF @ = "up" THEN "up" ELSE "gone"]

(* The end of send_too_full_message.                                       *)
CloseRefused ==
    /\ ~Down /\ todo # <<>> /\ Head(todo).op = "close"
    /\ HangUp(Head(todo).fd)
    /\ todo' = Tail(todo)
    /\ UNCHANGED <<socket, username, ports, groups, ready, pc, cursor, backlog,
                   toClient, sent, session>>

(* The end of a login that failed.                                         *)
DropSlot ==
    /\ ~Down /\ todo # <<>> /\ Head(todo).op = "drop"
    /\ HangUp(socket[Head(todo).slot])
    /\ socket' = [socket EXCEPT ![Head(todo).slot] = 0]
    /\ todo' = Tail(todo)
    /\ UNCHANGED <<username, ports, groups, ready, pc, cursor, backlog, toClient,
                   sent, session>>

-----------------------------------------------------------------------------
(* The handlers of handle_client_message.  Each says what becomes of       *)
(* <<username, ports, groups, fds, pc, todo, session>>; the rest is said   *)
(* by the action that read the request.                                    *)
(* mutant: the slot is cleared before the answer goes out *)
ReplyTooLate(i, m) == <<Send(0, m)>>

Reply(i, m) == <<Send(socket[i], m)>>

Answer(i, m) ==
    /\ todo' = Reply(i, m)
    /\ UNCHANGED pc

Stop(how) ==
    /\ pc' = how
    /\ UNCHANGED <<username, ports, groups, fds, todo, session>>

(* A send per recipient, in the order of the loops that find them: by line *)
(* of the file, by member of the line, by slot.                            *)
Before(r, s) ==
    \/ r[1] < s[1]
    \/ r[1] = s[1] /\ r[2] < s[2]
    \/ r[1] = s[1] /\ r[2] = s[2] /\ r[3] < s[3]

InOrder(S) ==
    LET Lengths == { n \in {Cardinality(S)} : n \in Nat }
    IN  { r \in UNION { [1..n -> S] : n \in Lengths } :
            \A n \in DOMAIN r : n + 1 \in DOMAIN r => Before(r[n], r[n + 1]) }

SendAll(S, m) ==
    \E r \in InOrder(S) : todo' = [n \in DOMAIN r |-> Send(socket[r[n][3]], m)]

(* mutant: send_connect_message without its test for the sender *)
ConnectMessageToAll(i, u, ok) ==
    LET success == [type |-> "SUCCESS", name |-> u, ok |-> ok]
    IN  IF Occupied = Slots THEN [j \in Slots |-> Send(socket[j], success)]
        ELSE Reply(i, success)

(* send_connect_message, which answers the sender only.                    *)
ConnectMessage(i, u, ok) == Reply(i, [type |-> "SUCCESS", name |-> u, ok |-> ok])

(* mutant: a slot keeps the name of its first user *)
StoreFirstName(i, u) ==
    username' = [username EXCEPT ![i] = IF @ = NoName THEN u ELSE @]

StoreName(i, u) == username' = [username EXCEPT ![i] = u]

(* login: the name is stored whether or not the password is right.         *)
Login(i, m) ==
    LET ok == <<m.user, m.pass>> \in Accounts IN
    \/ FreeFds = {} /\ Stop("exit")
    \/ FreeFds # {} /\ m.pass = NoPassword /\ Stop("fault")
    \/ /\ FreeFds # {} /\ m.pass # NoPassword
       /\ StoreName(i, m.user)
       /\ session' = [session EXCEPT ![Peer(i)] = IF ok THEN m.user ELSE @]
       /\ todo' = ConnectMessage(i, m.user, ok) \o (IF ok THEN <<>> ELSE <<Drop(i)>>)
       /\ UNCHANGED <<ports, groups, fds, pc>>

SendUserList(i) ==
    /\ Answer(i, [type |-> "GET_USERS", list |-> { username[j] : j \in Occupied }])
    /\ UNCHANGED <<username, ports, groups, fds, session>>

(* mutant: the port is not used up *)
KeepPort == UNCHANGED ports

TakePort == ports' = ports + 1

(* send_private_message: both ends of the chat are told the same port.     *)
Addressed(i, u) == { j \in Occupied \ {i} : username[j] = u }

SendPrivateMessage(i, m) ==
    LET offer == [type |-> "PRIVATE_MESSAGE", name |-> username[i], port |-> ports]
    IN  /\ TakePort
        /\ \/ \E j \in Slots :
                /\ IsLowest(j, Addressed(i, m.to))
                /\ todo' = Reply(j, offer) \o Reply(i, offer)
           \/ /\ Addressed(i, m.to) = {}
              /\ todo' = Reply(i, [type |-> "USERNAME_ERROR", to |-> m.to])
        /\ UNCHANGED <<username, groups, fds, pc, session>>

LinesOf(g) == { k \in DOMAIN groups : groups[k].name = g }

(* Until create_group has been called there may be no groups.txt.          *)
NoGroupFile == groups = <<>>

(* send_public_message: groups.txt is opened and never closed.             *)
Recipients(i, g) ==
    LET Listed(k) == {k} \X (DOMAIN groups[k].members) \X (Occupied \ {i})
    IN  { r \in UNION { Listed(k) : k \in LinesOf(g) } :
            groups[r[1]].members[r[2]] = username[r[3]] }

SendPublicMessage(i, m) ==
    \/ (FreeFds = {} \/ NoGroupFile) /\ Stop("fault")
    \/ /\ \E d \in Fds : IsLowest(d, FreeFds) /\ fds' = [fds EXCEPT ![d] = File]
       /\ SendAll(Recipients(i, m.group),
                  [type |-> "PUBLIC_MESSAGE", name |-> username[i], group |-> m.group])
       /\ UNCHANGED <<username, ports, groups, pc, session>>

CreateGroup(i, m) ==
    \/ FreeFds = {} /\ Stop("exit")
    \/ /\ FreeFds # {}
       /\ groups' = Created(groups, m.group, username[i], m.members, m.newline)
       /\ Answer(i, [type |-> "CREATE_GROUP", group |-> m.group])
       /\ UNCHANGED <<username, ports, fds, session>>

(* join_group has the group file and its copy open at the same time.       *)
CanJoin(i, m) ==
    Cardinality(FreeFds) >= 2 /\ ~JoinFaults(groups, m.group, username[i])

JoinGroup(i, m) ==
    \/ (~CanJoin(i, m) \/ NoGroupFile) /\ Stop("fault")
    \/ /\ CanJoin(i, m)
       /\ JoinAlready(groups, m.group, username[i])
       /\ Answer(i, [type |-> "JOIN_GROUP", group |-> m.group, added |-> FALSE])
       /\ UNCHANGED <<username, ports, groups, fds, session>>
    \/ /\ CanJoin(i, m)
       /\ ~JoinAlready(groups, m.group, username[i])
       /\ groups' = Joined(groups, m.group, username[i])
       /\ Answer(i, [type |-> "JOIN_GROUP", group |-> m.group, added |-> TRUE])
       /\ UNCHANGED <<username, ports, fds, session>>

(* receive_file never finds a file (found is never true at its tests), and *)
(* an unknown type is only logged.                                         *)
Ignore == todo' = <<>> /\ UNCHANGED <<username, ports, groups, fds, pc, session>>

Dispatch(i, m) ==
    \/ m.type = "SET_USERNAME" /\ Login(i, m)
    \/ m.type = "GET_USERS" /\ SendUserList(i)
    \/ m.type = "PRIVATE_MESSAGE" /\ SendPrivateMessage(i, m)
    \/ m.type = "PUBLIC_MESSAGE" /\ SendPublicMessage(i, m)
    \/ m.type = "CREATE_GROUP" /\ CreateGroup(i, m)
    \/ m.type = "JOIN_GROUP" /\ JoinGroup(i, m)
    \/ m.type \in {"RECEIVE_FILE", "UNKNOWN"} /\ Ignore

(* The next slot the loop of main hands to handle_client_message.          *)
NextDue(i) ==
    /\ pc = "scan" /\ todo = <<>>
    /\ IsLowest(i, { j \in Slots : Due(j) })

HandleRequest(i) ==
    /\ NextDue(i)
    /\ inbox[Peer(i)] # <<>>
    /\ inbox' = [inbox EXCEPT ![Peer(i)] = Tail(@)]
    /\ Dispatch(i, Head(inbox[Peer(i)]))
    /\ cursor' = i + 1
    /\ UNCHANGED <<socket, ready, backlog, conn, toClient, sent>>

(* recv() < 0 goes on to the switch with whatever the stack holds in msg.  *)
HandleReset(i) ==
    /\ NextDue(i)
    /\ inbox[Peer(i)] = <<>> /\ conn[Peer(i)] = "rst"
    /\ conn' = [conn EXCEPT ![Peer(i)] = "finrst"]
    /\ \E m \in Logins \cup Commands \cup {[type |-> "UNKNOWN"]} : Dispatch(i, m)
    /\ cursor' = i + 1
    /\ UNCHANGED <<socket, ready, backlog, inbox, toClient, sent>>

(* recv() = 0: the slot is emptied, then everybody left is told.           *)
HandleDisconnect(i) ==
    /\ NextDue(i)
    /\ inbox[Peer(i)] = <<>> /\ conn[Peer(i)] \in {"fin", "finrst"}
    /\ HangUp(socket[i])
    /\ socket' = [socket EXCEPT ![i] = 0]
    /\ SendAll({ <<1, 1, j>> : j \in Occupied \ {i} },
               [type |-> "DISCONNECT", name |-> username[i]])
    /\ cursor' = i + 1
    /\ UNCHANGED <<username, ports, groups, ready, pc, backlog, toClient, sent, session>>

-----------------------------------------------------------------------------
(* The client processes, as far as the server can tell them apart.         *)
ClientConnect(c) ==
    /\ conn[c] = "off" /\ ~Down /\ Len(backlog) < Backlog
    /\ conn' = [conn EXCEPT ![c] = "up"]
    /\ backlog' = Append(backlog, c)
    /\ UNCHANGED <<server, inbox, toClient, sent, session>>

(* connect_to_server sends the login line; then come the user's commands.  *)
ClientSend(c) ==
    /\ conn[c] = "up" /\ Attached(c) /\ ~Down /\ sent[c] < MaxRequests
    /\ \E m \in IF sent[c] = 0 THEN Logins ELSE Commands :
        inbox' = [inbox EXCEPT ![c] = Append(@, m)]
    /\ sent' = [sent EXCEPT ![c] = @ + 1]
    /\ UNCHANGED <<server, backlog, conn, toClient, session>>

(* A process ends and its kernel closes the connection: with a reset if    *)
(* bytes were left unread.                                                 *)
Leave(c, unread) ==
    /\ conn' = [conn EXCEPT ![c] = IF ~Attached(c) \/ Down THEN "gone"
                                   ELSE IF unread = <<>> THEN "fin" ELSE "rst"]
    /\ toClient' = [toClient EXCEPT ![c] = <<>>]

(* mutant: a client with no command left to type does not read either *)
AttendsWhileTyping(c) == conn[c] = "up" /\ toClient[c] # <<>> /\ sent[c] < MaxRequests

Attends(c) == conn[c] = "up" /\ toClient[c] # <<>>

IsFarewell(m) == m.type = "TOO_FULL" \/ (m.type = "SUCCESS" /\ ~m.ok)

(* handle_server_message reads one message; two of them end the client.    *)
ClientRecv(c) ==
    /\ Attends(c)
    /\ \/ /\ ~IsFarewell(Head(toClient[c]))
          /\ toClient' = [toClient EXCEPT ![c] = Tail(@)]
          /\ UNCHANGED conn
       \/ IsFarewell(Head(toClient[c])) /\ Leave(c, Tail(toClient[c]))
    /\ UNCHANGED <<server, backlog, inbox, sent, session>>

ClientEof(c) ==
    /\ conn[c] = "up" /\ toClient[c] = <<>> /\ (~Attached(c) \/ Down)
    /\ Leave(c, <<>>)
    /\ UNCHANGED <<server, backlog, inbox, sent, session>>

(* The user quits, or the process is killed.                               *)
ClientExit(c) ==
    /\ conn[c] = "up"
    /\ Leave(c, toClient[c])
    /\ UNCHANGED <<server, backlog, inbox, sent, session>>

-----------------------------------------------------------------------------
ServerStep ==
    \/ Select \/ Accept \/ AcceptFails \/ EndPass
    \/ Transmit \/ SendFails \/ CloseRefused \/ DropSlot
    \/ \E i \in Slots : HandleRequest(i) \/ HandleReset(i) \/ HandleDisconnect(i)

ClientStep(c) ==
    ClientConnect(c) \/ ClientSend(c) \/ ClientRecv(c) \/ ClientEof(c) \/ ClientExit(c)

Next == Quit \/ ServerStep \/ \E c \in Procs : ClientStep(c)

Spec == Init /\ [][Next]_vars

(* The server's thread runs when it can, and a client reads what it is     *)
(* sent.  Nobody has to call, type, quit or crash.                         *)
FairSpec ==
    /\ Spec
    /\ WF_vars(ServerStep)
    /\ \A c \in Procs : WF_vars(ClientRecv(c))
=============================================================================
