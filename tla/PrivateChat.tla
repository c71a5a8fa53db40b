---------------------------- MODULE PrivateChat -----------------------------
(***************************************************************************)
(* The client (client.c): one thread around select() on the terminal and   *)
(* the server, and the private chat of two clients.  /msg asks the server  *)
(* for a port, waits for the next message whatever it is, and connects;    *)
(* the other client is told the port by a message, listens on it and waits *)
(* for one caller.                                                         *)
(*                                                                         *)
(* Of the server (server.c) this module keeps what a client can tell: it   *)
(* takes one request at a time, knows a client by the slot it sits in and  *)
(* the name stored there, and sends in an order in which it may block.     *)
(* Its loop, its groups and its refusals are in ChatServer; here there is  *)
(* a slot for every client.  Of the texts the module keeps whether they    *)
(* are short and the number they begin with, for a client may take any of  *)
(* them for a port.                                                        *)
(***************************************************************************)
EXTENDS ClientInput, FiniteSets

CONSTANTS
    Clients,
    NoOne,           \* no client
    UserOf,          \* the name each client logs in with
    NoName,          \* what a slot holds before its first login
    Slots,           \* places in the server's table
    Seated,          \* who sits in each slot when a behaviour starts
    Doubtful,        \* clients whose password may be wrong
    Listed,          \* the members of the group that group messages go to
    Leftovers,       \* requests an uninitialised message may look like
    Garbage,         \* numbers an uninitialised text may begin with
    Lines,           \* lines each user may type
    MaxLines,        \* lines the users type at most
    Stoppable,       \* clients that may be stopped from outside
    Rooted,          \* clients that run as root
    Certified,       \* clients whose certificate and key load and fit
    BusyPorts,       \* ports other programs of the machine hold
    SilentPorts,     \* those of programs that accept and never answer
    FirstPorts,      \* what PORTS may be when a behaviour starts
    PortSpace,       \* what htons leaves of a number: 65536
    BufCap           \* messages a socket takes before send() blocks

ASSUME ClientNumbers ==
    /\ FirstPorts \subseteq Nat \ {0} /\ PortSpace \in Nat \ {0}
    /\ MaxLines \in Nat /\ BufCap \in Nat /\ Garbage \subseteq Nat
ASSUME SlotsAreFinite == Slots \subseteq Nat /\ IsFiniteSet(Slots)
ASSUME SeatsAreClients ==
    /\ Seated \in [Slots -> Clients \cup {NoOne}]
    /\ \A i, j \in Slots : Seated[i] = Seated[j] /\ Seated[i] # NoOne => i = j
ASSUME SilentAreBusy == SilentPorts \subseteq BusyPorts
ASSUME LeftoversAreRequests ==
    \A r \in Leftovers : r.type = "PUBLIC_MESSAGE" =>
        r.text.number \in Nat /\ r.text.short \in BOOLEAN
ASSUME NoOneIsNoClient == NoOne \notin Clients

VARIABLES
    pc,         \* where a client's thread stands
    ready,      \* whether the last select() reported the server's socket
    typed,      \* lines typed so far
    said,       \* the request of the running /msg
    port,       \* port_number
    listens,    \* the number a client listens on, or 0
    queue,      \* callers of a client's listening socket
    peer,       \* the caller a client has accepted
    requests,   \* requests of a client the server has not read
    inbox,      \* messages for a client it has not read
    reset,      \* clients that ended with messages unread
    waiting,    \* clients whose call the server has not accepted
    at,         \* who sits in a slot
    name,       \* clients[i].username: survives the connection that set it
    online,     \* history: clients whose login the server has read
    ports,      \* PORTS
    todo,       \* what the server's running handler still has to do
    up,         \* the server runs
    offers,     \* history: who asked for each port, and who was told of it
    crossed,    \* history: clients that took another message for their answer
    told,       \* history: clients whose port_number is a port they were told
    shown       \* history: texts shown

client == <<pc, ready, typed, said, port, crossed, told>>
meeting == <<listens, queue, peer, shown>>
server == <<waiting, at, name, online, ports, todo, up, offers>>
wires == <<requests, inbox, reset>>
vars == <<client, meeting, server, wires>>

NoPort == 0
Ended == {"exited", "aborted", "crashed"}
Live(c) == pc[c] \notin Ended
LoginOf(c) == [type |-> "SET_USERNAME", user |-> UserOf[c]]

Init ==
    /\ pc = [c \in Clients |-> "select"]
    /\ ready = [c \in Clients |-> FALSE]
    /\ typed = 0
    /\ said = [c \in Clients |-> NoOne]
    /\ port = [c \in Clients |-> NoPort]
    /\ listens = [c \in Clients |-> NoPort]
    /\ queue = [c \in Clients |-> <<>>]
    /\ peer = [c \in Clients |-> NoOne]
    /\ at = Seated
    /\ name = [i \in Slots |-> IF Seated[i] = NoOne THEN NoName ELSE UserOf[Seated[i]]]
    /\ waiting = { c \in Clients : \A i \in Slots : Seated[i] # c }
    /\ online = Clients \ waiting
    /\ requests = [c \in Clients |-> IF c \in waiting THEN <<LoginOf(c)>> ELSE <<>>]
    /\ inbox = [c \in Clients |-> <<>>]
    /\ reset = {}
    /\ ports \in FirstPorts
    /\ todo = <<>>
    /\ up = TRUE
    /\ offers = <<>>
    /\ crossed = {}
    /\ told = {}
    /\ shown = {}

-----------------------------------------------------------------------------
(* main's loop and the handlers of the client.                             *)
Goto(c, to) == pc' = [pc EXCEPT ![c] = to]

(* mutant: the listening socket stays open after its one caller *)
CloseCallerOnly(c) ==
    /\ peer' = [peer EXCEPT ![c] = NoOne]
    /\ UNCHANGED <<listens, queue>>

(* The caller's connection and those in the queue are closed.              *)
CloseListener(c) ==
    /\ listens' = [listens EXCEPT ![c] = NoPort]
    /\ queue' = [queue EXCEPT ![c] = <<>>]
    /\ peer' = [peer EXCEPT ![c] = NoOne]

Forget(c) ==
    /\ ready' = [ready EXCEPT ![c] = FALSE]
    /\ said' = [said EXCEPT ![c] = NoOne]

(* A process that ends closes its sockets and forgets what it knew; its    *)
(* connection is reset if there was something to read.                     *)
End(c, how) ==
    /\ Goto(c, how)
    /\ Forget(c)
    /\ port' = [port EXCEPT ![c] = NoPort]
    /\ told' = told \ {c}
    /\ inbox' = [inbox EXCEPT ![c] = <<>>]
    /\ reset' = IF inbox[c] = <<>> THEN reset ELSE reset \cup {c}
    /\ CloseListener(c)
    /\ UNCHANGED <<crossed, shown, server, requests>>

(* The server has ended, or has closed this connection after a login that  *)
(* failed.                                                                 *)
Cut(c) == ~up \/ (c \notin waiting /\ \A i \in Slots : at[i] # c)

(* select() ends the wait for a line; whether the socket was ready as well *)
(* was decided at the same moment.                                         *)
SocketReady(c) == inbox[c] # <<>> \/ Cut(c)

(* handle_user_input is left: the set of the last select() still counts.   *)
AfterInput(c) == IF ready[c] THEN "message" ELSE "select"

LeaveInput(c) ==
    /\ Goto(c, AfterInput(c))
    /\ Forget(c)

(* A line, by what it does.  On a connection that was closed the first     *)
(* send() may still succeed; one that does not ends the client.            *)
Ask(c, m) ==
    /\ requests' = [requests EXCEPT ![c] = Append(@, m)]
    /\ UNCHANGED <<port, told, inbox, reset, meeting>>

Line(c, e) ==
    \/ e.does = "stop" /\ End(c, "exited")
    \/ e.does = "fault" /\ End(c, "crashed")
    \/ e.does \in {"send", "ask"} /\ Cut(c) /\ End(c, "exited")
    \/ /\ e.does = "print"
       /\ Goto(c, IF SocketReady(c) THEN "message" ELSE "select")
       /\ UNCHANGED <<ready, said, port, told, wires, meeting>>
    \/ /\ e.does = "send"
       /\ Goto(c, IF SocketReady(c) THEN "message" ELSE "select")
       /\ Ask(c, e.msg)
       /\ UNCHANGED <<ready, said>>
    \/ /\ e.does = "ask"
       /\ Goto(c, "answer")
       /\ Ask(c, e.msg)
       /\ ready' = [ready EXCEPT ![c] = SocketReady(c)]
       /\ said' = [said EXCEPT ![c] = e.msg]

Enter(c, l) ==
    /\ pc[c] = "select" /\ typed < MaxLines
    /\ typed' = typed + 1
    /\ Line(c, Effect(l))
    /\ UNCHANGED <<crossed, server>>

(* fgets at the end of input leaves the buffer as it is: any line again.   *)
TypeLine(c) == \E l \in Lines[c] : Enter(c, l)

SelectMessage(c) ==
    /\ pc[c] = "select" /\ SocketReady(c)
    /\ Goto(c, "message")
    /\ UNCHANGED <<ready, typed, said, port, crossed, told, meeting, server, wires>>

Take(c) ==
    /\ inbox' = [inbox EXCEPT ![c] = Tail(@)]
    /\ UNCHANGED <<requests, reset>>

(* handle_server_message blocks until there is a message.  A port is one   *)
(* to listen on, a login that failed ends the client, and the other kinds  *)
(* are printed.                                                            *)
IsRefusal(m) == m.type = "SUCCESS" /\ m.number = 0

HandleMessage(c) ==
    /\ pc[c] = "message" /\ inbox[c] # <<>>
    /\ LET m == Head(inbox[c]) IN
        \/ /\ m.type = "PRIVATE_MESSAGE"
           /\ Take(c) /\ Goto(c, "bind")
           /\ listens' = [listens EXCEPT ![c] = m.number]
           /\ UNCHANGED <<ready, said, port, crossed, told, queue, peer, shown, server>>
        \/ /\ m.type # "PRIVATE_MESSAGE" /\ ~IsRefusal(m)
           /\ Take(c) /\ Goto(c, "select")
           /\ UNCHANGED <<ready, said, port, crossed, told, meeting, server>>
        \/ IsRefusal(m) /\ End(c, "exited")
    /\ UNCHANGED typed

ServerDisconnected(c) ==
    /\ pc[c] = "message" /\ inbox[c] = <<>> /\ Cut(c)
    /\ End(c, "exited") /\ UNCHANGED typed

(* The user ends the client, or it is killed.                              *)
Kill(c) == c \in Stoppable /\ Live(c) /\ End(c, "exited") /\ UNCHANGED typed

-----------------------------------------------------------------------------
(* /msg: the answer is the next message, and a short text is a port.       *)
IsAnswer(c, m) == m.answers = c /\ m.type \in {"PRIVATE_MESSAGE", "USERNAME_ERROR"}

TakeAnswer(c) ==
    /\ pc[c] = "answer" /\ inbox[c] # <<>>
    /\ Take(c)
    /\ LET m == Head(inbox[c]) IN
        /\ crossed' = IF IsAnswer(c, m) THEN crossed ELSE crossed \cup {c}
        /\ \/ /\ m.short
              /\ port' = [port EXCEPT ![c] = m.number]
              /\ told' = IF m.type = "PRIVATE_MESSAGE" THEN told \cup {c} ELSE told \ {c}
              /\ Goto(c, "connect")
              /\ UNCHANGED <<ready, said>>
           \/ ~m.short /\ LeaveInput(c) /\ UNCHANGED <<port, told>>
    /\ UNCHANGED <<typed, meeting, server>>

(* recv() = 0 is no error: what the client has sent is taken for the       *)
(* answer.  After a reset recv() fails, and the client ends.               *)
TakeNoAnswer(c) ==
    /\ pc[c] = "answer" /\ inbox[c] = <<>> /\ Cut(c)
    /\ LET own == said[c].text IN
        \/ /\ crossed' = crossed \cup {c}
           /\ \/ /\ own.short
                 /\ port' = [port EXCEPT ![c] = own.number]
                 /\ told' = told \ {c}
                 /\ Goto(c, "connect")
                 /\ UNCHANGED <<ready, said>>
              \/ ~own.short /\ LeaveInput(c) /\ UNCHANGED <<port, told>>
           /\ UNCHANGED <<meeting, server, wires>>
        \/ End(c, "exited")
    /\ UNCHANGED typed

(* LoadCertificates and OpenConnection: connect() or abort().  htons keeps *)
(* 16 bits of the number; one that leaves 0 lets bind() take any port, and *)
(* is no port to connect to.                                               *)
TcpPort(n) == n % PortSpace
Listening(d, n) ==
    /\ pc[d] \in {"accept", "servlet"}
    /\ TcpPort(listens[d]) = TcpPort(n) /\ TcpPort(n) # NoPort

Connect(c) ==
    /\ pc[c] = "connect" /\ c \in Certified
    /\ \/ \E d \in Clients :
            /\ Listening(d, port[c])
            /\ queue' = [queue EXCEPT ![d] = Append(@, c)]
       \/ TcpPort(port[c]) \in BusyPorts /\ UNCHANGED queue   \* a stranger answers
    /\ Goto(c, "handshake")
    /\ UNCHANGED <<ready, typed, said, port, crossed, told, listens, peer, shown, server, wires>>

ConnectFails(c) ==
    /\ pc[c] = "connect"
    /\ c \notin Certified \/ \A d \in Clients : ~Listening(d, port[c])
    /\ End(c, "aborted") /\ UNCHANGED typed

(* SSL_connect to a listener that has closed, or to a program that closes  *)
(* it: the error is printed.  From a silent one it does not return.        *)
InQueue(c, d) == \E n \in DOMAIN queue[d] : queue[d][n] = c
HeldByStranger(c) == TcpPort(port[c]) \in SilentPorts
HandshakeFails(c) ==
    /\ pc[c] = "handshake" /\ ~HeldByStranger(c)
    /\ \A d \in Clients : ~InQueue(c, d) /\ peer[d] # c
    /\ LeaveInput(c)
    /\ UNCHANGED <<typed, port, crossed, told, meeting, server, wires>>

-----------------------------------------------------------------------------
(* handlePrivateMsg: a socket that listens, one caller, one text.          *)
Bound(n) ==
    \/ TcpPort(n) \in BusyPorts
    \/ \E d \in Clients : Listening(d, n)

Listen(c) ==
    /\ pc[c] = "bind" /\ c \in Rooted \cap Certified /\ ~Bound(listens[c])
    /\ Goto(c, "accept")
    /\ UNCHANGED <<ready, typed, said, port, crossed, told, meeting, server, wires>>

ListenFails(c) ==
    /\ pc[c] = "bind"
    /\ \/ c \notin Rooted /\ End(c, "exited")
       \/ c \in Rooted /\ (c \notin Certified \/ Bound(listens[c])) /\ End(c, "aborted")
    /\ UNCHANGED typed

Accept(c) ==
    /\ pc[c] = "accept" /\ queue[c] # <<>>
    /\ peer' = [peer EXCEPT ![c] = Head(queue[c])]
    /\ queue' = [queue EXCEPT ![c] = Tail(@)]
    /\ Goto(c, "servlet")
    /\ UNCHANGED <<ready, typed, said, port, crossed, told, listens, shown, server, wires>>

(* Servlet and SSL_connect meet, the text is written, read and shown.      *)
Exchange(c) ==
    LET s == peer[c] IN
    /\ pc[c] = "servlet" /\ pc[s] = "handshake"
    /\ shown' = shown \cup {[from |-> s, by |-> c, to |-> said[s].to, port |-> port[s],
                             told |-> s \in told, inStep |-> s \notin crossed]}
    /\ pc' = [pc EXCEPT ![c] = "select", ![s] = AfterInput(s)]
    /\ Forget(s)
    /\ CloseListener(c)
    /\ UNCHANGED <<typed, port, crossed, told, server, wires>>

(* SSL_accept with a caller that has ended: the error is printed.          *)
ServletFails(c) ==
    /\ pc[c] = "servlet" /\ pc[peer[c]] # "handshake"
    /\ Goto(c, "select")
    /\ CloseListener(c)
    /\ UNCHANGED <<ready, typed, said, port, crossed, told, shown, server, wires>>

-----------------------------------------------------------------------------
(* The server.                                                             *)
Message(type, n, short, c) == [type |-> type, number |-> n, short |-> short, answers |-> c]
LongMessage(type, c) == Message(type, NoPort, FALSE, c)
To(c, m) == [to |-> c, msg |-> m]

Occupied == { i \in Slots : at[i] # NoOne }
IsLowest(i, S) == i \in S /\ \A j \in S : i <= j

(* One message for the client of each slot of a set.                       *)
Orders(S) ==
    { f \in [1..Cardinality(S) -> S] : \A i \in S : \E n \in DOMAIN f : f[n] = i }
Ascends(f) == \A n, k \in DOMAIN f : n < k => f[n] < f[k]
SendEach(f, m) == todo' = [n \in DOMAIN f |-> To(at[f[n]], m)]

(* handle_new_connection: the first free slot, which keeps its last name.  *)
Accepted(c) ==
    /\ up /\ todo = <<>> /\ c \in waiting
    /\ \E i \in Slots :
        /\ IsLowest(i, Slots \ Occupied)
        /\ at' = [at EXCEPT ![i] = c]
    /\ waiting' = waiting \ {c}
    /\ UNCHANGED <<client, meeting, name, online, ports, todo, up, offers, wires>>

(* login: the name is stored whether or not the password is right, and a   *)
(* client whose password is wrong is hung up on once it is told.           *)
Success(n, c) == To(c, Message("SUCCESS", n, TRUE, c))
HangUp(c) == To(c, LongMessage("HANG_UP", NoOne))

Login(i, r) ==
    /\ name' = [name EXCEPT ![i] = r.user]
    /\ \/ todo' = <<Success(1, at[i])>> /\ online' = online \cup {at[i]}
       \/ /\ at[i] \in Doubtful
          /\ todo' = <<Success(0, at[i]), HangUp(at[i])>>
          /\ UNCHANGED online
    /\ UNCHANGED <<ports, up, offers>>

(* mutant: the port is not used up *)
KeepPort == UNCHANGED ports

TakePort == ports' = ports + 1

(* mutant: only the receiver is told *)
OfferOneEnd(c, d, m) == IF c = d THEN <<>> ELSE <<To(d, m)>>

Offer(c, d, m) == <<To(d, m), To(c, m)>>

(* mutant: nothing is sent when nobody has the name *)
NotOnlineSilent(c) == SubSeq(<<c>>, 1, 0)

NotOnline(c) == <<To(c, LongMessage("USERNAME_ERROR", c))>>

(* mutant: names are not compared *)
AddressedAny(i, r) == IF r.to = name[i] THEN {} ELSE Occupied \ {i}

(* send_private_message: the names are those of the slots, logged in or    *)
(* not.                                                                    *)
Addressed(i, r) == { j \in Occupied \ {i} : name[j] = r.to }

Pair(i, r) ==
    /\ TakePort
    /\ \/ \E j \in Slots :
            /\ IsLowest(j, Addressed(i, r))
            /\ todo' = Offer(at[i], at[j], Message("PRIVATE_MESSAGE", ports, TRUE, at[i]))
            /\ offers' = Append(offers, [from |-> at[i], by |-> at[j], to |-> r.to,
                                         port |-> ports, known |-> at[j] \in online])
       \/ /\ Addressed(i, r) = {}
          /\ todo' = NotOnline(at[i])
          /\ offers' = Append(offers, [from |-> at[i], by |-> NoOne, to |-> r.to,
                                       port |-> ports, known |-> FALSE])
    /\ UNCHANGED <<name, online, up>>

(* send_user_list: the names of the slots, the first in front.             *)
SendUserList(i) ==
    /\ \E j \in Slots, short \in BOOLEAN :
        /\ IsLowest(j, Occupied)
        /\ \E n \in IF name[j] = NoName THEN Garbage ELSE {Number(name[j])} :
            todo' = <<To(at[i], Message("GET_USERS", n, short, at[i]))>>
    /\ UNCHANGED <<name, online, ports, up, offers>>

(* send_public_message: the text as it was typed.                          *)
SendPublicMessage(i, r) ==
    /\ \E order \in Orders({ j \in Occupied \ {i} : name[j] \in Listed }) :
        SendEach(order, Message("PUBLIC_MESSAGE", r.text.number, r.text.short, NoOne))
    /\ UNCHANGED <<name, online, ports, up, offers>>

(* The other handlers, by what they send.                                  *)
Reply(i, r) ==
    /\ todo' = IF r.type = "RECEIVE_FILE" THEN <<>>
               ELSE <<To(at[i], LongMessage(r.type, at[i]))>>
    /\ UNCHANGED <<name, online, ports, up, offers>>

Handle(i, r) ==
    \/ r.type = "SET_USERNAME" /\ Login(i, r)
    \/ r.type = "PRIVATE_MESSAGE" /\ Pair(i, r)
    \/ r.type = "GET_USERS" /\ SendUserList(i)
    \/ r.type = "PUBLIC_MESSAGE" /\ SendPublicMessage(i, r)
    \/ r.type \in {"CREATE_GROUP", "JOIN_GROUP", "SEND_FILE", "RECEIVE_FILE"} /\ Reply(i, r)

Serve(i) ==
    /\ up /\ todo = <<>> /\ at[i] # NoOne /\ requests[at[i]] # <<>>
    /\ requests' = [requests EXCEPT ![at[i]] = Tail(@)]
    /\ Handle(i, Head(requests[at[i]]))
    /\ UNCHANGED <<client, meeting, waiting, at, inbox, reset>>

(* recv() < 0 goes on to the switch with whatever the stack holds in msg:  *)
(* a handler runs, none does, or one faults.                               *)
HandleReset(i) ==
    /\ up /\ todo = <<>> /\ at[i] \in reset /\ requests[at[i]] = <<>>
    /\ reset' = reset \ {at[i]}
    /\ \/ \E r \in Leftovers : Handle(i, r)
       \/ up' \in BOOLEAN /\ UNCHANGED <<name, online, ports, todo, offers>>
    /\ UNCHANGED <<client, meeting, waiting, at, requests, inbox>>

(* recv() = 0: the text of the message is never set.                       *)
Disconnected(i) ==
    /\ up /\ todo = <<>> /\ at[i] # NoOne /\ ~Live(at[i])
    /\ at[i] \notin reset /\ requests[at[i]] = <<>>
    /\ at' = [at EXCEPT ![i] = NoOne]
    /\ \E n \in Garbage, short \in BOOLEAN, order \in Orders(Occupied \ {i}) :
        Ascends(order) /\ SendEach(order, Message("DISCONNECT", n, short, NoOne))
    /\ UNCHANGED <<client, meeting, waiting, name, online, ports, up, offers, wires>>

(* A send waits for room.  To a client that has ended it gets lost, or     *)
(* ends the server.                                                        *)
Deliver ==
    /\ up /\ todo # <<>> /\ Head(todo).msg.type # "HANG_UP"
    /\ LET c == Head(todo).to IN
        \/ /\ Live(c) /\ Len(inbox[c]) < BufCap
           /\ inbox' = [inbox EXCEPT ![c] = Append(@, Head(todo).msg)]
           /\ todo' = Tail(todo) /\ UNCHANGED up
        \/ ~Live(c) /\ todo' = Tail(todo) /\ UNCHANGED <<inbox, up>>
        \/ ~Live(c) /\ up' = FALSE /\ UNCHANGED <<inbox, todo>>
    /\ UNCHANGED <<client, meeting, waiting, at, name, online, ports, offers, requests, reset>>

(* The end of a login that failed.  What the client has asked is lost.     *)
DropSlot ==
    /\ up /\ todo # <<>> /\ Head(todo).msg.type = "HANG_UP"
    /\ LET c == Head(todo).to IN
        /\ at' = [i \in Slots |-> IF at[i] = c THEN NoOne ELSE at[i]]
        /\ requests' = [requests EXCEPT ![c] = <<>>]
    /\ todo' = Tail(todo)
    /\ UNCHANGED <<client, meeting, waiting, name, online, ports, up, offers, inbox, reset>>

-----------------------------------------------------------------------------
ClientRuns(c) ==
    \/ SelectMessage(c) \/ HandleMessage(c) \/ ServerDisconnected(c)
    \/ TakeAnswer(c) \/ TakeNoAnswer(c)
    \/ Connect(c) \/ ConnectFails(c) \/ HandshakeFails(c)
    \/ Listen(c) \/ ListenFails(c) \/ Accept(c) \/ Exchange(c) \/ ServletFails(c)

ServerRuns ==
    \/ Deliver \/ DropSlot
    \/ \E c \in Clients : Accepted(c)
    \/ \E i \in Slots : Serve(i) \/ HandleReset(i) \/ Disconnected(i)

Next == ServerRuns \/ \E c \in Clients : TypeLine(c) \/ Kill(c) \/ ClientRuns(c)

Spec == Init /\ [][Next]_vars

(* The server's thread and every client's thread run when they can.        *)
(* Nobody has to type, and anybody may be killed.                          *)
FairSpec == Spec /\ WF_vars(ServerRuns) /\ \A c \in Clients : WF_vars(ClientRuns(c))

-----------------------------------------------------------------------------
TypeOK ==
    /\ pc \in [Clients -> Ended \cup {"select", "message", "answer", "connect", "handshake",
                                     "bind", "accept", "servlet"}]
    /\ ready \in [Clients -> BOOLEAN] /\ typed \in 0..MaxLines
    /\ port \in [Clients -> Nat] /\ listens \in [Clients -> Nat]
    /\ \A c \in Clients : (listens[c] # NoPort) = (pc[c] \in {"bind", "accept", "servlet"})
    /\ queue \in [Clients -> Seq(Clients)] /\ peer \in [Clients -> Clients \cup {NoOne}]
    /\ \A c \in Clients : Len(inbox[c]) <= BufCap
    /\ at \in [Slots -> Clients \cup {NoOne}] /\ waiting \subseteq Clients
    /\ \A i, j \in Slots : at[i] = at[j] /\ at[i] # NoOne => i = j
    /\ online \subseteq Clients /\ ports \in Nat /\ up \in BOOLEAN
    /\ crossed \subseteq Clients /\ told \subseteq Clients /\ reset \subseteq Clients

(* A text is shown only by a client that was one of the two the server     *)
(* told the port (server.c:101-121, client.c:801), and if the sender has   *)
(* its number from a message of that kind (client.c:447), whichever one it *)
(* mistook for its answer and however often it was told ports before, the  *)
(* sender is the other of the two.  A sender that took another text for a  *)
(* port may come to any listener.  The property ends where PORTS goes      *)
(* round the 16 bits: PrivateChatProofs.                                   *)
Ends(o) == {o.from, o.by}
MeetOnTheirPort ==
    \A x \in shown : \E k \in DOMAIN offers :
        /\ TcpPort(x.port) = TcpPort(offers[k].port)
        /\ x.by \in Ends(offers[k]) /\ x.from # x.by
        /\ x.told => x.port = offers[k].port /\ x.from \in Ends(offers[k])

(* A client that never took another message for an answer of the server    *)
(* (client.c:440) is heard only by the client the server picked for it,    *)
(* and that is the user it typed the name of, unless it sat in the slot    *)
(* under the name of an earlier user and its own login had not been read   *)
(* (server.c:108, 642; README.md:14 says otherwise, see the run            *)
(* finding_private_offline).                                               *)
InStepReachesAddressee ==
    \A x \in shown : x.inStep =>
        \E k \in DOMAIN offers :
            /\ x.from = offers[k].from /\ x.by = offers[k].by
            /\ x.port = offers[k].port /\ x.to = offers[k].to
            /\ offers[k].known => UserOf[x.by] = x.to

(* Waiting for the answer to /msg ends, unless the server itself is held   *)
(* up by a full socket of a client that sits in accept (server.c:111,      *)
(* client.c:793) for a caller that will not come, or in SSL_connect        *)
(* (client.c:494) with a program that does not answer.                     *)
ServerHeldUp ==
    /\ todo # <<>>
    /\ LET c == Head(todo).to IN
        /\ Len(inbox[c]) = BufCap
        /\ pc[c] = "accept" \/ (pc[c] = "handshake" /\ HeldByStranger(c))

SendersComeBack ==
    \A c \in Clients : pc[c] = "answer" ~> pc[c] # "answer" \/ ServerHeldUp

(* A client that waits in accept (client.c:793) is called, unless the one  *)
(* who asked for the port has ended, mistook a message or was never told.  *)
CallerFails(c) ==
    \E k \in DOMAIN offers :
        /\ listens[c] = offers[k].port
        /\ LET s == offers[k].from IN ~Live(s) \/ s \in crossed

ListenersAreCalled ==
    \A c \in Clients : pc[c] = "accept" ~> pc[c] # "accept" \/ CallerFails(c) \/ ~up \/ ServerHeldUp

(* src/Chatroom/README.md:14: "/msg <username> <messageToSent> , sents     *)
(* private message to the user".                                           *)
ShownToAddressee == \A x \in shown : UserOf[x.by] = x.to

(* src/Chatroom/README.md:21: "/quit or /q - quit the program".            *)
QuitQuits ==
    [][\A c \in Clients : \A l \in Lines[c] :
          l.word \in {"/q", "/quit"} /\ l.args = <<>> /\ Enter(c, l) => pc'[c] = "exited"]_vars
=============================================================================
