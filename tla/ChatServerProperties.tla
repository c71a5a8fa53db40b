------------------------ MODULE ChatServerProperties ------------------------
(***************************************************************************)
(* What the chat server must get right, and what its documents say it      *)
(* does.                                                                   *)
(***************************************************************************)
EXTENDS ChatServer

(* All processes are alike, so what always happens to one of them happens  *)
(* to all: the liveness properties are checked for these.                  *)
CONSTANT Watched
ASSUME WatchedAreProcesses == Watched \subseteq Procs

(* Every variable has its type.  The port counter has no bound of its own. *)
TypeOK ==
    /\ socket \in [Slots -> Fds \cup {0}]
    /\ username \in [Slots -> Names]
    /\ ports \in Nat
    /\ groups \in Seq(Lines)
    /\ fds \in [Fds -> Procs \cup {Free, File}]
    /\ ready \subseteq Fds
    /\ pc \in {"select", "accept", "scan", "quit", "exit", "fault"}
    /\ cursor \in Nat \ {0}
    /\ todo \in Seq(Operation)
    /\ backlog \in Seq(Procs)
    /\ conn \in [Procs -> {"off", "up", "fin", "rst", "finrst", "gone"}]
    /\ inbox \in [Procs -> Seq(Request)]
    /\ toClient \in [Procs -> Seq(Message)]
    /\ sent \in [Procs -> Nat]
    /\ session \in [Procs -> Names]

-----------------------------------------------------------------------------
(* The slot table, the descriptor table and the queue of callers agree     *)
(* (handle_new_connection, the closes in login, handle_client_message and  *)
(* send_too_full_message): a slot holds the descriptor of one process, no  *)
(* process is held or queued twice, and the only connection outside the    *)
(* table is the one being refused.  A close without a reset of the slot,   *)
(* or the reverse, breaks this for a later connection.                     *)
SlotsHoldConnections ==
    /\ \A i \in Occupied : Peer(i) \in Procs
    /\ \A i, j \in Occupied : socket[i] = socket[j] => i = j
OneDescriptorEach ==
    \A d, e \in Fds : fds[d] = fds[e] /\ fds[d] \in Procs => d = e
QueuedOnce ==
    /\ \A n, k \in DOMAIN backlog : backlog[n] = backlog[k] => n = k
    /\ \A n \in DOMAIN backlog : ~Holds(backlog[n])
Refused(d) == \E n \in DOMAIN todo : todo[n].op = "close" /\ todo[n].fd = d
NoDescriptorLost ==
    \A d \in Fds : fds[d] \in Procs => (Refused(d) <=> \A i \in Slots : socket[i] # d)
SlotTable ==
    SlotsHoldConnections /\ OneDescriptorEach /\ QueuedOnce /\ NoDescriptorLost

(* The loop of main acts on what select() said before the handlers of      *)
(* lower slots and the accept ran: when it gets to a slot, recv() must     *)
(* still have something to return, or the one thread of the server blocks. *)
NeverBlocksInRecv ==
    pc = "scan" /\ todo = <<>> =>
        \A i \in Slots : Due(i) => Readable(Peer(i))

(* A private chat has two ends (send_private_message): the messages that   *)
(* carry one port bear one sender's name, and no process and no two pairs  *)
(* of processes get the same port.                                         *)
Offers(c) ==
    { n \in DOMAIN toClient[c] : toClient[c][n].type = "PRIVATE_MESSAGE" }
Port(c, n) == toClient[c][n].port
PortPairsTwo ==
    /\ \A c \in Procs : \A n, k \in Offers(c) : Port(c, n) = Port(c, k) => n = k
    /\ \A c, d, e \in Procs : \A n \in Offers(c), k \in Offers(d), l \in Offers(e) :
          Port(c, n) = Port(d, k) /\ Port(d, k) = Port(e, l) => Cardinality({c, d, e}) <= 2
    /\ \A c, d \in Procs : \A n \in Offers(c), k \in Offers(d) :
          Port(c, n) = Port(d, k) => toClient[c][n].name = toClient[d][k].name

(* client.c takes the next message it reads for the answer to its command: *)
(* a live process is never owed or sent more answers than the requests of  *)
(* its own that the server has read (handle_client_message answers only    *)
(* the slot it read from, even when slots are reused).                     *)
Answers == {"SUCCESS", "GET_USERS", "USERNAME_ERROR", "CREATE_GROUP", "JOIN_GROUP"}
AnswersUnread(c) == { n \in DOMAIN toClient[c] : toClient[c][n].type \in Answers }
AnswersOwed(c) ==
    { n \in DOMAIN todo : todo[n].op = "send" /\ fds[todo[n].fd] = c
                            /\ todo[n].msg.type \in Answers }
AnswersEarned ==
    \A c \in Procs : conn[c] = "up" /\ Holds(c) =>
        Cardinality(AnswersUnread(c)) + Cardinality(AnswersOwed(c))
            <= sent[c] - Len(inbox[c])

(* Seats are given and taken back as the room promises: the slot table,    *)
(* with everything that happens around it, implements RoomAdmission.       *)
Seat == [i \in Slots |-> IF socket[i] = 0 THEN Free ELSE Peer(i)]
Queue == { c \in Procs : Waiting(c) }
Outside == { c \in Procs : conn[c] # "off" /\ ~Waiting(c)
                             /\ \A i \in Occupied : Peer(i) # c }
Room == INSTANCE RoomAdmission WITH
            Callers <- Procs, Seats <- Slots, Empty <- Free,
            seat <- Seat, waiting <- Queue, outside <- Outside
RoomSpec == Room!RoomSpec

-----------------------------------------------------------------------------
(* create_group appends and join_group rewrites the whole file through a   *)
(* copy: whatever the order of requests, and whichever of join_group's     *)
(* exits is taken, no line, name or member is ever lost or moved.          *)
GroupsOnlyGrow ==
    [][ /\ Len(groups) <= Len(groups')
        /\ \A k \in DOMAIN groups :
            /\ groups'[k].name = groups[k].name
            /\ \A n \in DOMAIN groups[k].members :
                /\ n \in DOMAIN groups'[k].members
                /\ groups'[k].members[n] = groups[k].members[n] ]_vars

(* "Handled the case if the user already a member of the group": nobody is *)
(* written a second time into a line that has him, also when the group has *)
(* several lines or has been rewritten since.                              *)
ListedTwice(line) ==
    { u \in Names : \E n, k \in DOMAIN line.members :
        n # k /\ line.members[n] = u /\ line.members[k] = u }
JoinAddsOnce ==
    [][ \A k \in DOMAIN groups : ListedTwice(groups'[k]) \subseteq ListedTwice(groups[k]) ]_vars

(* "/msg_group sends message to all the members of the group who are       *)
(* online": when the server has read a group message (server.c:57-93),     *)
(* every other process that has logged in gets one copy for each time the  *)
(* file lists, in lines of that group, the name it LAST LOGGED IN WITH     *)
(* (session, not the name in its slot), and none if it is not listed; and  *)
(* the text bears the name the sender logged in with.  The code goes by    *)
(* the names of the slots, which outlive connections and are stored by     *)
(* logins that fail as well.  A process whose login was not read yet is    *)
(* left out: it gets what is meant for the last user of its slot.          *)
Reads(i, type) ==
    /\ NextDue(i) /\ inbox[Peer(i)] # <<>>
    /\ inbox'[Peer(i)] = Tail(inbox[Peer(i)])
    /\ Head(inbox[Peer(i)]).type = type
LoggedIn(c) == Holds(c) /\ session[c] # NoName
Listings(u, g) ==
    UNION { {k} \X { n \in DOMAIN groups[k].members : groups[k].members[n] = u } :
                k \in { j \in DOMAIN groups : groups[j].name = g } }
Copies(c) == { n \in DOMAIN todo : fds[todo[n].fd] = c }
GroupTextsFollowLogins ==
    [][ \A i \in Slots : Reads(i, "PUBLIC_MESSAGE") /\ pc' = "scan" =>
            /\ \A c \in Procs \ {Peer(i)} : LoggedIn(c) =>
                  Cardinality(Copies(c)') =
                      Cardinality(Listings(session[c], Head(inbox[Peer(i)]).group))
            /\ LoggedIn(Peer(i)) =>
                  \A n \in DOMAIN todo' : todo'[n].msg.name = session[Peer(i)] ]_vars

-----------------------------------------------------------------------------
(* Under FairSpec: a caller is accepted or refused as long as the server   *)
(* runs, also when every slot is taken and while their requests, of which  *)
(* each process sends a bounded number, are read in between.               *)
CallersAreTaken == \A c \in Watched : Waiting(c) ~> ~Waiting(c) \/ Down

(* Under FairSpec: what a process sends is read, whichever slot it has and *)
(* whatever the processes in the other slots do.                           *)
RequestsAreRead == \A c \in Watched : inbox[c] # <<>> ~> inbox[c] = <<>> \/ Down

(* Under FairSpec: the slot and the descriptor of a process that is gone   *)
(* are given back, whichever way it left and whatever it left unread.      *)
DeadAreDropped ==
    \A c \in Watched : conn[c] \in {"fin", "rst", "finrst"} ~> ~Holds(c) \/ Down

(* Under FairSpec: a handler ends; a full socket delays it, as long as its *)
(* reader reads.                                                           *)
HandlersEnd == todo # <<>> ~> todo = <<>> \/ Down

-----------------------------------------------------------------------------
(* README.md, Commands, /msg: "Message can be sent only to online users".  *)
PrivateOnlyToOnline ==
    \A c \in Procs : \A n \in DOMAIN toClient[c] :
        toClient[c][n].type = "PRIVATE_MESSAGE" => session[c] # NoName

(* README.md, Commands, /msg_group: "Sender won't get his message".        *)
SenderGetsNoCopy ==
    \A c \in Procs : \A n \in DOMAIN toClient[c] :
        toClient[c][n].type = "PUBLIC_MESSAGE" => session[c] # toClient[c][n].name

(* README.md, Commands, /join_grp: "Any user can join any existing group". *)
JoinExistingGroup ==
    [][ \A i \in Slots : LET g == Head(inbox[Peer(i)]).group IN
            Reads(i, "JOIN_GROUP") /\ Exists(groups, g) =>
                username[i] \in MembersOf(groups', g) ]_vars

(* README.md, Error Handling: "Whenever a user connects or disconnects,    *)
(* broadcasts to all online users".                                        *)
Online == { i \in Occupied : session[Peer(i)] # NoName }
LoginIsAnnounced ==
    [][ \A i \in Slots : Reads(i, "SET_USERNAME") /\ session' # session =>
            \A j \in Online : \E n \in DOMAIN todo' : todo'[n].fd = socket[j] ]_vars
=============================================================================
