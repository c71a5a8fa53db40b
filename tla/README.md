# A verification of the PeerChat programs

The repository holds a chat program, `src/Chatroom` (a chat server, a client, a
registration server and a certificate server in C), and material of other
assignments around it. The modules here model the chat program, check it with
TLC on small instances and prove with TLAPS, for every size of the system, all of
the safety properties that hold.
Line numbers refer to `src/Chatroom/` unless a path says otherwise.

## 1. The system

| part | state | operations | interacts with |
|---|---|---|---|
| chat server, `server.c` | slot table `clients[MAX_CLIENTS]`, `PORTS`, its descriptors | one pass of `main`'s `select()` loop: operator's input, accept, one message per ready slot | clients over TCP; `groups.txt`; `registeredUsers.txt`; the files of `/send` |
| group file, `groups.txt` | one line per group: name, creator, members | append (`create_group`), copy and rename (`join_group`), read (`send_public_message`) | the server only |
| chat client, `client.c` | connection, user name, port of the last private chat | `select()` on terminal and socket; commands; handlers of messages | server; another client |
| private chat (TLS), `client.c:41-216, 446-510, 749-802` | a listening socket, certificates | the receiver listens and accepts once, the sender connects; each checks the other's certificate | two clients, the port the server chose |
| file transfer, `client.c:514-577, 667-736`, `server.c:137-216` | a file and a count of bytes; the files the server keeps | blocks of 1026 bytes after a header | client and server, on the connection of the messages |
| registration server, `register_server.c` | `registeredUsers.txt` | a child per caller: look the name up, append it | registering client |
| certificate server, `ca_server.c` | `CERTS/` | a child per caller: sign `<user>-req.pem` | registering client, through the directory |
| registration branch, `client.c:909-1027` | `CERTS/<user>-key.pem`, `-req.pem` | register, make key and request, ask for the certificate | the two servers above |
| netfilter module, `src/14110_Assignment1Due/hello.c` | none | log a flag of each packet | kernel |

What is hard here:

* **One thread, many connections.** The server acts on what `select()` said
  before its earlier handlers ran, on a table whose slots and descriptors are
  reused, and it blocks in every `send()`.
* **Processes that vanish** at any moment, with or without unread bytes, in the
  middle of a handler that is sending to them.
* **Limits:** four slots, the descriptors of the process (one leaks per group
  message), the listen queue, the socket buffers.
* **A file rewritten in place** by requests of several users.
* **Rendezvous without a handshake:** both ends of a private chat are told a port
  and race to use it; either may wait for ever.
* **Check, then act** on shared files by concurrent children (registration).
* **Names that outlive their users:** a slot keeps the name of its last user, or of a
  login that failed, and messages are addressed by these names.
* **A stream without frames:** the body of a file follows its message, and only
  two counts, one in each program, say where the next message begins.
* **A client that does one thing at a time:** it waits for an answer, a caller or
  a handshake and listens to nobody else meanwhile.

`PROJECT.json` lists each hazard at its line, with the properties that cover it
or the reason why none does.

## 2. Modules

| module | models |
|---|---|
| `GroupFile` | the group file as data: what `create_group` appends, what `join_group` copies, and which line makes it leave early |
| `ChatServer` | the server, its kernel's descriptors and connections, and of each client what the server can tell |
| `RoomAdmission` | abstract: a room with seats, callers who wait, are seated or turned away, and leave |
| `ChatServerProperties` | types, invariants, action properties, progress, and four statements of the README |
| `MCChatServer` | instances for TLC |
| `ChatServerProofs` | inductive invariant and theorems on the server's tables |
| `ChatServerRefinement` | that the server implements `RoomAdmission` |
| `RoomAdmissionProofs` | that the room keeps everybody in one place |
| `ChatServerRequestProofs` | theorems on what the handlers promise: group file, ports, answers, group messages |
| `ClientInput` | what `handle_user_input` makes of a typed line |
| `PrivateChat` | the clients' loop, `/msg`, the receiver's listener, and of the server what a client can tell |
| `FileTransfer` | `/send`: blocks, counts, partial reads, the files the server keeps |
| `Registration` | the registering client, the children of the two servers, the files they share |
| `MCPrivateChat`, `MCFileTransfer`, `MCRegistration` | instances for TLC |
| `PrivateChatProofs`, `RegistrationProofs` | theorems on the two: types, ports and addressees of private texts, names, keys and certificates |
| `FileTransferProofs` | how a client's stream moves, and theorems on what is stored |
| `FileTransferStepProofs` | theorems on where messages begin in a stream, and on types |

The programs meet in three ways, and each module is one of them: clients and the
server over messages (`ChatServer`: many clients, the server in detail;
`PrivateChat`: the clients in detail and with each other), a client and the server over
one stream (`FileTransfer`), and the registering programs over files
(`Registration`). What one module leaves out, another has: the server's tables and
descriptors are in `ChatServer` only, the client's waits in `PrivateChat` only,
bytes in `FileTransfer` only.

### How `ChatServer` follows the code

One pass of `main`'s loop (l. 687-714) is a path through `pc`:

    select --Select--> accept --Accept--> scan --handlers--> EndPass --> select
                  \___________(no caller)___/

* `Select` is `construct_fd_set` and `select()`: `ready` is the set the call
  leaves. The listening socket and the terminal are tested next in the code;
  `Quit` is a line that starts with `q`, any other line changes nothing.
* `Accept` and `AcceptFails` are `handle_new_connection`: lowest free
  descriptor, first free slot, otherwise `TOO_FULL` and a close. The slot's
  `username` is left as it is. `address_len` is never initialised (l. 630), so
  that every accept may fail.
* `HandleRequest(i)` is `handle_client_message` for the next due slot (`NextDue`
  is the loop index with its two tests). `Dispatch` is the switch; each handler
  (`Login`, `SendUserList`, `SendPrivateMessage`, `SendPublicMessage`,
  `CreateGroup`, `JoinGroup`, `Ignore` for `receive_file` and unknown types) is
  an operator of its own.
* `HandleReset(i)` is the branch of `recv() < 0`, which the code does not have:
  it falls into the switch with an uninitialised message, hence any handler with
  any request the instance knows.
* `HandleDisconnect(i)` is `recv() = 0`: close, clear the slot, tell the others.

A handler computes in one step everything it does in memory and on files: no
other process touches them. What it does on sockets it leaves in `todo`, in
order: each `send()` is a step (`Transmit`) because it may block on a full socket
buffer, and may end the server (`SendFails`) when the peer has reset the
connection meanwhile; the closes that follow the sends (`CloseRefused`,
`DropSlot`) are steps as well. While `todo` is not empty nothing else of the
server runs. Between them the clients move freely.

`conn[c]` is a connection as the server's kernel sees it: `off` (not called yet),
`up`, `fin` (the client closed), `rst` (it closed with unread bytes), `finrst`
(closed, and a later send was answered by a reset, or the reset was already
reported), `gone`. `fds` is the descriptor table; `File` marks a descriptor that
`send_public_message` opened and nobody closes (l. 68). Login and group handlers
need one or two free descriptors to open their files; without them the code exits
or reads through NULL, which is `Stop("exit")` and `Stop("fault")`.

Left out: texts and formatting (a message keeps its kind and what a property
reads of it), messages read in parts and the bodies of files (`FileTransfer`), line
and name lengths (a line of `groups.txt` longer than the buffers of `server.c:365`
and 67 is split or overflows there), `select()` failing. Before the first
`create_group` there may be no `groups.txt` (`NoGroupFile`): a group message or a
`/join_grp` then faults. `session` is a history variable: the name a
process last logged in with successfully. It guides no step.

A process of the model is one run of `client.c`: it calls once. A user who comes
back is another process.

### How `PrivateChat` and `ClientInput` follow the code

`pc[c]` is where the thread of a client stands: `select` (l. 1039), `message` (the
`recv()` of `handle_server_message`, l. 816), `answer` (the `recv()` of `/msg`,
l. 440), `connect` and `handshake` (l. 486, 494), `bind`, `accept`, `servlet`
(l. 787, 793, 797), or an end: `exited`, `aborted` (`abort()` of the TLS
functions), `crashed` (a read through NULL).

    select --TypeLine "/msg"--> answer --TakeAnswer--> connect --> handshake --> (select or message)
           --SelectMessage--> message --HandleMessage, a port--> bind --> accept --> servlet --> select

A typed line is a word, its arguments and whether a newline ends it. `Effect`
follows the chain of comparisons (l. 327-663) and says whether the line is only
answered on the terminal, sent, sent and waited for, or ends the process. The
newline is what decides: `/q`, `/who` and `/quit` are recognised only without it.
`fgets` at the end of input leaves the old or no content in the buffer, which is
again any line.

`main` asks for the terminal first and then acts on the socket bit of the same
`select()` (l. 1045-1053): `ready[c]` keeps that bit across a `/msg`, and
`AfterInput` blocks in `recv()` if it was set.

`TakeAnswer` takes the next message whatever its kind; a text of less than ten
characters is a port, by `atoi`. So every text that can come there is kept as far as
that matters: whether it is short (`short`) and the number it begins with (`number`).
The answer to `/msg` has a port, `SUCCESS` a 1 or a 0, a user list begins with the name
in the first slot, a group message has the text its author typed, and the messages
whose text the server never sets (`DISCONNECT`, a list of names not set yet) have any
number of `Garbage`. After an end of stream the client's own text is taken
(`TakeNoAnswer`), after a reset it ends. `NumberOf` says which typed words are numbers.
A number may be the port of other clients, of a program that does not speak TLS
(`BusyPorts`) or of one that accepts and never answers (`SilentPorts`), from which
`SSL_connect` does not return; the chat and registration servers' own ports are
numbers of this kind.

Four histories guide no step: `crossed`, who took a message that was not its answer;
`told`, whose `port_number` is a port the server told it; `offers`, which port was given
to whom; `shown`, which texts arrived. `TcpPort` is `htons(atoi(...))`: 16 bits. `Rooted`
are the users whom `isRoot` lets listen. The handshake is a step of both ends
(`Exchange`) or fails at one of them; certificates are good or not (`Certified`).

The server reads one request or one end of stream at a time and leaves its sends
in `todo`, which blocks when a client's buffer is full (`BufCap`). A send to a
client that has ended may end the server. It knows a client by its slot: `name[i]` is
the name stored there by the last login of that slot, right or wrong, and it is by
these names that messages are addressed and that users are listed. A login that fails
(`Doubtful`) is answered and hung up on (`DropSlot`). A client that ends with a message
unread leaves a reset: any handler may run on the uninitialised message
(`HandleReset`), with the requests in `Leftovers`. `online`, a history, has the
clients whose login the server has read. Here every client finds a slot, and its
files (`Listed` stands for the group) do not change: the full room, the group file and
the descriptors are in `ChatServer`, the body of a file in `FileTransfer`.

### How `FileTransfer` follows the code

A stream is a sequence of units; a unit is some bytes, at least the four of the
type of a message. The header is one message (`Encoded`), the body whole blocks
(`Written`): `feof` holds only after a short read, so that a file that ends with a
block is followed by a block of zeros, and the rest of the first block is what the
stack held. A `read()` or `recv()` returns any part of what is there (`Reads`).
`send_file` is `Opened`, `ReadBody`, then `Finish` or `BreakOff`; between them no
other client is served (`server = "reading"`). `Message` is the switch on what
`recv()` returned: a whole message goes to its handler, zeros are type `CONNECT`,
which no handler takes, anything else, and a `recv()` that fails after a reset
(`Reset`), may run any handler on data: the model stops there (`astray`) and the
properties say when this can happen.

What is read is written to the stored file as far as the disk takes it: `fwrite` and
`fclose` are not looked at (l. 196-205), the count goes on and the sender is told
"File successfully sent." all the same. `ReadBody` writes any part of what it read for a
client in `Unlucky`, and `wrote` remembers that something was lost; a file that cannot
be opened (`OpenFails`, l. 164) ends the server.

The size is taken with `ftell` before the file is read: `Takes` are pairs of the
size announced and the size found. `/recv` changes nothing: `found` is false
whenever it is tested (l. 242-272), the bare name it then looks for has no type
and no file is called so. README l. 18 promises "receive all the waiting files";
for the same reason the client's own `receive_file` (l. 667-736) is never reached
and is not modelled. That a typed `/send` finds its file only when no newline ends
the line (the name of the file is the rest of the line, and `access` gets the newline
too) is in `ClientInput`.

### How `Registration` follows the code

Both servers fork a child per caller and close their own end; when `fork()` fails
that is all that happens, and no child is waited for (`forked` only grows). The
child of `register_server` reads the form, looks for the name (`Lookup`, to the
first match), appends the line (`AppendLine`) and replies. The line of a client in
`Unlucky` may not get to the disk: then either the child ends at `fopen` (l. 101-105),
or `fprintf` and `fclose` fail, which nobody notices, and the client is told of success
(`lost`, a history). A line is written whole or not at all: half a line on a full disk
is not modelled. For a taken name
`while(1)` (l. 98-116) never ends (`spin`); without a file, or with an empty form
and a line to compare it with, it ends at once (`dead`). The child of `ca_server`
reads the request and writes the certificate. The client makes a key and a
request (`openssl req`), rewrites the key (`openssl rsa`), calls `ca_server` and
ends, whatever `recv()` returned. A file is named after the user and holds who
made it; the openssl programs themselves are external and read or write a file in
one step.

## 3. What is checked

All runs allow the system to stop (`CHECK_DEADLOCK FALSE`): the operator may type
`q`, the server may exit, and clients need not do anything.

**`server_sessions`**: two slots, three processes, three descriptors, a queue of
two, buffers of two messages, two messages per process. Three processes for two
slots give refusals and reuse of slots and descriptors; a wrong password gives
the drop of a slot; a buffer of two can be full while a handler has more to send.

* `TypeOK`.
* `SlotTable`: slots hold distinct descriptors of processes, no process has two
  descriptors or is queued while it has one, and the only connection outside the
  table is one about to be refused.
* `NeverBlocksInRecv`: when the loop gets to a slot that `select()` reported,
  `recv()` still has something to return, although other handlers ran between.
* `PortPairsTwo`: a port is given to two ends at most, with one name.
* `AnswersEarned`: a live process is never owed or sent more answers than the
  requests of its own that were read. The client relies on this: `/msg` takes
  the next message it reads for its answer (`client.c:440`).
* `RoomSpec`: the slot table implements `RoomAdmission`, with seats mapped to the
  peers of the slots, the waiting to the listen queue and the outsiders to
  processes that have called and hold neither. In particular a caller is turned
  away only if every slot is taken, and a seat once given up is not given up
  again.
* `GroupTextsFollowLogins`: a group message goes to every other process that has logged
  in as often as the file lists the name of its last login, and bears the name of its
  sender's last login. The code goes by the names in the slots; the property holds
  because a login that was read has overwritten the name the slot had, and a login that
  fails leaves the slot before anything else is read. A process whose login was not
  read yet is left out of it: it gets what is meant for the last user of its slot, which
  `finding_private_offline` shows for private messages. The initial file lists one user
  in two lines.

**`server_groups`**: two processes, a group with two lines and another that may be
created again, commands that append, rewrite and read the file; four descriptors, so that
the leak bites; five messages between the two processes.

* `GroupsOnlyGrow`: no line, name or member is ever lost or moved.
* `JoinAddsOnce`: nobody is written a second time into a line that has him.

**`server_progress`**: two slots, three processes, three descriptors, a queue of one,
buffers of one, one message each, right and wrong logins, under `FairSpec`. With two
slots and a third process that waits, a slot can be passed over for the other one, and a
refusal comes before or after a slot is given back. The processes are alike, so the
properties are checked for one of them (`Watched`).

* `CallersAreTaken`, `RequestsAreRead`, `DeadAreDropped`, `HandlersEnd`: each
  with "or the server is down", because many inputs end it.

Fairness: `WF_vars(ServerStep)` says that the server's only thread runs when it
is not blocked, which the kernel's scheduler gives. `WF_vars(ClientRecv(c))` says
that a live client whose socket is readable reads it: `client.c:1032-1054` does as
long as no handler of its own blocks. In this instance nobody sends a private
message or a file, the two handlers that block; with them the assumption would be
false, and `PrivateChat` replaces it by the client's real loop. Nobody
is assumed to call, type, quit or crash.

The requests of a run are bounded: the properties say that nobody is passed over
while others are served, not what happens under requests without end.

**`registration`**: two clients, two names, two passwords, one client whose line may
be lost; `registeredUsers.txt`
missing, empty or with one line; each server may have forked 0, 1 or 2 children
before and can fork two in all, so that calls are refused; clients stop anywhere.

* `ToldMeansStored`: who is told "Successfully registered", and whose write did not
  fail, is in the file with his password, and stays.
* `GrantedOnce`: a name that was granted and written is granted again only to calls
  that overlap. The race of calls that do overlap is in the code: both are told of
  success.
* `CertificateFits`: key, request and certificate of a name belong together
  when one client made them and everybody is done. Registrations of one name that
  overlap may mix them.
* `TakenNameKeepsItsKey`: the key of someone registered is overwritten only by a
  client whose call got no child. The client never looks at the answer; the endless
  loop is what keeps it from going on.
* `NewcomersAreCertified` (liveness): the only client that wants a free name gets its
  certificate although children of taken names spin for ever.

Fairness: every child, server and submitted client runs when it can (separate
processes under the kernel's scheduler); nobody has to register, anybody may be
stopped.

**`private_chat`**: three clients, two typed lines in all, sockets that take one
message, one client whose login is still unread and may fail, one that may be killed
and leaves its name in a slot the newcomer can take and somebody writes to,
two that are root, `PORTS` at 65535, so that the second port is none; a group message
whose text is the number of the first port, a user list, and an uninitialised message
that may be a `/msg`; two busy ports, one of them (1, which is what `SUCCESS` says)
of a program that never answers.

* `MeetOnTheirPort`: a text is shown only by one of the two clients that the server told
  that port, and comes from the other if the sender has its number from a message of
  that kind. A sender that took another text for a port may come to any listener.
* `InStepReachesAddressee`: a client that never mistook a message is heard only by the
  client the server picked, and that is the user it wrote to, unless it sat in the slot
  under an earlier user's name and its login had not been read.
* `SendersComeBack` (liveness): the wait for the answer to `/msg` ends, unless the
  server is blocked on the full socket of a client in `accept()` or in `SSL_connect()`
  with a program that does not answer.
* `ListenersAreCalled` (liveness): a client in `accept()` is called, unless the one
  who asked has ended, mistook a message or was never told.

Fairness: the server's thread and every client's thread run when they are not
blocked. In contrast to `server_progress`, no reader is assumed to read: it does
so when its thread gets there.

**`file_transfer`**: two clients, two messages, files of one block, of a block and a bit
and one that shrinks, blocks of three units and messages of two (which does not
divide three, as 284 does not divide 1026), one cut of a read per client, one client
that may be killed, one whose file the disk may not take, a directory in which a file
was removed.

* `ToldMeansKept`: "File successfully sent." means that the stored file begins with
  all of the sent one, however the stream was cut, unless the file shrank or a write
  failed.
* `KeepsStep`: data is taken for a message only after a cut read, a size that is a
  multiple of the block, a file that changed, or a reset, of the same client.
* `StoreOnlyGrows`: no stored file is overwritten, shortened or removed.
* `OthersAreServed` (liveness): everything sent is read, unless the server is down,
  astray, or waits for bytes a file lost.

Fairness: the server runs when it is not blocked; a client goes on writing the
file it began.

Six runs show where the program differs from its README
(`src/Chatroom/README.md`):

| run | README says | the code |
|---|---|---|
| `finding_private_offline` | l. 14, "/msg ... only to online users" | a slot keeps the last user's name: a newcomer that has not logged in gets his private messages |
| `finding_sender_copy` | l. 19, "Sender won't get his message" | the sender's slot is left out, not the sender, who may be logged in twice |
| `finding_join_existing` | l. 16, "Any user can join any existing group" | after a `/create_grp` the file has an empty line, on which `join_group` crashes |
| `finding_login_silent` | l. 31, "Whenever a user connects ... broadcasts to all online users" | only the one who logged in is told |
| `finding_private_misrouted` | l. 14, "sents private message to the user" | a broadcast is taken for the answer to `/msg`; the next `/msg` takes the old answer and its text goes to the wrong user |
| `finding_quit_line` | l. 21, "`/quit or /q` - quit the program" | the newline is compared too: a line typed with return does not quit |

### Bounds

`MaxClients`, `MaxFds`, `Backlog`, `BufCap`, `MaxRequests` are constants of
`ChatServer`. The code has 4 slots, a queue of 3 and hundreds of descriptors; the
instances keep what matters, that there are fewer slots than callers and that
each limit is reached. `MaxRequests` bounds the messages a client sends and with
it `PORTS` and the group file. The constraint `ServerUp` stops at states in which
the server has ended (only clients move there), `FiveMessages` bounds the messages
of both processes together, and `CleanLeaves` confines two findings to processes
that leave without unread bytes, so that they do not rest on the uninitialised
message of `HandleReset`. `SessionsOfFour` bounds the messages of the three processes
of `server_sessions` together. The two runs of safety
properties identify states that differ by a permutation of the processes: no
definition, property or constraint tells one process from another. The runs with
liveness properties use no constraint and no symmetry.

The other modules carry their bounds in guards: `MaxLines` (lines typed by all
users together), `MaxRequests` and `MaxCuts` of `FileTransfer` (messages; reads
that return less than is there), `LastIndex` (indexes of stored names),
`MaxChildren`. Two lines are enough for two private chats that cross, for a chat
that meets a broadcast, and for the second `/msg` that takes the answer of the
first; a client mistakes an answer only because of an event (a login, an end, a
group message) that costs no line or one. The other constants of `PrivateChat` are
sets: the behaviour of a text that is a port needs one such text. Two messages are enough for a file and
what is read behind it. `Seated`, `Doubtful`, `Stoppable`, `Rooted`, `Senders`, `Unlucky` give the
clients different parts, in place of three identical ones.

## 4. What is proved

`ChatServerProofs` proves for every number of slots, descriptors and processes and
every set of logins, commands and initial groups, from the three assumptions of
`ChatServer` (bounds are natural numbers, requests have their types, the two
marks of the descriptor table are no processes):

* `TypeCorrect`: `Spec => []TypeOK`
* `SlotTableHolds`: `Spec => []SlotTable`
* `NeverBlocksInRecvHolds`: `Spec => []NeverBlocksInRecv`
* `ImplementsRoom` (`ChatServerRefinement`): `Spec => RoomSpec`, and of the room
  itself `RoomIsSound` (`RoomAdmissionProofs`)
* `GroupsOnlyGrowHolds`, `JoinAddsOnceHolds`, `GroupTextsFollowLoginsHolds`
  (`ChatServerRequestProofs`): `Spec => GroupsOnlyGrow`, `Spec => JoinAddsOnce`,
  `Spec => GroupTextsFollowLogins`
* `PortPairsTwoHolds`, `AnswersEarnedHolds` (`ChatServerRequestProofs`):
  `Spec => []PortPairsTwo`, `Spec => []AnswersEarned`

None of the invariants is inductive. `Inv` adds to `TypeOK` and `SlotTable`:

* `Stages`: nothing is left to do at `select` and `accept`, and a pass reaches
  `accept` only with a caller in the queue; without it `Accept` takes the head of
  an empty queue.
* `TodoIsSound`: what is left to do concerns open connections, and a close or a
  drop comes last; without it a later send could go to the closed descriptor.
* `CallersHaveCalled`: a process that has not called is in no table; this is why
  a new caller is not held or queued twice.
* `ReadyIsFresh`: what `select()` reported is still true for every slot the loop
  has yet to reach, also at `accept`, where the new descriptor is not one of the
  reported ones.

`HandlerEffect` says once what any handler may change, each handler has a lemma
that it does no more, and `DispatchEffect` joins them; this is also what makes the
uninitialised message of `HandleReset` harmless to the tables. `StepKeepsInv` has
one case per action, `InvHolds` is the temporal step.

The refinement has one lemma per kind of step: `CallMade`, `CallTaken` (a seat or
a refusal), `SeatGivenUp` (a disconnect or the drop of a failed login), and
`RoomStutters` for the rest, which includes the close of a refused caller: by
`NoDescriptorLost` its descriptor has no slot. The theorems on the group file rest
on `StepWrites` (only two handlers write it, after a reset too) and on
`CopiedToTheEnd`: of the lines that cut the copy short, one that lists the joiner
and an empty one, the first decides which exit is taken, so that a copy that
reaches the end has no line of the group that lists him.

The other theorems of `ChatServerRequestProofs` are about what goes out on the
connections, and each looks at the sends that are still in `todo` together with what
the process has been sent (`Given`, `AnswersOwed`), because a handler's two sends may
be steps apart, with a crash of the receiver between them:

* `PortPairsTwo`: `EndsMeet` and `GivenOnce`. Only `send_private_message` adds an
  offer, on an empty `todo`, with a port that is below `PORTS` from then on; a send
  moves one offer from `todo` to a client or loses it (`FewerGiven`). `GivenOnce` is
  what tells one process given an offer twice from two ends.
* `AnswersEarned`: `Earned`. Nothing is sent to a process before it is accepted, no
  more of its requests wait than it sent, and an answer is first in `todo`, so that
  at most one is owed. Every step but a send is a `SilentStep`: an answer comes to be
  owed only to a process a request of which was read in that very step (`Balanced`).
  After a reset the handler that runs on an uninitialised message may owe any answer,
  but its process no longer lives.
* `GroupTextsFollowLogins`: `NamesFollow` says that the name in a slot is that of the last
  login of the process in it, unless that process has not logged in since it was
  accepted, or its slot is about to be dropped (`DropLeft`); `NotBeforeAccept` that
  nobody has logged in before. Every step keeps both (`StepKeepsNames`): a name is stored
  by `login` only, which either counts as a login or is followed by the drop. The sends
  enumerate lines, members and slots in increasing order (`InOrderOnce`, `InOrderAll`),
  so that a process is sent as many copies as there are listings of its name
  (`CopiesAreListings`, by counting); `ReadByHandler` shows that a request that left the
  inbox of a due slot went through its handler.

`RegistrationProofs` proves, for any number of clients, names, passwords and
children, `TypeCorrect`, `ToldMeansStoredHolds`, `GrantedOnceHolds`,
`CertificateFitsHolds` and `TakenNameKeepsItsKeyHolds` from the assumptions of
`Registration` (the initial files are files, the marks are no clients, names or
files). The invariant adds:

* `Places`: where a client, its children and its form stand together: a client that
  makes keys has been answered, a child that grants has a file.
* `Once`: what a search found is still true of the names granted, and written, before
  the call when the line is appended, because those children are done and their lines
  stay.
* `Keys`: a key of somebody who registered before belongs to a name in the file, and
  neither a child that grants, nor a client that has made its key, nor the key
  `openssl rsa` holds is of that kind. Without the last, the rewrite of a key could
  bring an old one back.
* `Sole`, for `CertificateFits`: while one client alone makes keys for a name, the key
  file, the request, the key `openssl rsa` holds, the request the signer has read and
  the certificate are each its own from the step that makes them on. Only a client or
  a signer that makes keys writes any of these files (`FileWritten`).

`PrivateChatProofs` proves, for any finite set of clients, any lines and any set of
busy ports, `TypeCorrect`, `MeetOnTheirPortHolds` and `InStepReachesAddresseeHolds`:
`Len(offers) <= PortSpace => MeetOnTheirPort` in every state, and the same for
`InStepReachesAddressee`. The premise is needed:
`PORTS` only grows, `htons` keeps 16 bits of it, and the 65,537th `/msg` hands out a
port that an earlier pair may still be using. In the run the second port is 65536, the number that leaves no port. The
invariant adds:

* `InOrder`: the `k`-th offer has the `k`-th port, so that a port belongs to one offer,
  and two ports of at most `PortSpace` offers that leave the same 16 bits are one port
  (`CloseAndEqual`, `PortsAreClose`).
* `Informed`: a port that lies in a message of the kind `PRIVATE_MESSAGE`, a
  `port_number` taken from such a message (`told`) and the number of a listening socket
  were offered to that very client. It survives every mistaken answer: a text of another
  kind may well be the port of others, but then the client is not in `told`.
* `Calls`: who is in a listener's queue, or accepted by it, and still lives, waits in
  `SSL_connect` on that listener's port, and at one listener only. `TwoEndsOneOffer`
  then gives the offer whose two ends they are.

For `InStepReachesAddressee` a second invariant, `Steps`, follows a `/msg` through
the server. A client that is not in `crossed` and waits for an answer has exactly one
request or answer under way, in one of three places: its request is not read yet
(`NotRead`), or the answer is in `todo` (`BeingAnswered`), or it has come (`Answered`);
at any other place of its loop it has none (`NothingAsked`). This is what keeps an old
answer from being taken for a new one. The port it connects to was then offered to it
and to a client that sat under the name it typed (`Promised`); `Named` adds that this is
the user of that name if the server had read its login: a living client that has logged
in sits under its own name. A client that meets it on this port is one end of that offer
by `TwoEndsOneOffer` and `OnePortOneOffer`, and so the one that was picked
(`PromisedMeets`). A client killed in between, or one that crossed, owes nothing.
Besides the finiteness of the table and the types of the constants the proofs assume
that programs that do not answer are among those that hold ports, and that nobody sits
in two slots at the start.

`FileTransferProofs` and `FileTransferStepProofs` prove, for any number of clients and
messages, any sizes of blocks and messages and any cuts of the reads,
`ToldMeansKeptHolds`, `StoreOnlyGrowsHolds`, `KeepsStepHolds` and `TypeOKHolds`. They
rest on the assumptions of `FileTransfer`: the sizes are positive, the bounds are
numbers, an absent file is no sequence of units (`NoFileIsNone`), and the directory at
the start holds files (`StoredIsDirectory`). The server stores a new file only where
an index is left (`HasRoom`): the bound `LastIndex` stands for the integers the
code counts through.

* `IInv` looks at what a client has written and what it has yet to write as one
  stream (`At`). Behind every announcement in it comes the padded file (`Streams`,
  `Follows`), behind the blocks the server has counted comes the rest of the file it
  reads (`Reading`), and what it has stored is what it read as long as no write failed
  (`Stores`); from a client
  that went away, as far as it came. `Kept` says of every file told as sent that
  nobody writes to it again. Only what the client wrote as a message can announce a
  file (`Bodies`): where data is taken for a message the model stops.
* `KeepsStep` needs to know where messages begin. `Steps` says of a client whose reads
  were whole and whose files do not end with a block (`Tidy`) that behind every message
  and its padded file comes a message or nothing (`After`), and that the count of the
  running transfer stands between two blocks (`Left`), so that it ends with the padding.
* `TypeOK` bounds what a client has to read: `Answers` counts with it the messages
  not yet handled and the running transfer, one answer each.

Only model-checked: the progress properties (`CallersAreTaken`, `RequestsAreRead`,
`DeadAreDropped`, `HandlersEnd`, `NewcomersAreCertified`, `SendersComeBack`,
`ListenersAreCalled`, `OthersAreServed`), because liveness under fairness is beyond the
prover, and the six statements of the README that do not hold. Every invariant and
action property of a passing run is a theorem.

## 5. Not modelled, and what is left

* `receive_file` of the client (`client.c:667-736`): unreachable, see above.
* `NetfilterHook`: the choice of the logged flag (`hello.c:38-49`), a stateless
  chain of five tests without a document to compare it with.
* `src/NS_assignment_2/encrypt.c` (a straight-line benchmark of library calls),
  `temp.c` and `temp2.c` (samples the makefile does not build), reports, captures
  and certificates of the other assignments.
* The three vendored OpenSSL trees: third-party code, and by far the largest part of
  the repository: the chat program is less than three thousand of its lines.

Left to do: a proof that `ChatServer` implements the server of `PrivateChat`; and what
still holds once `PORTS` has gone round, in place of the premise
`Len(offers) <= PortSpace`: the two ends of a text belong to offers whose ports leave
the same 16 bits.
