---------------------------- MODULE FileTransfer ----------------------------
(***************************************************************************)
(* /send: a client announces the size of a file in a message and writes    *)
(* the file behind it in whole blocks (client.c:514-577); the server reads *)
(* from the same stream until it has counted the size (server.c:137-216)   *)
(* and takes what follows for the next message (server.c:549-602).         *)
(*                                                                         *)
(* A stream is a sequence of units.  A unit stands for some bytes, at      *)
(* least the four of a message's type; a recv() or read() returns any part *)
(* of what it asked for.  A block and a message are written in one step    *)
(* each.  Where the server takes file data for a message it may run any    *)
(* handler: the model stops there ("astray").                              *)
(*                                                                         *)
(* The server looks at no result of its writes: a file that cannot be      *)
(* opened ends it, and data that is not written is counted all the same.   *)
(*                                                                         *)
(* The tables of the server, its other handlers and blocked sends are in   *)
(* ChatServer; what a client makes of a server that has ended is in        *)
(* PrivateChat, and of the line "/send" in ClientInput.                    *)
(***************************************************************************)
EXTENDS Integers, Sequences, FiniteSets, FiniteSetsExt

CONSTANTS
    Clients,
    NoClient,
    Shelves,         \* a user and a type of file: what the stored names share
    Senders,         \* clients whose users have files to send
    Stoppable,       \* clients that may be ended
    Unlucky,         \* clients whose files the disk may not take
    Takes,           \* the size a file had when asked, and when read
    SizeLimit,       \* FILE_SIZE
    BlockSize,       \* arraySize, the buffers of 1026 bytes
    MessageSize,     \* sizeof(message)
    LastIndex,       \* indexes tried at most
    NoFile,          \* nothing has the name
    Stored,          \* what the server's directory may hold at the start
    MaxRequests,     \* messages the clients send at most
    MaxCuts          \* reads that return less than there is, at most

ASSUME BlocksHaveRoom == BlockSize \in Nat \ {0} /\ MessageSize \in Nat \ {0}
ASSUME SizesAreCounted == Takes \subseteq [size : Nat, read : Nat] /\ SizeLimit \in Nat
ASSUME NoClientIsNone == NoClient \notin Clients
ASSUME BoundsAreNumbers == LastIndex \in Nat /\ MaxRequests \in Nat /\ MaxCuts \in Nat

VARIABLES
    conn,       \* a client's connection: up, closed, reset, closed and reset
    wire,       \* units the server has not read
    body,       \* units a client has not written
    sent,       \* messages the clients have sent
    unread,     \* answers it has not read
    files,      \* history: the files a client has sent
    server,     \* select, reading, astray, down
    slots,      \* clients the server holds a connection of
    due,        \* clients of the pass that are still to be served
    job,        \* the transfer being read
    store,      \* the files of the server's directory
    told,       \* history: transfers whose sender was told of success
    cuts,       \* history: reads of a client that returned less than there was
    lost        \* history: the client whose data was taken for a message

client == <<conn, wire, body, sent, unread, files>>
server_ == <<server, slots, due, job, store, told, cuts, lost>>
vars == <<client, server_>>

Indexes == 0..LastIndex
Idle == [from |-> NoClient]
Down == server \in {"astray", "down"}

-----------------------------------------------------------------------------
(* What goes over the wire.                                                *)
Typed(m) == [unit |-> "type", msg |-> m]
Rest == [unit |-> "rest"]
Data(id, k) == [unit |-> "data", of |-> id, at |-> k]
Zeros == [unit |-> "zeros"]      \* bzero
Junk == [unit |-> "junk"]        \* the buffer before its first fread

Ids == Clients \X (Nat \ {0})
Messages ==
    [type : {"GET_USERS", "RECEIVE_FILE"}]
        \cup [type : {"SEND_FILE"}, id : Ids, shelf : Shelves, size : Nat]
Units ==
    [unit : {"type"}, msg : Messages] \cup [unit : {"rest", "zeros", "junk"}]
        \cup [unit : {"data"}, of : Ids, at : Nat]

ASSUME NoFileIsNone == NoFile \notin Seq(Units)
ASSUME StoredIsDirectory ==
    Stored \subseteq [Shelves -> [Indexes -> Seq(Units) \cup {NoFile}]]

Encoded(m) == [k \in 1..MessageSize |-> IF k = 1 THEN Typed(m) ELSE Rest]
IsMessage(u) == Len(u) = MessageSize /\ u[1].unit = "type"

Content(id, n) == [k \in 1..n |-> Data(id, k)]

(* mutant: a block is written as long as fread made it *)
WrittenExactly(id, n) == Content(id, n)

(* feof holds only after a read came short: a file that ends with a block  *)
(* is followed by one of zeros.                                            *)
Written(id, n) ==
    LET blocks == (n \div BlockSize) + 1
    IN  Content(id, n) \o [k \in 1..(blocks * BlockSize - n) |->
                              IF n + k <= BlockSize THEN Junk ELSE Zeros]

-----------------------------------------------------------------------------
Init ==
    /\ conn = [c \in Clients |-> "up"]
    /\ wire = [c \in Clients |-> <<>>]
    /\ body = [c \in Clients |-> <<>>]
    /\ sent = 0
    /\ unread = [c \in Clients |-> 0]
    /\ files = [c \in Clients |-> <<>>]
    /\ server = "select"
    /\ slots = Clients
    /\ due = {}
    /\ job = Idle
    /\ store \in Stored
    /\ told = {}
    /\ cuts = [c \in Clients |-> 0]
    /\ lost = NoClient

(* The client.  It does nothing else while it writes a file, and goes on   *)
(* without an answer.                                                      *)
Says(c, m) ==
    /\ conn[c] = "up" /\ body[c] = <<>> /\ sent < MaxRequests
    /\ wire' = [wire EXCEPT ![c] = @ \o Encoded(m)]
    /\ sent' = sent + 1

Ask(c) ==
    /\ Says(c, [type |-> "GET_USERS"])
    /\ UNCHANGED <<conn, body, unread, files, server_>>

AskForFiles(c) ==
    /\ Says(c, [type |-> "RECEIVE_FILE"])
    /\ UNCHANGED <<conn, body, unread, files, server_>>

(* The size is taken before the file is read, which may change in between. *)
SendFile(c) == \E f \in Takes, sh \in Shelves :
    LET id == <<c, Len(files[c]) + 1>> IN
    /\ c \in Senders /\ f.size <= SizeLimit
    /\ Says(c, [type |-> "SEND_FILE", id |-> id, shelf |-> sh, size |-> f.size])
    /\ body' = [body EXCEPT ![c] = Written(id, f.read)]
    /\ files' = [files EXCEPT ![c] = Append(@, [size |-> f.size, read |-> f.read, shelf |-> sh])]
    /\ UNCHANGED <<conn, unread, server_>>

WriteBlock(c) ==
    /\ conn[c] = "up" /\ body[c] # <<>>
    /\ LET n == Min({BlockSize, Len(body[c])}) IN
        /\ wire' = [wire EXCEPT ![c] = @ \o SubSeq(body[c], 1, n)]
        /\ body' = [body EXCEPT ![c] = SubSeq(@, n + 1, Len(@))]
    /\ UNCHANGED <<conn, sent, unread, files, server_>>

ReadAnswer(c) ==
    /\ conn[c] = "up" /\ body[c] = <<>> /\ unread[c] > 0
    /\ unread' = [unread EXCEPT ![c] = @ - 1]
    /\ UNCHANGED <<conn, wire, body, sent, files, server_>>

(* Quit, or killed in the middle of a file.  Unread answers make a reset.  *)
End(c) ==
    /\ conn[c] = "up" /\ c \in Stoppable
    /\ conn' = [conn EXCEPT ![c] = IF unread[c] = 0 THEN "fin" ELSE "rst"]
    /\ body' = [body EXCEPT ![c] = <<>>]
    /\ UNCHANGED <<wire, sent, unread, files, server_>>

-----------------------------------------------------------------------------
(* The server: a pass serves every client that was ready when it began.    *)
Ready == { c \in slots : wire[c] # <<>> \/ conn[c] # "up" }

Select ==
    /\ server = "select" /\ due = {} /\ Ready # {}
    /\ due' = Ready
    /\ UNCHANGED <<client, server, slots, job, store, told, cuts, lost>>

(* One read of at most `most` units: all of them that have come, or less.  *)
Reads(c, most, k) ==
    /\ wire[c] # <<>> /\ k \in 1..Min({most, Len(wire[c])})
    /\ k < Min({most, Len(wire[c])}) => cuts[c] < MaxCuts
    /\ cuts' = [cuts EXCEPT ![c] = IF k < Min({most, Len(wire[c])}) THEN @ + 1 ELSE @]
    /\ wire' = [wire EXCEPT ![c] = SubSeq(@, k + 1, Len(@))]

(* send: a client that has ended answers the first with a reset, and the   *)
(* next ends the server.                                                   *)
Answer(c) ==
    \/ /\ conn[c] = "up"
       /\ unread' = [unread EXCEPT ![c] = @ + 1]
       /\ server' = "select" /\ UNCHANGED conn
    \/ /\ conn[c] = "fin"
       /\ \E after \in {"fin", "finrst"} : conn' = [conn EXCEPT ![c] = after]
       /\ server' = "select" /\ UNCHANGED unread
    \/ conn[c] \in {"rst", "finrst"} /\ server' = "down" /\ UNCHANGED <<conn, unread>>

(* mutant: the files are counted *)
FirstFreeCounted(sh) == Cardinality({ i \in Indexes : store[sh][i] # NoFile })

(* The loop ends: fewer files are there than LastIndex + 1.                *)
HasRoom(sh) == \E i \in Indexes : store[sh][i] = NoFile

FirstFree(sh) == Min({ i \in Indexes : store[sh][i] = NoFile })

Opened(c, m) ==
    LET i == FirstFree(m.shelf) IN
    /\ HasRoom(m.shelf)
    /\ store' = [store EXCEPT ![m.shelf][i] = <<>>]
    /\ job' = [from |-> c, id |-> m.id, size |-> m.size, count |-> 0,
               shelf |-> m.shelf, index |-> i, wrote |-> "all"]
    /\ server' = "reading"

(* fopen() fails, and the first fwrite() or fclose() faults.  The sender   *)
(* has a block to write or ends: nothing else happens before.              *)
OpenFails == server' = "down" /\ UNCHANGED <<job, store>>

Handle(c, m) ==
    \/ /\ m.type = "SEND_FILE"
       /\ Opened(c, m)
       /\ UNCHANGED <<conn, unread>>
    \/ /\ m.type = "SEND_FILE" /\ c \in Unlucky
       /\ OpenFails
       /\ UNCHANGED <<conn, unread>>
    \/ /\ m.type = "GET_USERS"
       /\ Answer(c)
       /\ UNCHANGED <<job, store>>
    \/ /\ m.type = "RECEIVE_FILE"       \* no file has the name it looks for
       /\ UNCHANGED <<conn, unread, server, job, store>>

(* Zeros are a CONNECT, which no handler takes.                            *)
Message(c, u) ==
    \/ IsMessage(u) /\ Handle(c, u[1].msg) /\ UNCHANGED lost
    \/ /\ u[1] = Zeros
       /\ UNCHANGED <<conn, unread, server, job, store, lost>>
    \/ /\ ~IsMessage(u) /\ u[1] # Zeros
       /\ server' = "astray" /\ lost' = c
       /\ UNCHANGED <<conn, unread, job, store>>

Turn(c) == server = "select" /\ c \in due /\ due' = due \ {c}

Serve(c) ==
    /\ Turn(c)
    /\ \E k \in 1..MessageSize :
        /\ Reads(c, MessageSize, k)
        /\ Message(c, SubSeq(wire[c], 1, k))
    /\ UNCHANGED <<body, sent, files, slots, told>>

(* mutant: the pass keeps the slot that was freed *)
FreeSlotLate(c) == slots' = slots \ {c} /\ UNCHANGED due

FreeSlot(c) == due' = due \ {c} /\ slots' = slots \ {c}

Disconnected(c) ==
    /\ server = "select" /\ c \in due
    /\ wire[c] = <<>> /\ conn[c] \in {"fin", "finrst"}
    /\ FreeSlot(c)
    /\ UNCHANGED <<client, server, job, store, told, cuts, lost>>

(* recv() fails and an uninitialised message is handled.                   *)
Reset(c) ==
    /\ Turn(c)
    /\ wire[c] = <<>> /\ conn[c] = "rst"
    /\ server' = "astray" /\ lost' = c
    /\ conn' = [conn EXCEPT ![c] = "finrst"]
    /\ UNCHANGED <<wire, body, sent, unread, files, slots, job, store, told, cuts>>

-----------------------------------------------------------------------------
(* send_file: nobody else is served before it returns.                     *)
Wanted == server = "reading" /\ job.count < job.size

(* mutant: every read counts for a whole buffer *)
GotBuffers(k) == job.count + BlockSize

Got(k) == job.count + k

(* The disk may be full: a failed write is logged, its data is lost and    *)
(* counted.  Units lost when a later fwrite() or fclose() flushes are the  *)
(* end of what a read gave, and lost here with it.                         *)
Wrote(k, w) == IF w = k THEN job.wrote ELSE "some"

ReadBody(c) ==
    /\ Wanted /\ c = job.from
    /\ \E k \in 1..BlockSize, w \in 0..BlockSize :
        /\ Reads(c, BlockSize, k) /\ w <= k /\ (w < k => c \in Unlucky)
        /\ job' = [job EXCEPT !.count = Got(k), !.wrote = Wrote(k, w)]
        /\ store' = [store EXCEPT ![job.shelf][job.index] = @ \o SubSeq(wire[c], 1, w)]
    /\ UNCHANGED <<conn, body, sent, unread, files, server, slots, due, told, lost>>

Close(c) ==
    /\ job' = Idle
    /\ Answer(c)
    /\ told' = IF conn[c] = "up"
               THEN told \cup {[id |-> job.id, shelf |-> job.shelf, index |-> job.index,
                                 wrote |-> job.wrote]}
               ELSE told

Finish(c) ==
    /\ server = "reading" /\ ~Wanted /\ c = job.from
    /\ Close(c)
    /\ UNCHANGED <<wire, body, sent, files, slots, due, store, cuts, lost>>

(* mutant: the end of the stream is tried again, as an interrupted read is *)
BreaksRetrying(c) == conn[c] = "rst"

(* read() returns 0, or fails.                                             *)
Breaks(c) == conn[c] # "up"

BreakOff(c) ==
    /\ Wanted /\ c = job.from /\ wire[c] = <<>> /\ Breaks(c)
    /\ job' = Idle
    /\ \/ /\ conn[c] = "rst"                 \* the error is taken, the send fails
          /\ conn' = [conn EXCEPT ![c] = "finrst"]
          /\ server' = "down" /\ UNCHANGED unread
       \/ conn[c] # "rst" /\ Answer(c)
    /\ UNCHANGED <<wire, body, sent, files, slots, due, store, told, cuts, lost>>

-----------------------------------------------------------------------------
ClientRuns(c) == WriteBlock(c) \/ ReadAnswer(c)

ServerRuns == Select \/ \E c \in Clients :
    Serve(c) \/ Disconnected(c) \/ Reset(c) \/ ReadBody(c) \/ Finish(c) \/ BreakOff(c)

Next == ServerRuns \/ \E c \in Clients :
    Ask(c) \/ AskForFiles(c) \/ SendFile(c) \/ End(c) \/ ClientRuns(c)

Spec == Init /\ [][Next]_vars

(* The server and the clients run when they can; nobody has to ask for     *)
(* anything, and anybody may be killed.                                    *)
FairSpec == Spec /\ WF_vars(ServerRuns) /\ \A c \in Clients : WF_vars(ClientRuns(c))

-----------------------------------------------------------------------------
TypeOK ==
    /\ conn \in [Clients -> {"up", "fin", "rst", "finrst"}]
    /\ sent \in 0..MaxRequests /\ cuts \in [Clients -> 0..MaxCuts]
    /\ \A c \in Clients : unread[c] \in 0..MaxRequests
    /\ server \in {"select", "reading", "astray", "down"}
    /\ slots \subseteq Clients /\ due \subseteq slots
    /\ \A c \in Clients \ slots : conn[c] \in {"fin", "finrst"} /\ wire[c] = <<>>
    /\ (job # Idle) = (server = "reading")
    /\ \A sh \in Shelves : DOMAIN store[sh] = Indexes
    /\ lost \in Clients \cup {NoClient} /\ (lost = NoClient) = (server # "astray")

Announced(id) == files[id[1]][id[2]]

(* As many units were there when the file was read as were announced.      *)
Unchanged(f) == f.read = f.size

(* Whoever is told "File successfully sent." (server.c:208) has a file     *)
(* there that begins with every unit of his, however the stream was cut    *)
(* into reads (server.c:165-201) and whatever the other clients stored,    *)
(* unless the file changed or a write failed (server.c:196-199): he is     *)
(* told the same then.                                                     *)
ToldMeansKept ==
    \A t \in told :
        LET f == Announced(t.id)
            data == store[t.shelf][t.index]
        IN  Unchanged(f) /\ t.wrote = "all" =>
                /\ t.shelf = f.shelf /\ Len(data) >= f.size
                /\ SubSeq(data, 1, f.size) = Content(t.id, f.size)

(* The server takes data for a message only after a read was cut short, a  *)
(* file whose size is a multiple of the block, a file that changed while   *)
(* it was sent, or a reset, of that same client: otherwise the blocks of   *)
(* client.c:571-575 and the count of server.c:165 agree on where the next  *)
(* message begins.                                                         *)
KeepsStep ==
    lost # NoClient =>
        \/ cuts[lost] > 0 \/ conn[lost] = "finrst"
        \/ \E f \in { files[lost][n] : n \in DOMAIN files[lost] } :
              f.size % BlockSize = 0 \/ ~Unchanged(f)

(* No stored file is overwritten, shortened or removed: each gets the      *)
(* first name that is free (server.c:151-161), and /recv, which would      *)
(* remove what it delivers, finds none (server.c:242-272).                 *)
StoreOnlyGrows ==
    [][\A sh \in Shelves : \A i \in Indexes :
          store[sh][i] # NoFile /\ store'[sh][i] # store[sh][i] =>
              job # Idle /\ job.shelf = sh /\ job.index = i]_vars

(* A transfer holds up the others only while it comes: every message is    *)
(* read in the end, unless the server has ended or gone astray, or waits   *)
(* for units that a file lost after its size was taken.                    *)
WaitsInVain ==
    /\ server = "reading"
    /\ LET f == Announced(job.id) IN f.read < f.size

OthersAreServed ==
    \A c \in Clients : wire[c] # <<>> ~> wire[c] = <<>> \/ Down \/ WaitsInVain
=============================================================================
