---------------------------- MODULE Registration ----------------------------
(***************************************************************************)
(* Registration: register_server.c and ca_server.c, which fork a child per *)
(* caller, and the branch of client.c that calls them.  They share two     *)
(* things without a lock: registeredUsers.txt, and the directory CERTS/,   *)
(* in which a user's key, request and certificate are named after him.     *)
(*                                                                         *)
(* A key is named by the client that made it, and so are the request and   *)
(* the certificate made from it.  One program run by system() writes one   *)
(* file in one step and reads one in one step.                             *)
(***************************************************************************)
EXTENDS Naturals, Sequences, FiniteSets

CONSTANTS
    Clients,        \* runs of client.c that register
    Names,          \* user names
    Passwords,
    NoName,         \* what strtok finds in an empty message
    Nobody,         \* no file
    Owner,          \* stands for whoever registered before
    Missing,        \* registeredUsers.txt does not exist
    InitialFiles,   \* what registeredUsers.txt may be at the start
    MaxChildren,    \* children a server can fork: none is ever waited for
    Unlucky         \* clients in whose call the disk may be full or the file not open

Line == [name : Names \cup {NoName}, pass : Passwords \cup {NoName}]
Form == [name : Names, pass : Passwords]
NoForm == [name |-> NoName, pass |-> NoName]
Makers == Clients \cup {Owner, Nobody}

ASSUME ChildrenAreCounted == MaxChildren \in Nat
ASSUME UnluckyAreClients == Unlucky \subseteq Clients
ASSUME FilesAreTyped == InitialFiles \subseteq Seq(Form) \cup {Missing}
ASSUME NobodyIsNoClient == Nobody \notin Clients /\ Owner \notin Clients /\ Nobody # Owner
ASSUME NoNameIsNoName == NoName \notin Names
ASSUME MissingIsNoFile == Missing \notin Seq(Line)

VARIABLES
    users,      \* registeredUsers.txt
    keyOf,      \* CERTS/<name>-key.pem
    requestOf,  \* CERTS/<name>-req.pem
    certOf,     \* CERTS/<name>-cert.pem
    form,       \* the name and password a client typed
    client,     \* where a client stands
    child,      \* where the child that register_server forked for it stands
    signer,     \* where the child that ca_server forked for it stands
    held,       \* the key "openssl rsa" has read and not written back yet
    pending,    \* the request "openssl x509" has read
    forked,     \* children of each server, ended ones included
    before,     \* history: clients that had their success when this one called
    lost        \* history: clients whose line was not written

files == <<users, keyOf, requestOf, certOf>>
vars == <<files, form, client, child, signer, held, pending, forked, before, lost>>

Registered(n) == users # Missing /\ \E k \in DOMAIN users : users[k].name = n
NameOf(c) == form[c].name

Init ==
    /\ users \in InitialFiles
    /\ keyOf = [n \in Names |-> IF Registered(n) THEN Owner ELSE Nobody]
    /\ requestOf = keyOf
    /\ certOf = keyOf
    /\ form = [c \in Clients |-> NoForm]
    /\ client = [c \in Clients |-> "start"]
    /\ child = [c \in Clients |-> "none"]
    /\ signer = [c \in Clients |-> "none"]
    /\ held = [c \in Clients |-> Nobody]
    /\ pending = [c \in Clients |-> Nobody]
    /\ forked \in [{"register", "ca"} -> 0..MaxChildren]    \* by earlier calls
    /\ before = [c \in Clients |-> {}]
    /\ lost = {}

-----------------------------------------------------------------------------
(* The client: connect, scanf, send.                                       *)
Submit(c) ==
    /\ client[c] = "start"
    /\ \E f \in Form : form' = [form EXCEPT ![c] = f]
    /\ client' = [client EXCEPT ![c] = "waiting"]
    /\ child' = [child EXCEPT ![c] = "called"]
    /\ before' = [before EXCEPT ![c] = { d \in Clients : child[d] = "done" }]
    /\ UNCHANGED <<files, signer, held, pending, forked, lost>>

(* It is stopped between connect and send: the child will read nothing.    *)
Abandon(c) ==
    /\ client[c] = "start"
    /\ client' = [client EXCEPT ![c] = "gone"]
    /\ child' = [child EXCEPT ![c] = "called"]
    /\ UNCHANGED <<files, form, signer, held, pending, forked, before, lost>>

Goes(c, from, to) ==
    /\ client[c] = from
    /\ client' = [client EXCEPT ![c] = to]

(* recv returns the text of success, or 0 when no child serves the call;   *)
(* the client looks at neither.                                            *)
AnswerHeard(c) == child[c] \in {"done", "dead", "refused"}

(* mutant: the certificate is asked for before key and request are made *)
HearAskFirst(c) ==
    /\ AnswerHeard(c)
    /\ Goes(c, "waiting", "ask")
    /\ UNCHANGED <<files, form, child, signer, held, pending, forked, before, lost>>

Hear(c) ==
    /\ AnswerHeard(c)
    /\ Goes(c, "waiting", "newkey")
    /\ UNCHANGED <<files, form, child, signer, held, pending, forked, before, lost>>

(* openssl req: a new key, and then the request for it.                    *)
WriteKey(c) ==
    /\ Goes(c, "newkey", "request")
    /\ keyOf' = [keyOf EXCEPT ![NameOf(c)] = c]
    /\ UNCHANGED <<users, requestOf, certOf, form, child, signer, held, pending, forked, before, lost>>

WriteRequest(c) ==
    /\ Goes(c, "request", "readkey")
    /\ requestOf' = [requestOf EXCEPT ![NameOf(c)] = c]
    /\ UNCHANGED <<users, keyOf, certOf, form, child, signer, held, pending, forked, before, lost>>

(* openssl rsa: the key is read, and written back to the same file.        *)
ReadKey(c) ==
    /\ Goes(c, "readkey", "rewrite")
    /\ held' = [held EXCEPT ![c] = keyOf[NameOf(c)]]
    /\ UNCHANGED <<files, form, child, signer, pending, forked, before, lost>>

RewriteKey(c) ==
    /\ Goes(c, "rewrite", "ask")
    /\ keyOf' = [keyOf EXCEPT ![NameOf(c)] = held[c]]
    /\ UNCHANGED <<users, requestOf, certOf, form, child, signer, held, pending, forked, before, lost>>

(* The name goes to ca_server and the client ends without an answer.       *)
AskForCertificate(c) ==
    /\ Goes(c, "ask", "done")
    /\ signer' = [signer EXCEPT ![c] = "called"]
    /\ UNCHANGED <<files, form, child, held, pending, forked, before, lost>>

Stop(c) ==
    /\ client[c] \notin {"start", "done", "gone"}
    /\ client' = [client EXCEPT ![c] = "gone"]
    /\ UNCHANGED <<files, form, child, signer, held, pending, forked, before, lost>>

-----------------------------------------------------------------------------
(* Both servers: accept, fork, and close the parent's end of the call,     *)
(* which is all that happens when fork fails.                              *)
(* mutant: a fork that fails goes unnoticed *)
CanForkAlways(s) == s \in DOMAIN forked

CanFork(s) == forked[s] < MaxChildren

Fork(s) ==
    IF CanFork(s) THEN forked' = [forked EXCEPT ![s] = @ + 1] ELSE UNCHANGED forked

Accept(c) ==
    /\ child[c] = "called"
    /\ Fork("register")
    /\ child' = [child EXCEPT ![c] = IF CanFork("register") THEN "reading" ELSE "refused"]
    /\ UNCHANGED <<files, form, client, signer, held, pending, before, lost>>

AcceptSigning(c) ==
    /\ signer[c] = "called"
    /\ Fork("ca")
    /\ signer' = [signer EXCEPT ![c] = IF CanFork("ca") THEN "reading" ELSE "refused"]
    /\ UNCHANGED <<files, form, client, child, held, pending, before, lost>>

ChildGoes(c, from, to) ==
    /\ child[c] = from
    /\ child' = [child EXCEPT ![c] = to]

(* mutant: the search looks at the first line only *)
TakenFirst(n) == users \notin {Missing, <<>>} /\ users[1].name = n

(* mutant: any line counts as a match *)
TakenAny(n) == users \notin {Missing, <<>>} /\ n \in Names

Taken(n) == Registered(n)

(* Without a file, or a name to compare with its lines, the child ends at  *)
(* a NULL.                                                                 *)
CanLook(c) == users # Missing /\ (NameOf(c) = NoName => users = <<>>)

(* mutant: a taken name leaves the loop as well *)
AfterLookupAnswered(c) ==
    CASE ~CanLook(c) -> "dead"
      [] CanLook(c) /\ Taken(NameOf(c)) -> "reply"
      [] OTHER -> "append"

(* A taken name never leaves the loop.                                     *)
AfterLookup(c) ==
    CASE ~CanLook(c) -> "dead"
      [] CanLook(c) /\ Taken(NameOf(c)) -> "spin"
      [] OTHER -> "append"

Lookup(c) ==
    /\ ChildGoes(c, "reading", AfterLookup(c))
    /\ UNCHANGED <<files, form, client, signer, held, pending, forked, before, lost>>

(* mutant: the file is opened for writing *)
WithLineAlone(f) == <<f>>

WithLine(f) == Append(users, f)

(* Append mode and one write when the file is closed: lines of several     *)
(* children do not mix.  A file that cannot be opened ends the child; a    *)
(* write that fails, on a full disk, is not looked at.                     *)
AppendLine(c) ==
    /\ \/ /\ ChildGoes(c, "append", "reply")
          /\ users' = WithLine(form[c]) /\ UNCHANGED lost
       \/ /\ ChildGoes(c, "append", "reply")
          /\ c \in Unlucky /\ lost' = lost \cup {c} /\ UNCHANGED users
       \/ /\ ChildGoes(c, "append", "dead")
          /\ c \in Unlucky /\ UNCHANGED <<users, lost>>
    /\ UNCHANGED <<keyOf, requestOf, certOf, form, client, signer, held, pending, forked, before>>

Reply(c) ==
    /\ ChildGoes(c, "reply", "done")
    /\ UNCHANGED <<files, form, client, signer, held, pending, forked, before, lost>>

(* openssl x509: without a request there is nothing to sign.               *)
ReadRequest(c) ==
    /\ signer[c] = "reading"
    /\ pending' = [pending EXCEPT ![c] = requestOf[NameOf(c)]]
    /\ signer' = [signer EXCEPT ![c] = IF requestOf[NameOf(c)] = Nobody THEN "done" ELSE "sign"]
    /\ UNCHANGED <<files, form, client, child, held, forked, before, lost>>

WriteCertificate(c) ==
    /\ signer[c] = "sign"
    /\ certOf' = [certOf EXCEPT ![NameOf(c)] = pending[c]]
    /\ signer' = [signer EXCEPT ![c] = "done"]
    /\ UNCHANGED <<users, keyOf, requestOf, form, client, child, held, pending, forked, before, lost>>

-----------------------------------------------------------------------------
ClientRuns(c) ==
    \/ Hear(c) \/ WriteKey(c) \/ WriteRequest(c) \/ ReadKey(c) \/ RewriteKey(c)
    \/ AskForCertificate(c)

ServersRun(c) ==
    \/ Accept(c) \/ Lookup(c) \/ AppendLine(c) \/ Reply(c)
    \/ AcceptSigning(c) \/ ReadRequest(c) \/ WriteCertificate(c)

Next == \E c \in Clients :
    Submit(c) \/ Abandon(c) \/ Stop(c) \/ ClientRuns(c) \/ ServersRun(c)

Spec == Init /\ [][Next]_vars

(* The servers, their children and a client that has submitted its form    *)
(* run when they can.  Nobody has to register, and anybody may be stopped. *)
FairSpec == Spec /\ \A c \in Clients : WF_vars(ClientRuns(c)) /\ WF_vars(ServersRun(c))

-----------------------------------------------------------------------------
TypeOK ==
    /\ users \in Seq(Line) \cup {Missing}
    /\ keyOf \in [Names -> Makers] /\ requestOf \in [Names -> Makers]
    /\ certOf \in [Names -> Makers]
    /\ form \in [Clients -> Form \cup {NoForm}]
    /\ client \in [Clients -> {"start", "waiting", "newkey", "request", "readkey",
                               "rewrite", "ask", "done", "gone"}]
    /\ child \in [Clients -> {"none", "called", "refused", "reading", "append", "reply",
                              "done", "spin", "dead"}]
    /\ signer \in [Clients -> {"none", "called", "refused", "reading", "sign", "done"}]
    /\ held \in [Clients -> Makers] /\ pending \in [Clients -> Makers]
    /\ forked \in [{"register", "ca"} -> 0..MaxChildren]
    /\ before \in [Clients -> SUBSET Clients] /\ lost \subseteq Unlucky

(* Whoever is told "Successfully registered" is in registeredUsers.txt     *)
(* with the password he typed, and stays there whatever other children     *)
(* append (register_server.c:107, 112, 117): he can log in.  Only a write  *)
(* that failed (107-108) makes the answer a false one.                     *)
Stored(c) == child[c] \in {"reply", "done"}

ToldMeansStored ==
    \A c \in Clients \ lost : Stored(c) =>
        users # Missing /\ \E k \in DOMAIN users : users[k] = form[c]

(* A name that was granted, and written, is not granted again to anyone    *)
(* who calls later: only calls that overlap can both find it missing       *)
(* (register_server.c:87 and 107).                                         *)
GrantedOnce ==
    \A c \in Clients : Stored(c) => \A d \in before[c] \ lost : NameOf(d) # NameOf(c)

(* When the only client that got to make a key for a name has ended and    *)
(* the signer as well, key, request and certificate of the name belong     *)
(* together, as check_private_key of a private chat demands (client.c:180).*)
(* Two registrations that overlap may mix them.                            *)
OnlyMaker(c) ==
    \A d \in Clients \ {c} : NameOf(d) = NameOf(c) => client[d] \in {"start", "waiting"}

CertificateFits ==
    \A c \in Clients : client[c] = "done" /\ signer[c] = "done" /\ OnlyMaker(c) =>
        /\ keyOf[NameOf(c)] = c /\ requestOf[NameOf(c)] = c /\ certOf[NameOf(c)] = c

(* The key of a user who is registered is overwritten only by a client     *)
(* whose call got no child.  The client makes keys whatever it is answered *)
(* (client.c:948-986): what protects the file is that a taken name is      *)
(* never answered at all (register_server.c:98-116).                       *)
TakenNameKeepsItsKey ==
    [][\A n \in Names : keyOf[n] = Owner /\ keyOf'[n] # Owner =>
          \E c \in Clients : NameOf(c) = n /\ child[c] = "refused"]_vars

(* A client that is the only one to want a name which nobody has gets its  *)
(* certificate, though children of taken names spin for ever beside it.    *)
Contested(c) ==
    \/ \E n \in Names : NameOf(c) = n /\ keyOf[n] = Owner
    \/ \E d \in Clients \ {c} : NameOf(d) = NameOf(c)
Unserved(c) == users = Missing \/ child[c] = "refused" \/ signer[c] = "refused"

NewcomersAreCertified ==
    \A c \in Clients : client[c] = "waiting" ~>
        \/ \E n \in Names : NameOf(c) = n /\ certOf[n] = c
        \/ client[c] = "gone" \/ Contested(c) \/ Unserved(c)
=============================================================================
