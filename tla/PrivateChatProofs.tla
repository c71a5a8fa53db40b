------------------------- MODULE PrivateChatProofs --------------------------
(***************************************************************************)
(* Proofs about PrivateChat: its type; that a text is shown only by a      *)
(* client the server told the port, and comes from the other one if the    *)
(* sender has the port from the server; and that a client which mistook no *)
(* message for an answer is heard only by the client the server picked for *)
(* it.  They hold until the server has handed out as many ports as there   *)
(* are.  Their invariant is Inv, the clients' requests are in Requests,    *)
(* the names in the server's table in Named, the clients in step in        *)
(* Steps.                                                                  *)
(***************************************************************************)
EXTENDS PrivateChat, FiniteSetTheorems, TLAPS

-----------------------------------------------------------------------------
(* Numbers that leave the same 16 bits and lie close are the same.         *)
LEMMA DivisionLeaves ==
  ASSUME NEW P \in Nat \ {0}, NEW a \in Nat
  PROVE  a % P \in Nat /\ \E q \in Nat : a = P * q + (a % P)
  <1>1. a \div P \in Nat /\ a % P \in 0..(P-1) /\ a = P * (a \div P) + (a % P)
    OBVIOUS
  <1>2. a % P \in Nat OBVIOUS
  <1>3. \E q \in Nat : a = P * q + (a % P) BY <1>1, Zenon
  <1> QED BY <1>2, <1>3

(* A larger quotient is at least one divisor more.                         *)
LEMMA OneMoreFactor ==
  ASSUME NEW P \in Nat \ {0}, NEW q \in Nat, NEW r \in Nat, q >= r + 1
  PROVE  P * q >= P * r + P
  BY SMTT(30)

(* Products stay natural.                                                  *)
LEMMA ProductIsNatural ==
  ASSUME NEW P \in Nat, NEW q \in Nat
  PROVE  P * q \in Nat
  OBVIOUS

(* Less than the divisor apart and the same remainder: the same number.    *)
LEMMA CloseAndEqual ==
  ASSUME NEW P \in Nat \ {0}, NEW a \in Nat, NEW b \in Nat,
         a - b < P, b - a < P, a % P = b % P
  PROVE  a = b
  <1>0. PICK m \in Nat : m = a % P /\ m = b % P BY DivisionLeaves
  <1>1. PICK q \in Nat : a = P * q + m BY DivisionLeaves, <1>0
  <1>2. PICK r \in Nat : b = P * r + m BY DivisionLeaves, <1>0
  <1>3. P * q \in Nat /\ P * r \in Nat BY ProductIsNatural
  <1>4. ~(q >= r + 1) BY <1>1, <1>2, <1>3, OneMoreFactor
  <1>5. ~(r >= q + 1) BY <1>1, <1>2, <1>3, OneMoreFactor
  <1>6. q = r BY <1>4, <1>5
  <1> QED BY <1>1, <1>2, <1>6

-----------------------------------------------------------------------------
(* The inductive invariant.                                                *)
Kinds == {"PRIVATE_MESSAGE", "USERNAME_ERROR", "GET_USERS", "CREATE_GROUP", "JOIN_GROUP",
          "SEND_FILE", "SUCCESS", "HANG_UP", "PUBLIC_MESSAGE", "DISCONNECT"}
Messages == [type : Kinds, number : Nat, short : BOOLEAN, answers : Clients \cup {NoOne}]
Sendings == [to : Clients, msg : Messages]

(* What a client may have asked, and its own login among it.               *)
Asked ==
    { Effect(l).msg : l \in { l \in UNION { Lines[c] : c \in Clients } :
                                Effect(l).does \in {"send", "ask"} } }
      \cup { LoginOf(c) : c \in Clients }
Private == { r \in Asked : r.type = "PRIVATE_MESSAGE" }
Texted(r) == r.text.number \in Nat /\ r.text.short \in BOOLEAN

Requests ==
    /\ requests \in [Clients -> Seq(Asked)]
    /\ said \in [Clients -> Asked \cup {NoOne}]
    /\ \A c \in Clients :
        /\ \A n \in DOMAIN requests[c] :
            requests[c][n].type = "SET_USERNAME" => requests[c][n].user = UserOf[c]
        /\ pc[c] = "answer" => said[c] \in Private

Targets == { r.to : r \in Asked \cup Leftovers }
Offers == [from : Clients, by : Clients \cup {NoOne}, to : Targets, port : Nat, known : BOOLEAN]

(* What TypeOK leaves open.                                                *)
Wires ==
    /\ inbox \in [Clients -> Seq(Messages)]
    /\ todo \in Seq(Sendings)
    /\ offers \in Seq(Offers)
    /\ \A i \in Slots : at[i] \notin waiting

(* Ports are handed out in order, each once, to two different clients.     *)
InOrder ==
    /\ ports >= Len(offers) + 1
    /\ \A k \in DOMAIN offers :
        /\ offers[k].port = (ports - Len(offers)) + (k - 1)
        /\ offers[k].from # offers[k].by

(* A port reaches nobody but the two, by a short text; an error is a long  *)
(* one.                                                                    *)
ToldPort(d, p) == \E k \in DOMAIN offers : offers[k].port = p /\ d \in Ends(offers[k])

Fits(d, m) ==
    /\ m.type = "PRIVATE_MESSAGE" => m.number # NoPort /\ ToldPort(d, m.number)
    /\ m.type = "USERNAME_ERROR" => ~m.short

Informed ==
    /\ \A d \in Clients : \A n \in DOMAIN inbox[d] : Fits(d, inbox[d][n])
    /\ \A n \in DOMAIN todo : Fits(todo[n].to, todo[n].msg)
    /\ \A c \in told : ToldPort(c, port[c])
    /\ \A c \in Clients : listens[c] # NoPort => ToldPort(c, listens[c])

(* Who is in a listener's queue, or accepted, and lives, still waits for   *)
(* the handshake on that port, and on no other.                            *)
Calling(c, d) == InQueue(c, d) \/ peer[d] = c

Calls ==
    /\ \A d \in Clients :
        /\ pc[d] \notin {"accept", "servlet"} => queue[d] = <<>>
        /\ pc[d] # "servlet" => peer[d] = NoOne
        /\ pc[d] = "servlet" => peer[d] # NoOne
    /\ \A c, d \in Clients : Live(c) /\ Calling(c, d) =>
        /\ pc[c] = "handshake"
        /\ TcpPort(port[c]) = TcpPort(listens[d])
    /\ \A c, d, e \in Clients :
        Live(c) /\ Calling(c, d) /\ Calling(c, e) => d = e

Meet == Len(offers) <= PortSpace => MeetOnTheirPort

Inv == TypeOK /\ Wires /\ InOrder /\ Informed /\ Calls /\ Meet

(* Only a line that asks sends a private message, and no line a login.     *)
LEMMA WhatLinesSend ==
  ASSUME NEW l
  PROVE  /\ Effect(l).does = "send" =>
                /\ Effect(l).msg.type \notin {"PRIVATE_MESSAGE", "SET_USERNAME"}
                /\ Effect(l).msg.type = "PUBLIC_MESSAGE" => Texted(Effect(l).msg)
         /\ Effect(l).does = "ask" =>
                Effect(l).msg.type = "PRIVATE_MESSAGE" /\ Texted(Effect(l).msg)
  <1> USE DEF Prints, Faults, Stops, Sends, Asks
  <1>0. \A w : Text(w).number \in Nat /\ Text(w).short \in BOOLEAN
    BY WordsAreNumbers DEF Text, Number
  <1>1. GroupMessage(l).does # "ask"
        /\ (GroupMessage(l).does = "send" =>
               GroupMessage(l).msg.type = "PUBLIC_MESSAGE" /\ Texted(GroupMessage(l).msg))
    BY <1>0 DEF GroupMessage, Texted
  <1>2. PrivateMessage(l).does # "send"
        /\ (PrivateMessage(l).does = "ask" =>
               PrivateMessage(l).msg.type = "PRIVATE_MESSAGE" /\ Texted(PrivateMessage(l).msg))
    BY <1>0 DEF PrivateMessage, Texted
  <1>3. SendFile(l).does # "ask"
        /\ (SendFile(l).does = "send" => SendFile(l).msg.type = "SEND_FILE")
    BY DEF SendFile
  <1>4. CreateGroup(l).does # "ask"
        /\ (CreateGroup(l).does = "send" => CreateGroup(l).msg.type = "CREATE_GROUP")
    BY DEF CreateGroup
  <1>5. JoinGroup(l).does # "ask"
        /\ (JoinGroup(l).does = "send" => JoinGroup(l).msg.type = "JOIN_GROUP")
    BY DEF JoinGroup
  <1> QED BY <1>1, <1>2, <1>3, <1>4, <1>5 DEF Effect

(* So the texts that clients send are texts.                               *)
LEMMA AskedTexts ==
  ASSUME NEW r \in Asked, r.type \in {"PRIVATE_MESSAGE", "PUBLIC_MESSAGE"}
  PROVE  Texted(r)
  <1>1. ASSUME NEW c \in Clients, r = LoginOf(c) PROVE FALSE BY <1>1 DEF LoginOf
  <1>2. ASSUME NEW l, Effect(l).does \in {"send", "ask"}, r = Effect(l).msg PROVE Texted(r)
    BY <1>2, WhatLinesSend
  <1> QED BY <1>1, <1>2 DEF Asked

(* At first there are no offers, no messages and no callers.               *)
LEMMA InvInit == Init => Inv
  <1> SUFFICES ASSUME Init PROVE Inv OBVIOUS
  <1> USE DEF Init, NoPort
  <1>1. TypeOK BY ClientNumbers, SeatsAreClients DEF TypeOK, Ended
  <1>2. Wires BY DEF Wires
  <1>3. InOrder BY ClientNumbers DEF InOrder
  <1>4. Informed BY DEF Informed
  <1>5. Calls BY NoOneIsNoClient DEF Calls, Calling, InQueue
  <1>6. Meet BY DEF Meet, MeetOnTheirPort
  <1> QED BY <1>1, <1>2, <1>3, <1>4, <1>5, <1>6 DEF Inv

-----------------------------------------------------------------------------
(* Ports.                                                                  *)
LEMMA PortOfOffer ==
  ASSUME Inv
  PROVE  \E n, l \in Nat :
            /\ n >= l /\ l = Len(offers)
            /\ \A k \in DOMAIN offers :
                k \in 1..l /\ offers[k].port \in Nat /\ offers[k].port = (n - l) + (k - 1)
  <1>1. Len(offers) \in Nat /\ ports \in Nat /\ ports >= Len(offers) + 1
    BY DEF Inv, InOrder, Wires, TypeOK
  <1>2. ASSUME NEW k \in DOMAIN offers
        PROVE  /\ k \in 1..Len(offers) /\ offers[k].port \in Nat
               /\ offers[k].port = (ports - Len(offers)) + (k - 1)
    <2>1. offers \in Seq(Offers) BY DEF Inv, Wires
    <2>2. k \in 1..Len(offers) /\ offers[k] \in Offers BY <2>1
    <2>3. offers[k].port = (ports - Len(offers)) + (k - 1) BY DEF Inv, InOrder
    <2> QED BY <2>2, <2>3 DEF Offers
  <1> QED BY <1>1, <1>2

(* A port is handed out once.                                              *)
LEMMA OnePortOneOffer ==
  ASSUME Inv, NEW j \in DOMAIN offers, NEW k \in DOMAIN offers,
         offers[j].port = offers[k].port
  PROVE  j = k
  <1>1. PICK n, l \in Nat : \A i \in DOMAIN offers :
            i \in 1..l /\ offers[i].port = (n - l) + (i - 1)
    BY PortOfOffer
  <1>2. j \in 1..l /\ k \in 1..l /\ (n - l) + (j - 1) = (n - l) + (k - 1) BY <1>1
  <1> QED BY <1>2

(* Two of the last l numbers lie less than l apart.                        *)
LEMMA CloseNumbers ==
  ASSUME NEW P \in Nat, NEW n \in Nat, NEW l \in Nat, NEW i \in 1..l, NEW j \in 1..l, l <= P,
         NEW x \in Nat, NEW y \in Nat, x = (n - l) + (i - 1), y = (n - l) + (j - 1)
  PROVE  x - y < P /\ y - x < P
  OBVIOUS

(* So until PORTS goes round, no two of its ports are one TCP port.        *)
LEMMA PortsAreClose ==
  ASSUME Inv, Len(offers) <= PortSpace,
         NEW j \in DOMAIN offers, NEW k \in DOMAIN offers,
         TcpPort(offers[j].port) = TcpPort(offers[k].port)
  PROVE  offers[j].port = offers[k].port
  <1>1. PICK n, l \in Nat :
            /\ l = Len(offers)
            /\ \A i \in DOMAIN offers :
                i \in 1..l /\ offers[i].port \in Nat /\ offers[i].port = (n - l) + (i - 1)
    BY PortOfOffer
  <1>2. PICK x, y \in Nat : x = offers[j].port /\ y = offers[k].port BY <1>1
  <1>3. /\ j \in 1..l /\ k \in 1..l /\ l <= PortSpace /\ PortSpace \in Nat \ {0}
        /\ x = (n - l) + (j - 1) /\ y = (n - l) + (k - 1)
    BY <1>1, <1>2, ClientNumbers
  <1>4. x - y < PortSpace /\ y - x < PortSpace BY <1>3, CloseNumbers
  <1>5. x % PortSpace = y % PortSpace BY <1>2, Zenon DEF TcpPort
  <1> QED BY <1>2, <1>3, <1>4, <1>5, CloseAndEqual

(* A listener is met on the port of an offer of its own, and a caller that *)
(* was told its port is the other end of that offer.                       *)
LEMMA ListenerIsAnEnd ==
  ASSUME Inv, Len(offers) <= PortSpace,
         NEW c \in Clients, NEW s \in Clients,
         listens[c] # NoPort, TcpPort(port[s]) = TcpPort(listens[c])
  PROVE  \E k \in DOMAIN offers :
            /\ TcpPort(port[s]) = TcpPort(offers[k].port)
            /\ c \in Ends(offers[k])
            /\ \A j \in DOMAIN offers : port[s] = offers[j].port => j = k
            /\ s \in told => port[s] = offers[k].port /\ s \in Ends(offers[k])
  <1>1. PICK k \in DOMAIN offers : offers[k].port = listens[c] /\ c \in Ends(offers[k])
    BY DEF Inv, Informed, ToldPort
  <1>2. ASSUME NEW j \in DOMAIN offers, port[s] = offers[j].port PROVE j = k
    BY <1>1, <1>2, PortsAreClose, OnePortOneOffer
  <1>3. ASSUME s \in told PROVE port[s] = offers[k].port /\ s \in Ends(offers[k])
    <2>1. PICK j \in DOMAIN offers : offers[j].port = port[s] /\ s \in Ends(offers[j])
      BY <1>3 DEF Inv, Informed, ToldPort
    <2> QED BY <1>2, <2>1
  <1> QED BY <1>1, <1>2, <1>3

(* A step that hands out no port, shows no text and brings no new number   *)
(* to a client.                                                            *)
LEMMA SameOffers ==
  ASSUME UNCHANGED offers
  PROVE  \A d, p : ToldPort(d, p)' <=> ToldPort(d, p)
  BY DEF ToldPort

-----------------------------------------------------------------------------
(* A client that ends.                                                     *)
LEMMA EndKeeps ==
  ASSUME Inv, NEW c \in Clients, NEW how \in Ended, End(c, how), typed' \in 0..MaxLines
  PROVE  Inv'
  <1> USE DEF End, Goto, Forget, CloseListener, server
  <1>1. TypeOK'
    BY ClientNumbers DEF Inv, TypeOK, Ended, NoPort
  <1>2. Wires' BY DEF Inv, Wires
  <1>3. InOrder' BY DEF Inv, InOrder
  <1>4. Informed' BY SameOffers DEF Inv, Informed, Fits, TypeOK, Wires
  <1>5. Calls'
    <2>1. \A d \in Clients \ {c} : pc'[d] = pc[d] /\ queue'[d] = queue[d] /\ peer'[d] = peer[d]
                                   /\ listens'[d] = listens[d] /\ port'[d] = port[d]
      BY DEF Inv, TypeOK
    <2>2. pc'[c] = how /\ queue'[c] = <<>> /\ peer'[c] = NoOne
      BY DEF Inv, TypeOK
    <2>3. \A d \in Clients : Live(d)' => d # c /\ Live(d)
      BY <2>1, <2>2 DEF Live
    <2>4. \A d, e \in Clients : Calling(d, e)' => e # c /\ Calling(d, e)
      BY <2>1, <2>2, NoOneIsNoClient DEF Calling, InQueue
    <2> QED BY <2>1, <2>2, <2>3, <2>4 DEF Inv, Calls, Ended, TcpPort
  <1>6. Meet' BY DEF Inv, Meet, MeetOnTheirPort
  <1> QED BY <1>1, <1>2, <1>3, <1>4, <1>5, <1>6 DEF Inv

(* No other client is told its port, and c was told it if it is p.         *)
OnlyTold(c, p) == told' \subseteq told \cup {c} /\ (c \in told' => ToldPort(c, p))

(* A client that calls nobody goes from one place of its loop to another,  *)
(* with a port it was told of or none.                                     *)
LEMMA MoveKeeps ==
  ASSUME Inv, NEW c \in Clients, NEW to \in {"select", "message", "answer", "connect"},
         pc[c] \in {"select", "message", "answer"}
           \/ (pc[c] = "handshake" /\ \A d \in Clients : ~Calling(c, d)),
         pc' = [pc EXCEPT ![c] = to],
         NEW p \in Nat, port' = [port EXCEPT ![c] = p],
         OnlyTold(c, p),
         NEW box \in Seq(Messages), inbox' = [inbox EXCEPT ![c] = box],
         \A n \in DOMAIN box : Fits(c, box[n]), Len(box) <= BufCap,
         ready' \in [Clients -> BOOLEAN], typed' \in 0..MaxLines, crossed' \subseteq Clients,
         UNCHANGED <<meeting, server, reset>>
  PROVE  Inv'
  <1> USE DEF meeting, server, OnlyTold
  <1>1. TypeOK'
    <2>1. /\ pc' \in [Clients -> Ended \cup {"select", "message", "answer", "connect",
                                          "handshake", "bind", "accept", "servlet"}]
          /\ \A d \in Clients : (listens'[d] # NoPort) = (pc'[d] \in {"bind", "accept", "servlet"})
      BY DEF Inv, TypeOK
    <2>2. \A d \in Clients : Len(inbox'[d]) <= BufCap BY DEF Inv, TypeOK, Wires
    <2>3. port' \in [Clients -> Nat] BY DEF Inv, TypeOK
    <2> QED BY <2>1, <2>2, <2>3 DEF Inv, TypeOK
  <1>2. Wires' BY DEF Inv, Wires
  <1>3. InOrder' BY DEF Inv, InOrder
  <1>4. Informed' BY SameOffers DEF Inv, Informed, Fits, TypeOK, Wires
  <1>5. Calls'
    <2>1. \A d, e \in Clients : Calling(d, e)' = Calling(d, e)
      BY DEF Calling, InQueue
    <2>2. \A d \in Clients \ {c} : pc'[d] = pc[d] /\ port'[d] = port[d]
      BY DEF Inv, TypeOK
    <2>3. Live(c) /\ pc[c] \notin {"accept", "servlet"} BY DEF Live, Ended
    <2>4. \A d \in Clients : ~Calling(c, d)
      BY <2>3 DEF Inv, Calls
    <2>5. pc'[c] = to BY DEF Inv, TypeOK
    <2>6. \A d \in Clients : Live(d)' => Live(d)
      BY <2>2, <2>3 DEF Live
    <2> QED BY <2>1, <2>2, <2>3, <2>4, <2>5, <2>6 DEF Inv, Calls, TcpPort
  <1>6. Meet' BY DEF Inv, Meet, MeetOnTheirPort
  <1> QED BY <1>1, <1>2, <1>3, <1>4, <1>5, <1>6 DEF Inv

(* What a client knows while a step leaves it alone.                       *)
LEMMA Unmoved ==
  ASSUME Inv, NEW c \in Clients
  PROVE  /\ port[c] \in Nat /\ port = [port EXCEPT ![c] = port[c]]
         /\ inbox[c] \in Seq(Messages) /\ inbox = [inbox EXCEPT ![c] = inbox[c]]
         /\ \A n \in DOMAIN inbox[c] : Fits(c, inbox[c][n])
         /\ Len(inbox[c]) <= BufCap
  BY DEF Inv, TypeOK, Wires, Informed

(* It was told its port, then, if it is said to have been.                 *)
LEMMA StillTold ==
  ASSUME Inv, NEW c \in Clients, told' = told
  PROVE  OnlyTold(c, port[c])
  BY DEF Inv, Informed, OnlyTold

(* The message a client takes, and those it leaves.                        *)
LEMMA TakenMessage ==
  ASSUME Inv, NEW c \in Clients, inbox[c] # <<>>
  PROVE  /\ Head(inbox[c]) \in Messages /\ Fits(c, Head(inbox[c]))
         /\ Tail(inbox[c]) \in Seq(Messages)
         /\ \A n \in DOMAIN Tail(inbox[c]) : Fits(c, Tail(inbox[c])[n])
         /\ Len(Tail(inbox[c])) <= BufCap
  <1>1. PICK box \in Seq(Messages) :
            /\ box = inbox[c] /\ box # <<>> /\ Len(box) <= BufCap
            /\ \A n \in DOMAIN box : Fits(c, box[n])
    BY Unmoved
  <1>2. /\ Head(box) \in Messages /\ Tail(box) \in Seq(Messages) /\ Head(box) = box[1]
        /\ Len(Tail(box)) = Len(box) - 1 /\ Len(box) \in Nat /\ 1 \in DOMAIN box
        /\ \A n \in DOMAIN Tail(box) : n + 1 \in DOMAIN box /\ Tail(box)[n] = box[n + 1]
    BY <1>1
  <1>3. Len(Tail(box)) <= BufCap BY <1>1, <1>2, ClientNumbers
  <1>4. \A n \in DOMAIN Tail(box) : Fits(c, Tail(box)[n]) BY <1>1, <1>2
  <1>5. Fits(c, Head(box)) BY <1>1, <1>2
  <1> QED BY <1>1, <1>2, <1>3, <1>4, <1>5

-----------------------------------------------------------------------------
(* The steps of a client that leave its listening socket alone.            *)
LEMMA TypeLineKeeps ==
  ASSUME Inv, NEW c \in Clients, TypeLine(c)
  PROVE  Inv'
  <1>1. PICK e : Line(c, e) /\ pc[c] = "select" /\ typed < MaxLines /\ typed' = typed + 1
                 /\ UNCHANGED <<crossed, server>>
    BY DEF TypeLine, Enter
  <1>2. typed' \in 0..MaxLines BY <1>1, ClientNumbers DEF Inv, TypeOK
  <1>3. CASE \E how \in Ended : End(c, how) BY <1>2, <1>3, EndKeeps
  <1>4. CASE /\ \E to \in {"select", "message", "answer", "connect"} : Goto(c, to)
             /\ ready' \in [Clients -> BOOLEAN]
             /\ UNCHANGED <<port, told, inbox, reset, meeting>>
    <2>1. crossed' \subseteq Clients BY <1>1 DEF Inv, TypeOK
    <2>2. /\ port' = [port EXCEPT ![c] = port[c]]
          /\ inbox' = [inbox EXCEPT ![c] = inbox[c]]
      BY <1>4, Unmoved
    <2>3. PICK to \in {"select", "message", "answer", "connect"} : pc' = [pc EXCEPT ![c] = to]
      BY <1>4 DEF Goto
    <2>8. OnlyTold(c, port[c])
      BY <1>1, <1>4, StillTold
    <2> QED BY <1>1, <1>2, <1>4, <2>1, <2>2, <2>3, <2>8, Unmoved, MoveKeeps
  <1>5. SocketReady(c) \in BOOLEAN BY DEF SocketReady
  <1> QED BY <1>1, <1>3, <1>4, <1>5 DEF Line, Ask, Ended, Inv, TypeOK, wires

(* Leaving handle_user_input is a move in the loop.                        *)
LEMMA LeaveInputMoves ==
  ASSUME Inv, NEW c \in Clients, LeaveInput(c)
  PROVE  /\ \E to \in {"select", "message", "answer", "connect"} : pc' = [pc EXCEPT ![c] = to]
         /\ ready' \in [Clients -> BOOLEAN]
  BY DEF LeaveInput, Goto, AfterInput, Forget, Inv, TypeOK

(* The socket is ready.                                                    *)
LEMMA SelectMessageKeeps ==
  ASSUME Inv, NEW c \in Clients, SelectMessage(c)
  PROVE  Inv'
  <1>1. /\ pc[c] = "select" /\ pc' = [pc EXCEPT ![c] = "message"]
        /\ UNCHANGED <<ready, typed, port, told, crossed, meeting, server, inbox, reset>>
    BY DEF SelectMessage, Goto, wires
  <1>2. /\ ready' \in [Clients -> BOOLEAN] /\ typed' \in 0..MaxLines /\ crossed' \subseteq Clients
        /\ port' = [port EXCEPT ![c] = port[c]]
        /\ inbox' = [inbox EXCEPT ![c] = inbox[c]]
    BY <1>1, Unmoved DEF Inv, TypeOK
  <1>8. OnlyTold(c, port[c])
    BY <1>1, StillTold
  <1> QED BY <1>1, <1>2, <1>8, Unmoved, MoveKeeps

(* The next message is taken for the answer.                               *)
LEMMA TakeAnswerKeeps ==
  ASSUME Inv, NEW c \in Clients, TakeAnswer(c)
  PROVE  Inv'
  <1>1. /\ pc[c] = "answer" /\ inbox[c] # <<>>
        /\ inbox' = [inbox EXCEPT ![c] = Tail(inbox[c])]
        /\ UNCHANGED <<typed, meeting, server, reset>>
        /\ crossed' = crossed \/ crossed' = crossed \cup {c}
    BY DEF TakeAnswer, Take
  <1>2. typed' \in 0..MaxLines /\ crossed' \subseteq Clients BY <1>1 DEF Inv, TypeOK
  <1>3. CASE /\ port' = [port EXCEPT ![c] = Head(inbox[c]).number] /\ Goto(c, "connect")
             /\ told' = (IF Head(inbox[c]).type = "PRIVATE_MESSAGE" THEN told \cup {c}
                        ELSE told \ {c})
             /\ UNCHANGED ready
    <2>1. ready' \in [Clients -> BOOLEAN] BY <1>3 DEF Inv, TypeOK
    <2>2. Head(inbox[c]).number \in Nat BY <1>1, TakenMessage DEF Messages
    <2>3. OnlyTold(c, Head(inbox[c]).number)
      BY <1>1, <1>3, TakenMessage DEF Fits, OnlyTold
    <2> QED BY <1>1, <1>2, <1>3, <2>1, <2>2, <2>3, TakenMessage, MoveKeeps DEF Goto
  <1>4. CASE LeaveInput(c) /\ UNCHANGED <<port, told>>
    <2>1. port' = [port EXCEPT ![c] = port[c]] BY <1>4, Unmoved
    <2>2. PICK to \in {"select", "message", "answer", "connect"} : pc' = [pc EXCEPT ![c] = to]
      BY <1>4, LeaveInputMoves
    <2>3. ready' \in [Clients -> BOOLEAN] BY <1>4, LeaveInputMoves
    <2>8. OnlyTold(c, port[c])
      BY <1>1, <1>4, StillTold
    <2> QED BY <1>1, <1>2, <1>4, <2>1, <2>2, <2>3, <2>8, Unmoved, TakenMessage, MoveKeeps
  <1> QED BY <1>3, <1>4 DEF TakeAnswer

(* The server has gone: the request is taken for the answer.               *)
LEMMA TakeNoAnswerKeeps ==
  ASSUME Inv, Requests, NEW c \in Clients, TakeNoAnswer(c)
  PROVE  Inv'
  <1>1. pc[c] = "answer" /\ UNCHANGED typed BY DEF TakeNoAnswer
  <1>2. typed' \in 0..MaxLines BY <1>1 DEF Inv, TypeOK
  <1>3. CASE End(c, "exited") BY <1>2, <1>3, EndKeeps DEF Ended
  <1>4. PICK n \in Nat : n = said[c].text.number
    <2>1. said[c] \in Private BY <1>1 DEF Requests
    <2> QED BY <2>1, AskedTexts DEF Private, Texted
  <1>5. CASE /\ crossed' = crossed \cup {c} /\ UNCHANGED <<meeting, server, wires>>
             /\ port' = [port EXCEPT ![c] = n] /\ told' = told \ {c}
             /\ Goto(c, "connect") /\ UNCHANGED ready
    <2>1. ready' \in [Clients -> BOOLEAN] /\ crossed' \subseteq Clients BY <1>5 DEF Inv, TypeOK
    <2>2. inbox' = [inbox EXCEPT ![c] = inbox[c]] /\ UNCHANGED reset BY <1>5, Unmoved DEF wires
    <2>3. OnlyTold(c, n) BY <1>5 DEF OnlyTold
    <2> QED BY <1>1, <1>2, <1>5, <2>1, <2>2, <2>3, Unmoved, MoveKeeps DEF Goto
  <1>6. CASE /\ crossed' = crossed \cup {c} /\ UNCHANGED <<meeting, server, wires>>
             /\ LeaveInput(c) /\ UNCHANGED <<port, told>>
    <2>1. crossed' \subseteq Clients BY <1>6 DEF Inv, TypeOK
    <2>2. /\ inbox' = [inbox EXCEPT ![c] = inbox[c]] /\ UNCHANGED reset
          /\ port' = [port EXCEPT ![c] = port[c]]
      BY <1>6, Unmoved DEF wires
    <2>3. PICK to \in {"select", "message", "answer", "connect"} : pc' = [pc EXCEPT ![c] = to]
      BY <1>6, LeaveInputMoves
    <2>4. ready' \in [Clients -> BOOLEAN] BY <1>6, LeaveInputMoves
    <2>8. OnlyTold(c, port[c])
      BY <1>1, <1>6, StillTold
    <2> QED BY <1>1, <1>2, <1>6, <2>1, <2>2, <2>3, <2>4, <2>8, Unmoved, MoveKeeps
  <1> QED BY <1>3, <1>4, <1>5, <1>6 DEF TakeNoAnswer

(* The listener has gone.                                                  *)
LEMMA HandshakeFailsKeeps ==
  ASSUME Inv, NEW c \in Clients, HandshakeFails(c)
  PROVE  Inv'
  <1>1. /\ pc[c] = "handshake" /\ \A d \in Clients : ~Calling(c, d)
        /\ LeaveInput(c) /\ UNCHANGED <<typed, port, crossed, told, meeting, server, wires>>
    BY DEF HandshakeFails, Calling
  <1>2. /\ typed' \in 0..MaxLines /\ crossed' \subseteq Clients /\ UNCHANGED reset
        /\ inbox' = [inbox EXCEPT ![c] = inbox[c]]
        /\ port' = [port EXCEPT ![c] = port[c]]
    BY <1>1, Unmoved DEF Inv, TypeOK, wires
  <1>3. PICK to \in {"select", "message", "answer", "connect"} : pc' = [pc EXCEPT ![c] = to]
    BY <1>1, LeaveInputMoves
  <1>4. ready' \in [Clients -> BOOLEAN] BY <1>1, LeaveInputMoves
  <1>8. OnlyTold(c, port[c])
    BY <1>1, <1>4, StillTold
  <1> QED BY <1>1, <1>2, <1>3, <1>4, <1>8, Unmoved, MoveKeeps

-----------------------------------------------------------------------------
(* The steps of a listener and its callers.                                *)
LEMMA HandleMessageKeeps ==
  ASSUME Inv, NEW c \in Clients, HandleMessage(c)
  PROVE  Inv'
  <1>0. CASE End(c, "exited") /\ UNCHANGED typed
    <2>1. typed' \in 0..MaxLines BY <1>0 DEF Inv, TypeOK
    <2> QED BY <1>0, <2>1, EndKeeps DEF Ended
  <1>1. SUFFICES ASSUME
            /\ pc[c] = "message" /\ inbox[c] # <<>>
            /\ inbox' = [inbox EXCEPT ![c] = Tail(inbox[c])]
            /\ UNCHANGED <<ready, typed, port, crossed, told, queue, peer, shown, server, reset>>
            /\ \/ /\ Head(inbox[c]).type = "PRIVATE_MESSAGE" /\ Goto(c, "bind")
                  /\ listens' = [listens EXCEPT ![c] = Head(inbox[c]).number]
               \/ /\ Head(inbox[c]).type # "PRIVATE_MESSAGE" /\ Goto(c, "select")
                  /\ UNCHANGED listens
        PROVE  Inv'
    BY <1>0 DEF HandleMessage, Take, meeting
  <1>2. PICK m \in Messages, rest \in Seq(Messages) :
            /\ m = Head(inbox[c]) /\ rest = Tail(inbox[c]) /\ Fits(c, m)
            /\ \A n \in DOMAIN rest : Fits(c, rest[n])
            /\ Len(rest) <= BufCap
    BY <1>1, TakenMessage
  <1>3. CASE m.type # "PRIVATE_MESSAGE" /\ Goto(c, "select") /\ UNCHANGED listens
    <2>1. /\ typed' \in 0..MaxLines /\ crossed' \subseteq Clients /\ ready' \in [Clients -> BOOLEAN]
          /\ port' = [port EXCEPT ![c] = port[c]]
          /\ inbox' = [inbox EXCEPT ![c] = rest]
          /\ pc' = [pc EXCEPT ![c] = "select"]
          /\ UNCHANGED <<meeting, server>>
      BY <1>1, <1>2, <1>3, Unmoved DEF Inv, TypeOK, Goto, meeting
    <2>8. OnlyTold(c, port[c])
      BY <1>1, StillTold
    <2> QED BY <1>1, <1>2, <2>1, <2>8, Unmoved, MoveKeeps
  <1>4. CASE m.type = "PRIVATE_MESSAGE" /\ Goto(c, "bind") /\ listens' = [listens EXCEPT ![c] = m.number]
    <2> USE DEF Goto, server
    <2>1. m.number \in Nat /\ m.number # NoPort /\ ToldPort(c, m.number)
      BY <1>2, <1>4 DEF Messages, Fits
    <2>2. TypeOK'
      <3>1. \A d \in Clients : Len(inbox'[d]) <= BufCap BY <1>1, <1>2 DEF Inv, TypeOK, Wires
      <3> QED BY <1>1, <1>4, <2>1, <3>1 DEF Inv, TypeOK, Ended
    <2>3. Wires' BY <1>1, <1>2 DEF Inv, Wires
    <2>4. InOrder' BY <1>1 DEF Inv, InOrder
    <2>5. Informed'
      BY <1>1, <1>2, <1>4, <2>1, SameOffers DEF Inv, Informed, Fits, TypeOK, Wires
    <2>6. Calls'
      <3>1. \A d, e \in Clients : Calling(d, e)' = Calling(d, e) BY <1>1 DEF Calling, InQueue
      <3>2. \A d \in Clients \ {c} : pc'[d] = pc[d] /\ listens'[d] = listens[d]
        BY <1>4 DEF Inv, TypeOK
      <3>3. Live(c) /\ queue[c] = <<>> /\ peer[c] = NoOne /\ pc'[c] = "bind"
        BY <1>1, <1>4 DEF Inv, Calls, Live, Ended, TypeOK
      <3>4. \A d \in Clients : ~Calling(d, c) /\ ~Calling(c, d)
        BY <1>1, <3>3, NoOneIsNoClient DEF Calling, InQueue, Inv, Calls
      <3>5. \A d \in Clients : Live(d)' => Live(d) BY <3>2, <3>3 DEF Live
      <3> QED BY <1>1, <3>1, <3>2, <3>3, <3>4, <3>5 DEF Inv, Calls, TcpPort
    <2>7. Meet' BY <1>1 DEF Inv, Meet, MeetOnTheirPort
    <2> QED BY <2>2, <2>3, <2>4, <2>5, <2>6, <2>7 DEF Inv
  <1> QED BY <1>1, <1>2, <1>3, <1>4

(* The port told is bound.                                                 *)
LEMMA ListenKeeps ==
  ASSUME Inv, NEW c \in Clients, Listen(c)
  PROVE  Inv'
  <1> USE DEF Listen, Goto, meeting, server, wires
  <1>1. TypeOK' BY DEF Inv, TypeOK, Ended
  <1>2. Wires' BY DEF Inv, Wires
  <1>3. InOrder' BY DEF Inv, InOrder
  <1>4. Informed' BY SameOffers DEF Inv, Informed, Fits, TypeOK, Wires
  <1>5. Calls'
    <2>1. \A d, e \in Clients : Calling(d, e)' = Calling(d, e) BY DEF Calling, InQueue
    <2>2. \A d \in Clients \ {c} : pc'[d] = pc[d] BY DEF Inv, TypeOK
    <2>3. Live(c) /\ queue[c] = <<>> /\ peer[c] = NoOne /\ pc'[c] = "accept"
      BY DEF Inv, Calls, Live, Ended, TypeOK
    <2>4. \A d \in Clients : ~Calling(c, d) BY <2>3 DEF Inv, Calls
    <2>5. \A d \in Clients : Live(d)' => Live(d) BY <2>2, <2>3 DEF Live
    <2> QED BY <2>1, <2>2, <2>3, <2>4, <2>5 DEF Inv, Calls, TcpPort
  <1>6. Meet' BY DEF Inv, Meet, MeetOnTheirPort
  <1> QED BY <1>1, <1>2, <1>3, <1>4, <1>5, <1>6 DEF Inv

(* A caller joins the queue of the one listener on its port.               *)
LEMMA ConnectKeeps ==
  ASSUME Inv, NEW c \in Clients, Connect(c)
  PROVE  Inv'
  <1> USE DEF Connect, Goto, server, wires
  <1>1. TypeOK'
    <2>1. UNCHANGED queue => queue' \in [Clients -> Seq(Clients)] BY DEF Inv, TypeOK
    <2>2. ASSUME NEW d \in Clients, queue' = [queue EXCEPT ![d] = Append(queue[d], c)]
          PROVE  queue' \in [Clients -> Seq(Clients)]
      BY <2>2 DEF Inv, TypeOK
    <2>3. queue' \in [Clients -> Seq(Clients)] BY <2>1, <2>2 DEF Inv, TypeOK
    <2>4. /\ pc' \in [Clients -> Ended \cup {"select", "message", "answer", "connect",
                                          "handshake", "bind", "accept", "servlet"}]
          /\ \A d \in Clients : (listens'[d] # NoPort) = (pc'[d] \in {"bind", "accept", "servlet"})
      BY DEF Inv, TypeOK, Ended
    <2>5. UNCHANGED <<ready, typed, port, crossed, told, listens, peer, inbox, reset, server>> OBVIOUS
    <2> HIDE DEF Connect
    <2> QED BY <2>3, <2>4, <2>5 DEF Inv, TypeOK
  <1>2. Wires' BY DEF Inv, Wires
  <1>3. InOrder' BY DEF Inv, InOrder
  <1>4. Informed' BY SameOffers DEF Inv, Informed, Fits, TypeOK, Wires
  <1>5. Calls'
    <2>1. Live(c) /\ \A d \in Clients : ~Calling(c, d) BY DEF Inv, Calls, Live, Ended
    <2>2. \A d \in Clients \ {c} : pc'[d] = pc[d] BY DEF Inv, TypeOK
    <2>3. pc'[c] = "handshake" BY DEF Inv, TypeOK
    <2>4. \A d \in Clients : Live(d)' => Live(d) BY <2>1, <2>2 DEF Live
    <2>5. CASE UNCHANGED queue
      <3>1. \A d, e \in Clients : Calling(d, e)' = Calling(d, e) BY <2>5 DEF Calling, InQueue
      <3> QED BY <2>1, <2>2, <2>3, <2>4, <2>5, <3>1 DEF Inv, Calls, TcpPort
    <2>6. ASSUME NEW d \in Clients, Listening(d, port[c]),
                 queue' = [queue EXCEPT ![d] = Append(queue[d], c)]
          PROVE  Calls'
      <3>1. \A x, e \in Clients : Calling(x, e)' => Calling(x, e) \/ (x = c /\ e = d)
        <4>1. queue[d] \in Seq(Clients) BY DEF Inv, TypeOK
        <4>2. \A n \in DOMAIN Append(queue[d], c) :
                 (n \in DOMAIN queue[d] /\ Append(queue[d], c)[n] = queue[d][n])
                   \/ Append(queue[d], c)[n] = c
          BY <4>1
        <4>3. \A e \in Clients : queue'[e] = IF e = d THEN Append(queue[d], c) ELSE queue[e]
          BY <2>6 DEF Inv, TypeOK
        <4> QED BY <4>2, <4>3 DEF Calling, InQueue
      <3>2. \A e \in Clients : pc'[e] \notin {"accept", "servlet"} => queue'[e] = <<>>
        BY <2>2, <2>3, <2>6 DEF Inv, Calls, Listening, TypeOK
      <3>3. \A e \in Clients : /\ pc'[e] # "servlet" => peer'[e] = NoOne
                               /\ pc'[e] = "servlet" => peer'[e] # NoOne
        BY <2>2, <2>3 DEF Inv, Calls
      <3>4. TcpPort(port[c]) = TcpPort(listens[d])
        BY <2>6 DEF Listening
      <3>5. ASSUME NEW x \in Clients, NEW e \in Clients, Live(x)', Calling(x, e)'
            PROVE  /\ pc'[x] = "handshake"
                   /\ TcpPort(port[x]) = TcpPort(listens[e])
        BY <2>1, <2>2, <2>3, <2>4, <3>1, <3>4, <3>5 DEF Inv, Calls
      <3>6. \A x, e, g \in Clients : Live(x)' /\ Calling(x, e)' /\ Calling(x, g)' => e = g
        BY <2>1, <2>4, <3>1 DEF Inv, Calls
      <3> QED BY <3>2, <3>3, <3>5, <3>6 DEF Calls, TcpPort
    <2> QED BY <2>5, <2>6
  <1>6. Meet' BY DEF Inv, Meet, MeetOnTheirPort
  <1> QED BY <1>1, <1>2, <1>3, <1>4, <1>5, <1>6 DEF Inv

(* The first of the queue becomes the one caller.                          *)
LEMMA AcceptKeeps ==
  ASSUME Inv, NEW c \in Clients, Accept(c)
  PROVE  Inv'
  <1> USE DEF Accept, Goto, server, wires
  <1>1. /\ queue[c] \in Seq(Clients) /\ queue[c] # <<>>
        /\ Head(queue[c]) \in Clients /\ Tail(queue[c]) \in Seq(Clients)
        /\ 1 \in DOMAIN queue[c] /\ Head(queue[c]) = queue[c][1]
        /\ \A n \in DOMAIN Tail(queue[c]) :
              n + 1 \in DOMAIN queue[c] /\ Tail(queue[c])[n] = queue[c][n + 1]
    BY DEF Inv, TypeOK
  <1>2. TypeOK' BY <1>1 DEF Inv, TypeOK, Ended
  <1>3. Wires' BY DEF Inv, Wires
  <1>4. InOrder' BY DEF Inv, InOrder
  <1>5. Informed'
    <2>1. UNCHANGED <<inbox, todo, port, told, listens, offers>> OBVIOUS
    <2> HIDE DEF Accept
    <2> QED BY <2>1, SameOffers DEF Inv, Informed, Fits
  <1>6. Calls'
    <2>1. \A d \in Clients \ {c} : /\ pc'[d] = pc[d] /\ queue'[d] = queue[d]
                                   /\ peer'[d] = peer[d]
      BY DEF Inv, TypeOK
    <2>2. /\ pc'[c] = "servlet" /\ queue'[c] = Tail(queue[c]) /\ peer'[c] = Head(queue[c])
          /\ pc[c] = "accept"
      BY DEF Inv, TypeOK
    <2>3. \A d, e \in Clients : Calling(d, e)' => Calling(d, e)
      BY <1>1, <2>1, <2>2 DEF Calling, InQueue
    <2>4. Live(c) /\ \A d \in Clients : ~Calling(c, d) BY <2>2 DEF Inv, Calls, Live, Ended
    <2>5. \A d \in Clients : Live(d)' => Live(d) BY <2>1, <2>4 DEF Live
    <2>6. peer'[c] # NoOne BY <1>1, <2>2, NoOneIsNoClient
    <2> QED BY <2>1, <2>2, <2>3, <2>4, <2>5, <2>6 DEF Inv, Calls, TcpPort
  <1>7. Meet' BY DEF Inv, Meet, MeetOnTheirPort
  <1> QED BY <1>2, <1>3, <1>4, <1>5, <1>6, <1>7 DEF Inv

(* A listener that is done with its caller, or gives up on it.             *)
LEMMA ClosedListener ==
  ASSUME Inv, NEW c \in Clients, CloseListener(c)
  PROVE  /\ queue' \in [Clients -> Seq(Clients)] /\ peer' \in [Clients -> Clients \cup {NoOne}]
         /\ listens' \in [Clients -> Nat] /\ listens'[c] = NoPort
         /\ queue'[c] = <<>> /\ peer'[c] = NoOne
         /\ \A d \in Clients \ {c} :
              queue'[d] = queue[d] /\ peer'[d] = peer[d] /\ listens'[d] = listens[d]
         /\ \A d, e \in Clients : Calling(d, e)' => e # c /\ Calling(d, e)
  <1>1. /\ queue' \in [Clients -> Seq(Clients)] /\ peer' \in [Clients -> Clients \cup {NoOne}]
        /\ listens' \in [Clients -> Nat] /\ listens'[c] = NoPort
        /\ queue'[c] = <<>> /\ peer'[c] = NoOne
        /\ \A d \in Clients \ {c} :
              queue'[d] = queue[d] /\ peer'[d] = peer[d] /\ listens'[d] = listens[d]
    BY DEF CloseListener, Inv, TypeOK, NoPort
  <1>2. \A d, e \in Clients : Calling(d, e)' => e # c /\ Calling(d, e)
    <2>1. ASSUME NEW d \in Clients, Calling(d, c)'
          PROVE  FALSE
      BY <1>1, <2>1, NoOneIsNoClient DEF Calling, InQueue
    <2>2. ASSUME NEW d \in Clients, NEW e \in Clients \ {c}, Calling(d, e)'
          PROVE  Calling(d, e)
      BY <1>1, <2>2 DEF Calling, InQueue
    <2> QED BY <2>1, <2>2
  <1> QED BY <1>1, <1>2

(* The caller has ended.                                                   *)
LEMMA ServletFailsKeeps ==
  ASSUME Inv, NEW c \in Clients, ServletFails(c)
  PROVE  Inv'
  <1>1. /\ pc[c] = "servlet" /\ pc' = [pc EXCEPT ![c] = "select"] /\ CloseListener(c)
        /\ UNCHANGED <<ready, typed, port, crossed, told, shown, server, wires>>
    BY DEF ServletFails, Goto
  <1> USE DEF server, wires
  <1>0. pc'[c] = "select" /\ \A d \in Clients \ {c} : pc'[d] = pc[d] BY <1>1 DEF Inv, TypeOK
  <1>2. TypeOK'
    <2>1. pc' \in [Clients -> Ended \cup {"select", "message", "answer", "connect",
                                         "handshake", "bind", "accept", "servlet"}]
      BY <1>1 DEF Inv, TypeOK
    <2>2. ASSUME NEW d \in Clients
          PROVE  (listens'[d] # NoPort) = (pc'[d] \in {"bind", "accept", "servlet"})
      <3>1. CASE d = c BY <1>0, <1>1, <3>1, ClosedListener
      <3>2. CASE d # c
        <4>1. listens'[d] = listens[d] /\ pc'[d] = pc[d] BY <1>0, <1>1, <3>2, ClosedListener
        <4> QED BY <4>1 DEF Inv, TypeOK
      <3> QED BY <3>1, <3>2
    <2> QED BY <1>1, <2>1, <2>2, ClosedListener DEF Inv, TypeOK
  <1>3. Wires' BY <1>1 DEF Inv, Wires
  <1>4. InOrder' BY <1>1 DEF Inv, InOrder
  <1>5. Informed'
    <2>1. \A d \in Clients : listens'[d] # NoPort => ToldPort(d, listens'[d])
      BY <1>1, ClosedListener DEF Inv, Informed
    <2> QED BY <1>1, <2>1, SameOffers DEF Inv, Informed, Fits
  <1>6. Calls'
    <2>1. Live(c) /\ \A d \in Clients : ~Calling(c, d) BY <1>1 DEF Inv, Calls, Live, Ended
    <2>2. \A d, e \in Clients : Live(d)' /\ Calling(d, e)' => Live(d) /\ Calling(d, e) /\ d # c /\ e # c
      <3>1. ASSUME NEW d \in Clients, NEW e \in Clients, Live(d)', Calling(d, e)'
            PROVE  Live(d) /\ Calling(d, e) /\ d # c /\ e # c
        <4>1. e # c /\ Calling(d, e) BY <1>1, <3>1, ClosedListener
        <4>2. d # c BY <2>1, <4>1
        <4> QED BY <1>0, <3>1, <4>1, <4>2 DEF Live
      <3> QED BY <3>1
    <2>3. ASSUME NEW d \in Clients
          PROVE  /\ pc'[d] \notin {"accept", "servlet"} => queue'[d] = <<>>
                 /\ pc'[d] # "servlet" => peer'[d] = NoOne
                 /\ pc'[d] = "servlet" => peer'[d] # NoOne
      <3>1. CASE d = c BY <1>0, <1>1, <3>1, ClosedListener
      <3>2. CASE d # c
        <4>1. queue'[d] = queue[d] /\ peer'[d] = peer[d] /\ pc'[d] = pc[d]
          BY <1>0, <1>1, <3>2, ClosedListener
        <4> QED BY <4>1 DEF Inv, Calls
      <3> QED BY <3>1, <3>2
    <2>4. \A e \in Clients \ {c} : listens'[e] = listens[e] BY <1>1, ClosedListener
    <2> QED BY <1>0, <1>1, <2>2, <2>3, <2>4 DEF Inv, Calls, TcpPort
  <1>7. Meet' BY <1>1 DEF Inv, Meet, MeetOnTheirPort
  <1> QED BY <1>2, <1>3, <1>4, <1>5, <1>6, <1>7 DEF Inv

(* The text is shown: caller and listener are the two of one offer.        *)
LEMMA ExchangeKeeps ==
  ASSUME Inv, NEW c \in Clients, Exchange(c)
  PROVE  Inv'
  <1>1. PICK s : s = peer[c] /\ pc[s] = "handshake" /\ pc[c] = "servlet" BY DEF Exchange
  <1>2. s \in Clients /\ s # c /\ Live(s) /\ Live(c) /\ Calling(s, c)
    BY <1>1 DEF Inv, TypeOK, Calls, Live, Ended, Calling
  <1>3. PICK to \in {"select", "message"} : pc' = [pc EXCEPT ![c] = "select", ![s] = to]
    BY <1>1 DEF Exchange, AfterInput
  <1>4. /\ CloseListener(c) /\ ready' = [ready EXCEPT ![s] = FALSE]
        /\ UNCHANGED <<typed, port, crossed, told, server, wires>>
    BY <1>1 DEF Exchange, Forget
  <1> USE DEF server, wires
  <1>5. /\ pc'[c] = "select" /\ pc'[s] \in {"select", "message"}
        /\ \A d \in Clients \ {c, s} : pc'[d] = pc[d]
    BY <1>2, <1>3 DEF Inv, TypeOK
  <1>6. TypeOK'
    <2>1. /\ pc' \in [Clients -> Ended \cup {"select", "message", "answer", "connect",
                                          "handshake", "bind", "accept", "servlet"}]
          /\ ready' \in [Clients -> BOOLEAN]
      BY <1>2, <1>3, <1>4 DEF Inv, TypeOK
    <2>2. ASSUME NEW d \in Clients
          PROVE  (listens'[d] # NoPort) = (pc'[d] \in {"bind", "accept", "servlet"})
      <3>1. CASE d = c BY <1>4, <1>5, <3>1, ClosedListener
      <3>2. CASE d = s
        <4>1. listens'[d] = listens[d] BY <1>2, <1>4, <3>2, ClosedListener
        <4>2. listens[s] = NoPort BY <1>1, <1>2 DEF Inv, TypeOK
        <4> QED BY <1>5, <3>2, <4>1, <4>2
      <3>3. CASE d \notin {c, s}
        <4>1. listens'[d] = listens[d] /\ pc'[d] = pc[d] BY <1>4, <1>5, <3>3, ClosedListener
        <4> QED BY <4>1 DEF Inv, TypeOK
      <3> QED BY <3>1, <3>2, <3>3
    <2> QED BY <1>4, <2>1, <2>2, ClosedListener DEF Inv, TypeOK
  <1>7. Wires' BY <1>4 DEF Inv, Wires
  <1>8. InOrder' BY <1>4 DEF Inv, InOrder
  <1>9. Informed'
    <2>1. \A d \in Clients : listens'[d] # NoPort => ToldPort(d, listens'[d])
      BY <1>4, ClosedListener DEF Inv, Informed
    <2> QED BY <1>4, <2>1, SameOffers DEF Inv, Informed, Fits
  <1>10. Calls'
    <2>1. \A d, e \in Clients : Live(d)' /\ Calling(d, e)' =>
            Live(d) /\ Calling(d, e) /\ d # s /\ d # c /\ e # c
      <3>1. ASSUME NEW d \in Clients, NEW e \in Clients, Live(d)', Calling(d, e)'
            PROVE  Live(d) /\ Calling(d, e) /\ d # s /\ d # c /\ e # c
        <4>1. e # c /\ Calling(d, e) BY <1>4, <3>1, ClosedListener
        <4>2. d # s BY <1>2, <4>1 DEF Inv, Calls
        <4>3. d # c BY <1>1, <1>2, <4>1 DEF Inv, Calls
        <4>4. Live(d) BY <1>5, <3>1, <4>2, <4>3 DEF Live
        <4> QED BY <4>1, <4>2, <4>3, <4>4
      <3> QED BY <3>1
    <2>2. ASSUME NEW d \in Clients
          PROVE  /\ pc'[d] \notin {"accept", "servlet"} => queue'[d] = <<>>
                 /\ pc'[d] # "servlet" => peer'[d] = NoOne
                 /\ pc'[d] = "servlet" => peer'[d] # NoOne
      <3>1. CASE d = c BY <1>4, <1>5, <3>1, ClosedListener
      <3>2. CASE d # c
        <4>1. queue'[d] = queue[d] /\ peer'[d] = peer[d] BY <1>4, <3>2, ClosedListener
        <4>2. CASE d = s BY <1>1, <1>5, <4>1, <4>2 DEF Inv, Calls
        <4>3. CASE d # s
          <5>1. pc'[d] = pc[d] BY <1>5, <3>2, <4>3
          <5> QED BY <4>1, <5>1 DEF Inv, Calls
        <4> QED BY <4>2, <4>3
      <3> QED BY <3>1, <3>2
    <2>3. \A e \in Clients \ {c} : listens'[e] = listens[e] BY <1>4, ClosedListener
    <2> QED BY <1>4, <1>5, <2>1, <2>2, <2>3 DEF Inv, Calls, TcpPort
  <1>11. Meet'
    <2>1. ASSUME Len(offers) <= PortSpace
          PROVE  MeetOnTheirPort'
      <3>1. listens[c] # NoPort /\ TcpPort(port[s]) = TcpPort(listens[c])
        BY <1>1, <1>2 DEF Inv, Calls, TypeOK
      <3>2. PICK k \in DOMAIN offers :
              /\ TcpPort(port[s]) = TcpPort(offers[k].port)
              /\ c \in Ends(offers[k])
              /\ s \in told => port[s] = offers[k].port /\ s \in Ends(offers[k])
        BY <1>2, <2>1, <3>1, ListenerIsAnEnd
      <3>3. MeetOnTheirPort BY <2>1 DEF Inv, Meet
      <3>4. ASSUME NEW x \in shown', x \notin shown
            PROVE  x.from = s /\ x.by = c /\ x.port = port[s] /\ (x.told => s \in told)
        <4>1. x = [from |-> s, by |-> c, to |-> said[s].to, port |-> port[s],
                   told |-> s \in told, inStep |-> s \notin crossed]
          BY <1>1, <3>4 DEF Exchange
        <4> QED BY <4>1
      <3> QED BY <1>2, <1>4, <3>2, <3>3, <3>4 DEF MeetOnTheirPort, TcpPort, Ends
    <2> QED BY <1>4, <2>1 DEF Meet
  <1> QED BY <1>6, <1>7, <1>8, <1>9, <1>10, <1>11 DEF Inv

-----------------------------------------------------------------------------
(* The requests of the clients.                                            *)

(* At first only logins are on their way.                                  *)
LEMMA RequestsInit == Init => Requests
  <1> SUFFICES ASSUME Init PROVE Requests OBVIOUS
  <1>1. ASSUME NEW c \in Clients
        PROVE  /\ requests[c] \in Seq(Asked)
               /\ \A n \in DOMAIN requests[c] : requests[c][n].user = UserOf[c]
               /\ pc[c] # "answer"
    <2>1. CASE c \in waiting
      <3>1. PICK r : r = LoginOf(c) OBVIOUS
      <3>2. r \in Asked BY <3>1 DEF Asked
      <3>3. r.user = UserOf[c] BY <3>1 DEF LoginOf
      <3>4. requests[c] = <<r>> /\ pc[c] = "select" BY <2>1, <3>1 DEF Init
      <3> QED BY <3>2, <3>3, <3>4
    <2>2. CASE c \notin waiting BY <2>2 DEF Init
    <2> QED BY <2>1, <2>2
  <1>2. requests = [c \in Clients |-> requests[c]] /\ said = [c \in Clients |-> NoOne]
    BY DEF Init
  <1> QED BY <1>1, <1>2 DEF Requests

(* Of the steps of a client, only its lines send requests.                 *)
LEMMA RequestsEnd ==
  ASSUME TypeOK, Requests, NEW c \in Clients, NEW how \in Ended, End(c, how)
  PROVE  Requests'
  <1>1. /\ \A d \in Clients : pc'[d] = IF d = c THEN how ELSE pc[d]
        /\ said' = [said EXCEPT ![c] = NoOne] /\ requests' = requests
    BY DEF End, Goto, Forget, TypeOK
  <1> QED BY <1>1 DEF Requests, Ended

(* A client that comes to no new answer.                                   *)
LEMMA RequestsMove ==
  ASSUME Requests, requests' = requests,
         said' = said \/ (\E c \in Clients : said' = [said EXCEPT ![c] = NoOne] /\ pc'[c] # "answer"),
         \A d \in Clients : pc'[d] = "answer" => pc[d] = "answer"
  PROVE  Requests'
  BY DEF Requests

(* A line adds a request, and one that asks is kept while it is answered.  *)
LEMMA RequestsTypeLine ==
  ASSUME TypeOK, Requests, NEW c \in Clients, TypeLine(c)
  PROVE  Requests'
  <1>1. PICK l \in Lines[c] : Line(c, Effect(l)) /\ pc[c] = "select"
    BY DEF TypeLine, Enter
  <1>2. CASE \E how \in Ended : End(c, how) BY <1>2, RequestsEnd
  <1>3. CASE /\ pc' = [pc EXCEPT ![c] = IF SocketReady(c) THEN "message" ELSE "select"]
             /\ UNCHANGED <<said, requests>>
    <2>1. \A d \in Clients : pc'[d] = "answer" => pc[d] = "answer" BY <1>3 DEF TypeOK
    <2> QED BY <1>3, <2>1, RequestsMove
  <1>4. CASE /\ Effect(l).does \in {"send", "ask"}
             /\ requests' = [requests EXCEPT ![c] = Append(requests[c], Effect(l).msg)]
             /\ \/ /\ Effect(l).does = "send" /\ said' = said
                   /\ pc' = [pc EXCEPT ![c] = IF SocketReady(c) THEN "message" ELSE "select"]
                \/ /\ Effect(l).does = "ask" /\ said' = [said EXCEPT ![c] = Effect(l).msg]
                   /\ pc' = [pc EXCEPT ![c] = "answer"]
    <2>1. PICK m : m = Effect(l).msg OBVIOUS
    <2>2. m \in Asked /\ m.type # "SET_USERNAME"
      BY <1>4, <2>1, WhatLinesSend DEF Asked
    <2>3. /\ requests[c] \in Seq(Asked) /\ Append(requests[c], m) \in Seq(Asked)
          /\ \A n \in DOMAIN Append(requests[c], m) :
                (n \in DOMAIN requests[c] /\ Append(requests[c], m)[n] = requests[c][n])
                  \/ Append(requests[c], m)[n] = m
      BY <2>2 DEF Requests
    <2>4. \A d \in Clients : requests'[d] = IF d = c THEN Append(requests[c], m) ELSE requests[d]
      BY <1>4, <2>1 DEF Requests
    <2>5. requests' \in [Clients -> Seq(Asked)]
      BY <1>4, <2>1, <2>3 DEF Requests
    <2>6. \A d \in Clients : \A n \in DOMAIN requests'[d] :
             requests'[d][n].type = "SET_USERNAME" => requests'[d][n].user = UserOf[d]
      BY <2>2, <2>3, <2>4 DEF Requests
    <2>7. said' \in [Clients -> Asked \cup {NoOne}]
      BY <1>4, <2>1, <2>2 DEF Requests
    <2>8. \A d \in Clients : pc'[d] = "answer" => said'[d] \in Private
      <3>1. CASE Effect(l).does = "send" BY <1>4, <3>1 DEF Requests, TypeOK
      <3>2. CASE Effect(l).does = "ask"
        <4>1. m \in Private BY <2>1, <2>2, <3>2, WhatLinesSend DEF Private
        <4> QED BY <1>4, <2>1, <3>2, <4>1 DEF Requests, TypeOK
      <3> QED BY <1>4, <3>1, <3>2
    <2> QED BY <2>5, <2>6, <2>7, <2>8 DEF Requests
  <1> QED BY <1>1, <1>2, <1>3, <1>4 DEF Line, Ask, Goto, Ended, wires

(* The other steps of a client send nothing and ask nothing.               *)
LEMMA RequestsRun ==
  ASSUME TypeOK, Calls, Requests, NEW c \in Clients, Kill(c) \/ ClientRuns(c)
  PROVE  Requests'
  <1>1. CASE \E how \in Ended : End(c, how) BY <1>1, RequestsEnd
  <1>2. ASSUME requests' = requests, pc[c] # "answer" \/ pc'[c] # "answer",
               \A d \in Clients : d # c => (pc'[d] = "answer" => pc[d] = "answer"),
               said' = said \/ (said' = [said EXCEPT ![c] = NoOne] /\ pc'[c] # "answer"),
               pc'[c] # "answer"
        PROVE  Requests'
    BY <1>2, RequestsMove
  <1> USE DEF Goto, wires
  <1>3. CASE SelectMessage(c) \/ Listen(c) \/ Accept(c) \/ ServletFails(c) \/ Connect(c)
    <2>1. requests' = requests /\ said' = said
      BY <1>3 DEF SelectMessage, Listen, Accept, ServletFails, Connect
    <2>2. pc'[c] # "answer" /\ \A d \in Clients : d # c => pc'[d] = pc[d]
      BY <1>3 DEF SelectMessage, Listen, Accept, ServletFails, Connect, TypeOK
    <2> QED BY <1>2, <2>1, <2>2
  <1>4. CASE HandshakeFails(c)
    <2>1. requests' = requests /\ said' = [said EXCEPT ![c] = NoOne]
      BY <1>4 DEF HandshakeFails, LeaveInput, Forget
    <2>2. pc'[c] # "answer" /\ \A d \in Clients : d # c => pc'[d] = pc[d]
      BY <1>4 DEF HandshakeFails, LeaveInput, AfterInput, TypeOK
    <2> QED BY <1>2, <2>1, <2>2
  <1>5. CASE HandleMessage(c) /\ ~End(c, "exited")
    <2>1. requests' = requests /\ said' = said BY <1>5 DEF HandleMessage, Take
    <2>2. pc'[c] # "answer" /\ \A d \in Clients : d # c => pc'[d] = pc[d]
      BY <1>5 DEF HandleMessage, TypeOK
    <2> QED BY <1>2, <2>1, <2>2
  <1>6. CASE (TakeAnswer(c) \/ TakeNoAnswer(c)) /\ ~End(c, "exited")
    <2>1. requests' = requests BY <1>6 DEF TakeAnswer, TakeNoAnswer, Take
    <2>2. /\ pc'[c] # "answer" /\ \A d \in Clients : d # c => pc'[d] = pc[d]
          /\ said' = said \/ said' = [said EXCEPT ![c] = NoOne]
      BY <1>6 DEF TakeAnswer, TakeNoAnswer, LeaveInput, Forget, AfterInput, TypeOK
    <2> QED BY <1>2, <2>1, <2>2
  <1>7. CASE Exchange(c)
    <2>1. PICK s : /\ s = peer[c] /\ pc[c] = "servlet" /\ pc[s] = "handshake"
                   /\ pc' = [pc EXCEPT ![c] = "select", ![s] = AfterInput(s)]
                   /\ said' = [said EXCEPT ![s] = NoOne] /\ requests' = requests
      BY <1>7 DEF Exchange, Forget
    <2>2. s \in Clients BY <2>1 DEF TypeOK, Calls
    <2>3. pc'[s] # "answer" /\ \A d \in Clients : pc'[d] = "answer" => pc[d] = "answer"
      BY <2>1, <2>2 DEF AfterInput, TypeOK
    <2> QED BY <2>1, <2>2, <2>3, RequestsMove
  <1>8. Kill(c) \/ ServerDisconnected(c) \/ ConnectFails(c) \/ ListenFails(c)
           => \E how \in Ended : End(c, how)
    BY DEF Kill, ServerDisconnected, ConnectFails, ListenFails, Ended
  <1>9. "exited" \in Ended BY DEF Ended
  <1> QED BY <1>1, <1>3, <1>4, <1>5, <1>6, <1>7, <1>8, <1>9 DEF ClientRuns

(* The server takes requests from the front, or all of a client's.         *)
LEMMA RequestsServer ==
  ASSUME TypeOK, Wires, Requests, ServerRuns
  PROVE  Requests'
  <1>1. UNCHANGED <<pc, said>>
    BY DEF ServerRuns, Deliver, DropSlot, Accepted, Serve, HandleReset, Disconnected, client
  <1>2. CASE requests' = requests BY <1>1, <1>2 DEF Requests
  <1>3. ASSUME NEW c \in Clients, requests[c] # <<>>,
               requests' = [requests EXCEPT ![c] = Tail(requests[c])]
        PROVE  Requests'
    <2>1. /\ requests[c] \in Seq(Asked) /\ Tail(requests[c]) \in Seq(Asked)
          /\ \A n \in DOMAIN Tail(requests[c]) :
                n + 1 \in DOMAIN requests[c] /\ Tail(requests[c])[n] = requests[c][n + 1]
      BY <1>3 DEF Requests
    <2>2. \A d \in Clients : requests'[d] = IF d = c THEN Tail(requests[c]) ELSE requests[d]
      BY <1>3 DEF Requests
    <2>3. requests' \in [Clients -> Seq(Asked)] BY <1>3, <2>1 DEF Requests
    <2>4. ASSUME NEW d \in Clients, NEW n \in DOMAIN requests'[d],
                 requests'[d][n].type = "SET_USERNAME"
          PROVE  requests'[d][n].user = UserOf[d]
      <3>1. CASE d = c
        <4>1. n \in DOMAIN Tail(requests[c]) /\ requests'[d][n] = Tail(requests[c])[n]
          BY <2>2, <2>4, <3>1
        <4>2. PICK k \in DOMAIN requests[c] : Tail(requests[c])[n] = requests[c][k]
          BY <2>1, <4>1
        <4> QED BY <2>4, <3>1, <4>1, <4>2 DEF Requests
      <3>2. CASE d # c BY <2>2, <2>4, <3>2 DEF Requests
      <3> QED BY <3>1, <3>2
    <2> QED BY <1>1, <2>3, <2>4 DEF Requests
  <1>4. ASSUME NEW c, requests' = [requests EXCEPT ![c] = <<>>]
        PROVE  Requests'
    <2>1. \A d \in Clients : requests'[d] = IF d = c THEN <<>> ELSE requests[d]
      BY <1>4 DEF Requests
    <2>2. <<>> \in Seq(Asked) /\ DOMAIN <<>> = {} OBVIOUS
    <2>3. requests' \in [Clients -> Seq(Asked)] BY <1>4, <2>2 DEF Requests
    <2>4. ASSUME NEW d \in Clients, NEW n \in DOMAIN requests'[d]
          PROVE  requests'[d] = requests[d]
      BY <2>1, <2>2, <2>4
    <2> QED BY <1>1, <2>3, <2>4 DEF Requests
  <1>5. Deliver \/ (\E c \in Clients : Accepted(c)) \/ (\E i \in Slots : HandleReset(i) \/ Disconnected(i))
           => requests' = requests
    BY DEF Deliver, Accepted, HandleReset, Disconnected, wires
  <1>6. ASSUME NEW i \in Slots, Serve(i) PROVE Requests'
    <2>1. at[i] \in Clients BY <1>6 DEF Serve, TypeOK
    <2> QED BY <1>3, <1>6, <2>1 DEF Serve
  <1>7. DropSlot => \E c : requests' = [requests EXCEPT ![c] = <<>>] BY DEF DropSlot
  <1> QED BY <1>2, <1>4, <1>5, <1>6, <1>7 DEF ServerRuns

(* Every step keeps the requests what they are.                            *)
LEMMA RequestsNext == Inv /\ Requests /\ [Next]_vars => Requests'
  <1> SUFFICES ASSUME Inv, Requests, [Next]_vars PROVE Requests' OBVIOUS
  <1>1. TypeOK /\ Wires /\ Calls BY DEF Inv
  <1>2. CASE UNCHANGED vars BY <1>2 DEF Requests, vars, client, wires
  <1> QED BY <1>1, <1>2, RequestsTypeLine, RequestsRun, RequestsServer DEF Next

-----------------------------------------------------------------------------
(* The server.                                                             *)

(* What is said of its table, and of the connections that were reset.      *)
Places ==
    /\ at \in [Slots -> Clients \cup {NoOne}] /\ waiting \subseteq Clients
    /\ \A i, j \in Slots : at[i] = at[j] /\ at[i] # NoOne => i = j
    /\ \A i \in Slots : at[i] \notin waiting
    /\ online \subseteq Clients /\ reset \subseteq Clients /\ up \in BOOLEAN

(* The invariant says it.                                                  *)
LEMMA PlacesHold == Inv => Places
  BY DEF Inv, TypeOK, Wires, Places

(* A step of the server that hands out no port.                            *)
LEMMA ServerKeeps ==
  ASSUME Inv, UNCHANGED <<client, meeting, ports, offers>>, Places',
         inbox' \in [Clients -> Seq(Messages)], \A d \in Clients : Len(inbox'[d]) <= BufCap,
         \A d \in Clients : \A n \in DOMAIN inbox'[d] : Fits(d, inbox'[d][n]),
         todo' \in Seq(Sendings), \A n \in DOMAIN todo' : Fits(todo'[n].to, todo'[n].msg)
  PROVE  Inv'
  <1> USE DEF client, meeting
  <1>1. TypeOK' BY DEF Inv, TypeOK, Places
  <1>2. Wires' BY DEF Inv, Wires, Places
  <1>3. InOrder' BY DEF Inv, InOrder
  <1>4. Informed' BY SameOffers DEF Inv, Informed, Fits
  <1>5. Calls'
    <2>1. \A d, e \in Clients : Calling(d, e)' = Calling(d, e) BY DEF Calling, InQueue
    <2> QED BY <2>1 DEF Inv, Calls, Live, TcpPort
  <1>6. Meet' BY DEF Inv, Meet, MeetOnTheirPort
  <1> QED BY <1>1, <1>2, <1>3, <1>4, <1>5, <1>6 DEF Inv

(* One that leaves the inboxes alone as well.                              *)
LEMMA ServerSends ==
  ASSUME Inv, UNCHANGED <<client, meeting, ports, offers, inbox>>, Places',
         todo' \in Seq(Sendings), \A n \in DOMAIN todo' : Fits(todo'[n].to, todo'[n].msg)
  PROVE  Inv'
  <1>1. /\ inbox' \in [Clients -> Seq(Messages)]
        /\ \A d \in Clients : Len(inbox'[d]) <= BufCap
        /\ \A d \in Clients : \A n \in DOMAIN inbox'[d] : Fits(d, inbox'[d][n])
    BY DEF Inv, Wires, TypeOK, Informed
  <1> QED BY <1>1, ServerKeeps

(* Messages of most kinds can be sent to anybody.                          *)
LEMMA FitsAll ==
  ASSUME NEW type \in Kinds, NEW n \in Nat, NEW short \in BOOLEAN, NEW c \in Clients \cup {NoOne},
         type \notin {"PRIVATE_MESSAGE", "USERNAME_ERROR"}
  PROVE  /\ Message(type, n, short, c) \in Messages
         /\ \A d \in Clients : Fits(d, Message(type, n, short, c))
  BY DEF Message, Messages, Fits

(* So can an error.                                                        *)
LEMMA LongFitsAll ==
  ASSUME NEW type \in Kinds, NEW c \in Clients \cup {NoOne}, type # "PRIVATE_MESSAGE"
  PROVE  /\ LongMessage(type, c) \in Messages
         /\ \A d \in Clients : Fits(d, LongMessage(type, c))
  BY DEF LongMessage, NoPort, Message, Messages, Fits

(* One send.                                                               *)
LEMMA OneSend ==
  ASSUME NEW c \in Clients, NEW m \in Messages, Fits(c, m)
  PROVE  /\ <<To(c, m)>> \in Seq(Sendings)
         /\ \A n \in DOMAIN <<To(c, m)>> : Fits(<<To(c, m)>>[n].to, <<To(c, m)>>[n].msg)
  <1>1. PICK x : x = To(c, m) OBVIOUS
  <1>2. x \in Sendings /\ x.to = c /\ x.msg = m BY <1>1 DEF To, Sendings
  <1>3. /\ <<x>> \in Seq(Sendings)
        /\ \A n \in DOMAIN <<x>> : <<x>>[n] = x
    BY <1>2
  <1> QED BY <1>1, <1>2, <1>3

(* Two sends.                                                              *)
LEMMA TwoSends ==
  ASSUME NEW b \in Clients, NEW c \in Clients, NEW m \in Messages, NEW o \in Messages,
         Fits(b, m), Fits(c, o)
  PROVE  /\ <<To(b, m), To(c, o)>> \in Seq(Sendings)
         /\ \A n \in DOMAIN <<To(b, m), To(c, o)>> :
              Fits(<<To(b, m), To(c, o)>>[n].to, <<To(b, m), To(c, o)>>[n].msg)
  <1>1. PICK x, y : x = To(b, m) /\ y = To(c, o) OBVIOUS
  <1>2. x \in Sendings /\ x.to = b /\ x.msg = m /\ y \in Sendings /\ y.to = c /\ y.msg = o
    BY <1>1 DEF To, Sendings
  <1>3. /\ <<x, y>> \in Seq(Sendings)
        /\ \A n \in DOMAIN <<x, y>> : <<x, y>>[n] = x \/ <<x, y>>[n] = y
    BY <1>2
  <1> QED BY <1>1, <1>2, <1>3

(* One send for the client of each of a set of slots.                      *)
LEMMA EachSends ==
  ASSUME Inv, NEW S \in SUBSET Occupied, NEW f \in Orders(S), NEW m \in Messages, SendEach(f, m)
  PROVE  /\ todo' \in Seq(Sendings)
         /\ \A n \in DOMAIN todo' : todo'[n].to \in Clients /\ todo'[n].msg = m
  <1>1. IsFiniteSet(S) BY SlotsAreFinite, FS_Subset DEF Occupied
  <1>2. PICK l \in Nat : l = Cardinality(S) BY <1>1, FS_CardinalityType
  <1>3. f \in [1..l -> S] BY <1>2 DEF Orders
  <1>4. todo' = [n \in 1..l |-> To(at[f[n]], m)] BY <1>3 DEF SendEach
  <1>5. \A n \in 1..l : at[f[n]] \in Clients
    BY <1>3 DEF Occupied, Inv, TypeOK
  <1>6. \A n \in 1..l : /\ To(at[f[n]], m) \in Sendings
                        /\ To(at[f[n]], m).to \in Clients /\ To(at[f[n]], m).msg = m
    BY <1>5 DEF To, Sendings
  <1> QED BY <1>4, <1>6

(* The first of the messages that are left to send.                        *)
LEMMA FirstSend ==
  ASSUME Inv, todo # <<>>
  PROVE  /\ Head(todo).to \in Clients /\ Head(todo).msg \in Messages
         /\ Fits(Head(todo).to, Head(todo).msg)
         /\ Tail(todo) \in Seq(Sendings)
         /\ \A n \in DOMAIN Tail(todo) : Fits(Tail(todo)[n].to, Tail(todo)[n].msg)
  <1>1. todo \in Seq(Sendings) /\ \A n \in DOMAIN todo : Fits(todo[n].to, todo[n].msg)
    BY DEF Inv, Wires, Informed
  <1>2. /\ Head(todo) \in Sendings /\ Head(todo) = todo[1] /\ 1 \in DOMAIN todo
        /\ Tail(todo) \in Seq(Sendings)
        /\ \A n \in DOMAIN Tail(todo) : n + 1 \in DOMAIN todo /\ Tail(todo)[n] = todo[n + 1]
    BY <1>1
  <1> QED BY <1>1, <1>2 DEF Sendings

(* A call is accepted.                                                     *)
LEMMA AcceptedKeeps ==
  ASSUME Inv, NEW c \in Clients, Accepted(c)
  PROVE  Inv'
  <1>1. PICK i \in Slots : /\ IsLowest(i, Slots \ Occupied) /\ at' = [at EXCEPT ![i] = c]
                           /\ c \in waiting /\ waiting' = waiting \ {c}
                           /\ UNCHANGED <<client, meeting, online, ports, todo, up, offers, inbox, reset>>
    BY DEF Accepted, wires
  <1>2. at[i] = NoOne BY <1>1 DEF IsLowest, Occupied
  <1>3. Places' BY <1>1, <1>2, PlacesHold DEF Places
  <1>4. todo' \in Seq(Sendings) /\ \A n \in DOMAIN todo' : Fits(todo'[n].to, todo'[n].msg)
    BY <1>1 DEF Inv, Wires, Informed
  <1> QED BY <1>1, <1>3, <1>4, ServerSends

(* The others are told that a client left.                                 *)
LEMMA DisconnectedKeeps ==
  ASSUME Inv, NEW i \in Slots, Disconnected(i)
  PROVE  Inv'
  <1>1. PICK n \in Garbage, short \in BOOLEAN, f \in Orders(Occupied \ {i}) :
            SendEach(f, Message("DISCONNECT", n, short, NoOne))
    BY DEF Disconnected
  <1>2. PICK m \in Messages : m = Message("DISCONNECT", n, short, NoOne)
                              /\ \A d \in Clients : Fits(d, m)
    <2>1. "DISCONNECT" \in Kinds BY DEF Kinds
    <2> QED BY <2>1, ClientNumbers, FitsAll
  <1>3. Occupied \ {i} \in SUBSET Occupied OBVIOUS
  <1>4. todo' \in Seq(Sendings) /\ \A k \in DOMAIN todo' : Fits(todo'[k].to, todo'[k].msg)
    BY <1>1, <1>2, <1>3, EachSends
  <1>5. /\ at' = [at EXCEPT ![i] = NoOne]
        /\ UNCHANGED <<client, meeting, waiting, online, ports, up, offers, inbox, reset>>
    BY DEF Disconnected, wires
  <1>6. Places' BY <1>5, PlacesHold, NoOneIsNoClient DEF Places
  <1> QED BY <1>4, <1>5, <1>6, ServerSends

(* A slot is dropped after a login that failed.                            *)
LEMMA DropSlotKeeps ==
  ASSUME Inv, DropSlot
  PROVE  Inv'
  <1>1. PICK c : /\ todo # <<>> /\ at' = [i \in Slots |-> IF at[i] = c THEN NoOne ELSE at[i]]
                 /\ todo' = Tail(todo)
                 /\ UNCHANGED <<client, meeting, waiting, online, ports, up, offers, inbox, reset>>
    BY DEF DropSlot
  <1>2. Places' BY <1>1, PlacesHold, NoOneIsNoClient DEF Places
  <1> QED BY <1>1, <1>2, FirstSend, ServerSends

(* A send reaches its client, gets lost or ends the server.                *)
LEMMA DeliverKeeps ==
  ASSUME Inv, Deliver
  PROVE  Inv'
  <1>1. /\ todo # <<>>
        /\ UNCHANGED <<client, meeting, waiting, at, online, ports, offers, reset>>
    BY DEF Deliver
  <1>2. PICK c \in Clients, m \in Messages : c = Head(todo).to /\ m = Head(todo).msg /\ Fits(c, m)
    BY <1>1, FirstSend
  <1>3. todo \in Seq(Sendings) /\ \A n \in DOMAIN todo : Fits(todo[n].to, todo[n].msg)
    BY DEF Inv, Wires, Informed
  <1>4. up' \in BOOLEAN BY PlacesHold DEF Deliver, Places
  <1>5. Places' BY <1>1, <1>4, PlacesHold DEF Places
  <1>6. CASE /\ Len(inbox[c]) < BufCap /\ inbox' = [inbox EXCEPT ![c] = Append(inbox[c], m)]
             /\ todo' = Tail(todo)
    <2>1. PICK box \in Seq(Messages) :
              box = inbox[c] /\ (\A n \in DOMAIN box : Fits(c, box[n])) /\ Len(box) < BufCap
      BY <1>6 DEF Inv, Wires, Informed
    <2>2. /\ Append(box, m) \in Seq(Messages) /\ Len(Append(box, m)) = Len(box) + 1
          /\ \A n \in DOMAIN Append(box, m) :
                (n \in DOMAIN box /\ Append(box, m)[n] = box[n]) \/ Append(box, m)[n] = m
      BY <2>1
    <2>3. Len(Append(box, m)) <= BufCap BY <2>1, <2>2, ClientNumbers
    <2>4. \A n \in DOMAIN Append(box, m) : Fits(c, Append(box, m)[n]) BY <1>2, <2>1, <2>2
    <2>5. \A d \in Clients : inbox'[d] = IF d = c THEN Append(box, m) ELSE inbox[d]
      BY <1>6, <2>1 DEF Inv, Wires
    <2>6. inbox' \in [Clients -> Seq(Messages)] BY <1>6, <2>1, <2>2 DEF Inv, Wires
    <2>7. \A d \in Clients : /\ Len(inbox'[d]) <= BufCap
                             /\ \A n \in DOMAIN inbox'[d] : Fits(d, inbox'[d][n])
      BY <2>3, <2>4, <2>5 DEF Inv, TypeOK, Informed
    <2> QED BY <1>1, <1>5, <1>6, <2>6, <2>7, FirstSend, ServerKeeps
  <1>7. CASE todo' = Tail(todo) /\ UNCHANGED inbox
    BY <1>1, <1>5, <1>7, FirstSend, ServerSends
  <1>8. CASE UNCHANGED <<inbox, todo>>
    BY <1>1, <1>3, <1>5, <1>8, ServerSends
  <1> QED BY <1>2, <1>6, <1>7, <1>8 DEF Deliver

(* What send_private_message does with one port: the offer it makes, and   *)
(* the messages about it.                                                  *)
LEMMA PairOffers ==
  ASSUME Inv, NEW i \in Slots, at[i] \in Clients, NEW r \in Asked \cup Leftovers, Pair(i, r)
  PROVE  \E b \in Clients \cup {NoOne}, o \in Offers :
            /\ b # at[i] /\ offers' = Append(offers, o)
            /\ o.from = at[i] /\ o.by = b /\ o.to = r.to /\ o.port = ports
            /\ \/ /\ \E j \in Slots : at[j] = b /\ name[j] = r.to /\ (o.known <=> b \in online)
                  /\ b \in Clients
                  /\ todo' = Offer(at[i], b, Message("PRIVATE_MESSAGE", ports, TRUE, at[i]))
               \/ b = NoOne /\ todo' = NotOnline(at[i])
  <1>0. r.to \in Targets /\ ports \in Nat BY DEF Targets, Inv, TypeOK
  <1>1. ASSUME NEW j \in Slots, IsLowest(j, Addressed(i, r)),
               todo' = Offer(at[i], at[j], Message("PRIVATE_MESSAGE", ports, TRUE, at[i])),
               offers' = Append(offers, [from |-> at[i], by |-> at[j], to |-> r.to,
                                         port |-> ports, known |-> at[j] \in online])
        PROVE  \E b \in Clients, o \in Offers :
                  /\ b # at[i] /\ offers' = Append(offers, o)
                  /\ o.from = at[i] /\ o.by = b /\ o.to = r.to /\ o.port = ports
                  /\ \E k \in Slots : at[k] = b /\ name[k] = r.to /\ (o.known <=> b \in online)
                  /\ todo' = Offer(at[i], b, Message("PRIVATE_MESSAGE", ports, TRUE, at[i]))
    <2>1. j # i /\ at[j] # NoOne /\ name[j] = r.to
      BY <1>1 DEF IsLowest, Addressed, Occupied
    <2>2. at[j] \in Clients /\ at[j] # at[i] BY <2>1 DEF Inv, TypeOK
    <2>3. PICK b, q, k : b = at[j] /\ q = at[i] /\ k = (at[j] \in online) BY Zenon
    <2>4. PICK o : o = [from |-> q, by |-> b, to |-> r.to, port |-> ports, known |-> k] OBVIOUS
    <2>5. o \in Offers
      <3>1. k \in BOOLEAN BY <2>3
      <3> QED BY <1>0, <2>2, <2>3, <2>4, <3>1 DEF Offers
    <2>6. o.from = q /\ o.by = b /\ o.to = r.to /\ o.port = ports /\ o.known = k BY <2>4
    <2>7. offers' = Append(offers, o) BY <1>1, <2>3, <2>4, Zenon
    <2> QED BY <1>1, <2>1, <2>2, <2>3, <2>5, <2>6, <2>7
  <1>2. CASE /\ todo' = NotOnline(at[i])
             /\ offers' = Append(offers, [from |-> at[i], by |-> NoOne, to |-> r.to,
                                          port |-> ports, known |-> FALSE])
    <2>1. PICK o : o = [from |-> at[i], by |-> NoOne, to |-> r.to, port |-> ports, known |-> FALSE]
      OBVIOUS
    <2>2. o \in Offers BY <1>0, <2>1 DEF Offers
    <2> QED BY <1>2, <2>1, <2>2, NoOneIsNoClient
  <1> QED BY <1>1, <1>2 DEF Pair

(* A port is handed out: the new offer is the last, and whoever was told   *)
(* of a port still was.                                                    *)
LEMMA PairKeeps ==
  ASSUME Inv, NEW i \in Slots, at[i] \in Clients, NEW r \in Asked \cup Leftovers, Pair(i, r),
         UNCHANGED <<client, meeting, inbox>>, Places'
  PROVE  Inv'
  <1>0. PICK c \in Clients : c = at[i] OBVIOUS
  <1>1. ports \in Nat /\ ports >= Len(offers) + 1 /\ Len(offers) \in Nat /\ ports' = ports + 1
    BY DEF Pair, TakePort, Inv, TypeOK, InOrder, Wires
  <1>2. PICK p, l \in Nat : p = ports /\ l = Len(offers) /\ p >= l + 1 /\ p # NoPort
    <2>1. ports # NoPort BY <1>1 DEF NoPort
    <2> QED BY <1>1, <2>1, Zenon
  <1>3. PICK b \in Clients \cup {NoOne}, o \in Offers :
            /\ b # c /\ o.from = c /\ o.by = b /\ o.port = p /\ offers' = Append(offers, o)
            /\ \/ b \in Clients /\ todo' = Offer(c, b, Message("PRIVATE_MESSAGE", p, TRUE, c))
               \/ todo' = NotOnline(c)
    <2>1. PICK b \in Clients \cup {NoOne}, o \in Offers :
            /\ b # at[i] /\ offers' = Append(offers, o)
            /\ o.from = at[i] /\ o.by = b /\ o.to = r.to /\ o.port = ports
            /\ \/ /\ \E j \in Slots : at[j] = b /\ name[j] = r.to /\ (o.known <=> b \in online)
                  /\ b \in Clients
                  /\ todo' = Offer(at[i], b, Message("PRIVATE_MESSAGE", ports, TRUE, at[i]))
               \/ b = NoOne /\ todo' = NotOnline(at[i])
      BY PairOffers
    <2> QED BY <1>0, <1>2, <2>1
  <1>4. /\ offers \in Seq(Offers) /\ offers' \in Seq(Offers) /\ Len(offers') = l + 1
        /\ DOMAIN offers = 1..l /\ DOMAIN offers' = 1..(l + 1) /\ offers'[l + 1] = o
        /\ \A k \in DOMAIN offers : offers'[k] = offers[k] /\ k \in DOMAIN offers'
    BY <1>2, <1>3 DEF Inv, Wires
  <1>5. \A d, q : ToldPort(d, q) => ToldPort(d, q)' BY <1>4 DEF ToldPort
  <1>6. ToldPort(c, p)' /\ ToldPort(b, p)'
    <2>1. l + 1 \in DOMAIN offers' BY <1>4
    <2>2. offers'[l + 1].port = p /\ c \in Ends(offers'[l + 1]) /\ b \in Ends(offers'[l + 1])
      BY <1>3, <1>4 DEF Ends
    <2> QED BY <2>1, <2>2 DEF ToldPort
  <1> USE DEF client, meeting
  <1>7. TypeOK' BY <1>1 DEF Inv, TypeOK, Places
  <1>8. Wires' /\ (\A n \in DOMAIN todo : Fits(todo[n].to, todo[n].msg))'
    <2>1. CASE b \in Clients /\ todo' = Offer(c, b, Message("PRIVATE_MESSAGE", p, TRUE, c))
      <3>1. PICK m \in Messages : m = Message("PRIVATE_MESSAGE", p, TRUE, c)
        BY DEF Message, Messages, Kinds
      <3>2. Fits(c, m)' /\ Fits(b, m)' BY <1>2, <1>6, <3>1 DEF Fits, Message
      <3>3. todo' = <<To(b, m), To(c, m)>> BY <2>1, <3>1 DEF Offer
      <3>4. /\ To(b, m) \in Sendings /\ To(c, m) \in Sendings
            /\ To(b, m).to = b /\ To(b, m).msg = m /\ To(c, m).to = c /\ To(c, m).msg = m
        BY <2>1 DEF To, Sendings
      <3>5. todo' \in Seq(Sendings) BY <3>3, <3>4
      <3>6. \A n \in DOMAIN todo' : todo'[n].msg = m /\ todo'[n].to \in {b, c} BY <3>3, <3>4
      <3> QED BY <1>4, <3>2, <3>5, <3>6 DEF Inv, Wires, Places
    <2>2. CASE todo' = NotOnline(c)
      <3>1. PICK m \in Messages : m = LongMessage("USERNAME_ERROR", c)
        <4>1. "USERNAME_ERROR" \in Kinds /\ "USERNAME_ERROR" # "PRIVATE_MESSAGE" BY DEF Kinds
        <4> QED BY <4>1, LongFitsAll
      <3>2. todo' = <<To(c, m)>> BY <2>2, <3>1 DEF NotOnline
      <3>3. To(c, m) \in Sendings /\ To(c, m).to = c /\ To(c, m).msg = m BY DEF To, Sendings
      <3>4. todo' \in Seq(Sendings) /\ \A n \in DOMAIN todo' : todo'[n].msg = m BY <3>2, <3>3
      <3>5. ~m.short /\ m.type # "PRIVATE_MESSAGE" BY <3>1 DEF LongMessage, Message
      <3> QED BY <1>4, <3>4, <3>5 DEF Inv, Wires, Fits, Places
    <2> QED BY <1>3, <2>1, <2>2
  <1>9. InOrder'
    <2>1. \A k \in DOMAIN offers : /\ offers[k].port = (p - l) + (k - 1)
                                   /\ offers[k].from # offers[k].by
      BY <1>2 DEF Inv, InOrder
    <2>2. /\ offers'[l + 1].port = p /\ offers'[l + 1].from = c /\ offers'[l + 1].by = b
      BY <1>3, <1>4
    <2>3. ports' = p + 1 /\ (p + 1) - (l + 1) = p - l /\ p = (p - l) + ((l + 1) - 1)
          /\ p + 1 >= (l + 1) + 1
      BY <1>1, <1>2
    <2>4. ASSUME NEW k \in DOMAIN offers'
          PROVE  /\ offers'[k].port = (p - l) + (k - 1)
                 /\ offers'[k].from # offers'[k].by
      <3>1. CASE k \in DOMAIN offers BY <1>4, <2>1, <3>1
      <3>2. CASE k = l + 1 BY <1>3, <2>2, <2>3, <3>2
      <3> QED BY <1>2, <1>4, <3>1, <3>2
    <2> QED BY <1>4, <2>3, <2>4 DEF InOrder
  <1>10. Informed'
    <2>1. (\A d \in Clients : \A n \in DOMAIN inbox[d] : Fits(d, inbox[d][n]))'
      BY <1>5 DEF Inv, Informed, Fits
    <2>2. (\A d \in told : ToldPort(d, port[d]))'
          /\ (\A d \in Clients : listens[d] # NoPort => ToldPort(d, listens[d]))'
      BY <1>5 DEF Inv, Informed
    <2> QED BY <1>8, <2>1, <2>2 DEF Informed
  <1>11. Calls'
    <2>1. \A d, e \in Clients : Calling(d, e)' = Calling(d, e) BY DEF Calling, InQueue
    <2> QED BY <2>1 DEF Inv, Calls, Live, TcpPort
  <1>12. Meet'
    <2>1. Len(offers') <= PortSpace => Len(offers) <= PortSpace BY <1>2, <1>4, ClientNumbers
    <2> QED BY <1>4, <2>1 DEF Inv, Meet, MeetOnTheirPort
  <1> QED BY <1>7, <1>8, <1>9, <1>10, <1>11, <1>12 DEF Inv

(* A request is handled.                                                   *)
LEMMA HandleKeeps ==
  ASSUME Inv, NEW i \in Slots, at[i] \in Clients, NEW r \in Asked \cup Leftovers, Handle(i, r),
         UNCHANGED <<client, meeting, waiting, at, inbox>>, reset' \subseteq reset
  PROVE  Inv'
  <1>0. PICK c \in Clients : c = at[i] OBVIOUS
  <1>1. Places'
    <2>1. up' = up /\ online' \subseteq Clients
      BY <1>0, PlacesHold DEF Handle, Login, Pair, SendUserList, SendPublicMessage, Reply, Places
    <2> QED BY <2>1, PlacesHold DEF Places
  <1>2. CASE Pair(i, r) BY <1>1, <1>2, PairKeeps
  <1>3. ASSUME NEW m \in Messages, Fits(c, m), todo' = <<To(c, m)>>, UNCHANGED <<ports, offers>>
        PROVE  Inv'
    <2>1. /\ todo' \in Seq(Sendings)
          /\ \A n \in DOMAIN todo' : Fits(todo'[n].to, todo'[n].msg)
      BY <1>3, OneSend
    <2> QED BY <1>1, <1>3, <2>1, ServerSends
  <1>4. CASE Login(i, r)
    <2>1. "SUCCESS" \in Kinds /\ "HANG_UP" \in Kinds /\ NoOne \in Clients \cup {NoOne} BY DEF Kinds
    <2>2. PICK m \in Messages, o \in Messages :
              m = Message("SUCCESS", 1, TRUE, c) /\ o = Message("SUCCESS", 0, TRUE, c)
              /\ \A d \in Clients : Fits(d, m) /\ Fits(d, o)
      BY <2>1, FitsAll
    <2>3. PICK h \in Messages : h = LongMessage("HANG_UP", NoOne) /\ \A d \in Clients : Fits(d, h)
      BY <2>1, LongFitsAll
    <2>4. /\ todo' = <<To(c, m)>> \/ todo' = <<To(c, o), To(c, h)>>
          /\ UNCHANGED <<ports, offers>>
      BY <1>0, <1>4, <2>2, <2>3 DEF Login, Success, HangUp
    <2>5. CASE todo' = <<To(c, m)>> BY <1>3, <2>2, <2>4, <2>5
    <2>6. CASE todo' = <<To(c, o), To(c, h)>>
      <3>1. /\ todo' \in Seq(Sendings)
            /\ \A n \in DOMAIN todo' : Fits(todo'[n].to, todo'[n].msg)
        BY <2>2, <2>3, <2>6, TwoSends
      <3> QED BY <1>1, <2>4, <3>1, ServerSends
    <2> QED BY <2>4, <2>5, <2>6
  <1>5. CASE SendUserList(i)
    <2>1. PICK j \in Slots, short \in BOOLEAN :
              \E n \in IF name[j] = NoName THEN Garbage ELSE {Number(name[j])} :
                todo' = <<To(c, Message("GET_USERS", n, short, c))>>
      BY <1>0, <1>5 DEF SendUserList
    <2>2. PICK n \in Nat : todo' = <<To(c, Message("GET_USERS", n, short, c))>>
      BY <2>1, ClientNumbers, WordsAreNumbers DEF Number
    <2>3. "GET_USERS" \in Kinds BY DEF Kinds
    <2>4. PICK m \in Messages : m = Message("GET_USERS", n, short, c) /\ Fits(c, m)
      BY <2>2, <2>3, FitsAll
    <2> QED BY <1>3, <1>5, <2>2, <2>4 DEF SendUserList
  <1>6. CASE r.type = "PUBLIC_MESSAGE" /\ SendPublicMessage(i, r)
    <2>1. PICK f \in Orders({ j \in Occupied \ {i} : name[j] \in Listed }) :
              SendEach(f, Message("PUBLIC_MESSAGE", r.text.number, r.text.short, NoOne))
      BY <1>6 DEF SendPublicMessage
    <2>2. Texted(r) BY <1>6, AskedTexts, LeftoversAreRequests DEF Texted
    <2>3. "PUBLIC_MESSAGE" \in Kinds /\ NoOne \in Clients \cup {NoOne} BY DEF Kinds
    <2>4. PICK m \in Messages : m = Message("PUBLIC_MESSAGE", r.text.number, r.text.short, NoOne)
                                /\ \A d \in Clients : Fits(d, m)
      BY <2>2, <2>3, FitsAll DEF Texted
    <2>5. { j \in Occupied \ {i} : name[j] \in Listed } \in SUBSET Occupied OBVIOUS
    <2>6. todo' \in Seq(Sendings) /\ \A n \in DOMAIN todo' : Fits(todo'[n].to, todo'[n].msg)
      BY <2>1, <2>4, <2>5, EachSends
    <2> QED BY <1>1, <1>6, <2>6, ServerSends DEF SendPublicMessage
  <1>7. CASE r.type \in {"CREATE_GROUP", "JOIN_GROUP", "SEND_FILE", "RECEIVE_FILE"} /\ Reply(i, r)
    <2>1. CASE r.type = "RECEIVE_FILE"
      <3>1. todo' = <<>> /\ UNCHANGED <<ports, offers>> BY <1>7, <2>1 DEF Reply
      <3>2. todo' \in Seq(Sendings) /\ DOMAIN todo' = {} BY <3>1
      <3> QED BY <1>1, <3>1, <3>2, ServerSends
    <2>2. CASE r.type # "RECEIVE_FILE"
      <3>1. r.type \in Kinds /\ r.type # "PRIVATE_MESSAGE" BY <1>7, <2>2 DEF Kinds
      <3>2. PICK m \in Messages : m = LongMessage(r.type, c) /\ Fits(c, m) BY <3>1, LongFitsAll
      <3>3. todo' = <<To(c, m)>> /\ UNCHANGED <<ports, offers>>
        BY <1>0, <1>7, <2>2, <3>2 DEF Reply
      <3> QED BY <1>3, <3>2, <3>3
    <2> QED BY <2>1, <2>2
  <1> QED BY <1>2, <1>4, <1>5, <1>6, <1>7 DEF Handle

(* A request is read and handled.                                          *)
LEMMA ServeKeeps ==
  ASSUME Inv, Requests, NEW i \in Slots, Serve(i)
  PROVE  Inv'
  <1>1. at[i] \in Clients /\ requests[at[i]] # <<>> /\ Handle(i, Head(requests[at[i]]))
        /\ UNCHANGED <<client, meeting, waiting, at, inbox, reset>>
    BY DEF Serve, Inv, TypeOK
  <1>2. requests[at[i]] \in Seq(Asked) BY <1>1 DEF Requests
  <1>3. Head(requests[at[i]]) \in Asked BY <1>1, <1>2
  <1> QED BY <1>1, <1>3, HandleKeeps

(* What is read from a connection that was reset is handled as well.       *)
LEMMA HandleResetKeeps ==
  ASSUME Inv, NEW i \in Slots, HandleReset(i)
  PROVE  Inv'
  <1>1. /\ at[i] \in Clients /\ reset' \subseteq reset
        /\ UNCHANGED <<client, meeting, waiting, at, inbox>>
    BY PlacesHold DEF HandleReset, Places
  <1>2. CASE \E r \in Leftovers : Handle(i, r) BY <1>1, <1>2, HandleKeeps
  <1>3. CASE up' \in BOOLEAN /\ UNCHANGED <<name, online, ports, todo, offers>>
    <2>1. Places' BY <1>1, <1>3, PlacesHold DEF Places
    <2>2. todo' \in Seq(Sendings) /\ \A n \in DOMAIN todo' : Fits(todo'[n].to, todo'[n].msg)
      BY <1>3 DEF Inv, Wires, Informed
    <2> QED BY <1>1, <1>3, <2>1, <2>2, ServerSends
  <1> QED BY <1>2, <1>3 DEF HandleReset

-----------------------------------------------------------------------------
(* Every step keeps the invariant.                                         *)
LEMMA InvNext == Inv /\ Requests /\ [Next]_vars => Inv'
  <1> SUFFICES ASSUME Inv, Requests, [Next]_vars PROVE Inv' OBVIOUS
  <1>1. \A c \in Clients : typed \in 0..MaxLines BY DEF Inv, TypeOK
  <1>2. ASSUME NEW c \in Clients, \E how \in Ended : End(c, how), UNCHANGED typed
        PROVE  Inv'
    BY <1>1, <1>2, EndKeeps
  <1>3. ASSUME NEW c \in Clients, ClientRuns(c)
        PROVE  Inv'
    <2>1. ServerDisconnected(c) \/ ConnectFails(c) \/ ListenFails(c)
             => (\E how \in Ended : End(c, how)) /\ UNCHANGED typed
      BY DEF ServerDisconnected, ConnectFails, ListenFails, Ended
    <2> QED BY <1>2, <1>3, <2>1, SelectMessageKeeps, HandleMessageKeeps, TakeAnswerKeeps,
               TakeNoAnswerKeeps, ConnectKeeps, HandshakeFailsKeeps, ListenKeeps, AcceptKeeps,
               ExchangeKeeps, ServletFailsKeeps
            DEF ClientRuns
  <1>4. ASSUME NEW c \in Clients, Kill(c)
        PROVE  Inv'
    <2>1. (\E how \in Ended : End(c, how)) /\ UNCHANGED typed BY <1>4 DEF Kill, Ended
    <2> QED BY <1>2, <2>1
  <1>5. CASE ServerRuns
    BY <1>5, DeliverKeeps, DropSlotKeeps, AcceptedKeeps, ServeKeeps, HandleResetKeeps,
       DisconnectedKeeps
    DEF ServerRuns
  <1>6. CASE UNCHANGED vars
    <2> USE DEF vars, client, meeting, server, wires
    <2>1. \A d, e \in Clients : Calling(d, e)' = Calling(d, e) BY <1>6 DEF Calling, InQueue
    <2>2. TypeOK' /\ Wires' /\ InOrder' BY <1>6 DEF Inv, TypeOK, Wires, InOrder
    <2>3. Informed' BY <1>6, SameOffers DEF Inv, Informed, Fits
    <2>4. Calls' BY <1>6, <2>1 DEF Inv, Calls, Live, TcpPort
    <2>5. Meet' BY <1>6 DEF Inv, Meet, MeetOnTheirPort
    <2> QED BY <2>2, <2>3, <2>4, <2>5 DEF Inv
  <1> QED BY <1>3, <1>4, <1>5, <1>6, TypeLineKeeps DEF Next

(* What the proofs rest on holds in every state: among it, that ports are  *)
(* told in order, each to two clients, and that a client which says its    *)
(* number is a port it was told has it from the server.                    *)
THEOREM InvHolds == Spec => [](Inv /\ Requests)
  <1> QED BY InvInit, InvNext, RequestsInit, RequestsNext, PTL DEF Spec

(* The variables keep their types; a client has a socket open exactly      *)
(* while it is in handlePrivateMsg (client.c:747-805), no client sits in   *)
(* two slots, and no more than a socket takes lies unread.                 *)
THEOREM TypeCorrect == Spec => []TypeOK
  <1>1. Inv => TypeOK BY DEF Inv
  <1> QED BY <1>1, InvHolds, PTL

(* Whatever the clients type, whoever stops and in whatever order the      *)
(* steps come, a text is shown only by one of the two clients the server   *)
(* told a port (server.c:101-121, client.c:801), and a sender that has its *)
(* number from such a message (client.c:447) is the other one; as long as  *)
(* PORTS has not gone round the 16 bits of a port.                         *)
THEOREM MeetOnTheirPortHolds ==
  Spec => [](Len(offers) <= PortSpace => MeetOnTheirPort)
  <1>1. Inv => (Len(offers) <= PortSpace => MeetOnTheirPort) BY DEF Inv, Meet
  <1> QED BY <1>1, InvHolds, PTL

-----------------------------------------------------------------------------
(* The names in the server's table.                                        *)

(* A connection that was reset was a client's that ended; who waits has    *)
(* not logged in; and who has, sits under its own name while it lives.     *)
Named ==
    /\ \A c \in reset : ~Live(c)
    /\ \A c \in online : c \notin waiting
    /\ DOMAIN name = Slots
    /\ \A i \in Slots : at[i] \in online /\ Live(at[i]) => name[i] = UserOf[at[i]]

(* At first the names are those of who is there.                           *)
LEMMA NamedInit == Init => Named
  <1> SUFFICES ASSUME Init PROVE Named OBVIOUS
  <1>1. /\ at = Seated /\ reset = {} /\ online = Clients \ waiting
        /\ name = [i \in Slots |-> IF Seated[i] = NoOne THEN NoName ELSE UserOf[Seated[i]]]
    BY DEF Init
  <1> QED BY <1>1, NoOneIsNoClient DEF Named

(* No client that has ended does anything.                                 *)
LEMMA LiveStays ==
  ASSUME Inv, Next, NEW d \in Clients, Live(d)'
  PROVE  Live(d)
  <1> USE DEF Live, Ended, Goto
  <1>1. CASE ServerRuns
    BY <1>1 DEF ServerRuns, Deliver, DropSlot, Accepted, Serve, HandleReset, Disconnected, client
  <1>2. ASSUME NEW c \in Clients, End(c, "exited") \/ End(c, "aborted") \/ End(c, "crashed")
        PROVE  Live(d)
    BY <1>2 DEF End, Inv, TypeOK
  <1>3. ASSUME NEW c \in Clients, pc[c] \notin Ended,
               \A e \in Clients : e # c => pc'[e] = pc[e]
        PROVE  Live(d)
    BY <1>3
  <1>4. ASSUME NEW c \in Clients, TypeLine(c)
        PROVE  Live(d)
    <2>1. pc[c] = "select" BY <1>4 DEF TypeLine, Enter
    <2>2. (\E how \in Ended : End(c, how)) \/ \A e \in Clients : e # c => pc'[e] = pc[e]
      BY <1>4 DEF TypeLine, Enter, Line, Inv, TypeOK
    <2> QED BY <1>2, <1>3, <2>1, <2>2
  <1>5. ASSUME NEW c \in Clients,
               SelectMessage(c) \/ HandleMessage(c) \/ TakeAnswer(c) \/ TakeNoAnswer(c)
               \/ Connect(c) \/ HandshakeFails(c) \/ Listen(c) \/ Accept(c) \/ ServletFails(c)
        PROVE  Live(d)
    <2>1. CASE End(c, "exited") BY <1>2, <2>1
    <2>2. CASE ~End(c, "exited")
      <3>1. pc[c] \notin Ended /\ \A e \in Clients : e # c => pc'[e] = pc[e]
        BY <1>5, <2>2 DEF SelectMessage, HandleMessage, TakeAnswer, TakeNoAnswer, Connect,
              HandshakeFails, LeaveInput, Listen, Accept, ServletFails, Inv, TypeOK
      <3> QED BY <1>3, <3>1
    <2> QED BY <2>1, <2>2
  <1>6. ASSUME NEW c \in Clients, Exchange(c)
        PROVE  Live(d)
    <2>1. PICK s : /\ pc[c] = "servlet" /\ pc[s] = "handshake"
                   /\ pc' = [pc EXCEPT ![c] = "select", ![s] = AfterInput(s)]
      BY <1>6 DEF Exchange
    <2>2. \A e \in Clients : e # c /\ e # s => pc'[e] = pc[e] BY <2>1 DEF Inv, TypeOK
    <2> QED BY <2>1, <2>2
  <1>7. ASSUME NEW c \in Clients,
               Kill(c) \/ ServerDisconnected(c) \/ ConnectFails(c) \/ ListenFails(c)
        PROVE  Live(d)
    BY <1>2, <1>7 DEF Kill, ServerDisconnected, ConnectFails, ListenFails
  <1> QED BY <1>1, <1>4, <1>5, <1>6, <1>7 DEF Next, ClientRuns

(* Only a client that ends has its connection reset.                       *)
LEMMA ClientStepResets ==
  ASSUME Inv, NEW c \in Clients, TypeLine(c) \/ Kill(c) \/ ClientRuns(c)
  PROVE  /\ UNCHANGED server
         /\ reset' = reset \/ (reset' \subseteq reset \cup {c} /\ ~Live(c)')
  <1>1. ASSUME NEW how \in Ended, End(c, how)
        PROVE  UNCHANGED server /\ reset' \subseteq reset \cup {c} /\ ~Live(c)'
    BY <1>1 DEF End, Goto, Live, Inv, TypeOK
  <1>2. CASE TypeLine(c)
    <2>1. UNCHANGED server /\ (reset' = reset \/ \E how \in Ended : End(c, how))
      BY <1>2 DEF TypeLine, Enter, Line, Ask, wires, Ended
    <2> QED BY <1>1, <2>1
  <1>3. CASE Kill(c) \/ ServerDisconnected(c) \/ ConnectFails(c) \/ ListenFails(c)
    <2>1. \E how \in Ended : End(c, how)
      BY <1>3 DEF Kill, ServerDisconnected, ConnectFails, ListenFails, Ended
    <2> QED BY <1>1, <2>1
  <1>4. CASE HandleMessage(c) \/ TakeAnswer(c) \/ TakeNoAnswer(c)
    <2>1. (UNCHANGED server /\ reset' = reset) \/ \E how \in Ended : End(c, how)
      BY <1>4 DEF HandleMessage, TakeAnswer, TakeNoAnswer, Take, wires, Ended
    <2> QED BY <1>1, <2>1
  <1>5. CASE SelectMessage(c) \/ Connect(c) \/ HandshakeFails(c) \/ Listen(c) \/ Accept(c)
               \/ ServletFails(c) \/ Exchange(c)
    BY <1>5 DEF SelectMessage, Connect, HandshakeFails, Listen, Accept, ServletFails, Exchange, wires
  <1> QED BY <1>2, <1>3, <1>4, <1>5 DEF ClientRuns

(* A handler changes the table only by storing the name of its own slot.   *)
LEMMA HandleNames ==
  ASSUME Inv, Named, NEW i \in Slots, at[i] \in Clients, NEW r, Handle(i, r),
         UNCHANGED <<client, waiting, at>>, reset' \subseteq reset,
         Live(at[i]) /\ r.type = "SET_USERNAME" => r.user = UserOf[at[i]]
  PROVE  Named'
  <1>1. \A d : Live(d)' <=> Live(d) BY DEF Live, client
  <1>2. CASE UNCHANGED <<name, online>> BY <1>1, <1>2 DEF Named
  <1>3. CASE r.type = "SET_USERNAME" /\ Login(i, r)
    <2>1. name' = [name EXCEPT ![i] = r.user] /\ online' \subseteq online \cup {at[i]}
      BY <1>3 DEF Login
    <2>2. DOMAIN name = Slots BY DEF Named
    <2>3. DOMAIN name' = Slots /\ \A j \in Slots : name'[j] = IF j = i THEN r.user ELSE name[j]
      BY <2>1, <2>2
    <2>4. at[i] \notin waiting /\ \A j \in Slots : at[j] = at[i] => j = i
      BY NoOneIsNoClient, PlacesHold DEF Places
    <2>5. ASSUME NEW j \in Slots, at[j] \in online', Live(at[j])
          PROVE  name'[j] = UserOf[at[j]]
      BY <1>3, <2>1, <2>3, <2>4, <2>5 DEF Named
    <2> QED BY <1>1, <2>1, <2>3, <2>4, <2>5 DEF Named
  <1> QED BY <1>2, <1>3 DEF Handle, Pair, SendUserList, SendPublicMessage, Reply

(* Every step keeps the names.                                             *)
LEMMA NamedNext == Inv /\ Requests /\ Named /\ [Next]_vars => Named'
  <1> SUFFICES ASSUME Inv, Requests, Named, [Next]_vars PROVE Named' OBVIOUS
  <1>1. CASE UNCHANGED vars BY <1>1 DEF Named, Live, vars, client, server, wires
  <1>2. ASSUME NEW c \in Clients, TypeLine(c) \/ Kill(c) \/ ClientRuns(c), Next
        PROVE  Named'
    <2>1. \A d \in Clients : Live(d)' => Live(d) BY <1>2, LiveStays
    <2>2. UNCHANGED <<at, name, online, waiting>> BY <1>2, ClientStepResets DEF server
    <2>3. \A d \in reset' : ~Live(d)'
      BY <1>2, <2>1, ClientStepResets, PlacesHold DEF Named, Places
    <2>4. \A i \in Slots : at[i] \in online => at[i] \in Clients BY PlacesHold DEF Places
    <2> QED BY <2>1, <2>2, <2>3, <2>4 DEF Named
  <1>3. ASSUME ServerRuns
        PROVE  Named'
    <2>0. UNCHANGED client /\ \A d : Live(d)' <=> Live(d)
      BY <1>3 DEF ServerRuns, Deliver, DropSlot, Accepted, Serve, HandleReset, Disconnected,
                  client, Live
    <2>1. CASE Deliver BY <2>0, <2>1 DEF Deliver, Named
    <2>2. CASE DropSlot
      <3>1. /\ UNCHANGED <<waiting, name, online, reset>>
            /\ \A i \in Slots : at'[i] = NoOne \/ at'[i] = at[i]
        BY <2>2 DEF DropSlot
      <3>2. NoOne \notin online BY NoOneIsNoClient, PlacesHold DEF Places
      <3> QED BY <2>0, <3>1, <3>2 DEF Named
    <2>3. ASSUME NEW c \in Clients, Accepted(c) PROVE Named'
      <3>1. PICK i \in Slots : at' = [at EXCEPT ![i] = c] /\ c \in waiting /\ waiting' = waiting \ {c}
                               /\ UNCHANGED <<name, online, reset>>
        BY <2>3 DEF Accepted, wires
      <3>2. c \notin online BY <3>1 DEF Named
      <3>3. \A j \in Slots : at'[j] = IF j = i THEN c ELSE at[j]
        BY <3>1, PlacesHold DEF Places
      <3> QED BY <2>0, <3>1, <3>2, <3>3 DEF Named
    <2>4. ASSUME NEW i \in Slots, Serve(i) PROVE Named'
      <3>1. /\ at[i] \in Clients /\ Handle(i, Head(requests[at[i]])) /\ requests[at[i]] # <<>>
            /\ UNCHANGED <<client, waiting, at, reset>>
        BY <2>4 DEF Serve, Inv, TypeOK
      <3>2. requests[at[i]] \in Seq(Asked) BY <3>1 DEF Requests
      <3>3. 1 \in DOMAIN requests[at[i]] /\ Head(requests[at[i]]) = requests[at[i]][1]
        BY <3>1, <3>2
      <3>4. Head(requests[at[i]]).type = "SET_USERNAME"
              => Head(requests[at[i]]).user = UserOf[at[i]]
        BY <3>1, <3>3 DEF Requests
      <3> QED BY <3>1, <3>4, HandleNames
    <2>5. ASSUME NEW i \in Slots, HandleReset(i) PROVE Named'
      <3>1. /\ at[i] \in Clients /\ ~Live(at[i]) /\ reset' \subseteq reset
            /\ UNCHANGED <<client, waiting, at>>
        BY <2>5, PlacesHold DEF HandleReset, Places, Named
      <3>2. CASE \E r \in Leftovers : Handle(i, r) BY <3>1, <3>2, HandleNames
      <3>3. CASE UNCHANGED <<name, online>> BY <2>0, <3>1, <3>3 DEF Named
      <3> QED BY <2>5, <3>2, <3>3 DEF HandleReset
    <2>6. ASSUME NEW i \in Slots, Disconnected(i) PROVE Named'
      <3>1. /\ UNCHANGED <<waiting, name, online, reset>> /\ at' = [at EXCEPT ![i] = NoOne]
        BY <2>6 DEF Disconnected, wires
      <3>2. NoOne \notin online BY NoOneIsNoClient, PlacesHold DEF Places
      <3>3. \A j \in Slots : at'[j] = IF j = i THEN NoOne ELSE at[j]
        BY <3>1, PlacesHold DEF Places
      <3> QED BY <2>0, <3>1, <3>2, <3>3 DEF Named
    <2> QED BY <1>3, <2>1, <2>2, <2>3, <2>4, <2>5, <2>6 DEF ServerRuns
  <1> QED BY <1>1, <1>2, <1>3 DEF Next

-----------------------------------------------------------------------------
(* A client in step: what it asked for with /msg, and what it was answered.*)
Absent(s, G) == \A n \in DOMAIN s : s[n] \notin G
Once(s, G) == \A n, k \in DOMAIN s : s[n] \in G /\ s[k] \in G => n = k

Replies(c) == { m \in Messages : IsAnswer(c, m) }
RepliesSent(c) == { x \in Sendings : x.to = c /\ x.msg \in Replies(c) }

(* A port the server chose for c and for somebody in a slot of the name c  *)
(* typed: of the user of that name, if its own login was read.             *)
Promised(c, p) ==
    \E k \in DOMAIN offers :
        /\ offers[k].from = c /\ offers[k].port = p
        /\ offers[k].by \in Clients /\ offers[k].to = said[c].to
        /\ offers[k].known /\ Live(offers[k].by) => UserOf[offers[k].by] = said[c].to
Right(c, m) == m.type = "PRIVATE_MESSAGE" => Promised(c, m.number)

(* The one /msg c waits for has not been read by the server, or is being   *)
(* answered, or the answer has come.                                       *)
NotRead(c) ==
    /\ Absent(todo, RepliesSent(c)) /\ Absent(inbox[c], Replies(c)) /\ Once(requests[c], Private)
    /\ \A n \in DOMAIN requests[c] : requests[c][n] \in Private => requests[c][n] = said[c]
BeingAnswered(c) ==
    /\ Absent(requests[c], Private) /\ Absent(inbox[c], Replies(c)) /\ Once(todo, RepliesSent(c))
    /\ \A n \in DOMAIN todo : todo[n] \in RepliesSent(c) => Right(c, todo[n].msg)
Answered(c) ==
    /\ Absent(requests[c], Private) /\ Absent(todo, RepliesSent(c)) /\ Once(inbox[c], Replies(c))
    /\ \A n \in DOMAIN inbox[c] : inbox[c][n] \in Replies(c) => Right(c, inbox[c][n])
NothingAsked(c) ==
    Absent(requests[c], Private) /\ Absent(todo, RepliesSent(c)) /\ Absent(inbox[c], Replies(c))

InStep(c) ==
    Live(c) /\ c \notin crossed =>
        /\ IF pc[c] = "answer" THEN NotRead(c) \/ BeingAnswered(c) \/ Answered(c)
           ELSE NothingAsked(c)
        /\ pc[c] \in {"connect", "handshake"} => Promised(c, port[c])

Heard == Len(offers) <= PortSpace => InStepReachesAddressee
Base == Inv /\ Requests /\ Named
Steps == (\A c \in Clients : InStep(c)) /\ Heard

(* What is absent from a run of messages, or in it once, is so in the rest.*)
LEMMA TailHolds ==
  ASSUME NEW S, NEW s \in Seq(S), s # <<>>, NEW G
  PROVE  /\ Head(s) \in S /\ Tail(s) \in Seq(S)
         /\ 1 \in DOMAIN s /\ Head(s) = s[1]
         /\ \A n \in DOMAIN Tail(s) : n + 1 \in DOMAIN s /\ Tail(s)[n] = s[n + 1]
         /\ Absent(s, G) => Head(s) \notin G /\ Absent(Tail(s), G)
         /\ Once(s, G) => Once(Tail(s), G)
         /\ Once(s, G) /\ Head(s) \in G => Absent(Tail(s), G)
  <1>1. /\ Head(s) \in S /\ Tail(s) \in Seq(S) /\ 1 \in DOMAIN s /\ Head(s) = s[1]
        /\ DOMAIN s = 1..Len(s) /\ Len(s) \in Nat
        /\ \A n \in DOMAIN Tail(s) : n \in Nat \ {0} /\ n + 1 \in DOMAIN s /\ Tail(s)[n] = s[n + 1]
    OBVIOUS
  <1>2. Absent(s, G) => Head(s) \notin G /\ Absent(Tail(s), G) BY <1>1 DEF Absent
  <1>3. ASSUME Once(s, G), NEW n \in DOMAIN Tail(s), NEW k \in DOMAIN Tail(s),
               Tail(s)[n] \in G, Tail(s)[k] \in G
        PROVE  n = k
    <2>1. n + 1 = k + 1 BY <1>1, <1>3 DEF Once
    <2> QED BY <1>1, <2>1
  <1>4. ASSUME Once(s, G), Head(s) \in G, NEW n \in DOMAIN Tail(s), Tail(s)[n] \in G
        PROVE  FALSE
    <2>1. n + 1 = 1 BY <1>1, <1>4 DEF Once
    <2> QED BY <1>1, <2>1
  <1> QED BY <1>1, <1>2, <1>3, <1>4 DEF Once, Absent

(* What an addition brings to a run of messages.                           *)
LEMMA AppendHolds ==
  ASSUME NEW S, NEW s \in Seq(S), NEW e \in S, NEW G
  PROVE  /\ Append(s, e) \in Seq(S)
         /\ \A n \in DOMAIN Append(s, e) :
                (n \in DOMAIN s /\ Append(s, e)[n] = s[n]) \/ Append(s, e)[n] = e
         /\ Absent(s, G) => Once(Append(s, e), G)
         /\ e \notin G /\ Absent(s, G) => Absent(Append(s, e), G)
         /\ e \notin G /\ Once(s, G) => Once(Append(s, e), G)
  <1>1. /\ Append(s, e) \in Seq(S)
        /\ \A n \in DOMAIN Append(s, e) :
              \/ n \in DOMAIN s /\ Append(s, e)[n] = s[n]
              \/ n = Len(s) + 1 /\ Append(s, e)[n] = e
    OBVIOUS
  <1> QED BY <1>1 DEF Once, Absent

(* An empty run of messages holds nothing.                                 *)
LEMMA EmptyHolds ==
  ASSUME NEW G PROVE Absent(<<>>, G) /\ Once(<<>>, G)
  BY DEF Absent, Once

(* At first nobody has asked.                                              *)
LEMMA StepsInit == Init => Steps
  <1> SUFFICES ASSUME Init PROVE Steps OBVIOUS
  <1>1. ASSUME NEW c \in Clients
        PROVE  Absent(requests[c], Private)
    <2>1. PICK r : r = LoginOf(c) OBVIOUS
    <2>2. r \notin Private BY <2>1 DEF Private, LoginOf
    <2>3. CASE c \in waiting
      <3>1. requests[c] = <<r>> BY <2>1, <2>3 DEF Init
      <3> QED BY <2>2, <3>1 DEF Absent
    <2>4. CASE c \notin waiting BY <2>4 DEF Init, Absent
    <2> QED BY <2>3, <2>4
  <1>2. \A c \in Clients : InStep(c)
    BY <1>1, EmptyHolds DEF Init, InStep, NothingAsked
  <1>3. Heard BY DEF Init, Heard, InStepReachesAddressee
  <1> QED BY <1>2, <1>3 DEF Steps

(* No client comes back to life.                                           *)
NoneRises == \A d \in Clients : Live(d)' => Live(d)

(* A client whose thread, messages and names a step leaves alone.          *)
LEMMA UntouchedInStep ==
  ASSUME NEW c \in Clients, InStep(c), NoneRises,
         pc'[c] = pc[c], said'[c] = said[c], port'[c] = port[c],
         requests'[c] = requests[c], inbox'[c] = inbox[c],
         c \in crossed => c \in crossed', UNCHANGED <<todo, offers>>
  PROVE  InStep(c)'
  <1>1. \A p : Promised(c, p) => Promised(c, p)' BY DEF Promised, NoneRises
  <1>2. \A m : Right(c, m) => Right(c, m)' BY <1>1 DEF Right
  <1>3. NotRead(c) => NotRead(c)' BY DEF NotRead, Absent, Once
  <1>4. BeingAnswered(c) => BeingAnswered(c)' BY <1>2 DEF BeingAnswered, Absent, Once
  <1>5. Answered(c) => Answered(c)' BY <1>2 DEF Answered, Absent, Once
  <1>6. NothingAsked(c) => NothingAsked(c)' BY DEF NothingAsked, Absent
  <1>7. Live(c)' <=> Live(c) BY DEF Live
  <1> QED BY <1>1, <1>3, <1>4, <1>5, <1>6, <1>7 DEF InStep

(* A client that does not wait for an answer goes on to something else.    *)
LEMMA IdleInStep ==
  ASSUME NEW c \in Clients, InStep(c), Live(c), pc[c] # "answer",
         pc'[c] \notin {"answer", "connect", "handshake"},
         c \in crossed => c \in crossed', UNCHANGED todo,
         requests'[c] = requests[c] \/ (Absent(requests[c], Private) => Absent(requests'[c], Private)),
         inbox'[c] = inbox[c] \/ (Absent(inbox[c], Replies(c)) => Absent(inbox'[c], Replies(c)))
  PROVE  InStep(c)'
  <1> SUFFICES ASSUME c \notin crossed' PROVE NothingAsked(c)'
    BY DEF InStep
  <1>1. NothingAsked(c) BY DEF InStep
  <1> QED BY <1>1 DEF NothingAsked

(* A client that ends owes nothing any more.                               *)
LEMMA EndInStep ==
  ASSUME Base, NoneRises, \A d \in Clients : InStep(d), NEW c \in Clients, NEW how \in Ended,
         End(c, how)
  PROVE  \A d \in Clients : InStep(d)'
  <1>1. ~Live(c)' BY DEF End, Goto, Live, Base, Inv, TypeOK
  <1>2. ASSUME NEW d \in Clients, d # c PROVE InStep(d)'
    <2>1. /\ pc'[d] = pc[d] /\ said'[d] = said[d] /\ port'[d] = port[d]
          /\ requests'[d] = requests[d] /\ inbox'[d] = inbox[d] /\ crossed' = crossed
          /\ UNCHANGED <<todo, offers>>
      BY <1>2 DEF End, Goto, Forget, server, Base, Inv, TypeOK, Wires, Requests
    <2> QED BY <2>1, UntouchedInStep
  <1> QED BY <1>1, <1>2 DEF InStep

(* The other clients, when c steps.                                        *)
LEMMA OthersInStep ==
  ASSUME \A d \in Clients : InStep(d), NoneRises, NEW c \in Clients,
         \A d \in Clients : d # c =>
            /\ pc'[d] = pc[d] /\ said'[d] = said[d] /\ port'[d] = port[d]
            /\ requests'[d] = requests[d] /\ inbox'[d] = inbox[d]
            /\ (d \in crossed => d \in crossed'),
         UNCHANGED <<todo, offers>>, InStep(c)'
  PROVE  \A d \in Clients : InStep(d)'
  <1> SUFFICES ASSUME NEW d \in Clients, d # c PROVE InStep(d)' OBVIOUS
  <1> QED BY UntouchedInStep

-----------------------------------------------------------------------------
(* A typed line.                                                           *)
LEMMA TypeLineInStep ==
  ASSUME Base, Steps, NoneRises, NEW c \in Clients, TypeLine(c)
  PROVE  \A d \in Clients : InStep(d)'
  <1>1. PICK l \in Lines[c] : /\ Line(c, Effect(l)) /\ pc[c] = "select" /\ crossed' = crossed
                              /\ UNCHANGED <<todo, offers>>
    BY DEF TypeLine, Enter, server
  <1>2. Live(c) /\ InStep(c) /\ \A d \in Clients : InStep(d) BY <1>1 DEF Live, Ended, Steps
  <1>3. /\ requests \in [Clients -> Seq(Asked)] /\ requests[c] \in Seq(Asked)
        /\ said \in [Clients -> Asked \cup {NoOne}]
    BY DEF Base, Requests
  <1>4. CASE \E how \in Ended : End(c, how)
    BY <1>2, <1>4, EndInStep
  <1>5. CASE /\ Effect(l).does = "print"
             /\ pc' = [pc EXCEPT ![c] = IF SocketReady(c) THEN "message" ELSE "select"]
             /\ UNCHANGED <<ready, said, port, inbox, requests, meeting>>
    <2>1. pc'[c] \in {"message", "select"} /\ \A d \in Clients : d # c => pc'[d] = pc[d]
      BY <1>5 DEF Base, Inv, TypeOK
    <2>2. InStep(c)' BY <1>1, <1>2, <1>5, <2>1, IdleInStep
    <2> QED BY <1>1, <1>2, <1>5, <2>1, <2>2, OthersInStep
  <1>6. CASE /\ Effect(l).does \in {"send", "ask"}
             /\ requests' = [requests EXCEPT ![c] = Append(@, Effect(l).msg)]
             /\ UNCHANGED <<port, inbox>>
             /\ \/ /\ Effect(l).does = "send"
                   /\ pc' = [pc EXCEPT ![c] = IF SocketReady(c) THEN "message" ELSE "select"]
                   /\ UNCHANGED said
                \/ /\ Effect(l).does = "ask"
                   /\ pc' = [pc EXCEPT ![c] = "answer"]
                   /\ said' = [said EXCEPT ![c] = Effect(l).msg]
    <2>1. PICK m : m = Effect(l).msg OBVIOUS
    <2>2. m \in Asked BY <1>6, <2>1 DEF Asked
    <2>3. requests'[c] = Append(requests[c], m) BY <1>3, <1>6, <2>1
    <2>4. /\ requests'[c] \in Seq(Asked)
          /\ \A n \in DOMAIN requests'[c] :
                (n \in DOMAIN requests[c] /\ requests'[c][n] = requests[c][n]) \/ requests'[c][n] = m
          /\ Absent(requests[c], Private) => Once(requests'[c], Private)
          /\ m \notin Private /\ Absent(requests[c], Private) => Absent(requests'[c], Private)
      BY <1>3, <2>2, <2>3, AppendHolds
    <2>6. InStep(c)'
      <3>1. CASE Effect(l).does = "send"
        <4>1. m \notin Private BY <2>1, <3>1, WhatLinesSend DEF Private
        <4>2. pc'[c] \in {"message", "select"} BY <1>6, <3>1 DEF Base, Inv, TypeOK
        <4> QED BY <1>1, <1>2, <1>6, <2>4, <4>1, <4>2, IdleInStep
      <3>2. CASE Effect(l).does = "ask"
        <4> SUFFICES ASSUME c \notin crossed PROVE InStep(c)' BY <1>1 DEF InStep
        <4>1. NothingAsked(c) BY <1>1, <1>2 DEF InStep
        <4>2. pc'[c] = "answer" /\ UNCHANGED <<inbox, todo>>
          BY <1>1, <1>6, <3>2 DEF Base, Inv, TypeOK
        <4>3. \A n \in DOMAIN requests'[c] : requests'[c][n] \in Private => requests'[c][n] = m
          BY <2>4, <4>1 DEF NothingAsked, Absent
        <4>4. said'[c] = m
          BY <1>3, <1>6, <2>1, <3>2
        <4>5. NotRead(c)' BY <2>4, <4>1, <4>2, <4>3, <4>4 DEF NotRead, NothingAsked
        <4> QED BY <4>2, <4>5 DEF InStep
      <3> QED BY <1>6, <3>1, <3>2
    <2>7. \A d \in Clients : d # c =>
            /\ pc'[d] = pc[d] /\ said'[d] = said[d] /\ requests'[d] = requests[d]
      BY <1>3, <1>6 DEF Base, Inv, TypeOK
    <2> QED BY <1>1, <1>2, <1>6, <2>6, <2>7, OthersInStep
  <1> QED BY <1>1, <1>4, <1>5, <1>6 DEF Line, Ask, Goto, Ended, wires

(* The steps that change neither messages nor what a client waits for.     *)
LEMMA MovesInStep ==
  ASSUME Base, Steps, NoneRises, NEW c \in Clients,
         \/ SelectMessage(c) \/ Listen(c) \/ Accept(c) \/ ServletFails(c) \/ HandshakeFails(c)
         \/ Connect(c)
  PROVE  \A d \in Clients : InStep(d)'
  <1>1. /\ UNCHANGED <<requests, inbox, port, crossed, todo, offers>> /\ Live(c)
        /\ said' = said \/ said' = [said EXCEPT ![c] = NoOne]
    BY DEF SelectMessage, Listen, Accept, ServletFails, HandshakeFails, Connect, LeaveInput, Forget,
           server, wires, Live, Ended
  <1>2. \A d \in Clients : d # c => said'[d] = said[d]
    BY <1>1 DEF Base, Requests
  <1>3. /\ \A d \in Clients : d # c => pc'[d] = pc[d]
        /\ \/ pc[c] = "connect" /\ pc'[c] = "handshake" /\ said' = said
           \/ pc[c] # "answer" /\ pc'[c] \notin {"answer", "connect", "handshake"}
    BY DEF SelectMessage, Listen, Accept, ServletFails, HandshakeFails, Connect, LeaveInput, Goto,
           AfterInput, Base, Inv, TypeOK
  <1>4. InStep(c) /\ \A d \in Clients : InStep(d) BY DEF Steps
  <1>5. CASE pc[c] # "answer" /\ pc'[c] \notin {"answer", "connect", "handshake"}
    <2>1. InStep(c)' BY <1>1, <1>4, <1>5, IdleInStep
    <2> QED BY <1>1, <1>2, <1>3, <1>4, <2>1, OthersInStep
  <1>6. CASE pc[c] = "connect" /\ pc'[c] = "handshake" /\ said' = said
    <2>1. Promised(c, port[c]) => Promised(c, port[c])' BY <1>1, <1>6 DEF Promised, NoneRises
    <2>2. NothingAsked(c)' <=> NothingAsked(c) BY <1>1 DEF NothingAsked, Absent
    <2>3. InStep(c)' BY <1>1, <1>4, <1>6, <2>1, <2>2 DEF InStep
    <2> QED BY <1>1, <1>2, <1>3, <1>4, <2>3, OthersInStep
  <1> QED BY <1>3, <1>5, <1>6

(* A message that is printed, or that tells a port to listen on: it is no  *)
(* answer, because nothing was asked.                                      *)
LEMMA HandleMessageInStep ==
  ASSUME Base, Steps, NoneRises, NEW c \in Clients, HandleMessage(c)
  PROVE  \A d \in Clients : InStep(d)'
  <1>1. CASE End(c, "exited") BY <1>1, EndInStep DEF Steps, Ended
  <1>2. CASE /\ pc[c] = "message" /\ inbox[c] # <<>> /\ inbox' = [inbox EXCEPT ![c] = Tail(inbox[c])]
             /\ UNCHANGED <<requests, said, port, crossed, todo, offers>>
             /\ \E to \in {"bind", "select"} : pc' = [pc EXCEPT ![c] = to]
    <2>1. /\ pc'[c] \in {"bind", "select"} /\ \A d \in Clients : d # c => pc'[d] = pc[d]
          /\ Live(c)
      BY <1>2 DEF Base, Inv, TypeOK, Live, Ended
    <2>2. inbox[c] \in Seq(Messages) /\ inbox'[c] = Tail(inbox[c])
          /\ \A d \in Clients : d # c => inbox'[d] = inbox[d]
      BY <1>2 DEF Base, Inv, Wires
    <2>3. Absent(inbox[c], Replies(c)) => Absent(inbox'[c], Replies(c)) BY <1>2, <2>2, TailHolds
    <2>4. InStep(c) /\ \A d \in Clients : InStep(d) BY DEF Steps
    <2>5. InStep(c)' BY <1>2, <2>1, <2>3, <2>4, IdleInStep
    <2> QED BY <1>2, <2>1, <2>2, <2>4, <2>5, OthersInStep
  <1> QED BY <1>1, <1>2 DEF HandleMessage, Take, Goto, server

(* The answer to /msg, or a message taken for it.                          *)
LEMMA TakeAnswerInStep ==
  ASSUME Base, Steps, NoneRises, NEW c \in Clients, TakeAnswer(c)
  PROVE  \A d \in Clients : InStep(d)'
  <1>1. PICK m : /\ m = Head(inbox[c]) /\ pc[c] = "answer" /\ inbox[c] # <<>>
                 /\ inbox' = [inbox EXCEPT ![c] = Tail(inbox[c])]
                 /\ crossed' = IF IsAnswer(c, m) THEN crossed ELSE crossed \cup {c}
                 /\ UNCHANGED <<requests, todo, offers>>
                 /\ \/ /\ m.short /\ port' = [port EXCEPT ![c] = m.number]
                       /\ Goto(c, "connect") /\ UNCHANGED said
                    \/ /\ ~m.short /\ UNCHANGED port /\ Goto(c, AfterInput(c))
                       /\ said' = [said EXCEPT ![c] = NoOne]
    BY DEF TakeAnswer, Take, LeaveInput, Forget, server
  <1>2. /\ inbox[c] \in Seq(Messages) /\ inbox'[c] = Tail(inbox[c])
        /\ \A d \in Clients : d # c => inbox'[d] = inbox[d] /\ pc'[d] = pc[d] /\ port'[d] = port[d]
        /\ pc'[c] \in {"connect", "select", "message"}
    BY <1>1 DEF Base, Inv, Wires, TypeOK, Goto, AfterInput
  <1>3. \A d \in Clients : d # c => said'[d] = said[d]
    BY <1>1 DEF Base, Requests
  <1>4. \A d \in Clients : InStep(d) BY DEF Steps
  <1>5. InStep(c)'
    <2> SUFFICES ASSUME c \notin crossed' PROVE InStep(c)' BY DEF InStep
    <2>1. c \notin crossed /\ IsAnswer(c, m) BY <1>1
    <2>2. m \in Messages BY <1>1, <1>2, TailHolds
    <2>3. m \in Replies(c) BY <2>1, <2>2 DEF Replies
    <2>4. NotRead(c) \/ BeingAnswered(c) \/ Answered(c)
      BY <1>1, <1>4, <2>1 DEF InStep, Live, Ended
    <2>5. 1 \in DOMAIN inbox[c] /\ inbox[c][1] = m BY <1>1, <1>2, TailHolds
    <2>6. ~Absent(inbox[c], Replies(c)) BY <2>3, <2>5 DEF Absent
    <2>7. Answered(c) BY <2>4, <2>6 DEF NotRead, BeingAnswered
    <2>8. Right(c, m) BY <2>3, <2>5, <2>7 DEF Answered
    <2>9. Absent(inbox'[c], Replies(c)) BY <1>1, <1>2, <2>3, <2>7, TailHolds DEF Answered
    <2>10. NothingAsked(c)' BY <1>1, <2>7, <2>9 DEF Answered, NothingAsked
    <2>11. CASE pc'[c] = "connect"
      <3>1. m.short /\ port' = [port EXCEPT ![c] = m.number] /\ said' = said
        <4>1. AfterInput(c) # "connect" BY DEF AfterInput
        <4>2. pc' # [pc EXCEPT ![c] = AfterInput(c)] BY <2>11, <4>1 DEF Base, Inv, TypeOK
        <4> QED BY <1>1, <4>2 DEF Goto
      <3>2. m.type = "PRIVATE_MESSAGE"
        <4>1. Fits(c, m) BY <1>1, TakenMessage DEF Base
        <4> QED BY <2>1, <3>1, <4>1 DEF IsAnswer, Fits
      <3>3. Promised(c, m.number) BY <2>8, <3>2 DEF Right
      <3>4. port'[c] = m.number BY <3>1 DEF Base, Inv, TypeOK
      <3>5. Promised(c, port[c])' BY <1>1, <3>1, <3>3, <3>4 DEF Promised, NoneRises
      <3> QED BY <2>10, <2>11, <3>5 DEF InStep
    <2>12. CASE pc'[c] # "connect"
      BY <1>2, <2>10, <2>12 DEF InStep
    <2> QED BY <2>11, <2>12
  <1>6. \A d \in Clients : d # c => (d \in crossed => d \in crossed') BY <1>1
  <1> QED BY <1>1, <1>2, <1>3, <1>4, <1>5, <1>6, OthersInStep

(* The request taken for its own answer, or the end of the client.         *)
LEMMA TakeNoAnswerInStep ==
  ASSUME Base, Steps, NoneRises, NEW c \in Clients, TakeNoAnswer(c)
  PROVE  \A d \in Clients : InStep(d)'
  <1>1. CASE End(c, "exited") BY <1>1, EndInStep DEF Steps, Ended
  <1>2. CASE /\ crossed' = crossed \cup {c} /\ UNCHANGED <<meeting, server, wires>>
             /\ \/ /\ \E n : port' = [port EXCEPT ![c] = n]
                   /\ Goto(c, "connect") /\ UNCHANGED said
                \/ LeaveInput(c) /\ UNCHANGED port
    <2>1. InStep(c)' BY <1>2 DEF InStep
    <2>2. \A d \in Clients : d # c => pc'[d] = pc[d] /\ port'[d] = port[d] /\ said'[d] = said[d]
      BY <1>2 DEF LeaveInput, Goto, Forget, Base, Inv, TypeOK, Requests
    <2>3. UNCHANGED <<requests, inbox, todo, offers>> BY <1>2 DEF wires, server
    <2> QED BY <1>2, <2>1, <2>2, <2>3, OthersInStep DEF Steps
  <1> QED BY <1>1, <1>2 DEF TakeNoAnswer

(* Listener and caller part.                                               *)
LEMMA ExchangeInStep ==
  ASSUME Base, Steps, NoneRises, NEW c \in Clients, Exchange(c)
  PROVE  \A d \in Clients : InStep(d)'
  <1>1. PICK s : s = peer[c] /\ pc[s] = "handshake" /\ pc[c] = "servlet"
                 /\ pc' = [pc EXCEPT ![c] = "select", ![s] = AfterInput(s)]
                 /\ said' = [said EXCEPT ![s] = NoOne]
                 /\ UNCHANGED <<requests, inbox, port, crossed, todo, offers>>
    BY DEF Exchange, Forget, server, wires
  <1>2. s \in Clients /\ s # c /\ Live(s) /\ Live(c)
    BY <1>1 DEF Base, Inv, TypeOK, Calls, Live, Ended
  <1>3. /\ pc'[c] = "select" /\ pc'[s] \in {"select", "message"}
        /\ \A d \in Clients : d # c /\ d # s => pc'[d] = pc[d]
    BY <1>1, <1>2 DEF Base, Inv, TypeOK, AfterInput
  <1>4. \A d \in Clients : d # s => said'[d] = said[d]
    BY <1>1, <1>2 DEF Base, Requests
  <1>5. InStep(c)' /\ InStep(s)'
    BY <1>1, <1>2, <1>3, IdleInStep DEF Steps
  <1>6. ASSUME NEW d \in Clients, d # c, d # s PROVE InStep(d)'
    <2>1. InStep(d) BY DEF Steps
    <2> QED BY <1>1, <1>3, <1>4, <1>6, <2>1, UntouchedInStep
  <1> QED BY <1>5, <1>6

-----------------------------------------------------------------------------
(* A client step as a whole.                                               *)
LEMMA ClientInStep ==
  ASSUME Base, Steps, NoneRises, NEW c \in Clients, TypeLine(c) \/ Kill(c) \/ ClientRuns(c)
  PROVE  \A d \in Clients : InStep(d)'
  <1>1. CASE Kill(c) \/ ServerDisconnected(c) \/ ConnectFails(c) \/ ListenFails(c)
    <2>1. \E how \in Ended : End(c, how)
      BY <1>1 DEF Kill, ServerDisconnected, ConnectFails, ListenFails, Ended
    <2> QED BY <2>1, EndInStep DEF Steps
  <1> QED BY <1>1, TypeLineInStep, MovesInStep, HandleMessageInStep, TakeAnswerInStep,
             TakeNoAnswerInStep, ExchangeInStep DEF ClientRuns

(* A run of messages in which nothing new comes that matters.              *)
Less(t, s, G) ==
    /\ Absent(s, G) => Absent(t, G)
    /\ Once(s, G) => Once(t, G)
    /\ \A n \in DOMAIN t : t[n] \in G => \E k \in DOMAIN s : t[n] = s[k]

(* A run without such messages brings nothing new.                         *)
LEMMA LessOfAbsent ==
  ASSUME NEW t, NEW s, NEW G, Absent(t, G)
  PROVE  Less(t, s, G)
  BY DEF Less, Absent, Once

(* The same run.                                                           *)
LEMMA LessOfSame ==
  ASSUME NEW s, NEW G
  PROVE  Less(s, s, G)
  BY DEF Less

(* The rest of a run.                                                      *)
LEMMA LessOfTail ==
  ASSUME NEW S, NEW s \in Seq(S), s # <<>>, NEW G
  PROVE  Less(Tail(s), s, G)
  BY TailHolds DEF Less

(* A run with another message after it.                                    *)
LEMMA LessOfAppend ==
  ASSUME NEW S, NEW s \in Seq(S), NEW e \in S, NEW G, e \notin G
  PROVE  Less(Append(s, e), s, G)
  BY AppendHolds DEF Less

(* The server works on; to this client it brings nothing that matters.     *)
OffersStay == \A k \in DOMAIN offers : k \in DOMAIN offers' /\ offers'[k] = offers[k]

(* Such a step leaves a client in step where it was.                       *)
LEMMA LessInStep ==
  ASSUME NEW c \in Clients, InStep(c), OffersStay, UNCHANGED client,
         Less(requests'[c], requests[c], Private), Less(todo', todo, RepliesSent(c)),
         Less(inbox'[c], inbox[c], Replies(c))
  PROVE  InStep(c)'
  <1> USE DEF client
  <1>0. \A d : Live(d)' <=> Live(d) BY DEF Live
  <1>1. \A p : Promised(c, p) => Promised(c, p)' BY <1>0 DEF Promised, OffersStay
  <1>2. \A m : Right(c, m) => Right(c, m)' BY <1>1 DEF Right
  <1>3. NotRead(c) => NotRead(c)' BY DEF NotRead, Less
  <1>4. BeingAnswered(c) => BeingAnswered(c)' BY <1>2 DEF BeingAnswered, Less
  <1>5. Answered(c) => Answered(c)' BY <1>2 DEF Answered, Less
  <1>6. NothingAsked(c) => NothingAsked(c)' BY DEF NothingAsked, Less
  <1>7. Live(c)' <=> Live(c) BY DEF Live
  <1> QED BY <1>1, <1>3, <1>4, <1>5, <1>6, <1>7 DEF InStep

-----------------------------------------------------------------------------
(* Other messages answer no /msg.                                          *)
LEMMA NoReply ==
  ASSUME NEW s, NEW d, \A n \in DOMAIN s : s[n].msg.type \notin {"PRIVATE_MESSAGE", "USERNAME_ERROR"}
  PROVE  Absent(s, RepliesSent(d))
  BY DEF Absent, RepliesSent, Replies, IsAnswer

(* A step of the server that answers no /msg.                              *)
LEMMA QuietInStep ==
  ASSUME Base, Steps, UNCHANGED <<client, inbox, offers>>,
         \A d \in Clients : Less(requests'[d], requests[d], Private),
         \A d \in Clients : Less(todo', todo, RepliesSent(d))
  PROVE  OffersStay /\ \A d \in Clients : InStep(d)'
  <1>1. OffersStay BY DEF OffersStay
  <1>2. \A d \in Clients : Less(inbox'[d], inbox[d], Replies(d)) BY LessOfSame
  <1> QED BY <1>1, <1>2, LessInStep DEF Steps

(* The handlers but send_private_message.                                  *)
LEMMA HandlersReply ==
  ASSUME NEW i, NEW r, Handle(i, r), r.type # "PRIVATE_MESSAGE"
  PROVE  UNCHANGED offers /\ \A d \in Clients : Absent(todo', RepliesSent(d))
  <1> SUFFICES ASSUME NEW d \in Clients
               PROVE  UNCHANGED offers /\ Absent(todo', RepliesSent(d))
    BY DEF Handle, Login, SendUserList, SendPublicMessage, Reply
  <1>1. ASSUME NEW b, NEW type \in {"SUCCESS", "GET_USERS", "CREATE_GROUP", "JOIN_GROUP", "SEND_FILE"},
               NEW n, NEW short, NEW c, todo' = <<To(b, Message(type, n, short, c))>>
        PROVE  Absent(todo', RepliesSent(d))
    <2>1. To(b, Message(type, n, short, c)).msg.type = type BY DEF To, Message
    <2>2. \A k \in DOMAIN todo' : todo'[k] = To(b, Message(type, n, short, c)) BY <1>1
    <2> QED BY <2>1, <2>2, NoReply
  <1>2. CASE Login(i, r)
    <2>1. CASE todo' = <<Success(1, at[i])>> /\ UNCHANGED offers BY <1>1, <2>1 DEF Success
    <2>2. CASE todo' = <<Success(0, at[i]), HangUp(at[i])>> /\ UNCHANGED offers
      <3>1. PICK x, y : x = Success(0, at[i]) /\ y = HangUp(at[i]) OBVIOUS
      <3>2. x.msg.type = "SUCCESS" /\ y.msg.type = "HANG_UP"
        BY <3>1 DEF Success, HangUp, LongMessage, Message, To
      <3>3. \A k \in DOMAIN todo' : todo'[k] = x \/ todo'[k] = y BY <2>2, <3>1
      <3>4. \A k \in DOMAIN todo' : todo'[k].msg.type \notin {"PRIVATE_MESSAGE", "USERNAME_ERROR"}
        BY <3>2, <3>3
      <3> QED BY <2>2, <3>4, NoReply
    <2> QED BY <1>2, <2>1, <2>2 DEF Login
  <1>3. CASE SendUserList(i) BY <1>1, <1>3 DEF SendUserList
  <1>4. CASE SendPublicMessage(i, r)
    <2>1. \A n \in DOMAIN todo' : todo'[n].msg.type = "PUBLIC_MESSAGE"
      BY <1>4 DEF SendPublicMessage, SendEach, To, Message
    <2> QED BY <1>4, <2>1, NoReply DEF SendPublicMessage
  <1>5. CASE /\ r.type \in {"CREATE_GROUP", "JOIN_GROUP", "SEND_FILE", "RECEIVE_FILE"}
             /\ Reply(i, r)
    <2>1. CASE r.type = "RECEIVE_FILE" BY <1>5, <2>1, EmptyHolds DEF Reply
    <2>2. CASE r.type # "RECEIVE_FILE" BY <1>1, <1>5, <2>2 DEF Reply, LongMessage
    <2> QED BY <2>1, <2>2
  <1> QED BY <1>2, <1>3, <1>4, <1>5 DEF Handle

(* send_private_message: the one who asked is answered once, and right.    *)
LEMMA PairInStep ==
  ASSUME Base, Steps, NEW i \in Slots, NEW c \in Clients, at[i] = c,
         NEW r \in Asked \cup Leftovers, Pair(i, r), todo = <<>>, UNCHANGED <<client, inbox>>,
         \A d \in Clients : d # c => requests'[d] = requests[d],
         Live(c) => /\ r \in Private /\ requests[c] # <<>>
                    /\ r = Head(requests[c]) /\ requests'[c] = Tail(requests[c])
  PROVE  OffersStay /\ \A d \in Clients : InStep(d)'
  <1>0. \A d : Live(d)' <=> Live(d) BY DEF client, Live
  <1>1. PICK b \in Clients \cup {NoOne}, o \in Offers :
            /\ b # at[i] /\ offers' = Append(offers, o)
            /\ o.from = at[i] /\ o.by = b /\ o.to = r.to /\ o.port = ports
            /\ \/ /\ \E j \in Slots : at[j] = b /\ name[j] = r.to /\ (o.known <=> b \in online)
                  /\ b \in Clients
                  /\ todo' = Offer(at[i], b, Message("PRIVATE_MESSAGE", ports, TRUE, at[i]))
               \/ b = NoOne /\ todo' = NotOnline(at[i])
    BY PairOffers DEF Base
  <1>2. o.from = c /\ o.by = b /\ o.to = r.to /\ b # c /\ offers' = Append(offers, o) BY <1>1
  <1>3. b \in Clients /\ o.known /\ Live(b) => UserOf[b] = r.to
    BY <1>1, NoOneIsNoClient DEF Base, Named
  <1>4. PICK m : /\ m.answers = c
                 /\ \/ /\ b \in Clients /\ m.type = "PRIVATE_MESSAGE" /\ m.number = o.port
                       /\ todo' = <<To(b, m), To(c, m)>>
                    \/ m.type = "USERNAME_ERROR" /\ todo' = <<To(c, m)>>
    <2>1. CASE b \in Clients /\ todo' = Offer(c, b, Message("PRIVATE_MESSAGE", ports, TRUE, c))
      <3>1. PICK m : m = Message("PRIVATE_MESSAGE", ports, TRUE, c) OBVIOUS
      <3>2. m.answers = c /\ m.type = "PRIVATE_MESSAGE" /\ m.number = ports BY <3>1 DEF Message
      <3> QED BY <1>1, <2>1, <3>1, <3>2 DEF Offer
    <2>2. CASE todo' = NotOnline(c)
      <3>1. PICK m : m = LongMessage("USERNAME_ERROR", c) OBVIOUS
      <3>2. m.answers = c /\ m.type = "USERNAME_ERROR" BY <3>1 DEF LongMessage, Message
      <3> QED BY <2>2, <3>1, <3>2 DEF NotOnline
    <2> QED BY <1>1, <2>1, <2>2
  <1>5. offers \in Seq(Offers) BY DEF Base, Inv, Wires
  <1>6. /\ OffersStay /\ Len(offers) + 1 \in DOMAIN offers'
        /\ offers'[Len(offers) + 1] = o
    BY <1>2, <1>5 DEF OffersStay
  <1>7. /\ \A n \in DOMAIN todo' : todo'[n].msg = m
        /\ \A n, k \in DOMAIN todo' : todo'[n].to = c /\ todo'[k].to = c => n = k
    <2>1. CASE b # c /\ todo' = <<To(b, m), To(c, m)>>
      <3>1. PICK x, y : x = To(b, m) /\ y = To(c, m) OBVIOUS
      <3>2. x.msg = m /\ y.msg = m /\ x.to = b /\ y.to = c BY <3>1 DEF To
      <3>3. \A n \in DOMAIN todo' : n \in {1, 2} /\ todo'[1] = x /\ todo'[2] = y
        BY <2>1, <3>1
      <3> QED BY <2>1, <3>2, <3>3
    <2>2. CASE todo' = <<To(c, m)>>
      <3>1. PICK y : y = To(c, m) OBVIOUS
      <3>2. y.msg = m /\ y.to = c BY <3>1 DEF To
      <3>3. \A n \in DOMAIN todo' : n = 1 /\ todo'[1] = y BY <2>2, <3>1
      <3> QED BY <3>2, <3>3
    <2> QED BY <1>2, <1>4, <2>1, <2>2
  <1>8. ASSUME NEW d \in Clients, d # c PROVE InStep(d)'
    <2>1. Absent(todo', RepliesSent(d))
      BY <1>4, <1>7, <1>8 DEF Absent, RepliesSent, Replies, IsAnswer
    <2>2. Less(todo', todo, RepliesSent(d)) BY <2>1, LessOfAbsent
    <2>3. Less(inbox'[d], inbox[d], Replies(d)) BY LessOfSame
    <2>4. Less(requests'[d], requests[d], Private) BY <1>8, LessOfSame
    <2> QED BY <1>6, <2>2, <2>3, <2>4, LessInStep DEF Steps
  <1>9. InStep(c)'
    <2> SUFFICES ASSUME Live(c)', c \notin crossed' PROVE InStep(c)' BY DEF InStep
    <2>1. /\ Live(c) /\ c \notin crossed /\ pc'[c] = pc[c] /\ inbox' = inbox /\ said' = said
          /\ r \in Private /\ requests[c] # <<>> /\ r = Head(requests[c])
          /\ requests'[c] = Tail(requests[c]) /\ requests[c] \in Seq(Asked)
      BY <1>0 DEF client, Base, Requests
    <2>2. 1 \in DOMAIN requests[c] /\ r = requests[c][1] BY <2>1, TailHolds
    <2>3. ~Absent(requests[c], Private) BY <2>1, <2>2 DEF Absent
    <2>4. pc[c] = "answer" /\ NotRead(c)
      BY <2>1, <2>3 DEF Steps, InStep, NothingAsked, BeingAnswered, Answered
    <2>5. Absent(requests'[c], Private) BY <2>1, <2>4, TailHolds DEF NotRead
    <2>6. r = said[c] BY <2>1, <2>2, <2>4 DEF NotRead
    <2>7. Once(todo', RepliesSent(c)) BY <1>7 DEF Once, RepliesSent
    <2>8. m.type = "PRIVATE_MESSAGE" => Promised(c, m.number)'
      <3>1. ASSUME m.type = "PRIVATE_MESSAGE" PROVE b \in Clients /\ m.number = o.port
        BY <1>4, <3>1
      <3> QED BY <1>0, <1>2, <1>3, <1>6, <2>1, <2>6, <3>1 DEF Promised
    <2>9. BeingAnswered(c)' BY <1>7, <2>1, <2>4, <2>5, <2>7, <2>8 DEF BeingAnswered, NotRead, Right
    <2> QED BY <2>1, <2>4, <2>9 DEF InStep
  <1> QED BY <1>6, <1>8, <1>9

(* A request that is read and handled.                                     *)
LEMMA ServeInStep ==
  ASSUME Base, Steps, NEW i \in Slots, Serve(i)
  PROVE  OffersStay /\ \A d \in Clients : InStep(d)'
  <1>1. PICK c, r :
            /\ c \in Clients /\ c = at[i] /\ r = Head(requests[c]) /\ requests[c] # <<>> /\ todo = <<>>
            /\ requests' = [requests EXCEPT ![c] = Tail(requests[c])]
            /\ Handle(i, r) /\ UNCHANGED <<client, inbox>>
    BY DEF Serve, Base, Inv, TypeOK
  <1>2. /\ requests \in [Clients -> Seq(Asked)] /\ requests[c] \in Seq(Asked)
        /\ requests'[c] = Tail(requests[c]) /\ r \in Asked
        /\ \A d \in Clients : d # c => requests'[d] = requests[d]
    BY <1>1, TailHolds DEF Base, Requests
  <1>3. CASE r.type = "PRIVATE_MESSAGE"
    <2>1. Pair(i, r) /\ r \in Private BY <1>1, <1>2, <1>3 DEF Handle, Private
    <2> QED BY <1>1, <1>2, <2>1, PairInStep
  <1>4. CASE r.type # "PRIVATE_MESSAGE"
    <2>1. UNCHANGED offers /\ \A d \in Clients : Absent(todo', RepliesSent(d))
      BY <1>1, <1>4, HandlersReply
    <2>2. \A d \in Clients : Less(todo', todo, RepliesSent(d)) BY <2>1, LessOfAbsent
    <2>3. \A d \in Clients : Less(requests'[d], requests[d], Private)
      BY <1>1, <1>2, LessOfTail, LessOfSame
    <2> QED BY <1>1, <2>1, <2>2, <2>3, QuietInStep
  <1> QED BY <1>3, <1>4

(* A handler that runs for a client that has ended.                        *)
LEMMA HandleResetInStep ==
  ASSUME Base, Steps, NEW i \in Slots, HandleReset(i)
  PROVE  OffersStay /\ \A d \in Clients : InStep(d)'
  <1>1. PICK c \in Clients : /\ c = at[i] /\ ~Live(c) /\ todo = <<>>
                             /\ UNCHANGED <<client, inbox, requests>>
    BY DEF HandleReset, Base, Named, Inv, TypeOK
  <1>2. \A d \in Clients : Less(requests'[d], requests[d], Private) BY <1>1, LessOfSame
  <1>3. ASSUME NEW r \in Leftovers, Handle(i, r)
        PROVE  OffersStay /\ \A d \in Clients : InStep(d)'
    <2>1. CASE r.type = "PRIVATE_MESSAGE"
      <3>1. Pair(i, r) BY <1>3, <2>1 DEF Handle
      <3> QED BY <1>1, <1>3, <3>1, PairInStep
    <2>2. CASE r.type # "PRIVATE_MESSAGE"
      <3>1. UNCHANGED offers /\ \A d \in Clients : Absent(todo', RepliesSent(d))
        BY <1>3, <2>2, HandlersReply
      <3>2. \A d \in Clients : Less(todo', todo, RepliesSent(d)) BY <3>1, LessOfAbsent
      <3> QED BY <1>1, <1>2, <3>1, <3>2, QuietInStep
    <2> QED BY <2>1, <2>2
  <1>4. CASE UNCHANGED <<todo, offers>>
    <2>1. \A d \in Clients : Less(todo', todo, RepliesSent(d)) BY <1>4, LessOfSame
    <2> QED BY <1>1, <1>2, <1>4, <2>1, QuietInStep
  <1> QED BY <1>3, <1>4 DEF HandleReset

(* The rest of the server's steps.                                         *)
LEMMA OtherServerInStep ==
  ASSUME Base, Steps, DropSlot \/ (\E c \in Clients : Accepted(c)) \/ (\E i \in Slots : Disconnected(i))
  PROVE  OffersStay /\ \A d \in Clients : InStep(d)'
  <1>1. CASE DropSlot
    <2>1. PICK c : /\ requests' = [requests EXCEPT ![c] = <<>>] /\ todo' = Tail(todo) /\ todo # <<>>
                   /\ UNCHANGED <<client, inbox, offers>>
      BY <1>1 DEF DropSlot
    <2>2. \A d \in Clients : Less(requests'[d], requests[d], Private)
      <3>1. \A d \in Clients : requests'[d] = requests[d] \/ requests'[d] = <<>>
        BY <2>1 DEF Base, Requests
      <3> QED BY <3>1, LessOfSame, LessOfAbsent, EmptyHolds
    <2>3. todo \in Seq(Sendings) BY DEF Base, Inv, Wires
    <2>4. \A d \in Clients : Less(todo', todo, RepliesSent(d)) BY <2>1, <2>3, LessOfTail
    <2> QED BY <2>1, <2>2, <2>4, QuietInStep
  <1>2. CASE \E c \in Clients : Accepted(c)
    <2>1. UNCHANGED <<client, inbox, requests, todo, offers>> BY <1>2 DEF Accepted, wires
    <2> QED BY <2>1, LessOfSame, QuietInStep
  <1>3. CASE \E i \in Slots : Disconnected(i)
    <2>1. UNCHANGED <<client, inbox, requests, offers>> BY <1>3 DEF Disconnected, wires
    <2>2. \A n \in DOMAIN todo' : todo'[n].msg.type = "DISCONNECT"
      BY <1>3 DEF Disconnected, SendEach, To, Message
    <2>3. \A d \in Clients : Less(todo', todo, RepliesSent(d)) BY <2>2, NoReply, LessOfAbsent
    <2> QED BY <2>1, <2>3, LessOfSame, QuietInStep
  <1> QED BY <1>1, <1>2, <1>3

(* A message that is sent goes from the list of the server to the client.  *)
LEMMA DeliverInStep ==
  ASSUME Base, Steps, Deliver
  PROVE  OffersStay /\ \A d \in Clients : InStep(d)'
  <1>1. todo # <<>> /\ UNCHANGED <<client, requests, offers>> BY DEF Deliver
  <1>2. PICK c, m : c = Head(todo).to /\ m = Head(todo).msg OBVIOUS
  <1>3. /\ todo \in Seq(Sendings) /\ inbox \in [Clients -> Seq(Messages)]
        /\ Head(todo) \in Sendings /\ 1 \in DOMAIN todo /\ Head(todo) = todo[1]
    BY <1>1, TailHolds DEF Base, Inv, Wires
  <1>4. c \in Clients /\ m \in Messages BY <1>2, <1>3 DEF Sendings
  <1>5. OffersStay BY <1>1 DEF OffersStay
  <1>6. \A d \in Clients : /\ Less(requests'[d], requests[d], Private)
                           /\ Less(Tail(todo), todo, RepliesSent(d))
                           /\ Less(todo, todo, RepliesSent(d))
                           /\ Less(inbox[d], inbox[d], Replies(d))
    BY <1>1, <1>3, LessOfSame, LessOfTail
  <1>7. CASE todo' \in {todo, Tail(todo)} /\ UNCHANGED inbox
    BY <1>1, <1>5, <1>6, <1>7, LessInStep DEF Steps
  <1>8. CASE /\ inbox' = [inbox EXCEPT ![c] = Append(inbox[c], m)] /\ todo' = Tail(todo)
    <2>1. /\ inbox'[c] = Append(inbox[c], m) /\ inbox[c] \in Seq(Messages)
          /\ \A d \in Clients : d # c => inbox'[d] = inbox[d]
      BY <1>3, <1>4, <1>8
    <2>2. ASSUME NEW d \in Clients, d # c PROVE InStep(d)'
      BY <1>1, <1>5, <1>6, <1>8, <2>1, <2>2, LessInStep DEF Steps
    <2>3. CASE m \notin Replies(c)
      <3>1. Less(inbox'[c], inbox[c], Replies(c)) BY <1>4, <2>1, <2>3, LessOfAppend
      <3>2. InStep(c)' BY <1>1, <1>4, <1>5, <1>6, <1>8, <3>1, LessInStep DEF Steps
      <3> QED BY <1>5, <2>2, <3>2
    <2>4. CASE m \in Replies(c)
      <3>1. ASSUME Live(c)', c \notin crossed' PROVE InStep(c)'
        <4>1. Live(c) /\ c \notin crossed /\ pc'[c] = pc[c] /\ said' = said
          BY <1>1, <3>1 DEF client, Live
        <4>2. Head(todo) \in RepliesSent(c) BY <1>2, <1>3, <2>4 DEF RepliesSent
        <4>3. ~Absent(todo, RepliesSent(c)) BY <1>3, <4>2 DEF Absent
        <4>4. pc[c] = "answer" /\ BeingAnswered(c)
          BY <1>4, <4>1, <4>3 DEF Steps, InStep, NothingAsked, NotRead, Answered
        <4>5. Absent(todo', RepliesSent(c)) BY <1>1, <1>3, <1>8, <4>2, <4>4, TailHolds DEF BeingAnswered
        <4>6. /\ Once(inbox'[c], Replies(c))
              /\ \A n \in DOMAIN inbox'[c] :
                    (n \in DOMAIN inbox[c] /\ inbox'[c][n] = inbox[c][n]) \/ inbox'[c][n] = m
          BY <1>4, <2>1, <4>4, AppendHolds DEF BeingAnswered
        <4>7. \A n \in DOMAIN inbox'[c] : inbox'[c][n] \in Replies(c) => inbox'[c][n] = m
          BY <4>4, <4>6 DEF BeingAnswered, Absent
        <4>8. Right(c, m) BY <1>2, <1>3, <4>2, <4>4 DEF BeingAnswered
        <4>9. Right(c, m)' BY <1>1, <4>1, <4>8 DEF Right, Promised, client, Live
        <4>10. Answered(c)'
          BY <1>1, <4>4, <4>5, <4>6, <4>7, <4>9 DEF Answered, BeingAnswered
        <4> QED BY <4>1, <4>4, <4>10 DEF InStep
      <3>2. InStep(c)' BY <3>1 DEF InStep
      <3> QED BY <1>5, <2>2, <3>2
    <2> QED BY <2>3, <2>4
  <1> QED BY <1>2, <1>7, <1>8 DEF Deliver

-----------------------------------------------------------------------------
(* The texts shown.                                                        *)

(* The port a caller in step was promised is the one it meets a listener   *)
(* on, and the listener is the one it was promised.                        *)
LEMMA PromisedMeets ==
  ASSUME Base, Len(offers) <= PortSpace, NEW c \in Clients, NEW s \in Clients,
         pc[s] = "handshake", pc[c] = "servlet", peer[c] = s, Promised(s, port[s])
  PROVE  \E k \in DOMAIN offers :
            /\ offers[k].from = s /\ offers[k].by = c
            /\ offers[k].port = port[s] /\ offers[k].to = said[s].to
            /\ offers[k].known => UserOf[c] = said[s].to
  <1>1. s # c /\ Live(s) /\ Live(c) /\ Calling(s, c) BY DEF Live, Ended, Calling
  <1>2. listens[c] # NoPort /\ TcpPort(port[s]) = TcpPort(listens[c])
    BY <1>1 DEF Base, Inv, Calls, TypeOK
  <1>3. PICK k \in DOMAIN offers :
          /\ c \in Ends(offers[k])
          /\ \A j \in DOMAIN offers : port[s] = offers[j].port => j = k
    BY <1>2, ListenerIsAnEnd DEF Base
  <1>4. PICK j \in DOMAIN offers :
          /\ offers[j].from = s /\ offers[j].port = port[s] /\ offers[j].to = said[s].to
          /\ offers[j].known /\ Live(offers[j].by) => UserOf[offers[j].by] = said[s].to
    BY DEF Promised
  <1>5. j = k BY <1>3, <1>4
  <1>6. offers[j].by = c BY <1>1, <1>3, <1>4, <1>5 DEF Ends
  <1> QED BY <1>1, <1>4, <1>6

(* A text shown by a client is that of a caller that waits for it.         *)
LEMMA ExchangeHeard ==
  ASSUME Base, Steps, NEW c \in Clients, Exchange(c)
  PROVE  Heard'
  <1>1. PICK s : /\ s = peer[c] /\ pc[s] = "handshake" /\ pc[c] = "servlet"
                 /\ shown' = shown \cup {[from |-> s, by |-> c, to |-> said[s].to, port |-> port[s],
                                          told |-> s \in told, inStep |-> s \notin crossed]}
                 /\ UNCHANGED offers
    BY DEF Exchange, server
  <1>2. s \in Clients /\ Live(s) BY <1>1 DEF Base, Inv, TypeOK, Calls, Live, Ended
  <1>3. ASSUME Len(offers) <= PortSpace, s \notin crossed
        PROVE  \E k \in DOMAIN offers :
                  /\ offers[k].from = s /\ offers[k].by = c
                  /\ offers[k].port = port[s] /\ offers[k].to = said[s].to
                  /\ offers[k].known => UserOf[c] = said[s].to
    <2>1. Promised(s, port[s]) BY <1>1, <1>2, <1>3 DEF Steps, InStep
    <2> QED BY <1>1, <1>2, <1>3, <2>1, PromisedMeets
  <1>4. ASSUME Len(offers) <= PortSpace, NEW x \in shown', x.inStep
        PROVE  \E k \in DOMAIN offers :
                  /\ x.from = offers[k].from /\ x.by = offers[k].by
                  /\ x.port = offers[k].port /\ x.to = offers[k].to
                  /\ offers[k].known => UserOf[x.by] = x.to
    <2>1. CASE x \in shown BY <1>4, <2>1 DEF Steps, Heard, InStepReachesAddressee
    <2>2. CASE x = [from |-> s, by |-> c, to |-> said[s].to, port |-> port[s],
                    told |-> s \in told, inStep |-> s \notin crossed]
      <3>1. x.from = s /\ x.by = c /\ x.to = said[s].to /\ x.port = port[s]
            /\ (x.inStep => s \notin crossed)
        BY <2>2
      <3> QED BY <1>3, <1>4, <3>1
    <2> QED BY <1>1, <1>4, <2>1, <2>2
  <1> QED BY <1>1, <1>4 DEF Heard, InStepReachesAddressee

(* Every other step leaves the texts as they are, and the offers.          *)
LEMMA SilentHeard ==
  ASSUME Base, Steps, UNCHANGED shown, OffersStay,
         offers' = offers \/ \E e : offers' = Append(offers, e)
  PROVE  Heard'
  <1>1. offers \in Seq(Offers) BY DEF Base, Inv, Wires
  <1>2. PICK n \in Nat : n = Len(offers) BY <1>1
  <1>3. Len(offers') = n \/ Len(offers') = n + 1 BY <1>1, <1>2
  <1>4. Len(offers') <= PortSpace => Len(offers) <= PortSpace
    BY <1>2, <1>3, ClientNumbers
  <1> QED BY <1>4 DEF Steps, Heard, InStepReachesAddressee, OffersStay

(* Of the steps of a client only the exchange shows a text.                *)
LEMMA ClientHeard ==
  ASSUME Base, Steps, NEW c \in Clients, TypeLine(c) \/ Kill(c) \/ ClientRuns(c)
  PROVE  Heard'
  <1>1. CASE Exchange(c) BY <1>1, ExchangeHeard
  <1>2. CASE UNCHANGED <<shown, offers>> BY <1>2, SilentHeard DEF OffersStay
  <1>3. ASSUME NEW how \in Ended, End(c, how) PROVE UNCHANGED <<shown, offers>>
    BY <1>3 DEF End, server
  <1>4. TypeLine(c) => UNCHANGED <<shown, offers>>
    BY <1>3 DEF TypeLine, Enter, Line, Ask, server, meeting, Ended
  <1>5. Kill(c) \/ ServerDisconnected(c) \/ ConnectFails(c) \/ ListenFails(c)
           => UNCHANGED <<shown, offers>>
    BY <1>3 DEF Kill, ServerDisconnected, ConnectFails, ListenFails, Ended
  <1>6. SelectMessage(c) \/ HandleMessage(c) \/ TakeAnswer(c) \/ TakeNoAnswer(c)
           => UNCHANGED <<shown, offers>>
    BY <1>3 DEF SelectMessage, HandleMessage, TakeAnswer, TakeNoAnswer, server, meeting, Ended
  <1>7. Connect(c) \/ HandshakeFails(c) \/ Listen(c) \/ Accept(c) \/ ServletFails(c)
           => UNCHANGED <<shown, offers>>
    BY DEF Connect, HandshakeFails, Listen, Accept, ServletFails, server, meeting
  <1> QED BY <1>1, <1>2, <1>4, <1>5, <1>6, <1>7 DEF ClientRuns

(* The server shows no text, and hands out ports without taking one back.  *)
LEMMA ServerHeard ==
  ASSUME Base, Steps, ServerRuns, OffersStay
  PROVE  Heard'
  <1>1. UNCHANGED shown
    BY DEF ServerRuns, Serve, HandleReset, Accepted, Disconnected, Deliver, DropSlot, meeting
  <1>2. \A i, r : Handle(i, r) => offers' = offers \/ \E e : offers' = Append(offers, e)
    BY DEF Handle, Login, Pair, SendUserList, SendPublicMessage, Reply
  <1>3. offers' = offers \/ \E e : offers' = Append(offers, e)
    BY <1>2 DEF ServerRuns, Serve, HandleReset, Accepted, Disconnected, Deliver, DropSlot
  <1> QED BY <1>1, <1>3, SilentHeard

(* Every step keeps what a client in step rests on.                        *)
LEMMA StepsNext == Base /\ Steps /\ [Next]_vars => Steps'
  <1> SUFFICES ASSUME Base, Steps, [Next]_vars PROVE Steps' OBVIOUS
  <1>1. ASSUME NEW c \in Clients, TypeLine(c) \/ Kill(c) \/ ClientRuns(c) PROVE Steps'
    <2>1. NoneRises BY <1>1, LiveStays DEF NoneRises, Next, Base
    <2> QED BY <1>1, <2>1, ClientInStep, ClientHeard DEF Steps
  <1>2. CASE ServerRuns
    <2>1. OffersStay /\ \A d \in Clients : InStep(d)'
      BY <1>2, ServeInStep, HandleResetInStep, DeliverInStep, OtherServerInStep DEF ServerRuns
    <2> QED BY <1>2, <2>1, ServerHeard DEF Steps
  <1>3. CASE UNCHANGED vars
    <2> USE DEF vars, client, meeting, server, wires
    <2>1. OffersStay /\ NoneRises BY <1>3 DEF OffersStay, NoneRises, Live
    <2>2. Heard' BY <1>3, <2>1, SilentHeard
    <2>3. ASSUME NEW c \in Clients PROVE InStep(c)'
      <3>1. InStep(c) BY DEF Steps
      <3> QED BY <1>3, <2>1, <3>1, UntouchedInStep
    <2> QED BY <2>2, <2>3 DEF Steps
  <1> QED BY <1>1, <1>2, <1>3 DEF Next

(* A client that never took another message for the answer of the server   *)
(* (client.c:440) is heard only by the client the server picked for it,    *)
(* which is the user whose name it typed if that client's login was read   *)
(* (server.c:108, 536), whatever the others mistake and whoever stops, as  *)
(* long as PORTS has not gone round the 16 bits of a port.                 *)
THEOREM InStepReachesAddresseeHolds ==
  Spec => [](Len(offers) <= PortSpace => InStepReachesAddressee)
  <1>1. Steps => (Len(offers) <= PortSpace => InStepReachesAddressee) BY DEF Steps, Heard
  <1>2. Init => Base BY InvInit, RequestsInit, NamedInit DEF Base
  <1>3. Base /\ [Next]_vars => Base' BY InvNext, RequestsNext, NamedNext DEF Base
  <1> QED BY <1>1, <1>2, <1>3, StepsInit, StepsNext, PTL DEF Spec
=============================================================================
