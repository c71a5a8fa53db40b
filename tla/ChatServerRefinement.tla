------------------------ MODULE ChatServerRefinement -------------------------
(***************************************************************************)
(* The chat server implements RoomAdmission, for every number of slots,    *)
(* descriptors and clients: a step of the server, of its kernel or of a    *)
(* client gives one seat, takes one back, refuses or queues one caller, or *)
(* leaves the room as it is.                                               *)
(***************************************************************************)
EXTENDS ChatServerProofs

(* Nothing happens in the room as long as the slots and the queue stay as  *)
(* they are, with the same processes behind them, and nobody calls.        *)
LEMMA RoomStutters ==
    ASSUME UNCHANGED <<socket, backlog>>,
           \A i \in Occupied : Peer(i)' = Peer(i),
           \A c \in Procs : conn'[c] = "off" <=> conn[c] = "off"
    PROVE  UNCHANGED <<Seat, Queue, Outside>>
<1>1. Occupied' = Occupied
    BY DEF Occupied
<1>2. \A c : Waiting(c)' <=> Waiting(c)
    BY DEF Waiting
<1>3. Seat' = Seat
    BY <1>1 DEF Seat, Occupied
<1>4. Queue' = Queue
    BY <1>2 DEF Queue
<1>5. Outside' = Outside
    BY <1>1, <1>2 DEF Outside
<1> QED BY <1>3, <1>4, <1>5

(* The room opens empty.                                                   *)
LEMMA RoomOpensEmpty == Init => Room!RoomInit
BY DEF Init, Room!RoomInit, Seat, Queue, Outside, Waiting, Occupied

(* A process gives its slot back: its seat is free, it is outside.         *)
LEMMA SeatGivenUp ==
    ASSUME Inv, NEW s \in Occupied, HangUp(socket[s]),
           socket' = [socket EXCEPT ![s] = 0], UNCHANGED backlog
    PROVE  Room!GiveUpSeat(s)
<1> DEFINE d == socket[s]
           p == fds[d]
<1>1. d \in Fds /\ p \in Procs /\ s \in Slots /\ d # 0
    BY DEF Inv, TypeOK, SlotTable, SlotsHoldConnections, Occupied, Peer
<1>2. /\ fds'[d] = Free /\ \A e \in Fds : e # d => fds'[e] = fds[e]
      /\ \A c \in Procs : c # p => conn'[c] = conn[c]
      /\ \A c \in Procs : conn'[c] = "off" => conn[c] = "off"
    BY <1>1, HangUpEffect DEF Inv, SlotTable
<1>3. \A j \in Slots : socket'[j] = IF j = s THEN 0 ELSE socket[j]
    BY DEF Inv, TypeOK
<1>4. \A j \in Occupied : socket[j] \in Fds /\ (j # s => socket[j] # d /\ fds[socket[j]] # p)
    BY <1>1 DEF Inv, TypeOK, SlotTable, SlotsHoldConnections, OneDescriptorEach, Occupied
<1>5. Occupied' = Occupied \ {s} /\ \A j \in Occupied' : Peer(j)' = Peer(j) /\ Peer(j) # p
    BY <1>2, <1>3, <1>4 DEF Occupied, Peer
<1>6. conn[p] # "off" /\ conn'[p] # "off" /\ ~Waiting(p)
    BY <1>1, <1>2 DEF Inv, CallersHaveCalled, SlotTable, QueuedOnce, Holds, Waiting
<1>7. Seat[s] = p /\ Seat[s] # Free
    BY <1>1, MarksAreApart DEF Seat, Peer
<1>8. Seat' = [Seat EXCEPT ![s] = Free]
  <2>1. \A j \in Slots : Seat'[j] = IF j = s THEN Free ELSE Seat[j]
      BY <1>3, <1>5 DEF Seat, Occupied
  <2> QED BY <2>1 DEF Seat
<1>9. \A c : Waiting(c)' <=> Waiting(c)
    BY DEF Waiting
<1>10. Queue' = Queue
    BY <1>9 DEF Queue
<1>11. Outside' = Outside \cup {p}
  <2>1. p \in Outside'
      BY <1>1, <1>5, <1>6, <1>9 DEF Outside
  <2>2. ASSUME NEW c \in Procs, c # p PROVE c \in Outside' <=> c \in Outside
    <3>1. conn'[c] = conn[c]
        BY <1>2, <2>2
    <3>2. (\A j \in Occupied' : Peer(j)' # c) <=> (\A j \in Occupied : Peer(j) # c)
        BY <1>5, <2>2 DEF Peer
    <3> QED BY <1>9, <3>1, <3>2 DEF Outside
  <2>3. Outside \subseteq Procs /\ Outside' \subseteq Procs
      BY DEF Outside
  <2> QED BY <1>1, <2>1, <2>2, <2>3
<1> QED BY <1>7, <1>8, <1>10, <1>11 DEF Room!GiveUpSeat

(* handle_new_connection: the head of the queue gets the first free slot,  *)
(* or none is free and it is turned away.                                  *)
LEMMA CallTaken ==
    ASSUME Inv, Accept
    PROVE  Room!RoomNext
<1>1. backlog # <<>> /\ backlog' = Tail(backlog) /\ conn' = conn
    BY DEF Accept, Inv, Stages
<1>2. backlog \in Seq(Procs)
    BY DEF Inv, TypeOK
<1>0. PICK p \in Procs : p = Head(backlog) /\ p = backlog[1]
    BY <1>1, <1>2, HeadAndTail
<1>3. /\ p = backlog[1] /\ 1 \in DOMAIN backlog
      /\ \A n \in DOMAIN backlog' :
            n \in Nat /\ n + 1 \in DOMAIN backlog /\ backlog'[n] = backlog[n + 1]
      /\ \A n \in DOMAIN backlog : n # 1 => n - 1 \in DOMAIN backlog' /\ backlog[n] = backlog'[n - 1]
    BY <1>0, <1>1, <1>2, HeadAndTail
<1>4. \A n \in DOMAIN backlog : backlog[n] = p => n = 1
    BY <1>3 DEF Inv, SlotTable, QueuedOnce
<1>5. /\ Waiting(p) /\ ~Waiting(p)'
      /\ \A c \in Procs : c # p => (Waiting(c)' <=> Waiting(c))
  <2>1. Waiting(p)
      BY <1>3 DEF Waiting
  <2>2. ~Waiting(p)'
    <3> SUFFICES ASSUME NEW n \in DOMAIN backlog', backlog'[n] = p PROVE FALSE
        BY DEF Waiting
    <3>1. n \in Nat /\ n + 1 \in DOMAIN backlog /\ backlog[n + 1] = p
        BY <1>3
    <3>2. n + 1 = 1
        BY <1>4, <3>1
    <3>3. n = 0 /\ DOMAIN backlog' = 1..Len(backlog')
        BY <1>1, <1>2, <3>1, <3>2
    <3> QED BY <3>3
  <2>3. ASSUME NEW c \in Procs, c # p PROVE Waiting(c)' <=> Waiting(c)
      BY <1>3, <2>3 DEF Waiting
  <2> QED BY <2>1, <2>2, <2>3
<1>6. Queue' = Queue \ {p} /\ p \in Queue
    BY <1>3, <1>5 DEF Queue
<1>7. conn[p] # "off" /\ \A e \in Fds : fds[e] # p
    BY <1>3 DEF Inv, CallersHaveCalled, SlotTable, QueuedOnce, Holds
<1>8. PICK d \in Fds :
        /\ IsLowest(d, FreeFds)
        /\ fds' = [fds EXCEPT ![d] = p]
        /\ \/ \E i \in Slots : IsLowest(i, Slots \ Occupied) /\ socket' = [socket EXCEPT ![i] = d]
           \/ IsFull /\ UNCHANGED socket
    BY <1>0 DEF Accept
<1>9. fds[d] = Free /\ fds'[d] = p /\ \A e \in Fds : e # d => fds'[e] = fds[e]
    BY <1>8 DEF IsLowest, FreeFds, Inv, TypeOK
<1>10. \A j \in Occupied : socket[j] \in Fds /\ socket[j] # d /\ Peer(j) \in Procs /\ Peer(j) # p
    BY <1>7, <1>9, MarksAreApart DEF Inv, TypeOK, SlotTable, SlotsHoldConnections, Occupied, Peer
<1>11. ASSUME NEW i \in Slots, IsLowest(i, Slots \ Occupied), socket' = [socket EXCEPT ![i] = d]
       PROVE  Room!TakeSeat(p, i)
  <2>1. i \in Slots /\ socket[i] = 0 /\ d # 0
      BY <1>11 DEF IsLowest, Occupied, Fds
  <2>2. \A j \in Slots : socket'[j] = IF j = i THEN d ELSE socket[j]
      BY <1>11 DEF Inv, TypeOK
  <2>3. /\ Occupied' = Occupied \cup {i} /\ Peer(i)' = p
        /\ \A j \in Occupied : Peer(j)' = Peer(j)
      BY <1>9, <1>10, <2>1, <2>2 DEF Occupied, Peer
  <2>4. Seat[i] = Free /\ Seat' = [Seat EXCEPT ![i] = p]
    <3>1. \A j \in Slots : Seat'[j] = IF j = i THEN p ELSE Seat[j]
        BY <2>1, <2>2, <2>3 DEF Seat, Occupied
    <3> QED BY <2>1, <3>1 DEF Seat
  <2>5. Outside' = Outside
    <3>1. p \notin Outside /\ p \notin Outside'
        BY <1>5, <2>3 DEF Outside
    <3>2. ASSUME NEW c \in Procs, c # p PROVE c \in Outside' <=> c \in Outside
      <4>1. (\A j \in Occupied' : Peer(j)' # c) <=> (\A j \in Occupied : Peer(j) # c)
          BY <2>3, <3>2
      <4> QED BY <1>1, <1>5, <3>2, <4>1 DEF Outside
    <3>3. Outside \subseteq Procs /\ Outside' \subseteq Procs
        BY DEF Outside
    <3> QED BY <3>1, <3>2, <3>3
  <2> QED BY <1>6, <2>4, <2>5 DEF Room!TakeSeat
<1>12. ASSUME IsFull, UNCHANGED socket PROVE Room!TurnAway(p)
  <2>1. Occupied' = Occupied /\ \A j \in Occupied : Peer(j)' = Peer(j)
      BY <1>9, <1>10, <1>12 DEF Occupied, Peer
  <2>2. Seat' = Seat /\ \A j \in Slots : Seat[j] # Free
      BY <1>10, <1>12, <2>1, MarksAreApart DEF Seat, IsFull, Occupied
  <2>3. Outside' = Outside \cup {p}
    <3>1. p \in Outside'
        BY <1>1, <1>3, <1>5, <1>7, <1>10, <2>1 DEF Outside
    <3>2. ASSUME NEW c \in Procs, c # p PROVE c \in Outside' <=> c \in Outside
      <4>1. (\A j \in Occupied' : Peer(j)' # c) <=> (\A j \in Occupied : Peer(j) # c)
          BY <2>1
      <4> QED BY <1>1, <1>5, <3>2, <4>1 DEF Outside
    <3>3. Outside \subseteq Procs /\ Outside' \subseteq Procs
        BY DEF Outside
    <3> QED BY <3>1, <3>2, <3>3
  <2> QED BY <1>6, <2>2, <2>3 DEF Room!TurnAway
<1> QED BY <1>3, <1>8, <1>11, <1>12 DEF Room!RoomNext

(* A new connection is a caller at the door.                               *)
LEMMA CallMade ==
    ASSUME Inv, NEW c \in Procs, ClientConnect(c)
    PROVE  Room!Call(c)
<1>1. /\ conn[c] = "off" /\ conn' = [conn EXCEPT ![c] = "up"]
      /\ backlog' = Append(backlog, c) /\ UNCHANGED <<socket, fds>>
    BY DEF ClientConnect, server
<1>2. backlog \in Seq(Procs) /\ conn'[c] = "up" /\ \A d \in Procs : d # c => conn'[d] = conn[d]
    BY <1>1 DEF Inv, TypeOK
<1>3. /\ \A n \in DOMAIN backlog : n \in DOMAIN backlog' /\ backlog'[n] = backlog[n]
      /\ \A n \in DOMAIN backlog' :
            (n \in DOMAIN backlog /\ backlog'[n] = backlog[n]) \/ backlog'[n] = c
    BY <1>1, <1>2, Appended
<1>4. Len(backlog) + 1 \in DOMAIN backlog' /\ backlog'[Len(backlog) + 1] = c
    BY <1>1, <1>2
<1>5. ~Waiting(c) /\ \A i \in Occupied : Peer(i) # c
    BY <1>1 DEF Inv, TypeOK, CallersHaveCalled, SlotTable, SlotsHoldConnections, Waiting,
        Occupied, Peer
<1>6. Waiting(c)' /\ \A d \in Procs : d # c => (Waiting(d)' <=> Waiting(d))
    BY <1>3, <1>4 DEF Waiting
<1>7. Occupied' = Occupied /\ \A i \in Occupied : Peer(i)' = Peer(i)
    BY <1>1 DEF Occupied, Peer
<1>8. Seat' = Seat
    BY <1>1, <1>7 DEF Seat, Occupied
<1>9. Queue' = Queue \cup {c} /\ c \notin Queue
    BY <1>5, <1>6 DEF Queue
<1>10. Outside' = Outside /\ c \notin Outside
    BY <1>1, <1>2, <1>6, <1>7 DEF Outside
<1>11. \A s \in Slots : Seat[s] # c
    BY <1>5, MarksAreApart DEF Seat, Occupied
<1> QED BY <1>8, <1>9, <1>10, <1>11 DEF Room!Call, Room!Seated

(* What becomes of the slots when a handler has run: nothing.              *)
LEMMA HandlerInTheRoom ==
    ASSUME Inv, NEW i \in Slots, HandleRequest(i) \/ HandleReset(i)
    PROVE  UNCHANGED <<Seat, Queue, Outside>>
<1>1. /\ pc = "scan" /\ todo = <<>> /\ i \in Occupied
      /\ UNCHANGED <<socket, backlog>>
    BY DEF HandleRequest, HandleReset, NextDue, IsLowest, Due, Occupied
<1>2. SlotsHoldConnections /\ TypeOK
    BY DEF Inv, SlotTable
<1>3. Peer(i) \in Procs
    BY <1>1, <1>2 DEF SlotsHoldConnections
<1>4. HandlerEffect
  <2>1. CASE HandleRequest(i)
    <3>1. Head(inbox[Peer(i)]) \in Request
        BY <1>2, <1>3, <2>1, HeadAndTail DEF HandleRequest, TypeOK
    <3> QED BY <1>1, <1>2, <2>1, <3>1, DispatchEffect DEF HandleRequest
  <2>2. CASE HandleReset(i)
    <3>1. [type |-> "UNKNOWN"] \in Request
        BY DEF Request, CommandMsg
    <3>2. PICK m \in Request : Dispatch(i, m)
        BY <2>2, <3>1, RequestsAreTyped DEF HandleReset, Request
    <3> QED BY <1>1, <1>2, <3>2, DispatchEffect
  <2> QED BY <2>1, <2>2
<1>5. \A j \in Occupied : Peer(j)' = Peer(j)
    BY <1>1, <1>2, <1>4, MarksAreApart
    DEF HandlerEffect, TypeOK, SlotsHoldConnections, Occupied, Peer
<1>6. \A c \in Procs : conn'[c] = "off" <=> conn[c] = "off"
    BY <1>2, <1>3 DEF HandleRequest, HandleReset, TypeOK
<1> QED BY <1>1, <1>5, <1>6, RoomStutters

(* Every step of the system is a step of the room, or none.                *)
LEMMA StepInTheRoom ==
    ASSUME Inv, [Next]_vars
    PROVE  [Room!RoomNext]_<<Seat, Queue, Outside>>
<1>1. CASE Accept
    BY <1>1, CallTaken
<1>2. CASE \/ Select \/ Quit \/ AcceptFails \/ EndPass \/ SendFails \/ UNCHANGED vars
  <2>1. UNCHANGED <<socket, fds, backlog, conn>>
      BY <1>2 DEF Select, Quit, AcceptFails, EndPass, SendFails, vars, server, network
  <2> QED BY <2>1, RoomStutters DEF Peer
<1>3. CASE Transmit
  <2>1. UNCHANGED <<socket, fds, backlog>>
      BY <1>3 DEF Transmit
  <2>2. \A c \in Procs : conn'[c] = "off" <=> conn[c] = "off"
      BY <1>3 DEF Transmit, Inv, TypeOK
  <2> QED BY <2>1, <2>2, RoomStutters DEF Peer
<1>4. CASE CloseRefused
  <2> DEFINE d == Head(todo).fd
  <2>1. HangUp(d) /\ UNCHANGED <<socket, backlog>> /\ Refused(d) /\ d \in Fds /\ fds[d] \in Procs
    <3>1. /\ todo # <<>> /\ Head(todo).op = "close"
          /\ HangUp(d) /\ UNCHANGED <<socket, backlog>>
        BY <1>4 DEF CloseRefused
    <3>2. Head(todo) = todo[1] /\ Head(todo) \in Operation /\ 1 \in DOMAIN todo
        BY <3>1, HeadAndTail DEF Inv, TypeOK
    <3> QED BY <3>1, <3>2 DEF Refused, Inv, TodoIsSound, Operation
  <2> HIDE DEF d
  <2>2. /\ \A e \in Fds : e # d => fds'[e] = fds[e]
        /\ \A c \in Procs : conn'[c] = "off" => conn[c] = "off"
        /\ \A c \in Procs : c # fds[d] => conn'[c] = conn[c]
      BY <2>1, HangUpEffect DEF Inv, SlotTable
  <2>3. conn[fds[d]] # "off"
      BY <2>1 DEF Inv, CallersHaveCalled
  <2>4. \A i \in Occupied : socket[i] \in Fds /\ socket[i] # d
      BY <2>1 DEF Inv, TypeOK, SlotTable, NoDescriptorLost, Occupied
  <2>5. \A c \in Procs : conn'[c] = "off" <=> conn[c] = "off"
      BY <2>2, <2>3
  <2>6. \A i \in Occupied : Peer(i)' = Peer(i)
      BY <2>1, <2>2, <2>4 DEF Peer
  <2> QED BY <2>1, <2>5, <2>6, RoomStutters
<1>5. CASE DropSlot
  <2>1. PICK s \in Occupied : /\ HangUp(socket[s]) /\ socket' = [socket EXCEPT ![s] = 0]
                              /\ UNCHANGED backlog
    <3>1. /\ todo # <<>> /\ Head(todo).op = "drop" /\ HangUp(socket[Head(todo).slot])
          /\ socket' = [socket EXCEPT ![Head(todo).slot] = 0] /\ UNCHANGED backlog
        BY <1>5 DEF DropSlot
    <3>2. Head(todo) = todo[1] /\ Head(todo) \in Operation /\ 1 \in DOMAIN todo
        BY <3>1, HeadAndTail DEF Inv, TypeOK
    <3>3. Head(todo).slot \in Occupied
        BY <3>1, <3>2 DEF Inv, TodoIsSound, Operation, Occupied
    <3> QED BY <3>1, <3>3
  <2> QED BY <2>1, SeatGivenUp DEF Room!RoomNext, Occupied
<1>6. ASSUME NEW i \in Slots, HandleRequest(i) \/ HandleReset(i)
      PROVE  UNCHANGED <<Seat, Queue, Outside>>
    BY <1>6, HandlerInTheRoom
<1>7. ASSUME NEW i \in Slots, HandleDisconnect(i)
      PROVE  Room!RoomNext
  <2>1. i \in Occupied
      BY <1>7 DEF HandleDisconnect, NextDue, IsLowest, Due, Occupied
  <2> QED BY <1>7, <2>1, SeatGivenUp DEF HandleDisconnect, Room!RoomNext
<1>8. ASSUME NEW c \in Procs, ClientConnect(c)
      PROVE  Room!RoomNext
    BY <1>8, CallMade DEF Room!RoomNext
<1>9. ASSUME NEW c \in Procs, ClientSend(c) \/ ClientRecv(c) \/ ClientEof(c) \/ ClientExit(c)
      PROVE  UNCHANGED <<Seat, Queue, Outside>>
  <2>1. UNCHANGED <<socket, fds, backlog>>
      BY <1>9 DEF ClientSend, ClientRecv, ClientEof, ClientExit, server
  <2>2. \A d \in Procs : conn'[d] = "off" <=> conn[d] = "off"
      BY <1>9 DEF ClientSend, ClientRecv, ClientEof, ClientExit, Attends, Leave, Inv, TypeOK
  <2> QED BY <2>1, <2>2, RoomStutters DEF Peer
<1> QED BY <1>1, <1>2, <1>3, <1>4, <1>5, <1>6, <1>7, <1>8, <1>9
        DEF Next, ServerStep, ClientStep

(* The slot table, with everything that happens around it, implements the  *)
(* room: handle_new_connection, login, handle_client_message and           *)
(* send_too_full_message seat, refuse and let go of callers as it says.    *)
THEOREM ImplementsRoom == Spec => RoomSpec
<1>1. Init => Room!RoomInit
    BY RoomOpensEmpty
<1>2. Inv /\ [Next]_vars => [Room!RoomNext]_<<Seat, Queue, Outside>>
    BY StepInTheRoom
<1> QED BY <1>1, <1>2, InvHolds, PTL DEF Spec, RoomSpec, Room!RoomSpec, Room!roomVars
=============================================================================
