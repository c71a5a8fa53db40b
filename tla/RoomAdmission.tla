---------------------------- MODULE RoomAdmission ----------------------------
(***************************************************************************)
(* What the chat server promises the processes that call it, whatever      *)
(* happens inside: a room with a fixed number of seats.  A caller waits at *)
(* the door until the server takes its call; it is then given a free seat, *)
(* or is turned away if, and only if, every seat is taken.  A seat is      *)
(* given up once, and whoever has left or was turned away is outside for   *)
(* good (a user who calls again does so as a new process).                 *)
(***************************************************************************)
CONSTANTS Callers,   \* client processes
          Seats,     \* places in the room
          Empty      \* a seat nobody holds, no caller

VARIABLES seat,      \* who holds each seat
          waiting,   \* callers whose call the server has not taken
          outside    \* callers that left or were turned away

roomVars == <<seat, waiting, outside>>

RoomTypeOK ==
    /\ seat \in [Seats -> Callers \cup {Empty}]
    /\ waiting \subseteq Callers
    /\ outside \subseteq Callers

Seated == { c \in Callers : \E s \in Seats : seat[s] = c }

RoomInit ==
    /\ seat = [s \in Seats |-> Empty]
    /\ waiting = {}
    /\ outside = {}

Call(c) ==
    /\ c \notin waiting \cup outside \cup Seated
    /\ waiting' = waiting \cup {c}
    /\ UNCHANGED <<seat, outside>>

TakeSeat(c, s) ==
    /\ c \in waiting
    /\ seat[s] = Empty
    /\ waiting' = waiting \ {c}
    /\ seat' = [seat EXCEPT ![s] = c]
    /\ UNCHANGED outside

TurnAway(c) ==
    /\ c \in waiting
    /\ \A s \in Seats : seat[s] # Empty
    /\ waiting' = waiting \ {c}
    /\ outside' = outside \cup {c}
    /\ UNCHANGED seat

GiveUpSeat(s) ==
    /\ seat[s] # Empty
    /\ outside' = outside \cup {seat[s]}
    /\ seat' = [seat EXCEPT ![s] = Empty]
    /\ UNCHANGED waiting

RoomNext ==
    \/ \E c \in Callers : Call(c) \/ TurnAway(c)
    \/ \E c \in Callers, s \in Seats : TakeSeat(c, s)
    \/ \E s \in Seats : GiveUpSeat(s)

RoomSpec == RoomInit /\ [][RoomNext]_roomVars

(* Nobody holds two seats, and nobody is in two places at once.            *)
OnePlaceEach ==
    /\ \A s, t \in Seats : seat[s] = seat[t] /\ seat[s] # Empty => s = t
    /\ waiting \cap outside = {}
    /\ Seated \cap (waiting \cup outside) = {}
=============================================================================
