------------------------ MODULE RoomAdmissionProofs -------------------------
(***************************************************************************)
(* The room keeps its own promise, whatever the callers and the seats.     *)
(***************************************************************************)
EXTENDS RoomAdmission, TLAPS

RoomInv == RoomTypeOK /\ OnePlaceEach

(* Nobody holds two seats or is in two places at once, in any run of the   *)
(* room the slot table of server.c implements.                             *)
THEOREM RoomIsSound ==
    ASSUME Empty \notin Callers
    PROVE  RoomSpec => []RoomInv
<1>1. RoomInit => RoomInv
    BY DEF RoomInit, RoomInv, RoomTypeOK, OnePlaceEach, Seated
<1>2. RoomInv /\ [RoomNext]_roomVars => RoomInv'
  <2> SUFFICES ASSUME RoomInv, [RoomNext]_roomVars PROVE RoomInv'
      OBVIOUS
  <2> USE DEF RoomInv, RoomTypeOK, OnePlaceEach, Seated
  <2>1. ASSUME NEW c \in Callers, Call(c) PROVE RoomInv'
      BY <2>1 DEF Call
  <2>2. ASSUME NEW c \in Callers, TurnAway(c) PROVE RoomInv'
      BY <2>2 DEF TurnAway
  <2>3. ASSUME NEW c \in Callers, NEW s \in Seats, TakeSeat(c, s) PROVE RoomInv'
      BY <2>3 DEF TakeSeat
  <2>4. ASSUME NEW s \in Seats, GiveUpSeat(s) PROVE RoomInv'
      BY <2>4 DEF GiveUpSeat
  <2>5. CASE UNCHANGED roomVars
      BY <2>5 DEF roomVars
  <2> QED BY <2>1, <2>2, <2>3, <2>4, <2>5 DEF RoomNext
<1> QED BY <1>1, <1>2, PTL DEF RoomSpec
=============================================================================
