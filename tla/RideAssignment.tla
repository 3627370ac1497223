--------------------------- MODULE RideAssignment ---------------------------
(***************************************************************************)
(* What the booking of rides promises, whatever handlers interleave: a     *)
(* ride is booked once, and closes once, either awarded to one driver or   *)
(* withdrawn; its holder never changes afterwards and a withdrawn ride is  *)
(* never awarded.                                                          *)
(***************************************************************************)
CONSTANTS Rides, Drivers, None

VARIABLES
  stage,      \* "unbooked", "open" or "closed"
  holder      \* the driver the ride was awarded to

Init ==
  /\ stage  = [r \in Rides |-> "unbooked"]
  /\ holder = [r \in Rides |-> None]

Book(r) ==
  /\ stage[r] = "unbooked"
  /\ stage' = [stage EXCEPT ![r] = "open"]
  /\ UNCHANGED holder

Award(r, d) ==
  /\ stage[r] = "open"
  /\ stage'  = [stage EXCEPT ![r] = "closed"]
  /\ holder' = [holder EXCEPT ![r] = d]

Withdraw(r) ==
  /\ stage[r] = "open"
  /\ stage' = [stage EXCEPT ![r] = "closed"]
  /\ UNCHANGED holder

Next == \E r \in Rides : Book(r) \/ Withdraw(r) \/ \E d \in Drivers : Award(r, d)

Spec == Init /\ [][Next]_<<stage, holder>>
=============================================================================
