------------------------------ MODULE RideFSM ------------------------------
(***************************************************************************)
(* The status machine of a ride, internal/ride/fsm.go: the statuses of     *)
(* models.RideStatus, the table of transitions and the test the service    *)
(* makes before AcceptRide, CompleteRide and CancelRide write a status.    *)
(***************************************************************************)

RideStatus == {"requested", "matched", "enroute", "completed", "cancelled"}

validTransitions ==
    [s \in RideStatus |->
        CASE s = "requested" -> {"matched", "cancelled"}
          [] s = "matched"   -> {"enroute", "cancelled"}
          [] s = "enroute"   -> {"completed", "cancelled"}
          [] OTHER           -> {}]

\* A status the table does not have has no transition.
CanTransition(from, to) ==
    /\ from \in DOMAIN validTransitions
    /\ to \in validTransitions[from]

\* The statuses GetActiveByRider looks for.
ActiveStatus == {"requested", "matched", "enroute"}

=============================================================================
