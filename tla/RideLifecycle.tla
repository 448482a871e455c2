--------------------------- MODULE RideLifecycle ---------------------------
(***************************************************************************)
(* What the ride service promises of each row of the table rides, seen     *)
(* from outside: a ride is requested, is given a driver at most once, is   *)
(* started and completed by that driver in that order, and may be          *)
(* cancelled at any moment before it is completed.                         *)
(*                                                                         *)
(* One step is weaker than the table in fsm.go: a ride cancelled before it *)
(* had a driver may still be matched (Match), because matchDriver writes   *)
(* its status without looking at the row.  RideDispatch shows when.        *)
(***************************************************************************)
EXTENDS RideFSM

CONSTANTS Rides, Drivers, NoDriver

VARIABLES status, driver

vars == <<status, driver>>

Absent == "absent"

Init ==
    /\ status = [r \in Rides |-> Absent]
    /\ driver = [r \in Rides |-> NoDriver]

Request(r) ==
    /\ status[r] = Absent
    /\ status' = [status EXCEPT ![r] = "requested"]
    /\ UNCHANGED driver

Match(r, d) ==
    /\ status[r] \in {"requested", "cancelled"}
    /\ driver[r] = NoDriver
    /\ status' = [status EXCEPT ![r] = "matched"]
    /\ driver' = [driver EXCEPT ![r] = d]

Start(r) ==
    /\ status[r] = "matched"
    /\ status' = [status EXCEPT ![r] = "enroute"]
    /\ UNCHANGED driver

Complete(r) ==
    /\ status[r] = "enroute"
    /\ status' = [status EXCEPT ![r] = "completed"]
    /\ UNCHANGED driver

Cancel(r) ==
    /\ status[r] \in ActiveStatus
    /\ status' = [status EXCEPT ![r] = "cancelled"]
    /\ UNCHANGED driver

Next ==
    \E r \in Rides :
        \/ Request(r)
        \/ \E d \in Drivers : Match(r, d)
        \/ Start(r)
        \/ Complete(r)
        \/ Cancel(r)

Spec == Init /\ [][Next]_vars

=============================================================================
