---------------------------- MODULE MCVehicleSide ----------------------------
(***************************************************************************)
(* An instance of VehicleSide for TLC.                                     *)
(***************************************************************************)
EXTENDS VehicleSide, TLC

CONSTANTS drive, mode, enable, dock

OneCommand == {[speed |-> 1, steering |-> 1]}
OneButtonEach == (drive :> {1}) @@ (mode :> {2}) @@ (enable :> {2, 3}) @@ (dock :> {3})
===============================================================================
