-------------------------- MODULE MCElevatorSwitch --------------------------
(* Instances of ElevatorSwitch for TLC: the built-in noop and one scheduler   *)
(* of the repository, which comes and goes as a module.                       *)
EXTENDS ElevatorSwitch, TLC

CONSTANTS noop, clook

Named == noop :> "noop" @@ clook :> "clook"
TryBoth == <<"clook", "noop">>
=============================================================================
