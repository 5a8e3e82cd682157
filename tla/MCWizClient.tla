------------------------------ MODULE MCWizClient ------------------------------
(* Small instances of WizClient for TLC. *)
EXTENDS WizClient

Bulb == [f \in Fields |-> CASE f = "state" -> FALSE [] f = "dimming" -> 100
                            [] f = "rgb" -> <<0, 128, 0>>]

Everything == {Fields}
WithoutDimming == {Fields, {"state", "rgb"}, {"state"}}

AllOps == {<<"light", "PUT", "1">>, <<"light", "GET", None>>,
           <<"level", "PUT", 5>>, <<"level", "PUT", 0>>, <<"level", "GET", None>>,
           <<"colour", "PUT", <<300, 0, -1>>>>, <<"colour", "GET", None>>}
PutOps == {<<"light", "PUT", "1">>, <<"light", "PUT", "0">>}

Nobody     == {}
WallSwitch == {[f \in {"state"} |-> FALSE]}
Sync     == {"syncPilot"}
Silent   == {}
================================================================================
