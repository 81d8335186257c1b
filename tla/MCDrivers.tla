------------------------------ MODULE MCDrivers ------------------------------
(***************************************************************************)
(* The drivers for TLC.                                                    *)
(***************************************************************************)
EXTENDS Drivers

CONSTANT First  \* one of the callers

(* Google: one network with one zone, or two with three.  A request names  *)
(* its persistent disks, the zone of its reservation and the zones it asks *)
(* for.                                                                    *)
OneNet == <<[zones |-> {"z1"}, proxy |-> "p1"]>>
TwoNets == <<[zones |-> {"z1", "z2"}, proxy |-> "p1"], [zones |-> {"z3"}, proxy |-> "p2"]>>
Ask(disks, reservation, zones) == [disks |-> disks, reservation |-> reservation, zones |-> zones]

OnGoogle(networks, calls, requests, cleanups) ==
  [driver |-> "google", networks |-> networks, calls |-> calls, requests |-> requests,
   cleanups |-> cleanups]
GoogleScenarios == {
  OnGoogle(TwoNets, {"capacity"}, {Ask(<<>>, "none", {}), Ask(<<>>, "none", {"z2"}),
    Ask(<<>>, "z1", {}), Ask(<<"disk">>, "none", {})}, {}),
  OnGoogle(OneNet, {"destroy", "power"}, {Ask(<<"disk">>, "none", {})}, {"none", "Delete"}),
  OnGoogle(OneNet, {"set"}, {Ask(<<>>, "none", {})}, {})}

(* Amazon: two availability zones. *)
TwoZones == <<"a", "b">>
OnAmazon(calls, requests, cleanups) ==
  [driver |-> "amazon", calls |-> calls, requests |-> requests, cleanups |-> cleanups]
AmazonScenarios == {
  OnAmazon({"power", "capacity"}, {Ask(<<>>, "none", <<>>), Ask(<<>>, "b", <<>>),
    Ask(<<"disk">>, "none", <<"a">>)}, {}),
  OnAmazon({"destroy"}, {Ask(<<"disk">>, "none", <<"a">>)}, {"none", "Delete"})}

AzureScenarios == {[driver |-> "azure", privateIP |-> b, useExistingNetwork |-> b] : b \in BOOLEAN}

(* A Mac host: two VMs of two images of a registry. *)
TwoImages == [c \in Callers |-> IF c = First THEN "reg/img" ELSE "reg/other"]

(* One of the two addresses of the host is the beginning of the other. *)
TheAddresses == {"64.2", "64.20"}
Patterns == [a \in TheAddresses |-> IF a = "64.2" THEN TheAddresses ELSE {a}]

AllScenarios ==
  GoogleScenarios \cup AmazonScenarios \cup AzureScenarios
    \cup {[driver |-> d] : d \in MacHypervisors \cup {"digitalocean", "nomad", "tart"}}

=============================================================================
