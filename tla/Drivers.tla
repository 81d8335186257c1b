------------------------------- MODULE Drivers -------------------------------
(***************************************************************************)
(* The drivers side by side.  A behaviour is one scenario of one driver:   *)
(* the initial state chooses it, and the steps are those of that driver's  *)
(* module under the configuration and the requests of the scenario.  What  *)
(* is stated here holds of every driver it names.                          *)
(***************************************************************************)
EXTENDS DriverCalls

CONSTANTS
  Scenarios,                        \* records [driver |-> ..., its configuration and requests]
  NoZone,                           \* the empty string for a zone
  MaxStockoutAttempts, TagRetries,  \* Google
  ZoneDetails,                      \* Amazon
  Room, MaxFailures,                \* Nomad
  ImageOf, Qualified, Addresses, Matches, NoLock,  \* a Mac host of Nomad
  MaxRetries                        \* Anka Build

(* A pool without a list of networks has the one of its own fields, so     *)
(* there is always one.                                                    *)
ASSUME NetworksAssumption ==
  \A s \in Scenarios : s.driver = "google" =>
    /\ Len(s.networks) \in Nat \ {0} /\ DOMAIN s.networks = 1..Len(s.networks)
    /\ IsFiniteSet(UNION {s.networks[n].zones : n \in DOMAIN s.networks})
ASSUME AttemptsAssumption == MaxStockoutAttempts \in Nat \ {0}
ASSUME FailuresAssumption == MaxFailures \in Nat \ {0}
ASSUME NoLockAssumption == NoLock \notin Callers
ASSUME MatchesAssumption ==
  Matches \in [Addresses -> SUBSET Addresses] /\ \A a \in Addresses : a \in Matches[a]

Google == INSTANCE GoogleDriver
Amazon == INSTANCE AmazonDriver
Azure == INSTANCE AzureDriver
DigitalOcean == INSTANCE DigitalOceanDriver
Mac == INSTANCE MacDrivers
Nomad == INSTANCE NomadDriver
Tart == INSTANCE TartHost

dvars == <<cloud, abandoned, held, destroyed, call, made, shared, scenario>>

MacHypervisors == {"anka", "ankabuild", "vmfusion"}

-----------------------------------------------------------------------------
Fields ==
  CASE scenario.driver = "google" -> Google!GoogleInit
    [] scenario.driver = "amazon" -> Amazon!AmazonInit
    [] scenario.driver = "azure" -> Azure!AzureInit
    [] scenario.driver = "digitalocean" -> DigitalOcean!DigitalOceanInit
    [] scenario.driver = "nomad" -> Nomad!NomadInit
    [] scenario.driver = "tart" -> Tart!TartInit
    [] scenario.driver \in MacHypervisors -> Mac!MacInit

Init ==
  /\ cloud = <<>> /\ abandoned = {} /\ held = {} /\ destroyed = {} /\ made = {}
  /\ call = [c \in Callers |-> Idle]
  /\ scenario \in Scenarios
  /\ shared = Fields

Of(driver, A) == scenario.driver = driver /\ A /\ UNCHANGED scenario

Next ==
  \/ Of("google", Google!Next)
  \/ Of("amazon", Amazon!Next)
  \/ Of("azure", Azure!Next)
  \/ Of("digitalocean", DigitalOcean!Next)
  \/ Of("nomad", Nomad!Next)
  \/ Of("tart", Tart!Next)
  \/ scenario.driver \in MacHypervisors /\ Mac!Next /\ UNCHANGED scenario
  \/ Quiet /\ UNCHANGED scenario

(* Nomad: a goroutine in a call goes on, and the script of a running       *)
(* resource job goes on checking.  A script on a Mac host goes on.         *)
Fairness == \A c \in Callers : /\ WF_dvars(Of("nomad", Nomad!CallStep(c)))
                               /\ WF_dvars(Of("nomad", Nomad!HealthCheck(c)))
                               /\ WF_dvars(Of("tart", Tart!ScriptStep(c)))

Spec == Init /\ [][Next]_dvars /\ Fairness

-----------------------------------------------------------------------------
(* Properties. *)

(* Google: every VM is held by the manager or by the call that made it, or *)
(* the driver has asked for its delete and was refused.  A create that     *)
(* gives up, moves on to another zone or loses its instance on the way,    *)
(* and a destroy that fails or is repeated, forgets no VM in any zone,     *)
(* whatever the other calls of the same driver do.  Amazon too, but for a  *)
(* create whose context ends while it polls for the address: it returns    *)
(* and terminates nothing (amazon/driver.go:1107), and nobody has the VM.  *)
NoOrphanVM ==
  /\ scenario.driver = "google" => Orphans \subseteq abandoned
  /\ scenario.driver = "amazon" => Orphans \subseteq abandoned \cup LeftBehind

(* What a Destroy has reported gone is gone, or its delete was taken by    *)
(* the provider and failed there: also when calls for the same instance    *)
(* overlap, fail half way and are repeated.  On Azure this holds of every  *)
(* part of the instance.  On VMware Fusion it does not, since calls that   *)
(* overlap mistake each other's machine.                                   *)
DestroyedIsGone ==
  \A i \in destroyed, r \in DOMAIN cloud \ abandoned :
    i.name = r.name /\ i.zone = r.zone =>
      /\ r.kind = "vm" => scenario.driver = "vmfusion"
      /\ scenario.driver = "azure" => r.kind = "group"

(* Google: a VM boots with the egress proxy of a network that lists its    *)
(* zone (if any does), and its instance records it, whichever candidate    *)
(* the create ended with.                                                  *)
ProxyOf(zone, proxy) ==
  \E n \in DOMAIN scenario.networks :
    /\ proxy = scenario.networks[n].proxy
    /\ zone \in scenario.networks[n].zones \/ zone \notin Google!Zones
ProxyOfNetwork ==
  scenario.driver = "google" =>
    /\ \A r \in DOMAIN cloud : r.kind = "vm" => ProxyOf(r.zone, cloud[r].proxy)
    /\ \A i \in HeldVMs : ProxyOf(i.zone, i.proxy)

(* Google: two calls that set labels or metadata of one VM at once do not  *)
(* undo each other.                                                        *)
LabelsKept ==
  [][scenario.driver = "google" =>
       \A r \in DOMAIN cloud \cap DOMAIN cloud' :
         r.kind = "vm" => /\ cloud[r].labels \subseteq cloud'[r].labels
                          /\ cloud[r].metadata \subseteq cloud'[r].metadata]_dvars

(* Amazon: no VM runs behind a security group without the ingress rule for *)
(* the lite engine, although the group is shared, kept in the driver, and  *)
(* may have been left without its rule by a create that failed.            *)
ReachableVM ==
  scenario.driver = "amazon" =>
    \A r \in DOMAIN cloud : r.kind = "vm" => /\ Exists(Amazon!SecurityGroup)
                                             /\ cloud[Amazon!SecurityGroup].ingress

(* Nomad: the resource job of a VM that Create returned did not end on its *)
(* failed checks, however long the VM took to come up.                     *)
RoomKept ==
  scenario.driver = "nomad" =>
    \A i \in HeldVMs : Exists(Nomad!VM(i.name)) =>
      cloud[Nomad!Job("resource", i.name)].failures < MaxFailures

(* Nomad: room that is reserved is given back, or a VM is in it, however   *)
(* the Create that reserved it ended and whichever clean-up goroutine was  *)
(* refused.                                                                *)
EmptyRoom(c) == /\ scenario.driver = "nomad" /\ Nomad!Status("resource", c) = "running"
                /\ ~Exists(Nomad!VM(c))
RoomReturned == \A c \in Callers : EmptyRoom(c) ~> ~EmptyRoom(c)

(* A Mac host: the packet filter forwards to every VM that came up, and to *)
(* the address it has, while other VMs start and are destroyed, as long as *)
(* no script has broken the lock, and if no other address of the host is   *)
(* the beginning of that of the VM.  It does not hold of the others: the   *)
(* script of a VM at 192.168.64.2 removes the rule of 192.168.64.20        *)
(* (mac_virtualizer.go:279, 396), although the comment above it says       *)
(* "Remove any existing entry with same IP if present".                    *)
PortForwarded ==
  scenario.driver = "tart" /\ ~shared.broken =>
    \A i \in HeldVMs : Tart!Apart(Tart!Address(i.name)) =>
      /\ Tart!Rule(i.name) \in shared.pf
      /\ Tart!Rule(i.name) \in shared.anchor

(* A Mac host: no script waits for ever on a lock, not on that of a script *)
(* that was killed holding it.                                             *)
InScript(c) == scenario.driver = "tart" /\ call[c] # Idle
ScriptEnds == \A c \in Callers : InScript(c) ~> ~InScript(c)

=============================================================================
