----------------------------- MODULE DriverCalls -----------------------------
(***************************************************************************)
(* What the cloud drivers have in common: concurrent calls of one driver   *)
(* value, the resources of the provider they make and delete, and what the *)
(* pool manager holds of them.  Each driver module extends this one with   *)
(* the steps of its calls, one per request to the provider; between two of *)
(* them the other calls move.  A request may fail.  A resource is recorded *)
(* in `abandoned` when the code asked to delete it and has no one to tell  *)
(* that it could not: the provider refused in a best-effort clean-up, or   *)
(* after the call.  A resource that an error path leaves without asking is *)
(* told apart by a note there (Unasked).  A resource the code forgets is   *)
(* in neither way.                                                         *)
(***************************************************************************)
EXTENDS Integers, FiniteSets, Sequences

CONSTANT Callers  \* goroutines of the runner that call the driver

VARIABLES
  cloud,     \* the provider: resource -> its attributes
  abandoned, \* resources that could not be deleted, with nobody told, and notes
  held,      \* the instances Create has returned and no Destroy has reported gone
  destroyed, \* the instances a Destroy has reported gone
  call,      \* the call each goroutine is in
  made,      \* the names Create has used
  shared,    \* the fields of the driver value, which all calls share
  scenario   \* the driver, its configuration and the requests that are made: fixed

vars == <<cloud, abandoned, held, destroyed, call, made, shared>>

Idle == [pc |-> "idle"]

(* A resource of the provider: its kind, the call it was made for, its     *)
(* zone; the disks of a call are told apart by their ids.                  *)
Resource(kind, c, zone) == [kind |-> kind, name |-> c, zone |-> zone]
Disks(c, ids, zone) ==
  {[kind |-> "disk", name |-> c, zone |-> zone, id |-> ids[k]] : k \in DOMAIN ids}
Exists(r) == r \in DOMAIN cloud
Without(R) == [r \in DOMAIN cloud \ R |-> cloud[r]]
With(R, attributes) ==
  [r \in DOMAIN cloud \cup R |-> IF r \in R THEN attributes ELSE cloud[r]]

(* What is held is an instance or a capacity reservation. *)
HeldVMs == {i \in held : i.what = "vm"}

(* The goroutine leaves the driver, or goes to its next request. *)
Return(c) == call' = [call EXCEPT ![c] = Idle]
Goto(c, pc) == call' = [call EXCEPT ![c].pc = pc]

Add(r, attributes) == cloud' = With({r}, attributes)

(* Names are random and never used twice; each goroutine makes one VM.     *)
Fresh(c) == /\ call[c] = Idle /\ c \notin made
            /\ made' = made \cup {c}
            /\ UNCHANGED destroyed

(* A request to delete R: done, also when R was gone before; refused, with *)
(* the error reported to the caller; or refused in a best-effort clean-up. *)
Deleted(R) == /\ cloud' = Without(R)
              /\ UNCHANGED abandoned
Refused(R) == /\ R \cap DOMAIN cloud # {}
              /\ UNCHANGED <<cloud, abandoned>>
Abandon(R) == /\ abandoned' = abandoned \cup (R \cap DOMAIN cloud)
              /\ UNCHANGED cloud
BestEffort(R) == Deleted(R) \/ Abandon(R)

(* An error path that leaves r at the provider and makes no request. *)
Unasked(r) == [r EXCEPT !.kind = "unasked"]
LeaveBehind(r) == /\ abandoned' = abandoned \cup {Unasked(r)}
                  /\ UNCHANGED cloud
LeftBehind == {r \in DOMAIN cloud : Unasked(r) \in abandoned}

(* A batch is worked off one instance after the other, in any order; the   *)
(* rows of the instances that are not in the list of failed ones are       *)
(* dropped.  `at` is the instance under way, `parts` what is left of it.   *)
BatchCall(batch, cleanup) == [pc |-> "next", todo |-> batch, batch |-> batch, at |-> "none",
                              parts |-> {}, failed |-> {}, cleanup |-> cleanup]
TakeInstance(c, i, pc, parts) ==
  call' = [call EXCEPT ![c].pc = pc, ![c].todo = @ \ {i}, ![c].at = i, ![c].parts = parts]
SkipInstance(c, i, failed) ==
  call' = [call EXCEPT ![c].todo = @ \ {i}, ![c].failed = @ \cup failed]
NextInstance(c, failed) ==
  call' = [call EXCEPT ![c].pc = "next", ![c].at = "none", ![c].parts = {},
                       ![c].failed = @ \cup failed]
Gone(I) == held' = held \ I /\ destroyed' = destroyed \cup I
BatchDone(c) == /\ call[c].pc = "next" /\ call[c].todo = {}
                /\ Gone(call[c].batch \ call[c].failed)
                /\ Return(c)
                /\ UNCHANGED <<cloud, abandoned, made, shared>>

(* Nothing left to do: no call may get stuck elsewhere. *)
Quiet == /\ \A c \in Callers : call[c] = Idle
         /\ UNCHANGED vars

(* The VMs that no row and no call in progress will ever delete. *)
Orphans == {r \in DOMAIN cloud : /\ r.kind = "vm"
                                 /\ \A i \in held : i.name # r.name \/ i.zone # r.zone
                                 /\ call[r.name] = Idle}

=============================================================================
