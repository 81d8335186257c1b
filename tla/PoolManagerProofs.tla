------------------------- MODULE PoolManagerProofs -------------------------
(***************************************************************************)
(* Proofs about the pool manager of one runner, for any number of VMs and  *)
(* stages, any retries, both strategies and both kinds of store: no VM is  *)
(* given to two stages, none is stopped under its stage, and every VM at   *)
(* the provider has a row.                                                 *)
(*                                                                         *)
(* The first two rest on what the goroutine of a VM, its row and the       *)
(* stages may be at the same time (PoolInv).  A goroutine that sets a VM   *)
(* up, or stops it, has a row that no stage can claim; a stage that holds  *)
(* a VM has made the row "inuse" under the mutex, when the goroutine was   *)
(* at rest or about to look at the row again, which it leaves alone then.  *)
(* Only HandleDestroy breaks this, whose "terminating" hibernate takes for *)
(* a free row, hence Good.  The third rests on GoneInv: whoever deletes a  *)
(* row knows that its VM is gone, and no VM comes back.                    *)
(***************************************************************************)
EXTENDS PoolManager, TLAPS

(* The configuration is one of those the module is about. *)
Constants ==
  /\ MaxVMs \in Nat /\ Kept \in 0..MaxVMs
  /\ Gitspaces \subseteq Stages
  /\ Stages \cap {NoOne, "pool", "keeper"} = {}

(* What a pool has because of its configuration stays with it. *)
LEMMA Fixed ==
  ASSUME UNCHANGED config
  PROVE  /\ VMs' = VMs /\ Stages' = Stages /\ Gitspaces' = Gitspaces /\ Pipelines' = Pipelines
         /\ MaxVMs' = MaxVMs /\ NamesFailed' = NamesFailed /\ (Constants => Constants')
BY DEF VMs, MaxVMs, NamesFailed, Stages, Gitspaces, Pipelines, Constants, Kept

USE Fixed

RowFields == {"state", "hibernated", "started", "tenant", "variant", "retain"}
WorkFields == {"pc", "by", "tenant", "variant", "row", "tries"}
StageFields == {"pc", "vm", "row"}
KeeperFields == {"pc", "op", "set", "plan"}

States == {"", "created", "inuse", "hibernating", "provisioning", "terminating"}
IsRow(r) == DOMAIN r = RowFields /\ r.state \in States

(* A goroutine whose VM has no row yet, or never will; that is at rest;    *)
(* that sets a VM up; that stops one.                                      *)
Unborn == {"none", "create", "record", "lost"}
Quiet == {"hibernate", "ended", "failed"}
Fetching == {"connect", "destroy", "delete", "ready"}
Pausing == {"power", "revert", "finish"}
WorkPCs == Unborn \cup Quiet \cup Fetching \cup Pausing \cup {"suspend"}

NoVMYet == {"idle", "list"}
WithVM == {"claim", "creating", "provisioned", "starting", "started", "check", "serving", "suspending",
           "suspended", "ending", "terminate", "destroy", "failed", "cleanup", "lookup", "deleting"}
StagePCs == NoVMYet \cup WithVM \cup {"create", "done"}

(* The shape of the state. *)
RowsOK == DOMAIN rows \subseteq VMs /\ \A v \in DOMAIN rows : IsRow(rows[v])
WorkOK ==
  /\ DOMAIN work = VMs
  /\ \A v \in VMs : DOMAIN work[v] = WorkFields /\ work[v].pc \in WorkPCs /\ IsRow(work[v].row)
StageOK ==
  /\ DOMAIN stage = Stages
  /\ \A s \in Stages :
       /\ DOMAIN stage[s] = StageFields /\ stage[s].pc \in StagePCs /\ IsRow(stage[s].row)
       /\ stage[s].vm \in VMs \cup {NoVM}
       /\ stage[s].pc \in WithVM => stage[s].vm \in VMs
       /\ stage[s].pc \in NoVMYet => stage[s].vm = NoVM
KeeperOK == DOMAIN keeper = KeeperFields /\ keeper.set \subseteq VMs
Types == RowsOK /\ DOMAIN up = VMs /\ WorkOK /\ StageOK /\ KeeperOK

(* The state of the row of a VM, or "absent". *)
RowState(v) == IF v \in DOMAIN rows THEN rows[v].state ELSE "absent"

-----------------------------------------------------------------------------
(* The inductive invariant. *)

(* A VM that is being created has no row, and only the stage it is created *)
(* for knows it.                                                           *)
BirthInv ==
  \A v \in VMs : work[v].pc \in Unborn =>
    /\ RowState(v) = "absent"
    /\ \A s \in Stages : stage[s].vm = v => stage[s].pc = "creating" /\ work[v].pc # "none"
    /\ keeper.pc \in {"destroy", "delete"} => v \notin keeper.set

(* Whoever is about to delete a row has destroyed the VM, the keeper when  *)
(* the driver names the instances it failed on.                            *)
GoneInv ==
  /\ \A v \in VMs : work[v].pc \in {"none", "create", "delete"} => up[v] = "none"
  /\ \A s \in Stages : stage[s].pc = "deleting" => up[stage[s].vm] = "none"
  /\ NamesFailed /\ keeper.pc = "delete" => \A v \in keeper.set : up[v] = "none"

(* The mutex has one holder. *)
MutexInv ==
  /\ keeper.pc # "idle" => mutex
  /\ \A s \in Stages : stage[s].pc \in {"list", "claim"} => mutex /\ keeper.pc = "idle"
  /\ \A s, t \in Stages : stage[s].pc \in {"list", "claim"} /\ stage[t].pc \in {"list", "claim"} => s = t

(* A goroutine works for the stage that waits for it; the VM of a gitspace *)
(* was created for it; the engine does not use the handler.                *)
OwnerInv ==
  /\ \A s \in Stages : stage[s].pc = "creating" =>
       /\ work[stage[s].vm].by = s
       /\ work[stage[s].vm].pc \in {"create", "record", "ended", "failed", "lost"}
  /\ \A s \in Gitspaces :
       /\ stage[s].pc \notin {"list", "claim"}
       /\ stage[s].vm # NoVM => work[stage[s].vm].by = s
  /\ \A v \in VMs : work[v].pc = "suspend" => Gitspace(v)
  /\ \A s \in Stages \cap Pipelines : stage[s].pc \notin {"ending", "terminate", "destroy", "failed"}

(* A VM of the pool that no handler has begun to end. *)
Good(v) == ~Gitspace(v) /\ ~HandlerEnds(v)

(* What the goroutine, the row and the stages of such a VM are. *)
Resting(v) ==
  /\ work[v].pc \in Fetching => RowState(v) \in {"absent", "provisioning"}
  /\ work[v].pc \in Pausing => RowState(v) \in {"absent", "hibernating"}
Served(v, s) ==
  /\ stage[s].pc # "claim" => RowState(v) \in {"absent", "inuse"}
  /\ stage[s].pc = "creating" /\ work[v].pc = "ended" => work[v].row.state = "inuse"
  /\ stage[s].pc # "creating" => work[v].pc \in Quiet
  /\ stage[s].pc \in {"provisioned", "starting", "started"} => stage[s].row.state = "inuse"
PoolInv ==
  \A v \in VMs : Good(v) =>
    /\ Resting(v)
    /\ \A s \in Stages : stage[s].vm = v => Served(v, s)
    /\ \A s, t \in Stages : stage[s].vm = v /\ stage[t].vm = v => s = t

IInv == Types /\ BirthInv /\ GoneInv /\ VMRecorded /\ MutexInv /\ OwnerInv /\ PoolInv

-----------------------------------------------------------------------------
(* Rows. *)

(* The row of a request has the shape of a row, and a state put into a row *)
(* makes a row with that state.                                            *)
LEMMA RowFacts ==
  /\ IsRow(RequestRow)
  /\ \A r, x : IsRow(r) /\ x \in States =>
       /\ IsRow([r EXCEPT !.state = x]) /\ [r EXCEPT !.state = x].state = x
       /\ \A h : /\ IsRow([r EXCEPT !.state = x, !.hibernated = h])
                 /\ [r EXCEPT !.state = x, !.hibernated = h].state = x
       /\ \A n : /\ IsRow([r EXCEPT !.state = x, !.started = n])
                 /\ [r EXCEPT !.state = x, !.started = n].state = x
  /\ \A r, h : IsRow(r) => /\ IsRow([r EXCEPT !.hibernated = h])
                           /\ [r EXCEPT !.hibernated = h].state = r.state
<1>1. IsRow(RequestRow)
  BY DEF IsRow, RowFields, RequestRow, States
<1>2. ASSUME NEW r, NEW x \in States, IsRow(r)
      PROVE  /\ IsRow([r EXCEPT !.state = x]) /\ [r EXCEPT !.state = x].state = x
             /\ \A h : /\ IsRow([r EXCEPT !.state = x, !.hibernated = h])
                       /\ [r EXCEPT !.state = x, !.hibernated = h].state = x
             /\ \A n : /\ IsRow([r EXCEPT !.state = x, !.started = n])
                       /\ [r EXCEPT !.state = x, !.started = n].state = x
  BY <1>2 DEF IsRow, RowFields
<1>3. ASSUME NEW r, NEW h, IsRow(r)
      PROVE  IsRow([r EXCEPT !.hibernated = h]) /\ [r EXCEPT !.hibernated = h].state = r.state
  BY <1>3 DEF IsRow, RowFields
<1> QED
  BY <1>1, <1>2, <1>3, ZenonT(40)

(* A VM has a row or its row is absent. *)
LEMMA Presence ==
  ASSUME RowsOK, NEW v \in VMs
  PROVE  (v \in DOMAIN rows) <=> (RowState(v) # "absent")
  BY DEF RowsOK, IsRow, States, RowState

(* Create writes one row. *)
LEMMA CreateEffect ==
  ASSUME UNCHANGED config, RowsOK, NEW v \in VMs, NEW row, IsRow(row), Create(v, row)
  PROVE  /\ RowsOK'
         /\ RowState(v)' = row.state
         /\ \A w \in VMs \ {v} : RowState(w)' = RowState(w)
  BY DEF Create, RowsOK, RowState

(* Update writes one row, or finds none to write. *)
LEMMA UpdateEffect ==
  ASSUME UNCHANGED config, RowsOK, NEW v \in VMs, NEW row, IsRow(row), Update(v, row)
  PROVE  /\ RowsOK'
         /\ RowState(v)' = row.state \/ (RowState(v) = "absent" /\ RowState(v)' = "absent")
         /\ \A w \in VMs \ {v} : RowState(w)' = RowState(w)
<1>1. CASE Create(v, row)
  BY <1>1, CreateEffect
<1>2. CASE ~Find(v) /\ UNCHANGED rows
  BY <1>2 DEF RowsOK, RowState, Find
<1> QED
  BY <1>1, <1>2 DEF Update

(* Delete removes rows. *)
LEMMA DeleteEffect ==
  ASSUME UNCHANGED config, RowsOK, NEW S, Delete(S)
  PROVE  /\ RowsOK'
         /\ \A w \in VMs : RowState(w)' = IF w \in S THEN "absent" ELSE RowState(w)
  BY DEF Delete, RowsOK, RowState

(* Goroutines and stages. *)

(* Goto moves one goroutine; only one that works for a stage fails. *)
LEMMA GotoEffect ==
  ASSUME UNCHANGED config, WorkOK, NEW v \in VMs, NEW pc \in WorkPCs, Goto(v, pc)
  PROVE  /\ WorkOK' /\ \A w \in VMs \ {v} : work'[w] = work[w]
         /\ work'[v].by = work[v].by
         /\ work'[v].pc = IF pc = "failed" /\ work[v].by \notin Stages THEN "ended" ELSE pc
<1>1. IsRow(RequestRow)
  BY RowFacts
<1> QED
  BY <1>1 DEF Goto, WorkOK, Endings, NoWork, WorkFields, WorkPCs, Quiet, Unborn

(* Launch creates goroutines of VMs that had none. *)
Launched(by) ==
  \A v \in VMs : \/ work'[v] = work[v]
                 \/ work[v].pc = "none" /\ work'[v].pc = "create" /\ work'[v].by = by
(* So does any call of Launch. *)
LEMMA LaunchEffect ==
  ASSUME UNCHANGED config, WorkOK, NEW by, NEW groups, work' = Launch(by, groups)
  PROVE  WorkOK' /\ Launched(by) /\ \A v \in Fresh(groups) : work'[v].pc = "create" /\ work'[v].by = by
<1>1. IsRow(RequestRow)
  BY RowFacts
<1>2. \A v \in Fresh(groups) : v \in VMs /\ work[v].pc = "none"
  BY DEF Fresh
<1> HIDE DEF Fresh
<1> QED
  BY <1>1, <1>2 DEF Launch, Launched, WorkOK, NoWork, WorkFields, WorkPCs, Unborn

(* To moves one stage; a stage that is done so forgets its VM. *)
LEMMA ToEffect ==
  ASSUME UNCHANGED config, StageOK, NEW s \in Stages, NEW pc \in StagePCs \ NoVMYet,
         pc \in WithVM => stage[s].vm \in VMs, To(s, pc)
  PROVE  /\ StageOK' /\ \A t \in Stages \ {s} : stage'[t] = stage[t]
         /\ stage'[s].pc = pc /\ stage'[s].vm = IF pc = "done" THEN NoVM ELSE stage[s].vm
<1>1. IsRow(RequestRow)
  BY RowFacts
<1> DEFINE vm == IF pc = "done" THEN NoVM ELSE stage[s].vm
<1>2. vm \in VMs \cup {NoVM} /\ (pc \in WithVM => vm \in VMs)
  BY DEF StageOK, WithVM
<1>3. stage' = [stage EXCEPT ![s] = [pc |-> pc, vm |-> vm, row |-> RequestRow]]
  BY DEF To
<1> HIDE DEF vm
<1>4. /\ StageOK' /\ \A t \in Stages \ {s} : stage'[t] = stage[t]
      /\ stage'[s].pc = pc /\ stage'[s].vm = vm
  BY <1>1, <1>2, <1>3 DEF StageOK, StageFields
<1> QED
  BY <1>4 DEF vm


-----------------------------------------------------------------------------
(* The goroutine of a VM. *)

(* What a step does to the VMs it is not about. *)
SameVM(w) == work'[w] = work[w] /\ up'[w] = up[w] /\ RowState(w)' = RowState(w)

(* A step of the goroutine of v, as pc, row and provider see it. *)
Moves(v, from, to) == work[v].pc \in from /\ work'[v].pc \in to
RowStays(v) == RowState(v)' = RowState(v)
UpStays(v) == up'[v] = up[v]
EndsBadly(v) == work'[v].pc = IF work[v].by \in Stages THEN "failed" ELSE "ended"

SetUpStep(v) ==
  \/ Moves(v, {"create"}, {"record"}) /\ RowStays(v)
  \/ Moves(v, {"create"}, {"failed", "ended"}) /\ EndsBadly(v) /\ RowStays(v) /\ UpStays(v)
  \/ /\ Moves(v, {"record"}, {"ended"}) /\ work[v].by \in Stages /\ UpStays(v)
     /\ RowState(v)' = "inuse" /\ work'[v].row.state = "inuse"
  \/ /\ Moves(v, {"record"}, {"connect"}) /\ work[v].by \notin Stages /\ UpStays(v)
     /\ RowState(v)' = "provisioning"
  \/ Moves(v, {"record"}, {"failed", "ended"}) /\ EndsBadly(v) /\ RowStays(v) /\ up'[v] = "none"
  \/ Moves(v, {"record"}, {"lost"}) /\ RowStays(v) /\ UpStays(v)
FetchStep(v) ==
  \/ Moves(v, {"connect"}, {"ready", "destroy"}) /\ RowStays(v) /\ UpStays(v)
  \/ Moves(v, {"destroy"}, {"delete"}) /\ RowStays(v) /\ up'[v] = "none"
  \/ Moves(v, {"destroy", "ready"}, {"ended"}) /\ RowStays(v) /\ UpStays(v)
  \/ Moves(v, {"delete"}, {"ended"}) /\ RowState(v)' \in {RowState(v), "absent"} /\ UpStays(v)
  \/ Moves(v, {"ready"}, Quiet) /\ UpStays(v) /\ RowState(v)' \in {"created", RowState(v)}
PauseStep(v) ==
  \/ /\ Moves(v, {"hibernate"}, {"power"}) /\ ~mutex /\ UpStays(v)
     /\ RowState(v) \notin {"absent", "inuse"} /\ RowState(v)' = "hibernating"
  \/ Moves(v, {"hibernate"}, Quiet) /\ ~mutex /\ RowStays(v) /\ UpStays(v)
  \/ Moves(v, {"power"}, {"finish", "revert"}) /\ RowStays(v) /\ ((up'[v] = "none") <=> (up[v] = "none"))
  \/ /\ Moves(v, {"revert", "finish"}, Quiet) /\ ~mutex /\ UpStays(v)
     /\ RowStays(v) \/ (RowState(v) # "absent" /\ RowState(v)' = "created")
  \/ Moves(v, {"suspend"}, Quiet) /\ UpStays(v) /\ RowState(v)' \in {"created", RowState(v)}

VMStep(v) ==
  /\ UNCHANGED <<mutex, stage, keeper>> /\ \A w \in VMs \ {v} : SameVM(w)
  /\ work'[v].by = work[v].by
  /\ SetUpStep(v) \/ FetchStep(v) \/ PauseStep(v)

(* What goroutines write to the store has a state of its own. *)
LEMMA NewRowFacts ==
  ASSUME NEW w
  PROVE  IsRow(NewRow(w)) /\ NewRow(w).state = IF w.by \in Stages THEN "inuse" ELSE "provisioning"
  BY DEF NewRow, IsRow, RowFields, States

(* The frame of an action that leaves the rows, or the provider, alone. *)
LEMMA Untouched ==
  ASSUME UNCHANGED config
  PROVE  /\ UNCHANGED rows => (RowsOK => RowsOK') /\ \A w \in VMs : RowState(w)' = RowState(w)
         /\ UNCHANGED stage => (StageOK => StageOK')
         /\ UNCHANGED keeper => (KeeperOK => KeeperOK')
         /\ UNCHANGED work => (WorkOK => WorkOK')
  BY DEF RowsOK, RowState, StageOK, KeeperOK, WorkOK

(* setupInstance. *)
LEMMA SetUpEffect ==
  ASSUME UNCHANGED config, Types, NEW v \in VMs, CreateVM(v) \/ RecordVM(v)
  PROVE  Types' /\ VMStep(v)
<1> USE DEF WorkPCs, Unborn, Quiet, Fetching, Pausing
<1>0. /\ UNCHANGED <<mutex, stage, keeper>> /\ StageOK' /\ KeeperOK'
  BY Untouched DEF CreateVM, RecordVM, Types
<1>1. CASE CreateVM(v)
  <2>1. RowsOK' /\ \A w \in VMs : RowState(w)' = RowState(w)
    BY <1>1, Untouched DEF CreateVM, Types
  <2>2. CASE up' = [up EXCEPT ![v] = "on"] /\ Goto(v, "record")
    <3>1. /\ WorkOK' /\ (\A w \in VMs \ {v} : work'[w] = work[w])
          /\ work'[v].by = work[v].by /\ work'[v].pc = "record"
      BY <2>2, GotoEffect DEF Types
    <3>2. DOMAIN up' = VMs /\ \A w \in VMs \ {v} : up'[w] = up[w]
      BY <2>2 DEF Types
    <3> QED
      BY <1>0, <1>1, <2>1, <3>1, <3>2 DEF CreateVM, Types, VMStep, SetUpStep, Moves, RowStays, SameVM
  <2>3. CASE Goto(v, "failed") /\ UNCHANGED up
    <3>1. /\ WorkOK' /\ (\A w \in VMs \ {v} : work'[w] = work[w])
          /\ work'[v].by = work[v].by /\ EndsBadly(v)
      BY <2>3, GotoEffect DEF Types, EndsBadly
    <3>2. work[v].pc = "create" /\ work'[v].pc \in {"failed", "ended"}
      BY <1>1, <3>1 DEF CreateVM, EndsBadly
    <3> QED
      BY <1>0, <2>1, <2>3, <3>1, <3>2 DEF Types, VMStep, SetUpStep, Moves, RowStays, UpStays, SameVM
  <2> QED
    BY <1>1, <2>2, <2>3 DEF CreateVM
<1>2. CASE RecordVM(v)
  <2>1. work[v].pc = "record"
    BY <1>2 DEF RecordVM
  <2>2. CASE /\ Create(v, NewRow(work[v]))
             /\ work' = [work EXCEPT ![v].row = NewRow(work[v]),
                                     ![v].pc = IF work[v].by \in Stages THEN "ended" ELSE "connect"]
             /\ UNCHANGED up
    <3> DEFINE r == NewRow(work[v])
               p == IF work[v].by \in Stages THEN "ended" ELSE "connect"
    <3>1. IsRow(r) /\ r.state = IF work[v].by \in Stages THEN "inuse" ELSE "provisioning"
      BY NewRowFacts
    <3>2. p \in WorkPCs
      OBVIOUS
    <3>3. Create(v, r) /\ work' = [work EXCEPT ![v].row = r, ![v].pc = p]
      BY <2>2
    <3> HIDE DEF r, p
    <3>4. RowsOK' /\ RowState(v)' = r.state /\ \A w \in VMs \ {v} : RowState(w)' = RowState(w)
      BY <3>1, <3>3, CreateEffect DEF Types
    <3>5. /\ WorkOK' /\ \A w \in VMs \ {v} : work'[w] = work[w]
          /\ work'[v].by = work[v].by /\ work'[v].pc = p /\ work'[v].row = r
      BY <3>1, <3>2, <3>3 DEF Types, WorkOK, WorkFields
    <3>6. CASE work[v].by \in Stages
      <4>1. r.state = "inuse" /\ p = "ended"
        BY <3>1, <3>6 DEF p
      <4> QED
        BY <1>0, <2>1, <2>2, <3>4, <3>5, <3>6, <4>1
        DEF Types, VMStep, SetUpStep, Moves, UpStays, SameVM
    <3>7. CASE work[v].by \notin Stages
      <4>1. r.state = "provisioning" /\ p = "connect"
        BY <3>1, <3>7 DEF p
      <4> QED
        BY <1>0, <2>1, <2>2, <3>4, <3>5, <3>7, <4>1
        DEF Types, VMStep, SetUpStep, Moves, UpStays, SameVM
    <3> QED
      BY <3>6, <3>7
  <2>3. CASE UNCHANGED rows /\ up' = [up EXCEPT ![v] = "none"] /\ Goto(v, "failed")
    <3>1. /\ WorkOK' /\ (\A w \in VMs \ {v} : work'[w] = work[w])
          /\ work'[v].by = work[v].by /\ EndsBadly(v)
      BY <2>3, GotoEffect DEF Types, EndsBadly
    <3>2. RowsOK' /\ \A w \in VMs : RowState(w)' = RowState(w)
      BY <2>3, Untouched DEF Types
    <3>3. DOMAIN up' = VMs /\ up'[v] = "none" /\ \A w \in VMs \ {v} : up'[w] = up[w]
      BY <2>3 DEF Types
    <3>4. work'[v].pc \in {"failed", "ended"}
      BY <3>1 DEF EndsBadly
    <3> QED
      BY <1>0, <2>1, <3>1, <3>2, <3>3, <3>4 DEF Types, VMStep, SetUpStep, Moves, RowStays, SameVM
  <2>4. CASE UNCHANGED rows /\ Goto(v, "lost") /\ UNCHANGED up
    <3>1. /\ WorkOK' /\ (\A w \in VMs \ {v} : work'[w] = work[w])
          /\ work'[v].by = work[v].by /\ work'[v].pc = "lost"
      BY <2>4, GotoEffect DEF Types
    <3>2. RowsOK' /\ \A w \in VMs : RowState(w)' = RowState(w)
      BY <2>4, Untouched DEF Types
    <3> QED
      BY <1>0, <2>1, <2>4, <3>1, <3>2 DEF Types, VMStep, SetUpStep, Moves, RowStays, UpStays, SameVM
  <2> QED
    BY <1>2, <2>2, <2>3, <2>4 DEF RecordVM
<1> QED
  BY <1>1, <1>2

(* A goroutine that goes elsewhere and writes at most its row. *)
LEMMA GotoStep ==
  ASSUME UNCHANGED config, Types, NEW v \in VMs, NEW pc \in WorkPCs, Goto(v, pc), UNCHANGED <<mutex, stage, keeper>>
  PROVE  /\ WorkOK' /\ StageOK' /\ KeeperOK'
         /\ (\A w \in VMs \ {v} : work'[w] = work[w]) /\ work'[v].by = work[v].by
         /\ pc # "failed" => work'[v].pc = pc
         /\ pc = "failed" => work'[v].pc \in {"failed", "ended"}
<1>1. /\ WorkOK' /\ (\A w \in VMs \ {v} : work'[w] = work[w]) /\ work'[v].by = work[v].by
      /\ work'[v].pc = IF pc = "failed" /\ work[v].by \notin Stages THEN "ended" ELSE pc
  BY GotoEffect DEF Types
<1>2. StageOK' /\ KeeperOK'
  BY Untouched DEF Types
<1> QED
  BY <1>1, <1>2

(* The set-up of a warm VM, up to the row that is created. *)
LEMMA FetchEffect ==
  ASSUME UNCHANGED config, Types, NEW v \in VMs, WaitForConnectivity(v) \/ DestroyUnreachable(v) \/ MarkCreated(v)
  PROVE  Types' /\ VMStep(v)
<1> USE DEF WorkPCs, Unborn, Quiet, Fetching, Pausing
<1>0. UNCHANGED <<mutex, stage, keeper>>
  BY DEF WaitForConnectivity, DestroyUnreachable, MarkCreated
<1>1. CASE WaitForConnectivity(v)
  <2>1. \E pc \in {"ready", "destroy"} : Goto(v, pc)
    BY <1>1 DEF WaitForConnectivity
  <2>2. PICK pc \in {"ready", "destroy"} : Goto(v, pc)
    BY <2>1
  <2>3. /\ WorkOK' /\ StageOK' /\ KeeperOK'
        /\ (\A w \in VMs \ {v} : work'[w] = work[w]) /\ work'[v].by = work[v].by /\ work'[v].pc = pc
    BY <1>0, <2>2, GotoStep
  <2>4. RowsOK' /\ UNCHANGED up /\ \A w \in VMs : RowState(w)' = RowState(w)
    BY <1>1, Untouched DEF WaitForConnectivity, Types
  <2> QED
    BY <1>0, <1>1, <2>3, <2>4
    DEF WaitForConnectivity, Types, VMStep, FetchStep, Moves, RowStays, UpStays, SameVM
<1>2. CASE DestroyUnreachable(v)
  <2>1. CASE work[v].pc = "destroy" /\ up' = [up EXCEPT ![v] = "none"] /\ Goto(v, "delete") /\ UNCHANGED rows
    <3>1. /\ WorkOK' /\ StageOK' /\ KeeperOK'
          /\ (\A w \in VMs \ {v} : work'[w] = work[w]) /\ work'[v].by = work[v].by /\ work'[v].pc = "delete"
      BY <1>0, <2>1, GotoStep
    <3>2. RowsOK' /\ \A w \in VMs : RowState(w)' = RowState(w)
      BY <2>1, Untouched DEF Types
    <3>3. DOMAIN up' = VMs /\ up'[v] = "none" /\ \A w \in VMs \ {v} : up'[w] = up[w]
      BY <2>1 DEF Types
    <3> QED
      BY <1>0, <2>1, <3>1, <3>2, <3>3 DEF Types, VMStep, FetchStep, Moves, RowStays, SameVM
  <2>2. CASE work[v].pc = "destroy" /\ Goto(v, "ended") /\ UNCHANGED <<rows, up>>
    <3>1. /\ WorkOK' /\ StageOK' /\ KeeperOK'
          /\ (\A w \in VMs \ {v} : work'[w] = work[w]) /\ work'[v].by = work[v].by /\ work'[v].pc = "ended"
      BY <1>0, <2>2, GotoStep
    <3>2. RowsOK' /\ \A w \in VMs : RowState(w)' = RowState(w)
      BY <2>2, Untouched DEF Types
    <3> QED
      BY <1>0, <2>2, <3>1, <3>2 DEF Types, VMStep, FetchStep, Moves, RowStays, UpStays, SameVM
  <2>3. CASE work[v].pc = "delete" /\ Goto(v, "ended") /\ (Delete({v}) \/ UNCHANGED rows) /\ UNCHANGED up
    <3>1. /\ WorkOK' /\ StageOK' /\ KeeperOK'
          /\ (\A w \in VMs \ {v} : work'[w] = work[w]) /\ work'[v].by = work[v].by /\ work'[v].pc = "ended"
      BY <1>0, <2>3, GotoStep
    <3>2. CASE Delete({v})
      <4>1. RowsOK' /\ \A w \in VMs : RowState(w)' = IF w \in {v} THEN "absent" ELSE RowState(w)
        BY <3>2, DeleteEffect DEF Types
      <4> QED
        BY <1>0, <2>3, <3>1, <4>1 DEF Types, VMStep, FetchStep, Moves, UpStays, SameVM
    <3>3. CASE UNCHANGED rows
      <4>1. RowsOK' /\ \A w \in VMs : RowState(w)' = RowState(w)
        BY <3>3, Untouched DEF Types
      <4> QED
        BY <1>0, <2>3, <3>1, <4>1 DEF Types, VMStep, FetchStep, Moves, UpStays, SameVM
    <3> QED
      BY <2>3, <3>2, <3>3
  <2> QED
    BY <1>2, <2>1, <2>2, <2>3 DEF DestroyUnreachable
<1>3. CASE MarkCreated(v)
  <2>0. work[v].pc = "ready" /\ UNCHANGED up
    BY <1>3 DEF MarkCreated
  <2>1. CASE Goto(v, "ended") /\ UNCHANGED rows
    <3>1. /\ WorkOK' /\ StageOK' /\ KeeperOK'
          /\ (\A w \in VMs \ {v} : work'[w] = work[w]) /\ work'[v].by = work[v].by /\ work'[v].pc = "ended"
      BY <1>0, <2>1, GotoStep
    <3>2. RowsOK' /\ \A w \in VMs : RowState(w)' = RowState(w)
      BY <2>1, Untouched DEF Types
    <3> QED
      BY <1>0, <2>0, <3>1, <3>2 DEF Types, VMStep, FetchStep, Moves, RowStays, UpStays, SameVM
  <2>2. CASE Update(v, [work[v].row EXCEPT !.state = "created"])
    <3> DEFINE r == [work[v].row EXCEPT !.state = "created"]
    <3>1. IsRow(r) /\ r.state = "created"
      BY RowFacts DEF Types, WorkOK, States
    <3> HIDE DEF r
    <3>2. Update(v, r)
      BY <2>2 DEF r
    <3>3. /\ RowsOK' /\ RowState(v)' \in {"created", RowState(v)}
          /\ \A w \in VMs \ {v} : RowState(w)' = RowState(w)
      BY <3>1, <3>2, UpdateEffect DEF Types
    <3>4. CASE Goto(v, "ended")
      <4>1. /\ WorkOK' /\ StageOK' /\ KeeperOK'
            /\ (\A w \in VMs \ {v} : work'[w] = work[w]) /\ work'[v].by = work[v].by /\ work'[v].pc = "ended"
        BY <1>0, <3>4, GotoStep
      <4> QED
        BY <1>0, <2>0, <3>3, <4>1 DEF Types, VMStep, FetchStep, Moves, UpStays, SameVM
    <3>5. CASE work' = [work EXCEPT ![v].pc = "hibernate", ![v].tries = 1, ![v].row = RequestRow]
      <4>1. IsRow(RequestRow)
        BY RowFacts
      <4>2. /\ WorkOK' /\ (\A w \in VMs \ {v} : work'[w] = work[w])
            /\ work'[v].by = work[v].by /\ work'[v].pc = "hibernate"
        BY <3>5, <4>1 DEF Types, WorkOK, WorkFields
      <4>3. StageOK' /\ KeeperOK'
        BY <1>0, Untouched DEF Types
      <4> QED
        BY <1>0, <2>0, <3>3, <4>2, <4>3 DEF Types, VMStep, FetchStep, Moves, UpStays, SameVM
    <3> QED
      BY <1>3, <2>2, <3>4, <3>5, <2>1 DEF MarkCreated
  <2> QED
    BY <1>3, <2>1, <2>2 DEF MarkCreated
<1> QED
  BY <1>1, <1>2, <1>3

(* A locked write of a state into the row that is there. *)
LEMMA LockedEffect ==
  ASSUME UNCHANGED config, Types, NEW v \in VMs, NEW from, NEW x \in States, NEW to \in WorkPCs, to # "failed",
         \/ LockedUpdate(v, from, [rows[v] EXCEPT !.state = x], to)
         \/ LockedUpdate(v, from, [rows[v] EXCEPT !.state = x, !.hibernated = TRUE], to)
  PROVE  /\ Types' /\ UNCHANGED <<mutex, stage, keeper, up>> /\ ~mutex
         /\ \A w \in VMs \ {v} : SameVM(w)
         /\ work'[v].by = work[v].by /\ work[v].pc = from /\ work'[v].pc = to
         /\ RowState(v) # "absent" /\ RowState(v)' = x
<1>1. PICK r : /\ r \in {[rows[v] EXCEPT !.state = x], [rows[v] EXCEPT !.state = x, !.hibernated = TRUE]}
               /\ LockedUpdate(v, from, r, to)
  OBVIOUS
<1>2. Find(v) /\ v \in DOMAIN rows /\ IsRow(rows[v]) /\ RowState(v) # "absent"
  BY <1>1, Presence DEF LockedUpdate, Find, Types, RowsOK
<1>3. IsRow(r) /\ r.state = x
  <2>1. CASE r = [rows[v] EXCEPT !.state = x]
    BY <1>2, <2>1, RowFacts
  <2>2. CASE r = [rows[v] EXCEPT !.state = x, !.hibernated = TRUE]
    BY <1>2, <2>2 DEF IsRow, RowFields
  <2> QED
    BY <1>1, <2>1, <2>2
<1>4. Update(v, r) /\ Goto(v, to) /\ UNCHANGED <<mutex, stage, keeper, up>> /\ ~mutex /\ work[v].pc = from
  BY <1>1 DEF LockedUpdate, Locked
<1>5. /\ RowsOK' /\ RowState(v)' = x
      /\ \A w \in VMs \ {v} : RowState(w)' = RowState(w)
  BY <1>2, <1>3, <1>4, UpdateEffect DEF Types
<1>6. /\ WorkOK' /\ StageOK' /\ KeeperOK'
      /\ (\A w \in VMs \ {v} : work'[w] = work[w]) /\ work'[v].by = work[v].by /\ work'[v].pc = to
  BY <1>4, GotoStep
<1> QED
  BY <1>2, <1>4, <1>5, <1>6 DEF Types, SameVM

(* A locked section that fails. *)
LEMMA LockedErrorEffect ==
  ASSUME UNCHANGED config, Types, NEW v \in VMs, NEW from, NEW to \in WorkPCs,
         Locked(v, from), Goto(v, to), UNCHANGED <<rows, up, mutex, stage, keeper>>
  PROVE  /\ Types' /\ ~mutex /\ \A w \in VMs \ {v} : SameVM(w)
         /\ work'[v].by = work[v].by /\ work[v].pc = from
         /\ to # "failed" => work'[v].pc = to
         /\ to = "failed" => work'[v].pc \in {"failed", "ended"}
         /\ RowStays(v) /\ UpStays(v)
<1>1. /\ WorkOK' /\ StageOK' /\ KeeperOK'
      /\ (\A w \in VMs \ {v} : work'[w] = work[w]) /\ work'[v].by = work[v].by
      /\ to # "failed" => work'[v].pc = to
      /\ to = "failed" => work'[v].pc \in {"failed", "ended"}
  BY GotoStep
<1>2. RowsOK' /\ \A w \in VMs : RowState(w)' = RowState(w)
  BY Untouched DEF Types
<1> QED
  BY <1>1, <1>2 DEF Types, Locked, SameVM, RowStays, UpStays

(* The hibernation of a VM, and its suspension. *)
LEMMA PauseEffect ==
  ASSUME UNCHANGED config, Types, NEW v \in VMs,
         \/ Hibernate(v) \/ DriverHibernate(v) \/ HibernateFailed(v) \/ HibernateFinish(v)
         \/ FindOrCreateInstance(v)
  PROVE  Types' /\ VMStep(v)
<1> USE DEF WorkPCs, Unborn, Quiet, Fetching, Pausing
<1>1. CASE MarkHibernating(v)
  <2>1. /\ Types' /\ UNCHANGED <<mutex, stage, keeper, up>> /\ ~mutex
        /\ \A w \in VMs \ {v} : SameVM(w)
        /\ work'[v].by = work[v].by /\ work[v].pc = "hibernate" /\ work'[v].pc = "power"
        /\ RowState(v) # "absent" /\ RowState(v)' = "hibernating"
    BY <1>1, LockedEffect DEF MarkHibernating, States
  <2>2. RowState(v) # "inuse"
    BY <1>1 DEF MarkHibernating, RowState
  <2> QED
    BY <2>1, <2>2 DEF VMStep, PauseStep, Moves, UpStays
<1>2. CASE AlreadyInUse(v) \/ LockedError(v, "hibernate", "failed")
  <2>1. PICK to \in {"ended", "failed"} :
          Locked(v, "hibernate") /\ Goto(v, to) /\ UNCHANGED <<rows, up, mutex, stage, keeper>>
    BY <1>2 DEF AlreadyInUse, LockedError
  <2>2. /\ Types' /\ ~mutex /\ \A w \in VMs \ {v} : SameVM(w)
        /\ work'[v].by = work[v].by /\ work[v].pc = "hibernate" /\ work'[v].pc \in {"failed", "ended"}
        /\ RowStays(v) /\ UpStays(v)
    BY <2>1, LockedErrorEffect
  <2> QED
    BY <2>1, <2>2 DEF VMStep, PauseStep, Moves
<1>3. CASE DriverHibernate(v)
  <2>1. UNCHANGED <<rows, mutex, stage, keeper>> /\ work[v].pc = "power"
    BY <1>3 DEF DriverHibernate
  <2>2. RowsOK' /\ StageOK' /\ KeeperOK' /\ \A w \in VMs : RowState(w)' = RowState(w)
    BY <2>1, Untouched DEF Types
  <2>3. CASE up[v] # "none" /\ up' = [up EXCEPT ![v] = "off"] /\ Goto(v, "finish")
    <3>1. /\ WorkOK' /\ (\A w \in VMs \ {v} : work'[w] = work[w]) /\ work'[v].by = work[v].by /\ work'[v].pc = "finish"
      BY <2>1, <2>3, GotoStep
    <3>2. DOMAIN up' = VMs /\ up'[v] = "off" /\ up[v] # "none" /\ \A w \in VMs \ {v} : up'[w] = up[w]
      BY <2>3 DEF Types
    <3> QED
      BY <2>1, <2>2, <3>1, <3>2 DEF Types, VMStep, PauseStep, Moves, RowStays, SameVM
  <2>4. CASE /\ up' \in {up, [up EXCEPT ![v] = IF @ = "on" THEN "off" ELSE @]}
             /\ \E n \in {work[v].tries, MaxRetries} :
                  work' = [work EXCEPT ![v].pc = "revert", ![v].tries = n]
    <3>1. /\ WorkOK' /\ (\A w \in VMs \ {v} : work'[w] = work[w]) /\ work'[v].by = work[v].by /\ work'[v].pc = "revert"
      BY <2>4 DEF Types, WorkOK, WorkFields
    <3>2. DOMAIN up' = VMs /\ ((up'[v] = "none") <=> (up[v] = "none")) /\ \A w \in VMs \ {v} : up'[w] = up[w]
      BY <2>4 DEF Types
    <3> QED
      BY <2>1, <2>2, <3>1, <3>2 DEF Types, VMStep, PauseStep, Moves, RowStays, SameVM
  <2> QED
    BY <1>3, <2>3, <2>4 DEF DriverHibernate
<1>4. CASE HibernateFailed(v)
  <2>1. UNCHANGED <<up, mutex, stage, keeper>> /\ work[v].pc = "revert" /\ ~mutex
    BY <1>4 DEF HibernateFailed, Locked
  <2>2. /\ WorkOK' /\ (\A w \in VMs \ {v} : work'[w] = work[w]) /\ work'[v].by = work[v].by
        /\ work'[v].pc \in Quiet
    <3>1. CASE work' = [work EXCEPT ![v].pc = "hibernate", ![v].tries = @ + 1]
      BY <3>1 DEF Types, WorkOK, WorkFields
    <3>2. CASE Goto(v, "failed")
      BY <2>1, <3>2, GotoStep
    <3> QED
      BY <1>4, <3>1, <3>2 DEF HibernateFailed, Retry
  <2>3. /\ RowsOK' /\ \A w \in VMs \ {v} : RowState(w)' = RowState(w)
        /\ RowStays(v) \/ (RowState(v) # "absent" /\ RowState(v)' = "created")
    <3>1. CASE UNCHANGED rows
      BY <3>1, Untouched DEF Types, RowStays
    <3>2. CASE Find(v) /\ Update(v, [rows[v] EXCEPT !.state = "created"])
      <4> DEFINE r == [rows[v] EXCEPT !.state = "created"]
      <4>1. v \in DOMAIN rows /\ IsRow(rows[v]) /\ RowState(v) # "absent"
        BY <3>2, Presence DEF Find, Types, RowsOK
      <4>2. IsRow(r) /\ r.state = "created"
        BY <4>1, RowFacts DEF States
      <4>3. Update(v, r)
        BY <3>2
      <4> HIDE DEF r
      <4> QED
        BY <4>1, <4>2, <4>3, UpdateEffect DEF Types
    <3> QED
      BY <1>4, <3>1, <3>2 DEF HibernateFailed
  <2>4. StageOK' /\ KeeperOK'
    BY <2>1, Untouched DEF Types
  <2> QED
    BY <2>1, <2>2, <2>3, <2>4 DEF Types, VMStep, PauseStep, Moves, UpStays, SameVM
<1>5. CASE LockedUpdate(v, "finish", [rows[v] EXCEPT !.state = "created", !.hibernated = TRUE], "ended")
  <2>1. /\ Types' /\ UNCHANGED <<mutex, stage, keeper, up>> /\ ~mutex
        /\ \A w \in VMs \ {v} : SameVM(w)
        /\ work'[v].by = work[v].by /\ work[v].pc = "finish" /\ work'[v].pc = "ended"
        /\ RowState(v) # "absent" /\ RowState(v)' = "created"
    BY <1>5, LockedEffect DEF States
  <2> QED
    BY <2>1 DEF VMStep, PauseStep, Moves, UpStays
<1>6. CASE LockedError(v, "finish", "failed") \/ LockedError(v, "suspend", "failed")
  <2>1. PICK from \in {"finish", "suspend"} :
          Locked(v, from) /\ Goto(v, "failed") /\ UNCHANGED <<rows, up, mutex, stage, keeper>>
    BY <1>6 DEF LockedError
  <2>2. /\ Types' /\ ~mutex /\ \A w \in VMs \ {v} : SameVM(w)
        /\ work'[v].by = work[v].by /\ work[v].pc = from /\ work'[v].pc \in {"failed", "ended"}
        /\ RowStays(v) /\ UpStays(v)
    BY <2>1, LockedErrorEffect
  <2> QED
    BY <2>1, <2>2 DEF VMStep, PauseStep, Moves, RowStays
<1>7. CASE LockedUpdate(v, "suspend", [rows[v] EXCEPT !.state = "created"], "hibernate")
  <2>1. /\ Types' /\ UNCHANGED <<mutex, stage, keeper, up>> /\ ~mutex
        /\ \A w \in VMs \ {v} : SameVM(w)
        /\ work'[v].by = work[v].by /\ work[v].pc = "suspend" /\ work'[v].pc = "hibernate"
        /\ RowState(v) # "absent" /\ RowState(v)' = "created"
    BY <1>7, LockedEffect DEF States
  <2> QED
    BY <2>1 DEF VMStep, PauseStep, Moves, UpStays
<1>8. CASE /\ Locked(v, "suspend") /\ ~Find(v)
           /\ Create(v, [RequestRow EXCEPT !.state = "created"]) /\ Goto(v, "hibernate")
           /\ UNCHANGED <<up, mutex, stage, keeper>>
  <2> DEFINE r == [RequestRow EXCEPT !.state = "created"]
  <2>1. IsRow(r) /\ r.state = "created" /\ Create(v, r)
    BY <1>8, RowFacts DEF States
  <2> HIDE DEF r
  <2>2. RowsOK' /\ RowState(v)' = "created" /\ \A w \in VMs \ {v} : RowState(w)' = RowState(w)
    BY <2>1, CreateEffect DEF Types
  <2>3. /\ WorkOK' /\ StageOK' /\ KeeperOK' /\ (\A w \in VMs \ {v} : work'[w] = work[w])
        /\ work'[v].by = work[v].by /\ work'[v].pc = "hibernate" /\ work[v].pc = "suspend"
    BY <1>8, GotoStep DEF Locked
  <2> QED
    BY <1>8, <2>2, <2>3 DEF Types, VMStep, PauseStep, Moves, UpStays, SameVM
<1> QED
  BY <1>1, <1>2, <1>3, <1>4, <1>5, <1>6, <1>7, <1>8 DEF Hibernate, HibernateFinish, FindOrCreateInstance

(* Every step of a goroutine. *)
LEMMA WorkEffect == ASSUME UNCHANGED config, Types, NEW v \in VMs, Work(v) PROVE Types' /\ VMStep(v)
  BY SetUpEffect, FetchEffect, PauseEffect DEF Work

(* Recorded in terms of the state of the row. *)
LEMMA RecordedView ==
  ASSUME RowsOK
  PROVE  VMRecorded <=> (NamesFailed =>
           \A v \in VMs : up[v] # "none" => RowState(v) # "absent" \/ work[v].pc \in {"record", "lost"})
  BY Presence DEF VMRecorded, Find

(* The same in the next state. *)
LEMMA RecordedViewNext ==
  ASSUME UNCHANGED config, RowsOK'
  PROVE  VMRecorded' <=> (NamesFailed =>
           \A v \in VMs : up'[v] # "none" => RowState(v)' # "absent" \/ work'[v].pc \in {"record", "lost"})
<1>1. VMRecorded' <=> (NamesFailed => \A v \in VMs :
                         up'[v] # "none" => Find(v)' \/ work'[v].pc \in {"record", "lost"})
  BY DEF VMRecorded
<1>2. \A v \in VMs : Find(v)' <=> RowState(v)' # "absent"
  BY DEF Find, RowsOK, IsRow, States, RowState
<1> QED
  BY <1>1, <1>2

(* A goroutine keeps the invariant. *)
LEMMA WorkKeeps == ASSUME UNCHANGED config, Constants, IInv, NEW v \in VMs, Work(v) PROVE IInv'
<1> USE DEF Unborn, Quiet, Fetching, Pausing
<1>1. Types' /\ VMStep(v)
  BY WorkEffect DEF IInv
<1>2. /\ UNCHANGED <<mutex, stage, keeper>> /\ work'[v].by = work[v].by
      /\ \A w \in VMs \ {v} : SameVM(w)
      /\ SetUpStep(v) \/ FetchStep(v) \/ PauseStep(v)
  BY <1>1 DEF VMStep
<1>3. \A w \in VMs : work'[w].by = work[w].by
  BY <1>2 DEF SameVM
<1> HIDE DEF VMStep
<1>4. BirthInv'
  <2> SUFFICES ASSUME NEW w \in VMs, work'[w].pc \in Unborn
               PROVE  /\ RowState(w)' = "absent"
                      /\ \A s \in Stages : stage'[s].vm = w => stage'[s].pc = "creating" /\ work'[w].pc # "none"
                      /\ keeper'.pc \in {"destroy", "delete"} => w \notin keeper'.set
    BY DEF BirthInv
  <2>1. CASE w # v
    BY <1>2, <2>1 DEF IInv, BirthInv, SameVM
  <2>2. CASE w = v
    <3>1. work[v].pc \in {"create", "record"} /\ work'[v].pc # "none" /\ RowStays(v)
      BY <1>2, <2>2 DEF SetUpStep, FetchStep, PauseStep, Moves
    <3> QED
      BY <1>2, <2>2, <3>1 DEF IInv, BirthInv, RowStays
  <2> QED
    BY <2>1, <2>2
<1>5. GoneInv'
  <2>1. up[v] = "none" => up'[v] = "none" \/ work[v].pc = "create"
    BY <1>2 DEF SetUpStep, FetchStep, PauseStep, Moves, UpStays
  <2>2. ASSUME NEW w \in VMs, work'[w].pc \in {"none", "create", "delete"} PROVE up'[w] = "none"
    <3>1. CASE w # v
      BY <1>2, <2>2, <3>1 DEF IInv, GoneInv, SameVM
    <3>2. CASE w = v
      BY <1>2, <2>2, <3>2 DEF SetUpStep, FetchStep, PauseStep, Moves
    <3> QED
      BY <3>1, <3>2
  <2>3. ASSUME NEW s \in Stages, stage[s].pc = "deleting" PROVE up'[stage[s].vm] = "none"
    <3>1. stage[s].vm \in VMs /\ up[stage[s].vm] = "none"
      BY <2>3 DEF IInv, Types, StageOK, WithVM, GoneInv
    <3>2. stage[s].vm = v => work[v].pc # "create"
      BY <2>3 DEF IInv, BirthInv
    <3> QED
      BY <1>2, <2>1, <3>1, <3>2 DEF SameVM
  <2>4. ASSUME NamesFailed, keeper.pc = "delete", NEW w \in keeper.set PROVE up'[w] = "none"
    <3>1. w \in VMs /\ up[w] = "none"
      BY <2>4 DEF IInv, Types, KeeperOK, GoneInv
    <3>2. w = v => work[v].pc # "create"
      BY <2>4 DEF IInv, BirthInv
    <3> QED
      BY <1>2, <2>1, <3>1, <3>2 DEF SameVM
  <2> QED
    BY <1>2, <2>2, <2>3, <2>4 DEF GoneInv
<1>6. VMRecorded'
  <2> SUFFICES ASSUME NamesFailed, NEW w \in VMs, up'[w] # "none"
               PROVE  RowState(w)' # "absent" \/ work'[w].pc \in {"record", "lost"}
    BY <1>1, RecordedViewNext DEF Types
  <2>1. up[w] # "none" => RowState(w) # "absent" \/ work[w].pc \in {"record", "lost"}
    BY RecordedView DEF IInv, Types
  <2>2. CASE w # v
    BY <1>2, <2>1, <2>2 DEF SameVM
  <2>3. CASE w = v
    <3>1. work[v].pc \in {"create", "delete"} => up[v] = "none"
      BY DEF IInv, GoneInv
    <3> QED
      BY <1>2, <2>1, <2>3, <3>1 DEF SetUpStep, FetchStep, PauseStep, Moves, RowStays, UpStays
  <2> QED
    BY <2>2, <2>3
<1>7. MutexInv'
  BY <1>2 DEF IInv, MutexInv
<1>8. OwnerInv'
  <2>1. ASSUME NEW s \in Stages, stage[s].pc = "creating"
        PROVE  work'[stage[s].vm].by = s /\ work'[stage[s].vm].pc \in {"create", "record", "ended", "failed", "lost"}
    <3>1. /\ stage[s].vm \in VMs /\ work[stage[s].vm].by = s
          /\ work[stage[s].vm].pc \in {"create", "record", "ended", "failed", "lost"}
      BY <2>1 DEF IInv, OwnerInv, Types, StageOK, WithVM
    <3>2. stage[s].vm = v => work'[v].pc \in {"create", "record", "ended", "failed", "lost"}
      BY <1>2, <3>1 DEF SetUpStep, FetchStep, PauseStep, Moves
    <3> QED
      BY <1>2, <3>1, <3>2 DEF SameVM
  <2>2. ASSUME NEW s \in Gitspaces, s \in Stages, stage[s].vm # NoVM PROVE work'[stage[s].vm].by = s
    BY <1>3, <2>2 DEF IInv, OwnerInv, Types, StageOK
  <2>3. ASSUME NEW w \in VMs, work'[w].pc = "suspend" PROVE Gitspace(w)'
    <3>1. work[w].pc = "suspend"
      BY <1>2, <2>3 DEF SetUpStep, FetchStep, PauseStep, Moves, SameVM
    <3> QED
      BY <1>3, <3>1 DEF IInv, OwnerInv, Gitspace
  <2> QED
    BY <1>2, <2>1, <2>2, <2>3 DEF IInv, OwnerInv, Constants
<1>9. PoolInv'
  <2> SUFFICES ASSUME NEW w \in VMs, Good(w)'
               PROVE  /\ Resting(w)'
                      /\ \A s \in Stages : stage[s].vm = w => Served(w, s)'
                      /\ \A s, t \in Stages : stage[s].vm = w /\ stage[t].vm = w => s = t
    BY <1>2 DEF PoolInv
  <2>1. Good(w) /\ ~Gitspace(w)
    BY <1>2, <1>3 DEF Good, Gitspace, HandlerEnds
  <2>2. /\ Resting(w)
        /\ \A s \in Stages : stage[s].vm = w => Served(w, s)
        /\ \A s, t \in Stages : stage[s].vm = w /\ stage[t].vm = w => s = t
    BY <2>1 DEF IInv, PoolInv
  <2>3. CASE w # v
    BY <1>2, <2>2, <2>3 DEF SameVM, Resting, Served
  <2>4. CASE w = v
    <3>0. work[v].pc # "suspend"
      BY <2>1, <2>4 DEF IInv, OwnerInv
    <3>1. Resting(v)'
      BY <1>2, <2>2, <2>4, <3>0 DEF Resting, SetUpStep, FetchStep, PauseStep, Moves, RowStays
    <3>2. ASSUME NEW s \in Stages, stage[s].vm = v PROVE Served(v, s)'
      <4>1. Served(v, s)
        BY <2>2, <2>4, <3>2
      <4>2. CASE stage[s].pc = "creating"
        <5>1. work[v].by = s /\ work[v].pc \in {"create", "record", "ended", "failed", "lost"}
          BY <3>2, <4>2 DEF IInv, OwnerInv
        <5>2. RowState(v)' \in {"absent", "inuse"} /\ (work'[v].pc = "ended" => work'[v].row.state = "inuse")
          BY <1>2, <4>1, <4>2, <5>1
          DEF Served, SetUpStep, FetchStep, PauseStep, Moves, RowStays, EndsBadly
        <5> QED
          BY <1>2, <4>2, <5>2 DEF Served
      <4>3. CASE stage[s].pc # "creating"
        <5>1. work[v].pc \in Quiet
          BY <4>1, <4>3 DEF Served
        <5>2. ~mutex
          BY <1>2, <5>1 DEF SetUpStep, FetchStep, PauseStep, Moves
        <5>3. stage[s].pc # "claim"
          BY <5>2 DEF IInv, MutexInv
        <5>4. work'[v].pc \in Quiet /\ RowStays(v)
          BY <1>2, <4>1, <5>1, <5>3 DEF Served, SetUpStep, FetchStep, PauseStep, Moves
        <5> QED
          BY <1>2, <4>1, <4>3, <5>4 DEF Served, RowStays
      <4> QED
        BY <4>2, <4>3
    <3> QED
      BY <2>2, <2>4, <3>1, <3>2
  <2> QED
    BY <2>3, <2>4
<1> QED
  BY <1>1, <1>4, <1>5, <1>6, <1>7, <1>8, <1>9 DEF IInv

-----------------------------------------------------------------------------
(* The stages. *)

Steps(s, from, to) == stage[s].pc \in from /\ stage'[s].pc \in to
Stays(s) == stage'[s].vm = stage[s].vm
Leaves(s, from) == stage[s].pc \in from /\ stage'[s].pc = "done" /\ stage'[s].vm = NoVM
OneStage(s) == UNCHANGED keeper /\ \A t \in Stages \ {s} : stage'[t] = stage[t]
SameRows == \A w \in VMs : RowState(w)' = RowState(w)
SameRowsBut(v) == \A w \in VMs \ {v} : RowState(w)' = RowState(w)
Written(v, x) == RowState(v)' = x \/ (RowState(v) = "absent" /\ RowState(v)' = "absent")

(* A stage that moves, changing nothing but itself and the mutex. *)
Ways(s) ==
  \/ Steps(s, {"suspending"}, {"suspended", "serving"})
  \/ Steps(s, {"suspended"}, {"provisioned"}) /\ stage'[s].row.state = "inuse"
  \/ Steps(s, {"provisioned"}, {"started"}) /\ stage'[s].row = stage[s].row
  \/ /\ Steps(s, {"provisioned"}, {"started"}) /\ s \notin Gitspaces
     /\ RowState(stage[s].vm) # "absent" /\ stage'[s].row.state = RowState(stage[s].vm)
  \/ Steps(s, {"provisioned", "starting", "started", "check"}, {"lookup", "cleanup"})
  \/ Steps(s, {"check"}, {"serving"})
  \/ Steps(s, {"serving"}, {"lookup"})
  \/ Steps(s, {"serving"}, {"ending"}) /\ s \notin Pipelines
  \/ Steps(s, {"ending"}, {"terminate", "failed"})
  \/ Steps(s, {"destroy"}, {"ending"})
MoveStep(s) ==
  /\ OneStage(s) /\ UNCHANGED <<up, work>> /\ SameRows
  /\ \/ Steps(s, {"idle"}, {"create"}) /\ Stays(s) /\ UNCHANGED mutex
     \/ Steps(s, {"idle"}, {"list"}) /\ Stays(s) /\ s \notin Gitspaces /\ ~mutex /\ mutex' = TRUE
     \/ Steps(s, {"list"}, {"create"}) /\ Stays(s) /\ mutex' = FALSE
     \/ Leaves(s, {"list", "claim"}) /\ mutex' = FALSE
     \/ /\ Steps(s, {"list"}, {"claim"}) /\ UNCHANGED mutex
        /\ stage'[s].vm \in VMs /\ RowState(stage'[s].vm) = "created"
     \/ Leaves(s, {"provisioned", "cleanup", "lookup"}) /\ UNCHANGED mutex
     \/ Ways(s) /\ Stays(s) /\ UNCHANGED mutex

(* A stage that writes or deletes the row of its VM. *)
WriteStep(s) ==
  /\ OneStage(s) /\ UNCHANGED <<up, work, mutex>> /\ SameRowsBut(stage[s].vm) /\ Stays(s)
  /\ \/ Steps(s, {"starting"}, {"started"}) /\ stage'[s].row = stage[s].row /\ Written(stage[s].vm, stage[s].row.state)
     \/ Steps(s, {"started"}, {"check"}) /\ Written(stage[s].vm, stage[s].row.state)
     \/ Steps(s, {"terminate"}, {"destroy"}) /\ RowState(stage[s].vm)' \in {"terminating", RowState(stage[s].vm)}
     \/ Steps(s, {"deleting"}, {"done"}) /\ RowState(stage[s].vm)' \in {"absent", RowState(stage[s].vm)}

(* A stage that has its VM started or destroyed. *)
PowerStep(s) ==
  /\ OneStage(s) /\ UNCHANGED <<work, mutex>> /\ SameRows /\ Stays(s)
  /\ \A w \in VMs \ {stage[s].vm} : up'[w] = up[w]
  /\ \/ Steps(s, {"suspended"}, {"create"}) /\ up'[stage[s].vm] \in {up[stage[s].vm], "none"}
     \/ /\ Steps(s, {"provisioned"}, {"starting"}) /\ up[stage[s].vm] # "none" /\ up'[stage[s].vm] = "on"
        /\ s \in Gitspaces \/ (RowState(stage[s].vm) # "absent" /\ stage'[s].row.state = RowState(stage[s].vm))
     \/ Steps(s, {"cleanup", "lookup", "destroy"}, {"deleting"}) /\ up'[stage[s].vm] = "none"

(* A stage that has a VM created, for itself or in place of the one it took. *)
LaunchStep(s) ==
  /\ OneStage(s) /\ UNCHANGED up
  /\ \/ /\ Steps(s, {"claim"}, {"provisioned"}) /\ Stays(s) /\ mutex' = FALSE
        /\ stage'[s].row.state = "inuse" /\ Written(stage[s].vm, "inuse") /\ SameRowsBut(stage[s].vm)
        /\ Launched("pool")
     \/ /\ Steps(s, {"create"}, {"creating"}) /\ UNCHANGED mutex /\ SameRows /\ Launched(s)
        /\ stage'[s].vm \in VMs /\ work[stage'[s].vm].pc = "none"
        /\ work'[stage'[s].vm].pc = "create" /\ work'[stage'[s].vm].by = s
     \/ Leaves(s, {"create"}) /\ UNCHANGED mutex /\ SameRows /\ Launched(s)

(* A stage and the goroutine that works for it. *)
CallStep(s) ==
  /\ OneStage(s) /\ UNCHANGED <<up, mutex>> /\ SameRows
  /\ \A w \in VMs \ {stage[s].vm} : work'[w] = work[w]
  /\ work'[stage[s].vm].by = work[stage[s].vm].by
  /\ \/ /\ Steps(s, {"creating"}, {"provisioned"}) /\ Stays(s) /\ work[stage[s].vm].pc = "ended"
        /\ work'[stage[s].vm].pc = "ended" /\ stage'[s].row = work[stage[s].vm].row
     \/ Leaves(s, {"creating"}) /\ work'[stage[s].vm].pc = work[stage[s].vm].pc
     \/ Steps(s, {"serving"}, {"suspending"}) /\ Stays(s) /\ s \in Gitspaces /\ work'[stage[s].vm].pc = "suspend"

(* A stage that goes elsewhere, and nothing else happens. *)
LEMMA ToMove ==
  ASSUME UNCHANGED config, Types, NEW s \in Stages, NEW pc \in StagePCs \ NoVMYet,
         stage[s].pc \in WithVM \/ pc \in {"create", "done"},
         To(s, pc), UNCHANGED <<rows, up, work, keeper>>
  PROVE  /\ Types' /\ OneStage(s) /\ UNCHANGED <<up, work>> /\ SameRows /\ stage'[s].pc = pc
         /\ pc # "done" => Stays(s)
         /\ pc = "done" => stage'[s].vm = NoVM
<1>1. pc \in WithVM => stage[s].vm \in VMs
  BY DEF Types, StageOK, WithVM
<1>2. /\ StageOK' /\ \A t \in Stages \ {s} : stage'[t] = stage[t]
      /\ stage'[s].pc = pc /\ stage'[s].vm = IF pc = "done" THEN NoVM ELSE stage[s].vm
  BY <1>1, ToEffect DEF Types
<1>3. RowsOK' /\ WorkOK' /\ KeeperOK' /\ SameRows
  BY Untouched DEF Types, SameRows
<1> QED
  BY <1>2, <1>3 DEF Types, OneStage, Stays

(* A stage that goes on with the VM it has is given a row, or keeps it. *)
LEMMA PcRowEffect ==
  ASSUME UNCHANGED config, Types, NEW s \in Stages, NEW pc \in WithVM, stage[s].pc \in WithVM, NEW row, IsRow(row),
         stage' = [stage EXCEPT ![s].pc = pc, ![s].row = row], UNCHANGED keeper
  PROVE  StageOK' /\ KeeperOK' /\ OneStage(s) /\ Stays(s) /\ stage'[s].pc = pc /\ stage'[s].row = row
  BY DEF Types, StageOK, StageFields, WithVM, StagePCs, NoVMYet, KeeperOK, OneStage, Stays

(* The same with its row as it was. *)
LEMMA PcEffect ==
  ASSUME UNCHANGED config, Types, NEW s \in Stages, NEW pc \in WithVM \cup {"done"}, stage[s].pc \in WithVM,
         stage' = [stage EXCEPT ![s].pc = pc], UNCHANGED keeper
  PROVE  StageOK' /\ KeeperOK' /\ OneStage(s) /\ Stays(s) /\ stage'[s].pc = pc /\ stage'[s].row = stage[s].row
  BY DEF Types, StageOK, StageFields, WithVM, StagePCs, NoVMYet, KeeperOK, OneStage, Stays

(* Provision and its look at the pool. *)
LEMMA ProvisionEffect ==
  ASSUME UNCHANGED config, Types, NEW s \in Stages, Provision(s) \/ ProvisionFromPool(s)
  PROVE  Types' /\ MoveStep(s)
<1> USE DEF StagePCs, NoVMYet, WithVM
<1>0. UNCHANGED <<rows, up, work, keeper>>
  BY DEF Provision, ProvisionFromPool
<1>1. RowsOK' /\ WorkOK' /\ KeeperOK' /\ SameRows
  BY <1>0, Untouched DEF Types, SameRows
<1>2. CASE stage[s].pc = "idle" /\ To(s, "create") /\ UNCHANGED mutex
  <2>1. Types' /\ OneStage(s) /\ stage'[s].pc = "create" /\ Stays(s)
    BY <1>0, <1>2, ToMove
  <2> QED
    BY <1>0, <1>1, <1>2, <2>1 DEF MoveStep, Steps
<1>3. CASE stage[s].pc = "idle" /\ s \notin Gitspaces /\ ~mutex /\ mutex' = TRUE /\ To(s, "list")
  <2>1. IsRow(RequestRow) /\ stage[s].vm = NoVM
    BY <1>3, RowFacts DEF Types, StageOK
  <2>2. stage' = [stage EXCEPT ![s] = [pc |-> "list", vm |-> NoVM, row |-> RequestRow]]
    BY <1>3, <2>1 DEF To
  <2>3. /\ StageOK' /\ (\A t \in Stages \ {s} : stage'[t] = stage[t])
        /\ stage'[s].pc = "list" /\ stage'[s].vm = NoVM
    BY <2>1, <2>2 DEF Types, StageOK, StageFields
  <2> QED
    BY <1>0, <1>1, <1>3, <2>1, <2>3 DEF Types, MoveStep, OneStage, Steps, Stays
<1>4. CASE stage[s].pc = "list" /\ mutex' = FALSE /\ (To(s, "done") \/ To(s, "create"))
  <2>1. CASE To(s, "done")
    <3>1. Types' /\ OneStage(s) /\ stage'[s].pc = "done" /\ stage'[s].vm = NoVM
      BY <1>0, <2>1, ToMove
    <3> QED
      BY <1>0, <1>1, <1>4, <3>1 DEF MoveStep, Leaves
  <2>2. CASE To(s, "create")
    <3>1. Types' /\ OneStage(s) /\ stage'[s].pc = "create" /\ Stays(s)
      BY <1>0, <2>2, ToMove
    <3> QED
      BY <1>0, <1>1, <1>4, <3>1 DEF MoveStep, Steps
  <2> QED
    BY <1>4, <2>1, <2>2
<1>5. ASSUME stage[s].pc = "list", UNCHANGED mutex, NEW v \in Oldest(List({"created"})),
             stage' = [stage EXCEPT ![s] = [pc |-> "claim", vm |-> v, row |-> rows[v]]]
      PROVE  Types' /\ MoveStep(s)
  <2>1. v \in DOMAIN rows /\ rows[v].state = "created"
    BY DEF Oldest, List
  <2>2. v \in VMs /\ IsRow(rows[v]) /\ RowState(v) = "created"
    BY <2>1 DEF Types, RowsOK, RowState
  <2>3. /\ StageOK' /\ (\A t \in Stages \ {s} : stage'[t] = stage[t])
        /\ stage'[s].pc = "claim" /\ stage'[s].vm = v
    BY <1>5, <2>2 DEF Types, StageOK, StageFields
  <2> QED
    BY <1>0, <1>1, <1>5, <2>2, <2>3 DEF Types, MoveStep, OneStage, Steps
<1> QED
  BY <1>2, <1>3, <1>4, <1>5 DEF Provision, ProvisionFromPool

(* What StartInstance reads, and what a woken gitspace has, is a row. *)
LEMMA RowsRead ==
  /\ \A n : LET r == [RequestRow EXCEPT !.state = "inuse", !.hibernated = TRUE, !.started = n]
            IN IsRow(r) /\ r.state = "inuse"
  /\ \A r : IsRow(r) => IsRow(Claimed(r)) /\ Claimed(r).state = "inuse"
  /\ \A h : IsRow([RequestRow EXCEPT !.hibernated = h])
<1>1. IsRow(RequestRow)
  BY RowFacts
<1>2. \A r, n : IsRow(r) => LET q == [r EXCEPT !.state = "inuse", !.hibernated = TRUE, !.started = n]
                            IN IsRow(q) /\ q.state = "inuse"
  BY DEF IsRow, RowFields, States
<1>3. \A r, n : IsRow(r) => /\ IsRow([r EXCEPT !.state = "inuse", !.started = n])
                           /\ [r EXCEPT !.state = "inuse", !.started = n].state = "inuse"
  BY DEF IsRow, RowFields, States
<1>4. \A r : IsRow(r) => IsRow(Claimed(r)) /\ Claimed(r).state = "inuse"
  BY <1>3 DEF Claimed
<1>5. \A h : IsRow([RequestRow EXCEPT !.hibernated = h])
  BY <1>1, RowFacts
<1> QED
  BY <1>1, <1>2, <1>4, <1>5

(* The stage goes on with the VM it has. *)
LEMMA GoesOnEffect ==
  ASSUME UNCHANGED config, Types, NEW s \in Stages, HealthAndSetup(s) \/ EndOfStage(s)
  PROVE  Types' /\ MoveStep(s)
<1> USE DEF StagePCs, NoVMYet, WithVM
<1>0. UNCHANGED <<rows, up, work, keeper, mutex>> /\ stage[s].pc \in {"check", "serving"}
  BY DEF HealthAndSetup, EndOfStage
<1>1. PICK pc \in {"serving", "lookup", "cleanup", "ending"} :
        /\ To(s, pc) 
        /\ stage[s].pc = "check" => pc # "ending"
        /\ stage[s].pc = "serving" => pc \notin {"serving", "cleanup"} /\ (pc = "ending" => s \notin Pipelines)
  BY DEF HealthAndSetup, EndOfStage, SetupFailed
<1>2. Types' /\ OneStage(s) /\ SameRows /\ stage'[s].pc = pc /\ Stays(s)
  BY <1>0, <1>1, ToMove
<1> QED
  BY <1>0, <1>1, <1>2 DEF MoveStep, Ways, Steps

(* processExistingInstance wakes the VM of a gitspace or gives it up. *)
LEMMA ExistingEffect ==
  ASSUME UNCHANGED config, Types, NEW s \in Stages, ProcessExistingInstance(s)
  PROVE  Types' /\ (MoveStep(s) \/ PowerStep(s))
<1> USE DEF StagePCs, NoVMYet, WithVM
<1>0. UNCHANGED <<rows, mutex, work, keeper>> /\ stage[s].pc = "suspended"
  BY DEF ProcessExistingInstance
<1>1. RowsOK' /\ WorkOK' /\ KeeperOK' /\ SameRows
  BY <1>0, Untouched DEF Types, SameRows
<1>2. CASE /\ stage' = [stage EXCEPT ![s].pc = "provisioned", ![s].row = [RequestRow EXCEPT
                                    !.state = "inuse", !.hibernated = TRUE, !.started = Now]]
           /\ UNCHANGED up
  <2> DEFINE r == [RequestRow EXCEPT !.state = "inuse", !.hibernated = TRUE, !.started = Now]
  <2>1. IsRow(r) /\ r.state = "inuse" /\ stage' = [stage EXCEPT ![s].pc = "provisioned", ![s].row = r]
    BY <1>2, RowsRead
  <2> HIDE DEF r
  <2>2. StageOK' /\ OneStage(s) /\ Stays(s) /\ stage'[s].pc = "provisioned" /\ stage'[s].row.state = "inuse"
    BY <1>0, <2>1, PcRowEffect
  <2> QED
    BY <1>0, <1>1, <1>2, <2>2 DEF Types, MoveStep, Ways, Steps
<1>3. CASE To(s, "create") /\ up' \in {up, [up EXCEPT ![stage[s].vm] = "none"]}
  <2>1. StageOK' /\ OneStage(s) /\ stage'[s].pc = "create" /\ Stays(s)
    BY <1>0, <1>3, ToEffect DEF Types, OneStage, Stays
  <2>2. stage[s].vm \in VMs
    BY <1>0 DEF Types, StageOK
  <2>3. /\ DOMAIN up' = VMs /\ up'[stage[s].vm] \in {up[stage[s].vm], "none"}
        /\ \A w \in VMs \ {stage[s].vm} : up'[w] = up[w]
    BY <1>3, <2>2 DEF Types
  <2> QED
    BY <1>0, <1>1, <2>1, <2>3 DEF Types, PowerStep, Steps
<1> QED
  BY <1>2, <1>3 DEF ProcessExistingInstance

(* StartInstance goes on, starts the VM or gives up. *)
LEMMA StartEffect ==
  ASSUME UNCHANGED config, Types, NEW s \in Stages, StartInstance(s)
  PROVE  Types' /\ (MoveStep(s) \/ PowerStep(s))
<1> USE DEF StagePCs, NoVMYet, WithVM
<1> DEFINE v == stage[s].vm
           inst == IF s \in Gitspaces THEN [RequestRow EXCEPT !.hibernated = TRUE] ELSE rows[v]
<1>0. UNCHANGED <<rows, mutex, work, keeper>> /\ stage[s].pc = "provisioned"
  BY DEF StartInstance
<1>1. RowsOK' /\ WorkOK' /\ KeeperOK' /\ SameRows
  BY <1>0, Untouched DEF Types, SameRows
<1>2. stage[s].vm \in VMs
  BY <1>0 DEF Types, StageOK
<1>3. CASE stage' = [stage EXCEPT ![s].pc = "started"] /\ UNCHANGED up
  <2>1. StageOK' /\ OneStage(s) /\ Stays(s) /\ stage'[s].pc = "started" /\ stage'[s].row = stage[s].row
    BY <1>0, <1>3, PcEffect
  <2> QED
    BY <1>0, <1>1, <1>3, <2>1 DEF Types, MoveStep, Ways, Steps
<1>4. CASE To(s, "done") /\ UNCHANGED up
  <2>1. Types' /\ OneStage(s) /\ stage'[s].pc = "done" /\ stage'[s].vm = NoVM
    BY <1>0, <1>4, ToMove
  <2> QED
    BY <1>0, <1>1, <1>4, <2>1 DEF MoveStep, Leaves
<1>5. CASE To(s, "lookup") /\ UNCHANGED up
  <2>1. Types' /\ OneStage(s) /\ stage'[s].pc = "lookup" /\ Stays(s)
    BY <1>0, <1>5, ToMove
  <2> QED
    BY <1>0, <1>1, <1>5, <2>1 DEF MoveStep, Ways, Steps
<1>6. ASSUME s \in Gitspaces \/ Find(v)
      PROVE  IsRow(inst) /\ (s \notin Gitspaces => RowState(v) # "absent" /\ inst.state = RowState(v))
  <2>1. CASE s \in Gitspaces
    BY <2>1, RowsRead
  <2>2. CASE s \notin Gitspaces /\ Find(v)
    <3>1. v \in DOMAIN rows /\ IsRow(rows[v])
      BY <2>2 DEF Find, Types, RowsOK
    <3> QED
      BY <1>2, <2>2, <3>1, Presence DEF RowState, Types
  <2> QED
    BY <1>6, <2>1, <2>2
<1>7. CASE /\ s \in Gitspaces \/ Find(v)
           /\ ~inst.hibernated /\ UNCHANGED up
           /\ stage' = [stage EXCEPT ![s].pc = "started", ![s].row = inst]
  <2>1. s \notin Gitspaces
    BY <1>7 DEF RequestRow
  <2>2. IsRow(inst) /\ RowState(v) # "absent" /\ inst.state = RowState(v)
    BY <1>6, <1>7, <2>1
  <2>3. stage' = [stage EXCEPT ![s].pc = "started", ![s].row = inst]
    BY <1>7
  <2> HIDE DEF inst, v
  <2>4. StageOK' /\ OneStage(s) /\ Stays(s) /\ stage'[s].pc = "started" /\ stage'[s].row = inst
    BY <1>0, <2>2, <2>3, PcRowEffect
  <2> QED
    BY <1>0, <1>1, <1>7, <2>1, <2>2, <2>4 DEF Types, MoveStep, Ways, Steps, v
<1>8. CASE /\ s \in Gitspaces \/ Find(v)
           /\ up[v] # "none" /\ up' = [up EXCEPT ![v] = "on"]
           /\ stage' = [stage EXCEPT ![s].pc = "starting", ![s].row = [inst EXCEPT !.hibernated = FALSE]]
  <2>1. /\ IsRow(inst) /\ (s \notin Gitspaces => RowState(v) # "absent" /\ inst.state = RowState(v))
        /\ stage' = [stage EXCEPT ![s].pc = "starting", ![s].row = [inst EXCEPT !.hibernated = FALSE]]
    BY <1>6, <1>8
  <2> HIDE DEF inst
  <2> DEFINE r == [inst EXCEPT !.hibernated = FALSE]
  <2>2. IsRow(r) /\ r.state = inst.state /\ stage' = [stage EXCEPT ![s].pc = "starting", ![s].row = r]
    BY <2>1, RowFacts
  <2> HIDE DEF r
  <2>3. StageOK' /\ OneStage(s) /\ Stays(s) /\ stage'[s].pc = "starting" /\ stage'[s].row = r
    BY <1>0, <2>2, PcRowEffect
  <2>4. DOMAIN up' = VMs /\ up'[v] = "on" /\ \A w \in VMs \ {v} : up'[w] = up[w]
    BY <1>2, <1>8 DEF Types
  <2> QED
    BY <1>0, <1>1, <1>8, <2>1, <2>2, <2>3, <2>4 DEF Types, PowerStep, Steps
<1> QED
  BY <1>3, <1>4, <1>5, <1>7, <1>8 DEF StartInstance

(* A stage that goes elsewhere while its VM or its row is changed. *)
LEMMA ToStage ==
  ASSUME UNCHANGED config, Types, NEW s \in Stages, NEW pc \in WithVM \cup {"done"},
         pc \in WithVM => stage[s].vm \in VMs,
         To(s, pc), UNCHANGED keeper
  PROVE  /\ StageOK' /\ KeeperOK' /\ OneStage(s) /\ stage'[s].pc = pc
         /\ pc # "done" => Stays(s)
         /\ pc = "done" => stage'[s].vm = NoVM
<1>1. pc \in StagePCs \ NoVMYet
  BY DEF StagePCs, NoVMYet, WithVM
<1>2. /\ StageOK' /\ \A t \in Stages \ {s} : stage'[t] = stage[t]
      /\ stage'[s].pc = pc /\ stage'[s].vm = IF pc = "done" THEN NoVM ELSE stage[s].vm
  BY <1>1, ToEffect DEF Types
<1> QED
  BY <1>2, Untouched DEF Types, OneStage, Stays

(* The writes of a set-up. *)
LEMMA WriteRowEffect ==
  ASSUME UNCHANGED config, Types, NEW s \in Stages, WriteRow(s)
  PROVE  Types' /\ (MoveStep(s) \/ WriteStep(s))
<1> USE DEF StagePCs, NoVMYet, WithVM
<1>0. UNCHANGED <<up, mutex, work, keeper>> /\ stage[s].pc \in {"starting", "started"}
  BY DEF WriteRow
<1>1. WorkOK' /\ KeeperOK' /\ DOMAIN up' = VMs
  BY <1>0, Untouched DEF Types
<1>2. stage[s].vm \in VMs /\ IsRow(stage[s].row)
  BY <1>0 DEF Types, StageOK
<1>3. ASSUME Update(stage[s].vm, stage[s].row), Stays(s)
      PROVE  RowsOK' /\ SameRowsBut(stage[s].vm) /\ Written(stage[s].vm, stage[s].row.state)
  <2>1. PICK v, r : v \in VMs /\ v = stage[s].vm /\ r = stage[s].row
    BY <1>2
  <2>2. /\ RowsOK' /\ \A w \in VMs \ {v} : RowState(w)' = RowState(w)
        /\ RowState(v)' = r.state \/ (RowState(v) = "absent" /\ RowState(v)' = "absent")
    BY <1>2, <1>3, <2>1, UpdateEffect DEF Types
  <2>3. SameRowsBut(v) /\ Written(v, r.state) /\ stage'[s].vm = v
    BY <1>3, <2>1, <2>2 DEF SameRowsBut, Written, Stays
  <2> QED
    BY <2>1, <2>2, <2>3 DEF SameRowsBut, Written, RowState
<1>4. CASE stage[s].pc = "starting" /\ Update(stage[s].vm, stage[s].row) /\ stage' = [stage EXCEPT ![s].pc = "started"]
  <2>1. StageOK' /\ OneStage(s) /\ Stays(s) /\ stage'[s].pc = "started" /\ stage'[s].row = stage[s].row
    BY <1>0, <1>4, PcEffect
  <2> QED
    BY <1>0, <1>1, <1>3, <1>4, <2>1 DEF Types, WriteStep, Steps
<1>5. CASE stage[s].pc = "started" /\ Update(stage[s].vm, stage[s].row) /\ To(s, "check")
  <2>1. StageOK' /\ OneStage(s) /\ Stays(s) /\ stage'[s].pc = "check"
    BY <1>0, <1>2, <1>5, ToStage
  <2> QED
    BY <1>0, <1>1, <1>3, <1>5, <2>1 DEF Types, WriteStep, Steps
<1>6. CASE To(s, SetupFailed(s)) /\ UNCHANGED rows
  <2>1. PICK pc \in {"lookup", "cleanup"} : To(s, pc)
    BY <1>6 DEF SetupFailed
  <2>2. Types' /\ OneStage(s) /\ SameRows /\ stage'[s].pc = pc /\ Stays(s)
    BY <1>0, <1>6, <2>1, ToMove
  <2> QED
    BY <1>0, <2>1, <2>2 DEF MoveStep, Ways, Steps
<1> QED
  BY <1>4, <1>5, <1>6 DEF WriteRow

(* The handler's end of a stage. *)
LEMMA HandleDestroyEffect ==
  ASSUME UNCHANGED config, Types, NEW s \in Stages, HandleDestroy(s)
  PROVE  Types' /\ (MoveStep(s) \/ WriteStep(s))
<1> USE DEF StagePCs, NoVMYet, WithVM
<1>0. UNCHANGED <<up, mutex, work, keeper>> /\ stage[s].pc \in {"ending", "terminate"}
  BY DEF HandleDestroy
<1>1. WorkOK' /\ KeeperOK' /\ DOMAIN up' = VMs
  BY <1>0, Untouched DEF Types
<1>2. stage[s].vm \in VMs /\ IsRow(stage[s].row) /\ IsRow(RequestRow)
  BY <1>0, RowFacts DEF Types, StageOK
<1>3. CASE /\ stage[s].pc = "ending"
           /\ s \in Gitspaces \/ Find(stage[s].vm)
           /\ stage' = [stage EXCEPT ![s].pc = "terminate",
                             ![s].row = IF s \in Gitspaces THEN RequestRow ELSE rows[stage[s].vm]]
           /\ UNCHANGED rows
  <2> DEFINE r == IF s \in Gitspaces THEN RequestRow ELSE rows[stage[s].vm]
  <2>1. IsRow(r) /\ stage' = [stage EXCEPT ![s].pc = "terminate", ![s].row = r]
    BY <1>2, <1>3 DEF Find, Types, RowsOK
  <2> HIDE DEF r
  <2>2. StageOK' /\ OneStage(s) /\ Stays(s) /\ stage'[s].pc = "terminate"
    BY <1>0, <2>1, PcRowEffect
  <2>3. RowsOK' /\ SameRows
    BY <1>3, Untouched DEF Types, SameRows
  <2> QED
    BY <1>0, <1>1, <1>3, <2>2, <2>3 DEF Types, MoveStep, Ways, Steps
<1>4. CASE stage[s].pc = "ending" /\ To(s, "failed") /\ UNCHANGED rows
  <2>1. Types' /\ OneStage(s) /\ SameRows /\ stage'[s].pc = "failed" /\ Stays(s)
    BY <1>0, <1>4, ToMove
  <2> QED
    BY <1>0, <1>4, <2>1 DEF MoveStep, Ways, Steps
<1>5. CASE /\ stage[s].pc = "terminate" /\ To(s, "destroy")
           /\ Update(stage[s].vm, [stage[s].row EXCEPT !.state = "terminating"]) \/ UNCHANGED rows
  <2>1. StageOK' /\ OneStage(s) /\ Stays(s) /\ stage'[s].pc = "destroy"
    BY <1>0, <1>2, <1>5, ToStage
  <2>2. PICK v, r : v \in VMs /\ v = stage[s].vm /\ r = stage[s].row /\ stage'[s].vm = v
    BY <1>2, <2>1 DEF Stays
  <2>3. RowsOK' /\ SameRowsBut(v) /\ RowState(v)' \in {"terminating", RowState(v)}
    <3>1. CASE UNCHANGED rows
      BY <2>2, <3>1, Untouched DEF Types, SameRowsBut
    <3>2. CASE Update(v, [r EXCEPT !.state = "terminating"])
      <4> DEFINE q == [r EXCEPT !.state = "terminating"]
      <4>0. IsRow(r)
        BY <1>2, <2>2
      <4>1. IsRow(q) /\ q.state = "terminating"
        BY <4>0, RowFacts DEF States
      <4>2. Update(v, q)
        BY <3>2
      <4> HIDE DEF q
      <4> QED
        BY <2>2, <4>1, <4>2, UpdateEffect DEF Types, SameRowsBut
    <3> QED
      BY <1>5, <2>2, <3>1, <3>2
  <2>4. SameRowsBut(stage[s].vm) /\ RowState(stage[s].vm)' \in {"terminating", RowState(stage[s].vm)}
    BY <2>2, <2>3 DEF SameRowsBut, RowState
  <2> QED
    BY <1>0, <1>1, <1>5, <2>1, <2>3, <2>4 DEF Types, WriteStep, Steps
<1> QED
  BY <1>3, <1>4, <1>5 DEF HandleDestroy

(* Destroy: the VM, then the row. *)
LEMMA DestroyEffect ==
  ASSUME UNCHANGED config, Types, NEW s \in Stages, Destroy(s)
  PROVE  Types' /\ (MoveStep(s) \/ WriteStep(s) \/ PowerStep(s))
<1> USE DEF StagePCs, NoVMYet, WithVM
<1>0. UNCHANGED <<mutex, work, keeper>> /\ stage[s].pc \in {"cleanup", "lookup", "destroy", "deleting"}
  BY DEF Destroy
<1>1. WorkOK' /\ KeeperOK'
  BY <1>0, Untouched DEF Types
<1>2. stage[s].vm \in VMs
  BY <1>0 DEF Types, StageOK
<1>3. CASE /\ stage[s].pc \in {"cleanup", "lookup", "destroy"} /\ UNCHANGED rows
           /\ up' = [up EXCEPT ![stage[s].vm] = "none"] /\ To(s, "deleting")
  <2>1. StageOK' /\ OneStage(s) /\ Stays(s) /\ stage'[s].pc = "deleting"
    BY <1>0, <1>2, <1>3, ToStage
  <2>2. RowsOK' /\ SameRows
    BY <1>3, Untouched DEF Types, SameRows
  <2>3. DOMAIN up' = VMs /\ up'[stage[s].vm] = "none" /\ \A w \in VMs \ {stage[s].vm} : up'[w] = up[w]
    BY <1>2, <1>3 DEF Types
  <2> QED
    BY <1>0, <1>1, <1>3, <2>1, <2>2, <2>3 DEF Types, PowerStep, Steps
<1>4. CASE stage[s].pc \in {"cleanup", "lookup"} /\ To(s, "done") /\ UNCHANGED <<up, rows>>
  <2>1. Types' /\ OneStage(s) /\ SameRows /\ stage'[s].pc = "done" /\ stage'[s].vm = NoVM
    BY <1>0, <1>4, ToMove
  <2> QED
    BY <1>0, <1>4, <2>1 DEF MoveStep, Leaves
<1>5. CASE stage[s].pc = "destroy" /\ To(s, "ending") /\ UNCHANGED <<up, rows>>
  <2>1. Types' /\ OneStage(s) /\ SameRows /\ stage'[s].pc = "ending" /\ Stays(s)
    BY <1>0, <1>5, ToMove
  <2> QED
    BY <1>0, <1>5, <2>1 DEF MoveStep, Ways, Steps
<1>6. CASE /\ stage[s].pc = "deleting" /\ stage' = [stage EXCEPT ![s].pc = "done"]
           /\ Delete({stage[s].vm}) \/ UNCHANGED rows
           /\ UNCHANGED up
  <2>1. StageOK' /\ OneStage(s) /\ Stays(s) /\ stage'[s].pc = "done"
    BY <1>0, <1>6, PcEffect
  <2>2. RowsOK' /\ SameRowsBut(stage[s].vm) /\ RowState(stage[s].vm)' \in {"absent", RowState(stage[s].vm)}
    BY <1>2, <1>6, Untouched, DeleteEffect DEF Types, SameRowsBut
  <2> QED
    BY <1>0, <1>1, <1>6, <2>1, <2>2 DEF Types, WriteStep, Steps
<1> QED
  BY <1>3, <1>4, <1>5, <1>6 DEF Destroy

(* Claim makes the row of the free VM its own and replaces the VM; the     *)
(* creation for the stage itself launches one.                             *)
LEMMA LaunchStepEffect ==
  ASSUME UNCHANGED config, Types, NEW s \in Stages, Claim(s) \/ CreateForStage(s)
  PROVE  Types' /\ (MoveStep(s) \/ LaunchStep(s))
<1> USE DEF StagePCs, NoVMYet, WithVM
<1>0. UNCHANGED <<up, keeper>>
  BY DEF Claim, CreateForStage
<1>1. CASE /\ stage[s].pc = "claim" /\ mutex' = FALSE
           /\ Update(stage[s].vm, Claimed(stage[s].row))
           /\ work' = Launch("pool", <<BaseGroup>>)
           /\ stage' = [stage EXCEPT ![s].pc = "provisioned", ![s].row = Claimed(@)]
  <2>1. PICK v, r : v \in VMs /\ v = stage[s].vm /\ r = Claimed(stage[s].row) /\ IsRow(r) /\ r.state = "inuse"
    BY <1>1, RowsRead DEF Types, StageOK
  <2>2. stage' = [stage EXCEPT ![s].pc = "provisioned", ![s].row = r] /\ Update(v, r)
    BY <1>1, <2>1
  <2>3. StageOK' /\ KeeperOK' /\ OneStage(s) /\ Stays(s) /\ stage'[s].pc = "provisioned" /\ stage'[s].row = r
    BY <1>0, <1>1, <2>1, <2>2, PcRowEffect
  <2>4. /\ RowsOK' /\ SameRowsBut(v)
        /\ RowState(v)' = "inuse" \/ (RowState(v) = "absent" /\ RowState(v)' = "absent")
    BY <2>1, <2>2, UpdateEffect DEF Types, SameRowsBut
  <2>5. SameRowsBut(stage[s].vm) /\ Written(stage[s].vm, "inuse")
    BY <2>1, <2>3, <2>4 DEF SameRowsBut, Written, Stays, RowState
  <2>6. WorkOK' /\ Launched("pool")
    BY <1>1, LaunchEffect DEF Types
  <2> QED
    BY <1>0, <1>1, <2>1, <2>3, <2>4, <2>5, <2>6 DEF Types, LaunchStep, Steps
<1>2. CASE stage[s].pc = "claim" /\ mutex' = FALSE /\ To(s, "done") /\ UNCHANGED <<rows, work>>
  <2>1. Types' /\ OneStage(s) /\ SameRows /\ stage'[s].pc = "done" /\ stage'[s].vm = NoVM
    BY <1>0, <1>2, ToMove
  <2> QED
    BY <1>0, <1>2, <2>1 DEF MoveStep, Leaves
<1>3. CASE CreateForStage(s)
  <2>1. /\ WorkOK' /\ Launched(s)
        /\ \A v \in Fresh(<<BaseGroup>>) : work'[v].pc = "create" /\ work'[v].by = s
    BY <1>3, LaunchEffect DEF Types, CreateForStage
  <2>2. RowsOK' /\ SameRows /\ KeeperOK' /\ stage[s].pc = "create" /\ UNCHANGED mutex
    BY <1>0, <1>3, Untouched DEF Types, SameRows, CreateForStage
  <2>3. ASSUME NEW v \in Fresh(<<BaseGroup>>), stage' = [stage EXCEPT ![s].pc = "creating", ![s].vm = v]
        PROVE  Types' /\ LaunchStep(s)
    <3>1. v \in VMs /\ work[v].pc = "none"
      BY DEF Fresh
    <3>2. StageOK' /\ OneStage(s) /\ stage'[s].pc = "creating" /\ stage'[s].vm = v
      BY <1>0, <2>3, <3>1 DEF Types, StageOK, StageFields, OneStage
    <3> QED
      BY <1>0, <2>1, <2>2, <3>1, <3>2 DEF Types, LaunchStep, Steps
  <2>4. CASE To(s, "done")
    <3>1. StageOK' /\ OneStage(s) /\ stage'[s].pc = "done" /\ stage'[s].vm = NoVM
      BY <1>0, <2>2, <2>4, ToStage
    <3> QED
      BY <1>0, <2>1, <2>2, <3>1 DEF Types, LaunchStep, Leaves
  <2> QED
    BY <1>3, <2>3, <2>4 DEF CreateForStage
<1> QED
  BY <1>1, <1>2, <1>3 DEF Claim

(* A stage and the goroutine it waits for. *)
LEMMA CallEffect ==
  ASSUME UNCHANGED config, Types, NEW s \in Stages, ReturnToStage(s) \/ Suspend(s)
  PROVE  Types' /\ (MoveStep(s) \/ CallStep(s))
<1> USE DEF StagePCs, NoVMYet, WithVM
<1>0. UNCHANGED <<rows, up, mutex, keeper>> /\ stage[s].pc \in {"creating", "suspending", "serving"}
  BY DEF ReturnToStage, Suspend
<1>1. RowsOK' /\ KeeperOK' /\ SameRows /\ DOMAIN up' = VMs
  BY <1>0, Untouched DEF Types, SameRows
<1>2. PICK v \in VMs : v = stage[s].vm
  BY <1>0 DEF Types, StageOK
<1>3. IsRow(work[v].row) /\ IsRow(RequestRow)
  BY RowFacts DEF Types, WorkOK
<1>4. CASE /\ stage[s].pc = "creating" /\ work' = [work EXCEPT ![v].row = RequestRow]
           /\ \/ /\ work[v].pc = "ended"
                 /\ stage' = [stage EXCEPT ![s].pc = "provisioned", ![s].row = work[v].row]
              \/ To(s, "done")
  <2>1. /\ WorkOK' /\ (\A w \in VMs \ {v} : work'[w] = work[w])
        /\ work'[v].pc = work[v].pc /\ work'[v].by = work[v].by
    BY <1>3, <1>4 DEF Types, WorkOK, WorkFields
  <2>2. CASE work[v].pc = "ended" /\ stage' = [stage EXCEPT ![s].pc = "provisioned", ![s].row = work[v].row]
    <3>1. StageOK' /\ OneStage(s) /\ Stays(s) /\ stage'[s].pc = "provisioned" /\ stage'[s].row = work[v].row
      <4>1. PICK r : r = work[v].row
        OBVIOUS
      <4>2. IsRow(r) /\ stage' = [stage EXCEPT ![s].pc = "provisioned", ![s].row = r]
        BY <1>3, <2>2, <4>1
      <4>3. StageOK' /\ OneStage(s) /\ Stays(s) /\ stage'[s].pc = "provisioned" /\ stage'[s].row = r
        BY <1>0, <4>2, PcRowEffect
      <4> QED
        BY <4>1, <4>3
    <3> QED
      BY <1>0, <1>1, <1>2, <1>4, <2>1, <2>2, <3>1 DEF Types, CallStep, Steps
  <2>3. CASE To(s, "done")
    <3>1. StageOK' /\ OneStage(s) /\ stage'[s].pc = "done" /\ stage'[s].vm = NoVM
      BY <1>0, <2>3, ToStage
    <3> QED
      BY <1>0, <1>1, <1>2, <1>4, <2>1, <3>1 DEF Types, CallStep, Leaves
  <2> QED
    BY <1>4, <2>2, <2>3
<1>5. CASE stage[s].pc = "suspending" /\ UNCHANGED work /\ (To(s, "suspended") \/ To(s, "serving"))
  <2>1. PICK pc \in {"suspended", "serving"} : To(s, pc)
    BY <1>5
  <2>2. Types' /\ OneStage(s) /\ SameRows /\ stage'[s].pc = pc /\ Stays(s)
    BY <1>0, <1>5, <2>1, ToMove
  <2> QED
    BY <1>0, <1>5, <2>1, <2>2 DEF MoveStep, Ways, Steps
<1>6. CASE /\ stage[s].pc = "serving" /\ s \in Gitspaces /\ To(s, "suspending")
           /\ work' = [work EXCEPT ![v].pc = "suspend", ![v].tries = 1]
  <2>1. /\ WorkOK' /\ (\A w \in VMs \ {v} : work'[w] = work[w])
        /\ work'[v].pc = "suspend" /\ work'[v].by = work[v].by
    BY <1>6 DEF Types, WorkOK, WorkFields, WorkPCs
  <2>2. StageOK' /\ OneStage(s) /\ Stays(s) /\ stage'[s].pc = "suspending"
    BY <1>0, <1>2, <1>6, ToStage
  <2> QED
    BY <1>0, <1>1, <1>2, <1>6, <2>1, <2>2 DEF Types, CallStep, Steps
<1>7. CASE ReturnToStage(s)
  BY <1>2, <1>4, <1>5, <1>7 DEF ReturnToStage
<1>8. CASE Suspend(s)
  BY <1>2, <1>6, <1>8 DEF Suspend
<1> QED
  BY <1>7, <1>8

(* Every step of a stage. *)
LEMMA StageEffect ==
  ASSUME UNCHANGED config, Types, NEW s \in Stages, StageStep(s) \/ Choice(s)
  PROVE  Types' /\ (MoveStep(s) \/ WriteStep(s) \/ PowerStep(s) \/ LaunchStep(s) \/ CallStep(s))
<1> HIDE DEF MoveStep, WriteStep, PowerStep, LaunchStep, CallStep
<1> QED
  BY ProvisionEffect, GoesOnEffect, ExistingEffect, StartEffect, WriteRowEffect, HandleDestroyEffect,
     DestroyEffect, LaunchStepEffect, CallEffect DEF StageStep, Choice

(* What a handler has begun to end stays so, whatever a stage does. *)
LEMMA EndsStay ==
  ASSUME UNCHANGED config, Types, NEW s \in Stages,
         MoveStep(s) \/ WriteStep(s) \/ PowerStep(s) \/ LaunchStep(s) \/ CallStep(s),
         NEW w \in VMs, HandlerEnds(w)
  PROVE  HandlerEnds(w)'
<1> DEFINE EndPCs == {"ending", "terminate", "destroy", "failed", "deleting", "done"}
<1>1. PICK t \in Stages \ Pipelines : stage[t].vm = w /\ stage[t].pc \in EndPCs
  BY DEF HandlerEnds
<1>2. CASE t # s
  <2>1. stage'[t] = stage[t]
    BY <1>2 DEF MoveStep, WriteStep, PowerStep, LaunchStep, CallStep, OneStage
  <2> QED
    BY <1>1, <2>1 DEF HandlerEnds
<1>3. CASE t = s
  <2>1. stage'[s].vm = stage[s].vm /\ stage'[s].pc \in EndPCs
    BY <1>1, <1>3 DEF MoveStep, Ways, WriteStep, PowerStep, LaunchStep, CallStep, Leaves, Steps, Stays
  <2> QED
    BY <1>1, <1>3, <2>1 DEF HandlerEnds
<1> QED
  BY <1>2, <1>3

(* A stage that moves keeps the invariant. *)
LEMMA MoveKeeps == ASSUME UNCHANGED config, Constants, IInv, NEW s \in Stages, Types', MoveStep(s) PROVE IInv'
<1>1. /\ OneStage(s) /\ UNCHANGED <<up, work, keeper>> /\ SameRows
      /\ \A t \in Stages \ {s} : stage'[t] = stage[t]
  BY DEF MoveStep, OneStage
<1>2. /\ \A w \in VMs : RowState(w)' = RowState(w)
      /\ stage[s].vm \in VMs \cup {NoVM} /\ NoVM \notin VMs
  BY <1>1 DEF SameRows, IInv, Types, StageOK, NoVM, VMs, Constants
<1> DEFINE Claims == /\ Steps(s, {"list"}, {"claim"}) /\ UNCHANGED mutex
                     /\ stage'[s].vm \in VMs /\ RowState(stage'[s].vm) = "created"
           Lets == /\ stage'[s].vm = stage[s].vm \/ stage'[s].vm = NoVM
                   /\ stage[s].pc # "creating" /\ stage'[s].pc \notin {"claim", "creating", "deleting"}
<1>3. Claims \/ Lets
  BY DEF MoveStep, Ways, Leaves, Steps, Stays
<1>4. BirthInv'
  <2> SUFFICES ASSUME NEW w \in VMs, work[w].pc \in Unborn
               PROVE  /\ RowState(w)' = "absent"
                      /\ \A t \in Stages : stage'[t].vm = w => stage'[t].pc = "creating" /\ work[w].pc # "none"
                      /\ keeper.pc \in {"destroy", "delete"} => w \notin keeper.set
    BY <1>1 DEF BirthInv
  <2>1. /\ RowState(w) = "absent"
        /\ \A t \in Stages : stage[t].vm = w => stage[t].pc = "creating" /\ work[w].pc # "none"
        /\ keeper.pc \in {"destroy", "delete"} => w \notin keeper.set
    BY DEF IInv, BirthInv
  <2>2. stage'[s].vm # w
    BY <1>2, <1>3, <2>1
  <2> QED
    BY <1>1, <1>2, <2>1, <2>2
<1>5. GoneInv'
  <2>1. stage'[s].pc # "deleting"
    BY <1>3 DEF Steps
  <2> QED
    BY <1>1, <2>1 DEF IInv, GoneInv
<1>6. VMRecorded'
  BY <1>1, <1>2, RecordedView, RecordedViewNext DEF IInv, Types
<1>7. MutexInv'
  BY <1>1 DEF IInv, MutexInv, MoveStep, Ways, Leaves, Steps
<1>8. OwnerInv'
  <2>1. ASSUME NEW t \in Stages, stage'[t].pc = "creating"
        PROVE  work[stage'[t].vm].by = t /\ work[stage'[t].vm].pc \in {"create", "record", "ended", "failed", "lost"}
    BY <1>1, <1>3, <2>1 DEF IInv, OwnerInv, Steps
  <2>2. ASSUME NEW t \in Gitspaces, t \in Stages
        PROVE  stage'[t].pc \notin {"list", "claim"} /\ (stage'[t].vm # NoVM => work[stage'[t].vm].by = t)
    <3>1. stage[t].pc \notin {"list", "claim"} /\ (stage[t].vm # NoVM => work[stage[t].vm].by = t)
      BY DEF IInv, OwnerInv
    <3>2. CASE t = s
      BY <3>1, <3>2 DEF MoveStep, Ways, Leaves, Steps, Stays
    <3> QED
      BY <1>1, <2>2, <3>1, <3>2
  <2>3. ASSUME NEW t \in Stages \cap Pipelines PROVE stage'[t].pc \notin {"ending", "terminate", "destroy", "failed"}
    BY <1>1 DEF IInv, OwnerInv, MoveStep, Ways, Leaves, Steps
  <2> QED
    BY <1>1, <2>1, <2>2, <2>3 DEF IInv, OwnerInv, Constants, Gitspace
<1>9. PoolInv'
  <2> SUFFICES ASSUME NEW w \in VMs, Good(w)'
               PROVE  /\ Resting(w)'
                      /\ \A t \in Stages : stage'[t].vm = w => Served(w, t)'
                      /\ \A t, u \in Stages : stage'[t].vm = w /\ stage'[u].vm = w => t = u
    BY DEF PoolInv
  <2>1. Good(w) /\ ~Gitspace(w)
    BY <1>1, EndsStay DEF Good, Gitspace, IInv
  <2>2. /\ Resting(w)
        /\ \A t \in Stages : stage[t].vm = w => Served(w, t)
        /\ \A t, u \in Stages : stage[t].vm = w /\ stage[u].vm = w => t = u
    BY <2>1 DEF IInv, PoolInv
  <2>3. Resting(w)'
    BY <1>1, <1>2, <2>2 DEF Resting
  <2>4. ASSUME NEW t \in Stages \ {s}, stage[t].vm = w PROVE Served(w, t)'
    BY <1>1, <1>2, <2>2, <2>4 DEF Served
  <2>5. CASE stage'[s].vm # w
    BY <1>1, <2>2, <2>3, <2>4, <2>5
  <2>6. CASE stage'[s].vm = w /\ Lets
    <3>1. stage[s].vm = w /\ Served(w, s)
      BY <1>2, <2>2, <2>6
    <3>2. stage[s].pc \in WithVM \cup {"create", "done"}
      BY <1>2, <3>1 DEF IInv, Types, StageOK, StagePCs
    <3>3. stage[s].pc # "claim"
      BY <1>2, <2>6, <3>1 DEF MoveStep, Ways, Leaves, Steps
    <3>4. stage'[s].pc \in {"provisioned", "starting", "started"} => stage'[s].row.state = "inuse"
      <4>1. stage[s].pc = "provisioned" => stage[s].row.state = "inuse"
        BY <3>1 DEF Served
      <4>2. RowState(w) \in {"absent", "inuse"}
        BY <3>1, <3>3 DEF Served
      <4> QED
        BY <3>1, <4>1, <4>2 DEF MoveStep, Ways, Leaves, Steps
    <3>5. Served(w, s)'
      BY <1>1, <1>2, <2>6, <3>1, <3>3, <3>4 DEF Served
    <3> QED
      BY <1>1, <2>2, <2>3, <2>4, <3>1, <3>5
  <2>7. CASE stage'[s].vm = w /\ Claims
    <3>1. RowState(w) = "created" /\ stage[s].pc = "list" /\ stage'[s].pc = "claim"
      BY <2>7 DEF Steps
    <3>2. work[w].pc \in Quiet
      BY <2>1, <2>2, <3>1 DEF IInv, Types, WorkOK, WorkPCs, BirthInv, OwnerInv, Resting
    <3>3. Served(w, s)'
      BY <1>1, <3>1, <3>2 DEF Served
    <3>4. ASSUME NEW t \in Stages, stage[t].vm = w PROVE FALSE
      <4>1. stage[t].pc = "claim"
        BY <2>2, <3>1, <3>4 DEF Served
      <4> QED
        BY <3>1, <4>1 DEF IInv, MutexInv
    <3> QED
      BY <1>1, <2>3, <3>3, <3>4
  <2> QED
    BY <1>3, <2>5, <2>6, <2>7
<1> QED
  BY <1>4, <1>5, <1>6, <1>7, <1>8, <1>9 DEF IInv

(* A stage that writes or deletes a row keeps the invariant: the VM is its *)
(* own, and is gone when it deletes the row.                               *)
LEMMA WriteKeeps == ASSUME UNCHANGED config, Constants, IInv, NEW s \in Stages, Types', WriteStep(s) PROVE IInv'
<1>1. /\ OneStage(s) /\ UNCHANGED <<up, work, mutex, keeper>> /\ Stays(s)
      /\ \A t \in Stages \ {s} : stage'[t] = stage[t]
      /\ stage[s].pc \in {"starting", "started", "terminate", "deleting"}
      /\ stage'[s].pc \in {"started", "check", "destroy", "done"}
  BY DEF WriteStep, OneStage, Steps
<1>2. PICK v \in VMs : v = stage[s].vm /\ v = stage'[s].vm
  BY <1>1 DEF IInv, Types, StageOK, WithVM, Stays
<1>3. \A w \in VMs \ {v} : RowState(w)' = RowState(w)
  BY <1>2 DEF WriteStep, SameRowsBut
<1>4. \A t \in Stages : stage'[t].vm = stage[t].vm
  BY <1>1 DEF Stays
<1>5. work[v].pc \notin Unborn
  BY <1>1, <1>2 DEF IInv, BirthInv
<1>6. BirthInv'
  BY <1>1, <1>2, <1>3, <1>5 DEF IInv, BirthInv
<1>7. GoneInv'
  BY <1>1, <1>4 DEF IInv, GoneInv
<1>8. VMRecorded'
  <2> SUFFICES ASSUME NamesFailed, NEW w \in VMs, up[w] # "none"
               PROVE  RowState(w)' # "absent" \/ work[w].pc \in {"record", "lost"}
    BY <1>1, RecordedViewNext DEF Types
  <2>1. RowState(w) # "absent" \/ work[w].pc \in {"record", "lost"}
    BY RecordedView DEF IInv, Types
  <2>2. CASE w = v
    <3>1. stage[s].pc # "deleting"
      BY <1>2, <2>2 DEF IInv, GoneInv
    <3>2. IsRow(stage[s].row)
      BY DEF IInv, Types, StageOK
    <3>3. stage[s].row.state # "absent"
      BY <3>2 DEF IsRow, States
    <3>4. RowState(v) # "absent" => RowState(v)' # "absent"
      BY <1>2, <3>1, <3>3 DEF WriteStep, Steps, Written, RowState
    <3> QED
      BY <2>1, <2>2, <3>4
  <2> QED
    BY <1>3, <2>1, <2>2
<1>9. MutexInv'
  BY <1>1 DEF IInv, MutexInv
<1>10. OwnerInv'
  BY <1>1, <1>4 DEF IInv, OwnerInv, Constants, Gitspace, WriteStep, Steps
<1>11. PoolInv'
  <2> SUFFICES ASSUME NEW w \in VMs, Good(w)'
               PROVE  /\ Resting(w)'
                      /\ \A t \in Stages : stage[t].vm = w => Served(w, t)'
                      /\ \A t, u \in Stages : stage[t].vm = w /\ stage[u].vm = w => t = u
    BY <1>4 DEF PoolInv
  <2>1. Good(w)
    BY <1>1, EndsStay DEF Good, Gitspace, IInv
  <2>2. /\ Resting(w)
        /\ \A t \in Stages : stage[t].vm = w => Served(w, t)
        /\ \A t, u \in Stages : stage[t].vm = w /\ stage[u].vm = w => t = u
    BY <2>1 DEF IInv, PoolInv
  <2>3. CASE w # v
    BY <1>1, <1>2, <1>3, <2>2, <2>3 DEF Resting, Served
  <2>4. CASE w = v
    <3>1. Served(v, s) /\ work[v].pc \in Quiet /\ RowState(v) \in {"absent", "inuse"}
      BY <1>1, <1>2, <2>2, <2>4 DEF Served
    <3>2. stage[s].pc # "terminate"
      <4>1. ~HandlerEnds(v)
        BY <2>1, <2>4 DEF Good
      <4> QED
        BY <1>2, <4>1 DEF HandlerEnds, IInv, OwnerInv
    <3>3. stage[s].pc \in {"starting", "started"} => stage[s].row.state = "inuse"
      BY <3>1 DEF Served
    <3>4. RowState(v)' \in {"absent", "inuse"} /\ (stage'[s].pc = "started" => stage'[s].row.state = "inuse")
      BY <1>2, <3>1, <3>2, <3>3 DEF WriteStep, Steps, Written, RowState
    <3>5. Served(v, s)'
      BY <1>1, <3>1, <3>4 DEF Served
    <3>6. Resting(v)'
      BY <1>1, <3>1 DEF Resting, Quiet, Fetching, Pausing
    <3> QED
      BY <1>2, <2>2, <2>4, <3>5, <3>6
  <2> QED
    BY <2>3, <2>4
<1> QED
  BY <1>6, <1>7, <1>8, <1>9, <1>10, <1>11 DEF IInv

(* A stage that has its VM started or destroyed keeps the invariant: it    *)
(* starts no VM that is gone.                                              *)
LEMMA PowerKeeps == ASSUME UNCHANGED config, Constants, IInv, NEW s \in Stages, Types', PowerStep(s) PROVE IInv'
<1>1. /\ OneStage(s) /\ UNCHANGED <<work, mutex, keeper>> /\ Stays(s) /\ SameRows
      /\ \A t \in Stages \ {s} : stage'[t] = stage[t]
      /\ stage[s].pc \in {"suspended", "provisioned", "cleanup", "lookup", "destroy"}
      /\ stage'[s].pc \in {"create", "starting", "deleting"}
  BY DEF PowerStep, OneStage, Steps
<1>2. PICK v \in VMs : v = stage[s].vm /\ v = stage'[s].vm
  BY <1>1 DEF IInv, Types, StageOK, WithVM, Stays
<1>3. \A w \in VMs : RowState(w)' = RowState(w)
  BY <1>1 DEF SameRows
<1>4. \A t \in Stages : stage'[t].vm = stage[t].vm
  BY <1>1 DEF Stays
<1>5. work[v].pc \notin Unborn
  BY <1>1, <1>2 DEF IInv, BirthInv
<1>6. /\ \A w \in VMs : up[w] = "none" => up'[w] = "none"
      /\ stage'[s].pc = "deleting" => up'[v] = "none"
  BY <1>2 DEF PowerStep, Steps
<1>7. BirthInv'
  BY <1>1, <1>2, <1>3, <1>5 DEF IInv, BirthInv
<1>8. GoneInv'
  <2>1. ASSUME NEW t \in Stages, stage'[t].pc = "deleting" PROVE up'[stage'[t].vm] = "none"
    <3>1. CASE t = s
      BY <1>2, <1>6, <2>1, <3>1
    <3>2. CASE t # s
      <4>1. stage[t].pc = "deleting" /\ stage[t].vm \in VMs /\ up[stage[t].vm] = "none"
        BY <1>1, <2>1, <3>2 DEF IInv, GoneInv, Types, StageOK, WithVM
      <4> QED
        BY <1>4, <1>6, <4>1
    <3> QED
      BY <3>1, <3>2
  <2>2. ASSUME NamesFailed, keeper.pc = "delete", NEW w \in keeper.set PROVE up'[w] = "none"
    BY <1>6, <2>2 DEF IInv, GoneInv, Types, KeeperOK
  <2> QED
    BY <1>1, <1>6, <2>1, <2>2 DEF IInv, GoneInv
<1>9. VMRecorded'
  BY <1>1, <1>3, <1>6, RecordedView, RecordedViewNext DEF IInv, Types
<1>10. MutexInv'
  BY <1>1 DEF IInv, MutexInv
<1>11. OwnerInv'
  BY <1>1, <1>4 DEF IInv, OwnerInv, Constants, Gitspace
<1>12. PoolInv'
  <2> SUFFICES ASSUME NEW w \in VMs, Good(w)'
               PROVE  /\ Resting(w)'
                      /\ \A t \in Stages : stage[t].vm = w => Served(w, t)'
                      /\ \A t, u \in Stages : stage[t].vm = w /\ stage[u].vm = w => t = u
    BY <1>4 DEF PoolInv
  <2>1. Good(w) /\ ~Gitspace(w)
    BY <1>1, EndsStay DEF Good, Gitspace, IInv
  <2>2. /\ Resting(w)
        /\ \A t \in Stages : stage[t].vm = w => Served(w, t)
        /\ \A t, u \in Stages : stage[t].vm = w /\ stage[u].vm = w => t = u
    BY <2>1 DEF IInv, PoolInv
  <2>3. Resting(w)' /\ \A t \in Stages \ {s} : stage[t].vm = w => Served(w, t)'
    BY <1>1, <1>3, <2>2 DEF Resting, Served
  <2>4. ASSUME w = v PROVE Served(w, s)'
    <3>1. Served(v, s) /\ RowState(v) \in {"absent", "inuse"}
      BY <1>1, <1>2, <2>2, <2>4 DEF Served
    <3>2. s \notin Gitspaces
      <4>1. v # NoVM
        BY DEF Constants, VMs, NoVM
      <4>2. s \in Gitspaces => work[v].by = s
        BY <1>2, <4>1 DEF IInv, OwnerInv
      <4> QED
        BY <2>1, <2>4, <4>2 DEF Gitspace
    <3>3. stage'[s].pc = "starting" => stage'[s].row.state = "inuse"
      BY <1>2, <3>1, <3>2 DEF PowerStep, Steps
    <3> QED
      BY <1>1, <1>3, <2>4, <3>1, <3>3 DEF Served
  <2> QED
    BY <1>2, <2>2, <2>3, <2>4
<1> QED
  BY <1>7, <1>8, <1>9, <1>10, <1>11, <1>12 DEF IInv

(* A stage that has a VM created keeps the invariant: nobody else knows    *)
(* the new VM, and the free VM it took is its own.                         *)
LEMMA LaunchKeeps == ASSUME UNCHANGED config, Constants, IInv, NEW s \in Stages, Types', LaunchStep(s) PROVE IInv'
<1>1. /\ UNCHANGED <<up, keeper>> /\ \A t \in Stages \ {s} : stage'[t] = stage[t]
  BY DEF LaunchStep, OneStage
<1>2. \A w \in VMs : \/ work'[w] = work[w]
                     \/ work[w].pc = "none" /\ work'[w].pc = "create"
  BY DEF LaunchStep, Launched
<1>3. ASSUME NEW w \in VMs, work[w].pc = "none"
      PROVE  up[w] = "none" /\ RowState(w) = "absent" /\ \A t \in Stages : stage[t].vm # w
  BY <1>3 DEF IInv, BirthInv, GoneInv, Unborn
<1>4. NoVM \notin VMs
  BY DEF Constants, VMs, NoVM
<1> DEFINE Takes == /\ stage[s].pc = "claim" /\ stage'[s].pc = "provisioned" /\ stage[s].vm \in VMs
                    /\ stage'[s].vm = stage[s].vm /\ stage'[s].row.state = "inuse" /\ mutex' = FALSE
                    /\ \A w \in VMs \ {stage[s].vm} : RowState(w)' = RowState(w)
           Gets == /\ stage[s].pc = "create" /\ stage'[s].pc = "creating" /\ UNCHANGED mutex
                   /\ stage'[s].vm \in VMs /\ work[stage'[s].vm].pc = "none"
                   /\ work'[stage'[s].vm].pc = "create" /\ work'[stage'[s].vm].by = s
                   /\ \A w \in VMs : RowState(w)' = RowState(w)
           Gives == /\ stage[s].pc = "create" /\ stage'[s].pc = "done" /\ stage'[s].vm = NoVM
                    /\ UNCHANGED mutex /\ \A w \in VMs : RowState(w)' = RowState(w)
<1>5. Takes \/ Gets \/ Gives
  BY DEF LaunchStep, Steps, Stays, Leaves, SameRows, SameRowsBut, IInv, Types, StageOK, WithVM
<1>6. ASSUME NEW v \in VMs, v = stage[s].vm, Takes
      PROVE  RowState(v)' = "inuse" \/ (RowState(v) = "absent" /\ RowState(v)' = "absent")
  BY <1>6 DEF LaunchStep, Steps, Written, RowState, Leaves
<1> HIDE DEF Takes, Gets, Gives
<1>7. ASSUME NEW w \in VMs, work[w].pc \in Unborn
      PROVE  /\ RowState(w)' = "absent" /\ (Takes => w # stage[s].vm)
             /\ \A t \in Stages \ {s} : stage[t].vm = w => stage[t].pc = "creating" /\ work[w].pc # "none"
  <2>1. RowState(w) = "absent" /\ \A t \in Stages : stage[t].vm = w => stage[t].pc = "creating" /\ work[w].pc # "none"
    BY <1>7 DEF IInv, BirthInv
  <2> QED
    BY <1>5, <2>1 DEF Takes, Gets, Gives
<1>8. BirthInv'
  <2> SUFFICES ASSUME NEW w \in VMs, work'[w].pc \in Unborn
               PROVE  /\ RowState(w)' = "absent"
                      /\ \A t \in Stages : stage'[t].vm = w => stage'[t].pc = "creating" /\ work'[w].pc # "none"
                      /\ keeper.pc \in {"destroy", "delete"} => w \notin keeper.set
    BY <1>1 DEF BirthInv
  <2>1. work[w].pc \in Unborn
    BY <1>2 DEF Unborn
  <2>2. /\ RowState(w)' = "absent" /\ (keeper.pc \in {"destroy", "delete"} => w \notin keeper.set)
        /\ Takes => w # stage[s].vm
    BY <1>7, <2>1 DEF IInv, BirthInv
  <2>3. ASSUME NEW t \in Stages \ {s}, stage'[t].vm = w PROVE stage'[t].pc = "creating" /\ work'[w].pc # "none"
    <3>1. stage[t].vm = w /\ stage[t].pc = "creating" /\ work[w].pc # "none"
      BY <1>1, <1>7, <2>1, <2>3
    <3> QED
      BY <1>1, <1>2, <3>1
  <2>4. ASSUME stage'[s].vm = w PROVE stage'[s].pc = "creating" /\ work'[w].pc # "none"
    BY <1>4, <1>5, <2>2, <2>4 DEF Takes, Gets, Gives
  <2> QED
    BY <2>2, <2>3, <2>4
<1>9. GoneInv'
  <2>1. ASSUME NEW w \in VMs, work'[w].pc \in {"none", "create", "delete"} PROVE up[w] = "none"
    BY <1>2, <2>1 DEF IInv, GoneInv
  <2>2. stage'[s].pc # "deleting"
    BY <1>5 DEF Takes, Gets, Gives
  <2> QED
    BY <1>1, <2>1, <2>2 DEF IInv, GoneInv
<1>10. VMRecorded'
  <2> SUFFICES ASSUME NamesFailed, NEW w \in VMs, up[w] # "none"
               PROVE  RowState(w)' # "absent" \/ work'[w].pc \in {"record", "lost"}
    BY <1>1, RecordedViewNext DEF Types
  <2>1. RowState(w) # "absent" \/ work[w].pc \in {"record", "lost"}
    BY RecordedView DEF IInv, Types
  <2>2. work'[w] = work[w]
    BY <1>2, <1>3
  <2>3. RowState(w) # "absent" => RowState(w)' # "absent"
    BY <1>5, <1>6 DEF Takes, Gets, Gives
  <2> QED
    BY <2>1, <2>2, <2>3
<1>11. MutexInv'
  BY <1>1, <1>5 DEF IInv, MutexInv, Takes, Gets, Gives
<1>12. ASSUME NEW t \in Stages, stage[t].vm \in VMs PROVE work'[stage[t].vm] = work[stage[t].vm]
  BY <1>2, <1>3, <1>12
<1>13. OwnerInv'
  <2>1. ASSUME NEW t \in Stages, stage'[t].pc = "creating"
        PROVE  work'[stage'[t].vm].by = t /\ work'[stage'[t].vm].pc \in {"create", "record", "ended", "failed", "lost"}
    <3>1. CASE t = s
      BY <1>5, <2>1, <3>1 DEF Takes, Gets, Gives
    <3>2. CASE t # s
      <4>1. /\ stage'[t] = stage[t] /\ stage[t].vm \in VMs /\ work[stage[t].vm].by = t
            /\ work[stage[t].vm].pc \in {"create", "record", "ended", "failed", "lost"}
        BY <1>1, <2>1, <3>2 DEF IInv, OwnerInv, Types, StageOK, WithVM
      <4> QED
        BY <1>12, <4>1
    <3> QED
      BY <3>1, <3>2
  <2>2. ASSUME NEW t \in Gitspaces, t \in Stages
        PROVE  stage'[t].pc \notin {"list", "claim"} /\ (stage'[t].vm # NoVM => work'[stage'[t].vm].by = t)
    <3>1. /\ stage[t].pc \notin {"list", "claim"} /\ (stage[t].vm # NoVM => work[stage[t].vm].by = t)
          /\ stage[t].vm # NoVM => stage[t].vm \in VMs
      BY <2>2 DEF IInv, OwnerInv, Types, StageOK
    <3>2. CASE t = s
      BY <1>5, <3>1, <3>2 DEF Takes, Gets, Gives
    <3>3. CASE t # s
      BY <1>1, <1>12, <2>2, <3>1, <3>3
    <3> QED
      BY <3>2, <3>3
  <2>3. ASSUME NEW w \in VMs, work'[w].pc = "suspend" PROVE Gitspace(w)'
    BY <1>2, <2>3 DEF IInv, OwnerInv, Gitspace
  <2>4. ASSUME NEW t \in Stages \cap Pipelines PROVE stage'[t].pc \notin {"ending", "terminate", "destroy", "failed"}
    BY <1>1, <1>5 DEF IInv, OwnerInv, Takes, Gets, Gives
  <2> QED
    BY <2>1, <2>2, <2>3, <2>4 DEF OwnerInv, Constants
<1>14. PoolInv'
  <2> SUFFICES ASSUME NEW w \in VMs, Good(w)'
               PROVE  /\ Resting(w)'
                      /\ \A t \in Stages : stage'[t].vm = w => Served(w, t)'
                      /\ \A t, u \in Stages : stage'[t].vm = w /\ stage'[u].vm = w => t = u
    BY DEF PoolInv
  <2>1. CASE work'[w] # work[w]
    <3>1. work[w].pc = "none" /\ work'[w].pc = "create" /\ \A t \in Stages : stage[t].vm # w
      BY <1>2, <1>3, <2>1
    <3>2. RowState(w)' = "absent"
      BY <1>7, <3>1 DEF Unborn
    <3>3. stage'[s].vm = w => stage'[s].pc = "creating"
      BY <1>4, <1>5, <3>1 DEF Takes, Gets, Gives
    <3>4. Resting(w)'
      BY <3>1 DEF Resting, Fetching, Pausing
    <3>5. stage'[s].vm = w => Served(w, s)'
      BY <3>1, <3>2, <3>3 DEF Served
    <3> QED
      BY <1>1, <3>1, <3>4, <3>5
  <2>2. CASE work'[w] = work[w]
    <3>1. Good(w)
      BY <2>2, EndsStay DEF Good, Gitspace, IInv
    <3>2. /\ Resting(w)
          /\ \A t \in Stages : stage[t].vm = w => Served(w, t)
          /\ \A t, u \in Stages : stage[t].vm = w /\ stage[u].vm = w => t = u
      BY <3>1 DEF IInv, PoolInv
    <3>3. CASE Takes /\ stage[s].vm = w
      <4>1. Served(w, s) /\ work[w].pc \in Quiet
        BY <3>2, <3>3 DEF Served, Takes
      <4>2. RowState(w)' \in {"absent", "inuse"}
        BY <1>6, <3>3
      <4>3. Served(w, s)' /\ Resting(w)'
        BY <2>2, <3>3, <4>1, <4>2 DEF Served, Takes, Resting, Quiet, Fetching, Pausing
      <4> QED
        BY <1>1, <3>2, <3>3, <4>3
    <3>4. CASE ~(Takes /\ stage[s].vm = w)
      <4>1. stage'[s].vm # w
        BY <1>2, <1>4, <1>5, <2>2, <3>4 DEF Takes, Gets, Gives
      <4>2. RowState(w)' = RowState(w)
        BY <1>5, <3>4 DEF Takes, Gets, Gives
      <4>3. Resting(w)' /\ \A t \in Stages \ {s} : stage[t].vm = w => Served(w, t)'
        BY <1>1, <2>2, <3>2, <4>2 DEF Resting, Served
      <4> QED
        BY <1>1, <3>2, <4>1, <4>3
    <3> QED
      BY <3>3, <3>4
  <2> QED
    BY <2>1, <2>2
<1> QED
  BY <1>8, <1>9, <1>10, <1>11, <1>13, <1>14 DEF IInv

(* A stage and the goroutine that works for it keep the invariant. *)
LEMMA CallKeeps == ASSUME UNCHANGED config, Constants, IInv, NEW s \in Stages, Types', CallStep(s) PROVE IInv'
<1>1. /\ UNCHANGED <<up, mutex, keeper>> /\ SameRows
      /\ \A t \in Stages \ {s} : stage'[t] = stage[t]
      /\ stage[s].pc \in {"creating", "serving"} /\ stage'[s].pc \in {"provisioned", "done", "suspending"}
      /\ stage'[s].vm \in {stage[s].vm, NoVM}
  BY DEF CallStep, OneStage, Steps, Leaves, Stays
<1>2. PICK v \in VMs : v = stage[s].vm
  BY <1>1 DEF IInv, Types, StageOK, WithVM
<1>3. /\ \A w \in VMs : RowState(w)' = RowState(w)
      /\ \A w \in VMs \ {v} : work'[w] = work[w]
      /\ work'[v].by = work[v].by /\ work'[v].pc \in {work[v].pc, "suspend"}
  BY <1>1, <1>2 DEF SameRows, CallStep
<1>4. v # NoVM
  BY DEF Constants, VMs, NoVM
<1>5. /\ s \in Gitspaces => work[v].by = s
      /\ stage[s].pc = "creating" => work[v].by = s
      /\ work'[v].pc = "suspend" => work[v].pc = "suspend" \/ s \in Gitspaces
  BY <1>2, <1>4 DEF IInv, OwnerInv, CallStep
<1>6. stage'[s].vm = v => work[v].pc \notin Unborn
  BY <1>2, <1>4 DEF CallStep, Steps, Leaves, IInv, BirthInv, Unborn
<1>7. stage[s].pc = "serving" => work[v].pc \notin Unborn
  BY <1>2 DEF IInv, BirthInv
<1>8. work'[v].pc # work[v].pc => stage[s].pc = "serving" /\ s \in Gitspaces /\ work'[v].pc = "suspend"
  BY <1>2 DEF CallStep, Steps, Leaves
<1>9. BirthInv'
  <2> SUFFICES ASSUME NEW w \in VMs, work'[w].pc \in Unborn
               PROVE  /\ RowState(w)' = "absent"
                      /\ \A t \in Stages : stage'[t].vm = w => stage'[t].pc = "creating" /\ work'[w].pc # "none"
                      /\ keeper.pc \in {"destroy", "delete"} => w \notin keeper.set
    BY <1>1 DEF BirthInv
  <2>1. work[w].pc = work'[w].pc
    BY <1>3 DEF Unborn
  <2>2. stage'[s].vm # w
    <3>1. v # w => stage'[s].vm # w
      BY <1>1, <1>2, <1>4 DEF Constants, VMs, NoVM
    <3> QED
      BY <1>6, <2>1, <3>1
  <2> QED
    BY <1>1, <1>3, <2>1, <2>2 DEF IInv, BirthInv
<1>10. GoneInv'
  BY <1>1, <1>3 DEF IInv, GoneInv
<1>11. VMRecorded'
  <2> SUFFICES ASSUME NamesFailed, NEW w \in VMs, up[w] # "none"
               PROVE  RowState(w)' # "absent" \/ work'[w].pc \in {"record", "lost"}
    BY <1>1, RecordedViewNext DEF Types
  <2>1. RowState(w) # "absent" \/ work[w].pc \in {"record", "lost"}
    BY RecordedView DEF IInv, Types
  <2> QED
    BY <1>3, <1>7, <1>8, <2>1 DEF Unborn
<1>12. MutexInv'
  BY <1>1 DEF IInv, MutexInv
<1>13. OwnerInv'
  <2>0. \A w \in VMs : work'[w].by = work[w].by
    BY <1>3
  <2>1. ASSUME NEW t \in Stages, stage'[t].pc = "creating"
        PROVE  work'[stage'[t].vm].by = t /\ work'[stage'[t].vm].pc \in {"create", "record", "ended", "failed", "lost"}
    <3>1. t # s /\ stage'[t] = stage[t]
      BY <1>1, <2>1
    <3>2. /\ stage[t].vm \in VMs /\ work[stage[t].vm].by = t
          /\ work[stage[t].vm].pc \in {"create", "record", "ended", "failed", "lost"}
      BY <2>1, <3>1 DEF IInv, OwnerInv, Types, StageOK, WithVM
    <3>3. CASE stage[t].vm = v
      BY <1>5, <1>8, <2>0, <3>1, <3>2, <3>3
    <3> QED
      BY <1>3, <3>1, <3>2, <3>3
  <2>2. ASSUME NEW t \in Gitspaces, t \in Stages
        PROVE  stage'[t].pc \notin {"list", "claim"} /\ (stage'[t].vm # NoVM => work'[stage'[t].vm].by = t)
    <3>1. /\ stage[t].pc \notin {"list", "claim"} /\ (stage[t].vm # NoVM => work[stage[t].vm].by = t)
          /\ stage[t].vm # NoVM => stage[t].vm \in VMs
      BY <2>2 DEF IInv, OwnerInv, Types, StageOK
    <3> QED
      BY <1>1, <2>0, <2>2, <3>1
  <2>3. ASSUME NEW w \in VMs, work'[w].pc = "suspend" PROVE Gitspace(w)'
    <3>1. work[w].pc = "suspend" \/ (w = v /\ s \in Gitspaces)
      BY <1>3, <1>5, <2>3
    <3> QED
      BY <1>5, <2>0, <3>1 DEF IInv, OwnerInv, Gitspace
  <2>4. ASSUME NEW t \in Stages \cap Pipelines PROVE stage'[t].pc \notin {"ending", "terminate", "destroy", "failed"}
    BY <1>1 DEF IInv, OwnerInv
  <2> QED
    BY <2>1, <2>2, <2>3, <2>4 DEF OwnerInv, Constants
<1>14. PoolInv'
  <2> SUFFICES ASSUME NEW w \in VMs, Good(w)'
               PROVE  /\ Resting(w)'
                      /\ \A t \in Stages : stage'[t].vm = w => Served(w, t)'
                      /\ \A t, u \in Stages : stage'[t].vm = w /\ stage'[u].vm = w => t = u
    BY DEF PoolInv
  <2>1. Good(w) /\ ~Gitspace(w)
    BY <1>3, EndsStay DEF Good, Gitspace, IInv
  <2>2. /\ Resting(w)
        /\ \A t \in Stages : stage[t].vm = w => Served(w, t)
        /\ \A t, u \in Stages : stage[t].vm = w /\ stage[u].vm = w => t = u
    BY <2>1 DEF IInv, PoolInv
  <2>3. CASE w # v
    <3>1. stage[s].vm # w /\ stage'[s].vm # w
      BY <1>1, <1>2, <2>3 DEF Constants, VMs, NoVM
    <3> QED
      BY <1>1, <1>3, <2>2, <2>3, <3>1 DEF Resting, Served
  <2>4. CASE w = v
    <3>1. s \notin Gitspaces /\ work'[v].pc = work[v].pc /\ stage[s].pc = "creating"
      BY <1>2, <1>5, <1>8, <2>1, <2>4 DEF Gitspace, CallStep, Steps, Leaves
    <3>2. Served(v, s) /\ Resting(v)'
      BY <1>2, <1>3, <2>2, <2>4, <3>1 DEF Resting
    <3>3. stage'[s].vm = v => Served(v, s)'
      BY <1>2, <1>3, <1>4, <3>1, <3>2 DEF Served, CallStep, Steps, Leaves, Quiet
    <3>4. \A t \in Stages \ {s} : stage'[t].vm # v
      BY <1>1, <1>2, <2>2, <2>4
    <3> QED
      BY <2>4, <3>2, <3>3, <3>4
  <2> QED
    BY <2>3, <2>4
<1> QED
  BY <1>9, <1>10, <1>11, <1>12, <1>13, <1>14 DEF IInv

-----------------------------------------------------------------------------
(* The keeper. *)

(* It holds the mutex, launches VMs, destroys some, and deletes rows only  *)
(* of those that the driver has destroyed or failed on without a name.     *)
KeeperMove ==
  /\ UNCHANGED stage /\ Launched("keeper")
  /\ \A w \in VMs : up'[w] \in {up[w], "none"}
  /\ \A w \in VMs : \/ RowState(w)' = RowState(w)
                    \/ RowState(w)' = "absent" /\ keeper.pc = "delete" /\ w \in keeper.set
  /\ keeper.pc # "idle" \/ ~mutex
  /\ keeper'.pc # "idle" => mutex' \/ (UNCHANGED mutex /\ keeper.pc # "idle")
  /\ keeper'.pc = "destroy" => UNCHANGED work /\ \A w \in keeper'.set : RowState(w) # "absent"
  /\ keeper'.pc = "delete" => /\ UNCHANGED work /\ keeper.pc = "destroy" /\ keeper'.set \subseteq keeper.set
                              /\ NamesFailed => \A w \in keeper'.set : up'[w] = "none"

(* The frame of a step of the keeper that leaves work, rows and VMs alone. *)
LEMMA KeeperFrame ==
  ASSUME UNCHANGED config
  PROVE  /\ UNCHANGED work => Launched("keeper")
         /\ UNCHANGED rows => \A w \in VMs : RowState(w)' = RowState(w)
  BY DEF Launched, RowState

(* Every step of the keeper. *)
LEMMA KeeperEffect ==
  ASSUME UNCHANGED config, Types, KeeperLock \/ KeeperStep
  PROVE  Types' /\ KeeperMove
<1>0. UNCHANGED stage /\ StageOK'
  BY Untouched DEF Types, KeeperLock, KeeperStep, KeeperList, KeeperDestroy, KeeperDelete, KeeperCount,
                   KeeperBuild, KeeperWait
<1>1. Leave => KeeperOK' /\ keeper'.pc = "idle"
  BY DEF Leave, NoKeeper, KeeperOK, KeeperFields
<1>2. CASE KeeperLock
  <2>1. UNCHANGED <<rows, up, work>> /\ ~mutex /\ mutex' = TRUE
    BY <1>2 DEF KeeperLock
  <2>2. KeeperOK' /\ keeper'.pc \in {"count", "list"}
    BY <1>2 DEF KeeperLock, Types, KeeperOK, KeeperFields, NoKeeper
  <2> QED
    BY <1>0, <2>1, <2>2, Untouched, KeeperFrame DEF Types, KeeperMove
<1>3. CASE KeeperList
  <2>1. UNCHANGED <<rows, up, work>> /\ keeper.pc = "list"
    BY <1>3 DEF KeeperList
  <2>2. CASE Leave
    BY <1>0, <1>1, <2>1, <2>2, Untouched, KeeperFrame DEF Types, KeeperMove
  <2>3. ASSUME NEW S \in SUBSET (Busy \cup Spare), UNCHANGED mutex,
               keeper' = [keeper EXCEPT !.pc = "destroy", !.set = S]
        PROVE  Types' /\ KeeperMove
    <3>1. S \subseteq DOMAIN rows /\ S \subseteq VMs
      BY DEF Busy, Spare, List, Listed, Types, RowsOK
    <3>2. \A w \in S : RowState(w) # "absent"
      BY <3>1, Presence DEF Types
    <3>3. KeeperOK' /\ keeper'.pc = "destroy" /\ keeper'.set = S
      BY <2>3, <3>1 DEF Types, KeeperOK, KeeperFields
    <3> QED
      BY <1>0, <2>1, <2>3, <3>2, <3>3, Untouched, KeeperFrame DEF Types, KeeperMove
  <2> QED
    BY <1>3, <2>2, <2>3 DEF KeeperList
<1>4. CASE KeeperDestroy
  <2>1. UNCHANGED <<rows, mutex, work>> /\ keeper.pc = "destroy"
    BY <1>4 DEF KeeperDestroy
  <2>2. PICK failed \in SUBSET keeper.set :
          /\ up' = [v \in VMs |-> IF v \in keeper.set \ failed THEN "none" ELSE up[v]]
          /\ keeper' = [keeper EXCEPT !.pc = "delete", !.set = IF NamesFailed THEN @ \ failed ELSE @]
    BY <1>4 DEF KeeperDestroy
  <2>3. /\ KeeperOK' /\ keeper'.pc = "delete" /\ keeper'.set \subseteq keeper.set
        /\ NamesFailed => keeper'.set = keeper.set \ failed
        /\ keeper'.set \subseteq VMs
    BY <2>2 DEF Types, KeeperOK, KeeperFields
  <2>4. /\ DOMAIN up' = VMs /\ (\A w \in VMs : up'[w] \in {up[w], "none"})
        /\ NamesFailed => \A w \in keeper'.set : up'[w] = "none"
    BY <2>2, <2>3
  <2> QED
    BY <1>0, <2>1, <2>3, <2>4, Untouched, KeeperFrame DEF Types, KeeperMove
<1>5. CASE KeeperDelete
  <2>1. UNCHANGED <<up, work>> /\ keeper.pc = "delete"
    BY <1>5 DEF KeeperDelete
  <2>2. PICK S \in SUBSET keeper.set : Delete(S)
    BY <1>5 DEF KeeperDelete
  <2>3. RowsOK' /\ \A w \in VMs : RowState(w)' = IF w \in S THEN "absent" ELSE RowState(w)
    BY <2>2, DeleteEffect DEF Types
  <2>4. KeeperOK' /\ keeper'.pc \in {"count", "idle"} /\ (keeper'.pc # "idle" => UNCHANGED mutex)
    <3>1. CASE Leave
      BY <1>1, <3>1
    <3>2. CASE keeper' = [keeper EXCEPT !.pc = "count", !.set = {}] /\ UNCHANGED mutex
      BY <3>2 DEF Types, KeeperOK, KeeperFields
    <3> QED
      BY <1>5, <3>1, <3>2 DEF KeeperDelete
  <2> QED
    BY <1>0, <2>1, <2>3, <2>4, Untouched, KeeperFrame DEF Types, KeeperMove
<1>6. CASE KeeperCount
  <2>1. UNCHANGED <<rows, work>> /\ keeper.pc = "count"
    BY <1>6 DEF KeeperCount
  <2>2. CASE Leave /\ UNCHANGED up
    BY <1>0, <1>1, <2>1, <2>2, Untouched, KeeperFrame DEF Types, KeeperMove
  <2>3. ASSUME NEW plan, NEW gone, UNCHANGED mutex,
               keeper' = [keeper EXCEPT !.pc = "build", !.plan = plan],
               up' = [v \in VMs |-> IF v \in gone THEN "none" ELSE up[v]]
        PROVE  Types' /\ KeeperMove
    <3>1. KeeperOK' /\ keeper'.pc = "build"
      BY <2>3 DEF Types, KeeperOK, KeeperFields
    <3> QED
      BY <1>0, <2>1, <2>3, <3>1, Untouched, KeeperFrame DEF Types, KeeperMove
  <2> QED
    BY <1>6, <2>2, <2>3 DEF KeeperCount
<1>7. CASE KeeperBuild
  <2>1. UNCHANGED <<rows, up>> /\ keeper.pc = "build"
    BY <1>7 DEF KeeperBuild
  <2>2. CASE Leave /\ UNCHANGED work
    BY <1>0, <1>1, <2>1, <2>2, Untouched, KeeperFrame DEF Types, KeeperMove
  <2>3. CASE /\ work' = Launch("keeper", Head(keeper.plan)) /\ UNCHANGED mutex
             /\ keeper' = [keeper EXCEPT !.pc = "wait", !.set = Fresh(Head(keeper.plan)), !.plan = Tail(@)]
    <3>1. WorkOK' /\ Launched("keeper")
      BY <2>3, LaunchEffect DEF Types
    <3>2. Fresh(Head(keeper.plan)) \subseteq VMs
      BY DEF Fresh
    <3>3. KeeperOK' /\ keeper'.pc = "wait"
      BY <2>3, <3>2 DEF Types, KeeperOK, KeeperFields
    <3> QED
      BY <1>0, <2>1, <2>3, <3>1, <3>3, Untouched, KeeperFrame DEF Types, KeeperMove
  <2> QED
    BY <1>7, <2>2, <2>3 DEF KeeperBuild
<1>8. CASE KeeperWait
  <2>1. UNCHANGED <<rows, up, mutex, work>> /\ keeper.pc = "wait"
    BY <1>8 DEF KeeperWait
  <2>2. KeeperOK' /\ keeper'.pc = "build"
    BY <1>8 DEF KeeperWait, Types, KeeperOK, KeeperFields
  <2> QED
    BY <1>0, <2>1, <2>2, Untouched, KeeperFrame DEF Types, KeeperMove
<1> QED
  BY <1>2, <1>3, <1>4, <1>5, <1>6, <1>7, <1>8 DEF KeeperStep

(* The keeper keeps the invariant. *)
LEMMA KeeperKeeps == ASSUME UNCHANGED config, Constants, IInv, Types', KeeperMove PROVE IInv'
<1>1. /\ UNCHANGED stage
      /\ \A w \in VMs : up'[w] \in {up[w], "none"}
      /\ \A w \in VMs : work'[w] = work[w] \/ (work[w].pc = "none" /\ work'[w].pc = "create")
  BY DEF KeeperMove, Launched
<1>2. \A w \in VMs : \/ RowState(w)' = RowState(w)
                     \/ RowState(w)' = "absent" /\ keeper.pc = "delete" /\ w \in keeper.set
  BY DEF KeeperMove
<1>3. ASSUME NEW w \in VMs, work[w].pc = "none"
      PROVE  up[w] = "none" /\ RowState(w) = "absent" /\ \A t \in Stages : stage[t].vm # w
  BY <1>3 DEF IInv, BirthInv, GoneInv, Unborn
<1>4. ASSUME NEW t \in Stages, stage[t].vm \in VMs PROVE work'[stage[t].vm] = work[stage[t].vm]
  BY <1>1, <1>3, <1>4
<1>5. BirthInv'
  <2> SUFFICES ASSUME NEW w \in VMs, work'[w].pc \in Unborn
               PROVE  /\ RowState(w)' = "absent"
                      /\ \A t \in Stages : stage[t].vm = w => stage[t].pc = "creating" /\ work'[w].pc # "none"
                      /\ keeper'.pc \in {"destroy", "delete"} => w \notin keeper'.set
    BY <1>1 DEF BirthInv
  <2>1. work[w].pc \in Unborn
    BY <1>1 DEF Unborn
  <2>2. /\ RowState(w) = "absent"
        /\ \A t \in Stages : stage[t].vm = w => stage[t].pc = "creating" /\ work[w].pc # "none"
        /\ keeper.pc \in {"destroy", "delete"} => w \notin keeper.set
    BY <2>1 DEF IInv, BirthInv
  <2>3. keeper'.pc \in {"destroy", "delete"} => w \notin keeper'.set
    BY <2>2 DEF KeeperMove
  <2> QED
    BY <1>1, <1>2, <2>2, <2>3
<1>6. GoneInv'
  <2>1. \A w \in VMs : work'[w].pc \in {"none", "create", "delete"} => up'[w] = "none"
    BY <1>1 DEF IInv, GoneInv
  <2>2. ASSUME NEW t \in Stages, stage[t].pc = "deleting" PROVE up'[stage[t].vm] = "none"
    BY <1>1, <2>2 DEF IInv, GoneInv, Types, StageOK, WithVM
  <2>3. NamesFailed /\ keeper'.pc = "delete" => \A w \in keeper'.set : up'[w] = "none"
    BY DEF KeeperMove
  <2> QED
    BY <1>1, <2>1, <2>2, <2>3 DEF GoneInv
<1>7. VMRecorded'
  <2> SUFFICES ASSUME NamesFailed, NEW w \in VMs, up'[w] # "none"
               PROVE  RowState(w)' # "absent" \/ work'[w].pc \in {"record", "lost"}
    BY RecordedViewNext DEF Types
  <2>1. up[w] # "none"
    BY <1>1
  <2>2. RowState(w) # "absent" \/ work[w].pc \in {"record", "lost"}
    BY <2>1, RecordedView DEF IInv, Types
  <2>3. ~(keeper.pc = "delete" /\ w \in keeper.set)
    BY <2>1 DEF IInv, GoneInv
  <2> QED
    BY <1>1, <1>2, <1>3, <2>1, <2>2, <2>3
<1>8. MutexInv'
  <2>1. \A t \in Stages : stage[t].pc \notin {"list", "claim"}
    BY DEF IInv, MutexInv, KeeperMove
  <2>2. keeper'.pc # "idle" => mutex'
    BY DEF IInv, MutexInv, KeeperMove
  <2> QED
    BY <1>1, <2>1, <2>2 DEF MutexInv
<1>9. OwnerInv'
  <2>1. ASSUME NEW t \in Stages, stage[t].pc = "creating"
        PROVE  work'[stage[t].vm].by = t /\ work'[stage[t].vm].pc \in {"create", "record", "ended", "failed", "lost"}
    BY <1>4, <2>1 DEF IInv, OwnerInv, Types, StageOK, WithVM
  <2>2. ASSUME NEW t \in Gitspaces, t \in Stages, stage[t].vm # NoVM PROVE work'[stage[t].vm].by = t
    BY <1>4, <2>2 DEF IInv, OwnerInv, Types, StageOK
  <2>3. ASSUME NEW w \in VMs, work'[w].pc = "suspend" PROVE Gitspace(w)'
    BY <1>1, <2>3 DEF IInv, OwnerInv, Gitspace
  <2> QED
    BY <1>1, <2>1, <2>2, <2>3 DEF IInv, OwnerInv, Constants
<1>10. PoolInv'
  <2> SUFFICES ASSUME NEW w \in VMs, Good(w)'
               PROVE  /\ Resting(w)'
                      /\ \A t \in Stages : stage[t].vm = w => Served(w, t)'
                      /\ \A t, u \in Stages : stage[t].vm = w /\ stage[u].vm = w => t = u
    BY <1>1 DEF PoolInv
  <2>1. CASE work'[w] # work[w]
    BY <1>1, <1>3, <2>1 DEF Resting, Fetching, Pausing
  <2>2. CASE work'[w] = work[w]
    <3>1. Good(w)
      BY <1>1, <2>2 DEF Good, Gitspace, HandlerEnds
    <3>2. /\ Resting(w)
          /\ \A t \in Stages : stage[t].vm = w => Served(w, t)
          /\ \A t, u \in Stages : stage[t].vm = w /\ stage[u].vm = w => t = u
      BY <3>1 DEF IInv, PoolInv
    <3>3. RowState(w)' \in {RowState(w), "absent"}
      BY <1>2
    <3> QED
      BY <1>1, <2>2, <3>2, <3>3 DEF Resting, Served
  <2> QED
    BY <2>1, <2>2
<1> QED
  BY <1>5, <1>6, <1>7, <1>8, <1>9, <1>10 DEF IInv

-----------------------------------------------------------------------------
(* The initial states satisfy the invariant. *)
LEMMA InitInv == ASSUME Constants, PoolInit PROVE IInv
<1>1. IsRow(RequestRow)
  BY RowFacts
<1>2. /\ \A v \in VMs : work[v] = [NoWork EXCEPT !.pc = IF v <= Kept THEN "ended" ELSE "none"]
      /\ \A s \in Stages : stage[s] = [pc |-> "idle", vm |-> NoVM, row |-> RequestRow]
      /\ DOMAIN work = VMs /\ DOMAIN stage = Stages /\ DOMAIN up = VMs
      /\ \A v \in VMs : up[v] = IF v <= Kept THEN "on" ELSE "none"
  BY DEF PoolInit
<1>3. /\ \A v \in VMs : /\ DOMAIN work[v] = WorkFields /\ work[v].row = RequestRow
                        /\ work[v].by = NoOne
                        /\ work[v].pc = IF v <= Kept THEN "ended" ELSE "none"
      /\ \A s \in Stages : DOMAIN stage[s] = StageFields /\ stage[s].pc = "idle" /\ stage[s].vm = NoVM
                           /\ stage[s].row = RequestRow
  <2>1. ASSUME NEW v \in VMs
        PROVE  /\ DOMAIN work[v] = WorkFields /\ work[v].row = RequestRow /\ work[v].by = NoOne
               /\ work[v].pc = IF v <= Kept THEN "ended" ELSE "none"
    <3>1. PICK pc : work[v] = [NoWork EXCEPT !.pc = pc] /\ pc = IF v <= Kept THEN "ended" ELSE "none"
      BY <1>2
    <3> QED
      BY <3>1 DEF NoWork, WorkFields
  <2>2. ASSUME NEW s \in Stages
        PROVE  /\ DOMAIN stage[s] = StageFields /\ stage[s].pc = "idle" /\ stage[s].vm = NoVM
               /\ stage[s].row = RequestRow
    BY <1>2 DEF StageFields
  <2> QED
    BY <1>2, <2>1, <2>2
<1>4. /\ DOMAIN rows = {v \in VMs : v <= Kept}
      /\ \A v \in DOMAIN rows : IsRow(rows[v]) /\ rows[v].state = "created"
  <2>1. 1..Kept = {v \in VMs : v <= Kept}
    BY DEF Constants, VMs
  <2>3. DOMAIN rows = 1..Kept
    BY DEF PoolInit
  <2>4. \A v \in 1..Kept : rows[v] = [RequestRow EXCEPT !.state = "created", !.started = v,
                                  !.tenant = Tenants[1].id, !.retain = FALSE]
    BY DEF PoolInit
  <2>5. ASSUME NEW v \in 1..Kept PROVE IsRow(rows[v]) /\ rows[v].state = "created"
    BY <1>1, <2>4 DEF IsRow, RowFields, States
  <2> QED
    BY <2>1, <2>3, <2>5
<1>5. keeper.pc = "idle" /\ keeper.set = {} /\ DOMAIN keeper = KeeperFields
  BY DEF PoolInit, NoKeeper, KeeperFields
<1>6. \A v \in VMs : RowState(v) = IF v <= Kept THEN "created" ELSE "absent"
  BY <1>4 DEF RowState
<1>7. NoVM \notin VMs /\ NoOne \notin Gitspaces
  BY DEF Constants, VMs, NoVM
<1>8. Types
  <2>1. RowsOK
    BY <1>4 DEF RowsOK
  <2>2. WorkOK
    BY <1>1, <1>2, <1>3 DEF WorkOK, WorkPCs, Unborn, Quiet
  <2>3. StageOK
    BY <1>1, <1>2, <1>3 DEF StageOK, StagePCs, NoVMYet, WithVM
  <2> QED
    BY <1>2, <1>5, <2>1, <2>2, <2>3 DEF Types, KeeperOK
<1>9. BirthInv
  BY <1>3, <1>5, <1>6, <1>7 DEF BirthInv, Unborn
<1>10. GoneInv
  BY <1>2, <1>3, <1>5 DEF GoneInv
<1>11. VMRecorded
  BY <1>2, <1>6, <1>8, RecordedView DEF Types
<1>12. MutexInv
  BY <1>3, <1>5 DEF MutexInv
<1>13. OwnerInv
  BY <1>3, <1>7 DEF OwnerInv, Constants
<1>14. PoolInv
  BY <1>3, <1>7 DEF PoolInv, Resting, Fetching, Pausing
<1> QED
  BY <1>8, <1>9, <1>10, <1>11, <1>12, <1>13, <1>14 DEF IInv

(* A step that changes nothing keeps it too. *)
LEMMA StutterInv == ASSUME IInv, UNCHANGED poolVars PROVE IInv'
<1> UNCHANGED config
  BY DEF poolVars
<1>1. /\ UNCHANGED <<rows, up, mutex, work, stage, keeper>>
      /\ \A w \in VMs : RowState(w)' = RowState(w)
  BY Untouched DEF poolVars
<1>2. Types'
  BY <1>1, Untouched DEF IInv, Types
<1>3. BirthInv' /\ GoneInv' /\ MutexInv' /\ OwnerInv'
  BY <1>1 DEF IInv, BirthInv, GoneInv, MutexInv, OwnerInv, Gitspace
<1>4. VMRecorded'
  BY <1>1 DEF IInv, VMRecorded, Find
<1>5. PoolInv'
  BY <1>1 DEF IInv, PoolInv, Good, Gitspace, HandlerEnds, Resting, Served
<1> QED
  BY <1>2, <1>3, <1>4, <1>5 DEF IInv

(* Every step keeps the invariant. *)
LEMMA NextInv == ASSUME Constants, IInv, [PoolNext]_poolVars PROVE Constants' /\ IInv'
<1> UNCHANGED config
  BY DEF PoolNext, poolVars
<1>1. ASSUME NEW v \in VMs, Work(v) PROVE IInv'
  BY <1>1, WorkKeeps
<1>2. ASSUME NEW s \in Stages, StageStep(s) \/ Choice(s) PROVE IInv'
  <2>1. Types' /\ (MoveStep(s) \/ WriteStep(s) \/ PowerStep(s) \/ LaunchStep(s) \/ CallStep(s))
    BY <1>2, StageEffect DEF IInv
  <2> QED
    BY <2>1, MoveKeeps, WriteKeeps, PowerKeeps, LaunchKeeps, CallKeeps
<1>3. CASE KeeperLock \/ KeeperStep
  <2>1. Types' /\ KeeperMove
    BY <1>3, KeeperEffect DEF IInv
  <2> QED
    BY <2>1, KeeperKeeps
<1>4. CASE UNCHANGED poolVars
  BY <1>4, StutterInv
<1> QED
  BY <1>1, <1>2, <1>3, <1>4 DEF PoolNext

(* The invariant holds in every state of the pool manager. *)
LEMMA Invariance == PoolSpec => [](Constants /\ IInv)
<1>1. PoolInit => Constants
  BY ConfigsAssumption DEF PoolInit, Constants, MaxVMs, Kept, Gitspaces, Stages
<1>2. PoolInit => IInv
  BY <1>1, InitInv
<1>3. Constants /\ IInv /\ [PoolNext]_poolVars => (Constants /\ IInv)'
  BY NextInv
<1> QED
  BY <1>1, <1>2, <1>3, PTL DEF PoolSpec

(* No VM is given to two stages, however many stages and VMs there are and *)
(* however often a hibernation is retried: Provision claims under the      *)
(* mutex a row that no goroutine but a resting one goes with.              *)
THEOREM PoolVMServesOneStage == PoolSpec => []LocalSingleUse
<1>1. IInv => LocalSingleUse
  BY DEF IInv, PoolInv, Good, LocalSingleUse, Uses
<1> QED
  BY <1>1, Invariance, PTL

(* With a driver that names the instances it failed on, every VM at the    *)
(* provider has a row, so that the purger finds it: Destroy, the purger    *)
(* and DestroyUnreachable delete a row only when the driver has destroyed  *)
(* the VM, and nothing brings back a VM that is gone.                      *)
THEOREM PoolVMsAreRecorded == PoolSpec => []VMRecorded
<1>1. IInv => VMRecorded
  BY DEF IInv
<1> QED
  BY <1>1, Invariance, PTL

(* No step stops a VM of the pool under a stage: hibernate looks at the    *)
(* row again under the mutex before each of its tries.                     *)
THEOREM NoStopUnderPoolStage == PoolSpec => NotStoppedInUse
<1>1. ASSUME Constants, IInv, PoolNext PROVE ~StopsInUse
  <2> UNCHANGED config
    BY <1>1 DEF PoolNext
  <2> SUFFICES ASSUME NEW w \in VMs, NEW t \in Stages,
                      up[w] = "on", up'[w] = "off", Good(w), Uses(t, w)
               PROVE  FALSE
    BY DEF StopsInUse, Good
  <2>1. work[w].pc \in Quiet
    BY <1>1 DEF IInv, PoolInv, Served, Uses
  <2>2. ASSUME NEW v \in VMs, Work(v) PROVE FALSE
    <3>1. VMStep(v)
      BY <1>1, <2>2, WorkEffect DEF IInv
    <3>2. w = v
      BY <3>1 DEF VMStep, SameVM
    <3> QED
      BY <2>1, <3>1, <3>2 DEF VMStep, SetUpStep, FetchStep, PauseStep, Moves, UpStays, Quiet
  <2>3. ASSUME NEW s \in Stages, StageStep(s) \/ Choice(s) PROVE FALSE
    <3>1. MoveStep(s) \/ WriteStep(s) \/ PowerStep(s) \/ LaunchStep(s) \/ CallStep(s)
      BY <1>1, <2>3, StageEffect DEF IInv
    <3>2. CASE PowerStep(s)
      BY <3>2 DEF PowerStep
    <3> QED
      BY <3>1, <3>2 DEF MoveStep, WriteStep, LaunchStep, CallStep
  <2>4. CASE KeeperLock \/ KeeperStep
    BY <1>1, <2>4, KeeperEffect DEF IInv, KeeperMove
  <2> QED
    BY <1>1, <2>2, <2>3, <2>4 DEF PoolNext
<1> QED
  BY <1>1, Invariance, PTL DEF PoolSpec, NotStoppedInUse
============================================================================
