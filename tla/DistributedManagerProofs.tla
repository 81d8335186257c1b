--------------------------- MODULE DistributedManagerProofs ---------------------------
(***************************************************************************)
(* Theorems about DistributedManager for any number of VMs, stages and     *)
(* reapers, proved with TLAPS.  Every action touches at most a few rows    *)
(* through the operators of the instance store, so the first lemmas state  *)
(* what those do to a row, and the rest never look inside one.             *)
(***************************************************************************)
EXTENDS DistributedManager, TLAPS

TypeInv == TypeOK /\ Busy

(* What the table's operators leave in the other rows. *)
OthersKept(v) == \A w \in VMs : w # v => rows'[w] = rows[w]

(* A write of row v that may fail, and never makes a row. *)
Wrote(v, state, stage) ==
  /\ rows' \in [VMs -> Row]
  /\ OthersKept(v)
  /\ v \in VMs => \/ rows'[v] = rows[v]
                  \/ rows'[v].state = state /\ rows'[v].stage = stage
  /\ v \in VMs /\ rows[v].state = "none" => rows'[v].state = "none"

-----------------------------------------------------------------------------
(* The default row is a row. *)
LEMMA NoRowType == NoRow \in Row
  BY AgeAssumption DEF NoRow, Row, InstanceState, Source, AgeCap

(* InstanceStore.Create *)
LEMMA InsertEffect ==
  ASSUME rows \in [VMs -> Row], NEW v \in VMs, NEW state \in InstanceState,
         NEW retain \in BOOLEAN, NEW source \in Source, Insert(v, state, retain, source)
  PROVE  /\ rows' \in [VMs -> Row]
         /\ OthersKept(v)
         /\ rows'[v].state = state /\ rows'[v].stage = NoStage
<1>1. [NoRow EXCEPT !.state = state, !.retain = retain, !.source = source] \in Row
  BY NoRowType DEF Row
<1>2. [NoRow EXCEPT !.state = state, !.retain = retain, !.source = source].state = state
  BY DEF NoRow
<1>3. [NoRow EXCEPT !.state = state, !.retain = retain, !.source = source].stage = NoStage
  BY DEF NoRow
<1> QED
  BY <1>1, <1>2, <1>3 DEF Insert, OthersKept

(* InstanceStore.Update, on any id *)
LEMMA UpdateEffect ==
  ASSUME rows \in [VMs -> Row], NEW v, NEW state \in InstanceState,
         NEW stage \in Stages \cup {NoStage}
  PROVE  \A hib, recent \in BOOLEAN :
           Update(v, state, stage, hib, recent) => Wrote(v, state, stage)
<1> SUFFICES ASSUME NEW hib \in BOOLEAN, NEW recent \in BOOLEAN,
                    Update(v, state, stage, hib, recent)
             PROVE  Wrote(v, state, stage)
  OBVIOUS
<1> DEFINE new == [rows[v] EXCEPT !.state = state, !.stage = stage, !.hib = hib,
                                  !.recent = recent]
<1>1. ASSUME v \in VMs
      PROVE  new \in Row /\ new.state = state /\ new.stage = stage
  <2>1. rows[v] \in Row
    BY <1>1
  <2> QED
    BY <2>1 DEF Row
<1>2. rows' = [rows EXCEPT ![v] = IF rows[v].state # "none" THEN new ELSE rows[v]]
  BY DEF Update, HasRow
<1> QED
  BY <1>1, <1>2 DEF OthersKept, Wrote

(* InstanceStore.Delete, on any id *)
LEMMA DeleteEffect ==
  ASSUME rows \in [VMs -> Row], NEW v, Delete(v) \/ UNCHANGED rows
  PROVE  Wrote(v, "none", NoStage)
<1>1. NoRow.state = "none" /\ NoRow.stage = NoStage
  BY DEF NoRow
<1> QED
  BY <1>1, NoRowType DEF Delete, OthersKept, Wrote

(* InstanceStore.FindAndClaim *)
LEMMA ClaimEffect ==
  ASSUME rows \in [VMs -> Row], NEW v \in VMs, NEW newState \in InstanceState,
         NEW allowedStates, NEW updateStartTime \in BOOLEAN,
         FindAndClaim(v, newState, allowedStates, updateStartTime)
  PROVE  /\ rows' \in [VMs -> Row]
         /\ OthersKept(v)
         /\ rows[v].state \in allowedStates
         /\ rows'[v].state = newState /\ rows'[v].stage = rows[v].stage
<1> DEFINE new == [rows[v] EXCEPT !.state = newState, !.recent = (newState = "terminating"),
                                  !.age = IF updateStartTime THEN 0 ELSE rows[v].age]
<1>1. new \in Row /\ new.state = newState /\ new.stage = rows[v].stage
  <2>1. rows[v] \in Row
    OBVIOUS
  <2>2. 0 \in 0 .. AgeCap
    BY AgeAssumption DEF AgeCap
  <2> QED
    BY <2>1, <2>2 DEF Row
<1>2. rows' = [rows EXCEPT ![v] = new]
  BY DEF FindAndClaim
<1> QED
  BY <1>1, <1>2 DEF FindAndClaim, OthersKept

(* The fields of a row. *)
LEMMA RowFields ==
  ASSUME rows \in [VMs -> Row], NEW v \in VMs
  PROVE  /\ rows[v].state \in InstanceState \cup {"none"}
         /\ rows[v].stage \in Stages \cup {NoStage}
         /\ rows[v].hib \in BOOLEAN /\ rows[v].recent \in BOOLEAN
<1>1. rows[v] \in Row
  OBVIOUS
<1> QED
  BY <1>1 DEF Row

(* The strings the handlers pass. *)
LEMMA StateNames ==
  /\ {"created", "inuse", "hibernating", "terminating", "provisioning"} \subseteq InstanceState
  /\ {"pool", "predictor", "ondemand"} \subseteq Source
  BY DEF InstanceState, Source

(* The fields of handleSetup's copy. *)
LEMMA HeldFields ==
  ASSUME TypeInv, NEW s \in Stages
  PROVE  /\ held[s].state \in InstanceState
         /\ held[s].stage \in Stages \cup {NoStage}
         /\ held[s].hib \in BOOLEAN /\ held[s].recent \in BOOLEAN
  BY DEF TypeInv, TypeOK

-----------------------------------------------------------------------------
(* What each handler writes. *)

(* The writes of the pooler's goroutine. *)
LEMMA PoolerWrites ==
  ASSUME TypeInv, NEW v \in VMs
  PROVE  /\ SeedVerified(v) \/ HibernateDone(v) => Wrote(v, "created", NoStage)
         /\ SeedDelete(v) => Wrote(v, "none", NoStage)
<1>1. rows \in [VMs -> Row]
  BY DEF TypeInv, TypeOK
<1>2. \A hib, recent \in BOOLEAN :
        Update(v, "created", NoStage, hib, recent) => Wrote(v, "created", NoStage)
  BY <1>1, StateNames, UpdateEffect
<1>3. UNCHANGED rows => Wrote(v, "created", NoStage)
  BY <1>1 DEF Wrote, OthersKept
<1>4. SeedVerified(v) => Wrote(v, "created", NoStage)
  BY <1>2, <1>3 DEF SeedVerified
<1>5. HibernateDone(v) => Wrote(v, "created", NoStage)
  BY <1>2, <1>3 DEF HibernateDone
<1>6. SeedDelete(v) => Wrote(v, "none", NoStage)
  BY <1>1, DeleteEffect DEF SeedDelete
<1> QED
  BY <1>4, <1>5, <1>6

(* The writes of handleSetup and of its clean-up. *)
LEMMA SetupWrites ==
  ASSUME TypeInv, NEW s \in Stages
  PROVE  /\ OwnerUpdate(s) => Wrote(leased[s], held[s].state, held[s].stage)
         /\ ResumeWrite(s) => Wrote(leased[s], held[s].state, held[s].stage)
         /\ Tag(s) => Wrote(leased[s], held[s].state, s)
         /\ CleanupDelete(s) => Wrote(leased[s], "none", NoStage)
<1>1. rows \in [VMs -> Row]
  BY DEF TypeInv, TypeOK
<1>2. \A stage \in Stages \cup {NoStage} : \A hib, recent \in BOOLEAN :
        Update(leased[s], held[s].state, stage, hib, recent)
          => Wrote(leased[s], held[s].state, stage)
  BY <1>1, HeldFields, UpdateEffect
<1>3. ASSUME UNCHANGED rows, NEW stage PROVE Wrote(leased[s], held[s].state, stage)
  BY <1>1, <1>3 DEF Wrote, OthersKept
<1>4. OwnerUpdate(s) => Wrote(leased[s], held[s].state, held[s].stage)
  BY <1>2, <1>3, HeldFields, Zenon DEF OwnerUpdate
<1>5. ResumeWrite(s) => Wrote(leased[s], held[s].state, held[s].stage)
  BY <1>2, <1>3, HeldFields, Zenon DEF ResumeWrite
<1>6. Tag(s) => Wrote(leased[s], held[s].state, s)
  BY <1>2, <1>3, HeldFields, Zenon DEF Tag
<1>7. CleanupDelete(s) => Wrote(leased[s], "none", NoStage)
  BY <1>1, DeleteEffect DEF CleanupDelete
<1> QED
  BY <1>4, <1>5, <1>6, <1>7

(* The writes of handleDestroy. *)
LEMMA DestroyWrites ==
  ASSUME TypeInv, NEW s \in Stages
  PROVE  /\ DestroyMark(s) => \/ Wrote(target[s], "terminating", s)
                              \/ Wrote(target[s], "terminating", NoStage)
         /\ DestroyDelete(s) => Wrote(target[s], "none", NoStage)
<1> DEFINE v == target[s]
<1>1. rows \in [VMs -> Row]
  BY DEF TypeInv, TypeOK
<1>2. \A hib, recent \in BOOLEAN :
        Update(v, "terminating", s, hib, recent) => Wrote(v, "terminating", s)
  BY <1>1, StateNames, UpdateEffect
<1>3. ASSUME DestroyMark(s), Update(v, "terminating", s, rows[v].hib, TRUE)
      PROVE  Wrote(v, "terminating", s)
  <2>1. v \in VMs
    BY <1>3 DEF TypeInv, TypeOK, Busy, DestroyMark
  <2>2. rows[v].hib \in BOOLEAN
    BY <1>1, <2>1, RowFields
  <2> QED
    BY <1>2, <1>3, <2>2, Zenon
<1>4. ASSUME DestroyMark(s), HasRow(v),
             rows' = [rows EXCEPT ![v].state = "terminating", ![v].stage = NoStage,
                        ![v].hib = FALSE, ![v].recent = TRUE, ![v].age = AgeCap]
      PROVE  Wrote(v, "terminating", NoStage)
  <2> DEFINE new == [rows[v] EXCEPT !.state = "terminating", !.stage = NoStage,
                       !.hib = FALSE, !.recent = TRUE, !.age = AgeCap]
  <2>1. v \in VMs
    BY <1>4 DEF TypeInv, TypeOK, Busy, DestroyMark
  <2>2. rows[v] \in Row /\ AgeCap \in 0 .. AgeCap
    BY <1>1, <2>1, AgeAssumption DEF AgeCap
  <2>3. new \in Row /\ new.state = "terminating" /\ new.stage = NoStage
    BY <2>2, StateNames DEF Row
  <2>4. rows' = [rows EXCEPT ![v] = new]
    BY <1>4
  <2> QED
    BY <1>1, <1>4, <2>1, <2>3, <2>4 DEF Wrote, OthersKept, HasRow
<1>5. UNCHANGED rows => Wrote(v, "terminating", s)
  BY <1>1 DEF Wrote, OthersKept
<1>6. DestroyDelete(s) => Wrote(v, "none", NoStage)
  BY <1>1, DeleteEffect DEF DestroyDelete
<1> QED
  BY <1>3, <1>4, <1>5, <1>6, Zenon DEF DestroyMark

(* The two inserts, which may fail. *)
LEMMA Inserts ==
  ASSUME TypeInv
  PROVE  /\ \A v \in VMs : SeedInsert(v) =>
              /\ rows' \in [VMs -> Row] /\ OthersKept(v)
              /\ \/ rows'[v] = rows[v] /\ pooler'[v] = "done"
                 \/ /\ rows'[v].state = "provisioning" /\ rows'[v].stage = NoStage
                    /\ pooler'[v] = "waiting"
         /\ \A s \in Stages : InsertOnDemand(s) =>
              /\ rows' \in [VMs -> Row] /\ OthersKept(leased[s])
              /\ \/ rows'[leased[s]] = rows[leased[s]] /\ setup'[s] = "failed"
                 \/ /\ rows'[leased[s]].state = "inuse" /\ rows'[leased[s]].stage = NoStage
                    /\ setup'[s] = "provisioned"
<1>1. rows \in [VMs -> Row] /\ pooler \in [VMs -> PoolerPC] /\ setup \in [Stages -> SetupPC]
  BY DEF TypeInv, TypeOK
<1>2. ASSUME NEW v \in VMs, SeedInsert(v)
      PROVE  /\ rows' \in [VMs -> Row] /\ OthersKept(v)
             /\ \/ rows'[v] = rows[v] /\ pooler'[v] = "done"
                \/ /\ rows'[v].state = "provisioning" /\ rows'[v].stage = NoStage
                   /\ pooler'[v] = "waiting"
  <2>1. ASSUME NEW source \in {"pool", "predictor"}, Insert(v, "provisioning", FALSE, source)
        PROVE  /\ rows' \in [VMs -> Row] /\ OthersKept(v)
               /\ rows'[v].state = "provisioning" /\ rows'[v].stage = NoStage
    <3>1. source \in Source /\ "provisioning" \in InstanceState
      BY StateNames
    <3> QED
      BY <1>1, <2>1, <3>1, InsertEffect
  <2> QED
    BY <1>1, <1>2, <2>1 DEF SeedInsert, PoolerTo, OthersKept
<1>3. ASSUME NEW s \in Stages, InsertOnDemand(s)
      PROVE  /\ rows' \in [VMs -> Row] /\ OthersKept(leased[s])
             /\ \/ rows'[leased[s]] = rows[leased[s]] /\ setup'[s] = "failed"
                \/ /\ rows'[leased[s]].state = "inuse" /\ rows'[leased[s]].stage = NoStage
                   /\ setup'[s] = "provisioned"
  <2>1. leased[s] \in VMs
    BY <1>3 DEF TypeInv, TypeOK, Busy, InsertOnDemand
  <2>2. \A retain \in BOOLEAN : Insert(leased[s], "inuse", retain, "ondemand") =>
          /\ rows' \in [VMs -> Row] /\ OthersKept(leased[s])
          /\ rows'[leased[s]].state = "inuse" /\ rows'[leased[s]].stage = NoStage
    <3>1. "ondemand" \in Source /\ "inuse" \in InstanceState
      BY StateNames
    <3> QED
      BY <1>1, <2>1, <3>1, InsertEffect
  <2>3. Insert(leased[s], "inuse", s \in RetainStages, "ondemand") =>
          /\ rows' \in [VMs -> Row] /\ OthersKept(leased[s])
          /\ rows'[leased[s]].state = "inuse" /\ rows'[leased[s]].stage = NoStage
    <3>1. (s \in RetainStages) \in BOOLEAN
      OBVIOUS
    <3> QED
      BY <2>2, <3>1
  <2> QED
    BY <1>1, <1>3, <2>3 DEF InsertOnDemand, SetupTo, OthersKept
<1> QED
  BY <1>2, <1>3

(* The sweeps and the clock, on any row: it is left, marked or deleted. *)
LEMMA SweepWrites ==
  ASSUME TypeInv, NEW r \in Reapers, NEW v \in VMs
  PROVE  /\ ForceDelete(r) \/ ReapDelete(r) =>
              \/ rows'[v] = rows[v]
              \/ rows'[v].state = "none" /\ rows'[v].stage = NoStage
         /\ PurgeClaim(r) =>
              \/ rows'[v] = rows[v]
              \/ /\ rows[v].state # "none" /\ rows'[v].state = "terminating"
                 /\ rows'[v].stage = rows[v].stage
<1>1. rows \in [VMs -> Row] /\ rows[v] \in Row
  BY DEF TypeInv, TypeOK
<1>2. NoRow.state = "none" /\ NoRow.stage = NoStage
  BY DEF NoRow
<1>3. ForceDelete(r) => rows'[v] = rows[v] \/ rows'[v] = NoRow
  BY <1>1 DEF ForceDelete
<1>4. ReapDelete(r) => rows'[v] = rows[v] \/ rows'[v] = NoRow
  BY <1>1 DEF ReapDelete
<1>5. ASSUME PurgeClaim(r)
      PROVE  \/ rows'[v] = rows[v]
             \/ /\ rows[v].state # "none" /\ rows'[v].state = "terminating"
                /\ rows'[v].stage = rows[v].stage
  <2> DEFINE new == [rows[v] EXCEPT !.state = "terminating", !.recent = TRUE]
  <2>1. new.state = "terminating" /\ new.stage = rows[v].stage
    BY <1>1 DEF Row
  <2>2. Stale(v, job[r]) => rows[v].state # "none"
    BY DEF Stale
  <2>3. rows'[v] = rows[v] \/ (Stale(v, job[r]) /\ rows'[v] = new)
    BY <1>5 DEF PurgeClaim
  <2> QED
    BY <2>1, <2>2, <2>3
<1> QED
  BY <1>2, <1>3, <1>4, <1>5

(* Time changes neither the state nor the stage of a row or of a copy. *)
LEMMA TickWrites ==
  ASSUME TypeInv, Tick
  PROVE  /\ \A v \in VMs : rows'[v].state = rows[v].state /\ rows'[v].stage = rows[v].stage
         /\ \A s \in Stages : held'[s].state = held[s].state /\ held'[s].stage = held[s].stage
<1>1. ASSUME NEW v \in VMs
      PROVE  rows'[v].state = rows[v].state /\ rows'[v].stage = rows[v].stage
  <2> DEFINE new == [rows[v] EXCEPT !.recent = FALSE,
                       !.age = IF @ < AgeCap THEN @ + 1 ELSE @]
  <2>1. rows[v] \in Row
    BY DEF TypeInv, TypeOK
  <2>2. new.state = rows[v].state /\ new.stage = rows[v].stage
    BY <2>1 DEF Row
  <2>3. rows'[v] = rows[v] \/ rows'[v] = new
    BY DEF Tick
  <2> QED
    BY <2>2, <2>3
<1>2. ASSUME NEW s \in Stages
      PROVE  held'[s].state = held[s].state /\ held'[s].stage = held[s].stage
  <2>1. held[s] \in [state: InstanceState, stage: Stages \cup {NoStage},
                     hib: BOOLEAN, recent: BOOLEAN]
    BY DEF TypeInv, TypeOK
  <2>2. held'[s] = [held[s] EXCEPT !.recent = FALSE]
    BY DEF Tick
  <2> QED
    BY <2>1, <2>2
<1> QED
  BY <1>1, <1>2

(* Every step keeps the types, and keeps a VM with every active handler. *)
LEMMA TypeStep == TypeInv /\ [Next]_vars => TypeInv'
<1> SUFFICES ASSUME TypeOK, Busy, [Next]_vars PROVE TypeInv'
  BY DEF TypeInv
<1> USE NoneAssumption
    DEF TypeInv, TypeOK, Busy, setupVars, destVars, reapVars, lossVars
<1>1. ASSUME NEW v \in VMs, SeedCreate(v) PROVE TypeInv'
  BY <1>1 DEF SeedCreate, PoolerTo, PoolerOnly, PoolerPC, DriverCreate, CloudState
<1>2. ASSUME NEW v \in VMs, SeedInsert(v) PROVE TypeInv'
  <2>1. pooler' \in [VMs -> PoolerPC]
    BY <1>2 DEF SeedInsert, PoolerTo, PoolerPC
  <2>2. cloud' \in [VMs -> CloudState] /\ dropped' \subseteq VMs
    BY <1>2 DEF SeedInsert, DriverDestroy, CloudState
  <2> QED
    BY <1>2, <2>1, <2>2, Inserts DEF SeedInsert, PoolerOnly
<1>3. ASSUME NEW v \in VMs, SeedConnect(v) PROVE TypeInv'
  BY <1>3 DEF SeedConnect, PoolerTo, PoolerOnly, PoolerPC
<1>4. ASSUME NEW v \in VMs, SeedDestroy(v) PROVE TypeInv'
  BY <1>4 DEF SeedDestroy, PoolerTo, PoolerOnly, PoolerPC, DriverDestroy, CloudState
<1>5. ASSUME NEW v \in VMs, SeedDelete(v) PROVE TypeInv'
  <2>1. rows' \in [VMs -> Row]
    BY <1>5, PoolerWrites DEF Wrote
  <2> QED
    BY <1>5, <2>1 DEF SeedDelete, PoolerTo, PoolerOnly, PoolerPC
<1>6. ASSUME NEW v \in VMs, SeedVerified(v) PROVE TypeInv'
  <2>1. rows' \in [VMs -> Row]
    BY <1>6, PoolerWrites DEF Wrote
  <2> QED
    BY <1>6, <2>1 DEF SeedVerified, PoolerTo, PoolerOnly, PoolerPC
<1>7. ASSUME NEW v \in VMs, HibernateClaim(v) PROVE TypeInv'
  BY <1>7, ClaimEffect, StateNames DEF HibernateClaim, PoolerTo, PoolerOnly, PoolerPC
<1>8. ASSUME NEW v \in VMs, HibernateSkip(v) PROVE TypeInv'
  BY <1>8 DEF HibernateSkip, PoolerTo, PoolerOnly, PoolerPC
<1>9. ASSUME NEW v \in VMs, HibernateVM(v) PROVE TypeInv'
  BY <1>9 DEF HibernateVM, PoolerTo, PoolerOnly, PoolerPC, CloudState, Live
<1>10. ASSUME NEW v \in VMs, HibernateDone(v) PROVE TypeInv'
  <2>1. rows' \in [VMs -> Row]
    BY <1>10, PoolerWrites DEF Wrote
  <2> QED
    BY <1>10, <2>1 DEF HibernateDone, PoolerTo, PoolerOnly, PoolerPC
<1>11. ASSUME NEW v \in VMs, PoolerCrash(v) PROVE TypeInv'
  BY <1>11 DEF PoolerCrash, PoolerTo, PoolerOnly, PoolerPC
<1>12. ASSUME NEW s \in Stages, NEW v \in VMs, ClaimFree(s, v) PROVE TypeInv'
  <2>1. rows' \in [VMs -> Row] /\ rows'[v].state = "inuse"
    BY <1>12, ClaimEffect, StateNames DEF ClaimFree
  <2>2. Copy(v)' \in [state: InstanceState, stage: Stages \cup {NoStage},
                      hib: BOOLEAN, recent: BOOLEAN]
    <3>1. rows'[v] \in Row
      BY <2>1
    <3> QED
      BY <2>1, <3>1 DEF Copy, Row
  <2> QED
    BY <1>12, <2>1, <2>2 DEF ClaimFree, SetupTo, SetupOnly, SetupPC
<1>13. ASSUME NEW s \in Stages, OwnerUpdate(s) PROVE TypeInv'
  <2>1. rows' \in [VMs -> Row]
    BY <1>13, SetupWrites DEF Wrote
  <2> QED
    BY <1>13, <2>1 DEF OwnerUpdate, SetupTo, SetupOnly, SetupPC
<1>14. ASSUME NEW s \in Stages, NEW v \in VMs, CreateOnDemand(s, v) PROVE TypeInv'
  BY <1>14 DEF CreateOnDemand, SetupTo, SetupOnly, SetupPC, DriverCreate, CloudState
<1>15. ASSUME NEW s \in Stages, InsertOnDemand(s) PROVE TypeInv'
  <2>1. leased[s] \in VMs
    BY <1>15 DEF InsertOnDemand
  <2>2. cloud' \in [VMs -> CloudState] /\ dropped' \subseteq VMs
    BY <1>15, <2>1 DEF InsertOnDemand, DriverDestroy, CloudState
  <2> QED
    BY <1>15, <2>2, Inserts DEF InsertOnDemand, SetupOnly, SetupTo, SetupPC
<1>16. ASSUME NEW s \in Stages, ResumeFind(s) PROVE TypeInv'
  <2>1. CASE HasRow(leased[s])
    <3>1. leased[s] \in VMs
      BY <1>16 DEF ResumeFind
    <3>2. Copy(leased[s]) \in [state: InstanceState, stage: Stages \cup {NoStage},
                               hib: BOOLEAN, recent: BOOLEAN]
      BY <2>1, <3>1, RowFields DEF Copy, HasRow
    <3> QED
      BY <1>16, <3>2 DEF ResumeFind, SetupTo, SetupOnly, SetupPC
  <2>2. CASE ~HasRow(leased[s])
    BY <1>16, <2>2 DEF ResumeFind, SetupTo, SetupOnly, SetupPC
  <2> QED
    BY <2>1, <2>2
<1>17. ASSUME NEW s \in Stages, ResumeStart(s) PROVE TypeInv'
  BY <1>17 DEF ResumeStart, SetupTo, SetupOnly, SetupPC, CloudState, Live
<1>18. ASSUME NEW s \in Stages, ResumeWrite(s) PROVE TypeInv'
  <2>1. rows' \in [VMs -> Row]
    BY <1>18, SetupWrites DEF Wrote
  <2>2. [held[s] EXCEPT !.hib = FALSE] \in [state: InstanceState, stage: Stages \cup {NoStage},
                                            hib: BOOLEAN, recent: BOOLEAN]
    <3>1. held[s] \in [state: InstanceState, stage: Stages \cup {NoStage},
                       hib: BOOLEAN, recent: BOOLEAN]
      OBVIOUS
    <3> QED
      BY <3>1
  <2>3. held' \in [Stages -> [state: InstanceState, stage: Stages \cup {NoStage},
                              hib: BOOLEAN, recent: BOOLEAN]]
    BY <1>18, <2>2, ZenonT(40) DEF ResumeWrite
  <2>4. setup' \in [Stages -> SetupPC] /\ \A t \in Stages : setup'[t] = "idle" <=> setup[t] = "idle"
    BY <1>18 DEF ResumeWrite, SetupTo, SetupPC
  <2> QED
    BY <1>18, <2>1, <2>3, <2>4 DEF ResumeWrite, SetupOnly
<1>19. ASSUME NEW s \in Stages, Tag(s) PROVE TypeInv'
  <2>1. rows' \in [VMs -> Row]
    BY <1>19, SetupWrites DEF Wrote
  <2> QED
    BY <1>19, <2>1 DEF Tag, SetupTo, SetupOnly, SetupPC, StartCleanup
<1>20. ASSUME NEW s \in Stages, HealthCheck(s) PROVE TypeInv'
  BY <1>20 DEF HealthCheck, SetupTo, SetupOnly, SetupPC, StartCleanup
<1>21. ASSUME NEW s \in Stages, OwnStage(s) PROVE TypeInv'
  BY <1>21 DEF OwnStage, SetupTo, SetupOnly, SetupPC
<1>22. ASSUME NEW s \in Stages, CleanupFind(s) PROVE TypeInv'
  BY <1>22 DEF CleanupFind, SetupTo, SetupOnly, SetupPC
<1>23. ASSUME NEW s \in Stages, CleanupDestroy(s) PROVE TypeInv'
  BY <1>23 DEF CleanupDestroy, SetupTo, SetupOnly, SetupPC, DriverDestroy, CloudState
<1>24. ASSUME NEW s \in Stages, CleanupDelete(s) PROVE TypeInv'
  <2>1. rows' \in [VMs -> Row]
    BY <1>24, SetupWrites DEF Wrote
  <2> QED
    BY <1>24, <2>1 DEF CleanupDelete, SetupTo, SetupOnly, SetupPC
<1>25. ASSUME NEW s \in Stages, SetupCrash(s) PROVE TypeInv'
  BY <1>25 DEF SetupCrash, SetupTo, SetupOnly, SetupPC
<1>26. ASSUME NEW s \in Stages, NEW v \in VMs, DestroyFindDB(s, v) PROVE TypeInv'
  BY <1>26 DEF DestroyFindDB, DestroyerTo, DestroyOnly, DestroyPC
<1>27. ASSUME NEW s \in Stages, DestroyFindInfo(s) PROVE TypeInv'
  BY <1>27 DEF DestroyFindInfo, DestroyerTo, DestroyOnly, DestroyPC
<1>28. ASSUME NEW s \in Stages, DestroyMark(s) PROVE TypeInv'
  <2>1. rows' \in [VMs -> Row]
    BY <1>28, DestroyWrites DEF Wrote
  <2> QED
    BY <1>28, <2>1 DEF DestroyMark, DestroyerTo, DestroyOnly, DestroyPC
<1>29. ASSUME NEW s \in Stages, DestroyVM(s) PROVE TypeInv'
  BY <1>29 DEF DestroyVM, DestroyerTo, DestroyOnly, DestroyPC, DriverDestroy, CloudState
<1>30. ASSUME NEW s \in Stages, DestroyDelete(s) PROVE TypeInv'
  <2>1. rows' \in [VMs -> Row]
    BY <1>30, DestroyWrites DEF Wrote
  <2> QED
    BY <1>30, <2>1 DEF DestroyDelete, DestroyerTo, DestroyOnly, DestroyPC
<1>31. ASSUME NEW s \in Stages, DestroyUnown(s) PROVE TypeInv'
  BY <1>31 DEF DestroyUnown, DestroyerTo, DestroyOnly, DestroyPC
<1>32. ASSUME NEW s \in Stages, DestroyCrash(s) PROVE TypeInv'
  BY <1>32 DEF DestroyCrash, DestroyerTo, DestroyOnly, DestroyPC
<1>33. ASSUME NEW r \in Reapers, NEW j \in Job, StartJob(r, j) PROVE TypeInv'
  BY <1>33 DEF StartJob, StepTo, ReapOnly, Job
<1>34. ASSUME NEW r \in Reapers, ForceDelete(r) PROVE TypeInv'
  <2>1. rows' \in [VMs -> Row]
    BY <1>34, NoRowType DEF ForceDelete
  <2>2. reported' \subseteq VMs
    BY <1>34 DEF ForceDelete, Leaked
  <2> QED
    BY <1>34, <2>1, <2>2 DEF ForceDelete, StepTo, ReapOnly
<1>35. ASSUME NEW r \in Reapers, ForceDeleteFails(r) PROVE TypeInv'
  BY <1>35 DEF ForceDeleteFails, StepTo, ReapOnly, Job
<1>36. ASSUME NEW r \in Reapers, PurgeClaim(r) PROVE TypeInv'
  <2>1. rows' \in [VMs -> Row]
    <3>1. ASSUME NEW v \in VMs
          PROVE  [rows[v] EXCEPT !.state = "terminating", !.recent = TRUE] \in Row
      <4>1. rows[v] \in Row
        OBVIOUS
      <4> QED
        BY <4>1, StateNames DEF Row
    <3>2. CASE UNCHANGED rows
      BY <3>2
    <3>3. CASE rows' = [v \in VMs |->
                  IF v \in {w \in VMs : Stale(w, job[r])}
                    THEN [rows[v] EXCEPT !.state = "terminating", !.recent = TRUE]
                    ELSE rows[v]]
      BY <3>1, <3>3
    <3> QED
      BY <1>36, <3>2, <3>3 DEF PurgeClaim
  <2>2. /\ job' \in [Reapers -> Job] /\ todo' \in [Reapers -> SUBSET VMs]
        /\ success' \in [Reapers -> SUBSET VMs]
        /\ step' \in [Reapers -> {"idle", "force", "claim", "destroy"}]
    <3>1. CASE Finish(r)
      BY <3>1 DEF Finish, StepTo, Job
    <3>2. CASE /\ todo' = [todo EXCEPT ![r] = {v \in VMs : Stale(v, job[r])}]
               /\ StepTo(r, "destroy")
               /\ UNCHANGED <<job, success>>
      BY <3>2 DEF StepTo
    <3> QED
      BY <1>36, <3>1, <3>2 DEF PurgeClaim
  <2> QED
    BY <1>36, <2>1, <2>2 DEF PurgeClaim, ReapOnly
<1>37. ASSUME NEW r \in Reapers, NEW v \in VMs, CleanClaim(r, v) PROVE TypeInv'
  BY <1>37, ClaimEffect, StateNames DEF CleanClaim, StepTo, ReapOnly, Job, FreeStates
<1>38. ASSUME NEW r \in Reapers, CleanClaimed(r) PROVE TypeInv'
  BY <1>38 DEF CleanClaimed, StepTo, ReapOnly, Job
<1>39. ASSUME NEW r \in Reapers, ClaimError(r) PROVE TypeInv'
  BY <1>39 DEF ClaimError, StepTo, ReapOnly, Job, Finish
<1>40. ASSUME NEW r \in Reapers, NEW v \in VMs, ScaleClaim(r, v) PROVE TypeInv'
  BY <1>40, ClaimEffect, StateNames DEF ScaleClaim, StepTo, ReapOnly, Job
<1>41. ASSUME NEW r \in Reapers, NEW v \in VMs, ReapDestroy(r, v) PROVE TypeInv'
  BY <1>41 DEF ReapDestroy, StepTo, ReapOnly, Job, DriverDestroy, CloudState
<1>42. ASSUME NEW r \in Reapers, NEW v \in VMs, ReapDestroyFail(r, v) PROVE TypeInv'
  BY <1>42 DEF ReapDestroyFail, StepTo, ReapOnly, Job
<1>43. ASSUME NEW r \in Reapers, ReapDelete(r) PROVE TypeInv'
  <2>1. rows' \in [VMs -> Row]
    BY <1>43, NoRowType DEF ReapDelete
  <2> QED
    BY <1>43, <2>1 DEF ReapDelete, StepTo, ReapOnly, Finish, Job
<1>44. ASSUME NEW r \in Reapers, ReaperCrash(r) PROVE TypeInv'
  BY <1>44 DEF ReaperCrash, StepTo, ReapOnly, Job
<1>45. ASSUME Tick PROVE TypeInv'
  <2>1. rows' \in [VMs -> Row]
    <3>1. ASSUME NEW v \in VMs
          PROVE  [rows[v] EXCEPT !.recent = FALSE,
                    !.age = IF @ < AgeCap THEN @ + 1 ELSE @] \in Row
      <4>1. rows[v] \in Row /\ rows[v].age \in 0 .. AgeCap
        BY DEF Row
      <4>2. (IF rows[v].age < AgeCap THEN rows[v].age + 1 ELSE rows[v].age) \in 0 .. AgeCap
        BY <4>1, AgeAssumption DEF AgeCap
      <4> QED
        BY <4>1, <4>2 DEF Row
    <3> QED
      BY <1>45, <3>1 DEF Tick
  <2>2. held' \in [Stages -> [state: InstanceState, stage: Stages \cup {NoStage},
                              hib: BOOLEAN, recent: BOOLEAN]]
    <3>1. ASSUME NEW s \in Stages
          PROVE  [held[s] EXCEPT !.recent = FALSE] \in
                   [state: InstanceState, stage: Stages \cup {NoStage},
                    hib: BOOLEAN, recent: BOOLEAN]
      <4>1. held[s] \in [state: InstanceState, stage: Stages \cup {NoStage},
                         hib: BOOLEAN, recent: BOOLEAN]
        OBVIOUS
      <4> QED
        BY <4>1
    <3> QED
      BY <1>45, <3>1 DEF Tick
  <2>3. UNCHANGED <<cloud, pooler, setup, leased, stageOwners, destroyer, target, job, step,
                    todo, success, reported, dropped>>
    BY <1>45 DEF Tick
  <2> QED
    BY <2>1, <2>2, <2>3
<1>46. CASE UNCHANGED vars
  BY <1>46 DEF vars, setupVars, destVars, reapVars, lossVars
<1> HIDE DEF TypeInv
<1> QED
  BY <1>1, <1>2, <1>3, <1>4, <1>5, <1>6, <1>7, <1>8, <1>9, <1>10, <1>11, <1>12, <1>13,
     <1>14, <1>15, <1>16, <1>17, <1>18, <1>19, <1>20, <1>21, <1>22, <1>23, <1>24, <1>25,
     <1>26, <1>27, <1>28, <1>29, <1>30, <1>31, <1>32, <1>33, <1>34, <1>35, <1>36, <1>37,
     <1>38, <1>39, <1>40, <1>41, <1>42, <1>43, <1>44, <1>45, <1>46 DEF Next, Pooler,
     SetupStep, DestroyStep, ReapStep, Job
-----------------------------------------------------------------------------
(* Most steps are calm: they mark or delete rows, write a leased row back  *)
(* as InUse, or move an actor on without letting it write a row it could   *)
(* not write before.                                                       *)

EarlyPC == {"waiting", "verified", "unreachable", "destroyed"}
HibPC   == {"hibernating", "hibOK", "hibFail"}

CalmRow(v) ==
  \/ rows'[v].state = rows[v].state
  \/ /\ rows[v].state # "none"
     /\ \/ rows'[v].state \in {"none", "terminating"}
        \/ rows'[v].state = "inuse" /\ \E s \in Stages : leased[s] = v

CalmPooler(v) ==
  \/ pooler'[v] = pooler[v]
  \/ pooler[v] # "none" /\ pooler'[v] = "done"
  \/ pooler[v] \in EarlyPC /\ pooler'[v] \in EarlyPC
  \/ pooler[v] \in HibPC /\ pooler'[v] \in HibPC

Calm ==
  /\ \A v \in VMs : CalmRow(v) /\ CalmPooler(v)
  /\ \A v \in VMs : cloud'[v] = "absent" => cloud[v] = "absent"
  /\ leased' = leased
  /\ \A s \in Stages : setup'[s] = "creating" => setup[s] = "creating"
  /\ \A s \in Stages : held'[s].state \in {"inuse", "terminating"}

(* A calm step, whoever takes it, keeps the lease invariant. *)
LEMMA CalmStep == TypeInv /\ LeaseInv /\ Calm => LeaseInv'
<1> SUFFICES ASSUME TypeInv, LeaseInv, Calm PROVE LeaseInv'
  OBVIOUS
<1> USE NoneAssumption DEF Calm
<1>0. \A s \in Stages : leased[s] = NoVM \/ leased[s] \in VMs
  BY DEF TypeInv, TypeOK
<1>1. SingleUse'
  BY DEF LeaseInv, SingleUse
<1>2. LeasedNeverFree'
  BY <1>0 DEF LeaseInv, LeasedNeverFree, FreeStates, CalmRow
<1>3. ASSUME NEW v \in VMs PROVE PoolerRow(v)'
  <2>1. CalmRow(v) /\ CalmPooler(v) /\ PoolerRow(v)
    BY DEF LeaseInv
  <2>2. ASSUME NEW s \in Stages, leased[s] = v PROVE pooler[v] \in {"none", "ready", "done"}
    BY <2>2 DEF LeaseInv, LeasedRow
  <2> QED
    BY <2>1, <2>2 DEF PoolerRow, CalmRow, CalmPooler, EarlyPC, HibPC
<1>4. ASSUME NEW s \in Stages PROVE LeasedRow(s)'
  <2>1. CASE leased[s] = NoVM
    BY <2>1 DEF LeasedRow
  <2>2. CASE leased[s] \in VMs
    <3>1. CalmRow(leased[s]) /\ CalmPooler(leased[s]) /\ LeasedRow(s)
      BY <2>2 DEF LeaseInv
    <3> QED
      BY <2>2, <3>1 DEF LeasedRow, CalmRow, CalmPooler, EarlyPC, HibPC
  <2> QED
    BY <1>0, <2>1, <2>2
<1>5. ASSUME NEW v \in VMs PROVE Unborn(v)'
  <2>1. CalmRow(v) /\ CalmPooler(v) /\ Unborn(v)
    BY DEF LeaseInv
  <2> QED
    BY <2>1 DEF Unborn, CalmRow, CalmPooler, EarlyPC, HibPC
<1> QED
  BY <1>1, <1>2, <1>3, <1>4, <1>5 DEF LeaseInv

(* Every step but eight is calm. *)
LEMMA CalmActions ==
  ASSUME TypeInv, LeaseInv,
         \/ \E v \in VMs : \/ SeedConnect(v) \/ SeedDestroy(v) \/ SeedDelete(v)
                           \/ HibernateSkip(v) \/ HibernateVM(v) \/ PoolerCrash(v)
         \/ \E s \in Stages :
              \/ OwnerUpdate(s) \/ ResumeFind(s) \/ ResumeStart(s) \/ ResumeWrite(s)
              \/ Tag(s) \/ HealthCheck(s) \/ OwnStage(s) \/ CleanupFind(s)
              \/ CleanupDestroy(s) \/ CleanupDelete(s) \/ SetupCrash(s)
         \/ \E s \in Stages : \/ DestroyFindInfo(s) \/ DestroyStep(s) \/ DestroyCrash(s)
                              \/ \E v \in VMs : DestroyFindDB(s, v)
         \/ \E r \in Reapers : \/ \E j \in Job : StartJob(r, j)
                               \/ ReapStep(r) \/ ReaperCrash(r)
         \/ Tick \/ UNCHANGED vars
  PROVE  Calm
<1> USE NoneAssumption
    DEF TypeInv, TypeOK, Busy, Calm, CalmRow, CalmPooler, EarlyPC, HibPC, setupVars,
        destVars, reapVars, lossVars
<1>0. \A s \in Stages : held[s].state \in {"inuse", "terminating"}
  BY DEF LeaseInv
<1>1. ASSUME NEW v \in VMs, SeedConnect(v) PROVE Calm
  BY <1>1, <1>0 DEF SeedConnect, PoolerTo, PoolerOnly
<1>2. ASSUME NEW v \in VMs, SeedDestroy(v) PROVE Calm
  BY <1>2, <1>0 DEF SeedDestroy, PoolerTo, PoolerOnly, DriverDestroy
<1>3. ASSUME NEW v \in VMs, SeedDelete(v) PROVE Calm
  BY <1>3, <1>0, PoolerWrites DEF SeedDelete, PoolerTo, PoolerOnly, Wrote, OthersKept
<1>4. ASSUME NEW v \in VMs, HibernateSkip(v) PROVE Calm
  BY <1>4, <1>0 DEF HibernateSkip, PoolerTo, PoolerOnly
<1>5. ASSUME NEW v \in VMs, HibernateVM(v) PROVE Calm
  BY <1>5, <1>0 DEF HibernateVM, PoolerTo, PoolerOnly, Live
<1>6. ASSUME NEW v \in VMs, PoolerCrash(v) PROVE Calm
  BY <1>6, <1>0 DEF PoolerCrash, PoolerTo, PoolerOnly
<1>7. ASSUME NEW s \in Stages, OwnerUpdate(s) PROVE Calm
  <2>0. Wrote(leased[s], held[s].state, held[s].stage)
    BY <1>7, SetupWrites
  <2>1. \A v \in VMs : CalmRow(v)
    BY <1>0, <2>0 DEF Wrote, OthersKept
  <2> QED
    BY <1>7, <1>0, <2>1 DEF OwnerUpdate, SetupTo, SetupOnly
<1>8. ASSUME NEW s \in Stages, ResumeFind(s) PROVE Calm
  <2>1. HasRow(leased[s]) => rows[leased[s]].state \in {"inuse", "terminating"}
    <3>1. leased[s] \in VMs
      BY <1>8 DEF ResumeFind
    <3> QED
      BY <3>1, RowFields DEF HasRow, LeaseInv, LeasedNeverFree, FreeStates, InstanceState
  <2>2. \A t \in Stages : held'[t].state \in {"inuse", "terminating"}
    BY <1>8, <1>0, <2>1, SMTT(30) DEF ResumeFind, Copy
  <2> QED
    BY <1>8, <2>2 DEF ResumeFind, SetupTo, SetupOnly
<1>9. ASSUME NEW s \in Stages, ResumeStart(s) PROVE Calm
  BY <1>9, <1>0 DEF ResumeStart, SetupTo, SetupOnly, Live
<1>10. ASSUME NEW s \in Stages, ResumeWrite(s) PROVE Calm
  <2>0. Wrote(leased[s], held[s].state, held[s].stage)
    BY <1>10, SetupWrites
  <2>1. \A v \in VMs : CalmRow(v)
    BY <1>0, <2>0 DEF Wrote, OthersKept
  <2>4. \A t \in Stages : held'[t] = held[t] \/ held'[t] = [held[t] EXCEPT !.hib = FALSE]
    BY <1>10, ZenonT(40) DEF ResumeWrite
  <2>5. \A t \in Stages : held'[t].state \in {"inuse", "terminating"}
    <3> TAKE t \in Stages
    <3>1. held[t] \in [state: InstanceState, stage: Stages \cup {NoStage},
                       hib: BOOLEAN, recent: BOOLEAN]
      OBVIOUS
    <3>2. [held[t] EXCEPT !.hib = FALSE].state = held[t].state
      BY <3>1
    <3> QED
      BY <1>0, <2>4, <3>2
  <2>6. /\ cloud' = cloud /\ leased' = leased /\ pooler' = pooler
        /\ \A t \in Stages : setup'[t] = "creating" => setup[t] = "creating"
    BY <1>10 DEF ResumeWrite, SetupTo, SetupOnly
  <2> QED
    BY <2>1, <2>5, <2>6
<1>11. ASSUME NEW s \in Stages, Tag(s) PROVE Calm
  <2>0. Wrote(leased[s], held[s].state, s)
    BY <1>11, SetupWrites
  <2>1. \A v \in VMs : CalmRow(v)
    BY <1>0, <2>0 DEF Wrote, OthersKept
  <2> QED
    BY <1>11, <1>0, <2>1 DEF Tag, SetupTo, SetupOnly, StartCleanup
<1>12. ASSUME NEW s \in Stages, HealthCheck(s) PROVE Calm
  BY <1>12, <1>0 DEF HealthCheck, SetupTo, SetupOnly, StartCleanup
<1>13. ASSUME NEW s \in Stages, OwnStage(s) PROVE Calm
  BY <1>13, <1>0 DEF OwnStage, SetupTo, SetupOnly
<1>14. ASSUME NEW s \in Stages, CleanupFind(s) PROVE Calm
  BY <1>14, <1>0 DEF CleanupFind, SetupTo, SetupOnly
<1>15. ASSUME NEW s \in Stages, CleanupDestroy(s) PROVE Calm
  BY <1>15, <1>0 DEF CleanupDestroy, SetupTo, SetupOnly, DriverDestroy
<1>16. ASSUME NEW s \in Stages, CleanupDelete(s) PROVE Calm
  <2>0. Wrote(leased[s], "none", NoStage)
    BY <1>16, SetupWrites
  <2>1. \A v \in VMs : CalmRow(v)
    BY <2>0 DEF Wrote, OthersKept
  <2> QED
    BY <1>16, <1>0, <2>1 DEF CleanupDelete, SetupTo, SetupOnly
<1>17. ASSUME NEW s \in Stages, SetupCrash(s) PROVE Calm
  BY <1>17, <1>0 DEF SetupCrash, SetupTo, SetupOnly
<1>18. ASSUME NEW s \in Stages, NEW v \in VMs, DestroyFindDB(s, v) PROVE Calm
  BY <1>18, <1>0 DEF DestroyFindDB, DestroyerTo, DestroyOnly
<1>19. ASSUME NEW s \in Stages, DestroyFindInfo(s) PROVE Calm
  BY <1>19, <1>0 DEF DestroyFindInfo, DestroyerTo, DestroyOnly
<1>20. ASSUME NEW s \in Stages, DestroyMark(s) PROVE Calm
  <2>0. \/ Wrote(target[s], "terminating", s)
        \/ Wrote(target[s], "terminating", NoStage)
    BY <1>20, DestroyWrites
  <2>1. \A v \in VMs : CalmRow(v)
    BY <2>0 DEF Wrote, OthersKept
  <2> QED
    BY <1>20, <1>0, <2>1 DEF DestroyMark, DestroyOnly
<1>21. ASSUME NEW s \in Stages, DestroyVM(s) PROVE Calm
  BY <1>21, <1>0 DEF DestroyVM, DestroyerTo, DestroyOnly, DriverDestroy
<1>22. ASSUME NEW s \in Stages, DestroyDelete(s) PROVE Calm
  <2>0. Wrote(target[s], "none", NoStage)
    BY <1>22, DestroyWrites
  <2>1. \A v \in VMs : CalmRow(v)
    BY <2>0 DEF Wrote, OthersKept
  <2> QED
    BY <1>22, <1>0, <2>1 DEF DestroyDelete, DestroyerTo, DestroyOnly
<1>23. ASSUME NEW s \in Stages, DestroyUnown(s) PROVE Calm
  BY <1>23, <1>0 DEF DestroyUnown, DestroyerTo, DestroyOnly
<1>24. ASSUME NEW s \in Stages, DestroyCrash(s) PROVE Calm
  BY <1>24, <1>0 DEF DestroyCrash, DestroyerTo, DestroyOnly
<1>25. ASSUME NEW r \in Reapers, NEW j \in Job, StartJob(r, j) PROVE Calm
  BY <1>25, <1>0 DEF StartJob, StepTo, ReapOnly
<1>26. ASSUME NEW r \in Reapers, ForceDelete(r) PROVE Calm
  BY <1>26, <1>0, SweepWrites DEF ForceDelete, StepTo, ReapOnly
<1>27. ASSUME NEW r \in Reapers, ForceDeleteFails(r) PROVE Calm
  BY <1>27, <1>0 DEF ForceDeleteFails, StepTo, ReapOnly
<1>28. ASSUME NEW r \in Reapers, PurgeClaim(r) PROVE Calm
  BY <1>28, <1>0, SweepWrites DEF PurgeClaim, StepTo, ReapOnly, Finish
<1>29. ASSUME NEW r \in Reapers, NEW v \in VMs, CleanClaim(r, v) PROVE Calm
  <2> DEFINE allowed == IF job[r] = "cleanAll" THEN FreeStates \cup {"inuse"} ELSE FreeStates
  <2>0. FindAndClaim(v, "terminating", allowed, FALSE)
    BY <1>29 DEF CleanClaim
  <2>1. /\ OthersKept(v) /\ rows[v].state \in allowed
        /\ rows'[v].state = "terminating"
    <3>1. "terminating" \in InstanceState /\ rows \in [VMs -> Row]
      BY StateNames
    <3> QED
      BY <2>0, <3>1, ClaimEffect
  <2>2. \A w \in VMs : CalmRow(w)
    BY <2>1 DEF OthersKept, FreeStates
  <2> QED
    BY <1>29, <1>0, <2>2 DEF CleanClaim, ReapOnly, StepTo
<1>30. ASSUME NEW r \in Reapers, CleanClaimed(r) PROVE Calm
  BY <1>30, <1>0 DEF CleanClaimed, StepTo, ReapOnly
<1>31. ASSUME NEW r \in Reapers, ClaimError(r) PROVE Calm
  BY <1>31, <1>0 DEF ClaimError, StepTo, ReapOnly, Finish
<1>32. ASSUME NEW r \in Reapers, NEW v \in VMs, ScaleClaim(r, v) PROVE Calm
  <2>0. FindAndClaim(v, "terminating", {"created", "hibernating"}, FALSE)
    BY <1>32 DEF ScaleClaim
  <2>1. /\ OthersKept(v) /\ rows[v].state \in {"created", "hibernating"}
        /\ rows'[v].state = "terminating"
    <3>1. "terminating" \in InstanceState /\ rows \in [VMs -> Row]
      BY StateNames
    <3> QED
      BY <2>0, <3>1, ClaimEffect
  <2>2. \A w \in VMs : CalmRow(w)
    BY <2>1 DEF OthersKept
  <2> QED
    BY <1>32, <1>0, <2>2 DEF ScaleClaim, ReapOnly, StepTo
<1>33. ASSUME NEW r \in Reapers, NEW v \in VMs, ReapDestroy(r, v) PROVE Calm
  BY <1>33, <1>0 DEF ReapDestroy, StepTo, ReapOnly, DriverDestroy
<1>34. ASSUME NEW r \in Reapers, NEW v \in VMs, ReapDestroyFail(r, v) PROVE Calm
  BY <1>34, <1>0 DEF ReapDestroyFail, StepTo, ReapOnly
<1>35. ASSUME NEW r \in Reapers, ReapDelete(r) PROVE Calm
  <2>1. \A v \in VMs : CalmRow(v)
    BY <1>35, SweepWrites
  <2> QED
    BY <1>35, <1>0, <2>1 DEF ReapDelete, ReapOnly
<1>36. ASSUME NEW r \in Reapers, ReaperCrash(r) PROVE Calm
  BY <1>36, <1>0 DEF ReaperCrash, StepTo, ReapOnly
<1>37. ASSUME Tick PROVE Calm
  BY <1>37, <1>0, TickWrites DEF Tick
<1>38. CASE UNCHANGED vars
  BY <1>0, <1>38 DEF vars
<1> HIDE DEF Calm, TypeInv
<1> QED
  BY <1>1, <1>2, <1>3, <1>4, <1>5, <1>6, <1>7, <1>8, <1>9, <1>10, <1>11, <1>12, <1>13,
     <1>14, <1>15, <1>16, <1>17, <1>18, <1>19, <1>20, <1>21, <1>22, <1>23, <1>24, <1>25,
     <1>26, <1>27, <1>28, <1>29, <1>30, <1>31, <1>32, <1>33, <1>34, <1>35, <1>36, <1>37,
     <1>38 DEF DestroyStep, ReapStep

(* A step of the pooler of an unleased VM keeps LeaseInv if it leaves its  *)
(* row as PoolerRow says.                                                  *)
LEMMA PoolerMove ==
  ASSUME TypeInv, LeaseInv, NEW v \in VMs, pooler[v] # "none",
         \A s \in Stages : leased[s] # v,
         OthersKept(v), \A w \in VMs : w # v => pooler'[w] = pooler[w],
         PoolerRow(v)', \A w \in VMs : cloud'[w] = "absent" => cloud[w] = "absent",
         leased' = leased, setup' = setup, held' = held
  PROVE  LeaseInv'
<1> USE NoneAssumption
<1>0. \A s \in Stages : leased[s] = NoVM \/ (leased[s] \in VMs /\ leased[s] # v)
  BY DEF TypeInv, TypeOK
<1>1. SingleUse'
  BY DEF LeaseInv, SingleUse
<1>2. LeasedNeverFree'
  BY <1>0 DEF LeaseInv, LeasedNeverFree, FreeStates, OthersKept
<1>3. ASSUME NEW w \in VMs PROVE PoolerRow(w)'
  BY DEF LeaseInv, PoolerRow, OthersKept
<1>4. ASSUME NEW s \in Stages PROVE LeasedRow(s)'
  BY <1>0 DEF LeaseInv, LeasedRow, OthersKept
<1>5. ASSUME NEW w \in VMs PROVE Unborn(w)'
  BY DEF LeaseInv, Unborn, OthersKept
<1> QED
  BY <1>1, <1>2, <1>3, <1>4, <1>5 DEF LeaseInv

(* The four pooler steps that are not calm. *)
LEMMA PoolerLease ==
  ASSUME TypeInv, LeaseInv, NEW v \in VMs,
         SeedInsert(v) \/ SeedVerified(v) \/ HibernateClaim(v) \/ HibernateDone(v)
  PROVE  LeaseInv'
<1> USE NoneAssumption DEF setupVars
<1>0. /\ rows \in [VMs -> Row] /\ pooler \in [VMs -> PoolerPC]
      /\ cloud \in [VMs -> CloudState]
  BY DEF TypeInv, TypeOK
<1>1. pooler[v] \notin {"none", "ready", "done"} => \A s \in Stages : leased[s] # v
  BY DEF LeaseInv, LeasedRow
<1>2. CASE SeedInsert(v)
  <2>1. pooler[v] = "created" /\ leased' = leased /\ setup' = setup /\ held' = held
    BY <1>2 DEF SeedInsert, PoolerOnly
  <2>2. \A w \in VMs : w # v => pooler'[w] = pooler[w]
    BY <1>0, <1>2 DEF SeedInsert, PoolerTo
  <2>3. \A w \in VMs : cloud'[w] = "absent" => cloud[w] = "absent"
    BY <1>0, <1>2 DEF SeedInsert, DriverDestroy
  <2>4. OthersKept(v) /\ PoolerRow(v)'
    BY <1>2, Inserts DEF PoolerRow
  <2> QED
    BY <1>1, <2>1, <2>2, <2>3, <2>4, PoolerMove
<1>3. CASE SeedVerified(v)
  <2>1. /\ pooler[v] = "verified" /\ leased' = leased /\ setup' = setup /\ held' = held
        /\ cloud' = cloud /\ pooler'[v] \in {"ready", "done"}
        /\ \A w \in VMs : w # v => pooler'[w] = pooler[w]
    BY <1>0, <1>3 DEF SeedVerified, PoolerOnly, PoolerTo
  <2>2. OthersKept(v) /\ PoolerRow(v)'
    BY <1>3, <2>1, PoolerWrites DEF PoolerRow, Wrote
  <2> QED
    BY <1>1, <2>1, <2>2, PoolerMove
<1>4. CASE HibernateClaim(v)
  <2>1. /\ pooler[v] = "ready" /\ leased' = leased /\ setup' = setup /\ held' = held
        /\ cloud' = cloud /\ pooler'[v] = "hibernating"
        /\ \A w \in VMs : w # v => pooler'[w] = pooler[w]
    BY <1>0, <1>4 DEF HibernateClaim, PoolerOnly, PoolerTo
  <2>2. OthersKept(v) /\ rows[v].state \in {"created"} /\ rows'[v].state = "hibernating"
    <3>1. FindAndClaim(v, "hibernating", {"created"}, FALSE)
      BY <1>4 DEF HibernateClaim
    <3>2. "hibernating" \in InstanceState /\ FALSE \in BOOLEAN
      BY StateNames
    <3> QED
      BY <1>0, <3>1, <3>2, ClaimEffect
  <2>3. \A s \in Stages : leased[s] # v
    BY <2>2 DEF LeaseInv, LeasedNeverFree, FreeStates
  <2>4. PoolerRow(v)'
    BY <2>1, <2>2 DEF PoolerRow
  <2> QED
    BY <2>1, <2>2, <2>3, <2>4, PoolerMove
<1>5. CASE HibernateDone(v)
  <2>1. /\ pooler[v] \in {"hibOK", "hibFail"}
        /\ leased' = leased /\ setup' = setup /\ held' = held
        /\ cloud' = cloud /\ pooler'[v] = "done"
        /\ \A w \in VMs : w # v => pooler'[w] = pooler[w]
    BY <1>0, <1>5 DEF HibernateDone, PoolerOnly, PoolerTo
  <2>2. OthersKept(v) /\ PoolerRow(v)'
    BY <1>5, <2>1, PoolerWrites DEF PoolerRow, Wrote
  <2> QED
    BY <1>1, <2>1, <2>2, PoolerMove
<1> QED
  BY <1>2, <1>3, <1>4, <1>5

(* The three ways a stage gets a VM and its row. *)
LEMMA StageLease ==
  ASSUME TypeInv, LeaseInv, NEW s \in Stages,
         \/ InsertOnDemand(s)
         \/ \E v \in VMs : ClaimFree(s, v) \/ CreateOnDemand(s, v)
  PROVE  LeaseInv'
<1> USE NoneAssumption DEF setupVars
<1>0. /\ rows \in [VMs -> Row] /\ cloud \in [VMs -> CloudState]
      /\ setup \in [Stages -> SetupPC] /\ leased \in [Stages -> VMs \cup {NoVM}]
      /\ held \in [Stages -> [state: InstanceState, stage: Stages \cup {NoStage},
                              hib: BOOLEAN, recent: BOOLEAN]]
  BY DEF TypeInv, TypeOK
<1>1. CASE InsertOnDemand(s)
  <2> DEFINE v == leased[s]
  <2>1. /\ setup[s] = "creating" /\ v \in VMs /\ leased' = leased /\ held' = held
        /\ pooler' = pooler
        /\ \A t \in Stages : setup'[t] = "creating" => t # s /\ setup[t] = "creating"
    BY <1>0, <1>1 DEF InsertOnDemand, SetupOnly, SetupTo, TypeInv, Busy
  <2>2. \A w \in VMs : cloud'[w] = "absent" => cloud[w] = "absent"
    BY <1>0, <1>1 DEF InsertOnDemand, DriverDestroy
  <2>3. /\ \A w \in VMs : w # v => rows'[w] = rows[w]
        /\ rows'[v] = rows[v] \/ rows'[v].state = "inuse"
    BY <1>1, Inserts DEF OthersKept
  <2> HIDE DEF v
  <2>4. SingleUse'
    BY <2>1 DEF LeaseInv, SingleUse
  <2>5. LeasedNeverFree'
    BY <1>0, <2>1, <2>3 DEF LeaseInv, LeasedNeverFree, FreeStates
  <2>6. ASSUME NEW w \in VMs PROVE PoolerRow(w)'
    <3>1. w = v => pooler[w] \in {"none", "ready", "done"}
      BY <2>1 DEF v, LeaseInv, LeasedRow
    <3> QED
      BY <2>1, <2>3, <3>1 DEF LeaseInv, PoolerRow
  <2>7. ASSUME NEW t \in Stages PROVE LeasedRow(t)'
    <3>1. leased[t] = v => t = s
      BY <2>1 DEF v, LeaseInv, SingleUse
    <3> QED
      BY <1>0, <2>1, <2>3, <3>1 DEF LeaseInv, LeasedRow
  <2>8. ASSUME NEW w \in VMs PROVE Unborn(w)'
    BY <2>1, <2>2, <2>3 DEF v, LeaseInv, Unborn
  <2> QED
    BY <2>1, <2>4, <2>5, <2>6, <2>7, <2>8 DEF LeaseInv
<1>2. ASSUME NEW v \in VMs, ClaimFree(s, v) PROVE LeaseInv'
  <2>1. /\ setup[s] = "idle" /\ cloud' = cloud /\ pooler' = pooler
        /\ leased' = [leased EXCEPT ![s] = v] /\ setup' = [setup EXCEPT ![s] = "claimed"]
        /\ held' = [held EXCEPT ![s] = Copy(v)']
    BY <1>2 DEF ClaimFree, SetupOnly, SetupTo
  <2>2. OthersKept(v) /\ rows[v].state \in {"created"} /\ rows'[v].state = "inuse"
    <3>1. FindAndClaim(v, "inuse", {"created"}, TRUE)
      BY <1>2 DEF ClaimFree
    <3>2. "inuse" \in InstanceState /\ TRUE \in BOOLEAN
      BY StateNames
    <3> QED
      BY <1>0, <3>1, <3>2, ClaimEffect
  <2>3. \A t \in Stages : leased[t] # v
    BY <2>2 DEF LeaseInv, LeasedNeverFree, FreeStates
  <2>4. pooler[v] \in {"none", "ready", "done"}
    <3>1. pooler[v] \in PoolerPC
      BY DEF TypeInv, TypeOK
    <3> QED
      BY <2>2, <3>1 DEF LeaseInv, PoolerRow, PoolerPC
  <2>5. SingleUse'
    BY <1>0, <2>1, <2>3 DEF LeaseInv, SingleUse
  <2>6. LeasedNeverFree'
    BY <1>0, <2>1, <2>2 DEF LeaseInv, LeasedNeverFree, FreeStates, OthersKept
  <2>7. ASSUME NEW w \in VMs PROVE PoolerRow(w)'
    BY <2>1, <2>2, <2>4 DEF LeaseInv, PoolerRow, OthersKept
  <2>8. ASSUME NEW t \in Stages PROVE LeasedRow(t)'
    BY <1>0, <2>1, <2>2, <2>3, <2>4 DEF LeaseInv, LeasedRow, OthersKept
  <2>9. ASSUME NEW w \in VMs PROVE Unborn(w)'
    BY <1>0, <2>1, <2>2 DEF LeaseInv, Unborn, OthersKept
  <2>10. \A t \in Stages : held'[t].state \in {"inuse", "terminating"}
    BY <1>0, <2>1, <2>2 DEF LeaseInv, Copy
  <2> QED
    BY <2>5, <2>6, <2>7, <2>8, <2>9, <2>10 DEF LeaseInv
<1>3. ASSUME NEW v \in VMs, CreateOnDemand(s, v) PROVE LeaseInv'
  <2>1. /\ setup[s] = "idle" /\ rows' = rows /\ pooler' = pooler /\ held' = held
        /\ leased' = [leased EXCEPT ![s] = v] /\ setup' = [setup EXCEPT ![s] = "creating"]
        /\ cloud[v] = "absent" /\ cloud' = [cloud EXCEPT ![v] = "running"]
    BY <1>3 DEF CreateOnDemand, SetupOnly, SetupTo, DriverCreate
  <2>2. /\ rows[v].state = "none" /\ pooler[v] = "none"
        /\ \A t \in Stages : leased[t] # v
    BY <2>1 DEF LeaseInv, Unborn
  <2>5. SingleUse'
    BY <1>0, <2>1, <2>2 DEF LeaseInv, SingleUse
  <2>6. LeasedNeverFree'
    BY <1>0, <2>1, <2>2 DEF LeaseInv, LeasedNeverFree, FreeStates
  <2>7. ASSUME NEW w \in VMs PROVE PoolerRow(w)'
    BY <2>1 DEF LeaseInv, PoolerRow
  <2>8. ASSUME NEW t \in Stages PROVE LeasedRow(t)'
    BY <1>0, <2>1, <2>2 DEF LeaseInv, LeasedRow
  <2>9. ASSUME NEW w \in VMs PROVE Unborn(w)'
    BY <1>0, <2>1 DEF LeaseInv, Unborn
  <2> QED
    BY <2>1, <2>5, <2>6, <2>7, <2>8, <2>9 DEF LeaseInv
<1> QED
  BY <1>1, <1>2, <1>3

(* Every step keeps the lease discipline. *)
LEMMA LeaseStep == TypeInv /\ LeaseInv /\ [Next]_vars => LeaseInv'
<1> SUFFICES ASSUME TypeInv, LeaseInv, [Next]_vars PROVE LeaseInv'
  OBVIOUS
<1>1. ASSUME NEW v \in VMs, SeedCreate(v) PROVE LeaseInv'
  <2>1. /\ rows' = rows /\ leased' = leased /\ setup' = setup /\ held' = held
        /\ pooler' = [pooler EXCEPT ![v] = "created"]
        /\ cloud[v] = "absent" /\ cloud' = [cloud EXCEPT ![v] = "running"]
    BY <1>1 DEF SeedCreate, PoolerTo, PoolerOnly, DriverCreate, setupVars
  <2>2. rows[v].state = "none" /\ \A t \in Stages : leased[t] # v
    BY <2>1 DEF LeaseInv, Unborn
  <2> QED
    BY <2>1, <2>2 DEF LeaseInv, SingleUse, LeasedNeverFree, PoolerRow, LeasedRow, Unborn,
                      TypeInv, TypeOK
<1>2. ASSUME Calm PROVE LeaseInv'
  BY <1>2, CalmStep
<1> QED
  BY <1>1, <1>2, CalmActions, PoolerLease, StageLease DEF Next, Pooler, SetupStep, Job

(* The four claims. *)
LEMMA ClaimWrites ==
  ASSUME TypeInv, NEW v \in VMs
  PROVE  /\ HibernateClaim(v) =>
              /\ OthersKept(v) /\ rows[v].state = "created"
              /\ rows'[v].state = "hibernating" /\ rows'[v].stage = rows[v].stage
         /\ \A s \in Stages : ClaimFree(s, v) =>
              /\ OthersKept(v) /\ rows[v].state = "created"
              /\ rows'[v].state = "inuse" /\ rows'[v].stage = rows[v].stage
         /\ \A r \in Reapers : CleanClaim(r, v) \/ ScaleClaim(r, v) =>
              /\ OthersKept(v) /\ rows[v].state # "none"
              /\ rows'[v].state = "terminating" /\ rows'[v].stage = rows[v].stage
<1>1. rows \in [VMs -> Row]
  BY DEF TypeInv, TypeOK
<1>2. ASSUME NEW newState \in {"hibernating", "inuse", "terminating"}, NEW allowed,
             NEW restart \in BOOLEAN, FindAndClaim(v, newState, allowed, restart)
      PROVE  /\ OthersKept(v) /\ rows[v].state \in allowed
             /\ rows'[v].state = newState /\ rows'[v].stage = rows[v].stage
  <2>1. newState \in InstanceState
    BY StateNames
  <2> QED
    BY <1>1, <1>2, <2>1, ClaimEffect
<1>3. ASSUME HibernateClaim(v)
      PROVE  /\ OthersKept(v) /\ rows[v].state \in {"created"}
             /\ rows'[v].state = "hibernating" /\ rows'[v].stage = rows[v].stage
  BY <1>2, <1>3 DEF HibernateClaim
<1>4. ASSUME NEW s \in Stages, ClaimFree(s, v)
      PROVE  /\ OthersKept(v) /\ rows[v].state \in {"created"}
             /\ rows'[v].state = "inuse" /\ rows'[v].stage = rows[v].stage
  BY <1>2, <1>4 DEF ClaimFree
<1>5. ASSUME NEW r \in Reapers, CleanClaim(r, v)
      PROVE  /\ OthersKept(v) /\ rows[v].state # "none"
             /\ rows'[v].state = "terminating" /\ rows'[v].stage = rows[v].stage
  <2> DEFINE allowed == IF job[r] = "cleanAll" THEN FreeStates \cup {"inuse"} ELSE FreeStates
  <2>1. FindAndClaim(v, "terminating", allowed, FALSE) /\ "none" \notin allowed
    BY <1>5 DEF CleanClaim, FreeStates
  <2> HIDE DEF allowed
  <2>2. /\ OthersKept(v) /\ rows[v].state \in allowed
        /\ rows'[v].state = "terminating" /\ rows'[v].stage = rows[v].stage
    BY <1>1, <2>1, StateNames, ClaimEffect
  <2> QED
    BY <2>1, <2>2
<1>6. ASSUME NEW r \in Reapers, ScaleClaim(r, v)
      PROVE  /\ OthersKept(v) /\ rows[v].state # "none"
             /\ rows'[v].state = "terminating" /\ rows'[v].stage = rows[v].stage
  <2>1. FindAndClaim(v, "terminating", {"created", "hibernating"}, FALSE)
    BY <1>6 DEF ScaleClaim
  <2>2. /\ OthersKept(v) /\ rows[v].state \in {"created", "hibernating"}
        /\ rows'[v].state = "terminating" /\ rows'[v].stage = rows[v].stage
    BY <1>1, <2>1, StateNames, ClaimEffect
  <2> QED
    BY <2>2
<1> QED
  BY <1>3, <1>4, <1>5, <1>6

-----------------------------------------------------------------------------
(* Whose stage a row carries.  All steps but the two that lease a VM leave *)
(* each row its stage, clear it or write the stage that leased the VM.     *)

StageKept(v) ==
  \/ rows'[v].stage \in {rows[v].stage, NoStage}
  \/ \E s \in Stages : leased[s] = v /\ rows'[v].stage = s

StageCalm ==
  /\ \A v \in VMs : StageKept(v)
  /\ leased' = leased
  /\ \A s \in Stages : held'[s].stage \in {NoStage, s}
  /\ \A s \in Stages : target'[s] \in {NoVM, leased[s]}

(* A calm step keeps StageInv. *)
LEMMA StageCalmStep == StageInv /\ StageCalm => StageInv'
  BY NoneAssumption DEF StageInv, StageCalm, StageKept, DestroyHitsOwnVM

(* The steps that are calm. *)
LEMMA StageActions ==
  ASSUME TypeInv, LeaseInv, StageInv, [Next]_vars,
         \A s \in Stages, v \in VMs : ~ClaimFree(s, v) /\ ~CreateOnDemand(s, v)
  PROVE  StageCalm
<1> USE NoneAssumption
    DEF TypeInv, TypeOK, Busy, StageCalm, StageKept, setupVars, destVars, reapVars, lossVars
<1>0. /\ \A s \in Stages : held[s].stage \in {NoStage, s}
      /\ \A s \in Stages : target[s] \in {NoVM, leased[s]}
      /\ \A v \in VMs, s \in Stages : rows[v].stage = s => leased[s] = v
  BY DEF StageInv, DestroyHitsOwnVM
<1>1. ASSUME NEW v \in VMs, SeedCreate(v) PROVE StageCalm
  BY <1>1, <1>0 DEF SeedCreate, PoolerTo, PoolerOnly, DriverCreate
<1>2. ASSUME NEW v \in VMs, SeedInsert(v) PROVE StageCalm
  <2>0. OthersKept(v) /\ rows'[v].stage \in {rows[v].stage, NoStage}
    BY <1>2, Inserts
  <2>1. \A w \in VMs : StageKept(w)
    BY <1>0, <2>0 DEF Wrote, OthersKept
  <2> QED
    BY <1>0, <1>2, <2>1 DEF SeedInsert, PoolerOnly
<1>3. ASSUME NEW v \in VMs, SeedConnect(v) PROVE StageCalm
  BY <1>3, <1>0 DEF SeedConnect, PoolerTo, PoolerOnly
<1>4. ASSUME NEW v \in VMs, SeedDestroy(v) PROVE StageCalm
  BY <1>4, <1>0 DEF SeedDestroy, PoolerTo, PoolerOnly, DriverDestroy
<1>5. ASSUME NEW v \in VMs, SeedDelete(v) PROVE StageCalm
  <2>1. \A w \in VMs : StageKept(w)
    BY <1>0, <1>5, PoolerWrites DEF Wrote, OthersKept
  <2> QED
    BY <1>0, <1>5, <2>1 DEF SeedDelete, PoolerOnly
<1>6. ASSUME NEW v \in VMs, SeedVerified(v) PROVE StageCalm
  <2>1. \A w \in VMs : StageKept(w)
    BY <1>0, <1>6, PoolerWrites DEF Wrote, OthersKept
  <2> QED
    BY <1>0, <1>6, <2>1 DEF SeedVerified, PoolerOnly
<1>7. ASSUME NEW v \in VMs, HibernateClaim(v) PROVE StageCalm
  <2>0. OthersKept(v) /\ rows'[v].stage = rows[v].stage
    BY <1>7, ClaimWrites
  <2>1. \A w \in VMs : StageKept(w)
    BY <1>0, <2>0 DEF Wrote, OthersKept
  <2> QED
    BY <1>0, <1>7, <2>1 DEF HibernateClaim, PoolerOnly
<1>8. ASSUME NEW v \in VMs, HibernateSkip(v) PROVE StageCalm
  BY <1>8, <1>0 DEF HibernateSkip, PoolerTo, PoolerOnly
<1>9. ASSUME NEW v \in VMs, HibernateVM(v) PROVE StageCalm
  BY <1>9, <1>0 DEF HibernateVM, PoolerTo, PoolerOnly, Live
<1>10. ASSUME NEW v \in VMs, HibernateDone(v) PROVE StageCalm
  <2>1. \A w \in VMs : StageKept(w)
    BY <1>0, <1>10, PoolerWrites DEF Wrote, OthersKept
  <2> QED
    BY <1>0, <1>10, <2>1 DEF HibernateDone, PoolerOnly
<1>11. ASSUME NEW v \in VMs, PoolerCrash(v) PROVE StageCalm
  BY <1>11, <1>0 DEF PoolerCrash, PoolerTo, PoolerOnly
<1>12. ASSUME NEW s \in Stages, OwnerUpdate(s) PROVE StageCalm
  <2>1. \A w \in VMs : StageKept(w)
    BY <1>0, <1>12, SetupWrites, SMTT(30) DEF Wrote, OthersKept
  <2> QED
    BY <1>0, <1>12, <2>1 DEF OwnerUpdate, SetupOnly
<1>13. ASSUME NEW s \in Stages, InsertOnDemand(s) PROVE StageCalm
  BY <1>13, <1>0, Inserts DEF InsertOnDemand, SetupTo, SetupOnly, DriverDestroy, OthersKept
<1>14. ASSUME NEW s \in Stages, ResumeFind(s) PROVE StageCalm
  <2>1. leased[s] \in VMs
    BY <1>14 DEF ResumeFind
  <2>2. rows[leased[s]].stage \in {NoStage, s}
    BY <1>0, <2>1, RowFields, SMTT(30) DEF LeaseInv, SingleUse
  <2>3. \A t \in Stages : held'[t].stage \in {NoStage, t}
    BY <1>0, <1>14, <2>2, SMTT(30) DEF ResumeFind, Copy
  <2> QED
    BY <1>0, <1>14, <2>3 DEF ResumeFind, SetupOnly
<1>15. ASSUME NEW s \in Stages, ResumeStart(s) PROVE StageCalm
  BY <1>15, <1>0 DEF ResumeStart, SetupTo, SetupOnly, Live
<1>16. ASSUME NEW s \in Stages, ResumeWrite(s) PROVE StageCalm
  <2>0. Wrote(leased[s], held[s].state, held[s].stage)
    BY <1>16, SetupWrites
  <2>1. \A w \in VMs : StageKept(w)
    BY <1>0, <2>0 DEF Wrote, OthersKept
  <2>2. \A t \in Stages : held'[t].stage = held[t].stage
    <3> TAKE t \in Stages
    <3>1. held[t] \in [state: InstanceState, stage: Stages \cup {NoStage},
                       hib: BOOLEAN, recent: BOOLEAN]
      OBVIOUS
    <3>2. [held[t] EXCEPT !.hib = FALSE].stage = held[t].stage
      BY <3>1
    <3>3. held'[t] = held[t] \/ held'[t] = [held[t] EXCEPT !.hib = FALSE]
      BY <1>16, ZenonT(40) DEF ResumeWrite
    <3> QED
      BY <3>2, <3>3
  <2>3. leased' = leased /\ target' = target
    BY <1>16 DEF ResumeWrite, SetupOnly
  <2> QED
    BY <1>0, <2>1, <2>2, <2>3
<1>17. ASSUME NEW s \in Stages, Tag(s) PROVE StageCalm
  <2>0. Wrote(leased[s], held[s].state, s)
    BY <1>17, SetupWrites
  <2>1. \A w \in VMs : StageKept(w)
    BY <1>0, <2>0, SMTT(30) DEF Wrote, OthersKept
  <2> QED
    BY <1>0, <1>17, <2>1 DEF Tag, SetupOnly
<1>18. ASSUME NEW s \in Stages, HealthCheck(s) PROVE StageCalm
  BY <1>18, <1>0 DEF HealthCheck, SetupTo, SetupOnly, StartCleanup
<1>19. ASSUME NEW s \in Stages, OwnStage(s) PROVE StageCalm
  BY <1>19, <1>0 DEF OwnStage, SetupTo, SetupOnly
<1>20. ASSUME NEW s \in Stages, CleanupFind(s) PROVE StageCalm
  BY <1>20, <1>0 DEF CleanupFind, SetupTo, SetupOnly
<1>21. ASSUME NEW s \in Stages, CleanupDestroy(s) PROVE StageCalm
  BY <1>21, <1>0 DEF CleanupDestroy, SetupTo, SetupOnly, DriverDestroy
<1>22. ASSUME NEW s \in Stages, CleanupDelete(s) PROVE StageCalm
  <2>0. Wrote(leased[s], "none", NoStage)
    BY <1>22, SetupWrites
  <2>1. \A w \in VMs : StageKept(w)
    BY <1>0, <2>0, SMTT(30) DEF Wrote, OthersKept
  <2> QED
    BY <1>0, <1>22, <2>1 DEF CleanupDelete, SetupOnly
<1>23. ASSUME NEW s \in Stages, SetupCrash(s) PROVE StageCalm
  BY <1>23, <1>0 DEF SetupCrash, SetupTo, SetupOnly
<1>24. ASSUME NEW s \in Stages, NEW v \in VMs, DestroyFindDB(s, v) PROVE StageCalm
  BY <1>24, <1>0, SMTT(30) DEF DestroyFindDB, DestroyerTo, DestroyOnly
<1>25. ASSUME NEW s \in Stages, DestroyFindInfo(s) PROVE StageCalm
  BY <1>25, <1>0 DEF DestroyFindInfo, DestroyerTo, DestroyOnly
<1>26. ASSUME NEW s \in Stages, DestroyMark(s) PROVE StageCalm
  <2>1. target[s] = leased[s]
    BY <1>0, <1>26 DEF DestroyMark
  <2>2. \A w \in VMs : StageKept(w)
    BY <2>1, <1>26, DestroyWrites DEF Wrote, OthersKept
  <2> QED
    BY <1>0, <1>26, <2>2 DEF DestroyMark, DestroyOnly
<1>27. ASSUME NEW s \in Stages, DestroyVM(s) PROVE StageCalm
  BY <1>27, <1>0 DEF DestroyVM, DestroyerTo, DestroyOnly, DriverDestroy
<1>28. ASSUME NEW s \in Stages, DestroyDelete(s) PROVE StageCalm
  <2>1. \A w \in VMs : StageKept(w)
    BY <1>0, <1>28, DestroyWrites DEF Wrote, OthersKept
  <2> QED
    BY <1>0, <1>28, <2>1 DEF DestroyDelete, DestroyOnly
<1>29. ASSUME NEW s \in Stages, DestroyUnown(s) PROVE StageCalm
  BY <1>29, <1>0 DEF DestroyUnown, DestroyerTo, DestroyOnly
<1>30. ASSUME NEW s \in Stages, DestroyCrash(s) PROVE StageCalm
  BY <1>30, <1>0 DEF DestroyCrash, DestroyerTo, DestroyOnly
<1>31. ASSUME NEW r \in Reapers, NEW j \in Job, StartJob(r, j) PROVE StageCalm
  BY <1>31, <1>0 DEF StartJob, StepTo, ReapOnly
<1>32. ASSUME NEW r \in Reapers, ForceDelete(r) PROVE StageCalm
  BY <1>32, <1>0, SweepWrites, ZenonT(40) DEF ForceDelete, StepTo, ReapOnly
<1>33. ASSUME NEW r \in Reapers, ForceDeleteFails(r) PROVE StageCalm
  BY <1>33, <1>0 DEF ForceDeleteFails, StepTo, ReapOnly
<1>34. ASSUME NEW r \in Reapers, PurgeClaim(r) PROVE StageCalm
  BY <1>34, <1>0, SweepWrites, ZenonT(40) DEF PurgeClaim, StepTo, ReapOnly, Finish
<1>35. ASSUME NEW r \in Reapers, NEW v \in VMs, CleanClaim(r, v) PROVE StageCalm
  <2>0. OthersKept(v) /\ rows'[v].stage = rows[v].stage
    BY <1>35, ClaimWrites
  <2>1. \A w \in VMs : StageKept(w)
    BY <1>0, <2>0 DEF Wrote, OthersKept
  <2> QED
    BY <1>0, <1>35, <2>1 DEF CleanClaim, ReapOnly
<1>36. ASSUME NEW r \in Reapers, CleanClaimed(r) PROVE StageCalm
  BY <1>36, <1>0 DEF CleanClaimed, StepTo, ReapOnly
<1>37. ASSUME NEW r \in Reapers, ClaimError(r) PROVE StageCalm
  BY <1>37, <1>0 DEF ClaimError, StepTo, ReapOnly, Finish
<1>38. ASSUME NEW r \in Reapers, NEW v \in VMs, ScaleClaim(r, v) PROVE StageCalm
  BY <1>38, <1>0, ClaimWrites, ZenonT(40) DEF ScaleClaim, StepTo, ReapOnly, OthersKept
<1>39. ASSUME NEW r \in Reapers, NEW v \in VMs, ReapDestroy(r, v) PROVE StageCalm
  BY <1>39, <1>0 DEF ReapDestroy, StepTo, ReapOnly, DriverDestroy
<1>40. ASSUME NEW r \in Reapers, NEW v \in VMs, ReapDestroyFail(r, v) PROVE StageCalm
  BY <1>40, <1>0 DEF ReapDestroyFail, StepTo, ReapOnly
<1>41. ASSUME NEW r \in Reapers, ReapDelete(r) PROVE StageCalm
  <2>0. \A w \in VMs : rows'[w].stage \in {rows[w].stage, NoStage}
    BY <1>41, SweepWrites
  <2>1. \A w \in VMs : StageKept(w)
    BY <1>0, <2>0 DEF Wrote, OthersKept
  <2> QED
    BY <1>0, <1>41, <2>1 DEF ReapDelete, ReapOnly
<1>42. ASSUME NEW r \in Reapers, ReaperCrash(r) PROVE StageCalm
  BY <1>42, <1>0 DEF ReaperCrash, StepTo, ReapOnly
<1>43. ASSUME Tick PROVE StageCalm
  BY <1>43, <1>0, TickWrites DEF Tick
<1>44. CASE UNCHANGED vars
  BY <1>0, <1>44 DEF vars
<1> HIDE DEF StageCalm, TypeInv
<1> QED
  BY <1>1, <1>2, <1>3, <1>4, <1>5, <1>6, <1>7, <1>8, <1>9, <1>10, <1>11, <1>12, <1>13,
     <1>14, <1>15, <1>16, <1>17, <1>18, <1>19, <1>20, <1>21, <1>22, <1>23, <1>24, <1>25,
     <1>26, <1>27, <1>28, <1>29, <1>30, <1>31, <1>32, <1>33, <1>34, <1>35, <1>36, <1>37,
     <1>38, <1>39, <1>40, <1>41, <1>42, <1>43, <1>44 DEF Next, Pooler, SetupStep,
     DestroyStep, ReapStep, Job

(* Every step keeps StageInv: a VM that is claimed carries no stage, as no *)
(* stage has leased it before.                                             *)
LEMMA StageStep == TypeInv /\ LeaseInv /\ StageInv /\ [Next]_vars => StageInv'
<1> SUFFICES ASSUME TypeInv, LeaseInv, StageInv, [Next]_vars PROVE StageInv'
  OBVIOUS
<1>0. /\ rows \in [VMs -> Row] /\ leased \in [Stages -> VMs \cup {NoVM}]
      /\ held \in [Stages -> [state: InstanceState, stage: Stages \cup {NoStage},
                              hib: BOOLEAN, recent: BOOLEAN]]
      /\ \A s \in Stages : setup[s] = "idle" <=> leased[s] = NoVM
  BY DEF TypeInv, TypeOK, Busy
<1>1. ASSUME NEW s \in Stages, NEW v \in VMs, leased[s] = NoVM,
             leased' = [leased EXCEPT ![s] = v], target' = target,
             \A w \in VMs : rows'[w].stage = rows[w].stage,
             \A t \in Stages : held'[t].stage \in {NoStage, t}
      PROVE  StageInv'
  <2>1. \A w \in VMs, t \in Stages : rows[w].stage = t => leased[t] = w
    BY DEF StageInv
  <2>2. \A w \in VMs, t \in Stages : rows'[w].stage = t => leased'[t] = w
    BY <1>0, <1>1, <2>1, NoneAssumption
  <2>3. DestroyHitsOwnVM'
    BY <1>0, <1>1 DEF StageInv, DestroyHitsOwnVM
  <2> QED
    BY <1>1, <2>2, <2>3 DEF StageInv
<1>2. ASSUME NEW s \in Stages, NEW v \in VMs, ClaimFree(s, v) PROVE StageInv'
  <2>1. /\ OthersKept(v) /\ rows[v].state = "created"
        /\ rows'[v].stage = rows[v].stage
    BY <1>2, ClaimWrites
  <2>2. \A t \in Stages : leased[t] # v
    BY <2>1, NoneAssumption DEF LeaseInv, LeasedNeverFree, FreeStates
  <2>3. rows[v].stage = NoStage
    BY <1>0, <2>2, RowFields DEF StageInv
  <2>4. \A t \in Stages : held'[t].stage \in {NoStage, t}
    BY <1>0, <1>2, <2>1, <2>3 DEF ClaimFree, Copy, StageInv
  <2>5. \A w \in VMs : rows'[w].stage = rows[w].stage
    BY <2>1 DEF OthersKept
  <2> QED
    BY <1>0, <1>1, <1>2, <2>4, <2>5 DEF ClaimFree, SetupOnly, destVars
<1>3. ASSUME NEW s \in Stages, NEW v \in VMs, CreateOnDemand(s, v) PROVE StageInv'
  BY <1>0, <1>1, <1>3 DEF CreateOnDemand, SetupOnly, destVars, StageInv
<1> QED
  BY <1>2, <1>3, StageActions, StageCalmStep

-----------------------------------------------------------------------------
(* The cloud.  A VM that is gone stays gone, and only hibernate() stops    *)
(* one.                                                                    *)

CloudCalm(v) ==
  /\ cloud[v] = "gone" => cloud'[v] = "gone"
  /\ cloud'[v] = "stopped" => cloud[v] = "stopped" \/ pooler[v] = "hibernating"
  /\ Live(v)' => Live(v) \/ cloud[v] = "absent"

(* Every step of every actor treats the cloud that way. *)
LEMMA CloudStep ==
  ASSUME TypeInv, [Next]_vars
  PROVE  \A v \in VMs : CloudCalm(v)
<1> USE NoneAssumption DEF TypeInv, TypeOK, CloudCalm, Live
<1> DEFINE Goal == \A w \in VMs : CloudCalm(w)
<1>1. ASSUME NEW v \in VMs, SeedCreate(v) PROVE Goal
  BY <1>1 DEF SeedCreate, DriverCreate
<1>2. ASSUME NEW v \in VMs, SeedInsert(v) PROVE Goal
  BY <1>2 DEF SeedInsert, DriverDestroy
<1>3. ASSUME NEW v \in VMs, SeedDestroy(v) PROVE Goal
  BY <1>3 DEF SeedDestroy, DriverDestroy
<1>4. ASSUME NEW v \in VMs, HibernateVM(v) PROVE Goal
  BY <1>4 DEF HibernateVM
<1>5. ASSUME NEW s \in Stages, NEW v \in VMs, CreateOnDemand(s, v) PROVE Goal
  BY <1>5 DEF CreateOnDemand, DriverCreate
<1>6. ASSUME NEW s \in Stages, InsertOnDemand(s) PROVE Goal
  BY <1>6 DEF InsertOnDemand, DriverDestroy
<1>7. ASSUME NEW s \in Stages, ResumeStart(s) PROVE Goal
  BY <1>7 DEF ResumeStart
<1>8. ASSUME NEW s \in Stages, CleanupDestroy(s) PROVE Goal
  BY <1>8 DEF CleanupDestroy, DriverDestroy
<1>9. ASSUME NEW s \in Stages, DestroyVM(s) PROVE Goal
  BY <1>9 DEF DestroyVM, DriverDestroy
<1>10. ASSUME NEW r \in Reapers, NEW v \in VMs, ReapDestroy(r, v) PROVE Goal
  BY <1>10 DEF ReapDestroy, DriverDestroy
<1>11. ASSUME NEW v \in VMs,
             SeedConnect(v) \/ SeedDelete(v) \/ SeedVerified(v) \/
             HibernateClaim(v) \/ HibernateSkip(v) \/ HibernateDone(v) \/
             PoolerCrash(v)
      PROVE  cloud' = cloud
  BY <1>11 DEF SeedConnect, SeedDelete, SeedVerified, HibernateClaim, HibernateSkip,
     HibernateDone, PoolerCrash
<1>12. ASSUME NEW s \in Stages,
             OwnerUpdate(s) \/ ResumeFind(s) \/ ResumeWrite(s) \/ Tag(s) \/
             HealthCheck(s) \/ OwnStage(s) \/ CleanupFind(s) \/ CleanupDelete(s) \/
             SetupCrash(s)
      PROVE  cloud' = cloud
  BY <1>12 DEF OwnerUpdate, ResumeFind, ResumeWrite, Tag, HealthCheck, OwnStage,
     CleanupFind, CleanupDelete, SetupCrash
<1>13. ASSUME NEW s \in Stages,
             DestroyFindInfo(s) \/ DestroyMark(s) \/ DestroyDelete(s) \/
             DestroyUnown(s) \/ DestroyCrash(s)
      PROVE  cloud' = cloud
  BY <1>13 DEF DestroyFindInfo, DestroyMark, DestroyDelete, DestroyUnown, DestroyCrash
<1>14. ASSUME NEW r \in Reapers,
             ForceDelete(r) \/ ForceDeleteFails(r) \/ PurgeClaim(r) \/
             CleanClaimed(r) \/ ClaimError(r) \/ ReapDelete(r) \/ ReaperCrash(r)
      PROVE  cloud' = cloud
  BY <1>14 DEF ForceDelete, ForceDeleteFails, PurgeClaim, CleanClaimed, ClaimError,
     ReapDelete, ReaperCrash
<1>15. ASSUME NEW s \in Stages, NEW v \in VMs,
             ClaimFree(s, v) \/ DestroyFindDB(s, v)
      PROVE  cloud' = cloud
  BY <1>15 DEF ClaimFree, DestroyFindDB
<1>16. ASSUME NEW r \in Reapers, NEW v \in VMs,
             CleanClaim(r, v) \/ ScaleClaim(r, v) \/ ReapDestroyFail(r, v)
      PROVE  cloud' = cloud
  BY <1>16 DEF CleanClaim, ScaleClaim, ReapDestroyFail
<1>17. ASSUME NEW r \in Reapers, NEW j \in Job, StartJob(r, j) PROVE cloud' = cloud
  BY <1>17 DEF StartJob
<1>18. Tick \/ UNCHANGED vars => cloud' = cloud
  BY DEF Tick, vars
<1>19. cloud' = cloud => Goal
  OBVIOUS
<1> HIDE DEF Goal
<1>20. Goal
  BY <1>1, <1>2, <1>3, <1>4, <1>5, <1>6, <1>7, <1>8, <1>9, <1>10, <1>11, <1>12, <1>13,
     <1>14, <1>15, <1>16, <1>17, <1>18, <1>19
  DEF Next, Pooler, SetupStep, DestroyStep, ReapStep, Job
<1> QED
  BY <1>20 DEF Goal

(* A stage reaches "healthy" by finding its VM running. *)
LEMMA HealthStep ==
  ASSUME TypeInv, [Next]_vars, NEW s \in Stages
  PROVE  setup'[s] \in {"healthy", "ready"} =>
           /\ leased'[s] = leased[s] /\ leased[s] \in VMs
           /\ \/ setup[s] \in {"healthy", "ready"}
              \/ cloud[leased[s]] = "running" /\ cloud' = cloud
<1> USE NoneAssumption DEF TypeInv, TypeOK, Busy, setupVars
<1> DEFINE Goal == setup'[s] \in {"healthy", "ready"} =>
                     /\ leased'[s] = leased[s] /\ leased[s] \in VMs
                     /\ \/ setup[s] \in {"healthy", "ready"}
                        \/ cloud[leased[s]] = "running" /\ cloud' = cloud
<1>0. UNCHANGED <<setup, leased>> => Goal
  OBVIOUS
<1>1. ASSUME NEW t \in Stages, NEW v \in VMs, ClaimFree(t, v) PROVE Goal
  BY <1>1 DEF ClaimFree, SetupTo
<1>2. ASSUME NEW t \in Stages, OwnerUpdate(t) PROVE Goal
  BY <1>2 DEF OwnerUpdate, SetupTo
<1>3. ASSUME NEW t \in Stages, NEW v \in VMs, CreateOnDemand(t, v) PROVE Goal
  BY <1>3 DEF CreateOnDemand, SetupTo
<1>4. ASSUME NEW t \in Stages, InsertOnDemand(t) PROVE Goal
  BY <1>4 DEF InsertOnDemand, SetupTo
<1>5. ASSUME NEW t \in Stages, ResumeFind(t) PROVE Goal
  BY <1>5 DEF ResumeFind, SetupTo
<1>6. ASSUME NEW t \in Stages, ResumeStart(t) PROVE Goal
  BY <1>6 DEF ResumeStart, SetupTo
<1>7. ASSUME NEW t \in Stages, ResumeWrite(t) PROVE Goal
  BY <1>7 DEF ResumeWrite, SetupTo
<1>8. ASSUME NEW t \in Stages, Tag(t) PROVE Goal
  BY <1>8 DEF Tag, SetupTo, StartCleanup
<1>9. ASSUME NEW t \in Stages, HealthCheck(t) PROVE Goal
  BY <1>9 DEF HealthCheck, SetupTo, StartCleanup
<1>10. ASSUME NEW t \in Stages, OwnStage(t) PROVE Goal
  BY <1>10 DEF OwnStage, SetupTo
<1>11. ASSUME NEW t \in Stages, CleanupFind(t) PROVE Goal
  BY <1>11 DEF CleanupFind, SetupTo
<1>12. ASSUME NEW t \in Stages, CleanupDestroy(t) PROVE Goal
  BY <1>12 DEF CleanupDestroy, SetupTo
<1>13. ASSUME NEW t \in Stages, CleanupDelete(t) PROVE Goal
  BY <1>13 DEF CleanupDelete, SetupTo
<1>14. ASSUME NEW t \in Stages, SetupCrash(t) PROVE Goal
  BY <1>14 DEF SetupCrash, SetupTo
<1>15. ASSUME NEW v \in VMs,
             SeedCreate(v) \/ SeedInsert(v) \/ SeedConnect(v) \/ SeedDestroy(v) \/
             SeedDelete(v) \/ SeedVerified(v) \/ HibernateClaim(v) \/
             HibernateSkip(v) \/ HibernateVM(v) \/ HibernateDone(v) \/
             PoolerCrash(v)
      PROVE  UNCHANGED <<setup, leased>>
  BY <1>15 DEF SeedCreate, SeedInsert, SeedConnect, SeedDestroy, SeedDelete,
     SeedVerified, HibernateClaim, HibernateSkip, HibernateVM, HibernateDone,
     PoolerCrash, PoolerOnly
<1>16. ASSUME NEW t \in Stages,
             DestroyFindInfo(t) \/ DestroyMark(t) \/ DestroyVM(t) \/
             DestroyDelete(t) \/ DestroyUnown(t) \/ DestroyCrash(t)
      PROVE  UNCHANGED <<setup, leased>>
  BY <1>16 DEF DestroyFindInfo, DestroyMark, DestroyVM, DestroyDelete, DestroyUnown,
     DestroyCrash, DestroyOnly
<1>17. ASSUME NEW t \in Stages, NEW v \in VMs,
             DestroyFindDB(t, v)
      PROVE  UNCHANGED <<setup, leased>>
  BY <1>17 DEF DestroyFindDB, DestroyOnly
<1>18. ASSUME NEW r \in Reapers,
             ForceDelete(r) \/ ForceDeleteFails(r) \/ PurgeClaim(r) \/
             CleanClaimed(r) \/ ClaimError(r) \/ ReapDelete(r) \/ ReaperCrash(r)
      PROVE  UNCHANGED <<setup, leased>>
  BY <1>18 DEF ForceDelete, ForceDeleteFails, PurgeClaim, CleanClaimed, ClaimError,
     ReapDelete, ReaperCrash, ReapOnly
<1>19. ASSUME NEW r \in Reapers, NEW v \in VMs,
             CleanClaim(r, v) \/ ScaleClaim(r, v) \/ ReapDestroy(r, v) \/
             ReapDestroyFail(r, v)
      PROVE  UNCHANGED <<setup, leased>>
  BY <1>19 DEF CleanClaim, ScaleClaim, ReapDestroy, ReapDestroyFail, ReapOnly
<1>20. ASSUME NEW r \in Reapers, NEW j \in Job,
             StartJob(r, j)
      PROVE  UNCHANGED <<setup, leased>>
  BY <1>20 DEF StartJob, ReapOnly
<1>21. Tick \/ UNCHANGED vars => UNCHANGED <<setup, leased>>
  BY DEF Tick, vars
<1> HIDE DEF Goal
<1>22. Goal
  BY <1>0, <1>1, <1>2, <1>3, <1>4, <1>5, <1>6, <1>7, <1>8, <1>9, <1>10, <1>11, <1>12,
     <1>13, <1>14, <1>15, <1>16, <1>17, <1>18, <1>19, <1>20, <1>21
  DEF Next, Pooler, SetupStep, DestroyStep, ReapStep, Job
<1> QED
  BY <1>22 DEF Goal

(* hibernate() never suspends a VM under a stage: it only runs on a VM     *)
(* whose pooler it is, and a leased VM's pooler has not claimed it.        *)
LEMMA SuspendStep ==
  TypeInv /\ LeaseInv /\ StageVMNeverSuspended /\ [Next]_vars => StageVMNeverSuspended'
<1> SUFFICES ASSUME TypeInv, LeaseInv, StageVMNeverSuspended, [Next]_vars,
                    NEW s \in Stages, setup'[s] \in {"healthy", "ready"}
             PROVE  cloud'[leased'[s]] # "stopped"
  BY DEF StageVMNeverSuspended
<1>1. /\ leased'[s] = leased[s] /\ leased[s] \in VMs
      /\ \/ setup[s] \in {"healthy", "ready"}
         \/ cloud[leased[s]] = "running" /\ cloud' = cloud
  BY HealthStep
<1>2. pooler[leased[s]] # "hibernating"
  BY <1>1, NoneAssumption DEF LeaseInv, LeasedRow
<1>3. cloud[leased[s]] # "stopped"
  BY <1>1 DEF StageVMNeverSuspended
<1> QED
  BY <1>1, <1>2, <1>3, CloudStep DEF CloudCalm

-----------------------------------------------------------------------------
(* Rows outlive their VMs when the driver names the VMs it failed on. *)

KnowsGone ==
  /\ \A v \in VMs : pooler[v] = "destroyed" => cloud[v] = "gone"
  /\ \A s \in Stages : setup[s] = "cleaned" => cloud[leased[s]] = "gone"
  /\ \A s \in Stages : destroyer[s] = "destroyed" => cloud[target[s]] = "gone"
  /\ \A r \in Reapers : \A v \in success[r] : cloud[v] = "gone"

(* No step drops a row whose VM lives, nor holds a live VM for destroyed. *)
LEMMA RowActions ==
  ASSUME TypeInv, RowInv, DriverReportsFailed, [Next]_vars
  PROVE  KnowsGone' /\ RowOutlivesVM'
<1> USE NoneAssumption
    DEF TypeInv, TypeOK, Busy, KnowsGone, setupVars, destVars, reapVars, lossVars
<1> DEFINE Goal == KnowsGone' /\ RowOutlivesVM'
<1>0. /\ KnowsGone /\ RowOutlivesVM
      /\ \A v \in VMs : cloud[v] = "gone" => cloud'[v] = "gone"
      /\ \A v \in VMs : Live(v)' => Live(v) \/ cloud[v] = "absent"
  BY CloudStep DEF RowInv, CloudCalm
<1>1. ASSUME NEW v \in VMs, SeedCreate(v) PROVE Goal
  <2>1. KnowsGone'
    BY <1>0, <1>1 DEF SeedCreate, PoolerTo, PoolerOnly, DriverCreate
  <2>2. RowOutlivesVM'
    BY <1>0, <1>1 DEF SeedCreate, PoolerTo, PoolerOnly, DriverCreate, RowOutlivesVM,
       Live, HasRow
  <2> QED
    BY <2>1, <2>2
<1>2. ASSUME NEW v \in VMs, SeedInsert(v) PROVE Goal
  <2>1. KnowsGone'
    <3>1. pooler'[v] # "destroyed" /\ \A w \in VMs : w # v => pooler'[w] = pooler[w]
      BY <1>2 DEF SeedInsert, PoolerTo
    <3>2. UNCHANGED <<setup, leased, destroyer, target, success>>
      BY <1>2 DEF SeedInsert, PoolerOnly
    <3> QED
      BY <1>0, <3>1, <3>2
  <2>2. /\ \A w \in VMs : w # v => rows'[w] = rows[w]
        /\ rows'[v] = rows[v] \/ rows'[v].state = "provisioning"
    BY <1>2, Inserts DEF OthersKept
  <2>3. \/ rows'[v].state = "provisioning" \/ v \in dropped' \/ cloud'[v] = "gone"
    <3>1. pooler'[v] = "waiting" => rows'[v].state = "provisioning"
      BY <1>2, Inserts
    <3> QED
      BY <1>2, <3>1 DEF SeedInsert, DriverDestroy, PoolerTo
  <2>4. /\ reported' = reported /\ dropped \subseteq dropped' /\ setup' = setup
        /\ leased' = leased /\ \A w \in VMs : w # v => pooler'[w] = pooler[w]
    BY <1>2 DEF SeedInsert, PoolerTo, PoolerOnly
  <2>5. \A w \in VMs : w # v => cloud'[w] = cloud[w]
    BY <1>2 DEF SeedInsert, DriverDestroy
  <2>6. RowOutlivesVM'
    BY <1>0, <2>2, <2>3, <2>4, <2>5 DEF RowOutlivesVM, Live, HasRow
  <2> QED
    BY <2>1, <2>6
<1>3. ASSUME NEW v \in VMs, SeedConnect(v) PROVE Goal
  <2>1. KnowsGone'
    BY <1>0, <1>3 DEF SeedConnect, PoolerTo, PoolerOnly
  <2>2. RowOutlivesVM'
    BY <1>0, <1>3 DEF SeedConnect, PoolerTo, PoolerOnly, RowOutlivesVM, Live, HasRow
  <2> QED
    BY <2>1, <2>2
<1>4. ASSUME NEW v \in VMs, SeedDestroy(v) PROVE Goal
  <2>1. KnowsGone'
    BY <1>0, <1>4 DEF SeedDestroy, PoolerTo, PoolerOnly, DriverDestroy
  <2>2. RowOutlivesVM'
    BY <1>0, <1>4 DEF SeedDestroy, PoolerTo, PoolerOnly, DriverDestroy, RowOutlivesVM,
       Live, HasRow
  <2> QED
    BY <2>1, <2>2
<1>5. ASSUME NEW v \in VMs, SeedDelete(v) PROVE Goal
  <2>1. KnowsGone'
    BY <1>0, <1>5 DEF SeedDelete, PoolerTo, PoolerOnly
  <2>2. Wrote(v, "none", NoStage)
    BY <1>5, PoolerWrites
  <2>3. \A w \in VMs : w # v => rows'[w] = rows[w]
    BY <2>2 DEF Wrote, OthersKept
  <2>4. RowOutlivesVM'
    BY <1>0, <1>5, <2>3 DEF SeedDelete, PoolerTo, PoolerOnly, RowOutlivesVM, Live, HasRow
  <2> QED
    BY <2>1, <2>4
<1>6. ASSUME NEW v \in VMs, SeedVerified(v) PROVE Goal
  <2>1. KnowsGone'
    <3>1. pooler'[v] # "destroyed" /\ \A w \in VMs : w # v => pooler'[w] = pooler[w]
      BY <1>6 DEF SeedVerified, PoolerTo
    <3>2. UNCHANGED <<setup, leased, destroyer, target, success>>
      BY <1>6 DEF SeedVerified, PoolerOnly
    <3> QED
      BY <1>0, <3>1, <3>2
  <2>2. Wrote(v, "created", NoStage)
    BY <1>6, PoolerWrites
  <2>3. \A w \in VMs : rows[w].state # "none" => rows'[w].state # "none"
    BY <2>2 DEF Wrote, OthersKept
  <2>4. /\ UNCHANGED <<cloud, setup, leased, reported, dropped>>
        /\ \A w \in VMs : pooler[w] = "created" => pooler'[w] = "created"
    BY <1>6 DEF SeedVerified, PoolerTo, PoolerOnly
  <2>5. RowOutlivesVM'
    BY <1>0, <2>3, <2>4 DEF RowOutlivesVM, Live, HasRow
  <2> QED
    BY <2>1, <2>5
<1>7. ASSUME NEW v \in VMs, HibernateClaim(v) PROVE Goal
  <2>1. KnowsGone'
    BY <1>0, <1>7 DEF HibernateClaim, PoolerTo, PoolerOnly
  <2>2. OthersKept(v) /\ rows'[v].state = "hibernating"
    BY <1>7, ClaimWrites
  <2>3. \A w \in VMs : rows[w].state # "none" => rows'[w].state # "none"
    BY <2>2 DEF Wrote, OthersKept
  <2>4. RowOutlivesVM'
    BY <1>0, <1>7, <2>3 DEF HibernateClaim, PoolerTo, PoolerOnly, RowOutlivesVM, Live,
       HasRow
  <2> QED
    BY <2>1, <2>4
<1>8. ASSUME NEW v \in VMs, HibernateSkip(v) PROVE Goal
  <2>1. KnowsGone'
    BY <1>0, <1>8 DEF HibernateSkip, PoolerTo, PoolerOnly
  <2>2. RowOutlivesVM'
    BY <1>0, <1>8 DEF HibernateSkip, PoolerTo, PoolerOnly, RowOutlivesVM, Live, HasRow
  <2> QED
    BY <2>1, <2>2
<1>9. ASSUME NEW v \in VMs, HibernateVM(v) PROVE Goal
  <2>1. KnowsGone'
    BY <1>0, <1>9 DEF HibernateVM, PoolerTo, PoolerOnly, Live
  <2>2. RowOutlivesVM'
    BY <1>0, <1>9 DEF HibernateVM, PoolerTo, PoolerOnly, Live, RowOutlivesVM, HasRow
  <2> QED
    BY <2>1, <2>2
<1>10. ASSUME NEW v \in VMs, HibernateDone(v) PROVE Goal
  <2>1. KnowsGone'
    BY <1>0, <1>10 DEF HibernateDone, PoolerTo, PoolerOnly
  <2>2. Wrote(v, "created", NoStage)
    BY <1>10, PoolerWrites
  <2>3. \A w \in VMs : rows[w].state # "none" => rows'[w].state # "none"
    BY <2>2 DEF Wrote, OthersKept
  <2>4. RowOutlivesVM'
    BY <1>0, <1>10, <2>3 DEF HibernateDone, PoolerTo, PoolerOnly, RowOutlivesVM, Live,
       HasRow
  <2> QED
    BY <2>1, <2>4
<1>11. ASSUME NEW v \in VMs, PoolerCrash(v) PROVE Goal
  <2>1. KnowsGone'
    BY <1>0, <1>11 DEF PoolerCrash, PoolerTo, PoolerOnly
  <2>2. RowOutlivesVM'
    BY <1>0, <1>11 DEF PoolerCrash, PoolerTo, PoolerOnly, RowOutlivesVM, Live, HasRow
  <2> QED
    BY <2>1, <2>2
<1>12. ASSUME NEW s \in Stages, NEW v \in VMs, ClaimFree(s, v) PROVE Goal
  <2>1. KnowsGone'
    BY <1>0, <1>12 DEF ClaimFree, SetupTo, SetupOnly, Copy
  <2>2. OthersKept(v) /\ rows'[v].state = "inuse"
    BY <1>12, ClaimWrites
  <2>3. \A w \in VMs : rows[w].state # "none" => rows'[w].state # "none"
    BY <2>2 DEF Wrote, OthersKept
  <2>4. RowOutlivesVM'
    BY <1>0, <1>12, <2>3 DEF ClaimFree, SetupTo, SetupOnly, RowOutlivesVM, Live, HasRow
  <2> QED
    BY <2>1, <2>4
<1>13. ASSUME NEW s \in Stages, OwnerUpdate(s) PROVE Goal
  <2>1. KnowsGone'
    BY <1>0, <1>13 DEF OwnerUpdate, SetupTo, SetupOnly
  <2>2. Wrote(leased[s], held[s].state, held[s].stage)
    BY <1>13, SetupWrites
  <2>3. \A w \in VMs : rows[w].state # "none" => rows'[w].state # "none"
    BY <2>2, HeldFields DEF Wrote, OthersKept, InstanceState
  <2>4. RowOutlivesVM'
    BY <1>0, <1>13, <2>3 DEF OwnerUpdate, SetupTo, SetupOnly, RowOutlivesVM, Live, HasRow
  <2> QED
    BY <2>1, <2>4
<1>14. ASSUME NEW s \in Stages, NEW v \in VMs, CreateOnDemand(s, v) PROVE Goal
  <2>1. KnowsGone'
    BY <1>0, <1>14 DEF CreateOnDemand, SetupTo, SetupOnly, DriverCreate
  <2>2. RowOutlivesVM'
    BY <1>0, <1>14 DEF CreateOnDemand, SetupTo, SetupOnly, DriverCreate,
       RowOutlivesVM, Live, HasRow
  <2> QED
    BY <2>1, <2>2
<1>15. ASSUME NEW s \in Stages, InsertOnDemand(s) PROVE Goal
  <2>1. KnowsGone'
    BY <1>0, <1>15 DEF InsertOnDemand, SetupTo, SetupOnly, DriverDestroy
  <2>2. RowOutlivesVM'
    BY <1>0, <1>15, Inserts DEF InsertOnDemand, SetupTo, SetupOnly, DriverDestroy,
       OthersKept, RowOutlivesVM, Live, HasRow
  <2> QED
    BY <2>1, <2>2
<1>16. ASSUME NEW s \in Stages, ResumeFind(s) PROVE Goal
  <2>1. KnowsGone'
    BY <1>0, <1>16 DEF ResumeFind, SetupTo, SetupOnly, Copy
  <2>2. RowOutlivesVM'
    BY <1>0, <1>16 DEF ResumeFind, SetupTo, SetupOnly, Copy, RowOutlivesVM, Live, HasRow
  <2> QED
    BY <2>1, <2>2
<1>17. ASSUME NEW s \in Stages, ResumeStart(s) PROVE Goal
  <2>1. KnowsGone'
    BY <1>0, <1>17 DEF ResumeStart, SetupTo, SetupOnly, Live
  <2>2. RowOutlivesVM'
    BY <1>0, <1>17 DEF ResumeStart, SetupTo, SetupOnly, Live, RowOutlivesVM, HasRow
  <2> QED
    BY <2>1, <2>2
<1>18. ASSUME NEW s \in Stages, ResumeWrite(s) PROVE Goal
  <2>1. KnowsGone'
    <3>1. UNCHANGED <<pooler, leased, destroyer, target, success, cloud>>
      BY <1>18 DEF ResumeWrite, SetupOnly
    <3>2. \A t \in Stages : setup'[t] = "cleaned" => setup[t] = "cleaned"
      BY <1>18 DEF ResumeWrite, SetupTo
    <3> QED
      BY <1>0, <3>1, <3>2
  <2>2. Wrote(leased[s], held[s].state, held[s].stage)
    BY <1>18, SetupWrites
  <2>3. \A w \in VMs : rows[w].state # "none" => rows'[w].state # "none"
    BY <2>2, HeldFields DEF Wrote, OthersKept, InstanceState
  <2>4. /\ UNCHANGED <<cloud, pooler, leased, reported, dropped>>
        /\ \A t \in Stages : setup[t] = "creating" => setup'[t] = "creating"
    BY <1>18 DEF ResumeWrite, SetupTo, SetupOnly
  <2>5. RowOutlivesVM'
    BY <1>0, <2>3, <2>4 DEF RowOutlivesVM, Live, HasRow
  <2> QED
    BY <2>1, <2>5
<1>19. ASSUME NEW s \in Stages, Tag(s) PROVE Goal
  <2>1. KnowsGone'
    BY <1>0, <1>19 DEF Tag, SetupTo, SetupOnly, StartCleanup
  <2>2. Wrote(leased[s], held[s].state, s)
    BY <1>19, SetupWrites
  <2>3. \A w \in VMs : rows[w].state # "none" => rows'[w].state # "none"
    BY <2>2, HeldFields DEF Wrote, OthersKept, InstanceState
  <2>4. RowOutlivesVM'
    BY <1>0, <1>19, <2>3 DEF Tag, SetupTo, SetupOnly, StartCleanup, RowOutlivesVM,
       Live, HasRow
  <2> QED
    BY <2>1, <2>4
<1>20. ASSUME NEW s \in Stages, HealthCheck(s) PROVE Goal
  <2>1. KnowsGone'
    BY <1>0, <1>20 DEF HealthCheck, SetupTo, SetupOnly, StartCleanup
  <2>2. RowOutlivesVM'
    BY <1>0, <1>20 DEF HealthCheck, SetupTo, SetupOnly, StartCleanup, RowOutlivesVM,
       Live, HasRow
  <2> QED
    BY <2>1, <2>2
<1>21. ASSUME NEW s \in Stages, OwnStage(s) PROVE Goal
  <2>1. KnowsGone'
    BY <1>0, <1>21 DEF OwnStage, SetupTo, SetupOnly
  <2>2. RowOutlivesVM'
    BY <1>0, <1>21 DEF OwnStage, SetupTo, SetupOnly, RowOutlivesVM, Live, HasRow
  <2> QED
    BY <2>1, <2>2
<1>22. ASSUME NEW s \in Stages, CleanupFind(s) PROVE Goal
  <2>1. KnowsGone'
    BY <1>0, <1>22 DEF CleanupFind, SetupTo, SetupOnly
  <2>2. RowOutlivesVM'
    BY <1>0, <1>22 DEF CleanupFind, SetupTo, SetupOnly, RowOutlivesVM, Live, HasRow
  <2> QED
    BY <2>1, <2>2
<1>23. ASSUME NEW s \in Stages, CleanupDestroy(s) PROVE Goal
  <2>1. KnowsGone'
    BY <1>0, <1>23 DEF CleanupDestroy, SetupTo, SetupOnly, DriverDestroy
  <2>2. RowOutlivesVM'
    BY <1>0, <1>23 DEF CleanupDestroy, SetupTo, SetupOnly, DriverDestroy,
       RowOutlivesVM, Live, HasRow
  <2> QED
    BY <2>1, <2>2
<1>24. ASSUME NEW s \in Stages, CleanupDelete(s) PROVE Goal
  <2>1. KnowsGone'
    BY <1>0, <1>24 DEF CleanupDelete, SetupTo, SetupOnly
  <2>2. Wrote(leased[s], "none", NoStage)
    BY <1>24, SetupWrites
  <2>3. \A w \in VMs : w # leased[s] => rows'[w] = rows[w]
    BY <2>2 DEF Wrote, OthersKept
  <2>4. RowOutlivesVM'
    BY <1>0, <1>24, <2>3 DEF CleanupDelete, SetupTo, SetupOnly, RowOutlivesVM, Live, HasRow
  <2> QED
    BY <2>1, <2>4
<1>25. ASSUME NEW s \in Stages, SetupCrash(s) PROVE Goal
  <2>1. KnowsGone'
    BY <1>0, <1>25 DEF SetupCrash, SetupTo, SetupOnly
  <2>2. RowOutlivesVM'
    BY <1>0, <1>25 DEF SetupCrash, SetupTo, SetupOnly, RowOutlivesVM, Live, HasRow
  <2> QED
    BY <2>1, <2>2
<1>26. ASSUME NEW s \in Stages, NEW v \in VMs, DestroyFindDB(s, v) PROVE Goal
  <2>1. KnowsGone'
    BY <1>0, <1>26 DEF DestroyFindDB, DestroyerTo, DestroyOnly
  <2>2. RowOutlivesVM'
    BY <1>0, <1>26 DEF DestroyFindDB, DestroyerTo, DestroyOnly, RowOutlivesVM, Live, HasRow
  <2> QED
    BY <2>1, <2>2
<1>27. ASSUME NEW s \in Stages, DestroyFindInfo(s) PROVE Goal
  <2>1. KnowsGone'
    BY <1>0, <1>27 DEF DestroyFindInfo, DestroyerTo, DestroyOnly
  <2>2. RowOutlivesVM'
    BY <1>0, <1>27 DEF DestroyFindInfo, DestroyerTo, DestroyOnly, RowOutlivesVM, Live,
       HasRow
  <2> QED
    BY <2>1, <2>2
<1>28. ASSUME NEW s \in Stages, DestroyMark(s) PROVE Goal
  <2>1. KnowsGone'
    BY <1>0, <1>28 DEF DestroyMark, DestroyerTo, DestroyOnly
  <2>2. \/ Wrote(target[s], "terminating", s)
        \/ Wrote(target[s], "terminating", NoStage)
    BY <1>28, DestroyWrites
  <2>3. \A w \in VMs : rows[w].state # "none" => rows'[w].state # "none"
    BY <2>2 DEF Wrote, OthersKept
  <2>4. RowOutlivesVM'
    BY <1>0, <1>28, <2>3 DEF DestroyMark, DestroyerTo, DestroyOnly, RowOutlivesVM,
       Live, HasRow
  <2> QED
    BY <2>1, <2>4
<1>29. ASSUME NEW s \in Stages, DestroyVM(s) PROVE Goal
  <2>1. KnowsGone'
    BY <1>0, <1>29 DEF DestroyVM, DestroyerTo, DestroyOnly, DriverDestroy
  <2>2. RowOutlivesVM'
    BY <1>0, <1>29 DEF DestroyVM, DestroyerTo, DestroyOnly, DriverDestroy,
       RowOutlivesVM, Live, HasRow
  <2> QED
    BY <2>1, <2>2
<1>30. ASSUME NEW s \in Stages, DestroyDelete(s) PROVE Goal
  <2>1. KnowsGone'
    BY <1>0, <1>30 DEF DestroyDelete, DestroyerTo, DestroyOnly
  <2>2. Wrote(target[s], "none", NoStage)
    BY <1>30, DestroyWrites
  <2>3. \A w \in VMs : w # target[s] => rows'[w] = rows[w]
    BY <2>2 DEF Wrote, OthersKept
  <2>4. RowOutlivesVM'
    BY <1>0, <1>30, <2>3 DEF DestroyDelete, DestroyerTo, DestroyOnly, RowOutlivesVM,
       Live, HasRow
  <2> QED
    BY <2>1, <2>4
<1>31. ASSUME NEW s \in Stages, DestroyUnown(s) PROVE Goal
  <2>1. KnowsGone'
    BY <1>0, <1>31 DEF DestroyUnown, DestroyerTo, DestroyOnly
  <2>2. RowOutlivesVM'
    BY <1>0, <1>31 DEF DestroyUnown, DestroyerTo, DestroyOnly, RowOutlivesVM, Live, HasRow
  <2> QED
    BY <2>1, <2>2
<1>32. ASSUME NEW s \in Stages, DestroyCrash(s) PROVE Goal
  <2>1. KnowsGone'
    BY <1>0, <1>32 DEF DestroyCrash, DestroyerTo, DestroyOnly
  <2>2. RowOutlivesVM'
    BY <1>0, <1>32 DEF DestroyCrash, DestroyerTo, DestroyOnly, RowOutlivesVM, Live, HasRow
  <2> QED
    BY <2>1, <2>2
<1>33. ASSUME NEW r \in Reapers, NEW j \in Job, StartJob(r, j) PROVE Goal
  <2>1. KnowsGone'
    BY <1>0, <1>33 DEF StartJob, StepTo, ReapOnly
  <2>2. RowOutlivesVM'
    BY <1>0, <1>33 DEF StartJob, StepTo, ReapOnly, RowOutlivesVM, Live, HasRow
  <2> QED
    BY <2>1, <2>2
<1>34. ASSUME NEW r \in Reapers, ForceDelete(r) PROVE Goal
  <2>1. KnowsGone'
    BY <1>0, <1>34 DEF ForceDelete, StepTo, ReapOnly
  <2>2. RowOutlivesVM'
    BY <1>0, <1>34, SweepWrites DEF ForceDelete, StepTo, ReapOnly, RowOutlivesVM,
       Live, HasRow
  <2> QED
    BY <2>1, <2>2
<1>35. ASSUME NEW r \in Reapers, ForceDeleteFails(r) PROVE Goal
  <2>1. KnowsGone'
    BY <1>0, <1>35 DEF ForceDeleteFails, StepTo, ReapOnly
  <2>2. RowOutlivesVM'
    BY <1>0, <1>35 DEF ForceDeleteFails, StepTo, ReapOnly, RowOutlivesVM, Live, HasRow
  <2> QED
    BY <2>1, <2>2
<1>36. ASSUME NEW r \in Reapers, PurgeClaim(r) PROVE Goal
  <2>1. KnowsGone'
    BY <1>0, <1>36 DEF PurgeClaim, StepTo, ReapOnly, Finish
  <2>2. \A w \in VMs : rows[w].state # "none" => rows'[w].state # "none"
    BY <1>36, SweepWrites
  <2>3. RowOutlivesVM'
    BY <1>0, <1>36, <2>2 DEF PurgeClaim, ReapOnly, RowOutlivesVM, Live, HasRow
  <2> QED
    BY <2>1, <2>3
<1>37. ASSUME NEW r \in Reapers, NEW v \in VMs, CleanClaim(r, v) PROVE Goal
  <2>1. KnowsGone'
    BY <1>0, <1>37 DEF CleanClaim, StepTo, ReapOnly, FreeStates
  <2>2. OthersKept(v) /\ rows'[v].state = "terminating"
    BY <1>37, ClaimWrites
  <2>3. \A w \in VMs : rows[w].state # "none" => rows'[w].state # "none"
    BY <2>2 DEF Wrote, OthersKept
  <2>4. RowOutlivesVM'
    BY <1>0, <1>37, <2>3 DEF CleanClaim, StepTo, ReapOnly, RowOutlivesVM, Live, HasRow
  <2> QED
    BY <2>1, <2>4
<1>38. ASSUME NEW r \in Reapers, CleanClaimed(r) PROVE Goal
  <2>1. KnowsGone'
    BY <1>0, <1>38 DEF CleanClaimed, StepTo, ReapOnly
  <2>2. RowOutlivesVM'
    BY <1>0, <1>38 DEF CleanClaimed, StepTo, ReapOnly, RowOutlivesVM, Live, HasRow
  <2> QED
    BY <2>1, <2>2
<1>39. ASSUME NEW r \in Reapers, ClaimError(r) PROVE Goal
  <2>1. KnowsGone'
    BY <1>0, <1>39 DEF ClaimError, StepTo, ReapOnly, Finish
  <2>2. RowOutlivesVM'
    BY <1>0, <1>39 DEF ClaimError, StepTo, ReapOnly, Finish, RowOutlivesVM, Live, HasRow
  <2> QED
    BY <2>1, <2>2
<1>40. ASSUME NEW r \in Reapers, NEW v \in VMs, ScaleClaim(r, v) PROVE Goal
  <2>1. KnowsGone'
    BY <1>0, <1>40 DEF ScaleClaim, StepTo, ReapOnly
  <2>2. OthersKept(v) /\ rows'[v].state = "terminating"
    BY <1>40, ClaimWrites
  <2>3. \A w \in VMs : rows[w].state # "none" => rows'[w].state # "none"
    BY <2>2 DEF Wrote, OthersKept
  <2>4. RowOutlivesVM'
    BY <1>0, <1>40, <2>3 DEF ScaleClaim, StepTo, ReapOnly, RowOutlivesVM, Live, HasRow
  <2> QED
    BY <2>1, <2>4
<1>41. ASSUME NEW r \in Reapers, NEW v \in VMs, ReapDestroy(r, v) PROVE Goal
  <2>1. KnowsGone'
    BY <1>0, <1>41 DEF ReapDestroy, StepTo, ReapOnly, DriverDestroy
  <2>2. RowOutlivesVM'
    BY <1>0, <1>41 DEF ReapDestroy, StepTo, ReapOnly, DriverDestroy, RowOutlivesVM,
       Live, HasRow
  <2> QED
    BY <2>1, <2>2
<1>42. ASSUME NEW r \in Reapers, NEW v \in VMs, ReapDestroyFail(r, v) PROVE Goal
  <2>1. KnowsGone'
    BY <1>0, <1>42 DEF ReapDestroyFail, StepTo, ReapOnly
  <2>2. RowOutlivesVM'
    BY <1>0, <1>42 DEF ReapDestroyFail, StepTo, ReapOnly, RowOutlivesVM, Live, HasRow
  <2> QED
    BY <2>1, <2>2
<1>43. ASSUME NEW r \in Reapers, ReapDelete(r) PROVE Goal
  <2>1. KnowsGone'
    BY <1>0, <1>43 DEF ReapDelete, StepTo, ReapOnly, Finish
  <2>2. RowOutlivesVM'
    BY <1>0, <1>43, SweepWrites DEF ReapDelete, StepTo, ReapOnly, Finish,
       RowOutlivesVM, Live, HasRow
  <2> QED
    BY <2>1, <2>2
<1>44. ASSUME NEW r \in Reapers, ReaperCrash(r) PROVE Goal
  <2>1. KnowsGone'
    BY <1>0, <1>44 DEF ReaperCrash, StepTo, ReapOnly
  <2>2. RowOutlivesVM'
    BY <1>0, <1>44 DEF ReaperCrash, StepTo, ReapOnly, RowOutlivesVM, Live, HasRow
  <2> QED
    BY <2>1, <2>2
<1>45. ASSUME Tick PROVE Goal
  <2>1. KnowsGone'
    BY <1>0, <1>45 DEF Tick
  <2>2. RowOutlivesVM'
    <3>1. \A v \in VMs : rows'[v].state = rows[v].state
      BY <1>45, TickWrites
    <3> QED
      BY <1>0, <1>45, <3>1, ZenonT(40) DEF Tick, RowOutlivesVM, Live, HasRow
  <2> QED
    BY <2>1, <2>2
<1>46. ASSUME UNCHANGED vars PROVE Goal
  BY <1>0, <1>46 DEF vars, RowOutlivesVM, Live, HasRow
<1> HIDE DEF Goal, TypeInv
<1>47. Goal
  BY <1>1, <1>2, <1>3, <1>4, <1>5, <1>6, <1>7, <1>8, <1>9, <1>10, <1>11, <1>12, <1>13,
     <1>14, <1>15, <1>16, <1>17, <1>18, <1>19, <1>20, <1>21, <1>22, <1>23, <1>24, <1>25,
     <1>26, <1>27, <1>28, <1>29, <1>30, <1>31, <1>32, <1>33, <1>34, <1>35, <1>36, <1>37,
     <1>38, <1>39, <1>40, <1>41, <1>42, <1>43, <1>44, <1>45, <1>46
  DEF Next, Pooler, SetupStep, DestroyStep, ReapStep, Job
<1> QED
  BY <1>47 DEF Goal

(* Every step keeps RowInv. *)
LEMMA RowStep ==
  ASSUME DriverReportsFailed PROVE TypeInv /\ RowInv /\ [Next]_vars => RowInv'
  BY RowActions DEF RowInv, KnowsGone

-----------------------------------------------------------------------------
(* The empty table satisfies every part. *)
LEMMA InitInv ==
  Init => TypeInv /\ LeaseInv /\ StageInv /\ StageVMNeverSuspended /\ RowInv
<1> SUFFICES ASSUME Init
             PROVE  TypeInv /\ LeaseInv /\ StageInv /\ StageVMNeverSuspended /\ RowInv
  OBVIOUS
<1> USE NoneAssumption DEF Init
<1>1. TypeInv
  <2>1. rows \in [VMs -> Row]
    BY NoRowType
  <2>2. held \in [Stages -> [state: InstanceState, stage: Stages \cup {NoStage},
                             hib: BOOLEAN, recent: BOOLEAN]]
    BY StateNames
  <2> QED
    BY <2>1, <2>2 DEF TypeInv, TypeOK, Busy, CloudState, PoolerPC, SetupPC, DestroyPC, Job
<1>2. \A v \in VMs : rows[v].state = "none" /\ rows[v].stage = NoStage
  BY DEF NoRow
<1>3. LeaseInv
  BY <1>2 DEF LeaseInv, SingleUse, LeasedNeverFree, PoolerRow, LeasedRow, Unborn
<1>4. StageInv
  BY <1>2 DEF StageInv, DestroyHitsOwnVM
<1>5. StageVMNeverSuspended
  BY DEF StageVMNeverSuspended
<1>6. RowInv
  BY DEF RowInv, RowOutlivesVM, Live
<1> QED
  BY <1>1, <1>3, <1>4, <1>5, <1>6

(* The tables and every actor's memory keep their types, for any number of *)
(* VMs, stages and reapers, and no handler runs without its VM.            *)
THEOREM TypeCorrect == Spec => [](TypeOK /\ Busy)
<1>1. Init => TypeInv
  BY InitInv
<1>2. TypeInv /\ [Next]_vars => TypeInv'
  BY TypeStep
<1>3. TypeInv => TypeOK /\ Busy
  BY DEF TypeInv
<1> QED
  BY <1>1, <1>2, <1>3, PTL DEF Spec

(* The lease discipline is an invariant. *)
LEMMA LeaseAlways == Spec => [](TypeInv /\ LeaseInv)
<1>1. Init => TypeInv /\ LeaseInv
  BY InitInv
<1>2. TypeInv /\ LeaseInv /\ [Next]_vars => TypeInv' /\ LeaseInv'
  BY TypeStep, LeaseStep
<1> QED
  BY <1>1, <1>2, PTL DEF Spec

(* A VM of the pool or on demand serves at most one stage in its life: the *)
(* claims of Provision and the pooler's late writes never interleave into  *)
(* a second lease.                                                         *)
THEOREM VMServesOneStage == Spec => []SingleUse
<1>1. LeaseInv => SingleUse
  BY DEF LeaseInv
<1> QED
  BY <1>1, LeaseAlways, PTL

(* The row of a leased VM never reads free again, whichever whole-row      *)
(* Update comes last.                                                      *)
THEOREM LeaseIsFinal == Spec => []LeasedNeverFree
<1>1. LeaseInv => LeasedNeverFree
  BY DEF LeaseInv
<1> QED
  BY <1>1, LeaseAlways, PTL

(* handleDestroy never reaches for another stage's VM. *)
THEOREM DestroyIsOwn == Spec => []DestroyHitsOwnVM
<1>1. Init => TypeInv /\ LeaseInv /\ StageInv
  BY InitInv
<1>2. TypeInv /\ LeaseInv /\ StageInv /\ [Next]_vars => TypeInv' /\ LeaseInv' /\ StageInv'
  BY TypeStep, LeaseStep, StageStep
<1>3. StageInv => DestroyHitsOwnVM
  BY DEF StageInv
<1> QED
  BY <1>1, <1>2, <1>3, PTL DEF Spec

(* hibernate() never suspends a VM on which a stage passed its health      *)
(* check.                                                                  *)
THEOREM NoSuspendUnderStage == Spec => []StageVMNeverSuspended
<1>1. Init => TypeInv /\ LeaseInv /\ StageVMNeverSuspended
  BY InitInv
<1>2. TypeInv /\ LeaseInv /\ StageVMNeverSuspended /\ [Next]_vars
        => TypeInv' /\ LeaseInv' /\ StageVMNeverSuspended'
  BY TypeStep, LeaseStep, SuspendStep
<1> QED
  BY <1>1, <1>2, PTL DEF Spec

(* With a driver that names the instances it failed to destroy, as the     *)
(* Google and Amazon drivers do, no row is deleted while its VM lives,     *)
(* save by the purger's force-delete, which reports it.                    *)
THEOREM RowsOutliveVMs ==
  ASSUME DriverReportsFailed PROVE Spec => []RowOutlivesVM
<1>1. Init => TypeInv /\ RowInv
  BY InitInv
<1>2. TypeInv /\ RowInv /\ [Next]_vars => TypeInv' /\ RowInv'
  BY TypeStep, RowStep
<1>3. RowInv => RowOutlivesVM
  BY DEF RowInv
<1> QED
  BY <1>1, <1>2, <1>3, PTL DEF Spec

-----------------------------------------------------------------------------
(* The manager implements VMLease. *)

(* Past the insert of its row: whether it succeeded, failed or was never   *)
(* reached, no row is ever inserted for the VM after that.                 *)
Known(v) ==
  /\ cloud[v] # "absent" /\ pooler[v] # "created"
  /\ \A s \in Stages : leased[s] = v => setup[s] # "creating"

(* A VM between driver.Create and the insert runs, and is in nobody else's *)
(* hands.                                                                  *)
TrackInv ==
  /\ \A v \in VMs : pooler[v] = "created" => cloud[v] = "running"
  /\ \A s \in Stages : setup[s] = "creating" => cloud[leased[s]] = "running"
  /\ \A v \in reported : Known(v)
  /\ \A r \in Reapers : \A v \in todo[r] : Known(v)
  /\ \A s \in Stages : destroyer[s] # "idle" => Known(target[s])

-----------------------------------------------------------------------------
(* Who changes what VMLease sees. *)

(* The goroutine of a pooled VM leaves the other actors alone. *)
LEMMA PoolerFrame ==
  ASSUME NEW v \in VMs, Pooler(v) \/ PoolerCrash(v)
  PROVE  PoolerOnly /\ UNCHANGED reported
  BY DEF Pooler, PoolerCrash, SeedCreate, SeedInsert, SeedConnect, SeedDestroy, SeedDelete,
         SeedVerified, HibernateClaim, HibernateSkip, HibernateVM, HibernateDone, lossVars

(* So does handleSetup, which picks its VM in Provision. *)
LEMMA SetupFrame ==
  ASSUME NEW s \in Stages, SetupStep(s) \/ SetupCrash(s)
  PROVE  SetupOnly /\ UNCHANGED <<leased, reported>>
<1>1. CASE OwnerUpdate(s) \/ InsertOnDemand(s) \/ ResumeFind(s) \/ ResumeStart(s)
  BY <1>1 DEF OwnerUpdate, InsertOnDemand, ResumeFind, ResumeStart, lossVars
<1>2. CASE ResumeWrite(s) \/ Tag(s) \/ HealthCheck(s) \/ OwnStage(s)
  BY <1>2 DEF ResumeWrite, Tag, HealthCheck, OwnStage, lossVars
<1>3. CASE CleanupFind(s) \/ CleanupDestroy(s) \/ CleanupDelete(s) \/ SetupCrash(s)
  BY <1>3 DEF CleanupFind, CleanupDestroy, CleanupDelete, SetupCrash, lossVars
<1> QED
  BY <1>1, <1>2, <1>3 DEF SetupStep

(* Provision claims a free VM or creates one, for its own stage. *)
LEMMA ProvisionFrame ==
  ASSUME NEW s \in Stages, NEW v \in VMs, ClaimFree(s, v) \/ CreateOnDemand(s, v)
  PROVE  SetupOnly /\ UNCHANGED reported
  BY DEF ClaimFree, CreateOnDemand, lossVars

(* And handleDestroy. *)
LEMMA DestroyFrame ==
  ASSUME NEW s \in Stages,
         \/ DestroyFindInfo(s) \/ DestroyStep(s) \/ DestroyCrash(s)
         \/ \E v \in VMs : DestroyFindDB(s, v)
  PROVE  DestroyOnly
  BY DEF DestroyFindInfo, DestroyStep, DestroyCrash, DestroyFindDB, DestroyMark, DestroyVM,
         DestroyDelete, DestroyUnown

(* And the reapers, which alone give a VM up. *)
LEMMA ReapFrame ==
  ASSUME NEW r \in Reapers, ReapStep(r) \/ ReaperCrash(r)
  PROVE  ReapOnly /\ (UNCHANGED reported \/ ForceDelete(r))
<1>1. CASE \/ ForceDelete(r) \/ ForceDeleteFails(r) \/ PurgeClaim(r) \/ CleanClaimed(r)
           \/ ClaimError(r) \/ ReapDelete(r) \/ ReaperCrash(r)
  BY <1>1 DEF ForceDelete, ForceDeleteFails, PurgeClaim, CleanClaimed, ClaimError,
     ReapDelete, ReaperCrash
<1>2. ASSUME NEW v \in VMs, \/ CleanClaim(r, v) \/ ScaleClaim(r, v) \/ ReapDestroy(r, v)
                           \/ ReapDestroyFail(r, v)
      PROVE  ReapOnly /\ UNCHANGED reported
  BY <1>2 DEF CleanClaim, ScaleClaim, ReapDestroy, ReapDestroyFail
<1> QED
  BY <1>1, <1>2 DEF ReapStep

(* Starting a job touches neither the provider nor a batch. *)
LEMMA StartFrame ==
  ASSUME NEW r \in Reapers, NEW j, StartJob(r, j)
  PROVE  ReapOnly /\ UNCHANGED <<cloud, todo, reported>>
  BY DEF StartJob

(* The steps of no actor: time passes, or nothing happens. *)
Idle == Tick \/ UNCHANGED vars

(* Every step is a step of one actor of Next or of none. *)
LEMMA Actors ==
  ASSUME [Next]_vars
  PROVE  \/ \E v \in VMs : Pooler(v) \/ PoolerCrash(v)
         \/ \E s \in Stages : SetupStep(s) \/ SetupCrash(s)
         \/ \E s \in Stages, v \in VMs : ClaimFree(s, v) \/ CreateOnDemand(s, v)
         \/ \E s \in Stages : \/ DestroyFindInfo(s) \/ DestroyStep(s) \/ DestroyCrash(s)
                              \/ \E v \in VMs : DestroyFindDB(s, v)
         \/ \E r \in Reapers : ReapStep(r) \/ ReaperCrash(r)
         \/ \E r \in Reapers : \E j \in {"busy", "cleanAll", "cleanFree", "scale"} :
              StartJob(r, j)
         \/ Idle
  BY DEF Next, Idle

(* Time changes only the ages that rows and copies of rows carry. *)
LEMMA IdleFrame ==
  ASSUME Idle
  PROVE  UNCHANGED <<cloud, pooler, setup, leased, destroyer, target, todo, reported>>
  BY DEF Idle, Tick, vars, setupVars, destVars, reapVars, lossVars

(* The provider is asked to create, to stop, to start and to destroy. *)
LEMMA OnlyCloud ==
  ASSUME [Next]_vars
  PROVE  \/ UNCHANGED cloud
         \/ \E v \in VMs : SeedCreate(v) \/ SeedInsert(v) \/ SeedDestroy(v) \/ HibernateVM(v)
         \/ \E s \in Stages : \/ InsertOnDemand(s) \/ ResumeStart(s) \/ CleanupDestroy(s)
                              \/ DestroyVM(s) \/ \E v \in VMs : CreateOnDemand(s, v)
         \/ \E r \in Reapers, v \in VMs : ReapDestroy(r, v)
<1>1. ASSUME NEW v \in VMs, Pooler(v) \/ PoolerCrash(v)
      PROVE  \/ UNCHANGED cloud
             \/ SeedCreate(v) \/ SeedInsert(v) \/ SeedDestroy(v) \/ HibernateVM(v)
  BY <1>1 DEF Pooler, PoolerCrash, SeedConnect, SeedDelete, SeedVerified, HibernateClaim,
     HibernateSkip, HibernateDone
<1>2. ASSUME NEW s \in Stages, SetupStep(s) \/ SetupCrash(s)
      PROVE  UNCHANGED cloud \/ InsertOnDemand(s) \/ ResumeStart(s) \/ CleanupDestroy(s)
  BY <1>2 DEF SetupStep, SetupCrash, OwnerUpdate, ResumeFind, ResumeWrite, Tag, HealthCheck,
     OwnStage, CleanupFind, CleanupDelete
<1>3. ASSUME NEW s \in Stages, NEW v \in VMs, ClaimFree(s, v)
      PROVE  UNCHANGED cloud
  BY <1>3 DEF ClaimFree
<1>4. ASSUME NEW s \in Stages,
             \/ DestroyFindInfo(s) \/ DestroyStep(s) \/ DestroyCrash(s)
             \/ \E v \in VMs : DestroyFindDB(s, v)
      PROVE  UNCHANGED cloud \/ DestroyVM(s)
  BY <1>4 DEF DestroyFindInfo, DestroyStep, DestroyCrash, DestroyFindDB, DestroyMark,
     DestroyDelete, DestroyUnown
<1>5. ASSUME NEW r \in Reapers, ReapStep(r) \/ ReaperCrash(r)
      PROVE  UNCHANGED cloud \/ \E v \in VMs : ReapDestroy(r, v)
  BY <1>5 DEF ReapStep, ReaperCrash, ForceDelete, ForceDeleteFails, PurgeClaim, CleanClaimed,
     ClaimError, ReapDelete, CleanClaim, ScaleClaim, ReapDestroyFail
<1> QED
  BY <1>1, <1>2, <1>3, <1>4, <1>5, Actors, StartFrame, IdleFrame

(* A stage is given a VM by Provision. *)
LEMMA OnlyLeased ==
  ASSUME [Next]_vars
  PROVE  \/ UNCHANGED leased
         \/ \E s \in Stages, v \in VMs : ClaimFree(s, v) \/ CreateOnDemand(s, v)
  BY Actors, PoolerFrame, SetupFrame, DestroyFrame, ReapFrame, StartFrame, IdleFrame
     DEF PoolerOnly, DestroyOnly, ReapOnly, setupVars

(* The force-delete alone gives a VM up. *)
LEMMA OnlyReported ==
  ASSUME [Next]_vars
  PROVE  UNCHANGED reported \/ \E r \in Reapers : ForceDelete(r)
  BY Actors, PoolerFrame, SetupFrame, ProvisionFrame, DestroyFrame, ReapFrame, StartFrame,
     IdleFrame DEF DestroyOnly, lossVars

(* The control of a pooled VM's goroutine. *)
LEMMA OnlyPooler ==
  ASSUME [Next]_vars
  PROVE  UNCHANGED pooler \/ \E v \in VMs : Pooler(v) \/ PoolerCrash(v)
  BY Actors, SetupFrame, ProvisionFrame, DestroyFrame, ReapFrame, StartFrame, IdleFrame
     DEF SetupOnly, DestroyOnly, ReapOnly

(* The control of handleSetup. *)
LEMMA OnlySetup ==
  ASSUME [Next]_vars
  PROVE  \/ UNCHANGED setup
         \/ \E s \in Stages : \/ SetupStep(s) \/ SetupCrash(s)
                              \/ \E v \in VMs : ClaimFree(s, v) \/ CreateOnDemand(s, v)
  BY Actors, PoolerFrame, DestroyFrame, ReapFrame, StartFrame, IdleFrame
     DEF PoolerOnly, DestroyOnly, ReapOnly, setupVars

(* The control of handleDestroy. *)
LEMMA OnlyDestroyer ==
  ASSUME [Next]_vars
  PROVE  \/ UNCHANGED <<destroyer, target>>
         \/ \E s \in Stages : \/ DestroyFindInfo(s) \/ DestroyStep(s) \/ DestroyCrash(s)
                              \/ \E v \in VMs : DestroyFindDB(s, v)
  BY Actors, PoolerFrame, SetupFrame, ProvisionFrame, ReapFrame, StartFrame, IdleFrame
     DEF PoolerOnly, SetupOnly, ReapOnly, destVars

(* The batches of the reapers. *)
LEMMA OnlyTodo ==
  ASSUME [Next]_vars
  PROVE  UNCHANGED todo \/ \E r \in Reapers : ReapStep(r) \/ ReaperCrash(r)
  BY Actors, PoolerFrame, SetupFrame, ProvisionFrame, DestroyFrame, StartFrame, IdleFrame
     DEF PoolerOnly, SetupOnly, DestroyOnly, reapVars

(* Rows are inserted for new VMs and deleted after a destroy or as leaked;  *)
(* no other step makes or removes one.                                     *)
LEMMA OnlyRows ==
  ASSUME TypeInv, [Next]_vars
  PROVE  \/ \A v \in VMs : HasRow(v)' <=> HasRow(v)
         \/ \E v \in VMs : SeedInsert(v) \/ SeedDelete(v)
         \/ \E s \in Stages : InsertOnDemand(s) \/ CleanupDelete(s) \/ DestroyDelete(s)
         \/ \E r \in Reapers : ForceDelete(r) \/ ReapDelete(r)
<1> DEFINE Same == \A v \in VMs : HasRow(v)' <=> HasRow(v)
<1>1. rows \in [VMs -> Row]
  BY DEF TypeInv, TypeOK
<1>2. UNCHANGED rows => Same
  BY DEF HasRow
<1>3. ASSUME NEW v, NEW state, NEW stage, Wrote(v, state, stage), state # "none"
      PROVE  Same
  BY <1>3 DEF Wrote, OthersKept, HasRow
<1>4. ASSUME NEW v \in VMs, SeedVerified(v) \/ HibernateDone(v) \/ HibernateClaim(v)
      PROVE  Same
  <2>1. CASE HibernateClaim(v)
    BY <2>1, ClaimWrites DEF OthersKept, HasRow
  <2> QED
    BY <1>3, <1>4, <2>1, PoolerWrites
<1>5. ASSUME NEW s \in Stages, OwnerUpdate(s) \/ ResumeWrite(s) \/ Tag(s) \/ DestroyMark(s)
      PROVE  Same
  <2>1. held[s].state # "none"
    BY HeldFields DEF TypeInv, TypeOK, InstanceState
  <2> QED
    BY <1>3, <1>5, <2>1, SetupWrites, DestroyWrites
<1>6. ASSUME NEW v \in VMs, \/ \E s \in Stages : ClaimFree(s, v)
                            \/ \E r \in Reapers : CleanClaim(r, v) \/ ScaleClaim(r, v)
      PROVE  Same
  BY <1>6, ClaimWrites DEF OthersKept, HasRow
<1>7. ASSUME NEW r \in Reapers, PurgeClaim(r)
      PROVE  Same
  BY <1>7, SweepWrites DEF HasRow
<1>8. Tick => Same
  BY TickWrites DEF HasRow
<1>9. \/ UNCHANGED rows \/ Tick
      \/ \E v \in VMs : \/ SeedInsert(v) \/ SeedDelete(v) \/ SeedVerified(v)
                        \/ HibernateClaim(v) \/ HibernateDone(v)
      \/ \E s \in Stages : \/ OwnerUpdate(s) \/ InsertOnDemand(s) \/ ResumeWrite(s) \/ Tag(s)
                           \/ CleanupDelete(s) \/ DestroyMark(s) \/ DestroyDelete(s)
                           \/ \E v \in VMs : ClaimFree(s, v)
      \/ \E r \in Reapers : \/ ForceDelete(r) \/ PurgeClaim(r) \/ ReapDelete(r)
                            \/ \E v \in VMs : CleanClaim(r, v) \/ ScaleClaim(r, v)
  BY DEF Next, vars, Pooler, PoolerCrash, SetupStep, SetupCrash, CreateOnDemand,
         DestroyFindInfo, DestroyStep, DestroyCrash, DestroyFindDB, StartJob, ReapStep,
         ReaperCrash, SeedCreate, SeedConnect, SeedDestroy, HibernateSkip, HibernateVM,
         ResumeFind, ResumeStart, HealthCheck, OwnStage, CleanupFind, CleanupDestroy,
         DestroyVM, DestroyUnown, ForceDeleteFails, CleanClaimed, ClaimError,
         ReapDestroy, ReapDestroyFail
<1> HIDE DEF Same
<1>10. \/ Same
       \/ \E v \in VMs : SeedInsert(v) \/ SeedDelete(v)
       \/ \E s \in Stages : InsertOnDemand(s) \/ CleanupDelete(s) \/ DestroyDelete(s)
       \/ \E r \in Reapers : ForceDelete(r) \/ ReapDelete(r)
  BY <1>2, <1>4, <1>5, <1>6, <1>7, <1>8, <1>9
<1> QED
  BY <1>10 DEF Same

-----------------------------------------------------------------------------
(* TrackInv is an invariant. *)

(* No VM is unmade, and a new one runs while its row is not inserted. *)
LEMMA NewVMs ==
  ASSUME TypeInv, LeaseInv, TrackInv, [Next]_vars, NEW v \in VMs
  PROVE  /\ cloud[v] # "absent" => cloud'[v] # "absent"
         /\ pooler'[v] = "created" => \/ pooler[v] = "created" /\ cloud'[v] = cloud[v]
                                      \/ cloud[v] = "absent" /\ cloud'[v] = "running"
         /\ \A s \in Stages : setup'[s] = "creating" /\ leased'[s] = v =>
              \/ setup[s] = "creating" /\ leased[s] = v /\ cloud'[v] = cloud[v]
              \/ cloud[v] = "absent" /\ cloud'[v] = "running"
<1>1. /\ cloud \in [VMs -> CloudState] /\ pooler \in [VMs -> PoolerPC]
      /\ setup \in [Stages -> SetupPC] /\ leased \in [Stages -> VMs \cup {NoVM}]
      /\ \A s \in Stages : setup[s] = "idle" <=> leased[s] = NoVM
      /\ \A s \in Stages : destroyer[s] # "idle" => target[s] # NoVM
      /\ target \in [Stages -> VMs \cup {NoVM}]
  BY DEF TypeInv, TypeOK, Busy
<1>2. cloud[v] # "absent" => cloud'[v] # "absent"
  BY <1>1, OnlyCloud DEF CloudState, SeedCreate, SeedInsert, SeedDestroy, HibernateVM,
     InsertOnDemand, ResumeStart, CleanupDestroy, DestroyVM, CreateOnDemand, ReapDestroy,
     DriverCreate, DriverDestroy
<1>3. pooler'[v] = "created" => pooler[v] = "created" \/ SeedCreate(v)
  BY <1>1, OnlyPooler DEF Pooler, PoolerCrash, PoolerTo, SeedCreate, SeedInsert, SeedConnect,
     SeedDestroy, SeedDelete, SeedVerified, HibernateClaim, HibernateSkip, HibernateVM,
     HibernateDone
<1>4. ASSUME NEW s \in Stages, setup'[s] = "creating", leased'[s] = v
      PROVE  (setup[s] = "creating" /\ leased[s] = v) \/ CreateOnDemand(s, v)
  <2>1. setup[s] = "creating" \/ \E w \in VMs : CreateOnDemand(s, w)
    <3>1. ASSUME NEW r \in Stages,
                 SetupStep(r) \/ SetupCrash(r) \/ \E w \in VMs : ClaimFree(r, w)
          PROVE  \E pc : pc # "creating" /\ setup' = [setup EXCEPT ![r] = pc]
      BY <3>1 DEF SetupStep, SetupCrash, SetupTo, StartCleanup, ClaimFree, OwnerUpdate,
         InsertOnDemand, ResumeFind, ResumeStart, ResumeWrite, Tag, HealthCheck, OwnStage,
         CleanupFind, CleanupDestroy, CleanupDelete
    <3>2. ASSUME NEW r \in Stages, NEW w \in VMs, CreateOnDemand(r, w)
          PROVE  setup' = [setup EXCEPT ![r] = "creating"]
      BY <3>2 DEF CreateOnDemand, SetupTo
    <3> QED
      BY <1>1, <1>4, <3>1, <3>2, OnlySetup
  <2>2. CASE setup[s] = "creating"
    BY <1>1, <1>4, <2>2, OnlyLeased DEF ClaimFree, CreateOnDemand
  <2>3. ASSUME NEW w \in VMs, CreateOnDemand(s, w)
        PROVE  w = v
    BY <1>1, <1>4, <2>3 DEF CreateOnDemand
  <2> QED
    BY <2>1, <2>2, <2>3
(* The destroys of others spare it. *)
<1>5. ASSUME cloud[v] = "running", cloud'[v] # cloud[v], cloud'[v] # "absent"
      PROVE  \/ SeedInsert(v) \/ SeedDestroy(v) \/ HibernateVM(v)
             \/ \E s \in Stages : /\ leased[s] = v
                                  /\ InsertOnDemand(s) \/ CleanupDestroy(s)
             \/ \E s \in Stages : target[s] = v /\ DestroyVM(s)
             \/ \E r \in Reapers : v \in todo[r]
  <2>1. cloud[v] = "running" /\ cloud'[v] # "running"
    BY <1>5
  <2>2. ASSUME NEW w \in VMs,
               SeedCreate(w) \/ SeedInsert(w) \/ SeedDestroy(w) \/ HibernateVM(w)
        PROVE  w = v /\ ~SeedCreate(w)
    BY <1>1, <2>1, <2>2 DEF SeedCreate, SeedInsert, SeedDestroy, HibernateVM, DriverCreate,
       DriverDestroy
  <2>3. ASSUME NEW s \in Stages,
               \/ InsertOnDemand(s) \/ ResumeStart(s) \/ CleanupDestroy(s)
               \/ \E w \in VMs : CreateOnDemand(s, w)
        PROVE  leased[s] = v /\ (InsertOnDemand(s) \/ CleanupDestroy(s))
    BY <1>1, <2>1, <2>3 DEF InsertOnDemand, ResumeStart, CleanupDestroy, CreateOnDemand,
       DriverCreate, DriverDestroy
  <2>4. ASSUME NEW s \in Stages, DestroyVM(s)
        PROVE  target[s] = v
    BY <1>1, <2>1, <2>4 DEF DestroyVM, DriverDestroy
  <2>5. ASSUME NEW r \in Reapers, NEW w \in VMs, ReapDestroy(r, w)
        PROVE  v \in todo[r]
    BY <1>1, <2>1, <2>5 DEF ReapDestroy, DriverDestroy
  <2> QED
    BY <2>1, <2>2, <2>3, <2>4, <2>5, OnlyCloud
<1>6. ASSUME pooler[v] = "created", pooler'[v] = "created"
      PROVE  cloud'[v] = cloud[v]
  <2>1. cloud[v] = "running" /\ \A s \in Stages : leased[s] # v
    BY <1>6, NoneAssumption DEF TrackInv, LeaseInv, LeasedRow
  <2>2. /\ \A r \in Reapers : v \notin todo[r]
        /\ \A s \in Stages : target[s] = v => destroyer[s] = "idle"
    BY <1>6 DEF TrackInv, Known
  <2> SUFFICES ASSUME cloud'[v] # cloud[v]
               PROVE  FALSE
    OBVIOUS
  <2>3. SeedInsert(v) \/ SeedDestroy(v) \/ HibernateVM(v)
    BY <1>2, <1>5, <2>1, <2>2 DEF DestroyVM
  <2> QED
    BY <1>1, <1>6, <2>3 DEF SeedInsert, SeedDestroy, HibernateVM, PoolerTo
<1>7. ASSUME NEW s \in Stages, setup[s] = "creating", leased[s] = v, setup'[s] = "creating"
      PROVE  cloud'[v] = cloud[v]
  <2>1. /\ cloud[v] = "running" /\ pooler[v] \in {"none", "ready", "done"}
        /\ \A t \in Stages : leased[t] = v => t = s
    BY <1>7, NoneAssumption DEF TrackInv, LeaseInv, LeasedRow, SingleUse
  <2>2. /\ \A r \in Reapers : v \notin todo[r]
        /\ \A t \in Stages : target[t] = v => destroyer[t] = "idle"
    BY <1>7 DEF TrackInv, Known
  <2> SUFFICES ASSUME cloud'[v] # cloud[v]
               PROVE  FALSE
    OBVIOUS
  <2>3. SeedInsert(v) \/ SeedDestroy(v) \/ HibernateVM(v) \/ InsertOnDemand(s) \/ CleanupDestroy(s)
    BY <1>2, <1>5, <2>1, <2>2 DEF DestroyVM
  <2>4. InsertOnDemand(s)
    BY <1>7, <2>1, <2>3 DEF SeedInsert, SeedDestroy, HibernateVM, CleanupDestroy
  <2> QED
    BY <1>1, <1>7, <2>4 DEF InsertOnDemand, SetupTo
<1>8. ASSUME SeedCreate(v) \/ \E s \in Stages : CreateOnDemand(s, v)
      PROVE  cloud[v] = "absent" /\ cloud'[v] = "running"
  BY <1>1, <1>8 DEF SeedCreate, CreateOnDemand, DriverCreate
<1> QED
  BY <1>2, <1>3, <1>4, <1>6, <1>7, <1>8

(* A VM with a row is past its insert. *)
LEMMA RowKnown ==
  ASSUME LeaseInv, NEW v \in VMs, HasRow(v)
  PROVE  Known(v)
  BY NoneAssumption DEF LeaseInv, Unborn, PoolerRow, LeasedRow, Known, HasRow

(* That does not change. *)
LEMMA KnownStays ==
  ASSUME TypeInv, LeaseInv, TrackInv, [Next]_vars, NEW v \in VMs, Known(v)
  PROVE  Known(v)'
  BY NewVMs DEF Known

(* TrackInv is kept. *)
LEMMA TrackStep ==
  ASSUME TypeInv, LeaseInv, TrackInv, [Next]_vars
  PROVE  TrackInv'
<1>1. /\ \A s \in Stages : setup[s] = "idle" <=> leased[s] = NoVM
      /\ leased \in [Stages -> VMs \cup {NoVM}] /\ target \in [Stages -> VMs \cup {NoVM}]
      /\ destroyer \in [Stages -> DestroyPC] /\ todo \in [Reapers -> SUBSET VMs]
      /\ \A s \in Stages : destroyer[s] # "idle" => target[s] # NoVM
      /\ reported \subseteq VMs
  BY DEF TypeInv, TypeOK, Busy
<1>2. /\ \A s \in Stages : setup'[s] = "idle" <=> leased'[s] = NoVM
      /\ leased' \in [Stages -> VMs \cup {NoVM}]
  BY TypeStep DEF TypeInv, TypeOK, Busy
<1>3. /\ \A v \in VMs : pooler[v] = "created" => cloud[v] = "running"
      /\ \A s \in Stages : setup[s] = "creating" => cloud[leased[s]] = "running"
      /\ \A v \in reported : Known(v)
      /\ \A r \in Reapers : \A v \in todo[r] : Known(v)
      /\ \A s \in Stages : destroyer[s] # "idle" => Known(target[s])
  BY DEF TrackInv
<1>4. \A v \in VMs : Known(v) \/ HasRow(v) => Known(v)'
  BY KnownStays, RowKnown
<1>5. \A v \in VMs : pooler'[v] = "created" => cloud'[v] = "running"
  BY <1>3, NewVMs
<1>6. \A s \in Stages : setup'[s] = "creating" => cloud'[leased'[s]] = "running"
  BY <1>2, <1>3, NewVMs
<1>7. \A v \in reported' : Known(v)'
  BY <1>1, <1>3, <1>4, OnlyReported DEF ForceDelete, Leaked
<1>8. ASSUME NEW r \in Reapers, NEW v \in todo'[r]
      PROVE  v \in VMs /\ (v \in todo[r] \/ HasRow(v))
  <2> DEFINE Batch(q, x) == /\ todo' = [todo EXCEPT ![q] = x]
                            /\ \A w \in x : w \in VMs /\ (w \in todo[q] \/ HasRow(w))
  <2>1. ASSUME NEW q \in Reapers, ReaperCrash(q) \/ ClaimError(q) \/ ReapDelete(q)
        PROVE  Batch(q, {})
    BY <2>1 DEF ReaperCrash, ClaimError, ReapDelete, Finish
  <2>2. ASSUME NEW q \in Reapers, ForceDelete(q) \/ ForceDeleteFails(q) \/ CleanClaimed(q)
        PROVE  UNCHANGED todo
    BY <2>2 DEF ForceDelete, ForceDeleteFails, CleanClaimed
  <2>3. ASSUME NEW q \in Reapers, PurgeClaim(q)
        PROVE  \E x : Batch(q, x)
    <3> DEFINE stale == {w \in VMs : Stale(w, job[q])}
    <3>1. Finish(q) => Batch(q, {})
      BY DEF Finish
    <3>2. \A w \in stale : HasRow(w)
      BY DEF Stale, HasRow
    <3>3. todo' = [todo EXCEPT ![q] = stale] => Batch(q, stale)
      BY <3>2
    <3>4. Finish(q) \/ todo' = [todo EXCEPT ![q] = stale]
      BY <2>3 DEF PurgeClaim
    <3> HIDE DEF Batch, stale
    <3> QED
      BY <3>1, <3>3, <3>4
  <2>4. ASSUME NEW q \in Reapers, NEW w \in VMs, CleanClaim(q, w) \/ ScaleClaim(q, w)
        PROVE  \E x : Batch(q, x)
    <3>1. HasRow(w)
      BY <2>4, ClaimWrites DEF HasRow
    <3>2. \/ todo' = [todo EXCEPT ![q] = todo[q] \cup {w}]
          \/ todo' = [todo EXCEPT ![q] = {w}]
      BY <2>4 DEF CleanClaim, ScaleClaim
    <3> QED
      BY <1>1, <3>1, <3>2
  <2>5. ASSUME NEW q \in Reapers, NEW w \in VMs, ReapDestroy(q, w) \/ ReapDestroyFail(q, w)
        PROVE  \E x : Batch(q, x)
    <3>1. \/ todo' = [todo EXCEPT ![q] = todo[q] \ {w}]
          \/ todo' = [todo EXCEPT ![q] = {}]
      BY <2>5 DEF ReapDestroy, ReapDestroyFail
    <3> QED
      BY <1>1, <3>1
  <2>6. UNCHANGED todo \/ \E q \in Reapers : \E x : Batch(q, x)
    <3> HIDE DEF Batch
    <3> QED
      BY <2>1, <2>2, <2>3, <2>4, <2>5, OnlyTodo DEF ReapStep
  <2> QED
    BY <1>1, <1>8, <2>6
<1>9. \A r \in Reapers : \A v \in todo'[r] : Known(v)'
  BY <1>3, <1>4, <1>8
<1>10. ASSUME NEW s \in Stages, destroyer'[s] # "idle"
       PROVE  \/ destroyer[s] # "idle" /\ target'[s] = target[s]
              \/ target'[s] \in VMs /\ HasRow(target'[s])
              \/ setup[s] = "ready" /\ target'[s] = leased[s]
  <2> DEFINE Goal == \/ destroyer[s] # "idle" /\ target'[s] = target[s]
                     \/ target'[s] \in VMs /\ HasRow(target'[s])
                     \/ setup[s] = "ready" /\ target'[s] = leased[s]
  <2>1. ASSUME NEW t \in Stages, DestroyFindInfo(t)
        PROVE  Goal
    BY <1>1, <1>10, <2>1 DEF DestroyFindInfo, DestroyerTo
  <2>2. ASSUME NEW t \in Stages, NEW v \in VMs, DestroyFindDB(t, v)
        PROVE  Goal
    BY <1>1, <1>10, <2>2 DEF DestroyFindDB, DestroyerTo, HasRow
  <2>3. ASSUME NEW t \in Stages, DestroyStep(t) \/ DestroyCrash(t)
        PROVE  Goal
    <3>1. /\ destroyer[t] # "idle"
          /\ \E pc : destroyer' = [destroyer EXCEPT ![t] = pc]
          /\ \/ target' = target
             \/ target' = [target EXCEPT ![t] = NoVM] /\ destroyer'[t] = "idle"
      BY <1>1, <2>3 DEF DestroyStep, DestroyCrash, DestroyMark, DestroyVM, DestroyDelete,
         DestroyUnown, DestroyerTo
    <3> QED
      BY <1>1, <1>10, <3>1
  <2> QED
    BY <1>1, <1>10, <2>1, <2>2, <2>3, OnlyDestroyer
<1>11. ASSUME NEW s \in Stages, setup[s] = "ready"
       PROVE  leased[s] \in VMs /\ Known(leased[s])
  <2>1. leased[s] \in VMs /\ leased[s] # NoVM
    BY <1>1, <1>11
  <2>2. pooler[leased[s]] # "created" /\ cloud[leased[s]] # "absent"
    BY <2>1 DEF LeaseInv, LeasedRow, Unborn
  <2>3. \A t \in Stages : leased[t] = leased[s] => setup[t] # "creating"
    BY <1>11, <2>1 DEF LeaseInv, SingleUse
  <2> QED
    BY <2>1, <2>2, <2>3 DEF Known
<1>12. ASSUME NEW s \in Stages, destroyer'[s] # "idle"
       PROVE  target'[s] \in VMs /\ (Known(target'[s]) \/ HasRow(target'[s]))
  BY <1>1, <1>3, <1>10, <1>11, <1>12
<1>13. \A s \in Stages : destroyer'[s] # "idle" => \E v \in VMs : v = target'[s] /\ Known(v)'
  BY <1>4, <1>12
<1> QED
  BY <1>5, <1>6, <1>7, <1>9, <1>13 DEF TrackInv, Known

-----------------------------------------------------------------------------
(* What VMLease makes of a change of rows, VMs and leases. *)

SameRows == \A v \in VMs : HasRow(v)' <=> HasRow(v)

(* Nothing that it sees. *)
LEMMA Unseen ==
  ASSUME SameRows, \A v \in VMs : fate'[v] = fate[v], UNCHANGED <<leased, reported>>
  PROVE  UNCHANGED Lease!vars
<1>1. fate' = fate
  BY DEF fate
<1>2. {v \in VMs : HasRow(v)}' = {v \in VMs : HasRow(v)}
  BY DEF SameRows
<1> QED
  BY <1>1, <1>2 DEF Lease!vars

(* The end of a VM. *)
LEMMA Ends ==
  ASSUME TypeInv, NEW v \in VMs, cloud[v] # "absent", DriverDestroy(v),
         SameRows, UNCHANGED <<leased, reported>>
  PROVE  Lease!Next \/ UNCHANGED Lease!vars
<1>1. cloud \in [VMs -> CloudState] /\ cloud' = [cloud EXCEPT ![v] = "gone"]
  BY DEF TypeInv, TypeOK, DriverDestroy
<1>2. CASE cloud[v] = "gone"
  <2>1. cloud' = cloud
    BY <1>1, <1>2
  <2> QED
    BY <2>1, Unseen DEF fate
<1>3. CASE cloud[v] # "gone"
  <2>1. fate[v] = "live" /\ fate' = [fate EXCEPT ![v] = "dead"]
    BY <1>1, <1>3 DEF fate, CloudState
  <2>2. {w \in VMs : HasRow(w)}' = {w \in VMs : HasRow(w)}
    BY DEF SameRows
  <2>3. Lease!Destroy(v)
    BY <2>1, <2>2 DEF Lease!Destroy
  <2> QED
    BY <2>3 DEF Lease!Next
<1> QED
  BY <1>2, <1>3

(* A row inserted. *)
LEMMA Tracks ==
  ASSUME TypeInv, NEW v \in VMs, cloud[v] = "running", ~HasRow(v), HasRow(v)', v \notin reported,
         \A w \in VMs : w # v => (HasRow(w)' <=> HasRow(w)), UNCHANGED <<cloud, leased, reported>>
  PROVE  Lease!Next
<1>1. fate[v] = "live" /\ fate' = fate
  BY DEF fate
<1>2. {w \in VMs : HasRow(w)}' = {w \in VMs : HasRow(w)} \cup {v}
  OBVIOUS
<1>3. Lease!Track(v)
  BY <1>1, <1>2 DEF Lease!Track
<1> QED
  BY <1>3 DEF Lease!Next

(* Rows deleted. *)
LEMMA Untracks ==
  ASSUME TypeInv, NEW givenUp \in SUBSET VMs, \A v \in givenUp : HasRow(v) /\ ~HasRow(v)',
         \A v \in VMs : HasRow(v)' => HasRow(v),
         \A v \in VMs \ givenUp : HasRow(v) /\ ~HasRow(v)' => cloud[v] = "gone",
         reported' = reported \cup givenUp, UNCHANGED <<cloud, leased>>
  PROVE  Lease!Next
<1> DEFINE gone == {v \in VMs \ givenUp : HasRow(v) /\ ~HasRow(v)'}
           tracked == {v \in VMs : HasRow(v)}
<1>1. fate' = fate /\ \A v \in gone : fate[v] = "dead"
  BY DEF fate
<1>2. tracked' = tracked \ (gone \cup givenUp) /\ gone \cup givenUp \subseteq tracked
  OBVIOUS
<1>3. Lease!Untrack(gone, givenUp)
  BY <1>1, <1>2 DEF Lease!Untrack
<1>4. gone \in SUBSET tracked /\ givenUp \in SUBSET tracked
  BY <1>2
<1> QED
  BY <1>3, <1>4 DEF Lease!Next

(* Rows of VMs that are gone. *)
LEMMA UntracksGone ==
  ASSUME TypeInv, \A v \in VMs : HasRow(v)' => HasRow(v),
         \A v \in VMs : HasRow(v) /\ ~HasRow(v)' => cloud[v] = "gone",
         UNCHANGED <<cloud, leased, reported>>
  PROVE  Lease!Next
<1> DEFINE none == {}
<1>1. /\ none \in SUBSET VMs /\ \A v \in none : HasRow(v) /\ ~HasRow(v)'
      /\ reported' = reported \cup none /\ VMs \ none = VMs
  OBVIOUS
<1> HIDE DEF none
<1> QED
  BY <1>1, Untracks

-----------------------------------------------------------------------------
(* Every step of the manager is a step of VMLease, or none. *)
LEMMA Implements ==
  ASSUME TypeInv, LeaseInv, RowInv, TrackInv, [Next]_vars
  PROVE  Lease!Next \/ UNCHANGED Lease!vars
<1> DEFINE Seen == Lease!Next \/ UNCHANGED Lease!vars
<1>1. /\ cloud \in [VMs -> CloudState] /\ leased \in [Stages -> VMs \cup {NoVM}]
      /\ target \in [Stages -> VMs \cup {NoVM}]
      /\ \A s \in Stages : setup[s] = "idle" <=> leased[s] = NoVM
      /\ \A s \in Stages : destroyer[s] # "idle" => target[s] # NoVM
      /\ rows \in [VMs -> Row] /\ \A r \in Reapers : todo[r] \subseteq VMs
  BY DEF TypeInv, TypeOK, Busy
<1>2. UNCHANGED rows => SameRows
  BY DEF SameRows, HasRow
<1>3. ASSUME NEW v \in VMs, DriverCreate(v)
      PROVE  fate[v] = "unborn" /\ fate' = [fate EXCEPT ![v] = "live"]
  BY <1>1, <1>3 DEF DriverCreate, fate
<1>4. UNCHANGED rows => {v \in VMs : HasRow(v)}' = {v \in VMs : HasRow(v)}
  BY DEF HasRow
<1>5. ASSUME NEW v \in VMs, SeedCreate(v)
      PROVE  Seen
  <2>1. DriverCreate(v) /\ UNCHANGED <<rows, leased, reported>>
    BY <1>5 DEF SeedCreate, PoolerOnly, setupVars, lossVars
  <2>2. Lease!CreateForPool(v)
    BY <1>3, <1>4, <2>1 DEF Lease!CreateForPool, Lease!Create
  <2> QED
    BY <2>2 DEF Lease!Next
<1>6. ASSUME NEW s \in Stages, NEW v \in VMs, CreateOnDemand(s, v)
      PROVE  Seen
  <2>1. /\ DriverCreate(v) /\ UNCHANGED <<rows, reported>>
        /\ leased[s] = NoVM /\ leased' = [leased EXCEPT ![s] = v]
    BY <1>1, <1>6 DEF CreateOnDemand, lossVars
  <2>2. \A t \in Stages : leased[t] # v
    BY <2>1 DEF DriverCreate, LeaseInv, Unborn
  <2>3. Lease!CreateForStage(s, v)
    BY <1>3, <1>4, <2>1, <2>2
       DEF Lease!CreateForStage, Lease!Create, Lease!LeaseTo, Lease!Unleased
  <2> QED
    BY <2>3 DEF Lease!Next
<1>7. ASSUME NEW s \in Stages, NEW v \in VMs, ClaimFree(s, v)
      PROVE  Seen
  <2>1. /\ leased[s] = NoVM /\ leased' = [leased EXCEPT ![s] = v]
        /\ UNCHANGED <<cloud, reported>>
    BY <1>1, <1>7 DEF ClaimFree, lossVars
  <2>2. OthersKept(v) /\ rows[v].state = "created" /\ rows'[v].state = "inuse"
    BY <1>7, ClaimWrites
  <2>3. \A t \in Stages : leased[t] # v
    BY <2>2, NoneAssumption DEF LeaseInv, LeasedNeverFree, FreeStates
  <2>4. {w \in VMs : HasRow(w)}' = {w \in VMs : HasRow(w)} /\ HasRow(v)
    BY <2>2 DEF OthersKept, HasRow
  <2>5. fate' = fate
    BY <2>1 DEF fate
  <2>6. Lease!LeaseTracked(s, v)
    BY <2>1, <2>3, <2>4, <2>5 DEF Lease!LeaseTracked, Lease!LeaseTo, Lease!Unleased
  <2> QED
    BY <2>6 DEF Lease!Next
<1>8. ASSUME NEW v \in VMs, DriverDestroy(v), cloud[v] # "absent",
             UNCHANGED <<rows, leased, reported>>
      PROVE  Seen
  BY <1>2, <1>8, Ends
<1>9. ASSUME UNCHANGED <<cloud, rows, leased, reported>>
      PROVE  Seen
  BY <1>2, <1>9, Unseen DEF fate
(* The insert succeeds, or the VM is destroyed, or it is dropped. *)
<1>10. ASSUME NEW v \in VMs, rows[v].state = "none", rows'[v].state # "none", OthersKept(v),
              cloud[v] = "running", v \notin reported, UNCHANGED <<cloud, leased, reported>>
       PROVE  Seen
  BY <1>10, Tracks DEF HasRow, OthersKept
<1>11. ASSUME NEW v \in VMs, SeedInsert(v)
       PROVE  Seen
  <2>1. /\ cloud[v] = "running" /\ v \notin reported /\ rows[v].state = "none"
        /\ UNCHANGED <<leased, reported>>
    BY <1>11 DEF SeedInsert, TrackInv, Known, LeaseInv, PoolerRow, PoolerOnly, setupVars
  <2>2. /\ OthersKept(v)
        /\ pooler'[v] = "waiting" => rows'[v].state = "provisioning"
    BY <1>11, Inserts
  <2>3. \/ UNCHANGED cloud /\ pooler'[v] = "waiting"
        \/ DriverDestroy(v) /\ UNCHANGED rows
        \/ UNCHANGED <<cloud, rows>>
    BY <1>11 DEF SeedInsert, PoolerTo, TypeInv, TypeOK
  <2> QED
    BY <1>8, <1>9, <1>10, <2>1, <2>2, <2>3
<1>12. ASSUME NEW s \in Stages, InsertOnDemand(s)
       PROVE  Seen
  <2> DEFINE v == leased[s]
  <2>1. v \in VMs /\ v # NoVM
    BY <1>1, <1>12 DEF InsertOnDemand
  <2>2. /\ cloud[v] = "running" /\ v \notin reported /\ rows[v].state = "none"
        /\ UNCHANGED <<leased, reported>>
    BY <1>12, <2>1 DEF InsertOnDemand, TrackInv, Known, LeaseInv, LeasedRow
  <2>3. /\ OthersKept(v)
        /\ setup'[s] = "provisioned" => rows'[v].state = "inuse"
    BY <1>12, Inserts
  <2>4. \/ UNCHANGED cloud /\ setup'[s] = "provisioned"
        \/ DriverDestroy(v) /\ UNCHANGED rows
        \/ UNCHANGED <<cloud, rows>>
    BY <1>12 DEF InsertOnDemand, SetupTo, TypeInv, TypeOK
  <2> HIDE DEF v
  <2> QED
    BY <1>8, <1>9, <1>10, <2>1, <2>2, <2>3, <2>4
(* The destroys. *)
<1>13. ASSUME NEW v \in VMs, SeedDestroy(v)
       PROVE  Seen
  <2>1. cloud[v] # "absent" /\ UNCHANGED <<rows, leased, reported>>
    BY <1>13 DEF SeedDestroy, LeaseInv, Unborn, PoolerOnly, setupVars, lossVars
  <2> QED
    BY <1>8, <1>9, <1>13, <2>1 DEF SeedDestroy
<1>14. ASSUME NEW s \in Stages, CleanupDestroy(s)
       PROVE  Seen
  <2>1. leased[s] \in VMs /\ leased[s] # NoVM
    BY <1>1, <1>14 DEF CleanupDestroy
  <2>2. cloud[leased[s]] # "absent" /\ UNCHANGED <<rows, leased, reported>>
    BY <1>14, <2>1 DEF CleanupDestroy, LeaseInv, Unborn, lossVars
  <2> QED
    BY <1>8, <1>9, <1>14, <2>1, <2>2 DEF CleanupDestroy
<1>15. ASSUME NEW s \in Stages, DestroyVM(s)
       PROVE  Seen
  <2>1. target[s] \in VMs /\ destroyer[s] # "idle"
    BY <1>1, <1>15 DEF DestroyVM
  <2>2. cloud[target[s]] # "absent" /\ UNCHANGED <<rows, leased, reported>>
    BY <1>15, <2>1 DEF DestroyVM, TrackInv, Known, DestroyOnly, setupVars, lossVars
  <2> QED
    BY <1>8, <1>9, <1>15, <2>1, <2>2 DEF DestroyVM
<1>16. ASSUME NEW r \in Reapers, NEW v \in VMs, ReapDestroy(r, v)
       PROVE  Seen
  <2>1. cloud[v] # "absent" /\ UNCHANGED <<rows, leased, reported>>
    BY <1>16 DEF ReapDestroy, TrackInv, Known, ReapOnly, setupVars
  <2> QED
    BY <1>8, <1>16, <2>1 DEF ReapDestroy
(* The deletes. *)
<1>17. ASSUME NEW v \in VMs, cloud[v] = "gone", Wrote(v, "none", NoStage),
              UNCHANGED <<cloud, leased, reported>>
       PROVE  Seen
  <2>1. \A w \in VMs : HasRow(w)' => HasRow(w)
    BY <1>17 DEF Wrote, OthersKept, HasRow
  <2>2. \A w \in VMs : HasRow(w) /\ ~HasRow(w)' => cloud[w] = "gone"
    BY <1>17 DEF Wrote, OthersKept, HasRow
  <2> QED
    BY <1>17, <2>1, <2>2, UntracksGone
<1>18. ASSUME NEW v \in VMs, SeedDelete(v)
       PROVE  Seen
  <2>1. cloud[v] = "gone" /\ UNCHANGED <<cloud, leased, reported>>
    BY <1>18 DEF SeedDelete, RowInv, PoolerOnly, setupVars, lossVars
  <2> QED
    BY <1>17, <1>18, <2>1, PoolerWrites
<1>19. ASSUME NEW s \in Stages, CleanupDelete(s)
       PROVE  Seen
  <2>1. /\ leased[s] \in VMs /\ cloud[leased[s]] = "gone"
        /\ UNCHANGED <<cloud, leased, reported>>
    BY <1>1, <1>19 DEF CleanupDelete, RowInv, lossVars
  <2> QED
    BY <1>17, <1>19, <2>1, SetupWrites
<1>20. ASSUME NEW s \in Stages, DestroyDelete(s)
       PROVE  Seen
  <2>1. /\ target[s] \in VMs /\ cloud[target[s]] = "gone"
        /\ UNCHANGED <<cloud, leased, reported>>
    BY <1>1, <1>20 DEF DestroyDelete, RowInv, DestroyOnly, setupVars, lossVars
  <2> QED
    BY <1>17, <1>20, <2>1, DestroyWrites
<1>21. ASSUME NEW r \in Reapers, ReapDelete(r)
       PROVE  Seen
  <2>1. /\ \A v \in success[r] : cloud[v] = "gone"
        /\ UNCHANGED <<cloud, leased, reported>>
    BY <1>21 DEF ReapDelete, RowInv, ReapOnly, setupVars
  <2>2. \A v \in VMs : rows'[v] = rows[v] \/ (v \in success[r] /\ rows'[v] = NoRow)
    BY <1>21 DEF ReapDelete
  <2>3. \A v \in VMs : HasRow(v)' => HasRow(v)
    BY <2>2 DEF HasRow, NoRow
  <2>4. \A v \in VMs : HasRow(v) /\ ~HasRow(v)' => cloud[v] = "gone"
    BY <2>1, <2>2 DEF HasRow
  <2> QED
    BY <2>1, <2>3, <2>4, UntracksGone
<1>22. ASSUME NEW r \in Reapers, ForceDelete(r)
       PROVE  Seen
  <2> DEFINE leaked == Leaked(job[r])
             givenUp == {v \in leaked : Live(v)}
  <2>1. /\ rows' = [v \in VMs |-> IF v \in leaked THEN NoRow ELSE rows[v]]
        /\ reported' = reported \cup givenUp
        /\ UNCHANGED <<cloud, leased>>
    BY <1>22 DEF ForceDelete, ReapOnly, setupVars
  <2>2. leaked \subseteq VMs /\ \A v \in leaked : HasRow(v) /\ cloud[v] # "absent"
    BY DEF Leaked, LeaseInv, Unborn, HasRow
  <2>3. \A v \in VMs : HasRow(v)' <=> HasRow(v) /\ v \notin leaked
    BY <2>1 DEF HasRow, NoRow
  <2>4. \A v \in leaked : v \in givenUp \/ cloud[v] = "gone"
    BY <1>1, <2>2 DEF Live, CloudState
  <2> HIDE DEF leaked
  <2>5. givenUp \in SUBSET VMs /\ \A v \in givenUp : HasRow(v) /\ ~HasRow(v)'
    BY <2>2, <2>3
  <2>6. \A v \in VMs \ givenUp : HasRow(v) /\ ~HasRow(v)' => cloud[v] = "gone"
    BY <2>3, <2>4
  <2> HIDE DEF givenUp
  <2> QED
    BY <2>1, <2>3, <2>5, <2>6, Untracks
(* The rest. *)
<1>23. ASSUME SameRows, UNCHANGED <<leased, reported>>,
              \/ UNCHANGED cloud
              \/ \E v \in VMs : HibernateVM(v)
              \/ \E s \in Stages : ResumeStart(s)
       PROVE  Seen
  <2>1. \A v \in VMs : fate'[v] = fate[v]
    BY <1>1, <1>23 DEF fate, HibernateVM, ResumeStart, Live, CloudState
  <2> QED
    BY <1>23, <2>1, Unseen
<1> HIDE DEF Seen
<1>24. Seen
  BY <1>5, <1>6, <1>7, <1>11, <1>12, <1>13, <1>14, <1>15, <1>16, <1>18, <1>19, <1>20, <1>21,
     <1>22, <1>23, OnlyCloud, OnlyRows, OnlyLeased, OnlyReported DEF SameRows
<1> QED
  BY <1>24 DEF Seen

(* Initially there are no VMs, and VMLease's state is its initial one. *)
LEMMA ImplementsInit == Init => Lease!Init /\ TrackInv
<1> SUFFICES ASSUME Init
             PROVE  Lease!Init /\ TrackInv
  OBVIOUS
<1>1. TrackInv
  BY DEF Init, TrackInv
<1>2. fate = [v \in VMs |-> "unborn"] /\ {v \in VMs : HasRow(v)} = {}
  BY DEF Init, fate, HasRow, NoRow
<1> QED
  BY <1>1, <1>2 DEF Init, Lease!Init

(* With a driver that names the instances it failed to destroy, the rows,  *)
(* copies and actors of the manager implement VMLease: a VM has one life   *)
(* and one stage, gets a row at most once, and no row is deleted while its *)
(* VM lives unless the VM is given up by name.                             *)
THEOREM ManagerImplementsLease ==
  ASSUME DriverReportsFailed PROVE Spec => LeaseSpec
<1>1. Init => TypeInv /\ LeaseInv /\ RowInv /\ TrackInv /\ Lease!Init
  BY InitInv, ImplementsInit
<1>2. TypeInv /\ LeaseInv /\ RowInv /\ TrackInv /\ [Next]_vars
        => TypeInv' /\ LeaseInv' /\ RowInv' /\ TrackInv'
  BY TypeStep, LeaseStep, RowStep, TrackStep
<1>3. TypeInv /\ LeaseInv /\ RowInv /\ TrackInv /\ [Next]_vars => [Lease!Next]_(Lease!vars)
  BY Implements
<1> QED
  BY <1>1, <1>2, <1>3, PTL DEF Spec, LeaseSpec, Lease!Spec

=============================================================================
