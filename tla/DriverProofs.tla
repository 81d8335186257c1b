---------------------------- MODULE DriverProofs ----------------------------
(***************************************************************************)
(* Theorems about Drivers for any number of concurrent calls, any set of   *)
(* scenarios and any configuration, proved with TLAPS.                     *)
(*                                                                         *)
(* Six of the drivers work a Destroy off as a batch.  What is the same for *)
(* them comes first: BatchInv, which says that an instance of a batch is   *)
(* still to be deleted, listed as failed, or gone, and that a call that is *)
(* over makes nothing.  Owned adds, for Google and Amazon, that somebody   *)
(* knows of every VM.  A step of a driver is then shown to do only what    *)
(* these allow one call, and BatchCombine and OwnedCombine carry that over *)
(* to all calls.  Nomad and the Mac host have invariants of their own.     *)
(***************************************************************************)
EXTENDS Drivers, FiniteSetTheorems, SequenceTheorems, WellFoundedInduction, TLAPS

-----------------------------------------------------------------------------
(* The resources a Destroy has to delete: the VM; on Azure every part. *)
Things == {r \in DOMAIN cloud : r.kind = "vm" \/ (scenario.driver = "azure" /\ r.kind # "group")}
GoneOf(i) == \A r \in Things : r.name = i.name /\ r.zone = i.zone => r \in abandoned

Batching(c) == "batch" \in DOMAIN call[c]
Creating(c) == call[c] # Idle /\ "batch" \notin DOMAIN call[c] /\ "field" \notin DOMAIN call[c]

(* The call that made instance i is over: it makes nothing any more. *)
Over(i) == i.name \in Callers /\ i.name \in made /\ ~Creating(i.name)

DeletePcs == {"terminate", "delete"}
BatchFields == {"pc", "todo", "batch", "at", "parts", "failed", "cleanup"}
Pending(c, i) == \/ i \in call[c].todo \/ i \in call[c].failed
                 \/ call[c].pc \in DeletePcs /\ i = call[c].at
Batch(c) == Batching(c) => /\ DOMAIN call[c] = BatchFields
                           /\ call[c].pc \in DeletePcs => call[c].at \in call[c].batch
                           /\ call[c].todo \subseteq call[c].batch
                           /\ \A i \in call[c].batch : Over(i) /\ (Pending(c, i) \/ GoneOf(i))

BatchInv ==
  /\ DOMAIN call = Callers
  /\ \A c \in Callers : Batch(c) /\ (Creating(c) => c \in made)
  /\ \A i \in HeldVMs : Over(i)
  /\ \A i \in destroyed : Over(i) /\ GoneOf(i)

(* What the step of a call may do.  It makes resources only for the call   *)
(* itself and only before that is over; it holds what it has made; what it *)
(* reports gone is the part of a batch that was worked off.                *)
BatchStep(c) ==
  /\ DOMAIN call' = Callers /\ \A d \in Callers \ {c} : call'[d] = call[d]
  /\ made \subseteq made' /\ abandoned \subseteq abandoned'
  /\ \A r \in Things' : r \in Things \/ (r.name = c /\ (Creating(c) \/ c \notin made))
  /\ Creating(c)' => (Creating(c) \/ c \notin made) /\ c \in made'
  /\ \A i \in HeldVMs' : i \in HeldVMs \/ (i.name = c /\ c \in made' /\ ~Creating(c)')
  /\ \A i \in destroyed' : \/ i \in destroyed
                           \/ /\ Batching(c) /\ i \in call[c].batch /\ i \notin call[c].failed
                              /\ call[c].pc = "next" /\ call[c].todo = {}
BatchMove(c) ==
  Batching(c)' => /\ DOMAIN call'[c] = BatchFields
                  /\ call'[c].pc \in DeletePcs => call'[c].at \in call'[c].batch
                  /\ call'[c].todo \subseteq call'[c].batch
                  /\ \A i \in call'[c].batch :
                       \/ i \in HeldVMs /\ i \in call'[c].todo
                       \/ /\ Batching(c) /\ i \in call[c].batch
                          /\ Pending(c, i) => Pending(c, i)' \/ GoneOf(i)'

(* What is gone stays gone: nothing is made for a call that is over. *)
LEMMA GoneStays ==
  ASSUME NEW c, NEW i, BatchStep(c), Over(i), GoneOf(i)
  PROVE  GoneOf(i)'
BY DEF BatchStep, Over, GoneOf

(* A call that made its instance and is over stays over, since a name is   *)
(* used once.                                                              *)
LEMMA OverStays ==
  ASSUME BatchInv, NEW c \in Callers, NEW i, BatchStep(c), Over(i)
  PROVE  Over(i)'
BY DEF BatchStep, Over, Creating

(* A step that does only what BatchStep allows and moves its own batch as  *)
(* BatchMove says keeps the invariant of all calls.                        *)
LEMMA BatchCombine ==
  ASSUME BatchInv, NEW c \in Callers, BatchStep(c), BatchMove(c)
  PROVE  BatchInv'
<1>1. \A d \in Callers : Creating(d)' => d \in made'
  BY DEF BatchInv, BatchStep, Creating
<1>2. \A i \in HeldVMs' : Over(i)'
  <2>1. \A i \in HeldVMs' : i \in HeldVMs \/ (i.name = c /\ c \in made' /\ ~Creating(c)')
    BY DEF BatchStep
  <2> QED
    BY <2>1, OverStays DEF BatchInv, Over
<1>3. \A i \in destroyed' : Over(i)' /\ GoneOf(i)'
  <2>1. ASSUME NEW i \in destroyed', i \notin destroyed
        PROVE  Over(i) /\ GoneOf(i)
    <3>1. /\ Batching(c) /\ i \in call[c].batch /\ i \notin call[c].failed
          /\ call[c].pc = "next" /\ call[c].todo = {}
      BY <2>1 DEF BatchStep
    <3> QED
      BY <3>1 DEF BatchInv, Batch, Pending, DeletePcs
  <2> QED
    BY <2>1, OverStays, GoneStays DEF BatchInv
<1>4. ASSUME NEW d \in Callers, Batching(d)'
      PROVE  Batch(d)'
  <2>1. CASE d # c
    <3>1. call'[d] = call[d] /\ Batching(d) /\ Batch(d)
      BY <1>4, <2>1 DEF BatchStep, Batching, BatchInv
    <3>2. \A i \in call[d].batch : (Pending(d, i) => Pending(d, i)') /\ (GoneOf(i) => GoneOf(i)') /\ Over(i)'
      BY <3>1, GoneStays, OverStays DEF Pending, Batch
    <3> QED
      BY <3>1, <3>2 DEF Batch
  <2>2. CASE d = c
    <3>1. \A i \in call'[c].batch : Over(i)'
      BY <1>4, <2>2, OverStays DEF BatchMove, BatchInv, Batch
    <3>2. \A i \in call'[c].batch : Pending(c, i)' \/ GoneOf(i)'
      BY <1>4, <2>2, GoneStays DEF BatchMove, BatchInv, Batch, Pending
    <3> QED
      BY <1>4, <2>2, <3>1, <3>2 DEF BatchMove, Batch
  <2> QED
    BY <2>1, <2>2
<1>5. \A d \in Callers : Batch(d)'
  BY <1>4 DEF Batch
<1>6. DOMAIN call' = Callers
  BY DEF BatchStep
<1> QED
  BY <1>1, <1>2, <1>3, <1>5, <1>6 DEF BatchInv

(* The moves of a batch. *)
LEMMA BatchTakes ==
  ASSUME BatchInv, NEW c \in Callers, Batching(c), call[c].pc = "next", NEW i \in call[c].todo, NEW pc \in DeletePcs,
         NEW parts, TakeInstance(c, i, pc, parts)
  PROVE  BatchMove(c) /\ ~Creating(c)'
<1>1. Batch(c) /\ DOMAIN call = Callers
  BY DEF BatchInv
<1>2. /\ DOMAIN call'[c] = BatchFields /\ call'[c].batch = call[c].batch
      /\ call'[c].pc = pc /\ call'[c].at = i /\ call'[c].failed = call[c].failed
      /\ call'[c].todo = call[c].todo \ {i}
  BY <1>1 DEF Batch, BatchFields, TakeInstance
<1> QED
  BY <1>1, <1>2 DEF Batch, BatchMove, Pending, Creating, BatchFields, DeletePcs

(* An instance is passed over, because it is gone or as a failed one. *)
LEMMA BatchSkips ==
  ASSUME BatchInv, NEW c \in Callers, Batching(c), call[c].pc = "next", NEW i \in call[c].todo, NEW failed,
         SkipInstance(c, i, failed), i \in failed \/ GoneOf(i)'
  PROVE  BatchMove(c) /\ ~Creating(c)'
<1>1. Batch(c) /\ DOMAIN call = Callers
  BY DEF BatchInv
<1>2. /\ DOMAIN call'[c] = BatchFields /\ call'[c].batch = call[c].batch
      /\ call'[c].pc = "next" /\ call'[c].failed = call[c].failed \cup failed
      /\ call'[c].todo = call[c].todo \ {i}
  BY <1>1 DEF Batch, BatchFields, SkipInstance
<1>3. ASSUME NEW j \in call[c].batch, Pending(c, j), ~GoneOf(j)'
      PROVE  Pending(c, j)'
  <2>1. CASE j = i
    <3>1. i \in failed
      BY <1>3, <2>1
    <3> QED
      BY <1>2, <2>1, <3>1 DEF Pending
  <2>2. CASE j # i
    BY <1>2, <1>3, <2>2 DEF Pending, DeletePcs
  <2> QED
    BY <2>1, <2>2
<1>4. ~Creating(c)'
  BY <1>2 DEF Creating, BatchFields
<1> QED
  BY <1>1, <1>2, <1>3, <1>4 DEF Batch, BatchMove, DeletePcs

(* The instance under way is finished: gone, or listed as failed. *)
LEMMA BatchNexts ==
  ASSUME BatchInv, NEW c \in Callers, Batching(c), NEW failed, NextInstance(c, failed),
         \A i : call[c].pc \in DeletePcs /\ i = call[c].at => i \in failed \/ GoneOf(i)'
  PROVE  BatchMove(c) /\ ~Creating(c)'
<1>1. Batch(c) /\ DOMAIN call = Callers
  BY DEF BatchInv
<1>2. /\ DOMAIN call'[c] = BatchFields /\ call'[c].batch = call[c].batch
      /\ call'[c].pc = "next" /\ call'[c].failed = call[c].failed \cup failed
      /\ call'[c].todo = call[c].todo
  BY <1>1 DEF Batch, BatchFields, NextInstance
<1>3. ASSUME NEW j \in call[c].batch, Pending(c, j), ~GoneOf(j)'
      PROVE  Pending(c, j)'
  <2>1. CASE call[c].pc \in DeletePcs /\ j = call[c].at
    <3>1. j \in failed
      BY <1>3, <2>1
    <3> QED
      BY <1>2, <3>1 DEF Pending
  <2>2. CASE ~(call[c].pc \in DeletePcs /\ j = call[c].at)
    BY <1>2, <1>3, <2>2 DEF Pending
  <2> QED
    BY <2>1, <2>2
<1>4. ~Creating(c)'
  BY <1>2 DEF Creating, BatchFields
<1> QED
  BY <1>1, <1>2, <1>3, <1>4 DEF Batch, BatchMove, DeletePcs

(* The instance is gone, and the call goes on to its storage. *)
LEMMA BatchGoes ==
  ASSUME BatchInv, NEW c \in Callers, Batching(c), NEW pc, pc \notin DeletePcs, Goto(c, pc),
         \A i : call[c].pc \in DeletePcs /\ i = call[c].at => GoneOf(i)'
  PROVE  BatchMove(c) /\ ~Creating(c)'
<1>1. Batch(c) /\ DOMAIN call = Callers
  BY DEF BatchInv
<1>2. /\ DOMAIN call'[c] = BatchFields /\ call'[c].batch = call[c].batch
      /\ call'[c].pc = pc /\ call'[c].failed = call[c].failed
      /\ call'[c].todo = call[c].todo
  BY <1>1 DEF Batch, BatchFields, Goto
<1> QED
  BY <1>1, <1>2 DEF Batch, BatchMove, Pending, Creating, BatchFields, DeletePcs

(* A Destroy starts with instances that are held. *)
LEMMA BatchBegins ==
  ASSUME BatchInv, NEW c \in Callers, NEW batch \in SUBSET HeldVMs, NEW cleanup,
         call' = [call EXCEPT ![c] = BatchCall(batch, cleanup)]
  PROVE  BatchMove(c) /\ ~Creating(c)'
BY DEF BatchInv, BatchMove, BatchCall, BatchFields, DeletePcs, Creating, Batching

(* The call returns. *)
LEMMA BatchReturns ==
  ASSUME BatchInv, NEW c \in Callers, Return(c)
  PROVE  BatchMove(c) /\ ~Creating(c)' /\ call'[c] = Idle
BY DEF BatchInv, BatchMove, Return, Idle, Creating, Batching

(* A step that makes nothing and reports nothing gone. *)
Calm(c) ==
  /\ \A d \in Callers \ {c} : call'[d] = call[d]
  /\ DOMAIN call' = DOMAIN call
  /\ UNCHANGED <<destroyed, held, made, scenario>> /\ abandoned \subseteq abandoned'
  /\ Things' \subseteq Things

(* Such a step does only what BatchStep allows. *)
LEMMA CalmStep ==
  ASSUME BatchInv, NEW c \in Callers, Calm(c), Creating(c)' => Creating(c)
  PROVE  BatchStep(c)
BY DEF BatchInv, Calm, BatchStep, HeldVMs

(* A Destroy reports gone what it has not listed as failed. *)
LEMMA BatchDoneStep ==
  ASSUME BatchInv, NEW c \in Callers, Batching(c), BatchDone(c), UNCHANGED scenario
  PROVE  BatchStep(c) /\ BatchMove(c)
<1>1. BatchMove(c) /\ ~Creating(c)'
  BY BatchReturns DEF BatchDone
<1>2. Things' = Things
  BY DEF BatchDone, Things
<1> QED
  BY <1>1, <1>2 DEF BatchInv, BatchDone, Return, Gone, BatchStep, HeldVMs

(* What a request to the provider does to the things. *)
LEMMA ThingsWith ==
  ASSUME NEW R, NEW a, cloud' = With(R, a), UNCHANGED scenario
  PROVE  \A r \in Things' : r \in Things \/ r \in R
BY DEF With, Things

(* A delete takes away what it names and nothing else. *)
LEMMA ThingsWithout ==
  ASSUME NEW R, cloud' = Without(R), UNCHANGED scenario
  PROVE  Things' = Things \ R
BY DEF Without, Things

(* Without a request to the provider they stay. *)
LEMMA ThingsSame ==
  ASSUME UNCHANGED <<cloud, scenario>>
  PROVE  Things' = Things
BY DEF Things

(* The disks of a VM are not among them, except on Azure. *)
LEMMA DisksNoThings ==
  ASSUME scenario.driver # "azure", NEW c, NEW ids, NEW zone, NEW a, UNCHANGED scenario,
         cloud' = With(Disks(c, ids, zone), a) \/ cloud' = Without(Disks(c, ids, zone))
  PROVE  Things' = Things
BY DEF With, Without, Things, Disks

(* The moves of a Create. *)
Frame(c) == DOMAIN call' = Callers /\ \A d \in Callers \ {c} : call'[d] = call[d]

(* A Create goes to its next request. *)
LEMMA CreateGoes ==
  ASSUME BatchInv, NEW c \in Callers, Creating(c), NEW pc, Goto(c, pc)
  PROVE  /\ Frame(c) /\ ~Batching(c)'
         /\ DOMAIN call'[c] = DOMAIN call[c]
         /\ "pc" \in DOMAIN call[c] => call'[c].pc = pc
BY DEF BatchInv, Frame, Creating, Batching, Goto

(* A call returns. *)
LEMMA Returns ==
  ASSUME BatchInv, NEW c \in Callers, Return(c)
  PROVE  Frame(c) /\ call'[c] = Idle /\ ~Batching(c)' /\ ~Creating(c)'
BY DEF BatchInv, Frame, Return, Idle, Batching, Creating

(* A step of a Create makes things only under its own name and holds them  *)
(* only when it is over.                                                   *)
LEMMA CreateStep ==
  ASSUME BatchInv, NEW c \in Callers, Creating(c), Frame(c), ~Batching(c)',
         UNCHANGED <<made, destroyed, scenario>>, abandoned \subseteq abandoned',
         \A r \in Things' : r \in Things \/ r.name = c,
         \A i \in HeldVMs' : i \in HeldVMs \/ (i.name = c /\ ~Creating(c)')
  PROVE  BatchStep(c) /\ BatchMove(c)
BY DEF BatchInv, Frame, BatchStep, BatchMove

(* So does its first step, which takes the name. *)
LEMMA FreshStep ==
  ASSUME BatchInv, NEW c \in Callers, Fresh(c), Frame(c), ~Batching(c)',
         UNCHANGED scenario, abandoned \subseteq abandoned',
         \A r \in Things' : r \in Things \/ r.name = c,
         HeldVMs' = HeldVMs
  PROVE  BatchStep(c) /\ BatchMove(c)
BY DEF BatchInv, Frame, BatchStep, BatchMove, Fresh

-----------------------------------------------------------------------------
(* Google and Amazon: who knows of a VM.  Its instance is held, or the call *)
(* that made it is still to return it or to delete it; or Amazon's Create   *)
(* left it when its context ended.                                          *)
MadePcs == {"poll", "attach", "get", "failed", "stockout"}
MakingZone(c) == IF scenario.driver = "amazon" THEN call[c].zone ELSE Head(call[c].cands).zone
Made(c) == c \in Callers /\ Creating(c) /\ call[c].pc \in MadePcs
Making(r) == Made(r.name) /\ r.zone = MakingZone(r.name)
Kept(r) == \E i \in HeldVMs : i.name = r.name /\ i.zone = r.zone
LeftVM(r) == scenario.driver = "amazon" /\ Unasked(r) \in abandoned
Owned == \A r \in Things : r \in abandoned \/ LeftVM(r) \/ Kept(r) \/ Making(r)

(* What the step of a call has to do for them. *)
Keeps(c) ==
  /\ \A r \in Things' : r \in Things \/ Making(r)'
  /\ \A r \in Things' : r.name = c /\ Making(r) => r \in abandoned' \/ LeftVM(r)' \/ Kept(r)' \/ Making(r)'
  /\ \A i \in HeldVMs : i \in HeldVMs' \/ GoneOf(i)

(* A step that keeps what concerns its own call keeps every VM known to    *)
(* someone.                                                                *)
LEMMA OwnedCombine ==
  ASSUME BatchInv, Owned, NEW c \in Callers, BatchStep(c), Keeps(c), UNCHANGED scenario
  PROVE  Owned'
<1> SUFFICES ASSUME NEW r \in Things', r \notin abandoned', ~LeftVM(r)', ~Making(r)'
             PROVE  Kept(r)'
  BY DEF Owned
<1>1. r \in Things /\ r \notin abandoned /\ ~LeftVM(r)
  BY DEF Keeps, BatchStep, LeftVM
<1>2. CASE Kept(r)
  BY <1>1, <1>2 DEF Kept, Keeps, GoneOf
<1>3. CASE Making(r) /\ r.name # c
  <2>1. Making(r)'
    BY <1>3 DEF Making, Made, MakingZone, Creating, BatchStep
  <2> QED
    BY <2>1
<1>4. CASE Making(r) /\ r.name = c
  BY <1>4 DEF Keeps
<1> QED
  BY <1>1, <1>2, <1>3, <1>4 DEF Owned

(* A call that has made nothing yet has nothing to keep. *)
LEMMA KeepsCalm ==
  ASSUME NEW c, ~Made(c), Things' \subseteq Things, HeldVMs \subseteq HeldVMs'
  PROVE  Keeps(c)
BY DEF Keeps, Making

(* What a Destroy lets go of is gone. *)
LEMMA KeepsDone ==
  ASSUME BatchInv, NEW c \in Callers, Batching(c), BatchDone(c), UNCHANGED scenario
  PROVE  Keeps(c)
<1>1. Things' = Things /\ ~Made(c)
  BY DEF BatchDone, Things, Made, Creating, Batching
<1>2. ASSUME NEW i \in HeldVMs, i \notin HeldVMs'
      PROVE  GoneOf(i)
  <2>1. i \in call[c].batch /\ i \notin call[c].failed
    BY <1>2 DEF BatchDone, Gone, HeldVMs
  <2> QED
    BY <2>1 DEF BatchInv, Batch, BatchDone, Pending, DeletePcs
<1> QED
  BY <1>1, <1>2 DEF Keeps, Making

(* A step of no call. *)
Same == Things' = Things /\ UNCHANGED <<abandoned, held, destroyed, call, made, scenario>>

(* It keeps the invariant of the calls. *)
LEMMA BatchSame ==
  ASSUME BatchInv, Same
  PROVE  BatchInv'
BY DEF BatchInv, Same, Batch, Batching, Creating, Over, Pending, GoneOf, HeldVMs

(* It keeps the VMs known. *)
LEMMA OwnedSame ==
  ASSUME Owned, Same
  PROVE  Owned'
BY DEF Owned, Same, LeftVM, Kept, Making, Made, MakingZone, Creating, HeldVMs

(* A request made outside a call, which makes no VM. *)
LEMMA IdleStep ==
  ASSUME BatchInv, NEW c \in Callers, call[c] = Idle, UNCHANGED <<call, destroyed, scenario>>, made \subseteq made',
         abandoned \subseteq abandoned', Things' \subseteq Things, HeldVMs' = HeldVMs
  PROVE  BatchStep(c) /\ BatchMove(c) /\ Keeps(c)
<1>1. ~Creating(c) /\ ~Creating(c)' /\ ~Batching(c)' /\ ~Made(c)
  BY DEF Creating, Batching, Made, Idle
<1>2. Keeps(c)
  BY <1>1, KeepsCalm
<1> QED
  BY <1>1, <1>2 DEF BatchInv, BatchStep, BatchMove

(* What NextInstance leaves of the call. *)
LEMMA NextEffect ==
  ASSUME NEW c \in Callers, DOMAIN call = Callers, DOMAIN call[c] = BatchFields, NEW failed, NextInstance(c, failed)
  PROVE  Frame(c) /\ DOMAIN call'[c] = BatchFields /\ call'[c].pc = "next" /\ call'[c].parts = {}
BY DEF Frame, NextInstance, BatchFields

(* A disk is a disk. *)
LEMMA DisksKind ==
  ASSUME NEW c, NEW ids, NEW zone
  PROVE  \A r \in Disks(c, ids, zone) : r.kind = "disk"
BY DEF Disks

-----------------------------------------------------------------------------
(* DigitalOcean. *)
DOCreatePcs == {"firewall", "add", "poll"}
DOBatchPcs == {"next", "delete"}
DOShape(c) == \/ call[c] = Idle
              \/ DOMAIN call[c] = {"pc"} /\ call[c].pc \in DOCreatePcs
              \/ DOMAIN call[c] = BatchFields /\ call[c].pc \in DOBatchPcs
DOThings == \A r \in Things : r = DigitalOcean!Droplet(r.name)
DOInv == BatchInv /\ (\A c \in Callers : DOShape(c)) /\ DOThings

(* The request a call is at tells which call it is. *)
LEMMA DOKind ==
  ASSUME NEW c \in Callers, DOShape(c)
  PROVE  /\ call[c].pc \in DOCreatePcs => Creating(c) /\ DOMAIN call[c] = {"pc"}
         /\ call[c].pc \in DOBatchPcs => Batching(c) /\ DOMAIN call[c] = BatchFields
BY DEF DOShape, Creating, Batching, Idle, BatchFields, DOCreatePcs, DOBatchPcs

(* The steps of a Create. *)
LEMMA DOCreates ==
  ASSUME DOInv, UNCHANGED scenario, scenario.driver = "digitalocean", NEW c \in Callers,
         \/ DigitalOcean!CreateDroplet(c) \/ DigitalOcean!GetFirewallID(c) \/ DigitalOcean!AddDroplets(c)
         \/ DigitalOcean!PollDroplet(c)
  PROVE  BatchStep(c) /\ BatchMove(c) /\ DOShape(c)' /\ DOThings'
<1>0. DOShape(c) /\ BatchInv /\ DOMAIN call = Callers /\ DOThings
  BY DEF BatchInv, DOInv
<1>1. CASE DigitalOcean!CreateDroplet(c)
  <2>1. /\ Fresh(c) /\ UNCHANGED <<abandoned, held>>
        /\ \/ /\ cloud' = With({DigitalOcean!Droplet(c)}, [firewall |-> FALSE])
              /\ call' = [call EXCEPT ![c] = [pc |-> "firewall"]]
           \/ UNCHANGED <<cloud, call>>
    BY <1>1 DEF DigitalOcean!CreateDroplet, DigitalOcean!Fresh, Fresh, DigitalOcean!Idle, Idle,
                DigitalOcean!Add, DigitalOcean!With, With
  <2>2. \A r \in Things' : r \in Things \/ r = DigitalOcean!Droplet(c)
    BY <2>1, ThingsWith, ThingsSame
  <2>3. DigitalOcean!Droplet(c).name = c
    BY DEF DigitalOcean!Droplet, DigitalOcean!Resource
  <2>4. Frame(c) /\ ~Batching(c)' /\ DOShape(c)'
    BY <1>0, <2>1 DEF Frame, Batching, DOShape, DOCreatePcs, Fresh, Idle
  <2>5. BatchStep(c) /\ BatchMove(c)
    BY <1>0, <2>1, <2>2, <2>3, <2>4, FreshStep DEF HeldVMs
  <2>6. DOThings'
    BY <1>0, <2>2, <2>3 DEF DOThings
  <2> QED
    BY <2>4, <2>5, <2>6
<1>2. CASE DigitalOcean!GetFirewallID(c)
  <2>1. /\ call[c].pc = "firewall" /\ UNCHANGED <<abandoned, held, made, destroyed>>
        /\ cloud' = With({DigitalOcean!Firewall}, "firewall") \/ UNCHANGED cloud
        /\ Goto(c, "add") \/ Return(c)
    BY <1>2 DEF DigitalOcean!GetFirewallID, DigitalOcean!Goto, Goto, DigitalOcean!Return, Return,
                DigitalOcean!Idle, Idle, DigitalOcean!With, With, DigitalOcean!Exists
  <2>2. Things' = Things
    BY <2>1, ThingsSame DEF Things, With, DigitalOcean!Firewall, DigitalOcean!Resource
  <2>3. Creating(c) /\ DOMAIN call[c] = {"pc"}
    BY <1>0, <2>1, DOKind DEF DOCreatePcs
  <2>4. Frame(c) /\ ~Batching(c)' /\ DOShape(c)'
    BY <1>0, <2>1, <2>3, CreateGoes, Returns DEF DOShape, DOCreatePcs
  <2>5. BatchStep(c) /\ BatchMove(c)
    BY <1>0, <2>1, <2>2, <2>3, <2>4, CreateStep DEF HeldVMs
  <2> QED
    BY <1>0, <2>2, <2>4, <2>5 DEF DOThings
<1>3. CASE DigitalOcean!AddDroplets(c)
  <2>1. /\ call[c].pc = "add" /\ UNCHANGED <<abandoned, held, made, destroyed>>
        /\ DOMAIN cloud' = DOMAIN cloud
        /\ Goto(c, "poll") \/ Return(c)
    BY <1>3 DEF DigitalOcean!AddDroplets, DigitalOcean!Goto, Goto, DigitalOcean!Return, Return,
                DigitalOcean!Idle, Idle
  <2>2. Things' = Things
    BY <2>1 DEF Things
  <2>3. Creating(c) /\ DOMAIN call[c] = {"pc"}
    BY <1>0, <2>1, DOKind DEF DOCreatePcs
  <2>4. Frame(c) /\ ~Batching(c)' /\ DOShape(c)'
    BY <1>0, <2>1, <2>3, CreateGoes, Returns DEF DOShape, DOCreatePcs
  <2>5. BatchStep(c) /\ BatchMove(c)
    BY <1>0, <2>1, <2>2, <2>3, <2>4, CreateStep DEF HeldVMs
  <2> QED
    BY <1>0, <2>2, <2>4, <2>5 DEF DOThings
<1>4. CASE DigitalOcean!PollDroplet(c)
  <2>1. /\ call[c].pc = "poll" /\ UNCHANGED <<cloud, abandoned, made, destroyed>> /\ Return(c)
        /\ \/ held' = held \cup {[what |-> "vm", name |-> c, zone |-> NoZone]}
           \/ UNCHANGED held
    BY <1>4 DEF DigitalOcean!PollDroplet, DigitalOcean!Return, Return, DigitalOcean!Idle, Idle
  <2>2. Things' = Things /\ \A i \in HeldVMs' : i \in HeldVMs \/ i.name = c
    BY <2>1, ThingsSame DEF HeldVMs
  <2>3. Creating(c)
    BY <1>0, <2>1, DOKind DEF DOCreatePcs
  <2>4. Frame(c) /\ ~Batching(c)' /\ DOShape(c)' /\ ~Creating(c)'
    BY <1>0, <2>1, <2>3, Returns DEF DOShape
  <2>5. BatchStep(c) /\ BatchMove(c)
    BY <1>0, <2>1, <2>2, <2>3, <2>4, CreateStep
  <2> QED
    BY <1>0, <2>2, <2>4, <2>5 DEF DOThings
<1> QED
  BY <1>1, <1>2, <1>3, <1>4

(* The steps of a Destroy: a droplet that is not found counts as gone. *)
LEMMA DODestroys ==
  ASSUME DOInv, UNCHANGED scenario, scenario.driver = "digitalocean", NEW c \in Callers,
         \/ DigitalOcean!DestroyBegin(c) \/ DigitalOcean!DestroyGet(c)
         \/ DigitalOcean!DestroyDelete(c) \/ DigitalOcean!DestroyReturn(c)
  PROVE  BatchStep(c) /\ BatchMove(c) /\ DOShape(c)' /\ DOThings'
<1>0. DOShape(c) /\ BatchInv /\ DOMAIN call = Callers /\ DOThings
  BY DEF BatchInv, DOInv
<1>1. CASE DigitalOcean!DestroyBegin(c)
  <2>1. /\ UNCHANGED <<cloud, abandoned, held, made, destroyed>>
        /\ \E batch \in SUBSET HeldVMs : call' = [call EXCEPT ![c] = BatchCall(batch, "none")]
    BY <1>1 DEF DigitalOcean!DestroyBegin, DigitalOcean!HeldVMs, HeldVMs, DigitalOcean!BatchCall, BatchCall
  <2>2. BatchMove(c) /\ ~Creating(c)'
    BY <1>0, <2>1, BatchBegins
  <2>3. Frame(c) /\ DOShape(c)' /\ Things' = Things
    BY <1>0, <2>1, ThingsSame DEF Frame, DOShape, BatchCall, BatchFields, DOBatchPcs
  <2>4. BatchStep(c)
    BY <1>0, <2>1, <2>2, <2>3, CalmStep DEF Calm, Frame
  <2> QED
    BY <1>0, <2>2, <2>3, <2>4 DEF DOThings
<1>2. CASE DigitalOcean!DestroyGet(c)
  <2>1. /\ UNCHANGED <<cloud, abandoned, held, made, destroyed>> /\ call[c].pc = "next"
        /\ \E i \in call[c].todo : TakeInstance(c, i, "delete", {}) \/ Return(c)
    BY <1>2 DEF DigitalOcean!DestroyGet, DigitalOcean!TakeInstance, TakeInstance, DigitalOcean!Return, Return,
                DigitalOcean!Idle, Idle
  <2>2. Batching(c) /\ DOMAIN call[c] = BatchFields
    BY <1>0, <2>1, DOKind DEF DOBatchPcs
  <2>3. BatchMove(c) /\ ~Creating(c)'
    BY <1>0, <2>1, <2>2, BatchTakes, BatchReturns DEF DeletePcs
  <2>4. Frame(c) /\ DOShape(c)' /\ Things' = Things
    BY <1>0, <2>1, <2>2, ThingsSame DEF Frame, DOShape, TakeInstance, Return, BatchFields, DOBatchPcs
  <2>5. BatchStep(c)
    BY <1>0, <2>1, <2>3, <2>4, CalmStep DEF Calm, Frame
  <2> QED
    BY <1>0, <2>3, <2>4, <2>5 DEF DOThings
<1>3. CASE DigitalOcean!DestroyDelete(c)
  <2>1. /\ UNCHANGED <<abandoned, held, made, destroyed>> /\ call[c].pc = "delete"
        /\ \/ cloud' = Without({DigitalOcean!Droplet(call[c].at.name)}) /\ NextInstance(c, {})
           \/ Return(c) /\ UNCHANGED cloud
    BY <1>3 DEF DigitalOcean!DestroyDelete, DigitalOcean!NextInstance, NextInstance, DigitalOcean!Return, Return,
                DigitalOcean!Idle, Idle, DigitalOcean!Deleted, DigitalOcean!Without, Without
  <2>2. Batching(c) /\ DOMAIN call[c] = BatchFields
    BY <1>0, <2>1, DOKind DEF DOBatchPcs
  <2>3. Things' \subseteq Things /\ DOThings'
    BY <1>0, <2>1, ThingsWithout, ThingsSame DEF DOThings
  <2>4. ASSUME NEW i, i = call[c].at, NextInstance(c, {}), ~Return(c)
        PROVE  GoneOf(i)'
    <3>1. Things' = Things \ {DigitalOcean!Droplet(i.name)}
      BY <2>1, <2>4, ThingsWithout
    <3> QED
      BY <1>0, <3>1 DEF GoneOf, DOThings
  <2>5. BatchMove(c) /\ ~Creating(c)'
    BY <1>0, <2>1, <2>2, <2>4, BatchNexts, BatchReturns
  <2>6. Frame(c) /\ DOShape(c)'
    BY <1>0, <2>1, <2>2 DEF Frame, DOShape, NextInstance, Return, BatchFields, DOBatchPcs
  <2>7. BatchStep(c)
    BY <1>0, <2>1, <2>3, <2>5, <2>6, CalmStep DEF Calm, Frame
  <2> QED
    BY <2>3, <2>5, <2>6, <2>7
<1>4. CASE DigitalOcean!DestroyReturn(c)
  <2>1. BatchDone(c) /\ call[c].pc = "next" /\ Return(c) /\ UNCHANGED cloud
    BY <1>4 DEF DigitalOcean!DestroyReturn, DigitalOcean!BatchDone, BatchDone, DigitalOcean!Gone, Gone,
                DigitalOcean!Return, Return, DigitalOcean!Idle, Idle
  <2>2. Batching(c)
    BY <1>0, <2>1, DOKind DEF DOBatchPcs
  <2>3. BatchStep(c) /\ BatchMove(c)
    BY <1>0, <2>1, <2>2, BatchDoneStep
  <2> QED
    BY <1>0, <2>1, <2>3, Returns, ThingsSame DEF DOShape, DOThings
<1> QED
  BY <1>1, <1>2, <1>3, <1>4

(* Every step of the driver keeps its invariant. *)
LEMMA DONext ==
  ASSUME DOInv, Of("digitalocean", DigitalOcean!Next)
  PROVE  DOInv'
<1>1. PICK c \in Callers : BatchStep(c) /\ BatchMove(c) /\ DOShape(c)' /\ DOThings'
  BY DOCreates, DODestroys DEF Of, DigitalOcean!Next
<1>2. \A d \in Callers : DOShape(d)'
  BY <1>1 DEF DOInv, BatchStep, DOShape
<1> QED
  BY <1>1, <1>2, BatchCombine DEF DOInv

-----------------------------------------------------------------------------
(* Anka and Anka Build. *)
MacCreatePcs == {"start", "script", "create", "find", "delete"}
MacShape(c) == \/ call[c] = Idle
               \/ Creating(c) /\ "pc" \in DOMAIN call[c] /\ call[c].pc \in MacCreatePcs
               \/ DOMAIN call[c] = BatchFields /\ call[c].pc = "next"
MacThings == \A r \in Things : r = Mac!VM(r.name, r.zone)
MacInv == BatchInv /\ (\A c \in Callers : MacShape(c)) /\ MacThings

(* The request a call is at tells which call it is. *)
LEMMA MacKind ==
  ASSUME NEW c \in Callers, MacShape(c)
  PROVE  /\ call[c].pc \in MacCreatePcs => Creating(c) /\ "pc" \in DOMAIN call[c]
         /\ call[c].pc = "next" => Batching(c) /\ DOMAIN call[c] = BatchFields
BY DEF MacShape, Batching, Idle, BatchFields, MacCreatePcs

(* A Create goes on, counting its retries. *)
LEMMA MacGoes ==
  ASSUME BatchInv, NEW c \in Callers, Creating(c), "pc" \in DOMAIN call[c], NEW x, NEW pc \in MacCreatePcs,
         \/ Goto(c, pc) \/ call' = [call EXCEPT ![c].pc = pc, ![c].retry = x]
         \/ call' = [call EXCEPT ![c].retry = x] /\ call[c].pc = pc
  PROVE  Frame(c) /\ ~Batching(c)' /\ MacShape(c)'
<1>1. Frame(c) /\ DOMAIN call = Callers
  BY DEF BatchInv, Frame, Goto
<1>2. "pc" \in DOMAIN call'[c] /\ call'[c].pc = pc /\ "batch" \notin DOMAIN call'[c] /\ "field" \notin DOMAIN call'[c]
  BY <1>1 DEF Creating, Goto
<1>3. call'[c] # Idle
  BY <1>2 DEF Idle, MacCreatePcs
<1> QED
  BY <1>1, <1>2, <1>3 DEF MacShape, Creating, Batching

(* The steps of a Create. *)
LEMMA MacCreates ==
  ASSUME MacInv, UNCHANGED scenario, scenario.driver \in {"anka", "ankabuild"}, NEW c \in Callers,
         \/ Mac!AnkaClone(c) \/ Mac!AnkaStart(c) \/ Mac!AnkaRunScript(c)
         \/ Mac!AnkaBuildCreate(c) \/ Mac!AnkaBuildFind(c) \/ Mac!AnkaBuildDelete(c)
  PROVE  BatchStep(c) /\ BatchMove(c) /\ MacShape(c)' /\ MacThings'
<1>0. MacShape(c) /\ BatchInv /\ DOMAIN call = Callers /\ MacThings
  BY DEF BatchInv, MacInv
<1>a. \A x : Mac!VM(c, x).name = c /\ Mac!VM(c, x).zone = x
  BY DEF Mac!VM, Mac!Resource
<1>b. \A x : Mac!Instance(c, x).name = c
  BY DEF Mac!Instance
<1>1. CASE Fresh(c)
  <2>1. /\ UNCHANGED <<abandoned, held>>
        /\ (\E a : cloud' = With({Mac!VM(c, 1)}, a)) \/ UNCHANGED cloud
        /\ \/ call' = [call EXCEPT ![c] = [pc |-> "start"]]
           \/ call' = [call EXCEPT ![c] = [pc |-> "create", retry |-> 0]]
           \/ UNCHANGED call
    BY <1>1 DEF Fresh, Mac!AnkaClone, Mac!AnkaStart, Mac!AnkaRunScript, Mac!AnkaBuildCreate, Mac!AnkaBuildFind, Mac!AnkaBuildDelete,
       Mac!Add, Mac!With, With, Mac!Goto, Goto, Mac!Return, Return, Mac!Idle, Idle
  <2>2. \A r \in Things' : r \in Things \/ r = Mac!VM(c, 1)
    BY <2>1, ThingsWith, ThingsSame
  <2>4. Frame(c) /\ ~Batching(c)' /\ MacShape(c)'
    BY <1>0, <1>1, <2>1 DEF Frame, Batching, MacShape, MacCreatePcs, Fresh, Creating, Idle
  <2>5. BatchStep(c) /\ BatchMove(c)
    BY <1>0, <1>1, <1>a, <2>1, <2>2, <2>4, FreshStep DEF HeldVMs
  <2>6. MacThings'
    BY <1>0, <1>a, <2>2 DEF MacThings
  <2> QED
    BY <2>4, <2>5, <2>6
<1>2. CASE ~Fresh(c)
  <2> DEFINE vm == Mac!VM(c, call[c].retry)
             Continues == \E x : \E pc \in MacCreatePcs :
                            \/ Goto(c, pc) \/ call' = [call EXCEPT ![c].pc = pc, ![c].retry = x]
                            \/ call' = [call EXCEPT ![c].retry = x] /\ call[c].pc = pc
  <2>1. call[c].pc \in MacCreatePcs
    BY <1>2 DEF Idle, Mac!Idle, Fresh, Mac!Fresh, Mac!AnkaClone, Mac!AnkaStart, Mac!AnkaRunScript, Mac!AnkaBuildCreate,
                Mac!AnkaBuildFind, Mac!AnkaBuildDelete, MacCreatePcs
  <2>2. UNCHANGED <<abandoned, made, destroyed>>
    BY <1>2 DEF Idle, Mac!Idle, Fresh, Mac!Fresh, Mac!AnkaClone, Mac!AnkaStart, Mac!AnkaRunScript, Mac!AnkaBuildCreate,
                Mac!AnkaBuildFind, Mac!AnkaBuildDelete
  <2>3. \/ \E a, x : cloud' = With({Mac!VM(c, x)}, a)
        \/ cloud' = Without({vm}) \/ UNCHANGED cloud
    BY <1>2 DEF Idle, Mac!Idle, Fresh, Mac!Fresh, Mac!AnkaClone, Mac!AnkaStart, Mac!AnkaRunScript, Mac!AnkaBuildCreate,
                Mac!AnkaBuildFind, Mac!AnkaBuildDelete, Mac!Add, Mac!With, With, Mac!Without, Without
  <2>4. /\ Continues \/ Return(c)
        /\ UNCHANGED held \/ (Return(c) /\ \E x : held' = held \cup {Mac!Instance(c, x)})
    BY <1>2 DEF Mac!Goto, Goto, Mac!Return, Return, Mac!Idle, Idle, Fresh, Mac!Fresh, Mac!AnkaClone, Mac!AnkaStart, Mac!AnkaRunScript, Mac!AnkaBuildCreate,
                Mac!AnkaBuildFind, Mac!AnkaBuildDelete, MacCreatePcs
  <2>5. \A r \in Things' : r \in Things \/ \E x : r = Mac!VM(c, x)
    <3>1. CASE \E a, x : cloud' = With({Mac!VM(c, x)}, a)
      <4>1. PICK a, x : cloud' = With({Mac!VM(c, x)}, a)
        BY <3>1
      <4>2. \A r \in Things' : r \in Things \/ r \in {Mac!VM(c, x)}
        BY <4>1, ThingsWith
      <4> QED
        BY <4>2
    <3>2. CASE cloud' = Without({vm}) \/ UNCHANGED cloud
      BY <3>2, ThingsWithout, ThingsSame
    <3> QED
      BY <2>3, <3>1, <3>2
  <2>6. Creating(c) /\ "pc" \in DOMAIN call[c]
    BY <1>0, <2>1, MacKind
  <2>7. Frame(c) /\ ~Batching(c)' /\ MacShape(c)'
    <3>1. CASE Continues
      <4>1. PICK x : \E pc \in MacCreatePcs :
               \/ Goto(c, pc) \/ call' = [call EXCEPT ![c].pc = pc, ![c].retry = x]
               \/ call' = [call EXCEPT ![c].retry = x] /\ call[c].pc = pc
        BY <3>1
      <4> QED
        BY <1>0, <2>6, <4>1, MacGoes
    <3>2. CASE Return(c)
      BY <1>0, <3>2, Returns DEF MacShape
    <3> QED
      BY <2>4, <3>1, <3>2
  <2>8. \A i \in HeldVMs' : i \in HeldVMs \/ (i.name = c /\ ~Creating(c)')
    BY <1>0, <1>b, <2>4, Returns DEF HeldVMs
  <2>9. BatchStep(c) /\ BatchMove(c)
    BY <1>0, <1>a, <2>2, <2>5, <2>6, <2>7, <2>8, CreateStep
  <2>10. MacThings'
    BY <1>0, <1>a, <2>5 DEF MacThings
  <2> QED
    BY <2>7, <2>9, <2>10
<1> QED
  BY <1>1, <1>2

(* The steps of a Destroy. *)
LEMMA MacDestroys ==
  ASSUME MacInv, UNCHANGED scenario, scenario.driver \in {"anka", "ankabuild"}, NEW c \in Callers,
         Mac!DestroyBegin(c) \/ Mac!DestroyVM(c) \/ Mac!DestroyReturn(c)
  PROVE  BatchStep(c) /\ BatchMove(c) /\ MacShape(c)' /\ MacThings'
<1>0. MacShape(c) /\ BatchInv /\ DOMAIN call = Callers /\ MacThings
  BY DEF BatchInv, MacInv
<1>1. CASE Mac!DestroyBegin(c)
  <2>1. /\ UNCHANGED <<cloud, abandoned, held, made, destroyed>>
        /\ \E batch \in SUBSET HeldVMs : call' = [call EXCEPT ![c] = BatchCall(batch, "none")]
    BY <1>1 DEF Mac!DestroyBegin, Mac!HeldVMs, HeldVMs, Mac!BatchCall, BatchCall
  <2>2. BatchMove(c) /\ ~Creating(c)'
    BY <1>0, <2>1, BatchBegins
  <2>3. Frame(c) /\ MacShape(c)' /\ Things' = Things
    BY <1>0, <2>1, ThingsSame DEF Frame, MacShape, BatchCall, BatchFields
  <2>4. BatchStep(c)
    BY <1>0, <2>1, <2>2, <2>3, CalmStep DEF Calm, Frame
  <2> QED
    BY <1>0, <2>2, <2>3, <2>4 DEF MacThings
<1>2. CASE Mac!DestroyVM(c)
  <2>1. /\ UNCHANGED <<abandoned, held, made, destroyed>> /\ call[c].pc = "next"
    BY <1>2 DEF Mac!DestroyVM, Mac!Deleted
  <2>2. PICK i \in call[c].todo :
          \/ cloud' = Without({Mac!VM(i.name, i.zone)}) /\ SkipInstance(c, i, {})
          \/ Return(c) /\ UNCHANGED cloud
    BY <1>2 DEF Mac!DestroyVM, Mac!SkipInstance, SkipInstance, Mac!Return, Return,
                Mac!Idle, Idle, Mac!Deleted, Mac!Without, Without
  <2>3. Batching(c) /\ DOMAIN call[c] = BatchFields
    BY <1>0, <2>1, MacKind
  <2>4. Things' \subseteq Things /\ MacThings'
    BY <1>0, <2>2, ThingsWithout, ThingsSame DEF MacThings
  <2>5. Return(c) \/ (SkipInstance(c, i, {}) /\ GoneOf(i)')
    <3>1. CASE cloud' = Without({Mac!VM(i.name, i.zone)}) /\ SkipInstance(c, i, {})
      <4>1. Things' = Things \ {Mac!VM(i.name, i.zone)}
        BY <3>1, ThingsWithout
      <4> QED
        BY <1>0, <3>1, <4>1 DEF GoneOf, MacThings
    <3> QED
      BY <2>2, <3>1
  <2>6. BatchMove(c) /\ ~Creating(c)'
    BY <1>0, <2>1, <2>3, <2>5, BatchSkips, BatchReturns
  <2>7. Frame(c) /\ MacShape(c)'
    BY <1>0, <2>1, <2>2, <2>3 DEF Frame, MacShape, SkipInstance, Return, BatchFields
  <2>8. BatchStep(c)
    BY <1>0, <2>1, <2>4, <2>6, <2>7, CalmStep DEF Calm, Frame
  <2> QED
    BY <2>4, <2>6, <2>7, <2>8
<1>3. CASE Mac!DestroyReturn(c)
  <2>1. BatchDone(c) /\ call[c].pc = "next" /\ Return(c) /\ UNCHANGED cloud
    BY <1>3 DEF Mac!DestroyReturn, Mac!BatchDone, BatchDone, Mac!Gone, Gone,
                Mac!Return, Return, Mac!Idle, Idle
  <2>2. Batching(c)
    BY <1>0, <2>1, MacKind
  <2>3. BatchStep(c) /\ BatchMove(c)
    BY <1>0, <2>1, <2>2, BatchDoneStep
  <2> QED
    BY <1>0, <2>1, <2>3, Returns, ThingsSame DEF MacShape, MacThings
<1> QED
  BY <1>1, <1>2, <1>3

(* Every step of the driver keeps its invariant. *)
LEMMA MacNext ==
  ASSUME MacInv, scenario.driver \in {"anka", "ankabuild"}, Mac!Next, UNCHANGED scenario
  PROVE  MacInv'
<1>1. PICK c \in Callers : BatchStep(c) /\ BatchMove(c) /\ MacShape(c)' /\ MacThings'
  <2>1. \A c \in Callers : ~(Mac!FusionBegin(c) \/ Mac!FusionFiles(c) \/ Mac!FusionStart(c) \/ Mac!FusionRunScript(c))
    BY DEF Mac!FusionBegin, Mac!FusionFiles, Mac!FusionStart, Mac!FusionRunScript, Mac!Hypervisor
  <2> QED
    BY <2>1, MacCreates, MacDestroys DEF Mac!Next
<1>2. \A d \in Callers : MacShape(d)'
  BY <1>1 DEF MacInv, BatchStep, MacShape, Creating
<1> QED
  BY <1>1, <1>2, BatchCombine DEF MacInv

-----------------------------------------------------------------------------
(* Azure. *)
AzureCreatePcs == {"network", "address", "interface", "vm", "extension"}
AzureBatchPcs == {"next", "delete"}
AzureShape(c) == \/ call[c] = Idle
                 \/ DOMAIN call[c] = {"pc"} /\ call[c].pc \in AzureCreatePcs
                 \/ DOMAIN call[c] = BatchFields /\ call[c].pc \in AzureBatchPcs
AzureThings == \A r \in Things : r.kind \in Azure!DestroyParts /\ r = Azure!Part(r.kind, r.name)
AzureDeleting(c) == Batching(c) /\ call[c].pc = "delete" =>
                      \A r \in Things : r.name = call[c].at.name => r.kind \in call[c].parts
AzureInv == BatchInv /\ AzureThings /\ \A c \in Callers : AzureShape(c) /\ AzureDeleting(c)

AzureStep(c) == BatchStep(c) /\ BatchMove(c) /\ AzureShape(c)' /\ AzureDeleting(c)' /\ AzureThings'

(* The request a call is at tells which call it is. *)
LEMMA AzureKind ==
  ASSUME NEW c \in Callers, AzureShape(c)
  PROVE  /\ call[c].pc \in AzureCreatePcs => Creating(c) /\ DOMAIN call[c] = {"pc"}
         /\ call[c].pc \in AzureBatchPcs => Batching(c) /\ DOMAIN call[c] = BatchFields
BY DEF AzureShape, Creating, Batching, Idle, BatchFields, AzureCreatePcs, AzureBatchPcs

(* A request of a Create: some of the parts R are made, or all of them. *)
LEMMA AzureMakes ==
  ASSUME AzureInv, UNCHANGED scenario, scenario.driver = "azure", NEW c \in Callers, NEW R,
         UNCHANGED cloud \/ cloud' = With(R, "azure"),
         \A r \in R : r = Azure!ResourceGroup \/ \E kind \in Azure!DestroyParts : r = Azure!Part(kind, c)
  PROVE  AzureThings' /\ \A r \in Things' : r \in Things \/ r.name = c
<1>1. \A r \in Things' : r \in Things \/ \E kind \in Azure!DestroyParts : r = Azure!Part(kind, c)
  <2>1. CASE UNCHANGED cloud
    BY <2>1, ThingsSame
  <2>2. CASE cloud' = With(R, "azure")
    <3>1. \A r \in Things' : r \in Things \/ r \in R
      BY <2>2, ThingsWith
    <3>2. \A r \in Things' : r # Azure!ResourceGroup
      BY DEF Things, Azure!ResourceGroup, Azure!Resource
    <3> QED
      BY <3>1, <3>2
  <2> QED
    BY <2>1, <2>2
<1>2. \A kind : Azure!Part(kind, c).kind = kind /\ Azure!Part(kind, c).name = c
  BY DEF Azure!Part, Azure!Resource
<1>3. Azure!DestroyParts' = Azure!DestroyParts
  BY DEF Azure!DestroyParts, Azure!PrivateIP, Azure!UseExistingNetwork
<1> QED
  BY <1>1, <1>2, <1>3 DEF AzureInv, AzureThings

(* Its effect on the call: on to the next request, or back. *)
LEMMA AzureCreateStep ==
  ASSUME AzureInv, UNCHANGED <<scenario, abandoned, made, destroyed>>, scenario.driver = "azure", NEW c \in Callers,
         call[c].pc \in AzureCreatePcs, NEW pc \in AzureCreatePcs, Goto(c, pc) \/ Return(c),
         AzureThings', \A r \in Things' : r \in Things \/ r.name = c,
         \A i \in HeldVMs' : i \in HeldVMs \/ (i.name = c /\ Return(c))
  PROVE  AzureStep(c)
<1>1. Creating(c) /\ DOMAIN call[c] = {"pc"}
  BY AzureKind DEF AzureInv
<1>2. Frame(c) /\ ~Batching(c)' /\ AzureShape(c)' /\ (Return(c) => ~Creating(c)')
  BY <1>1, CreateGoes, Returns DEF AzureInv, AzureShape
<1>3. BatchStep(c) /\ BatchMove(c)
  BY <1>1, <1>2, CreateStep DEF AzureInv
<1>4. AzureDeleting(c)'
  BY <1>2 DEF AzureDeleting
<1> QED
  BY <1>2, <1>3, <1>4 DEF AzureStep

(* The steps of a Create, which makes an instance part by part. *)
LEMMA AzureCreates ==
  ASSUME AzureInv, UNCHANGED scenario, scenario.driver = "azure", NEW c \in Callers,
         \/ Azure!CreateResourceGroup(c) \/ Azure!CreateNetwork(c) \/ Azure!CreateAddress(c)
         \/ Azure!CreateNetworkInterface(c) \/ Azure!CreateVM(c) \/ Azure!MapToInstance(c)
  PROVE  AzureStep(c)
<1>0. AzureShape(c) /\ BatchInv /\ DOMAIN call = Callers /\ AzureThings
  BY DEF BatchInv, AzureInv
<1>1. CASE Azure!CreateResourceGroup(c)
  <2>1. /\ Fresh(c) /\ UNCHANGED <<abandoned, held>>
        /\ UNCHANGED cloud \/ cloud' = With({Azure!ResourceGroup}, "azure")
        /\ call' = [call EXCEPT ![c] = [pc |-> "network"]] \/ Return(c)
    BY <1>1 DEF Azure!CreateResourceGroup, Azure!Fresh, Fresh, Azure!Idle, Idle, Azure!Make, Azure!With, With,
                Azure!Return, Return
  <2>2. AzureThings' /\ \A r \in Things' : r \in Things \/ r.name = c
    BY <2>1, AzureMakes
  <2>3. Frame(c) /\ ~Batching(c)' /\ AzureShape(c)'
    BY <1>0, <2>1 DEF Frame, Batching, AzureShape, AzureCreatePcs, Return, Idle
  <2>4. BatchStep(c) /\ BatchMove(c)
    BY <1>0, <2>1, <2>2, <2>3, FreshStep DEF HeldVMs
  <2> QED
    BY <2>2, <2>3, <2>4 DEF AzureStep, AzureDeleting
<1>2. CASE Azure!CreateNetwork(c)
  <2>1. /\ call[c].pc = "network" /\ UNCHANGED <<abandoned, held, made, destroyed>>
        /\ \/ UNCHANGED cloud
           \/ cloud' = With(IF Azure!UseExistingNetwork THEN {} ELSE {Azure!Part("vnet", c)}, "azure")
        /\ Goto(c, "address") \/ Return(c)
    BY <1>2 DEF Azure!CreateNetwork, Azure!Make, Azure!With, With, Azure!Return, Return, Azure!Idle, Idle,
                Azure!Goto, Goto
  <2>2. ~Azure!UseExistingNetwork => "vnet" \in Azure!DestroyParts
    BY DEF Azure!DestroyParts
  <2>3. AzureThings' /\ \A r \in Things' : r \in Things \/ r.name = c
    BY <2>1, <2>2, AzureMakes
  <2> QED
    BY <2>1, <2>3, AzureCreateStep DEF AzureCreatePcs, HeldVMs
<1>3. CASE Azure!CreateAddress(c)
  <2> DEFINE part == IF Azure!PrivateIP THEN "nic" ELSE "publicip"
             next == IF Azure!PrivateIP THEN "vm" ELSE "interface"
  <2>1. /\ call[c].pc = "address" /\ UNCHANGED <<abandoned, held, made, destroyed>>
        /\ UNCHANGED cloud \/ cloud' = With({Azure!Part(part, c)}, "azure")
        /\ Goto(c, next) \/ Return(c)
    BY <1>3 DEF Azure!CreateAddress, Azure!Make, Azure!With, With, Azure!Return, Return, Azure!Idle, Idle,
                Azure!Goto, Goto
  <2>2. part \in Azure!DestroyParts /\ next \in AzureCreatePcs
    BY DEF Azure!DestroyParts, AzureCreatePcs
  <2> HIDE DEF part, next
  <2>3. AzureThings' /\ \A r \in Things' : r \in Things \/ r.name = c
    BY <2>1, <2>2, AzureMakes
  <2> QED
    BY <2>1, <2>2, <2>3, AzureCreateStep DEF AzureCreatePcs, HeldVMs
<1>4. CASE Azure!CreateNetworkInterface(c)
  <2>1. /\ call[c].pc = "interface" /\ UNCHANGED <<abandoned, held, made, destroyed>>
        /\ UNCHANGED cloud \/ cloud' = With({Azure!Part("nic", c)}, "azure")
        /\ Goto(c, "vm") \/ Return(c)
    BY <1>4 DEF Azure!CreateNetworkInterface, Azure!Make, Azure!With, With, Azure!Return, Return, Azure!Idle, Idle,
                Azure!Goto, Goto
  <2>2. "nic" \in Azure!DestroyParts
    BY DEF Azure!DestroyParts
  <2>3. AzureThings' /\ \A r \in Things' : r \in Things \/ r.name = c
    BY <2>1, <2>2, AzureMakes
  <2> QED
    BY <2>1, <2>3, AzureCreateStep DEF AzureCreatePcs, HeldVMs
<1>5. CASE Azure!CreateVM(c)
  <2>1. /\ call[c].pc = "vm" /\ UNCHANGED <<abandoned, held, made, destroyed>>
        /\ UNCHANGED cloud \/ cloud' = With({Azure!Part("vm", c), Azure!Part("disk", c)}, "azure")
        /\ Goto(c, "extension") \/ Return(c)
    BY <1>5 DEF Azure!CreateVM, Azure!Make, Azure!With, With, Azure!Return, Return, Azure!Idle, Idle,
                Azure!Goto, Goto
  <2> DEFINE R == {Azure!Part("vm", c), Azure!Part("disk", c)}
  <2>2. \A r \in R : \E kind \in Azure!DestroyParts : r = Azure!Part(kind, c)
    BY DEF Azure!DestroyParts
  <2>3. AzureThings' /\ \A r \in Things' : r \in Things \/ r.name = c
    <3>1. UNCHANGED cloud \/ cloud' = With(R, "azure")
      BY <2>1
    <3> HIDE DEF R
    <3> QED
      BY <2>2, <3>1, AzureMakes
  <2> QED
    BY <2>1, <2>3, AzureCreateStep DEF AzureCreatePcs, HeldVMs
<1>6. CASE Azure!MapToInstance(c)
  <2>1. /\ call[c].pc = "extension" /\ UNCHANGED <<cloud, abandoned, made, destroyed>> /\ Return(c)
        /\ \/ held' = held \cup {[what |-> "vm", name |-> c, zone |-> NoZone, address |-> shared.ip]}
           \/ UNCHANGED held
    BY <1>6 DEF Azure!MapToInstance, Azure!Return, Return, Azure!Idle, Idle
  <2>2. AzureThings' /\ \A r \in Things' : r \in Things \/ r.name = c
    <3>1. Azure!DestroyParts' = Azure!DestroyParts
      BY DEF Azure!DestroyParts, Azure!PrivateIP, Azure!UseExistingNetwork
    <3> QED
      BY <1>0, <2>1, <3>1, ThingsSame DEF AzureThings
  <2>3. \A i \in HeldVMs' : i \in HeldVMs \/ i.name = c
    BY <2>1 DEF HeldVMs
  <2> QED
    BY <2>1, <2>2, <2>3, AzureCreateStep DEF AzureCreatePcs
<1> QED
  BY <1>1, <1>2, <1>3, <1>4, <1>5, <1>6

(* The steps of a Destroy, which deletes the parts in order and stops at   *)
(* the first failure.                                                      *)
LEMMA AzureDestroys ==
  ASSUME AzureInv, UNCHANGED scenario, scenario.driver = "azure", NEW c \in Callers,
         Azure!DestroyBegin(c) \/ Azure!DestroyNext(c) \/ Azure!DeletePart(c) \/ Azure!DestroyReturn(c)
  PROVE  AzureStep(c)
<1>0. AzureShape(c) /\ BatchInv /\ DOMAIN call = Callers /\ AzureThings /\ AzureDeleting(c)
  BY DEF BatchInv, AzureInv
<1>a. Azure!DestroyParts' = Azure!DestroyParts
  BY DEF Azure!DestroyParts, Azure!PrivateIP, Azure!UseExistingNetwork
<1>1. CASE Azure!DestroyBegin(c)
  <2>1. /\ UNCHANGED <<cloud, abandoned, held, made, destroyed>>
        /\ \E batch \in SUBSET HeldVMs : call' = [call EXCEPT ![c] = BatchCall(batch, "none")]
    BY <1>1 DEF Azure!DestroyBegin, Azure!HeldVMs, HeldVMs, Azure!BatchCall, BatchCall
  <2>2. BatchMove(c) /\ ~Creating(c)'
    BY <1>0, <2>1, BatchBegins
  <2>3. Frame(c) /\ AzureShape(c)' /\ Things' = Things /\ call'[c].pc = "next"
    BY <1>0, <2>1, ThingsSame DEF Frame, AzureShape, BatchCall, BatchFields, AzureBatchPcs
  <2>4. BatchStep(c)
    BY <1>0, <2>1, <2>2, <2>3, CalmStep DEF Calm, Frame
  <2> QED
    BY <1>0, <1>a, <2>2, <2>3, <2>4 DEF AzureStep, AzureThings, AzureDeleting
<1>2. CASE Azure!DestroyNext(c)
  <2>1. UNCHANGED <<cloud, abandoned, held, made, destroyed>> /\ call[c].pc = "next"
    BY <1>2 DEF Azure!DestroyNext
  <2>2. PICK i \in call[c].todo : TakeInstance(c, i, "delete", Azure!DestroyParts)
    BY <1>2 DEF Azure!DestroyNext, Azure!TakeInstance, TakeInstance
  <2>3. Batching(c) /\ DOMAIN call[c] = BatchFields
    BY <1>0, <2>1, AzureKind DEF AzureBatchPcs
  <2>4. BatchMove(c) /\ ~Creating(c)'
    BY <1>0, <2>1, <2>2, <2>3, BatchTakes DEF DeletePcs
  <2>5. Frame(c) /\ AzureShape(c)' /\ Things' = Things /\ call'[c].parts = Azure!DestroyParts
    BY <1>0, <2>1, <2>2, <2>3, ThingsSame DEF Frame, AzureShape, TakeInstance, BatchFields, AzureBatchPcs
  <2>6. BatchStep(c)
    BY <1>0, <2>1, <2>4, <2>5, CalmStep DEF Calm, Frame
  <2> QED
    BY <1>0, <1>a, <2>4, <2>5, <2>6 DEF AzureStep, AzureThings, AzureDeleting
<1>3. CASE Azure!DeletePart(c)
  <2>1. UNCHANGED <<abandoned, held, made, destroyed>> /\ call[c].pc = "delete"
    BY <1>3 DEF Azure!DeletePart
  <2>2. PICK kind \in call[c].parts :
          \/ /\ cloud' = Without({Azure!Part(kind, call[c].at.name)})
             /\ \/ call[c].parts = {kind} /\ NextInstance(c, {})
                \/ call' = [call EXCEPT ![c].parts = @ \ {kind}]
          \/ /\ UNCHANGED cloud \/ cloud' = Without({Azure!Part(kind, call[c].at.name)})
             /\ Return(c)
    BY <1>3 DEF Azure!DeletePart, Azure!Without, Without, Azure!NextInstance, NextInstance,
                Azure!Return, Return, Azure!Idle, Idle
  <2>3. Batching(c) /\ DOMAIN call[c] = BatchFields
    BY <1>0, <2>1, AzureKind DEF AzureBatchPcs
  <2>4. Things' \subseteq Things
    BY <2>2, ThingsWithout, ThingsSame
  <2>5. AzureThings'
    BY <1>0, <1>a, <2>4 DEF AzureThings
  <2>6. CASE Return(c)
    <3>1. BatchMove(c) /\ ~Creating(c)' /\ Frame(c) /\ AzureShape(c)' /\ AzureDeleting(c)'
      BY <1>0, <2>6, BatchReturns, Returns DEF AzureShape, AzureDeleting
    <3>2. BatchStep(c)
      BY <1>0, <2>1, <2>4, <3>1, CalmStep DEF Calm, Frame
    <3> QED
      BY <2>5, <3>1, <3>2 DEF AzureStep
  <2>7. CASE /\ cloud' = Without({Azure!Part(kind, call[c].at.name)})
             /\ call[c].parts = {kind} /\ NextInstance(c, {})
    <3>1. ASSUME NEW i, i = call[c].at
          PROVE  GoneOf(i)'
      <4>1. Things' = Things \ {Azure!Part(kind, i.name)}
        BY <2>7, <3>1, ThingsWithout
      <4>2. \A r \in Things : r.name = i.name => r = Azure!Part(kind, i.name)
        BY <1>0, <2>1, <2>3, <2>7, <3>1 DEF AzureDeleting, AzureThings
      <4> QED
        BY <4>1, <4>2 DEF GoneOf
    <3>2. BatchMove(c) /\ ~Creating(c)'
      BY <1>0, <2>3, <2>7, <3>1, BatchNexts
    <3>3. Frame(c) /\ AzureShape(c)' /\ call'[c].pc = "next"
      BY <1>0, <2>3, <2>7 DEF Frame, AzureShape, NextInstance, BatchFields, AzureBatchPcs
    <3>4. BatchStep(c)
      BY <1>0, <2>1, <2>4, <3>2, <3>3, CalmStep DEF Calm, Frame
    <3> QED
      BY <2>5, <3>2, <3>3, <3>4 DEF AzureStep, AzureDeleting
  <2>8. CASE /\ cloud' = Without({Azure!Part(kind, call[c].at.name)})
             /\ call' = [call EXCEPT ![c].parts = @ \ {kind}]
    <3>1. /\ Frame(c) /\ DOMAIN call'[c] = BatchFields /\ call'[c].pc = "delete"
          /\ call'[c].parts = call[c].parts \ {kind} /\ call'[c].at = call[c].at
          /\ call'[c].batch = call[c].batch /\ call'[c].todo = call[c].todo
          /\ call'[c].failed = call[c].failed
      BY <1>0, <2>1, <2>3, <2>8 DEF Frame, BatchFields
    <3>2. BatchMove(c) /\ ~Creating(c)' /\ AzureShape(c)'
      BY <1>0, <2>1, <2>3, <3>1
         DEF BatchInv, Batch, BatchMove, Pending, Creating, BatchFields, DeletePcs, AzureShape, AzureBatchPcs
    <3>3. BatchStep(c)
      BY <1>0, <2>1, <2>4, <3>1, <3>2, CalmStep DEF Calm, Frame
    <3>4. AzureDeleting(c)'
      <4>1. Things' = Things \ {Azure!Part(kind, call[c].at.name)}
        BY <2>8, ThingsWithout
      <4>2. \A r \in Things : r.name = call[c].at.name => r.kind \in call[c].parts
        BY <1>0, <2>1, <2>3 DEF AzureDeleting
      <4>3. \A r \in Things' : r.name = call[c].at.name => r.kind # kind
        BY <1>0, <4>1 DEF AzureThings
      <4> QED
        BY <2>4, <3>1, <4>2, <4>3 DEF AzureDeleting
    <3> QED
      BY <2>5, <3>2, <3>3, <3>4 DEF AzureStep
  <2> QED
    BY <2>2, <2>6, <2>7, <2>8
<1>4. CASE Azure!DestroyReturn(c)
  <2>1. BatchDone(c) /\ call[c].pc = "next" /\ Return(c) /\ UNCHANGED cloud
    BY <1>4 DEF Azure!DestroyReturn, Azure!BatchDone, BatchDone, Azure!Gone, Gone,
                Azure!Return, Return, Azure!Idle, Idle
  <2>2. Batching(c)
    BY <1>0, <2>1, AzureKind DEF AzureBatchPcs
  <2>3. BatchStep(c) /\ BatchMove(c)
    BY <1>0, <2>1, <2>2, BatchDoneStep
  <2>4. AzureShape(c)' /\ AzureDeleting(c)' /\ AzureThings'
    BY <1>0, <1>a, <2>1, Returns, ThingsSame DEF AzureShape, AzureDeleting, AzureThings
  <2> QED
    BY <2>3, <2>4 DEF AzureStep
<1> QED
  BY <1>1, <1>2, <1>3, <1>4

(* Every step of the driver keeps its invariant: the parts of an instance  *)
(* being destroyed are not made again, since its Create is over.           *)
LEMMA AzureNext ==
  ASSUME AzureInv, Of("azure", Azure!Next)
  PROVE  AzureInv'
<1>1. PICK c \in Callers : AzureStep(c)
  BY AzureCreates, AzureDestroys DEF Of, Azure!Next
<1>2. BatchInv'
  BY <1>1, BatchCombine DEF AzureStep, AzureInv
<1>3. ASSUME NEW d \in Callers, d # c
      PROVE  AzureShape(d)' /\ AzureDeleting(d)'
  <2>1. call'[d] = call[d] /\ \A r \in Things' : r \in Things \/ (r.name = c /\ (Creating(c) \/ c \notin made))
    BY <1>1, <1>3 DEF AzureStep, BatchStep
  <2>2. AzureShape(d) /\ AzureDeleting(d) /\ Batch(d)
    BY DEF AzureInv, BatchInv
  <2>3. AzureShape(d)'
    BY <2>1, <2>2 DEF AzureShape
  <2>4. ASSUME Batching(d)', call'[d].pc = "delete"
        PROVE  call[d].at.name # c \/ ~(Creating(c) \/ c \notin made)
    BY <2>1, <2>2, <2>4 DEF Batch, Batching, Over, DeletePcs
  <2> QED
    BY <2>1, <2>2, <2>3, <2>4 DEF AzureDeleting, Batching
<1> QED
  BY <1>1, <1>2, <1>3 DEF AzureStep, AzureInv

-----------------------------------------------------------------------------
(* Amazon. *)
AmazonCreatePcs == {"image", "group", "ingress", "check", "volumes", "run", "poll", "attach"}
AmazonBatchPcs == {"next", "terminate", "volumes of"}
AmazonShape(c) == \/ call[c] = Idle
                  \/ DOMAIN call[c] = {"pc", "zone", "disks"} /\ call[c].pc \in AmazonCreatePcs
                  \/ /\ DOMAIN call[c] = BatchFields /\ call[c].pc \in AmazonBatchPcs
                     /\ \A r \in call[c].parts : r.kind = "disk"
AmazonThings == \A r \in Things : r = Amazon!VM(r.name, r.zone)

(* The security group: there from the call that has seen it on, and with   *)
(* its rule from the call that has checked it on.                          *)
Group == Amazon!SecurityGroup
Ingress == Exists(Group) /\ cloud[Group].ingress
AmazonGroup(c) == /\ call[c].pc \in {"ingress", "check"} => Exists(Group)
                  /\ call[c].pc \in {"volumes", "run", "poll", "attach"} => Ingress
AmazonGroups == /\ "groups" \in DOMAIN shared /\ (shared.groups => Exists(Group))
                /\ Exists(Group) => "ingress" \in DOMAIN cloud[Group]
                /\ Things # {} => Ingress
AmazonInv == /\ BatchInv /\ Owned /\ AmazonThings /\ AmazonGroups
             /\ \A c \in Callers : AmazonShape(c) /\ AmazonGroup(c)

GroupSafe == (Exists(Group) => Exists(Group)') /\ (Ingress => Ingress')
GroupKept == (Exists(Group)' <=> Exists(Group)) /\ (Exists(Group) => cloud'[Group] = cloud[Group])
AmazonStep(c) == /\ BatchStep(c) /\ BatchMove(c) /\ Keeps(c)
                 /\ AmazonShape(c)' /\ AmazonGroup(c)' /\ AmazonThings' /\ AmazonGroups' /\ GroupSafe

(* The request a call is at tells which call it is. *)
LEMMA AmazonKind ==
  ASSUME NEW c \in Callers, AmazonShape(c)
  PROVE  /\ call[c].pc \in AmazonCreatePcs => Creating(c) /\ DOMAIN call[c] = {"pc", "zone", "disks"}
         /\ call[c].pc \in AmazonBatchPcs => /\ Batching(c) /\ DOMAIN call[c] = BatchFields
                                             /\ \A r \in call[c].parts : r.kind = "disk"
<1>1. AmazonCreatePcs \cap AmazonBatchPcs = {} /\ "idle" \notin AmazonCreatePcs \cup AmazonBatchPcs
  BY DEF AmazonCreatePcs, AmazonBatchPcs
<1>2. CASE call[c] = Idle
  BY <1>1, <1>2 DEF Idle
<1>3. CASE DOMAIN call[c] = {"pc", "zone", "disks"} /\ call[c].pc \in AmazonCreatePcs
  BY <1>1, <1>3 DEF Creating, Idle
<1>4. CASE /\ DOMAIN call[c] = BatchFields /\ call[c].pc \in AmazonBatchPcs
           /\ \A r \in call[c].parts : r.kind = "disk"
  BY <1>1, <1>4 DEF Batching, BatchFields
<1> QED
  BY <1>2, <1>3, <1>4 DEF AmazonShape

(* The group stays as it is. *)
LEMMA GroupKeeps ==
  ASSUME AmazonGroups, GroupKept, "groups" \in DOMAIN shared', shared'.groups => Exists(Group),
         Things' # {} => Ingress
  PROVE  AmazonGroups' /\ GroupSafe
BY DEF AmazonGroups, GroupKept, GroupSafe, Ingress, Group, Amazon!SecurityGroup, Amazon!Resource

(* Requests about anything else leave the group alone. *)
LEMMA GroupKeptWith ==
  ASSUME NEW R, NEW a, \A r \in R : r.kind # "group",
         cloud' = With(R, a) \/ cloud' = Without(R)
  PROVE  GroupKept
<1>1. Group.kind = "group" /\ Group' = Group
  BY DEF Group, Amazon!SecurityGroup, Amazon!Resource
<1> HIDE DEF Group
<1> QED
  BY <1>1 DEF GroupKept, With, Without, Exists

(* Without a request to the provider it stays. *)
LEMMA GroupSame ==
  ASSUME UNCHANGED cloud
  PROVE  GroupKept
BY DEF GroupKept, Exists, Group, Amazon!SecurityGroup, Amazon!Resource

(* The disks of a VM, in the terms of DriverCalls. *)
LEMMA AmazonDisks ==
  ASSUME NEW c, NEW ids, NEW zone
  PROVE  Amazon!Disks(c, ids, zone) = Disks(c, ids, zone)
BY DEF Amazon!Disks, Disks

(* The fields of a VM. *)
LEMMA AmazonVMParts ==
  ASSUME NEW c, NEW zone
  PROVE  Amazon!VM(c, zone).kind = "vm" /\ Amazon!VM(c, zone).name = c /\ Amazon!VM(c, zone).zone = zone
BY DEF Amazon!VM, Amazon!Resource

(* The requests of a Create up to the instance: no VM is touched. *)
LEMMA AmazonBefore ==
  ASSUME AmazonInv, UNCHANGED <<scenario, held, made, destroyed>>, scenario.driver = "amazon", NEW c \in Callers,
         call[c].pc \in AmazonCreatePcs, call[c].pc \notin MadePcs,
         NEW pc \in AmazonCreatePcs, Goto(c, pc) \/ Return(c),
         Things' = Things, abandoned \subseteq abandoned'
  PROVE  /\ BatchStep(c) /\ BatchMove(c) /\ Keeps(c) /\ AmazonShape(c)' /\ AmazonThings'
         /\ (Goto(c, pc) /\ call'[c].pc = pc) \/ call'[c] = Idle
<1>1. Creating(c) /\ DOMAIN call[c] = {"pc", "zone", "disks"} /\ ~Made(c)
  BY AmazonKind DEF AmazonInv, Made
<1>2. Frame(c) /\ ~Batching(c)' /\ AmazonShape(c)'
  BY <1>1, CreateGoes, Returns DEF AmazonInv, AmazonShape
<1>3. BatchStep(c) /\ BatchMove(c)
  BY <1>1, <1>2, CreateStep DEF AmazonInv, HeldVMs
<1>4. Keeps(c)
  BY <1>1, KeepsCalm DEF HeldVMs
<1>5. (Goto(c, pc) /\ call'[c].pc = pc) \/ call'[c] = Idle
  BY <1>1, CreateGoes, Returns DEF AmazonInv
<1> QED
  BY <1>2, <1>3, <1>4, <1>5 DEF AmazonInv, AmazonThings

(* An idle call claims nothing. *)
LEMMA AmazonIdle ==
  ASSUME NEW c, call'[c] = Idle
  PROVE  AmazonGroup(c)' /\ AmazonShape(c)'
BY DEF AmazonGroup, AmazonShape, Idle

(* The steps of a Create up to its volumes: the group is found or made,    *)
(* and its rule seen or added, before the instance is run.                 *)
LEMMA AmazonPrepares ==
  ASSUME AmazonInv, UNCHANGED scenario, scenario.driver = "amazon", NEW c \in Callers,
         \/ Amazon!CreateBegin(c) \/ Amazon!ResolveImage(c) \/ Amazon!LookupCreateSecurityGroup(c)
         \/ Amazon!AuthorizeIngress(c) \/ Amazon!CheckIngressRules(c) \/ Amazon!CreatePersistentDisks(c)
  PROVE  AmazonStep(c)
<1>0. /\ AmazonShape(c) /\ BatchInv /\ DOMAIN call = Callers /\ AmazonThings /\ AmazonGroup(c) /\ AmazonGroups
      /\ "groups" \in DOMAIN shared
  BY DEF BatchInv, AmazonInv, AmazonGroups
<1>a. Exists(Group) <=> Group \in DOMAIN cloud
  BY DEF Exists
<1>1. CASE Amazon!CreateBegin(c)
  <2>1. /\ Fresh(c) /\ UNCHANGED <<cloud, abandoned, held>>
        /\ shared' = shared \/ \E x : shared' = [shared EXCEPT !.zoneIndex = x]
        /\ \E zone, disks : call' = [call EXCEPT ![c] = [pc |-> "image", zone |-> zone, disks |-> disks]]
    BY <1>1 DEF Amazon!CreateBegin, Amazon!Fresh, Fresh, Amazon!Idle, Idle, Amazon!GetDynamicConfig
  <2>2. /\ Frame(c) /\ ~Batching(c)' /\ AmazonShape(c)' /\ AmazonGroup(c)' /\ Things' = Things /\ ~Made(c)
    BY <1>0, <2>1, ThingsSame DEF Frame, Batching, AmazonShape, AmazonCreatePcs, AmazonGroup, Fresh, Made, Creating
  <2>3. BatchStep(c) /\ BatchMove(c)
    BY <1>0, <2>1, <2>2, FreshStep DEF HeldVMs
  <2>4. Keeps(c)
    BY <2>1, <2>2, KeepsCalm DEF HeldVMs
  <2>5. GroupKept /\ "groups" \in DOMAIN shared' /\ shared'.groups = shared.groups
    BY <1>0, <2>1, GroupSame
  <2>6. AmazonGroups' /\ GroupSafe
    BY <1>0, <2>2, <2>5, GroupKeeps DEF AmazonGroups
  <2> QED
    BY <1>0, <2>2, <2>3, <2>4, <2>6 DEF AmazonStep, AmazonThings
<1>2. CASE Amazon!ResolveImage(c)
  <2>1. /\ call[c].pc = "image" /\ UNCHANGED <<cloud, abandoned, held, made, destroyed>>
        /\ shared' = shared \/ shared' = [shared EXCEPT !.ami = TRUE]
        /\ Goto(c, "group") \/ Return(c)
    BY <1>2 DEF Amazon!ResolveImage, Amazon!Goto, Goto, Amazon!Return, Return, Amazon!Idle, Idle
  <2>2. Things' = Things
    BY <2>1, ThingsSame
  <2>3. /\ BatchStep(c) /\ BatchMove(c) /\ Keeps(c) /\ AmazonShape(c)' /\ AmazonThings'
        /\ call'[c].pc = "group" \/ call'[c] = Idle
    BY <2>1, <2>2, AmazonBefore DEF AmazonCreatePcs, MadePcs
  <2>4. AmazonGroup(c)'
    BY <2>3, AmazonIdle DEF AmazonGroup
  <2>5. GroupKept /\ "groups" \in DOMAIN shared' /\ shared'.groups = shared.groups
    BY <1>0, <2>1, GroupSame
  <2>6. AmazonGroups' /\ GroupSafe
    BY <1>0, <2>2, <2>5, GroupKeeps DEF AmazonGroups
  <2> QED
    BY <2>3, <2>4, <2>6 DEF AmazonStep
<1>3. CASE Amazon!LookupCreateSecurityGroup(c)
  <2>1. /\ call[c].pc = "group" /\ UNCHANGED <<abandoned, held, made, destroyed>>
        /\ \/ shared.groups /\ Goto(c, "check") /\ UNCHANGED <<cloud, shared>>
           \/ /\ Exists(Group) /\ shared' = [shared EXCEPT !.groups = TRUE]
              /\ Goto(c, "check") /\ UNCHANGED cloud
           \/ Return(c) /\ UNCHANGED <<cloud, shared>>
           \/ /\ ~Exists(Group) /\ cloud' = With({Group}, [ingress |-> FALSE])
              /\ Goto(c, "ingress") /\ UNCHANGED shared
    BY <1>3 DEF Amazon!LookupCreateSecurityGroup, Amazon!Goto, Goto, Amazon!Return, Return, Amazon!Idle, Idle,
                Group, Amazon!Exists, Exists, Amazon!Add, Amazon!With, With
  <2>2. Things' = Things
    BY <2>1, ThingsSame DEF Things, With, Group, Amazon!SecurityGroup, Amazon!Resource
  <2>3. /\ BatchStep(c) /\ BatchMove(c) /\ Keeps(c) /\ AmazonShape(c)' /\ AmazonThings'
        /\ call'[c].pc \in {"check", "ingress"} \/ call'[c] = Idle
    BY <2>1, <2>2, AmazonBefore DEF AmazonCreatePcs, MadePcs
  <2>4. CASE UNCHANGED cloud
    <3>1. GroupKept /\ "groups" \in DOMAIN shared' /\ (shared'.groups => Exists(Group))
      BY <1>0, <2>1, <2>4, GroupSame DEF AmazonGroups
    <3>2. AmazonGroups' /\ GroupSafe
      BY <1>0, <2>2, <3>1, GroupKeeps DEF AmazonGroups
    <3>3. Exists(Group) \/ call'[c] = Idle
      BY <1>0, <2>1, <2>3, <2>4, Returns DEF AmazonGroups, Exists, With
    <3>4. AmazonGroup(c)'
      BY <2>3, <3>2, <3>3, AmazonIdle DEF AmazonGroup, GroupSafe
    <3> QED
      BY <2>3, <3>2, <3>4 DEF AmazonStep
  <2>5. CASE ~Exists(Group) /\ cloud' = With({Group}, [ingress |-> FALSE]) /\ UNCHANGED shared
    <3>1. Group' = Group
      BY DEF Group, Amazon!SecurityGroup, Amazon!Resource
    <3>2. Exists(Group)' /\ DOMAIN cloud'[Group] = {"ingress"} /\ ~Ingress
      BY <2>5, <3>1 DEF Exists, With, Ingress
    <3>3. AmazonGroups' /\ GroupSafe
      BY <1>0, <2>2, <2>5, <3>1, <3>2 DEF AmazonGroups, GroupSafe
    <3>4. AmazonGroup(c)'
      BY <2>3, <3>2, AmazonIdle DEF AmazonGroup
    <3> QED
      BY <2>3, <3>3, <3>4 DEF AmazonStep
  <2> QED
    BY <2>1, <2>4, <2>5
<1>4. CASE Amazon!AuthorizeIngress(c)
  <2>1. /\ call[c].pc = "ingress" /\ UNCHANGED <<abandoned, held, made, destroyed>>
        /\ \/ /\ cloud' = [cloud EXCEPT ![Group].ingress = TRUE]
              /\ shared' = [shared EXCEPT !.groups = TRUE] /\ Goto(c, "check")
           \/ Return(c) /\ UNCHANGED <<cloud, shared>>
    BY <1>4 DEF Amazon!AuthorizeIngress, Amazon!Goto, Goto, Amazon!Return, Return, Amazon!Idle, Idle, Group
  <2>2. Things' = Things
    BY <2>1 DEF Things
  <2>3. /\ BatchStep(c) /\ BatchMove(c) /\ Keeps(c) /\ AmazonShape(c)' /\ AmazonThings'
        /\ call'[c].pc = "check" \/ call'[c] = Idle
    BY <2>1, <2>2, AmazonBefore DEF AmazonCreatePcs, MadePcs
  <2>4. Group' = Group /\ Exists(Group) /\ "ingress" \in DOMAIN cloud[Group]
    BY <1>0, <2>1 DEF AmazonGroup, AmazonGroups, Group, Amazon!SecurityGroup, Amazon!Resource
  <2>5. Exists(Group)' /\ "ingress" \in DOMAIN cloud'[Group] /\ (Ingress => Ingress') /\ "groups" \in DOMAIN shared'
    BY <1>0, <2>1, <2>4 DEF Exists, Ingress
  <2>6. AmazonGroups' /\ GroupSafe
    BY <1>0, <2>2, <2>4, <2>5 DEF AmazonGroups, GroupSafe
  <2>7. AmazonGroup(c)'
    BY <2>3, <2>5, AmazonIdle DEF AmazonGroup
  <2> QED
    BY <2>3, <2>6, <2>7 DEF AmazonStep
<1>5. CASE Amazon!CheckIngressRules(c)
  <2>1. /\ call[c].pc = "check" /\ UNCHANGED <<cloud, abandoned, held, made, destroyed, shared>>
        /\ (cloud[Group].ingress /\ Goto(c, "volumes")) \/ Return(c)
    BY <1>5 DEF Amazon!CheckIngressRules, Amazon!Goto, Goto, Amazon!Return, Return, Amazon!Idle, Idle, Group
  <2>2. Things' = Things /\ GroupKept
    BY <2>1, ThingsSame, GroupSame
  <2>3. /\ BatchStep(c) /\ BatchMove(c) /\ Keeps(c) /\ AmazonShape(c)' /\ AmazonThings'
        /\ (cloud[Group].ingress /\ call'[c].pc = "volumes") \/ call'[c] = Idle
    BY <1>0, <2>1, <2>2, AmazonBefore, Returns DEF AmazonCreatePcs, MadePcs
  <2>4. AmazonGroups' /\ GroupSafe
    BY <1>0, <2>1, <2>2, GroupKeeps DEF AmazonGroups
  <2>5. AmazonGroup(c)'
    BY <1>0, <2>1, <2>3, <2>4, AmazonIdle DEF AmazonGroup, GroupSafe, Ingress
  <2> QED
    BY <2>3, <2>4, <2>5 DEF AmazonStep
<1>6. CASE Amazon!CreatePersistentDisks(c)
  <2>1. /\ call[c].pc = "volumes" /\ UNCHANGED <<held, made, destroyed, shared>>
        /\ abandoned \subseteq abandoned'
        /\ Goto(c, "run") \/ Return(c)
        /\ UNCHANGED cloud \/ \E some : cloud' = With(Disks(c, some, call[c].zone), [attached |-> FALSE])
    <3>1. /\ call[c].pc = "volumes" /\ UNCHANGED <<held, made, destroyed, shared>>
          /\ abandoned \subseteq abandoned'
          /\ Goto(c, "run") \/ Return(c)
      BY <1>6 DEF Amazon!CreatePersistentDisks, Amazon!Goto, Goto, Amazon!Return, Return, Amazon!Idle, Idle
    <3>2. UNCHANGED cloud \/ \E some : cloud' = Amazon!With(Amazon!Disks(c, some, call[c].zone), [attached |-> FALSE])
      BY <1>6 DEF Amazon!CreatePersistentDisks
    <3>3. UNCHANGED cloud \/ \E some : cloud' = With(Disks(c, some, call[c].zone), [attached |-> FALSE])
      BY <3>2, AmazonDisks DEF Amazon!With, With
    <3> QED
      BY <3>1, <3>3
  <2>2. Things' = Things
    BY <2>1, ThingsSame, DisksNoThings
  <2>3. GroupKept
    <3>1. CASE UNCHANGED cloud
      BY <3>1, GroupSame
    <3>2. CASE \E some : cloud' = With(Disks(c, some, call[c].zone), [attached |-> FALSE])
      BY <3>2, GroupKeptWith, DisksKind
    <3> QED
      BY <2>1, <3>1, <3>2
  <2>4. /\ BatchStep(c) /\ BatchMove(c) /\ Keeps(c) /\ AmazonShape(c)' /\ AmazonThings'
        /\ call'[c].pc = "run" \/ call'[c] = Idle
    BY <2>1, <2>2, AmazonBefore DEF AmazonCreatePcs, MadePcs
  <2>5. AmazonGroups' /\ GroupSafe
    BY <1>0, <2>1, <2>2, <2>3, GroupKeeps DEF AmazonGroups
  <2>6. AmazonGroup(c)'
    BY <1>0, <2>1, <2>4, <2>5, AmazonIdle DEF AmazonGroup, GroupSafe
  <2> QED
    BY <2>4, <2>5, <2>6 DEF AmazonStep
<1> QED
  BY <1>1, <1>2, <1>3, <1>4, <1>5, <1>6

(* The instance is run, polled and given its volumes: it belongs to the    *)
(* call from RunInstances on, in the zone the call runs it in.             *)
LEMMA AmazonRuns ==
  ASSUME AmazonInv, UNCHANGED scenario, scenario.driver = "amazon", NEW c \in Callers,
         Amazon!RunInstances(c) \/ Amazon!PollInstanceIPAddr(c) \/ Amazon!AttachVolumes(c)
  PROVE  AmazonStep(c)
<1> DEFINE vm == Amazon!VM(c, call[c].zone)
<1>0. /\ AmazonShape(c) /\ BatchInv /\ DOMAIN call = Callers /\ AmazonThings /\ AmazonGroup(c) /\ AmazonGroups
      /\ "groups" \in DOMAIN shared
  BY DEF BatchInv, AmazonInv, AmazonGroups
<1>a. vm.kind = "vm" /\ vm.name = c /\ vm.zone = call[c].zone
  BY AmazonVMParts
<1>b. call[c].pc \in {"run", "poll", "attach"} /\ UNCHANGED <<made, destroyed, shared>>
  BY DEF Amazon!RunInstances, Amazon!PollInstanceIPAddr, Amazon!AttachVolumes
<1>c. Creating(c) /\ DOMAIN call[c] = {"pc", "zone", "disks"} /\ Ingress
  BY <1>0, <1>b, AmazonKind DEF AmazonCreatePcs, AmazonGroup
<1>d. \A r \in Things : r.name = c /\ Making(r) => r = vm
  BY <1>0 DEF AmazonThings, Making, MakingZone
<1> HIDE DEF vm
<1>1. CASE Amazon!RunInstances(c)
  <2>1. /\ call[c].pc = "run" /\ UNCHANGED held
        /\ \/ cloud' = With({vm}, [status |-> "running"]) /\ Goto(c, "poll") /\ UNCHANGED abandoned
           \/ /\ UNCHANGED cloud \/ cloud' = Without(Disks(c, call[c].disks, call[c].zone))
              /\ abandoned \subseteq abandoned' /\ Return(c)
    BY <1>1, AmazonDisks DEF Amazon!RunInstances, Amazon!Goto, Goto, Amazon!Return, Return, Amazon!Idle, Idle, vm,
       Amazon!Add, Amazon!With, With, Amazon!BestEffort, Amazon!Deleted, Amazon!Abandon, Amazon!Without, Without
  <2>2. CASE cloud' = With({vm}, [status |-> "running"]) /\ Goto(c, "poll") /\ UNCHANGED abandoned
    <3>1. \A r \in Things' : r \in Things \/ r = vm
      BY <2>2, ThingsWith
    <3>2. /\ Frame(c) /\ ~Batching(c)' /\ DOMAIN call'[c] = {"pc", "zone", "disks"} /\ call'[c].pc = "poll"
          /\ call'[c].zone = call[c].zone
      BY <1>0, <1>c, <2>2, CreateGoes DEF Goto
    <3>3. Making(vm)' /\ AmazonShape(c)'
      <4>1. Creating(c)' /\ AmazonShape(c)'
        BY <3>2 DEF Creating, Idle, AmazonShape, AmazonCreatePcs
      <4>2. (Made(vm.name) /\ vm.zone = MakingZone(vm.name))'
        <5>1. vm' = Amazon!VM(c, call'[c].zone)
          BY DEF vm
        <5>2. vm'.name = c /\ vm'.zone = call'[c].zone
          BY <5>1, AmazonVMParts
        <5> QED
          BY <3>2, <4>1, <5>2 DEF Made, MakingZone, MadePcs
      <4> QED
        BY <4>1, <4>2 DEF Making
    <3>4. vm' = vm
      BY <3>2 DEF vm, Amazon!VM, Amazon!Resource
    <3>5. BatchStep(c) /\ BatchMove(c)
      BY <1>0, <1>a, <1>b, <1>c, <2>1, <2>2, <3>1, <3>2, CreateStep DEF HeldVMs
    <3>6. Keeps(c)
      <4>1. \A r \in Things' : r \in Things \/ Making(r)'
        BY <3>1, <3>3, <3>4
      <4>2. ~Made(c)
        BY <2>1 DEF Made, MadePcs
      <4> QED
        BY <2>1, <4>1, <4>2 DEF Keeps, Making, HeldVMs
    <3>7. AmazonThings'
      BY <1>0, <1>a, <3>1 DEF AmazonThings, vm
    <3>8. GroupKept
      BY <1>a, <2>2, GroupKeptWith
    <3>9. AmazonGroups' /\ GroupSafe
      BY <1>0, <1>b, <1>c, <3>8, GroupKeeps DEF AmazonGroups
    <3>10. AmazonGroup(c)'
      BY <1>c, <3>9 DEF AmazonGroup, GroupSafe, Ingress
    <3> QED
      BY <3>3, <3>5, <3>6, <3>7, <3>9, <3>10 DEF AmazonStep
  <2>3. CASE /\ UNCHANGED cloud \/ cloud' = Without(Disks(c, call[c].disks, call[c].zone))
             /\ abandoned \subseteq abandoned' /\ Return(c)
    <3>1. Things' = Things
      BY <2>3, ThingsSame, DisksNoThings
    <3>2. GroupKept
      BY <2>3, GroupKeptWith, GroupSame, DisksKind
    <3>3. /\ BatchStep(c) /\ BatchMove(c) /\ Keeps(c) /\ AmazonShape(c)' /\ AmazonThings'
      BY <1>b, <2>1, <2>3, <3>1, AmazonBefore DEF AmazonCreatePcs, MadePcs
    <3>4. AmazonGroups' /\ GroupSafe
      BY <1>0, <1>b, <3>1, <3>2, GroupKeeps DEF AmazonGroups
    <3>5. AmazonGroup(c)'
      BY <1>0, <2>3, AmazonIdle, Returns
    <3> QED
      BY <3>3, <3>4, <3>5 DEF AmazonStep
  <2> QED
    BY <2>1, <2>2, <2>3
<1>2. ASSUME call[c].pc \in {"poll", "attach"}, Return(c),
             \/ cloud' = Without({vm}) /\ UNCHANGED abandoned
             \/ UNCHANGED cloud /\ (vm \in DOMAIN cloud => vm \in abandoned') /\ abandoned \subseteq abandoned',
             UNCHANGED held
      PROVE  AmazonStep(c)
  <2>1. Frame(c) /\ ~Batching(c)' /\ AmazonShape(c)' /\ AmazonGroup(c)' /\ ~Creating(c)'
    BY <1>0, <1>2, Returns, AmazonIdle
  <2>2. Things' \subseteq Things /\ GroupKept /\ (vm \in Things' => vm \in abandoned')
    <3>1. CASE cloud' = Without({vm})
      BY <1>a, <3>1, ThingsWithout, GroupKeptWith
    <3>2. CASE UNCHANGED cloud /\ (vm \in DOMAIN cloud => vm \in abandoned')
      BY <3>2, ThingsSame, GroupSame DEF Things
    <3> QED
      BY <1>2, <3>1, <3>2
  <2>3. BatchStep(c) /\ BatchMove(c)
    BY <1>0, <1>b, <1>c, <1>2, <2>1, <2>2, CreateStep DEF HeldVMs
  <2>4. Keeps(c)
    BY <1>d, <1>2, <2>2 DEF Keeps, HeldVMs
  <2>5. AmazonGroups' /\ GroupSafe
    BY <1>0, <1>b, <1>c, <2>2, GroupKeeps DEF AmazonGroups
  <2> QED
    BY <1>0, <2>1, <2>2, <2>3, <2>4, <2>5 DEF AmazonStep, AmazonThings
<1>3. CASE Amazon!PollInstanceIPAddr(c)
  <2>1. /\ call[c].pc = "poll" /\ UNCHANGED held
        /\ \/ Goto(c, "attach") /\ UNCHANGED <<cloud, abandoned>>
           \/ /\ Return(c)
              /\ \/ cloud' = Without({vm}) /\ UNCHANGED abandoned
                 \/ /\ UNCHANGED cloud /\ (vm \in DOMAIN cloud => vm \in abandoned')
                    /\ abandoned \subseteq abandoned'
                 \/ /\ UNCHANGED cloud /\ Unasked(vm) \in abandoned'
                    /\ abandoned \subseteq abandoned'
    BY <1>3 DEF Amazon!LeaveBehind, Amazon!Unasked, Unasked, Amazon!PollInstanceIPAddr, Amazon!Goto, Goto, Amazon!Return, Return, Amazon!Idle, Idle, vm,
       Amazon!BestEffort, Amazon!Deleted, Amazon!Abandon, Amazon!Without, Without
  <2>2. CASE Goto(c, "attach") /\ UNCHANGED <<cloud, abandoned>>
    <3>1. Things' = Things /\ GroupKept
      BY <2>2, ThingsSame, GroupSame
    <3>2. /\ Frame(c) /\ ~Batching(c)' /\ DOMAIN call'[c] = {"pc", "zone", "disks"} /\ call'[c].pc = "attach"
          /\ call'[c].zone = call[c].zone
      BY <1>0, <1>c, <2>2, CreateGoes DEF Goto
    <3>3. Creating(c)' /\ AmazonShape(c)'
      BY <3>2 DEF Creating, Idle, AmazonShape, AmazonCreatePcs
    <3>4. BatchStep(c) /\ BatchMove(c)
      BY <1>0, <1>b, <1>c, <2>1, <2>2, <3>1, <3>2, CreateStep DEF HeldVMs
    <3>5. Keeps(c)
      BY <2>1, <3>1, <3>2, <3>3 DEF Keeps, HeldVMs, Making, Made, MakingZone, MadePcs
    <3>6. AmazonGroups' /\ GroupSafe
      BY <1>0, <1>b, <3>1, GroupKeeps DEF AmazonGroups
    <3>7. AmazonGroup(c)'
      BY <1>c, <3>6 DEF AmazonGroup, GroupSafe, Ingress
    <3> QED
      BY <1>0, <3>1, <3>3, <3>4, <3>5, <3>6, <3>7 DEF AmazonStep, AmazonThings
  <2>3. CASE /\ Return(c) /\ UNCHANGED cloud /\ Unasked(vm) \in abandoned'
             /\ abandoned \subseteq abandoned'
    <3>1. Frame(c) /\ ~Batching(c)' /\ AmazonShape(c)' /\ AmazonGroup(c)' /\ ~Creating(c)'
      BY <1>0, <2>3, Returns, AmazonIdle
    <3>2. Things' \subseteq Things /\ GroupKept
      BY <2>3, ThingsSame, GroupSame DEF Things
    <3>3. BatchStep(c) /\ BatchMove(c)
      BY <1>0, <1>b, <1>c, <2>1, <2>3, <3>1, <3>2, CreateStep DEF HeldVMs
    <3>4. ASSUME NEW r \in Things', r.name = c, Making(r)
          PROVE  LeftVM(r)'
      <4>1. r = vm
        BY <1>d, <2>1, <3>2, <3>4
      <4>2. Unasked(r) \in abandoned' /\ scenario'.driver = "amazon"
        BY <1>0, <2>3, <4>1
      <4> QED
        BY <4>2 DEF LeftVM, Unasked
    <3>5. Keeps(c)
      BY <2>1, <3>2, <3>4 DEF Keeps, HeldVMs
    <3>6. AmazonGroups' /\ GroupSafe
      BY <1>0, <1>b, <1>c, <3>2, GroupKeeps DEF AmazonGroups
    <3> QED
      BY <1>0, <3>1, <3>2, <3>3, <3>5, <3>6 DEF AmazonStep, AmazonThings
  <2> QED
    BY <1>2, <2>1, <2>2, <2>3
<1>4. CASE Amazon!AttachVolumes(c)
  <2> DEFINE i == [what |-> "vm", name |-> c, zone |-> call[c].zone, disks |-> call[c].disks]
  <2>1. /\ call[c].pc = "attach" /\ Return(c)
        /\ \/ /\ cloud' = With(Disks(c, call[c].disks, call[c].zone), [attached |-> TRUE])
              /\ held' = held \cup {i} /\ UNCHANGED abandoned
           \/ /\ UNCHANGED held
              /\ \/ cloud' = Without({vm}) /\ UNCHANGED abandoned
                 \/ /\ UNCHANGED cloud /\ (vm \in DOMAIN cloud => vm \in abandoned')
                    /\ abandoned \subseteq abandoned'
    BY <1>4, AmazonDisks DEF Amazon!AttachVolumes, Amazon!Return, Return, Amazon!Idle, Idle, vm,
       Amazon!BestEffort, Amazon!Deleted, Amazon!Abandon, Amazon!Without, Without, Amazon!With, With
  <2>2. CASE /\ cloud' = With(Disks(c, call[c].disks, call[c].zone), [attached |-> TRUE])
             /\ held' = held \cup {i} /\ UNCHANGED abandoned
    <3>1. Things' = Things /\ GroupKept
      BY <2>2, DisksNoThings, GroupKeptWith, DisksKind
    <3>2. Frame(c) /\ ~Batching(c)' /\ AmazonShape(c)' /\ AmazonGroup(c)' /\ ~Creating(c)'
      BY <1>0, <2>1, Returns, AmazonIdle
    <3>3. /\ HeldVMs' = HeldVMs \cup {i} /\ i.name = c /\ i.zone = call[c].zone
      BY <2>2 DEF HeldVMs
    <3> HIDE DEF i
    <3>4. BatchStep(c) /\ BatchMove(c)
      BY <1>0, <1>b, <1>c, <2>2, <3>1, <3>2, <3>3, CreateStep
    <3>5. Keeps(c)
      BY <1>a, <1>d, <3>1, <3>3 DEF Keeps, Kept
    <3>6. AmazonGroups' /\ GroupSafe
      BY <1>0, <1>b, <3>1, GroupKeeps DEF AmazonGroups
    <3> QED
      BY <1>0, <3>1, <3>2, <3>4, <3>5, <3>6 DEF AmazonStep, AmazonThings
  <2> QED
    BY <1>2, <2>1, <2>2
<1> QED
  BY <1>1, <1>3, <1>4

(* A step that only works the batch off. *)
LEMMA AmazonWorks ==
  ASSUME AmazonInv, NEW c \in Callers, BatchMove(c), ~Creating(c), ~Creating(c)', Frame(c),
         AmazonShape(c)', AmazonGroup(c)', Things' \subseteq Things, GroupKept,
         UNCHANGED <<abandoned, held, made, destroyed, shared, scenario>>
  PROVE  AmazonStep(c)
<1>1. BatchStep(c)
  BY CalmStep DEF Calm, Frame, AmazonInv, BatchInv
<1>2. Keeps(c)
  BY KeepsCalm DEF Made, HeldVMs
<1>3. AmazonGroups' /\ GroupSafe
  BY GroupKeeps DEF AmazonGroups, AmazonInv
<1> QED
  BY <1>1, <1>2, <1>3 DEF AmazonStep, AmazonThings, AmazonInv

(* TerminateInstances of one instance of a batch. *)
LEMMA AmazonTerminates ==
  ASSUME AmazonInv, UNCHANGED scenario, scenario.driver = "amazon", NEW c \in Callers, Amazon!TerminateInstances(c)
  PROVE  AmazonStep(c)
<1>0. AmazonShape(c) /\ BatchInv /\ DOMAIN call = Callers /\ AmazonThings
  BY DEF BatchInv, AmazonInv
<1>1. PICK i : i = call[c].at
  OBVIOUS
<1>2. PICK vm, detached : vm = Amazon!VM(i.name, i.zone) /\ detached = Disks(i.name, i.disks, i.zone)
  OBVIOUS
<1>3. /\ call[c].pc = "terminate" /\ UNCHANGED <<abandoned, held, made, destroyed, shared>>
      /\ \/ /\ cloud' = [r \in DOMAIN cloud \ {vm} |->
                           IF r \in detached THEN [attached |-> FALSE] ELSE cloud[r]]
            /\ NextInstance(c, {}) \/ Goto(c, "volumes of")
         \/ UNCHANGED cloud /\ NextInstance(c, {i})
  BY <1>1, <1>2, AmazonDisks DEF Amazon!TerminateInstances, Amazon!NextInstance, NextInstance, Amazon!Goto, Goto,
                                 Amazon!Refused
<1>4. Batching(c) /\ ~Creating(c) /\ DOMAIN call[c] = BatchFields /\ \A r \in call[c].parts : r.kind = "disk"
  BY <1>0, <1>3, AmazonKind DEF AmazonBatchPcs, Creating, Batching
<1>5. vm.kind = "vm" /\ \A r \in detached : r.kind = "disk"
  BY <1>2, AmazonVMParts, DisksKind
<1>6. GroupKept
  <2>1. Group.kind = "group" /\ Group' = Group
    BY DEF Group, Amazon!SecurityGroup, Amazon!Resource
  <2> QED
    BY <1>3, <1>5, <2>1 DEF GroupKept, Exists
<1>7. Things' \subseteq Things
  BY <1>3 DEF Things
<1>8. CASE /\ cloud' = [r \in DOMAIN cloud \ {vm} |->
                         IF r \in detached THEN [attached |-> FALSE] ELSE cloud[r]]
           /\ NextInstance(c, {}) \/ Goto(c, "volumes of")
  <2>1. vm \notin Things'
    BY <1>8 DEF Things
  <2>2. GoneOf(i)'
    BY <1>0, <1>2, <1>7, <2>1 DEF GoneOf, AmazonThings
  <2>3. BatchMove(c) /\ ~Creating(c)'
    BY <1>0, <1>1, <1>4, <1>8, <2>2, BatchNexts, BatchGoes DEF DeletePcs
  <2>4. /\ Frame(c) /\ DOMAIN call'[c] = BatchFields /\ call'[c].pc \in {"next", "volumes of"}
        /\ call'[c].parts \in {{}, call[c].parts}
    BY <1>0, <1>4, <1>8, NextEffect DEF Frame, Goto, BatchFields
  <2>5. AmazonShape(c)' /\ AmazonGroup(c)'
    BY <1>4, <2>4 DEF AmazonShape, AmazonBatchPcs, AmazonGroup
  <2> QED
    BY <1>3, <1>4, <1>6, <1>7, <2>3, <2>4, <2>5, AmazonWorks
<1>9. CASE UNCHANGED cloud /\ NextInstance(c, {i})
  <2>1. BatchMove(c) /\ ~Creating(c)'
    BY <1>0, <1>1, <1>4, <1>9, BatchNexts
  <2>2. Frame(c) /\ DOMAIN call'[c] = BatchFields /\ call'[c].pc = "next" /\ call'[c].parts = {}
    BY <1>0, <1>4, <1>9, NextEffect
  <2>3. AmazonShape(c)' /\ AmazonGroup(c)'
    BY <2>2 DEF AmazonShape, AmazonBatchPcs, AmazonGroup
  <2> QED
    BY <1>3, <1>4, <1>6, <1>7, <2>1, <2>2, <2>3, AmazonWorks
<1> QED
  BY <1>3, <1>8, <1>9

(* The volumes of an instance that is gone. *)
LEMMA AmazonCleansUp ==
  ASSUME AmazonInv, UNCHANGED scenario, scenario.driver = "amazon", NEW c \in Callers, Amazon!CleanupVolumes(c)
  PROVE  AmazonStep(c)
<1>0. AmazonShape(c) /\ BatchInv /\ DOMAIN call = Callers
  BY DEF BatchInv, AmazonInv
<1>1. call[c].pc = "volumes of" /\ UNCHANGED <<abandoned, held, made, destroyed, shared>>
  BY DEF Amazon!CleanupVolumes
<1>2. PICK some \in SUBSET call[c].parts : cloud' = Without(some) /\ \E failed : NextInstance(c, failed)
  BY DEF Amazon!CleanupVolumes, Amazon!Without, Without, Amazon!NextInstance, NextInstance
<1>3. Batching(c) /\ ~Creating(c) /\ DOMAIN call[c] = BatchFields /\ \A r \in call[c].parts : r.kind = "disk"
  BY <1>0, <1>1, AmazonKind DEF AmazonBatchPcs, Creating, Batching
<1>4. Things' \subseteq Things /\ GroupKept
  BY <1>2, <1>3, ThingsWithout, GroupKeptWith
<1>5. BatchMove(c) /\ ~Creating(c)'
  BY <1>0, <1>1, <1>2, <1>3, BatchNexts DEF DeletePcs
<1>6. Frame(c) /\ DOMAIN call'[c] = BatchFields /\ call'[c].pc = "next" /\ call'[c].parts = {}
  BY <1>0, <1>2, <1>3, NextEffect
<1>7. AmazonShape(c)' /\ AmazonGroup(c)'
  BY <1>6 DEF AmazonShape, AmazonBatchPcs, AmazonGroup
<1> QED
  BY <1>1, <1>3, <1>4, <1>5, <1>6, <1>7, AmazonWorks

(* A Destroy starts. *)
LEMMA AmazonBegins ==
  ASSUME AmazonInv, UNCHANGED scenario, scenario.driver = "amazon", NEW c \in Callers, Amazon!DestroyBegin(c)
  PROVE  AmazonStep(c)
<1>0. BatchInv /\ DOMAIN call = Callers
  BY DEF BatchInv, AmazonInv
<1>1. /\ call[c] = Idle /\ UNCHANGED <<cloud, abandoned, held, made, destroyed, shared>>
      /\ \E batch \in SUBSET HeldVMs : \E cleanup : call' = [call EXCEPT ![c] = BatchCall(batch, cleanup)]
  BY DEF Amazon!DestroyBegin, Amazon!HeldVMs, HeldVMs, Amazon!BatchCall, BatchCall, Amazon!Idle, Idle
<1>2. BatchMove(c) /\ ~Creating(c)' /\ ~Creating(c)
  BY <1>0, <1>1, BatchBegins DEF Creating
<1>3. Frame(c) /\ AmazonShape(c)' /\ AmazonGroup(c)'
  BY <1>0, <1>1 DEF Frame, AmazonShape, AmazonGroup, BatchCall, BatchFields, AmazonBatchPcs
<1>4. Things' = Things /\ GroupKept
  BY <1>1, ThingsSame, GroupSame
<1> QED
  BY <1>1, <1>2, <1>3, <1>4, AmazonWorks

(* The next instance of a batch. *)
LEMMA AmazonFinds ==
  ASSUME AmazonInv, UNCHANGED scenario, scenario.driver = "amazon", NEW c \in Callers, Amazon!FindPersistentVolumes(c)
  PROVE  AmazonStep(c)
<1>0. AmazonShape(c) /\ BatchInv /\ DOMAIN call = Callers
  BY DEF BatchInv, AmazonInv
<1>1. UNCHANGED <<cloud, abandoned, held, made, destroyed, shared>> /\ call[c].pc = "next"
  BY DEF Amazon!FindPersistentVolumes
<1>2. PICK i \in call[c].todo : \E parts \in SUBSET Disks(i.name, i.disks, i.zone) :
        TakeInstance(c, i, "terminate", parts) \/ SkipInstance(c, i, {i})
  BY AmazonDisks DEF Amazon!FindPersistentVolumes, Amazon!TakeInstance, TakeInstance,
                     Amazon!SkipInstance, SkipInstance
<1>3. PICK parts \in SUBSET Disks(i.name, i.disks, i.zone) :
        TakeInstance(c, i, "terminate", parts) \/ SkipInstance(c, i, {i})
  BY <1>2
<1>4. Batching(c) /\ ~Creating(c) /\ DOMAIN call[c] = BatchFields /\ \A r \in call[c].parts : r.kind = "disk"
  BY <1>0, <1>1, AmazonKind DEF AmazonBatchPcs, Creating, Batching
<1>5. BatchMove(c) /\ ~Creating(c)'
  BY <1>0, <1>1, <1>3, <1>4, BatchTakes, BatchSkips DEF DeletePcs
<1>6. /\ Frame(c) /\ DOMAIN call'[c] = BatchFields /\ call'[c].pc \in {"next", "terminate"}
      /\ call'[c].parts \in {parts, call[c].parts}
  BY <1>0, <1>1, <1>3, <1>4 DEF Frame, TakeInstance, SkipInstance, BatchFields
<1>7. \A r \in parts : r.kind = "disk"
  BY DisksKind
<1>8. AmazonShape(c)' /\ AmazonGroup(c)'
  BY <1>4, <1>6, <1>7 DEF AmazonShape, AmazonBatchPcs, AmazonGroup
<1>9. Things' = Things /\ GroupKept
  BY <1>1, ThingsSame, GroupSame
<1> QED
  BY <1>1, <1>4, <1>5, <1>6, <1>8, <1>9, AmazonWorks

(* A Destroy returns. *)
LEMMA AmazonReturns ==
  ASSUME AmazonInv, UNCHANGED scenario, scenario.driver = "amazon", NEW c \in Callers, Amazon!DestroyReturn(c)
  PROVE  AmazonStep(c)
<1>0. AmazonShape(c) /\ BatchInv /\ AmazonThings /\ AmazonGroups
  BY DEF AmazonInv
<1>1. BatchDone(c) /\ call[c].pc = "next" /\ Return(c) /\ UNCHANGED <<cloud, shared>>
  BY DEF Amazon!DestroyReturn, Amazon!BatchDone, BatchDone, Amazon!Gone, Gone,
         Amazon!Return, Return, Amazon!Idle, Idle
<1>2. Batching(c)
  BY <1>0, <1>1, AmazonKind DEF AmazonBatchPcs
<1>3. BatchStep(c) /\ BatchMove(c) /\ Keeps(c)
  BY <1>0, <1>1, <1>2, BatchDoneStep, KeepsDone
<1>4. Things' = Things /\ GroupKept
  BY <1>1, ThingsSame, GroupSame
<1>5. AmazonGroups' /\ GroupSafe
  BY <1>0, <1>1, <1>4, GroupKeeps DEF AmazonGroups
<1>6. AmazonShape(c)' /\ AmazonGroup(c)'
  BY <1>0, <1>1, Returns, AmazonIdle
<1> QED
  BY <1>0, <1>3, <1>4, <1>5, <1>6 DEF AmazonStep, AmazonThings

(* One request outside of Create and Destroy. *)

(* Hibernate, Start and the capacity reservations. *)
LEMMA AmazonRequests ==
  ASSUME AmazonInv, UNCHANGED scenario, scenario.driver = "amazon", NEW c \in Callers,
         \/ Amazon!Hibernate(c) \/ Amazon!Start(c) \/ Amazon!ReserveCapacity(c) \/ Amazon!DestroyCapacity(c)
  PROVE  AmazonStep(c)
<1>0. /\ AmazonShape(c) /\ BatchInv /\ DOMAIN call = Callers /\ AmazonThings /\ AmazonGroup(c) /\ AmazonGroups
      /\ "groups" \in DOMAIN shared
  BY DEF BatchInv, AmazonInv, AmazonGroups
<1>1. call[c] = Idle /\ UNCHANGED <<call, destroyed, abandoned>> /\ made \subseteq made'
  BY DEF Amazon!Hibernate, Amazon!Start, Amazon!ReserveCapacity, Amazon!DestroyCapacity, Amazon!Fresh,
         Amazon!Idle, Idle, Amazon!Deleted
<1>2. HeldVMs' = HeldVMs
  <2>1. CASE UNCHANGED held
    BY <2>1 DEF HeldVMs
  <2>2. CASE Amazon!ReserveCapacity(c) /\ ~UNCHANGED held
    <3>1. PICK zone : held' = held \cup {[what |-> "reservation", name |-> c, zone |-> zone]}
      BY <2>2 DEF Amazon!ReserveCapacity
    <3> QED
      BY <3>1 DEF HeldVMs
  <2>3. CASE Amazon!DestroyCapacity(c)
    BY <2>3 DEF Amazon!DestroyCapacity, Amazon!HeldVMs, HeldVMs
  <2> QED
    BY <2>1, <2>2, <2>3 DEF Amazon!Hibernate, Amazon!Start
<1>3. "groups" \in DOMAIN shared' /\ shared'.groups = shared.groups
  BY <1>0 DEF Amazon!Hibernate, Amazon!Start, Amazon!ReserveCapacity, Amazon!DestroyCapacity
<1>4. Things' \subseteq Things /\ GroupKept
  <2>1. CASE Amazon!Hibernate(c) \/ Amazon!Start(c)
    <3>1. PICK i : \/ \E x : cloud' = [cloud EXCEPT ![Amazon!VM(i.name, i.zone)].status = x]
                   \/ cloud' = Without({Amazon!VM(i.name, i.zone)})
      BY <2>1 DEF Amazon!Hibernate, Amazon!Start, Amazon!Without, Without
    <3>2. PICK vm : /\ vm.kind = "vm" /\ DOMAIN cloud' \subseteq DOMAIN cloud
                    /\ \A r \in DOMAIN cloud : r # vm => r \in DOMAIN cloud' /\ cloud'[r] = cloud[r]
      <4> DEFINE vm == Amazon!VM(i.name, i.zone)
      <4>1. vm.kind = "vm"
        BY AmazonVMParts
      <4>2. (\E x : cloud' = [cloud EXCEPT ![vm].status = x]) \/ cloud' = Without({vm})
        BY <3>1
      <4> HIDE DEF vm
      <4>3. CASE cloud' = Without({vm})
        BY <4>1, <4>3 DEF Without
      <4>4. CASE \E x : cloud' = [cloud EXCEPT ![vm].status = x]
        BY <4>1, <4>4
      <4> QED
        BY <4>2, <4>3, <4>4
    <3>3. Group.kind = "group" /\ Group' = Group
      BY DEF Group, Amazon!SecurityGroup, Amazon!Resource
    <3> QED
      BY <3>2, <3>3 DEF GroupKept, Exists, Things
  <2>2. CASE Amazon!ReserveCapacity(c) \/ Amazon!DestroyCapacity(c)
    <3>1. \/ UNCHANGED cloud
          \/ \E r, a : r.kind = "reservation" /\ (cloud' = With({r}, a) \/ cloud' = Without({r}))
      <4>1. \A d, zone : Amazon!Resource("reservation", d, zone).kind = "reservation"
        BY DEF Amazon!Resource
      <4>2. CASE Amazon!ReserveCapacity(c) /\ ~UNCHANGED cloud
        <5>1. PICK zone : cloud' = With({Amazon!Resource("reservation", c, zone)}, "unlimited")
          BY <4>2 DEF Amazon!ReserveCapacity, Amazon!Add, Amazon!With, With
        <5> QED
          BY <4>1, <5>1
      <4>3. CASE Amazon!DestroyCapacity(c)
        <5>1. PICK i : cloud' = Without({Amazon!Resource("reservation", i.name, i.zone)})
          BY <4>3 DEF Amazon!DestroyCapacity, Amazon!Deleted, Amazon!Without, Without
        <5> QED
          BY <4>1, <5>1
      <4> QED
        BY <2>2, <4>2, <4>3
    <3>2. CASE UNCHANGED cloud
      BY <3>2, ThingsSame, GroupSame
    <3>3. ASSUME NEW r, NEW a, r.kind = "reservation", cloud' = With({r}, a) \/ cloud' = Without({r})
          PROVE  Things' \subseteq Things /\ GroupKept
      BY <3>3, GroupKeptWith DEF Things, With, Without
    <3> QED
      BY <3>1, <3>2, <3>3
  <2> QED
    BY <2>1, <2>2
<1>5. BatchStep(c) /\ BatchMove(c) /\ Keeps(c)
  BY <1>0, <1>1, <1>2, <1>4, IdleStep
<1>6. AmazonGroups' /\ GroupSafe
  BY <1>0, <1>3, <1>4, GroupKeeps DEF AmazonGroups
<1>7. AmazonShape(c)' /\ AmazonGroup(c)'
  BY <1>1, AmazonIdle
<1> QED
  BY <1>0, <1>4, <1>5, <1>6, <1>7 DEF AmazonStep, AmazonThings

(* Every step of the driver keeps its invariant. *)
LEMMA AmazonNext ==
  ASSUME AmazonInv, Of("amazon", Amazon!Next)
  PROVE  AmazonInv'
<1>1. CASE \E c \in Callers : AmazonStep(c)
  <2>1. PICK c \in Callers : AmazonStep(c)
    BY <1>1
  <2>2. BatchInv' /\ Owned'
    BY <2>1, BatchCombine, OwnedCombine DEF AmazonStep, AmazonInv, Of
  <2>3. \A d \in Callers \ {c} : AmazonShape(d)' /\ AmazonGroup(d)'
    BY <2>1 DEF AmazonStep, AmazonInv, BatchStep, AmazonShape, AmazonGroup, GroupSafe
  <2> QED
    BY <2>1, <2>2, <2>3 DEF AmazonStep, AmazonInv
<1>2. CASE Amazon!ImageExpires
  <2>1. /\ shared' = [shared EXCEPT !.ami = FALSE] /\ UNCHANGED <<cloud, abandoned, held, call, made, destroyed, scenario>>
    BY <1>2 DEF Amazon!ImageExpires, Of
  <2>2. Same /\ GroupKept
    BY <2>1, ThingsSame, GroupSame DEF Same
  <2>3. BatchInv' /\ Owned'
    BY <2>2, BatchSame, OwnedSame DEF AmazonInv
  <2>4. AmazonGroups' /\ GroupSafe
    BY <2>1, <2>2, GroupKeeps DEF AmazonGroups, AmazonInv, Same
  <2>5. \A c \in Callers : AmazonShape(c)' /\ AmazonGroup(c)'
    BY <2>1, <2>4 DEF AmazonInv, AmazonShape, AmazonGroup, GroupSafe
  <2> QED
    BY <2>2, <2>3, <2>4, <2>5 DEF AmazonInv, AmazonThings, Same
<1> QED
  BY <1>1, <1>2, AmazonPrepares, AmazonRuns, AmazonBegins, AmazonFinds, AmazonTerminates, AmazonCleansUp,
     AmazonReturns, AmazonRequests DEF Of, Amazon!Next

-----------------------------------------------------------------------------
(* Google: the zones and networks a create may use. *)
OnGoogleCloud == scenario.driver = "google" /\ scenario \in Scenarios

(* The pairs of a zone and a network that a create may use: the network     *)
(* lists the zone, or none does.                                            *)
Places == Google!Zones \cup (UNION {o.zones : o \in scenario.requests}) \cup {o.reservation : o \in scenario.requests}
Fit(zone, n) == n \in DOMAIN scenario.networks /\ (zone \in scenario.networks[n].zones \/ zone \notin Google!Zones)
Candidates == {k \in [zone: Places, network: DOMAIN scenario.networks] : Fit(k.zone, k.network)}

(* A set of natural numbers that is not empty has a least one. *)
LEMMA LeastNatural ==
  ASSUME NEW T \in SUBSET Nat, T # {}
  PROVE  \E x \in T : \A y \in T : x <= y
<1>1. PICK x \in T : \A y \in T : ~ (<<y, x>> \in OpToRel(<, Nat))
  BY WFMin, NatLessThanWellFounded
<1>2. \A y \in T : ~(y < x)
  BY <1>1 DEF OpToRel
<1> QED
  BY <1>2

(* selectNetwork finds a network that lists the zone, if any does. *)
LEMMA SelectsFit ==
  ASSUME OnGoogleCloud, NEW zone
  PROVE  Fit(zone, Google!SelectNetwork(zone))
<1> DEFINE matching == {n \in DOMAIN scenario.networks : zone \in scenario.networks[n].zones}
<1>1. DOMAIN scenario.networks = 1..Len(scenario.networks) /\ Len(scenario.networks) \in Nat \ {0}
  BY NetworksAssumption DEF OnGoogleCloud
<1>2. Google!SelectNetwork(zone) =
        IF matching = {} THEN 1 ELSE CHOOSE n \in matching : \A m \in matching : n <= m
  BY DEF Google!SelectNetwork, Google!NetworkConfigs
<1>3. CASE matching = {}
  <2>1. zone \notin Google!Zones
    BY <1>3 DEF Google!Zones, Google!NetworkConfigs
  <2>2. Google!SelectNetwork(zone) = 1
    BY <1>2, <1>3
  <2> QED
    BY <1>1, <2>1, <2>2 DEF Fit
<1>4. CASE matching # {}
  <2>1. matching \in SUBSET Nat
    BY <1>1
  <2>2. \E n \in matching : \A m \in matching : n <= m
    BY <1>4, <2>1, LeastNatural
  <2> HIDE DEF matching
  <2>3. Google!SelectNetwork(zone) \in matching
    BY <1>2, <1>4, <2>2
  <2> QED
    BY <2>3 DEF Fit, matching
<1> QED
  BY <1>3, <1>4

(* resolveNetworkAndZone ends with a zone and a network that fit. *)
LEMMA SelectionsFit ==
  ASSUME OnGoogleCloud, shared.next \in DOMAIN scenario.networks, NEW o \in scenario.requests,
         NEW first \in Google!Selections(o.reservation, o.zones)
  PROVE  first \in Candidates
<1>1. CASE first \in [zone: scenario.networks[shared.next].zones, network: {shared.next}]
  <2>1. first.network = shared.next /\ first.zone \in scenario.networks[shared.next].zones
    BY <1>1
  <2>2. first.zone \in Google!Zones
    BY <2>1 DEF Google!Zones, Google!NetworkConfigs
  <2> QED
    BY <1>1, <2>1, <2>2 DEF Candidates, Fit, Places
<1>2. CASE \E z \in Places : first = [zone |-> z, network |-> Google!SelectNetwork(z)]
  <2>1. PICK z \in Places : first = [zone |-> z, network |-> Google!SelectNetwork(z)]
    BY <1>2
  <2> QED
    BY <2>1, SelectsFit DEF Candidates, Fit
<1>3. o.reservation \in Places /\ o.zones \subseteq Places
  BY DEF Places
<1> QED
  BY <1>1, <1>2, <1>3 DEF Google!Selections, Google!NetworkConfigs

(* So does every candidate of buildCreateCandidates, and at least one is   *)
(* left after the reordering by stock-outs and the cap on the attempts.    *)
LEMMA CandidatesFit ==
  ASSUME OnGoogleCloud, NEW first \in Candidates, NEW cands \in Google!BuildCreateCandidates(first)
  PROVE  cands \in Seq(Candidates) /\ cands # <<>>
<1> DEFINE others == {[zone |-> z, network |-> Google!SelectNetwork(z)] : z \in Google!Zones \ {first.zone}}
           all == {first} \cup others
           n == Cardinality(all)
           m == IF n < MaxStockoutAttempts THEN n ELSE MaxStockoutAttempts
<1>1. all \subseteq Candidates
  <2>1. ASSUME NEW z \in Google!Zones
        PROVE  [zone |-> z, network |-> Google!SelectNetwork(z)] \in Candidates
    BY SelectsFit DEF Candidates, Fit, Places
  <2> QED
    BY <2>1
<1>2. IsFiniteSet(all)
  <2>1. IsFiniteSet(Google!Zones)
    BY NetworksAssumption DEF OnGoogleCloud, Google!Zones, Google!NetworkConfigs
  <2>2. IsFiniteSet(Google!Zones \ {first.zone})
    BY <2>1, FS_RemoveElement
  <2> DEFINE f == [z \in Google!Zones \ {first.zone} |-> [zone |-> z, network |-> Google!SelectNetwork(z)]]
  <2>3. f \in Surjection(Google!Zones \ {first.zone}, others)
    BY DEF Surjection
  <2> HIDE DEF others, f
  <2>5. IsFiniteSet(others)
    BY <2>2, <2>3, FS_Surjection
  <2> QED
    BY <2>5, FS_AddElement
<1>3. n \in Nat /\ n # 0
  BY <1>2, FS_CardinalityType, FS_EmptySet
<1>4. PICK s \in [1..n -> all] : cands = SubSeq(s, 1, m)
  <2> DEFINE Before(k, l) == IF Google!Deprioritized(k) # Google!Deprioritized(l) THEN Google!Deprioritized(l)
                             ELSE k = first \/ (l # first /\ k.network <= l.network)
             orders == {s \in [1..n -> all] : \A i, j \in 1..n : i < j => s[i] # s[j] /\ Before(s[i], s[j])}
  <2>1. Google!Cardinality(all) = Cardinality(all)
    BY DEF Google!Cardinality, Cardinality
  <2>2. Google!BuildCreateCandidates(first) = {SubSeq(s, 1, m) : s \in orders}
    BY <2>1 DEF Google!BuildCreateCandidates
  <2> QED
    BY <2>2
<1> HIDE DEF all, n
<1>5. m \in 1..n
  BY <1>3, AttemptsAssumption
<1> HIDE DEF m
<1>6. \A i \in 1..m : s[i] \in Candidates
  BY <1>1, <1>3, <1>4, <1>5
<1>7. SubSeq(s, 1, m) \in Seq(Candidates) /\ Len(SubSeq(s, 1, m)) = m
  BY <1>3, <1>5, <1>6, SubSeqProperties
<1> QED
  BY <1>3, <1>4, <1>5, <1>7, EmptySeq

(* The round robin stays within the list of networks. *)
LEMMA NextFits ==
  ASSUME OnGoogleCloud, shared.next \in DOMAIN scenario.networks
  PROVE  Google!NextNetworkConfig \in DOMAIN scenario.networks
<1>1. DOMAIN scenario.networks = 1..Len(scenario.networks) /\ Len(scenario.networks) \in Nat \ {0}
  BY NetworksAssumption DEF OnGoogleCloud
<1>2. PICK n \in Nat \ {0}, k \in Nat : n = Len(scenario.networks) /\ k = shared.next
  BY <1>1
<1>3. k % n \in 0..n - 1
  BY <1>2
<1>4. Google!NextNetworkConfig = (k % n) + 1
  BY <1>2 DEF Google!NextNetworkConfig, Google!NetworkConfigs
<1> QED
  BY <1>1, <1>2, <1>3, <1>4

(* The calls of the Google driver. *)
GCreateFields == {"pc", "cands", "disks", "reserved"}
GCreatePcs == {"disks", "insert", "failed", "stockout", "get"}
GBatchPcs == {"next", "delete", "disks of"}
GSetFields == {"pc", "vm", "field", "seen", "tries"}
GSetPcs == {"read", "write"}
GoogleShape(c) ==
  \/ call[c] = Idle
  \/ /\ DOMAIN call[c] = GCreateFields /\ call[c].pc \in GCreatePcs
     /\ call[c].cands \in Seq(Candidates) /\ call[c].cands # <<>>
     /\ call[c].pc = "stockout" => Tail(call[c].cands) # <<>>
  \/ DOMAIN call[c] = BatchFields /\ call[c].pc \in GBatchPcs
  \/ /\ DOMAIN call[c] = GSetFields /\ call[c].pc \in GSetPcs
     /\ call[c].field \in {"labels", "metadata"} /\ call[c].vm.kind = "vm"
Setting(c) == "field" \in DOMAIN call[c]
SetOver(c) == Setting(c) => Over(call[c].vm)

(* The VMs: booted with a proxy of their zone, and not labelled before the *)
(* call that makes them is over.                                           *)
Attributes == {"network", "proxy", "labels", "metadata", "status"}
GoogleVM(r) == /\ r = Google!VM(r.name, r.zone) /\ r.name \in Callers /\ r.name \in made
               /\ DOMAIN cloud[r] = Attributes /\ ProxyOf(r.zone, cloud[r].proxy)
               /\ Creating(r.name) => cloud[r].labels = {} /\ cloud[r].metadata = {}
GoogleNext == "next" \in DOMAIN shared /\ shared.next \in DOMAIN scenario.networks
GoogleInv == /\ BatchInv /\ Owned /\ OnGoogleCloud /\ GoogleNext
             /\ \A c \in Callers : GoogleShape(c) /\ SetOver(c)
             /\ \A r \in Things : GoogleVM(r)
             /\ \A i \in HeldVMs : ProxyOf(i.zone, i.proxy)

(* What a step does to the VMs: one is left as it is, or labelled under     *)
(* the fingerprint, or made by the call.                                    *)
Labelled(r) == /\ DOMAIN cloud'[r] = DOMAIN cloud[r] /\ cloud'[r].proxy = cloud[r].proxy
               /\ cloud[r].labels \subseteq cloud'[r].labels /\ cloud[r].metadata \subseteq cloud'[r].metadata
               /\ Creating(r.name) => cloud'[r].labels = cloud[r].labels /\ cloud'[r].metadata = cloud[r].metadata
NewVM(c, r) == /\ r.name = c /\ Creating(c) /\ r = Google!VM(r.name, r.zone)
               /\ DOMAIN cloud'[r] = Attributes /\ ProxyOf(r.zone, cloud'[r].proxy)
               /\ cloud'[r].labels = {} /\ cloud'[r].metadata = {}
VMsStep(c) == \A r \in Things' : (r \in Things /\ Labelled(r)) \/ NewVM(c, r)
VMsSame == \A r \in Things' : r \in Things /\ cloud'[r] = cloud[r]
GoogleStep(c) == /\ BatchStep(c) /\ BatchMove(c) /\ Keeps(c) /\ VMsStep(c)
                 /\ GoogleShape(c)' /\ SetOver(c)' /\ GoogleNext'
                 /\ \A i \in HeldVMs' : i \in HeldVMs \/ ProxyOf(i.zone, i.proxy)

(* A step that leaves the VMs as they are is one of those. *)
LEMMA VMsSameStep ==
  ASSUME VMsSame, NEW c
  PROVE  VMsStep(c)
BY DEF VMsSame, VMsStep, Labelled

(* Without a request to the provider they stay. *)
LEMMA VMsUnchanged ==
  ASSUME UNCHANGED <<cloud, scenario>>
  PROVE  VMsSame
BY DEF VMsSame, Things

(* A delete changes no VM that is left. *)
LEMMA VMsWithout ==
  ASSUME NEW R, cloud' = Without(R), UNCHANGED scenario
  PROVE  VMsSame
BY DEF VMsSame, Things, Without

(* Attaching disks changes no VM. *)
LEMMA VMsDisks ==
  ASSUME NEW c, NEW ids, NEW zone, NEW a, cloud' = With(Disks(c, ids, zone), a), UNCHANGED scenario,
         scenario.driver = "google"
  PROVE  VMsSame /\ Things' = Things
BY DEF VMsSame, Things, With, Disks

(* The request a call is at tells which call it is. *)
LEMMA GoogleKind ==
  ASSUME NEW c \in Callers, GoogleShape(c)
  PROVE  /\ call[c].pc \in GCreatePcs => /\ Creating(c) /\ ~Setting(c) /\ DOMAIN call[c] = GCreateFields
                                         /\ call[c].cands \in Seq(Candidates) /\ call[c].cands # <<>>
                                         /\ call[c].pc = "stockout" => Tail(call[c].cands) # <<>>
         /\ call[c].pc \in GBatchPcs => Batching(c) /\ ~Creating(c) /\ ~Setting(c) /\ DOMAIN call[c] = BatchFields
         /\ call[c].pc \in GSetPcs => /\ Setting(c) /\ ~Batching(c) /\ ~Creating(c) /\ DOMAIN call[c] = GSetFields
                                      /\ call[c].field \in {"labels", "metadata"} /\ call[c].vm.kind = "vm"
<1>1. /\ GCreatePcs \cap GBatchPcs = {} /\ GCreatePcs \cap GSetPcs = {} /\ GBatchPcs \cap GSetPcs = {}
      /\ "idle" \notin GCreatePcs \cup GBatchPcs \cup GSetPcs
  BY DEF GCreatePcs, GBatchPcs, GSetPcs
<1>2. CASE call[c] = Idle
  BY <1>1, <1>2 DEF Idle
<1>3. CASE /\ DOMAIN call[c] = GCreateFields /\ call[c].pc \in GCreatePcs
           /\ call[c].cands \in Seq(Candidates) /\ call[c].cands # <<>>
           /\ call[c].pc = "stockout" => Tail(call[c].cands) # <<>>
  <2>1. Creating(c) /\ ~Setting(c)
    BY <1>3 DEF Creating, Setting, Idle, GCreateFields
  <2> QED
    BY <1>1, <1>3, <2>1
<1>4. CASE DOMAIN call[c] = BatchFields /\ call[c].pc \in GBatchPcs
  <2>1. Batching(c) /\ ~Creating(c) /\ ~Setting(c)
    BY <1>4 DEF Batching, Creating, Setting, BatchFields
  <2> QED
    BY <1>1, <1>4, <2>1
<1>5. CASE /\ DOMAIN call[c] = GSetFields /\ call[c].pc \in GSetPcs
           /\ call[c].field \in {"labels", "metadata"} /\ call[c].vm.kind = "vm"
  <2>1. Setting(c) /\ ~Batching(c) /\ ~Creating(c)
    BY <1>5 DEF Batching, Creating, Setting, GSetFields
  <2> QED
    BY <1>1, <1>5, <2>1
<1> QED
  BY <1>2, <1>3, <1>4, <1>5 DEF GoogleShape

(* An idle call claims nothing. *)
LEMMA GoogleIdle ==
  ASSUME NEW c, call'[c] = Idle
  PROVE  GoogleShape(c)' /\ SetOver(c)'
BY DEF GoogleShape, SetOver, Setting, Idle

(* The configuration is fixed. *)
LEMMA ConfigSame ==
  ASSUME UNCHANGED scenario
  PROVE  /\ Candidates' = Candidates
         /\ \A zone, proxy : ProxyOf(zone, proxy)' <=> ProxyOf(zone, proxy)
BY DEF Candidates, Fit, Places, Google!Zones, Google!NetworkConfigs, ProxyOf

(* The fields of a VM. *)
LEMMA GoogleVMParts ==
  ASSUME NEW c, NEW zone
  PROVE  Google!VM(c, zone).kind = "vm" /\ Google!VM(c, zone).name = c /\ Google!VM(c, zone).zone = zone
BY DEF Google!VM, Google!Resource

(* The disks of a VM, in the terms of DriverCalls. *)
LEMMA GoogleDisks ==
  ASSUME NEW c, NEW ids, NEW zone
  PROVE  Google!Disks(c, ids, zone) = Disks(c, ids, zone)
BY DEF Google!Disks, Disks

(* The steps of all calls, put together. *)
LEMMA GoogleCombine ==
  ASSUME GoogleInv, NEW c \in Callers, GoogleStep(c), UNCHANGED scenario
  PROVE  GoogleInv'
<1>1. BatchInv' /\ Owned'
  BY BatchCombine, OwnedCombine DEF GoogleInv, GoogleStep
<1>2. \A d \in Callers \ {c} : GoogleShape(d)'
  BY ConfigSame DEF GoogleInv, GoogleStep, BatchStep, GoogleShape
<1>3. \A d \in Callers \ {c} : SetOver(d)'
  BY OverStays DEF GoogleInv, GoogleStep, BatchStep, SetOver, Setting
<1>4. \A r \in Things' : GoogleVM(r)'
  <2> SUFFICES ASSUME NEW r \in Things'
               PROVE  GoogleVM(r)'
    OBVIOUS
  <2>1. made \subseteq made' /\ (Creating(c) => c \in made)
    BY DEF GoogleInv, GoogleStep, BatchStep, BatchInv
  <2>2. r = Google!VM(r.name, r.zone) <=> (r = Google!VM(r.name, r.zone))'
    BY DEF Google!VM, Google!Resource
  <2>3. CASE r \in Things /\ Labelled(r)
    <3>1. GoogleVM(r)
      BY <2>3 DEF GoogleInv
    <3>2. Creating(r.name)' => Creating(r.name) \/ r.name \notin made
      <4>1. r.name \in Callers
        BY <3>1 DEF GoogleVM
      <4> QED
        BY <4>1 DEF GoogleStep, BatchStep, Creating
    <3> QED
      BY <2>1, <2>2, <2>3, <3>1, <3>2, ConfigSame DEF GoogleVM, Labelled
  <2>4. CASE NewVM(c, r)
    BY <2>1, <2>2, <2>4, ConfigSame DEF GoogleVM, NewVM
  <2> QED
    BY <2>3, <2>4 DEF GoogleStep, VMsStep
<1>5. \A i \in HeldVMs' : ProxyOf(i.zone, i.proxy)'
  BY ConfigSame DEF GoogleInv, GoogleStep
<1>6. OnGoogleCloud'
  BY DEF GoogleInv, OnGoogleCloud
<1> QED
  BY <1>1, <1>2, <1>3, <1>4, <1>5, <1>6 DEF GoogleInv, GoogleStep

(* A list with more than one candidate has another one. *)
LEMMA LongerThanOne ==
  ASSUME NEW S, NEW s \in Seq(S), Len(s) > 1
  PROVE  Tail(s) # <<>>
<1>1. Len(s) \in Nat /\ s # <<>>
  BY EmptySeq
<1>2. Len(Tail(s)) = Len(s) - 1
  BY <1>1, HeadTailProperties
<1>3. Len(<<>>) = 0
  BY EmptySeq
<1>4. Len(Tail(s)) # 0
  BY <1>1, <1>2
<1> QED
  BY <1>3, <1>4

(* A step of a Destroy or of a Set. *)
LEMMA GoogleWorks ==
  ASSUME GoogleInv, NEW c \in Callers, BatchMove(c), ~Creating(c), ~Creating(c)', Frame(c),
         GoogleShape(c)', SetOver(c)', VMsSame, abandoned \subseteq abandoned',
         UNCHANGED <<held, made, destroyed, scenario, shared>>
  PROVE  GoogleStep(c)
<1>1. Things' \subseteq Things /\ ~Made(c) /\ HeldVMs' = HeldVMs
  BY DEF VMsSame, Made, HeldVMs
<1>2. BatchStep(c) /\ Keeps(c)
  BY <1>1, CalmStep, KeepsCalm DEF Calm, Frame, GoogleInv, BatchInv
<1>3. VMsStep(c) /\ GoogleNext'
  BY VMsSameStep DEF GoogleNext, GoogleInv
<1> QED
  BY <1>1, <1>2, <1>3 DEF GoogleStep

(* A Create starts with candidates that fit. *)
LEMMA GoogleBegins ==
  ASSUME GoogleInv, UNCHANGED scenario, NEW c \in Callers, Google!CreateBegin(c)
  PROVE  GoogleStep(c)
<1>0. /\ GoogleShape(c) /\ BatchInv /\ DOMAIN call = Callers /\ OnGoogleCloud /\ GoogleNext
      /\ Candidates' = Candidates
  BY ConfigSame DEF BatchInv, GoogleInv
<1>1. Fresh(c) /\ UNCHANGED <<cloud, abandoned, held>>
  BY DEF Google!CreateBegin, Google!Fresh, Fresh, Google!Idle, Idle
<1>2. shared' = [shared EXCEPT !.next = Google!NextNetworkConfig] \/ shared' = shared
  BY DEF Google!CreateBegin
<1>3. \/ call' = [call EXCEPT ![c] = Idle]
      \/ \E o \in scenario.requests : \E first \in Google!Selections(o.reservation, o.zones) :
         \E cands \in IF o.disks = <<>> /\ o.reservation = NoZone
                      THEN Google!BuildCreateCandidates(first) ELSE {<<first>>} :
           \E pc \in {"insert", "disks"} : \E reserved :
             call' = [call EXCEPT ![c] = [pc |-> pc, cands |-> cands, disks |-> o.disks, reserved |-> reserved]]
  BY DEF Google!CreateBegin, Google!Return, Google!Idle, Idle
<1>4. \/ call'[c] = Idle
      \/ /\ DOMAIN call'[c] = GCreateFields /\ call'[c].pc \in {"insert", "disks"}
         /\ call'[c].cands \in Seq(Candidates) /\ call'[c].cands # <<>>
  <2>1. ASSUME NEW o \in scenario.requests, NEW first \in Google!Selections(o.reservation, o.zones),
               NEW cands \in IF o.disks = <<>> /\ o.reservation = NoZone
                             THEN Google!BuildCreateCandidates(first) ELSE {<<first>>},
               NEW pc \in {"insert", "disks"}, NEW reserved,
               call' = [call EXCEPT ![c] = [pc |-> pc, cands |-> cands, disks |-> o.disks, reserved |-> reserved]]
        PROVE  /\ DOMAIN call'[c] = GCreateFields /\ call'[c].pc \in {"insert", "disks"}
               /\ call'[c].cands \in Seq(Candidates) /\ call'[c].cands # <<>>
    <3>1. first \in Candidates
      BY <1>0, SelectionsFit DEF GoogleNext
    <3>2. cands \in Seq(Candidates) /\ cands # <<>>
      <4>1. CASE cands \in Google!BuildCreateCandidates(first)
        BY <1>0, <3>1, <4>1, CandidatesFit
      <4>2. CASE cands = <<first>>
        <5>1. <<first>> \in Seq(Candidates) /\ Len(<<first>>) = 1 /\ Len(<<>>) = 0
          BY <3>1
        <5> QED
          BY <4>2, <5>1
      <4> QED
        BY <4>1, <4>2
    <3>3. call'[c] = [pc |-> pc, cands |-> cands, disks |-> o.disks, reserved |-> reserved]
      BY <1>0, <2>1
    <3> QED
      BY <3>2, <3>3 DEF GCreateFields
  <2> QED
    BY <1>0, <1>3, <2>1
<1>5. Frame(c)
  BY <1>0, <1>3 DEF Frame
<1>6. ~Batching(c)' /\ GoogleShape(c)' /\ SetOver(c)'
  <2>1. CASE call'[c] = Idle
    BY <2>1, GoogleIdle DEF Batching, Idle
  <2>2. CASE call'[c] # Idle
    BY <1>0, <1>4, <2>2 DEF Batching, GCreateFields, GoogleShape, GCreatePcs, SetOver, Setting
  <2> QED
    BY <2>1, <2>2
<1>7. Things' = Things /\ VMsSame /\ ~Made(c) /\ HeldVMs' = HeldVMs
  BY <1>1, ThingsSame, VMsUnchanged DEF Fresh, Made, Creating, HeldVMs
<1>8. BatchStep(c) /\ BatchMove(c) /\ Keeps(c)
  BY <1>0, <1>1, <1>5, <1>6, <1>7, FreshStep, KeepsCalm
<1>9. GoogleNext'
  BY <1>0, <1>2, NextFits DEF GoogleNext
<1> QED
  BY <1>6, <1>7, <1>8, <1>9, VMsSameStep DEF GoogleStep

(* attachPersistentDisk. *)
LEMMA GoogleAttaches ==
  ASSUME GoogleInv, UNCHANGED scenario, NEW c \in Callers, Google!AttachPersistentDisk(c)
  PROVE  GoogleStep(c)
<1>0. /\ GoogleShape(c) /\ BatchInv /\ DOMAIN call = Callers /\ OnGoogleCloud /\ GoogleNext
      /\ Candidates' = Candidates
  BY ConfigSame DEF BatchInv, GoogleInv
<1>1. /\ call[c].pc = "disks" /\ UNCHANGED <<abandoned, held, shared, made, destroyed>>
      /\ Goto(c, "insert") \/ Goto(c, "failed")
  BY DEF Google!AttachPersistentDisk, Google!Goto, Goto
<1>2. \E ready : cloud' = With(Disks(c, ready, Head(call[c].cands).zone), "disk")
  BY GoogleDisks DEF Google!AttachPersistentDisk, Google!With, With
<1>3. VMsSame /\ Things' = Things
  BY <1>0, <1>2, VMsDisks DEF OnGoogleCloud
<1>4. Creating(c) /\ DOMAIN call[c] = GCreateFields /\ call[c].cands \in Seq(Candidates) /\ call[c].cands # <<>> /\ ~Made(c)
  BY <1>0, <1>1, GoogleKind DEF GCreatePcs, Made, MadePcs
<1>5. /\ Frame(c) /\ ~Batching(c)' /\ DOMAIN call'[c] = GCreateFields /\ call'[c].pc \in {"insert", "failed"}
      /\ call'[c].cands = call[c].cands
  BY <1>0, <1>1, <1>4, CreateGoes DEF Goto, GCreateFields
<1>6. GoogleShape(c)' /\ SetOver(c)'
  BY <1>0, <1>4, <1>5 DEF GoogleShape, GCreatePcs, SetOver, Setting, GCreateFields
<1>7. BatchStep(c) /\ BatchMove(c) /\ Keeps(c)
  BY <1>0, <1>1, <1>3, <1>4, <1>5, CreateStep, KeepsCalm DEF HeldVMs
<1>8. GoogleNext' /\ HeldVMs' = HeldVMs
  BY <1>0, <1>1 DEF GoogleNext, HeldVMs
<1> QED
  BY <1>3, <1>6, <1>7, <1>8, VMsSameStep DEF GoogleStep

(* An attempt: a VM that was made, also by an attempt that failed, belongs *)
(* to the call until the clean-up in the zone of that attempt, and boots   *)
(* with the proxy of that attempt.                                         *)
LEMMA GoogleInserts ==
  ASSUME GoogleInv, UNCHANGED scenario, NEW c \in Callers, Google!InsertInstance(c)
  PROVE  GoogleStep(c)
<1>0. /\ GoogleShape(c) /\ BatchInv /\ DOMAIN call = Callers /\ OnGoogleCloud /\ GoogleNext
      /\ Candidates' = Candidates
  BY ConfigSame DEF BatchInv, GoogleInv
<1>1. PICK cand, vm : cand = Head(call[c].cands) /\ vm = Google!VM(c, cand.zone)
  OBVIOUS
<1>2. /\ call[c].pc = "insert" /\ UNCHANGED <<abandoned, held, made, destroyed>>
      /\ UNCHANGED cloud \/ cloud' = With({vm}, Google!NewVM(c))
      /\ Goto(c, "get") \/ Goto(c, "failed") \/ (Goto(c, "stockout") /\ Len(call[c].cands) > 1)
      /\ shared' = shared \/ \E z : shared' = [shared EXCEPT !.stockout = z]
  BY <1>1 DEF Google!InsertInstance, Google!Goto, Goto, Google!Add, Google!With, With, Google!RetriesLeft
<1>3. /\ Creating(c) /\ DOMAIN call[c] = GCreateFields /\ call[c].cands \in Seq(Candidates) /\ call[c].cands # <<>>
      /\ ~Made(c)
  BY <1>0, <1>2, GoogleKind DEF GCreatePcs, Made, MadePcs
<1>4. /\ Frame(c) /\ ~Batching(c)' /\ DOMAIN call'[c] = GCreateFields /\ call'[c].pc \in {"get", "failed", "stockout"}
      /\ call'[c].cands = call[c].cands
      /\ call'[c].pc = "stockout" => Len(call[c].cands) > 1
  BY <1>0, <1>2, <1>3, CreateGoes DEF Goto, GCreateFields
<1>5. Len(call[c].cands) > 1 => Tail(call[c].cands) # <<>>
  BY <1>3, LongerThanOne
<1>6. GoogleShape(c)' /\ SetOver(c)'
  BY <1>0, <1>3, <1>4, <1>5 DEF GoogleShape, GCreatePcs, SetOver, Setting, GCreateFields
<1>7. cand \in Candidates
  BY <1>1, <1>3, HeadTailProperties
<1>8. vm.name = c /\ vm.zone = cand.zone /\ vm.kind = "vm" /\ vm = Google!VM(vm.name, vm.zone)
  BY <1>1, GoogleVMParts
<1>9. Making(vm)'
  <2>1. Creating(c)' /\ MakingZone(c)' = cand.zone
    BY <1>0, <1>1, <1>4 DEF Creating, Idle, GCreateFields, MakingZone, OnGoogleCloud
  <2> QED
    BY <1>4, <1>8, <2>1 DEF Making, Made, MadePcs
<1>10. \A r \in Things' : (r \in Things /\ cloud'[r] = cloud[r]) \/ (r = vm /\ cloud'[r] = Google!NewVM(c))
  BY <1>2 DEF Things, With
<1>11. /\ DOMAIN Google!NewVM(c) = Attributes /\ Google!NewVM(c).labels = {} /\ Google!NewVM(c).metadata = {}
       /\ Google!NewVM(c).proxy = scenario.networks[cand.network].proxy
  BY <1>1 DEF Google!NewVM, Attributes, Google!NetworkConfigs
<1>12. ProxyOf(vm.zone, Google!NewVM(c).proxy)
  BY <1>7, <1>8, <1>11 DEF Candidates, Fit, ProxyOf
<1>13. VMsStep(c)
  BY <1>3, <1>8, <1>10, <1>11, <1>12 DEF VMsStep, NewVM, Labelled
<1>14. BatchStep(c) /\ BatchMove(c)
  <2>1. \A r \in Things' : r \in Things \/ r.name = c
    BY <1>8, <1>10
  <2> QED
    BY <1>0, <1>2, <1>3, <1>4, <2>1, CreateStep DEF HeldVMs
<1>15. Keeps(c)
  BY <1>2, <1>3, <1>9, <1>10 DEF Keeps, Making, HeldVMs
<1>16. GoogleNext' /\ HeldVMs' = HeldVMs
  BY <1>0, <1>2 DEF GoogleNext, HeldVMs
<1> QED
  BY <1>6, <1>13, <1>14, <1>15, <1>16 DEF GoogleStep

(* The clean-up after an attempt deletes the VM of that zone, or leaves it *)
(* to the provider that refused; only then the call goes on or returns.    *)
LEMMA GoogleCleansUp ==
  ASSUME GoogleInv, UNCHANGED scenario, NEW c \in Callers, Google!CleanupFailedInstance(c)
  PROVE  GoogleStep(c)
<1>0. /\ GoogleShape(c) /\ BatchInv /\ DOMAIN call = Callers /\ OnGoogleCloud /\ GoogleNext
      /\ Candidates' = Candidates
  BY ConfigSame DEF BatchInv, GoogleInv
<1>1. PICK vm : vm = Google!VM(c, Head(call[c].cands).zone)
  OBVIOUS
<1>2. /\ call[c].pc \in {"stockout", "failed"} /\ UNCHANGED <<held, shared, made, destroyed>>
      /\ \/ cloud' = Without({vm}) /\ UNCHANGED abandoned
         \/ UNCHANGED cloud /\ abandoned' = abandoned \cup ({vm} \cap DOMAIN cloud)
      /\ \/ Return(c)
         \/ /\ call[c].pc = "stockout"
            /\ call' = [call EXCEPT ![c].pc = "insert", ![c].cands = Tail(@)]
  BY <1>1 DEF Google!CleanupFailedInstance, Google!BestEffort, Google!Deleted, Google!Abandon, Google!Without, Without,
              Google!Return, Return, Google!Idle, Idle
<1>3. /\ Creating(c) /\ DOMAIN call[c] = GCreateFields /\ call[c].cands \in Seq(Candidates) /\ call[c].cands # <<>>
      /\ call[c].pc = "stockout" => Tail(call[c].cands) # <<>>
  BY <1>0, <1>2, GoogleKind DEF GCreatePcs
<1>4. /\ Frame(c)
      /\ \/ call'[c] = Idle
         \/ /\ DOMAIN call'[c] = GCreateFields /\ call'[c].pc = "insert" /\ call'[c].cands = Tail(call[c].cands)
            /\ call[c].pc = "stockout"
  BY <1>0, <1>2, <1>3 DEF Frame, Return, GCreateFields
<1>5. ~Batching(c)' /\ GoogleShape(c)' /\ SetOver(c)'
  <2>1. CASE call'[c] = Idle
    BY <2>1, GoogleIdle DEF Batching, Idle
  <2>2. CASE call'[c] # Idle
    <3>1. Tail(call[c].cands) \in Seq(Candidates)
      BY <1>3, HeadTailProperties
    <3> QED
      BY <1>0, <1>3, <1>4, <2>2, <3>1 DEF Batching, GCreateFields, GoogleShape, GCreatePcs, SetOver, Setting
  <2> QED
    BY <2>1, <2>2
<1>6. VMsSame /\ (vm \in Things' => vm \in abandoned') /\ abandoned \subseteq abandoned'
  <2>1. CASE cloud' = Without({vm}) /\ UNCHANGED abandoned
    BY <2>1, VMsWithout, ThingsWithout
  <2>2. CASE UNCHANGED cloud /\ abandoned' = abandoned \cup ({vm} \cap DOMAIN cloud)
    BY <2>2, VMsUnchanged DEF Things
  <2> QED
    BY <1>2, <2>1, <2>2
<1>7. \A r \in Things : r.name = c /\ Making(r) => r = vm
  BY <1>0, <1>1 DEF Making, MakingZone, GoogleInv, GoogleVM, OnGoogleCloud
<1>8. Things' \subseteq Things /\ HeldVMs' = HeldVMs
  BY <1>2, <1>6 DEF VMsSame, HeldVMs
<1>9. BatchStep(c) /\ BatchMove(c)
  BY <1>0, <1>2, <1>3, <1>4, <1>5, <1>6, <1>8, CreateStep
<1>10. Keeps(c)
  BY <1>6, <1>7, <1>8 DEF Keeps
<1>11. GoogleNext'
  BY <1>0, <1>2 DEF GoogleNext
<1> QED
  BY <1>5, <1>6, <1>8, <1>9, <1>10, <1>11, VMsSameStep DEF GoogleStep

(* The VM is returned and held with the zone and proxy it has. *)
LEMMA GoogleGets ==
  ASSUME GoogleInv, UNCHANGED scenario, NEW c \in Callers, Google!CreateDone(c)
  PROVE  GoogleStep(c)
<1>0. /\ GoogleShape(c) /\ BatchInv /\ DOMAIN call = Callers /\ OnGoogleCloud /\ GoogleNext
      /\ Candidates' = Candidates
  BY ConfigSame DEF BatchInv, GoogleInv
<1>1. PICK zone, vm : zone = Head(call[c].cands).zone /\ vm = Google!VM(c, zone)
  OBVIOUS
<1>2. PICK i : i = [what |-> "vm", name |-> c, zone |-> zone, disks |-> call[c].disks, proxy |-> cloud[vm].proxy]
  OBVIOUS
<1>3. /\ call[c].pc = "get" /\ UNCHANGED <<cloud, abandoned, shared, made, destroyed>>
      /\ \/ vm \in DOMAIN cloud /\ held' = held \cup {i} /\ Return(c)
         \/ Goto(c, "failed") /\ UNCHANGED held
  BY <1>1, <1>2 DEF Google!CreateDone, Google!Exists, Google!Return, Return, Google!Idle, Idle, Google!Goto, Goto
<1>4. Creating(c) /\ DOMAIN call[c] = GCreateFields /\ call[c].cands \in Seq(Candidates) /\ call[c].cands # <<>>
  BY <1>0, <1>3, GoogleKind DEF GCreatePcs
<1>5. Things' = Things /\ VMsSame /\ GoogleNext'
  BY <1>0, <1>3, ThingsSame, VMsUnchanged DEF GoogleNext
<1>6. vm.name = c /\ vm.zone = zone /\ vm.kind = "vm" /\ i.name = c /\ i.zone = zone /\ i.what = "vm" /\ i.proxy = cloud[vm].proxy
  BY <1>1, <1>2, GoogleVMParts
<1>7. \A r \in Things : r.name = c /\ Making(r) => r = vm
  BY <1>0, <1>1 DEF Making, MakingZone, GoogleInv, GoogleVM, OnGoogleCloud
<1>8. CASE vm \in DOMAIN cloud /\ held' = held \cup {i} /\ Return(c)
  <2>1. Frame(c) /\ ~Batching(c)' /\ GoogleShape(c)' /\ SetOver(c)' /\ ~Creating(c)'
    BY <1>0, <1>8, Returns, GoogleIdle
  <2>2. HeldVMs' = HeldVMs \cup {i}
    BY <1>6, <1>8 DEF HeldVMs
  <2>3. BatchStep(c) /\ BatchMove(c)
    BY <1>0, <1>3, <1>4, <1>5, <1>6, <2>1, <2>2, CreateStep
  <2>4. Keeps(c)
    BY <1>5, <1>6, <1>7, <2>2 DEF Keeps, Kept
  <2>5. ProxyOf(i.zone, i.proxy)
    <3>1. vm \in Things
      BY <1>6, <1>8 DEF Things
    <3> QED
      BY <1>6, <3>1 DEF GoogleInv, GoogleVM
  <2> QED
    BY <1>5, <2>1, <2>2, <2>3, <2>4, <2>5, VMsSameStep DEF GoogleStep
<1>9. CASE Goto(c, "failed") /\ UNCHANGED held
  <2>1. /\ Frame(c) /\ ~Batching(c)' /\ DOMAIN call'[c] = GCreateFields /\ call'[c].pc = "failed"
        /\ call'[c].cands = call[c].cands
    BY <1>0, <1>4, <1>9, CreateGoes DEF Goto, GCreateFields
  <2>2. GoogleShape(c)' /\ SetOver(c)' /\ Creating(c)'
    BY <1>0, <1>4, <2>1 DEF GoogleShape, GCreatePcs, SetOver, Setting, GCreateFields, Creating, Idle
  <2>3. BatchStep(c) /\ BatchMove(c) /\ HeldVMs' = HeldVMs
    BY <1>0, <1>3, <1>4, <1>5, <1>9, <2>1, CreateStep DEF HeldVMs
  <2>4. Keeps(c)
    BY <1>0, <1>5, <2>1, <2>2, <2>3 DEF Keeps, Making, Made, MakingZone, MadePcs, OnGoogleCloud
  <2> QED
    BY <1>5, <2>2, <2>3, <2>4, VMsSameStep DEF GoogleStep
<1> QED
  BY <1>3, <1>8, <1>9

(* A Destroy starts. *)
LEMMA GoogleDestroyBegins ==
  ASSUME GoogleInv, UNCHANGED scenario, NEW c \in Callers, Google!DestroyBegin(c)
  PROVE  GoogleStep(c)
<1>0. GoogleShape(c) /\ BatchInv /\ DOMAIN call = Callers
  BY DEF BatchInv, GoogleInv
<1>1. PICK batch \in SUBSET HeldVMs : \E cleanup : call' = [call EXCEPT ![c] = BatchCall(batch, cleanup)]
  BY DEF Google!DestroyBegin, Google!HeldVMs, HeldVMs, Google!BatchCall, BatchCall
<1>2. call[c] = Idle /\ UNCHANGED <<cloud, abandoned, held, shared, made, destroyed>>
  BY DEF Google!DestroyBegin, Google!Idle, Idle
<1>3. Frame(c) /\ DOMAIN call'[c] = BatchFields /\ call'[c].pc = "next"
  BY <1>0, <1>1 DEF Frame, BatchCall, BatchFields
<1>4. GoogleShape(c)' /\ SetOver(c)'
  BY <1>3 DEF GoogleShape, GBatchPcs, SetOver, Setting, BatchFields
<1>5. BatchMove(c) /\ ~Creating(c)' /\ ~Creating(c)
  BY <1>0, <1>1, <1>2, BatchBegins DEF Creating
<1> QED
  BY <1>2, <1>3, <1>4, <1>5, GoogleWorks, VMsUnchanged

(* getZone: an instance that is not found is gone. *)
LEMMA GoogleFinds ==
  ASSUME GoogleInv, UNCHANGED scenario, NEW c \in Callers, Google!DestroyGetZone(c)
  PROVE  GoogleStep(c)
<1>0. GoogleShape(c) /\ BatchInv /\ DOMAIN call = Callers
  BY DEF BatchInv, GoogleInv
<1>1. /\ call[c].pc = "next" /\ UNCHANGED <<cloud, abandoned, held, shared, made, destroyed>>
  BY DEF Google!DestroyGetZone
<1>2. PICK i \in call[c].todo : \/ TakeInstance(c, i, "delete", {})
                                \/ Google!VM(i.name, i.zone) \notin DOMAIN cloud /\ SkipInstance(c, i, {})
                                \/ SkipInstance(c, i, {i})
  BY DEF Google!DestroyGetZone, Google!Exists, Google!TakeInstance, TakeInstance, Google!SkipInstance, SkipInstance
<1>3. Batching(c) /\ ~Creating(c) /\ DOMAIN call[c] = BatchFields
  BY <1>0, <1>1, GoogleKind DEF GBatchPcs
<1>4. Frame(c) /\ DOMAIN call'[c] = BatchFields /\ call'[c].pc \in {"next", "delete"}
  BY <1>0, <1>1, <1>2, <1>3 DEF Frame, TakeInstance, SkipInstance, BatchFields
<1>5. GoogleShape(c)' /\ SetOver(c)'
  BY <1>4 DEF GoogleShape, GBatchPcs, SetOver, Setting, BatchFields
<1>6. BatchMove(c) /\ ~Creating(c)'
  <2>1. CASE TakeInstance(c, i, "delete", {})
    BY <1>0, <1>1, <1>3, <2>1, BatchTakes DEF DeletePcs
  <2>2. CASE SkipInstance(c, i, {i})
    BY <1>0, <1>1, <1>3, <2>2, BatchSkips
  <2>3. CASE Google!VM(i.name, i.zone) \notin DOMAIN cloud /\ SkipInstance(c, i, {})
    <3>1. GoneOf(i)'
      BY <1>1, <2>3 DEF GoneOf, Things, GoogleInv, GoogleVM
    <3> QED
      BY <1>0, <1>1, <1>3, <2>3, <3>1, BatchSkips
  <2> QED
    BY <1>2, <2>1, <2>2, <2>3
<1> QED
  BY <1>1, <1>3, <1>4, <1>5, <1>6, GoogleWorks, VMsUnchanged

(* deleteInstanceForCleanup. *)
LEMMA GoogleDeletes ==
  ASSUME GoogleInv, UNCHANGED scenario, NEW c \in Callers, Google!DeleteInstanceForCleanup(c)
  PROVE  GoogleStep(c)
<1>0. GoogleShape(c) /\ BatchInv /\ DOMAIN call = Callers
  BY DEF BatchInv, GoogleInv
<1>1. PICK i : i = call[c].at
  OBVIOUS
<1>2. PICK vm : vm = Google!VM(i.name, i.zone)
  OBVIOUS
<1>3. /\ call[c].pc = "delete" /\ UNCHANGED <<held, shared, made, destroyed>>
      /\ \/ /\ cloud' = Without({vm}) /\ UNCHANGED abandoned
            /\ Goto(c, "disks of") \/ NextInstance(c, {})
         \/ UNCHANGED <<cloud, abandoned>> /\ NextInstance(c, {i})
         \/ UNCHANGED cloud /\ abandoned' = abandoned \cup ({vm} \cap DOMAIN cloud) /\ NextInstance(c, {})
  BY <1>1, <1>2 DEF Google!DeleteInstanceForCleanup, Google!Deleted, Google!Without, Without, Google!Refused,
                    Google!Abandon, Google!Goto, Goto, Google!NextInstance, NextInstance
<1>4. Batching(c) /\ ~Creating(c) /\ DOMAIN call[c] = BatchFields
  BY <1>0, <1>3, GoogleKind DEF GBatchPcs
<1>5. Frame(c) /\ DOMAIN call'[c] = BatchFields /\ call'[c].pc \in {"next", "disks of"}
  BY <1>0, <1>3, <1>4, NextEffect DEF Frame, Goto, BatchFields
<1>6. GoogleShape(c)' /\ SetOver(c)'
  BY <1>5 DEF GoogleShape, GBatchPcs, SetOver, Setting, BatchFields
<1>7. VMsSame /\ abandoned \subseteq abandoned'
  BY <1>3, VMsWithout, VMsUnchanged
<1>8. \A r \in Things : r.name = i.name /\ r.zone = i.zone => r = vm
  BY <1>2 DEF GoogleInv, GoogleVM
<1>9. NextInstance(c, {i}) \/ (GoneOf(i)' /\ (Goto(c, "disks of") \/ NextInstance(c, {})))
  <2>1. CASE cloud' = Without({vm}) /\ UNCHANGED abandoned /\ (Goto(c, "disks of") \/ NextInstance(c, {}))
    <3>1. Things' = Things \ {vm}
      BY <2>1, ThingsWithout
    <3>2. GoneOf(i)'
      BY <1>8, <3>1 DEF GoneOf
    <3> QED
      BY <2>1, <3>2
  <2>2. CASE UNCHANGED cloud /\ abandoned' = abandoned \cup ({vm} \cap DOMAIN cloud) /\ NextInstance(c, {})
    BY <1>8, <2>2 DEF GoneOf, Things
  <2> QED
    BY <1>3, <2>1, <2>2
<1>10. BatchMove(c) /\ ~Creating(c)'
  <2>1. CASE NextInstance(c, {i})
    BY <1>0, <1>1, <1>4, <2>1, BatchNexts
  <2>2. CASE GoneOf(i)' /\ NextInstance(c, {})
    BY <1>0, <1>1, <1>4, <2>2, BatchNexts
  <2>3. CASE GoneOf(i)' /\ Goto(c, "disks of")
    <3>1. "disks of" \notin DeletePcs
      BY DEF DeletePcs
    <3> QED
      BY <1>0, <1>1, <1>4, <2>3, <3>1, BatchGoes
  <2> QED
    BY <1>9, <2>1, <2>2, <2>3
<1> QED
  BY <1>3, <1>4, <1>5, <1>6, <1>7, <1>10, GoogleWorks

(* deletePersistentDisksForCleanup touches no VM. *)
LEMMA GoogleDeletesDisks ==
  ASSUME GoogleInv, UNCHANGED scenario, NEW c \in Callers, Google!DeletePersistentDisks(c)
  PROVE  GoogleStep(c)
<1>0. GoogleShape(c) /\ BatchInv /\ DOMAIN call = Callers
  BY DEF BatchInv, GoogleInv
<1>1. /\ call[c].pc = "disks of" /\ UNCHANGED <<held, shared, made, destroyed, abandoned>>
      /\ \E R : cloud' = Without(R)
      /\ \E failed : NextInstance(c, failed)
  BY DEF Google!DeletePersistentDisks, Google!Deleted, Google!Without, Without, Google!NextInstance, NextInstance
<1>2. Batching(c) /\ ~Creating(c) /\ DOMAIN call[c] = BatchFields
  BY <1>0, <1>1, GoogleKind DEF GBatchPcs
<1>3. Frame(c) /\ DOMAIN call'[c] = BatchFields /\ call'[c].pc = "next"
  BY <1>0, <1>1, <1>2, NextEffect
<1>4. GoogleShape(c)' /\ SetOver(c)'
  BY <1>3 DEF GoogleShape, GBatchPcs, SetOver, Setting, BatchFields
<1>5. BatchMove(c) /\ ~Creating(c)'
  <2>1. call[c].pc \notin DeletePcs
    BY <1>1 DEF DeletePcs
  <2> QED
    BY <1>0, <1>1, <1>2, <2>1, BatchNexts
<1>6. VMsSame
  BY <1>1, VMsWithout
<1> QED
  BY <1>1, <1>2, <1>3, <1>4, <1>5, <1>6, GoogleWorks

(* A Destroy returns. *)
LEMMA GoogleReturns ==
  ASSUME GoogleInv, UNCHANGED scenario, NEW c \in Callers, Google!DestroyReturn(c)
  PROVE  GoogleStep(c)
<1>0. GoogleShape(c) /\ BatchInv /\ DOMAIN call = Callers
  BY DEF BatchInv, GoogleInv
<1>1. BatchDone(c)
  BY DEF Google!DestroyReturn, Google!BatchDone, BatchDone, Google!Gone, Gone, Google!Return, Return, Google!Idle, Idle
<1>2. call[c].pc = "next" /\ UNCHANGED <<cloud, shared>> /\ Return(c) /\ held' \subseteq held
  BY <1>1 DEF BatchDone, Gone
<1>3. Batching(c)
  BY <1>0, <1>2, GoogleKind DEF GBatchPcs
<1>4. GoogleShape(c)' /\ SetOver(c)'
  BY <1>0, <1>2, Returns, GoogleIdle
<1>5. BatchStep(c) /\ BatchMove(c) /\ Keeps(c)
  BY <1>0, <1>1, <1>3, BatchDoneStep, KeepsDone
<1>6. VMsStep(c) /\ GoogleNext' /\ HeldVMs' \subseteq HeldVMs
  BY <1>2, VMsUnchanged, VMsSameStep DEF GoogleNext, GoogleInv, HeldVMs
<1> QED
  BY <1>4, <1>5, <1>6 DEF GoogleStep

(* SetLabels and SetTags. *)
LEMMA SetRetries ==
  ASSUME NEW c \in Callers, DOMAIN call = Callers, DOMAIN call[c] = GSetFields, Google!SetRetry(c)
  PROVE  /\ Frame(c)
         /\ \/ call'[c] = Idle
            \/ /\ DOMAIN call'[c] = GSetFields /\ call'[c].pc \in GSetPcs
               /\ call'[c].vm = call[c].vm /\ call'[c].field = call[c].field
BY DEF Google!SetRetry, Google!Return, Google!Idle, Idle, Frame, GSetFields, GSetPcs

(* A Set starts on a VM that is held, hence made. *)
LEMMA GoogleSetBegins ==
  ASSUME GoogleInv, UNCHANGED scenario, NEW c \in Callers, Google!SetBegin(c)
  PROVE  GoogleStep(c)
<1>0. GoogleShape(c) /\ BatchInv /\ DOMAIN call = Callers
  BY DEF BatchInv, GoogleInv
<1>1. PICK i \in HeldVMs, field \in {"labels", "metadata"} :
        call' = [call EXCEPT ![c] = [pc |-> "read", vm |-> Google!VM(i.name, i.zone), field |-> field,
                                     seen |-> {}, tries |-> 1]]
  BY DEF Google!SetBegin, Google!HeldVMs, HeldVMs
<1>2. call[c] = Idle /\ UNCHANGED <<cloud, abandoned, held, shared, made, destroyed>>
  BY DEF Google!SetBegin, Google!Idle, Idle
<1>3. PICK vm : vm = Google!VM(i.name, i.zone)
  OBVIOUS
<1>4. vm.kind = "vm" /\ vm.name = i.name
  BY <1>3, GoogleVMParts
<1>5. /\ Frame(c) /\ DOMAIN call'[c] = GSetFields /\ call'[c].pc = "read" /\ call'[c].field = field
      /\ call'[c].vm = vm
  BY <1>0, <1>1, <1>3 DEF Frame, GSetFields
<1>6. ~Creating(c) /\ ~Creating(c)' /\ ~Batching(c)'
  BY <1>2, <1>5 DEF Creating, Batching, GSetFields
<1>7. GoogleShape(c)' /\ BatchMove(c)
  BY <1>4, <1>5, <1>6 DEF GoogleShape, GSetPcs, BatchMove
<1>8. SetOver(c)'
  <2>1. Over(i)
    BY <1>0 DEF BatchInv
  <2>2. ~Creating(i.name)'
    BY <1>5, <1>6, <2>1 DEF Over, Creating, Frame
  <2> QED
    BY <1>2, <1>4, <1>5, <2>1, <2>2 DEF SetOver, Over
<1> QED
  BY <1>2, <1>5, <1>6, <1>7, <1>8, GoogleWorks, VMsUnchanged

(* A call that sets stays one, or ends. *)
LEMMA GoogleSets ==
  ASSUME GoogleInv, NEW c \in Callers, call[c].pc \in GSetPcs, Frame(c), UNCHANGED <<made, scenario>>,
         \/ call'[c] = Idle
         \/ /\ DOMAIN call'[c] = GSetFields /\ call'[c].pc \in GSetPcs
            /\ call'[c].vm = call[c].vm /\ call'[c].field = call[c].field
  PROVE  BatchMove(c) /\ ~Creating(c) /\ ~Creating(c)' /\ GoogleShape(c)' /\ SetOver(c)'
<1>1. /\ Setting(c) /\ ~Creating(c) /\ DOMAIN call[c] = GSetFields
      /\ call[c].field \in {"labels", "metadata"} /\ call[c].vm.kind = "vm"
  BY GoogleKind DEF GoogleInv
<1>2. CASE call'[c] = Idle
  BY <1>1, <1>2, GoogleIdle DEF BatchMove, Batching, Creating, Idle
<1>3. CASE /\ DOMAIN call'[c] = GSetFields /\ call'[c].pc \in GSetPcs
           /\ call'[c].vm = call[c].vm /\ call'[c].field = call[c].field
  <2>1. ~Creating(c)' /\ ~Batching(c)'
    BY <1>3 DEF Creating, Batching, GSetFields
  <2>2. GoogleShape(c)'
    BY <1>1, <1>3 DEF GoogleShape
  <2>3. Over(call[c].vm)
    BY <1>1 DEF SetOver, GoogleInv
  <2>4. PICK vm : vm = call[c].vm
    OBVIOUS
  <2>5. Over(vm)'
    BY <2>1, <2>3, <2>4 DEF Over, Creating, Frame
  <2>6. SetOver(c)'
    BY <1>3, <2>4, <2>5 DEF SetOver, Over
  <2> QED
    BY <1>1, <2>1, <2>2, <2>6 DEF BatchMove
<1> QED
  BY <1>2, <1>3

(* The labels are read. *)
LEMMA GoogleReads ==
  ASSUME GoogleInv, UNCHANGED scenario, NEW c \in Callers, Google!SetRead(c)
  PROVE  GoogleStep(c)
<1>0. GoogleShape(c) /\ BatchInv /\ DOMAIN call = Callers
  BY DEF BatchInv, GoogleInv
<1>1. /\ call[c].pc = "read" /\ UNCHANGED <<cloud, abandoned, held, shared, made, destroyed>>
      /\ \/ call' = [call EXCEPT ![c].pc = "write", ![c].seen = cloud[call[c].vm][call[c].field]]
         \/ Google!SetRetry(c)
  BY DEF Google!SetRead
<1>2. DOMAIN call[c] = GSetFields /\ call[c].pc \in GSetPcs
  BY <1>0, <1>1, GoogleKind DEF GSetPcs
<1>3. /\ Frame(c)
      /\ \/ call'[c] = Idle
         \/ /\ DOMAIN call'[c] = GSetFields /\ call'[c].pc \in GSetPcs
            /\ call'[c].vm = call[c].vm /\ call'[c].field = call[c].field
  <2>1. CASE Google!SetRetry(c)
    BY <1>0, <1>2, <2>1, SetRetries
  <2>2. CASE call' = [call EXCEPT ![c].pc = "write", ![c].seen = cloud[call[c].vm][call[c].field]]
    BY <1>0, <1>2, <2>2 DEF Frame, GSetFields, GSetPcs
  <2> QED
    BY <1>1, <2>1, <2>2
<1>4. BatchMove(c) /\ ~Creating(c) /\ ~Creating(c)' /\ GoogleShape(c)' /\ SetOver(c)'
  BY <1>1, <1>2, <1>3, GoogleSets
<1> QED
  BY <1>1, <1>3, <1>4, GoogleWorks, VMsUnchanged

(* A step that changes the attributes of one VM that is not being made. *)
LEMMA GoogleLabels ==
  ASSUME GoogleInv, NEW c \in Callers, BatchMove(c), ~Creating(c), ~Creating(c)', Frame(c),
         GoogleShape(c)', SetOver(c)', NEW vm, ~Creating(vm.name), vm \in Things,
         NEW field \in {"labels", "metadata", "status"}, NEW x,
         field # "status" => cloud[vm][field] \subseteq x,
         cloud' = [cloud EXCEPT ![vm][field] = x],
         UNCHANGED <<abandoned, held, made, destroyed, scenario, shared>>
  PROVE  GoogleStep(c)
<1>1. Things' = Things /\ ~Made(c) /\ HeldVMs' = HeldVMs
  BY DEF Things, Made, HeldVMs
<1>2. BatchStep(c) /\ Keeps(c)
  BY <1>1, CalmStep, KeepsCalm DEF Calm, Frame, GoogleInv, BatchInv
<1>3. DOMAIN cloud[vm] = Attributes /\ vm \in DOMAIN cloud
  BY DEF GoogleInv, GoogleVM, Things
<1>4. cloud'[vm] = [cloud[vm] EXCEPT ![field] = x] /\ \A r \in DOMAIN cloud \ {vm} : cloud'[r] = cloud[r]
  BY <1>3
<1>5. Labelled(vm)
  BY <1>3, <1>4 DEF Labelled, Attributes
<1>6. VMsStep(c)
  BY <1>1, <1>4, <1>5 DEF VMsStep, Labelled, Things
<1> QED
  BY <1>1, <1>2, <1>6 DEF GoogleStep, GoogleNext, GoogleInv

(* They are written back under the fingerprint that was read: nothing that *)
(* was set meanwhile is lost.                                              *)
LEMMA GoogleWrites ==
  ASSUME GoogleInv, UNCHANGED scenario, NEW c \in Callers, Google!SetWrite(c)
  PROVE  GoogleStep(c)
<1>0. GoogleShape(c) /\ BatchInv /\ DOMAIN call = Callers /\ SetOver(c)
  BY DEF BatchInv, GoogleInv
<1>1. PICK vm, field : vm = call[c].vm /\ field = call[c].field
  OBVIOUS
<1>2. /\ call[c].pc = "write" /\ UNCHANGED <<abandoned, held, shared, made, destroyed>>
      /\ Return(c) \/ Google!SetRetry(c)
      /\ \/ UNCHANGED cloud
         \/ /\ vm \in DOMAIN cloud /\ cloud[vm][field] = call[c].seen
            /\ cloud' = [cloud EXCEPT ![vm][field] = call[c].seen \cup {c}]
  BY <1>1 DEF Google!SetWrite, Google!Exists, Google!Return, Return, Google!Idle, Idle
<1>3. /\ DOMAIN call[c] = GSetFields /\ call[c].pc \in GSetPcs /\ Setting(c)
      /\ field \in {"labels", "metadata"} /\ vm.kind = "vm"
  BY <1>0, <1>1, <1>2, GoogleKind DEF GSetPcs
<1>4. /\ Frame(c)
      /\ \/ call'[c] = Idle
         \/ /\ DOMAIN call'[c] = GSetFields /\ call'[c].pc \in GSetPcs
            /\ call'[c].vm = call[c].vm /\ call'[c].field = call[c].field
  BY <1>0, <1>2, <1>3, SetRetries, Returns
<1>5. BatchMove(c) /\ ~Creating(c) /\ ~Creating(c)' /\ GoogleShape(c)' /\ SetOver(c)'
  BY <1>2, <1>3, <1>4, GoogleSets
<1>6. CASE UNCHANGED cloud
  BY <1>2, <1>4, <1>5, <1>6, GoogleWorks, VMsUnchanged
<1>7. CASE /\ vm \in DOMAIN cloud /\ cloud[vm][field] = call[c].seen
           /\ cloud' = [cloud EXCEPT ![vm][field] = call[c].seen \cup {c}]
  <2>1. vm \in Things /\ ~Creating(vm.name) /\ cloud[vm][field] \subseteq call[c].seen \cup {c}
    BY <1>0, <1>1, <1>3, <1>7 DEF Things, SetOver, Over
  <2> QED
    BY <1>2, <1>3, <1>4, <1>5, <1>7, <2>1, GoogleLabels
<1> QED
  BY <1>2, <1>6, <1>7

(* Hibernate and Start. *)
LEMMA GooglePowers ==
  ASSUME GoogleInv, UNCHANGED scenario, NEW c \in Callers, Google!Hibernate(c) \/ Google!Start(c)
  PROVE  GoogleStep(c)
<1>0. BatchInv /\ DOMAIN call = Callers
  BY DEF BatchInv, GoogleInv
<1>1. PICK from, to : Google!SetStatus(c, from, to)
  BY DEF Google!Hibernate, Google!Start
<1>2. call[c] = Idle /\ UNCHANGED <<abandoned, held, call, shared, made, destroyed>>
  BY <1>1 DEF Google!SetStatus, Google!Idle, Idle
<1>3. PICK i \in HeldVMs : /\ Google!VM(i.name, i.zone) \in DOMAIN cloud
                           /\ cloud' = [cloud EXCEPT ![Google!VM(i.name, i.zone)].status = to]
  BY <1>1 DEF Google!SetStatus, Google!Exists, Google!HeldVMs, HeldVMs
<1>4. PICK vm : vm = Google!VM(i.name, i.zone)
  OBVIOUS
<1>5. vm \in Things /\ ~Creating(vm.name)
  BY <1>0, <1>3, <1>4, GoogleVMParts DEF Things, BatchInv, Over
<1>6. Frame(c) /\ ~Creating(c) /\ ~Creating(c)' /\ BatchMove(c) /\ GoogleShape(c)' /\ SetOver(c)'
  BY <1>0, <1>2, GoogleIdle DEF Frame, Creating, BatchMove, Batching, Idle
<1>7. cloud' = [cloud EXCEPT ![vm]["status"] = to]
  BY <1>3, <1>4
<1> QED
  BY <1>2, <1>5, <1>6, <1>7, GoogleLabels

(* The capacity reservations. *)
LEMMA GoogleCapacity ==
  ASSUME GoogleInv, UNCHANGED scenario, NEW c \in Callers, Google!ReserveCapacity(c) \/ Google!DestroyCapacity(c)
  PROVE  GoogleStep(c)
<1>0. BatchInv /\ DOMAIN call = Callers /\ OnGoogleCloud /\ GoogleNext
  BY DEF BatchInv, GoogleInv
<1>1. /\ call[c] = Idle /\ UNCHANGED <<call, destroyed>> /\ made \subseteq made' /\ abandoned \subseteq abandoned'
      /\ shared' = [shared EXCEPT !.next = Google!NextNetworkConfig] \/ shared' = shared
  BY DEF Google!ReserveCapacity, Google!DestroyCapacity, Google!Fresh, Google!Idle, Idle, Google!Deleted
<1>2. HeldVMs' = HeldVMs
  <2>1. CASE UNCHANGED held
    BY <2>1 DEF HeldVMs
  <2>2. CASE Google!ReserveCapacity(c) /\ ~UNCHANGED held
    <3>1. PICK zone : held' = held \cup {[what |-> "reservation", name |-> c, zone |-> zone]}
      BY <2>2 DEF Google!ReserveCapacity
    <3> QED
      BY <3>1 DEF HeldVMs
  <2>3. CASE Google!DestroyCapacity(c)
    BY <2>3 DEF Google!DestroyCapacity, Google!HeldVMs, HeldVMs
  <2> QED
    BY <2>1, <2>2, <2>3
<1>3. VMsSame
  <2>1. \A d, zone : Google!Resource("reservation", d, zone).kind = "reservation"
    BY DEF Google!Resource
  <2>2. CASE UNCHANGED cloud
    BY <2>2, VMsUnchanged
  <2>3. CASE Google!ReserveCapacity(c) /\ ~UNCHANGED cloud
    <3>1. PICK zone : cloud' = With({Google!Resource("reservation", c, zone)}, "ttl")
      BY <2>3 DEF Google!ReserveCapacity, Google!Add, Google!With, With
    <3>2. PICK r : r = Google!Resource("reservation", c, zone)
      OBVIOUS
    <3> QED
      BY <1>0, <2>1, <3>1, <3>2 DEF VMsSame, Things, With, OnGoogleCloud
  <2>4. CASE Google!DestroyCapacity(c)
    <3>1. \E R : cloud' = Without(R)
      BY <2>4 DEF Google!DestroyCapacity, Google!Deleted, Google!Without, Without
    <3> QED
      BY <3>1, VMsWithout
  <2> QED
    BY <2>2, <2>3, <2>4
<1>4. BatchStep(c) /\ BatchMove(c) /\ Keeps(c)
  BY <1>0, <1>1, <1>2, <1>3, IdleStep DEF VMsSame
<1>5. GoogleNext'
  BY <1>0, <1>1, NextFits DEF GoogleNext
<1>6. GoogleShape(c)' /\ SetOver(c)'
  BY <1>1, GoogleIdle
<1> QED
  BY <1>2, <1>3, <1>4, <1>5, <1>6, VMsSameStep DEF GoogleStep

(* What is not the step of a call. *)
LEMMA GoogleExpires ==
  ASSUME GoogleInv, UNCHANGED scenario, Google!StockoutExpires \/ Google!ReservationExpires
  PROVE  GoogleInv' /\ VMsSame
<1>1. /\ UNCHANGED <<abandoned, held, call, made, destroyed>>
      /\ shared' = shared \/ \E z : shared' = [shared EXCEPT !.stockout = z]
  BY DEF Google!StockoutExpires, Google!ReservationExpires
<1>2. VMsSame /\ Things' = Things
  <2>1. CASE Google!StockoutExpires
    BY <2>1, ThingsSame, VMsUnchanged DEF Google!StockoutExpires
  <2>2. CASE Google!ReservationExpires
    <3>1. PICK r : r.kind = "reservation" /\ cloud' = Without({r})
      BY <2>2 DEF Google!ReservationExpires, Google!Without, Without
    <3>2. r \notin Things
      BY <3>1 DEF GoogleInv, OnGoogleCloud, Things
    <3> QED
      BY <3>1, <3>2, VMsWithout, ThingsWithout
  <2> QED
    BY <2>1, <2>2
<1>3. BatchInv' /\ Owned'
  BY <1>1, <1>2, BatchSame, OwnedSame DEF GoogleInv, Same
<1>4. \A c \in Callers : GoogleShape(c)'
  BY <1>1, ConfigSame DEF GoogleInv, GoogleShape
<1>5. \A c \in Callers : SetOver(c)'
  BY <1>1 DEF GoogleInv, SetOver, Setting, Over, Creating
<1>6. \A r \in Things' : GoogleVM(r)'
  <2> SUFFICES ASSUME NEW r \in Things
               PROVE  GoogleVM(r)'
    BY <1>2
  <2>1. GoogleVM(r) /\ cloud'[r] = cloud[r]
    BY <1>2 DEF GoogleInv, VMsSame
  <2>2. r = Google!VM(r.name, r.zone) <=> (r = Google!VM(r.name, r.zone))'
    BY DEF Google!VM, Google!Resource
  <2> QED
    BY <1>1, <2>1, <2>2, ConfigSame DEF GoogleVM, Creating
<1>7. \A i \in HeldVMs' : ProxyOf(i.zone, i.proxy)'
  BY <1>1, ConfigSame DEF GoogleInv, HeldVMs
<1>8. OnGoogleCloud' /\ GoogleNext'
  BY <1>1 DEF GoogleInv, OnGoogleCloud, GoogleNext
<1> QED
  BY <1>2, <1>3, <1>4, <1>5, <1>6, <1>7, <1>8 DEF GoogleInv

(* Two calls that label one VM do not undo each other. *)
KeepLabels == \A r \in DOMAIN cloud \cap DOMAIN cloud' :
                r.kind = "vm" => /\ cloud[r].labels \subseteq cloud'[r].labels
                                 /\ cloud[r].metadata \subseteq cloud'[r].metadata

(* A step that labels, or makes a VM anew, loses no label: a call that     *)
(* makes a VM under its name again finds none on it.                       *)
LEMMA GoogleKeepsLabels ==
  ASSUME GoogleInv, UNCHANGED scenario, VMsSame \/ \E c \in Callers : VMsStep(c)
  PROVE  KeepLabels
<1> SUFFICES ASSUME NEW r \in Things \cap Things'
             PROVE  cloud[r].labels \subseteq cloud'[r].labels /\ cloud[r].metadata \subseteq cloud'[r].metadata
  BY DEF KeepLabels, Things
<1>1. CASE VMsSame
  BY <1>1 DEF VMsSame
<1>2. ASSUME NEW c \in Callers, VMsStep(c)
      PROVE  cloud[r].labels \subseteq cloud'[r].labels /\ cloud[r].metadata \subseteq cloud'[r].metadata
  <2>1. GoogleVM(r)
    BY DEF GoogleInv
  <2>2. CASE Labelled(r)
    BY <2>2 DEF Labelled
  <2>3. CASE NewVM(c, r)
    BY <2>1, <2>3 DEF NewVM, GoogleVM
  <2> QED
    BY <1>2, <2>2, <2>3 DEF VMsStep
<1> QED
  BY <1>1, <1>2

(* Every step of the driver keeps its invariant and the labels. *)
LEMMA GoogleNextKeeps ==
  ASSUME GoogleInv, Of("google", Google!Next)
  PROVE  GoogleInv' /\ KeepLabels
<1>1. CASE \E c \in Callers : GoogleStep(c)
  BY <1>1, GoogleCombine, GoogleKeepsLabels DEF GoogleStep, Of
<1>2. CASE Google!StockoutExpires \/ Google!ReservationExpires
  BY <1>2, GoogleExpires, GoogleKeepsLabels DEF Of
<1> QED
  BY <1>1, <1>2, GoogleBegins, GoogleAttaches, GoogleInserts, GoogleCleansUp, GoogleGets, GoogleDestroyBegins,
     GoogleFinds, GoogleDeletes, GoogleDeletesDisks, GoogleReturns, GoogleSetBegins, GoogleReads, GoogleWrites,
     GooglePowers, GoogleCapacity DEF Of, Google!Next

-----------------------------------------------------------------------------
(* Nomad.  One VM per caller: its resource job holds the room, the init    *)
(* job makes the VM in it and the destroy job removes it.  What is claimed *)
(* of a VM that is held or was destroyed rests on what was true before the *)
(* Create returned it, hence the cases by how far the call is.             *)
NomadVM(c) == [what |-> "vm", name |-> c, zone |-> NoZone]
NomadReservation(c) == [what |-> "reservation", name |-> c, zone |-> NoZone]

CreatePcs == {"resource", "fetch", "init", "poll", "summary", "info"}
DestroyPcs == {"deregister", "register", "wait"}

Holds(c) == NomadVM(c) \in held
Reserves(c) == NomadReservation(c) \in held
Destroyed(c) == NomadVM(c) \in destroyed
Up(c) == Exists(Nomad!VM(c))
Left(c) == Nomad!VM(c) \in abandoned
Failures(c) == cloud[Nomad!Job("resource", c)].failures
ResourceStatus(c) == Nomad!Status("resource", c)
InitStatus(c) == Nomad!Status("init", c)
DestroyStatus(c) == Nomad!Status("destroy", c)

NomadCall(c) ==
  /\ "pc" \in DOMAIN call[c]
  /\ call[c].pc \in {"idle"} \cup CreatePcs \cup DestroyPcs
  /\ call[c].pc = "idle" => call[c] = Idle
  /\ call[c].pc \in CreatePcs => "reserve" \in DOMAIN call[c]
  /\ call[c].pc \in DestroyPcs => "of" \in DOMAIN call[c] /\ call[c].of = NomadVM(c)

NomadTypes ==
  /\ DOMAIN call = Callers
  /\ \A i \in held : i.name \in Callers /\ (i = NomadVM(i.name) \/ i = NomadReservation(i.name))
  /\ \A i \in destroyed : i.name \in Callers /\ i = NomadVM(i.name)
  /\ {"deregister", "destroy"} \subseteq DOMAIN shared
  /\ DOMAIN shared.destroy = Callers
  /\ \A job \in shared.deregister :
       job.name \in Callers /\ \E k \in {"resource", "init"} : job = Nomad!Job(k, job.name)
  /\ \A r \in DOMAIN cloud : r.kind = "vm" => r = Nomad!VM(r.name) /\ r.name \in Callers

NomadJob(c) ==
  ResourceStatus(c) # "absent" =>
    /\ Failures(c) \in Nat
    /\ ResourceStatus(c) = "running" => Failures(c) < MaxFailures

NotYet(c) == /\ ~Holds(c) /\ ~Destroyed(c)
             /\ DestroyStatus(c) = "absent" /\ shared.destroy[c] = "idle"
InitOver(c) == InitStatus(c) \notin {"pending", "started"}
Removed(c) == ~Up(c) \/ Left(c)

NomadCaller(c) ==
  /\ c \notin made => call[c] = Idle /\ ~Reserves(c) /\ NotYet(c)
  /\ call[c].pc \in CreatePcs => ~Reserves(c) /\ NotYet(c)
  /\ call[c].pc = "info" => InitOver(c)
  /\ call[c].pc \in DestroyPcs => Holds(c)
  /\ Reserves(c) => NotYet(c)
  /\ Holds(c) \/ Destroyed(c) =>
       /\ InitOver(c)
       /\ ResourceStatus(c) # "absent"
       /\ Up(c) => Failures(c) < MaxFailures
       /\ DestroyStatus(c) = "dead" => Removed(c)
  /\ Destroyed(c) => Removed(c)

NomadInv == NomadTypes /\ \A c \in Callers : NomadCall(c) /\ NomadJob(c) /\ NomadCaller(c)

ResourceSame(c) == /\ ResourceStatus(c)' = ResourceStatus(c)
                   /\ ResourceStatus(c) # "absent" => Failures(c)' = Failures(c)
CloudSame(c) == /\ (Up(c)' <=> Up(c)) /\ ResourceSame(c)
                /\ InitStatus(c)' = InitStatus(c) /\ DestroyStatus(c)' = DestroyStatus(c)
HeldSame(c) == /\ (Holds(c)' <=> Holds(c)) /\ (Reserves(c)' <=> Reserves(c))
               /\ Destroyed(c)' <=> Destroyed(c)
LeftSame(c) == Left(c) => Left(c)'

(* A step on behalf of caller c leaves the others alone. *)
CloudOnly(c) ==
  /\ \A d \in Callers \ {c} : CloudSame(d)
  /\ \A r \in DOMAIN cloud' : r.kind = "vm" => r \in DOMAIN cloud \/ r = Nomad!VM(c)
HeldOnly(c) ==
  /\ \A d \in Callers \ {c} : HeldSame(d)
  /\ held' \subseteq held \cup {NomadVM(c), NomadReservation(c)}
  /\ destroyed' \subseteq destroyed \cup {NomadVM(c)}
SharedOnly(c) ==
  /\ DOMAIN shared' = DOMAIN shared /\ DOMAIN shared'.destroy = Callers
  /\ \A d \in Callers \ {c} : shared'.destroy[d] = shared.destroy[d]
  /\ \A job \in shared'.deregister :
       job \in shared.deregister \/ \E k \in {"resource", "init"} : job = Nomad!Job(k, c)
RestOnly(c) ==
  /\ DOMAIN call' = DOMAIN call
  /\ \A d \in Callers \ {c} : call'[d] = call[d] /\ (d \in made' <=> d \in made) /\ LeftSame(d)
NomadOnly(c) == CloudOnly(c) /\ HeldOnly(c) /\ SharedOnly(c) /\ RestOnly(c)

(* A step on behalf of one caller that keeps what is claimed of that       *)
(* caller keeps the invariant.                                             *)
LEMMA NomadCombine ==
  ASSUME NomadInv, NEW c \in Callers, NomadOnly(c), NomadCall(c)', NomadJob(c)', NomadCaller(c)'
  PROVE  NomadInv'
<1>1. ASSUME NEW d \in Callers, d # c
      PROVE  NomadCall(d)' /\ NomadJob(d)' /\ NomadCaller(d)'
  <2>1. /\ CloudSame(d) /\ HeldSame(d) /\ LeftSame(d)
        /\ call'[d] = call[d] /\ (d \in made' <=> d \in made) /\ shared'.destroy[d] = shared.destroy[d]
    BY <1>1 DEF NomadOnly, CloudOnly, HeldOnly, SharedOnly, RestOnly
  <2>2. NomadCall(d) /\ NomadJob(d) /\ NomadCaller(d)
    BY DEF NomadInv
  <2> QED
    BY <2>1, <2>2 DEF NomadCall, NomadJob, NomadCaller, NotYet, InitOver, Removed, CloudSame,
                      ResourceSame, HeldSame, LeftSame
<1>2. NomadTypes'
  <2>1. \A i \in held' : i.name \in Callers /\ (i = NomadVM(i.name) \/ i = NomadReservation(i.name))
    BY DEF NomadInv, NomadTypes, NomadOnly, HeldOnly, NomadVM, NomadReservation
  <2>2. \A i \in destroyed' : i.name \in Callers /\ i = NomadVM(i.name)
    BY DEF NomadInv, NomadTypes, NomadOnly, HeldOnly, NomadVM
  <2>3. \A job \in shared'.deregister :
          job.name \in Callers /\ \E k \in {"resource", "init"} : job = Nomad!Job(k, job.name)
    BY DEF NomadInv, NomadTypes, NomadOnly, SharedOnly, Nomad!Job, Nomad!Resource
  <2>4. \A r \in DOMAIN cloud' : r.kind = "vm" => r = Nomad!VM(r.name) /\ r.name \in Callers
    BY DEF NomadInv, NomadTypes, NomadOnly, CloudOnly, Nomad!VM, Nomad!Resource
  <2> QED
    BY <2>1, <2>2, <2>3, <2>4 DEF NomadInv, NomadTypes, NomadOnly, SharedOnly, RestOnly
<1> QED
  BY <1>1, <1>2 DEF NomadInv

(* What setting a job does to the view of its caller, and of the others.   *)
ResourceTo(c, s) == /\ ResourceStatus(c)' = s /\ Failures(c)' = 0
                    /\ InitStatus(c)' = InitStatus(c) /\ DestroyStatus(c)' = DestroyStatus(c)
                    /\ Up(c)' <=> Up(c)
InitTo(c, s) == /\ InitStatus(c)' = s
                /\ ResourceSame(c) /\ DestroyStatus(c)' = DestroyStatus(c)
                /\ Up(c)' <=> Up(c)
DestroyTo(c, s) == /\ DestroyStatus(c)' = s
                   /\ ResourceSame(c) /\ InitStatus(c)' = InitStatus(c)
                   /\ Up(c)' <=> Up(c)

(* Without a change of the cluster every view stays. *)
LEMMA CloudUnchanged ==
  ASSUME NEW c, UNCHANGED cloud
  PROVE  CloudOnly(c) /\ CloudSame(c)
BY DEF CloudOnly, CloudSame, ResourceSame, Up, Failures, ResourceStatus, InitStatus, DestroyStatus,
       Exists, Nomad!Status, Nomad!Exists

(* Setting a job of c changes no view of another caller. *)
LEMMA SetJobOnly ==
  ASSUME NEW c, NEW k \in {"resource", "init", "destroy"}, NEW s, Nomad!SetJob(k, c, s)
  PROVE  CloudOnly(c)
BY DEF Nomad!SetJob, Nomad!Add, Nomad!With, Nomad!Job, Nomad!VM, Nomad!Resource, CloudOnly,
       CloudSame, ResourceSame, Up, Failures, ResourceStatus, InitStatus, DestroyStatus, Exists,
       Nomad!Status, Nomad!Exists

(* It changes the one job in the view of c. *)
LEMMA SetJobTo ==
  ASSUME NEW c, NEW s
  PROVE  /\ Nomad!SetJob("resource", c, s) => ResourceTo(c, s)
         /\ Nomad!SetJob("init", c, s) => InitTo(c, s)
         /\ Nomad!SetJob("destroy", c, s) => DestroyTo(c, s)
<1> USE DEF Nomad!SetJob, Nomad!Add, Nomad!With, Nomad!Job, Nomad!VM, Nomad!Resource, ResourceSame,
       Up, Failures, ResourceStatus, InitStatus, DestroyStatus, Exists, Nomad!Status, Nomad!Exists
<1>1. Nomad!SetJob("resource", c, s) => ResourceTo(c, s)
  BY DEF ResourceTo
<1>2. Nomad!SetJob("init", c, s) => InitTo(c, s)
  BY DEF InitTo
<1>3. Nomad!SetJob("destroy", c, s) => DestroyTo(c, s)
  BY DEF DestroyTo
<1> QED
  BY <1>1, <1>2, <1>3

(* Nothing is taken or given back. *)
LEMMA HeldUnchanged ==
  ASSUME NEW c, UNCHANGED <<held, destroyed>>
  PROVE  HeldOnly(c) /\ HeldSame(c)
BY DEF HeldOnly, HeldSame, Holds, Reserves, Destroyed

(* Something of c is taken. *)
LEMMA HeldTakes ==
  ASSUME NEW c, UNCHANGED destroyed
  PROVE  /\ held' = held \cup {NomadVM(c)} =>
              HeldOnly(c) /\ Holds(c)' /\ (Reserves(c)' <=> Reserves(c)) /\ (Destroyed(c)' <=> Destroyed(c))
         /\ held' = held \cup {NomadReservation(c)} =>
              HeldOnly(c) /\ Reserves(c)' /\ (Holds(c)' <=> Holds(c)) /\ (Destroyed(c)' <=> Destroyed(c))
         /\ held' = held \ {NomadReservation(c)} =>
              HeldOnly(c) /\ ~Reserves(c)' /\ (Holds(c)' <=> Holds(c)) /\ (Destroyed(c)' <=> Destroyed(c))
BY DEF HeldOnly, HeldSame, Holds, Reserves, Destroyed, NomadVM, NomadReservation

(* Something of c is given back. *)
LEMMA HeldGone ==
  ASSUME NEW c, held' = held \ {NomadVM(c)}, destroyed' = destroyed \cup {NomadVM(c)}
  PROVE  HeldOnly(c) /\ ~Holds(c)' /\ (Reserves(c)' <=> Reserves(c)) /\ Destroyed(c)'
BY DEF HeldOnly, HeldSame, Holds, Reserves, Destroyed, NomadVM, NomadReservation

(* A goroutine that deregisters a job of c is started. *)
LEMMA GoDeregister ==
  ASSUME NomadTypes, NEW c \in Callers, Nomad!GoDeregister({"resource"}, c) \/ UNCHANGED shared
  PROVE  SharedOnly(c) /\ shared'.destroy[c] = shared.destroy[c]
BY DEF NomadTypes, SharedOnly, Nomad!GoDeregister

(* A goroutine that destroys the VM of c is started. *)
LEMMA GoDestroy ==
  ASSUME NomadTypes, NEW c \in Callers, NEW kinds \in SUBSET {"init"},
         Nomad!GoDestroy(c, kinds)
  PROVE  SharedOnly(c)
BY DEF NomadTypes, SharedOnly, Nomad!GoDestroy

(* A call of c goes on. *)
LEMMA RestCall ==
  ASSUME NomadTypes, NEW c \in Callers, NEW x, UNCHANGED <<made, abandoned>>,
         call' = [call EXCEPT ![c] = x]
  PROVE  RestOnly(c) /\ call'[c] = x /\ LeftSame(c)
BY DEF RestOnly, LeftSame, NomadTypes, Left

(* Create registers the resource job. *)
LEMMA NomadRegisterResourceJob ==
  ASSUME NomadInv, NEW c \in Callers, Nomad!RegisterResourceJob(c)
  PROVE  NomadInv'
<1>1. NomadTypes /\ NomadCall(c) /\ NomadJob(c) /\ NomadCaller(c)
  BY DEF NomadInv
<1>2. /\ NomadOnly(c) /\ LeftSame(c) /\ HeldSame(c) /\ shared' = shared
      /\ c \notin made /\ call[c] = Idle /\ c \in made'
      /\ \/ call'[c] = Idle /\ CloudSame(c)
         \/ /\ call'[c].pc = "resource" /\ DOMAIN call'[c] = {"pc", "reserve"}
            /\ ResourceTo(c, "pending")
  BY <1>1, CloudUnchanged, SetJobOnly, SetJobTo, HeldUnchanged
     DEF Nomad!RegisterResourceJob, Nomad!Fresh, Nomad!Return, Nomad!Goto, Nomad!Idle, Idle, NomadTypes, NomadCall, RestOnly, LeftSame, Left, NomadOnly, SharedOnly
<1>3. NomadCall(c)'
  BY <1>1, <1>2 DEF NomadCall, CreatePcs, DestroyPcs, Idle
<1>4. NomadJob(c)'
  BY <1>1, <1>2, FailuresAssumption DEF NomadJob, CloudSame, ResourceSame, ResourceTo, InitTo, DestroyTo
<1>5. NomadCaller(c)'
  BY <1>1, <1>2, FailuresAssumption DEF NomadCall, NomadJob, NomadCaller, NotYet, InitOver, Removed, CloudSame,
     ResourceSame, ResourceTo, InitTo, DestroyTo, HeldSame, LeftSame, CreatePcs, DestroyPcs, Idle
<1> QED
  BY <1>2, <1>3, <1>4, <1>5, NomadCombine

(* It polls until the job runs or is dead. *)
LEMMA NomadPollResourceJob ==
  ASSUME NomadInv, NEW c \in Callers, Nomad!PollResourceJob(c)
  PROVE  NomadInv'
<1>1. NomadTypes /\ NomadCall(c) /\ NomadJob(c) /\ NomadCaller(c)
  BY DEF NomadInv
<1>2. /\ NomadOnly(c) /\ LeftSame(c) /\ CloudSame(c) /\ made' = made
      /\ call[c].pc = "resource" /\ shared'.destroy[c] = shared.destroy[c]
      /\ (Holds(c)' <=> Holds(c)) /\ (Destroyed(c)' <=> Destroyed(c))
      /\ \/ call'[c] = Idle
         \/ call'[c] = [call[c] EXCEPT !.pc = "fetch"] /\ (Reserves(c)' <=> Reserves(c))
  BY <1>1, CloudUnchanged, GoDeregister, HeldUnchanged, HeldTakes
     DEF Nomad!PollResourceJob, NomadReservation, HeldSame, Nomad!Return, Nomad!Goto, Nomad!Idle, Idle, NomadTypes, NomadCall, RestOnly, LeftSame, Left, NomadOnly, SharedOnly
<1>3. NomadCall(c)'
  BY <1>1, <1>2 DEF NomadCall, CreatePcs, DestroyPcs, Idle
<1>4. NomadJob(c)'
  BY <1>1, <1>2, FailuresAssumption DEF NomadJob, CloudSame, ResourceSame, ResourceTo, InitTo, DestroyTo
<1>5. NomadCaller(c)'
  BY <1>1, <1>2, FailuresAssumption DEF NomadCall, NomadJob, NomadCaller, NotYet, InitOver, Removed, CloudSame,
     ResourceSame, ResourceTo, InitTo, DestroyTo, HeldSame, LeftSame, CreatePcs, DestroyPcs, Idle
<1> QED
  BY <1>2, <1>3, <1>4, <1>5, NomadCombine

(* It starts from a reservation instead. *)
LEMMA NomadCreateReserved ==
  ASSUME NomadInv, NEW c \in Callers, Nomad!CreateReserved(c)
  PROVE  NomadInv'
<1>1. NomadTypes /\ NomadCall(c) /\ NomadJob(c) /\ NomadCaller(c)
  BY DEF NomadInv
<1>2. /\ NomadOnly(c) /\ LeftSame(c) /\ CloudSame(c) /\ made' = made /\ shared' = shared
      /\ Reserves(c) /\ ~Reserves(c)' /\ (Holds(c)' <=> Holds(c)) /\ (Destroyed(c)' <=> Destroyed(c))
      /\ call'[c] = [pc |-> "fetch", reserve |-> TRUE]
  BY <1>1, CloudUnchanged, HeldTakes
     DEF Nomad!CreateReserved, Nomad!HeldVMs, Reserves, NomadReservation, NomadVM, Nomad!Return, Nomad!Goto, Nomad!Idle, Idle, NomadTypes, NomadCall, RestOnly, LeftSame, Left, NomadOnly, SharedOnly
<1>3. NomadCall(c)'
  BY <1>1, <1>2 DEF NomadCall, CreatePcs, DestroyPcs, Idle
<1>4. NomadJob(c)'
  BY <1>1, <1>2, FailuresAssumption DEF NomadJob, CloudSame, ResourceSame, ResourceTo, InitTo, DestroyTo
<1>5. NomadCaller(c)'
  BY <1>1, <1>2, FailuresAssumption DEF NomadCall, NomadJob, NomadCaller, NotYet, InitOver, Removed, CloudSame,
     ResourceSame, ResourceTo, InitTo, DestroyTo, HeldSame, LeftSame, CreatePcs, DestroyPcs, Idle
<1> QED
  BY <1>2, <1>3, <1>4, <1>5, NomadCombine

(* A reservation is given back. *)
LEMMA NomadDestroyCapacity ==
  ASSUME NomadInv, NEW c \in Callers, Nomad!DestroyCapacity(c)
  PROVE  NomadInv'
<1>1. NomadTypes /\ NomadCall(c) /\ NomadJob(c) /\ NomadCaller(c)
  BY DEF NomadInv
<1>2. /\ NomadOnly(c) /\ LeftSame(c) /\ made' = made /\ shared' = shared
      /\ Reserves(c) /\ ~Reserves(c)' /\ (Holds(c)' <=> Holds(c)) /\ (Destroyed(c)' <=> Destroyed(c))
      /\ call[c] = Idle /\ call' = call
      /\ CloudSame(c) \/ ResourceTo(c, "dead")
  BY <1>1, CloudUnchanged, SetJobOnly, SetJobTo, HeldTakes
     DEF Nomad!DestroyCapacity, Nomad!DeregisterJob, Nomad!HeldVMs, Reserves, NomadReservation, NomadVM, Nomad!Return, Nomad!Goto, Nomad!Idle, Idle, NomadTypes, NomadCall, RestOnly, LeftSame, Left, NomadOnly, SharedOnly
<1>3. NomadCall(c)'
  BY <1>1, <1>2 DEF NomadCall, CreatePcs, DestroyPcs, Idle
<1>4. NomadJob(c)'
  BY <1>1, <1>2, FailuresAssumption DEF NomadJob, CloudSame, ResourceSame, ResourceTo, InitTo, DestroyTo
<1>5. NomadCaller(c)'
  BY <1>1, <1>2, FailuresAssumption DEF NomadCall, NomadJob, NomadCaller, NotYet, InitOver, Removed, CloudSame,
     ResourceSame, ResourceTo, InitTo, DestroyTo, HeldSame, LeftSame, CreatePcs, DestroyPcs, Idle
<1> QED
  BY <1>2, <1>3, <1>4, <1>5, NomadCombine

(* The node of the resource job is looked up. *)
LEMMA NomadFetchMachine ==
  ASSUME NomadInv, NEW c \in Callers, Nomad!FetchMachine(c)
  PROVE  NomadInv'
<1>1. NomadTypes /\ NomadCall(c) /\ NomadJob(c) /\ NomadCaller(c)
  BY DEF NomadInv
<1>2. /\ NomadOnly(c) /\ LeftSame(c) /\ CloudSame(c) /\ HeldSame(c) /\ made' = made
      /\ call[c].pc = "fetch" /\ shared'.destroy[c] = shared.destroy[c]
      /\ call'[c] = Idle \/ call'[c] = [call[c] EXCEPT !.pc = "init"]
  BY <1>1, CloudUnchanged, GoDeregister, HeldUnchanged
     DEF Nomad!FetchMachine, Nomad!Return, Nomad!Goto, Nomad!Idle, Idle, NomadTypes, NomadCall, RestOnly, LeftSame, Left, NomadOnly, SharedOnly
<1>3. NomadCall(c)'
  BY <1>1, <1>2 DEF NomadCall, CreatePcs, DestroyPcs, Idle
<1>4. NomadJob(c)'
  BY <1>1, <1>2, FailuresAssumption DEF NomadJob, CloudSame, ResourceSame, ResourceTo, InitTo, DestroyTo
<1>5. NomadCaller(c)'
  BY <1>1, <1>2, FailuresAssumption DEF NomadCall, NomadJob, NomadCaller, NotYet, InitOver, Removed, CloudSame,
     ResourceSame, ResourceTo, InitTo, DestroyTo, HeldSame, LeftSame, CreatePcs, DestroyPcs, Idle
<1> QED
  BY <1>2, <1>3, <1>4, <1>5, NomadCombine

(* The init job is registered on it. *)
LEMMA NomadRegisterInitJob ==
  ASSUME NomadInv, NEW c \in Callers, Nomad!RegisterInitJob(c)
  PROVE  NomadInv'
<1>1. NomadTypes /\ NomadCall(c) /\ NomadJob(c) /\ NomadCaller(c)
  BY DEF NomadInv
<1>2. /\ NomadOnly(c) /\ LeftSame(c) /\ HeldSame(c) /\ made' = made
      /\ call[c].pc = "init" /\ shared'.destroy[c] = shared.destroy[c]
      /\ \/ call'[c] = Idle /\ CloudSame(c)
         \/ call'[c] = [call[c] EXCEPT !.pc = "poll"] /\ InitTo(c, "pending")
  BY <1>1, CloudUnchanged, SetJobOnly, SetJobTo, GoDeregister, HeldUnchanged
     DEF Nomad!RegisterInitJob, Nomad!Return, Nomad!Goto, Nomad!Idle, Idle, NomadTypes, NomadCall, RestOnly, LeftSame, Left, NomadOnly, SharedOnly
<1>3. NomadCall(c)'
  BY <1>1, <1>2 DEF NomadCall, CreatePcs, DestroyPcs, Idle
<1>4. NomadJob(c)'
  BY <1>1, <1>2, FailuresAssumption DEF NomadJob, CloudSame, ResourceSame, ResourceTo, InitTo, DestroyTo
<1>5. NomadCaller(c)'
  BY <1>1, <1>2, FailuresAssumption DEF NomadCall, NomadJob, NomadCaller, NotYet, InitOver, Removed, CloudSame,
     ResourceSame, ResourceTo, InitTo, DestroyTo, HeldSame, LeftSame, CreatePcs, DestroyPcs, Idle
<1> QED
  BY <1>2, <1>3, <1>4, <1>5, NomadCombine

(* It is polled until it is over. *)
LEMMA NomadPollInitJob ==
  ASSUME NomadInv, NEW c \in Callers, Nomad!PollInitJob(c)
  PROVE  NomadInv'
<1>1. NomadTypes /\ NomadCall(c) /\ NomadJob(c) /\ NomadCaller(c)
  BY DEF NomadInv
<1>2. /\ NomadOnly(c) /\ LeftSame(c) /\ CloudSame(c) /\ HeldSame(c) /\ made' = made
      /\ call[c].pc = "poll"
      /\ \/ call'[c] = Idle
         \/ call'[c] = [call[c] EXCEPT !.pc = "summary"] /\ shared' = shared
  BY <1>1, CloudUnchanged, GoDestroy, HeldUnchanged
     DEF Nomad!PollInitJob, Nomad!Return, Nomad!Goto, Nomad!Idle, Idle, NomadTypes, NomadCall, RestOnly, LeftSame, Left, NomadOnly, SharedOnly
<1>3. NomadCall(c)'
  BY <1>1, <1>2 DEF NomadCall, CreatePcs, DestroyPcs, Idle
<1>4. NomadJob(c)'
  BY <1>1, <1>2, FailuresAssumption DEF NomadJob, CloudSame, ResourceSame, ResourceTo, InitTo, DestroyTo
<1>5. NomadCaller(c)'
  BY <1>1, <1>2, FailuresAssumption DEF NomadCall, NomadJob, NomadCaller, NotYet, InitOver, Removed, CloudSame,
     ResourceSame, ResourceTo, InitTo, DestroyTo, HeldSame, LeftSame, CreatePcs, DestroyPcs, Idle
<1> QED
  BY <1>2, <1>3, <1>4, <1>5, NomadCombine

(* Its task groups must have succeeded. *)
LEMMA NomadCheckTaskGroupStatus ==
  ASSUME NomadInv, NEW c \in Callers, Nomad!CheckTaskGroupStatus(c)
  PROVE  NomadInv'
<1>1. NomadTypes /\ NomadCall(c) /\ NomadJob(c) /\ NomadCaller(c)
  BY DEF NomadInv
<1>2. /\ NomadOnly(c) /\ LeftSame(c) /\ CloudSame(c) /\ HeldSame(c) /\ made' = made
      /\ call[c].pc = "summary"
      /\ \/ call'[c] = Idle
         \/ /\ call'[c] = [call[c] EXCEPT !.pc = "info"] /\ shared' = shared
            /\ InitStatus(c) = "complete"
  BY <1>1, CloudUnchanged, GoDestroy, HeldUnchanged
     DEF Nomad!CheckTaskGroupStatus, InitStatus, Nomad!Return, Nomad!Goto, Nomad!Idle, Idle, NomadTypes, NomadCall, RestOnly, LeftSame, Left, NomadOnly, SharedOnly
<1>3. NomadCall(c)'
  BY <1>1, <1>2 DEF NomadCall, CreatePcs, DestroyPcs, Idle
<1>4. NomadJob(c)'
  BY <1>1, <1>2, FailuresAssumption DEF NomadJob, CloudSame, ResourceSame, ResourceTo, InitTo, DestroyTo
<1>5. NomadCaller(c)'
  BY <1>1, <1>2, FailuresAssumption DEF NomadCall, NomadJob, NomadCaller, NotYet, InitOver, Removed, CloudSame,
     ResourceSame, ResourceTo, InitTo, DestroyTo, HeldSame, LeftSame, CreatePcs, DestroyPcs, Idle
<1> QED
  BY <1>2, <1>3, <1>4, <1>5, NomadCombine

(* The resource job must still run: only then is the VM returned, so it    *)
(* has not used up its failed checks.                                      *)
LEMMA NomadCheckResourceJob ==
  ASSUME NomadInv, NEW c \in Callers, Nomad!CheckResourceJob(c)
  PROVE  NomadInv'
<1>1. NomadTypes /\ NomadCall(c) /\ NomadJob(c) /\ NomadCaller(c)
  BY DEF NomadInv
<1>2. /\ NomadOnly(c) /\ LeftSame(c) /\ CloudSame(c) /\ made' = made
      /\ call[c].pc = "info" /\ call'[c] = Idle
      /\ (Reserves(c)' <=> Reserves(c)) /\ (Destroyed(c)' <=> Destroyed(c))
      /\ \/ ResourceStatus(c) = "running" /\ shared' = shared
         \/ Holds(c)' <=> Holds(c)
  BY <1>1, CloudUnchanged, GoDestroy, HeldUnchanged, HeldTakes
     DEF Nomad!CheckResourceJob, ResourceStatus, HeldSame, NomadVM, Nomad!Return, Nomad!Goto, Nomad!Idle, Idle, NomadTypes, NomadCall, RestOnly, LeftSame, Left, NomadOnly, SharedOnly
<1>3. NomadCall(c)'
  BY <1>1, <1>2 DEF NomadCall, CreatePcs, DestroyPcs, Idle
<1>4. NomadJob(c)'
  BY <1>1, <1>2, FailuresAssumption DEF NomadJob, CloudSame, ResourceSame, ResourceTo, InitTo, DestroyTo
<1>5. NomadCaller(c)'
  BY <1>1, <1>2, FailuresAssumption DEF NomadCall, NomadJob, NomadCaller, NotYet, InitOver, Removed, CloudSame,
     ResourceSame, ResourceTo, InitTo, DestroyTo, HeldSame, LeftSame, CreatePcs, DestroyPcs, Idle
<1> QED
  BY <1>2, <1>3, <1>4, <1>5, NomadCombine

(* Destroy starts on a VM that is held. *)
LEMMA NomadDestroyBegin ==
  ASSUME NomadInv, NEW c \in Callers, Nomad!DestroyBegin(c)
  PROVE  NomadInv'
<1>1. NomadTypes /\ NomadCall(c) /\ NomadJob(c) /\ NomadCaller(c)
  BY DEF NomadInv
<1>2. /\ NomadOnly(c) /\ LeftSame(c) /\ CloudSame(c) /\ HeldSame(c) /\ made' = made /\ shared' = shared
      /\ Holds(c) /\ call[c] = Idle
      /\ call'[c] = [pc |-> "deregister", of |-> NomadVM(c)]
  BY <1>1, CloudUnchanged, HeldUnchanged
     DEF Nomad!DestroyBegin, Nomad!HeldVMs, Holds, NomadVM, NomadReservation, Nomad!Return, Nomad!Goto, Nomad!Idle, Idle, NomadTypes, NomadCall, RestOnly, LeftSame, Left, NomadOnly, SharedOnly
<1>3. NomadCall(c)'
  BY <1>1, <1>2 DEF NomadCall, CreatePcs, DestroyPcs, Idle
<1>4. NomadJob(c)'
  BY <1>1, <1>2, FailuresAssumption DEF NomadJob, CloudSame, ResourceSame, ResourceTo, InitTo, DestroyTo
<1>5. NomadCaller(c)'
  BY <1>1, <1>2, FailuresAssumption DEF NomadCall, NomadJob, NomadCaller, NotYet, InitOver, Removed, CloudSame,
     ResourceSame, ResourceTo, InitTo, DestroyTo, HeldSame, LeftSame, CreatePcs, DestroyPcs, Idle
<1> QED
  BY <1>2, <1>3, <1>4, <1>5, NomadCombine

(* It deregisters the resource job, registers the destroy job and waits    *)
(* for it.                                                                 *)
LEMMA NomadDestroy ==
  ASSUME NomadInv, NEW c \in Callers, Nomad!Destroy(c)
  PROVE  NomadInv'
<1>1. NomadTypes /\ NomadCall(c) /\ NomadJob(c) /\ NomadCaller(c)
  BY DEF NomadInv
<1>2. /\ NomadOnly(c) /\ LeftSame(c) /\ made' = made /\ shared' = shared
      /\ call[c].pc \in DestroyPcs
      /\ \/ /\ HeldSame(c)
            /\ CloudSame(c) \/ ResourceTo(c, "dead") \/ DestroyTo(c, "pending")
            /\ call'[c] = Idle \/ \E pc \in DestroyPcs : call'[c] = [call[c] EXCEPT !.pc = pc]
         \/ /\ CloudSame(c) /\ DestroyStatus(c) = "dead"
            /\ Destroyed(c)' /\ (Reserves(c)' <=> Reserves(c))
            /\ call'[c] = Idle
  BY <1>1, CloudUnchanged, SetJobOnly, SetJobTo, HeldUnchanged, HeldGone
     DEF Nomad!Destroy, Nomad!DestroyJobStep, Nomad!DeregisterJob, Nomad!Gone, DestroyPcs, DestroyStatus, NomadVM, Nomad!Return, Nomad!Goto, Nomad!Idle, Idle, NomadTypes, NomadCall, RestOnly, LeftSame, Left, NomadOnly, SharedOnly
<1>3. NomadCall(c)'
  BY <1>1, <1>2 DEF NomadCall, CreatePcs, DestroyPcs, Idle
<1>4. NomadJob(c)'
  BY <1>1, <1>2, FailuresAssumption DEF NomadJob, CloudSame, ResourceSame, ResourceTo, InitTo, DestroyTo
<1>5. NomadCaller(c)'
  BY <1>1, <1>2, FailuresAssumption DEF NomadCall, NomadJob, NomadCaller, NotYet, InitOver, Removed, CloudSame,
     ResourceSame, ResourceTo, InitTo, DestroyTo, HeldSame, LeftSame, CreatePcs, DestroyPcs, Idle
<1> QED
  BY <1>2, <1>3, <1>4, <1>5, NomadCombine

(* The goroutine that destroys the VM of a Create that failed. *)
LEMMA NomadBackgroundDestroy ==
  ASSUME NomadInv, NEW c \in Callers, Nomad!BackgroundDestroy(c)
  PROVE  NomadInv'
<1>1. NomadTypes /\ NomadCall(c) /\ NomadJob(c) /\ NomadCaller(c)
  BY DEF NomadInv
<1>2. /\ NomadOnly(c) /\ LeftSame(c) /\ HeldSame(c) /\ made' = made /\ call' = call
      /\ shared.destroy[c] # "idle"
      /\ CloudSame(c) \/ ResourceTo(c, "dead") \/ DestroyTo(c, "pending")
  BY <1>1, CloudUnchanged, SetJobOnly, SetJobTo, HeldUnchanged
     DEF Nomad!BackgroundDestroy, Nomad!DeregisterJob, Nomad!Return, Nomad!Goto, Nomad!Idle, Idle, NomadTypes, NomadCall, RestOnly, LeftSame, Left, NomadOnly, SharedOnly
<1>3. NomadCall(c)'
  BY <1>1, <1>2 DEF NomadCall, CreatePcs, DestroyPcs, Idle
<1>4. NomadJob(c)'
  BY <1>1, <1>2, FailuresAssumption DEF NomadJob, CloudSame, ResourceSame, ResourceTo, InitTo, DestroyTo
<1>5. NomadCaller(c)'
  BY <1>1, <1>2, FailuresAssumption DEF NomadCall, NomadJob, NomadCaller, NotYet, InitOver, Removed, CloudSame,
     ResourceSame, ResourceTo, InitTo, DestroyTo, HeldSame, LeftSame, CreatePcs, DestroyPcs, Idle
<1> QED
  BY <1>2, <1>3, <1>4, <1>5, NomadCombine

(* The cluster places the resource job, or gives up on it. *)
LEMMA NomadPlaceResourceJob ==
  ASSUME NomadInv, NEW c \in Callers, Nomad!PlaceResourceJob(c)
  PROVE  NomadInv'
<1>1. NomadTypes /\ NomadCall(c) /\ NomadJob(c) /\ NomadCaller(c)
  BY DEF NomadInv
<1>2. /\ NomadOnly(c) /\ LeftSame(c) /\ HeldSame(c) /\ made' = made /\ call' = call /\ shared' = shared
      /\ ResourceTo(c, "running")
  BY <1>1, SetJobOnly, SetJobTo, HeldUnchanged
     DEF Nomad!PlaceResourceJob, Nomad!Return, Nomad!Goto, Nomad!Idle, Idle, NomadTypes, NomadCall, RestOnly, LeftSame, Left, NomadOnly, SharedOnly
<1>3. NomadCall(c)'
  BY <1>1, <1>2 DEF NomadCall, CreatePcs, DestroyPcs, Idle
<1>4. NomadJob(c)'
  BY <1>1, <1>2, FailuresAssumption DEF NomadJob, CloudSame, ResourceSame, ResourceTo, InitTo, DestroyTo
<1>5. NomadCaller(c)'
  BY <1>1, <1>2, FailuresAssumption DEF NomadCall, NomadJob, NomadCaller, NotYet, InitOver, Removed, CloudSame,
     ResourceSame, ResourceTo, InitTo, DestroyTo, HeldSame, LeftSame, CreatePcs, DestroyPcs, Idle
<1> QED
  BY <1>2, <1>3, <1>4, <1>5, NomadCombine

(* The init job makes the VM, or fails. *)
LEMMA NomadRunInitJob ==
  ASSUME NomadInv, NEW c \in Callers, Nomad!RunInitJob(c)
  PROVE  NomadInv'
<1>1. NomadTypes /\ NomadCall(c) /\ NomadJob(c) /\ NomadCaller(c)
  BY DEF NomadInv
<1>2. /\ ~InitOver(c) /\ HeldOnly(c) /\ HeldSame(c) /\ RestOnly(c) /\ SharedOnly(c) /\ LeftSame(c)
      /\ made' = made /\ call' = call /\ shared' = shared
  BY <1>1, HeldUnchanged DEF Nomad!RunInitJob, InitOver, InitStatus, RestOnly, SharedOnly, LeftSame,
     Left, NomadTypes
<1>3. CloudOnly(c) /\ ResourceSame(c) /\ DestroyStatus(c)' = DestroyStatus(c)
  <2>1. CASE \E s \in {"complete", "failed"} : Nomad!SetJob("init", c, s)
    BY <2>1, SetJobOnly, SetJobTo DEF InitTo
  <2>2. CASE cloud' = [Nomad!With({Nomad!Job("init", c), Nomad!VM(c)},
                                  [status |-> "started", failures |-> 0]) EXCEPT ![Nomad!VM(c)] = "vm"]
    BY <2>2 DEF Nomad!With, Nomad!Job, Nomad!VM, Nomad!Resource, CloudOnly,
       CloudSame, ResourceSame, Up, Failures, ResourceStatus, InitStatus, DestroyStatus, Exists,
       Nomad!Status, Nomad!Exists
  <2> QED
    BY <2>1, <2>2 DEF Nomad!RunInitJob
<1>4. NomadCall(c)' /\ NomadJob(c)' /\ NomadCaller(c)'
  BY <1>1, <1>2, <1>3 DEF NomadCall, NomadJob, NomadCaller, NotYet, ResourceSame, HeldSame
<1> QED
  BY <1>2, <1>3, <1>4, NomadCombine DEF NomadOnly

(* The destroy job removes the VM, or leaves it. *)
LEMMA NomadRunDestroyJob ==
  ASSUME NomadInv, NEW c \in Callers, Nomad!RunDestroyJob(c)
  PROVE  NomadInv'
<1>1. NomadTypes /\ NomadCall(c) /\ NomadJob(c) /\ NomadCaller(c)
  BY DEF NomadInv
<1>2. /\ HeldOnly(c) /\ HeldSame(c) /\ RestOnly(c) /\ SharedOnly(c) /\ LeftSame(c)
      /\ made' = made /\ call' = call /\ shared' = shared /\ DestroyStatus(c) = "pending"
  BY <1>1, HeldUnchanged DEF Nomad!RunDestroyJob, DestroyStatus, RestOnly, SharedOnly, LeftSame,
     Left, NomadTypes
<1>3. /\ CloudOnly(c) /\ ResourceSame(c) /\ InitStatus(c)' = InitStatus(c)
      /\ Removed(c)' /\ (Up(c)' => Up(c))
  BY DEF Nomad!RunDestroyJob, Nomad!Job, Nomad!VM, Nomad!Resource, CloudOnly, CloudSame, Removed, Left,
     ResourceSame, Up, Failures, ResourceStatus, InitStatus, DestroyStatus, Exists, Nomad!Status,
     Nomad!Exists
<1>4. NomadCall(c)' /\ NomadJob(c)' /\ NomadCaller(c)'
  BY <1>1, <1>2, <1>3 DEF NomadCall, NomadJob, NomadCaller, NotYet, InitOver, ResourceSame, HeldSame
<1> QED
  BY <1>2, <1>3, <1>4, NomadCombine DEF NomadOnly

(* The script of the resource job checks the VM, and ends the job when too *)
(* many checks have failed.                                                *)
LEMMA NomadHealthCheck ==
  ASSUME NomadInv, NEW c \in Callers, Nomad!HealthCheck(c)
  PROVE  NomadInv'
<1>1. NomadTypes /\ NomadCall(c) /\ NomadJob(c) /\ NomadCaller(c)
  BY DEF NomadInv
<1>2. /\ HeldOnly(c) /\ HeldSame(c) /\ RestOnly(c) /\ SharedOnly(c) /\ LeftSame(c)
      /\ made' = made /\ call' = call /\ shared' = shared /\ ResourceStatus(c) = "running"
  BY <1>1, HeldUnchanged DEF Nomad!HealthCheck, ResourceStatus, RestOnly, SharedOnly, LeftSame,
     Left, NomadTypes
<1>3. PICK n : /\ n = IF Up(c) THEN 0 ELSE Failures(c) + 1
               /\ Nomad!Add(Nomad!Job("resource", c),
                            [status |-> IF n = MaxFailures THEN "dead" ELSE "running", failures |-> n])
  BY DEF Nomad!HealthCheck, Up, Failures, Exists, Nomad!Exists
<1>4. /\ CloudOnly(c) /\ InitStatus(c)' = InitStatus(c) /\ DestroyStatus(c)' = DestroyStatus(c)
      /\ Up(c)' <=> Up(c)
      /\ Failures(c)' = n /\ ResourceStatus(c)' = IF n = MaxFailures THEN "dead" ELSE "running"
  BY <1>3 DEF Nomad!Add, Nomad!With, Nomad!Job, Nomad!VM, Nomad!Resource, CloudOnly, CloudSame,
     ResourceSame, Up, Failures, ResourceStatus, InitStatus, DestroyStatus, Exists, Nomad!Status,
     Nomad!Exists
<1>5. n \in Nat /\ n <= MaxFailures /\ (Up(c) => n = 0)
  BY <1>1, <1>2, <1>3, FailuresAssumption DEF NomadJob
<1>6. NomadCall(c)' /\ NomadJob(c)' /\ NomadCaller(c)'
  BY <1>1, <1>2, <1>4, <1>5, FailuresAssumption
     DEF NomadCall, NomadJob, NomadCaller, NotYet, InitOver, Removed, HeldSame, LeftSame
<1> QED
  BY <1>2, <1>4, <1>6, NomadCombine DEF NomadOnly

(* The goroutine that deregisters a job. *)
LEMMA NomadBackgroundDeregister ==
  ASSUME NomadInv, Nomad!BackgroundDeregister
  PROVE  NomadInv'
<1>1. PICK job \in shared.deregister :
        /\ shared' = [shared EXCEPT !.deregister = @ \ {job}]
        /\ \/ Nomad!Add(job, [status |-> "dead", failures |-> 0])
           \/ UNCHANGED cloud
  BY DEF Nomad!BackgroundDeregister
<1>2. PICK c \in Callers : \E k \in {"resource", "init"} : job = Nomad!Job(k, c)
  BY <1>1 DEF NomadInv, NomadTypes
<1>3. NomadTypes /\ NomadCall(c) /\ NomadJob(c) /\ NomadCaller(c)
  BY DEF NomadInv
<1>4. /\ HeldOnly(c) /\ HeldSame(c) /\ RestOnly(c) /\ SharedOnly(c) /\ LeftSame(c)
      /\ made' = made /\ call' = call /\ shared'.destroy = shared.destroy
  BY <1>1, <1>3, HeldUnchanged DEF Nomad!BackgroundDeregister, RestOnly, SharedOnly, LeftSame, Left,
     NomadTypes
<1>5. CloudOnly(c) /\ (CloudSame(c) \/ ResourceTo(c, "dead") \/ InitTo(c, "dead"))
  BY <1>1, <1>2, CloudUnchanged, SetJobOnly, SetJobTo DEF Nomad!SetJob
<1>6. NomadCall(c)' /\ NomadJob(c)'
  BY <1>3, <1>4, <1>5 DEF NomadCall, NomadJob, CloudSame, ResourceSame, ResourceTo, InitTo
<1>7. NomadCaller(c)'
  BY <1>3, <1>4, <1>5, FailuresAssumption DEF NomadCaller, NotYet, InitOver, Removed, CloudSame, ResourceSame,
     ResourceTo, InitTo, HeldSame, LeftSame
<1> QED
  BY <1>4, <1>5, <1>6, <1>7, NomadCombine DEF NomadOnly

(* Every step of the driver keeps its invariant. *)
LEMMA NomadNext ==
  ASSUME NomadInv, Nomad!Next
  PROVE  NomadInv'
BY NomadRegisterResourceJob, NomadPollResourceJob, NomadCreateReserved, NomadDestroyCapacity,
   NomadFetchMachine, NomadRegisterInitJob, NomadPollInitJob, NomadCheckTaskGroupStatus,
   NomadCheckResourceJob, NomadDestroyBegin, NomadDestroy, NomadBackgroundDestroy,
   NomadPlaceResourceJob, NomadRunInitJob, NomadRunDestroyJob, NomadHealthCheck,
   NomadBackgroundDeregister
   DEF Nomad!Next, Nomad!CallStep

(* It holds at the start. *)
LEMMA NomadInit ==
  ASSUME Init, scenario.driver = "nomad"
  PROVE  NomadInv
<1>1. shared = Nomad!NomadInit
  BY DEF Init, Fields, MacHypervisors
<1>2. NomadTypes
  BY <1>1 DEF Init, NomadTypes, Nomad!NomadInit
<1>3. ASSUME NEW c \in Callers
      PROVE  NomadCall(c) /\ NomadJob(c) /\ NomadCaller(c)
  BY <1>1, <1>3 DEF Init, Idle, Nomad!NomadInit, NomadCall, NomadJob, NomadCaller, NotYet, Holds, Reserves,
     Destroyed, ResourceStatus, InitStatus, DestroyStatus, Nomad!Status, Nomad!Exists, CreatePcs,
     DestroyPcs
<1> QED
  BY <1>2, <1>3 DEF NomadInv

(* It is about the state only. *)
LEMMA NomadStutters ==
  ASSUME NomadInv, UNCHANGED vars
  PROVE  NomadInv'
BY DEF NomadInv, vars, NomadTypes, NomadCall, NomadJob, NomadCaller, NotYet, InitOver, Removed, Holds,
   Reserves, Destroyed, Up, Left, Failures, ResourceStatus, InitStatus, DestroyStatus, Exists,
   Nomad!Status, Nomad!Exists

(* It gives RoomKept. *)
LEMMA NomadRoomKept ==
  ASSUME NomadInv
  PROVE  RoomKept
BY DEF NomadInv, RoomKept, NomadTypes, NomadCaller, HeldVMs, Holds, NomadVM, NomadReservation, Up, Failures, Exists

(* And DestroyedIsGone. *)
LEMMA NomadDestroyedIsGone ==
  ASSUME NomadInv, scenario.driver = "nomad"
  PROVE  DestroyedIsGone
BY DEF NomadInv, DestroyedIsGone, NomadTypes, NomadCaller, Removed, Destroyed, NomadVM, Up, Left, Exists

-----------------------------------------------------------------------------
(* A Mac host of Nomad.  A script at a locked step has the lock, and keeps *)
(* it over the three steps in which the anchor file is read, written back  *)
(* and added to; the claim ends when a lock is broken.                     *)
LockedPcs == {"sed", "write", "append", "load", "delete"}
BootedPcs == LockedPcs \cup {"lock", "connect"}

HostVM(c) == Exists(Tart!VM(c))
Addr(c) == Tart!Address(c)
Sole(c) == \A a \in Addresses \ {Addr(c)} : Addr(c) \notin Matches[a]
HeldAs(c) == \E i \in held : i.name = c

TartCall(c) ==
  /\ "pc" \in DOMAIN call[c]
  /\ call[c].pc \in {"idle", "images", "pull", "clone"} \cup BootedPcs
  /\ call[c].pc = "idle" => call[c] = Idle
  /\ call[c].pc # "idle" => {"locked", "copy", "destroy", "list"} \subseteq DOMAIN call[c]

TartTypes ==
  /\ DOMAIN call = Callers /\ \A c \in Callers : TartCall(c)
  /\ {"images", "anchor", "pf", "lock", "broken"} \subseteq DOMAIN shared
  /\ destroyed = {}
  /\ \A i \in held : i.name \in Callers

(* No two VMs of the host have the same address. *)
TartAddresses ==
  /\ \A r \in DOMAIN cloud : r = Tart!VM(r.name)
  /\ \A r \in DOMAIN cloud : cloud[r].ip \in Addresses
  /\ \A r, q \in DOMAIN cloud : cloud[r].ip = cloud[q].ip => r = q

TartCaller(c) ==
  /\ call[c].pc \in LockedPcs => call[c].locked /\ shared.lock = c
  /\ call[c].pc \in BootedPcs => HostVM(c)
  /\ call[c].pc = "write" => call[c].copy = {r \in shared.anchor : r.ip \notin Matches[Addr(c)]}
  /\ call[c].pc = "load" /\ Sole(c) => Tart!Rule(c) \in shared.anchor
  /\ call[c].pc = "connect" /\ Sole(c) => Tart!Rule(c) \in shared.anchor /\ Tart!Rule(c) \in shared.pf
  /\ call[c].pc # "idle" \/ HostVM(c) => c \in made
  /\ HeldAs(c) => call[c] = Idle /\ HostVM(c)
  /\ HeldAs(c) /\ Sole(c) => Tart!Rule(c) \in shared.anchor /\ Tart!Rule(c) \in shared.pf

TartInv == /\ TartTypes /\ TartAddresses
           /\ ~shared.broken => \A c \in Callers : TartCaller(c)

(* A step of the script of c leaves the other VMs and their rules alone. *)
TartOnly(c) ==
  /\ DOMAIN call' = DOMAIN call
  /\ \A d \in Callers \ {c} : /\ call'[d] = call[d]
                              /\ HeldAs(d)' <=> HeldAs(d)
                              /\ HostVM(d)' <=> HostVM(d)
                              /\ HostVM(d) => Addr(d)' = Addr(d)
                              /\ d \in made => d \in made'
  /\ \A i \in held' : i \in held \/ i.name = c
  /\ destroyed' = destroyed /\ DOMAIN shared' = DOMAIN shared

(* The lock is taken when nobody has it and given back by the script that  *)
(* has it; only that script changes the anchor file, and keeps the rules   *)
(* of the addresses that no other matches; the filter only loads the       *)
(* anchor file.                                                            *)
TartShared(c) ==
  /\ shared'.lock = shared.lock \/ shared.lock = NoLock \/ call[c].pc \in LockedPcs
  /\ \/ shared'.anchor = shared.anchor
     \/ /\ call[c].pc \in LockedPcs
        /\ \A d \in Callers \ {c} :
             HostVM(d) /\ Sole(d) /\ Tart!Rule(d) \in shared.anchor => Tart!Rule(d) \in shared'.anchor
  /\ shared'.pf = shared.pf \/ shared'.pf = shared.anchor

(* The rule of a VM depends on its address only. *)
LEMMA TartRuleSame ==
  ASSUME NEW d, Addr(d)' = Addr(d)
  PROVE  Tart!Rule(d)' = Tart!Rule(d)
BY DEF Addr, Tart!Rule

(* A step of one script that keeps to its own VM and rule keeps the        *)
(* invariant.                                                              *)
LEMMA TartCombine ==
  ASSUME TartInv, NEW c \in Callers, TartOnly(c), TartCall(c)', TartAddresses',
         shared.broken => shared'.broken,
         ~shared'.broken => TartShared(c) /\ TartCaller(c)'
  PROVE  TartInv'
<1>1. TartTypes'
  BY DEF TartInv, TartTypes, TartOnly, TartCall
<1>2. ASSUME ~shared'.broken, NEW d \in Callers, d # c
      PROVE  TartCaller(d)'
  <2>1. ~shared.broken /\ TartShared(c) /\ TartCaller(c) /\ TartCaller(d)
    BY <1>2 DEF TartInv
  <2>2. /\ call'[d] = call[d] /\ (HeldAs(d)' <=> HeldAs(d)) /\ (HostVM(d)' <=> HostVM(d))
        /\ HostVM(d) => Tart!Rule(d)' = Tart!Rule(d) /\ Addr(d)' = Addr(d)
        /\ d \in made => d \in made'
    BY <1>2, TartRuleSame DEF TartOnly
  <2>7. HostVM(d) => (Sole(d)' <=> Sole(d))
    BY <2>2 DEF Sole
  <2>3. Tart!Rule(d) \in shared.anchor /\ HostVM(d) /\ Sole(d) => Tart!Rule(d) \in shared'.anchor
    BY <1>2, <2>1 DEF TartShared
  <2>4. call[d].pc \in LockedPcs => call[c].pc \notin LockedPcs /\ shared'.lock = shared.lock
    BY <1>2, <2>1, NoLockAssumption DEF TartShared, TartCaller
  <2>5. call[d].pc = "write" => shared'.anchor = shared.anchor
    BY <2>1, <2>4 DEF TartShared, LockedPcs
  <2>6. Tart!Rule(d) \in shared.pf /\ Tart!Rule(d) \in shared.anchor => Tart!Rule(d) \in shared'.pf
    BY <2>1 DEF TartShared
  <2> QED
    BY <2>1, <2>2, <2>3, <2>4, <2>5, <2>6, <2>7 DEF TartCaller, LockedPcs, BootedPcs
<1> QED
  BY <1>1, <1>2 DEF TartInv

TartSame == /\ DOMAIN shared' = DOMAIN shared /\ shared'.broken = shared.broken
            /\ shared'.lock = shared.lock /\ shared'.anchor = shared.anchor /\ shared'.pf = shared.pf

(* Two VMs have two addresses, hence two rules; the script of one leaves   *)
(* that of the other if no address matches it.                             *)
LEMMA TartDistinct ==
  ASSUME TartInv, NEW c, NEW d, c # d, HostVM(c), HostVM(d)
  PROVE  /\ Addr(c) # Addr(d) /\ Tart!Rule(d).ip = Addr(d)
         /\ Sole(d) => Addr(d) \notin Matches[Addr(c)]
BY DEF Sole, TartInv, TartAddresses, HostVM, Addr, Exists, Tart!Address, Tart!Rule, Tart!VM, Tart!Resource

(* Without a change of the VMs the addresses stay. *)
LEMMA TartCloudSame ==
  ASSUME TartInv, UNCHANGED cloud, NEW d
  PROVE  /\ TartAddresses' /\ (HostVM(d)' <=> HostVM(d)) /\ Addr(d)' = Addr(d) /\ Tart!Rule(d)' = Tart!Rule(d)
         /\ Sole(d)' <=> Sole(d)
BY DEF Sole, TartInv, TartAddresses, HostVM, Addr, Tart!Address, Tart!Rule, Exists

(* Nothing is taken or given back. *)
LEMMA TartHeldSame ==
  ASSUME UNCHANGED held, NEW d
  PROVE  HeldAs(d)' <=> HeldAs(d)
BY DEF HeldAs

(* The script of a create starts. *)
LEMMA TartStartScript ==
  ASSUME TartInv, NEW c \in Callers, Tart!StartScript(c)
  PROVE  TartInv'
<1>1. TartTypes /\ TartCall(c) /\ (~shared.broken => TartCaller(c))
  BY DEF TartInv, TartTypes
<1>2. /\ UNCHANGED <<cloud, held, destroyed>> /\ made \subseteq made' /\ c \in made' /\ TartSame
      /\ c \notin made /\ call[c] = Idle /\ call' = [call EXCEPT ![c] = call'[c]]
      /\ call'[c].pc = "images" /\ {"pc", "locked", "copy", "destroy", "list"} \subseteq DOMAIN call'[c]
  BY <1>1 DEF Tart!StartScript, Tart!Fresh, TartTypes, TartCall, Idle, Tart!Idle, Tart!Return, Tart!Goto, TartSame
<1>3. TartOnly(c) /\ TartAddresses'
  BY <1>1, <1>2, TartCloudSame, TartHeldSame DEF TartOnly, TartTypes, TartSame
<1>4. TartCall(c)'
  BY <1>1, <1>2 DEF TartCall, TartTypes, BootedPcs, LockedPcs, Idle
<1>5. ~shared'.broken => TartShared(c)
  BY <1>1, <1>2 DEF TartShared, TartSame, TartCaller, BootedPcs, LockedPcs
<1>6. ~shared'.broken => TartCaller(c)'
  BY <1>1, <1>2, TartCloudSame, TartHeldSame DEF TartCaller, TartSame, TartCall, TartTypes, BootedPcs, LockedPcs, Idle
<1> QED
  BY <1>1, <1>2, <1>3, <1>4, <1>5, <1>6, TartCombine DEF TartSame, TartTypes

(* It removes old images. *)
LEMMA TartCleanUpImages ==
  ASSUME TartInv, NEW c \in Callers, Tart!CleanUpImages(c)
  PROVE  TartInv'
<1>1. TartTypes /\ TartCall(c) /\ (~shared.broken => TartCaller(c))
  BY DEF TartInv, TartTypes
<1>2. /\ UNCHANGED <<cloud, held, destroyed>> /\ made' = made /\ TartSame
      /\ call[c].pc = "images"
      /\ call' = [call EXCEPT ![c].pc = "pull"] \/ call' = [call EXCEPT ![c].pc = "clone"]
  BY <1>1 DEF Tart!CleanUpImages, TartTypes, TartCall, Idle, Tart!Idle, Tart!Return, Tart!Goto, TartSame
<1>3. TartOnly(c) /\ TartAddresses'
  BY <1>1, <1>2, TartCloudSame, TartHeldSame DEF TartOnly, TartTypes, TartSame
<1>4. TartCall(c)'
  BY <1>1, <1>2 DEF TartCall, TartTypes, BootedPcs, LockedPcs, Idle
<1>5. ~shared'.broken => TartShared(c)
  BY <1>1, <1>2 DEF TartShared, TartSame, TartCaller, BootedPcs, LockedPcs
<1>6. ~shared'.broken => TartCaller(c)'
  BY <1>1, <1>2, TartCloudSame, TartHeldSame DEF TartCaller, TartSame, TartCall, TartTypes, BootedPcs, LockedPcs, Idle
<1> QED
  BY <1>1, <1>2, <1>3, <1>4, <1>5, <1>6, TartCombine DEF TartSame, TartTypes

(* It pulls its own. *)
LEMMA TartPullImage ==
  ASSUME TartInv, NEW c \in Callers, Tart!PullImage(c)
  PROVE  TartInv'
<1>1. TartTypes /\ TartCall(c) /\ (~shared.broken => TartCaller(c))
  BY DEF TartInv, TartTypes
<1>2. /\ UNCHANGED <<cloud, held, destroyed>> /\ made' = made /\ TartSame
      /\ call[c].pc = "pull"
      /\ call' = [call EXCEPT ![c] = Idle] \/ call' = [call EXCEPT ![c].pc = "clone"]
  BY <1>1 DEF Tart!PullImage, Tart!Exit, TartTypes, TartCall, Idle, Tart!Idle, Tart!Return, Tart!Goto, TartSame
<1>3. TartOnly(c) /\ TartAddresses'
  BY <1>1, <1>2, TartCloudSame, TartHeldSame DEF TartOnly, TartTypes, TartSame
<1>4. TartCall(c)'
  BY <1>1, <1>2 DEF TartCall, TartTypes, BootedPcs, LockedPcs, Idle
<1>5. ~shared'.broken => TartShared(c)
  BY <1>1, <1>2 DEF TartShared, TartSame, TartCaller, BootedPcs, LockedPcs
<1>6. ~shared'.broken => TartCaller(c)'
  BY <1>1, <1>2, TartCloudSame, TartHeldSame DEF TartCaller, TartSame, TartCall, TartTypes, BootedPcs, LockedPcs, Idle
<1> QED
  BY <1>1, <1>2, <1>3, <1>4, <1>5, <1>6, TartCombine DEF TartSame, TartTypes

(* It waits for the lock on the anchor file; breaking it ends the claim. *)
LEMMA TartLock ==
  ASSUME TartInv, NEW c \in Callers, Tart!Lock(c)
  PROVE  TartInv'
<1>1. TartTypes /\ TartCall(c) /\ (~shared.broken => TartCaller(c))
  BY DEF TartInv, TartTypes
<1>2. /\ UNCHANGED <<cloud, held, destroyed>> /\ made' = made /\ call[c].pc = "lock"
      /\ call' = [call EXCEPT ![c] = call'[c]]
      /\ call'[c].pc = "sed" /\ DOMAIN call'[c] = DOMAIN call[c]
      /\ DOMAIN shared' = DOMAIN shared /\ (shared.broken => shared'.broken)
      /\ ~shared'.broken => /\ shared.lock = NoLock /\ shared'.lock = c /\ call'[c].locked
                            /\ shared'.anchor = shared.anchor /\ shared'.pf = shared.pf
  <2>1. /\ DOMAIN call = Callers /\ call[c].pc = "lock" /\ {"pc", "locked"} \subseteq DOMAIN call[c]
        /\ {"lock", "broken", "anchor", "pf"} \subseteq DOMAIN shared
        /\ UNCHANGED <<cloud, held, destroyed, made>>
    BY <1>1 DEF Tart!Lock, TartTypes, TartCall
  <2>2. CASE /\ shared.lock = NoLock /\ shared' = [shared EXCEPT !.lock = c]
             /\ call' = [call EXCEPT ![c].pc = "sed", ![c].locked = TRUE]
    BY <2>1, <2>2
  <2>3. CASE /\ shared' = [shared EXCEPT !.lock = NoLock, !.broken = TRUE]
             /\ call' = [call EXCEPT ![c].pc = "sed"]
    BY <2>1, <2>3
  <2> QED
    BY <2>2, <2>3 DEF Tart!Lock, Tart!Goto
<1>3. TartOnly(c) /\ TartAddresses'
  BY <1>1, <1>2, TartCloudSame, TartHeldSame DEF TartOnly, TartTypes, TartSame
<1>4. TartCall(c)'
  BY <1>1, <1>2 DEF TartCall, TartTypes, BootedPcs, LockedPcs, Idle
<1>5. ~shared'.broken => TartShared(c)
  BY <1>1, <1>2 DEF TartShared, TartSame, TartCaller, BootedPcs, LockedPcs
<1>6. ~shared'.broken => TartCaller(c)'
  BY <1>1, <1>2, TartCloudSame, TartHeldSame DEF TartCaller, TartSame, TartCall, TartTypes, BootedPcs, LockedPcs, Idle
<1> QED
  BY <1>1, <1>2, <1>3, <1>4, <1>5, <1>6, TartCombine DEF TartSame, TartTypes

(* It reads the file without the rules of its address. *)
LEMMA TartSedRead ==
  ASSUME TartInv, NEW c \in Callers, Tart!SedRead(c)
  PROVE  TartInv'
<1>1. TartTypes /\ TartCall(c) /\ (~shared.broken => TartCaller(c))
  BY DEF TartInv, TartTypes
<1>2. /\ UNCHANGED <<cloud, held, destroyed>> /\ made' = made /\ TartSame /\ call[c].pc = "sed"
      /\ call' = [call EXCEPT ![c] = call'[c]]
      /\ call'[c].pc = "write" /\ DOMAIN call'[c] = DOMAIN call[c] /\ call'[c].locked = call[c].locked
      /\ call'[c].copy = {r \in shared.anchor : r.ip \notin Matches[Addr(c)]}
  BY <1>1 DEF Tart!SedRead, Addr, TartTypes, TartCall, Idle, Tart!Idle, Tart!Return, Tart!Goto, TartSame
<1>3. TartOnly(c) /\ TartAddresses'
  BY <1>1, <1>2, TartCloudSame, TartHeldSame DEF TartOnly, TartTypes, TartSame
<1>4. TartCall(c)'
  BY <1>1, <1>2 DEF TartCall, TartTypes, BootedPcs, LockedPcs, Idle
<1>5. ~shared'.broken => TartShared(c)
  BY <1>1, <1>2 DEF TartShared, TartSame, TartCaller, BootedPcs, LockedPcs
<1>6. ~shared'.broken => TartCaller(c)'
  BY <1>1, <1>2, TartCloudSame, TartHeldSame DEF TartCaller, TartSame, TartCall, TartTypes, BootedPcs, LockedPcs, Idle
<1> QED
  BY <1>1, <1>2, <1>3, <1>4, <1>5, <1>6, TartCombine DEF TartSame, TartTypes

(* It writes that back. *)
LEMMA TartSedWrite ==
  ASSUME TartInv, NEW c \in Callers, Tart!SedWrite(c)
  PROVE  TartInv'
<1>1. TartTypes /\ TartCall(c) /\ (~shared.broken => TartCaller(c))
  BY DEF TartInv, TartTypes
<1>2. /\ UNCHANGED <<cloud, held, destroyed>> /\ made' = made /\ call[c].pc = "write"
      /\ DOMAIN shared' = DOMAIN shared /\ shared'.broken = shared.broken
      /\ shared'.anchor = call[c].copy /\ shared'.lock = shared.lock /\ shared'.pf = shared.pf
      /\ call' = [call EXCEPT ![c].pc = "delete"] \/ call' = [call EXCEPT ![c].pc = "append"]
  BY <1>1 DEF Tart!SedWrite, TartTypes, TartCall, Idle, Tart!Idle, Tart!Return, Tart!Goto, TartSame
<1>3. TartOnly(c) /\ TartAddresses'
  BY <1>1, <1>2, TartCloudSame, TartHeldSame DEF TartOnly, TartTypes, TartSame
<1>4. TartCall(c)'
  BY <1>1, <1>2 DEF TartCall, TartTypes, BootedPcs, LockedPcs, Idle
<1>5. ~shared'.broken => TartShared(c)
  BY <1>1, <1>2, TartDistinct DEF TartShared, TartSame, TartCaller, BootedPcs, LockedPcs
<1>6. ~shared'.broken => TartCaller(c)'
  BY <1>1, <1>2, TartCloudSame, TartHeldSame DEF TartCaller, TartSame, TartCall, TartTypes, BootedPcs, LockedPcs, Idle
<1> QED
  BY <1>1, <1>2, <1>3, <1>4, <1>5, <1>6, TartCombine DEF TartSame, TartTypes

(* It appends its own rule. *)
LEMMA TartAppendRule ==
  ASSUME TartInv, NEW c \in Callers, Tart!AppendRule(c)
  PROVE  TartInv'
<1>1. TartTypes /\ TartCall(c) /\ (~shared.broken => TartCaller(c))
  BY DEF TartInv, TartTypes
<1>2. /\ UNCHANGED <<cloud, held, destroyed>> /\ made' = made /\ call[c].pc = "append"
      /\ DOMAIN shared' = DOMAIN shared /\ shared'.broken = shared.broken
      /\ shared'.anchor = shared.anchor \cup {Tart!Rule(c)}
      /\ shared'.lock = shared.lock /\ shared'.pf = shared.pf
      /\ call' = [call EXCEPT ![c].pc = "load"]
  BY <1>1 DEF Tart!AppendRule, TartTypes, TartCall, Idle, Tart!Idle, Tart!Return, Tart!Goto, TartSame
<1>3. TartOnly(c) /\ TartAddresses'
  BY <1>1, <1>2, TartCloudSame, TartHeldSame DEF TartOnly, TartTypes, TartSame
<1>4. TartCall(c)'
  BY <1>1, <1>2 DEF TartCall, TartTypes, BootedPcs, LockedPcs, Idle
<1>5. ~shared'.broken => TartShared(c)
  BY <1>1, <1>2 DEF TartShared, TartSame, TartCaller, BootedPcs, LockedPcs
<1>6. ~shared'.broken => TartCaller(c)'
  BY <1>1, <1>2, TartCloudSame, TartHeldSame DEF TartCaller, TartSame, TartCall, TartTypes, BootedPcs, LockedPcs, Idle
<1> QED
  BY <1>1, <1>2, <1>3, <1>4, <1>5, <1>6, TartCombine DEF TartSame, TartTypes

(* It loads the file into the filter. *)
LEMMA TartLoadRules ==
  ASSUME TartInv, NEW c \in Callers, Tart!LoadRules(c)
  PROVE  TartInv'
<1>1. TartTypes /\ TartCall(c) /\ (~shared.broken => TartCaller(c))
  BY DEF TartInv, TartTypes
<1>2. /\ UNCHANGED <<cloud, held, destroyed>> /\ made' = made /\ call[c].pc = "load"
      /\ DOMAIN shared' = DOMAIN shared /\ shared'.broken = shared.broken
      /\ shared'.anchor = shared.anchor /\ shared'.pf = shared.anchor
      /\ call' = [call EXCEPT ![c].pc = "connect"]
  BY <1>1 DEF Tart!LoadRules, Tart!Unlock, TartTypes, TartCall, Idle, Tart!Idle, Tart!Return, Tart!Goto, TartSame
<1>3. TartOnly(c) /\ TartAddresses'
  BY <1>1, <1>2, TartCloudSame, TartHeldSame DEF TartOnly, TartTypes, TartSame
<1>4. TartCall(c)'
  BY <1>1, <1>2 DEF TartCall, TartTypes, BootedPcs, LockedPcs, Idle
<1>5. ~shared'.broken => TartShared(c)
  BY <1>1, <1>2 DEF TartShared, TartSame, TartCaller, BootedPcs, LockedPcs
<1>6. ~shared'.broken => TartCaller(c)'
  BY <1>1, <1>2, TartCloudSame, TartHeldSame DEF TartCaller, TartSame, TartCall, TartTypes, BootedPcs, LockedPcs, Idle
<1> QED
  BY <1>1, <1>2, <1>3, <1>4, <1>5, <1>6, TartCombine DEF TartSame, TartTypes

(* It is killed, and leaves its lock. *)
LEMMA TartKilled ==
  ASSUME TartInv, NEW c \in Callers, Tart!Killed(c)
  PROVE  TartInv'
<1>1. TartTypes /\ TartCall(c) /\ (~shared.broken => TartCaller(c))
  BY DEF TartInv, TartTypes
<1>2. /\ UNCHANGED <<cloud, held, destroyed>> /\ made' = made /\ TartSame
      /\ call[c].pc # "idle" /\ call' = [call EXCEPT ![c] = Idle]
  BY <1>1 DEF Tart!Killed, Tart!Exit, TartTypes, TartCall, Idle, Tart!Idle, Tart!Return, Tart!Goto, TartSame
<1>3. TartOnly(c) /\ TartAddresses'
  BY <1>1, <1>2, TartCloudSame, TartHeldSame DEF TartOnly, TartTypes, TartSame
<1>4. TartCall(c)'
  BY <1>1, <1>2 DEF TartCall, TartTypes, BootedPcs, LockedPcs, Idle
<1>5. ~shared'.broken => TartShared(c)
  BY <1>1, <1>2 DEF TartShared, TartSame, TartCaller, BootedPcs, LockedPcs
<1>6. ~shared'.broken => TartCaller(c)'
  BY <1>1, <1>2, TartCloudSame, TartHeldSame DEF TartCaller, TartSame, TartCall, TartTypes, BootedPcs, LockedPcs, Idle
<1> QED
  BY <1>1, <1>2, <1>3, <1>4, <1>5, <1>6, TartCombine DEF TartSame, TartTypes

(* It clones and boots its VM, at an address no other has. *)
LEMMA TartCloneAndBoot ==
  ASSUME TartInv, NEW c \in Callers, Tart!CloneAndBoot(c)
  PROVE  TartInv'
<1>1. TartTypes /\ TartCall(c) /\ (~shared.broken => TartCaller(c))
  BY DEF TartInv, TartTypes
<1>2. /\ UNCHANGED <<held, destroyed, made>> /\ TartSame /\ call[c].pc = "clone"
      /\ call' = [call EXCEPT ![c] = Idle] \/ call' = [call EXCEPT ![c].pc = "lock"]
  BY <1>1 DEF Tart!CloneAndBoot, Tart!Exit, TartTypes, TartCall, Idle, Tart!Idle, Tart!Return,
     Tart!Goto, TartSame
<1>3. /\ TartAddresses' /\ (call'[c].pc = "lock" => HostVM(c)')
      /\ \A d \in Callers \ {c} : (HostVM(d)' <=> HostVM(d)) /\ (HostVM(d) => Addr(d)' = Addr(d))
  <2>1. CASE UNCHANGED cloud /\ call'[c] = Idle
    BY <2>1, TartCloudSame DEF Idle
  <2>2. CASE \E ip \in Addresses : /\ \A r \in DOMAIN cloud : cloud[r].ip # ip
                                  /\ Tart!Add(Tart!VM(c), [ip |-> ip])
    <3>1. PICK ip \in Addresses :
                    /\ \A r \in DOMAIN cloud : cloud[r].ip # ip
                    /\ Tart!Add(Tart!VM(c), [ip |-> ip])
      BY <2>2
    <3>2. /\ DOMAIN cloud' = DOMAIN cloud \cup {Tart!VM(c)} /\ cloud'[Tart!VM(c)].ip = ip
          /\ \A r \in DOMAIN cloud : r # Tart!VM(c) => cloud'[r] = cloud[r]
          /\ Tart!VM(c) = Tart!VM(Tart!VM(c).name)
          /\ \A d : d # c => Tart!VM(d) # Tart!VM(c)
      BY <3>1 DEF Tart!Add, Tart!With, Tart!VM, Tart!Resource
    <3> QED
      BY <3>1, <3>2 DEF TartInv, TartAddresses, HostVM, Addr, Tart!Address, Exists
  <2> QED
    BY <1>1, <2>1, <2>2 DEF Tart!CloneAndBoot, Tart!Exit, Tart!Return, Tart!Idle, Idle, TartTypes
<1>4. TartOnly(c)
  BY <1>1, <1>2, <1>3, TartHeldSame DEF TartOnly, TartTypes, TartSame
<1>5. TartCall(c)'
  BY <1>1, <1>2 DEF TartCall, TartTypes, BootedPcs, LockedPcs, Idle
<1>6. ~shared'.broken => TartShared(c)
  BY <1>2 DEF TartShared, TartSame
<1>7. ~shared'.broken => TartCaller(c)'
  BY <1>1, <1>2, <1>3, TartHeldSame DEF TartCaller, TartSame, TartCall, TartTypes, BootedPcs, LockedPcs, Idle
<1> QED
  BY <1>2, <1>3, <1>4, <1>5, <1>6, <1>7, TartCombine DEF TartSame

(* It reaches the VM, which is then held. *)
LEMMA TartCloudInit ==
  ASSUME TartInv, NEW c \in Callers, Tart!CloudInit(c)
  PROVE  TartInv'
<1>1. TartTypes /\ TartCall(c) /\ (~shared.broken => TartCaller(c))
  BY DEF TartInv, TartTypes
<1>2. /\ UNCHANGED <<cloud, destroyed, made>> /\ TartSame /\ call[c].pc = "connect"
      /\ call' = [call EXCEPT ![c] = Idle]
      /\ held' = held \/ \E i : i.name = c /\ held' = held \cup {i}
  BY <1>1 DEF Tart!CloudInit, TartTypes, TartCall, Idle, Tart!Idle, Tart!Return, TartSame
<1>3. TartOnly(c) /\ TartAddresses'
  BY <1>1, <1>2, TartCloudSame DEF TartOnly, TartTypes, TartSame, HeldAs
<1>4. TartCall(c)'
  BY <1>1, <1>2 DEF TartCall, TartTypes, Idle
<1>5. ~shared'.broken => TartShared(c)
  BY <1>2 DEF TartShared, TartSame
<1>6. ~shared'.broken => TartCaller(c)'
  BY <1>1, <1>2, TartCloudSame DEF TartCaller, TartSame, TartCall, TartTypes, BootedPcs, LockedPcs, Idle
<1> QED
  BY <1>2, <1>3, <1>4, <1>5, <1>6, TartCombine DEF TartSame

(* The script of a destroy starts. *)
LEMMA TartDestroyScript ==
  ASSUME TartInv, NEW c \in Callers, Tart!DestroyScript(c)
  PROVE  TartInv'
<1>1. TartTypes /\ TartCall(c) /\ (~shared.broken => TartCaller(c))
  BY DEF TartInv, TartTypes
<1>2. /\ UNCHANGED <<cloud, destroyed, made>> /\ TartSame /\ HostVM(c)
      /\ call' = [call EXCEPT ![c] = call'[c]] /\ call'[c].pc = "lock"
      /\ {"pc", "locked", "copy", "destroy", "list"} \subseteq DOMAIN call'[c]
      /\ held' = {i \in held : i.name # c}
  BY <1>1 DEF Tart!DestroyScript, TartTypes, TartSame, HostVM, Exists, Tart!Exists
<1>3. TartOnly(c) /\ TartAddresses' /\ ~HeldAs(c)'
  BY <1>1, <1>2, TartCloudSame DEF TartOnly, TartTypes, TartSame, HeldAs
<1>4. TartCall(c)'
  BY <1>1, <1>2 DEF TartCall, TartTypes, BootedPcs
<1>5. ~shared'.broken => TartShared(c)
  BY <1>2 DEF TartShared, TartSame
<1>6. ~shared'.broken => TartCaller(c)'
  BY <1>1, <1>2, <1>3, TartCloudSame DEF TartCaller, TartSame, BootedPcs, LockedPcs
<1> QED
  BY <1>2, <1>3, <1>4, <1>5, <1>6, TartCombine DEF TartSame

(* It deletes the VM. *)
LEMMA TartDeleteVM ==
  ASSUME TartInv, NEW c \in Callers, Tart!DeleteVM(c)
  PROVE  TartInv'
<1>1. TartTypes /\ TartCall(c) /\ (~shared.broken => TartCaller(c))
  BY DEF TartInv, TartTypes
<1>2. /\ UNCHANGED <<held, destroyed, made>> /\ call[c].pc = "delete"
      /\ DOMAIN shared' = DOMAIN shared /\ shared'.broken = shared.broken
      /\ shared'.anchor = shared.anchor /\ shared'.pf = shared.pf
      /\ call' = [call EXCEPT ![c] = Idle]
  BY <1>1 DEF Tart!DeleteVM, Tart!Unlock, TartTypes, TartCall, Idle, Tart!Idle, Tart!Return
<1>3. /\ TartAddresses'
      /\ \A d \in Callers \ {c} : (HostVM(d)' <=> HostVM(d)) /\ (HostVM(d) => Addr(d)' = Addr(d))
  <2>1. CASE UNCHANGED cloud
    BY <2>1, TartCloudSame
  <2>2. CASE cloud' = Tart!Without({Tart!VM(c)})
    BY <2>2 DEF Tart!Without, TartInv, TartAddresses, HostVM, Addr, Tart!Address, Exists, Tart!VM,
       Tart!Resource
  <2> QED
    BY <2>1, <2>2 DEF Tart!DeleteVM, Tart!BestEffort, Tart!Deleted, Tart!Abandon
<1>4. TartOnly(c)
  BY <1>1, <1>2, <1>3, TartHeldSame DEF TartOnly, TartTypes
<1>5. TartCall(c)'
  BY <1>1, <1>2 DEF TartCall, TartTypes, Idle
<1>6. ~shared'.broken => TartShared(c)
  BY <1>2 DEF TartShared, LockedPcs
<1>7. ~shared'.broken => TartCaller(c)'
  BY <1>1, <1>2, TartHeldSame DEF TartCaller, TartCall, TartTypes, BootedPcs, LockedPcs, Idle
<1> QED
  BY <1>2, <1>3, <1>4, <1>5, <1>6, <1>7, TartCombine

(* Every step of the host keeps its invariant. *)
LEMMA TartNext ==
  ASSUME TartInv, Tart!Next
  PROVE  TartInv'
BY TartStartScript, TartCleanUpImages, TartPullImage, TartLock, TartSedRead, TartSedWrite,
   TartAppendRule, TartLoadRules, TartKilled, TartCloneAndBoot, TartCloudInit, TartDestroyScript,
   TartDeleteVM
   DEF Tart!Next, Tart!ScriptStep

(* It holds at the start. *)
LEMMA TartInit ==
  ASSUME Init, scenario.driver = "tart"
  PROVE  TartInv
<1>1. shared = Tart!TartInit
  BY DEF Init, Fields, MacHypervisors
<1> QED
  BY <1>1 DEF Init, Tart!TartInit, Idle, TartInv, TartTypes, TartCall, TartAddresses, TartCaller, HeldAs,
     HostVM, Exists, BootedPcs, LockedPcs

(* It is about the state only. *)
LEMMA TartStutters ==
  ASSUME TartInv, UNCHANGED vars
  PROVE  TartInv'
<1>1. \A c \in Callers : TartCaller(c)' <=> TartCaller(c)
  BY TartCloudSame, TartHeldSame DEF vars, TartCaller
<1>2. TartTypes' /\ TartAddresses'
  BY TartCloudSame DEF vars, TartInv, TartTypes, TartCall
<1> QED
  BY <1>1, <1>2 DEF TartInv, vars

(* It gives PortForwarded. *)
LEMMA TartPortForwarded ==
  ASSUME TartInv
  PROVE  PortForwarded
BY DEF TartInv, PortForwarded, TartTypes, TartCaller, HeldVMs, HeldAs, Sole, Addr, Tart!Apart

-----------------------------------------------------------------------------
(* All drivers. *)

(* The invariant of the driver the behaviour is about.  Nothing but the    *)
(* machines of VMware Fusion, about which nothing is claimed, is outside.  *)
Batched == {"google", "amazon", "azure", "digitalocean", "anka", "ankabuild"}
DriversInv ==
  /\ scenario \in Scenarios
  /\ scenario.driver = "google" => GoogleInv
  /\ scenario.driver = "amazon" => AmazonInv
  /\ scenario.driver = "azure" => AzureInv
  /\ scenario.driver = "digitalocean" => DOInv
  /\ scenario.driver \in {"anka", "ankabuild"} => MacInv
  /\ scenario.driver = "nomad" => NomadInv
  /\ scenario.driver = "tart" => TartInv
  /\ scenario.driver \notin Batched \cup {"vmfusion", "nomad"} => destroyed = {}

(* Nothing is made, held or under way at the start. *)
LEMMA InitCalm ==
  ASSUME Init
  PROVE  /\ BatchInv /\ Owned /\ Things = {} /\ HeldVMs = {} /\ DOMAIN cloud = {}
         /\ \A c \in Callers : call[c] = Idle /\ ~Batching(c) /\ ~Creating(c)
<1>1. Things = {} /\ HeldVMs = {} /\ DOMAIN cloud = {} /\ destroyed = {}
  BY DEF Init, Things, HeldVMs
<1>2. DOMAIN call = Callers /\ \A c \in Callers : call[c] = Idle /\ ~Batching(c) /\ ~Creating(c)
  BY DEF Init, Batching, Creating, Idle
<1> QED
  BY <1>1, <1>2 DEF BatchInv, Owned, Batch

(* The first network of a Google pool is one of them. *)
LEMMA GoogleStarts ==
  ASSUME Init, scenario.driver = "google"
  PROVE  GoogleInv
<1>1. shared = [next |-> 1, stockout |-> {}]
  BY DEF Init, Fields, MacHypervisors, Google!GoogleInit
<1>2. OnGoogleCloud
  BY DEF Init, OnGoogleCloud
<1>3. GoogleNext
  <2>1. DOMAIN scenario.networks = 1..Len(scenario.networks) /\ Len(scenario.networks) \in Nat \ {0}
    BY <1>2, NetworksAssumption DEF OnGoogleCloud
  <2> QED
    BY <1>1, <2>1 DEF GoogleNext
<1>4. \A c \in Callers : GoogleShape(c) /\ SetOver(c)
  BY InitCalm DEF GoogleShape, SetOver, Setting, Idle
<1> QED
  BY <1>2, <1>3, <1>4, InitCalm DEF GoogleInv

(* An Amazon pool starts without a security group. *)
LEMMA AmazonStarts ==
  ASSUME Init, scenario.driver = "amazon"
  PROVE  AmazonInv
<1>1. "groups" \in DOMAIN shared /\ ~shared.groups
  BY DEF Init, Fields, MacHypervisors, Amazon!AmazonInit
<1>2. AmazonGroups /\ AmazonThings
  BY <1>1, InitCalm DEF AmazonGroups, AmazonThings, Exists
<1>3. \A c \in Callers : AmazonShape(c) /\ AmazonGroup(c)
  BY InitCalm DEF AmazonShape, AmazonGroup, Idle
<1> QED
  BY <1>2, <1>3, InitCalm DEF AmazonInv

(* The invariant holds at the start. *)
LEMMA DriversStart ==
  ASSUME Init
  PROVE  DriversInv
<1>1. scenario.driver = "azure" => AzureInv
  BY InitCalm DEF AzureInv, AzureThings, AzureShape, AzureDeleting
<1>2. scenario.driver = "digitalocean" => DOInv
  BY InitCalm DEF DOInv, DOShape, DOThings
<1>3. scenario.driver \in {"anka", "ankabuild"} => MacInv
  BY InitCalm DEF MacInv, MacShape, MacThings
<1>4. scenario \in Scenarios /\ destroyed = {}
  BY DEF Init
<1> QED
  BY <1>1, <1>2, <1>3, <1>4, GoogleStarts, AmazonStarts, NomadInit, TartInit DEF DriversInv

(* A step in which nothing changes, on Google. *)
LEMMA GoogleStutters ==
  ASSUME GoogleInv, UNCHANGED dvars
  PROVE  GoogleInv' /\ KeepLabels
<1>1. UNCHANGED <<cloud, abandoned, held, destroyed, call, made, shared, scenario>>
  BY DEF dvars
<1>2. Same /\ VMsSame
  BY <1>1, ThingsSame, VMsUnchanged DEF Same
<1>3. BatchInv' /\ Owned'
  BY <1>2, BatchSame, OwnedSame DEF GoogleInv
<1>4. \A c \in Callers : GoogleShape(c)'
  BY <1>1, ConfigSame DEF GoogleInv, GoogleShape
<1>5. \A c \in Callers : SetOver(c)'
  BY <1>1 DEF GoogleInv, SetOver, Setting, Over, Creating
<1>6. \A r \in Things' : GoogleVM(r)'
  <2> SUFFICES ASSUME NEW r \in Things
               PROVE  GoogleVM(r)'
    BY <1>2 DEF Same
  <2>1. r = Google!VM(r.name, r.zone) <=> (r = Google!VM(r.name, r.zone))'
    BY DEF Google!VM, Google!Resource
  <2> QED
    BY <1>1, <2>1, ConfigSame DEF GoogleInv, GoogleVM, Creating
<1>7. \A i \in HeldVMs' : ProxyOf(i.zone, i.proxy)'
  BY <1>1, ConfigSame DEF GoogleInv, HeldVMs
<1>8. OnGoogleCloud' /\ GoogleNext'
  BY <1>1 DEF GoogleInv, OnGoogleCloud, GoogleNext
<1> QED
  BY <1>1, <1>2, <1>3, <1>4, <1>5, <1>6, <1>7, <1>8, GoogleKeepsLabels DEF GoogleInv

(* A step in which nothing changes, on Amazon. *)
LEMMA AmazonStutters ==
  ASSUME AmazonInv, UNCHANGED dvars
  PROVE  AmazonInv'
<1>1. UNCHANGED <<cloud, abandoned, held, destroyed, call, made, shared, scenario>>
  BY DEF dvars
<1>2. Same /\ GroupKept
  BY <1>1, ThingsSame, GroupSame DEF Same
<1>3. BatchInv' /\ Owned'
  BY <1>2, BatchSame, OwnedSame DEF AmazonInv
<1>4. AmazonGroups' /\ GroupSafe
  BY <1>1, <1>2, GroupKeeps DEF AmazonGroups, AmazonInv, Same
<1>5. \A c \in Callers : AmazonShape(c)' /\ AmazonGroup(c)'
  BY <1>1, <1>4 DEF AmazonInv, AmazonShape, AmazonGroup, GroupSafe
<1> QED
  BY <1>2, <1>3, <1>4, <1>5 DEF AmazonInv, AmazonThings, Same

(* A step in which nothing changes keeps the invariant. *)
LEMMA DriversStutter ==
  ASSUME DriversInv, UNCHANGED dvars
  PROVE  DriversInv'
<1>1. UNCHANGED <<cloud, abandoned, held, destroyed, call, made, shared, scenario>>
  BY DEF dvars
<1>2. Same
  BY <1>1, ThingsSame DEF Same
<1>3. BatchInv => BatchInv'
  BY <1>2, BatchSame
<1>4. AzureInv => AzureInv'
  <2>1. AzureThings => AzureThings'
    <3>1. Things' = Things
      BY <1>2 DEF Same
    <3>2. Azure!DestroyParts' = Azure!DestroyParts
      BY <1>1 DEF Azure!DestroyParts, Azure!PrivateIP, Azure!UseExistingNetwork
    <3>3. ASSUME NEW kind, NEW c
          PROVE  Azure!Part(kind, c)' = Azure!Part(kind, c)
      BY DEF Azure!Part, Azure!Resource
    <3> QED
      BY <3>1, <3>2, <3>3 DEF AzureThings
  <2>2. \A c \in Callers : AzureShape(c) /\ AzureDeleting(c) => AzureShape(c)' /\ AzureDeleting(c)'
    BY <1>1, <1>2 DEF AzureShape, AzureDeleting, Same, Batching
  <2> QED
    BY <1>3, <2>1, <2>2 DEF AzureInv
<1>5. DOInv => DOInv'
  BY <1>1, <1>2, <1>3 DEF DOInv, DOThings, DOShape, Same
<1>6. MacInv => MacInv'
  BY <1>1, <1>2, <1>3 DEF MacInv, MacThings, MacShape, Same, Creating
<1>7. UNCHANGED vars
  BY <1>1 DEF vars
<1> QED
  BY <1>1, <1>4, <1>5, <1>6, <1>7, GoogleStutters, AmazonStutters, NomadStutters, TartStutters DEF DriversInv

(* Every step of every driver keeps the invariant. *)
LEMMA DriversStep ==
  ASSUME DriversInv, Next
  PROVE  DriversInv'
<1>1. CASE Of("google", Google!Next)
  BY <1>1, GoogleNextKeeps DEF DriversInv, Batched, Of
<1>2. CASE Of("amazon", Amazon!Next)
  BY <1>2, AmazonNext DEF DriversInv, Batched, Of
<1>3. CASE Of("azure", Azure!Next)
  BY <1>3, AzureNext DEF DriversInv, Batched, Of
<1>4. CASE Of("digitalocean", DigitalOcean!Next)
  BY <1>4, DONext DEF DriversInv, Batched, Of
<1>5. CASE Of("nomad", Nomad!Next)
  BY <1>5, NomadNext DEF DriversInv, Batched, Of
<1>6. CASE Of("tart", Tart!Next)
  BY <1>6, TartNext DEF DriversInv, Batched, Of, TartInv, TartTypes
<1>7. CASE scenario.driver \in MacHypervisors /\ Mac!Next /\ UNCHANGED scenario
  BY <1>7, MacNext DEF DriversInv, Batched, MacHypervisors
<1>8. CASE Quiet /\ UNCHANGED scenario
  BY <1>8, DriversStutter DEF Quiet, vars, dvars
<1> QED
  BY <1>1, <1>2, <1>3, <1>4, <1>5, <1>6, <1>7, <1>8 DEF Next

(* The invariant is one. *)
LEMMA DriversInvariant == Spec => []DriversInv
<1>1. Init => DriversInv
  BY DriversStart
<1>2. DriversInv /\ [Next]_dvars => DriversInv'
  BY DriversStep, DriversStutter
<1> QED
  BY <1>1, <1>2, PTL DEF Spec

(* Google forgets no VM: for any number of concurrent calls, zones,        *)
(* networks and persistent disks, every VM in the cloud is held by the     *)
(* pool manager, or by the Create that made it, or its delete was refused  *)
(* by the provider.  Amazon forgets none but the VM of a Create whose      *)
(* context ends while it polls for the address.                            *)
THEOREM NoVMIsForgotten == Spec => []NoOrphanVM
<1>1. DriversInv => NoOrphanVM
  <2> SUFFICES ASSUME Owned, NEW r \in Orphans
               PROVE  r \in abandoned \/ (scenario.driver = "amazon" /\ r \in LeftBehind)
    BY DEF DriversInv, GoogleInv, AmazonInv, NoOrphanVM
  <2>1. r \in Things /\ ~Kept(r) /\ ~Making(r)
    BY DEF Orphans, Things, Kept, HeldVMs, Making, Made, Creating
  <2>2. r \in DOMAIN cloud
    BY DEF Orphans
  <2>3. r \in abandoned \/ LeftVM(r)
    BY <2>1 DEF Owned
  <2>4. LeftVM(r) => scenario.driver = "amazon" /\ r \in LeftBehind
    BY <2>2 DEF LeftVM, LeftBehind
  <2> QED
    BY <2>3, <2>4
<1> QED
  BY <1>1, DriversInvariant, PTL

(* What a Destroy reported gone is gone, on every driver but VMware        *)
(* Fusion, and on Azure with every part of it.                             *)
THEOREM ReportedGoneIsGone == Spec => []DestroyedIsGone
<1>1. DriversInv => DestroyedIsGone
  <2> SUFFICES ASSUME DriversInv
               PROVE  DestroyedIsGone
    OBVIOUS
  <2>1. CASE scenario.driver \in Batched
    <3>1. BatchInv
      <4>1. /\ GoogleInv => BatchInv
            /\ AmazonInv => BatchInv
            /\ AzureInv => BatchInv
            /\ DOInv => BatchInv
            /\ MacInv => BatchInv
        BY DEF GoogleInv, AmazonInv, AzureInv, DOInv, MacInv
      <4> QED
        BY <2>1, <4>1 DEF Batched, DriversInv
    <3> QED
      BY <3>1 DEF BatchInv, GoneOf, Things, DestroyedIsGone
  <2>2. CASE scenario.driver = "nomad"
    BY <2>2, NomadDestroyedIsGone DEF DriversInv
  <2>3. CASE scenario.driver = "vmfusion"
    BY <2>3 DEF DestroyedIsGone
  <2>4. CASE scenario.driver \notin Batched \cup {"vmfusion", "nomad"}
    BY <2>4 DEF DriversInv, DestroyedIsGone
  <2> QED
    BY <2>1, <2>2, <2>3, <2>4
<1> QED
  BY <1>1, DriversInvariant, PTL

(* A Google VM boots with, and its instance records, the egress proxy of a *)
(* network of its zone, whichever candidate of the stock-out retry the     *)
(* create ended with.                                                      *)
THEOREM ProxyIsOfNetwork == Spec => []ProxyOfNetwork
<1>1. DriversInv => ProxyOfNetwork
  BY DEF DriversInv, GoogleInv, GoogleVM, Things, ProxyOfNetwork
<1> QED
  BY <1>1, DriversInvariant, PTL

(* Concurrent SetLabels and SetTags calls never undo each other: the       *)
(* labels and the metadata of a VM only grow.                              *)
THEOREM LabelsAreKept == Spec => LabelsKept
<1>1. DriversInv /\ [Next]_dvars => [scenario.driver = "google" => KeepLabels]_dvars
  <2> SUFFICES ASSUME DriversInv, Next, scenario.driver = "google"
               PROVE  KeepLabels
    OBVIOUS
  <2>1. GoogleInv
    BY DEF DriversInv
  <2>2. CASE Of("google", Google!Next)
    BY <2>1, <2>2, GoogleNextKeeps
  <2>3. CASE Quiet /\ UNCHANGED scenario
    BY <2>1, <2>3, GoogleStutters DEF Quiet, vars, dvars
  <2> QED
    BY <2>2, <2>3 DEF Next, Of, MacHypervisors
<1>2. DriversInv /\ [Next]_dvars => [scenario.driver = "google" =>
       \A r \in DOMAIN cloud \cap DOMAIN cloud' :
         r.kind = "vm" => /\ cloud[r].labels \subseteq cloud'[r].labels
                          /\ cloud[r].metadata \subseteq cloud'[r].metadata]_dvars
  BY <1>1 DEF KeepLabels
<1> QED
  BY <1>2, DriversInvariant, PTL DEF Spec, LabelsKept

(* No Amazon VM runs behind a security group without the ingress rule of   *)
(* the lite engine, however many creates share the group, find it without  *)
(* the rule or fail half way.                                              *)
THEOREM VMsAreReachable == Spec => []ReachableVM
<1>1. DriversInv => ReachableVM
  BY DEF DriversInv, AmazonInv, AmazonGroups, Things, Ingress, Group, ReachableVM
<1> QED
  BY <1>1, DriversInvariant, PTL

(* The room of a Nomad VM in use is not given away: its resource job did   *)
(* not end on failed health checks.                                        *)
THEOREM RoomIsKept == Spec => []RoomKept
<1>1. DriversInv => RoomKept
  BY NomadRoomKept DEF DriversInv, RoomKept
<1> QED
  BY <1>1, DriversInvariant, PTL

(* On a Mac host the packet filter forwards to every VM that came up at an *)
(* address that no other address of the host matches, as long as no script *)
(* has broken the lock on the anchor file.                                 *)
THEOREM PortsAreForwarded == Spec => []PortForwarded
<1>1. DriversInv => PortForwarded
  BY TartPortForwarded DEF DriversInv, PortForwarded
<1> QED
  BY <1>1, DriversInvariant, PTL

=============================================================================
