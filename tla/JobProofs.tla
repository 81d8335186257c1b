----------------------------- MODULE JobProofs -----------------------------
(***************************************************************************)
(* Proofs about the scheduler and about the forecast that its jobs make.   *)
(*                                                                         *)
(* A registered job has one goroutine that has not been cancelled, for any *)
(* names, any number of goroutines and any order of registrations,         *)
(* removals, start and stop.  The property counts goroutines; the          *)
(* invariant says what the scheduler knows of them.  After the start       *)
(* jobCancels has exactly the registered names, and it is a bijection      *)
(* between them and the goroutines that have not been cancelled: the       *)
(* cancel function of a job belongs to a goroutine of that job, and a      *)
(* goroutine that is not cancelled is the one whose cancel function is     *)
(* kept.  A goroutine that has returned was cancelled, unless the          *)
(* scheduler was stopped.                                                  *)
(*                                                                         *)
(* A forecast is a ceiling of weighted averages, each of which lies        *)
(* between the least and the greatest of the records it is taken over; the *)
(* moving average by induction over the slots, as the least counterexample *)
(* among the natural numbers.  The invariant HistoryInv says that over the *)
(* last three weeks these records are all the uses that are not 0.  Then a *)
(* forecast can only be below all uses if a window without records is left *)
(* out that had a use, and there is none: if no use was 0 the same window  *)
(* of last week has a record, and some weekday of the last three days has. *)
(***************************************************************************)
EXTENDS Scheduler, Forecast, FiniteSetTheorems, WellFoundedInduction, TLAPS

-----------------------------------------------------------------------------
(* The scheduler. *)

Goroutine == [job : Names, pc : {"begin", "select", "execute", "returned"}, cancelled : BOOLEAN]

(* The types, and that only finitely many names are ever registered. *)
TypeOK ==
  /\ jobs \subseteq Names /\ IsFiniteSet(jobs)
  /\ goroutines \in Seq(Goroutine)
  /\ jobCancels \in [DOMAIN jobCancels -> DOMAIN goroutines]
  /\ started \in BOOLEAN /\ stopped \in BOOLEAN

(* Nothing runs before the start; then the registered jobs do. *)
Registered == DOMAIN jobCancels = IF started THEN jobs ELSE {}
NotStarted == started \/ goroutines = <<>>

(* A cancel function belongs to a goroutine of its job, not yet cancelled. *)
Owned == \A name \in DOMAIN jobCancels : /\ goroutines[jobCancels[name]].job = name
                                         /\ ~goroutines[jobCancels[name]].cancelled

(* A goroutine that is not cancelled can be. *)
Reached == \A g \in DOMAIN goroutines : ~goroutines[g].cancelled =>
  goroutines[g].job \in DOMAIN jobCancels /\ jobCancels[goroutines[g].job] = g

(* Goroutines return for a reason. *)
ForCause == \A g \in DOMAIN goroutines :
  goroutines[g].pc = "returned" => goroutines[g].cancelled \/ stopped

(* The inductive invariant. *)
IInv == TypeOK /\ Registered /\ NotStarted /\ Owned /\ Reached /\ ForCause

(* What was asked of a name is seen in the jobs, unless it was to remove   *)
(* the name before the start.                                              *)
Asked ==
  /\ asked \in [Names -> {"nothing", "register", "remove", "remove early"}]
  /\ \A name \in Names :
       /\ asked[name] = "register" => name \in jobs
       /\ asked[name] \in {"nothing", "remove"} => name \notin jobs

-----------------------------------------------------------------------------
(* Initially there are no jobs and no goroutines. *)
LEMMA InitInv == SchedulerInit => IInv
<1> SUFFICES ASSUME SchedulerInit PROVE IInv
  OBVIOUS
<1>1. /\ jobs = {} /\ jobCancels = <<>> /\ goroutines = <<>>
      /\ started = FALSE /\ stopped = FALSE
  BY DEF SchedulerInit
<1>2. IsFiniteSet(jobs)
  BY <1>1, FS_EmptySet
<1>3. goroutines \in Seq(Goroutine) /\ DOMAIN goroutines = {} /\ DOMAIN jobCancels = {}
  BY <1>1
<1>4. jobCancels \in [DOMAIN jobCancels -> DOMAIN goroutines]
  <2>1. <<>> \in [{} -> {}]
    OBVIOUS
  <2> QED
    BY <1>1, <1>3, <2>1
<1> QED
  BY <1>1, <1>2, <1>3, <1>4 DEF IInv, TypeOK, Registered, NotStarted, Owned, Reached, ForCause

(* What a goroutine is made of. *)
LEMMA GoroutineType ==
  ASSUME TypeOK, NEW g \in DOMAIN goroutines
  PROVE  goroutines[g] \in Goroutine /\ goroutines[g].cancelled \in BOOLEAN
<1>1. goroutines[g] \in Goroutine
  BY DEF TypeOK
<1>2. \A r \in Goroutine : r.cancelled \in BOOLEAN
  BY DEF Goroutine
<1> QED
  BY <1>1, <1>2

(* An order of a finite set names each of its members in one place. *)
LEMMA Orders ==
  ASSUME NEW names, IsFiniteSet(names), NEW order \in SetToSeqs(names)
  PROVE  /\ order \in [1..Cardinality(names) -> names]
         /\ Cardinality(names) \in Nat
         /\ \A i, j \in 1..Cardinality(names) : order[i] = order[j] => i = j
         /\ \A name \in names : \E i \in 1..Cardinality(names) : order[i] = name
<1> DEFINE n == Cardinality(names)
<1>1. n \in Nat
  BY FS_CardinalityType
<1>2. order \in [1..n -> names] /\ \A i, j \in 1..n : order[i] = order[j] => i = j
  BY DEF SetToSeqs
<1>3. order \in Injection(1..n, names)
  BY <1>2 DEF Injection, IsInjective
<1>4. Cardinality(1..n) = Cardinality(names)
  BY <1>1, FS_Interval
<1>5. order \in Surjection(1..n, names)
  BY <1>3, <1>4, FS_Injection
<1> QED
  BY <1>1, <1>2, <1>5 DEF Surjection

(* The effect of StartJobs: the goroutines before it stay; there is one    *)
(* new goroutine for each of the names, which its cancel function reaches. *)
LEMMA StartJobsEffect ==
  ASSUME NEW names \in SUBSET Names, IsFiniteSet(names), NEW gs \in Seq(Goroutine),
         jobCancels \in [DOMAIN jobCancels -> 1..Len(gs)],
         StartJobs(names, gs)
  PROVE  /\ goroutines' \in Seq(Goroutine)
         /\ Len(gs) <= Len(goroutines')
         /\ \A g \in 1..Len(gs) : goroutines'[g] = gs[g]
         /\ \A g \in (Len(gs) + 1)..Len(goroutines') :
              /\ goroutines'[g].job \in names /\ ~goroutines'[g].cancelled
              /\ goroutines'[g].pc = "begin"
              /\ jobCancels'[goroutines'[g].job] = g
         /\ DOMAIN jobCancels' = names \cup DOMAIN jobCancels
         /\ \A name \in names : /\ jobCancels'[name] \in (Len(gs) + 1)..Len(goroutines')
                                /\ goroutines'[jobCancels'[name]].job = name
         /\ \A name \in DOMAIN jobCancels \ names : jobCancels'[name] = jobCancels[name]
         /\ jobCancels' \in [DOMAIN jobCancels' -> DOMAIN goroutines']
<1> DEFINE n == Cardinality(names)
           m == Len(gs)
<1>1. PICK order \in SetToSeqs(names) :
        /\ goroutines' = gs \o [i \in DOMAIN order |->
                                  [job |-> order[i], pc |-> "begin", cancelled |-> FALSE]]
        /\ jobCancels' = [name \in names \cup DOMAIN jobCancels |->
             IF name \in names
             THEN CHOOSE g \in DOMAIN goroutines' : g > Len(gs) /\ goroutines'[g].job = name
             ELSE jobCancels[name]]
  BY DEF StartJobs
<1> DEFINE new == [i \in DOMAIN order |-> [job |-> order[i], pc |-> "begin", cancelled |-> FALSE]]
<1>2. /\ order \in [1..n -> names] /\ n \in Nat
      /\ \A i, j \in 1..n : order[i] = order[j] => i = j
      /\ \A name \in names : \E i \in 1..n : order[i] = name
  BY Orders
<1>3. new \in Seq(Goroutine) /\ Len(new) = n
  <2>1. \A i \in 1..n : [job |-> order[i], pc |-> "begin", cancelled |-> FALSE] \in Goroutine
    BY <1>2 DEF Goroutine
  <2>2. new \in [1..n -> Goroutine]
    BY <1>2, <2>1
  <2> QED
    BY <1>2, <2>2
<1>4. \A i \in 1..n : new[i].job = order[i] /\ new[i].pc = "begin" /\ ~new[i].cancelled
  BY <1>2
<1>5. goroutines' = gs \o new
  BY <1>1
<1>6. m \in Nat
  OBVIOUS
<1> HIDE DEF n, m, new
<1>7. /\ goroutines' \in Seq(Goroutine) /\ Len(goroutines') = m + n
      /\ DOMAIN goroutines' = 1..(m + n)
  BY <1>2, <1>3, <1>5, <1>6 DEF m
<1>8. \A g \in 1..m : goroutines'[g] = gs[g]
  BY <1>3, <1>5 DEF m
<1>9. \A g \in (m + 1)..(m + n) : g - m \in 1..n /\ goroutines'[g] = new[g - m]
  BY <1>2, <1>3, <1>5, <1>6 DEF m
<1>10. \A g \in (m + 1)..(m + n) :
         /\ goroutines'[g].job = order[g - m] /\ goroutines'[g].job \in names
         /\ ~goroutines'[g].cancelled /\ goroutines'[g].pc = "begin"
  BY <1>2, <1>4, <1>9
<1>11. ASSUME NEW name \in names
       PROVE  /\ jobCancels'[name] \in (m + 1)..(m + n)
              /\ goroutines'[jobCancels'[name]].job = name
  <2>1. PICK i \in 1..n : order[i] = name
    BY <1>2
  <2>2. i + m \in (m + 1)..(m + n) /\ (i + m) - m = i
    BY <1>2, <1>6
  <2>3. goroutines'[i + m].job = name
    BY <1>10, <2>1, <2>2
  <2>4. i + m \in DOMAIN goroutines' /\ i + m > m
    BY <1>2, <1>6, <1>7
  <2>5. jobCancels'[name] = CHOOSE g \in DOMAIN goroutines' : g > m /\ goroutines'[g].job = name
    BY <1>1 DEF m
  <2>6. jobCancels'[name] \in DOMAIN goroutines' /\ jobCancels'[name] > m
        /\ goroutines'[jobCancels'[name]].job = name
    BY <2>3, <2>4, <2>5
  <2> QED
    BY <1>2, <1>6, <1>7, <2>6
<1>12. ASSUME NEW g \in (m + 1)..(m + n) PROVE jobCancels'[goroutines'[g].job] = g
  <2> DEFINE h == jobCancels'[goroutines'[g].job]
  <2>1. h \in (m + 1)..(m + n) /\ goroutines'[h].job = goroutines'[g].job
    BY <1>10, <1>11
  <2>2. h - m \in 1..n /\ g - m \in 1..n /\ order[h - m] = order[g - m]
    BY <1>9, <1>10, <2>1
  <2>3. h - m = g - m
    BY <1>2, <2>2
  <2> QED
    BY <1>2, <1>6, <2>1, <2>3
<1>13. /\ DOMAIN jobCancels' = names \cup DOMAIN jobCancels
       /\ \A name \in DOMAIN jobCancels \ names : jobCancels'[name] = jobCancels[name]
  BY <1>1
<1>14. jobCancels' \in [DOMAIN jobCancels' -> DOMAIN goroutines']
  <2>1. \A name \in DOMAIN jobCancels' : jobCancels'[name] \in DOMAIN goroutines'
    <3>1. ASSUME NEW name \in names PROVE jobCancels'[name] \in DOMAIN goroutines'
      BY <1>2, <1>6, <1>7, <1>11
    <3>2. ASSUME NEW name \in DOMAIN jobCancels \ names PROVE jobCancels'[name] \in DOMAIN goroutines'
      BY <1>2, <1>6, <1>7, <1>13 DEF m
    <3> QED
      BY <1>13, <3>1, <3>2
  <2> DEFINE e(name) ==
        IF name \in names
        THEN CHOOSE g \in DOMAIN goroutines' : g > Len(gs) /\ goroutines'[g].job = name
        ELSE jobCancels[name]
  <2>2. jobCancels' = [name \in names \cup DOMAIN jobCancels |-> e(name)]
    BY <1>1
  <2> HIDE DEF e
  <2> QED
    BY <2>1, <2>2
<1> QED
  BY <1>2, <1>6, <1>7, <1>8, <1>10, <1>11, <1>12, <1>13, <1>14 DEF m

(* Cancel marks the goroutine that the cancel function of the name         *)
(* reaches, and no other.                                                  *)
LEMMA CancelEffect ==
  ASSUME TypeOK, NEW name \in Names
  PROVE  /\ Cancel(name) \in Seq(Goroutine) /\ Len(Cancel(name)) = Len(goroutines)
         /\ DOMAIN Cancel(name) = DOMAIN goroutines
         /\ \A g \in DOMAIN goroutines :
              /\ Cancel(name)[g].job = goroutines[g].job
              /\ Cancel(name)[g].pc = goroutines[g].pc
              /\ Cancel(name)[g].cancelled =
                   (goroutines[g].cancelled \/ (name \in DOMAIN jobCancels /\ jobCancels[name] = g))
<1>1. CASE name \notin DOMAIN jobCancels
  <2>1. Cancel(name) = goroutines
    BY <1>1 DEF Cancel
  <2>2. \A g \in DOMAIN goroutines : goroutines[g].cancelled \in BOOLEAN
    BY GoroutineType
  <2> QED
    BY <1>1, <2>1, <2>2 DEF TypeOK
<1>2. CASE name \in DOMAIN jobCancels
  <2> DEFINE h == jobCancels[name]
             r == [goroutines[h] EXCEPT !.cancelled = TRUE]
  <2>1. h \in DOMAIN goroutines /\ goroutines[h] \in Goroutine
    BY <1>2 DEF TypeOK
  <2>2. r \in Goroutine /\ r.job = goroutines[h].job /\ r.pc = goroutines[h].pc /\ r.cancelled = TRUE
    BY <2>1 DEF Goroutine
  <2>3. Cancel(name) = [goroutines EXCEPT ![h] = r]
    BY <1>2 DEF Cancel
  <2> HIDE DEF h, r
  <2>4. /\ Cancel(name) \in Seq(Goroutine) /\ Len(Cancel(name)) = Len(goroutines)
        /\ DOMAIN Cancel(name) = DOMAIN goroutines
    BY <2>1, <2>2, <2>3 DEF TypeOK
  <2>5. \A g \in DOMAIN goroutines : Cancel(name)[g] = IF g = h THEN r ELSE goroutines[g]
    BY <2>1, <2>3 DEF TypeOK
  <2>6. \A g \in DOMAIN goroutines : goroutines[g].cancelled \in BOOLEAN
    BY GoroutineType
  <2> QED
    BY <1>2, <2>2, <2>4, <2>5, <2>6 DEF h
<1> QED
  BY <1>1, <1>2

(* A step of a goroutine changes its pc and nothing else. *)
LEMMA ToEffect ==
  ASSUME TypeOK, NEW g \in DOMAIN goroutines,
         NEW pc \in {"select", "execute", "returned"}, GoroutineTo(g, pc)
  PROVE  /\ goroutines' \in Seq(Goroutine) /\ DOMAIN goroutines' = DOMAIN goroutines
         /\ Len(goroutines') = Len(goroutines)
         /\ \A h \in DOMAIN goroutines :
              /\ goroutines'[h].job = goroutines[h].job
              /\ goroutines'[h].cancelled = goroutines[h].cancelled
              /\ goroutines'[h].pc = IF h = g THEN pc ELSE goroutines[h].pc
<1> DEFINE r == [goroutines[g] EXCEPT !.pc = pc]
<1>1. goroutines[g] \in Goroutine
  BY GoroutineType
<1>2. r \in Goroutine /\ r.job = goroutines[g].job /\ r.cancelled = goroutines[g].cancelled /\ r.pc = pc
  BY <1>1 DEF Goroutine
<1>3. goroutines' = [goroutines EXCEPT ![g] = r]
  BY DEF GoroutineTo
<1> HIDE DEF r
<1>4. /\ goroutines' \in Seq(Goroutine) /\ DOMAIN goroutines' = DOMAIN goroutines
      /\ Len(goroutines') = Len(goroutines)
  BY <1>2, <1>3 DEF TypeOK
<1>5. \A h \in DOMAIN goroutines : goroutines'[h] = IF h = g THEN r ELSE goroutines[h]
  BY <1>3 DEF TypeOK
<1> QED
  BY <1>2, <1>4, <1>5

(* A goroutine that moves does not return without a cause. *)
LEMMA GoroutineInv ==
  ASSUME IInv, NEW g \in DOMAIN goroutines, NEW pc \in {"select", "execute", "returned"},
         GoroutineTo(g, pc), pc = "returned" => Done(g)
  PROVE  IInv'
<1>1. TypeOK
  BY DEF IInv
<1>2. /\ goroutines' \in Seq(Goroutine) /\ DOMAIN goroutines' = DOMAIN goroutines
      /\ Len(goroutines') = Len(goroutines)
      /\ \A h \in DOMAIN goroutines :
           /\ goroutines'[h].job = goroutines[h].job
           /\ goroutines'[h].cancelled = goroutines[h].cancelled
           /\ goroutines'[h].pc = IF h = g THEN pc ELSE goroutines[h].pc
  BY <1>1, ToEffect
<1>3. UNCHANGED <<jobs, jobCancels, started, stopped>>
  BY DEF GoroutineTo
<1>4. TypeOK'
  BY <1>1, <1>2, <1>3 DEF TypeOK
<1>5. Registered' /\ NotStarted'
  <2>1. started
    BY DEF IInv, NotStarted
  <2> QED
    BY <1>3, <2>1 DEF IInv, Registered, NotStarted
<1>6. \A name \in DOMAIN jobCancels : jobCancels[name] \in DOMAIN goroutines
  BY <1>1 DEF TypeOK
<1>7. Owned'
  BY <1>2, <1>3, <1>6 DEF IInv, Owned
<1>8. Reached'
  BY <1>2, <1>3 DEF IInv, Reached
<1>9. ForCause'
  BY <1>2, <1>3 DEF IInv, ForCause, Done
<1> QED
  BY <1>4, <1>5, <1>7, <1>8, <1>9 DEF IInv

(* A job that is registered while the scheduler runs replaces its old      *)
(* goroutine, if it has one, by a new one.                                 *)
LEMMA RegisterInv == ASSUME IInv, NEW name \in Names, Register(name) PROVE IInv'
<1>1. TypeOK
  BY DEF IInv
<1>2. jobs' = jobs \cup {name} /\ UNCHANGED <<started, stopped>>
  BY DEF Register
<1>3. jobs' \subseteq Names /\ IsFiniteSet(jobs')
  BY <1>1, <1>2, FS_AddElement DEF TypeOK
<1>4. CASE ~started
  <2>1. DOMAIN jobCancels = {}
    BY <1>4 DEF IInv, Registered
  <2>2. goroutines' = goroutines /\ jobCancels' = jobCancels
    BY <1>4, <2>1 DEF Register, Cancel
  <2> QED
    BY <1>2, <1>3, <1>4, <2>1, <2>2
    DEF IInv, TypeOK, Registered, NotStarted, Owned, Reached, ForCause
<1>5. CASE started
  <2> DEFINE gs == Cancel(name)
  <2>1. StartJobs({name}, gs)
    BY <1>5 DEF Register
  <2>2. /\ gs \in Seq(Goroutine) /\ Len(gs) = Len(goroutines)
        /\ DOMAIN gs = DOMAIN goroutines
        /\ \A g \in DOMAIN goroutines :
             /\ gs[g].job = goroutines[g].job /\ gs[g].pc = goroutines[g].pc
             /\ gs[g].cancelled =
                  (goroutines[g].cancelled \/ (name \in DOMAIN jobCancels /\ jobCancels[name] = g))
    BY <1>1, CancelEffect
  <2> HIDE DEF gs
  <2> DEFINE m == Len(gs)
             new == (m + 1)..Len(goroutines')
  <2>3. DOMAIN goroutines = 1..m /\ m \in Nat
    BY <1>1, <2>2 DEF TypeOK
  <2>4. jobCancels \in [DOMAIN jobCancels -> 1..m]
    BY <1>1, <2>3 DEF TypeOK
  <2>5. {name} \in SUBSET Names /\ IsFiniteSet({name})
    BY FS_Singleton
  <2>6. /\ goroutines' \in Seq(Goroutine) /\ m <= Len(goroutines')
        /\ \A g \in 1..m : goroutines'[g] = gs[g]
        /\ \A g \in new : /\ goroutines'[g].job = name /\ ~goroutines'[g].cancelled
                          /\ goroutines'[g].pc = "begin" /\ jobCancels'[name] = g
        /\ DOMAIN jobCancels' = {name} \cup DOMAIN jobCancels
        /\ jobCancels'[name] \in new /\ goroutines'[jobCancels'[name]].job = name
        /\ \A n \in DOMAIN jobCancels \ {name} : jobCancels'[n] = jobCancels[n]
        /\ jobCancels' \in [DOMAIN jobCancels' -> DOMAIN goroutines']
    <3>1. /\ goroutines' \in Seq(Goroutine)
          /\ Len(gs) <= Len(goroutines')
          /\ \A g \in 1..Len(gs) : goroutines'[g] = gs[g]
          /\ \A g \in (Len(gs) + 1)..Len(goroutines') :
               /\ goroutines'[g].job \in {name} /\ ~goroutines'[g].cancelled
               /\ goroutines'[g].pc = "begin"
               /\ jobCancels'[goroutines'[g].job] = g
          /\ DOMAIN jobCancels' = {name} \cup DOMAIN jobCancels
          /\ \A n \in {name} : /\ jobCancels'[n] \in (Len(gs) + 1)..Len(goroutines')
                               /\ goroutines'[jobCancels'[n]].job = n
          /\ \A n \in DOMAIN jobCancels \ {name} : jobCancels'[n] = jobCancels[n]
          /\ jobCancels' \in [DOMAIN jobCancels' -> DOMAIN goroutines']
      <4> HIDE DEF m, new
      <4>1. jobCancels \in [DOMAIN jobCancels -> 1..Len(gs)]
        BY <2>4 DEF m
      <4> QED
        BY <2>1, <2>2, <2>5, <4>1, StartJobsEffect
    <3>2. \A g \in new : goroutines'[g].job = name
      BY <3>1
    <3> QED
      BY <3>1, <3>2
  <2>7. DOMAIN goroutines' = (1..m) \cup new
    <3>1. DOMAIN goroutines' = 1..Len(goroutines') /\ Len(goroutines') \in Nat
      BY <2>6
    <3>2. m \in Nat /\ m <= Len(goroutines')
      BY <2>3, <2>6
    <3> HIDE DEF m
    <3> QED
      BY <3>1, <3>2
  <2> HIDE DEF m, new
  <2>8. TypeOK'
    BY <1>1, <1>2, <1>3, <2>6 DEF TypeOK
  <2>9. Registered' /\ NotStarted'
    BY <1>2, <1>5, <2>6 DEF IInv, Registered, NotStarted
  <2>10. ASSUME NEW n \in DOMAIN jobCancels'
         PROVE  goroutines'[jobCancels'[n]].job = n /\ ~goroutines'[jobCancels'[n]].cancelled
    <3>1. CASE n = name
      BY <2>6, <3>1
    <3>2. CASE n # name
      <4>1. n \in DOMAIN jobCancels /\ jobCancels'[n] = jobCancels[n] /\ jobCancels[n] \in 1..m
        BY <2>4, <2>6, <3>2
      <4>2. goroutines[jobCancels[n]].job = n /\ ~goroutines[jobCancels[n]].cancelled
        BY <4>1 DEF IInv, Owned
      <4>3. ~(name \in DOMAIN jobCancels /\ jobCancels[name] = jobCancels[n])
        BY <3>2, <4>2 DEF IInv, Owned
      <4>4. goroutines'[jobCancels'[n]] = gs[jobCancels[n]] /\ jobCancels[n] \in DOMAIN goroutines
        BY <2>3, <2>6, <4>1
      <4>5. gs[jobCancels[n]].job = n
        BY <2>2, <4>2, <4>4
      <4>6. ~gs[jobCancels[n]].cancelled
        BY <2>2, <4>2, <4>3, <4>4
      <4> QED
        BY <4>4, <4>5, <4>6
    <3> QED
      BY <3>1, <3>2
  <2>11. ASSUME NEW g \in DOMAIN goroutines', ~goroutines'[g].cancelled
         PROVE  goroutines'[g].job \in DOMAIN jobCancels' /\ jobCancels'[goroutines'[g].job] = g
    <3>1. CASE g \in new
      BY <2>6, <3>1
    <3>2. CASE g \in 1..m
      <4>1. /\ ~goroutines[g].cancelled /\ goroutines'[g].job = goroutines[g].job
            /\ ~(name \in DOMAIN jobCancels /\ jobCancels[name] = g)
        BY <2>2, <2>3, <2>6, <2>11, <3>2
      <4>2. goroutines[g].job \in DOMAIN jobCancels /\ jobCancels[goroutines[g].job] = g
        BY <2>3, <3>2, <4>1 DEF IInv, Reached
      <4> QED
        BY <2>6, <4>1, <4>2
    <3> QED
      BY <2>7, <3>1, <3>2
  <2>12. ASSUME NEW g \in DOMAIN goroutines', goroutines'[g].pc = "returned"
         PROVE  goroutines'[g].cancelled \/ stopped'
    <3>1. g \in 1..m
      BY <2>6, <2>7, <2>12
    <3>2. goroutines[g].pc = "returned"
      BY <2>2, <2>3, <2>6, <2>12, <3>1
    <3>3. goroutines[g].cancelled \/ stopped
      BY <2>3, <3>1, <3>2 DEF IInv, ForCause
    <3> QED
      BY <1>2, <2>2, <2>3, <2>6, <3>1, <3>3
  <2> QED
    BY <2>8, <2>9, <2>10, <2>11, <2>12 DEF IInv, Owned, Reached, ForCause
<1> QED
  BY <1>4, <1>5

(* The start gives each job that is registered by then a goroutine. *)
LEMMA StartInv == ASSUME IInv, Start PROVE IInv'
<1>1. TypeOK /\ goroutines = <<>> /\ DOMAIN jobCancels = {}
  BY DEF IInv, NotStarted, Registered, Start
<1>2. StartJobs(jobs, goroutines) /\ UNCHANGED <<jobs, stopped>> /\ started' = TRUE
  BY DEF Start
<1>3. /\ jobs \in SUBSET Names /\ IsFiniteSet(jobs) /\ goroutines \in Seq(Goroutine)
      /\ jobCancels \in [DOMAIN jobCancels -> 1..Len(goroutines)] /\ Len(goroutines) = 0
  BY <1>1 DEF TypeOK
<1>4. /\ goroutines' \in Seq(Goroutine)
      /\ \A g \in 1..Len(goroutines') :
           /\ goroutines'[g].job \in jobs /\ ~goroutines'[g].cancelled
           /\ goroutines'[g].pc = "begin" /\ jobCancels'[goroutines'[g].job] = g
      /\ DOMAIN jobCancels' = jobs
      /\ \A name \in jobs : /\ jobCancels'[name] \in 1..Len(goroutines')
                            /\ goroutines'[jobCancels'[name]].job = name
      /\ jobCancels' \in [DOMAIN jobCancels' -> DOMAIN goroutines']
  <2>1. /\ goroutines' \in Seq(Goroutine)
        /\ \A g \in (Len(goroutines) + 1)..Len(goroutines') :
             /\ goroutines'[g].job \in jobs /\ ~goroutines'[g].cancelled
             /\ goroutines'[g].pc = "begin"
             /\ jobCancels'[goroutines'[g].job] = g
        /\ DOMAIN jobCancels' = jobs \cup DOMAIN jobCancels
        /\ \A name \in jobs : /\ jobCancels'[name] \in (Len(goroutines) + 1)..Len(goroutines')
                              /\ goroutines'[jobCancels'[name]].job = name
        /\ jobCancels' \in [DOMAIN jobCancels' -> DOMAIN goroutines']
    BY <1>2, <1>3, StartJobsEffect
  <2>2. Len(goroutines) + 1 = 1 /\ jobs \cup DOMAIN jobCancels = jobs
    BY <1>1, <1>3
  <2> QED
    BY <2>1, <2>2
<1>5. DOMAIN goroutines' = 1..Len(goroutines')
  BY <1>4
<1> QED
  BY <1>1, <1>2, <1>4, <1>5 DEF IInv, TypeOK, Registered, NotStarted, Owned, Reached, ForCause

(* A job that is removed once it has been started loses its goroutine and  *)
(* its cancel function.                                                    *)
LEMMA UnregisterInv ==
  ASSUME IInv, NEW name \in Names, Unregister(name), name \in DOMAIN jobCancels
  PROVE  IInv'
<1>1. TypeOK
  BY DEF IInv
<1>2. /\ goroutines' = Cancel(name) /\ jobs' = jobs \ {name} /\ UNCHANGED <<started, stopped>>
      /\ name \in DOMAIN jobCancels
      /\ jobCancels' = [n \in DOMAIN jobCancels \ {name} |-> jobCancels[n]]
  BY DEF Unregister
<1>3. /\ goroutines' \in Seq(Goroutine) /\ DOMAIN goroutines' = DOMAIN goroutines
      /\ \A g \in DOMAIN goroutines :
           /\ goroutines'[g].job = goroutines[g].job /\ goroutines'[g].pc = goroutines[g].pc
           /\ goroutines'[g].cancelled = (goroutines[g].cancelled \/ jobCancels[name] = g)
  BY <1>1, <1>2, CancelEffect
<1>4. jobs' \subseteq Names /\ IsFiniteSet(jobs')
  BY <1>1, <1>2, FS_RemoveElement DEF TypeOK
<1>5. /\ DOMAIN jobCancels' = DOMAIN jobCancels \ {name}
      /\ \A n \in DOMAIN jobCancels' : jobCancels'[n] = jobCancels[n] /\ jobCancels[n] \in DOMAIN goroutines
      /\ jobCancels' \in [DOMAIN jobCancels' -> DOMAIN goroutines']
  BY <1>1, <1>2, <1>3 DEF TypeOK
<1>6. TypeOK'
  BY <1>1, <1>2, <1>3, <1>4, <1>5 DEF TypeOK
<1>7. Registered' /\ NotStarted'
  BY <1>2, <1>5 DEF IInv, Registered, NotStarted
<1>8. ASSUME NEW n \in DOMAIN jobCancels'
      PROVE  goroutines'[jobCancels'[n]].job = n /\ ~goroutines'[jobCancels'[n]].cancelled
  <2>1. n # name /\ n \in DOMAIN jobCancels
    BY <1>5
  <2>2. goroutines[jobCancels[n]].job = n /\ ~goroutines[jobCancels[n]].cancelled
    BY <2>1 DEF IInv, Owned
  <2>3. jobCancels[name] # jobCancels[n]
    BY <1>2, <2>1, <2>2 DEF IInv, Owned
  <2> QED
    BY <1>3, <1>5, <2>2, <2>3
<1>9. ASSUME NEW g \in DOMAIN goroutines', ~goroutines'[g].cancelled
      PROVE  goroutines'[g].job \in DOMAIN jobCancels' /\ jobCancels'[goroutines'[g].job] = g
  <2>1. g \in DOMAIN goroutines /\ ~goroutines[g].cancelled /\ jobCancels[name] # g
    BY <1>3, <1>9
  <2>2. goroutines[g].job \in DOMAIN jobCancels /\ jobCancels[goroutines[g].job] = g
    BY <2>1 DEF IInv, Reached
  <2> QED
    BY <1>3, <1>5, <2>1, <2>2
<1>10. ForCause'
  BY <1>2, <1>3 DEF IInv, ForCause
<1> QED
  BY <1>6, <1>7, <1>8, <1>9, <1>10 DEF IInv, Owned, Reached

(* Every step keeps the invariant. *)
LEMMA NextInv == IInv /\ [SchedulerNext]_schedulerVars => IInv'
<1> SUFFICES ASSUME IInv, [SchedulerNext]_schedulerVars PROVE IInv'
  OBVIOUS
<1>1. ASSUME NEW name \in Names, Register(name) \/ Unregister(name) PROVE IInv'
  <2>1. CASE Unregister(name) /\ name \notin DOMAIN jobCancels
    BY <2>1 DEF Unregister, IInv, TypeOK, Registered, NotStarted, Owned, Reached, ForCause
  <2> QED
    BY <1>1, <2>1, RegisterInv, UnregisterInv
<1>2. CASE Start
  BY <1>2, StartInv
<1>3. CASE Stop
  BY <1>3 DEF Stop, IInv, TypeOK, Registered, NotStarted, Owned, Reached, ForCause
<1>4. ASSUME NEW g \in DOMAIN goroutines, Begin(g) \/ Tick(g) \/ ExecuteJob(g) \/ Return(g) PROVE IInv'
  <2>1. \E pc \in {"select", "execute", "returned"} : GoroutineTo(g, pc) /\ (pc = "returned" => Done(g))
    BY <1>4 DEF Begin, Tick, ExecuteJob, Return
  <2> QED
    BY <2>1, GoroutineInv
<1>5. CASE UNCHANGED schedulerVars
  BY <1>5 DEF schedulerVars, IInv, TypeOK, Registered, NotStarted, Owned, Reached, ForCause
<1> QED
  BY <1>1, <1>2, <1>3, <1>4, <1>5 DEF SchedulerNext

(* A name that is removed after the start has a cancel function if it is   *)
(* registered, and so leaves the jobs.                                     *)
LEMMA AskedStep == IInv /\ Asked /\ [SchedulerNext]_schedulerVars => Asked'
<1> SUFFICES ASSUME IInv, Asked, [SchedulerNext]_schedulerVars PROVE Asked'
  OBVIOUS
<1>1. ASSUME NEW name \in Names, Register(name) PROVE Asked'
  <2>1. jobs' = jobs \cup {name} /\ asked' = [asked EXCEPT ![name] = "register"]
    BY <1>1 DEF Register
  <2> QED
    BY <2>1 DEF Asked
<1>2. ASSUME NEW name \in Names, Unregister(name) PROVE Asked'
  <2>1. asked' = [asked EXCEPT ![name] = IF started THEN "remove" ELSE "remove early"]
    BY <1>2 DEF Unregister
  <2>2. CASE name \in DOMAIN jobCancels
    <3>1. jobs' = jobs \ {name}
      BY <1>2, <2>2 DEF Unregister
    <3> QED
      BY <2>1, <3>1 DEF Asked
  <2>3. CASE name \notin DOMAIN jobCancels
    <3>1. jobs' = jobs /\ (started => name \notin jobs)
      BY <1>2, <2>3 DEF Unregister, IInv, Registered
    <3> QED
      BY <2>1, <3>1 DEF Asked
  <2> QED
    BY <2>2, <2>3
<1>3. CASE Start \/ Stop \/ UNCHANGED schedulerVars
  BY <1>3 DEF Start, Stop, schedulerVars, Asked
<1>4. ASSUME NEW g \in DOMAIN goroutines, Begin(g) \/ Tick(g) \/ ExecuteJob(g) \/ Return(g) PROVE Asked'
  BY <1>4 DEF Begin, Tick, ExecuteJob, Return, GoroutineTo, Asked
<1> QED
  BY <1>1, <1>2, <1>3, <1>4 DEF SchedulerNext

(* The goroutines of a job are the one its cancel function reaches, or none. *)
LEMMA OneEach == IInv /\ Asked => OneGoroutinePerJob
<1> SUFFICES ASSUME IInv, Asked, started, ~stopped, NEW name \in Names
             PROVE  /\ Cardinality(Live(name)) <= 1
                    /\ asked[name] = "register" => Live(name) # {}
                    /\ asked[name] \in {"nothing", "remove"} => Live(name) = {}
  BY DEF OneGoroutinePerJob
<1>1. DOMAIN jobCancels = jobs
  BY DEF IInv, Registered
<1>2. CASE name \in jobs
  <2>1. jobCancels[name] \in DOMAIN goroutines
    BY <1>1, <1>2 DEF IInv, TypeOK
  <2>2. Live(name) = {jobCancels[name]}
    BY <1>1, <1>2, <2>1 DEF IInv, Live, Owned, Reached, ForCause
  <2>3. Cardinality(Live(name)) = 1
    BY <2>2, FS_Singleton
  <2>4. Live(name) # {} /\ asked[name] \notin {"nothing", "remove"}
    BY <1>2, <2>2 DEF Asked
  <2> QED
    BY <2>3, <2>4
<1>3. CASE name \notin jobs
  <2>1. Live(name) = {}
    BY <1>1, <1>3 DEF IInv, Live, Reached
  <2>2. Cardinality(Live(name)) = 0
    BY <2>1, FS_EmptySet
  <2>3. asked[name] # "register"
    BY <1>3 DEF Asked
  <2> QED
    BY <2>1, <2>2, <2>3
<1> QED
  BY <1>2, <1>3

(* While the scheduler runs, a name that was last registered has one       *)
(* goroutine that has not been cancelled, and one never registered or last *)
(* removed after the start has none, in whichever order Register,          *)
(* Unregister, Start and Stop are called.                                  *)
THEOREM JobHasOneGoroutine == SchedulerSpec => []OneGoroutinePerJob
<1>1. SchedulerInit => Asked
  BY DEF SchedulerInit, Asked
<1> QED
  BY <1>1, InitInv, NextInv, AskedStep, OneEach, PTL DEF SchedulerSpec

-----------------------------------------------------------------------------
(* Fractions between two numbers. *)

Between(x, lo, hi) ==
  /\ x.n \in Nat /\ x.d \in Nat \ {0}
  /\ lo * x.d <= x.n /\ x.n <= hi * x.d

(* Multiplying by a natural number keeps the order. *)
LEMMA TimesKeepsOrder ==
  ASSUME NEW a \in Int, NEW b \in Int, NEW c \in Nat, a <= b
  PROVE  a * c <= b * c /\ c * a <= c * b
<1>1. (b - a) * c >= 0
  OBVIOUS
<1>2. (b - a) * c = b * c - a * c /\ a * c = c * a /\ b * c = c * b
  OBVIOUS
<1> QED
  BY <1>1, <1>2

(* One step of the moving average. *)
LEMMA SmoothBetween ==
  ASSUME NEW lo \in Nat, NEW hi \in Nat, NEW e, Between(e, lo, hi), NEW v \in lo..hi
  PROVE  Between(Smooth(e, v), lo, hi)
<1> DEFINE n == e.n  d == e.d  q == EMAPeriod - 1
<1>1. n \in Nat /\ d \in Nat \ {0} /\ q \in Nat /\ v \in Nat /\ EMAPeriod = q + 1
      /\ lo * d <= n /\ n <= hi * d
  BY ForecastAssumption DEF Between
<1> HIDE DEF n, d, q
<1>2. lo * d <= v * d /\ v * d <= hi * d
  BY <1>1, TimesKeepsOrder
<1>3. q * (lo * d) <= q * n /\ q * n <= q * (hi * d)
  BY <1>1, TimesKeepsOrder
<1>4. 2 * v * d + q * n \in Nat /\ (q + 2) * d \in Nat \ {0}
  BY <1>1
<1>5. lo * ((q + 2) * d) = 2 * (lo * d) + q * (lo * d) /\ hi * ((q + 2) * d) = 2 * (hi * d) + q * (hi * d)
  BY <1>1
<1>6. lo * ((q + 2) * d) <= 2 * v * d + q * n /\ 2 * v * d + q * n <= hi * ((q + 2) * d)
  <2>1. 2 * v * d = 2 * (v * d)
    BY <1>1
  <2> DEFINE vd == v * d  ld == lo * d  hd == hi * d  qn == q * n  ql == q * ld  qh == q * hd
  <2>2. vd \in Int /\ ld \in Int /\ hd \in Int /\ qn \in Int /\ ql \in Int /\ qh \in Int
    BY <1>1
  <2> HIDE DEF vd, ld, hd, qn, ql, qh
  <2>3. 2 * ld + ql <= 2 * vd + qn /\ 2 * vd + qn <= 2 * hd + qh
    BY <2>2, <1>2, <1>3 DEF vd, ld, hd, qn, ql, qh
  <2> QED
    BY <2>1, <2>3, <1>5 DEF vd, ld, hd, qn, ql, qh
<1>7. Smooth(e, v) = [n |-> 2 * v * d + q * n, d |-> (q + 2) * d]
  BY <1>1 DEF Smooth, n, d, q
<1> QED
  BY <1>4, <1>6, <1>7 DEF Between

(* The combination of two fractions. *)
LEMMA CombineBetween ==
  ASSUME NEW lo \in Nat, NEW hi \in Nat, NEW e, Between(e, lo, hi), NEW h, Between(h, lo, hi)
  PROVE  Between(Combine(e, h), lo, hi)
<1> DEFINE a == EMAWeight  b == 100 - EMAWeight
           p == e.n * h.d  r == h.n * e.d  m == e.d * h.d
<1>0. /\ e.n \in Nat /\ e.d \in Nat \ {0} /\ lo * e.d <= e.n /\ e.n <= hi * e.d
      /\ h.n \in Nat /\ h.d \in Nat \ {0} /\ lo * h.d <= h.n /\ h.n <= hi * h.d
  BY DEF Between
<1>1. /\ a \in Nat /\ b \in Nat /\ a + b = 100
      /\ p \in Nat /\ r \in Nat /\ m \in Nat \ {0}
  BY <1>0, ForecastAssumption
<1>2. lo * m <= p /\ p <= hi * m
  <2>1. (lo * e.d) * h.d <= p /\ p <= (hi * e.d) * h.d
    BY <1>0, TimesKeepsOrder
  <2>2. (lo * e.d) * h.d = lo * m /\ (hi * e.d) * h.d = hi * m
    BY <1>0
  <2> QED
    BY <2>1, <2>2
<1>3. lo * m <= r /\ r <= hi * m
  <2>1. (lo * h.d) * e.d <= r /\ r <= (hi * h.d) * e.d
    BY <1>0, TimesKeepsOrder
  <2>2. (lo * h.d) * e.d = lo * m /\ (hi * h.d) * e.d = hi * m
    BY <1>0
  <2> QED
    BY <2>1, <2>2
<1>4. Combine(e, h) = [n |-> a * p + b * r, d |-> 100 * m]
  <2>1. EMAWeight * e.n * h.d = a * p /\ (100 - EMAWeight) * h.n * e.d = b * r /\ 100 * e.d * h.d = 100 * m
    BY <1>0, <1>1
  <2> QED
    BY <2>1 DEF Combine
<1> HIDE DEF a, b, p, r, m
<1>5. a * (lo * m) <= a * p /\ a * p <= a * (hi * m) /\ b * (lo * m) <= b * r /\ b * r <= b * (hi * m)
  BY <1>1, <1>2, <1>3, TimesKeepsOrder
<1>6. a * (lo * m) + b * (lo * m) = lo * (100 * m) /\ a * (hi * m) + b * (hi * m) = hi * (100 * m)
  <2>1. \A k \in Nat : a * k + b * k = (a + b) * k
    BY <1>1
  <2>2. \A k \in Nat : a * k + b * k = 100 * k
    BY <1>1, <2>1
  <2>3. lo * m \in Nat /\ hi * m \in Nat
    BY <1>1
  <2>4. 100 * (lo * m) = lo * (100 * m) /\ 100 * (hi * m) = hi * (100 * m)
    BY <1>1
  <2> QED
    BY <2>2, <2>3, <2>4
<1>7. lo * (100 * m) <= a * p + b * r /\ a * p + b * r <= hi * (100 * m)
  <2>1. a * p \in Int /\ b * r \in Int /\ a * (lo * m) \in Int /\ b * (lo * m) \in Int
        /\ a * (hi * m) \in Int /\ b * (hi * m) \in Int
    BY <1>1
  <2> QED
    BY <2>1, <1>5, <1>6
<1>8. a * p + b * r \in Nat /\ 100 * m \in Nat \ {0}
  BY <1>1
<1> QED
  BY <1>4, <1>7, <1>8 DEF Between

(* The quotient by a positive number. *)
LEMMA Quotient ==
  ASSUME NEW a \in Int, NEW d \in Nat \ {0}
  PROVE  /\ a \div d \in Int /\ a % d \in 0..(d - 1)
         /\ a = d * (a \div d) + (a % d)
OBVIOUS

(* The ceiling of a fraction. *)
LEMMA CeilBetween ==
  ASSUME NEW lo \in Nat, NEW hi \in Nat, NEW x, Between(x, lo, hi)
  PROVE  Ceil(x) \in lo..hi
<1> DEFINE n == x.n  d == x.d  c == (n + d - 1) \div d  e == (n + d - 1) % d
<1>1. n \in Nat /\ d \in Nat \ {0} /\ lo * d <= n /\ n <= hi * d
  BY DEF Between
<1> HIDE DEF n, d
<1>2. c \in Int /\ e \in 0..(d - 1) /\ n + d - 1 = d * c + e
  <2> DEFINE a == n + d - 1
  <2>1. a \in Int
    BY <1>1
  <2> HIDE DEF a
  <2>2. a \div d \in Int /\ a % d \in 0..(d - 1) /\ a = d * (a \div d) + (a % d)
    BY <1>1, <2>1, Quotient
  <2> QED
    BY <2>2 DEF a
<1> HIDE DEF c, e
<1>3. lo <= c
  <2> SUFFICES ASSUME c <= lo - 1 PROVE FALSE
    BY <1>2
  <2>1. c * d <= (lo - 1) * d
    BY <1>1, <1>2, TimesKeepsOrder
  <2>2. (lo - 1) * d = lo * d - d /\ c * d = d * c
    BY <1>1, <1>2
  <2>3. c * d \in Int /\ lo * d \in Int
    BY <1>1, <1>2
  <2> QED
    BY <1>1, <1>2, <2>1, <2>2, <2>3
<1>4. c <= hi
  <2> SUFFICES ASSUME hi + 1 <= c PROVE FALSE
    BY <1>2
  <2>1. (hi + 1) * d <= c * d
    BY <1>1, <1>2, TimesKeepsOrder
  <2>2. (hi + 1) * d = hi * d + d /\ c * d = d * c
    BY <1>1, <1>2
  <2>3. c * d \in Int /\ hi * d \in Int
    BY <1>1, <1>2
  <2> QED
    BY <1>1, <1>2, <2>1, <2>2, <2>3
<1> QED
  BY <1>2, <1>3, <1>4 DEF Ceil, n, d, c

-----------------------------------------------------------------------------
(* Least and greatest elements. *)

(* A set of natural numbers that is not empty has a least one. *)
LEMMA LeastOfNaturals ==
  ASSUME NEW T \in SUBSET Nat, T # {}
  PROVE  \E x \in T : \A y \in T : x <= y
<1>1. PICK x \in T : \A y \in T : ~ (<<y, x>> \in OpToRel(<, Nat))
  BY WFMin, NatLessThanWellFounded
<1>2. \A y \in T : ~(y < x)
  BY <1>1 DEF OpToRel
<1> QED
  BY <1>2

(* And a greatest one, if it is bounded. *)
LEMMA GreatestOfBounded ==
  ASSUME NEW m \in Nat, NEW T \in SUBSET (0..m), T # {}
  PROVE  \E x \in T : \A y \in T : y <= x
<1> DEFINE U == {m - x : x \in T}
<1>1. U \in SUBSET Nat /\ U # {}
  <2>1. ASSUME NEW x \in T PROVE m - x \in Nat
    OBVIOUS
  <2>2. PICK x \in T : TRUE
    OBVIOUS
  <2>3. m - x \in U
    OBVIOUS
  <2> QED
    BY <2>1, <2>3
<1>2. PICK u \in U : \A w \in U : u <= w
  BY <1>1, LeastOfNaturals
<1>3. PICK x \in T : u = m - x
  BY <1>2
<1>4. ASSUME NEW y \in T PROVE y <= x
  <2>1. m - y \in U
    OBVIOUS
  <2>2. m - x <= m - y
    BY <1>2, <1>3, <2>1
  <2>3. x \in 0..m /\ y \in 0..m
    OBVIOUS
  <2> QED
    BY <2>2, <2>3
<1> QED
  BY <1>4

(* Max of FiniteSetsExt is the greatest element, if there is one. *)
LEMMA MaxIsGreatest ==
  ASSUME NEW T, NEW x \in T, \A y \in T : x >= y
  PROVE  Max(T) \in T /\ \A y \in T : Max(T) >= y
BY DEF Max

(* Max of two numbers. *)
LEMMA MaxOfTwo ==
  ASSUME NEW a \in Int, NEW b \in Int
  PROVE  Max({a, b}) \in Int /\ Max({a, b}) >= a /\ Max({a, b}) >= b /\ Max({a, b}) \in {a, b}
<1>1. CASE a >= b
  BY <1>1, MaxIsGreatest
<1>2. CASE b >= a
  BY <1>2, MaxIsGreatest
<1> QED
  BY <1>1, <1>2

-----------------------------------------------------------------------------
(* The moving average and the weeks. *)

(* The peak of records between two numbers is between them; without        *)
(* records it is 0.                                                        *)
LEMMA PeakBetween ==
  ASSUME NEW lo \in Nat, NEW hi \in Nat, NEW batch, \A t \in DOMAIN batch : batch[t] \in lo..hi
  PROVE  /\ PeakUtilization(batch) \in Nat
         /\ DOMAIN batch # {} => PeakUtilization(batch) \in lo..hi
<1> DEFINE T == {0} \cup {batch[t] : t \in DOMAIN batch}
<1>1. T \in SUBSET (0..hi) /\ T # {}
  OBVIOUS
<1>2. PICK x \in T : \A y \in T : y <= x
  BY <1>1, GreatestOfBounded
<1>3. Max(T) \in T /\ \A y \in T : Max(T) >= y
  <2>1. \A y \in T : x >= y
    BY <1>1, <1>2
  <2> HIDE DEF T
  <2> QED
    BY <2>1, MaxIsGreatest
<1>4. PeakUtilization(batch) = Max(T)
  BY DEF PeakUtilization
<1>5. ASSUME DOMAIN batch # {} PROVE Max(T) \in lo..hi
  <2>1. PICK t \in DOMAIN batch : TRUE
    BY <1>5
  <2>2. batch[t] \in T /\ batch[t] >= lo
    BY <2>1
  <2>3. Max(T) >= batch[t] /\ Max(T) \in 0..hi /\ batch[t] \in Int
    BY <1>1, <1>3, <2>2
  <2> QED
    BY <2>2, <2>3
<1> QED
  BY <1>1, <1>3, <1>4, <1>5

(* The decayed average over three weeks of records between two numbers is  *)
(* between them, if there are records at all.                              *)
LEMMA HistoricalBetween ==
  ASSUME NEW lo \in Nat, NEW hi \in Nat, NEW batches,
         \A i \in 1..3 : \A t \in DOMAIN batches[i] : batches[i][t] \in lo..hi
  PROVE  IF \A i \in 1..3 : DOMAIN batches[i] = {} THEN Historical(batches) = Zero
         ELSE Between(Historical(batches), lo, hi)
<1> DEFINE w(i) == IF DOMAIN batches[i] = {} THEN 0 ELSE WeekDecayFactors[i]
           p(i) == PeakUtilization(batches[i])
           total == w(1) + w(2) + w(3)
<1>1. \A i \in 1..3 : w(i) \in Nat /\ p(i) \in Nat /\ (w(i) = 0 \/ p(i) \in lo..hi)
  <2> SUFFICES ASSUME NEW i \in 1..3 PROVE w(i) \in Nat /\ p(i) \in Nat /\ (w(i) = 0 \/ p(i) \in lo..hi)
    OBVIOUS
  <2>1. w(i) \in Nat
    BY ForecastAssumption
  <2>2. p(i) \in Nat /\ (DOMAIN batches[i] # {} => p(i) \in lo..hi)
    BY PeakBetween
  <2> QED
    BY <2>1, <2>2
<1>2. (\A i \in 1..3 : DOMAIN batches[i] = {}) <=> total = 0
  <2>1. \A i \in 1..3 : DOMAIN batches[i] = {} <=> w(i) = 0
    BY ForecastAssumption
  <2> HIDE DEF w
  <2> QED
    BY <1>1, <2>1
<1>3. Historical(batches) =
        IF total = 0 THEN Zero ELSE [n |-> w(1) * p(1) + w(2) * p(2) + w(3) * p(3), d |-> total]
  BY DEF Historical
<1> HIDE DEF w, p
<1>4. ASSUME NEW i \in 1..3
      PROVE  w(i) * p(i) \in Nat /\ lo * w(i) <= w(i) * p(i) /\ w(i) * p(i) <= hi * w(i)
             /\ lo * w(i) \in Nat /\ hi * w(i) \in Nat
  <2>1. w(i) \in Nat /\ p(i) \in Nat
    BY <1>1
  <2>2. CASE w(i) = 0
    BY <2>1, <2>2
  <2>3. CASE p(i) \in lo..hi
    <3>1. w(i) * lo <= w(i) * p(i) /\ w(i) * p(i) <= w(i) * hi
      BY <2>1, <2>3, TimesKeepsOrder
    <3>2. w(i) * lo = lo * w(i) /\ w(i) * hi = hi * w(i)
      BY <2>1
    <3> QED
      BY <2>1, <3>1, <3>2
  <2> QED
    BY <1>1, <2>2, <2>3
<1>5. ASSUME total # 0 PROVE Between(Historical(batches), lo, hi)
  <2>1. total \in Nat \ {0}
    BY <1>1, <1>5
  <2>2. lo * total = lo * w(1) + lo * w(2) + lo * w(3) /\ hi * total = hi * w(1) + hi * w(2) + hi * w(3)
    BY <1>1
  <2> HIDE DEF total
  <2>3. /\ lo * total <= w(1) * p(1) + w(2) * p(2) + w(3) * p(3)
        /\ w(1) * p(1) + w(2) * p(2) + w(3) * p(3) <= hi * total
        /\ w(1) * p(1) + w(2) * p(2) + w(3) * p(3) \in Nat
    BY <1>4, <2>2
  <2> QED
    BY <1>3, <1>5, <2>1, <2>3 DEF Between
<1> QED
  BY <1>2, <1>3, <1>5

(* The moving average over the first slots: a recursive function, which    *)
(* exists because the slots are in an order.                               *)
IsAverages(f, batch, oldest, k) ==
  f = [i \in 0..k |-> IF i = 0 THEN Zero ELSE AddSlot(batch, oldest + i - 1, f[i - 1])]
Averages(batch, oldest, k) == CHOOSE f : IsAverages(f, batch, oldest, k)

(* There is such a function: otherwise take the least number of slots for  *)
(* which there is none, and add a slot to the function for one less.       *)
LEMMA AveragesExist ==
  ASSUME NEW batch, NEW oldest \in Int, NEW k \in Nat
  PROVE  \E f : IsAverages(f, batch, oldest, k)
<1> DEFINE Is(f, j) == IsAverages(f, batch, oldest, j)
           T == {j \in Nat : ~\E f : Is(f, j)}
<1> SUFFICES ASSUME T # {} PROVE FALSE
  OBVIOUS
<1>1. PICK j \in T : \A y \in T : j <= y
  BY LeastOfNaturals
<1>2. j \in Nat /\ ~\E f : Is(f, j)
  BY <1>1
<1>3. CASE j = 0
  <2> DEFINE g == [i \in 0..0 |-> Zero]
  <2>1. Is(g, 0)
    BY DEF IsAverages
  <2> QED
    BY <1>2, <1>3, <2>1
<1>4. CASE j # 0
  <2>1. j - 1 \in Nat /\ j - 1 \notin T
    <3>1. j - 1 \in Nat
      BY <1>2, <1>4
    <3>2. ASSUME j - 1 \in T PROVE FALSE
      <4>1. j <= j - 1
        BY <1>1, <3>2
      <4> QED
        BY <1>2, <4>1
    <3> QED
      BY <3>1, <3>2
  <2>2. PICK f : Is(f, j - 1)
    BY <2>1
  <2> DEFINE g == [i \in 0..j |-> IF i = j THEN AddSlot(batch, oldest + j - 1, f[j - 1]) ELSE f[i]]
  <2>3. \A i \in 0..(j - 1) : g[i] = f[i]
    BY <1>2
  <2>4. ASSUME NEW i \in 0..j
        PROVE  g[i] = IF i = 0 THEN Zero ELSE AddSlot(batch, oldest + i - 1, g[i - 1])
    <3>1. CASE i = j
      <4>1. j - 1 \in 0..(j - 1)
        BY <2>1
      <4> QED
        BY <1>4, <2>3, <3>1, <4>1
    <3>2. CASE i # j /\ i # 0
      <4>1. i \in 0..(j - 1) /\ i - 1 \in 0..(j - 1)
        BY <1>2, <3>2
      <4>2. f[i] = AddSlot(batch, oldest + i - 1, f[i - 1])
        BY <2>2, <3>2, <4>1 DEF IsAverages
      <4> QED
        BY <2>3, <3>2, <4>1, <4>2
    <3>3. CASE i # j /\ i = 0
      <4>1. i \in 0..(j - 1)
        BY <1>2, <3>3
      <4> QED
        BY <2>2, <2>3, <3>3, <4>1 DEF IsAverages
    <3> QED
      BY <3>1, <3>2, <3>3
  <2>5. g = [i \in 0..j |-> g[i]]
    OBVIOUS
  <2> HIDE DEF g
  <2>6. Is(g, j)
    BY <2>4, <2>5 DEF IsAverages
  <2> QED
    BY <1>2, <2>6
<1> QED
  BY <1>3, <1>4

(* So the averages satisfy their definition. *)
LEMMA AveragesDef ==
  ASSUME NEW batch, NEW oldest \in Int, NEW k \in Nat, NEW i \in 0..k
  PROVE  Averages(batch, oldest, k)[i] =
           IF i = 0 THEN Zero ELSE AddSlot(batch, oldest + i - 1, Averages(batch, oldest, k)[i - 1])
<1> DEFINE A == Averages(batch, oldest, k)
<1>1. IsAverages(A, batch, oldest, k)
  BY AveragesExist DEF Averages
<1> HIDE DEF A
<1>2. A[i] = IF i = 0 THEN Zero ELSE AddSlot(batch, oldest + i - 1, A[i - 1])
  BY <1>1 DEF IsAverages
<1> QED
  BY <1>2 DEF A

(* The moving average of records between two numbers is between them, if   *)
(* there are records at all.                                               *)
LEMMA EMABetween ==
  ASSUME NEW lo \in Nat, NEW hi \in Nat, NEW batch, \A t \in DOMAIN batch : batch[t] \in lo..hi,
         NEW start \in Int, DOMAIN batch \subseteq (start - Days(MaxLookbackDays))..(start - 1)
  PROVE  IF DOMAIN batch = {} THEN EMA(batch, start) = Zero ELSE Between(EMA(batch, start), lo, hi)
<1> DEFINE k == Days(MaxLookbackDays)  oldest == start - k  A == Averages(batch, oldest, k)
           Good(i) == IF \A u \in DOMAIN batch : u >= oldest + i THEN A[i] = Zero ELSE Between(A[i], lo, hi)
           T == {i \in Nat : i <= k /\ ~Good(i)}
<1>1. k \in Nat /\ oldest \in Int
  BY ForecastAssumption DEF Days
<1>2. EMA(batch, start) = A[k]
  BY DEF EMA, Averages, IsAverages
<1> HIDE DEF k, oldest, A
<1>3. T = {}
  <2> SUFFICES ASSUME T # {} PROVE FALSE
    OBVIOUS
  <2>1. PICK i \in T : \A y \in T : i <= y
    BY LeastOfNaturals
  <2>2. i \in 0..k /\ ~Good(i)
    BY <1>1, <2>1
  <2>3. A[i] = IF i = 0 THEN Zero ELSE AddSlot(batch, oldest + i - 1, A[i - 1])
    BY <1>1, <2>2, AveragesDef DEF A
  <2>4. i # 0
    <3>1. ASSUME i = 0 PROVE \A u \in DOMAIN batch : u >= oldest + i
      BY <1>1, <3>1 DEF oldest, k
    <3> QED
      BY <2>2, <2>3, <3>1
  <2>5. i - 1 \in Nat /\ i - 1 <= k /\ Good(i - 1)
    BY <1>1, <2>1, <2>2, <2>4
  <2> DEFINE t == oldest + i - 1
  <2>6. t \in Int /\ t = oldest + (i - 1) /\ oldest + i = t + 1 /\ DOMAIN batch \subseteq Int
    BY <1>1, <2>2
  <2> HIDE DEF t
  <2>7. A[i] = AddSlot(batch, t, A[i - 1])
    BY <2>3, <2>4 DEF t
  <2>8. CASE t \notin DOMAIN batch
    <3>1. A[i] = A[i - 1]
      BY <2>7, <2>8 DEF AddSlot
    <3>2. (\A u \in DOMAIN batch : u >= t) <=> (\A u \in DOMAIN batch : u >= t + 1)
      BY <2>6, <2>8
    <3> QED
      BY <2>2, <2>5, <2>6, <3>1, <3>2
  <2>9. CASE t \in DOMAIN batch
    <3>0. batch[t] \in lo..hi
      BY <2>9
    <3>1. Between(A[i], lo, hi)
      <4>1. CASE \A u \in DOMAIN batch : t <= u
        <5>1. A[i] = [n |-> batch[t], d |-> 1]
          BY <2>7, <2>9, <4>1 DEF AddSlot
        <5> QED
          BY <3>0, <5>1 DEF Between
      <4>2. CASE ~\A u \in DOMAIN batch : t <= u
        <5>1. A[i] = Smooth(A[i - 1], batch[t])
          BY <2>7, <2>9, <4>2 DEF AddSlot
        <5>2. ~\A u \in DOMAIN batch : u >= oldest + (i - 1)
          BY <2>6, <4>2
        <5>3. Between(A[i - 1], lo, hi)
          BY <2>5, <5>2
        <5> QED
          BY <3>0, <5>1, <5>3, SmoothBetween
      <4> QED
        BY <4>1, <4>2
    <3>2. ~\A u \in DOMAIN batch : u >= oldest + i
      BY <2>6, <2>9
    <3> QED
      BY <2>2, <3>1, <3>2
  <2> QED
    BY <2>8, <2>9
<1>4. Good(k)
  BY <1>1, <1>3
<1>5. (\A u \in DOMAIN batch : u >= oldest + k) <=> DOMAIN batch = {}
  <2>1. oldest + k = start
    BY <1>1 DEF oldest
  <2>2. \A u \in DOMAIN batch : u \in oldest..(start - 1)
    BY DEF oldest, k
  <2>3. ASSUME NEW u \in DOMAIN batch PROVE ~(u >= start)
    BY <1>1, <2>2
  <2> QED
    BY <2>1, <2>3
<1> QED
  BY <1>2, <1>4, <1>5

-----------------------------------------------------------------------------
(* Slots and days. *)

(* Days count slots. *)
LEMMA DaysAreSlots ==
  ASSUME NEW a \in Nat
  PROVE  /\ Days(a) \in Nat
         /\ \A b \in Nat : a <= b => Days(a) <= Days(b)
         /\ a >= 1 => Days(a) >= 2
<1>1. SlotsPerDay \in Nat /\ SlotsPerDay >= 2
  BY ForecastAssumption
<1>2. \A b \in Nat : a <= b => a * SlotsPerDay <= b * SlotsPerDay
  BY <1>1, TimesKeepsOrder
<1>3. a >= 1 => 1 * SlotsPerDay <= a * SlotsPerDay
  BY <1>1, TimesKeepsOrder
<1>4. a * SlotsPerDay \in Nat
  BY <1>1
<1> QED
  BY <1>1, <1>2, <1>3, <1>4 DEF Days

(* The windows that a forecast looks back to lie in the last three weeks,  *)
(* and end before the slot it is made in.                                  *)
LEMMA WindowsBefore ==
  ASSUME NEW k \in Nat, NEW d \in 1..21, NEW t \in TimeRange(k - Days(d))
  PROVE  t \in Int /\ t >= k - Days(d) /\ t >= k - Days(21) /\ t <= k - 1
<1>1. Days(d) \in Nat /\ Days(d) <= Days(21) /\ Days(d) >= 2 /\ Days(21) \in Nat
  BY DaysAreSlots
<1>2. t \in (k - Days(d))..(k - Days(d) + 1)
  BY DEF TimeRange
<1> QED
  BY <1>1, <1>2

(* A day back is a day less. *)
LEMMA DayBack ==
  ASSUME NEW k \in Nat, NEW d \in Nat
  PROVE  (k - Days(d)) \div SlotsPerDay = (k \div SlotsPerDay) - d
<1> DEFINE S == SlotsPerDay  q == k \div S  r == k % S  a == k - Days(d)  y == a \div S  e == a % S
<1>0. S \in Nat \ {0} /\ Days(d) \in Nat /\ Days(d) = d * S
  BY ForecastAssumption, DaysAreSlots DEF Days
<1>1. q \in Int /\ r \in 0..(S - 1) /\ k = S * q + r
  BY <1>0, Quotient
<1>2. a \in Int
  BY <1>0
<1> HIDE DEF S, a
<1>3. y \in Int /\ e \in 0..(S - 1) /\ a = S * y + e
  BY <1>0, <1>2, Quotient
<1> HIDE DEF q, r, y, e
<1>4. a = S * (q - d) + r
  BY <1>0, <1>1 DEF a
<1>5. ASSUME y <= q - d - 1 PROVE FALSE
  <2>1. S * y <= S * (q - d - 1)
    BY <1>0, <1>1, <1>3, <1>5, TimesKeepsOrder
  <2>2. S * (q - d - 1) = S * (q - d) - S
    BY <1>0, <1>1
  <2>3. S * y \in Int /\ S * (q - d) \in Int
    BY <1>0, <1>1, <1>3
  <2> QED
    BY <1>0, <1>1, <1>3, <1>4, <2>1, <2>2, <2>3
<1>6. ASSUME y >= q - d + 1 PROVE FALSE
  <2>1. S * (q - d + 1) <= S * y
    BY <1>0, <1>1, <1>3, <1>6, TimesKeepsOrder
  <2>2. S * (q - d + 1) = S * (q - d) + S
    BY <1>0, <1>1
  <2>3. S * y \in Int /\ S * (q - d) \in Int
    BY <1>0, <1>1, <1>3
  <2> QED
    BY <1>0, <1>1, <1>3, <1>4, <2>1, <2>2, <2>3
<1>7. y = q - d
  BY <1>1, <1>3, <1>5, <1>6
<1> QED
  BY <1>7 DEF y, q, a, S

(* The days of the last weekdays, as Before and Weekdays have them. *)
LastWeekdays(k) ==
  LET weekdays == {d \in 1..MaxLookbackDays : ~IsWeekend(k - Days(d))}
  IN {d \in weekdays : Cardinality({e \in weekdays : e < d}) < TargetWeekdays}

(* There is a weekday among them. *)
LEMMA SomeWeekday ==
  ASSUME NEW k \in Nat
  PROVE  \E d \in LastWeekdays(k) : d <= 3
<1> DEFINE W == {d \in 1..MaxLookbackDays : ~IsWeekend(k - Days(d))}
           q == k \div SlotsPerDay
<1>1. q \in Int
  BY ForecastAssumption, Quotient
<1> HIDE DEF q
<1>2. \A d \in 1..3 : IsWeekend(k - Days(d)) <=> (q - d) % 7 \in {0, 6}
  BY DayBack DEF IsWeekend, q
<1>3. \E d \in 1..3 : ~((q - d) % 7 \in {0, 6})
  <2>1. ~((q - 1) % 7 \in {0, 6} /\ (q - 2) % 7 \in {0, 6} /\ (q - 3) % 7 \in {0, 6})
    BY <1>1
  <2> QED
    BY <2>1
<1>4. \E d \in W : d <= 3
  BY <1>2, <1>3, ForecastAssumption
<1>5. W \in SUBSET Nat /\ W # {}
  BY <1>4
<1>6. PICK d \in W : \A e \in W : d <= e
  BY <1>5, LeastOfNaturals
<1>7. {e \in W : e < d} = {}
  BY <1>5, <1>6
<1>8. Cardinality({e \in W : e < d}) = 0
  BY <1>7, FS_EmptySet
<1>9. d \in LastWeekdays(k)
  <2>1. Cardinality({e \in W : e < d}) < TargetWeekdays
    BY <1>8, ForecastAssumption
  <2> QED
    BY <1>6, <2>1 DEF LastWeekdays
<1> QED
  BY <1>4, <1>5, <1>6, <1>9

-----------------------------------------------------------------------------
(* The invariant.  The history is what there was of use, but for uses of 0 *)
(* and for what is older than the retention.                               *)
HistoryInv ==
  /\ now \in Nat /\ load \in [weekday : Loads, weekend : Loads]
  /\ DOMAIN used \subseteq 0..(now - 1)
  /\ \E m \in Nat : \A t \in DOMAIN used : used[t] \in 0..m
  /\ \A t \in DOMAIN history : t \in DOMAIN used /\ history[t] = used[t] /\ used[t] > 0
  /\ \A t \in DOMAIN used : used[t] > 0 /\ t >= now - Days(RetentionDays) => t \in DOMAIN history

(* What was planned fits the forecast it was planned for. *)
PlanInv ==
  plan.done /\ Complete /\ now >= Days(7) =>
    /\ plan.predicted \in Nat /\ plan.free \in Nat /\ plan.down \in Int
    /\ plan.down > 0 => plan.free - plan.down >= plan.predicted

(* The uses as the tracker would have recorded them, had nothing been      *)
(* deleted.                                                                *)
Recorded == [t \in {u \in DOMAIN used : used[u] > 0} |-> used[t]]

(* Over the last three weeks nothing is missing from the history. *)
LEMMA NothingMissing ==
  ASSUME HistoryInv, NEW t \in DOMAIN used, used[t] > 0, t >= now - Days(21)
  PROVE  t \in DOMAIN history
<1>1. Days(21) \in Nat /\ Days(RetentionDays) \in Nat /\ Days(21) <= Days(RetentionDays)
  BY DaysAreSlots, ForecastAssumption
<1>2. t \in Int /\ now \in Nat
  BY DEF HistoryInv
<1>3. t >= now - Days(RetentionDays)
  BY <1>1, <1>2
<1> QED
  BY <1>3 DEF HistoryInv

(* So a query of these weeks returns what it would return of the uses. *)
LEMMA SameRecords ==
  ASSUME HistoryInv, NEW range, \A t \in range : t >= now - Days(21)
  PROVE  Records(history, range) = Records(Recorded, range)
<1>1. ASSUME NEW t \in range
      PROVE  t \in DOMAIN history <=> t \in DOMAIN Recorded
  BY NothingMissing DEF HistoryInv, Recorded
<1>2. DOMAIN history \cap range = DOMAIN Recorded \cap range
  BY <1>1
<1>3. ASSUME NEW t \in DOMAIN history \cap range
      PROVE  history[t] = Recorded[t]
  BY DEF HistoryInv, Recorded
<1> QED
  BY <1>2, <1>3 DEF Records

(* The slots of the weekdays looked back to are in the last three weeks. *)
LEMMA WeekdaySlots ==
  ASSUME NEW k \in Nat, NEW t \in UNION {TimeRange(s) : s \in Weekdays(k)}
  PROVE  /\ \E d \in LastWeekdays(k) : t \in TimeRange(k - Days(d))
         /\ t \in (k - Days(MaxLookbackDays))..(k - 1) /\ t >= k - Days(21)
<1>1. PICK d \in LastWeekdays(k) : t \in TimeRange(k - Days(d))
  BY DEF Weekdays, LastWeekdays
<1>2. d \in 1..MaxLookbackDays /\ MaxLookbackDays \in 3..21
  BY <1>1, ForecastAssumption DEF LastWeekdays
<1>3. t \in Int /\ t >= k - Days(d) /\ t >= k - Days(21) /\ t <= k - 1
  BY <1>1, <1>2, WindowsBefore
<1>4. Days(d) \in Nat /\ Days(MaxLookbackDays) \in Nat /\ Days(d) <= Days(MaxLookbackDays)
  BY <1>2, DaysAreSlots
<1> QED
  BY <1>1, <1>3, <1>4

(* And so are those of the same window in the last three weeks. *)
LEMMA WeekSlots ==
  ASSUME NEW k \in Nat, NEW i \in 1..3, NEW t \in Week(k, i)
  PROVE  7 * i \in {7, 14, 21} /\ t \in TimeRange(k - Days(7 * i)) /\ t >= k - Days(21)
<1>1. 7 * i \in {7, 14, 21} /\ 7 * i \in 1..21 /\ t \in TimeRange(k - Days(7 * i))
  BY DEF Week
<1> QED
  BY <1>1, WindowsBefore

(* The forecast is that of the uses. *)
LEMMA PredictsFromUses ==
  ASSUME HistoryInv
  PROVE  Predict(history, now) = Predict(Recorded, now)
<1> DEFINE R == UNION {TimeRange(s) : s \in Weekdays(now)}
           B(records) == [i \in 1..3 |-> Records(records, Week(now, i))]
<1>0. now \in Nat
  BY DEF HistoryInv
<1>1. Records(history, R) = Records(Recorded, R)
  <2>1. \A t \in R : t >= now - Days(21)
    BY <1>0, WeekdaySlots
  <2> QED
    BY <2>1, SameRecords
<1>2. ASSUME NEW i \in 1..3 PROVE Records(history, Week(now, i)) = Records(Recorded, Week(now, i))
  <2>1. \A t \in Week(now, i) : t >= now - Days(21)
    BY <1>0, WeekSlots
  <2> QED
    BY <2>1, SameRecords
<1>3. B(history) = B(Recorded)
  BY <1>2
<1>4. \A records : Predict(records, now) =
        {Max({p, MinInstances}) :
           p \in FloatCeil(IF IsWeekend(now) THEN Historical(B(records))
                           ELSE Combine(EMA(Records(records, R), now), Historical(B(records))))}
  BY DEF Predict
<1> HIDE DEF R, B
<1> QED
  BY <1>1, <1>3, <1>4

-----------------------------------------------------------------------------
(* The forecast lies between the uses it is drawn from. *)

(* The uses of Before are those of the windows. *)
LEMMA BeforeUses ==
  ASSUME HistoryInv, NEW d, NEW t \in DOMAIN used, t \in TimeRange(now - Days(d)),
         d \in {7, 14, 21} \/ (~IsWeekend(now) /\ d \in LastWeekdays(now))
  PROVE  used[t] \in Before(now)
BY DEF Before, LastWeekdays

(* The least and the greatest of them. *)
LEMMA BeforeBounds ==
  ASSUME HistoryInv, Complete, now >= Days(7)
  PROVE  /\ now - Days(7) \in DOMAIN used /\ used[now - Days(7)] \in Before(now)
         /\ \E lo, hi \in Before(now) : /\ lo \in Nat /\ hi \in Nat
                                       /\ \A u \in Before(now) : u \in lo..hi
<1>0. now \in Nat /\ Days(7) \in Nat /\ Days(21) \in Nat /\ Days(7) <= Days(21) /\ Days(7) >= 2
  BY DaysAreSlots DEF HistoryInv
<1>1. now - Days(7) \in DOMAIN used
  <2>1. Max({0, now - Days(21)}) \in {0, now - Days(21)} /\ Max({0, now - Days(21)}) \in Int
    <3>1. 0 \in Int /\ now - Days(21) \in Int
      BY <1>0
    <3> QED
      BY <3>1, MaxOfTwo
  <2>2. now - Days(7) \in Max({0, now - Days(21)})..(now - 1)
    BY <1>0, <2>1
  <2> QED
    BY <2>2 DEF Complete
<1>2. used[now - Days(7)] \in Before(now)
  <2>1. now - Days(7) \in TimeRange(now - Days(7))
    BY <1>0 DEF TimeRange
  <2> QED
    BY <1>1, <2>1, BeforeUses
<1>3. PICK m \in Nat : \A t \in DOMAIN used : used[t] \in 0..m
  BY DEF HistoryInv
<1>4. Before(now) \in SUBSET (0..m) /\ Before(now) \in SUBSET Nat /\ Before(now) # {}
  <2>1. \A u \in Before(now) : \E t \in DOMAIN used : u = used[t]
    BY DEF Before
  <2>2. \A u \in Before(now) : u \in 0..m
    BY <1>3, <2>1
  <2> QED
    BY <1>2, <2>2
<1>5. PICK lo \in Before(now) : \A u \in Before(now) : lo <= u
  BY <1>4, LeastOfNaturals
<1>6. PICK hi \in Before(now) : \A u \in Before(now) : u <= hi
  BY <1>4, GreatestOfBounded
<1>7. lo \in Nat /\ hi \in Nat /\ \A u \in Before(now) : u \in lo..hi
  BY <1>4, <1>5, <1>6
<1> QED
  BY <1>1, <1>2, <1>7

(* A forecast for which three weeks have been recorded lies between the    *)
(* least and the greatest of these uses.                                   *)
LEMMA PredictBetween ==
  ASSUME HistoryInv, Complete, now >= Days(7), NEW predicted \in Predict(history, now)
  PROVE  /\ predicted \in Nat
         /\ \E lo, hi \in Before(now) : predicted \in lo..Max({hi + 1, MinInstances})
<1> DEFINE R == UNION {TimeRange(s) : s \in Weekdays(now)}
           weekdays == Records(history, R)
           batches == [i \in 1..3 |-> Records(history, Week(now, i))]
           hist == Historical(batches)
           base == IF IsWeekend(now) THEN hist ELSE Combine(EMA(weekdays, now), hist)
<1>0. now \in Nat /\ Days(7) \in Nat /\ Days(21) \in Nat /\ Days(7) <= Days(21)
  BY DaysAreSlots DEF HistoryInv
<1>1. PICK lo \in Before(now), hi \in Before(now) :
        lo \in Nat /\ hi \in Nat /\ \A u \in Before(now) : u \in lo..hi
  BY BeforeBounds
<1>2. Between(Zero, 0, hi)
  BY <1>1 DEF Between, Zero
<1>3. ASSUME NEW i \in 1..3, NEW t \in DOMAIN batches[i] PROVE batches[i][t] \in lo..hi
  <2>1. t \in DOMAIN history /\ t \in Week(now, i) /\ batches[i][t] = history[t]
    BY DEF Records
  <2>2. 7 * i \in {7, 14, 21} /\ t \in TimeRange(now - Days(7 * i))
    BY <1>0, <2>1, WeekSlots
  <2>3. t \in DOMAIN used /\ history[t] = used[t]
    BY <2>1 DEF HistoryInv
  <2>4. used[t] \in Before(now)
    BY <2>2, <2>3, BeforeUses
  <2> QED
    BY <1>1, <2>1, <2>3, <2>4
<1>4. Between(hist, lo, hi)
  <2> DEFINE none == \A i \in 1..3 : DOMAIN batches[i] = {}
  <2>1. IF none THEN hist = Zero ELSE Between(hist, lo, hi)
    <3> HIDE DEF batches
    <3> QED
      BY <1>1, <1>3, HistoricalBetween
  <2>2. ASSUME lo # 0 PROVE ~none
    <3> DEFINE t == now - Days(7)
    <3>1. t \in DOMAIN used /\ used[t] \in lo..hi
      BY <1>1, BeforeBounds
    <3>2. t >= now - Days(21) /\ t \in Week(now, 1)
      BY <1>0 DEF Week, TimeRange
    <3>3. used[t] > 0
      BY <1>1, <2>2, <3>1
    <3>4. t \in DOMAIN history
      BY <3>1, <3>2, <3>3, NothingMissing
    <3>5. t \in DOMAIN batches[1]
      BY <3>2, <3>4 DEF Records
    <3> QED
      BY <3>5
  <2> QED
    BY <1>2, <2>1, <2>2
<1>5. ASSUME ~IsWeekend(now) PROVE Between(EMA(weekdays, now), lo, hi)
  <2>1. ASSUME NEW t \in DOMAIN weekdays
        PROVE  weekdays[t] \in lo..hi /\ t \in (now - Days(MaxLookbackDays))..(now - 1)
    <3>1. t \in DOMAIN history /\ t \in R /\ weekdays[t] = history[t]
      BY <2>1 DEF Records
    <3>2. t \in (now - Days(MaxLookbackDays))..(now - 1)
      BY <1>0, <3>1, WeekdaySlots
    <3>3. PICK d \in LastWeekdays(now) : t \in TimeRange(now - Days(d))
      BY <1>0, <3>1, WeekdaySlots
    <3>4. t \in DOMAIN used /\ history[t] = used[t]
      BY <3>1 DEF HistoryInv
    <3>5. used[t] \in Before(now)
      BY <1>5, <3>3, <3>4, BeforeUses
    <3> QED
      BY <1>1, <3>1, <3>2, <3>4, <3>5
  <2>2. IF DOMAIN weekdays = {} THEN EMA(weekdays, now) = Zero ELSE Between(EMA(weekdays, now), lo, hi)
    <3> HIDE DEF weekdays
    <3>1. \A t \in DOMAIN weekdays : weekdays[t] \in lo..hi
      BY <2>1
    <3>2. DOMAIN weekdays \subseteq (now - Days(MaxLookbackDays))..(now - 1)
      BY <2>1
    <3>3. now \in Int
      BY <1>0
    <3> QED
      BY <1>1, <3>1, <3>2, <3>3, EMABetween
  <2>3. ASSUME lo # 0 PROVE DOMAIN weekdays # {}
    <3>1. PICK d \in LastWeekdays(now) : d <= 3
      BY <1>0, SomeWeekday
    <3>2. d \in 1..3
      BY <3>1, ForecastAssumption DEF LastWeekdays
    <3>3. Days(d) \in Nat /\ Days(d) <= Days(7) /\ Days(d) >= 2 /\ Days(d) <= Days(21)
      BY <3>2, DaysAreSlots
    <3> DEFINE t == now - Days(d)
    <3>4. t \in TimeRange(now - Days(d)) /\ t >= now - Days(21) /\ t \in 0..(now - 1)
      BY <1>0, <3>3 DEF TimeRange
    <3>5. t \in DOMAIN used
      <4>1. Max({0, now - Days(21)}) \in {0, now - Days(21)} /\ Max({0, now - Days(21)}) \in Int
        <5>1. 0 \in Int /\ now - Days(21) \in Int
          BY <1>0
        <5> QED
          BY <5>1, MaxOfTwo
      <4>2. t \in Max({0, now - Days(21)})..(now - 1)
        BY <1>0, <3>3, <3>4, <4>1
      <4> QED
        BY <4>2 DEF Complete
    <3>6. used[t] \in Before(now)
      BY <1>5, <3>1, <3>4, <3>5, BeforeUses
    <3>7. used[t] > 0
      <4>1. used[t] \in lo..hi
        BY <1>1, <3>6
      <4> HIDE DEF t
      <4> QED
        BY <1>1, <2>3, <4>1
    <3>8. t \in DOMAIN history
      BY <3>4, <3>5, <3>7, NothingMissing
    <3>9. t \in R
      BY <3>1, <3>4 DEF Weekdays, LastWeekdays
    <3> QED
      BY <3>8, <3>9 DEF Records
  <2> QED
    BY <1>2, <2>2, <2>3
<1>6. Between(base, lo, hi)
  BY <1>1, <1>4, <1>5, CombineBetween
<1>7. PICK p \in FloatCeil(base) : predicted = Max({p, MinInstances})
  BY DEF Predict
<1> HIDE DEF base
<1>8. p \in lo..(hi + 1)
  <2>1. Ceil(base) \in lo..hi
    BY <1>1, <1>6, CeilBetween
  <2>2. p \in {Ceil(base), Ceil(base) + 1}
    BY <1>7 DEF FloatCeil
  <2> QED
    BY <1>1, <2>1, <2>2
<1>9. /\ predicted \in {p, MinInstances} /\ predicted >= p
      /\ Max({hi + 1, MinInstances}) \in Int
      /\ Max({hi + 1, MinInstances}) >= hi + 1 /\ Max({hi + 1, MinInstances}) >= MinInstances
  <2>1. p \in Int /\ MinInstances \in Int /\ hi + 1 \in Int
    BY <1>1, <1>8, ForecastAssumption
  <2> QED
    BY <1>7, <2>1, MaxOfTwo
<1>10. predicted \in Nat /\ predicted \in lo..Max({hi + 1, MinInstances})
  BY <1>1, <1>8, <1>9, ForecastAssumption
<1> QED
  BY <1>1, <1>10

(* The target of the scaler is not below the forecast. *)
LEMMA TargetCovers ==
  ASSUME NEW predicted \in Nat
  PROVE  Target(predicted) \in Int /\ Target(predicted) >= predicted
<1>1. MinSize \in Int /\ RecentUsageMinInstances \in Int /\ MinSize >= 0 /\ predicted \in Int
  BY ForecastAssumption
<1>2. Max({MinSize, RecentUsageMinInstances}) \in Int /\ Max({MinSize, RecentUsageMinInstances}) >= MinSize
  BY <1>1, MaxOfTwo
<1>3. Max({predicted, MinSize}) \in Int /\ Max({predicted, MinSize}) >= predicted
  BY <1>1, MaxOfTwo
<1> QED
  BY <1>1, <1>2, <1>3 DEF Target

-----------------------------------------------------------------------------
(* The invariant is kept. *)

(* A runner starts without records and without a plan. *)
LEMMA ForecastBegins == ForecastInit => HistoryInv /\ PlanInv /\ ForecastBetween
<1> SUFFICES ASSUME ForecastInit PROVE HistoryInv /\ PlanInv /\ ForecastBetween
  OBVIOUS
<1>1. DOMAIN used = {} /\ DOMAIN history = {}
  BY DEF ForecastInit
<1>2. HistoryInv
  BY <1>1 DEF ForecastInit, HistoryInv
<1>3. ~plan.done
  BY DEF ForecastInit, NoPlan
<1> QED
  BY <1>2, <1>3 DEF PlanInv, ForecastBetween

(* The tracker records a use that is not 0 in the history as well. *)
LEMMA TrackKeeps == ASSUME HistoryInv, Track PROVE HistoryInv'
<1>1. now \in Nat /\ now' = now + 1 /\ load' = load
  BY DEF HistoryInv, Track, NextSlot
<1>2. InUse \in Nat
  BY ForecastAssumption DEF InUse, HistoryInv
<1>3. now \notin DOMAIN used /\ now \notin DOMAIN history
  BY <1>1 DEF HistoryInv
<1>4. /\ DOMAIN used' = DOMAIN used \cup {now} /\ used'[now] = InUse
      /\ \A t \in DOMAIN used : used'[t] = used[t]
  <2>1. used' = Record(used, now, InUse)
    BY DEF Track
  <2> QED
    BY <1>3, <2>1 DEF Record
<1>5. /\ DOMAIN history' = DOMAIN history \cup (IF InUse > 0 THEN {now} ELSE {})
      /\ InUse > 0 => history'[now] = InUse
      /\ \A t \in DOMAIN history : history'[t] = history[t]
  <2>1. history' = IF CountGroupedInstances = {} THEN history ELSE Record(history, now, InUse)
    BY DEF Track
  <2>2. CASE InUse = 0
    <3>1. history' = history
      BY <2>1, <2>2 DEF CountGroupedInstances
    <3> QED
      BY <2>2, <3>1
  <2>3. CASE InUse > 0
    <3>1. history' = Record(history, now, InUse)
      BY <2>1, <2>3 DEF CountGroupedInstances
    <3> QED
      BY <1>3, <2>3, <3>1 DEF Record
  <2> QED
    BY <1>2, <2>2, <2>3
<1> HIDE DEF InUse
<1>6. \E m \in Nat : \A t \in DOMAIN used' : used'[t] \in 0..m
  <2>1. PICK m \in Nat : \A t \in DOMAIN used : used[t] \in 0..m
    BY DEF HistoryInv
  <2>2. \A t \in DOMAIN used' : used'[t] \in 0..(m + InUse)
    BY <1>2, <1>4, <2>1
  <2> QED
    BY <1>2, <2>1, <2>2
<1>7. DOMAIN used' \subseteq 0..(now' - 1)
  BY <1>1, <1>4 DEF HistoryInv
<1>8. \A t \in DOMAIN history' : t \in DOMAIN used' /\ history'[t] = used'[t] /\ used'[t] > 0
  <2> SUFFICES ASSUME NEW t \in DOMAIN history'
               PROVE  t \in DOMAIN used' /\ history'[t] = used'[t] /\ used'[t] > 0
    OBVIOUS
  <2>1. CASE t \in DOMAIN history
    BY <1>4, <1>5, <2>1 DEF HistoryInv
  <2>2. CASE t \notin DOMAIN history
    BY <1>4, <1>5, <2>2
  <2> QED
    BY <2>1, <2>2
<1>9. \A t \in DOMAIN used' : used'[t] > 0 /\ t >= now' - Days(RetentionDays) => t \in DOMAIN history'
  <2> SUFFICES ASSUME NEW t \in DOMAIN used', used'[t] > 0, t >= now' - Days(RetentionDays)
               PROVE  t \in DOMAIN history'
    OBVIOUS
  <2>1. CASE t = now
    BY <1>4, <1>5, <2>1
  <2>2. CASE t # now
    <3>1. t \in DOMAIN used /\ used[t] > 0 /\ t \in Int
      BY <1>4, <2>2 DEF HistoryInv
    <3>2. Days(RetentionDays) \in Nat
      BY ForecastAssumption, DaysAreSlots
    <3>3. t >= now - Days(RetentionDays)
      BY <1>1, <3>1, <3>2
    <3> QED
      BY <1>5, <3>1, <3>3 DEF HistoryInv
  <2> QED
    BY <2>1, <2>2
<1> QED
  BY <1>1, <1>6, <1>7, <1>8, <1>9 DEF HistoryInv

(* Time goes on: nothing comes into the retention. *)
LEMMA MissedTrackKeeps == ASSUME HistoryInv, MissedTrack PROVE HistoryInv'
<1>1. now \in Nat /\ now' = now + 1 /\ load' = load /\ history' = history /\ used' = used
  BY DEF HistoryInv, MissedTrack, NextSlot
<1>2. Days(RetentionDays) \in Nat
  BY ForecastAssumption, DaysAreSlots
<1>3. ASSUME NEW t \in DOMAIN used PROVE t \in 0..(now' - 1) /\ t \in Int
  BY <1>1 DEF HistoryInv
<1>4. ASSUME NEW t \in DOMAIN used, used[t] > 0, t >= now' - Days(RetentionDays)
      PROVE  t \in DOMAIN history
  <2>1. t >= now - Days(RetentionDays)
    BY <1>1, <1>2, <1>3, <1>4
  <2> QED
    BY <1>4, <2>1 DEF HistoryInv
<1> QED
  BY <1>1, <1>3, <1>4 DEF HistoryInv

(* Another load is a load. *)
LEMMA ChangeLoadKeeps == ASSUME HistoryInv, ChangeLoad PROVE HistoryInv'
<1>1. load' \in [weekday : Loads, weekend : Loads]
  BY DEF HistoryInv, ChangeLoad
<1>2. now' = now /\ history' = history /\ used' = used
  BY DEF ChangeLoad
<1> QED
  BY <1>1, <1>2 DEF HistoryInv

(* The cleanup deletes what is older than the retention. *)
LEMMA HistoryCleanupKeeps == ASSUME HistoryInv, HistoryCleanup PROVE HistoryInv'
<1>1. now' = now /\ load' = load /\ used' = used
  BY DEF HistoryCleanup
<1>2. /\ DOMAIN history' = {t \in DOMAIN history : t >= now - Days(RetentionDays)}
      /\ \A t \in DOMAIN history' : history'[t] = history[t]
  BY DEF HistoryCleanup, DeleteOlderThan
<1> QED
  BY <1>1, <1>2 DEF HistoryInv

(* What a scaler plans fits its forecast. *)
LEMMA ScalePlans ==
  ASSUME HistoryInv, Scale, Complete, now >= Days(7)
  PROVE  /\ plan'.predicted \in Nat /\ plan'.free \in Nat /\ plan'.down \in Int
         /\ plan'.down > 0 => plan'.free - plan'.down >= plan'.predicted
         /\ \E lo, hi \in Before(now) : plan'.predicted \in lo..Max({hi + 1, MinInstances})
<1>1. PICK free \in FreeCounts, predicted \in Predict(history, now) :
        LET delta == Target(predicted) - free
            live == IF ByRecentUsage(predicted) THEN 0 ELSE delta
            cold == Buffer(delta) + delta - live
            done == [NoPlan EXCEPT !.done = TRUE, !.free = free, !.predicted = predicted]
        IN plan' \in IF delta > 0
                     THEN {[done EXCEPT !.up = live, !.hibernated = cold],
                           [done EXCEPT !.up = Max({0, live - 1}), !.hibernated = cold]}
                     ELSE {[done EXCEPT !.down = n] : n \in {0, -delta}}
  BY DEF Scale
<1> DEFINE delta == Target(predicted) - free
<1>2. predicted \in Nat /\ \E lo, hi \in Before(now) : predicted \in lo..Max({hi + 1, MinInstances})
  BY PredictBetween
<1>3. free \in Nat
  BY ForecastAssumption
<1>4. Target(predicted) \in Int /\ Target(predicted) >= predicted
  BY <1>2, TargetCovers
<1>5. plan'.predicted = predicted /\ plan'.free = free /\ plan'.down \in {0, -delta}
  BY <1>1 DEF NoPlan
<1>6. plan'.down > 0 => plan'.free - plan'.down >= plan'.predicted
  BY <1>2, <1>3, <1>4, <1>5
<1>7. plan'.down \in Int
  BY <1>3, <1>4, <1>5
<1>8. plan'.predicted \in Nat /\ plan'.free \in Nat
  BY <1>2, <1>3, <1>5
<1>9. \E lo, hi \in Before(now) : plan'.predicted \in lo..Max({hi + 1, MinInstances})
  BY <1>2, <1>5
<1> QED
  BY <1>6, <1>7, <1>8, <1>9

(* One step. *)
LEMMA ForecastKeeps ==
  ASSUME HistoryInv, PlanInv, ForecastBetween, [ForecastNext]_forecastVars
  PROVE  HistoryInv' /\ PlanInv' /\ ForecastBetween'
<1> USE DEF PlanInv, ForecastBetween
<1>1. CASE Track
  <2>1. ~plan'.done
    BY <1>1 DEF Track, NextSlot, NoPlan
  <2> QED
    BY <1>1, <2>1, TrackKeeps
<1>2. CASE MissedTrack
  <2>1. ~plan'.done
    BY <1>2 DEF MissedTrack, NextSlot, NoPlan
  <2> QED
    BY <1>2, <2>1, MissedTrackKeeps
<1>3. CASE ChangeLoad
  <2>1. ~plan'.done
    BY <1>3 DEF ChangeLoad
  <2> QED
    BY <1>3, <2>1, ChangeLoadKeeps
<1>4. CASE HistoryCleanup
  <2>1. UNCHANGED <<now, used, plan>>
    BY <1>4 DEF HistoryCleanup
  <2>2. Complete' = Complete /\ Before(now)' = Before(now)
    BY <2>1 DEF Complete, Before
  <2> QED
    BY <1>4, <2>1, <2>2, HistoryCleanupKeeps
<1>5. CASE Scale
  <2>1. UNCHANGED <<now, load, used, history>>
    BY <1>5 DEF Scale
  <2>2. Complete' = Complete /\ Before(now)' = Before(now)
    BY <2>1 DEF Complete, Before
  <2>3. HistoryInv'
    BY <2>1 DEF HistoryInv
  <2> QED
    BY <1>5, <2>1, <2>2, <2>3, ScalePlans
<1>6. CASE UNCHANGED forecastVars
  <2>1. UNCHANGED <<now, load, used, history, plan>>
    BY <1>6 DEF forecastVars
  <2>2. Complete' = Complete /\ Before(now)' = Before(now)
    BY <2>1 DEF Complete, Before
  <2>3. HistoryInv'
    BY <2>1 DEF HistoryInv
  <2> QED
    BY <2>1, <2>2, <2>3
<1> QED
  BY <1>1, <1>2, <1>3, <1>4, <1>5, <1>6 DEF ForecastNext

(* The invariant of the jobs. *)
LEMMA ForecastInvariant == ForecastSpec => [](HistoryInv /\ PlanInv /\ ForecastBetween)
<1>1. HistoryInv /\ PlanInv /\ ForecastBetween /\ [ForecastNext]_forecastVars =>
        (HistoryInv /\ PlanInv /\ ForecastBetween)'
  BY ForecastKeeps
<1> QED
  BY <1>1, ForecastBegins, PTL DEF ForecastSpec

(* ForecastBetween: the predictor's forecast for a window lies between two *)
(* of the uses it is to be drawn from, or one above, or is the configured  *)
(* minimum, for any loads, weights, period and lookback, and whatever was  *)
(* missed before the last three weeks.                                     *)
THEOREM ForecastIsBetween == ForecastSpec => []ForecastBetween
BY ForecastInvariant, PTL

(* HistoryKept: HistoryCleanupJob deletes no record that Predict still     *)
(* reads, for any retention of three weeks or more.                        *)
THEOREM CleanupKeepsHistory == ForecastSpec => []HistoryKept
<1>1. HistoryInv => HistoryKept
  BY PredictsFromUses DEF HistoryKept, Recorded
<1> QED
  BY <1>1, ForecastInvariant, PTL

(* NotScaledBelow: scaleDown leaves as many free VMs as the lowest of the  *)
(* uses that the forecast is drawn from.                                   *)
THEOREM ScaleDownLeavesUse == ForecastSpec => []NotScaledBelow
<1>1. ASSUME HistoryInv, PlanInv, ForecastBetween PROVE NotScaledBelow
  <2> SUFFICES ASSUME plan.done, Complete, now >= Days(7), plan.down > 0
               PROVE  \E low \in Before(now) : plan.free - plan.down >= low
    BY DEF NotScaledBelow
  <2>1. PICK low \in Before(now), high \in Before(now) : plan.predicted \in low..Max({high + 1, MinInstances})
    BY <1>1 DEF ForecastBetween
  <2>2. /\ plan.predicted \in Nat /\ plan.free \in Nat /\ plan.down \in Int
        /\ plan.free - plan.down >= plan.predicted
    BY <1>1 DEF PlanInv
  <2>3. low \in Nat
    BY <1>1, <2>1 DEF HistoryInv, Before
  <2>4. plan.predicted >= low
    BY <2>1, <2>2, <2>3
  <2> QED
    BY <2>1, <2>2, <2>3, <2>4
<1> QED
  BY <1>1, ForecastInvariant, PTL

=============================================================================
