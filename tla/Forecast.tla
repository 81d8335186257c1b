------------------------------ MODULE Forecast ------------------------------
(***************************************************************************)
(* The forecast behind the scaler, for one image of one variant of a pool: *)
(* the utilization tracker records the VMs in use, the predictor           *)
(* (EMAWeekendDecayPredictor) computes from the records what the next      *)
(* window needs, the scaler turns that into jobs and destructions, and     *)
(* the history cleanup deletes old records.                                *)
(*                                                                         *)
(* Time goes in slots, one per tick of the tracker; the window that is     *)
(* looked at begins with the first slot of a day and is one slot long.     *)
(* The load of the pool repeats every week, one use on the weekdays and    *)
(* one on the weekend, and may change with a day; the tracker may fail to  *)
(* record.  Fractions are kept exact, as pairs of a numerator and a        *)
(* denominator; the code has floating point numbers, which may come out    *)
(* just above a whole number that the fraction equals.                     *)
(***************************************************************************)
EXTENDS Integers, FiniteSetsExt

CONSTANTS
  SlotsPerDay,               \* the ticks of the tracker in a day
  MaxDays,                   \* how many days are looked at (a bound)
  Loads,                     \* the uses there may be
  MaxChanges,                \* how often the load changes or a record fails (a bound)
  EMAPeriod, EMAWeight, WeekDecayFactors, MinInstances, MaxLookbackDays, TargetWeekdays,
                             \* PredictorConfig, its weights in percent
  RetentionDays,             \* of the history cleanup
  ActiveImageLookbackDays, RecentUsageLookbackDays, RecentUsageMinInstances, ScalePercent,
                             \* ScalerConfig
  MinSize,                   \* the minimum size of the variant
  FreeCounts                 \* how many free VMs the scaler may find

(* The tracker ticks within a day, the weights are positive, and some of   *)
(* the days looked back to is a weekday.  The records of three weeks are   *)
(* retained: the default is 60 days, but the code does not compare it with *)
(* what the predictor looks back to.                                       *)
ASSUME ForecastAssumption ==
  /\ SlotsPerDay \in Nat /\ SlotsPerDay >= 2 /\ Loads \subseteq Nat
  /\ EMAPeriod \in Nat \ {0} /\ EMAWeight \in 0..100 /\ MinInstances \in Nat
  /\ WeekDecayFactors \in [1..3 -> Nat \ {0}]
  /\ MaxLookbackDays \in 3..21 /\ TargetWeekdays \in Nat \ {0}
  /\ RetentionDays \in Nat /\ RetentionDays >= 21
  /\ RecentUsageMinInstances \in Nat /\ MinSize \in Nat /\ FreeCounts \subseteq Nat

VARIABLES
  now,       \* the slot
  load,      \* the use on a weekday and on the weekend
  history,   \* the utilization history: the count recorded in a slot
  used,      \* the use there was in each slot that the tracker did not miss
  plan,      \* what the scaler did for the window that begins
  left       \* how many changes and failures may still come

forecastVars == <<now, load, history, used, plan, left>>

NoPlan == [done |-> FALSE, free |-> 0, predicted |-> 0, up |-> 0, hibernated |-> 0, down |-> 0]

(* A runner starts with an empty history; slot 0 begins a Sunday. *)
ForecastInit ==
  /\ now = 0
  /\ load \in [weekday : Loads, weekend : Loads]
  /\ history = <<>> /\ used = <<>>
  /\ plan = NoPlan
  /\ left = MaxChanges

Days(n) == n * SlotsPerDay
IsWeekend(slot) == (slot \div SlotsPerDay) % 7 \in {0, 6}

-----------------------------------------------------------------------------
(* UtilizationTrackerJob.Execute: the instances in use are counted by      *)
(* group, and a group without any has no count and no record.              *)
InUse == IF IsWeekend(now) THEN load.weekend ELSE load.weekday
CountGroupedInstances == {InUse} \ {0}
Record(records, t, count) == [u \in DOMAIN records \cup {t} |-> IF u = t THEN count ELSE records[u]]

NextSlot ==
  /\ now < Days(MaxDays) /\ now' = now + 1
  /\ plan' = NoPlan
  /\ UNCHANGED load

Track ==
  /\ NextSlot
  /\ history' = IF CountGroupedInstances = {} THEN history ELSE Record(history, now, InUse)
  /\ used' = Record(used, now, InUse)
  /\ UNCHANGED left

MissedTrack ==
  /\ left > 0 /\ left' = left - 1
  /\ NextSlot /\ UNCHANGED <<history, used>>

ChangeLoad ==
  /\ left > 0 /\ left' = left - 1
  /\ now % SlotsPerDay = 0 /\ ~plan.done
  /\ \E kind \in DOMAIN load, use \in Loads :
       use # load[kind] /\ load' = [load EXCEPT ![kind] = use]
  /\ UNCHANGED <<now, history, used, plan>>

DeleteOlderThan(records, timestamp) ==
  [t \in {u \in DOMAIN records : u >= timestamp} |-> records[t]]

(* Mutant of HistoryCleanup: the retention counts from the end of the day. *)
HistoryCleanupEarly ==
  /\ history' = DeleteOlderThan(history, now - Days(RetentionDays - 1))
  /\ history' # history
  /\ UNCHANGED <<now, load, used, plan, left>>

(* HistoryCleanupJob.Execute *)
HistoryCleanup ==
  /\ history' = DeleteOlderThan(history, now - Days(RetentionDays))
  /\ history' # history
  /\ UNCHANGED <<now, load, used, plan, left>>

-----------------------------------------------------------------------------
(* The predictor.  GetUtilizationHistoryBatch returns the records of a     *)
(* range, both of its ends included.                                       *)
TimeRange(start) == start..(start + 1)
Records(records, range) == [t \in DOMAIN records \cap range |-> records[t]]

(* Mutant of Weekdays: it looks back over the weekend. *)
AnyDays(start) ==
  LET back == 1..MaxLookbackDays
  IN {start - Days(d) : d \in {d \in back : Cardinality({e \in back : e < d}) < TargetWeekdays}}

(* The starts of the same window on the last weekdays. *)
Weekdays(start) ==
  LET back == {d \in 1..MaxLookbackDays : ~IsWeekend(start - Days(d))}
  IN {start - Days(d) : d \in {d \in back : Cardinality({e \in back : e < d}) < TargetWeekdays}}

(* calculateEMA, with alpha = 2 / (EMAPeriod + 1), over the slots in their *)
(* order; the oldest record begins.                                        *)
Smooth(ema, v) == [n |-> 2 * v * ema.d + (EMAPeriod - 1) * ema.n, d |-> (EMAPeriod + 1) * ema.d]
AddSlot(batch, t, ema) ==
  IF t \notin DOMAIN batch THEN ema
  ELSE IF \A u \in DOMAIN batch : t <= u THEN [n |-> batch[t], d |-> 1]
  ELSE Smooth(ema, batch[t])
Zero == [n |-> 0, d |-> 1]
EMA(batch, start) ==
  LET slots == Days(MaxLookbackDays)
      ema[i \in 0..slots] == IF i = 0 THEN Zero ELSE AddSlot(batch, start - slots + i - 1, ema[i - 1])
  IN ema[slots]

(* calculateHistoricalWithDecay over the peaks of the last three weeks; a  *)
(* week without records has no weight.                                     *)
Week(start, i) == TimeRange(start - Days(7 * i))
PeakUtilization(batch) == Max({0} \cup {batch[t] : t \in DOMAIN batch})
Historical(batches) ==
  LET weight(i) == IF DOMAIN batches[i] = {} THEN 0 ELSE WeekDecayFactors[i]
      total == weight(1) + weight(2) + weight(3)
      weighted(i) == weight(i) * PeakUtilization(batches[i])
  IN IF total = 0 THEN Zero
     ELSE [n |-> weighted(1) + weighted(2) + weighted(3), d |-> total]

(* combineValues *)
Combine(ema, hist) ==
  [n |-> EMAWeight * ema.n * hist.d + (100 - EMAWeight) * hist.n * ema.d,
   d |-> 100 * ema.d * hist.d]

(* The ceiling of a fraction, as floating point numbers may give it. *)
Ceil(x) == (x.n + x.d - 1) \div x.d
FloatCeil(x) == {Ceil(x)} \cup (IF x.n > 0 /\ x.n % x.d = 0 THEN {Ceil(x) + 1} ELSE {})

Predict(records, start) ==
  LET weekdays == Records(records, UNION {TimeRange(s) : s \in Weekdays(start)})
      hist == Historical([i \in 1..3 |-> Records(records, Week(start, i))])
      base == IF IsWeekend(start) THEN hist ELSE Combine(EMA(weekdays, start), hist)
  IN {Max({p, MinInstances}) : p \in FloatCeil(base)}

-----------------------------------------------------------------------------
(* The scaler, before the window begins.  An image that was not used of    *)
(* late is passed over.                                                    *)
UsedSince(days) == \E t \in DOMAIN history : t >= now - Days(days)

(* Mutant of Target: the recent use counts instead of the prediction. *)
TargetRecent(predicted) ==
  IF UsedSince(RecentUsageLookbackDays) THEN RecentUsageMinInstances ELSE Max({predicted, MinSize})

(* scaleVariant: the floors of the target. *)
Target(predicted) ==
  IF predicted = 0 /\ UsedSince(RecentUsageLookbackDays)
  THEN Max({MinSize, RecentUsageMinInstances}) ELSE Max({predicted, MinSize})
ByRecentUsage(predicted) == Target(predicted) > Max({predicted, MinSize})
Buffer(delta) == IF ScalePercent <= 100 THEN 0 ELSE Ceil([n |-> delta * (ScalePercent - 100), d |-> 100])

(* scaleUp leaves out a job it cannot create; scaleDown stops early when   *)
(* no VM of the predictor is free any more, and a failed destroy counts.   *)
Scale ==
  /\ now % SlotsPerDay = 0 /\ ~plan.done
  /\ UsedSince(ActiveImageLookbackDays)
  /\ \E free \in FreeCounts, predicted \in Predict(history, now) :
       LET delta == Target(predicted) - free
           live == IF ByRecentUsage(predicted) THEN 0 ELSE delta
           cold == Buffer(delta) + delta - live
           done == [NoPlan EXCEPT !.done = TRUE, !.free = free, !.predicted = predicted]
       IN plan' \in IF delta > 0
                    THEN {[done EXCEPT !.up = live, !.hibernated = cold],
                          [done EXCEPT !.up = Max({0, live - 1}), !.hibernated = cold]}
                    ELSE {[done EXCEPT !.down = n] : n \in {0, -delta}}
  /\ UNCHANGED <<now, load, history, used, left>>

ForecastNext == Track \/ MissedTrack \/ ChangeLoad \/ HistoryCleanup \/ Scale

ForecastSpec == ForecastInit /\ [][ForecastNext]_forecastVars

-----------------------------------------------------------------------------
(* Properties. *)

(* The uses that the forecast for a window is to be drawn from: those at   *)
(* the same time on the last weekdays, for a weekday, and on the same day  *)
(* of the last three weeks.                                                *)
Before(start) ==
  LET weekdays == {d \in 1..MaxLookbackDays : ~IsWeekend(start - Days(d))}
      last == IF IsWeekend(start) THEN {}
              ELSE {d \in weekdays : Cardinality({e \in weekdays : e < d}) < TargetWeekdays}
  IN {used[t] : t \in DOMAIN used \cap
                        UNION {TimeRange(start - Days(d)) : d \in last \cup {7, 14, 21}}}
Complete == \A t \in Max({0, now - Days(21)})..(now - 1) : t \in DOMAIN used

(* From the second week on a forecast lies between two of these uses, or   *)
(* is one above when it has been rounded, or is the configured minimum:    *)
(* weekends do not come into that of a weekday, weeks without records do   *)
(* not pull it down, and the weights add up, whatever the load was.        *)
ForecastBetween ==
  plan.done /\ Complete /\ now >= Days(7) =>
    \E low, high \in Before(now) : plan.predicted \in low..Max({high + 1, MinInstances})

(* The cleanup deletes nothing that a forecast still needs. *)
HistoryKept ==
  LET recorded == [t \in {u \in DOMAIN used : used[u] > 0} |-> used[t]]
  IN now % SlotsPerDay = 0 => Predict(history, now) = Predict(recorded, now)

(* Scaling down before a window leaves the VMs the window is going to need *)
(* by the lowest of the uses above, also on the days after a weekend       *)
(* without any use.                                                        *)
NotScaledBelow ==
  plan.done /\ Complete /\ now >= Days(7) /\ plan.down > 0 =>
    \E low \in Before(now) : plan.free - plan.down >= low

=============================================================================
