---------------------------- MODULE TenantConfig ----------------------------
(***************************************************************************)
(* The tenants of a pool: the pool file gives overrides for groups of      *)
(* customer accounts, ResolveTenants turns them into tenants with drivers  *)
(* of their own, and an instance row carries the tenant id of the account  *)
(* it was created for.  Rows outlive the configuration: the runner may be  *)
(* started again with another pool file, in which a group has been given   *)
(* an id, its accounts have been put in another order, or more accounts or *)
(* more groups have been added.                                            *)
(*                                                                         *)
(* A spec is a function from the names of its fields to values; an elided  *)
(* field is outside of its domain.                                         *)
(***************************************************************************)
EXTENDS Integers, Sequences, SequencesExt, FiniteSets, TLC

CONSTANTS
  Accounts,   \* the customer accounts
  GroupIDs,   \* the group ids a pool file may have
  MaxTenants, \* how many overrides a pool file has (a bound)
  MaxLoads,   \* how many times the pool file is loaded (a bound)
  MaxRows,    \* how many instances are created (a bound)
  BaseSpec,   \* the spec of the pool
  SpecOf      \* the spec of each override, by its place in the pool file

VARIABLES
  tenants,      \* the overrides of the pool file
  accountRows,  \* the instance rows: the account and the tenant id
  loads         \* how often the pool file has been loaded

tenantVars == <<tenants, accountRows, loads>>

NoGroup == ""
DefaultTenantID == "default"

-----------------------------------------------------------------------------
(* ResolveTenants.  deepMerge: fields that are present in the override win,*)
(* nested specs are merged in turn (here a spec is flat).                  *)
MergeSpec(base, override) == override @@ base

TenantID(t) == IF t.group # NoGroup THEN t.group ELSE Head(t.ids)
AccountToTenant(ts) ==
  [a \in UNION {Range(ts[i].ids) : i \in DOMAIN ts} |->
     TenantID(ts[CHOOSE i \in DOMAIN ts : a \in Range(ts[i].ids)])]

(* The checks in the loop. *)
NoDuplicates(ts) ==
  /\ \A i \in DOMAIN ts : ts[i].ids # <<>> /\ TenantID(ts[i]) # DefaultTenantID
  /\ \A i, j \in DOMAIN ts : i # j =>
       /\ TenantID(ts[i]) # TenantID(ts[j])
       /\ Range(ts[i].ids) \cap Range(ts[j].ids) = {}

(* Mutant of NoShadowing: there is no check after the loop. *)
AnyGroup(ts) == TRUE

(* The check after the loop: a group id is no account of another tenant. *)
NoShadowing(ts) ==
  \A i \in DOMAIN ts : ts[i].group \in DOMAIN AccountToTenant(ts) =>
    AccountToTenant(ts)[ts[i].group] = ts[i].group

Resolves(ts) == NoDuplicates(ts) /\ NoShadowing(ts)

(* applyTenants: one driver per tenant, built from its merged spec, which  *)
(* stands for it.                                                          *)
TenantDrivers(ts) ==
  LET overrides == {TenantID(ts[i]) : i \in DOMAIN ts} IN
  [id \in overrides \cup {DefaultTenantID} |->
     IF id \in overrides
       THEN MergeSpec(BaseSpec, ts[CHOOSE i \in DOMAIN ts : TenantID(ts[i]) = id].spec)
       ELSE BaseSpec]

-----------------------------------------------------------------------------
(* The pool: the tenant of an account, and the driver of a tenant id, also *)
(* of one that a row got from an earlier pool file.                        *)
ResolveTenant(ts, account) ==
  IF account \in DOMAIN AccountToTenant(ts) THEN AccountToTenant(ts)[account] ELSE DefaultTenantID

DriverForTenant(ts, id) ==
  IF id \in DOMAIN TenantDrivers(ts) THEN TenantDrivers(ts)[id]
  ELSE TenantDrivers(ts)[ResolveTenant(ts, id)]

-----------------------------------------------------------------------------
Lists == {l \in UNION {[1..n -> Accounts] : n \in 1..Cardinality(Accounts)} :
            Cardinality(Range(l)) = Len(l)}

(* The runner starts with a pool file that has no overrides. *)
TenantsInit == tenants = <<>> /\ accountRows = {} /\ loads = 1

(* An instance is created for an account, and carries its tenant. *)
CreateInstance(account) ==
  /\ Cardinality(accountRows) < MaxRows
  /\ accountRows' =
       accountRows \cup {[account |-> account, tenant |-> ResolveTenant(tenants, account)]}
  /\ UNCHANGED <<tenants, loads>>

(* The runner is started with another pool file.  Whoever edits it keeps   *)
(* the accounts of a tenant and, once it is set, its group id, which is    *)
(* its identity; a file that does not resolve is refused.                  *)
Keeps(t, ids) == Range(t.ids) \subseteq Range(ids)
Identities(t) == IF t.group = NoGroup THEN GroupIDs \cup {NoGroup} ELSE {t.group}

Load ==
  /\ loads < MaxLoads /\ loads' = loads + 1
  /\ \E n \in Len(tenants)..MaxTenants :
     \E ids \in {f \in [1..n -> Lists] : \A i \in DOMAIN tenants : Keeps(tenants[i], f[i])},
        groups \in {f \in [1..n -> GroupIDs \cup {NoGroup}] :
                     \A i \in DOMAIN tenants : f[i] \in Identities(tenants[i])} :
       LET file == [i \in 1..n |-> [ids |-> ids[i], group |-> groups[i], spec |-> SpecOf[i]]]
       IN  Resolves(file) /\ tenants' = file
  /\ UNCHANGED accountRows

TenantsNext == Load \/ \E a \in Accounts : CreateInstance(a)

TenantSpec == TenantsInit /\ [][TenantsNext]_tenantVars

-----------------------------------------------------------------------------
(* Properties. *)

(* The driver that stops, starts and destroys an instance is the one of    *)
(* the tenant its account belongs to now, under whichever pool file its    *)
(* row was written: with ids or group ids, before or after a group id was  *)
(* set, in whichever order the accounts stood then.  An account that was   *)
(* of no tenant then is left out: its instance belongs to the pool.        *)
DriverOfAccount ==
  \A r \in accountRows : r.tenant # DefaultTenantID =>
    DriverForTenant(tenants, r.tenant) =
      TenantDrivers(tenants)[ResolveTenant(tenants, r.account)]

=============================================================================
