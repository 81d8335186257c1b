------------------------- MODULE TenantConfigProofs -------------------------
(***************************************************************************)
(* The driver of an instance is that of its account's tenant, for any      *)
(* accounts, group ids, specs and number of overrides, and over any number *)
(* of reloads of the pool file; proved with TLAPS.                         *)
(***************************************************************************)
EXTENDS TenantConfig, TLAPS

(* A pool file that the runner has accepted. *)
Accepted(ts) ==
  /\ Resolves(ts)
  /\ DOMAIN ts = 1..Len(ts) /\ Len(ts) \in Nat
  /\ \A i \in DOMAIN ts : ts[i].ids \in Lists

(* The row was written for the accounts of override t: under its group id, *)
(* or under the account that came first at the time.                       *)
WrittenFor(r, t) ==
  /\ r.account \in Range(t.ids)
  /\ r.tenant \in Range(t.ids) \/ (t.group # NoGroup /\ r.tenant = t.group)

(* The tenant id of a row names an override of the current pool file.      *)
(* It need not be the tenant's id any more.                                *)
RowsNamed ==
  \A r \in accountRows : r.tenant # DefaultTenantID =>
    \E i \in DOMAIN tenants : WrittenFor(r, tenants[i])

TenantInv == Accepted(tenants) /\ RowsNamed

-----------------------------------------------------------------------------
(* What ResolveTenants guarantees of a file it accepts. *)

(* A list of accounts starts with one of them. *)
LEMMA HeadListed ==
  ASSUME NEW l \in Lists
  PROVE  l # <<>> => Head(l) \in Range(l)
<1>1. PICK n \in 1..Cardinality(Accounts) : l \in [1..n -> Accounts]
  BY DEF Lists
<1>2. 1 \in DOMAIN l
  BY <1>1
<1> QED
  BY <1>2 DEF Range

(* An account of an override resolves to that override's tenant: the two   *)
(* loops over the overrides agree on which it is.                          *)
LEMMA AccountResolves ==
  ASSUME NEW ts, Accepted(ts), NEW i \in DOMAIN ts, NEW a \in Range(ts[i].ids)
  PROVE  /\ a \in DOMAIN AccountToTenant(ts) /\ AccountToTenant(ts)[a] = TenantID(ts[i])
         /\ ResolveTenant(ts, a) = TenantID(ts[i])
<1>1. \A j \in DOMAIN ts : a \in Range(ts[j].ids) => j = i
  BY DEF Accepted, Resolves, NoDuplicates
<1>2. (CHOOSE j \in DOMAIN ts : a \in Range(ts[j].ids)) = i
  BY <1>1
<1>3. a \in UNION {Range(ts[j].ids) : j \in DOMAIN ts}
  OBVIOUS
<1>4. a \in DOMAIN AccountToTenant(ts) /\ AccountToTenant(ts)[a] = TenantID(ts[i])
  BY <1>2, <1>3 DEF AccountToTenant
<1> QED
  BY <1>4 DEF ResolveTenant

(* A tenant id is in an override's name alone: no other override has it    *)
(* as its group id, nor as its first account.                              *)
LEMMA NamesOne ==
  ASSUME NEW ts, Accepted(ts), NEW i \in DOMAIN ts, NEW j \in DOMAIN ts,
         TenantID(ts[j]) \in Range(ts[i].ids)
  PROVE  i = j
<1>1. ts[j].ids # <<>> /\ ts[j].ids \in Lists
  BY DEF Accepted, Resolves, NoDuplicates
<1>2. CASE ts[j].group = NoGroup
  <2>1. TenantID(ts[j]) \in Range(ts[j].ids)
    BY <1>1, <1>2, HeadListed DEF TenantID
  <2> QED
    BY <2>1 DEF Accepted, Resolves, NoDuplicates
<1>3. CASE ts[j].group # NoGroup
  <2>1. TenantID(ts[j]) = ts[j].group
    BY <1>3 DEF TenantID
  <2>2. /\ ts[j].group \in DOMAIN AccountToTenant(ts)
        /\ AccountToTenant(ts)[ts[j].group] = TenantID(ts[i])
    BY <2>1, AccountResolves
  <2>3. TenantID(ts[i]) = TenantID(ts[j])
    BY <2>1, <2>2 DEF Accepted, Resolves, NoShadowing
  <2> QED
    BY <2>3 DEF Accepted, Resolves, NoDuplicates
<1> QED
  BY <1>2, <1>3

(* The shim of DriverForTenant: a tenant id that an override has or had    *)
(* gives the driver of that override.                                      *)
LEMMA DriverOfOverride ==
  ASSUME NEW ts, Accepted(ts), NEW i \in DOMAIN ts, NEW id, id # DefaultTenantID,
         id \in Range(ts[i].ids) \/ (ts[i].group # NoGroup /\ id = ts[i].group)
  PROVE  DriverForTenant(ts, id) = TenantDrivers(ts)[TenantID(ts[i])]
<1> DEFINE overrides == {TenantID(ts[j]) : j \in DOMAIN ts}
<1>1. DOMAIN TenantDrivers(ts) = overrides \cup {DefaultTenantID}
  BY DEF TenantDrivers
<1>2. CASE ts[i].group # NoGroup /\ id = ts[i].group
  <2>1. id = TenantID(ts[i])
    BY <1>2 DEF TenantID
  <2> QED
    BY <1>1, <2>1 DEF DriverForTenant
<1>3. CASE id \in Range(ts[i].ids) /\ id \in overrides
  <2>1. PICK j \in DOMAIN ts : id = TenantID(ts[j])
    BY <1>3
  <2>2. i = j
    BY <1>3, <2>1, NamesOne
  <2> QED
    BY <1>1, <1>3, <2>1, <2>2 DEF DriverForTenant
<1>4. CASE id \in Range(ts[i].ids) /\ id \notin overrides
  <2>1. ResolveTenant(ts, id) = TenantID(ts[i])
    BY <1>4, AccountResolves
  <2> QED
    BY <1>1, <1>4, <2>1 DEF DriverForTenant
<1> QED
  BY <1>2, <1>3, <1>4

-----------------------------------------------------------------------------
(* The invariant. *)

(* The first pool file has no overrides, and there are no rows. *)
LEMMA TenantInit == TenantsInit => TenantInv
<1> SUFFICES ASSUME TenantsInit
             PROVE  TenantInv
  OBVIOUS
<1>1. tenants = <<>> /\ DOMAIN tenants = {} /\ Len(tenants) = 0
  BY DEF TenantsInit
<1>2. Accepted(tenants)
  BY <1>1 DEF Accepted, Resolves, NoDuplicates, NoShadowing
<1> QED
  BY <1>2 DEF TenantsInit, RowsNamed, TenantInv

(* A new row is named by the file in force, in which its account is. *)
LEMMA CreateStep ==
  ASSUME TenantInv, NEW a \in Accounts, CreateInstance(a)
  PROVE  TenantInv'
<1>1. tenants' = tenants
  BY DEF CreateInstance
<1>2. ASSUME NEW r \in accountRows' \ accountRows, r.tenant # DefaultTenantID
      PROVE  \E i \in DOMAIN tenants : WrittenFor(r, tenants[i])
  <2>1. r = [account |-> a, tenant |-> ResolveTenant(tenants, a)]
    BY <1>2 DEF CreateInstance
  <2>2. r.account = a /\ r.tenant = ResolveTenant(tenants, a)
    BY <2>1
  <2>3. a \in UNION {Range(tenants[i].ids) : i \in DOMAIN tenants}
    BY <1>2, <2>2 DEF ResolveTenant, AccountToTenant
  <2>4. PICK i \in DOMAIN tenants : a \in Range(tenants[i].ids)
    BY <2>3
  <2>5. r.tenant = TenantID(tenants[i])
    BY <2>2, <2>4, AccountResolves DEF TenantInv
  <2>6. tenants[i].ids # <<>> /\ tenants[i].ids \in Lists
    BY DEF TenantInv, Accepted, Resolves, NoDuplicates
  <2>7. WrittenFor(r, tenants[i])
    BY <2>2, <2>4, <2>5, <2>6, HeadListed DEF WrittenFor, TenantID
  <2> QED
    BY <2>7
<1>3. \A r \in accountRows' : r.tenant # DefaultTenantID =>
        \E i \in DOMAIN tenants : WrittenFor(r, tenants[i])
  BY <1>2 DEF TenantInv, RowsNamed
<1> QED
  BY <1>1, <1>3 DEF TenantInv, RowsNamed

(* A reload keeps the accounts and the group id that name the rows. *)
LEMMA LoadStep ==
  ASSUME MaxTenants \in Nat, TenantInv, Load
  PROVE  TenantInv'
<1>1. PICK n \in Len(tenants)..MaxTenants :
      \E ids \in {f \in [1..n -> Lists] : \A i \in DOMAIN tenants : Keeps(tenants[i], f[i])},
         groups \in {f \in [1..n -> GroupIDs \cup {NoGroup}] :
                      \A i \in DOMAIN tenants : f[i] \in Identities(tenants[i])} :
        LET file == [i \in 1..n |-> [ids |-> ids[i], group |-> groups[i], spec |-> SpecOf[i]]]
        IN  Resolves(file) /\ tenants' = file
  BY DEF Load
<1>2. PICK ids \in {f \in [1..n -> Lists] : \A i \in DOMAIN tenants : Keeps(tenants[i], f[i])},
           groups \in {f \in [1..n -> GroupIDs \cup {NoGroup}] :
                        \A i \in DOMAIN tenants : f[i] \in Identities(tenants[i])} :
        LET file == [i \in 1..n |-> [ids |-> ids[i], group |-> groups[i], spec |-> SpecOf[i]]]
        IN  Resolves(file) /\ tenants' = file
  BY <1>1
<1>3. tenants' = [i \in 1..n |-> [ids |-> ids[i], group |-> groups[i], spec |-> SpecOf[i]]]
  BY <1>2
<1>4. Resolves(tenants')
  BY <1>2
<1>5. n \in Nat /\ DOMAIN tenants \subseteq 1..n
  BY DEF TenantInv, Accepted
<1>6. DOMAIN tenants' = 1..n /\ Len(tenants') = n
  BY <1>3, <1>5
<1>7. \A i \in 1..n : tenants'[i].ids = ids[i] /\ tenants'[i].group = groups[i]
  BY <1>3
<1>8. Accepted(tenants')
  BY <1>2, <1>4, <1>5, <1>6, <1>7 DEF Accepted
<1>9. ASSUME NEW r, NEW i \in DOMAIN tenants, WrittenFor(r, tenants[i])
      PROVE  i \in DOMAIN tenants' /\ WrittenFor(r, tenants'[i])
  <2>1. i \in 1..n /\ Keeps(tenants[i], ids[i]) /\ groups[i] \in Identities(tenants[i])
    BY <1>2, <1>5
  <2>2. Range(tenants[i].ids) \subseteq Range(tenants'[i].ids)
    BY <1>7, <2>1 DEF Keeps
  <2>3. tenants[i].group # NoGroup => tenants'[i].group = tenants[i].group
    BY <1>7, <2>1 DEF Identities
  <2> QED
    BY <1>6, <1>9, <2>1, <2>2, <2>3 DEF WrittenFor
<1>10. accountRows' = accountRows
  BY DEF Load
<1> QED
  BY <1>8, <1>9, <1>10 DEF TenantInv, RowsNamed

(* Every step keeps it. *)
LEMMA TenantStep == MaxTenants \in Nat /\ TenantInv /\ [TenantsNext]_tenantVars => TenantInv'
<1> SUFFICES ASSUME MaxTenants \in Nat, TenantInv, [TenantsNext]_tenantVars
             PROVE  TenantInv'
  OBVIOUS
<1>1. CASE UNCHANGED tenantVars
  BY <1>1 DEF tenantVars, TenantInv, RowsNamed
<1> QED
  BY <1>1, CreateStep, LoadStep DEF TenantsNext

(* Whatever was done to the pool file since an instance was created        *)
(* (accounts put in another order or added, groups added, group ids set),  *)
(* DriverForTenant gives the driver of the tenant that ResolveTenant gives *)
(* its account now.                                                        *)
THEOREM InstanceKeepsDriver ==
  ASSUME MaxTenants \in Nat
  PROVE  TenantSpec => []DriverOfAccount
<1>1. TenantInv => DriverOfAccount
  <2> SUFFICES ASSUME TenantInv, NEW r \in accountRows, r.tenant # DefaultTenantID
               PROVE  DriverForTenant(tenants, r.tenant) =
                        TenantDrivers(tenants)[ResolveTenant(tenants, r.account)]
    BY DEF DriverOfAccount
  <2>1. PICK i \in DOMAIN tenants : WrittenFor(r, tenants[i])
    BY DEF TenantInv, RowsNamed
  <2>2. DriverForTenant(tenants, r.tenant) = TenantDrivers(tenants)[TenantID(tenants[i])]
    BY <2>1, DriverOfOverride DEF TenantInv, WrittenFor
  <2>3. ResolveTenant(tenants, r.account) = TenantID(tenants[i])
    BY <2>1, AccountResolves DEF TenantInv, WrittenFor
  <2> QED
    BY <2>2, <2>3
<1>2. TenantInv /\ [TenantsNext]_tenantVars => TenantInv'
  BY TenantStep
<1> QED
  BY <1>1, <1>2, TenantInit, PTL DEF TenantSpec

=============================================================================
