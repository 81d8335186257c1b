---------------------------- MODULE GoogleDriver ----------------------------
(***************************************************************************)
(* The Google Cloud driver (app/drivers/google/driver.go).  Create walks   *)
(* an ordered list of zones and networks when a zone is out of stock, all  *)
(* attempts under one instance name; zones found exhausted are remembered  *)
(* in a cache that all calls share.  Destroy takes a batch and names the   *)
(* instances it failed on.  Labels and metadata are read, merged and       *)
(* written back under a fingerprint.                                       *)
(*                                                                         *)
(* Left out: image paths, machine features, the firewall set up once for   *)
(* the default tags, and the timer that ends the round robin's CAS loop    *)
(* after ten seconds.  A request's retries (retry, shouldRetry) are one    *)
(* request that succeeds or fails.                                         *)
(***************************************************************************)
EXTENDS DriverCalls

CONSTANTS
  MaxStockoutAttempts,  \* maxStockoutAttempts
  TagRetries,           \* tagRetries
  NoZone                \* the empty string for a zone

(* The scenario: `networks` is a sequence of [zones |-> set of zones,      *)
(* proxy |-> proxy_url], `requests` holds InstanceCreateOpts [disks,       *)
(* reservation, zones], `calls` the calls made besides Create ("destroy",  *)
(* "set", "power", "capacity"), `cleanups` the storage clean-up types      *)
(* passed to Destroy.                                                      *)
NetworkConfigs == scenario.networks
Zones == UNION {NetworkConfigs[n].zones : n \in DOMAIN NetworkConfigs}

VM(c, zone) == Resource("vm", c, zone)

GoogleInit == [next |-> 1, stockout |-> {}]

-----------------------------------------------------------------------------
(* selectNetwork for a known zone: the first entry that lists it, or the first. *)
SelectNetwork(zone) ==
  LET matching == {n \in DOMAIN NetworkConfigs : zone \in NetworkConfigs[n].zones}
  IN  IF matching = {} THEN 1 ELSE CHOOSE n \in matching : \A m \in matching : n <= m

(* nextNetworkConfig: the index the compare-and-swap leaves behind. *)
NextNetworkConfig == (shared.next % Len(NetworkConfigs)) + 1

(* resolveNetworkAndZone: the zone of the reservation, or a random one of  *)
(* the request, or a random one of the next network in the round robin.    *)
Selections(reservationZone, requestZones) ==
  IF reservationZone = NoZone /\ requestZones = {}
  THEN [zone: NetworkConfigs[shared.next].zones, network: {shared.next}]
  ELSE {[zone |-> z, network |-> SelectNetwork(z)] :
          z \in IF reservationZone # NoZone THEN {reservationZone} ELSE requestZones}

(* deprioritizeStockoutZones: a stable partition, the exhausted zones last. *)
Deprioritized(k) == k.zone \in shared.stockout

(* buildCreateCandidates: the first selection, then every other zone once, *)
(* networks in declared order and zones shuffled within each; then the     *)
(* zones out of stock moved to the end, and the list capped.               *)
BuildCreateCandidates(first) ==
  LET all == {first} \cup {[zone |-> z, network |-> SelectNetwork(z)] : z \in Zones \ {first.zone}}
      Before(k, l) == IF Deprioritized(k) # Deprioritized(l) THEN Deprioritized(l)
                      ELSE k = first \/ (l # first /\ k.network <= l.network)
      n == Cardinality(all)
      orders == {s \in [1..n -> all] : \A i, j \in 1..n : i < j => s[i] # s[j] /\ Before(s[i], s[j])}
  IN  {SubSeq(s, 1, IF n < MaxStockoutAttempts THEN n ELSE MaxStockoutAttempts) : s \in orders}

(* Create up to the first request: only a call without persistent disk and *)
(* without reservation gets more than one candidate.  A boot disk size     *)
(* that does not parse ends the call without error and without instance.   *)
CreateBegin(c) ==
  /\ Fresh(c)
  /\ \E opts \in scenario.requests :
       /\ shared' = IF opts.reservation = NoZone /\ opts.zones = {}
                    THEN [shared EXCEPT !.next = NextNetworkConfig] ELSE shared
       /\ \/ Return(c)
          \/ \E first \in Selections(opts.reservation, opts.zones) :
             \E cands \in IF opts.disks = <<>> /\ opts.reservation = NoZone
                          THEN BuildCreateCandidates(first) ELSE {<<first>>} :
               call' = [call EXCEPT ![c] =
                          [pc |-> IF opts.disks = <<>> THEN "insert" ELSE "disks",
                           cands |-> cands, disks |-> opts.disks,
                           reserved |-> opts.reservation # NoZone]]
  /\ UNCHANGED <<cloud, abandoned, held>>

(* attachPersistentDisk and the wait for it: disks that exist are kept.    *)
AttachPersistentDisk(c) ==
  /\ call[c].pc = "disks"
  /\ \E ready \in {SubSeq(call[c].disks, 1, n) : n \in 0..Len(call[c].disks)} :
       /\ cloud' = With(Disks(c, ready, Head(call[c].cands).zone), "disk")
       /\ \/ ready = call[c].disks /\ Goto(c, "insert")
          \/ Goto(c, "failed")
  /\ UNCHANGED <<abandoned, held, shared, made, destroyed>>

(* One attempt of insertWithStockoutRetry: the insert and the wait for its *)
(* operation.  A failed attempt may leave the VM behind.  The userdata is  *)
(* rendered for this candidate, so the VM boots with its network's proxy.  *)
RetriesLeft(c) == ~call[c].reserved /\ call[c].disks = <<>> /\ Len(call[c].cands) > 1

(* Mutant of NewVM: the userdata is rendered once, for the first network. *)
NewVMFirstProxy(c) == [network |-> Head(call[c].cands).network, proxy |-> NetworkConfigs[1].proxy,
                       labels |-> {}, metadata |-> {}, status |-> "RUNNING"]

NewVM(c) == LET cand == Head(call[c].cands)
            IN  [network |-> cand.network, proxy |-> NetworkConfigs[cand.network].proxy,
                 labels |-> {}, metadata |-> {}, status |-> "RUNNING"]

InsertInstance(c) ==
  LET zone == Head(call[c].cands).zone
  IN  /\ call[c].pc = "insert"
      /\ \/ /\ Add(VM(c, zone), NewVM(c))
            /\ Goto(c, "get")
            /\ UNCHANGED shared
         \/ /\ \/ UNCHANGED cloud
               \/ Add(VM(c, zone), NewVM(c))
            /\ \/ /\ Goto(c, "failed")
                  /\ UNCHANGED shared
               \/ /\ Goto(c, IF RetriesLeft(c) THEN "stockout" ELSE "failed")
                  /\ shared' = IF call[c].reserved THEN shared
                               ELSE [shared EXCEPT !.stockout = @ \cup {zone}]
      /\ UNCHANGED <<abandoned, held, made, destroyed>>

(* Mutant of CleanupFailedInstance: only the last zone is cleaned up. *)
CleanupLastZone(c) ==
  LET vm == VM(c, Head(call[c].cands).zone)
  IN  /\ \/ call[c].pc = "failed" /\ BestEffort({vm}) /\ Return(c)
         \/ /\ call[c].pc = "stockout" /\ UNCHANGED <<cloud, abandoned>>
            /\ call' = [call EXCEPT ![c].pc = "insert", ![c].cands = Tail(@)]
      /\ UNCHANGED <<held, shared, made, destroyed>>

(* cleanupFailedInstance in the zone of the attempt, whose error is only   *)
(* logged: before the next candidate, and when Create gives up.            *)
CleanupFailedInstance(c) ==
  LET vm == VM(c, Head(call[c].cands).zone)
  IN  /\ call[c].pc \in {"stockout", "failed"}
      /\ BestEffort({vm})
      /\ IF call[c].pc = "failed" THEN Return(c)
         ELSE call' = [call EXCEPT ![c].pc = "insert", ![c].cands = Tail(@)]
      /\ UNCHANGED <<held, shared, made, destroyed>>

(* getInstance and mapToInstance *)
CreateDone(c) ==
  LET zone == Head(call[c].cands).zone
  IN  /\ call[c].pc = "get"
      /\ \/ /\ Exists(VM(c, zone))
            /\ held' = held \cup {[what |-> "vm", name |-> c, zone |-> zone,
                                   disks |-> call[c].disks, proxy |-> cloud[VM(c, zone)].proxy]}
            /\ Return(c)
         \/ Goto(c, "failed") /\ UNCHANGED held
      /\ UNCHANGED <<cloud, abandoned, shared, made, destroyed>>

(* The cache forgets a zone after stockoutCacheTTL. *)
StockoutExpires ==
  /\ \E z \in shared.stockout : shared' = [shared EXCEPT !.stockout = @ \ {z}]
  /\ UNCHANGED <<cloud, abandoned, held, call, made, destroyed>>

-----------------------------------------------------------------------------
(* DestroyInstanceAndStorage over a batch, one instance after the other. *)
DestroyBegin(c) ==
  /\ "destroy" \in scenario.calls /\ call[c] = Idle
  /\ \E batch \in SUBSET HeldVMs \ {{}}, cleanup \in scenario.cleanups :
       call' = [call EXCEPT ![c] = BatchCall(batch, cleanup)]
  /\ UNCHANGED <<cloud, abandoned, held, shared, made, destroyed>>

(* getZone: an instance that is not found is skipped, one whose lookup     *)
(* fails is listed as failed.                                              *)
DestroyGetZone(c) ==
  /\ call[c].pc = "next"
  /\ \E i \in call[c].todo :
       \/ Exists(VM(i.name, i.zone)) /\ TakeInstance(c, i, "delete", {})
       \/ ~Exists(VM(i.name, i.zone)) /\ SkipInstance(c, i, {})
       \/ SkipInstance(c, i, {i})
  /\ UNCHANGED <<cloud, abandoned, held, shared, made, destroyed>>

(* deleteInstanceForCleanup: the operation is waited for only when a       *)
(* storage clean-up type is given; otherwise its failure goes unseen.      *)
DeleteInstanceForCleanup(c) ==
  /\ call[c].pc = "delete"
  /\ LET i == call[c].at
         R == {VM(i.name, i.zone)} IN
       \/ /\ Deleted(R)
          /\ IF call[c].cleanup = "Delete" THEN Goto(c, "disks of") ELSE NextInstance(c, {})
       \/ Refused(R) /\ NextInstance(c, {i})
       \/ Abandon(R) /\ call[c].cleanup = "none" /\ NextInstance(c, {})
  /\ UNCHANGED <<held, shared, made, destroyed>>

(* deletePersistentDisksForCleanup: in order, stopping at the first failure. *)
DeletePersistentDisks(c) ==
  /\ call[c].pc = "disks of"
  /\ LET i == call[c].at IN
       \/ Deleted(Disks(i.name, i.disks, i.zone)) /\ NextInstance(c, {})
       \/ \E k \in DOMAIN i.disks :
            /\ \E r \in Disks(i.name, i.disks, i.zone) : r.id = i.disks[k] /\ Exists(r)
            /\ cloud' = Without(Disks(i.name, SubSeq(i.disks, 1, k - 1), i.zone))
            /\ UNCHANGED abandoned
            /\ NextInstance(c, {i})
  /\ UNCHANGED <<held, shared, made, destroyed>>

DestroyReturn(c) == BatchDone(c)

-----------------------------------------------------------------------------
(* ReserveCapacity: one zone of the next network; an attempt that is cut   *)
(* off by its time limit may leave the reservation to its own expiry.      *)
ReserveCapacity(c) ==
  /\ "capacity" \in scenario.calls /\ Fresh(c)
  /\ shared' = [shared EXCEPT !.next = NextNetworkConfig]
  /\ \E zone \in NetworkConfigs[shared.next].zones :
       LET r == Resource("reservation", c, zone) IN
       \/ UNCHANGED <<cloud, abandoned, held>>
       \/ Add(r, "ttl") /\ abandoned' = abandoned \cup {r} /\ UNCHANGED held
       \/ /\ Add(r, "ttl") /\ UNCHANGED abandoned
          /\ held' = held \cup {[what |-> "reservation", name |-> c, zone |-> zone]}
  /\ UNCHANGED call

(* DestroyCapacity with the zone stored; not found counts as deleted. *)
DestroyCapacity(c) ==
  /\ "capacity" \in scenario.calls /\ call[c] = Idle
  /\ \E i \in held \ HeldVMs :
       /\ Deleted({Resource("reservation", i.name, i.zone)})
       /\ held' = held \ {i}
  /\ UNCHANGED <<call, made, destroyed, shared>>

(* The provider deletes a reservation after its DeleteAfterDuration. *)
ReservationExpires ==
  /\ \E r \in DOMAIN cloud : r.kind = "reservation" /\ cloud' = Without({r})
  /\ UNCHANGED <<abandoned, held, call, made, destroyed, shared>>

-----------------------------------------------------------------------------
(* SetLabels and SetTags: read, merge, and write back under the            *)
(* fingerprint that was read, which is a hash of the content.              *)
SetBegin(c) ==
  /\ "set" \in scenario.calls /\ call[c] = Idle
  /\ \E i \in HeldVMs, field \in {"labels", "metadata"} :
       call' = [call EXCEPT ![c] = [pc |-> "read", vm |-> VM(i.name, i.zone), field |-> field,
                                    seen |-> {}, tries |-> 1]]
  /\ UNCHANGED <<cloud, abandoned, held, shared, made, destroyed>>

SetRetry(c) ==
  IF call[c].tries = TagRetries THEN Return(c)
  ELSE call' = [call EXCEPT ![c].pc = "read", ![c].tries = @ + 1, ![c].seen = {}]

SetRead(c) ==
  /\ call[c].pc = "read"
  /\ \/ /\ Exists(call[c].vm)
        /\ call' = [call EXCEPT ![c].pc = "write", ![c].seen = cloud[call[c].vm][call[c].field]]
     \/ SetRetry(c)
  /\ UNCHANGED <<cloud, abandoned, held, shared, made, destroyed>>

(* Mutant of SetWrite: the write carries no fingerprint. *)
SetWriteUnchecked(c) ==
  /\ call[c].pc = "write"
  /\ Exists(call[c].vm)
  /\ cloud' = [cloud EXCEPT ![call[c].vm][call[c].field] = call[c].seen \cup {c}]
  /\ Return(c)
  /\ UNCHANGED <<abandoned, held, shared, made, destroyed>>

SetWrite(c) ==
  LET vm == call[c].vm
      field == call[c].field
  IN  /\ call[c].pc = "write"
      /\ \/ /\ Exists(vm) /\ cloud[vm][field] = call[c].seen
            /\ cloud' = [cloud EXCEPT ![vm][field] = call[c].seen \cup {c}]
            /\ Return(c) \/ SetRetry(c)
         \/ SetRetry(c) /\ UNCHANGED cloud
      /\ UNCHANGED <<abandoned, held, shared, made, destroyed>>

-----------------------------------------------------------------------------
(* Hibernate suspends the VM, also when the wait for it fails; Start       *)
(* resumes it only when the provider says it is suspended.                 *)
SetStatus(c, from, to) ==
  /\ "power" \in scenario.calls /\ call[c] = Idle
  /\ \E i \in HeldVMs :
       /\ Exists(VM(i.name, i.zone)) /\ cloud[VM(i.name, i.zone)].status = from
       /\ cloud' = [cloud EXCEPT ![VM(i.name, i.zone)].status = to]
  /\ UNCHANGED <<abandoned, held, call, shared, made, destroyed>>

Hibernate(c) == SetStatus(c, "RUNNING", "SUSPENDED")
Start(c) == SetStatus(c, "SUSPENDED", "RUNNING")

-----------------------------------------------------------------------------
Next ==
  \/ \E c \in Callers :
       \/ CreateBegin(c) \/ AttachPersistentDisk(c) \/ InsertInstance(c)
       \/ CleanupFailedInstance(c) \/ CreateDone(c)
       \/ DestroyBegin(c) \/ DestroyGetZone(c) \/ DeleteInstanceForCleanup(c)
       \/ DeletePersistentDisks(c) \/ DestroyReturn(c)
       \/ SetBegin(c) \/ SetRead(c) \/ SetWrite(c)
       \/ Hibernate(c) \/ Start(c)
       \/ ReserveCapacity(c) \/ DestroyCapacity(c)
  \/ StockoutExpires \/ ReservationExpires

=============================================================================
