---------------------------- MODULE AnalysisCaches ----------------------------
(***************************************************************************)
(* The routing thread's analysis state (AnalysisCaches in                  *)
(* crates/lsp/src/server.rs), as operators on one record c:                *)
(*   packages          cached package keys, oldest first (packages and     *)
(*                     package_order, which hold the same keys)            *)
(*   views             keys of the cached document views, one per URI      *)
(*   failedPackages, failedViews       analyses that panicked              *)
(*   inFlightPackages, inFlightViews   analyses the scheduler owes         *)
(* A package key has a field bucket, a view key has fields uri and package.*)
(***************************************************************************)
EXTENDS SequencesExt, Integers

CONSTANT MaxPackageCacheEntries     \* MAX_PACKAGE_CACHE_ENTRIES, 8 in the code

ASSUME CacheCapAssumption == MaxPackageCacheEntries \in Nat \ {0}

EmptyCaches ==
    [packages |-> <<>>, views |-> {}, failedPackages |-> {}, failedViews |-> {},
     inFlightPackages |-> {}, inFlightViews |-> {}]

HasPackage(c, key) == key \in ToSet(c.packages)
HasView(c, key) == key \in c.views

(* invalidate_bucket, for each bucket of bs.                               *)
InvalidateBuckets(c, bs) ==
    [c EXCEPT !.packages = SelectSeq(@, LAMBDA k : k.bucket \notin bs),
              !.views = {k \in @ : k.package.bucket \notin bs},
              !.failedPackages = {k \in @ : k.bucket \notin bs},
              !.failedViews = {k \in @ : k.package.bucket \notin bs},
              !.inFlightPackages = {k \in @ : k.bucket \notin bs},
              !.inFlightViews = {k \in @ : k.package.bucket \notin bs}]

(* package_order after the insert and before eviction.                     *)
Stored(c, key) == IF HasPackage(c, key) THEN c.packages ELSE Append(c.packages, key)
Excess(c, key) ==
    IF Len(Stored(c, key)) > MaxPackageCacheEntries
    THEN Len(Stored(c, key)) - MaxPackageCacheEntries ELSE 0

(* The keys store_package returns.                                         *)
Evicted(c, key) == ToSet(SubSeq(Stored(c, key), 1, Excess(c, key)))

StorePackage(c, key) ==
    [c EXCEPT !.packages = SubSeq(Stored(c, key), Excess(c, key) + 1, Len(Stored(c, key))),
              !.failedPackages = @ \ ({key} \cup Evicted(c, key))]

StoreFailedPackage(c, key) ==
    [c EXCEPT !.failedPackages = {k \in @ : k.bucket # key.bucket} \cup {key}]

(* document_views is keyed by URI: a new view replaces the URI's old one.  *)
StoreView(c, key) == [c EXCEPT !.views = {k \in @ : k.uri # key.uri} \cup {key}]
=============================================================================
