--------------------------- MODULE PendingRequests ---------------------------
(***************************************************************************)
(* The requests that wait for an analysis (the five *RequestState types of *)
(* crates/lsp/src/server.rs and the drains of crates/lsp/src/pending.rs),  *)
(* as operators on one set of waiters.  A waiter is                        *)
(*   [id, kind, query, view, cancel, dispatched]                           *)
(* where view is the view key the request was asked against, and cancel    *)
(* the identity of its cancel flag (NoFlag for kinds that have none).      *)
(***************************************************************************)
EXTENDS FiniteSets, Integers

CONSTANTS
    MaxPending,         \* MAX_PENDING_DEFINITIONS and its siblings, 128 in the code
    MaxPendingPerKey    \* MAX_PENDING_DEFINITIONS_PER_KEY and its siblings, 16 in the code

RequestKinds == {"semanticTokens", "definition", "prepareRename", "references", "rename"}

(* Kinds whose answer is computed by the response pool.                    *)
PooledKinds == {"references", "rename"}

OfKind(pending, kinds) == {w \in pending : w.kind \in kinds}

(* queue: semantic-token requests are not capped.                          *)
HasRoom(pending, kind, package) ==
    kind # "semanticTokens" =>
        /\ Cardinality(OfKind(pending, {kind})) < MaxPending
        /\ Cardinality({w \in OfKind(pending, {kind}) : w.view.package = package}) < MaxPendingPerKey

(* The three drains of PendingFeature, over all five kinds.                *)
DrainUri(pending, u) == {w \in pending : w.view.uri = u}
DrainPackage(pending, key) == {w \in pending : w.view.package = key}
DrainBuckets(pending, bs) == {w \in pending : w.view.package.bucket \in bs}

(* take_key of the semantic-token requests.                                *)
TakeKey(pending, view) == {w \in OfKind(pending, {"semanticTokens"}) : w.view = view}

(* keys_for_package of the semantic-token requests.                        *)
KeysForPackage(pending, key) ==
    {w.view : w \in DrainPackage(OfKind(pending, {"semanticTokens"}), key)}

(* Mutant: renames are marked as dispatched and never handed over.         *)
UndispatchedReferences(pending, kind, key) ==
    {w \in DrainPackage(OfKind(pending, {kind} \ {"rename"}), key) : ~w.dispatched}

(* The waiters mark_undispatched hands to the response pool.               *)
Undispatched(pending, kind, key) ==
    {w \in DrainPackage(OfKind(pending, {kind}), key) : ~w.dispatched}

MarkUndispatched(pending, key) ==
    {IF w.kind \in PooledKinds /\ w.view.package = key
     THEN [w EXCEPT !.dispatched = TRUE] ELSE w : w \in pending}

(* cancel_drained flips the flags of the requests it answers.              *)
FlagsOf(waiters) == {w.cancel : w \in OfKind(waiters, PooledKinds)}
=============================================================================
