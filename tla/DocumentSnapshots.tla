-------------------------- MODULE DocumentSnapshots --------------------------
(***************************************************************************)
(* The document store together with every snapshot it has handed to the    *)
(* worker, and what the keys and tokens in those snapshots mean later on.  *)
(***************************************************************************)
EXTENDS DocumentStore

VARIABLE snapshots  \* every snapshot handed to the worker so far (history)

vars == <<documents, latestGeneration, bucketGenerations, cancelToken, snapshots>>

(* The store on its own: any sequence of commits, with snapshots taken by  *)
(* the commits and, at any later time, for a package or view request.      *)

Init == StoreInit /\ snapshots = {}

DidOpen(u) ==
    \E project \in ResolvedProjects(u), text \in Texts :
        /\ CommitOpen(u, project, text)
        /\ snapshots' = snapshots \cup {Snapshot(u)'}

DidChange(u) ==
    \E project \in ResolvedProjects(u), text \in Texts :
        /\ CommitChange(u, project, text)
        /\ snapshots' = snapshots \cup {Snapshot(u)'}

DidClose(u) == Close(u) /\ UNCHANGED snapshots

SnapshotForPackageAnalysis(u) ==
    /\ IsOpen(u)
    /\ snapshots' = snapshots \cup {Snapshot(u)}
    /\ UNCHANGED storeVars

Next == \E u \in Uris : \/ DidOpen(u)
                        \/ DidChange(u)
                        \/ DidClose(u)
                        \/ SnapshotForPackageAnalysis(u)

Spec == Init /\ [][Next]_vars

-----------------------------------------------------------------------------
(* Properties *)

(* Every piece of store state has the shape the Rust types give it.        *)
TypeOK ==
    /\ documents \in [Uris -> OpenDocument \cup {Closed}]
    /\ latestGeneration \in [Uris -> Generation]
    /\ bucketGenerations \in [Buckets -> Generation]
    /\ cancelToken \in [Tokens -> Generation]
    /\ snapshots \subseteq DocumentSnapshot

(* A package key that is still current stands for exactly the inputs that  *)
(* were analysed: the trigger document is open at the snapshot's           *)
(* generation and text in that bucket, every open buffer of the bucket has *)
(* the text the snapshot captured, and no commit has cancelled the token.  *)
(* handle_worker_event relies on this when it compares keys, not texts.    *)
CurrentKeyMeansCurrentInputs ==
    \A s \in snapshots :
        s.packageKey = PackageKeyForBucket(s.packageKey.bucket) =>
            /\ IsOpen(s.uri)
            /\ documents[s.uri].bucket = s.packageKey.bucket
            /\ documents[s.uri].generation = s.generation
            /\ documents[s.uri].text = s.text
            /\ OpenOverlays(s.packageKey.bucket) = s.overlays
            /\ ~IsCancelled(s)

(* Freshness keys are never reused for different inputs, over any sequence *)
(* of opens, duplicate opens, closes, reopens and bucket moves: equal      *)
(* package keys were analysed from equal overlays, equal view keys from    *)
(* equal texts.  The caches of the server are sound because of this.       *)
KeysDetermineInputs ==
    \A s, t \in snapshots :
        /\ s.packageKey = t.packageKey => s.overlays = t.overlays
        /\ ViewKeyOf(s) = ViewKeyOf(t) => s.text = t.text

(* Once a worker has seen a snapshot cancelled, it stays cancelled.  The   *)
(* analysis gives up midway with a degraded result when it sees the token  *)
(* move, and only the check after it keeps that result from being          *)
(* published as a fresh one: the token must never move back.               *)
CancellationIsPermanent ==
    [][\A s \in snapshots : IsCancelled(s) => IsCancelled(s)']_vars
=============================================================================
