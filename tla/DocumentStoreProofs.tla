------------------------- MODULE DocumentStoreProofs -------------------------
(***************************************************************************)
(* Proofs about DocumentStore, for every set of URIs, packages and texts   *)
(* and every bound on generations.                                         *)
(***************************************************************************)
EXTENDS DocumentSnapshots, TLAPS

(* An open document is at the latest generation of its URI, and its token  *)
(* holds that generation.  No open document shares a token.                *)
OpenInv ==
    \A u \in Uris : IsOpen(u) =>
        /\ documents[u].generation = latestGeneration[u]
        /\ documents[u].token[1] = u
        /\ documents[u].token[2] <= latestGeneration[u]
        /\ cancelToken[documents[u].token] = documents[u].generation

(* The part of the type invariant that concerns the store.                 *)
StoreTypeOK ==
    /\ documents \in [Uris -> OpenDocument \cup {Closed}]
    /\ latestGeneration \in [Uris -> Generation]
    /\ bucketGenerations \in [Buckets -> Generation]
    /\ cancelToken \in [Tokens -> Generation]

(* A snapshot is never ahead of the store: not of its URI's generations,   *)
(* not of its bucket's, and its token holds at least its generation.       *)
NotAhead(s) ==
    /\ s.token[1] = s.uri
    /\ s.token[2] <= latestGeneration[s.uri]
    /\ s.generation <= cancelToken[s.token]
    /\ s.packageKey.generation <= bucketGenerations[s.packageKey.bucket]

(* If the key of a snapshot is current then so are its inputs.             *)
FreshIfCurrent(s) ==
    s.packageKey = PackageKeyForBucket(s.packageKey.bucket) =>
        /\ IsOpen(s.uri)
        /\ documents[s.uri].bucket = s.packageKey.bucket
        /\ documents[s.uri].generation = s.generation
        /\ documents[s.uri].text = s.text
        /\ OpenOverlays(s.packageKey.bucket) = s.overlays
        /\ ~IsCancelled(s)

(* Two snapshots with equal keys have equal inputs.                        *)
SameInputs(s, t) ==
    /\ s.packageKey = t.packageKey => s.overlays = t.overlays
    /\ ViewKeyOf(s) = ViewKeyOf(t) => s.text = t.text

SnapshotsOK(S) ==
    /\ S \subseteq DocumentSnapshot
    /\ \A s \in S : NotAhead(s) /\ FreshIfCurrent(s)
    /\ \A s, t \in S : SameInputs(s, t)

(* The inductive invariant.  The properties are about snapshots alone; it  *)
(* adds what ties a snapshot to the store: NotAhead and OpenInv.           *)
IInv == StoreTypeOK /\ OpenInv /\ SnapshotsOK(snapshots)

-----------------------------------------------------------------------------
(* What every commit for URI u does to the store: other documents and      *)
(* their tokens are left alone, generations only grow, and the bucket u    *)
(* was in and the bucket u is in now have both advanced.                   *)
Committed(u) ==
    /\ \A v \in Uris : v # u => documents'[v] = documents[v]
    /\ \A v \in Uris : latestGeneration[v] <= latestGeneration'[v]
    /\ \A t \in Tokens : t[1] # u => cancelToken'[t] = cancelToken[t]
    /\ \A t \in Tokens : t[2] <= latestGeneration[t[1]] => cancelToken[t] <= cancelToken'[t]
    /\ \A b \in Buckets : bucketGenerations[b] <= bucketGenerations'[b]
    /\ IsOpen(u) => bucketGenerations[documents[u].bucket] < bucketGenerations'[documents[u].bucket]
    /\ IsOpen(u)' => bucketGenerations[documents'[u].bucket] < bucketGenerations'[documents'[u].bucket]

(* A bucket a URI resolves to is a bucket (analysis_bucket_for).           *)
LEMMA BucketType ==
    ASSUME NEW u \in Uris, NEW project \in ResolvedProjects(u)
    PROVE  /\ AnalysisBucketFor(u, project) \in Buckets
           /\ project \in Packages \cup {NoProject}
  BY DEF ResolvedProjects, AnalysisBucketFor, Buckets

(* commit_open keeps the types and the token invariant, and is a commit.   *)
LEMMA OpenCommits ==
    ASSUME NEW u \in Uris, NEW project \in ResolvedProjects(u), NEW text \in Texts,
           StoreTypeOK, OpenInv, CommitOpen(u, project, text)
    PROVE  StoreTypeOK' /\ OpenInv' /\ Committed(u) /\ IsOpen(u)'
  <1> DEFINE previous == documents[u]
             generation == latestGeneration[u] + 1
             token == <<u, generation>>
             bucket == AnalysisBucketFor(u, project)
             doc == [text |-> text, generation |-> generation, project |-> project,
                     bucket |-> bucket, token |-> token]
  <1>1. generation \in Generation /\ generation # 0
    BY GenerationAssumption DEF CommitOpen, NextGeneration, CanAdvance, Generation, StoreTypeOK
  <1>2. token \in Tokens /\ bucket \in Buckets
    BY <1>1, BucketType DEF Tokens
  <1>3. doc \in OpenDocument
    BY <1>1, <1>2, BucketType DEF OpenDocument
  <1>4. documents' = [documents EXCEPT ![u] = doc]
    BY DEF CommitOpen, NextGeneration
  <1>5. IsOpen(u)'
    BY <1>3, <1>4, ClosedAssumption DEF IsOpen, StoreTypeOK
  <1>6. IsOpen(u) => /\ previous \in OpenDocument
                     /\ previous.token \in Tokens
                     /\ previous.bucket \in Buckets
                     /\ previous.token # token
                     /\ previous.generation + 1 = generation
    BY <1>1 DEF OpenInv, StoreTypeOK, OpenDocument, IsOpen, Tokens, Generation
  <1>7. cancelToken' \in [Tokens -> Generation]
    BY <1>1, <1>2, <1>6 DEF CommitOpen, NextGeneration, StoreTypeOK
  <1>8. bucketGenerations' \in [Buckets -> Generation]
    BY <1>2, <1>6, GenerationAssumption
    DEF CommitOpen, NextGeneration, BumpBucket, CanBump, CanAdvance, StoreTypeOK, Generation
  <1>9. StoreTypeOK'
    BY <1>1, <1>3, <1>4, <1>7, <1>8 DEF StoreTypeOK, CommitOpen, NextGeneration
  <1>10. OpenInv'
    BY <1>1, <1>2, <1>3, <1>4, <1>6
    DEF OpenInv, StoreTypeOK, OpenDocument, IsOpen, CommitOpen, NextGeneration, Tokens, Generation
  <1>11. Committed(u)
    BY <1>1, <1>2, <1>3, <1>4, <1>6
    DEF Committed, OpenInv, StoreTypeOK, IsOpen, CommitOpen, NextGeneration, BumpBucket, Tokens, Generation
  <1> QED BY <1>5, <1>9, <1>10, <1>11

(* commit_change keeps the types and the token invariant, and is a commit. *)
LEMMA ChangeCommits ==
    ASSUME NEW u \in Uris, NEW project \in ResolvedProjects(u), NEW text \in Texts,
           StoreTypeOK, OpenInv, CommitChange(u, project, text)
    PROVE  StoreTypeOK' /\ OpenInv' /\ Committed(u) /\ IsOpen(u)'
  <1> DEFINE previous == documents[u]
             generation == previous.generation + 1
             bucket == AnalysisBucketFor(u, project)
             doc == [text |-> text, generation |-> generation, project |-> project,
                     bucket |-> bucket, token |-> previous.token]
  <1>1. /\ previous \in OpenDocument
        /\ previous.token \in Tokens
        /\ previous.bucket \in Buckets
        /\ previous.generation = latestGeneration[u]
    BY DEF CommitChange, OpenInv, StoreTypeOK, OpenDocument, IsOpen
  <1>2. generation \in Generation /\ bucket \in Buckets
    BY <1>1, BucketType, GenerationAssumption
    DEF CommitChange, NextGeneration, CanAdvance, Generation, OpenDocument
  <1>3. doc \in OpenDocument
    BY <1>1, <1>2, BucketType DEF OpenDocument
  <1>4. documents' = [documents EXCEPT ![u] = doc]
    BY DEF CommitChange, NextGeneration
  <1>5. IsOpen(u)'
    BY <1>3, <1>4, ClosedAssumption DEF IsOpen, StoreTypeOK
  <1>6. bucketGenerations' \in [Buckets -> Generation]
    BY <1>1, <1>2, GenerationAssumption
    DEF CommitChange, NextGeneration, BumpBucket, CanBump, CanAdvance, StoreTypeOK, Generation
  <1>7. StoreTypeOK'
    BY <1>1, <1>2, <1>3, <1>4, <1>6 DEF StoreTypeOK, CommitChange, NextGeneration
  <1>8. OpenInv'
    BY <1>1, <1>2, <1>3, <1>4
    DEF OpenInv, StoreTypeOK, OpenDocument, IsOpen, CommitChange, NextGeneration, Tokens, Generation
  <1>9. Committed(u)
    BY <1>1, <1>2, <1>3, <1>4
    DEF Committed, OpenInv, StoreTypeOK, IsOpen, CommitChange, NextGeneration, BumpBucket, Tokens, Generation
  <1> QED BY <1>5, <1>7, <1>8, <1>9

(* close keeps the types and the token invariant, and is a commit.         *)
LEMMA CloseCommits ==
    ASSUME NEW u \in Uris, StoreTypeOK, OpenInv, Close(u)
    PROVE  StoreTypeOK' /\ OpenInv' /\ Committed(u)
  <1> DEFINE previous == documents[u]
  <1>1. /\ previous \in OpenDocument
        /\ previous.token \in Tokens
        /\ previous.bucket \in Buckets
        /\ previous.generation = latestGeneration[u]
    BY DEF Close, OpenInv, StoreTypeOK, OpenDocument, IsOpen
  <1>2. previous.generation + 1 \in Generation
    BY <1>1, GenerationAssumption DEF Close, CanAdvance, Generation, OpenDocument
  <1>3. bucketGenerations' \in [Buckets -> Generation]
    BY <1>1, GenerationAssumption
    DEF Close, NextGeneration, BumpBucket, CanBump, CanAdvance, StoreTypeOK, Generation
  <1>4. StoreTypeOK'
    BY <1>1, <1>2, <1>3 DEF StoreTypeOK, Close, NextGeneration
  <1>5. OpenInv'
    BY <1>1, <1>2 DEF OpenInv, StoreTypeOK, OpenDocument, IsOpen, Close, NextGeneration, Tokens, Generation
  <1>6. Committed(u)
    BY <1>1, <1>2
    DEF Committed, OpenInv, StoreTypeOK, IsOpen, Close, NextGeneration, BumpBucket, Tokens, Generation
  <1> QED BY <1>4, <1>5, <1>6

-----------------------------------------------------------------------------
(* A commit for u leaves the open buffers of every bucket that u neither   *)
(* left nor entered as they were.                                          *)
LEMMA OverlaysUnchanged ==
    ASSUME NEW u \in Uris, NEW b \in Buckets, Committed(u),
           IsOpen(u) => documents[u].bucket # b,
           IsOpen(u)' => documents'[u].bucket # b
    PROVE  OpenOverlays(b)' = OpenOverlays(b)
  <1> DEFINE Eligible == {v \in PathUris : /\ IsOpen(v)
                                           /\ documents[v].bucket = b
                                           /\ documents[v].project # NoProject => v \in SourceUris}
  <1>1. \A v \in PathUris : v # u => documents'[v] = documents[v]
    BY UrisAssumption DEF Committed
  <1>2. Eligible' = Eligible
    BY <1>1 DEF IsOpen
  <1>3. \A v \in Eligible : documents'[v] = documents[v]
    BY <1>1 DEF IsOpen
  <1> QED BY <1>2, <1>3 DEF OpenOverlays, IsOpen

(* The heart of the argument: a commit for u preserves freshness of every  *)
(* snapshot taken before it.  A snapshot whose key is still current after  *)
(* the commit is in a bucket u neither left nor entered.                   *)
LEMMA CommitKeepsFreshness ==
    ASSUME NEW u \in Uris, IInv, StoreTypeOK', Committed(u), NEW s \in snapshots
    PROVE  NotAhead(s)' /\ FreshIfCurrent(s)'
  <1> DEFINE b == s.packageKey.bucket
  <1> USE DEF IInv, SnapshotsOK
  <1>1. /\ s.uri \in Uris /\ s.token \in Tokens /\ b \in Buckets
        /\ s.generation \in Int /\ s.packageKey.generation \in Int /\ s.token[2] \in Int
        /\ s.packageKey \in PackageAnalysisKey
    BY DEF DocumentSnapshot, PackageAnalysisKey, Tokens, Generation
  <1>2. /\ \A v \in Uris : latestGeneration[v] \in Int /\ latestGeneration'[v] \in Int
        /\ \A t \in Tokens : cancelToken[t] \in Int /\ cancelToken'[t] \in Int
        /\ \A c \in Buckets : bucketGenerations[c] \in Int /\ bucketGenerations'[c] \in Int
    BY DEF StoreTypeOK, Generation
  <1>3. NotAhead(s)'
    BY <1>1, <1>2 DEF NotAhead, Committed
  <1>4. ASSUME s.packageKey = PackageKeyForBucket(b)'
        PROVE  /\ IsOpen(s.uri)'
               /\ documents'[s.uri].bucket = b
               /\ documents'[s.uri].generation = s.generation
               /\ documents'[s.uri].text = s.text
               /\ OpenOverlays(b)' = s.overlays
               /\ ~IsCancelled(s)'
    <2>1. bucketGenerations'[b] = s.packageKey.generation
      BY <1>4, <1>1 DEF PackageKeyForBucket, PackageAnalysisKey
    <2>2. bucketGenerations[b] = s.packageKey.generation
      BY <2>1, <1>1, <1>2 DEF NotAhead, Committed
    <2>3. /\ IsOpen(u) => documents[u].bucket # b
          /\ IsOpen(u)' => documents'[u].bucket # b
      BY <2>1, <2>2, <1>1, <1>2 DEF Committed
    <2>4. s.packageKey = PackageKeyForBucket(b)
      BY <2>2, <1>1 DEF PackageKeyForBucket, PackageAnalysisKey
    <2>5. /\ IsOpen(s.uri)
          /\ documents[s.uri].bucket = b
          /\ documents[s.uri].generation = s.generation
          /\ documents[s.uri].text = s.text
          /\ OpenOverlays(b) = s.overlays
          /\ ~IsCancelled(s)
      BY <2>4 DEF FreshIfCurrent
    <2>6. s.uri # u
      BY <2>3, <2>5
    <2>7. documents'[s.uri] = documents[s.uri] /\ cancelToken'[s.token] = cancelToken[s.token]
      BY <2>6, <1>1 DEF Committed, NotAhead
    <2>8. OpenOverlays(b)' = OpenOverlays(b)
      BY <2>3, <1>1, OverlaysUnchanged
    <2> QED BY <2>5, <2>7, <2>8 DEF IsOpen, IsCancelled
  <1> QED BY <1>3, <1>4 DEF FreshIfCurrent

(* The snapshot of an open document has the type of a snapshot.            *)
LEMMA SnapshotType ==
    ASSUME StoreTypeOK, NEW u \in Uris, IsOpen(u)
    PROVE  /\ Snapshot(u) \in DocumentSnapshot
           /\ documents[u] \in OpenDocument
  <1>1. documents[u] \in OpenDocument
    BY DEF StoreTypeOK, IsOpen
  <1>2. PackageKey(u) \in PackageAnalysisKey
    BY <1>1 DEF PackageKey, PackageKeyForBucket, PackageAnalysisKey, OpenDocument, StoreTypeOK
  <1>3. \A b : OpenOverlays(b) \in SUBSET (Uris \X Texts)
    BY UrisAssumption DEF OpenOverlays, StoreTypeOK, OpenDocument, IsOpen
  <1> QED BY <1>1, <1>2, <1>3 DEF Snapshot, DocumentSnapshot, OpenDocument

(* Taking one more snapshot of an open document keeps the snapshots sound  *)
(* (commit_open, commit_change, snapshot_for_package_analysis).            *)
LEMMA AddSnapshot ==
    \A u \in Uris : \A S :
        StoreTypeOK /\ OpenInv /\ SnapshotsOK(S) /\ IsOpen(u)
            => SnapshotsOK(S \cup {Snapshot(u)})
  <1> SUFFICES ASSUME NEW u \in Uris, NEW S, StoreTypeOK, OpenInv, SnapshotsOK(S), IsOpen(u)
               PROVE  SnapshotsOK(S \cup {Snapshot(u)})
    OBVIOUS
  <1> DEFINE new == Snapshot(u)
  <1>1. new \in DocumentSnapshot /\ documents[u] \in OpenDocument
    BY SnapshotType
  <1>2. NotAhead(new)
    BY <1>1 DEF NotAhead, OpenInv, Snapshot, PackageKey, PackageKeyForBucket, StoreTypeOK,
                OpenDocument, Generation
  <1>3. FreshIfCurrent(new)
    BY <1>1 DEF FreshIfCurrent, OpenInv, Snapshot, PackageKey, PackageKeyForBucket, IsCancelled
  <1>4. \A s \in S \cup {new} : SameInputs(s, new) /\ SameInputs(new, s)
    <2>1. new.packageKey = PackageKeyForBucket(new.packageKey.bucket)
      BY DEF Snapshot, PackageKey, PackageKeyForBucket
    <2>2. \A s \in S \cup {new} : s.packageKey = new.packageKey =>
              s.overlays = new.overlays /\ (s.uri = new.uri => s.text = new.text)
      BY <1>3, <2>1 DEF SnapshotsOK, FreshIfCurrent
    <2>3. \A s, t : ViewKeyOf(s) = ViewKeyOf(t) => s.uri = t.uri /\ s.packageKey = t.packageKey
      BY DEF ViewKeyOf
    <2> QED BY <2>2, <2>3 DEF SameInputs
  <1> QED BY <1>1, <1>2, <1>3, <1>4 DEF SnapshotsOK

-----------------------------------------------------------------------------
(* Every step of the store preserves the inductive invariant.              *)
LEMMA StepPreservesIInv ==
    IInv /\ [Next]_vars => IInv'
  <1> SUFFICES ASSUME IInv, [Next]_vars
               PROVE  IInv'
    OBVIOUS
  <1>1. (\A u \in Uris : \A S :
            StoreTypeOK /\ OpenInv /\ SnapshotsOK(S) /\ IsOpen(u)
                => SnapshotsOK(S \cup {Snapshot(u)}))'
    BY AddSnapshot, PTL
  <1>2. PICK S : S = snapshots
    OBVIOUS
  <1>3. ASSUME NEW u \in Uris, StoreTypeOK', Committed(u)
        PROVE  SnapshotsOK(S)'
    BY <1>2, <1>3, CommitKeepsFreshness DEF SnapshotsOK, IInv, SameInputs, ViewKeyOf
  <1>4. ASSUME NEW u \in Uris, StoreTypeOK', OpenInv', Committed(u), IsOpen(u)',
               snapshots' = snapshots \cup {Snapshot(u)'}
        PROVE  IInv'
    BY <1>1, <1>2, <1>3, <1>4 DEF IInv
  <1>5. ASSUME NEW u \in Uris, DidOpen(u)
        PROVE  IInv'
    <2>1. PICK project \in ResolvedProjects(u), text \in Texts :
              CommitOpen(u, project, text) /\ snapshots' = snapshots \cup {Snapshot(u)'}
      BY <1>5 DEF DidOpen
    <2> QED BY <2>1, <1>4, OpenCommits DEF IInv
  <1>6. ASSUME NEW u \in Uris, DidChange(u)
        PROVE  IInv'
    <2>1. PICK project \in ResolvedProjects(u), text \in Texts :
              CommitChange(u, project, text) /\ snapshots' = snapshots \cup {Snapshot(u)'}
      BY <1>6 DEF DidChange
    <2> QED BY <2>1, <1>4, ChangeCommits DEF IInv
  <1>7. ASSUME NEW u \in Uris, DidClose(u)
        PROVE  IInv'
    <2>1. StoreTypeOK' /\ OpenInv' /\ Committed(u) /\ snapshots' = S
      BY <1>2, <1>7, CloseCommits DEF IInv, DidClose
    <2> QED BY <2>1, <1>3 DEF IInv
  <1>8. ASSUME UNCHANGED storeVars
        PROVE  /\ StoreTypeOK' /\ OpenInv' /\ SnapshotsOK(S)'
               /\ \A u \in Uris : IsOpen(u)' <=> IsOpen(u)
    BY <1>2, <1>8 DEF IInv, storeVars, StoreTypeOK, OpenInv, SnapshotsOK, NotAhead, FreshIfCurrent,
                      SameInputs, ViewKeyOf, IsOpen, PackageKeyForBucket, OpenOverlays, IsCancelled
  <1>9. ASSUME NEW u \in Uris, SnapshotForPackageAnalysis(u)
        PROVE  IInv'
    <2>1. Snapshot(u)' = Snapshot(u)
      BY <1>9 DEF SnapshotForPackageAnalysis, storeVars, Snapshot, PackageKey,
                  PackageKeyForBucket, OpenOverlays, IsOpen
    <2>2. snapshots' = S \cup {Snapshot(u)'}
      BY <1>2, <1>9, <2>1 DEF SnapshotForPackageAnalysis
    <2> QED BY <1>1, <1>8, <1>9, <2>2 DEF IInv, SnapshotForPackageAnalysis
  <1>10. CASE UNCHANGED vars
    <2>1. UNCHANGED storeVars /\ snapshots' = S
      BY <1>2, <1>10 DEF vars, storeVars
    <2> QED BY <2>1, <1>8 DEF IInv
  <1> QED BY <1>5, <1>6, <1>7, <1>9, <1>10 DEF Next

(* The initial store satisfies the inductive invariant.                    *)
LEMMA InitIInv == Init => IInv
  BY GenerationAssumption
  DEF Init, StoreInit, IInv, StoreTypeOK, OpenInv, SnapshotsOK, IsOpen, Generation

(* The inductive invariant holds in every reachable state.                 *)
LEMMA Invariance == Spec => []IInv
  BY InitIInv, StepPreservesIInv, PTL DEF Spec

(* Every reachable state of the store is well typed.                       *)
THEOREM TypeCorrect == Spec => []TypeOK
  <1>1. IInv => TypeOK
    BY DEF IInv, StoreTypeOK, SnapshotsOK, TypeOK
  <1> QED BY <1>1, Invariance, PTL

(* A package key that is still current stands for the inputs analysed,     *)
(* whatever sequence of opens, changes, moves and closes came before.      *)
THEOREM CurrentKeysAreFresh == Spec => []CurrentKeyMeansCurrentInputs
  <1>1. IInv => CurrentKeyMeansCurrentInputs
    BY DEF IInv, SnapshotsOK, FreshIfCurrent, CurrentKeyMeansCurrentInputs
  <1> QED BY <1>1, Invariance, PTL

(* No freshness key is ever reused for different inputs.                   *)
THEOREM KeysAreNeverReused == Spec => []KeysDetermineInputs
  <1>1. IInv => KeysDetermineInputs
    BY DEF IInv, SnapshotsOK, SameInputs, KeysDetermineInputs
  <1> QED BY <1>1, Invariance, PTL

(* A cancelled snapshot is never revived: cancel tokens in use only grow,  *)
(* and they never hold less than the generation of a snapshot.             *)
THEOREM CancelledStaysCancelled == Spec => CancellationIsPermanent
  <1> DEFINE Permanent == \A s \in snapshots : IsCancelled(s) => IsCancelled(s)'
  <1>1. IInv /\ [Next]_vars => [Permanent]_vars
    <2> SUFFICES ASSUME IInv, Next, NEW s \in snapshots, IsCancelled(s)
                 PROVE  IsCancelled(s)'
      OBVIOUS
    <2> USE DEF IInv
    <2>1. IInv'
      BY StepPreservesIInv
    <2>2. /\ s.uri \in Uris /\ s.token \in Tokens /\ s.generation \in Int
          /\ NotAhead(s)
          /\ cancelToken[s.token] \in Int /\ cancelToken'[s.token] \in Int
      BY <2>1 DEF SnapshotsOK, DocumentSnapshot, StoreTypeOK, Generation
    <2>3. ASSUME NEW u \in Uris, Committed(u)
          PROVE  IsCancelled(s)'
      BY <2>2, <2>3 DEF Committed, NotAhead, IsCancelled
    <2>4. ASSUME NEW u \in Uris, DidOpen(u)
          PROVE  IsCancelled(s)'
      BY <2>3, <2>4, OpenCommits DEF DidOpen
    <2>5. ASSUME NEW u \in Uris, DidChange(u)
          PROVE  IsCancelled(s)'
      BY <2>3, <2>5, ChangeCommits DEF DidChange
    <2>6. ASSUME NEW u \in Uris, DidClose(u)
          PROVE  IsCancelled(s)'
      BY <2>3, <2>6, CloseCommits DEF DidClose
    <2>7. ASSUME NEW u \in Uris, SnapshotForPackageAnalysis(u)
          PROVE  IsCancelled(s)'
      BY <2>7 DEF SnapshotForPackageAnalysis, storeVars, IsCancelled
    <2> QED BY <2>4, <2>5, <2>6, <2>7 DEF Next
  <1> QED BY <1>1, Invariance, PTL DEF Spec, CancellationIsPermanent
=============================================================================
