---------------------------- MODULE DocumentStore ----------------------------
(***************************************************************************)
(* The open-document store of leo-lsp (crates/lsp/src/document_store.rs).  *)
(*                                                                         *)
(* The store decides which analysis results are fresh.  It does so with    *)
(* three counters: a generation per URI (kept across close and reopen), a  *)
(* generation per analysis bucket, and a cancel token per open, which the  *)
(* routing thread writes and worker threads read.  Every snapshot handed   *)
(* to a worker carries a package key and a token; the rest of the server   *)
(* compares keys and tokens only, never texts.                             *)
(***************************************************************************)
EXTENDS Integers

CONSTANTS
    Uris,           \* document URIs the client may open
    PathUris,       \* the URIs that resolve to a local file path
    SourceUris,     \* the file URIs below the src/ directory of their package
    Packages,       \* canonical package roots project discovery may answer
    Texts,          \* document texts
    MaxGeneration,  \* largest generation; u64::MAX in the code
    NoProject,      \* "no package owns this document"
    Closed          \* "this URI is not open"

ASSUME UrisAssumption ==
    /\ SourceUris \subseteq PathUris
    /\ PathUris \subseteq Uris
    /\ Uris \cap Packages = {}
    /\ NoProject \notin Packages
ASSUME GenerationAssumption == MaxGeneration \in Nat

VARIABLES
    documents,          \* URI -> committed document, or Closed
    latestGeneration,   \* URI -> last generation committed, kept after close
    bucketGenerations,  \* bucket -> generation of its open-buffer inputs
    cancelToken         \* token -> generation stored in it, 0 if not allocated

storeVars == <<documents, latestGeneration, bucketGenerations, cancelToken>>

Generation == 0 .. MaxGeneration

(* A managed document's bucket is its package root; an unmanaged one has a *)
(* bucket of its own, named by its URI.                                    *)
Buckets == Packages \cup Uris
AnalysisBucketFor(u, project) == IF project = NoProject THEN u ELSE project

(* A token is an Arc<AtomicU64> allocated by prepare_open.  Generations    *)
(* are never reused, so the URI and the generation of that open name it.   *)
Tokens == Uris \X Generation

OpenDocument ==
    [text : Texts, generation : Generation, project : Packages \cup {NoProject},
     bucket : Buckets, token : Tokens]
PackageAnalysisKey == [bucket : Buckets, generation : Generation]
DocumentSnapshot ==
    [uri : Uris, text : Texts, generation : Generation,
     packageKey : PackageAnalysisKey, overlays : SUBSET (Uris \X Texts),
     token : Tokens]

ASSUME ClosedAssumption == Closed \notin OpenDocument

IsOpen(u) == documents[u] # Closed

-----------------------------------------------------------------------------
(* Reading the store *)

PackageKeyForBucket(b) == [bucket |-> b, generation |-> bucketGenerations[b]]

PackageKey(u) == PackageKeyForBucket(documents[u].bucket)

DocumentViewKey(u) ==
    [uri |-> u, generation |-> documents[u].generation, package |-> PackageKey(u)]

OpenBuckets == {documents[u].bucket : u \in {v \in Uris : IsOpen(v)}}

(* The buffers compiler analysis of bucket b reads instead of the disk.    *)
(* Files of a managed package outside its src/ share the bucket, but are   *)
(* not offered to the compiler.                                            *)
OpenOverlays(b) ==
    {<<u, documents[u].text>> :
        u \in {v \in PathUris : /\ IsOpen(v)
                                /\ documents[v].bucket = b
                                /\ documents[v].project # NoProject => v \in SourceUris}}

Snapshot(u) ==
    [uri |-> u, text |-> documents[u].text, generation |-> documents[u].generation,
     packageKey |-> PackageKey(u), overlays |-> OpenOverlays(documents[u].bucket),
     token |-> documents[u].token]

(* The view key a snapshot carries. *)
ViewKeyOf(s) == [uri |-> s.uri, generation |-> s.generation, package |-> s.packageKey]

IsCancelled(s) == cancelToken[s.token] # s.generation

-----------------------------------------------------------------------------
(* Committing mutations.  next_generation panics rather than wrap, so no   *)
(* commit happens past MaxGeneration.                                      *)

(* Mutant: plain addition instead of checked_add.                          *)
CanAdvanceUnchecked(g) == TRUE

CanAdvance(g) == g < MaxGeneration
CanBump(b) == CanAdvance(bucketGenerations[b] + 1)

(* Mutant: a counter two bits wide that wraps.                             *)
NextGenerationWrapping(g) == IF g = 2 THEN 1 ELSE g + 1

NextGeneration(g) == g + 1

BumpBucket(gens, b) == [gens EXCEPT ![b] = NextGeneration(@)]

(* prepare_open and commit_open: a fresh token; a document that is already *)
(* open under this URI is superseded first.                                *)
CommitOpen(u, project, text) ==
    LET previous == documents[u]
        generation == NextGeneration(latestGeneration[u])
        token == <<u, generation>>
        bucket == AnalysisBucketFor(u, project)
    IN  /\ CanAdvance(generation)
        /\ CanBump(bucket)
        /\ IsOpen(u) => CanBump(previous.bucket)
        /\ documents' = [documents EXCEPT ![u] =
                [text |-> text, generation |-> generation, project |-> project,
                 bucket |-> bucket, token |-> token]]
        /\ cancelToken' =
             IF IsOpen(u)
             THEN [cancelToken EXCEPT ![token] = generation,
                                      ![previous.token] = NextGeneration(previous.generation)]
             ELSE [cancelToken EXCEPT ![token] = generation]
        /\ bucketGenerations' =
             BumpBucket(IF IsOpen(u) THEN BumpBucket(bucketGenerations, previous.bucket)
                                     ELSE bucketGenerations,
                        bucket)
        /\ latestGeneration' = [latestGeneration EXCEPT ![u] = generation]

(* Mutant: a document that changes package bumps only the bucket it left.  *)
CommitChangeLeavingOnly(u, project, text) ==
    LET previous == documents[u]
        generation == NextGeneration(previous.generation)
        bucket == AnalysisBucketFor(u, project)
    IN  /\ IsOpen(u)
        /\ CanAdvance(generation)
        /\ CanBump(previous.bucket)
        /\ documents' = [documents EXCEPT ![u] =
                [text |-> text, generation |-> generation, project |-> project,
                 bucket |-> bucket, token |-> previous.token]]
        /\ cancelToken' = [cancelToken EXCEPT ![previous.token] = generation]
        /\ bucketGenerations' = BumpBucket(bucketGenerations, previous.bucket)
        /\ latestGeneration' = [latestGeneration EXCEPT ![u] = generation]

(* prepare_full_change and commit_change: the token is kept and advanced,  *)
(* and the document may have moved to another bucket.                      *)
CommitChange(u, project, text) ==
    LET previous == documents[u]
        generation == NextGeneration(previous.generation)
        bucket == AnalysisBucketFor(u, project)
    IN  /\ IsOpen(u)
        /\ CanAdvance(generation)
        /\ CanBump(bucket)
        /\ CanBump(previous.bucket)
        /\ documents' = [documents EXCEPT ![u] =
                [text |-> text, generation |-> generation, project |-> project,
                 bucket |-> bucket, token |-> previous.token]]
        /\ cancelToken' = [cancelToken EXCEPT ![previous.token] = generation]
        /\ bucketGenerations' =
             BumpBucket(IF previous.bucket # bucket
                        THEN BumpBucket(bucketGenerations, previous.bucket)
                        ELSE bucketGenerations,
                        bucket)
        /\ latestGeneration' = [latestGeneration EXCEPT ![u] = generation]

(* Mutant: closing a document does not advance its bucket.                 *)
CloseWithoutBump(u) ==
    /\ IsOpen(u)
    /\ documents' = [documents EXCEPT ![u] = Closed]
    /\ cancelToken' =
         [cancelToken EXCEPT ![documents[u].token] = NextGeneration(documents[u].generation)]
    /\ UNCHANGED <<latestGeneration, bucketGenerations>>

Close(u) ==
    LET previous == documents[u]
    IN  /\ IsOpen(u)
        /\ CanAdvance(previous.generation)
        /\ CanBump(previous.bucket)
        /\ documents' = [documents EXCEPT ![u] = Closed]
        /\ cancelToken' = [cancelToken EXCEPT ![previous.token] = NextGeneration(previous.generation)]
        /\ bucketGenerations' = BumpBucket(bucketGenerations, previous.bucket)
        /\ UNCHANGED latestGeneration

-----------------------------------------------------------------------------
StoreInit ==
    /\ documents = [u \in Uris |-> Closed]
    /\ latestGeneration = [u \in Uris |-> 0]
    /\ bucketGenerations = [b \in Buckets |-> 0]
    /\ cancelToken = [t \in Tokens |-> 0]

(* The owners project discovery may find for a document, at any time: a    *)
(* manifest can appear, move or vanish while the document is open.         *)
ResolvedProjects(u) == IF u \in PathUris THEN Packages \cup {NoProject} ELSE {NoProject}
=============================================================================
