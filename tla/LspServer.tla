------------------------------- MODULE LspServer -------------------------------
(***************************************************************************)
(* The language server (crates/lsp/src/server.rs) with its analysis worker *)
(* (scheduler.rs) and response pool (response_pool.rs).                    *)
(*                                                                         *)
(* The routing thread runs one handler at a time, so each handler is one   *)
(* action.  The worker and the pool run beside it: they read cancel tokens *)
(* and flags, and send events and completions the routing thread handles   *)
(* later, in any order relative to the client's messages.                  *)
(*                                                                         *)
(* A request answered inside its own handler (document not open, no file   *)
(* path, position out of range, cached result, known failure, queue full)  *)
(* leaves the server as it was, so only requests that wait are steps here. *)
(* Scheduler looks into the wake channel and the shutdown this module      *)
(* leaves out.                                                             *)
(***************************************************************************)
EXTENDS DocumentStore, WorkQueues, AnalysisCaches, PendingRequests, DiagnosticState

CONSTANTS
    Ids,            \* JSON-RPC request ids; an answered id may be used again
    Queries,        \* what a request asks for: positions, new names
    Flags,          \* identities of cancel flags (addresses of Arc<AtomicBool>)
    NoFlag,         \* the kinds without a cancel flag
    NoJob,          \* the worker is idle
    Kinds,          \* request kinds the client sends
    ClientSaves,    \* whether the client saves and sends malformed changes
    ClientReopens,  \* whether the client opens a document that is open already
    MaxBumps,       \* bound: bucket generations handed out in one behaviour
    ResponseWorkers,        \* RESPONSE_WORKERS, 2 in the code
    MaxPendingPackageJobs,  \* MAX_PENDING_PACKAGE_JOBS, 16 in the code
    MaxPendingViewJobs      \* MAX_PENDING_VIEW_JOBS, 64 in the code

ASSUME ServerAssumption ==
    /\ Kinds \subseteq RequestKinds
    /\ ResponseWorkers \in Nat \ {0}
    /\ MaxPendingPackageJobs \in Nat \ {0}
    /\ MaxPendingViewJobs \in Nat \ {0}
    /\ NoFlag \notin Flags

VARIABLES
    caches,         \* AnalysisCaches
    pending,        \* the waiters of all five request kinds
    diagnostics,    \* DiagnosticPublishState, and what the client shows
    packageQueue,   \* package jobs waiting for the worker
    viewQueue,      \* view jobs waiting for the worker
    running,        \* the job the worker runs, or NoJob
    events,         \* worker events not yet handled
    poolJobs,       \* response jobs not yet completed, in submission order
    completions,    \* response completions not yet handled
    flipped         \* the cancel flags that are set

serverVars == <<caches, pending, diagnostics>>
workerVars == <<packageQueue, viewQueue, running, events>>
poolVars == <<poolJobs, completions, flipped>>
vars == <<documents, latestGeneration, bucketGenerations, cancelToken,
          caches, pending, diagnostics, packageQueue, viewQueue, running, events,
          poolJobs, completions, flipped>>

Init ==
    /\ StoreInit
    /\ caches = EmptyCaches
    /\ pending = {}
    /\ diagnostics = NoDiagnostics(Buckets, Uris)
    /\ packageQueue = <<>>
    /\ viewQueue = <<>>
    /\ running = NoJob
    /\ events = <<>>
    /\ poolJobs = <<>>
    /\ completions = <<>>
    /\ flipped = {}

-----------------------------------------------------------------------------
(* Jobs and events *)

(* The snapshots handed to the worker.  Package jobs coalesce by bucket,   *)
(* view jobs by view key.                                                  *)
PackageJob(u) ==
    [kind |-> "package", key |-> documents[u].bucket, view |-> DocumentViewKey(u),
     token |-> documents[u].token]
ViewJob(u) ==
    [kind |-> "view", key |-> DocumentViewKey(u), view |-> DocumentViewKey(u),
     token |-> documents[u].token]

JobCancelled(job) == cancelToken[job.token] # job.view.generation

Event(job, outcome) == [job |-> job, outcome |-> outcome]
Cancellations(jobs) == SetToSeq({Event(j, "cancelled") : j \in jobs})

(* The document and package a job was made for are still the current ones. *)
ViewIsCurrent(view) == IsOpen(view.uri) /\ DocumentViewKey(view.uri) = view

(* A response job carries the request, the package key and the flag.       *)
ResponseJob(w) ==
    [id |-> w.id, kind |-> w.kind, query |-> w.query, package |-> w.view.package,
     cancel |-> w.cancel]

(* The orders in which the jobs of waiters may be submitted.               *)
ResponseJobs(waiters) == SetToSeqs({ResponseJob(w) : w \in waiters})

(* scheduler.enqueue_package in the step that makes job the newest one.    *)
EnqueuePackage(job) ==
    /\ packageQueue' = Queue(packageQueue, MaxPendingPackageJobs, job)
    /\ events' = events \o Cancellations(DroppedBy(packageQueue, MaxPendingPackageJobs, job))

(* scheduler.enqueue_document_view for each of a sequence of jobs.         *)
WithViewJobs(work, jobs) ==
    FoldLeft(LAMBDA w, job :
               [queue |-> Queue(w.queue, MaxPendingViewJobs, job),
                events |-> w.events \o Cancellations(DroppedBy(w.queue, MaxPendingViewJobs, job))],
             work, jobs)

-----------------------------------------------------------------------------
(* Answering.  A waiter leaves pending exactly when its reply is sent.     *)

(* cancel_drained: answer the drained waiters and flip their flags.        *)
Answer(drained) ==
    /\ pending' = pending \ drained
    /\ flipped' = flipped \cup FlagsOf(drained)

(* invalidate_bucket_for_new_snapshot, set_open_buckets and the enqueue of *)
(* the committed snapshot, shared by didOpen and didChange.                *)
InvalidateAndAnalyze(u, buckets, diags) ==
    LET job == PackageJob(u)'
    IN  /\ caches' = [InvalidateBuckets(caches, buckets)
                        EXCEPT !.inFlightPackages = @ \cup {job.view.package}]
        /\ Answer(DrainBuckets(pending, buckets))
        /\ diagnostics' = ForgetPending(diags, buckets)
        /\ EnqueuePackage(job)
        /\ UNCHANGED <<viewQueue, running, poolJobs, completions>>

(* The bound on edits; the code has none below MaxGeneration.              *)
WithinBumps == MapThenSumSet(LAMBDA b : bucketGenerations[b], Buckets) <= MaxBumps

(* The bucket u is in before and after a commit; at most two.              *)
AffectedBuckets(u, project) ==
    {AnalysisBucketFor(u, project)} \cup (IF IsOpen(u) THEN {documents[u].bucket} ELSE {})

-----------------------------------------------------------------------------
(* Client notifications *)

HandleDidOpen(u) ==
    \E project \in ResolvedProjects(u), text \in Texts :
        /\ IsOpen(u) => ClientReopens
        /\ CommitOpen(u, project, text)
        /\ WithinBumps'
        /\ InvalidateAndAnalyze(u, AffectedBuckets(u, project), diagnostics)

(* Mutant: only the bucket the document enters is invalidated.             *)
HandleDidChangeEnteringOnly(u) ==
    \E project \in ResolvedProjects(u), text \in Texts :
        /\ CommitChange(u, project, text)
        /\ WithinBumps'
        /\ InvalidateAndAnalyze(u, {AnalysisBucketFor(u, project)},
             ClearForDidChange(MarkTrusted(diagnostics, u), {AnalysisBucketFor(u, project)}))

HandleDidChange(u) ==
    \E project \in ResolvedProjects(u), text \in Texts :
        /\ CommitChange(u, project, text)
        /\ WithinBumps'
        /\ InvalidateAndAnalyze(u, AffectedBuckets(u, project),
             ClearForDidChange(MarkTrusted(diagnostics, u), AffectedBuckets(u, project)))

(* A payload that is not one full text: nothing is committed.              *)
HandleMalformedChange(u) ==
    /\ ClientSaves
    /\ IsOpen(u)
    /\ diagnostics' = MarkUntrusted(ClearForDidChange(diagnostics, {documents[u].bucket}), u)
    /\ UNCHANGED <<storeVars, caches, pending, workerVars, poolVars>>

HandleDidClose(u) ==
    LET b == documents[u].bucket
    IN  /\ Close(u)
        /\ WithinBumps'
        /\ caches' = InvalidateBuckets(caches, {b})
        /\ Answer(DrainUri(pending, u) \cup DrainBuckets(pending, {b}))
        /\ diagnostics' = ForgetPending(ClearForDidClose(diagnostics, u), {b})
        /\ UNCHANGED <<workerVars, poolJobs, completions>>

HandleCancelRequest(id) ==
    /\ \E w \in pending : w.id = id
    /\ Answer({w \in pending : w.id = id})
    /\ UNCHANGED <<storeVars, caches, diagnostics, workerVars, poolJobs, completions>>

(* Which files have errors is data: any open, trusted document of the      *)
(* package may receive diagnostics, and so may the saved one.              *)
PublishTargets(key, trigger) ==
    {u \in PathUris : IsOpen(u) /\ PackageKey(u) = key /\ u \notin diagnostics.untrusted}
    \cup {trigger}
Generations == [u \in Uris |-> IF IsOpen(u) THEN documents[u].generation ELSE 0]

(* Every open document of the bucket still has this package key.           *)
PackageFreshnessOk(key) ==
    LET siblings == {u \in Uris : IsOpen(u) /\ documents[u].bucket = key.bucket}
    IN  siblings # {} /\ \A u \in siblings : PackageKey(u) = key

(* ensure_package_analysis *)
EnsurePackageAnalysis(u) ==
    IF PackageKey(u) \in caches.inFlightPackages \/ HasPackage(caches, PackageKey(u))
    THEN UNCHANGED <<caches, packageQueue, events>>
    ELSE /\ caches' = [caches EXCEPT !.inFlightPackages = @ \cup {PackageKey(u)}]
         /\ EnqueuePackage(PackageJob(u))

(* ensure_document_view *)
EnsureDocumentView(u) ==
    LET view == DocumentViewKey(u)
        work == WithViewJobs([queue |-> viewQueue, events |-> events], <<ViewJob(u)>>)
    IN  IF view \in caches.inFlightViews \/ HasView(caches, view)
        THEN UNCHANGED <<caches, viewQueue, events>>
        ELSE /\ caches' = [caches EXCEPT !.inFlightViews = @ \cup {view}]
             /\ viewQueue' = work.queue
             /\ events' = work.events

(* didSave: the outcomes of the handler.  A cached package that fails the  *)
(* freshness check would be dropped; CachesAreCurrent shows there is none. *)
SaveClears(u) ==
    /\ u \notin PathUris \/ u \in diagnostics.untrusted
    /\ diagnostics' = ClearUriOnly(diagnostics, documents[u].bucket, u)
    /\ UNCHANGED <<caches, packageQueue, events>>

SaveAfterFailure(u) ==
    /\ u \in PathUris \ diagnostics.untrusted
    /\ PackageKey(u) \in caches.failedPackages
    /\ diagnostics' = RemovePending(ClearBucket(diagnostics, documents[u].bucket), PackageKey(u))
    /\ UNCHANGED <<caches, packageQueue, events>>

SavePublishes(u) ==
    /\ u \in PathUris \ diagnostics.untrusted
    /\ PackageKey(u) \notin caches.failedPackages
    /\ HasPackage(caches, PackageKey(u))
    /\ PackageFreshnessOk(PackageKey(u))
    /\ \E targets \in SUBSET PublishTargets(PackageKey(u), u) :
         diagnostics' = Publish(RemovePending(diagnostics, PackageKey(u)),
                                documents[u].bucket, targets, Generations)
    /\ UNCHANGED <<caches, packageQueue, events>>

SaveWaits(u) ==
    /\ u \in PathUris \ diagnostics.untrusted
    /\ PackageKey(u) \notin caches.failedPackages
    /\ ~HasPackage(caches, PackageKey(u))
    /\ diagnostics' = AddPending(diagnostics, PackageKey(u), u)
    /\ EnsurePackageAnalysis(u)

HandleDidSave(u) ==
    /\ ClientSaves
    /\ IsOpen(u)
    /\ SaveClears(u) \/ SaveAfterFailure(u) \/ SavePublishes(u) \/ SaveWaits(u)
    /\ UNCHANGED <<storeVars, pending, viewQueue, running, poolVars>>

-----------------------------------------------------------------------------
(* Client requests that wait *)

(* The cancel flag of a new request is a fresh allocation: no waiter, job  *)
(* or completion still holds it.                                           *)
FlagsInUse ==
    FlagsOf(pending) \cup {j.cancel : j \in ToSet(poolJobs)} \cup {c.cancel : c \in ToSet(completions)}

Waiter(id, kind, query, u, flag, dispatched) ==
    [id |-> id, kind |-> kind, query |-> query, view |-> DocumentViewKey(u),
     cancel |-> flag, dispatched |-> dispatched]

(* handle_semantic_tokens_full, past the cached and the failed results.    *)
HandleSemanticTokensFull(id, u) ==
    LET view == DocumentViewKey(u)
    IN  /\ ~HasView(caches, view)
        /\ view \notin caches.failedViews
        /\ view.package \notin caches.failedPackages
        /\ \E query \in Queries :
             pending' = pending \cup {Waiter(id, "semanticTokens", query, u, NoFlag, FALSE)}
        /\ \/ /\ HasPackage(caches, view.package)
              /\ EnsureDocumentView(u)
              /\ UNCHANGED packageQueue
           \/ /\ ~HasPackage(caches, view.package)
              /\ EnsurePackageAnalysis(u)
              /\ UNCHANGED viewQueue
        /\ UNCHANGED <<poolJobs, flipped>>

(* A definition or prepare-rename request only waits when the package is   *)
(* not cached.                                                             *)
WaitForPackage(id, kind, u) ==
    /\ u \in PathUris
    /\ ~HasPackage(caches, PackageKey(u))
    /\ PackageKey(u) \notin caches.failedPackages
    /\ HasRoom(pending, kind, PackageKey(u))
    /\ \E query \in Queries : pending' = pending \cup {Waiter(id, kind, query, u, NoFlag, FALSE)}
    /\ EnsurePackageAnalysis(u)
    /\ UNCHANGED <<viewQueue, poolJobs, flipped>>

HandleGotoDefinition(id, u) == WaitForPackage(id, "definition", u)
HandlePrepareRename(id, u) == WaitForPackage(id, "prepareRename", u)

(* A references or rename request is dispatched at once when the package   *)
(* is cached, else it waits for it.                                        *)
AskPool(id, kind, u) ==
    /\ u \in PathUris
    /\ PackageKey(u) \notin caches.failedPackages
    /\ HasRoom(pending, kind, PackageKey(u))
    /\ \E query \in Queries, flag \in Flags \ FlagsInUse :
         LET cached == HasPackage(caches, PackageKey(u))
             waiter == Waiter(id, kind, query, u, flag, cached)
         IN  /\ pending' = pending \cup {waiter}
             /\ flipped' = flipped \ {flag}
             /\ IF cached
                THEN /\ poolJobs' = Append(poolJobs, ResponseJob(waiter))
                     /\ UNCHANGED <<caches, packageQueue, events>>
                ELSE /\ EnsurePackageAnalysis(u)
                     /\ UNCHANGED poolJobs
    /\ UNCHANGED viewQueue

HandleReferences(id, u) == AskPool(id, "references", u)
HandleRename(id, u) == AskPool(id, "rename", u)

HandleRequest(id, u) ==
    /\ \A w \in pending : w.id # id
    /\ IsOpen(u)
    /\ \/ "semanticTokens" \in Kinds /\ HandleSemanticTokensFull(id, u)
       \/ "definition" \in Kinds /\ HandleGotoDefinition(id, u)
       \/ "prepareRename" \in Kinds /\ HandlePrepareRename(id, u)
       \/ "references" \in Kinds /\ HandleReferences(id, u)
       \/ "rename" \in Kinds /\ HandleRename(id, u)
    /\ UNCHANGED <<storeVars, diagnostics, running, completions>>

-----------------------------------------------------------------------------
(* Worker events *)

(* publish_pending_diagnostics for a package just cached.                  *)
PublishPending(key) ==
    LET markers == {m \in diagnostics.pending : m.key = key}
        settled == RemovePending(diagnostics, key)
        publishes == {m \in markers : /\ m.trigger \notin diagnostics.untrusted
                                      /\ IsOpen(m.trigger)
                                      /\ PackageKey(m.trigger) = key
                                      /\ PackageFreshnessOk(key)}
    IN  IF publishes = {}
        THEN {settled}
        ELSE {Publish(settled, key.bucket, targets, Generations) :
                targets \in UNION {SUBSET PublishTargets(key, m.trigger) : m \in publishes}}

(* The waiters a cached package answers on the routing thread.             *)
AnsweredDefinitions(waiters, key) == DrainPackage(OfKind(waiters, {"definition"}), key)
AnsweredPrepareRenames(waiters, key) == DrainPackage(OfKind(waiters, {"prepareRename"}), key)

(* enqueue_pending_document_views_for_package: the views still to build.   *)
ViewsToBuild(c, waiters, key) ==
    {v \in KeysForPackage(waiters, key) : v \notin c.inFlightViews \cup c.views}

(* PackageAnalyzed for the current key: cache the package and the          *)
(* trigger's view, answer who waited for them, dispatch the pooled         *)
(* requests, start the other views, and publish last.                      *)
HandlePackageAnalyzed(job) ==
    LET key == job.view.package
        landed == [caches EXCEPT !.inFlightPackages = @ \ {key}]
        stored == StoreView(StorePackage(landed, key), job.view)
        evicted == Evicted(landed, key)
        drained == UNION {DrainPackage(pending, k) : k \in evicted}
        answered == TakeKey(pending, job.view)
                    \cup AnsweredDefinitions(pending, key)
                    \cup AnsweredPrepareRenames(pending, key)
        waiting == pending \ (drained \cup answered)
        started == ViewsToBuild(stored, waiting, key)
    IN  /\ ViewIsCurrent(job.view)
        /\ caches' = [stored EXCEPT !.inFlightViews = @ \cup started]
        /\ pending' = MarkUndispatched(waiting, key)
        /\ flipped' = flipped \cup FlagsOf(drained)
        /\ \E references \in ResponseJobs(Undispatched(waiting, "references", key)),
              renames \in ResponseJobs(Undispatched(waiting, "rename", key)) :
             poolJobs' = poolJobs \o references \o renames
        /\ \E jobs \in SetToSeqs({ViewJob(v.uri) : v \in started}) :
             LET work == WithViewJobs([queue |-> viewQueue, events |-> Tail(events)], jobs)
             IN  viewQueue' = work.queue /\ events' = work.events
        /\ \E d \in PublishPending(key) :
             diagnostics' = [d EXCEPT !.pending = {m \in @ : m.key \notin evicted}]

(* Mutants: the marker, the waiters or the pending save of a job that was  *)
(* dropped are kept.                                                       *)
DropPackageEventKeepingMarker(job) ==
    LET key == job.view.package
    IN  /\ Answer(DrainPackage(pending, key))
        /\ diagnostics' = RemovePending(diagnostics, key)
        /\ events' = Tail(events)
        /\ UNCHANGED <<caches, viewQueue, poolJobs>>

DropPackageEventKeepingWaiters(job) ==
    LET key == job.view.package
    IN  /\ caches' = [caches EXCEPT !.inFlightPackages = @ \ {key}]
        /\ diagnostics' = RemovePending(diagnostics, key)
        /\ events' = Tail(events)
        /\ UNCHANGED <<pending, flipped, viewQueue, poolJobs>>

DropPackageEventKeepingSave(job) ==
    LET key == job.view.package
    IN  /\ caches' = [caches EXCEPT !.inFlightPackages = @ \ {key}]
        /\ Answer(DrainPackage(pending, key))
        /\ events' = Tail(events)
        /\ UNCHANGED <<diagnostics, viewQueue, poolJobs>>

(* A package event that leaves nothing cached: the key was superseded, or  *)
(* its job was cancelled.                                                  *)
DropPackageEvent(job) ==
    LET key == job.view.package
    IN  /\ caches' = [caches EXCEPT !.inFlightPackages = @ \ {key}]
        /\ Answer(DrainPackage(pending, key))
        /\ diagnostics' = RemovePending(diagnostics, key)
        /\ events' = Tail(events)
        /\ UNCHANGED <<viewQueue, poolJobs>>

(* fail_pending_package_requests: the drains of a cancellation, answered   *)
(* with an internal error.                                                 *)
FailPackageRequests(key) == Answer(DrainPackage(pending, key))

(* PackagePanicked for the current key.                                    *)
HandlePackagePanicked(job) ==
    LET key == job.view.package
        landed == [caches EXCEPT !.inFlightPackages = @ \ {key}]
    IN  /\ ViewIsCurrent(job.view)
        /\ caches' = StoreFailedPackage(landed, key)
        /\ FailPackageRequests(key)
        /\ diagnostics' = ClearBucket(RemovePending(diagnostics, key), key.bucket)
        /\ events' = Tail(events)
        /\ UNCHANGED <<viewQueue, poolJobs>>

(* The three view events: cached, remembered as failed, or dropped.        *)
HandleViewEvent(job, outcome) ==
    LET landed == [caches EXCEPT !.inFlightViews = @ \ {job.view}]
        current == ViewIsCurrent(job.view)
    IN  /\ caches' = IF current /\ outcome = "completed" THEN StoreView(landed, job.view)
                     ELSE IF current /\ outcome = "panicked"
                          THEN [landed EXCEPT !.failedViews = @ \cup {job.view}]
                     ELSE landed
        /\ Answer(TakeKey(pending, job.view))
        /\ events' = Tail(events)
        /\ UNCHANGED <<viewQueue, poolJobs, diagnostics>>

HandleWorkerEvent ==
    /\ events # <<>>
    /\ LET job == Head(events).job
           outcome == Head(events).outcome
       IN  \/ job.kind = "package" /\ outcome = "completed" /\ HandlePackageAnalyzed(job)
           \/ job.kind = "package" /\ outcome = "panicked" /\ HandlePackagePanicked(job)
           \/ /\ job.kind = "package"
              /\ outcome = "cancelled" \/ ~ViewIsCurrent(job.view)
              /\ DropPackageEvent(job)
           \/ job.kind = "view" /\ HandleViewEvent(job, outcome)
    /\ UNCHANGED <<storeVars, packageQueue, running, completions>>

-----------------------------------------------------------------------------
(* The worker.  A job that is stale when it is taken is reported at once;  *)
(* one that becomes stale while it runs is caught by the second look,      *)
(* unless it panicked.                                                     *)

Start(job) ==
    IF JobCancelled(job)
    THEN events' = Append(events, Event(job, "cancelled")) /\ UNCHANGED running
    ELSE running' = job /\ UNCHANGED events

WorkerTakesJob ==
    /\ running = NoJob
    /\ \/ /\ packageQueue # <<>>
          /\ Start(Latest(packageQueue))
          /\ packageQueue' = WithoutLatest(packageQueue)
          /\ UNCHANGED viewQueue
       \/ /\ packageQueue = <<>>
          /\ viewQueue # <<>>
          /\ Start(Latest(viewQueue))
          /\ viewQueue' = WithoutLatest(viewQueue)
          /\ UNCHANGED packageQueue
    /\ UNCHANGED <<storeVars, serverVars, poolVars>>

WorkerFinishesJob ==
    /\ running # NoJob
    /\ \E outcome \in {"panicked", IF JobCancelled(running) THEN "cancelled" ELSE "completed"} :
         events' = Append(events, Event(running, outcome))
    /\ running' = NoJob
    /\ UNCHANGED <<storeVars, serverVars, packageQueue, viewQueue, poolVars>>

-----------------------------------------------------------------------------
(* The response pool: its workers hold the oldest jobs, and finish them in *)
(* any order.  A job that sees its flag set is dropped without a word; one *)
(* whose flag is set too late, or that finds nothing to check it for,      *)
(* completes all the same.                                                 *)

ResponseOutcomes(job) ==
    {<<job>>} \cup (IF job.cancel \in flipped THEN {<<>>} ELSE {})

PoolFinishesJob ==
    \E i \in DOMAIN poolJobs :
        /\ i <= ResponseWorkers
        /\ poolJobs' = RemoveAt(poolJobs, i)
        /\ \E outcome \in ResponseOutcomes(poolJobs[i]) : completions' = completions \o outcome
        /\ UNCHANGED <<storeVars, serverVars, workerVars, flipped>>

(* Mutant: a completion is matched by id and package key alone.            *)
MatchesByIdOnly(w, c) ==
    w.id = c.id /\ w.kind = c.kind /\ w.view.package = c.package

(* The waiter a completion answers: same id, same package key, and the     *)
(* very same cancel flag, since ids can be reused after a cancellation.    *)
Matches(w, c) ==
    w.id = c.id /\ w.kind = c.kind /\ w.view.package = c.package /\ w.cancel = c.cancel

HandleResponseCompletion ==
    /\ completions # <<>>
    /\ pending' = {w \in pending : ~Matches(w, Head(completions))}
    /\ completions' = Tail(completions)
    /\ UNCHANGED <<storeVars, caches, diagnostics, workerVars, poolJobs, flipped>>

-----------------------------------------------------------------------------
Client ==
    \/ \E u \in Uris : \/ HandleDidOpen(u)
                       \/ HandleDidChange(u)
                       \/ HandleMalformedChange(u)
                       \/ HandleDidClose(u)
                       \/ HandleDidSave(u)
    \/ \E id \in Ids : HandleCancelRequest(id) \/ \E u \in Uris : HandleRequest(id, u)

Next ==
    \/ Client
    \/ HandleWorkerEvent
    \/ HandleResponseCompletion
    \/ WorkerTakesJob
    \/ WorkerFinishesJob
    \/ PoolFinishesJob

(* The select loop picks among the ready channels at random, so events and *)
(* completions are not starved by the client; the threads are scheduled by *)
(* the operating system.  The client owes nothing.                         *)
Fairness ==
    /\ WF_vars(HandleWorkerEvent)
    /\ WF_vars(HandleResponseCompletion)
    /\ WF_vars(WorkerTakesJob)
    /\ WF_vars(WorkerFinishesJob)
    /\ WF_vars(PoolFinishesJob)

Spec == Init /\ [][Next]_vars /\ Fairness

-----------------------------------------------------------------------------
(* Properties *)

WaiterType ==
    [id : Ids, kind : Kinds, query : Queries,
     view : [uri : Uris, generation : Generation, package : PackageAnalysisKey],
     cancel : Flags \cup {NoFlag}, dispatched : BOOLEAN]

(* The server's state has the shape its types give it, every bounded table *)
(* is within its bound, and no two waiters share an id or a cancel flag.   *)
TypeOK ==
    /\ pending \subseteq WaiterType
    /\ \A v, w \in pending : v # w => v.id # w.id /\ (v.cancel = w.cancel => v.cancel = NoFlag)
    /\ \A kind \in Kinds \ {"semanticTokens"} : Cardinality(OfKind(pending, {kind})) <= MaxPending
    /\ IsInjective(caches.packages) /\ Len(caches.packages) <= MaxPackageCacheEntries
    /\ Len(packageQueue) <= MaxPendingPackageJobs /\ Len(viewQueue) <= MaxPendingViewJobs
    /\ flipped \subseteq Flags
    /\ diagnostics.untrusted \subseteq Uris
    /\ diagnostics.published \in [Buckets -> SUBSET Uris]

IsCurrentPackage(key) == key.bucket \in OpenBuckets /\ key = PackageKeyForBucket(key.bucket)

(* Whatever the routing thread caches, remembers as failed, believes in    *)
(* flight or wants to publish is for the documents as they are now: no     *)
(* late event leaves an entry for an older generation behind, so a lookup  *)
(* by current key is never answered from stale analysis and the tables do  *)
(* not grow with the number of edits.                                      *)
CachesAreCurrent ==
    /\ \A key \in ToSet(caches.packages) \cup caches.failedPackages \cup caches.inFlightPackages
                 \cup {m.key : m \in diagnostics.pending} : IsCurrentPackage(key)
    /\ \A view \in caches.views \cup caches.failedViews \cup caches.inFlightViews : ViewIsCurrent(view)

(* The jobs the scheduler still has to report.                             *)
Owed == ToSet(packageQueue) \cup ToSet(viewQueue) \cup ({running} \ {NoJob})
        \cup {e.job : e \in ToSet(events)}

(* Every in-flight marker is backed by a job that is queued, running or    *)
(* reported but not handled.  A marker without a job would make            *)
(* ensure_package_analysis and ensure_document_view skip that key for      *)
(* ever.  A save that waits for an analysis waits for one in flight.       *)
InFlightIsOwed ==
    /\ \A key \in caches.inFlightPackages :
         \E job \in Owed : job.kind = "package" /\ job.view.package = key
    /\ \A view \in caches.inFlightViews : \E job \in Owed : job.kind = "view" /\ job.view = view
    /\ \A m \in diagnostics.pending : m.key \in caches.inFlightPackages

(* Every waiting request is for the current text of an open document, and  *)
(* something is on its way that will answer it: a package or view analysis *)
(* in flight, or a response job that has not been told to stop.            *)
WaitersAreOwed ==
    \A w \in pending :
        /\ ViewIsCurrent(w.view)
        /\ IF w.dispatched
           THEN /\ w.cancel \notin flipped
                /\ ResponseJob(w) \in ToSet(poolJobs) \cup ToSet(completions)
           ELSE \/ w.view.package \in caches.inFlightPackages
                \/ w.kind = "semanticTokens" /\ w.view \in caches.inFlightViews

(* A response computed by the pool answers only the request it was         *)
(* computed for, and only while the package it was computed from is        *)
(* current, although ids are reused and jobs outlive cancelled requests.   *)
PoolAnswersMatch ==
    [][\A w \in pending \ pending' :
         Len(completions') < Len(completions) =>
            /\ Head(completions).query = w.query
            /\ Head(completions).kind = w.kind
            /\ IsCurrentPackage(Head(completions).package)]_vars

(* Diagnostics the client shows for a document were computed from the text *)
(* it has now, and never for a document whose last change was malformed    *)
(* or that is closed.                                                      *)
DiagnosticsMatchText ==
    \A u \in Uris : diagnostics.shown[u] # Nothing =>
        /\ IsOpen(u)
        /\ diagnostics.shown[u] = documents[u].generation
        /\ u \notin diagnostics.untrusted

(* Every request that waits is eventually answered.                        *)
EveryRequestIsAnswered ==
    \A id \in Ids : (\E w \in pending : w.id = id) ~> (\A w \in pending : w.id # id)

(* Every save that waits for an analysis is eventually settled.            *)
EverySaveIsSettled ==
    \A b \in Buckets : (\E m \in diagnostics.pending : m.key.bucket = b)
                          ~> (\A m \in diagnostics.pending : m.key.bucket # b)

(* What the comment on handle_did_change says of malformed payloads: they  *)
(* "flag the URI diagnostics-untrusted until trusted text is committed".   *)
(* So no step that commits a text for a document leaves it flagged.  A     *)
(* second didOpen of an open document commits a text, and leaves the flag. *)
UntrustedUntilTrustedText ==
    [][\A u \in Uris : IsOpen(u)' /\ latestGeneration'[u] # latestGeneration[u]
                          => u \notin diagnostics'.untrusted]_vars
=============================================================================
