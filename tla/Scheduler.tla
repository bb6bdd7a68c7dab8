------------------------------- MODULE Scheduler -------------------------------
(***************************************************************************)
(* The background-worker scheduler of leo-lsp                              *)
(* (crates/lsp/src/scheduler.rs), at the grain of its synchronisation:     *)
(* one mutex around the queues, a wake channel with room for one token, an *)
(* atomic shutdown flag, and a join.                                       *)
(*                                                                         *)
(* The routing thread inserts a job and only then sends the wake token;    *)
(* the worker looks at the flag, then at the queues, then blocks on the    *)
(* channel.  Every interleaving of those steps is explored.                *)
(***************************************************************************)
EXTENDS WorkQueues, FiniteSets

CONSTANTS
    Buckets,        \* package buckets
    Views,          \* document-view keys
    MaxJobs,        \* bound: jobs enqueued in one behaviour
    MaxPendingPackageJobs,  \* MAX_PENDING_PACKAGE_JOBS, 16 in the code
    MaxPendingViewJobs,     \* MAX_PENDING_VIEW_JOBS, 64 in the code
    NoJob           \* the worker holds no job

ASSUME CapsAssumption == MaxPendingPackageJobs \in Nat \ {0} /\ MaxPendingViewJobs \in Nat \ {0}
ASSUME KindsAssumption == Buckets \cap Views = {}

VARIABLES
    packages,       \* pending package jobs, oldest first
    views,          \* pending view jobs, oldest first
    openBuckets,    \* a cache-retention update waits for the worker
    wake,           \* tokens in the wake channel
    shutdown,       \* shutdown_requested
    router,         \* where the routing thread is: "idle", "wake", "join", "done"
    worker,         \* where the worker is
    running,        \* the job the worker holds, or NoJob
    cancelled,      \* ids of jobs whose cancel token has moved on
    events,         \* events sent to the routing thread so far
    submitted       \* every job enqueued so far (history)

vars == <<packages, views, openBuckets, wake, shutdown, router, worker, running,
          cancelled, events, submitted>>

Job == [id : 1 .. MaxJobs, key : Buckets \cup Views]
Outcome == {"cancelled", "completed", "panicked"}
NextId == Cardinality(submitted) + 1

Init ==
    /\ packages = <<>>
    /\ views = <<>>
    /\ openBuckets = FALSE
    /\ wake = 0
    /\ shutdown = FALSE
    /\ router = "idle"
    /\ worker = "check"
    /\ running = NoJob
    /\ cancelled = {}
    /\ events = <<>>
    /\ submitted = {}

Event(job, outcome) == [job |-> job, outcome |-> outcome]
Cancellations(jobs) == SetToSeq({Event(j, "cancelled") : j \in jobs})

-----------------------------------------------------------------------------
(* The routing thread *)

EnqueuePackage(b) ==
    LET job == [id |-> NextId, key |-> b]
    IN  /\ router = "idle"
        /\ NextId <= MaxJobs
        /\ packages' = Queue(packages, MaxPendingPackageJobs, job)
        /\ events' = events \o Cancellations(DroppedBy(packages, MaxPendingPackageJobs, job))
        /\ submitted' = submitted \cup {job}
        /\ router' = "wake"
        /\ UNCHANGED <<views, openBuckets, wake, shutdown, worker, running, cancelled>>

EnqueueDocumentView(v) ==
    LET job == [id |-> NextId, key |-> v]
    IN  /\ router = "idle"
        /\ NextId <= MaxJobs
        /\ views' = Queue(views, MaxPendingViewJobs, job)
        /\ events' = events \o Cancellations(DroppedBy(views, MaxPendingViewJobs, job))
        /\ submitted' = submitted \cup {job}
        /\ router' = "wake"
        /\ UNCHANGED <<packages, openBuckets, wake, shutdown, worker, running, cancelled>>

(* Mutant: the update is left for the worker to find without a wake token. *)
SetOpenBucketsWithoutWake ==
    /\ router = "idle"
    /\ openBuckets' = TRUE
    /\ UNCHANGED <<packages, views, wake, shutdown, router, worker, running, cancelled, events, submitted>>

SetOpenBuckets ==
    /\ router = "idle"
    /\ openBuckets' = TRUE
    /\ router' = "wake"
    /\ UNCHANGED <<packages, views, wake, shutdown, worker, running, cancelled, events, submitted>>

(* The jobs that are queued or held by the worker.                         *)
Pending == ToSet(packages) \cup ToSet(views) \cup ({running} \ {NoJob})

(* A commit of the document store moves the token of job's document.  Only *)
(* the token of a pending job can still be read.                           *)
Supersede(job) ==
    /\ router = "idle"
    /\ job.id \notin cancelled
    /\ cancelled' = cancelled \cup {job.id}
    /\ UNCHANGED <<packages, views, openBuckets, wake, shutdown, router, worker, running,
                   events, submitted>>

(* wake_worker: try_send on the one-slot channel; a full channel is left   *)
(* as it is.                                                               *)
WakeWorker ==
    /\ router = "wake"
    /\ wake' = 1
    /\ router' = IF shutdown THEN "join" ELSE "idle"
    /\ UNCHANGED <<packages, views, openBuckets, shutdown, worker, running, cancelled, events, submitted>>

(* Mutant: shutdown sets the flag and joins without waking the worker.     *)
ShutdownWithoutWake ==
    /\ router = "idle"
    /\ shutdown' = TRUE
    /\ router' = "join"
    /\ UNCHANGED <<packages, views, openBuckets, wake, worker, running, cancelled, events, submitted>>

(* shutdown: set the flag, wake the worker, then join it.                  *)
Shutdown ==
    /\ router = "idle"
    /\ shutdown' = TRUE
    /\ router' = "wake"
    /\ UNCHANGED <<packages, views, openBuckets, wake, worker, running, cancelled, events, submitted>>

Join ==
    /\ router = "join"
    /\ worker = "exited"
    /\ router' = "done"
    /\ UNCHANGED <<packages, views, openBuckets, wake, shutdown, worker, running, cancelled,
                   events, submitted>>

-----------------------------------------------------------------------------
(* The worker thread *)

CheckShutdown ==
    /\ worker = "check"
    /\ worker' = IF shutdown THEN "exited" ELSE "take"
    /\ UNCHANGED <<packages, views, openBuckets, wake, shutdown, router, running, cancelled,
                   events, submitted>>

(* take_next_job: package jobs before view jobs, the newest first.         *)
TakeNextJob ==
    /\ worker = "take"
    /\ openBuckets' = FALSE
    /\ \/ /\ packages # <<>>
          /\ running' = Latest(packages)
          /\ packages' = WithoutLatest(packages)
          /\ worker' = "start"
          /\ UNCHANGED views
       \/ /\ packages = <<>>
          /\ views # <<>>
          /\ running' = Latest(views)
          /\ views' = WithoutLatest(views)
          /\ worker' = "start"
          /\ UNCHANGED packages
       \/ /\ packages = <<>>
          /\ views = <<>>
          /\ worker' = "recv"
          /\ UNCHANGED <<packages, views, running>>
    /\ UNCHANGED <<wake, shutdown, router, cancelled, events, submitted>>

(* Mutant: a job found stale before it ran is dropped without an event.    *)
StartJobSilently ==
    /\ worker = "start"
    /\ IF running.id \in cancelled
       THEN worker' = "check" /\ running' = NoJob
       ELSE worker' = "analyze" /\ UNCHANGED running
    /\ UNCHANGED <<packages, views, openBuckets, wake, shutdown, router, cancelled, events, submitted>>

(* run_package_job and run_view_job up to the analysis: a job that is      *)
(* already stale is reported as cancelled and not run.                     *)
StartJob ==
    /\ worker = "start"
    /\ IF running.id \in cancelled
       THEN /\ events' = Append(events, Event(running, "cancelled"))
            /\ worker' = "check"
            /\ running' = NoJob
       ELSE /\ worker' = "analyze"
            /\ UNCHANGED <<events, running>>
    /\ UNCHANGED <<packages, views, openBuckets, wake, shutdown, router, cancelled, submitted>>

(* analyze_package_snapshot looks at the token between its phases and, when *)
(* it has moved, settles for a syntax-only result without diagnostics.     *)
DegradeAnalysis ==
    /\ worker = "analyze"
    /\ running.key \in Buckets
    /\ running.id \in cancelled
    /\ worker' = "degraded"
    /\ UNCHANGED <<packages, views, openBuckets, wake, shutdown, router, running, cancelled,
                   events, submitted>>

(* Mutant: the token is not looked at again after the analysis.            *)
FinishJobUnchecked(panics) ==
    /\ worker \in {"analyze", "degraded"}
    /\ events' = Append(events, Event(running, IF panics THEN "panicked" ELSE "completed"))
    /\ worker' = "check"
    /\ running' = NoJob
    /\ UNCHANGED <<packages, views, openBuckets, wake, shutdown, router, cancelled, submitted>>

(* Mutant: the worker waits for a token after each job.                    *)
FinishJobThenWait(panics) ==
    /\ worker \in {"analyze", "degraded"}
    /\ events' = Append(events,
                        Event(running, IF panics THEN "panicked"
                                       ELSE IF running.id \in cancelled THEN "cancelled"
                                       ELSE "completed"))
    /\ worker' = "recv"
    /\ running' = NoJob
    /\ UNCHANGED <<packages, views, openBuckets, wake, shutdown, router, cancelled, submitted>>

(* The analysis ends, or panics inside catch_unwind; the token is checked  *)
(* again before a result is sent.  The look and the send are one step:     *)
(* only the routing thread moves tokens, and it cannot tell a move between *)
(* them from one after the send.                                           *)
FinishJob(panics) ==
    /\ worker \in {"analyze", "degraded"}
    /\ events' = Append(events,
                        Event(running, IF panics THEN "panicked"
                                       ELSE IF running.id \in cancelled THEN "cancelled"
                                       ELSE "completed"))
    /\ worker' = "check"
    /\ running' = NoJob
    /\ UNCHANGED <<packages, views, openBuckets, wake, shutdown, router, cancelled, submitted>>

RecvWake ==
    /\ worker = "recv"
    /\ wake = 1
    /\ wake' = 0
    /\ worker' = "check"
    /\ UNCHANGED <<packages, views, openBuckets, shutdown, router, running, cancelled, events, submitted>>

-----------------------------------------------------------------------------
Worker == \/ CheckShutdown
          \/ TakeNextJob
          \/ StartJob
          \/ DegradeAnalysis
          \/ \E panics \in BOOLEAN : FinishJob(panics)
          \/ RecvWake

(* The calls the routing thread makes, and the calls it must complete.     *)
Calls == \/ \E b \in Buckets : EnqueuePackage(b)
         \/ \E v \in Views : EnqueueDocumentView(v)
         \/ SetOpenBuckets
         \/ \E job \in Pending : Supersede(job)
         \/ Shutdown
Completes == WakeWorker \/ Join

(* After the join the process goes on to stop the response pool.           *)
Stopped == router = "done" /\ UNCHANGED vars

Next == Worker \/ Calls \/ Completes \/ Stopped

(* Both threads are scheduled by the operating system, so neither stays    *)
(* enabled for ever without a step.  Nothing obliges the client to cause   *)
(* another call.                                                           *)
Spec == Init /\ [][Next]_vars /\ WF_vars(Worker) /\ WF_vars(Completes)

-----------------------------------------------------------------------------
Reported == {events[i].job : i \in DOMAIN events}

(* The variables have the shape the scheduler's types give them, and the   *)
(* queues respect their caps.                                              *)
TypeOK ==
    /\ packages \in Seq(Job) /\ Len(packages) <= MaxPendingPackageJobs
    /\ views \in Seq(Job) /\ Len(views) <= MaxPendingViewJobs
    /\ openBuckets \in BOOLEAN /\ shutdown \in BOOLEAN
    /\ wake \in 0 .. 1
    /\ router \in {"idle", "wake", "join", "done"}
    /\ worker \in {"check", "take", "start", "analyze", "degraded", "recv", "exited"}
    /\ running \in Job \cup {NoJob}
    /\ cancelled \subseteq 1 .. MaxJobs
    /\ events \in Seq([job : Job, outcome : Outcome])
    /\ submitted \subseteq Job

(* No wakeup is lost: when the worker waits on an empty channel, either    *)
(* there is nothing for it to do - no job, no retention update, no         *)
(* shutdown - or the routing thread is about to send a token.              *)
NoLostWakeup ==
    worker = "recv" /\ wake = 0 =>
        \/ packages = <<>> /\ views = <<>> /\ ~openBuckets /\ ~shutdown
        \/ router = "wake"

(* Every job gets at most one event, and none while it is still pending;   *)
(* a job that vanishes without one was replaced by a newer job with the    *)
(* same key.  The in-flight markers of the server rest on this.            *)
JobsAccountedFor ==
    /\ \A i, j \in DOMAIN events : events[i].job = events[j].job => i = j
    /\ Reported \cap Pending = {}
    /\ \A job \in submitted \ (Reported \cup Pending) :
         \E newer \in submitted : newer.key = job.key /\ newer.id > job.id

(* An analysis that was cut short because its document moved on is never   *)
(* reported as completed: the server caches a completed package under its  *)
(* key, and would then serve the syntax-only result and no diagnostics.    *)
NoDegradedResult ==
    [][\A i \in DOMAIN events' \ DOMAIN events :
         events'[i].outcome = "completed" => worker # "degraded"]_vars

(* Every job is eventually reported or replaced, unless the server stops.  *)
EveryJobIsReported ==
    \A n \in 1 .. MaxJobs :
        (\E job \in Pending : job.id = n) ~> (shutdown \/ \A job \in Pending : job.id # n)

(* Shutdown always ends: the worker leaves its loop, wherever it was, and  *)
(* the routing thread's join returns.                                      *)
ShutdownTerminates == shutdown ~> (router = "done" /\ worker = "exited")
=============================================================================
