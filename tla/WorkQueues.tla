------------------------------ MODULE WorkQueues ------------------------------
(***************************************************************************)
(* The coalescing queues of the analysis worker (PendingQueues in          *)
(* crates/lsp/src/scheduler.rs), as operators on values.                   *)
(*                                                                         *)
(* The code keeps hash maps keyed by package bucket or view key, whose     *)
(* values carry a global sequence number.  Only the order of the numbers   *)
(* matters, so a queue is the sequence of its jobs, oldest first.  A job   *)
(* is any record with a field key.                                         *)
(***************************************************************************)
EXTENDS SequencesExt, Integers

HasKey(queue, key) == \E i \in DOMAIN queue : queue[i].key = key

(* Mutant: the cap is not enforced.                                        *)
OverflowsNever(queue, cap, job) == FALSE

(* An insert into a full queue evicts the oldest job, unless it replaces a *)
(* queued job with the same key.                                           *)
Overflows(queue, cap, job) == Len(queue) >= cap /\ queue # <<>> /\ ~HasKey(queue, job.key)

(* The job dropped with a "cancelled" event by this insert, if any.        *)
DroppedBy(queue, cap, job) == IF Overflows(queue, cap, job) THEN {Head(queue)} ELSE {}

(* queue_package and queue_view: replace by key, and become the newest.    *)
Queue(queue, cap, job) ==
    LET kept == IF Overflows(queue, cap, job) THEN Tail(queue) ELSE queue
    IN  Append(SelectSeq(kept, LAMBDA j : j.key # job.key), job)

(* take_latest_package and take_latest_view: the newest job.               *)
Latest(queue) == Last(queue)
WithoutLatest(queue) == Front(queue)
=============================================================================
