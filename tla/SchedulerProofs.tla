--------------------------- MODULE SchedulerProofs ---------------------------
(***************************************************************************)
(* Proof that the scheduler loses no wakeup, for every number of buckets,  *)
(* views and jobs and every queue cap.                                     *)
(***************************************************************************)
EXTENDS Scheduler, TLAPS

(* A worker that passed the shutdown check before the flag was set has a   *)
(* token waiting for it, or about to be sent.  NoLostWakeup alone is not   *)
(* inductive: the worker may be anywhere between the check and the channel *)
(* when shutdown sets the flag.                                            *)
ShutdownIsSignalled ==
    shutdown /\ worker \notin {"check", "exited"} => router = "wake" \/ wake = 1

WakeInv ==
    /\ wake \in {0, 1}
    /\ shutdown \in BOOLEAN
    /\ ShutdownIsSignalled
    /\ NoLostWakeup

LEMMA WakeInvInit == Init => WakeInv
  BY DEF Init, WakeInv, ShutdownIsSignalled, NoLostWakeup

(* One step per call of the routing thread and per step of worker_loop.    *)
LEMMA WakeInvStep == WakeInv /\ [Next]_vars => WakeInv'
  <1> SUFFICES ASSUME WakeInv, [Next]_vars
               PROVE  WakeInv'
    OBVIOUS
  <1> USE DEF WakeInv, ShutdownIsSignalled, NoLostWakeup
  <1>1. ASSUME NEW b \in Buckets, EnqueuePackage(b) PROVE WakeInv'
    BY <1>1 DEF EnqueuePackage
  <1>2. ASSUME NEW v \in Views, EnqueueDocumentView(v) PROVE WakeInv'
    BY <1>2 DEF EnqueueDocumentView
  <1>3. CASE SetOpenBuckets
    BY <1>3 DEF SetOpenBuckets
  <1>4. ASSUME NEW job \in Pending, Supersede(job) PROVE WakeInv'
    BY <1>4 DEF Supersede
  <1>5. CASE Shutdown
    BY <1>5 DEF Shutdown
  <1>6. CASE WakeWorker
    BY <1>6 DEF WakeWorker
  <1>7. CASE Join
    BY <1>7 DEF Join
  <1>8. CASE CheckShutdown
    BY <1>8 DEF CheckShutdown
  <1>9. CASE TakeNextJob
    BY <1>9 DEF TakeNextJob
  <1>10. CASE StartJob
    BY <1>10 DEF StartJob
  <1>11. CASE DegradeAnalysis
    BY <1>11 DEF DegradeAnalysis
  <1>12. ASSUME NEW panics \in BOOLEAN, FinishJob(panics) PROVE WakeInv'
    BY <1>12 DEF FinishJob
  <1>13. CASE RecvWake
    BY <1>13 DEF RecvWake
  <1>14. CASE UNCHANGED vars
    BY <1>14 DEF vars
  <1>15. QED
    BY <1>1, <1>2, <1>3, <1>4, <1>5, <1>6, <1>7, <1>8, <1>9, <1>10, <1>11, <1>12, <1>13, <1>14
       DEF Next, Worker, Calls, Completes, Stopped

(* The worker never sleeps on an empty wake channel while there is a job,  *)
(* a retention update or a shutdown for it, unless the routing thread is   *)
(* between its insertion and its try_send.                                 *)
THEOREM NoWakeupIsLost == Spec => []NoLostWakeup
  <1>1. WakeInv => NoLostWakeup
    BY DEF WakeInv
  <1>2. QED
    BY WakeInvInit, WakeInvStep, <1>1, PTL DEF Spec
=============================================================================
