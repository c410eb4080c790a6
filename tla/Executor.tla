------------------------------ MODULE Executor ------------------------------
(***************************************************************************)
(* CRExecutor (crab/executor.py): callers submit checkpoint jobs under a   *)
(* bound on the jobs in the house; a fixed set of threads takes them from  *)
(* a normal and an urgent queue and retries what fails; restores go to a   *)
(* pool of their own; shutdown drains both.  A job that saves the turn of  *)
(* an LLM request becomes urgent when the response of that request is      *)
(* ready, before or after the job is queued.                               *)
(*                                                                         *)
(* The two queues, the registry of items and the exposed requests share    *)
(* one condition's lock; records, slots and futures have locks of their    *)
(* own, so every method is several steps.                                  *)
(***************************************************************************)
EXTENDS Integers, FiniteSets, SequencesExt

CONSTANTS Jobs,         \* checkpoint jobs, each submitted by one caller
          Restores,     \* restore jobs
          Captures,     \* keys of live LLM requests
          NoRequest,    \* the key of a job that captured none
          RequestOf,    \* _checkpoint_request_key
          Threads,      \* the checkpoint threads
          QueueSize,    \* max_checkpoint_queue_size
          Reactive,     \* checkpoint_scheduling_policy is "reactive"
          UrgentQuota,  \* reactive_checkpoint_urgent_quota
          MaxRetries    \* max_retries

ASSUME ExecutorAssumption ==
    /\ NoRequest \notin Captures
    /\ RequestOf \in [Jobs -> Captures \cup {NoRequest}]
    /\ IsFiniteSet(Threads) /\ Threads # {} /\ IsFiniteSet(Jobs) /\ Jobs \cap Restores = {}
    /\ QueueSize \in Nat /\ UrgentQuota \in Nat /\ MaxRetries \in Nat
    /\ Reactive \in BOOLEAN

VARIABLES record,     \* the status in _records of each job
          slots,      \* free permits of _checkpoint_slots
          normal,     \* _checkpoint_queue
          urgent,     \* _checkpoint_urgent_queue
          exposed,    \* _exposed_live_requests
          streak,     \* _urgent_dequeue_streak
          spc,        \* where the submission of each checkpoint job is
          tpc, tjob,  \* where each thread is, and the job it has, if any
          attempt,    \* retries of that job so far
          rpc,        \* where each restore job is
          stop,       \* how far shutdown has come
          ready,      \* history: requests notified as ready and not cleared
          expedited,  \* history: jobs that ever were urgent
          overtaken   \* history: urgent dequeues since the head of normal came up

queueVars == <<normal, urgent, exposed, streak>>
threadVars == <<tpc, tjob, attempt>>
historyVars == <<ready, expedited, overtaken>>
xvars == <<record, slots, queueVars, spc, threadVars, rpc, stop, historyVars>>

Capacity == Cardinality(Threads) + QueueSize
Status == {"none", "pending", "running", "succeeded", "failed"}
Active == {"pending", "running"}
SubmitPc == {"new", "checked", "recorded", "acquired", "queued", "done", "refused"}
ThreadPc == {"idle", "start", "attempt", "finish", "resolve", "release", "exited"}
RestorePc == {"new", "recorded", "queued", "attempt", "done", "refused"}

XInit == /\ record = [j \in Jobs \cup Restores |-> "none"]
         /\ slots = Capacity
         /\ normal = <<>> /\ urgent = <<>> /\ exposed = {} /\ streak = 0
         /\ spc = [j \in Jobs |-> "new"]
         /\ tpc = [t \in Threads |-> "idle"] /\ tjob = [t \in Threads |-> {}]
         /\ attempt = [t \in Threads |-> 0]
         /\ rpc = [j \in Restores |-> "new"]
         /\ stop = "no"
         /\ ready = {} /\ expedited = {} /\ overtaken = 0

SetRecord(j, status) == record' = [record EXCEPT ![j] = status]

-----------------------------------------------------------------------------
(* submit_checkpoint *)

SubmitGoto(j, from, to) == spc[j] = from /\ spc' = [spc EXCEPT ![j] = to]

CheckShutdown(j) == /\ SubmitGoto(j, "new", IF stop = "no" THEN "checked" ELSE "refused")
                    /\ UNCHANGED <<record, slots, queueVars, historyVars>>

RecordPending(j) == /\ SubmitGoto(j, "checked", "recorded")
                    /\ SetRecord(j, "pending")
                    /\ UNCHANGED <<slots, queueVars, historyVars>>

AcquireSlot(j) == /\ slots > 0
                  /\ SubmitGoto(j, "recorded", "acquired")
                  /\ slots' = slots - 1
                  /\ UNCHANGED <<record, queueVars, historyVars>>

QueueFull(j) == /\ slots = 0
                /\ SubmitGoto(j, "recorded", "refused")
                /\ SetRecord(j, "failed")
                /\ UNCHANGED <<slots, queueVars, historyVars>>

\* A job whose response is ready by now goes to the urgent queue at once.
Enqueue(j) == /\ stop = "no"
              /\ SubmitGoto(j, "acquired", "queued")
              /\ IF Reactive /\ RequestOf[j] \in exposed
                   THEN /\ urgent' = Append(urgent, j)
                        /\ exposed' = exposed \ {RequestOf[j]}
                        /\ expedited' = expedited \cup {j}
                        /\ UNCHANGED <<normal, overtaken>>
                   ELSE /\ normal' = Append(normal, j)
                        /\ overtaken' = IF normal = <<>> THEN 0 ELSE overtaken
                        /\ UNCHANGED <<urgent, exposed, expedited>>
              /\ UNCHANGED <<record, slots, streak, ready>>

\* Shutdown came in between: the permit is given back, the record stays.
BackOut(j) == /\ stop # "no"
              /\ SubmitGoto(j, "acquired", "refused")
              /\ slots' = slots + 1
              /\ UNCHANGED <<record, queueVars, historyVars>>

Submit(j) == /\ \/ CheckShutdown(j) \/ RecordPending(j) \/ AcquireSlot(j) \/ QueueFull(j)
                \/ Enqueue(j) \/ BackOut(j)
             /\ UNCHANGED <<threadVars, rpc, stop>>

-----------------------------------------------------------------------------
(* notify_live_response_ready and clear_live_response_ready *)

\* The queued jobs that captured request k.
Registered(k) == {j \in ToSet(normal \o urgent) : RequestOf[j] = k}

\* _promote_checkpoint_request_locked goes through them in submission order; an
\* urgent one, if any, was submitted before the normal ones.  The place of the
\* oldest in the normal queue.
OldestOf(k) == {i \in 1..Len(normal) : /\ RequestOf[normal[i]] = k
                                       /\ \A h \in 1..i - 1 : RequestOf[normal[h]] # k}

\* Mutant: the promoted job is not taken off the normal queue.
PromoteCopies(k) ==
    /\ Registered(k) \cap ToSet(urgent) = {}
    /\ \E i \in OldestOf(k) : /\ urgent' = Append(urgent, normal[i])
                              /\ expedited' = expedited \cup {normal[i]}
    /\ exposed' = exposed \ {k}
    /\ UNCHANGED <<normal, overtaken>>

Promote(k) ==
    /\ Registered(k) \cap ToSet(urgent) = {}
    /\ \E i \in OldestOf(k) : /\ normal' = RemoveAt(normal, i)
                              /\ urgent' = Append(urgent, normal[i])
                              /\ expedited' = expedited \cup {normal[i]}
                              /\ overtaken' = IF i = 1 THEN 0 ELSE overtaken
    /\ exposed' = exposed \ {k}

AlreadyUrgent(k) == /\ Registered(k) \cap ToSet(urgent) # {}
                    /\ exposed' = exposed \ {k}
                    /\ UNCHANGED <<normal, urgent, expedited, overtaken>>

Expose(k) == /\ Registered(k) = {}
             /\ exposed' = exposed \cup {k}
             /\ UNCHANGED <<normal, urgent, expedited, overtaken>>

NotifyReady(k) == /\ Reactive
                  /\ Promote(k) \/ AlreadyUrgent(k) \/ Expose(k)
                  /\ ready' = ready \cup {k}
                  /\ UNCHANGED <<record, slots, streak, spc, threadVars, rpc, stop>>

\* One request, or all those of a sandbox.
ClearReady(ks) == /\ Reactive
                  /\ exposed' = exposed \ ks
                  /\ ready' = ready \ ks
                  /\ UNCHANGED <<record, slots, normal, urgent, streak, spc, threadVars,
                                 rpc, stop, expedited, overtaken>>

-----------------------------------------------------------------------------
(* A checkpoint thread, _checkpoint_worker_loop *)

ThreadGoto(t, from, to) == tpc[t] = from /\ tpc' = [tpc EXCEPT ![t] = to]

\* _take_next_checkpoint_item_locked: urgent jobs first, but after a run of
\* UrgentQuota of them one normal job, if there is any.
QuotaSpent == normal # <<>> /\ streak >= UrgentQuota

TakeUrgent(t) == /\ urgent # <<>> /\ ~QuotaSpent
                 /\ ThreadGoto(t, "idle", "start")
                 /\ tjob' = [tjob EXCEPT ![t] = {Head(urgent)}]
                 /\ urgent' = Tail(urgent)
                 /\ streak' = streak + 1
                 /\ overtaken' = IF normal = <<>> THEN 0 ELSE overtaken + 1
                 /\ UNCHANGED <<normal, exposed>>

TakeNormal(t) == /\ normal # <<>> /\ (urgent = <<>> \/ QuotaSpent)
                 /\ ThreadGoto(t, "idle", "start")
                 /\ tjob' = [tjob EXCEPT ![t] = {Head(normal)}]
                 /\ normal' = Tail(normal)
                 /\ streak' = 0
                 /\ overtaken' = 0
                 /\ UNCHANGED <<urgent, exposed>>

Dequeue(t) == /\ TakeUrgent(t) \/ TakeNormal(t)
              /\ UNCHANGED <<record, slots, spc, attempt, ready, expedited>>

\* _execute_checkpoint
StartJob(t) == /\ ThreadGoto(t, "start", "attempt")
               /\ \E j \in tjob[t] : SetRecord(j, "running")
               /\ attempt' = [attempt EXCEPT ![t] = 0]
               /\ UNCHANGED <<slots, queueVars, spc, tjob, historyVars>>

\* The worker failed or raised, and there is a retry left.
RetryJob(t) == /\ attempt[t] < MaxRetries
               /\ ThreadGoto(t, "attempt", "attempt")
               /\ attempt' = [attempt EXCEPT ![t] = @ + 1]
               /\ UNCHANGED <<record, slots, queueVars, spc, tjob, historyVars>>

\* It succeeded, failed validation (which is not retried), or failed for good.
EndJob(t) == /\ ThreadGoto(t, "attempt", "finish")
             /\ \E j \in tjob[t], status \in {"succeeded", "failed"} : SetRecord(j, status)
             /\ UNCHANGED <<slots, queueVars, spc, tjob, attempt, historyVars>>

\* _finish_checkpoint_item; the item left the queues when it was dequeued.
FinishItem(t) == /\ ThreadGoto(t, "finish", "resolve")
                 /\ UNCHANGED <<record, slots, queueVars, spc, tjob, attempt, historyVars>>

\* set_result wakes the caller first ...
ResolveFuture(t) == /\ ThreadGoto(t, "resolve", "release")
                    /\ \E j \in tjob[t] : spc' = [spc EXCEPT ![j] = "done"]
                    /\ UNCHANGED <<record, slots, queueVars, tjob, attempt, historyVars>>

\* Mutant: the slot of a job whose checkpoint failed is not given back.
ReleaseIfSucceeded(t) == /\ ThreadGoto(t, "release", "idle")
                         /\ slots' = IF \E j \in tjob[t] : record[j] = "succeeded"
                                       THEN slots + 1 ELSE slots
                         /\ tjob' = [tjob EXCEPT ![t] = {}]
                         /\ UNCHANGED <<record, queueVars, spc, attempt, historyVars>>

\* ... and then runs the callback that gives the permit back.
ReleaseSlot(t) == /\ ThreadGoto(t, "release", "idle")
                  /\ slots' = slots + 1
                  /\ tjob' = [tjob EXCEPT ![t] = {}]
                  /\ UNCHANGED <<record, queueVars, spc, attempt, historyVars>>

\* Mutant: a thread leaves at shutdown though jobs are queued.
ExitAtOnce(t) == /\ stop # "no"
                 /\ ThreadGoto(t, "idle", "exited")
                 /\ UNCHANGED <<record, slots, queueVars, spc, tjob, attempt, historyVars>>

ExitThread(t) == /\ stop # "no" /\ normal = <<>> /\ urgent = <<>>
                 /\ ThreadGoto(t, "idle", "exited")
                 /\ UNCHANGED <<record, slots, queueVars, spc, tjob, attempt, historyVars>>

Thread(t) == /\ \/ Dequeue(t) \/ StartJob(t) \/ RetryJob(t) \/ EndJob(t) \/ FinishItem(t)
                \/ ResolveFuture(t) \/ ReleaseSlot(t) \/ ExitThread(t)
             /\ UNCHANGED <<rpc, stop>>

-----------------------------------------------------------------------------
(* _submit_restore and _execute_restore *)

RestoreGoto(j, from, to) == rpc[j] = from /\ rpc' = [rpc EXCEPT ![j] = to]

RecordRestore(j) == RestoreGoto(j, "new", "recorded") /\ SetRecord(j, "pending")

\* Once the pool is shut down it raises, and the record stays.
PoolSubmit(j) == /\ RestoreGoto(j, "recorded",
                                IF stop \in {"no", "joining"} THEN "queued" ELSE "refused")
                 /\ UNCHANGED record

StartRestore(j) == RestoreGoto(j, "queued", "attempt") /\ SetRecord(j, "running")

\* After the attempts, which change no state of the executor.
EndRestore(j) == /\ RestoreGoto(j, "attempt", "done")
                 /\ \E status \in {"succeeded", "failed"} : SetRecord(j, status)

Restore(j) == /\ RecordRestore(j) \/ PoolSubmit(j) \/ StartRestore(j) \/ EndRestore(j)
              /\ UNCHANGED <<slots, queueVars, spc, threadVars, stop, historyVars>>

-----------------------------------------------------------------------------
(* shutdown: the flag, the join of the threads, the restore pool, the workers *)

StopGoto(from, to) == stop = from /\ stop' = to

Shutdown ==
    /\ \/ StopGoto("no", "joining")
       \/ (\A t \in Threads : tpc[t] = "exited") /\ StopGoto("joining", "draining")
       \/ (\A j \in Restores : rpc[j] \notin {"queued", "attempt"})
            /\ StopGoto("draining", "closed")
    /\ UNCHANGED <<record, slots, queueVars, spc, threadVars, rpc, historyVars>>

XNext == \/ \E j \in Jobs : Submit(j)
         \/ \E k \in Captures : NotifyReady(k) \/ ClearReady({k})
         \/ ClearReady(Captures)
         \/ \E t \in Threads : Thread(t)
         \/ \E j \in Restores : Restore(j)
         \/ Shutdown

XSpec == XInit /\ [][XNext]_xvars

\* The checkpoint threads keep running and a submission in progress goes on.
FairXSpec == /\ XSpec
             /\ \A t \in Threads : WF_xvars(Thread(t))
             /\ \A j \in Jobs : WF_xvars(Submit(j))

-----------------------------------------------------------------------------
\* The types; the permits stay within the capacity and no job is tried more than
\* max_retries + 1 times (_execute_checkpoint).
XTypeOK == /\ record \in [Jobs \cup Restores -> Status]
           /\ slots \in 0..Capacity
           /\ normal \in Seq(Jobs) /\ urgent \in Seq(Jobs)
           /\ exposed \subseteq Captures
           /\ streak \in Nat
           /\ spc \in [Jobs -> SubmitPc]
           /\ tpc \in [Threads -> ThreadPc]
           /\ tjob \in [Threads -> SUBSET Jobs]
           /\ attempt \in [Threads -> 0..MaxRetries]
           /\ rpc \in [Restores -> RestorePc]
           /\ stop \in {"no", "joining", "draining", "closed"}
           /\ ready \subseteq Captures /\ expedited \subseteq Jobs /\ overtaken \in Nat

\* The jobs that hold a permit of _checkpoint_slots: from the acquisition until
\* the thread has run the future's callback, or the submission has backed out.
SlotHolders == {j \in Jobs : \/ spc[j] \in {"acquired", "queued"}
                             \/ \E t \in Threads : j \in tjob[t]}

\* No permit is lost or given back twice, whichever of refusal, shutdown, failure
\* and completion ends a job: with a lost permit the executor refuses jobs for
\* ever, and giving one back twice raises in the thread and ends it.
SlotsConserved == slots + Cardinality(SlotHolders) = Capacity

\* A job whose submission went through is in exactly one place, once: one of the
\* queues or one thread.  Promotion, dequeue and shutdown neither lose nor copy it.
JobInOnePlace ==
    /\ IsInjective(normal \o urgent)
    /\ \A j \in Jobs :
          LET places == {t \in Threads : j \in tjob[t]}
          IN  /\ Cardinality(places) <= 1
              /\ spc[j] = "queued" <=>
                    \/ Contains(normal \o urgent, j) /\ places = {}
                    \/ \E t \in places : tpc[t] # "release" /\ ~Contains(normal \o urgent, j)

\* A normal job at the head of its queue is passed by at most UrgentQuota urgent
\* ones, though urgent jobs keep coming and are promoted past it.
NormalNotStarved == overtaken <= UrgentQuota

\* Whether the response becomes ready before or after its checkpoint is queued,
\* the checkpoint does not wait in the normal queue, unless another job of the
\* same request was expedited in its place.
ReadyIsUrgent ==
    \A j \in ToSet(normal) : RequestOf[j] \in ready =>
        \E i \in expedited : RequestOf[i] = RequestOf[j]

\* has_active_job, which quiesce_for_verification polls, sees every job that a
\* worker may be running, and the workers are closed only when none is.
ActiveJobsVisible ==
    /\ \A t \in Threads : tpc[t] = "attempt" => \A j \in tjob[t] : record[j] \in Active
    /\ \A j \in Restores : rpc[j] = "attempt" => record[j] \in Active
    /\ stop = "closed" => /\ \A t \in Threads : tpc[t] = "exited"
                          /\ \A j \in Restores : rpc[j] \notin {"queued", "attempt"}

\* Every future that submit_checkpoint returned is resolved, also when shutdown
\* comes while jobs are queued and when urgent jobs keep overtaking.
AcceptedResolves == \A j \in Jobs : spc[j] = "queued" ~> spc[j] = "done"

\* A job submit_checkpoint accepted is accounted for until its future is
\* resolved: it is in one place, not starved, as urgent as its response, and
\* seen by has_active_job while a worker may run it.
JobsAreAccounted == JobInOnePlace /\ NormalNotStarved /\ ReadyIsUrgent /\ ActiveJobsVisible
=============================================================================
