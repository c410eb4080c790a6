--------------------------- MODULE ExecutorProofs ---------------------------
(***************************************************************************)
(* The accounting of the checkpoint executor for any finite set of jobs    *)
(* and of threads, any set of restores, queue size, urgent quota and       *)
(* number of retries, under either scheduling policy: a job accepted is in *)
(* one place until it ends, and no permit of _checkpoint_slots is lost or  *)
(* given back twice, whatever order submissions, promotions, threads and   *)
(* the shutdown run in.                                                    *)
(***************************************************************************)
EXTENDS Executor, FiniteSetTheorems, SequenceTheorems, TLAPS

-----------------------------------------------------------------------------
(* Queues.  Both queues of the executor hold a job at most once, so a queue is *)
(* its set of jobs as far as the accounting goes.                            *)

\* A queue is what its places hold.
LEMMA QueueSet ==
  ASSUME NEW S, NEW s \in Seq(S)
  PROVE  /\ \A x : x \in ToSet(s) <=> \E i \in 1..Len(s) : s[i] = x
         /\ IsInjective(s) <=> \A i, j \in 1..Len(s) : s[i] = s[j] => i = j
         /\ ToSet(s) \subseteq S
  BY DEF ToSet, IsInjective

\* append of a job that is not in the queue.
LEMMA QueueAppend ==
  ASSUME NEW S, NEW s \in Seq(S), NEW x \in S
  PROVE  /\ Append(s, x) \in Seq(S)
         /\ ToSet(Append(s, x)) = ToSet(s) \cup {x}
         /\ IsInjective(s) /\ x \notin ToSet(s) => IsInjective(Append(s, x))
<1> DEFINE a == Append(s, x)
<1>1. /\ a \in Seq(S) /\ Len(a) = Len(s) + 1 /\ Len(s) \in Nat
      /\ \A i \in 1..Len(s) : a[i] = s[i]
      /\ a[Len(s) + 1] = x
  BY AppendProperties
<1> HIDE DEF a
<1>2. ToSet(a) = ToSet(s) \cup {x}
  BY <1>1, QueueSet
<1>3. IsInjective(s) /\ x \notin ToSet(s) => IsInjective(a)
  BY <1>1, QueueSet
<1> QED BY <1>1, <1>2, <1>3 DEF a

\* popleft.
LEMMA QueueTail ==
  ASSUME NEW S, NEW s \in Seq(S), s # <<>>, IsInjective(s)
  PROVE  /\ Head(s) \in ToSet(s)
         /\ Tail(s) \in Seq(S) /\ IsInjective(Tail(s))
         /\ ToSet(Tail(s)) = ToSet(s) \ {Head(s)}
<1> DEFINE u == Tail(s)
<1>1. /\ u \in Seq(S) /\ Len(s) \in Nat /\ Len(s) > 0 /\ Len(u) = Len(s) - 1
      /\ \A i \in 1..Len(u) : u[i] = s[i + 1]
      /\ Head(s) = s[1]
  BY HeadTailProperties, EmptySeq, LenProperties
<1> HIDE DEF u
<1>2. Head(s) \in ToSet(s)
  BY <1>1, QueueSet
<1>3. IsInjective(u)
  BY <1>1, QueueSet
<1>4. ToSet(u) = ToSet(s) \ {Head(s)}
  <2>1. ASSUME NEW y \in ToSet(u) PROVE y \in ToSet(s) /\ y # Head(s)
    <3>1. PICK i \in 1..Len(u) : u[i] = y
      BY <1>1, QueueSet
    <3>2. i + 1 \in 1..Len(s) /\ 1 \in 1..Len(s) /\ s[i + 1] = y /\ i + 1 # 1
      BY <1>1, <3>1
    <3> QED BY <1>1, <3>2, QueueSet
  <2>2. ASSUME NEW y \in ToSet(s), y # Head(s) PROVE y \in ToSet(u)
    <3>1. PICK i \in 1..Len(s) : s[i] = y
      BY QueueSet
    <3>2. i - 1 \in 1..Len(u) /\ u[i - 1] = y
      BY <1>1, <2>2, <3>1
    <3> QED BY <1>1, <3>2, QueueSet
  <2> QED BY <2>1, <2>2
<1> QED BY <1>1, <1>2, <1>3, <1>4 DEF u

\* remove of the job in place i.
LEMMA QueueRemove ==
  ASSUME NEW S, NEW s \in Seq(S), NEW n \in 1..Len(s), IsInjective(s)
  PROVE  /\ RemoveAt(s, n) \in Seq(S) /\ IsInjective(RemoveAt(s, n))
         /\ ToSet(RemoveAt(s, n)) = ToSet(s) \ {s[n]}
         /\ s[n] \in ToSet(s)
<1> DEFINE a == SubSeq(s, 1, n - 1)
           b == SubSeq(s, n + 1, Len(s))
           u == a \o b
<1>0. Len(s) \in Nat /\ n \in Int /\ \A i \in 1..Len(s) : s[i] \in S
  BY LenProperties, ElementOfSeq
<1>1. a \in Seq(S) /\ Len(a) = n - 1 /\ \A i \in 1..n - 1 : a[i] = s[i]
  BY <1>0, SubSeqProperties
<1>2. b \in Seq(S) /\ Len(b) = Len(s) - n /\ \A i \in 1..Len(s) - n : b[i] = s[n + i]
  BY <1>0, SubSeqProperties
<1> HIDE DEF a, b
<1>3. /\ u \in Seq(S) /\ Len(u) = Len(s) - 1
      /\ \A i \in 1..Len(s) - 1 : u[i] = IF i < n THEN s[i] ELSE s[i + 1]
  <2>1. /\ u \in Seq(S) /\ Len(u) = Len(a) + Len(b)
        /\ \A i \in 1..Len(a) + Len(b) : u[i] = IF i <= Len(a) THEN a[i] ELSE b[i - Len(a)]
    BY <1>1, <1>2, ConcatProperties
  <2> QED BY <1>0, <1>1, <1>2, <2>1
<1>4. RemoveAt(s, n) = u
  BY DEF RemoveAt, a, b
<1> HIDE DEF u
<1>5. IsInjective(u)
  <2>1. ASSUME NEW i \in 1..Len(u), NEW j \in 1..Len(u), u[i] = u[j] PROVE i = j
    <3>1. \A h, k \in 1..Len(s) : s[h] = s[k] => h = k
      BY QueueSet
    <3>2. i \in 1..Len(s) /\ j \in 1..Len(s) /\ i + 1 \in 1..Len(s) /\ j + 1 \in 1..Len(s)
      BY <1>0, <1>3
    <3>3. /\ u[i] = IF i < n THEN s[i] ELSE s[i + 1]
          /\ u[j] = IF j < n THEN s[j] ELSE s[j + 1]
      BY <1>3
    <3>4. (IF i < n THEN i ELSE i + 1) = (IF j < n THEN j ELSE j + 1)
      BY <2>1, <3>1, <3>2, <3>3
    <3> QED BY <1>0, <3>2, <3>4
  <2> QED BY <1>3, <2>1, QueueSet
<1>6. ToSet(u) = ToSet(s) \ {s[n]}
  <2>1. ASSUME NEW y \in ToSet(u) PROVE y \in ToSet(s) /\ y # s[n]
    <3>1. PICK i \in 1..Len(u) : u[i] = y
      BY <1>3, QueueSet
    <3>2. \E h \in 1..Len(s) : s[h] = y /\ h # n
      BY <1>0, <1>3, <3>1
    <3> QED BY <1>0, <3>2, QueueSet
  <2>2. ASSUME NEW y \in ToSet(s), y # s[n] PROVE y \in ToSet(u)
    <3>1. PICK h \in 1..Len(s) : s[h] = y
      BY QueueSet
    <3>2. \E i \in 1..Len(u) : u[i] = y
      <4>1. CASE h < n
        BY <1>0, <1>3, <3>1, <4>1
      <4>2. CASE h > n
        <5>1. h - 1 \in 1..Len(u) /\ u[h - 1] = y
          BY <1>0, <1>3, <3>1, <4>2
        <5> QED BY <5>1
      <4> QED BY <2>2, <3>1, <4>1, <4>2
    <3> QED BY <1>3, <3>2, QueueSet
  <2> QED BY <2>1, <2>2
<1> QED BY <1>0, <1>3, <1>4, <1>5, <1>6, QueueSet

-----------------------------------------------------------------------------
(* The invariant. *)

Queued == ToSet(normal) \cup ToSet(urgent)

\* No job is queued twice.
QueuesApart == /\ normal \in Seq(Jobs) /\ urgent \in Seq(Jobs)
               /\ IsInjective(normal) /\ IsInjective(urgent)
               /\ ToSet(normal) \cap ToSet(urgent) = {}

\* The types of the rest.
XTypes == /\ record \in [Jobs \cup Restores -> Status] /\ slots \in Nat
          /\ exposed \subseteq Captures /\ streak \in Nat
          /\ spc \in [Jobs -> SubmitPc] /\ tpc \in [Threads -> ThreadPc]
          /\ tjob \in [Threads -> SUBSET Jobs] /\ attempt \in [Threads -> 0..MaxRetries]
          /\ rpc \in [Restores -> RestorePc]
          /\ stop \in {"no", "joining", "draining", "closed"}
          /\ ready \subseteq Captures /\ expedited \subseteq Jobs /\ overtaken \in Nat

\* A job that is queued is with no thread, and one that was accepted is somewhere.
QueuedJobs == \A j \in Jobs :
    /\ j \in Queued => spc[j] = "queued" /\ \A t \in Threads : j \notin tjob[t]
    /\ spc[j] = "queued" => j \in Queued \/ \E t \in Threads : j \in tjob[t]

\* A thread has one job from its dequeue until it has given the permit back, and
\* the job's future is resolved just before that.
ThreadsHold == \A t \in Threads :
    /\ tpc[t] \in {"idle", "exited"} => tjob[t] = {}
    /\ tpc[t] \notin {"idle", "exited"} => \E j \in Jobs : tjob[t] = {j}
    /\ \A j \in tjob[t] : spc[j] = IF tpc[t] = "release" THEN "done" ELSE "queued"
    /\ \A u \in Threads : tjob[t] \cap tjob[u] # {} => t = u

\* The streak counts at least what passed the head of the normal queue.
QuotaKept == overtaken <= streak /\ overtaken <= UrgentQuota

\* A request that is exposed has no job in the normal queue, and one that was
\* notified is exposed or had a job expedited.
Urgency == /\ ToSet(urgent) \subseteq expedited
           /\ exposed # {} => Reactive
           /\ \A j \in ToSet(normal) : RequestOf[j] \notin exposed
           /\ \A k \in ready : k \in exposed \/ \E i \in expedited : RequestOf[i] = k

\* The restore pool is shut down after the last thread has left.
Drained == stop \in {"draining", "closed"} => \A t \in Threads : tpc[t] = "exited"

XInv == /\ QueuesApart /\ XTypes /\ QueuedJobs /\ ThreadsHold /\ QuotaKept /\ Urgency /\ Drained
        /\ ActiveJobsVisible /\ SlotsConserved

\* There are finitely many permits.
LEMMA CapacityFinite == Capacity \in Nat
  BY ExecutorAssumption, FS_CardinalityType DEF Capacity

\* The jobs that hold a permit are finitely many.
LEMMA HoldersOfSlots == IsFiniteSet(SlotHolders) /\ Cardinality(SlotHolders) \in Nat
<1>1. IsFiniteSet(SlotHolders)
  BY ExecutorAssumption, FS_Subset DEF SlotHolders
<1> QED BY <1>1, FS_CardinalityType

\* Nothing is submitted, queued or running.
LEMMA XInitInv == XInit => XInv
<1> SUFFICES ASSUME XInit PROVE XInv
  OBVIOUS
<1>1. normal \in Seq(Jobs) /\ urgent \in Seq(Jobs) /\ Len(normal) = 0 /\ Len(urgent) = 0
  BY DEF XInit
<1>2. ToSet(normal) = {} /\ ToSet(urgent) = {} /\ IsInjective(normal) /\ IsInjective(urgent)
  <2>1. ASSUME NEW q \in Seq(Jobs), Len(q) = 0 PROVE ToSet(q) = {} /\ IsInjective(q)
    <3>1. 1..Len(q) = {}
      BY <2>1
    <3> QED BY <3>1, QueueSet
  <2> QED BY <1>1, <2>1
<1>3. QueuesApart /\ Queued = {}
  BY <1>1, <1>2 DEF QueuesApart, Queued
<1>4. XTypes
  <2>1. 0 \in 0..MaxRetries /\ slots \in Nat
    BY CapacityFinite, ExecutorAssumption DEF XInit
  <2> QED BY <2>1 DEF XInit, XTypes, Status, SubmitPc, ThreadPc, RestorePc
<1>5. QueuedJobs /\ ThreadsHold /\ Drained /\ ActiveJobsVisible
  BY <1>3 DEF XInit, QueuedJobs, ThreadsHold, Drained, ActiveJobsVisible
<1>6. QuotaKept /\ Urgency
  BY <1>2, ExecutorAssumption DEF XInit, QuotaKept, Urgency
<1>7. SlotsConserved
  <2>1. SlotHolders = {}
    BY DEF XInit, SlotHolders
  <2> QED BY <2>1, CapacityFinite, FS_EmptySet DEF XInit, SlotsConserved
<1> QED BY <1>3, <1>4, <1>5, <1>6, <1>7 DEF XInv

-----------------------------------------------------------------------------
(* submit_checkpoint *)

\* The steps of a submission that has no permit yet.
LEMMA SubmitEarly ==
  ASSUME XInv, NEW j \in Jobs, CheckShutdown(j) \/ RecordPending(j) \/ QueueFull(j),
         UNCHANGED <<threadVars, rpc, stop>>
  PROVE  XInv'
<1>1. PICK b \in SubmitPc \ {"acquired", "queued"} :
         spc[j] \notin {"acquired", "queued", "done"} /\ spc' = [spc EXCEPT ![j] = b]
  BY DEF CheckShutdown, RecordPending, QueueFull, SubmitGoto, SubmitPc
<1>2. /\ UNCHANGED <<slots, normal, urgent, exposed, streak, ready, expedited, overtaken>>
      /\ UNCHANGED <<tpc, tjob, attempt, rpc, stop>>
      /\ record' \in [Jobs \cup Restores -> Status]
      /\ \A i \in Jobs \cup Restores : i # j => record'[i] = record[i]
  BY DEF CheckShutdown, RecordPending, QueueFull, SetRecord, queueVars, historyVars, threadVars, XInv,
         XTypes, Status
<1>3. j \notin Queued /\ \A t \in Threads : j \notin tjob[t]
  BY <1>1 DEF XInv, QueuedJobs, ThreadsHold
<1>4. spc' \in [Jobs -> SubmitPc] /\ \A i \in Jobs : i # j => spc'[i] = spc[i]
  BY <1>1 DEF XInv, XTypes
<1>5. spc'[j] \notin {"acquired", "queued"}
  BY <1>1 DEF XInv, XTypes
<1>6. QueuesApart' /\ XTypes' /\ QuotaKept' /\ Urgency' /\ Drained'
  BY <1>2, <1>4 DEF XInv, QueuesApart, XTypes, QuotaKept, Urgency, Drained
<1>7. QueuedJobs' /\ ThreadsHold'
  BY <1>2, <1>3, <1>4, <1>5 DEF XInv, XTypes, QueuedJobs, ThreadsHold, Queued
<1>8. ActiveJobsVisible'
  BY <1>2, <1>3, ExecutorAssumption DEF XInv, XTypes, ActiveJobsVisible
<1>9. SlotHolders' = SlotHolders
  BY <1>1, <1>2, <1>3, <1>4, <1>5 DEF SlotHolders
<1> QED BY <1>2, <1>6, <1>7, <1>8, <1>9 DEF XInv, SlotsConserved

\* A permit is taken, or given back when shutdown came in between.
LEMMA SubmitSlot ==
  ASSUME XInv, NEW j \in Jobs, AcquireSlot(j) \/ BackOut(j), UNCHANGED <<threadVars, rpc, stop>>
  PROVE  XInv'
<1>1. /\ UNCHANGED <<record, normal, urgent, exposed, streak, ready, expedited, overtaken>>
      /\ UNCHANGED <<tpc, tjob, attempt, rpc, stop>>
  BY DEF AcquireSlot, BackOut, queueVars, historyVars, threadVars
<1>2. /\ spc[j] \in {"recorded", "acquired"} /\ spc' \in [Jobs -> SubmitPc]
      /\ spc'[j] # "queued" /\ \A i \in Jobs : i # j => spc'[i] = spc[i]
  BY DEF AcquireSlot, BackOut, SubmitGoto, XInv, XTypes, SubmitPc
<1>3. j \notin Queued /\ \A t \in Threads : j \notin tjob[t]
  BY <1>2 DEF XInv, QueuedJobs, ThreadsHold
<1>4. slots' \in Nat
  BY DEF AcquireSlot, BackOut, XInv, XTypes
<1>5. QueuesApart' /\ XTypes' /\ QuotaKept' /\ Urgency' /\ Drained' /\ ActiveJobsVisible'
  BY <1>1, <1>2, <1>4 DEF XInv, QueuesApart, XTypes, QuotaKept, Urgency, Drained, ActiveJobsVisible
<1>6. QueuedJobs' /\ ThreadsHold'
  BY <1>1, <1>2, <1>3 DEF XInv, XTypes, QueuedJobs, ThreadsHold, Queued
<1>7. SlotsConserved'
  <2>1. CASE AcquireSlot(j)
    <3>1. spc[j] = "recorded" /\ spc'[j] = "acquired" /\ slots' = slots - 1
      BY <2>1 DEF AcquireSlot, SubmitGoto, XInv, XTypes
    <3>2. j \notin SlotHolders /\ SlotHolders' = SlotHolders \cup {j}
      BY <1>1, <1>2, <1>3, <3>1 DEF SlotHolders
    <3>3. Cardinality(SlotHolders') = Cardinality(SlotHolders) + 1
      BY <3>2, HoldersOfSlots, FS_AddElement
    <3> QED BY <3>1, <3>3, HoldersOfSlots, CapacityFinite DEF XInv, XTypes, SlotsConserved
  <2>2. CASE BackOut(j)
    <3>1. spc[j] = "acquired" /\ spc'[j] = "refused" /\ slots' = slots + 1
      BY <2>2 DEF BackOut, SubmitGoto, XInv, XTypes
    <3>2. j \in SlotHolders /\ SlotHolders' = SlotHolders \ {j}
      BY <1>1, <1>2, <1>3, <3>1 DEF SlotHolders
    <3>3. Cardinality(SlotHolders') = Cardinality(SlotHolders) - 1
      BY <3>2, HoldersOfSlots, FS_RemoveElement
    <3> QED BY <3>1, <3>3, HoldersOfSlots, CapacityFinite DEF XInv, XTypes, SlotsConserved
  <2> QED BY <2>1, <2>2
<1> QED BY <1>5, <1>6, <1>7 DEF XInv

\* The job enters one of the queues.
LEMMA EnqueueInv ==
  ASSUME XInv, NEW j \in Jobs, Enqueue(j), UNCHANGED <<threadVars, rpc, stop>>
  PROVE  XInv'
<1>1. UNCHANGED <<record, slots, streak, ready, tpc, tjob, attempt, rpc, stop>>
  BY DEF Enqueue, threadVars
<1>2. /\ spc[j] = "acquired" /\ spc'[j] = "queued" /\ spc' \in [Jobs -> SubmitPc]
      /\ \A i \in Jobs : i # j => spc'[i] = spc[i]
  BY DEF Enqueue, SubmitGoto, XInv, XTypes, SubmitPc
<1>3. j \notin Queued /\ \A t \in Threads : j \notin tjob[t]
  BY <1>2 DEF XInv, QueuedJobs, ThreadsHold
<1>4. /\ QueuesApart' /\ Queued' = Queued \cup {j}
      /\ \/ /\ ToSet(urgent') = ToSet(urgent) \cup {j} /\ exposed' = exposed \ {RequestOf[j]}
            /\ expedited' = expedited \cup {j} /\ UNCHANGED <<normal, overtaken>>
         \/ /\ ToSet(normal') = ToSet(normal) \cup {j} /\ overtaken' \in {0, overtaken}
            /\ ~(Reactive /\ RequestOf[j] \in exposed) /\ UNCHANGED <<urgent, exposed, expedited>>
  <2>1. CASE Reactive /\ RequestOf[j] \in exposed
    <3>1. /\ urgent' = Append(urgent, j) /\ exposed' = exposed \ {RequestOf[j]}
          /\ expedited' = expedited \cup {j} /\ UNCHANGED <<normal, overtaken>>
      BY <2>1 DEF Enqueue
    <3>2. /\ urgent' \in Seq(Jobs) /\ ToSet(urgent') = ToSet(urgent) \cup {j} /\ IsInjective(urgent')
      BY <1>3, <3>1, QueueAppend DEF XInv, QueuesApart, Queued
    <3> QED BY <1>3, <3>1, <3>2 DEF XInv, QueuesApart, Queued
  <2>2. CASE ~(Reactive /\ RequestOf[j] \in exposed)
    <3>1. /\ normal' = Append(normal, j) /\ overtaken' \in {0, overtaken}
          /\ UNCHANGED <<urgent, exposed, expedited>>
      BY <2>2 DEF Enqueue
    <3>2. /\ normal' \in Seq(Jobs) /\ ToSet(normal') = ToSet(normal) \cup {j} /\ IsInjective(normal')
      BY <1>3, <3>1, QueueAppend DEF XInv, QueuesApart, Queued
    <3> QED BY <1>3, <2>2, <3>1, <3>2 DEF XInv, QueuesApart, Queued
  <2> QED BY <2>1, <2>2
<1>5. XTypes'
  BY <1>1, <1>2, <1>4 DEF XInv, XTypes
<1>6. QuotaKept'
  BY <1>1, <1>4, ExecutorAssumption DEF XInv, XTypes, QuotaKept
<1>7. Urgency'
  BY <1>1, <1>4 DEF XInv, Urgency
<1>8. QueuedJobs' /\ ThreadsHold'
  BY <1>1, <1>2, <1>3, <1>4 DEF XInv, XTypes, QueuedJobs, ThreadsHold
<1>9. Drained' /\ ActiveJobsVisible'
  BY <1>1 DEF XInv, Drained, ActiveJobsVisible
<1>10. SlotHolders' = SlotHolders
  BY <1>1, <1>2 DEF SlotHolders
<1> QED BY <1>1, <1>4, <1>5, <1>6, <1>7, <1>8, <1>9, <1>10 DEF XInv, SlotsConserved

-----------------------------------------------------------------------------
(* notify_live_response_ready and clear_live_response_ready *)

\* The two queues together.
LEMMA QueuedIsConcat ==
  ASSUME QueuesApart
  PROVE  ToSet(normal \o urgent) = Queued
<1>1. /\ normal \o urgent \in Seq(Jobs) /\ Len(normal \o urgent) = Len(normal) + Len(urgent)
      /\ \A i \in 1..Len(normal) + Len(urgent) :
            (normal \o urgent)[i] = IF i <= Len(normal) THEN normal[i] ELSE urgent[i - Len(normal)]
  BY ConcatProperties DEF QueuesApart
<1>2. Len(normal) \in Nat /\ Len(urgent) \in Nat
  BY DEF QueuesApart
<1>3. ASSUME NEW x \in ToSet(normal \o urgent) PROVE x \in Queued
  <2>0. PICK h \in 1..Len(normal \o urgent) : (normal \o urgent)[h] = x
    BY <1>1, QueueSet
  <2>1. PICK i \in 1..Len(normal) + Len(urgent) : (normal \o urgent)[i] = x
    BY <1>1, <2>0
  <2>2. CASE i <= Len(normal)
    BY <1>1, <1>2, <2>1, <2>2, QueueSet DEF QueuesApart, Queued
  <2>3. CASE i > Len(normal)
    <3>1. i - Len(normal) \in 1..Len(urgent) /\ urgent[i - Len(normal)] = x
      BY <1>1, <1>2, <2>1, <2>3
    <3> QED BY <3>1, QueueSet DEF QueuesApart, Queued
  <2> QED BY <1>2, <2>2, <2>3
<1>4. ASSUME NEW x \in ToSet(normal) PROVE x \in ToSet(normal \o urgent)
  <2>1. PICK i \in 1..Len(normal) : normal[i] = x
    BY QueueSet DEF QueuesApart
  <2>2. i \in 1..Len(normal) + Len(urgent) /\ (normal \o urgent)[i] = x
    BY <1>1, <1>2, <2>1
  <2> QED BY <1>1, <2>2, QueueSet
<1>5. ASSUME NEW x \in ToSet(urgent) PROVE x \in ToSet(normal \o urgent)
  <2>1. PICK i \in 1..Len(urgent) : urgent[i] = x
    BY QueueSet DEF QueuesApart
  <2>2. Len(normal) + i \in 1..Len(normal) + Len(urgent) /\ (normal \o urgent)[Len(normal) + i] = x
    BY <1>1, <1>2, <2>1
  <2> QED BY <1>1, <2>2, QueueSet
<1> QED BY <1>3, <1>4, <1>5 DEF Queued

\* What is registered for a request is queued.
LEMMA RegisteredIsQueued ==
  ASSUME QueuesApart, NEW k
  PROVE  Registered(k) = {j \in Queued : RequestOf[j] = k}
  BY QueuedIsConcat DEF Registered

\* A notified request is expedited through its oldest queued job, or exposed.
LEMMA NotifyInv ==
  ASSUME XInv, NEW k \in Captures, NotifyReady(k)
  PROVE  XInv'
<1>1. /\ UNCHANGED <<record, slots, streak, spc, tpc, tjob, attempt, rpc, stop>>
      /\ ready' = ready \cup {k} /\ Reactive
  BY DEF NotifyReady, threadVars
<1>2. /\ QueuesApart' /\ Queued' = Queued /\ exposed' \subseteq Captures /\ expedited' \subseteq Jobs
      /\ overtaken' \in {0, overtaken} /\ Urgency'
  <2>1. CASE Promote(k)
    <3>1. PICK i \in OldestOf(k) :
             /\ normal' = RemoveAt(normal, i) /\ urgent' = Append(urgent, normal[i])
             /\ expedited' = expedited \cup {normal[i]}
             /\ overtaken' = IF i = 1 THEN 0 ELSE overtaken
      BY <2>1 DEF Promote
    <3>2. exposed' = exposed \ {k} /\ i \in 1..Len(normal) /\ RequestOf[normal[i]] = k
      BY <2>1 DEF Promote, OldestOf
    <3> DEFINE x == normal[i]
    <3>3. /\ normal' \in Seq(Jobs) /\ IsInjective(normal') /\ ToSet(normal') = ToSet(normal) \ {x}
          /\ x \in ToSet(normal)
      BY <3>1, <3>2, QueueRemove DEF XInv, QueuesApart
    <3>4. x \in Jobs /\ x \notin ToSet(urgent)
      BY <3>3, QueueSet DEF XInv, QueuesApart
    <3> HIDE DEF x
    <3>5. /\ urgent' \in Seq(Jobs) /\ IsInjective(urgent') /\ ToSet(urgent') = ToSet(urgent) \cup {x}
      <4>1. urgent' = Append(urgent, x)
        BY <3>1 DEF x
      <4> QED BY <3>4, <4>1, QueueAppend DEF XInv, QueuesApart
    <3>6. QueuesApart' /\ Queued' = Queued
      BY <3>3, <3>4, <3>5 DEF XInv, QueuesApart, Queued
    <3>7. expedited' = expedited \cup {x} /\ RequestOf[x] = k
      BY <3>1, <3>2 DEF x
    <3>8. Urgency'
      BY <1>1, <3>2, <3>3, <3>5, <3>7 DEF XInv, Urgency
    <3> QED BY <3>1, <3>2, <3>4, <3>6, <3>7, <3>8 DEF XInv, XTypes
  <2>2. CASE AlreadyUrgent(k)
    <3>1. exposed' = exposed \ {k} /\ UNCHANGED <<normal, urgent, expedited, overtaken>>
      BY <2>2 DEF AlreadyUrgent
    <3>2. \E i \in expedited : RequestOf[i] = k
      BY <2>2 DEF AlreadyUrgent, Registered, XInv, Urgency
    <3>3. Urgency'
      BY <1>1, <3>1, <3>2 DEF XInv, Urgency
    <3> QED BY <3>1, <3>3 DEF XInv, XTypes, QueuesApart, Queued
  <2>3. CASE Expose(k)
    <3>1. exposed' = exposed \cup {k} /\ UNCHANGED <<normal, urgent, expedited, overtaken>>
      BY <2>3 DEF Expose
    <3>2. \A j \in ToSet(normal) : RequestOf[j] # k
      BY <2>3, RegisteredIsQueued DEF Expose, XInv, Queued
    <3>3. Urgency'
      BY <1>1, <3>1, <3>2 DEF XInv, Urgency
    <3> QED BY <3>1, <3>3 DEF XInv, XTypes, QueuesApart, Queued
  <2> QED BY <2>1, <2>2, <2>3 DEF NotifyReady
<1>3. XTypes'
  BY <1>1, <1>2 DEF XInv, XTypes
<1>4. QuotaKept'
  BY <1>1, <1>2, ExecutorAssumption DEF XInv, XTypes, QuotaKept
<1>5. QueuedJobs' /\ ThreadsHold' /\ Drained' /\ ActiveJobsVisible' /\ SlotsConserved'
  BY <1>1, <1>2 DEF XInv, QueuedJobs, ThreadsHold, Drained, ActiveJobsVisible, SlotsConserved, SlotHolders
<1> QED BY <1>2, <1>3, <1>4, <1>5 DEF XInv

\* Forgetting a notification forgets both its marks.
LEMMA ClearInv ==
  ASSUME XInv, NEW ks, ClearReady(ks)
  PROVE  XInv'
<1>1. /\ UNCHANGED <<record, slots, normal, urgent, streak, spc, tpc, tjob, attempt, rpc, stop>>
      /\ UNCHANGED <<expedited, overtaken>> /\ exposed' = exposed \ ks /\ ready' = ready \ ks
  BY DEF ClearReady, threadVars
<1>2. QueuesApart' /\ XTypes' /\ QuotaKept' /\ Drained'
  BY <1>1 DEF XInv, QueuesApart, XTypes, QuotaKept, Drained
<1>3. Urgency'
  BY <1>1 DEF XInv, Urgency
<1> QED BY <1>1, <1>2, <1>3
        DEF XInv, QueuedJobs, Queued, ThreadsHold, ActiveJobsVisible, SlotsConserved, SlotHolders

-----------------------------------------------------------------------------
(* _checkpoint_worker_loop *)

\* The job at the head of a queue goes to the thread.
LEMMA DequeueInv ==
  ASSUME XInv, NEW t \in Threads, Dequeue(t), UNCHANGED <<rpc, stop>>
  PROVE  XInv'
<1>1. UNCHANGED <<record, slots, spc, attempt, ready, expedited, exposed, rpc, stop>>
  BY DEF Dequeue, TakeUrgent, TakeNormal
<1>2. PICK j \in Queued :
         /\ tjob' = [tjob EXCEPT ![t] = {j}] /\ tpc[t] = "idle" /\ tpc' = [tpc EXCEPT ![t] = "start"]
         /\ QueuesApart' /\ Queued' = Queued \ {j}
         /\ ToSet(urgent') \subseteq ToSet(urgent) /\ ToSet(normal') \subseteq ToSet(normal)
         /\ streak' \in Nat /\ overtaken' \in Nat /\ overtaken' <= streak' /\ overtaken' <= UrgentQuota
  <2>1. CASE TakeUrgent(t)
    <3>1. /\ urgent # <<>> /\ tpc[t] = "idle" /\ tpc' = [tpc EXCEPT ![t] = "start"]
          /\ tjob' = [tjob EXCEPT ![t] = {Head(urgent)}] /\ urgent' = Tail(urgent) /\ normal' = normal
      BY <2>1 DEF TakeUrgent, ThreadGoto
    <3>2. /\ Head(urgent) \in ToSet(urgent) /\ urgent' \in Seq(Jobs) /\ IsInjective(urgent')
          /\ ToSet(urgent') = ToSet(urgent) \ {Head(urgent)}
      BY <3>1, QueueTail DEF XInv, QueuesApart
    <3>3. QueuesApart' /\ Queued' = Queued \ {Head(urgent)}
      BY <3>1, <3>2 DEF XInv, QueuesApart, Queued
    <3>4. streak' \in Nat /\ overtaken' \in Nat /\ overtaken' <= streak' /\ overtaken' <= UrgentQuota
      BY <2>1, ExecutorAssumption DEF TakeUrgent, QuotaSpent, XInv, XTypes, QuotaKept
    <3> QED BY <3>1, <3>2, <3>3, <3>4 DEF Queued
  <2>2. CASE TakeNormal(t)
    <3>1. /\ normal # <<>> /\ tpc[t] = "idle" /\ tpc' = [tpc EXCEPT ![t] = "start"]
          /\ tjob' = [tjob EXCEPT ![t] = {Head(normal)}] /\ normal' = Tail(normal) /\ urgent' = urgent
      BY <2>2 DEF TakeNormal, ThreadGoto
    <3>2. /\ Head(normal) \in ToSet(normal) /\ normal' \in Seq(Jobs) /\ IsInjective(normal')
          /\ ToSet(normal') = ToSet(normal) \ {Head(normal)}
      BY <3>1, QueueTail DEF XInv, QueuesApart
    <3>3. QueuesApart' /\ Queued' = Queued \ {Head(normal)}
      BY <3>1, <3>2 DEF XInv, QueuesApart, Queued
    <3>4. streak' \in Nat /\ overtaken' \in Nat /\ overtaken' <= streak' /\ overtaken' <= UrgentQuota
      BY <2>2, ExecutorAssumption DEF TakeNormal, XInv, XTypes, QuotaKept
    <3> QED BY <3>1, <3>2, <3>3, <3>4 DEF Queued
  <2> QED BY <2>1, <2>2 DEF Dequeue
<1>3. j \in Jobs /\ spc[j] = "queued" /\ tjob[t] = {} /\ \A u \in Threads : j \notin tjob[u]
  <2>1. j \in Jobs
    BY QueueSet DEF XInv, QueuesApart, Queued
  <2> QED BY <1>2, <2>1 DEF XInv, QueuedJobs, ThreadsHold
<1>4. /\ tpc' \in [Threads -> ThreadPc] /\ tjob' \in [Threads -> SUBSET Jobs]
      /\ tpc'[t] = "start" /\ tjob'[t] = {j}
      /\ \A u \in Threads : u # t => tpc'[u] = tpc[u] /\ tjob'[u] = tjob[u]
  BY <1>2, <1>3 DEF XInv, XTypes, ThreadPc
<1>5. XTypes' /\ QuotaKept'
  BY <1>1, <1>2, <1>4 DEF XInv, XTypes, QuotaKept
<1>6. QueuedJobs'
  BY <1>1, <1>2, <1>3, <1>4 DEF XInv, QueuedJobs
<1>7. ThreadsHold'
  BY <1>1, <1>3, <1>4 DEF XInv, ThreadsHold
<1>8. Urgency'
  BY <1>1, <1>2 DEF XInv, Urgency
<1>9. Drained' /\ ActiveJobsVisible'
  BY <1>1, <1>2, <1>4 DEF XInv, Drained, ActiveJobsVisible
<1>10. SlotHolders' = SlotHolders
  BY <1>1, <1>3, <1>4 DEF SlotHolders
<1> QED BY <1>1, <1>2, <1>5, <1>6, <1>7, <1>8, <1>9, <1>10 DEF XInv, SlotsConserved

\* The thread runs its job: the record is the job's own, and only an attempt
\* needs it to be an active one.
LEMMA RunInv ==
  ASSUME XInv, NEW t \in Threads, UNCHANGED <<rpc, stop>>,
         StartJob(t) \/ RetryJob(t) \/ EndJob(t) \/ FinishItem(t) \/ ExitThread(t)
  PROVE  XInv'
<1>1. /\ UNCHANGED <<slots, normal, urgent, exposed, streak, spc, tjob, ready, expedited, overtaken>>
      /\ UNCHANGED <<rpc, stop>>
  BY DEF StartJob, RetryJob, EndJob, FinishItem, ExitThread, queueVars, historyVars
<1> DEFINE Runs(a, b) ==
             /\ tpc[t] = a /\ tpc' = [tpc EXCEPT ![t] = b] /\ a # "exited"
             /\ a \in {"idle", "exited"} <=> b \in {"idle", "exited"}
             /\ b = "attempt" => \/ a = "attempt" /\ UNCHANGED record
                                 \/ \E j \in tjob[t] : SetRecord(j, "running")
<1>2. PICK a, b \in ThreadPc \ {"release"} : Runs(a, b)
  <2>1. CASE StartJob(t)
    <3>1. Runs("start", "attempt")
      BY <2>1 DEF StartJob, ThreadGoto
    <3> HIDE DEF Runs
    <3> QED BY <3>1 DEF ThreadPc
  <2>2. CASE RetryJob(t)
    <3>1. Runs("attempt", "attempt")
      BY <2>2 DEF RetryJob, ThreadGoto
    <3> HIDE DEF Runs
    <3> QED BY <3>1 DEF ThreadPc
  <2>3. CASE EndJob(t)
    <3>1. Runs("attempt", "finish")
      BY <2>3 DEF EndJob, ThreadGoto
    <3> HIDE DEF Runs
    <3> QED BY <3>1 DEF ThreadPc
  <2>4. CASE FinishItem(t)
    <3>1. Runs("finish", "resolve")
      BY <2>4 DEF FinishItem, ThreadGoto
    <3> HIDE DEF Runs
    <3> QED BY <3>1 DEF ThreadPc
  <2>5. CASE ExitThread(t)
    <3>1. Runs("idle", "exited")
      BY <2>5 DEF ExitThread, ThreadGoto
    <3> HIDE DEF Runs
    <3> QED BY <3>1 DEF ThreadPc
  <2> QED BY <2>1, <2>2, <2>3, <2>4, <2>5
<1>3. attempt' \in [Threads -> 0..MaxRetries]
  BY ExecutorAssumption DEF StartJob, RetryJob, EndJob, FinishItem, ExitThread, XInv, XTypes
<1>4. /\ record' \in [Jobs \cup Restores -> Status]
      /\ \A i \in Jobs \cup Restores : i \notin tjob[t] => record'[i] = record[i]
      /\ b = "attempt" => \A i \in tjob[t] : record'[i] \in Active
  <2>1. UNCHANGED record \/ \E j \in tjob[t], status \in Status : SetRecord(j, status)
    BY DEF StartJob, RetryJob, EndJob, FinishItem, ExitThread, Status
  <2>2. tjob[t] \subseteq Jobs /\ \A i, j \in tjob[t] : i = j
    BY DEF XInv, XTypes, ThreadsHold
  <2>3. /\ record' \in [Jobs \cup Restores -> Status]
        /\ \A i \in Jobs \cup Restores : i \notin tjob[t] => record'[i] = record[i]
    BY <2>1, <2>2 DEF SetRecord, XInv, XTypes
  <2>4. ASSUME b = "attempt" PROVE \A i \in tjob[t] : record'[i] \in Active
    <3>1. CASE a = "attempt" /\ UNCHANGED record
      BY <1>2, <3>1 DEF XInv, ActiveJobsVisible
    <3>2. CASE \E j \in tjob[t] : SetRecord(j, "running")
      BY <2>2, <3>2 DEF SetRecord, XInv, XTypes, Active
    <3> QED BY <1>2, <2>4, <3>1, <3>2
  <2> QED BY <2>3, <2>4
<1>5. /\ tpc' \in [Threads -> ThreadPc] /\ tpc'[t] = b
      /\ \A u \in Threads : u # t => tpc'[u] = tpc[u]
  BY <1>2 DEF XInv, XTypes
<1>6. QueuesApart' /\ XTypes' /\ QuotaKept' /\ Urgency' /\ QueuedJobs'
  BY <1>1, <1>3, <1>4, <1>5 DEF XInv, QueuesApart, XTypes, QuotaKept, Urgency, QueuedJobs, Queued
<1>7. ThreadsHold'
  BY <1>1, <1>2, <1>5 DEF XInv, ThreadsHold
<1>8. Drained'
  BY <1>1, <1>2, <1>5 DEF XInv, Drained
<1>9. ActiveJobsVisible'
  <2>1. \A u \in Threads : tpc'[u] = "attempt" => \A j \in tjob[u] : record'[j] \in Active
    <3>1. ASSUME NEW u \in Threads, u # t, tpc'[u] = "attempt", NEW j \in tjob[u]
          PROVE  record'[j] \in Active
      <4>1. j \in Jobs /\ j \notin tjob[t]
        BY <3>1 DEF XInv, XTypes, ThreadsHold
      <4> QED BY <1>4, <1>5, <3>1, <4>1 DEF XInv, ActiveJobsVisible
    <3> QED BY <1>4, <1>5, <3>1
  <2>2. \A j \in Restores : rpc[j] = "attempt" => record'[j] \in Active
    <3>1. tjob[t] \cap Restores = {}
      BY ExecutorAssumption DEF XInv, XTypes
    <3> QED BY <1>4, <3>1 DEF XInv, ActiveJobsVisible
  <2>3. stop = "closed" => \A u \in Threads : tpc'[u] = "exited"
    BY <1>2 DEF XInv, ActiveJobsVisible
  <2> QED BY <1>1, <2>1, <2>2, <2>3 DEF XInv, ActiveJobsVisible
<1>10. SlotHolders' = SlotHolders
  BY <1>1 DEF SlotHolders
<1> QED BY <1>1, <1>6, <1>7, <1>8, <1>9, <1>10 DEF XInv, SlotsConserved

\* The future is resolved while the thread still has the permit.
LEMMA ResolveInv ==
  ASSUME XInv, NEW t \in Threads, ResolveFuture(t), UNCHANGED <<rpc, stop>>
  PROVE  XInv'
<1>1. /\ UNCHANGED <<record, slots, normal, urgent, exposed, streak, tjob, attempt>>
      /\ UNCHANGED <<ready, expedited, overtaken, rpc, stop>>
  BY DEF ResolveFuture, queueVars, historyVars
<1>2. PICK j \in tjob[t] : spc' = [spc EXCEPT ![j] = "done"]
  BY DEF ResolveFuture
<1>3. tpc[t] = "resolve" /\ tpc' = [tpc EXCEPT ![t] = "release"]
  BY DEF ResolveFuture, ThreadGoto
<1>4. /\ j \in Jobs /\ tjob[t] = {j} /\ j \notin Queued /\ \A u \in Threads : j \in tjob[u] => u = t
  <2>1. j \in Jobs /\ tjob[t] = {j} /\ \A u \in Threads : j \in tjob[u] => u = t
    BY <1>2, <1>3 DEF XInv, XTypes, ThreadsHold
  <2> QED BY <2>1 DEF XInv, QueuedJobs
<1>5. /\ spc' \in [Jobs -> SubmitPc] /\ spc'[j] = "done"
      /\ \A i \in Jobs : i # j => spc'[i] = spc[i]
      /\ tpc' \in [Threads -> ThreadPc] /\ tpc'[t] = "release"
      /\ \A u \in Threads : u # t => tpc'[u] = tpc[u]
  BY <1>2, <1>3, <1>4 DEF XInv, XTypes, SubmitPc, ThreadPc
<1>6. QueuesApart' /\ XTypes' /\ QuotaKept' /\ Urgency'
  <2>1. XTypes'
    BY <1>1, <1>5 DEF XInv, XTypes
  <2>2. QueuesApart' /\ QuotaKept'
    BY <1>1, <1>5 DEF XInv, QueuesApart, QuotaKept
  <2>3. Urgency'
    BY <1>1, <1>5 DEF XInv, Urgency
  <2> QED BY <2>1, <2>2, <2>3
<1>7. QueuedJobs'
  BY <1>1, <1>4, <1>5 DEF XInv, QueuedJobs, Queued
<1>8. ThreadsHold'
  <2>1. /\ \A u \in Threads : tpc'[u] \in {"idle", "exited"} => tjob[u] = {}
        /\ \A u \in Threads : tpc'[u] \notin {"idle", "exited"} => \E i \in Jobs : tjob[u] = {i}
    BY <1>3, <1>4, <1>5 DEF XInv, ThreadsHold
  <2>2. ASSUME NEW u \in Threads, NEW i \in tjob[u]
        PROVE  spc'[i] = IF tpc'[u] = "release" THEN "done" ELSE "queued"
    <3>1. i \in Jobs
      BY <2>2 DEF XInv, XTypes
    <3>2. CASE u = t
      BY <1>4, <1>5, <3>2
    <3>3. CASE u # t
      BY <1>4, <1>5, <3>1, <3>3 DEF XInv, ThreadsHold
    <3> QED BY <3>2, <3>3
  <2>3. \A u, v \in Threads : tjob[u] \cap tjob[v] # {} => u = v
    BY DEF XInv, ThreadsHold
  <2> QED BY <1>1, <2>1, <2>2, <2>3 DEF ThreadsHold
<1>9. Drained' /\ ActiveJobsVisible'
  <2>1. Drained'
    BY <1>1, <1>3, <1>5 DEF XInv, Drained
  <2>2. ActiveJobsVisible'
    BY <1>1, <1>3, <1>5 DEF XInv, ActiveJobsVisible
  <2> QED BY <2>1, <2>2
<1>10. SlotHolders' = SlotHolders
  BY <1>1, <1>4, <1>5 DEF SlotHolders
<1> QED BY <1>1, <1>6, <1>7, <1>8, <1>9, <1>10 DEF XInv, SlotsConserved

\* The future's callback gives the permit back, once.
LEMMA ReleaseSlotInv ==
  ASSUME XInv, NEW t \in Threads, ReleaseSlot(t), UNCHANGED <<rpc, stop>>
  PROVE  XInv'
<1>1. /\ UNCHANGED <<record, normal, urgent, exposed, streak, spc, attempt>>
      /\ UNCHANGED <<ready, expedited, overtaken, rpc, stop>>
  BY DEF ReleaseSlot, queueVars, historyVars
<1>2. /\ tpc[t] = "release" /\ tpc' = [tpc EXCEPT ![t] = "idle"]
      /\ tjob' = [tjob EXCEPT ![t] = {}] /\ slots' = slots + 1
  BY DEF ReleaseSlot, ThreadGoto
<1>3. PICK j \in Jobs : tjob[t] = {j} /\ spc[j] = "done" /\ \A u \in Threads : j \in tjob[u] => u = t
  BY <1>2 DEF XInv, XTypes, ThreadsHold
<1>4. /\ tpc' \in [Threads -> ThreadPc] /\ tjob' \in [Threads -> SUBSET Jobs]
      /\ tpc'[t] = "idle" /\ tjob'[t] = {}
      /\ \A u \in Threads : u # t => tpc'[u] = tpc[u] /\ tjob'[u] = tjob[u]
  BY <1>2 DEF XInv, XTypes, ThreadPc
<1>5. QueuesApart' /\ XTypes' /\ QuotaKept' /\ Urgency'
  <2>1. slots' \in Nat
    BY <1>2 DEF XInv, XTypes
  <2>2. XTypes'
    BY <1>1, <1>4, <2>1 DEF XInv, XTypes
  <2>3. QueuesApart' /\ QuotaKept'
    BY <1>1 DEF XInv, QueuesApart, QuotaKept
  <2>4. Urgency'
    BY <1>1 DEF XInv, Urgency
  <2> QED BY <2>2, <2>3, <2>4
<1>6. QueuedJobs'
  BY <1>1, <1>3, <1>4 DEF XInv, QueuedJobs, Queued
<1>7. ThreadsHold'
  BY <1>1, <1>4 DEF XInv, ThreadsHold
<1>8. Drained' /\ ActiveJobsVisible'
  <2>1. Drained'
    BY <1>1, <1>2, <1>4 DEF XInv, Drained
  <2>2. ActiveJobsVisible'
    BY <1>1, <1>2, <1>4 DEF XInv, ActiveJobsVisible
  <2> QED BY <2>1, <2>2
<1>9. SlotsConserved'
  <2>1. j \in SlotHolders /\ SlotHolders' = SlotHolders \ {j}
    BY <1>1, <1>3, <1>4 DEF SlotHolders
  <2>2. Cardinality(SlotHolders') = Cardinality(SlotHolders) - 1
    BY <2>1, HoldersOfSlots, FS_RemoveElement
  <2> QED BY <1>2, <2>2, HoldersOfSlots, CapacityFinite DEF XInv, XTypes, SlotsConserved
<1> QED BY <1>5, <1>6, <1>7, <1>8, <1>9 DEF XInv

-----------------------------------------------------------------------------
(* Restores and shutdown. *)

\* A restore has a record of its own, and is not accepted after the join.
LEMMA RestoreInv ==
  ASSUME XInv, NEW j \in Restores, Restore(j)
  PROVE  XInv'
<1>1. /\ UNCHANGED <<slots, normal, urgent, exposed, streak, spc, tpc, tjob, attempt, stop>>
      /\ UNCHANGED <<ready, expedited, overtaken>>
  BY DEF Restore, queueVars, threadVars, historyVars
<1>2. /\ record' \in [Jobs \cup Restores -> Status] /\ rpc' \in [Restores -> RestorePc]
      /\ \A i \in Jobs \cup Restores : i # j => record'[i] = record[i]
      /\ \A i \in Restores : i # j => rpc'[i] = rpc[i]
      /\ rpc'[j] = "attempt" => record'[j] \in Active
      /\ stop = "closed" => rpc'[j] \notin {"queued", "attempt"}
  <2> USE DEF RestoreGoto, SetRecord, XInv, XTypes, Status, RestorePc, Active, ActiveJobsVisible
  <2>1. CASE RecordRestore(j)
    BY <2>1 DEF RecordRestore
  <2>2. CASE PoolSubmit(j)
    BY <2>2 DEF PoolSubmit
  <2>3. CASE StartRestore(j)
    BY <2>3 DEF StartRestore
  <2>4. CASE EndRestore(j)
    BY <2>4 DEF EndRestore
  <2> QED BY <2>1, <2>2, <2>3, <2>4 DEF Restore
<1>3. QueuesApart' /\ XTypes' /\ QuotaKept' /\ Urgency' /\ Drained'
  BY <1>1, <1>2 DEF XInv, QueuesApart, XTypes, QuotaKept, Urgency, Drained
<1>4. QueuedJobs' /\ ThreadsHold' /\ SlotsConserved'
  BY <1>1 DEF XInv, QueuedJobs, Queued, ThreadsHold, SlotsConserved, SlotHolders
<1>5. ActiveJobsVisible'
  BY <1>1, <1>2, ExecutorAssumption DEF XInv, XTypes, ActiveJobsVisible
<1> QED BY <1>3, <1>4, <1>5 DEF XInv

\* shutdown joins the threads before the pool, and the pool before the workers.
LEMMA ShutdownInv ==
  ASSUME XInv, Shutdown
  PROVE  XInv'
<1>1. /\ UNCHANGED <<record, slots, normal, urgent, exposed, streak, spc, tpc, tjob, attempt, rpc>>
      /\ UNCHANGED <<ready, expedited, overtaken>>
  BY DEF Shutdown, queueVars, threadVars, historyVars
<1>2. stop' \in {"joining", "draining", "closed"} /\ Drained' /\ ActiveJobsVisible'
  BY <1>1 DEF Shutdown, StopGoto, XInv, Drained, ActiveJobsVisible
<1> QED BY <1>1, <1>2 DEF XInv, QueuesApart, XTypes, QuotaKept, Urgency, QueuedJobs, Queued, ThreadsHold,
                          SlotsConserved, SlotHolders

-----------------------------------------------------------------------------
\* One step keeps the invariant.
LEMMA XStep ==
  ASSUME XInv, [XNext]_xvars
  PROVE  XInv'
<1>1. ASSUME NEW j \in Jobs, Submit(j) PROVE XInv'
  BY <1>1, SubmitEarly, SubmitSlot, EnqueueInv DEF Submit
<1>2. ASSUME NEW t \in Threads, Thread(t) PROVE XInv'
  BY <1>2, DequeueInv, RunInv, ResolveInv, ReleaseSlotInv DEF Thread
<1>3. CASE UNCHANGED xvars
  BY <1>3 DEF xvars, queueVars, threadVars, historyVars, XInv, QueuesApart, XTypes, QuotaKept, Urgency, QueuedJobs,
              Queued, ThreadsHold, Drained, ActiveJobsVisible, SlotsConserved, SlotHolders
<1> QED BY <1>1, <1>2, <1>3, NotifyInv, ClearInv, RestoreInv, ShutdownInv DEF XNext

\* The inductive invariant of the executor.
THEOREM ExecutorInvariance == XSpec => []XInv
<1>1. XInv /\ [XNext]_xvars => XInv'
  BY XStep
<1> QED BY <1>1, XInitInv, PTL DEF XSpec

\* No permit of _checkpoint_slots is lost or given back twice, for any number of
\* jobs and threads and any order of refusals, failures, retries and shutdown.
THEOREM SlotsAreConserved == XSpec => []SlotsConserved
<1>1. XInv => SlotsConserved
  BY DEF XInv
<1> QED BY <1>1, ExecutorInvariance, PTL

\* Two queues that share no job are one queue without repetition.
LEMMA OneQueue ==
  ASSUME QueuesApart
  PROVE  /\ IsInjective(normal \o urgent)
         /\ \A j : Contains(normal \o urgent, j) <=> j \in Queued
<1> DEFINE c == normal \o urgent
<1>1. /\ c \in Seq(Jobs) /\ Len(c) = Len(normal) + Len(urgent)
      /\ \A i \in 1..Len(normal) + Len(urgent) :
            c[i] = IF i <= Len(normal) THEN normal[i] ELSE urgent[i - Len(normal)]
      /\ Len(normal) \in Nat /\ Len(urgent) \in Nat
  <2>1. normal \in Seq(Jobs) /\ urgent \in Seq(Jobs)
    BY DEF QueuesApart
  <2>2. Len(normal) \in Nat /\ Len(urgent) \in Nat
    BY <2>1
  <2>3. /\ c \in Seq(Jobs) /\ Len(c) = Len(normal) + Len(urgent)
        /\ \A i \in 1..Len(normal) + Len(urgent) :
              c[i] = IF i <= Len(normal) THEN normal[i] ELSE urgent[i - Len(normal)]
    BY <2>1, ConcatProperties, Zenon
  <2> QED BY <2>2, <2>3
<1>2. \A j : Contains(c, j) <=> j \in Queued
  <2>1. ToSet(c) = Queued
    BY QueuedIsConcat
  <2> QED BY <1>1, <2>1, QueueSet DEF Contains
<1> HIDE DEF c
<1>3. ASSUME NEW i \in 1..Len(c), NEW h \in 1..Len(c), c[i] = c[h] PROVE i = h
  <2>1. /\ \A a, b \in 1..Len(normal) : normal[a] = normal[b] => a = b
        /\ \A a, b \in 1..Len(urgent) : urgent[a] = urgent[b] => a = b
        /\ \A a \in 1..Len(normal), b \in 1..Len(urgent) : normal[a] # urgent[b]
    <3>1. \A a \in 1..Len(normal) : normal[a] \in ToSet(normal)
      BY QueueSet DEF QueuesApart
    <3>2. \A a \in 1..Len(urgent) : urgent[a] \in ToSet(urgent)
      BY QueueSet DEF QueuesApart
    <3> QED BY <3>1, <3>2, QueueSet DEF QueuesApart
  <2>2. CASE i <= Len(normal) /\ h <= Len(normal)
    BY <1>1, <1>3, <2>1, <2>2
  <2>3. CASE i > Len(normal) /\ h > Len(normal)
    <3>1. /\ i - Len(normal) \in 1..Len(urgent) /\ h - Len(normal) \in 1..Len(urgent)
          /\ urgent[i - Len(normal)] = urgent[h - Len(normal)]
      BY <1>1, <1>3, <2>3
    <3>2. i - Len(normal) = h - Len(normal)
      BY <2>1, <3>1
    <3> QED BY <1>1, <3>2
  <2>4. CASE i <= Len(normal) /\ h > Len(normal)
    <3>1. i \in 1..Len(normal) /\ h - Len(normal) \in 1..Len(urgent) /\ normal[i] = urgent[h - Len(normal)]
      BY <1>1, <1>3, <2>4
    <3> QED BY <2>1, <3>1
  <2>5. CASE i > Len(normal) /\ h <= Len(normal)
    <3>1. h \in 1..Len(normal) /\ i - Len(normal) \in 1..Len(urgent) /\ normal[h] = urgent[i - Len(normal)]
      BY <1>1, <1>3, <2>5
    <3> QED BY <2>1, <3>1
  <2> QED BY <1>1, <2>2, <2>3, <2>4, <2>5
<1>4. IsInjective(c)
  BY <1>1, <1>3, QueueSet
<1> QED BY <1>2, <1>4 DEF c

\* A job submit_checkpoint accepted is in one queue or with one thread until its
\* future is resolved, is not starved, is as urgent as its response, and is seen
\* by has_active_job.
THEOREM JobsStayAccounted == XSpec => []JobsAreAccounted
<1>1. ASSUME XInv PROVE JobInOnePlace
  <2>1. IsInjective(normal \o urgent) /\ \A j : Contains(normal \o urgent, j) <=> j \in Queued
    BY <1>1, OneQueue DEF XInv
  <2>2. ASSUME NEW j \in Jobs
        PROVE  LET places == {t \in Threads : j \in tjob[t]}
               IN  /\ Cardinality(places) <= 1
                   /\ spc[j] = "queued" <=>
                         \/ Contains(normal \o urgent, j) /\ places = {}
                         \/ \E t \in places : tpc[t] # "release" /\ ~Contains(normal \o urgent, j)
    <3> DEFINE places == {t \in Threads : j \in tjob[t]}
    <3>1. places = {} \/ \E t \in Threads : places = {t}
      BY <1>1 DEF XInv, ThreadsHold
    <3>2. Cardinality(places) <= 1
      <4> HIDE DEF places
      <4>1. CASE places = {}
        <5>1. Cardinality(places) = 0
          BY <4>1, FS_EmptySet
        <5> QED BY <5>1
      <4>2. CASE \E t \in Threads : places = {t}
        <5>1. Cardinality(places) = 1
          BY <4>2, FS_Singleton
        <5> QED BY <5>1
      <4> QED BY <3>1, <4>1, <4>2
    <3>3. spc[j] = "queued" <=> \/ j \in Queued /\ places = {}
                                \/ \E t \in places : tpc[t] # "release" /\ j \notin Queued
      BY <1>1 DEF XInv, QueuedJobs, ThreadsHold
    <3> QED BY <2>1, <3>2, <3>3
  <2> QED BY <2>1, <2>2 DEF JobInOnePlace
<1>2. ASSUME XInv PROVE ReadyIsUrgent
  BY <1>2 DEF XInv, Urgency, ReadyIsUrgent
<1>3. XInv => NormalNotStarved /\ ActiveJobsVisible
  BY DEF XInv, QuotaKept, NormalNotStarved
<1>4. XInv => JobsAreAccounted
  BY <1>1, <1>2, <1>3 DEF JobsAreAccounted
<1> QED BY <1>4, ExecutorInvariance, PTL
=============================================================================
