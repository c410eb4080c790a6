----------------------------- MODULE AgentProofs -----------------------------
(***************************************************************************)
(* Coding agents in sandboxes that fail and are restored, for any number   *)
(* of faults: the host thread that waits for a task (TaskAgent), and the   *)
(* session that is replayed from a trace of any length (TraceReplay).      *)
(***************************************************************************)
EXTENDS TaskAgent, TraceReplay, FiniteSetTheorems, TLAPS

-----------------------------------------------------------------------------
(* The host thread and its markers (claude_code.py, iflow.py).             *)

TaskFlags ==
    /\ compose \in BOOLEAN /\ alive \in BOOLEAN /\ sawLive \in BOOLEAN /\ stopFlag \in BOOLEAN
    /\ complete \in BOOLEAN /\ again \in BOOLEAN
TaskControl ==
    /\ wrapper \in {"boot", "work", "done0", "exit0", "kept"} /\ shot \in {"boot", "work", "kept"}
    /\ doneM \in {"none", "empty", "text"} /\ harness \in {"idle", "faulted", "restored"}
    /\ host \in {"queued", "poll", "look", "recheck", "wait", "returned", "failed"}
TaskNumbers ==
    /\ exitM \in -1..1 /\ rc \in 0..1 /\ outcome \subseteq 0..1 /\ restores \in Nat
    /\ clock \in 0..MaxClock /\ lastStatus \in 0..MaxClock
    /\ finished \in -1..MaxClock /\ started \in -1..MaxClock

Ended == host \in {"returned", "failed"}

\* What a marker, or the wrapper on its way to one, says of the CLI is true.
MarkersAreTrue ==
    /\ doneM = "text" => 0 \in outcome
    /\ exitM >= 0 => exitM \in outcome
    /\ wrapper = "done0" => rc = 0 /\ 0 \in outcome
    /\ wrapper = "exit0" => rc \in outcome

\* Progress is that of the clock since a start that never lies in the future.
ProgressIsTimed ==
    /\ host = "queued" <=> started = -1
    /\ started = -1 => lastStatus = 0 /\ finished = -1
    /\ started # -1 => started \in 0..clock /\ lastStatus <= clock - started
    /\ ~Ended => finished = -1
    /\ finished <= clock /\ (finished # -1 => lastStatus = 0 \/ lastStatus <= finished - started)
    /\ compose => lastStatus = 0

\* A composed sandbox is down from its fault to its restore, and from then
\* on until the restore is reported the thread waits, or is done.
RestoreIsAwaited ==
    /\ wrapper = "boot" => shot = "boot"
    /\ shot = "kept" => wrapper = "kept"
    /\ harness = "restored" /\ wrapper = "kept" /\ compose => shot = "kept"
    /\ compose => /\ ~alive <=> harness = "faulted"
                  /\ host = "recheck" => harness = "faulted"
                  /\ harness = "restored" => Ended \/ (host = "wait" /\ (~again \/ stopFlag))
                  /\ host = "wait" /\ harness = "idle" => again

\* A thread that waits for a restore it has not been told of has seen no
\* marker that ends the task, and markers of a CLI that ended go only when
\* the thread needs them no more.
Settled == Ended \/ (host = "wait" /\ stopFlag)
MarkersAreKept ==
    compose =>
        /\ host = "wait" /\ ~again /\ ~stopFlag => ~Completes /\ ~Fails
        /\ alive /\ wrapper = "kept" /\ harness = "idle" => Completes \/ Fails \/ Settled
        /\ shot = "kept" => Completes \/ Fails \/ Settled

TaskInv == TaskFlags /\ TaskControl /\ TaskNumbers /\ CompletionIsReal /\
           MarkersAreTrue /\ ProgressIsTimed /\ RestoreIsAwaited /\ MarkersAreKept

\* Every step of the sandbox, the harness and the host thread keeps the
\* markers, the restore and the progress in step.
LEMMA TaskStep ==
  ASSUME TaskInv, TANext
  PROVE  TaskInv'
<1> USE TaskAgentAssumption DEF TaskInv
<1>1. CASE WrapperStep
  <2> USE <1>1 DEF WrapperStep, sbvars, hvars, progvars
  <2>1. CASE WrapperBoots
    <3> USE <2>1 DEF WrapperBoots
    <3>1. TaskFlags'
      BY DEF TaskFlags
    <3>2. TaskControl'
      BY DEF TaskControl
    <3>3. TaskNumbers'
      BY DEF TaskNumbers, ProgressIsTimed, Ended
    <3>4. CompletionIsReal'
      BY DEF TaskFlags, TaskControl, TaskNumbers, CompletionIsReal, MarkersAreTrue, Completes, Fails
    <3>5. MarkersAreTrue'
      BY DEF TaskControl, TaskNumbers, MarkersAreTrue
    <3>6. ProgressIsTimed'
      BY DEF TaskFlags, TaskControl, TaskNumbers, ProgressIsTimed, Ended
    <3>7. RestoreIsAwaited'
      BY DEF TaskFlags, TaskControl, RestoreIsAwaited, Ended
    <3>8. MarkersAreKept'
      BY DEF TaskFlags, TaskControl, TaskNumbers, MarkersAreKept, RestoreIsAwaited, Ended, Settled, Completes, Fails
    <3> QED BY <3>1, <3>2, <3>3, <3>4, <3>5, <3>6, <3>7, <3>8
  <2>2. CASE CliEnds
    <3> USE <2>2 DEF CliEnds
    <3>1. TaskFlags'
      BY DEF TaskFlags
    <3>2. TaskControl'
      BY DEF TaskControl
    <3>3. TaskNumbers'
      BY DEF TaskNumbers, ProgressIsTimed, Ended
    <3>4. CompletionIsReal'
      BY DEF TaskFlags, TaskControl, TaskNumbers, CompletionIsReal, MarkersAreTrue, Completes, Fails
    <3>5. MarkersAreTrue'
      BY DEF TaskControl, TaskNumbers, MarkersAreTrue
    <3>6. ProgressIsTimed'
      BY DEF TaskFlags, TaskControl, TaskNumbers, ProgressIsTimed, Ended
    <3>7. RestoreIsAwaited'
      BY DEF TaskFlags, TaskControl, RestoreIsAwaited, Ended
    <3>8. MarkersAreKept'
      BY DEF TaskFlags, TaskControl, TaskNumbers, MarkersAreKept, RestoreIsAwaited, Ended, Settled, Completes, Fails
    <3> QED BY <3>1, <3>2, <3>3, <3>4, <3>5, <3>6, <3>7, <3>8
  <2>3. CASE Marks /\ wrapper = "done0"
    <3> USE <2>3 DEF Marks
    <3>1. TaskFlags'
      BY DEF TaskFlags
    <3>2. TaskControl'
      BY DEF TaskControl
    <3>3. TaskNumbers'
      BY Zenon DEF TaskNumbers, ProgressIsTimed, Ended
    <3>4. CompletionIsReal'
      BY DEF TaskFlags, TaskControl, TaskNumbers, CompletionIsReal, MarkersAreTrue, Completes, Fails
    <3>5. MarkersAreTrue'
      BY DEF TaskControl, TaskNumbers, MarkersAreTrue
    <3>6. ProgressIsTimed'
      BY DEF TaskFlags, TaskControl, TaskNumbers, ProgressIsTimed, Ended
    <3>7. RestoreIsAwaited'
      BY DEF TaskFlags, TaskControl, RestoreIsAwaited, Ended
    <3>8. MarkersAreKept'
      BY DEF TaskFlags, TaskControl, TaskNumbers, MarkersAreKept, RestoreIsAwaited, Ended, Settled, Completes, Fails
    <3> QED BY <3>1, <3>2, <3>3, <3>4, <3>5, <3>6, <3>7, <3>8
  <2>4. CASE Marks /\ wrapper = "exit0"
    <3> USE <2>4 DEF Marks
    <3>1. TaskFlags'
      BY DEF TaskFlags
    <3>2. TaskControl'
      BY DEF TaskControl
    <3>3. TaskNumbers'
      <4>1. exitM' = rc /\ UNCHANGED <<rc, outcome, restores, clock, lastStatus, finished, started>>
        OBVIOUS
      <4> QED BY <4>1 DEF TaskNumbers
    <3>4. CompletionIsReal'
      BY DEF TaskFlags, TaskControl, TaskNumbers, CompletionIsReal, MarkersAreTrue, Completes, Fails
    <3>5. MarkersAreTrue'
      BY DEF TaskControl, TaskNumbers, MarkersAreTrue
    <3>6. ProgressIsTimed'
      BY DEF TaskFlags, TaskControl, TaskNumbers, ProgressIsTimed, Ended
    <3>7. RestoreIsAwaited'
      BY DEF TaskFlags, TaskControl, RestoreIsAwaited, Ended
    <3>8. MarkersAreKept'
      BY DEF TaskFlags, TaskControl, TaskNumbers, MarkersAreKept, RestoreIsAwaited, Ended, Settled, Completes, Fails
    <3> QED BY <3>1, <3>2, <3>3, <3>4, <3>5, <3>6, <3>7, <3>8
  <2> QED BY <2>1, <2>2, <2>3, <2>4, Zenon DEF Marks
<1>2. CASE Capture
  <2> USE <1>2 DEF Capture, sbvars, hvars, progvars
  <2>1. TaskFlags'
    BY DEF TaskFlags
  <2>2. TaskControl'
    BY DEF TaskControl
  <2>3. TaskNumbers'
    BY DEF TaskNumbers, ProgressIsTimed, Ended
  <2>4. CompletionIsReal'
    BY DEF TaskFlags, TaskControl, TaskNumbers, CompletionIsReal, MarkersAreTrue, Completes, Fails
  <2>5. MarkersAreTrue'
    BY DEF TaskControl, TaskNumbers, MarkersAreTrue
  <2>6. ProgressIsTimed'
    BY DEF TaskFlags, TaskControl, TaskNumbers, ProgressIsTimed, Ended
  <2>7. RestoreIsAwaited'
    BY DEF TaskFlags, TaskControl, RestoreIsAwaited, Ended
  <2>8. MarkersAreKept'
    BY DEF TaskFlags, TaskControl, TaskNumbers, MarkersAreKept, RestoreIsAwaited, Ended, Settled, Completes, Fails
  <2> QED BY <2>1, <2>2, <2>3, <2>4, <2>5, <2>6, <2>7, <2>8
<1>3. CASE SandboxFails
  <2> USE <1>3 DEF SandboxFails, sbvars, hvars, progvars
  <2>1. TaskFlags'
    BY Zenon DEF TaskFlags
  <2>2. TaskControl'
    BY DEF TaskControl
  <2>3. TaskNumbers'
    BY DEF TaskNumbers, ProgressIsTimed, Ended
  <2>4. CompletionIsReal'
    BY DEF TaskFlags, TaskControl, TaskNumbers, CompletionIsReal, MarkersAreTrue, Completes, Fails
  <2>5. MarkersAreTrue'
    BY DEF TaskControl, TaskNumbers, MarkersAreTrue
  <2>6. ProgressIsTimed'
    BY DEF TaskFlags, TaskControl, TaskNumbers, ProgressIsTimed, Ended
  <2>7. RestoreIsAwaited'
    BY DEF TaskFlags, TaskControl, RestoreIsAwaited, Ended
  <2>8. MarkersAreKept'
    BY DEF TaskFlags, TaskControl, TaskNumbers, MarkersAreKept, RestoreIsAwaited, Ended, Settled, Completes, Fails
  <2> QED BY <2>1, <2>2, <2>3, <2>4, <2>5, <2>6, <2>7, <2>8
<1>4. CASE BringBack
  <2> USE <1>4 DEF BringBack, sbvars, hvars, progvars, Attentive
  <2>1. TaskFlags'
    BY DEF TaskFlags
  <2>2. TaskControl'
    BY DEF TaskControl
  <2>3. TaskNumbers'
    BY DEF TaskNumbers, ProgressIsTimed, Ended
  <2>4. CompletionIsReal'
    BY DEF TaskFlags, TaskControl, TaskNumbers, CompletionIsReal, MarkersAreTrue, Completes, Fails
  <2>5. MarkersAreTrue'
    BY DEF TaskControl, TaskNumbers, MarkersAreTrue
  <2>6. ProgressIsTimed'
    BY DEF TaskFlags, TaskControl, TaskNumbers, ProgressIsTimed, Ended
  <2>7. RestoreIsAwaited'
    BY DEF TaskFlags, TaskControl, RestoreIsAwaited, Ended
  <2>8. MarkersAreKept'
    BY DEF TaskFlags, TaskControl, TaskNumbers, MarkersAreKept, RestoreIsAwaited, Ended, Settled, Completes, Fails
  <2> QED BY <2>1, <2>2, <2>3, <2>4, <2>5, <2>6, <2>7, <2>8
<1>5. CASE OnRestoreComplete
  <2> USE <1>5 DEF OnRestoreComplete, sbvars, hvars, progvars
  <2>1. TaskFlags'
    BY DEF TaskFlags
  <2>2. TaskControl'
    BY DEF TaskControl
  <2>3. TaskNumbers'
    BY DEF TaskNumbers, ProgressIsTimed, Ended
  <2>4. CompletionIsReal'
    BY DEF TaskFlags, TaskControl, TaskNumbers, CompletionIsReal, MarkersAreTrue, Completes, Fails
  <2>5. MarkersAreTrue'
    BY DEF TaskControl, TaskNumbers, MarkersAreTrue
  <2>6. ProgressIsTimed'
    BY DEF TaskFlags, TaskControl, TaskNumbers, ProgressIsTimed, Ended
  <2>7. RestoreIsAwaited'
    BY DEF TaskFlags, TaskControl, RestoreIsAwaited, Ended
  <2>8. MarkersAreKept'
    BY DEF TaskFlags, TaskControl, TaskNumbers, MarkersAreKept, RestoreIsAwaited, Ended, Settled, Completes, Fails
  <2> QED BY <2>1, <2>2, <2>3, <2>4, <2>5, <2>6, <2>7, <2>8
<1>6. CASE StopTask
  <2> USE <1>6 DEF StopTask, sbvars, hvars, progvars
  <2>1. TaskFlags'
    BY DEF TaskFlags
  <2>2. TaskControl'
    BY DEF TaskControl
  <2>3. TaskNumbers'
    BY DEF TaskNumbers, ProgressIsTimed, Ended
  <2>4. CompletionIsReal'
    BY DEF TaskFlags, TaskControl, TaskNumbers, CompletionIsReal, MarkersAreTrue, Completes, Fails
  <2>5. MarkersAreTrue'
    BY DEF TaskControl, TaskNumbers, MarkersAreTrue
  <2>6. ProgressIsTimed'
    BY DEF TaskFlags, TaskControl, TaskNumbers, ProgressIsTimed, Ended
  <2>7. RestoreIsAwaited'
    BY DEF TaskFlags, TaskControl, RestoreIsAwaited, Ended
  <2>8. MarkersAreKept'
    BY DEF TaskFlags, TaskControl, TaskNumbers, MarkersAreKept, RestoreIsAwaited, Ended, Settled, Completes, Fails
  <2> QED BY <2>1, <2>2, <2>3, <2>4, <2>5, <2>6, <2>7, <2>8
<1>7. CASE PollStatus
  <2> USE <1>7 DEF PollStatus, sbvars, hvars, progvars, ActionCount, Elapsed
  <2>1. TaskFlags'
    BY DEF TaskFlags
  <2>2. TaskControl'
    BY DEF TaskControl
  <2>3. TaskNumbers'
    BY DEF TaskNumbers, ProgressIsTimed, Ended
  <2>4. CompletionIsReal'
    BY DEF TaskFlags, TaskControl, TaskNumbers, CompletionIsReal, MarkersAreTrue, Completes, Fails
  <2>5. MarkersAreTrue'
    BY DEF TaskControl, TaskNumbers, MarkersAreTrue
  <2>6. ProgressIsTimed'
    BY DEF TaskFlags, TaskControl, TaskNumbers, ProgressIsTimed, Ended
  <2>7. RestoreIsAwaited'
    BY DEF TaskFlags, TaskControl, RestoreIsAwaited, Ended
  <2>8. MarkersAreKept'
    BY DEF TaskFlags, TaskControl, TaskNumbers, MarkersAreKept, RestoreIsAwaited, Ended, Settled, Completes, Fails
  <2> QED BY <2>1, <2>2, <2>3, <2>4, <2>5, <2>6, <2>7, <2>8
<1>8. CASE Tick
  <2> USE <1>8 DEF Tick, sbvars, hvars, progvars
  <2>1. TaskFlags'
    BY DEF TaskFlags
  <2>2. TaskControl'
    BY DEF TaskControl
  <2>3. TaskNumbers'
    BY DEF TaskNumbers, ProgressIsTimed, Ended
  <2>4. CompletionIsReal'
    BY DEF TaskFlags, TaskControl, TaskNumbers, CompletionIsReal, MarkersAreTrue, Completes, Fails
  <2>5. MarkersAreTrue'
    BY DEF TaskControl, TaskNumbers, MarkersAreTrue
  <2>6. ProgressIsTimed'
    BY DEF TaskFlags, TaskControl, TaskNumbers, ProgressIsTimed, Ended
  <2>7. RestoreIsAwaited'
    BY DEF TaskFlags, TaskControl, RestoreIsAwaited, Ended
  <2>8. MarkersAreKept'
    BY DEF TaskFlags, TaskControl, TaskNumbers, MarkersAreKept, RestoreIsAwaited, Ended, Settled, Completes, Fails
  <2> QED BY <2>1, <2>2, <2>3, <2>4, <2>5, <2>6, <2>7, <2>8
<1>9. CASE PerformTask
  <2> USE <1>9 DEF PerformTask, sbvars, hvars, progvars
  <2>1. TaskFlags'
    BY Zenon DEF TaskFlags
  <2>2. TaskControl'
    BY DEF TaskControl
  <2>3. TaskNumbers'
    BY DEF TaskNumbers, ProgressIsTimed, Ended
  <2>4. CompletionIsReal'
    BY DEF TaskFlags, TaskControl, TaskNumbers, CompletionIsReal, MarkersAreTrue, Completes, Fails
  <2>5. MarkersAreTrue'
    BY DEF TaskControl, TaskNumbers, MarkersAreTrue
  <2>6. ProgressIsTimed'
    BY DEF TaskFlags, TaskControl, TaskNumbers, ProgressIsTimed, Ended
  <2>7. RestoreIsAwaited'
    BY DEF TaskFlags, TaskControl, RestoreIsAwaited, Ended
  <2>8. MarkersAreKept'
    BY DEF TaskFlags, TaskControl, TaskNumbers, MarkersAreKept, RestoreIsAwaited, Ended, Settled, Completes, Fails
  <2> QED BY <2>1, <2>2, <2>3, <2>4, <2>5, <2>6, <2>7, <2>8
<1>10. CASE PollMarkers
  <2> USE <1>10 DEF PollMarkers, sbvars, hvars, progvars, End
  <2>1. TaskFlags'
    BY DEF TaskFlags
  <2>2. TaskControl'
    BY DEF TaskControl
  <2>3. TaskNumbers'
    BY DEF TaskNumbers, ProgressIsTimed, Ended
  <2>4. CompletionIsReal'
    BY DEF TaskFlags, TaskControl, TaskNumbers, CompletionIsReal, MarkersAreTrue, Completes, Fails
  <2>5. MarkersAreTrue'
    BY DEF TaskControl, TaskNumbers, MarkersAreTrue
  <2>6. ProgressIsTimed'
    BY DEF TaskFlags, TaskControl, TaskNumbers, ProgressIsTimed, Ended
  <2>7. RestoreIsAwaited'
    BY DEF TaskFlags, TaskControl, RestoreIsAwaited, Ended
  <2>8. MarkersAreKept'
    BY DEF TaskFlags, TaskControl, TaskNumbers, MarkersAreKept, RestoreIsAwaited, Ended, Settled, Completes, Fails
  <2> QED BY <2>1, <2>2, <2>3, <2>4, <2>5, <2>6, <2>7, <2>8
<1>11. CASE LookAlive
  <2> USE <1>11 DEF LookAlive, sbvars, hvars, progvars
  <2>1. TaskFlags'
    BY Zenon DEF TaskFlags
  <2>2. TaskControl'
    BY DEF TaskControl
  <2>3. TaskNumbers'
    BY DEF TaskNumbers, ProgressIsTimed, Ended
  <2>4. CompletionIsReal'
    BY DEF TaskFlags, TaskControl, TaskNumbers, CompletionIsReal, MarkersAreTrue, Completes, Fails
  <2>5. MarkersAreTrue'
    BY DEF TaskControl, TaskNumbers, MarkersAreTrue
  <2>6. ProgressIsTimed'
    BY DEF TaskFlags, TaskControl, TaskNumbers, ProgressIsTimed, Ended
  <2>7. RestoreIsAwaited'
    BY DEF TaskFlags, TaskControl, RestoreIsAwaited, Ended
  <2>8. MarkersAreKept'
    BY DEF TaskFlags, TaskControl, TaskNumbers, MarkersAreKept, RestoreIsAwaited, Ended, Settled, Completes, Fails
  <2> QED BY <2>1, <2>2, <2>3, <2>4, <2>5, <2>6, <2>7, <2>8
<1>12. CASE Recheck
  <2> USE <1>12 DEF Recheck, sbvars, hvars, progvars, End
  <2>1. TaskFlags'
    BY DEF TaskFlags
  <2>2. TaskControl'
    BY DEF TaskControl
  <2>3. TaskNumbers'
    BY DEF TaskNumbers, ProgressIsTimed, Ended
  <2>4. CompletionIsReal'
    BY DEF TaskFlags, TaskControl, TaskNumbers, CompletionIsReal, MarkersAreTrue, Completes, Fails
  <2>5. MarkersAreTrue'
    BY DEF TaskControl, TaskNumbers, MarkersAreTrue
  <2>6. ProgressIsTimed'
    BY DEF TaskFlags, TaskControl, TaskNumbers, ProgressIsTimed, Ended
  <2>7. RestoreIsAwaited'
    BY DEF TaskFlags, TaskControl, RestoreIsAwaited, Ended
  <2>8. MarkersAreKept'
    BY DEF TaskFlags, TaskControl, TaskNumbers, MarkersAreKept, RestoreIsAwaited, Ended, Settled, Completes, Fails
  <2> QED BY <2>1, <2>2, <2>3, <2>4, <2>5, <2>6, <2>7, <2>8
<1>13. CASE WaitRestore
  <2> USE <1>13 DEF WaitRestore, sbvars, hvars, progvars, End
  <2>1. TaskFlags'
    BY Zenon DEF TaskFlags
  <2>2. TaskControl'
    BY DEF TaskControl
  <2>3. TaskNumbers'
    BY DEF TaskNumbers, ProgressIsTimed, Ended
  <2>4. CompletionIsReal'
    BY DEF TaskFlags, TaskControl, TaskNumbers, CompletionIsReal, MarkersAreTrue, Completes, Fails
  <2>5. MarkersAreTrue'
    BY DEF TaskControl, TaskNumbers, MarkersAreTrue
  <2>6. ProgressIsTimed'
    BY DEF TaskFlags, TaskControl, TaskNumbers, ProgressIsTimed, Ended
  <2>7. RestoreIsAwaited'
    BY DEF TaskFlags, TaskControl, RestoreIsAwaited, Ended
  <2>8. MarkersAreKept'
    BY DEF TaskFlags, TaskControl, TaskNumbers, MarkersAreKept, RestoreIsAwaited, Ended, Settled, Completes, Fails
  <2> QED BY <2>1, <2>2, <2>3, <2>4, <2>5, <2>6, <2>7, <2>8
<1> QED BY <1>1, <1>2, <1>3, <1>4, <1>5, <1>6, <1>7, <1>8, <1>9, <1>10, <1>11, <1>12, <1>13 DEF TANext

\* The task of an agent is reported done only when its CLI ended well, and
\* failed only when it ended badly or was never seen; the host thread is not
\* left waiting for a marker or a restore that has come and gone; progress
\* never goes back (_wait_for_task_completion, on_restore_complete,
\* poll_status), for any number of faults.
THEOREM TasksAwaited == TASpec => []TasksAreAwaited
<1>1. TAInit => TaskInv
  <2> SUFFICES ASSUME TAInit PROVE TaskInv
    OBVIOUS
  <2> USE DEF TAInit
  <2>1. TaskFlags /\ TaskControl
    BY Zenon DEF TaskFlags, TaskControl
  <2>2. TaskNumbers
    BY TaskAgentAssumption DEF TaskNumbers
  <2>3. CompletionIsReal /\ MarkersAreTrue
    BY DEF CompletionIsReal, MarkersAreTrue
  <2>4. ProgressIsTimed
    BY DEF ProgressIsTimed, Ended
  <2>5. RestoreIsAwaited /\ MarkersAreKept
    BY DEF RestoreIsAwaited, MarkersAreKept, Ended
  <2> QED BY <2>1, <2>2, <2>3, <2>4, <2>5 DEF TaskInv
<1>2. TaskInv /\ [TANext]_tavars => TaskInv'
  <2>1. CASE TANext
    BY <2>1, TaskStep
  <2>2. CASE UNCHANGED tavars
    BY <2>2 DEF tavars, sbvars, hvars, progvars, TaskInv, TaskFlags, TaskControl, TaskNumbers, CompletionIsReal,
       MarkersAreTrue, ProgressIsTimed, RestoreIsAwaited, MarkersAreKept, Ended, Settled, Completes, Fails
  <2> QED BY <2>1, <2>2
<1>3. TaskInv => TasksAreAwaited
  <2> SUFFICES ASSUME TaskInv PROVE TasksAreAwaited
    OBVIOUS
  <2> USE DEF TaskInv
  <2>1. TATypeOK
    BY TaskAgentAssumption DEF TATypeOK, TaskControl, TaskNumbers
  <2>2. NotStranded
    BY DEF NotStranded, TaskFlags, TaskControl, RestoreIsAwaited, MarkersAreKept, Ended, Settled
  <2>3. ProgressIsMonotone
    BY TaskAgentAssumption DEF ProgressIsMonotone, ActionCount, Elapsed, TaskControl, TaskNumbers, ProgressIsTimed, Ended
  <2> QED BY <2>1, <2>2, <2>3 DEF TasksAreAwaited
<1> QED BY <1>1, <1>2, <1>3, PTL DEF TASpec

-----------------------------------------------------------------------------
(* A session replayed from a trace (claude_code_trace_replay,              *)
(* iflow_trace_replay), its checkpoints and restores.                      *)

Captured == [conv : 0..TraceLen, stamp : 0..TraceLen]
Point == [proc : Captured, file : Versions, stamp : 0..TraceLen, at : 0..TraceLen, odd : BOOLEAN]

ReplayTypes ==
    /\ TRTypeOK /\ service \in {"claude", "iflow"} /\ consumed \in Nat
    /\ catchup \in BOOLEAN /\ plain \in BOOLEAN /\ odd \in BOOLEAN
    /\ proc \in Captured \union {NoProc} /\ points \subseteq Point

\* The service is never behind the conversation, nor is a stamp behind the
\* process it was taken with: not even after answers that were lost.
CursorsAreAhead ==
    /\ conv <= trace_cursor
    /\ cli = "held" /\ given # TraceLen => conv < trace_cursor
    /\ proc # NoProc => proc.conv <= proc.stamp /\ proc.conv <= conv
    /\ \A p \in points : p.proc.conv <= p.proc.stamp

\* The file stands between the conversation and the cursor, now and in every
\* checkpoint (iflow's cursor goes back with the key it looked up).
FileIsRecorded ==
    /\ ~odd => conv <= deep /\ file = ver[deep] /\ (service = "claude" => deep <= trace_cursor)
    /\ \A p \in points : ~p.odd => /\ p.proc.conv <= p.at /\ p.file = ver[p.at]
                                   /\ service = "claude" => p.at <= p.stamp

\* The answer that waits is the conversation's next; a service that does not
\* catch up is level with it.
AnswersAreNext ==
    ~odd =>
        /\ cli = "held" => given = conv
        /\ cli = "asked" /\ service = "claude" /\ ~catchup => conv = trace_cursor
        /\ cli = "held" /\ service = "claude" /\ ~catchup /\ given # TraceLen => conv + 1 = trace_cursor
        /\ cli = "done" => conv = TraceLen
        /\ service = "iflow" => consumed = Cardinality(keys)

ReplayInv == ReplayTypes /\ CursorsAreAhead /\ FileIsRecorded /\ AnswersAreNext

\* An answer of the claude service: the conversation's step again, or the next.
LEMMA ServeKeeps ==
  ASSUME ReplayInv, ServeCatchup \/ ServeNext
  PROVE  ReplayInv'
<1> USE TraceAssumption
<1>1. /\ UNCHANGED <<service, tools, ver, keys, consumed, conv, file, deep, proc, points, odd>>
      /\ service = "claude" /\ cli = "asked" /\ cli' = "held" /\ plain' = TRUE
  BY DEF ServeCatchup, ServeNext, Answer
<1>2. /\ trace_cursor \in 0..TraceLen /\ conv \in 0..TraceLen /\ conv <= trace_cursor /\ catchup \in BOOLEAN
      /\ ~odd => (~catchup => conv = trace_cursor)
  BY <1>1 DEF ReplayInv, ReplayTypes, TRTypeOK, CursorsAreAhead, AnswersAreNext
<1>3. /\ given' \in 0..TraceLen /\ trace_cursor' \in 0..TraceLen /\ catchup' \in BOOLEAN
      /\ trace_cursor <= trace_cursor'
      /\ given' # TraceLen => conv < trace_cursor'
      /\ ~odd => given' = conv /\ (~catchup' /\ given' # TraceLen => conv + 1 = trace_cursor')
  <2>1. CASE ServeCatchup
    BY <1>2, <2>1 DEF ServeCatchup, Answer
  <2>2. CASE ServeNext /\ trace_cursor >= TraceLen
    BY <1>2, <2>2 DEF ServeNext, Answer
  <2>3. CASE ServeNext /\ trace_cursor < TraceLen
    <3>1. given' = trace_cursor /\ trace_cursor' = trace_cursor + 1 /\ catchup' = FALSE
      BY <1>2, <2>3 DEF ServeNext, Answer
    <3>2. ~odd => conv = trace_cursor
      BY <1>2, <2>3 DEF ServeNext
    <3>3. trace_cursor' \in 0..TraceLen /\ trace_cursor <= trace_cursor' /\ conv < trace_cursor'
      BY <1>2, <2>3, <3>1
    <3>4. given' \in 0..TraceLen /\ catchup' \in BOOLEAN
      BY <1>2, <3>1, Zenon
    <3>5. ~odd => given' = conv /\ conv + 1 = trace_cursor'
      BY <3>1, <3>2
    <3> QED BY <3>3, <3>4, <3>5
  <2> QED BY <1>2, <2>1, <2>2, <2>3
<1>4. ReplayTypes'
  BY <1>1, <1>3 DEF ReplayInv, ReplayTypes, TRTypeOK, TraceOK
<1>5. CursorsAreAhead'
  BY <1>1, <1>2, <1>3 DEF ReplayInv, CursorsAreAhead
<1>6. FileIsRecorded'
  <2>1. deep \in 0..TraceLen
    BY DEF ReplayInv, ReplayTypes, TRTypeOK
  <2> QED BY <1>1, <1>2, <1>3, <2>1 DEF ReplayInv, FileIsRecorded
<1>7. AnswersAreNext'
  BY <1>1, <1>3 DEF ReplayInv, AnswersAreNext
<1> QED BY <1>4, <1>5, <1>6, <1>7 DEF ReplayInv

\* An answer of the iflow service: by the key of the request, which a step
\* of the trace has once, or by the cursor.
LEMMA ServeByKeyKeeps ==
  ASSUME ReplayInv, ServeByKey \/ ServeByCursor
  PROVE  ReplayInv'
<1> USE TraceAssumption
<1>1. /\ UNCHANGED <<service, tools, ver, catchup, conv, file, deep, proc, points>>
      /\ service = "iflow" /\ cli = "asked" /\ cli' = "held"
  BY DEF ServeByKey, ServeByCursor, Answer
<1>2. /\ trace_cursor \in 0..TraceLen /\ conv \in 0..TraceLen /\ conv <= trace_cursor /\ keys \subseteq Steps0
      /\ consumed \in Nat /\ odd \in BOOLEAN /\ (~odd => consumed = Cardinality(keys))
  BY <1>1 DEF ReplayInv, ReplayTypes, TRTypeOK, CursorsAreAhead, AnswersAreNext
<1>3. IsFiniteSet(keys)
  <2>1. IsFiniteSet(0..(TraceLen - 1))
    BY FS_Interval
  <2> QED BY <1>2, <2>1, FS_Subset, Zenon DEF Steps0
<1>4. /\ given' \in 0..TraceLen /\ trace_cursor' \in 0..TraceLen /\ keys' \subseteq Steps0 /\ consumed' \in Nat
      /\ plain' \in BOOLEAN /\ odd' \in BOOLEAN
      /\ conv <= trace_cursor' /\ (given' # TraceLen => conv < trace_cursor')
      /\ ~odd' => ~odd /\ given' = conv /\ consumed' = Cardinality(keys')
  <2>1. CASE ServeByKey
    <3>1. conv \in Steps0 /\ trace_cursor' = conv + 1 /\ odd' = odd /\ given' = conv /\ plain' \in BOOLEAN
      <4>1. conv \in Steps0 /\ trace_cursor' = conv + 1 /\ odd' = odd
        BY <1>2, <2>1 DEF ServeByKey, Holds, Steps0
      <4>2. \E isPlain \in BOOLEAN : Answer(conv, isPlain)
        BY <2>1, Zenon DEF ServeByKey
      <4> QED BY <4>1, <4>2 DEF Answer
    <3>2. CASE conv \in keys
      <4>1. keys' = keys /\ consumed' = consumed
        BY <2>1, <3>2 DEF ServeByKey
      <4> QED BY <1>2, <3>1, <4>1 DEF Steps0
    <3>3. CASE conv \notin keys
      <4>1. keys' = keys \union {conv} /\ consumed' = consumed + 1
        BY <2>1, <3>3 DEF ServeByKey
      <4>2. Cardinality(keys') = Cardinality(keys) + 1
        BY <1>3, <3>3, <4>1, FS_AddElement
      <4> QED BY <1>2, <3>1, <4>1, <4>2 DEF Steps0
    <3> QED BY <3>2, <3>3
  <2>2. CASE ServeByCursor
    <3>1. odd' = (odd \/ Holds) /\ plain' = TRUE
      BY <2>2 DEF ServeByCursor, Answer
    <3>2. odd' \in BOOLEAN /\ plain' \in BOOLEAN /\ (~odd' => ~odd /\ ~Holds)
      BY <3>1, Zenon
    <3>3. CASE trace_cursor >= TraceLen
      <4>1. given' = TraceLen /\ UNCHANGED <<trace_cursor, keys, consumed>>
        BY <2>2, <3>3 DEF ServeByCursor, Answer
      <4> QED BY <1>2, <3>2, <3>3, <4>1 DEF Holds
    <3>4. CASE trace_cursor < TraceLen
      <4>1. /\ given' = trace_cursor /\ trace_cursor' = trace_cursor + 1 /\ keys' = keys \union {trace_cursor}
            /\ consumed' = consumed + 1
        BY <1>2, <2>2, <3>4 DEF ServeByCursor, Answer
      <4>2. conv < TraceLen
        BY <1>2, <3>4
      <4> QED BY <1>2, <3>2, <3>4, <4>1, <4>2 DEF Holds, Steps0
    <3> QED BY <1>2, <3>3, <3>4
  <2> QED BY <2>1, <2>2
<1>5. ReplayTypes'
  BY <1>1, <1>4 DEF ReplayInv, ReplayTypes, TRTypeOK, TraceOK
<1>6. CursorsAreAhead'
  BY <1>1, <1>4 DEF ReplayInv, CursorsAreAhead
<1>7. FileIsRecorded'
  BY <1>1, <1>4 DEF ReplayInv, FileIsRecorded
<1>8. AnswersAreNext'
  BY <1>1, <1>4 DEF AnswersAreNext
<1> QED BY <1>5, <1>6, <1>7, <1>8 DEF ReplayInv

\* The step the answer names takes the file from where the trace says it is to
\* a recorded version again, also when it had been carried out before.
LEMMA CarriedFollows ==
  ASSUME ReplayTypes, given \in Steps0, given <= deep, file = ver[deep], file' = Carried(given),
         deep' = IF file' # file \/ (plain /\ tools[given] = "write") THEN given + 1 ELSE MaxOf(deep, given + 1),
         plain \/ given < deep
  PROVE  file' = ver[deep'] /\ given + 1 <= deep' /\ (deep' = given + 1 \/ deep' = deep)
<1> USE TraceAssumption
<1>1. deep \in 0..TraceLen /\ given \in 0..TraceLen /\ given + 1 \in 0..TraceLen /\ tools[given] \in Tools
  BY DEF ReplayTypes, TRTypeOK, TraceOK, Steps0
<1>2. CASE ~plain
  <2>1. file' = file
    BY <1>2 DEF Carried
  <2>2. given < deep
    BY <1>2, Zenon
  <2>3. deep' = MaxOf(deep, given + 1)
    BY <1>2, <2>1
  <2> QED BY <1>1, <2>1, <2>2, <2>3 DEF MaxOf
<1>3. CASE plain /\ tools[given] = "write"
  BY <1>1, <1>3 DEF Carried
<1>4. CASE plain /\ tools[given] = "edit" /\ file = ver[given]
  <2>1. file' = ver[given + 1] /\ ver[given + 1] # ver[given]
    BY <1>4 DEF Carried, ReplayTypes, TRTypeOK, TraceOK
  <2> QED BY <1>1, <1>4, <2>1
<1>5. CASE plain /\ tools[given] = "edit" /\ file # ver[given]
  <2>1. file' = file /\ deep' = MaxOf(deep, given + 1)
    BY <1>5 DEF Carried
  <2>2. deep # given
    BY <1>5
  <2> QED BY <1>1, <2>1, <2>2 DEF MaxOf
<1>6. CASE plain /\ tools[given] = "text"
  <2>1. file' = file /\ deep' = MaxOf(deep, given + 1)
    BY <1>6 DEF Carried
  <2>2. ver[given + 1] = ver[given]
    BY <1>6 DEF ReplayTypes, TRTypeOK, TraceOK
  <2>3. CASE deep = given
    BY <1>1, <2>1, <2>2, <2>3 DEF MaxOf
  <2>4. CASE deep # given
    BY <1>1, <2>1, <2>4 DEF MaxOf
  <2> QED BY <2>3, <2>4
<1> QED BY <1>1, <1>2, <1>3, <1>4, <1>5, <1>6 DEF Tools

\* The CLI carries a step out and asks again, or ends.
LEMMA DeliverKeeps ==
  ASSUME ReplayInv, Deliver
  PROVE  ReplayInv'
<1> USE TraceAssumption
<1>1. /\ UNCHANGED <<service, tools, ver, trace_cursor, catchup, keys, consumed, proc, points>>
      /\ cli = "held" /\ given' = 0 /\ plain' = TRUE
  BY DEF Deliver, Unanswered
<1>2. /\ conv \in 0..TraceLen /\ given \in 0..TraceLen /\ trace_cursor \in 0..TraceLen /\ deep \in 0..TraceLen
      /\ odd \in BOOLEAN /\ plain \in BOOLEAN /\ file \in Versions /\ ver \in [0..TraceLen -> Versions]
  BY DEF ReplayInv, ReplayTypes, TRTypeOK, TraceOK
<1>3. CASE given = TraceLen
  <2>1. cli' = "done" /\ UNCHANGED <<conv, file, deep, odd>>
    BY <1>3 DEF Deliver
  <2>2. ReplayTypes'
    BY <1>1, <1>2, <2>1 DEF ReplayInv, ReplayTypes, TRTypeOK, TraceOK
  <2>3. CursorsAreAhead' /\ FileIsRecorded'
    BY <1>1, <2>1, Zenon DEF ReplayInv, CursorsAreAhead, FileIsRecorded
  <2>4. AnswersAreNext'
    BY <1>1, <1>3, <2>1 DEF ReplayInv, AnswersAreNext
  <2> QED BY <2>2, <2>3, <2>4 DEF ReplayInv
<1>4. CASE given # TraceLen
  <2>1. /\ cli' = "asked" /\ conv' = conv + 1 /\ file' = Carried(given)
        /\ deep' = IF file' # file \/ (plain /\ tools[given] = "write") THEN given + 1 ELSE MaxOf(deep, given + 1)
        /\ odd' = (odd \/ (~plain /\ deep <= given))
    BY <1>4 DEF Deliver
  <2>2. given \in Steps0 /\ given + 1 \in 0..TraceLen /\ conv < trace_cursor
    BY <1>1, <1>2, <1>4 DEF ReplayInv, CursorsAreAhead, Steps0
  <2>3. deep' \in 0..TraceLen /\ file' \in Versions
    BY <1>2, <2>1, <2>2 DEF MaxOf, Carried
  <2>4. odd' \in BOOLEAN /\ (~odd' => ~odd /\ (plain \/ ~(deep <= given)))
    BY <2>1, Zenon
  <2>5. ReplayTypes'
    BY <1>1, <1>2, <2>1, <2>2, <2>3, <2>4 DEF ReplayInv, ReplayTypes, TRTypeOK, TraceOK
  <2>6. CursorsAreAhead'
    <3>1. proc # NoProc => proc.conv \in 0..TraceLen
      BY DEF ReplayInv, ReplayTypes, Captured
    <3>2. conv' <= trace_cursor' /\ cli' # "held"
      BY <1>1, <1>2, <2>1, <2>2
    <3>3. proc # NoProc => proc.conv <= proc.stamp /\ proc.conv <= conv + 1
      BY <1>2, <3>1 DEF ReplayInv, CursorsAreAhead
    <3> QED BY <1>1, <2>1, <3>2, <3>3, Zenon DEF ReplayInv, CursorsAreAhead
  <2>7. ASSUME ~odd'
        PROVE  given = conv /\ file' = ver[deep'] /\ given + 1 <= deep' /\ (deep' = given + 1 \/ deep' = deep)
    <3>1. ~odd /\ given = conv /\ conv <= deep /\ file = ver[deep]
      BY <1>1, <2>4, <2>7 DEF ReplayInv, AnswersAreNext, FileIsRecorded
    <3>2. plain \/ given < deep
      BY <1>2, <2>4, <2>7
    <3> QED BY <2>1, <2>2, <3>1, <3>2, CarriedFollows DEF ReplayInv
  <2>8. FileIsRecorded'
    <3>1. ASSUME ~odd'
          PROVE  conv' <= deep' /\ file' = ver[deep'] /\ (service = "claude" => deep' <= trace_cursor)
      BY <1>2, <2>1, <2>2, <2>4, <2>7, <3>1 DEF ReplayInv, FileIsRecorded
    <3> QED BY <1>1, <3>1 DEF ReplayInv, FileIsRecorded
  <2>9. AnswersAreNext'
    BY <1>1, <1>4, <2>1, <2>4 DEF ReplayInv, AnswersAreNext
  <2> QED BY <2>5, <2>6, <2>8, <2>9 DEF ReplayInv
<1> QED BY <1>3, <1>4

\* An answer that is lost, and a fault.
LEMMA FaultKeeps ==
  ASSUME ReplayInv, Retry \/ Kill
  PROVE  ReplayInv'
<1> USE TraceAssumption
<1>1. /\ UNCHANGED <<service, tools, ver, trace_cursor, catchup, keys, consumed, conv, file, deep, proc, points>>
      /\ given' = 0 /\ plain' = TRUE
      /\ \/ cli' = "asked" /\ odd' = TRUE
         \/ cli' = "down" /\ odd' = odd
  BY DEF Retry, Kill, Unanswered
<1>2. odd' \in BOOLEAN
  BY <1>1, Zenon DEF ReplayInv, ReplayTypes
<1>3. ReplayTypes'
  BY <1>1, <1>2 DEF ReplayInv, ReplayTypes, TRTypeOK, TraceOK
<1>4. CursorsAreAhead' /\ FileIsRecorded'
  BY <1>1, Zenon DEF ReplayInv, CursorsAreAhead, FileIsRecorded
<1>5. AnswersAreNext'
  BY <1>1, Zenon DEF ReplayInv, AnswersAreNext
<1> QED BY <1>3, <1>4, <1>5 DEF ReplayInv

\* A checkpoint stamps a cursor that is ahead of the process and the file.
LEMMA CheckpointKeeps ==
  ASSUME ReplayInv, NEW full \in BOOLEAN, Checkpoint(full)
  PROVE  ReplayInv'
<1> USE TraceAssumption
<1> DEFINE new == [proc |-> proc', file |-> file, stamp |-> trace_cursor, at |-> deep, odd |-> odd]
<1>1. /\ UNCHANGED <<service, tools, ver, trace_cursor, catchup, keys, consumed, cli, conv, given, plain, file, deep, odd>>
      /\ full \/ proc # NoProc
      /\ proc' = IF full THEN [conv |-> conv, stamp |-> trace_cursor] ELSE proc
      /\ \A p \in points' : p \in points \/ p = new
  BY DEF Checkpoint
<1>2. /\ conv \in 0..TraceLen /\ trace_cursor \in 0..TraceLen /\ deep \in 0..TraceLen /\ file \in Versions /\ odd \in BOOLEAN
      /\ conv <= trace_cursor
  BY DEF ReplayInv, ReplayTypes, TRTypeOK, CursorsAreAhead
<1>3. proc' \in Captured /\ proc'.conv <= proc'.stamp /\ proc'.conv <= conv
  <2>1. CASE full
    BY <1>1, <1>2, <2>1 DEF Captured
  <2>2. CASE ~full
    BY <1>1, <2>2 DEF ReplayInv, ReplayTypes, CursorsAreAhead
  <2> QED BY <2>1, <2>2
<1>4. /\ new \in Point /\ new.proc = proc' /\ new.file = file /\ new.stamp = trace_cursor
      /\ new.at = deep /\ new.odd = odd
  BY <1>2, <1>3 DEF Point
<1> HIDE DEF new
<1>5. ReplayTypes'
  BY <1>1, <1>3, <1>4, Zenon DEF ReplayInv, ReplayTypes, TRTypeOK, TraceOK
<1>6. CursorsAreAhead'
  BY <1>1, <1>3, <1>4, Zenon DEF ReplayInv, CursorsAreAhead
<1>7. ~odd => proc'.conv <= deep
  BY <1>2, <1>3 DEF ReplayInv, FileIsRecorded, Captured
<1>8. FileIsRecorded'
  BY <1>1, <1>4, <1>7, Zenon DEF ReplayInv, FileIsRecorded
<1>9. AnswersAreNext'
  BY <1>1 DEF ReplayInv, AnswersAreNext
<1> QED BY <1>5, <1>6, <1>8, <1>9 DEF ReplayInv

\* A restored service is at the larger of the two stamps, so it is behind
\* neither the restored process nor the restored file.
LEMMA RestoreKeeps ==
  ASSUME ReplayInv, NEW p \in points, RestoreFrom(p)
  PROVE  ReplayInv'
<1> USE TraceAssumption
<1> DEFINE n == MaxOf(p.proc.stamp, p.stamp)
<1>1. /\ UNCHANGED <<service, tools, ver, given, plain, points>>
      /\ cli' = "asked" /\ conv' = p.proc.conv /\ file' = p.file /\ deep' = p.at /\ proc' = p.proc /\ odd' = p.odd
      /\ ServiceRestored(n)
  BY DEF RestoreFrom
<1>2. p \in Point /\ p.proc \in Captured
  BY DEF ReplayInv, ReplayTypes, Point
<1>3. /\ p.proc.conv \in 0..TraceLen /\ p.proc.stamp \in 0..TraceLen
      /\ p.file \in Versions /\ p.stamp \in 0..TraceLen /\ p.at \in 0..TraceLen /\ p.odd \in BOOLEAN
  BY <1>2 DEF Point, Captured
<1>4. p.proc.conv <= p.proc.stamp
  BY DEF ReplayInv, CursorsAreAhead
<1>5. n \in 0..TraceLen /\ p.proc.conv <= n /\ p.stamp <= n
  BY <1>3, <1>4 DEF MaxOf
<1> HIDE DEF n
<1>6. /\ trace_cursor' = n /\ catchup' = (service = "claude")
      /\ IF service = "iflow" THEN consumed' = n /\ keys' = 0..(n - 1) ELSE UNCHANGED <<consumed, keys>>
  BY <1>1, <1>5 DEF ServiceRestored
<1>7. consumed' \in Nat /\ keys' \subseteq Steps0
  <2>1. CASE service = "iflow"
    <3>1. consumed' = n /\ keys' = 0..(n - 1)
      BY <1>6, <2>1
    <3> QED BY <1>5, <3>1 DEF Steps0
  <2>2. CASE service # "iflow"
    <3>1. consumed' = consumed /\ keys' = keys
      BY <1>6, <2>2
    <3> QED BY <3>1 DEF ReplayInv, ReplayTypes, TRTypeOK
  <2> QED BY <2>1, <2>2
<1>8. service = "iflow" => consumed' = Cardinality(keys')
  <2>1. Cardinality(0..(n - 1)) = n
    <3>1. 0 \in Int /\ n - 1 \in Int
      BY <1>5
    <3>2. Cardinality(0..(n - 1)) = IF 0 > n - 1 THEN 0 ELSE (n - 1) - 0 + 1
      BY <3>1, FS_Interval
    <3> QED BY <1>5, <3>2
  <2> QED BY <1>6, <2>1
<1>9. catchup' \in BOOLEAN /\ (service = "claude" => catchup')
  BY <1>6, Zenon
<1>10. ReplayTypes'
  BY <1>1, <1>2, <1>3, <1>5, <1>6, <1>7, <1>9, Zenon DEF ReplayInv, ReplayTypes, TRTypeOK, TraceOK
<1>11. CursorsAreAhead'
  <2>1. p.proc.conv <= p.proc.conv
    BY <1>3
  <2> QED BY <1>1, <1>4, <1>5, <1>6, <2>1, Zenon DEF ReplayInv, CursorsAreAhead
<1>12. ~p.odd => p.proc.conv <= p.at /\ p.file = ver[p.at] /\ (service = "claude" => p.at <= n)
  BY <1>3, <1>5 DEF ReplayInv, FileIsRecorded
<1>13. FileIsRecorded'
  BY <1>1, <1>6, <1>12, Zenon DEF ReplayInv, FileIsRecorded
<1>14. AnswersAreNext'
  BY <1>1, <1>8, <1>9 DEF AnswersAreNext
<1> QED BY <1>10, <1>11, <1>13, <1>14 DEF ReplayInv

\* A session that is launched anew, from the beginning of the trace.
LEMMA RelaunchKeeps ==
  ASSUME ReplayInv, Relaunch
  PROVE  ReplayInv'
<1> USE TraceAssumption
<1>1. /\ UNCHANGED <<service, tools, ver, given, plain, points>>
      /\ cli' = "asked" /\ conv' = 0 /\ file' = ver[0] /\ deep' = 0 /\ proc' = NoProc /\ odd' = FALSE
      /\ trace_cursor' = 0 /\ catchup' = FALSE /\ consumed' = 0 /\ keys' = {}
  BY DEF Relaunch, ServiceReset
<1>2. 0 \in 0..TraceLen /\ ver[0] \in Versions /\ 0 \in Nat /\ FALSE \in BOOLEAN
  BY DEF ReplayInv, ReplayTypes, TRTypeOK, TraceOK
<1>3. ReplayTypes'
  <2>1. TRTypeOK'
    BY <1>1, <1>2 DEF ReplayInv, ReplayTypes, TRTypeOK, TraceOK
  <2> QED BY <1>1, <1>2, <2>1, Zenon DEF ReplayInv, ReplayTypes
<1>4. CursorsAreAhead' /\ FileIsRecorded'
  BY <1>1 DEF ReplayInv, CursorsAreAhead, FileIsRecorded
<1>5. AnswersAreNext'
  BY <1>1, FS_EmptySet DEF AnswersAreNext
<1> QED BY <1>3, <1>4, <1>5 DEF ReplayInv

\* What the invariant says of the file, the end of the session and the answers.
LEMMA ReplayFollows ==
  ASSUME ReplayInv
  PROVE  TracesAreReplayed
<1> USE TraceAssumption
<1>1. /\ conv \in 0..TraceLen /\ deep \in 0..TraceLen /\ trace_cursor \in 0..TraceLen /\ conv <= trace_cursor
      /\ ~odd => conv <= deep /\ file = ver[deep] /\ (service = "claude" => deep <= trace_cursor)
  BY DEF ReplayInv, ReplayTypes, TRTypeOK, CursorsAreAhead, FileIsRecorded
<1>2. FileFollowsTrace
  <2>1. ~odd => \E k \in conv..TraceLen : file = ver[k] /\ k = deep
    BY <1>1
  <2>2. ~odd /\ cli = "asked" /\ service = "claude" /\ ~catchup => deep = conv
    BY <1>1 DEF ReplayInv, AnswersAreNext
  <2> QED BY <1>1, <2>1, <2>2 DEF FileFollowsTrace
<1>3. EndIsComplete
  <2>1. ~odd /\ cli = "done" => conv = TraceLen /\ deep = TraceLen
    BY <1>1 DEF ReplayInv, AnswersAreNext
  <2> QED BY <1>1, <2>1 DEF EndIsComplete
<1>4. AnswersFollowTrace
  BY <1>1 DEF ReplayInv, AnswersAreNext, AnswersFollowTrace
<1> QED BY <1>2, <1>3, <1>4 DEF ReplayInv, ReplayTypes, TracesAreReplayed

\* A session that is checkpointed, killed and restored any number of times,
\* from any of its checkpoints, with a process older than the file system or
\* not, replays its trace: every answer is the recorded one of its turn, the
\* file is a recorded version no older than the conversation, and a session
\* that ends has carried out the whole trace (handle_request, next_response
\* and restore of the two services, _restore_llm_service_state).
THEOREM TracesReplayed == TRSpec => []TracesAreReplayed
<1> USE TraceAssumption
<1>1. ASSUME TRInit PROVE ReplayInv
  <2>1. 0 \in 0..TraceLen /\ ver[0] \in Versions
    BY <1>1 DEF TRInit, TraceOK
  <2>2. ReplayTypes
    BY <1>1, <2>1, Zenon DEF TRInit, ReplayTypes, TRTypeOK
  <2>3. CursorsAreAhead /\ FileIsRecorded
    BY <1>1 DEF TRInit, CursorsAreAhead, FileIsRecorded
  <2>4. AnswersAreNext
    BY <1>1, FS_EmptySet DEF TRInit, AnswersAreNext
  <2> QED BY <2>2, <2>3, <2>4 DEF ReplayInv
<1>2. ASSUME ReplayInv, [TRNext]_trvars PROVE ReplayInv'
  <2>1. CASE UNCHANGED trvars
    BY <1>2, <2>1, Zenon DEF trvars, ReplayInv, ReplayTypes, TRTypeOK, TraceOK, CursorsAreAhead, FileIsRecorded, AnswersAreNext
  <2>2. CASE ServeCatchup \/ ServeNext
    BY <1>2, <2>2, ServeKeeps, Zenon
  <2>3. CASE ServeByKey \/ ServeByCursor
    BY <1>2, <2>3, ServeByKeyKeeps, Zenon
  <2>4. CASE Deliver
    BY <1>2, <2>4, DeliverKeeps, Zenon
  <2>5. CASE Retry \/ Kill
    BY <1>2, <2>5, FaultKeeps, Zenon
  <2>6. CASE Relaunch
    BY <1>2, <2>6, RelaunchKeeps, Zenon
  <2>7. CASE \E full \in BOOLEAN : Checkpoint(full)
    BY <1>2, <2>7, CheckpointKeeps, Zenon
  <2>8. CASE \E p \in points : RestoreFrom(p)
    BY <1>2, <2>8, RestoreKeeps, Zenon
  <2> QED BY <1>2, <2>1, <2>2, <2>3, <2>4, <2>5, <2>6, <2>7, <2>8, Zenon DEF TRNext
<1>3. ReplayInv => TracesAreReplayed
  BY ReplayFollows
<1> QED BY <1>1, <1>2, <1>3, PTL DEF TRSpec

=============================================================================
