------------------------------ MODULE Scenario ------------------------------
(***************************************************************************)
(* One sandbox of the fault and spot benchmarks in replay mode             *)
(* (benchmarks/scenarios/fault.py, spot.py, common.py): a driver thread    *)
(* waits for the replayed task to pass its chunk targets, injects events   *)
(* and recovers, hands the sandbox over to verification and scores it.     *)
(* The task, its gated requests and the automatic checkpoints of those     *)
(* requests run beside it.                                                 *)
(***************************************************************************)
EXTENDS Integers, Sequences, FiniteSets, FiniteSetsExt, SequencesExt, Functions

CONSTANTS Trace,   \* trace_response_count
          Chunks   \* replay iterations configured

ASSUME ScenarioAssumption == Trace \in Nat \ {0} /\ Chunks \in Nat \ {0}

VARIABLES
    scen,      \* "fault", "spot"
    mode,      \* "manual", "auto"
    forced,    \* first_forced_event_chunk, 0: none
    verify,    \* config.verification_enabled
    merge,     \* config.phase_merging.setup_and_run
    lenient,   \* the agent reports a finished task as a complete replay
    cursor,    \* the replay's trace cursor
    task,      \* "running", "finished", "failed": the task and its future
    asking,    \* the task waits for a response
    gate,      \* has_pending_interceptor_signal
    coord,     \* "none", "decided", "job": the checkpoint of the request
    active,    \* the scheduler still decides for this sandbox
    up, paused,
    dpc,       \* where the driver stands
    chunk,     \* chunk_index
    seen,      \* the status wait_for_progress returned
    injected,  \* events_injected
    recovered, \* recoveries_succeeded
    error,     \* task_error: "none", "progress", "other"
    missed,    \* required_event_became_unreachable
    notice,    \* preemption_notice metadata is set
    stop,      \* request_stop was called
    ratio,     \* the run's success_ratio argument
    hasty,     \* the executor drain timed out
    passed,    \* verification_status = "passed"
    success,   \* success_ratio = 1.0
    hits,      \* events that really struck
    failed     \* restores that failed

optvars == <<scen, mode, forced, verify, merge, lenient>>
taskvars == <<cursor, task, asking, gate, coord, active, up, paused>>
runvars == <<chunk, seen, injected, recovered, missed, notice, hits, failed>>
endvars == <<stop, ratio, hasty, passed, success>>
drvvars == <<dpc, error, runvars, endvars>>
scvars == <<optvars, taskvars, drvvars>>

(* choose_replay_chunk_targets: ceilings of equal parts, strictly increasing *)
MinOf(a, b) == IF a < b THEN a ELSE b
Ceil(a, b) == (a + b - 1) \div b
Targets == SetToSortSeq({MinOf(Trace, Ceil(Trace * c, Chunks)) : c \in 1..Chunks}, <)
Planned == Len(Targets)

ScInit ==
    /\ scen \in {"fault", "spot"} /\ mode \in {"manual", "auto"}
    /\ forced \in 0..Planned /\ verify \in BOOLEAN
    /\ merge \in BOOLEAN /\ lenient \in BOOLEAN
    /\ cursor = 0 /\ task = "running" /\ asking = FALSE /\ gate = FALSE
    /\ coord = "none" /\ active = TRUE /\ up = TRUE /\ paused = FALSE
    /\ dpc = "progress" /\ chunk = 1 /\ seen = [finished |-> FALSE, complete |-> FALSE]
    /\ injected = 0 /\ recovered = 0 /\ error = "none" /\ missed = FALSE
    /\ notice = FALSE /\ stop = FALSE /\ ratio = FALSE /\ hasty = FALSE /\ passed = FALSE /\ success = FALSE
    /\ hits = 0 /\ failed = 0

(***************************************************************************)
(* The task and the coordination of its requests.                          *)
(***************************************************************************)
TaskAsks ==
    /\ task = "running" /\ up /\ ~asking /\ ~gate /\ cursor < Trace /\ ~stop
    /\ asking' = TRUE /\ gate' = TRUE
    /\ UNCHANGED <<cursor, task, coord, active, up, paused, optvars, drvvars>>

(* A response whose gate opened is answered and its command executed. *)
TaskAdvances ==
    /\ task = "running" /\ up /\ asking /\ ~gate
    /\ asking' = FALSE /\ cursor' = cursor + 1
    /\ UNCHANGED <<task, gate, coord, active, up, paused, optvars, drvvars>>

(* The trace is exhausted, the stop request is honoured, or the agent in   *)
(* the sandbox finishes early.                                             *)
TaskFinishes ==
    /\ task = "running" /\ up /\ ~asking
    /\ task' = "finished"
    /\ UNCHANGED <<cursor, asking, gate, coord, active, up, paused, optvars, drvvars>>

(* The request times out in the agent, or the lost sandbox never returns. *)
TaskFails ==
    /\ task = "running" /\ (asking \/ ~up)
    /\ task' = "failed" /\ asking' = FALSE
    /\ UNCHANGED <<cursor, gate, coord, active, up, paused, optvars, drvvars>>

(* The scheduler decides for a request in flight; a decision becomes a job *)
(* that pauses the container.  The gate opens when the coordination ends.  *)
Coordinate ==
    /\ gate /\ coord = "none"
    /\ IF mode = "auto" /\ active
         THEN coord' = "decided" /\ UNCHANGED gate
         ELSE gate' = FALSE /\ UNCHANGED coord
    /\ UNCHANGED <<cursor, task, asking, active, up, paused, optvars, drvvars>>

JobStarts ==
    /\ coord = "decided"
    /\ coord' = "job" /\ paused' = up
    /\ UNCHANGED <<cursor, task, asking, gate, active, up, optvars, drvvars>>

JobEnds ==
    /\ coord = "job"
    /\ coord' = "none" /\ paused' = FALSE /\ gate' = FALSE
    /\ UNCHANGED <<cursor, task, asking, active, up, optvars, drvvars>>

TaskStep == TaskAsks \/ TaskAdvances \/ TaskFinishes \/ TaskFails
            \/ Coordinate \/ JobStarts \/ JobEnds

(* replay_status_is_complete of a polled status. *)
Complete == (lenient /\ task = "finished") \/ cursor >= Trace

(***************************************************************************)
(* The chunk loop.                                                         *)
(***************************************************************************)
Raise(e) == dpc' = "rowError" /\ error' = e
NextChunk == IF chunk = Planned THEN dpc' = "rowDone" /\ UNCHANGED chunk
                                ELSE dpc' = "progress" /\ chunk' = chunk + 1
WasMissed == forced > 0 /\ chunk >= forced /\ injected = 0

WaitForProgress ==
    /\ dpc = "progress"
    /\ cursor >= Targets[chunk]
    /\ seen' = [finished |-> task = "finished", complete |-> Complete]
    /\ dpc' = "decide"
    /\ UNCHANGED <<chunk, injected, recovered, error, missed, notice, hits, failed, endvars,
                   optvars, taskvars>>

(* The task ended or stalled below the target.  The fault benchmark takes  *)
(* iflow's early end for the end of the run; other errors are the row's.   *)
ProgressFails ==
    /\ dpc = "progress" /\ cursor < Targets[chunk]
    /\ \/ /\ scen = "fault" /\ task = "finished"
          /\ missed' = WasMissed /\ dpc' = "rowDone" /\ UNCHANGED error
       \/ Raise("progress") /\ UNCHANGED missed
    /\ UNCHANGED <<chunk, seen, injected, recovered, notice, hits, failed, endvars, optvars,
                   taskvars>>

(* should_inject_event and the steps up to the first blocking call. *)
MayInject == chunk >= forced
MustInject == forced > 0 /\ chunk = forced

NoEvent ==
    /\ dpc = "decide" /\ ~MustInject
    /\ IF scen = "fault" /\ seen.complete THEN dpc' = "rowDone" /\ UNCHANGED chunk ELSE NextChunk
    /\ UNCHANGED <<seen, injected, recovered, error, missed, notice, hits, failed, endvars,
                   optvars, taskvars>>

FaultEvent ==
    /\ dpc = "decide" /\ MayInject /\ scen = "fault"
    /\ IF seen.finished
         THEN missed' = WasMissed /\ dpc' = "rowDone" /\ UNCHANGED injected
         ELSE /\ dpc' = IF mode = "manual" THEN "checkpoint" ELSE "kill"
              /\ injected' = IF mode = "manual" THEN injected + 1 ELSE injected
              /\ UNCHANGED missed
    /\ UNCHANGED <<chunk, seen, recovered, error, notice, hits, failed, endvars, optvars,
                   taskvars>>

SpotEvent ==
    /\ dpc = "decide" /\ MayInject /\ scen = "spot"
    /\ injected' = injected + 1
    /\ IF mode = "manual" THEN notice' = TRUE /\ dpc' = "checkpoint" /\ UNCHANGED hits
                          ELSE hits' = hits + 1 /\ dpc' = "recover" /\ UNCHANGED notice
    /\ UNCHANGED <<chunk, seen, recovered, error, missed, failed, endvars, optvars, taskvars>>

(* checkpoint_manual; then the fault benchmark waits for a command window. *)
ManualCheckpoint ==
    /\ dpc = "checkpoint" /\ coord = "none"
    /\ \/ Raise("other")
       \/ scen = "fault" /\ Raise("progress")
       \/ dpc' = (IF scen = "fault" THEN "kill" ELSE "restore") /\ UNCHANGED error
    /\ UNCHANGED <<runvars, endvars, optvars, taskvars>>

(* inject_fault returns without an event when the task has finished or the *)
(* window never opens; both callers go on as if it had struck.             *)
InjectFault ==
    /\ dpc = "kill"
    /\ \/ task # "running" /\ UNCHANGED <<up, hits>>
       \/ task = "running" /\ (asking \/ coord # "none") /\ UNCHANGED <<up, hits>>
       \/ task = "running" /\ ~asking /\ coord = "none" /\ up' = FALSE /\ hits' = hits + 1
    /\ IF mode = "manual" THEN dpc' = "restore" /\ UNCHANGED injected
                          ELSE dpc' = "recover" /\ injected' = injected + 1
    /\ UNCHANGED <<cursor, task, asking, gate, coord, active, paused, chunk, seen, recovered,
                   error, missed, notice, failed, endvars, optvars>>

(* restore_once deletes the runtime before it restores it.  The fault      *)
(* benchmark counts what succeeded, the spot benchmark counts the call.    *)
ManualRestore ==
    /\ dpc = "restore" /\ coord = "none"
    /\ \E ok \in BOOLEAN :
         /\ up' = ok /\ failed' = (IF ok THEN failed ELSE failed + 1)
         /\ recovered' = (IF ok \/ scen = "spot" THEN recovered + 1 ELSE recovered)
    /\ notice' = FALSE
    /\ NextChunk
    /\ UNCHANGED <<cursor, task, asking, gate, coord, active, paused, seen, injected, error,
                   missed, hits, endvars, optvars>>

(* wait_for_recovery: the system's record, or none within the timeout. *)
AutoRecover ==
    /\ dpc = "recover" /\ coord = "none"
    /\ \/ up' = TRUE /\ recovered' = recovered + 1 /\ NextChunk /\ UNCHANGED <<failed, error>>
       \/ up' = FALSE /\ failed' = failed + 1 /\ Raise("other") /\ UNCHANGED <<recovered, chunk>>
    /\ UNCHANGED <<cursor, task, asking, gate, coord, active, paused, seen, injected, missed,
                   notice, hits, endvars, optvars>>

(* After the loop: a required event that became unreachable is an error. *)
RowEnds ==
    /\ dpc \in {"rowDone", "rowError"}
    /\ error' = IF missed /\ error = "none" THEN "other" ELSE error
    /\ ratio' = (error' = "none" /\ recovered = injected)
    /\ dpc' = IF ~verify /\ ~merge THEN "finalize"
              ELSE IF task = "finished" THEN "handover" ELSE "cleanupWait"
    /\ UNCHANGED <<stop, hasty, passed, success, runvars, optvars, taskvars>>

(***************************************************************************)
(* The hand-over to verification and the score.                            *)
(***************************************************************************)
(* wait_for_task_completion.  A complete replay returns once no request is *)
(* pending and the future is done, and resumes the container; one that is  *)
(* still running after the grace period is asked to stop.  The deadline    *)
(* only counts while the replay is incomplete.                             *)
TaskReturned == IF Complete THEN ~gate /\ task # "running" ELSE task = "finished"
TaskRaised == ~Complete /\ task # "finished"

RequestStop ==
    /\ dpc \in {"cleanupWait", "verifyWait"} /\ ~stop
    /\ Complete /\ ~gate /\ task = "running"
    /\ stop' = TRUE
    /\ UNCHANGED <<dpc, error, ratio, hasty, passed, success, runvars, optvars, taskvars>>

CleanupWait ==
    /\ dpc = "cleanupWait"
    /\ \/ /\ TaskReturned
          /\ paused' = (paused /\ ~Complete)
          /\ dpc' = "handover" /\ UNCHANGED error
       \/ /\ TaskRaised
          /\ error' = (IF error = "none" THEN "other" ELSE error)
          /\ dpc' = IF verify \/ task # "running" THEN "handover" ELSE "finalize"
          /\ UNCHANGED paused
    /\ UNCHANGED <<cursor, task, asking, gate, coord, active, up, runvars, endvars, optvars>>

(* quiesce_for_verification, first half: no more decisions.  Without       *)
(* verification the runtime of a completed task is deleted instead.        *)
Handover ==
    /\ dpc = "handover"
    /\ IF verify THEN active' = FALSE /\ dpc' = "drain" /\ UNCHANGED up
                 ELSE up' = FALSE /\ dpc' = "finalize" /\ UNCHANGED active
    /\ UNCHANGED <<cursor, task, asking, gate, coord, paused, error, runvars, endvars, optvars>>

(* Second half: no executor job, or the drain timed out; then resume. *)
QuiesceDrain ==
    /\ dpc = "drain"
    /\ hasty' = (hasty \/ coord = "job")
    /\ paused' = FALSE /\ dpc' = "finalize"
    /\ UNCHANGED <<cursor, task, asking, gate, coord, active, up, error, stop, ratio, passed,
                   success, runvars, optvars>>

(* finalize_replay_row: a stale progress error of a complete replay is     *)
(* dropped; the fault benchmark then verifies.                             *)
KeptError == IF Complete /\ error = "progress" THEN "none" ELSE error
FinalizeRow ==
       /\ dpc = "finalize"
       /\ error' = KeptError
       /\ dpc' = IF verify /\ scen = "fault" /\ KeptError = "none" THEN "verifyWait" ELSE "score"
       /\ UNCHANGED <<runvars, endvars, optvars, taskvars>>

VerifyWait ==
    /\ dpc = "verifyWait"
    /\ \/ TaskReturned /\ paused' = (paused /\ ~Complete) /\ dpc' = "verifying" /\ UNCHANGED error
       \/ TaskRaised /\ error' = "other" /\ dpc' = "score" /\ UNCHANGED paused
    /\ UNCHANGED <<cursor, task, asking, gate, coord, active, up, runvars, endvars, optvars>>

(* verify_task_accuracy: the tests run inside the sandbox. *)
Verify ==
    /\ dpc = "verifying"
    /\ \E ok \in BOOLEAN : passed' = (ok /\ up /\ ~paused)
    /\ dpc' = "score"
    /\ UNCHANGED <<error, stop, ratio, hasty, success, runvars, optvars, taskvars>>

Score ==
    /\ dpc = "score"
    /\ LET e == IF error = "none" /\ task = "finished" /\ ~Complete THEN "other" ELSE error
       IN  /\ error' = e
           /\ success' = (e = "none" /\ IF verify /\ scen = "fault" THEN passed ELSE ratio)
    /\ dpc' = "done"
    /\ UNCHANGED <<stop, ratio, hasty, passed, runvars, optvars, taskvars>>

ScDone == dpc = "done" /\ UNCHANGED scvars

(***************************************************************************)
(* The four loops are built from the same steps.                           *)
(***************************************************************************)
Loop == WaitForProgress \/ ProgressFails \/ NoEvent \/ RowEnds
FaultManual ==
    /\ scen = "fault" /\ mode = "manual"
    /\ Loop \/ FaultEvent \/ ManualCheckpoint \/ InjectFault \/ ManualRestore
FaultAuto ==
    /\ scen = "fault" /\ mode = "auto"
    /\ Loop \/ FaultEvent \/ InjectFault \/ AutoRecover
SpotManual ==
    /\ scen = "spot" /\ mode = "manual"
    /\ Loop \/ SpotEvent \/ ManualCheckpoint \/ ManualRestore
SpotAuto ==
    /\ scen = "spot" /\ mode = "auto"
    /\ Loop \/ SpotEvent \/ AutoRecover

DriverStep ==
    \/ FaultManual \/ FaultAuto \/ SpotManual \/ SpotAuto
    \/ RequestStop \/ CleanupWait \/ Handover \/ QuiesceDrain \/ FinalizeRow \/ VerifyWait
    \/ Verify \/ Score

ScNext == TaskStep \/ DriverStep \/ ScDone
ScSpec == ScInit /\ [][ScNext]_scvars
ScLiveSpec == ScSpec /\ WF_scvars(TaskStep) /\ WF_scvars(DriverStep)

ScTypeOK ==
    /\ cursor \in 0..Trace /\ chunk \in 1..Planned
    /\ injected \in 0..Planned /\ recovered \in 0..injected
    /\ error \in {"none", "progress", "other"} /\ coord \in {"none", "decided", "job"}

(* The verification tests run while nothing else touches the sandbox: the  *)
(* task is over, no checkpoint of it is decided or running, the container  *)
(* is not paused (unless the executor drain was cut short).  Otherwise the *)
(* exec meets a paused container.                                          *)
VerifyIsQuiet ==
    (dpc = "verifying" /\ ~hasty) => task # "running" /\ coord = "none" /\ ~paused

(* A row scored as a success lost no restore (not so: spot.py counts the   *)
(* restore call, and a passing verification replaces the recovery ratio).  *)
SuccessIsRecovered == (dpc = "done" /\ success) => failed = 0

(* The row ends: no wait of the driver is left without a way out, given    *)
(* that the task's future, the coordinator and the driver keep running.    *)
RowTerminates == <>(dpc = "done")

(* Every event a fault row counts really struck. *)
CountedIsInjected == (dpc = "done" /\ scen = "fault") => hits = injected

(* A forced event is injected or its absence is an error. *)
ForcedIsReported == (dpc = "done" /\ success /\ forced > 0) => injected > 0

(* The preemption notice does not outlive its event. *)
NoticeIsCleared == dpc = "done" => ~notice

-----------------------------------------------------------------------------
(***************************************************************************)
(* One source sandbox of the tree-search benchmark                         *)
(* (benchmarks/scenarios/tree.py): the source runs while it is             *)
(* checkpointed step by step; then forks are cloned from chosen steps,     *)
(* restored, run and destroyed, one after the other or all at once.        *)
(* A sandbox's content is the number of actions it has seen.               *)
(***************************************************************************)

CONSTANTS Steps,      \* source_steps
          Branches,   \* branch_points
          MaxFails    \* calls that may raise or fail

ASSUME TreeAssumption == Steps \in Nat \ {0} /\ Branches \in Nat /\ MaxFails \in Nat

VARIABLES
    auto,      \* run_auto, else run_manual
    sparse,    \* skip_if_no_meaningful_delta
    conc,      \* replay_mode = "concurrent"
    traced,    \* the LLM service replays a trace
    relaunch,  \* relaunch_on_restore_failure, for a compose sandbox
    acts,      \* actions of the source's task
    held,      \* the source's request that waits for its checkpoint, 0: none
    tag,       \* snapshot metadata tree_search_step
    stask,     \* the source's task: "running", "done"
    srcUp,
    kept,      \* the source's checkpoints: tag -> content
    index,     \* checkpoints_by_step, as the driver read it
    base,      \* last_status total_actions
    tstep,      \* collect_manual's loop variable
    todo,      \* replay_steps left
    fork,      \* replay step -> "none", "cloned", "restored", "running", "over", "failed", "gone"
    from,      \* content the fork was restored to, -1: none
    fcur,      \* trace cursor of the fork's LLM service
    tasks,     \* task runs alive in the fork
    known,     \* prepared_forks
    tpc,       \* where the driver stands
    raised,    \* an exception is on its way out
    fails,
    excused    \* forks whose clone or cleanup raised

treeopts == <<auto, sparse, conc, traced, relaunch>>
srcvars == <<acts, held, tag, stask, srcUp, kept>>
forkvars == <<fork, from, fcur, tasks>>
tdrv == <<index, base, tstep, todo, known, tpc, raised, fails, excused>>
tsvars == <<treeopts, srcvars, forkvars, tdrv>>

(* choose_replay_steps: every stride-th step; choose_random_replay_steps: *)
(* any sample of the same size.                                           *)
Candidates == 1..(Steps - 1)
Stride == Max({1, Cardinality(Candidates) \div Branches})
ReplaySteps ==
    IF Steps <= 1 \/ Branches = 0 THEN {{}}
    ELSE IF Branches >= Steps - 1 THEN {Candidates}
    ELSE IF traced THEN kSubset(Branches, Candidates)
    ELSE {{1 + Stride * i : i \in 0..(Branches - 1)} \cap Candidates}

TSInit ==
    /\ auto \in BOOLEAN /\ sparse \in BOOLEAN /\ conc \in BOOLEAN
    /\ traced \in BOOLEAN /\ relaunch \in BOOLEAN
    /\ acts = 0 /\ held = 0 /\ tag = 0 /\ stask = "running" /\ srcUp = TRUE
    /\ kept = [s \in {} |-> 0] /\ index = [s \in {} |-> 0]
    /\ base = 0 /\ tstep = 1 /\ todo \in ReplaySteps /\ known = {}
    /\ fork = [s \in Candidates |-> "none"] /\ from = [s \in Candidates |-> -1]
    /\ fcur = [s \in Candidates |-> 0] /\ tasks = [s \in Candidates |-> 0]
    /\ tpc = "collect" /\ raised = FALSE /\ fails = 0 /\ excused = {}

Set(f, x, v) == [y \in DOMAIN f \cup {x} |-> IF y = x THEN v ELSE f[y]]
MayFail == fails < MaxFails
Fail == MayFail /\ fails' = fails + 1

(***************************************************************************)
(* The source.                                                             *)
(***************************************************************************)
(* TreeSearchStepHook.on_request_start tags the snapshot with the request. *)
StepOf(r) == r
SourceAsks ==
    /\ stask = "running" /\ srcUp /\ held = 0 /\ acts <= Steps
    /\ held' = acts + 1
    /\ tag' = IF auto THEN StepOf(acts + 1) ELSE tag
    /\ UNCHANGED <<acts, stask, srcUp, kept, treeopts, forkvars, tdrv>>

(* TreeSearchCheckpointingPolicy: every step, or with sparse the changed   *)
(* ones; the response is held until the checkpoint is stored or failed.    *)
SourceAnswered ==
    /\ held > 0
    /\ \/ auto /\ tag > 0 /\ kept' = Set(kept, tag, held) /\ UNCHANGED fails
       \/ auto /\ sparse /\ UNCHANGED <<kept, fails>>
       \/ auto /\ Fail /\ UNCHANGED kept
       \/ ~auto /\ UNCHANGED <<kept, fails>>
    /\ acts' = held /\ held' = 0
    /\ UNCHANGED <<tag, stask, srcUp, treeopts, forkvars, index, base, tstep, todo, known, tpc,
                   raised, excused>>

SourceEnds ==
    /\ stask = "running" /\ (acts >= Steps \/ ~srcUp)
    /\ held = 0
    /\ stask' = "done"
    /\ UNCHANGED <<acts, held, tag, srcUp, kept, treeopts, forkvars, tdrv>>

(***************************************************************************)
(* Collecting the checkpoints.                                             *)
(***************************************************************************)
Leave == tpc' = "sourceDown" /\ raised' = TRUE

(* collect_manual_checkpoint_indexes: the source runs on between the wait  *)
(* and the checkpoint; a failed checkpoint's id is recorded all the same.  *)
CollectManual ==
    /\ tpc = "collect" /\ ~auto /\ tstep <= Steps
    /\ \/ acts > base
          /\ LET wanted == ~traced \/ tstep \in todo
             IN  \/ ~wanted /\ UNCHANGED <<kept, index, tag, fails>>
                 \/ wanted /\ kept' = Set(kept, tstep, acts) /\ index' = Set(index, tstep, acts)
                    /\ tag' = tstep /\ UNCHANGED fails
                 \/ wanted /\ Fail /\ index' = Set(index, tstep, -1) /\ tag' = tstep
                    /\ UNCHANGED kept
          /\ base' = acts /\ tstep' = tstep + 1 /\ UNCHANGED <<tpc, raised>>
       \/ acts <= base /\ stask = "done" /\ Leave
          /\ UNCHANGED <<kept, index, base, tstep, fails, tag>>
    /\ UNCHANGED <<acts, held, stask, srcUp, treeopts, forkvars, todo, known, excused>>

CollectManualEnds ==
    /\ tpc = "collect" /\ ~auto /\ tstep > Steps
    /\ tpc' = "sourceWait"
    /\ UNCHANGED <<index, base, tstep, todo, known, raised, fails, excused, treeopts, srcvars,
                   forkvars>>

(* collect_auto_checkpoint_indexes: after the task, or Steps actions of    *)
(* it.  Sparse takes what is there once the count is stable, complete      *)
(* waits for every step or times out.                                      *)
InitialSteps == {s \in DOMAIN kept : s \in 1..Steps}
CollectAuto ==
    /\ tpc = "collect" /\ auto
    /\ IF traced THEN stask = "done" ELSE acts >= Steps \/ stask = "done"
    /\ \/ /\ sparse \/ InitialSteps = 1..Steps
          /\ index' = Restrict(kept, InitialSteps)
          /\ tpc' = "sourceWait" /\ UNCHANGED raised
       \/ ~sparse /\ InitialSteps # 1..Steps /\ Leave /\ UNCHANGED index
    /\ UNCHANGED <<base, tstep, todo, known, fails, excused, treeopts, srcvars, forkvars>>

(* run_source_replays begins: wait for the source, then take it down if it *)
(* ran to completion or does not stop.                                     *)
SourceWait ==
    /\ tpc = "sourceWait"
    /\ \/ /\ traced => stask = "done"
          /\ srcUp' = (srcUp /\ ~traced /\ stask = "done")
          /\ tpc' = IF conc THEN "prepareAll" ELSE "next"
          /\ UNCHANGED <<raised, fails>>
       \/ Fail /\ Leave /\ UNCHANGED srcUp
    /\ UNCHANGED <<acts, held, tag, stask, kept, index, base, tstep, todo, known, excused,
                   treeopts, forkvars>>

(***************************************************************************)
(* The forks.                                                              *)
(***************************************************************************)
(* resolve_tree_search_replay_checkpoint: the last one at or before. *)
Compatible(s) == {c \in DOMAIN index : c <= s}
Chosen(s) == Max(Compatible(s))

(* prepare_replay_fork: clone_checkpoint_to_fork needs the manifest; a     *)
(* failing clone has registered a handle but no fork is returned.          *)
Cloned(s) ==
    /\ Compatible(s) # {} /\ Chosen(s) \in DOMAIN kept
    /\ fork' = [fork EXCEPT ![s] = "cloned"]
CloneFails(s) ==
    \/ Compatible(s) = {} /\ UNCHANGED <<fails, fork, excused>>
    \/ Compatible(s) # {} /\ Chosen(s) \notin DOMAIN kept /\ UNCHANGED <<fails, fork, excused>>
    \/ Compatible(s) # {} /\ Fail /\ fork' = [fork EXCEPT ![s] = "cloned"]
       /\ excused' = excused \cup {s}

(* Concurrent mode builds the whole list before it binds prepared_forks. *)
PrepareAll ==
    /\ tpc = "prepareAll"
    /\ IF \E s \in todo : fork[s] = "none"
         THEN LET s == Min({r \in todo : fork[r] = "none"})
              IN  \/ Cloned(s) /\ UNCHANGED <<tpc, raised, fails, known, excused>>
                  \/ CloneFails(s) /\ tpc' = "cleanup" /\ raised' = TRUE /\ UNCHANGED known
         ELSE /\ known' = todo /\ tpc' = "restoreAll"
              /\ UNCHANGED <<raised, fails, fork, excused>>
    /\ UNCHANGED <<index, base, tstep, todo, from, fcur, tasks, treeopts, srcvars>>

PrepareNext ==
    /\ tpc = "next"
    /\ IF todo = {} 
         THEN tpc' = "cleanup" /\ UNCHANGED <<todo, known, raised, fails, fork, excused>>
       ELSE LET s == Min(todo)
            IN  \/ Cloned(s) /\ known' = known \cup {s} /\ tpc' = "restoreAll"
                   /\ todo' = todo \ {s} /\ UNCHANGED <<raised, fails, excused>>
                \/ CloneFails(s) /\ tpc' = "cleanup" /\ raised' = TRUE
                   /\ UNCHANGED <<known, todo>>
    /\ UNCHANGED <<index, base, tstep, from, fcur, tasks, treeopts, srcvars>>

(* restore_tree_search_fork: the restore, or with the fallback enabled a   *)
(* relaunch: the LLM service is restored, then relaunch_sandbox (no task   *)
(* future yet) resets it and launches the task.                            *)
Restore(s) ==
    /\ tpc = "restoreAll" /\ s \in known /\ fork[s] = "cloned"
    /\ \/ /\ fork' = [fork EXCEPT ![s] = "restored"]
          /\ from' = [from EXCEPT ![s] = kept[Chosen(s)]]
          /\ fcur' = [fcur EXCEPT ![s] = kept[Chosen(s)]] /\ UNCHANGED <<tasks, fails>>
       \/ /\ Fail /\ relaunch /\ traced
          /\ fork' = [fork EXCEPT ![s] = "restored"]
          /\ from' = [from EXCEPT ![s] = kept[Chosen(s)]]
          /\ fcur' = [fcur EXCEPT ![s] = 0] /\ tasks' = [tasks EXCEPT ![s] = 1]
       \/ /\ Fail /\ fork' = [fork EXCEPT ![s] = "failed"] /\ UNCHANGED <<from, fcur, tasks>>
    /\ UNCHANGED <<index, base, tstep, todo, known, tpc, raised, excused, treeopts, srcvars>>

(* The thread pool is left only when every thread is done. *)
AllDone(st) == \A s \in known : fork[s] \in st
RestoresOver ==
    /\ tpc = "restoreAll" /\ AllDone({"restored", "failed"})
    /\ IF \E s \in known : fork[s] = "failed" THEN tpc' = "cleanup" /\ raised' = TRUE
                                              ELSE tpc' = "runAll" /\ UNCHANGED raised
    /\ UNCHANGED <<index, base, tstep, todo, known, fails, excused, treeopts, srcvars, forkvars>>

(* run_replay_progress: launch_task asks an earlier run to stop and does   *)
(* not wait for it.                                                        *)
RunStarted(s) ==
    /\ tpc = "runAll" /\ s \in known /\ fork[s] = "restored"
    /\ fork' = [fork EXCEPT ![s] = "running"] /\ tasks' = [tasks EXCEPT ![s] = @ + 1]
    /\ UNCHANGED <<from, fcur, treeopts, srcvars, tdrv>>

EarlierRunStops(s) ==
    /\ tasks[s] > 1
    /\ tasks' = [tasks EXCEPT ![s] = @ - 1]
    /\ UNCHANGED <<fork, from, fcur, treeopts, srcvars, tdrv>>

(* wait_for_task_completion_or_stop, or the completion of the replay. *)
RunOver(s) ==
    /\ tpc = "runAll" /\ s \in known /\ fork[s] = "running"
    /\ \/ fork' = [fork EXCEPT ![s] = "over"] /\ tasks' = [tasks EXCEPT ![s] = @ - 1]
          /\ UNCHANGED fails
       \/ Fail /\ fork' = [fork EXCEPT ![s] = "failed"] /\ UNCHANGED tasks
    /\ UNCHANGED <<from, fcur, index, base, tstep, todo, known, tpc, raised, excused, treeopts,
                   srcvars>>

RunsOver ==
    /\ tpc = "runAll" /\ AllDone({"over", "failed"})
    /\ tpc' = "cleanup"
    /\ raised' = (raised \/ \E s \in known : fork[s] = "failed")
    /\ UNCHANGED <<index, base, tstep, todo, known, fails, excused, treeopts, srcvars, forkvars>>

(* cleanup_replay_forks: every known fork is popped; a failing cleanup is  *)
(* kept for later and the fork stays behind.                               *)
CleanupFork ==
    /\ tpc = "cleanup" /\ known # {}
    /\ LET s == Max(known)
       IN  /\ known' = known \ {s}
           /\ \/ fork' = [fork EXCEPT ![s] = "gone"] /\ tasks' = [tasks EXCEPT ![s] = 0]
                 /\ UNCHANGED <<fails, raised, excused>>
              \/ Fail /\ raised' = TRUE /\ excused' = excused \cup {s} /\ UNCHANGED <<fork, tasks>>
    /\ UNCHANGED <<from, fcur, index, base, tstep, todo, tpc, treeopts, srcvars>>

CleanupEnds ==
    /\ tpc = "cleanup" /\ known = {}
    /\ tpc' = IF ~conc /\ ~raised /\ todo # {} THEN "next" ELSE "sourceDown"
    /\ UNCHANGED <<index, base, tstep, todo, known, raised, fails, excused, treeopts, srcvars,
                   forkvars>>

(* run_manual_source / run_auto_source, finally: runtime, checkpoints and  *)
(* dataset of the source.                                                  *)
SourceDown ==
    /\ tpc = "sourceDown"
    /\ srcUp' = FALSE /\ held' = 0 /\ stask' = "done" /\ kept' = Restrict(kept, {})
    /\ tpc' = "done"
    /\ UNCHANGED <<acts, tag, index, base, tstep, todo, known, raised, fails, excused, treeopts,
                   forkvars>>

TSDone == tpc = "done" /\ UNCHANGED tsvars

TSNext ==
    \/ SourceAsks \/ SourceAnswered \/ SourceEnds
    \/ CollectManual \/ CollectManualEnds \/ CollectAuto \/ SourceWait
    \/ PrepareAll \/ PrepareNext \/ RestoresOver \/ RunsOver
    \/ \E s \in Candidates : Restore(s) \/ RunStarted(s) \/ EarlierRunStops(s) \/ RunOver(s)
    \/ CleanupFork \/ CleanupEnds \/ SourceDown \/ TSDone

TSSpec == TSInit /\ [][TSNext]_tsvars

TSTypeOK ==
    /\ fork \in [Candidates -> {"none", "cloned", "restored", "running", "over", "failed", "gone"}]
    /\ known \subseteq Candidates /\ todo \subseteq Candidates
    /\ tasks \in [Candidates -> 0..2] /\ fails \in 0..MaxFails

(* No fork is cleaned up, and no checkpoint of the source deleted, while a *)
(* thread of the pool still restores or runs a fork: the pool is joined    *)
(* before the exception leaves it (run_source_replays).                    *)
CleanupIsQuiet ==
    tpc \in {"cleanup", "sourceDown"} => \A s \in known : fork[s] \notin {"cloned", "running"}

(* A fork made in auto mode starts exactly where the source stood at the   *)
(* nearest checkpointed step: the tag, the index and the clone agree.      *)
AutoForkIsExact ==
    \A s \in Candidates : (auto /\ from[s] >= 0) => from[s] = Chosen(s)
                          /\ (sparse \/ fails > 0 \/ from[s] = s)

(* In sequential mode no fork outlives the run of its source: whichever    *)
(* restore, run or later clone fails, only the forks whose own clone or    *)
(* cleanup raised are left behind.                                         *)
NoneLeft == \A s \in Candidates \ excused : fork[s] \in {"none", "gone"}
SequentialLeavesNone == (tpc = "done" /\ ~conc) => NoneLeft

(* The same in concurrent mode (not so: the forks cloned before the one    *)
(* that fails are not in prepared_forks yet).                              *)
ConcurrentLeavesNone == (tpc = "done" /\ conc) => NoneLeft

(* A fork made in manual mode starts at its step. *)
ManualForkIsExact == \A s \in Candidates : (~auto /\ from[s] >= 0) => from[s] = Chosen(s)

(* A restored fork's LLM service stands where its sandbox stands. *)
CursorMatchesFork ==
    \A s \in Candidates : fork[s] \in {"restored", "running"} => fcur[s] = from[s]

(* At most one task runs in a fork. *)
OneTaskPerFork == \A s \in Candidates : tasks[s] <= 1

-----------------------------------------------------------------------------
(* The benchmark's worker pools (benchmarks/core.py): setup and run of every  *)
(* item over two pools, over one shared pool, or one phase mapped over a      *)
(* pool, with the begin and end each phase reports.                           *)

CONSTANTS Items,         \* 1..n, in submission order
          SetupWorkers, RunWorkers

ASSUME PipelineAssumption ==
    /\ IsFiniteSet(Items) /\ Items \subseteq Nat
    /\ SetupWorkers \in Nat \ {0} /\ RunWorkers \in Nat \ {0}

VARIABLES
    pool,       \* "separate", "shared" or "map"
    job,        \* of each item: where its futures stand
    batch,      \* completed futures the main loop is going through
    main,       \* "loop", "drain", "returned", "raised"
    setupFinished, runStarted, completed,
    begun, ended    \* times each phase was reported begun, ended

plvars == <<pool, job, batch, main, setupFinished, runStarted, completed, begun, ended>>

Phases == {"setup", "run"}
Once(f, p) == [f EXCEPT ![p] = @ + 1]
Shared == IF SetupWorkers < RunWorkers THEN SetupWorkers ELSE RunWorkers
In(states) == {i \in Items : job[i] \in states}

PlInit ==
    /\ pool \in {"separate", "shared", "map"}
    /\ job = [i \in Items |-> IF pool = "map" THEN "ready" ELSE "queued"]
    /\ batch = {} /\ main = "loop"
    /\ setupFinished = FALSE /\ runStarted = (pool = "map") /\ completed = 0
    /\ begun = [p \in Phases |-> IF (p = "setup") = (pool = "map") THEN 0 ELSE 1]
    /\ ended = [p \in Phases |-> 0]
---------------------------------------------------------------------------
(* A pool thread takes up the setup, or the run, of an item. *)
SetupFree == Cardinality(In({"setup"} \cup (IF pool = "shared" THEN {"running"} ELSE {})))
               < (IF pool = "shared" THEN Shared ELSE SetupWorkers)
StartSetup(i) ==
    /\ job[i] = "queued" /\ SetupFree
    /\ job' = [job EXCEPT ![i] = "setup"]
    /\ UNCHANGED <<pool, batch, main, setupFinished, runStarted, completed, begun, ended>>

StartRun(i) ==
    /\ job[i] = "ready" /\ pool # "shared"
    /\ Cardinality(In({"running"})) < RunWorkers
    /\ job' = [job EXCEPT ![i] = "running"]
    /\ UNCHANGED <<pool, batch, main, setupFinished, runStarted, completed, begun, ended>>

EndSetup(i) ==
    /\ pool = "separate" /\ job[i] = "setup"
    /\ \E ok \in BOOLEAN : job' = [job EXCEPT ![i] = IF ok THEN "prepared" ELSE "setupFailed"]
    /\ UNCHANGED <<pool, batch, main, setupFinished, runStarted, completed, begun, ended>>

EndRun(i) ==
    /\ job[i] = "running"
    /\ \E ok \in BOOLEAN : job' = [job EXCEPT ![i] = IF ok THEN "ran" ELSE "failed"]
    /\ UNCHANGED <<pool, batch, main, setupFinished, runStarted, completed, begun, ended>>

(* _invoke_setup_and_run: in the shared pool the worker itself reports the
   phases, under the state lock, and goes on to run the item. *)
SetupThenRun(i) ==
    /\ pool = "shared" /\ job[i] = "setup"
    /\ \/ /\ job' = [job EXCEPT ![i] = "failed"]
          /\ UNCHANGED <<setupFinished, runStarted, completed, begun, ended>>
       \/ LET last == ~setupFinished /\ completed + 1 = Cardinality(Items) IN
          /\ job' = [job EXCEPT ![i] = "running"]
          /\ completed' = completed + 1
          /\ begun' = IF runStarted THEN begun ELSE Once(begun, "run")
          /\ runStarted' = TRUE
          /\ ended' = IF last THEN Once(ended, "setup") ELSE ended
          /\ setupFinished' = (setupFinished \/ last)
    /\ UNCHANGED <<pool, batch, main>>
---------------------------------------------------------------------------
(* wait(FIRST_COMPLETED) returns what has completed; a map waits in order. *)
Completed == In({"prepared", "setupFailed", "ran", "failed"})
Wait ==
    /\ main = "loop" /\ batch = {} /\ Completed # {}
    /\ batch' = IF pool # "map" THEN Completed
                ELSE {i \in Completed : \A k \in Items : k < i => job[k] = "taken"}
    /\ batch' # {}
    /\ UNCHANGED <<pool, job, main, setupFinished, runStarted, completed, begun, ended>>

(* A prepared item is submitted to the run pool; the first one begins the run
   phase.  After the batch, the end of the setup phase is reported once no
   setup is left. *)
SetupsLeft(i) == In({"queued", "setup", "prepared", "setupFailed"}) \ {i}
AfterTake(i) ==
    IF batch = {i} /\ pool = "separate" /\ ~setupFinished /\ SetupsLeft(i) = {}
      THEN ended' = Once(ended, "setup") /\ setupFinished' = TRUE
      ELSE UNCHANGED <<ended, setupFinished>>

TakePrepared(i) ==
    /\ main = "loop" /\ i \in batch /\ job[i] = "prepared"
    /\ job' = [job EXCEPT ![i] = "ready"]
    /\ begun' = IF runStarted THEN begun ELSE Once(begun, "run")
    /\ runStarted' = TRUE
    /\ batch' = batch \ {i}
    /\ AfterTake(i)
    /\ UNCHANGED <<pool, main, completed>>

TakeRan(i) ==
    /\ main = "loop" /\ i \in batch /\ job[i] = "ran"
    /\ job' = [job EXCEPT ![i] = "taken"]
    /\ batch' = batch \ {i}
    /\ AfterTake(i)
    /\ UNCHANGED <<pool, main, runStarted, completed, begun>>

(* A failed future ends the loop: what has not started is cancelled and the
   phases are reported failed; a map reports only once its pool is drained. *)
FailPhases(f) == [p \in Phases |->
    f[p] + (IF p = "setup" THEN (IF setupFinished \/ pool = "map" THEN 0 ELSE 1)
            ELSE IF runStarted /\ pool # "map" THEN 1 ELSE 0)]
TakeFailed(i) ==
    /\ main = "loop" /\ i \in batch /\ job[i] \in {"setupFailed", "failed"}
    /\ job' = [k \in Items |-> IF job[k] \in {"queued", "ready"} THEN "cancelled"
                               ELSE IF k = i THEN "taken" ELSE job[k]]
    /\ ended' = FailPhases(ended)
    /\ batch' = {} /\ main' = "drain"
    /\ UNCHANGED <<pool, setupFinished, runStarted, completed, begun>>

(* The executors' with-block waits for the threads still at work. *)
NoWait ==
    /\ main = "drain"
    /\ main' = "raised"
    /\ ended' = IF pool = "map" THEN Once(ended, "run") ELSE ended
    /\ UNCHANGED <<pool, job, batch, setupFinished, runStarted, completed, begun>>
Raised ==
    /\ main = "drain" /\ In({"setup", "running"}) = {}
    /\ main' = "raised"
    /\ ended' = IF pool = "map" THEN Once(ended, "run") ELSE ended
    /\ UNCHANGED <<pool, job, batch, setupFinished, runStarted, completed, begun>>

Returned ==
    /\ main = "loop" /\ batch = {} /\ In({"taken"}) = Items
    /\ main' = "returned"
    /\ ended' = [p \in Phases |-> IF p = "run" \/ (pool # "map" /\ ~setupFinished)
                                    THEN ended[p] + 1 ELSE ended[p]]
    /\ UNCHANGED <<pool, job, batch, setupFinished, runStarted, completed, begun>>

PlDone == main \in {"returned", "raised"} /\ UNCHANGED plvars

PlNext ==
    \/ \E i \in Items : StartSetup(i) \/ StartRun(i) \/ EndSetup(i) \/ EndRun(i) \/ SetupThenRun(i)
    \/ Wait
    \/ \E i \in Items : TakePrepared(i) \/ TakeRan(i) \/ TakeFailed(i)
    \/ Raised \/ Returned \/ PlDone

PlSpec == PlInit /\ [][PlNext]_plvars
---------------------------------------------------------------------------
(* Once the pipeline has returned or raised, every phase that began has been
   reported ended exactly once, unless the pool is shared. *)
PhasesBalanced ==
    main \in {"returned", "raised"} /\ pool # "shared" => ended = begun
PhasesBalancedShared == main \in {"returned", "raised"} => ended = begun

(* When the pipeline has handed back control no setup and no run is at work,
   and a normal return means every item ran. *)
QuietAfter ==
    /\ main \in {"returned", "raised"} => In({"setup", "running"}) = {}
    /\ main = "returned" => \A i \in Items : job[i] = "taken"
=============================================================================
