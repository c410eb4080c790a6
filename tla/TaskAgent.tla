----------------------------- MODULE TaskAgent -----------------------------
(***************************************************************************)
(* A CLI agent whose task runs inside its sandbox, and the host thread     *)
(* that waits for it (integrations/agents/claude_code.py, iflow.py).  The  *)
(* sandbox's wrapper writes a done and an exit marker to a directory the   *)
(* host sees and no checkpoint covers; the host thread polls them, waits   *)
(* for a restore when the sandbox is gone, and reports progress by time.   *)
(***************************************************************************)
EXTENDS Integers, FiniteSets

CONSTANTS MaxRestores,  \* bound: faults of the sandbox
          MaxClock      \* bound: ticks of the synthetic progress

ASSUME TaskAgentAssumption == MaxRestores \in Nat /\ MaxClock \in Nat

VARIABLES
    compose,   \* _is_compose_replay_mode
    alive,     \* the container runs
    wrapper,   \* the sandbox's command: "boot", "work", "done0", "done1", "exit0", "kept"
    rc,        \* the CLI's exit code
    doneM,     \* the done marker: "none", "empty", "text"
    exitM,     \* the exit marker: -1 none or empty, else the code
    shot,      \* the wrapper of the latest checkpoint
    host,      \* the host thread: "queued", "poll", "look", "recheck", "wait", "returned", "failed"
    sawLive,   \* saw_live
    stopFlag,  \* _stop_requested
    complete,  \* _restore_complete_event
    again,     \* _restore_reactivation_pending
    harness,   \* "idle", "faulted", "restored"
    restores,  \* faults so far
    clock, started, finished,   \* monotonic time, _started_at_, _finished_at_monotonic (-1: None)
    lastStatus,                 \* sandbox.last_status: total_actions
    outcome                     \* history: the exit codes the CLI ended with

sbvars == <<alive, wrapper, rc, doneM, exitM, shot, outcome>>
hvars == <<host, sawLive, stopFlag, complete, again>>
progvars == <<clock, started, finished, lastStatus>>
tavars == <<compose, sbvars, hvars, harness, restores, progvars>>

TAInit ==
    /\ compose \in BOOLEAN
    /\ alive = TRUE /\ wrapper = "boot" /\ rc = 0 /\ doneM = "none" /\ exitM = -1
    /\ shot = "boot" /\ outcome = {}
    /\ host = "queued" /\ sawLive = FALSE /\ stopFlag = FALSE /\ complete = FALSE /\ again = FALSE
    /\ harness = "idle" /\ restores = 0
    /\ clock = 0 /\ started = -1 /\ finished = -1 /\ lastStatus = 0

-----------------------------------------------------------------------------
(* The sandbox: configure_bundle's command and the inline wrapper.         *)

\* The configured command removes the markers of an earlier life; iflow's
\* creates them empty, which reads the same.
WrapperBoots ==
    /\ wrapper = "boot" /\ wrapper' = "work" /\ doneM' = "none" /\ exitM' = -1
    /\ UNCHANGED <<alive, rc, outcome>>

\* The CLI ends; the shell creates the done marker before it is written.
CliEnds ==
    /\ wrapper = "work" /\ rc' \in {0, 1} /\ outcome' = outcome \union {rc'}
    /\ IF rc' = 0 THEN wrapper' = "done0" /\ doneM' = "empty"
                  ELSE wrapper' = "exit0" /\ UNCHANGED doneM
    /\ UNCHANGED <<alive, exitM>>

\* The done marker, then the exit marker; only a composed sandbox is kept alive.
Marks ==
    \/ /\ wrapper = "done0" /\ wrapper' = "exit0" /\ doneM' = "text"
       /\ UNCHANGED <<alive, rc, exitM, outcome>>
    \/ /\ wrapper = "exit0" /\ wrapper' = "kept" /\ exitM' = rc
       /\ alive' = compose
       /\ UNCHANGED <<rc, doneM, outcome>>

\* One step of the command.  It does not reach a marker while a restore is
\* being reported.
WrapperStep ==
    /\ alive /\ harness # "restored"
    /\ WrapperBoots \/ CliEnds \/ Marks
    /\ UNCHANGED <<compose, shot, hvars, harness, restores, progvars>>

\* A checkpoint while the CLI waits for an answer, or after it ended.
Capture ==
    /\ alive /\ wrapper \in {"work", "kept"} /\ shot' = wrapper
    /\ UNCHANGED <<compose, alive, wrapper, rc, doneM, exitM, outcome, hvars, harness, restores, progvars>>

SandboxFails ==
    /\ alive /\ harness = "idle" /\ restores < MaxRestores
    /\ alive' = FALSE /\ harness' = "faulted" /\ restores' = restores + 1
    /\ UNCHANGED <<compose, wrapper, rc, doneM, exitM, shot, outcome, hvars, progvars>>

\* The host thread polls ten times a second: in compose mode it has acted on
\* an earlier restore, seen the markers, and seen that the sandbox is gone,
\* before the sandbox is back.
Attentive == compose => \/ host = "wait" /\ (~again \/ stopFlag)
                        \/ host \in {"returned", "failed"}

\* restore_once from the checkpoint, or a relaunch of the configured command.
BringBack ==
    /\ harness = "faulted" /\ Attentive
    /\ alive' = TRUE /\ harness' = "restored"
    /\ wrapper' \in {shot, "boot"}
    /\ shot' = IF wrapper' = "boot" THEN "boot" ELSE shot
    /\ UNCHANGED <<compose, rc, doneM, exitM, outcome, hvars, restores, progvars>>

-----------------------------------------------------------------------------
(* The harness's calls.                                                    *)

\* Mutant: a restore that clears the markers and does not wake the thread up for it.
RestoreUnannounced ==
    /\ harness = "restored" /\ harness' = "idle" /\ complete' = TRUE
    /\ IF compose THEN doneM' = "none" /\ exitM' = -1 ELSE UNCHANGED <<doneM, exitM>>
    /\ UNCHANGED <<compose, alive, wrapper, rc, shot, outcome, host, sawLive, stopFlag, again, restores, progvars>>

\* on_restore_complete: in compose mode the markers of the life that was
\* lost are removed; else the progress goes on from the last report.
OnRestoreComplete ==
    /\ harness = "restored" /\ harness' = "idle"
    /\ again' = TRUE /\ complete' = TRUE
    /\ IF compose THEN doneM' = "none" /\ exitM' = -1 /\ UNCHANGED <<started, finished>>
       ELSE /\ UNCHANGED <<doneM, exitM>>
            /\ started' = IF started = -1 THEN -1 ELSE clock - lastStatus
            /\ finished' = -1
    /\ UNCHANGED <<compose, alive, wrapper, rc, shot, outcome, host, sawLive, stopFlag, restores, clock, lastStatus>>

StopTask ==
    /\ ~stopFlag
    /\ stopFlag' = TRUE /\ complete' = TRUE /\ again' = TRUE
    /\ UNCHANGED <<compose, sbvars, host, sawLive, harness, restores, progvars>>

\* _synthetic_action_count, _task_state, and poll_status as it is recorded.
Elapsed == (IF finished = -1 THEN clock ELSE finished) - started
ActionCount == IF started = -1 THEN 0 ELSE IF Elapsed > 0 THEN Elapsed ELSE 0
TaskState == IF started = -1 THEN "idle" ELSE IF finished = -1 THEN "running" ELSE "finished"

PollStatus ==
    /\ ~compose /\ lastStatus' = ActionCount /\ lastStatus' # lastStatus
    /\ UNCHANGED <<compose, sbvars, hvars, harness, restores, clock, started, finished>>

Tick ==
    /\ ~compose /\ clock < MaxClock /\ clock' = clock + 1
    /\ UNCHANGED <<compose, sbvars, hvars, harness, restores, started, finished, lastStatus>>

-----------------------------------------------------------------------------
(* The host thread.                                                        *)

\* perform_task
PerformTask ==
    /\ host = "queued" /\ host' = "poll"
    /\ stopFlag' = FALSE /\ complete' = FALSE /\ again' = FALSE
    /\ started' = clock /\ finished' = -1
    /\ UNCHANGED <<compose, sbvars, sawLive, harness, restores, clock, lastStatus>>

\* The finally clause of perform_task; post_task_finish deletes the runtime
\* unless the sandbox is a composed one.
End(how) ==
    /\ host' = how /\ finished' = clock
    /\ alive' = (alive /\ compose)

\* _task_markers_indicate_completion
Completes == doneM = "text" \/ exitM = 0
Fails == doneM # "text" /\ exitM > 0

\* The head of _wait_for_task_completion's loop: the stop, then the markers.
PollMarkers ==
    /\ host = "poll"
    /\ IF stopFlag \/ Completes THEN End("returned")
       ELSE IF Fails THEN End("failed")
       ELSE host' = "look" /\ UNCHANGED <<alive, finished>>
    /\ UNCHANGED <<compose, wrapper, rc, doneM, exitM, shot, outcome, sawLive, stopFlag, complete, again,
                   harness, restores, clock, started, lastStatus>>

\* The sandbox's state is looked up at most once a second.
LookAlive ==
    /\ host = "look"
    /\ \/ sawLive /\ host' = "poll" /\ UNCHANGED sawLive
       \/ alive /\ host' = "poll" /\ sawLive' = TRUE
       \/ ~alive /\ host' = "recheck" /\ UNCHANGED sawLive
    /\ UNCHANGED <<compose, sbvars, stopFlag, complete, again, harness, restores, progvars>>

\* The sandbox is gone: the markers once more, then the wait for a restore.
Recheck ==
    /\ host = "recheck"
    /\ IF Completes THEN End("returned")
       ELSE IF Fails \/ ~sawLive THEN End("failed")
       ELSE host' = "wait" /\ UNCHANGED <<alive, finished>>
    /\ UNCHANGED <<compose, wrapper, rc, doneM, exitM, shot, outcome, sawLive, stopFlag, complete, again,
                   harness, restores, clock, started, lastStatus>>

\* _wait_for_restore_or_stop
WaitRestore ==
    /\ host = "wait"
    /\ \/ stopFlag /\ End("returned") /\ UNCHANGED <<again, complete>>
       \/ /\ ~stopFlag /\ again /\ alive
          /\ again' = FALSE /\ host' = "poll" /\ UNCHANGED <<alive, finished, complete>>
       \/ /\ ~stopFlag /\ ~(again /\ alive) /\ complete
          /\ complete' = FALSE /\ UNCHANGED <<host, alive, finished, again>>
    /\ UNCHANGED <<compose, wrapper, rc, doneM, exitM, shot, outcome, sawLive, stopFlag,
                   harness, restores, clock, started, lastStatus>>

TANext ==
    \/ WrapperStep \/ Capture \/ SandboxFails \/ BringBack
    \/ OnRestoreComplete \/ StopTask \/ PollStatus \/ Tick
    \/ PerformTask \/ PollMarkers \/ LookAlive \/ Recheck \/ WaitRestore

TASpec == TAInit /\ [][TANext]_tavars

-----------------------------------------------------------------------------
(* Properties.                                                             *)

TATypeOK ==
    /\ wrapper \in {"boot", "work", "done0", "exit0", "kept"} /\ shot \in {"boot", "work", "kept"}
    /\ doneM \in {"none", "empty", "text"} /\ exitM \in -1..1 /\ rc \in 0..1
    /\ host \in {"queued", "poll", "look", "recheck", "wait", "returned", "failed"}
    /\ finished \in -1..MaxClock /\ started \in -1..MaxClock

\* The task is reported done only when the CLI ended well in some life of
\* the sandbox, and failed only when it ended badly or its sandbox was never
\* seen: a crash, and markers a crash left half written, are never taken for
\* the end of the task.
CompletionIsReal ==
    /\ host = "returned" /\ ~stopFlag => 0 \in outcome
    /\ host = "failed" => 1 \in outcome \/ ~sawLive

\* The host thread does not wait for ever: while it waits for markers, a CLI
\* that has ended still has its markers; while it waits for a restore, the
\* sandbox is down or the restore has yet to be reported or noticed.
NotStranded ==
    compose =>
        /\ host \in {"queued", "poll", "look"} /\ alive /\ wrapper = "kept" /\ harness = "idle"
             => Completes \/ Fails
        /\ host = "wait" /\ alive /\ harness = "idle" => again

\* Progress is never reported to go back, restores included.
ProgressIsMonotone == ActionCount >= lastStatus

\* perform_task's waiting through crashes and restores of its sandbox: it reports
\* an end only when there was one, is never left waiting for one that cannot
\* come, and its progress never goes back.
TasksAreAwaited == TATypeOK /\ CompletionIsReal /\ NotStranded /\ ProgressIsMonotone
=============================================================================
