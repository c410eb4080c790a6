--------------------------- MODULE RestoreReplay ---------------------------
(***************************************************************************)
(* A host-side agent that survives the restore of its sandbox.  The agent  *)
(* (integrations/agents/mini_swe.py, terminus.py) asks a trace-replay      *)
(* service for a response, runs its commands in the sandbox and records    *)
(* them.  The harness takes a checkpoint while a request is in flight,     *)
(* stamps it with the agent's trace cursor, injects faults and restores.   *)
(* The restored sandbox is older than the agent, so the agent replays the  *)
(* recorded commands whose index is past the restored cursor.              *)
(***************************************************************************)
EXTENDS Integers, Sequences, FiniteSets

CONSTANTS TraceTurns,      \* responses in the trace
          MaxFaults,  \* bound: faults injected
          MaxSkips    \* bound: checkpoints declined by the policy or failed

ASSUME RestoreReplayAssumption ==
    TraceTurns \in Nat \ {0} /\ MaxFaults \in Nat /\ MaxSkips \in Nat

VARIABLES
    agent,    \* "mini", "miniSpec", "terminus"
    size,     \* commands in each response (mini_swe: one)
    served,   \* the service's _trace_cursor
    reply,    \* index of the response in flight or being executed
    asked,    \* indices of the responses received, in order
    apc,      \* where the agent thread stands
    back,     \* where a drain returns to: "ask" or "exec"
    began,    \* kills seen when the running command started
    rran,      \* commands of this response recorded so far
    hist,     \* _command_history: a command is <<response, position>>
    queue,    \* commands a drain has still to replay
    dgen,     \* pending_generation the drain works for
    gen,      \* _pending_restore_generation
    handled,  \* _handled_restore_generation
    pcur,     \* _pending_restore_trace_cursor
    event,    \* _restore_event
    rbox,      \* commands whose effect the live sandbox holds, in order
    rup,       \* the container runs
    saved,    \* the latest checkpoint: [content, cursor]
    meta,     \* cursor stamped on the checkpoint being taken, -1: none
    gated,    \* the response waits for the coordination to end
    hpc,      \* harness: "idle", "window", "faulted", "restoring", "restored"
    rfaults, skips,
    raced     \* a kill hit a request or a drain, or a command ran unaware of a restore

agvars == <<agent, size, served, reply, asked, apc, back, began, rran, hist, queue,
            dgen, handled, event>>
bxvars == <<rbox, rup, saved, meta, gated>>
hnvars == <<gen, pcur, hpc, rfaults, skips, raced>>
rrvars == <<agvars, bxvars, hnvars>>

InFlight == apc \in {"asked", "served"}
Asking == InFlight \/ apc = "ask"
Command == <<reply, rran + 1>>

RRInit ==
    /\ agent \in {"mini", "miniSpec", "terminus"}
    /\ size \in [1..TraceTurns -> {1, 2}]
    /\ agent # "terminus" => size = [t \in 1..TraceTurns |-> 1]
    /\ served = 0 /\ reply = 0 /\ asked = <<>> /\ apc = "top" /\ back = "ask"
    /\ began = 0 /\ rran = 0 /\ hist = <<>> /\ queue = <<>> /\ dgen = 0 /\ gen = 0
    /\ handled = 0 /\ pcur = 0 /\ event = FALSE
    /\ rbox = <<>> /\ rup = TRUE /\ saved = [content |-> <<>>, cursor |-> -1]
    /\ meta = -1 /\ gated = FALSE
    /\ hpc = "idle" /\ rfaults = 0 /\ skips = 0 /\ raced = FALSE

(***************************************************************************)
(* Draining a restore: _drain_pending_restore_replays.  Every command the  *)
(* agent recorded past the restored cursor is run again.                   *)
(***************************************************************************)
SkipsOne(cursor) == SubSeq(hist, cursor + 2, Len(hist))
Missing(cursor) == SubSeq(hist, cursor + 1, Len(hist))

DrainStart ==
    /\ apc = "drain"
    /\ IF gen <= handled
         THEN apc' = back /\ UNCHANGED <<queue, dgen, handled>>
       ELSE IF Len(hist) <= pcur
         THEN apc' = back /\ handled' = gen /\ UNCHANGED <<queue, dgen>>
       ELSE apc' = "replay" /\ queue' = Missing(pcur) /\ dgen' = gen /\ UNCHANGED handled
    /\ UNCHANGED <<agent, size, began, served, reply, asked, back, rran, hist, event>>
    /\ UNCHANGED <<bxvars, hnvars>>

(* mini_swe replays through resilient_exec, which waits for the runtime. *)
MiniReplay ==
    /\ apc = "replay" /\ queue # <<>> /\ agent # "terminus" /\ rup
    /\ rbox' = Append(rbox, Head(queue)) /\ queue' = Tail(queue)
    /\ UNCHANGED <<agent, size, began, served, reply, asked, apc, back, rran, hist, dgen, handled,
                   event, rup, saved, meta, gated>>
    /\ UNCHANGED hnvars

(* terminus replays through tmux; a failed send leaves the task. *)
TerminusReplay ==
    /\ apc = "replay" /\ queue # <<>> /\ agent = "terminus"
    /\ IF rup THEN rbox' = Append(rbox, Head(queue)) /\ queue' = Tail(queue) /\ UNCHANGED apc
              ELSE apc' = "failed" /\ queue' = <<>> /\ UNCHANGED rbox
    /\ UNCHANGED <<agent, size, began, served, reply, asked, back, rran, hist, dgen, handled, event,
                   rup, saved, meta, gated>>
    /\ UNCHANGED hnvars

DrainEnd ==
    /\ apc = "replay" /\ queue = <<>>
    /\ IF gen = dgen THEN handled' = dgen /\ apc' = back
                     ELSE apc' = "drain" /\ UNCHANGED handled
    /\ UNCHANGED <<agent, size, began, served, reply, asked, back, rran, hist, queue, dgen, event>>
    /\ UNCHANGED <<bxvars, hnvars>>

(***************************************************************************)
(* The turn: perform_task drains, asks, receives and executes.             *)
(***************************************************************************)
TurnTop ==
    /\ apc = "top"
    /\ apc' = "drain" /\ back' = "ask"
    /\ UNCHANGED <<agent, size, began, served, reply, asked, rran, hist, queue, dgen, handled, event>>
    /\ UNCHANGED <<bxvars, hnvars>>

(* _request_assistant_turn; the trace is over when the service has served it. *)
Ask ==
    /\ apc = "ask"
    /\ IF served >= TraceTurns THEN apc' = "finished" /\ UNCHANGED gated
                               ELSE apc' = "asked" /\ gated' = TRUE
    /\ UNCHANGED <<agent, size, began, served, reply, asked, back, rran, hist, queue, dgen, handled,
                   event, rbox, rup, saved, meta>>
    /\ UNCHANGED hnvars

(* TraceReplayLLMState.handle_request: the cursor moves before the delay. *)
Serve ==
    /\ apc = "asked" /\ served < TraceTurns
    /\ reply' = served + 1 /\ served' = served + 1 /\ apc' = "served"
    /\ UNCHANGED <<agent, size, began, asked, back, rran, hist, queue, dgen, handled, event>>
    /\ UNCHANGED <<bxvars, hnvars>>

Deliver ==
    /\ apc = "served" /\ ~gated
    /\ asked' = Append(asked, reply) /\ rran' = 0 /\ apc' = "exec"
    /\ UNCHANGED <<agent, size, began, served, reply, back, hist, queue, dgen, handled, event>>
    /\ UNCHANGED <<bxvars, hnvars>>

(* A command starts: it is announced and _restore_event is cleared. *)
ExecStart ==
    /\ apc = "exec"
    /\ event' = (IF back = "exec" THEN event ELSE FALSE)
    /\ apc' = "run" /\ back' = "ask"
    /\ UNCHANGED <<agent, size, began, served, reply, asked, rran, hist, queue, dgen, handled>>
    /\ UNCHANGED <<bxvars, hnvars>>

(* _record_completed_command, then the next command or the next turn. *)
Recorded ==
    /\ hist' = Append(hist, Command)
    /\ rran' = rran + 1
    /\ apc' = IF rran + 1 < size[reply] THEN "exec" ELSE "top"

(* The exec reaches a live container ... *)
RunStarts ==
    /\ apc = "run" /\ rup
    /\ apc' = "running" /\ began' = rfaults
    /\ UNCHANGED <<agent, size, served, reply, asked, back, rran, hist, queue, dgen, handled,
                   event>>
    /\ UNCHANGED <<bxvars, hnvars>>

(* ... or an absent one: a retryable error. *)
RunRefused ==
    /\ apc = "run" /\ ~rup
    /\ apc' = "wait"
    /\ UNCHANGED <<agent, size, served, reply, asked, back, began, rran, hist, queue, dgen,
                   handled, event>>
    /\ UNCHANGED <<bxvars, hnvars>>

RunOk ==
    /\ apc = "running" /\ began = rfaults
    /\ rbox' = Append(rbox, Command)
    /\ Recorded
    /\ raced' = (raced \/ gen > handled)
    /\ UNCHANGED <<agent, size, served, reply, asked, back, began, queue, dgen, handled, event,
                   rup, saved, meta, gated>>
    /\ UNCHANGED <<gen, pcur, hpc, rfaults, skips>>

(* The container was killed under the command.  mini_swe's exec answers    *)
(* with a retryable error, or with the exit code of a killed process,      *)
(* which counts as completed; terminus sees an exception.                  *)
RunKilled ==
    /\ apc = "running" /\ began # rfaults
    /\ \/ apc' = "wait" /\ UNCHANGED <<hist, rran>>
       \/ agent # "terminus" /\ Recorded
    /\ UNCHANGED <<agent, size, served, reply, asked, back, began, queue, dgen, handled, event>>
    /\ UNCHANGED <<bxvars, hnvars>>

(* _wait_for_restore_completion, then a drain up to the command before. *)
RestoreSeen ==
    /\ apc = "wait" /\ event
    /\ event' = FALSE /\ apc' = "drain" /\ back' = "exec"
    /\ UNCHANGED <<agent, size, began, served, reply, asked, rran, hist, queue, dgen, handled>>
    /\ UNCHANGED <<bxvars, hnvars>>

RestoreWaitTimesOut ==
    /\ apc = "wait" /\ ~event
    /\ apc' = "failed"
    /\ UNCHANGED <<agent, size, began, served, reply, asked, back, rran, hist, queue, dgen, handled,
                   event>>
    /\ UNCHANGED <<bxvars, hnvars>>

(***************************************************************************)
(* The checkpoint of a request in flight.                                  *)
(***************************************************************************)
(* mini_swe reports completed actions, terminus the service's turn cursor. *)
MiniCursor == Len(hist)
TerminusCursor == served
TraceCursor == IF agent = "terminus" THEN TerminusCursor ELSE MiniCursor

CheckpointStamped ==
    /\ InFlight /\ gated /\ meta = -1
    /\ meta' = TraceCursor
    /\ UNCHANGED <<rbox, rup, saved, gated>> /\ UNCHANGED <<agvars, hnvars>>

CheckpointTaken ==
    /\ meta >= 0 /\ rup
    /\ saved' = [content |-> rbox, cursor |-> meta]
    /\ meta' = -1 /\ gated' = FALSE
    /\ UNCHANGED <<rbox, rup>> /\ UNCHANGED <<agvars, hnvars>>

CheckpointSkipped ==
    /\ InFlight /\ gated
    /\ skips < MaxSkips
    /\ skips' = skips + 1 /\ meta' = -1 /\ gated' = FALSE
    /\ UNCHANGED <<rbox, rup, saved>> /\ UNCHANGED agvars
    /\ UNCHANGED <<gen, pcur, hpc, rfaults, raced>>

(***************************************************************************)
(* A fault and the restore that follows it.                                *)
(***************************************************************************)
(* wait_for_fault_injection_window *)
FaultWindow ==
    /\ hpc = "idle" /\ rfaults < MaxFaults
    /\ saved.cursor >= 0
    /\ ~InFlight /\ meta = -1 /\ apc \notin {"finished", "failed"}
    /\ hpc' = "window"
    /\ UNCHANGED <<gen, pcur, rfaults, skips, raced>> /\ UNCHANGED <<agvars, bxvars>>

(* inject_fault deletes the runtime; nothing rechecks the window. *)
FaultKill ==
    /\ hpc = "window"
    /\ hpc' = "faulted" /\ rup' = FALSE /\ rfaults' = rfaults + 1
    /\ raced' = (raced \/ Asking)
    /\ UNCHANGED <<gen, pcur, skips, rbox, saved, meta, gated>> /\ UNCHANGED agvars

(* restore_once: the metadata handler runs before the runtime restores.    *)
(* Only the mini_swe speculative service rewinds its cursor.               *)
ServiceRestore(cursor) == IF agent = "miniSpec" THEN cursor ELSE served

RestoreCursor ==
    /\ hpc = "faulted"
    /\ pcur' = saved.cursor /\ gen' = gen + 1
    /\ served' = ServiceRestore(saved.cursor)
    /\ hpc' = "restoring"
    /\ raced' = (raced \/ Asking \/ apc = "replay")
    /\ UNCHANGED <<rfaults, skips>>
    /\ UNCHANGED <<agent, size, began, reply, asked, apc, back, rran, hist, queue, dgen, handled, event>>
    /\ UNCHANGED bxvars

RestoreRuntime ==
    /\ hpc = "restoring"
    /\ rbox' = saved.content /\ rup' = TRUE
    /\ hpc' = "restored"
    /\ UNCHANGED <<gen, pcur, rfaults, skips, raced, saved, meta, gated>> /\ UNCHANGED agvars

(* on_restore_complete *)
RestoreNotified ==
    /\ hpc = "restored"
    /\ event' = TRUE /\ hpc' = "idle"
    /\ UNCHANGED <<gen, pcur, rfaults, skips, raced>>
    /\ UNCHANGED <<agent, size, began, served, reply, asked, apc, back, rran, hist, queue, dgen, handled>>
    /\ UNCHANGED bxvars

RRDone == apc \in {"finished", "failed"} /\ hpc = "idle" /\ UNCHANGED rrvars

RRNext ==
    \/ TurnTop \/ DrainStart \/ MiniReplay \/ TerminusReplay \/ DrainEnd
    \/ Ask \/ Serve \/ Deliver \/ ExecStart \/ RunStarts \/ RunRefused \/ RunOk \/ RunKilled
    \/ RestoreSeen \/ RestoreWaitTimesOut
    \/ CheckpointStamped \/ CheckpointTaken \/ CheckpointSkipped
    \/ FaultWindow \/ FaultKill \/ RestoreCursor \/ RestoreRuntime \/ RestoreNotified
    \/ RRDone

RRSpec == RRInit /\ [][RRNext]_rrvars

RRTypeOK ==
    /\ agent \in {"mini", "miniSpec", "terminus"}
    /\ apc \in {"top", "drain", "replay", "ask", "asked", "served", "exec", "run", "running", "wait",
                "finished", "failed"}
    /\ served \in Nat /\ meta \in Nat \cup {-1}
    /\ handled <= gen /\ gen <= MaxFaults

Clean == skips = 0 /\ ~raced
ReplaySettled == apc = "ask" /\ hpc = "idle" /\ gen = handled

(* When a mini_swe agent asks for its next turn, the sandbox holds every   *)
(* command the agent believes it ran, once and in order, whatever faults   *)
(* and restores came before: the drain replays exactly what the restored   *)
(* checkpoint lacks.  (Provided that every request was checkpointed, that  *)
(* no kill or restore began while the agent was asking or replaying, and   *)
(* that every command run after a restore had noticed it.)                 *)
MiniInStep == (agent # "terminus" /\ Clean /\ ReplaySettled) => rbox = hist

(* The same of terminus. *)
TerminusInStep == (agent = "terminus" /\ Clean /\ ReplaySettled) => rbox = hist

(* The same of mini_swe without the provisos. *)
MiniInStepAlways == (agent = "mini" /\ ReplaySettled) => rbox = hist

(* The responses an agent receives are the trace's, each once and in order, *)
(* across restores: the agent keeps its messages, so a service that rewound *)
(* its cursor would answer with a stale response.                          *)
TraceInOrder ==
    agent # "miniSpec" => \A i \in DOMAIN asked : asked[i] = i
TraceInOrderSpec == \A i \in DOMAIN asked : asked[i] = i

(* After a restore the agent, its sandbox and the trace go on in step.     *)
ReplaysAreSound == RRTypeOK /\ MiniInStep /\ TraceInOrder
=============================================================================
