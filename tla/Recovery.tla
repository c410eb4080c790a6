------------------------------ MODULE Recovery ------------------------------
(***************************************************************************)
(* Recovery of one sandbox in src/crab/system.py: faults and preemption    *)
(* notices are queued, recovery workers take the sandbox's coordination    *)
(* claim, choose a checkpoint, wait, pin it, delete the container and      *)
(* restore, and then let the captured response go.  Meanwhile the agent    *)
(* makes requests, coordination passes checkpoint and release them, a      *)
(* client takes manual checkpoints (which take no claim), the retention    *)
(* worker prunes, and the system may stop.                                 *)
(***************************************************************************)
EXTENDS Integers, FiniteSets, Sequences, FiniteSetsExt

CONSTANTS Workers,       \* threads of the recovery pool
          MaxRequests,   \* bound: model requests of the agent
          MaxSaves,      \* bound: checkpoints taken
          MaxEvents,     \* bound: faults and preemption notices
          MaxManual,     \* bound: manual checkpoints
          MaxMishaps     \* bound: failed checkpoints and restores

ASSUME RecoveryAssumption ==
    /\ IsFiniteSet(Workers) /\ Workers # {}
    /\ {MaxRequests, MaxSaves, MaxEvents, MaxManual, MaxMishaps} \subseteq Nat

VARIABLES
    machine,     \* the container: running, dead (faulted) or absent (deleted)
    awaits,      \* the request the live process is blocked on, 0: none
    gate,        \* the state of every request made: pending or released
    kept,        \* the stored checkpoints
    image,       \* what a checkpoint holds: the request its process awaits,
                 \* the one its metadata names, and the one it restores from
    saves,       \* checkpoints taken
    pinned,      \* pin count of every checkpoint
    events,      \* _recovery_queue
    notices,     \* events raised so far
    notice,      \* preemption_notice of the inspector's snapshot
    claim,       \* who holds the coordination claim, "none" or a worker or "pass"
    pass,        \* the coordination pass: idle, or the request it serves
    manual,      \* the manual checkpoint: idle, or what it read and did
    w,           \* the recovery workers
    relaunch,    \* relaunch_on_restore_failure
    mishaps,     \* failures so far
    stopped,     \* the stop event
    overtaken    \* history: a manual checkpoint released during a recovery
rvars == <<machine, awaits, gate, kept, image, saves, pinned, events, notices, notice, claim, pass, manual, w,
           relaunch, mishaps, stopped, overtaken>>

Requests == 1..MaxRequests
SaveIds == 1..MaxSaves
Pending == {g \in DOMAIN gate : gate[g] = "pending"}
NewestSave == IF kept = {} THEN 0 ELSE Max(kept)
IdleWorker == [pc |-> "idle", ev |-> "fault", mark |-> 0, ck |-> 0, pins |-> {}, st |-> "failed", flow |-> "none"]
IdleManual == [pc |-> "idle", req |-> 0, n |-> 0]
NoImage == [awaits |-> 0, captures |-> 0, src |-> 0]

RInit == /\ machine = "running" /\ awaits = 0 /\ gate = <<>> /\ kept = {} /\ saves = 0
         /\ image = [i \in SaveIds |-> NoImage] /\ pinned = [i \in SaveIds |-> 0]
         /\ events = <<>> /\ notices = 0 /\ notice = FALSE /\ claim = "none" /\ pass = [pc |-> "idle", req |-> 0]
         /\ manual = IdleManual /\ w = [r \in Workers |-> IdleWorker] /\ relaunch \in BOOLEAN /\ mishaps = 0
         /\ stopped = FALSE /\ overtaken = FALSE

\* A released response reaches the process if it lives and waits for it.
ReleaseAll(S) == /\ gate' = [g \in DOMAIN gate |-> IF g \in S THEN "released" ELSE gate[g]]
                 /\ awaits' = IF awaits \in S /\ machine = "running" THEN 0 ELSE awaits

\* The agent's next model request, held by the interceptor.
Request == /\ machine = "running" /\ awaits = 0 /\ Len(gate) < MaxRequests /\ ~stopped
           /\ gate' = Append(gate, "pending") /\ awaits' = Len(gate) + 1
           /\ UNCHANGED <<machine, kept, image, saves, pinned, events, notices, notice, claim, pass, manual, w,
                          relaunch, mishaps, stopped, overtaken>>

\* A checkpoint is dumped and stored: a full image, or with the process
\* unchanged since the newest one a manifest that restores from its source.
Save(req) ==
    /\ machine = "running" /\ saves < MaxSaves /\ saves' = saves + 1 /\ kept' = kept \cup {saves'}
    /\ \E s \in {saves'} \cup (IF NewestSave # 0 /\ image[NewestSave].awaits = awaits THEN {image[NewestSave].src} ELSE {}) :
          image' = [image EXCEPT ![saves'] = [awaits |-> awaits, captures |-> req, src |-> s]]

SaveFails == /\ machine # "running" \/ mishaps < MaxMishaps
             /\ mishaps' = IF machine = "running" THEN mishaps + 1 ELSE mishaps
             /\ UNCHANGED <<kept, image, saves>>

-----------------------------------------------------------------------------
\* A coordination pass: claim the sandbox for its oldest pending request,
\* checkpoint, and release that request whatever the checkpoint's outcome.
PassBegin == /\ pass.pc = "idle" /\ claim = "none" /\ Pending # {} /\ ~stopped
             /\ claim' = "pass" /\ pass' = [pc |-> "save", req |-> Min(Pending)]
             /\ UNCHANGED <<machine, awaits, gate, kept, image, saves, pinned, events, notices, notice, manual, w,
                            relaunch, mishaps, stopped, overtaken>>

PassSave == /\ pass.pc = "save" /\ pass' = [pass EXCEPT !.pc = "end"]
            /\ \/ Save(pass.req) /\ UNCHANGED mishaps
               \/ SaveFails
            /\ UNCHANGED <<machine, awaits, gate, pinned, events, notices, notice, claim, manual, w, relaunch,
                           stopped, overtaken>>

PassEnd == /\ pass.pc = "end" /\ pass' = [pc |-> "idle", req |-> 0] /\ claim' = "none"
           /\ ReleaseAll({pass.req})
           /\ UNCHANGED <<machine, kept, image, saves, pinned, events, notices, notice, manual, w, relaunch, mishaps,
                          stopped, overtaken>>

-----------------------------------------------------------------------------
\* checkpoint_once: reads the oldest pending request, then dumps, then
\* releases that request, or with none read every pending one.
ManualBegin == /\ manual.pc = "idle" /\ manual.n < MaxManual /\ machine = "running"
               /\ manual' = [manual EXCEPT !.pc = "save", !.n = @ + 1,
                                           !.req = IF Pending = {} THEN 0 ELSE Min(Pending)]
               /\ UNCHANGED <<machine, awaits, gate, kept, image, saves, pinned, events, notices, notice, claim, pass,
                              w, relaunch, mishaps, stopped, overtaken>>

ManualSave == /\ manual.pc = "save"
              /\ manual' = [manual EXCEPT !.pc = "end"]
              /\ \/ Save(manual.req) /\ UNCHANGED mishaps
                 \/ SaveFails
              /\ UNCHANGED <<machine, awaits, gate, pinned, events, notices, notice, claim, pass, w, relaunch, stopped,
                             overtaken>>

ManualEnd == /\ manual.pc = "end" /\ manual' = [manual EXCEPT !.pc = "idle", !.req = 0]
             /\ ReleaseAll(IF manual.req = 0 THEN Pending ELSE {manual.req})
             /\ overtaken' = (overtaken \/ claim \in Workers)
             /\ UNCHANGED <<machine, kept, image, saves, pinned, events, notices, notice, claim, pass, w, relaunch,
                            mishaps, stopped>>

-----------------------------------------------------------------------------
\* _protected_checkpoint_ids: the newest with what it restores from, and the
\* pinned.  A retention pass deletes all the others under the pin lock.
PinsUnseen == {NewestSave} \cup {image[i].src : i \in {NewestSave} \cap kept}
Protected == PinsUnseen \cup {i \in SaveIds : pinned[i] > 0}

Prune == /\ kept \ Protected # {}
         /\ kept' = kept \cap Protected
         /\ UNCHANGED <<machine, awaits, gate, image, saves, pinned, events, notices, notice, claim, pass, manual, w,
                        relaunch, mishaps, stopped, overtaken>>

-----------------------------------------------------------------------------
\* notify_fault: the container is gone and recorded as not running.
NotifyFault == /\ notices < MaxEvents /\ machine = "running" /\ ~stopped
               /\ notices' = notices + 1 /\ machine' = "dead"
               /\ events' = Append(events, [kind |-> "fault", mark |-> saves])
               /\ UNCHANGED <<awaits, gate, kept, image, saves, pinned, notice, claim, pass, manual, w, relaunch,
                              mishaps, stopped, overtaken>>

NotifyPreemption == /\ notices < MaxEvents /\ ~stopped
                    /\ notices' = notices + 1 /\ notice' = TRUE
                    /\ events' = Append(events, [kind |-> "preemption", mark |-> saves])
                    /\ UNCHANGED <<machine, awaits, gate, kept, image, saves, pinned, claim, pass, manual, w,
                                   relaunch, mishaps, stopped, overtaken>>

\* stop: the gate is disabled, which lets every response go; queued events
\* are not handled any more.
Stop == /\ ~stopped /\ stopped' = TRUE /\ ReleaseAll(Pending)
        /\ UNCHANGED <<machine, kept, image, saves, pinned, events, notices, notice, claim, pass, manual, w, relaunch,
                       mishaps, overtaken>>

-----------------------------------------------------------------------------
\* A checkpoint that captured a live request restores only while that
\* request is still held (_validate_restore_checkpoint).
Validate(c) == image[c].captures # 0 => image[c].captures \in Pending

\* _select_recovery_checkpoint and _select_recovery_checkpoint_after: the
\* newest that validates, of all or of those since the notice.
SelectAfter(mark) == LET S == {c \in kept : c > mark /\ Validate(c)} IN IF S = {} THEN 0 ELSE Max(S)
Select == SelectAfter(0)

Step(r, f) == w' = [w EXCEPT ![r] = f]

\* _run_recovery_loop
Dequeue(r) == /\ w[r].pc = "idle" /\ events # <<>> /\ ~stopped
              /\ Step(r, [IdleWorker EXCEPT !.pc = "acquire", !.ev = Head(events).kind, !.mark = Head(events).mark])
              /\ events' = Tail(events)
              /\ UNCHANGED <<machine, awaits, gate, kept, image, saves, pinned, notices, notice, claim, pass, manual,
                             relaunch, mishaps, stopped, overtaken>>

\* _acquire_coordination spins until the claim is free; stop drops the event.
ClaimFree(r) == claim = "none"
Acquire(r) == /\ w[r].pc = "acquire"
              /\ \/ stopped /\ Step(r, IdleWorker) /\ UNCHANGED <<claim, overtaken>>
                 \/ /\ ~stopped /\ ClaimFree(r) /\ claim' = r /\ overtaken' = FALSE
                    /\ Step(r, [w[r] EXCEPT !.pc = IF w[r].ev = "preemption" THEN "after" ELSE "select"])
              /\ UNCHANGED <<machine, awaits, gate, kept, image, saves, pinned, events, notices, notice, pass, manual,
                             relaunch, mishaps, stopped>>

\* A preemption reuses a checkpoint newer than the notice or takes one.
After(r) == /\ w[r].pc = "after"
            /\ LET c == SelectAfter(w[r].mark)
               IN Step(r, [w[r] EXCEPT !.ck = c, !.pc = IF c # 0 THEN "pin" ELSE "flow"])
            /\ UNCHANGED <<machine, awaits, gate, kept, image, saves, pinned, events, notices, notice, claim, pass,
                           manual, relaunch, mishaps, stopped, overtaken>>

\* The preemption checkpoint: taken, skipped (the scheduler or a window said
\* no), failed with a result, or failed with an exception, which ends the
\* recovery unless another checkpoint was captured since the notice.
Flow(r) == /\ w[r].pc = "flow"
           /\ \/ /\ Save(0) /\ UNCHANGED mishaps
                 /\ Step(r, [w[r] EXCEPT !.ck = saves + 1, !.pc = "pin", !.flow = "saved"])
              \/ /\ Step(r, [w[r] EXCEPT !.pc = "select", !.flow = "skipped"])
                 /\ UNCHANGED <<kept, image, saves, mishaps>>
              \/ /\ SaveFails
                 /\ \/ Step(r, [w[r] EXCEPT !.pc = "select", !.flow = "failed"])
                    \/ LET c == SelectAfter(w[r].mark)
                       IN Step(r, [w[r] EXCEPT !.ck = c, !.flow = "failed",
                                               !.pc = IF c = 0 THEN "record" ELSE "pin"])
           /\ UNCHANGED <<machine, awaits, gate, pinned, events, notices, notice, claim, pass, manual, relaunch,
                          stopped, overtaken>>

\* Without a checkpoint the sandbox is launched afresh or left as it is.
SelectLatest(r) ==
    /\ w[r].pc = "select"
    /\ \/ /\ Select # 0 /\ Step(r, [w[r] EXCEPT !.ck = Select, !.pc = "pin"]) /\ UNCHANGED <<machine, awaits>>
       \/ /\ Select = 0 /\ relaunch /\ machine' = "running" /\ awaits' = 0
          /\ Step(r, [w[r] EXCEPT !.pc = "clear", !.st = "relaunched"])
       \/ /\ Select = 0 /\ ~relaunch /\ Step(r, [w[r] EXCEPT !.pc = "clear", !.st = "no_checkpoint"])
          /\ UNCHANGED <<machine, awaits>>
    /\ UNCHANGED <<gate, kept, image, saves, pinned, events, notices, notice, claim, pass, manual, relaunch, mishaps,
                   stopped, overtaken>>

\* _pin_restore_checkpoints, after the recovery delay: the checkpoint and
\* what it restores from, if it is still there.
PinSet(c) == {c, image[c].src}
PinLooks(r) == /\ w[r].pc = "pin"
               /\ IF PinSet(w[r].ck) \subseteq kept
                  THEN Step(r, [w[r] EXCEPT !.pc = "count"])
                  ELSE Step(r, [w[r] EXCEPT !.pc = "record", !.st = "failed"])
               /\ UNCHANGED <<machine, awaits, gate, kept, image, saves, pinned, events, notices, notice, claim, pass,
                              manual, relaunch, mishaps, stopped, overtaken>>

\* The count is taken under the pin lock, the look is not.
PinCounts(r) == /\ w[r].pc = "count" /\ Step(r, [w[r] EXCEPT !.pc = "validate", !.pins = PinSet(w[r].ck)])
                /\ pinned' = [i \in SaveIds |-> IF i \in PinSet(w[r].ck) THEN pinned[i] + 1 ELSE pinned[i]]
                /\ UNCHANGED <<machine, awaits, gate, kept, image, saves, events, notices, notice, claim, pass, manual,
                               relaunch, mishaps, stopped, overtaken>>

\* A failed restore relaunches or is an error; the exception path leaves the
\* preemption notice in place.
RestoreFailed(r) == IF relaunch THEN [w[r] EXCEPT !.pc = "relaunch"] ELSE [w[r] EXCEPT !.pc = "record", !.st = "failed"]

\* restore_once validates again, and prepare_for_restore deletes the container.
Prepare(r) == /\ w[r].pc = "validate"
              /\ IF Validate(w[r].ck)
                 THEN Step(r, [w[r] EXCEPT !.pc = "restore"]) /\ machine' = "absent" /\ awaits' = 0
                 ELSE Step(r, RestoreFailed(r)) /\ UNCHANGED <<machine, awaits>>
              /\ UNCHANGED <<gate, kept, image, saves, pinned, events, notices, notice, claim, pass, manual, relaunch,
                             mishaps, stopped, overtaken>>

\* The restore job: the process runs again as the image has it, or the job
\* fails or the container never runs.
Restore(r) == /\ w[r].pc = "restore"
              /\ \/ /\ PinSet(w[r].ck) \subseteq kept
                    /\ machine' = "running" /\ awaits' = image[w[r].ck].awaits
                    /\ Step(r, [w[r] EXCEPT !.pc = "release", !.st = "restored"]) /\ UNCHANGED mishaps
                 \/ /\ mishaps < MaxMishaps \/ ~(PinSet(w[r].ck) \subseteq kept)
                    /\ mishaps' = Min({mishaps + 1, MaxMishaps})
                    /\ Step(r, RestoreFailed(r)) /\ UNCHANGED <<machine, awaits>>
              /\ UNCHANGED <<gate, kept, image, saves, pinned, events, notices, notice, claim, pass, manual, relaunch,
                             stopped, overtaken>>

\* The relaunch handler starts the sandbox afresh.
Relaunch(r) == /\ w[r].pc = "relaunch" /\ machine' = "running" /\ awaits' = 0
               /\ Step(r, [w[r] EXCEPT !.pc = "clear", !.st = "relaunched"])
               /\ UNCHANGED <<gate, kept, image, saves, pinned, events, notices, notice, claim, pass, manual, relaunch,
                              mishaps, stopped, overtaken>>

\* _release_checkpoint_response_gate: the captured request, if still held.
ReleaseCaptured(r) ==
    /\ w[r].pc = "release" /\ ReleaseAll({image[w[r].ck].captures} \cap Pending)
    /\ Step(r, [w[r] EXCEPT !.pc = "clear"])
    /\ UNCHANGED <<machine, kept, image, saves, pinned, events, notices, notice, claim, pass, manual, relaunch,
                   mishaps, stopped, overtaken>>

\* Without an exception a preemption's notice is cleared from the snapshot.
ClearNotice(r) ==
    /\ w[r].pc = "clear" /\ notice' = (notice /\ w[r].ev # "preemption")
    /\ Step(r, [w[r] EXCEPT !.pc = "record"])
    /\ UNCHANGED <<machine, awaits, gate, kept, image, saves, pinned, events, notices, claim, pass, manual, relaunch,
                   mishaps, stopped, overtaken>>

\* The record is stored and the claim released; the pins go last.
Record(r) == /\ w[r].pc = "record" /\ claim' = "none" /\ overtaken' = FALSE
             /\ Step(r, [IdleWorker EXCEPT !.pc = "unpin", !.pins = w[r].pins])
             /\ UNCHANGED <<machine, awaits, gate, kept, image, saves, pinned, events, notices, notice, pass, manual,
                            relaunch, mishaps, stopped>>

\* Mutant: the source of the checkpoint stays pinned.
PinsForgotten(r) == IF w[r].pins = {} THEN {} ELSE {Max(w[r].pins)}
PinsHeld(r) == w[r].pins
Unpin(r) == /\ w[r].pc = "unpin" /\ Step(r, IdleWorker)
            /\ pinned' = [i \in SaveIds |-> IF i \in PinsHeld(r) THEN pinned[i] - 1 ELSE pinned[i]]
            /\ UNCHANGED <<machine, awaits, gate, kept, image, saves, events, notices, notice, claim, pass, manual,
                           relaunch, mishaps, stopped, overtaken>>

Handle(r) == \/ Dequeue(r) \/ Acquire(r) \/ After(r) \/ Flow(r) \/ SelectLatest(r) \/ PinLooks(r) \/ PinCounts(r) \/ Prepare(r)
             \/ Restore(r) \/ Relaunch(r) \/ ReleaseCaptured(r) \/ ClearNotice(r) \/ Record(r) \/ Unpin(r)
Others == \/ Request \/ PassBegin \/ PassSave \/ PassEnd \/ ManualBegin \/ ManualSave \/ ManualEnd
          \/ Prune \/ NotifyFault \/ NotifyPreemption \/ Stop
RNext == Others \/ \E r \in Workers : Handle(r)

RSpec == RInit /\ [][RNext]_rvars

\* The recovery workers, the pass and a manual checkpoint that began keep
\* running; nobody has to make requests, raise events or stop.
RFairness == /\ \A r \in Workers : WF_rvars(Handle(r)) /\ SF_rvars(Acquire(r))
             /\ WF_rvars(PassSave) /\ WF_rvars(PassEnd)
RLiveSpec == RSpec /\ RFairness
-----------------------------------------------------------------------------
\* Types and bounds of the state.
RTypeOK == /\ machine \in {"running", "dead", "absent"} /\ awaits \in 0..MaxRequests
           /\ kept \subseteq 1..saves /\ \A i \in SaveIds : pinned[i] \in 0..Cardinality(Workers)
           /\ claim \in {"none", "pass"} \cup Workers /\ mishaps <= MaxMishaps

\* A worker that finished its event, on whichever path, holds no pin of the
\* retention manager any more: the pins are those of the events in hand.
PinsAreReturned ==
    \A i \in SaveIds : pinned[i] = Cardinality({r \in Workers : i \in w[r].pins})

\* Once a restore's checkpoint and the one it restores from are pinned, no
\* retention pass removes either until the recovery is over, whatever
\* checkpoints complete meanwhile.
RestoreSourceKept ==
    [][\A r \in Workers : LET source == {w[r].ck, image[w[r].ck].src}
        IN w[r].pc \in {"validate", "restore"} /\ source \subseteq kept => source \subseteq kept']_rvars

\* A recovery that restored a checkpoint with a captured request finds that
\* request still held, so the restored process gets its answer, unless the
\* system stopped or a manual checkpoint released it meanwhile (checkpoint_once
\* takes no coordination claim).
RestoredIsAnswered ==
    \A r \in Workers : w[r].pc = "release" /\ image[w[r].ck].captures # 0
        => image[w[r].ck].captures \in Pending \/ overtaken \/ stopped

\* A preemption that could checkpoint restores what it saved or something
\* newer than the notice: no work done before the notice is lost.
PreemptionKeepsWork ==
    \A r \in Workers : w[r].ev = "preemption" /\ w[r].st = "restored" /\ w[r].flow \in {"none", "saved"}
        => w[r].ck > w[r].mark

\* Two events of one sandbox are never handled at once, and never together
\* with a coordination pass: the container has one master.
OneMaster == Cardinality({r \in Workers : w[r].pc \notin {"idle", "acquire", "unpin"}})
             + (IF pass.pc = "idle" THEN 0 ELSE 1) <= 1

\* Every queued event is taken up and finished, unless the system stops.
EventsAreHandled == \A r \in Workers : events # <<>> \/ w[r].pc # "idle" ~> (events = <<>> /\ w[r].pc = "idle") \/ stopped

\* A recovery that chose a checkpoint finds it when it comes to restore it.
\* Not so: retention may delete it during the recovery delay.
ChosenIsKept == \A r \in Workers : w[r].pc \in {"pin", "count", "validate"} => w[r].ck \in kept

\* A manual checkpoint releases only what its own image captured.  Not so:
\* with none pending at its start it releases what armed since.
ManualReleasesItsOwn == [][manual.pc = "end" /\ manual'.pc = "idle" =>
    \A g \in Pending : gate'[g] = "released" => g = manual.req]_rvars

\* The metadata of a checkpoint names the request its process waits for.
\* Not so for a manual one, which looks before it pauses the sandbox, and for
\* that of a preemption, which is taken without a request.
ImageKnowsItsRequest == \A i \in kept : image[i].captures = image[i].awaits

\* What a recovery relies on: every pin has its holder, one worker or pass drives
\* the container, a preemption keeps the work done before its notice, and the
\* request the restored process waits for is still held.
RecoveriesAreSound == RTypeOK /\ PinsAreReturned /\ OneMaster /\ PreemptionKeepsWork /\ RestoredIsAnswered
=============================================================================
