---------------------------- MODULE HostRegistry ----------------------------
(***************************************************************************)
(* The host inspector's requests (src/crab/host_inspector/server.py):      *)
(* register, status, reset, update_filters and unregister change the       *)
(* sandbox's record under its lock, and after releasing it tell the        *)
(* monitor helper (fs_helper.py) which cgroup to watch and which processes *)
(* the kernel is to ignore.  Requests run on a pool of threads.  A sandbox *)
(* has one process its ignore rules match, named after it.                 *)
(***************************************************************************)
EXTENDS Integers, FiniteSets

CONSTANTS Boxen,        \* sandboxes
          Threads,      \* request threads
          MaxRequests,  \* bound: requests
          MaxMoves      \* bound: restarts in another cgroup, and ignored processes starting or ending

VARIABLES cg, pane,                 \* the containers: cgroup (0: not running), does the ignored process run
          rec,                      \* the records
          watch, worker,            \* the helper's cgroup per sandbox (0: none), the event workers
          kernelIgnores,            \* the ignored_pids map and its mirror
          req, requests, moves,
          overlap                   \* sandboxes that had two requests at once
hrvars == <<cg, pane, rec, watch, worker, kernelIgnores, req, requests, moves, overlap>>

NoRec == [on |-> FALSE, cg |-> 0, rules |-> FALSE, ignored |-> {}, based |-> FALSE]
NoReq == [op |-> "none", box |-> "none", at |-> "idle", cg |-> 0, ignored |-> {}, old |-> 0]
HrInit == /\ cg = [s \in Boxen |-> 1] /\ pane = [s \in Boxen |-> TRUE] /\ rec = [s \in Boxen |-> NoRec]
          /\ watch = [s \in Boxen |-> 0] /\ worker = [s \in Boxen |-> FALSE] /\ kernelIgnores = {}
          /\ req = [t \in Threads |-> NoReq] /\ requests = 0 /\ moves = 0 /\ overlap = {}

Resolve(s) == cg[s]
\* _split_pids: the processes whose file events are ignored too.
Ignored(s, rules) == IF rules /\ cg[s] # 0 /\ pane[s] THEN {s} ELSE {}
Container(s) == /\ moves < MaxMoves /\ moves' = moves + 1
                /\ \/ \E c \in 0 .. 2 : cg' = [cg EXCEPT ![s] = c] /\ UNCHANGED pane
                   \/ pane' = [pane EXCEPT ![s] = ~@] /\ UNCHANGED cg
                /\ UNCHANGED <<rec, watch, worker, kernelIgnores, req, requests, overlap>>

Busy(s) == \E t \in Threads : req[t].at # "idle" /\ req[t].box = s
Arrive(t, op, s) ==
    /\ req[t].at = "idle" /\ requests < MaxRequests /\ requests' = requests + 1
    /\ overlap' = IF Busy(s) THEN overlap \cup {s} ELSE overlap
    /\ req' = [req EXCEPT ![t] = [NoReq EXCEPT !.op = op, !.box = s, !.at = IF op = "register" THEN "resolve" ELSE "record"]]
    /\ UNCHANGED <<cg, pane, rec, watch, worker, kernelIgnores, moves>>
Env == <<cg, pane, requests, moves, overlap>>
Helper == <<watch, worker, kernelIgnores>>
To(t, at, c, ig, old) == req' = [req EXCEPT ![t] = [@ EXCEPT !.at = at, !.cg = c, !.ignored = ig, !.old = old]]
Ends(t) == req' = [req EXCEPT ![t] = NoReq]

\* register reads the container and the record it will replace, then writes.
RegisterResolves(t) ==
    LET s == req[t].box
    IN /\ req[t].at = "resolve" /\ To(t, "record", Resolve(s), Ignored(s, TRUE), IF rec[s].on THEN rec[s].cg ELSE 0)
       /\ UNCHANGED <<Env, rec, Helper>>
AfterRegister(r) == IF r.old # 0 /\ r.old # r.cg THEN "remove" ELSE IF r.cg # 0 THEN "upsert" ELSE "ignore"
RegisterWrites(t) ==
    LET r == req[t]
    IN /\ r.at = "record" /\ r.op = "register"
       /\ rec' = [rec EXCEPT ![r.box] = [on |-> TRUE, cg |-> r.cg, rules |-> TRUE, ignored |-> r.ignored, based |-> FALSE]]
       /\ req' = [req EXCEPT ![t].at = AfterRegister(r)]
       /\ UNCHANGED <<Env, Helper>>
Unknown(t) == /\ req[t].at = "record" /\ req[t].op # "register" /\ ~rec[req[t].box].on /\ Ends(t)
              /\ UNCHANGED <<Env, rec, Helper>>
\* A status before the first reset answers from the record as it is.
StatusRecord(t) ==
    LET s == req[t].box
        ig == Ignored(s, rec[s].rules)
    IN /\ req[t].at = "record" /\ req[t].op = "status" /\ rec[s].on
       /\ IF rec[s].based
          THEN /\ rec' = [rec EXCEPT ![s].cg = Resolve(s), ![s].ignored = ig]
               /\ To(t, IF Resolve(s) # rec[s].cg THEN "remove" ELSE "ignore", Resolve(s), ig, rec[s].cg)
          ELSE Ends(t) /\ UNCHANGED rec
       /\ UNCHANGED <<Env, Helper>>
ResetRecord(t) ==
    LET s == req[t].box
        ig == Ignored(s, rec[s].rules)
    IN /\ req[t].at = "record" /\ req[t].op = "reset" /\ rec[s].on
       /\ rec' = [rec EXCEPT ![s].cg = Resolve(s), ![s].ignored = ig, ![s].based = TRUE]
       /\ To(t, IF Resolve(s) # 0 THEN "upsert" ELSE "ignore", Resolve(s), ig, 0)
       /\ UNCHANGED <<Env, Helper>>
FiltersRecord(t) ==
    LET s == req[t].box
    IN /\ req[t].at = "record" /\ req[t].op = "update_filters" /\ rec[s].on
       /\ \E rules \in BOOLEAN :
             /\ rec' = [rec EXCEPT ![s].rules = rules, ![s].ignored = Ignored(s, rules)]
             /\ To(t, "ignore", rec[s].cg, Ignored(s, rules), 0)
       /\ UNCHANGED <<Env, Helper>>
KeepsWatch(t) ==
    /\ req[t].at = "record" /\ req[t].op = "unregister" /\ rec[req[t].box].on
    /\ rec' = [rec EXCEPT ![req[t].box] = NoRec] /\ To(t, "ignore", 0, {}, 0)
    /\ UNCHANGED <<Env, Helper>>
Unregister(t) ==
    /\ req[t].at = "record" /\ req[t].op = "unregister" /\ rec[req[t].box].on
    /\ rec' = [rec EXCEPT ![req[t].box] = NoRec] /\ To(t, "remove", 0, {}, 0)
    /\ UNCHANGED <<Env, Helper>>

\* LibbpfFilesystemMonitor.remove_sandbox and upsert_sandbox.
RemoveWatch(t) == /\ req[t].at = "remove" /\ watch' = [watch EXCEPT ![req[t].box] = 0] /\ worker' = [worker EXCEPT ![req[t].box] = FALSE]
                  /\ req' = [req EXCEPT ![t].at = IF req[t].cg # 0 THEN "upsert" ELSE "ignore"]
                  /\ UNCHANGED <<Env, rec, kernelIgnores>>
UpsertWatch(t) == /\ req[t].at = "upsert" /\ watch' = [watch EXCEPT ![req[t].box] = req[t].cg] /\ worker' = [worker EXCEPT ![req[t].box] = TRUE]
                  /\ req' = [req EXCEPT ![t].at = "ignore"]
                  /\ UNCHANGED <<Env, rec, kernelIgnores>>
\* _sync_bpf_ignored_pids: add the request's set, remove what neither it nor
\* any record ignores.
Union(ig) == ig \cup UNION {rec[s].ignored : s \in Boxen}
SyncIgnored(t) == /\ req[t].at = "ignore" /\ Ends(t)
                  /\ kernelIgnores' = (kernelIgnores \cup req[t].ignored) \cap Union(req[t].ignored)
                  /\ UNCHANGED <<Env, rec, watch, worker>>

HrNext == \/ \E s \in Boxen : Container(s)
          \/ \E t \in Threads : \/ \E op \in {"register", "status", "reset", "update_filters", "unregister"}, s \in Boxen : Arrive(t, op, s)
                                \/ RegisterResolves(t) \/ RegisterWrites(t) \/ Unknown(t) \/ StatusRecord(t) \/ ResetRecord(t)
                                \/ FiltersRecord(t) \/ Unregister(t) \/ RemoveWatch(t) \/ UpsertWatch(t) \/ SyncIgnored(t)
HrSpec == HrInit /\ [][HrNext]_hrvars
-----------------------------------------------------------------------------
Quiet(s) == ~Busy(s) /\ s \notin overlap

\* Between requests that never overlapped, the helper watches the cgroup the
\* record names, with a worker for its events, and nothing of a sandbox that
\* is not registered.
WatchMatchesRecord == \A s \in Boxen : Quiet(s) =>
    /\ rec[s].on /\ rec[s].cg # 0 => watch[s] = rec[s].cg /\ worker[s]
    /\ ~rec[s].on => watch[s] = 0 /\ ~worker[s]

\* Whatever order concurrent requests reconcile the kernel's filter in, it
\* ends up with every process some record ignores.
IgnoredIsFiltered == (\A s \in Boxen : ~Busy(s)) => UNION {rec[s].ignored : s \in Boxen} \subseteq kernelIgnores

\* The filter drops the events of no other process.  Not so after two
\* requests of one sandbox reconcile in the other order.
FilteredIsIgnored == (\A s \in Boxen : ~Busy(s)) => kernelIgnores \subseteq UNION {rec[s].ignored : s \in Boxen}

\* The watch matches the record after requests that overlap.  Not so: an
\* unregister may tear down the watch of the registration that follows it, and
\* a reset may leave one behind.
WatchMatchesAlways == \A s \in Boxen : ~Busy(s) =>
    /\ rec[s].on /\ rec[s].cg # 0 => watch[s] = rec[s].cg /\ worker[s]
    /\ ~rec[s].on => watch[s] = 0 /\ ~worker[s]

-----------------------------------------------------------------------------
(***************************************************************************)
(* RemoteSandboxInspector (src/crab/remote_inspector.py): the engine's view *)
(* of what changed in one sandbox, merged from flags kept in the engine and *)
(* the record of the host inspector, whose baseline it resets after a       *)
(* checkpoint, now or at a later inspection.  Parts are "p" (processes) and *)
(* "f" (filesystem).  _merge_snapshot_metadata and its twin of              *)
(* src/crab/system.py inspect and write back what they read.                *)
(***************************************************************************)

CONSTANTS MaxChanges,       \* bound: changes
          MaxCaptures,   \* bound: checkpoints
          MaxInspections,   \* bound: inspections and metadata updates
          MaxFaults         \* bound: calls that fail, restarts of the host inspector

Parts == {"p", "f"}
NoReset == [on |-> FALSE, full |-> FALSE]

VARIABLES registered, hostDirty,  \* the host inspector: its record, what it saw change
          told,                  \* it was told of every full checkpoint (acknowledged_deleted_mmaps)
          seeded, local,          \* the engine's snapshot: is there one, its flags
          pending,                \* _pending_reset_at: [on, full]
          insp, cp,               \* an inspection and a checkpoint in progress
          reply,
          changes, checkpoints, inspections, faults,
          unsaved, owed,          \* ghosts: parts changed since captured, flags reported to the engine since captured
          wiped                   \* ghost: unsaved parts whose record a reset cleared
rivars == <<registered, hostDirty, told, seeded, local, pending, insp, cp, reply, changes, checkpoints, inspections, faults,
            unsaved, owed, wiped>>

NoInsp == [at |-> "idle", merge |-> FALSE, full |-> FALSE, snap |-> {}]
NoCp == [at |-> "idle", parts |-> {}]
NoReply == [from |-> "none", parts |-> {}, unsaved |-> {}, owed |-> {}]
RiInit == /\ registered = TRUE /\ hostDirty = {} /\ told = TRUE /\ seeded \in BOOLEAN /\ local = {} /\ pending = NoReset
          /\ insp = NoInsp /\ cp = NoCp /\ reply = NoReply
          /\ changes = 0 /\ checkpoints = 0 /\ inspections = 0 /\ faults = 0 /\ unsaved = {} /\ owed = {} /\ wiped = {}

Host == <<registered, hostDirty, told>>
Counts == <<changes, checkpoints, inspections, faults>>
Losses == <<unsaved, owed, wiped>>

Change(k) == /\ changes < MaxChanges /\ changes' = changes + 1 /\ unsaved' = unsaved \cup {k}
             /\ hostDirty' = (IF registered THEN hostDirty \cup {k} ELSE hostDirty)
             /\ wiped' = (IF registered THEN wiped \ {k} ELSE wiped \cup {k})
             /\ UNCHANGED <<registered, told, seeded, local, pending, insp, cp, reply, checkpoints, inspections, faults, owed>>
\* The host inspector restarts without its records; the sandbox is registered again.
HostRestart == /\ faults < MaxFaults /\ faults' = faults + 1 /\ registered' = FALSE /\ hostDirty' = {} /\ wiped' = wiped \cup unsaved
               /\ UNCHANGED <<told, seeded, local, pending, insp, cp, reply, changes, checkpoints, inspections, unsaved, owed>>
Register == /\ ~registered /\ registered' = TRUE
            /\ UNCHANGED <<hostDirty, told, seeded, local, pending, insp, cp, reply, Counts, Losses>>

\* reset_sandbox of the service client: it reaches the record, or fails.
ResetsHost(full) == /\ registered /\ hostDirty' = {} /\ told' = (told \/ full) /\ wiped' = wiped \cup unsaved
                    /\ UNCHANGED <<registered, faults>>
HostFails == /\ \/ ~registered /\ UNCHANGED faults
                \/ faults < MaxFaults /\ faults' = faults + 1
             /\ UNCHANGED <<Host, wiped>>
\* _defer_reset_locked
Defer(full) == [on |-> TRUE, full |-> pending.full \/ full]

\* inspect: replay a deferred reset, forget it, then read.
BeginInspect(merge) == /\ insp.at = "idle" /\ inspections < MaxInspections /\ inspections' = inspections + 1
                       /\ insp' = [NoInsp EXCEPT !.at = IF pending.on THEN "replay" ELSE "read", !.merge = merge, !.full = pending.full]
                       /\ UNCHANGED <<Host, seeded, local, pending, cp, reply, changes, checkpoints, faults, Losses>>
Replay == /\ insp.at = "replay"
          /\ \/ ResetsHost(insp.full) /\ insp' = [insp EXCEPT !.at = "forget"]
             \/ HostFails /\ insp' = [insp EXCEPT !.at = "read"]
          /\ UNCHANGED <<seeded, local, pending, cp, reply, changes, checkpoints, inspections, unsaved, owed>>
Forget == /\ insp.at = "forget" /\ pending' = NoReset /\ insp' = [insp EXCEPT !.at = "read"]
          /\ UNCHANGED <<Host, seeded, local, cp, reply, Counts, Losses>>
\* _read_remote_snapshot and _merge_snapshots; without the host, the engine's
\* own snapshot, or a changed one when there is none.
Merged(read) == read \cup local
Answers(from, parts) == /\ reply' = [from |-> from, parts |-> parts, unsaved |-> unsaved \ wiped, owed |-> owed]
                        /\ insp' = IF insp.merge THEN [insp EXCEPT !.at = "upsert", !.snap = parts] ELSE NoInsp
Read == /\ insp.at = "read"
        /\ \/ registered /\ Answers("host", Merged(hostDirty)) /\ UNCHANGED faults
           \/ HostFails /\ Answers("engine", IF seeded THEN local ELSE Parts)
        /\ UNCHANGED <<Host, seeded, local, pending, cp, changes, checkpoints, inspections, Losses>>
\* upsert_snapshot of what was read: changed flags are kept in the engine, an
\* unchanged snapshot resets the host's baseline.
UpsertChanged == /\ insp.at = "upsert" /\ insp.snap # {} /\ seeded' = TRUE /\ local' = insp.snap /\ pending' = NoReset
                 /\ owed' = owed \cup insp.snap /\ insp' = NoInsp
                 /\ UNCHANGED <<Host, cp, reply, Counts, unsaved, wiped>>
UpsertClean == /\ insp.at = "upsert" /\ insp.snap = {} /\ seeded' = TRUE /\ local' = {} /\ owed' = {} /\ insp' = NoInsp
               /\ \/ ResetsHost(FALSE) /\ pending' = NoReset
                  \/ HostFails /\ pending' = IF registered THEN pending ELSE Defer(FALSE)
               /\ UNCHANGED <<cp, reply, changes, checkpoints, inspections, unsaved>>

\* A checkpoint, and mark_checkpoint_complete: the call, then the flags.
Capture(parts) == /\ cp.at = "idle" /\ checkpoints < MaxCaptures /\ checkpoints' = checkpoints + 1
                  /\ cp' = [at |-> "reset", parts |-> parts] /\ unsaved' = unsaved \ parts
                  /\ told' = (told /\ "p" \notin parts)
                  /\ UNCHANGED <<registered, hostDirty, seeded, local, pending, insp, reply, changes, inspections, faults, owed, wiped>>
MarkComplete == /\ cp.at = "reset" /\ cp' = [cp EXCEPT !.at = "flags"]
                /\ \/ ResetsHost("p" \in cp.parts) /\ pending' = NoReset
                   \/ HostFails /\ pending' = Defer("p" \in cp.parts)
                /\ UNCHANGED <<seeded, local, insp, reply, changes, checkpoints, inspections, unsaved, owed>>
Uncleared(parts) == local \ parts
MarkFlags == /\ cp.at = "flags" /\ cp' = NoCp
             /\ local' = (IF seeded THEN Uncleared(cp.parts) ELSE local) /\ owed' = owed \ cp.parts
             /\ UNCHANGED <<Host, seeded, pending, insp, reply, Counts, unsaved, wiped>>

RiNext == \/ \E k \in Parts : Change(k)
          \/ HostRestart \/ Register
          \/ \E merge \in BOOLEAN : BeginInspect(merge)
          \/ Replay \/ Forget \/ Read \/ UpsertChanged \/ UpsertClean
          \/ \E parts \in {{"f"}, {"p", "f"}} : Capture(parts)
          \/ MarkComplete \/ MarkFlags
RiSpec == RiInit /\ [][RiNext]_rivars
-----------------------------------------------------------------------------
\* An inspection the host answered reports every change no checkpoint holds,
\* unless a reset cleared the record it was in.
ChangeIsRead == reply.from = "host" => reply.unsaved \subseteq reply.parts

\* A change once written into the engine's snapshot is reported, whether or not
\* the host inspector can be reached, until a checkpoint captures that part.
OwedIsReported == reply.owed \subseteq reply.parts

\* A reset clears no change that no checkpoint holds.  Not so: updating the
\* snapshot's metadata resets the baseline after reading it.
NothingIsWiped == wiped \cap unsaved = {}

\* Without the host inspector a changed sandbox is reported changed ("process_changed=True",
\* inspect's fallback).  Not so once the engine has a snapshot of its own.
UnreachableIsChanged == reply.from = "engine" => reply.unsaved \subseteq reply.parts

\* A full checkpoint's reset is delivered or deferred ("can never get silently
\* downgraded by a later fs-only-checkpoint reset").  Not so: the reset of an
\* fs-only checkpoint drops the deferred one, and so does the end of a replay.
FullResetIsKept == cp.at = "idle" /\ insp.at = "idle" => told \/ (pending.on /\ pending.full)

-----------------------------------------------------------------------------
(***************************************************************************)
(* How the host inspector decides that a sandbox's processes changed since *)
(* its last checkpoint (src/crab/host_inspector/server.py status and       *)
(* reset, process_monitor.py): the set of tracked processes, the kernel's  *)
(* soft-dirty bits, and files replaced or rewritten under a live mapping,  *)
(* which make the last process image unrestorable.  One file is mapped by  *)
(* every process that starts; the pane is the process ignore rules match.  *)
(***************************************************************************)

CONSTANTS Pids, Pane,        \* Pane \in Pids
          Attempts,          \* stabilize_attempts
          MaxOps,            \* bound: what the sandbox's processes do
          MaxCheckpoints     \* bound: checkpoints

VARIABLES alive, soft, maps,           \* processes, soft-dirty bits, inode each one has mapped (0: none)
          inode, content,              \* the file's path: its inode and its content
          event,                       \* an event on the path not yet handled
          image,                       \* per process of the last full dump: mapped content (0: not mapped, -1: stored inline)
          ignoring,                    \* are the ignore rules installed
          based, baseline, known, invalid, acked,  \* the record; acked: acknowledged_deleted_mmaps holds the path
          job,                         \* checkpoint and reset in progress
          answer,                      \* the last status
          ops, dumps,
          lately, happened, members      \* ghosts: what happened since the last reset ended, and since the last dump;
                                         \* the processes the last reset cleared
ptvars == <<alive, soft, maps, inode, content, event, image, ignoring, based, baseline, known, invalid, acked, job, answer,
            ops, dumps, lately, happened, members>>
Processes == <<alive, soft, maps>>
MappedFile == <<inode, content>>
Verdicts == <<based, baseline, known, invalid, acked>>
Ghosts == <<lately, happened, members>>

NoJob == [at |-> "idle", full |-> FALSE, tracked |-> {}, cleared |-> {}, left |-> 0]
NoAnswer == [known |-> FALSE, changed |-> FALSE, missed |-> {}, cause |-> {}, restorable |-> TRUE]
PtInit == /\ alive = {Pane} /\ soft = {} /\ maps = [p \in Pids |-> IF p = Pane THEN 1 ELSE 0] /\ inode = 1 /\ content = 1
          /\ event = FALSE /\ image = [p \in Pids |-> 0] /\ ignoring = FALSE /\ based = FALSE /\ baseline = {} /\ known = {Pane}
          /\ invalid = FALSE /\ acked = FALSE /\ job = NoJob /\ answer = NoAnswer /\ ops = 0 /\ dumps = 0
          /\ lately = {} /\ happened = {} /\ members = {}

Tracked == IF ignoring THEN alive \ {Pane} ELSE alive           \* _split_pids
DeletedMaps == {p \in alive : maps[p] \notin {0, inode}}        \* all_deleted_mmap_paths, over every process
Locked == job.at \in {"clear", "stabilize", "write"}            \* the sandbox lock of a reset
Restorable == \A p \in Pids : image[p] \in {-1, 0, content}
Runs(kind, p) == /\ ops < MaxOps /\ ops' = ops + 1
                 /\ lately' = lately \cup {<<kind, p>>}
                 /\ happened' = IF p = Pane /\ ignoring /\ kind # "file" THEN happened ELSE happened \cup {kind}
                 /\ answer' = NoAnswer
                 /\ UNCHANGED <<image, ignoring, Verdicts, job, dumps, members>>

Start(p) == /\ p \notin alive /\ alive' = alive \cup {p} /\ soft' = soft \cup {p} /\ maps' = [maps EXCEPT ![p] = inode]
            /\ Runs("start", p) /\ UNCHANGED <<MappedFile, event>>
Exit(p) == /\ p \in alive /\ alive' = alive \ {p} /\ soft' = soft \ {p} /\ maps' = [maps EXCEPT ![p] = 0]
           /\ Runs("exit", p) /\ UNCHANGED <<MappedFile, event>>
MemoryWrite(p) == /\ p \in alive /\ soft' = soft \cup {p} /\ Runs("write", p)
                  /\ UNCHANGED <<alive, maps, MappedFile, event>>
\* A new file under the path, or the same one rewritten; the event may be lost.
ChangeFile == /\ content' = content + 1 /\ inode' \in {inode, inode + 1}
              /\ \E e \in BOOLEAN : event' = (event \/ e)
              /\ Runs("file", Pane) /\ UNCHANGED Processes

\* The mapping check of _handle_fs_event: a path that some process of the last
\* scan maps, and that is not acknowledged, invalidates.
MappingEvent == /\ event /\ ~Locked /\ event' = FALSE
                /\ invalid' = (invalid \/ ((\E p \in known \cap alive : maps[p] # 0) /\ ~acked))
                /\ UNCHANGED <<Processes, MappedFile, image, ignoring, based, baseline, known, acked, job, answer, ops, dumps, Ghosts>>
KeptBaseline == IF ignoring THEN baseline ELSE baseline \ ({Pane} \cap alive)
UpdateFilters == /\ ~Locked /\ ops < MaxOps /\ ops' = ops + 1 /\ ignoring' = ~ignoring
                 /\ baseline' = KeptBaseline
                 /\ known' = alive /\ happened' = happened \cup {"rules"} /\ answer' = NoAnswer
                 /\ UNCHANGED <<Processes, MappedFile, event, image, based, invalid, acked, job, dumps, lately, members>>

\* CRIU dumps every process with the sandbox paused; an unlinked mapping is
\* stored inline, another by its path.
Dump(full) ==
    /\ job.at = "idle" /\ dumps < MaxCheckpoints /\ dumps' = dumps + 1
    /\ image' = IF full THEN [p \in Pids |-> IF p \notin alive THEN 0 ELSE IF maps[p] # inode THEN -1 ELSE content] ELSE image
    /\ job' = [NoJob EXCEPT !.at = "taken", !.full = full]
    /\ happened' = (IF full THEN {} ELSE happened \cap {"file", "failed"}) \cup (IF event THEN {"event"} ELSE {})
    /\ answer' = NoAnswer
    /\ UNCHANGED <<Processes, MappedFile, event, ignoring, Verdicts, ops, lately, members>>
\* Pages CRIU leaves dirty when the sandbox resumes.
Residue(p) == /\ job.at = "taken" \/ job.left > 0
              /\ job.full /\ p \in alive \ soft /\ soft' = soft \cup {p}
              /\ UNCHANGED <<alive, maps, MappedFile, event, image, ignoring, Verdicts, job, answer, ops, dumps, Ghosts>>
ResetScan == /\ job.at = "taken" /\ job' = [job EXCEPT !.at = "clear", !.tracked = Tracked]
             /\ UNCHANGED <<Processes, MappedFile, event, image, ignoring, Verdicts, answer, ops, dumps, Ghosts>>
\* reset_soft_dirty_for_pids
ResetClear == /\ job.at = "clear" /\ soft' = soft \ job.tracked
              /\ LET cleared == job.tracked \cap alive
                 IN job' = [job EXCEPT !.at = IF job.full /\ cleared # {} THEN "stabilize" ELSE "write",
                                       !.cleared = cleared, !.left = Attempts]
              /\ UNCHANGED <<alive, maps, MappedFile, event, image, ignoring, Verdicts, answer, ops, dumps, Ghosts>>
\* One round of _stabilize_soft_dirty: it stops when clean or out of attempts.
Stabilize == /\ job.at = "stabilize"
             /\ IF job.left = 0 \/ soft \cap job.cleared = {}
                THEN job' = [job EXCEPT !.at = "write", !.left = 0] /\ UNCHANGED soft
                ELSE job' = [job EXCEPT !.left = @ - 1, !.cleared = @ \cap alive] /\ soft' = soft \ job.cleared
             /\ UNCHANGED <<alive, maps, MappedFile, event, image, ignoring, Verdicts, answer, ops, dumps, Ghosts>>
Acked(full) == IF full THEN DeletedMaps # {} ELSE acked
ResetWrite == /\ job.at = "write" /\ based' = TRUE /\ baseline' = job.cleared /\ known' = alive /\ invalid' = FALSE
              /\ acked' = Acked(job.full) /\ job' = NoJob /\ lately' = {} /\ members' = job.cleared
              /\ UNCHANGED <<Processes, MappedFile, event, image, ignoring, answer, ops, dumps, happened>>
CheckpointFails == /\ job.at = "taken" /\ job' = NoJob /\ happened' = happened \cup {"failed"}
                   /\ UNCHANGED <<Processes, MappedFile, event, image, ignoring, Verdicts, answer, ops, dumps, lately, members>>

DirtyPids == soft \cap Tracked
Invalidated == invalid \/ (DeletedMaps # {} /\ ~acked)
\* Ghost: the causes since the reset that a status must report.
Missed == {c \in lately : \/ c[1] \in {"start", "write"} /\ c[2] \in Tracked
                          \/ c[1] = "exit" /\ c[2] \in members \ (alive \cup {Pane})
                          \/ c[1] = "file" /\ DeletedMaps # {} /\ ~acked}
Status == /\ ~Locked /\ based
          /\ invalid' = Invalidated /\ known' = alive
          /\ answer' = [known |-> TRUE, changed |-> Tracked # baseline \/ DirtyPids # {} \/ Invalidated,
                        missed |-> Missed,
                        cause |-> IF job.at = "idle" THEN happened ELSE {"checkpointing"}, restorable |-> Restorable]
          /\ UNCHANGED <<Processes, MappedFile, event, image, ignoring, based, baseline, acked, job, ops, dumps, Ghosts>>

PtNext == \/ \E p \in Pids : Start(p) \/ Exit(p) \/ MemoryWrite(p) \/ Residue(p)
          \/ ChangeFile \/ MappingEvent \/ UpdateFilters \/ Status
          \/ \E full \in BOOLEAN : Dump(full)
          \/ ResetScan \/ ResetClear \/ Stabilize \/ ResetWrite \/ CheckpointFails
PtSpec == PtInit /\ [][PtNext]_ptvars
-----------------------------------------------------------------------------
\* A status that finds the processes unchanged missed nothing since the last
\* reset ended: no tracked process wrote its memory, started or ended, and no
\* file was replaced under a mapping the last image does not hold inline.
UnchangedIsTrue == answer.known /\ ~answer.changed => answer.missed = {}

\* A status reports a change only when something happened since the dump the
\* reset followed: neither what CRIU left behind when the sandbox resumed nor
\* a file replaced before it latches every later checkpoint as a full one.
ChangeHasCause == answer.known /\ answer.changed => answer.cause # {}

\* Unchanged processes can be restored from the last process image.  Not so:
\* an fs-only reset forgets a rewritten mapping, and a replacement between the
\* dump and the reset is acknowledged without being in the image.
UnchangedIsRestorable == answer.known /\ ~answer.changed /\ job.at = "idle" /\ ~event => answer.restorable

\* An acknowledged path is one the last image stores inline.  Not so when the
\* file is replaced after the dump.
AcknowledgedIsInline == acked /\ job.at = "idle" => \A p \in Pids : image[p] \in {-1, 0}
=============================================================================
