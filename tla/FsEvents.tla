------------------------------ MODULE FsEvents ------------------------------
(***************************************************************************)
(* How a write of a sandbox becomes the host inspector's "filesystem       *)
(* changed": the tracepoints (host_inspector/bpf/fs_monitor.bpf.c) submit  *)
(* an event to a ring buffer, the helper (bpf/fs_monitor.c) filters it and *)
(* prints a line, the reader thread (fs_helper.py) dispatches the line to  *)
(* the sandbox's worker, which marks the record (server.py).  A status     *)
(* query fences the whole pipe with a sync and its acknowledgement.  One   *)
(* sandbox, whose container may be restarted in another cgroup; an event   *)
(* is its cgroup and the number of its system call.                        *)
(***************************************************************************)
EXTENDS Integers, Sequences

CONSTANTS
    Queries,       \* status queries, each with its own sync id
    RingSize,      \* events the ring buffer holds
    MaxCalls,      \* bound: system calls of the sandbox
    MaxIncidents,  \* bound: restarts of the container in a new cgroup, resets, and syncs that time out
    NoQueue        \* the sandbox has no worker

VARIABLES
    cgroup, calls, incidents, since,         \* the container; the calls finished at the last reset
    watched, ring,                        \* the kernel's cgroup (0: none) and the ring buffer
    stdin, syncs, batch, window, stdout,   \* the helper: commands, syncs, sync batch, coalescing window, lines
    queue, leaving,                          \* the worker's queue, and that of one being torn down
    knownCg, dirty, applied,                   \* the record: cgroup, changed, calls that marked it
    query, clean,                            \* per query its step and the calls before it; the clean answers given
    lost, twin                               \* calls with no event, and coalesced calls with the call that stood for them
kernel == <<cgroup, calls, watched, ring>>
helper == <<stdin, syncs, batch, window, stdout>>
workers == <<queue, leaving>>
record == <<knownCg, dirty, applied, since>>
ghosts == <<clean, lost, twin>>
evars == <<kernel, helper, workers, record, query, incidents, ghosts>>

Sync(i) == [op |-> "sync", arg |-> i]
Remove == [op |-> "remove", arg |-> 0]
Upsert(c) == [op |-> "upsert", arg |-> c]
Line(kind, arg, call) == [kind |-> kind, arg |-> arg, call |-> call]
Idle == [at |-> "none", before |-> 0, ok |-> FALSE]

EInit ==
    /\ cgroup = 1 /\ watched = 1 /\ ring = <<>> /\ calls = 0
    /\ stdin = <<>> /\ syncs = <<>> /\ batch = <<>> /\ window = <<0, 0>> /\ stdout = <<>>
    /\ queue = <<>> /\ leaving = <<>>
    /\ knownCg = 1 /\ dirty = FALSE /\ applied = {} /\ since = 0 /\ incidents = 0
    /\ query = [i \in Queries |-> Idle] /\ clean = {} /\ lost = {} /\ twin = {}

\* Which successful calls the tracepoint submits: not a write to descriptor 1
\* or 2, whatever file that is.
ShouldEmit(kind) == kind # "stdio"
\* The enter tracepoint notes the calls of a registered cgroup only.
Entered == watched = cgroup
\* A call that changes a file returns: the exit tracepoint reserves a slot of
\* the ring buffer, and a full one loses the event.
SysExit(kind) ==
    LET n == calls + 1
        sent == ShouldEmit(kind) /\ Entered /\ Len(ring) < RingSize
    IN /\ calls < MaxCalls /\ calls' = n
       /\ ring' = IF sent THEN Append(ring, Line(kind, cgroup, n)) ELSE ring
       /\ lost' = IF sent THEN lost ELSE lost \cup {<<n, IF ShouldEmit(kind) THEN "dropped" ELSE "stdio">>}
       /\ UNCHANGED <<cgroup, watched, helper, workers, record, query, incidents, clean, twin>>
Incident == incidents < MaxIncidents /\ incidents' = incidents + 1
Restart == /\ Incident /\ cgroup' = cgroup + 1
           /\ UNCHANGED <<calls, watched, ring, helper, workers, record, query, ghosts>>

(* the helper: its command thread and its main loop                        *)
\* update_registration_map and remove_registration_map
Registration(c) == CASE c.op = "remove" -> 0 [] c.op = "upsert" -> c.arg [] OTHER -> watched
StdinLoop ==
    /\ stdin # <<>> /\ stdin' = Tail(stdin)
    /\ LET c == Head(stdin)
       IN /\ syncs' = IF c.op = "sync" THEN Append(syncs, c.arg) ELSE syncs
          /\ watched' = Registration(c)
    /\ UNCHANGED <<cgroup, calls, ring, batch, window, stdout, workers, record, query, incidents, ghosts>>

\* The call whose event stands for a repetition of it, 0 if the window of the
\* last one is over.  Writes through a descriptor have no path to hash.
Coalesced(e) == IF e.kind = "path" /\ window[1] = e.arg THEN window[2] ELSE 0
FindSandboxId(e) == e.arg = watched
HandleEvent ==
    /\ ring # <<>> /\ ring' = Tail(ring)
    /\ LET e == Head(ring)
           mine == FindSandboxId(e)
           dup == IF mine THEN Coalesced(e) ELSE 0
       IN /\ stdout' = IF mine /\ dup = 0 THEN Append(stdout, e) ELSE stdout
          /\ window' = IF mine /\ e.kind = "path" /\ dup = 0 THEN <<e.arg, e.call>> ELSE window
          /\ twin' = IF dup # 0 THEN twin \cup {<<e.call, dup>>} ELSE twin
          /\ lost' = IF mine THEN lost ELSE lost \cup {<<e.call, "dropped">>}
    /\ UNCHANGED <<cgroup, calls, watched, stdin, syncs, batch, workers, record, query, incidents, clean>>
\* 50 ms pass with no further event on the path.
WindowEnds == /\ window # <<0, 0>> /\ window' = <<0, 0>>
              /\ UNCHANGED <<kernel, stdin, syncs, batch, stdout, workers, record, query, incidents, ghosts>>

\* The main loop, back from its poll, takes the syncs that came in; the acks
\* wait until the ring buffer has been consumed once more.
TakeSyncs == /\ batch = <<>> /\ syncs # <<>> /\ batch' = syncs /\ syncs' = <<>>
             /\ UNCHANGED <<kernel, stdin, window, stdout, workers, record, query, incidents, ghosts>>
AckAtOnce == TRUE
Consumed == ring = <<>>
EmitSyncAck ==
    /\ batch # <<>> /\ Consumed
    /\ stdout' = stdout \o [k \in DOMAIN batch |-> Line("ack", batch[k], 0)] /\ batch' = <<>>
    /\ UNCHANGED <<kernel, stdin, syncs, window, workers, record, query, incidents, ghosts>>

(* the reader thread and the workers                                       *)
Waits(i) == query[i].at = "sync"
\* An acknowledgement becomes a fence in the worker's queue.
BarrierForSandbox(i) ==
    /\ queue' = IF Waits(i) /\ queue # NoQueue THEN Append(queue, Line("fence", i, 0)) ELSE queue
    /\ query' = IF Waits(i) /\ queue = NoQueue THEN [query EXCEPT ![i].ok = TRUE] ELSE query
Dispatch(e) == queue' = Append(IF queue = NoQueue THEN <<>> ELSE queue, e) /\ UNCHANGED query
ReadStdout ==
    /\ stdout # <<>> /\ stdout' = Tail(stdout)
    /\ IF Head(stdout).kind = "ack" THEN BarrierForSandbox(Head(stdout).arg) ELSE Dispatch(Head(stdout))
    /\ UNCHANGED <<kernel, stdin, syncs, batch, window, leaving, record, incidents, ghosts>>
Apply(e) ==
    IF e.kind = "fence"
    THEN /\ query' = IF Waits(e.arg) THEN [query EXCEPT ![e.arg].ok = TRUE] ELSE query
         /\ UNCHANGED <<dirty, applied>>
    ELSE dirty' = TRUE /\ applied' = applied \cup {e.call} /\ UNCHANGED query
RunWorker ==
    /\ \/ queue \notin {NoQueue, <<>>} /\ Apply(Head(queue)) /\ queue' = Tail(queue) /\ UNCHANGED leaving
       \/ leaving # <<>> /\ Apply(Head(leaving)) /\ leaving' = Tail(leaving) /\ UNCHANGED queue
    /\ UNCHANGED <<kernel, helper, knownCg, since, incidents, ghosts>>

(* the server's requests                                                   *)
Step(i, at) == query' = [query EXCEPT ![i].at = at]
StatusSync(i) == /\ query[i].at = "none" /\ query' = [query EXCEPT ![i] = [at |-> "sync", before |-> calls, ok |-> FALSE]]
                 /\ stdin' = Append(stdin, Sync(i))
                 /\ UNCHANGED <<kernel, syncs, batch, window, stdout, workers, record, incidents, ghosts>>
Synced(i) == /\ Waits(i) /\ query[i].ok /\ Step(i, "read")
             /\ UNCHANGED <<kernel, helper, workers, record, incidents, ghosts>>
SyncTimesOut(i) == /\ Waits(i) /\ Incident /\ Step(i, "read")
                   /\ UNCHANGED <<kernel, helper, workers, record, ghosts>>
\* What the query answers: a sync that timed out counts as a change.
Changed(i) == dirty \/ ~query[i].ok
StatusRead(i) ==
    /\ query[i].at = "read" /\ knownCg' = cgroup
    /\ clean' = IF Changed(i) THEN clean
                ELSE clean \cup {[n |-> n, leaving |-> {leaving[k].call : k \in DOMAIN leaving}] :
                                 n \in since + 1 .. query[i].before}
    /\ Step(i, IF cgroup # knownCg THEN "remove" ELSE "done")
    /\ UNCHANGED <<kernel, helper, workers, dirty, applied, since, incidents, lost, twin>>
\* The container has another cgroup: the registration and the worker are replaced.
RemoveSandbox(i) ==
    /\ query[i].at = "remove" /\ Step(i, "upsert") /\ stdin' = Append(stdin, Remove)
    /\ leaving' = IF queue = NoQueue THEN leaving ELSE leaving \o queue
    /\ queue' = NoQueue
    /\ UNCHANGED <<kernel, syncs, batch, window, stdout, record, incidents, ghosts>>
UpsertSandbox(i) ==
    /\ query[i].at = "upsert" /\ Step(i, "done") /\ stdin' = Append(stdin, Upsert(knownCg))
    /\ queue' = IF queue = NoQueue THEN <<>> ELSE queue
    /\ UNCHANGED <<kernel, syncs, batch, window, stdout, leaving, record, incidents, ghosts>>
Reset ==
    /\ Incident /\ since' = calls /\ knownCg' = cgroup /\ dirty' = FALSE /\ applied' = {}
    /\ stdin' = Append(stdin, Upsert(cgroup)) /\ queue' = IF queue = NoQueue THEN <<>> ELSE queue
    /\ clean' = {}
    /\ UNCHANGED <<kernel, syncs, batch, window, stdout, leaving, query, lost, twin>>

ENext ==
    \/ \E kind \in {"path", "write", "stdio"} : SysExit(kind)
    \/ Restart \/ StdinLoop \/ HandleEvent \/ WindowEnds \/ TakeSyncs \/ EmitSyncAck \/ ReadStdout \/ RunWorker \/ Reset
    \/ \E i \in Queries : \/ StatusSync(i) \/ Synced(i) \/ SyncTimesOut(i) \/ StatusRead(i)
                          \/ RemoveSandbox(i) \/ UpsertSandbox(i)
ESpec == EInit /\ [][ENext]_evars
-----------------------------------------------------------------------------
\* A call that left no mark: it had no event, or another call's event stood
\* for it which a reset has wiped since.
StoodFor(n) == \E t \in twin : t[1] = n /\ t[2] <= since
Lost(n, why) == <<n, why>> \in lost
Unmarked(n) == Lost(n, "stdio") \/ Lost(n, "dropped") \/ StoodFor(n)

\* An answer "unchanged" whose sync was acknowledged is true of every call
\* before the query that the filters let through: the fence passes the ring
\* buffer, the line pipe and the worker's queue behind all of them.  Only a
\* worker being replaced may still hold one.
CleanIsTrue == \A c \in clean : Unmarked(c.n) \/ c.n \in c.leaving \/ \E t \in twin : t[1] = c.n /\ t[2] \in c.leaving

\* The fence covers the replaced worker too.  Not so: its teardown waits one
\* second, and the next fence goes to the new worker's queue.
FenceCoversAll == \A c \in clean : Unmarked(c.n)

\* A call dropped as a repetition is marked by the one before it.  Not so when
\* a reset comes between the two.
RepeatIsMarked == \A c \in clean : ~StoodFor(c.n)

\* A write to a file through descriptor 1 or 2 is a change.  Not so in the
\* tracepoint.
StdioIsSeen == \A c \in clean : ~Lost(c.n, "stdio")

-----------------------------------------------------------------------------
(***************************************************************************)
(* What the host inspector's record of a sandbox makes of file system      *)
(* events (src/crab/host_inspector/server.py, _handle_fs_event and the     *)
(* helpers it calls): the dirty entries under an inode or a path key, the  *)
(* two indexes into them, the events it cannot place, and the flag that a  *)
(* checkpoint is decided on.  The sandbox has two names for its files; an  *)
(* event carries what the helper could resolve: through a descriptor the   *)
(* file's own inode, else whatever the host has under the same path.       *)
(***************************************************************************)

CONSTANTS
    HostPaths,     \* the names that exist on the host too
    RecentLimit,   \* unplaced events a record keeps (_RECENT_EVENT_LIMIT)
    MaxEvents,     \* bound: operations of the sandbox
    None

FPaths == {"a", "b"}
Inode(i) == <<"inode", i, "">>
HostId(p) == <<"host", 0, p>>
PathKey(p) == <<"path", 0, p>>
Ids == {Inode(i) : i \in 1 .. 2 + MaxEvents} \cup {HostId(p) : p \in FPaths}
Keys == Ids \cup {PathKey(p) : p \in FPaths}
NoEntry == [path |-> None, id |-> None, created |-> FALSE, deleted |-> FALSE]

VARIABLES
    fs, born, done,                \* the sandbox's names, inodes made, operations done
    entries, byPath, byInode,      \* live_dirty_entries and its two indexes
    unplaced, flag,                \* unreconciled_fs_events (does it count), filesystem_changed
    base, cancelled, blind, seen \* ghosts: the names at the reset; a delete cancelled an entry
                                   \* called created; names written unseen; markers, links and moves
dsvars == <<fs, born, done, entries, byPath, byInode, unplaced, flag, base, cancelled, blind, seen>>
File(i, v) == [ino |-> i, ver |-> v]
NoFile == File(0, 0)

DsInit ==
    /\ fs \in [FPaths -> {NoFile, File(1, 0), File(2, 0)}] /\ base = fs
    /\ fs["a"] # NoFile => fs["a"].ino = 1
    /\ fs["b"] # NoFile => fs["b"].ino = 2
    /\ born = 2 /\ done = 0
    /\ entries = [k \in Keys |-> NoEntry] /\ byPath = [p \in FPaths |-> None] /\ byInode = [d \in Ids |-> None]
    /\ unplaced = <<>> /\ flag = FALSE /\ cancelled = FALSE /\ blind = {} /\ seen = {}

(* _identity_key, _dirty_put, _dirty_pop and _lookup_entry_key, on a       *)
(* record r of the entries and the indexes                                 *)
Rec == [entries |-> entries, byPath |-> byPath, byInode |-> byInode]
Has(r, k) == k # None /\ r.entries[k] # NoEntry
IdentityKey(id, p) == IF id # None THEN id ELSE IF p = None THEN None ELSE PathKey(p)
DirtyPut(r, k, e) ==
    [entries |-> [r.entries EXCEPT ![k] = e],
     byPath |-> IF e.path = None THEN r.byPath ELSE [r.byPath EXCEPT ![e.path] = k],
     byInode |-> IF e.id = None THEN r.byInode ELSE [r.byInode EXCEPT ![e.id] = k]]
DirtyPop(r, k) ==
    LET e == r.entries[k]
    IN [entries |-> [r.entries EXCEPT ![k] = NoEntry],
        byPath |-> IF e.path # None /\ r.byPath[e.path] = k THEN [r.byPath EXCEPT ![e.path] = None] ELSE r.byPath,
        byInode |-> IF e.id # None /\ r.byInode[e.id] = k THEN [r.byInode EXCEPT ![e.id] = None] ELSE r.byInode]
LookupEntryKey(r, key, p, id) ==
    IF Has(r, key) THEN key
    ELSE IF id # None /\ Has(r, r.byInode[id]) THEN r.byInode[id]
    ELSE IF p # None /\ Has(r, r.byPath[p]) THEN r.byPath[p] ELSE None

(* the three kinds of event                                                *)
ApplyMutation(r, p, id, creates) ==
    LET key == IdentityKey(id, p)
        old == LookupEntryKey(r, key, p, id)
        e == IF old = None THEN NoEntry ELSE r.entries[old]
    IN DirtyPut(IF old = None THEN r ELSE DirtyPop(r, old), key,
                [path |-> p, id |-> id, created |-> e.created \/ creates, deleted |-> e.deleted])
ApplyDelete(r, p, id) ==
    LET key == IdentityKey(id, p)
        old == LookupEntryKey(r, key, p, id)
        e == r.entries[old]
    IN IF old = None THEN DirtyPut(r, key, [path |-> p, id |-> id, created |-> FALSE, deleted |-> TRUE])
       ELSE IF e.created THEN DirtyPop(r, old)
       ELSE DirtyPut(DirtyPop(r, old), old, [e EXCEPT !.path = p, !.deleted = TRUE])
ApplyRename(r, p, q, id) ==
    LET key == IdentityKey(id, q)
        first == LookupEntryKey(r, PathKey(p), p, None)
        old == IF first # None THEN first ELSE LookupEntryKey(r, key, q, id)
    IN IF old = None THEN DirtyPut(r, key, [path |-> q, id |-> id, created |-> FALSE, deleted |-> FALSE])
       ELSE DirtyPut(DirtyPop(r, old), key, [r.entries[old] EXCEPT !.path = q, !.id = id])

\* The tail of _handle_fs_event: the unplaced events are cut, the flag derived.
Cut(s) == IF Len(s) > RecentLimit THEN SubSeq(s, Len(s) - RecentLimit + 1, Len(s)) ELSE s
Record(r, more) ==
    /\ entries' = r.entries /\ byPath' = r.byPath /\ byInode' = r.byInode
    /\ unplaced' = Cut(unplaced \o more)
    /\ flag' = ((\E k \in Keys : r.entries[k] # NoEntry) \/ \E i \in DOMAIN unplaced' : unplaced'[i])

(* the sandbox's operations, each with the event it leaves                 *)
Operation == done < MaxEvents /\ done' = done + 1 /\ UNCHANGED base
Exists(p) == fs[p] # NoFile
OnHost(p) == IF p \in HostPaths THEN HostId(p) ELSE None
Written(p) == [q \in FPaths |-> IF Exists(q) /\ fs[q].ino = fs[p].ino THEN File(fs[p].ino, done + 1) ELSE fs[q]]
\* open(O_CREAT | O_TRUNC): the descriptor may be gone when the helper looks.
OpenCreate(p) ==
    LET ino == IF Exists(p) THEN fs[p].ino ELSE born + 1
    IN /\ Operation /\ UNCHANGED seen /\ born' = IF Exists(p) THEN born ELSE born + 1
       /\ fs' = IF Exists(p) THEN Written(p) ELSE [fs EXCEPT ![p] = File(ino, done + 1)]
       /\ UNCHANGED <<cancelled, blind>>
       /\ \E id \in {Inode(ino), OnHost(p)} : Record(ApplyMutation(Rec, p, id, TRUE), <<>>)
\* A write through a descriptor opened before, or a change of mode by name.
WriteFd(p) == /\ Operation /\ UNCHANGED seen /\ Exists(p) /\ fs' = Written(p) /\ UNCHANGED <<born, cancelled>>
              /\ \/ Record(ApplyMutation(Rec, p, Inode(fs[p].ino), FALSE), <<>>) /\ UNCHANGED blind
                 \/ Record(Rec, <<FALSE>>) /\ blind' = blind \cup {q \in FPaths : fs[q].ino = fs[p].ino}
Chmod(p) == /\ Operation /\ UNCHANGED seen /\ Exists(p) /\ fs' = Written(p) /\ UNCHANGED <<born, cancelled, blind>>
            /\ Record(ApplyMutation(Rec, p, OnHost(p), FALSE), <<>>)
Unlink(p) == /\ Operation /\ UNCHANGED seen /\ Exists(p) /\ fs' = [fs EXCEPT ![p] = NoFile] /\ UNCHANGED <<born, blind>>
             /\ LET old == LookupEntryKey(Rec, IdentityKey(OnHost(p), p), p, OnHost(p))
                IN cancelled' = (cancelled \/ (old # None /\ entries[old].created))
             /\ Record(ApplyDelete(Rec, p, OnHost(p)), <<>>)
SecondId(p, q) == IF OnHost(q) # None THEN OnHost(q) ELSE OnHost(p)
Rename(p, q) ==
    /\ Operation /\ seen' = seen \cup {"move"} /\ p # q /\ Exists(p) /\ fs' = [fs EXCEPT ![q] = fs[p], ![p] = NoFile]
    /\ UNCHANGED <<born, cancelled, blind>>
    /\ Record(ApplyRename(Rec, p, q, SecondId(p, q)), <<>>)
Link(p, q) ==
    /\ Operation /\ seen' = seen \cup {"link"} /\ p # q /\ Exists(p) /\ ~Exists(q) /\ fs' = [fs EXCEPT ![q] = fs[p]]
    /\ UNCHANGED <<born, cancelled, blind>>
    /\ Record(ApplyMutation(Rec, q, SecondId(p, q), TRUE), <<>>)
\* A timed-out exec runs outside the watched cgroup: its caller latches a marker.
MarkFilesystemChanged ==
    /\ Operation /\ seen' = seen \cup {"marker"} /\ unplaced' = Cut(Append(unplaced, TRUE)) /\ flag' = TRUE
    /\ UNCHANGED <<fs, born, entries, byPath, byInode, cancelled, blind>>
DsNext == \/ \E p \in FPaths : OpenCreate(p) \/ WriteFd(p) \/ Chmod(p) \/ Unlink(p) \/ \E q \in FPaths : Rename(p, q) \/ Link(p, q)
          \/ MarkFilesystemChanged
DsSpec == DsInit /\ [][DsNext]_dsvars
-----------------------------------------------------------------------------
Differs(p) == fs[p] # base[p]

\* A change of a file stays flagged through whatever the sandbox does next,
\* under every identity its events may carry, unless a delete cancels an entry
\* that calls the file created, or the write was seen without any identity.
ChangeIsKept == (\E p \in FPaths \ blind : Differs(p)) => flag \/ cancelled

\* Files made and deleted again since the reset, neither linked nor moved,
\* leave the sandbox unchanged, though the delete knows only their name.
TempLeavesNothing == (\A p \in FPaths : fs[p] = NoFile /\ base[p] = NoFile) /\ seen = {} => ~flag

\* A delete cancels only what was created since the reset.  Not so: opening
\* an existing file with O_CREAT calls it created, and so does linking it.
ChangeIsFlagged == (\E p \in FPaths \ blind : Differs(p)) => flag

\* A write whose descriptor is gone when the helper looks is a change.  Not
\* so: the event is kept and does not count.
BlindIsCounted == (\E p \in FPaths : Differs(p)) => flag \/ cancelled

\* A marker stays until the next reset.  Not so: events that cannot be placed
\* push it out.
MarkerLatches == "marker" \in seen => flag

\* The three together: an acknowledged "unchanged" is true of the calls before
\* the query, a file that differs from its baseline stays flagged, and files
\* that came and went leave no flag.
ChangesAreReported == CleanIsTrue /\ ChangeIsKept /\ TempLeavesNothing
=============================================================================
