-------------------------------- MODULE Sdk --------------------------------
(***************************************************************************)
(* What a client of the SDK holds (sandbox.py, txn.py): the handles of the *)
(* checkpoint and of the changeset that commands.run and commands.stream   *)
(* start, the sandbox's last_checkpoint_id, and the handle of a            *)
(* transaction.  On a local engine the work runs in threads of the client; *)
(* on a remote one the daemon's /action handler (server.py) reserves a     *)
(* background job before it answers, and the handles poll the job.         *)
(*                                                                         *)
(* Commands are numbered as they are issued, and the number of a command   *)
(* that checkpoints is the id preallocated for the checkpoint.  The        *)
(* sandbox's content is the set of commands whose write is in it, a        *)
(* checkpoint the content it captured, a changeset a set of commands.      *)
(***************************************************************************)
EXTENDS Integers, FiniteSets, FiniteSetsExt

CONSTANTS Clients,
          Asked,   \* per client: the calls it makes, [call, ck, cs]
          Quota,      \* bound: commands per client
          MaxCmds,    \* bound: commands
          MaxTxns     \* bound: transactions

ASSUME SdkAssumption == /\ MaxCmds \in Nat /\ MaxTxns \in Nat /\ Quota \in [Clients -> Nat]
                        /\ \A c \in Clients, n \in 0..MaxCmds : c # n
                        /\ \A c \in Clients : \A r \in Asked[c] : (r.call = "exec") <=> ~(r.ck \/ r.cs)

VARIABLES
    engine,    \* "local" or "remote"
    cmds,      \* commands issued
    cmd,       \* per command: who, call, wants checkpoint/changeset, since, prev, rc
    cpc,       \* per client: where its call stands
    admitted,  \* commands that were let into the sandbox
    disk,      \* the content of the sandbox
    point,     \* per id: the content captured, NoPoint when there is none
    jobs,      \* the daemon's _job_store, by job id
    bpc,       \* per command: its background work
    busy,      \* the backpressure event is cleared
    hk, hc,    \* per command: the AsyncCheckpoint and the AsyncChangeset
    last,      \* per client: Sandbox._last_checkpoint_id, 0 when None
    upTo,      \* history: the commands admitted when the work was reserved
    found,     \* history: per command, what its changeset computed
    peeked     \* history: changeset handles whose done saw the job finished

sdkvars == <<engine, cmds, cmd, cpc, admitted, disk, point, jobs, bpc, busy, hk, hc, last,
             upTo, found, peeked>>

Cmds == 1..MaxCmds
NoPoint == {0}
NoWork == [st |-> "none", res |-> {}]
Open == [st |-> "open", res |-> {}]
UnknownJob == [st |-> "unknown", ck |-> FALSE, res |-> {}]
NoCmd == [by |-> 0, call |-> "none", ck |-> FALSE, cs |-> FALSE, since |-> 0, prev |-> 0, rc |-> 0]

\* commands.run without an enrichment is "exec"; with one it is "batch" where
\* the runtime has batch_action, that is on a remote engine.  commands.stream
\* ("stream") ends as commands.run does on a local engine ("run").
LocalCalls == {"exec", "run"}
RemoteCalls == {"exec", "batch", "stream"}
Calls == IF engine = "remote" THEN RemoteCalls ELSE LocalCalls

\* action_sandbox names the job after the client's checkpoint id, and after
\* the handler's thread when no checkpoint was asked for; a client's requests
\* may all be handled by threads of one ident, which the model assumes.
JobId(n) == IF cmd[n].ck THEN n ELSE cmd[n].by

SdkInit ==
    /\ engine \in {"local", "remote"}
    /\ cmds = 0 /\ cmd = [n \in Cmds |-> NoCmd]
    /\ cpc = [c \in Clients |-> [at |-> "idle", n |-> 0]]
    /\ admitted = {} /\ disk = {} /\ point = [n \in Cmds |-> NoPoint]
    /\ jobs = [j \in Cmds \union Clients |-> UnknownJob]
    /\ bpc = [n \in Cmds |-> "none"] /\ busy = FALSE
    /\ hk = [n \in Cmds |-> NoWork] /\ hc = [n \in Cmds |-> NoWork]
    /\ last = [c \in Clients |-> 0]
    /\ upTo = [n \in Cmds |-> {}] /\ found = [n \in Cmds |-> {}] /\ peeked = {}

Stands(c, at) == cpc[c].at = at
Goto(c, at) == cpc' = [cpc EXCEPT ![c].at = at]
\* _SandboxActivityGate: the background count of the sandbox.
Background == {n \in Cmds : bpc[n] \in {"ckpt", "cs"}}

\* run / stream up to the exec.  _run_batch overwrites the last id before the
\* call; the other paths do so once the command has exited with 0.
Issue(c, r) ==
    LET n == cmds + 1 IN
    /\ Stands(c, "idle") /\ n <= MaxCmds
    /\ Cardinality({m \in Cmds : cmd[m].by = c}) < Quota[c]
    /\ r.call \in Calls
    /\ cmds' = n
    /\ cmd' = [cmd EXCEPT ![n] = [by |-> c, call |-> r.call, ck |-> r.ck, cs |-> r.cs,
                                  since |-> IF r.cs /\ r.call = "batch" THEN last[c] ELSE 0,
                                  prev |-> last[c], rc |-> 0]]
    /\ last' = IF r.call = "batch" /\ r.ck THEN [last EXCEPT ![c] = n] ELSE last
    /\ cpc' = [cpc EXCEPT ![c] = [at |-> "sent", n |-> n]]
    /\ UNCHANGED <<engine, admitted, disk, point, jobs, bpc, busy, hk, hc, upTo, found, peeked>>

\* Mutant: a daemon that does not make a command wait for the background work.
AdmitAtOnce(c) ==
    /\ Stands(c, "sent")
    /\ admitted' = admitted \union {cpc[c].n} /\ Goto(c, "exec")
    /\ UNCHANGED <<engine, cmds, cmd, disk, point, jobs, bpc, busy, hk, hc, last, upTo, found, peeked>>

\* The daemon lets a command in: an /action waits for the backpressure event,
\* and every command for the background work of the sandbox.  A local engine has no gate.
Admit(c) ==
    LET n == cpc[c].n IN
    /\ Stands(c, "sent")
    /\ engine = "remote" => Background = {} /\ (cmd[n].call = "batch" => ~busy)
    /\ admitted' = admitted \union {n}
    /\ Goto(c, "exec")
    /\ UNCHANGED <<engine, cmds, cmd, disk, point, jobs, bpc, busy, hk, hc, last, upTo, found, peeked>>

\* The bounded wait expires: the handler answers with an error.
Refuse(c) ==
    /\ Stands(c, "sent") /\ engine = "remote"
    /\ Background # {} \/ busy
    /\ Goto(c, "error")
    /\ UNCHANGED <<engine, cmds, cmd, admitted, disk, point, jobs, bpc, busy, hk, hc, last, upTo, found, peeked>>

\* The command writes to the sandbox, external; one that exits with 0 has.
CommandWrites(c) ==
    /\ Stands(c, "exec")
    /\ cpc[c].n \notin disk
    /\ disk' = disk \union {cpc[c].n}
    /\ UNCHANGED <<engine, cmds, cmd, cpc, admitted, point, jobs, bpc, busy, hk, hc, last, upTo, found, peeked>>

\* action_sandbox after the exec: a command that failed skips the work; one
\* that exited with 0 registers the job and reserves both gates, and only
\* then gives its command slot back.
Reserve(n) ==
    /\ jobs' = [jobs EXCEPT ![JobId(n)] = [st |-> "pending", ck |-> cmd[n].ck, res |-> {}]]
    /\ bpc' = [bpc EXCEPT ![n] = IF cmd[n].ck THEN "ckpt" ELSE "cs"]
    /\ busy' = TRUE

Exit(c, rc) ==
    LET n == cpc[c].n IN
    /\ Stands(c, "exec")
    /\ rc = 0 => n \in disk
    /\ cmd' = [cmd EXCEPT ![n].rc = rc]
    /\ IF cmd[n].call = "batch" /\ rc = 0 THEN Reserve(n) /\ upTo' = [upTo EXCEPT ![n] = admitted]
                                         ELSE UNCHANGED <<jobs, bpc, busy, upTo>>
    /\ Goto(c, "reply")
    /\ UNCHANGED <<engine, cmds, admitted, disk, point, hk, hc, last, found, peeked>>

\* The exec timed out or could not be cleaned up: runtime.exec raises.
ExecFails(c) ==
    /\ Stands(c, "exec")
    /\ Goto(c, "error")
    /\ UNCHANGED <<engine, cmds, cmd, admitted, disk, point, jobs, bpc, busy, hk, hc, last, upTo, found, peeked>>

\* _run_batch on the answer: poll handles, or the previous id again.
BatchReply(c) ==
    LET n == cpc[c].n  ok == cmd[n].rc = 0 IN
    /\ Stands(c, "reply") /\ cmd[n].call = "batch"
    /\ last' = IF cmd[n].ck /\ ~ok THEN [last EXCEPT ![c] = cmd[n].prev] ELSE last
    /\ hk' = IF cmd[n].ck /\ ok THEN [hk EXCEPT ![n] = Open] ELSE hk
    \* a skipped changeset is an empty one that is done
    /\ hc' = IF cmd[n].cs THEN [hc EXCEPT ![n] = IF ok THEN Open ELSE [Open EXCEPT !.st = "ok"]] ELSE hc
    /\ Goto(c, "idle")
    /\ UNCHANGED <<engine, cmds, cmd, admitted, disk, point, jobs, bpc, busy, upTo, found, peeked>>

\* The call raises in the client: the handler's error, an answer that was
\* lost after the work, or check=True.
CallFails(c) ==
    \/ Stands(c, "error")
    \/ Stands(c, "reply") /\ (engine = "remote" \/ cmd[cpc[c].n].rc # 0)

\* _run_batch puts the previous id back.
CallRaises(c) ==
    LET n == cpc[c].n IN
    /\ CallFails(c)
    /\ last' = IF cmd[n].call = "batch" /\ cmd[n].ck THEN [last EXCEPT ![c] = cmd[n].prev] ELSE last
    /\ Goto(c, "idle")
    /\ UNCHANGED <<engine, cmds, cmd, admitted, disk, point, jobs, bpc, busy, hk, hc, upTo, found, peeked>>

\* _build_action_result: threads of the client.  The changeset is against the
\* id that was the last one before this checkpoint's.
LocalReply(c) ==
    LET n == cpc[c].n  ck == cmd[n].ck /\ cmd[n].rc = 0 IN
    /\ Stands(c, "reply") /\ cmd[n].call # "batch"
    /\ cmd' = [cmd EXCEPT ![n].since = IF cmd[n].cs THEN last[c] ELSE 0]
    /\ last' = IF ck THEN [last EXCEPT ![c] = n] ELSE last
    /\ hk' = IF ck THEN [hk EXCEPT ![n] = Open] ELSE hk
    /\ hc' = IF cmd[n].cs THEN [hc EXCEPT ![n] = Open] ELSE hc
    /\ bpc' = [bpc EXCEPT ![n] = IF ck \/ cmd[n].cs THEN "threads" ELSE "none"]
    /\ Goto(c, "idle")
    /\ UNCHANGED <<engine, cmds, admitted, disk, point, jobs, busy, upTo, found, peeked>>

-----------------------------------------------------------------------------
(* The work.                                                               *)

\* changeset_since: the diff against a stored checkpoint.  Without one (and
\* on a sandbox that is no fork) it raises.
Diffable(n) == cmd[n].since # 0 /\ point[cmd[n].since] # NoPoint
Diff(n) == disk \ point[cmd[n].since]

\* _background, 3a: the checkpoint of the job, then its changeset.
JobCheckpoint(n) ==
    /\ bpc[n] = "ckpt"
    /\ point' = [point EXCEPT ![n] = disk]
    /\ IF cmd[n].cs
       THEN bpc' = [bpc EXCEPT ![n] = "cs"] /\ UNCHANGED <<jobs, busy>>
       ELSE /\ bpc' = [bpc EXCEPT ![n] = "none"] /\ busy' = FALSE
            /\ jobs' = [jobs EXCEPT ![JobId(n)].st = "completed"]
    /\ UNCHANGED <<engine, cmds, cmd, cpc, admitted, disk, hk, hc, last, upTo, found, peeked>>

JobFails(n) ==
    /\ bpc[n] = "ckpt"
    /\ bpc' = [bpc EXCEPT ![n] = "none"] /\ busy' = FALSE
    /\ jobs' = [jobs EXCEPT ![JobId(n)].st = "failed"]
    /\ UNCHANGED <<engine, cmds, cmd, cpc, admitted, disk, point, hk, hc, last, upTo, found, peeked>>

\* 3b: a changeset that raises completes the job without entries.
JobChangeset(n) ==
    LET res == IF Diffable(n) THEN Diff(n) ELSE {} IN
    /\ bpc[n] = "cs"
    /\ found' = [found EXCEPT ![n] = res]
    /\ jobs' = [jobs EXCEPT ![JobId(n)] = [st |-> "completed", ck |-> cmd[n].ck, res |-> res]]
    /\ bpc' = [bpc EXCEPT ![n] = "none"] /\ busy' = FALSE
    /\ UNCHANGED <<engine, cmds, cmd, cpc, admitted, disk, point, hk, hc, last, upTo, peeked>>

\* _gc: a job that is no longer pending is forgotten after its time (of
\* interest while a handle is still to poll it).
Expire(j) ==
    /\ \E n \in Cmds : (hk[n].st = "open" \/ hc[n].st = "open") /\ JobId(n) = j
    /\ jobs[j].st \in {"completed", "failed"}
    /\ jobs' = [jobs EXCEPT ![j] = UnknownJob]
    /\ UNCHANGED <<engine, cmds, cmd, cpc, admitted, disk, point, bpc, busy, hk, hc, last, upTo, found, peeked>>

\* The thread of _start_async_checkpoint.  A remote engine's system has no
\* checkpoint_requested: there the thread raises at once.
ThreadCheckpoint(n, ok) ==
    /\ bpc[n] = "threads" /\ hk[n].st = "open"
    /\ ok => engine = "local"
    /\ point' = IF ok THEN [point EXCEPT ![n] = disk] ELSE point
    /\ hk' = [hk EXCEPT ![n].st = IF ok THEN "ok" ELSE "err"]
    /\ UNCHANGED <<engine, cmds, cmd, cpc, admitted, disk, jobs, bpc, busy, hc, last, upTo, found, peeked>>

\* The thread of _start_async_changeset, beside that of the checkpoint.
ThreadChangeset(n) ==
    /\ bpc[n] = "threads" /\ hc[n].st = "open"
    /\ IF Diffable(n)
       THEN /\ hc' = [hc EXCEPT ![n] = [st |-> "ok", res |-> Diff(n)]]
            /\ found' = [found EXCEPT ![n] = Diff(n)]
       ELSE hc' = [hc EXCEPT ![n].st = "err"] /\ UNCHANGED found
    /\ UNCHANGED <<engine, cmds, cmd, cpc, admitted, disk, point, jobs, bpc, busy, hk, last, upTo, peeked>>

-----------------------------------------------------------------------------
(* Poll handles.  A poll of a forgotten job raises and leaves them open.   *)

Polls(n, h) == bpc[n] # "threads" /\ h[n].st = "open" /\ jobs[JobId(n)].st \in {"completed", "failed"}

\* AsyncCheckpoint.wait and .done record what they saw.
PollCheckpoint(n) ==
    /\ Polls(n, hk)
    /\ hk' = [hk EXCEPT ![n].st = IF jobs[JobId(n)].st = "completed" THEN "ok" ELSE "err"]
    /\ UNCHANGED <<engine, cmds, cmd, cpc, admitted, disk, point, jobs, bpc, busy, hc, last, upTo, found, peeked>>

\* AsyncChangeset.wait.
WaitChangeset(n) ==
    /\ Polls(n, hc)
    /\ hc' = [hc EXCEPT ![n] = IF jobs[JobId(n)].st = "completed"
                               THEN [st |-> "ok", res |-> jobs[JobId(n)].res]
                               ELSE [st |-> "err", res |-> {}]]
    /\ UNCHANGED <<engine, cmds, cmd, cpc, admitted, disk, point, jobs, bpc, busy, hk, last, upTo, found, peeked>>

\* AsyncChangeset.done notes that the job is over and neither its entries nor its error.
PeekChangeset(n) ==
    /\ Polls(n, hc)
    /\ hc' = [hc EXCEPT ![n].st = "ok"]
    /\ peeked' = peeked \union {n}
    /\ UNCHANGED <<engine, cmds, cmd, cpc, admitted, disk, point, jobs, bpc, busy, hk, last, upTo, found>>

SdkNext ==
    \/ \E c \in Clients :
        \/ \E r \in Asked[c] : Issue(c, r)
        \/ Admit(c) \/ Refuse(c) \/ CommandWrites(c) \/ ExecFails(c)
        \/ \E rc \in {0, 1} : Exit(c, rc)
        \/ BatchReply(c) \/ CallRaises(c) \/ LocalReply(c)
    \/ \E n \in Cmds :
        \/ JobCheckpoint(n) \/ JobFails(n) \/ JobChangeset(n)
        \/ \E ok \in BOOLEAN : ThreadCheckpoint(n, ok)
        \/ ThreadChangeset(n)
        \/ PollCheckpoint(n) \/ WaitChangeset(n) \/ PeekChangeset(n)
    \/ \E j \in Cmds \union Clients : Expire(j)

SdkSpec == SdkInit /\ [][SdkNext]_sdkvars

-----------------------------------------------------------------------------
(* Transaction handles (txn.py).  The system's registry holds at most one  *)
(* active transaction of the sandbox; an answer to a client may be lost.   *)

VARIABLES tact,   \* the active transaction, 0 when there is none
          tnum,   \* transactions begun
          tout,   \* per transaction: how the system resolved it
          th,     \* per client: its Transaction handle, t = 0 when it has none
          tleft   \* per client: how its last with-block ended

tvars == <<tact, tnum, tout, th, tleft>>

Txns == 1..MaxTxns
NoHandle == [t |-> 0, r |-> "open"]

TInit ==
    /\ tact = 0 /\ tnum = 0 /\ tout = [t \in Txns |-> "open"]
    /\ th = [c \in Clients |-> NoHandle]
    /\ tleft = [c \in Clients |-> [t |-> 0, want |-> "none"]]

\* Sandbox.begin: begin_txn refuses a second active transaction.
TBegin(c, lost) ==
    /\ th[c].t = 0 /\ tact = 0 /\ tnum < MaxTxns
    /\ tnum' = tnum + 1 /\ tact' = tnum + 1
    /\ th' = IF lost THEN th ELSE [th EXCEPT ![c] = [t |-> tnum + 1, r |-> "open"]]
    /\ UNCHANGED <<tout, tleft>>

\* Sandbox.current_txn: reattach to the active transaction.
TAttach(c) ==
    /\ th[c].t = 0 /\ tact # 0
    /\ th' = [th EXCEPT ![c] = [t |-> tact, r |-> "open"]]
    /\ UNCHANGED <<tact, tnum, tout, tleft>>

\* commit_txn / abort_txn: _require_txn refuses an id that is not the active one.
Resolves(t, how) == tact = t /\ tact' = 0 /\ tout' = [tout EXCEPT ![t] = how]

\* Transaction.commit and .abort: _resolved is set once the call has returned.
TResolve(c, how, lost) ==
    /\ th[c].t # 0 /\ th[c].r = "open"
    /\ Resolves(th[c].t, how)
    /\ th' = IF lost THEN th ELSE [th EXCEPT ![c].r = how]
    /\ UNCHANGED <<tnum, tleft>>

\* __exit__: a resolved handle is left alone, an open one is committed, or
\* aborted when the block raised.  When that call fails, it raises.
TExit(c, how, lost) ==
    /\ th[c].t # 0
    /\ \/ th[c].r # "open" /\ UNCHANGED <<tact, tout>>
          /\ tleft' = [tleft EXCEPT ![c] = [t |-> th[c].t, want |-> th[c].r]]
       \/ th[c].r = "open" /\ Resolves(th[c].t, how)
          /\ tleft' = [tleft EXCEPT ![c] = IF lost THEN [t |-> th[c].t, want |-> "error"]
                                           ELSE [t |-> th[c].t, want |-> how]]
       \/ th[c].r = "open" /\ UNCHANGED <<tact, tout>>
          /\ tleft' = [tleft EXCEPT ![c] = [t |-> th[c].t, want |-> "error"]]
    /\ th' = [th EXCEPT ![c] = NoHandle]
    /\ UNCHANGED tnum

TNext == \E c \in Clients :
    \/ TAttach(c)
    \/ \E lost \in BOOLEAN :
        \/ TBegin(c, lost)
        \/ \E how \in {"committed", "aborted"} : TResolve(c, how, lost) \/ TExit(c, how, lost)

-----------------------------------------------------------------------------
(* Properties.                                                             *)

\* Handles and jobs have the states the code gives them.
SdkTypeOK ==
    /\ engine \in {"local", "remote"} /\ cmds \in 0..MaxCmds
    /\ admitted \subseteq 1..cmds /\ disk \subseteq admitted
    /\ \A n \in Cmds : /\ point[n] = NoPoint \/ point[n] \subseteq Cmds
                       /\ bpc[n] \in {"none", "ckpt", "cs", "threads"}
                       /\ hk[n].st \in {"none", "open", "ok", "err"}
                       /\ hc[n].st \in {"none", "open", "ok", "err"}
    /\ \A j \in Cmds \union Clients : jobs[j].st \in {"unknown", "pending", "completed", "failed"}
    /\ \A c \in Clients : last[c] \in 0..cmds

\* A checkpoint handle that reports success names a checkpoint that was taken
\* (AsyncCheckpoint.wait), whoever else polled, and whatever expired meanwhile.
SuccessIsStored == \A n \in Cmds : hk[n].st = "ok" => point[n] # NoPoint

\* What the daemon captures or reports for an action is of that action: its
\* own write is in the checkpoint, and no command is that entered the sandbox
\* after the answer was sent (the two gates of action_sandbox).
ActionPointIsOwn ==
    \A n \in Cmds : point[n] # NoPoint =>
        /\ n \in disk => n \in point[n]
        /\ cmd[n].call = "batch" => point[n] \subseteq upTo[n]

\* A changeset handle that was waited for returns what was computed for its
\* own action.  What the daemon computes against a stored checkpoint holds the
\* action's own write, nothing the checkpoint holds and nothing later.  (Of a
\* remote action that also checkpoints: the job of one that does not is named
\* after a thread, and a later one may replace it.)
EntriesAreOwn ==
    \A n \in Cmds : hc[n].st = "ok" /\ n \notin peeked /\ (cmd[n].ck \/ engine = "local") =>
        /\ hc[n].res = found[n]
        /\ found[n] # {} => Diffable(n) /\ point[cmd[n].since] \intersect found[n] = {}
        /\ cmd[n].call = "batch" => found[n] \subseteq upTo[n]
        /\ cmd[n].call = "batch" /\ cmd[n].rc = 0 /\ Diffable(n) => n \in found[n]

\* Between calls last_checkpoint_id is the newest id whose handle was given
\* out: a call that failed, was skipped or lost its answer leaves no trace in it.
LastIsNewestHandle ==
    \A c \in Clients : Stands(c, "idle") =>
        last[c] = Max({0} \union {n \in Cmds : cmd[n].by = c /\ hk[n].st # "none"})

\* A handle resolves its own transaction or none: what it or its with-block
\* reports is how the system resolved it, also when an earlier answer was lost
\* and another transaction has begun since; one that is active is unresolved.
TxnHandlesAreTrue ==
    /\ \A c \in Clients :
        /\ th[c].r # "open" => tout[th[c].t] = th[c].r
        /\ tleft[c].want \in {"committed", "aborted"} => tout[tleft[c].t] = tleft[c].want
    /\ tact # 0 => tout[tact] = "open"

\* What a client's handles say is so, on a local and on a remote engine: a
\* checkpoint that succeeded is stored and is of its own command, the entries of
\* a changeset are its own, last_checkpoint_id is the newest, and a transaction
\* was resolved as its handle says.
HandlesAreTrue == SdkTypeOK /\ SuccessIsStored /\ ActionPointIsOwn /\ EntriesAreOwn /\ LastIsNewestHandle
                  /\ TxnHandlesAreTrue

\* AsyncChangeset.wait: "Block until the changeset completes. Returns the
\* changeset entries."  Not so when done saw the job finish first.
WaitReturnsEntries ==
    \A n \in Cmds : hc[n].st = "ok" /\ cmd[n].ck /\ cmd[n].rc = 0 => hc[n].res = found[n]
=============================================================================
