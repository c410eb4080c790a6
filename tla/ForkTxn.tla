------------------------------- MODULE ForkTxn ------------------------------
(***************************************************************************)
(* Fork-backed transactions of src/crab/system.py: begin forks the source  *)
(* and the transaction's work happens in the fork; commit dumps the fork,  *)
(* copies the image to the source, takes the source down, puts a clone of  *)
(* the fork's dataset in its place, moves the fork's network identity and  *)
(* restores; abort destroys the fork.  Every step of the runtime may fail; *)
(* the source's agent, the fork's agent and the caller interleave.         *)
(* Datasets follow zfs: a dataset a clone depends on cannot be destroyed,  *)
(* promote turns the dependency round.                                     *)
(***************************************************************************)
EXTENDS Integers, FiniteSets, Sequences

CONSTANTS MaxFtxFaults,  \* bound: runtime calls that raise
          MaxFtxCalls    \* bound: begin, commit, abort and kill calls

ASSUME ForkTxnAssumption == {MaxFtxFaults, MaxFtxCalls} \subseteq Nat

VARIABLES
    netted,   \* the fork has a lease of its own the source must adopt
    so,       \* the source: container, dataset, lease, writes since the fork
    fo,       \* the fork: container, dataset, lease, holds work of the txn
    on,       \* which dataset is a clone of the other: "none", "fork", "source"
    tx,       \* registry entries, journal tags, staging, effect session
    call,     \* the call under way
    calls, ftxfaults,
    lost      \* history: source writes thrown away without force
ftxvars == <<netted, so, fo, on, tx, call, calls, ftxfaults, lost>>

Both == {"source", "fork"}
NoFork == [ctr |-> "absent", fs |-> FALSE, lease |-> FALSE, work |-> FALSE, img |-> FALSE]
NoTxn == [reg |-> {}, tags |-> {}, staging |-> FALSE, session |-> FALSE, staged |-> 0, out |-> 0, end |-> "none"]
NoCall == [pc |-> "idle", force |-> FALSE, move |-> FALSE, moved |-> FALSE, retained |-> FALSE]

FtxInit == /\ netted \in BOOLEAN /\ so = [ctr |-> "running", fs |-> "own", lease |-> "own", dirty |-> FALSE]
           /\ fo = NoFork /\ on = "none" /\ tx = NoTxn /\ call = NoCall /\ calls = 0 /\ ftxfaults = 0 /\ lost = FALSE

CallGo(p) == call' = [call EXCEPT !.pc = p]
Raises(p) == ftxfaults < MaxFtxFaults /\ ftxfaults' = ftxfaults + 1 /\ CallGo(p)
CallBegins(p) == call.pc = "idle" /\ calls < MaxFtxCalls /\ calls' = calls + 1 /\ so.ctr # "killed"

\* The source's agent goes on writing while the transaction runs in the fork.
SourceWrites == /\ so.ctr = "running" /\ fo.fs /\ ~so.dirty /\ so.fs = "own" /\ so' = [so EXCEPT !.dirty = TRUE]
                /\ UNCHANGED <<netted, fo, on, tx, call, calls, ftxfaults, lost>>

\* The fork's agent works and is answered; its responses are staged.
ForkWorks == /\ fo.ctr = "running" /\ tx.staging /\ tx.staged = 0 /\ fo' = [fo EXCEPT !.work = TRUE]
             /\ tx' = [tx EXCEPT !.staged = 1]
             /\ UNCHANGED <<netted, so, on, call, calls, ftxfaults, lost>>

-----------------------------------------------------------------------------
\* begin_txn reserves the source's entry, then the fork is made.
BeginFork == /\ CallBegins("fork") /\ tx.reg = {} /\ so.ctr = "running" /\ ~fo.fs
             /\ tx' = [NoTxn EXCEPT !.reg = {"source"}, !.tags = tx.tags] /\ call' = [NoCall EXCEPT !.pc = "fork"]
             /\ UNCHANGED <<netted, so, fo, on, ftxfaults, lost>>

MakeFork == /\ call.pc = "fork"
            /\ \/ /\ fo' = [ctr |-> "running", fs |-> TRUE, lease |-> netted, work |-> FALSE, img |-> FALSE]
                  /\ on' = "fork" /\ so' = [so EXCEPT !.dirty = FALSE]
                  /\ CallGo("arm") /\ UNCHANGED <<tx, ftxfaults>>
               \/ /\ Raises("idle") /\ tx' = [tx EXCEPT !.reg = {}] /\ UNCHANGED <<so, fo, on>>
            /\ UNCHANGED <<netted, calls, lost>>

\* Staging, journal tags, both registry entries and the effect session; when
\* arming raises, staging ends, the fork is destroyed and both entries go.
\* (The journal's tags stay.)
Entries == Both
DestroyedFork == IF on = "source" THEN [fo EXCEPT !.ctr = "absent", !.lease = FALSE] ELSE NoFork
ArmTxn == /\ call.pc = "arm"
          /\ \/ /\ tx' = [tx EXCEPT !.reg = Entries, !.tags = Both, !.staging = TRUE, !.session = TRUE]
                /\ CallGo("idle") /\ UNCHANGED <<fo, on, ftxfaults>>
             \/ /\ Raises("idle") /\ tx' = [tx EXCEPT !.reg = {}, !.tags = Both]
                /\ fo' = DestroyedFork /\ on' = "none"
          /\ UNCHANGED <<netted, so, calls, lost>>

-----------------------------------------------------------------------------
\* _commit_fork_txn: refused when the source changed since the fork point,
\* unless forced; the snapshot to compare with is gone after a first swap.
CommitFork(force) ==
    /\ CallBegins("dump") /\ tx.reg = Both
    /\ call' = [NoCall EXCEPT !.pc = IF ~force /\ so.fs = "own" /\ on = "fork" /\ so.dirty THEN "idle" ELSE "dump",
                              !.force = force, !.move = fo.lease]
    /\ UNCHANGED <<netted, so, fo, on, tx, ftxfaults, lost>>

DumpFailDestroys == /\ call.pc = "dump" /\ Raises("idle") /\ fo' = DestroyedFork
                    /\ UNCHANGED <<netted, so, on, tx, calls, lost>>
\* The fork is dumped: left running, or stopped when its netns moves.
DumpFork == /\ call.pc = "dump"
            /\ \/ /\ fo.ctr = "running" /\ CallGo("down") /\ UNCHANGED ftxfaults
                  /\ fo' = [fo EXCEPT !.ctr = IF call.move THEN "down" ELSE "running", !.img = TRUE]
               \/ fo.ctr = "running" /\ Raises("idle") /\ UNCHANGED fo
               \/ fo.ctr # "running" /\ CallGo("idle") /\ UNCHANGED <<fo, ftxfaults>>
            /\ UNCHANGED <<netted, so, on, tx, calls, lost>>

\* The point of no return: the source's container goes down.
SourceDown == /\ call.pc = "down" /\ so' = [so EXCEPT !.ctr = "down"] /\ CallGo("swap")
              /\ lost' = (lost \/ (so.dirty /\ so.fs = "own" /\ ~call.force))
              /\ UNCHANGED <<netted, fo, on, tx, calls, ftxfaults>>

\* The fork's dataset is promoted, the source's destroyed, and the fork's
\* committed snapshot cloned in its place; each may raise.
SwapDataset ==
    /\ call.pc = "swap"
    /\ \/ /\ so' = [so EXCEPT !.fs = "clone"] /\ on' = "source" /\ CallGo("move") /\ UNCHANGED ftxfaults
       \/ /\ Raises("idle")
          /\ \/ UNCHANGED <<so, on>>
             \/ so.fs = "own" /\ on' = "source" /\ UNCHANGED so
             \/ on' = "none" /\ so' = [so EXCEPT !.fs = "none"]
    /\ UNCHANGED <<netted, fo, tx, calls, lost>>

\* transfer_network_lease, when the fork was dumped in a netns of its own.
Transfer == /\ call.pc = "move"
            /\ \/ /\ call.move /\ so' = [so EXCEPT !.lease = "fork"] /\ fo' = [fo EXCEPT !.lease = FALSE]
                  /\ call' = [call EXCEPT !.pc = "restore", !.moved = TRUE] /\ UNCHANGED ftxfaults
               \/ call.move /\ Raises("idle") /\ UNCHANGED <<so, fo>>
               \/ ~call.move /\ CallGo("restore") /\ UNCHANGED <<so, fo, ftxfaults>>
            /\ UNCHANGED <<netted, on, tx, calls, lost>>

\* restore_once under the source's id.
RestoreSource == /\ call.pc = "restore"
                 /\ \/ so' = [so EXCEPT !.ctr = "running", !.dirty = FALSE] /\ CallGo("detach") /\ UNCHANGED ftxfaults
                    \/ Raises("idle") /\ UNCHANGED so
                 /\ UNCHANGED <<netted, fo, on, tx, calls, lost>>

\* The source's dataset is promoted so that the fork may go; if that fails
\* the fork is retained.
Detach == /\ call.pc = "detach"
          /\ \/ on' = "fork" /\ CallGo("release") /\ UNCHANGED ftxfaults
             \/ /\ ftxfaults < MaxFtxFaults /\ ftxfaults' = ftxfaults + 1 /\ UNCHANGED on
                /\ call' = [call EXCEPT !.pc = "release", !.retained = TRUE]
          /\ UNCHANGED <<netted, so, fo, tx, calls, lost>>

\* Staged observations flow, staging and the session end, both entries and
\* tags are cleared.
ReleaseFork == /\ call.pc = "release" /\ CallGo("destroy")
               /\ tx' = [NoTxn EXCEPT !.out = tx.staged, !.end = "committed"]
               /\ UNCHANGED <<netted, so, fo, on, calls, ftxfaults, lost>>

DestroyFork == /\ call.pc = "destroy" /\ CallGo("idle")
               /\ IF call.retained THEN UNCHANGED <<fo, on>> ELSE fo' = DestroyedFork /\ on' = "none"
               /\ UNCHANGED <<netted, so, tx, calls, ftxfaults, lost>>

-----------------------------------------------------------------------------
\* _abort_fork_txn: staged responses dropped, entries and tags cleared, the
\* fork destroyed (its dataset stays when the source is a clone of it).
AbortFork == /\ CallBegins("idle") /\ tx.reg = Both /\ call' = NoCall
             /\ tx' = [NoTxn EXCEPT !.end = "aborted"]
             /\ fo' = DestroyedFork /\ on' = IF on = "source" THEN on ELSE "none"
             /\ UNCHANGED <<netted, so, ftxfaults, lost>>

\* release_txn when the source (or the fork) is killed with the txn open:
\* the entries go, and a dying source takes the orphaned fork with it.
KillSource == /\ CallBegins("idle") /\ so' = [so EXCEPT !.ctr = "killed", !.lease = "none"] /\ call' = NoCall
              /\ tx' = IF tx.reg = Both THEN [NoTxn EXCEPT !.end = "killed"] ELSE tx
              /\ IF tx.reg = Both THEN fo' = DestroyedFork /\ on' = IF on = "source" THEN on ELSE "none"
                                  ELSE UNCHANGED <<fo, on>>
              /\ UNCHANGED <<netted, ftxfaults, lost>>

KillFork == /\ CallBegins("idle") /\ tx.reg = Both /\ call' = NoCall
            /\ tx' = [NoTxn EXCEPT !.end = "killed"]
            /\ fo' = DestroyedFork /\ on' = IF on = "source" THEN on ELSE "none"
            /\ UNCHANGED <<netted, so, ftxfaults, lost>>

FtxNext == \/ SourceWrites \/ ForkWorks \/ BeginFork \/ MakeFork \/ ArmTxn \/ (\E f \in BOOLEAN : CommitFork(f))
           \/ DumpFork \/ SourceDown \/ SwapDataset \/ Transfer \/ RestoreSource \/ Detach \/ ReleaseFork
           \/ DestroyFork \/ AbortFork \/ KillSource \/ KillFork
FtxSpec == FtxInit /\ [][FtxNext]_ftxvars
-----------------------------------------------------------------------------
\* Types of the state; a dataset that is a clone has the fork it depends on.
FtxTypeOK == /\ so.fs \in {"own", "none", "clone"} /\ so.ctr \in {"running", "down", "killed"}
             /\ so.lease \in {"own", "fork", "none"} /\ fo.ctr \in {"running", "down", "absent"}
             /\ on \in {"none", "fork", "source"} /\ tx.reg \subseteq Both /\ tx.staged \in 0..1
             /\ (on # "none" => fo.fs)

\* Between calls both ids are registered or neither is: automatic checkpoints
\* and merges are locked out of both sides for as long as the txn is open.
RegisteredTogether == call.pc = "idle" => tx.reg \in {{}, Both}

\* The responses staged in the fork flow only when the source runs the state
\* that asked for them: a failed swap delivers none.
ObservationsAtomic == tx.out > 0 => so.fs = "clone" /\ so.ctr \in {"running", "killed"}

\* Until it is aborted or killed, what was done in the transaction exists in
\* a dataset, whichever step of the promotion failed and however often.
WorkIsKept == (tx.reg = Both \/ tx.end = "committed") => fo.fs \/ so.fs = "clone"

\* A source that runs the fork's image has the address its sockets are bound
\* to: the fork's when the fork had a lease of its own.
AddressMatchesImage == so.ctr = "running" /\ so.fs = "clone" => (so.lease = "fork" <=> netted)

\* A failed or finished transaction leaves no staging scope or effect session
\* on a fork that is gone, and an open one gates the fork that runs.
ForkIsGated == call.pc = "idle" => /\ (tx.reg = Both => tx.staging /\ tx.session)
                                   /\ (tx.reg = {} => ~tx.staging /\ ~tx.session)

\* Aborting leaves the source untouched.  Not so after a failed commit.
SourceUntouchedByAbort == tx.end = "aborted" => so.ctr # "down" /\ so.fs = "own"

\* A failed commit can be retried: the fork still runs.  Not so when its
\* netns was to move, for then it was stopped by the dump.
CommitIsRetryable == tx.reg = Both /\ call.pc = "idle" => fo.ctr = "running"

\* Without force no write of the source is thrown away.  Not so for writes
\* made after the dirty check.
NoWriteDiscarded == ~lost

\* The journal tags only sandboxes with an open transaction.  Not so after a
\* begin that failed to arm.
TagsAreOpen == call.pc = "idle" => tx.tags = tx.reg

-----------------------------------------------------------------------------
(***************************************************************************)
(* Engine.fork_sandbox of src/crab/engine.py: a batch of forks made one    *)
(* after the other, each from a bundle, a network lease, a copy of the     *)
(* checkpoint state, an effect session and restored processes.  When a     *)
(* step of one fork raises, the whole batch is taken apart, newest first,  *)
(* by _cleanup_failed_fork, whose own steps may fail and are reported.     *)
(***************************************************************************)

CONSTANTS FleetSize,       \* forks asked for
          MaxFleetFaults   \* bound: steps that raise

ASSUME FleetAssumption == FleetSize \in Nat \ {0} /\ MaxFleetFaults \in Nat

VARIABLES nets,      \* the source has an isolated network
          owns,      \* what each fork holds
          at,        \* the fork being made or taken apart
          work,      \* the steps left for it
          mode,      \* making, cleaning, made, failed
          reported,  \* <<fork, resource>> named in the cleanup errors
          fleetfaults
fleetvars == <<nets, owns, at, work, mode, reported, fleetfaults>>

Fleet == 1..FleetSize

\* The gate is armed before the processes are restored.
MakeSteps == IF nets THEN <<"bundle", "lease", "state", "session", "procs", "repair">>
                     ELSE <<"bundle", "state", "session", "procs">>

\* _cleanup_failed_fork: the session, the checkpoint state, then the runtime
\* with its processes and bundle, then the lease.
CleanSteps == <<"session", "state", "procs", "bundle", "lease">>

FleetInit == /\ nets \in BOOLEAN /\ owns = [f \in Fleet |-> {}] /\ at = 1 /\ work = MakeSteps /\ mode = "making"
             /\ reported = {} /\ fleetfaults = 0

\* One step of making the current fork; repair holds nothing.
Make == /\ mode = "making" /\ work # <<>>
        /\ owns' = [owns EXCEPT ![at] = @ \cup ({Head(work)} \ {"repair"})] /\ work' = Tail(work)
        /\ UNCHANGED <<nets, at, mode, reported, fleetfaults>>

NextFork == /\ mode = "making" /\ work = <<>>
            /\ IF at < FleetSize THEN at' = at + 1 /\ work' = MakeSteps /\ UNCHANGED mode
                                 ELSE mode' = "made" /\ UNCHANGED <<at, work>>
            /\ UNCHANGED <<nets, owns, reported, fleetfaults>>

\* A step raises, having done its part or not; the batch is taken apart.
MakeFails == /\ mode = "making" /\ work # <<>> /\ fleetfaults < MaxFleetFaults /\ fleetfaults' = fleetfaults + 1
             /\ \E half \in BOOLEAN : owns' = [owns EXCEPT ![at] = IF half THEN @ \cup ({Head(work)} \ {"repair"}) ELSE @]
             /\ mode' = "cleaning" /\ work' = CleanSteps
             /\ UNCHANGED <<nets, at, reported>>

Clean == /\ mode = "cleaning" /\ work # <<>>
         /\ \/ /\ owns' = [owns EXCEPT ![at] = @ \ {Head(work)}] /\ UNCHANGED <<reported, fleetfaults>>
            \/ /\ Head(work) \in owns[at] /\ fleetfaults < MaxFleetFaults /\ fleetfaults' = fleetfaults + 1
               /\ reported' = reported \cup {<<at, Head(work)>>} /\ UNCHANGED owns
         /\ work' = Tail(work)
         /\ UNCHANGED <<nets, at, mode>>

\* reversed([*fork_ids, target_sandbox_id])
PreviousFork == at - 1
CleanNext == /\ mode = "cleaning" /\ work = <<>>
             /\ IF PreviousFork >= 1 THEN at' = PreviousFork /\ work' = CleanSteps /\ UNCHANGED mode
                                     ELSE mode' = "failed" /\ UNCHANGED <<at, work>>
             /\ UNCHANGED <<nets, owns, reported, fleetfaults>>

FleetNext == Make \/ NextFork \/ MakeFails \/ Clean \/ CleanNext
FleetSpec == FleetInit /\ [][FleetNext]_fleetvars

-----------------------------------------------------------------------------
\* Whatever a failed batch leaves behind is named in the error it raises.
NothingLeaksSilently == mode = "failed" => \A f \in Fleet, r \in UNION {owns[g] : g \in Fleet} :
                            r \in owns[f] => <<f, r>> \in reported

\* While the batch is being made no fork runs without an effect session: the
\* gate is armed before the fork's processes are restored.
ForkStartsGated == mode \in {"making", "made"} => \A f \in Fleet : "procs" \in owns[f] => "session" \in owns[f]

\* No fork ever runs ungated.  Not so: the cleanup ends the session of a fork
\* that already runs before it deletes its processes.
ForkRunsGated == \A f \in Fleet : "procs" \in owns[f] => "session" \in owns[f] \/ <<f, "procs">> \in reported

\* A fork-backed transaction locks, gates and stages for both of its sides, its
\* work exists until it is aborted, and a source that took the fork's place has
\* what its image expects; a batch of forks is gated before it runs, and one
\* that fails names what it leaves behind.
ForksAreSound == /\ FtxTypeOK /\ RegisteredTogether /\ ObservationsAtomic /\ WorkIsKept
                 /\ AddressMatchesImage /\ ForkIsGated /\ NothingLeaksSilently /\ ForkStartsGated
=============================================================================
