------------------------------ MODULE Effects -------------------------------
(***************************************************************************)
(* The effect gate of one sandbox (crab/effects.py) between the egress     *)
(* proxy's connection threads (crab/egress.py) and the transactions that   *)
(* arm it (crab/system.py), with the ledger the journal keeps of it.       *)
(*                                                                         *)
(* Under "defer" a write is answered 202, queued, and sent after the       *)
(* commit; under "seal" it goes out and the transaction cannot be aborted. *)
(* Every use of the gate is one critical section, so deciding about a      *)
(* write, queueing it, draining the queue and ending the session are       *)
(* steps that interleave.  The queue lives in memory: a crash of the       *)
(* daemon loses it, and the next start settles the ledger.  Transactions   *)
(* are begun and resolved one after the other (Transactions has the        *)
(* concurrent callers and the begin that fails), and no abort is forced.   *)
(***************************************************************************)
EXTENDS Integers, Sequences, FiniteSets, SequencesExt

CONSTANTS Writes,      \* mutating requests, one per proxy connection
          Opaque,      \* those of them the proxy sees no method of
          OpaqueEffects, \* the configured opaque_effects
          MaxTxns,     \* bound on the transactions ever begun
          MaxQueue,    \* max_queue_entries
          MaxCrashes   \* bound on crashes of the daemon

ASSUME FlowsAssumption == Opaque \subseteq Writes
                          /\ OpaqueEffects \in {"allow", "reject", "seal"}
ASSUME BoundsAssumption == MaxTxns \in Nat /\ MaxQueue \in Nat /\ MaxCrashes \in Nat

VARIABLES session,    \* the txn_id of the armed EffectSession, NoTxn if none
          policy,     \* its policy
          sealed,     \* its sealed flag
          queue,      \* its deferred writes
          stamp,      \* the journal's active transaction, NoTxn if none
          ledger,     \* the journal's egress rows that carry an effect
          kpc,        \* where the transaction's caller is
          txn,        \* the newest transaction
          drained,    \* the queue a commit or an abort has taken
          xpc,        \* where the connection of each write is
          decidedIn,  \* the session each write was deferred by
          crashes,    \* crashes so far
          outcome,    \* history: what became of each transaction
          accepted,   \* history: the writes queued, in order, with the session
          sealedIn,   \* history: the session a write has sealed
          world       \* history: the writes that left the host, in order

gateState == <<session, policy, sealed, queue>>
callState == <<kpc, txn, drained>>
proxyState == <<xpc, decidedIn>>
seen == <<outcome, accepted, sealedIn, world>>
evars == <<gateState, stamp, ledger, callState, proxyState, crashes, seen>>

NoTxn == 0
TxnIds == 1..MaxTxns
Policies == {"allow", "defer", "reject", "seal"}
Terminal == {"flushed", "flush_failed", "dropped", "lost"}
Row == [effect : Terminal \cup {"deferred"}, write : Writes, txn : {NoTxn} \cup TxnIds]
CallPc == {"idle", "stamped", "open", "flush", "flushLog", "commitEnd", "clear",
           "abort", "drop", "dropLog", "abortEnd",
           "killLog", "killEnd", "killClear", "dead", "down"}
ProxyPc == {"new", "send", "queueing", "queued", "deferred", "over", "rejected"}

EInit == /\ session = NoTxn /\ policy = "allow" /\ sealed = FALSE /\ queue = <<>>
         /\ stamp = NoTxn /\ ledger = <<>>
         /\ kpc = "idle" /\ txn = NoTxn /\ drained = <<>>
         /\ xpc = [w \in Writes |-> "new"] /\ decidedIn = [w \in Writes |-> NoTxn]
         /\ crashes = 0
         /\ outcome = [t \in TxnIds |-> "none"]
         /\ accepted = <<>>
         /\ sealedIn = [w \in Writes |-> NoTxn]
         /\ world = <<>>

Journal(effect, w, t) ==
    ledger' = Append(ledger, [effect |-> effect, write |-> w, txn |-> t])

-----------------------------------------------------------------------------
(* The caller: begin_txn, commit_txn, abort_txn. *)

CallStep(from, to) == kpc = from /\ kpc' = to

\* begin_txn stamps the journal ...
BeginStamp == /\ txn < MaxTxns
              /\ CallStep("idle", "stamped")
              /\ txn' = txn + 1
              /\ stamp' = txn + 1
              /\ UNCHANGED <<gateState, ledger, drained, seen>>

\* ... and arms the session, replacing whatever session there is.
BeginSession == /\ CallStep("stamped", "open")
                /\ session' = txn
                /\ policy' \in Policies
                /\ sealed' = FALSE
                /\ queue' = <<>>
                /\ outcome' = [outcome EXCEPT ![txn] = "open"]
                /\ UNCHANGED <<stamp, ledger, txn, drained, accepted, sealedIn, world>>

\* drain: the queue is taken, the session stays.
Drain == /\ drained' = IF session = NoTxn THEN <<>> ELSE queue
         /\ queue' = <<>>
         /\ UNCHANGED <<session, policy, sealed>>

\* commit_txn, from _flush_deferred_effects on.
CommitDrain == /\ CallStep("open", "flush")
               /\ Drain
               /\ outcome' = [outcome EXCEPT ![txn] = "committed"]
               /\ UNCHANGED <<stamp, ledger, txn, accepted, sealedIn, world>>

\* The oldest drained write goes out, or fails to.
FlushSend == /\ drained # <<>>
             /\ CallStep("flush", "flushLog")
             /\ \/ world' = Append(world, Head(drained))
                \/ UNCHANGED world
             /\ UNCHANGED <<gateState, stamp, ledger, txn, drained, outcome,
                            accepted, sealedIn>>

\* An error may also come after the write has left.
FlushResults(w) ==
    {"flush_failed"} \cup (IF Contains(world, w) THEN {"flushed"} ELSE {})

\* Mutant: a write whose flush failed is tried again.
FlushRetries == /\ CallStep("flushLog", "flush")
                /\ \E effect \in FlushResults(Head(drained)) :
                      /\ Journal(effect, Head(drained), txn)
                      /\ drained' = IF effect = "flushed" THEN Tail(drained) ELSE drained
                /\ UNCHANGED <<gateState, stamp, txn, seen>>

FlushLog == /\ CallStep("flushLog", "flush")
            /\ \E effect \in FlushResults(Head(drained)) :
                  Journal(effect, Head(drained), txn)
            /\ drained' = Tail(drained)
            /\ UNCHANGED <<gateState, stamp, txn, seen>>

Flushed == /\ drained = <<>>
           /\ CallStep("flush", "commitEnd")
           /\ UNCHANGED <<gateState, stamp, ledger, txn, drained, seen>>

\* _release_effect_session: whatever is queued by now goes with the session.
EndSession == /\ \/ CallStep("commitEnd", "clear")
                 \/ CallStep("abortEnd", "idle")
                 \/ CallStep("killEnd", "killClear")
              /\ session' = NoTxn
              /\ policy' = "allow"
              /\ sealed' = FALSE
              /\ queue' = <<>>
              /\ UNCHANGED <<stamp, ledger, txn, drained, seen>>

\* _clear_txn: a commit clears after it flushed, a teardown last of all, and an
\* abort once the base is restored, before it drops.
ClearTxn == /\ \/ CallStep("clear", "idle")
               \/ CallStep("abort", "drop")
               \/ CallStep("killClear", "dead")
            /\ stamp' = NoTxn
            /\ outcome' = [outcome EXCEPT ![txn] =
                             IF kpc = "abort" THEN "aborted" ELSE @]
            /\ UNCHANGED <<gateState, ledger, txn, drained, accepted, sealedIn, world>>

\* abort_txn is refused once the session is sealed.
AbortCheck == /\ ~sealed
              /\ CallStep("open", "abort")
              /\ UNCHANGED <<gateState, stamp, ledger, txn, drained, seen>>

\* The base could not be restored: the transaction stays open.
AbortFails == /\ CallStep("abort", "open")
              /\ UNCHANGED <<gateState, stamp, ledger, txn, drained, seen>>

\* Mutant: the abort sends the queue instead of dropping it.
AbortFlushes == /\ CallStep("drop", "flush")
                /\ Drain
                /\ UNCHANGED <<stamp, ledger, txn, seen>>

\* _drop_deferred_effects, of an abort ...
AbortDrain == /\ CallStep("drop", "dropLog")
              /\ Drain
              /\ UNCHANGED <<stamp, ledger, txn, seen>>

\* ... and of release_txn, when the sandbox is destroyed.
KillDrain == /\ CallStep("open", "killLog")
             /\ Drain
             /\ outcome' = [outcome EXCEPT ![txn] = "killed"]
             /\ UNCHANGED <<stamp, ledger, txn, accepted, sealedIn, world>>

DropLog == /\ drained # <<>>
           /\ CallStep("dropLog", "dropLog") \/ CallStep("killLog", "killLog")
           /\ Journal("dropped", Head(drained), txn)
           /\ drained' = Tail(drained)
           /\ UNCHANGED <<gateState, stamp, txn, seen>>

Dropped == /\ drained = <<>>
           /\ CallStep("dropLog", "abortEnd") \/ CallStep("killLog", "killEnd")
           /\ UNCHANGED <<gateState, stamp, ledger, txn, drained, seen>>

Caller == /\ \/ BeginStamp \/ BeginSession \/ CommitDrain \/ FlushSend \/ FlushLog
             \/ Flushed \/ EndSession \/ ClearTxn \/ AbortCheck \/ AbortFails
             \/ AbortDrain \/ KillDrain \/ DropLog \/ Dropped
          /\ UNCHANGED <<proxyState, crashes>>

-----------------------------------------------------------------------------
(* A connection of the egress proxy that carries a mutating request. *)

ProxyStep(w, from, to) == xpc[w] = from /\ xpc' = [xpc EXCEPT ![w] = to]

\* decide_write and decide_opaque; whether a rule lists the endpoint, what it
\* says and on_unlisted leave all but sealing open under "defer".
Decisions(w) ==
    CASE session = NoTxn -> {"pass"}
      [] session # NoTxn /\ w \in Opaque ->
            {IF OpaqueEffects = "allow" THEN "pass" ELSE OpaqueEffects}
      [] OTHER -> CASE policy = "allow" -> {"pass"}
                    [] policy = "defer" -> {"defer", "pass", "reject"}
                    [] OTHER -> {policy}

DecidePass(w) == /\ "pass" \in Decisions(w)
                 /\ ProxyStep(w, "new", "send")
                 /\ UNCHANGED <<gateState, ledger, decidedIn, seen>>

DecideReject(w) == /\ "reject" \in Decisions(w)
                   /\ ProxyStep(w, "new", "rejected")
                   /\ UNCHANGED <<gateState, ledger, decidedIn, seen>>

DecideSeal(w) == /\ "seal" \in Decisions(w)
                 /\ ProxyStep(w, "new", "send")
                 /\ sealed' = TRUE
                 /\ sealedIn' = [sealedIn EXCEPT ![w] = session]
                 /\ UNCHANGED <<session, policy, queue, ledger, decidedIn, outcome,
                                accepted, world>>

DecideDefer(w) == /\ "defer" \in Decisions(w)
                  /\ ProxyStep(w, "new", "queueing")
                  /\ decidedIn' = [decidedIn EXCEPT ![w] = session]
                  /\ UNCHANGED <<gateState, ledger, seen>>

\* The upstream connection carries the write, or cannot be opened.
Forward(w) == /\ ProxyStep(w, "send", "over")
              /\ world' = Append(world, w) \/ UNCHANGED world
              /\ UNCHANGED <<gateState, ledger, decidedIn, outcome, accepted, sealedIn>>

\* The body is read, then the write is queued in the session armed by now.
Enqueue(w) == /\ session # NoTxn /\ Len(queue) < MaxQueue
              /\ ProxyStep(w, "queueing", "queued")
              /\ queue' = Append(queue, w)
              /\ accepted' = Append(accepted, [write |-> w, txn |-> session])
              /\ UNCHANGED <<session, policy, sealed, ledger, decidedIn, outcome,
                             sealedIn, world>>

\* The body is unqueueable (incomplete, or over a byte limit), the session is
\* closed, or the queue is full: 503.
Refuse(w) == /\ ProxyStep(w, "queueing", "rejected")
             /\ UNCHANGED <<gateState, ledger, decidedIn, seen>>

\* The 202 and its row, with the stamp the journal has by now ...
LogDeferred(w) == /\ ProxyStep(w, "queued", "deferred")
                  /\ Journal("deferred", w, stamp)
                  /\ UNCHANGED <<gateState, decidedIn, seen>>

\* ... or the client has gone: the row then says nothing of an effect.
LoseAnswer(w) == /\ ProxyStep(w, "queued", "over")
                 /\ UNCHANGED <<gateState, ledger, decidedIn, seen>>

Proxy(w) == /\ kpc # "down"
            /\ \/ DecidePass(w) \/ DecideReject(w) \/ DecideSeal(w) \/ DecideDefer(w)
               \/ Forward(w) \/ Enqueue(w) \/ Refuse(w) \/ LogDeferred(w) \/ LoseAnswer(w)
            /\ UNCHANGED <<stamp, callState, crashes>>

-----------------------------------------------------------------------------
(* The daemon dies and starts again. *)

Crash == /\ kpc \notin {"down", "dead"} /\ crashes < MaxCrashes
         /\ crashes' = crashes + 1
         /\ kpc' = "down"
         /\ session' = NoTxn /\ policy' = "allow" /\ sealed' = FALSE /\ queue' = <<>>
         /\ stamp' = NoTxn /\ drained' = <<>>
         /\ xpc' = [w \in Writes |-> IF xpc[w] \in {"send", "queueing", "queued"}
                                       THEN "over" ELSE xpc[w]]
         /\ UNCHANGED <<ledger, txn, decidedIn, seen>>

\* backfill_lost_effects: the deferred rows of t beyond its recorded outcomes.
RowsOf(t, effects) == {i \in DOMAIN ledger : ledger[i].txn = t /\ ledger[i].effect \in effects}

Orphans(t) == {i \in RowsOf(t, {"deferred"}) :
                 Cardinality(RowsOf(t, {"deferred"}) \cap 1..i) > Cardinality(RowsOf(t, Terminal))}

Unsettled == {t \in {NoTxn} \cup TxnIds : Orphans(t) # {}}

Backfill == /\ kpc = "down"
            /\ \E t \in Unsettled : \E i \in Orphans(t) :
                  /\ \A j \in Orphans(t) : i <= j
                  /\ Journal("lost", ledger[i].write, t)
            /\ UNCHANGED <<gateState, stamp, callState, proxyState, crashes, seen>>

Restart == /\ Unsettled = {}
           /\ CallStep("down", "idle")
           /\ UNCHANGED <<gateState, stamp, ledger, txn, drained, proxyState, crashes,
                          seen>>

ENext == \/ Caller
         \/ \E w \in Writes : Proxy(w)
         \/ Crash \/ Backfill \/ Restart

ESpec == EInit /\ [][ENext]_evars

-----------------------------------------------------------------------------
\* The types; the queue respects max_queue_entries (EffectGate.enqueue), and the
\* ledger holds only effects that its readers know.
ETypeOK == /\ session \in {NoTxn} \cup TxnIds /\ policy \in Policies
           /\ sealed \in BOOLEAN
           /\ queue \in Seq(Writes) /\ Len(queue) <= MaxQueue
           /\ stamp \in {NoTxn} \cup TxnIds
           /\ ledger \in Seq(Row)
           /\ kpc \in CallPc /\ txn \in {NoTxn} \cup TxnIds /\ drained \in Seq(Writes)
           /\ xpc \in [Writes -> ProxyPc]
           /\ decidedIn \in [Writes -> {NoTxn} \cup TxnIds]
           /\ crashes \in 0..MaxCrashes
           /\ outcome \in [TxnIds -> {"none", "open", "committed", "aborted", "killed"}]
           /\ accepted \in Seq([write : Writes, txn : TxnIds])
           /\ sealedIn \in [Writes -> {NoTxn} \cup TxnIds]
           /\ world \in Seq(Writes)

\* A write that was queued leaves the host only after the transaction whose
\* session queued it has committed, and a write that was answered 503 never does:
\* an abort, a teardown, a crash or an enqueue that races the drain lets none out.
DeferredOnlyIfCommitted ==
    /\ \A i \in 1..Len(accepted) :
          Contains(world, accepted[i].write) => outcome[accepted[i].txn] = "committed"
    /\ \A w \in Writes : xpc[w] = "rejected" => ~Contains(world, w)

\* No write leaves the host twice, though the proxy, the drain and the flush hand
\* it on outside any common lock and a flush that failed may have sent it.
SentAtMostOnce == IsInjective(world)

\* Deferred writes leave the host in the order in which they were queued, also
\* across the transactions of a sandbox.
FlushedInOrder ==
    \A a, b \in DOMAIN world, i, j \in DOMAIN accepted :
        a < b /\ accepted[i].write = world[a] /\ accepted[j].write = world[b] => i < j

\* "Under defer it returns 202 and fires at commit": once the commit of a
\* transaction is over, each write it answered 202 for has been sent or has failed.
AcceptedFires ==
    \A i \in 1..Len(accepted) :
        LET w == accepted[i].write
            t == accepted[i].txn
        IN  xpc[w] = "deferred" /\ outcome[t] = "committed" /\ session # t
              => \E j \in 1..Len(ledger) :
                    ledger[j].write = w /\ ledger[j].effect \in {"flushed", "flush_failed"}

\* "The session closed between the decision and the enqueue ... the write was NOT
\* queued": a write is never queued for a transaction other than the one whose
\* session decided to defer it.
QueuedForItsTxn ==
    \A i \in 1..Len(accepted) : accepted[i].txn = decidedIn[accepted[i].write]

\* "Startup appends a terminal lost row for every deferred write that has no
\* outcome yet": when the daemon is up again, each deferred row has an outcome.
EveryPendingSettled ==
    [][Restart => \A i \in 1..Len(ledger) : ledger[i].effect = "deferred" =>
          \E j \in 1..Len(ledger) : /\ ledger[j].write = ledger[i].write
                                    /\ ledger[j].effect \in Terminal]_evars

\* "Abort refused: under seal this txn already sent a mutating request": a
\* transaction whose seal has let a write out does not become aborted after that.
SealedNotAborted ==
    [][\A w \in Writes : LET t == sealedIn[w] IN
          t # NoTxn /\ outcome[t] = "open" => outcome'[t] # "aborted"]_evars

\* "Any deferred row beyond the recorded outcomes never fired": a write the
\* ledger calls lost has not left the host.  Not so when the daemon dies between
\* sending a write and recording it.
LostNeverFired ==
    \A i \in 1..Len(ledger) : ledger[i].effect = "lost" => ~Contains(world, ledger[i].write)

\* Committing sends each deferred write at most once and in the order the
\* proxy queued them.
SentOnceInOrder == ETypeOK /\ SentAtMostOnce /\ FlushedInOrder

-----------------------------------------------------------------------------
(***************************************************************************)
(* ActionJournal (crab/journal.py): the append-only file of one sandbox,   *)
(* written by processes that crash, or whose write fails, in the middle of *)
(* a line, and read back with malformed lines skipped.                     *)
(*                                                                         *)
(* A line is the record it holds or Malformed.  What a torn write left     *)
(* after the last newline is tail: a piece of a record, or all of it but   *)
(* the newline.  The next append continues that line, and a line of two    *)
(* pieces is not JSON.  The lock of the journal makes one append at a time *)
(* per process, and flock makes the write one step, but the number of the  *)
(* record is taken before and the counter moved after it.  The stamp of    *)
(* the open transaction is in Effects.                                     *)
(***************************************************************************)

CONSTANTS Processes,   \* the processes that have the journal open
          MaxAppends,  \* bound: records
          MaxTears     \* bound: crashes and failed writes

ASSUME JournalAssumption == MaxAppends \in Nat /\ MaxTears \in Nat

VARIABLES lines,     \* the complete lines of the file
          tail,      \* what follows the last newline
          nextSeq,   \* _next_seq in each process: a set, empty when not cached
          pc, new,   \* where the append of each process is, and its record
          returned,  \* history: the records whose append returned
          tears,     \* history: crashes and failed writes
          ids        \* records made so far

jvars == <<lines, tail, nextSeq, pc, new, returned, tears, ids>>

Record == [id : 1..MaxAppends, seq : 0..MaxAppends]
Malformed == [id |-> 0, seq |-> 0]
Nothing == <<>>
Piece == <<Malformed>>

JInit == /\ lines = <<>> /\ tail = Nothing
         /\ nextSeq = [p \in Processes |-> {}]
         /\ pc = [p \in Processes |-> "idle"] /\ new = [p \in Processes |-> Malformed]
         /\ returned = {} /\ tears = 0 /\ ids = 0

\* entries: the well-formed lines, in the order of the file.  The last line
\* needs no newline to be read.
Readable(file) == SelectSeq(file, LAMBDA line : line # Malformed)
entries == Readable(lines \o tail)

-----------------------------------------------------------------------------
(* _append *)

\* Mutant: the counter is recovered as the number of readable lines.
CountLines(p) == IF nextSeq[p] # {} THEN CHOOSE n \in nextSeq[p] : TRUE
                 ELSE Len(entries)

\* _resolve_next_seq: the cached counter, or one more than the last good line.
ResolveNextSeq(p) == IF nextSeq[p] # {} THEN CHOOSE n \in nextSeq[p] : TRUE
                     ELSE IF entries = <<>> THEN 0 ELSE Last(entries).seq + 1

TakeNumber(p) == /\ pc[p] = "idle" /\ ids < MaxAppends
                 /\ pc' = [pc EXCEPT ![p] = "write"]
                 /\ new' = [new EXCEPT ![p] = [id |-> ids + 1, seq |-> ResolveNextSeq(p)]]
                 /\ ids' = ids + 1
                 /\ UNCHANGED <<lines, tail, nextSeq, returned, tears>>

\* The whole line goes out, after whatever was left of a torn one.
WriteLine(p) == /\ pc[p] = "write"
                /\ lines' = Append(lines, IF tail = Nothing THEN new[p] ELSE Malformed)
                /\ tail' = Nothing
                /\ pc' = [pc EXCEPT ![p] = "bump"]
                /\ UNCHANGED <<nextSeq, new, returned, tears, ids>>

\* The counter is cached after the write.
BumpSeq(p) == /\ pc[p] = "bump"
              /\ pc' = [pc EXCEPT ![p] = "idle"]
              /\ nextSeq' = [nextSeq EXCEPT ![p] = {new[p].seq + 1}]
              /\ returned' = returned \cup {new[p]}
              /\ UNCHANGED <<lines, tail, new, tears, ids>>

\* os.write stops part of the way: at a piece, or short of the newline only.
Torn(p) == tail' \in IF tail = Nothing THEN {Piece, <<new[p]>>} ELSE {Piece}

\* The write raises (no space, say): the counter stays where it was.
WriteFails(p) == /\ pc[p] = "write" /\ tears < MaxTears
                 /\ Torn(p) \/ UNCHANGED tail
                 /\ pc' = [pc EXCEPT ![p] = "idle"]
                 /\ tears' = tears + 1
                 /\ UNCHANGED <<lines, nextSeq, new, returned, ids>>

\* The process dies and comes back with nothing cached.
WriterDies(p) == /\ tears < MaxTears
                 /\ (pc[p] = "write" /\ Torn(p)) \/ UNCHANGED tail
                 /\ pc' = [pc EXCEPT ![p] = "idle"]
                 /\ nextSeq' = [nextSeq EXCEPT ![p] = {}]
                 /\ tears' = tears + 1
                 /\ UNCHANGED <<lines, new, returned, ids>>

JNext == \E p \in Processes : \/ TakeNumber(p) \/ WriteLine(p) \/ BumpSeq(p)
                              \/ WriteFails(p) \/ WriterDies(p)

JSpec == JInit /\ [][JNext]_jvars

-----------------------------------------------------------------------------
\* The types; the counter never runs ahead of the appends that were begun
\* (_append moves it by one, after the write).
JTypeOK == /\ lines \in Seq(Record \cup {Malformed})
           /\ tail = Nothing \/ \E r \in Record \cup {Malformed} : tail = <<r>>
           /\ \A p \in Processes : \/ nextSeq[p] = {}
                                   \/ \E n \in 0..MaxAppends : nextSeq[p] = {n}
           /\ pc \in [Processes -> {"idle", "write", "bump"}]
           /\ new \in [Processes -> Record \cup {Malformed}]
           /\ returned \subseteq Record
           /\ tears \in 0..MaxTears /\ ids \in 0..MaxAppends

\* The comment in _resolve_next_seq: "appends across process restarts stay
\* monotonic".  In the order of the file the readable records have strictly
\* increasing numbers, so since_seq never hides a later record behind an earlier.
SeqMonotonic == \A i, j \in DOMAIN entries : i < j => entries[i].seq < entries[j].seq

\* A record whose append returned is missing from entries only if a torn write
\* preceded it, and each crash or failed write costs at most one such record:
\* the first append after it ends the damaged line.
OneLostPerTear == Cardinality(returned \ ToSet(entries)) <= tears

\* What readers of the journal rely on across crashes: numbers grow along the
\* file, and a torn write costs one record at most.
JournalIsSound == JTypeOK /\ SeqMonotonic /\ OneLostPerTear
=============================================================================
