---------------------------- MODULE Transactions ----------------------------
(***************************************************************************)
(* Snapshot transactions of one sandbox (begin_txn, commit_txn, abort_txn, *)
(* release_txn in crab/system.py) against the response gate and against    *)
(* filesystem merges.  A transaction stages the gated responses of its     *)
(* sandbox: they are held until it commits and dropped when it aborts.     *)
(*                                                                         *)
(* Callers are the threads that serve the transaction API; nothing         *)
(* serialises them but the registry's reservation.  Each acquisition of a  *)
(* lock is a step.  Coordination and manual checkpoints appear as the      *)
(* releases they ask of the gate, at any time (OtherRelease).  The effect  *)
(* sessions of a transaction are modelled in Effects.                      *)
(***************************************************************************)
EXTENDS Interceptor

CONSTANTS Callers,   \* threads serving begin, commit, abort and kill
          MaxTxns    \* bound on the transactions ever begun

ASSUME CallersAssumption == Callers # {} /\ MaxTxns \in Nat

VARIABLES registered,  \* the sandbox's entry in _active_txns
          killed,      \* the sandbox is being or has been torn down
          serial,      \* transaction ids minted so far (new_txn_id)
          merging,     \* the sandbox is in _active_merges
          cpc,         \* where each caller is
          cid,         \* the transaction its call is about
          creq,        \* what checkpoint_once captured for the base
          gpc,         \* where the merging thread is
          owner,       \* history: the transaction that armed staging last
          scope,       \* history: the transaction each request was armed in
          discarded    \* history: the generations discard_staged has dropped

callVars == <<cpc, cid, creq>>
txnVars == <<registered, serial, killed>>
mergeVars == <<merging, gpc>>
history == <<owner, scope, discarded>>
tvars == <<vars, callVars, txnVars, mergeVars, history>>

\* _active_txns holds no entry, the None of a begin in flight, or a description.
Absent == -1
Reserved == 0
TxnIds == 1..MaxTxns

BeginPc == {"base", "basing", "stage", "register", "effects"}
ResolvePc == {"commitRelease", "commitFlush", "commitEnd", "commitClear",
              "abortRelease", "abortDiscard", "abortRestore", "abortEnd",
              "abortClear"}
KillPc == {"killRelease", "killDiscard", "killEnd"}
CallerPc == {"idle", "mergeCheck", "unreserve"} \cup BeginPc \cup ResolvePc
                \cup KillPc

\* The gate is enabled (CrabSystem.start has run) and no transaction is open.
TInit == /\ enabled = TRUE /\ GateEmpty /\ HandlerInit
         /\ registered = Absent /\ serial = 0 /\ killed = FALSE
         /\ merging = FALSE /\ gpc = "idle"
         /\ cpc = [c \in Callers |-> "idle"] /\ cid = [c \in Callers |-> 0]
         /\ creq = [c \in Callers |-> {}]
         /\ owner = 0 /\ scope = [r \in Requests |-> 0] /\ discarded = {}

CallGoto(c, from, to) == cpc[c] = from /\ cpc' = [cpc EXCEPT ![c] = to]

-----------------------------------------------------------------------------
(* begin_txn *)

\* The reservation: a second begin is refused while there is an entry.
Reserve(c) == /\ registered = Absent
              /\ serial < MaxTxns
              /\ CallGoto(c, "idle", "mergeCheck")
              /\ registered' = Reserved
              /\ serial' = serial + 1
              /\ cid' = [cid EXCEPT ![c] = serial + 1]
              /\ UNCHANGED <<gateVars, creq, killed, history>>

\* Mutant: begin_txn does not look for a merge.
CheckNoMerge(c) == /\ CallGoto(c, "mergeCheck", "base")
                   /\ UNCHANGED <<gateVars, cid, creq, txnVars, history>>

CheckMerge(c) == /\ CallGoto(c, "mergeCheck", IF merging THEN "unreserve" ELSE "base")
                 /\ UNCHANGED <<gateVars, cid, creq, txnVars, history>>

\* Nothing changed since the newest full checkpoint: it is the base.
ReuseBase(c) == /\ ~killed
                /\ CallGoto(c, "base", "stage")
                /\ UNCHANGED <<gateVars, cid, creq, txnVars, history>>

\* checkpoint_once captures the oldest pending request, if there is one ...
TakeBase(c) == /\ CallGoto(c, "base", "basing")
               /\ creq' = [creq EXCEPT ![c] = {e \in pending : Oldest(e)}]
               /\ UNCHANGED <<gateVars, cid, txnVars, history>>

\* ... and releases it in the end, or everything when there was none.  The
\* checkpoint may have failed, and of a dead sandbox it does.
BaseDone(c) == /\ \/ ~killed /\ CallGoto(c, "basing", "stage")
                  \/ CallGoto(c, "basing", "unreserve")
               /\ \/ creq[c] = {} /\ ReleaseAll
                  \/ \E e \in creq[c] : ReleasePending(e.primary, e.gen)
               /\ creq' = [creq EXCEPT ![c] = {}]
               /\ UNCHANGED <<cid, txnVars, history>>

Stage(c) == /\ CallGoto(c, "stage", "register")
            /\ BeginStaging
            /\ owner' = cid[c]
            /\ UNCHANGED <<cid, creq, txnVars, scope, discarded>>

Register(c) == /\ CallGoto(c, "register", "effects")
               /\ registered' = cid[c]
               /\ UNCHANGED <<gateVars, cid, creq, serial, killed, history>>

\* _arm_effect_session refuses a bad on_unlisted, opaque_effects or rule.
ArmEffects(c) == /\ \/ CallGoto(c, "effects", "idle")
                    \/ CallGoto(c, "effects", "unreserve")
                 /\ UNCHANGED <<gateVars, cid, creq, txnVars, history>>

\* begin_txn's except clause: pop the entry, and nothing else.
Unreserve(c) == /\ CallGoto(c, "unreserve", "idle")
                /\ registered' = Absent
                /\ UNCHANGED <<gateVars, cid, creq, serial, killed, history>>

BeginTxn(c) == \/ Reserve(c) \/ CheckMerge(c) \/ ReuseBase(c) \/ TakeBase(c)
               \/ BaseDone(c) \/ Stage(c) \/ Register(c) \/ ArmEffects(c)
               \/ Unreserve(c)

-----------------------------------------------------------------------------
(* commit_txn, abort_txn and release_txn *)

\* _require_txn: the given id is the registered one at this moment.
Require(c) == /\ registered \in TxnIds
              /\ \/ CallGoto(c, "idle", "commitRelease")
                 \/ CallGoto(c, "idle", "abortRelease")
              /\ cid' = [cid EXCEPT ![c] = registered]
              /\ UNCHANGED <<gateVars, creq, txnVars, history>>

\* release_txn, called when the sandbox is killed: the entry is popped first,
\* and so is the reservation of a begin in flight.
Kill(c) == /\ ~killed
           /\ killed' = TRUE
           /\ CallGoto(c, "idle", IF registered \in TxnIds THEN "killRelease" ELSE "idle")
           /\ cid' = [cid EXCEPT ![c] = IF registered \in TxnIds THEN registered ELSE @]
           /\ registered' = Absent
           /\ UNCHANGED <<gateVars, creq, serial, history>>

ReleaseHeld(c) == /\ \/ CallGoto(c, "commitRelease", "commitFlush")
                     \/ CallGoto(c, "abortRelease", "abortDiscard")
                     \/ CallGoto(c, "killRelease", "killDiscard")
                  /\ ReleaseAll
                  /\ UNCHANGED <<cid, creq, txnVars, history>>

FlushStaged(c) == /\ CallGoto(c, "commitFlush", "commitEnd")
                  /\ ReleaseStaged
                  /\ UNCHANGED <<cid, creq, txnVars, history>>

DropStaged(c) == /\ \/ CallGoto(c, "abortDiscard", "abortRestore")
                    \/ CallGoto(c, "killDiscard", "killEnd")
                 /\ DiscardStaged
                 /\ discarded' = discarded \cup staged
                 /\ UNCHANGED <<cid, creq, txnVars, owner, scope>>

\* A failed restore leaves the transaction open; the abort may be retried.
RestoreBase(c) == /\ \/ CallGoto(c, "abortRestore", "abortEnd")
                     \/ CallGoto(c, "abortRestore", "idle")
                  /\ UNCHANGED <<gateVars, cid, creq, txnVars, history>>

Disarm(c) == /\ \/ CallGoto(c, "commitEnd", "commitClear")
                \/ CallGoto(c, "abortEnd", "abortClear")
                \/ CallGoto(c, "killEnd", "idle")
             /\ EndStaging
             /\ UNCHANGED <<cid, creq, txnVars, history>>

\* _clear_txn pops whatever entry is there.
ClearTxn(c) == /\ \/ CallGoto(c, "commitClear", "idle")
                  \/ CallGoto(c, "abortClear", "idle")
               /\ registered' = Absent
               /\ UNCHANGED <<gateVars, cid, creq, serial, killed, history>>

ResolveTxn(c) == \/ Require(c) \/ Kill(c) \/ ReleaseHeld(c) \/ FlushStaged(c)
                 \/ DropStaged(c) \/ RestoreBase(c) \/ Disarm(c) \/ ClearTxn(c)

-----------------------------------------------------------------------------
(* merge_from_fork, as far as it excludes transactions. *)

MergeGoto(from, to) == gpc = from /\ gpc' = to

EnterMerge == MergeGoto("idle", "txnCheck") /\ ~merging /\ merging' = TRUE

CheckTxn == /\ MergeGoto("txnCheck", IF registered = Absent THEN "window" ELSE "leave")
            /\ UNCHANGED merging

CloseWindow == MergeGoto("window", "leave") /\ UNCHANGED merging

LeaveMerge == MergeGoto("leave", "idle") /\ merging' = FALSE

Merge == EnterMerge \/ CheckTxn \/ CloseWindow \/ LeaveMerge

-----------------------------------------------------------------------------
\* A handler step; the history records the transaction a request is armed in.
THandler(r) == /\ HandlerStep(r)
               /\ scope' = IF pc[r] = "started" /\ staging
                             THEN [scope EXCEPT ![r] = owner] ELSE scope
               /\ UNCHANGED <<callVars, txnVars, mergeVars, owner, discarded>>

\* A coordination pass that was under way, or a manual checkpoint.
OtherRelease == /\ \/ \E e \in pending : ReleasePending(e.primary, e.gen)
                   \/ ReleaseAll
                /\ UNCHANGED <<handlerVars, callVars, txnVars, mergeVars, history>>

TNext == \/ \E r \in Requests : THandler(r)
         \/ \E c \in Callers : /\ BeginTxn(c) \/ ResolveTxn(c)
                               /\ UNCHANGED <<handlerVars, mergeVars>>
         \/ Merge /\ UNCHANGED <<vars, callVars, txnVars, history>>
         \/ OtherRelease

TSpec == TInit /\ [][TNext]_tvars

-----------------------------------------------------------------------------
\* The types of _active_txns, of the merge window and of the callers' local
\* state; a teardown works on a transaction that was registered (release_txn).
TTypeOK == /\ TypeOK
           /\ registered \in {Absent, Reserved} \cup TxnIds
           /\ serial \in 0..MaxTxns /\ killed \in BOOLEAN
           /\ merging \in BOOLEAN /\ gpc \in {"idle", "txnCheck", "window", "leave"}
           /\ cpc \in [Callers -> CallerPc]
           /\ cid \in [Callers -> 0..MaxTxns]
           /\ creq \in [Callers -> SUBSET Entry]
           /\ owner \in 0..MaxTxns
           /\ scope \in [Requests -> 0..MaxTxns]
           /\ discarded \subseteq Nat

\* The transaction is open and nobody has begun to resolve it.
Open(t) == /\ registered = t
           /\ \A c \in Callers : cid[c] = t => cpc[c] \notin ResolvePc

\* "Nothing gated escapes an uncommitted transaction": while a transaction is
\* open, no response whose request was gated inside it has passed the gate with
\* DELIVER, whatever coordination passes and manual checkpoints release.
NothingEscapesOpenTxn ==
    \A r \in Requests :
        gen[r] # None /\ scope[r] \in TxnIds /\ Open(scope[r])
            => disposition[r] # "deliver"

\* A begin that got past its check and a merge that got past its own never run
\* together, though each enters its own registry first and checks the other's
\* without a common lock.
TxnMergeExclusion ==
    gpc = "window" => /\ registered \notin TxnIds
                      /\ \A c \in Callers : cpc[c] \notin BeginPc \cup ResolvePc

\* abort_txn wakes its staged waiters with DROP, and the markers stay for the
\* late ones: a generation that was discarded is never delivered.
DiscardedNeverDelivered ==
    \A r \in Requests : gen[r] \in discarded => disposition[r] # "deliver"

\* Staging is armed only on behalf of a transaction: one that is registered, or
\* one whose begin, resolution or teardown is still under way.  Otherwise every
\* release parks its response and nobody is left to deliver it.
StagingHasOwner ==
    staging => \/ registered \in TxnIds
               \/ \E c \in Callers : cpc[c] \in BeginPc \cup ResolvePc \cup KillPc
=============================================================================
