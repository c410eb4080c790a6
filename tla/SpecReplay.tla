----------------------------- MODULE SpecReplay -----------------------------
(***************************************************************************)
(* The replay services of speculating agents (mini_swe_spec_trace_replay,  *)
(* terminus_spec_trace_replay), their router and the requests of a turn.   *)
(* A turn asks twice with one pair id: the oracle answers with the next    *)
(* recorded step, the draft with its own next step, altered when the       *)
(* service decides that the draft model got it wrong.  The agent runs the  *)
(* draft on a fork; when the oracle agrees, the router copies the service  *)
(* state of the active sandbox to the fork's, which becomes the active one. *)
(***************************************************************************)
EXTENDS Integers, Sequences, FiniteSets, FiniteSetsExt

CONSTANTS Commands,   \* commands of one kind, what a trace may hold
          Fallback,   \* _fallback_command_for_bucket of that kind
          SpecLen,    \* steps of the trace
          MaxBoxes,   \* bound: sandboxes registered
          MaxDups     \* bound: requests that arrive twice

ASSUME SpecReplayAssumption ==
    SpecLen \in Nat \ {0} /\ MaxBoxes \in Nat \ {0} /\ MaxDups \in Nat /\ Fallback \in Commands

Index == 0..(SpecLen - 1)
BoxIds == 1..MaxBoxes
Roles == {"draft", "oracle"}

VARIABLES
    recorded, \* the trace: the command of each step; the last one submits
    right,    \* _draft_decision: the draft model got the step right
    svc,      \* of each sandbox: the registered service, Unregistered
    abox,     \* the agent's sandbox
    forkbox,  \* the fork's, 0: none
    nbox,     \* sandbox ids given
    spc,      \* the agent: "idle", "race", "fork", "done", "failed"
    sturn,    \* turns taken
    pend,     \* futures of a turn not run yet: [role, pair]
    wire,     \* requests on their way: [role, pair, to]
    got,      \* answers to the current pair: role -> [index, text], Waiting, Failed
    dups,     \* requests that arrived twice
    oracled,  \* the oracle answers the agent went by
    skewed    \* history: a draft of another turn's step was promoted

srvars == <<recorded, right, svc, abox, forkbox, nbox, spc, sturn, pend, wire, got, dups, oracled, skewed>>

Unregistered == [oc |-> -1, dc |-> -1, acc |-> 0, rej |-> 0, cache |-> {}]
Registered == [oc |-> 0, dc |-> 0, acc |-> 0, rej |-> 0, cache |-> {}]
Waiting == [index |-> -1, text |-> Fallback]
Failed == [index |-> -2, text |-> Fallback]

SRInit ==
    /\ recorded \in [Index -> Commands] /\ right \in [Index -> BOOLEAN] /\ right[SpecLen - 1]
    /\ svc = [b \in BoxIds |-> IF b = 1 THEN Registered ELSE Unregistered]
    /\ abox = 1 /\ nbox = 1 /\ forkbox = 0 /\ spc = "idle" /\ sturn = 0
    /\ pend = {} /\ wire = {} /\ got = [r \in Roles |-> Waiting]
    /\ dups = 0 /\ oracled = <<>> /\ skewed = FALSE

-----------------------------------------------------------------------------
(* The services.                                                           *)

\* _replacement_command: another command of the same kind in the trace, in
\* the trace's order, else the kind's fallback; "pwd" when that is the
\* command itself, which for the kind of "pwd" is the command again.
Others(i) == {j \in Index : j # i /\ recorded[j] # recorded[i]}
Replacement(i) == IF Others(i) # {} THEN recorded[Min(Others(i))] ELSE Fallback

\* _build_response_locked.  The answer and the service after it.
Exhausted(s, role) == (IF role = "oracle" THEN s.oc ELSE s.dc) >= SpecLen

Built(s, role) ==
    IF role = "oracle" THEN [index |-> s.oc, text |-> recorded[s.oc]]
    ELSE [index |-> s.dc, text |-> IF right[s.dc] THEN recorded[s.dc] ELSE Replacement(s.dc)]

Advanced(s, role, pair) ==
    LET kept == s.cache \union {[role |-> role, pair |-> pair, reply |-> Built(s, role)]} IN
    IF role = "oracle" THEN [s EXCEPT !.oc = @ + 1, !.cache = kept]
    ELSE [s EXCEPT !.dc = @ + 1, !.cache = kept,
                   !.acc = IF right[s.dc] THEN @ + 1 ELSE @,
                   !.rej = IF right[s.dc] THEN @ ELSE @ + 1]

Cached(s, role, pair) == {c \in s.cache : c.role = role /\ c.pair = pair}

\* The agent takes an answer to its current pair, the first one that comes.
Receive(r, answer) ==
    got' = IF r.pair = sturn + 1 /\ spc \in {"race", "fork"} /\ got[r.role] = Waiting
           THEN [got EXCEPT ![r.role] = answer] ELSE got

\* handle_request of the router and of the service: a pair that was answered
\* gets the same answer again; an unknown sandbox or an exhausted trace is an
\* error.
Handle(r) ==
    LET s == svc[r.to] IN
    CASE s = Unregistered -> Receive(r, Failed) /\ UNCHANGED svc
      [] s # Unregistered /\ Cached(s, r.role, r.pair) # {} ->
           /\ \E c \in Cached(s, r.role, r.pair) : Receive(r, c.reply)
           /\ UNCHANGED svc
      [] OTHER ->
           IF Exhausted(s, r.role) THEN Receive(r, Failed) /\ UNCHANGED svc
           ELSE /\ Receive(r, Built(s, r.role))
                /\ svc' = [svc EXCEPT ![r.to] = Advanced(s, r.role, r.pair)]

ServeSpec(r) ==
    /\ r \in wire /\ wire' = wire \ {r}
    /\ Handle(r)
    /\ UNCHANGED <<recorded, right, abox, forkbox, nbox, spc, sturn, pend, dups, oracled, skewed>>

\* A request arrives a second time while its turn lasts.
ServeTwice(role) ==
    /\ spc \in {"race", "fork"} /\ got[role].index >= 0 /\ dups < MaxDups
    /\ dups' = dups + 1
    /\ Handle([role |-> role, pair |-> sturn + 1, to |-> abox])
    /\ UNCHANGED <<recorded, right, abox, forkbox, nbox, spc, sturn, pend, wire, oracled, skewed>>

-----------------------------------------------------------------------------
(* The agent's turn.                                                       *)

\* _spec_perform_step: both requests are handed to the pool.
StartTurn ==
    /\ spc = "idle" /\ sturn < SpecLen
    /\ spc' = "race" /\ got' = [r \in Roles |-> Waiting]
    /\ pend' = pend \union {[role |-> r, pair |-> sturn + 1] : r \in Roles}
    /\ UNCHANGED <<recorded, right, svc, abox, forkbox, nbox, sturn, wire, dups, oracled, skewed>>

\* _request_assistant_turn on a pool thread: the request carries the sandbox
\* the agent has by then.
Send(p) ==
    /\ p \in pend
    /\ pend' = pend \ {p} /\ wire' = wire \union {[role |-> p.role, pair |-> p.pair, to |-> abox]}
    /\ UNCHANGED <<recorded, right, svc, abox, forkbox, nbox, spc, sturn, got, dups, oracled, skewed>>

\* A request that takes too long fails at the agent; it is served all the same.
Timeout(r) ==
    /\ spc \in {"race", "fork"} /\ got[r] = Waiting /\ dups < MaxDups
    /\ got' = [got EXCEPT ![r] = Failed] /\ dups' = dups + 1
    /\ UNCHANGED <<recorded, right, svc, abox, forkbox, nbox, spc, sturn, pend, wire, oracled, skewed>>

\* The turn goes by the oracle's answer and leaves the draft behind.
GoByOracle ==
    /\ oracled' = Append(oracled, got["oracle"].index)
    /\ sturn' = sturn + 1
    /\ spc' = IF sturn' = SpecLen THEN "done" ELSE "idle"

\* destroy_sandbox_dataset of the fork, which unregisters it.
DropFork ==
    /\ svc' = [b \in BoxIds |-> IF b = forkbox THEN Unregistered ELSE svc[b]]
    /\ forkbox' = 0

\* The oracle is first, or the draft failed, or no fork was ready, and the
\* oracle has answered: _invalidate_speculative_fork.
WithoutDraft ==
    /\ spc = "race" /\ got["oracle"].index >= 0
    /\ GoByOracle /\ DropFork
    /\ UNCHANGED <<recorded, right, abox, nbox, pend, wire, got, dups, skewed>>

OracleFails ==
    /\ spc \in {"race", "fork"} /\ got["oracle"] = Failed
    /\ spc' = "failed"
    /\ UNCHANGED <<recorded, right, svc, abox, forkbox, nbox, sturn, pend, wire, got, dups, oracled, skewed>>

\* The draft is first: it runs on a fork, the cached one or a new sandbox,
\* which is registered with the router.
RunDraft ==
    /\ spc = "race" /\ got["draft"].index >= 0 /\ got["oracle"] = Waiting
    /\ \/ forkbox # 0 /\ UNCHANGED <<forkbox, svc, nbox>>
       \/ /\ forkbox = 0 /\ nbox < MaxBoxes
          /\ nbox' = nbox + 1 /\ forkbox' = nbox'
          /\ svc' = [svc EXCEPT ![nbox'] = Registered]
    /\ spc' = "fork"
    /\ UNCHANGED <<recorded, right, abox, sturn, pend, wire, got, dups, oracled, skewed>>

\* Mutant: a promotion that registers the fork and copies no state.
CopiedNothing(s) == Registered

\* copy_sandbox_state: export_state of the source, import_state of the target.
Imported(s) == [s EXCEPT !.cache = {}]

\* promote_fork on a match; the old sandbox is kept as the next fork, or
\* released and unregistered.
PromoteDraft ==
    /\ spc = "fork" /\ got["oracle"].index >= 0 /\ got["draft"].text = got["oracle"].text
    /\ \E keep \in BOOLEAN :
        /\ svc' = [svc EXCEPT ![forkbox] = Imported(svc[abox]),
                              ![abox] = IF keep THEN @ ELSE Unregistered]
        /\ forkbox' = IF keep THEN abox ELSE 0
    /\ abox' = forkbox
    /\ skewed' = (skewed \/ got["draft"].index # got["oracle"].index)
    /\ GoByOracle
    /\ UNCHANGED <<recorded, right, nbox, pend, wire, got, dups>>

\* A mismatch, or a match whose run on the fork was interrupted: the oracle's
\* command runs on the active sandbox; the fork is kept for the next turn,
\* which an interrupted one never is, or released.
Reject ==
    /\ spc = "fork" /\ got["oracle"].index >= 0
    /\ \/ got["draft"].text # got["oracle"].text /\ UNCHANGED <<svc, forkbox>>
       \/ DropFork
    /\ GoByOracle
    /\ UNCHANGED <<recorded, right, abox, nbox, pend, wire, got, dups, skewed>>

SRNext ==
    \/ StartTurn \/ WithoutDraft \/ OracleFails \/ RunDraft \/ PromoteDraft \/ Reject
    \/ \E r \in wire : ServeSpec(r)
    \/ \E p \in pend : Send(p)
    \/ \E r \in Roles : Timeout(r) \/ ServeTwice(r)

SRSpec == SRInit /\ [][SRNext]_srvars

-----------------------------------------------------------------------------
(* Properties.                                                             *)

SRTypeOK ==
    /\ abox \in BoxIds /\ forkbox \in 0..MaxBoxes /\ forkbox # abox
    /\ spc \in {"idle", "race", "fork", "done", "failed"} /\ sturn \in 0..SpecLen
    /\ \A b \in BoxIds : svc[b].oc \in -1..SpecLen /\ svc[b].dc \in -1..SpecLen
    /\ \A r \in Roles : got[r].index \in -2..(SpecLen - 1)

\* The agent goes by the recorded answers, each once and in order, however
\* often the sandbox behind it is exchanged and however late, or twice, a
\* request of the pair arrives.
OracleInOrder == oracled = [k \in 1..sturn |-> k - 1]

\* The service of the active sandbox stands where the agent does.
ServiceStandsAtTurn ==
    svc[abox].oc = sturn + (IF \E c \in svc[abox].cache : c.role = "oracle" /\ c.pair = sturn + 1
                            THEN 1 ELSE 0)

\* Drafts that were overtaken by their oracle do no lasting harm: once they
\* have been served, the draft cursor is level with the oracle's, unless a
\* fork was promoted on the draft of another step.
DraftsCatchUp ==
    /\ svc[abox].acc + svc[abox].rej = svc[abox].dc
    /\ ~skewed /\ spc = "idle"
       /\ (\A p \in pend : p.role # "draft") /\ (\A r \in wire : r.role # "draft")
       => svc[abox].dc = sturn

\* A draft that is right is never altered and one that is wrong is, where
\* the trace has a command to put in its place.
DraftsAreDecided ==
    \A b \in BoxIds : \A c \in svc[b].cache :
        c.role = "draft" =>
            IF right[c.reply.index] THEN c.reply.text = recorded[c.reply.index]
            ELSE c.reply.text = recorded[c.reply.index] => recorded[c.reply.index] = Fallback

\* Speculation does not show in what the services answer: through late, lost and
\* repeated requests and the router's copies to promoted forks, the agent gets
\* the recorded answers in order and drafts that are wrong where they should be.
SpeculationIsFaithful == SRTypeOK /\ OracleInOrder /\ ServiceStandsAtTurn /\ DraftsCatchUp /\ DraftsAreDecided
=============================================================================
