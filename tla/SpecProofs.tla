----------------------------- MODULE SpecProofs -----------------------------
(***************************************************************************)
(* The replay services of speculating agents (SpecReplay: the services     *)
(* mini_swe_spec_trace_replay and terminus_spec_trace_replay, their router *)
(* and the agent's turn) for a trace of any length, any number of          *)
(* sandboxes and any number of late or repeated requests.  Here the        *)
(* inductive invariant, the services' states and the steps of the agent;   *)
(* ServiceProofs has the steps of the router and the theorem.              *)
(***************************************************************************)
EXTENDS SpecReplay, FiniteSetTheorems, WellFoundedInduction, TLAPS

Reply == [index : -2..(SpecLen - 1), text : Commands]
Entry == [role : Roles, pair : Nat, reply : Reply]
Service == [oc : -1..SpecLen, dc : -1..SpecLen, acc : Nat, rej : Nat, cache : SUBSET Entry]

SpecTypes ==
    /\ recorded \in [Index -> Commands] /\ right \in [Index -> BOOLEAN]
    /\ svc \in [BoxIds -> Service] /\ abox \in BoxIds /\ forkbox \in 0..MaxBoxes /\ nbox \in BoxIds
    /\ spc \in {"idle", "race", "fork", "done", "failed"} /\ sturn \in 0..SpecLen
    /\ pend \subseteq [role : Roles, pair : Nat] /\ wire \subseteq [role : Roles, pair : Nat, to : BoxIds]
    /\ got \in [Roles -> Reply] /\ dups \in Nat /\ skewed \in BOOLEAN

\* The agent's sandbox is registered, and is no fork.
BoxesApart ==
    /\ forkbox # abox /\ abox <= nbox /\ forkbox <= nbox
    /\ spc = "fork" => forkbox # 0
    /\ spc \in {"race", "fork", "failed"} => sturn < SpecLen
    /\ svc[abox].oc >= 0
    /\ \A b \in BoxIds : svc[b].oc >= 0 => svc[b].dc >= 0 /\ svc[b].acc + svc[b].rej = svc[b].dc
    /\ \A b \in BoxIds : svc[b].oc < 0 => svc[b] = Unregistered

\* Turns begun.
Begun == sturn + (IF spc \in {"race", "fork", "failed"} THEN 1 ELSE 0)

\* No request is of a turn to come, and the agent's service has answered none.
PairsBegun ==
    /\ \A p \in pend : p.pair \in 1..Begun
    /\ \A r \in wire : r.pair \in 1..Begun /\ (r.pair = sturn + 1 => r.to = abox)
    /\ \A c \in svc[abox].cache : c.pair \in 1..Begun

\* An oracle's request is of the current turn, there is one of it, and it is
\* on its way to the agent's sandbox or answered there.
OracleEntry(c) == c.role = "oracle" /\ c.pair = sturn + 1
OracleIsCurrent ==
    /\ \A p \in pend : p.role = "oracle" =>
        /\ p.pair = sturn + 1 /\ \A r \in wire : r.role # "oracle"
        /\ \A c \in svc[abox].cache : ~OracleEntry(c)
    /\ \A r \in wire : r.role = "oracle" =>
        /\ r.pair = sturn + 1 /\ r.to = abox
        /\ \A c \in svc[abox].cache : ~OracleEntry(c)
    /\ \A c \in svc[abox].cache : OracleEntry(c) => c.reply.index = sturn
    /\ spc \in {"race", "fork"} /\ got["oracle"].index >= 0 => got["oracle"].index = sturn

\* The agent holds no answer that its service would not give again.
AnswersAreCached ==
    spc \in {"race", "fork"} => \A role \in Roles : got[role].index >= 0 => Cached(svc[abox], role, sturn + 1) # {}

\* Drafts not served yet.
DraftsOut == {t \in 1..Begun : \/ \E p \in pend : p.role = "draft" /\ p.pair = t
                               \/ \E r \in wire : r.role = "draft" /\ r.pair = t}

\* Each draft is asked for once and moves the draft cursor once.
DraftsAreCounted ==
    /\ \A p \in pend, r \in wire : p.role = "draft" /\ r.role = "draft" => p.pair # r.pair
    /\ \A c \in svc[abox].cache : c.role = "draft" => c.reply.index < svc[abox].dc
    /\ spc \in {"race", "fork"} => got["draft"].index < svc[abox].dc
    /\ ~skewed =>
        /\ svc[abox].dc + Cardinality(DraftsOut) = Begun
        /\ \A r \in wire : r.role = "draft" => r.to = abox
        /\ \A c \in svc[abox].cache : c.role = "draft" => c.pair \notin DraftsOut

SpecInv == /\ SpecTypes /\ BoxesApart /\ PairsBegun /\ OracleInOrder /\ ServiceStandsAtTurn /\ OracleIsCurrent
           /\ AnswersAreCached /\ DraftsAreCounted /\ DraftsAreDecided

\* A set of indices has a least one: the first of the other commands in the trace.
LEMMA LeastIndex ==
  ASSUME NEW S \in SUBSET Nat, S # {}
  PROVE  Min(S) \in S
<1> DEFINE R == OpToRel(<, Nat)
<1>1. IsWellFoundedOn(R, Nat)
  BY NatLessThanWellFounded, Zenon
<1>2. \A x, y \in Nat : x < y => <<x, y>> \in R
  BY Zenon DEF OpToRel
<1> HIDE DEF R
<1>3. PICK x \in S : \A y \in S : ~(<<y, x>> \in R)
  BY <1>1, WFMin, Zenon
<1>4. \A y \in S : ~(y < x)
  BY <1>2, <1>3, Zenon
<1>5. \A y \in S : x =< y
  BY <1>4
<1> QED BY <1>5, Zenon DEF Min

\* _replacement_command gives another command, or the fallback of the kind.
LEMMA ReplacementOK ==
  ASSUME SpecTypes, NEW i \in Index
  PROVE  /\ Replacement(i) \in Commands
         /\ Replacement(i) = recorded[i] => recorded[i] = Fallback
<1> USE SpecReplayAssumption DEF SpecTypes
<1>1. Others(i) \in SUBSET Nat /\ Others(i) \subseteq Index
  BY DEF Others, Index
<1>2. CASE Others(i) # {}
  <2>1. Min(Others(i)) \in Others(i)
    BY <1>1, <1>2, LeastIndex
  <2> HIDE DEF SpecTypes
  <2>2. Min(Others(i)) \in Index /\ recorded[Min(Others(i))] # recorded[i]
    BY <2>1 DEF Others
  <2> QED BY <1>2, <2>2 DEF Replacement, SpecTypes
<1>3. CASE Others(i) = {}
  BY <1>3 DEF Replacement
<1> QED BY <1>2, <1>3

\* The states of a service the router holds are states of a service.
LEMMA ServiceStates ==
  /\ Unregistered \in Service /\ Registered \in Service
  /\ Waiting \in Reply /\ Failed \in Reply
  /\ \A s \in Service : Imported(s) \in Service
  /\ \A s \in Service : /\ Imported(s).oc = s.oc /\ Imported(s).dc = s.dc /\ Imported(s).acc = s.acc
                         /\ Imported(s).rej = s.rej /\ Imported(s).cache = {}
  BY SpecReplayAssumption DEF Unregistered, Registered, Waiting, Failed, Reply, Service, Imported

\* _build_response_locked of a role that is not exhausted: the step the
\* role's cursor is at.
LEMMA BuiltOK ==
  ASSUME SpecTypes, NEW s \in Service, NEW role \in Roles, s.oc >= 0, s.dc >= 0, ~Exhausted(s, role)
  PROVE  /\ Built(s, role) \in Reply
         /\ Built(s, role).index = IF role = "oracle" THEN s.oc ELSE s.dc
         /\ role = "draft" => /\ s.dc \in Index
                              /\ IF right[s.dc] THEN Built(s, role).text = recorded[s.dc]
                                 ELSE Built(s, role).text = recorded[s.dc] => recorded[s.dc] = Fallback
<1> USE SpecReplayAssumption
<1>1. CASE role = "oracle"
  <2>1. s.oc \in Index
    BY <1>1 DEF Exhausted, Service, Index
  <2> QED BY <1>1, <2>1 DEF Built, Reply, SpecTypes, Index
<1>2. CASE role = "draft"
  <2>1. s.dc \in Index
    BY <1>2 DEF Exhausted, Service, Index
  <2>2. /\ Replacement(s.dc) \in Commands
        /\ Replacement(s.dc) = recorded[s.dc] => recorded[s.dc] = Fallback
    BY <2>1, ReplacementOK
  <2>3. recorded[s.dc] \in Commands
    BY <2>1 DEF SpecTypes
  <2>4. Built(s, role) = [index |-> s.dc, text |-> IF right[s.dc] THEN recorded[s.dc] ELSE Replacement(s.dc)]
    BY <1>2 DEF Built
  <2> QED BY <1>2, <2>1, <2>2, <2>3, <2>4 DEF Reply, Index
<1> QED BY <1>1, <1>2 DEF Roles

\* ... and the service after it: one cursor has moved by one.
LEMMA AdvancedOK ==
  ASSUME SpecTypes, NEW s \in Service, NEW role \in Roles, NEW pair \in Nat,
         s.oc >= 0, s.dc >= 0, ~Exhausted(s, role)
  PROVE  LET a == Advanced(s, role, pair) IN
         /\ a \in Service
         /\ a.oc = IF role = "oracle" THEN s.oc + 1 ELSE s.oc
         /\ a.dc = IF role = "draft" THEN s.dc + 1 ELSE s.dc
         /\ a.acc + a.rej = s.acc + s.rej + (IF role = "draft" THEN 1 ELSE 0)
         /\ a.cache = s.cache \union {[role |-> role, pair |-> pair, reply |-> Built(s, role)]}
<1> DEFINE e == [role |-> role, pair |-> pair, reply |-> Built(s, role)]
<1>1. e \in Entry
  BY BuiltOK DEF Entry
<1> HIDE DEF e
<1>2. s.cache \union {e} \in SUBSET Entry
  BY <1>1 DEF Service
<1>3. CASE role = "oracle"
  <2>1. Advanced(s, role, pair) = [s EXCEPT !.oc = @ + 1, !.cache = s.cache \union {e}]
    BY <1>3 DEF Advanced, e
  <2>2. s.oc + 1 \in -1..SpecLen
    BY <1>3, SpecReplayAssumption DEF Exhausted, Service
  <2> DEFINE a == Advanced(s, role, pair)  kept == s.cache \union {e}
  <2> HIDE DEF kept
  <2>3. a = [s EXCEPT !.oc = @ + 1, !.cache = kept]
    BY <2>1 DEF kept
  <2> HIDE DEF a
  <2>4. a \in Service
    BY <1>2, <2>2, <2>3, Zenon DEF Service, kept
  <2>5. a.oc = s.oc + 1 /\ a.dc = s.dc /\ a.acc = s.acc /\ a.rej = s.rej /\ a.cache = kept
    BY <2>3 DEF Service
  <2>6. a.acc + a.rej = s.acc + s.rej + 0
    BY <2>5 DEF Service
  <2> QED BY <1>3, <2>4, <2>5, <2>6 DEF a, e, kept
<1>4. CASE role = "draft"
  <2>1. Advanced(s, role, pair) = [s EXCEPT !.dc = @ + 1, !.cache = s.cache \union {e},
                                            !.acc = IF right[s.dc] THEN @ + 1 ELSE @,
                                            !.rej = IF right[s.dc] THEN @ ELSE @ + 1]
    BY <1>4 DEF Advanced, e
  <2>2. s.dc + 1 \in -1..SpecLen
    BY <1>4, SpecReplayAssumption DEF Exhausted, Service
  <2> DEFINE a == Advanced(s, role, pair)  kept == s.cache \union {e}
  <2> HIDE DEF kept
  <2>3. a = [s EXCEPT !.dc = @ + 1, !.cache = kept, !.acc = IF right[s.dc] THEN @ + 1 ELSE @,
                      !.rej = IF right[s.dc] THEN @ ELSE @ + 1]
    BY <2>1 DEF kept
  <2> HIDE DEF a
  <2>4. a \in Service
    <3>1. kept \in SUBSET Entry
      BY <1>2 DEF kept
    <3>2. CASE right[s.dc]
      <4>1. a = [oc |-> s.oc, dc |-> s.dc + 1, acc |-> s.acc + 1, rej |-> s.rej, cache |-> kept]
        BY <2>3, <3>2, Zenon DEF Service
      <4> QED BY <2>2, <3>1, <4>1 DEF Service
    <3>3. CASE ~right[s.dc]
      <4>1. a = [oc |-> s.oc, dc |-> s.dc + 1, acc |-> s.acc, rej |-> s.rej + 1, cache |-> kept]
        BY <2>3, <3>3, Zenon DEF Service
      <4> QED BY <2>2, <3>1, <4>1 DEF Service
    <3> QED BY <3>2, <3>3
  <2>5. /\ a.oc = s.oc /\ a.dc = s.dc + 1 /\ a.cache = kept
        /\ a.acc = IF right[s.dc] THEN s.acc + 1 ELSE s.acc
        /\ a.rej = IF right[s.dc] THEN s.rej ELSE s.rej + 1
    BY <2>3 DEF Service
  <2>6. a.acc + a.rej = s.acc + s.rej + 1
    <3>1. s.acc \in Nat /\ s.rej \in Nat
      BY DEF Service
    <3>2. CASE right[s.dc]
      BY <2>5, <3>1, <3>2
    <3>3. CASE ~right[s.dc]
      BY <2>5, <3>1, <3>3
    <3> QED BY <3>2, <3>3
  <2> QED BY <1>4, <2>4, <2>5, <2>6 DEF a, e, kept
<1> QED BY <1>3, <1>4 DEF Roles

\* The drafts that are out are finitely many, so they can be counted.
LEMMA DraftsFinite ==
  ASSUME SpecTypes
  PROVE  IsFiniteSet(DraftsOut) /\ Cardinality(DraftsOut) \in Nat /\ Begun \in Nat
<1>1. Begun \in Nat
  BY DEF SpecTypes, Begun
<1>2. IsFiniteSet(1..Begun)
  BY <1>1, FS_Interval
<1>3. DraftsOut \subseteq 1..Begun
  BY DEF DraftsOut
<1>4. IsFiniteSet(DraftsOut)
  BY <1>2, <1>3, FS_Subset, Zenon
<1> QED BY <1>1, <1>4, FS_CardinalityType

\* What the invariant says of the agent's own service.
LEMMA OwnService ==
  ASSUME SpecTypes, BoxesApart
  PROVE  /\ svc[abox] \in Service /\ svc[abox].oc \in 0..SpecLen /\ svc[abox].dc \in 0..SpecLen
         /\ svc[abox].acc + svc[abox].rej = svc[abox].dc
<1>1. svc[abox] \in Service /\ svc[abox].oc >= 0
  BY DEF SpecTypes, BoxesApart
<1>2. svc[abox].dc >= 0 /\ svc[abox].acc + svc[abox].rej = svc[abox].dc
  BY <1>1 DEF SpecTypes, BoxesApart
<1> QED BY <1>1, <1>2, SpecReplayAssumption DEF Service

\* _spec_perform_step begins a turn: one more draft is out.
LEMMA StartTurnKeeps ==
  ASSUME SpecInv, StartTurn
  PROVE  SpecInv'
<1> USE DEF SpecInv
<1>1. SpecTypes'
  <2>1. got' \in [Roles -> Reply]
    BY ServiceStates DEF StartTurn
  <2>2. pend' \subseteq [role : Roles, pair : Nat]
    BY DEF StartTurn, SpecTypes
  <2> QED BY <2>1, <2>2 DEF StartTurn, SpecTypes
<1>2. Begun = sturn /\ Begun' = sturn + 1 /\ sturn' = sturn /\ sturn \in Nat /\ svc' = svc /\ abox' = abox /\ wire' = wire
  BY DEF StartTurn, Begun, SpecTypes
<1>3. BoxesApart'
  BY DEF BoxesApart, StartTurn
<1>4. PairsBegun'
  BY <1>2 DEF PairsBegun, StartTurn
<1>5. OracleInOrder'
  BY DEF OracleInOrder, StartTurn
<1>6. ServiceStandsAtTurn'
  BY DEF ServiceStandsAtTurn, StartTurn
<1>7. \A role \in Roles : got'[role] = Waiting /\ got'[role].index = -1
  BY DEF StartTurn, Waiting
<1>8. OracleIsCurrent'
  <2>1. \A p \in pend : p.role # "oracle"
    BY <1>2 DEF PairsBegun, OracleIsCurrent
  <2>2. \A r \in wire : r.role # "oracle"
    BY <1>2 DEF PairsBegun, OracleIsCurrent
  <2>3. \A c \in svc[abox].cache : ~OracleEntry(c)
    BY <1>2 DEF PairsBegun, OracleEntry
  <2>4. \A p \in pend' : p.role = "oracle" => p.pair = sturn + 1
    BY <2>1 DEF StartTurn
  <2>5. got'["oracle"].index = -1
    BY <1>7 DEF Roles
  <2> QED BY <1>2, <2>2, <2>3, <2>4, <2>5 DEF OracleIsCurrent, OracleEntry
<1>9. AnswersAreCached'
  BY <1>7 DEF AnswersAreCached
<1>10. DraftsAreCounted'
  <2>1. got'["draft"].index < svc'[abox'].dc
    <3>1. got'["draft"].index = -1
      BY <1>7 DEF Roles
    <3> QED BY <1>2, <3>1, OwnService
  <2>2. \A p \in pend', r \in wire' : p.role = "draft" /\ r.role = "draft" => p.pair # r.pair
    BY <1>2 DEF StartTurn, DraftsAreCounted, PairsBegun
  <2>3. sturn + 1 \notin DraftsOut
    BY <1>2 DEF DraftsOut
  <2>4. [role |-> "draft", pair |-> sturn + 1] \in pend'
    BY DEF StartTurn, Roles
  <2>5. DraftsOut' = DraftsOut \union {sturn + 1}
    <3>1. \A p \in pend' : p.role = "draft" => p \in pend \/ p.pair = sturn + 1
      BY DEF StartTurn
    <3>2. pend \subseteq pend'
      BY DEF StartTurn
    <3>3. DraftsOut' \subseteq DraftsOut \union {sturn + 1}
      BY <1>2, <3>1 DEF DraftsOut
    <3>4. DraftsOut \union {sturn + 1} \subseteq DraftsOut'
      BY <1>2, <2>4, <3>2 DEF DraftsOut
    <3> QED BY <3>3, <3>4
  <2>6. Cardinality(DraftsOut') = Cardinality(DraftsOut) + 1
    BY <2>3, <2>5, DraftsFinite, FS_AddElement
  <2>7. ASSUME ~skewed'
        PROVE  svc'[abox'].dc + Cardinality(DraftsOut') = Begun'
    <3>1. ~skewed
      BY <2>7 DEF StartTurn
    <3>2. svc[abox].dc + Cardinality(DraftsOut) = Begun
      BY <3>1 DEF DraftsAreCounted
    <3> QED BY <1>2, <2>6, <3>2, DraftsFinite, OwnService
  <2>8. ASSUME ~skewed'
        PROVE  /\ \A r \in wire' : r.role = "draft" => r.to = abox'
               /\ \A c \in svc'[abox'].cache : c.role = "draft" => c.pair \notin DraftsOut'
    <3>1. ~skewed
      BY <2>8 DEF StartTurn
    <3>2. \A c \in svc[abox].cache : c.pair # sturn + 1
      BY <1>2 DEF PairsBegun
    <3> QED BY <1>2, <2>5, <3>1, <3>2 DEF DraftsAreCounted
  <2>9. \A c \in svc'[abox'].cache : c.role = "draft" => c.reply.index < svc'[abox'].dc
    BY <1>2 DEF DraftsAreCounted
  <2> HIDE DEF SpecInv
  <2> QED BY <2>1, <2>2, <2>7, <2>8, <2>9 DEF DraftsAreCounted
<1>11. DraftsAreDecided'
  BY DEF DraftsAreDecided, StartTurn
<1> QED BY <1>1, <1>3, <1>4, <1>5, <1>6, <1>8, <1>9, <1>10, <1>11

\* _request_assistant_turn: a request leaves for the sandbox the agent has.
LEMMA SendKeeps ==
  ASSUME SpecInv, NEW p \in pend, Send(p)
  PROVE  SpecInv'
<1> USE DEF SpecInv
<1> DEFINE n == [role |-> p.role, pair |-> p.pair, to |-> abox]
<1>1. p \in [role : Roles, pair : Nat]
  BY DEF SpecTypes
<1>2. n \in [role : Roles, pair : Nat, to : BoxIds] /\ n.role = p.role /\ n.pair = p.pair /\ n.to = abox
  BY <1>1 DEF SpecTypes
<1>3. pend' = pend \ {p} /\ wire' = wire \union {n}
  BY DEF Send
<1> HIDE DEF n
<1>4. SpecTypes'
  BY <1>2, <1>3 DEF Send, SpecTypes
<1>5. /\ Begun' = Begun /\ sturn' = sturn /\ svc' = svc /\ abox' = abox /\ skewed' = skewed
      /\ spc' = spc /\ got' = got
  BY DEF Send, Begun
<1>6. \A q \in pend : q.role = p.role /\ q.pair = p.pair => q = p
  <2>1. \A q \in pend : q \in [role : Roles, pair : Nat]
    BY DEF SpecTypes
  <2> QED BY <1>1, <2>1
<1>7. BoxesApart'
  BY DEF BoxesApart, Send
<1>8. PairsBegun'
  BY <1>2, <1>3, <1>5 DEF PairsBegun
<1>9. OracleInOrder' /\ ServiceStandsAtTurn' /\ AnswersAreCached' /\ DraftsAreDecided'
  BY DEF OracleInOrder, ServiceStandsAtTurn, AnswersAreCached, DraftsAreDecided, Send, Cached
<1>10. OracleIsCurrent'
  <2>1. CASE p.role = "oracle"
    <3>1. /\ p.pair = sturn + 1 /\ \A r \in wire : r.role # "oracle"
          /\ \A c \in svc[abox].cache : ~OracleEntry(c)
      BY <2>1 DEF OracleIsCurrent
    <3>2. \A q \in pend' : q.role # "oracle"
      BY <1>3, <1>6, <2>1, <3>1 DEF OracleIsCurrent
    <3> QED BY <1>2, <1>3, <1>5, <3>1, <3>2 DEF OracleIsCurrent, OracleEntry
  <2>2. CASE p.role # "oracle"
    BY <1>2, <1>3, <1>5, <2>2 DEF OracleIsCurrent, OracleEntry
  <2> QED BY <2>1, <2>2
<1>11. DraftsAreCounted'
  <2>1. DraftsOut' = DraftsOut
    BY <1>2, <1>3, <1>5 DEF DraftsOut
  <2>2. \A q \in pend', r \in wire' : q.role = "draft" /\ r.role = "draft" => q.pair # r.pair
    BY <1>2, <1>3, <1>6 DEF DraftsAreCounted
  <2>3. \A r \in wire' : r \in wire \/ r.to = abox
    BY <1>2, <1>3
  <2> QED BY <1>5, <2>1, <2>2, <2>3 DEF DraftsAreCounted
<1> QED BY <1>4, <1>7, <1>8, <1>9, <1>10, <1>11

\* A request that is given up, and a turn that ends in its oracle's failure.
LEMMA FailureKeeps ==
  ASSUME SpecInv, OracleFails \/ \E r \in Roles : Timeout(r)
  PROVE  SpecInv'
<1> USE DEF SpecInv
<1>1. /\ UNCHANGED <<recorded, right, svc, abox, forkbox, nbox, sturn, pend, wire, oracled, skewed>>
      /\ spc \in {"race", "fork"} /\ spc' \in {spc, "failed"}
  BY DEF OracleFails, Timeout
<1>2. dups' \in Nat /\ got' \in [Roles -> Reply]
  BY ServiceStates DEF OracleFails, Timeout, SpecTypes
<1>3. \A role \in Roles : got'[role] = got[role] \/ got'[role].index = -2
  BY DEF OracleFails, Timeout, SpecTypes, Failed
<1>4. SpecTypes'
  BY <1>1, <1>2 DEF SpecTypes
<1>5. Begun' = Begun
  BY <1>1 DEF Begun
<1>6. DraftsOut' = DraftsOut
  BY <1>1, <1>5 DEF DraftsOut
<1>7. BoxesApart' /\ PairsBegun' /\ OracleInOrder' /\ ServiceStandsAtTurn' /\ DraftsAreDecided'
  BY <1>1, <1>5 DEF BoxesApart, PairsBegun, OracleInOrder, ServiceStandsAtTurn, DraftsAreDecided
<1>8. OracleIsCurrent'
  BY <1>1, <1>3 DEF OracleIsCurrent, OracleEntry, Roles
<1>9. AnswersAreCached'
  BY <1>1, <1>3 DEF AnswersAreCached, Cached
<1>10. DraftsAreCounted'
  <2>1. got["draft"].index < svc[abox].dc
    BY <1>1 DEF DraftsAreCounted
  <2>2. got'["draft"].index < svc'[abox'].dc
    BY <1>1, <1>3, <2>1, OwnService DEF Roles
  <2> QED BY <1>1, <1>5, <1>6, <2>2 DEF DraftsAreCounted
<1> QED BY <1>4, <1>7, <1>8, <1>9, <1>10

\* The draft runs on a fork, whose sandbox is not the agent's.
LEMMA RunDraftKeeps ==
  ASSUME SpecInv, RunDraft
  PROVE  SpecInv'
<1> USE DEF SpecInv
<1>1. /\ UNCHANGED <<recorded, right, abox, sturn, pend, wire, got, dups, oracled, skewed>>
      /\ spc = "race" /\ spc' = "fork"
  BY DEF RunDraft
<1>2. /\ svc' \in [BoxIds -> Service] /\ nbox' \in BoxIds /\ forkbox' \in 1..MaxBoxes
      /\ forkbox' # abox /\ abox <= nbox' /\ forkbox' <= nbox' /\ svc'[abox] = svc[abox]
      /\ \A b \in BoxIds : svc'[b] = svc[b] \/ svc'[b] = Registered
  <2>1. CASE forkbox # 0 /\ UNCHANGED <<forkbox, svc, nbox>>
    BY <2>1, SpecReplayAssumption DEF SpecTypes, BoxesApart, BoxIds
  <2>2. CASE /\ forkbox = 0 /\ nbox < MaxBoxes /\ nbox' = nbox + 1 /\ forkbox' = nbox'
             /\ svc' = [svc EXCEPT ![nbox'] = Registered]
    <3>1. abox \in 1..nbox /\ nbox' \in BoxIds /\ nbox' # abox /\ nbox \in Nat
      BY <2>2, SpecReplayAssumption DEF SpecTypes, BoxesApart, BoxIds
    <3>2. Registered \in Service
      BY ServiceStates
    <3>3. svc \in [BoxIds -> Service] /\ abox \in BoxIds
      BY DEF SpecTypes
    <3>4. svc' \in [BoxIds -> Service] /\ svc'[abox] = svc[abox]
      BY <2>2, <3>1, <3>2, <3>3
    <3>5. \A b \in BoxIds : svc'[b] = svc[b] \/ svc'[b] = Registered
      BY <2>2, <3>3
    <3>6. forkbox' \in 1..MaxBoxes /\ forkbox' # abox /\ abox <= nbox' /\ forkbox' <= nbox'
      BY <2>2, <3>1 DEF BoxIds
    <3> QED BY <3>1, <3>4, <3>5, <3>6
  <2> QED BY <2>1, <2>2 DEF RunDraft
<1>3. SpecTypes'
  BY <1>1, <1>2, SpecReplayAssumption DEF SpecTypes
<1>4. Begun' = Begun
  BY <1>1 DEF Begun
<1>5. DraftsOut' = DraftsOut
  BY <1>1, <1>4 DEF DraftsOut
<1>6. BoxesApart'
  <2>1. Registered.oc = 0 /\ Registered.dc = 0 /\ Registered.acc + Registered.rej = Registered.dc
    BY DEF Registered
  <2>2. \A b \in BoxIds : /\ svc'[b].oc >= 0 => svc'[b].dc >= 0 /\ svc'[b].acc + svc'[b].rej = svc'[b].dc
                          /\ svc'[b].oc < 0 => svc'[b] = Unregistered
    BY <1>2, <2>1 DEF BoxesApart
  <2> QED BY <1>1, <1>2, <2>2 DEF BoxesApart
<1>7. PairsBegun' /\ OracleInOrder' /\ ServiceStandsAtTurn'
  BY <1>1, <1>2, <1>4 DEF PairsBegun, OracleInOrder, ServiceStandsAtTurn
<1>8. OracleIsCurrent' /\ AnswersAreCached'
  BY <1>1, <1>2 DEF OracleIsCurrent, OracleEntry, AnswersAreCached, Cached
<1>9. DraftsAreCounted'
  BY <1>1, <1>2, <1>4, <1>5 DEF DraftsAreCounted
<1>10. DraftsAreDecided'
  <2>1. Registered.cache = {}
    BY DEF Registered
  <2>2. \A b \in BoxIds : svc'[b].cache \subseteq svc[b].cache
    BY <1>2, <2>1
  <2> QED BY <1>1, <2>2 DEF DraftsAreDecided
<1> QED BY <1>3, <1>6, <1>7, <1>8, <1>9, <1>10

\* The end of a turn, whatever sandbox the agent goes on with: its service
\* stands where the old one did, and what that one remembers is of turns past.
LEMMA TurnEndKeeps ==
  ASSUME SpecInv, spc \in {"race", "fork"}, got["oracle"].index >= 0, GoByOracle,
         UNCHANGED <<recorded, right, nbox, pend, wire, got, dups>>, SpecTypes', BoxesApart',
         svc'[abox'].oc = svc[abox].oc, svc'[abox'].dc = svc[abox].dc,
         svc'[abox'].cache \subseteq svc[abox].cache,
         \A b \in BoxIds : \E d \in BoxIds : svc'[b].cache \subseteq svc[d].cache,
         ~skewed' => ~skewed /\ (abox' = abox \/ DraftsOut = {})
  PROVE  SpecInv'
<1> USE DEF SpecInv
<1>1. sturn \in Nat /\ sturn' = sturn + 1 /\ spc' \in {"idle", "done"}
  BY DEF GoByOracle, SpecTypes
<1>2. Begun = sturn + 1 /\ Begun' = sturn + 1
  BY <1>1 DEF Begun
<1>3. DraftsOut' = DraftsOut
  BY <1>2 DEF DraftsOut
<1>4. PairsBegun'
  BY <1>1, <1>2 DEF PairsBegun
<1>5. got["oracle"].index = sturn /\ Cached(svc[abox], "oracle", sturn + 1) # {}
  BY DEF OracleIsCurrent, AnswersAreCached, Roles
<1>6. OracleInOrder'
  <2>1. oracled = [k \in 1..sturn |-> k - 1] /\ oracled' = Append(oracled, sturn)
    BY <1>5 DEF OracleInOrder, GoByOracle
  <2>2. Append([k \in 1..sturn |-> k - 1], sturn) = [k \in 1..(sturn + 1) |-> k - 1]
    BY <1>1
  <2> QED BY <1>1, <2>1, <2>2 DEF OracleInOrder
<1>7. PICK e \in svc[abox].cache : OracleEntry(e)
  BY <1>5 DEF Cached, OracleEntry
<1>8. svc[abox].oc = sturn + 1
  BY <1>7 DEF ServiceStandsAtTurn, OracleEntry
<1>9. \A c \in svc'[abox'].cache : c.pair # sturn' + 1
  BY <1>1, <1>2 DEF PairsBegun
<1>10. ServiceStandsAtTurn'
  BY <1>1, <1>8, <1>9 DEF ServiceStandsAtTurn
<1>11. OracleIsCurrent'
  <2>1. \A p \in pend : p.role # "oracle"
    BY <1>7 DEF OracleIsCurrent
  <2>2. \A r \in wire : r.role # "oracle"
    BY <1>7 DEF OracleIsCurrent
  <2>3. \A c \in svc'[abox'].cache : ~(c.role = "oracle" /\ c.pair = sturn' + 1)
    BY <1>9
  <2> QED BY <1>1, <2>1, <2>2, <2>3 DEF OracleIsCurrent, OracleEntry
<1>12. AnswersAreCached'
  BY <1>1 DEF AnswersAreCached
<1>13. DraftsAreCounted'
  <2>1. \A p \in pend', r \in wire' : p.role = "draft" /\ r.role = "draft" => p.pair # r.pair
    BY DEF DraftsAreCounted
  <2>2. \A c \in svc'[abox'].cache : c.role = "draft" => c.reply.index < svc'[abox'].dc
    BY DEF DraftsAreCounted
  <2>3. ASSUME ~skewed'
        PROVE  /\ svc'[abox'].dc + Cardinality(DraftsOut') = Begun'
               /\ \A c \in svc'[abox'].cache : c.role = "draft" => c.pair \notin DraftsOut'
    BY <1>2, <1>3, <2>3 DEF DraftsAreCounted
  <2>4. ASSUME ~skewed', NEW r \in wire', r.role = "draft"
        PROVE  r.to = abox'
    <3>1. CASE abox' = abox
      BY <2>4, <3>1 DEF DraftsAreCounted
    <3>2. CASE DraftsOut = {}
      <4>1. r.pair \in DraftsOut
        BY <2>4 DEF DraftsOut, PairsBegun
      <4> QED BY <3>2, <4>1
    <3> QED BY <2>4, <3>1, <3>2
  <2> QED BY <1>1, <2>1, <2>2, <2>3, <2>4 DEF DraftsAreCounted
<1>14. DraftsAreDecided'
  BY DEF DraftsAreDecided
<1> QED BY <1>4, <1>6, <1>10, <1>11, <1>12, <1>13, <1>14

\* destroy_sandbox_dataset touches no service but the fork's.
LEMMA DropForkOK ==
  ASSUME SpecInv, DropFork, abox' = abox, nbox' = nbox
  PROVE  /\ svc' \in [BoxIds -> Service] /\ forkbox' = 0 /\ svc'[abox] = svc[abox]
         /\ \A b \in BoxIds : svc'[b] = svc[b] \/ svc'[b] = Unregistered
<1> USE DEF SpecInv
<1>1. Unregistered \in Service
  BY ServiceStates
<1>2. svc' \in [BoxIds -> Service]
  BY <1>1 DEF DropFork, SpecTypes
<1>3. svc'[abox] = svc[abox]
  BY DEF DropFork, SpecTypes, BoxesApart
<1> QED BY <1>2, <1>3 DEF DropFork

\* The sandboxes the agent goes on with are two, and its own is registered.
LEMMA BoxesStayApart ==
  ASSUME SpecInv, spc \in {"race", "fork"}, GoByOracle, UNCHANGED <<recorded, right, nbox, pend, wire, got, dups>>,
         skewed' \in BOOLEAN, svc' \in [BoxIds -> Service],
         abox' \in BoxIds, forkbox' \in 0..MaxBoxes, forkbox' # abox', abox' <= nbox, forkbox' <= nbox,
         svc'[abox'].oc >= 0,
         \A b \in BoxIds : \/ svc'[b] = Unregistered
                           \/ \E d \in BoxIds : svc'[b] = svc[d]
                           \/ svc'[b] = Imported(svc[abox])
  PROVE  SpecTypes' /\ BoxesApart'
<1> USE DEF SpecInv
<1>1. sturn' \in 0..SpecLen /\ spc' \in {"idle", "done"}
  BY SpecReplayAssumption DEF GoByOracle, SpecTypes, BoxesApart
<1>2. SpecTypes'
  BY <1>1 DEF SpecTypes
<1>3. Unregistered.oc = -1
  BY DEF Unregistered
<1> DEFINE Sane(s) == /\ s.oc >= 0 => s.dc >= 0 /\ s.acc + s.rej = s.dc
                      /\ s.oc < 0 => s = Unregistered
<1>4. Sane(Imported(svc[abox])) /\ Sane(Unregistered)
  BY <1>3, ServiceStates, OwnService
<1>5. \A d \in BoxIds : Sane(svc[d])
  BY DEF BoxesApart
<1> HIDE DEF Sane
<1>6. \A b \in BoxIds : Sane(svc'[b])
  BY <1>4, <1>5
<1> QED BY <1>1, <1>2, <1>6, Zenon DEF BoxesApart, Sane

\* A turn without the draft, and one that rejects it: the sandbox stays.
LEMMA OracleTurnKeeps ==
  ASSUME SpecInv, WithoutDraft \/ Reject
  PROVE  SpecInv'
<1> USE DEF SpecInv
<1>1. /\ spc \in {"race", "fork"} /\ got["oracle"].index >= 0 /\ GoByOracle
      /\ UNCHANGED <<recorded, right, abox, nbox, pend, wire, got, dups, skewed>>
      /\ DropFork \/ UNCHANGED <<svc, forkbox>>
  BY DEF WithoutDraft, Reject
<1>2. /\ svc' \in [BoxIds -> Service] /\ forkbox' \in {0, forkbox} /\ svc'[abox] = svc[abox]
      /\ \A b \in BoxIds : svc'[b] = svc[b] \/ svc'[b] = Unregistered
  BY <1>1, DropForkOK DEF SpecTypes
<1>3. /\ forkbox' \in 0..MaxBoxes /\ forkbox' # abox' /\ abox' \in BoxIds /\ abox' <= nbox /\ forkbox' <= nbox
      /\ svc'[abox'].oc >= 0 /\ skewed' \in BOOLEAN
  BY <1>1, <1>2, SpecReplayAssumption DEF SpecTypes, BoxesApart, BoxIds
<1>4. SpecTypes' /\ BoxesApart'
  BY <1>1, <1>2, <1>3, BoxesStayApart
<1>5. Unregistered.cache = {}
  BY DEF Unregistered
<1>6. \A b \in BoxIds : \E d \in BoxIds : svc'[b].cache \subseteq svc[d].cache
  BY <1>2, <1>5
<1> QED BY <1>1, <1>2, <1>4, <1>6, TurnEndKeeps

\* promote_fork: copy_sandbox_state carries the cursors to the fork's service
\* and leaves the answers behind.  A draft of the turn's own step means that
\* every draft asked for has been served.
LEMMA PromoteKeeps ==
  ASSUME SpecInv, PromoteDraft
  PROVE  SpecInv'
<1> USE DEF SpecInv
<1>1. /\ spc = "fork" /\ got["oracle"].index >= 0 /\ GoByOracle /\ abox' = forkbox
      /\ UNCHANGED <<recorded, right, nbox, pend, wire, got, dups>>
      /\ skewed' = (skewed \/ got["draft"].index # got["oracle"].index)
  BY DEF PromoteDraft
<1>2. PICK keep \in BOOLEAN :
        /\ svc' = [svc EXCEPT ![forkbox] = Imported(svc[abox]), ![abox] = IF keep THEN @ ELSE Unregistered]
        /\ forkbox' = IF keep THEN abox ELSE 0
  BY Zenon DEF PromoteDraft
<1>3. forkbox \in BoxIds /\ abox \in BoxIds /\ forkbox # abox /\ svc \in [BoxIds -> Service]
  BY <1>1 DEF SpecTypes, BoxesApart, BoxIds
<1>4. Imported(svc[abox]) \in Service /\ Unregistered \in Service
  BY <1>3, ServiceStates
<1>5. /\ svc' \in [BoxIds -> Service] /\ svc'[forkbox] = Imported(svc[abox])
      /\ svc'[abox] \in {svc[abox], Unregistered}
      /\ \A b \in BoxIds \ {abox, forkbox} : svc'[b] = svc[b]
  BY <1>2, <1>3, <1>4
<1>6. /\ forkbox' \in 0..MaxBoxes /\ forkbox' # abox' /\ abox' \in BoxIds /\ abox' <= nbox /\ forkbox' <= nbox
  BY <1>1, <1>2, <1>3, SpecReplayAssumption DEF SpecTypes, BoxesApart, BoxIds
<1>7. skewed' \in BOOLEAN
  BY <1>1
<1>8. /\ svc'[abox'].oc = svc[abox].oc /\ svc'[abox'].dc = svc[abox].dc /\ svc'[abox'].cache = {}
  BY <1>1, <1>3, <1>5, ServiceStates
<1>9. \A b \in BoxIds : \/ svc'[b] = Unregistered
                        \/ \E d \in BoxIds : svc'[b] = svc[d]
                        \/ svc'[b] = Imported(svc[abox])
  BY <1>3, <1>5
<1>10. SpecTypes' /\ BoxesApart'
  <2>1. svc'[abox'].oc >= 0
    BY <1>8, OwnService
  <2> QED BY <1>1, <1>5, <1>6, <1>7, <1>9, <2>1, BoxesStayApart
<1>11. Unregistered.cache = {} /\ Imported(svc[abox]).cache = {}
  BY <1>3, ServiceStates DEF Unregistered
<1>12. \A b \in BoxIds : \E d \in BoxIds : svc'[b].cache \subseteq svc[d].cache
  BY <1>3, <1>9, <1>11
<1>13. ASSUME ~skewed'
       PROVE  ~skewed /\ DraftsOut = {}
  <2>1. ~skewed /\ got["draft"].index = got["oracle"].index
    BY <1>1, <1>13, Zenon
  <2>2. got["oracle"].index = sturn /\ got["draft"].index < svc[abox].dc
    BY <1>1 DEF OracleIsCurrent, DraftsAreCounted
  <2>3. svc[abox].dc + Cardinality(DraftsOut) = sturn + 1
    BY <1>1, <2>1 DEF DraftsAreCounted, Begun
  <2>4. Cardinality(DraftsOut) = 0
    BY <2>1, <2>2, <2>3, DraftsFinite, OwnService DEF SpecTypes
  <2> QED BY <2>1, <2>4, DraftsFinite, FS_EmptySet
<1> QED BY <1>1, <1>8, <1>10, <1>12, <1>13, TurnEndKeeps, Zenon
=============================================================================
