---------------------------- MODULE ServiceProofs ----------------------------
(***************************************************************************)
(* The two services that answer requests from several threads.  First the  *)
(* router and the replay services of a speculating agent (SpecReplay):     *)
(* every step keeps the invariant of SpecProofs, so that speculation is    *)
(* faithful.  Then the daemon's activity gate (Daemon), for any number of  *)
(* request threads and any mix of routes: its counters are integers that   *)
(* handlers raise and lower, so the invariant says whom they count.        *)
(***************************************************************************)
EXTENDS SpecProofs, Daemon

\* What handle_request does: it moves a cursor for a pair it has not answered,
\* and nothing otherwise.
Answered(r) == r.pair = sturn + 1 /\ spc \in {"race", "fork"}

LEMMA HandleCases ==
  ASSUME SpecTypes, BoxesApart, NEW r \in [role : Roles, pair : Nat, to : BoxIds], Handle(r)
  PROVE  \/ /\ svc' = svc
            /\ svc[r.to] = Unregistered \/ Cached(svc[r.to], r.role, r.pair) # {} \/ Exhausted(svc[r.to], r.role)
            /\ \/ got' = got
               \/ /\ Answered(r)
                  /\ \/ got' = [got EXCEPT ![r.role] = Failed]
                     \/ \E c \in Cached(svc[r.to], r.role, r.pair) : got' = [got EXCEPT ![r.role] = c.reply]
         \/ /\ svc[r.to].oc >= 0 /\ svc[r.to].dc >= 0
            /\ Cached(svc[r.to], r.role, r.pair) = {} /\ ~Exhausted(svc[r.to], r.role)
            /\ svc' = [svc EXCEPT ![r.to] = Advanced(svc[r.to], r.role, r.pair)]
            /\ \/ got' = got
               \/ Answered(r) /\ got' = [got EXCEPT ![r.role] = Built(svc[r.to], r.role)]
<1>1. CASE svc[r.to] = Unregistered
  BY <1>1 DEF Handle, Receive, Answered
<1>2. CASE svc[r.to] # Unregistered /\ Cached(svc[r.to], r.role, r.pair) # {}
  <2>1. svc' = svc /\ \E c \in Cached(svc[r.to], r.role, r.pair) : Receive(r, c.reply)
    BY <1>2 DEF Handle
  <2> QED BY <1>2, <2>1, Zenon DEF Receive, Answered
<1>3. CASE svc[r.to] # Unregistered /\ Cached(svc[r.to], r.role, r.pair) = {} /\ Exhausted(svc[r.to], r.role)
  <2>1. svc' = svc /\ Receive(r, Failed)
    BY <1>3 DEF Handle
  <2> QED BY <1>3, <2>1 DEF Receive, Answered
<1>4. CASE svc[r.to] # Unregistered /\ Cached(svc[r.to], r.role, r.pair) = {} /\ ~Exhausted(svc[r.to], r.role)
  <2>1. /\ svc' = [svc EXCEPT ![r.to] = Advanced(svc[r.to], r.role, r.pair)]
        /\ Receive(r, Built(svc[r.to], r.role))
    BY <1>4 DEF Handle
  <2>2. svc[r.to] \in Service
    BY DEF SpecTypes
  <2>3. svc[r.to].oc >= 0
    BY <1>4, <2>2, SpecReplayAssumption DEF BoxesApart, Service
  <2>4. svc[r.to].dc >= 0
    BY <2>3 DEF BoxesApart
  <2> QED BY <1>4, <2>1, <2>3, <2>4 DEF Receive, Answered
<1> QED BY <1>1, <1>2, <1>3, <1>4, Zenon

\* A request that arrives twice is answered from the cache.
LEMMA ServeTwiceKeeps ==
  ASSUME SpecInv, NEW role \in Roles, ServeTwice(role)
  PROVE  SpecInv'
<1> USE DEF SpecInv
<1> DEFINE r == [role |-> role, pair |-> sturn + 1, to |-> abox]
<1>1. r \in [role : Roles, pair : Nat, to : BoxIds] /\ r.role = role /\ r.pair = sturn + 1 /\ r.to = abox
  BY DEF SpecTypes
<1>2. Handle(r)
  BY DEF ServeTwice
<1> HIDE DEF r
<1>3. svc[abox] # Unregistered /\ Cached(svc[abox], role, sturn + 1) # {}
  BY OwnService DEF ServeTwice, AnswersAreCached, Unregistered
<1>4. got[role] # Waiting
  BY DEF ServeTwice, Waiting
<1>5. svc' = svc /\ got' = got
  BY <1>1, <1>2, <1>3, <1>4 DEF Handle, Receive
<1>6. /\ UNCHANGED <<recorded, right, svc, abox, forkbox, nbox, spc, sturn, pend, wire, got, oracled, skewed>>
      /\ dups' \in Nat
  BY <1>5 DEF ServeTwice, SpecTypes
<1>7. Begun' = Begun /\ DraftsOut' = DraftsOut
  BY <1>6 DEF Begun, DraftsOut
<1>8. SpecTypes' /\ BoxesApart' /\ PairsBegun' /\ OracleInOrder' /\ ServiceStandsAtTurn'
  BY <1>6, <1>7, Zenon DEF SpecTypes, BoxesApart, PairsBegun, OracleInOrder, ServiceStandsAtTurn
<1>9. OracleIsCurrent' /\ AnswersAreCached' /\ DraftsAreCounted' /\ DraftsAreDecided'
  BY <1>6, <1>7, Zenon DEF OracleIsCurrent, OracleEntry, AnswersAreCached, Cached, DraftsAreCounted, DraftsAreDecided
<1> QED BY <1>8, <1>9

\* A draft that is served, unless a draft of another step was promoted: it is
\* answered for the first time, and is the only one of its turn.
LEMMA DraftServed ==
  ASSUME SpecInv, NEW r \in wire, wire' = wire \ {r}, UNCHANGED <<spc, sturn, pend>>
  PROVE  /\ Begun' = Begun
         /\ r.role = "oracle" => DraftsOut' = DraftsOut
         /\ r.role = "draft" /\ ~skewed =>
              /\ r.to = abox /\ r.pair \in DraftsOut
              /\ Cached(svc[abox], "draft", r.pair) = {} /\ ~Exhausted(svc[abox], "draft")
              /\ DraftsOut' = DraftsOut \ {r.pair}
              /\ Cardinality(DraftsOut') = Cardinality(DraftsOut) - 1
<1> USE DEF SpecInv
<1>1. Begun' = Begun
  BY DEF Begun
<1>2. ASSUME r.role = "oracle"
      PROVE  DraftsOut' = DraftsOut
  BY <1>1, <1>2 DEF DraftsOut
<1>3. ASSUME r.role = "draft", ~skewed
      PROVE  /\ r.to = abox /\ r.pair \in DraftsOut
             /\ Cached(svc[abox], "draft", r.pair) = {} /\ ~Exhausted(svc[abox], "draft")
             /\ DraftsOut' = DraftsOut \ {r.pair}
             /\ Cardinality(DraftsOut') = Cardinality(DraftsOut) - 1
  <2>1. r.pair \in DraftsOut
    BY <1>3 DEF PairsBegun, DraftsOut
  <2>2. r.to = abox
    BY <1>3 DEF DraftsAreCounted
  <2>3. Cached(svc[abox], "draft", r.pair) = {}
    BY <1>3, <2>1 DEF DraftsAreCounted, Cached
  <2>4. Cardinality(DraftsOut) # 0
    BY <2>1, DraftsFinite, FS_EmptySet
  <2>5. ~Exhausted(svc[abox], "draft")
    <3>1. svc[abox].dc + Cardinality(DraftsOut) = Begun /\ Begun <= SpecLen
      BY <1>3, SpecReplayAssumption DEF DraftsAreCounted, Begun, SpecTypes, BoxesApart
    <3>2. svc[abox].dc < SpecLen
      BY <2>4, <3>1, DraftsFinite, OwnService, SpecReplayAssumption
    <3> QED BY <3>2, OwnService, SpecReplayAssumption DEF Exhausted
  <2>6. \A q \in wire : q.role = "draft" /\ q.pair = r.pair => q = r
    <3>1. \A q \in wire : q \in [role : Roles, pair : Nat, to : BoxIds]
      BY DEF SpecTypes
    <3>2. \A q \in wire : q.role = "draft" => q.to = abox
      BY <1>3 DEF DraftsAreCounted
    <3> QED BY <1>3, <2>2, <3>1, <3>2
  <2>7. \A p \in pend : p.role = "draft" => p.pair # r.pair
    BY <1>3 DEF DraftsAreCounted
  <2>8. DraftsOut' = DraftsOut \ {r.pair}
    <3>1. r.pair \notin DraftsOut'
      BY <2>6, <2>7 DEF DraftsOut
    <3>2. DraftsOut' \subseteq DraftsOut
      BY <1>1 DEF DraftsOut
    <3>3. DraftsOut \ {r.pair} \subseteq DraftsOut'
      BY <1>1 DEF DraftsOut
    <3> QED BY <3>1, <3>2, <3>3
  <2>9. Cardinality(DraftsOut') = Cardinality(DraftsOut) - 1
    BY <2>1, <2>8, DraftsFinite, FS_RemoveElement, Zenon
  <2> QED BY <2>1, <2>2, <2>3, <2>5, <2>8, <2>9
<1> QED BY <1>1, <1>2, <1>3

\* A request that moves no cursor.
LEMMA ServedAgainKeeps ==
  ASSUME SpecInv, NEW r \in wire, wire' = wire \ {r}, svc' = svc,
         svc[r.to] = Unregistered \/ Cached(svc[r.to], r.role, r.pair) # {} \/ Exhausted(svc[r.to], r.role),
         \/ got' = got
         \/ /\ Answered(r)
            /\ \/ got' = [got EXCEPT ![r.role] = Failed]
               \/ \E c \in Cached(svc[r.to], r.role, r.pair) : got' = [got EXCEPT ![r.role] = c.reply],
         UNCHANGED <<recorded, right, abox, forkbox, nbox, spc, sturn, pend, dups, oracled, skewed>>
  PROVE  SpecInv'
<1> USE DEF SpecInv
<1>1. r \in [role : Roles, pair : Nat, to : BoxIds]
  BY DEF SpecTypes
<1>2. Begun' = Begun
  BY Zenon DEF Begun
<1>3. \A role \in Roles :
        \/ got'[role] = got[role]
        \/ got'[role] = Failed
        \/ \E c \in Cached(svc[abox], role, sturn + 1) : got'[role] = c.reply
  <2>1. got \in [Roles -> Reply]
    BY DEF SpecTypes
  <2>2. Answered(r) => r.to = abox /\ r.pair = sturn + 1
    BY DEF Answered, PairsBegun
  <2> QED BY <1>1, <2>1, <2>2
<1>4. got' \in [Roles -> Reply]
  <2>1. got \in [Roles -> Reply] /\ Failed \in Reply
    BY ServiceStates, Zenon DEF SpecTypes
  <2>2. \A c \in Cached(svc[r.to], r.role, r.pair) : c.reply \in Reply
    BY <1>1 DEF Cached, SpecTypes, Service, Entry
  <2> QED BY <1>1, <2>1, <2>2
<1>5. SpecTypes'
  BY <1>4 DEF SpecTypes
<1>6. BoxesApart' /\ PairsBegun' /\ OracleInOrder' /\ ServiceStandsAtTurn' /\ DraftsAreDecided'
  BY <1>2, Zenon DEF BoxesApart, PairsBegun, OracleInOrder, ServiceStandsAtTurn, DraftsAreDecided
<1>7. Failed.index = -2
  BY Zenon DEF Failed
<1>8. OracleIsCurrent'
  <2>1. spc \in {"race", "fork"} /\ got'["oracle"].index >= 0 => got'["oracle"].index = sturn
    <3>1. spc \in {"race", "fork"} /\ got["oracle"].index >= 0 => got["oracle"].index = sturn
      BY Zenon DEF OracleIsCurrent
    <3>2. \A c \in Cached(svc[abox], "oracle", sturn + 1) : c.reply.index = sturn
      BY Zenon DEF OracleIsCurrent, OracleEntry, Cached
    <3>3. "oracle" \in Roles /\ ~(Failed.index >= 0)
      <4> HIDE DEF SpecInv
      <4> QED BY <1>7 DEF Roles
    <3> QED BY <1>3, <3>1, <3>2, <3>3, Zenon
  <2> QED BY <2>1, Zenon DEF OracleIsCurrent, OracleEntry
<1>9. AnswersAreCached'
  <2>1. ASSUME spc \in {"race", "fork"}, NEW role \in Roles, got'[role].index >= 0
        PROVE  Cached(svc[abox], role, sturn + 1) # {}
    BY <1>3, <1>7, <2>1 DEF AnswersAreCached
  <2> QED BY <2>1, Zenon DEF AnswersAreCached, Cached
<1>10. DraftsAreCounted'
  <2>1. spc \in {"race", "fork"} => got'["draft"].index < svc[abox].dc
    <3>1. spc \in {"race", "fork"} => got["draft"].index < svc[abox].dc
      BY Zenon DEF DraftsAreCounted
    <3>2. Failed.index < svc[abox].dc
      BY <1>7, OwnService
    <3>3. \A c \in Cached(svc[abox], "draft", sturn + 1) : c.reply.index < svc[abox].dc
      BY DEF DraftsAreCounted, Cached
    <3>4. "draft" \in Roles
      BY DEF Roles
    <3> QED BY <1>3, <3>1, <3>2, <3>3, <3>4, Zenon
  <2>2. ~skewed => r.role = "oracle" /\ DraftsOut' = DraftsOut
    <3>1. ~skewed => r.role # "draft"
      <4>1. svc[abox] # Unregistered
        BY OwnService DEF Unregistered
      <4> QED BY <4>1, DraftServed, Zenon
    <3>2. ~skewed => r.role = "oracle"
      BY <1>1, <3>1 DEF Roles
    <3> QED BY <3>2, DraftServed, Zenon
  <2> QED BY <1>2, <2>1, <2>2, Zenon DEF DraftsAreCounted
<1> QED BY <1>5, <1>6, <1>8, <1>9, <1>10

\* A request answered for the first time by the service r.to.
ServedFirst(r) ==
    /\ wire' = wire \ {r}
    /\ svc[r.to].oc >= 0 /\ svc[r.to].dc >= 0
    /\ Cached(svc[r.to], r.role, r.pair) = {} /\ ~Exhausted(svc[r.to], r.role)
    /\ svc' = [svc EXCEPT ![r.to] = Advanced(svc[r.to], r.role, r.pair)]
    /\ \/ got' = got
       \/ Answered(r) /\ got' = [got EXCEPT ![r.role] = Built(svc[r.to], r.role)]
    /\ UNCHANGED <<recorded, right, abox, forkbox, nbox, spc, sturn, pend, dups, oracled, skewed>>

\* What it leaves of every service, and of the types.
LEMMA ServedFirstOK ==
  ASSUME SpecInv, NEW r \in wire, ServedFirst(r)
  PROVE  /\ SpecTypes' /\ BoxesApart' /\ DraftsAreDecided' /\ OracleInOrder'
         /\ svc'[r.to] = Advanced(svc[r.to], r.role, r.pair)
         /\ \A b \in BoxIds : b # r.to => svc'[b] = svc[b]
         /\ svc[r.to] \in Service /\ r.role \in Roles /\ r.pair \in Nat /\ r.to \in BoxIds
         /\ Built(svc[r.to], r.role) \in Reply
         /\ Built(svc[r.to], r.role).index = IF r.role = "oracle" THEN svc[r.to].oc ELSE svc[r.to].dc
         /\ svc'[r.to].oc = IF r.role = "oracle" THEN svc[r.to].oc + 1 ELSE svc[r.to].oc
         /\ svc'[r.to].dc = IF r.role = "draft" THEN svc[r.to].dc + 1 ELSE svc[r.to].dc
         /\ svc'[r.to].cache = svc[r.to].cache
                \union {[role |-> r.role, pair |-> r.pair, reply |-> Built(svc[r.to], r.role)]}
<1> USE DEF SpecInv
<1>1. r.role \in Roles /\ r.pair \in Nat /\ r.to \in BoxIds /\ svc \in [BoxIds -> Service] /\ got \in [Roles -> Reply]
  BY DEF SpecTypes
<1> DEFINE s == svc[r.to]  a == Advanced(s, r.role, r.pair)  t == Built(s, r.role)
<1>2. s \in Service /\ s.oc >= 0 /\ s.dc >= 0 /\ ~Exhausted(s, r.role)
  BY <1>1 DEF ServedFirst
<1>3. /\ t \in Reply /\ t.index = IF r.role = "oracle" THEN s.oc ELSE s.dc
      /\ r.role = "draft" => /\ s.dc \in Index
                             /\ IF right[s.dc] THEN t.text = recorded[s.dc]
                                ELSE t.text = recorded[s.dc] => recorded[s.dc] = Fallback
  BY <1>1, <1>2, BuiltOK, Zenon
<1>4. /\ a \in Service
      /\ a.oc = IF r.role = "oracle" THEN s.oc + 1 ELSE s.oc
      /\ a.dc = IF r.role = "draft" THEN s.dc + 1 ELSE s.dc
      /\ a.acc + a.rej = s.acc + s.rej + (IF r.role = "draft" THEN 1 ELSE 0)
      /\ a.cache = s.cache \union {[role |-> r.role, pair |-> r.pair, reply |-> t]}
  <2>1. SpecTypes
    BY Zenon
  <2> HIDE DEF SpecInv
  <2> QED BY <1>1, <1>2, <2>1, AdvancedOK
<1>5. svc' = [svc EXCEPT ![r.to] = a] /\ (got' = got \/ got' = [got EXCEPT ![r.role] = t])
  BY DEF ServedFirst
<1> HIDE DEF s, a, t
<1>6. svc' \in [BoxIds -> Service] /\ svc'[r.to] = a /\ \A b \in BoxIds : b # r.to => svc'[b] = svc[b]
  BY <1>1, <1>4, <1>5, Zenon
<1>7. got' \in [Roles -> Reply]
  BY <1>1, <1>3, <1>5
<1>8. SpecTypes'
  BY <1>6, <1>7 DEF SpecTypes, ServedFirst
<1>9. BoxesApart'
  <2>1. s.acc \in Nat /\ s.rej \in Nat /\ s.dc \in Int /\ s.oc \in Int
    BY <1>2 DEF Service
  <2>2. s.acc + s.rej = s.dc
    BY <1>1, <1>2 DEF BoxesApart, s
  <2>3. a.acc + a.rej = a.dc /\ a.dc >= 0 /\ a.oc >= 0 /\ ~(a.oc < 0)
    BY <1>1, <1>2, <1>4, <2>1, <2>2 DEF Roles
  <2>4. \A b \in BoxIds : /\ svc'[b].oc >= 0 => svc'[b].dc >= 0 /\ svc'[b].acc + svc'[b].rej = svc'[b].dc
                          /\ svc'[b].oc < 0 => svc'[b] = Unregistered
    BY <1>6, <2>3 DEF BoxesApart
  <2>5. svc'[abox].oc >= 0
    BY <1>6, <2>3 DEF BoxesApart, SpecTypes
  <2> QED BY <2>4, <2>5 DEF BoxesApart, ServedFirst
<1>10. DraftsAreDecided'
  <2> DEFINE e == [role |-> r.role, pair |-> r.pair, reply |-> t]
             Decided(c) == c.role = "draft" =>
               IF right[c.reply.index] THEN c.reply.text = recorded[c.reply.index]
               ELSE c.reply.text = recorded[c.reply.index] => recorded[c.reply.index] = Fallback
  <2>1. e.role = r.role /\ e.reply = t
    OBVIOUS
  <2> HIDE DEF e
  <2>2. Decided(e)
    BY <1>3, <2>1, Zenon
  <2>3. \A b \in BoxIds : \A c \in svc[b].cache : Decided(c)
    BY DEF DraftsAreDecided
  <2>4. a.cache = s.cache \union {e}
    BY <1>4 DEF e
  <2> HIDE DEF Decided
  <2>5. \A c \in a.cache : Decided(c)
    BY <1>1, <2>2, <2>3, <2>4 DEF s
  <2>6. \A b \in BoxIds : \A c \in svc'[b].cache : Decided(c)
    BY <1>6, <2>3, <2>5
  <2> QED BY <2>6, Zenon DEF DraftsAreDecided, Decided, ServedFirst
<1>11. OracleInOrder'
  BY DEF OracleInOrder, ServedFirst
<1>12. /\ svc'[r.to].oc = IF r.role = "oracle" THEN s.oc + 1 ELSE s.oc
       /\ svc'[r.to].dc = IF r.role = "draft" THEN s.dc + 1 ELSE s.dc
       /\ svc'[r.to].cache = s.cache \union {[role |-> r.role, pair |-> r.pair, reply |-> t]}
  BY <1>4, <1>6, Zenon
<1> QED BY <1>1, <1>2, <1>3, <1>6, <1>8, <1>9, <1>10, <1>11, <1>12, Zenon DEF s, a, t

\* A first answer of another sandbox's service: a late draft that the agent
\* takes no notice of, sent to a sandbox it has left.
LEMMA ServedElsewhereKeeps ==
  ASSUME SpecInv, NEW r \in wire, ServedFirst(r), r.to # abox
  PROVE  SpecInv'
<1> USE DEF SpecInv
<1>1. /\ SpecTypes' /\ BoxesApart' /\ DraftsAreDecided' /\ OracleInOrder' /\ svc'[abox] = svc[abox]
      /\ r.role \in Roles
  BY ServedFirstOK, Zenon DEF SpecTypes
<1>2. /\ wire' = wire \ {r}
      /\ UNCHANGED <<recorded, right, abox, forkbox, nbox, spc, sturn, pend, dups, oracled, skewed>>
  BY DEF ServedFirst
<1>3. r.role = "draft" /\ skewed
  BY <1>1 DEF OracleIsCurrent, DraftsAreCounted, Roles
<1>4. got' = got
  BY DEF ServedFirst, Answered, PairsBegun
<1>5. Begun' = Begun
  BY <1>2 DEF Begun
<1>6. PairsBegun' /\ ServiceStandsAtTurn'
  BY <1>1, <1>2, <1>5, Zenon DEF PairsBegun, ServiceStandsAtTurn
<1>7. OracleIsCurrent' /\ AnswersAreCached'
  BY <1>1, <1>2, <1>4 DEF OracleIsCurrent, OracleEntry, AnswersAreCached, Cached
<1>8. DraftsAreCounted'
  BY <1>1, <1>2, <1>3, <1>4 DEF DraftsAreCounted
<1> QED BY <1>1, <1>6, <1>7, <1>8, Zenon

\* A first answer of the agent's own service: to the oracle's request the
\* step the turn is at, to a draft's the next one of the drafts.
LEMMA ServedHereKeeps ==
  ASSUME SpecInv, NEW r \in wire, ServedFirst(r), r.to = abox
  PROVE  SpecInv'
<1> USE DEF SpecInv
<1> DEFINE s == svc[abox]  a == svc'[abox]  t == Built(s, r.role)
           e == [role |-> r.role, pair |-> r.pair, reply |-> t]
<1>1. /\ SpecTypes' /\ BoxesApart' /\ DraftsAreDecided' /\ OracleInOrder' /\ r.role \in Roles /\ r.pair \in Nat
      /\ a = Advanced(s, r.role, r.pair) /\ s \in Service /\ t \in Reply
  BY ServedFirstOK, Zenon
<1>2. /\ wire' = wire \ {r}
      /\ UNCHANGED <<recorded, right, abox, forkbox, nbox, spc, sturn, pend, dups, oracled, skewed>>
      /\ got' = got \/ (Answered(r) /\ got' = [got EXCEPT ![r.role] = t])
      /\ s.oc >= 0 /\ s.dc >= 0 /\ ~Exhausted(s, r.role) /\ Cached(s, r.role, r.pair) = {}
  BY DEF ServedFirst
<1>3. t.index = IF r.role = "oracle" THEN s.oc ELSE s.dc
  BY ServedFirstOK, Zenon
<1>4. /\ a.oc = IF r.role = "oracle" THEN s.oc + 1 ELSE s.oc
      /\ a.dc = IF r.role = "draft" THEN s.dc + 1 ELSE s.dc
      /\ a.cache = s.cache \union {e}
  BY ServedFirstOK, Zenon
<1>5. e.role = r.role /\ e.pair = r.pair /\ e.reply = t
  OBVIOUS
<1>6. \A role \in Roles : got'[role] = got[role] \/ (role = r.role /\ Answered(r) /\ got'[role] = t)
  BY <1>1, <1>2 DEF SpecTypes
<1>7. s.oc \in Nat /\ s.dc \in Nat /\ sturn \in Nat
  BY <1>1, OwnService DEF SpecTypes
<1> HIDE DEF t, e
<1>8. Begun' = Begun
  BY <1>2, Zenon DEF Begun
<1>9. PairsBegun'
  BY <1>2, <1>4, <1>5, <1>8, Zenon DEF PairsBegun
<1>10. ASSUME r.role = "oracle"
       PROVE  /\ r.pair = sturn + 1 /\ s.oc = sturn
              /\ \A c \in s.cache : ~OracleEntry(c)
              /\ (\A p \in pend : p.role # "oracle") /\ (\A q \in wire' : q.role # "oracle")
  <2>1. r.pair = sturn + 1 /\ (\A c \in s.cache : ~OracleEntry(c)) /\ (\A p \in pend : p.role # "oracle")
    BY <1>10 DEF OracleIsCurrent
  <2>2. s.oc = sturn
    BY <1>7, <2>1 DEF ServiceStandsAtTurn, OracleEntry
  <2>3. \A q \in wire : q.role = "oracle" => q = r
    <3>1. \A q \in wire : q \in [role : Roles, pair : Nat, to : BoxIds]
      BY DEF SpecTypes
    <3>2. \A q \in wire : q.role = "oracle" => q.pair = sturn + 1 /\ q.to = abox
      BY DEF OracleIsCurrent
    <3> QED BY <1>10, <2>1, <3>1, <3>2
  <2> QED BY <1>2, <2>1, <2>2, <2>3, Zenon
<1>11. ServiceStandsAtTurn'
  <2>1. CASE r.role = "oracle"
    BY <1>2, <1>4, <1>5, <1>7, <1>10, <2>1, Zenon DEF ServiceStandsAtTurn
  <2>2. CASE r.role = "draft"
    BY <1>2, <1>4, <1>5, <2>2, Zenon DEF ServiceStandsAtTurn
  <2> QED BY <1>1, <2>1, <2>2 DEF Roles
<1>12. OracleIsCurrent'
  <2>1. CASE r.role = "oracle"
    <3>1. \A c \in a.cache : OracleEntry(c) => c.reply.index = sturn
      BY <1>3, <1>4, <1>5, <1>10, <2>1, Zenon
    <3>2. spc \in {"race", "fork"} /\ got'["oracle"].index >= 0 => got'["oracle"].index = sturn
      BY <1>3, <1>6, <1>10, <2>1 DEF OracleIsCurrent, Roles
    <3> QED BY <1>2, <1>10, <2>1, <3>1, <3>2, Zenon DEF OracleIsCurrent, OracleEntry
  <2>2. CASE r.role = "draft"
    <3>1. got'["oracle"] = got["oracle"]
      BY <1>6, <2>2 DEF Roles
    <3>2. \A c \in a.cache : OracleEntry(c) => c \in s.cache
      BY <1>4, <1>5, <2>2, Zenon DEF OracleEntry
    <3> QED BY <1>2, <3>1, <3>2, Zenon DEF OracleIsCurrent, OracleEntry
  <2> QED BY <1>1, <2>1, <2>2 DEF Roles
<1>13. AnswersAreCached'
  <2>1. ASSUME spc \in {"race", "fork"}, NEW role \in Roles, got'[role].index >= 0
        PROVE  Cached(a, role, sturn + 1) # {}
    <3>1. CASE got'[role] = got[role]
      BY <1>4, <2>1, <3>1 DEF AnswersAreCached, Cached
    <3>2. CASE role = r.role /\ Answered(r)
      <4>1. e \in Cached(a, role, sturn + 1)
        BY <1>4, <1>5, <3>2 DEF Cached, Answered
      <4> QED BY <4>1
    <3> QED BY <1>6, <2>1, <3>1, <3>2, Zenon
  <2> QED BY <1>2, <2>1, Zenon DEF AnswersAreCached, Cached
<1>14. DraftsAreCounted'
  <2>1. \A c \in a.cache : c.role = "draft" => c.reply.index < a.dc
    <3>1. \A c \in s.cache : c.role = "draft" => c.reply.index < s.dc
      BY DEF DraftsAreCounted
    <3>2. \A c \in s.cache : c.reply.index \in Int
      BY <1>1 DEF Service, Entry, Reply
    <3>3. \A c \in s.cache : c.role = "draft" => c.reply.index < a.dc
      BY <1>1, <1>4, <1>7, <3>1, <3>2 DEF Roles
    <3>4. r.role = "draft" => t.index < a.dc
      <4> HIDE DEF SpecInv
      <4> QED BY <1>3, <1>4, <1>7
    <3> QED BY <1>4, <1>5, <3>3, <3>4, Zenon
  <2>2. spc \in {"race", "fork"} => got'["draft"].index < a.dc
    <3>1. got["draft"].index \in Int /\ "draft" \in Roles
      BY DEF SpecTypes, Reply, Roles
    <3>2. spc \in {"race", "fork"} => got["draft"].index < s.dc
      BY Zenon DEF DraftsAreCounted
    <3>3. spc \in {"race", "fork"} => got["draft"].index < a.dc
      <4> HIDE DEF SpecInv
      <4> QED BY <1>1, <1>4, <1>7, <3>1, <3>2 DEF Roles
    <3>4. r.role = "draft" => t.index < a.dc
      <4> HIDE DEF SpecInv
      <4> QED BY <1>3, <1>4, <1>7
    <3> QED BY <1>6, <3>1, <3>3, <3>4
  <2>3. \A p \in pend', q \in wire' : p.role = "draft" /\ q.role = "draft" => p.pair # q.pair
    BY <1>2, Zenon DEF DraftsAreCounted
  <2>4. ASSUME ~skewed
        PROVE  /\ a.dc + Cardinality(DraftsOut') = Begun
               /\ \A c \in a.cache : c.role = "draft" => c.pair \notin DraftsOut'
    <3>1. /\ s.dc + Cardinality(DraftsOut) = Begun
          /\ \A c \in s.cache : c.role = "draft" => c.pair \notin DraftsOut
      BY <2>4 DEF DraftsAreCounted
    <3>2. Cardinality(DraftsOut) \in Nat
      BY DraftsFinite
    <3>3. CASE r.role = "oracle"
      BY <1>2, <1>4, <1>5, <3>1, <3>3, DraftServed, Zenon
    <3>4. CASE r.role = "draft"
      <4>1. /\ DraftsOut' = DraftsOut \ {r.pair}
            /\ Cardinality(DraftsOut') = Cardinality(DraftsOut) - 1
        BY <1>2, <2>4, <3>4, DraftServed, Zenon
      <4>2. a.dc + Cardinality(DraftsOut') = Begun
        <5> HIDE DEF SpecInv
        <5> QED BY <1>4, <1>7, <3>1, <3>2, <3>4, <4>1
      <4>3. \A c \in a.cache : c.role = "draft" => c.pair \notin DraftsOut'
        BY <1>4, <1>5, <3>1, <4>1
      <4> QED BY <4>2, <4>3
    <3> QED BY <1>1, <3>3, <3>4, Zenon DEF Roles
  <2>5. ~skewed => \A q \in wire' : q.role = "draft" => q.to = abox
    BY <1>2, Zenon DEF DraftsAreCounted
  <2> QED BY <1>2, <1>8, <2>1, <2>2, <2>3, <2>4, <2>5, Zenon DEF DraftsAreCounted
<1> QED BY <1>1, <1>9, <1>11, <1>12, <1>13, <1>14

\* Speculation is faithful: whatever the drafts say and however the sandbox
\* behind the agent is exchanged, the agent goes by the recorded answers in
\* order, its service stands where it does, late drafts leave the draft
\* cursor level and the altered drafts are the wrong ones.
THEOREM SpeculationFaithful == SRSpec => []SpeculationIsFaithful
<1>1. SRInit => SpecInv
  <2> SUFFICES ASSUME SRInit PROVE SpecInv
    OBVIOUS
  <2> USE SpecReplayAssumption
  <2>1. 1 \in BoxIds /\ svc[1] = Registered
    BY DEF SRInit, BoxIds
  <2>2. SpecTypes
    <3>1. svc \in [BoxIds -> Service]
      BY ServiceStates, Zenon DEF SRInit
    <3>2. got \in [Roles -> Reply]
      BY ServiceStates DEF SRInit
    <3>3. abox \in BoxIds /\ nbox \in BoxIds /\ forkbox \in 0..MaxBoxes /\ sturn \in 0..SpecLen /\ dups \in Nat
      BY DEF SRInit, BoxIds
    <3>4. pend = {} /\ wire = {} /\ spc = "idle" /\ skewed = FALSE
      BY DEF SRInit
    <3>5. recorded \in [Index -> Commands] /\ right \in [Index -> BOOLEAN]
      BY DEF SRInit
    <3> QED BY <3>1, <3>2, <3>3, <3>4, <3>5, Zenon DEF SpecTypes
  <2>3. Registered.oc = 0 /\ Registered.dc = 0 /\ Registered.acc = 0 /\ Registered.rej = 0 /\ Registered.cache = {}
    BY DEF Registered
  <2>4. Unregistered.oc = -1 /\ Unregistered.cache = {}
    BY DEF Unregistered
  <2>5. \A b \in BoxIds : svc[b] = Registered \/ svc[b] = Unregistered
    BY DEF SRInit
  <2>6. BoxesApart
    BY <2>1, <2>3, <2>4, <2>5 DEF SRInit, BoxesApart
  <2>7. PairsBegun /\ ServiceStandsAtTurn /\ OracleIsCurrent /\ AnswersAreCached /\ DraftsAreDecided
    BY <2>1, <2>3, <2>4, <2>5
       DEF SRInit, PairsBegun, ServiceStandsAtTurn, OracleIsCurrent, AnswersAreCached, DraftsAreDecided
  <2>8. OracleInOrder
    BY DEF SRInit, OracleInOrder
  <2>9. DraftsOut = {} /\ Begun = 0
    BY DEF SRInit, DraftsOut, Begun
  <2>10. DraftsAreCounted
    BY <2>1, <2>3, <2>9, FS_EmptySet DEF SRInit, DraftsAreCounted
  <2> QED BY <2>2, <2>6, <2>7, <2>8, <2>10 DEF SpecInv
<1>2. SpecInv /\ [SRNext]_srvars => SpecInv'
  <2> SUFFICES ASSUME SpecInv, [SRNext]_srvars PROVE SpecInv'
    OBVIOUS
  <2>1. CASE StartTurn
    BY <2>1, StartTurnKeeps
  <2>2. CASE WithoutDraft \/ Reject
    BY <2>2, OracleTurnKeeps
  <2>3. CASE OracleFails \/ \E r \in Roles : Timeout(r)
    BY <2>3, FailureKeeps
  <2>4. CASE RunDraft
    BY <2>4, RunDraftKeeps
  <2>5. CASE PromoteDraft
    BY <2>5, PromoteKeeps
  <2>6. ASSUME NEW r \in wire, ServeSpec(r) PROVE SpecInv'
    <3>1. r \in [role : Roles, pair : Nat, to : BoxIds] /\ SpecTypes /\ BoxesApart
      BY DEF SpecInv, SpecTypes
    <3>2. /\ Handle(r) /\ wire' = wire \ {r}
          /\ UNCHANGED <<recorded, right, abox, forkbox, nbox, spc, sturn, pend, dups, oracled, skewed>>
      BY <2>6 DEF ServeSpec
    <3>3. CASE ServedFirst(r)
      BY <3>3, ServedHereKeeps, ServedElsewhereKeeps
    <3>4. CASE ~ServedFirst(r)
      BY <3>1, <3>2, <3>4, HandleCases, ServedAgainKeeps, Zenon DEF ServedFirst
    <3> QED BY <3>3, <3>4
  <2>7. ASSUME NEW p \in pend, Send(p) PROVE SpecInv'
    BY <2>7, SendKeeps
  <2>8. ASSUME NEW role \in Roles, ServeTwice(role) PROVE SpecInv'
    BY <2>8, ServeTwiceKeeps
  <2>9. CASE UNCHANGED srvars
    <3>1. UNCHANGED <<recorded, right, svc, abox, forkbox, nbox, spc, sturn, pend, wire, got, dups, oracled, skewed>>
      BY <2>9 DEF srvars
    <3>2. Begun' = Begun /\ DraftsOut' = DraftsOut
      BY <3>1 DEF Begun, DraftsOut
    <3>3. SpecTypes' /\ BoxesApart' /\ PairsBegun' /\ OracleInOrder' /\ ServiceStandsAtTurn'
      BY <3>1, <3>2, Zenon DEF SpecInv, SpecTypes, BoxesApart, PairsBegun, OracleInOrder, ServiceStandsAtTurn
    <3>4. OracleIsCurrent' /\ AnswersAreCached' /\ DraftsAreCounted' /\ DraftsAreDecided'
      BY <3>1, <3>2, Zenon
         DEF SpecInv, OracleIsCurrent, OracleEntry, AnswersAreCached, Cached, DraftsAreCounted, DraftsAreDecided
    <3> QED BY <3>3, <3>4 DEF SpecInv
  <2> QED BY <2>1, <2>2, <2>3, <2>4, <2>5, <2>6, <2>7, <2>8, <2>9 DEF SRNext
<1>3. SpecInv => SpeculationIsFaithful
  <2> SUFFICES ASSUME SpecInv PROVE SpeculationIsFaithful
    OBVIOUS
  <2> USE SpecReplayAssumption DEF SpecInv
  <2>1. SRTypeOK
    <3>1. \A b \in BoxIds : svc[b].oc \in -1..SpecLen /\ svc[b].dc \in -1..SpecLen
      BY DEF SpecTypes, Service
    <3>2. \A r \in Roles : got[r].index \in -2..(SpecLen - 1)
      BY DEF SpecTypes, Reply
    <3> QED BY <3>1, <3>2 DEF SRTypeOK, SpecTypes, BoxesApart
  <2>2. DraftsCatchUp
    <3>1. svc[abox].acc + svc[abox].rej = svc[abox].dc /\ svc[abox].dc \in Nat
      BY OwnService
    <3>2. ASSUME ~skewed, spc = "idle", \A p \in pend : p.role # "draft", \A r \in wire : r.role # "draft"
          PROVE  svc[abox].dc = sturn
      <4>1. DraftsOut = {} /\ Begun = sturn
        BY <3>2 DEF DraftsOut, Begun, SpecTypes
      <4>2. svc[abox].dc + Cardinality(DraftsOut) = Begun
        BY <3>2 DEF DraftsAreCounted
      <4> QED BY <3>1, <4>1, <4>2, FS_EmptySet
    <3> QED BY <3>1, <3>2 DEF DraftsCatchUp
  <2> QED BY <2>1, <2>2 DEF SpeculationIsFaithful
<1> QED BY <1>1, <1>2, <1>3, PTL DEF SRSpec

-----------------------------------------------------------------------------
(* The daemon's activity gate.                                             *)

\* Who holds a command slot, a background slot, the lifecycle claim; who
\* works on the sandbox; who keeps the backpressure event cleared.
CommandHolders == {t \in Threads : dpc[t] \in InCommand}
BackgroundHolders == {t \in Threads : dpc[t] = "spawn" \/ bg[t] \in InBackground}
Claimants == {t \in Threads : dpc[t] \in InLifecycle}
Workers == {t \in Threads : dpc[t] \in Working}
Checkpointing == {t \in Threads : dpc[t] \in {"reserve", "spawn"}
                                    \/ bg[t] \in {"checkpoint", "publish"}}

\* A thread has no background thread before it has spawned one.
NotSpawned == \A t \in Threads : dpc[t] \in {"end_command", "done"} \/ bg[t] = "none"

Counts == /\ gate.commands = Cardinality(CommandHolders)
          /\ gate.background = Cardinality(BackgroundHolders)
OneClaim == /\ gate.lifecycle <=> Claimants # {}
            /\ \A t, u \in Claimants : t = u
Drained == Workers # {} => CommandHolders = {} /\ BackgroundHolders = {}
EventHeld == ~idle => Checkpointing # {}

GInv == DTypeOK /\ NotSpawned /\ Counts /\ OneClaim /\ Drained /\ EventHeld

\* The threads inside a command or a background task are finitely many.
LEMMA HoldersFinite ==
  /\ IsFiniteSet(CommandHolders) /\ IsFiniteSet(BackgroundHolders)
  /\ CommandHolders \in SUBSET Threads /\ BackgroundHolders \in SUBSET Threads
  /\ Cardinality(CommandHolders) \in Nat /\ Cardinality(BackgroundHolders) \in Nat
<1>1. CommandHolders \in SUBSET Threads /\ BackgroundHolders \in SUBSET Threads
  BY DEF CommandHolders, BackgroundHolders
<1>2. IsFiniteSet(CommandHolders) /\ IsFiniteSet(BackgroundHolders)
  BY <1>1, FS_Subset, DaemonAssumption
<1> QED BY <1>1, <1>2, FS_CardinalityType

\* The invariant implies what the runs check.
LEMMA GInvSuffices == GInv => QuiescentLifecycle /\ GateDrained
<1> SUFFICES ASSUME GInv PROVE QuiescentLifecycle /\ GateDrained
  OBVIOUS
<1>1. QuiescentLifecycle
  BY DEF GInv, Drained, OneClaim, QuiescentLifecycle, Workers, CommandHolders,
         BackgroundHolders, Claimants, Working, InLifecycle
<1>2. GateDrained
  <2> SUFFICES ASSUME \A t \in Threads : dpc[t] \in {"new", "done"} /\ bg[t] \in {"none", "done"}
               PROVE  gate = [commands |-> 0, background |-> 0, lifecycle |-> FALSE] /\ idle
    BY DEF GateDrained
  <2>1. CommandHolders = {} /\ BackgroundHolders = {} /\ Claimants = {} /\ Checkpointing = {}
    BY DEF CommandHolders, BackgroundHolders, Claimants, Checkpointing, InCommand,
           InBackground, InLifecycle
  <2>2. gate.commands = 0 /\ gate.background = 0 /\ ~gate.lifecycle /\ idle
    BY <2>1, FS_EmptySet DEF GInv, Counts, OneClaim, EventHeld
  <2> QED BY <2>2 DEF GInv, DTypeOK
<1> QED BY <1>1, <1>2

\* A daemon that has just started satisfies the invariant.
LEMMA InitGInv == DInit => GInv
<1> SUFFICES ASSUME DInit PROVE GInv
  OBVIOUS
<1>1. DTypeOK
  BY DEF DInit, DTypeOK
<1>2. CommandHolders = {} /\ BackgroundHolders = {} /\ Claimants = {} /\ Workers = {}
  BY DEF DInit, CommandHolders, BackgroundHolders, Claimants, Workers, InCommand,
         InBackground, InLifecycle, Working
<1>3. Counts /\ OneClaim /\ Drained /\ EventHeld /\ NotSpawned
  BY <1>2, FS_EmptySet DEF DInit, Counts, OneClaim, Drained, EventHeld, NotSpawned
<1> QED BY <1>1, <1>3 DEF GInv

\* Every action keeps the types.
LEMMA TypeStep == DTypeOK /\ [DNext]_dvars => DTypeOK'
<1> SUFFICES ASSUME DTypeOK, [DNext]_dvars PROVE DTypeOK'
  OBVIOUS
<1> USE DEF DTypeOK, Goto, Answer, Keep, Less, threadVars, storeVars, boxVars
<1>0. CASE UNCHANGED dvars
  BY <1>0 DEF dvars
<1>1. SUFFICES ASSUME NEW t \in Threads, Dispatch(t) \/ Handler(t) \/ Background(t)
               PROVE  DTypeOK'
  BY <1>0 DEF DNext
<1>2. CASE Dispatch(t)
  BY <1>2, DaemonAssumption DEF Dispatch, InCommand, InLifecycle
<1>3. CASE WaitIdle(t)
  BY <1>3 DEF WaitIdle, InCommand, InLifecycle
<1>4. CASE BeginCommand(t)
  BY <1>4 DEF BeginCommand, InCommand, InLifecycle
<1>5. CASE EndCommand(t)
  BY <1>5 DEF EndCommand, InCommand, InLifecycle
<1>6. CASE ClaimLifecycle(t)
  BY <1>6, Zenon DEF ClaimLifecycle, InCommand, InLifecycle
<1>7. CASE DrainLifecycle(t)
  BY <1>7, Zenon DEF DrainLifecycle, InCommand, InLifecycle
<1>8. CASE EndLifecycle(t)
  BY <1>8, Zenon DEF EndLifecycle, InCommand, InLifecycle
<1>9. CASE RunExec(t)
  BY <1>9 DEF RunExec, InCommand, InLifecycle
<1>10. CASE RegisterJob(t)
  BY <1>10 DEF RegisterJob, InCommand, InLifecycle
<1>11. CASE MarkBusy(t)
  BY <1>11, Zenon DEF MarkBusy, InCommand, InLifecycle
<1>12. CASE BeginBackground(t)
  BY <1>12 DEF BeginBackground, InCommand, InLifecycle
<1>13. CASE SpawnBackground(t)
  <2>1. dpc' = [dpc EXCEPT ![t] = "end_command"] /\ did' = did /\ job' = job
        /\ run' = run /\ manifests' = manifests
    BY <1>13 DEF SpawnBackground
  <2>2. idle' \in BOOLEAN
    BY <1>13, Zenon DEF SpawnBackground
  <2>4. gate' = gate \/ gate' = [gate EXCEPT !.background = Less(@)]
    BY <1>13 DEF SpawnBackground
  <2>5. gate' \in [commands : Nat, background : Nat, lifecycle : BOOLEAN]
    BY <2>4
  <2>3. bg' \in [Threads -> {"none", "done"} \cup InBackground]
    BY <1>13 DEF SpawnBackground, InBackground
  <2> QED BY <2>1, <2>2, <2>3, <2>5, Zenon DEF InCommand
<1>14. CASE BackgroundCheckpoint(t)
  BY <1>14 DEF BackgroundCheckpoint, Dump, InBackground
<1>15. CASE PublishIdle(t)
  BY <1>15 DEF PublishIdle, InBackground
<1>16. CASE EndBackground(t)
  BY <1>16 DEF EndBackground, InBackground
<1>17. CASE KillBody(t)
  BY <1>17 DEF KillBody, InCommand, InLifecycle
<1>18. CASE StopBody(t)
  BY <1>18 DEF StopBody, StopRuntime, InCommand, InLifecycle
<1>19. CASE PauseBody(t)
  BY <1>19 DEF PauseBody, InCommand, InLifecycle
<1>20. CASE CheckpointBody(t)
  BY <1>20 DEF CheckpointBody, Dump, InCommand, InLifecycle
<1>21. CASE CheckpointStopDump(t)
  BY <1>21 DEF CheckpointStopDump, Dump, InCommand, InLifecycle
<1>22. CASE CheckpointStopStop(t)
  BY <1>22 DEF CheckpointStopStop, StopRuntime, InCommand, InLifecycle
<1>23. CASE DirectRoute(t)
  BY <1>23 DEF DirectRoute, Resume, Relaunch, InCommand, InLifecycle
<1> QED BY <1>1, <1>2, <1>3, <1>4, <1>5, <1>6, <1>7, <1>8, <1>9, <1>10, <1>11, <1>12, <1>13, <1>14, <1>15, <1>16, <1>17, <1>18, <1>19, <1>20, <1>21, <1>22, <1>23, Zenon DEF Handler, Background

\* A step that leaves the gate alone and moves no thread into or out of a
\* slot keeps the invariant.
LEMMA SameHolders ==
  ASSUME GInv, DTypeOK', NotSpawned', gate' = gate, idle' = idle \/ idle',
         CommandHolders' = CommandHolders, BackgroundHolders' = BackgroundHolders,
         Claimants' = Claimants, Workers' \subseteq Workers,
         Checkpointing \subseteq Checkpointing' \/ idle'
  PROVE  GInv'
<1>1. Counts' /\ OneClaim' /\ Drained' /\ EventHeld'
  BY DEF GInv, Counts, OneClaim, Drained, EventHeld
<1> QED BY <1>1 DEF GInv

\* A request thread goes on to x without entering or leaving a slot, the
\* claim or a checkpoint.
Within(t, x) ==
  /\ dpc' = [dpc EXCEPT ![t] = x] /\ bg' = bg /\ gate' = gate /\ idle' = idle
  /\ dpc[t] \in InCommand <=> x \in InCommand
  /\ dpc[t] \in InLifecycle <=> x \in InLifecycle
  /\ x \in Working => dpc[t] \in Working
  /\ dpc[t] \notin {"reserve", "spawn", "end_command", "done"} /\ x \notin {"reserve", "spawn"}

\* Such a step keeps the invariant.
LEMMA WithinKeeps ==
  ASSUME GInv, DTypeOK', NEW t \in Threads, NEW x, Within(t, x)
  PROVE  GInv'
<1>1. /\ dpc'[t] = x /\ \A u \in Threads : u # t => dpc'[u] = dpc[u]
      /\ bg' = bg /\ gate' = gate /\ idle' = idle
  BY DEF Within, GInv, DTypeOK
<1>2. /\ \A u \in Threads : dpc'[u] \in InCommand <=> dpc[u] \in InCommand
      /\ \A u \in Threads : dpc'[u] \in InLifecycle <=> dpc[u] \in InLifecycle
      /\ \A u \in Threads : dpc'[u] \in Working => dpc[u] \in Working
      /\ \A u \in Threads : dpc'[u] = "reserve" <=> dpc[u] = "reserve"
      /\ \A u \in Threads : dpc'[u] = "spawn" <=> dpc[u] = "spawn"
  BY <1>1, Zenon DEF Within
<1>3. CommandHolders' = CommandHolders /\ Claimants' = Claimants /\ Workers' \subseteq Workers
  BY <1>2, Zenon DEF CommandHolders, Claimants, Workers
<1>4. BackgroundHolders' = BackgroundHolders /\ Checkpointing' = Checkpointing
  BY <1>1, <1>2, Zenon DEF BackgroundHolders, Checkpointing
<1>5. NotSpawned'
  BY <1>1, Zenon DEF Within, GInv, NotSpawned
<1> QED BY <1>1, <1>3, <1>4, <1>5, SameHolders, Zenon

\* Every step of a request or background thread keeps the invariant.
LEMMA StepGInv == GInv /\ [DNext]_dvars => GInv'
<1> SUFFICES ASSUME GInv, [DNext]_dvars PROVE GInv'
  OBVIOUS
<1>0. DTypeOK /\ DTypeOK'
  BY TypeStep DEF GInv
<1>1. CASE UNCHANGED dvars
  BY <1>0, <1>1, SameHolders DEF dvars, threadVars, GInv, NotSpawned, CommandHolders,
     BackgroundHolders, Claimants, Workers, Checkpointing
<1>2. SUFFICES ASSUME NEW t \in Threads, Dispatch(t) \/ Handler(t) \/ Background(t)
               PROVE  GInv'
  BY <1>1 DEF DNext
<1> USE DEF Goto, Keep, Less, threadVars, DTypeOK, NotSpawned
<1>3. CASE Dispatch(t)
  <2>1. Within(t, "wait_idle") \/ Within(t, "begin_command") \/ Within(t, "begin_lifecycle") \/ Within(t, "direct")
    BY <1>3, DaemonAssumption, Zenon DEF Within, Dispatch, InCommand, InLifecycle, Working
  <2> QED BY <1>0, <2>1, WithinKeeps, Zenon
<1>4. CASE WaitIdle(t)
  <2>1. Within(t, "begin_command") \/ Within(t, "done")
    BY <1>4 DEF Within, WaitIdle, InCommand, InLifecycle, Working
  <2> QED BY <1>0, <2>1, WithinKeeps, Zenon
<1>5. CASE RunExec(t)
  <2>1. Within(t, "register") \/ Within(t, "end_command")
    BY <1>5, Zenon DEF Within, RunExec, InCommand, InLifecycle, Working
  <2> QED BY <1>0, <2>1, WithinKeeps, Zenon
<1>6. CASE RegisterJob(t)
  <2>1. Within(t, "busy")
    BY <1>6 DEF Within, RegisterJob, InCommand, InLifecycle, Working
  <2> QED BY <1>0, <2>1, WithinKeeps, Zenon
<1>7. CASE KillBody(t)
  <2>1. Within(t, "end_lifecycle")
    BY <1>7 DEF Within, KillBody, InCommand, InLifecycle, Working
  <2> QED BY <1>0, <2>1, WithinKeeps, Zenon
<1>8. CASE StopBody(t)
  <2>1. Within(t, "end_lifecycle")
    BY <1>8 DEF Within, StopBody, InCommand, InLifecycle, Working
  <2> QED BY <1>0, <2>1, WithinKeeps, Zenon
<1>9. CASE PauseBody(t)
  <2>1. Within(t, "end_lifecycle")
    BY <1>9 DEF Within, PauseBody, InCommand, InLifecycle, Working
  <2> QED BY <1>0, <2>1, WithinKeeps, Zenon
<1>10. CASE CheckpointBody(t)
  <2>1. Within(t, "end_lifecycle")
    BY <1>10 DEF Within, CheckpointBody, InCommand, InLifecycle, Working
  <2> QED BY <1>0, <2>1, WithinKeeps, Zenon
<1>11. CASE CheckpointStopDump(t)
  <2>1. Within(t, "retry_stop") \/ Within(t, "stop") \/ Within(t, "end_lifecycle")
    BY <1>11 DEF Within, CheckpointStopDump, InCommand, InLifecycle, Working
  <2> QED BY <1>0, <2>1, WithinKeeps, Zenon
<1>12. CASE CheckpointStopStop(t)
  <2>1. Within(t, "end_lifecycle")
    BY <1>12 DEF Within, CheckpointStopStop, InCommand, InLifecycle, Working
  <2> QED BY <1>0, <2>1, WithinKeeps, Zenon
<1>13. CASE DirectRoute(t)
  <2>1. Within(t, "done")
    BY <1>13 DEF Within, DirectRoute, InCommand, InLifecycle, Working
  <2> QED BY <1>0, <2>1, WithinKeeps, Zenon
<1>14. CASE BackgroundCheckpoint(t)
  <2>1. CommandHolders' = CommandHolders /\ BackgroundHolders' = BackgroundHolders
        /\ Claimants' = Claimants /\ Workers' \subseteq Workers
        /\ Checkpointing' = Checkpointing /\ NotSpawned' /\ gate' = gate /\ idle' = idle
    BY <1>0, <1>14 DEF GInv, BackgroundCheckpoint, Dump, CommandHolders, BackgroundHolders, Claimants,
       Workers, Checkpointing, InCommand, InBackground, InLifecycle, Working
  <2> QED BY <1>0, <2>1, SameHolders
<1>15. CASE MarkBusy(t)
  <2>1. CommandHolders' = CommandHolders /\ BackgroundHolders' = BackgroundHolders
        /\ Claimants' = Claimants /\ Workers' = Workers
        /\ t \in Checkpointing' /\ NotSpawned' /\ gate' = gate
    BY <1>0, <1>15 DEF GInv, MarkBusy, CommandHolders, BackgroundHolders, Claimants,
       Workers, Checkpointing, InCommand, InBackground, InLifecycle, Working
  <2> QED BY <1>0, <2>1 DEF GInv, Counts, OneClaim, Drained, EventHeld
<1>16. CASE PublishIdle(t)
  <2>1. CommandHolders' = CommandHolders /\ BackgroundHolders' = BackgroundHolders
        /\ Claimants' = Claimants /\ Workers' = Workers
        /\ NotSpawned' /\ gate' = gate /\ idle'
    BY <1>0, <1>16 DEF GInv, PublishIdle, CommandHolders, BackgroundHolders, Claimants,
       Workers, Checkpointing, InCommand, InBackground, InLifecycle, Working
  <2> QED BY <1>0, <2>1 DEF GInv, Counts, OneClaim, Drained, EventHeld
<1>17. CASE BeginCommand(t)
  <2>1. CASE dpc'[t] = "exec"
    <3>1. CommandHolders' = CommandHolders \cup {t} /\ t \notin CommandHolders
          /\ BackgroundHolders' = BackgroundHolders /\ Claimants' = Claimants
          /\ Workers' = Workers /\ Checkpointing' = Checkpointing /\ NotSpawned'
          /\ ~gate.lifecycle /\ idle' = idle /\ gate'.lifecycle = gate.lifecycle
          /\ gate'.commands = gate.commands + 1 /\ gate'.background = gate.background
      BY <1>0, <1>17, <2>1 DEF GInv, BeginCommand, CommandHolders, BackgroundHolders, Claimants,
       Workers, Checkpointing, InCommand, InBackground, InLifecycle, Working
    <3>2. Workers \subseteq Claimants
      BY DEF Workers, Claimants, Working, InLifecycle
    <3>3. Cardinality(CommandHolders') = Cardinality(CommandHolders) + 1
      BY <3>1, HoldersFinite, FS_AddElement, Zenon
    <3>4. Counts'
      BY <3>1, <3>3 DEF GInv, Counts
    <3> QED BY <1>0, <3>1, <3>2, <3>4 DEF GInv, OneClaim, Drained, EventHeld
  <2>2. CASE dpc'[t] = "done"
    <3>1. CommandHolders' = CommandHolders /\ BackgroundHolders' = BackgroundHolders
          /\ Claimants' = Claimants /\ Workers' \subseteq Workers
          /\ Checkpointing' = Checkpointing /\ NotSpawned' /\ gate' = gate /\ idle' = idle
      BY <1>0, <1>17, <2>2 DEF GInv, BeginCommand, CommandHolders, BackgroundHolders, Claimants,
       Workers, Checkpointing, InCommand, InBackground, InLifecycle, Working
    <3> QED BY <1>0, <3>1, SameHolders
  <2> QED BY <1>0, <1>17, <2>1, <2>2 DEF BeginCommand
<1>18. CASE EndCommand(t)
  <2>1. CommandHolders' = CommandHolders \ {t} /\ t \in CommandHolders
        /\ BackgroundHolders' = BackgroundHolders /\ Claimants' = Claimants
        /\ Workers' = Workers /\ Checkpointing' = Checkpointing /\ NotSpawned'
        /\ idle' = idle /\ gate'.lifecycle = gate.lifecycle
        /\ gate'.commands = Less(gate.commands) /\ gate'.background = gate.background
    BY <1>0, <1>18 DEF GInv, EndCommand, CommandHolders, BackgroundHolders, Claimants,
       Workers, Checkpointing, InCommand, InBackground, InLifecycle, Working
  <2>2. Cardinality(CommandHolders) # 0
    BY <2>1, HoldersFinite, FS_EmptySet
  <2> QED BY <1>0, <2>1, <2>2, HoldersFinite, FS_RemoveElement, Zenon DEF GInv, Counts, OneClaim, Drained, EventHeld
<1>19. CASE ClaimLifecycle(t)
  <2>1. CASE dpc'[t] = "drain"
    <3>1. CommandHolders' = CommandHolders /\ BackgroundHolders' = BackgroundHolders
          /\ Claimants' = Claimants \cup {t} /\ ~gate.lifecycle
          /\ Workers' = Workers /\ Checkpointing' = Checkpointing /\ NotSpawned'
          /\ idle' = idle /\ gate'.lifecycle
          /\ gate'.commands = gate.commands /\ gate'.background = gate.background
      BY <1>0, <1>19, <2>1 DEF GInv, ClaimLifecycle, CommandHolders, BackgroundHolders, Claimants,
       Workers, Checkpointing, InCommand, InBackground, InLifecycle, Working
    <3> QED BY <1>0, <3>1 DEF GInv, Counts, OneClaim, Drained, EventHeld
  <2>2. CASE dpc'[t] = "done"
    <3>1. CommandHolders' = CommandHolders /\ BackgroundHolders' = BackgroundHolders
          /\ Claimants' = Claimants /\ Workers' \subseteq Workers
          /\ Checkpointing' = Checkpointing /\ NotSpawned' /\ gate' = gate /\ idle' = idle
      BY <1>0, <1>19, <2>2 DEF GInv, ClaimLifecycle, CommandHolders, BackgroundHolders, Claimants,
       Workers, Checkpointing, InCommand, InBackground, InLifecycle, Working
    <3> QED BY <1>0, <3>1, SameHolders
  <2> QED BY <1>0, <1>19, <2>1, <2>2 DEF ClaimLifecycle
<1>20. CASE DrainLifecycle(t)
  <2>1. CASE dpc'[t] = "body"
    <3>1. CommandHolders' = CommandHolders /\ BackgroundHolders' = BackgroundHolders
          /\ Claimants' = Claimants /\ gate.commands = 0 /\ gate.background = 0
          /\ Checkpointing' = Checkpointing /\ NotSpawned' /\ gate' = gate /\ idle' = idle
      BY <1>0, <1>20, <2>1 DEF GInv, DrainLifecycle, CommandHolders, BackgroundHolders, Claimants,
       Workers, Checkpointing, InCommand, InBackground, InLifecycle, Working
    <3>2. CommandHolders = {} /\ BackgroundHolders = {}
      BY <3>1, HoldersFinite, FS_EmptySet, Zenon DEF GInv, Counts
    <3> QED BY <1>0, <3>1, <3>2 DEF GInv, Counts, OneClaim, Drained, EventHeld
  <2>2. CASE dpc'[t] = "done"
    <3>1. CommandHolders' = CommandHolders /\ BackgroundHolders' = BackgroundHolders
          /\ Claimants' = Claimants \ {t} /\ t \in Claimants
          /\ Workers' = Workers /\ Checkpointing' = Checkpointing /\ NotSpawned'
          /\ idle' = idle /\ ~gate'.lifecycle
          /\ gate'.commands = gate.commands /\ gate'.background = gate.background
      BY <1>0, <1>20, <2>2 DEF GInv, DrainLifecycle, CommandHolders, BackgroundHolders, Claimants,
       Workers, Checkpointing, InCommand, InBackground, InLifecycle, Working
    <3> QED BY <1>0, <3>1 DEF GInv, Counts, OneClaim, Drained, EventHeld
  <2> QED BY <1>0, <1>20, <2>1, <2>2 DEF DrainLifecycle
<1>21. CASE EndLifecycle(t)
  <2>1. CommandHolders' = CommandHolders /\ BackgroundHolders' = BackgroundHolders
        /\ Claimants' = Claimants \ {t} /\ t \in Claimants
        /\ Workers' = Workers /\ Checkpointing' = Checkpointing /\ NotSpawned'
        /\ idle' = idle /\ ~gate'.lifecycle
        /\ gate'.commands = gate.commands /\ gate'.background = gate.background
    BY <1>0, <1>21 DEF GInv, EndLifecycle, CommandHolders, BackgroundHolders, Claimants,
       Workers, Checkpointing, InCommand, InBackground, InLifecycle, Working
  <2> QED BY <1>0, <2>1 DEF GInv, Counts, OneClaim, Drained, EventHeld
<1>22. CASE BeginBackground(t)
  <2>1. CommandHolders' = CommandHolders /\ t \in CommandHolders
        /\ BackgroundHolders' = BackgroundHolders \cup {t} /\ t \notin BackgroundHolders
        /\ Claimants' = Claimants /\ Workers' = Workers /\ Checkpointing' = Checkpointing
        /\ NotSpawned' /\ idle' = idle /\ gate'.lifecycle = gate.lifecycle
        /\ gate'.commands = gate.commands /\ gate'.background = gate.background + 1
    BY <1>0, <1>22 DEF GInv, BeginBackground, CommandHolders, BackgroundHolders, Claimants,
       Workers, Checkpointing, InCommand, InBackground, InLifecycle, Working
  <2>2. Cardinality(BackgroundHolders') = Cardinality(BackgroundHolders) + 1
    BY <2>1, HoldersFinite, FS_AddElement, Zenon
  <2>3. Counts'
    BY <2>1, <2>2 DEF GInv, Counts
  <2> QED BY <1>0, <2>1, <2>3 DEF GInv, OneClaim, Drained, EventHeld
<1>23. CASE SpawnBackground(t)
  <2>1. CASE bg' = [bg EXCEPT ![t] = "checkpoint"] /\ UNCHANGED <<gate, idle>>
    <3>1. CommandHolders' = CommandHolders /\ BackgroundHolders' = BackgroundHolders
          /\ Claimants' = Claimants /\ Workers' \subseteq Workers
          /\ Checkpointing' = Checkpointing /\ NotSpawned' /\ gate' = gate /\ idle' = idle
      BY <1>0, <1>23, <2>1 DEF GInv, SpawnBackground, CommandHolders, BackgroundHolders, Claimants,
       Workers, Checkpointing, InCommand, InBackground, InLifecycle, Working
    <3> QED BY <1>0, <3>1, SameHolders
  <2>2. CASE idle' = TRUE /\ UNCHANGED bg /\ gate' = [gate EXCEPT !.background = Less(@)]
    <3>1. CommandHolders' = CommandHolders /\ t \in BackgroundHolders
          /\ BackgroundHolders' = BackgroundHolders \ {t}
          /\ Claimants' = Claimants /\ Workers' = Workers /\ NotSpawned'
          /\ gate'.lifecycle = gate.lifecycle /\ gate'.commands = gate.commands
          /\ gate'.background = Less(gate.background) /\ idle'
      BY <1>0, <1>23, <2>2 DEF GInv, SpawnBackground, CommandHolders, BackgroundHolders, Claimants,
       Workers, Checkpointing, InCommand, InBackground, InLifecycle, Working
    <3>2. Cardinality(BackgroundHolders) # 0
      BY <3>1, HoldersFinite, FS_EmptySet
    <3> QED BY <1>0, <3>1, <3>2, HoldersFinite, FS_RemoveElement, Zenon
        DEF GInv, Counts, OneClaim, Drained, EventHeld
  <2> QED BY <1>23, <2>1, <2>2, Zenon DEF SpawnBackground
<1>24. CASE EndBackground(t)
  <2>1. CommandHolders' = CommandHolders /\ t \in BackgroundHolders
        /\ BackgroundHolders' = BackgroundHolders \ {t}
        /\ Claimants' = Claimants /\ Workers' = Workers /\ NotSpawned'
        /\ gate'.lifecycle = gate.lifecycle /\ gate'.commands = gate.commands
        /\ gate'.background = Less(gate.background) /\ idle' = idle
        /\ Checkpointing' = Checkpointing
    BY <1>0, <1>24 DEF GInv, EndBackground, CommandHolders, BackgroundHolders, Claimants,
       Workers, Checkpointing, InCommand, InBackground, InLifecycle, Working
  <2>2. Cardinality(BackgroundHolders) # 0
    BY <2>1, HoldersFinite, FS_EmptySet
  <2> QED BY <1>0, <2>1, <2>2, HoldersFinite, FS_RemoveElement, Zenon
      DEF GInv, Counts, OneClaim, Drained, EventHeld
<1> QED BY <1>2, <1>3, <1>4, <1>5, <1>6, <1>7, <1>8, <1>9, <1>10, <1>11, <1>12, <1>13, <1>14, <1>15, <1>16, <1>17, <1>18, <1>19, <1>20, <1>21, <1>22, <1>23, <1>24 DEF Handler, Background

\* The gate's counters always say who is inside.
THEOREM GateInvariance == DSpec => []GInv
<1>1. DInit => GInv
  BY InitGInv
<1>2. GInv /\ [DNext]_dvars => GInv'
  BY StepGInv
<1> QED BY <1>1, <1>2, PTL DEF DSpec

\* Between its drain and the release of its claim, a lifecycle route of the
\* daemon (kill, stop, pause, checkpoint, checkpoint-stop, fork) has the
\* sandbox to itself, for any number of concurrent requests.
THEOREM LifecycleIsQuiescent == DSpec => []QuiescentLifecycle
BY GateInvariance, GInvSuffices, PTL

\* No path through the handlers leaks a slot, the claim or the event.
THEOREM GateDrains == DSpec => []GateDrained
BY GateInvariance, GInvSuffices, PTL

\* begin_command never lets a command in while a background checkpoint runs.
THEOREM CommandsWait == DSpec => CommandWaitsForCheckpoint
<1> DEFINE A == \A t \in Threads : (dpc[t] # "exec" /\ dpc'[t] = "exec")
                    => \A u \in Threads : bg[u] # "checkpoint"
<1>1. GInv /\ [DNext]_dvars => [A]_dvars
  <2> SUFFICES ASSUME GInv, DNext, NEW t \in Threads, dpc[t] # "exec", dpc'[t] = "exec"
               PROVE  \A u \in Threads : bg[u] # "checkpoint"
    OBVIOUS
  <2>1. PICK s \in Threads : Dispatch(s) \/ Handler(s) \/ Background(s)
    BY DEF DNext
  <2>2. BeginCommand(s)
    BY <2>1, DaemonAssumption, Zenon DEF GInv, DTypeOK, Handler, Background, Dispatch, WaitIdle,
       EndCommand, ClaimLifecycle, DrainLifecycle, EndLifecycle, RunExec, RegisterJob,
       MarkBusy, BeginBackground, SpawnBackground, KillBody, StopBody, PauseBody,
       CheckpointBody, CheckpointStopDump, CheckpointStopStop, DirectRoute,
       BackgroundCheckpoint, PublishIdle, EndBackground, Goto, threadVars, Lifecycle, Direct
  <2>3. gate.background = 0
    BY <2>2 DEF BeginCommand, Goto, GInv, DTypeOK
  <2>4. BackgroundHolders = {}
    BY <2>3, HoldersFinite, FS_EmptySet, Zenon DEF GInv, Counts
  <2> QED BY <2>4 DEF BackgroundHolders, InBackground
<1> QED BY <1>1, GateInvariance, PTL DEF DSpec, CommandWaitsForCheckpoint
=============================================================================
