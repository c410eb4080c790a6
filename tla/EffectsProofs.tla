---------------------------- MODULE EffectsProofs ---------------------------
(***************************************************************************)
(* What the effect gate guarantees for any number of connections,          *)
(* transactions and crashes and any bound of its queue: who may send a     *)
(* write, and in what order.  The queue, what a drain took and what was    *)
(* sent are three sequences that are written at different moments, so the  *)
(* invariant orders their writes by when they were queued.                 *)
(***************************************************************************)
EXTENDS Effects, TLAPS

\* Writes that were queued, and writes that have left the host.
Accepted(w) == \E i \in DOMAIN accepted : accepted[i].write = w
Sent(w) == \E c \in DOMAIN world : world[c] = w

\* v was queued before w was, if both were.
Before(v, w) == \A i, j \in DOMAIN accepted : accepted[i].write = v /\ accepted[j].write = w => i < j

\* A session is that of the newest transaction, from begin_txn until its end.
SessionIsNewest ==
    /\ session # NoTxn => session = txn /\ kpc \in {"open", "flush", "flushLog", "commitEnd", "abort",
                                                   "drop", "dropLog", "abortEnd", "killLog", "killEnd"}
    /\ session = NoTxn => queue = <<>>
    /\ kpc \in {"stamped", "open", "abort", "flush", "flushLog"} => txn # NoTxn
    /\ kpc \in {"open", "abort"} => outcome[txn] = "open"
    /\ kpc \in {"flush", "flushLog"} => outcome[txn] = "committed"
    /\ kpc = "flushLog" => drained # <<>>
    /\ \A i \in DOMAIN accepted : accepted[i].txn <= txn /\ (kpc = "stamped" => accepted[i].txn < txn)

\* A connection has sent its write or had it queued only where its program
\* counter says so.
ConnectionsTell ==
    \A w \in Writes :
        /\ xpc[w] \in {"new", "send", "queueing", "rejected"} => ~Accepted(w) /\ ~Sent(w)
        /\ Accepted(w) => xpc[w] \in {"queued", "deferred", "over"}

\* What waits was queued: in the session, or in the transaction that commits.
WaitingWasQueued ==
    /\ \A b \in DOMAIN queue : Accepted(queue[b])
    /\ \A a \in DOMAIN drained : Accepted(drained[a])
    /\ \A i \in DOMAIN accepted : \A b \in DOMAIN queue : accepted[i].write = queue[b] => accepted[i].txn = session
    /\ kpc \in {"flush", "flushLog"} =>
         \A i \in DOMAIN accepted : \A a \in DOMAIN drained : accepted[i].write = drained[a] => accepted[i].txn = txn
    /\ \A i \in DOMAIN accepted : Sent(accepted[i].write) => outcome[accepted[i].txn] = "committed"

\* The writes sent, those taken by a drain and those queued were queued in
\* this order; the one that is being sent may be counted twice.
LinesUp ==
    /\ \A a, b \in DOMAIN drained : a < b => Before(drained[a], drained[b])
    /\ \A a, b \in DOMAIN queue : a < b => Before(queue[a], queue[b])
    /\ \A a, b \in DOMAIN world : a < b => Before(world[a], world[b])
    /\ \A a \in DOMAIN drained, b \in DOMAIN queue : Before(drained[a], queue[b])
    /\ \A c \in DOMAIN world, b \in DOMAIN queue : Before(world[c], queue[b])
    /\ \A c \in DOMAIN world, a \in DOMAIN drained :
         a # 1 \/ kpc # "flushLog" => Before(world[c], drained[a])

EffectInv == ETypeOK /\ SessionIsNewest /\ ConnectionsTell /\ WaitingWasQueued /\ LinesUp /\ SentAtMostOnce

\* A sequence without its first element.
LEMMA TailOf ==
  ASSUME NEW S, NEW s \in Seq(S), s # <<>>
  PROVE  /\ Head(s) \in S /\ Head(s) = s[1] /\ 1 \in DOMAIN s
         /\ Tail(s) \in Seq(S) /\ Len(Tail(s)) = Len(s) - 1
         /\ \A a \in DOMAIN Tail(s) : a + 1 \in DOMAIN s /\ Tail(s)[a] = s[a + 1] /\ a \in Nat /\ a # 0
  OBVIOUS

\* A sequence with one more element.
LEMMA AppendTo ==
  ASSUME NEW S, NEW s \in Seq(S), NEW e \in S
  PROVE  /\ Append(s, e) \in Seq(S) /\ Len(Append(s, e)) = Len(s) + 1
         /\ DOMAIN s = 1..Len(s) /\ DOMAIN Append(s, e) = 1..(Len(s) + 1)
         /\ \A a \in DOMAIN s : Append(s, e)[a] = s[a]
         /\ Append(s, e)[Len(s) + 1] = e
  OBVIOUS

\* The steps of a transaction's caller keep the types.
LEMMA CallerTypes ==
  ASSUME ETypeOK, SessionIsNewest, Caller
  PROVE  ETypeOK'
<1> USE FlowsAssumption, BoundsAssumption DEF CallStep, gateState, callState, proxyState, seen
<1>t. /\ queue \in Seq(Writes) /\ Len(queue) <= MaxQueue /\ drained \in Seq(Writes)
      /\ world \in Seq(Writes) /\ ledger \in Seq(Row)
  BY DEF ETypeOK
<1>e. <<>> \in Seq(Writes) /\ Len(<<>>) <= MaxQueue
  OBVIOUS
<1>0. xpc' = xpc /\ decidedIn' = decidedIn /\ crashes' = crashes
  BY DEF Caller
<1>1. /\ kpc' \in CallPc /\ session' \in {NoTxn} \cup TxnIds
      /\ stamp' \in {NoTxn} \cup TxnIds /\ txn' \in {NoTxn} \cup TxnIds
  <2>1. kpc' \in CallPc
    BY Zenon DEF Caller, ETypeOK, CallPc, BeginStamp, BeginSession, CommitDrain, FlushSend, FlushLog, Flushed, EndSession,
           ClearTxn, AbortCheck, AbortFails, AbortDrain, KillDrain, DropLog, Dropped
  <2>2. \/ UNCHANGED <<session, stamp, txn>>
        \/ txn < MaxTxns /\ txn' = txn + 1 /\ stamp' = txn + 1 /\ session' = session
        \/ session' \in {txn, NoTxn} /\ UNCHANGED <<stamp, txn>>
        \/ stamp' = NoTxn /\ UNCHANGED <<session, txn>>
    BY Zenon DEF Caller, BeginStamp, BeginSession, CommitDrain, FlushSend, FlushLog, Flushed, EndSession,
           ClearTxn, AbortCheck, AbortFails, AbortDrain, KillDrain, DropLog, Dropped, Drain
  <2>3. session \in {NoTxn} \cup TxnIds /\ stamp \in {NoTxn} \cup TxnIds /\ txn \in {NoTxn} \cup TxnIds
    BY DEF ETypeOK
  <2> QED BY <2>1, <2>2, <2>3 DEF NoTxn, TxnIds
<1>2. policy' \in Policies /\ sealed' \in BOOLEAN
  BY Zenon DEF Caller, ETypeOK, Policies, BeginStamp, BeginSession, CommitDrain, FlushSend, FlushLog, Flushed, EndSession,
         ClearTxn, AbortCheck, AbortFails, AbortDrain, KillDrain, DropLog, Dropped, Drain
<1>3. queue' \in Seq(Writes) /\ Len(queue') <= MaxQueue
  <2>1. queue' = queue \/ queue' = <<>>
    BY Zenon DEF Caller, BeginStamp, BeginSession, CommitDrain, FlushSend, FlushLog, Flushed, EndSession,
           ClearTxn, AbortCheck, AbortFails, AbortDrain, KillDrain, DropLog, Dropped, Drain
  <2> QED BY <1>t, <1>e, <2>1, Zenon
<1>4. drained' \in Seq(Writes)
  <2>1. \/ drained' = drained \/ drained' = <<>> \/ drained' = queue
        \/ drained # <<>> /\ drained' = Tail(drained)
    BY Zenon DEF Caller, BeginStamp, BeginSession, CommitDrain, FlushSend, FlushLog, Flushed, EndSession, SessionIsNewest,
           ClearTxn, AbortCheck, AbortFails, AbortDrain, KillDrain, DropLog, Dropped, Drain
  <2>2. drained # <<>> => Tail(drained) \in Seq(Writes)
    BY <1>t, TailOf
  <2> QED BY <1>t, <1>e, <2>1, <2>2, Zenon
<1>5. outcome' \in [TxnIds -> {"none", "open", "committed", "aborted", "killed"}]
  <2>1. \/ outcome' = outcome
        \/ \E o \in {"open", "committed", "killed", "aborted", outcome[txn]} : outcome' = [outcome EXCEPT ![txn] = o]
    BY Zenon DEF Caller, BeginStamp, BeginSession, CommitDrain, FlushSend, FlushLog, Flushed, EndSession,
           ClearTxn, AbortCheck, AbortFails, AbortDrain, KillDrain, DropLog, Dropped, Drain
  <2> QED BY <2>1 DEF ETypeOK
<1>6. accepted' = accepted /\ sealedIn' = sealedIn
  BY Zenon DEF Caller, BeginStamp, BeginSession, CommitDrain, FlushSend, FlushLog, Flushed, EndSession,
         ClearTxn, AbortCheck, AbortFails, AbortDrain, KillDrain, DropLog, Dropped, Drain
<1>7. world' \in Seq(Writes)
  <2>1. world' = world \/ (drained # <<>> /\ world' = Append(world, Head(drained)))
    BY Zenon DEF Caller, BeginStamp, BeginSession, CommitDrain, FlushSend, FlushLog, Flushed, EndSession,
           ClearTxn, AbortCheck, AbortFails, AbortDrain, KillDrain, DropLog, Dropped, Drain
  <2>2. drained # <<>> => Append(world, Head(drained)) \in Seq(Writes)
    BY <1>t, TailOf, AppendTo
  <2> QED BY <1>t, <2>1, <2>2, Zenon
<1>8. ledger' \in Seq(Row)
  <2>1. \/ ledger' = ledger
        \/ drained # <<>> /\ txn \in {NoTxn} \cup TxnIds /\ \E e \in Terminal : ledger' = Append(ledger, [effect |-> e, write |-> Head(drained), txn |-> txn])
    <3>1. CASE FlushLog
      BY <3>1, Zenon DEF FlushLog, FlushResults, Journal, Terminal, SessionIsNewest, ETypeOK
    <3>2. CASE DropLog
      BY <3>2, Zenon DEF DropLog, Journal, Terminal, ETypeOK
    <3>3. CASE ~FlushLog /\ ~DropLog
      BY <3>3, Zenon DEF Caller, BeginStamp, BeginSession, CommitDrain, FlushSend, Flushed, EndSession,
           ClearTxn, AbortCheck, AbortFails, AbortDrain, KillDrain, Dropped, Drain
    <3> QED BY <3>1, <3>2, <3>3, Zenon
  <2>2. ASSUME drained # <<>>, txn \in {NoTxn} \cup TxnIds, NEW e \in Terminal
        PROVE  [effect |-> e, write |-> Head(drained), txn |-> txn] \in Row
    BY <2>2, TailOf DEF ETypeOK, Row
  <2>3. \A r \in Row : Append(ledger, r) \in Seq(Row)
    BY <1>t
  <2> QED BY <1>t, <2>1, <2>2, <2>3, Zenon
<1> QED BY <1>0, <1>1, <1>2, <1>3, <1>4, <1>5, <1>6, <1>7, <1>8 DEF ETypeOK

\* What a sequence holds.
LEMMA ElementOf ==
  ASSUME NEW S, NEW s \in Seq(S), NEW i \in DOMAIN s
  PROVE  s[i] \in S
  OBVIOUS

\* The records of what was queued.
LEMMA AcceptedTypes ==
  ASSUME accepted \in Seq([write : Writes, txn : TxnIds])
  PROVE  \A i \in DOMAIN accepted : accepted[i].txn \in TxnIds /\ accepted[i].write \in Writes
<1> SUFFICES ASSUME NEW i \in DOMAIN accepted
             PROVE  accepted[i].txn \in TxnIds /\ accepted[i].write \in Writes
  OBVIOUS
<1>1. accepted[i] \in [write : Writes, txn : TxnIds]
  BY ElementOf, Zenon
<1> QED BY <1>1

\* Sessions and outcomes under the steps of a transaction's caller; what was
\* committed stays committed.
LEMMA CallerSession ==
  ASSUME EffectInv, Caller
  PROVE  /\ SessionIsNewest'
         /\ \A i \in DOMAIN accepted : outcome[accepted[i].txn] = "committed" => outcome'[accepted[i].txn] = "committed"
<1> USE BoundsAssumption DEF CallStep, gateState, callState, proxyState, seen
<1>1. /\ txn \in {NoTxn} \cup TxnIds /\ session \in {NoTxn} \cup TxnIds
      /\ outcome \in [TxnIds -> {"none", "open", "committed", "aborted", "killed"}]
      /\ SessionIsNewest
      /\ \A i \in DOMAIN accepted : accepted[i].txn \in TxnIds
  BY AcceptedTypes, Zenon DEF EffectInv, ETypeOK
<1>2. CASE BeginStamp
  <2>1. /\ kpc = "idle" /\ kpc' = "stamped" /\ txn' = txn + 1
        /\ UNCHANGED <<session, queue, drained, outcome, accepted>>
    BY <1>2 DEF BeginStamp
  <2>2. session = NoTxn
    BY <1>1, <2>1 DEF SessionIsNewest
  <2> QED BY <1>1, <2>1, <2>2 DEF SessionIsNewest, NoTxn, TxnIds
<1>3. CASE BeginSession
  <2>1. /\ kpc = "stamped" /\ kpc' = "open" /\ txn' = txn /\ session' = txn /\ queue' = <<>>
        /\ outcome' = [outcome EXCEPT ![txn] = "open"]
        /\ UNCHANGED <<drained, accepted>>
    BY <1>3 DEF BeginSession
  <2>2. txn # NoTxn /\ \A i \in DOMAIN accepted : accepted[i].txn < txn
    BY <1>1, <2>1 DEF SessionIsNewest
  <2> QED BY <1>1, <2>1, <2>2 DEF SessionIsNewest, NoTxn, TxnIds
<1>4. CASE CommitDrain \/ KillDrain
  <2>1. /\ kpc = "open" /\ txn' = txn /\ session' = session /\ queue' = <<>>
        /\ \/ kpc' = "flush" /\ outcome' = [outcome EXCEPT ![txn] = "committed"]
           \/ kpc' = "killLog" /\ outcome' = [outcome EXCEPT ![txn] = "killed"]
        /\ UNCHANGED accepted
    BY <1>4 DEF CommitDrain, KillDrain, Drain
  <2>2. txn # NoTxn /\ outcome[txn] = "open"
    BY <1>1, <2>1 DEF SessionIsNewest
  <2> QED BY <1>1, <2>1, <2>2 DEF SessionIsNewest, NoTxn, TxnIds
<1>5. CASE ClearTxn
  <2>1. /\ UNCHANGED <<session, queue, txn, drained, accepted>>
        /\ \/ kpc = "clear" /\ kpc' = "idle" /\ outcome' = outcome
           \/ kpc = "abort" /\ kpc' = "drop" /\ outcome' = [outcome EXCEPT ![txn] = "aborted"]
           \/ kpc = "killClear" /\ kpc' = "dead" /\ outcome' = outcome
    BY <1>1, <1>5, Zenon DEF ClearTxn, NoTxn, TxnIds
  <2>2. kpc = "abort" => txn # NoTxn /\ outcome[txn] = "open"
    BY <1>1, <2>1 DEF SessionIsNewest
  <2> QED BY <1>1, <2>1, <2>2 DEF SessionIsNewest, NoTxn, TxnIds
<1>6. CASE EndSession
  <2>1. /\ UNCHANGED <<txn, drained, outcome, accepted>> /\ session' = NoTxn /\ queue' = <<>>
        /\ kpc' \in {"clear", "idle", "killClear"}
    BY <1>6 DEF EndSession
  <2> QED BY <1>1, <2>1 DEF SessionIsNewest, NoTxn, TxnIds
<1>7. CASE FlushSend \/ FlushLog \/ Flushed \/ AbortCheck \/ AbortFails \/ DropLog \/ Dropped
  <2>1. /\ UNCHANGED <<session, queue, txn, outcome, accepted>>
        /\ \/ kpc = "flush" /\ kpc' = "flushLog" /\ drained # <<>> /\ drained' = drained
           \/ kpc = "flushLog" /\ kpc' = "flush"
           \/ kpc = "flush" /\ kpc' = "commitEnd"
           \/ kpc = "open" /\ kpc' = "abort"
           \/ kpc = "abort" /\ kpc' = "open"
           \/ kpc = "dropLog" /\ kpc' \in {"dropLog", "abortEnd"}
           \/ kpc = "killLog" /\ kpc' \in {"killLog", "killEnd"}
    BY <1>7, Zenon DEF FlushSend, FlushLog, Flushed, AbortCheck, AbortFails, DropLog, Dropped
  <2> QED BY <1>1, <2>1 DEF SessionIsNewest, NoTxn, TxnIds
<1>8. CASE AbortDrain
  <2>1. /\ UNCHANGED <<session, txn, outcome, accepted>> /\ queue' = <<>>
        /\ kpc = "drop" /\ kpc' = "dropLog"
    BY <1>8 DEF AbortDrain, Drain
  <2> QED BY <1>1, <2>1 DEF SessionIsNewest, NoTxn, TxnIds
<1> QED BY <1>2, <1>3, <1>4, <1>5, <1>6, <1>7, <1>8, Zenon DEF Caller

\* The order of the writes when a session ends, or nothing is handed on.
LEMMA LinesStay ==
  ASSUME LinesUp, accepted' = accepted, world' = world, drained' = drained, queue' = queue \/ queue' = <<>>,
         kpc' = "flushLog" \/ kpc # "flushLog"
  PROVE  LinesUp'
<1>1. DOMAIN <<>> = {}
  OBVIOUS
<1>2. \A b \in DOMAIN queue' : b \in DOMAIN queue /\ queue'[b] = queue[b]
  BY <1>1, Zenon
<1>3. \A v, w : Before(v, w) => Before(v, w)'
  BY Zenon DEF Before
<1> QED BY <1>2, <1>3, Zenon DEF LinesUp

\* ... when a drain takes the queue ...
LEMMA LinesDrained ==
  ASSUME LinesUp, accepted' = accepted, world' = world, queue' = <<>>, drained' = queue \/ drained' = <<>>,
         kpc' # "flushLog"
  PROVE  LinesUp'
<1>1. DOMAIN <<>> = {}
  OBVIOUS
<1>2. DOMAIN queue' = {} /\ \A b \in DOMAIN drained' : b \in DOMAIN queue /\ drained'[b] = queue[b]
  BY <1>1, Zenon
<1>3. \A v, w : Before(v, w) => Before(v, w)'
  BY Zenon DEF Before
<1> QED BY <1>2, <1>3, Zenon DEF LinesUp

\* ... when the oldest drained write is done with ...
LEMMA LinesShorten ==
  ASSUME LinesUp, drained \in Seq(Writes), drained # <<>>,
         accepted' = accepted, world' = world, queue' = queue, drained' = Tail(drained)
  PROVE  LinesUp'
<1>1. \A a \in DOMAIN drained' : a \in Nat /\ a # 0 /\ a + 1 \in DOMAIN drained /\ drained'[a] = drained[a + 1]
  BY TailOf
<1>2. \A v, w : Before(v, w) => Before(v, w)'
  BY Zenon DEF Before
<1>3. \A a, b \in DOMAIN drained' : a < b => Before(drained'[a], drained'[b])
  BY <1>1 DEF LinesUp
<1>4. \A a \in DOMAIN drained', b \in DOMAIN queue : Before(drained'[a], queue[b])
  BY <1>1, Zenon DEF LinesUp
<1>5. \A c \in DOMAIN world, a \in DOMAIN drained' : Before(world[c], drained'[a])
  <2>1. \A a \in DOMAIN drained' : a + 1 # 1
    BY <1>1
  <2> QED BY <1>1, <2>1, Zenon DEF LinesUp
<1> QED BY <1>2, <1>3, <1>4, <1>5, Zenon DEF LinesUp

\* ... and when it is sent.
LEMMA LinesSent ==
  ASSUME LinesUp, drained \in Seq(Writes), world \in Seq(Writes), drained # <<>>, kpc = "flush", kpc' = "flushLog",
         accepted' = accepted, world' = Append(world, Head(drained)), queue' = queue, drained' = drained
  PROVE  LinesUp' /\ \A c \in DOMAIN world : Before(world[c], Head(drained))
<1>1. Head(drained) = drained[1] /\ 1 \in DOMAIN drained /\ Head(drained) \in Writes
  BY TailOf
<1>2. /\ DOMAIN world = 1..Len(world) /\ DOMAIN world' = 1..(Len(world) + 1) /\ Len(world) \in Nat
      /\ \A c \in DOMAIN world : world'[c] = world[c]
      /\ world'[Len(world) + 1] = Head(drained)
  BY <1>1, AppendTo
<1>3. \A c \in DOMAIN world' : (c \in DOMAIN world /\ world'[c] = world[c]) \/ (c = Len(world) + 1 /\ world'[c] = Head(drained))
  BY <1>2
<1>4. \A v, w : Before(v, w) => Before(v, w)'
  BY Zenon DEF Before
<1>5. \A c \in DOMAIN world : Before(world[c], Head(drained))
  BY <1>1, Zenon DEF LinesUp
<1>6. \A a, b \in DOMAIN world' : a < b => Before(world'[a], world'[b])
  <2> SUFFICES ASSUME NEW a \in DOMAIN world', NEW b \in DOMAIN world', a < b
               PROVE  Before(world'[a], world'[b])
    OBVIOUS
  <2>1. a \in DOMAIN world /\ world'[a] = world[a]
    BY <1>2
  <2>2. CASE b \in DOMAIN world
    BY <1>2, <2>1, <2>2 DEF LinesUp
  <2>3. CASE b \notin DOMAIN world
    <3>1. world'[b] = Head(drained)
      BY <1>3, <2>3
    <3> QED BY <1>5, <2>1, <3>1
  <2> QED BY <2>2, <2>3
<1>7. \A c \in DOMAIN world', b \in DOMAIN queue : Before(world'[c], queue[b])
  BY <1>1, <1>3, Zenon DEF LinesUp
<1>8. \A c \in DOMAIN world', a \in DOMAIN drained : a # 1 => Before(world'[c], drained[a])
  <2>1. \A a \in DOMAIN drained : a # 1 => 1 < a
    OBVIOUS
  <2> QED BY <1>1, <1>3, <2>1, Zenon DEF LinesUp
<1> QED BY <1>4, <1>5, <1>6, <1>7, <1>8, Zenon DEF LinesUp

\* The steps of a transaction's caller.
LEMMA CallerKeeps ==
  ASSUME EffectInv, Caller
  PROVE  EffectInv'
<1> USE DEF CallStep, gateState, callState, proxyState, seen
<1> DEFINE SentCommitted == \A i \in DOMAIN accepted : Sent(accepted[i].write) => outcome[accepted[i].txn] = "committed"
<1>1. ETypeOK' /\ SessionIsNewest'
  BY CallerTypes, CallerSession, Zenon DEF EffectInv
<1>2. /\ accepted' = accepted /\ xpc' = xpc
      /\ \A i \in DOMAIN accepted : outcome[accepted[i].txn] = "committed" => outcome'[accepted[i].txn] = "committed"
  <2>1. accepted' = accepted /\ xpc' = xpc
    BY Zenon DEF Caller, BeginStamp, BeginSession, CommitDrain, FlushSend, FlushLog, Flushed, EndSession,
         ClearTxn, AbortCheck, AbortFails, AbortDrain, KillDrain, DropLog, Dropped, Drain
  <2> QED BY <2>1, CallerSession, Zenon
<1>3. /\ queue \in Seq(Writes) /\ drained \in Seq(Writes) /\ world \in Seq(Writes)
      /\ LinesUp /\ WaitingWasQueued /\ ConnectionsTell /\ SentAtMostOnce /\ SessionIsNewest
  BY DEF EffectInv, ETypeOK
<1>4. \A w : Accepted(w)' <=> Accepted(w)
  BY <1>2, Zenon DEF Accepted
<1>5. DOMAIN <<>> = {}
  OBVIOUS
<1>6. ASSUME world' = world
      PROVE  ConnectionsTell' /\ SentAtMostOnce' /\ SentCommitted'
  <2>1. \A w : Sent(w)' <=> Sent(w)
    BY <1>6, Zenon DEF Sent
  <2>2. ConnectionsTell'
    BY <1>2, <1>3, <1>4, <2>1, Zenon DEF ConnectionsTell
  <2>3. SentAtMostOnce'
    BY <1>3, <1>6, Zenon DEF SentAtMostOnce, IsInjective
  <2>4. SentCommitted'
    <3> SUFFICES ASSUME NEW i \in DOMAIN accepted, Sent(accepted[i].write)
                 PROVE  outcome'[accepted[i].txn] = "committed"
      BY <1>2, <2>1
    <3> QED BY <1>2, <1>3, Zenon DEF WaitingWasQueued
  <2> QED BY <2>2, <2>3, <2>4
<1>w. ASSUME \A b \in DOMAIN queue' : Accepted(queue'[b]),
             \A a \in DOMAIN drained' : Accepted(drained'[a]),
             \A i \in DOMAIN accepted : \A b \in DOMAIN queue' : accepted[i].write = queue'[b] => accepted[i].txn = session',
             kpc' \in {"flush", "flushLog"} =>
               \A i \in DOMAIN accepted : \A a \in DOMAIN drained' : accepted[i].write = drained'[a] => accepted[i].txn = txn',
             SentCommitted'
      PROVE  WaitingWasQueued'
  <2>1. \A b \in DOMAIN queue' : Accepted(queue[b])'
    BY <1>4, <1>w, Zenon
  <2>2. \A a \in DOMAIN drained' : Accepted(drained[a])'
    BY <1>4, <1>w, Zenon
  <2> QED BY <1>2, <1>w, <2>1, <2>2 DEF WaitingWasQueued
<1> HIDE DEF SentCommitted
<1>7. CASE BeginStamp \/ BeginSession \/ Flushed \/ EndSession \/ ClearTxn \/ AbortCheck \/ AbortFails \/ Dropped
  <2>1. /\ world' = world /\ drained' = drained
        /\ (queue' = queue /\ session' = session) \/ queue' = <<>>
        /\ kpc # "flushLog" /\ kpc' \notin {"flush", "flushLog"}
    BY <1>7, Zenon DEF BeginStamp, BeginSession, Flushed, EndSession, ClearTxn, AbortCheck, AbortFails, Dropped
  <2>2. LinesUp'
    BY <1>2, <1>3, <2>1, LinesStay, Zenon
  <2>3. WaitingWasQueued'
    <3>1. SentCommitted'
      BY <1>6, <2>1, Zenon
    <3> QED BY <1>3, <1>5, <1>w, <2>1, <3>1, Zenon DEF WaitingWasQueued
  <2> QED BY <1>1, <1>6, <2>1, <2>2, <2>3, Zenon DEF EffectInv
<1>8. CASE CommitDrain \/ AbortDrain \/ KillDrain
  <2>1. /\ world' = world /\ queue' = <<>> /\ session' = session /\ txn' = txn
        /\ drained' = queue \/ drained' = <<>>
        /\ session = NoTxn => drained' = <<>>
        /\ kpc' # "flushLog"
    BY <1>8, Zenon DEF CommitDrain, AbortDrain, KillDrain, Drain
  <2>2. LinesUp'
    BY <1>2, <1>3, <2>1, LinesDrained, Zenon
  <2>3. \A i \in DOMAIN accepted : \A a \in DOMAIN drained' : accepted[i].write = drained'[a] => accepted[i].txn = txn
    BY <1>3, <1>5, <2>1, Zenon DEF WaitingWasQueued, SessionIsNewest
  <2>4. WaitingWasQueued'
    <3>1. SentCommitted'
      BY <1>6, <2>1, Zenon
    <3> QED BY <1>3, <1>5, <1>w, <2>1, <2>3, <3>1, Zenon DEF WaitingWasQueued
  <2> QED BY <1>1, <1>6, <2>1, <2>2, <2>4, Zenon DEF EffectInv
<1>9. CASE FlushLog \/ DropLog
  <2>1. /\ world' = world /\ queue' = queue /\ session' = session /\ txn' = txn
        /\ drained # <<>> /\ drained' = Tail(drained)
        /\ kpc' \in {"flush", "flushLog"} => kpc = "flushLog"
    BY <1>3, <1>9, Zenon DEF FlushLog, DropLog, SessionIsNewest
  <2>2. \A a \in DOMAIN drained' : a + 1 \in DOMAIN drained /\ drained'[a] = drained[a + 1]
    BY <1>3, <2>1, TailOf
  <2>3. LinesUp'
    BY <1>2, <1>3, <2>1, LinesShorten, Zenon
  <2>4. WaitingWasQueued'
    <3>1. SentCommitted'
      BY <1>6, <2>1, Zenon
    <3> QED BY <1>3, <1>w, <2>1, <2>2, <3>1, Zenon DEF WaitingWasQueued
  <2> QED BY <1>1, <1>6, <2>1, <2>3, <2>4, Zenon DEF EffectInv
<1>10. CASE FlushSend /\ world' = world
  <2>1. queue' = queue /\ session' = session /\ txn' = txn /\ drained' = drained /\ kpc = "flush" /\ kpc' = "flushLog"
    BY <1>10, Zenon DEF FlushSend
  <2>2. LinesUp'
    BY <1>2, <1>3, <1>10, <2>1, LinesStay, Zenon
  <2>3. WaitingWasQueued'
    <3>1. SentCommitted'
      BY <1>6, <1>10, Zenon
    <3> QED BY <1>3, <1>w, <2>1, <3>1, Zenon DEF WaitingWasQueued
  <2> QED BY <1>1, <1>6, <1>10, <2>2, <2>3, Zenon DEF EffectInv
<1>11. CASE FlushSend /\ world' # world
  <2>1. /\ queue' = queue /\ session' = session /\ txn' = txn /\ drained' = drained /\ drained # <<>>
        /\ kpc = "flush" /\ kpc' = "flushLog" /\ world' = Append(world, Head(drained)) /\ outcome' = outcome
    BY <1>11, Zenon DEF FlushSend
  <2>2. LinesUp' /\ \A c \in DOMAIN world : Before(world[c], Head(drained))
    BY <1>2, <1>3, <2>1, LinesSent, Zenon
  <2>3. Head(drained) = drained[1] /\ 1 \in DOMAIN drained /\ Head(drained) \in Writes
    BY <1>3, <2>1, TailOf
  <2>4. Accepted(Head(drained))
    BY <1>3, <2>3, Zenon DEF WaitingWasQueued
  <2>5. /\ DOMAIN world = 1..Len(world) /\ DOMAIN world' = 1..(Len(world) + 1) /\ Len(world) \in Nat
        /\ \A c \in DOMAIN world : world'[c] = world[c]
        /\ world'[Len(world) + 1] = Head(drained)
    BY <1>3, <2>1, <2>3, AppendTo
  <2>6. \A c \in DOMAIN world' : (c \in DOMAIN world /\ world'[c] = world[c]) \/ (c = Len(world) + 1 /\ world'[c] = Head(drained))
    BY <2>5
  <2>7. \A w : Sent(w)' => Sent(w) \/ w = Head(drained)
    BY <2>6, Zenon DEF Sent
  <2>8. ~Sent(Head(drained))
    <3>1. PICK i \in DOMAIN accepted : accepted[i].write = Head(drained)
      BY <2>4, Zenon DEF Accepted
    <3>2. ASSUME NEW c \in DOMAIN world, world[c] = Head(drained) PROVE i < i
      BY <2>2, <3>1, <3>2, Zenon DEF Before
    <3>3. i \in Nat
      BY <3>1 DEF EffectInv, ETypeOK
    <3>4. ~(i < i)
      BY <3>3
    <3> QED BY <3>2, <3>4, Zenon DEF Sent
  <2>9. SentAtMostOnce'
    BY <1>3, <2>5, <2>6, <2>8 DEF SentAtMostOnce, IsInjective, Sent
  <2>10. ConnectionsTell'
    BY <1>2, <1>3, <1>4, <2>3, <2>4, <2>7, Zenon DEF ConnectionsTell
  <2>11. \A i \in DOMAIN accepted : accepted[i].write = Head(drained) => outcome[accepted[i].txn] = "committed"
    BY <1>3, <2>1, <2>3, Zenon DEF WaitingWasQueued, SessionIsNewest
  <2>12. WaitingWasQueued'
    <3>1. SentCommitted'
      BY <1>2, <1>3, <2>7, <2>11, Zenon DEF SentCommitted, WaitingWasQueued
    <3> QED BY <1>3, <1>w, <2>1, <3>1, Zenon DEF WaitingWasQueued
  <2> QED BY <1>1, <2>2, <2>9, <2>10, <2>12, Zenon DEF EffectInv
<1> QED BY <1>7, <1>8, <1>9, <1>10, <1>11, Zenon DEF Caller

\* The steps of a connection keep the types.
LEMMA ProxyTypes ==
  ASSUME ETypeOK, NEW w \in Writes, Proxy(w)
  PROVE  ETypeOK'
<1> USE FlowsAssumption, BoundsAssumption DEF ProxyStep, gateState, callState, seen
<1>t. /\ queue \in Seq(Writes) /\ Len(queue) <= MaxQueue /\ world \in Seq(Writes) /\ ledger \in Seq(Row)
      /\ accepted \in Seq([write : Writes, txn : TxnIds])
      /\ xpc \in [Writes -> ProxyPc] /\ decidedIn \in [Writes -> {NoTxn} \cup TxnIds]
      /\ sealedIn \in [Writes -> {NoTxn} \cup TxnIds]
      /\ session \in {NoTxn} \cup TxnIds /\ stamp \in {NoTxn} \cup TxnIds
  BY DEF ETypeOK
<1>1. UNCHANGED <<session, policy, stamp, kpc, txn, drained, crashes, outcome>>
  BY Zenon DEF Proxy, DecidePass, DecideReject, DecideSeal, DecideDefer, Forward, Enqueue, Refuse, LogDeferred, LoseAnswer
<1>2. sealed' \in BOOLEAN
  BY Zenon DEF ETypeOK, Proxy, DecidePass, DecideReject, DecideSeal, DecideDefer, Forward, Enqueue, Refuse, LogDeferred, LoseAnswer
<1>3. xpc' \in [Writes -> ProxyPc]
  <2>1. \E to \in ProxyPc : xpc' = [xpc EXCEPT ![w] = to]
    BY Zenon DEF ProxyPc, Proxy, DecidePass, DecideReject, DecideSeal, DecideDefer, Forward, Enqueue, Refuse, LogDeferred, LoseAnswer
  <2> QED BY <1>t, <2>1
<1>4. decidedIn' \in [Writes -> {NoTxn} \cup TxnIds]
  <2>1. decidedIn' = decidedIn \/ decidedIn' = [decidedIn EXCEPT ![w] = session]
    BY Zenon DEF Proxy, DecidePass, DecideReject, DecideSeal, DecideDefer, Forward, Enqueue, Refuse, LogDeferred, LoseAnswer
  <2> QED BY <1>t, <2>1
<1>5. sealedIn' \in [Writes -> {NoTxn} \cup TxnIds]
  <2>1. sealedIn' = sealedIn \/ sealedIn' = [sealedIn EXCEPT ![w] = session]
    BY Zenon DEF Proxy, DecidePass, DecideReject, DecideSeal, DecideDefer, Forward, Enqueue, Refuse, LogDeferred, LoseAnswer
  <2> QED BY <1>t, <2>1
<1>6. world' \in Seq(Writes)
  <2>1. world' = world \/ world' = Append(world, w)
    BY Zenon DEF Proxy, DecidePass, DecideReject, DecideSeal, DecideDefer, Forward, Enqueue, Refuse, LogDeferred, LoseAnswer
  <2>2. Append(world, w) \in Seq(Writes)
    BY <1>t
  <2> QED BY <1>t, <2>1, <2>2, Zenon
<1>7. ledger' \in Seq(Row)
  <2>1. ledger' = ledger \/ ledger' = Append(ledger, [effect |-> "deferred", write |-> w, txn |-> stamp])
    BY Zenon DEF Proxy, DecidePass, DecideReject, DecideSeal, DecideDefer, Forward, Enqueue, Refuse, LogDeferred, LoseAnswer, Journal
  <2>2. [effect |-> "deferred", write |-> w, txn |-> stamp] \in Row
    BY <1>t DEF Row
  <2>3. \A r \in Row : Append(ledger, r) \in Seq(Row)
    BY <1>t
  <2> QED BY <1>t, <2>1, <2>2, <2>3, Zenon
<1>8. /\ queue' \in Seq(Writes) /\ Len(queue') <= MaxQueue
      /\ accepted' \in Seq([write : Writes, txn : TxnIds])
  <2> DEFINE Rec == [write : Writes, txn : TxnIds]
             item == [write |-> w, txn |-> session]
  <2>1. \/ queue' = queue /\ accepted' = accepted
        \/ /\ session # NoTxn /\ Len(queue) < MaxQueue
           /\ queue' = Append(queue, w) /\ accepted' = Append(accepted, item)
    BY Zenon DEF Proxy, DecidePass, DecideReject, DecideSeal, DecideDefer, Forward, Enqueue, Refuse, LogDeferred, LoseAnswer
  <2>2. session # NoTxn => item \in Rec
    BY <1>t
  <2>3. accepted \in Seq(Rec)
    BY <1>t
  <2> HIDE DEF Rec, item
  <2>4. accepted' \in Seq(Rec)
    BY <2>1, <2>2, <2>3
  <2>5. queue' \in Seq(Writes) /\ Len(queue') <= MaxQueue
    <3>1. Append(queue, w) \in Seq(Writes) /\ (Len(queue) < MaxQueue => Len(Append(queue, w)) <= MaxQueue)
      BY <1>t
    <3> QED BY <1>t, <2>1, <3>1, Zenon
  <2> QED BY <2>4, <2>5 DEF Rec
<1> QED BY <1>t, <1>1, <1>2, <1>3, <1>4, <1>5, <1>6, <1>7, <1>8 DEF ETypeOK

\* A connection that hands no write on.
LEMMA ProxyWaits ==
  ASSUME EffectInv, ETypeOK', NEW w \in Writes, NEW to,
         UNCHANGED <<session, queue, outcome, accepted, world, kpc, txn, drained>>,
         xpc' = [xpc EXCEPT ![w] = to],
         \/ to \in {"send", "rejected", "queueing"} /\ xpc[w] \in {"new", "queueing"}
         \/ to \in {"deferred", "over"} /\ xpc[w] \in {"queued", "send"}
  PROVE  EffectInv'
<1>1. \A v : (Accepted(v)' <=> Accepted(v)) /\ (Sent(v)' <=> Sent(v))
  BY Zenon DEF Accepted, Sent
<1>2. LinesUp' /\ SessionIsNewest' /\ SentAtMostOnce'
  <2>1. LinesUp'
    BY LinesStay, Zenon DEF EffectInv
  <2>2. SessionIsNewest'
    BY DEF EffectInv, SessionIsNewest
  <2> QED BY <2>1, <2>2 DEF EffectInv, SentAtMostOnce
<1>3. WaitingWasQueued'
  BY Zenon DEF EffectInv, WaitingWasQueued, Accepted, Sent
<1>4. ConnectionsTell'
  <2>1. \A v \in Writes : xpc'[v] = IF v = w THEN to ELSE xpc[v]
    BY Zenon DEF EffectInv, ETypeOK
  <2>2. ConnectionsTell
    BY DEF EffectInv
  <2>3. \A v \in Writes : xpc'[v] \in {"new", "send", "queueing", "rejected"} => ~Accepted(v) /\ ~Sent(v)
    BY <2>1, <2>2, Zenon DEF ConnectionsTell
  <2>4. \A v \in Writes : Accepted(v) => xpc'[v] \in {"queued", "deferred", "over"}
    BY <2>1, <2>2, Zenon DEF ConnectionsTell
  <2> QED BY <1>1, <2>3, <2>4, Zenon DEF ConnectionsTell
<1> QED BY <1>2, <1>3, <1>4 DEF EffectInv

\* A connection that sends its write itself: one that was never queued.
LEMMA ForwardKeeps ==
  ASSUME EffectInv, ETypeOK', NEW w \in Writes, xpc[w] = "send", xpc' = [xpc EXCEPT ![w] = "over"],
         UNCHANGED <<session, queue, outcome, accepted, kpc, txn, drained>>, world' = Append(world, w)
  PROVE  EffectInv'
<1>1. ~Accepted(w) /\ ~Sent(w)
  BY DEF EffectInv, ConnectionsTell
<1>2. /\ DOMAIN world = 1..Len(world) /\ DOMAIN world' = 1..(Len(world) + 1) /\ Len(world) \in Nat
      /\ \A c \in DOMAIN world : world'[c] = world[c]
      /\ world'[Len(world) + 1] = w
  <2>1. world \in Seq(Writes)
    BY Zenon DEF EffectInv, ETypeOK
  <2> QED BY <2>1, AppendTo
<1>3. \A c \in DOMAIN world' : (c \in DOMAIN world /\ world'[c] = world[c]) \/ (c = Len(world) + 1 /\ world'[c] = w)
  <2>1. \A c \in 1..(Len(world) + 1) : c \in 1..Len(world) \/ c = Len(world) + 1
    BY <1>2
  <2> QED BY <1>2, <2>1, Zenon
<1>4. \A v : (Accepted(v)' <=> Accepted(v)) /\ (Sent(v)' => Sent(v) \/ v = w)
  BY <1>3, Zenon DEF Accepted, Sent
<1>5. \A v : Before(v, w) /\ Before(w, v)
  BY <1>1, Zenon DEF Accepted, Before
<1>6. \A u, v : Before(u, v) => Before(u, v)'
  BY Zenon DEF Before
<1>7. LinesUp'
  <2>1. LinesUp
    BY DEF EffectInv
  <2>2. \A a, b \in DOMAIN world' : a < b => Before(world'[a], world'[b])
    <3> SUFFICES ASSUME NEW a \in DOMAIN world', NEW b \in DOMAIN world', a < b
                 PROVE  Before(world'[a], world'[b])
      OBVIOUS
    <3>1. CASE b \in DOMAIN world /\ a \in DOMAIN world
      BY <1>2, <2>1, <3>1 DEF LinesUp
    <3>2. CASE b \notin DOMAIN world \/ a \notin DOMAIN world
      BY <1>3, <1>5, <3>2, Zenon
    <3> QED BY <3>1, <3>2
  <2>3. \A c \in DOMAIN world', b \in DOMAIN queue : Before(world'[c], queue[b])
    BY <1>3, <1>5, <2>1, Zenon DEF LinesUp
  <2>4. \A c \in DOMAIN world', a \in DOMAIN drained : a # 1 \/ kpc # "flushLog" => Before(world'[c], drained[a])
    BY <1>3, <1>5, <2>1, Zenon DEF LinesUp
  <2> QED BY <1>6, <2>1, <2>2, <2>3, <2>4, Zenon DEF LinesUp
<1>8. SentAtMostOnce'
  <2>1. SentAtMostOnce
    BY DEF EffectInv
  <2> QED BY <1>1, <1>2, <1>3, <2>1 DEF SentAtMostOnce, IsInjective, Sent
<1>9. SessionIsNewest'
  BY DEF EffectInv, SessionIsNewest
<1>10. ConnectionsTell'
  <2>1. \A v \in Writes : xpc'[v] = IF v = w THEN "over" ELSE xpc[v]
    BY Zenon DEF EffectInv, ETypeOK
  <2>2. ConnectionsTell
    BY DEF EffectInv
  <2>3. \A v \in Writes : xpc'[v] \in {"new", "send", "queueing", "rejected"} => v # w /\ ~Accepted(v) /\ ~Sent(v)
    BY <2>1, <2>2 DEF ConnectionsTell
  <2>4. \A v \in Writes : Accepted(v) => xpc'[v] \in {"queued", "deferred", "over"}
    BY <2>1, <2>2 DEF ConnectionsTell
  <2> QED BY <1>4, <2>3, <2>4, Zenon DEF ConnectionsTell
<1>11. WaitingWasQueued'
  <2>1. WaitingWasQueued
    BY DEF EffectInv
  <2>2. \A i \in DOMAIN accepted : Sent(accepted[i].write)' => Sent(accepted[i].write)
    BY <1>1, <1>4, Zenon DEF Accepted
  <2>3. \A i \in DOMAIN accepted' : Sent(accepted[i].write)' => outcome'[accepted'[i].txn] = "committed"
    BY <2>1, <2>2, Zenon DEF WaitingWasQueued
  <2>4. (\A b \in DOMAIN queue : Accepted(queue[b]))' /\ (\A a \in DOMAIN drained : Accepted(drained[a]))'
    BY <2>1, Zenon DEF WaitingWasQueued, Accepted
  <2> QED BY <2>1, <2>3, <2>4, Zenon DEF WaitingWasQueued
<1> QED BY <1>7, <1>8, <1>9, <1>10, <1>11 DEF EffectInv

\* A write that is queued comes after all that was queued before.
LEMMA EnqueueKeeps ==
  ASSUME EffectInv, ETypeOK', NEW w \in Writes, xpc[w] = "queueing", xpc' = [xpc EXCEPT ![w] = "queued"],
         UNCHANGED <<session, outcome, kpc, txn, drained, world>>, session # NoTxn,
         queue' = Append(queue, w), accepted' = Append(accepted, [write |-> w, txn |-> session])
  PROVE  EffectInv'
<1> DEFINE Rec == [write : Writes, txn : TxnIds]
           item == [write |-> w, txn |-> session]
<1>1. ~Accepted(w) /\ ~Sent(w)
  BY DEF EffectInv, ConnectionsTell
<1>2. item \in Rec /\ item.write = w /\ item.txn = session /\ accepted \in Seq(Rec) /\ accepted' = Append(accepted, item)
  BY Zenon DEF EffectInv, ETypeOK
<1> HIDE DEF Rec, item
<1> DEFINE n == Len(accepted) + 1
<1>3. /\ DOMAIN accepted = 1..Len(accepted) /\ DOMAIN accepted' = 1..n /\ Len(accepted) \in Nat
      /\ \A i \in DOMAIN accepted : accepted'[i] = accepted[i]
      /\ accepted'[n] = item
  <2>1. /\ DOMAIN accepted = 1..Len(accepted) /\ DOMAIN accepted' = 1..(Len(accepted) + 1)
        /\ \A i \in DOMAIN accepted : accepted'[i] = accepted[i]
        /\ accepted'[Len(accepted) + 1] = item
    <3>1. /\ DOMAIN accepted = 1..Len(accepted) /\ DOMAIN Append(accepted, item) = 1..(Len(accepted) + 1)
          /\ \A i \in DOMAIN accepted : Append(accepted, item)[i] = accepted[i]
          /\ Append(accepted, item)[Len(accepted) + 1] = item
      <4>1. accepted \in Seq(Rec) /\ item \in Rec
        BY <1>2, Zenon
      <4> QED BY <4>1, AppendTo
    <3> QED BY <1>2, <3>1, Zenon
  <2>2. Len(accepted) \in Nat
    BY <1>2
  <2> QED BY <2>1, <2>2, Zenon DEF n
<1>4. /\ n \in DOMAIN accepted' /\ \A i \in DOMAIN accepted : i < n /\ i \in DOMAIN accepted'
      /\ \A i \in DOMAIN accepted' : (i \in DOMAIN accepted /\ accepted'[i] = accepted[i]) \/ (i = n /\ accepted'[i] = item)
  BY <1>3
<1> DEFINE m == Len(queue) + 1
<1>5. /\ DOMAIN queue = 1..Len(queue) /\ DOMAIN queue' = 1..m /\ Len(queue) \in Nat
      /\ \A b \in DOMAIN queue : queue'[b] = queue[b]
      /\ queue'[m] = w
  <2>1. queue \in Seq(Writes)
    BY Zenon DEF EffectInv, ETypeOK
  <2> QED BY <2>1, AppendTo
<1>6. \A b \in DOMAIN queue' : (b \in DOMAIN queue /\ queue'[b] = queue[b]) \/ (b = m /\ queue'[b] = w)
  BY <1>5
<1> HIDE DEF n, m
<1>7. \A v : (Accepted(v)' <=> Accepted(v) \/ v = w) /\ (Sent(v)' <=> Sent(v))
  <2>1. \A v : Sent(v)' <=> Sent(v)
    BY Zenon DEF Sent
  <2>2. \A v : Accepted(v) => Accepted(v)'
    BY <1>3, <1>4, Zenon DEF Accepted
  <2>3. Accepted(w)'
    BY <1>2, <1>3, <1>4, Zenon DEF Accepted
  <2>4. \A v : Accepted(v)' => Accepted(v) \/ v = w
    BY <1>2, <1>4, Zenon DEF Accepted
  <2> QED BY <2>1, <2>2, <2>3, <2>4, Zenon
<1>8. ASSUME NEW u, NEW v, u # w, v # w, Before(u, v)
      PROVE  Before(u, v)'
  BY <1>2, <1>4, <1>8, Zenon DEF Before
<1>9. ASSUME NEW u, u # w
      PROVE  Before(u, w)'
  <2> SUFFICES ASSUME NEW i \in DOMAIN accepted', NEW j \in DOMAIN accepted', accepted'[i].write = u, accepted'[j].write = w
               PROVE  i < j
    BY Zenon DEF Before
  <2>1. i \in DOMAIN accepted
    BY <1>2, <1>4, <1>9, Zenon
  <2>2. j = n
    BY <1>1, <1>4, Zenon DEF Accepted
  <2> QED BY <1>4, <2>1, <2>2
<1>10. /\ \A b \in DOMAIN queue : queue[b] # w
       /\ \A a \in DOMAIN drained : drained[a] # w
       /\ \A c \in DOMAIN world : world[c] # w
  BY <1>1, Zenon DEF EffectInv, WaitingWasQueued, Sent
<1>11. LinesUp'
  <2>1. LinesUp
    BY DEF EffectInv
  <2>2. (\A a, b \in DOMAIN drained : a < b => Before(drained[a], drained[b]))'
    BY <1>8, <1>10, <2>1, Zenon DEF LinesUp
  <2>3. (\A a, b \in DOMAIN world : a < b => Before(world[a], world[b]))'
    BY <1>8, <1>10, <2>1, Zenon DEF LinesUp
  <2>4. (\A a, b \in DOMAIN queue : a < b => Before(queue[a], queue[b]))'
    <3> SUFFICES ASSUME NEW a \in DOMAIN queue', NEW b \in DOMAIN queue', a < b
                 PROVE  Before(queue[a], queue[b])'
      OBVIOUS
    <3>1. a \in DOMAIN queue /\ queue'[a] = queue[a]
      BY <1>5 DEF m
    <3>2. CASE b \in DOMAIN queue
      BY <1>5, <1>8, <1>10, <2>1, <3>1, <3>2, Zenon DEF LinesUp
    <3>3. CASE b \notin DOMAIN queue
      BY <1>6, <1>9, <1>10, <3>1, <3>3, Zenon
    <3> QED BY <3>2, <3>3
  <2>5. (\A a \in DOMAIN drained, b \in DOMAIN queue : Before(drained[a], queue[b]))'
    BY <1>6, <1>8, <1>9, <1>10, <2>1, Zenon DEF LinesUp
  <2>6. (\A c \in DOMAIN world, b \in DOMAIN queue : Before(world[c], queue[b]))'
    BY <1>6, <1>8, <1>9, <1>10, <2>1, Zenon DEF LinesUp
  <2>7. (\A c \in DOMAIN world, a \in DOMAIN drained : a # 1 \/ kpc # "flushLog" => Before(world[c], drained[a]))'
    BY <1>8, <1>10, <2>1, Zenon DEF LinesUp
  <2> QED BY <2>2, <2>3, <2>4, <2>5, <2>6, <2>7, Zenon DEF LinesUp
<1>12. SessionIsNewest'
  <2>1. SessionIsNewest /\ session \in {NoTxn} \cup TxnIds
    BY Zenon DEF EffectInv, ETypeOK
  <2>2. session = txn /\ kpc # "stamped"
    BY <2>1, Zenon DEF SessionIsNewest
  <2>3. session <= session
    BY <2>1 DEF NoTxn, TxnIds
  <2>4. \A i \in DOMAIN accepted' : accepted'[i].txn <= txn'
    BY <1>2, <1>4, <2>1, <2>2, <2>3, Zenon DEF SessionIsNewest
  <2> QED BY <2>1, <2>2, <2>4 DEF SessionIsNewest
<1>13. ConnectionsTell'
  <2>1. \A v \in Writes : xpc'[v] = IF v = w THEN "queued" ELSE xpc[v]
    BY Zenon DEF EffectInv, ETypeOK
  <2>2. ConnectionsTell
    BY DEF EffectInv
  <2>3. \A v \in Writes : xpc'[v] \in {"new", "send", "queueing", "rejected"} => v # w /\ ~Accepted(v) /\ ~Sent(v)
    BY <2>1, <2>2 DEF ConnectionsTell
  <2>4. \A v \in Writes : Accepted(v) \/ v = w => xpc'[v] \in {"queued", "deferred", "over"}
    BY <2>1, <2>2 DEF ConnectionsTell
  <2> QED BY <1>7, <2>3, <2>4, Zenon DEF ConnectionsTell
<1>14. WaitingWasQueued'
  <2>1. WaitingWasQueued
    BY DEF EffectInv
  <2>2. (\A b \in DOMAIN queue : Accepted(queue[b]))'
    BY <1>6, <1>7, <2>1, Zenon DEF WaitingWasQueued
  <2>3. (\A a \in DOMAIN drained : Accepted(drained[a]))'
    BY <1>7, <2>1, Zenon DEF WaitingWasQueued
  <2>4. \A i \in DOMAIN accepted' : \A b \in DOMAIN queue' : accepted'[i].write = queue'[b] => accepted'[i].txn = session'
    <3> SUFFICES ASSUME NEW i \in DOMAIN accepted', NEW b \in DOMAIN queue', accepted'[i].write = queue'[b]
                 PROVE  accepted'[i].txn = session'
      BY Zenon
    <3>1. CASE accepted'[i] = item
      BY <1>2, <3>1, Zenon
    <3>2. CASE i \in DOMAIN accepted /\ accepted'[i] = accepted[i]
      <4>1. accepted[i].write # w
        BY <1>1, <3>2, Zenon DEF Accepted
      <4>2. b \in DOMAIN queue /\ queue'[b] = queue[b]
        BY <1>6, <3>2, <4>1, Zenon
      <4> QED BY <2>1, <3>2, <4>2, Zenon DEF WaitingWasQueued
    <3> QED BY <1>4, <3>1, <3>2, Zenon
  <2>5. kpc' \in {"flush", "flushLog"} =>
          \A i \in DOMAIN accepted' : \A a \in DOMAIN drained' : accepted'[i].write = drained'[a] => accepted'[i].txn = txn'
    BY <1>2, <1>4, <1>10, <2>1, Zenon DEF WaitingWasQueued
  <2>6. (\A i \in DOMAIN accepted : Sent(accepted[i].write) => outcome[accepted[i].txn] = "committed")'
    <3> SUFFICES ASSUME NEW i \in DOMAIN accepted', Sent(accepted[i].write)'
                 PROVE  outcome'[accepted'[i].txn] = "committed"
      BY Zenon
    <3>1. i \in DOMAIN accepted /\ accepted'[i] = accepted[i]
      BY <1>1, <1>2, <1>4, Zenon DEF Sent
    <3>2. Sent(accepted[i].write)
      BY <3>1, Zenon DEF Sent
    <3> QED BY <2>1, <3>1, <3>2, Zenon DEF WaitingWasQueued
  <2> QED BY <2>2, <2>3, <2>4, <2>5, <2>6, Zenon DEF WaitingWasQueued
<1>15. SentAtMostOnce'
  BY DEF EffectInv, SentAtMostOnce
<1> QED BY <1>11, <1>12, <1>13, <1>14, <1>15 DEF EffectInv

\* The steps of a connection.
LEMMA ProxyKeeps ==
  ASSUME EffectInv, NEW w \in Writes, Proxy(w)
  PROVE  EffectInv'
<1> USE DEF ProxyStep, gateState, callState, seen
<1>1. ETypeOK'
  BY ProxyTypes, Zenon DEF EffectInv
<1>2. UNCHANGED <<session, outcome, kpc, txn, drained>>
  BY Zenon DEF Proxy, DecidePass, DecideReject, DecideSeal, DecideDefer, Forward, Enqueue, Refuse, LogDeferred, LoseAnswer
<1>3. CASE Enqueue(w)
  BY <1>1, <1>2, <1>3, EnqueueKeeps, Zenon DEF Enqueue
<1>4. CASE Forward(w) /\ world' # world
  BY <1>1, <1>2, <1>4, ForwardKeeps, Zenon DEF Forward
<1>5. ASSUME NEW from, NEW to, xpc[w] = from, xpc' = [xpc EXCEPT ![w] = to], UNCHANGED <<queue, accepted, world>>,
             \/ to \in {"send", "rejected", "queueing"} /\ from \in {"new", "queueing"}
             \/ to \in {"deferred", "over"} /\ from \in {"queued", "send"}
      PROVE  EffectInv'
  <2>1. UNCHANGED <<session, queue, outcome, accepted, world, kpc, txn, drained>>
    BY <1>2, <1>5, Zenon
  <2> QED BY <1>1, <1>5, <2>1, ProxyWaits, Zenon
<1>6. CASE Forward(w) /\ world' = world
  BY <1>5, <1>6, Zenon DEF Forward
<1>7. CASE DecidePass(w) \/ DecideReject(w)
  BY <1>5, <1>7, Zenon DEF DecidePass, DecideReject
<1>8. CASE DecideSeal(w)
  BY <1>5, <1>8, Zenon DEF DecideSeal
<1>9. CASE DecideDefer(w) \/ Refuse(w)
  BY <1>5, <1>9, Zenon DEF DecideDefer, Refuse
<1>10. CASE LogDeferred(w) \/ LoseAnswer(w)
  BY <1>5, <1>10, Zenon DEF LogDeferred, LoseAnswer
<1> QED BY <1>3, <1>4, <1>6, <1>7, <1>8, <1>9, <1>10, Zenon DEF Proxy

\* The daemon dies: what waited is gone, and what was on its way is over.
LEMMA CrashKeeps ==
  ASSUME EffectInv, Crash
  PROVE  EffectInv'
<1> USE BoundsAssumption DEF seen
<1>1. /\ kpc' = "down" /\ session' = NoTxn /\ queue' = <<>> /\ drained' = <<>>
      /\ policy' = "allow" /\ sealed' = FALSE /\ stamp' = NoTxn /\ crashes < MaxCrashes /\ crashes' = crashes + 1
      /\ xpc' = [v \in Writes |-> IF xpc[v] \in {"send", "queueing", "queued"} THEN "over" ELSE xpc[v]]
      /\ UNCHANGED <<ledger, txn, decidedIn, outcome, accepted, sealedIn, world>>
  BY Zenon DEF Crash
<1>2. DOMAIN <<>> = {} /\ <<>> \in Seq(Writes) /\ Len(<<>>) <= MaxQueue
  OBVIOUS
<1>3. DOMAIN queue' = {} /\ DOMAIN drained' = {}
  BY <1>1, <1>2, Zenon
<1>4. \A v : (Accepted(v)' <=> Accepted(v)) /\ (Sent(v)' <=> Sent(v))
  BY <1>1, Zenon DEF Accepted, Sent
<1>5. ETypeOK'
  <2>1. ETypeOK
    BY DEF EffectInv
  <2>2. xpc' \in [Writes -> ProxyPc]
    BY <1>1, <2>1 DEF ETypeOK, ProxyPc
  <2>3. queue' \in Seq(Writes) /\ Len(queue') <= MaxQueue /\ drained' \in Seq(Writes)
    BY <1>1, <1>2, Zenon
  <2>4. kpc' \in CallPc /\ policy' \in Policies /\ sealed' \in BOOLEAN
        /\ session' \in {NoTxn} \cup TxnIds /\ stamp' \in {NoTxn} \cup TxnIds
    BY <1>1, Zenon DEF CallPc, Policies
  <2>5. crashes' \in 0..MaxCrashes
    BY <1>1, <2>1 DEF ETypeOK
  <2> QED BY <1>1, <2>1, <2>2, <2>3, <2>4, <2>5, Zenon DEF ETypeOK
<1>6. SessionIsNewest'
  BY <1>1 DEF EffectInv, SessionIsNewest
<1>7. LinesUp'
  <2>1. \A u, v : Before(u, v) => Before(u, v)'
    BY <1>1, Zenon DEF Before
  <2> QED BY <1>1, <1>3, <2>1, Zenon DEF EffectInv, LinesUp
<1>8. ConnectionsTell'
  <2>1. \A v \in Writes : xpc'[v] = IF xpc[v] \in {"send", "queueing", "queued"} THEN "over" ELSE xpc[v]
    BY <1>1
  <2>2. ConnectionsTell
    BY DEF EffectInv
  <2>3. \A v \in Writes : xpc'[v] \in {"new", "send", "queueing", "rejected"} => ~Accepted(v) /\ ~Sent(v)
    BY <2>1, <2>2 DEF ConnectionsTell
  <2>4. \A v \in Writes : Accepted(v) => xpc'[v] \in {"queued", "deferred", "over"}
    BY <2>1, <2>2 DEF ConnectionsTell
  <2> QED BY <1>4, <2>3, <2>4, Zenon DEF ConnectionsTell
<1>9. WaitingWasQueued'
  <2>1. (\A i \in DOMAIN accepted : Sent(accepted[i].write) => outcome[accepted[i].txn] = "committed")'
    BY <1>1, Zenon DEF EffectInv, WaitingWasQueued, Sent
  <2> QED BY <1>1, <1>3, <2>1, Zenon DEF WaitingWasQueued
<1>10. SentAtMostOnce'
  BY <1>1 DEF EffectInv, SentAtMostOnce
<1> QED BY <1>5, <1>6, <1>7, <1>8, <1>9, <1>10 DEF EffectInv

\* What depends on the ledger, the crashes and the policy only by its type.
LEMMA LedgerOnly ==
  ASSUME EffectInv, ETypeOK', kpc = "down", kpc' \in {"down", "idle"},
         UNCHANGED <<session, queue, outcome, accepted, world, txn, drained, xpc>>
  PROVE  EffectInv'
<1>1. LinesUp'
  BY LinesStay, Zenon DEF EffectInv
<1>2. SessionIsNewest'
  BY DEF EffectInv, SessionIsNewest
<1>3. WaitingWasQueued'
  BY Zenon DEF EffectInv, WaitingWasQueued, Accepted, Sent
<1>4. ConnectionsTell'
  BY Zenon DEF EffectInv, ConnectionsTell, Accepted, Sent
<1>5. SentAtMostOnce'
  BY DEF EffectInv, SentAtMostOnce
<1> QED BY <1>1, <1>2, <1>3, <1>4, <1>5 DEF EffectInv

\* The daemon starts again and settles the ledger.
LEMMA RestartKeeps ==
  ASSUME EffectInv, Backfill \/ Restart
  PROVE  EffectInv'
<1> USE DEF CallStep, gateState, callState, proxyState, seen
<1>1. /\ kpc = "down" /\ kpc' \in {"down", "idle"}
      /\ UNCHANGED <<session, policy, sealed, queue, stamp, txn, drained, xpc, decidedIn, crashes, outcome, accepted, sealedIn, world>>
  BY Zenon DEF Backfill, Restart
<1>2. ledger \in Seq(Row) /\ ETypeOK
  BY DEF EffectInv, ETypeOK
<1>3. ledger' \in Seq(Row)
  <2>1. CASE Restart
    BY <1>2, <2>1 DEF Restart
  <2>2. CASE Backfill
    <3>0. PICK t \in Unsettled : \E i \in Orphans(t) : ledger' = Append(ledger, [effect |-> "lost", write |-> ledger[i].write, txn |-> t])
      BY <2>2, Zenon DEF Backfill, Journal
    <3>1. PICK i \in Orphans(t) : ledger' = Append(ledger, [effect |-> "lost", write |-> ledger[i].write, txn |-> t])
      BY <3>0, Zenon
    <3>2. i \in DOMAIN ledger /\ t \in {NoTxn} \cup TxnIds
      BY <3>0, <3>1, Zenon DEF Unsettled, Orphans, RowsOf
    <3>3. ledger[i] \in Row
      BY <1>2, <3>2, ElementOf, Zenon
    <3>4. [effect |-> "lost", write |-> ledger[i].write, txn |-> t] \in Row
      BY <3>2, <3>3 DEF Row, Terminal
    <3>5. \A r \in Row : Append(ledger, r) \in Seq(Row)
      BY <1>2
    <3> QED BY <3>1, <3>4, <3>5, Zenon
  <2> QED BY <2>1, <2>2
<1>4. ETypeOK'
  <2>1. kpc' \in CallPc
    BY <1>1, Zenon DEF CallPc
  <2> QED BY <1>1, <1>2, <1>3, <2>1, Zenon DEF ETypeOK
<1> QED BY <1>1, <1>4, LedgerOnly, Zenon

\* The invariant holds before anything is sent and is kept by every step.
LEMMA EffectInvariant == ESpec => []EffectInv
<1>1. EInit => EffectInv
  <2> SUFFICES ASSUME EInit PROVE EffectInv
    OBVIOUS
  <2>1. DOMAIN <<>> = {} /\ \A S : <<>> \in Seq(S)
    OBVIOUS
  <2>2. DOMAIN queue = {} /\ DOMAIN drained = {} /\ DOMAIN accepted = {} /\ DOMAIN world = {}
    BY <2>1, Zenon DEF EInit
  <2>3. ETypeOK
    <3>1. /\ session \in {NoTxn} \cup TxnIds /\ policy \in Policies /\ sealed \in BOOLEAN
          /\ stamp \in {NoTxn} \cup TxnIds /\ kpc \in CallPc /\ txn \in {NoTxn} \cup TxnIds
      BY Zenon DEF EInit, Policies, CallPc
    <3>2. queue \in Seq(Writes) /\ drained \in Seq(Writes) /\ world \in Seq(Writes)
          /\ ledger \in Seq(Row) /\ accepted \in Seq([write : Writes, txn : TxnIds])
      BY <2>1, Zenon DEF EInit
    <3>3. Len(queue) <= MaxQueue /\ crashes \in 0..MaxCrashes
      BY BoundsAssumption DEF EInit
    <3>4. /\ xpc \in [Writes -> ProxyPc] /\ decidedIn \in [Writes -> {NoTxn} \cup TxnIds]
          /\ sealedIn \in [Writes -> {NoTxn} \cup TxnIds]
          /\ outcome \in [TxnIds -> {"none", "open", "committed", "aborted", "killed"}]
      BY DEF EInit, ProxyPc
    <3> QED BY <3>1, <3>2, <3>3, <3>4, Zenon DEF ETypeOK
  <2>4. SessionIsNewest
    BY <2>2 DEF EInit, SessionIsNewest
  <2>5. \A w : ~Accepted(w) /\ ~Sent(w)
    BY <2>2, Zenon DEF Accepted, Sent
  <2>6. ConnectionsTell
    BY <2>5, Zenon DEF ConnectionsTell
  <2>7. WaitingWasQueued
    BY <2>2, Zenon DEF WaitingWasQueued
  <2>8. LinesUp
    BY <2>2, Zenon DEF LinesUp
  <2>9. SentAtMostOnce
    BY <2>2, Zenon DEF SentAtMostOnce, IsInjective
  <2> QED BY <2>3, <2>4, <2>6, <2>7, <2>8, <2>9 DEF EffectInv
<1>2. EffectInv /\ [ENext]_evars => EffectInv'
  <2> SUFFICES ASSUME EffectInv, [ENext]_evars PROVE EffectInv'
    OBVIOUS
  <2>1. CASE Caller
    BY <2>1, CallerKeeps
  <2>2. CASE \E w \in Writes : Proxy(w)
    BY <2>2, ProxyKeeps, Zenon
  <2>3. CASE Crash
    BY <2>3, CrashKeeps
  <2>4. CASE Backfill \/ Restart
    BY <2>4, RestartKeeps
  <2>5. CASE UNCHANGED evars
    <3>1. UNCHANGED <<session, policy, sealed, queue, stamp, ledger, kpc, txn, drained, xpc, decidedIn, crashes,
                      outcome, accepted, sealedIn, world>>
      BY <2>5, Zenon DEF evars, gateState, callState, proxyState, seen
    <3>2. ETypeOK' /\ SessionIsNewest' /\ SentAtMostOnce'
      BY <3>1, Zenon DEF EffectInv, ETypeOK, SessionIsNewest, SentAtMostOnce
    <3>3. ConnectionsTell'
      <4>1. \A w : (Accepted(w)' <=> Accepted(w)) /\ (Sent(w)' <=> Sent(w))
        BY <3>1, Zenon DEF Accepted, Sent
      <4> QED BY <3>1, <4>1, Zenon DEF EffectInv, ConnectionsTell
    <3>4. WaitingWasQueued'
      <4>1. \A w : (Accepted(w)' <=> Accepted(w)) /\ (Sent(w)' <=> Sent(w))
        BY <3>1, Zenon DEF Accepted, Sent
      <4>2. (\A b \in DOMAIN queue : Accepted(queue[b]))' /\ (\A a \in DOMAIN drained : Accepted(drained[a]))'
        BY <3>1, <4>1, Zenon DEF EffectInv, WaitingWasQueued
      <4>3. (\A i \in DOMAIN accepted : Sent(accepted[i].write) => outcome[accepted[i].txn] = "committed")'
        BY <3>1, <4>1, Zenon DEF EffectInv, WaitingWasQueued
      <4> QED BY <3>1, <4>2, <4>3, Zenon DEF EffectInv, WaitingWasQueued
    <3>5. LinesUp'
      BY <3>1, LinesStay, Zenon DEF EffectInv
    <3> QED BY <3>2, <3>3, <3>4, <3>5 DEF EffectInv
  <2> QED BY <2>1, <2>2, <2>3, <2>4, <2>5, Zenon DEF ENext
<1> QED BY <1>1, <1>2, PTL DEF ESpec

\* A write that was queued leaves the host only after its transaction has
\* committed, and one that was answered 503 never does: for any number of
\* connections, transactions and crashes and any bound of the queue.
THEOREM DeferredAreGated == ESpec => []DeferredOnlyIfCommitted
<1>1. EffectInv => DeferredOnlyIfCommitted
  <2> SUFFICES ASSUME EffectInv PROVE DeferredOnlyIfCommitted
    OBVIOUS
  <2>1. DOMAIN world = 1..Len(world) /\ DOMAIN accepted = 1..Len(accepted)
    BY DEF EffectInv, ETypeOK
  <2>2. \A w : Contains(world, w) => Sent(w)
    BY <2>1, Zenon DEF Contains, Sent
  <2> QED BY <2>1, <2>2, Zenon DEF EffectInv, WaitingWasQueued, ConnectionsTell, DeferredOnlyIfCommitted
<1> QED BY <1>1, EffectInvariant, PTL

\* Each deferred write is sent at most once, and in the order in which the proxy
\* queued them, across the transactions and the crashes of a sandbox.
THEOREM SentInOrder == ESpec => []SentOnceInOrder
<1>1. EffectInv => SentOnceInOrder
  <2> SUFFICES ASSUME EffectInv PROVE SentOnceInOrder
    OBVIOUS
  <2>1. FlushedInOrder
    BY Zenon DEF EffectInv, LinesUp, Before, FlushedInOrder
  <2> QED BY <2>1, Zenon DEF EffectInv, SentOnceInOrder
<1> QED BY <1>1, EffectInvariant, PTL

=============================================================================
