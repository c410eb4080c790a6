---------------------------- MODULE TraceReplay ----------------------------
(***************************************************************************)
(* A coding agent's CLI in a sandbox whose answers are replayed from a     *)
(* recorded trace (integrations/llm_services): claude_code_trace_replay    *)
(* keeps a cursor and counts the assistant messages of a request,          *)
(* iflow_trace_replay looks a request up by its key.  The sandbox is       *)
(* checkpointed while an answer is awaited and restored after a fault, the *)
(* service with it, from the cursor stamped on the checkpoint.             *)
(*                                                                         *)
(* Step i of the trace takes the file it is about from version ver[i] to   *)
(* ver[i+1].  The CLI (external) asks for the answer to its conversation   *)
(* and carries out the step it is given.                                   *)
(***************************************************************************)
EXTENDS Integers, Sequences, FiniteSets, FiniteSetsExt, SequencesExt, Folds

CONSTANTS Versions,   \* what the file may hold
          TraceLen,   \* steps of the trace
          MaxPoints,  \* bound: checkpoints kept
          MaxKills,   \* bound: faults
          MaxRaw      \* bound: recorded steps of a trace to parse

ASSUME TraceAssumption == TraceLen \in Nat /\ MaxPoints \in Nat /\ MaxKills \in Nat /\ MaxRaw \in Nat

VARIABLES
    service,  \* "claude" or "iflow"
    tools,    \* the trace: what each step does
    ver,      \* the trace: the versions of the file
    trace_cursor, \* _trace_cursor
    catchup,  \* _catchup_restore_cursor is not None
    keys,     \* _served_request_keys: of the trace's steps
    consumed, \* _consumed_response_count
    cli,      \* the CLI: "asked", "held" (the answer waits at the gate), "done", "down"
    conv,     \* its conversation: assistant messages
    given,    \* the answer that is held: a step, TraceLen for the end of the turn
    plain,    \* the answer is the recorded one, not a dummy
    file,     \* the file in the sandbox
    deep,     \* history: the step of the trace the file stands at
    proc,     \* the process last captured: conversation and stamped cursor
    points,   \* checkpoints: process, file, stamped cursor
    kills,    \* faults so far
    odd       \* history: an answer was lost and asked for again, or given for a
              \* request the trace does not hold, or a dummy stood for a step
              \* that the file system does not have

trvars == <<service, tools, ver, trace_cursor, catchup, keys, consumed, cli, conv, given, plain,
            file, deep, proc, points, kills, odd>>

Steps0 == 0..(TraceLen - 1)
NoProc == [conv |-> -1, stamp |-> 0]
Tools == {"text", "edit", "write"}

\* A recorded trace: an edit replaces what the file held, text and reads leave it.
TraceOK ==
    /\ tools \in [Steps0 -> Tools] /\ ver \in [0..TraceLen -> Versions]
    /\ \A i \in Steps0 : /\ tools[i] = "text" => ver[i + 1] = ver[i]
                         /\ tools[i] = "edit" => ver[i + 1] # ver[i]

TRInit ==
    /\ service \in {"claude", "iflow"} /\ TraceOK
    /\ trace_cursor = 0 /\ catchup = FALSE /\ keys = {} /\ consumed = 0
    /\ cli = "asked" /\ conv = 0 /\ given = 0 /\ plain = TRUE
    /\ file = ver[0] /\ deep = 0 /\ proc = NoProc /\ points = {} /\ kills = 0 /\ odd = FALSE

MaxOf(a, b) == IF a > b THEN a ELSE b

-----------------------------------------------------------------------------
(* The services.                                                           *)

Answer(i, isPlain) == cli' = "held" /\ given' = i /\ plain' = isPlain
Unanswered == given' = 0 /\ plain' = TRUE

\* handle_request of a main-loop request after a restore: the step the
\* conversation is at again, without moving the cursor.
ServeCatchup ==
    /\ service = "claude" /\ cli = "asked"
    /\ catchup /\ conv < trace_cursor
    /\ Answer(IF conv >= TraceLen THEN TraceLen ELSE conv, TRUE)
    /\ UNCHANGED <<service, tools, ver, trace_cursor, catchup, keys, consumed, conv, file, deep, proc, points, kills, odd>>

\* ... and otherwise the next step.
ServeNext ==
    /\ service = "claude" /\ cli = "asked"
    /\ ~(catchup /\ conv < trace_cursor)
    /\ IF trace_cursor >= TraceLen THEN Answer(TraceLen, TRUE) /\ UNCHANGED <<trace_cursor, catchup>>
                                   ELSE Answer(trace_cursor, TRUE) /\ trace_cursor' = trace_cursor + 1 /\ catchup' = FALSE
    /\ UNCHANGED <<service, tools, ver, keys, consumed, conv, file, deep, proc, points, kills, odd>>

\* _lookup_stats: the key of a request is its conversation, with the
\* formatting taken out, and the trace holds those of its steps.
Holds == conv < TraceLen

\* A request that was served gets a dummy tool call instead of the recorded
\* one, unless the recorded one sets up the system or calls no tool.
Dummies(i) == IF tools[i] = "text" THEN {FALSE} ELSE BOOLEAN

\* next_response of a request the trace holds: strict or relaxed key.
ServeByKey ==
    /\ service = "iflow" /\ cli = "asked" /\ Holds
    /\ trace_cursor' = conv + 1
    /\ IF conv \in keys
       THEN (\E dummy \in Dummies(conv) : Answer(conv, ~dummy)) /\ UNCHANGED <<keys, consumed>>
       ELSE /\ keys' = keys \union {conv} /\ consumed' = consumed + 1
            /\ Answer(conv, TRUE)
    /\ UNCHANGED <<service, tools, ver, catchup, conv, file, deep, proc, points, kills, odd>>

\* ... of one it does not hold, by its cursor; an exhausted trace is an
\* error, on which the CLI ends.  It counts as served under its own key too.
ServeByCursor ==
    /\ service = "iflow" /\ cli = "asked"
    /\ IF trace_cursor >= TraceLen
       THEN Answer(TraceLen, TRUE) /\ UNCHANGED <<trace_cursor, keys, consumed>>
       ELSE /\ Answer(trace_cursor, TRUE) /\ trace_cursor' = trace_cursor + 1
            /\ keys' = keys \union {trace_cursor} /\ consumed' = consumed + 1
    /\ odd' = (odd \/ Holds)
    /\ UNCHANGED <<service, tools, ver, catchup, conv, file, deep, proc, points, kills>>

\* Mutant: a restore that moves the cursor and forgets that the conversation may be behind.
RestoredWithoutCatchup(n) ==
    /\ trace_cursor' = n /\ catchup' = FALSE
    /\ UNCHANGED <<consumed, keys>>

\* restore(consumed_response_count): claude takes the count as it is, iflow
\* clamps it and forgets what was served after it.
ServiceRestored(n) ==
    LET count == IF service = "iflow" /\ n > TraceLen THEN TraceLen ELSE n IN
    /\ trace_cursor' = count
    /\ catchup' = (service = "claude")
    /\ IF service = "iflow" THEN consumed' = count /\ keys' = 0..(count - 1)
                            ELSE UNCHANGED <<consumed, keys>>

\* reset: a sandbox that is launched anew.
ServiceReset == trace_cursor' = 0 /\ catchup' = FALSE /\ consumed' = 0 /\ keys' = {}

-----------------------------------------------------------------------------
(* The CLI and what its tools do to the file (_tool_to_replay_spec).       *)

\* Write sets the file; Edit replaces the recorded old text and changes
\* nothing where it is not there.  A dummy tool does nothing.
Carried(i) ==
    IF plain /\ (tools[i] = "write" \/ (tools[i] = "edit" /\ file = ver[i])) THEN ver[i + 1] ELSE file

\* The gate releases the answer; the CLI carries the step out and asks again.
Deliver ==
    /\ cli = "held"
    /\ IF given = TraceLen
       THEN cli' = "done" /\ UNCHANGED <<conv, file, deep, odd>>
       ELSE /\ cli' = "asked" /\ conv' = conv + 1
            /\ file' = Carried(given)
            /\ deep' = IF file' # file \/ (plain /\ tools[given] = "write") THEN given + 1
                                                                         ELSE MaxOf(deep, given + 1)
            /\ odd' = (odd \/ (~plain /\ deep <= given))
    /\ Unanswered
    /\ UNCHANGED <<service, tools, ver, trace_cursor, catchup, keys, consumed, proc, points, kills>>

\* The answer is lost on its way and the CLI sends its request again.
Retry ==
    /\ cli = "held" /\ kills < MaxKills
    /\ cli' = "asked" /\ odd' = TRUE /\ kills' = kills + 1
    /\ Unanswered
    /\ UNCHANGED <<service, tools, ver, trace_cursor, catchup, keys, consumed, conv, file, deep, proc, points>>

-----------------------------------------------------------------------------
(* Checkpoints, faults and restores.                                       *)

\* A checkpoint while the CLI waits: the file system as it is and the
\* service's cursor.  The process is captured too, or, when only ignored
\* processes changed, stays that of an earlier checkpoint.  Old checkpoints
\* may be deleted.
Checkpoint(full) ==
    /\ cli \in {"asked", "held"}
    /\ full \/ proc # NoProc
    /\ proc' = IF full THEN [conv |-> conv, stamp |-> trace_cursor] ELSE proc
    /\ \E kept \in SUBSET points :
        /\ Cardinality(kept) < MaxPoints
        /\ points' = kept \union {[proc |-> proc', file |-> file, stamp |-> trace_cursor,
                                   at |-> deep, odd |-> odd]}
    /\ UNCHANGED <<service, tools, ver, trace_cursor, catchup, keys, consumed, cli, conv, given, plain,
                   file, deep, kills, odd>>

Kill ==
    /\ cli # "down" /\ kills < MaxKills
    /\ cli' = "down" /\ kills' = kills + 1
    /\ Unanswered
    /\ UNCHANGED <<service, tools, ver, trace_cursor, catchup, keys, consumed, conv,
                   file, deep, proc, points, odd>>

\* _restore_llm_service_state: the service goes to the larger of the cursors
\* stamped where the process and the file system come from.
RestoreFrom(p) ==
    LET n == MaxOf(p.proc.stamp, p.stamp) IN
    /\ cli = "down"
    /\ cli' = "asked" /\ conv' = p.proc.conv /\ file' = p.file /\ deep' = p.at /\ proc' = p.proc
    /\ ServiceRestored(n)
    /\ odd' = p.odd
    /\ UNCHANGED <<service, tools, ver, given, plain, points, kills>>

Relaunch ==
    /\ cli = "down"
    /\ cli' = "asked" /\ conv' = 0 /\ file' = ver[0] /\ deep' = 0 /\ proc' = NoProc /\ odd' = FALSE
    /\ ServiceReset
    /\ UNCHANGED <<service, tools, ver, given, plain, points, kills>>

TRNext ==
    \/ ServeCatchup \/ ServeNext \/ ServeByKey \/ ServeByCursor
    \/ Deliver \/ Retry
    \/ Kill \/ Relaunch
    \/ \E full \in BOOLEAN : Checkpoint(full)
    \/ \E p \in points : RestoreFrom(p)

TRSpec == TRInit /\ [][TRNext]_trvars

-----------------------------------------------------------------------------
(* Parsing a recorded trace (parse_replay_trace, _parse_sidechain_jsonl).   *)
(* An entry says something, calls tools, or does neither; entry i is        *)
(* stamped with the time i, or with none.                                   *)

VARIABLE raw   \* the recorded entries: [role, id, text, tool, time]

Entries(i) == {e \in [role : {"user", "agent"}, id : {1, 2}, text : BOOLEAN, tool : BOOLEAN, time : {0, i}] :
                 e.role = "user" => e.id = 1 /\ ~e.text /\ ~e.tool}

Record ==
    /\ Len(raw) < MaxRaw
    /\ \E e \in Entries(Len(raw) + 1) : raw' = Append(raw, e)

\* _new_turn, _turn_has_content
NoTurn == [texts |-> <<>>, calls |-> <<>>, start |-> -1, end |-> -1]
NewTurn(t) == [texts |-> <<>>, calls |-> <<>>, start |-> t, end |-> t]
HasContent(turn) == turn.texts # <<>> \/ turn.calls # <<>>
Stamped(turn, t) ==
    IF t = 0 THEN turn ELSE [turn EXCEPT !.start = IF @ = 0 THEN t ELSE @, !.end = t]

\* _merge_agent_steps: text is kept back until a step calls tools.
MergeStep(acc, i) ==
    LET e == raw[i]
        open == IF acc.open = NoTurn THEN NewTurn(e.time) ELSE acc.open
        said == Stamped(IF e.text THEN [open EXCEPT !.texts = Append(@, i)] ELSE open, e.time) IN
    CASE e.role = "user" -> acc
      [] e.role # "user" /\ e.tool ->
           [out |-> Append(acc.out, Stamped([open EXCEPT !.calls = <<i>>], e.time)), open |-> NoTurn]
      [] e.role # "user" /\ ~e.tool /\ e.text -> [acc EXCEPT !.open = said]
      [] OTHER -> [acc EXCEPT !.open = IF @ = NoTurn \/ e.time = 0 THEN @ ELSE [@ EXCEPT !.end = e.time]]

\* Mutant: a parser that drops the open turn when another message begins.
SideDropsOpen(acc, i) ==
    LET e == raw[i]
        open == NewTurn(e.time) IN
    [out |-> acc.out, id |-> e.id,
     open |-> [open EXCEPT !.texts = IF e.text THEN <<i>> ELSE <<>>, !.calls = IF e.tool THEN <<i>> ELSE <<>>]]

\* _parse_sidechain_jsonl: one turn per message id; a user entry ends it.
SideStep(acc, i) ==
    LET e == raw[i]
        closed == IF HasContent(acc.open) THEN Append(acc.out, acc.open) ELSE acc.out
        same == acc.open # NoTurn /\ acc.id = e.id
        open == IF same THEN acc.open ELSE NewTurn(e.time)
        texts == IF e.text THEN Append(open.texts, i) ELSE open.texts
        calls == IF e.tool THEN Append(open.calls, i) ELSE open.calls IN
    IF e.role = "user" THEN [out |-> closed, open |-> NoTurn, id |-> 0]
    ELSE [out |-> IF same THEN acc.out ELSE closed,
          open |-> Stamped([open EXCEPT !.texts = texts, !.calls = calls], e.time), id |-> e.id]

Flushed(acc) == IF HasContent(acc.open) THEN Append(acc.out, acc.open) ELSE acc.out
Merged == Flushed(FoldLeft(MergeStep, [out |-> <<>>, open |-> NoTurn], [i \in DOMAIN raw |-> i]))
SideMerged == Flushed(FoldLeft(SideStep, [out |-> <<>>, open |-> NoTurn, id |-> 0], [i \in DOMAIN raw |-> i]))

\* _compute_turn_delays_ms: from the end of a turn to the start of the next.
DelayStep(acc, turn) ==
    [out |-> Append(acc.out, IF acc.prev = 0 \/ turn.start = 0 THEN -1
                             ELSE IF turn.start > acc.prev THEN turn.start - acc.prev ELSE 0),
     prev |-> IF turn.end # 0 THEN turn.end ELSE IF turn.start # 0 THEN turn.start ELSE acc.prev]
Delays(turns) == FoldLeft(DelayStep, [out |-> <<>>, prev |-> 0], turns).out

\* _effective_delay_ms under the bounds the constructor accepts.
EffectiveDelay(policy, recordedDelay, fixed, factor, lo, hi) ==
    LET delay == IF policy = "trace_replay" /\ recordedDelay # -1 THEN recordedDelay * factor ELSE fixed
        low == MaxOf(lo, delay) IN
    IF low < hi THEN low ELSE hi

-----------------------------------------------------------------------------
(* Properties.                                                             *)

TRTypeOK ==
    /\ TraceOK /\ conv \in 0..TraceLen /\ given \in 0..TraceLen /\ trace_cursor \in 0..TraceLen
    /\ file \in Versions /\ deep \in 0..TraceLen /\ keys \subseteq Steps0
    /\ cli \in {"asked", "held", "done", "down"}

\* The replayed file follows the recorded one: it is a recorded version, no
\* older than the conversation, and the conversation's own once the CLI has
\* caught up, whichever of the edits and writes were carried out twice.
FileFollowsTrace ==
    ~odd /\ cli # "down" =>
        /\ \E k \in conv..TraceLen : file = ver[k] /\ k = deep
        /\ cli = "asked" /\ service = "claude" /\ ~catchup => file = ver[conv]

\* A session that ends has said the whole trace, once and in order.
EndIsComplete == ~odd /\ cli = "done" => conv = TraceLen /\ file = ver[TraceLen]

\* Every answer is the one recorded for its turn, and the service is not
\* behind the conversation: a step is answered fresh once per restore.
AnswersFollowTrace ==
    ~odd => /\ cli = "held" => given = conv
            /\ cli = "asked" => /\ service = "claude" => conv <= trace_cursor /\ (~catchup => conv = trace_cursor)
                                /\ service = "iflow" => consumed = Cardinality(keys)

\* The turns of a parsed trace hold what was recorded, each text and each
\* call once and in order.  (_meaningful_step_text: a main-loop step that
\* calls tools has no text of its own.)
Concat(turns, f(_)) == FlattenSeq([k \in DOMAIN turns |-> f(turns[k])])
Texts(turn) == turn.texts
CallsOf(turn) == turn.calls
EntriesWith(sel(_)) == SelectSeq([i \in DOMAIN raw |-> i], sel)
IsText(i) == raw[i].text
IsOnlyText(i) == raw[i].text /\ ~raw[i].tool
IsCall(i) == raw[i].tool

ParseKeepsEntries ==
    LET main == Merged
        side == SideMerged IN
    /\ Concat(main, Texts) = EntriesWith(IsOnlyText) /\ Concat(side, Texts) = EntriesWith(IsText)
    /\ \A turns \in {main, side} :
        /\ Concat(turns, CallsOf) = EntriesWith(IsCall)
        /\ \A k \in DOMAIN turns : HasContent(turns[k]) /\ turns[k].start <= turns[k].end

\* A main-loop turn is text, then at most one step of calls, and only the last
\* turn may lack them; an auxiliary agent's turn is of one message, and two
\* turns in a row without a user entry between them are of different ones.
TurnsAreMessages ==
    LET main == Merged
        side == SideMerged IN
    /\ \A k \in DOMAIN main :
        /\ k < Len(main) => Len(main[k].calls) = 1
        /\ \A i \in Range(main[k].texts), j \in Range(main[k].calls) : i <= j
    /\ \A k \in DOMAIN side :
        LET at == Range(side[k].texts) \union Range(side[k].calls) IN
        /\ \A i, j \in at : raw[i].id = raw[j].id
        /\ \A i, j \in at : \A h \in i..j : raw[h].role # "user"

\* The replay takes no longer than the recording: the recorded delays fit in
\* its span, and a delay that is put in stays in the bounds of the service.
DelaysFit ==
    LET d == SelectSeq(Delays(Merged), LAMBDA x : x # -1) IN
    /\ FoldLeft(LAMBDA x, y : x + y, 0, d) <= Len(raw)
    /\ \A x \in Range(d), lo, hi \in 0..2, fixed \in {0, 3}, factor \in {0, 2}, policy \in {"fixed", "trace_replay"} :
        lo <= hi => EffectiveDelay(policy, x, fixed, factor, lo, hi) \in lo..hi

\* Whatever checkpoint a restored sandbox comes back from, both replay services
\* (handle_request, restore) take its CLI through the recorded session
\* to the end: no step is skipped, and one carried out twice does no harm.
TracesAreReplayed == TRTypeOK /\ FileFollowsTrace /\ EndIsComplete /\ AnswersFollowTrace

\* The parsers of recorded sessions (_merge_agent_steps, _parse_sidechain_jsonl)
\* lose, repeat and reorder nothing, and the delays they compute fit the recording.
TracesAreParsed == ParseKeepsEntries /\ TurnsAreMessages /\ DelaysFit
=============================================================================
