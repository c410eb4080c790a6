------------------------------ MODULE TreeMerge -----------------------------
(***************************************************************************)
(* The filesystem merge of a fork into its source: merge_from_fork of      *)
(* src/crab/system.py over the planner and the applier of                  *)
(* src/crab/merging.py.  A tree gives every path nothing, a directory or a *)
(* content; the backend's diff lists what a side changed since the fork    *)
(* point, with a moved directory as one renamed row.  The plan is made     *)
(* from the two diffs, applied path by path, and undone path by path from  *)
(* a snapshot when an operation fails.                                     *)
(***************************************************************************)
EXTENDS Integers, Sequences, FiniteSets, FiniteSetsExt, SequencesExt

CONSTANTS MaxMergeFaults   \* bound: operations and undo steps that fail

ASSUME TreeMergeAssumption == MaxMergeFaults \in Nat

\* Two top-level names and one name under each.
Tops == {"d", "e"}
Kid == [d |-> "d/x", e |-> "e/x"]
Top == [p \in {"d/x", "e/x"} |-> IF p = "d/x" THEN "d" ELSE "e"]
Kids == {"d/x", "e/x"}
Paths == Tops \cup Kids
Depth(p) == IF p \in Tops THEN 1 ELSE 2
Rank == [d |-> 1, e |-> 2] @@ [p \in Kids |-> IF p = "d/x" THEN 1 ELSE 2]
None == "none"
Dir == "dir"
Sound(t) == \A p \in Kids : t[p] # None => t[Top[p]] = Dir
Trees(contents) == {t \in [Paths -> {None, Dir} \cup contents] : Sound(t) /\ \A p \in Kids : t[p] # Dir}

Policies == {"fail_fast", "prefer_fork", "prefer_source"}

VARIABLES mbase, msource, mfork,   \* the three trees the merge starts from
          moved,                   \* the fork's diff reports d -> e as a rename
          policy, tree,            \* the source's tree as the merge changes it
          ops, touched,            \* what is left to apply, what was touched
          mpc, rolledBack, window, \* where the merge is; the merge window (pause, snapshot, registry)
          mfaults
mvars == <<mbase, msource, mfork, moved, policy, tree, ops, touched, mpc, rolledBack, window, mfaults>>

-----------------------------------------------------------------------------
\* parse_zfs_diff: the rows of a side's diff.  A path whose inode was removed
\* and another added folds to modified, whatever the two types; a directory
\* whose child changed is listed as modified.
Row(p, change, from) == [path |-> p, change |-> change, from |-> from]
PlainDiff(b, t) ==
    {Row(p, "added", None) : p \in {q \in Paths : b[q] = None /\ t[q] # None}}
    \cup {Row(p, "removed", None) : p \in {q \in Paths : b[q] # None /\ t[q] = None}}
    \cup {Row(p, "modified", None) : p \in {q \in Paths : None \notin {b[q], t[q]} /\ b[q] # t[q]}}
    \cup {Row(p, "modified", None) : p \in {q \in Tops : b[q] = Dir /\ t[q] = Dir /\ b[Kid[q]] # t[Kid[q]]}}

\* The directory d became e: one renamed row, which absorbs the removal of an
\* e it replaced, and of e's child only a change against what d's child was.
Moves(b, t) == b["d"] = Dir /\ t["d"] = None /\ t["e"] = Dir
MovedDiff(b, t) ==
    {Row("e", "renamed", "d")}
    \cup (CASE b["d/x"] = t["e/x"] -> {}
            [] b["d/x"] = None -> {Row("e/x", "added", None)}
            [] t["e/x"] = None -> {Row("d/x", "removed", None)}
            [] OTHER -> {Row("e/x", "modified", None)})

ForkRows == IF moved THEN MovedDiff(mbase, mfork) ELSE PlainDiff(mbase, mfork)
SourceRows == PlainDiff(mbase, msource)

-----------------------------------------------------------------------------
\* plan_merge.  Rows that only say a directory's time changed are noise.
Noise(r, t) == r.change = "modified" /\ t[r.path] = Dir
SourceSide == {r \in SourceRows : ~Noise(r, msource)}
SourceChanged == {r.path : r \in SourceSide}
SourceRemoved == {r.path : r \in {s \in SourceSide : s.change = "removed"}}
Touched(p) == p \in SourceChanged \/ (p \in Kids /\ Top[p] \in SourceRemoved)
ChangedUnder(p) == p \in Tops /\ Kid[p] \in SourceChanged

UnderIgnored(r) == Touched(r.path) \/ (r.change = "renamed" /\ Touched(r.from))
Conflicts(r) == \/ Touched(r.path)
                \/ r.change = "renamed" /\ Touched(r.from)
                \/ r.change = "removed" /\ ChangedUnder(r.path)
                \/ r.change = "renamed" /\ ChangedUnder(r.from)

Op(kind, p) == [kind |-> kind, path |-> p]
OpsOf(r) == CASE r.change = "removed" -> {Op("remove", r.path)}
              [] r.change = "renamed" -> {Op("remove", r.from), Op("copy_tree", r.path)}
              [] OTHER -> {Op("copy", r.path)}

Listed == {r \in ForkRows : ~Noise(r, mfork)}
Conflicted == {r \in Listed : Conflicts(r)}
Applicable == IF policy = "prefer_fork" THEN Listed ELSE Listed \ Conflicted
Aborts == policy = "fail_fast" /\ Conflicted # {}

\* Removals deepest first, then additions shallowest first.
Before(s, o) == \/ s.kind = "remove" /\ o.kind # "remove"
                \/ /\ s.kind = "remove" /\ o.kind = "remove"
                   /\ Depth(s.path) > Depth(o.path) \/ (Depth(s.path) = Depth(o.path) /\ Rank[s.path] > Rank[o.path])
                \/ /\ s.kind # "remove" /\ o.kind # "remove"
                   /\ Depth(s.path) < Depth(o.path) \/ (Depth(s.path) = Depth(o.path) /\ Rank[s.path] < Rank[o.path])
PlanOps == IF Aborts THEN <<>> ELSE SetToSortSeq(UNION {OpsOf(r) : r \in Applicable}, Before)

-----------------------------------------------------------------------------
MInit == /\ mbase \in {t \in Trees({"base"}) : t["e"] \in {None, Dir} /\ t["e/x"] = None}
         /\ mfork \in Trees({"base", "theirs"}) /\ msource \in Trees({"base", "ours"})
         /\ moved \in {FALSE, TRUE} /\ (moved => Moves(mbase, mfork))
         /\ policy \in Policies /\ tree = msource /\ ops = <<>> /\ touched = <<>> /\ mpc = "plan"
         /\ rolledBack = FALSE /\ window = FALSE /\ mfaults = 0

\* merge_from_fork: registered, both sides paused, planned and, when there is
\* something to apply, snapshot taken.
Plan == /\ mpc = "plan" /\ window' = TRUE /\ ops' = PlanOps /\ mpc' = IF PlanOps = <<>> THEN "report" ELSE "apply"
        /\ UNCHANGED <<mbase, msource, mfork, moved, policy, tree, touched, rolledBack, mfaults>>

\* _apply_op: parents are made as needed, a node of another type gives way.
Removed(t, p) == [q \in Paths |-> IF q = p \/ (p \in Tops /\ q = Kid[p]) THEN None ELSE t[q]]
WithParent(t, p) == IF p \in Kids /\ t[Top[p]] = None THEN [t EXCEPT ![Top[p]] = Dir] ELSE t
ParentIsFile(t, p) == p \in Kids /\ t[Top[p]] \notin {None, Dir}
CopyNode(t, from, p) ==
    LET u == WithParent(t, p)
    IN CASE from[p] = Dir -> IF u[p] = Dir THEN u ELSE [u EXCEPT ![p] = Dir]
         [] OTHER -> [Removed(u, p) EXCEPT ![p] = from[p]]
CopyTree(t, from, p) == [q \in Paths |-> IF q = p \/ (p \in Tops /\ q = Kid[p]) THEN from[q] ELSE WithParent(t, p)[q]]
Applied(t, op) == CASE op.kind = "remove" -> Removed(t, op.path)
                    [] op.kind = "copy" -> CopyNode(t, mfork, op.path)
                    [] OTHER -> CopyTree(t, mfork, op.path)
Refused(t, op) == op.kind # "remove" /\ (ParentIsFile(t, op.path) \/ mfork[op.path] = None)

ApplyOp == /\ mpc = "apply" /\ ops # <<>> /\ ~Refused(tree, Head(ops))
           /\ tree' = Applied(tree, Head(ops)) /\ touched' = Append(touched, Head(ops).path) /\ ops' = Tail(ops)
           /\ UNCHANGED <<mbase, msource, mfork, moved, policy, mpc, rolledBack, window, mfaults>>

\* An operation raises, before or after its effect; its path is recorded first.
Recorded(p) == Append(touched, p)
ApplyFails == /\ mpc = "apply" /\ ops # <<>> /\ (Refused(tree, Head(ops)) \/ mfaults < MaxMergeFaults)
              /\ mfaults' = IF Refused(tree, Head(ops)) THEN mfaults ELSE mfaults + 1
              /\ tree' \in {tree} \cup (IF Refused(tree, Head(ops)) THEN {} ELSE {Applied(tree, Head(ops))})
              /\ touched' = Recorded(Head(ops).path) /\ ops' = <<>> /\ mpc' = "undo" /\ rolledBack' = TRUE
              /\ UNCHANGED <<mbase, msource, mfork, moved, policy, window>>

\* _undo: the touched paths, newest first, from the snapshot.
Newest == Last(touched)
Undone(t, p) == IF msource[p] = None THEN Removed(t, p)
                ELSE [q \in Paths |-> IF q = p \/ (p \in Tops /\ q = Kid[p]) THEN msource[q]
                                      ELSE WithParent(Removed(t, p), p)[q]]
UndoStep == /\ mpc = "undo" /\ touched # <<>>
            /\ touched' = SelectSeq(touched, LAMBDA p : p # Newest)
            /\ \/ tree' = Undone(tree, Newest) /\ UNCHANGED <<rolledBack, mfaults>>
               \/ /\ mfaults < MaxMergeFaults /\ mfaults' = mfaults + 1
                  /\ rolledBack' = FALSE /\ UNCHANGED tree
            /\ UNCHANGED <<mbase, msource, mfork, moved, policy, ops, mpc, window>>

ApplyEnds == /\ mpc = "apply" /\ ops = <<>> /\ mpc' = "report"
             /\ UNCHANGED <<mbase, msource, mfork, moved, policy, tree, ops, touched, rolledBack, window, mfaults>>

\* The snapshot is discarded, both sides resumed, the registry cleared.
MergeEnds == /\ mpc = "report" \/ (mpc = "undo" /\ touched = <<>>)
             /\ mpc' = IF mpc = "report" THEN "merged" ELSE "failed"
             /\ window' = FALSE
             /\ UNCHANGED <<mbase, msource, mfork, moved, policy, tree, ops, touched, rolledBack, mfaults>>

MNext == Plan \/ ApplyOp \/ ApplyFails \/ UndoStep \/ ApplyEnds \/ MergeEnds
MSpec == MInit /\ [][MNext]_mvars

-----------------------------------------------------------------------------
\* Where the fork left the base alone the source's version, else the fork's.
ThreeWay == [p \in Paths |-> IF mfork[p] = mbase[p] THEN msource[p] ELSE mfork[p]]

\* A directory became a file, a file a directory, or d was moved onto an e.
Replaced == \/ moved /\ mbase["e"] # None
            \/ \E p \in Paths, t \in {mfork, msource} :
                   mbase[p] # None /\ t[p] # None /\ (mbase[p] = Dir) # (t[p] = Dir)

\* A merge without conflicts is the three-way merge of the trees, path by
\* path, whatever adds, removals and directory moves the two sides hold.
MergeIsThreeWay == mpc = "merged" /\ Conflicted = {} /\ ~Replaced => tree = ThreeWay

\* With prefer_fork every path the fork changed ends as the fork has it.
PreferForkWins == mpc = "merged" /\ policy = "prefer_fork" /\ ~Replaced =>
                      \A p \in Paths : mfork[p] # mbase[p] => tree[p] = mfork[p]

\* The result is a tree: nothing hangs under a path that is no directory.
MergedIsSound == mpc = "merged" => Sound(tree)

\* With prefer_source every path the source changed ends as the source has it.
PreferSourceKeeps == mpc = "merged" /\ policy = "prefer_source" /\ ~Replaced =>
                        \A p \in Paths : msource[p] # mbase[p] => tree[p] = msource[p]

\* A merge that reports a rollback left everything the source had as it was.
RollbackRestores == mpc = "failed" /\ rolledBack => \A p \in Paths : msource[p] # None => tree[p] = msource[p]

\* Not so: short of prefer_fork, what the source changed since the fork point
\* survives a merge.  A directory the fork replaced by a file is a modified
\* row, which is no conflict with what the source put under the directory.
SourceChangesSurvive == mpc = "merged" /\ policy # "prefer_fork" =>
                            \A p \in Paths : msource[p] # mbase[p] => tree[p] = msource[p]

\* Not so: a merge without conflicts applies every change of the fork.  A
\* file the fork replaced by a directory folds to modified, and a modified
\* directory is skipped as a change of its time.
EveryChangeApplies == mpc = "merged" /\ Conflicted = {} =>
                          \A p \in Paths : mfork[p] # mbase[p] => tree[p] = mfork[p]

\* Not so: a merge that reports a rollback left the source's tree as it was.
\* A parent made for a copy is not among the touched paths and stays.
RollbackIsClean == mpc = "failed" /\ rolledBack => tree = msource

-----------------------------------------------------------------------------
(***************************************************************************)
(* merge3 of src/crab/textmerge.py, the line merge behind the text_merge   *)
(* policy: the hunks of both sides, sorted by base range, are grouped by   *)
(* overlap; a group of one, or of two identical hunks, is applied, any     *)
(* other makes the merge unresolvable.  The hunks themselves come from     *)
(* difflib: a side's hunks are apart by at least one unchanged line.       *)
(***************************************************************************)

CONSTANTS BaseLines   \* bound: lines of the base text

ASSUME TextMergeAssumption == BaseLines \in Nat \ {0}

VARIABLES hunks,         \* the hunks of the two sides, sorted
          sides,         \* the set of hunks of each side
          index, merged, cursor, textpc
tmvars == <<hunks, sides, index, merged, cursor, textpc>>

\* Base lines are 1..BaseLines; a replacement is empty or one new line.
NewLines == {<<>>, <<100>>, <<200>>}
Hunks == {h \in [from : 0..BaseLines, to : 0..BaseLines, rep : NewLines] :
              h.from <= h.to /\ (h.from = h.to => h.rep # <<>>)}

\* _changed_hunks: the edits one side can make.
Edits == {S \in {{}} \cup {{g, h} : g, h \in Hunks} : \A g, h \in S : g = h \/ g.to < h.from \/ h.to < g.from}

\* The sort key: base start, base end, side.
Sooner(g, h) == \/ g.from < h.from
                \/ g.from = h.from /\ (g.to < h.to \/ (g.to = h.to /\ g.side < h.side))
Sided(S, n) == {[from |-> h.from, to |-> h.to, rep |-> h.rep, side |-> n] : h \in S}

Kept(a, b) == [j \in 1..(b - a) |-> a + j]

TmInit == /\ sides \in Edits \X Edits
          /\ hunks = SetToSortSeq(Sided(sides[1], 0) \cup Sided(sides[2], 1), Sooner)
          /\ index = 1 /\ merged = <<>> /\ cursor = 0 /\ textpc = IF sides[1] = sides[2] THEN "same" ELSE "group"

\* Identical texts are returned as they are.
Same == /\ textpc = "same" /\ textpc' = "done"
        /\ merged' = FoldLeft(LAMBDA out, h : [text |-> out.text \o Kept(out.at, h.from) \o h.rep,
                                               at |-> h.to],
                              [text |-> <<>>, at |-> 0], SelectSeq(hunks, LAMBDA h : h.side = 0)).text
        /\ cursor' = FoldLeft(LAMBDA out, h : h.to, 0, hunks) /\ index' = Len(hunks) + 1
        /\ UNCHANGED <<hunks, sides>>

Overlaps(a0, a1, b0, b1) == (a0 < b1 /\ b0 < a1) \/ (a0 = a1 /\ a1 = b0 /\ b0 = b1)

\* The group from hunk i on: grown while the next hunk overlaps its range.
GroupEnd[g \in [start : 0..BaseLines, end : 0..BaseLines, scan : 1..5]] ==
    IF g.scan <= Len(hunks) /\ g.scan < 5 /\ Overlaps(g.start, g.end, hunks[g.scan].from, hunks[g.scan].to)
    THEN GroupEnd[[g EXCEPT !.end = Max({@, hunks[g.scan].to}), !.scan = @ + 1]]
    ELSE g.scan
GroupStop == GroupEnd[[start |-> hunks[index].from, end |-> hunks[index].to, scan |-> index + 1]]

Resolvable(g) == Len(g) = 1 \/ (Len(g) = 2 /\ [g[1] EXCEPT !.side = 0] = [g[2] EXCEPT !.side = 0])

Group == /\ textpc = "group" /\ index <= Len(hunks)
         /\ LET g == SubSeq(hunks, index, GroupStop - 1)
            IN IF Resolvable(g)
               THEN /\ merged' = merged \o Kept(cursor, g[1].from) \o g[1].rep /\ cursor' = g[1].to
                    /\ index' = GroupStop /\ UNCHANGED textpc
               ELSE textpc' = "unresolvable" /\ UNCHANGED <<merged, cursor, index>>
         /\ UNCHANGED <<hunks, sides>>

Rest == /\ \/ textpc = "group" /\ index > Len(hunks)
           \/ textpc = "done" /\ cursor < BaseLines
        /\ merged' = merged \o Kept(cursor, BaseLines) /\ cursor' = BaseLines /\ textpc' = "done"
        /\ UNCHANGED <<hunks, sides, index>>

TmNext == Same \/ Group \/ Rest
TmSpec == TmInit /\ [][TmNext]_tmvars
-----------------------------------------------------------------------------
\* What an edit touches: its lines and the gaps inside them, or its gap.
Spots(h) == IF h.from = h.to THEN {<<"gap", h.from>>}
            ELSE {<<"line", i>> : i \in (h.from + 1)..h.to} \cup {<<"gap", i>> : i \in (h.from + 1)..(h.to - 1)}
Clash == \E g \in sides[1], h \in sides[2] : g # h /\ Spots(g) \cap Spots(h) # {}

\* Line by line: what was inserted before it, then the line or what replaces it.
All == sides[1] \cup sides[2]
TextOf(h) == IF h = {} THEN <<>> ELSE (CHOOSE g \in h : TRUE).rep
At(i) == TextOf({h \in All : h.from = h.to /\ h.from = i})
         \o (IF \E h \in All : h.from < i + 1 /\ i + 1 <= h.to
             THEN TextOf({h \in All : h.from = i /\ h.from < h.to})
             ELSE IF i < BaseLines THEN <<i + 1>> ELSE <<>>)
Reference == FoldLeft(LAMBDA out, i : out \o At(i), <<>>, [i \in 1..(BaseLines + 1) |-> i - 1])

\* A merge that resolves is the line-by-line composition of both sides' edits:
\* no edit of either side is lost, doubled or misplaced.
MergeComposes == textpc = "done" /\ cursor = BaseLines => merged = Reference

\* It is given up exactly when two different edits touch a common line, a gap
\* inside the other's range, or insert at one place.
GivesUpOnClash == (textpc = "unresolvable" => Clash) /\ (textpc = "done" => ~Clash \/ sides[1] = sides[2])

\* A merge that ends is the three-way merge, of the tree and of a text in it; a
\* preferred side wins, the result is a tree, a text is given up only on a
\* clash, and a merge that was rolled back has taken nothing away.
MergeIsSound == /\ MergeIsThreeWay /\ PreferForkWins /\ PreferSourceKeeps /\ MergedIsSound
                /\ RollbackRestores /\ MergeComposes /\ GivesUpOnClash

-----------------------------------------------------------------------------
(***************************************************************************)
(* The process half of consolidation in src/crab/system.py: merge_processes *)
(* either replays a fork's recorded commands on the source, under an       *)
(* egress replay window and an effect session, or promotes the fork over   *)
(* the source; consolidate_observations copies the fork's journal records  *)
(* into the source's, row by row, and ends with a marker.  merge_processes *)
(* takes no part in the registry of active merges, so calls interleave.    *)
(***************************************************************************)

CONSTANTS Mergers,         \* callers
          ForkSet,         \* forks of the one source
          Records,         \* commands in a fork's journal; the last one writes
          MaxPmCalls,      \* bound: calls
          MaxPmFaults      \* bound: steps that raise

ASSUME ProcMergeAssumption == Records \in Nat \ {0} /\ {MaxPmCalls, MaxPmFaults} \subseteq Nat

VARIABLES
    pm,         \* the callers
    session,    \* owner of the source's effect session, "none" without one
    reads,      \* owner of the source's egress replay window
    frozen,     \* paused containers: the forks' and "source"
    rows,       \* observation rows of the source's journal: fork, record and reason
    marked,     \* forks with an observations_consolidated marker
    gone,       \* forks promoted or destroyed
    writes,     \* the source's own changes since the forks were made
    carried,    \* those of them each fork has
    bg,         \* the source runs background processes
    history     \* what happened: calls, faults and the flags of the properties below
pmvars == <<pm, session, reads, frozen, rows, marked, gone, writes, carried, bg, history>>

IdleMerger == [pc |-> "idle", fork |-> "none", i |-> 0, armed |-> {}, paused |-> {}, force |-> FALSE, reason |-> "none", back |-> "idle"]
Quiet == [calls |-> 0, faults |-> 0, refired |-> FALSE, contended |-> FALSE, unarmed |-> FALSE, stuck |-> {},
          killed |-> FALSE, lostwrites |-> FALSE, halfway |-> FALSE]

PmInit == /\ pm = [c \in Mergers |-> IdleMerger] /\ session = "none" /\ reads = "none" /\ frozen = {} /\ rows = <<>>
          /\ marked = {} /\ gone = {} /\ writes = 0 /\ carried = [f \in ForkSet |-> 0] /\ bg \in BOOLEAN /\ history = Quiet

PmGo(c, p) == pm' = [pm EXCEPT ![c].pc = p]
Fault == history.faults < MaxPmFaults
Raised(h) == [h EXCEPT !.faults = @ + 1]
Called == history.calls < MaxPmCalls
Replaying == {c \in Mergers : pm[c].pc \in {"effects", "exec", "end"}}

\* The source's agent: a change of its filesystem, a background process.
SourceWorks == /\ "source" \notin frozen /\ writes < 1 /\ writes' = writes + 1
               /\ UNCHANGED <<pm, session, reads, frozen, rows, marked, gone, carried, bg, history>>
SourceSpawns == /\ "source" \notin frozen /\ ~bg /\ bg' = TRUE
                /\ UNCHANGED <<pm, session, reads, frozen, rows, marked, gone, writes, carried, history>>

-----------------------------------------------------------------------------
\* merge_processes: the census of the source's processes picks the strategy;
\* promotion over background processes is refused unless forced.
MergeProcesses(c, f, force) ==
    /\ pm[c].pc = "idle" /\ Called /\ f \notin gone /\ "source" \notin frozen
    /\ \E strategy \in {"replay", "promote"} :
          /\ strategy = "promote" => (~bg \/ force)
          /\ pm' = [pm EXCEPT ![c] = [IdleMerger EXCEPT !.pc = IF strategy = "replay" THEN "reads" ELSE "pause",
                                                        !.fork = f, !.force = force, !.reason = "process_merge"]]
    /\ history' = [history EXCEPT !.calls = @ + 1]
    /\ UNCHANGED <<session, reads, frozen, rows, marked, gone, writes, carried, bg>>

\* Replay: serve the fork's recorded reads, gate its writes; a window that
\* fails to arm is logged and the replay goes on without it.
ArmReads(c) == /\ pm[c].pc = "reads"
               /\ \/ reads' = c /\ pm' = [pm EXCEPT ![c].pc = "effects", ![c].armed = @ \cup {"reads"}]
                     /\ history' = [history EXCEPT !.contended = @ \/ Replaying # {}]
                  \/ Fault /\ history' = [Raised(history) EXCEPT !.contended = @ \/ Replaying # {}]
                     /\ PmGo(c, "effects") /\ UNCHANGED reads
               /\ UNCHANGED <<session, frozen, rows, marked, gone, writes, carried, bg>>

Arms(c) == c
ArmEffects(c) == /\ pm[c].pc = "effects"
                 /\ \/ session' = Arms(c) /\ UNCHANGED history
                       /\ pm' = [pm EXCEPT ![c].pc = "exec", ![c].armed = @ \cup {"effects"}]
                    \/ Fault /\ history' = [Raised(history) EXCEPT !.unarmed = TRUE] /\ PmGo(c, "exec")
                       /\ UNCHANGED session
                 /\ UNCHANGED <<reads, frozen, rows, marked, gone, writes, carried, bg>>

\* replay_fork_execs: the next record runs on the source; it may deviate and
\* stop the replay, or raise.
ReplayExec(c) == /\ pm[c].pc = "exec"
                 /\ \/ /\ history' = [history EXCEPT !.refired = @ \/ (pm[c].i + 1 = Records /\ session = "none")]
                       /\ \/ pm' = [pm EXCEPT ![c].i = @ + 1, ![c].pc = IF pm[c].i + 1 = Records THEN "end" ELSE "exec"]
                          \/ pm' = [pm EXCEPT ![c].i = @ + 1, ![c].pc = "end"]
                    \/ Fault /\ history' = Raised(history) /\ PmGo(c, "end")
                 /\ UNCHANGED <<session, reads, frozen, rows, marked, gone, writes, carried, bg>>

\* The finally of the replay: what was armed is ended, whoever owns it now.
Ends(c) == pm[c].armed
EndReplay(c) == /\ pm[c].pc = "end" /\ pm' = [pm EXCEPT ![c] = IdleMerger]
                /\ reads' = IF "reads" \in Ends(c) THEN "none" ELSE reads
                /\ session' = IF "effects" \in Ends(c) THEN "none" ELSE session
                /\ UNCHANGED <<frozen, rows, marked, gone, writes, carried, bg, history>>

-----------------------------------------------------------------------------
\* Promotion: both sides are paused if they run, the source's changes applied
\* to the fork (or refused by the policy), and both resumed.
PauseBoth(c) ==
    LET f == pm[c].fork
        running == {f, "source"} \ frozen
    IN /\ pm[c].pc = "pause"
       /\ \/ /\ frozen' = frozen \cup running /\ UNCHANGED history
             /\ pm' = [pm EXCEPT ![c].pc = "apply", ![c].paused = running]
          \/ /\ Fault /\ history' = Raised(history) /\ frozen' = frozen \cup ({f} \cap running)
             /\ pm' = [pm EXCEPT ![c].pc = "resume", ![c].paused = {f} \cap running, ![c].back = "idle"]
       /\ UNCHANGED <<session, reads, rows, marked, gone, writes, carried, bg>>

\* _apply_source_changes_to_fork; a conflict or a failure (rolled back) ends it.
ApplyChanges(c) == /\ pm[c].pc = "apply"
                   /\ \/ /\ carried' = [carried EXCEPT ![pm[c].fork] = writes] /\ UNCHANGED history
                         /\ pm' = [pm EXCEPT ![c].pc = "resume", ![c].back = "swap"]
                      \/ /\ Fault /\ history' = Raised(history) /\ UNCHANGED carried
                         /\ pm' = [pm EXCEPT ![c].pc = "resume", ![c].back = "idle"]
                   /\ UNCHANGED <<session, reads, frozen, rows, marked, gone, writes, bg>>

\* Every paused side is resumed; a resume that raises is logged.
ToResume(c) == pm[c].paused
ResumeBoth(c) == /\ pm[c].pc = "resume"
                 /\ \/ frozen' = frozen \ ToResume(c) /\ UNCHANGED history
                    \/ /\ Fault /\ \E x \in ToResume(c) : /\ frozen' = frozen \ (ToResume(c) \ {x})
                                                          /\ history' = [Raised(history) EXCEPT !.stuck = @ \cup {x}]
                 /\ pm' = [pm EXCEPT ![c].pc = pm[c].back, ![c].paused = {}]
                 /\ UNCHANGED <<session, reads, rows, marked, gone, writes, carried, bg>>

\* _promote_fork_onto_source: the fork's files and processes replace the
\* source's (its steps are those of a fork-backed commit); or it raises.
Swap(c) == LET f == pm[c].fork
           IN /\ pm[c].pc = "swap"
              /\ \/ /\ f \notin gone
                    /\ history' = [history EXCEPT !.lostwrites = @ \/ carried[f] < writes,
                                                  !.killed = @ \/ (bg /\ ~pm[c].force)]
                    /\ frozen' = frozen \ {"source"} /\ bg' = FALSE /\ writes' = 0 /\ carried' = [g \in ForkSet |-> 0]
                    /\ pm' = [pm EXCEPT ![c].pc = "adopt", ![c].i = 0] /\ UNCHANGED gone
                 \/ /\ f \in gone \/ Fault
                    /\ history' = IF f \in gone THEN history ELSE Raised(history)
                    /\ pm' = [pm EXCEPT ![c] = IdleMerger] /\ UNCHANGED <<frozen, bg, writes, carried, gone>>
              /\ UNCHANGED <<session, reads, rows, marked>>

-----------------------------------------------------------------------------
\* consolidate_observations, as a call of its own (manual) or of a merge.
Consolidate(c, f, reason) ==
    /\ pm[c].pc = "idle" /\ Called
    /\ reason = "merge" => \A d \in Mergers : pm[d].reason # "merge"
    /\ pm' = [pm EXCEPT ![c] = [IdleMerger EXCEPT !.pc = "adopt", !.fork = f, !.reason = reason]]
    /\ history' = [history EXCEPT !.calls = @ + 1]
    /\ UNCHANGED <<session, reads, frozen, rows, marked, gone, writes, carried, bg>>

\* Merge and commit look for the marker first; a manual call does not.
AlreadyConsolidated(c) == pm[c].reason # "manual" /\ pm[c].fork \in marked
Adopt(c) == /\ pm[c].pc = "adopt" /\ PmGo(c, IF AlreadyConsolidated(c) THEN "destroy" ELSE "rows")
            /\ history' = [history EXCEPT !.halfway = @ \/ \E d \in Mergers : pm[d].fork = pm[c].fork /\ pm[d].pc \in {"rows", "mark"}]
            /\ UNCHANGED <<session, reads, frozen, rows, marked, gone, writes, carried, bg>>

\* One row per qualifying record in the order of the fork's journal.  A row
\* that cannot be written, or the summarizer after them, raises.
RowsDone(c) == pm[c].i = Records
AdoptRow(c) == /\ pm[c].pc = "rows"
               /\ \/ /\ pm[c].i < Records /\ rows' = Append(rows, <<pm[c].fork, pm[c].i + 1, pm[c].reason>>)
                     /\ pm' = [pm EXCEPT ![c].i = @ + 1] /\ UNCHANGED history
                  \/ RowsDone(c) /\ PmGo(c, "mark") /\ UNCHANGED <<rows, history>>
                  \/ Fault /\ history' = [Raised(history) EXCEPT !.halfway = TRUE] /\ PmGo(c, "destroy") /\ UNCHANGED rows
               /\ UNCHANGED <<session, reads, frozen, marked, gone, writes, carried, bg>>

Mark(c) == /\ pm[c].pc = "mark" /\ PmGo(c, "destroy") /\ marked' = marked \cup {pm[c].fork}
           /\ UNCHANGED <<session, reads, frozen, rows, gone, writes, carried, bg, history>>

\* A promotion ends with the fork's destruction, whatever its adoption did.
DestroyPromoted(c) == /\ pm[c].pc = "destroy" /\ pm' = [pm EXCEPT ![c] = IdleMerger]
                      /\ gone' = IF pm[c].reason = "process_merge" THEN gone \cup {pm[c].fork} ELSE gone
                      /\ frozen' = IF pm[c].reason = "process_merge" THEN frozen \ {pm[c].fork} ELSE frozen
                      /\ UNCHANGED <<session, reads, rows, marked, writes, carried, bg, history>>

PmStep(c) == \/ ArmReads(c) \/ ArmEffects(c) \/ ReplayExec(c) \/ EndReplay(c) \/ PauseBoth(c) \/ ApplyChanges(c)
             \/ ResumeBoth(c) \/ Swap(c) \/ Adopt(c) \/ AdoptRow(c) \/ Mark(c) \/ DestroyPromoted(c)
PmNext == \/ SourceWorks \/ SourceSpawns
          \/ \E c \in Mergers : \/ PmStep(c)
                                \/ \E f \in ForkSet, b \in BOOLEAN : MergeProcesses(c, f, b)
                                \/ \E f \in ForkSet, r \in {"merge", "manual"} : Consolidate(c, f, r)
PmSpec == PmInit /\ [][PmNext]_pmvars
-----------------------------------------------------------------------------
AllIdle == \A c \in Mergers : pm[c].pc = "idle"
Copies(f, i, reasons) == Cardinality({k \in DOMAIN rows : rows[k] \in {<<f, i, r>> : r \in reasons}})
Automatic == {"merge", "process_merge"}

\* Replayed commands do not fire the fork's writes a second time, unless the
\* gate could not be armed or two replays on one source overlapped.
ReplayIsGated == history.refired => history.unarmed \/ history.contended

\* No replay leaves its egress window or its effect session on the source,
\* however it ended.
ReplayDisarms == AllIdle => session = "none" /\ reads = "none"

\* When every call has returned, no side is left paused, except one whose
\* resume failed.
NoneLeftPaused == AllIdle => frozen \subseteq history.stuck

\* The marker tells the truth: the source has every record of a marked fork.
MarkedIsComplete == \A f \in marked, i \in 1..Records : Copies(f, i, Automatic \cup {"manual"}) > 0

\* Merges and promotions adopt a record once, unless an adoption raised after
\* some rows or two of one fork overlapped.
AdoptedOnce == \A f \in ForkSet, i \in 1..Records : Copies(f, i, Automatic) > 1 => history.halfway

\* Not so: replayed commands never re-fire (two replays share one session).
NeverRefires == history.refired => history.unarmed

\* Not so: nothing of the source's work is lost when the fork takes over.
\* Both sides are resumed before the swap.
NothingIsLost == ~history.lostwrites

\* Not so: without force no background process is killed.  The census is old
\* when the source is stopped.
NoProcessKilled == ~history.killed

\* Not so: adoption by merges is idempotent per source and fork.  One that
\* raised after some rows left no marker, and the next copies them again.
AdoptionIsIdempotent == \A f \in ForkSet, i \in 1..Records : Copies(f, i, Automatic) <= 1

\* A merge of processes accounts for what it does: a marked fork's records are
\* all on the source and each once, replays are gated and give their windows
\* back, and nobody is left paused.
ProcessMergesAreSound == /\ MarkedIsComplete /\ AdoptedOnce /\ ReplayIsGated /\ ReplayDisarms
                         /\ NoneLeftPaused

\* A merge brings a fork's files, texts and processes over exactly once, or
\* takes nothing away.
MergesAreSound == MergeIsSound /\ ProcessMergesAreSound
=============================================================================
