------------------------------ MODULE FsStore -------------------------------
(***************************************************************************)
(* What the filesystem provider of a sandbox promises (FilesystemProvider, *)
(* src/crab/runtime/fs_provider.py): every sandbox has a live tree and     *)
(* named read-only copies of it.  A copy never changes; the live tree      *)
(* changes by the sandbox's own writes, by becoming a copy (a restore, a   *)
(* fork) or by going.                                                      *)
(***************************************************************************)
CONSTANTS Trees, Marks, Values, Absent
VARIABLES tree, mark

StoreInit == /\ tree \in [Trees -> Values \cup {Absent}] /\ mark = [t \in Trees |-> [m \in Marks |-> Absent]]
\* The sandbox writes.
WriteTo(t) == tree[t] # Absent /\ \E x \in Values : tree' = [tree EXCEPT ![t] = x] /\ UNCHANGED mark
\* checkpoint_filesystem and the fork point of a clone.
MarkTree(t, m) == /\ tree[t] # Absent /\ mark[t][m] = Absent
                  /\ mark' = [mark EXCEPT ![t][m] = tree[t]] /\ UNCHANGED tree
\* The tree goes: destroyed, or to make room for the one restored.
TakeAway(t) == tree' = [tree EXCEPT ![t] = Absent] /\ UNCHANGED mark
\* restore_filesystem (u = t) and clone_filesystem_snapshot.
PutBack(t, u, m) == /\ tree[t] = Absent /\ mark[u][m] # Absent
                    /\ tree' = [tree EXCEPT ![t] = mark[u][m]] /\ UNCHANGED mark
\* Retention and discarded checkpoints.
Forgets(t, m) == mark' = [mark EXCEPT ![t][m] = Absent] /\ UNCHANGED tree

StoreNext == \E t \in Trees : \/ WriteTo(t) \/ TakeAway(t)
                              \/ \E m \in Marks : MarkTree(t, m) \/ Forgets(t, m) \/ \E u \in Trees : PutBack(t, u, m)
StoreSpec == StoreInit /\ [][StoreNext]_<<tree, mark>>
=============================================================================
