---------------------------- MODULE ResponseGate ----------------------------
(***************************************************************************)
(* The response gate of one sandbox: the state SandboxResponseGateRegistry *)
(* (crab/interceptor.py) keeps for it, and one action per method.  Every   *)
(* method runs its state change under the registry's lock, so each is one  *)
(* step here.  A handler sleeps on a condition variable that every release *)
(* notifies and re-tests its predicate, so it is taken to wait for the     *)
(* predicate itself.  Sandboxes share nothing but the flag "enabled".      *)
(*                                                                         *)
(* The actions constrain only the gate's own variables: modules that       *)
(* EXTEND this one conjoin them with the steps of their callers.           *)
(***************************************************************************)
EXTENDS Integers, FiniteSets

CONSTANTS Requests,   \* the ids of the requests the sandbox sends
          Groups,     \* the (kind, id) keys of request groups
          NoGroup,    \* the key of a request that names no group
          GroupOf     \* the group each request names

ASSUME GroupAssumption == /\ NoGroup \notin Groups
                          /\ GroupOf \in [Requests -> Groups \cup {NoGroup}]

VARIABLES enabled,          \* _enabled
          generation,       \* the counter of armed generations
          pending,          \* the entries armed and not yet released
          pendingGroups,    \* group -> generation, None when absent
          satisfiedGroups,  \* groups that have been released once
          staging,          \* observation staging is armed
          staged,           \* generations released while staging
          dropped           \* generations discarded since begin_staging

gateVars == <<enabled, generation, pending, pendingGroups, satisfiedGroups,
              staging, staged, dropped>>

\* The generation of a response that is not gated: Python's None.
None == 0

\* _PendingResponseEntry.  "ids" grows when members of the group join.
Entry == [gen : Nat, primary : Requests, ids : SUBSET Requests,
          group : Groups \cup {NoGroup}]

Gens(entries) == {e.gen : e \in entries}

\* get_oldest_pending and its kin all take their snapshot from an entry.
Oldest(e) == e \in pending /\ \A f \in pending : e.gen <= f.gen

GroupsOf(entries) == {e.group : e \in entries} \ {NoGroup}

GateEmpty == /\ generation = 0
             /\ pending = {}
             /\ pendingGroups = [k \in Groups |-> None]
             /\ satisfiedGroups = {}
             /\ staging = FALSE
             /\ staged = {}
             /\ dropped = {}

GateInit == enabled = FALSE /\ GateEmpty

-----------------------------------------------------------------------------
Enable == /\ enabled' = TRUE
          /\ UNCHANGED <<generation, pending, pendingGroups, satisfiedGroups,
                         staging, staged, dropped>>

\* Mutants: disable() forgets one of the two buffers.
DisableKeepsStaged == /\ enabled' = FALSE
                      /\ pending' = {}
                      /\ UNCHANGED <<generation, pendingGroups, satisfiedGroups,
                                     staging, staged, dropped>>

\* Clears what is held but leaves the group maps and drop markers behind.
Disable == /\ enabled' = FALSE
           /\ pending' = {}
           /\ staged' = {}
           /\ UNCHANGED <<generation, pendingGroups, satisfiedGroups, staging,
                          dropped>>

\* A member of a group whose generation is still pending shares its entry.
Joinable(r) == {e \in pending : /\ GroupOf[r] # NoGroup
                                /\ e.gen = pendingGroups[GroupOf[r]]}

ArmSkipped(r) == ~enabled \/ GroupOf[r] \in satisfiedGroups

ArmJoin(r, g) == \E e \in Joinable(r) :
                    /\ g = e.gen
                    /\ pending' = (pending \ {e})
                                    \cup {[e EXCEPT !.ids = @ \cup {r}]}
                    /\ UNCHANGED <<generation, pendingGroups>>

ArmNew(r, g) == /\ Joinable(r) = {}
                /\ g = generation + 1
                /\ generation' = g
                /\ pending' = pending \cup {[gen |-> g, primary |-> r,
                                             ids |-> {r}, group |-> GroupOf[r]]}
                /\ pendingGroups' = [k \in Groups |->
                                       IF k = GroupOf[r] THEN g
                                                         ELSE pendingGroups[k]]

\* arm(): g is the generation it returns.
Arm(r, g) == /\ \/ /\ ArmSkipped(r)
                   /\ g = None
                   /\ UNCHANGED <<generation, pending, pendingGroups>>
                \/ /\ ~ArmSkipped(r)
                   /\ ArmJoin(r, g) \/ ArmNew(r, g)
             /\ UNCHANGED <<enabled, satisfiedGroups, staging, staged, dropped>>

\* Mutant: a release does not look at the staging scope.
UnholdIgnoresStaging(E) == /\ pending' = pending \ E
                           /\ satisfiedGroups' = satisfiedGroups \cup GroupsOf(E)
                           /\ UNCHANGED <<enabled, generation, staging, staged, dropped>>

\* The entries E leave "pending"; while staging they park in "staged".
Unhold(E) == /\ pending' = pending \ E
             /\ staged' = IF staging THEN staged \cup Gens(E) ELSE staged
             /\ satisfiedGroups' = satisfiedGroups \cup GroupsOf(E)
             /\ UNCHANGED <<enabled, generation, staging, dropped>>

\* release_pending(request_id, generation): a stale snapshot releases nothing.
ReleasePending(r, g) ==
    LET E == {e \in pending : e.gen = g /\ r \in e.ids}
    IN  /\ Unhold(E)
        /\ pendingGroups' = [k \in Groups |-> IF k \in GroupsOf(E) THEN None
                                              ELSE pendingGroups[k]]

\* release() without a generation: everything pending at once.
ReleaseAll == /\ Unhold(pending)
              /\ pendingGroups' = [k \in Groups |-> None]

\* A fresh scope: previous drop markers are cleared, staged is not.
BeginStaging == /\ staging' = TRUE
                /\ dropped' = {}
                /\ UNCHANGED <<enabled, generation, pending, pendingGroups,
                               satisfiedGroups, staged>>

ReleaseStaged == /\ staged' = {}
                 /\ UNCHANGED <<enabled, generation, pending, pendingGroups,
                                satisfiedGroups, staging, dropped>>

DiscardStaged == /\ dropped' = dropped \cup staged
                 /\ staged' = {}
                 /\ UNCHANGED <<enabled, generation, pending, pendingGroups,
                                satisfiedGroups, staging>>

\* Fail-open: what is still staged is delivered.
EndStaging == /\ staging' = FALSE
              /\ staged' = {}
              /\ UNCHANGED <<enabled, generation, pending, pendingGroups,
                             satisfiedGroups, dropped>>

\* Mutant: a waiter waits for the end of the staging scope instead.
ReleasedOutsideStaging(g) == ~enabled \/ (g \notin Gens(pending) /\ ~staging)

\* The predicate wait_for_release waits for.
Released(g) == \/ ~enabled
               \/ g \notin Gens(pending) \cup staged

\* What wait_for_release answers once it has woken up.
Disposition(g) == IF g # None /\ g \in dropped THEN "drop" ELSE "deliver"

-----------------------------------------------------------------------------
(* What every caller may rely on. *)

\* The types of the registry's state for one sandbox.
GateTypeOK == /\ enabled \in BOOLEAN
              /\ generation \in Nat
              /\ pending \subseteq Entry
              /\ pendingGroups \in [Groups -> Nat]
              /\ satisfiedGroups \subseteq Groups
              /\ staging \in BOOLEAN
              /\ staged \subseteq Nat
              /\ dropped \subseteq Nat

\* One entry per generation, no generation beyond the counter, and a generation
\* is in at most one of pending, staged and dropped: whatever order the callers
\* of arm, release and the staging methods run in, a response is never held
\* twice, nor held after it was dropped.
GateConsistent ==
    /\ \A e, f \in pending : e.gen = f.gen => e = f
    /\ \A e \in pending : e.gen \in 1..generation /\ e.primary \in e.ids
    /\ staged \cup dropped \subseteq 1..generation
    /\ Gens(pending) \cap (staged \cup dropped) = {}
    /\ staged \cap dropped = {}
    /\ enabled \/ (pending = {} /\ staged = {})
=============================================================================
