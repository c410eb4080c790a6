-------------------------- MODULE InterceptorProofs -------------------------
(***************************************************************************)
(* What the response gate guarantees its handlers, for any set of          *)
(* requests, any grouping of them, and the most general client: whatever   *)
(* order arm, release, the staging methods, enable and disable run in.     *)
(*                                                                         *)
(* GateInv is inductive over the gate's own actions, so the modules that   *)
(* replace the general client by real callers inherit it.                  *)
(***************************************************************************)
EXTENDS Interceptor, TLAPS

\* The map from groups to generations is exact for every pending entry,
\* although disable() leaves old pairs behind.
GroupsTracked == \A e \in pending : e.group # NoGroup => pendingGroups[e.group] = e.gen

GateInv == GateTypeOK /\ GateConsistent /\ OneGatePerGroup /\ GroupsTracked

\* The generations a handler would have to wait for.
Held == Gens(pending) \cup staged

\* Handlers only know generations that were armed.
KnownGens == \A r \in Requests : gen[r] <= generation

IInv == GateInv /\ HandlerTypeOK /\ KnownGens /\ PassedStaysReleased /\ MembersAreListed

-----------------------------------------------------------------------------
(* The gate. *)

\* An empty gate satisfies the invariant, enabled or not.
LEMMA EmptyGate == GateEmpty /\ enabled \in BOOLEAN => GateInv
<1> SUFFICES ASSUME GateEmpty, enabled \in BOOLEAN PROVE GateInv
  OBVIOUS
<1>1. GateTypeOK
  BY DEF GateEmpty, GateTypeOK, None
<1>2. Gens(pending) = {}
  BY DEF GateEmpty, Gens
<1>3. GateConsistent
  BY <1>2 DEF GateEmpty, GateConsistent
<1> QED BY <1>1, <1>3 DEF GateEmpty, GateInv, OneGatePerGroup, GroupsTracked

\* Releasing, however it is asked for, is Unhold of some of the entries and
\* forgetting their groups.
ReleaseOf(E) == /\ E \subseteq pending
                /\ Unhold(E)
                /\ pendingGroups' \in [Groups -> Nat]
                /\ \A k \in Groups \ GroupsOf(E) :
                      pendingGroups'[k] \in {pendingGroups[k], None}
                /\ \A e \in pending \ E : e.group # NoGroup =>
                      pendingGroups'[e.group] = pendingGroups[e.group]

\* Releasing any of the pending entries keeps the gate's invariant.
LEMMA ReleaseSome ==
  ASSUME GateInv, NEW E, ReleaseOf(E)
  PROVE  GateInv'
<1> USE DEF GateInv, ReleaseOf, Unhold
<1>1. GateTypeOK'
  BY DEF GateTypeOK, Gens, GroupsOf, Entry
<1>2. GateConsistent'
  <2>1. Gens(pending') \subseteq Gens(pending) /\ Gens(E) \subseteq Gens(pending)
    BY DEF Gens
  <2>2. Gens(E) \cap Gens(pending') = {}
    BY DEF Gens, GateConsistent
  <2>3. Gens(pending) \subseteq 1..generation
    BY DEF Gens, GateConsistent
  <2>4. ~enabled => Gens(E) = {}
    BY DEF Gens, GateConsistent
  <2> QED BY <2>1, <2>2, <2>3, <2>4 DEF GateConsistent
<1>3. OneGatePerGroup'
  BY DEF GateTypeOK, OneGatePerGroup, GroupsOf, Entry
<1>4. GroupsTracked'
  BY DEF GroupsTracked
<1> QED BY <1>1, <1>2, <1>3, <1>4

\* release_pending keeps it, stale snapshots included.
LEMMA ReleasePendingInv ==
  ASSUME GateInv, NEW r, NEW g, ReleasePending(r, g)
  PROVE  GateInv'
<1> DEFINE E == {e \in pending : e.gen = g /\ r \in e.ids}
<1>1. ReleaseOf(E)
  BY GroupAssumption DEF GateInv, GateTypeOK, ReleasePending, ReleaseOf, GroupsOf,
     OneGatePerGroup, Entry, None
<1> QED BY <1>1, ReleaseSome

\* release() keeps it.
LEMMA ReleaseAllInv ==
  ASSUME GateInv, ReleaseAll
  PROVE  GateInv'
<1>1. ReleaseOf(pending)
  BY GroupAssumption DEF GateInv, GateTypeOK, ReleaseAll, ReleaseOf, None
<1> QED BY <1>1, ReleaseSome

\* arm() keeps it, returns a generation that is known, names the request in the
\* entry of that generation, and holds nothing else that was not held.
LEMMA ArmInv ==
  ASSUME GateInv, NEW r \in Requests, NEW g, Arm(r, g)
  PROVE  /\ GateInv'
         /\ g \in Nat /\ g <= generation' /\ generation <= generation'
         /\ Held' \subseteq Held \cup {generation + 1}
         /\ \A e \in pending' : e.gen = g => r \in e.ids
         /\ \A e \in pending' : \/ \E f \in pending : f.gen = e.gen /\ f.ids \subseteq e.ids
                                \/ e.gen = generation + 1
<1> USE GroupAssumption DEF GateInv
<1>0. GroupOf[r] \in Groups \cup {NoGroup}
  OBVIOUS
<1>1. CASE ArmSkipped(r) /\ g = None /\ UNCHANGED <<generation, pending, pendingGroups>>
  BY <1>1 DEF Arm, GateTypeOK, GateConsistent, OneGatePerGroup, GroupsTracked, Gens,
     Held, None, Entry
<1>2. CASE ~ArmSkipped(r) /\ ArmJoin(r, g)
  <2>1. PICK e \in Joinable(r) :
           /\ g = e.gen
           /\ pending' = (pending \ {e}) \cup {[e EXCEPT !.ids = @ \cup {r}]}
           /\ UNCHANGED <<generation, pendingGroups>>
    BY <1>2 DEF ArmJoin
  <2> DEFINE n == [e EXCEPT !.ids = @ \cup {r}]
  <2>2. e \in pending /\ e \in Entry
    BY DEF Joinable, GateTypeOK
  <2>3. n \in Entry /\ n.gen = e.gen /\ n.primary = e.primary /\ n.group = e.group
        /\ n.ids = e.ids \cup {r}
    BY <2>2 DEF Entry
  <2> HIDE DEF n
  <2>4. pending' = (pending \ {e}) \cup {n} /\ UNCHANGED <<generation, pendingGroups>>
    BY <2>1 DEF n
  <2>5. UNCHANGED <<enabled, satisfiedGroups, staging, staged, dropped>>
    BY DEF Arm
  <2>6. Gens(pending') = Gens(pending)
    BY <2>2, <2>3, <2>4 DEF Gens
  <2>7. GateTypeOK'
    BY <2>3, <2>4, <2>5 DEF GateTypeOK
  <2>8. GateConsistent'
    BY <2>2, <2>3, <2>4, <2>5, <2>6 DEF GateConsistent
  <2>9. OneGatePerGroup' /\ GroupsTracked'
    BY <2>2, <2>3, <2>4, <2>5 DEF OneGatePerGroup, GroupsTracked
  <2>10. g \in Nat /\ g <= generation
    BY <2>1, <2>2 DEF GateConsistent, GateTypeOK
  <2>11. \A f \in pending' : f.gen = g => r \in f.ids
    BY <2>1, <2>2, <2>3, <2>4 DEF GateConsistent
  <2>12. \A f \in pending' : \E h \in pending : h.gen = f.gen /\ h.ids \subseteq f.ids
    BY <2>2, <2>3, <2>4
  <2> QED BY <2>4, <2>5, <2>6, <2>7, <2>8, <2>9, <2>10, <2>11, <2>12
      DEF Held, GateTypeOK
<1>3. CASE ~ArmSkipped(r) /\ ArmNew(r, g)
  <2> DEFINE n == [gen |-> g, primary |-> r, ids |-> {r}, group |-> GroupOf[r]]
  <2>1. g = generation + 1 /\ generation' = g /\ g \in Nat
    BY <1>3 DEF ArmNew, GateTypeOK
  <2>2. n \in Entry /\ n.gen = g /\ n.primary = r /\ n.group = GroupOf[r] /\ n.ids = {r}
    BY <1>0, <2>1 DEF Entry
  <2>3. pending' = pending \cup {n}
    BY <1>3 DEF ArmNew
  <2> HIDE DEF n
  <2>4. UNCHANGED <<enabled, satisfiedGroups, staging, staged, dropped>> /\ enabled
        /\ GroupOf[r] \notin satisfiedGroups
    BY <1>3 DEF Arm, ArmSkipped
  <2>5. /\ pendingGroups' \in [Groups -> Nat]
        /\ \A k \in Groups : pendingGroups'[k] = IF k = GroupOf[r] THEN g ELSE pendingGroups[k]
    BY <1>3, <2>1 DEF ArmNew, GateTypeOK
  <2>6. Gens(pending') = Gens(pending) \cup {g}
    BY <2>2, <2>3 DEF Gens
  <2>7. \A e \in pending : e.group # NoGroup => e.group # GroupOf[r]
    BY <1>3 DEF ArmNew, Joinable, GroupsTracked
  <2>8. GateTypeOK'
    BY <2>1, <2>2, <2>3, <2>4, <2>5 DEF GateTypeOK
  <2>9. GateConsistent'
    BY <2>1, <2>2, <2>3, <2>4, <2>6 DEF GateConsistent, GateTypeOK, Gens, Entry
  <2>10. OneGatePerGroup'
    BY <2>2, <2>3, <2>4, <2>7 DEF OneGatePerGroup
  <2>11. GroupsTracked'
    BY <2>2, <2>3, <2>5, <2>7, <1>0 DEF GroupsTracked, GateTypeOK, Entry
  <2>12. \A e \in pending' : e.gen = g => r \in e.ids
    BY <2>1, <2>2, <2>3 DEF GateConsistent, GateTypeOK, Entry
  <2>13. Held' \subseteq Held \cup {generation + 1}
    BY <2>1, <2>4, <2>6 DEF Held
  <2>14. \A e \in pending' : \/ \E f \in pending : f.gen = e.gen /\ f.ids \subseteq e.ids
                             \/ e.gen = generation + 1
    BY <2>1, <2>2, <2>3
  <2> QED BY <2>1, <2>8, <2>9, <2>10, <2>11, <2>12, <2>13, <2>14 DEF GateTypeOK
<1> QED BY <1>1, <1>2, <1>3 DEF Arm

\* The methods the gate's other callers use: they arm nothing and hold nothing
\* that was not held.
LEMMA GateCallInv ==
  ASSUME GateInv, GateCall
  PROVE  /\ GateInv'
         /\ generation' = generation
         /\ Held' \subseteq Held
         /\ pending' \subseteq pending
<1> USE DEF Held
<1>1. CASE Enable
  BY <1>1 DEF Enable, GateInv, GateTypeOK, GateConsistent, OneGatePerGroup,
     GroupsTracked, Gens
<1>2. CASE Disable
  <2>1. Gens(pending') = {}
    BY <1>2 DEF Disable, Gens
  <2> QED BY <1>2, <2>1 DEF Disable, GateInv, GateTypeOK, GateConsistent,
      OneGatePerGroup, GroupsTracked
<1>3. ASSUME NEW r \in Requests, NEW g \in 1..generation, ReleasePending(r, g)
      PROVE  GateInv' /\ generation' = generation /\ Held' \subseteq Held
             /\ pending' \subseteq pending
  <2>1. GateInv'
    BY <1>3, ReleasePendingInv
  <2> QED BY <1>3, <2>1 DEF ReleasePending, Unhold, Gens
<1>4. CASE ReleaseAll
  <2>1. GateInv'
    BY <1>4, ReleaseAllInv
  <2> QED BY <1>4, <2>1 DEF ReleaseAll, Unhold, Gens
<1>5. CASE BeginStaging
  BY <1>5 DEF BeginStaging, GateInv, GateTypeOK, GateConsistent, OneGatePerGroup,
     GroupsTracked, Gens
<1>6. CASE ReleaseStaged
  BY <1>6 DEF ReleaseStaged, GateInv, GateTypeOK, GateConsistent, OneGatePerGroup,
     GroupsTracked, Gens
<1>7. CASE DiscardStaged
  BY <1>7 DEF DiscardStaged, GateInv, GateTypeOK, GateConsistent, OneGatePerGroup,
     GroupsTracked, Gens
<1>8. CASE EndStaging
  BY <1>8 DEF EndStaging, GateInv, GateTypeOK, GateConsistent, OneGatePerGroup,
     GroupsTracked, Gens
<1> QED BY <1>1, <1>2, <1>3, <1>4, <1>5, <1>6, <1>7, <1>8 DEF GateCall

\* Under the invariant a generation is released exactly when it is not held: a
\* disabled gate holds nothing.
LEMMA ReleasedIsNotHeld == GateInv => \A g : Released(g) <=> g \notin Held
  BY DEF GateInv, GateConsistent, Released, Held, Gens

-----------------------------------------------------------------------------
(* The handlers. *)

\* A handler step other than arming: the generation it knows does not change,
\* and it passes the gate only when its generation is released.
QuietStep(r) == Receive(r) \/ NotifyArmed(r) \/ Upstream(r) \/ Wake(r) \/ Resolve(r)
                \/ NotifyEnding(r) \/ Finish(r)

\* Such a step keeps the invariant: only Wake passes the gate.
LEMMA QuietInv ==
  ASSUME IInv, NEW r \in Requests, QuietStep(r), UNCHANGED gateVars
  PROVE  IInv'
<1>1. GateInv' /\ KnownGens'
  BY DEF IInv, GateInv, GateTypeOK, GateConsistent, OneGatePerGroup, GroupsTracked,
     KnownGens, gateVars, Gens, QuietStep, Receive, NotifyArmed, Upstream, Wake,
     Resolve, NotifyEnding, Finish
<1>2. HandlerTypeOK'
  BY DEF IInv, HandlerTypeOK, HandlerPc, QuietStep, Receive, NotifyArmed, Upstream,
     Wake, Resolve, NotifyEnding, Finish, Goto, Disposition
<1>3. gen' = gen /\ UNCHANGED <<pending, staged>>
  BY DEF gateVars, QuietStep, Receive, NotifyArmed, Upstream, Wake, Resolve,
     NotifyEnding, Finish
<1>4. MembersAreListed'
  BY <1>3 DEF IInv, MembersAreListed
<1>5. PassedStaysReleased'
  <2>1. ASSUME NEW q \in Requests,
               pc'[q] \in {"awake", "resolved", "ending", "done"}, gen[q] # None
        PROVE  gen[q] \notin Held
    <3>1. CASE pc[q] \in {"awake", "resolved", "ending", "done"}
      BY <2>1, <3>1 DEF IInv, PassedStaysReleased, Held
    <3>2. CASE pc[q] \notin {"awake", "resolved", "ending", "done"}
      <4>1. q = r /\ Wake(r)
        BY <2>1, <3>2 DEF IInv, HandlerTypeOK, QuietStep, Receive, NotifyArmed,
           Upstream, Wake, Resolve, NotifyEnding, Finish, Goto
      <4> QED BY <2>1, <4>1, ReleasedIsNotHeld DEF IInv, Wake
    <3> QED BY <3>1, <3>2
  <2> QED BY <1>3, <2>1 DEF PassedStaysReleased, Held, Gens
<1> QED BY <1>1, <1>2, <1>4, <1>5 DEF IInv

\* Arming keeps the invariant and holds at most a generation that is new.
LEMMA ArmGateInv ==
  ASSUME IInv, NEW r \in Requests, ArmGate(r)
  PROVE  IInv' /\ Held' \subseteq Held \cup {generation + 1}
<1>1. CASE UNCHANGED <<gateVars, gen>>
  <2>1. UNCHANGED <<gateVars, gen, disposition>> /\ pc[r] = "started"
        /\ pc' = [pc EXCEPT ![r] = "armed"]
    BY <1>1 DEF ArmGate, Goto
  <2>2. GateInv' /\ KnownGens' /\ MembersAreListed' /\ Held' = Held
    BY <2>1 DEF IInv, GateInv, GateTypeOK, GateConsistent, OneGatePerGroup,
       GroupsTracked, KnownGens, MembersAreListed, gateVars, Gens, Held
  <2>3. HandlerTypeOK' /\ PassedStaysReleased'
    BY <2>1 DEF IInv, HandlerTypeOK, HandlerPc, PassedStaysReleased, gateVars, Gens
  <2> QED BY <2>2, <2>3 DEF IInv
<1>2. ASSUME NEW g \in 0..generation + 1, Arm(r, g), gen' = [gen EXCEPT ![r] = g]
      PROVE  IInv' /\ Held' \subseteq Held \cup {generation + 1}
  <2>1. /\ GateInv' /\ g \in Nat /\ g <= generation' /\ generation <= generation'
        /\ Held' \subseteq Held \cup {generation + 1}
        /\ \A e \in pending' : e.gen = g => r \in e.ids
        /\ \A e \in pending' :
              \/ \E f \in pending : f.gen = e.gen /\ f.ids \subseteq e.ids
              \/ e.gen = generation + 1
    BY <1>2, ArmInv DEF IInv
  <2>2. pc[r] = "started" /\ pc' = [pc EXCEPT ![r] = "armed"] /\ UNCHANGED disposition
    BY DEF ArmGate, Goto
  <2>3. HandlerTypeOK'
    BY <1>2, <2>1, <2>2 DEF IInv, HandlerTypeOK, HandlerPc
  <2>4. KnownGens'
    BY <1>2, <2>1 DEF IInv, KnownGens, HandlerTypeOK, GateInv, GateTypeOK
  <2>5. PassedStaysReleased'
    BY <1>2, <2>1, <2>2 DEF IInv, PassedStaysReleased, KnownGens, HandlerTypeOK, Held,
       GateInv, GateTypeOK
  <2>6. MembersAreListed'
    BY <1>2, <2>1 DEF IInv, MembersAreListed, KnownGens, HandlerTypeOK, GateInv,
       GateTypeOK, Entry
  <2> QED BY <2>1, <2>3, <2>4, <2>5, <2>6 DEF IInv
<1> QED BY <1>1, <1>2 DEF ArmGate

-----------------------------------------------------------------------------
\* A fresh registry and no handlers satisfy the invariant.
LEMMA InitInv == Init => IInv
<1> SUFFICES ASSUME Init PROVE IInv
  OBVIOUS
<1>1. GateInv
  BY EmptyGate DEF Init, GateInit
<1> QED BY <1>1 DEF Init, GateInit, GateEmpty, HandlerInit, IInv, HandlerTypeOK,
    HandlerPc, KnownGens, PassedStaysReleased, MembersAreListed, None

\* No call of the general client puts a handler behind the gate again.
LEMMA GateCallIInv ==
  ASSUME IInv, GateCall, UNCHANGED handlerVars
  PROVE  IInv' /\ Held' \subseteq Held
<1>1. GateInv' /\ generation' = generation /\ Held' \subseteq Held
      /\ pending' \subseteq pending
  BY GateCallInv DEF IInv
<1> QED BY <1>1 DEF IInv, handlerVars, HandlerTypeOK, KnownGens, PassedStaysReleased,
    MembersAreListed, Held

\* One step keeps the invariant, and holds no generation that was armed earlier
\* and released.
LEMMA NextInv ==
  ASSUME IInv, [Next]_vars
  PROVE  IInv' /\ Held' \subseteq Held \cup {generation + 1}
<1>1. ASSUME NEW r \in Requests, ArmGate(r)
      PROVE  IInv' /\ Held' \subseteq Held \cup {generation + 1}
  BY <1>1, ArmGateInv
<1>2. ASSUME NEW r \in Requests, QuietStep(r), UNCHANGED gateVars
      PROVE  IInv' /\ Held' \subseteq Held \cup {generation + 1}
  BY <1>2, QuietInv DEF gateVars, Held, Gens
<1>3. CASE GateCall /\ UNCHANGED handlerVars
  BY <1>3, GateCallIInv
<1>4. CASE UNCHANGED vars
  BY <1>4 DEF vars, gateVars, handlerVars, IInv, GateInv, GateTypeOK, GateConsistent,
     OneGatePerGroup, GroupsTracked, KnownGens, HandlerTypeOK, PassedStaysReleased,
     MembersAreListed, Gens, Held
<1> QED BY <1>1, <1>2, <1>3, <1>4 DEF Next, HandlerStep, QuietStep

\* The inductive invariant of the gate and its handlers: the four parts of the
\* gate's state agree, and handlers know only generations that were armed.
THEOREM Invariance == Spec => []IInv
<1>1. Init => IInv
  BY InitInv
<1>2. IInv /\ [Next]_vars => IInv'
  BY NextInv
<1> QED BY <1>1, <1>2, PTL DEF Spec

\* Type correctness of the gate and of its handlers.
THEOREM TypeCorrect == Spec => []TypeOK
<1>1. IInv => TypeOK
  BY DEF IInv, GateInv, TypeOK
<1> QED BY <1>1, Invariance, PTL

\* Whatever the order of the calls, no generation is held twice or held after it
\* was dropped, the members of a request group share one gate, a handler that
\* passed the gate is never behind it again, and the entry of a handler's
\* generation names the handler's request.
THEOREM GateStaysSound == Spec => []GateIsSound
<1>1. IInv => GateIsSound
  BY DEF IInv, GateInv, GateIsSound
<1> QED BY <1>1, Invariance, PTL

\* wait_for_release answers for good: no later call makes a released generation
\* wait again.
THEOREM ReleaseIsFinal == Spec => ReleasedForGood
<1>1. ASSUME IInv, [Next]_vars
      PROVE  [\A g \in 1..generation : Released(g) => Released(g)']_vars
  <2>1. GateInv /\ GateInv' /\ Held' \subseteq Held \cup {generation + 1}
    BY <1>1, NextInv DEF IInv
  <2> SUFFICES ASSUME NEW g \in 1..generation, Released(g)
               PROVE  Released(g)'
    OBVIOUS
  <2>2. g \notin Held /\ g # generation + 1
    BY <2>1, ReleasedIsNotHeld DEF GateInv, GateTypeOK
  <2>3. g \notin Held'
    BY <2>1, <2>2
  <2> QED BY <2>3 DEF Released, Held, Gens
<1> QED BY <1>1, Invariance, PTL DEF Spec, ReleasedForGood
=============================================================================
