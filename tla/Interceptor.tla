---------------------------- MODULE Interceptor -----------------------------
(***************************************************************************)
(* The handler threads of CrabRequestInterceptor.intercept (one per LLM    *)
(* request of the sandbox) against the response gate.  A handler arms the  *)
(* gate before it forwards the request and waits at the gate after the     *)
(* upstream has answered, so a generation can be released, staged or       *)
(* discarded long before its handler looks at it.                          *)
(*                                                                         *)
(* Spec lets the methods of the gate be called by anyone in any order: the *)
(* most general client of the registry.  Coordination and Transactions     *)
(* EXTEND this module and replace that client by the real callers.         *)
(***************************************************************************)
EXTENDS ResponseGate

VARIABLES pc,           \* where the handler of each request is
          gen,          \* gate_generation
          disposition   \* what wait_for_release answered

handlerVars == <<pc, gen, disposition>>
vars == <<gateVars, handlerVars>>

HandlerPc == {"new", "started", "armed", "upstream", "waiting", "awake",
              "resolved", "ending", "done"}

HandlerInit == /\ pc = [r \in Requests |-> "new"]
               /\ gen = [r \in Requests |-> None]
               /\ disposition = [r \in Requests |-> "none"]

Goto(r, from, to) == /\ pc[r] = from
                     /\ pc' = [pc EXCEPT ![r] = to]

\* The request arrives; mark_request_start records it.
Receive(r) == /\ Goto(r, "new", "started")
              /\ UNCHANGED <<gen, disposition>>

\* Arm the gate, unless _claude_request_gate_policy lets the request pass: the
\* title and quota probes a client sends on the side.
ArmGate(r) == /\ Goto(r, "started", "armed")
              /\ \/ \E g \in 0..generation + 1 :
                       /\ Arm(r, g)
                       /\ gen' = [gen EXCEPT ![r] = g]
                 \/ UNCHANGED <<gateVars, gen>>
              /\ UNCHANGED disposition

\* _notify: tell the system that the gate's state changed.
NotifyArmed(r) == /\ Goto(r, "armed", "upstream")
                  /\ UNCHANGED <<gen, disposition>>

\* The upstream answers or raises; either way the handler goes to the gate, and
\* an exception takes the response's place in what the handler holds.
Upstream(r) == /\ Goto(r, "upstream", "waiting")
               /\ UNCHANGED <<gen, disposition>>

\* The wait ends when the generation is neither pending nor staged.
Wake(r) == /\ gen[r] # None => Released(gen[r])
           /\ Goto(r, "waiting", "awake")
           /\ UNCHANGED <<gen, disposition>>

\* The drop markers are read in a critical section of their own.
Resolve(r) == /\ Goto(r, "awake", "resolved")
              /\ disposition' = [disposition EXCEPT ![r] = Disposition(gen[r])]
              /\ UNCHANGED gen

NotifyEnding(r) == /\ Goto(r, "resolved", "ending")
                   /\ UNCHANGED <<gen, disposition>>

\* mark_request_end, then the response, the 409 or the exception goes out.
Finish(r) == /\ Goto(r, "ending", "done")
             /\ UNCHANGED <<gen, disposition>>

\* The sandbox's client has read what the upstream returned.
Delivered(r) == pc[r] = "done" /\ disposition[r] = "deliver"

HandlerStep(r) == \/ ArmGate(r)
                  \/ /\ \/ Receive(r) \/ NotifyArmed(r) \/ Upstream(r)
                        \/ Wake(r) \/ Resolve(r) \/ NotifyEnding(r) \/ Finish(r)
                     /\ UNCHANGED gateVars

-----------------------------------------------------------------------------
(* The gate under its most general client. *)

GateCall == \/ Enable
            \/ Disable
            \/ \E r \in Requests, g \in 1..generation : ReleasePending(r, g)
            \/ ReleaseAll
            \/ BeginStaging
            \/ ReleaseStaged
            \/ DiscardStaged
            \/ EndStaging

Init == GateInit /\ HandlerInit

Next == \/ \E r \in Requests : HandlerStep(r)
        \/ GateCall /\ UNCHANGED handlerVars

Spec == Init /\ [][Next]_vars

-----------------------------------------------------------------------------
HandlerTypeOK == /\ pc \in [Requests -> HandlerPc]
                 /\ gen \in [Requests -> Nat]
                 /\ disposition \in [Requests -> {"none", "deliver", "drop"}]

\* The types of the registry and of the threads in intercept.
TypeOK == GateTypeOK /\ HandlerTypeOK

\* The members of a request group (the requests of one speculative pair) are
\* held by one gate: never two entries for a group, and none for a group that
\* was already satisfied, although disable() leaves the group maps untouched.
OneGatePerGroup ==
    \A e \in pending : e.group # NoGroup =>
        /\ e.group \notin satisfiedGroups
        /\ \A f \in pending : f.group = e.group => f = e

\* A handler that has passed the gate never sees its generation held again: the
\* release a handler acted on is final, whatever is armed, staged, disabled or
\* re-enabled afterwards.
PassedStaysReleased ==
    \A r \in Requests :
        pc[r] \in {"awake", "resolved", "ending", "done"} /\ gen[r] # None
            => gen[r] \notin Gens(pending) \cup staged

\* A generation that wait_for_release lets through once is let through forever:
\* a waiter that is late or slow to wake is not caught by a later staging scope
\* or by the gate being disabled and enabled again.
ReleasedForGood ==
    [][\A g \in 1..generation : Released(g) => Released(g)']_vars

\* A handler's generation is one of its group's: the entry it armed or joined
\* names it, so releasing by any of the captured request ids finds the entry.
MembersAreListed ==
    \A r \in Requests, e \in pending : gen[r] = e.gen => r \in e.ids

\* What the registry's readers rely on, all at once: consistent books, one gate
\* per speculative pair, no handler held again, and every member listed.
GateIsSound == GateConsistent /\ OneGatePerGroup /\ PassedStaysReleased /\ MembersAreListed
=============================================================================
