------------------------------- MODULE MCHost -------------------------------
(***************************************************************************)
(* The host side of one sandbox, six instances one of which (part) a       *)
(* behaviour is about: a runc exec with its timeout and cancellation, the  *)
(* process images of a chain and its forks, the image cache of concurrent  *)
(* creates, the network leases, the lifecycle routes and the create        *)
(* transaction.  The symmetric roles share their model values.             *)
(***************************************************************************)
EXTENDS RuncExec, ImageChain, NetLease, Lifecycle, TLC

CONSTANTS a, b, p1, p2, p3, x, y, n1, n2, n3

Two == {a, b}
Three == {a, b, p1}
Names == {x, y}
OneOfEach == {p1, p2, p3}
TimedExecs == {p1, p3}
StreamExec == {p1}
MCNamespaces == {n1, n2, n3}
BothRoutes == {"daemon", "local"}
Sym == Permutations(Two) \cup Permutations(Names)

VARIABLES part, who
hostvars == <<part, who, xvars, cvars, icvars, nvars, lvars, lavars>>

\* The instance a behaviour is not about stays in one initial state.
Init ==
    /\ XInit /\ CInit /\ ICInit /\ NInit /\ LInit /\ LaInit
    /\ part \in {"exec", "chain", "cache", "lease", "life", "launch"}
    /\ who \in IF part = "exec" THEN Execs ELSE {p1}
    /\ \A p \in Execs : p # who \/ part # "exec" => holds[p] = FALSE
    /\ part # "launch" => \A l \in Launchers : id[l] = x /\ route[l] = "daemon"

Next ==
    /\ UNCHANGED <<part, who>>
    /\ \/ part = "exec" /\ XNext /\ UNCHANGED <<cvars, icvars, nvars, lvars, lavars>>
          /\ \A p \in Execs \ {who} : todo'[p] = todo[p] /\ client'[p] = client[p]
       \/ part = "chain" /\ CNext /\ UNCHANGED <<xvars, icvars, nvars, lvars, lavars>>
       \/ part = "cache" /\ ICNext /\ UNCHANGED <<xvars, cvars, nvars, lvars, lavars>>
       \/ part = "lease" /\ NNext /\ UNCHANGED <<xvars, cvars, icvars, lvars, lavars>>
       \/ part = "life" /\ LNext /\ UNCHANGED <<xvars, cvars, icvars, nvars, lavars>>
       \/ part = "launch" /\ LaNext /\ UNCHANGED <<xvars, cvars, icvars, nvars, lvars>>

Spec == Init /\ [][Next]_hostvars
=============================================================================
