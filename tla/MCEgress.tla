------------------------------ MODULE MCEgress ------------------------------
(***************************************************************************)
(* The egress side, four instances one of which (part) a behaviour is      *)
(* about: the effect gate with two plain writes w1 and w2 and an opaque    *)
(* flow o1, the gate with the two writes and crashes of the daemon, two    *)
(* connections of the proxy, and the ledger's journal.                     *)
(***************************************************************************)
EXTENDS Effects, EgressFlow, TLC

CONSTANTS w1, w2, o1, x1, x2

Sym == Permutations({w1, w2}) \cup Permutations(Conns)

VARIABLE part

EgressInit ==
    /\ part \in {"effects", "crashes", "flow", "journal"}
    /\ part # "flow" => rule = "" /\ intercepts = FALSE
    /\ EInit /\ FInit /\ JInit

EgressNext ==
    \/ part = "effects" /\ ENext /\ UNCHANGED <<part, crashes, fvars, jvars>>
    \/ part = "crashes" /\ ENext /\ xpc'[o1] = "new" /\ UNCHANGED <<part, fvars, jvars>>
    \/ part = "flow" /\ FNext /\ UNCHANGED <<part, evars, jvars>>
    \/ part = "journal" /\ JNext /\ UNCHANGED <<part, evars, fvars>>

EgressSpec == EgressInit /\ [][EgressNext]_<<part, evars, fvars, jvars>>
=============================================================================
