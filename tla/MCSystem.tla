------------------------------ MODULE MCSystem ------------------------------
(***************************************************************************)
(* What CrabSystem does and what a client holds of it, six instances one   *)
(* of which (part) a behaviour is about: the checkpoints of a sandbox,     *)
(* recovery with its pins, a fork-backed transaction, a fleet of forks,    *)
(* and the SDK's handles of actions and of transactions.                   *)
(***************************************************************************)
EXTENDS Checkpoints, Recovery, ForkTxn, Sdk, TLC

CONSTANTS a, b, e1, e2
Two == {a, b}
Sym == Permutations(Two)

\* One client checkpoints in every way there is while another one's action
\* is going on.
Call(kind, ck, cs) == [call |-> kind, ck |-> ck, cs |-> cs]
RequestsOf == (e1 :> {Call("batch", TRUE, TRUE), Call("batch", FALSE, TRUE),
                      Call("stream", TRUE, TRUE), Call("run", TRUE, TRUE)})
              @@ (e2 :> {Call("exec", FALSE, FALSE)})
QuotaOf == (e1 :> 2) @@ (e2 :> 1)

VARIABLE part
handlevars == <<sdkvars, tvars>>
sysvars == <<part, cvars, rvars, ftxvars, fleetvars, handlevars>>

\* An instance the behaviour is not about stays in one initial state.
SystemInit ==
    /\ part \in {"checkpoints", "recovery", "forktxn", "fleet", "actions", "handles"}
    /\ part # "checkpoints" => retention = "keep_all"
    /\ part # "recovery" => relaunch = FALSE
    /\ part # "forktxn" => netted = FALSE
    /\ part # "fleet" => nets = FALSE
    /\ part # "actions" => engine = "local"
    /\ CInit /\ RInit /\ FtxInit /\ FleetInit /\ SdkInit /\ TInit

SystemNext ==
    /\ UNCHANGED part
    /\ \/ part = "checkpoints" /\ CNext /\ UNCHANGED <<rvars, ftxvars, fleetvars, handlevars>>
       \/ part = "recovery" /\ RNext /\ UNCHANGED <<cvars, ftxvars, fleetvars, handlevars>>
       \/ part = "forktxn" /\ FtxNext /\ UNCHANGED <<cvars, rvars, fleetvars, handlevars>>
       \/ part = "fleet" /\ FleetNext /\ UNCHANGED <<cvars, rvars, ftxvars, handlevars>>
       \/ part = "actions" /\ SdkNext /\ UNCHANGED <<cvars, rvars, ftxvars, fleetvars, tvars>>
       \/ part = "handles" /\ TNext /\ UNCHANGED <<cvars, rvars, ftxvars, fleetvars, sdkvars>>

SystemSpec == SystemInit /\ [][SystemNext]_sysvars
=============================================================================
