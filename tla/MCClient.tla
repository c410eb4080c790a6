------------------------------ MODULE MCClient ------------------------------
(***************************************************************************)
(* What runs above the engine, ten instances one of which (part) a        *)
(* behaviour is about: the gateway's sandbox rows and its forwarded ports, *)
(* the speculative turns of the two agents and the replay they speculate   *)
(* on, an agent's replay after a restore, the host thread of a CLI agent's *)
(* task, the benchmark pipeline, and the rows it runs.                     *)
(***************************************************************************)
EXTENDS SpecTurn, RestoreReplay, Scenario, Gateway, SpecReplay, TaskAgent, TLC

CONSTANTS c0, c1, c2, f1, h1, h2, h3, g1, g2, e1, e2, l1, l2

\* The two creations that are not yet served are alike.
Sym == Permutations({c1, c2})

VARIABLE part
spvars == <<specvars, eager>>
benchvars == <<plvars, scvars, tsvars>>
gatevars == <<gvars, pvars>>
soloVars == <<srvars, tavars>>
clientvars == <<part, spvars, rrvars, benchvars, gatevars, soloVars>>

\* An instance the behaviour is not about stays in one initial state.
ClientInit ==
    /\ part \in {"terminus", "mini", "replay", "pipeline", "scenario", "tree", "rows", "ports", "spec", "task"}
    /\ part \notin {"terminus", "mini"} => reuse = FALSE /\ preforking = FALSE
    /\ part # "mini" => eager = FALSE
    /\ MiniInit
    /\ part # "replay" => agent = "mini"
    /\ RRInit
    /\ part # "pipeline" => pool = "map"
    /\ PlInit
    /\ part # "scenario" => scen = "fault" /\ mode = "auto" /\ forced = 0
                            /\ verify = FALSE /\ merge = FALSE /\ lenient = FALSE
    /\ ScInit
    /\ part # "tree" => auto = FALSE /\ sparse = FALSE /\ conc = FALSE /\ traced = FALSE /\ relaunch = FALSE
    /\ TSInit
    /\ GInit /\ PInit
    /\ SRInit
    /\ IF part = "spec" THEN \A i \in Index : recorded[i] = "cat" => \E j \in 0..(i - 1) : recorded[j] = "ls"
                        ELSE recorded = [i \in Index |-> "pwd"] /\ right = [i \in Index |-> TRUE]
    /\ part # "task" => compose = TRUE
    /\ TAInit

ClientNext ==
    /\ UNCHANGED part
    /\ \/ part = "terminus" /\ TermNext /\ UNCHANGED <<eager, rrvars, benchvars, gatevars, soloVars>>
       \/ part = "mini" /\ MiniNext /\ UNCHANGED <<rrvars, benchvars, gatevars, soloVars>>
       \/ part = "replay" /\ RRNext /\ UNCHANGED <<spvars, benchvars, gatevars, soloVars>>
       \/ part = "pipeline" /\ PlNext /\ UNCHANGED <<spvars, rrvars, scvars, tsvars, gatevars, soloVars>>
       \/ part = "scenario" /\ ScNext /\ UNCHANGED <<spvars, rrvars, plvars, tsvars, gatevars, soloVars>>
       \/ part = "tree" /\ TSNext /\ UNCHANGED <<spvars, rrvars, plvars, scvars, gatevars, soloVars>>
       \/ part = "rows" /\ GNext /\ UNCHANGED <<spvars, rrvars, benchvars, pvars, soloVars>>
       \/ part = "ports" /\ PNext /\ UNCHANGED <<spvars, rrvars, benchvars, gvars, soloVars>>
       \/ part = "spec" /\ SRNext /\ UNCHANGED <<spvars, rrvars, benchvars, gatevars, tavars>>
       \/ part = "task" /\ TANext /\ UNCHANGED <<spvars, rrvars, benchvars, gatevars, srvars>>

ClientSpec == ClientInit /\ [][ClientNext]_clientvars

-----------------------------------------------------------------------------
(* A speculative turn is transparent: it leaves the sandbox, what the      *)
(* agent was told and what is kept as a turn without speculation would.    *)
(* mini_swe finalizes its forks inside the turn, so what it keeps equals   *)
(* the active sandbox at its end; terminus misses no turn in its history.  *)
(* Neither loses the sandbox it works in, nor a command in its pane.       *)
TurnsAreTransparent ==
    /\ ControlTypeOK /\ Transparent /\ ActiveIsLive /\ NoCommandKilled /\ UsedIsLive
    /\ part = "mini" => MiniTransparent /\ KeptIsEqual
    /\ part = "terminus" => HistoryComplete

(* What is torn down or measured is at rest: the pipeline hands back       *)
(* control with nothing at work, the tests of a row run on a sandbox that  *)
(* nothing else touches, a tree's forks are cleaned up after the pool that *)
(* restores and runs them was joined, and one replay leaves none behind.   *)
(* Phases end as often as they begin, and a fork starts where it should.   *)
RestBeforeEnd == /\ ScTypeOK /\ TSTypeOK /\ QuietAfter /\ PhasesBalanced /\ VerifyIsQuiet
                 /\ AutoForkIsExact /\ CleanupIsQuiet /\ SequentialLeavesNone
=============================================================================
