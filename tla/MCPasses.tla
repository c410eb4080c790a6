------------------------------ MODULE MCPasses ------------------------------
(* Small instances of the engine's gate, coordination, transactions and      *)
(* checkpoint executor.  A behaviour is one of a single part, with the other *)
(* parts in their initial state.  r1 and r2 are a speculative pair and r3 is *)
(* a request of its own; j1 and j2 captured the same request, as a pass and  *)
(* a manual checkpoint of one turn do, and j3 captured another.              *)
EXTENDS Coordination, Transactions, Executor

CONSTANTS r1, r2, r3, g1, j1, j2, j3, k1, k2, Parts

VARIABLE part

MCGroupOf == [r \in Requests |-> IF r \in {r1, r2} THEN g1 ELSE NoGroup]
MCRequestOf == [j \in Jobs |-> IF j \in {j1, j2} THEN k1 ELSE k2]

\* The threads of the executor are alike, and so are the two jobs of a turn.
ThreadSymmetry == Permutations(Threads) \cup Permutations({j1, j2})

coordinationOnly == <<storeVars, systemVars, window, workerVars, monitorVars>>
transactionsOnly == <<callVars, txnVars, mergeVars, history>>
passesVars == <<part, cvars, transactionsOnly, xvars>>

\* Every part starts from what CrabSystem.start leaves: the gate enabled, empty.
PassesInit == part \in Parts /\ CInit /\ TInit /\ XInit

PassesNext ==
    \/ /\ part = "gate" /\ Next
       /\ UNCHANGED <<part, coordinationOnly, transactionsOnly, xvars>>
    \/ part = "coordination" /\ CNext /\ UNCHANGED <<part, transactionsOnly, xvars>>
    \/ part = "transactions" /\ TNext /\ UNCHANGED <<part, coordinationOnly, xvars>>
    \/ part = "executor" /\ XNext /\ UNCHANGED <<part, cvars, transactionsOnly>>

PassesSpec == PassesInit /\ [][PassesNext]_passesVars

\* The fairness of FairCSpec and of FairXSpec.
LiveCoordinationSpec == PassesSpec /\ Fairness
LiveExecutorSpec == /\ PassesSpec
                    /\ \A t \in Threads : WF_xvars(Thread(t))
                    /\ \A j \in Jobs : WF_xvars(Submit(j))
=============================================================================
