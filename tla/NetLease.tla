------------------------------ MODULE NetLease ------------------------------
(***************************************************************************)
(* Network leases: BenchmarkNetworkManager of                              *)
(* integrations/sandboxes/runtime/network.py and the engine's calls to it  *)
(* (allocate, release and transfer_network_lease of engine.py).            *)
(*                                                                         *)
(* A lease gives a sandbox a network namespace and a guest address.  The   *)
(* manager's lock covers the tables; namespaces are destroyed outside it.  *)
(* Egress is attributed to a sandbox by the address it comes from.         *)
(***************************************************************************)
EXTENDS Naturals, FiniteSets

CONSTANTS
    Sandboxes,
    Namespaces,    \* names of network namespaces
    LastIndex,     \* the last guest index of the network; the first is 2
    None           \* no namespace, no sandbox

ASSUME LastIndexAssumption == LastIndex \in Nat
ASSUME NoneAssumption == None \notin Sandboxes /\ None \notin Namespaces

Index == 2..LastIndex

VARIABLES
    lease,      \* _leases: the namespace each sandbox holds
    addr,       \* the guest index a namespace was set up with
    nslive,     \* namespaces that exist on the host
    dying,      \* namespaces taken out of the table, not yet destroyed
    leaked,     \* namespaces whose creation failed and whose removal failed too
    freed,      \* _free_ip_indices
    ipcursor,     \* _ip_cursor
    attribution,\* _ip_to_sandbox
    unregistered, \* sandboxes with a lease whose address is not registered yet
    bridge,     \* the bridge exists
    closing     \* leases cleanup() has still to release; None when it does not run

nvars == <<lease, addr, nslive, dying, leaked, freed, ipcursor, attribution,
           unregistered, bridge, closing>>

NInit ==
    /\ lease = [s \in Sandboxes |-> None]
    /\ addr = [n \in Namespaces |-> 0]
    /\ nslive = {}
    /\ dying = {}
    /\ leaked = {}
    /\ freed = {}
    /\ ipcursor = 2
    /\ attribution = [i \in Index |-> None]
    /\ unregistered = {}
    /\ bridge = FALSE
    /\ closing = [on |-> FALSE, left |-> {}]

(* The smallest freed index, else the next one the ipcursor has not given out. *)
NextIndex(i) ==
    IF freed # {}
    THEN i \in freed /\ \A j \in freed : i <= j
    ELSE i = ipcursor

TakeIndexPeek(i) ==
    IF freed # {}
    THEN UNCHANGED <<freed, ipcursor>>
    ELSE ipcursor' = ipcursor + 1 /\ UNCHANGED freed

TakeIndex(i) ==
    IF freed # {}
    THEN freed' = freed \ {i} /\ UNCHANGED ipcursor
    ELSE ipcursor' = ipcursor + 1 /\ UNCHANGED freed

(* allocate_lease: every command succeeded and the lease is published; the *)
(* engine registers the address in a second call.  The id is fresh, or its *)
(* earlier lease has been released: what a second lease of a live id does  *)
(* belongs to the create transaction (module Launch, CreatedIsKept).       *)
AllocateLease(s) ==
    /\ lease[s] = None
    /\ \E i \in Index, n \in Namespaces \ (nslive \cup dying) :
          /\ NextIndex(i)
          /\ TakeIndex(i)
          /\ lease' = [lease EXCEPT ![s] = n]
          /\ addr' = [addr EXCEPT ![n] = i]
          /\ nslive' = nslive \cup {n}
    /\ unregistered' = unregistered \cup {s}
    /\ bridge' = TRUE
    /\ UNCHANGED <<dying, leaked, attribution, closing>>

(* A command failed: what this attempt created is torn down, which may fail *)
(* as well, and the index goes back to the pool either way.                 *)
AllocateFails(s) ==
    /\ lease[s] = None
    /\ \E i \in Index, n \in Namespaces \ (nslive \cup dying) :
          /\ NextIndex(i)
          /\ IF freed # {}
             THEN UNCHANGED <<freed, ipcursor>>
             ELSE freed' = freed \cup {i} /\ ipcursor' = ipcursor + 1
          /\ \/ UNCHANGED <<addr, nslive, leaked>>
             \/ /\ addr' = [addr EXCEPT ![n] = i]
                /\ nslive' = nslive \cup {n}
                /\ leaked' = leaked \cup {n}
    /\ bridge' = TRUE
    /\ UNCHANGED <<lease, dying, attribution, unregistered, closing>>

RegisterGuestIp(s) ==
    /\ s \in unregistered
    /\ attribution' = [attribution EXCEPT ![addr[lease[s]]] = s]
    /\ unregistered' = unregistered \ {s}
    /\ UNCHANGED <<lease, addr, nslive, dying, leaked, freed, ipcursor, bridge, closing>>

(* release_lease under the lock; create, kill and fork release only what   *)
(* they have registered.                                                   *)
ReleaseLease(s) ==
    /\ lease[s] # None
    /\ s \notin unregistered
    /\ lease' = [lease EXCEPT ![s] = None]
    /\ attribution' = [attribution EXCEPT ![addr[lease[s]]] = None]
    /\ freed' = freed \cup {addr[lease[s]]}
    /\ dying' = dying \cup {lease[s]}
    /\ closing' = [closing EXCEPT !.left = @ \ {s}]
    /\ UNCHANGED <<addr, nslive, leaked, ipcursor, unregistered, bridge>>

(* transfer_lease: the outgoing record leaves the table, its address is    *)
(* freed, and the incoming record takes its key; attribution follows the   *)
(* address.                                                                *)
TransferLease(f, t) ==
    LET n == lease[f]
        out == lease[t] IN
    /\ f # t
    /\ n # None
    /\ {f, t} \cap unregistered = {}
    /\ lease' = [lease EXCEPT ![f] = None, ![t] = n]
    /\ attribution' = [i \in Index |->
                          CASE i = addr[n] -> t
                            [] out # None /\ i = addr[out] /\ i # addr[n] -> None
                            [] OTHER -> attribution[i]]
    /\ IF out = None
       THEN UNCHANGED <<freed, dying>>
       ELSE freed' = freed \cup {addr[out]} /\ dying' = dying \cup {out}
    /\ UNCHANGED <<addr, nslive, leaked, ipcursor, unregistered, bridge, closing>>

(* _destroy_lease_plumbing, outside the lock. *)
DestroyPlumbing(n) ==
    /\ n \in dying
    /\ dying' = dying \ {n}
    /\ nslive' = nslive \ {n}
    /\ addr' = [addr EXCEPT ![n] = 0]
    /\ UNCHANGED <<lease, leaked, freed, ipcursor, attribution, unregistered, bridge,
                   closing>>

(* cleanup: the leases listed at its start are released one by one, then   *)
(* the bridge goes.                                                        *)
CleanupStart ==
    /\ ~closing.on
    /\ bridge
    /\ closing' = [on |-> TRUE, left |-> {s \in Sandboxes : lease[s] # None}]
    /\ UNCHANGED <<lease, addr, nslive, dying, leaked, freed, ipcursor, attribution,
                   unregistered, bridge>>

CleanupBridge ==
    /\ closing.on
    /\ \A s \in closing.left : lease[s] = None
    /\ closing' = [on |-> FALSE, left |-> {}]
    /\ bridge' = FALSE
    /\ UNCHANGED <<lease, addr, nslive, dying, leaked, freed, ipcursor, attribution,
                   unregistered>>

NNext ==
    \/ \E s \in Sandboxes : \/ AllocateLease(s) \/ AllocateFails(s)
                            \/ RegisterGuestIp(s) \/ ReleaseLease(s)
    \/ \E f, t \in Sandboxes : TransferLease(f, t)
    \/ \E n \in Namespaces : DestroyPlumbing(n)
    \/ CleanupStart
    \/ CleanupBridge

NSpec == NInit /\ [][NNext]_nvars

-----------------------------------------------------------------------------
(* The manager's tables have their types. *)
NTypeOK ==
    /\ lease \in [Sandboxes -> Namespaces \cup {None}]
    /\ addr \in [Namespaces -> {0} \cup Index]
    /\ nslive \subseteq Namespaces
    /\ dying \subseteq Namespaces
    /\ leaked \subseteq Namespaces
    /\ freed \subseteq Index
    /\ ipcursor \in Nat
    /\ attribution \in [Index -> Sandboxes \cup {None}]
    /\ unregistered \subseteq Sandboxes
    /\ bridge \in BOOLEAN
    /\ closing \in [on : BOOLEAN, left : SUBSET Sandboxes]

(* The namespace a lease names exists and nobody is about to destroy it:   *)
(* "Re-keying first and releasing afterwards would destroy the netns just  *)
(* transferred in" (network.py, transfer_lease).                           *)
LeaseIsLive ==
    \A s \in Sandboxes : lease[s] # None => lease[s] \in nslive \ (dying \cup leaked)

(* No two sandboxes hold the same namespace or the same address, and an    *)
(* address in use is not in the free pool.                                 *)
AddressOwned ==
    /\ \A s, t \in Sandboxes :
          /\ s # t
          /\ lease[s] # None
          /\ lease[t] # None
          => lease[s] # lease[t] /\ addr[lease[s]] # addr[lease[t]]
    /\ \A s \in Sandboxes : lease[s] # None => addr[lease[s]] \in Index \ freed

(* Egress is attributed to the sandbox that holds the address: an address  *)
(* that resolves to a sandbox is the one of its lease, through kills, and  *)
(* through promotions that move a fork's lease onto its source.            *)
AttributionIsHolder ==
    \A i \in Index :
        attribution[i] # None =>
            /\ lease[attribution[i]] # None
            /\ addr[lease[attribution[i]]] = i

(* An address belongs to one namespace on the bridge.  release_lease and   *)
(* transfer_lease give the address back before the namespace is gone, so   *)
(* the next sandbox may answer for an address another namespace still has. *)
AddressUnique ==
    \A m, n \in nslive : m # n => addr[m] # addr[n]

(* A lease is plugged into a bridge; cleanup deletes the bridge under a    *)
(* lease allocated after it listed the ones to release.                    *)
LeaseHasBridge == (\E s \in Sandboxes : lease[s] # None) => bridge

(* A lease is live, its address is its holder's alone, and what comes from *)
(* the address is attributed to the holder.                                *)
LeasesAreSound == NTypeOK /\ LeaseIsLive /\ AddressOwned /\ AttributionIsHolder
=============================================================================
