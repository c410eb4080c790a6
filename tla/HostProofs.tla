----------------------------- MODULE HostProofs -----------------------------
(***************************************************************************)
(* What holds of the host's shared resources for any number of sandboxes,  *)
(* namespaces and addresses, of the engine's start and stop for any number *)
(* of sandboxes and stopping threads, and of the filesystem provider on    *)
(* btrfs: its flows implement the store FsStore describes.                 *)
(***************************************************************************)
EXTENDS NetLease, EngineLife, BtrfsVolume, TLAPS

-----------------------------------------------------------------------------
(* Network leases.                                                         *)

\* The addresses the manager has given out lie below its cursor, so one it
\* takes from there is new; a sandbox still to be registered holds a lease.
CursorAhead ==
    /\ ipcursor >= 2
    /\ \A i \in freed : i < ipcursor
    /\ \A s \in Sandboxes : lease[s] # None => addr[lease[s]] < ipcursor
PublishedFirst == \A s \in unregistered : lease[s] # None

\* A namespace nobody could remove is not up for removal.
LeakedStay == leaked \subseteq nslive \ dying

NInv == /\ NTypeOK /\ LeaseIsLive /\ AddressOwned /\ AttributionIsHolder
        /\ CursorAhead /\ PublishedFirst /\ LeakedStay

\* The manager starts with empty tables.
LEMMA NInitInv == NInit => NInv
<1> SUFFICES ASSUME NInit PROVE NInv
  OBVIOUS
<1>1. NTypeOK
  BY DEF NInit, NTypeOK
<1>2. LeaseIsLive /\ AddressOwned /\ AttributionIsHolder
  BY DEF NInit, LeaseIsLive, AddressOwned, AttributionIsHolder
<1>3. CursorAhead /\ PublishedFirst /\ LeakedStay
  BY DEF NInit, CursorAhead, PublishedFirst, LeakedStay
<1> QED BY <1>1, <1>2, <1>3 DEF NInv

\* An index allocate_lease takes is of the network and nobody's.
LEMMA FreshIndex ==
  ASSUME NInv, NEW i \in Index, NextIndex(i)
  PROVE  \A s \in Sandboxes : lease[s] # None => addr[lease[s]] # i
<1> SUFFICES ASSUME NEW s \in Sandboxes, lease[s] # None PROVE addr[lease[s]] # i
  OBVIOUS
<1>1. CASE freed # {}
  BY <1>1 DEF NextIndex, NInv, AddressOwned
<1>2. CASE freed = {}
  BY <1>2 DEF NextIndex, NInv, CursorAhead, NTypeOK, Index
<1> QED BY <1>1, <1>2

\* A namespace allocate_lease makes is in no lease.
LEMMA FreshNamespace ==
  ASSUME NInv, NEW n \in Namespaces \ (nslive \cup dying)
  PROVE  \A s \in Sandboxes : lease[s] # n
  BY NoneAssumption DEF NInv, LeaseIsLive

\* allocate_lease when its commands succeed keeps the tables sound.
LEMMA AllocateLeaseInv ==
  ASSUME NInv, NEW s \in Sandboxes, AllocateLease(s)
  PROVE  NInv'
<1>1. PICK i \in Index, n \in Namespaces \ (nslive \cup dying) :
        /\ NextIndex(i) /\ TakeIndex(i)
        /\ lease' = [lease EXCEPT ![s] = n] /\ addr' = [addr EXCEPT ![n] = i]
        /\ nslive' = nslive \cup {n}
  BY DEF AllocateLease
<1>2. /\ lease[s] = None /\ unregistered' = unregistered \cup {s} /\ bridge' = TRUE
      /\ UNCHANGED <<dying, leaked, attribution, closing>>
  BY DEF AllocateLease
<1>3. \A t \in Sandboxes : lease[t] # n /\ (lease[t] # None => addr[lease[t]] # i)
  BY <1>1, FreshIndex, FreshNamespace
<1>4. n # None /\ i \in Nat /\ i >= 2 /\ ipcursor \in Nat
  BY <1>1, NoneAssumption, LastIndexAssumption DEF Index, NInv, NTypeOK
<1>5. /\ freed' \subseteq freed \ {i} /\ ipcursor' \in Nat /\ ipcursor' >= ipcursor /\ i < ipcursor'
      /\ \A j \in freed : j < ipcursor /\ j \in Nat
  BY <1>1, <1>4, LastIndexAssumption DEF TakeIndex, NextIndex, NInv, CursorAhead, NTypeOK, Index
<1>6. \A t \in Sandboxes : t # s => lease'[t] = lease[t] /\ (lease[t] # None => addr'[lease'[t]] = addr[lease[t]])
  BY <1>1, <1>3 DEF NInv, NTypeOK
<1>7. lease'[s] = n /\ addr'[n] = i
  BY <1>1 DEF NInv, NTypeOK
<1>8. NTypeOK'
  BY <1>1, <1>2, <1>5 DEF NInv, NTypeOK
<1>9. LeaseIsLive' /\ LeakedStay'
  BY <1>1, <1>2, <1>6, <1>7 DEF NInv, LeaseIsLive, LeakedStay
<1>10. AddressOwned'
  BY <1>3, <1>5, <1>6, <1>7 DEF NInv, AddressOwned
<1>11. AttributionIsHolder'
  BY <1>2, <1>6 DEF NInv, AttributionIsHolder, NTypeOK
<1>12. CursorAhead' /\ PublishedFirst'
  BY <1>2, <1>4, <1>5, <1>6, <1>7 DEF NInv, CursorAhead, PublishedFirst, NTypeOK, Index
<1> QED BY <1>8, <1>9, <1>10, <1>11, <1>12 DEF NInv

\* allocate_lease when a command fails: the index is in the pool, nobody holds
\* what may be left of the namespace.
LEMMA AllocateFailsInv ==
  ASSUME NInv, NEW s \in Sandboxes, AllocateFails(s)
  PROVE  NInv'
<1>1. PICK i \in Index, n \in Namespaces \ (nslive \cup dying) :
        /\ NextIndex(i)
        /\ IF freed # {}
           THEN UNCHANGED <<freed, ipcursor>>
           ELSE freed' = freed \cup {i} /\ ipcursor' = ipcursor + 1
        /\ \/ UNCHANGED <<addr, nslive, leaked>>
           \/ /\ addr' = [addr EXCEPT ![n] = i]
              /\ nslive' = nslive \cup {n}
              /\ leaked' = leaked \cup {n}
  BY DEF AllocateFails
<1>2. bridge' = TRUE /\ UNCHANGED <<lease, dying, attribution, unregistered, closing>>
  BY DEF AllocateFails
<1>3. \A t \in Sandboxes : lease[t] # n /\ (lease[t] # None => addr[lease[t]] # i)
  BY <1>1, FreshIndex, FreshNamespace
<1>4. i \in Nat /\ i >= 2 /\ ipcursor \in Nat
  BY <1>1, LastIndexAssumption DEF Index, NInv, NTypeOK
<1>5. /\ freed' \subseteq freed \cup {i} /\ ipcursor' \in Nat /\ ipcursor' >= ipcursor
      /\ i < ipcursor' /\ \A j \in freed : j < ipcursor /\ j \in Nat
  BY <1>1, <1>4, LastIndexAssumption DEF NextIndex, NInv, CursorAhead, NTypeOK, Index
<1>6. \A t \in Sandboxes : lease'[t] = lease[t]
                           /\ (lease[t] # None => addr'[lease'[t]] = addr[lease[t]])
  BY <1>1, <1>2, <1>3 DEF NInv, NTypeOK
<1>7. NTypeOK'
  BY <1>1, <1>2, <1>5 DEF NInv, NTypeOK
<1>8. LeaseIsLive' /\ LeakedStay'
  BY <1>1, <1>2, <1>3 DEF NInv, LeaseIsLive, LeakedStay
<1>9. AddressOwned'
  BY <1>2, <1>3, <1>5, <1>6 DEF NInv, AddressOwned
<1>10. AttributionIsHolder'
  BY <1>2, <1>6 DEF NInv, AttributionIsHolder, NTypeOK
<1>11. \A t \in Sandboxes : lease[t] # None => addr[lease[t]] < ipcursor /\ addr[lease[t]] \in Nat
  BY LastIndexAssumption DEF NInv, CursorAhead, NTypeOK, Index
<1>12. CursorAhead' /\ PublishedFirst'
  BY <1>2, <1>4, <1>5, <1>6, <1>11 DEF NInv, CursorAhead, PublishedFirst
<1> QED BY <1>7, <1>8, <1>9, <1>10, <1>12 DEF NInv

\* register_guest_ip attributes the address of the sandbox's own lease.
LEMMA RegisterGuestIpInv ==
  ASSUME NInv, NEW s \in Sandboxes, RegisterGuestIp(s)
  PROVE  NInv'
<1>1. /\ s \in unregistered /\ unregistered' = unregistered \ {s}
      /\ attribution' = [attribution EXCEPT ![addr[lease[s]]] = s]
      /\ UNCHANGED <<lease, addr, nslive, dying, leaked, freed, ipcursor, bridge, closing>>
  BY DEF RegisterGuestIp
<1>2. lease[s] # None /\ addr[lease[s]] \in Index
  BY <1>1 DEF NInv, PublishedFirst, AddressOwned
<1>3. NTypeOK' /\ LeaseIsLive' /\ LeakedStay'
  BY <1>1, <1>2 DEF NInv, NTypeOK, LeaseIsLive, LeakedStay
<1>4. AttributionIsHolder'
  BY <1>1, <1>2 DEF NInv, NTypeOK, AttributionIsHolder
<1>5. AddressOwned' /\ CursorAhead' /\ PublishedFirst'
  BY <1>1 DEF NInv, AddressOwned, CursorAhead, PublishedFirst
<1> QED BY <1>3, <1>4, <1>5 DEF NInv

\* release_lease returns an address nobody else holds, and takes it out of the
\* attribution with the lease.
LEMMA ReleaseLeaseInv ==
  ASSUME NInv, NEW s \in Sandboxes, ReleaseLease(s)
  PROVE  NInv'
<1>1. /\ lease[s] # None /\ s \notin unregistered
      /\ lease' = [lease EXCEPT ![s] = None]
      /\ attribution' = [attribution EXCEPT ![addr[lease[s]]] = None]
      /\ freed' = freed \cup {addr[lease[s]]} /\ dying' = dying \cup {lease[s]}
      /\ closing' = [closing EXCEPT !.left = @ \ {s}]
      /\ UNCHANGED <<addr, nslive, leaked, ipcursor, unregistered, bridge>>
  BY DEF ReleaseLease
<1>2. addr[lease[s]] \in Index /\ addr[lease[s]] < ipcursor /\ lease[s] \in Namespaces
      /\ lease[s] \notin leaked
  BY <1>1 DEF NInv, NTypeOK, AddressOwned, CursorAhead, LeaseIsLive
<1>3. lease'[s] = None /\ \A t \in Sandboxes : t # s => lease'[t] = lease[t]
  BY <1>1 DEF NInv, NTypeOK
<1>4. \A t \in Sandboxes : t # s /\ lease[t] # None
          => lease[t] # lease[s] /\ addr[lease[t]] # addr[lease[s]]
  BY <1>1 DEF NInv, AddressOwned
<1>5. closing' \in [on : BOOLEAN, left : SUBSET Sandboxes]
  BY <1>1 DEF NInv, NTypeOK
<1>6. NTypeOK'
  BY <1>1, <1>2, <1>5 DEF NInv, NTypeOK
<1>7. LeaseIsLive' /\ LeakedStay'
  BY <1>1, <1>2, <1>3, <1>4 DEF NInv, LeaseIsLive, LeakedStay
<1>8. AddressOwned'
  BY <1>1, <1>3, <1>4 DEF NInv, AddressOwned
<1>9. AttributionIsHolder'
  <2> SUFFICES ASSUME NEW i \in Index, attribution'[i] # None
               PROVE  /\ lease'[attribution'[i]] # None
                      /\ addr'[lease'[attribution'[i]]] = i
    BY DEF AttributionIsHolder
  <2>1. i # addr[lease[s]] /\ attribution'[i] = attribution[i]
    BY <1>1, <1>2 DEF NInv, NTypeOK
  <2>2. lease[attribution[i]] # None /\ addr[lease[attribution[i]]] = i
        /\ attribution[i] \in Sandboxes
    BY <2>1 DEF NInv, AttributionIsHolder, NTypeOK
  <2>3. attribution[i] # s
    BY <2>1, <2>2
  <2> QED BY <1>1, <1>3, <2>1, <2>2, <2>3
<1>10. CursorAhead' /\ PublishedFirst'
  BY <1>1, <1>2, <1>3 DEF NInv, CursorAhead, PublishedFirst, NTypeOK
<1> QED BY <1>6, <1>7, <1>8, <1>9, <1>10 DEF NInv

\* transfer_lease: the lease moves with its namespace, address and attribution;
\* the one it replaces is given back as by release_lease.
LEMMA TransferLeaseInv ==
  ASSUME NInv, NEW f \in Sandboxes, NEW t \in Sandboxes, TransferLease(f, t)
  PROVE  NInv'
<1> DEFINE n == lease[f]
           out == lease[t]
<1>1. /\ f # t /\ n # None /\ {f, t} \cap unregistered = {}
      /\ lease' = [lease EXCEPT ![f] = None, ![t] = n]
      /\ attribution' = [i \in Index |->
                            CASE i = addr[n] -> t
                              [] out # None /\ i = addr[out] /\ i # addr[n] -> None
                              [] OTHER -> attribution[i]]
      /\ IF out = None
         THEN UNCHANGED <<freed, dying>>
         ELSE freed' = freed \cup {addr[out]} /\ dying' = dying \cup {out}
      /\ UNCHANGED <<addr, nslive, leaked, ipcursor, unregistered, bridge, closing>>
  BY DEF TransferLease
<1>2. n \in Namespaces /\ addr[n] \in Index /\ n \in nslive \ (dying \cup leaked)
  BY <1>1 DEF NInv, NTypeOK, AddressOwned, LeaseIsLive
<1>3. out # None => /\ out \in Namespaces \ leaked /\ addr[out] \in Index /\ addr[out] < ipcursor
                    /\ out # n /\ addr[out] # addr[n]
  BY <1>1 DEF NInv, NTypeOK, AddressOwned, LeaseIsLive, CursorAhead
<1>4. lease'[f] = None /\ lease'[t] = n
      /\ \A u \in Sandboxes : u # f /\ u # t => lease'[u] = lease[u]
  BY <1>1 DEF NInv, NTypeOK
<1>5. \A u \in Sandboxes : u # f /\ u # t /\ lease[u] # None
          => /\ lease[u] # n /\ addr[lease[u]] # addr[n]
             /\ out # None => lease[u] # out /\ addr[lease[u]] # addr[out]
  BY <1>1 DEF NInv, AddressOwned
<1>6. \A i \in Index : attribution'[i] \in Sandboxes \cup {None}
  BY <1>1 DEF NInv, NTypeOK
<1>7. NTypeOK'
  <2>1. attribution' \in [Index -> Sandboxes \cup {None}]
    BY <1>1, <1>6
  <2>2. lease' \in [Sandboxes -> Namespaces \cup {None}]
    BY <1>1, <1>2 DEF NInv, NTypeOK
  <2>3. freed' \subseteq Index /\ dying' \subseteq Namespaces
    BY <1>1, <1>3 DEF NInv, NTypeOK
  <2> QED BY <1>1, <2>1, <2>2, <2>3 DEF NInv, NTypeOK
<1>8. LeaseIsLive' /\ LeakedStay'
  <2>1. \A x : x \in dying' <=> x \in dying \/ (out # None /\ x = out)
    BY <1>1
  <2>2. ASSUME NEW u \in Sandboxes, lease'[u] # None
        PROVE  lease'[u] \in nslive \ (dying' \cup leaked)
    <3>1. CASE u = t
      BY <1>1, <1>2, <1>3, <1>4, <2>1, <3>1
    <3>2. CASE u # t
      <4>1. u # f /\ lease'[u] = lease[u]
        BY <1>4, <2>2, <3>2
      <4> QED BY <1>5, <2>1, <2>2, <3>2, <4>1 DEF NInv, LeaseIsLive
    <3> QED BY <3>1, <3>2
  <2>3. leaked \subseteq nslive \ dying'
    BY <1>3, <2>1 DEF NInv, LeakedStay
  <2> QED BY <1>1, <2>2, <2>3 DEF LeaseIsLive, LeakedStay
<1>9. AddressOwned'
  <2>1. \A x : x \in freed' <=> x \in freed \/ (out # None /\ x = addr[out])
    BY <1>1
  <2>2. addr[n] \notin freed
    BY <1>1 DEF NInv, AddressOwned
  <2>3. \A u \in Sandboxes : lease'[u] # None => addr'[lease'[u]] \in Index \ freed'
    <3>1. ASSUME NEW u \in Sandboxes, lease'[u] # None
          PROVE  addr[lease'[u]] \in Index /\ addr[lease'[u]] \notin freed'
      <4>1. CASE u = t
        BY <1>2, <1>3, <1>4, <2>1, <2>2, <4>1
      <4>2. CASE u # t
        <5>1. u # f /\ lease'[u] = lease[u]
          BY <1>4, <3>1, <4>2
        <5>2. addr[lease[u]] \in Index /\ addr[lease[u]] \notin freed
          BY <3>1, <5>1 DEF NInv, AddressOwned
        <5> QED BY <1>5, <2>1, <3>1, <4>2, <5>1, <5>2
      <4> QED BY <4>1, <4>2
    <3> QED BY <1>1, <3>1
  <2>4. \A u, v \in Sandboxes : u # v /\ lease'[u] # None /\ lease'[v] # None
          => lease'[u] # lease'[v] /\ addr'[lease'[u]] # addr'[lease'[v]]
    <3>1. ASSUME NEW u \in Sandboxes, NEW v \in Sandboxes, u # v, lease'[u] # None, lease'[v] # None
          PROVE  lease'[u] # lease'[v] /\ addr[lease'[u]] # addr[lease'[v]]
      <4>1. u # f /\ v # f
        BY <1>4, <3>1
      <4>2. CASE u = t
        BY <1>1, <1>4, <1>5, <3>1, <4>1, <4>2
      <4>3. CASE v = t
        BY <1>1, <1>4, <1>5, <3>1, <4>1, <4>3
      <4>4. CASE u # t /\ v # t
        BY <1>4, <3>1, <4>1, <4>4 DEF NInv, AddressOwned
      <4> QED BY <4>2, <4>3, <4>4
    <3> QED BY <1>1, <3>1
  <2> QED BY <2>3, <2>4 DEF AddressOwned
<1>10. AttributionIsHolder'
  <2> SUFFICES ASSUME NEW i \in Index, attribution'[i] # None
               PROVE  /\ lease'[attribution'[i]] # None
                      /\ addr'[lease'[attribution'[i]]] = i
    BY DEF AttributionIsHolder
  <2>1. CASE i = addr[n]
    BY <1>1, <1>4, <2>1
  <2>2. CASE i # addr[n]
    <3>1. attribution'[i] = attribution[i] /\ ~(out # None /\ i = addr[out])
      BY <1>1, <2>2
    <3>2. lease[attribution[i]] # None /\ addr[lease[attribution[i]]] = i
          /\ attribution[i] \in Sandboxes
      BY <3>1 DEF NInv, AttributionIsHolder, NTypeOK
    <3>3. attribution[i] # f /\ attribution[i] # t
      BY <2>2, <3>1, <3>2
    <3> QED BY <1>1, <1>4, <3>1, <3>2, <3>3
  <2> QED BY <2>1, <2>2
<1>11. CursorAhead' /\ PublishedFirst'
  <2>1. \A j \in freed' : j < ipcursor
    BY <1>1, <1>3 DEF NInv, CursorAhead
  <2>2. \A u \in Sandboxes : lease'[u] # None => addr[lease'[u]] < ipcursor
    BY <1>1, <1>4 DEF NInv, CursorAhead
  <2> QED BY <1>1, <1>4, <2>1, <2>2 DEF NInv, CursorAhead, PublishedFirst, NTypeOK
<1> QED BY <1>7, <1>8, <1>9, <1>10, <1>11 DEF NInv

\* _destroy_lease_plumbing removes a namespace no lease names.
LEMMA DestroyPlumbingInv ==
  ASSUME NInv, NEW n \in Namespaces, DestroyPlumbing(n)
  PROVE  NInv'
<1>1. /\ n \in dying /\ dying' = dying \ {n} /\ nslive' = nslive \ {n}
      /\ addr' = [addr EXCEPT ![n] = 0]
      /\ UNCHANGED <<lease, leaked, freed, ipcursor, attribution, unregistered, bridge, closing>>
  BY DEF DestroyPlumbing
<1>2. \A s \in Sandboxes : lease[s] # None => lease[s] # n /\ addr'[lease[s]] = addr[lease[s]]
  BY <1>1 DEF NInv, LeaseIsLive, NTypeOK
<1>3. NTypeOK'
  BY <1>1 DEF NInv, NTypeOK
<1>4. LeaseIsLive' /\ LeakedStay' /\ PublishedFirst'
  BY <1>1, <1>2 DEF NInv, LeaseIsLive, LeakedStay, PublishedFirst
<1>5. AddressOwned' /\ CursorAhead'
  BY <1>1, <1>2 DEF NInv, AddressOwned, CursorAhead
<1>6. AttributionIsHolder'
  BY <1>1, <1>2 DEF NInv, AttributionIsHolder, NTypeOK
<1> QED BY <1>3, <1>4, <1>5, <1>6 DEF NInv

\* A step that changes no table but cleanup's own list keeps them sound.
LEMMA CleanupInv ==
  ASSUME NInv, bridge' \in BOOLEAN, closing' \in [on : BOOLEAN, left : SUBSET Sandboxes],
         UNCHANGED <<lease, addr, nslive, dying, leaked, freed, ipcursor, attribution, unregistered>>
  PROVE  NInv'
  BY DEF NInv, NTypeOK, LeaseIsLive, AddressOwned, AttributionIsHolder, CursorAhead,
         PublishedFirst, LeakedStay

\* Every step of the manager keeps its tables sound.
LEMMA NStep == NInv /\ [NNext]_nvars => NInv'
<1> SUFFICES ASSUME NInv, [NNext]_nvars PROVE NInv'
  OBVIOUS
<1>1. ASSUME NEW s \in Sandboxes,
             AllocateLease(s) \/ AllocateFails(s) \/ RegisterGuestIp(s) \/ ReleaseLease(s)
      PROVE  NInv'
  BY <1>1, AllocateLeaseInv, AllocateFailsInv, RegisterGuestIpInv, ReleaseLeaseInv
<1>2. ASSUME NEW f \in Sandboxes, NEW t \in Sandboxes, TransferLease(f, t) PROVE NInv'
  BY <1>2, TransferLeaseInv
<1>3. ASSUME NEW n \in Namespaces, DestroyPlumbing(n) PROVE NInv'
  BY <1>3, DestroyPlumbingInv
<1>4. CASE CleanupStart
  <2>1. closing' \in [on : BOOLEAN, left : SUBSET Sandboxes]
    BY <1>4 DEF CleanupStart
  <2> QED BY <1>4, <2>1, CleanupInv DEF CleanupStart, NInv, NTypeOK
<1>5. CASE CleanupBridge
  BY <1>5, CleanupInv DEF CleanupBridge
<1>6. CASE UNCHANGED nvars
  BY <1>6, CleanupInv DEF nvars, NInv, NTypeOK
<1> QED BY <1>1, <1>2, <1>3, <1>4, <1>5, <1>6 DEF NNext

\* The inductive invariant of the network manager.
THEOREM LeaseInvariance == NSpec => []NInv
  BY NInitInv, NStep, PTL DEF NSpec

\* Through allocations, failed ones, releases, transfers on a promotion and the
\* cleanup, a lease's namespace exists and is not about to be destroyed, no two
\* sandboxes hold the same namespace or guest address, no address in use is in
\* the free pool, and the address egress is attributed by resolves to the
\* sandbox that holds it (BenchmarkNetworkManager).
THEOREM LeasesStaySound == NSpec => []LeasesAreSound
<1>1. NInv => LeasesAreSound
  BY DEF NInv, LeasesAreSound
<1> QED BY <1>1, LeaseInvariance, PTL

-----------------------------------------------------------------------------
(* Start and stop of the engine.                                           *)

\* The resources a stop that releases r next has already released.
Passed(r) ==
    CASE r = "redirect" -> {}
      [] r = "proxy" -> {"redirect"}
      [] r = "interceptor" -> {"redirect", "proxy"}
      [] r = "forwarder" -> {"redirect", "proxy", "interceptor"}
      [] r = "bridge" -> {"redirect", "proxy", "interceptor", "forwarder"}
      [] r = "threads" -> Resources \ {"threads", "inspector", "tempdir"}
      [] r = "inspector" -> Resources \ {"inspector", "tempdir"}
      [] r = "tempdir" -> Resources \ {"tempdir"}
      [] OTHER -> Resources

\* Until a start has succeeded no stop gets beyond its first block.
StartComesFirst ==
    /\ at # "up" => ~started /\ elock = NoStopper /\ \A s \in Stoppers : spc[s] \in {"idle", "done"}
    /\ at \in Resources => \A s \in Stoppers : spc[s] = "idle"

\* The lock covers the second block, which works down the list.
LockedRelease ==
    /\ \A s \in Stoppers : spc[s] \in Resources <=> elock = s
    /\ \A s \in Stoppers : elock = s => fields \cap Passed(spc[s]) = {}
    /\ at = "up" /\ ~started => fields = {}
    /\ \A s \in Stoppers : spc[s] = "done" /\ at = "up" => ~started

\* What exists and is not referred to is a bridge made anew by a launch.
NothingForgotten ==
    efaults = 0 /\ at # "raised"
        => alive \subseteq fields \cup (IF strays = {} THEN {} ELSE {"bridge"})

\* The proxy is there when the rule is made, which needs it.
ProxyFirst ==
    /\ "redirect" \in cfg => "proxy" \in cfg
    /\ at = "redirect" /\ "proxy" \in cfg => "proxy" \in alive

\* A sandbox on a stop's list is alive until a kill begins; the kill a stop has
\* begun ends, if nothing raises, before it leaves the loop.
KillsAreFinished ==
    /\ \A s \in Stoppers, b \in EngineBoxes :
          b \in snap[s] /\ killer[b] = NoStopper => box[b] = "live"
    /\ \A s \in Stoppers, b \in EngineBoxes :
          killer[b] = s /\ efaults = 0
              => \/ box[b] = "gone"
                 \/ spc[s] = "kill" /\ b \in snap[s] /\ box[b] = "live"

ELInv == /\ ELTypeOK /\ StartComesFirst /\ LockedRelease /\ NothingForgotten
         /\ ProxyFirst /\ RedirectHasProxy /\ KillsAreFinished

\* No engine is started and nothing exists.
LEMMA ELInitInv == ELInit => ELInv
<1> SUFFICES ASSUME ELInit PROVE ELInv
  OBVIOUS
<1>1. ELTypeOK
  BY DEF ELInit, ELTypeOK, Resources
<1>2. StartComesFirst /\ LockedRelease
  BY NoStopperAssumption DEF ELInit, StartComesFirst, LockedRelease, Resources
<1>3. NothingForgotten /\ ProxyFirst /\ RedirectHasProxy
  BY DEF ELInit, Configured, NothingForgotten, ProxyFirst, RedirectHasProxy
<1>4. KillsAreFinished
  BY NoStopperAssumption DEF ELInit, KillsAreFinished
<1> QED BY <1>1, <1>2, <1>3, <1>4 DEF ELInv

\* Each step of _start brings up one resource and keeps a reference to it.
LEMMA StartStageInv ==
  ASSUME ELInv, StartStage
  PROVE  ELInv'
<1> DEFINE new == {at} \cap cfg
<1>1. /\ at \in Resources /\ alive' = alive \cup new /\ fields \cup new \subseteq fields'
      /\ fields' \subseteq fields \cup {at} /\ at' = UpAfter[at] /\ started' = (at = "threads")
      /\ UNCHANGED <<cfg, net, elock, spc, snap, box, killer, strays, efaults>>
  BY DEF StartStage
<1>2. /\ at' \in Resources \cup {"up"} /\ (at' = "up" <=> at = "threads")
      /\ (at' = "redirect" <=> at = "proxy")
  BY <1>1 DEF UpAfter, Resources
<1>3. at # "up" /\ at # "raised" /\ at' # "raised"
  BY <1>1, <1>2 DEF Resources
<1>4. elock = NoStopper /\ ~started /\ \A s \in Stoppers : spc[s] = "idle"
  BY <1>1, <1>3 DEF ELInv, StartComesFirst
<1>5. ELTypeOK'
  BY <1>1, <1>2 DEF ELInv, ELTypeOK
<1>6. StartComesFirst'
  BY <1>1, <1>2, <1>4 DEF StartComesFirst
<1>7. LockedRelease'
  <2>1. \A s \in Stoppers : spc[s] \notin Resources /\ spc[s] # "done" /\ elock # s
    BY <1>4, NoStopperAssumption DEF Resources
  <2> QED BY <1>1, <1>2, <2>1 DEF LockedRelease
<1>8. NothingForgotten'
  BY <1>1, <1>3 DEF ELInv, NothingForgotten
<1>9. ProxyFirst' /\ RedirectHasProxy'
  BY <1>1, <1>2 DEF ELInv, ProxyFirst, RedirectHasProxy
<1>10. KillsAreFinished'
  BY <1>1 DEF ELInv, KillsAreFinished
<1> QED BY <1>5, <1>6, <1>7, <1>8, <1>9, <1>10 DEF ELInv

\* A start that raises is over.
LEMMA StartRaisesInv ==
  ASSUME ELInv, StartRaises
  PROVE  ELInv'
<1>1. /\ at \in Resources /\ alive \subseteq alive' /\ alive' \subseteq alive \cup ({"bridge"} \cap {at})
      /\ efaults' >= efaults /\ efaults' \in Nat /\ at' = "raised"
      /\ UNCHANGED <<cfg, net, started, fields, elock, spc, snap, box, killer, strays>>
  <2>1. efaults \in Nat /\ efaults' = (IF Refused THEN efaults ELSE efaults + 1)
    BY DEF StartRaises, ELInv, ELTypeOK
  <2>2. efaults' >= efaults /\ efaults' \in Nat
    BY <2>1
  <2>3. alive' = alive \/ alive' = alive \cup ({at} \cap cfg \cap {"bridge"})
    BY DEF StartRaises
  <2> QED BY <2>2, <2>3 DEF StartRaises
<1>2. elock = NoStopper /\ ~started /\ \A s \in Stoppers : spc[s] = "idle"
  BY <1>1 DEF ELInv, StartComesFirst, Resources
<1>3. ELTypeOK'
  BY <1>1 DEF ELInv, ELTypeOK, Resources
<1>4. StartComesFirst'
  BY <1>1, <1>2 DEF StartComesFirst, Resources
<1>5. LockedRelease'
  BY <1>1 DEF ELInv, LockedRelease
<1>6. NothingForgotten' /\ ProxyFirst'
  BY <1>1 DEF ELInv, NothingForgotten, ProxyFirst
<1>7. RedirectHasProxy'
  BY <1>1 DEF ELInv, ELTypeOK, RedirectHasProxy
<1>8. KillsAreFinished'
  BY <1>1 DEF ELInv, ELTypeOK, KillsAreFinished
<1> QED BY <1>3, <1>4, <1>5, <1>6, <1>7, <1>8 DEF ELInv

\* A step that touches neither the resources nor the lock keeps what is said
\* of them, whether it raises or not.
LEMMA ResourcesUntouched ==
  ASSUME ELInv, efaults' >= efaults, efaults' \in Nat, UNCHANGED <<engvars, elock, spc, strays>>
  PROVE  StartComesFirst' /\ LockedRelease' /\ NothingForgotten' /\ ProxyFirst' /\ RedirectHasProxy'
<1>1. efaults' = 0 => efaults = 0
  BY DEF ELInv, ELTypeOK
<1>2. UNCHANGED <<cfg, net, at, started, fields, alive, elock, spc, strays>>
  BY DEF engvars
<1>3. StartComesFirst' /\ LockedRelease'
  BY <1>2 DEF ELInv, StartComesFirst, LockedRelease
<1> QED BY <1>1, <1>2, <1>3 DEF ELInv, NothingForgotten, ProxyFirst, RedirectHasProxy

\* A launch touches no sandbox a kill is about.
LEMMA LaunchInv ==
  ASSUME ELInv, NEW b \in EngineBoxes, box[b] \in {"none", "leasing", "launching"},
         NEW v \in {"leasing", "launching", "live"}, box' = [box EXCEPT ![b] = v],
         UNCHANGED <<spc, snap, killer, efaults>>
  PROVE  KillsAreFinished'
<1>1. box[b] # "gone" /\ box[b] # "live"
  OBVIOUS
<1>2. \A c \in EngineBoxes : c # b => box'[c] = box[c]
  BY DEF ELInv, ELTypeOK
<1>3. \A s \in Stoppers : ~(b \in snap[s] /\ killer[b] = NoStopper)
                         /\ ~(killer[b] = s /\ efaults = 0)
  BY <1>1 DEF ELInv, KillsAreFinished
<1> QED BY <1>2, <1>3 DEF ELInv, KillsAreFinished

\* The steps of a client's launch.
LEMMA ClientLaunchInv ==
  ASSUME ELInv, NEW b \in EngineBoxes, LaunchBegins(b) \/ LeaseNetwork(b) \/ RegisterSandbox(b)
  PROVE  ELInv'
<1>1. CASE LaunchBegins(b)
  <2>1. PICK v \in {"leasing", "launching", "live"} : box' = [box EXCEPT ![b] = v]
    BY <1>1 DEF LaunchBegins
  <2>2. box[b] = "none" /\ UNCHANGED <<engvars, elock, spc, snap, killer, strays, efaults>>
    BY <1>1 DEF LaunchBegins
  <2>3. KillsAreFinished'
    BY <2>1, <2>2, LaunchInv
  <2>4. ELTypeOK'
    BY <2>1, <2>2 DEF ELInv, ELTypeOK, engvars
  <2>5. efaults' >= efaults /\ efaults' \in Nat
    BY <2>2 DEF ELInv, ELTypeOK
  <2> QED BY <2>2, <2>3, <2>4, <2>5, ResourcesUntouched DEF ELInv
<1>2. CASE LeaseNetwork(b)
  <2>1. /\ box[b] = "leasing" /\ box' = [box EXCEPT ![b] = "launching"]
        /\ alive' = alive \cup {"bridge"}
        /\ strays' = IF "bridge" \in fields THEN strays ELSE strays \cup {b}
        /\ UNCHANGED <<cfg, net, at, started, fields, elock, spc, snap, killer, efaults>>
    BY <1>2 DEF LeaseNetwork
  <2>2. KillsAreFinished'
    BY <2>1, LaunchInv
  <2>3. ELTypeOK'
    BY <2>1 DEF ELInv, ELTypeOK, Resources
  <2>4. StartComesFirst' /\ LockedRelease'
    BY <2>1 DEF ELInv, StartComesFirst, LockedRelease
  <2>5. NothingForgotten'
    <3>1. strays' = {} => strays = {} /\ "bridge" \in fields
      BY <2>1
    <3> QED BY <2>1, <3>1 DEF ELInv, NothingForgotten
  <2>6. ProxyFirst' /\ RedirectHasProxy'
    BY <2>1 DEF ELInv, ProxyFirst, RedirectHasProxy
  <2> QED BY <2>2, <2>3, <2>4, <2>5, <2>6 DEF ELInv
<1>3. CASE RegisterSandbox(b)
  <2>1. /\ box[b] = "launching" /\ box' = [box EXCEPT ![b] = "live"]
        /\ UNCHANGED <<engvars, elock, spc, snap, killer, strays, efaults>>
    BY <1>3 DEF RegisterSandbox
  <2>2. KillsAreFinished'
    BY <2>1, LaunchInv
  <2>3. ELTypeOK'
    BY <2>1 DEF ELInv, ELTypeOK, engvars
  <2>4. efaults' >= efaults /\ efaults' \in Nat
    BY <2>1 DEF ELInv, ELTypeOK
  <2> QED BY <2>1, <2>2, <2>3, <2>4, ResourcesUntouched DEF ELInv
<1> QED BY <1>1, <1>2, <1>3

\* Deleting a sandbox either succeeds or is counted as a fault.
LEMMA DeletedFacts ==
  ASSUME ELInv, NEW b \in EngineBoxes, Deleted(b)
  PROVE  /\ efaults' >= efaults /\ efaults' \in Nat
         /\ box' \in [EngineBoxes -> {"none", "leasing", "launching", "live", "gone", "lost"}]
         /\ efaults' = 0 => efaults = 0 /\ box'[b] = "gone"
         /\ \A c \in EngineBoxes : c # b => box'[c] = box[c]
<1>1. CASE box' = [box EXCEPT ![b] = "gone"] /\ UNCHANGED efaults
  BY <1>1 DEF ELInv, ELTypeOK
<1>2. CASE box' = [box EXCEPT ![b] = "lost"] /\ efaults' = efaults + 1
  BY <1>2 DEF ELInv, ELTypeOK
<1> QED BY <1>1, <1>2 DEF Deleted

\* A client's kill: the first caller closes the sandbox and deletes it.
LEMMA ClientKillInv ==
  ASSUME ELInv, NEW b \in EngineBoxes, ClientKills(b) \/ ClientKillEnds(b)
  PROVE  ELInv'
<1>1. CASE ClientKills(b)
  <2>1. /\ killer[b] = NoStopper /\ killer' = [killer EXCEPT ![b] = Client]
        /\ UNCHANGED <<engvars, elock, spc, snap, box, strays, efaults>>
    BY <1>1 DEF ClientKills
  <2>2. ELTypeOK'
    BY <2>1 DEF ELInv, ELTypeOK, engvars
  <2>3. killer'[b] = Client /\ \A c \in EngineBoxes : c # b => killer'[c] = killer[c]
    BY <2>1 DEF ELInv, ELTypeOK
  <2>4. KillsAreFinished'
    BY <2>1, <2>3, NoStopperAssumption DEF ELInv, KillsAreFinished
  <2>5. efaults' >= efaults /\ efaults' \in Nat
    BY <2>1 DEF ELInv, ELTypeOK
  <2> QED BY <2>1, <2>2, <2>4, <2>5, ResourcesUntouched DEF ELInv
<1>2. CASE ClientKillEnds(b)
  <2>1. /\ killer[b] = Client /\ Deleted(b)
        /\ UNCHANGED <<engvars, elock, spc, snap, killer, strays>>
    BY <1>2 DEF ClientKillEnds
  <2>2. ELTypeOK'
    BY <2>1, DeletedFacts DEF ELInv, ELTypeOK, engvars
  <2>3. KillsAreFinished'
    <3>1. killer'[b] # NoStopper /\ \A s \in Stoppers : killer'[b] # s
      BY <2>1, NoStopperAssumption
    <3>2. /\ efaults' = 0 => efaults = 0
          /\ \A c \in EngineBoxes : c # b => box'[c] = box[c]
      BY <2>1, DeletedFacts
    <3> QED BY <2>1, <3>1, <3>2 DEF ELInv, KillsAreFinished
  <2>4. efaults' >= efaults /\ efaults' \in Nat
    BY <2>1, DeletedFacts
  <2> QED BY <2>1, <2>2, <2>3, <2>4, ResourcesUntouched DEF ELInv
<1> QED BY <1>1, <1>2

\* The first block of stop(): the list holds sandboxes that are alive, and a
\* stop of an engine that is not started is over.
LEMMA StopBeginsInv ==
  ASSUME ELInv, NEW s \in Stoppers, StopBegins(s)
  PROVE  ELInv'
<1>1. /\ at \in {"up", "raised"} /\ spc[s] = "idle" /\ elock = NoStopper
      /\ spc' = [spc EXCEPT ![s] = IF started THEN "kill" ELSE "done"]
      /\ snap' = [snap EXCEPT ![s] = {b \in EngineBoxes : started /\ box[b] = "live"}]
      /\ UNCHANGED <<cfg, net, at, started, fields, alive, elock, box, killer, strays, efaults>>
  BY DEF StopBegins, engvars
<1>2. /\ spc'[s] = (IF started THEN "kill" ELSE "done")
      /\ \A t \in Stoppers : t # s => spc'[t] = spc[t] /\ snap'[t] = snap[t]
      /\ \A b \in snap'[s] : box[b] = "live"
  BY <1>1 DEF ELInv, ELTypeOK
<1>3. ELTypeOK'
  BY <1>1 DEF ELInv, ELTypeOK
<1>4. StartComesFirst'
  BY <1>1, <1>2 DEF ELInv, StartComesFirst, Resources
<1>5. LockedRelease'
  <2>1. elock # s /\ spc'[s] \notin Resources
    BY <1>1, <1>2, NoStopperAssumption DEF Resources
  <2>2. \A t \in Stoppers : spc'[t] \in Resources <=> elock' = t
    BY <1>1, <1>2, <2>1 DEF ELInv, LockedRelease
  <2>3. \A t \in Stoppers : elock' # t
    BY <1>1, NoStopperAssumption
  <2>4. \A t \in Stoppers : spc'[t] = "done" /\ at' = "up" => ~started'
    BY <1>1, <1>2 DEF ELInv, LockedRelease
  <2> QED BY <1>1, <2>2, <2>3, <2>4 DEF ELInv, LockedRelease
<1>6. NothingForgotten' /\ ProxyFirst' /\ RedirectHasProxy'
  BY <1>1 DEF ELInv, NothingForgotten, ProxyFirst, RedirectHasProxy
<1>7. KillsAreFinished'
  <2>1. \A t \in Stoppers, b \in EngineBoxes :
            b \in snap'[t] /\ killer[b] = NoStopper => box[b] = "live"
    BY <1>2 DEF ELInv, KillsAreFinished
  <2>2. ASSUME NEW t \in Stoppers, NEW b \in EngineBoxes, killer[b] = t, efaults = 0
        PROVE  \/ box[b] = "gone"
               \/ spc'[t] = "kill" /\ b \in snap'[t] /\ box[b] = "live"
    <3>1. \/ box[b] = "gone"
          \/ spc[t] = "kill" /\ b \in snap[t] /\ box[b] = "live"
      BY <2>2 DEF ELInv, KillsAreFinished
    <3>2. spc[t] = "kill" => t # s
      BY <1>1
    <3> QED BY <1>2, <3>1, <3>2
  <2> QED BY <1>1, <2>1, <2>2 DEF KillsAreFinished
<1> QED BY <1>3, <1>4, <1>5, <1>6, <1>7 DEF ELInv

\* The loop of stop(): it begins a kill nobody has begun, passes over one that
\* somebody else has, and leaves its own behind when it has ended.
LEMMA StopLoopInv ==
  ASSUME ELInv, NEW s \in Stoppers, NEW b \in EngineBoxes, StopKills(s, b) \/ StopKillEnds(s, b)
  PROVE  ELInv'
<1>1. CASE StopKills(s, b)
  <2>1. /\ spc[s] = "kill" /\ b \in snap[s] /\ \A o \in snap[s] : killer[o] # s
        /\ UNCHANGED <<engvars, elock, spc, box, strays, efaults>>
    BY <1>1 DEF StopKills
  <2>2. efaults' >= efaults /\ efaults' \in Nat
    BY <2>1 DEF ELInv, ELTypeOK
  <2>3. CASE killer[b] = NoStopper /\ killer' = [killer EXCEPT ![b] = s] /\ UNCHANGED snap
    <3>1. ELTypeOK'
      BY <2>1, <2>3 DEF ELInv, ELTypeOK, engvars
    <3>2. killer'[b] = s /\ \A c \in EngineBoxes : c # b => killer'[c] = killer[c]
      BY <2>3 DEF ELInv, ELTypeOK
    <3>3. box[b] = "live"
      BY <2>1, <2>3 DEF ELInv, KillsAreFinished
    <3>4. KillsAreFinished'
      <4>1. \A t \in Stoppers, o \in EngineBoxes :
               o \in snap[t] /\ killer'[o] = NoStopper => box[o] = "live"
        BY <3>2, NoStopperAssumption DEF ELInv, KillsAreFinished
      <4>2. ASSUME NEW t \in Stoppers, NEW o \in EngineBoxes, killer'[o] = t, efaults = 0
            PROVE  \/ box[o] = "gone"
                   \/ spc[t] = "kill" /\ o \in snap[t] /\ box[o] = "live"
        <5>1. CASE o = b
          BY <2>1, <3>2, <3>3, <4>2, <5>1
        <5>2. CASE o # b
          BY <3>2, <4>2, <5>2 DEF ELInv, KillsAreFinished
        <5> QED BY <5>1, <5>2
      <4> QED BY <2>1, <2>3, <4>1, <4>2 DEF KillsAreFinished
    <3> QED BY <2>1, <2>2, <3>1, <3>4, ResourcesUntouched DEF ELInv
  <2>4. CASE killer[b] # NoStopper /\ snap' = [snap EXCEPT ![s] = @ \ {b}] /\ UNCHANGED killer
    <3>1. ELTypeOK'
      BY <2>1, <2>4 DEF ELInv, ELTypeOK, engvars
    <3>2. /\ snap'[s] = snap[s] \ {b} /\ \A t \in Stoppers : t # s => snap'[t] = snap[t]
      BY <2>4 DEF ELInv, ELTypeOK
    <3>3. KillsAreFinished'
      BY <2>1, <2>4, <3>2 DEF ELInv, KillsAreFinished
    <3> QED BY <2>1, <2>2, <3>1, <3>3, ResourcesUntouched DEF ELInv
  <2> QED BY <1>1, <2>3, <2>4 DEF StopKills
<1>2. CASE StopKillEnds(s, b)
  <2>1. /\ spc[s] = "kill" /\ b \in snap[s] /\ killer[b] = s /\ Deleted(b)
        /\ snap' = [snap EXCEPT ![s] = @ \ {b}]
        /\ UNCHANGED <<engvars, elock, spc, killer, strays>>
    BY <1>2 DEF StopKillEnds
  <2>2. ELTypeOK'
    BY <2>1, DeletedFacts DEF ELInv, ELTypeOK, engvars
  <2>3. /\ snap'[s] = snap[s] \ {b} /\ \A t \in Stoppers : t # s => snap'[t] = snap[t]
    BY <2>1 DEF ELInv, ELTypeOK
  <2>4. KillsAreFinished'
    <3>1. /\ efaults' = 0 => efaults = 0 /\ box'[b] = "gone"
          /\ \A c \in EngineBoxes : c # b => box'[c] = box[c]
      BY <2>1, DeletedFacts
    <3>2. \A t \in Stoppers, c \in EngineBoxes :
              c \in snap'[t] /\ killer[c] = NoStopper => box'[c] = "live"
      <4>1. killer[b] # NoStopper
        BY <2>1, NoStopperAssumption
      <4> QED BY <2>3, <3>1, <4>1 DEF ELInv, KillsAreFinished
    <3>3. ASSUME NEW t \in Stoppers, NEW c \in EngineBoxes, killer[c] = t, efaults' = 0
          PROVE  \/ box'[c] = "gone"
                 \/ spc[t] = "kill" /\ c \in snap'[t] /\ box'[c] = "live"
      <4>1. CASE c = b
        BY <3>1, <3>3, <4>1
      <4>2. CASE c # b
        <5>1. \/ box[c] = "gone"
              \/ spc[t] = "kill" /\ c \in snap[t] /\ box[c] = "live"
          BY <3>1, <3>3 DEF ELInv, KillsAreFinished
        <5> QED BY <2>3, <3>1, <4>2, <5>1
      <4> QED BY <4>1, <4>2
    <3> QED BY <2>1, <3>2, <3>3 DEF KillsAreFinished
  <2>5. efaults' >= efaults /\ efaults' \in Nat
    BY <2>1, DeletedFacts
  <2> QED BY <2>1, <2>2, <2>4, <2>5, ResourcesUntouched DEF ELInv
<1> QED BY <1>1, <1>2

\* The list stop() works down: each step adds one resource to the released
\* ones, the last leaves none.
LEMMA DownOrder ==
  ASSUME NEW r \in Resources
  PROVE  /\ r # "tempdir" => /\ DownAfter[r] \in Resources
                             /\ Passed(DownAfter[r]) = Passed(r) \cup {r}
         /\ r = "tempdir" => DownAfter[r] = "done" /\ Resources \subseteq Passed(r) \cup {r}
         /\ r = "proxy" => "redirect" \in Passed(r)
<1>1. CASE r \in {"redirect", "proxy", "interceptor"}
  BY <1>1 DEF DownAfter, Passed, Resources
<1>2. CASE r = "forwarder"
  BY <1>2 DEF DownAfter, Passed, Resources
<1>3. CASE r = "bridge"
  BY <1>3 DEF DownAfter, Passed, Resources
<1>4. CASE r \in {"threads", "inspector", "tempdir"}
  BY <1>4 DEF DownAfter, Passed, Resources
<1> QED BY <1>1, <1>2, <1>3, <1>4 DEF Resources

\* The second block begins when the list is empty, so its kills have ended.
LEMMA StopLocksInv ==
  ASSUME ELInv, NEW s \in Stoppers, StopLocks(s)
  PROVE  ELInv'
<1>1. /\ spc[s] = "kill" /\ snap[s] = {} /\ elock = NoStopper /\ elock' = s
      /\ spc' = [spc EXCEPT ![s] = "redirect"]
      /\ UNCHANGED <<cfg, net, at, started, fields, alive, snap, box, killer, strays, efaults>>
  BY DEF StopLocks, engvars
<1>2. spc'[s] = "redirect" /\ \A t \in Stoppers : t # s => spc'[t] = spc[t]
  BY <1>1 DEF ELInv, ELTypeOK
<1>3. at = "up"
  BY <1>1 DEF ELInv, StartComesFirst
<1>4. ELTypeOK'
  BY <1>1 DEF ELInv, ELTypeOK, Resources
<1>5. StartComesFirst'
  BY <1>1, <1>3 DEF StartComesFirst, Resources
<1>6. LockedRelease'
  <2>1. \A t \in Stoppers : spc[t] \notin Resources
    BY <1>1, NoStopperAssumption DEF ELInv, LockedRelease
  <2>2. \A t \in Stoppers : spc'[t] \in Resources <=> elock' = t
    BY <1>1, <1>2, <2>1 DEF Resources
  <2>3. Passed("redirect") = {}
    BY DEF Passed
  <2>4. \A t \in Stoppers : spc'[t] = "done" => spc[t] = "done"
    BY <1>2
  <2> QED BY <1>1, <1>2, <2>2, <2>3, <2>4 DEF ELInv, LockedRelease
<1>7. NothingForgotten' /\ ProxyFirst' /\ RedirectHasProxy'
  BY <1>1 DEF ELInv, NothingForgotten, ProxyFirst, RedirectHasProxy
<1>8. KillsAreFinished'
  <2>1. KillsAreFinished
    BY DEF ELInv
  <2>2. ASSUME NEW t \in Stoppers, NEW b \in EngineBoxes
        PROVE  snap'[t] = snap[t] /\ killer'[b] = killer[b] /\ box'[b] = box[b] /\ efaults' = efaults
    BY <1>1
  <2>3. ASSUME NEW t \in Stoppers, NEW b \in EngineBoxes, spc[t] = "kill", b \in snap[t]
        PROVE  spc'[t] = "kill"
    BY <1>1, <1>2, <2>3
  <2>4. ASSUME NEW t \in Stoppers, NEW b \in EngineBoxes, b \in snap'[t], killer'[b] = NoStopper
        PROVE  box'[b] = "live"
    BY <2>1, <2>2, <2>4 DEF KillsAreFinished
  <2>5. ASSUME NEW t \in Stoppers, NEW b \in EngineBoxes, killer'[b] = t, efaults' = 0
        PROVE  box'[b] = "gone" \/ (spc'[t] = "kill" /\ b \in snap'[t] /\ box'[b] = "live")
    <3>1. killer[b] = t /\ efaults = 0
      BY <2>2, <2>5
    <3>2. box[b] = "gone" \/ (spc[t] = "kill" /\ b \in snap[t] /\ box[b] = "live")
      BY <2>1, <3>1 DEF KillsAreFinished
    <3> QED BY <2>2, <2>3, <3>2
  <2> QED BY <2>4, <2>5 DEF KillsAreFinished
<1> QED BY <1>4, <1>5, <1>6, <1>7, <1>8 DEF ELInv

\* One resource is released under the lock: the rule went before its proxy, and
\* after the last one nothing is referred to.
LEMMA StopReleasesInv ==
  ASSUME ELInv, NEW s \in Stoppers, StopReleases(s)
  PROVE  ELInv'
<1> DEFINE r == spc[s]
<1>1. /\ elock = s /\ r \in Resources /\ fields' = fields \ {r}
      /\ spc' = [spc EXCEPT ![s] = DownAfter[r]] /\ started' = (started /\ r # "tempdir")
      /\ elock' = (IF r = "tempdir" THEN NoStopper ELSE elock) /\ Release(r)
      /\ UNCHANGED <<cfg, net, at, snap, box, killer, strays>>
  BY DEF StopReleases
<1>2. spc'[s] = DownAfter[r] /\ \A t \in Stoppers : t # s => spc'[t] = spc[t]
  BY <1>1 DEF ELInv, ELTypeOK
<1>3. DownAfter[r] \in Resources \cup {"done"} /\ DownAfter[r] # "kill" /\ r # "kill" /\ "done" \notin Resources
  BY <1>1, DownOrder DEF Resources
<1>4. at = "up"
  BY <1>1, NoStopperAssumption DEF ELInv, StartComesFirst
<1>5. /\ efaults' >= efaults /\ efaults' \in Nat /\ alive' \subseteq alive
      /\ efaults' = 0 => efaults = 0 /\ alive' = (IF r \in fields THEN alive \ {r} ELSE alive)
  BY <1>1 DEF Release, ELInv, ELTypeOK
<1>6. fields \cap Passed(r) = {}
  BY <1>1 DEF ELInv, LockedRelease
<1>7. ELTypeOK'
  <2>1. spc' \in [Stoppers -> Resources \cup {"idle", "kill", "done"}]
    BY <1>1, <1>3 DEF ELInv, ELTypeOK
  <2>2. started' \in BOOLEAN
    BY <1>1
  <2> QED BY <1>1, <1>5, <2>1, <2>2 DEF ELInv, ELTypeOK
<1>8. StartComesFirst'
  BY <1>1, <1>4 DEF StartComesFirst, Resources
<1>9. LockedRelease'
  <2>1. \A t \in Stoppers : t # s => spc[t] \notin Resources
    BY <1>1 DEF ELInv, LockedRelease
  <2>2. CASE r = "tempdir"
    <3>1. DownAfter[r] = "done" /\ fields' = {} /\ elock' = NoStopper /\ ~started'
      BY <1>1, <1>6, <2>2, DownOrder DEF ELInv, ELTypeOK
    <3> QED BY <1>2, <1>3, <2>1, <3>1, NoStopperAssumption DEF LockedRelease
  <2>3. CASE r # "tempdir"
    <3>1. DownAfter[r] \in Resources /\ fields' \cap Passed(DownAfter[r]) = {}
      BY <1>1, <1>6, <2>3, DownOrder
    <3>2. \A t \in Stoppers : spc'[t] \in Resources <=> elock' = t
      BY <1>1, <1>2, <2>1, <2>3, <3>1
    <3>3. \A t \in Stoppers : elock' = t => fields' \cap Passed(spc'[t]) = {}
      BY <1>1, <1>2, <2>3, <3>1
    <3>4. at' = "up" /\ ~started' => fields' = {}
      BY <1>1, <2>3 DEF ELInv, LockedRelease
    <3>5. \A t \in Stoppers : spc'[t] = "done" /\ at' = "up" => ~started'
      BY <1>1, <1>2, <1>3, <2>3, <3>1 DEF ELInv, LockedRelease
    <3> QED BY <3>2, <3>3, <3>4, <3>5 DEF LockedRelease
  <2> QED BY <2>2, <2>3
<1>10. NothingForgotten'
  BY <1>1, <1>5 DEF ELInv, NothingForgotten
<1>11. RedirectHasProxy'
  <2> SUFFICES ASSUME "redirect" \in alive', efaults' = 0 PROVE "proxy" \in alive'
    BY DEF RedirectHasProxy
  <2>1. "redirect" \in alive /\ "proxy" \in alive /\ efaults = 0
    BY <1>5 DEF ELInv, RedirectHasProxy
  <2>2. "redirect" \in fields
    BY <1>4, <2>1 DEF ELInv, NothingForgotten
  <2>3. r # "proxy"
    BY <1>1, <1>6, <2>2, DownOrder
  <2> QED BY <1>5, <2>1, <2>3
<1>12. ProxyFirst'
  BY <1>1, <1>4 DEF ELInv, ProxyFirst
<1>13. KillsAreFinished'
  <2>1. \A t \in Stoppers : spc[t] = "kill" => spc'[t] = "kill"
    BY <1>2, <1>3
  <2>2. UNCHANGED <<snap, box, killer>> /\ (efaults' = 0 => efaults = 0)
    BY <1>1, <1>5
  <2> QED BY <2>1, <2>2 DEF ELInv, KillsAreFinished
<1> QED BY <1>7, <1>8, <1>9, <1>10, <1>11, <1>12, <1>13 DEF ELInv

\* Every step of the engine, its clients and its stops keeps the invariant.
LEMMA ELStep == ELInv /\ [ELNext]_elvars => ELInv'
<1> SUFFICES ASSUME ELInv, [ELNext]_elvars PROVE ELInv'
  OBVIOUS
<1>1. CASE StartStage \/ StartRaises
  BY <1>1, StartStageInv, StartRaisesInv
<1>2. ASSUME NEW b \in EngineBoxes, LaunchBegins(b) \/ LeaseNetwork(b) \/ RegisterSandbox(b)
                                     \/ ClientKills(b) \/ ClientKillEnds(b)
      PROVE  ELInv'
  BY <1>2, ClientLaunchInv, ClientKillInv
<1>3. ASSUME NEW s \in Stoppers, StopBegins(s) \/ StopLocks(s) \/ StopReleases(s)
      PROVE  ELInv'
  BY <1>3, StopBeginsInv, StopLocksInv, StopReleasesInv
<1>4. ASSUME NEW s \in Stoppers, NEW b \in EngineBoxes, StopKills(s, b) \/ StopKillEnds(s, b)
      PROVE  ELInv'
  BY <1>4, StopLoopInv
<1>5. CASE UNCHANGED elvars
  BY <1>5 DEF elvars, engvars, ELInv, ELTypeOK, StartComesFirst, LockedRelease, NothingForgotten,
              ProxyFirst, RedirectHasProxy, KillsAreFinished
<1> QED BY <1>1, <1>2, <1>3, <1>4, <1>5 DEF ELNext

\* The inductive invariant of the engine's life.
THEOREM EngineInvariance == ELSpec => []ELInv
  BY ELInitInv, ELStep, PTL DEF ELSpec

\* However many threads call Engine.stop() while clients launch and kill: after
\* a stop in which nothing raised only a bridge made anew by a launch exists,
\* the rule never outlives its proxy, and a sandbox a stop kills is gone before
\* that stop releases anything.
THEOREM StopsAreOrderly == ELSpec => []StopIsOrderly
<1>1. ASSUME ELInv PROVE StopIsComplete
  BY <1>1 DEF ELInv, LockedRelease, NothingForgotten, StopIsComplete
<1>2. ASSUME ELInv PROVE KilledBeforeRelease
  BY <1>2 DEF ELInv, LockedRelease, KillsAreFinished, KilledBeforeRelease, Resources
<1>3. ELInv => StopIsOrderly
  BY <1>1, <1>2 DEF ELInv, StopIsOrderly
<1> QED BY <1>3, EngineInvariance, PTL

-----------------------------------------------------------------------------
(* The filesystem provider implements the store. *)

JobPc == {"idle", "reclaim", "aside", "back", "bind", "sweep", "wipe", "unlive", "clone", "mark"}
Contents == Bytes \cup {Gone}
BTypes == /\ sub \in [Boxes -> Contents] /\ csnap \in [Boxes -> [CkNames -> Contents]]
          /\ job \in [Boxes -> [pc : JobPc, from : Boxes \cup {Gone}, c : CkNames \cup {Gone}]]

\* A job in progress knows its checkpoint, and a clone its source; a destroy has
\* neither, nor has a sandbox at rest.
JobsAreNamed == \A b \in Boxes :
    /\ job[b].pc = "idle" => job[b] = NoJob
    /\ job[b].pc \in {"reclaim", "aside", "back"} => job[b].c \in CkNames
    /\ job[b].from # Gone => job[b].from \in Boxes /\ job[b].c \in CkNames
    /\ job[b].pc \in {"clone", "mark"} => job[b].from # Gone

\* A restore puts a tree only where it has taken one away, and a fork point is
\* taken of a tree that is there.
JobsFindTrees == \A b \in Boxes :
    /\ job[b].pc = "back" => sub[b] = Gone
    /\ job[b].pc = "mark" => sub[b] # Gone

BInv == BTypes /\ JobsAreNamed /\ JobsFindTrees

\* What the store sees of a step.
StoreSees == [Store!StoreNext]_<<sub, csnap>>

\* A job that moves on, with the tree it needs in the state it moves to.
LEMMA JobMoves ==
  ASSUME BInv, NEW b \in Boxes, NEW p \in JobPc, JobGo(b, p), p # "reclaim",
         p \in {"aside", "back"} => job[b].pc \in {"reclaim", "aside"},
         p \in {"clone", "mark"} => job[b].from # Gone,
         sub' \in [Boxes -> Contents], csnap' \in [Boxes -> [CkNames -> Contents]],
         \A a \in Boxes : a # b => sub'[a] = sub[a],
         p = "back" => sub'[b] = Gone, p = "mark" => sub'[b] # Gone
  PROVE  BInv'
<1> DEFINE J == [pc : JobPc, from : Boxes \cup {Gone}, c : CkNames \cup {Gone}]
<1>1. job' = [job EXCEPT ![b] = IF p = "idle" THEN NoJob ELSE [@ EXCEPT !.pc = p]]
  BY DEF JobGo
<1>2. job \in [Boxes -> J] /\ job[b] \in J
  BY DEF BInv, BTypes
<1>3. NoJob \in J /\ NoJob.pc = "idle" /\ NoJob.from = Gone
  BY DEF NoJob, JobPc
<1>4. [job[b] EXCEPT !.pc = p] \in J
  BY <1>2
<1>5. /\ job' \in [Boxes -> J] /\ \A a \in Boxes : a # b => job'[a] = job[a]
      /\ job'[b] = IF p = "idle" THEN NoJob ELSE [job[b] EXCEPT !.pc = p]
  BY <1>1, <1>2, <1>3, <1>4
<1>6. /\ p # "idle" => job'[b].pc = p /\ job'[b].from = job[b].from /\ job'[b].c = job[b].c
      /\ p = "idle" => job'[b] = NoJob
  BY <1>2, <1>5
<1>7. BTypes'
  BY <1>5 DEF BTypes
<1>8. JobsAreNamed'
  BY <1>3, <1>5, <1>6 DEF BInv, JobsAreNamed
<1>9. JobsFindTrees'
  BY <1>3, <1>5, <1>6 DEF BInv, JobsFindTrees
<1> QED BY <1>7, <1>8, <1>9 DEF BInv

\* No job moves, and only a sandbox at rest changes its tree.
LEMMA JobsStay ==
  ASSUME BInv, UNCHANGED job, sub' \in [Boxes -> Contents], csnap' \in [Boxes -> [CkNames -> Contents]],
         \A a \in Boxes : sub'[a] = sub[a] \/ Resting(a)
  PROVE  BInv'
  BY DEF BInv, BTypes, JobsAreNamed, JobsFindTrees, Resting

\* The sandbox writes, a checkpoint is taken or deleted.
LEMMA TreeSteps ==
  ASSUME BInv, NEW b \in Boxes,
         \/ \E x \in Bytes : WriteThrough(b, x)
         \/ \E c \in CkNames : SnapshotTree(b, c) \/ DeleteSnapshot(b, c)
  PROVE  BInv' /\ StoreSees
<1>1. ASSUME NEW x \in Bytes, WriteThrough(b, x) PROVE BInv' /\ StoreSees
  <2>1. Store!WriteTo(b)
    BY <1>1 DEF WriteThrough, Exists, Store!WriteTo
  <2>2. BInv'
    BY <1>1, JobsStay DEF WriteThrough, BInv, BTypes, Contents
  <2> QED BY <2>1, <2>2 DEF StoreSees, Store!StoreNext
<1>2. ASSUME NEW c \in CkNames, SnapshotTree(b, c) PROVE BInv' /\ StoreSees
  <2>1. Store!MarkTree(b, c)
    BY <1>2 DEF SnapshotTree, Exists, Store!MarkTree
  <2>2. BInv'
    BY <1>2, JobsStay DEF SnapshotTree, BInv, BTypes
  <2> QED BY <2>1, <2>2 DEF StoreSees, Store!StoreNext
<1>3. ASSUME NEW c \in CkNames, DeleteSnapshot(b, c) PROVE BInv' /\ StoreSees
  <2>1. Store!Forgets(b, c)
    BY <1>3 DEF DeleteSnapshot, Store!Forgets
  <2>2. BInv'
    BY <1>3, JobsStay DEF DeleteSnapshot, BInv, BTypes, Contents
  <2> QED BY <2>1, <2>2 DEF StoreSees, Store!StoreNext
<1> QED BY <1>1, <1>2, <1>3

\* A restore or a clone starts: the store sees nothing.
LEMMA JobBegins ==
  ASSUME BInv, NEW b \in Boxes, NEW a \in Boxes, NEW c \in CkNames, Resting(b), UNCHANGED <<sub, csnap>>,
         NEW p \in {"reclaim", "wipe"}, job' = [job EXCEPT ![b] = [pc |-> p, from |-> a, c |-> c]]
  PROVE  BInv' /\ StoreSees
<1>1. [pc |-> p, from |-> a, c |-> c] \in [pc : JobPc, from : Boxes \cup {Gone}, c : CkNames \cup {Gone}]
  BY DEF JobPc
<1>2. /\ job' \in [Boxes -> [pc : JobPc, from : Boxes \cup {Gone}, c : CkNames \cup {Gone}]]
      /\ job'[b].pc = p /\ job'[b].from = a /\ job'[b].c = c
      /\ \A d \in Boxes : d # b => job'[d] = job[d]
  BY <1>1 DEF BInv, BTypes
<1>3. BTypes'
  BY <1>2 DEF BInv, BTypes
<1>4. JobsAreNamed' /\ JobsFindTrees'
  BY <1>2 DEF BInv, JobsAreNamed, JobsFindTrees
<1> QED BY <1>3, <1>4 DEF BInv, StoreSees

\* The steps of a restore.
LEMMA RestoreSteps ==
  ASSUME BInv, NEW b \in Boxes, Reclaim(b) \/ SwapOut(b) \/ SnapBack(b) \/ Bind(b) \/ Sweep(b)
  PROVE  BInv' /\ StoreSees
<1> USE DEF JobPc
<1>1. CASE Reclaim(b)
  <2>1. JobGo(b, "aside") /\ job[b].pc = "reclaim" /\ UNCHANGED <<sub, csnap>>
    BY <1>1 DEF Reclaim
  <2> QED BY <2>1, JobMoves DEF BInv, BTypes, StoreSees
<1>2. CASE SwapOut(b)
  <2>1. job[b].pc = "aside" /\ UNCHANGED csnap
    BY <1>2 DEF SwapOut
  <2>2. CASE sub' = [sub EXCEPT ![b] = Gone] /\ JobGo(b, "back")
    <3>1. Store!TakeAway(b)
      BY <2>1, <2>2 DEF Store!TakeAway
    <3>2. sub' \in [Boxes -> Contents] /\ sub'[b] = Gone /\ \A a \in Boxes : a # b => sub'[a] = sub[a]
      BY <2>2 DEF BInv, BTypes, Contents
    <3>3. BInv'
      BY <2>1, <2>2, <3>2, JobMoves DEF BInv, BTypes
    <3> QED BY <3>1, <3>3 DEF StoreSees, Store!StoreNext
  <2>3. CASE UNCHANGED sub /\ sub[b] = Gone /\ JobGo(b, "back")
    BY <2>1, <2>3, JobMoves DEF BInv, BTypes, StoreSees
  <2>4. CASE UNCHANGED sub /\ JobGo(b, "idle")
    BY <2>1, <2>4, JobMoves DEF BInv, BTypes, StoreSees
  <2> QED BY <1>2, <2>2, <2>3, <2>4 DEF SwapOut, Exists
<1>3. CASE SnapBack(b)
  <2>1. job[b].pc = "back" /\ sub[b] = Gone /\ job[b].c \in CkNames /\ UNCHANGED csnap
    BY <1>3 DEF SnapBack, KeptBack, BInv, JobsAreNamed, JobsFindTrees
  <2>2. CASE csnap[b][job[b].c] # Gone /\ sub' = [sub EXCEPT ![b] = csnap[b][job[b].c]] /\ JobGo(b, "bind")
    <3>1. Store!PutBack(b, b, job[b].c)
      BY <2>1, <2>2 DEF Store!PutBack
    <3>2. sub' \in [Boxes -> Contents] /\ \A a \in Boxes : a # b => sub'[a] = sub[a]
      BY <2>1, <2>2 DEF BInv, BTypes
    <3>3. BInv'
      BY <2>1, <2>2, <3>2, JobMoves DEF BInv, BTypes
    <3> QED BY <2>1, <3>1, <3>3 DEF StoreSees, Store!StoreNext
  <2>3. CASE UNCHANGED sub /\ JobGo(b, "idle")
    BY <2>1, <2>3, JobMoves DEF BInv, BTypes, StoreSees
  <2> QED BY <1>3, <2>2, <2>3 DEF SnapBack
<1>4. CASE Bind(b) \/ Sweep(b)
  <2>1. UNCHANGED <<sub, csnap>> /\ (JobGo(b, "sweep") \/ JobGo(b, "idle"))
    BY <1>4 DEF Bind, Sweep
  <2> QED BY <2>1, JobMoves DEF BInv, BTypes, StoreSees
<1> QED BY <1>1, <1>2, <1>3, <1>4

\* The steps of a destroy and of a clone.
LEMMA CloneSteps ==
  ASSUME BInv, NEW b \in Boxes, DestroyBox(b) \/ Wipe(b) \/ Unlive(b) \/ CloneTree(b) \/ MarkForkPoint(b)
  PROVE  BInv' /\ StoreSees
<1> USE DEF JobPc
<1>1. CASE DestroyBox(b)
  <2>1. UNCHANGED <<sub, csnap>> /\ JobGo(b, "wipe")
    BY <1>1 DEF DestroyBox
  <2> QED BY <2>1, JobMoves DEF BInv, BTypes, StoreSees
<1>2. CASE Wipe(b)
  <2>1. ASSUME NEW c \in CkNames, csnap' = [csnap EXCEPT ![b][c] = Gone], UNCHANGED <<sub, job>>
        PROVE  BInv' /\ StoreSees
    <3>1. Store!Forgets(b, c)
      BY <2>1 DEF Store!Forgets
    <3>2. BInv'
      BY <2>1, JobsStay DEF BInv, BTypes, Contents
    <3> QED BY <3>1, <3>2 DEF StoreSees, Store!StoreNext
  <2>2. CASE UNCHANGED <<sub, csnap, job>>
    BY <2>2, JobsStay DEF BInv, BTypes, StoreSees
  <2>3. CASE UNCHANGED <<sub, csnap>> /\ JobGo(b, "unlive")
    BY <2>3, JobMoves DEF BInv, BTypes, StoreSees
  <2> QED BY <1>2, <2>1, <2>2, <2>3 DEF Wipe
<1>3. CASE Unlive(b)
  <2>1. UNCHANGED csnap /\ (JobGo(b, "idle") \/ (JobGo(b, "clone") /\ job[b].from # Gone))
    BY <1>3 DEF Unlive
  <2>2. CASE sub' = [sub EXCEPT ![b] = Gone]
    <3>1. Store!TakeAway(b)
      BY <2>1, <2>2 DEF Store!TakeAway
    <3>2. sub' \in [Boxes -> Contents] /\ \A a \in Boxes : a # b => sub'[a] = sub[a]
      BY <2>2 DEF BInv, BTypes, Contents
    <3>3. BInv'
      BY <2>1, <3>2, JobMoves DEF BInv, BTypes
    <3> QED BY <3>1, <3>3 DEF StoreSees, Store!StoreNext
  <2>3. CASE UNCHANGED sub
    BY <2>1, <2>3, JobMoves DEF BInv, BTypes, StoreSees
  <2> QED BY <1>3, <2>2, <2>3 DEF Unlive
<1>4. CASE CloneTree(b)
  <2> DEFINE a == job[b].from
             c == job[b].c
  <2>1. job[b].pc = "clone" /\ a \in Boxes /\ a # Gone /\ c \in CkNames /\ UNCHANGED csnap
    BY <1>4 DEF CloneTree, BInv, JobsAreNamed
  <2>2. CASE csnap[a][c] # Gone /\ sub' = [sub EXCEPT ![b] = IF @ = Gone THEN csnap[a][c] ELSE @] /\ JobGo(b, "mark")
    <3>1. /\ sub' \in [Boxes -> Contents] /\ sub'[b] # Gone
          /\ \A d \in Boxes : d # b => sub'[d] = sub[d]
      BY <2>1, <2>2 DEF BInv, BTypes
    <3>2. BInv'
      BY <2>1, <2>2, <3>1, JobMoves DEF BInv, BTypes
    <3>3. CASE sub[b] = Gone
      <4>1. Store!PutBack(b, a, c)
        BY <2>1, <2>2, <3>3 DEF Store!PutBack, BInv, BTypes
      <4> QED BY <2>1, <3>2, <4>1 DEF StoreSees, Store!StoreNext
    <3>4. CASE sub[b] # Gone
      <4>1. UNCHANGED sub
        BY <2>2, <3>4 DEF BInv, BTypes
      <4> QED BY <2>1, <3>2, <4>1 DEF StoreSees
    <3> QED BY <3>3, <3>4
  <2>3. CASE UNCHANGED sub /\ JobGo(b, "idle")
    BY <2>1, <2>3, JobMoves DEF BInv, BTypes, StoreSees
  <2> QED BY <1>4, <2>2, <2>3 DEF CloneTree
<1>5. CASE MarkForkPoint(b)
  <2>1. job[b].pc = "mark" /\ sub[b] # Gone /\ job[b].c \in CkNames /\ UNCHANGED sub
    BY <1>5 DEF MarkForkPoint, BInv, JobsAreNamed, JobsFindTrees
  <2>2. CASE csnap[b][job[b].c] = Gone /\ csnap' = [csnap EXCEPT ![b][job[b].c] = sub[b]] /\ JobGo(b, "bind")
    <3>1. Store!MarkTree(b, job[b].c)
      BY <2>1, <2>2 DEF Store!MarkTree
    <3>2. csnap' \in [Boxes -> [CkNames -> Contents]]
      BY <2>1, <2>2 DEF BInv, BTypes
    <3>3. BInv'
      BY <2>1, <2>2, <3>2, JobMoves DEF BInv, BTypes
    <3> QED BY <2>1, <3>1, <3>3 DEF StoreSees, Store!StoreNext
  <2>3. CASE UNCHANGED csnap /\ JobGo(b, "idle")
    BY <2>1, <2>3, JobMoves DEF BInv, BTypes, StoreSees
  <2> QED BY <1>5, <2>2, <2>3 DEF MarkForkPoint
<1> QED BY <1>1, <1>2, <1>3, <1>4, <1>5

\* One command of the provider.
LEMMA BStep ==
  ASSUME BInv, [BNext]_bvars
  PROVE  BInv' /\ StoreSees
<1>1. ASSUME NEW b \in Boxes, NEW c \in CkNames, RestoreBox(b, c) PROVE BInv' /\ StoreSees
  BY <1>1, JobBegins DEF RestoreBox
<1>2. ASSUME NEW b \in Boxes, NEW t \in Boxes, NEW c \in CkNames, CloneBox(b, t, c) PROVE BInv' /\ StoreSees
  BY <1>2, JobBegins DEF CloneBox
<1>3. ASSUME UNCHANGED <<sub, csnap, job>> PROVE BInv' /\ StoreSees
  BY <1>3, JobsStay DEF BInv, BTypes, StoreSees
<1>4. ASSUME NEW d \in Diffs,
             \/ \E b \in Boxes, c \in CkNames : SweepDiffs(d, b, c)
             \/ SnapDiff(d) \/ SendDiff(d) \/ EndDiff(d)
      PROVE  BInv' /\ StoreSees
  BY <1>3, <1>4 DEF SweepDiffs, SnapDiff, SendDiff, EndDiff
<1>5. CASE CrashBtrfs
  <2>1. UNCHANGED <<sub, csnap>> /\ job' = [b \in Boxes |-> NoJob]
    BY <1>5 DEF CrashBtrfs
  <2>2. BTypes'
    BY <2>1 DEF BInv, BTypes, NoJob, JobPc
  <2>3. JobsAreNamed' /\ JobsFindTrees'
    BY <2>1 DEF JobsAreNamed, JobsFindTrees, NoJob
  <2> QED BY <2>1, <2>2, <2>3 DEF BInv, StoreSees
<1>6. CASE UNCHANGED bvars
  BY <1>3, <1>6 DEF bvars
<1> QED BY <1>1, <1>2, <1>4, <1>5, <1>6, TreeSteps, RestoreSteps, CloneSteps DEF BNext

\* The first tree is a tree of the store.
LEMMA BInitInv == BInit => BInv /\ Store!StoreInit
<1> SUFFICES ASSUME BInit PROVE BInv /\ Store!StoreInit
  OBVIOUS
<1>1. sub \in [Boxes -> Contents]
  BY DEF BInit, Contents
<1>2. csnap = [a \in Boxes |-> [c \in CkNames |-> Gone]] /\ job = [a \in Boxes |-> NoJob]
  BY DEF BInit
<1>3. BTypes
  BY <1>1, <1>2 DEF BTypes, NoJob, JobPc, Contents
<1>4. JobsAreNamed /\ JobsFindTrees
  BY <1>2 DEF JobsAreNamed, JobsFindTrees, NoJob
<1> QED BY <1>1, <1>2, <1>3, <1>4 DEF BInv, Contents, Store!StoreInit

\* Restores, forks and destroys, failing or dying at any command and overlapping
\* changesets, implement the store for any set of sandboxes and checkpoints.
THEOREM ProviderImplementsStore == BSpec => StoreRefined
<1>1. BInit => BInv /\ Store!StoreInit
  BY BInitInv
<1>2. BInv /\ [BNext]_bvars => BInv' /\ [Store!StoreNext]_<<sub, csnap>>
  BY BStep DEF StoreSees
<1> QED BY <1>1, <1>2, PTL DEF BSpec, StoreRefined, Store!StoreSpec
=============================================================================
