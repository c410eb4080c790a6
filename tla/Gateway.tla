------------------------------- MODULE Gateway ------------------------------
(***************************************************************************)
(* The multi-tenant gateway (crab/gateway/server.py, registry.py) in front *)
(* of one daemon: the sandbox rows of one tenant, written in two phases    *)
(* around the daemon's create, and the passes that bring the rows back in  *)
(* line with what the daemon lists after either process restarts.          *)
(*                                                                         *)
(* A create or fork request, the row of its intent and the sandbox it      *)
(* leads to have one name, so completing a create rekeys nothing here.     *)
(* The gateway's threads die with it; a call the daemon has accepted runs  *)
(* on.                                                                     *)
(***************************************************************************)
EXTENDS Naturals, FiniteSets

CONSTANTS Creates,   \* POST /sandboxes requests of the tenant
          Existing,  \* those that were served before
          Forks,     \* POST /sandboxes/{id}/fork requests, one child each
          MaxRows,   \* the tenant's max_sandboxes
          MaxBoots,  \* bound: daemon restarts
          MaxCrashes \* bound: gateway crashes

Boxes == Creates \cup Forks

ASSUME GatewayAssumption == /\ Creates \cap Forks = {} /\ IsFiniteSet(Boxes)
                            /\ Existing \subseteq Creates
                            /\ MaxRows \in Nat /\ MaxBoots \in Nat /\ MaxCrashes \in Nat

VARIABLES rows,       \* registry: the status of each sandbox's row
          storedBoot, \* registry: meta daemon_boot_id
          gstate,     \* the gateway process
          gpc,        \* its thread for each create or fork
          kpc,        \* its thread killing each sandbox
          ppc,        \* its periodic reconcile
          snap,       \* the listing a reconcile pass holds
          seenBoot,   \* the boot identity the startup pass read
          call,       \* each create or fork as the daemon sees it
          listed,     \* sandboxes the daemon lists
          boot,       \* the daemon's boot identity
          crashes,    \* gateway crashes so far
          late        \* history: creates the daemon was still running when a
                      \* startup pass took its listing

regVars == <<rows, storedBoot>>
procVars == <<gstate, gpc, kpc, ppc, snap, seenBoot, crashes>>
daemonVars == <<call, listed, boot>>
gvars == <<regVars, procVars, daemonVars, late>>

GInit == /\ rows = [b \in Boxes |-> IF b \in Existing THEN "active" ELSE "none"]
         /\ gpc = [b \in Boxes |-> IF b \in Existing THEN "done" ELSE "new"]
         /\ storedBoot = 1 /\ boot = 1 /\ gstate = "up"
         /\ kpc = [b \in Boxes |-> "none"] /\ ppc = "idle" /\ snap = {}
         /\ seenBoot = 1
         /\ call = [b \in Boxes |-> "none"] /\ listed = Existing
         /\ crashes = 0 /\ late = {}

Row(b, status) == rows' = [rows EXCEPT ![b] = status]
GGoto(b, from, to) == gpc[b] = from /\ gpc' = [gpc EXCEPT ![b] = to]
KGoto(b, from, to) == kpc[b] = from /\ kpc' = [kpc EXCEPT ![b] = to]

\* Mutant: a create in flight does not count.
HasCapacityActive == Cardinality({b \in Boxes : rows[b] = "active"}) < MaxRows

\* _check_capacity_locked: pending rows count, so creates in flight do.
HasCapacity == Cardinality({b \in Boxes : rows[b] \in {"pending", "active"}}) < MaxRows

-----------------------------------------------------------------------------
(* launch_sandbox *)

\* begin_create, under BEGIN IMMEDIATE: the quota check and the intent row.
BeginCreate(b) ==
    /\ b \in Creates /\ gstate = "up"
    /\ \/ HasCapacity /\ Row(b, "pending") /\ GGoto(b, "new", "proxy")
       \/ ~HasCapacity /\ GGoto(b, "new", "refused") /\ UNCHANGED rows
    /\ UNCHANGED <<storedBoot, gstate, kpc, ppc, snap, seenBoot, crashes, daemonVars, late>>

\* The daemon takes the call, or cannot be reached: then the intent is reaped.
SendCall(b) ==
    /\ \/ /\ GGoto(b, "proxy", "wait") /\ call' = [call EXCEPT ![b] = "running"]
          /\ UNCHANGED rows
       \/ /\ GGoto(b, "proxy", "failed") /\ UNCHANGED call
          /\ IF b \in Creates THEN Row(b, "none") ELSE UNCHANGED rows
    /\ UNCHANGED <<storedBoot, gstate, kpc, ppc, snap, seenBoot, crashes, listed, boot, late>>

\* The answer arrives: created, or a daemon error, which reaps the intent.
\* Or the call times out or its connection breaks: the row stays pending.
ReceiveCall(b) ==
    /\ \/ /\ call[b] = "created" /\ UNCHANGED rows
          /\ GGoto(b, "wait", "created")
       \/ /\ call[b] = "failed" /\ GGoto(b, "wait", "failed")
          /\ IF b \in Creates THEN Row(b, "none") ELSE UNCHANGED rows
       \/ /\ call[b] \in {"running", "created", "broken"} /\ GGoto(b, "wait", "unknown")
          /\ UNCHANGED rows
    /\ UNCHANGED <<storedBoot, gstate, kpc, ppc, snap, seenBoot, crashes, daemonVars, late>>

\* complete_create flips the pending row; fork_sandbox inserts the child's.
CompleteCreate(b) ==
    /\ GGoto(b, "created", "done")
    /\ IF b \in Forks \/ rows[b] = "pending" THEN Row(b, "active") ELSE UNCHANGED rows
    /\ UNCHANGED <<storedBoot, gstate, kpc, ppc, snap, seenBoot, crashes, daemonVars, late>>

\* fork_sandbox: an owned source, and a capacity check that inserts nothing.
BeginFork(b) ==
    /\ b \in Forks /\ gstate = "up" /\ \E s \in Boxes : rows[s] = "active"
    /\ \/ HasCapacity /\ GGoto(b, "new", "proxy")
       \/ ~HasCapacity /\ GGoto(b, "new", "refused")
    /\ UNCHANGED <<regVars, gstate, kpc, ppc, snap, seenBoot, crashes, daemonVars, late>>

-----------------------------------------------------------------------------
(* kill_sandbox *)

\* require_owned, then the DELETE: the daemon deletes it and says so, or the
\* call fails, whether or not the deletion took place.  (Ports: GatewayPorts.)
KillCall(b) ==
    /\ gstate = "up" /\ rows[b] = "active"
    /\ \/ KGoto(b, "none", "status") /\ listed' = listed \ {b}
       \/ kpc[b] = "none" /\ listed' \in {listed, listed \ {b}} /\ UNCHANGED kpc
    /\ UNCHANGED <<regVars, gstate, gpc, ppc, snap, seenBoot, crashes, call, boot, late>>

SetKilled(b) == /\ KGoto(b, "status", "done") /\ Row(b, "killed")
                /\ UNCHANGED <<storedBoot, gstate, gpc, ppc, snap, seenBoot, crashes, daemonVars, late>>

-----------------------------------------------------------------------------
(* The periodic pass: a listing, then mark_missing_lost. *)

MarkMissing(present, rs) ==
    [b \in Boxes |-> IF rs[b] = "active" /\ b \notin present THEN "lost" ELSE rs[b]]

PeriodicList == /\ gstate = "up" /\ ppc = "idle"
                /\ ppc' = "listed" /\ snap' = listed
                /\ UNCHANGED <<regVars, gstate, gpc, kpc, seenBoot, crashes, daemonVars, late>>
PeriodicApply == /\ gstate = "up" /\ ppc = "listed"
                 /\ ppc' = "idle" /\ snap' = {} /\ rows' = MarkMissing(snap, rows)
                 /\ UNCHANGED <<storedBoot, gstate, gpc, kpc, seenBoot, crashes, daemonVars, late>>

-----------------------------------------------------------------------------
(* A crash, and the startup pass that runs before requests are served. *)

Crash == /\ gstate # "down" /\ crashes < MaxCrashes
         /\ gstate' = "down" /\ crashes' = crashes + 1
         /\ gpc' = [b \in Boxes |-> IF gpc[b] = "new" THEN "new" ELSE "dead"]
         /\ kpc' = [b \in Boxes |-> IF kpc[b] = "done" THEN "done" ELSE "none"]
         /\ ppc' = "idle" /\ snap' = {}
         /\ UNCHANGED <<regVars, seenBoot, daemonVars, late>>

\* reconcile, step 1: another boot identity loses every active row.
ReconcileBoot ==
    /\ gstate = "down" /\ gstate' = "listing"
    /\ rows' = IF storedBoot = boot THEN rows
               ELSE [b \in Boxes |-> IF rows[b] = "active" THEN "lost" ELSE rows[b]]
    /\ seenBoot' = boot
    /\ UNCHANGED <<storedBoot, gpc, kpc, ppc, snap, crashes, daemonVars, late>>

\* reconcile, step 2: the listing, with the intents it carries.
ReconcileList ==
    /\ gstate = "listing" /\ gstate' = "matching" /\ snap' = listed
    /\ late' = late \cup {b \in Creates : call[b] = "running"}
    /\ UNCHANGED <<regVars, gpc, kpc, ppc, seenBoot, crashes, daemonVars>>

\* reconcile, step 3: pending rows become active or are reaped, then active
\* rows that are not listed are lost, then the boot identity is stored.
MatchPending(present, rs) ==
    [b \in Boxes |-> IF rs[b] # "pending" THEN rs[b]
                     ELSE IF b \in present THEN "active" ELSE "none"]
ReconcileApply ==
    /\ gstate = "matching" /\ gstate' = "up" /\ snap' = {}
    /\ rows' = MarkMissing(snap, MatchPending(snap, rows)) /\ storedBoot' = seenBoot
    /\ UNCHANGED <<gpc, kpc, ppc, seenBoot, crashes, daemonVars, late>>

-----------------------------------------------------------------------------
(* The daemon *)

DaemonCreates(b) ==
    /\ call[b] = "running"
    /\ \/ call' = [call EXCEPT ![b] = "created"] /\ listed' = listed \cup {b}
       \/ call' = [call EXCEPT ![b] = "failed"] /\ UNCHANGED listed
    /\ UNCHANGED <<regVars, procVars, boot, late>>

\* A new daemon lists nothing and answers none of the old one's calls.
DaemonRestart ==
    /\ boot < MaxBoots /\ boot' = boot + 1 /\ listed' = {}
    /\ call' = [b \in Boxes |-> IF call[b] = "none" THEN "none" ELSE "broken"]
    /\ UNCHANGED <<regVars, procVars, late>>

GNext == \/ \E b \in Boxes : \/ BeginCreate(b) \/ BeginFork(b) \/ SendCall(b)
                             \/ ReceiveCall(b) \/ CompleteCreate(b) \/ DaemonCreates(b)
                             \/ KillCall(b) \/ SetKilled(b)
         \/ PeriodicList \/ PeriodicApply
         \/ Crash \/ ReconcileBoot \/ ReconcileList \/ ReconcileApply
         \/ DaemonRestart

GSpec == GInit /\ [][GNext]_gvars

-----------------------------------------------------------------------------
GTypeOK == /\ rows \in [Boxes -> {"none", "pending", "active", "killed", "lost"}]
           /\ gstate \in {"up", "down", "listing", "matching"}
           /\ gpc \in [Boxes -> {"new", "proxy", "wait", "created", "done", "failed",
                                 "refused", "unknown", "dead"}]
           /\ call \in [Boxes -> {"none", "running", "created", "failed", "broken"}]
           /\ listed \subseteq Boxes /\ late \subseteq Creates

\* begin_create serialises its check with its insert, so creates alone never
\* take the tenant over its quota, in flight ones and those whose outcome is
\* unknown included.  (Forks are registered after the fact and may.)
QuotaCountsCreates ==
    Cardinality({b \in Creates : rows[b] \in {"pending", "active"}}) <= MaxRows

\* A sandbox that a create led to is never lost track of, whichever of the
\* two processes failed when: the daemon lists it only while its row is
\* there, except when the daemon was still creating it as a startup pass
\* took its listing.
CreateTracked == \A b \in Creates : b \in listed /\ b \notin late => rows[b] # "none"

\* "The next startup reconciliation pass resolves it either way": once the
\* gateway serves again, no row of an earlier incarnation is still pending.
PendingResolved == gstate = "up" => \A b \in Boxes : gpc[b] = "dead" => rows[b] # "pending"

\* "mark vanished sandboxes as lost": a sandbox whose row is lost, and whose
\* routes answer 410 for good, is gone from the daemon.
LostIsGone == \A b \in Boxes : rows[b] = "lost" => b \notin listed

-----------------------------------------------------------------------------
(***************************************************************************)
(* The host ports the gateway forwards into one sandbox: the rows of       *)
(* port_allocations (registry.py) and the listening forwarders (ports.py), *)
(* kept in step by expose_port, release_port, the kill cascade and the     *)
(* rehydration after a gateway restart (server.py).  Each handler writes   *)
(* the two in separate steps.                                              *)
(***************************************************************************)

CONSTANTS HostPorts,  \* the port range
          GuestPorts,
          Exposers,   \* expose_port requests
          Releasers,  \* release_port requests
          MaxPorts,   \* _MAX_PORTS_PER_TENANT
          MaxStarts   \* bound: gateway restarts

NoPort == 0
ASSUME PortsAssumption == NoPort \notin HostPorts \cup GuestPorts /\ MaxPorts \in Nat

VARIABLES prow,   \* the guest port each host port's row names
          fwd,    \* host ports a forwarder listens on
          pstat,  \* the sandbox's row
          pup,    \* whether the gateway serves
          xport,  \* what each expose_port is at: <<step, guest, host>>
          rport,  \* what each release_port is at: <<step, host>>
          kport,  \* the kill cascade: <<step, host ports>>
          starts

pvars == <<prow, fwd, pstat, pup, xport, rport, kport, starts>>

PInit == /\ prow = [h \in HostPorts |-> NoPort] /\ fwd = {} /\ pstat = "active" /\ pup = TRUE
         /\ xport = [t \in Exposers |-> <<"new", NoPort, NoPort>>]
         /\ rport = [t \in Releasers |-> <<"new", NoPort>>]
         /\ kport = <<"new", {}>> /\ starts = 0

Allocated == {h \in HostPorts : prow[h] # NoPort}
RowsOf(g) == {h \in HostPorts : prow[h] = g}
Without(hs) == [h \in HostPorts |-> IF h \in hs THEN NoPort ELSE prow[h]]

\* expose_port: ownership and the count, some calls before the allocation.
CheckExpose(t) == /\ pup /\ pstat = "active" /\ xport[t][1] = "new"
                  /\ Cardinality(Allocated) < MaxPorts
                  /\ \E g \in GuestPorts :
                        xport' = [xport EXCEPT ![t] = <<"allocate", g, NoPort>>]
                  /\ UNCHANGED <<prow, fwd, pstat, pup, rport, kport, starts>>

\* PortManager.allocate: a port that nothing listens on.
AllocatePort(t) == /\ pup /\ xport[t][1] = "allocate"
                   /\ \E h \in HostPorts \ fwd :
                         /\ fwd' = fwd \cup {h}
                         /\ xport' = [xport EXCEPT ![t] = <<"record", xport[t][2], h>>]
                   /\ UNCHANGED <<prow, pstat, pup, rport, kport, starts>>

\* registry.allocate_port
RecordPort(t) == /\ pup /\ xport[t][1] = "record"
                 /\ prow' = [prow EXCEPT ![xport[t][3]] = xport[t][2]]
                 /\ xport' = [xport EXCEPT ![t][1] = "done"]
                 /\ UNCHANGED <<fwd, pstat, pup, rport, kport, starts>>

\* release_port: every row of the guest port goes, one of their host ports is
\* returned, and only that one's forwarder is stopped.
ReleaseRow(t) == /\ pup /\ pstat = "active" /\ rport[t][1] = "new"
                 /\ \E g \in GuestPorts : \E h \in RowsOf(g) :
                       /\ prow' = Without(RowsOf(g))
                       /\ rport' = [rport EXCEPT ![t] = <<"stop", h>>]
                 /\ UNCHANGED <<fwd, pstat, pup, xport, kport, starts>>
ReleaseForwarder(t) == /\ pup /\ rport[t][1] = "stop" /\ fwd' = fwd \ {rport[t][2]}
                       /\ rport' = [rport EXCEPT ![t][1] = "done"]
                       /\ UNCHANGED <<prow, pstat, pup, xport, kport, starts>>

\* kill_sandbox, and a periodic pass that loses the sandbox: all rows, then
\* their forwarders, then (for the kill) the status; a kill whose DELETE
\* fails leaves the sandbox active without its ports.
ReleaseAllRows == /\ pup /\ pstat = "active" /\ kport[1] = "new"
                  /\ prow' = Without(HostPorts) /\ kport' = <<"stop", Allocated>>
                  /\ pstat' \in {"active", "lost"}
                  /\ UNCHANGED <<fwd, pup, xport, rport, starts>>
ReleaseAllForwarders == /\ pup /\ kport[1] = "stop" /\ fwd' = fwd \ kport[2]
                        /\ kport' = <<"status", {}>>
                        /\ UNCHANGED <<prow, pstat, pup, xport, rport, starts>>
SetPortsKilled == /\ pup /\ kport[1] = "status"
                  /\ \/ pstat = "active" /\ pstat' = "killed" /\ kport' = <<"done", {}>>
                     \/ kport' = <<"new", {}>> /\ UNCHANGED pstat
                  /\ UNCHANGED <<prow, fwd, pup, xport, rport, starts>>

\* The process ends, its forwarders and threads with it.
PortsCrash == /\ starts < MaxStarts /\ pup /\ pup' = FALSE /\ fwd' = {}
              /\ xport' = [t \in Exposers |-> IF xport[t][1] = "new" THEN xport[t]
                                              ELSE <<"done", NoPort, NoPort>>]
              /\ rport' = [t \in Releasers |-> IF rport[t][1] = "new" THEN rport[t]
                                               ELSE <<"done", NoPort>>]
              /\ kport' = <<"new", {}>>
              /\ starts' = starts + 1 /\ UNCHANGED <<prow, pstat>>

\* _rehydrate_ports: each allocation of the listing is bound again, or, when
\* its port is taken or its target unsafe, released by its guest port.  Then
\* the gateway serves.
RehydrateOne(h) == /\ ~pup /\ h \in Allocated \ fwd
                   /\ \/ pstat = "active" /\ fwd' = fwd \cup {h} /\ UNCHANGED prow
                      \/ prow' = Without(RowsOf(prow[h])) /\ UNCHANGED fwd
                   /\ UNCHANGED <<pstat, pup, xport, rport, kport, starts>>
ServeAgain == /\ ~pup /\ Allocated \subseteq fwd /\ pup' = TRUE
              /\ UNCHANGED <<prow, fwd, pstat, xport, rport, kport, starts>>

PNext == \/ \E t \in Exposers : CheckExpose(t) \/ AllocatePort(t) \/ RecordPort(t)
         \/ \E t \in Releasers : ReleaseRow(t) \/ ReleaseForwarder(t)
         \/ ReleaseAllRows \/ ReleaseAllForwarders \/ SetPortsKilled
         \/ PortsCrash \/ (\E h \in HostPorts : RehydrateOne(h)) \/ ServeAgain

PSpec == PInit /\ [][PNext]_pvars

-----------------------------------------------------------------------------
\* While the gateway serves, every allocation a tenant can list is forwarded:
\* no order of exposures, releases, kills and restarts leaves a row whose
\* port nothing listens on.
RowHasForwarder == pup => Allocated \subseteq fwd

\* "release on kill" (ports.py): once the sandbox is killed, no port leads to
\* its address.
KilledHasNoForwarders == pstat = "killed" => fwd = {}

\* The rows of the gateway's store agree with what runs: a tenant's quota
\* counts its creates, a create that led to a sandbox has a row, a row an earlier
\* incarnation left pending is resolved, and an allocated port is forwarded.
RowsAreSound == GTypeOK /\ QuotaCountsCreates /\ CreateTracked /\ PendingResolved /\ RowHasForwarder
=============================================================================
