----------------------------- MODULE MCInspector -----------------------------
(***************************************************************************)
(* The host inspector and its client, five instances one of which (part) a *)
(* behaviour is about: the event pipe, the dirty entries, the registry,    *)
(* the process tracking, and the engine's view of it all.                  *)
(***************************************************************************)
EXTENDS FsEvents, HostRegistry, TLC

CONSTANTS q1, q2
Sym == Permutations({q1, q2})

VARIABLE part
inspectorvars == <<part, evars, dsvars, hrvars, ptvars, rivars>>

InspectorInit ==
    /\ part \in {"events", "dirty", "registry", "processes", "remote"}
    /\ EInit
    /\ part # "dirty" => fs = [p \in FPaths |-> NoFile]
    /\ DsInit /\ HrInit /\ PtInit
    /\ IF part = "remote" THEN seeded \in BOOLEAN ELSE seeded = FALSE
    /\ RiInit

InspectorNext ==
    /\ UNCHANGED part
    /\ \/ part = "events" /\ ENext /\ UNCHANGED <<dsvars, hrvars, ptvars, rivars>>
       \/ part = "dirty" /\ DsNext /\ UNCHANGED <<evars, hrvars, ptvars, rivars>>
       \/ part = "registry" /\ HrNext /\ UNCHANGED <<evars, dsvars, ptvars, rivars>>
       \/ part = "processes" /\ PtNext /\ UNCHANGED <<evars, dsvars, hrvars, rivars>>
       \/ part = "remote" /\ RiNext /\ UNCHANGED <<evars, dsvars, hrvars, ptvars>>

InspectorSpec == InspectorInit /\ [][InspectorNext]_inspectorvars

-----------------------------------------------------------------------------
(* What the inspector says is true: a status that finds the processes      *)
(* unchanged missed nothing since the last reset and one that finds them   *)
(* changed has a cause; an inspection the host answered reports every      *)
(* change that no checkpoint holds, and any inspection what the snapshot   *)
(* still owes.                                                             *)
ReportsAreTrue == UnchangedIsTrue /\ ChangeHasCause /\ ChangeIsRead /\ OwedIsReported

(* The kernel helper watches and filters what the daemon's records say.    *)
RegistryIsSound == WatchMatchesRecord /\ IgnoredIsFiltered

(* A checkpoint that trusts the inspector misses nothing: its reports are  *)
(* true, and the registrations they are made from hold.                    *)
InspectorIsTrue == ReportsAreTrue /\ RegistryIsSound
==============================================================================
