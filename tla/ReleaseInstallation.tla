-------------------------- MODULE ReleaseInstallation --------------------------
(***************************************************************************)
(* quality/manage-release-installation.sh: releases that are installed side   *)
(* by side, one of them named active by activation.json and by the symlink    *)
(* current.  Commands exclude each other by .install.lock and may be killed    *)
(* between any two steps.                                                      *)
(*                                                                          *)
(* Only kills are modelled: the files of a release are copied without a sync,  *)
(* so nothing is said about power failures.                                    *)
(***************************************************************************)
EXTENDS Naturals

CONSTANTS Releases, None, MaxRevision, MaxKills

VARIABLES
    authority,    \* installation.json is there
    activation,   \* activation.json: active, previous, revision
    current,      \* the release the symlink names
    store,        \* releases/<id>
    stage,        \* releases/.stage.*: a directory is there
    command,      \* the one that holds the lock: what it read, and its next step
    kills

\* activation.json, and what a command has read of its arguments.
Activations == [active : Releases \union {None}, previous : Releases \union {None},
                revision : 0 .. MaxRevision]

Commands == [name : {"install", "activate", "rollback", "uninstall"},
             release : Releases \union {None},
             step : {"initialize", "inactive", "clean", "stage", "publish", "leave",
                     "repair", "activate", "rollback", "uninstall", "point", "remove"}]

\* None stands for no value of any of these kinds.
ReleasesAssumption ==
    /\ MaxRevision \in Nat
    /\ None \notin Releases \union Activations \union Commands

Inactive == [active |-> None, previous |-> None, revision |-> 0]

ReleasesInit ==
    /\ authority = FALSE /\ activation = None /\ current = None
    /\ store = [r \in Releases |-> "absent"]
    /\ stage = FALSE /\ command = None /\ kills = 0

At(step) == command # None /\ command.step = step

Goto(step) == command' = [command EXCEPT !.step = step]

Exit == command' = None

-----------------------------------------------------------------------------
(* install. *)

StartInstall(r) ==
    /\ command = None
    /\ command' = [name |-> "install", release |-> r, step |-> "initialize"]
    /\ UNCHANGED <<authority, activation, current, store, stage, kills>>

WriteAuthority ==
    /\ At("initialize")
    /\ authority' = TRUE
    /\ Goto("inactive")
    /\ UNCHANGED <<activation, current, store, stage, kills>>

\* What an earlier command that was killed has staged is removed.
WriteInactive ==
    /\ At("inactive")
    /\ activation' = IF activation = None THEN Inactive ELSE activation
    /\ Goto("clean")
    /\ UNCHANGED <<authority, current, store, stage, kills>>

CleanStages ==
    /\ At("clean")
    /\ stage' = FALSE
    /\ IF store[command.release] = "absent" THEN Goto("stage") ELSE Exit
    /\ UNCHANGED <<authority, activation, current, store, kills>>

CopyRelease ==
    /\ At("stage")
    /\ stage' = TRUE
    /\ Goto("publish")
    /\ UNCHANGED <<authority, activation, current, store, kills>>

\* A verified copy is renamed to its place, and its stage removed.
PublishRelease ==
    /\ At("publish")
    /\ store' = [store EXCEPT ![command.release] = "whole"]
    /\ Goto("leave")
    /\ UNCHANGED <<authority, activation, current, stage, kills>>

LeaveStage ==
    /\ At("leave")
    /\ stage' = FALSE
    /\ Exit
    /\ UNCHANGED <<authority, activation, current, store, kills>>

-----------------------------------------------------------------------------
(* activate, rollback and uninstall. *)

\* Both authorities are read under the lock.
StartChange(name, r) ==
    /\ command = None
    /\ authority /\ activation # None
    /\ command' = [name |-> name, release |-> r, step |-> "repair"]
    /\ UNCHANGED <<authority, activation, current, store, stage, kills>>

RepairLater == At("repair") /\ Goto(command.name)
                 /\ UNCHANGED <<authority, activation, current, store, stage, kills>>

\* Nothing is done before the symlink names what is active: an earlier command
\* may have been killed between the two.
RepairCurrent ==
    /\ At("repair")
    /\ IF activation.active # None /\ store[activation.active] = "absent"
       THEN UNCHANGED current /\ Exit
       ELSE current' = activation.active /\ Goto(command.name)
    /\ UNCHANGED <<authority, activation, store, stage, kills>>

Activated(r) ==
    [active |-> r, previous |-> activation.active, revision |-> activation.revision + 1]

\* check_release_dir verifies what is activated; the active release stays.
Activate ==
    /\ At("activate")
    /\ activation.revision < MaxRevision
    /\ IF store[command.release] = "whole" /\ command.release # activation.active
       THEN activation' = Activated(command.release) /\ Goto("point")
       ELSE UNCHANGED activation /\ Exit
    /\ UNCHANGED <<authority, current, store, stage, kills>>

RollBack ==
    /\ At("rollback")
    /\ activation.revision < MaxRevision
    /\ IF activation.previous # None /\ store[activation.previous] = "whole"
       THEN activation' = Activated(activation.previous) /\ Goto("point")
       ELSE UNCHANGED activation /\ Exit
    /\ UNCHANGED <<authority, current, store, stage, kills>>

PointCurrent ==
    /\ At("point")
    /\ current' = activation.active
    /\ Exit
    /\ UNCHANGED <<authority, activation, store, stage, kills>>

\* The way back is given up before the files are.
Uninstall ==
    /\ At("uninstall")
    /\ activation.revision < MaxRevision
    /\ LET r == command.release
       IN  IF r = activation.active \/ store[r] = "absent"
           THEN UNCHANGED activation /\ Exit
           ELSE /\ activation' =
                       IF r = activation.previous
                       THEN [activation EXCEPT !.previous = None, !.revision = @ + 1]
                       ELSE activation
                /\ Goto("remove")
    /\ UNCHANGED <<authority, current, store, stage, kills>>

\* rm -rf takes file after file.
RemoveRelease ==
    /\ At("remove")
    /\ IF store[command.release] = "whole"
       THEN store' = [store EXCEPT ![command.release] = "partial"] /\ UNCHANGED command
       ELSE store' = [store EXCEPT ![command.release] = "absent"] /\ Exit
    /\ UNCHANGED <<authority, activation, current, stage, kills>>

\* The kernel releases the lock, nothing else is undone.
Kill ==
    /\ command # None
    /\ kills < MaxKills
    /\ kills' = kills + 1
    /\ Exit
    /\ UNCHANGED <<authority, activation, current, store, stage>>

ReleasesNext ==
    \/ \E r \in Releases :
           StartInstall(r) \/ StartChange("activate", r) \/ StartChange("uninstall", r)
    \/ StartChange("rollback", None)
    \/ WriteAuthority \/ WriteInactive \/ CleanStages \/ CopyRelease \/ PublishRelease
    \/ LeaveStage \/ RepairCurrent \/ Activate \/ RollBack \/ PointCurrent \/ Uninstall
    \/ RemoveRelease \/ Kill

-----------------------------------------------------------------------------
ReleasesTypeOK ==
    /\ authority \in BOOLEAN /\ stage \in BOOLEAN
    /\ activation \in Activations \union {None}
    /\ command \in Commands \union {None}
    /\ current \in Releases \union {None}
    /\ store \in [Releases -> {"absent", "whole", "partial"}]

\* Whatever was killed where: what is active, the way back from it and what the
\* symlink names are whole releases, the symlink is at most one activation
\* behind, and load_activation accepts the record.
AlwaysRunnable ==
    /\ activation # None =>
           /\ \A r \in {activation.active, activation.previous} \ {None} : store[r] = "whole"
           /\ current \in {activation.active, activation.previous, None}
           /\ IF activation.active = None THEN activation = Inactive
              ELSE activation.revision > 0 /\ activation.previous # activation.active
    /\ current # None => store[current] = "whole"
=============================================================================
