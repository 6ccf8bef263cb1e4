----------------------------- MODULE LoginSwitch -----------------------------
(***************************************************************************)
(* scripts/login/manage.py: installs releases of Akari, selects it as the  *)
(* login service of the next boot, goes back to the previous release, and  *)
(* removes it.                                                             *)
(*                                                                         *)
(* Commands are serial, because each holds an exclusive lock on one file.  *)
(* What is left to interleave is what the file system and systemd look     *)
(* like when a command stops half way: a call may fail, which raises an    *)
(* exception, and the process or the machine may stop at any point.  The   *)
(* unit and the configuration are written in place, in two steps, and are  *)
(* torn in between; links, JSON, PAM and the controller are replaced by    *)
(* renaming, in one step.  `disk` is what survives, `local` what the       *)
(* process knows.  A command that is refused changes nothing and is not a  *)
(* step.                                                                   *)
(***************************************************************************)
EXTENDS Naturals, FiniteSets

CONSTANTS
  DisplayManagers,   \* the other login services of the host
  Aliased,           \* those whose unit is enabled by the display-manager link
  Wanted,            \* those whose unit is enabled by a target's wants
  Akari, None,
  Torn,              \* the unit file while, or after, writing it has been cut short
  Releases,          \* names of release directories; bounds the releases kept
  MaxEdits           \* bounds the administrator's edits of the PAM policy

\* Files of /etc/akari in the order of their copies; the layout is an option.
Order == [greetd |-> 1, sway |-> 2, layout |-> 3]
ConfigFiles == DOMAIN Order
Required == {"greetd", "sway"}

IsFirst(file, set) == file \in set /\ \A f \in set : Order[file] <= Order[f]

ASSUME UnitsAssumption ==
  /\ Aliased \cup Wanted \subseteq DisplayManagers
  /\ Aliased \cap Wanted = {}
  /\ Akari \notin DisplayManagers
  /\ None \notin DisplayManagers \cup Releases \cup ConfigFiles \cup {Akari}
  /\ Torn \notin Releases \cup {None}

ASSUME EditsAssumption == MaxEdits \in Nat

VARIABLES
  disk,       \* files and links, see Disks
  pc,         \* the next call of the running command, or "idle"
  op,         \* the running command
  local,      \* what the running command knows
  running,    \* Akari is the login service that was booted
  chosen,     \* ghost: the login service the administrator chose last
  edits,      \* ghost: the administrator's last edit of the PAM policy
  overtaken,  \* ghost: that edit was made while a command held an older policy
  removing,   \* ghost: not all that an uninstallation has deleted is back
  stopped     \* ghost: a deployment did not end well, and none has since

vars == <<disk, pc, op, local, running, chosen, edits, overtaken, removing, stopped>>

NoSnapshot == [target |-> Akari, enabled |-> FALSE]

Snapshots == [target : DisplayManagers \cup {None, Akari}, enabled : BOOLEAN]

\* The link and the enabled units are systemd's; the unit file, the controlled
\* block of the PAM policy and the rest are Akari's.  A unit file is named by the
\* release it came with.
Disks ==
  [ link     : DisplayManagers \cup {Akari, None},   \* display-manager.service
    wants    : SUBSET Wanted,
    snapshot : Snapshots,
    unit     : Releases \cup {None, Torn},
    etc      : BOOLEAN,                              \* /etc/akari exists
    conf     : [ConfigFiles -> {"none", "torn", "whole"}],
    root     : BOOLEAN,                              \* /opt/akari exists
    managed  : BOOLEAN,                              \* installation.json exists
    current  : Releases \cup {None},
    previous : Releases \cup {None},
    dirs     : SUBSET Releases,                      \* release directories
    complete : SUBSET Releases,                      \* those copied to the end
    pam      : [own : 0..MaxEdits, block : BOOLEAN] ]

NoConfig == [f \in ConfigFiles |-> "none"]

FreshDisk(dm) ==
  [ link |-> dm, wants |-> {dm} \cap Wanted, snapshot |-> NoSnapshot,
    unit |-> None, etc |-> FALSE, conf |-> NoConfig, root |-> FALSE, managed |-> FALSE,
    current |-> None, previous |-> None, dirs |-> {}, complete |-> {},
    pam |-> [own |-> 0, block |-> FALSE] ]

\* What a command has read, what it was asked for, and what it has made.
Locals ==
  [ before  : Disks,
    block   : BOOLEAN,                \* a keyring block is wanted
    wanted  : SUBSET ConfigFiles,
    release : Releases \cup {None},
    file    : ConfigFiles \cup {None}, \* being copied, or the copy failed
    created : SUBSET ConfigFiles ]    \* created_configs

Knows(d, block, wanted) ==
  [ before |-> d, block |-> block, wanted |-> wanted,
    release |-> None, file |-> None, created |-> {} ]

AtRest(d) == Knows(d, FALSE, {})

Selection(d) == [link |-> d.link, wants |-> d.wants]

\* systemctl is-enabled
Enabled(d, unit) == unit \in d.wants \/ (unit \in Aliased /\ d.link = unit)

\* systemctl enable --force: the link of an aliased unit replaces any other.
Enable(d, unit) ==
  [d EXCEPT !.link = IF unit \in Aliased \cup {Akari} THEN unit ELSE @,
            !.wants = @ \cup ({unit} \cap Wanted)]

\* systemctl disable: removes every link to the unit.
Disable(d, unit) ==
  [d EXCEPT !.link = IF @ = unit THEN None ELSE @, !.wants = @ \ {unit}]

\* systemctl may pass over a damaged unit file without an error, as it does when
\* the file is empty, which means masked.
Systemctl(d, done) == IF d.unit = Torn THEN {d, done} ELSE {done}

Init ==
  /\ disk \in {FreshDisk(dm) : dm \in DisplayManagers \cup {None}}
  /\ pc = "idle"
  /\ op = "none"
  /\ local = AtRest(disk)
  /\ running = FALSE
  /\ chosen = Selection(disk)
  /\ edits = 0
  /\ overtaken = FALSE
  /\ removing = FALSE
  /\ stopped = FALSE

-----------------------------------------------------------------------------
(* Steps of a command.                                                     *)

\* The calls of the commands, by what they are for.
Switching == {"saveSnapshot", "disableOld", "enableAkari"}
Restoring == {"disableAkari", "enableOld", "relink", "dropSnapshot"}
Preparing == {"makeConf", "makeRoot", "makeRelease"}
Deploying == {"copy", "configs", "configBody", "unitBody", "pam", "current",
              "register", "keepPrevious"}
Undoing   == {"undoPam", "undoCurrent", "undoUnit", "undoUnitBody", "undoConfigs", "undoDir"}
Deleting  == {"readPam", "cleanPam", "removeUnit", "removeConf"}
Swapping  == {"swapCurrent", "swapPrevious"}
Points    == {"idle", "keyring", "removeRoot", "removeEmptyConf", "raise"}
               \cup Switching \cup Restoring \cup Preparing \cup Deploying
               \cup Undoing \cup Deleting \cup Swapping

Commands == {"enable", "disable", "install", "keyring", "rollback", "uninstall"}

\* A command passes its checks; it has read the disk.
Start(command, first, block, wanted) ==
  /\ pc = "idle"
  /\ pc' = first
  /\ op' = command
  /\ local' = Knows(disk, block, wanted)
  /\ overtaken' = (overtaken /\ disk.pam.own # edits)
  /\ UNCHANGED <<disk, running, chosen, edits, removing, stopped>>

\* One call changes the disk.  The last step of a command forgets what it knew.
Call(from, to, d) ==
  /\ pc = from
  /\ pc' = to
  /\ disk' = d
  /\ op' = IF to = "idle" THEN "none" ELSE op
  /\ local' = IF to = "idle" THEN AtRest(d) ELSE local
  /\ UNCHANGED <<running, chosen, edits, overtaken>>

Step(from, to, d) == Call(from, to, d) /\ UNCHANGED <<removing, stopped>>

\* A call that the command notes, too.
StepKnowing(from, to, d, knows) ==
  /\ pc = from
  /\ pc' = to
  /\ disk' = d
  /\ local' = knows
  /\ UNCHANGED <<op, running, chosen, edits, overtaken, removing, stopped>>

\* Where an exception raised at a call leads.
Handler(at) ==
  IF at \in {"disableOld", "enableAkari"} THEN "disableAkari"
  ELSE IF at \in Deploying THEN "undoPam"
  ELSE "idle"

\* The command stops, or goes on with its handler.
Stop(to, d) ==
  /\ Call(pc, to, d)
  /\ stopped' = (stopped \/ (op = "install" /\ to = "idle"))
  /\ UNCHANGED removing

\* The next call fails.  What a call can change before it fails is a step of its
\* own: a file is opened and cut, some entries of a tree are deleted.
Fail == pc # "idle" /\ Stop(Handler(pc), disk)

\* The process is killed, or the machine stops.
Crash == pc # "idle" /\ Stop("idle", disk)

-----------------------------------------------------------------------------
(* login enable, login disable.                                            *)

EnableLogin ==
  /\ disk.managed
  /\ disk.link # Akari
  /\ disk.snapshot = NoSnapshot
  /\ Start("enable", "saveSnapshot", FALSE, {})

SaveSnapshot ==
  LET old == local.before.link IN
  Step("saveSnapshot", IF Enabled(disk, old) THEN "disableOld" ELSE "enableAkari",
       [disk EXCEPT !.snapshot = [target |-> old, enabled |-> Enabled(disk, old)]])

DisableOld == Step("disableOld", "enableAkari", Disable(disk, local.before.link))

\* systemctl may report a failure after it has changed the links.
EnableAkari ==
  /\ disk.unit # None
  /\ \E to \in {"idle", "disableAkari"}, d \in Systemctl(disk, Enable(disk, Akari)) :
       Step("enableAkari", to, d)

MayDisable ==
  \/ disk.snapshot = NoSnapshot /\ disk.link # Akari
  \/ disk.snapshot # NoSnapshot /\ disk.link \in {None, Akari, disk.snapshot.target}

DisableLogin ==
  /\ disk.managed
  /\ disk.snapshot # NoSnapshot
  /\ MayDisable
  /\ Start("disable", "disableAkari", FALSE, {})

\* (fault) only a service that was enabled gets its link back
DisableAkariForgetsLink ==
  /\ disk.unit # None
  /\ Step("disableAkari", IF disk.snapshot.enabled THEN "enableOld" ELSE "dropSnapshot",
          Disable(disk, Akari))

\* systemctl refuses to disable a unit that does not exist.  Where there was no
\* login service, nothing but systemctl takes the link away: that it passes over a
\* damaged unit there is left out.
DisableAkari ==
  /\ disk.unit # None
  /\ IF disk.snapshot.target = None
     THEN Step("disableAkari", "dropSnapshot", Disable(disk, Akari))
     ELSE \E d \in Systemctl(disk, Disable(disk, Akari)) :
            Step("disableAkari", IF disk.snapshot.enabled THEN "enableOld" ELSE "relink", d)

EnableOld == Step("enableOld", "relink", Enable(disk, disk.snapshot.target))

Relink == Step("relink", "dropSnapshot", [disk EXCEPT !.link = disk.snapshot.target])

\* (fault) the snapshot is overwritten instead of removed
DropSnapshotOverwrites ==
  Step("dropSnapshot", IF op = "uninstall" THEN "readPam" ELSE "idle",
       [disk EXCEPT !.snapshot = None])

DropSnapshot ==
  Step("dropSnapshot", IF op = "uninstall" THEN "readPam" ELSE "idle",
       [disk EXCEPT !.snapshot = NoSnapshot])

-----------------------------------------------------------------------------
(* install, configure-keyring, login rollback.                             *)

Install(block, wanted) ==
  /\ Required \subseteq wanted
  /\ disk.managed \/ (~disk.root /\ ~disk.etc /\ disk.unit = None)
  /\ Start("install", "makeConf", block, wanted)

MakeConf == Step("makeConf", "makeRoot", [disk EXCEPT !.etc = TRUE])

MakeRoot == Step("makeRoot", "makeRelease", [disk EXCEPT !.root = TRUE])

MakeRelease ==
  \E r \in Releases \ disk.dirs :
    StepKnowing("makeRelease", "copy", [disk EXCEPT !.dirs = @ \cup {r}],
                [local EXCEPT !.release = r])

CopyRelease ==
  Step("copy", "configs", [disk EXCEPT !.complete = @ \cup {local.release}])

\* A file that exists is skipped, whatever it holds.
Missing == {f \in local.wanted : disk.conf[f] = "none"}

\* copy2 opens the first missing file ...
OpenConfig ==
  \E f \in Missing :
    /\ IsFirst(f, Missing)
    /\ StepKnowing("configs", "configBody", [disk EXCEPT !.conf[f] = "torn"],
                   [local EXCEPT !.file = f])

\* ... and fills it; the undo will know of it unless chmod fails.
FillConfig ==
  LET filled == [disk EXCEPT !.conf[local.file] = "whole"] IN
  \/ StepKnowing("configBody", "configs", filled,
                 [local EXCEPT !.created = @ \cup {local.file}, !.file = None])
  \/ Step("configBody", "undoPam", filled)

\* copy2 overwrites the unit.
OpenUnit ==
  /\ Missing = {}
  /\ Step("configs", "unitBody", [disk EXCEPT !.unit = Torn])

CopyUnit == Step("unitBody", "pam", [disk EXCEPT !.unit = local.release])

UpdatePam ==
  Step("pam", "current", [disk EXCEPT !.pam = [local.before.pam EXCEPT !.block = local.block]])

LinkCurrent == Step("current", "register", [disk EXCEPT !.current = local.release])

\* Everything an uninstallation deletes is there.
Intact(d) ==
  /\ d.unit \in Releases
  /\ \A f \in Required : d.conf[f] = "whole"
  /\ d.current \in d.complete
  /\ d.previous \in d.complete \cup {None}

\* The last calls of a deployment, which may end it.
StepOrEnd(from, to, d) ==
  /\ Call(from, to, d)
  /\ stopped' = (stopped /\ to # "idle")
  /\ removing' = (removing /\ ~(to = "idle" /\ Intact(d)))

Register ==
  StepOrEnd("register", IF local.before.current = None THEN "idle" ELSE "keepPrevious",
            [disk EXCEPT !.managed = TRUE])

KeepPrevious ==
  StepOrEnd("keepPrevious", "idle", [disk EXCEPT !.previous = local.before.current])

\* (fault) the policy is restored from the backup of its first version
UndoPamFromBackup ==
  Step("undoPam", "undoCurrent", [disk EXCEPT !.pam = [own |-> 0, block |-> FALSE]])

UndoPam == Step("undoPam", "undoCurrent", [disk EXCEPT !.pam = local.before.pam])

\* (fault) the link keeps the release that is about to be deleted
UndoCurrentKeeps ==
  Step("undoCurrent", "undoUnit",
       [disk EXCEPT !.current = IF local.before.current = None THEN None ELSE @])

UndoCurrent == Step("undoCurrent", "undoUnit", [disk EXCEPT !.current = local.before.current])

UnlinkUnit ==
  /\ local.before.unit = None
  /\ Step("undoUnit", "undoConfigs", [disk EXCEPT !.unit = None])

\* write_bytes overwrites the unit.
ReopenUnit ==
  /\ local.before.unit # None
  /\ Step("undoUnit", "undoUnitBody", [disk EXCEPT !.unit = Torn])

\* (fault) what was opened is removed
UndoUnitRemoves == Step("undoUnitBody", "undoConfigs", [disk EXCEPT !.unit = None])

UndoUnit == Step("undoUnitBody", "undoConfigs", [disk EXCEPT !.unit = local.before.unit])

\* Only the configuration this command has created is removed.
UndoConfig ==
  \E f \in local.created :
    /\ IsFirst(f, local.created)
    /\ StepKnowing("undoConfigs", "undoConfigs", [disk EXCEPT !.conf[f] = "none"],
                   [local EXCEPT !.created = @ \ {f}])

\* rmtree of the release begins with its contents.
UndoRelease ==
  /\ local.created = {}
  /\ Step("undoConfigs", "undoDir", [disk EXCEPT !.complete = @ \ {local.release}])

UndoDir ==
  Step("undoDir", IF local.before.managed THEN "raise" ELSE "removeRoot",
       [disk EXCEPT !.dirs = @ \ {local.release}])

Raise == Step("raise", "idle", disk)

ConfigureKeyring(block) == Start("keyring", "keyring", block, {})

UpdateKeyring ==
  Step("keyring", "idle", [disk EXCEPT !.pam = [local.before.pam EXCEPT !.block = local.block]])

RollbackInstallation ==
  /\ disk.managed
  /\ disk.previous # None
  /\ disk.current # None
  /\ Start("rollback", "swapCurrent", FALSE, {})

SwapCurrent == Step("swapCurrent", "swapPrevious", [disk EXCEPT !.current = disk.previous])

SwapPrevious == Step("swapPrevious", "idle", [disk EXCEPT !.previous = local.before.current])

-----------------------------------------------------------------------------
(* uninstall.                                                              *)

\* (fault) the login service is not restored first
RemoveInstallationAtOnce ==
  /\ disk.managed
  /\ ~running
  /\ Start("uninstall", "readPam", FALSE, {})

RemoveInstallation ==
  /\ disk.managed
  /\ ~running
  /\ MayDisable
  /\ Start("uninstall", IF disk.snapshot = NoSnapshot THEN "readPam" ELSE "disableAkari",
           FALSE, {})

ReadPam == StepKnowing("readPam", "cleanPam", disk, [local EXCEPT !.before.pam = disk.pam])

CleanPam ==
  Step("cleanPam", "removeUnit",
       [disk EXCEPT !.pam = [local.before.pam EXCEPT !.block = FALSE]])

RemoveUnit ==
  /\ disk.unit # None
  /\ Call("removeUnit", "removeConf", [disk EXCEPT !.unit = None])
  /\ removing' = TRUE
  /\ UNCHANGED stopped

\* rmtree of the configuration stops; it deletes the entries in any order.
CutRemoveConf ==
  /\ pc = "removeConf"
  /\ \E gone \in SUBSET ConfigFiles :
       Stop("idle",
            [disk EXCEPT !.conf = [f \in ConfigFiles |-> IF f \in gone THEN "none" ELSE @[f]]])

RemoveConf ==
  /\ disk.etc
  /\ Step("removeConf", "removeRoot", [disk EXCEPT !.etc = FALSE, !.conf = NoConfig])

\* rmtree of the installation stops; it deletes the entries in any order.
CutRemoveRoot ==
  /\ pc = "removeRoot"
  /\ \E json, current, previous \in BOOLEAN, trees \in SUBSET Releases :
       Stop("idle", [disk EXCEPT !.managed = @ /\ ~json,
                                 !.current = IF current THEN None ELSE @,
                                 !.previous = IF previous THEN None ELSE @,
                                 !.complete = @ \ trees])

\* rmtree ends.  A failed first installation also removes its configuration.
RemoveRoot ==
  /\ Call("removeRoot", IF op = "install" THEN "removeEmptyConf" ELSE "idle",
          [disk EXCEPT !.root = FALSE, !.managed = FALSE, !.current = None,
                       !.previous = None, !.dirs = {}, !.complete = {}])
  /\ removing' = FALSE
  /\ UNCHANGED stopped

\* rmdir refuses a directory with a file in it.
RemoveEmptyConf ==
  /\ disk.conf = NoConfig
  /\ Step("removeEmptyConf", "raise", [disk EXCEPT !.etc = FALSE])

-----------------------------------------------------------------------------
(* The host.                                                               *)

\* The administrator enables another login service; not while a command runs.
AdminSelects(dm) ==
  /\ pc = "idle"
  /\ disk' = [disk EXCEPT !.link = dm, !.wants = {dm} \cap Wanted]
  /\ local' = AtRest(disk')
  /\ chosen' = Selection(disk')
  /\ UNCHANGED <<pc, op, running, edits, overtaken, removing, stopped>>

\* The running command has read the policy and may still write it.
HoldsPolicy ==
  \/ op = "install" /\ pc \in Preparing \cup Deploying \cup {"undoPam"}
  \/ pc \in {"keyring", "cleanPam"}

\* The administrator edits the PAM policy, at any time.
AdminEditsPam ==
  /\ edits < MaxEdits
  /\ edits' = edits + 1
  /\ disk' = [disk EXCEPT !.pam.own = edits']
  /\ local' = IF pc = "idle" THEN AtRest(disk') ELSE local
  /\ overtaken' = HoldsPolicy
  /\ UNCHANGED <<pc, op, running, chosen, removing, stopped>>

\* The selected login service is started, if it can be.
Reboot ==
  /\ pc = "idle"
  /\ running' \in {FALSE, disk.link = Akari}
  /\ UNCHANGED <<disk, pc, op, local, chosen, edits, overtaken, removing, stopped>>

SwitchStep ==
  \/ EnableLogin \/ SaveSnapshot \/ DisableOld \/ EnableAkari
  \/ DisableLogin \/ DisableAkari \/ EnableOld \/ Relink \/ DropSnapshot

DeployStep ==
  \/ \E block \in BOOLEAN :
       ConfigureKeyring(block) \/ \E wanted \in SUBSET ConfigFiles : Install(block, wanted)
  \/ MakeConf \/ MakeRoot \/ MakeRelease \/ CopyRelease
  \/ OpenConfig \/ FillConfig \/ OpenUnit \/ CopyUnit
  \/ UpdatePam \/ LinkCurrent \/ Register \/ KeepPrevious
  \/ UndoPam \/ UndoCurrent \/ UnlinkUnit \/ ReopenUnit \/ UndoUnit
  \/ UndoConfig \/ UndoRelease \/ UndoDir \/ Raise
  \/ UpdateKeyring
  \/ RollbackInstallation \/ SwapCurrent \/ SwapPrevious

RemoveStep ==
  \/ RemoveInstallation \/ ReadPam \/ CleanPam \/ RemoveUnit
  \/ RemoveConf \/ RemoveRoot \/ RemoveEmptyConf

Host ==
  \/ \E dm \in DisplayManagers : AdminSelects(dm)
  \/ AdminEditsPam \/ Reboot

StopStep == Fail \/ Crash \/ CutRemoveConf \/ CutRemoveRoot

Next == SwitchStep \/ DeployStep \/ RemoveStep \/ StopStep \/ Host

Spec == Init /\ [][Next]_vars

-----------------------------------------------------------------------------
(* Properties.                                                             *)

\* Every variable has its type.
TypeOK ==
  /\ disk \in Disks
  /\ pc \in Points
  /\ op \in Commands \cup {"none"}
  /\ local \in Locals
  /\ chosen \in [link : DisplayManagers \cup {None}, wants : SUBSET Wanted]
  /\ edits \in 0..MaxEdits
  /\ {running, overtaken, removing, stopped} \subseteq BOOLEAN

\* Wherever a switch stops, the login service that the administrator chose is
\* either selected, or the snapshot names it and its state: nothing a failure or a
\* crash leaves behind loses it (enable_login, restore_display_manager).
ChoiceRecoverable ==
  Selection(disk) # chosen =>
    disk.snapshot = [target |-> chosen.link,
                     enabled |-> chosen.wants # {} \/ chosen.link \in Aliased]

\* While there is a snapshot, `login disable` can use it: the installation is
\* valid and there is a unit to disable, unless an interrupted uninstallation has
\* removed that unit (validate_installation, restore_display_manager).
RecoveryAvailable ==
  disk.snapshot # NoSnapshot => disk.managed /\ (disk.unit # None \/ removing)

\* A login service that is selected for the next boot, or was booted, keeps a unit
\* file; unless an uninstallation was interrupted and not made good, it also keeps
\* a complete release and the whole configuration it cannot start without,
\* whichever command stopped half way.  The unit file is damaged only while a
\* deployment runs, or after one was killed or failed to undo itself: it is written
\* in place (manage.py:285, 304), and the next deployment that ends repairs it.
\* (A torn layout, which also keeps the greeter from starting, is not excluded: it
\* is the file that FailedInstallRestores allows to stay behind.)
BootableLogin ==
  disk.link = Akari \/ running =>
    /\ disk.unit # None
    /\ disk.unit = Torn => stopped \/ op = "install"
    /\ removing \/ /\ disk.current \in disk.complete
                   /\ \A f \in Required : disk.conf[f] = "whole"

\* Once a failed deployment has been undone, the links, the unit, the releases and
\* the block of the PAM policy are what they were (create_installation).  So is
\* the configuration, but for one file: the one that was missing and whose copy,
\* or chmod, failed stays behind, because created_configs does not know it; after
\* a first installation rmdir makes sure that there is none.
FailedInstallRestores ==
  pc = "raise" =>
    LET before == local.before IN
    /\ [disk EXCEPT !.etc = before.etc, !.conf = before.conf, !.pam.own = before.pam.own] = before
    /\ \A f \in ConfigFiles :
         disk.conf[f] # before.conf[f] => f = local.file /\ before.conf[f] = "none"
    /\ ~before.managed => disk.etc = before.etc /\ disk.conf = before.conf

\* An edit that the administrator makes to the PAM policy is lost only if it is made
\* while a command holds an older policy that it may still write: an installation
\* up to the end of its undo of PAM, and the other commands between two calls.
PamKeepsEdits == disk.pam.own = edits \/ overtaken
=============================================================================
