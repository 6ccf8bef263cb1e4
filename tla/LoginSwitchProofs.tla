------------------------- MODULE LoginSwitchProofs --------------------------
(***************************************************************************)
(* The safety invariants of the login service switch, for any login        *)
(* services, releases and number of edits, and any number of calls that    *)
(* fail and crashes.                                                       *)
(***************************************************************************)
EXTENDS LoginSwitch, TLAPS

-----------------------------------------------------------------------------
(* The inductive invariant.  `disk` is related to what the command read     *)
(* when it started, according to how far it has come.                       *)

\* Which command may be at which call.
ControlFits ==
  /\ pc \in Points
  /\ pc = "idle" <=> op = "none"
  /\ pc \in Switching => op = "enable"
  /\ pc \in Restoring => op \in {"enable", "disable", "uninstall"}
  /\ pc \in Preparing \cup Deploying \cup Undoing \cup {"removeEmptyConf", "raise"} =>
       op = "install"
  /\ pc \in Deleting => op = "uninstall"
  /\ pc = "removeRoot" => op \in {"install", "uninstall"}
  /\ pc \in Swapping => op = "rollback"
  /\ pc = "keyring" => op = "keyring"
  /\ pc = "idle" => local = AtRest(disk)

\* What every disk has, at rest or half way: an installation that is complete
\* unless its removal was interrupted.
Sound(d) ==
  /\ ~d.root => /\ ~d.managed
                /\ d.current = None
                /\ d.previous = None
                /\ d.dirs = {}
  /\ d.complete \subseteq d.dirs
  /\ ~d.etc => d.conf = NoConfig
  /\ d.managed => removing \/ /\ d.unit # None
                              /\ \A f \in Required : d.conf[f] = "whole"
                              /\ d.current # None
  /\ d.current # None => removing \/ d.current \in d.complete
  /\ d.previous # None => removing \/ d.previous \in d.complete
  /\ running \/ d.link = Akari => d.managed /\ d.unit # None

DisksSound ==
  /\ Sound(disk)
  /\ Sound(local.before)
  /\ disk.unit = Torn => stopped \/ op = "install"
  /\ local.before.unit = Torn => stopped

\* The snapshot of a login service.
SnapshotOf(dm) == [target |-> dm, enabled |-> dm \in Aliased \cup Wanted]

\* What the switch has done to the administrator's choice.
SwitchFits ==
  /\ chosen.wants = {chosen.link} \cap Wanted
  /\ disk.link \in {None, Akari, chosen.link}
  /\ disk.wants \subseteq chosen.wants
  /\ Selection(disk) # chosen => disk.snapshot = SnapshotOf(chosen.link)
  /\ disk.snapshot # NoSnapshot =>
       /\ disk.managed
       /\ chosen.link = None => disk.snapshot = SnapshotOf(None)
       /\ disk.snapshot = SnapshotOf(disk.snapshot.target)
  /\ pc \in Switching => local.before.link = chosen.link /\ disk.managed
  /\ pc = "saveSnapshot" => disk.snapshot = NoSnapshot
  /\ pc \in {"disableOld", "enableAkari"} \cup Restoring =>
       disk.snapshot = SnapshotOf(chosen.link)
  /\ pc = "relink" => disk.wants = chosen.wants
  /\ pc = "dropSnapshot" => Selection(disk) = chosen

\* What a command that may write the PAM policy holds of it.
PamFits ==
  /\ disk.pam.own = edits \/ overtaken
  /\ HoldsPolicy => local.before.pam.own = edits \/ overtaken

\* What a deployment has done to the releases it found.
ReleaseFits ==
  LET before == local.before
      new == local.release
  IN
  /\ before.managed \/ (~before.root /\ ~before.etc /\ before.unit = None)
  /\ disk.link = before.link
  /\ disk.wants = before.wants
  /\ disk.snapshot = before.snapshot
  /\ pc \notin {"removeRoot", "removeEmptyConf", "raise"} =>
       disk.managed = before.managed /\ disk.previous = before.previous
  /\ pc \in Preparing =>
       /\ disk.dirs = before.dirs
       /\ disk.complete = before.complete
       /\ disk.current = before.current
  /\ pc = "makeRelease" => disk.root
  /\ pc \in Deploying \cup Undoing =>
       /\ disk.root
       /\ new \in Releases \ before.dirs
       /\ disk.dirs = before.dirs \cup {new}
       /\ disk.complete \ {new} = before.complete
  /\ pc \in Deploying \ {"copy"} => new \in disk.complete
  /\ pc = "undoDir" => disk.complete = before.complete
  /\ pc \in {"register", "keepPrevious"} => disk.current = new
  /\ pc = "keepPrevious" => before.current # None
  /\ pc \in (Deploying \ {"register", "keepPrevious"}) \cup
            {"undoUnit", "undoUnitBody", "undoConfigs", "undoDir"} =>
       disk.current = before.current
  /\ pc \in {"undoPam", "undoCurrent"} =>
       disk.current = before.current \/ (disk.current = new /\ new \in disk.complete)
  /\ pc \in {"removeRoot", "removeEmptyConf"} => ~before.managed
  /\ pc = "removeRoot" => ~disk.managed /\ disk.current = None /\ disk.previous = None

\* What it has done to the unit and to its block of the PAM policy.
UnitFits ==
  LET before == local.before
      new == local.release
  IN
  /\ pc \in Preparing \cup {"copy", "configs", "configBody", "undoConfigs", "undoDir",
                            "removeRoot"} =>
       disk.unit = before.unit
  /\ pc = "unitBody" => disk.unit = Torn
  /\ pc \in {"pam", "current", "register", "keepPrevious"} => disk.unit = new
  /\ pc \in {"undoPam", "undoCurrent", "undoUnit"} => disk.unit \in {before.unit, Torn, new}
  /\ pc = "undoUnitBody" => disk.unit = Torn /\ before.unit # None
  /\ pc \in (Undoing \ {"undoPam"}) \cup {"removeRoot"} =>
       disk.pam.block = before.pam.block

\* What it has done to the configuration.
ConfigFits ==
  LET before == local.before
      file == local.file
      created == local.created
  IN
  /\ Required \subseteq local.wanted
  /\ \A f \in ConfigFiles :
       /\ before.conf[f] # "none" => disk.conf[f] = before.conf[f]
       /\ disk.conf[f] # before.conf[f] => f \in created \/ f = file
       /\ f \in created => disk.conf[f] = "whole" /\ before.conf[f] = "none"
  /\ file # None => before.conf[file] = "none" /\ file \notin created
  /\ pc \in Preparing \cup {"copy"} => created = {} /\ file = None
  /\ pc \in (Deploying \ {"configBody"}) => file = None
  /\ pc = "configBody" => file # None
  /\ pc \in Deploying \ {"copy", "configs", "configBody"} =>
       \A f \in local.wanted : disk.conf[f] # "none"
  /\ pc \notin {"makeConf", "raise"} => disk.etc
  /\ pc \in {"undoDir", "removeRoot", "removeEmptyConf", "raise"} => created = {}

\* What is left of it once all has been undone but the configuration.
UndoneFits ==
  LET before == local.before IN
  /\ pc \in {"removeEmptyConf", "raise"} =>
       [disk EXCEPT !.etc = before.etc, !.conf = before.conf,
                    !.pam.own = before.pam.own] = before
  /\ pc = "raise" /\ ~before.managed => disk.etc = before.etc /\ disk.conf = before.conf

DeployFits == op = "install" => ReleaseFits /\ UnitFits /\ ConfigFits /\ UndoneFits

\* What a removal and a rollback rely on.
RemoveFits ==
  /\ op = "uninstall" => ~running
  /\ op = "uninstall" /\ pc \in Deleting \cup {"removeRoot"} => disk.snapshot = NoSnapshot
  /\ op = "uninstall" /\ pc \in {"removeConf", "removeRoot"} => removing
  /\ op = "rollback" => /\ local.before.current # None
                        /\ disk.current # None
                        /\ disk.root
                        /\ disk.complete = local.before.complete
  /\ pc = "swapCurrent" => disk.previous # None

\* The inductive invariant.
Inv ==
  /\ TypeOK
  /\ ControlFits
  /\ DisksSound
  /\ SwitchFits
  /\ PamFits
  /\ DeployFits
  /\ RemoveFits

-----------------------------------------------------------------------------
(* What the calls put on a disk keeps its type.                            *)

\* The links that systemd and the administrator set.
LEMMA LinkTyped ==
  ASSUME NEW d \in Disks, NEW dm \in DisplayManagers \cup {Akari, None}, NEW w \in SUBSET Wanted
  PROVE  /\ [d EXCEPT !.link = dm] \in Disks
         /\ [d EXCEPT !.link = dm, !.wants = w] \in Disks
BY DEF Disks

\* systemctl enable and systemctl disable, whether or not they do it.
LEMMA EnableTyped ==
  ASSUME NEW d \in Disks, NEW dm \in DisplayManagers \cup {Akari, None}
  PROVE  /\ Enable(d, dm) \in Disks
         /\ Disable(d, dm) \in Disks
         /\ Systemctl(d, Enable(d, dm)) \subseteq Disks
         /\ Systemctl(d, Disable(d, dm)) \subseteq Disks
<1>1. (IF dm \in Aliased \cup {Akari} THEN dm ELSE d.link) \in DisplayManagers \cup {Akari, None}
  BY DEF Disks
<1>2. (d.wants \cup ({dm} \cap Wanted)) \in SUBSET Wanted
  BY DEF Disks
<1>3. (IF d.link = dm THEN None ELSE d.link) \in DisplayManagers \cup {Akari, None}
  BY DEF Disks
<1>4. (d.wants \ {dm}) \in SUBSET Wanted
  BY DEF Disks
<1>5. Enable(d, dm) \in Disks
  BY <1>1, <1>2, LinkTyped DEF Enable
<1>6. Disable(d, dm) \in Disks
  BY <1>3, <1>4, LinkTyped DEF Disable
<1> QED
  BY <1>5, <1>6, Zenon DEF Systemctl

\* The snapshot of the login service that is replaced.
LEMMA SnapshotTyped ==
  ASSUME NEW d \in Disks, NEW s \in Snapshots
  PROVE  [d EXCEPT !.snapshot = s] \in Disks
BY DEF Disks

\* The two directories and the record of the installation.
LEMMA FlagsTyped ==
  ASSUME NEW d \in Disks, NEW b \in BOOLEAN
  PROVE  /\ [d EXCEPT !.etc = b] \in Disks
         /\ [d EXCEPT !.root = b] \in Disks
         /\ [d EXCEPT !.managed = b] \in Disks
BY DEF Disks

\* The PAM policy of another disk, with or without its block, and an edit of it.
LEMMA PamTyped ==
  ASSUME NEW d \in Disks, NEW e \in Disks, NEW b \in BOOLEAN, NEW n \in 0..MaxEdits
  PROVE  /\ [d EXCEPT !.pam = e.pam] \in Disks
         /\ [d EXCEPT !.pam = [e.pam EXCEPT !.block = b]] \in Disks
         /\ [d EXCEPT !.pam.own = n] \in Disks
BY DEF Disks

\* One file of the configuration, or all of it.
LEMMA ConfTyped ==
  ASSUME NEW d \in Disks
  PROVE  /\ \A f \in ConfigFiles, s \in {"none", "torn", "whole"} :
              [d EXCEPT !.conf[f] = s] \in Disks
         /\ \A c \in [ConfigFiles -> {"none", "torn", "whole"}] :
              /\ [d EXCEPT !.conf = c] \in Disks
              /\ [d EXCEPT !.etc = FALSE, !.conf = c] \in Disks
<1>1. ASSUME NEW c \in [ConfigFiles -> {"none", "torn", "whole"}]
      PROVE  [d EXCEPT !.conf = c] \in Disks /\ [d EXCEPT !.etc = FALSE, !.conf = c] \in Disks
  <2>1. FALSE \in BOOLEAN
    OBVIOUS
  <2> QED
    BY <1>1, <2>1, ZenonT(40) DEF Disks
<1>2. ASSUME NEW f \in ConfigFiles, NEW s \in {"none", "torn", "whole"}
      PROVE  [d EXCEPT !.conf[f] = s] \in Disks
  <2> DEFINE c == [d.conf EXCEPT ![f] = s]
  <2>1. c \in [ConfigFiles -> {"none", "torn", "whole"}]
    BY <1>2 DEF Disks
  <2>2. [d EXCEPT !.conf[f] = s] = [d EXCEPT !.conf = c]
    BY Zenon
  <2> HIDE DEF c
  <2> QED
    BY <1>1, <2>1, <2>2
<1> QED
  BY <1>1, <1>2

\* What deleting the installation leaves, half way and at the end.
LEMMA RootTyped ==
  ASSUME NEW d \in Disks, NEW root \in BOOLEAN, NEW managed \in BOOLEAN,
         NEW current \in Releases \cup {None}, NEW previous \in Releases \cup {None},
         NEW complete \in SUBSET Releases
  PROVE  /\ [d EXCEPT !.managed = managed, !.current = current, !.previous = previous,
                      !.complete = complete] \in Disks
         /\ [d EXCEPT !.root = root, !.managed = managed, !.current = current,
                      !.previous = previous, !.dirs = {}, !.complete = complete] \in Disks
BY ZenonT(40) DEF Disks

\* A release as the unit file and as either link.
LEMMA ReleaseTyped ==
  ASSUME NEW d \in Disks, NEW r \in Releases \cup {None}
  PROVE  /\ [d EXCEPT !.unit = r] \in Disks
         /\ [d EXCEPT !.unit = Torn] \in Disks
         /\ [d EXCEPT !.current = r] \in Disks
         /\ [d EXCEPT !.previous = r] \in Disks
BY DEF Disks

\* A release as a directory and as a copy.
LEMMA TreeTyped ==
  ASSUME NEW d \in Disks, NEW r
  PROVE  /\ r \in Releases => /\ [d EXCEPT !.dirs = @ \cup {r}] \in Disks
                              /\ [d EXCEPT !.complete = @ \cup {r}] \in Disks
         /\ [d EXCEPT !.dirs = @ \ {r}] \in Disks
         /\ [d EXCEPT !.complete = @ \ {r}] \in Disks
BY DEF Disks

\* What a command knows when it starts.
LEMMA KnowsTyped ==
  ASSUME NEW d \in Disks, NEW b \in BOOLEAN, NEW w \in SUBSET ConfigFiles
  PROVE  Knows(d, b, w) \in Locals /\ AtRest(d) \in Locals
<1>1. \A c \in BOOLEAN, v \in SUBSET ConfigFiles : Knows(d, c, v) \in Locals
  BY Zenon DEF Knows, Locals
<1> QED
  BY <1>1 DEF AtRest

\* A step keeps the types if the disk and what the command knows keep theirs:
\* where a command is also says which command it is.
LEMMA FrameTypes ==
  ASSUME TypeOK, ControlFits', disk' \in Disks, local' \in Locals,
         {overtaken', removing', stopped'} \subseteq BOOLEAN,
         UNCHANGED <<running, chosen, edits>>
  PROVE  TypeOK'
BY DEF TypeOK, ControlFits, Points, Commands, Switching, Restoring, Preparing, Deploying,
  Undoing, Deleting, Swapping

\* A call keeps the types if what it leaves on the disk has its type.
LEMMA CallTypes ==
  ASSUME TypeOK, ControlFits', NEW from, NEW to, NEW d \in Disks, Call(from, to, d),
         {removing', stopped'} \subseteq BOOLEAN
  PROVE  TypeOK'
<1>1. AtRest(d) \in Locals
  BY KnowsTyped
<1>2. /\ disk' = d
      /\ local' \in Locals
      /\ overtaken' \in BOOLEAN
      /\ UNCHANGED <<running, chosen, edits>>
  BY <1>1 DEF Call, TypeOK
<1> QED
  BY <1>2, FrameTypes

\* So does a step that is only a call,
LEMMA StepTypes ==
  ASSUME TypeOK, ControlFits', NEW from, NEW to, NEW d \in Disks, Step(from, to, d)
  PROVE  TypeOK'
BY CallTypes DEF Step, TypeOK

\* one that ends a deployment,
LEMMA StepOrEndTypes ==
  ASSUME TypeOK, ControlFits', NEW from, NEW to, NEW d \in Disks, StepOrEnd(from, to, d)
  PROVE  TypeOK'
<1>1. {removing', stopped'} \subseteq BOOLEAN
  BY DEF StepOrEnd, TypeOK
<1> QED
  BY <1>1, CallTypes DEF StepOrEnd

\* one that stops a command,
LEMMA StopTypes ==
  ASSUME TypeOK, ControlFits', NEW to, NEW d \in Disks, Stop(to, d)
  PROVE  TypeOK'
<1>1. {removing', stopped'} \subseteq BOOLEAN
  BY DEF Stop, TypeOK
<1> QED
  BY <1>1, CallTypes DEF Stop

\* one that the command notes,
LEMMA KnowingTypes ==
  ASSUME TypeOK, ControlFits', NEW from, NEW to, NEW d \in Disks, NEW k \in Locals,
         StepKnowing(from, to, d, k)
  PROVE  TypeOK'
BY FrameTypes DEF StepKnowing, TypeOK

\* and the start of a command.
LEMMA StartTypes ==
  ASSUME TypeOK, ControlFits', NEW command, NEW first, NEW block \in BOOLEAN,
         NEW wanted \in SUBSET ConfigFiles, Start(command, first, block, wanted)
  PROVE  TypeOK'
<1>1. local' \in Locals
  BY KnowsTyped DEF Start, TypeOK
<1>2. overtaken' \in BOOLEAN
  BY DEF Start, TypeOK
<1> QED
  BY <1>1, <1>2, FrameTypes DEF Start, TypeOK

-----------------------------------------------------------------------------
(* Every step keeps each part of the invariant.                            *)

\* Each command keeps to its own calls, also after a failure.
LEMMA ControlInv ==
  ASSUME TypeOK, ControlFits, Next
  PROVE  ControlFits'
<1> USE DEF Start, Call, Step, StepKnowing, StepOrEnd, Stop, TypeOK, ControlFits, Switching,
      Restoring, Preparing, Deploying, Undoing, Deleting, Swapping, Points
<1>1. CASE SwitchStep
  BY <1>1
  DEF SwitchStep, EnableLogin, SaveSnapshot, DisableOld, EnableAkari, DisableLogin,
    DisableAkari, EnableOld, Relink, DropSnapshot
<1>2. CASE DeployStep
  <2>1. ASSUME NEW block \in BOOLEAN, NEW wanted \in SUBSET ConfigFiles,
               Install(block, wanted) \/ ConfigureKeyring(block)
        PROVE  ControlFits'
    BY <2>1 DEF Install, ConfigureKeyring
  <2>2. CASE MakeConf \/ MakeRoot \/ MakeRelease \/ CopyRelease
    BY <2>2 DEF MakeConf, MakeRoot, MakeRelease, CopyRelease
  <2>3. CASE OpenConfig \/ FillConfig \/ OpenUnit \/ CopyUnit
    BY <2>3 DEF OpenConfig, FillConfig, OpenUnit, CopyUnit
  <2>4. CASE UpdatePam \/ LinkCurrent \/ Register \/ KeepPrevious
    BY <2>4 DEF UpdatePam, LinkCurrent, Register, KeepPrevious
  <2>5. CASE UndoPam \/ UndoCurrent \/ UnlinkUnit \/ ReopenUnit \/ UndoUnit
    BY <2>5 DEF UndoPam, UndoCurrent, UnlinkUnit, ReopenUnit, UndoUnit
  <2>6. CASE UndoConfig \/ UndoRelease \/ UndoDir \/ Raise
    BY <2>6 DEF UndoConfig, UndoRelease, UndoDir, Raise
  <2>7. CASE UpdateKeyring \/ RollbackInstallation \/ SwapCurrent \/ SwapPrevious
    BY <2>7 DEF UpdateKeyring, RollbackInstallation, SwapCurrent, SwapPrevious
  <2> QED
    BY <1>2, <2>1, <2>2, <2>3, <2>4, <2>5, <2>6, <2>7, Zenon DEF DeployStep
<1>3. CASE RemoveStep
  BY <1>3
  DEF RemoveStep, RemoveInstallation, ReadPam, CleanPam, RemoveUnit, RemoveConf, RemoveRoot,
    RemoveEmptyConf
<1>4. CASE StopStep
  BY <1>4 DEF StopStep, Fail, Crash, CutRemoveConf, CutRemoveRoot, Handler
<1>5. CASE Host
  BY <1>5 DEF Host, AdminSelects, AdminEditsPam, Reboot
<1> QED
  BY <1>1, <1>2, <1>3, <1>4, <1>5 DEF Next

\* Every step keeps the types; only a release that was made is copied.
LEMMA TypeInv ==
  ASSUME Inv, Next, ControlFits'
  PROVE  TypeOK'
<1> USE DEF Inv
<1>0. /\ TypeOK
      /\ disk \in Disks
      /\ local.before \in Disks
      /\ local.release \in Releases \cup {None}
      /\ local.block \in BOOLEAN
      /\ FALSE \in BOOLEAN /\ {} \in SUBSET ConfigFiles
  BY DEF TypeOK, Locals
<1>1. CASE SwitchStep
  <2>1. CASE EnableLogin \/ DisableLogin
    BY <1>0, <2>1, StartTypes DEF EnableLogin, DisableLogin
  <2>2. CASE SaveSnapshot
    <3> DEFINE old == local.before.link
               saved == [target |-> old, enabled |-> Enabled(disk, old)]
    <3>1. Enabled(disk, old) \in BOOLEAN
      BY DEF Enabled
    <3>2. saved \in Snapshots
      BY <1>0, <3>1 DEF Disks, Snapshots
    <3>3. [disk EXCEPT !.snapshot = saved] \in Disks
      <4> HIDE DEF saved
      <4> QED
        BY <1>0, <3>2, SnapshotTyped
    <3> QED
      BY <1>0, <2>2, <3>3, StepTypes, Zenon DEF SaveSnapshot
  <2>3. CASE DisableOld \/ EnableAkari
    <3>1. local.before.link \in DisplayManagers \cup {Akari, None}
      BY <1>0 DEF Disks
    <3> QED
      BY <1>0, <2>3, <3>1, StepTypes, EnableTyped DEF DisableOld, EnableAkari
  <2>4. CASE DisableAkari
    BY <1>0, <2>4, StepTypes, EnableTyped DEF DisableAkari
  <2>5. CASE EnableOld \/ Relink
    <3>1. disk.snapshot.target \in DisplayManagers \cup {Akari, None}
      BY <1>0 DEF Disks, Snapshots
    <3> QED
      BY <1>0, <2>5, <3>1, StepTypes, EnableTyped, LinkTyped DEF EnableOld, Relink
  <2>6. CASE DropSnapshot
    <3>1. NoSnapshot \in Snapshots
      BY DEF NoSnapshot, Snapshots
    <3> QED
      BY <1>0, <2>6, <3>1, StepTypes, SnapshotTyped DEF DropSnapshot
  <2> QED
    BY <1>1, <2>1, <2>2, <2>3, <2>4, <2>5, <2>6 DEF SwitchStep
<1>2. CASE DeployStep
  <2>1. ASSUME NEW block \in BOOLEAN, NEW wanted \in SUBSET ConfigFiles,
               Install(block, wanted) \/ ConfigureKeyring(block)
        PROVE  TypeOK'
    BY <1>0, <2>1, StartTypes DEF Install, ConfigureKeyring
  <2>2. CASE RollbackInstallation
    BY <1>0, <2>2, StartTypes DEF RollbackInstallation
  <2>3. CASE MakeConf \/ MakeRoot \/ Register
    <3>1. TRUE \in BOOLEAN
      OBVIOUS
    <3> QED
      BY <1>0, <2>3, <3>1, StepTypes, StepOrEndTypes, FlagsTyped
      DEF MakeConf, MakeRoot, Register
  <2>4. CASE MakeRelease
    <3>1. PICK r \in Releases : StepKnowing("makeRelease", "copy",
                                            [disk EXCEPT !.dirs = @ \cup {r}],
                                            [local EXCEPT !.release = r])
      BY <2>4, Zenon DEF MakeRelease
    <3>2. [local EXCEPT !.release = r] \in Locals
      BY <1>0 DEF TypeOK, Locals
    <3> QED
      BY <1>0, <3>1, <3>2, KnowingTypes, TreeTyped
  <2>5. CASE CopyRelease
    <3>1. local.release \in Releases
      BY <2>5 DEF CopyRelease, Step, Call, DeployFits, ReleaseFits, ControlFits, Deploying
    <3> QED
      BY <1>0, <2>5, <3>1, StepTypes, TreeTyped DEF CopyRelease
  <2>6. CASE OpenConfig
    <3>1. PICK f \in ConfigFiles : StepKnowing("configs", "configBody",
                                               [disk EXCEPT !.conf[f] = "torn"],
                                               [local EXCEPT !.file = f])
      BY <1>0, <2>6 DEF OpenConfig, Missing, TypeOK, Locals
    <3>2. [local EXCEPT !.file = f] \in Locals
      BY <1>0 DEF TypeOK, Locals
    <3> QED
      BY <1>0, <3>1, <3>2, KnowingTypes, ConfTyped
  <2>7. CASE FillConfig
    <3> DEFINE filled == [disk EXCEPT !.conf[local.file] = "whole"]
               knows == [local EXCEPT !.created = @ \cup {local.file}, !.file = None]
    <3>1. local.file \in ConfigFiles
      BY <1>0, <2>7
      DEF FillConfig, StepKnowing, Step, Call, ControlFits, DeployFits, ConfigFits, Deploying,
        TypeOK, Locals
    <3>2. filled \in Disks
      BY <1>0, <3>1, ConfTyped
    <3>3. knows \in Locals
      BY <1>0, <3>1 DEF TypeOK, Locals
    <3> HIDE DEF filled, knows
    <3>4. \/ StepKnowing("configBody", "configs", filled, knows)
          \/ Step("configBody", "undoPam", filled)
      BY <2>7, Zenon DEF FillConfig, filled, knows
    <3> QED
      BY <1>0, <3>2, <3>3, <3>4, KnowingTypes, StepTypes
  <2>8. CASE OpenUnit \/ CopyUnit \/ LinkCurrent \/ KeepPrevious
    <3>1. local.before.current \in Releases \cup {None}
      BY <1>0 DEF Disks
    <3> QED
      BY <1>0, <2>8, <3>1, StepTypes, StepOrEndTypes, ReleaseTyped
      DEF OpenUnit, CopyUnit, LinkCurrent, KeepPrevious
  <2>9. CASE UpdatePam \/ UpdateKeyring \/ UndoPam
    <3>1. 0 \in 0..MaxEdits
      BY EditsAssumption
    <3> QED
      BY <1>0, <2>9, <3>1, StepTypes, PamTyped DEF UpdatePam, UpdateKeyring, UndoPam
  <2>10. CASE UndoCurrent \/ UnlinkUnit \/ ReopenUnit \/ UndoUnit
    <3>1. /\ local.before.current \in Releases \cup {None}
          /\ local.before.unit \in Releases \cup {None, Torn}
      BY <1>0 DEF Disks
    <3>2. None \in Releases \cup {None}
      OBVIOUS
    <3>3. local.before.unit = Torn \/ local.before.unit \in Releases \cup {None}
      BY <3>1
    <3> QED
      BY <1>0, <2>10, <3>1, <3>2, <3>3, StepTypes, ReleaseTyped
      DEF UndoCurrent, UnlinkUnit, ReopenUnit, UndoUnit
  <2>11. CASE UndoConfig
    <3>1. PICK f \in ConfigFiles : StepKnowing("undoConfigs", "undoConfigs",
                                               [disk EXCEPT !.conf[f] = "none"],
                                               [local EXCEPT !.created = @ \ {f}])
      BY <1>0, <2>11 DEF UndoConfig, TypeOK, Locals
    <3>2. [local EXCEPT !.created = @ \ {f}] \in Locals
      BY <1>0 DEF TypeOK, Locals
    <3> QED
      BY <1>0, <3>1, <3>2, KnowingTypes, ConfTyped
  <2>12. CASE UndoRelease \/ UndoDir
    BY <1>0, <2>12, StepTypes, TreeTyped DEF UndoRelease, UndoDir
  <2>13. CASE Raise
    BY <1>0, <2>13, StepTypes DEF Raise
  <2>14. CASE SwapCurrent \/ SwapPrevious
    <3>1. /\ disk.previous \in Releases \cup {None}
          /\ local.before.current \in Releases \cup {None}
      BY <1>0 DEF Disks
    <3> QED
      BY <1>0, <2>14, <3>1, StepTypes, ReleaseTyped DEF SwapCurrent, SwapPrevious
  <2> QED
    BY <1>2, <2>1, <2>2, <2>3, <2>4, <2>5, <2>6, <2>7, <2>8, <2>9, <2>10, <2>11, <2>12,
       <2>13, <2>14, Zenon
    DEF DeployStep
<1>3. CASE RemoveStep
  <2>1. CASE RemoveInstallation
    BY <1>0, <2>1, StartTypes DEF RemoveInstallation
  <2>2. CASE ReadPam
    <3>1. [local EXCEPT !.before.pam = disk.pam] \in Locals
      <4>1. [local.before EXCEPT !.pam = disk.pam] \in Disks
        BY <1>0, EditsAssumption, PamTyped, 0 \in 0..MaxEdits
      <4> QED
        BY <1>0, <4>1 DEF TypeOK, Locals
    <3> QED
      BY <1>0, <2>2, <3>1, KnowingTypes DEF ReadPam
  <2>3. CASE CleanPam
    <3>1. 0 \in 0..MaxEdits /\ FALSE \in BOOLEAN
      BY EditsAssumption
    <3> QED
      BY <1>0, <2>3, <3>1, StepTypes, PamTyped DEF CleanPam
  <2>4. CASE RemoveUnit
    <3>1. None \in Releases \cup {None}
      OBVIOUS
    <3>2. {removing', stopped'} \subseteq BOOLEAN
      BY <1>0, <2>4 DEF RemoveUnit, TypeOK
    <3> QED
      BY <1>0, <2>4, <3>1, <3>2, CallTypes, ReleaseTyped DEF RemoveUnit
  <2>5. CASE RemoveConf
    <3>1. NoConfig \in [ConfigFiles -> {"none", "torn", "whole"}]
      BY DEF NoConfig
    <3> QED
      BY <1>0, <2>5, <3>1, StepTypes, ConfTyped DEF RemoveConf
  <2>6. CASE RemoveRoot
    <3>1. {removing', stopped'} \subseteq BOOLEAN
      BY <1>0, <2>6 DEF RemoveRoot, TypeOK
    <3>2. FALSE \in BOOLEAN /\ {} \in SUBSET Releases /\ None \in Releases \cup {None}
      OBVIOUS
    <3> QED
      BY <1>0, <2>6, <3>1, <3>2, CallTypes, RootTyped DEF RemoveRoot
  <2>7. CASE RemoveEmptyConf
    <3>1. FALSE \in BOOLEAN
      OBVIOUS
    <3> QED
      BY <1>0, <2>7, <3>1, StepTypes, FlagsTyped DEF RemoveEmptyConf
  <2> QED
    BY <1>3, <2>1, <2>2, <2>3, <2>4, <2>5, <2>6, <2>7 DEF RemoveStep
<1>4. CASE StopStep
  <2>1. CASE Fail \/ Crash
    BY <1>0, <2>1, StopTypes DEF Fail, Crash
  <2>2. CASE CutRemoveConf
    <3>1. PICK gone \in SUBSET ConfigFiles :
            Stop("idle", [disk EXCEPT !.conf =
                            [f \in ConfigFiles |-> IF f \in gone THEN "none" ELSE @[f]]])
      BY <2>2, Zenon DEF CutRemoveConf
    <3> DEFINE c == [f \in ConfigFiles |-> IF f \in gone THEN "none" ELSE disk.conf[f]]
    <3>2. c \in [ConfigFiles -> {"none", "torn", "whole"}]
      BY <1>0 DEF Disks
    <3>3. Stop("idle", [disk EXCEPT !.conf = c])
      BY <3>1, Zenon
    <3> HIDE DEF c
    <3> QED
      BY <1>0, <3>2, <3>3, ConfTyped, StopTypes
  <2>3. CASE CutRemoveRoot
    <3>1. PICK json \in BOOLEAN, current \in BOOLEAN, previous \in BOOLEAN,
               trees \in SUBSET Releases :
            Stop("idle", [disk EXCEPT !.managed = @ /\ ~json,
                                      !.current = IF current THEN None ELSE @,
                                      !.previous = IF previous THEN None ELSE @,
                                      !.complete = @ \ trees])
      BY <2>3, Zenon DEF CutRemoveRoot
    <3> DEFINE m == disk.managed /\ ~json
               c == IF current THEN None ELSE disk.current
               p == IF previous THEN None ELSE disk.previous
               t == disk.complete \ trees
               cut == [disk EXCEPT !.managed = m, !.current = c, !.previous = p, !.complete = t]
    <3>2. /\ c \in Releases \cup {None}
          /\ p \in Releases \cup {None}
          /\ t \in SUBSET Releases
      BY <1>0 DEF Disks
    <3>3. m \in BOOLEAN
      OBVIOUS
    <3>4. Stop("idle", cut)
      BY <3>1, Zenon
    <3>5. cut \in Disks
      <4> HIDE DEF m, c, p, t
      <4> QED
        BY <1>0, <3>2, <3>3, RootTyped
    <3> HIDE DEF cut
    <3> QED
      BY <1>0, <3>4, <3>5, StopTypes
  <2> QED
    BY <1>4, <2>1, <2>2, <2>3 DEF StopStep
<1>5. CASE Host
  <2>1. ASSUME NEW dm \in DisplayManagers, AdminSelects(dm)
        PROVE  TypeOK'
    <3>1. dm \in DisplayManagers \cup {Akari, None} /\ {dm} \cap Wanted \in SUBSET Wanted
      BY <2>1
    <3>2. disk' \in Disks
      BY <1>0, <2>1, <3>1, LinkTyped DEF AdminSelects
    <3>3. disk'.link = dm /\ disk'.wants = {dm} \cap Wanted
      BY <1>0, <2>1 DEF AdminSelects, Disks
    <3>4. local' \in Locals
      BY <2>1, <3>2, KnowsTyped DEF AdminSelects
    <3> QED
      BY <1>0, <2>1, <3>2, <3>3, <3>4 DEF AdminSelects, Selection, TypeOK
  <2>2. CASE AdminEditsPam
    <3>1. edits' \in 0..MaxEdits
      BY <1>0, <2>2, EditsAssumption DEF AdminEditsPam, TypeOK
    <3>2. disk' \in Disks
      BY <1>0, <2>2, <3>1, PamTyped, TRUE \in BOOLEAN DEF AdminEditsPam
    <3>3. local' \in Locals
      BY <1>0, <2>2, <3>2, KnowsTyped DEF AdminEditsPam, TypeOK
    <3>4. overtaken' \in BOOLEAN
      BY <2>2, Zenon DEF AdminEditsPam, HoldsPolicy
    <3> QED
      BY <1>0, <2>2, <3>1, <3>2, <3>3, <3>4 DEF AdminEditsPam, TypeOK
  <2>3. CASE Reboot
    BY <1>0, <2>3 DEF Reboot, TypeOK
  <2> QED
    BY <1>5, <2>1, <2>2, <2>3 DEF Host
<1> QED
  BY <1>1, <1>2, <1>3, <1>4, <1>5 DEF Next

\* A step that leaves the login service alone, and the installation if there is a
\* snapshot, leaves the choice where it was.
LEMMA ChoiceKept ==
  ASSUME SwitchFits, UNCHANGED chosen, pc' \notin Switching \cup Restoring,
         disk'.link = disk.link, disk'.wants = disk.wants, disk'.snapshot = disk.snapshot,
         disk.snapshot # NoSnapshot => disk'.managed
  PROVE  SwitchFits'
BY DEF SwitchFits, Selection, Switching, Restoring

\* No step loses the choice: a switch has saved it before it changes a link, and
\* drops the snapshot only once the links are what they were, whether or not
\* systemctl has done what it was told.
LEMMA SwitchInv ==
  ASSUME Inv, Next
  PROVE  SwitchFits'
<1> USE UnitsAssumption
    DEF Start, Call, Step, StepKnowing, StepOrEnd, Stop, Inv, TypeOK, Disks, Snapshots,
      NoSnapshot, SwitchFits, SnapshotOf, Selection, Switching, Restoring, Preparing, Deploying,
      Undoing, Deleting, Swapping, Points
<1>1. CASE SwitchStep
  <2>1. CASE EnableLogin
    BY <2>1 DEF EnableLogin, Knows
  <2>2. CASE SaveSnapshot
    BY <2>2 DEF SaveSnapshot, Enabled
  <2>3. CASE DisableOld
    BY <2>3 DEF DisableOld, Disable
  <2>4. CASE EnableAkari
    <3>1. PICK d \in {disk, Enable(disk, Akari)}, to \in {"idle", "disableAkari"} :
            Step("enableAkari", to, d)
      BY <2>4, ZenonT(40) DEF EnableAkari, Systemctl
    <3>2. CASE d = disk
      BY <3>1, <3>2
    <3>3. CASE d = Enable(disk, Akari)
      BY <3>1, <3>3 DEF Enable
    <3> QED
      BY <3>2, <3>3
  <2>5. CASE DisableLogin
    BY <2>5 DEF DisableLogin, MayDisable
  <2>6. CASE DisableAkari
    <3>0. /\ disk.snapshot = SnapshotOf(chosen.link)
          /\ pc = "disableAkari"
          /\ ~disk.snapshot.enabled => chosen.wants = {} /\ disk.wants = {}
      BY <2>6 DEF DisableAkari
    <3>1. CASE disk.snapshot.target = None
      <4>1. Step("disableAkari", "dropSnapshot", Disable(disk, Akari))
        BY <2>6, <3>1, Zenon DEF DisableAkari
      <4>2. chosen.link = None /\ chosen.wants = {} /\ disk.wants = {} /\ disk.link \in
        {None, Akari}
        BY <3>0, <3>1
      <4> QED
        BY <3>0, <3>1, <4>1, <4>2 DEF Disable
    <3>2. CASE disk.snapshot.target # None
      <4>1. PICK d \in {disk, Disable(disk, Akari)} :
              Step("disableAkari", IF disk.snapshot.enabled THEN "enableOld" ELSE "relink", d)
        BY <2>6, <3>2, Zenon DEF DisableAkari, Systemctl
      <4>2. CASE d = disk
        BY <3>0, <4>1, <4>2
      <4>3. CASE d = Disable(disk, Akari)
        BY <3>0, <4>1, <4>3 DEF Disable
      <4> QED
        BY <4>2, <4>3
    <3> QED
      BY <3>1, <3>2
  <2>7. CASE EnableOld
    BY <2>7 DEF EnableOld, Enable
  <2>8. CASE Relink
    BY <2>8, SMTT(30) DEF Relink
  <2>9. CASE DropSnapshot
    BY <2>9 DEF DropSnapshot
  <2> QED
    BY <1>1, <2>1, <2>2, <2>3, <2>4, <2>5, <2>6, <2>7, <2>8, <2>9 DEF SwitchStep
<1>2. CASE DeployStep
  <2>1. ASSUME NEW block \in BOOLEAN, NEW wanted \in SUBSET ConfigFiles,
               Install(block, wanted) \/ ConfigureKeyring(block)
        PROVE  SwitchFits'
    BY <2>1, ChoiceKept DEF Install, ConfigureKeyring
  <2>2. CASE MakeConf
    BY <2>2, ChoiceKept DEF MakeConf
  <2>3. CASE MakeRoot
    BY <2>3, ChoiceKept DEF MakeRoot
  <2>4. CASE MakeRelease
    BY <2>4, ChoiceKept DEF MakeRelease
  <2>5. CASE CopyRelease
    BY <2>5, ChoiceKept DEF CopyRelease
  <2>6. CASE OpenConfig
    BY <2>6, ChoiceKept DEF OpenConfig
  <2>7. CASE FillConfig
    BY <2>7, ChoiceKept DEF FillConfig
  <2>8. CASE OpenUnit \/ CopyUnit \/ UpdatePam
    BY <2>8, ChoiceKept DEF OpenUnit, CopyUnit, UpdatePam
  <2>9. CASE LinkCurrent \/ Register \/ KeepPrevious
    BY <2>9, ChoiceKept DEF LinkCurrent, Register, KeepPrevious
  <2>10. CASE UndoPam \/ UndoCurrent
    BY <2>10, ChoiceKept DEF UndoPam, UndoCurrent
  <2>11. CASE UnlinkUnit \/ ReopenUnit \/ UndoUnit
    BY <2>11, ChoiceKept DEF UnlinkUnit, ReopenUnit, UndoUnit
  <2>12. CASE UndoConfig \/ UndoRelease
    BY <2>12, ChoiceKept DEF UndoConfig, UndoRelease
  <2>13. CASE UndoDir \/ Raise
    BY <2>13, ChoiceKept DEF UndoDir, Raise
  <2>14. CASE UpdateKeyring
    BY <2>14, ChoiceKept DEF UpdateKeyring
  <2>15. CASE RollbackInstallation
    BY <2>15, ChoiceKept DEF RollbackInstallation
  <2>16. CASE SwapCurrent \/ SwapPrevious
    BY <2>16, ChoiceKept DEF SwapCurrent, SwapPrevious
  <2> QED
    BY SMTT(30), <1>2, <2>1, <2>2, <2>3, <2>4, <2>5, <2>6, <2>7, <2>8, <2>9, <2>10, <2>11, <2>12,
       <2>13, <2>14, <2>15, <2>16, Zenon
    DEF DeployStep
<1>3. CASE RemoveStep
  <2>1. CASE RemoveInstallation
    BY <2>1 DEF RemoveInstallation, MayDisable
  <2>2. CASE ReadPam \/ CleanPam
    BY <2>2, ChoiceKept DEF ReadPam, CleanPam
  <2>3. CASE RemoveUnit
    BY <2>3, ChoiceKept DEF RemoveUnit
  <2>4. CASE RemoveConf
    BY <2>4, ChoiceKept DEF RemoveConf
  <2>5. CASE RemoveRoot
    <3>1. disk.snapshot = NoSnapshot
      BY <2>5
      DEF RemoveRoot, DisksSound, Sound, DeployFits, ReleaseFits, RemoveFits, ControlFits
    <3> QED
      BY <2>5, <3>1, ChoiceKept DEF RemoveRoot
  <2>6. CASE RemoveEmptyConf
    BY <2>6, ChoiceKept DEF RemoveEmptyConf
  <2> QED
    BY <1>3, <2>1, <2>2, <2>3, <2>4, <2>5, <2>6 DEF RemoveStep
<1>4. CASE StopStep
  <2>1. CASE Fail \/ Crash
    BY <2>1 DEF Fail, Crash, Handler
  <2>2. CASE CutRemoveConf
    BY <2>2, ChoiceKept DEF CutRemoveConf
  <2>3. CASE CutRemoveRoot
    <3>1. disk.snapshot = NoSnapshot
      BY <2>3 DEF CutRemoveRoot, DisksSound, Sound, DeployFits, ReleaseFits, RemoveFits,
        ControlFits
    <3> QED
      BY <2>3, <3>1, ChoiceKept DEF CutRemoveRoot
  <2> QED
    BY <1>4, <2>1, <2>2, <2>3 DEF StopStep
<1>5. CASE Host
  <2>1. ASSUME NEW dm \in DisplayManagers, AdminSelects(dm)
        PROVE  SwitchFits'
    BY <2>1 DEF AdminSelects
  <2>2. CASE AdminEditsPam
    BY <2>2 DEF AdminEditsPam
  <2>3. CASE Reboot
    BY <2>3 DEF Reboot
  <2> QED
    BY <1>5, <2>1, <2>2, <2>3 DEF Host
<1> QED
  BY <1>1, <1>2, <1>3, <1>4, <1>5 DEF Next

\* A step that writes no policy and reads none keeps what is held of it.
LEMMA PolicyKept ==
  ASSUME PamFits, UNCHANGED <<edits, overtaken>>, disk'.pam = disk.pam,
         HoldsPolicy' => HoldsPolicy /\ local'.before.pam = local.before.pam
  PROVE  PamFits'
BY DEF PamFits

\* What a command holds of the PAM policy is what the administrator last wrote, or
\* the edit has overtaken it.
LEMMA PamInv ==
  ASSUME Inv, Next
  PROVE  PamFits'
<1> USE DEF Start, Call, Step, StepKnowing, StepOrEnd, Stop, Inv, TypeOK, Disks, Locals,
      HoldsPolicy, ControlFits, Switching, Restoring, Preparing, Deploying, Undoing,
      Deleting, Swapping, Points
<1>1. CASE SwitchStep
  <2>1. CASE EnableLogin \/ DisableLogin
    BY <2>1 DEF EnableLogin, DisableLogin, Knows, PamFits
  <2>2. CASE SaveSnapshot
    BY <2>2, PolicyKept DEF SaveSnapshot, Enabled, Disable
  <2>3. CASE DisableOld
    BY <2>3, PolicyKept DEF DisableOld, Enabled, Disable
  <2>4. CASE EnableAkari
    <3>1. PICK d \in {disk, Enable(disk, Akari)}, to \in {"idle", "disableAkari"} :
            Step("enableAkari", to, d)
      BY <2>4, ZenonT(40) DEF EnableAkari, Systemctl
    <3>2. disk'.pam = disk.pam
      BY ZenonT(40), <3>1 DEF Enable
    <3> QED
      BY <3>1, <3>2, PolicyKept
  <2>5. CASE DisableAkari
    <3>1. PICK d \in {disk, Disable(disk, Akari)},
               to \in {"dropSnapshot", "enableOld", "relink"} : Step("disableAkari", to, d)
      BY <2>5 DEF DisableAkari, Systemctl
    <3>2. disk'.pam = disk.pam
      BY ZenonT(40), <3>1 DEF Disable
    <3> QED
      BY <3>1, <3>2, PolicyKept
  <2>6. CASE EnableOld
    BY <2>6, PolicyKept DEF EnableOld, Enable
  <2>7. CASE Relink
    BY <2>7, PolicyKept DEF Relink, Enable
  <2>8. CASE DropSnapshot
    BY <2>8, PolicyKept DEF DropSnapshot, Enable
  <2> QED
    BY <1>1, <2>1, <2>2, <2>3, <2>4, <2>5, <2>6, <2>7, <2>8 DEF SwitchStep
<1>2. CASE DeployStep
  <2>1. ASSUME NEW block \in BOOLEAN, NEW wanted \in SUBSET ConfigFiles,
               Install(block, wanted) \/ ConfigureKeyring(block)
        PROVE  PamFits'
    BY <2>1 DEF Install, ConfigureKeyring, Knows, PamFits
  <2>2. CASE RollbackInstallation
    BY <2>2 DEF RollbackInstallation, Knows, PamFits
  <2>3. CASE MakeConf \/ MakeRoot \/ MakeRelease \/ CopyRelease
    BY <2>3, PolicyKept DEF MakeConf, MakeRoot, MakeRelease, CopyRelease
  <2>4. CASE OpenConfig
    BY <2>4, PolicyKept DEF OpenConfig
  <2>5. CASE FillConfig
    BY ZenonT(40), <2>5, PolicyKept DEF FillConfig
  <2>6. CASE OpenUnit \/ CopyUnit
    BY <2>6, PolicyKept DEF OpenUnit, CopyUnit
  <2>7. CASE LinkCurrent \/ Register \/ KeepPrevious
    BY <2>7, PolicyKept DEF LinkCurrent, Register, KeepPrevious
  <2>8. CASE UpdatePam \/ UpdateKeyring \/ UndoPam
    BY <2>8 DEF UpdatePam, UpdateKeyring, UndoPam, PamFits
  <2>9. CASE UndoCurrent \/ UnlinkUnit \/ ReopenUnit \/ UndoUnit
    BY <2>9, PolicyKept DEF UndoCurrent, UnlinkUnit, ReopenUnit, UndoUnit
  <2>10. CASE UndoConfig \/ UndoRelease
    BY <2>10, PolicyKept DEF UndoConfig, UndoRelease
  <2>11. CASE UndoDir \/ Raise
    BY <2>11, PolicyKept DEF UndoDir, Raise
  <2>12. CASE SwapCurrent \/ SwapPrevious
    BY <2>12, PolicyKept DEF SwapCurrent, SwapPrevious
  <2> QED
    BY <1>2, <2>1, <2>2, <2>3, <2>4, <2>5, <2>6, <2>7, <2>8, <2>9, <2>10, <2>11, <2>12
    DEF DeployStep
<1>3. CASE RemoveStep
  <2>1. CASE RemoveInstallation
    BY <2>1 DEF RemoveInstallation, Knows, PamFits
  <2>2. CASE ReadPam
    BY <2>2 DEF ReadPam, PamFits
  <2>3. CASE CleanPam
    BY <2>3 DEF CleanPam, PamFits
  <2>4. CASE RemoveUnit
    BY <2>4, PolicyKept DEF RemoveUnit
  <2>5. CASE RemoveConf
    BY <2>5, PolicyKept DEF RemoveConf
  <2>6. CASE RemoveRoot
    BY <2>6, PolicyKept DEF RemoveRoot
  <2>7. CASE RemoveEmptyConf
    BY <2>7, PolicyKept DEF RemoveEmptyConf
  <2> QED
    BY <1>3, <2>1, <2>2, <2>3, <2>4, <2>5, <2>6, <2>7 DEF RemoveStep
<1>4. CASE StopStep
  <2>1. CASE Fail \/ Crash
    BY <2>1, PolicyKept DEF Fail, Crash, Handler
  <2>2. CASE CutRemoveConf
    BY <2>2, PolicyKept DEF CutRemoveConf
  <2>3. CASE CutRemoveRoot
    BY <2>3, PolicyKept DEF CutRemoveRoot
  <2> QED
    BY <1>4, <2>1, <2>2, <2>3 DEF StopStep
<1>5. CASE Host
  <2>1. ASSUME NEW dm \in DisplayManagers, AdminSelects(dm)
        PROVE  PamFits'
    BY <2>1, PolicyKept DEF AdminSelects
  <2>2. CASE AdminEditsPam
    BY <2>2, EditsAssumption DEF AdminEditsPam, PamFits
  <2>3. CASE Reboot
    BY <2>3, PolicyKept DEF Reboot
  <2> QED
    BY <1>5, <2>1, <2>2, <2>3 DEF Host
<1> QED
  BY <1>1, <1>2, <1>3, <1>4, <1>5 DEF Next

\* Both disks are sound when a command goes on,
LEMMA SoundOn ==
  ASSUME DisksSound, Sound(disk)', local'.before = local.before,
         UNCHANGED <<op, running, stopped>>, removing => removing', disk'.unit = Torn => stopped \/ op = "install"
  PROVE  DisksSound'
BY DEF DisksSound, Sound

\* and when none is running.
LEMMA SoundAtRest ==
  ASSUME Sound(disk)', local' = AtRest(disk'), disk'.unit = Torn => stopped'
  PROVE  DisksSound'
BY DEF DisksSound, Sound, AtRest, Knows

\* No step breaks the installation unless a removal has begun, or takes the unit
\* from a login service that is selected; and a unit is cut short only while a
\* deployment runs, or once one has stopped.
LEMMA SoundInv ==
  ASSUME Inv, Next
  PROVE  DisksSound'
<1> USE UnitsAssumption
    DEF Start, Call, Step, StepKnowing, StepOrEnd, Stop, Knows, AtRest, Inv, TypeOK, Disks,
      Locals, DisksSound, Sound, ControlFits, Required, Switching, Restoring, Preparing,
      Deploying, Undoing, Deleting, Swapping, Points
<1>1. CASE SwitchStep
  <2>1. CASE EnableLogin
    BY <2>1 DEF EnableLogin
  <2>2. CASE SaveSnapshot
    BY <2>2 DEF SaveSnapshot, Enabled
  <2>3. CASE DisableOld
    BY <2>3 DEF DisableOld, Disable
  <2>4. CASE EnableAkari
    <3>1. PICK d \in {disk, Enable(disk, Akari)}, to \in {"idle", "disableAkari"} :
            Step("enableAkari", to, d)
      BY <2>4, ZenonT(40) DEF EnableAkari, Systemctl
    <3>2. disk.managed /\ disk.unit # None
      BY <2>4 DEF EnableAkari, SwitchFits
    <3>3. Sound(disk)' /\ disk'.unit = disk.unit
      <4>1. CASE d = disk
        BY <3>1, <4>1
      <4>2. CASE d = Enable(disk, Akari)
        BY <3>1, <3>2, <4>2 DEF Enable
      <4> QED
        BY <3>1, <4>1, <4>2
    <3>4. op # "install"
      BY <3>1
    <3> QED
      BY <3>1, <3>3, <3>4, SoundOn, SoundAtRest
  <2>5. CASE DisableLogin
    BY <2>5 DEF DisableLogin, MayDisable
  <2>6. CASE DisableAkari
    <3>1. PICK d \in {disk, Disable(disk, Akari)},
               to \in {"dropSnapshot", "enableOld", "relink"} : Step("disableAkari", to, d)
      BY <2>6 DEF DisableAkari, Systemctl
    <3>2. Sound(disk)' /\ disk'.unit = disk.unit
      <4>1. CASE d = disk
        BY <3>1, <4>1
      <4>2. CASE d = Disable(disk, Akari)
        BY <3>1, <4>2 DEF Disable
      <4> QED
        BY <3>1, <4>1, <4>2
    <3> QED
      BY <3>1, <3>2, SoundOn
  <2>7. CASE EnableOld
    <3>1. disk.snapshot.target # Akari
      BY <2>7 DEF EnableOld, SwitchFits, SnapshotOf
    <3> QED
      BY <2>7, <3>1 DEF EnableOld, Enable
  <2>8. CASE Relink
    <3>1. disk.snapshot.target # Akari
      BY <2>8 DEF Relink, SwitchFits, SnapshotOf
    <3> QED
      BY <2>8, <3>1 DEF Relink
  <2>9. CASE DropSnapshot
    BY <2>9 DEF DropSnapshot
  <2> QED
    BY <1>1, <2>1, <2>2, <2>3, <2>4, <2>5, <2>6, <2>7, <2>8, <2>9, Zenon DEF SwitchStep
<1>2. CASE DeployStep
  <2>1. ASSUME NEW block \in BOOLEAN, NEW wanted \in SUBSET ConfigFiles,
               Install(block, wanted) \/ ConfigureKeyring(block)
        PROVE  DisksSound'
    BY <2>1 DEF Install, ConfigureKeyring
  <2>2. CASE RollbackInstallation
    BY <2>2 DEF RollbackInstallation
  <2>3. CASE MakeConf
    BY <2>3 DEF MakeConf
  <2>4. CASE MakeRoot
    BY <2>4 DEF MakeRoot
  <2>5. CASE MakeRelease
    BY <2>5 DEF MakeRelease, DeployFits, ReleaseFits
  <2>6. CASE CopyRelease
    BY <2>6 DEF CopyRelease, DeployFits, ReleaseFits
  <2>7. CASE OpenConfig
    BY <2>7 DEF OpenConfig, Missing, DeployFits, ConfigFits
  <2>8. CASE FillConfig
    <3> DEFINE filled == [disk EXCEPT !.conf[local.file] = "whole"]
    <3>1. /\ disk' = filled
          /\ pc' # "idle" /\ op' = op /\ local'.before = local.before
          /\ UNCHANGED <<running, removing, stopped>>
      <4>1. CASE Step("configBody", "undoPam", filled)
        BY <4>1
      <4>2. CASE StepKnowing("configBody", "configs", filled,
                             [local EXCEPT !.created = @ \cup {local.file}, !.file = None])
        BY <4>2
      <4> QED
        BY <2>8, <4>1, <4>2, Zenon DEF FillConfig
    <3>2. disk.etc
      BY <2>8 DEF FillConfig, DeployFits, ConfigFits
    <3>3. Sound(disk)'
      BY <3>1, <3>2
    <3> QED
      BY <2>8, <3>1, <3>3, SoundOn DEF FillConfig
  <2>9. CASE OpenUnit
    BY <2>9 DEF OpenUnit
  <2>10. CASE CopyUnit
    BY <2>10 DEF CopyUnit, DeployFits, ReleaseFits
  <2>11. CASE UpdatePam
    BY <2>11 DEF UpdatePam
  <2>12. CASE LinkCurrent
    BY <2>12 DEF LinkCurrent, DeployFits, ReleaseFits
  <2>13. CASE Register
    <3> DEFINE to == IF local.before.current = None THEN "idle" ELSE "keepPrevious"
    <3>1. /\ StepOrEnd("register", to, [disk EXCEPT !.managed = TRUE])
          /\ op = "install"
      BY <2>13 DEF Register
    <3>2. /\ disk.root /\ disk.etc
          /\ disk.unit = local.release /\ disk.current = local.release
          /\ local.release \in Releases /\ local.release \in disk.complete
          /\ \A f \in Required : disk.conf[f] # "none"
          /\ local.file = None
      BY <3>1 DEF DeployFits, ReleaseFits, UnitFits, ConfigFits
    <3>3. removing \/ \A f \in Required : disk.conf[f] = "whole"
      <4>1. CASE local.before.managed
        BY <3>1, <3>2, <4>1 DEF DeployFits, ConfigFits
      <4>2. CASE ~local.before.managed
        <5>1. local.before.conf = NoConfig
          BY <3>1, <4>2 DEF DeployFits, ReleaseFits
        <5>2. \A f \in ConfigFiles : local.before.conf[f] = "none"
          BY <5>1 DEF NoConfig
        <5>3. Required \subseteq ConfigFiles
          BY DEF ConfigFiles, Order
        <5>4. \A f \in Required : f \in local.created
          <6>1. \A f \in ConfigFiles :
                  disk.conf[f] # local.before.conf[f] => f \in local.created \/ f = None
            BY <3>1, <3>2 DEF DeployFits, ConfigFits
          <6> QED
            BY <3>2, <5>2, <5>3, <6>1
        <5> QED
          BY <3>1, <5>3, <5>4 DEF DeployFits, ConfigFits
      <4> QED
        BY <4>1, <4>2
    <3>4. Sound([disk EXCEPT !.managed = TRUE])
      BY <3>2, <3>3
    <3>5. removing' = removing \/ (to = "idle" /\ Intact([disk EXCEPT !.managed = TRUE]))
      BY <3>1
    <3>6. Sound(disk)'
      BY <3>1, <3>4, <3>5 DEF Intact
    <3> QED
      BY <3>1, <3>2, <3>6, SoundOn, SoundAtRest
  <2>14. CASE KeepPrevious
    <3> DEFINE kept == [disk EXCEPT !.previous = local.before.current]
    <3>1. /\ StepOrEnd("keepPrevious", "idle", kept)
          /\ op = "install"
      BY <2>14 DEF KeepPrevious
    <3>2. /\ disk.root
          /\ disk.unit = local.release /\ local.release \in Releases
          /\ local.before.complete \subseteq disk.complete
      BY <3>1 DEF DeployFits, ReleaseFits, UnitFits
    <3>3. Sound(kept)
      BY <3>2
    <3>4. Sound(disk)'
      BY <3>1, <3>3 DEF Intact
    <3> QED
      BY <3>1, <3>2, <3>4, SoundAtRest
  <2>15. CASE UndoPam
    BY <2>15 DEF UndoPam
  <2>16. CASE UndoCurrent
    BY <2>16 DEF UndoCurrent, DeployFits, ReleaseFits
  <2>17. CASE UnlinkUnit
    BY <2>17 DEF UnlinkUnit, DeployFits, ReleaseFits
  <2>18. CASE ReopenUnit
    BY <2>18 DEF ReopenUnit
  <2>19. CASE UndoUnit
    BY <2>19 DEF UndoUnit, DeployFits, UnitFits
  <2>20. CASE UndoConfig
    BY <2>20 DEF UndoConfig, DeployFits, ReleaseFits, ConfigFits
  <2>21. CASE UndoRelease
    BY <2>21 DEF UndoRelease, DeployFits, ReleaseFits
  <2>22. CASE UndoDir
    BY <2>22 DEF UndoDir, DeployFits, ReleaseFits
  <2>23. CASE Raise
    <3>1. Step("raise", "idle", disk) /\ op = "install"
      BY <2>23 DEF Raise
    <3>2. disk.unit = local.before.unit
      <4> DEFINE undone == [disk EXCEPT !.etc = local.before.etc, !.conf = local.before.conf,
                                        !.pam.own = local.before.pam.own]
      <4>1. undone.unit = disk.unit
        OBVIOUS
      <4>2. undone = local.before
        BY <3>1, Zenon DEF DeployFits, UndoneFits
      <4> HIDE DEF undone
      <4> QED
        BY <4>1, <4>2, Zenon
    <3>3. Sound(disk)'
      BY <3>1
    <3> QED
      BY <3>1, <3>2, <3>3, SoundAtRest
  <2>24. CASE UpdateKeyring
    BY <2>24 DEF UpdateKeyring
  <2>25. CASE SwapCurrent \/ SwapPrevious
    BY <2>25 DEF SwapCurrent, SwapPrevious, RemoveFits
  <2> HIDE DEF DisksSound, Inv
  <2> QED
    BY <1>2, <2>1, <2>2, <2>3, <2>4, <2>5, <2>6, <2>7, <2>8, <2>9, <2>10, <2>11, <2>12, <2>13,
       <2>14, <2>15, <2>16, <2>17, <2>18, <2>19, <2>20, <2>21, <2>22, <2>23, <2>24, <2>25
    DEF DeployStep
<1>3. CASE RemoveStep
  <2>1. CASE RemoveInstallation
    BY <2>1 DEF RemoveInstallation, MayDisable
  <2>2. CASE ReadPam \/ CleanPam
    BY <2>2 DEF ReadPam, CleanPam
  <2>3. CASE RemoveUnit
    <3>1. ~running /\ disk.link # Akari
      BY <2>3 DEF RemoveUnit, RemoveFits, SwitchFits, Selection, NoSnapshot, SnapshotOf
    <3> QED
      BY <2>3, <3>1 DEF RemoveUnit
  <2>4. CASE RemoveConf
    BY <2>4 DEF RemoveConf, RemoveFits
  <2>5. CASE RemoveRoot
    <3> DEFINE removed == [disk EXCEPT !.root = FALSE, !.managed = FALSE, !.current = None,
                                       !.previous = None, !.dirs = {}, !.complete = {}]
    <3>1. /\ Call("removeRoot", IF op = "install" THEN "removeEmptyConf" ELSE "idle", removed)
          /\ removing' = FALSE /\ stopped' = stopped
      BY <2>5, Zenon DEF RemoveRoot
    <3>2. ~running /\ disk.link # Akari
      BY <3>1 DEF RemoveFits, SwitchFits, DeployFits, ReleaseFits, Selection, NoSnapshot,
        SnapshotOf
    <3>3. Sound(disk)'
      BY <3>1, <3>2
    <3>4. CASE op = "uninstall"
      BY <3>1, <3>3, <3>4, SoundAtRest
    <3>5. CASE op = "install"
      <4>1. ~local.before.managed /\ ~local.before.root
        BY <3>1, <3>5 DEF DeployFits, ReleaseFits
      <4>2. Sound(local.before)'
        BY <3>1, <3>5, <4>1
      <4> QED
        BY <3>1, <3>3, <3>5, <4>2
    <3> QED
      BY <3>1, <3>4, <3>5
  <2>6. CASE RemoveEmptyConf
    BY <2>6 DEF RemoveEmptyConf, DeployFits, ReleaseFits, UndoneFits
  <2> QED
    BY <1>3, <2>1, <2>2, <2>3, <2>4, <2>5, <2>6 DEF RemoveStep
<1>4. CASE StopStep
  <2>1. CASE Fail \/ Crash
    <3>1. PICK to \in {"idle", "disableAkari", "undoPam"} : pc # "idle" /\ Stop(to, disk)
      BY <2>1 DEF Fail, Crash, Handler
    <3>2. Sound(disk)'
      BY <3>1
    <3>3. CASE to = "idle"
      BY <3>1, <3>2, <3>3, SoundAtRest
    <3>4. CASE to # "idle"
      BY <3>1, <3>2, <3>4, SoundOn
    <3> QED
      BY <3>3, <3>4
  <2>2. CASE CutRemoveConf
    <3>1. /\ pc = "removeConf" /\ op = "uninstall" /\ removing
          /\ local' = AtRest(disk')
          /\ UNCHANGED <<running, removing>> /\ stopped' = stopped
      BY <2>2 DEF CutRemoveConf, RemoveFits
    <3>2. PICK gone \in SUBSET ConfigFiles :
            disk' = [disk EXCEPT !.conf =
                       [f \in ConfigFiles |-> IF f \in gone THEN "none" ELSE @[f]]]
      BY <2>2 DEF CutRemoveConf
    <3>3. disk.conf = NoConfig => disk'.conf = NoConfig
      BY <3>2 DEF NoConfig
    <3>4. Sound(disk)'
      BY <3>1, <3>2, <3>3
    <3>5. disk'.unit = disk.unit
      BY <3>2
    <3> QED
      BY <3>1, <3>4, <3>5, SoundAtRest
  <2>3. CASE CutRemoveRoot
    <3>1. PICK json \in BOOLEAN, current \in BOOLEAN, previous \in BOOLEAN,
               trees \in SUBSET Releases :
            Stop("idle", [disk EXCEPT !.managed = @ /\ ~json,
                                      !.current = IF current THEN None ELSE @,
                                      !.previous = IF previous THEN None ELSE @,
                                      !.complete = @ \ trees])
      BY <2>3, Zenon DEF CutRemoveRoot
    <3>2. pc = "removeRoot" /\ op \in {"install", "uninstall"}
      BY <2>3, Zenon DEF CutRemoveRoot
    <3>3. Sound(disk)'
      <4>1. CASE op = "uninstall"
        <5>1. ~running /\ disk.link # Akari
          BY <3>2, <4>1 DEF RemoveFits, SwitchFits, Selection, NoSnapshot, SnapshotOf
        <5>2. removing
          BY <3>2, <4>1 DEF RemoveFits
        <5> QED
          BY <3>1, <5>1, <5>2
      <4>2. CASE op = "install"
        <5>1. ~disk.managed /\ disk.current = None /\ disk.previous = None
          BY <3>2, <4>2 DEF DeployFits, ReleaseFits
        <5> QED
          BY <3>1, <5>1
      <4> QED
        BY <3>2, <4>1, <4>2
    <3>4. disk'.unit = disk.unit
      BY <3>1
    <3> QED
      BY <3>1, <3>2, <3>3, <3>4, SoundAtRest
  <2> QED
    BY <1>4, <2>1, <2>2, <2>3 DEF StopStep
<1>5. CASE Host
  <2>1. ASSUME NEW dm \in DisplayManagers, AdminSelects(dm)
        PROVE  DisksSound'
    BY ZenonT(40), <2>1 DEF AdminSelects
  <2>2. CASE AdminEditsPam
    BY <2>2 DEF AdminEditsPam
  <2>3. CASE Reboot
    <3>1. Sound(disk)'
      BY <2>3 DEF Reboot
    <3>2. /\ local' = AtRest(disk') /\ stopped' = stopped
          /\ disk' = disk /\ op = "none"
      BY <2>3 DEF Reboot
    <3> QED
      BY <3>1, <3>2, SoundAtRest
  <2> QED
    BY <1>5, <2>1, <2>2, <2>3 DEF Host
<1> QED
  BY <1>1, <1>2, <1>3, <1>4, <1>5 DEF Next

\* The steps of a deployment that goes on.
DeployGoesOn ==
  \/ MakeConf \/ MakeRoot \/ MakeRelease \/ CopyRelease
  \/ OpenConfig \/ FillConfig \/ OpenUnit \/ CopyUnit
  \/ UpdatePam \/ LinkCurrent \/ Register
  \/ UndoPam \/ UndoCurrent \/ UnlinkUnit \/ ReopenUnit \/ UndoUnit
  \/ UndoConfig \/ UndoRelease \/ UndoDir
  \/ RemoveRoot \/ RemoveEmptyConf
  \/ Fail \/ AdminEditsPam

\* While a deployment runs no other command does.
LEMMA DeploySteps ==
  ASSUME TypeOK, ControlFits, Next, op' = "install"
  PROVE  \/ \E block \in BOOLEAN, wanted \in SUBSET ConfigFiles : Install(block, wanted)
         \/ op = "install" /\ pc' # "idle" /\ DeployGoesOn
<1> USE DEF Start, Call, Step, StepKnowing, StepOrEnd, Stop, ControlFits, Switching,
      Restoring, Preparing, Deploying, Undoing, Deleting, Swapping, Points
<1>1. CASE SwitchStep
  BY <1>1
  DEF SwitchStep, EnableLogin, SaveSnapshot, DisableOld, EnableAkari, DisableLogin,
    DisableAkari, EnableOld, Relink, DropSnapshot
<1>2. CASE DeployStep
  <2>1. ASSUME NEW block \in BOOLEAN, ConfigureKeyring(block)
        PROVE  FALSE
    BY <2>1 DEF ConfigureKeyring
  <2>2. CASE KeepPrevious \/ Raise
    BY <2>2 DEF KeepPrevious, Raise
  <2>3. CASE UpdateKeyring \/ RollbackInstallation \/ SwapCurrent \/ SwapPrevious
    BY <2>3 DEF UpdateKeyring, RollbackInstallation, SwapCurrent, SwapPrevious
  <2>4. CASE DeployGoesOn
    <3>1. op = "install"
      BY <2>4
      DEF DeployGoesOn, MakeConf, MakeRoot, MakeRelease, CopyRelease, OpenConfig, FillConfig,
        OpenUnit, CopyUnit, UpdatePam, LinkCurrent, Register, UndoPam, UndoCurrent,
        UnlinkUnit, ReopenUnit, UndoUnit, UndoConfig, UndoRelease, UndoDir, RemoveRoot,
        RemoveEmptyConf, Fail, AdminEditsPam
    <3>2. pc' # "idle"
      BY <2>4, <3>1
      DEF DeployGoesOn, MakeConf, MakeRoot, MakeRelease, CopyRelease, OpenConfig, FillConfig,
        OpenUnit, CopyUnit, UpdatePam, LinkCurrent, Register, UndoPam, UndoCurrent,
        UnlinkUnit, ReopenUnit, UndoUnit, UndoConfig, UndoRelease, UndoDir, RemoveRoot,
        RemoveEmptyConf, Fail, AdminEditsPam
    <3> QED
      BY <2>4, <3>1, <3>2
  <2> HIDE DEF ControlFits
  <2> QED
    BY <1>2, <2>1, <2>2, <2>3, <2>4, Zenon DEF DeployStep, DeployGoesOn
<1>3. CASE RemoveStep
  BY <1>3
  DEF RemoveStep, RemoveInstallation, ReadPam, CleanPam, RemoveUnit, RemoveConf, RemoveRoot,
    RemoveEmptyConf, DeployGoesOn
<1>4. CASE StopStep
  BY <1>4 DEF StopStep, Fail, Crash, CutRemoveConf, CutRemoveRoot, DeployGoesOn
<1>5. CASE Host
  BY <1>5 DEF Host, AdminSelects, AdminEditsPam, Reboot, DeployGoesOn
<1> QED
  BY <1>1, <1>2, <1>3, <1>4, <1>5 DEF Next

\* A deployment adds its release to those it found, and undoing removes it again.
LEMMA ReleaseInv ==
  ASSUME Inv, Next, op' = "install"
  PROVE  ReleaseFits'
<1>1. \/ \E block \in BOOLEAN, wanted \in SUBSET ConfigFiles : Install(block, wanted)
      \/ op = "install" /\ pc' # "idle" /\ DeployGoesOn
  BY DeploySteps DEF Inv
<1> USE DEF Start, Call, Step, StepKnowing, StepOrEnd, Stop, Knows, AtRest, Inv, TypeOK,
      Disks, Locals, ControlFits,
      DeployFits, ReleaseFits, DisksSound, Sound,
      Switching, Restoring, Preparing, Deploying, Undoing, Deleting, Swapping, Points
<1>2. ASSUME NEW block \in BOOLEAN, NEW wanted \in SUBSET ConfigFiles, Install(block, wanted)
      PROVE  ReleaseFits'
  BY <1>2 DEF Install
<1>3. CASE op = "install" /\ pc' # "idle" /\ (MakeConf \/ MakeRoot)
  BY <1>3 DEF MakeConf, MakeRoot
<1>4. CASE op = "install" /\ pc' # "idle" /\ (MakeRelease \/ CopyRelease)
  BY <1>4 DEF MakeRelease, CopyRelease
<1>5. CASE op = "install" /\ pc' # "idle" /\ OpenConfig
  BY <1>5 DEF OpenConfig
<1>6. CASE op = "install" /\ pc' # "idle" /\ FillConfig
  BY ZenonT(40), <1>6 DEF FillConfig
<1>7. CASE op = "install" /\ pc' # "idle" /\ OpenUnit
  BY <1>7 DEF OpenUnit
<1>8. CASE op = "install" /\ pc' # "idle" /\ CopyUnit
  BY <1>8 DEF CopyUnit
<1>9. CASE op = "install" /\ pc' # "idle" /\ UpdatePam
  BY <1>9 DEF UpdatePam
<1>10. CASE op = "install" /\ pc' # "idle" /\ LinkCurrent
  BY <1>10 DEF LinkCurrent
<1>11. CASE op = "install" /\ pc' # "idle" /\ Register
  BY <1>11 DEF Register
<1>12. CASE op = "install" /\ pc' # "idle" /\ (UndoPam \/ UndoCurrent)
  BY <1>12 DEF UndoPam, UndoCurrent
<1>13. CASE op = "install" /\ pc' # "idle" /\ (UnlinkUnit \/ ReopenUnit)
  BY <1>13 DEF UnlinkUnit, ReopenUnit
<1>14. CASE op = "install" /\ pc' # "idle" /\ UndoUnit
  BY <1>14 DEF UndoUnit
<1>15. CASE op = "install" /\ pc' # "idle" /\ UndoConfig
  BY <1>15 DEF UndoConfig
<1>16. CASE op = "install" /\ pc' # "idle" /\ UndoRelease
  BY <1>16 DEF UndoRelease
<1>17. CASE op = "install" /\ pc' # "idle" /\ UndoDir
  BY <1>17 DEF UndoDir
<1>18. CASE op = "install" /\ pc' # "idle" /\ RemoveRoot
  BY <1>18 DEF RemoveRoot
<1>19. CASE op = "install" /\ pc' # "idle" /\ RemoveEmptyConf
  BY <1>19 DEF RemoveEmptyConf
<1>20. CASE op = "install" /\ pc' # "idle" /\ Fail
  BY <1>20 DEF Fail, Handler
<1>21. CASE op = "install" /\ pc' # "idle" /\ AdminEditsPam
  BY <1>21 DEF AdminEditsPam
<1> HIDE DEF Inv, ReleaseFits, DisksSound, ControlFits, TypeOK
<1> QED
  BY <1>1, <1>2, <1>3, <1>4, <1>5, <1>6, <1>7, <1>8, <1>9, <1>10, <1>11, <1>12, <1>13,
     <1>14, <1>15, <1>16, <1>17, <1>18, <1>19, <1>20, <1>21, Zenon
  DEF DeployGoesOn

\* The unit is what a deployment found, cut short, or the one it has written; the
\* undo puts it back in two steps.
LEMMA UnitInv ==
  ASSUME Inv, Next, op' = "install"
  PROVE  UnitFits'
<1>1. \/ \E block \in BOOLEAN, wanted \in SUBSET ConfigFiles : Install(block, wanted)
      \/ op = "install" /\ pc' # "idle" /\ DeployGoesOn
  BY DeploySteps DEF Inv
<1> USE DEF Start, Call, Step, StepKnowing, StepOrEnd, Stop, Knows, AtRest, Inv, TypeOK,
      Disks, Locals, ControlFits,
      DeployFits, ReleaseFits, UnitFits, DisksSound, Sound,
      Switching, Restoring, Preparing, Deploying, Undoing, Deleting, Swapping, Points
<1>2. ASSUME NEW block \in BOOLEAN, NEW wanted \in SUBSET ConfigFiles, Install(block, wanted)
      PROVE  UnitFits'
  BY <1>2 DEF Install
<1>3. CASE op = "install" /\ pc' # "idle" /\ (MakeConf \/ MakeRoot)
  BY <1>3 DEF MakeConf, MakeRoot
<1>4. CASE op = "install" /\ pc' # "idle" /\ (MakeRelease \/ CopyRelease)
  BY <1>4 DEF MakeRelease, CopyRelease
<1>5. CASE op = "install" /\ pc' # "idle" /\ OpenConfig
  BY <1>5 DEF OpenConfig
<1>6. CASE op = "install" /\ pc' # "idle" /\ FillConfig
  BY <1>6 DEF FillConfig
<1>7. CASE op = "install" /\ pc' # "idle" /\ OpenUnit
  BY <1>7 DEF OpenUnit
<1>8. CASE op = "install" /\ pc' # "idle" /\ CopyUnit
  BY <1>8 DEF CopyUnit
<1>9. CASE op = "install" /\ pc' # "idle" /\ UpdatePam
  BY <1>9 DEF UpdatePam
<1>10. CASE op = "install" /\ pc' # "idle" /\ LinkCurrent
  BY <1>10 DEF LinkCurrent
<1>11. CASE op = "install" /\ pc' # "idle" /\ Register
  BY <1>11 DEF Register
<1>12. CASE op = "install" /\ pc' # "idle" /\ (UndoPam \/ UndoCurrent)
  BY <1>12 DEF UndoPam, UndoCurrent
<1>13. CASE op = "install" /\ pc' # "idle" /\ (UnlinkUnit \/ ReopenUnit)
  BY <1>13 DEF UnlinkUnit, ReopenUnit
<1>14. CASE op = "install" /\ pc' # "idle" /\ UndoUnit
  BY <1>14 DEF UndoUnit
<1>15. CASE op = "install" /\ pc' # "idle" /\ UndoConfig
  BY <1>15 DEF UndoConfig
<1>16. CASE op = "install" /\ pc' # "idle" /\ UndoRelease
  BY <1>16 DEF UndoRelease
<1>17. CASE op = "install" /\ pc' # "idle" /\ UndoDir
  BY <1>17 DEF UndoDir
<1>18. CASE op = "install" /\ pc' # "idle" /\ RemoveRoot
  BY <1>18 DEF RemoveRoot
<1>19. CASE op = "install" /\ pc' # "idle" /\ RemoveEmptyConf
  BY <1>19 DEF RemoveEmptyConf
<1>20. CASE op = "install" /\ pc' # "idle" /\ Fail
  BY <1>20 DEF Fail, Handler
<1>21. CASE op = "install" /\ pc' # "idle" /\ AdminEditsPam
  BY <1>21 DEF AdminEditsPam
<1> HIDE DEF Inv, ReleaseFits, UnitFits, DisksSound, ControlFits, TypeOK
<1> QED
  BY <1>1, <1>2, <1>3, <1>4, <1>5, <1>6, <1>7, <1>8, <1>9, <1>10, <1>11, <1>12, <1>13,
     <1>14, <1>15, <1>16, <1>17, <1>18, <1>19, <1>20, <1>21, Zenon
  DEF DeployGoesOn

\* A deployment adds what was missing of the configuration; all that it adds is
\* listed in `created` but for the file whose copy or chmod failed.
LEMMA ConfigInv ==
  ASSUME Inv, Next, op' = "install"
  PROVE  ConfigFits'
<1>1. \/ \E block \in BOOLEAN, wanted \in SUBSET ConfigFiles : Install(block, wanted)
      \/ op = "install" /\ pc' # "idle" /\ DeployGoesOn
  BY DeploySteps DEF Inv
<1> USE UnitsAssumption
    DEF Start, Call, Step, StepKnowing, StepOrEnd, Stop, Knows, AtRest, Inv, TypeOK,
      Disks, Locals, ControlFits,
      DeployFits, ConfigFits, DisksSound, Sound,
      Switching, Restoring, Preparing, Deploying, Undoing, Deleting, Swapping, Points
<1>2. ASSUME NEW block \in BOOLEAN, NEW wanted \in SUBSET ConfigFiles, Install(block, wanted)
      PROVE  ConfigFits'
  BY <1>2 DEF Install
<1>3. CASE op = "install" /\ pc' # "idle" /\ (MakeConf \/ MakeRoot)
  BY <1>3 DEF MakeConf, MakeRoot
<1>4. CASE op = "install" /\ pc' # "idle" /\ (MakeRelease \/ CopyRelease)
  BY <1>4 DEF MakeRelease, CopyRelease
<1>5. CASE op = "install" /\ pc' # "idle" /\ OpenConfig
  BY <1>5 DEF OpenConfig, Missing
<1>6. CASE op = "install" /\ pc' # "idle" /\ FillConfig
  <2> DEFINE filled == [disk EXCEPT !.conf[local.file] = "whole"]
             knows == [local EXCEPT !.created = @ \cup {local.file}, !.file = None]
  <2>1. /\ pc = "configBody"
        /\ disk' = filled
        /\ \/ pc' = "configs" /\ local' = knows
           \/ pc' = "undoPam" /\ local' = local
    BY <1>6, Zenon DEF FillConfig
  <2>2. /\ local.file \in ConfigFiles
        /\ local.before.conf[local.file] = "none"
        /\ local.file \notin local.created
    BY <1>6, <2>1
  <2>3. \A f \in ConfigFiles : filled.conf[f] = IF f = local.file THEN "whole" ELSE disk.conf[f]
    BY <2>2
  <2>4. CASE pc' = "undoPam" /\ local' = local
    BY <1>6, <2>1, <2>2, <2>3, <2>4
  <2>5. CASE pc' = "configs" /\ local' = knows
    BY <1>6, <2>1, <2>2, <2>3, <2>5
  <2> QED
    BY <2>1, <2>4, <2>5
<1>7. CASE op = "install" /\ pc' # "idle" /\ OpenUnit
  BY <1>7 DEF OpenUnit, Missing
<1>8. CASE op = "install" /\ pc' # "idle" /\ CopyUnit
  BY <1>8 DEF CopyUnit
<1>9. CASE op = "install" /\ pc' # "idle" /\ UpdatePam
  BY <1>9 DEF UpdatePam
<1>10. CASE op = "install" /\ pc' # "idle" /\ LinkCurrent
  BY <1>10 DEF LinkCurrent
<1>11. CASE op = "install" /\ pc' # "idle" /\ Register
  BY <1>11 DEF Register
<1>12. CASE op = "install" /\ pc' # "idle" /\ (UndoPam \/ UndoCurrent)
  BY <1>12 DEF UndoPam, UndoCurrent
<1>13. CASE op = "install" /\ pc' # "idle" /\ (UnlinkUnit \/ ReopenUnit)
  BY <1>13 DEF UnlinkUnit, ReopenUnit
<1>14. CASE op = "install" /\ pc' # "idle" /\ UndoUnit
  BY <1>14 DEF UndoUnit
<1>15. CASE op = "install" /\ pc' # "idle" /\ UndoConfig
  BY <1>15 DEF UndoConfig
<1>16. CASE op = "install" /\ pc' # "idle" /\ UndoRelease
  BY <1>16 DEF UndoRelease
<1>17. CASE op = "install" /\ pc' # "idle" /\ UndoDir
  BY <1>17 DEF UndoDir
<1>18. CASE op = "install" /\ pc' # "idle" /\ RemoveRoot
  BY <1>18 DEF RemoveRoot
<1>19. CASE op = "install" /\ pc' # "idle" /\ RemoveEmptyConf
  BY <1>19 DEF RemoveEmptyConf
<1>20. CASE op = "install" /\ pc' # "idle" /\ Fail
  BY <1>20 DEF Fail, Handler
<1>21. CASE op = "install" /\ pc' # "idle" /\ AdminEditsPam
  BY <1>21 DEF AdminEditsPam
<1> HIDE DEF Inv, ConfigFits, DisksSound, ControlFits, TypeOK
<1> QED
  BY <1>1, <1>2, <1>3, <1>4, <1>5, <1>6, <1>7, <1>8, <1>9, <1>10, <1>11, <1>12, <1>13,
     <1>14, <1>15, <1>16, <1>17, <1>18, <1>19, <1>20, <1>21, Zenon
  DEF DeployGoesOn

\* A disk that is another's but for the configuration and the text of the PAM policy.
LEMMA UndoneDisk ==
  ASSUME NEW d \in Disks, NEW b \in Disks,
         d.link = b.link, d.wants = b.wants, d.snapshot = b.snapshot, d.unit = b.unit,
         d.root = b.root, d.managed = b.managed, d.current = b.current,
         d.previous = b.previous, d.dirs = b.dirs, d.complete = b.complete,
         d.pam.block = b.pam.block
  PROVE  [d EXCEPT !.etc = b.etc, !.conf = b.conf, !.pam.own = b.pam.own] = b
<1>1. [d.pam EXCEPT !.own = b.pam.own] = b.pam
  BY DEF Disks
<1> DEFINE u == [d EXCEPT !.etc = b.etc, !.conf = b.conf, !.pam = b.pam]
<1>2. u = b
  BY DEF Disks
<1>3. [d EXCEPT !.etc = b.etc, !.conf = b.conf, !.pam.own = b.pam.own]
        = [d EXCEPT !.etc = b.etc, !.conf = b.conf, !.pam = [d.pam EXCEPT !.own = b.pam.own]]
  BY Zenon
<1> QED
  BY <1>1, <1>2, <1>3, Zenon

\* Once a deployment is undone, only the configuration and the text of the PAM
\* policy may not be what it found.
LEMMA UndoneInv ==
  ASSUME Inv, Next, op' = "install", TypeOK'
  PROVE  UndoneFits'
<1> DEFINE before == local.before
           undone == [disk EXCEPT !.etc = before.etc, !.conf = before.conf,
                                  !.pam.own = before.pam.own]
<1>1. \/ \E block \in BOOLEAN, wanted \in SUBSET ConfigFiles : Install(block, wanted)
      \/ op = "install" /\ pc' # "idle" /\ DeployGoesOn
  BY DeploySteps DEF Inv
<1>2. /\ disk \in Disks /\ disk' \in Disks /\ before \in Disks
      /\ pc \in Points
  BY DEF Inv, TypeOK, Locals
<1>3. ASSUME NEW block \in BOOLEAN, NEW wanted \in SUBSET ConfigFiles, Install(block, wanted)
      PROVE  UndoneFits'
  BY <1>3 DEF Install, Start, UndoneFits
<1>4. CASE op = "install" /\ UndoDir
  <2>1. /\ pc = "undoDir" /\ local' = local
        /\ pc' = IF before.managed THEN "raise" ELSE "removeRoot"
        /\ disk' = [disk EXCEPT !.dirs = @ \ {local.release}]
    BY <1>4 DEF UndoDir, Step, Call
  <2>2. /\ disk.link = before.link /\ disk.wants = before.wants
        /\ disk.snapshot = before.snapshot /\ disk.unit = before.unit
        /\ disk.managed = before.managed /\ disk.current = before.current
        /\ disk.previous = before.previous /\ disk.complete = before.complete
        /\ disk.pam.block = before.pam.block
        /\ disk.root
        /\ disk.dirs \ {local.release} = before.dirs
    BY <1>2, <1>4, <2>1 DEF Inv, DeployFits, ReleaseFits, UnitFits, Undoing, Disks
  <2>3. before.managed => before.root
    BY DEF Inv, DisksSound, Sound
  <2>4. before.managed => undone' = before'
    <3>1. /\ disk'.link = before.link /\ disk'.wants = before.wants
          /\ disk'.snapshot = before.snapshot /\ disk'.unit = before.unit
          /\ before.managed => disk'.root = before.root
          /\ disk'.managed = before.managed
          /\ disk'.current = before.current /\ disk'.previous = before.previous
          /\ disk'.dirs = before.dirs /\ disk'.complete = before.complete
          /\ disk'.pam.block = before.pam.block
      BY <1>2, <2>1, <2>2, <2>3 DEF Disks
    <3>2. before.managed => [disk' EXCEPT !.etc = before.etc, !.conf = before.conf,
                                          !.pam.own = before.pam.own] = before
      BY <1>2, <3>1, UndoneDisk, Zenon
    <3> QED
      BY <2>1, <3>2, Zenon
  <2> QED
    BY <2>1, <2>4 DEF UndoneFits
<1>5. CASE op = "install" /\ RemoveRoot
  <2>1. /\ pc = "removeRoot" /\ pc' = "removeEmptyConf" /\ local' = local
        /\ disk' = [disk EXCEPT !.root = FALSE, !.managed = FALSE, !.current = None,
                                !.previous = None, !.dirs = {}, !.complete = {}]
    BY <1>5 DEF RemoveRoot, Call
  <2>2. /\ disk.link = before.link /\ disk.wants = before.wants
        /\ disk.snapshot = before.snapshot /\ disk.unit = before.unit
        /\ disk.pam.block = before.pam.block
        /\ ~before.managed /\ ~before.root
    BY <1>2, <1>5, <2>1 DEF Inv, DeployFits, ReleaseFits, UnitFits, Undoing, Disks
  <2>3. /\ before.current = None /\ before.previous = None
        /\ before.dirs = {} /\ before.complete = {}
    BY <2>2 DEF Inv, DisksSound, Sound
  <2>4. undone' = before'
    <3>1. /\ disk'.link = before.link /\ disk'.wants = before.wants
          /\ disk'.snapshot = before.snapshot /\ disk'.unit = before.unit
          /\ disk'.root = before.root /\ disk'.managed = before.managed
          /\ disk'.current = before.current /\ disk'.previous = before.previous
          /\ disk'.dirs = before.dirs /\ disk'.complete = before.complete
          /\ disk'.pam.block = before.pam.block
      BY <1>2, <2>1, <2>2, <2>3 DEF Disks
    <3>2. [disk' EXCEPT !.etc = before.etc, !.conf = before.conf,
                        !.pam.own = before.pam.own] = before
      BY <1>2, <3>1, UndoneDisk, Zenon
    <3> QED
      BY <2>1, <3>2, Zenon
  <2> QED
    BY <2>1, <2>4 DEF UndoneFits
<1>6. CASE op = "install" /\ RemoveEmptyConf
  <2>1. /\ pc = "removeEmptyConf" /\ pc' = "raise" /\ local' = local
        /\ disk.conf = NoConfig
        /\ disk' = [disk EXCEPT !.etc = FALSE]
    BY <1>6 DEF RemoveEmptyConf, Step, Call
  <2>2. undone' = before'
    <3>1. undone = before
      BY <1>6, <2>1 DEF Inv, DeployFits, UndoneFits
    <3>2. undone' = undone
      BY <1>2, <2>1 DEF Disks
    <3> QED
      BY <2>1, <3>1, <3>2
  <2>3. before.etc = FALSE /\ before.conf = NoConfig
    BY <1>2, <1>6, <2>1 DEF Inv, DeployFits, ReleaseFits, DisksSound, Sound, Disks
  <2>4. disk'.etc = FALSE /\ disk'.conf = NoConfig
    BY <1>2, <2>1 DEF Disks
  <2> QED
    BY <2>1, <2>2, <2>3, <2>4 DEF UndoneFits
<1>7. CASE op = "install" /\ AdminEditsPam
  <2>1. /\ pc' = pc /\ local' = local
        /\ disk' = [disk EXCEPT !.pam.own = edits']
    BY <1>7 DEF AdminEditsPam, Inv, ControlFits
  <2>2. undone' = undone
    BY <1>2, <2>1 DEF Disks
  <2>3. disk'.etc = disk.etc /\ disk'.conf = disk.conf
    BY <1>2, <2>1 DEF Disks
  <2> QED
    BY <1>7, <2>1, <2>2, <2>3 DEF Inv, DeployFits, UndoneFits
<1>8. CASE op = "install" /\ Fail
  BY <1>8 DEF Fail, Stop, Call, Handler, UndoneFits
<1>9. CASE /\ op = "install"
           /\ \/ MakeConf \/ MakeRoot \/ MakeRelease \/ CopyRelease
              \/ OpenConfig \/ FillConfig \/ OpenUnit \/ CopyUnit
              \/ UpdatePam \/ LinkCurrent \/ Register
              \/ UndoPam \/ UndoCurrent \/ UnlinkUnit \/ ReopenUnit \/ UndoUnit
              \/ UndoConfig \/ UndoRelease
  BY <1>9
  DEF Step, StepKnowing, StepOrEnd, Call, MakeConf, MakeRoot, MakeRelease, CopyRelease,
    OpenConfig, FillConfig, OpenUnit, CopyUnit, UpdatePam, LinkCurrent, Register, UndoPam,
    UndoCurrent, UnlinkUnit, ReopenUnit, UndoUnit, UndoConfig, UndoRelease, UndoneFits
<1> QED
  BY <1>1, <1>3, <1>4, <1>5, <1>6, <1>7, <1>8, <1>9, Zenon DEF DeployGoesOn

\* So a deployment keeps to what it has done so far.
LEMMA DeployInv ==
  ASSUME Inv, Next, TypeOK'
  PROVE  DeployFits'
BY ReleaseInv, UnitInv, ConfigInv, UndoneInv DEF DeployFits

\* A removal and a rollback can still rely on what they have checked: no other
\* command runs in between.
LEMMA RemoveInv ==
  ASSUME Inv, Next
  PROVE  RemoveFits'
<1> USE UnitsAssumption
    DEF Start, Call, Step, StepKnowing, StepOrEnd, Stop, Knows, AtRest, Inv, TypeOK, Disks,
      Locals, Snapshots, NoSnapshot, ControlFits, RemoveFits, Switching, Restoring, Preparing,
      Deploying, Undoing, Deleting, Swapping, Points
<1>1. CASE SwitchStep
  <2>1. CASE EnableLogin \/ SaveSnapshot \/ DisableOld \/ EnableAkari \/ DisableLogin
    BY <2>1 DEF EnableLogin, SaveSnapshot, DisableOld, EnableAkari, DisableLogin
  <2>2. CASE DisableAkari
    BY <2>2 DEF DisableAkari
  <2>3. CASE EnableOld \/ Relink
    BY <2>3 DEF EnableOld, Relink
  <2>4. CASE DropSnapshot
    BY <2>4 DEF DropSnapshot
  <2> QED
    BY <1>1, <2>1, <2>2, <2>3, <2>4 DEF SwitchStep
<1>2. CASE DeployStep
  <2>1. ASSUME NEW block \in BOOLEAN, NEW wanted \in SUBSET ConfigFiles,
               Install(block, wanted) \/ ConfigureKeyring(block)
        PROVE  RemoveFits'
    BY <2>1 DEF Install, ConfigureKeyring
  <2>2. CASE RollbackInstallation
    BY <2>2 DEF RollbackInstallation, DisksSound, Sound
  <2>3. CASE MakeConf \/ MakeRoot \/ MakeRelease \/ CopyRelease
    BY <2>3 DEF MakeConf, MakeRoot, MakeRelease, CopyRelease
  <2>4. CASE OpenConfig \/ FillConfig \/ OpenUnit \/ CopyUnit
    BY <2>4 DEF OpenConfig, FillConfig, OpenUnit, CopyUnit
  <2>5. CASE UpdatePam \/ LinkCurrent \/ Register \/ KeepPrevious
    BY <2>5 DEF UpdatePam, LinkCurrent, Register, KeepPrevious
  <2>6. CASE UndoPam \/ UndoCurrent \/ UnlinkUnit \/ ReopenUnit \/ UndoUnit
    BY <2>6 DEF UndoPam, UndoCurrent, UnlinkUnit, ReopenUnit, UndoUnit
  <2>7. CASE UndoConfig \/ UndoRelease \/ UndoDir \/ Raise
    BY <2>7 DEF UndoConfig, UndoRelease, UndoDir, Raise
  <2>8. CASE UpdateKeyring
    BY <2>8 DEF UpdateKeyring
  <2>9. CASE SwapCurrent \/ SwapPrevious
    BY <2>9 DEF SwapCurrent, SwapPrevious
  <2> HIDE DEF Inv, TypeOK, ControlFits, RemoveFits
  <2> QED
    BY <1>2, <2>1, <2>2, <2>3, <2>4, <2>5, <2>6, <2>7, <2>8, <2>9, Zenon DEF DeployStep
<1>3. CASE RemoveStep
  <2>1. CASE RemoveInstallation
    BY <2>1 DEF RemoveInstallation
  <2>2. CASE ReadPam
    BY <2>2 DEF ReadPam
  <2>3. CASE CleanPam
    BY <2>3 DEF CleanPam
  <2>4. CASE RemoveUnit
    BY <2>4 DEF RemoveUnit
  <2>5. CASE RemoveConf
    BY <2>5 DEF RemoveConf
  <2>6. CASE RemoveRoot \/ RemoveEmptyConf
    BY <2>6 DEF RemoveRoot, RemoveEmptyConf
  <2> QED
    BY <1>3, <2>1, <2>2, <2>3, <2>4, <2>5, <2>6 DEF RemoveStep
<1>4. CASE StopStep
  BY <1>4 DEF StopStep, Fail, Crash, CutRemoveConf, CutRemoveRoot, Handler
<1>5. CASE Host
  <2>1. ASSUME NEW dm \in DisplayManagers, AdminSelects(dm)
        PROVE  RemoveFits'
    BY <2>1 DEF AdminSelects
  <2>2. CASE AdminEditsPam
    BY <2>2 DEF AdminEditsPam
  <2>3. CASE Reboot
    BY <2>3 DEF Reboot
  <2> QED
    BY <1>5, <2>1, <2>2, <2>3 DEF Host
<1> QED
  BY <1>1, <1>2, <1>3, <1>4, <1>5 DEF Next

-----------------------------------------------------------------------------
(* The theorems.                                                           *)

\* A host on which Akari was never installed satisfies the invariant.
LEMMA InvInit ==
  ASSUME Init
  PROVE  Inv
<1>1. PICK dm \in DisplayManagers \cup {None} : disk = FreshDisk(dm)
  BY DEF Init
<1>2. /\ disk.link = dm /\ disk.wants = {dm} \cap Wanted /\ disk.snapshot = NoSnapshot
      /\ disk.unit = None /\ disk.etc = FALSE /\ disk.conf = NoConfig /\ disk.root = FALSE
      /\ disk.managed = FALSE /\ disk.current = None /\ disk.previous = None
      /\ disk.dirs = {} /\ disk.complete = {} /\ disk.pam.own = 0
  BY <1>1 DEF FreshDisk
<1>3. disk \in Disks
  <2>1. FALSE \in BOOLEAN /\ NoSnapshot \in Snapshots
    BY Zenon DEF NoSnapshot, Snapshots
  <2>2. 0 \in 0..MaxEdits
    BY EditsAssumption
  <2>3. [own |-> 0, block |-> FALSE] \in [own : 0..MaxEdits, block : BOOLEAN]
    BY <2>1, <2>2
  <2>4. NoConfig \in [ConfigFiles -> {"none", "torn", "whole"}]
    BY DEF NoConfig
  <2> QED
    BY <1>1, <2>1, <2>3, <2>4, Zenon DEF FreshDisk, Disks
<1>4. TypeOK
  <2>1. local \in Locals
    BY <1>3, KnowsTyped, FALSE \in BOOLEAN, {} \in SUBSET ConfigFiles DEF Init
  <2>2. chosen \in [link : DisplayManagers \cup {None}, wants : SUBSET Wanted]
    BY <1>2 DEF Init, Selection
  <2>3. {running, overtaken, removing, stopped} \subseteq BOOLEAN
    BY DEF Init
  <2>4. edits \in 0..MaxEdits
    BY EditsAssumption DEF Init
  <2> QED
    BY <1>3, <2>1, <2>2, <2>3, <2>4 DEF Init, TypeOK, Points
<1>5. ControlFits
  BY DEF Init, ControlFits, Points, Switching, Restoring, Preparing, Deploying, Undoing,
     Deleting, Swapping
<1>6. DisksSound
  BY <1>2, UnitsAssumption DEF Init, DisksSound, Sound, AtRest, Knows
<1>7. SwitchFits
  BY <1>2 DEF Init, SwitchFits, Selection, Switching, Restoring
<1>8. PamFits
  BY <1>2 DEF Init, PamFits, HoldsPolicy
<1>9. DeployFits /\ RemoveFits
  BY DEF Init, DeployFits, RemoveFits
<1> QED
  BY <1>4, <1>5, <1>6, <1>7, <1>8, <1>9 DEF Inv

\* The invariant holds of every reachable state.
THEOREM InvHolds ==
  Spec => []Inv
<1>1. Init => Inv
  BY InvInit
<1>2. Inv /\ [Next]_vars => Inv'
  <2> SUFFICES ASSUME Inv, [Next]_vars
               PROVE  Inv'
    OBVIOUS
  <2>1. CASE Next
    <3>1. ControlFits'
      BY <2>1, ControlInv DEF Inv
    <3>2. TypeOK'
      BY <2>1, <3>1, TypeInv
    <3> QED
      BY <2>1, <3>1, <3>2, SoundInv, SwitchInv, PamInv, DeployInv, RemoveInv DEF Inv
  <2>2. CASE UNCHANGED vars
    <3> USE <2>2 DEF vars
    <3>1. TypeOK' /\ ControlFits'
      BY DEF Inv, TypeOK, ControlFits
    <3>2. DisksSound' /\ SwitchFits'
      BY SMTT(30) DEF Inv, DisksSound, Sound, SwitchFits, Selection
    <3>3. PamFits' /\ RemoveFits'
      BY DEF Inv, PamFits, HoldsPolicy, RemoveFits
    <3>4. DeployFits'
      BY DEF Inv, DeployFits, ReleaseFits, UnitFits, ConfigFits, UndoneFits
    <3> QED
      BY <3>1, <3>2, <3>3, <3>4 DEF Inv
  <2> QED
    BY <2>1, <2>2
<1> QED
  BY <1>1, <1>2, PTL DEF Spec

\* Every variable keeps its type.
THEOREM LoginTypes ==
  Spec => []TypeOK
BY InvHolds, PTL DEF Inv

\* Wherever a switch stops, the administrator's choice is selected or the snapshot
\* names it: the switch keeps its own record (SwitchFits).
THEOREM LoginChoiceRecoverable ==
  Spec => []ChoiceRecoverable
<1>1. Inv => ChoiceRecoverable
  BY UnitsAssumption DEF Inv, SwitchFits, SnapshotOf, ChoiceRecoverable
<1> QED
  BY <1>1, InvHolds, PTL

\* A snapshot can be used: the installation is valid and there is a unit to
\* disable, unless a removal was interrupted (Sound).
THEOREM LoginRecoveryAvailable ==
  Spec => []RecoveryAvailable
<1>1. Inv => RecoveryAvailable
  BY DEF Inv, SwitchFits, DisksSound, Sound, RecoveryAvailable
<1> QED
  BY <1>1, InvHolds, PTL

\* A login service that is selected or was booted has its unit, which is damaged
\* only while a deployment runs or after one that stopped, and it has a complete
\* release and a configuration unless a removal was interrupted (Sound).
THEOREM LoginBootable ==
  Spec => []BootableLogin
<1>1. Inv => BootableLogin
  BY DEF Inv, DisksSound, Sound, BootableLogin
<1> QED
  BY <1>1, InvHolds, PTL

\* A failed deployment that has been undone left the disk as it found it, but for
\* the configuration file whose copy or chmod failed (UndoneFits, ConfigFits).
THEOREM LoginInstallRestores ==
  Spec => []FailedInstallRestores
<1>1. Inv => FailedInstallRestores
  <2> SUFFICES ASSUME Inv, pc = "raise"
               PROVE  FailedInstallRestores
    BY DEF FailedInstallRestores
  <2>1. op = "install" /\ local.created = {}
    BY DEF Inv, ControlFits, DeployFits, ConfigFits
  <2>2. \A f \in ConfigFiles :
          disk.conf[f] # local.before.conf[f] =>
            f = local.file /\ local.before.conf[f] = "none"
    BY <2>1 DEF Inv, DeployFits, ConfigFits
  <2> QED
    BY <2>1, <2>2 DEF Inv, DeployFits, UndoneFits, FailedInstallRestores
<1> QED
  BY <1>1, InvHolds, PTL

\* Only an edit made while a command holds an older PAM policy can be lost: what
\* any command writes is what the administrator last wrote, or was overtaken
\* (PamFits).
THEOREM LoginPamKeepsEdits ==
  Spec => []PamKeepsEdits
<1>1. Inv => PamKeepsEdits
  BY DEF Inv, PamFits, PamKeepsEdits
<1> QED
  BY <1>1, InvHolds, PTL
=============================================================================
