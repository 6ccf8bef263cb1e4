---- MODULE MCLoginSwitch ----
(* LoginSwitch for model checking, with a bound on the calls that fail although *)
(* they could have been done, and on the crashes: MaxUndoStops while the undo of *)
(* a deployment runs, MaxStops elsewhere.  The PAM policy has nothing to do with *)
(* the other files: its edits are explored with one login service and without a  *)
(* layout, the rest without edits and keyring blocks.                            *)
EXTENDS LoginSwitch, TLC

CONSTANTS gdm, lightdm, xdm, r1, r2, r3, MaxStops, MaxUndoStops

VARIABLES
  stops,   \* calls that failed and crashes so far
  focus    \* "pam" or "files"

\* The next call cannot but fail.
Blocked ==
  \/ pc = "makeRelease" /\ disk.dirs = Releases
  \/ pc \in {"enableAkari", "disableAkari", "removeUnit"} /\ disk.unit = None
  \/ pc = "removeConf" /\ ~disk.etc
  \/ pc = "removeEmptyConf" /\ disk.conf # NoConfig

MCInit ==
  /\ Init
  /\ stops = 0
  /\ focus \in {"pam", "files"}
  /\ focus = "pam" => disk.link = gdm

InFocus ==
  IF focus = "pam"
  THEN disk'.link \in {gdm, None, Akari} /\ "layout" \notin local'.wanted
  ELSE edits' = 0 /\ ~local'.block

\* Without installation.json no command takes what is left of an installation:
\* one remainder stands for all.
OneRemainder ==
  disk.managed /\ ~disk'.managed /\ disk'.root =>
    /\ disk'.current = disk.current
    /\ disk'.previous = disk.previous
    /\ disk'.complete = disk.complete

MCNext ==
  /\ \/ (SwitchStep \/ DeployStep \/ RemoveStep \/ Host) /\ UNCHANGED stops
     \/ Blocked /\ Fail /\ UNCHANGED stops
     \/ /\ stops < IF focus = "files" /\ pc \in Undoing THEN MaxUndoStops ELSE MaxStops
        /\ StopStep
        /\ stops' = stops + 1
  /\ InFocus
  /\ OneRemainder
  /\ UNCHANGED focus

MCSpec == MCInit /\ [][MCNext]_<<vars, stops, focus>>

ReleaseSymmetry == Permutations(Releases)
====
