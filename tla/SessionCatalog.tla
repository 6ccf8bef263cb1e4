--------------------------- MODULE SessionCatalog ----------------------------
(***************************************************************************)
(* The scan of the session directories (session_catalog.rs) behind         *)
(* ListSessions and StartSession, while packages are installed and removed.*)
(*                                                                         *)
(* A file is described by what its author means, an argument vector and    *)
(* flags; `Text` writes it down by the rules of desktop entries, and the   *)
(* scan sees the text only.  Reading a file and looking for its programs   *)
(* are separate accesses, and the host may change between them.            *)
(***************************************************************************)
EXTENDS DesktopEntry, FiniteSets

CONSTANTS
  Characters,   \* characters of a value; of whitespace only what can be escaped
  Paths,        \* names of files: root, stem, whether they end in .desktop
  Trees,        \* contents of the files at first
  Updates,      \* what a package may replace it with
  Commands,     \* programs that may be installed, as sequences of characters
  MaxChanges    \* bounds the changes to the host

ASSUME PathsAssumption ==
  Paths \subseteq [root : {"wayland", "x11"}, stem : Nat, desktop : BOOLEAN]

ASSUME CommandsAssumption == Commands \subseteq Seq(Characters)

ASSUME BoundAssumption == MaxChanges \in Nat

VARIABLES
  files,       \* contents of each path
  installed,   \* programs that can be executed
  dir,         \* what opening each root gives
  scan,        \* the running scan
  listing,     \* what the last scan returned
  changes,     \* number of changes to the host
  steady,      \* ghost: sessions that could be launched since the scan began
  heard,       \* ghost: what files meant at some time since
  supplied,    \* ghost: what they meant, with a program of theirs installed then or later
  touched      \* ghost: paths written since the scan began

hostVars == <<files, installed, dir, changes>>
ghostVars == <<steady, heard, supplied, touched>>
sessionVars == <<hostVars, scan, listing, ghostVars>>

Roots == <<"wayland", "x11">>

NoCommand == <<>>

Absent == [sort |-> "absent"]
Unreadable == [sort |-> "unreadable"]

\* An entry with a malformed or empty Exec value.
Raw(exec) == [sort |-> "raw", exec |-> exec]

Entry(argv, style, flag, try) ==
  [sort |-> "entry", argv |-> argv, style |-> style, flag |-> flag, try |-> try]

Flags == {"plain", "hidden", "noDisplay", "link", "unnamed", "otherGroup"}

SaysNothing(exec) ==
  LET result == TokenizeExec(UnescapeDesktopValue(exec)) IN
  ~result.ok \/ result.argv = <<>>

\* What a file may hold.
IsContent(content) ==
  CASE content.sort = "entry" ->
         /\ content = Entry(content.argv, content.style, content.flag, content.try)
         /\ content.argv \in Seq(Seq(Characters))
         /\ content.style \in Quotes \cup {NoQuote}
         /\ content.flag \in Flags
         /\ content.try \in Seq(Characters)
    [] content.sort = "raw" ->
         /\ content = Raw(content.exec)
         /\ content.exec \in Seq(Characters)
         /\ SaysNothing(content.exec)
    [] OTHER -> content \in {Absent, Unreadable}

ASSUME TreesAssumption ==
  \A tree \in Trees : DOMAIN tree = Paths /\ \A p \in Paths : IsContent(tree[p])

ASSUME UpdatesAssumption == \A content \in Updates : IsContent(content)

-----------------------------------------------------------------------------
(* How an author writes an argument vector down.                           *)

QuoteChar(char, special) == IF char \in special THEN <<"\\", char>> ELSE <<char>>

\* Within a quoted argument the quote is escaped, in a bare one whatever would
\* end it or begin a quote.
QuoteArgument(argument, style) ==
  LET mark == IF argument = <<>> /\ style = NoQuote THEN "'" ELSE style
      special == {"\\"} \cup IF mark = NoQuote THEN Whitespace \cup Quotes ELSE {mark}
      body == FlattenSeq([i \in DOMAIN argument |-> QuoteChar(argument[i], special)])
  IN IF mark = NoQuote THEN body ELSE <<mark>> \o body \o <<mark>>

EscapeChar(char) ==
  CASE char = "\\" -> <<"\\", "\\">>
    [] char = " " -> <<"\\", "s">>
    [] char = "\n" -> <<"\\", "n">>
    [] char = "\t" -> <<"\\", "t">>
    [] char = "\r" -> <<"\\", "r">>
    [] OTHER -> <<char>>

EscapeValue(value) == FlattenSeq([i \in DOMAIN value |-> EscapeChar(value[i])])

Separator(i) == IF i = 1 THEN <<>> ELSE <<" ">>

WriteExec(argv, style) ==
  EscapeValue(FlattenSeq([i \in DOMAIN argv |-> Separator(i) \o QuoteArgument(argv[i], style)]))

\* The lines of an entry; another group repeats some of its keys.
Text(content) ==
  LET exec == IF content.sort = "raw" THEN content.exec
              ELSE WriteExec(content.argv, content.style)
      flag == IF content.sort = "raw" THEN "plain" ELSE content.flag
      field(key, value, present) == IF present THEN <<FieldLine(key, value)>> ELSE <<>>
  IN
  <<IgnoredLine, GroupLine(EntryGroup)>>
  \o field("Type", IF flag = "link" THEN <<"Link">> ELSE <<"Application">>, TRUE)
  \o field("Name", <<"Name">>, flag # "unnamed")
  \o field("Hidden", <<"true">>, flag = "hidden")
  \o field("NoDisplay", <<"true">>, flag = "noDisplay")
  \o field("Exec", exec, TRUE)
  \o field("TryExec", EscapeValue(IF content.sort = "raw" THEN NoCommand ELSE content.try),
           content.sort = "entry" /\ content.try # NoCommand)
  \o (IF flag = "otherGroup"
      THEN <<GroupLine("[Desktop Action]"), FieldLine("Exec", <<"%">>),
             FieldLine("Hidden", <<"true">>)>>
      ELSE <<>>)

\* What a file's author means: a command line, and a program it is only for.
Meant(path, content) ==
  IF /\ path.desktop
     /\ content.sort = "entry"
     /\ content.flag \in {"plain", "otherGroup"}
     /\ content.argv # <<>>
     /\ \A i \in DOMAIN content.argv : "%" \notin Range(content.argv[i])
  THEN {[path |-> path, exec |-> content.argv, try |-> {content.try} \ {NoCommand}]}
  ELSE {}

Needs(entry) == {entry.exec[1]} \cup entry.try

\* Its session, which names the file of the program.
SessionOf(entry) ==
  [path |-> entry.path, exec |-> <<<<"/">> \o entry.exec[1]>> \o Tail(entry.exec)]

Said == UNION {Meant(p, files[p]) : p \in Paths}

Launchable == {SessionOf(entry) : entry \in {e \in Said : Needs(e) \subseteq installed}}

\* The programs that are there for what was meant.
Supplies(entries, programs) ==
  {pair \in entries \X programs : pair[2] \in Needs(pair[1])}

-----------------------------------------------------------------------------
(* The scan.                                                               *)

\* A program is found under its name in a directory of the search path.
Resolve(command) == IF command \in installed THEN {<<"/">> \o command} ELSE {}

IsExecutable(file) == \E c \in installed : file = <<"/">> \o c

Field(fields, key) == IF key \in DOMAIN fields THEN fields[key] ELSE <<>>

\* What the text of a file says, up to the first look at the programs.
ParseSessionFile(path, content) ==
  LET fields == ParseDesktopEntry(Text(content))
      exec == TokenizeExec(Field(fields, "Exec"))
  IN
  IF /\ Field(fields, "Type") = <<"Application">>
     /\ <<"true">> \notin {Field(fields, "Hidden"), Field(fields, "NoDisplay")}
     /\ "Name" \in DOMAIN fields
     /\ exec.ok
     /\ exec.argv # <<>>
     /\ \A i \in DOMAIN exec.argv : "%" \notin Range(exec.argv[i])
  THEN {[path |-> path, exec |-> exec.argv,
         try |-> IF "TryExec" \in DOMAIN fields THEN {fields["TryExec"]} ELSE {}]}
  ELSE {}

\* session_id orders by type, then by name.
Precedes(p, q) ==
  \/ p.root = "wayland" /\ q.root = "x11"
  \/ p.root = q.root /\ p.stem <= q.stem

NoScan == [at |-> "idle", roots |-> <<>>, todo |-> {}, candidate |-> {}, found |-> <<>>, id |-> {}]

NoListing == [outcome |-> "none", sessions |-> <<>>, id |-> {}]

SessionInit ==
  /\ dir \in [{"wayland", "x11"} -> {"ok", "missing", "unreadable"}]
  /\ \E tree \in Trees :
       files = [p \in Paths |-> IF dir[p.root] = "missing" THEN Absent ELSE tree[p]]
  /\ installed \in SUBSET Commands
  /\ scan = NoScan
  /\ listing = NoListing
  /\ changes = 0
  /\ steady = {}
  /\ heard = {}
  /\ supplied = {}
  /\ touched = {}

\* ListSessions, or the lookup of one session by StartSession.
StartScan(id) ==
  /\ scan.at = "idle"
  /\ scan' = [NoScan EXCEPT !.at = "open", !.roots = Roots, !.id = id]
  /\ listing' = NoListing
  /\ steady' = Launchable
  /\ heard' = Said
  /\ supplied' = Supplies(Said, installed)
  /\ touched' = {}
  /\ UNCHANGED hostVars

EndScan(outcome, sessions) ==
  /\ listing' = [outcome |-> outcome, sessions |-> sessions, id |-> scan.id]
  /\ scan' = NoScan
  /\ UNCHANGED <<hostVars, ghostVars>>

Continue(next) ==
  /\ scan' = next
  /\ UNCHANGED <<hostVars, listing, ghostVars>>

OpenRoot ==
  /\ scan.at = "open"
  /\ scan.roots # <<>>
  /\ LET root == Head(scan.roots)
         present == {p \in Paths : p.root = root /\ files[p] # Absent} IN
     CASE dir[root] = "missing" -> Continue([scan EXCEPT !.roots = Tail(@)])
       [] dir[root] = "unreadable" -> EndScan("error", <<>>)
       [] dir[root] = "ok" -> Continue([scan EXCEPT !.at = "read", !.todo = present])

ReadText(p, said) ==
  LET read == [scan EXCEPT !.todo = @ \ {p}] IN
  /\ scan.at = "read"
  /\ Continue(IF said = {} THEN read ELSE [read EXCEPT !.at = "resolve", !.candidate = said])

\* (fault) reads every file of the root
ReadEntryOfAnyName ==
  \E p \in scan.todo :
    ReadText(p, IF files[p] \notin {Absent, Unreadable} THEN ParseSessionFile(p, files[p]) ELSE {})

\* Reads one entry of the root; what cannot be read or says nothing is skipped.
ReadEntry ==
  \E p \in scan.todo :
    ReadText(p, IF p.desktop /\ files[p] \notin {Absent, Unreadable}
                THEN ParseSessionFile(p, files[p]) ELSE {})

SkipEntry == Continue([scan EXCEPT !.at = "read", !.candidate = {}])

\* Looks for the program of the entry that was read.
ResolveExec ==
  /\ scan.at = "resolve"
  /\ \E entry \in scan.candidate :
       \/ Resolve(entry.exec[1]) = {} /\ SkipEntry
       \/ \E file \in Resolve(entry.exec[1]) :
            Continue([scan EXCEPT !.at = IF entry.try = {} THEN "check" ELSE "tryExec",
                                  !.candidate = {[entry EXCEPT !.exec = <<file>> \o Tail(@)]}])

\* Looks for the program that the entry is only for, if there is one.
ResolveTryExec ==
  /\ scan.at = "tryExec"
  /\ \E entry \in scan.candidate :
       IF \E command \in entry.try : Resolve(command) = {}
       THEN SkipEntry ELSE Continue([scan EXCEPT !.at = "check"])

\* Asks the file system again whether the program can be executed.
CheckAvailable ==
  /\ scan.at = "check"
  /\ \E entry \in scan.candidate :
       Continue([scan EXCEPT !.at = "read", !.candidate = {},
                             !.found = IF IsExecutable(entry.exec[1])
                                       THEN Append(@, [path |-> entry.path, exec |-> entry.exec])
                                       ELSE @])

CloseRoot ==
  /\ scan.at = "read"
  /\ scan.todo = {}
  /\ Continue([scan EXCEPT !.at = "open", !.roots = Tail(@)])

\* Puts a session behind those that do not come after it.
InsertSession(sorted, session) ==
  LET later == SelectInSeq(sorted, LAMBDA s : ~Precedes(s.path, session.path)) IN
  IF later = 0 THEN Append(sorted, session) ELSE InsertAt(sorted, later, session)

SortSessions(sessions) == FoldLeft(InsertSession, <<>>, sessions)

\* The first session with one of the identifiers, if there is one.
FindSession(sessions, id) ==
  LET first == SelectInSeq(sessions, LAMBDA s : s.path \in id) IN
  IF first = 0 THEN <<>> ELSE <<sessions[first]>>

Finish ==
  /\ scan.at = "open"
  /\ scan.roots = <<>>
  /\ LET sorted == SortSessions(scan.found) IN
     EndScan("ok", IF scan.id = {} THEN sorted ELSE FindSession(sorted, scan.id))

-----------------------------------------------------------------------------
(* The host: packages come and go.                                         *)

\* What a change means to a scan that runs.
Changed(path) ==
  /\ changes < MaxChanges
  /\ changes' = changes + 1
  /\ heard' = heard \cup Said'
  /\ supplied' = supplied \cup Supplies(heard', installed')
  /\ steady' = {s \in steady \cap Launchable' : s.path \notin path}
  /\ touched' = touched \cup path
  /\ UNCHANGED <<dir, listing>>

\* A file is written, replaced or removed; whether an open directory shows the
\* new file, even for the second time, is up to the file system.
WriteFile(path, content) ==
  /\ scan.at # "idle"
  /\ dir[path.root] # "missing"
  /\ files' = [files EXCEPT ![path] = content]
  /\ UNCHANGED installed
  /\ Changed({path})
  /\ \/ scan' = scan
     \/ /\ scan.at \notin {"idle", "open"}
        /\ Head(scan.roots) = path.root
        /\ scan' = [scan EXCEPT !.todo = @ \cup {path}]

ChangeProgram(command) ==
  /\ scan.at # "idle"
  /\ installed' = IF command \in installed THEN installed \ {command} ELSE installed \cup {command}
  /\ UNCHANGED <<files, scan>>
  /\ Changed({})

SessionStep ==
  \/ StartScan({}) \/ \E p \in Paths : StartScan({p})
  \/ OpenRoot \/ ReadEntry \/ ResolveExec \/ ResolveTryExec \/ CheckAvailable
  \/ CloseRoot \/ Finish
  \/ \E p \in Paths, c \in Updates : WriteFile(p, c)
  \/ \E c \in Commands : ChangeProgram(c)

SessionSpec == SessionInit /\ [][SessionStep]_sessionVars

-----------------------------------------------------------------------------
(* Properties.                                                             *)

IsSession(session) ==
  /\ session.path \in Paths
  /\ session.path.desktop
  /\ session.exec[1][1] = "/"

\* What is read is of desktop files; what is resolved, found and returned are sessions
\* with the file of a program.
SessionTypeOK ==
  /\ DOMAIN files = Paths
  /\ installed \subseteq Commands
  /\ scan.at \in {"idle", "open", "read", "resolve", "tryExec", "check"}
  /\ scan.todo \subseteq {p \in Paths : scan.roots # <<>> /\ p.root = Head(scan.roots)}
  /\ scan.at \in {"resolve", "tryExec", "check"} <=> scan.candidate # {}
  /\ \A entry \in scan.candidate :
       IF scan.at = "resolve" THEN entry.path.desktop /\ entry.exec # <<>> ELSE IsSession(entry)
  /\ \A session \in Range(scan.found) \cup Range(listing.sessions) : IsSession(session)
  /\ listing.outcome # "ok" => listing.sessions = <<>>
  /\ changes \in 0..MaxChanges

\* What was meant while the scan ran, with each program it needs installed at that time
\* or later, though maybe at different times.
Possible ==
  {SessionOf(entry) : entry \in {e \in heard : \A c \in Needs(e) : <<e, c>> \in supplied}}

\* What a scan returns is in order, and each session is what the author of its file
\* meant at some time while it ran, whose programs were there then or later; nothing
\* more can be said, as the file is read before its programs are looked for.  It
\* contains every session that could be launched all the time, whatever else is broken
\* or being replaced, and fails only if a directory cannot be read.  A session is there
\* twice only if its file was replaced meanwhile.  A lookup returns at most the session
\* it asked for, and returns it by the same rules.
ListingIsSound ==
  LET result == listing.sessions
      steadyHere == {s \in steady : dir[s.path.root] = "ok"}
      wanted == IF listing.id = {} THEN steadyHere
                ELSE {s \in steadyHere : s.path \in listing.id}
  IN
  /\ listing.outcome = "error" => \E r \in {"wayland", "x11"} : dir[r] = "unreadable"
  /\ listing.outcome = "ok" =>
       /\ wanted \subseteq Range(result)
       /\ Range(result) \subseteq Possible
       /\ listing.id # {} => Len(result) <= 1 /\ \A s \in Range(result) : s.path \in listing.id
       /\ \A i, j \in DOMAIN result : i < j =>
            /\ Precedes(result[i].path, result[j].path)
            /\ result[i].path = result[j].path => result[i].path \in touched
=============================================================================
