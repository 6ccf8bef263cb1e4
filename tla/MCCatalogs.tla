---- MODULE MCCatalogs ----
(* The two catalogs for model checking.  They share nothing, so one of them is *)
(* explored while the other is at rest.  Two changes of the host are enough to *)
(* replace a file and to install its old program between reading the one and   *)
(* looking for the other.                                                      *)
EXTENDS Catalogs, TLC

CONSTANTS alice, bob, q1, q2, Alphabet, MaxLength

Path(root, stem, desktop) == [root |-> root, stem |-> stem, desktop |-> desktop]
First == Path("wayland", 1, TRUE)
Second == Path("wayland", 2, TRUE)
Backup == Path("wayland", 3, FALSE)
Other == Path("x11", 1, TRUE)
ThePaths == {First, Second, Backup, Other}

TheCommands == {<<"a">>, <<"b">>}

Plain(argv) == Entry(argv, NoQuote, "plain", NoCommand)

TheAlphabet == {"a", "s", "t", " ", "\n", "\t", "'", "\"", "\\", "%"}

TheCharacters == TheAlphabet \cup {"b", "n", "r", "\r"}

\* Every argument of at most MaxLength characters, quoted in every way.
Probes ==
  {Entry(<<<<"a">>, argument>>, style, "otherGroup", NoCommand) :
     argument \in UNION {[1..n -> Alphabet] : n \in 0..MaxLength}, style \in Quotes \cup {NoQuote}}

Ordinary ==
  {Absent, Unreadable, Plain(<<<<"a">>>>),
   Entry(<<<<"b">>, <<>>>>, "'", "plain", <<"a">>)}

Odd ==
  {Entry(<<<<"a">>>>, NoQuote, flag, NoCommand) : flag \in Flags \ {"plain"}}
  \cup {Raw(<<>>), Raw(<<"a", " ", "'">>), Raw(<<"a", "\\">>), Raw(<<"\\", "s">>)}

TheUpdates == {Absent, Plain(<<<<"a">>>>), Plain(<<<<"b">>>>)}

TheKinds ==
  {BrokenAccount, Account(TRUE, FALSE, "bash"), Account(TRUE, TRUE, "bash"),
   Account(TRUE, FALSE, "nologin"), Account(FALSE, FALSE, "bash")}

\* Two ordinary files of one root, a third in the other; an odd file stands alone.
\* The backup has no .desktop in its name.
Tree(first, second, other) ==
  [p \in ThePaths |-> CASE p = First -> first [] p = Second -> second
                       [] p = Other -> other [] p = Backup -> Plain(<<<<"a">>>>)]

OrdinaryTrees ==
  {Tree(first, second, other) :
     first \in Ordinary, second \in {Absent, Plain(<<<<"a">>>>)}, other \in {Absent, Plain(<<<<"b">>>>)}}

OddTrees == {Tree(first, Absent, Absent) : first \in Probes \cup Odd}

TheTrees == OrdinaryTrees \cup OddTrees

CatalogSymmetry == Permutations(Accounts) \cup Permutations(Queries)

VARIABLE focus   \* what is explored: the text of one file, the scan, or the users

\* An odd tree is looked at on a host that has everything and does not change.  While
\* the host changes, lookups are for one session.
FocusFits ==
  CASE focus = "text" ->
         /\ files \in OddTrees
         /\ installed = Commands
         /\ dir["wayland"] = "ok" /\ dir["x11"] = "missing"
    [] focus = "sessions" ->
         /\ \A p \in ThePaths : files[p] \in Ordinary \cup {Plain(<<<<"b">>>>)}
         /\ files[Other] # Absent => dir["x11"] = "ok"
    [] focus = "users" ->
         /\ installed = {}
         /\ \A r \in DOMAIN dir : dir[r] = "missing"

MCInit ==
  /\ Init
  /\ focus \in {"text", "sessions", "users"}
  /\ FocusFits
  /\ focus # "users" => up /\ \A a \in Accounts : accounts[a] = BrokenAccount

MCNext ==
  /\ \/ focus = "text" /\ SessionsNext /\ changes' = changes
     \/ focus = "sessions" /\ SessionsNext /\ scan'.id \in {{}, {Second}}
     \/ focus = "users" /\ UsersNext
  /\ UNCHANGED focus

MCSpec == MCInit /\ [][MCNext]_<<sessionVars, userVars, focus>>
====
