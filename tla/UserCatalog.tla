----------------------------- MODULE UserCatalog -----------------------------
(***************************************************************************)
(* The list of login users (users.rs), read from AccountsService over a    *)
(* connection to the system bus that concurrent queries share.  The        *)
(* connection is made when it is first needed, under a lock, and replaced  *)
(* by the next query once it is closed.                                    *)
(***************************************************************************)
EXTENDS Naturals, FiniteSets

CONSTANTS
  Queries,          \* concurrent calls of ListUsers
  Accounts,         \* user objects of AccountsService
  Kinds,            \* what a user object may be
  MaxTurns          \* bounds what happens to the accounts, the service and the bus

\* A user object that cannot be read, or its properties; `shell` is the last
\* component of the path.
BrokenAccount == [broken |-> TRUE, named |-> FALSE, system |-> FALSE, shell |-> ""]
Account(named, system, shell) ==
  [broken |-> FALSE, named |-> named, system |-> system, shell |-> shell]

VARIABLES
  cached,     \* the shared connection, or 0
  open,       \* connections that are open
  made,       \* number of connections made
  lock,       \* queries that hold the lock: at most one
  query,      \* the state of each query
  accounts,   \* the user objects
  up,         \* whether the system bus and AccountsService answer
  turns,      \* number of changes of the accounts, of `up`, and closed connections
  trouble,    \* ghost: running queries that the bus or AccountsService failed
  always,     \* ghost: login users since each running query began
  ever        \* ghost: login users at some time since

busVars == <<cached, open, made, lock>>
accountVars == <<accounts, up, turns>>
noteVars == <<trouble, always, ever>>
userVars == <<busVars, query, accountVars, noteVars>>

Asleep == [at |-> "idle", conn |-> 0, pending |-> {}, users |-> {}, outcome |-> "none"]

IsLoginShell(shell) == shell \notin {"", "false", "nologin"}

\* make_user_entry
MakeUserEntry(account) == account.named /\ ~account.system /\ IsLoginShell(account.shell)

\* The accounts that ListUsers promises.
LoginUsers == {a \in Accounts : ~accounts[a].broken /\ MakeUserEntry(accounts[a])}

UserInit ==
  /\ cached = 0
  /\ open = {}
  /\ made = 0
  /\ lock = {}
  /\ query = [q \in Queries |-> Asleep]
  /\ accounts \in [Accounts -> Kinds]
  /\ up \in BOOLEAN
  /\ turns = 0
  /\ trouble = {}
  /\ always = [q \in Queries |-> {}]
  /\ ever = [q \in Queries |-> {}]

Move(q, next) == query' = [query EXCEPT ![q] = next]

\* The query is over, and with it what was noted about its time.
Answer(q, outcome, users) ==
  /\ Move(q, [Asleep EXCEPT !.outcome = outcome, !.users = users])
  /\ trouble' = trouble \ {q}
  /\ always' = [always EXCEPT ![q] = {}]
  /\ ever' = [ever EXCEPT ![q] = {}]
  /\ UNCHANGED accountVars

\* ListUsers
List(q) ==
  /\ query[q].at = "idle"
  /\ Move(q, [Asleep EXCEPT !.at = "connect"])
  /\ trouble' = IF up THEN trouble ELSE trouble \cup {q}
  /\ always' = [always EXCEPT ![q] = LoginUsers]
  /\ ever' = [ever EXCEPT ![q] = LoginUsers]
  /\ UNCHANGED <<busVars, accountVars>>

\* (fault) the cached connection is used without asking whether it is closed
ReuseStale(q) ==
  /\ query[q].at = "connect"
  /\ lock = {}
  /\ cached # 0
  /\ Move(q, [query[q] EXCEPT !.at = "list", !.conn = cached])
  /\ UNCHANGED <<busVars, accountVars, noteVars>>

\* The query takes the lock and finds a connection that is open.
Reuse(q) ==
  /\ query[q].at = "connect"
  /\ lock = {}
  /\ cached \in open
  /\ Move(q, [query[q] EXCEPT !.at = "list", !.conn = cached])
  /\ UNCHANGED <<busVars, accountVars, noteVars>>

\* The query takes the lock, drops a closed connection, and makes a new one.
Connect(q) ==
  /\ query[q].at = "connect"
  /\ lock = {}
  /\ cached \notin open
  /\ cached' = 0
  /\ lock' = {q}
  /\ Move(q, [query[q] EXCEPT !.at = "connecting"])
  /\ UNCHANGED <<open, made, accountVars, noteVars>>

Connected(q) ==
  /\ query[q].at = "connecting"
  /\ up
  /\ made' = made + 1
  /\ open' = open \cup {made'}
  /\ cached' = made'
  /\ lock' = {}
  /\ Move(q, [query[q] EXCEPT !.at = "list", !.conn = made'])
  /\ UNCHANGED <<accountVars, noteVars>>

ConnectFails(q) ==
  /\ query[q].at = "connecting"
  /\ ~up
  /\ lock' = {}
  /\ Answer(q, "failed", {})
  /\ UNCHANGED <<cached, open, made>>

\* ListCachedUsers
Listed(q) ==
  /\ query[q].at = "list"
  /\ query[q].conn \in open
  /\ up
  /\ Move(q, [query[q] EXCEPT !.at = "read", !.pending = Accounts])
  /\ UNCHANGED <<busVars, accountVars, noteVars>>

ListFails(q) ==
  /\ query[q].at = "list"
  /\ query[q].conn \notin open \/ ~up
  /\ Answer(q, "failed", {})
  /\ UNCHANGED busVars

\* The properties of the users are read concurrently; a user that cannot be read
\* is left out.
ReadUser(q) ==
  \E a \in query[q].pending :
    /\ query[q].at = "read"
    /\ Move(q, [query[q] EXCEPT !.pending = @ \ {a},
                                !.users = IF query[q].conn \in open /\ up /\ a \in LoginUsers
                                          THEN @ \cup {a} ELSE @])
    /\ UNCHANGED <<busVars, accountVars, noteVars>>

AllRead(q) ==
  /\ query[q].at = "read"
  /\ query[q].pending = {}
  /\ Answer(q, "ok", query[q].users)
  /\ UNCHANGED busVars

Running == {q \in Queries : query[q].at # "idle"}

\* The system bus closes a connection: every query that runs may notice.
BusCloses(c) ==
  /\ c \in open
  /\ turns < MaxTurns
  /\ turns' = turns + 1
  /\ open' = open \ {c}
  /\ trouble' = trouble \cup Running
  /\ UNCHANGED <<cached, made, lock, query, accounts, up, always, ever>>

AccountChanges(a, kind) ==
  /\ turns < MaxTurns
  /\ turns' = turns + 1
  /\ accounts' = [accounts EXCEPT ![a] = kind]
  /\ always' = [q \in Queries |-> always[q] \cap LoginUsers']
  /\ ever' = [q \in Queries |-> IF q \in Running THEN ever[q] \cup LoginUsers' ELSE {}]
  /\ UNCHANGED <<busVars, query, up, trouble>>

\* AccountsService or the bus stops to answer, or is back.
ServiceChanges ==
  /\ turns < MaxTurns
  /\ turns' = turns + 1
  /\ up' = ~up
  /\ trouble' = trouble \cup Running
  /\ UNCHANGED <<busVars, query, accounts, always, ever>>

UserStep ==
  \/ \E q \in Queries :
       \/ List(q) \/ Reuse(q) \/ Connect(q) \/ Connected(q) \/ ConnectFails(q)
       \/ Listed(q) \/ ListFails(q) \/ ReadUser(q) \/ AllRead(q)
  \/ \E c \in open : BusCloses(c)
  \/ \E a \in Accounts, kind \in Kinds : AccountChanges(a, kind)
  \/ ServiceChanges

UserSpec == UserInit /\ [][UserStep]_userVars

-----------------------------------------------------------------------------
(* Properties.                                                             *)

\* The lock is held exactly while its query connects, and a query works with a
\* connection that was made.
UserTypeOK ==
  /\ cached \in 0..made
  /\ open \subseteq 1..made
  /\ \A q \in Queries :
       /\ query[q].at \in {"idle", "connect", "connecting", "list", "read"}
       /\ query[q].at = "connecting" <=> q \in lock
       /\ query[q].conn \in 0..made
       /\ query[q].at \in {"list", "read"} => query[q].conn # 0
       /\ query[q].users \cup query[q].pending \subseteq Accounts
  /\ Cardinality(lock) <= 1
  /\ accounts \in [Accounts -> Kinds]

\* A query fails only if the bus or AccountsService failed while it ran, never
\* because of what an earlier query left behind; otherwise it returns every account
\* that was a login user all the time, whatever other accounts are broken, and only
\* accounts that were login users at some time.
UserListIsSound ==
  [][ \A q \in Running :
        /\ query'[q].outcome = "failed" => q \in trouble
        /\ query'[q].outcome = "ok" =>
             /\ query'[q].users \subseteq ever[q]
             /\ q \in trouble \/ always[q] \subseteq query'[q].users ]_userVars
=============================================================================
