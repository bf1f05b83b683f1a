----------------------------- MODULE Migrations -----------------------------
(***************************************************************************)
(* The schema migrations (db/migrate.go): any number of "server migrate"   *)
(* processes that read the applied versions once and then work through     *)
(* what they take for pending, each version in a transaction of its own    *)
(* and without a lock that would keep the processes apart.                 *)
(*                                                                         *)
(* A version creates a table of its own or adds columns to the table of an *)
(* earlier one, as 0008, 0010 and 0011 do to that of 0007; tables that     *)
(* refer to others are left out, and so is the parsing of the file names.  *)
(***************************************************************************)
EXTENDS Naturals, FiniteSets

CONSTANTS
  Versions,   \* the embedded migrations
  TableOf,    \* TableOf[v]: the version whose table v creates or alters
  Runners,    \* bound: migrate processes at a time
  MaxDowns,   \* bound: calls of MigrateDown
  Stops       \* whether processes and connections may fail

ASSUME MigrationsAssumption ==
  /\ Versions \subseteq Nat
  /\ TableOf \in [Versions -> Versions]
  /\ \A v \in Versions : TableOf[v] <= v /\ TableOf[TableOf[v]] = TableOf[v]
  /\ MaxDowns \in Nat /\ Stops \in BOOLEAN

VARIABLES
  schema,       \* versions whose tables or columns exist
  applied,     \* table schema_migrations
  rpc, rdown,   \* where a process is, and whether it is a MigrateDown
  rpending,     \* versions it has still to apply, or the one to roll back
  downs,        \* how many MigrateDowns there have been
  overlapped,   \* history: a MigrateDown ran beside another process
  undowned      \* no failures and no MigrateDown any more

migrationVars == <<schema, applied, rpc, rdown, rpending, downs, overlapped, undowned>>

-----------------------------------------------------------------------------
MigrationsTypeOK ==
  /\ schema \subseteq Versions /\ applied \subseteq Versions
  /\ rpc \in [Runners -> {"idle", "sql", "record", "commit"}]
  /\ rdown \in [Runners -> BOOLEAN]
  /\ rpending \in [Runners -> SUBSET Versions]
  /\ \A r \in Runners : rpc[r] # "idle" => rpending[r] # {}
  /\ downs \in 0..MaxDowns
  /\ overlapped \in BOOLEAN /\ undowned \in BOOLEAN

MigrationsInit ==
  /\ schema = {} /\ applied = {}
  /\ rpc = [r \in Runners |-> "idle"]
  /\ rdown = [r \in Runners |-> FALSE]
  /\ rpending = [r \in Runners |-> {}]
  /\ downs = 0
  /\ overlapped = FALSE /\ undowned = FALSE

\* loadMigrations sorts: the lowest of those to do is the next.
InTurn(v, todo) == v \in todo /\ \A w \in todo : v <= w

Busy(r) == rpc[r] # "idle"
Quit(r) ==
  /\ rpc' = [rpc EXCEPT ![r] = "idle"]
  /\ rdown' = [rdown EXCEPT ![r] = FALSE]
  /\ rpending' = [rpending EXCEPT ![r] = {}]

-----------------------------------------------------------------------------
\* MigrateUp: the applied versions are read once.
MigrateUp(r) ==
  /\ ~Busy(r)
  /\ Versions \ applied # {}
  /\ rpc' = [rpc EXCEPT ![r] = "sql"]
  /\ rpending' = [rpending EXCEPT ![r] = Versions \ applied]
  /\ overlapped' = (overlapped \/ \E q \in Runners : rdown[q])
  /\ UNCHANGED <<schema, applied, rdown, downs, undowned>>

\* MigrateDown: the highest of the applied versions.
MigrateDown(r) ==
  /\ ~undowned /\ downs < MaxDowns /\ downs' = downs + 1
  /\ ~Busy(r)
  /\ \E v \in applied :
       /\ \A w \in applied : w <= v
       /\ rpending' = [rpending EXCEPT ![r] = {v}]
  /\ rpc' = [rpc EXCEPT ![r] = "sql"]
  /\ rdown' = [rdown EXCEPT ![r] = TRUE]
  /\ overlapped' = (overlapped \/ \E q \in Runners : Busy(q))
  /\ UNCHANGED <<schema, applied, undowned>>

\* Statements on one table wait for the transaction that is open on it.
Free(r, v) ==
  \A q \in Runners \ {r} : rpc[q] \in {"record", "commit"} =>
    \A w \in rpending[q] : InTurn(w, rpending[q]) => TableOf[w] # TableOf[v]

\* Dropping a table takes the columns of later versions with it.
Undone(v) == IF TableOf[v] = v THEN schema \ {w \in Versions : TableOf[w] = v} ELSE schema \ {v}

\* mutant: no transaction; the statements take effect at once
MutantRunSQL(r) ==
  /\ rpc[r] = "sql"
  /\ \E v \in rpending[r] :
       /\ InTurn(v, rpending[r]) /\ Free(r, v)
       /\ schema' = IF rdown[r] THEN Undone(v) ELSE schema \cup {v}
  /\ rpc' = [rpc EXCEPT ![r] = "record"]
  /\ UNCHANGED <<applied, rdown, rpending, downs, overlapped, undowned>>

\* The SQL of one version, inside a transaction.  CREATE and ADD COLUMN fail on
\* what is there, ALTER TABLE without its table; "IF EXISTS" does not fail.
RunSQL(r) ==
  /\ rpc[r] = "sql"
  /\ \E v \in rpending[r] :
       /\ InTurn(v, rpending[r]) /\ Free(r, v)
       /\ LET table == TableOf[v] = v \/ TableOf[v] \in schema
              good == table /\ (rdown[r] \/ v \notin schema)
          IN  \/ good /\ rpc' = [rpc EXCEPT ![r] = "record"] /\ UNCHANGED <<rdown, rpending>>
              \/ ~good /\ Quit(r)
  /\ UNCHANGED <<schema, applied, downs, overlapped, undowned>>

\* The row of schema_migrations, in the same transaction.
RecordVersion(r) ==
  /\ rpc[r] = "record"
  /\ \E v \in rpending[r] :
       /\ InTurn(v, rpending[r])
       /\ IF v \in applied /\ ~rdown[r]
            THEN Quit(r)
            ELSE rpc' = [rpc EXCEPT ![r] = "commit"] /\ UNCHANGED <<rdown, rpending>>
  /\ UNCHANGED <<schema, applied, downs, overlapped, undowned>>

\* mutant: the process ends after the first version
MutantNextVersion(r, v) == Quit(r)

\* On to the next version, if there is one.
NextVersion(r, v) ==
  IF rpending[r] = {v}
    THEN Quit(r)
    ELSE /\ rpending' = [rpending EXCEPT ![r] = @ \ {v}]
         /\ rpc' = [rpc EXCEPT ![r] = "sql"]
         /\ UNCHANGED rdown

Commit(r) ==
  /\ rpc[r] = "commit"
  /\ \E v \in rpending[r] :
       /\ InTurn(v, rpending[r])
       /\ schema' = IF rdown[r] THEN Undone(v) ELSE schema \cup {v}
       /\ applied' = IF rdown[r] THEN applied \ {v} ELSE applied \cup {v}
       /\ NextVersion(r, v)
  /\ UNCHANGED <<downs, overlapped, undowned>>

\* The process stops, runs into its thirty seconds or loses its connection: the
\* open transaction is rolled back.
Stop(r) ==
  /\ Stops /\ ~undowned
  /\ Busy(r)
  /\ Quit(r)
  /\ UNCHANGED <<schema, applied, downs, overlapped, undowned>>

Undown ==
  /\ ~undowned /\ undowned' = TRUE
  /\ UNCHANGED <<schema, applied, rpc, rdown, rpending, downs, overlapped>>

Migrate(r) == RunSQL(r) \/ RecordVersion(r) \/ Commit(r)

MigrationsNext ==
  \/ \E r \in Runners : MigrateUp(r) \/ MigrateDown(r) \/ Migrate(r) \/ Stop(r)
  \/ Undown

\* A process that has been started goes on.
MigrationsFairness == \A r \in Runners : WF_migrationVars(Migrate(r))

MigrationsSpec == MigrationsInit /\ [][MigrationsNext]_migrationVars /\ MigrationsFairness

-----------------------------------------------------------------------------
(* Properties.                                                             *)

\* What schema_migrations says is what the schema is, and without gaps, however
\* many processes apply versions at a time and wherever they are stopped; as
\* long as a MigrateDown has the database for itself (runInTx).
SchemaAsRecorded ==
  ~overlapped =>
    /\ schema = applied
    /\ \A v \in applied : \A w \in Versions : w <= v => w \in applied

\* Processes that apply versions at the same time trip over each other, but not
\* all of them: between them they bring the schema up to date (MigrateUp).
MigratedBetweenThem ==
  (/\ undowned /\ ~overlapped /\ \A r \in Runners : ~rdown[r]
   /\ \E r \in Runners : Busy(r) /\ rpending[r] = Versions \ applied)
    ~> (applied = Versions)

=============================================================================
