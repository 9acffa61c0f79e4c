------------------------------ MODULE Migrations ------------------------------
(***************************************************************************)
(* The schema of the bus database (floe-bus/src/store.ts: the constructor, *)
(* migrate and the backfills; contexts/store.ts: applyContextSchema).      *)
(*                                                                         *)
(* A bus process migrates the database before it binds its port, so two    *)
(* of them may do so at a time.  Every SQL statement commits by itself: a  *)
(* table whose Scope column an old schema required is rebuilt in four of   *)
(* them, and a process may end, or another one act, between any two.       *)
(***************************************************************************)
EXTENDS Integers, Sequences, FiniteSets

CONSTANTS
    Starters,        \* bus processes
    RowIds,          \* a Context, and the event and the pulse in it, have the same id
    RowScopes,       \* Scopes
    NoRowScope,      \* NULL
    DefaultScope,    \* the reserved Scope of the old schema
    MaxStarts,       \* bounds: starts,
    MaxWrites        \*   rows written and Scopes assigned by running processes

ASSUME MigrationsAssumption ==
    /\ MaxStarts \in Nat /\ MaxWrites \in Nat
    /\ NoRowScope # DefaultScope /\ {NoRowScope, DefaultScope} \cap RowScopes = {}

VARIABLES
    table,     \* the database: each table, and the copy a rebuild makes of it
    starter,   \* how far each process is
    torn,      \* a rebuild was cut short, or another process wrote in the midst of one (history)
    existed,   \* ids of the rows that were written (history)
    starts, writes

migrationVars == <<table, starter, torn, existed, starts, writes>>

Tables == {"events", "pulses", "contexts"}
Cells == RowScopes \cup {NoRowScope, DefaultScope}
Contents == UNION {[S -> Cells] : S \in SUBSET RowIds}
NoRows == [id \in {} |-> NoRowScope]
Normal(scope) == IF scope = DefaultScope THEN NoRowScope ELSE scope

\* migrate(), statement by statement; "check" is a relax...Column, which may go on to rebuild.
Program == <<
    <<"create", "events">>, <<"create", "pulses">>,
    <<"add", "events">>, <<"check", "events">>,
    <<"add", "pulses">>, <<"check", "pulses">>,
    <<"create", "contexts">>, <<"add", "contexts">>, <<"check", "contexts">>,
    <<"backfill", "events">> >>
Serving == Len(Program) + 1
Down == [at |-> 0, rebuilding |-> "no"]

MigrationTypeOK ==
    /\ table \in [Tables -> [form : {"absent", "ancient", "required", "present"},
                             rows : Contents, next : BOOLEAN, copy : Contents]]
    /\ starter \in [Starters -> [at : 0..Serving,
                                 rebuilding : {"no", "copy", "drop", "rename"}]]
    /\ torn \in BOOLEAN /\ existed \subseteq RowIds
    /\ starts \in 0..MaxStarts /\ writes \in 0..MaxWrites

\* No database, or one of three vintages: without Scopes, with a required Scope, and today's.
Vintage(form, rows) ==
    [t \in Tables |-> [form |-> form, rows |-> rows, next |-> FALSE, copy |-> NoRows]]
MigrationsInit ==
    /\ \/ table = Vintage("absent", NoRows)
       \/ \E scope \in RowScopes \cup {NoRowScope}, id \in RowIds :
             table = Vintage("present", [i \in {id} |-> scope])
       \/ \E scope \in RowScopes \cup {DefaultScope}, id \in RowIds :
             table = Vintage("required", [i \in {id} |-> scope])
       \/ \E id \in RowIds : table = Vintage("ancient", [i \in {id} |-> NoRowScope])
    /\ starter = [p \in Starters |-> Down]
    /\ torn = FALSE
    /\ existed = DOMAIN table["events"].rows
    /\ starts = 0 /\ writes = 0

-----------------------------------------------------------------------------
Steps(p) == starter' = [starter EXCEPT ![p] = [at |-> @.at + 1, rebuilding |-> "no"]]
Fails(p) == starter' = [starter EXCEPT ![p] = Down]
Is(p, do, t) == starter[p].at \in DOMAIN Program /\ Program[starter[p].at] = <<do, t>>
Runs(p) == starter[p].at = Serving
InRebuild(t) == \E p \in Starters : Is(p, "check", t) /\ starter[p].rebuilding # "no"

StartBus(p) ==
    /\ starter[p] = Down /\ starts < MaxStarts
    /\ starter' = [starter EXCEPT ![p].at = 1]
    /\ starts' = starts + 1
    /\ UNCHANGED <<table, torn, existed, writes>>

\* A process ends: the machine stops, or a statement finds the database locked.
KillBus(p) ==
    /\ starter[p] # Down
    /\ Fails(p)
    /\ torn' = (torn \/ starter[p].rebuilding # "no")
    /\ UNCHANGED <<table, existed, starts, writes>>

\* CREATE TABLE IF NOT EXISTS; while a rebuild has dropped the table, it makes an empty one.
CreateIfMissing(p, t) ==
    /\ Is(p, "create", t)
    /\ table' = IF table[t].form = "absent" THEN [table EXCEPT ![t].form = "present"] ELSE table
    /\ torn' = (torn \/ (table[t].form = "absent" /\ InRebuild(t)))
    /\ Steps(p)
    /\ UNCHANGED <<existed, starts, writes>>

\* Mutant of AddColumnIfMissing: the column is added again, which fails.
AddColumn(p, t) ==
    /\ Is(p, "add", t)
    /\ table' = IF table[t].form # "ancient" THEN table
                ELSE [table EXCEPT ![t].form = IF t = "contexts" THEN "required" ELSE "present"]
    /\ IF table[t].form # "ancient" THEN Fails(p) ELSE Steps(p)
    /\ UNCHANGED <<torn, existed, starts, writes>>

\* addColumnIfMissing: scope_id, and the columns before it.  The creator of a Context is
\* still required then.  There is nothing to add a column to while the table is dropped.
AddColumnIfMissing(p, t) ==
    /\ Is(p, "add", t)
    /\ table' = IF table[t].form # "ancient" THEN table
                ELSE [table EXCEPT ![t].form = IF t = "contexts" THEN "required" ELSE "present"]
    /\ IF table[t].form = "absent" THEN Fails(p) ELSE Steps(p)
    /\ UNCHANGED <<torn, existed, starts, writes>>

\* relax...Column: the look at the schema and the rebuild's first statement, which finds
\* the copy of another rebuild.
Rebuilds(p, t) ==
    /\ Is(p, "check", t) /\ starter[p].rebuilding = "no"
    /\ IF table[t].form # "required"
       THEN Steps(p) /\ UNCHANGED table
       ELSE IF table[t].next
       THEN Fails(p) /\ UNCHANGED table
       ELSE /\ table' = [table EXCEPT ![t].next = TRUE, ![t].copy = NoRows]
            /\ starter' = [starter EXCEPT ![p].rebuilding = "copy"]
    /\ UNCHANGED <<torn, existed, starts, writes>>

\* Mutant of CopiesRows: the rows of the reserved Scope are left behind.
CopiesRowsInScope(p, t) ==
    /\ Is(p, "check", t) /\ starter[p].rebuilding = "copy"
    /\ table' = [table EXCEPT ![t].copy =
                   [id \in {i \in DOMAIN table[t].rows : table[t].rows[i] # DefaultScope}
                      |-> table[t].rows[id]]]
    /\ starter' = [starter EXCEPT ![p].rebuilding = "drop"]
    /\ UNCHANGED <<torn, existed, starts, writes>>

CopiesRows(p, t) ==
    /\ Is(p, "check", t) /\ starter[p].rebuilding = "copy"
    /\ table' = [table EXCEPT ![t].copy =
                   [id \in DOMAIN table[t].rows |-> Normal(table[t].rows[id])]]
    /\ starter' = [starter EXCEPT ![p].rebuilding = "drop"]
    /\ UNCHANGED <<torn, existed, starts, writes>>

DropsTable(p, t) ==
    /\ Is(p, "check", t) /\ starter[p].rebuilding = "drop"
    /\ table' = [table EXCEPT ![t].form = "absent", ![t].rows = NoRows]
    /\ starter' = [starter EXCEPT ![p].rebuilding = "rename"]
    /\ UNCHANGED <<torn, existed, starts, writes>>

\* The name may have been taken meanwhile.
RenamesCopy(p, t) ==
    /\ Is(p, "check", t) /\ starter[p].rebuilding = "rename"
    /\ IF table[t].form = "absent"
       THEN /\ table' = [table EXCEPT ![t] = [form |-> "present", rows |-> @.copy,
                                              next |-> FALSE, copy |-> NoRows]]
            /\ Steps(p)
       ELSE UNCHANGED table /\ Fails(p)
    /\ UNCHANGED <<torn, existed, starts, writes>>

\* Every event gets the Scope its Context has now; another process may have dropped a table.
BackfillEventScopeId(p) ==
    /\ Is(p, "backfill", "events")
    /\ IF "absent" \in {table["events"].form, table["contexts"].form}
       THEN Fails(p) /\ UNCHANGED table
       ELSE /\ table' = [table EXCEPT !["events"].rows =
                   [id \in DOMAIN @ |->
                      IF id \in DOMAIN table["contexts"].rows THEN table["contexts"].rows[id]
                      ELSE NoRowScope]]
            /\ Steps(p)
    /\ UNCHANGED <<torn, existed, starts, writes>>

-----------------------------------------------------------------------------
(* A running process                                                       *)

Usable == \A t \in Tables : table[t].form # "absent"

\* A Context, and an event and a pulse in it.
WriteRows(p, id, scope) ==
    /\ Runs(p) /\ Usable /\ writes < MaxWrites
    /\ id \notin existed
    /\ table' = [t \in Tables |->
                   [table[t] EXCEPT !.rows = [i \in DOMAIN @ \cup {id} |->
                                                IF i = id THEN scope ELSE @[i]]]]
    /\ existed' = existed \cup {id}
    /\ torn' = (torn \/ \E t \in Tables : InRebuild(t))
    /\ writes' = writes + 1
    /\ UNCHANGED <<starter, starts>>

\* assignContextScope: the Context's events keep the Scope they have.
AssignScope(p, id, scope) ==
    /\ Runs(p) /\ Usable /\ writes < MaxWrites
    /\ id \in DOMAIN table["contexts"].rows /\ table["contexts"].rows[id] = NoRowScope
    /\ table' = [table EXCEPT !["contexts"].rows[id] = scope]
    /\ torn' = (torn \/ InRebuild("contexts"))
    /\ writes' = writes + 1
    /\ UNCHANGED <<starter, existed, starts>>

MigrationProceeds(p) ==
    \/ \E t \in Tables :
          \/ CreateIfMissing(p, t) \/ AddColumnIfMissing(p, t)
          \/ Rebuilds(p, t) \/ CopiesRows(p, t) \/ DropsTable(p, t) \/ RenamesCopy(p, t)
    \/ BackfillEventScopeId(p)

MigrationsNext ==
    \E p \in Starters :
        \/ StartBus(p) \/ KillBus(p) \/ MigrationProceeds(p)
        \/ \E id \in RowIds :
              \/ \E scope \in RowScopes \cup {NoRowScope} : WriteRows(p, id, scope)
              \/ \E scope \in RowScopes : AssignScope(p, id, scope)

MigrationsSpec == MigrationsInit /\ [][MigrationsNext]_migrationVars
                  /\ WF_migrationVars(\E p \in Starters : MigrationProceeds(p))

-----------------------------------------------------------------------------
(* Properties                                                              *)

MigrationLosesNothing ==
    ~torn /\ (\E p \in Starters : Runs(p))
    => \A t \in Tables : ~InRebuild(t) => DOMAIN table[t].rows = existed

ServedSchemaIsPresent ==
    \A p \in Starters : Runs(p) =>
        \A t \in Tables : /\ table[t].form \notin {"ancient", "required"}
                          /\ \A id \in DOMAIN table[t].rows : table[t].rows[id] # DefaultScope

\* However often a start is cut short and repeated, and however two processes that migrate at
\* once interleave, a bus that runs finds every row in every table, unless a process ended in
\* the midst of a rebuild, or wrote to or created the table of one.  It meets neither an old
\* schema nor the reserved Scope, even when another process is still migrating, or died while
\* it was.
ServedTablesAreWhole == MigrationLosesNothing /\ ServedSchemaIsPresent

\* A start that nothing disturbs ends with a bus that runs: no statement of the migration fails
\* on what an earlier start that was cut short outside a rebuild left behind.
StartEndsServing ==
    [][\A p \in Starters :
         (~torn /\ (\A q \in Starters \ {p} : starter[q] = Down) /\ MigrationProceeds(p))
            => starter'[p] # Down]_migrationVars
=============================================================================
