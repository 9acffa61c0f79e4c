---------------------------- MODULE ServiceProofs ----------------------------
(***************************************************************************)
(* Proofs about what the services keep and what they do with it: the       *)
(* tables a running bus finds in its database (Migrations), the credential *)
(* files that several processes write (Credentials), the sessions of the   *)
(* model runtimes (RuntimeSession), the runs of a command (CommandRuns),   *)
(* the folders that are watched (FolderWatch), the extensions with their   *)
(* relays (Extensions) and the listings of models (ModelListing).  The     *)
(* last section puts them together with what WorkspaceProofs proves, as    *)
(* the composition that is model-checked (MCServices).                     *)
(***************************************************************************)
EXTENDS MCServices, WorkspaceProofs

Forms == {"absent", "ancient", "required", "present"}
TableStates == [form : Forms, rows : Contents, next : BOOLEAN, copy : Contents]
StarterStates == [at : 0..Serving, rebuilding : {"no", "copy", "drop", "rename"}]

-----------------------------------------------------------------------------
(* The statements                                                          *)

\* The position of the statements on a table in the program.
CreateAt == [t \in Tables |-> CASE t = "events" -> 1 [] t = "pulses" -> 2 [] t = "contexts" -> 7]
AddAt == [t \in Tables |-> CASE t = "events" -> 3 [] t = "pulses" -> 5 [] t = "contexts" -> 8]
CheckAt == [t \in Tables |-> CASE t = "events" -> 4 [] t = "pulses" -> 6 [] t = "contexts" -> 9]

LEMMA ProgramOrder ==
    /\ Serving = 11 /\ DOMAIN Program = 1..10
    /\ \A t \in Tables : /\ CreateAt[t] \in 1..7 /\ AddAt[t] \in 3..8 /\ CheckAt[t] \in 4..9
                         /\ CreateAt[t] < AddAt[t] /\ CheckAt[t] = AddAt[t] + 1
<1>1. Len(Program) = 10 /\ DOMAIN Program = 1..10
  BY DEF Program
<1>2. Serving = 11
  BY <1>1 DEF Serving
<1> QED  BY <1>1, <1>2 DEF CreateAt, AddAt, CheckAt, Tables

LEMMA StatementAt ==
    ASSUME NEW p \in Starters, NEW t \in Tables, starter[p].at \in 0..Serving
    PROVE  /\ Is(p, "create", t) <=> starter[p].at = CreateAt[t]
           /\ Is(p, "add", t) <=> starter[p].at = AddAt[t]
           /\ Is(p, "check", t) <=> starter[p].at = CheckAt[t]
           /\ Is(p, "backfill", "events") <=> starter[p].at = 10
<1> DEFINE n == starter[p].at
<1>1. n \in DOMAIN Program <=> n \in 1..10
  BY ProgramOrder
<1>2. n \in 1..10 <=> n \in {1, 2, 3, 4, 5, 6, 7, 8, 9, 10}
  BY ProgramOrder
<1>3. /\ Program[1] = <<"create", "events">> /\ Program[2] = <<"create", "pulses">>
      /\ Program[3] = <<"add", "events">> /\ Program[4] = <<"check", "events">>
      /\ Program[5] = <<"add", "pulses">> /\ Program[6] = <<"check", "pulses">>
      /\ Program[7] = <<"create", "contexts">> /\ Program[8] = <<"add", "contexts">>
      /\ Program[9] = <<"check", "contexts">> /\ Program[10] = <<"backfill", "events">>
  BY DEF Program
<1>4. t = "events" \/ t = "pulses" \/ t = "contexts"
  BY DEF Tables
<1>5. /\ CreateAt["events"] = 1 /\ CreateAt["pulses"] = 2 /\ CreateAt["contexts"] = 7
      /\ AddAt["events"] = 3 /\ AddAt["pulses"] = 5 /\ AddAt["contexts"] = 8
      /\ CheckAt["events"] = 4 /\ CheckAt["pulses"] = 6 /\ CheckAt["contexts"] = 9
  BY DEF CreateAt, AddAt, CheckAt, Tables
<1> HIDE DEF n
<1>6. ASSUME NEW do, n \in 1..10
      PROVE  Program[n] = <<do, t>> <=>
                \/ n = CreateAt[t] /\ do = "create"
                \/ n = AddAt[t] /\ do = "add"
                \/ n = CheckAt[t] /\ do = "check"
                \/ n = 10 /\ do = "backfill" /\ t = "events"
  <2>1. CASE t = "events"
    BY <1>2, <1>3, <1>5, <1>6, <2>1
  <2>2. CASE t = "pulses"
    BY <1>2, <1>3, <1>5, <1>6, <2>2
  <2>3. CASE t = "contexts"
    BY <1>2, <1>3, <1>5, <1>6, <2>3
  <2> QED  BY <1>4, <2>1, <2>2, <2>3
<1>7. n \in 1..10 => (Program[n] = <<"backfill", "events">> <=> n = 10)
  BY <1>2, <1>3
<1>8. CreateAt[t] \in 1..10 /\ AddAt[t] \in 1..10 /\ CheckAt[t] \in 1..10
  BY <1>4, <1>5
<1> QED  BY <1>1, <1>6, <1>7, <1>8 DEF Is, n

-----------------------------------------------------------------------------
(* Types                                                                   *)

LEMMA MadeContents ==
    ASSUME NEW S \in SUBSET RowIds, NEW r \in [S -> Cells]
    PROVE  r \in Contents /\ DOMAIN r = S
BY DEF Contents

LEMMA OfContents ==
    ASSUME NEW r \in Contents
    PROVE  DOMAIN r \in SUBSET RowIds /\ r \in [DOMAIN r -> Cells]
BY DEF Contents

LEMMA NoRowsContents == NoRows \in Contents /\ DOMAIN NoRows = {}
<1>1. NoRows \in [{} -> Cells]
  BY DEF NoRows
<1> QED  BY <1>1, MadeContents

LEMMA MigrationTypesInit == MigrationsInit => MigrationTypeOK
<1> SUFFICES ASSUME MigrationsInit PROVE MigrationTypeOK
  OBVIOUS
<1>1. ASSUME NEW form \in Forms, NEW rows \in Contents
      PROVE  Vintage(form, rows) \in [Tables -> TableStates]
  BY NoRowsContents DEF Vintage, TableStates
<1>2. ASSUME NEW cell \in Cells, NEW id \in RowIds
      PROVE  [i \in {id} |-> cell] \in Contents
  BY MadeContents
<1>3. table \in [Tables -> TableStates]
  <2>1. CASE table = Vintage("absent", NoRows)
    BY <1>1, <2>1, NoRowsContents DEF Forms
  <2>2. CASE \E cell \in RowScopes \cup {NoRowScope}, id \in RowIds :
               table = Vintage("present", [i \in {id} |-> cell])
    BY <1>1, <1>2, <2>2 DEF Forms, Cells
  <2>3. CASE \E cell \in RowScopes \cup {DefaultScope}, id \in RowIds :
               table = Vintage("required", [i \in {id} |-> cell])
    BY <1>1, <1>2, <2>3 DEF Forms, Cells
  <2>4. CASE \E id \in RowIds : table = Vintage("ancient", [i \in {id} |-> NoRowScope])
    BY <1>1, <1>2, <2>4 DEF Forms, Cells
  <2> QED  BY <2>1, <2>2, <2>3, <2>4 DEF MigrationsInit
<1>4. starter \in [Starters -> StarterStates]
  <2>1. Down \in StarterStates
    BY ProgramOrder DEF Down, StarterStates
  <2> QED  BY <2>1 DEF MigrationsInit
<1>5. existed \subseteq RowIds
  <2>1. table["events"].rows \in Contents
    BY <1>3 DEF Tables, TableStates
  <2> QED  BY <2>1, OfContents DEF MigrationsInit
<1>6. starts \in 0..MaxStarts /\ writes \in 0..MaxWrites
  BY MigrationsAssumption DEF MigrationsInit
<1> QED  BY <1>3, <1>4, <1>5, <1>6
         DEF MigrationsInit, MigrationTypeOK, TableStates, StarterStates, Forms

\* Where a process goes.
LEMMA StarterTypes ==
    ASSUME NEW p \in Starters, starter \in [Starters -> StarterStates],
           starter[p].at \in 0..10
    PROVE  /\ Steps(p) => starter' \in [Starters -> StarterStates]
           /\ Fails(p) => starter' \in [Starters -> StarterStates]
           /\ \A stage \in {"copy", "drop", "rename"} :
                 starter' = [starter EXCEPT ![p].rebuilding = stage] =>
                    starter' \in [Starters -> StarterStates]
<1>1. /\ [at |-> starter[p].at + 1, rebuilding |-> "no"] \in StarterStates
      /\ Down \in StarterStates
  BY ProgramOrder DEF StarterStates, Down
<1>2. \A stage \in {"copy", "drop", "rename"} :
         [starter[p] EXCEPT !.rebuilding = stage] \in StarterStates
  BY DEF StarterStates
<1> QED  BY <1>1, <1>2 DEF Steps, Fails

LEMMA MigrationTypesStep ==
    ASSUME MigrationTypeOK, [MigrationsNext]_migrationVars
    PROVE  MigrationTypeOK'
<1>0. /\ table \in [Tables -> TableStates] /\ starter \in [Starters -> StarterStates]
      /\ torn \in BOOLEAN /\ existed \subseteq RowIds
      /\ starts \in 0..MaxStarts /\ writes \in 0..MaxWrites
  BY DEF MigrationTypeOK, TableStates, StarterStates, Forms
<1>1. CASE UNCHANGED migrationVars
  BY <1>1 DEF migrationVars, MigrationTypeOK
<1>2. ASSUME NEW p \in Starters, StartBus(p) \/ KillBus(p) PROVE MigrationTypeOK'
  <2>1. Down \in StarterStates /\ [starter[p] EXCEPT !.at = 1] \in StarterStates
    BY <1>0, ProgramOrder DEF StarterStates, Down
  <2>2. starter' \in [Starters -> StarterStates] /\ torn' \in BOOLEAN
    BY <1>0, <1>2, <2>1 DEF StartBus, KillBus, Fails
  <2>3. starts' \in 0..MaxStarts
    BY <1>0, <1>2, MigrationsAssumption DEF StartBus, KillBus
  <2> QED  BY <1>0, <1>2, <2>2, <2>3
           DEF StartBus, KillBus, MigrationTypeOK, TableStates, StarterStates, Forms
<1>3. ASSUME NEW p \in Starters, MigrationProceeds(p) PROVE MigrationTypeOK'
  <2>1. starter[p].at \in 0..10
    <3>1. \/ \E t \in Tables : Is(p, "create", t) \/ Is(p, "add", t) \/ Is(p, "check", t)
          \/ Is(p, "backfill", "events")
      BY <1>3 DEF MigrationProceeds, CreateIfMissing, AddColumnIfMissing, Rebuilds, CopiesRows,
         DropsTable, RenamesCopy, BackfillEventScopeId
    <3>2. starter[p].at \in DOMAIN Program
      BY <3>1 DEF Is
    <3> QED  BY <3>2, ProgramOrder
  <2>2. starter' \in [Starters -> StarterStates]
    BY <1>0, <1>3, <2>1, StarterTypes DEF MigrationProceeds, CreateIfMissing, AddColumnIfMissing,
       Rebuilds, CopiesRows, DropsTable, RenamesCopy, BackfillEventScopeId
  <2>3. torn' \in BOOLEAN /\ UNCHANGED <<existed, starts, writes>>
    BY <1>0, <1>3 DEF MigrationProceeds, CreateIfMissing, AddColumnIfMissing,
       Rebuilds, CopiesRows, DropsTable, RenamesCopy, BackfillEventScopeId
  <2>4. table' \in [Tables -> TableStates]
    <3>1. ASSUME NEW t \in Tables, CreateIfMissing(p, t) \/ AddColumnIfMissing(p, t)
          PROVE  table' \in [Tables -> TableStates]
      BY <1>0, <3>1 DEF CreateIfMissing, AddColumnIfMissing, TableStates, Forms
    <3>2. ASSUME NEW t \in Tables,
                 Rebuilds(p, t) \/ DropsTable(p, t) \/ RenamesCopy(p, t)
          PROVE  table' \in [Tables -> TableStates]
      <4>1. NoRows \in Contents /\ table[t] \in TableStates
        BY <1>0, NoRowsContents
      <4>2. /\ [table[t] EXCEPT !.next = TRUE, !.copy = NoRows] \in TableStates
            /\ [table[t] EXCEPT !.form = "absent", !.rows = NoRows] \in TableStates
            /\ [form |-> "present", rows |-> table[t].copy, next |-> FALSE, copy |-> NoRows]
                 \in TableStates
        BY <4>1 DEF TableStates, Forms
      <4>3. \/ table' = table
            \/ table' = [table EXCEPT ![t] = [@ EXCEPT !.next = TRUE, !.copy = NoRows]]
            \/ table' = [table EXCEPT ![t] = [@ EXCEPT !.form = "absent", !.rows = NoRows]]
            \/ table' = [table EXCEPT ![t] = [form |-> "present", rows |-> @.copy,
                                              next |-> FALSE, copy |-> NoRows]]
        BY <1>0, <3>2 DEF Rebuilds, DropsTable, RenamesCopy
      <4> QED  BY <1>0, <4>2, <4>3
    <3>4. ASSUME NEW t \in Tables, CopiesRows(p, t) PROVE table' \in [Tables -> TableStates]
      <4>1. table[t].rows \in Contents
        BY <1>0 DEF TableStates
      <4>2. [id \in DOMAIN table[t].rows |-> Normal(table[t].rows[id])] \in Contents
        BY <4>1, OfContents, MadeContents DEF Normal, Cells
      <4> QED  BY <1>0, <3>4, <4>2 DEF CopiesRows, TableStates
    <3>5. CASE BackfillEventScopeId(p)
      <4> DEFINE ev == table["events"].rows
                 cx == table["contexts"].rows
                 filled == [id \in DOMAIN ev |->
                              IF id \in DOMAIN cx THEN cx[id] ELSE NoRowScope]
      <4>1. ev \in Contents /\ cx \in Contents
        BY <1>0 DEF TableStates, Tables
      <4>2. filled \in Contents
        <5>1. DOMAIN ev \in SUBSET RowIds /\ cx \in [DOMAIN cx -> Cells]
          BY <4>1, OfContents
        <5>2. filled \in [DOMAIN ev -> Cells]
          BY <5>1 DEF Cells
        <5> QED  BY <5>1, <5>2, MadeContents
      <4>3. table' = table \/ table' = [table EXCEPT !["events"].rows = filled]
        BY <3>5 DEF BackfillEventScopeId
      <4> HIDE DEF filled
      <4> QED  BY <1>0, <4>2, <4>3 DEF TableStates, Tables
    <3> QED  BY <1>3, <3>1, <3>2, <3>4, <3>5 DEF MigrationProceeds
  <2> QED  BY <1>0, <2>2, <2>3, <2>4 DEF MigrationTypeOK, TableStates, StarterStates, Forms
<1>4. ASSUME NEW p \in Starters, NEW id \in RowIds, NEW cell \in RowScopes \cup {NoRowScope},
             WriteRows(p, id, cell)
      PROVE  MigrationTypeOK'
  <2>1. ASSUME NEW t \in Tables
        PROVE  [i \in DOMAIN table[t].rows \cup {id} |->
                  IF i = id THEN cell ELSE table[t].rows[i]] \in Contents
    <3>1. table[t].rows \in Contents
      BY <1>0 DEF TableStates
    <3> QED  BY <3>1, OfContents, MadeContents DEF Cells
  <2>2. table' \in [Tables -> TableStates]
    BY <1>0, <1>4, <2>1 DEF WriteRows, TableStates
  <2>3. existed' \subseteq RowIds /\ torn' \in BOOLEAN /\ UNCHANGED <<starter, starts>>
    BY <1>0, <1>4 DEF WriteRows
  <2>4. writes' \in 0..MaxWrites
    BY <1>0, <1>4, MigrationsAssumption DEF WriteRows
  <2> QED  BY <1>0, <2>2, <2>3, <2>4 DEF MigrationTypeOK, TableStates, StarterStates, Forms
<1>5. ASSUME NEW p \in Starters, NEW id \in RowIds, NEW cell \in RowScopes,
             AssignScope(p, id, cell)
      PROVE  MigrationTypeOK'
  <2>1. [table["contexts"].rows EXCEPT ![id] = cell] \in Contents
    <3>1. table["contexts"].rows \in Contents
      BY <1>0 DEF TableStates, Tables
    <3> QED  BY <3>1, OfContents, MadeContents DEF Cells
  <2>2. table' \in [Tables -> TableStates]
    BY <1>0, <1>5, <2>1 DEF AssignScope, TableStates, Tables
  <2>3. torn' \in BOOLEAN /\ UNCHANGED <<starter, existed, starts>>
    BY <1>0, <1>5 DEF AssignScope
  <2>4. writes' \in 0..MaxWrites
    BY <1>0, <1>5, MigrationsAssumption DEF AssignScope
  <2> QED  BY <1>0, <2>2, <2>3, <2>4 DEF MigrationTypeOK, TableStates, StarterStates, Forms
<1> QED  BY <1>1, <1>2, <1>3, <1>4, <1>5 DEF MigrationsNext

-----------------------------------------------------------------------------
(* The invariant                                                           *)

Rebuilder(p, t) == Is(p, "check", t) /\ starter[p].rebuilding # "no"

\* Only the check of a table rebuilds, and what a process has left behind it is done: no
\* statement makes a column go away or become required again.
SchemaMovesOn ==
    \A p \in Starters :
        /\ starter[p].rebuilding # "no" => \E t \in Tables : starter[p].at = CheckAt[t]
        /\ \A t \in Tables : /\ starter[p].at > AddAt[t] => table[t].form # "ancient"
                             /\ starter[p].at > CheckAt[t] => table[t].form # "required"

\* The reserved Scope is only met in a table whose Scope is still required.
NoReservedScope ==
    \A t \in Tables :
        /\ \A id \in DOMAIN table[t].copy : table[t].copy[id] # DefaultScope
        /\ table[t].form # "required" =>
              \A id \in DOMAIN table[t].rows : table[t].rows[id] # DefaultScope

\* A rebuild that nothing disturbs has its table to itself, all rows are in the table or in
\* the copy it makes, and a table that is absent though nobody rebuilds it was never created.
Alone(t) ==
    /\ table[t].next <=> InRebuild(t)
    /\ \A p, q \in Starters : Rebuilder(p, t) /\ Rebuilder(q, t) => p = q
    /\ \A p \in Starters : Rebuilder(p, t) =>
          /\ starter[p].rebuilding \in {"copy", "drop"} => DOMAIN table[t].rows = existed
          /\ starter[p].rebuilding \in {"drop", "rename"} => DOMAIN table[t].copy = existed
          /\ starter[p].rebuilding = "rename" => table[t].form = "absent"
    /\ ~InRebuild(t) => DOMAIN table[t].rows = existed
    /\ ~InRebuild(t) /\ table[t].form = "absent" =>
          existed = {} /\ \A p \in Starters : starter[p].at <= CreateAt[t]

RebuildIsAlone == \A t \in Tables : Alone(t)

MigrationInv ==
    /\ MigrationTypeOK /\ SchemaMovesOn /\ NoReservedScope
    /\ ~torn => RebuildIsAlone

LEMMA StartersAndTables ==
    ASSUME MigrationTypeOK
    PROVE  /\ table \in [Tables -> TableStates] /\ starter \in [Starters -> StarterStates]
           /\ \A p \in Starters : /\ starter[p].at \in 0..Serving /\ starter[p].at \in Int
                                  /\ starter[p].rebuilding \in {"no", "copy", "drop", "rename"}
           /\ torn \in BOOLEAN
BY ProgramOrder DEF MigrationTypeOK, TableStates, StarterStates, Forms

\* One statement at a time.
LEMMA OneStatement ==
    ASSUME NEW p, NEW do1, NEW t1, NEW do2, NEW t2, Is(p, do1, t1), Is(p, do2, t2)
    PROVE  do1 = do2 /\ t1 = t2
BY DEF Is

LEMMA FormsOnlyMoveOn ==
    ASSUME MigrationTypeOK, MigrationsNext, NEW t \in Tables
    PROVE  /\ table[t].form # "ancient" => table'[t].form # "ancient"
           /\ table[t].form \notin {"ancient", "required"} =>
                 table'[t].form \notin {"ancient", "required"}
<1>0. table \in [Tables -> TableStates]
  BY StartersAndTables
<1>1. ASSUME NEW p \in Starters, NEW u \in Tables,
             \/ CreateIfMissing(p, u) \/ AddColumnIfMissing(p, u) \/ Rebuilds(p, u)
             \/ CopiesRows(p, u) \/ DropsTable(p, u) \/ RenamesCopy(p, u)
      PROVE  /\ \A v \in Tables \ {u} : table'[v] = table[v]
             /\ table[u].form # "ancient" =>
                   table'[u].form \in {table[u].form, "absent", "present"}
             /\ table[u].form # "ancient" => table'[u].form # "ancient"
  <2>1. CASE CreateIfMissing(p, u) \/ AddColumnIfMissing(p, u)
    BY <1>0, <2>1 DEF CreateIfMissing, AddColumnIfMissing, TableStates
  <2>2. CASE Rebuilds(p, u) \/ CopiesRows(p, u)
    BY <1>0, <2>2 DEF Rebuilds, CopiesRows, TableStates
  <2>3. CASE DropsTable(p, u) \/ RenamesCopy(p, u)
    BY <1>0, <2>3 DEF DropsTable, RenamesCopy, TableStates
  <2> QED  BY <1>1, <2>1, <2>2, <2>3
<1>2. ASSUME NEW p \in Starters,
             \/ BackfillEventScopeId(p) \/ StartBus(p) \/ KillBus(p)
             \/ \E id \in RowIds : \/ \E cell \in RowScopes \cup {NoRowScope} :
                                          WriteRows(p, id, cell)
                                   \/ \E cell \in RowScopes : AssignScope(p, id, cell)
      PROVE  table'[t].form = table[t].form
  <2>1. CASE StartBus(p) \/ KillBus(p)
    BY <2>1 DEF StartBus, KillBus
  <2>2. CASE BackfillEventScopeId(p)
    BY <1>0, <2>2 DEF BackfillEventScopeId, TableStates, Tables
  <2>3. ASSUME NEW id, NEW cell, WriteRows(p, id, cell) \/ AssignScope(p, id, cell)
        PROVE  table'[t].form = table[t].form
    <3>1. CASE WriteRows(p, id, cell)
      BY <1>0, <3>1 DEF WriteRows, TableStates
    <3>2. CASE AssignScope(p, id, cell)
      BY <1>0, <3>2 DEF AssignScope, TableStates, Tables
    <3> QED  BY <2>3, <3>1, <3>2
  <2> QED  BY <1>2, <2>1, <2>2, <2>3
<1> QED  BY <1>1, <1>2 DEF MigrationsNext, MigrationProceeds

LeavesDone(p) ==
    \A t \in Tables : /\ Is(p, "add", t) => table'[t].form # "ancient"
                      /\ Is(p, "check", t) => table'[t].form # "required"

\* Where a process gets to, and what it leaves behind it.
LEMMA WhereTo ==
    ASSUME MigrationTypeOK, MigrationsNext, NEW p \in Starters
    PROVE  \/ starter'[p] = starter[p]
           \/ starter'[p].at \in {0, 1} /\ starter'[p].rebuilding = "no"
           \/ starter'[p].at = starter[p].at /\ \E t \in Tables : Is(p, "check", t)
           \/ /\ starter'[p] = [at |-> starter[p].at + 1, rebuilding |-> "no"]
              /\ LeavesDone(p)
<1>0. table \in [Tables -> TableStates] /\ starter \in [Starters -> StarterStates]
  BY StartersAndTables
<1>1. ASSUME NEW q \in Starters, StartBus(q) \/ KillBus(q)
      PROVE  starter'[p] = starter[p] \/ (starter'[p].at \in {0, 1} /\ starter'[p].rebuilding = "no")
  <2>1. CASE q # p
    <3>1. starter' = [starter EXCEPT ![q].at = 1] \/ starter' = [starter EXCEPT ![q] = Down]
      BY <1>1 DEF StartBus, KillBus, Fails
    <3>2. starter'[p] = starter[p]
      BY <1>0, <2>1, <3>1
    <3> QED  BY <3>2
  <2>2. CASE q = p /\ StartBus(q)
    <3>1. starter'[p] = [starter[p] EXCEPT !.at = 1] /\ starter[p] = Down
      BY <1>0, <2>2 DEF StartBus
    <3> QED  BY <3>1 DEF Down
  <2>3. CASE q = p /\ KillBus(q)
    <3>1. starter'[p] = Down
      BY <1>0, <2>3 DEF KillBus, Fails
    <3> QED  BY <3>1 DEF Down
  <2> QED  BY <1>1, <2>1, <2>2, <2>3
<1>2. ASSUME NEW q \in Starters, NEW id \in RowIds, NEW cell,
             WriteRows(q, id, cell) \/ AssignScope(q, id, cell)
      PROVE  starter'[p] = starter[p]
  BY <1>2 DEF WriteRows, AssignScope
<1>3. ASSUME NEW q \in Starters, q # p, MigrationProceeds(q)
      PROVE  starter'[p] = starter[p]
  BY <1>0, <1>3 DEF MigrationProceeds, CreateIfMissing, AddColumnIfMissing, Rebuilds, CopiesRows,
     DropsTable, RenamesCopy, BackfillEventScopeId, Steps, Fails
<1>4. Fails(p) => starter'[p].at \in {0, 1} /\ starter'[p].rebuilding = "no"
  BY <1>0 DEF Fails, Down
<1>5. Steps(p) => starter'[p] = [at |-> starter[p].at + 1, rebuilding |-> "no"]
  BY <1>0 DEF Steps
<1>6. ASSUME NEW u \in Tables, CreateIfMissing(p, u) PROVE Steps(p) /\ LeavesDone(p)
  BY <1>6, OneStatement DEF CreateIfMissing, LeavesDone
<1>7. ASSUME NEW u \in Tables, AddColumnIfMissing(p, u)
      PROVE  Fails(p) \/ (Steps(p) /\ LeavesDone(p))
  <2>1. \A t \in Tables : ~Is(p, "check", t) /\ (Is(p, "add", t) => t = u)
    BY <1>7, OneStatement DEF AddColumnIfMissing
  <2>2. table'[u].form # "ancient"
    BY <1>0, <1>7 DEF AddColumnIfMissing, TableStates
  <2>3. LeavesDone(p)
    BY <2>1, <2>2 DEF LeavesDone
  <2> QED  BY <1>7, <2>3 DEF AddColumnIfMissing
<1>8. ASSUME NEW u \in Tables,
             Rebuilds(p, u) \/ CopiesRows(p, u) \/ DropsTable(p, u) \/ RenamesCopy(p, u)
      PROVE  \/ Fails(p)
             \/ starter'[p].at = starter[p].at /\ Is(p, "check", u)
             \/ Steps(p) /\ LeavesDone(p)
  <2>1. Is(p, "check", u) /\ \A t \in Tables : ~Is(p, "add", t) /\ (Is(p, "check", t) => t = u)
    BY <1>8, OneStatement DEF Rebuilds, CopiesRows, DropsTable, RenamesCopy
  <2>2. table'[u].form # "required" => LeavesDone(p)
    BY <2>1 DEF LeavesDone
  <2>3. CASE Rebuilds(p, u) \/ RenamesCopy(p, u)
    <3>1. \/ Fails(p)
          \/ starter' = [starter EXCEPT ![p].rebuilding = "copy"]
          \/ Steps(p) /\ table'[u].form # "required"
      BY <1>0, <2>3 DEF Rebuilds, RenamesCopy
    <3>2. starter' = [starter EXCEPT ![p].rebuilding = "copy"] => starter'[p].at = starter[p].at
      BY <1>0 DEF StarterStates
    <3> QED  BY <2>1, <2>2, <3>1, <3>2
  <2>4. CASE CopiesRows(p, u) \/ DropsTable(p, u)
    <3>1. starter'[p].at = starter[p].at
      BY <1>0, <2>4 DEF CopiesRows, DropsTable, StarterStates
    <3> QED  BY <2>1, <3>1
  <2> QED  BY <1>8, <2>3, <2>4
<1>9. CASE BackfillEventScopeId(p)
  <2>1. LeavesDone(p)
    BY <1>9, OneStatement DEF BackfillEventScopeId, LeavesDone
  <2> QED  BY <1>4, <1>5, <1>9, <2>1 DEF BackfillEventScopeId
<1>10. CASE MigrationProceeds(p)
  <2>1. \/ Fails(p) \/ (Steps(p) /\ LeavesDone(p)) \/ BackfillEventScopeId(p)
        \/ \E u \in Tables : starter'[p].at = starter[p].at /\ Is(p, "check", u)
    BY <1>6, <1>7, <1>8, <1>10 DEF MigrationProceeds
  <2> QED  BY <1>4, <1>5, <1>9, <2>1
<1> QED  BY <1>1, <1>2, <1>3, <1>10 DEF MigrationsNext

LEMMA SchemaStep ==
    ASSUME MigrationTypeOK, SchemaMovesOn, MigrationsNext
    PROVE  SchemaMovesOn'
<1> SUFFICES ASSUME NEW p \in Starters
             PROVE  /\ starter'[p].rebuilding # "no" => \E t \in Tables : starter'[p].at = CheckAt[t]
                    /\ \A t \in Tables :
                          /\ starter'[p].at > AddAt[t] => table'[t].form # "ancient"
                          /\ starter'[p].at > CheckAt[t] => table'[t].form # "required"
  BY DEF SchemaMovesOn
<1>0. starter[p].at \in 0..Serving /\ starter[p].at \in Int
  BY StartersAndTables
<1>1. \A t \in Tables : AddAt[t] \in Int /\ CheckAt[t] = AddAt[t] + 1 /\ AddAt[t] > 1
  BY ProgramOrder
<1>2. \A t \in Tables : /\ starter[p].at > AddAt[t] => table[t].form # "ancient"
                        /\ starter[p].at > CheckAt[t] => table[t].form # "required"
  BY DEF SchemaMovesOn
<1>3. \A t \in Tables : /\ table[t].form # "ancient" => table'[t].form # "ancient"
                        /\ table[t].form \notin {"ancient", "required"} =>
                             table'[t].form \notin {"ancient", "required"}
  BY FormsOnlyMoveOn
<1>4. ASSUME NEW t \in Tables, starter'[p].at = starter[p].at
      PROVE  /\ starter'[p].at > AddAt[t] => table'[t].form # "ancient"
             /\ starter'[p].at > CheckAt[t] => table'[t].form # "required"
  <2>1. starter[p].at > CheckAt[t] => starter[p].at > AddAt[t]
    BY <1>0, <1>1
  <2> QED  BY <1>0, <1>1, <1>2, <1>3, <1>4, <2>1
<1>5. CASE starter'[p] = starter[p]
  BY <1>4, <1>5 DEF SchemaMovesOn
<1>6. CASE starter'[p].at \in {0, 1} /\ starter'[p].rebuilding = "no"
  BY <1>1, <1>6
<1>7. CASE starter'[p].at = starter[p].at /\ \E t \in Tables : Is(p, "check", t)
  <2>1. \E t \in Tables : starter'[p].at = CheckAt[t]
    BY <1>0, <1>7, StatementAt
  <2> QED  BY <1>4, <1>7, <2>1
<1>8. CASE starter'[p] = [at |-> starter[p].at + 1, rebuilding |-> "no"] /\ LeavesDone(p)
  <2>1. starter'[p].at = starter[p].at + 1 /\ starter'[p].rebuilding = "no"
    BY <1>8
  <2>2. ASSUME NEW t \in Tables
        PROVE  /\ starter'[p].at > AddAt[t] => table'[t].form # "ancient"
               /\ starter'[p].at > CheckAt[t] => table'[t].form # "required"
    <3>1. /\ starter[p].at = AddAt[t] => table'[t].form # "ancient"
          /\ starter[p].at = CheckAt[t] => table'[t].form # "required"
      BY <1>0, <1>8, StatementAt DEF LeavesDone
    <3>2. /\ starter'[p].at > AddAt[t] => starter[p].at = AddAt[t] \/ starter[p].at > AddAt[t]
          /\ starter'[p].at > CheckAt[t] => \/ starter[p].at = CheckAt[t]
                                            \/ (starter[p].at > CheckAt[t] /\ starter[p].at > AddAt[t])
      BY <1>0, <1>1, <2>1
    <3>3. /\ starter[p].at > AddAt[t] => table[t].form # "ancient"
          /\ starter[p].at > CheckAt[t] => table[t].form # "required"
      BY <1>2
    <3> QED  BY <1>3, <3>1, <3>2, <3>3
  <2> QED  BY <2>1, <2>2
<1> QED  BY <1>5, <1>6, <1>7, <1>8, WhereTo

\* Once its check lies behind a process, a table has no required Scope.
LEMMA PassedChecks ==
    ASSUME MigrationTypeOK, SchemaMovesOn, NEW p \in Starters, starter[p].at > 9,
           NEW t \in Tables
    PROVE  table[t].form \notin {"ancient", "required"}
<1>1. starter[p].at \in Int
  BY StartersAndTables
<1> QED  BY <1>1, ProgramOrder DEF SchemaMovesOn

LEMMA ReservedStep ==
    ASSUME MigrationTypeOK, SchemaMovesOn, NoReservedScope, MigrationsNext
    PROVE  NoReservedScope'
<1>0. table \in [Tables -> TableStates] /\ NoRowScope # DefaultScope
  BY StartersAndTables, MigrationsAssumption
<1> DEFINE Free(r) == \A id \in DOMAIN r : r[id] # DefaultScope
<1>1. \A t \in Tables : Free(table[t].copy) /\ (table[t].form # "required" => Free(table[t].rows))
  BY DEF NoReservedScope
<1> SUFFICES ASSUME NEW t \in Tables
             PROVE  Free(table'[t].copy) /\ (table'[t].form # "required" => Free(table'[t].rows))
  BY DEF NoReservedScope
<1>2. Free(NoRows)
  BY NoRowsContents
<1>3. ASSUME NEW p \in Starters, NEW u \in Tables,
             \/ CreateIfMissing(p, u) \/ AddColumnIfMissing(p, u) \/ Rebuilds(p, u)
             \/ CopiesRows(p, u) \/ DropsTable(p, u) \/ RenamesCopy(p, u)
      PROVE  Free(table'[t].copy) /\ (table'[t].form # "required" => Free(table'[t].rows))
  <2>1. CASE t # u
    <3>1. table'[t] = table[t]
      BY <1>0, <1>3, <2>1 DEF CreateIfMissing, AddColumnIfMissing, Rebuilds, CopiesRows, DropsTable,
         RenamesCopy
    <3> QED  BY <1>1, <3>1
  <2>2. CASE t = u /\ (CreateIfMissing(p, u) \/ AddColumnIfMissing(p, u) \/ Rebuilds(p, u))
    <3>1. /\ table'[t].rows = table[t].rows /\ table'[t].copy \in {table[t].copy, NoRows}
          /\ table[t].form = "required" => table'[t].form = "required"
      BY <1>0, <2>2 DEF CreateIfMissing, AddColumnIfMissing, Rebuilds, TableStates
    <3> HIDE DEF Free
    <3> QED  BY <1>1, <1>2, <3>1
  <2>3. CASE t = u /\ (DropsTable(p, u) \/ RenamesCopy(p, u))
    <3>1. \/ table'[t] = table[t]
          \/ table'[t].rows \in {NoRows, table[t].copy} /\ table'[t].copy \in {table[t].copy, NoRows}
      BY <1>0, <2>3 DEF DropsTable, RenamesCopy, TableStates
    <3> HIDE DEF Free
    <3> QED  BY <1>1, <1>2, <3>1
  <2>4. CASE t = u /\ CopiesRows(p, u)
    <3>1. /\ table'[t].rows = table[t].rows /\ table'[t].form = table[t].form
          /\ table'[t].copy = [id \in DOMAIN table[t].rows |-> Normal(table[t].rows[id])]
      BY <1>0, <2>4 DEF CopiesRows, TableStates
    <3>2. Free([id \in DOMAIN table[t].rows |-> Normal(table[t].rows[id])])
      BY <1>0 DEF Normal
    <3> HIDE DEF Free
    <3> QED  BY <1>1, <3>1, <3>2
  <2> QED  BY <1>3, <2>1, <2>2, <2>3, <2>4
<1>4. ASSUME NEW p \in Starters, StartBus(p) \/ KillBus(p)
      PROVE  Free(table'[t].copy) /\ (table'[t].form # "required" => Free(table'[t].rows))
  BY <1>1, <1>4 DEF StartBus, KillBus
<1>5. ASSUME NEW p \in Starters, BackfillEventScopeId(p)
      PROVE  Free(table'[t].copy) /\ (table'[t].form # "required" => Free(table'[t].rows))
  <2> DEFINE cx == table["contexts"].rows
             filled == [id \in DOMAIN table["events"].rows |->
                          IF id \in DOMAIN cx THEN cx[id] ELSE NoRowScope]
  <2>1. starter[p].at = 10
    BY <1>5, StatementAt, StartersAndTables DEF BackfillEventScopeId, Tables
  <2>2. Free(cx)
    BY <1>1, <2>1, PassedChecks DEF Tables
  <2>3. Free(filled)
    BY <1>0, <2>2
  <2>4. table' = table \/ table' = [table EXCEPT !["events"].rows = filled]
    BY <1>5 DEF BackfillEventScopeId
  <2> HIDE DEF filled
  <2>5. /\ table'[t].copy = table[t].copy /\ table'[t].form = table[t].form
        /\ table'[t].rows = table[t].rows \/ table'[t].rows = filled
    BY <1>0, <2>4 DEF TableStates, Tables
  <2> HIDE DEF Free
  <2> QED  BY <1>1, <2>3, <2>5
<1>6. ASSUME NEW p \in Starters, NEW id \in RowIds, NEW cell \in RowScopes \cup {NoRowScope},
             WriteRows(p, id, cell)
      PROVE  Free(table'[t].copy) /\ (table'[t].form # "required" => Free(table'[t].rows))
  <2>1. cell # DefaultScope
    BY MigrationsAssumption
  <2>2. /\ table'[t].copy = table[t].copy /\ table'[t].form = table[t].form
        /\ table'[t].rows = [i \in DOMAIN table[t].rows \cup {id} |->
                                IF i = id THEN cell ELSE table[t].rows[i]]
    BY <1>0, <1>6 DEF WriteRows, TableStates
  <2> QED  BY <1>1, <2>1, <2>2
<1>7. ASSUME NEW p \in Starters, NEW id \in RowIds, NEW cell \in RowScopes,
             AssignScope(p, id, cell)
      PROVE  Free(table'[t].copy) /\ (table'[t].form # "required" => Free(table'[t].rows))
  <2>1. cell # DefaultScope
    BY MigrationsAssumption
  <2>2. /\ table'[t].copy = table[t].copy /\ table'[t].form = table[t].form
        /\ \/ table'[t].rows = table[t].rows
           \/ table'[t].rows = [table[t].rows EXCEPT ![id] = cell]
    BY <1>0, <1>7 DEF AssignScope, TableStates, Tables
  <2>3. Free(table[t].rows) => Free([table[t].rows EXCEPT ![id] = cell])
    BY <2>1
  <2> HIDE DEF Free
  <2> QED  BY <1>1, <2>2, <2>3
<1> QED  BY <1>3, <1>4, <1>5, <1>6, <1>7 DEF MigrationsNext, MigrationProceeds

-----------------------------------------------------------------------------
(* Rebuilds that nothing disturbs                                          *)

\* A table that an action leaves as it is, as far as Alone goes.
LEMMA AloneKept ==
    ASSUME NEW t \in Tables, Alone(t),
           DOMAIN table'[t].rows = DOMAIN table[t].rows,
           DOMAIN table'[t].copy = DOMAIN table[t].copy,
           table'[t].next = table[t].next,
           table'[t].form = "absent" <=> table[t].form = "absent",
           existed' = existed,
           \A q \in Starters : Rebuilder(q, t)' <=> Rebuilder(q, t),
           \A q \in Starters :
              Rebuilder(q, t) => starter'[q].rebuilding = starter[q].rebuilding,
           (\A q \in Starters : starter[q].at <= CreateAt[t]) =>
              \A q \in Starters : starter'[q].at <= CreateAt[t]
    PROVE  Alone(t)'
<1>1. InRebuild(t)' <=> InRebuild(t)
  BY DEF InRebuild, Rebuilder
<1> QED  BY <1>1 DEF Alone

\* A process that does not rebuild a table before or after it moves.
LEMMA Bystander ==
    ASSUME MigrationTypeOK, NEW p \in Starters, NEW t \in Tables, NEW x,
           starter' = [starter EXCEPT ![p] = x], x.rebuilding = "no",
           starter[p].rebuilding = "no" \/ ~Is(p, "check", t),
           \/ x.at \in {0, 1}
           \/ x.at = starter[p].at + 1 /\ ~Is(p, "create", t)
    PROVE  /\ \A q \in Starters : Rebuilder(q, t)' <=> Rebuilder(q, t)
           /\ \A q \in Starters :
                 Rebuilder(q, t) => starter'[q].rebuilding = starter[q].rebuilding
           /\ (\A q \in Starters : starter[q].at <= CreateAt[t]) =>
                 \A q \in Starters : starter'[q].at <= CreateAt[t]
<1>0. /\ starter \in [Starters -> StarterStates]
      /\ \A q \in Starters : starter[q].at \in 0..Serving /\ starter[q].at \in Int
      /\ CreateAt[t] \in Int /\ CreateAt[t] >= 1
  BY StartersAndTables, ProgramOrder
<1>1. starter'[p] = x /\ \A q \in Starters \ {p} : starter'[q] = starter[q]
  BY <1>0
<1>2. ASSUME NEW q \in Starters PROVE Rebuilder(q, t)' <=> Rebuilder(q, t)
  BY <1>1 DEF Rebuilder, Is
<1>3. ASSUME NEW q \in Starters, Rebuilder(q, t)
      PROVE  starter'[q].rebuilding = starter[q].rebuilding
  BY <1>1, <1>3 DEF Rebuilder
<1>4. ASSUME \A q \in Starters : starter[q].at <= CreateAt[t], NEW q \in Starters
      PROVE  starter'[q].at <= CreateAt[t]
  <2>1. CASE q # p
    BY <1>1, <1>4, <2>1
  <2>2. CASE q = p /\ x.at \in {0, 1}
    BY <1>0, <1>1, <2>2
  <2>3. CASE q = p /\ x.at = starter[p].at + 1 /\ ~Is(p, "create", t)
    <3>1. starter[p].at # CreateAt[t]
      BY <1>0, <2>3, StatementAt
    <3> QED  BY <1>0, <1>1, <1>4, <2>3, <3>1
  <2> QED  BY <2>1, <2>2, <2>3
<1> QED  BY <1>2, <1>3, <1>4

\* Starts, ends, and statements that are no rebuild.
LEMMA PlainStatementsAlone ==
    ASSUME MigrationTypeOK, SchemaMovesOn, RebuildIsAlone, ~torn', NEW p \in Starters,
           \/ StartBus(p) \/ KillBus(p) \/ BackfillEventScopeId(p)
           \/ \E u \in Tables : CreateIfMissing(p, u) \/ AddColumnIfMissing(p, u)
    PROVE  RebuildIsAlone'
<1>0. /\ table \in [Tables -> TableStates] /\ starter \in [Starters -> StarterStates]
      /\ \A t \in Tables : CreateAt[t] \in Int
      /\ \A q \in Starters : starter[q].at \in 0..Serving /\ starter[q].at \in Int
  BY StartersAndTables, ProgramOrder
<1>1. /\ Down.at = 0 /\ Down.rebuilding = "no"
      /\ [starter[p] EXCEPT !.at = 1].at = 1
      /\ [starter[p] EXCEPT !.at = 1].rebuilding = starter[p].rebuilding
  BY <1>0 DEF Down, StarterStates
<1>2. SUFFICES ASSUME NEW t \in Tables PROVE Alone(t)'
  BY DEF RebuildIsAlone
<1>3. Alone(t)
  BY DEF RebuildIsAlone
<1>4. CASE StartBus(p) \/ KillBus(p)
  <2>1. PICK x \in {Down, [starter[p] EXCEPT !.at = 1]} :
          starter' = [starter EXCEPT ![p] = x] /\ x.rebuilding = "no" /\ x.at \in {0, 1}
    <3>1. CASE StartBus(p)
      <4>1. starter[p].rebuilding = "no"
        BY <1>1, <3>1 DEF StartBus
      <4>2. starter' = [starter EXCEPT ![p] = [starter[p] EXCEPT !.at = 1]]
        BY <1>0, <3>1 DEF StartBus
      <4> QED  BY <1>1, <4>1, <4>2
    <3>2. CASE KillBus(p)
      BY <1>1, <3>2 DEF KillBus, Fails
    <3> QED  BY <1>4, <3>1, <3>2
  <2>2. starter[p].rebuilding = "no" /\ UNCHANGED <<table, existed>>
    <3>1. CASE StartBus(p)
      BY <1>1, <3>1 DEF StartBus
    <3>2. CASE KillBus(p)
      BY <3>2 DEF KillBus
    <3> QED  BY <1>4, <3>1, <3>2
  <2> QED  BY <1>3, <2>1, <2>2, AloneKept, Bystander
<1>5. CASE BackfillEventScopeId(p)
  <2>1. PICK x \in {Down, [at |-> starter[p].at + 1, rebuilding |-> "no"]} :
          starter' = [starter EXCEPT ![p] = x]
    BY <1>0, <1>5 DEF BackfillEventScopeId, Steps, Fails
  <2>2. ~Is(p, "create", t) /\ ~Is(p, "check", t)
    BY <1>5, OneStatement DEF BackfillEventScopeId
  <2>3. x.rebuilding = "no" /\ (x.at \in {0, 1} \/ x.at = starter[p].at + 1)
    BY <1>1, <2>1
  <2>4. /\ DOMAIN table'[t].rows = DOMAIN table[t].rows
        /\ table'[t].copy = table[t].copy /\ table'[t].next = table[t].next
        /\ table'[t].form = table[t].form /\ existed' = existed
    BY <1>0, <1>5 DEF BackfillEventScopeId, TableStates, Tables
  <2> QED  BY <1>3, <2>1, <2>2, <2>3, <2>4, AloneKept, Bystander
<1>6. ASSUME NEW u \in Tables, AddColumnIfMissing(p, u) PROVE Alone(t)'
  <2>1. PICK x \in {Down, [at |-> starter[p].at + 1, rebuilding |-> "no"]} :
          starter' = [starter EXCEPT ![p] = x]
    BY <1>0, <1>6 DEF AddColumnIfMissing, Steps, Fails
  <2>2. ~Is(p, "create", t) /\ ~Is(p, "check", t)
    BY <1>6, OneStatement DEF AddColumnIfMissing
  <2>3. x.rebuilding = "no" /\ (x.at \in {0, 1} \/ x.at = starter[p].at + 1)
    BY <1>1, <2>1
  <2>4. /\ table'[t].rows = table[t].rows
        /\ table'[t].copy = table[t].copy /\ table'[t].next = table[t].next
        /\ table'[t].form = "absent" <=> table[t].form = "absent"
        /\ existed' = existed
    BY <1>0, <1>6 DEF AddColumnIfMissing, TableStates
  <2> QED  BY <1>3, <2>1, <2>2, <2>3, <2>4, AloneKept, Bystander
<1>7. ASSUME NEW u \in Tables, CreateIfMissing(p, u) PROVE Alone(t)'
  <2> DEFINE x == [at |-> starter[p].at + 1, rebuilding |-> "no"]
  <2>1. starter' = [starter EXCEPT ![p] = x]
    BY <1>0, <1>7 DEF CreateIfMissing, Steps
  <2>2. ~Is(p, "check", t) /\ (Is(p, "create", t) => t = u)
    BY <1>7, OneStatement DEF CreateIfMissing
  <2>3. /\ table'[t].rows = table[t].rows /\ table'[t].copy = table[t].copy
        /\ table'[t].next = table[t].next /\ existed' = existed
    BY <1>0, <1>7 DEF CreateIfMissing, TableStates
  <2>4. x.rebuilding = "no" /\ x.at = starter[p].at + 1
    OBVIOUS
  <2> HIDE DEF x
  <2>5. CASE t # u
    <3>1. table'[t].form = table[t].form
      BY <1>0, <1>7, <2>5 DEF CreateIfMissing
    <3> QED  BY <1>3, <2>1, <2>2, <2>3, <2>4, <2>5, <3>1, AloneKept, Bystander
  <2>6. CASE t = u
    <3>1. table'[t].form # "absent"
      BY <1>0, <1>7, <2>6 DEF CreateIfMissing, TableStates
    <3>2. table[t].form = "absent" => ~InRebuild(t)
      BY <1>7, <2>6 DEF CreateIfMissing
    <3>3. /\ starter'[p] = x /\ \A q \in Starters \ {p} : starter'[q] = starter[q]
      BY <1>0, <2>1
    <3>4. ASSUME NEW q \in Starters PROVE Rebuilder(q, t)' <=> Rebuilder(q, t)
      BY <2>2, <2>4, <3>3 DEF Rebuilder, Is
    <3>5. ASSUME NEW q \in Starters, Rebuilder(q, t)
          PROVE  starter'[q] = starter[q]
      BY <2>2, <3>3, <3>5 DEF Rebuilder
    <3>6. InRebuild(t)' <=> InRebuild(t)
      BY <3>4 DEF InRebuild, Rebuilder
    <3>7. \A q \in Starters : Rebuilder(q, t) => InRebuild(t)
      BY DEF InRebuild, Rebuilder
    <3> QED  BY <1>3, <2>3, <3>1, <3>2, <3>4, <3>5, <3>6, <3>7 DEF Alone
  <2> QED  BY <2>5, <2>6
<1> QED  BY <1>4, <1>5, <1>6, <1>7

\* The look at the schema, and the statements of a rebuild.
LEMMA RebuildAlone ==
    ASSUME MigrationTypeOK, SchemaMovesOn, RebuildIsAlone, ~torn', NEW p \in Starters,
           NEW u \in Tables,
           Rebuilds(p, u) \/ CopiesRows(p, u) \/ DropsTable(p, u) \/ RenamesCopy(p, u)
    PROVE  RebuildIsAlone'
<1>0. /\ table \in [Tables -> TableStates] /\ starter \in [Starters -> StarterStates]
      /\ \A t \in Tables : CreateAt[t] \in Int /\ CreateAt[t] < CheckAt[t]
      /\ \A q \in Starters : starter[q].at \in 0..Serving /\ starter[q].at \in Int
  BY StartersAndTables, ProgramOrder
<1>1. /\ Down.at = 0 /\ Down.rebuilding = "no"
      /\ existed' = existed /\ Is(p, "check", u)
      /\ \A t \in Tables \ {u} : ~Is(p, "check", t)
      /\ \A t \in Tables : ~Is(p, "create", t)
  <2>1. existed' = existed /\ Is(p, "check", u)
    BY DEF Rebuilds, CopiesRows, DropsTable, RenamesCopy
  <2> QED  BY <2>1, OneStatement DEF Down
<1>2. SUFFICES ASSUME NEW t \in Tables PROVE Alone(t)'
  BY DEF RebuildIsAlone
<1>3. Alone(t) /\ Alone(u)
  BY DEF RebuildIsAlone
<1>4. \A q \in Starters : Rebuilder(q, t) => InRebuild(t)
  BY DEF InRebuild, Rebuilder
\* It leaves the check, without or with its rebuild done.
<1>5. ASSUME NEW x, starter' = [starter EXCEPT ![p] = x], x.rebuilding = "no",
             x.at \in {0, 1} \/ x.at = starter[p].at + 1,
             t # u \/ starter[p].rebuilding = "no", table'[t] = table[t]
      PROVE  Alone(t)'
  BY <1>1, <1>3, <1>5, AloneKept, Bystander
\* It goes on with its rebuild.
<1>6. ASSUME NEW stage \in {"copy", "drop", "rename"},
             starter' = [starter EXCEPT ![p].rebuilding = stage]
      PROVE  /\ starter'[p] = [at |-> starter[p].at, rebuilding |-> stage]
             /\ \A q \in Starters \ {p} : starter'[q] = starter[q]
             /\ \A q \in Starters \ {p} : Rebuilder(q, t)' <=> Rebuilder(q, t)
             /\ Rebuilder(p, u)' /\ InRebuild(u)'
             /\ t # u => ~Rebuilder(p, t) /\ ~Rebuilder(p, t)'
  <2>1. /\ starter'[p] = [at |-> starter[p].at, rebuilding |-> stage]
        /\ \A q \in Starters \ {p} : starter'[q] = starter[q]
    BY <1>0, <1>6 DEF StarterStates
  <2>2. \A q \in Starters \ {p} : Rebuilder(q, t)' <=> Rebuilder(q, t)
    BY <2>1 DEF Rebuilder, Is
  <2>3. Rebuilder(p, u)' /\ (t # u => ~Rebuilder(p, t) /\ ~Rebuilder(p, t)')
    BY <1>1, <2>1 DEF Rebuilder, Is
  <2>4. InRebuild(u)'
    BY <2>3 DEF InRebuild, Rebuilder
  <2> QED  BY <2>1, <2>2, <2>3, <2>4
<1>7. ASSUME NEW stage \in {"copy", "drop", "rename"},
             starter' = [starter EXCEPT ![p].rebuilding = stage], t # u, table'[t] = table[t]
      PROVE  Alone(t)'
  <2>1. \A q \in Starters : Rebuilder(q, t)' <=> Rebuilder(q, t)
    BY <1>6, <1>7
  <2>2. ASSUME NEW q \in Starters
        PROVE  /\ Rebuilder(q, t) => starter'[q].rebuilding = starter[q].rebuilding
               /\ starter'[q].at = starter[q].at
    <3>1. CASE q = p
      <4>1. starter'[p] = [at |-> starter[p].at, rebuilding |-> stage] /\ ~Rebuilder(p, t)
        BY <1>6, <1>7
      <4> QED  BY <3>1, <4>1
    <3>2. CASE q # p
      BY <1>6, <1>7, <3>2
    <3> QED  BY <3>1, <3>2
  <2> QED  BY <1>1, <1>3, <1>7, <2>1, <2>2, AloneKept
<1>8. CASE Rebuilds(p, u)
  <2>1. starter[p].rebuilding = "no"
    BY <1>8 DEF Rebuilds
  <2>2. CASE table[u].form # "required" \/ table[u].next
    <3>1. PICK x \in {Down, [at |-> starter[p].at + 1, rebuilding |-> "no"]} :
            starter' = [starter EXCEPT ![p] = x] /\ table' = table
      BY <1>0, <1>8, <2>2 DEF Rebuilds, Steps, Fails
    <3>2. x.rebuilding = "no" /\ (x.at \in {0, 1} \/ x.at = starter[p].at + 1)
      BY <1>1, <3>1
    <3> QED  BY <1>5, <2>1, <3>1, <3>2
  <2>3. CASE table[u].form = "required" /\ ~table[u].next
    <3>1. /\ starter' = [starter EXCEPT ![p].rebuilding = "copy"]
          /\ table' = [table EXCEPT ![u].next = TRUE, ![u].copy = NoRows]
      BY <1>8, <2>3 DEF Rebuilds
    <3>2. CASE t # u
      <4>1. table'[t] = table[t]
        BY <1>0, <3>1, <3>2
      <4> QED  BY <1>7, <3>1, <3>2, <4>1
    <3>3. CASE t = u
      <4>1. /\ table'[t].next /\ table'[t].rows = table[t].rows
        BY <1>0, <3>1, <3>3 DEF TableStates
      <4>2. ~InRebuild(t) /\ DOMAIN table[t].rows = existed
        BY <1>3, <2>3, <3>3 DEF Alone
      <4>3. /\ \A q \in Starters \ {p} : ~Rebuilder(q, t)'
            /\ InRebuild(t)' /\ starter'[p].rebuilding = "copy"
        BY <1>4, <1>6, <3>1, <3>3, <4>2
      <4> QED  BY <1>1, <4>1, <4>2, <4>3 DEF Alone
    <3> QED  BY <3>2, <3>3
  <2> QED  BY <2>2, <2>3
<1>9. ASSUME starter[p].rebuilding \in {"copy", "drop", "rename"}, t = u
      PROVE  /\ Rebuilder(p, t) /\ InRebuild(t) /\ table[t].next
             /\ \A q \in Starters \ {p} : ~Rebuilder(q, t)
  <2>1. Rebuilder(p, t)
    BY <1>1, <1>9 DEF Rebuilder
  <2> QED  BY <1>3, <1>4, <2>1 DEF Alone
<1>10. CASE CopiesRows(p, u)
  <2>1. /\ starter' = [starter EXCEPT ![p].rebuilding = "drop"]
        /\ starter[p].rebuilding = "copy"
        /\ table' = [table EXCEPT ![u].copy =
                        [id \in DOMAIN table[u].rows |-> Normal(table[u].rows[id])]]
    BY <1>10 DEF CopiesRows
  <2>2. CASE t # u
    <3>1. table'[t] = table[t]
      BY <1>0, <2>1, <2>2
    <3> QED  BY <1>7, <2>1, <2>2, <3>1
  <2>3. CASE t = u
    <3>1. /\ table'[t].next = table[t].next /\ table'[t].rows = table[t].rows
          /\ DOMAIN table'[t].copy = DOMAIN table[t].rows
      BY <1>0, <2>1, <2>3 DEF TableStates
    <3>2. DOMAIN table[t].rows = existed
      BY <1>3, <1>9, <2>1, <2>3 DEF Alone
    <3>3. /\ \A q \in Starters \ {p} : ~Rebuilder(q, t)'
          /\ InRebuild(t)' /\ starter'[p].rebuilding = "drop"
      BY <1>6, <1>9, <2>1, <2>3
    <3>4. table'[t].next
      BY <1>9, <2>1, <2>3, <3>1
    <3> QED  BY <1>1, <3>1, <3>2, <3>3, <3>4 DEF Alone
  <2> QED  BY <2>2, <2>3
<1>11. CASE DropsTable(p, u)
  <2>1. /\ starter' = [starter EXCEPT ![p].rebuilding = "rename"]
        /\ starter[p].rebuilding = "drop"
        /\ table' = [table EXCEPT ![u].form = "absent", ![u].rows = NoRows]
    BY <1>11 DEF DropsTable
  <2>2. CASE t # u
    <3>1. table'[t] = table[t]
      BY <1>0, <2>1, <2>2
    <3> QED  BY <1>7, <2>1, <2>2, <3>1
  <2>3. CASE t = u
    <3>1. /\ table'[t].next = table[t].next /\ table'[t].copy = table[t].copy
          /\ table'[t].form = "absent"
      BY <1>0, <2>1, <2>3 DEF TableStates
    <3>2. DOMAIN table[t].copy = existed
      BY <1>3, <1>9, <2>1, <2>3 DEF Alone
    <3>3. /\ \A q \in Starters \ {p} : ~Rebuilder(q, t)'
          /\ InRebuild(t)' /\ starter'[p].rebuilding = "rename"
      BY <1>6, <1>9, <2>1, <2>3
    <3>4. table'[t].next
      BY <1>9, <2>1, <2>3, <3>1
    <3> QED  BY <1>1, <3>1, <3>2, <3>3, <3>4 DEF Alone
  <2> QED  BY <2>2, <2>3
<1>12. CASE RenamesCopy(p, u)
  <2>1. starter[p].rebuilding = "rename"
    BY <1>12 DEF RenamesCopy
  <2>2. table[u].form = "absent"
    BY <1>1, <1>3, <2>1 DEF Alone, Rebuilder
  <2> DEFINE x == [at |-> starter[p].at + 1, rebuilding |-> "no"]
  <2>3. /\ starter' = [starter EXCEPT ![p] = x]
        /\ table' = [table EXCEPT ![u] = [form |-> "present", rows |-> @.copy,
                                          next |-> FALSE, copy |-> NoRows]]
    BY <1>0, <1>12, <2>2 DEF RenamesCopy, Steps
  <2>4. x.rebuilding = "no" /\ x.at = starter[p].at + 1
    OBVIOUS
  <2> HIDE DEF x
  <2>5. CASE t # u
    <3>1. table'[t] = table[t]
      BY <1>0, <2>3, <2>5
    <3> QED  BY <1>5, <2>3, <2>4, <2>5, <3>1
  <2>6. CASE t = u
    <3>1. /\ table'[t].next = FALSE /\ table'[t].rows = table[t].copy
          /\ table'[t].form = "present"
      BY <1>0, <2>3, <2>6 DEF TableStates
    <3>2. DOMAIN table[t].copy = existed
      BY <1>3, <1>9, <2>1, <2>6 DEF Alone
    <3>3. /\ starter'[p] = x /\ \A q \in Starters \ {p} : starter'[q] = starter[q]
      BY <1>0, <2>3
    <3>4. ASSUME NEW q \in Starters PROVE ~Rebuilder(q, t)'
      BY <1>9, <2>1, <2>4, <2>6, <3>3 DEF Rebuilder, Is
    <3>5. ~InRebuild(t)'
      BY <3>4 DEF InRebuild, Rebuilder
    <3> QED  BY <1>1, <3>1, <3>2, <3>4, <3>5 DEF Alone
  <2> QED  BY <2>5, <2>6
<1> QED  BY <1>8, <1>10, <1>11, <1>12

\* What running processes write.
LEMMA WritesAlone ==
    ASSUME MigrationTypeOK, RebuildIsAlone, ~torn', NEW p \in Starters,
           NEW id \in RowIds, NEW cell, WriteRows(p, id, cell) \/ AssignScope(p, id, cell)
    PROVE  RebuildIsAlone'
<1>0. table \in [Tables -> TableStates]
  BY StartersAndTables
<1>1. SUFFICES ASSUME NEW t \in Tables PROVE Alone(t)'
  BY DEF RebuildIsAlone
<1>2. Alone(t)
  BY DEF RebuildIsAlone
<1>3. starter' = starter
  BY DEF WriteRows, AssignScope
<1>4. \A q \in Starters : Rebuilder(q, t)' <=> Rebuilder(q, t)
  BY <1>3 DEF Rebuilder, Is
<1>5. CASE AssignScope(p, id, cell)
  <2>1. /\ DOMAIN table'[t].rows = DOMAIN table[t].rows
        /\ table'[t].copy = table[t].copy /\ table'[t].next = table[t].next
        /\ table'[t].form = table[t].form /\ existed' = existed
    BY <1>0, <1>5 DEF AssignScope, TableStates, Tables
  <2> QED  BY <1>2, <1>3, <1>4, <2>1, AloneKept
<1>6. CASE WriteRows(p, id, cell)
  <2>1. ~InRebuild(t) /\ table[t].form # "absent" /\ existed' = existed \cup {id}
    BY <1>6 DEF WriteRows, Usable
  <2>2. /\ DOMAIN table'[t].rows = DOMAIN table[t].rows \cup {id}
        /\ table'[t].next = table[t].next /\ table'[t].form = table[t].form
    BY <1>0, <1>6 DEF WriteRows, TableStates
  <2>3. ASSUME NEW q \in Starters PROVE ~Rebuilder(q, t)'
    BY <1>4, <2>1 DEF InRebuild, Rebuilder
  <2>4. ~InRebuild(t)'
    BY <2>3 DEF InRebuild, Rebuilder
  <2> QED  BY <1>2, <2>1, <2>2, <2>3, <2>4 DEF Alone
<1> QED  BY <1>5, <1>6

-----------------------------------------------------------------------------
(* Theorems                                                                *)

LEMMA MigrationInvInit == MigrationsInit => MigrationInv
<1> SUFFICES ASSUME MigrationsInit PROVE MigrationInv
  OBVIOUS
<1>1. MigrationTypeOK
  BY MigrationTypesInit
<1>2. /\ \A p \in Starters : starter[p].at = 0 /\ starter[p].rebuilding = "no"
      /\ NoRowScope # DefaultScope /\ DefaultScope \notin RowScopes
      /\ DOMAIN NoRows = {}
  BY MigrationsAssumption, NoRowsContents DEF MigrationsInit, Down
<1>3. SchemaMovesOn
  BY <1>2, ProgramOrder DEF SchemaMovesOn
<1>4. PICK form \in Forms, rows \in Contents :
         /\ table = Vintage(form, rows)
         /\ form # "required" => \A id \in DOMAIN rows : rows[id] # DefaultScope
         /\ form = "absent" => rows = NoRows
  <2>0. ASSUME NEW cell \in Cells, NEW id \in RowIds
        PROVE  [i \in {id} |-> cell] \in Contents
    BY MadeContents
  <2>1. CASE table = Vintage("absent", NoRows)
    BY <1>2, <2>1, NoRowsContents DEF Forms
  <2>2. CASE \E cell \in RowScopes \cup {NoRowScope}, id \in RowIds :
               table = Vintage("present", [i \in {id} |-> cell])
    BY <1>2, <2>0, <2>2 DEF Forms, Cells
  <2>3. CASE \E cell \in RowScopes \cup {DefaultScope}, id \in RowIds :
               table = Vintage("required", [i \in {id} |-> cell])
    BY <2>0, <2>3 DEF Forms, Cells
  <2>4. CASE \E id \in RowIds : table = Vintage("ancient", [i \in {id} |-> NoRowScope])
    BY <1>2, <2>0, <2>4 DEF Forms, Cells
  <2> QED  BY <2>1, <2>2, <2>3, <2>4 DEF MigrationsInit
<1>5. \A t \in Tables : table[t] = [form |-> form, rows |-> rows, next |-> FALSE, copy |-> NoRows]
  BY <1>4 DEF Vintage
<1>6. NoReservedScope
  BY <1>2, <1>4, <1>5 DEF NoReservedScope
<1>7. RebuildIsAlone
  <2> SUFFICES ASSUME NEW t \in Tables PROVE Alone(t)
    BY DEF RebuildIsAlone
  <2>1. \A q \in Starters : ~Rebuilder(q, t)
    BY <1>2 DEF Rebuilder
  <2>2. ~InRebuild(t)
    BY <2>1 DEF InRebuild, Rebuilder
  <2>3. existed = DOMAIN rows
    BY <1>5 DEF MigrationsInit, Tables
  <2>4. \A q \in Starters : starter[q].at <= CreateAt[t]
    BY <1>2, ProgramOrder
  <2> QED  BY <1>2, <1>4, <1>5, <2>1, <2>2, <2>3, <2>4 DEF Alone
<1> QED  BY <1>1, <1>3, <1>6, <1>7 DEF MigrationInv

LEMMA MigrationInvStep ==
    ASSUME MigrationInv, [MigrationsNext]_migrationVars
    PROVE  MigrationInv'
<1>1. MigrationTypeOK'
  BY MigrationTypesStep DEF MigrationInv
<1>2. CASE UNCHANGED migrationVars
  <2>1. UNCHANGED <<table, starter, torn, existed>>
    BY <1>2 DEF migrationVars
  <2>2. SchemaMovesOn' /\ NoReservedScope'
    BY <2>1 DEF MigrationInv, SchemaMovesOn, NoReservedScope
  <2>3. ASSUME NEW t \in Tables, Alone(t) PROVE Alone(t)'
    <3>1. \A q \in Starters : Rebuilder(q, t)' <=> Rebuilder(q, t)
      BY <2>1 DEF Rebuilder, Is
    <3> QED  BY <2>1, <2>3, <3>1, AloneKept
  <2> QED  BY <1>1, <2>1, <2>2, <2>3 DEF MigrationInv, RebuildIsAlone
<1>3. CASE MigrationsNext
  <2>1. SchemaMovesOn' /\ NoReservedScope'
    BY <1>3, SchemaStep, ReservedStep DEF MigrationInv
  <2>2. torn => torn'
    BY <1>3 DEF MigrationsNext, MigrationProceeds, StartBus, KillBus, CreateIfMissing,
       AddColumnIfMissing, Rebuilds, CopiesRows, DropsTable, RenamesCopy, BackfillEventScopeId,
       WriteRows, AssignScope
  <2>3. ASSUME ~torn' PROVE RebuildIsAlone'
    <3>1. MigrationTypeOK /\ SchemaMovesOn /\ RebuildIsAlone
      BY <2>2, <2>3 DEF MigrationInv
    <3> QED  BY <1>3, <2>3, <3>1, PlainStatementsAlone, RebuildAlone, WritesAlone
             DEF MigrationsNext, MigrationProceeds
  <2> QED  BY <1>1, <2>1, <2>3 DEF MigrationInv
<1> QED  BY <1>2, <1>3

LEMMA InvMeansWhole == MigrationInv => ServedTablesAreWhole
<1> SUFFICES ASSUME MigrationInv PROVE MigrationLosesNothing /\ ServedSchemaIsPresent
  BY DEF ServedTablesAreWhole
<1>1. MigrationLosesNothing
  BY DEF MigrationInv, RebuildIsAlone, Alone, MigrationLosesNothing
<1>2. ASSUME NEW p \in Starters, Runs(p), NEW t \in Tables
      PROVE  /\ table[t].form \notin {"ancient", "required"}
             /\ \A id \in DOMAIN table[t].rows : table[t].rows[id] # DefaultScope
  <2>1. starter[p].at > 9
    BY <1>2, ProgramOrder DEF Runs
  <2>2. table[t].form \notin {"ancient", "required"}
    BY <2>1, PassedChecks DEF MigrationInv
  <2> QED  BY <2>2 DEF MigrationInv, NoReservedScope
<1> QED  BY <1>1, <1>2 DEF ServedSchemaIsPresent

LEMMA MigrationsKeepInv == MigrationsInit /\ [][MigrationsNext]_migrationVars => []MigrationInv
<1>1. MigrationInv /\ [MigrationsNext]_migrationVars => MigrationInv'
  BY MigrationInvStep
<1> QED  BY <1>1, MigrationInvInit, PTL

\* Whatever the database was when the first bus started, and however starts are cut short,
\* repeated and interleaved: a bus that runs finds every row in every table, unless a rebuild
\* was cut short or another process wrote to or created its table, and it never meets an old
\* schema or the reserved Scope.
THEOREM TablesAreWhole == MigrationsSpec => []ServedTablesAreWhole
BY InvMeansWhole, MigrationsKeepInv, PTL DEF MigrationsSpec

\* No statement fails for a process that is alone, unless a rebuild was disturbed before.
LEMMA AloneNothingFails ==
    ASSUME MigrationInv, ~torn, NEW p \in Starters,
           \A q \in Starters \ {p} : starter[q] = Down, MigrationProceeds(p)
    PROVE  starter'[p] # Down
<1>0. /\ table \in [Tables -> TableStates] /\ starter \in [Starters -> StarterStates]
      /\ starter[p].at \in 0..Serving /\ starter[p].at \in Int
      /\ \A t \in Tables : /\ CreateAt[t] \in 1..7 /\ AddAt[t] \in 3..8 /\ CheckAt[t] \in 4..9
                           /\ CreateAt[t] < AddAt[t]
  BY StartersAndTables, ProgramOrder DEF MigrationInv
<1>1. Down.at = 0 /\ Down.rebuilding = "no"
  BY DEF Down
<1>2. \A t \in Tables : Alone(t)
  BY DEF MigrationInv, RebuildIsAlone
<1>3. ASSUME NEW t \in Tables, starter[p].rebuilding = "no" \/ ~Is(p, "check", t)
      PROVE  ~InRebuild(t)
  BY <1>1, <1>3 DEF InRebuild
<1>4. ASSUME Steps(p) PROVE starter'[p] # Down
  <2>1. starter'[p].at = starter[p].at + 1
    BY <1>0, <1>4 DEF Steps
  <2> QED  BY <1>0, <1>1, <2>1
<1>5. ASSUME NEW u \in Tables, AddColumnIfMissing(p, u) PROVE Steps(p)
  <2>1. starter[p].at = AddAt[u] /\ ~Is(p, "check", u)
    BY <1>0, <1>5, StatementAt, OneStatement DEF AddColumnIfMissing
  <2>2. ~InRebuild(u)
    BY <1>3, <2>1
  <2>3. table[u].form # "absent"
    BY <1>0, <1>2, <2>1, <2>2 DEF Alone
  <2> QED  BY <1>5, <2>3 DEF AddColumnIfMissing
<1>6. CASE BackfillEventScopeId(p)
  <2>1. starter[p].at = 10 /\ \A u \in Tables : ~Is(p, "check", u)
    BY <1>0, <1>6, StatementAt, OneStatement DEF BackfillEventScopeId, Tables
  <2>2. \A u \in Tables : table[u].form # "absent"
    BY <1>0, <1>2, <1>3, <2>1 DEF Alone
  <2>3. Steps(p)
    BY <1>6, <2>2 DEF BackfillEventScopeId, Tables
  <2> QED  BY <1>4, <2>3
<1>7. ASSUME NEW u \in Tables, Rebuilds(p, u) PROVE starter'[p] # Down
  <2>1. starter[p].rebuilding = "no"
    BY <1>7 DEF Rebuilds
  <2>2. ~table[u].next
    BY <1>2, <1>3, <2>1 DEF Alone
  <2>3. Steps(p) \/ starter' = [starter EXCEPT ![p].rebuilding = "copy"]
    BY <1>7, <2>2 DEF Rebuilds
  <2>4. starter' = [starter EXCEPT ![p].rebuilding = "copy"] => starter'[p].rebuilding = "copy"
    BY <1>0 DEF StarterStates
  <2> QED  BY <1>1, <1>4, <2>3, <2>4
<1>8. ASSUME NEW u \in Tables, RenamesCopy(p, u) PROVE Steps(p)
  <2>1. Rebuilder(p, u) /\ starter[p].rebuilding = "rename"
    BY <1>8 DEF RenamesCopy, Rebuilder
  <2>2. table[u].form = "absent"
    BY <1>2, <2>1 DEF Alone
  <2> QED  BY <1>8, <2>2 DEF RenamesCopy
<1>9. ASSUME NEW u \in Tables, CopiesRows(p, u) \/ DropsTable(p, u) PROVE starter'[p] # Down
  <2>1. starter'[p].rebuilding \in {"drop", "rename"}
    BY <1>0, <1>9 DEF CopiesRows, DropsTable, StarterStates
  <2> QED  BY <1>1, <2>1
<1>10. ASSUME NEW u \in Tables, CreateIfMissing(p, u) PROVE Steps(p)
  BY <1>10 DEF CreateIfMissing
<1> QED  BY <1>4, <1>5, <1>6, <1>7, <1>8, <1>9, <1>10 DEF MigrationProceeds

\* A start that no other process and no earlier torn rebuild disturbs ends with a bus that
\* runs: none of its statements fails on what starts that were cut short left behind.
THEOREM StartsAreRepeatable == MigrationsSpec => StartEndsServing
<1>1. MigrationInv =>
        \A p \in Starters :
           (~torn /\ (\A q \in Starters \ {p} : starter[q] = Down) /\ MigrationProceeds(p))
              => starter'[p] # Down
  BY AloneNothingFails
<1> QED  BY <1>1, MigrationsKeepInv, PTL DEF MigrationsSpec, StartEndsServing

-----------------------------------------------------------------------------
(* The credential files: who holds what                                    *)

\* A turn of the bridge, or the bus for one provider, exchanges a refresh token.
Askers == ({"turn"} \X Turns) \cup ({"listing"} \X Providers)
AskOf(h) == IF h[1] = "turn" THEN exchange[h[2]] ELSE listing.ask[h[2]]

\* A value that a file or somebody's reading of it holds.
InFiles(c) ==
    \E p \in Providers : c \in {auth[p], memory[p], listing.data[p], signIn.data[p], prompt.data[p]}

\* Tokens are numbered as they are issued.
TokensAreIssued ==
    /\ \A c \in Credential : InFiles(c) => c <= issued
    /\ \A h \in Askers : AskOf(h).token <= issued
    /\ signIn.token <= issued
    /\ \A p \in Providers : \A c \in live[p] : c <= issued

\* A token that was granted and is not saved yet is accepted, and nobody else has it.
HeldInv ==
    /\ \A h \in Askers : AskOf(h).step = "granted" =>
          /\ AskOf(h).token \in live[AskOf(h).provider]
          /\ \A c \in Credential : InFiles(c) => AskOf(h).token # c
          /\ \A k \in Askers : k # h /\ AskOf(k).step # "idle" => AskOf(k).token # AskOf(h).token
    /\ signIn.step = "granted" =>
          /\ signIn.token \in live[signIn.provider]
          /\ \A c \in Credential : InFiles(c) => signIn.token # c
          /\ \A k \in Askers : AskOf(k).step # "idle" => AskOf(k).token # signIn.token

\* The listing is over when no provider is asked, and asks each for its own credential.
ListingInv ==
    /\ ~listing.open => \A p \in Providers : listing.ask[p].step = "idle"
    /\ \A p \in Providers : listing.ask[p].step # "idle" => listing.ask[p].provider = p

\* What a writer has read, and whether it will still write it.
CopyOf(w) == CASE w = "bridge" -> memory [] w = "bus" -> listing.data
               [] w = "desktop" -> signIn.data [] w = "terminal" -> prompt.data
Using(w) == CASE w = "bridge" -> TRUE [] w = "bus" -> listing.open
              [] w = "desktop" -> signIn.opened /\ signIn.step \in {"browser", "granted"}
              [] w = "terminal" -> prompt.open

\* What a writer has read is as it should be, but for what others changed since.
CopiesInv ==
    /\ \A w \in Writers : Using(w) =>
          \A p \in Providers \ (excused \cup since[w]) : CopyOf(w)[p] = wanted[p]
    /\ prompt.open => \A id \in ProfileIds \ (excused \cup since["terminal"]) :
                          id \in prompt.profiles <=> id \in wantedProfiles

CredentialsInv ==
    /\ CredentialTypeOK /\ TokensAreIssued /\ HeldInv /\ ListingInv
    /\ FilesAreKept /\ CopiesInv

-----------------------------------------------------------------------------
(* The credential files: the records                                       *)

LEMMA CredentialShapes ==
    /\ NoFile \in File /\ NoExchange \in Exchange
    /\ NoExchange.step = "idle" /\ NoExchange.token = 0
    /\ None \notin Tokens /\ Key \notin Tokens /\ None \in Credential /\ Key \in Credential
    /\ Tokens \subseteq Credential /\ \A c \in Credential : c \in Int
    /\ \A c \in Tokens : c \in Nat /\ c \in 0 .. MaxTokens
    /\ MaxTokens \in Nat /\ MaxAuthCalls \in Nat /\ MaxAuthCrashes \in Nat
BY CredentialAssumption DEF NoFile, File, NoExchange, Exchange, None, Key, Tokens, Credential

LEMMA RotatedIsTyped ==
    ASSUME NEW x \in Exchange, issued \in 0 .. MaxTokens, issued < MaxTokens
    PROVE  /\ Rotated(x) \in Exchange /\ Rotated(x).step = "granted"
           /\ Rotated(x).token = issued + 1 /\ Rotated(x).provider = x.provider
           /\ issued + 1 \in Tokens /\ issued + 1 \in 0 .. MaxTokens
<1>1. issued + 1 \in Tokens /\ issued + 1 \in 0 .. MaxTokens
  BY CredentialShapes DEF Tokens
<1> DEFINE n == issued + 1
<1>2. n \in 0 .. MaxTokens /\ Rotated(x) = [x EXCEPT !.step = "granted", !.token = n]
  BY <1>1 DEF Rotated
<1> HIDE DEF n
<1>3. /\ Rotated(x) \in Exchange /\ Rotated(x).step = "granted"
      /\ Rotated(x).token = n /\ Rotated(x).provider = x.provider
  BY <1>2 DEF Exchange
<1> QED  BY <1>1, <1>3 DEF n

LEMMA AskIsTyped ==
    ASSUME NEW p \in Providers, NEW c \in Tokens
    PROVE  /\ Ask(p, c) \in Exchange /\ Ask(p, c).step = "asked"
           /\ Ask(p, c).token = c /\ Ask(p, c).provider = p
BY CredentialShapes DEF Ask, Exchange, Tokens

LEMMA AskersAreTyped ==
    ASSUME CredentialTypeOK
    PROVE  /\ \A h \in Askers : AskOf(h) \in Exchange
           /\ listing.ask \in [Providers -> Exchange] /\ listing.data \in File
           /\ \A t \in Turns : <<"turn", t>> \in Askers /\ AskOf(<<"turn", t>>) = exchange[t]
           /\ \A p \in Providers : <<"listing", p>> \in Askers
                                   /\ AskOf(<<"listing", p>>) = listing.ask[p]
BY DEF CredentialTypeOK, ListingStates, Askers, AskOf

\* A rotation that waits to be saved, by its asker.
LEMMA UnsavedIsHeld ==
    ASSUME ListingInv, NEW p \in Providers
    PROVE  Unsaved(p) <=> \E h \in Askers : AskOf(h).step = "granted" /\ AskOf(h).provider = p
<1>1. ASSUME Unsaved(p)
      PROVE  \E h \in Askers : AskOf(h).step = "granted" /\ AskOf(h).provider = p
  <2>1. CASE \E t \in Turns : exchange[t].step = "granted" /\ exchange[t].provider = p
    <3>1. PICK t \in Turns : exchange[t].step = "granted" /\ exchange[t].provider = p
      BY <2>1
    <3>2. <<"turn", t>> \in Askers /\ AskOf(<<"turn", t>>) = exchange[t]
      BY DEF Askers, AskOf
    <3> QED  BY <3>1, <3>2
  <2>2. CASE listing.ask[p].step = "granted"
    <3>1. <<"listing", p>> \in Askers /\ AskOf(<<"listing", p>>) = listing.ask[p]
      BY DEF Askers, AskOf
    <3>2. listing.ask[p].provider = p
      BY <2>2 DEF ListingInv
    <3> QED  BY <2>2, <3>1, <3>2
  <2> QED  BY <1>1, <2>1, <2>2 DEF Unsaved
<1>2. ASSUME NEW h \in Askers, AskOf(h).step = "granted", AskOf(h).provider = p
      PROVE  Unsaved(p)
  BY <1>2 DEF Askers, AskOf, ListingInv, Unsaved
<1> QED  BY <1>1, <1>2

\* A step of one asker, seen from all of them.
LEMMA TurnMoves ==
    ASSUME CredentialTypeOK, NEW t \in Turns, NEW x, exchange' = [exchange EXCEPT ![t] = x],
           listing'.ask = listing.ask
    PROVE  \A k \in Askers : AskOf(k)' = IF k = <<"turn", t>> THEN x ELSE AskOf(k)
BY DEF CredentialTypeOK, Askers, AskOf

LEMMA ListingMoves ==
    ASSUME CredentialTypeOK, NEW p \in Providers, NEW x,
           listing'.ask = [listing.ask EXCEPT ![p] = x], exchange' = exchange
    PROVE  \A k \in Askers : AskOf(k)' = IF k = <<"listing", p>> THEN x ELSE AskOf(k)
BY DEF CredentialTypeOK, ListingStates, Askers, AskOf

-----------------------------------------------------------------------------
(* The credential files: tokens that are granted and not saved             *)

LEMMA HeldRotates ==
    ASSUME CredentialTypeOK, TokensAreIssued, HeldInv, NEW h \in Askers, Rotates(AskOf(h)),
           \A k \in Askers : AskOf(k)' = IF k = h THEN Rotated(AskOf(h)) ELSE AskOf(k),
           UNCHANGED <<auth, memory, signIn, prompt>>, listing'.data = listing.data
    PROVE  HeldInv' /\ TokensAreIssued'
<1> DEFINE n == issued + 1
           x == AskOf(h)
<1>1. x \in Exchange /\ x.provider \in Providers /\ \A k \in Askers : AskOf(k) \in Exchange
  BY AskersAreTyped DEF Exchange
<1>2. /\ x.step = "asked" /\ issued < MaxTokens /\ issued' = n
      /\ live' = [live EXCEPT ![x.provider] = (live[x.provider] \ {x.token}) \cup {n}]
  BY DEF Rotates
<1>3. issued \in 0 .. MaxTokens /\ live \in [Providers -> SUBSET Tokens] /\ issued \in Nat
  BY CredentialShapes DEF CredentialTypeOK
<1>4. Rotated(x).step = "granted" /\ Rotated(x).token = n /\ Rotated(x).provider = x.provider
      /\ n \in Tokens /\ n \in Credential
  BY <1>1, <1>2, <1>3, RotatedIsTyped, CredentialShapes
<1>5. \A c : InFiles(c)' <=> InFiles(c)
  BY DEF InFiles
<1>6. ~InFiles(n) /\ \A k \in Askers : AskOf(k).token # n
  <2>1. ~(n <= issued)
    BY <1>3
  <2> QED  BY <1>4, <2>1 DEF TokensAreIssued
<1>7. signIn.token # n
  BY <1>3 DEF TokensAreIssued
<1>8. /\ n \in live'[x.provider]
      /\ \A p \in Providers : \A c \in live[p] : c # x.token => c \in live'[p]
      /\ \A p \in Providers : \A c \in live'[p] : c = n \/ c \in live[p]
  BY <1>1, <1>2, <1>3
<1>9. TokensAreIssued'
  <2>1. \A c \in Credential : InFiles(c)' => c <= issued'
    BY <1>2, <1>3, <1>5, CredentialShapes DEF TokensAreIssued
  <2>2. \A k \in Askers : AskOf(k)'.token <= issued'
    <3> TAKE k \in Askers
    <3>1. AskOf(k).token \in Int /\ AskOf(k).token <= issued
      BY <1>1, CredentialShapes DEF Exchange, TokensAreIssued
    <3> QED  BY <1>2, <1>3, <1>4, <3>1
  <2>3. signIn'.token <= issued'
    <3>1. signIn.token \in Int /\ signIn.token <= issued
      BY CredentialShapes DEF CredentialTypeOK, SignInStates, TokensAreIssued
    <3> QED  BY <1>2, <1>3, <3>1
  <2>4. \A p \in Providers : \A c \in live'[p] : c <= issued'
    <3> TAKE p \in Providers
    <3> TAKE c \in live'[p]
    <3>1. c \in live[p] => c \in Int /\ c <= issued
      BY <1>3, CredentialShapes DEF TokensAreIssued
    <3> QED  BY <1>2, <1>3, <1>8, <3>1
  <2> QED  BY <2>1, <2>2, <2>3, <2>4 DEF TokensAreIssued
<1> HIDE DEF n, x
<1>10. ASSUME NEW k \in Askers, AskOf(k)'.step = "granted"
       PROVE  /\ AskOf(k)'.token \in live'[AskOf(k)'.provider]
              /\ \A c \in Credential : InFiles(c)' => AskOf(k)'.token # c
              /\ \A l \in Askers : l # k /\ AskOf(l)'.step # "idle" => AskOf(l)'.token # AskOf(k)'.token
  <2>1. CASE k = h
    BY <1>4, <1>5, <1>6, <1>8, <2>1 DEF x
  <2>2. CASE k # h
    <3>1. AskOf(k)' = AskOf(k) /\ AskOf(k).step = "granted" /\ AskOf(k).provider \in Providers
      BY <1>1, <1>10, <2>2 DEF Exchange
    <3>2. AskOf(k).token # x.token
      BY <1>2, <2>2, <3>1 DEF HeldInv, x
    <3>3. \A l \in Askers : l # k /\ AskOf(l)'.step # "idle" => AskOf(l)'.token # AskOf(k).token
      BY <1>4, <1>6, <3>1 DEF HeldInv, x
    <3>4. AskOf(k).token \in live'[AskOf(k).provider]
          /\ \A c \in Credential : InFiles(c)' => AskOf(k).token # c
      BY <1>5, <1>8, <3>1, <3>2 DEF HeldInv
    <3> QED  BY <3>1, <3>3, <3>4
  <2> QED  BY <2>1, <2>2
<1>11. ASSUME signIn.step = "granted"
       PROVE  /\ signIn.token \in live'[signIn.provider]
              /\ \A c \in Credential : InFiles(c)' => signIn.token # c
              /\ \A l \in Askers : AskOf(l)'.step # "idle" => AskOf(l)'.token # signIn.token
  <2>1. signIn.provider \in Providers
    BY DEF CredentialTypeOK, SignInStates
  <2>2. signIn.token # x.token
    BY <1>2, <1>11 DEF HeldInv, x
  <2>3. signIn.token \in live'[signIn.provider]
        /\ \A c \in Credential : InFiles(c)' => signIn.token # c
    BY <1>5, <1>8, <1>11, <2>1, <2>2 DEF HeldInv
  <2> QED  BY <1>4, <1>7, <1>11, <2>3 DEF HeldInv, x
<1>12. HeldInv'
  BY <1>10, <1>11 DEF HeldInv
<1> QED  BY <1>9, <1>12

LEMMA HeldKept ==
    ASSUME CredentialTypeOK, TokensAreIssued, HeldInv, UNCHANGED <<live, issued>>,
           \A h \in Askers :
               \/ AskOf(h)' = AskOf(h) \/ AskOf(h)' = NoExchange
               \/ \E c \in Credential : InFiles(c) /\ AskOf(h)'.step = "asked" /\ AskOf(h)'.token = c,
           signIn'.token = signIn.token,
           signIn'.step = "granted" => signIn.step = "granted" /\ signIn'.provider = signIn.provider,
           \A c \in Credential : InFiles(c)' =>
               \/ InFiles(c) \/ c \in {None, Key}
               \/ \E h \in Askers : /\ AskOf(h).step = "granted" /\ AskOf(h).token = c
                                    /\ AskOf(h)' = NoExchange
               \/ signIn.step = "granted" /\ signIn.token = c /\ signIn'.step # "granted"
    PROVE  HeldInv' /\ TokensAreIssued'
<1>1. live \in [Providers -> SUBSET Tokens] /\ issued \in Nat /\ \A k \in Askers : AskOf(k) \in Exchange
  BY AskersAreTyped, CredentialShapes DEF CredentialTypeOK
<1>2. \A h \in Askers : AskOf(h)'.step = "granted" => AskOf(h)' = AskOf(h)
  BY CredentialShapes
<1>3. \A h \in Askers : AskOf(h)'.step # "idle" =>
          AskOf(h)' = AskOf(h) \/ \E c \in Credential : InFiles(c) /\ AskOf(h)'.token = c
  BY CredentialShapes
<1>4. TokensAreIssued'
  <2>1. \A c \in Credential : InFiles(c)' => c <= issued
    BY <1>1 DEF TokensAreIssued, None, Key
  <2>2. \A h \in Askers : AskOf(h)'.token <= issued
    BY <1>1, CredentialShapes DEF TokensAreIssued
  <2> QED  BY <2>1, <2>2 DEF TokensAreIssued
<1>5. ASSUME NEW k \in Askers, AskOf(k)'.step = "granted"
      PROVE  /\ AskOf(k)'.token \in live'[AskOf(k)'.provider]
             /\ \A c \in Credential : InFiles(c)' => AskOf(k)'.token # c
             /\ \A l \in Askers : l # k /\ AskOf(l)'.step # "idle" => AskOf(l)'.token # AskOf(k)'.token
  <2>1. AskOf(k)' = AskOf(k) /\ AskOf(k).step = "granted"
    BY <1>2, <1>5
  <2>2. AskOf(k).token \in live[AskOf(k).provider]
        /\ \A c \in Credential : InFiles(c) => AskOf(k).token # c
    BY <2>1 DEF HeldInv
  <2>3. AskOf(k).token \in Tokens
    BY <1>1, <2>1, <2>2 DEF Exchange
  <2>4. \A c \in Credential : InFiles(c)' => AskOf(k).token # c
    <3> SUFFICES ASSUME NEW c \in Credential, InFiles(c)', AskOf(k).token = c PROVE FALSE
      OBVIOUS
    <3>1. ~InFiles(c) /\ c \notin {None, Key}
      BY <2>2, <2>3, CredentialShapes
    <3>2. \A h \in Askers : AskOf(h).step = "granted" /\ AskOf(h).token = c => h = k
      BY <2>1 DEF HeldInv
    <3>3. AskOf(k)' # NoExchange
      BY <1>5, CredentialShapes
    <3>4. signIn.step = "granted" => signIn.token # c
      BY <2>1 DEF HeldInv
    <3> QED  BY <3>1, <3>2, <3>3, <3>4
  <2>6. \A l \in Askers : l # k /\ AskOf(l)'.step # "idle" => AskOf(l)'.token # AskOf(k).token
    BY <1>3, <2>1, <2>2 DEF HeldInv
  <2> QED  BY <2>1, <2>2, <2>4, <2>6
<1>6. ASSUME signIn'.step = "granted"
      PROVE  /\ signIn'.token \in live'[signIn'.provider]
             /\ \A c \in Credential : InFiles(c)' => signIn'.token # c
             /\ \A l \in Askers : AskOf(l)'.step # "idle" => AskOf(l)'.token # signIn'.token
  <2>1. signIn.step = "granted" /\ signIn'.provider = signIn.provider
    BY <1>6
  <2>2. signIn.token \in live[signIn.provider]
        /\ \A c \in Credential : InFiles(c) => signIn.token # c
    BY <2>1 DEF HeldInv
  <2>3. signIn.token \in Tokens
    BY <1>1, <2>2 DEF CredentialTypeOK, SignInStates
  <2>4. \A c \in Credential : InFiles(c)' => signIn.token # c
    <3> SUFFICES ASSUME NEW c \in Credential, InFiles(c)', signIn.token = c PROVE FALSE
      OBVIOUS
    <3>1. ~InFiles(c) /\ c \notin {None, Key}
      BY <2>2, <2>3, CredentialShapes
    <3>2. \A h \in Askers : AskOf(h).step = "granted" => AskOf(h).token # c
      BY <2>1 DEF HeldInv
    <3> QED  BY <1>6, <3>1, <3>2
  <2>6. \A l \in Askers : AskOf(l)'.step # "idle" => AskOf(l)'.token # signIn.token
    BY <1>3, <2>1, <2>2 DEF HeldInv
  <2> QED  BY <2>1, <2>2, <2>4, <2>6
<1>7. HeldInv'
  BY <1>5, <1>6 DEF HeldInv
<1> QED  BY <1>4, <1>7

-----------------------------------------------------------------------------
(* The credential files: what is written                                   *)

KeptInv == FilesAreKept /\ CopiesInv

\* Nobody writes a file: a reading is as it was or was made now.
LEMMA QuietKeeps ==
    ASSUME CredentialTypeOK, KeptInv, UNCHANGED <<auth, profiles, wanted, wantedProfiles>>,
           excused \subseteq excused',
           \A p \in Providers \ excused' :
               auth[p] \in live[p] \/ Unsaved(p) => auth[p] \in live'[p] \/ Unsaved(p)',
           \A w \in Writers : Using(w)' =>
               \/ Using(w) /\ CopyOf(w)' = CopyOf(w) /\ since'[w] = since[w]
               \/ CopyOf(w)' = auth,
           prompt'.open =>
               \/ /\ prompt.open /\ prompt'.profiles = prompt.profiles
                  /\ since'["terminal"] = since["terminal"]
               \/ prompt'.profiles = profiles
    PROVE  KeptInv'
<1>1. FilesAreKept'
  BY DEF KeptInv, FilesAreKept
<1>2. \A p \in Providers \ excused' : auth[p] = wanted[p]
  BY DEF KeptInv, FilesAreKept
<1>3. \A id \in ProfileIds \ excused' : id \in profiles <=> id \in wantedProfiles
  BY DEF KeptInv, FilesAreKept
<1>4. ASSUME NEW w \in Writers, Using(w)', NEW p \in Providers \ (excused' \cup since'[w])
      PROVE  CopyOf(w)'[p] = wanted'[p]
  BY <1>2, <1>4 DEF KeptInv, CopiesInv
<1>5. ASSUME prompt'.open, NEW id \in ProfileIds \ (excused' \cup since'["terminal"])
      PROVE  id \in prompt'.profiles <=> id \in wantedProfiles'
  BY <1>3, <1>5 DEF KeptInv, CopiesInv
<1>6. CopiesInv'
  BY <1>4, <1>5 DEF CopiesInv
<1> QED  BY <1>1, <1>6 DEF KeptInv

\* What a change of the items leaves to be excused.
LEMMA AskedItems ==
    ASSUME CredentialTypeOK, NEW w, NEW items, Asked(w, items)
    PROVE  \A i : i \notin excused' => /\ i \in items \/ i \notin excused
                                       /\ w \in Writers => i \notin since[w]
BY DEF Asked

\* The other writers have not read the items.
LEMMA OthersSee ==
    ASSUME NEW w, NEW items, Asked(w, items), NEW u \in Writers, u # w
    PROVE  since'[u] = since[u] \cup items
BY DEF Asked

\* Writer w asks for the items, with the entry of p or no entry among them, and writes.
LEMMA WriteKeeps ==
    ASSUME CredentialTypeOK, KeptInv, NEW w, NEW items, Asked(w, items),
           live' = live,
           \A q \in Providers \ excused' :
               \/ /\ auth'[q] = wanted'[q]
                  /\ auth'[q] \in Tokens => auth'[q] \in live[q]
               \/ q \notin items /\ auth'[q] = wanted[q] /\ (Unsaved(q) => Unsaved(q)'),
           \A q \in Providers \ items : wanted'[q] = wanted[q],
           \A id \in ProfileIds \ excused' : id \in profiles' <=> id \in wantedProfiles',
           \A id \in ProfileIds \ items : id \in wantedProfiles' <=> id \in wantedProfiles,
           \A u \in Writers : Using(u)' =>
               \/ u # w /\ Using(u) /\ CopyOf(u)' = CopyOf(u)
               \/ u = w /\ CopyOf(u)' = auth',
           prompt'.open => prompt.open /\ prompt'.profiles = prompt.profiles /\ w # "terminal"
    PROVE  KeptInv'
<1>1. \A i : i \notin excused' => i \in items \/ i \notin excused
  BY AskedItems
<1>2. ASSUME NEW u \in Writers, u # w
      PROVE  since'[u] = since[u] \cup items
  BY <1>2, OthersSee
<1>3. ASSUME NEW q \in Providers \ excused'
      PROVE  auth'[q] = wanted'[q] /\ (auth'[q] \in Tokens => auth'[q] \in live'[q] \/ Unsaved(q)')
  BY <1>1, <1>3 DEF KeptInv, FilesAreKept
<1>4. FilesAreKept'
  BY <1>3 DEF FilesAreKept
<1>5. ASSUME NEW u \in Writers, Using(u)', NEW q \in Providers \ (excused' \cup since'[u])
      PROVE  CopyOf(u)'[q] = wanted'[q]
  <2>1. CASE u = w
    BY <1>3, <1>5, <2>1
  <2>2. CASE u # w
    <3>1. Using(u) /\ CopyOf(u)' = CopyOf(u)
      BY <1>5, <2>2
    <3>2. q \notin items /\ q \notin excused /\ q \notin since[u]
      BY <1>1, <1>2, <1>5, <2>2
    <3> QED  BY <3>1, <3>2 DEF KeptInv, CopiesInv
  <2> QED  BY <2>1, <2>2
<1>6. ASSUME prompt'.open, NEW id \in ProfileIds \ (excused' \cup since'["terminal"])
      PROVE  id \in prompt'.profiles <=> id \in wantedProfiles'
  <2>1. prompt.open /\ prompt'.profiles = prompt.profiles /\ since'["terminal"] = since["terminal"] \cup items
    BY <1>2, <1>6 DEF Writers
  <2>2. id \notin items /\ id \notin excused /\ id \notin since["terminal"]
    BY <1>1, <1>6, <2>1
  <2> QED  BY <2>1, <2>2 DEF KeptInv, CopiesInv
<1>7. CopiesInv'
  BY <1>5, <1>6 DEF CopiesInv
<1> QED  BY <1>4, <1>7 DEF KeptInv

\* A writer that writes the whole of what it read, with an entry of its own.
LEMMA CopyIsWritten ==
    ASSUME CredentialTypeOK, KeptInv, NEW w \in Writers, Using(w), NEW p \in Providers, NEW items,
           Asked(w, items), items \cap Providers = {p}, NEW v \in Credential,
           WriteEntry(w, CopyOf(w), p, v), CopyOf(w) \in File,
           v \in Tokens => v \in live[p],
           \A q \in Providers \ {p} : Unsaved(q) => Unsaved(q)'
    PROVE  /\ auth' \in File /\ wanted' \in File /\ auth' = [CopyOf(w) EXCEPT ![p] = v]
           /\ \A q \in Providers \ excused' :
                \/ /\ auth'[q] = wanted'[q]
                   /\ auth'[q] \in Tokens => auth'[q] \in live[q]
                \/ q \notin items /\ auth'[q] = wanted[q] /\ (Unsaved(q) => Unsaved(q)')
           /\ \A q \in Providers \ items : wanted'[q] = wanted[q]
<1>1. auth' = [CopyOf(w) EXCEPT ![p] = v] /\ wanted' = [wanted EXCEPT ![p] = v] /\ wanted \in File
  BY DEF WriteEntry, CredentialTypeOK
<1>2. auth' \in File /\ wanted' \in File /\ auth'[p] = v /\ wanted'[p] = v
  BY <1>1 DEF File
<1>3. \A q \in Providers : q # p => auth'[q] = CopyOf(w)[q] /\ wanted'[q] = wanted[q]
  BY <1>1 DEF File
<1>4. ASSUME NEW q \in Providers \ excused', q # p
      PROVE  q \notin items /\ auth'[q] = wanted[q] /\ (Unsaved(q) => Unsaved(q)')
  <2>1. q \notin items /\ q \notin excused /\ q \notin since[w]
    BY <1>4, AskedItems
  <2> QED  BY <1>3, <1>4, <2>1 DEF KeptInv, CopiesInv
<1> QED  BY <1>1, <1>2, <1>3, <1>4

\* A command writes over the file as it is.
LEMMA FileIsWritten ==
    ASSUME CredentialTypeOK, KeptInv, NEW p \in Providers, NEW items, Asked("command", items),
           items \cap Providers = {p}, NEW v \in {None, Key}, WriteEntry("command", auth, p, v),
           \A q \in Providers : Unsaved(q) => Unsaved(q)'
    PROVE  /\ auth' \in File /\ wanted' \in File
           /\ \A q \in Providers \ excused' :
                \/ /\ auth'[q] = wanted'[q]
                   /\ auth'[q] \in Tokens => auth'[q] \in live[q]
                \/ q \notin items /\ auth'[q] = wanted[q] /\ (Unsaved(q) => Unsaved(q)')
           /\ \A q \in Providers \ items : wanted'[q] = wanted[q]
           /\ auth' = [auth EXCEPT ![p] = v]
<1>1. auth' = [auth EXCEPT ![p] = v] /\ wanted' = [wanted EXCEPT ![p] = v] /\ wanted \in File
      /\ auth \in File /\ v \in Credential /\ v \notin Tokens
  BY CredentialShapes DEF WriteEntry, CredentialTypeOK
<1>2. auth' \in File /\ wanted' \in File /\ auth'[p] = v /\ wanted'[p] = v
  BY <1>1 DEF File
<1>3. \A q \in Providers : q # p => auth'[q] = auth[q] /\ wanted'[q] = wanted[q]
  BY <1>1 DEF File
<1>4. ASSUME NEW q \in Providers \ excused', q # p
      PROVE  q \notin items /\ auth'[q] = wanted[q] /\ (Unsaved(q) => Unsaved(q)')
  <2>1. q \notin items /\ q \notin excused
    BY <1>4, AskedItems
  <2> QED  BY <1>3, <1>4, <2>1 DEF KeptInv, FilesAreKept
<1> QED  BY <1>1, <1>2, <1>3, <1>4

\* No entry is written.
LEMMA EntriesStay ==
    ASSUME CredentialTypeOK, KeptInv, NEW items, Asked("command", items), items \cap Providers = {},
           UNCHANGED <<auth, wanted>>, \A q \in Providers : Unsaved(q) => Unsaved(q)'
    PROVE  /\ auth' \in File /\ wanted' \in File
           /\ \A q \in Providers \ excused' :
                q \notin items /\ auth'[q] = wanted[q] /\ (Unsaved(q) => Unsaved(q)')
           /\ \A q \in Providers \ items : wanted'[q] = wanted[q]
<1>1. auth' \in File /\ wanted' \in File
  BY DEF CredentialTypeOK
<1>2. ASSUME NEW q \in Providers \ excused'
      PROVE  q \notin items /\ auth'[q] = wanted[q]
  <2>1. q \notin items /\ q \notin excused
    BY <1>2, AskedItems
  <2> QED  BY <2>1 DEF KeptInv, FilesAreKept
<1> QED  BY <1>1, <1>2

\* Profiles are neither added nor removed.
LEMMA ProfilesStay ==
    ASSUME CredentialTypeOK, KeptInv, NEW w, NEW items, Asked(w, items), items \subseteq Providers,
           UNCHANGED <<profiles, wantedProfiles>>
    PROVE  /\ \A id \in ProfileIds \ excused' : id \in profiles' <=> id \in wantedProfiles'
           /\ \A id \in ProfileIds \ items : id \in wantedProfiles' <=> id \in wantedProfiles
<1>1. ASSUME NEW id \in ProfileIds \ excused'
      PROVE  id \in profiles <=> id \in wantedProfiles
  <2>1. id \notin items
    BY CredentialAssumption
  <2>2. id \notin excused
    BY <1>1, <2>1, AskedItems
  <2> QED  BY <2>2 DEF KeptInv, FilesAreKept
<1> QED  BY <1>1

\* One profile is added or removed by a command.
LEMMA ProfileMoves ==
    ASSUME CredentialTypeOK, KeptInv, NEW id \in ProfileIds, NEW items, Asked("command", items),
           items \cap ProfileIds = {id},
           \/ profiles' = profiles \cup {id} /\ wantedProfiles' = wantedProfiles \cup {id}
           \/ profiles' = profiles \ {id} /\ wantedProfiles' = wantedProfiles \ {id}
    PROVE  /\ \A i \in ProfileIds \ excused' : i \in profiles' <=> i \in wantedProfiles'
           /\ \A i \in ProfileIds \ items : i \in wantedProfiles' <=> i \in wantedProfiles
           /\ profiles' \in SUBSET ProfileIds /\ wantedProfiles' \in SUBSET ProfileIds
<1>1. ASSUME NEW i \in ProfileIds \ excused'
      PROVE  i \in profiles' <=> i \in wantedProfiles'
  <2>1. CASE i = id
    BY <2>1
  <2>2. CASE i # id
    <3>1. i \notin excused
      BY <1>1, <2>2, AskedItems
    <3> QED  BY <2>2, <3>1 DEF KeptInv, FilesAreKept
  <2> QED  BY <2>1, <2>2
<1>2. \A i \in ProfileIds \ items : i \in wantedProfiles' <=> i \in wantedProfiles
  OBVIOUS
<1>3. profiles' \in SUBSET ProfileIds /\ wantedProfiles' \in SUBSET ProfileIds
  BY DEF CredentialTypeOK
<1> QED  BY <1>1, <1>2, <1>3

\* The readings of the four writers.
LEMMA CopiesUsed ==
    /\ CopyOf("bridge") = memory /\ Using("bridge")
    /\ CopyOf("bus") = listing.data /\ (Using("bus") <=> listing.open)
    /\ CopyOf("desktop") = signIn.data
    /\ Using("desktop") <=> signIn.opened /\ signIn.step \in {"browser", "granted"}
    /\ CopyOf("terminal") = prompt.data /\ (Using("terminal") <=> prompt.open)
BY DEF CopyOf, Using

LEMMA CopiesUsedNext ==
    /\ CopyOf("bridge")' = memory' /\ Using("bridge")'
    /\ CopyOf("bus")' = listing'.data /\ (Using("bus")' <=> listing'.open)
    /\ CopyOf("desktop")' = signIn'.data
    /\ Using("desktop")' <=> signIn'.opened /\ signIn'.step \in {"browser", "granted"}
    /\ CopyOf("terminal")' = prompt'.data /\ (Using("terminal")' <=> prompt'.open)
BY DEF CopyOf, Using

\* The observers keep their types.
LEMMA ReadingIsNoted ==
    ASSUME CredentialTypeOK, NEW w \in Writers, Reads(w)
    PROVE  /\ since' \in [Writers -> SUBSET Items] /\ excused' \in SUBSET Items
           /\ wanted' \in File /\ wantedProfiles' \in SUBSET ProfileIds
           /\ \A u \in Writers : u # w => since'[u] = since[u]
BY DEF Reads, CredentialTypeOK

LEMMA ChangeIsNoted ==
    ASSUME CredentialTypeOK, NEW w, NEW items, items \subseteq Items, Asked(w, items)
    PROVE  since' \in [Writers -> SUBSET Items] /\ excused' \in SUBSET Items
BY DEF Asked, CredentialTypeOK

LEMMA CallsAreCounted ==
    ASSUME CredentialTypeOK, AuthCall \/ NoCall
    PROVE  authCalls' \in 0 .. MaxAuthCalls /\ authCrashes' \in 0 .. MaxAuthCrashes
BY CredentialShapes DEF AuthCall, NoCall, CredentialTypeOK

LEMMA CrashIsCounted ==
    ASSUME CredentialTypeOK, authCrashes < MaxAuthCrashes, authCrashes' = authCrashes + 1,
           authCalls' = authCalls
    PROVE  authCalls' \in 0 .. MaxAuthCalls /\ authCrashes' \in 0 .. MaxAuthCrashes
BY CredentialShapes DEF CredentialTypeOK

\* Tokens after the provider answered.
LEMMA RotationIsTyped ==
    ASSUME CredentialTypeOK, NEW x \in Exchange, Rotates(x)
    PROVE  /\ live' \in [Providers -> SUBSET Tokens] /\ issued' \in 0 .. MaxTokens
           /\ Rotated(x) \in Exchange /\ Rotated(x).step = "granted" /\ Rotated(x).provider = x.provider
           /\ \A p \in Providers : p # x.provider => live'[p] = live[p]
<1>1. issued \in 0 .. MaxTokens /\ issued < MaxTokens /\ live \in [Providers -> SUBSET Tokens]
      /\ x.provider \in Providers
  BY DEF CredentialTypeOK, Rotates, Exchange
<1>2. /\ Rotated(x) \in Exchange /\ Rotated(x).step = "granted" /\ Rotated(x).provider = x.provider
      /\ issued + 1 \in Tokens /\ issued + 1 \in 0 .. MaxTokens
  BY <1>1, RotatedIsTyped
<1> QED  BY <1>1, <1>2 DEF Rotates

-----------------------------------------------------------------------------
(* The credential files: the bridge                                        *)

LEMMA NewBridgeKeeps ==
    ASSUME CredentialsInv, NewBridge
    PROVE  CredentialsInv'
<1>1. CredentialTypeOK /\ TokensAreIssued /\ HeldInv /\ ListingInv /\ KeptInv
  BY DEF CredentialsInv, KeptInv
<1>2. \A h \in Askers : AskOf(h)' = IF h[1] = "turn" THEN NoExchange ELSE AskOf(h)
  BY DEF NewBridge, Askers, AskOf
<1>3. CredentialTypeOK'
  <2>1. exchange' \in [Turns -> Exchange] /\ memory' \in File /\ known' \in SUBSET ProfileIds
    BY <1>1, CredentialShapes DEF NewBridge, CredentialTypeOK
  <2>2. since' \in [Writers -> SUBSET Items]
    BY <1>1 DEF NewBridge, CredentialTypeOK
  <2>3. excused' \in SUBSET Items
    BY <1>1 DEF NewBridge, CredentialTypeOK, LostBy, Exchange, Items
  <2>4. authCalls' \in 0 .. MaxAuthCalls /\ authCrashes' \in 0 .. MaxAuthCrashes
    BY <1>1, CrashIsCounted DEF NewBridge
  <2> QED  BY <1>1, <2>1, <2>2, <2>3, <2>4 DEF NewBridge, CredentialTypeOK, storeVars
<1>4. HeldInv' /\ TokensAreIssued'
  <2>1. \A c \in Credential : InFiles(c)' => InFiles(c)
    BY DEF NewBridge, storeVars, InFiles
  <2> QED  BY <1>1, <1>2, <2>1, HeldKept DEF NewBridge, storeVars
<1>5. ListingInv'
  BY <1>1 DEF NewBridge, ListingInv
<1>6. KeptInv'
  <2>1. \A p \in Providers \ excused' : Unsaved(p) => Unsaved(p)'
    BY <1>1 DEF NewBridge, Unsaved, LostBy
  <2>2. excused \subseteq excused' /\ UNCHANGED <<auth, profiles, wanted, wantedProfiles, live>>
    BY DEF NewBridge, storeVars
  <2>3. \A w \in Writers : w # "bridge" => since'[w] = since[w]
    BY <1>1 DEF NewBridge, CredentialTypeOK
  <2>4. memory' = auth /\ UNCHANGED <<listing, signIn, prompt>>
    BY DEF NewBridge
  <2>5. \A w \in Writers : Using(w)' => \/ Using(w) /\ CopyOf(w)' = CopyOf(w) /\ since'[w] = since[w]
                                        \/ CopyOf(w)' = auth
    BY <2>3, <2>4, CopiesUsed, CopiesUsedNext DEF Writers
  <2> QED  BY <1>1, <2>1, <2>2, <2>3, <2>4, <2>5, QuietKeeps DEF Writers
<1> QED  BY <1>3, <1>4, <1>5, <1>6 DEF CredentialsInv, KeptInv

LEMMA ResolveKeeps ==
    ASSUME CredentialsInv, NEW t \in Turns, NEW id \in ProfileIds, Resolve(t, id)
    PROVE  CredentialsInv'
<1> DEFINE p == ProviderOf[id]
           x == Ask(p, auth[p])
<1>1. CredentialTypeOK /\ TokensAreIssued /\ HeldInv /\ ListingInv /\ KeptInv
  BY DEF CredentialsInv, KeptInv
<1>2. /\ p \in Providers /\ auth[p] \in Tokens /\ exchange' = [exchange EXCEPT ![t] = x]
      /\ exchange[t].step = "idle" /\ memory' = auth /\ Reads("bridge") /\ NoCall
      /\ UNCHANGED <<storeVars, known, listing, signIn, prompt>>
  BY CredentialAssumption DEF Resolve, Reload
<1>3. x \in Exchange /\ x.step = "asked" /\ x.token = auth[p]
  BY <1>2, AskIsTyped
<1>4. "bridge" \in Writers /\ UNCHANGED <<auth, profiles, live, issued, wanted, wantedProfiles, excused>>
  BY <1>2 DEF storeVars, Reads, Writers
<1> HIDE DEF x, p
<1>5. \A k \in Askers : AskOf(k)' = IF k = <<"turn", t>> THEN x ELSE AskOf(k)
  BY <1>1, <1>2, TurnMoves
<1>6. CredentialTypeOK'
  <2>1. exchange' \in [Turns -> Exchange] /\ memory' \in File
    BY <1>1, <1>2, <1>3 DEF CredentialTypeOK
  <2> QED  BY <1>1, <1>2, <1>4, <2>1, ReadingIsNoted, CallsAreCounted DEF CredentialTypeOK
<1>7. HeldInv' /\ TokensAreIssued'
  <2>1. InFiles(auth[p]) /\ auth[p] \in Credential
    BY <1>2, CredentialShapes DEF InFiles
  <2>2. \A c \in Credential : InFiles(c)' => InFiles(c)
    BY <1>2, <1>4 DEF InFiles
  <2> QED  BY <1>1, <1>2, <1>3, <1>4, <1>5, <2>1, <2>2, HeldKept
<1>8. ListingInv'
  BY <1>1, <1>2 DEF ListingInv
<1>9. KeptInv'
  <2>1. \A q \in Providers : Unsaved(q) => Unsaved(q)'
    BY <1>1, <1>2, <1>3 DEF Unsaved, CredentialTypeOK
  <2>2. \A w \in Writers : w # "bridge" => since'[w] = since[w]
    BY <1>1, <1>2, <1>4, ReadingIsNoted
  <2>3. \A w \in Writers : Using(w)' => \/ Using(w) /\ CopyOf(w)' = CopyOf(w) /\ since'[w] = since[w]
                                        \/ CopyOf(w)' = auth
    BY <1>2, <2>2, CopiesUsed, CopiesUsedNext DEF Writers
  <2> QED  BY <1>1, <1>2, <1>4, <2>1, <2>2, <2>3, QuietKeeps DEF Writers
<1> QED  BY <1>6, <1>7, <1>8, <1>9 DEF CredentialsInv, KeptInv

LEMMA TurnAnswerKeeps ==
    ASSUME CredentialsInv, NEW t \in Turns, ProviderAnswersTurn(t)
    PROVE  CredentialsInv'
<1>1. CredentialTypeOK /\ TokensAreIssued /\ HeldInv /\ ListingInv /\ KeptInv
  BY DEF CredentialsInv, KeptInv
<1>2. /\ UNCHANGED <<auth, profiles, memory, known, listing, signIn, prompt, wanted, wantedProfiles, since, excused>>
      /\ NoCall
  BY DEF ProviderAnswersTurn, observerVars
<1>3. exchange[t] \in Exchange /\ <<"turn", t>> \in Askers /\ AskOf(<<"turn", t>>) = exchange[t]
  BY <1>1, AskersAreTyped DEF CredentialTypeOK
<1>4. PICK x \in Exchange :
          /\ exchange' = [exchange EXCEPT ![t] = x] /\ exchange[t].step = "asked"
          /\ \/ Rotates(exchange[t]) /\ x = Rotated(exchange[t])
             \/ x = NoExchange /\ UNCHANGED <<live, issued>>
  BY <1>1, <1>3, RotationIsTyped, CredentialShapes DEF ProviderAnswersTurn, Rotates, Refuses
<1>5. \A k \in Askers : AskOf(k)' = IF k = <<"turn", t>> THEN x ELSE AskOf(k)
  BY <1>1, <1>2, <1>4, TurnMoves
<1>6. CredentialTypeOK'
  <2>1. exchange' \in [Turns -> Exchange]
    BY <1>1, <1>4 DEF CredentialTypeOK
  <2>2. live' \in [Providers -> SUBSET Tokens] /\ issued' \in 0 .. MaxTokens
    BY <1>1, <1>3, <1>4, RotationIsTyped DEF CredentialTypeOK
  <2> QED  BY <1>1, <1>2, <2>1, <2>2, CallsAreCounted DEF CredentialTypeOK
<1>7. HeldInv' /\ TokensAreIssued'
  <2>1. CASE Rotates(exchange[t]) /\ x = Rotated(exchange[t])
    BY <1>1, <1>2, <1>3, <1>5, <2>1, HeldRotates
  <2>2. CASE x = NoExchange /\ UNCHANGED <<live, issued>>
    <3>1. \A c \in Credential : InFiles(c)' => InFiles(c)
      BY <1>2 DEF InFiles
    <3> QED  BY <1>1, <1>2, <1>5, <2>2, <3>1, HeldKept
  <2> QED  BY <1>4, <2>1, <2>2
<1>8. ListingInv'
  BY <1>1, <1>2 DEF ListingInv
<1>9. KeptInv'
  <2>1. \A q \in Providers : Unsaved(q) => Unsaved(q)'
    BY <1>1, <1>2, <1>4 DEF Unsaved, CredentialTypeOK
  <2>2. \A q \in Providers : auth[q] \in live[q] => auth[q] \in live'[q] \/ Unsaved(q)'
    <3>1. CASE Rotates(exchange[t]) /\ x = Rotated(exchange[t])
      <4>1. exchange'[t].step = "granted" /\ exchange'[t].provider = exchange[t].provider
        BY <1>1, <1>3, <1>4, <3>1, RotationIsTyped DEF CredentialTypeOK
      <4>2. \A q \in Providers : q # exchange[t].provider => live'[q] = live[q]
        BY <1>1, <1>3, <3>1, RotationIsTyped
      <4> QED  BY <4>1, <4>2 DEF Unsaved
    <3>2. CASE x = NoExchange /\ UNCHANGED <<live, issued>>
      BY <3>2
    <3> QED  BY <1>4, <3>1, <3>2
  <2>3. \A w \in Writers : Using(w)' => Using(w) /\ CopyOf(w)' = CopyOf(w) /\ since'[w] = since[w]
    BY <1>2, CopiesUsed, CopiesUsedNext DEF Writers
  <2> QED  BY <1>1, <1>2, <2>1, <2>2, <2>3, QuietKeeps
<1> QED  BY <1>6, <1>7, <1>8, <1>9 DEF CredentialsInv, KeptInv

LEMMA SaveRefreshKeeps ==
    ASSUME CredentialsInv, NEW t \in Turns, SaveRefresh(t)
    PROVE  CredentialsInv'
<1> DEFINE p == exchange[t].provider
           v == exchange[t].token
<1>1. CredentialTypeOK /\ TokensAreIssued /\ HeldInv /\ ListingInv /\ KeptInv
  BY DEF CredentialsInv, KeptInv
<1>2. /\ exchange[t].step = "granted" /\ memory' = [memory EXCEPT ![p] = v]
      /\ WriteEntry("bridge", memory, p, v) /\ Asked("bridge", {p})
      /\ exchange' = [exchange EXCEPT ![t] = NoExchange] /\ NoCall
      /\ UNCHANGED <<profiles, live, issued, known, listing, signIn, prompt, wantedProfiles>>
  BY DEF SaveRefresh
<1>3. exchange[t] \in Exchange /\ <<"turn", t>> \in Askers /\ AskOf(<<"turn", t>>) = exchange[t]
  BY <1>1, AskersAreTyped DEF CredentialTypeOK
<1>4. p \in Providers /\ v \in live[p] /\ v \in Tokens /\ v \in Credential
  BY <1>1, <1>2, <1>3, CredentialShapes DEF HeldInv, CredentialTypeOK, Exchange
<1>5. \A k \in Askers : AskOf(k)' = IF k = <<"turn", t>> THEN NoExchange ELSE AskOf(k)
  BY <1>1, <1>2, TurnMoves
<1>6. "bridge" \in Writers /\ Using("bridge") /\ CopyOf("bridge") = memory /\ memory \in File
  BY <1>1, CopiesUsed DEF Writers, CredentialTypeOK
<1> HIDE DEF p, v
<1>7. \A q \in Providers \ {p} : Unsaved(q) => Unsaved(q)'
  BY <1>1, <1>2 DEF Unsaved, CredentialTypeOK, p
<1>8. /\ auth' \in File /\ wanted' \in File /\ auth' = [memory EXCEPT ![p] = v]
      /\ \A q \in Providers \ excused' :
           \/ /\ auth'[q] = wanted'[q]
              /\ auth'[q] \in Tokens => auth'[q] \in live[q]
           \/ q \notin {p} /\ auth'[q] = wanted[q] /\ (Unsaved(q) => Unsaved(q)')
      /\ \A q \in Providers \ {p} : wanted'[q] = wanted[q]
  BY <1>1, <1>2, <1>4, <1>6, <1>7, CopyIsWritten
<1>9. CredentialTypeOK'
  <2>1. exchange' \in [Turns -> Exchange] /\ memory' \in File
    BY <1>1, <1>2, <1>8, CredentialShapes DEF CredentialTypeOK
  <2>2. since' \in [Writers -> SUBSET Items] /\ excused' \in SUBSET Items
    BY <1>1, <1>2, <1>4, ChangeIsNoted DEF Items
  <2> QED  BY <1>1, <1>2, <1>8, <2>1, <2>2, CallsAreCounted DEF CredentialTypeOK
<1>10. HeldInv' /\ TokensAreIssued'
  <2>1. \A c \in Credential : InFiles(c)' => InFiles(c) \/ c = v
    BY <1>2, <1>6, <1>8 DEF InFiles, File
  <2>2. AskOf(<<"turn", t>>).step = "granted" /\ AskOf(<<"turn", t>>).token = v
        /\ AskOf(<<"turn", t>>)' = NoExchange
    BY <1>2, <1>3, <1>5 DEF v
  <2> QED  BY <1>1, <1>2, <1>3, <1>5, <2>1, <2>2, HeldKept
<1>11. ListingInv'
  BY <1>1, <1>2 DEF ListingInv
<1>12. KeptInv'
  <2>1. \A u \in Writers : Using(u)' => \/ u # "bridge" /\ Using(u) /\ CopyOf(u)' = CopyOf(u)
                                        \/ u = "bridge" /\ CopyOf(u)' = auth'
    BY <1>2, <1>8, CopiesUsed, CopiesUsedNext DEF Writers
  <2>2. /\ \A id \in ProfileIds \ excused' : id \in profiles' <=> id \in wantedProfiles'
        /\ \A id \in ProfileIds \ {p} : id \in wantedProfiles' <=> id \in wantedProfiles
    BY <1>1, <1>2, <1>4, ProfilesStay
  <2>3. live' = live /\ (prompt'.open => prompt.open /\ prompt'.profiles = prompt.profiles)
        /\ "bridge" # "terminal" /\ Asked("bridge", {p})
    BY <1>2
  <2>4. \A q \in Providers \ excused' :
           \/ /\ auth'[q] = wanted'[q]
              /\ auth'[q] \in Tokens => auth'[q] \in live[q]
           \/ q \notin {p} /\ auth'[q] = wanted[q] /\ (Unsaved(q) => Unsaved(q)')
    BY <1>8
  <2> QED  BY <1>1, <1>8, <2>1, <2>2, <2>3, <2>4, WriteKeeps
<1> QED  BY <1>9, <1>10, <1>11, <1>12 DEF CredentialsInv, KeptInv

-----------------------------------------------------------------------------
(* The credential files: the bus                                           *)

\* The listing with other data and other askers, open until they are answered.
LEMMA ListingFields ==
    ASSUME listing \in ListingStates, NEW a \in [Providers -> Exchange], NEW d \in File
    PROVE  LET l == UntilAnswered([listing EXCEPT !.data = d, !.ask = a]) IN
           /\ l.data = d /\ l.ask = a /\ l \in ListingStates
           /\ l.open <=> \E q \in Providers : a[q].step # "idle"
BY DEF ListingStates, UntilAnswered

\* What every step of the listing leaves true of the listing itself.
LEMMA ListingHolds ==
    ASSUME CredentialTypeOK, ListingInv, NEW p \in Providers, NEW x \in Exchange, listing' \in ListingStates,
           listing'.ask = [listing.ask EXCEPT ![p] = x], x.step # "idle" => x.provider = p,
           \/ listing'.open = listing.open /\ listing.ask[p].step # "idle"
           \/ listing'.open <=> \E q \in Providers : [listing.ask EXCEPT ![p] = x][q].step # "idle"
    PROVE  ListingInv'
<1>1. listing.ask \in [Providers -> Exchange]
  BY DEF CredentialTypeOK, ListingStates
<1>2. \A q \in Providers : listing'.ask[q] = IF q = p THEN x ELSE listing.ask[q]
  BY <1>1
<1>3. ~listing'.open => \A q \in Providers : listing'.ask[q].step = "idle"
  BY <1>2 DEF ListingInv
<1>4. \A q \in Providers : listing'.ask[q].step # "idle" => listing'.ask[q].provider = q
  BY <1>2 DEF ListingInv
<1> QED  BY <1>3, <1>4 DEF ListingInv

LEMMA ListModelsKeeps ==
    ASSUME CredentialsInv, NEW expired \in SUBSET Providers, ListModels(expired)
    PROVE  CredentialsInv'
<1> DEFINE ask == [p \in Providers |-> IF p \in expired THEN Ask(p, auth[p]) ELSE NoExchange]
<1>1. CredentialTypeOK /\ TokensAreIssued /\ HeldInv /\ ListingInv /\ KeptInv
  BY DEF CredentialsInv, KeptInv
<1>2. /\ ~listing.open /\ \A p \in expired : auth[p] \in Tokens
      /\ listing' = [open |-> TRUE, data |-> auth, ask |-> ask]
      /\ AuthCall /\ Reads("bus") /\ UNCHANGED <<storeVars, memory, known, exchange, signIn, prompt>>
  BY DEF ListModels
<1>3. /\ "bus" \in Writers /\ UNCHANGED <<auth, profiles, live, issued, wanted, wantedProfiles, excused>>
      /\ listing'.data = auth /\ listing'.open = TRUE /\ listing'.ask = ask
  BY <1>2 DEF storeVars, Reads, Writers
<1>4. \A p \in Providers : /\ ask[p] \in Exchange
                           /\ \/ ask[p] = NoExchange
                              \/ ask[p].step = "asked" /\ ask[p].token = auth[p] /\ ask[p].provider = p
  BY <1>2, AskIsTyped, CredentialShapes
<1>5. \A p \in Providers : listing.ask[p].step = "idle"
  BY <1>1, <1>2 DEF ListingInv
<1> HIDE DEF ask
<1>6. ask \in [Providers -> Exchange]
  <2>1. ask = [p \in Providers |-> ask[p]]
    BY DEF ask
  <2> QED  BY <1>4, <2>1
<1>7. CredentialTypeOK'
  <2>1. listing' \in ListingStates
    BY <1>1, <1>2, <1>6 DEF ListingStates, CredentialTypeOK
  <2> QED  BY <1>1, <1>2, <1>3, <2>1, ReadingIsNoted, CallsAreCounted DEF CredentialTypeOK
<1>8. HeldInv' /\ TokensAreIssued'
  <2>1. \A c \in Credential : InFiles(c)' => InFiles(c)
    BY <1>2, <1>3 DEF InFiles
  <2>2. \A p \in Providers : InFiles(auth[p]) /\ auth[p] \in Credential
    BY <1>1 DEF InFiles, CredentialTypeOK, File
  <2>3. ASSUME NEW h \in Askers
        PROVE  \/ AskOf(h)' = AskOf(h) \/ AskOf(h)' = NoExchange
               \/ \E c \in Credential : InFiles(c) /\ AskOf(h)'.step = "asked" /\ AskOf(h)'.token = c
    <3>1. CASE h[1] = "turn"
      BY <1>2, <3>1 DEF AskOf
    <3>2. CASE h[1] # "turn"
      <4>1. h[2] \in Providers /\ AskOf(h)' = ask[h[2]]
        BY <1>3, <3>2 DEF Askers, AskOf
      <4> QED  BY <1>4, <2>2, <4>1
    <3> QED  BY <3>1, <3>2
  <2> QED  BY <1>1, <1>2, <1>3, <2>1, <2>3, HeldKept
<1>9. ListingInv'
  BY <1>3, <1>4, CredentialShapes DEF ListingInv
<1>10. KeptInv'
  <2>1. \A q \in Providers : Unsaved(q) => Unsaved(q)'
    BY <1>2, <1>5 DEF Unsaved
  <2>2. \A w \in Writers : w # "bus" => since'[w] = since[w]
    BY <1>1, <1>2, <1>3, ReadingIsNoted
  <2>3. \A w \in Writers : Using(w)' => \/ Using(w) /\ CopyOf(w)' = CopyOf(w) /\ since'[w] = since[w]
                                        \/ CopyOf(w)' = auth
    BY <1>2, <1>3, <2>2, CopiesUsed, CopiesUsedNext DEF Writers
  <2> QED  BY <1>1, <1>2, <1>3, <2>1, <2>2, <2>3, QuietKeeps DEF Writers
<1> QED  BY <1>7, <1>8, <1>9, <1>10 DEF CredentialsInv, KeptInv

LEMMA ListingAnswerKeeps ==
    ASSUME CredentialsInv, NEW p \in Providers, ProviderAnswersListing(p)
    PROVE  CredentialsInv'
<1>1. CredentialTypeOK /\ TokensAreIssued /\ HeldInv /\ ListingInv /\ KeptInv
  BY DEF CredentialsInv, KeptInv
<1>2. /\ UNCHANGED <<auth, profiles, memory, known, exchange, signIn, prompt, wanted, wantedProfiles, since, excused>>
      /\ NoCall
  BY DEF ProviderAnswersListing, observerVars
<1>3. /\ listing.ask[p] \in Exchange /\ <<"listing", p>> \in Askers
      /\ AskOf(<<"listing", p>>) = listing.ask[p] /\ listing \in ListingStates
      /\ listing.ask \in [Providers -> Exchange] /\ listing.data \in File
  BY <1>1, AskersAreTyped DEF CredentialTypeOK
<1>4. listing.ask[p].step = "asked" /\ listing.ask[p].provider = p
  BY <1>1 DEF ProviderAnswersListing, Rotates, Refuses, ListingInv
<1>5. PICK x \in Exchange :
          /\ listing' \in ListingStates /\ listing'.data = listing.data
          /\ listing'.ask = [listing.ask EXCEPT ![p] = x] /\ (x.step # "idle" => x.provider = p)
          /\ \/ Rotates(listing.ask[p]) /\ x = Rotated(listing.ask[p]) /\ listing'.open = listing.open
             \/ /\ x = NoExchange /\ UNCHANGED <<live, issued>>
                /\ listing'.open <=> \E q \in Providers : [listing.ask EXCEPT ![p] = x][q].step # "idle"
  <2>1. CASE Rotates(listing.ask[p]) /\ listing' = [listing EXCEPT !.ask[p] = Rotated(listing.ask[p])]
    <3> DEFINE x == Rotated(listing.ask[p])
    <3>1. x \in Exchange /\ x.provider = p
      BY <1>1, <1>3, <1>4, <2>1, RotationIsTyped
    <3> HIDE DEF x
    <3>2. listing' = [listing EXCEPT !.ask[p] = x]
      BY <2>1 DEF x
    <3>3. /\ listing' \in ListingStates /\ listing'.data = listing.data /\ listing'.open = listing.open
          /\ listing'.ask = [listing.ask EXCEPT ![p] = x]
      BY <1>3, <3>1, <3>2 DEF ListingStates
    <3> QED  BY <2>1, <3>1, <3>3 DEF x
  <2>2. CASE /\ UNCHANGED <<live, issued>>
             /\ listing' = UntilAnswered([listing EXCEPT !.ask[p] = NoExchange])
    <3>1. [listing EXCEPT !.ask[p] = NoExchange]
              = [listing EXCEPT !.data = listing.data, !.ask = [listing.ask EXCEPT ![p] = NoExchange]]
      BY <1>3 DEF ListingStates
    <3> DEFINE a == [listing.ask EXCEPT ![p] = NoExchange]
    <3>2. NoExchange \in Exchange /\ NoExchange.step = "idle"
      BY CredentialShapes
    <3>3. a \in [Providers -> Exchange] /\ listing' = UntilAnswered([listing EXCEPT !.data = listing.data, !.ask = a])
      BY <1>3, <2>2, <3>1, <3>2
    <3> HIDE DEF a
    <3>4. /\ listing'.data = listing.data /\ listing'.ask = a /\ listing' \in ListingStates
          /\ listing'.open <=> \E q \in Providers : a[q].step # "idle"
      BY <1>3, <3>3, ListingFields
    <3> QED  BY <2>2, <3>2, <3>4 DEF a
  <2> QED  BY <2>1, <2>2 DEF ProviderAnswersListing
<1>6. \A k \in Askers : AskOf(k)' = IF k = <<"listing", p>> THEN x ELSE AskOf(k)
  BY <1>1, <1>2, <1>5, ListingMoves
<1>7. CredentialTypeOK'
  <2>1. live' \in [Providers -> SUBSET Tokens] /\ issued' \in 0 .. MaxTokens
    BY <1>1, <1>3, <1>5, RotationIsTyped DEF CredentialTypeOK
  <2> QED  BY <1>1, <1>2, <1>5, <2>1, CallsAreCounted DEF CredentialTypeOK
<1>8. HeldInv' /\ TokensAreIssued'
  <2>1. CASE Rotates(listing.ask[p]) /\ x = Rotated(listing.ask[p])
    BY <1>1, <1>2, <1>3, <1>5, <1>6, <2>1, HeldRotates
  <2>2. CASE x = NoExchange /\ UNCHANGED <<live, issued>>
    <3>1. \A c \in Credential : InFiles(c)' => InFiles(c)
      BY <1>2, <1>5 DEF InFiles
    <3> QED  BY <1>1, <1>2, <1>6, <2>2, <3>1, HeldKept
  <2> QED  BY <1>5, <2>1, <2>2
<1>9. ListingInv'
  BY <1>1, <1>4, <1>5, ListingHolds
<1>10. KeptInv'
  <2>1. \A q \in Providers : Unsaved(q) => Unsaved(q)'
    BY <1>2, <1>3, <1>4, <1>5 DEF Unsaved
  <2>2. \A q \in Providers : auth[q] \in live[q] => auth[q] \in live'[q] \/ Unsaved(q)'
    <3>1. CASE Rotates(listing.ask[p]) /\ x = Rotated(listing.ask[p])
      <4>1. listing'.ask[p].step = "granted"
        BY <1>1, <1>3, <1>5, <3>1, RotationIsTyped
      <4>2. \A q \in Providers : q # p => live'[q] = live[q]
        BY <1>1, <1>3, <1>4, <3>1, RotationIsTyped
      <4> QED  BY <4>1, <4>2 DEF Unsaved
    <3>2. CASE x = NoExchange /\ UNCHANGED <<live, issued>>
      BY <3>2
    <3> QED  BY <1>5, <3>1, <3>2
  <2>3. listing'.open => listing.open
    BY <1>1, <1>4 DEF ListingInv
  <2>4. \A w \in Writers : Using(w)' => Using(w) /\ CopyOf(w)' = CopyOf(w) /\ since'[w] = since[w]
    BY <1>2, <1>5, <2>3, CopiesUsed, CopiesUsedNext DEF Writers
  <2> QED  BY <1>1, <1>2, <2>1, <2>2, <2>4, QuietKeeps
<1> QED  BY <1>7, <1>8, <1>9, <1>10 DEF CredentialsInv, KeptInv

LEMMA SaveListedKeeps ==
    ASSUME CredentialsInv, NEW p \in Providers, SaveListed(p)
    PROVE  CredentialsInv'
<1> DEFINE v == listing.ask[p].token
           d == [listing.data EXCEPT ![p] = v]
<1>1. CredentialTypeOK /\ TokensAreIssued /\ HeldInv /\ ListingInv /\ KeptInv
  BY DEF CredentialsInv, KeptInv
<1>2. /\ listing.ask[p].step = "granted"
      /\ listing' = UntilAnswered([listing EXCEPT !.data[p] = v, !.ask[p] = NoExchange])
      /\ WriteEntry("bus", listing.data, p, v) /\ Asked("bus", {p}) /\ NoCall
      /\ UNCHANGED <<profiles, live, issued, memory, known, exchange, signIn, prompt, wantedProfiles>>
  BY DEF SaveListed
<1>3. /\ listing.ask[p] \in Exchange /\ <<"listing", p>> \in Askers
      /\ AskOf(<<"listing", p>>) = listing.ask[p] /\ listing \in ListingStates
      /\ listing.ask \in [Providers -> Exchange] /\ listing.data \in File
  BY <1>1, AskersAreTyped DEF CredentialTypeOK
<1>4. v \in live[p] /\ v \in Tokens /\ v \in Credential /\ listing.open
  BY <1>1, <1>2, <1>3, CredentialShapes DEF HeldInv, ListingInv, CredentialTypeOK
<1>5. d \in File
  BY <1>3, <1>4 DEF File
<1> HIDE DEF d, v
<1>6. /\ listing' \in ListingStates /\ listing'.data = d
      /\ listing'.ask = [listing.ask EXCEPT ![p] = NoExchange]
      /\ listing'.open <=> \E q \in Providers : [listing.ask EXCEPT ![p] = NoExchange][q].step # "idle"
  <2>1. [listing EXCEPT !.data[p] = v, !.ask[p] = NoExchange]
            = [listing EXCEPT !.data = d, !.ask = [listing.ask EXCEPT ![p] = NoExchange]]
    BY <1>3 DEF ListingStates, d
  <2> DEFINE a == [listing.ask EXCEPT ![p] = NoExchange]
  <2>2. a \in [Providers -> Exchange] /\ listing' = UntilAnswered([listing EXCEPT !.data = d, !.ask = a])
    BY <1>2, <1>3, <2>1, CredentialShapes
  <2> HIDE DEF a
  <2>3. /\ listing'.data = d /\ listing'.ask = a /\ listing' \in ListingStates
        /\ listing'.open <=> \E q \in Providers : a[q].step # "idle"
    BY <1>3, <1>5, <2>2, ListingFields
  <2> QED  BY <2>3 DEF a
<1>7. \A k \in Askers : AskOf(k)' = IF k = <<"listing", p>> THEN NoExchange ELSE AskOf(k)
  BY <1>1, <1>2, <1>6, ListingMoves
<1>8. \A q \in Providers \ {p} : Unsaved(q) => Unsaved(q)'
  BY <1>2, <1>3, <1>6 DEF Unsaved
<1>9. "bus" \in Writers /\ Using("bus") /\ CopyOf("bus") = listing.data
  BY <1>4, CopiesUsed DEF Writers
<1>10. /\ auth' \in File /\ wanted' \in File /\ auth' = d
       /\ \A q \in Providers \ excused' :
            \/ /\ auth'[q] = wanted'[q]
               /\ auth'[q] \in Tokens => auth'[q] \in live[q]
            \/ q \notin {p} /\ auth'[q] = wanted[q] /\ (Unsaved(q) => Unsaved(q)')
       /\ \A q \in Providers \ {p} : wanted'[q] = wanted[q]
  BY <1>1, <1>2, <1>3, <1>4, <1>8, <1>9, CopyIsWritten DEF d
<1>11. CredentialTypeOK'
  <2>1. since' \in [Writers -> SUBSET Items] /\ excused' \in SUBSET Items
    BY <1>1, <1>2, ChangeIsNoted DEF Items
  <2> QED  BY <1>1, <1>2, <1>6, <1>10, <2>1, CallsAreCounted DEF CredentialTypeOK
<1>12. HeldInv' /\ TokensAreIssued'
  <2>1. \A c \in Credential : InFiles(c)' => InFiles(c) \/ c = v
    BY <1>2, <1>3, <1>6, <1>10 DEF InFiles, File, d
  <2>2. AskOf(<<"listing", p>>).step = "granted" /\ AskOf(<<"listing", p>>).token = v
        /\ AskOf(<<"listing", p>>)' = NoExchange
    BY <1>2, <1>3, <1>7 DEF v
  <2> QED  BY <1>1, <1>2, <1>3, <1>7, <2>1, <2>2, HeldKept
<1>13. ListingInv'
  BY <1>1, <1>6, ListingHolds, CredentialShapes
<1>14. KeptInv'
  <2>1. \A u \in Writers : Using(u)' => \/ u # "bus" /\ Using(u) /\ CopyOf(u)' = CopyOf(u)
                                        \/ u = "bus" /\ CopyOf(u)' = auth'
    BY <1>2, <1>6, <1>10, CopiesUsed, CopiesUsedNext DEF Writers
  <2>2. /\ \A id \in ProfileIds \ excused' : id \in profiles' <=> id \in wantedProfiles'
        /\ \A id \in ProfileIds \ {p} : id \in wantedProfiles' <=> id \in wantedProfiles
    BY <1>1, <1>2, ProfilesStay
  <2> QED  BY <1>1, <1>2, <1>10, <2>1, <2>2, WriteKeeps
<1> QED  BY <1>11, <1>12, <1>13, <1>14 DEF CredentialsInv, KeptInv

LEMMA NewBusKeeps ==
    ASSUME CredentialsInv, NewBus
    PROVE  CredentialsInv'
<1>1. CredentialTypeOK /\ TokensAreIssued /\ HeldInv /\ ListingInv /\ KeptInv
  BY DEF CredentialsInv, KeptInv
<1>2. /\ UNCHANGED <<auth, profiles, live, issued, memory, known, exchange, signIn, prompt, wanted, wantedProfiles, since>>
      /\ excused' = excused \cup LostBy({listing.ask[p] : p \in Providers})
  BY DEF NewBus, storeVars
<1>3. /\ listing' \in ListingStates /\ listing'.data = listing.data /\ listing'.open = FALSE
      /\ \A p \in Providers : listing'.ask[p] = NoExchange
  BY <1>1, CredentialShapes DEF NewBus, CredentialTypeOK, ListingStates
<1>4. \A h \in Askers : AskOf(h)' = AskOf(h) \/ AskOf(h)' = NoExchange
  BY <1>2, <1>3 DEF Askers, AskOf
<1>5. \A p \in Providers : listing.ask[p] \in Exchange
  BY <1>1, AskersAreTyped
<1>6. CredentialTypeOK'
  <2>1. excused' \in SUBSET Items
    BY <1>1, <1>2, <1>5 DEF CredentialTypeOK, LostBy, Exchange, Items
  <2>2. authCalls' \in 0 .. MaxAuthCalls /\ authCrashes' \in 0 .. MaxAuthCrashes
    BY <1>1, CrashIsCounted DEF NewBus
  <2> QED  BY <1>1, <1>2, <1>3, <2>1, <2>2 DEF CredentialTypeOK
<1>7. HeldInv' /\ TokensAreIssued'
  <2>1. \A c \in Credential : InFiles(c)' => InFiles(c)
    BY <1>2, <1>3 DEF InFiles
  <2> QED  BY <1>1, <1>2, <1>4, <2>1, HeldKept
<1>8. ListingInv'
  BY <1>3, CredentialShapes DEF ListingInv
<1>9. KeptInv'
  <2>1. \A q \in Providers \ excused' : Unsaved(q) => Unsaved(q)'
    <3> SUFFICES ASSUME NEW q \in Providers, Unsaved(q), q \notin excused' PROVE Unsaved(q)'
      OBVIOUS
    <3>1. listing.ask[q].step # "granted"
      <4> SUFFICES ASSUME listing.ask[q].step = "granted" PROVE FALSE
        OBVIOUS
      <4>1. listing.ask[q].provider = q
        BY <1>1 DEF ListingInv
      <4>2. q \in LostBy({listing.ask[p] : p \in Providers})
        BY <4>1 DEF LostBy
      <4> QED  BY <1>2, <4>2
    <3> QED  BY <1>2, <3>1 DEF Unsaved
  <2>2. \A w \in Writers : Using(w)' => Using(w) /\ CopyOf(w)' = CopyOf(w) /\ since'[w] = since[w]
    BY <1>2, <1>3, CopiesUsed, CopiesUsedNext DEF Writers
  <2> QED  BY <1>1, <1>2, <2>1, <2>2, QuietKeeps
<1> QED  BY <1>6, <1>7, <1>8, <1>9 DEF CredentialsInv, KeptInv

-----------------------------------------------------------------------------
(* The credential files: the desktop                                       *)

\* Steps of the sign-in that ask nothing of a file and get no token.
LEMMA SignInMoves ==
    ASSUME CredentialsInv,
           UNCHANGED <<storeVars, memory, known, exchange, listing, prompt, wanted, wantedProfiles, excused>>,
           AuthCall \/ NoCall, signIn' \in SignInStates, since' \in [Writers -> SUBSET Items],
           signIn'.token = signIn.token,
           signIn'.step = "granted" => signIn.step = "granted" /\ signIn'.provider = signIn.provider,
           signIn'.data \in {signIn.data, auth},
           \A w \in Writers : w # "desktop" => since'[w] = since[w],
           Using("desktop")' => signIn'.data = auth
    PROVE  CredentialsInv'
<1>1. CredentialTypeOK /\ TokensAreIssued /\ HeldInv /\ ListingInv /\ KeptInv
  BY DEF CredentialsInv, KeptInv
<1>2. UNCHANGED <<auth, profiles, live, issued>>
  BY DEF storeVars
<1>3. CredentialTypeOK'
  BY <1>1, <1>2, CallsAreCounted DEF CredentialTypeOK
<1>4. HeldInv' /\ TokensAreIssued'
  <2>1. \A c \in Credential : InFiles(c)' => InFiles(c)
    BY <1>2 DEF InFiles
  <2>2. \A h \in Askers : AskOf(h)' = AskOf(h)
    BY DEF AskOf
  <2> QED  BY <1>1, <1>2, <2>1, <2>2, HeldKept
<1>5. ListingInv'
  BY <1>1 DEF ListingInv
<1>6. KeptInv'
  <2>1. \A q \in Providers : Unsaved(q) => Unsaved(q)'
    BY DEF Unsaved
  <2>2. \A w \in Writers : Using(w)' => \/ Using(w) /\ CopyOf(w)' = CopyOf(w) /\ since'[w] = since[w]
                                        \/ CopyOf(w)' = auth
    BY CopiesUsed, CopiesUsedNext DEF Writers
  <2> QED  BY <1>1, <1>2, <2>1, <2>2, QuietKeeps DEF Writers
<1> QED  BY <1>3, <1>4, <1>5, <1>6 DEF CredentialsInv, KeptInv

LEMMA ConnectKeeps ==
    ASSUME CredentialsInv, NEW p \in Providers, Connect(p)
    PROVE  CredentialsInv'
<1>1. signIn \in SignInStates /\ since \in [Writers -> SUBSET Items]
  BY DEF CredentialsInv, CredentialTypeOK
<1>2. /\ signIn' \in SignInStates /\ signIn'.token = signIn.token /\ signIn'.data = signIn.data
      /\ signIn'.step = "browser" /\ signIn'.opened = FALSE
  BY <1>1 DEF Connect, SignInStates
<1>3. ~Using("desktop")'
  BY <1>2, CopiesUsedNext
<1> QED  BY <1>1, <1>2, <1>3, SignInMoves DEF Connect, observerVars

LEMMA SignInLoadsKeeps ==
    ASSUME CredentialsInv, SignInLoads
    PROVE  CredentialsInv'
<1>1. signIn \in SignInStates /\ auth \in File /\ "desktop" \in Writers /\ CredentialTypeOK
  BY DEF CredentialsInv, CredentialTypeOK, Writers
<1>2. /\ signIn' \in SignInStates /\ signIn'.token = signIn.token /\ signIn'.data = auth
      /\ signIn'.step = signIn.step /\ signIn'.provider = signIn.provider
  BY <1>1 DEF SignInLoads, SignInStates
<1>3. /\ since' \in [Writers -> SUBSET Items] /\ \A w \in Writers : w # "desktop" => since'[w] = since[w]
      /\ UNCHANGED <<wanted, wantedProfiles, excused>>
  BY <1>1, ReadingIsNoted DEF SignInLoads, Reads
<1> QED  BY <1>1, <1>2, <1>3, SignInMoves DEF SignInLoads

LEMMA SignInFailsKeeps ==
    ASSUME CredentialsInv, SignInFails
    PROVE  CredentialsInv'
<1>1. signIn \in SignInStates /\ since \in [Writers -> SUBSET Items]
  BY DEF CredentialsInv, CredentialTypeOK
<1>2. /\ signIn' \in SignInStates /\ signIn'.token = signIn.token /\ signIn'.data = signIn.data
      /\ signIn'.step = "none"
  BY <1>1 DEF SignInFails, SignInStates
<1>3. ~Using("desktop")'
  BY <1>2, CopiesUsedNext
<1> QED  BY <1>1, <1>2, <1>3, SignInMoves DEF SignInFails, observerVars

LEMMA ProviderSignsInKeeps ==
    ASSUME CredentialsInv, ProviderSignsIn
    PROVE  CredentialsInv'
<1> DEFINE n == issued + 1
           p == signIn.provider
<1>1. CredentialTypeOK /\ TokensAreIssued /\ HeldInv /\ ListingInv /\ KeptInv
  BY DEF CredentialsInv, KeptInv
<1>2. /\ UNCHANGED <<auth, profiles, memory, known, exchange, listing, prompt, wanted, wantedProfiles, since, excused>>
      /\ NoCall /\ signIn.step = "browser" /\ issued < MaxTokens /\ issued' = n
      /\ live' = [live EXCEPT ![p] = live[p] \cup {n}]
      /\ signIn' = [signIn EXCEPT !.step = "granted", !.token = n]
  BY DEF ProviderSignsIn, observerVars
<1>3. issued \in 0 .. MaxTokens /\ live \in [Providers -> SUBSET Tokens] /\ issued \in Nat
      /\ signIn \in SignInStates /\ p \in Providers
  BY <1>1, CredentialShapes DEF CredentialTypeOK, SignInStates
<1>4. n \in Tokens /\ n \in Credential /\ n \in 0 .. MaxTokens /\ ~(n <= issued)
      /\ \A c \in Int : c <= issued => c <= n
  BY <1>2, <1>3, CredentialShapes DEF Tokens
<1> HIDE DEF n
<1>5. /\ signIn' \in SignInStates /\ signIn'.token = n /\ signIn'.data = signIn.data
      /\ signIn'.step = "granted" /\ signIn'.provider = p /\ signIn'.opened = signIn.opened
  BY <1>2, <1>3, <1>4 DEF SignInStates
<1> HIDE DEF p
<1>6. /\ n \in live'[p] /\ live' \in [Providers -> SUBSET Tokens]
      /\ \A q \in Providers : \A c \in live[q] : c \in live'[q]
      /\ \A q \in Providers : \A c \in live'[q] : c = n \/ c \in live[q]
  BY <1>2, <1>3, <1>4
<1>7. CredentialTypeOK'
  BY <1>1, <1>2, <1>4, <1>5, <1>6, CallsAreCounted DEF CredentialTypeOK
<1>8. /\ \A c : InFiles(c)' <=> InFiles(c)
      /\ \A h \in Askers : AskOf(h)' = AskOf(h) /\ AskOf(h) \in Exchange
  BY <1>1, <1>2, <1>5, AskersAreTyped DEF InFiles, AskOf
<1>9. ~InFiles(n) /\ \A k \in Askers : AskOf(k).token # n
  BY <1>1, <1>4 DEF TokensAreIssued
<1>10. TokensAreIssued'
  <2>1. \A c \in Credential : InFiles(c)' => c <= issued'
    BY <1>1, <1>2, <1>4, <1>8, CredentialShapes DEF TokensAreIssued
  <2>2. \A k \in Askers : AskOf(k)'.token <= issued'
    <3> TAKE k \in Askers
    <3>1. AskOf(k).token \in Int /\ AskOf(k).token <= issued
      BY <1>1, <1>8, CredentialShapes DEF Exchange, TokensAreIssued
    <3> QED  BY <1>2, <1>4, <1>8, <3>1
  <2>3. signIn'.token <= issued'
    BY <1>2, <1>4, <1>5
  <2>4. \A q \in Providers : \A c \in live'[q] : c <= issued'
    <3> TAKE q \in Providers
    <3> TAKE c \in live'[q]
    <3>1. c \in live[q] => c \in Int /\ c <= issued
      BY <1>1, <1>3, CredentialShapes DEF TokensAreIssued
    <3>2. c \in live[q] => c <= n
      BY <1>4, <3>1
    <3>3. n <= n
      BY <1>4
    <3> QED  BY <1>2, <1>6, <3>2, <3>3
  <2> QED  BY <2>1, <2>2, <2>3, <2>4 DEF TokensAreIssued
<1>11. HeldInv'
  <2>1. ASSUME NEW k \in Askers, AskOf(k).step = "granted"
        PROVE  /\ AskOf(k).token \in live'[AskOf(k).provider]
               /\ \A c \in Credential : InFiles(c) => AskOf(k).token # c
               /\ \A l \in Askers : l # k /\ AskOf(l).step # "idle" => AskOf(l).token # AskOf(k).token
    BY <1>1, <1>6, <1>8, <2>1 DEF HeldInv, Exchange
  <2>2. /\ signIn'.token \in live'[signIn'.provider]
        /\ \A c \in Credential : InFiles(c) => signIn'.token # c
        /\ \A k \in Askers : AskOf(k).step # "idle" => AskOf(k).token # signIn'.token
    BY <1>5, <1>6, <1>9
  <2> QED  BY <1>8, <2>1, <2>2 DEF HeldInv
<1>12. ListingInv'
  BY <1>1, <1>2 DEF ListingInv
<1>13. KeptInv'
  <2>1. \A q \in Providers : Unsaved(q) => Unsaved(q)'
    BY <1>2 DEF Unsaved
  <2>2. \A w \in Writers : Using(w)' => Using(w) /\ CopyOf(w)' = CopyOf(w) /\ since'[w] = since[w]
    BY <1>2, <1>5, CopiesUsed, CopiesUsedNext DEF Writers
  <2> QED  BY <1>1, <1>2, <1>6, <2>1, <2>2, QuietKeeps
<1> QED  BY <1>7, <1>10, <1>11, <1>12, <1>13 DEF CredentialsInv, KeptInv

LEMMA SignInSavesKeeps ==
    ASSUME CredentialsInv, SignInSaves
    PROVE  CredentialsInv'
<1> DEFINE p == signIn.provider
           v == signIn.token
<1>1. CredentialTypeOK /\ TokensAreIssued /\ HeldInv /\ ListingInv /\ KeptInv
  BY DEF CredentialsInv, KeptInv
<1>2. /\ signIn.step = "granted" /\ signIn.opened
      /\ WriteEntry("desktop", signIn.data, p, v) /\ Asked("desktop", {p}) /\ NoCall
      /\ signIn' = [signIn EXCEPT !.step = "saved"]
      /\ UNCHANGED <<profiles, live, issued, memory, known, exchange, listing, prompt, wantedProfiles>>
  BY DEF SignInSaves
<1>3. signIn \in SignInStates /\ p \in Providers /\ signIn.data \in File
  BY <1>1 DEF CredentialTypeOK, SignInStates
<1>4. v \in live[p] /\ v \in Tokens /\ v \in Credential
  BY <1>1, <1>2, <1>3, CredentialShapes DEF HeldInv, CredentialTypeOK
<1>5. "desktop" \in Writers /\ Using("desktop") /\ CopyOf("desktop") = signIn.data
  BY <1>2, CopiesUsed DEF Writers
<1>6. \A q \in Providers : Unsaved(q) => Unsaved(q)'
  BY <1>2 DEF Unsaved
<1>7. /\ signIn' \in SignInStates /\ signIn'.data = signIn.data /\ signIn'.step = "saved"
      /\ signIn'.token = signIn.token
  BY <1>2, <1>3 DEF SignInStates
<1> HIDE DEF p, v
<1>8. /\ auth' \in File /\ wanted' \in File /\ auth' = [signIn.data EXCEPT ![p] = v]
      /\ \A q \in Providers \ excused' :
           \/ /\ auth'[q] = wanted'[q]
              /\ auth'[q] \in Tokens => auth'[q] \in live[q]
           \/ q \notin {p} /\ auth'[q] = wanted[q] /\ (Unsaved(q) => Unsaved(q)')
      /\ \A q \in Providers \ {p} : wanted'[q] = wanted[q]
  BY <1>1, <1>2, <1>3, <1>4, <1>5, <1>6, CopyIsWritten
<1>9. CredentialTypeOK'
  <2>1. since' \in [Writers -> SUBSET Items] /\ excused' \in SUBSET Items
    BY <1>1, <1>2, <1>3, ChangeIsNoted DEF Items
  <2> QED  BY <1>1, <1>2, <1>7, <1>8, <2>1, CallsAreCounted DEF CredentialTypeOK
<1>10. HeldInv' /\ TokensAreIssued'
  <2>1. \A c \in Credential : InFiles(c)' => InFiles(c) \/ c = v
    BY <1>2, <1>3, <1>7, <1>8 DEF InFiles, File
  <2>2. signIn.token = v /\ signIn'.step # "granted"
    BY <1>7 DEF v
  <2>3. \A h \in Askers : AskOf(h)' = AskOf(h)
    BY <1>2 DEF AskOf
  <2> QED  BY <1>1, <1>2, <1>7, <2>1, <2>2, <2>3, HeldKept
<1>11. ListingInv'
  BY <1>1, <1>2 DEF ListingInv
<1>12. KeptInv'
  <2>1. \A u \in Writers : Using(u)' => u # "desktop" /\ Using(u) /\ CopyOf(u)' = CopyOf(u)
    BY <1>2, <1>7, CopiesUsed, CopiesUsedNext DEF Writers
  <2>2. /\ \A id \in ProfileIds \ excused' : id \in profiles' <=> id \in wantedProfiles'
        /\ \A id \in ProfileIds \ {p} : id \in wantedProfiles' <=> id \in wantedProfiles
    BY <1>1, <1>2, <1>3, ProfilesStay
  <2> QED  BY <1>1, <1>2, <1>8, <2>1, <2>2, WriteKeeps
<1> QED  BY <1>9, <1>10, <1>11, <1>12 DEF CredentialsInv, KeptInv

-----------------------------------------------------------------------------
(* The credential files: commands                                          *)

\* A command changes one profile over the file as it is, and perhaps the entry of its
\* provider, to a key or to nothing.
LEMMA CommandKeeps ==
    ASSUME CredentialsInv, NEW id \in ProfileIds, NEW items, Asked("command", items), AuthCall \/ NoCall,
           \/ profiles' = profiles \cup {id} /\ wantedProfiles' = wantedProfiles \cup {id}
           \/ profiles' = profiles \ {id} /\ wantedProfiles' = wantedProfiles \ {id},
           \/ items = {id} /\ UNCHANGED <<auth, wanted>>
           \/ /\ items = {id, ProviderOf[id]}
              /\ \E v \in {None, Key} : WriteEntry("command", auth, ProviderOf[id], v),
           UNCHANGED <<live, issued, memory, known, exchange, listing, prompt>>,
           signIn' \in SignInStates, signIn'.token = signIn.token, signIn'.data = signIn.data,
           signIn' = signIn \/ signIn'.step = "none"
    PROVE  CredentialsInv'
<1> DEFINE p == ProviderOf[id]
<1>1. CredentialTypeOK /\ TokensAreIssued /\ HeldInv /\ ListingInv /\ KeptInv
  BY DEF CredentialsInv, KeptInv
<1>2. /\ p \in Providers /\ items \subseteq Items /\ items \cap ProfileIds = {id}
      /\ items = {id} => items \cap Providers = {}
      /\ items = {id, p} => items \cap Providers = {p}
  BY CredentialAssumption DEF Items
<1>3. \A q \in Providers : Unsaved(q) => Unsaved(q)'
  BY DEF Unsaved
<1>4. /\ auth' \in File /\ wanted' \in File
      /\ \A q \in Providers \ excused' :
           \/ /\ auth'[q] = wanted'[q]
              /\ auth'[q] \in Tokens => auth'[q] \in live[q]
           \/ q \notin items /\ auth'[q] = wanted[q] /\ (Unsaved(q) => Unsaved(q)')
      /\ \A q \in Providers \ items : wanted'[q] = wanted[q]
      /\ auth' = auth \/ \E v \in {None, Key} : auth' = [auth EXCEPT ![p] = v]
  <2>1. CASE items = {id} /\ UNCHANGED <<auth, wanted>>
    BY <1>1, <1>2, <1>3, <2>1, EntriesStay
  <2>2. CASE items = {id, p} /\ \E v \in {None, Key} : WriteEntry("command", auth, p, v)
    <3> HIDE DEF p
    <3>1. PICK v \in {None, Key} : WriteEntry("command", auth, p, v)
      BY <2>2
    <3> QED  BY <1>1, <1>2, <1>3, <2>2, <3>1, FileIsWritten
  <2> QED  BY <2>1, <2>2
<1> HIDE DEF p
<1>5. /\ \A i \in ProfileIds \ excused' : i \in profiles' <=> i \in wantedProfiles'
      /\ \A i \in ProfileIds \ items : i \in wantedProfiles' <=> i \in wantedProfiles
      /\ profiles' \in SUBSET ProfileIds /\ wantedProfiles' \in SUBSET ProfileIds
  BY <1>1, <1>2, ProfileMoves
<1>6. CredentialTypeOK'
  <2>1. since' \in [Writers -> SUBSET Items] /\ excused' \in SUBSET Items
    BY <1>1, <1>2, ChangeIsNoted
  <2> QED  BY <1>1, <1>4, <1>5, <2>1, CallsAreCounted DEF CredentialTypeOK
<1>7. HeldInv' /\ TokensAreIssued'
  <2>1. \A c \in Credential : InFiles(c)' => InFiles(c) \/ c \in {None, Key}
    BY <1>1, <1>2, <1>4 DEF InFiles, File, CredentialTypeOK
  <2>2. \A h \in Askers : AskOf(h)' = AskOf(h)
    BY DEF AskOf
  <2> QED  BY <1>1, <2>1, <2>2, HeldKept
<1>8. ListingInv'
  BY <1>1 DEF ListingInv
<1>9. KeptInv'
  <2>1. \A u \in Writers : Using(u)' => u # "command" /\ Using(u) /\ CopyOf(u)' = CopyOf(u)
    BY CopiesUsed, CopiesUsedNext DEF Writers
  <2> QED  BY <1>1, <1>3, <1>4, <1>5, <2>1, WriteKeeps
<1> QED  BY <1>6, <1>7, <1>8, <1>9 DEF CredentialsInv, KeptInv

LEMMA SignInEndsKeeps ==
    ASSUME CredentialsInv, NEW id \in ProfileIds, SignInEnds(id)
    PROVE  CredentialsInv'
<1>1. signIn \in SignInStates
  BY DEF CredentialsInv, CredentialTypeOK
<1>2. /\ signIn' \in SignInStates /\ signIn'.token = signIn.token /\ signIn'.data = signIn.data
      /\ signIn'.step = "none"
  BY <1>1 DEF SignInEnds, SignInStates
<1> QED  BY <1>2, CommandKeeps DEF SignInEnds

LEMMA SaveProfileKeeps ==
    ASSUME CredentialsInv, NEW id \in ProfileIds, NEW key \in {"given", "empty", "absent"},
           SaveProfile(id, key)
    PROVE  CredentialsInv'
<1>1. signIn \in SignInStates
  BY DEF CredentialsInv, CredentialTypeOK
<1>2. CASE key # "absent"
  <2>1. {id} \cup {ProviderOf[id]} = {id, ProviderOf[id]}
    OBVIOUS
  <2>2. /\ Asked("command", {id, ProviderOf[id]})
        /\ \E v \in {None, Key} : WriteEntry("command", auth, ProviderOf[id], v)
    BY <1>2, <2>1 DEF SaveProfile
  <2> QED  BY <1>1, <2>2, CommandKeeps DEF SaveProfile
<1>3. CASE key = "absent"
  <2>1. {id} \cup {} = {id}
    OBVIOUS
  <2>2. Asked("command", {id}) /\ UNCHANGED <<auth, wanted>>
    BY <1>3, <2>1 DEF SaveProfile
  <2> QED  BY <1>1, <2>2, CommandKeeps DEF SaveProfile
<1> QED  BY <1>2, <1>3

LEMMA DeleteProfileKeeps ==
    ASSUME CredentialsInv, NEW id \in ProfileIds, DeleteProfile(id)
    PROVE  CredentialsInv'
<1> DEFINE unused == \A i \in profiles \ {id} : ProviderOf[i] # ProviderOf[id]
<1>1. signIn \in SignInStates
  BY DEF CredentialsInv, CredentialTypeOK
<1>2. RemoveProfile(id)
  BY DEF DeleteProfile
<1>3. CASE unused
  <2>1. {id} \cup {ProviderOf[id]} = {id, ProviderOf[id]}
    OBVIOUS
  <2>2. Asked("command", {id, ProviderOf[id]}) /\ WriteEntry("command", auth, ProviderOf[id], None)
    BY <1>2, <1>3, <2>1 DEF RemoveProfile
  <2> QED  BY <1>1, <1>2, <2>2, CommandKeeps DEF DeleteProfile, RemoveProfile
<1>4. CASE ~unused
  <2>1. {id} \cup {} = {id}
    OBVIOUS
  <2>2. Asked("command", {id}) /\ UNCHANGED <<auth, wanted>>
    BY <1>2, <1>4, <2>1 DEF RemoveProfile
  <2> QED  BY <1>1, <1>2, <2>2, CommandKeeps DEF DeleteProfile, RemoveProfile
<1> QED  BY <1>3, <1>4

LEMMA StartLoginKeeps ==
    ASSUME CredentialsInv, NEW id \in ProfileIds, StartLogin(id)
    PROVE  CredentialsInv'
<1>1. CredentialTypeOK /\ TokensAreIssued /\ HeldInv /\ ListingInv /\ KeptInv
  BY DEF CredentialsInv, KeptInv
<1>2. /\ prompt' = [open |-> TRUE, id |-> id, data |-> auth, profiles |-> profiles]
      /\ AuthCall /\ Reads("terminal") /\ "terminal" \in Writers
      /\ UNCHANGED <<auth, profiles, live, issued, memory, known, exchange, listing, signIn>>
  BY DEF StartLogin, storeVars, Writers
<1>3. prompt'.data = auth /\ prompt'.profiles = profiles /\ UNCHANGED <<wanted, wantedProfiles, excused>>
  BY <1>2 DEF Reads
<1>4. CredentialTypeOK'
  <2>1. prompt' \in PromptStates
    BY <1>1, <1>2 DEF PromptStates, CredentialTypeOK
  <2> QED  BY <1>1, <1>2, <1>3, <2>1, ReadingIsNoted, CallsAreCounted DEF CredentialTypeOK
<1>5. HeldInv' /\ TokensAreIssued'
  <2>1. \A c \in Credential : InFiles(c)' => InFiles(c)
    BY <1>2, <1>3 DEF InFiles
  <2>2. \A h \in Askers : AskOf(h)' = AskOf(h)
    BY <1>2 DEF AskOf
  <2> QED  BY <1>1, <1>2, <2>1, <2>2, HeldKept
<1>6. ListingInv'
  BY <1>1, <1>2 DEF ListingInv
<1>7. KeptInv'
  <2>1. \A q \in Providers : Unsaved(q) => Unsaved(q)'
    BY <1>2 DEF Unsaved
  <2>2. \A w \in Writers : w # "terminal" => since'[w] = since[w]
    BY <1>1, <1>2, ReadingIsNoted
  <2>3. \A w \in Writers : Using(w)' => \/ Using(w) /\ CopyOf(w)' = CopyOf(w) /\ since'[w] = since[w]
                                        \/ CopyOf(w)' = auth
    BY <1>2, <1>3, <2>2, CopiesUsed, CopiesUsedNext DEF Writers
  <2> QED  BY <1>1, <1>2, <1>3, <2>1, <2>3, QuietKeeps
<1> QED  BY <1>4, <1>5, <1>6, <1>7 DEF CredentialsInv, KeptInv

LEMMA EnterKeyKeeps ==
    ASSUME CredentialsInv, EnterKey
    PROVE  CredentialsInv'
<1> DEFINE p == ProviderOf[prompt.id]
           id == prompt.id
<1>1. CredentialTypeOK /\ TokensAreIssued /\ HeldInv /\ ListingInv /\ KeptInv
  BY DEF CredentialsInv, KeptInv
<1>2. /\ prompt.open /\ WriteEntry("terminal", prompt.data, p, Key)
      /\ profiles' = prompt.profiles \cup {id} /\ wantedProfiles' = wantedProfiles \cup {id}
      /\ Asked("terminal", {p, id}) /\ NoCall /\ prompt' = [prompt EXCEPT !.open = FALSE]
      /\ UNCHANGED <<live, issued, memory, known, exchange, listing, signIn>>
  BY DEF EnterKey
<1>3. prompt \in PromptStates /\ id \in ProfileIds /\ p \in Providers /\ prompt.data \in File
      /\ prompt.profiles \in SUBSET ProfileIds
  BY <1>1, CredentialAssumption DEF CredentialTypeOK, PromptStates
<1>4. {p, id} \cap Providers = {p} /\ {p, id} \subseteq Items
  BY <1>3, CredentialAssumption DEF Items
<1>5. prompt' \in PromptStates /\ prompt'.open = FALSE /\ prompt'.data = prompt.data
  BY <1>2, <1>3 DEF PromptStates
<1>6. "terminal" \in Writers /\ Using("terminal") /\ CopyOf("terminal") = prompt.data
  BY <1>2, CopiesUsed DEF Writers
<1>7. \A q \in Providers : Unsaved(q) => Unsaved(q)'
  BY <1>2 DEF Unsaved
<1> HIDE DEF p, id
<1>8. /\ auth' \in File /\ wanted' \in File /\ auth' = [prompt.data EXCEPT ![p] = Key]
      /\ \A q \in Providers \ excused' :
           \/ /\ auth'[q] = wanted'[q]
              /\ auth'[q] \in Tokens => auth'[q] \in live[q]
           \/ q \notin {p, id} /\ auth'[q] = wanted[q] /\ (Unsaved(q) => Unsaved(q)')
      /\ \A q \in Providers \ {p, id} : wanted'[q] = wanted[q]
  BY <1>1, <1>2, <1>3, <1>4, <1>6, <1>7, CopyIsWritten, CredentialShapes
<1>9. CredentialTypeOK'
  <2>1. since' \in [Writers -> SUBSET Items] /\ excused' \in SUBSET Items
    BY <1>1, <1>2, <1>4, ChangeIsNoted
  <2>2. profiles' \in SUBSET ProfileIds /\ wantedProfiles' \in SUBSET ProfileIds
    BY <1>1, <1>2, <1>3 DEF CredentialTypeOK
  <2> QED  BY <1>1, <1>2, <1>5, <1>8, <2>1, <2>2, CallsAreCounted DEF CredentialTypeOK
<1>10. HeldInv' /\ TokensAreIssued'
  <2>1. \A c \in Credential : InFiles(c)' => InFiles(c) \/ c = Key
    BY <1>2, <1>3, <1>5, <1>8 DEF InFiles, File
  <2>2. \A h \in Askers : AskOf(h)' = AskOf(h)
    BY <1>2 DEF AskOf
  <2> QED  BY <1>1, <1>2, <2>1, <2>2, HeldKept
<1>11. ListingInv'
  BY <1>1, <1>2 DEF ListingInv
<1>12. KeptInv'
  <2>1. \A u \in Writers : Using(u)' => u # "terminal" /\ Using(u) /\ CopyOf(u)' = CopyOf(u)
    BY <1>2, <1>5, CopiesUsed, CopiesUsedNext DEF Writers
  <2>2. ASSUME NEW i \in ProfileIds \ excused'
        PROVE  i \in profiles' <=> i \in wantedProfiles'
    <3>1. CASE i = id
      BY <1>2, <3>1
    <3>2. CASE i # id
      <4>1. i # p
        BY <1>3, CredentialAssumption
      <4>2. i \notin excused /\ i \notin since["terminal"]
        BY <1>1, <1>2, <1>6, <2>2, <3>2, <4>1, AskedItems
      <4>3. i \in prompt.profiles <=> i \in wantedProfiles
        BY <1>1, <1>2, <4>2 DEF KeptInv, CopiesInv
      <4> QED  BY <1>2, <3>2, <4>3
    <3> QED  BY <3>1, <3>2
  <2>3. \A i \in ProfileIds \ {p, id} : i \in wantedProfiles' <=> i \in wantedProfiles
    BY <1>2
  <2> QED  BY <1>1, <1>2, <1>5, <1>7, <1>8, <2>1, <2>2, <2>3, WriteKeeps
<1> QED  BY <1>9, <1>10, <1>11, <1>12 DEF CredentialsInv, KeptInv

-----------------------------------------------------------------------------
(* The credential files: the theorems                                      *)

LEMMA CredentialsStart == CredentialsInit => CredentialsInv
<1> SUFFICES ASSUME CredentialsInit PROVE CredentialsInv
  OBVIOUS
<1>1. /\ (CHOOSE p \in Providers : TRUE) \in Providers
      /\ (CHOOSE i \in ProfileIds : TRUE) \in ProfileIds
  BY CredentialAssumption
<1>2. CredentialTypeOK
  <2>1. listing \in ListingStates
    BY CredentialShapes DEF CredentialsInit, ListingStates
  <2>2. signIn \in SignInStates
    BY <1>1, CredentialShapes DEF CredentialsInit, SignInStates
  <2>3. prompt \in PromptStates
    BY <1>1, CredentialShapes DEF CredentialsInit, PromptStates
  <2> QED  BY <2>1, <2>2, <2>3, CredentialShapes DEF CredentialsInit, CredentialTypeOK
<1>3. \A h \in Askers : AskOf(h).step = "idle" /\ AskOf(h).token = 0
  BY CredentialShapes DEF CredentialsInit, Askers, AskOf
<1>4. TokensAreIssued
  <2>1. \A c \in Credential : InFiles(c) => c = None
    BY DEF CredentialsInit, InFiles, NoFile
  <2> QED  BY <1>3, <2>1 DEF CredentialsInit, TokensAreIssued, None
<1>5. HeldInv
  BY <1>3 DEF CredentialsInit, HeldInv
<1>6. ListingInv
  BY CredentialShapes DEF CredentialsInit, ListingInv
<1>7. FilesAreKept
  BY CredentialShapes DEF CredentialsInit, FilesAreKept, NoFile
<1>8. CopiesInv
  BY CopiesUsed DEF CredentialsInit, CopiesInv, Writers
<1> QED  BY <1>2, <1>4, <1>5, <1>6, <1>7, <1>8 DEF CredentialsInv

LEMMA CredentialsKept == CredentialsInv /\ [CredentialsNext]_credentialVars => CredentialsInv'
<1> SUFFICES ASSUME CredentialsInv, [CredentialsNext]_credentialVars PROVE CredentialsInv'
  OBVIOUS
<1>1. CASE UNCHANGED credentialVars
  <2> USE <1>1 DEF credentialVars, storeVars, observerVars
  <2>1. CredentialTypeOK'
    BY DEF CredentialsInv, CredentialTypeOK
  <2>2. TokensAreIssued' /\ HeldInv'
    <3>1. \A c : InFiles(c)' <=> InFiles(c)
      BY DEF InFiles
    <3>2. \A h \in Askers : AskOf(h)' = AskOf(h)
      BY DEF AskOf
    <3> QED  BY <3>1, <3>2 DEF CredentialsInv, TokensAreIssued, HeldInv
  <2>3. ListingInv'
    BY DEF CredentialsInv, ListingInv
  <2>4. FilesAreKept'
    BY DEF CredentialsInv, FilesAreKept, Unsaved
  <2>5. CopiesInv'
    BY DEF CredentialsInv, CopiesInv, CopyOf, Using
  <2> QED  BY <2>1, <2>2, <2>3, <2>4, <2>5 DEF CredentialsInv
<1>2. CASE NewBridge \/ NewBus
  BY <1>2, NewBridgeKeeps, NewBusKeeps
<1>3. CASE \E t \in Turns : \/ \E id \in ProfileIds : Resolve(t, id)
                            \/ ProviderAnswersTurn(t) \/ SaveRefresh(t)
  BY <1>3, ResolveKeeps, TurnAnswerKeeps, SaveRefreshKeeps
<1>4. CASE \E e \in SUBSET Providers : ListModels(e)
  BY <1>4, ListModelsKeeps
<1>5. CASE \E p \in Providers : ProviderAnswersListing(p) \/ SaveListed(p) \/ Connect(p)
  BY <1>5, ListingAnswerKeeps, SaveListedKeeps, ConnectKeeps
<1>6. CASE SignInLoads \/ ProviderSignsIn \/ SignInSaves \/ SignInFails
  BY <1>6, SignInLoadsKeeps, ProviderSignsInKeeps, SignInSavesKeeps, SignInFailsKeeps
<1>7. CASE \E id \in ProfileIds : SignInEnds(id) \/ DeleteProfile(id) \/ StartLogin(id)
  BY <1>7, SignInEndsKeeps, DeleteProfileKeeps, StartLoginKeeps
<1>8. CASE \E id \in ProfileIds, key \in {"given", "empty", "absent"} : SaveProfile(id, key)
  BY <1>8, SaveProfileKeeps
<1>9. CASE EnterKey
  BY <1>9, EnterKeyKeeps
<1> QED  BY <1>1, <1>2, <1>3, <1>4, <1>5, <1>6, <1>7, <1>8, <1>9 DEF CredentialsNext

\* The bridge reads the file again before it asks, so it presents what the file holds.
LEMMA LiveTokensPresented ==
    ASSUME CredentialsInv, [CredentialsNext]_credentialVars
    PROVE  PresentsLiveTokens
<1> SUFFICES ASSUME NEW t \in Turns, exchange[t].step = "idle", exchange'[t].step = "asked"
             PROVE  LET p == exchange'[t].provider IN
                    p \in excused \/ Unsaved(p) \/ exchange'[t].token \in live[p]
  BY DEF PresentsLiveTokens
<1>1. CredentialTypeOK /\ FilesAreKept /\ exchange \in [Turns -> Exchange]
  BY DEF CredentialsInv, CredentialTypeOK
<1>2. ASSUME NEW x, x = NoExchange \/ x = Rotated(exchange[t])
      PROVE  exchange' # [exchange EXCEPT ![t] = x]
  <2>1. x.step # "asked"
    BY <1>1, <1>2, CredentialShapes DEF Rotated, Exchange
  <2> QED  BY <1>1, <2>1
<1>3. exchange' # exchange /\ exchange' # [s \in Turns |-> NoExchange]
  BY <1>1, CredentialShapes
<1>4. \E id \in ProfileIds : Resolve(t, id)
  <2>1. \E s \in Turns : \/ \E id \in ProfileIds : Resolve(s, id)
                         \/ ProviderAnswersTurn(s) \/ SaveRefresh(s)
    BY <1>3 DEF CredentialsNext, credentialVars, NewBridge, NewBus, ListModels, ProviderAnswersListing,
           SaveListed, Connect, SignInLoads, ProviderSignsIn, SignInSaves, SignInFails, SignInEnds,
           DeleteProfile, StartLogin, SaveProfile, EnterKey
  <2>2. PICK s \in Turns : \/ \E id \in ProfileIds : Resolve(s, id)
                           \/ ProviderAnswersTurn(s) \/ SaveRefresh(s)
    BY <2>1
  <2>3. \E x : exchange' = [exchange EXCEPT ![s] = x]
    BY <2>2 DEF Resolve, ProviderAnswersTurn, SaveRefresh
  <2>4. s = t
    <3> SUFFICES ASSUME s # t PROVE FALSE
      OBVIOUS
    <3> QED  BY <1>1, <2>3
  <2>5. ~ProviderAnswersTurn(t) /\ ~SaveRefresh(t)
    BY <1>2 DEF ProviderAnswersTurn, SaveRefresh
  <2> QED  BY <2>2, <2>4, <2>5
<1>5. PICK id \in ProfileIds : Resolve(t, id)
  BY <1>4
<1> DEFINE p == ProviderOf[id]
<1>6. p \in Providers /\ auth[p] \in Tokens /\ exchange' = [exchange EXCEPT ![t] = Ask(p, auth[p])]
  BY <1>5, CredentialAssumption DEF Resolve, Reload
<1>7. exchange'[t].provider = p /\ exchange'[t].token = auth[p]
  BY <1>1, <1>6, AskIsTyped
<1> QED  BY <1>1, <1>6, <1>7 DEF FilesAreKept

\* The credential files, the processes that hold a reading of them and the observers keep
\* their types.
THEOREM CredentialTypesHold == CredentialsSpec => []CredentialTypeOK
<1>1. CredentialsInv => CredentialTypeOK
  BY DEF CredentialsInv
<1> QED  BY <1>1, CredentialsStart, CredentialsKept, PTL DEF CredentialsSpec

\* An entry that nobody overwrote after a change it had not read holds what the last change
\* of it asked for, whichever process made it, a stored refresh token is one its provider
\* accepts, and the bridge presents no used token of such an entry.
THEOREM CredentialsStayKept == CredentialsSpec => CredentialsAreKept
<1>1. CredentialsInv => FilesAreKept
  BY DEF CredentialsInv
<1>2. CredentialsInv /\ [CredentialsNext]_credentialVars => [PresentsLiveTokens]_credentialVars
  BY LiveTokensPresented
<1> QED  BY <1>1, <1>2, CredentialsStart, CredentialsKept, PTL DEF CredentialsSpec, CredentialsAreKept

-----------------------------------------------------------------------------
(* Sessions: the invariant                                                 *)

Preparing == {"fallback", "injecting", "reporting", "resetting"}
Running == {"prompting", "finishing", "waiting"}

\* Nothing is known of a turn before its delivery, and nothing is at the bus of one that was
\* not finalised.
FreshInv ==
    /\ \A t \in SessionTurns : t > current =>
          /\ t \notin finalized /\ completion[t] = "open" /\ visible[t] = 0
          /\ t \notin notes /\ ended[t] = "no"
    /\ \A t \in SessionTurns \ finalized : recorded[t] = [text |-> 0, sent |-> 0]

\* The turn at hand has the session or lost it for good, and says nothing once finalised.
CallInv ==
    /\ session.active <= current
    /\ call # "idle" =>
          /\ current # 0 /\ ended[current] = "no" /\ session.active \in {0, current}
          /\ completion[current] # "open" => session.active = 0
    /\ call \in Preparing => /\ current \notin finalized /\ completion[current] = "open"
                             /\ current \notin notes
    /\ call = "prompting" /\ current \in finalized => agentDone

\* What is finalised is the turn at hand, with the text it will keep.
FinalizerInv ==
    finalizer.step # "none" =>
        /\ finalizer.turn = current /\ call \in Running
        /\ current \in finalized /\ completion[current] = "open"
        /\ finalizer.text = visible[current]
        /\ finalizer.step = "record" => recorded[current].sent = 0
        /\ finalizer.step \in {"result", "usage"} => recorded[current].text = finalizer.text

\* A turn that returned was completed, and what it leaves is its last message.
ReturnedInv ==
    /\ \A t \in SessionTurns : completion[t] = "completed" =>
          t \in finalized /\ recorded[t].text = visible[t]
    /\ \A t \in SessionTurns : ended[t] = "returned" => completion[t] = "completed"

\* Instructions remembered as injected are those last prompted, are in the prompt being
\* prepared, or are excused.
OverlayInv ==
    /\ baseline \in {0, overlay, latest} \cup unprompted
    /\ overlay # 0 => baseline \in {0, overlay}
    /\ overlay # 0 => call \in {"reporting", "resetting"}

SessionInv ==
    /\ SessionTypeOK /\ FreshInv /\ CallInv /\ FinalizerInv /\ ReturnedInv /\ OverlayInv
    /\ SessionIsFree /\ ResultIsWhole
-----------------------------------------------------------------------------
(* Sessions: the steps                                                     *)

LEMMA SessionBounds ==
    /\ MaxSessionTurns \in Nat /\ MaxTexts \in Nat /\ MaxSessionFaults \in Nat
    /\ 0 \notin Overlays /\ (CHOOSE c \in RuntimeConfigs : TRUE) \in RuntimeConfigs
    /\ \A t : t \in SessionTurns <=> t \in Nat /\ 1 <= t /\ t <= MaxSessionTurns
BY SessionAssumption DEF SessionTurns

LEMMA FaultsAreCounted ==
    ASSUME SessionTypeOK, SessionFault \/ NoFault
    PROVE  sessionFaults' \in 0 .. MaxSessionFaults
BY SessionBounds DEF SessionTypeOK, SessionFault, NoFault

\* The instructions move by themselves.
LEMMA OverlayQuiet ==
    ASSUME SessionTypeOK, OverlayInv, UNCHANGED overlayVars,
           call \in {"reporting", "resetting"} => call' = call
    PROVE  OverlayInv'
BY DEF OverlayInv, overlayVars

LEMMA BeginTurnKeeps ==
    ASSUME SessionInv, NEW c \in RuntimeConfigs, NEW fallback \in BOOLEAN, BeginTurn(c, fallback)
    PROVE  SessionInv'
<1> DEFINE kept == SessionFor(c)
           n == current + 1
           busy == kept.active # 0 /\ kept.active \notin finalized
<1>1. /\ SessionTypeOK /\ FreshInv /\ CallInv /\ FinalizerInv /\ ReturnedInv /\ OverlayInv
      /\ SessionIsFree /\ ResultIsWhole
  BY DEF SessionInv
<1>2. /\ call = "idle" /\ current < MaxSessionTurns /\ current' = n
      /\ session' = IF busy THEN kept ELSE StartTurn(kept)
      /\ call' = IF busy THEN "idle" ELSE IF fallback THEN "fallback" ELSE "injecting"
      /\ ended' = IF busy THEN [ended EXCEPT ![n] = "rejected"] ELSE ended
      /\ agentDone' = FALSE /\ NoFault
      /\ UNCHANGED <<finalized, completion, visible, notes, finalizer, recorded, silenced, overlayVars>>
  BY DEF BeginTurn
<1>3. current \in 0 .. MaxSessionTurns /\ n \in SessionTurns /\ n \in 0 .. MaxSessionTurns /\ n > current
      /\ \A t \in SessionTurns : t > n => t > current /\ t # n
  BY <1>1, <1>2, SessionBounds DEF SessionTypeOK
<1>4. /\ kept \in [open : BOOLEAN, config : RuntimeConfigs, active : 0 .. MaxSessionTurns]
      /\ kept.active = session.active \/ kept.active = 0
  BY <1>1, SessionBounds DEF SessionFor, SessionTypeOK
<1>5. /\ session' \in [open : BOOLEAN, config : RuntimeConfigs, active : 0 .. MaxSessionTurns]
      /\ session'.active = IF busy THEN session.active ELSE n
  BY <1>2, <1>3, <1>4 DEF StartTurn
<1>6. busy => session.active \in silenced /\ session.active \in SessionTurns /\ session.active < n
  BY <1>1, <1>2, <1>3, <1>4, SessionBounds DEF SessionIsFree, CallInv, SessionTypeOK
<1> HIDE DEF busy, n, kept
<1>7. SessionTypeOK'
  <2>1. ended' \in [SessionTurns -> {"no", "returned", "failed", "rejected", "cut"}]
    BY <1>1, <1>2 DEF SessionTypeOK
  <2> QED  BY <1>1, <1>2, <1>3, <1>5, <2>1, FaultsAreCounted DEF SessionTypeOK, overlayVars
<1>8. FreshInv'
  BY <1>1, <1>2, <1>3 DEF FreshInv, SessionTypeOK
<1>9. /\ n \notin finalized /\ completion[n] = "open" /\ n \notin notes /\ ended[n] = "no"
      /\ recorded[n].sent = 0
  BY <1>1, <1>3 DEF FreshInv
<1>10. CallInv'
  <2>1. session'.active <= current'
    BY <1>2, <1>3, <1>5, <1>6
  <2>2. n # 0
    BY <1>3, SessionBounds
  <2> QED  BY <1>2, <1>3, <1>5, <1>9, <2>1, <2>2 DEF CallInv, Preparing
<1>11. FinalizerInv'
  BY <1>1, <1>2 DEF FinalizerInv, Running
<1>12. ReturnedInv'
  BY <1>1, <1>2, <1>3 DEF ReturnedInv, SessionTypeOK
<1>13. OverlayInv'
  BY <1>1, <1>2, OverlayQuiet
<1>14. SessionIsFree' /\ ResultIsWhole'
  BY <1>1, <1>2, <1>3, <1>5, <1>6, <1>9 DEF SessionIsFree, ResultIsWhole, SessionTypeOK
<1> QED  BY <1>7, <1>8, <1>10, <1>11, <1>12, <1>13, <1>14 DEF SessionInv

\* A step that leaves the turns alone but for the progress of the call.
LEMMA CallMoves ==
    ASSUME SessionInv, UNCHANGED <<current, session, finalized, completion, visible, notes, finalizer,
                                   recorded>>,
           call # "idle", agentDone' \in BOOLEAN, agentDone => agentDone',
           \/ /\ call' \in {"injecting", "reporting", "resetting", "prompting"} /\ call \in Preparing
              /\ UNCHANGED <<ended, silenced>>
           \/ /\ call' \in {"finishing", "waiting"} /\ call \in Running
              /\ UNCHANGED <<ended, silenced>>
           \/ call' = "failing" /\ finalizer.step = "none" /\ UNCHANGED <<ended, silenced>>
           \/ /\ call' = "idle" /\ finalizer.step = "none" /\ silenced' = silenced \cup {current}
              /\ ended' = [ended EXCEPT ![current] = "failed"]
           \/ /\ call' = "idle" /\ completion[current] = "completed" /\ UNCHANGED silenced
              /\ ended' = [ended EXCEPT ![current] = "returned"]
    PROVE  /\ FreshInv' /\ CallInv' /\ FinalizerInv' /\ ReturnedInv' /\ SessionIsFree' /\ ResultIsWhole'
           /\ call' \in {"idle", "fallback", "injecting", "reporting", "resetting", "prompting",
                         "finishing", "waiting", "failing"}
           /\ ended' \in [SessionTurns -> {"no", "returned", "failed", "rejected", "cut"}]
           /\ silenced' \in SUBSET SessionTurns
<1>1. /\ SessionTypeOK /\ FreshInv /\ CallInv /\ FinalizerInv /\ ReturnedInv /\ OverlayInv
      /\ SessionIsFree /\ ResultIsWhole
  BY DEF SessionInv
<1>2. /\ current \in SessionTurns /\ ended[current] = "no"
      /\ ended' \in [SessionTurns -> {"no", "returned", "failed", "rejected", "cut"}]
      /\ silenced' \in SUBSET SessionTurns
  <2>1. current \in SessionTurns /\ ended[current] = "no"
    BY <1>1, SessionBounds DEF CallInv, SessionTypeOK
  <2> QED  BY <1>1, <2>1 DEF SessionTypeOK
<1>3. \A t \in SessionTurns : t > current => t # current
  BY <1>2, SessionBounds
<1>4. FreshInv'
  BY <1>1, <1>2, <1>3 DEF FreshInv, SessionTypeOK
<1>5. CallInv'
  BY <1>1, <1>2 DEF CallInv, Preparing, Running
<1>6. FinalizerInv'
  BY <1>1 DEF FinalizerInv, Preparing, Running
<1>7. \A t \in SessionTurns : \/ ended'[t] = ended[t]
                              \/ t = current /\ ended'[t] = "failed"
                              \/ t = current /\ ended'[t] = "returned" /\ completion[t] = "completed"
  BY <1>1, <1>2 DEF SessionTypeOK
<1>8. ReturnedInv'
  BY <1>1, <1>7 DEF ReturnedInv
<1>9. SessionIsFree'
  BY <1>1, <1>2, <1>7 DEF SessionIsFree, CallInv
<1>10. ResultIsWhole'
  BY <1>1, <1>7 DEF ResultIsWhole, ReturnedInv
<1> QED  BY <1>2, <1>4, <1>5, <1>6, <1>8, <1>9, <1>10

LEMMA FallbackNotedKeeps ==
    ASSUME SessionInv, FallbackNoted
    PROVE  SessionInv'
<1>1. SessionTypeOK /\ OverlayInv /\ FinalizerInv
  BY DEF SessionInv
<1>2. /\ call = "fallback" /\ UNCHANGED <<current, session, finalized, completion, visible, notes,
                                          finalizer, agentDone, recorded, overlayVars>>
      /\ finalizer.step = "none" /\ agentDone \in BOOLEAN
  BY <1>1 DEF FallbackNoted, FinalizerInv, Running, SessionTypeOK
<1>3. /\ FreshInv' /\ CallInv' /\ FinalizerInv' /\ ReturnedInv' /\ SessionIsFree' /\ ResultIsWhole'
      /\ call' \in {"idle", "fallback", "injecting", "reporting", "resetting", "prompting",
                    "finishing", "waiting", "failing"}
      /\ ended' \in [SessionTurns -> {"no", "returned", "failed", "rejected", "cut"}]
      /\ silenced' \in SUBSET SessionTurns
  BY <1>2, CallMoves DEF FallbackNoted, EndCall, Preparing
<1>4. SessionTypeOK'
  <2>1. sessionFaults' \in 0 .. MaxSessionFaults
    BY <1>1, FaultsAreCounted DEF FallbackNoted
  <2> QED  BY <1>1, <1>2, <1>3, <2>1 DEF SessionTypeOK, overlayVars
<1>5. OverlayInv'
  BY <1>1, <1>2, OverlayQuiet
<1> QED  BY <1>3, <1>4, <1>5 DEF SessionInv

LEMMA InjectKeeps ==
    ASSUME SessionInv, NEW text \in Overlays \cup {0}, Inject(text)
    PROVE  SessionInv'
<1>1. SessionTypeOK /\ OverlayInv
  BY DEF SessionInv
<1>2. /\ call = "injecting" /\ call' \in {"reporting", "resetting"} /\ NoFault /\ hooksWired' = TRUE
      /\ UNCHANGED <<current, session, finalized, completion, visible, notes, finalizer, agentDone,
                     recorded, ended, silenced, latest, unprompted>>
      /\ \/ UNCHANGED <<overlay, baseline>>
         \/ call' = "reporting" /\ overlay' = text /\ baseline' = text
  BY DEF Inject
<1>3. /\ FreshInv' /\ CallInv' /\ FinalizerInv' /\ ReturnedInv' /\ SessionIsFree' /\ ResultIsWhole'
  BY <1>1, <1>2, CallMoves DEF Preparing, SessionTypeOK
<1>4. SessionTypeOK'
  <2>1. sessionFaults' \in 0 .. MaxSessionFaults
    BY <1>1, <1>2, FaultsAreCounted
  <2> QED  BY <1>1, <1>2, <2>1 DEF SessionTypeOK
<1>5. OverlayInv'
  BY <1>1, <1>2 DEF OverlayInv
<1> QED  BY <1>3, <1>4, <1>5 DEF SessionInv

LEMMA PromptReportedKeeps ==
    ASSUME SessionInv, PromptReported
    PROVE  SessionInv'
<1>1. SessionTypeOK /\ OverlayInv /\ FinalizerInv
  BY DEF SessionInv
<1>2. /\ call \in {"reporting", "resetting"} /\ call' \in {"resetting", "prompting", "failing"}
      /\ UNCHANGED <<current, session, finalized, completion, visible, notes, finalizer, agentDone,
                     recorded, ended, silenced, baseline, hooksWired>>
      /\ finalizer.step = "none" /\ agentDone \in BOOLEAN /\ (SessionFault \/ NoFault)
      /\ \/ call' = "resetting" /\ UNCHANGED <<overlay, latest, unprompted>>
         \/ overlay = 0 /\ UNCHANGED <<overlay, latest, unprompted>>
         \/ overlay # 0 /\ overlay' = 0 /\ latest' = overlay /\ unprompted' = {}
         \/ /\ overlay' = 0 /\ unprompted' = unprompted \cup Carried /\ latest' = latest
  BY <1>1 DEF PromptReported, FinalizerInv, Running, SessionTypeOK
<1>3. /\ FreshInv' /\ CallInv' /\ FinalizerInv' /\ ReturnedInv' /\ SessionIsFree' /\ ResultIsWhole'
  <2>1. call' # "failing" => call' \in {"injecting", "reporting", "resetting", "prompting"} /\ call \in Preparing
    BY <1>2 DEF Preparing
  <2>2. call # "idle" /\ (agentDone => agentDone') /\ agentDone' \in BOOLEAN
    BY <1>2
  <2>3. UNCHANGED <<current, session, finalized, completion, visible, notes, finalizer, recorded>>
        /\ UNCHANGED <<ended, silenced>> /\ finalizer.step = "none"
    BY <1>2
  <2>4. CASE call' = "failing"
    BY <2>2, <2>3, <2>4, CallMoves
  <2>5. CASE call' # "failing"
    BY <2>1, <2>2, <2>3, <2>5, CallMoves
  <2> QED  BY <2>4, <2>5
<1>4. SessionTypeOK'
  <2>1. sessionFaults' \in 0 .. MaxSessionFaults
    BY <1>1, <1>2, FaultsAreCounted
  <2> QED  BY <1>1, <1>2, <2>1 DEF SessionTypeOK, Carried
<1>5. OverlayInv'
  BY <1>1, <1>2 DEF OverlayInv, Carried
<1> QED  BY <1>3, <1>4, <1>5 DEF SessionInv


\* The step of the call leaves the instructions alone.
LEMMA CallKeeps ==
    ASSUME SessionInv, UNCHANGED <<current, session, finalized, completion, visible, notes, finalizer,
                                   recorded, overlayVars>>,
           SessionFault \/ NoFault, call \in Running, agentDone' \in BOOLEAN, agentDone => agentDone',
           \/ /\ call' \in {"finishing", "waiting"} /\ UNCHANGED <<ended, silenced>>
           \/ call' = "failing" /\ finalizer.step = "none" /\ UNCHANGED <<ended, silenced>>
           \/ /\ call' = "idle" /\ completion[current] = "completed" /\ UNCHANGED silenced
              /\ ended' = [ended EXCEPT ![current] = "returned"]
    PROVE  SessionInv'
<1>1. SessionTypeOK /\ OverlayInv
  BY DEF SessionInv
<1>2. /\ FreshInv' /\ CallInv' /\ FinalizerInv' /\ ReturnedInv' /\ SessionIsFree' /\ ResultIsWhole'
      /\ call' \in {"idle", "fallback", "injecting", "reporting", "resetting", "prompting",
                    "finishing", "waiting", "failing"}
      /\ ended' \in [SessionTurns -> {"no", "returned", "failed", "rejected", "cut"}]
      /\ silenced' \in SUBSET SessionTurns
  <2>1. call # "idle"
    BY DEF Running
  <2> QED  BY <2>1, CallMoves
<1>3. SessionTypeOK'
  <2>1. sessionFaults' \in 0 .. MaxSessionFaults
    BY <1>1, FaultsAreCounted
  <2> QED  BY <1>1, <1>2, <2>1 DEF SessionTypeOK, overlayVars
<1>4. OverlayInv'
  BY <1>1, OverlayQuiet DEF Running
<1> QED  BY <1>2, <1>3, <1>4 DEF SessionInv

LEMMA PromptReturnsKeeps ==
    ASSUME SessionInv, PromptReturns
    PROVE  SessionInv'
<1>1. SessionTypeOK /\ FinalizerInv /\ CallInv
  BY DEF SessionInv
<1>2. ~agentDone => finalizer.step = "none"
  BY <1>1 DEF PromptReturns, CallInv, FinalizerInv
<1>3. call \in Running /\ agentDone' = TRUE
  BY DEF PromptReturns, Running
<1> QED  BY <1>2, <1>3, CallKeeps DEF PromptReturns

LEMMA CompletesKeeps ==
    ASSUME SessionInv, Completes
    PROVE  SessionInv'
<1>1. SessionTypeOK /\ FinalizerInv /\ agentDone \in BOOLEAN
  BY DEF SessionInv, SessionTypeOK
<1>2. completion[current] # "open" /\ call \in Running
  BY DEF Completes, Running
<1>3. finalizer.step = "none"
  BY <1>1, <1>2 DEF FinalizerInv
<1> QED  BY <1>1, <1>2, <1>3, CallKeeps DEF Completes, EndCall

LEMMA SaysKeeps ==
    ASSUME SessionInv, Says
    PROVE  SessionInv'
<1>1. /\ SessionTypeOK /\ FreshInv /\ CallInv /\ FinalizerInv /\ ReturnedInv /\ OverlayInv
      /\ SessionIsFree /\ ResultIsWhole
  BY DEF SessionInv
<1>2. /\ call = "prompting" /\ ~agentDone /\ visible[current] < MaxTexts
      /\ visible' = [visible EXCEPT ![current] = visible[current] + 1] /\ notes' = notes \cup {current}
      /\ NoFault
      /\ UNCHANGED <<call, current, session, finalized, completion, finalizer, agentDone,
                     recorded, ended, silenced, overlayVars>>
  BY DEF Says
<1>3. current \in SessionTurns /\ current \notin finalized /\ ended[current] = "no"
      /\ \A t \in SessionTurns : t > current => t # current
  BY <1>1, <1>2, SessionBounds DEF CallInv, SessionTypeOK
<1>4. visible' \in [SessionTurns -> 0 .. MaxTexts] /\ notes' \in SUBSET SessionTurns
      /\ \A t \in SessionTurns : t # current => visible'[t] = visible[t]
  BY <1>1, <1>2, <1>3, SessionBounds DEF SessionTypeOK
<1>5. SessionTypeOK'
  BY <1>1, <1>2, <1>4, FaultsAreCounted DEF SessionTypeOK, overlayVars
<1>6. FreshInv'
  BY <1>1, <1>2, <1>3, <1>4 DEF FreshInv
<1>7. CallInv' /\ FinalizerInv'
  BY <1>1, <1>2, <1>3 DEF CallInv, FinalizerInv, Preparing
<1>8. ReturnedInv'
  BY <1>1, <1>2, <1>3, <1>4 DEF ReturnedInv
<1>9. OverlayInv' /\ SessionIsFree'
  BY <1>1, <1>2, OverlayQuiet DEF SessionIsFree
<1>10. ResultIsWhole'
  BY <1>1, <1>2, <1>3, <1>4 DEF ResultIsWhole
<1> QED  BY <1>5, <1>6, <1>7, <1>8, <1>9, <1>10 DEF SessionInv

\* The completion of a turn that was open is decided, and the turn lets go of the session.
LEMMA SettlesTyped ==
    ASSUME SessionTypeOK, NEW t \in SessionTurns, NEW how \in {"completed", "failed", "signalled"}, Settles(t, how)
    PROVE  /\ completion' \in [SessionTurns -> {"open", "completed", "failed", "signalled"}]
           /\ \A s \in SessionTurns : \/ completion'[s] = completion[s]
                                      \/ s = t /\ completion[s] = "open" /\ completion'[s] = how
           /\ completion'[t] # "open"
BY DEF Settles, SessionTypeOK

LEMMA ReleaseTyped ==
    ASSUME SessionTypeOK, NEW t \in SessionTurns, Release(t)
    PROVE  /\ session' \in [open : BOOLEAN, config : RuntimeConfigs, active : 0 .. MaxSessionTurns]
           /\ session'.active = IF session.active = t THEN 0 ELSE session.active
BY SessionBounds DEF Release, SessionTypeOK

LEMMA NoteAnsweredKeeps ==
    ASSUME SessionInv, NEW t \in SessionTurns, NoteAnswered(t)
    PROVE  SessionInv'
<1>1. /\ SessionTypeOK /\ FreshInv /\ CallInv /\ FinalizerInv /\ ReturnedInv /\ OverlayInv
      /\ SessionIsFree /\ ResultIsWhole
  BY DEF SessionInv
<1>2. /\ t \in notes /\ notes' = notes \ {t} /\ (SessionFault \/ NoFault)
      /\ UNCHANGED <<call, current, finalized, visible, finalizer, agentDone, recorded, ended,
                     silenced, overlayVars>>
  BY DEF NoteAnswered
<1>3. \/ UNCHANGED <<session, completion>>
      \/ Release(t) /\ (IF t \in finalized THEN UNCHANGED completion ELSE Settles(t, "failed"))
  BY DEF NoteAnswered
<1>4. /\ session' \in [open : BOOLEAN, config : RuntimeConfigs, active : 0 .. MaxSessionTurns]
      /\ session'.active = session.active \/ (session.active = t /\ session'.active = 0)
  <2>1. CASE session' = session
    BY <1>1, <2>1 DEF SessionTypeOK
  <2>2. CASE Release(t)
    BY <1>1, <2>2, ReleaseTyped
  <2> QED  BY <1>3, <2>1, <2>2
<1>5. /\ completion' \in [SessionTurns -> {"open", "completed", "failed", "signalled"}]
      /\ \A s \in SessionTurns : \/ completion'[s] = completion[s]
                                 \/ /\ s = t /\ completion[s] = "open" /\ completion'[s] = "failed"
                                    /\ t \notin finalized /\ session'.active # t
  BY <1>1, <1>3, SettlesTyped, ReleaseTyped, SessionBounds DEF SessionTypeOK
<1>6. /\ ~(t > current) /\ t # 0 /\ current >= 0
      /\ \A s \in SessionTurns : s > current => s # t
  <2>1. ~(t > current)
    BY <1>1, <1>2 DEF FreshInv
  <2>2. t # 0 /\ current >= 0
    BY <1>1, SessionBounds DEF SessionTypeOK
  <2> QED  BY <2>1, <2>2
<1>7. SessionTypeOK'
  <2>1. notes' \in SUBSET SessionTurns /\ sessionFaults' \in 0 .. MaxSessionFaults
    BY <1>1, <1>2, FaultsAreCounted DEF SessionTypeOK
  <2> QED  BY <1>1, <1>2, <1>4, <1>5, <2>1 DEF SessionTypeOK, overlayVars
<1>8. FreshInv'
  <2>1. \A s \in SessionTurns : s > current => s # t
    BY <1>6
  <2>2. \A s \in SessionTurns : s > current => completion'[s] = completion[s] /\ s \notin notes'
    BY <1>1, <1>2, <1>5, <2>1 DEF FreshInv
  <2> QED  BY <1>1, <1>2, <2>2 DEF FreshInv
<1>9. CallInv'
  <2>1. session'.active <= current
    BY <1>1, <1>4, <1>6 DEF CallInv
  <2>2. call # "idle" => current \in SessionTurns
    BY <1>1, SessionBounds DEF CallInv, SessionTypeOK
  <2>3. call # "idle" /\ completion'[current] # "open" => session'.active = 0
    BY <1>1, <1>4, <1>5, <2>2 DEF CallInv
  <2>4. call \in Preparing => /\ current \notin finalized /\ completion'[current] = "open"
                              /\ current \notin notes'
    <3> SUFFICES ASSUME call \in Preparing
                 PROVE  /\ current \notin finalized /\ completion'[current] = "open"
                        /\ current \notin notes'
      OBVIOUS
    <3>1. current \in SessionTurns /\ current # t
      BY <1>1, <1>2, <2>2 DEF CallInv, Preparing
    <3> QED  BY <1>1, <1>2, <1>5, <3>1 DEF CallInv
  <2> QED  BY <1>1, <1>2, <1>4, <2>1, <2>3, <2>4 DEF CallInv
<1>10. FinalizerInv'
  <2>1. current \in finalized => current \in SessionTurns
    BY <1>1 DEF SessionTypeOK
  <2> QED  BY <1>1, <1>2, <1>5, <2>1 DEF FinalizerInv
<1>11. ReturnedInv' /\ OverlayInv'
  BY <1>1, <1>2, <1>5, OverlayQuiet DEF ReturnedInv
<1>12. SessionIsFree' /\ ResultIsWhole'
  BY <1>1, <1>2, <1>4 DEF SessionIsFree, ResultIsWhole
<1> QED  BY <1>7, <1>8, <1>9, <1>10, <1>11, <1>12 DEF SessionInv

\* The end of the agent, or the timer, finalises the turn at hand if it still has the session.
LEMMA FinalizingKeeps ==
    ASSUME SessionInv, NEW stop \in {"none", "stop", "error"},
           IF Heard THEN FinalizeTurn(stop) ELSE UNCHANGED <<finalized, finalizer>>,
           UNCHANGED <<current, session, completion, visible, notes, recorded, ended, silenced, overlayVars>>,
           NoFault, call \in Running, call' \in Running, agentDone' \in BOOLEAN, agentDone => agentDone',
           call' = "prompting" => agentDone'
    PROVE  SessionInv'
<1>1. /\ SessionTypeOK /\ FreshInv /\ CallInv /\ FinalizerInv /\ ReturnedInv /\ OverlayInv
      /\ SessionIsFree /\ ResultIsWhole
  BY DEF SessionInv
<1>2. current \in SessionTurns /\ ended[current] = "no" /\ session.active \in {0, current}
      /\ \A t \in SessionTurns : t > current => t # current
  BY <1>1, SessionBounds DEF CallInv, SessionTypeOK, Running
<1>3. \/ UNCHANGED <<finalized, finalizer>>
      \/ /\ current \notin finalized /\ session.active = current
         /\ finalized' = finalized \cup {current}
         /\ finalizer' = [turn |-> current, stop |-> stop, text |-> visible[current],
                          step |-> IF visible[current] > 0 THEN "record"
                                   ELSE IF stop = "error" THEN "error" ELSE "usage"]
  BY DEF FinalizeTurn, Heard
<1>4. visible[current] \in 0 .. MaxTexts /\ current \in 0 .. MaxSessionTurns
      /\ (~(visible[current] > 0) => visible[current] = 0)
  BY <1>1, <1>2, SessionBounds DEF SessionTypeOK
<1>5. SessionTypeOK'
  <2>1. finalized' \in SUBSET SessionTurns
    <3>1. finalized' = finalized \/ finalized' = finalized \cup {current}
      BY <1>3
    <3>2. finalized \in SUBSET SessionTurns
      BY <1>1 DEF SessionTypeOK
    <3> QED  BY <1>2, <3>1, <3>2
  <2>2. finalizer' \in [turn : 0 .. MaxSessionTurns, stop : {"none", "stop", "error"}, text : 0 .. MaxTexts,
                        step : {"none", "record", "result", "usage", "error", "errorUsage"}]
    BY <1>1, <1>3, <1>4 DEF SessionTypeOK
  <2>3. call' \in {"idle", "fallback", "injecting", "reporting", "resetting", "prompting",
                   "finishing", "waiting", "failing"}
    BY DEF Running
  <2> QED  BY <1>1, <2>1, <2>2, <2>3, FaultsAreCounted DEF SessionTypeOK, overlayVars
<1>6. FreshInv'
  BY <1>1, <1>2, <1>3 DEF FreshInv
<1>7. CallInv'
  BY <1>1, <1>2, <1>3 DEF CallInv, Preparing, Running
<1>8. FinalizerInv'
  <2>1. CASE UNCHANGED <<finalized, finalizer>>
    BY <1>1, <2>1 DEF FinalizerInv
  <2>2. CASE finalizer' # finalizer
    <3>1. recorded[current] = [text |-> 0, sent |-> 0] /\ completion[current] = "open"
      BY <1>1, <1>2, <1>3, <2>2, SessionBounds DEF FreshInv, CallInv, Running
    <3> QED  BY <1>2, <1>3, <1>4, <2>2, <3>1 DEF FinalizerInv
  <2>3. CASE finalizer' = finalizer /\ finalized' = finalized \cup {current}
    BY <1>1, <2>3 DEF FinalizerInv
  <2> QED  BY <1>3, <2>1, <2>2, <2>3
<1>9. ReturnedInv' /\ OverlayInv' /\ SessionIsFree' /\ ResultIsWhole'
  <2>1. finalized \subseteq finalized' /\ call \notin {"reporting", "resetting"} /\ call' # "idle"
    BY <1>3 DEF Running
  <2> QED  BY <1>1, <2>1, OverlayQuiet DEF ReturnedInv, SessionIsFree, ResultIsWhole
<1> QED  BY <1>5, <1>6, <1>7, <1>8, <1>9 DEF SessionInv

LEMMA AgentEndsKeeps ==
    ASSUME SessionInv, NEW stop \in {"stop", "error"}, AgentEnds(stop)
    PROVE  SessionInv'
<1>1. call \in Running /\ call' = call /\ agentDone' = TRUE /\ stop \in {"none", "stop", "error"}
  BY DEF AgentEnds, Running
<1> QED  BY <1>1, FinalizingKeeps DEF AgentEnds

LEMMA TimerFinalizesKeeps ==
    ASSUME SessionInv, TimerFinalizes
    PROVE  SessionInv'
<1>1. call \in Running /\ call' \in Running /\ call' # "prompting" /\ agentDone' = agentDone
      /\ agentDone \in BOOLEAN
  BY DEF TimerFinalizes, Running, SessionInv, SessionTypeOK
<1> QED  BY <1>1, FinalizingKeeps DEF TimerFinalizes


LEMMA FinalizeAnsweredKeeps ==
    ASSUME SessionInv, FinalizeAnswered
    PROVE  SessionInv'
<1>1. /\ SessionTypeOK /\ FreshInv /\ CallInv /\ FinalizerInv /\ ReturnedInv /\ OverlayInv
      /\ SessionIsFree /\ ResultIsWhole
  BY DEF SessionInv
<1>2. /\ finalizer.step # "none" /\ (SessionFault \/ NoFault)
      /\ UNCHANGED <<call, current, finalized, visible, notes, agentDone, ended, silenced, overlayVars>>
      /\ Records \/ recorded' = recorded
  BY DEF FinalizeAnswered, Records
<1>3. /\ finalizer.turn = current /\ call \in Running /\ current \in finalized
      /\ completion[current] = "open" /\ finalizer.text = visible[current]
  BY <1>1, <1>2 DEF FinalizerInv
<1>4. current \in SessionTurns /\ ended[current] = "no" /\ session.active \in {0, current}
  BY <1>1, <1>3, SessionBounds DEF CallInv, SessionTypeOK, Running
<1>5. /\ finalizer \in [turn : 0 .. MaxSessionTurns, stop : {"none", "stop", "error"}, text : 0 .. MaxTexts,
                        step : {"none", "record", "result", "usage", "error", "errorUsage"}]
      /\ recorded \in [SessionTurns -> [text : 0 .. MaxTexts, sent : 0 .. 2]]
      /\ visible[current] \in 0 .. MaxTexts
  BY <1>1, <1>4 DEF SessionTypeOK
<1>6. /\ recorded' \in [SessionTurns -> [text : 0 .. MaxTexts, sent : 0 .. 2]]
      /\ \A t \in SessionTurns : t # current => recorded'[t] = recorded[t]
      /\ recorded'[current].sent <= 1
      /\ finalizer.step \in {"result", "usage"} => recorded'[current].text = visible[current]
      /\ Records /\ finalizer.step = "record" => recorded'[current].text = visible[current]
  <2>1. CASE recorded' = recorded /\ (Records => finalizer.step # "record")
    BY <1>1, <1>3, <1>4, <1>5, <2>1 DEF ResultIsWhole, FinalizerInv
  <2>2. CASE Records /\ finalizer.step = "record"
    <3>1. recorded[current].sent = 0
      BY <1>1, <2>2 DEF FinalizerInv
    <3>2. recorded' = [recorded EXCEPT ![current] = [text |-> visible[current], sent |-> 0 + 1]]
      BY <1>3, <1>4, <1>5, <2>2, <3>1 DEF Records
    <3> QED  BY <1>4, <1>5, <2>2, <3>2
  <2>3. CASE ~Records
    BY <1>1, <1>2, <1>3, <1>4, <1>5, <2>3 DEF ResultIsWhole, FinalizerInv
  <2> QED  BY <1>2, <2>1, <2>2, <2>3 DEF Records
<1>7. \/ /\ finalizer' = [finalizer EXCEPT !.step = StepAfter] /\ Records /\ StepAfter # "none"
         /\ UNCHANGED <<session, completion>>
      \/ \E how \in {"completed", "signalled", "failed"} :
            /\ FinalizeEnds(how)
            /\ how = "completed" => Records /\ StepAfter = "none" /\ finalizer.step # "errorUsage"
  BY DEF FinalizeAnswered
<1>8. CASE /\ finalizer' = [finalizer EXCEPT !.step = StepAfter] /\ Records /\ StepAfter # "none"
           /\ UNCHANGED <<session, completion>>
  <2>1. StepAfter \in {"result", "usage", "errorUsage"} /\ (finalizer.step \in {"error", "errorUsage"} => StepAfter = "errorUsage")
        /\ (StepAfter = "errorUsage" => finalizer.step = "error") /\ finalizer.step \in {"record", "result", "error"}
    BY <1>2, <1>5, <1>8 DEF StepAfter
  <2>2. /\ finalizer' \in [turn : 0 .. MaxSessionTurns, stop : {"none", "stop", "error"}, text : 0 .. MaxTexts,
                           step : {"none", "record", "result", "usage", "error", "errorUsage"}]
        /\ finalizer'.turn = current /\ finalizer'.text = visible[current] /\ finalizer'.step = StepAfter
    BY <1>3, <1>5, <1>8, <2>1
  <2>3. SessionTypeOK'
    BY <1>1, <1>2, <1>6, <1>8, <2>2, FaultsAreCounted DEF SessionTypeOK, overlayVars
  <2>4. FinalizerInv'
    BY <1>2, <1>3, <1>6, <1>8, <2>1, <2>2 DEF FinalizerInv
  <2>5. FreshInv' /\ CallInv'
    BY <1>1, <1>2, <1>3, <1>6, <1>8 DEF FreshInv, CallInv, Preparing
  <2>6. ReturnedInv'
    BY <1>1, <1>2, <1>3, <1>6, <1>8 DEF ReturnedInv
  <2>7. OverlayInv' /\ SessionIsFree'
    BY <1>1, <1>2, <1>8, OverlayQuiet DEF SessionIsFree
  <2>8. ResultIsWhole'
    BY <1>1, <1>2, <1>4, <1>6 DEF ResultIsWhole
  <2> QED  BY <2>3, <2>4, <2>5, <2>6, <2>7, <2>8 DEF SessionInv
<1>9. CASE \E how \in {"completed", "signalled", "failed"} :
              /\ FinalizeEnds(how)
              /\ how = "completed" => Records /\ StepAfter = "none" /\ finalizer.step # "errorUsage"
  <2>1. PICK how \in {"completed", "signalled", "failed"} :
            /\ FinalizeEnds(how)
            /\ how = "completed" => Records /\ StepAfter = "none" /\ finalizer.step # "errorUsage"
    BY <1>9
  <2>2. /\ finalizer' = NoFinalizer /\ Settles(current, how) /\ Release(current)
    BY <1>3, <2>1 DEF FinalizeEnds
  <2>3. /\ completion' \in [SessionTurns -> {"open", "completed", "failed", "signalled"}]
        /\ \A s \in SessionTurns : \/ completion'[s] = completion[s]
                                   \/ s = current /\ completion'[s] = how
    BY <1>1, <1>4, <2>2, SettlesTyped
  <2>4. /\ session' \in [open : BOOLEAN, config : RuntimeConfigs, active : 0 .. MaxSessionTurns]
        /\ session'.active = 0
    BY <1>1, <1>4, <2>2, ReleaseTyped
  <2>5. how = "completed" => recorded'[current].text = visible[current]
    <3>1. how = "completed" => Records /\ finalizer.step \in {"result", "usage"}
      BY <1>2, <1>5, <2>1 DEF StepAfter
    <3> QED  BY <1>6, <3>1
  <2>6. /\ finalizer' \in [turn : 0 .. MaxSessionTurns, stop : {"none", "stop", "error"}, text : 0 .. MaxTexts,
                           step : {"none", "record", "result", "usage", "error", "errorUsage"}]
        /\ finalizer'.step = "none"
    BY <2>2, SessionBounds DEF NoFinalizer
  <2>7. SessionTypeOK'
    BY <1>1, <1>2, <1>6, <2>3, <2>4, <2>6, FaultsAreCounted DEF SessionTypeOK, overlayVars
  <2>8. current >= 0 /\ \A t \in SessionTurns : t > current => t # current
    BY <1>1, <1>4, SessionBounds DEF SessionTypeOK
  <2>9. FreshInv'
    BY <1>1, <1>2, <1>3, <1>6, <2>3, <2>8 DEF FreshInv
  <2>10. CallInv' /\ FinalizerInv'
    BY <1>1, <1>2, <1>3, <2>4, <2>6, <2>8 DEF CallInv, FinalizerInv, Preparing, Running
  <2>11. ReturnedInv'
    BY <1>1, <1>2, <1>3, <1>4, <1>6, <2>3, <2>5 DEF ReturnedInv
  <2>12. OverlayInv' /\ SessionIsFree'
    BY <1>1, <1>2, <2>4, OverlayQuiet DEF SessionIsFree
  <2>13. ResultIsWhole'
    BY <1>1, <1>2, <1>4, <1>6 DEF ResultIsWhole
  <2> QED  BY <2>7, <2>9, <2>10, <2>11, <2>12, <2>13 DEF SessionInv
<1> QED  BY <1>7, <1>8, <1>9

LEMMA TurnFailsKeeps ==
    ASSUME SessionInv, TurnFails
    PROVE  SessionInv'
<1>1. /\ SessionTypeOK /\ FreshInv /\ CallInv /\ FinalizerInv /\ ReturnedInv /\ OverlayInv
      /\ SessionIsFree /\ ResultIsWhole
  BY DEF SessionInv
<1>2. /\ call = "failing" /\ call' = "idle" /\ ended' = [ended EXCEPT ![current] = "failed"]
      /\ SessionFault \/ NoFault
      /\ UNCHANGED <<current, visible, notes, finalizer, agentDone, recorded, overlayVars>>
  BY DEF TurnFails, EndCall
<1>3. current \in SessionTurns /\ ended[current] = "no" /\ session.active \in {0, current}
      /\ finalizer.step = "none" /\ session.active <= current /\ current >= 0
      /\ \A t \in SessionTurns : t > current => t # current
  BY <1>1, <1>2, SessionBounds DEF CallInv, SessionTypeOK, FinalizerInv, Running
<1>4. /\ ended' \in [SessionTurns -> {"no", "returned", "failed", "rejected", "cut"}]
      /\ \A t \in SessionTurns : ended'[t] = ended[t] \/ (t = current /\ ended'[t] = "failed")
  <2>1. ended \in [SessionTurns -> {"no", "returned", "failed", "rejected", "cut"}]
    BY <1>1 DEF SessionTypeOK
  <2> QED  BY <1>2, <1>3, <2>1
<1>5. /\ session' \in [open : BOOLEAN, config : RuntimeConfigs, active : 0 .. MaxSessionTurns]
      /\ finalized' \in SUBSET SessionTurns /\ silenced' \in SUBSET SessionTurns
      /\ completion' \in [SessionTurns -> {"open", "completed", "failed", "signalled"}]
      /\ finalized' = finalized \/ finalized' = finalized \cup {current}
      /\ silenced \subseteq silenced' /\ session'.active \in silenced' \cup {0} /\ session'.active <= current
      /\ \A s \in SessionTurns : \/ completion'[s] = completion[s]
                                 \/ s = current /\ completion'[s] = "failed"
  <2> DEFINE Sessions == [open : BOOLEAN, config : RuntimeConfigs, active : 0 .. MaxSessionTurns]
  <2>0. /\ session \in Sessions /\ finalized \in SUBSET SessionTurns /\ silenced \in SUBSET SessionTurns
        /\ completion \in [SessionTurns -> {"open", "completed", "failed", "signalled"}]
        /\ 0 \in 0 .. MaxSessionTurns /\ 0 <= current
    BY <1>1, <1>3, SessionBounds DEF SessionTypeOK
  <2>1. CASE /\ \E forgotten \in BOOLEAN :
                    session' = [session EXCEPT !.open = ~forgotten,
                                               !.active = IF session.active = current THEN 0 ELSE session.active]
             /\ finalized' = finalized \cup {current} /\ Settles(current, "failed") /\ silenced' = silenced
    <3>1. PICK forgotten \in BOOLEAN :
              session' = [session EXCEPT !.open = ~forgotten,
                                         !.active = IF session.active = current THEN 0 ELSE session.active]
      BY <2>1
    <3>2. session' \in Sessions /\ session'.active = 0
      BY <1>3, <2>0, <3>1
    <3>3. /\ finalized' \in SUBSET SessionTurns /\ silenced' \in SUBSET SessionTurns
          /\ session'.active \in silenced' \cup {0} /\ session'.active <= current
      BY <1>3, <2>0, <2>1, <3>2
    <3>4. /\ completion' \in [SessionTurns -> {"open", "completed", "failed", "signalled"}]
          /\ \A s \in SessionTurns : \/ completion'[s] = completion[s]
                                     \/ s = current /\ completion'[s] = "failed"
      BY <1>1, <1>3, <2>1, SettlesTyped
    <3> QED  BY <2>1, <3>2, <3>3, <3>4
  <2>2. CASE silenced' = silenced \cup {current} /\ UNCHANGED <<session, finalized, completion>>
    <3>1. silenced' \in SUBSET SessionTurns /\ session'.active \in silenced' \cup {0}
      BY <1>3, <2>0, <2>2
    <3> QED  BY <1>3, <2>0, <2>2, <3>1
  <2> QED  BY <2>1, <2>2 DEF TurnFails
<1>6. SessionTypeOK'
  BY <1>1, <1>2, <1>4, <1>5, FaultsAreCounted DEF SessionTypeOK, overlayVars
<1>7. FreshInv'
  BY <1>1, <1>2, <1>3, <1>4, <1>5 DEF FreshInv
<1>8. CallInv' /\ FinalizerInv'
  BY <1>2, <1>3, <1>5 DEF CallInv, FinalizerInv, Preparing
<1>9. ReturnedInv'
  BY <1>1, <1>2, <1>3, <1>4, <1>5 DEF ReturnedInv
<1>10. OverlayInv'
  BY <1>1, <1>2, OverlayQuiet
<1>11. SessionIsFree'
  BY <1>1, <1>4, <1>5 DEF SessionIsFree
<1>12. ResultIsWhole'
  BY <1>1, <1>2, <1>4 DEF ResultIsWhole
<1> QED  BY <1>6, <1>7, <1>8, <1>9, <1>10, <1>11, <1>12 DEF SessionInv

\* Steps outside of a call.
LEMMA ContextStepKeeps ==
    ASSUME SessionInv, ExtensionsReloaded \/ HistoryCleared
    PROVE  SessionInv'
<1>1. /\ SessionTypeOK /\ FreshInv /\ CallInv /\ FinalizerInv /\ ReturnedInv /\ OverlayInv
      /\ SessionIsFree /\ ResultIsWhole
  BY DEF SessionInv
<1>2. UNCHANGED runVars /\ UNCHANGED overlay /\ NoFault
  BY DEF ExtensionsReloaded, HistoryCleared
<1>3. FreshInv' /\ CallInv' /\ FinalizerInv'
  BY <1>1, <1>2 DEF runVars, FreshInv, CallInv, FinalizerInv
<1>4. ReturnedInv' /\ SessionIsFree' /\ ResultIsWhole'
  BY <1>1, <1>2 DEF runVars, ReturnedInv, SessionIsFree, ResultIsWhole
<1>5. SessionTypeOK'
  <2>1. /\ baseline' \in Overlays \cup {0} /\ hooksWired' \in BOOLEAN
        /\ latest' \in Overlays \cup {0} /\ unprompted' \in SUBSET Overlays
    BY <1>1 DEF SessionTypeOK, ExtensionsReloaded, HistoryCleared
  <2> QED  BY <1>1, <1>2, <2>1, FaultsAreCounted DEF SessionTypeOK, runVars
<1>6. OverlayInv'
  BY <1>1, <1>2 DEF OverlayInv, ExtensionsReloaded, HistoryCleared, runVars
<1> QED  BY <1>3, <1>4, <1>5, <1>6 DEF SessionInv

LEMMA SessionsLostKeeps ==
    ASSUME SessionInv, SessionsLost
    PROVE  SessionInv'
<1>1. /\ SessionTypeOK /\ FreshInv /\ CallInv /\ FinalizerInv /\ ReturnedInv /\ OverlayInv
      /\ SessionIsFree /\ ResultIsWhole
  BY DEF SessionInv
<1>2. /\ call' = "idle" /\ session' = Closed /\ notes' = {} /\ finalizer' = NoFinalizer /\ SessionFault
      /\ baseline' = 0 /\ hooksWired' = FALSE /\ overlay' = 0 /\ unprompted' = {}
      /\ ended' = IF call = "idle" THEN ended ELSE [ended EXCEPT ![current] = "cut"]
      /\ UNCHANGED <<current, finalized, completion, visible, agentDone, recorded, silenced, latest>>
  BY DEF SessionsLost
<1>3. current >= 0 /\ (call # "idle" => current \in SessionTurns)
      /\ \A t \in SessionTurns : t > current => t # current
  BY <1>1, SessionBounds DEF CallInv, SessionTypeOK
<1>4. /\ ended' \in [SessionTurns -> {"no", "returned", "failed", "rejected", "cut"}]
      /\ \A t \in SessionTurns : ended'[t] = ended[t] \/ (t = current /\ ended'[t] = "cut")
  <2>1. ended \in [SessionTurns -> {"no", "returned", "failed", "rejected", "cut"}]
    BY <1>1 DEF SessionTypeOK
  <2> QED  BY <1>2, <1>3, <2>1
<1>5. /\ Closed \in [open : BOOLEAN, config : RuntimeConfigs, active : 0 .. MaxSessionTurns]
      /\ Closed.active = 0 /\ NoFinalizer.step = "none"
      /\ NoFinalizer \in [turn : 0 .. MaxSessionTurns, stop : {"none", "stop", "error"}, text : 0 .. MaxTexts,
                          step : {"none", "record", "result", "usage", "error", "errorUsage"}]
  BY SessionBounds DEF Closed, NoFinalizer
<1>6. SessionTypeOK'
  BY <1>1, <1>2, <1>4, <1>5, FaultsAreCounted DEF SessionTypeOK
<1>7. FreshInv'
  BY <1>1, <1>2, <1>3, <1>4 DEF FreshInv
<1>8. CallInv' /\ FinalizerInv' /\ OverlayInv'
  BY <1>2, <1>3, <1>5 DEF CallInv, FinalizerInv, OverlayInv, Preparing
<1>9. ReturnedInv'
  BY <1>1, <1>2, <1>4 DEF ReturnedInv
<1>10. SessionIsFree' /\ ResultIsWhole'
  BY <1>1, <1>2, <1>4, <1>5 DEF SessionIsFree, ResultIsWhole
<1> QED  BY <1>6, <1>7, <1>8, <1>9, <1>10 DEF SessionInv

-----------------------------------------------------------------------------
(* Sessions: the theorems                                                  *)

LEMMA SessionStarts == SessionInit => SessionInv
<1> SUFFICES ASSUME SessionInit PROVE SessionInv
  OBVIOUS
<1>1. SessionTypeOK
  <2>1. /\ session \in [open : BOOLEAN, config : RuntimeConfigs, active : 0 .. MaxSessionTurns]
        /\ finalizer \in [turn : 0 .. MaxSessionTurns, stop : {"none", "stop", "error"}, text : 0 .. MaxTexts,
                          step : {"none", "record", "result", "usage", "error", "errorUsage"}]
    BY SessionBounds DEF SessionInit, Closed, NoFinalizer
  <2>2. recorded \in [SessionTurns -> [text : 0 .. MaxTexts, sent : 0 .. 2]]
    BY SessionBounds DEF SessionInit
  <2>3. /\ visible \in [SessionTurns -> 0 .. MaxTexts] /\ current \in 0 .. MaxSessionTurns
        /\ sessionFaults \in 0 .. MaxSessionFaults
    BY SessionBounds DEF SessionInit
  <2>4. /\ completion \in [SessionTurns -> {"open", "completed", "failed", "signalled"}]
        /\ ended \in [SessionTurns -> {"no", "returned", "failed", "rejected", "cut"}]
    BY DEF SessionInit
  <2> QED  BY <2>1, <2>2, <2>3, <2>4 DEF SessionInit, SessionTypeOK
<1>2. FreshInv /\ CallInv /\ FinalizerInv /\ ReturnedInv /\ OverlayInv
  BY DEF SessionInit, FreshInv, CallInv, FinalizerInv, ReturnedInv, OverlayInv, Closed, NoFinalizer,
         Preparing
<1>3. SessionIsFree /\ ResultIsWhole
  BY DEF SessionInit, SessionIsFree, ResultIsWhole, Closed
<1> QED  BY <1>1, <1>2, <1>3 DEF SessionInv

LEMMA SessionKept == SessionInv /\ [SessionNext]_sessionVars => SessionInv'
<1> SUFFICES ASSUME SessionInv, [SessionNext]_sessionVars PROVE SessionInv'
  OBVIOUS
<1>1. CASE UNCHANGED sessionVars
  BY <1>1 DEF sessionVars, runVars, overlayVars, SessionInv, SessionTypeOK, FreshInv, CallInv,
              FinalizerInv, ReturnedInv, OverlayInv, SessionIsFree, ResultIsWhole
<1>2. CASE \E c \in RuntimeConfigs, fallback \in BOOLEAN : BeginTurn(c, fallback)
  BY <1>2, BeginTurnKeeps
<1>3. CASE FallbackNoted \/ PromptReported \/ \E text \in Overlays \cup {0} : Inject(text)
  BY <1>3, FallbackNotedKeeps, PromptReportedKeeps, InjectKeeps
<1>4. CASE Says \/ \E t \in SessionTurns : NoteAnswered(t)
  BY <1>4, SaysKeeps, NoteAnsweredKeeps
<1>5. CASE \E stop \in {"stop", "error"} : AgentEnds(stop)
  BY <1>5, AgentEndsKeeps
<1>6. CASE PromptReturns \/ TimerFinalizes \/ Completes \/ FinalizeAnswered \/ TurnFails
  BY <1>6, PromptReturnsKeeps, TimerFinalizesKeeps, CompletesKeeps, FinalizeAnsweredKeeps, TurnFailsKeeps
<1>7. CASE ExtensionsReloaded \/ HistoryCleared \/ SessionsLost
  BY <1>7, ContextStepKeeps, SessionsLostKeeps
<1> QED  BY <1>1, <1>2, <1>3, <1>4, <1>5, <1>6, <1>7 DEF SessionNext

\* The session, its turns, their finalisation and the instructions keep their types.
THEOREM SessionTypesHold == SessionSpec => []SessionTypeOK
<1>1. SessionInv => SessionTypeOK
  BY DEF SessionInv
<1> QED  BY <1>1, SessionStarts, SessionKept, PTL DEF SessionSpec

\* The safety part of SessionIsSound: an idle session is free unless a failure could not be
\* posted, a result is sent once and whole, and the instructions left out of a prompt are
\* those last put into one, but for the exceptions ChangesAreInjected names.
THEOREM SessionsStaySound ==
    SessionSpec => [](SessionIsFree /\ ResultIsWhole /\ ChangesAreInjected)
<1>1. SessionInv => SessionIsFree /\ ResultIsWhole /\ ChangesAreInjected
  BY DEF SessionInv, OverlayInv, ChangesAreInjected
<1> QED  BY <1>1, SessionStarts, SessionKept, PTL DEF SessionSpec

-----------------------------------------------------------------------------
(* Runs of a command                                                       *)

ToldOnce ==
    /\ answers \in {0, 1}
    /\ answers = 0 => answer = NoAnswer
    /\ answers = 1 => answer \in Answers

\* What is kept is what was read, until the limit; nobody writes before the shell runs.
OutputInv ==
    /\ output.kept <= output.read /\ output.read <= output.written
    /\ limited \/ output.kept = output.read
    /\ shell \in {"absent", "failed"} => output.written = 0 /\ ~holder

\* Nothing cuts the pipes of a tool: the close of its run is the end of its output.
ToolInv ==
    kind = "tool" =>
        /\ pipes = "open"
        /\ HasResult => /\ ~holder /\ timer # "on" /\ output.read = output.written
                        /\ answer.limited = limited

ShellInv ==
    /\ HasResult => shell \in Ended \cup {"failed"}
    /\ Passed => shell = "zero"

CommandInv == CommandTypeOK /\ ToldOnce /\ OutputInv /\ ToolInv /\ ShellInv

LEMMA CommandInvInit == CommandsAssumption /\ CommandsInit => CommandInv
  <1> SUFFICES ASSUME CommandsAssumption, CommandsInit PROVE CommandInv
    OBVIOUS
  <1>1. 0 \in 0..MaxOutput
    BY DEF CommandsAssumption
  <1>2. output \in [written : 0..MaxOutput, read : 0..MaxOutput, kept : 0..MaxOutput]
    BY <1>1 DEF CommandsInit
  <1>3. /\ output.written = 0 /\ output.read = 0 /\ output.kept = 0
        /\ answers = 0 /\ answer = NoAnswer /\ ~HasResult
    BY DEF CommandsInit, HasResult
  <1>4. CommandTypeOK
    <2>1. /\ shell = "absent" /\ pipes = "open" /\ timer = "off" /\ kind \in {"node", "tool"}
          /\ holder = FALSE /\ signalled = FALSE /\ limited = FALSE
      BY DEF CommandsInit
    <2>2. {holder, signalled, limited} \subseteq BOOLEAN
      BY <2>1
    <2>3. answers \in 0..2 /\ answer \in {NoAnswer} \cup Answers
      BY <1>3
    <2> QED BY <2>1, <2>2, <2>3, <1>2 DEF CommandTypeOK
  <1> QED BY <1>3, <1>4 DEF CommandsInit, CommandInv, ToldOnce, OutputInv, ToolInv, ShellInv, Passed

LEMMA OutputIsTyped ==
  ASSUME CommandTypeOK
  PROVE  /\ output.written \in 0..MaxOutput /\ output.read \in 0..MaxOutput
         /\ output.kept \in 0..MaxOutput
         /\ output = [written |-> output.written, read |-> output.read, kept |-> output.kept]
  BY DEF CommandTypeOK

LEMMA WriteOutputInv ==
  ASSUME CommandsAssumption, CommandInv, WriteOutput
  PROVE  CommandInv'
  <1> DEFINE w == output.written  r == output.read  k == output.kept
  <1>1. /\ w \in 0..MaxOutput /\ r \in 0..MaxOutput /\ k \in 0..MaxOutput
        /\ output = [written |-> w, read |-> r, kept |-> k]
    BY OutputIsTyped DEF CommandInv
  <1>2. output' = [written |-> w + 1, read |-> r, kept |-> k] /\ w < MaxOutput
    BY <1>1 DEF WriteOutput
  <1>3. output' \in [written : 0..MaxOutput, read : 0..MaxOutput, kept : 0..MaxOutput]
    BY <1>1, <1>2 DEF CommandsAssumption
  <1>4. output'.written = w + 1 /\ output'.read = r /\ output'.kept = k
    BY <1>2
  <1>5. UNCHANGED <<kind, shell, holder, signalled, pipes, timer, limited, answers, answer>>
    BY DEF WriteOutput
  <1>6. shell = "running" \/ holder
    BY DEF WriteOutput
  <1>7. CommandTypeOK' /\ ToldOnce'
    BY <1>3, <1>5 DEF CommandInv, CommandTypeOK, ToldOnce
  <1>8. OutputInv'
    BY <1>1, <1>4, <1>5, <1>6 DEF CommandInv, OutputInv
  <1>9. ~HasResult \/ kind # "tool"
    BY <1>6 DEF CommandInv, ToolInv, ShellInv, Ended
  <1>10. ToolInv' /\ ShellInv'
    BY <1>5, <1>9 DEF CommandInv, ToolInv, ShellInv, HasResult, Passed
  <1> QED BY <1>7, <1>8, <1>10 DEF CommandInv

LEMMA ReadOutputInv ==
  ASSUME CommandsAssumption, CommandInv, ReadOutput
  PROVE  CommandInv'
  <1> DEFINE w == output.written  r == output.read  k == output.kept
             full == k = CaptureLimit
             kept == IF full THEN k ELSE k + 1
  <1>1. /\ w \in 0..MaxOutput /\ r \in 0..MaxOutput /\ k \in 0..MaxOutput
        /\ output = [written |-> w, read |-> r, kept |-> k]
    BY OutputIsTyped DEF CommandInv
  <1>2. output' = [written |-> w, read |-> r + 1, kept |-> kept] /\ r < w
    BY <1>1 DEF ReadOutput
  <1>3. k <= r /\ (limited \/ k = r)
    BY DEF CommandInv, OutputInv
  <1>4. r + 1 \in 0..MaxOutput /\ kept \in 0..MaxOutput /\ kept <= r + 1
    BY <1>1, <1>2, <1>3 DEF CommandsAssumption
  <1> HIDE DEF kept
  <1>5. output' \in [written : 0..MaxOutput, read : 0..MaxOutput, kept : 0..MaxOutput]
    BY <1>1, <1>2, <1>4
  <1>6. output'.written = w /\ output'.read = r + 1 /\ output'.kept = kept
    BY <1>2
  <1>7. /\ limited' = (limited \/ full)
        /\ signalled' = (signalled \/ (full /\ ~limited /\ shell = "running"))
        /\ pipes' = IF full /\ kind = "node" THEN "cut" ELSE pipes
        /\ UNCHANGED <<kind, shell, holder, timer, answers, answer>>
    BY DEF ReadOutput
  <1>8. limited' \in BOOLEAN /\ signalled' \in BOOLEAN
    BY <1>7 DEF CommandInv, CommandTypeOK
  <1>9. CommandTypeOK' /\ ToldOnce'
    BY <1>5, <1>7, <1>8 DEF CommandInv, CommandTypeOK, ToldOnce
  <1>10. OutputInv'
    <2>1. limited' \/ kept = r + 1
      BY <1>1, <1>3, <1>7 DEF kept
    <2> QED BY <2>1, <1>1, <1>2, <1>4, <1>6, <1>7 DEF CommandInv, OutputInv
  <1>11. ~HasResult \/ kind # "tool"
    BY <1>1, <1>2 DEF CommandInv, ToolInv
  <1>12. ToolInv' /\ ShellInv'
    BY <1>7, <1>11 DEF CommandInv, ToolInv, ShellInv, HasResult, Passed
  <1> QED BY <1>9, <1>10, <1>12 DEF CommandInv

\* The steps that neither write, read nor answer.
LEMMA QuietStepInv ==
  ASSUME CommandInv,
         \/ StartDescendant \/ DescendantEnds \/ \E how \in Ended : ShellEnds(how)
         \/ \E spawned \in BOOLEAN : StartRun(spawned)
         \/ TimeOut
  PROVE  CommandInv'
  <1>1. UNCHANGED <<kind, output, limited, answers, answer>>
    BY DEF StartDescendant, DescendantEnds, ShellEnds, StartRun, TimeOut
  <1>2. /\ shell' \in {"absent", "failed", "running"} \cup Ended /\ holder' \in BOOLEAN
        /\ signalled' \in BOOLEAN /\ pipes' \in {"open", "cut"} /\ timer' \in {"off", "on", "fired"}
    BY DEF CommandInv, CommandTypeOK, StartDescendant, DescendantEnds, ShellEnds, StartRun, TimeOut
  <1>3. CommandTypeOK' /\ ToldOnce'
    BY <1>1, <1>2 DEF CommandInv, CommandTypeOK, ToldOnce
  <1>4. OutputInv'
    <2>1. shell' \in {"absent", "failed"} => shell \in {"absent", "failed"} /\ holder' = holder
      BY DEF CommandInv, OutputInv, StartDescendant, DescendantEnds, ShellEnds, StartRun, TimeOut, Ended
    <2> QED BY <2>1, <1>1 DEF CommandInv, OutputInv
  <1>5. /\ kind = "tool" => pipes' = pipes
        /\ HasResult => /\ shell' = shell /\ (~holder => ~holder')
                        /\ timer # "on" => timer' # "on"
    BY DEF CommandInv, ShellInv, Ended, StartDescendant, DescendantEnds, ShellEnds, StartRun, TimeOut
  <1>6. ToolInv' /\ ShellInv'
    BY <1>1, <1>5 DEF CommandInv, ToolInv, ShellInv, HasResult, Passed
  <1> QED BY <1>3, <1>4, <1>6 DEF CommandInv

\* The answers that no run gives.
LEMMA ShortAnswerInv ==
  ASSUME CommandsAssumption, CommandInv, RefuseRun \/ StartAborted \/ StopRun
  PROVE  CommandInv'
  <1> DEFINE missing == Answer("missing", 1, 0, FALSE, FALSE)
             stopped == Answer("stopped", 130, 0, FALSE, FALSE)
  <1>1. /\ missing \in Answers /\ missing.what = "missing"
        /\ stopped \in Answers /\ stopped.what = "stopped"
    <2>1. 0 \in 0..MaxOutput
      BY DEF CommandsAssumption
    <2> QED BY <2>1 DEF Answer, Answers
  <1> HIDE DEF missing, stopped
  <1>2. ~Told /\ (Give(missing) \/ Give(stopped))
    BY DEF RefuseRun, StartAborted, StopRun, missing, stopped
  <1>3. answers' = 1 /\ answer' \in {missing, stopped}
    <2>1. answers = 0
      BY <1>2 DEF Told, CommandInv, ToldOnce
    <2> QED BY <1>2, <2>1 DEF Give, Told
  <1>4. /\ UNCHANGED <<kind, holder, pipes, output, limited>>
        /\ signalled' \in BOOLEAN /\ timer' \in {"off", "on", "fired"}
        /\ shell' = shell \/ shell' = "running"
    BY DEF CommandInv, CommandTypeOK, RefuseRun, StartAborted, StopRun, ProcessStays
  <1>5. CommandTypeOK' /\ ToldOnce'
    BY <1>1, <1>3, <1>4 DEF CommandInv, CommandTypeOK, ToldOnce
  <1>6. OutputInv'
    BY <1>4 DEF CommandInv, OutputInv
  <1>7. ~HasResult'
    BY <1>1, <1>3 DEF HasResult
  <1>8. ToolInv' /\ ShellInv'
    BY <1>4, <1>7 DEF CommandInv, ToolInv, ShellInv, Passed
  <1> QED BY <1>5, <1>6, <1>8 DEF CommandInv

LEMMA FinishInv ==
  ASSUME CommandsAssumption, CommandInv, Finish
  PROVE  CommandInv'
  <1> DEFINE out == kind = "tool" /\ timer = "fired"
             cut == kind = "tool" /\ limited
             a == Answer("result", ExitCode, Shown, out, cut)
  <1>1. /\ output.kept \in 0..MaxOutput /\ output.read \in 0..MaxOutput
        /\ output.written \in 0..MaxOutput
    BY OutputIsTyped DEF CommandInv
  <1>2. Shown \in 0..MaxOutput /\ ExitCode \in {0, 1, 130}
    BY <1>1 DEF Shown, ExitCode, CommandsAssumption
  <1>3. /\ a \in Answers /\ a.what = "result" /\ a.code = ExitCode /\ a.limited = cut
    BY <1>2 DEF Answer, Answers
  <1>4. /\ UNCHANGED <<kind, shell, holder, signalled, output, pipes, limited>>
        /\ timer' \in {"off", "fired"} /\ Over
    BY DEF Finish, ProcessStays, CommandInv, CommandTypeOK
  <1>5. \/ answers > 0 /\ UNCHANGED <<answers, answer>>
        \/ answers = 0 /\ answers' = 1 /\ answer' = a
    BY DEF Finish, Give, Told, CommandInv, ToldOnce
  <1> HIDE DEF a
  <1>6. CommandTypeOK' /\ ToldOnce'
    BY <1>3, <1>4, <1>5 DEF CommandInv, CommandTypeOK, ToldOnce
  <1>7. OutputInv'
    BY <1>4 DEF CommandInv, OutputInv
  <1>8. CASE answers > 0
    <2>1. (HasResult' <=> HasResult) /\ (Passed' <=> Passed) /\ answer' = answer
      BY <1>5, <1>8 DEF HasResult, Passed
    <2>2. ToolInv' /\ ShellInv'
      BY <2>1, <1>4 DEF CommandInv, ToolInv, ShellInv
    <2> QED BY <2>2, <1>6, <1>7 DEF CommandInv
  <1>9. CASE answers = 0
    <2>1. answer'.limited = cut /\ answer'.code = ExitCode
      BY <1>3, <1>5, <1>9
    <2>2. shell \in Ended \cup {"failed"}
      BY <1>4 DEF Over
    <2>3. ExitCode = 0 => shell = "zero"
      BY DEF ExitCode
    <2>4. ShellInv'
      BY <2>1, <2>2, <2>3, <1>4 DEF ShellInv, Passed
    <2>5. kind = "tool" => pipes = "open" /\ ~holder /\ output.read = output.written
      BY <1>1, <1>4 DEF Over, CommandInv, ToolInv, OutputInv
    <2>6. ToolInv'
      BY <2>1, <2>5, <1>4 DEF ToolInv, CommandInv, CommandTypeOK
    <2> QED BY <2>4, <2>6, <1>6, <1>7 DEF CommandInv
  <1> QED BY <1>5, <1>8, <1>9

LEMMA CommandInvNext ==
  ASSUME CommandsAssumption, CommandInv, [CommandsNext]_commandVars
  PROVE  CommandInv'
  <1>1. CASE UNCHANGED commandVars
    BY <1>1 DEF commandVars, CommandInv, CommandTypeOK, ToldOnce, OutputInv, ToolInv, ShellInv,
                HasResult, Passed
  <1>2. CASE CommandsNext
    BY <1>2, WriteOutputInv, ReadOutputInv, QuietStepInv, ShortAnswerInv, FinishInv DEF CommandsNext
  <1> QED BY <1>1, <1>2

LEMMA CommandInvImplies == ASSUME CommandInv PROVE AnswerIsTrue /\ ToolResultIsWhole
  <1>1. AnswerIsTrue
    BY DEF CommandInv, ToldOnce, ShellInv, AnswerIsTrue
  <1>2. ToolResultIsWhole
    <2>1. SUFFICES ASSUME HasResult, kind = "tool"
                   PROVE  /\ ~holder /\ timer # "on"
                          /\ ~answer.limited => output.kept = output.written
      BY DEF ToolResultIsWhole, Passed
    <2> QED BY <2>1 DEF CommandInv, ToolInv, OutputInv
  <1> QED BY <1>1, <1>2

LEMMA CommandsKeepInv == CommandsInit /\ [][CommandsNext]_commandVars => []CommandInv
  <1>1. CommandsInit => CommandInv
    BY CommandInvInit, CommandsAssumption
  <1>2. CommandInv /\ [CommandsNext]_commandVars => CommandInv'
    BY CommandInvNext, CommandsAssumption
  <1> QED BY <1>1, <1>2, PTL

\* The variables of a run of a command keep their types.
THEOREM CommandTypesHold == CommandsSpec => []CommandTypeOK
  <1>1. CommandInv => CommandTypeOK
    BY DEF CommandInv
  <1> QED BY <1>1, CommandsKeepInv, PTL DEF CommandsSpec

\* The caller of a command is told once and what happened: of a result only when the shell is
\* gone, of success only when it exited with 0, and a tool's answer has seen all its output
\* unless it says that the time ran out or the output was cut.
THEOREM CommandAnswersAreTrue == CommandsSpec => [](AnswerIsTrue /\ ToolResultIsWhole)
  <1>1. CommandInv => AnswerIsTrue /\ ToolResultIsWhole
    BY CommandInvImplies
  <1> QED BY <1>1, CommandsKeepInv, PTL DEF CommandsSpec

-----------------------------------------------------------------------------
(* The watcher of a folder                                                 *)

FiringType == [file : WatchedFiles, version : 1..MaxVersion, left : SUBSET Wakeable]

WatchInv == WatchTypeOK /\ WokenOnce /\ fires \subseteq FiringType

LEMMA WatchBounds ==
  /\ MaxVersion \in Nat /\ MaxTouches \in Nat /\ MaxRescans \in Nat /\ MaxFireFaults \in Nat
  /\ 0 \in FileVersions /\ 1..MaxVersion \subseteq FileVersions
  BY WatchAssumption DEF WatchAssumption, FileVersions

LEMMA FiringsAreTyped ==
  ASSUME NEW F, F \subseteq FiringType
  PROVE  \A x \in F : <<x.file, x.version>> \in Arrivals /\ x.left \subseteq Wakeable
  BY DEF FiringType, Arrivals

LEMMA WatchInvInit == WatchInit => WatchInv
  <1> SUFFICES ASSUME WatchInit PROVE WatchInv
    OBVIOUS
  <1>1. Nothing \in [WatchedFiles -> FileVersions]
    BY WatchBounds DEF Nothing
  <1>2. /\ woken \in [Arrivals -> [Wakeable -> 0 .. 2]]
        /\ \A a \in Arrivals, s \in Wakeable : woken[a][s] = 0
    BY DEF WatchInit
  <1>3. WatchTypeOK
    <2>1. /\ hints = {} /\ settling = {} /\ fires = {} /\ unseen = {} /\ watching = FALSE
          /\ touches = 0 /\ rescans = 0 /\ fireFaults = 0
          /\ onDisk = Nothing /\ written = Nothing /\ lastArrival = Nothing
      BY DEF WatchInit
    <2>2. touches \in 0 .. MaxTouches /\ rescans \in 0 .. MaxRescans /\ fireFaults \in 0 .. MaxFireFaults
      BY <2>1, WatchBounds
    <2>3. hints \in SUBSET WatchedFiles /\ settling \in SUBSET WatchedFiles
      BY <2>1
    <2> QED BY <1>1, <1>2, <2>1, <2>2, <2>3 DEF WatchTypeOK
  <1> QED BY <1>2, <1>3 DEF WatchInv, WokenOnce, WatchInit

LEMMA FolderStepInv ==
  ASSUME WatchInv, NEW f \in WatchedFiles, WriteFile(f) \/ RemoveFile(f) \/ TouchFile(f)
  PROVE  WatchInv'
  <1> USE WatchBounds
  <1>1. /\ onDisk \in [WatchedFiles -> FileVersions] /\ written \in [WatchedFiles -> FileVersions]
        /\ hints \subseteq WatchedFiles /\ unseen \subseteq Arrivals /\ touches \in 0 .. MaxTouches
    BY DEF WatchInv, WatchTypeOK
  <1>2. UNCHANGED <<watching, settling, lastArrival, fires, woken, rescans, fireFaults>>
    BY DEF WriteFile, RemoveFile, TouchFile
  <1>3. hints' \subseteq WatchedFiles
    BY <1>1 DEF WriteFile, RemoveFile, TouchFile, Hint
  <1>4. /\ onDisk' \in [WatchedFiles -> FileVersions] /\ written' \in [WatchedFiles -> FileVersions]
        /\ unseen' \subseteq Arrivals /\ touches' \in 0 .. MaxTouches
    <2>1. CASE WriteFile(f)
      <3>1. written[f] + 1 \in 1..MaxVersion
        BY <1>1, <2>1 DEF WriteFile, FileVersions
      <3> QED BY <1>1, <2>1, <3>1 DEF WriteFile, Arrivals
    <2>2. CASE RemoveFile(f)
      BY <1>1, <2>2 DEF RemoveFile
    <2>3. CASE TouchFile(f)
      BY <1>1, <2>3 DEF TouchFile
    <2> QED BY <2>1, <2>2, <2>3
  <1>5. WatchTypeOK'
    BY <1>2, <1>3, <1>4 DEF WatchInv, WatchTypeOK
  <1> QED BY <1>2, <1>5 DEF WatchInv, WokenOnce

LEMMA WatcherStepInv ==
  ASSUME WatchInv,
         \/ \E f \in WatchedFiles : TakeHint(f)
         \/ \E there \in BOOLEAN : ReplaceWatcher(there)
  PROVE  WatchInv'
  <1> USE WatchBounds
  <1>1. /\ hints \subseteq WatchedFiles /\ settling \subseteq WatchedFiles
        /\ unseen \subseteq Arrivals /\ rescans \in 0 .. MaxRescans
        /\ lastArrival \in [WatchedFiles -> FileVersions] /\ watching \in BOOLEAN
    BY DEF WatchInv, WatchTypeOK
  <1>2. UNCHANGED <<onDisk, written, fires, woken, touches, fireFaults>>
    BY DEF TakeHint, ReplaceWatcher
  <1>3. /\ hints' \subseteq WatchedFiles /\ settling' \subseteq WatchedFiles
        /\ unseen' \subseteq Arrivals /\ watching' \in BOOLEAN
        /\ lastArrival' \in [WatchedFiles -> FileVersions]
    BY <1>1 DEF TakeHint, ReplaceWatcher, Unsettled, Nothing
  <1>4. rescans' \in 0 .. MaxRescans
    BY <1>1 DEF TakeHint, ReplaceWatcher
  <1>5. WatchTypeOK'
    BY <1>2, <1>3, <1>4 DEF WatchInv, WatchTypeOK
  <1> QED BY <1>2, <1>5 DEF WatchInv, WokenOnce

LEMMA SettleInv ==
  ASSUME WatchInv, NEW f \in WatchedFiles, Settle(f)
  PROVE  WatchInv'
  <1>1. /\ onDisk[f] \in FileVersions /\ settling \subseteq WatchedFiles
        /\ lastArrival \in [WatchedFiles -> FileVersions] /\ fires \subseteq FiringType
    BY DEF WatchInv, WatchTypeOK
  <1>2. /\ UNCHANGED <<onDisk, written, watching, hints, woken, unseen, touches, rescans, fireFaults>>
        /\ settling' \subseteq WatchedFiles
    BY <1>1 DEF Settle
  <1>3. lastArrival' \in [WatchedFiles -> FileVersions]
    BY <1>1 DEF Settle
  <1>4. fires' \subseteq FiringType
    <2>1. CASE IsArrival(f)
      <3>1. onDisk[f] \in 1..MaxVersion
        BY <1>1, <2>1, WatchBounds DEF IsArrival, FileVersions
      <3>2. Firing(f, onDisk[f], Wakeable) \in FiringType
        BY <3>1 DEF Firing, FiringType
      <3> QED BY <1>1, <2>1, <3>2 DEF Settle
    <2>2. CASE ~IsArrival(f)
      BY <1>1, <2>2 DEF Settle
    <2> QED BY <2>1, <2>2
  <1>5. WatchTypeOK'
    BY <1>2, <1>3, <1>4, FiringsAreTyped DEF WatchInv, WatchTypeOK
  <1> QED BY <1>2, <1>4, <1>5 DEF WatchInv, WokenOnce

LEMMA WakeSubscriberInv ==
  ASSUME WatchInv, NEW x \in fires, NEW s \in Wakeable, WakeSubscriber(x, s)
  PROVE  WatchInv'
  <1> DEFINE a == <<x.file, x.version>>
             y == [x EXCEPT !.left = @ \ {s}]
  <1>1. /\ fires \subseteq FiringType /\ woken \in [Arrivals -> [Wakeable -> 0 .. 2]]
        /\ \A b \in Arrivals, t \in Wakeable : woken[b][t] <= 1
    BY DEF WatchInv, WatchTypeOK, WokenOnce
  <1>2. a \in Arrivals /\ y \in FiringType
    BY <1>1 DEF FiringType, Arrivals
  <1>3. /\ UNCHANGED <<onDisk, written, watching, hints, settling, lastArrival, unseen, touches,
                       rescans, fireFaults>>
        /\ fires' \subseteq fires \cup {y}
        /\ woken' = [woken EXCEPT ![a][s] = Fired(@)]
    BY DEF WakeSubscriber
  <1> HIDE DEF a, y
  <1>4. fires' \subseteq FiringType
    BY <1>1, <1>2, <1>3
  <1>5. Fired(woken[a][s]) \in 0..2 /\ Fired(woken[a][s]) <= 1
    BY <1>1, <1>2 DEF Fired
  <1>6. /\ woken' \in [Arrivals -> [Wakeable -> 0 .. 2]]
        /\ \A b \in Arrivals, t \in Wakeable :
              woken'[b][t] = IF b = a /\ t = s THEN Fired(woken[a][s]) ELSE woken[b][t]
    BY <1>1, <1>2, <1>3, <1>5
  <1>7. WatchTypeOK'
    BY <1>3, <1>4, <1>6, FiringsAreTyped DEF WatchInv, WatchTypeOK
  <1>8. WokenOnce'
    BY <1>1, <1>5, <1>6 DEF WokenOnce
  <1> QED BY <1>4, <1>7, <1>8 DEF WatchInv

LEMMA FiringCutInv ==
  ASSUME WatchInv, NEW x \in fires, FiringCut(x)
  PROVE  WatchInv'
  <1>1. fires \subseteq FiringType /\ fireFaults \in 0 .. MaxFireFaults /\ unseen \subseteq Arrivals
    BY DEF WatchInv, WatchTypeOK
  <1>2. /\ UNCHANGED <<onDisk, written, watching, hints, settling, lastArrival, woken, touches,
                       rescans>>
        /\ fires' \subseteq FiringType /\ unseen' \subseteq Arrivals
    BY <1>1, FiringsAreTyped DEF FiringCut
  <1>3. fireFaults' \in 0 .. MaxFireFaults
    BY <1>1, WatchBounds DEF FiringCut
  <1>4. WatchTypeOK'
    BY <1>2, <1>3, FiringsAreTyped DEF WatchInv, WatchTypeOK
  <1> QED BY <1>2, <1>4 DEF WatchInv, WokenOnce

LEMMA WatchInvNext == ASSUME WatchInv, [WatchNext]_watchVars PROVE WatchInv'
  <1>1. CASE UNCHANGED watchVars
    BY <1>1 DEF watchVars, WatchInv, WatchTypeOK, WokenOnce
  <1>2. CASE WatchNext
    BY <1>2, FolderStepInv, WatcherStepInv, SettleInv, WakeSubscriberInv, FiringCutInv
       DEF WatchNext
  <1> QED BY <1>1, <1>2

LEMMA WatchKeepsInv == WatchInit /\ [][WatchNext]_watchVars => []WatchInv
  BY WatchInvInit, WatchInvNext, PTL

\* The variables of a folder Event source keep their types.
THEOREM WatchTypesHold == WatchSpec => []WatchTypeOK
  <1>1. WatchInv => WatchTypeOK
    BY DEF WatchInv
  <1> QED BY <1>1, WatchKeepsInv, PTL DEF WatchSpec

\* However often a change is notified, the watcher replaced and a firing repeated, a version
\* of a file wakes a subscriber once.
THEOREM VersionsWakeOnce == WatchSpec => []WokenOnce
  <1>1. WatchInv => WokenOnce
    BY DEF WatchInv
  <1> QED BY <1>1, WatchKeepsInv, PTL DEF WatchSpec

-----------------------------------------------------------------------------
(* Extensions and their relays                                             *)

\* While a workspace is attached: the port that is going to be reported is its relay's.
ScanInv ==
    /\ attach.step # "idle" => attach.of \in Folders
    /\ attach.base # NoPort => /\ attach.step = "report" /\ relay[attach.of] = attach.base

\* A request that was forwarded by a right entry goes to the relay of its workspace.
RequestInv == request.sure => request.of \in Folders /\ request.port \in Ports
                              /\ relay[request.of] = request.port

ExtInv == ExtTypeOK /\ EntriesAreTrue /\ ScanInv /\ RequestInv

LEMMA ExtBoundsAreNat ==
  /\ MaxCodeEdits \in Nat /\ MaxExtScans \in Nat /\ MaxExtFaults \in Nat
  /\ NoPort \notin Ports /\ "absent" \notin Ports
  BY PortsAssumption DEF PortsAssumption

LEMMA ExtInvInit == ExtInit => ExtInv
  <1> SUFFICES ASSUME ExtInit PROVE ExtInv
    OBVIOUS
  <1>1. /\ code \in [Folders -> Kinds] /\ imported \in [Folders -> Kinds \cup {"unread"}]
        /\ loaded \in [Folders -> Kinds] /\ relay \in [Folders -> Ports \cup {NoPort}]
        /\ entry \in [Folders -> Ports \cup {NoPort, "absent"}]
    BY PortsAssumption DEF PortsAssumption, ExtInit, Kinds
  <1>2. /\ codeEdits \in 0 .. MaxCodeEdits /\ extScans \in 0 .. MaxExtScans
        /\ extFaults \in 0 .. MaxExtFaults
    BY ExtBoundsAreNat DEF ExtInit
  <1>3. /\ due \in SUBSET Folders /\ reconnecting \in BOOLEAN
        /\ outdated \in SUBSET Folders /\ unreported \in SUBSET Folders
    BY DEF ExtInit
  <1>4. /\ attach = [of |-> NoFolder, step |-> "idle", base |-> NoPort]
        /\ request = [of |-> NoFolder, port |-> NoPort, sure |-> FALSE]
    BY DEF ExtInit, NotAttaching, NoRequest
  <1>5. ExtTypeOK
    BY <1>1, <1>2, <1>3, <1>4 DEF ExtTypeOK
  <1>6. \A w \in Folders : relay[w] = NoPort /\ entry[w] \notin Ports
    BY ExtBoundsAreNat DEF ExtInit
  <1> QED BY <1>4, <1>5, <1>6 DEF ExtInv, EntriesAreTrue, ScanInv, RequestInv

\* What a count that is bounded stays.
LEMMA ExtFaultTyped == ASSUME ExtTypeOK, ExtFault \/ UNCHANGED extFaults
                       PROVE  extFaults' \in 0 .. MaxExtFaults
  BY ExtBoundsAreNat DEF ExtTypeOK, ExtFault

LEMMA EditCodeInv ==
  ASSUME ExtInv, NEW w \in Folders, NEW k \in Kinds, EditCode(w, k)
  PROVE  ExtInv'
  <1>1. /\ UNCHANGED <<extBridgeVars, entry, request, outdated, unreported, extScans, extFaults>>
        /\ code' = [code EXCEPT ![w] = k] /\ codeEdits < MaxCodeEdits /\ codeEdits' = codeEdits + 1
    BY DEF EditCode
  <1>2. code' \in [Folders -> Kinds] /\ codeEdits' \in 0 .. MaxCodeEdits
    BY <1>1, ExtBoundsAreNat DEF ExtInv, ExtTypeOK
  <1>3. ExtTypeOK'
    BY <1>1, <1>2 DEF ExtInv, ExtTypeOK, extBridgeVars
  <1> QED BY <1>1, <1>3 DEF ExtInv, EntriesAreTrue, ScanInv, RequestInv, extBridgeVars

LEMMA BeginScanInv == ASSUME ExtInv, BeginScan PROVE ExtInv'
  <1>1. /\ UNCHANGED <<imported, loaded, relay, attach, reconnecting, code, entry, request,
                       outdated, unreported, codeEdits, extFaults>>
        /\ due' = Folders /\ extScans < MaxExtScans /\ extScans' = extScans + 1
    BY DEF BeginScan
  <1>2. extScans' \in 0 .. MaxExtScans
    BY <1>1, ExtBoundsAreNat DEF ExtInv, ExtTypeOK
  <1>3. ExtTypeOK'
    BY <1>1, <1>2 DEF ExtInv, ExtTypeOK
  <1> QED BY <1>1, <1>3 DEF ExtInv, EntriesAreTrue, ScanInv, RequestInv

LEMMA LoadExtensionInv ==
  ASSUME ExtInv, NEW w \in Folders, LoadExtension(w)
  PROVE  ExtInv'
  <1> DEFINE step == IF Found(w) \in {"plain", "handlers"} THEN "agents" ELSE "relay"
  <1>1. /\ code \in [Folders -> Kinds] /\ imported \in [Folders -> Kinds \cup {"unread"}]
        /\ loaded \in [Folders -> Kinds] /\ due \in SUBSET Folders
    BY DEF ExtInv, ExtTypeOK
  <1>2. Found(w) \in Kinds
    BY <1>1 DEF Found, Kinds
  <1>3. /\ UNCHANGED <<relay, reconnecting, code, entry, request, outdated, unreported, extFaults>>
        /\ UNCHANGED <<codeEdits, extScans>>
        /\ attach' = [of |-> w, base |-> NoPort, step |-> step]
        /\ due' = due \ {w} /\ loaded' = [loaded EXCEPT ![w] = Found(w)]
        /\ imported' = IF code[w] = "absent" THEN imported ELSE [imported EXCEPT ![w] = Found(w)]
    BY DEF LoadExtension, ExtBounds
  <1>4. /\ imported' \in [Folders -> Kinds \cup {"unread"}] /\ loaded' \in [Folders -> Kinds]
        /\ due' \in SUBSET Folders
    BY <1>1, <1>2, <1>3
  <1>5. /\ attach' \in [of : Folders \cup {NoFolder}, base : Ports \cup {NoPort},
                        step : {"idle", "agents", "relay", "report"}]
        /\ attach'.of = w /\ attach'.base = NoPort
    BY <1>3
  <1>6. ExtTypeOK'
    BY <1>3, <1>4, <1>5 DEF ExtInv, ExtTypeOK
  <1> QED BY <1>3, <1>5, <1>6 DEF ExtInv, EntriesAreTrue, ScanInv, RequestInv

LEMMA RegisterBundledInv == ASSUME ExtInv, RegisterBundled PROVE ExtInv'
  <1>1. /\ UNCHANGED <<imported, loaded, relay, due, reconnecting, code, entry, request, outdated>>
        /\ UNCHANGED <<codeEdits, extScans>> /\ attach.step = "agents"
        /\ attach' \in {[attach EXCEPT !.step = "relay"], NotAttaching}
        /\ unreported' \in {unreported, unreported \cup {attach.of}}
        /\ ExtFault \/ UNCHANGED extFaults
    BY DEF RegisterBundled, ExtBounds, AttachEnds
  <1>2. /\ attach \in [of : Folders \cup {NoFolder}, base : Ports \cup {NoPort},
                       step : {"idle", "agents", "relay", "report"}]
        /\ attach.of \in Folders /\ attach.base = NoPort
    BY <1>1 DEF ExtInv, ExtTypeOK, ScanInv
  <1>3. /\ attach' \in [of : Folders \cup {NoFolder}, base : Ports \cup {NoPort},
                        step : {"idle", "agents", "relay", "report"}]
        /\ attach'.base = NoPort /\ (attach'.step # "idle" => attach'.of \in Folders)
    BY <1>1, <1>2 DEF NotAttaching
  <1>4. unreported' \in SUBSET Folders
    BY <1>1, <1>2 DEF ExtInv, ExtTypeOK
  <1>5. extFaults' \in 0 .. MaxExtFaults
    BY <1>1, ExtFaultTyped DEF ExtInv
  <1>6. ExtTypeOK'
    BY <1>1, <1>3, <1>4, <1>5 DEF ExtInv, ExtTypeOK
  <1> QED BY <1>1, <1>3, <1>6 DEF ExtInv, EntriesAreTrue, ScanInv, RequestInv

LEMMA StartRelayInv == ASSUME ExtInv, StartRelay PROVE ExtInv'
  <1> DEFINE w == attach.of
  <1>1. /\ UNCHANGED <<imported, loaded, due, reconnecting, code, entry, unreported>>
        /\ UNCHANGED <<codeEdits, extScans>> /\ attach.step = "relay"
        /\ ExtFault \/ UNCHANGED extFaults
    BY DEF StartRelay, ExtBounds
  <1>2. /\ attach \in [of : Folders \cup {NoFolder}, base : Ports \cup {NoPort},
                       step : {"idle", "agents", "relay", "report"}]
        /\ w \in Folders /\ attach.base = NoPort
        /\ relay \in [Folders -> Ports \cup {NoPort}] /\ outdated \in SUBSET Folders
        /\ request \in [of : Folders \cup {NoFolder}, port : Ports \cup {NoPort}, sure : BOOLEAN]
    BY <1>1 DEF ExtInv, ExtTypeOK, ScanInv
  <1>3. extFaults' \in 0 .. MaxExtFaults
    BY <1>1, ExtFaultTyped DEF ExtInv
  <1>4. CASE HasHandlers(w)
    <2>1. PICK p \in Ports \cup {NoPort} :
             /\ relay' = [relay EXCEPT ![w] = p]
             /\ attach' = [attach EXCEPT !.step = "report", !.base = p]
             /\ p # NoPort => p \in FreePorts(w)
      <3>1. \/ \E p \in ListenOn(w) : /\ relay' = [relay EXCEPT ![w] = p]
                                      /\ attach' = [attach EXCEPT !.step = "report", !.base = p]
            \/ /\ relay' = [relay EXCEPT ![w] = NoPort]
               /\ attach' = [attach EXCEPT !.step = "report"]
        BY <1>4 DEF StartRelay
      <3>2. ListenOn(w) \subseteq FreePorts(w) /\ FreePorts(w) \subseteq Ports
        BY DEF ListenOn, FreePorts
      <3>3. [attach EXCEPT !.step = "report"] = [attach EXCEPT !.step = "report", !.base = NoPort]
        BY <1>2
      <3> QED BY <3>1, <3>2, <3>3
    <2>2. /\ outdated' = outdated \cup {w}
          /\ request' = IF request.of = w THEN [request EXCEPT !.sure = FALSE] ELSE request
      BY <1>4 DEF StartRelay
    <2>3. /\ relay' \in [Folders -> Ports \cup {NoPort}] /\ relay'[w] = p
          /\ \A v \in Folders \ {w} : relay'[v] = relay[v]
          /\ attach' \in [of : Folders \cup {NoFolder}, base : Ports \cup {NoPort},
                          step : {"idle", "agents", "relay", "report"}]
          /\ attach'.of = w /\ attach'.base = p /\ attach'.step = "report"
      BY <1>2, <2>1
    <2>4. /\ request' \in [of : Folders \cup {NoFolder}, port : Ports \cup {NoPort}, sure : BOOLEAN]
          /\ request'.sure => request' = request /\ request.of # w
      BY <1>2, <2>2
    <2>5. ExtTypeOK'
      BY <1>1, <1>2, <1>3, <2>2, <2>3, <2>4 DEF ExtInv, ExtTypeOK
    <2>6. \A v \in Folders \ {w} : p # NoPort => relay[v] # p
      BY <2>1 DEF FreePorts
    <2>7. EntriesAreTrue'
      <3>1. \A u, v \in Folders : u # v /\ relay'[u] # NoPort => relay'[u] # relay'[v]
        BY <1>2, <2>3, <2>6 DEF ExtInv, EntriesAreTrue
      <3>2. \A v \in Folders \ outdated' : entry'[v] \in Ports => relay'[v] = entry'[v]
        BY <1>1, <2>2, <2>3 DEF ExtInv, EntriesAreTrue
      <3> QED BY <3>1, <3>2 DEF EntriesAreTrue
    <2>8. ScanInv' /\ RequestInv'
      BY <1>2, <2>3, <2>4 DEF ExtInv, ScanInv, RequestInv
    <2> QED BY <2>5, <2>7, <2>8 DEF ExtInv
  <1>5. CASE ~HasHandlers(w)
    <2>1. attach' = [attach EXCEPT !.step = "report"] /\ UNCHANGED <<relay, outdated, request>>
      BY <1>5 DEF StartRelay
    <2>2. /\ attach' \in [of : Folders \cup {NoFolder}, base : Ports \cup {NoPort},
                          step : {"idle", "agents", "relay", "report"}]
          /\ attach'.of = w /\ attach'.base = NoPort
      BY <1>2, <2>1
    <2>3. ExtTypeOK'
      BY <1>1, <1>3, <2>1, <2>2 DEF ExtInv, ExtTypeOK
    <2> QED BY <1>1, <1>2, <2>1, <2>2, <2>3 DEF ExtInv, EntriesAreTrue, ScanInv, RequestInv
  <1> QED BY <1>4, <1>5

LEMMA ReportExtensionsInv == ASSUME ExtInv, ReportExtensions PROVE ExtInv'
  <1> DEFINE w == attach.of
             p == IF HasHandlers(w) THEN attach.base ELSE NoPort
  <1>1. /\ UNCHANGED <<imported, loaded, relay, due, reconnecting, code, request>>
        /\ UNCHANGED <<codeEdits, extScans>> /\ attach.step = "report"
        /\ attach' = NotAttaching /\ (ExtFault \/ UNCHANGED extFaults)
    BY DEF ReportExtensions, ExtBounds, AttachEnds
  <1>2. \/ /\ entry' = [entry EXCEPT ![w] = p]
           /\ outdated' = outdated \ {w} /\ unreported' = unreported \ {w}
        \/ UNCHANGED <<entry, outdated>> /\ unreported' \in {unreported, unreported \cup {w}}
    BY DEF ReportExtensions, RelayUrl
  <1>3. /\ w \in Folders /\ attach.base \in Ports \cup {NoPort}
        /\ attach.base # NoPort => relay[w] = attach.base
        /\ entry \in [Folders -> Ports \cup {NoPort, "absent"}]
        /\ outdated \in SUBSET Folders /\ unreported \in SUBSET Folders
    BY <1>1 DEF ExtInv, ExtTypeOK, ScanInv
  <1>4. p \in Ports \cup {NoPort} /\ (p # NoPort => relay[w] = p)
    BY <1>3
  <1> HIDE DEF p
  <1>5. /\ entry' \in [Folders -> Ports \cup {NoPort, "absent"}]
        /\ outdated' \in SUBSET Folders /\ unreported' \in SUBSET Folders
    BY <1>2, <1>3, <1>4
  <1>6. /\ attach' \in [of : Folders \cup {NoFolder}, base : Ports \cup {NoPort},
                        step : {"idle", "agents", "relay", "report"}]
        /\ attach'.step = "idle" /\ attach'.base = NoPort
    BY <1>1 DEF NotAttaching
  <1>7. extFaults' \in 0 .. MaxExtFaults
    BY <1>1, ExtFaultTyped DEF ExtInv
  <1>8. ExtTypeOK'
    BY <1>1, <1>5, <1>6, <1>7 DEF ExtInv, ExtTypeOK
  <1>9. \A v \in Folders \ outdated' : entry'[v] \in Ports => relay[v] = entry'[v]
    BY <1>2, <1>3, <1>4, ExtBoundsAreNat DEF ExtInv, EntriesAreTrue
  <1> QED BY <1>1, <1>6, <1>8, <1>9 DEF ExtInv, EntriesAreTrue, ScanInv, RequestInv

LEMMA BusRestartsInv == ASSUME ExtInv, BusRestarts PROVE ExtInv'
  <1>1. /\ UNCHANGED <<imported, loaded, relay, due, attach, code, outdated, unreported>>
        /\ UNCHANGED <<codeEdits, extScans>> /\ ExtFault
        /\ reconnecting' = TRUE /\ entry' = [v \in Folders |-> "absent"]
        /\ request' = [of |-> NoFolder, port |-> NoPort, sure |-> FALSE]
    BY DEF BusRestarts, ExtBounds, NoRequest
  <1>2. extFaults' \in 0 .. MaxExtFaults
    BY <1>1, ExtFaultTyped DEF ExtInv
  <1>3. ExtTypeOK'
    BY <1>1, <1>2 DEF ExtInv, ExtTypeOK
  <1>4. \A v \in Folders : entry'[v] \notin Ports
    BY <1>1, ExtBoundsAreNat
  <1> QED BY <1>1, <1>3, <1>4 DEF ExtInv, EntriesAreTrue, ScanInv, RequestInv

LEMMA ReconnectInv == ASSUME ExtInv, Reconnect PROVE ExtInv'
  <1>1. /\ UNCHANGED <<imported, loaded, relay, attach, code, entry, request, outdated, extFaults>>
        /\ UNCHANGED <<codeEdits, extScans>> /\ reconnecting' = FALSE
    BY DEF Reconnect, ExtBounds
  <1>2. due' \in SUBSET Folders /\ unreported' \in SUBSET Folders
    BY DEF ExtInv, ExtTypeOK, Reconnect, ScanAtReconnect
  <1>3. ExtTypeOK'
    BY <1>1, <1>2 DEF ExtInv, ExtTypeOK
  <1> QED BY <1>1, <1>3 DEF ExtInv, EntriesAreTrue, ScanInv, RequestInv

LEMMA ExtBridgeRestartsInv == ASSUME ExtInv, ExtBridgeRestarts PROVE ExtInv'
  <1>1. /\ UNCHANGED <<reconnecting, code, entry, unreported>> /\ UNCHANGED <<codeEdits, extScans>>
        /\ imported' = [v \in Folders |-> "unread"] /\ loaded' = [v \in Folders |-> "absent"]
        /\ relay' = [v \in Folders |-> NoPort] /\ due' = Folders
        /\ attach' = [of |-> NoFolder, step |-> "idle", base |-> NoPort]
        /\ outdated' = outdated \cup {v \in Folders : relay[v] # NoPort}
        /\ request' = [request EXCEPT !.sure = FALSE] /\ ExtFault
    BY DEF ExtBridgeRestarts, ExtBounds, NotAttaching
  <1>2. extFaults' \in 0 .. MaxExtFaults
    BY <1>1, ExtFaultTyped DEF ExtInv
  <1>3. /\ request' \in [of : Folders \cup {NoFolder}, port : Ports \cup {NoPort}, sure : BOOLEAN]
        /\ ~request'.sure
    BY <1>1 DEF ExtInv, ExtTypeOK
  <1>4. /\ imported' \in [Folders -> Kinds \cup {"unread"}] /\ loaded' \in [Folders -> Kinds]
        /\ relay' \in [Folders -> Ports \cup {NoPort}] /\ outdated' \in SUBSET Folders
    BY <1>1 DEF ExtInv, ExtTypeOK, Kinds
  <1>5. ExtTypeOK'
    BY <1>1, <1>2, <1>3, <1>4 DEF ExtInv, ExtTypeOK
  <1>6. \A v \in Folders \ outdated' : entry[v] \notin Ports
    BY <1>1, ExtBoundsAreNat DEF ExtInv, EntriesAreTrue
  <1> QED BY <1>1, <1>3, <1>5, <1>6 DEF ExtInv, EntriesAreTrue, ScanInv, RequestInv

LEMMA RequestStepInv ==
  ASSUME ExtInv, RelayAnswers \/ \E w \in Folders : AskRelay(w)
  PROVE  ExtInv'
  <1>1. /\ UNCHANGED <<extBridgeVars, code, entry, outdated, unreported, extFaults>>
        /\ UNCHANGED <<codeEdits, extScans>>
    BY DEF RelayAnswers, AskRelay, ExtBounds
  <1>2. /\ request' \in [of : Folders \cup {NoFolder}, port : Ports \cup {NoPort}, sure : BOOLEAN]
        /\ request'.sure => /\ request'.of \in Folders /\ request'.port \in Ports
                            /\ relay[request'.of] = request'.port
    <2>1. CASE RelayAnswers
      BY <2>1 DEF RelayAnswers, NoRequest
    <2>2. ASSUME NEW w \in Folders, AskRelay(w) PROVE <1>2
      <3>1. PICK v \in EntriesFor(w) :
               /\ entry[v] \in Ports
               /\ request' = [of |-> w, port |-> entry[v], sure |-> v = w /\ w \notin outdated]
        BY <2>2 DEF AskRelay
      <3> QED BY <2>2, <3>1 DEF ExtInv, EntriesAreTrue
    <2> QED BY <2>1, <2>2
  <1>3. ExtTypeOK'
    BY <1>1, <1>2 DEF ExtInv, ExtTypeOK, extBridgeVars
  <1> QED BY <1>1, <1>2, <1>3 DEF ExtInv, EntriesAreTrue, ScanInv, RequestInv, extBridgeVars

LEMMA ExtInvNext == ASSUME ExtInv, [ExtNext]_extVars PROVE ExtInv'
  <1>1. CASE UNCHANGED extVars
    BY <1>1 DEF extVars, extBridgeVars, ExtInv, ExtTypeOK, EntriesAreTrue, ScanInv, RequestInv
  <1>2. CASE ExtNext
    BY <1>2, EditCodeInv, BeginScanInv, LoadExtensionInv, RegisterBundledInv, StartRelayInv,
       ReportExtensionsInv, BusRestartsInv, ReconnectInv, ExtBridgeRestartsInv, RequestStepInv
       DEF ExtNext
  <1> QED BY <1>1, <1>2

LEMMA ExtKeepInv == ExtInit /\ [][ExtNext]_extVars => []ExtInv
  BY ExtInvInit, ExtInvNext, PTL

LEMMA ExtInvIsOwn == ExtInv => EntriesAreTrue /\ AnswerIsOwn
  <1> SUFFICES ASSUME ExtInv PROVE AnswerIsOwn
    BY DEF ExtInv
  <1> SUFFICES ASSUME request.sure PROVE Answerer = {request.of}
    BY DEF AnswerIsOwn
  <1>1. /\ request.of \in Folders /\ request.port \in Ports /\ relay[request.of] = request.port
    BY DEF ExtInv, RequestInv
  <1>2. \A v \in Folders : relay[v] = request.port => v = request.of
    BY <1>1, ExtBoundsAreNat DEF ExtInv, EntriesAreTrue
  <1> QED BY <1>1, <1>2 DEF Answerer

\* The variables of the extensions keep their types.
THEOREM ExtensionTypesHold == ExtSpec => []ExtTypeOK
  <1>1. ExtInv => ExtTypeOK
    BY DEF ExtInv
  <1> QED BY <1>1, ExtKeepInv, PTL DEF ExtSpec

\* No two relays share a port, an entry of the registry that no later relay or process made
\* wrong names the relay of its own workspace, and a request that such an entry forwarded is
\* answered by nobody but the extension of its workspace.
THEOREM ExtensionsAnswerForThemselves == ExtSpec => [](EntriesAreTrue /\ AnswerIsOwn)
  BY ExtInvIsOwn, ExtKeepInv, PTL DEF ExtSpec

-----------------------------------------------------------------------------
(* Listings of models                                                      *)

LEMMA ListingConstants ==
  /\ Builtin \subseteq Nat \ {0} /\ IsFiniteSet(Builtin) /\ OwnModels \cap Builtin = {}
  /\ NoAccount \notin Accounts
  /\ \A a \in Accounts : TokenPrefix[a] \in Prefixes
  /\ PageLength \in Nat \ {0} /\ CacheLife \in Nat \ {0} /\ MaxHour \in Nat /\ MaxMoves \in Nat
  BY ListingAssumption DEF ListingAssumption, Prefixes

\* A page has every model up to its last one; it is empty when nothing is left.
LEMMA PagesAreWhole ==
  ASSUME offered \in [Accounts -> SUBSET Builtin], NEW a \in Accounts, NEW after \in Nat
  PROVE  /\ PageOf(a, after) \subseteq {m \in offered[a] : m > after}
         /\ \A m \in PageOf(a, after), n \in offered[a] : n > after /\ n <= m => n \in PageOf(a, after)
         /\ (\E m \in offered[a] : m > after) => PageOf(a, after) # {}
  <1> DEFINE rest == {m \in offered[a] : m > after}
  <1>1. rest \subseteq Nat /\ IsFiniteSet(rest)
    <2>1. rest \subseteq Builtin
      OBVIOUS
    <2> QED BY <2>1, ListingConstants, FS_Subset
  <1>2. PageOf(a, after) = IF providerKind = "plain" THEN rest
                           ELSE {m \in rest : Cardinality(Below(rest, m)) < PageLength}
    BY DEF PageOf, Below
  <1>3. ASSUME NEW m \in rest, NEW n \in rest, n <= m, Cardinality(Below(rest, m)) < PageLength
        PROVE  Cardinality(Below(rest, n)) < PageLength
    <2>1. Below(rest, n) \subseteq Below(rest, m) /\ Below(rest, m) \subseteq rest
      BY <1>1, <1>3 DEF Below
    <2> HIDE DEF rest
    <2>2. /\ Cardinality(Below(rest, n)) <= Cardinality(Below(rest, m))
          /\ Cardinality(Below(rest, n)) \in Nat /\ Cardinality(Below(rest, m)) \in Nat
      BY <1>1, <2>1, FS_Subset, FS_CardinalityType
    <2> QED BY <1>3, <2>2, ListingConstants
  <1>4. ASSUME rest # {} PROVE \E m \in rest : Cardinality(Below(rest, m)) < PageLength
    <2> HIDE DEF rest
    <2>1. PICK m \in rest : \A n \in rest : m <= n
      BY <1>1, <1>4, NumbersHaveEnds
    <2>2. \A n \in rest : ~(n < m)
      BY <1>1, <2>1
    <2>3. Below(rest, m) = {}
      BY <2>2 DEF Below
    <2>4. 0 < PageLength
      BY ListingConstants
    <2> QED BY <2>3, <2>4, FS_EmptySet
  <1> QED BY <1>2, <1>3, <1>4

QueryType ==
    [stage : {"none", "resolving", "asking", "reading", "stalled", "over"},
     account : Accounts \cup {NoAccount}, after : {0} \cup Builtin,
     probe : ProbeType, answer : SUBSET Models]
KeptType == [until : 0..(MaxHour + CacheLife), probe : ProbeType]

\* A probe under way has read whatever was served all the while up to where it has come.
UnderWay(q, offer, now) ==
    q.stage \in {"asking", "reading", "stalled"} =>
        /\ q.account \in Accounts /\ q.probe.of = q.account /\ q.probe.since <= now
        /\ q.probe.ids \subseteq q.probe.ever
        /\ offer[q.account] \subseteq q.probe.ever /\ q.probe.always \subseteq offer[q.account]
        /\ \A m \in q.probe.always : m <= q.after => m \in q.probe.ids

\* A probe begins with the first page; what is offered was filtered by a whole list, or not
\* at all.
IsServed(q, own) ==
    /\ q.stage \in {"none", "resolving"} => q.after = 0
    /\ q.stage = "over" =>
         /\ own \subseteq q.answer
         /\ IF q.probe = NoProbe THEN q.answer = Builtin \cup own
            ELSE /\ q.probe.ids # {} /\ ReadsWhole(q.probe)
                 /\ TokenPrefix[q.probe.of] = TokenPrefix[q.account]
                 /\ q.answer \ own = q.probe.ids \ own

IsKept(found, prefix) ==
    found # NoEntry =>
        /\ found.until <= found.probe.since + CacheLife
        /\ found.probe.ids # {} /\ ReadsWhole(found.probe)
        /\ found.probe.of \in Accounts /\ TokenPrefix[found.probe.of] = prefix

ModelsInv ==
    /\ ListingTypeOK
    /\ \A c \in Listings : UnderWay(query[c], offered, hour) /\ IsServed(query[c], custom)
    /\ \A k \in Prefixes : IsKept(cache[k], k)

LEMMA ListingTypes ==
  ListingTypeOK <=>
    /\ providerKind \in {"paged", "plain", "none"}
    /\ offered \in [Accounts -> SUBSET Builtin] /\ moves \in 0..MaxMoves
    /\ inUse \in Accounts \cup {NoAccount}
    /\ custom \in SUBSET Models
    /\ cache \in [Prefixes -> KeptType]
    /\ query \in [Listings -> QueryType]
    /\ hour \in 0..MaxHour
  BY DEF ListingTypeOK, KeptType, QueryType

LEMMA NoProbeTyped == NoProbe \in ProbeType /\ NoProbe.of = NoAccount
  BY ListingConstants DEF NoProbe, ProbeType

LEMMA ModelsInvInit == ListingsInit => ModelsInv
  <1> SUFFICES ASSUME ListingsInit PROVE ModelsInv
    OBVIOUS
  <1>1. /\ providerKind \in {"paged", "plain", "none"} /\ inUse \in Accounts \cup {NoAccount}
        /\ custom \in SUBSET Models /\ offered \in [Accounts -> SUBSET Builtin]
        /\ moves \in 0..MaxMoves /\ hour \in 0..MaxHour
    BY ListingConstants DEF ListingsInit
  <1>2. NotAsked \in QueryType /\ NotAsked.stage = "none" /\ NotAsked.after = 0
    BY NoProbeTyped DEF NotAsked, QueryType
  <1>3. NoEntry \in KeptType
    BY NoProbeTyped, ListingConstants DEF NoEntry, KeptType
  <1>4. /\ query \in [Listings -> QueryType] /\ \A c \in Listings : query[c].stage = "none" /\ query[c].after = 0
        /\ cache \in [Prefixes -> KeptType] /\ \A k \in Prefixes : cache[k] = NoEntry
    BY <1>2, <1>3 DEF ListingsInit
  <1>5. ListingTypeOK
    BY <1>1, <1>4, ListingTypes
  <1> QED BY <1>4, <1>5 DEF ModelsInv, UnderWay, IsServed, IsKept

\* A step of one listing.
LEMMA OneListing ==
  ASSUME ModelsInv, NEW c \in Listings,
         query' \in [Listings -> QueryType], \A d \in Listings \ {c} : query'[d] = query[d],
         UNCHANGED <<providerKind, offered, inUse, moves, custom, hour>>,
         UnderWay(query'[c], offered, hour), IsServed(query'[c], custom),
         cache' \in [Prefixes -> KeptType], \A k \in Prefixes : IsKept(cache'[k], k)
  PROVE  ModelsInv'
  <1>1. ListingTypeOK'
    BY DEF ModelsInv, ListingTypeOK, QueryType, KeptType
  <1>2. \A d \in Listings : UnderWay(query'[d], offered, hour) /\ IsServed(query'[d], custom)
    BY DEF ModelsInv
  <1>3. offered' = offered /\ hour' = hour /\ custom' = custom
    OBVIOUS
  <1> QED BY <1>1, <1>2, <1>3 DEF ModelsInv

\* The fields that the end of a listing sets.
LEMMA AnswerIsOne ==
  ASSUME ModelsInv, NEW c \in Listings, NEW shown \in SUBSET Models, NEW probe \in ProbeType,
         AnswerIs(c, shown, probe)
  PROVE  /\ query' \in [Listings -> QueryType] /\ \A d \in Listings \ {c} : query'[d] = query[d]
         /\ query'[c].stage = "over" /\ query'[c].account = query[c].account
         /\ query'[c].answer = shown /\ query'[c].probe = probe
  <1>1. query \in [Listings -> QueryType]
    BY ListingTypes DEF ModelsInv
  <1>2. query' = [query EXCEPT ![c].stage = "over", ![c].answer = shown, ![c].probe = probe,
                               ![c].after = 0]
    BY DEF AnswerIs
  <1>3. /\ query[c] \in QueryType
        /\ query'[c] = [query[c] EXCEPT !.stage = "over", !.answer = shown, !.probe = probe,
                                        !.after = 0]
    BY <1>1, <1>2
  <1>4. /\ query'[c] \in QueryType
        /\ query'[c].stage = "over" /\ query'[c].account = query[c].account
        /\ query'[c].answer = shown /\ query'[c].probe = probe
    BY <1>3 DEF QueryType
  <1>5. DOMAIN query' = Listings /\ \A d \in Listings \ {c} : query'[d] = query[d]
    BY <1>1, <1>2
  <1>6. query' = [d \in Listings |-> query'[d]]
    BY <1>1, <1>2
  <1> QED BY <1>1, <1>4, <1>5, <1>6

LEMMA AroundTheBusInv ==
  ASSUME ModelsInv, AccountChanges \/ Later
  PROVE  ModelsInv'
  <1>1. UNCHANGED <<providerKind, offered, custom, cache, query>>
    BY DEF AccountChanges, Later
  <1>2. /\ inUse' \in Accounts \cup {NoAccount} /\ moves' \in 0..MaxMoves /\ hour' \in 0..MaxHour
        /\ hour <= hour'
    BY ListingConstants DEF ModelsInv, ListingTypeOK, AccountChanges, Later
  <1>3. ListingTypeOK'
    BY <1>1, <1>2 DEF ModelsInv, ListingTypeOK
  <1>4. \A c \in Listings : query[c].probe.since \in Nat /\ hour \in Nat /\ hour' \in Nat
    BY <1>2, ListingTypes DEF ModelsInv, QueryType, ProbeType
  <1>5. \A c \in Listings : UnderWay(query[c], offered, hour') /\ IsServed(query[c], custom)
    BY <1>2, <1>4 DEF ModelsInv, UnderWay
  <1> QED BY <1>1, <1>3, <1>5 DEF ModelsInv

LEMMA ServiceChangesInv ==
  ASSUME ModelsInv, ServiceChanges
  PROVE  ModelsInv'
  <1>1. PICK a \in Accounts, m \in Builtin :
           LET now == IF m \in offered[a] THEN offered[a] \ {m} ELSE offered[a] \cup {m}
           IN /\ moves < MaxMoves /\ moves' = moves + 1
              /\ offered' = [offered EXCEPT ![a] = now]
              /\ query' = [c \in Listings |->
                    IF query[c].probe.of = a /\ query[c].stage # "over"
                    THEN [query[c] EXCEPT !.probe.ever = @ \cup now, !.probe.always = @ \cap now]
                    ELSE query[c]]
              /\ UNCHANGED <<providerKind, inUse, custom, cache, hour>>
    BY DEF ServiceChanges
  <1> DEFINE now == IF m \in offered[a] THEN offered[a] \ {m} ELSE offered[a] \cup {m}
             touched(c) == query[c].probe.of = a /\ query[c].stage # "over"
             p(c) == query[c].probe
             q(c) == [query[c] EXCEPT !.probe.ever = @ \cup now, !.probe.always = @ \cap now]
  <1>2. /\ offered \in [Accounts -> SUBSET Builtin] /\ query \in [Listings -> QueryType]
        /\ moves \in 0..MaxMoves
    BY ListingTypes DEF ModelsInv
  <1>3. now \in SUBSET Builtin
    BY <1>2
  <1>4. /\ offered' = [offered EXCEPT ![a] = now] /\ moves' = moves + 1 /\ moves < MaxMoves
        /\ query' = [c \in Listings |-> IF touched(c) THEN q(c) ELSE query[c]]
        /\ UNCHANGED <<providerKind, inUse, custom, cache, hour>>
    BY <1>1
  <1> HIDE DEF now
  <1>5. ASSUME NEW c \in Listings
        PROVE  /\ q(c) \in QueryType /\ q(c).stage = query[c].stage
               /\ q(c).account = query[c].account /\ q(c).after = query[c].after
               /\ q(c).probe.of = p(c).of /\ q(c).probe.since = p(c).since
               /\ q(c).probe.ids = p(c).ids /\ q(c).probe.ever = p(c).ever \cup now
               /\ q(c).probe.always = p(c).always \cap now
    <2>1. query[c] \in QueryType /\ p(c) \in ProbeType
      BY <1>2 DEF QueryType
    <2> DEFINE r == [p(c) EXCEPT !.ever = @ \cup now, !.always = @ \cap now]
    <2>2. /\ r \in ProbeType /\ r.of = p(c).of /\ r.since = p(c).since /\ r.ids = p(c).ids
          /\ r.ever = p(c).ever \cup now /\ r.always = p(c).always \cap now
      BY <2>1, <1>3 DEF ProbeType
    <2>3. q(c) = [query[c] EXCEPT !.probe = r]
      BY <2>1 DEF QueryType, ProbeType
    <2> HIDE DEF r, q
    <2>4. /\ q(c) \in QueryType /\ q(c).stage = query[c].stage
          /\ q(c).account = query[c].account /\ q(c).after = query[c].after /\ q(c).probe = r
      BY <2>1, <2>2, <2>3 DEF QueryType
    <2> QED BY <2>2, <2>4
  <1> HIDE DEF q
  <1>6. /\ offered' \in [Accounts -> SUBSET Builtin] /\ offered'[a] = now
        /\ \A b \in Accounts \ {a} : offered'[b] = offered[b]
    BY <1>2, <1>3, <1>4
  <1>7. /\ query' \in [Listings -> QueryType]
        /\ \A c \in Listings : query'[c] = IF touched(c) THEN q(c) ELSE query[c]
    BY <1>2, <1>4, <1>5
  <1>8. moves' \in 0..MaxMoves
    BY <1>2, <1>4, ListingConstants
  <1>9. ListingTypeOK'
    BY <1>4, <1>6, <1>7, <1>8 DEF ModelsInv, ListingTypeOK, QueryType
  <1>10. ASSUME NEW c \in Listings
         PROVE  UnderWay(query'[c], offered', hour) /\ IsServed(query'[c], custom)
    <2>1. UnderWay(query[c], offered, hour) /\ IsServed(query[c], custom)
      BY DEF ModelsInv
    <2>2. CASE touched(c)
      <3>1. query'[c] = q(c) /\ query[c].stage # "over"
        BY <1>7, <2>2
      <3>2. IsServed(query'[c], custom)
        BY <1>5, <2>1, <3>1 DEF IsServed
      <3>3. UnderWay(q(c), offered', hour)
        <4> SUFFICES ASSUME query[c].stage \in {"asking", "reading", "stalled"}
                     PROVE  /\ q(c).account \in Accounts /\ q(c).probe.of = q(c).account
                            /\ q(c).probe.since <= hour
                            /\ q(c).probe.ids \subseteq q(c).probe.ever
                            /\ offered'[q(c).account] \subseteq q(c).probe.ever
                            /\ q(c).probe.always \subseteq offered'[q(c).account]
                            /\ \A n \in q(c).probe.always : n <= q(c).after => n \in q(c).probe.ids
          BY <1>5 DEF UnderWay
        <4>1. /\ query[c].account \in Accounts /\ p(c).of = query[c].account /\ p(c).since <= hour
              /\ p(c).ids \subseteq p(c).ever
              /\ \A n \in p(c).always : n <= query[c].after => n \in p(c).ids
          BY <2>1 DEF UnderWay
        <4>2. query[c].account = a
          BY <2>2, <4>1
        <4> QED BY <1>5, <1>6, <4>1, <4>2
      <3> QED BY <3>1, <3>2, <3>3
    <2>3. CASE ~touched(c)
      <3>1. query'[c] = query[c]
        BY <1>7, <2>3
      <3>2. query[c].stage \in {"asking", "reading", "stalled"} =>
              query[c].account \in Accounts \ {a}
        BY <2>1, <2>3 DEF UnderWay
      <3> QED BY <1>6, <2>1, <3>1, <3>2 DEF UnderWay
    <2> QED BY <2>2, <2>3
  <1> QED BY <1>4, <1>9, <1>10 DEF ModelsInv

\* The steps of a listing that neither begin nor end a probe.
LEMMA ListingMovesInv ==
  ASSUME ModelsInv, NEW c \in Listings, ListAuthModels(c) \/ FetchIsAnswered(c) \/ BodyStalls(c)
  PROVE  ModelsInv'
  <1>1. query \in [Listings -> QueryType] /\ inUse \in Accounts \cup {NoAccount}
        /\ cache \in [Prefixes -> KeptType]
    BY ListingTypes DEF ModelsInv
  <1>2. UNCHANGED <<providerKind, offered, inUse, moves, custom, hour, cache>>
    BY DEF ListAuthModels, FetchIsAnswered, BodyStalls, OutsideVars
  <1>3. /\ query' \in [Listings -> QueryType] /\ \A d \in Listings \ {c} : query'[d] = query[d]
        /\ UnderWay(query'[c], offered, hour) /\ IsServed(query'[c], custom)
    <2>1. CASE ListAuthModels(c)
      <3>1. query' = [query EXCEPT ![c].stage = "resolving", ![c].account = inUse]
        BY <2>1 DEF ListAuthModels
      <3>2. /\ query[c] \in QueryType
            /\ query'[c] = [query[c] EXCEPT !.stage = "resolving", !.account = inUse]
        BY <1>1, <3>1
      <3>3. /\ query'[c] \in QueryType /\ query'[c].stage = "resolving"
            /\ query'[c].after = query[c].after
        BY <1>1, <3>2 DEF QueryType
      <3>4. /\ DOMAIN query' = Listings /\ \A d \in Listings \ {c} : query'[d] = query[d]
            /\ query' = [d \in Listings |-> query'[d]]
        BY <1>1, <3>1
      <3>5. query' \in [Listings -> QueryType]
        BY <1>1, <3>3, <3>4
      <3>6. query[c].after = 0
        BY <2>1 DEF ListAuthModels, ModelsInv, IsServed
      <3> QED BY <3>3, <3>4, <3>5, <3>6 DEF UnderWay, IsServed
    <2>2. CASE FetchIsAnswered(c) \/ BodyStalls(c)
      <3>1. PICK s \in {"reading", "stalled"} : query' = [query EXCEPT ![c].stage = s]
        BY <2>2 DEF FetchIsAnswered, BodyStalls
      <3>2. query[c].stage \in {"asking", "reading"}
        BY <2>2 DEF FetchIsAnswered, BodyStalls
      <3>3. query[c] \in QueryType /\ query'[c] = [query[c] EXCEPT !.stage = s]
        BY <1>1, <3>1
      <3>4. /\ query'[c] \in QueryType /\ query'[c].stage = s
            /\ query'[c].account = query[c].account /\ query'[c].after = query[c].after
            /\ query'[c].probe = query[c].probe
        BY <3>3 DEF QueryType
      <3>5. /\ DOMAIN query' = Listings /\ \A d \in Listings \ {c} : query'[d] = query[d]
            /\ query' = [d \in Listings |-> query'[d]]
        BY <1>1, <3>1
      <3>6. query' \in [Listings -> QueryType]
        BY <1>1, <3>4, <3>5
      <3>7. UnderWay(query'[c], offered, hour)
        BY <3>2, <3>4 DEF ModelsInv, UnderWay
      <3>8. IsServed(query'[c], custom)
        BY <3>4 DEF IsServed
      <3> QED BY <3>5, <3>6, <3>7, <3>8
    <2> QED BY <2>1, <2>2
  <1>4. \A k \in Prefixes : IsKept(cache'[k], k)
    BY <1>2 DEF ModelsInv
  <1> QED BY <1>1, <1>2, <1>3, <1>4, OneListing

\* The whole catalog is offered.
LEMMA FailsOpenInv ==
  ASSUME ModelsInv, NEW c \in Listings, FailsOpen(c),
         UNCHANGED <<providerKind, offered, inUse, moves, custom, hour, cache>>
  PROVE  ModelsInv'
  <1>1. cache \in [Prefixes -> KeptType] /\ custom \in SUBSET Models
    BY ListingTypes DEF ModelsInv
  <1>2. Catalog \in SUBSET Models /\ NoProbe \in ProbeType
    BY <1>1, NoProbeTyped DEF Catalog, Models
  <1>3. /\ query' \in [Listings -> QueryType] /\ \A d \in Listings \ {c} : query'[d] = query[d]
        /\ query'[c].stage = "over" /\ query'[c].answer = Catalog /\ query'[c].probe = NoProbe
    BY <1>2, AnswerIsOne DEF FailsOpen
  <1>4. UnderWay(query'[c], offered, hour) /\ IsServed(query'[c], custom)
    BY <1>3 DEF UnderWay, IsServed, Catalog
  <1>5. \A k \in Prefixes : IsKept(cache'[k], k)
    BY DEF ModelsInv
  <1> QED BY <1>1, <1>3, <1>4, <1>5, OneListing

\* What was learned of an account of the same prefix is what is offered.
LEMMA ServedInv ==
  ASSUME ModelsInv, NEW c \in Listings, NEW probe \in ProbeType,
         AnswerIs(c, IntersectWithLive(probe.ids), probe),
         UNCHANGED <<providerKind, offered, inUse, moves, custom, hour>>,
         cache' \in [Prefixes -> KeptType], \A k \in Prefixes : IsKept(cache'[k], k),
         probe.ids # {}, ReadsWhole(probe), probe.of \in Accounts,
         TokenPrefix[probe.of] = TokenPrefix[query[c].account]
  PROVE  ModelsInv'
  <1> DEFINE shown == IntersectWithLive(probe.ids)
  <1>1. custom \in SUBSET Models /\ probe.ids \subseteq Builtin
    BY ListingTypes DEF ModelsInv, ProbeType
  <1>2. /\ shown \in SUBSET Models /\ custom \subseteq shown
        /\ shown \ custom = probe.ids \ custom
    BY <1>1 DEF IntersectWithLive, Catalog, Models
  <1>3. /\ query' \in [Listings -> QueryType] /\ \A d \in Listings \ {c} : query'[d] = query[d]
        /\ query'[c].stage = "over" /\ query'[c].answer = shown /\ query'[c].probe = probe
        /\ query'[c].account = query[c].account
    BY <1>2, AnswerIsOne
  <1>4. probe # NoProbe
    BY DEF NoProbe
  <1> HIDE DEF shown
  <1>5. UnderWay(query'[c], offered, hour) /\ IsServed(query'[c], custom)
    BY <1>2, <1>3, <1>4 DEF UnderWay, IsServed
  <1> QED BY <1>3, <1>5, OneListing

LEMMA FetchLiveModelIdsInv ==
  ASSUME ModelsInv, NEW c \in Listings, FetchLiveModelIds(c)
  PROVE  ModelsInv'
  <1> DEFINE a == query[c].account
             found == cache[TokenPrefix[a]]
             p == Probe(a, hour)
  <1>1. /\ query \in [Listings -> QueryType] /\ cache \in [Prefixes -> KeptType]
        /\ offered \in [Accounts -> SUBSET Builtin] /\ hour \in 0..MaxHour
    BY ListingTypes DEF ModelsInv
  <1>2. /\ UNCHANGED <<providerKind, offered, inUse, moves, custom, hour, cache>>
        /\ query[c] \in QueryType /\ a \in Accounts \cup {NoAccount}
    BY <1>1 DEF FetchLiveModelIds, OutsideVars, QueryType
  <1>3. \A k \in Prefixes : IsKept(cache[k], k) /\ IsKept(cache'[k], k)
    BY <1>2 DEF ModelsInv
  <1>4. CASE FailsOpen(c)
    BY <1>2, <1>4, FailsOpenInv
  <1>5. CASE /\ a # NoAccount /\ found.until > hour
             /\ AnswerIs(c, IntersectWithLive(found.probe.ids), found.probe)
    <2>1. a \in Accounts /\ TokenPrefix[a] \in Prefixes
      BY <1>2, <1>5, ListingConstants
    <2>2. found \in KeptType /\ found # NoEntry
      BY <1>1, <1>5, <2>1 DEF NoEntry
    <2>3. /\ found.probe \in ProbeType /\ found.probe.ids # {} /\ ReadsWhole(found.probe)
          /\ found.probe.of \in Accounts /\ TokenPrefix[found.probe.of] = TokenPrefix[a]
      BY <1>3, <2>1, <2>2 DEF IsKept, KeptType
    <2>4. cache' \in [Prefixes -> KeptType]
      BY <1>1, <1>2
    <2> HIDE DEF found
    <2>5. AnswerIs(c, IntersectWithLive(found.probe.ids), found.probe)
      BY <1>5
    <2> QED BY <1>2, <1>3, <2>3, <2>4, <2>5, ServedInv
  <1>6. CASE /\ a # NoAccount
             /\ query' = [query EXCEPT ![c].stage = "asking", ![c].probe = Probe(a, hour)]
    <2>1. a \in Accounts
      BY <1>2, <1>6
    <2>2. /\ p \in ProbeType /\ p.of = a /\ p.since = hour /\ p.ids = {}
          /\ p.ever = offered[a] /\ p.always = offered[a]
      BY <1>1, <2>1 DEF Probe, ProbeType
    <2> HIDE DEF p
    <2>3. query' = [query EXCEPT ![c].stage = "asking", ![c].probe = p]
      BY <1>6 DEF p
    <2>4. query'[c] = [query[c] EXCEPT !.stage = "asking", !.probe = p]
      BY <1>1, <2>3
    <2>5. /\ query'[c] \in QueryType /\ query'[c].stage = "asking" /\ query'[c].account = a
          /\ query'[c].probe = p /\ query'[c].after = query[c].after
      BY <1>2, <2>2, <2>4 DEF QueryType
    <2>6. /\ DOMAIN query' = Listings /\ \A d \in Listings \ {c} : query'[d] = query[d]
          /\ query' = [d \in Listings |-> query'[d]]
      BY <1>1, <2>3
    <2>7. query' \in [Listings -> QueryType]
      BY <1>1, <2>5, <2>6
    <2>8. query[c].after = 0
      BY DEF ModelsInv, FetchLiveModelIds, IsServed
    <2>9. \A m \in offered[a] : ~(m <= 0)
      BY <1>1, <2>1, ListingConstants
    <2>10. UnderWay(query'[c], offered, hour)
      BY <1>1, <2>1, <2>2, <2>5, <2>8, <2>9 DEF UnderWay
    <2>11. IsServed(query'[c], custom)
      BY <2>5 DEF IsServed
    <2>12. cache' \in [Prefixes -> KeptType]
      BY <1>1, <1>2
    <2> QED BY <1>2, <1>3, <2>6, <2>7, <2>10, <2>11, <2>12, OneListing
  <1> QED BY <1>4, <1>5, <1>6 DEF FetchLiveModelIds

\* What a page adds, and the model it ends with.
LEMMA ReadingGoesOn ==
  ASSUME ModelsInv, NEW c \in Listings, query[c].stage = "reading"
  PROVE  LET p == query[c].probe
             a == query[c].after
             page == PageOf(p.of, a)
             ids == p.ids \cup page
             last == CHOOSE m \in page : \A n \in page : n <= m
             more == \E m \in offered[p.of] : m > a /\ m \notin page
         IN /\ p.of \in Accounts /\ ids \subseteq Builtin /\ ids \subseteq p.ever
            /\ more => last \in Builtin /\ \A m \in p.always : m <= last => m \in ids
            /\ ~more => p.always \subseteq ids
  <1> DEFINE p == query[c].probe
             a == query[c].after
             page == PageOf(p.of, a)
             ids == p.ids \cup page
             last == CHOOSE m \in page : \A n \in page : n <= m
             more == \E m \in offered[p.of] : m > a /\ m \notin page
  <1>1. /\ query[c] \in QueryType /\ offered \in [Accounts -> SUBSET Builtin]
        /\ UnderWay(query[c], offered, hour)
    BY ListingTypes DEF ModelsInv
  <1>2. /\ p.of \in Accounts /\ p.ids \subseteq p.ever /\ offered[p.of] \subseteq p.ever
        /\ p.always \subseteq offered[p.of] /\ \A m \in p.always : m <= a => m \in p.ids
    BY <1>1 DEF UnderWay
  <1>3. a \in Nat /\ p.ids \subseteq Builtin
    <2>1. a \in {0} \cup Builtin /\ p \in ProbeType
      BY <1>1 DEF QueryType
    <2>2. p.ids \subseteq Builtin
      BY <2>1 DEF ProbeType
    <2>3. \A x \in {0} \cup Builtin : x \in Nat
      BY ListingConstants
    <2> HIDE DEF a
    <2> QED BY <2>1, <2>2, <2>3
  <1>4. offered[p.of] \subseteq Builtin /\ offered[p.of] \subseteq Nat
    BY <1>1, <1>2, ListingConstants
  <1>5. /\ page \subseteq {m \in offered[p.of] : m > a}
        /\ \A m \in page, n \in offered[p.of] : n > a /\ n <= m => n \in page
        /\ (\E m \in offered[p.of] : m > a) => page # {}
    BY <1>1, <1>2, <1>3, PagesAreWhole
  <1> HIDE DEF page, p, a
  <1>6. ids \subseteq Builtin /\ ids \subseteq p.ever
    BY <1>2, <1>3, <1>4, <1>5
  <1>7. ASSUME more
        PROVE  last \in Builtin /\ \A m \in p.always : m <= last => m \in ids
    <2>1. page # {} /\ page \subseteq Builtin /\ page \subseteq Nat
      BY <1>4, <1>5, <1>7
    <2>2. \E m \in page : \A n \in page : n <= m
      BY <2>1, ListingConstants, FS_Subset, NumbersHaveEnds
    <2>3. last \in page
      BY <2>2
    <2> HIDE DEF last
    <2>4. ASSUME NEW m \in p.always, m <= last PROVE m \in ids
      <3>1. m \in offered[p.of] /\ m \in Nat
        BY <1>2, <1>4
      <3>2. CASE m <= a
        BY <1>2, <3>2
      <3>3. CASE m > a
        BY <1>5, <2>3, <2>4, <3>1, <3>3
      <3> QED BY <1>3, <3>1, <3>2, <3>3
    <2> QED BY <2>1, <2>3, <2>4
  <1>8. ASSUME ~more PROVE p.always \subseteq ids
    <2> SUFFICES ASSUME NEW m \in p.always PROVE m \in ids
      OBVIOUS
    <2>1. m \in offered[p.of] /\ m \in Nat
      BY <1>2, <1>4
    <2>2. CASE m <= a
      BY <1>2, <2>2
    <2>3. CASE m > a
      BY <1>8, <2>1, <2>3
    <2> QED BY <1>3, <2>1, <2>2, <2>3
  <1> HIDE DEF ids, last, more
  <1>9. /\ p.of \in Accounts /\ ids \subseteq Builtin /\ ids \subseteq p.ever
        /\ more => last \in Builtin /\ \A m \in p.always : m <= last => m \in ids
        /\ ~more => p.always \subseteq ids
    BY <1>2, <1>6, <1>7, <1>8
  <1> QED BY <1>9 DEF p, a, page, ids, last, more

LEMMA PageIsReadInv ==
  ASSUME ModelsInv, NEW c \in Listings, PageIsRead(c)
  PROVE  ModelsInv'
  <1> DEFINE p == query[c].probe
             a == query[c].after
             page == PageOf(p.of, a)
             ids == p.ids \cup page
             last == CHOOSE m \in page : \A n \in page : n <= m
             more == \E m \in offered[p.of] : m > a /\ m \notin page
             read == [p EXCEPT !.ids = @ \cup page]
             k == TokenPrefix[p.of]
             kept == [until |-> p.since + CacheLife, probe |-> read]
  <1>1. /\ query \in [Listings -> QueryType] /\ cache \in [Prefixes -> KeptType]
        /\ offered \in [Accounts -> SUBSET Builtin] /\ hour \in 0..MaxHour
        /\ query[c] \in QueryType /\ p \in ProbeType
        /\ UnderWay(query[c], offered, hour)
    BY ListingTypes DEF ModelsInv, QueryType
  <1>2. /\ query[c].stage = "reading"
        /\ UNCHANGED <<providerKind, offered, inUse, moves, custom, hour>>
    BY DEF PageIsRead, OutsideVars
  <1>3. /\ p.of \in Accounts /\ ids \subseteq Builtin /\ ids \subseteq p.ever
        /\ more => last \in Builtin /\ \A m \in p.always : m <= last => m \in ids
        /\ ~more => p.always \subseteq ids
    BY <1>2, ReadingGoesOn
  <1>4. /\ query[c].account = p.of /\ p.since <= hour
        /\ offered[p.of] \subseteq p.ever /\ p.always \subseteq offered[p.of]
    BY <1>1, <1>2 DEF UnderWay
  <1>5. \/ more /\ UNCHANGED cache
           /\ query' = [query EXCEPT ![c].stage = "asking", ![c].probe = read, ![c].after = last]
        \/ ~more /\ FailsOpen(c) /\ UNCHANGED cache
        \/ ~more /\ read.ids # {} /\ cache' = [cache EXCEPT ![k] = kept]
           /\ AnswerIs(c, IntersectWithLive(read.ids), read)
    BY DEF PageIsRead
  <1>6. /\ read.of = p.of /\ read.since = p.since /\ read.ids = ids
        /\ read.ever = p.ever /\ read.always = p.always /\ read \in ProbeType
    BY <1>1, <1>3 DEF ProbeType
  <1> HIDE DEF read, ids, last, more
  <1>7. \A x \in Prefixes : IsKept(cache[x], x)
    BY DEF ModelsInv
  <1>8. CASE more /\ UNCHANGED cache
             /\ query' = [query EXCEPT ![c].stage = "asking", ![c].probe = read, ![c].after = last]
    <2>1. query'[c] = [query[c] EXCEPT !.stage = "asking", !.probe = read, !.after = last]
      BY <1>1, <1>8
    <2>2. /\ query'[c] \in QueryType /\ query'[c].stage = "asking"
          /\ query'[c].account = query[c].account /\ query'[c].probe = read
          /\ query'[c].after = last
      BY <1>1, <1>3, <1>6, <1>8, <2>1 DEF QueryType
    <2>3. /\ DOMAIN query' = Listings /\ \A d \in Listings \ {c} : query'[d] = query[d]
          /\ query' = [d \in Listings |-> query'[d]]
      BY <1>1, <1>8
    <2>4. query' \in [Listings -> QueryType]
      BY <1>1, <2>2, <2>3
    <2>5. UnderWay(query'[c], offered, hour)
      BY <1>3, <1>4, <1>6, <1>8, <2>2 DEF UnderWay
    <2>6. IsServed(query'[c], custom)
      BY <2>2 DEF IsServed
    <2>7. cache' \in [Prefixes -> KeptType] /\ \A x \in Prefixes : IsKept(cache'[x], x)
      BY <1>1, <1>7, <1>8
    <2> QED BY <1>2, <2>3, <2>4, <2>5, <2>6, <2>7, OneListing
  <1>9. CASE ~more /\ FailsOpen(c) /\ UNCHANGED cache
    BY <1>2, <1>9, FailsOpenInv
  <1>10. CASE ~more /\ read.ids # {} /\ cache' = [cache EXCEPT ![k] = kept]
              /\ AnswerIs(c, IntersectWithLive(read.ids), read)
    <2>1. ReadsWhole(read)
      BY <1>3, <1>6, <1>10 DEF ReadsWhole
    <2>2. k \in Prefixes
      BY <1>3, ListingConstants
    <2>3. p.since \in 0..MaxHour
      BY <1>1 DEF ProbeType
    <2>4. kept \in KeptType /\ kept.until = p.since + CacheLife /\ kept.probe = read
      BY <1>6, <2>3, ListingConstants DEF KeptType
    <2> HIDE DEF kept, k
    <2>5. cache' \in [Prefixes -> KeptType]
      BY <1>1, <1>10, <2>4
    <2>6. IsKept(kept, k)
      BY <1>3, <1>6, <1>10, <2>1, <2>3, <2>4, ListingConstants DEF IsKept, k
    <2>7. \A x \in Prefixes : IsKept(cache'[x], x)
      BY <1>1, <1>7, <1>10, <2>2, <2>6
    <2>8. /\ read.of \in Accounts /\ TokenPrefix[read.of] = TokenPrefix[query[c].account]
          /\ read.ids # {} /\ AnswerIs(c, IntersectWithLive(read.ids), read)
      BY <1>3, <1>4, <1>6, <1>10
    <2> QED BY <1>2, <1>6, <2>1, <2>5, <2>7, <2>8, ServedInv
  <1> QED BY <1>5, <1>8, <1>9, <1>10

LEMMA ModelsInvNext == ASSUME ModelsInv, [ListingsNext]_listingVars PROVE ModelsInv'
  <1>1. CASE UNCHANGED listingVars
    BY <1>1 DEF listingVars, ModelsInv, ListingTypeOK
  <1>2. ASSUME NEW c \in Listings, ProbeFails(c) PROVE ModelsInv'
    BY <1>2, FailsOpenInv DEF ProbeFails, OutsideVars
  <1>3. CASE ListingsNext
    BY <1>2, <1>3, AroundTheBusInv, ServiceChangesInv, ListingMovesInv, FetchLiveModelIdsInv,
       PageIsReadInv DEF ListingsNext, ListingProceeds
  <1> QED BY <1>1, <1>3

LEMMA ListingsKeepInv == ListingsInit /\ [][ListingsNext]_listingVars => []ModelsInv
  BY ModelsInvInit, ModelsInvNext, PTL

LEMMA ModelsInvIsServed == ModelsInv => OfferedIsServed /\ KeptIsWhole
  BY DEF ModelsInv, IsServed, IsKept, OfferedIsServed, KeptIsWhole, Catalog

\* The variables of the listings keep their types.
THEOREM ListingTypesHold == ListingsSpec => []ListingTypeOK
  <1>1. ModelsInv => ListingTypeOK
    BY DEF ModelsInv
  <1> QED BY <1>1, ListingsKeepInv, PTL DEF ListingsSpec

\* Whatever the provider changes between two pages, and however many listings share the cache:
\* what is offered is the whole catalog or was filtered by a whole list of the account or of
\* one with the same prefix, and what is kept is a whole list, for its hour.
THEOREM ListingsOfferWhatIsServed == ListingsSpec => [](OfferedIsServed /\ KeptIsWhole)
  BY ModelsInvIsServed, ListingsKeepInv, PTL DEF ListingsSpec

-----------------------------------------------------------------------------
(* The services                                                            *)

\* What one component does is no step of another one.
LEMMA ServicesStepIsOfEach ==
    ASSUME [ServicesNext]_vars
    PROVE  /\ [PulsesNext]_pulseVars /\ [ScopesNext]_scopeVars /\ [AttachNext]_attachVars
           /\ [MigrationsNext]_migrationVars /\ [CredentialsNext]_credentialVars
           /\ [SessionNext]_sessionVars /\ [WatchNext]_watchVars /\ [ExtNext]_extVars
           /\ [CommandsNext]_commandVars /\ [ListingsNext]_listingVars
<1>1. CASE UNCHANGED vars
  BY <1>1 DEF vars
<1>2. CASE ServicesNext
  BY <1>2 DEF ServicesNext, OthersStay
<1> QED  BY <1>1, <1>2

\* So a behaviour of the services is one of each component, but for the fairness, which is that
\* of the component it is named after.
LEMMA ServicesIsOfEach ==
    ServicesSpec => /\ PulsesInit /\ [][PulsesNext]_pulseVars
                    /\ ScopesInit /\ [][ScopesNext]_scopeVars
                    /\ AttachInit /\ [][AttachNext]_attachVars
                    /\ MigrationsInit /\ [][MigrationsNext]_migrationVars
                    /\ CredentialsSpec
                    /\ SessionInit /\ [][SessionNext]_sessionVars
                    /\ WatchInit /\ [][WatchNext]_watchVars
                    /\ ExtInit /\ [][ExtNext]_extVars
                    /\ CommandsInit /\ [][CommandsNext]_commandVars
                    /\ ListingsInit /\ [][ListingsNext]_listingVars
<1>1. ServicesInit => /\ PulsesInit /\ ScopesInit /\ AttachInit /\ MigrationsInit
                      /\ CredentialsInit /\ SessionInit /\ WatchInit /\ ExtInit /\ CommandsInit
                      /\ ListingsInit
  BY DEF ServicesInit
<1>2. [ServicesNext]_vars =>
           /\ [PulsesNext]_pulseVars /\ [ScopesNext]_scopeVars /\ [AttachNext]_attachVars
           /\ [MigrationsNext]_migrationVars /\ [CredentialsNext]_credentialVars
           /\ [SessionNext]_sessionVars /\ [WatchNext]_watchVars /\ [ExtNext]_extVars
           /\ [CommandsNext]_commandVars /\ [ListingsNext]_listingVars
  BY ServicesStepIsOfEach
<1> QED  BY <1>1, <1>2, PTL DEF ServicesSpec, CredentialsSpec

LEMMA ServicesKeepInvs ==
    ServicesSpec => /\ []PulsesInv /\ []ScopesInv /\ []AttachInv /\ []MigrationInv
                    /\ []CredentialsInv /\ []SessionInv /\ []WatchInv /\ []ExtInv
                    /\ []CommandInv /\ []ModelsInv
<1>1. ScopesInit /\ [][ScopesNext]_scopeVars => []ScopesInv
  BY ScopesInvInit, ScopesInvStep, PTL
<1>2. CredentialsSpec => []CredentialsInv
  BY CredentialsStart, CredentialsKept, PTL DEF CredentialsSpec
<1>3. SessionInit /\ [][SessionNext]_sessionVars => []SessionInv
  BY SessionStarts, SessionKept, PTL
<1> QED  BY <1>1, <1>2, <1>3, ServicesIsOfEach, PulsesInvHolds, AttachInvHolds,
            MigrationsKeepInv, WatchKeepsInv, ExtKeepInv, CommandsKeepInv, ListingsKeepInv, PTL

\* Every component of the services keeps its variables in their types, in the composition that
\* is model-checked as well; but for the edited file, whose type stays with the model checker.
THEOREM ServicesTypesHold == ServicesSpec => [](part # "edits" => ServicesTypeOK)
<1>1. PulsesInv /\ ScopesInv /\ AttachInv /\ MigrationInv /\ CredentialsInv /\ SessionInv
      /\ WatchInv /\ ExtInv /\ CommandInv /\ ModelsInv
      => (part # "edits" => ServicesTypeOK)
  BY DEF ServicesTypeOK, PulsesInv, PulseTypes, ScopesInv, AttachInv, MigrationInv,
         CredentialsInv, SessionInv, WatchInv, ExtInv, CommandInv, ModelsInv
<1> QED  BY <1>1, ServicesKeepInvs, PTL

\* What is proved of the pulses, the Scopes, the attachment, the migrations, the credential
\* files, the sessions, the folder watch, the extensions, the commands and the listings holds
\* of the services they make up.
THEOREM ServicesStayTrue ==
    ServicesSpec =>
        /\ [](AgendaIsFaithful /\ GraphIsWiredAndServed /\ AttachmentIsTrue)
        /\ [](ServedTablesAreWhole /\ WokenOnce)
        /\ [](SessionIsFree /\ ResultIsWhole /\ ChangesAreInjected)
        /\ [](EntriesAreTrue /\ AnswerIsOwn)
        /\ [](AnswerIsTrue /\ ToolResultIsWhole)
        /\ [](OfferedIsServed /\ KeptIsWhole)
        /\ FiringIsFaithful /\ StartEndsServing /\ CredentialsAreKept
<1>1. SessionInv => SessionIsFree /\ ResultIsWhole /\ ChangesAreInjected
  BY DEF SessionInv, OverlayInv, ChangesAreInjected
<1>2. WatchInv => WokenOnce
  BY DEF WatchInv
<1>3. CommandInv => AnswerIsTrue /\ ToolResultIsWhole
  BY CommandInvImplies
<1>4. MigrationInv =>
        \A p \in Starters :
           (~torn /\ (\A q \in Starters \ {p} : starter[q] = Down) /\ MigrationProceeds(p))
              => starter'[p] # Down
  BY AloneNothingFails
<1>5. ServicesSpec => FiringIsFaithful
  BY PulseStepIsFaithful, ServicesIsOfEach, ServicesKeepInvs, PTL DEF FiringIsFaithful, FiringStep
<1>6. ServicesSpec => StartEndsServing
  BY <1>4, ServicesIsOfEach, ServicesKeepInvs, PTL DEF StartEndsServing
<1>7. ServicesSpec => CredentialsAreKept
  BY ServicesIsOfEach, CredentialsStayKept, PTL
<1> QED  BY <1>1, <1>2, <1>3, <1>5, <1>6, <1>7, ServicesKeepInvs, PulsesInvIsFaithful,
            QuietIsServed, AttachInvIsTrue, InvMeansWhole, ExtInvIsOwn, ModelsInvIsServed, PTL
===============================================================================
