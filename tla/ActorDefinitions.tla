--------------------------- MODULE ActorDefinitions ---------------------------
(***************************************************************************)
(* The definitions of a workspace's actors: .floe/floe.yaml lists them,    *)
(* .floe/agents/<id>.md defines each (floe-bridge/src/tools/actor-tools.ts *)
(* and project.ts; floe-app/src/actors: ActorInspector, NewActorForm and   *)
(* agentFile; floe-app/src/fs/workspaceFs.ts with the file commands of     *)
(* src-tauri and of floe-bus/src/server.ts; registerEndpoint and           *)
(* retireEndpoint of floe-bus/src/store.ts).                               *)
(*                                                                         *)
(* Agents create, update and remove actors with their tools, the operator  *)
(* writes the same files from the window, and the bridge registers what a  *)
(* scan read.  A tool works on the files in one go but for a removal,      *)
(* which waits for the bus and puts the files back when the bus refuses.   *)
(* The window writes whole files, made from what it loaded.                *)
(*                                                                         *)
(* A definition is two parts: the keys that no form shows (label, pulse,  *)
(* applied_from), and text, what the inspector edits (the lists and the    *)
(* instructions).  Each value is the number of the change that wrote it.   *)
(***************************************************************************)
EXTENDS Integers, FiniteSets

CONSTANTS
    AgentIds,             \* actors that may be defined
    Founders,             \* those defined and registered at first
    Inspected,            \* those whose inspector the operator opens
    ToolTurns,            \* numbers of the turns that may be removing an actor
    MaxChanges,           \* bounds: changes of a definition,
    MaxSaves,             \*   saves of the inspector, and no opening after the last,
    MaxDefinitionFaults   \*   calls that fail, crashes of the bridge

ASSUME DefinitionsAssumption ==
    /\ {Founders, Inspected} \subseteq SUBSET AgentIds /\ AgentIds # {}
    /\ ToolTurns \subseteq Nat /\ {MaxChanges, MaxSaves, MaxDefinitionFaults} \subseteq Nat

VARIABLES
    roster,      \* floe.yaml: the actors it lists
    definition,  \* the definition files
    endpoint,    \* endpoints: the status of each actor
    served,      \* endpointRuntime: the definition the bridge runs the actor with
    requested,   \* config_snapshot_requested, not heard yet
    scan,        \* the bridge's scan of the workspace
    removal,     \* remove_actor, of each turn
    inspector,   \* the inspector: what it loaded, its draft, and the row it shows
    save,        \* saves of the inspector on their way, at most one
    meant,       \* what was last written on purpose, part by part (history)
    raced,       \* written by one who had not seen what was there (history)
    clobbered,   \* a list was put back over another turn's changes (history)
    orphaned,    \* registered though not listed, by one who knew an older list (history)
    owed,        \* changed since, and no scan asked for (history)
    dropped,     \* a scan was asked for while one was under way, since its start (history)
    changes, savesMade, faults

defVars == <<roster, definition, endpoint, served, requested, scan, removal, inspector, save,
             meant, raced, clobbered, orphaned, owed, dropped, changes, savesMade,
             faults>>

ChangeNumbers == 0..MaxChanges
Parts == {"keys", "text"}
Definitions == [there : BOOLEAN, keys : ChangeNumbers, text : ChangeNumbers]
Absent == [there |-> FALSE, keys |-> 0, text |-> 0]
Written(stamp) == [there |-> TRUE, keys |-> stamp, text |-> stamp]

SomeAgent == CHOOSE a \in AgentIds : TRUE
ScanOver == [stage |-> "idle", todo |-> {}, found |-> [a \in AgentIds |-> Absent]]
NoRemoval == [stage |-> "idle", agent |-> SomeAgent, list |-> {}, file |-> Absent]
Closed == [phase |-> "closed", agent |-> SomeAgent, row |-> "none", loaded |-> Absent,
           draft |-> Absent, saving |-> FALSE]

EndpointStatuses == {"none", "idle", "running", "retired"}

DefinitionsTypeOK ==
    /\ roster \subseteq AgentIds
    /\ {definition, served, meant} \subseteq [AgentIds -> Definitions]
    /\ endpoint \in [AgentIds -> EndpointStatuses]
    /\ scan \in [stage : {"idle", "listed", "register"}, todo : SUBSET AgentIds,
                 found : [AgentIds -> Definitions]]
    /\ removal \in [ToolTurns -> [stage : {"idle", "sent", "done", "refused"}, agent : AgentIds,
                                  list : SUBSET AgentIds, file : Definitions]]
    /\ inspector \in [phase : {"closed", "loading", "loaded", "error"}, agent : AgentIds,
                      row : EndpointStatuses, loaded : Definitions, draft : Definitions,
                      saving : BOOLEAN]
    /\ save \subseteq [agent : AgentIds, contents : Definitions, loaded : Definitions]
    /\ {raced, orphaned, owed} \subseteq SUBSET AgentIds
    /\ {requested, clobbered, dropped} \subseteq BOOLEAN
    /\ changes \in 0..MaxChanges /\ savesMade \in 0..MaxSaves /\ faults \in 0..MaxDefinitionFaults

DefinitionsInit ==
    /\ roster = Founders
    /\ definition = [a \in AgentIds |-> IF a \in Founders THEN Written(0) ELSE Absent]
    /\ endpoint = [a \in AgentIds |-> IF a \in Founders THEN "idle" ELSE "none"]
    /\ served = definition /\ meant = definition
    /\ requested = FALSE /\ scan = ScanOver
    /\ removal = [t \in ToolTurns |-> NoRemoval]
    /\ inspector = Closed /\ save = {}
    /\ raced = {} /\ clobbered = FALSE /\ orphaned = {} /\ owed = {} /\ dropped = FALSE
    /\ changes = 0 /\ savesMade = 0 /\ faults = 0

Stamp == changes + 1
Changing == changes < MaxChanges /\ changes' = changes + 1
CallFails == faults < MaxDefinitionFaults /\ faults' = faults + 1

-----------------------------------------------------------------------------
(* The tools of the agents                                                 *)

\* requestConfigSnapshot, after the files are written.  A failure is only logged.
AskScan(a) ==
    \/ requested' = TRUE /\ owed' = owed \ {a} /\ UNCHANGED faults
    \/ CallFails /\ owed' = owed \cup {a} /\ UNCHANGED requested

\* create_actor refuses when there is a definition.
CreateActor(a) ==
    /\ ~definition[a].there /\ Changing
    /\ definition' = [definition EXCEPT ![a] = Written(Stamp)]
    /\ meant' = [meant EXCEPT ![a] = Written(Stamp)]
    /\ roster' = roster \cup {a}
    /\ raced' = raced \ {a} /\ orphaned' = orphaned \ {a}
    /\ AskScan(a)
    /\ UNCHANGED <<endpoint, served, scan, removal, inspector, save, clobbered, dropped, savesMade>>

\* update_actor: the part that is named, in what the file holds now.
UpdateActor(a, p) ==
    /\ definition[a].there /\ Changing
    /\ definition' = [definition EXCEPT ![a][p] = Stamp]
    /\ meant' = [meant EXCEPT ![a][p] = Stamp]
    /\ AskScan(a)
    /\ UNCHANGED <<roster, endpoint, served, scan, removal, inspector, save, raced, clobbered,
                   orphaned, dropped, savesMade>>

\* remove_actor takes the actor off the list and deletes its file, then calls the bus.  The
\* turns differ in nothing: the first free one is taken.
StartRemoval(t, a) ==
    /\ removal[t].stage = "idle" /\ a \in roster /\ Changing
    /\ \A u \in ToolTurns : u < t => removal[u].stage # "idle"
    /\ removal' = [removal EXCEPT ![t] = [stage |-> "sent", agent |-> a, list |-> roster,
                                          file |-> definition[a]]]
    /\ roster' = roster \ {a}
    /\ definition' = [definition EXCEPT ![a] = Absent]
    /\ UNCHANGED <<endpoint, served, requested, scan, inspector, save, meant, raced, clobbered,
                   orphaned, owed, dropped, savesMade, faults>>

Answered(t, stage) == removal' = [removal EXCEPT ![t].stage = stage]
MayRetire(a) == endpoint[a] \in {"idle", "retired"}

\* retireEndpoint: 404 for an actor that was never registered, 409 for one at work.
RetireEndpoint(t) ==
    LET a == removal[t].agent IN
    /\ removal[t].stage = "sent"
    /\ IF MayRetire(a)
       THEN /\ endpoint' = [endpoint EXCEPT ![a] = "retired"]
            /\ orphaned' = orphaned \ {a}
            /\ Answered(t, "done")
       ELSE Answered(t, "refused") /\ UNCHANGED <<endpoint, orphaned>>
    /\ UNCHANGED <<roster, definition, served, requested, scan, inspector, save, meant, raced,
                   clobbered, owed, dropped, savesMade, changes, faults>>

\* The call, or its answer, is lost.
RetireFails(t) ==
    LET a == removal[t].agent IN
    /\ removal[t].stage = "sent" /\ CallFails /\ Answered(t, "refused")
    /\ \/ UNCHANGED endpoint
       \/ MayRetire(a) /\ endpoint' = [endpoint EXCEPT ![a] = "retired"]
    /\ UNCHANGED <<roster, definition, served, requested, scan, inspector, save, meant, raced,
                   clobbered, orphaned, owed, dropped, savesMade, changes>>

FinishRemoval(t) ==
    /\ removal[t].stage = "done"
    /\ removal' = [removal EXCEPT ![t] = NoRemoval]
    /\ AskScan(removal[t].agent)
    /\ UNCHANGED <<roster, definition, endpoint, served, scan, inspector, save, meant, raced,
                   clobbered, orphaned, dropped, savesMade, changes>>

Restored(t) == [definition EXCEPT ![removal[t].agent] =
                  IF removal[t].file.there THEN removal[t].file ELSE @]

\* What putting the list and the file back takes away, and whom it leaves to a later scan.
PutsBack(t) ==
    LET a == removal[t].agent IN
    /\ clobbered' = (clobbered \/ roster # removal[t].list \ {a})
    /\ raced' = IF removal[t].file # meant[a] THEN raced \cup {a} ELSE raced
    /\ orphaned' = orphaned \ {a}
    /\ owed' = IF endpoint[a] = "retired" \/ served[a] # definition'[a]
               THEN owed \cup {a} ELSE owed

\* Mutant of PutBack: the list only.
PutListBack(t) ==
    /\ removal[t].stage = "refused"
    /\ removal' = [removal EXCEPT ![t] = NoRemoval]
    /\ roster' = removal[t].list /\ UNCHANGED definition /\ PutsBack(t)
    /\ UNCHANGED <<endpoint, served, requested, scan, inspector, save, meant, dropped, savesMade,
                   changes, faults>>

\* The catch of remove_actor: the whole list and the file as they were.  No scan is asked for.
PutBack(t) ==
    /\ removal[t].stage = "refused"
    /\ removal' = [removal EXCEPT ![t] = NoRemoval]
    /\ roster' = removal[t].list /\ definition' = Restored(t) /\ PutsBack(t)
    /\ UNCHANGED <<endpoint, served, requested, scan, inspector, save, meant, dropped, savesMade,
                   changes, faults>>

-----------------------------------------------------------------------------
(* The bridge and the bus                                                  *)

\* attachKnownWorkspaces: not while a scan is under way.
HearRequest ==
    /\ requested /\ requested' = FALSE
    /\ IF scan.stage = "idle"
       THEN scan' = [ScanOver EXCEPT !.stage = "listed"] /\ dropped' = FALSE
       ELSE dropped' = TRUE /\ UNCHANGED scan
    /\ UNCHANGED <<roster, definition, endpoint, served, removal, inspector, save, meant, raced,
                   clobbered, orphaned, owed, changes, faults, savesMade>>

\* loadProject reads the list and the listed files in one go.  A missing file makes the
\* project invalid, and nothing of it is registered.
ReadProject ==
    /\ scan.stage = "listed"
    /\ IF \A a \in roster : definition[a].there
       THEN /\ scan' = IF roster = {} THEN ScanOver
                       ELSE [stage |-> "register", todo |-> roster,
                             found |-> [a \in AgentIds |-> IF a \in roster THEN definition[a]
                                                           ELSE Absent]]
            /\ owed' = owed \ roster /\ dropped' = FALSE
       ELSE scan' = ScanOver /\ UNCHANGED <<owed, dropped>>
    /\ UNCHANGED <<roster, definition, endpoint, served, requested, removal, inspector, save,
                   meant, raced, clobbered, orphaned, changes, faults, savesMade>>

\* registerEndpoint replaces the row, whatever it says: a retired actor is active again.
RegisterFound(a) ==
    /\ scan.stage = "register" /\ a \in scan.todo
    /\ served' = [served EXCEPT ![a] = scan.found[a]]
    /\ endpoint' = [endpoint EXCEPT ![a] = "idle"]
    /\ scan' = IF scan.todo = {a} THEN ScanOver
               ELSE [scan EXCEPT !.todo = @ \ {a}, !.found[a] = Absent]
    /\ orphaned' = IF a \in roster THEN orphaned ELSE orphaned \cup {a}
    /\ UNCHANGED <<roster, definition, requested, removal, inspector, save, meant, raced,
                   clobbered, owed, dropped, savesMade, changes, faults>>

\* A delivery to the actor, and the end of its turn.
ActorWorks(a) ==
    /\ endpoint[a] = "idle" /\ endpoint' = [endpoint EXCEPT ![a] = "running"]
    /\ UNCHANGED <<roster, definition, served, requested, scan, removal, inspector, save, meant,
                   raced, clobbered, orphaned, owed, dropped, savesMade, changes, faults>>

ActorPauses(a) ==
    /\ endpoint[a] = "running" /\ endpoint' = [endpoint EXCEPT ![a] = "idle"]
    /\ UNCHANGED <<roster, definition, served, requested, scan, removal, inspector, save, meant,
                   raced, clobbered, orphaned, owed, dropped, savesMade, changes, faults>>

\* The bridge ends in the middle of what it did, and scans when it starts.
BridgeEnds ==
    /\ CallFails
    /\ removal' = [t \in ToolTurns |-> NoRemoval]
    /\ orphaned' = orphaned \cup {a \in AgentIds : \E t \in ToolTurns :
                     removal[t].stage \in {"sent", "refused"} /\ removal[t].agent = a}
    /\ served' = [a \in AgentIds |-> Absent]
    /\ scan' = [ScanOver EXCEPT !.stage = "listed"] /\ requested' = FALSE /\ dropped' = FALSE
    /\ UNCHANGED <<roster, definition, endpoint, inspector, save, meant, raced, clobbered, owed,
                   changes, savesMade>>

-----------------------------------------------------------------------------
(* The window                                                              *)

\* ActorView offers the inspector for an actor whose row is not retired.
OpenDefinition(a) ==
    /\ a \in Inspected /\ endpoint[a] \notin {"none", "retired"} /\ inspector.phase = "closed"
    /\ savesMade < MaxSaves
    /\ inspector' = [Closed EXCEPT !.phase = "loading", !.agent = a, !.row = endpoint[a]]
    /\ UNCHANGED <<roster, definition, endpoint, served, requested, scan, removal, save, meant,
                   raced, clobbered, orphaned, owed, dropped, savesMade, changes, faults>>

CloseInspector ==
    /\ inspector.phase # "closed" /\ inspector' = Closed
    /\ UNCHANGED <<roster, definition, endpoint, served, requested, scan, removal, save, meant,
                   raced, clobbered, orphaned, owed, dropped, savesMade, changes, faults>>

\* readWorkspaceFile, then parseAgentFile.
LoadDefinition ==
    /\ inspector.phase = "loading"
    /\ LET found == definition[inspector.agent]
       IN inspector' = IF found.there
                       THEN [inspector EXCEPT !.phase = "loaded", !.loaded = found,
                                              !.draft = found]
                       ELSE [inspector EXCEPT !.phase = "error"]
    /\ UNCHANGED <<roster, definition, endpoint, served, requested, scan, removal, save, meant,
                   raced, clobbered, orphaned, owed, dropped, savesMade, changes, faults>>

EditDraft(p) ==
    /\ inspector.phase = "loaded" /\ p # "keys" /\ Changing
    /\ inspector' = [inspector EXCEPT !.draft[p] = Stamp]
    /\ UNCHANGED <<roster, definition, endpoint, served, requested, scan, removal, save, meant,
                   raced, clobbered, orphaned, owed, dropped, savesMade, faults>>

\* handleSave: the keys as they were loaded, and the draft.
SaveDefinition ==
    /\ inspector.phase = "loaded" /\ ~inspector.saving /\ save = {}
    /\ savesMade < MaxSaves /\ savesMade' = savesMade + 1
    /\ save' = {[agent |-> inspector.agent, contents |-> inspector.draft,
                 loaded |-> inspector.loaded]}
    /\ inspector' = [inspector EXCEPT !.saving = TRUE]
    /\ UNCHANGED <<roster, definition, endpoint, served, requested, scan, removal, meant, raced,
                   clobbered, orphaned, owed, dropped, changes, faults>>

\* writeWorkspaceFile: whatever is there is overwritten, and a missing file is made.
SaveArrives ==
    \E w \in save :
    LET a == w.agent IN
    /\ save' = {}
    /\ definition' = [definition EXCEPT ![a] = w.contents]
    /\ meant' = [meant EXCEPT ![a] = [p \in DOMAIN Absent |->
                   IF p = "there" \/ w.contents[p] # w.loaded[p] THEN w.contents[p] ELSE @[p]]]
    /\ raced' = IF definition[a] # w.loaded THEN raced \cup {a} ELSE raced
    /\ owed' = owed \cup {a}
    /\ inspector' = IF inspector.saving
                    THEN [inspector EXCEPT !.saving = FALSE, !.loaded = w.contents]
                    ELSE inspector
    /\ UNCHANGED <<roster, endpoint, served, requested, scan, removal, clobbered, orphaned,
                   dropped, savesMade, changes, faults>>

SaveFails ==
    /\ save # {} /\ save' = {} /\ CallFails
    /\ inspector' = [inspector EXCEPT !.saving = FALSE]
    /\ UNCHANGED <<roster, definition, endpoint, served, requested, scan, removal, meant, raced,
                   clobbered, orphaned, owed, dropped, savesMade, changes>>

\* handleNameSave registers the endpoint with the status of the row the window has.
RenameActor ==
    /\ inspector.phase # "closed" /\ Changing
    /\ endpoint' = [endpoint EXCEPT ![inspector.agent] = inspector.row]
    /\ orphaned' = IF inspector.agent \in roster THEN orphaned
                   ELSE orphaned \cup {inspector.agent}
    /\ UNCHANGED <<roster, definition, served, requested, scan, removal, inspector, save, meant,
                   raced, clobbered, owed, dropped, savesMade, faults>>

\* NewActorForm writes the file of an actor that has no endpoint.  It lists it nowhere.
SubmitForm(a) ==
    /\ endpoint[a] = "none" /\ Changing
    /\ definition' = [definition EXCEPT ![a] = Written(Stamp)]
    /\ meant' = [meant EXCEPT ![a] = Written(Stamp)]
    /\ owed' = owed \cup {a}
    /\ UNCHANGED <<roster, endpoint, served, requested, scan, removal, inspector, save, raced,
                   clobbered, orphaned, dropped, savesMade, faults>>

-----------------------------------------------------------------------------
DefinitionsNext ==
    \/ \E a \in AgentIds : CreateActor(a) \/ RegisterFound(a) \/ ActorWorks(a) \/ ActorPauses(a)
                             \/ OpenDefinition(a) \/ SubmitForm(a)
    \/ \E a \in AgentIds, p \in Parts : UpdateActor(a, p)
    \/ \E t \in ToolTurns, a \in AgentIds : StartRemoval(t, a)
    \/ \E t \in ToolTurns : RetireEndpoint(t) \/ RetireFails(t) \/ FinishRemoval(t) \/ PutBack(t)
    \/ HearRequest \/ ReadProject \/ BridgeEnds
    \/ CloseInspector \/ LoadDefinition \/ SaveDefinition \/ SaveArrives \/ SaveFails
    \/ RenameActor
    \/ \E p \in Parts : EditDraft(p)

DefinitionsSpec == DefinitionsInit /\ [][DefinitionsNext]_defVars

-----------------------------------------------------------------------------
(* Properties                                                              *)

AtRest == ~requested /\ scan.stage = "idle" /\ \A t \in ToolTurns : removal[t].stage = "idle"

\* Every listed actor has its file, unless a list was put back over another turn's changes.
ListedAreDefined == ~clobbered => \A a \in roster : definition[a].there

\* A file holds what was last written on purpose, unless one who had not seen it overwrote it.
ChangesAreKept ==
    \A a \in AgentIds \ raced : definition[a].there => definition[a] = meant[a]

\* When tools and scans have ended, an actor that can be woken is listed.
ActiveAreListed ==
    AtRest /\ ~clobbered =>
      \A a \in AgentIds \ orphaned : endpoint[a] \in {"idle", "running"} => a \in roster

\* And a listed actor is registered and runs with the definition its file holds, unless no
\* scan was asked for since the file changed, or one was asked for while another ran.
ListedAreServed ==
    AtRest /\ ~clobbered /\ ~dropped =>
      \A a \in roster \ owed : endpoint[a] \in {"idle", "running"} /\ served[a] = definition[a]

\* The list, the files, the endpoints of the bus and what the bridge runs the actors with agree,
\* but for the races the history variables record: removals of two agents at once, a stale
\* window, a crash in the middle of a removal and requests the bridge does not hear.
DefinitionsAreTrue ==
    ListedAreDefined /\ ChangesAreKept /\ ActiveAreListed /\ ListedAreServed
=============================================================================
