----------------------------- MODULE Attachment -----------------------------
(***************************************************************************)
(* Attaching a workspace and configuring its actors' runtimes (floe-bus/   *)
(* src/store.ts and server.ts: workspaces, endpoints, runtime_bindings;    *)
(* floe-bridge/src/daemon.ts: attachWorkspace, reportOnce, applySavedConfig*)
(* returnSnapshot, resolveAuthProfile; floe-bridge/src/project.ts).        *)
(*                                                                         *)
(* One workspace folder and its row.  Three jobs of the bridge may run at  *)
(* a time: the attach scan, the application of a saved configuration and a *)
(* snapshot.  Each reads the folder once and then calls the bus, call by   *)
(* call; a scan that is asked for while one is under way is not started.   *)
(***************************************************************************)
EXTENDS Integers, FiniteSets

CONSTANTS
    Agents,           \* actors the folder may declare
    Built,            \* those of the project template
    Saved,            \* those of the saved configuration
    MaxFolderEdits,   \* bounds: edits of the folder,
    MaxOwnerCalls,    \*   the owner's calls,
    MaxCallFaults     \*   calls of the bridge that fail

ASSUME AttachmentAssumption ==
    /\ Built \subseteq Agents /\ Saved \subseteq Agents /\ Agents # {}
    /\ MaxFolderEdits \in Nat /\ MaxOwnerCalls \in Nat /\ MaxCallFaults \in Nat

VARIABLES
    folder,    \* the workspace folder: its configuration, which is numbered
    ws,        \* the row of the workspace
    actor,     \* endpoints: the status of each actor
    binding,   \* runtime_bindings: per actor, of the workspace, and global
    asks,      \* the bridge's stream: messages not handled yet
    job,       \* the bridge's jobs
    reported,  \* reportedAttachments: the last report, whatever became of it
    dropped,   \* a scan was asked for while one was under way, since its start (history)
    stale,     \* the row was made anew, or a report failed, after the last report (history)
    overlap,   \* a job was at work when the owner, or another job, changed the folder, the
               \* row or the bindings (history)
    ownerCalls, callFaults

attachVars == <<folder, ws, actor, binding, asks, job, reported, dropped, stale, overlap,
                ownerCalls, callFaults>>

Hashes == 0..(MaxFolderEdits + MaxOwnerCalls + 1)        \* 0: null
Jobs == {"scan", "apply", "snapshot"}
Notices == {"attach", "apply", "snapshot"}
Unregistered == [there |-> FALSE, status |-> "registered", hash |-> 0]
NoReport == [status |-> "none", hash |-> 0]
Statuses == {"registered", "attached", "config_invalid", "config_drift", "attach_failed",
             "workspace_inaccessible", "config_apply_failed"}
IdleJob == [stage |-> "idle", applies |-> FALSE, listed |-> FALSE, active |-> 0, hash |-> 0,
            agents |-> {}, at |-> CHOOSE a \in Agents : TRUE, auth |-> FALSE]

AttachTypeOK ==
    /\ folder \in [there : BOOLEAN, made : BOOLEAN, hash : Hashes, agents : SUBSET Agents,
                   valid : BOOLEAN]
    /\ ws \in [there : BOOLEAN, status : Statuses, hash : Hashes]
    /\ actor \in [Agents -> {"none", "idle", "runtime_unconfigured", "running", "retired"}]
    /\ binding \in [agents : SUBSET Agents, workspace : BOOLEAN, global : BOOLEAN]
    /\ asks \subseteq Notices
    /\ job \in [Jobs -> [stage : {"idle", "listed", "import", "resolve", "register"},
                         applies : BOOLEAN, listed : BOOLEAN, active : Hashes, hash : Hashes,
                         agents : SUBSET Agents, at : Agents, auth : BOOLEAN]]
    /\ reported \in [status : Statuses \cup {"none"}, hash : Hashes]
    /\ {dropped, stale, overlap} \subseteq BOOLEAN
    /\ ownerCalls \in 0..MaxOwnerCalls /\ callFaults \in 0..MaxCallFaults

\* The folder is an existing directory without a project.
AttachInit ==
    /\ folder = [there |-> TRUE, made |-> FALSE, hash |-> 0, agents |-> {}, valid |-> TRUE]
    /\ ws = Unregistered
    /\ actor = [a \in Agents |-> "none"]
    /\ binding = [agents |-> {}, workspace |-> FALSE, global |-> FALSE]
    /\ asks = {} /\ job = [j \in Jobs |-> IdleJob]
    /\ reported = NoReport /\ dropped = FALSE /\ stale = FALSE /\ overlap = FALSE
    /\ ownerCalls = 0 /\ callFaults = 0

OwnerCall == ownerCalls < MaxOwnerCalls /\ ownerCalls' = ownerCalls + 1
AtWork(j) == job[j].stage # "idle"
Disturbs == overlap' = (overlap \/ \E j \in Jobs : AtWork(j))

\* resolveAuthProfile: the profile of the actor, of the workspace, or the global one.
Resolves(a) == a \in binding.agents \/ binding.workspace \/ binding.global

-----------------------------------------------------------------------------
(* The owner: the folder                                                   *)

EditFolder(agents, valid) ==
    /\ folder.there /\ folder.made /\ folder.hash < MaxFolderEdits
    /\ agents # folder.agents \/ valid # folder.valid
    /\ folder' = [folder EXCEPT !.hash = @ + 1, !.agents = agents, !.valid = valid]
    /\ Disturbs
    /\ UNCHANGED <<ws, actor, binding, asks, job, reported, dropped, stale, ownerCalls,
                   callFaults>>

RemoveFolder ==
    /\ folder.there /\ OwnerCall
    /\ folder' = [folder EXCEPT !.there = FALSE]
    /\ Disturbs
    /\ UNCHANGED <<ws, actor, binding, asks, job, reported, dropped, stale, callFaults>>

-----------------------------------------------------------------------------
(* The owner: the bus                                                      *)

\* Mutant of RegisterWorkspace: the bridge is not told.
RegisterQuietly ==
    /\ OwnerCall
    /\ folder' = [folder EXCEPT !.there = TRUE, !.made = @ /\ folder.there]
    /\ ws' = IF ws.there THEN ws ELSE [Unregistered EXCEPT !.there = TRUE]
    /\ stale' = (stale \/ (~ws.there /\ reported # NoReport))
    /\ UNCHANGED <<actor, binding, asks, job, reported, dropped, overlap, callFaults>>

\* POST workspaces/register, with create_directory.
RegisterWorkspace ==
    /\ OwnerCall
    /\ folder' = [folder EXCEPT !.there = TRUE, !.made = @ /\ folder.there]
    /\ ws' = IF ws.there THEN ws ELSE [Unregistered EXCEPT !.there = TRUE]
    /\ stale' = (stale \/ (~ws.there /\ reported # NoReport))
    /\ asks' = asks \cup {"attach"}
    /\ UNCHANGED <<actor, binding, job, reported, dropped, overlap, callFaults>>

\* POST select, and the other messages that make the bridge look again.
SelectWorkspace ==
    /\ ws.there /\ OwnerCall
    /\ asks' = asks \cup {"attach"}
    /\ UNCHANGED <<folder, ws, actor, binding, job, reported, dropped, stale, overlap, callFaults>>

\* deleteWorkspace.  The bridge is not told to forget anything.
DeleteWorkspace(locator) ==
    /\ ws.there /\ OwnerCall
    /\ folder' = IF locator THEN [folder EXCEPT !.there = FALSE] ELSE folder
    /\ ws' = Unregistered
    /\ actor' = [a \in Agents |-> "none"]
    /\ binding' = [binding EXCEPT !.agents = {}, !.workspace = FALSE]
    /\ Disturbs
    /\ UNCHANGED <<asks, job, reported, dropped, stale, callFaults>>

\* A bound actor that waited for its runtime is made ready.
BindAgent(a) ==
    /\ ws.there /\ OwnerCall
    /\ binding' = [binding EXCEPT !.agents = @ \cup {a}]
    /\ actor' = IF actor[a] = "runtime_unconfigured" THEN [actor EXCEPT ![a] = "idle"] ELSE actor
    /\ asks' = asks \cup {"attach"} /\ Disturbs
    /\ UNCHANGED <<folder, ws, job, reported, dropped, stale, callFaults>>

BindWorkspace ==
    /\ ws.there /\ OwnerCall
    /\ binding' = [binding EXCEPT !.workspace = TRUE]
    /\ actor' = [a \in Agents |-> IF actor[a] = "runtime_unconfigured" THEN "idle" ELSE actor[a]]
    /\ asks' = asks \cup {"attach"} /\ Disturbs
    /\ UNCHANGED <<folder, ws, job, reported, dropped, stale, callFaults>>

SetGlobal(bound) ==
    /\ binding.global # bound /\ OwnerCall
    /\ binding' = [binding EXCEPT !.global = bound]
    /\ asks' = asks \cup {"attach"} /\ Disturbs
    /\ UNCHANGED <<folder, ws, actor, job, reported, dropped, stale, callFaults>>

\* Whatever the endpoint does, and whatever else it resolves to.
ClearAgent(a) ==
    /\ a \in binding.agents /\ OwnerCall
    /\ binding' = [binding EXCEPT !.agents = @ \ {a}]
    /\ actor' = IF actor[a] = "none" THEN actor
                ELSE [actor EXCEPT ![a] = "runtime_unconfigured"]
    /\ asks' = asks \cup {"attach"} /\ Disturbs
    /\ UNCHANGED <<folder, ws, job, reported, dropped, stale, callFaults>>

ClearWorkspace ==
    /\ binding.workspace /\ OwnerCall
    /\ binding' = [binding EXCEPT !.workspace = FALSE]
    /\ actor' = [a \in Agents |->
                   IF actor[a] \in {"none", "retired"} THEN actor[a] ELSE "runtime_unconfigured"]
    /\ asks' = asks \cup {"attach"} /\ Disturbs
    /\ UNCHANGED <<folder, ws, job, reported, dropped, stale, callFaults>>

Retirable == {"idle", "runtime_unconfigured", "retired"}
RetireActor(a) ==
    /\ actor[a] \in Retirable /\ OwnerCall
    /\ actor' = [actor EXCEPT ![a] = "retired"]
    /\ binding' = [binding EXCEPT !.agents = @ \ {a}]
    /\ Disturbs
    /\ UNCHANGED <<folder, ws, asks, job, reported, dropped, stale, callFaults>>

\* A delivery, and the end of its turn: the bus, or the runtime.
ActorRuns(a) ==
    /\ actor[a] = "idle"
    /\ actor' = [actor EXCEPT ![a] = "running"]
    /\ UNCHANGED <<folder, ws, binding, asks, job, reported, dropped, stale, overlap, ownerCalls,
                   callFaults>>

ActorRests(a) ==
    /\ actor[a] = "running"
    /\ actor' = [actor EXCEPT ![a] = "idle"]
    /\ UNCHANGED <<folder, ws, binding, asks, job, reported, dropped, stale, overlap, ownerCalls,
                   callFaults>>

\* POST apply-config and config-snapshot.
AskBridge(notice) ==
    /\ notice # "attach" /\ ws.there /\ OwnerCall
    /\ asks' = asks \cup {notice}
    /\ UNCHANGED <<folder, ws, actor, binding, job, reported, dropped, stale, overlap, callFaults>>

-----------------------------------------------------------------------------
(* The bridge                                                              *)

Failing == callFaults < MaxCallFaults /\ callFaults' = callFaults + 1

\* listWorkspaces: a job works with the row as it was then.
Listed(j) == [IdleJob EXCEPT !.stage = "listed", !.applies = (j = "apply"),
                             !.listed = ws.there, !.active = ws.hash]

\* handleEventStreamMessage.  config_snapshot_requested asks for a scan as well.
HearAsk(notice) ==
    /\ notice \in asks
    /\ notice # "attach" => ~AtWork(notice)
    /\ asks' = asks \ {notice}
    /\ LET scans == notice # "apply"
           starts == ({notice} \cap {"apply", "snapshot"})
                       \cup (IF scans /\ ~AtWork("scan") THEN {"scan"} ELSE {})
       IN /\ job' = [j \in Jobs |-> IF j \in starts THEN Listed(j) ELSE job[j]]
          /\ dropped' = IF scans THEN AtWork("scan") ELSE dropped
          /\ overlap' = (overlap /\ \E j \in Jobs : AtWork(j))
    /\ UNCHANGED <<folder, ws, actor, binding, reported, stale, ownerCalls, callFaults>>

HashAfter(status, hash) == IF status = "config_drift" \/ hash = 0 THEN ws.hash ELSE hash

\* Mutant of ReportOnce: reports that differ in their hash alone are taken for one.
ReportsStatusOnce(status, hash) ==
    IF reported.status = status
    THEN UNCHANGED <<ws, reported, stale>>
    ELSE /\ reported' = [status |-> status, hash |-> hash]
         /\ ws' = IF ws.there THEN [ws EXCEPT !.status = status, !.hash = HashAfter(status, hash)]
                  ELSE ws
         /\ stale' = ~ws.there

\* reportOnce: the report is noted before it is made, and made only when it is another one.
ReportOnce(status, hash) ==
    IF reported = [status |-> status, hash |-> hash]
    THEN UNCHANGED <<ws, reported, stale>>
    ELSE /\ reported' = [status |-> status, hash |-> hash]
         /\ ws' = IF ws.there THEN [ws EXCEPT !.status = status, !.hash = HashAfter(status, hash)]
                  ELSE ws
         /\ stale' = ~ws.there

\* A job that writes the folder while another one works on what it read of it.
Rewrites(j) == overlap' = (overlap \/ (folder' # folder /\ \E k \in Jobs \ {j} : AtWork(k)))
Ends(j) == job' = [job EXCEPT ![j] = IdleJob]
StageOf(j, stage) == job' = [job EXCEPT ![j].stage = stage]

\* ensureProjectTemplate writes the files that are missing; materializeSavedConfig adds actors.
Templated ==
    IF folder.made THEN folder
    ELSE [folder EXCEPT !.made = TRUE, !.hash = @ + 1, !.agents = Built, !.valid = TRUE]
Materialized ==
    IF Saved \subseteq Templated.agents THEN Templated
    ELSE [Templated EXCEPT !.hash = @ + 1, !.agents = @ \cup Saved]

\* attachWorkspace: the folder is read in one go.
ReadFolder(j) ==
    /\ j # "snapshot" /\ job[j].stage = "listed" /\ ~job[j].applies
    /\ IF ~job[j].listed
       THEN Ends(j) /\ UNCHANGED <<folder, ws, reported, stale>>
       ELSE IF ~folder.there
       THEN Ends(j) /\ ReportOnce("workspace_inaccessible", 0) /\ UNCHANGED folder
       ELSE /\ folder' = Templated
            /\ IF ~Templated.valid
               THEN Ends(j) /\ ReportOnce("config_invalid", Templated.hash)
               ELSE /\ job' = [job EXCEPT ![j] =
                         [@ EXCEPT !.hash = Templated.hash, !.agents = Templated.agents,
                                   !.stage = IF job[j].active \notin {0, Templated.hash}
                                             THEN "import" ELSE "resolve"]]
                    /\ UNCHANGED <<ws, reported, stale>>
    /\ Rewrites(j)
    /\ UNCHANGED <<actor, binding, asks, dropped, ownerCalls, callFaults>>

\* applySavedConfig: the saved configuration may be missing, for the bus passes any id on.
\* The actors are registered whether the configuration is valid or not.
Materialize ==
    /\ job["apply"].stage = "listed" /\ job["apply"].applies
    /\ IF ~job["apply"].listed
       THEN Ends("apply") /\ UNCHANGED <<folder, ws, reported, stale>>
       ELSE IF ~folder.there
       THEN Ends("apply") /\ ReportOnce("workspace_inaccessible", 0) /\ UNCHANGED folder
       ELSE \/ /\ Ends("apply") /\ ReportOnce("config_apply_failed", 0)
               /\ UNCHANGED folder
            \/ /\ folder' = Materialized
               /\ job' = [job EXCEPT !["apply"] =
                    [@ EXCEPT !.stage = "resolve", !.hash = Materialized.hash,
                              !.agents = Materialized.agents]]
               /\ UNCHANGED <<ws, reported, stale>>
    /\ Rewrites("apply")
    /\ UNCHANGED <<actor, binding, asks, dropped, ownerCalls, callFaults>>

\* returnSnapshot imports what it reads, valid or not.
ReadSnapshot ==
    /\ job["snapshot"].stage = "listed"
    /\ IF job["snapshot"].listed /\ folder.there /\ folder.made
       THEN job' = [job EXCEPT !["snapshot"] = [@ EXCEPT !.stage = "import", !.hash = folder.hash]]
       ELSE Ends("snapshot")
    /\ UNCHANGED <<folder, ws, actor, binding, asks, reported, dropped, stale, overlap, ownerCalls,
                   callFaults>>

\* importConfigSnapshot.  An application goes on to attach the workspace with the new hash.
Import(j) ==
    /\ job[j].stage = "import"
    /\ ws' = IF ws.there THEN [ws EXCEPT !.status = "attached", !.hash = job[j].hash] ELSE ws
    /\ IF job[j].applies
       THEN /\ job' = [job EXCEPT ![j] = [IdleJob EXCEPT !.stage = "listed", !.listed = TRUE,
                                                         !.active = job[j].hash]]
            /\ reported' = NoReport
       ELSE /\ IF j = "snapshot" THEN Ends(j) ELSE StageOf(j, "resolve")
            /\ UNCHANGED reported
    /\ UNCHANGED <<folder, actor, binding, asks, dropped, stale, overlap, ownerCalls, callFaults>>

\* The actors one by one: resolveAuthProfile, then registerEndpoint with what it found.
ResolveActor(j, a) ==
    /\ job[j].stage = "resolve" /\ a \in job[j].agents
    /\ job' = [job EXCEPT ![j] = [job[j] EXCEPT !.stage = "register", !.at = a,
                                                !.agents = @ \ {a}, !.auth = Resolves(a)]]
    /\ UNCHANGED <<folder, ws, actor, binding, asks, reported, dropped, stale, overlap, ownerCalls,
                   callFaults>>

\* Whatever the actor does, and also when it was retired or its workspace deleted.
RegisterActor(j) ==
    /\ job[j].stage = "register"
    /\ actor' = [actor EXCEPT ![job[j].at] =
                   IF job[j].auth THEN "idle" ELSE "runtime_unconfigured"]
    /\ StageOf(j, "resolve")
    /\ UNCHANGED <<folder, ws, binding, asks, reported, dropped, stale, overlap, ownerCalls,
                   callFaults>>

FinishActors(j) ==
    /\ job[j].stage = "resolve" /\ job[j].agents = {}
    /\ IF job[j].applies THEN StageOf(j, "import") /\ UNCHANGED <<ws, reported, stale>>
       ELSE Ends(j) /\ ReportOnce("attached", job[j].hash)
    /\ UNCHANGED <<folder, actor, binding, asks, dropped, overlap, ownerCalls, callFaults>>

\* The final report is lost.
ReportFails(j) ==
    /\ job[j].stage = "resolve" /\ job[j].agents = {} /\ ~job[j].applies /\ Failing
    /\ reported # [status |-> "attached", hash |-> job[j].hash]
    /\ reported' = [status |-> "attached", hash |-> job[j].hash]
    /\ stale' = TRUE /\ Ends(j)
    /\ UNCHANGED <<folder, ws, actor, binding, asks, dropped, overlap, ownerCalls>>

\* A call of an attachment fails: caught and reported.
AttachFails(j) ==
    /\ job[j].stage \in {"import", "register"} /\ j # "snapshot" /\ ~job[j].applies /\ Failing
    /\ Ends(j)
    /\ ReportOnce(IF job[j].stage = "import" THEN "config_drift" ELSE "attach_failed",
                  IF job[j].stage = "import" THEN job[j].hash ELSE 0)
    /\ UNCHANGED <<folder, actor, binding, asks, dropped, overlap, ownerCalls>>

\* The bridge ends and starts: on its own, or because a call of an application or a snapshot
\* fails, which nothing catches.  It scans when it starts.
BridgeRestarts ==
    /\ Failing
    /\ job' = [j \in Jobs |-> IF j = "scan" THEN Listed(j) ELSE IdleJob]
    /\ reported' = NoReport /\ asks' = {} /\ dropped' = FALSE /\ overlap' = FALSE
    /\ stale' = FALSE
    /\ UNCHANGED <<folder, ws, actor, binding, ownerCalls>>

-----------------------------------------------------------------------------
AttachProceeds ==
    \/ \E notice \in Notices : HearAsk(notice)
    \/ Materialize \/ ReadSnapshot
    \/ \E j \in Jobs : ReadFolder(j) \/ Import(j) \/ RegisterActor(j) \/ FinishActors(j)
                       \/ \E a \in Agents : ResolveActor(j, a)

AttachNext ==
    \/ AttachProceeds
    \/ \E j \in Jobs : ReportFails(j) \/ AttachFails(j)
    \/ BridgeRestarts
    \/ \E agents \in SUBSET Agents, valid \in BOOLEAN : EditFolder(agents, valid)
    \/ RemoveFolder \/ RegisterWorkspace \/ SelectWorkspace
    \/ \E chosen \in BOOLEAN : DeleteWorkspace(chosen) \/ SetGlobal(chosen)
    \/ BindWorkspace \/ ClearWorkspace
    \/ \E a \in Agents : BindAgent(a) \/ ClearAgent(a) \/ RetireActor(a) \/ ActorRuns(a)
                          \/ ActorRests(a)
    \/ \E notice \in Notices : AskBridge(notice)

AttachSpec == AttachInit /\ [][AttachNext]_attachVars /\ WF_attachVars(AttachProceeds)

-----------------------------------------------------------------------------
(* Properties                                                              *)

Settled == asks = {} /\ \A j \in Jobs : ~AtWork(j)

ReportIsShown ==
    ws.there /\ ~stale /\ reported.status # "none"
    => /\ ws.status \in {reported.status, "attached"}
       /\ Settled /\ ~overlap /\ reported.status = "attached" => ws.hash = reported.hash

UnconfiguredMeansUnbound ==
    Settled /\ ws.there /\ ~overlap /\ ~dropped
    /\ reported = [status |-> "attached", hash |-> folder.hash]
    => \A a \in folder.agents : actor[a] = "runtime_unconfigured" => ~Resolves(a)

\* ReportIsShown: a workspace the bridge reported on shows that report at any time, or it is
\* attached, as which an import leaves it whatever was reported.  When the bridge has nothing
\* left to do, a row that was reported attached has the hash of that report, which decides at
\* the next attachment whether the configuration has drifted.  UnconfiguredMeansUnbound: after
\* a full attachment a declared actor waits for a runtime only when none is bound to it.
\* The exceptions, each a thing the code does:
\*   stale    the row was made anew, or the report was lost, after reportOnce had noted it: a
\*            later attachment with the same outcome does not report again;
\*   overlap  a job was under way when the owner or another job changed the folder, the row or
\*            the bindings: a snapshot or the older of two jobs may import an older hash last
\*            (ReportIsShown), and register an actor with what it resolved before the change
\*            (UnconfiguredMeansUnbound);
\*   dropped  a binding changed, or the folder, while a scan was under way, which starts no
\*            other one (UnconfiguredMeansUnbound).
\* The last two end with the next scan that begins with no job under way: what they spoil
\* does not outlast it.
AttachmentIsTrue == ReportIsShown /\ UnconfiguredMeansUnbound

\* A registered workspace does not stay registered only: it is attached, or it is said why
\* not, however often it is deleted, its folder removed or a call fails in between.  Unless
\* (stale) it was registered again after a deletion, or its report was lost: the same outcome
\* is not reported a second time; or (dropped) it was registered while a scan was under way,
\* which starts no other one.
RegisteredIsReported ==
    []<>(ws.there /\ ws.status = "registered" => stale \/ dropped)
=============================================================================
