---------------------------- MODULE ServiceControl ----------------------------
(***************************************************************************)
(* The commands of the floe CLI that start and stop the services           *)
(* (floe-cli/src/process-manager.ts, cli.ts, reset.ts).                    *)
(*                                                                         *)
(* A command is a list of tasks, a task a few steps; several terminals run *)
(* commands at once.  What they know of each other is services.json, which *)
(* a step reads before it spawns or kills and writes whole afterwards.  A  *)
(* process that got its SIGTERM lives on for a moment, holds its port and  *)
(* may answer a health probe.  Process ids are not reused.                 *)
(***************************************************************************)
EXTENDS Integers, Sequences

CONSTANTS
    ServiceNames,  \* the services
    StartOrder,    \* sequence of them: the order of startAll
    Probed,        \* those with a health probe and a port of their own
    Terminals,     \* numbers of the terminals a command may run in
    MaxPids,       \* bounds: processes spawned,
    MaxCommands    \*   commands given

ASSUME ControlAssumption ==
    /\ StartOrder \in Seq(ServiceNames) /\ Probed \subseteq ServiceNames
    /\ {StartOrder[i] : i \in DOMAIN StartOrder} = ServiceNames
    /\ Terminals \subseteq Nat /\ {MaxPids, MaxCommands} \subseteq Nat

VARIABLES
    records,    \* services.json: the pid of a service, 0 for none
    proc,       \* proc[pid]: the service and how far the process is
    cli,        \* cli[t]: what terminal t runs, the tasks left of it and the step it is at
    commands,   \* commands given so far
    lost,       \* history: pids of records that a stale write or a wipe took away
    deceived,   \* history: deceived[t], services taken to run for a process that was ending
    quiet,      \* history: nothing else has happened since the command of t began
    wipedUnder  \* history: pids that ran when a quiet reset wiped their data

cliVars ==
    <<records, proc, cli, commands, lost, deceived, quiet, wipedUnder>>

Pids == 1..MaxPids
NoRecords == [s \in ServiceNames |-> 0]
ServiceRecords == [ServiceNames -> 0..MaxPids]

NoProcess == [svc |-> "none", state |-> "absent"]
ServiceProcesses ==
    {NoProcess} \cup
    [svc : ServiceNames, state : {"starting", "up", "ending", "gone"}]

\* Tasks of the commands.
Task(op, s) == [op |-> op, svc |-> s]
Tasks == [op : {"start", "stop"}, svc : ServiceNames] \cup [op : {"confirm", "clear"}, svc : {"all"}]
StartAll == [i \in DOMAIN StartOrder |-> Task("start", StartOrder[i])]
StopAll == [i \in DOMAIN StartOrder |-> Task("stop", StartOrder[Len(StartOrder) + 1 - i])]

StepsOf(name) ==
    CASE name = "start" -> StartAll
      [] name = "stop" -> StopAll
      [] name = "restart" -> StopAll \o StartAll
      [] name = "repair" -> <<Task("clear", "all")>> \o StartAll
      [] name = "reset" -> StopAll \o <<Task("confirm", "all"), Task("clear", "all")>>

Names == {"start", "stop", "restart", "repair", "reset"}

\* seen: the records a step read and has not written back; pid: the process it spawned.
NoCommand == [name |-> "none", todo |-> <<>>, step |-> "none", seen |-> NoRecords, pid |-> 0]
StepKinds ==
    {"probe", "start", "save", "wait", "stop", "forget", "confirm", "clear", "none"}

ControlTypeOK ==
    /\ records \in ServiceRecords
    /\ proc \in [Pids -> ServiceProcesses]
    /\ cli \in [Terminals -> [name : Names \cup {"none"}, todo : Seq(Tasks), step : StepKinds,
                              seen : ServiceRecords, pid : 0..MaxPids]]
    /\ commands \in 0..MaxCommands
    /\ lost \subseteq Pids /\ wipedUnder \subseteq Pids
    /\ deceived \in [Terminals -> SUBSET ServiceNames]
    /\ quiet \in [Terminals -> BOOLEAN]

ControlInit ==
    /\ records = NoRecords
    /\ proc = [p \in Pids |-> NoProcess]
    /\ cli = [t \in Terminals |-> NoCommand]
    /\ commands = 0
    /\ lost = {} /\ wipedUnder = {}
    /\ deceived = [t \in Terminals |-> {}]
    /\ quiet = [t \in Terminals |-> TRUE]

\* isPidRunning
Running(p) == p # 0 /\ proc[p].state \in {"starting", "up", "ending"}
\* The processes of a service that nothing has told to end.
LivePids(s) == {p \in Pids : proc[p].svc = s /\ proc[p].state \in {"starting", "up"}}
Up(s) == {p \in LivePids(s) : proc[p].state = "up"}
Ending(s) == {p \in Pids : proc[p].svc = s /\ proc[p].state = "ending"}

-----------------------------------------------------------------------------
(* The processes, as the operating system runs them                        *)

Becomes(p, state) == proc' = [proc EXCEPT ![p].state = state]

\* A probed service listens on its port; another ("waitForBus") waits for the first of all.
ComeUp(p) ==
    LET s == proc[p].svc
    IN /\ proc[p].state = "starting"
       /\ IF s \in Probed THEN Up(s) \cup Ending(s) = {} ELSE Up(StartOrder[1]) # {}
       /\ Becomes(p, "up")
       /\ UNCHANGED <<records, cli, commands, lost, deceived, quiet, wipedUnder>>

\* The port is taken.
FailToListen(p) ==
    /\ proc[p].state = "starting" /\ proc[p].svc \in Probed
    /\ Up(proc[p].svc) \cup Ending(proc[p].svc) # {}
    /\ Becomes(p, "gone")
    /\ UNCHANGED <<records, cli, commands, lost, deceived, quiet, wipedUnder>>

EndProcess(p) ==
    /\ proc[p].state = "ending"
    /\ Becomes(p, "gone")
    /\ UNCHANGED <<records, cli, commands, lost, deceived, quiet, wipedUnder>>

\* A process dies of itself, or waits for the bus in vain.
Die(p) ==
    /\ proc[p].state \in {"starting", "up"}
    /\ Becomes(p, "gone")
    /\ quiet' = [t \in Terminals |-> FALSE]
    /\ UNCHANGED <<records, cli, commands, lost, deceived, wipedUnder>>

-----------------------------------------------------------------------------
(* The commands                                                            *)

InCommand(t) == cli[t].todo # <<>>
At(t, step) == InCommand(t) /\ cli[t].step = step
Of(t) == Head(cli[t].todo).svc

\* The first step of the first task: a service with a probe is probed before it is started.
EntryStep(todo) ==
    IF todo = <<>> THEN "none"
    ELSE IF Head(todo).op = "start" /\ Head(todo).svc \in Probed THEN "probe"
    ELSE Head(todo).op

Goto(t, step) == cli' = [cli EXCEPT ![t].step = step, ![t].seen = NoRecords, ![t].pid = 0]
TaskDone(t) ==
    cli' = [cli EXCEPT ![t].todo = Tail(@), ![t].step = EntryStep(Tail(cli[t].todo)),
                       ![t].seen = NoRecords, ![t].pid = 0]
Started(t) == IF Of(t) \in Probed THEN Goto(t, "wait") ELSE TaskDone(t)

\* Terminals differ in nothing: the first free one is taken.
GiveCommand(t, name) ==
    LET others == {u \in Terminals \ {t} : InCommand(u)}
    IN /\ ~InCommand(t) /\ \A u \in Terminals : u < t => u \in others
       /\ commands < MaxCommands
       /\ commands' = commands + 1
       /\ cli' = [cli EXCEPT ![t] = [NoCommand EXCEPT !.name = name, !.todo = StepsOf(name),
                                                       !.step = EntryStep(StepsOf(name))]]
       /\ deceived' = [deceived EXCEPT ![t] = {}]
       /\ quiet' = [u \in Terminals |->
                      IF u = t THEN others = {} ELSE quiet[u] /\ u \notin others]
       /\ UNCHANGED <<records, proc, lost, wipedUnder>>

\* isHealthy before startService: one that answers is not started.
Probe(t, answered) ==
    LET s == Of(t)
    IN /\ At(t, "probe")
       /\ IF answered THEN Up(s) \cup Ending(s) # {} ELSE Up(s) = {}
       /\ Goto(t, IF answered THEN "wait" ELSE "start")
       /\ UNCHANGED <<records, proc, commands, lost, deceived, quiet, wipedUnder>>

\* Mutant of AlreadyRuns: the records are not looked at.
RunsByProbe(s) == Up(s) # {}

AlreadyRuns(s) == Running(records[s])

\* startService up to the spawn; the records are written in a step of their own.  A service
\* without a probe is taken to run when the process of its record is just ending.
StartService(t) ==
    LET s == Of(t)
        fresh == {p \in Pids : proc[p] = NoProcess}
    IN /\ At(t, "start")
       /\ IF AlreadyRuns(s)
          THEN Started(t) /\ UNCHANGED proc
          ELSE \E p \in fresh :
                 /\ \A q \in fresh : p <= q
                 /\ proc' = [proc EXCEPT ![p] = [svc |-> s, state |-> "starting"]]
                 /\ cli' = [cli EXCEPT ![t].seen = records, ![t].pid = p, ![t].step = "save"]
       /\ deceived' = IF s \notin Probed /\ records[s] \in Ending(s)
                      THEN [deceived EXCEPT ![t] = @ \cup {s}] ELSE deceived
       /\ UNCHANGED <<records, commands, lost, quiet, wipedUnder>>

\* writeRecords: what others have recorded since the step read the records is gone.
WriteRecords(t, new) ==
    /\ records' = new
    /\ LET stale == {s \in ServiceNames : records[s] \notin {cli[t].seen[s], new[s]}}
       IN lost' = lost \cup ({records[s] : s \in stale} \ {0})

SaveRecord(t) ==
    /\ At(t, "save")
    /\ WriteRecords(t, [cli[t].seen EXCEPT ![Of(t)] = cli[t].pid])
    /\ Started(t)
    /\ UNCHANGED <<proc, commands, deceived, quiet, wipedUnder>>

\* waitForHealth, which also an old process may answer.
AwaitHealth(t, by) ==
    /\ At(t, "wait") /\ proc[by].svc = Of(t) /\ proc[by].state \in {"up", "ending"}
    /\ TaskDone(t)
    /\ deceived' = IF proc[by].state = "ending"
                   THEN [deceived EXCEPT ![t] = @ \cup {Of(t)}] ELSE deceived
    /\ UNCHANGED <<records, proc, commands, lost, quiet, wipedUnder>>

\* After 30 seconds the command fails.
GiveUpWaiting(t) ==
    /\ At(t, "wait") /\ Up(Of(t)) = {}
    /\ cli' = [cli EXCEPT ![t] = NoCommand]
    /\ UNCHANGED <<records, proc, commands, lost, deceived, quiet, wipedUnder>>

\* stopService up to the kill.
StopService(t) ==
    LET pid == records[Of(t)]
    IN /\ At(t, "stop")
       /\ IF pid = 0 THEN TaskDone(t) /\ UNCHANGED proc
          ELSE /\ proc' = IF Running(pid) THEN [proc EXCEPT ![pid].state = "ending"]
                             ELSE proc
               /\ cli' = [cli EXCEPT ![t].seen = records, ![t].step = "forget"]
       /\ UNCHANGED <<records, commands, lost, deceived, quiet, wipedUnder>>

ForgetRecord(t) ==
    /\ At(t, "forget")
    /\ WriteRecords(t, [cli[t].seen EXCEPT ![Of(t)] = 0])
    /\ TaskDone(t)
    /\ UNCHANGED <<proc, commands, deceived, quiet, wipedUnder>>

\* The operator answers the prompt of reset.
Confirm(t, yes) ==
    /\ At(t, "confirm")
    /\ IF yes THEN TaskDone(t) ELSE cli' = [cli EXCEPT ![t] = NoCommand]
    /\ UNCHANGED <<records, proc, commands, lost, deceived, quiet, wipedUnder>>

\* clearRecords of setup --repair; executeReset, which wipes the data of the services too.
ClearRecords(t) ==
    /\ At(t, "clear")
    /\ TaskDone(t)
    /\ records' = NoRecords
    /\ lost' = lost \cup ({records[s] : s \in ServiceNames} \ {0})
    /\ wipedUnder' = IF cli[t].name = "reset" /\ quiet[t]
                     THEN wipedUnder \cup {p \in Pids : Running(p)} ELSE wipedUnder
    /\ UNCHANGED <<proc, commands, deceived, quiet>>

ControlNext ==
    \/ \E p \in Pids : ComeUp(p) \/ FailToListen(p) \/ EndProcess(p) \/ Die(p)
    \/ \E t \in Terminals :
         \/ \E name \in Names : GiveCommand(t, name)
         \/ \E answered \in BOOLEAN : Probe(t, answered)
         \/ \E by \in Pids : AwaitHealth(t, by)
         \/ StartService(t) \/ SaveRecord(t) \/ GiveUpWaiting(t)
         \/ StopService(t) \/ ForgetRecord(t)
         \/ \E yes \in BOOLEAN : Confirm(t, yes)
         \/ ClearRecords(t)

ControlSpec == ControlInit /\ [][ControlNext]_cliVars

-----------------------------------------------------------------------------
(* Properties                                                              *)

\* Every process that nobody has told to end can be stopped: it is in services.json, a step
\* that spawned it is about to write it there, or its record is one that a stale write, a
\* repair or a reset took away.
EveryProcessIsKnown ==
    \A s \in ServiceNames : \A p \in LivePids(s) :
      \/ records[s] = p
      \/ \E t \in Terminals : At(t, "save") /\ cli[t].pid = p
      \/ p \in lost

\* A service has more than one process only when the record of one of them was taken away,
\* or while a second command has yet to write its own.
OneOfEach ==
    \A s \in ServiceNames : \A p, q \in LivePids(s) :
      \/ p = q \/ {p, q} \cap lost # {}
      \/ \E t \in Terminals : At(t, "save") /\ Of(t) = s

\* A reset that nothing interfered with wipes no data under a process that goes on: only under
\* one whose record was lost, and - although the services are stopped "before wiping their
\* databases" - under one that was told to end and still runs, since nothing waits for its
\* exit and --yes asks nobody.
WipesNothingInUse ==
    \A p \in wipedUnder : p \in lost \/ proc[p].state \in {"ending", "gone"}

\* A command that nothing interfered with and that says the services are started tells the
\* truth: each has a process, and one with a probe is up, unless it was a process already
\* ending that answered the probe, or that a stale record named.
TellsTheTruth(t) ==
    (/\ cli[t].name \in {"start", "restart", "repair"} /\ InCommand(t) /\ quiet[t]
     /\ cli'[t].name # "none" /\ cli'[t].todo = <<>>) =>
      \A s \in ServiceNames \ deceived'[t] :
        \E p \in Pids : /\ proc'[p].svc = s
                        /\ proc'[p].state \in {"starting", "up"}
                        /\ s \in Probed => proc'[p].state = "up"

ServicesAreControlled ==
    /\ [](EveryProcessIsKnown /\ OneOfEach /\ WipesNothingInUse)
    /\ [][\A t \in Terminals : TellsTheTruth(t)]_cliVars
=============================================================================
