------------------------------ MODULE CommandRuns ------------------------------
(***************************************************************************)
(* One run of a shell command: of a command node of a Scope graph          *)
(* (executeCommand in floe-bridge/src/command-runner.ts, on Node's exec),  *)
(* or of the run_command tool of an agent (floe-bridge/src/tools/bash.ts,  *)
(* on spawn).  The shell may leave a descendant behind that holds its      *)
(* pipes, may write more than is kept, and may take a SIGTERM as it likes: *)
(* the operating system and Node are external.                             *)
(***************************************************************************)
EXTENDS Integers

CONSTANTS
    MaxOutput,      \* bound: pieces of output a command writes
    CaptureLimit,   \* pieces that are kept: MAX_CAPTURE_BYTES, MAX_BUFFER_BYTES
    ShownLimit      \* pieces of them an answer shows

ASSUME CommandsAssumption ==
    /\ {MaxOutput, CaptureLimit, ShownLimit} \subseteq Nat

VARIABLES
    kind,       \* "node" or "tool"
    shell,      \* the process: not started, failed to, running, or how it ended
    holder,     \* a descendant of the shell holds the pipes
    signalled,  \* the shell got a SIGTERM
    pipes,      \* "open", or "cut" when the reader closed them
    output,     \* pieces of output: written, read, kept
    timer,      \* "off", "on", or "fired": timedOut
    limited,    \* outputLimited; of exec, its maxBuffer error
    answers,    \* answers the caller got
    answer      \* the first of them

commandVars ==
    <<kind, shell, holder, signalled, pipes, output, timer, limited, answers, answer>>

Ended == {"zero", "nonzero", "signal"}
NoAnswer == [what |-> "none"]
\* what: "missing" input or command, "stopped", or "result".
Answer(w, c, s, t, l) == [what |-> w, code |-> c, shown |-> s, timedOut |-> t, limited |-> l]
Answers ==
    [what : {"missing", "stopped", "result"}, code : {0, 1, 130},
     shown : 0..MaxOutput, timedOut : BOOLEAN, limited : BOOLEAN]

CommandTypeOK ==
    /\ kind \in {"node", "tool"}
    /\ shell \in {"absent", "failed", "running"} \cup Ended
    /\ {holder, signalled, limited} \subseteq BOOLEAN
    /\ pipes \in {"open", "cut"}
    /\ output \in [written : 0..MaxOutput, read : 0..MaxOutput, kept : 0..MaxOutput]
    /\ timer \in {"off", "on", "fired"}
    /\ answers \in 0..2
    /\ answer \in {NoAnswer} \cup Answers

CommandsInit ==
    /\ kind \in {"node", "tool"}
    /\ shell = "absent" /\ holder = FALSE /\ signalled = FALSE /\ pipes = "open"
    /\ output = [written |-> 0, read |-> 0, kept |-> 0]
    /\ timer = "off" /\ limited = FALSE
    /\ answers = 0 /\ answer = NoAnswer

Told == answers > 0
Give(a) ==
    /\ answers' = answers + 1
    /\ answer' = IF Told THEN answer ELSE a

ProcessStays == UNCHANGED <<shell, holder, signalled, output>>

-----------------------------------------------------------------------------
(* The command, as the operating system runs it                            *)

WriteOutput ==
    /\ shell = "running" \/ holder
    /\ output.written < MaxOutput
    /\ output' = [output EXCEPT !.written = @ + 1]
    /\ UNCHANGED <<kind, shell, holder, signalled, pipes, timer, limited, answers, answer>>

StartDescendant ==
    /\ shell = "running" /\ ~holder
    /\ holder' = TRUE
    /\ UNCHANGED <<kind, shell, signalled, pipes, output, timer, limited, answers, answer>>

\* A SIGTERM goes to the shell alone, which may handle it and exit with any code.
ShellEnds(how) ==
    /\ shell = "running"
    /\ how = "signal" => signalled
    /\ shell' = how
    /\ UNCHANGED <<kind, holder, signalled, pipes, output, timer, limited, answers, answer>>

DescendantEnds ==
    /\ holder
    /\ holder' = FALSE
    /\ UNCHANGED <<kind, shell, signalled, pipes, output, timer, limited, answers, answer>>

-----------------------------------------------------------------------------
(* The run                                                                 *)

\* A required input without a value, or a blank command.
RefuseRun ==
    /\ shell = "absent" /\ ~Told
    /\ Give(Answer("missing", 1, 0, FALSE, FALSE))
    /\ ProcessStays /\ UNCHANGED <<kind, pipes, timer, limited>>

StartRun(spawned) ==
    /\ shell = "absent" /\ ~Told
    /\ shell' = IF spawned THEN "running" ELSE "failed"
    /\ timer' = "on"
    /\ UNCHANGED <<kind, holder, signalled, pipes, output, limited, answers, answer>>

\* Stop was asked for while the node waited for its turn: the signal is aborted already.
StartAborted ==
    /\ kind = "node" /\ shell = "absent" /\ ~Told
    /\ shell' = "running" /\ signalled' = TRUE
    /\ timer' = "on"
    /\ Give(Answer("stopped", 130, 0, FALSE, FALSE))
    /\ UNCHANGED <<kind, holder, pipes, output, limited>>

\* capture, and its like in exec, whose kill also closes the pipes.
ReadOutput ==
    LET full == output.kept = CaptureLimit
    IN /\ output.read < output.written /\ pipes = "open"
       /\ output' = [output EXCEPT !.read = @ + 1, !.kept = IF full THEN @ ELSE @ + 1]
       /\ limited' = (limited \/ full)
       /\ signalled' = (signalled \/ (full /\ ~limited /\ shell = "running"))
       /\ pipes' = IF full /\ kind = "node" THEN "cut" ELSE pipes
       /\ UNCHANGED <<kind, shell, holder, timer, answers, answer>>

\* The timer of the tool terminates the shell; that of exec also closes the pipes.
TimeOut ==
    /\ timer = "on"
    /\ timer' = "fired"
    /\ signalled' = (signalled \/ shell = "running")
    /\ pipes' = IF kind = "node" THEN "cut" ELSE pipes
    /\ UNCHANGED <<kind, shell, holder, output, limited, answers, answer>>

\* cancel, when the operator stops the node's delivery.
StopRun ==
    /\ kind = "node" /\ shell # "absent" /\ ~Told
    /\ Give(Answer("stopped", 130, 0, FALSE, FALSE))
    /\ signalled' = (signalled \/ shell = "running")
    /\ UNCHANGED <<kind, shell, holder, pipes, output, timer, limited>>

\* Mutant of Over: the tool listens to "exit" in place of "close".
OverAtExit == shell \in Ended \/ shell = "failed"

\* "close": the process is gone and its pipes have ended; or "error", when it never started.
Over ==
    \/ shell = "failed"
    \/ shell \in Ended /\ (pipes = "cut" \/ (~holder /\ output.read = output.written))

\* The exit code of the answer: code ?? 1 of the tool; that of exec's error for the node,
\* which is no number after its maxBuffer, a signal or a failed spawn.
ExitCode == IF shell = "zero" /\ ~(kind = "node" /\ limited) THEN 0 ELSE 1

Shown == IF output.kept > ShownLimit THEN ShownLimit ELSE output.kept

\* finish of the tool, and the callback of exec, which a node that was stopped ignores.  Only
\* the tool's answer tells that the time ran out or the output was cut.
Finish ==
    /\ Over /\ timer # "off"
    /\ timer' = IF timer = "on" THEN "off" ELSE timer
    /\ IF Told THEN UNCHANGED <<answers, answer>>
       ELSE Give(Answer("result", ExitCode, Shown,
                        kind = "tool" /\ timer = "fired", kind = "tool" /\ limited))
    /\ timer = "on" \/ ~Told
    /\ ProcessStays /\ UNCHANGED <<kind, pipes, limited>>

CommandsNext ==
    \/ WriteOutput \/ StartDescendant \/ DescendantEnds
    \/ \E how \in Ended : ShellEnds(how)
    \/ RefuseRun \/ StartAborted \/ \E spawned \in BOOLEAN : StartRun(spawned)
    \/ ReadOutput \/ TimeOut \/ StopRun \/ Finish

\* The bridge reads what there is, its timers fire and it hears of what is over.
CommandProceeds == ReadOutput \/ TimeOut \/ Finish

CommandsSpec ==
    CommandsInit /\ [][CommandsNext]_commandVars /\ WF_commandVars(CommandProceeds)

-----------------------------------------------------------------------------
(* Properties                                                              *)

HasResult == answers > 0 /\ answer.what = "result"
Passed == HasResult /\ answer.code = 0

AnswerIsTrue ==
    /\ answers <= 1
    /\ HasResult => shell \in Ended \cup {"failed"}
    /\ Passed => shell = "zero"

ToolResultIsWhole ==
    /\ HasResult /\ kind = "tool" => ~holder /\ timer # "on"
    /\ Passed /\ kind = "tool" /\ ~answer.timedOut /\ ~answer.limited =>
         output.kept = output.written

RunIsAnswered ==
    []<>(shell \in Ended /\ (kind = "tool" => ~holder) => Told)

\* What a command's caller is told is what happened.  It is told once; of a run that was not
\* stopped only when the shell is gone, and of a tool's only when nothing more can be written
\* and no timer is left; success only of a shell that exited with 0.  A tool's success within
\* its time and limit has seen everything that was written (a node's has not: a command that
\* handles the SIGTERM of its timeout and exits with 0 has passed, with its pipes cut).  The
\* caller of a run whose shell is gone is told, once its descendants have left the pipes; a
\* command node does not wait for those: its timeout cuts the pipes.
CommandRunIsTrue == [](AnswerIsTrue /\ ToolResultIsWhole) /\ RunIsAnswered
=============================================================================
