--------------------------- MODULE RuntimeSession ---------------------------
(***************************************************************************)
(* The session a bridge keeps for one endpoint in one Context, and the     *)
(* turns handleBundle runs in it one after the other.  The agent reports   *)
(* to a listener that posts telemetry without holding the agent back; the  *)
(* turn is finalised by the agent's end or by a timer after its prompt     *)
(* returned, whichever comes first; a failing post fails the turn, and the *)
(* failure itself is posted before the session is free again.  Extension   *)
(* instructions are injected into a prompt only when they differ from the  *)
(* last ones of the Context.                                               *)
(***************************************************************************)
EXTENDS Naturals, FiniteSets

CONSTANTS
    RuntimeConfigs,     \* what a session is opened for: model, tools, instructions
    Overlays,           \* the instructions the extensions may inject, positive
    MaxSessionTurns,    \* bound: deliveries
    MaxTexts,           \* bound: messages of the agent in a turn
    MaxSessionFaults    \* bound: failing posts, throwing agents, restarts

ASSUME SessionAssumption ==
    /\ RuntimeConfigs # {} /\ Overlays \subseteq Nat \ {0}
    /\ {MaxSessionTurns, MaxTexts, MaxSessionFaults} \subseteq Nat

VARIABLES
    call,           \* how far handleBundle is
    current,        \* the delivery it handles or handled last
    session,        \* the session: open or not, its configuration, activeTurn
    finalized,      \* the finalized turns
    completion,     \* the completion of each turn
    visible,        \* the messages the listener has taken of each turn
    notes,          \* turns of the listener's posts in flight
    finalizer,      \* finalizeTurn in progress
    agentDone,      \* the prompt's run has ended
    recorded,       \* at the bus: the result of each turn, and how often it was sent
    ended,          \* how handleBundle ended for each delivery
    baseline,       \* the instructions last injected, as the bridge remembers
    hooksWired,          \* the hook registry in use has the handlers that clear it
    overlay,        \* the instructions in the prompt being prepared, or 0
    latest,         \* observer: instructions last prompted since the history was cleared, or 0
    silenced,       \* observer: turns whose failure could not be posted
    unprompted,     \* observer: instructions lost with a failing turn, or remembered over a
                    \* clear, since then
    sessionFaults

runVars == <<call, current, session, finalized, completion, visible, notes, finalizer,
             agentDone, recorded, ended, silenced>>
overlayVars == <<overlay, baseline, hooksWired, latest, unprompted>>
sessionVars == <<runVars, overlayVars, sessionFaults>>

SessionTurns == 1 .. MaxSessionTurns
NoFinalizer == [turn |-> 0, step |-> "none", stop |-> "none", text |-> 0]
Closed == [open |-> FALSE, config |-> CHOOSE c \in RuntimeConfigs : TRUE, active |-> 0]

SessionTypeOK ==
    /\ call \in {"idle", "fallback", "injecting", "reporting", "resetting", "prompting",
                 "finishing", "waiting", "failing"}
    /\ current \in 0 .. MaxSessionTurns
    /\ session \in [open : BOOLEAN, config : RuntimeConfigs, active : 0 .. MaxSessionTurns]
    /\ finalized \in SUBSET SessionTurns
    /\ completion \in [SessionTurns -> {"open", "completed", "failed", "signalled"}]
    /\ visible \in [SessionTurns -> 0 .. MaxTexts] /\ notes \in SUBSET SessionTurns
    /\ finalizer \in [turn : 0 .. MaxSessionTurns, stop : {"none", "stop", "error"},
                      text : 0 .. MaxTexts,
                      step : {"none", "record", "result", "usage", "error", "errorUsage"}]
    /\ agentDone \in BOOLEAN
    /\ recorded \in [SessionTurns -> [text : 0 .. MaxTexts, sent : 0 .. 2]]
    /\ ended \in [SessionTurns -> {"no", "returned", "failed", "rejected", "cut"}]
    /\ overlay \in Overlays \cup {0} /\ baseline \in Overlays \cup {0} /\ hooksWired \in BOOLEAN
    /\ latest \in Overlays \cup {0} /\ unprompted \in SUBSET Overlays
    /\ silenced \in SUBSET SessionTurns /\ sessionFaults \in 0 .. MaxSessionFaults

SessionInit ==
    /\ call = "idle" /\ current = 0 /\ session = Closed
    /\ finalized = {} /\ completion = [t \in SessionTurns |-> "open"]
    /\ visible = [t \in SessionTurns |-> 0] /\ notes = {} /\ finalizer = NoFinalizer
    /\ agentDone = FALSE /\ recorded = [t \in SessionTurns |-> [text |-> 0, sent |-> 0]]
    /\ ended = [t \in SessionTurns |-> "no"]
    /\ overlay = 0 /\ baseline = 0 /\ hooksWired = FALSE
    /\ latest = 0 /\ silenced = {} /\ unprompted = {} /\ sessionFaults = 0

\* A post to the bus fails; an agent throws; the bridge restarts.
SessionFault == sessionFaults < MaxSessionFaults /\ sessionFaults' = sessionFaults + 1
NoFault == UNCHANGED sessionFaults

\* handleBundle ends, and the daemon takes the next delivery of the endpoint.
EndCall(how) == call' = "idle" /\ ended' = [ended EXCEPT ![current] = how]

\* session.activeTurn, cleared by turn t only while it is t's.
Release(t) == session' = IF session.active = t THEN [session EXCEPT !.active = 0] ELSE session

\* The first to resolve the completion of t decides.
Settles(t, how) ==
    completion' = [completion EXCEPT ![t] = IF @ = "open" THEN how ELSE @]

-----------------------------------------------------------------------------
\* handleBundle, up to the prompt.

\* getOrCreateSession: the session is kept while its configuration is.
SessionFor(config) ==
    IF session.open /\ session.config = config THEN session
    ELSE [open |-> TRUE, config |-> config, active |-> 0]

\* The session takes a new turn for the delivery at hand.
StartTurn(kept) == [kept EXCEPT !.active = current + 1]

\* A turn that is still active refuses the delivery.
BeginTurn(config, fallback) ==
    LET kept == SessionFor(config)
        busy == kept.active # 0 /\ kept.active \notin finalized
    IN
    /\ call = "idle" /\ current < MaxSessionTurns
    /\ current' = current + 1
    /\ session' = IF busy THEN kept ELSE StartTurn(kept)
    /\ call' = IF busy THEN "idle" ELSE IF fallback THEN "fallback" ELSE "injecting"
    /\ ended' = IF busy THEN [ended EXCEPT ![current + 1] = "rejected"] ELSE ended
    /\ agentDone' = FALSE /\ NoFault
    /\ UNCHANGED <<finalized, completion, visible, notes, finalizer, recorded, silenced, overlayVars>>

\* The note about an environment key is posted outside the try block.
FallbackNoted ==
    /\ call = "fallback"
    /\ \/ /\ call' = "injecting" /\ NoFault /\ UNCHANGED <<ended, silenced>>
       \/ /\ SessionFault /\ EndCall("failed") /\ silenced' = silenced \cup {current}
    /\ UNCHANGED <<current, session, finalized, completion, visible, notes, finalizer,
                   agentDone, recorded, overlayVars>>

\* BeforeTurn and applyDedup: text, or 0 for none, is injected if it differs from the
\* baseline.
Inject(text) ==
    /\ call = "injecting" /\ hooksWired' = TRUE
    /\ IF text \in {0, baseline} THEN /\ call' = "resetting"
                                      /\ UNCHANGED <<overlay, baseline>>
                                 ELSE /\ call' = "reporting"
                                      /\ overlay' = text /\ baseline' = text
    /\ NoFault
    /\ UNCHANGED <<current, session, finalized, completion, visible, notes, finalizer,
                   agentDone, recorded, ended, silenced, latest, unprompted>>

Carried == {overlay} \ {0}

\* The reports of the injection and of the prompt; then the agent, whose history has
\* just been reset, is prompted.
PromptReported ==
    /\ call \in {"reporting", "resetting"}
    /\ \/ /\ call = "reporting" /\ call' = "resetting"
          /\ NoFault /\ UNCHANGED <<overlay, latest, unprompted>>
       \/ /\ call = "resetting" /\ call' = "prompting"
          /\ overlay' = 0
          /\ IF overlay = 0 THEN UNCHANGED <<latest, unprompted>>
             ELSE latest' = overlay /\ unprompted' = {}
          /\ NoFault
       \/ /\ SessionFault /\ call' = "failing"
          /\ unprompted' = unprompted \cup Carried /\ overlay' = 0
          /\ UNCHANGED latest
    /\ UNCHANGED <<current, session, finalized, completion, visible, notes, finalizer,
                   agentDone, recorded, ended, silenced, baseline, hooksWired>>

-----------------------------------------------------------------------------
\* The agent and its listener.

Heard == session.active = current

\* A message, or a tool call: the listener takes it for the active turn and posts it.
Says ==
    /\ call = "prompting" /\ ~agentDone /\ Heard /\ visible[current] < MaxTexts
    /\ visible' = [visible EXCEPT ![current] = @ + 1]
    /\ notes' = notes \cup {current}
    /\ NoFault
    /\ UNCHANGED <<call, current, session, finalized, completion, finalizer, agentDone,
                   recorded, ended, silenced, overlayVars>>

\* The post is answered; when it fails, so does its turn, while the agent goes on.
NoteAnswered(t) ==
    /\ t \in notes /\ notes' = notes \ {t}
    /\ \/ NoFault /\ UNCHANGED <<session, completion>>
       \/ /\ SessionFault /\ Release(t)
          /\ IF t \in finalized THEN UNCHANGED completion ELSE Settles(t, "failed")
    /\ UNCHANGED <<call, current, finalized, visible, finalizer, agentDone, recorded, ended,
                   silenced, overlayVars>>

\* finalizeTurn begins, once for a turn, with the text of the turn so far.
FinalizeTurn(stop) ==
    IF current \in finalized THEN UNCHANGED <<finalized, finalizer>>
    ELSE /\ finalized' = finalized \cup {current}
         /\ finalizer' = [turn |-> current, stop |-> stop, text |-> visible[current],
                          step |-> IF visible[current] > 0 THEN "record"
                                   ELSE IF stop = "error" THEN "error" ELSE "usage"]

\* Mutant: the turn is finalised at the end of an iteration of the agent's loop.
AgentTurnEnds(stop) ==
    /\ call = "prompting" /\ ~agentDone
    /\ agentDone' \in (IF stop = "stop" THEN BOOLEAN ELSE {TRUE})
    /\ IF Heard THEN FinalizeTurn(stop) ELSE UNCHANGED <<finalized, finalizer>>
    /\ NoFault
    /\ UNCHANGED <<call, current, session, completion, visible, notes, recorded, ended,
                   silenced, overlayVars>>
\* agent_end, after the last message; an error of the model is a stop reason.
AgentEnds(stop) ==
    /\ call = "prompting" /\ ~agentDone
    /\ agentDone' = TRUE
    /\ IF Heard THEN FinalizeTurn(stop) ELSE UNCHANGED <<finalized, finalizer>>
    /\ NoFault
    /\ UNCHANGED <<call, current, session, completion, visible, notes, recorded, ended,
                   silenced, overlayVars>>

\* The prompt returns, with or without an end having been reported, or throws.
PromptReturns ==
    /\ call = "prompting"
    /\ \/ call' = "finishing" /\ NoFault
       \/ ~agentDone /\ SessionFault /\ call' = "failing"
    /\ agentDone' = TRUE
    /\ UNCHANGED <<current, session, finalized, completion, visible, notes, finalizer,
                   recorded, ended, silenced, overlayVars>>

\* awaitTurnCompletion: the timer finalises a turn nobody finalised.
TimerFinalizes ==
    /\ call = "finishing" /\ completion[current] = "open"
    /\ call' = "waiting"
    /\ IF Heard THEN FinalizeTurn("none") ELSE UNCHANGED <<finalized, finalizer>>
    /\ NoFault
    /\ UNCHANGED <<current, session, completion, visible, notes, agentDone, recorded, ended,
                   silenced, overlayVars>>

\* The completion is seen: handleBundle returns, or goes on in its catch block.
Completes ==
    /\ call \in {"finishing", "waiting"}
    /\ \/ completion[current] = "completed" /\ EndCall("returned")
       \/ completion[current] \in {"failed", "signalled"} /\ call' = "failing" /\ UNCHANGED ended
    /\ NoFault
    /\ UNCHANGED <<current, session, finalized, completion, visible, notes, finalizer,
                   agentDone, recorded, silenced, overlayVars>>

-----------------------------------------------------------------------------
\* finalizeTurn, from answer to answer.

FinalizeEnds(how) ==
    /\ finalizer' = NoFinalizer
    /\ Settles(finalizer.turn, how) /\ Release(finalizer.turn)

\* The step after an answer; the usage is reported when the agent's end brought a message.
StepAfter ==
    CASE finalizer.step = "record" -> "result"
      [] finalizer.step = "result" /\ finalizer.stop # "none" -> "usage"
      [] finalizer.step = "error" -> "errorUsage"
      [] OTHER -> "none"

\* recordRuntimeTurnResult reaches the bus.
Records ==
    recorded' = IF finalizer.step # "record" THEN recorded
                ELSE [recorded EXCEPT ![finalizer.turn] =
                          [text |-> finalizer.text, sent |-> @.sent + 1]]

FinalizeAnswered ==
    /\ finalizer.step # "none"
    /\ \/ /\ NoFault /\ Records
          /\ IF StepAfter = "none"
             THEN FinalizeEnds(IF finalizer.step = "errorUsage" THEN "signalled" ELSE "completed")
             ELSE /\ finalizer' = [finalizer EXCEPT !.step = StepAfter]
                  /\ UNCHANGED <<session, completion>>
       \/ /\ SessionFault /\ (Records \/ UNCHANGED recorded) /\ FinalizeEnds("failed")
    /\ UNCHANGED <<call, current, finalized, visible, notes, agentDone, ended, silenced, overlayVars>>

-----------------------------------------------------------------------------
\* The catch block: the failure is reported, unless the model's own error has been, and
\* only then is the session free; a bad request also drops it.
TurnFails ==
    /\ call = "failing" /\ EndCall("failed")
    /\ \/ /\ NoFault
          /\ \E forgotten \in BOOLEAN :
                session' = [session EXCEPT !.open = ~forgotten,
                                           !.active = IF @ = current THEN 0 ELSE @]
          /\ finalized' = finalized \cup {current} /\ Settles(current, "failed")
          /\ UNCHANGED silenced
       \/ /\ completion[current] # "signalled" /\ SessionFault
          /\ silenced' = silenced \cup {current}
          /\ UNCHANGED <<session, finalized, completion>>
    /\ UNCHANGED <<current, visible, notes, finalizer, agentDone, recorded, overlayVars>>

-----------------------------------------------------------------------------
\* The extensions and the Context.

\* A rescan loads the extensions into a registry of its own.
ExtensionsReloaded ==
    /\ hooksWired /\ hooksWired' = FALSE
    /\ NoFault /\ UNCHANGED <<runVars, overlay, baseline, latest, unprompted>>

\* context_history_cleared, or context_compacted, fires in the registry in use.
HistoryCleared ==
    /\ (latest # 0 \/ baseline # 0) /\ latest' = 0
    /\ baseline' = IF hooksWired THEN 0 ELSE baseline
    /\ unprompted' = IF hooksWired THEN unprompted ELSE unprompted \cup ({baseline} \ {0})
    /\ NoFault /\ UNCHANGED <<runVars, overlay, hooksWired>>

\* A new bridge process knows no session and no baseline.
SessionsLost ==
    /\ SessionFault
    /\ call' = "idle" /\ session' = Closed /\ notes' = {} /\ finalizer' = NoFinalizer
    /\ ended' = IF call = "idle" THEN ended ELSE [ended EXCEPT ![current] = "cut"]
    /\ baseline' = 0 /\ hooksWired' = FALSE /\ overlay' = 0 /\ unprompted' = {}
    /\ UNCHANGED <<current, finalized, completion, visible, agentDone, recorded, silenced, latest>>

-----------------------------------------------------------------------------
SessionNext ==
    \/ \E c \in RuntimeConfigs, fallback \in BOOLEAN : BeginTurn(c, fallback)
    \/ FallbackNoted \/ PromptReported \/ \E text \in Overlays \cup {0} : Inject(text)
    \/ Says \/ \E t \in SessionTurns : NoteAnswered(t)
    \/ \E stop \in {"stop", "error"} : AgentEnds(stop)
    \/ PromptReturns \/ TimerFinalizes \/ Completes \/ FinalizeAnswered \/ TurnFails
    \/ ExtensionsReloaded \/ HistoryCleared \/ SessionsLost

\* The fairness the runtime gives: every post is answered or fails, a prompt returns,
\* and the event loop runs what is ready.
SessionProceeds ==
    \/ FallbackNoted \/ PromptReported \/ \E text \in Overlays \cup {0} : Inject(text)
    \/ PromptReturns
    \/ TimerFinalizes \/ Completes \/ FinalizeAnswered \/ TurnFails

SessionSpec == SessionInit /\ [][SessionNext]_sessionVars /\ WF_sessionVars(SessionProceeds)

-----------------------------------------------------------------------------
\* A session that no handleBundle uses has no active turn, unless the failure of that
\* turn could not be posted; only then is a delivery refused.
SessionIsFree ==
    /\ call = "idle" => session.active \in silenced \cup {0}
    /\ \A t \in SessionTurns : ended[t] = "rejected" => \E s \in silenced : s < t

\* A result is sent once, and what a successful turn leaves at the bus is its last
\* message: nothing said after it was finalised is lost.
ResultIsWhole ==
    \A t \in SessionTurns :
        /\ recorded[t].sent <= 1
        /\ ended[t] = "returned" => recorded[t].text = visible[t]
        /\ ended[t] = "rejected" => recorded[t].sent = 0

\* Changed instructions are injected: those the bridge would leave out of a prompt are the
\* ones last put into a prompt of this Context since its history was cleared, also when others
\* came in between.  Unless the turn that was to carry them failed before its prompt, for they
\* are remembered when they are let through, or the clearing went unheard, for a registry that
\* was just loaded has no handlers yet.  It does not say that the agent still has what is left
\* out: its messages are reset before every delivery (pi-agent-core-adapter.ts:280), so that
\* the running context which docs/guide/concepts/hook.md:40-41 counts on is gone.
ChangesAreInjected == overlay = 0 => baseline \in {0, latest} \cup unprompted

\* The adapter keeps its turns apart, and every delivery it takes comes to an end.
SessionIsSound ==
    /\ [](SessionIsFree /\ ResultIsWhole /\ ChangesAreInjected)
    /\ []<>(call = "idle")
=============================================================================
