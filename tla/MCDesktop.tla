------------------------------ MODULE MCDesktop ------------------------------
(***************************************************************************)
(* The components of the desktop, with the Contexts of the bus, the pages  *)
(* of events they are read through, the actors' files that it shares with  *)
(* the agents, the sign-in with model providers and the CLI's control of   *)
(* the services, instantiated for TLC in one module: a behaviour is a      *)
(* behaviour of one of them, named by part, while the others stay as they  *)
(* began.                                                                  *)
(***************************************************************************)
EXTENDS ConversationView, RuntimeHealth, ConversationList, ModelBinding, Contexts, EventPages,
        ActorDefinitions, ServiceControl, ProviderSignIn

VARIABLE part

vars == <<part, viewVars, healthVars, listVars, bindingVars, contextVars, pageVars,
          defVars, cliVars, signInVars>>

\* Every conversation belongs to the first workspace.
OneWorkspace == [c \in Rooms |-> CHOOSE w \in Workspaces : TRUE]

\* The first profile and the first model are of one provider; the first profile names
\* a model.
Made == [x \in LoginProfiles \cup Models |-> IF x \in {"f1", "m1"} THEN "v1" ELSE "v2"]
Named == [f \in LoginProfiles |-> IF f = "f1" THEN "m1" ELSE Unset]
Undeclared == [provider |-> Unset, model |-> Unset, profile |-> Unset]

\* The operator finds nothing chosen yet, but for the host or in the project's file.
Configured ==
    /\ bound[Workspace] = Inherit
    /\ \/ /\ bound[Host] = Inherit
          /\ declared \in {[provider |-> "v1", model |-> "m1", profile |-> "f1"],
                           [provider |-> "v2", model |-> "m2", profile |-> Unset],
                           [provider |-> Unset, model |-> "m1", profile |-> Unset]}
       \/ /\ bound[Host] = [profile |-> "f1", model |-> "m1"]
          /\ declared \in {Undeclared, [Undeclared EXCEPT !.provider = "v2"]}

\* The app starts, stops and answers as the bus does, and is left out here.
BusThenBridge == <<"bus", "bridge">>

\* The test adapter is in use, and the first provider at most is signed in to; the settings
\* are opened when the app has started.
SignInBegins ==
    /\ signedIn \subseteq {"v1"} /\ ~live
    /\ purpose = "add" => atStart.phase = "ready"

DesktopInit ==
    /\ part \in {"view", "health", "list", "binding", "contexts", "pages",
                 "definitions", "control", "signin"}
    /\ ViewInit /\ HealthInit /\ ListInit /\ BindingInit /\ ContextsInit /\ PagesInit
    /\ DefinitionsInit /\ ControlInit /\ SignInInit
    /\ part = "signin" => SignInBegins
    /\ part # "signin" => purpose = "add" /\ atStart.phase = "ready" /\ signedIn = {} /\ live
    /\ IF part = "binding" THEN Configured ELSE bound = [s \in Slots |-> Inherit] /\ declared = Undeclared
    /\ part # "view" => messages = 0
    /\ part # "pages" => reader = "follower"

\* The other components stay as they are.
OthersStay ==
    /\ UNCHANGED part
    /\ part # "view" => UNCHANGED viewVars
    /\ part # "health" => UNCHANGED healthVars
    /\ part # "list" => UNCHANGED listVars
    /\ part # "binding" => UNCHANGED bindingVars
    /\ part # "contexts" => UNCHANGED contextVars
    /\ part # "pages" => UNCHANGED pageVars
    /\ part # "definitions" => UNCHANGED defVars
    /\ part # "control" => UNCHANGED cliVars
    /\ part # "signin" => UNCHANGED signInVars

DesktopNext ==
    /\ OthersStay
    /\ \/ part = "view" /\ ViewNext
       \/ part = "health" /\ HealthNext
       \/ part = "list" /\ ListNext
       \/ part = "binding" /\ BindingNext
       \/ part = "contexts" /\ ContextsNext
       \/ part = "pages" /\ PagesNext
       \/ part = "definitions" /\ DefinitionsNext
       \/ part = "control" /\ ControlNext
       \/ part = "signin" /\ SignInNext

\* The fairness of the component the behaviour is one of.
DesktopFairness ==
    /\ WF_viewVars(part = "view" /\ ViewProceeds)
    /\ WF_healthVars(part = "health" /\ HealthProceeds)
    /\ WF_listVars(part = "list" /\ ListProceeds)

DesktopSpec == DesktopInit /\ [][DesktopNext]_vars /\ DesktopFairness

\* The component the behaviour is one of keeps its variables in their types.
DesktopTypeOK ==
    /\ part = "view" => ViewTypeOK
    /\ part = "health" => HealthTypeOK
    /\ part = "list" => ListTypeOK
    /\ part = "binding" => BindingTypeOK
    /\ part = "contexts" => ContextTypeOK
    /\ part = "pages" => PagesTypeOK
    /\ part = "definitions" => DefinitionsTypeOK
    /\ part = "control" => ControlTypeOK
    /\ part = "signin" => SignInTypeOK

\* The bus shows the bridge online while its present socket is open, also when it notices the
\* loss of an earlier one late, and the window does not claim health without a stream, unless
\* an answer on its way was applied after the stream was lost.
\* In a behaviour in which the services move, their loss and their recovery come to be shown:
\* see HealthIsShownInTheEnd in RuntimeHealth.
HealthIsShown ==
    /\ [](PresentBridgeIsOnline /\ HealthNeedsStream)
    /\ []<>(part = "health" => DownIsShown)
    /\ <>[](part = "health" /\ Recovers) => <>[]RecoveryIsShown

\* The conversations shown are those of the workspace on display.  An older page asked for
\* before a switch or a reload is merged all the same, a draft that was sent before a switch
\* loads the list of the workspace it was sent in, and a first page asked for before a switch
\* still counts until the endpoints of the new workspace arrive: it is shown under the new
\* workspace until that one's first page is there (history variable astray).  A settled list
\* has no gap: every conversation of the workspace that is newer than where the next older page
\* begins is on it, once a first page was applied and none failed since (history variable
\* fresh).  Nothing loads the list again when the subscription opens, and news is dropped while
\* the endpoints have not arrived: what happened before is missing until the next load (history
\* variable unheard).  Sending a draft again after a failure does not create a second Context,
\* unless the answer to the first creation was lost, and a message goes to the Context made for
\* its draft.  A list that is loading ends loaded or in an error (LoadingEnds in
\* ConversationList).
ListIsTrue ==
    /\ [](ListIsOfWorkspace /\ ListHasNoGap /\ DraftKeepsItsContext)
    /\ []<>(part = "list" => ~listLoading)
=============================================================================
