--------------------------- MODULE ProviderSignIn ---------------------------
(***************************************************************************)
(* The desktop's sign-in with a model provider: the card that offers it in *)
(* the onboarding and in the settings (floe-app/src: ProviderAccess.tsx,   *)
(* modelProviders.ts, OnboardingFlow.tsx, WorkspaceSettings.tsx), the      *)
(* commands of the app behind it (src-tauri/src: substrate_commands.rs,    *)
(* lib.rs) and the helper process they start (src-auth-sidecar/index.ts).  *)
(*                                                                         *)
(* A sign-in is a command that waits for its helper, which waits for the   *)
(* operator's browser, for as long as that takes.  Nothing ends it but the *)
(* helper itself and the exit of the app: the card can be closed, opened   *)
(* again and used again meanwhile.  A flag admits one sign-in at a time    *)
(* and a slot holds its helper; both are released by guards when the       *)
(* command returns, whichever way it does.                                 *)
(***************************************************************************)
EXTENDS Naturals, FiniteSets, Sequences

CONSTANTS
    Subscriptions,    \* the providers
    SignIns,          \* bound: numbers of the sign-ins that are tried
    MaxCards,         \* bound: openings of the card
    MaxSignInFaults   \* bound: failing starts, helpers and writes

ASSUME SignInAssumption ==
    /\ SignIns \subseteq Nat \ {0} /\ IsFiniteSet(SignIns)
    /\ MaxCards \in Nat \ {0} /\ MaxSignInFaults \in Nat

VARIABLES
    purpose,      \* what the card is for: "choose" in the onboarding, "add" in the settings
    place,        \* where the operator is: at the card, elsewhere, or leaving the onboarding
    card,         \* the card on display: its number, what it loads, shows and waits for
    atStart,      \* the statuses the app itself reads when it starts, for the onboarding
    profileOf,    \* the onboarding: provider of the chosen profile
    signIn,       \* the commands: stage, provider, outcome, and guards not yet dropped
    loginActive,  \* PROVIDER_LOGIN_ACTIVE
    loginProcess, \* ProviderLoginProcess: whose helper it holds, 0 for none
    helper,       \* the helper of each sign-in
    signedIn,     \* auth.json: providers with a subscription's credential
    listedIn,     \* profiles.yaml: providers with a profile
    live,         \* config.yaml names the adapter that uses them
    appUp,
    signInFaults

signInVars == <<purpose, place, card, atStart, profileOf, signIn, loginActive, loginProcess, helper,
                signedIn, listedIn, live, appUp, signInFaults>>
filesVars == <<signedIn, listedIn, live>>
loginVars == <<signIn, loginActive, loginProcess, helper, signedIn, listedIn, live, appUp>>
cardVars == <<purpose, place, card, atStart, profileOf>>

Nobody == "nobody"
Unused == [stage |-> "unused", provider |-> Nobody, from |-> 0, outcome |-> "none", guards |-> <<>>]
\* A helper waits for the browser, has stored the credential, has listed the profile, and ends.
Helpers == {"none", "browser", "stored", "listed", "succeeded", "failed", "killed"}
Alive(c) == helper[c] \in {"browser", "stored", "listed"}

SignInTypeOK ==
    /\ purpose \in {"choose", "add"}
    /\ place \in {"card", "elsewhere", "finishing", "open"}
    /\ card \in [number : 0..MaxCards, phase : {"asking", "answered", "ready", "failed", "stuck"},
                 shown : SUBSET Subscriptions, waits : SignIns \cup {0}]
    /\ atStart \in [phase : {"asking", "answered", "ready"}, shown : SUBSET Subscriptions]
    /\ profileOf \in Subscriptions \cup {Nobody}
    /\ signIn \in [SignIns ->
          [stage : {"unused", "begun", "launched", "listening", "leaving", "returned", "over"},
           provider : Subscriptions \cup {Nobody}, from : 0..MaxCards,
           outcome : {"none", "connected", "refused", "failed"},
           guards : {<<>>, <<"login">>, <<"child">>, <<"login", "child">>, <<"child", "login">>}]]
    /\ loginActive \in BOOLEAN /\ loginProcess \in SignIns \cup {0}
    /\ helper \in [SignIns -> Helpers]
    /\ {signedIn, listedIn} \subseteq SUBSET Subscriptions
    /\ {live, appUp} \subseteq BOOLEAN /\ signInFaults \in 0..MaxSignInFaults

\* A card that opens asks for the statuses, but in the onboarding when the app has them.
NewCard(n) ==
    LET given == purpose = "choose" /\ atStart.phase = "ready"
    IN [number |-> n, phase |-> IF given THEN "ready" ELSE "asking",
        shown |-> IF given THEN atStart.shown ELSE {}, waits |-> 0]

\* The onboarding begins at the card, or at the choice of a workspace when there is a profile.
SignInInit ==
    /\ purpose \in {"choose", "add"}
    /\ signedIn \in SUBSET Subscriptions /\ listedIn = signedIn
    /\ IF purpose = "choose" /\ listedIn = {} THEN place = "card" ELSE place = "elsewhere"
    /\ \/ atStart = [phase |-> "asking", shown |-> {}]
       \/ atStart = [phase |-> "ready", shown |-> signedIn]
    /\ card = NewCard(IF place = "card" THEN 1 ELSE 0)
    /\ profileOf \in IF purpose = "choose" /\ listedIn # {} THEN listedIn ELSE {Nobody}
    /\ signIn = [c \in SignIns |-> Unused]
    /\ loginActive = FALSE /\ loginProcess = 0
    /\ helper = [c \in SignIns |-> "none"]
    /\ live \in BOOLEAN /\ appUp = TRUE /\ signInFaults = 0

Fails == signInFaults < MaxSignInFaults /\ signInFaults' = signInFaults + 1

-----------------------------------------------------------------------------
(* The window                                                              *)

OpenCard ==
    /\ appUp /\ purpose = "add" /\ place = "elsewhere" /\ card.number < MaxCards
    /\ place' = "card" /\ card' = NewCard(card.number + 1)
    /\ UNCHANGED <<purpose, atStart, profileOf, signInFaults, loginVars>>

\* The settings' card can be closed, whatever it waits for.
CloseCard ==
    /\ appUp /\ purpose = "add" /\ place = "card" /\ place' = "elsewhere"
    /\ UNCHANGED <<purpose, card, atStart, profileOf, signInFaults, loginVars>>

\* get_model_providers: another helper reads the files; its answer takes a while.
StatusesAreRead ==
    /\ appUp /\ place = "card" /\ card.phase = "asking"
    /\ card' = [card EXCEPT !.phase = "answered", !.shown = signedIn]
    /\ UNCHANGED <<purpose, place, atStart, profileOf, signInFaults, loginVars>>

StatusesArrive ==
    /\ appUp /\ place = "card" /\ card.phase = "answered"
    /\ card' = [card EXCEPT !.phase = "ready"]
    /\ UNCHANGED <<purpose, place, atStart, profileOf, signInFaults, loginVars>>

StatusesFail ==
    /\ appUp /\ place = "card" /\ card.phase \in {"asking", "answered"} /\ Fails
    /\ card' = [card EXCEPT !.phase = "failed", !.shown = {}]
    /\ UNCHANGED <<purpose, place, atStart, profileOf, loginVars>>

AppReadsStatuses ==
    /\ appUp /\ atStart.phase = "asking"
    /\ atStart' = [phase |-> "answered", shown |-> signedIn]
    /\ UNCHANGED <<purpose, place, card, profileOf, signInFaults, loginVars>>

\* A card that is still loading drops its own load when it is given the app's statuses, which
\* it took when it opened only: it goes on loading for ever.
AppHasStatuses ==
    /\ appUp /\ atStart.phase = "answered"
    /\ atStart' = [atStart EXCEPT !.phase = "ready"]
    /\ card' = IF purpose = "choose" /\ place = "card" /\ card.phase \in {"asking", "answered"}
               THEN [card EXCEPT !.phase = "stuck", !.shown = {}] ELSE card
    /\ UNCHANGED <<purpose, place, profileOf, signInFaults, loginVars>>

\* onReady: the settings close the card on display, whichever asked; the onboarding goes on,
\* to the end if there is a workspace.
TellsReady(v) ==
    IF purpose = "add"
    THEN place' = (IF place = "card" THEN "elsewhere" ELSE place) /\ UNCHANGED profileOf
    ELSE profileOf' = v /\ place' \in {"elsewhere", "finishing"}

\* ProviderLoginGuard::acquire
AcquireLogin(c, v) ==
    IF loginActive
    THEN /\ signIn' = [signIn EXCEPT ![c] = [Unused EXCEPT !.stage = "returned", !.provider = v,
                                                !.from = card.number, !.outcome = "refused"]]
         /\ UNCHANGED loginActive
    ELSE /\ signIn' = [signIn EXCEPT ![c] = [Unused EXCEPT !.stage = "begun", !.provider = v,
                                                !.from = card.number, !.guards = <<"login">>]]
         /\ loginActive' = TRUE

\* The button: a provider that is connected is chosen, another one is signed in to.
Connect(v) ==
    /\ appUp /\ place = "card" /\ card.phase = "ready" /\ card.waits = 0
    /\ IF v \in card.shown
       THEN purpose = "choose" /\ TellsReady(v) /\ UNCHANGED <<card, signIn, loginActive>>
       ELSE \E c \in SignIns :
               /\ signIn[c].stage = "unused" /\ \A d \in SignIns : d < c => signIn[d].stage # "unused"
               /\ card' = [card EXCEPT !.waits = c]
               /\ AcquireLogin(c, v)
               /\ UNCHANGED <<place, profileOf>>
    /\ UNCHANGED <<purpose, atStart, loginProcess, helper, filesVars, appUp, signInFaults>>

\* The command's answer.  The card that asked shows it, if it is on display still; onReady is
\* called in any case.
SignInAnswered(c) ==
    LET v == signIn[c].provider
        asked == place = "card" /\ card.number = signIn[c].from
        connected == signIn[c].outcome = "connected"
    IN /\ appUp /\ signIn[c].stage = "returned"
       /\ signIn' = [signIn EXCEPT ![c].stage = "over"]
       /\ card' = IF asked THEN [card EXCEPT !.waits = 0,
                                             !.shown = IF connected THEN @ \cup {v} ELSE @]
                  ELSE card
       /\ IF connected THEN TellsReady(v) ELSE UNCHANGED <<place, profileOf>>
       /\ UNCHANGED <<purpose, atStart, loginActive, loginProcess, helper, filesVars, appUp,
                      signInFaults>>

\* finish: with a workspace, and a profile and a model chosen; without, back to the card.  A
\* profile may name no model.
ChooseWorkspace ==
    /\ appUp /\ purpose = "choose" /\ place = "elsewhere"
    /\ \/ profileOf # Nobody /\ place' = "finishing" /\ UNCHANGED card
       \/ /\ card.number < MaxCards
          /\ place' = "card" /\ card' = NewCard(card.number + 1)
    /\ UNCHANGED <<purpose, atStart, profileOf, signInFaults, loginVars>>

\* The workspace is bound to the profile and loaded, or the onboarding stays before it.
FinishSetup ==
    /\ appUp /\ place = "finishing"
    /\ \/ place' = "open" /\ UNCHANGED signInFaults
       \/ place' = "elsewhere" /\ Fails
    /\ UNCHANGED <<purpose, card, atStart, profileOf, loginVars>>

-----------------------------------------------------------------------------
(* connect_model_provider                                                  *)

\* Mutant of DropOrder: the flag first.
DropOrderSwapped == <<"login", "child">>

\* The guards a returning command drops, the last one made first.
DropOrder == <<"child", "login">>

\* A command that holds no helper has the flag alone.
Leaves(c, outcome) ==
    signIn' = [signIn EXCEPT ![c].stage = "leaving", ![c].outcome = outcome,
                             ![c].guards = IF Len(@) = 2 THEN DropOrder ELSE @]

SpawnHelper(c) ==
    /\ appUp /\ signIn[c].stage = "begun"
    /\ \/ /\ signIn' = [signIn EXCEPT ![c].stage = "launched"]
          /\ helper' = [helper EXCEPT ![c] = "browser"] /\ UNCHANGED signInFaults
       \/ Fails /\ Leaves(c, "failed") /\ UNCHANGED helper
    /\ UNCHANGED <<cardVars, loginActive, loginProcess, filesVars, appUp>>

\* The helper that the slot holds, if it still runs, is killed.
KillsHeld == helper' = [d \in SignIns |-> IF d = loginProcess /\ Alive(d) THEN "killed" ELSE helper[d]]

\* ProviderLoginProcess::start: a helper that was in the slot is killed.
HoldHelper(c) ==
    /\ appUp /\ signIn[c].stage = "launched"
    /\ KillsHeld
    /\ loginProcess' = c
    /\ signIn' = [signIn EXCEPT ![c].stage = "listening", ![c].guards = Append(@, "child")]
    /\ UNCHANGED <<cardVars, loginActive, filesVars, appUp, signInFaults>>

\* config.yaml names the adapter that runs live models.
WriteAdapter == live' = TRUE

\* The events of the helper end with its process.  Without a clean exit and a status there is
\* no connection, and none is reported either when config.yaml cannot be written.
HelperEnded(c) ==
    /\ appUp /\ signIn[c].stage = "listening" /\ helper[c] \in {"succeeded", "failed", "killed"}
    /\ \/ helper[c] # "succeeded" /\ Leaves(c, "failed") /\ UNCHANGED <<live, signInFaults>>
       \/ /\ helper[c] = "succeeded"
          /\ \/ WriteAdapter /\ Leaves(c, "connected") /\ UNCHANGED signInFaults
             \/ Fails /\ Leaves(c, "failed") /\ UNCHANGED live
    /\ UNCHANGED <<cardVars, loginActive, loginProcess, helper, signedIn, listedIn, appUp>>

\* An event that cannot be read or passed on ends the command, whatever the helper did.
ListeningFails(c) ==
    /\ appUp /\ signIn[c].stage = "listening" /\ Fails /\ Leaves(c, "failed")
    /\ UNCHANGED <<cardVars, loginActive, loginProcess, helper, filesVars, appUp>>

DropGuard(c) ==
    /\ appUp /\ signIn[c].stage = "leaving"
    /\ IF Head(signIn[c].guards) = "child"
       THEN KillsHeld /\ loginProcess' = 0 /\ UNCHANGED loginActive
       ELSE loginActive' = FALSE /\ UNCHANGED <<helper, loginProcess>>
    /\ signIn' = [signIn EXCEPT ![c].guards = Tail(@),
                                ![c].stage = IF Len(signIn[c].guards) = 1 THEN "returned" ELSE @]
    /\ UNCHANGED <<cardVars, filesVars, appUp, signInFaults>>

-----------------------------------------------------------------------------
(* The helper                                                              *)

\* upsertSubscriptionProfile
SaveProfile(v) == listedIn' = listedIn \cup {v}

\* login: the credential is saved, then the profile, then the status is printed.
HelperGoesOn(c) ==
    /\ \/ /\ helper[c] = "browser" /\ helper' = [helper EXCEPT ![c] = "stored"]
          /\ signedIn' = signedIn \cup {signIn[c].provider} /\ UNCHANGED listedIn
       \/ /\ helper[c] = "stored" /\ helper' = [helper EXCEPT ![c] = "listed"]
          /\ SaveProfile(signIn[c].provider) /\ UNCHANGED signedIn
       \/ /\ helper[c] = "listed" /\ helper' = [helper EXCEPT ![c] = "succeeded"]
          /\ UNCHANGED <<signedIn, listedIn>>
    /\ UNCHANGED <<cardVars, signIn, loginActive, loginProcess, live, appUp, signInFaults>>

\* The sign-in is refused, or something cannot be written.
HelperFails(c) ==
    /\ Alive(c) /\ Fails /\ helper' = [helper EXCEPT ![c] = "failed"]
    /\ UNCHANGED <<cardVars, signIn, loginActive, loginProcess, filesVars, appUp>>

\* The app exits: the helper in the slot is killed.
ExitApp ==
    /\ appUp /\ appUp' = FALSE
    /\ KillsHeld /\ loginProcess' = 0
    /\ UNCHANGED <<cardVars, signIn, loginActive, filesVars, signInFaults>>

-----------------------------------------------------------------------------
SignInNext ==
    \/ AppReadsStatuses \/ AppHasStatuses
    \/ OpenCard \/ CloseCard \/ StatusesAreRead \/ StatusesArrive \/ StatusesFail
    \/ ChooseWorkspace \/ FinishSetup \/ ExitApp
    \/ \E v \in Subscriptions : Connect(v)
    \/ \E c \in SignIns :
          \/ SignInAnswered(c) \/ SpawnHelper(c) \/ HoldHelper(c) \/ HelperEnded(c)
          \/ ListeningFails(c) \/ DropGuard(c) \/ HelperGoesOn(c) \/ HelperFails(c)

SignInSpec == SignInInit /\ [][SignInNext]_signInVars

-----------------------------------------------------------------------------
(* Properties                                                              *)

\* One sign-in is under way at a time, and the flag is up exactly as long.
OneSignIn ==
    LET underWay == {c \in SignIns : signIn[c].stage \in {"begun", "launched", "listening", "leaving"}}
    IN /\ Cardinality(underWay) <= 1
       /\ loginActive => underWay # {}
       /\ Cardinality({c \in SignIns : Alive(c)}) <= 1

\* The app leaves no helper behind, but one it had just started and not put into the slot.
NoneLeftBehind == ~appUp => \A c \in SignIns : Alive(c) => signIn[c].stage = "launched"

\* A provider is shown or reported connected, and a workspace opened with it, only when what a
\* turn needs was written.  A sign-in that breaks off between the credential and the profile
\* leaves the provider shown as connected, and a workspace can be bound to the missing profile.
ConnectedIsUsable ==
    /\ card.shown \subseteq signedIn
    /\ \A c \in SignIns : signIn[c].outcome = "connected" =>
          live /\ signIn[c].provider \in signedIn \cap listedIn
    /\ place = "open" => /\ profileOf \in signedIn
                         /\ \/ profileOf \in listedIn
                            \/ \E c \in SignIns : /\ signIn[c].provider = profileOf
                                                 /\ helper[c] \in {"stored", "failed", "killed"}

\* However the card is closed, opened and used again while sign-ins go on or fail: OneSignIn,
\* NoneLeftBehind, ConnectedIsUsable, and the end of a sign-in kills no helper but its own.
SignInIsTrue ==
    /\ [](OneSignIn /\ NoneLeftBehind /\ ConnectedIsUsable)
    /\ [][\A c \in SignIns :
             Alive(c) /\ helper'[c] = "killed" => signIn[c].stage = "leaving" \/ ~appUp']_signInVars
=============================================================================
