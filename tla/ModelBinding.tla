---------------------------- MODULE ModelBinding ----------------------------
(***************************************************************************)
(* Which profile and model a turn runs on.  The operator chooses a profile *)
(* and a model for an actor in the actor inspector, which saves every      *)
(* click and reloads after it, and for the workspace in the model control  *)
(* above the composer, which lets a message be sent only while it is       *)
(* ready.  The bus stores one binding per actor, workspace and host, and   *)
(* the bridge resolves them with what the project declares when a delivery *)
(* is handled.                                                             *)
(*                                                                         *)
(* The clicks and new names of the actor shown are numbered, and a save or *)
(* a request in flight has the number of the one it comes from; the        *)
(* request an inspector begins with has the number 0.                      *)
(***************************************************************************)
EXTENDS Naturals

CONSTANTS
    BoundActors,    \* the actors the inspector can show
    LoginProfiles,  \* the profiles in profiles.yaml
    Models,         \* the models of the registry
    MakerOf,        \* the provider of each profile and of each model
    DefaultModel,   \* the model a profile names, or Unset
    Unset,          \* no profile, model or provider
    MaxChoices,     \* bound: clicks of the operator and new names
    MaxBindFaults   \* bound: requests that fail

Workspace == "workspace"
Host == "host"

ASSUME BindingAssumption ==
    /\ Unset \notin LoginProfiles \cup Models \cup BoundActors \cup {Workspace, Host}
    /\ {Workspace, Host} \cap BoundActors = {}
    /\ MaxChoices \in Nat /\ MaxBindFaults \in Nat

VARIABLES
    bound,      \* runtime_bindings: the selection of each slot
    declared,   \* what the project's file declares for its actors
    inspected,  \* the actor the inspector shows, Unset while it is closed
    form,       \* the inspector's selection
    requests,   \* resolveRuntimeBinding requests in flight
    saves,      \* the saves in flight, with those of views that are gone
    control,    \* the model control
    disturbed,  \* observer: a click or a new name during a request, a failure or a late save
    landedUnseen,  \* observer: a save of an earlier view landed under the control
    choices, bindFaults

bindingVars == <<bound, declared, inspected, form, requests, saves, control, disturbed,
                 landedUnseen, choices, bindFaults>>

Selection == [profile : LoginProfiles \cup {Unset}, model : Models \cup {Unset}]
Inherit == [profile |-> Unset, model |-> Unset]
Slots == BoundActors \cup {Workspace, Host}

\* The selections a menu can produce: a model is picked among those of the profile.
Coherent == {s \in Selection : s.model # Unset => s.profile # Unset /\ MakerOf[s.model] = MakerOf[s.profile]}

\* What a project's file may declare: a provider and a model of it, and a profile.
Declarations ==
    {d \in [provider : {MakerOf[m] : m \in Models} \cup {Unset}, model : Models \cup {Unset},
            profile : LoginProfiles \cup {Unset}] :
        d.provider # Unset /\ d.model # Unset => MakerOf[d.model] = d.provider}

Clicked == 1 .. MaxChoices
Asked == 0 .. MaxChoices

NoControl == [open |-> FALSE, step |-> "loading", form |-> Inherit, saved |-> FALSE]
Controls == [open : BOOLEAN, step : {"loading", "answered", "loaded", "saving"},
             form : Coherent, saved : BOOLEAN]

\* A save is sent by a view and taken by the bus; one of a view that is gone is not answered.
NoSave == [stage |-> "none", from |-> "gone", slot |-> Host, choice |-> Inherit]
SaveStates == [stage : {"none", "sent", "taken"}, from : {"inspector", "control", "gone"},
               slot : Slots, choice : Coherent]
SentBy(view, slot, s) == [stage |-> "sent", from |-> view, slot |-> slot, choice |-> s]

NoRequest == [stage |-> "none", slot |-> Host, answer |-> Inherit]
RequestStates == [stage : {"none", "sent", "answered"}, slot : Slots, answer : Coherent]
RequestOf(a) == [stage |-> "sent", slot |-> a, answer |-> Inherit]

BindingTypeOK ==
    /\ bound \in [Slots -> Coherent] /\ declared \in Declarations
    /\ inspected \in BoundActors \cup {Unset} /\ form \in Coherent
    /\ requests \in [Asked -> RequestStates] /\ saves \in [Clicked -> SaveStates]
    /\ control \in Controls
    /\ disturbed \in BOOLEAN /\ landedUnseen \in BOOLEAN
    /\ choices \in 0 .. MaxChoices /\ bindFaults \in 0 .. MaxBindFaults

BindingInit ==
    /\ bound \in {b \in [Slots -> Coherent] : \A s \in BoundActors : b[s] = Inherit}
    /\ declared \in Declarations
    /\ inspected = Unset /\ form = Inherit /\ control = NoControl
    /\ requests = [i \in Asked |-> NoRequest] /\ saves = [i \in Clicked |-> NoSave]
    /\ disturbed = FALSE /\ landedUnseen = FALSE
    /\ choices = 0 /\ bindFaults = 0

Clicks == choices < MaxChoices /\ choices' = choices + 1 /\ UNCHANGED <<declared, bindFaults>>
NoClicks == UNCHANGED <<declared, choices, bindFaults>>
BindFault == bindFaults < MaxBindFaults /\ bindFaults' = bindFaults + 1 /\ UNCHANGED <<declared, choices>>

Save(view, slot, s) == saves' = [saves EXCEPT ![choices + 1] = SentBy(view, slot, s)]

-----------------------------------------------------------------------------
\* The actor inspector.

Saving(i) == saves[i].stage # "none" /\ saves[i].from = "inspector"
Loading(i) == requests[i].stage # "none"
Busy == (\E i \in Asked : Loading(i)) \/ (\E i \in Clicked : Saving(i))

\* Another actor is selected, or the one shown has another name, because it was renamed here
\* or the stream brought the actors anew: the binding is asked for, over the form as it is.
ShowActor(a) ==
    /\ Clicks
    /\ inspected # Unset /\ inspected' = a
    /\ requests' = [requests EXCEPT ![choices + 1] = RequestOf(a)] /\ disturbed' = Busy
    /\ UNCHANGED <<bound, form, saves, control, landedUnseen>>

\* handleProfileChange and handleModelChange: the choice is shown and saved at once.
Choose(s) ==
    /\ Clicks
    /\ inspected # Unset /\ s # form
    /\ s.model = Unset \/ s.profile = form.profile
    /\ form' = s /\ Save("inspector", inspected, s) /\ disturbed' = Busy
    /\ UNCHANGED <<bound, inspected, requests, control, landedUnseen>>

\* upsertRuntimeBinding, or clearRuntimeBinding for the choice to inherit.
Bind(slot, s) == bound' = [bound EXCEPT ![slot] = s]

\* The save of a view that is gone lands as well.
BusTakesSave(i) ==
    /\ saves[i].stage = "sent" /\ Bind(saves[i].slot, saves[i].choice)
    /\ IF saves[i].from = "gone"
       THEN /\ saves' = [saves EXCEPT ![i] = NoSave]
            /\ landedUnseen' = (landedUnseen \/ control.open)
            /\ disturbed' = (disturbed \/ inspected # Unset)
       ELSE saves' = [saves EXCEPT ![i].stage = "taken"] /\ UNCHANGED <<disturbed, landedUnseen>>
    /\ NoClicks /\ UNCHANGED <<inspected, form, requests, control>>

\* saveBinding goes on: the binding of the actor it saved is read again.
SaveAnswered(i) ==
    /\ Saving(i) /\ saves[i].stage = "taken"
    /\ requests' = [requests EXCEPT ![i] = RequestOf(saves[i].slot)]
    /\ saves' = [saves EXCEPT ![i] = NoSave]
    /\ NoClicks /\ UNCHANGED <<bound, inspected, form, control, disturbed, landedUnseen>>

\* The request or its answer is lost: the form keeps what was chosen.
SaveLost(i) ==
    /\ Saving(i) /\ BindFault
    /\ saves' = [saves EXCEPT ![i] = NoSave] /\ disturbed' = TRUE
    /\ UNCHANGED <<bound, inspected, form, requests, control, landedUnseen>>

\* GET /v1/runtime/bindings/resolve, of the actor's own slot.
BusResolves(i) ==
    /\ requests[i].stage = "sent"
    /\ requests' = [requests EXCEPT ![i].stage = "answered", ![i].answer = bound[requests[i].slot]]
    /\ NoClicks
    /\ UNCHANGED <<bound, inspected, form, saves, control, disturbed, landedUnseen>>

\* loadResolution fills the form, whichever actor is shown by then.
Resolved(i) ==
    /\ requests[i].stage = "answered"
    /\ form' = requests[i].answer /\ requests' = [requests EXCEPT ![i] = NoRequest]
    /\ NoClicks /\ UNCHANGED <<bound, inspected, saves, control, disturbed, landedUnseen>>

ResolveLost(i) ==
    /\ Loading(i) /\ BindFault
    /\ requests' = [requests EXCEPT ![i] = NoRequest] /\ disturbed' = TRUE
    /\ UNCHANGED <<bound, inspected, form, saves, control, landedUnseen>>

-----------------------------------------------------------------------------
\* One view of the window is shown at a time: opening another drops what this one was
\* loading, but not the saves it has sent.
Open(actor, shown) ==
    /\ inspected' = actor /\ form' = Inherit /\ control' = shown
    /\ requests' = [i \in Asked |-> IF i = 0 /\ actor # Unset THEN RequestOf(actor) ELSE NoRequest]
    /\ saves' = [i \in Clicked |-> IF saves[i].stage = "sent"
                                   THEN [saves[i] EXCEPT !.from = "gone"] ELSE NoSave]
    /\ disturbed' = FALSE /\ landedUnseen' = FALSE
    /\ NoClicks /\ UNCHANGED bound

OpenInspector(a) == inspected = Unset /\ Open(a, NoControl)
OpenControl == ~control.open /\ Open(Unset, [NoControl EXCEPT !.open = TRUE])
OpenSettings == (inspected # Unset \/ control.open) /\ Open(Unset, NoControl)

\* The settings page saves the workspace's binding, one request for each click.
SettingsSave(s) ==
    /\ Clicks
    /\ inspected = Unset /\ ~control.open
    /\ Save("gone", Workspace, s)
    /\ UNCHANGED <<bound, inspected, form, requests, control, disturbed, landedUnseen>>

-----------------------------------------------------------------------------
\* The model control of the composer.

ControlSteps == UNCHANGED <<bound, inspected, form, requests, disturbed, landedUnseen>>

\* getRuntimeBindings: what it read is kept in form until it is applied.
ControlAnswered ==
    /\ control.open /\ control.step = "loading"
    /\ control' = [control EXCEPT !.step = "answered", !.form = bound[Workspace]]
    /\ NoClicks /\ ControlSteps /\ UNCHANGED saves

ControlLoaded ==
    /\ control.step = "answered"
    /\ control' = [control EXCEPT !.step = "loaded", !.saved = TRUE]
    /\ NoClicks /\ ControlSteps /\ UNCHANGED saves

\* The load fails: the menus open empty, and nothing counts as saved.
ControlLoadFails ==
    /\ control.open /\ control.step \in {"loading", "answered"}
    /\ control' = [control EXCEPT !.step = "loaded", !.form = Inherit]
    /\ BindFault /\ ControlSteps /\ UNCHANGED saves

\* Mutant: the last saved selection is kept while a new one is saved.
ChooseKeepingSaved(s) ==
    /\ Clicks
    /\ control.step = "loaded" /\ s # control.form
    /\ s.model = Unset \/ s.profile = control.form.profile
    /\ control' = [control EXCEPT !.step = "saving", !.form = s]
    /\ Save("control", Workspace, s)
    /\ ControlSteps
\* save: the menus are disabled and the control is not ready until it is answered.
ChooseForWorkspace(s) ==
    /\ Clicks
    /\ control.step = "loaded" /\ s # control.form
    /\ s.model = Unset \/ s.profile = control.form.profile
    /\ control' = [control EXCEPT !.step = "saving", !.form = s, !.saved = FALSE]
    /\ Save("control", Workspace, s)
    /\ ControlSteps

OfControl(i) == saves[i].stage # "none" /\ saves[i].from = "control"

ControlSaved(i) ==
    /\ OfControl(i) /\ saves[i].stage = "taken"
    /\ control' = [control EXCEPT !.step = "loaded", !.saved = TRUE]
    /\ saves' = [saves EXCEPT ![i] = NoSave]
    /\ NoClicks /\ ControlSteps

\* The request or its answer is lost: what was chosen does not count as saved.
ControlSaveFails(i) ==
    /\ OfControl(i)
    /\ control' = [control EXCEPT !.step = "loaded"]
    /\ saves' = [saves EXCEPT ![i] = NoSave]
    /\ BindFault /\ ControlSteps

\* ready: the composer sends only while this holds.
Ready ==
    /\ control.open /\ control.step = "loaded" /\ control.saved
    /\ control.form.profile # Unset /\ control.form.model # Unset

-----------------------------------------------------------------------------
\* resolveAuthProfile: the profile and the model of the most specific binding, the
\* model from the layers below when that binding has none.
NoModel == [model |-> Unset, of |-> Unset]
ModelOf(slot, below) ==
    IF bound[slot].model # Unset THEN [model |-> bound[slot].model, of |-> slot] ELSE below
HostModel == ModelOf(Host, NoModel)
WorkspaceModel == ModelOf(Workspace, HostModel)

ResolveAuthProfile(a) ==
    LET found(profile, local, m) == [profile |-> profile, local |-> local, model |-> m.model, of |-> m.of]
    IN
    CASE bound[a].profile # Unset -> found(bound[a].profile, TRUE, ModelOf(a, WorkspaceModel))
      [] bound[a].profile = Unset /\ bound[Workspace].profile # Unset ->
            found(bound[Workspace].profile, TRUE, WorkspaceModel)
      [] bound[a].profile = Unset /\ bound[Workspace].profile = Unset /\ declared.profile # Unset ->
            found(declared.profile, FALSE, NoModel)
      [] OTHER -> found(bound[Host].profile, FALSE, HostModel)

\* handleDelivery: a binding's model goes before the one the project declares.
AskedModel(chosen) == IF chosen.model # Unset THEN chosen.model ELSE declared.model

\* resolveRuntimeAuth: a binding's profile decides the provider, and a model the
\* project declared for another provider is dropped; without a binding a project and a
\* profile that disagree are an error.  What is left must be in the registry.
Failure(code) == [ok |-> FALSE, code |-> code]
EffectiveRuntime(a) ==
    LET chosen == ResolveAuthProfile(a)
        maker == IF chosen.profile = Unset THEN Unset ELSE MakerOf[chosen.profile]
        foreign == declared.provider \notin {Unset, maker}
        kept == IF chosen.local /\ foreign /\ chosen.of \in {Unset, Host}
                THEN Unset ELSE AskedModel(chosen)
        model == IF kept # Unset THEN kept ELSE DefaultModel[chosen.profile]
    IN
    CASE chosen.profile = Unset -> Failure("runtime_profile_required")
      [] chosen.profile # Unset /\ ~chosen.local /\ foreign -> Failure("runtime_profile_provider_mismatch")
      [] OTHER -> IF model = Unset THEN Failure("runtime_model_required")
                  ELSE IF MakerOf[model] # maker THEN Failure("runtime_model_unknown")
                  ELSE [ok |-> TRUE, provider |-> maker, model |-> model]

-----------------------------------------------------------------------------
BindingNext ==
    \/ \E a \in BoundActors : ShowActor(a) \/ OpenInspector(a)
    \/ \E s \in Coherent : Choose(s) \/ ChooseForWorkspace(s) \/ SettingsSave(s)
    \/ \E i \in Clicked : \/ BusTakesSave(i) \/ SaveAnswered(i) \/ SaveLost(i)
                          \/ ControlSaved(i) \/ ControlSaveFails(i)
    \/ \E i \in Asked : BusResolves(i) \/ Resolved(i) \/ ResolveLost(i)
    \/ OpenControl \/ OpenSettings \/ ControlAnswered \/ ControlLoaded \/ ControlLoadFails

BindingSpec == BindingInit /\ [][BindingNext]_bindingVars

-----------------------------------------------------------------------------
\* A message can be sent only while the control shows what the bus has stored, and
\* then an actor without a binding of its own runs on exactly that; only a save left
\* behind by an earlier control may land unseen.
ReadyIsStored ==
    Ready /\ ~landedUnseen =>
        /\ control.form = bound[Workspace]
        /\ \A a \in BoundActors :
            bound[a].profile = Unset =>
                EffectiveRuntime(a) = [ok |-> TRUE, provider |-> MakerOf[control.form.profile],
                                       model |-> control.form.model]

\* The inspector shows the stored binding of the actor it shows, once nothing is in flight,
\* with these exceptions, which last until it asks again undisturbed: requests overlapped,
\* because the operator clicked, or the actor got another name (renamed here, or as a stream
\* message brought it), while one was under way, for their answers are applied in any order;
\* a request failed; or a save of an earlier view landed late.
InspectorIsTrue == inspected # Unset /\ ~Busy /\ ~disturbed => form = bound[inspected]

\* A turn runs on a model of the provider whose credential it uses, on the operator's
\* own choice for the actor when there is one, or not at all.
ChoiceIsKept ==
    \A a \in BoundActors :
        LET run == EffectiveRuntime(a) IN
        run.ok =>
            /\ MakerOf[run.model] = run.provider
            /\ bound[a].profile # Unset => run.provider = MakerOf[bound[a].profile]
            /\ bound[a].model # Unset => run.model = bound[a].model

\* What the operator reads, what is stored and what runs agree.
BindingIsTrue == ReadyIsStored /\ InspectorIsTrue /\ ChoiceIsKept
=============================================================================
