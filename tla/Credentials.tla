---------------------------- MODULE Credentials ----------------------------
(***************************************************************************)
(* The credential files under ~/.floe/auth and the processes that write    *)
(* them without a lock.  auth.json maps a provider to its credential and   *)
(* profiles.yaml lists the profiles.  The bridge re-reads auth.json for    *)
(* every turn and saves what a refresh returned; the bus refreshes         *)
(* credentials while it lists models, from one reading of the file; the    *)
(* desktop signs in through a child process and saves or deletes profiles  *)
(* in commands of its own; the command line asks for a key at a prompt.    *)
(* Every save writes the whole file.  A provider rotates the refresh token *)
(* each time it is used.  One write of a file is one step.                 *)
(***************************************************************************)
EXTENDS Integers, FiniteSets

CONSTANTS
    Providers,      \* the providers
    ProfileIds,     \* the ids a profile may have
    ProviderOf,     \* the provider of each profile
    Turns,          \* the turns of the bridge that run at the same time
    MaxTokens,      \* bound: refresh tokens the providers issue
    MaxAuthCalls,   \* bound: operator's commands and model listings
    MaxAuthCrashes  \* bound: crashes of the bridge or the bus

\* A profile and a provider are told apart by the file they are entered in.
ASSUME CredentialAssumption ==
    /\ Providers # {} /\ ProfileIds # {} /\ Providers \cap ProfileIds = {}
    /\ ProviderOf \in [ProfileIds -> Providers]
    /\ {MaxTokens, MaxAuthCalls, MaxAuthCrashes} \subseteq Nat

VARIABLES
    auth,           \* auth.json: the credential of each provider
    profiles,       \* profiles.yaml
    live,           \* at each provider, the refresh tokens it accepts
    issued,         \* refresh tokens issued so far
    memory,         \* BridgeAuthStorage.data, shared by the turns
    known,          \* the profiles the bridge read when it started
    exchange,       \* what each turn of the bridge is doing
    listing,        \* the bus's listing of models, over its reading of auth.json
    signIn,         \* the desktop's sign-in process and its reading of auth.json
    prompt,         \* the command line's login and its readings
    wanted,         \* observer: the entries the last change of each asked for
    wantedProfiles, \* observer: the profiles the last change of each asked for
    since,          \* observer: what others changed since each writer read
    excused,        \* observer: what a writer overwrote after such a change
    authCalls, authCrashes

storeVars == <<auth, profiles, live, issued>>
observerVars == <<wanted, wantedProfiles, since, excused>>
credentialVars == <<storeVars, memory, known, exchange, listing, signIn, prompt,
                    observerVars, authCalls, authCrashes>>

None == 0
Key == -1
Tokens == 1 .. MaxTokens
Credential == {None, Key} \cup Tokens
File == [Providers -> Credential]
Writers == {"bridge", "bus", "desktop", "terminal"}
Items == Providers \cup ProfileIds

\* The exchange of a refresh token at a provider.
Exchange == [step : {"idle", "asked", "granted"}, provider : Providers, token : 0 .. MaxTokens]
NoExchange == [step |-> "idle", provider |-> CHOOSE p \in Providers : TRUE, token |-> 0]
NoFile == [p \in Providers |-> None]

ListingStates == [open : BOOLEAN, data : File, ask : [Providers -> Exchange]]
SignInStates == [step : {"none", "browser", "granted", "saved"}, opened : BOOLEAN,
                 token : 0 .. MaxTokens, data : File, provider : Providers]
PromptStates == [open : BOOLEAN, id : ProfileIds, data : File, profiles : SUBSET ProfileIds]

CredentialTypeOK ==
    /\ auth \in File /\ profiles \in SUBSET ProfileIds
    /\ live \in [Providers -> SUBSET Tokens] /\ issued \in 0 .. MaxTokens
    /\ memory \in File /\ known \in SUBSET ProfileIds
    /\ exchange \in [Turns -> Exchange]
    /\ listing \in ListingStates /\ signIn \in SignInStates /\ prompt \in PromptStates
    /\ wanted \in File /\ wantedProfiles \in SUBSET ProfileIds
    /\ since \in [Writers -> SUBSET Items] /\ excused \in SUBSET Items
    /\ authCalls \in 0 .. MaxAuthCalls /\ authCrashes \in 0 .. MaxAuthCrashes

\* ensureAuthFiles: the first start finds or writes empty files.
CredentialsInit ==
    /\ auth = NoFile /\ profiles = {}
    /\ live = [p \in Providers |-> {}] /\ issued = 0
    /\ memory = NoFile /\ known = {}
    /\ exchange = [t \in Turns |-> NoExchange]
    /\ listing = [open |-> FALSE, data |-> NoFile, ask |-> [p \in Providers |-> NoExchange]]
    /\ signIn = [step |-> "none", opened |-> FALSE, token |-> 0, data |-> NoFile,
                 provider |-> CHOOSE p \in Providers : TRUE]
    /\ prompt = [open |-> FALSE, id |-> CHOOSE i \in ProfileIds : TRUE,
                 data |-> NoFile, profiles |-> {}]
    /\ wanted = NoFile /\ wantedProfiles = {}
    /\ since = [w \in Writers |-> {}] /\ excused = {}
    /\ authCalls = 0 /\ authCrashes = 0

AuthCall == authCalls < MaxAuthCalls /\ authCalls' = authCalls + 1 /\ UNCHANGED authCrashes
NoCall == UNCHANGED <<authCalls, authCrashes>>

-----------------------------------------------------------------------------
\* What the observers note.

\* Writer w reads the files now.
Reads(w) == since' = [since EXCEPT ![w] = {}] /\ UNCHANGED <<wanted, wantedProfiles, excused>>

\* Writer w asked for the items in its write: the others have not read them, and
\* what changed since w read is overwritten.
Asked(w, items) ==
    /\ since' = [v \in Writers |-> IF v = w THEN since[v] ELSE since[v] \cup items]
    /\ excused' = (excused \ items) \cup (IF w \in Writers THEN since[w] ELSE {})

\* Writer w sets the entry of provider p and writes the whole of data.
WriteEntry(w, data, p, value) ==
    /\ auth' = [data EXCEPT ![p] = value]
    /\ wanted' = [wanted EXCEPT ![p] = value]

-----------------------------------------------------------------------------
\* A refresh of an oauth credential, by any of the processes.

Ask(p, token) == [step |-> "asked", provider |-> p, token |-> token]

\* The provider takes the refresh token and rotates it.
Rotated(x) == [x EXCEPT !.step = "granted", !.token = issued + 1]
Rotates(x) ==
    /\ x.step = "asked" /\ x.token \in live[x.provider] /\ issued < MaxTokens
    /\ issued' = issued + 1
    /\ live' = [live EXCEPT ![x.provider] = (@ \ {x.token}) \cup {issued + 1}]
Refuses(x) == x.step = "asked" /\ x.token \notin live[x.provider]

\* A rotation nobody will save.
LostBy(exchanges) == {x.provider : x \in {y \in exchanges : y.step = "granted"}}

-----------------------------------------------------------------------------
\* The bridge.

\* createBridgeAuthRuntime, when the bridge starts: the profiles are read once.
NewBridge ==
    /\ authCrashes < MaxAuthCrashes /\ authCrashes' = authCrashes + 1
    /\ memory' = auth /\ known' = profiles
    /\ excused' = excused \cup LostBy({exchange[t] : t \in Turns})
    /\ exchange' = [t \in Turns |-> NoExchange]
    /\ since' = [since EXCEPT !["bridge"] = {}]
    /\ UNCHANGED <<storeVars, listing, signIn, prompt, wanted, wantedProfiles, authCalls>>

\* Mutant: as the command line's getApiKey does, without reading the file again.
ReloadAtStartOnly == memory
\* reload, at the start of every resolution, read and modify.
Reload == auth

\* getApiKeyForProvider of a turn whose profile is known: a key is used as it is, an
\* oauth credential whose access token has expired is refreshed.
Resolve(t, id) ==
    LET p == ProviderOf[id] IN
    /\ exchange[t].step = "idle" /\ id \in known
    /\ memory' = Reload
    /\ memory'[p] \in Tokens
    /\ exchange' = [exchange EXCEPT ![t] = Ask(p, memory'[p])]
    /\ Reads("bridge") /\ NoCall
    /\ UNCHANGED <<storeVars, known, listing, signIn, prompt>>

ProviderAnswersTurn(t) ==
    /\ \/ Rotates(exchange[t]) /\ exchange' = [exchange EXCEPT ![t] = Rotated(exchange[t])]
       \/ Refuses(exchange[t]) /\ exchange' = [exchange EXCEPT ![t] = NoExchange] /\ UNCHANGED <<live, issued>>
    /\ NoCall
    /\ UNCHANGED <<auth, profiles, memory, known, listing, signIn, prompt, observerVars>>

\* modify, after the exchange: the shared data, whatever another turn reloaded into it.
SaveRefresh(t) ==
    LET p == exchange[t].provider IN
    /\ exchange[t].step = "granted"
    /\ memory' = [memory EXCEPT ![p] = exchange[t].token]
    /\ WriteEntry("bridge", memory, p, exchange[t].token) /\ Asked("bridge", {p})
    /\ exchange' = [exchange EXCEPT ![t] = NoExchange]
    /\ NoCall
    /\ UNCHANGED <<profiles, live, issued, known, listing, signIn, prompt, wantedProfiles>>

-----------------------------------------------------------------------------
\* The bus.

\* listAuthModels: one reading for every provider, and the expired credentials are
\* exchanged at the same time.
ListModels(expired) ==
    /\ ~listing.open /\ expired # {} /\ \A p \in expired : auth[p] \in Tokens
    /\ listing' = [open |-> TRUE, data |-> auth,
                   ask |-> [p \in Providers |-> IF p \in expired THEN Ask(p, auth[p]) ELSE NoExchange]]
    /\ AuthCall /\ Reads("bus")
    /\ UNCHANGED <<storeVars, memory, known, exchange, signIn, prompt>>

\* The listing is over when no provider is asked any more.
UntilAnswered(l) == [l EXCEPT !.open = \E p \in Providers : l.ask[p].step # "idle"]

ProviderAnswersListing(p) ==
    /\ \/ Rotates(listing.ask[p]) /\ listing' = [listing EXCEPT !.ask[p] = Rotated(listing.ask[p])]
       \/ /\ Refuses(listing.ask[p]) /\ UNCHANGED <<live, issued>>
          /\ listing' = UntilAnswered([listing EXCEPT !.ask[p] = NoExchange])
    /\ NoCall
    /\ UNCHANGED <<auth, profiles, memory, known, exchange, signIn, prompt, observerVars>>

\* BusCredentialStore.modify writes back what it read when the listing began.
SaveListed(p) ==
    LET token == listing.ask[p].token IN
    /\ listing.ask[p].step = "granted"
    /\ listing' = UntilAnswered([listing EXCEPT !.data[p] = token, !.ask[p] = NoExchange])
    /\ WriteEntry("bus", listing.data, p, token) /\ Asked("bus", {p})
    /\ NoCall
    /\ UNCHANGED <<profiles, live, issued, memory, known, exchange, signIn, prompt, wantedProfiles>>

NewBus ==
    /\ listing.open /\ authCrashes < MaxAuthCrashes /\ authCrashes' = authCrashes + 1
    /\ excused' = excused \cup LostBy({listing.ask[p] : p \in Providers})
    /\ listing' = [listing EXCEPT !.open = FALSE, !.ask = [p \in Providers |-> NoExchange]]
    /\ UNCHANGED <<storeVars, memory, known, exchange, signIn, prompt, wanted, wantedProfiles, since, authCalls>>

-----------------------------------------------------------------------------
\* The desktop.

\* connect_model_provider: one sign-in at a time, in a child process.
Connect(p) ==
    /\ signIn.step = "none"
    /\ signIn' = [signIn EXCEPT !.step = "browser", !.provider = p, !.opened = FALSE]
    /\ AuthCall
    /\ UNCHANGED <<storeVars, memory, known, exchange, listing, prompt, observerVars>>

\* FloeCredentialStore.load: before or after the browser's answer, as the provider
\* library calls modify.
SignInLoads ==
    /\ signIn.step \in {"browser", "granted"} /\ ~signIn.opened
    /\ signIn' = [signIn EXCEPT !.opened = TRUE, !.data = auth]
    /\ Reads("desktop") /\ NoCall
    /\ UNCHANGED <<storeVars, memory, known, exchange, listing, prompt>>

\* The owner agrees in the browser: a token beside those issued before.
ProviderSignsIn ==
    /\ signIn.step = "browser" /\ issued < MaxTokens
    /\ issued' = issued + 1
    /\ live' = [live EXCEPT ![signIn.provider] = @ \cup {issued + 1}]
    /\ signIn' = [signIn EXCEPT !.step = "granted", !.token = issued + 1]
    /\ NoCall
    /\ UNCHANGED <<auth, profiles, memory, known, exchange, listing, prompt, observerVars>>

SignInSaves ==
    /\ signIn.step = "granted" /\ signIn.opened
    /\ WriteEntry("desktop", signIn.data, signIn.provider, signIn.token)
    /\ Asked("desktop", {signIn.provider})
    /\ signIn' = [signIn EXCEPT !.step = "saved"]
    /\ NoCall
    /\ UNCHANGED <<profiles, live, issued, memory, known, exchange, listing, prompt, wantedProfiles>>

\* upsertSubscriptionProfile, over the file as it is then: the provider's profile, or a
\* new one.
SignInEnds(id) ==
    /\ signIn.step = "saved" /\ ProviderOf[id] = signIn.provider
    /\ (\E i \in profiles : ProviderOf[i] = signIn.provider) => id \in profiles
    /\ profiles' = profiles \cup {id} /\ wantedProfiles' = wantedProfiles \cup {id}
    /\ Asked("command", {id})
    /\ signIn' = [signIn EXCEPT !.step = "none"]
    /\ NoCall
    /\ UNCHANGED <<auth, live, issued, memory, known, exchange, listing, prompt, wanted>>

\* The child fails, or the desktop exits and kills it: the guard is released.
SignInFails ==
    /\ signIn.step # "none"
    /\ signIn' = [signIn EXCEPT !.step = "none"]
    /\ NoCall
    /\ UNCHANGED <<storeVars, memory, known, exchange, listing, prompt, observerVars>>

\* save_substrate_auth_profile: the profile, then its key if one is given; an empty key removes
\* the credential of the provider.
SaveProfile(id, key) ==
    LET p == ProviderOf[id] IN
    /\ AuthCall
    /\ profiles' = profiles \cup {id} /\ wantedProfiles' = wantedProfiles \cup {id}
    /\ CASE key = "given" -> WriteEntry("command", auth, p, Key)
         [] key = "empty" -> WriteEntry("command", auth, p, None)
         [] key = "absent" -> UNCHANGED <<auth, wanted>>
    /\ Asked("command", {id} \cup (IF key = "absent" THEN {} ELSE {p}))
    /\ UNCHANGED <<live, issued, memory, known, exchange, listing, signIn, prompt>>

\* The profile goes, and the credential of its provider unless another profile uses it.
RemoveProfile(id) ==
    LET p == ProviderOf[id]
        unused == \A i \in profiles \ {id} : ProviderOf[i] # p
    IN
    /\ id \in profiles
    /\ profiles' = profiles \ {id} /\ wantedProfiles' = wantedProfiles \ {id}
    /\ IF unused THEN WriteEntry("command", auth, p, None) ELSE UNCHANGED <<auth, wanted>>
    /\ Asked("command", {id} \cup (IF unused THEN {p} ELSE {}))

\* delete_substrate_auth_profile, and logout on the command line.
DeleteProfile(id) ==
    /\ AuthCall /\ RemoveProfile(id)
    /\ UNCHANGED <<live, issued, memory, known, exchange, listing, signIn, prompt>>

-----------------------------------------------------------------------------
\* The command line.

\* login reads both files as it starts, then waits at the prompt.
StartLogin(id) ==
    /\ ~prompt.open
    /\ prompt' = [open |-> TRUE, id |-> id, data |-> auth, profiles |-> profiles]
    /\ AuthCall /\ Reads("terminal")
    /\ UNCHANGED <<storeVars, memory, known, exchange, listing, signIn>>

\* set and saveProfiles write both back.
EnterKey ==
    LET p == ProviderOf[prompt.id] IN
    /\ prompt.open
    /\ WriteEntry("terminal", prompt.data, p, Key)
    /\ profiles' = prompt.profiles \cup {prompt.id}
    /\ wantedProfiles' = wantedProfiles \cup {prompt.id}
    /\ Asked("terminal", {p, prompt.id})
    /\ prompt' = [prompt EXCEPT !.open = FALSE]
    /\ NoCall
    /\ UNCHANGED <<live, issued, memory, known, exchange, listing, signIn>>

-----------------------------------------------------------------------------
CredentialsNext ==
    \/ NewBridge \/ NewBus
    \/ \E t \in Turns : \/ \E id \in ProfileIds : Resolve(t, id)
                        \/ ProviderAnswersTurn(t) \/ SaveRefresh(t)
    \/ \E e \in SUBSET Providers : ListModels(e)
    \/ \E p \in Providers : ProviderAnswersListing(p) \/ SaveListed(p) \/ Connect(p)
    \/ SignInLoads \/ ProviderSignsIn \/ SignInSaves \/ SignInFails
    \/ \E id \in ProfileIds : SignInEnds(id) \/ DeleteProfile(id) \/ StartLogin(id)
    \/ \E id \in ProfileIds, key \in {"given", "empty", "absent"} : SaveProfile(id, key)
    \/ EnterKey

CredentialsSpec == CredentialsInit /\ [][CredentialsNext]_credentialVars

-----------------------------------------------------------------------------
\* A rotated token of provider p waits to be saved.
Unsaved(p) ==
    \/ \E t \in Turns : exchange[t].step = "granted" /\ exchange[t].provider = p
    \/ listing.ask[p].step = "granted"

\* What nobody overwrote is what the last change asked for, whichever process made it,
\* and a stored refresh token is one its provider still accepts.
FilesAreKept ==
    /\ \A p \in Providers \ excused :
        /\ auth[p] = wanted[p]
        /\ auth[p] \in Tokens => auth[p] \in live[p] \/ Unsaved(p)
    /\ \A id \in ProfileIds \ excused : id \in profiles <=> id \in wantedProfiles

\* A turn never presents a token that was already used, unless its entry was overwritten or
\* another process is just replacing it.
PresentsLiveTokens ==
    \A t \in Turns :
        exchange[t].step = "idle" /\ exchange'[t].step = "asked" =>
            LET p == exchange'[t].provider IN
            p \in excused \/ Unsaved(p) \/ exchange'[t].token \in live[p]

\* The credential files against their writers: FilesAreKept in every state, and
\* PresentsLiveTokens of every step.
CredentialsAreKept == []FilesAreKept /\ [][PresentsLiveTokens]_credentialVars
=============================================================================
