---------------------------- MODULE ModelListing ----------------------------
(***************************************************************************)
(* The models the bus offers for a choice (floe-bus/src: auth.ts,          *)
(* live-model-probe.ts): the catalog of the model library and the models   *)
(* of models.json, without those the provider does not serve to the stored *)
(* credential.  What it serves is asked page by page and kept for an hour; *)
(* whenever it cannot be learned the whole catalog is offered.             *)
(*                                                                         *)
(* The module follows the listings of one provider, several at a time,     *)
(* while the provider changes what it serves and the operator changes the  *)
(* account.  Providers are external: a fetch is answered, fails or times   *)
(* out, and the body of an answer, which is not under the timeout, may     *)
(* never end.                                                              *)
(***************************************************************************)
EXTENDS Naturals, FiniteSets

CONSTANTS
    Builtin,       \* models of the library, numbered in the order of the provider's pages
    OwnModels,     \* further models models.json may define
    Accounts,      \* accounts with the provider, or tokens of one
    NoAccount,     \* no credential
    TokenPrefix,   \* the first 16 characters of their tokens, the key of the cache
    PageLength,    \* models of a page
    CacheLife,     \* CACHE_TTL_MS, in hours of the model
    Listings,      \* bound: listings asked for
    MaxHour,       \* bound: time that passes
    MaxMoves       \* bound: changes of what the provider serves and of the account

ASSUME ListingAssumption ==
    /\ Builtin \subseteq Nat \ {0} /\ IsFiniteSet(Builtin) /\ OwnModels \cap Builtin = {}
    /\ NoAccount \notin Accounts
    /\ TokenPrefix \in [Accounts -> {TokenPrefix[a] : a \in Accounts}]
    /\ {PageLength, CacheLife} \subseteq Nat \ {0} /\ {MaxHour, MaxMoves} \subseteq Nat

VARIABLES
    providerKind,  \* how the provider is asked: "paged", "plain", or not at all
    offered,       \* what it serves to each account
    inUse,         \* the account of the stored credential
    moves,         \* changes of the two so far
    custom,        \* customModelKeys: models that models.json defines, or defines anew
    cache,         \* by prefix: what a probe learned, and until when it counts
    query,         \* the listings
    hour

listingVars == <<providerKind, offered, inUse, moves, custom, cache, query, hour>>

Models == Builtin \cup OwnModels
Catalog == Builtin \cup custom
Prefixes == {TokenPrefix[a] : a \in Accounts}

\* A probe: whose credential it uses, when it began, and what it has read.  What was served
\* at some moment and at every moment since it began are history variables.
Probe(a, t) == [of |-> a, since |-> t, ids |-> {}, ever |-> offered[a], always |-> offered[a]]
NoProbe == [of |-> NoAccount, since |-> 0, ids |-> {}, ever |-> {}, always |-> {}]
ProbeType == [of : Accounts \cup {NoAccount}, since : 0..MaxHour, ids : SUBSET Builtin,
              ever : SUBSET Builtin, always : SUBSET Builtin]

NotAsked == [stage |-> "none", account |-> NoAccount, after |-> 0, probe |-> NoProbe, answer |-> {}]
NoEntry == [until |-> 0, probe |-> NoProbe]

ListingTypeOK ==
    /\ providerKind \in {"paged", "plain", "none"}
    /\ offered \in [Accounts -> SUBSET Builtin] /\ moves \in 0..MaxMoves
    /\ inUse \in Accounts \cup {NoAccount}
    /\ custom \in SUBSET Models
    /\ cache \in [Prefixes -> [until : 0..(MaxHour + CacheLife), probe : ProbeType]]
    /\ query \in [Listings ->
          [stage : {"none", "resolving", "asking", "reading", "stalled", "over"},
           account : Accounts \cup {NoAccount}, after : {0} \cup Builtin,
           probe : ProbeType, answer : SUBSET Models]]
    /\ hour \in 0..MaxHour

ListingsInit ==
    /\ providerKind \in {"paged", "plain", "none"}
    /\ offered = [a \in Accounts |-> Builtin] /\ moves = 0
    /\ inUse \in Accounts \cup {NoAccount}
    /\ custom \in SUBSET Models
    /\ cache = [k \in Prefixes |-> NoEntry]
    /\ query = [c \in Listings |-> NotAsked]
    /\ hour = 0

-----------------------------------------------------------------------------
(* Around the bus                                                          *)

\* The provider takes a model into its service to an account, or out of it.
ServiceChanges ==
    \E a \in Accounts, m \in Builtin :
        LET now == IF m \in offered[a] THEN offered[a] \ {m} ELSE offered[a] \cup {m}
        IN /\ moves < MaxMoves /\ moves' = moves + 1
           /\ offered' = [offered EXCEPT ![a] = now]
           /\ query' = [c \in Listings |->
                 IF query[c].probe.of = a /\ query[c].stage # "over"
                 THEN [query[c] EXCEPT !.probe.ever = @ \cup now, !.probe.always = @ \cap now]
                 ELSE query[c]]
           /\ UNCHANGED <<providerKind, inUse, custom, cache, hour>>

\* The operator signs in to another account, or out.
AccountChanges ==
    \E a \in Accounts \cup {NoAccount} :
        /\ a # inUse /\ inUse' = a
        /\ moves < MaxMoves /\ moves' = moves + 1
        /\ UNCHANGED <<providerKind, offered, custom, cache, query, hour>>

Later ==
    /\ hour < MaxHour /\ hour' = hour + 1
    /\ UNCHANGED <<providerKind, offered, inUse, moves, custom, cache, query>>

-----------------------------------------------------------------------------
(* The bus                                                                 *)

OutsideVars == <<providerKind, offered, inUse, moves, custom, hour>>

\* GET /v1/auth/models: auth.json and models.json are read at once.
ListAuthModels(c) ==
    /\ query[c].stage = "none"
    /\ query' = [query EXCEPT ![c].stage = "resolving", ![c].account = inUse]
    /\ UNCHANGED <<OutsideVars, cache>>

\* intersectWithLive: what models.json defines is never left out.
IntersectWithLive(live) == {m \in Catalog : m \in custom \/ m \in live}

AnswerIs(c, answer, probe) ==
    query' = [query EXCEPT ![c].stage = "over", ![c].answer = answer, ![c].probe = probe,
                               ![c].after = 0]

\* A probe that was not made, or failed, filters nothing.
FailsOpen(c) == AnswerIs(c, Catalog, NoProbe)

\* fetchLiveModelIds, to its first await: the credential is resolved, or not.
FetchLiveModelIds(c) ==
    LET a == query[c].account
        entry == cache[TokenPrefix[a]]
    IN /\ query[c].stage = "resolving"
       /\ \/ FailsOpen(c)
          \/ /\ a # NoAccount /\ entry.until > hour
             /\ AnswerIs(c, IntersectWithLive(entry.probe.ids), entry.probe)
          \/ /\ a # NoAccount /\ entry.until <= hour /\ providerKind # "none"
             /\ query' = [query EXCEPT ![c].stage = "asking", ![c].probe = Probe(a, hour)]
       /\ UNCHANGED <<OutsideVars, cache>>

\* The answer begins in time.
FetchIsAnswered(c) ==
    /\ query[c].stage = "asking"
    /\ query' = [query EXCEPT ![c].stage = "reading"]
    /\ UNCHANGED <<OutsideVars, cache>>

\* Mutant of ProbeFails: what was read so far is used.
FailsWithPart(c) ==
    /\ query[c].stage \in {"asking", "reading"}
    /\ AnswerIs(c, IntersectWithLive(query[c].probe.ids), query[c].probe)
    /\ UNCHANGED <<OutsideVars, cache>>

\* The fetch fails or times out, or the answer is not one of models.
ProbeFails(c) ==
    /\ query[c].stage \in {"asking", "reading"}
    /\ FailsOpen(c)
    /\ UNCHANGED <<OutsideVars, cache>>

\* The body of the answer does not end.
BodyStalls(c) ==
    /\ query[c].stage = "reading"
    /\ query' = [query EXCEPT ![c].stage = "stalled"]
    /\ UNCHANGED <<OutsideVars, cache>>

\* The page of an account's models after a model.
PageOf(a, after) ==
    LET rest == {m \in offered[a] : m > after}
    IN IF providerKind = "plain" THEN rest
       ELSE {m \in rest : Cardinality({n \in rest : n < m}) < PageLength}

\* The models of a page are added; when it is the last one what was learned is cached, unless
\* it is nothing.
PageIsRead(c) ==
    LET probe == query[c].probe
        page == PageOf(probe.of, query[c].after)
        read == [probe EXCEPT !.ids = @ \cup page]
        more == \E m \in offered[probe.of] : m > query[c].after /\ m \notin page
    IN /\ query[c].stage = "reading"
       /\ IF more
          THEN /\ query' = [query EXCEPT ![c].stage = "asking", ![c].probe = read,
                                ![c].after = CHOOSE m \in page : \A n \in page : n <= m]
               /\ UNCHANGED cache
          ELSE IF read.ids = {} THEN FailsOpen(c) /\ UNCHANGED cache
          ELSE /\ cache' = [cache EXCEPT ![TokenPrefix[probe.of]] = [until |-> probe.since + CacheLife, probe |-> read]]
               /\ AnswerIs(c, IntersectWithLive(read.ids), read)
       /\ UNCHANGED OutsideVars

-----------------------------------------------------------------------------
ListingProceeds ==
    \E c \in Listings : FetchLiveModelIds(c) \/ FetchIsAnswered(c) \/ PageIsRead(c)

ListingsNext ==
    \/ ServiceChanges \/ AccountChanges \/ Later
    \/ \E c \in Listings : ListAuthModels(c) \/ ProbeFails(c) \/ BodyStalls(c)
    \/ ListingProceeds

ListingsSpec == ListingsInit /\ [][ListingsNext]_listingVars /\ WF_listingVars(ListingProceeds)

-----------------------------------------------------------------------------
(* Properties                                                              *)

\* A list of models read over several pages has whatever was served all the while, and
\* nothing that was not served meanwhile.
ReadsWhole(probe) == probe.always \subseteq probe.ids /\ probe.ids \subseteq probe.ever

\* What is offered is the whole catalog, or was filtered by a whole list, of the account itself
\* or of one whose token begins alike: with some providers the 16 characters of all tokens are
\* the same, and the models of one account are offered for another.
OfferedIsServed ==
    \A c \in Listings : query[c].stage = "over" =>
        LET probe == query[c].probe
        IN /\ custom \subseteq query[c].answer
           /\ IF probe = NoProbe THEN query[c].answer = Catalog
              ELSE /\ probe.ids # {} /\ ReadsWhole(probe)
                   /\ TokenPrefix[probe.of] = TokenPrefix[query[c].account]
                   /\ query[c].answer \ custom = probe.ids \ custom

\* A whole list is kept for its hour, whichever of several probes ends last.
KeptIsWhole ==
    \A k \in Prefixes : cache[k] # NoEntry =>
        /\ cache[k].until <= cache[k].probe.since + CacheLife
        /\ cache[k].probe.ids # {} /\ ReadsWhole(cache[k].probe)

\* Every listing is answered - "all failure modes MUST fail-open" -, unless the body of an
\* answer does not end: withTimeout covers the fetch and not the reading of its body.
ListingsEnd ==
    \A c \in Listings : []<>(query[c].stage \in {"none", "stalled", "over"})

\* Whatever the provider, the operator and the clock do while listings are answered:
\* OfferedIsServed, KeptIsWhole and ListingsEnd.
ModelsAreServed == [](OfferedIsServed /\ KeptIsWhole) /\ ListingsEnd
=============================================================================
