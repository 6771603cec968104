---------------------------- MODULE SigningKeys ----------------------------
(***************************************************************************)
(* The keys of the internal tokens over restarts and rotations:            *)
(* config.parsePublishedKeys, token.NewIssuerFromFiles,                    *)
(* token.LocalKeyResolver and the JWKS endpoint of httpapi/jwks.go.        *)
(*                                                                         *)
(* Every instance of the gateway reads its key files once, when it starts. *)
(* Instances of either listener sign internal tokens and verify the        *)
(* contexts the others signed; those with a public listener publish the    *)
(* keys, and destinations verify with the copy they have.  A copy may have *)
(* waited in a shared HTTP cache, which the headers of the endpoint allow. *)
(* The operator replaces the signing key in three deployments: publish the *)
(* next key, sign with it, stop publishing the old one.  Instances crash   *)
(* and start at any time, with any deployment that is not yet drained.     *)
(***************************************************************************)
EXTENDS Naturals

CONSTANTS
    Instances,     \* instances of the gateway
    Public,        \* those with a public listener
    Destinations,  \* services that verify internal tokens
    Kids,          \* key IDs
    Keys,          \* key pairs
    NoKey,         \* no key under that ID
    NoKeySet,      \* the instance is down
    CacheTTL,      \* how long a destination uses a document
    TokenTTL,      \* lifetime of an internal token, the leeway included
    SwitchWait,    \* the operator's wait before signing with the next key
    RemoveWait,    \* ... and before the old key is no longer published
    MaxAge         \* jwksCacheControl: how long the shared cache may keep one

Entries == [kid : Kids, key : Keys]
KeySets == [signing : Entries, published : SUBSET Entries]

ASSUME SigningKeysAssumption ==
    /\ Public \subseteq Instances
    /\ NoKey \notin Keys
    /\ NoKeySet \notin KeySets
    /\ CacheTTL \in Nat /\ TokenTTL \in Nat /\ MaxAge \in Nat
    /\ SwitchWait \in Nat /\ RemoveWait \in Nat
    /\ SwitchWait >= MaxAge + CacheTTL
    /\ RemoveWait >= TokenTTL

\* Times are timers that count down to 0, and waited counts up to what the
\* operator ever waits for: no clock bounds the number of rotations.
MaxWait == IF SwitchWait > RemoveWait THEN SwitchWait ELSE RemoveWait

VARIABLES
    env,       \* the deployment the operator wants: INTERNAL_JWT_*
    rollout,   \* deployments an instance may still start with
    phase,     \* how far the rotation is
    waited,    \* how long env has been the only deployment
    loaded,    \* the key set of each instance
    shared,    \* the document in the shared cache
    copy,      \* the document each destination has
    live,      \* history: how long some token signed with a key is still valid
    recent     \* history: what is left of MaxAge + CacheTTL since a public
               \* instance that held the key stopped

operatorVars == <<env, rollout, phase, waited>>
vars == <<operatorVars, loaded, shared, copy, live, recent>>

Documents(ttl) == [keys : SUBSET Entries, left : 0..ttl]

TypeOK ==
    /\ env \in KeySets
    /\ rollout \in SUBSET KeySets
    /\ phase \in {"steady", "added", "switched"}
    /\ waited \in 0..MaxWait
    /\ loaded \in [Instances -> KeySets \cup {NoKeySet}]
    /\ shared \in Documents(MaxAge)
    /\ copy \in [Destinations -> Documents(CacheTTL)]
    /\ live \in [Entries -> 0..TokenTTL]
    /\ recent \in [Entries -> 0..(MaxAge + CacheTTL)]

-----------------------------------------------------------------------------
(* The code.                                                               *)

\* Mutant: only the published list is checked for duplicates.
parsePublishedKeys_IgnoresSigning(ks) ==
    \A e, f \in ks.published : e.kid = f.kid => e = f

\* A key ID is used once, by the signing key or in the published list.
parsePublishedKeys(ks) ==
    /\ \A e \in ks.published : e.kid # ks.signing.kid
    /\ \A e, f \in ks.published : e.kid = f.kid => e = f

\* Mutant: the published keys are for the JWKS only.
Key_SigningOnly(ks, kid) == IF ks.signing.kid = kid THEN ks.signing.key ELSE NoKey

\* LocalKeyResolver.Key: the signing key, else a published one.
Key(ks, kid) ==
    IF ks.signing.kid = kid THEN ks.signing.key
    ELSE IF \E e \in ks.published : e.kid = kid
         THEN (CHOOSE e \in ks.published : e.kid = kid).key
         ELSE NoKey

\* The document an issuer publishes.
JWKS(ks) == {ks.signing} \cup ks.published

\* Mutant: a tag that does not depend on the keys.
jwksETag_Fixed(document) == document = {}

\* The tag is a hash of the body: equal tags mean equal documents.
jwksETag(document) == document

Running(g) == loaded[g] # NoKeySet

\* An instance starts with a deployment: Load accepts the key IDs, and the files
\* are read.  A slip of the operator's adds an entry to the published list.
Start(g, ks) ==
    /\ ~Running(g)
    /\ ks \in rollout \/ \E d \in rollout, e \in Entries :
            ks = [d EXCEPT !.published = @ \cup {e}]
    /\ parsePublishedKeys(ks)
    /\ loaded' = [loaded EXCEPT ![g] = ks]
    /\ UNCHANGED <<operatorVars, shared, copy, live, recent>>

\* An instance crashes, or is stopped.
Stop(g) ==
    /\ Running(g)
    /\ loaded' = [loaded EXCEPT ![g] = NoKeySet]
    /\ recent' = [e \in Entries |->
            IF g \in Public /\ e \in JWKS(loaded[g]) THEN MaxAge + CacheTTL ELSE recent[e]]
    /\ UNCHANGED <<operatorVars, shared, copy, live>>

\* An instance signs an internal token.
Sign(g) ==
    /\ Running(g)
    /\ live' = [live EXCEPT ![loaded[g].signing] = TokenTTL]
    /\ UNCHANGED <<operatorVars, loaded, shared, copy, recent>>

Fresh(document) == document.left > 0

\* The shared cache fetches the document, or revalidates the one it has: when the
\* tags agree the answer is 304 and what it has is good for another MaxAge.
Revalidate(g) ==
    LET document == JWKS(loaded[g])
    IN  /\ g \in Public
        /\ Running(g)
        /\ shared' = [keys |-> IF jwksETag(shared.keys) = jwksETag(document)
                               THEN shared.keys ELSE document,
                      left |-> MaxAge]
        /\ UNCHANGED <<operatorVars, loaded, copy, live, recent>>

\* A destination fetches the document, from an instance or from the shared cache.
Fetch(d) ==
    /\ \E keys \in {JWKS(loaded[g]) : g \in {h \in Public : Running(h)}}
                   \cup (IF Fresh(shared) THEN {shared.keys} ELSE {}) :
            copy' = [copy EXCEPT ![d] = [keys |-> keys, left |-> CacheTTL]]
    /\ UNCHANGED <<operatorVars, loaded, shared, live, recent>>

-----------------------------------------------------------------------------
(* The operator, who follows docs/service_gateway_spec.md, and the clock.  *)

Settled == rollout = {env} /\ \A g \in Instances : loaded[g] \in {env, NoKeySet}

Deploy(ks, next) ==
    /\ env' = ks
    /\ rollout' = rollout \cup {ks}
    /\ phase' = next
    /\ waited' = 0
    /\ UNCHANGED <<loaded, shared, copy, live, recent>>

\* The next key is published, the old one still signs.
AddKey(e) ==
    /\ phase = "steady" /\ Settled
    /\ e.kid # env.signing.kid
    /\ Deploy([env EXCEPT !.published = {e}], "added")

\* The next key signs, the old one is still published.
SwitchKey ==
    /\ phase = "added" /\ Settled
    /\ waited >= SwitchWait
    /\ \E e \in env.published :
        Deploy([signing |-> e, published |-> {env.signing}], "switched")

\* The old key is no longer published.
RemoveKey ==
    /\ phase = "switched" /\ Settled
    /\ waited >= RemoveWait
    /\ Deploy([env EXCEPT !.published = {}], "steady")

\* Every instance has the current deployment; no other will be started.
Drain ==
    /\ rollout # {env}
    /\ \A g \in Instances : loaded[g] \in {env, NoKeySet}
    /\ rollout' = {env}
    /\ waited' = 0
    /\ UNCHANGED <<env, phase, loaded, shared, copy, live, recent>>

Less(n) == IF n = 0 THEN 0 ELSE n - 1

Tick ==
    /\ waited' = IF rollout = {env} /\ waited < MaxWait THEN waited + 1 ELSE waited
    /\ shared' = [shared EXCEPT !.left = Less(@)]
    /\ copy' = [d \in Destinations |-> [copy[d] EXCEPT !.left = Less(@)]]
    /\ live' = [e \in Entries |-> Less(live[e])]
    /\ recent' = [e \in Entries |-> Less(recent[e])]
    /\ UNCHANGED <<env, rollout, phase, loaded>>

Init ==
    /\ \E e \in Entries : env = [signing |-> e, published |-> {}]
    /\ rollout = {env}
    /\ phase = "steady"
    /\ waited = 0
    /\ loaded = [g \in Instances |-> env]
    /\ shared = [keys |-> {}, left |-> 0]
    /\ copy = [d \in Destinations |-> [keys |-> {}, left |-> 0]]
    /\ live = [e \in Entries |-> 0]
    /\ recent = [e \in Entries |-> 0]

Next ==
    \/ \E g \in Instances :
        \/ \E ks \in KeySets : Start(g, ks)
        \/ Stop(g) \/ Sign(g) \/ Revalidate(g)
    \/ \E d \in Destinations : Fetch(d)
    \/ \E e \in Entries : AddKey(e)
    \/ SwitchKey \/ RemoveKey \/ Drain
    \/ Tick

Spec == Init /\ [][Next]_vars

-----------------------------------------------------------------------------
(* What rotation and restarts may not break.                               *)

Live(e) == live[e] > 0

\* However instances restart during a rotation, every running one resolves the
\* key of every internal token that has not expired, whoever signed it: a
\* context is never refused because of a rotation.
ContextsVerify ==
    \A g \in Instances, e \in Entries :
        Live(e) /\ Running(g) => Key(loaded[g], e.kid) = e.key

\* A destination whose copy is fresh finds under the kid of such a token the key
\* that signed it and no other, although the copy may be older than the token by
\* what the shared cache and its own cache allow.
DestinationsVerify ==
    \A d \in Destinations, e \in Entries :
        Live(e) /\ Fresh(copy[d]) =>
            {f.key : f \in {h \in copy[d].keys : h.kid = e.kid}} = {e.key}

\* A key that no public instance holds any more is in no copy in use longer than
\* MaxAge and CacheTTL together, whatever was revalidated in between.
RemovedKeysAreForgotten ==
    \A d \in Destinations : Fresh(copy[d]) =>
        \A e \in copy[d].keys :
            recent[e] > 0 \/ \E g \in Public : Running(g) /\ e \in JWKS(loaded[g])
=============================================================================
