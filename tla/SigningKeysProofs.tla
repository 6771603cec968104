------------------------- MODULE SigningKeysProofs -------------------------
(***************************************************************************)
(* The safety of a rotation for every number of instances, destinations,   *)
(* key IDs and keys, for any number of rotations and for all durations     *)
(* that satisfy SigningKeysAssumption.                                     *)
(*                                                                         *)
(* What a phase has to establish before the next one may begin is the      *)
(* heart of the invariant: while the next key is only published, a         *)
(* document without it is gone after MaxAge + CacheTTL; while the old key  *)
(* is still published, its tokens are gone after TokenTTL.                 *)
(***************************************************************************)
EXTENDS SigningKeys, TLAPS

\* keys has the entry e, and nothing else under its kid.
Good(keys, e) == e \in keys /\ \A f \in keys : f.kid = e.kid => f = e

\* ks is the deployment d, or what a slip has added to it.
Extends(ks, d) ==
    /\ ks \in KeySets
    /\ ks.signing = d.signing
    /\ d.published \subseteq ks.published
    /\ parsePublishedKeys(ks)

\* The deployments in use, by phase.
RolloutInv ==
    /\ env \in rollout
    /\ waited > 0 => rollout = {env}
    /\ phase = "steady" =>
        /\ env.published = {}
        /\ \A d \in rollout : d.signing = env.signing
    /\ phase = "added" =>
        \E e \in Entries :
            /\ e.kid # env.signing.kid
            /\ env.published = {e}
            /\ \A d \in rollout : d.signing = env.signing
    /\ phase = "switched" =>
        \E e \in Entries :
            /\ e.kid # env.signing.kid
            /\ env.published = {e}
            /\ \A d \in rollout : d = env \/ d = [signing |-> e, published |-> {env.signing}]

\* Every running instance has one of them.
LoadedInv == \A g \in Instances : Running(g) => \E d \in rollout : Extends(loaded[g], d)

\* The tokens that have not expired.
LiveInv ==
    \A e \in Entries : live[e] > 0 /\ e # env.signing =>
        phase = "switched" /\ e \in env.published /\ live[e] + waited <= TokenTTL

\* The keys some token may be signed with.
InUse(x) == x = env.signing \/ (phase = "switched" /\ x \in env.published)

\* Every document in use has those; one that lacks the next key is about to go.
DocumentInv ==
    /\ \A x \in Entries : InUse(x) =>
        /\ Fresh(shared) => Good(shared.keys, x)
        /\ \A d \in Destinations : Fresh(copy[d]) => Good(copy[d].keys, x)
    /\ phase = "added" => \A x \in env.published :
        /\ Fresh(shared) /\ ~Good(shared.keys, x) => shared.left + waited <= MaxAge
        /\ \A d \in Destinations : Fresh(copy[d]) /\ ~Good(copy[d].keys, x) =>
            copy[d].left + waited <= MaxAge + CacheTTL

\* A running public instance has the entry.
Published(e) == \E g \in Public : Running(g) /\ e \in JWKS(loaded[g])

\* What nobody publishes any more is in documents that are about to go.
ForgottenInv ==
    /\ Fresh(shared) => \A e \in shared.keys :
        Published(e) \/ recent[e] >= shared.left + CacheTTL
    /\ \A d \in Destinations : Fresh(copy[d]) => \A e \in copy[d].keys :
        Published(e) \/ recent[e] >= copy[d].left

-----------------------------------------------------------------------------
(* Types.                                                                  *)

LEMMA MaxWaitFacts == MaxWait \in Nat /\ MaxWait >= SwitchWait /\ MaxWait >= RemoveWait
BY SigningKeysAssumption DEF MaxWait

LEMMA LessFacts == ASSUME NEW m \in Nat, NEW n \in 0..m PROVE Less(n) \in 0..m
BY DEF Less

LEMMA KeySetFacts ==
    ASSUME NEW ks \in KeySets
    PROVE  /\ ks.signing \in Entries
           /\ ks.published \in SUBSET Entries
           /\ JWKS(ks) \in SUBSET Entries
BY DEF KeySets, JWKS

LEMMA KeySetIs ==
    ASSUME NEW e \in Entries, NEW p \in SUBSET Entries
    PROVE  [signing |-> e, published |-> p] \in KeySets
BY DEF KeySets

LEMMA LoadedFacts ==
    ASSUME TypeOK, NEW g \in Instances, Running(g)
    PROVE  loaded[g] \in KeySets
BY DEF TypeOK, Running

LEMMA AddKeyFacts ==
    ASSUME TypeOK, NEW e \in Entries, AddKey(e)
    PROVE  env' = [signing |-> env.signing, published |-> {e}]
BY DEF TypeOK, KeySets, AddKey, Deploy

LEMMA RemoveKeyFacts ==
    ASSUME TypeOK, RemoveKey
    PROVE  env' = [signing |-> env.signing, published |-> {}]
BY DEF TypeOK, KeySets, RemoveKey, Deploy

\* Every variable keeps its type, whatever instances do and however long it goes on.
THEOREM TypeCorrect == Spec => []TypeOK
<1> USE SigningKeysAssumption, MaxWaitFacts DEF TypeOK, Documents
<1>1. Init => TypeOK
    BY KeySetIs DEF Init
<1>2. TypeOK /\ [Next]_vars => TypeOK'
    <2> SUFFICES ASSUME TypeOK, [Next]_vars PROVE TypeOK'
        OBVIOUS
    <2> USE DEF operatorVars
    <2>1. ASSUME NEW g \in Instances, NEW ks \in KeySets, Start(g, ks) PROVE TypeOK'
        BY <2>1 DEF Start
    <2>2. ASSUME NEW g \in Instances, Stop(g) PROVE TypeOK'
        BY <2>2 DEF Stop
    <2>3. ASSUME NEW g \in Instances, Sign(g) PROVE TypeOK'
        <3>1. loaded[g].signing \in Entries
            BY <2>3, LoadedFacts, KeySetFacts DEF Sign
        <3> QED BY <2>3, <3>1 DEF Sign
    <2>4. ASSUME NEW g \in Instances, Revalidate(g) PROVE TypeOK'
        <3>1. JWKS(loaded[g]) \in SUBSET Entries
            BY <2>4, LoadedFacts, KeySetFacts DEF Revalidate
        <3> QED BY <2>4, <3>1 DEF Revalidate, jwksETag
    <2>5. ASSUME NEW d \in Destinations, Fetch(d) PROVE TypeOK'
        <3>1. \A g \in Public : Running(g) => JWKS(loaded[g]) \in SUBSET Entries
            BY LoadedFacts, KeySetFacts
        <3> QED BY <2>5, <3>1 DEF Fetch
    <2>6. ASSUME NEW e \in Entries, AddKey(e) PROVE TypeOK'
        <3>1. env' \in KeySets
            BY <2>6, AddKeyFacts, KeySetFacts, KeySetIs
        <3>2. rollout' = rollout \cup {env'}
            BY <2>6 DEF AddKey, Deploy
        <3>3. /\ phase' \in {"steady", "added", "switched"}
              /\ waited' \in 0..MaxWait
              /\ UNCHANGED <<loaded, shared, copy, live, recent>>
            BY <2>6 DEF AddKey, Deploy
        <3> QED BY <3>1, <3>2, <3>3
    <2>7. CASE SwitchKey
        <3>1. \A e \in env.published : [signing |-> e, published |-> {env.signing}] \in KeySets
            BY KeySetFacts, KeySetIs
        <3> QED BY <2>7, <3>1 DEF SwitchKey, Deploy
    <2>8. CASE RemoveKey
        <3>1. env' \in KeySets
            BY <2>8, RemoveKeyFacts, KeySetFacts, KeySetIs
        <3>2. rollout' = rollout \cup {env'}
            BY <2>8 DEF RemoveKey, Deploy
        <3>3. /\ phase' \in {"steady", "added", "switched"}
              /\ waited' \in 0..MaxWait
              /\ UNCHANGED <<loaded, shared, copy, live, recent>>
            BY <2>8 DEF RemoveKey, Deploy
        <3> QED BY <3>1, <3>2, <3>3
    <2>9. CASE Drain
        BY <2>9 DEF Drain
    <2>10. CASE Tick
        <3>1. waited' \in 0..MaxWait
            BY <2>10 DEF Tick
        <3>2. shared' \in Documents(MaxAge)
            BY <2>10, LessFacts DEF Tick
        <3>3. copy' \in [Destinations -> Documents(CacheTTL)]
            BY <2>10, LessFacts DEF Tick
        <3>4. live' \in [Entries -> 0..TokenTTL]
            BY <2>10, LessFacts DEF Tick
        <3>5. recent' \in [Entries -> 0..(MaxAge + CacheTTL)]
            <4>1. MaxAge + CacheTTL \in Nat
                OBVIOUS
            <4> QED BY <2>10, <4>1, LessFacts DEF Tick
        <3> QED BY <2>10, <3>1, <3>2, <3>3, <3>4, <3>5 DEF Tick
    <2>11. CASE UNCHANGED vars
        BY <2>11 DEF vars
    <2> QED BY <2>1, <2>2, <2>3, <2>4, <2>5, <2>6, <2>7, <2>8, <2>9, <2>10, <2>11 DEF Next
<1> QED BY <1>1, <1>2, PTL DEF Spec

-----------------------------------------------------------------------------
(* Deployments and the instances that have them.                           *)

LEMMA RolloutStep == TypeOK /\ RolloutInv /\ [Next]_vars => RolloutInv'
<1> SUFFICES ASSUME TypeOK, RolloutInv, [Next]_vars PROVE RolloutInv'
    OBVIOUS
<1> USE SigningKeysAssumption
<1>1. ASSUME UNCHANGED operatorVars PROVE RolloutInv'
    BY <1>1 DEF operatorVars, RolloutInv
<1>2. ASSUME NEW e \in Entries, AddKey(e) PROVE RolloutInv'
    <2>1. env' = [signing |-> env.signing, published |-> {e}]
        BY <1>2, AddKeyFacts
    <2>2. /\ rollout' = {env, env'}
          /\ phase' = "added" /\ waited' = 0
          /\ e.kid # env.signing.kid
        BY <1>2 DEF AddKey, Deploy, Settled
    <2> QED BY <2>1, <2>2 DEF RolloutInv
<1>3. CASE SwitchKey
    <2>1. PICK e \in env.published :
            /\ env' = [signing |-> e, published |-> {env.signing}]
            /\ rollout' = {env, env'}
            /\ phase' = "switched" /\ waited' = 0
        BY <1>3 DEF SwitchKey, Deploy, Settled
    <2>2. e \in Entries /\ env.published = {e} /\ e.kid # env.signing.kid
        BY <1>3, KeySetFacts DEF TypeOK, RolloutInv, SwitchKey
    <2>3. env = [signing |-> env.signing, published |-> {e}]
        BY <2>2 DEF TypeOK, KeySets
    <2>4. env.signing \in Entries
        BY KeySetFacts DEF TypeOK
    <2> QED BY <2>1, <2>2, <2>3, <2>4 DEF RolloutInv
<1>4. CASE RemoveKey
    <2>1. env' = [signing |-> env.signing, published |-> {}]
        BY <1>4, RemoveKeyFacts
    <2>2. rollout' = {env, env'} /\ phase' = "steady" /\ waited' = 0
        BY <1>4 DEF RemoveKey, Deploy, Settled
    <2> QED BY <2>1, <2>2 DEF RolloutInv
<1>5. CASE Drain
    BY <1>5 DEF Drain, RolloutInv, TypeOK
<1>6. CASE Tick
    <2>1. UNCHANGED <<env, rollout, phase>> /\ (waited' > 0 => rollout = {env})
        BY <1>6 DEF Tick, RolloutInv
    <2> QED BY <2>1 DEF RolloutInv
<1> QED BY <1>1, <1>2, <1>3, <1>4, <1>5, <1>6
        DEF Next, vars, operatorVars, Start, Stop, Sign, Revalidate, Fetch

LEMMA EnvExtends == ASSUME TypeOK, RolloutInv PROVE Extends(env, env)
BY DEF TypeOK, RolloutInv, Extends, parsePublishedKeys

LEMMA ExtendsGood ==
    ASSUME NEW ks, NEW d, Extends(ks, d)
    PROVE  /\ Good(JWKS(ks), d.signing)
           /\ \A x \in d.published : Good(JWKS(ks), x)
BY DEF Extends, Good, JWKS, parsePublishedKeys

\* Whatever instance starts, crashes or stays, it has a deployment of the rollout.
LEMMA LoadedStep == TypeOK /\ RolloutInv /\ LoadedInv /\ [Next]_vars => LoadedInv'
<1> SUFFICES ASSUME TypeOK, RolloutInv, LoadedInv, [Next]_vars PROVE LoadedInv'
    OBVIOUS
<1> USE SigningKeysAssumption
<1>1. ASSUME loaded' = loaded, rollout \subseteq rollout' PROVE LoadedInv'
    BY <1>1 DEF LoadedInv, Running
<1>2. ASSUME NEW g \in Instances, NEW ks \in KeySets, Start(g, ks) PROVE LoadedInv'
    <2>1. PICK d \in rollout : ks = d \/ \E e \in Entries : ks = [d EXCEPT !.published = @ \cup {e}]
        BY <1>2 DEF Start
    <2>2. d \in KeySets /\ parsePublishedKeys(ks)
        BY <1>2 DEF TypeOK, Start
    <2>3. ks.signing = d.signing /\ d.published \subseteq ks.published
        BY <2>1, <2>2 DEF KeySets
    <2>4. Extends(ks, d)
        BY <2>2, <2>3 DEF Extends
    <2> QED BY <1>2, <2>4 DEF Start, operatorVars, LoadedInv, Running, TypeOK
<1>3. ASSUME NEW g \in Instances, Stop(g) PROVE LoadedInv'
    BY <1>3 DEF Stop, operatorVars, LoadedInv, Running, TypeOK
<1>4. CASE Drain
    BY <1>4, EnvExtends DEF Drain, LoadedInv, Running
<1> QED BY <1>1, <1>2, <1>3, <1>4
        DEF Next, vars, operatorVars, Sign, Revalidate, Fetch, AddKey, SwitchKey,
            RemoveKey, Deploy, Tick

\* What a running instance publishes is good for every key in use, and for the
\* next one as soon as no older deployment is left.
LEMMA RunningDocuments ==
    ASSUME TypeOK, RolloutInv, LoadedInv, NEW g \in Instances, Running(g)
    PROVE  /\ \A x \in Entries : InUse(x) => Good(JWKS(loaded[g]), x)
           /\ rollout = {env} => \A x \in env.published : Good(JWKS(loaded[g]), x)
<1>1. PICK d \in rollout : Extends(loaded[g], d)
    BY DEF LoadedInv
<1>2. Good(JWKS(loaded[g]), d.signing) /\ \A x \in d.published : Good(JWKS(loaded[g]), x)
    BY <1>1, ExtendsGood
<1>3. phase # "switched" => d.signing = env.signing
    BY <1>1 DEF RolloutInv, TypeOK
<1>4. phase = "switched" =>
        \/ d = env
        \/ d.published = {env.signing} /\ env.published = {d.signing}
    BY <1>1 DEF RolloutInv
<1> QED BY <1>2, <1>3, <1>4 DEF InUse

-----------------------------------------------------------------------------
(* Tokens that have not expired.                                           *)

LEMMA LiveStep == TypeOK /\ RolloutInv /\ LoadedInv /\ LiveInv /\ [Next]_vars => LiveInv'
<1> SUFFICES ASSUME TypeOK, RolloutInv, LoadedInv, LiveInv, [Next]_vars PROVE LiveInv'
    OBVIOUS
<1> USE SigningKeysAssumption, MaxWaitFacts
<1>0. /\ waited \in Nat
      /\ \A e \in Entries : live[e] \in Nat /\ live[e] <= TokenTTL
    BY DEF TypeOK
<1>1. ASSUME UNCHANGED <<env, phase, waited, live>> PROVE LiveInv'
    BY <1>1 DEF LiveInv
<1>2. ASSUME NEW g \in Instances, Sign(g) PROVE LiveInv'
    <2>1. PICK d \in rollout : Extends(loaded[g], d)
        BY <1>2 DEF Sign, LoadedInv
    <2>2. loaded[g].signing = d.signing
        BY <2>1 DEF Extends
    <2>3. d.signing # env.signing =>
            phase = "switched" /\ d.signing \in env.published /\ waited = 0
        <3>1. d.signing # env.signing => waited = 0
            BY <1>0, <2>1 DEF RolloutInv
        <3> QED BY <2>1, <3>1 DEF RolloutInv, TypeOK
    <2>4. UNCHANGED <<env, phase, waited>>
        BY <1>2 DEF Sign, operatorVars
    <2>5. \A e \in Entries : live'[e] = IF e = d.signing THEN TokenTTL ELSE live[e]
        BY <1>2, <2>2 DEF Sign, TypeOK
    <2> QED BY <1>0, <2>3, <2>4, <2>5 DEF LiveInv
<1>3. ASSUME NEW e \in Entries, AddKey(e) PROVE LiveInv'
    <2>1. env'.signing = env.signing
        BY <1>3, AddKeyFacts
    <2> QED BY <1>3, <2>1 DEF AddKey, Deploy, LiveInv
<1>4. CASE SwitchKey
    BY <1>0, <1>4 DEF SwitchKey, Deploy, LiveInv
<1>5. CASE RemoveKey
    <2>1. env'.signing = env.signing
        BY <1>5, RemoveKeyFacts
    <2> QED BY <1>0, <1>5, <2>1 DEF RemoveKey, Deploy, LiveInv
<1>6. CASE Drain
    BY <1>0, <1>6 DEF Drain, LiveInv
<1>7. CASE Tick
    <2>1. \A e \in Entries : live'[e] = Less(live[e])
        BY <1>7 DEF Tick
    <2>2. UNCHANGED <<env, phase>> /\ waited' \in Nat /\ waited' <= waited + 1
        BY <1>0, <1>7 DEF Tick
    <2> QED BY <1>0, <2>1, <2>2 DEF LiveInv, Less
<1> QED BY <1>1, <1>2, <1>3, <1>4, <1>5, <1>6, <1>7
        DEF Next, vars, operatorVars, Start, Stop, Revalidate, Fetch

-----------------------------------------------------------------------------
(* The documents in the shared cache and at the destinations.              *)

LEMMA DocumentFacts ==
    ASSUME TypeOK
    PROVE  /\ waited \in Nat
           /\ shared.left \in Nat /\ shared.left <= MaxAge
           /\ \A d \in Destinations : copy[d].left \in Nat /\ copy[d].left <= CacheTTL
           /\ \A e \in Entries : recent[e] \in Nat /\ recent[e] <= MaxAge + CacheTTL
BY SigningKeysAssumption, MaxWaitFacts DEF TypeOK, Documents

LEMMA RevalidateFacts ==
    ASSUME NEW g, Revalidate(g)
    PROVE  shared' = [keys |-> JWKS(loaded[g]), left |-> MaxAge]
BY DEF Revalidate, jwksETag

\* A destination's new copy comes from a running instance or from a fresh document.
LEMMA FetchFacts ==
    ASSUME TypeOK, NEW d \in Destinations, Fetch(d)
    PROVE  /\ copy'[d].left = CacheTTL
           /\ \/ \E g \in Public : Running(g) /\ copy'[d].keys = JWKS(loaded[g])
              \/ Fresh(shared) /\ copy'[d].keys = shared.keys
           /\ \A c \in Destinations \ {d} : copy'[c] = copy[c]
           /\ UNCHANGED <<operatorVars, loaded, shared, live, recent>>
BY DEF TypeOK, Fetch

LEMMA TickFacts ==
    ASSUME TypeOK, Tick
    PROVE  /\ UNCHANGED <<env, rollout, phase, loaded>>
           /\ waited' \in Nat /\ waited' <= waited + 1
           /\ shared'.keys = shared.keys /\ shared'.left = Less(shared.left)
           /\ \A d \in Destinations :
                copy'[d].keys = copy[d].keys /\ copy'[d].left = Less(copy[d].left)
           /\ \A e \in Entries : recent'[e] = Less(recent[e])
BY DocumentFacts DEF TypeOK, Documents, Tick

LEMMA DocumentStep ==
    TypeOK /\ RolloutInv /\ LoadedInv /\ DocumentInv /\ [Next]_vars => DocumentInv'
<1> SUFFICES ASSUME TypeOK, RolloutInv, LoadedInv, DocumentInv, [Next]_vars
             PROVE DocumentInv'
    OBVIOUS
<1> USE SigningKeysAssumption, DocumentFacts
<1>1. ASSUME UNCHANGED <<env, phase, waited, shared, copy>> PROVE DocumentInv'
    BY <1>1 DEF DocumentInv, InUse, Fresh
<1>2. ASSUME NEW g \in Instances, Revalidate(g) PROVE DocumentInv'
    <2>1. Running(g) /\ UNCHANGED <<env, phase, waited, copy>>
        BY <1>2 DEF Revalidate, operatorVars
    <2>2. shared'.keys = JWKS(loaded[g]) /\ shared'.left = MaxAge
        BY <1>2, RevalidateFacts
    <2>3. \A x \in Entries : InUse(x) => Good(shared'.keys, x)
        BY <2>1, <2>2, RunningDocuments
    <2>4. waited > 0 => \A x \in env.published : Good(shared'.keys, x)
        BY <2>1, <2>2, RunningDocuments DEF RolloutInv
    <2> QED BY <2>1, <2>2, <2>3, <2>4 DEF DocumentInv, InUse, Fresh
<1>3. ASSUME NEW d \in Destinations, Fetch(d) PROVE DocumentInv'
    <2>1. UNCHANGED <<env, phase, waited, shared>>
        BY <1>3, FetchFacts DEF operatorVars
    <2>2. \A x \in Entries : InUse(x) => Good(copy'[d].keys, x)
        BY <1>3, FetchFacts, RunningDocuments DEF DocumentInv
    <2>3. ASSUME phase = "added", NEW x \in env.published, ~Good(copy'[d].keys, x)
          PROVE  copy'[d].left + waited <= MaxAge + CacheTTL
        <3>1. CASE \E g \in Public : Running(g) /\ copy'[d].keys = JWKS(loaded[g])
            <4>1. waited = 0
                BY <2>3, <3>1, RunningDocuments DEF RolloutInv
            <4> QED BY <1>3, <4>1, FetchFacts
        <3>2. CASE Fresh(shared) /\ copy'[d].keys = shared.keys
            <4>1. shared.left + waited <= MaxAge /\ shared.left > 0
                BY <2>3, <3>2 DEF DocumentInv, Fresh
            <4> QED BY <1>3, <4>1, FetchFacts
        <3> QED BY <1>3, <3>1, <3>2, FetchFacts
    <2>4. \A c \in Destinations : c = d \/ copy'[c] = copy[c]
        BY <1>3, FetchFacts
    <2> QED BY <2>1, <2>2, <2>3, <2>4 DEF DocumentInv, InUse, Fresh
<1>4. ASSUME NEW e \in Entries, AddKey(e) PROVE DocumentInv'
    <2>1. env'.signing = env.signing
        BY <1>4, AddKeyFacts
    <2>2. phase' = "added" /\ waited' = 0 /\ UNCHANGED <<shared, copy>>
        BY <1>4 DEF AddKey, Deploy
    <2> QED BY <2>1, <2>2 DEF DocumentInv, InUse, Fresh
<1>5. CASE SwitchKey
    <2>1. PICK e \in env.published : env' = [signing |-> e, published |-> {env.signing}]
        BY <1>5 DEF SwitchKey, Deploy
    <2>2. /\ phase = "added" /\ waited >= MaxAge + CacheTTL
          /\ phase' = "switched" /\ UNCHANGED <<shared, copy>>
        BY <1>5 DEF SwitchKey, Deploy
    <2>3. /\ Fresh(shared) => Good(shared.keys, e)
          /\ \A d \in Destinations : Fresh(copy[d]) => Good(copy[d].keys, e)
        BY <2>2 DEF DocumentInv, Fresh
    <2> QED BY <2>1, <2>2, <2>3 DEF DocumentInv, InUse, Fresh
<1>6. CASE RemoveKey
    <2>1. env'.signing = env.signing
        BY <1>6, RemoveKeyFacts
    <2>2. phase' = "steady" /\ UNCHANGED <<shared, copy>>
        BY <1>6 DEF RemoveKey, Deploy
    <2> QED BY <2>1, <2>2 DEF DocumentInv, InUse, Fresh
<1>7. CASE Drain
    <2>1. waited' = 0 /\ UNCHANGED <<env, phase, shared, copy>>
        BY <1>7 DEF Drain
    <2> QED BY <2>1 DEF DocumentInv, InUse, Fresh
<1>8. CASE Tick
    <2> USE DEF DocumentInv, InUse, Fresh, Less
    <2>1. \A x \in Entries : InUse(x)' =>
            /\ Fresh(shared)' => Good(shared'.keys, x)
            /\ \A d \in Destinations : Fresh(copy[d])' => Good(copy'[d].keys, x)
        BY <1>8, TickFacts
    <2>2. ASSUME phase' = "added", NEW x \in env'.published
          PROVE  /\ Fresh(shared)' /\ ~Good(shared'.keys, x) => shared'.left + waited' <= MaxAge
                 /\ \A d \in Destinations : Fresh(copy[d])' /\ ~Good(copy'[d].keys, x) =>
                        copy'[d].left + waited' <= MaxAge + CacheTTL
        BY <1>8, <2>2, TickFacts
    <2> QED BY <2>1, <2>2
<1> QED BY <1>1, <1>2, <1>3, <1>4, <1>5, <1>6, <1>7, <1>8
        DEF Next, vars, operatorVars, Start, Stop, Sign

LEMMA ForgottenStep == TypeOK /\ ForgottenInv /\ [Next]_vars => ForgottenInv'
<1> SUFFICES ASSUME TypeOK, ForgottenInv, [Next]_vars PROVE ForgottenInv'
    OBVIOUS
<1> USE SigningKeysAssumption, DocumentFacts
<1>0. /\ shared.keys \subseteq Entries
      /\ \A d \in Destinations : copy[d].keys \subseteq Entries
    BY DEF TypeOK, Documents
<1>1. ASSUME UNCHANGED <<loaded, shared, copy, recent>> PROVE ForgottenInv'
    BY <1>1 DEF ForgottenInv, Published, Running, Fresh
<1>2. ASSUME NEW g \in Instances, NEW ks \in KeySets, Start(g, ks) PROVE ForgottenInv'
    <2>1. UNCHANGED <<shared, copy, recent>>
        BY <1>2 DEF Start
    <2>2. \A h \in Public : Running(h) => loaded'[h] = loaded[h]
        BY <1>2 DEF Start, TypeOK
    <2>3. \A e : Published(e) => Published(e)'
        BY <2>2 DEF Published, Running
    <2> QED BY <2>1, <2>3 DEF ForgottenInv, Fresh
<1>3. ASSUME NEW g \in Instances, Stop(g) PROVE ForgottenInv'
    <2>1. UNCHANGED <<shared, copy>>
        BY <1>3 DEF Stop
    <2>2. \A e \in Entries : Published(e) => Published(e)' \/ recent'[e] = MaxAge + CacheTTL
        BY <1>3 DEF Stop, Published, Running, TypeOK
    <2>3. \A e \in Entries : recent'[e] >= recent[e]
        BY <1>3 DEF Stop
    <2>4. \A e \in Entries : recent'[e] \in Nat
        BY <1>3 DEF Stop
    <2> QED BY <1>0, <2>1, <2>2, <2>3, <2>4 DEF ForgottenInv, Fresh
<1>4. ASSUME NEW g \in Instances, Revalidate(g) PROVE ForgottenInv'
    <2>1. g \in Public /\ Running(g) /\ UNCHANGED <<loaded, copy, recent>>
        BY <1>4 DEF Revalidate
    <2>2. \A e \in shared'.keys : Published(e)
        BY <1>4, <2>1, RevalidateFacts DEF Published
    <2> QED BY <2>1, <2>2 DEF ForgottenInv, Published, Running, Fresh
<1>5. ASSUME NEW d \in Destinations, Fetch(d) PROVE ForgottenInv'
    <2>1. UNCHANGED <<loaded, shared, recent>>
        BY <1>5, FetchFacts
    <2>2. \A e \in copy'[d].keys : Published(e) \/ recent[e] >= copy'[d].left
        BY <1>0, <1>5, FetchFacts DEF ForgottenInv, Published, Fresh
    <2>3. \A c \in Destinations : c = d \/ copy'[c] = copy[c]
        BY <1>5, FetchFacts
    <2>4. \A e : Published(e)' <=> Published(e)
        BY <2>1 DEF Published, Running
    <2> QED BY <2>1, <2>2, <2>3, <2>4 DEF ForgottenInv, Fresh
<1>6. CASE Tick
    <2>1. \A e : Published(e)' <=> Published(e)
        BY <1>6, TickFacts DEF Published, Running
    <2> QED BY <1>0, <1>6, <2>1, TickFacts DEF ForgottenInv, Fresh, Less
<1> QED BY <1>1, <1>2, <1>3, <1>4, <1>5, <1>6
        DEF Next, vars, Sign, AddKey, SwitchKey, RemoveKey, Deploy, Drain

-----------------------------------------------------------------------------
(* The results.                                                            *)

RotationInv == RolloutInv /\ LoadedInv /\ LiveInv /\ DocumentInv /\ ForgottenInv

LEMMA RotationInvariant == Spec => [](TypeOK /\ RotationInv)
<1>1. Init => RotationInv
    <2> SUFFICES ASSUME Init PROVE RotationInv
        OBVIOUS
    <2>1. PICK e \in Entries : env = [signing |-> e, published |-> {}]
        BY DEF Init
    <2>2. RolloutInv
        BY <2>1 DEF Init, RolloutInv
    <2>3. LoadedInv
        <3>1. Extends(env, env)
            BY <2>1, KeySetIs DEF Extends, parsePublishedKeys
        <3> QED BY <3>1 DEF Init, LoadedInv
    <2>4. LiveInv
        BY DEF Init, LiveInv
    <2>5. DocumentInv /\ ForgottenInv
        BY DEF Init, DocumentInv, ForgottenInv, Fresh
    <2> QED BY <2>2, <2>3, <2>4, <2>5 DEF RotationInv
<1>2. TypeOK /\ RotationInv /\ [Next]_vars => RotationInv'
    BY RolloutStep, LoadedStep, LiveStep, DocumentStep, ForgottenStep DEF RotationInv
<1> QED BY <1>1, <1>2, TypeCorrect, PTL DEF Spec

\* A token that has not expired was signed with a key in use.
LEMMA LiveIsInUse ==
    ASSUME LiveInv, NEW e \in Entries, Live(e)
    PROVE  InUse(e)
BY DEF LiveInv, Live, InUse

\* Under the kid of a good entry the resolver finds the entry's key.
LEMMA GoodResolves ==
    ASSUME NEW ks \in KeySets, NEW e \in Entries, Good(JWKS(ks), e)
    PROVE  Key(ks, e.kid) = e.key
<1>1. CASE ks.signing.kid = e.kid
    BY <1>1 DEF Key, Good, JWKS
<1>2. CASE ks.signing.kid # e.kid
    <2>1. e \in ks.published /\ \A f \in ks.published : f.kid = e.kid => f = e
        BY <1>2 DEF Good, JWKS
    <2>2. (CHOOSE f \in ks.published : f.kid = e.kid) = e
        BY <2>1
    <2> QED BY <1>2, <2>1, <2>2 DEF Key
<1> QED BY <1>1, <1>2

\* LocalKeyResolver.Key resolves the key of every context that has not expired, on
\* every running instance, through any number of rotations and restarts.
THEOREM ContextsAlwaysVerify == Spec => []ContextsVerify
<1>1. TypeOK /\ RotationInv => ContextsVerify
    <2> SUFFICES ASSUME TypeOK, RotationInv, NEW g \in Instances, NEW e \in Entries,
                        Live(e), Running(g)
                 PROVE  Key(loaded[g], e.kid) = e.key
        BY DEF ContextsVerify
    <2>1. Good(JWKS(loaded[g]), e)
        BY LiveIsInUse, RunningDocuments DEF RotationInv
    <2> QED BY <2>1, GoodResolves, LoadedFacts
<1> QED BY <1>1, RotationInvariant, PTL

\* A destination with a fresh copy of the JWKS document finds the one key that signed
\* a token that has not expired, as long as the operator waits for MaxAge and
\* CacheTTL before the switch and for TokenTTL after it.
THEOREM DestinationsAlwaysVerify == Spec => []DestinationsVerify
<1>1. RotationInv => DestinationsVerify
    <2> SUFFICES ASSUME RotationInv, NEW d \in Destinations, NEW e \in Entries,
                        Live(e), Fresh(copy[d])
                 PROVE  {f.key : f \in {h \in copy[d].keys : h.kid = e.kid}} = {e.key}
        BY DEF DestinationsVerify
    <2>1. Good(copy[d].keys, e)
        BY LiveIsInUse DEF RotationInv, DocumentInv
    <2>2. {h \in copy[d].keys : h.kid = e.kid} = {e}
        BY <2>1 DEF Good
    <2> QED BY <2>2
<1> QED BY <1>1, RotationInvariant, PTL

\* The ETag never lets a copy outlive the keys in it by more than the two caches allow.
THEOREM KeysAreForgotten == Spec => []RemovedKeysAreForgotten
<1>1. TypeOK /\ RotationInv => RemovedKeysAreForgotten
    <2> SUFFICES ASSUME TypeOK, RotationInv, NEW d \in Destinations, Fresh(copy[d]),
                        NEW e \in copy[d].keys
                 PROVE  recent[e] > 0 \/ Published(e)
        BY DEF RemovedKeysAreForgotten, Published
    <2>1. e \in Entries
        BY DEF TypeOK, Documents
    <2>2. Published(e) \/ recent[e] >= copy[d].left
        BY DEF RotationInv, ForgottenInv
    <2> QED BY <2>1, <2>2, DocumentFacts DEF Fresh
<1> QED BY <1>1, RotationInvariant, PTL
=============================================================================
