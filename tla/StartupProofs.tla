--------------------------- MODULE StartupProofs ---------------------------
(***************************************************************************)
(* What Startup promises, proved for every environment, every header a     *)
(* client may send and every chain of proxies.                             *)
(*                                                                         *)
(* First what config.Load accepts, then what the values of a forwarded     *)
(* header are put together to, then the start itself.                      *)
(***************************************************************************)
EXTENDS Startup, WellFoundedInduction, TLAPS

-----------------------------------------------------------------------------
(* The configuration.                                                      *)

\* No part of a configuration that was loaded was refused.
LEMMA LoadFacts ==
    ASSUME NEW e, Load(e) # Invalid
    PROVE  /\ Load(e).listeners = parseListeners(e) /\ parseListeners(e) # Invalid
           /\ Load(e).signingKey.kid = e.signingKeyID
           /\ Load(e).publishedKeys = parsePublishedKeys(e.publishedKeyFiles, e.signingKeyID)
           /\ Load(e).publishedKeys # Invalid
           /\ Load(e).idpIssuer = e.idpIssuer /\ Load(e).idpAudience = e.idpAudience
           /\ Load(e).idpAlgorithms = parseIDP(e) /\ parseIDP(e) # Invalid
           /\ Load(e).clientID = e.clientID
           /\ Load(e).secret = loadIntrospectionSecret(e) /\ loadIntrospectionSecret(e) # Invalid
           /\ Load(e).introspectionDisabled = parseIntrospection(e)
           /\ parseIntrospection(e) # Invalid
           /\ Load(e).hops = parseTrustedProxyHops(e.hops)
           /\ parseTrustedProxyHops(e.hops) # Invalid
           /\ Load(e).legacy = parseLegacyEventsWriteScope(e)
           /\ parseLegacyEventsWriteScope(e) # Invalid
           /\ Unset \notin {e.issuerID, e.signingKeyFile, e.signingKeyID, e.destinationsFile}
<1> DEFINE config ==
        [listeners |-> parseListeners(e),
         issuerID |-> e.issuerID,
         signingKey |-> [kid |-> e.signingKeyID, path |-> e.signingKeyFile],
         publishedKeys |-> parsePublishedKeys(e.publishedKeyFiles, e.signingKeyID),
         idpIssuer |-> e.idpIssuer,
         idpAudience |-> e.idpAudience,
         idpAlgorithms |-> parseIDP(e),
         clientID |-> e.clientID,
         secret |-> loadIntrospectionSecret(e),
         introspectionDisabled |-> parseIntrospection(e),
         legacy |-> parseLegacyEventsWriteScope(e),
         destinationsFile |-> e.destinationsFile,
         hops |-> parseTrustedProxyHops(e.hops)]
<1>1. /\ Load(e) = config /\ \A part \in DOMAIN config : config[part] # Invalid
      /\ Unset \notin {e.issuerID, e.signingKeyFile, e.signingKeyID, e.destinationsFile}
    BY DEF Load
<1>2. {"listeners", "publishedKeys", "idpAlgorithms", "secret", "introspectionDisabled",
       "legacy", "hops"}
        \subseteq DOMAIN config
    OBVIOUS
<1>3. /\ config.listeners # Invalid /\ config.publishedKeys # Invalid
      /\ config.idpAlgorithms # Invalid /\ config.secret # Invalid
      /\ config.introspectionDisabled # Invalid /\ config.hops # Invalid
      /\ config.legacy # Invalid
    BY <1>1, <1>2
<1> QED BY <1>1, <1>3

\* What the validators of the packages ask of an IdP, Load has asked before.
LEMMA IdPFacts ==
    ASSUME NEW e, Load(e) # Invalid, e.idpIssuer # Unset
    PROVE  /\ checkIDPIssuer(e.idpIssuer)
           /\ e.idpAudience # Unset
           /\ ToSet(Load(e).idpAlgorithms) \subseteq {"RS256", "ES256"}
<1>1. checkIDPIssuer(e.idpIssuer) /\ e.idpAudience # Unset
      /\ Load(e).idpAlgorithms = parseIDPAlgorithms(e.idpAlgorithms)
      /\ parseIDPAlgorithms(e.idpAlgorithms) # Invalid
    BY LoadFacts DEF parseIDP
<1>2. CASE e.idpAlgorithms = <<>>
    BY <1>1, <1>2 DEF parseIDPAlgorithms, ToSet
<1>3. CASE e.idpAlgorithms # <<>>
    BY <1>1, <1>3 DEF parseIDPAlgorithms, supportedIDPAlgorithms
<1> QED BY <1>1, <1>2, <1>3

\* The credentials of introspection come together, and they are there unless
\* introspection is disabled.
LEMMA CredentialFacts ==
    ASSUME NEW e \in Environments, Load(e) # Invalid
    PROVE  /\ Load(e).clientID = Unset <=> Load(e).secret = Unset
           /\ e.idpIssuer # Unset =>
                /\ Load(e).introspectionDisabled \in BOOLEAN
                /\ Load(e).introspectionDisabled => e.introspection = "disabled"
                /\ ~Load(e).introspectionDisabled => Load(e).clientID # Unset
<1> DEFINE secret == loadIntrospectionSecret(e)
<1>1. secret # Invalid /\ Load(e).secret = secret /\ Load(e).clientID = e.clientID
    BY LoadFacts
<1>2. Load(e).clientID = Unset <=> Load(e).secret = Unset
    <2>1. CASE e.clientID = Unset /\ e.secretFile = Unset
        BY <1>1, <2>1 DEF loadIntrospectionSecret
    <2>2. CASE ~ (e.clientID = Unset /\ e.secretFile = Unset)
        <3>1. e.clientID # Unset /\ e.secretFile # Unset
              /\ secret = readSecretFile(e.secretFile)
            BY <1>1, <2>2 DEF loadIntrospectionSecret
        <3> QED BY <1>1, <3>1, StartupAssumption
    <2> QED BY <2>1, <2>2
<1>3. ASSUME e.idpIssuer # Unset
      PROVE  /\ Load(e).introspectionDisabled \in BOOLEAN
             /\ Load(e).introspectionDisabled => e.introspection = "disabled"
             /\ ~Load(e).introspectionDisabled => Load(e).clientID # Unset
    <2> DEFINE disabled == parseIntrospection(e)
    <2>1. disabled # Invalid /\ Load(e).introspectionDisabled = disabled
        BY LoadFacts
    <2>2. e.introspection \in {Unset, "required", "disabled"}
        BY <2>1 DEF parseIntrospection
    <2>3. CASE e.introspection = "disabled"
        <3>1. disabled = IF e.clientID # Unset \/ e.secretFile # Unset THEN Invalid ELSE TRUE
            BY <1>3, <2>3 DEF parseIntrospection
        <3>2. disabled = TRUE
            BY <2>1, <3>1
        <3> QED BY <2>1, <2>3, <3>2
    <2>4. CASE e.introspection # "disabled"
        <3>1. disabled = IF e.clientID = Unset /\ e.secretFile = Unset THEN Invalid ELSE FALSE
            BY <1>3, <2>2, <2>4 DEF parseIntrospection
        <3>2. disabled = FALSE /\ (e.clientID # Unset \/ e.secretFile # Unset)
            BY <2>1, <3>1
        <3>3. e.clientID # Unset
            BY <1>1, <3>2 DEF loadIntrospectionSecret
        <3> QED BY <1>1, <2>1, <3>2, <3>3
    <2> QED BY <2>3, <2>4
<1> QED BY <1>2, <1>3

\* A port is accepted only as the one text that writes its number.
LEMMA PortFacts ==
    ASSUME NEW raw, parsePort(raw) # Invalid
    PROVE  parsePort(raw) = raw /\ Itoa[Atoi[raw]] = raw
BY DEF parsePort

\* A process has the public listener, the internal one, or both in that order and
\* on two ports.
LEMMA ListenerFacts ==
    ASSUME NEW e, parseListeners(e) # Invalid
    PROVE  /\ [i \in DOMAIN parseListeners(e) |-> parseListeners(e)[i].inbound]
                \in {<<"public", "internal">>, <<"public">>, <<"internal">>}
           /\ IsInjective([i \in DOMAIN parseListeners(e) |-> Atoi[parseListeners(e)[i].port]])
<1> DEFINE public == parsePort(e.publicPort)
           internal == parsePort(e.internalPort)
           only == parsePort(e.port)
           ls == parseListeners(e)
<1>0. e.retired = Unset /\ e.mode \in {"split", "public", "internal"}
    BY DEF parseListeners
<1>1. CASE e.mode = "split"
    <2>1. public # Invalid /\ internal # Invalid /\ public # internal
          /\ ls = <<listener("public", public), listener("internal", internal)>>
        BY <1>0, <1>1 DEF parseListeners
    <2>2. public = e.publicPort /\ internal = e.internalPort
          /\ Itoa[Atoi[public]] = public /\ Itoa[Atoi[internal]] = internal
        BY <2>1, PortFacts
    <2> HIDE DEF public, internal
    <2>3. Atoi[public] # Atoi[internal]
        BY <2>1, <2>2
    <2>4. DOMAIN ls = {1, 2} /\ ls[1].inbound = "public" /\ ls[2].inbound = "internal"
          /\ ls[1].port = public /\ ls[2].port = internal
        BY <2>1 DEF listener
    <2> HIDE DEF ls
    <2>5. [i \in DOMAIN ls |-> ls[i].inbound] = <<"public", "internal">>
        BY <2>4
    <2>6. IsInjective([i \in DOMAIN ls |-> Atoi[ls[i].port]])
        BY <2>3, <2>4 DEF IsInjective
    <2> QED BY <2>5, <2>6 DEF ls
<1>2. CASE e.mode \in {"public", "internal"}
    <2>1. ls = <<listener(e.mode, only)>>
        BY <1>0, <1>2 DEF parseListeners
    <2>2. DOMAIN ls = {1} /\ ls[1].inbound = e.mode
        BY <2>1 DEF listener
    <2> HIDE DEF ls
    <2>3. [i \in DOMAIN ls |-> ls[i].inbound] \in {<<"public">>, <<"internal">>}
        BY <1>2, <2>2
    <2>4. IsInjective([i \in DOMAIN ls |-> Atoi[ls[i].port]])
        BY <2>2 DEF IsInjective
    <2> QED BY <2>3, <2>4 DEF ls
<1> QED BY <1>0, <1>1, <1>2

\* All keys of the list are loaded and no key ID names two of them.
LEMMA KeyFacts ==
    ASSUME NEW raw, raw \in Seq(ToSet(raw)), NEW kid,
           parsePublishedKeys(raw, kid) # Invalid
    PROVE  LET keys == parsePublishedKeys(raw, kid)
           IN  /\ Len(keys) = Len(raw)
               /\ IsInjective(<<kid>> \o [i \in DOMAIN keys |-> keys[i].kid])
<1> DEFINE keys == [i \in DOMAIN raw |-> parsePublishedKey(raw[i])]
           ids == [i \in DOMAIN keys |-> keys[i].kid]
           all == <<kid>> \o ids
<1>1. /\ parsePublishedKeys(raw, kid) = keys
      /\ \A i \in DOMAIN keys : keys[i].kid \notin {kid} \cup {keys[j].kid : j \in 1..(i - 1)}
    BY DEF parsePublishedKeys
<1>2. Len(raw) \in Nat /\ DOMAIN keys = 1..Len(raw) /\ DOMAIN ids = 1..Len(raw)
    OBVIOUS
<1>3. /\ \A i \in 1..Len(raw) : ids[i] # kid
      /\ \A i, j \in 1..Len(raw) : j < i => ids[i] # ids[j]
    <2> SUFFICES ASSUME NEW i \in 1..Len(raw)
                 PROVE  ids[i] # kid /\ \A j \in 1..Len(raw) : j < i => ids[i] # ids[j]
        OBVIOUS
    <2>1. keys[i].kid \notin {kid} \cup {keys[j].kid : j \in 1..(i - 1)}
        BY <1>1, <1>2
    <2> HIDE DEF keys
    <2>2. \A j \in 1..Len(raw) : ids[j] = keys[j].kid
        BY <1>2
    <2> HIDE DEF ids
    <2>3. ASSUME NEW j \in 1..Len(raw), j < i
          PROVE  ids[i] # ids[j]
        <3>1. j \in 1..(i - 1)
            BY <1>2, <2>3
        <3> QED BY <2>1, <2>2, <3>1
    <2> QED BY <2>1, <2>2, <2>3
<1> HIDE DEF keys
<1>4. keys \in Seq({keys[i] : i \in DOMAIN keys}) /\ Len(keys) = Len(raw)
    BY <1>2 DEF keys
<1>5. ids \in Seq({ids[i] : i \in DOMAIN ids}) /\ Len(ids) = Len(raw)
    BY <1>2
<1> HIDE DEF ids
<1>6. /\ DOMAIN all = 1..(Len(raw) + 1)
      /\ all[1] = kid
      /\ \A i \in 2..(Len(raw) + 1) : all[i] = ids[i - 1]
    BY <1>2, <1>5
<1> HIDE DEF all
<1>7. IsInjective(all)
    <2>1. SUFFICES ASSUME NEW i \in DOMAIN all, NEW j \in DOMAIN all, all[i] = all[j], j < i
                   PROVE  FALSE
        BY <1>2, <1>6 DEF IsInjective
    <2>2. all[i] = ids[i - 1] /\ i - 1 \in 1..Len(raw)
        BY <1>2, <1>6, <2>1
    <2>3. CASE j = 1
        BY <1>3, <1>6, <2>1, <2>2, <2>3
    <2>4. CASE j # 1
        <3>1. all[j] = ids[j - 1] /\ j - 1 \in 1..Len(raw) /\ j - 1 < i - 1
            BY <1>2, <1>6, <2>1, <2>4
        <3> QED BY <1>3, <2>1, <2>2, <3>1
    <2> QED BY <2>3, <2>4
<1> QED BY <1>1, <1>4, <1>7 DEF all, ids
-----------------------------------------------------------------------------
(* The forwarded header: its values, put together, are what arrived and    *)
(* the address the proxy has added, whichever way it was added.            *)

\* Induction: a set of numbers with 0 and every successor has them all.
LEMMA SetInduction ==
    ASSUME NEW S \in SUBSET Nat, 0 \in S, \A n \in S : n + 1 \in S
    PROVE  S = Nat
<1> SUFFICES ASSUME Nat \ S # {} PROVE FALSE
    OBVIOUS
<1>1. PICK m \in Nat \ S : \A k \in Nat \ S : ~ (<<k, m>> \in OpToRel(<, Nat))
    BY WFMin, NatLessThanWellFounded
<1>2. m # 0 /\ m - 1 \in Nat
    OBVIOUS
<1>3. <<m - 1, m>> \in OpToRel(<, Nat)
    BY <1>2 DEF OpToRel
<1>4. m - 1 \in S
    BY <1>1, <1>2, <1>3
<1>5. (m - 1) + 1 \in S
    BY <1>4
<1> QED BY <1>5

\* f is what FlattenSeq computes from the first n of the sequences s: at i, those up
\* to the i-th put together.
Unfolds(f, s, n) ==
    f = [i \in 1..n |-> IF i = 1 THEN s[i] ELSE f[i - 1] \o s[i]]

\* There is such a function, for every n.
LEMMA UnfoldingExists ==
    ASSUME NEW s, NEW n \in Nat
    PROVE  \E f : Unfolds(f, s, n)
<1> DEFINE S == {m \in Nat : \E f : Unfolds(f, s, m)}
<1>1. 0 \in S
    <2>1. Unfolds([i \in 1..0 |-> 0], s, 0)
        BY DEF Unfolds
    <2> QED BY <2>1
<1>2. ASSUME NEW m \in S PROVE m + 1 \in S
    <2>1. PICK f : Unfolds(f, s, m)
        BY <1>2
    <2> DEFINE g == [i \in 1..(m + 1) |-> IF i \in 1..m THEN f[i] ELSE
                        IF i = 1 THEN s[i] ELSE f[i - 1] \o s[i]]
    <2>2. ASSUME NEW i \in 1..(m + 1)
          PROVE g[i] = IF i = 1 THEN s[i] ELSE g[i - 1] \o s[i]
        <3>1. CASE i \in 1..m
            <4>1. f[i] = IF i = 1 THEN s[i] ELSE f[i - 1] \o s[i]
                BY <2>1, <3>1 DEF Unfolds
            <4>2. i # 1 => g[i-1] = f[i-1]
                BY <3>1
            <4> QED BY <3>1, <4>1, <4>2
        <3>2. CASE i = m + 1
            <4>2. i # 1 => g[i-1] = f[i-1]
                BY <3>2
            <4> QED BY <3>2, <4>2
        <3> QED BY <3>1, <3>2
    <2>3. Unfolds(g, s, m + 1)
        BY <2>2 DEF Unfolds
    <2> QED BY <2>3
<1> HIDE DEF S
<1>3. S = Nat
    BY <1>1, <1>2, SetInduction DEF S
<1> QED BY <1>3 DEF S

\* FlattenSeq is its last value.
LEMMA FlattenUnfolds ==
    ASSUME NEW s, Len(s) \in Nat \ {0}
    PROVE  \E f : Unfolds(f, s, Len(s)) /\ FlattenSeq(s) = f[Len(s)]
<1> DEFINE f == CHOOSE f : Unfolds(f, s, Len(s))
<1>1. Unfolds(f, s, Len(s))
    BY UnfoldingExists
<1>2. FlattenSeq(s) = f[Len(s)]
    BY DEF FlattenSeq, Unfolds
<1> QED BY <1>1, <1>2

\* It is computed from left to right.
LEMMA UnfoldedAt ==
    ASSUME NEW f, NEW s, NEW n, Unfolds(f, s, n), NEW i \in 1..n
    PROVE  f[i] = IF i = 1 THEN s[i] ELSE f[i - 1] \o s[i]
BY DEF Unfolds

\* s and t are the same up to n.
Same(s, t, n) == \A i \in 1..n : s[i] = t[i]

\* What was computed for a prefix is not computed differently for the whole.
LEMMA UnfoldingsAgree ==
    ASSUME NEW s, NEW t, NEW n \in Nat, NEW m \in Nat, NEW f, NEW g,
           Unfolds(f, s, n), Unfolds(g, t, m),
           n <= m, Same(s, t, n)
    PROVE  Same(f, g, n)
<1>0. 1..n \subseteq 1..m
    OBVIOUS
<1> DEFINE S == {j \in Nat : j \in 1..n => f[j] = g[j]}
<1>1. 0 \in S
    OBVIOUS
<1>2. ASSUME NEW j \in S PROVE j + 1 \in S
    <2> SUFFICES ASSUME j + 1 \in 1..n PROVE f[j + 1] = g[j + 1]
        OBVIOUS
    <2>1. f[j + 1] = IF j + 1 = 1 THEN s[j + 1] ELSE f[(j + 1) - 1] \o s[j + 1]
        BY <1>0, UnfoldedAt
    <2>2. g[j + 1] = IF j + 1 = 1 THEN t[j + 1] ELSE g[(j + 1) - 1] \o t[j + 1]
        BY <1>0, UnfoldedAt
    <2>3. (j + 1) - 1 = j
        OBVIOUS
    <2>4. j + 1 # 1 => f[j] = g[j]
        BY <1>2
    <2> QED BY <2>1, <2>2, <2>3, <2>4 DEF Same
<1> HIDE DEF S
<1>3. S = Nat
    BY <1>1, <1>2, SetInduction DEF S
<1> QED BY <1>3 DEF S, Same

\* Sequences over T are put together to sequences over T.
LEMMA UnfoldedIsSeq ==
    ASSUME NEW T, NEW s \in Seq(Seq(T)), NEW n \in Nat, n <= Len(s), NEW f, Unfolds(f, s, n)
    PROVE  \A i \in 1..n : f[i] \in Seq(T)
<1> DEFINE S == {j \in Nat : j \in 1..n => f[j] \in Seq(T)}
<1>1. 0 \in S
    OBVIOUS
<1>2. ASSUME NEW j \in S PROVE j + 1 \in S
    <2> SUFFICES ASSUME j + 1 \in 1..n PROVE f[j + 1] \in Seq(T)
        OBVIOUS
    <2>1. f[j + 1] = IF j + 1 = 1 THEN s[j + 1] ELSE f[(j + 1) - 1] \o s[j + 1]
        BY DEF Unfolds
    <2>2. s[j + 1] \in Seq(T)
        OBVIOUS
    <2>3. (j + 1) - 1 = j
        OBVIOUS
    <2>4. j + 1 # 1 => f[j] \in Seq(T)
        BY <1>2
    <2> QED BY <2>1, <2>2, <2>3, <2>4
<1> HIDE DEF S
<1>3. S = Nat
    BY <1>1, <1>2, SetInduction DEF S
<1> QED BY <1>3 DEF S

\* So is all of s.
LEMMA FlattenIsSeq ==
    ASSUME NEW T, NEW s \in Seq(Seq(T))
    PROVE  FlattenSeq(s) \in Seq(T)
<1>1. CASE Len(s) = 0
    BY <1>1 DEF FlattenSeq
<1>2. CASE Len(s) # 0
    <2>1. PICK f : Unfolds(f, s, Len(s)) /\ FlattenSeq(s) = f[Len(s)]
        BY <1>2, FlattenUnfolds
    <2> QED BY <1>2, <2>1, UnfoldedIsSeq
<1> QED BY <1>1, <1>2

\* If t has one more sequence than s, its elements come last.
LEMMA FlattenOneMore ==
    ASSUME NEW T, NEW s \in Seq(Seq(T)), NEW v \in Seq(T), NEW t, NEW n \in Nat,
           Len(s) = n, Len(t) = n + 1, t[n + 1] = v, \A i \in 1..n : t[i] = s[i]
    PROVE  FlattenSeq(t) = FlattenSeq(s) \o v
<1>1. PICK g : Unfolds(g, t, n + 1) /\ FlattenSeq(t) = g[n + 1]
    BY FlattenUnfolds
<1>2. g[n + 1] = IF n + 1 = 1 THEN t[n + 1] ELSE g[(n + 1) - 1] \o t[n + 1]
    BY <1>1, UnfoldedAt
<1>3. CASE n = 0
    <2>1. FlattenSeq(s) = <<>>
        BY <1>3 DEF FlattenSeq
    <2>2. FlattenSeq(t) = v
        BY <1>1, <1>2, <1>3
    <2> QED BY <2>1, <2>2
<1>4. CASE n # 0
    <2>1. PICK f : Unfolds(f, s, n) /\ FlattenSeq(s) = f[n]
        BY <1>4, FlattenUnfolds
    <2>2. \A i \in 1..n : g[i] = f[i]
        <3>1. n + 1 \in Nat /\ n <= n + 1 /\ Same(s, t, n)
            BY DEF Same
        <3>2. Same(f, g, n)
            BY <1>1, <2>1, <3>1, UnfoldingsAgree
        <3> QED BY <3>2 DEF Same
    <2>3. g[n] = f[n] /\ (n + 1) - 1 = n /\ n + 1 # 1
        BY <1>4, <2>2
    <2>4. g[n + 1] = f[n] \o v
        BY <1>2, <2>3
    <2> QED BY <1>1, <2>1, <2>4
<1> QED BY <1>3, <1>4

\* A value of its own ends up behind the elements there were.
LEMMA FlattenAppend ==
    ASSUME NEW T, NEW s \in Seq(Seq(T)), NEW v \in Seq(T)
    PROVE  FlattenSeq(Append(s, v)) = FlattenSeq(s) \o v
<1> DEFINE t == Append(s, v)
<1>1. Len(s) \in Nat /\ Len(t) = Len(s) + 1 /\ t[Len(s) + 1] = v
      /\ \A i \in 1..Len(s) : t[i] = s[i]
    OBVIOUS
<1> HIDE DEF t
<1>2. FlattenSeq(t) = FlattenSeq(s) \o v
    BY <1>1, FlattenOneMore
<1> QED BY <1>2 DEF t

\* So does another element of the last value.
LEMMA FlattenExtendLast ==
    ASSUME NEW T, NEW s \in Seq(Seq(T)), s # <<>>, NEW x \in T
    PROVE  FlattenSeq(Append(Front(s), Append(Last(s), x))) = Append(FlattenSeq(s), x)
<1> DEFINE front == Front(s)
           last == Last(s)
<1>1. front \in Seq(Seq(T)) /\ last \in Seq(T)
    BY DEF Front, Last
<1>2. s = Append(front, last)
    BY DEF Front, Last
<1>3. FlattenSeq(s) = FlattenSeq(front) \o last
    BY <1>1, <1>2, FlattenAppend
<1>4. FlattenSeq(Append(front, Append(last, x))) = FlattenSeq(front) \o Append(last, x)
    <2>1. Append(last, x) \in Seq(T)
        BY <1>1
    <2> QED BY <1>1, <2>1, FlattenAppend
<1>5. FlattenSeq(front) \in Seq(T)
    BY <1>1, FlattenIsSeq
<1> HIDE DEF front, last
<1>6. FlattenSeq(front) \o Append(last, x) = Append(FlattenSeq(front) \o last, x)
    BY <1>1, <1>5
<1> QED BY <1>3, <1>4, <1>6 DEF front, last

-----------------------------------------------------------------------------
(* The start.                                                              *)

\* The address the i-th hop of a request comes from.
Peer(i) == IF i = 1 THEN Client ELSE Proxies[i - 1]

\* The last n addresses are those of the first n hops.
EndsWithPeers(addresses, n) ==
    /\ n <= Len(addresses)
    /\ \A i \in 1..n : addresses[Len(addresses) - n + i] = Peer(i)

\* A configuration is what Load makes of the environment, and run has one from
\* LoadConfig on.
Loaded ==
    /\ env \in Environments
    /\ cfg \in {Invalid, Load(env)}
    /\ stage \in {"tracing", "registry", "issuer", "idp", "serving"} => cfg # Invalid

\* What is built is what the configuration asks for, and where there is a verifier
\* readiness waits for the IdP.
Built ==
    \/ built = [verifier |-> FALSE, introspector |-> FALSE]
    \/ /\ stage \in {"serving", "exited"}
       /\ cfg # Invalid /\ cfg.idpIssuer # Unset
       /\ built = [verifier |-> TRUE, introspector |-> ~cfg.introspectionDisabled]
       /\ "idp" \in checks

\* The plain variables, and what their values tell of one another.
Progress ==
    /\ stage \in Stages
    /\ tracing \in {"off", "on", "flushed"} /\ (stage = "exited" => tracing # "on")
    /\ checks \subseteq {"signing_key", "idp"}
    /\ resolved \in BOOLEAN
    /\ exit \in Exits \ {"validation"}
    /\ probe \in {"none", "ok", "not ready"}
    /\ stage \notin {"serving", "exited"} => probe = "none"
    /\ probe = "ok" /\ built.verifier => resolved

\* The header of a request ends with the addresses of the hops behind it.
Forwarded ==
    /\ request.at \in 0..(Len(Proxies) + 1)
    /\ request.at > 0 =>
        /\ request.header \in Seq(Seq(STRING))
        /\ request.peer = Peer(request.at)
        /\ EndsWithPeers(FlattenSeq(request.header), request.at - 1)

\* A request is recorded once, with what sourceIP finds.
Recorded ==
    source # Unset =>
        /\ request.at > 0 /\ cfg # Invalid
        /\ source = sourceIP(request, cfg.hops)

IInv == Loaded /\ Built /\ Progress /\ Forwarded /\ Recorded

\* What Load has accepted is accepted again by every package it is handed to.
LEMMA ValidatorsAgree ==
    ASSUME env \in Environments, cfg = Load(env), cfg # Invalid, cfg.idpIssuer # Unset
    PROVE  /\ New /\ parseIssuer /\ NewVerifier /\ NewIntrospector
           /\ cfg.introspectionDisabled \in BOOLEAN
<1>1. cfg.idpIssuer = env.idpIssuer /\ cfg.idpAudience = env.idpAudience
    BY LoadFacts
<1>2. /\ checkIDPIssuer(env.idpIssuer) /\ env.idpAudience # Unset
      /\ ToSet(cfg.idpAlgorithms) \subseteq {"RS256", "ES256"}
    BY <1>1, IdPFacts
<1>3. /\ cfg.clientID = Unset <=> cfg.secret = Unset
      /\ cfg.introspectionDisabled \in BOOLEAN
    BY <1>1, CredentialFacts
<1> QED BY <1>1, <1>2, <1>3 DEF New, parseIssuer, NewVerifier, NewIntrospector, checkIDPIssuer

\* A hop comes from an address.
LEMMA PeerIsAddress ==
    ASSUME NEW i \in 1..(Len(Proxies) + 1)
    PROVE  Peer(i) \in Addresses /\ Peer(i) \in STRING
<1>1. Proxies \in Seq(Addresses) /\ Client \in Addresses /\ Addresses \subseteq STRING
    BY StartupAssumption
<1>2. CASE i = 1
    BY <1>1, <1>2, Zenon DEF Peer
<1>3. CASE i # 1
    <2>1. Peer(i) = Proxies[i - 1]
        BY <1>3, Zenon DEF Peer
    <2>2. Proxies[i - 1] \in Addresses
        <3>1. Proxies \in Seq(Addresses)
            BY <1>1
        <3>2. i - 1 \in 1..Len(Proxies)
            BY <1>3, <3>1
        <3> QED BY <3>1, <3>2
    <2> QED BY <1>1, <2>1, <2>2, Zenon
<1> QED BY <1>2, <1>3

\* A proxy that adds the address of its peer keeps the order of the hops.
LEMMA OneMorePeer ==
    ASSUME NEW addresses \in Seq(STRING), NEW n \in Nat, EndsWithPeers(addresses, n),
           Peer(n + 1) \in STRING
    PROVE  EndsWithPeers(Append(addresses, Peer(n + 1)), n + 1)
<1> DEFINE more == Append(addresses, Peer(n + 1))
<1>1. /\ Len(addresses) \in Nat /\ Len(more) = Len(addresses) + 1
      /\ more[Len(addresses) + 1] = Peer(n + 1)
      /\ \A i \in 1..Len(addresses) : more[i] = addresses[i]
    OBVIOUS
<1> HIDE DEF more
<1>2. n <= Len(addresses) /\ \A i \in 1..n : addresses[Len(addresses) - n + i] = Peer(i)
    BY DEF EndsWithPeers
<1>3. ASSUME NEW i \in 1..(n + 1)
      PROVE  more[Len(more) - (n + 1) + i] = Peer(i)
    <2>1. Len(more) - (n + 1) + i = Len(addresses) - n + i
        BY <1>1
    <2>2. CASE i = n + 1
        <3>1. Len(addresses) - n + i = Len(addresses) + 1
            BY <1>1, <2>2
        <3> QED BY <1>1, <2>1, <2>2, <3>1
    <2>3. CASE i # n + 1
        <3>1. i \in 1..n /\ Len(addresses) - n + i \in 1..Len(addresses)
            BY <1>1, <1>2, <2>3
        <3> QED BY <1>1, <1>2, <2>1, <3>1
    <2> QED BY <2>2, <2>3
<1>4. n + 1 <= Len(more)
    BY <1>1, <1>2
<1> QED BY <1>3, <1>4 DEF EndsWithPeers, more

\* sourceIP finds an address; behind enough proxies it is the one that connected to
\* the outermost trusted hop.
LEMMA SourceFacts ==
    ASSUME Forwarded, request.at > 0, NEW hops \in Nat
    PROVE  /\ sourceIP(request, hops) \in Addresses
           /\ hops < request.at => sourceIP(request, hops) = Peer(request.at - hops)
<1> DEFINE at == request.at
           addresses == FlattenSeq(request.header)
           n == Len(addresses) - hops + 1
<1>0. Len(Proxies) \in Nat
    BY StartupAssumption
<1>1. /\ at \in 1..(Len(Proxies) + 1) /\ request.peer = Peer(at)
      /\ EndsWithPeers(addresses, at - 1) /\ request.header \in Seq(Seq(STRING))
    BY <1>0 DEF Forwarded
<1>2. addresses \in Seq(STRING)
    BY <1>1, FlattenIsSeq
<1>3. request.peer \in Addresses
    BY <1>1, PeerIsAddress
<1>4. CASE hops = 0
    BY <1>0, <1>1, <1>3, <1>4 DEF sourceIP
<1>5. CASE hops # 0
    <2>1. sourceIP(request, hops) =
            IF n >= 1 /\ addresses[n] \in Addresses THEN addresses[n] ELSE request.peer
        BY <1>5 DEF sourceIP, forwardedFor
    <2>2. sourceIP(request, hops) \in Addresses
        BY <1>3, <2>1
    <2>3. ASSUME hops < at
          PROVE  sourceIP(request, hops) = Peer(at - hops)
        <3> HIDE DEF addresses
        <3>1. at - 1 <= Len(addresses)
              /\ \A i \in 1..(at - 1) : addresses[Len(addresses) - (at - 1) + i] = Peer(i)
            BY <1>1 DEF EndsWithPeers
        <3>2. at - hops \in 1..(at - 1) /\ at - hops \in 1..(Len(Proxies) + 1)
            BY <1>0, <1>1, <1>5, <2>3
        <3>3. Len(addresses) \in Nat
            BY <1>2
        <3>4. Len(addresses) - (at - 1) + (at - hops) = n /\ n >= 1
            BY <1>0, <1>1, <1>5, <2>3, <3>1, <3>3
        <3>5. addresses[n] = Peer(at - hops)
            BY <3>1, <3>2, <3>4
        <3>6. addresses[n] \in Addresses
            BY <3>2, <3>5, PeerIsAddress
        <3> QED BY <2>1, <3>4, <3>5, <3>6
    <2> QED BY <2>2, <2>3
<1> QED BY <1>4, <1>5

\* The number of trusted proxies is a number.
LEMMA HopsFacts ==
    ASSUME NEW e, Load(e) # Invalid
    PROVE  Load(e).hops \in Nat
<1>1. Load(e).hops = parseTrustedProxyHops(e.hops) /\ parseTrustedProxyHops(e.hops) # Invalid
    BY LoadFacts
<1> QED BY <1>1 DEF parseTrustedProxyHops, maxTrustedProxyHops

\* Init establishes the invariant.
LEMMA InitInvariant == Init => IInv
<1> SUFFICES ASSUME Init PROVE IInv
    OBVIOUS
<1>1. Loaded /\ Built /\ Recorded
    BY DEF Init, Loaded, Built, Recorded
<1>2. Progress
    BY DEF Init, Progress, Stages, Exits
<1>3. Len(Proxies) \in Nat
    BY StartupAssumption
<1>4. Forwarded
    BY <1>3 DEF Init, Forwarded, NoRequest
<1> QED BY <1>1, <1>2, <1>4 DEF IInv

\* run leaves the requests alone, so what was said of them stays true as long as the
\* configuration does not change.
LEMMA RequestsUnchanged ==
    ASSUME Forwarded, Recorded, UNCHANGED <<request, source>>,
           cfg' = cfg \/ source = Unset
    PROVE  Forwarded' /\ Recorded'
<1>1. Forwarded'
    BY DEF Forwarded
<1>2. Recorded'
    BY DEF Recorded
<1> QED BY <1>1, <1>2

\* A return keeps the invariant, if its reason is not that validators disagree.
LEMMA ReturnInvariant ==
    ASSUME IInv, NEW reason \in Exits \ {"validation"}, Return(reason)
    PROVE  IInv'
<1> USE DEF IInv, Return
<1>1. Loaded'
    BY DEF Loaded
<1>2. Built'
    BY DEF Built
<1>3. Progress'
    BY DEF Progress, Stages
<1>4. Forwarded' /\ Recorded'
    BY RequestsUnchanged
<1> QED BY <1>1, <1>2, <1>3, <1>4

\* Every step of a start, of the provider and of a request keeps it.
LEMMA NextInvariant == IInv /\ [Next]_vars => IInv'
<1> SUFFICES ASSUME IInv, [Next]_vars PROVE IInv'
    OBVIOUS
<1> USE DEF IInv
<1>0. Loaded /\ Built /\ Progress /\ Forwarded /\ Recorded
    OBVIOUS
<1>1. CASE NewLogger
    <2>1. CASE env.logLevel \in LogLevels \cup {Unset}
        <3>1. /\ stage' = "load"
              /\ UNCHANGED <<env, cfg, tracing, built, checks, resolved, exit, probe, request, source>>
              /\ stage = "logger"
            BY <1>1, <2>1 DEF NewLogger, Continue
        <3>2. Loaded' /\ Built'
            BY <1>0, <3>1 DEF Loaded, Built
        <3>3. Progress'
            BY <1>0, <3>1 DEF Progress, Stages
        <3> QED BY <1>0, <3>1, <3>2, <3>3, RequestsUnchanged
    <2>2. CASE ~ (env.logLevel \in LogLevels \cup {Unset})
        BY <1>1, <2>2, ReturnInvariant DEF NewLogger, Exits
    <2> QED BY <2>1, <2>2
<1>2. CASE LoadConfig
    <2>1. CASE Load(env) # Invalid
        <3>1. /\ stage = "load" /\ stage' = "tracing" /\ cfg' = Load(env)
              /\ UNCHANGED <<env, tracing, built, checks, resolved, exit, probe, request, source>>
            BY <1>2, <2>1 DEF LoadConfig, Continue
        <3>2. Loaded'
            BY <1>0, <2>1, <3>1 DEF Loaded
        <3>3. cfg = Invalid \/ cfg' = cfg
            BY <1>0, <3>1 DEF Loaded
        <3>4. Built'
            BY <1>0, <3>1, <3>3 DEF Built
        <3>5. Progress'
            BY <1>0, <3>1 DEF Progress, Stages
        <3>6. cfg' = cfg \/ source = Unset
            BY <1>0, <3>3 DEF Recorded
        <3> QED BY <1>0, <3>1, <3>2, <3>4, <3>5, <3>6, RequestsUnchanged
    <2>2. CASE Load(env) = Invalid
        BY <1>2, <2>2, ReturnInvariant DEF LoadConfig, Exits
    <2> QED BY <2>1, <2>2
<1>3. CASE SetupTracing
    <2>1. CASE Return("tracing")
        BY <2>1, ReturnInvariant DEF Exits
    <2>2. CASE ~Return("tracing")
        <3>1. /\ stage = "tracing" /\ stage' = "registry" /\ tracing' = "on"
              /\ UNCHANGED <<env, cfg, built, checks, resolved, exit, probe, request, source>>
            BY <1>3, <2>2 DEF SetupTracing, Continue
        <3>2. Loaded' /\ Built'
            BY <1>0, <3>1 DEF Loaded, Built
        <3>3. Progress'
            BY <1>0, <3>1 DEF Progress, Stages
        <3> QED BY <1>0, <3>1, <3>2, <3>3, RequestsUnchanged
    <2> QED BY <2>1, <2>2
<1>4. CASE BuildRegistry
    <2>1. CASE Return("files")
        BY <2>1, ReturnInvariant DEF Exits
    <2>2. CASE ~Return("files")
        <3>1. /\ stage = "registry" /\ stage' = "issuer"
              /\ UNCHANGED <<env, cfg, tracing, built, checks, resolved, exit, probe, request, source>>
            BY <1>4, <2>2 DEF BuildRegistry, Continue
        <3>2. Loaded' /\ Built'
            BY <1>0, <3>1 DEF Loaded, Built
        <3>3. Progress'
            BY <1>0, <3>1 DEF Progress, Stages
        <3> QED BY <1>0, <3>1, <3>2, <3>3, RequestsUnchanged
    <2> QED BY <2>1, <2>2
<1>5. CASE NewIssuerFromFiles
    <2>1. CASE Return("files")
        BY <2>1, ReturnInvariant DEF Exits
    <2>2. CASE ~Return("files")
        <3>1. /\ stage = "issuer" /\ stage' = "idp" /\ checks' = {"signing_key"}
              /\ UNCHANGED <<env, cfg, tracing, built, resolved, exit, probe, request, source>>
            BY <1>5, <2>2 DEF NewIssuerFromFiles, Continue
        <3>2. Loaded'
            BY <1>0, <3>1 DEF Loaded
        <3>3. Built'
            BY <1>0, <3>1 DEF Built
        <3>4. Progress'
            BY <1>0, <3>1 DEF Progress, Stages
        <3> QED BY <1>0, <3>1, <3>2, <3>3, <3>4, RequestsUnchanged
    <2> QED BY <2>1, <2>2
<1>6. CASE BuildAuthenticator
    <2>0. stage = "idp" /\ cfg # Invalid /\ cfg = Load(env) /\ env \in Environments
          /\ probe = "none"
        BY <1>0, <1>6 DEF BuildAuthenticator, Loaded, Progress
    <2>1. CASE cfg.idpIssuer = Unset
        <3>1. /\ stage' = "serving"
              /\ UNCHANGED <<env, cfg, tracing, built, checks, resolved, exit, probe, request, source>>
            BY <1>6, <2>1 DEF BuildAuthenticator, Continue
        <3>2. Loaded' /\ Built'
            BY <1>0, <2>0, <3>1 DEF Loaded, Built
        <3>3. Progress'
            BY <1>0, <2>0, <3>1 DEF Progress, Stages
        <3> QED BY <1>0, <3>1, <3>2, <3>3, RequestsUnchanged
    <2>2. CASE cfg.idpIssuer # Unset
        <3>1. New /\ cfg.introspectionDisabled \in BOOLEAN
            BY <2>0, <2>2, ValidatorsAgree
        <3>2. /\ stage' = "serving"
              /\ built' = [verifier |-> TRUE, introspector |-> ~cfg.introspectionDisabled]
              /\ checks' = checks \cup {"idp"}
              /\ UNCHANGED <<env, cfg, tracing, resolved, exit, probe, request, source>>
            BY <1>6, <2>2, <3>1 DEF BuildAuthenticator, Continue
        <3>3. Loaded'
            BY <1>0, <2>0, <3>2 DEF Loaded
        <3>4. Built'
            BY <2>0, <2>2, <3>2 DEF Built
        <3>5. Progress'
            BY <1>0, <2>0, <3>2 DEF Progress, Stages
        <3> QED BY <1>0, <3>2, <3>3, <3>4, <3>5, RequestsUnchanged
    <2> QED BY <2>1, <2>2
<1>7. CASE Resolve
    <2>0. stage = "serving" /\ built.verifier
        BY <1>7 DEF Resolve
    <2>1. cfg # Invalid /\ cfg = Load(env) /\ env \in Environments /\ cfg.idpIssuer # Unset
        BY <1>0, <2>0 DEF Loaded, Built
    <2>2. parseIssuer /\ NewVerifier /\ NewIntrospector
        BY <2>1, ValidatorsAgree
    <2>3. CASE Return("metadata")
        BY <2>3, ReturnInvariant DEF Exits
    <2>4. CASE ~Return("metadata")
        <3>1. resolved' = TRUE /\ UNCHANGED <<startVars, exit, probe, request, source>>
            BY <1>7, <2>2, <2>4 DEF Resolve
        <3>2. Loaded' /\ Built'
            BY <1>0, <3>1 DEF Loaded, Built, startVars
        <3>3. Progress'
            BY <1>0, <3>1 DEF Progress, startVars
        <3> QED BY <1>0, <3>1, <3>2, <3>3, RequestsUnchanged DEF startVars
    <2> QED BY <2>3, <2>4
<1>8. CASE Signal
    BY <1>8, ReturnInvariant DEF Signal, Exits
<1>9. CASE handleReadyz
    <2>1. /\ stage = "serving"
          /\ probe' = IF \A name \in checks : Check(name) THEN "ok" ELSE "not ready"
          /\ UNCHANGED <<startVars, resolved, exit, request, source>>
        BY <1>9 DEF handleReadyz
    <2>2. Loaded' /\ Built'
        BY <1>0, <2>1 DEF Loaded, Built, startVars
    <2>3. probe' = "ok" /\ built.verifier => resolved
        <3>1. built.verifier => "idp" \in checks
            BY <1>0 DEF Built
        <3> QED BY <2>1, <3>1 DEF Check
    <2>4. Progress'
        BY <1>0, <2>1, <2>3 DEF Progress, startVars
    <2> QED BY <1>0, <2>1, <2>2, <2>4, RequestsUnchanged DEF startVars
<1>10. ASSUME NEW header \in Headers, Send(header) PROVE IInv'
    <2>1. /\ request.at = 0
          /\ request' = [at |-> 1, header |-> header, peer |-> Client]
          /\ UNCHANGED <<startVars, resolved, exit, probe, source>>
        BY <1>10 DEF Send
    <2>2. Loaded' /\ Built' /\ Progress'
        BY <1>0, <2>1 DEF Loaded, Built, Progress, startVars
    <2>3. source = Unset
        BY <1>0, <2>1 DEF Recorded
    <2>4. Recorded'
        BY <2>1, <2>3 DEF Recorded
    <2>5. header \in Seq(Seq(STRING)) /\ Len(Proxies) \in Nat
        BY StartupAssumption
    <2>6. Len(FlattenSeq(header)) \in Nat
        BY <2>5, FlattenIsSeq
    <2>7. EndsWithPeers(FlattenSeq(header), 0)
        BY <2>6 DEF EndsWithPeers
    <2>8. Forwarded'
        BY <2>1, <2>5, <2>7 DEF Forwarded, Peer
    <2> QED BY <2>2, <2>4, <2>8
<1>11. CASE Relay
    <2> DEFINE header == request.header
               at == request.at
               addresses == FlattenSeq(header)
    <2>1. PICK next \in {Append(header, <<request.peer>>)} \cup
                (IF header = <<>> THEN {}
                 ELSE {Append(Front(header), Append(Last(header), request.peer))}) :
            request' = [at |-> at + 1, header |-> next, peer |-> Proxies[at]]
        BY <1>11 DEF Relay
    <2>2. /\ source = Unset /\ at \in DOMAIN Proxies
          /\ UNCHANGED <<startVars, resolved, exit, probe, source>>
        BY <1>11 DEF Relay
    <2>3. Loaded' /\ Built' /\ Progress' /\ Recorded'
        BY <1>0, <2>2 DEF Loaded, Built, Progress, Recorded, startVars
    <2>4. Len(Proxies) \in Nat /\ at \in 1..Len(Proxies)
        BY <2>2, StartupAssumption
    <2>5. /\ header \in Seq(Seq(STRING)) /\ request.peer = Peer(at)
          /\ EndsWithPeers(addresses, at - 1)
        BY <1>0, <2>4 DEF Forwarded
    <2>6. Peer(at) \in STRING
        BY <2>4, PeerIsAddress
    <2>7. addresses \in Seq(STRING)
        BY <2>5, FlattenIsSeq
    <2>8. next \in Seq(Seq(STRING)) /\ FlattenSeq(next) = Append(addresses, Peer(at))
        <3>1. CASE next = Append(header, <<request.peer>>)
            <4>1. <<Peer(at)>> \in Seq(STRING)
                BY <2>6
            <4>2. FlattenSeq(next) = addresses \o <<Peer(at)>>
                BY <2>5, <3>1, <4>1, FlattenAppend
            <4>3. addresses \o <<Peer(at)>> = Append(addresses, Peer(at))
                BY <2>6, <2>7
            <4> QED BY <2>5, <3>1, <4>1, <4>2, <4>3
        <3>2. CASE header # <<>> /\ next = Append(Front(header), Append(Last(header), Peer(at)))
            <4>1. FlattenSeq(next) = Append(addresses, Peer(at))
                BY <2>5, <2>6, <3>2, FlattenExtendLast
            <4>2. Front(header) \in Seq(Seq(STRING)) /\ Last(header) \in Seq(STRING)
                BY <2>5, <3>2 DEF Front, Last
            <4> QED BY <2>6, <3>2, <4>1, <4>2
        <3> QED BY <2>1, <2>5, <3>1, <3>2
    <2>9. EndsWithPeers(FlattenSeq(next), at)
        <3>1. at - 1 \in Nat /\ (at - 1) + 1 = at
            BY <2>4
        <3> QED BY <2>5, <2>6, <2>7, <2>8, <3>1, OneMorePeer
    <2>10. Proxies[at] = Peer(at + 1) /\ (at + 1) - 1 = at /\ at + 1 \in 0..(Len(Proxies) + 1)
        BY <2>4 DEF Peer
    <2>11. request'.at = at + 1 /\ request'.header = next /\ request'.peer = Peer(at + 1)
        BY <2>1, <2>10
    <2>12. Forwarded'
        BY <2>8, <2>9, <2>10, <2>11 DEF Forwarded
    <2> QED BY <2>3, <2>12
<1>12. CASE ServeHTTP
    <2>1. /\ stage = "serving" /\ request.at > 0 /\ source' = sourceIP(request, cfg.hops)
          /\ UNCHANGED <<startVars, resolved, exit, probe, request>>
        BY <1>12 DEF ServeHTTP
    <2>2. Loaded' /\ Built' /\ Progress' /\ Forwarded'
        BY <1>0, <2>1 DEF Loaded, Built, Progress, Forwarded, startVars
    <2>3. Recorded'
        BY <1>0, <2>1 DEF Recorded, Loaded, startVars
    <2> QED BY <2>2, <2>3
<1>13. CASE Answered
    <2>1. request' = NoRequest /\ source' = Unset /\ UNCHANGED <<startVars, resolved, exit, probe>>
        BY <1>13 DEF Answered
    <2>2. Loaded' /\ Built' /\ Progress' /\ Recorded'
        BY <1>0, <2>1 DEF Loaded, Built, Progress, Recorded, startVars
    <2>3. Forwarded'
        BY <1>0, <2>1 DEF Forwarded, NoRequest
    <2> QED BY <2>2, <2>3
<1>14. CASE UNCHANGED vars
    BY <1>0, <1>14 DEF vars, startVars, Loaded, Built, Progress, Forwarded, Recorded
<1> QED
    BY <1>1, <1>2, <1>3, <1>4, <1>5, <1>6, <1>7, <1>8, <1>9, <1>10, <1>11, <1>12, <1>13, <1>14
       DEF Next

\* The invariant holds throughout.
THEOREM Invariance == Spec => []IInv
BY InitInvariant, NextInvariant, PTL DEF Spec

\* LoadedConfigsBuild is invariant: whatever the environment, no package refuses a
\* configuration that config.Load has accepted, neither idp.New at the start nor
\* the provider once the metadata has arrived.
THEOREM ValidatorsNeverDisagree == Spec => []LoadedConfigsBuild
<1>1. IInv => LoadedConfigsBuild
    BY DEF IInv, Progress, LoadedConfigsBuild
<1> QED BY <1>1, Invariance, PTL

\* RevocationIsOffOnlyOnRequest is invariant: parseIntrospection and
\* loadIntrospectionSecret together leave no way to a verifier without revocation
\* checks but INTROSPECTION=disabled, and none to an introspector without
\* credentials.
THEOREM RevocationChecksAreNotLost == Spec => []RevocationIsOffOnlyOnRequest
<1>1. IInv => RevocationIsOffOnlyOnRequest
    <2> SUFFICES ASSUME IInv, stage = "serving", built.verifier
                 PROVE  IF built.introspector
                        THEN cfg.clientID # Unset /\ cfg.secret # Unset
                        ELSE env.introspection = "disabled"
        BY DEF RevocationIsOffOnlyOnRequest
    <2>1. /\ env \in Environments /\ cfg = Load(env) /\ cfg # Invalid
          /\ cfg.idpIssuer # Unset
          /\ built.introspector = ~cfg.introspectionDisabled
        BY DEF IInv, Loaded, Built
    <2>2. cfg.idpIssuer = env.idpIssuer
        BY <2>1, LoadFacts
    <2>3. /\ cfg.clientID = Unset <=> cfg.secret = Unset
          /\ cfg.introspectionDisabled \in BOOLEAN
          /\ cfg.introspectionDisabled => env.introspection = "disabled"
          /\ ~cfg.introspectionDisabled => cfg.clientID # Unset
        BY <2>1, <2>2, CredentialFacts
    <2> QED BY <2>1, <2>3
<1> QED BY <1>1, Invariance, PTL

\* StartIsSound is invariant: the types, two listeners never on one port and in the
\* order that shutdown counts on, key IDs that name one key each, spans flushed on
\* every way out of run, and a readiness probe that waits for the IdP.
THEOREM StartsAreSound == Spec => []StartIsSound
<1>1. IInv => StartIsSound
    <2> SUFFICES ASSUME IInv PROVE StartIsSound
        OBVIOUS
    <2>0. Loaded /\ Built /\ Progress /\ Forwarded /\ Recorded
        BY DEF IInv
    <2>1. ASSUME cfg # Invalid
          PROVE  /\ env \in Environments /\ cfg = Load(env) /\ Load(env) # Invalid
                 /\ cfg.listeners = parseListeners(env) /\ parseListeners(env) # Invalid
                 /\ cfg.signingKey.kid = env.signingKeyID
                 /\ cfg.publishedKeys = parsePublishedKeys(env.publishedKeyFiles, env.signingKeyID)
                 /\ cfg.publishedKeys # Invalid
                 /\ cfg.hops \in Nat
        BY <2>0, <2>1, LoadFacts, HopsFacts DEF Loaded
    <2>2. ListenersFit
        BY <2>1, ListenerFacts DEF ListenersFit
    <2>3. KeyIDsAreUnique
        <3> SUFFICES ASSUME cfg # Invalid
                     PROVE  /\ Len(cfg.publishedKeys) = Len(env.publishedKeyFiles)
                            /\ IsInjective(<<cfg.signingKey.kid>> \o
                                   [i \in DOMAIN cfg.publishedKeys |-> cfg.publishedKeys[i].kid])
            BY DEF KeyIDsAreUnique
        <3>1. env.publishedKeyFiles \in Seq(ToSet(env.publishedKeyFiles))
            BY <2>1, StartupAssumption
        <3> QED BY <2>1, <3>1, KeyFacts
    <2>4. TracesAreFlushed /\ ReadyIsTruthful
        BY <2>0 DEF Progress, TracesAreFlushed, ReadyIsTruthful
    <2>5. TypeOK
        <3>1. source \in Addresses \cup {Unset}
            BY <2>0, <2>1, SourceFacts DEF Recorded
        <3>2. built \in [verifier : BOOLEAN, introspector : BOOLEAN]
            <4>1. CASE built = [verifier |-> FALSE, introspector |-> FALSE]
                BY <4>1
            <4>2. CASE built # [verifier |-> FALSE, introspector |-> FALSE]
                <5>1. /\ cfg # Invalid /\ cfg.idpIssuer # Unset
                      /\ built = [verifier |-> TRUE, introspector |-> ~cfg.introspectionDisabled]
                    BY <2>0, <4>2 DEF Built
                <5>2. (~cfg.introspectionDisabled) \in BOOLEAN
                    OBVIOUS
                <5> QED BY <5>1, <5>2
            <4> QED BY <4>1, <4>2
        <3> QED BY <2>0, <3>1, <3>2 DEF TypeOK, Loaded, Progress, Forwarded
    <2> QED BY <2>2, <2>3, <2>4, <2>5 DEF StartIsSound
<1> QED BY <1>1, Invariance, PTL

\* SourceIsNotForged is invariant: for every header a client may send, every chain
\* of proxies and every way they extend the header, sourceIP records the peer of
\* the outermost trusted proxy.
THEOREM TheSourceIsTheClients == Spec => []SourceIsNotForged
<1>1. IInv => SourceIsNotForged
    <2> DEFINE untrusted == request.at - 1 - cfg.hops
    <2> SUFFICES ASSUME IInv, source # Unset, untrusted >= 0
                 PROVE  source = IF untrusted = 0 THEN Client ELSE Proxies[untrusted]
        BY DEF SourceIsNotForged
    <2>1. /\ request.at > 0 /\ cfg # Invalid /\ cfg = Load(env)
          /\ source = sourceIP(request, cfg.hops) /\ Forwarded
        BY DEF IInv, Recorded, Loaded
    <2>2. cfg.hops \in Nat
        BY <2>1, HopsFacts
    <2>3. request.at \in Nat
        BY <2>1, StartupAssumption DEF Forwarded
    <2>4. cfg.hops < request.at
        BY <2>2, <2>3
    <2>5. source = Peer(request.at - cfg.hops)
        BY <2>1, <2>2, <2>4, SourceFacts
    <2>6. request.at - cfg.hops = 1 <=> untrusted = 0
        BY <2>2, <2>3
    <2>7. (request.at - cfg.hops) - 1 = untrusted
        BY <2>2, <2>3
    <2> QED BY <2>5, <2>6, <2>7 DEF Peer
<1> QED BY <1>1, Invariance, PTL

\* SettingsTakeEffect is invariant: of the variables that may be set, only those of
\* NoEffect can be dropped from an accepted environment without a trace.
THEOREM NoSettingIsIgnored == Spec => []SettingsTakeEffect
<1>1. ASSUME IInv, stage = "tracing", NEW v \in DOMAIN env,
             env[v] # Without(v)[v], ~NoEffect(v), Load(Without(v)) # Invalid
      PROVE  Wired(Load(Without(v))) # Wired(cfg)
    <2> DEFINE e == env
               w == Without(v)
    <2>1. e \in Environments /\ cfg = Load(e) /\ Load(e) # Invalid
        BY <1>1 DEF IInv, Loaded
    <2>2. DOMAIN e = Variables /\ Unset \notin {"split", "public", "internal"}
          /\ e.publishedKeyFiles \in Seq(ToSet(e.publishedKeyFiles))
        BY <2>1, StartupAssumption
    <2>3. /\ \A u \in Variables : u # v => w[u] = e[u]
          /\ w[v] = IF v \in Lists THEN <<>> ELSE Unset
          /\ v \in Variables
        BY <1>1, <2>2 DEF Without
    <2>4. Load(w) # Invalid /\ e[v] # w[v]
        BY <1>1
    <2>5. Wired(Load(w)) = Wired(Load(e)) =>
            /\ Load(w).publishedKeys = Load(e).publishedKeys
            /\ Load(w).hops = Load(e).hops
            /\ Load(e).idpIssuer # Unset /\ Load(w).idpIssuer # Unset =>
                /\ Load(w).idpAlgorithms = Load(e).idpAlgorithms
                /\ Load(w).legacy = Load(e).legacy
        BY DEF Wired
    <2>6. ~NoEffect(v) /\ cfg.hops = Load(e).hops
        BY <1>1, <2>1
    <2> HIDE DEF w, e
    <2>7. CASE v \in {"mode", "publicPort", "internalPort", "port", "retired"}
        <3>1. parseListeners(e) # Invalid /\ parseListeners(w) # Invalid
            BY <2>1, <2>4, LoadFacts
        <3>2. v \notin Lists
            BY <2>7 DEF Lists
        <3>3. w[v] = Unset /\ e[v] # Unset /\ (v = "port" => e.mode # "split")
            BY <2>3, <2>4, <2>6, <3>2 DEF NoEffect, e
        <3>4. {"mode", "publicPort", "internalPort", "port", "retired"} \subseteq Variables
            BY DEF Variables
        <3>5. parsePort(Unset) = Invalid
            BY DEF parsePort
        <3>6. CASE v = "mode"
            BY <2>2, <3>1, <3>3, <3>6 DEF parseListeners
        <3>7. CASE v = "retired"
            BY <3>1, <3>3, <3>7 DEF parseListeners
        <3>8. CASE v \in {"publicPort", "internalPort"}
            <4>1. w.mode = e.mode
                BY <2>3, <3>4, <3>8
            <4>2. e.mode # "split"
                BY <3>1, <3>3, <3>5, <3>8, <4>1 DEF parseListeners
            <4> QED BY <3>1, <3>3, <3>8, <4>2 DEF parseListeners
        <3>9. CASE v = "port"
            <4>1. w.mode = e.mode
                BY <2>3, <3>4, <3>9
            <4> QED BY <3>1, <3>3, <3>5, <3>9, <4>1 DEF parseListeners
        <3> QED BY <2>7, <3>6, <3>7, <3>8, <3>9
    <2>8. CASE v \in {"issuerID", "signingKeyFile", "signingKeyID", "destinationsFile"}
        <3>1. w[v] = Unset
            BY <2>3, <2>8 DEF Lists
        <3>2. Unset \notin {w.issuerID, w.signingKeyFile, w.signingKeyID, w.destinationsFile}
            BY <2>4, LoadFacts
        <3> QED BY <2>8, <3>1, <3>2
    <2>9. CASE v = "publishedKeyFiles"
        <3>1. w.publishedKeyFiles = <<>> /\ e.publishedKeyFiles # <<>>
            BY <2>3, <2>4, <2>9 DEF Lists
        <3>2. Len(Load(e).publishedKeys) = Len(e.publishedKeyFiles)
            BY <2>1, <2>2, LoadFacts, KeyFacts
        <3>3. w.publishedKeyFiles \in Seq(ToSet(w.publishedKeyFiles))
            BY <3>1
        <3>4. Len(Load(w).publishedKeys) = Len(w.publishedKeyFiles)
            BY <2>4, <3>3, LoadFacts, KeyFacts
        <3>5. Len(e.publishedKeyFiles) # 0 /\ Len(w.publishedKeyFiles) = 0
            BY <2>2, <3>1
        <3> QED BY <2>1, <2>5, <3>2, <3>4, <3>5 DEF w
    <2>10. CASE v = "hops"
        <3>1. w.hops = Unset
            BY <2>3, <2>10 DEF Lists
        <3>2. Load(w).hops = 0
            BY <2>4, <3>1, LoadFacts DEF parseTrustedProxyHops
        <3>3. Load(e).hops # 0
            BY <2>6, <2>10 DEF NoEffect
        <3> QED BY <2>1, <2>5, <3>2, <3>3 DEF w
    <2>11. CASE v \in {"idpIssuer", "idpAudience"}
        <3>1. w[v] = Unset /\ e[v] # Unset
            BY <2>3, <2>4, <2>11 DEF Lists
        <3>2. parseIDP(e) # Invalid /\ parseIDP(w) # Invalid
            BY <2>1, <2>4, LoadFacts
        <3>3. e.idpIssuer # Unset /\ e.idpAudience # Unset
            BY <2>11, <3>1, <3>2 DEF parseIDP
        <3>4. {"idpIssuer", "idpAudience"} \subseteq Variables
            BY DEF Variables
        <3>5. CASE v = "idpIssuer"
            <4>1. w.idpIssuer = Unset /\ w.idpAudience # Unset
                BY <2>3, <3>1, <3>3, <3>4, <3>5
            <4> QED BY <3>2, <4>1 DEF parseIDP
        <3>6. CASE v = "idpAudience"
            <4>1. w.idpAudience = Unset /\ w.idpIssuer # Unset
                BY <2>3, <3>1, <3>3, <3>4, <3>6
            <4> QED BY <3>2, <4>1 DEF parseIDP
        <3> QED BY <2>11, <3>5, <3>6
    <2>12. CASE v = "idpAlgorithms"
        <3>1. w.idpAlgorithms = <<>> /\ e.idpAlgorithms # <<>> /\ e.idpAlgorithms # <<"RS256">>
            BY <2>3, <2>4, <2>6, <2>12 DEF Lists, NoEffect, e
        <3>2. "idpIssuer" \in Variables
            BY DEF Variables
        <3>3. w.idpIssuer = e.idpIssuer
            BY <2>3, <2>12, <3>2
        <3>4. parseIDP(e) # Invalid /\ Load(e).idpAlgorithms = parseIDP(e)
              /\ parseIDP(w) # Invalid /\ Load(w).idpAlgorithms = parseIDP(w)
              /\ Load(e).idpIssuer = e.idpIssuer /\ Load(w).idpIssuer = w.idpIssuer
            BY <2>1, <2>4, LoadFacts
        <3>5. e.idpIssuer # Unset /\ parseIDP(e) = e.idpAlgorithms
            BY <3>1, <3>4 DEF parseIDP, parseIDPAlgorithms
        <3>6. parseIDP(w) = <<"RS256">>
            BY <3>1, <3>3, <3>4, <3>5 DEF parseIDP, parseIDPAlgorithms
        <3> QED BY <2>1, <2>5, <3>1, <3>3, <3>4, <3>5, <3>6 DEF w
    <2>13. CASE v \in {"introspection", "clientID", "secretFile"}
        <3>1. w[v] = Unset /\ e[v] # Unset
            BY <2>3, <2>4, <2>13 DEF Lists
        <3>2. /\ loadIntrospectionSecret(e) # Invalid /\ loadIntrospectionSecret(w) # Invalid
              /\ parseIntrospection(e) # Invalid /\ parseIntrospection(w) # Invalid
            BY <2>1, <2>4, LoadFacts
        <3>3. {"introspection", "clientID", "secretFile", "idpIssuer"} \subseteq Variables
            BY DEF Variables
        <3>4. CASE v = "introspection"
            <4>1. e.introspection # Unset /\ e.introspection # "required" /\ w.introspection = Unset
                BY <2>6, <3>1, <3>4 DEF NoEffect, e
            <4>2. /\ w.clientID = e.clientID /\ w.secretFile = e.secretFile
                  /\ w.idpIssuer = e.idpIssuer
                BY <2>3, <3>3, <3>4
            <4>3. e.introspection = "disabled" /\ e.idpIssuer # Unset
                BY <3>2, <4>1 DEF parseIntrospection
            <4>4. e.clientID = Unset /\ e.secretFile = Unset
                BY <3>2, <4>3 DEF parseIntrospection
            <4> QED BY <3>2, <4>1, <4>2, <4>3, <4>4 DEF parseIntrospection
        <3>5. CASE v \in {"clientID", "secretFile"}
            <4>1. e.clientID # Unset /\ e.secretFile # Unset
                BY <3>1, <3>2, <3>5 DEF loadIntrospectionSecret
            <4>2. \/ w.clientID = Unset /\ w.secretFile # Unset
                  \/ w.clientID # Unset /\ w.secretFile = Unset
                BY <2>3, <3>1, <3>3, <3>5, <4>1
            <4> QED BY <3>2, <4>2 DEF loadIntrospectionSecret
        <3> QED BY <2>13, <3>4, <3>5
    <2>14. CASE v = "legacy"
        <3>1. w.legacy = Unset /\ e.legacy # Unset
            BY <2>3, <2>4, <2>14 DEF Lists
        <3>2. "idpIssuer" \in Variables
            BY DEF Variables
        <3>3. w.idpIssuer = e.idpIssuer
            BY <2>3, <2>14, <3>2
        <3>4. /\ Load(e).legacy = parseLegacyEventsWriteScope(e)
              /\ parseLegacyEventsWriteScope(e) # Invalid
              /\ Load(w).legacy = parseLegacyEventsWriteScope(w)
              /\ Load(e).idpIssuer = e.idpIssuer /\ Load(w).idpIssuer = w.idpIssuer
            BY <2>1, <2>4, LoadFacts
        <3>5. e.idpIssuer # Unset /\ parseLegacyEventsWriteScope(e) = TRUE
            BY <3>1, <3>4 DEF parseLegacyEventsWriteScope
        <3>6. parseLegacyEventsWriteScope(w) = FALSE
            BY <3>1 DEF parseLegacyEventsWriteScope
        <3>7. Load(e).legacy = TRUE /\ Load(w).legacy = FALSE
            BY <3>4, <3>5, <3>6
        <3> QED BY <2>1, <2>5, <3>3, <3>4, <3>5, <3>7 DEF w
    <2>15. v # "logLevel"
        BY <2>6 DEF NoEffect
    <2> QED
        BY <2>3, <2>7, <2>8, <2>9, <2>10, <2>11, <2>12, <2>13, <2>14, <2>15 DEF Variables
<1>2. IInv => SettingsTakeEffect
    BY <1>1 DEF SettingsTakeEffect
<1> QED BY <1>2, Invariance, PTL
=============================================================================
