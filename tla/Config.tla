------------------------------- MODULE Config -------------------------------
(***************************************************************************)
(* config.Load as operators: what each variable of the environment is      *)
(* accepted as, and which combinations are refused.  A parser returns the  *)
(* value it accepts, or Invalid; which errors are joined into one is not   *)
(* modelled.  Texts are names; what the libraries make of them is given by *)
(* Atoi, Itoa, URL and Files.                                              *)
(***************************************************************************)
EXTENDS Integers, Sequences, SequencesExt

CONSTANTS
    Unset,       \* the value of a variable that is unset or empty
    Invalid,     \* the result of a parser that refuses
    NotANumber,  \* the result of Atoi for a text that is no integer
    Unreadable,  \* a file that cannot be read
    Atoi,        \* strconv.Atoi, a function on the texts in use
    Itoa,        \* strconv.Itoa, a function on the numbers in use
    URL,         \* url.Parse: the scheme, the host and the other parts present
    Files        \* the files: Unreadable, or a sequence of characters

\* The variables of the environment; those no longer supported count as one.
Variables ==
    {"mode", "publicPort", "internalPort", "port", "retired",
     "issuerID", "signingKeyFile", "signingKeyID", "publishedKeyFiles",
     "idpIssuer", "idpAudience", "idpAlgorithms", "introspection", "clientID", "secretFile",
     "legacy", "destinationsFile", "hops", "logLevel"}

maxTrustedProxyHops == 16
maxPort == 65535

-----------------------------------------------------------------------------
(* Listeners.                                                              *)

\* Mutant: any spelling of a number in range is a port.
parsePort_AnySpelling(raw) ==
    IF raw # Unset /\ Atoi[raw] # NotANumber /\ Atoi[raw] \in 1..maxPort
    THEN raw ELSE Invalid

\* A number in range, written the one way Itoa writes it.
parsePort(raw) ==
    IF raw # Unset /\ Atoi[raw] # NotANumber /\ Atoi[raw] \in 1..maxPort
       /\ Itoa[Atoi[raw]] = raw
    THEN raw ELSE Invalid

listener(inbound, port) == [inbound |-> inbound, port |-> port]

parseListeners(env) ==
    LET public == parsePort(env.publicPort)
        internal == parsePort(env.internalPort)
        only == parsePort(env.port)
    IN  CASE env.retired = Unset /\ env.mode = "split" ->
                IF Invalid \in {public, internal} \/ public = internal THEN Invalid
                ELSE <<listener("public", public), listener("internal", internal)>>
          [] env.retired = Unset /\ env.mode \in {"public", "internal"} ->
                IF env.publicPort # Unset \/ env.internalPort # Unset \/ only = Invalid
                THEN Invalid
                ELSE <<listener(env.mode, only)>>
          [] OTHER -> Invalid

-----------------------------------------------------------------------------
(* The keys of the internal tokens.                                        *)

\* An entry of the list, cut at its first separator.
parsePublishedKey(entry) ==
    IF entry.separated /\ entry.kid # Unset /\ entry.path # Unset
    THEN [kid |-> entry.kid, path |-> entry.path] ELSE Invalid

\* Mutant: a key ID is compared with that of the signing key only.
parsePublishedKeys_Repeated(raw, signingKeyID) ==
    LET files == [i \in DOMAIN raw |-> parsePublishedKey(raw[i])]
    IN  IF \A i \in DOMAIN files : files[i] # Invalid /\ files[i].kid # signingKeyID
        THEN files ELSE Invalid

\* The list is read in order; every entry must be well formed, and its key ID none
\* of those seen before, that of the signing key included.
parsePublishedKeys(raw, signingKeyID) ==
    LET files == [i \in DOMAIN raw |-> parsePublishedKey(raw[i])]
        Seen(i) == {signingKeyID} \cup {files[j].kid : j \in 1..(i - 1)}
    IN  IF /\ \A i \in DOMAIN files : files[i] # Invalid
           /\ \A i \in DOMAIN files : files[i].kid \notin Seen(i)
        THEN files ELSE Invalid

-----------------------------------------------------------------------------
(* The IdP.                                                                *)

\* Mutant: user information in the issuer is let through.
checkIDPIssuer_WithUser(issuer) ==
    /\ URL[issuer].scheme \in {"http", "https"}
    /\ URL[issuer].host # Unset
    /\ URL[issuer].rest \subseteq {"user"}

\* An absolute HTTP URL without opaque part, query, fragment or user.
checkIDPIssuer(issuer) ==
    /\ URL[issuer].scheme \in {"http", "https"}
    /\ URL[issuer].host # Unset
    /\ URL[issuer].rest = {}

supportedIDPAlgorithms == {"RS256", "ES256"}

parseIDPAlgorithms(raw) ==
    IF raw = <<>> THEN <<"RS256">>
    ELSE IF ToSet(raw) \subseteq supportedIDPAlgorithms /\ IsInjective(raw) THEN raw
    ELSE Invalid

parseIDP(env) ==
    IF env.idpIssuer = Unset
    THEN IF env.idpAudience # Unset \/ env.idpAlgorithms # <<>> THEN Invalid ELSE <<>>
    ELSE IF ~checkIDPIssuer(env.idpIssuer) \/ env.idpAudience = Unset THEN Invalid
         ELSE parseIDPAlgorithms(env.idpAlgorithms)

\* Line ends at the end of the file are dropped; nothing else is a secret.
readSecretFile(path) ==
    LET raw == Files[path]
        text == {i \in DOMAIN raw : raw[i] \notin {"CR", "LF"}}
    IN  IF raw = Unreadable THEN Invalid
        ELSE IF text = {} THEN Invalid
        ELSE SubSeq(raw, 1, CHOOSE i \in text : \A j \in text : j <= i)

loadIntrospectionSecret(env) ==
    IF env.clientID = Unset /\ env.secretFile = Unset THEN Unset
    ELSE IF Unset \in {env.clientID, env.secretFile, env.idpIssuer} THEN Invalid
    ELSE readSecretFile(env.secretFile)

\* Mutant: an IdP without credentials is taken for one without revocation checks.
parseIntrospection_Lenient(env) ==
    IF env.introspection \notin {Unset, "required", "disabled"} THEN Invalid
    ELSE IF env.idpIssuer = Unset
    THEN IF env.introspection # Unset THEN Invalid ELSE FALSE
    ELSE IF env.introspection = "disabled"
    THEN IF env.clientID # Unset \/ env.secretFile # Unset THEN Invalid ELSE TRUE
    ELSE FALSE

\* Whether introspection is disabled.
parseIntrospection(env) ==
    IF env.introspection \notin {Unset, "required", "disabled"} THEN Invalid
    ELSE IF env.idpIssuer = Unset
    THEN IF env.introspection # Unset THEN Invalid ELSE FALSE
    ELSE IF env.introspection = "disabled"
    THEN IF env.clientID # Unset \/ env.secretFile # Unset THEN Invalid ELSE TRUE
    ELSE IF env.clientID = Unset /\ env.secretFile = Unset THEN Invalid ELSE FALSE

\* Mutant: the switch is accepted without an IdP.
parseLegacyEventsWriteScope_NoIssuer(env) ==
    IF env.legacy = Unset THEN FALSE ELSE IF env.legacy = "enabled" THEN TRUE ELSE Invalid

parseLegacyEventsWriteScope(env) ==
    IF env.legacy = Unset THEN FALSE
    ELSE IF env.legacy = "enabled" /\ env.idpIssuer # Unset THEN TRUE ELSE Invalid

-----------------------------------------------------------------------------

parseTrustedProxyHops(raw) ==
    IF raw = Unset THEN 0
    ELSE IF Atoi[raw] # NotANumber /\ Atoi[raw] \in 0..maxTrustedProxyHops THEN Atoi[raw]
    ELSE Invalid

\* The configuration, or Invalid when any part of it is.
Load(env) ==
    LET config ==
          [listeners |-> parseListeners(env),
           issuerID |-> env.issuerID,
           signingKey |-> [kid |-> env.signingKeyID, path |-> env.signingKeyFile],
           publishedKeys |-> parsePublishedKeys(env.publishedKeyFiles, env.signingKeyID),
           idpIssuer |-> env.idpIssuer,
           idpAudience |-> env.idpAudience,
           idpAlgorithms |-> parseIDP(env),
           clientID |-> env.clientID,
           secret |-> loadIntrospectionSecret(env),
           introspectionDisabled |-> parseIntrospection(env),
           legacy |-> parseLegacyEventsWriteScope(env),
           destinationsFile |-> env.destinationsFile,
           hops |-> parseTrustedProxyHops(env.hops)]
    IN  IF \/ Unset \in {env.issuerID, env.signingKeyFile, env.signingKeyID,
                         env.destinationsFile}
           \/ env.idpIssuer # Unset /\ env.idpIssuer = env.issuerID
           \/ \E part \in DOMAIN config : config[part] = Invalid
        THEN Invalid ELSE config
=============================================================================
