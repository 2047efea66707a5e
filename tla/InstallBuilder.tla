---------------------------- MODULE InstallBuilder ----------------------------
(***************************************************************************)
(* The deployment page's command builder: deployment.tsx and install/.     *)
(* Each tab of a browser keeps the choices as its state, and an effect     *)
(* writes them to the tab's URL and to two entries of localStorage that    *)
(* the tabs share, the configuration and the credentials.  The snippets    *)
(* are computed from the state.                                            *)
(*                                                                         *)
(* A snippet is the set of its lines that name a variable, each with what  *)
(* it gives the variable: a literal, a reference to a shell variable, or a *)
(* credential the user typed.  Numbers are counted in tenths.              *)
(***************************************************************************)
EXTENDS Integers, Functions, Browser

CONSTANTS Secrets,      \* what the user types into a credential field
          Links,        \* query strings a link may carry, edited by hand too
          Other,        \* another text than the default one
          Amounts,      \* what a number field may hold, in tenths
          Garbage,      \* a raw value that is neither a number nor a choice
          Edited,       \* bound: the fields the user changes
          MaxClicks     \* bound: gestures of the user, opened pages included

ASSUME InstallAssumption == MaxClicks \in Nat /\ None \notin Secrets /\ Amounts \subseteq Int

VARIABLES
    open,       \* the tabs that show the page
    state,      \* useState of each tab: the value of every field
    url,        \* location.search of each tab: a function from the fields it names
    due,        \* the tabs whose effect has not run since the last render
    shown,      \* the tabs whose <details> element is open
    toggled,    \* the tabs with a toggle event to come
    config,     \* localStorage: vellaris-docs-install-config ({} when absent)
    creds,      \* localStorage: vellaris-docs-install-creds  ({} when absent)
    live,       \* history: credentials typed, and not forgotten since
    clicks

builderVars == <<open, state, url, due, shown, toggled, config, creds, live, clicks>>

-----------------------------------------------------------------------------
\* install/state.ts

CredKeys == {"credAwsAccessKeyId", "credAwsSecretAccessKey", "credAwsRegion",
             "credDbPassword", "credGcpKeyJsonPath", "credAzureAccount", "credAzureKey"}

RunModes == {"docker", "compose", "pip", "helm", "systemd"}
Choices == [runMode |-> RunModes,
            db |-> {"sqlite", "postgres", "mysql"},
            storage |-> {"local", "s3", "gcs", "azure"},
            image |-> {"slim", "full", "custom"},
            credsMode |-> {"export", "inline"},
            auditKeyMode |-> {"generate", "path"},
            proxyMode |-> {"none", "caddy", "nginx", "traefik"},
            tlsMode |-> {"off", "auto", "manual"}]
Flags == {"advancedOpen", "autoMigrate"}
Numbers == {"maxUploadMb", "rateLimitPerMin", "rateLimitBurst", "sessionTtlHours",
            "challengeTtlMin", "replicas"}
Texts == {"bucket", "endpoint", "dbHost", "dbPort", "dbName", "dbUser", "corsOrigins",
          "auditKeyPath", "proxyHostname", "tlsCertPath", "tlsKeyPath", "webauthnSpaHost"}
UrlFields == DOMAIN Choices \cup Flags \cup Numbers \cup Texts

\* A query string names fields of the page; a raw number may have any sign.
Query(search) == /\ DOMAIN search \subseteq UrlFields
                 /\ \A f \in DOMAIN search \cap Numbers : search[f] \in Int \cup {Garbage}
ASSUME LinksAssumption == Garbage \notin Int /\ \A search \in Links : Query(search)

\* { ...base, ...over }
Spread(base, over) ==
    [f \in DOMAIN base \cup DOMAIN over |-> IF f \in DOMAIN over THEN over[f] ELSE base[f]]

DefaultInstallState == Spread([k \in CredKeys |-> None],
    [runMode |-> "compose", db |-> "postgres", storage |-> "local", image |-> "slim",
     bucket |-> "vellaris-blobs", endpoint |-> "", dbHost |-> "postgres",
     dbPort |-> "5432", dbName |-> "vellaris", dbUser |-> "vellaris",
     credsMode |-> "export", advancedOpen |-> FALSE, maxUploadMb |-> 1000,
     rateLimitPerMin |-> 1200, rateLimitBurst |-> 200, sessionTtlHours |-> 80,
     challengeTtlMin |-> 50, corsOrigins |-> "*", auditKeyMode |-> "generate",
     auditKeyPath |-> "/secrets/vellaris-audit-key", autoMigrate |-> TRUE,
     replicas |-> 10, proxyMode |-> "none", proxyHostname |-> "vault.example.com",
     tlsMode |-> "off", tlsCertPath |-> "/certs/cert.pem",
     tlsKeyPath |-> "/certs/key.pem", webauthnSpaHost |-> ""])

\* Mutant: a value that is falsy in the source's language is left out.
EncodeTruthy(s) ==
    Restrict(s, {f \in UrlFields : /\ s[f] # DefaultInstallState[f]
                                   /\ f \in Texts => s[f] # ""
                                   /\ f \in Flags => s[f]
                                   /\ f \in Numbers => s[f] # 0})

\* The query string of a state: neither defaults nor empty texts.
EncodeStateToUrl(s) ==
    Restrict(s, {f \in UrlFields : s[f] # DefaultInstallState[f] /\ (f \in Texts => s[f] # "")})

\* Math.round: a half goes up.
Rounded(n) == 10 * ((n + 5) \div 10)
ParsePositiveInt(n) == IF Rounded(n) < 10 THEN 10 ELSE Rounded(n)

\* What a parameter sets its field to: a choice, a flag or a number that does not
\* parse leaves the default, a text is taken as it is.
Parsed(f, raw) ==
    CASE f \in Texts -> raw
      [] f \in DOMAIN Choices /\ raw \in Choices[f] -> raw
      [] f \in Flags /\ raw \in BOOLEAN -> raw
      [] f \in Numbers /\ raw # Garbage -> ParsePositiveInt(raw)
      [] OTHER -> DefaultInstallState[f]

DecodeStateFromUrl(search) ==
    Spread(Restrict(DefaultInstallState, UrlFields),
           [f \in DOMAIN search |-> Parsed(f, search[f])])

\* Mutant: the entry is the whole state.
SaveWholeState(s) == s

\* The two entries an effect writes.
SaveConfig(s) == Restrict(s, DOMAIN s \ CredKeys)
SaveCreds(s) == Restrict(s, {k \in CredKeys : s[k] # None})

NoEntry == << >>

BuilderTypeOK ==
    /\ open \subseteq Tabs /\ due \subseteq open /\ toggled \subseteq open /\ shown \subseteq open
    /\ \A t \in open : \A f \in UrlFields :
          /\ f \in DOMAIN Choices => state[t][f] \in Choices[f]
          /\ f \in Flags => state[t][f] \in BOOLEAN
          /\ f \in Numbers => state[t][f] \in Int
    /\ \A t \in open : \A k \in CredKeys : state[t][k] \in Secrets \cup {None}
    /\ DOMAIN creds \subseteq CredKeys /\ live \subseteq Secrets /\ clicks \in 0..MaxClicks

BuilderInit ==
    /\ open = {} /\ state = [t \in Tabs |-> DefaultInstallState]
    /\ url = [t \in Tabs |-> NoEntry] /\ due = {} /\ shown = {} /\ toggled = {}
    /\ config = NoEntry /\ creds = NoEntry /\ live = {} /\ clicks = 0

-----------------------------------------------------------------------------
\* install/templates.ts

Line(var, value) == [var |-> var, value |-> value]
Literal == [ref |-> None, secret |-> None]
Ref(v) == [Literal EXCEPT !.ref = v]
\* A credential in a command, or the dots that stand for one.
Given(secret) == [Literal EXCEPT !.secret = secret]

Inline(s) == s.credsMode = "inline"
AwsVars == {"AWS_ACCESS_KEY_ID", "AWS_SECRET_ACCESS_KEY", "AWS_REGION"}
AzureVars == {"AZURE_STORAGE_ACCOUNT_NAME", "AZURE_STORAGE_ACCOUNT_KEY"}

DbPassword(s) == IF Inline(s) THEN Given(s.credDbPassword) ELSE Ref("DB_PASSWORD")
Aws(s, v) == IF ~Inline(s) THEN Ref(v) ELSE
             CASE v = "AWS_ACCESS_KEY_ID" -> Given(s.credAwsAccessKeyId)
               [] v = "AWS_SECRET_ACCESS_KEY" -> Given(s.credAwsSecretAccessKey)
               [] v = "AWS_REGION" -> Given(s.credAwsRegion)

\* generateDatabaseUrl and generateBlobUrl: the URL carries the password.
Backends(s) ==
    {Line("VELLARIS_DATABASE_URL", IF s.db = "sqlite" THEN Literal ELSE DbPassword(s)),
     Line("VELLARIS_BLOB_URL", Literal)}

RpHost(s) == \/ s.webauthnSpaHost # ""
             \/ /\ s.proxyMode # "none"
                /\ s.proxyHostname \notin {"", DefaultInstallState.proxyHostname}

\* A variable for each setting that is not the server's default.
AdvancedEnvVars(s) ==
    LET changed(f) == s[f] # DefaultInstallState[f]
        vars_ == {v \in {<<"maxUploadMb", "VELLARIS_MAX_UPLOAD_BYTES">>,
                         <<"rateLimitPerMin", "VELLARIS_RATE_LIMIT_PER_MINUTE">>,
                         <<"rateLimitBurst", "VELLARIS_RATE_LIMIT_BURST">>,
                         <<"sessionTtlHours", "VELLARIS_SESSION_TTL_SECONDS">>,
                         <<"challengeTtlMin", "VELLARIS_CHALLENGE_TTL_SECONDS">>,
                         <<"corsOrigins", "VELLARIS_CORS_ALLOW_ORIGINS">>,
                         <<"auditKeyMode", "VELLARIS_AUDIT_SIGNING_KEY_PATH">>,
                         <<"autoMigrate", "VELLARIS_AUTO_MIGRATE">>} : changed(v[1])}
    IN  {Line(v[2], Literal) : v \in vars_}
        \cup (IF RpHost(s) THEN {Line("VELLARIS_WEBAUTHN_RP_ID", Literal),
                                 Line("VELLARIS_WEBAUTHN_RP_ORIGINS", Literal)} ELSE {})

\* Mutant: the password is exported for the default database only.
ExportForPostgres(s) ==
    IF Inline(s) THEN {} ELSE
    {Line(v, Literal) : v \in
        (IF s.db = "postgres" THEN {"DB_PASSWORD"} ELSE {})
        \cup CASE s.storage = "s3" -> AwsVars \cup
                     (IF s.endpoint # "" THEN {"VELLARIS_BLOB_OPTIONS_JSON"} ELSE {})
               [] s.storage = "gcs" -> {"GOOGLE_APPLICATION_CREDENTIALS"}
               [] s.storage = "azure" -> AzureVars
               [] OTHER -> {}}

\* The block that sets the credentials in the shell.
GenerateExportBlock(s) ==
    IF Inline(s) THEN {} ELSE
    {Line(v, Literal) : v \in
        (IF s.db # "sqlite" THEN {"DB_PASSWORD"} ELSE {})
        \cup CASE s.storage = "s3" -> AwsVars \cup
                     (IF s.endpoint # "" THEN {"VELLARIS_BLOB_OPTIONS_JSON"} ELSE {})
               [] s.storage = "gcs" -> {"GOOGLE_APPLICATION_CREDENTIALS"}
               [] s.storage = "azure" -> AzureVars
               [] OTHER -> {}}

PasswordLine(s) == IF s.db = "sqlite" THEN {} ELSE {Line("DB_PASSWORD", DbPassword(s))}
AwsLines(s) == IF s.storage = "s3" THEN {Line(v, Aws(s, v)) : v \in AwsVars} ELSE {}

\* docker -e VAR passes the shell's variable on; inline, only DB and S3 are given.
DockerEnvFlags(s) ==
    LET passed == IF Inline(s) THEN {} ELSE
                  CASE s.storage = "s3" /\ s.endpoint # "" -> {"VELLARIS_BLOB_OPTIONS_JSON"}
                    [] s.storage = "gcs" -> {"GOOGLE_APPLICATION_CREDENTIALS"}
                    [] s.storage = "azure" -> AzureVars
                    [] OTHER -> {}
    IN  Backends(s) \cup PasswordLine(s) \cup AwsLines(s)
        \cup {Line(v, Ref(v)) : v \in passed} \cup AdvancedEnvVars(s)

GenerateDockerRun(s) == DockerEnvFlags(s)
GenerateCustomDockerfile(s) == GenerateDockerRun([s EXCEPT !.image = "slim"])

\* Mutant: a password that is stored is shown in either mode.
ComposeShowsStored(s) ==
    LET password == IF s.credDbPassword # None THEN Given(s.credDbPassword) ELSE DbPassword(s)
    IN  Backends(s) \cup AwsLines(s) \cup AdvancedEnvVars(s)
        \cup (IF s.db = "sqlite" THEN {} ELSE {Line("DB_PASSWORD", password)})

\* The server's environment, and that of the database service beside it.
GenerateCompose(s) ==
    Backends(s) \cup PasswordLine(s) \cup AwsLines(s) \cup AdvancedEnvVars(s)
    \cup CASE s.db = "postgres" -> {Line("POSTGRES_PASSWORD", DbPassword(s))}
           [] s.db = "mysql" -> {Line("MARIADB_PASSWORD", DbPassword(s)),
                                 Line("MARIADB_ROOT_PASSWORD", DbPassword(s))}
           [] OTHER -> {}

\* The .env file has dots for the password unless it is given.
GeneratePip(s) ==
    Backends(s) \cup AdvancedEnvVars(s)
    \cup (IF s.db = "sqlite" THEN {} ELSE
          {Line("DB_PASSWORD", IF Inline(s) THEN DbPassword(s) ELSE Literal)})

GenerateHelm(s) == Backends(s) \cup AdvancedEnvVars(s)
GenerateSystemd(s) == Backends(s) \cup AdvancedEnvVars(s)

\* A custom image takes precedence over the run mode.
GenerateRunSnippet(s) ==
    CASE s.image = "custom" -> GenerateCustomDockerfile(s)
      [] s.image # "custom" /\ s.runMode = "docker" -> GenerateDockerRun(s)
      [] s.image # "custom" /\ s.runMode = "compose" -> GenerateCompose(s)
      [] s.image # "custom" /\ s.runMode = "helm" -> GenerateHelm(s)
      [] s.image # "custom" /\ s.runMode = "systemd" -> GenerateSystemd(s)
      [] s.image # "custom" /\ s.runMode = "pip" -> GeneratePip(s)

\* The proxy's configuration names hosts and certificate paths, no variable.
GenerateProxySnippet(s) == {Line(v, Literal) : v \in
    CASE s.proxyMode = "none" -> {}
      [] s.proxyMode = "nginx" /\ s.tlsMode = "manual" -> {"server_name", "ssl_certificate"}
      [] OTHER -> {"server_name"}}

\* The boxes on the page, and whether a box warns of credentials.
Snippets(s) == {[lines |-> GenerateExportBlock(s), warn |-> FALSE],
                [lines |-> GenerateRunSnippet(s), warn |-> Inline(s)],
                [lines |-> GenerateProxySnippet(s), warn |-> FALSE]}

-----------------------------------------------------------------------------
\* deployment.tsx and install/components

\* The fields the panels offer: pickers, configuration, credentials, and what is in
\* the <details> element when it is open.
PickersOffer(s) == {"runMode", "db", "storage"} \cup (IF s.runMode # "pip" THEN {"image"} ELSE {})

ConfigOffers(s) ==
    (IF s.storage # "local" THEN {"bucket"} ELSE {})
    \cup (IF s.storage = "s3" THEN {"endpoint"} ELSE {})
    \cup (IF s.db # "sqlite" THEN {"dbHost", "dbPort", "dbName", "dbUser"} ELSE {})

CredsOffer(s) ==
    {"credsMode"} \cup IF ~Inline(s) THEN {} ELSE
        (IF s.db # "sqlite" THEN {"credDbPassword"} ELSE {})
        \cup (IF s.storage = "s3"
              THEN {"credAwsAccessKeyId", "credAwsSecretAccessKey", "credAwsRegion"} ELSE {})

LimitsOffer(s) ==
    Numbers \cup {"corsOrigins", "auditKeyMode", "autoMigrate"}
    \cup (IF s.auditKeyMode = "path" THEN {"auditKeyPath"} ELSE {})

ProxyOffers(s) ==
    {"proxyMode", "webauthnSpaHost", "tlsMode"}
    \cup (IF s.proxyMode # "none" THEN {"proxyHostname"} ELSE {})
    \cup (IF s.tlsMode = "manual" THEN {"tlsCertPath", "tlsKeyPath"} ELSE {})

Offered(t) ==
    LET s == state[t]
    IN  PickersOffer(s) \cup ConfigOffers(s) \cup CredsOffer(s)
        \cup (IF t \in shown THEN LimitsOffer(s) \cup ProxyOffers(s) ELSE {})

\* What the user may enter: a number field takes fractions and negative numbers, and
\* is 0 when emptied; an emptied credential is none.
Entered(f) ==
    CASE f \in DOMAIN Choices -> Choices[f]
      [] f \in Flags -> BOOLEAN
      [] f \in Numbers -> Amounts \cup {0}
      [] f \in Texts -> {Other, ""}
      [] f \in CredKeys -> Secrets \cup {None}

\* A render with state s: the element follows the field when the field changes,
\* and a change of the element queues its toggle event.
Render(t, s) ==
    /\ state' = [state EXCEPT ![t] = s]
    /\ shown' = IF s.advancedOpen = state[t].advancedOpen THEN shown
                ELSE IF s.advancedOpen THEN shown \cup {t} ELSE shown \ {t}
    /\ toggled' = IF shown' = shown THEN toggled ELSE toggled \cup {t}

\* The effect: the state into the URL and into both entries.
Sync(t, s) ==
    /\ url' = [url EXCEPT ![t] = EncodeStateToUrl(s)]
    /\ config' = SaveConfig(s) /\ creds' = SaveCreds(s)
    /\ due' = due \ {t}

\* A gesture renders, and its effect runs before the next event.
Gesture(t, s) == /\ clicks < MaxClicks /\ t \in open /\ clicks' = clicks + 1
                 /\ Render(t, s) /\ Sync(t, s) /\ UNCHANGED open

Patch(t) ==
    \E f \in Offered(t) \cap Edited : \E v \in Entered(f) \ {state[t][f]} :
        /\ Gesture(t, [state[t] EXCEPT ![f] = v])
        /\ live' = IF f \in CredKeys THEN live \cup ({v} \ {None}) ELSE live

\* The credential mode stays, the credentials go.
Reset(t) == /\ Gesture(t, [DefaultInstallState EXCEPT !.credsMode = state[t].credsMode])
            /\ UNCHANGED live

HeldBy(t) == {state[t][k] : k \in CredKeys} \ {None}

\* Mutant: the entries are removed and the state is kept.
ForgetEntriesOnly(t) ==
    /\ clicks < MaxClicks /\ t \in open /\ clicks' = clicks + 1
    /\ config' = NoEntry /\ creds' = NoEntry
    /\ live' = UNION {HeldBy(u) : u \in open \ {t}}
    /\ UNCHANGED <<open, state, url, due, shown, toggled>>

\* Both entries are removed; the effect then writes the defaults.
ForgetAll(t) == /\ Gesture(t, DefaultInstallState)
                /\ live' = UNION {HeldBy(u) : u \in open \ {t}}

\* The user opens or closes the element: the event comes as a task of its own.
Summary(t) ==
    /\ clicks < MaxClicks /\ t \in open /\ clicks' = clicks + 1
    /\ shown' = IF t \in shown THEN shown \ {t} ELSE shown \cup {t}
    /\ toggled' = toggled \cup {t}
    /\ UNCHANGED <<open, state, url, due, config, creds, live>>

\* onToggle flips the field, whoever changed the element.
Toggle(t) ==
    LET s == [state[t] EXCEPT !.advancedOpen = ~@]
    IN  /\ t \in toggled
        /\ state' = [state EXCEPT ![t] = s]
        /\ shown' = IF s.advancedOpen THEN shown \cup {t} ELSE shown \ {t}
        /\ toggled' = IF shown' = shown THEN toggled \ {t} ELSE toggled
        /\ due' = due \cup {t}
        /\ UNCHANGED <<open, url, config, creds, live, clicks>>

Effect(t) == /\ t \in due /\ Sync(t, state[t])
             /\ UNCHANGED <<open, state, shown, toggled, live, clicks>>

\* The state of a page that opens with a query string: the link over the stored
\* configuration over the defaults, and the stored credentials.
Merged(search) ==
    LET link == IF search = NoEntry THEN NoEntry ELSE DecodeStateFromUrl(search)
    IN  Spread(Spread(Spread(DefaultInstallState, config), link), creds)

\* A page opens, from a link or without one, or loads again.
Open(t, search) ==
    /\ clicks < MaxClicks /\ clicks' = clicks + 1
    /\ open' = open \cup {t} /\ state' = [state EXCEPT ![t] = Merged(search)]
    /\ url' = [url EXCEPT ![t] = search] /\ due' = due \cup {t}
    /\ LET wide == Merged(search).advancedOpen
       IN  /\ shown' = IF wide THEN shown \cup {t} ELSE shown \ {t}
           /\ toggled' = IF wide THEN toggled \cup {t} ELSE toggled \ {t}
    /\ UNCHANGED <<config, creds, live>>

\* A link of the documentation to the page itself: no remount, the search is gone.
FollowOwnLink(t) ==
    /\ clicks < MaxClicks /\ t \in open /\ clicks' = clicks + 1
    /\ url' = [url EXCEPT ![t] = NoEntry] /\ due' = due \cup {t}
    /\ UNCHANGED <<open, state, shown, toggled, config, creds, live>>

Close(t) ==
    /\ t \in open
    /\ open' = open \ {t} /\ due' = due \ {t} /\ shown' = shown \ {t}
    /\ toggled' = toggled \ {t} /\ state' = [state EXCEPT ![t] = DefaultInstallState]
    /\ url' = [url EXCEPT ![t] = NoEntry]
    /\ UNCHANGED <<config, creds, live, clicks>>

BuilderNext ==
    \E t \in Tabs :
        \/ Patch(t) \/ Reset(t) \/ ForgetAll(t) \/ Summary(t) \/ Toggle(t) \/ Effect(t)
        \/ \E search \in Links \cup {NoEntry, url[t]} : Open(t, search)
        \/ FollowOwnLink(t) \/ Close(t)

BuilderSpec == BuilderInit /\ [][BuilderNext]_builderVars

-----------------------------------------------------------------------------
\* A credential is in no URL and not in the configuration's entry, and a box that
\* shows one warns: what a user copies from a page in export mode is shareable,
\* whatever was typed before (state.ts 1-4, CredsPanel.tsx 23-24, templates.ts).
SecretsAreMarked ==
    /\ \A t \in open :
          /\ Range(Restrict(url[t], DOMAIN url[t] \cap CredKeys)) \cap Secrets = {}
          /\ \A box \in Snippets(state[t]) : \A l \in box.lines :
                l.value.secret \in Secrets => box.warn
    /\ DOMAIN config \cap CredKeys = {}

\* The number m is what n, which a field showed, is in a link that is opened: the
\* whole number nearest to it, the higher of two, and one at least.
ComesBackAs(n, m) ==
    /\ m % 10 = 0 /\ m >= 10
    /\ m - n \in -4..5 \/ (n < 5 /\ m = 10)

\* What a saved link gives another browser is what the page showed, but for an
\* emptied text, which comes back as its default, and a number that is no positive
\* integer: the page shows and links 1.5, and the link opens with 2.  The default
\* state has no link (deployment.tsx 36, 44-48; state.ts 149-248).  The types with it.
LinkReopens ==
    /\ BuilderTypeOK
    /\ \A t \in open \ due : url[t] # NoEntry =>
          LET reopened == DecodeStateFromUrl(url[t])
          IN  /\ \A f \in Numbers : ComesBackAs(state[t][f], reopened[f])
              /\ \A f \in UrlFields \ Numbers :
                    reopened[f] = IF f \in Texts /\ state[t][f] = ""
                                  THEN DefaultInstallState[f] ELSE state[t][f]

\* "Forget everything" is for good: a stored credential was typed since, or was
\* held by another tab of the browser (deployment.tsx 60-63, 44-51).
ForgottenIsGone == \A k \in DOMAIN creds : creds[k] \in live

\* The shell variables that the commands refer to are those that the block above
\* them sets: two generators that case on the backends each for itself
\* (templates.ts 106-124 and 34-39, 126-160, 195-281).
ReferencesAreExported ==
    \A t \in open :
        LET exported == {l.var : l \in GenerateExportBlock(state[t])}
        IN  \A box \in Snippets(state[t]) : \A l \in box.lines :
                l.value.ref # None => l.value.ref \in exported
=============================================================================
