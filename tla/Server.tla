------------------------------- MODULE Server -------------------------------
(***************************************************************************)
(* The life of the server process: what it makes of its environment        *)
(* variables, where it takes its identity from, what it starts, and what   *)
(* it does when one of the two things it started ends.                     *)
(*                                                                         *)
(* HTTP and the DIDComm listener are tasks of their own.  In production    *)
(* start() waits for them (join) and exits, and a supervisor starts the    *)
(* process again; embedded, a host holds the handle and may shut it down.  *)
(* External: the operator, the VTA (remote key custody) and its library,   *)
(* the mediator, and whoever serves the registry's did:web document.       *)
(***************************************************************************)
EXTENDS Naturals

CONSTANTS
    Environments,  \* bound: the environment variables the operator may set
    MaxAttempts,   \* DID_CHECK_MAX_ATTEMPTS
    MaxRotations,  \* bound: how often the VTA's keys are rotated
    Mishaps,       \* the kinds of failure considered
    MaxMishaps     \* bound: how many failures happen in a behavior

Transports == {"rest", "didcomm", "tsp"}

Flag == {"unset", "true", "false", "yes"}

\* flags: ENABLE_REST, ENABLE_DIDCOMM and ENABLE_TSP.  complete: the variables
\* the chosen backend and the mediator require are set.  vta: TR_VTA_CREDENTIAL.
\* backend: a secret store is selected.  storable: one can be opened, that one or the
\* default the VTA's cache falls back to.  inline: PROFILE_CONFIG.  url:
\* TR_PUBLIC_URL.  override: what DID_DOCUMENT advertises, if it is set.  web:
\* the DID is a did:web.  embedded: serve() is called by a host, not by start().
Environment ==
    [flags : [Transports -> Flag], complete : BOOLEAN, vta : BOOLEAN, backend : BOOLEAN,
     storable : BOOLEAN, inline : BOOLEAN, url : {"none", "https", "loopback", "cleartext"},
     override : {[set |-> FALSE]} \union [set : {TRUE}, kinds : SUBSET Transports],
     web : BOOLEAN, embedded : BOOLEAN]

AllMishaps == {"vta", "secretStore", "storage", "bind", "unreachable", "mediator", "panic",
               "http", "crash"}

ASSUME ServerAssumption ==
    /\ Environments \subseteq Environment
    /\ MaxAttempts \in Nat \ {0} /\ MaxRotations \in Nat
    /\ Mishaps \subseteq AllMishaps /\ MaxMishaps \in Nat

VARIABLES
    env,         \* the environment variables
    vta,         \* the VTA: whether it is reachable, and the version of the keys
    store,       \* the one slot of the secret store
    process,     \* "down", "loaded" or "serving"
    config,      \* what it read
    http,        \* the HTTP task: "off", "serving" or "stopped"
    listener,    \* the DIDComm task
    supervisor,  \* who waits for them
    health,      \* RegistryHealth
    cancelled,   \* the shutdown token
    mishaps,     \* how many failures happened so far
    failed,      \* history: why the process did not start last
    newest,      \* history: the newest keys of the VTA it ever had
    kept,        \* history: whether keys were cached since it is configured as it is now
    unkept       \* history: whether the newest keys it had could not be cached

outside == <<env, vta, store>>
histories == <<failed, newest, kept, unkept>>
vars == <<outside, process, config, http, listener, supervisor, health, cancelled, mishaps, histories>>

-----------------------------------------------------------------------------
(* Configuration                                                           *)

Invalid == [valid |-> FALSE]

\* env_flag: a value that is neither true nor false is refused, not read as off.
env_flag(value, default) == IF value = "unset" THEN default ELSE value = "true"

\* Transports that are on: REST and DIDComm unless said otherwise.
TransportFlags(flags) ==
    {t \in Transports : env_flag(flags[t], t # "tsp")}

validate(flags) ==
    /\ \A t \in Transports : flags[t] # "yes"
    /\ TransportFlags(flags) # {}
    /\ "tsp" \in TransportFlags(flags) => "didcomm" \in TransportFlags(flags)

validate_public_url(url) == url # "cleartext"

\* (Mistaken: TSP is advertised with DIDComm.)
build_services_by_mediator(flags, url) ==
    {t \in {"didcomm", "tsp"} : "didcomm" \in flags}
    \union {t \in {"rest"} : t \in flags /\ url # "none"}

\* REST is advertised only with a URL to be found at.
build_services(flags, url) ==
    {t \in flags : t = "rest" => url # "none"}

\* A key bundle as the VTA's library caches it, or a profile as the setup tool
\* provisions it: one slot holds either, and neither parses as the other.
Empty == [shape |-> "empty"]
Profile == [shape |-> "profile"]
Bundle(version) == [shape |-> "bundle", version |-> version]

NoIdentity == [source |-> "none", version |-> 0]

Mishap(kind) ==
    /\ kind \in Mishaps
    /\ mishaps < MaxMishaps
    /\ mishaps' = mishaps + 1

\* The secret store answers this start of the process, or fails: it cannot be opened,
\* read or written.
SecretStore(answers) ==
    IF answers THEN env.storable /\ UNCHANGED mishaps
    ELSE /\ env.vta \/ env.backend
         /\ IF env.storable THEN Mishap("secretStore") ELSE UNCHANGED mishaps

\* Each of the following is what may come of a source; NoIdentity is an error.

\* startup(), external: the VTA's own bundle, or else the cached one.  What it does
\* when the bundle cannot be cached (gives up or goes on) is not in this repository.
startup(answers) ==
    IF vta.online
    THEN {[source |-> "vta", version |-> vta.version]}
         \union {e \in {NoIdentity} : ~answers}
    ELSE IF answers /\ store.shape = "bundle"
    THEN {[source |-> "vta", version |-> store.version]}
    ELSE {NoIdentity}

load_profile_from_secret_store(answers) ==
    IF answers /\ store.shape = "profile" THEN {[source |-> "store", version |-> 0]}
    ELSE {NoIdentity}

inline_profile ==
    IF env.inline THEN {[source |-> "inline", version |-> 0]} ELSE {NoIdentity}

\* (Mistaken: without its VTA the registry takes another identity.)
identity_or_another(answers) ==
    IF env.vta /\ NoIdentity \notin startup(answers) THEN startup(answers)
    ELSE IF env.backend /\ (store # Empty \/ ~answers)
    THEN load_profile_from_secret_store(answers)
    ELSE inline_profile

\* The first source that is configured and holds something.  It is not passed over when
\* that cannot be had or used.
identity(answers) ==
    IF env.vta THEN startup(answers)
    ELSE IF env.backend /\ (store # Empty \/ ~answers)
    THEN load_profile_from_secret_store(answers)
    ELSE inline_profile

\* DidcommConfig::load.  Without DIDComm there is neither an identity nor a DID
\* document.
Config(id) ==
    LET flags == TransportFlags(env.flags)
        didcomm == "didcomm" \in flags
    IN  [valid |-> TRUE, is_enabled |-> didcomm, flags |-> flags,
         identity |-> IF didcomm THEN id ELSE NoIdentity,
         did_document |-> IF ~didcomm THEN {}
                          ELSE IF env.override.set THEN env.override.kinds
                          ELSE build_services(flags, env.url)]

\* (Mistaken: the first bundle stays in the cache.)
CacheFirst(id, answers) ==
    /\ store' = IF id.source = "vta" /\ answers /\ store.shape # "bundle"
                THEN Bundle(id.version) ELSE store
    /\ newest' = IF id.version > newest THEN id.version ELSE newest
    /\ kept' = (kept \/ (id.source = "vta" /\ answers))
    /\ unkept' = IF id.source = "vta" /\ vta.online THEN ~answers ELSE unkept

\* VtaSecretCache: what the VTA gave is kept for the next start, if the store takes it.
Cache(id, answers) ==
    /\ store' = IF id.source = "vta" /\ answers THEN Bundle(id.version) ELSE store
    /\ newest' = IF id.version > newest THEN id.version ELSE newest
    /\ kept' = (kept \/ (id.source = "vta" /\ answers))
    /\ unkept' = IF id.source = "vta" /\ vta.online THEN ~answers ELSE unkept

-----------------------------------------------------------------------------
(* The operator and the VTA                                                *)

NotRunning == [at |-> "off"]

Init ==
    /\ env \in Environments
    /\ vta = [online |-> TRUE, version |-> 1]
    /\ store \in {Empty, Profile}
    /\ process = "down" /\ config = Invalid
    /\ http = "off" /\ listener = NotRunning /\ supervisor = "none"
    /\ health = [writes |-> "disabled", detail |-> "none"]
    /\ cancelled = FALSE /\ mishaps = 0
    /\ failed = "no" /\ newest = 0 /\ kept = FALSE /\ unkept = FALSE

inside == <<process, config, http, listener, supervisor, health, cancelled>>

\* (The secret store stays the same one.)
Redeploy ==
    /\ process = "down"
    /\ env' \in Environments
    /\ failed' = "no" /\ kept' = FALSE
    /\ UNCHANGED <<vta, store, inside, mishaps, newest, unkept>>

\* The setup tool writes a profile, over whatever is there.
Provision ==
    /\ process = "down"
    /\ store' = Profile
    /\ failed' = "no" /\ kept' = FALSE
    /\ UNCHANGED <<env, vta, inside, mishaps, newest, unkept>>

VtaConnectivity ==
    /\ \/ vta.online /\ Mishap("vta")
       \/ ~vta.online /\ UNCHANGED mishaps
    /\ vta' = [vta EXCEPT !.online = ~@]
    /\ UNCHANGED <<env, store, inside, histories>>

\* rotate_did on a running registry: the VTA has new keys, and nothing else.
rotate_did ==
    /\ process = "serving" /\ listener.at = "listening"
    /\ env.vta /\ vta.online /\ vta.version <= MaxRotations
    /\ vta' = [vta EXCEPT !.version = @ + 1]
    /\ UNCHANGED <<env, store, inside, mishaps, histories>>

-----------------------------------------------------------------------------
(* The process                                                             *)

\* The process is gone, with all its tasks.
Gone ==
    /\ process' = "down" /\ config' = Invalid
    /\ http' = "off" /\ listener' = NotRunning /\ supervisor' = "none"
    /\ cancelled' = FALSE
    /\ UNCHANGED health

NotStarted(reason) == failed' = reason /\ Gone

\* An identity was had: then its services are checked, and a failure comes too late
\* for the cache.
Identified(id) ==
    IF validate_public_url(env.url)
    THEN /\ config' = Config(id)
         /\ process' = "loaded" /\ failed' = "no"
         /\ UNCHANGED <<http, listener, supervisor, health, cancelled>>
    ELSE NotStarted("config")

\* TrustRegistryConfig::load.  A failure ends the process.
Load ==
    /\ process = "down"
    /\ UNCHANGED <<env, vta>>
    /\ IF ~env.complete \/ ~validate(env.flags)
       THEN NotStarted("config") /\ UNCHANGED <<store, mishaps, newest, kept, unkept>>
       ELSE IF "didcomm" \notin TransportFlags(env.flags)
       THEN /\ config' = Config(NoIdentity)
            /\ process' = "loaded" /\ failed' = "no"
            /\ UNCHANGED <<store, mishaps, newest, kept, unkept>>
            /\ UNCHANGED <<http, listener, supervisor, health, cancelled>>
       ELSE \E answers \in BOOLEAN :
              /\ SecretStore(answers)
              /\ \E id \in identity(answers) :
                   IF id = NoIdentity
                   THEN /\ NotStarted(IF answers THEN "identity" ELSE "secretStore")
                        /\ UNCHANGED <<store, newest, kept, unkept>>
                   ELSE Cache(id, answers) /\ Identified(id)

\* (Mistaken: writes are taken to be on.)
RegistryHealthOk(didcomm_enabled) == [writes |-> "ok", detail |-> "none"]

RegistryHealth(didcomm_enabled) ==
    [writes |-> IF didcomm_enabled THEN "ok" ELSE "disabled", detail |-> "none"]

\* The repository is opened and the address bound, then both tasks are started.
\* Embedded, nobody waits for them before the host shuts the server down.
serve ==
    /\ process = "loaded"
    /\ \/ /\ \E kind \in {"storage", "bind"} : Mishap(kind) /\ NotStarted(kind)
          /\ UNCHANGED <<newest, kept, unkept>>
       \/ /\ process' = "serving"
          /\ http' = "serving"
          /\ health' = RegistryHealth(config.is_enabled)
          /\ listener' = IF config.is_enabled THEN [at |-> "checking", attempt |-> 1] ELSE NotRunning
          /\ supervisor' = IF env.embedded THEN "none" ELSE "join"
          /\ UNCHANGED <<config, cancelled, mishaps, histories>>
    /\ UNCHANGED outside

\* The listener's task ended.  Of an error its starter keeps nothing
\* (start_didcomm_server); a panic is an error of its own.
Ended(result) == listener' = [at |-> "ended", result |-> result]

ListenerOnly ==
    /\ process = "serving"
    /\ UNCHANGED <<outside, process, config, http, supervisor, health, cancelled, histories>>

\* (Mistaken: one attempt too many.)
CheckOnceMore ==
    /\ listener.at = "checking"
    /\ \/ listener' = [at |-> "building"]
       \/ /\ env.web /\ "unreachable" \in Mishaps
          /\ IF listener.attempt <= MaxAttempts
             THEN listener' = [at |-> "checking", attempt |-> listener.attempt + 1]
             ELSE Ended("dropped")
    /\ UNCHANGED mishaps /\ ListenerOnly

\* check_did_document_availability: of a did:web, a bounded number of times.
Check ==
    /\ listener.at = "checking"
    /\ \/ listener' = [at |-> "building"]
       \/ /\ env.web /\ "unreachable" \in Mishaps
          /\ IF listener.attempt < MaxAttempts
             THEN listener' = [at |-> "checking", attempt |-> listener.attempt + 1]
             ELSE Ended("dropped")
    /\ UNCHANGED mishaps /\ ListenerOnly

\* build_listener, within ten seconds, and the TSP context if TSP is on.
Build ==
    /\ listener.at = "building"
    /\ \/ listener' = [at |-> "listening", tsp |-> "tsp" \in config.flags] /\ UNCHANGED mishaps
       \/ Ended("dropped") /\ Mishap("mediator")
    /\ ListenerOnly

\* The receive loop has no other way to end.
Panic ==
    /\ listener.at \in {"checking", "building", "listening"}
    /\ Ended("panicked") /\ Mishap("panic")
    /\ ListenerOnly

HttpEnds ==
    /\ http = "serving"
    /\ \/ cancelled /\ UNCHANGED mishaps
       \/ Mishap("http")
    /\ http' = "stopped"
    /\ UNCHANGED <<outside, process, config, listener, supervisor, health, cancelled, histories>>

\* (Mistaken: the listener's end ends join.)
JoinFirst ==
    /\ supervisor = "join" /\ listener.at = "ended"
    /\ supervisor' = "returned"
    /\ health' = [writes |-> "unavailable",
                  detail |-> IF listener.result = "dropped" THEN "exited cleanly" ELSE "failed"]
    /\ UNCHANGED <<outside, process, config, http, listener, cancelled, mishaps, histories>>

\* (Mistaken: the listener's end is only logged.)
JoinSilently ==
    /\ supervisor = "join" /\ listener.at = "ended"
    /\ supervisor' = "joinHttp"
    /\ UNCHANGED <<outside, process, config, http, listener, health, cancelled, mishaps, histories>>

\* join, when the listener ended: writes are unavailable, reads go on.
JoinListener ==
    /\ supervisor = "join" /\ listener.at = "ended"
    /\ supervisor' = "joinHttp"
    /\ health' = [writes |-> "unavailable",
                  detail |-> IF listener.result = "dropped" THEN "exited cleanly" ELSE "failed"]
    /\ UNCHANGED <<outside, process, config, http, listener, cancelled, mishaps, histories>>

JoinHttp ==
    /\ supervisor \in {"join", "joinHttp"} /\ http = "stopped"
    /\ supervisor' = "returned"
    /\ UNCHANGED <<outside, process, config, http, listener, health, cancelled, mishaps, histories>>

\* start() exits when join returns; a host goes on, and ends when it likes.
Exit ==
    /\ process = "serving" /\ supervisor = "returned"
    /\ Gone
    /\ UNCHANGED <<outside, mishaps, histories>>

\* ServerHandle::shutdown: the token, and join.
shutdown ==
    /\ process = "serving" /\ env.embedded /\ supervisor = "none"
    /\ cancelled' = TRUE /\ supervisor' = "join"
    /\ UNCHANGED <<outside, process, config, http, listener, health, mishaps, histories>>

Crash ==
    /\ process # "down" /\ Mishap("crash")
    /\ Gone
    /\ UNCHANGED <<outside, histories>>

Next ==
    \/ Redeploy \/ Provision \/ VtaConnectivity \/ rotate_did
    \/ Load \/ serve \/ Check \/ Build \/ Panic \/ HttpEnds
    \/ JoinListener \/ JoinHttp \/ Exit \/ shutdown \/ Crash

Spec == Init /\ [][Next]_vars

\* Whoever starts the process starts it again, and what is started runs on.
Fairness ==
    /\ WF_vars(Load) /\ WF_vars(serve)
    /\ WF_vars(Check) /\ WF_vars(Build)
    /\ WF_vars(JoinListener) /\ WF_vars(JoinHttp)
    /\ WF_vars(Exit /\ ~env.embedded)

FairSpec == Spec /\ Fairness

-----------------------------------------------------------------------------
(* Properties                                                              *)

Identities == [source : {"none", "vta", "store", "inline"}, version : 0..MaxRotations + 1]

Configurations ==
    [valid : {TRUE}, is_enabled : BOOLEAN, identity : Identities,
     flags : SUBSET Transports, did_document : SUBSET Transports]

Vtas == [online : BOOLEAN, version : 1..MaxRotations + 1]

Stores == {Empty, Profile} \union {Bundle(v) : v \in 1..MaxRotations + 1}

Listeners ==
    {NotRunning} \union [at : {"checking"}, attempt : 1..MaxAttempts]
    \union [at : {"building"}] \union [at : {"listening"}, tsp : BOOLEAN]
    \union [at : {"ended"}, result : {"dropped", "panicked"}]

Healths == [writes : {"ok", "disabled", "unavailable"}, detail : {"none", "exited cleanly", "failed"}]

TypeOK ==
    /\ env \in Environments /\ vta \in Vtas /\ store \in Stores
    /\ process \in {"down", "loaded", "serving"}
    /\ config = Invalid \/ config \in Configurations
    /\ http \in {"off", "serving", "stopped"}
    /\ listener \in Listeners
    /\ supervisor \in {"none", "join", "joinHttp", "returned"}
    /\ health \in Healths
    /\ cancelled \in BOOLEAN /\ kept \in BOOLEAN /\ unkept \in BOOLEAN
    /\ mishaps \in 0..MaxMishaps /\ newest \in 0..MaxRotations + 1
    /\ failed \in {"no", "config", "identity", "secretStore", "storage", "bind"}

\* /health never tells of a fault that is none, nor hides that DIDComm is off.
HealthAgrees ==
    process = "serving" =>
        /\ health.writes = "disabled" <=> ~config.is_enabled
        /\ health.writes = "unavailable" => listener.at = "ended"

\* Without a DID_DOCUMENT of the operator's own, a registry that listens answers
\* every transport its document advertises.
AdvertisedIsServed ==
    process = "serving" /\ ~env.override.set =>
        /\ "rest" \in config.did_document => http # "off" /\ env.url \in {"https", "loopback"}
        /\ "didcomm" \in config.did_document => listener.at # "off"
        /\ "tsp" \in config.did_document /\ listener.at = "listening" => listener.tsp

\* The identity is the one of the first source that is configured: a VTA out of
\* reach or a bundle of the wrong kind never puts another one in its place.
NoOtherIdentity ==
    process # "down" /\ config.is_enabled =>
        config.identity.source =
            IF env.vta THEN "vta"
            ELSE IF env.backend /\ store # Empty THEN "store" ELSE "inline"

\* A registry whose VTA is out of reach starts without it if its secret store answers
\* and once took the keys, whatever happened to later starts; and it runs with no older
\* keys than it had, unless the store would not take those.
SurvivesVtaOutage ==
    /\ env.vta /\ kept => failed # "identity"
    /\ process # "down" /\ config.is_enabled /\ env.vta =>
          config.identity.version = newest \/ unkept

\* vta.rs: the bundle is cached "so the Trust Registry survives the VTA being briefly
\* offline".
StartsWithoutItsVta ==
    [][Load /\ env.vta /\ ~vta.online /\ newest > 0 /\ store # Profile =>
         failed' \notin {"identity", "secretStore"}]_vars

\* The listener never takes HTTP with it: reads end with the process, by the
\* host's wish or by a failure of HTTP's own.
ReadsSurvive ==
    [][http = "serving" /\ http' # "serving" => cancelled \/ mishaps' > mishaps]_vars

\* In production DIDComm comes up or /health says that it did not: the checks are
\* bounded, and the end of the listener is seen.
WritesUpOrReported ==
    process = "serving" /\ config.is_enabled /\ ~env.embedded
        ~> \/ listener.at = "listening" \/ health.writes = "unavailable" \/ process = "down"

\* health.rs: "ok" means that the DIDComm listener is running.
OkMeansListening ==
    process = "serving" /\ health.writes = "ok" => listener.at = "listening"

\* The half of that which holds.  /health still says "ok" of a listener that ended only
\* while join has yet to notice, or where an embedding host has not called it, or
\* when HTTP has stopped as well and nobody can ask.
OkUntilJoined ==
    process = "serving" /\ health.writes = "ok" /\ listener.at = "ended" =>
        \/ supervisor = "join"
        \/ supervisor = "none" /\ env.embedded
        \/ http = "stopped"

\* server.rs: the listeners observe the shutdown token.
ShutdownStopsListener ==
    cancelled /\ supervisor = "returned" => listener.at \notin {"checking", "building", "listening"}

=============================================================================
