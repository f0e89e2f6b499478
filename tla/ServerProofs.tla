---------------------------- MODULE ServerProofs ----------------------------
(***************************************************************************)
(* Proofs about Server, for every set of environments, every number of     *)
(* attempts and rotations and whatever failures happen.                    *)
(***************************************************************************)
EXTENDS Server, TLAPS

\* What a process that is up has read is what its environment says.
ConfigInv ==
    process # "down" =>
        /\ config.flags = TransportFlags(env.flags)
        /\ config.is_enabled <=> "didcomm" \in config.flags
        /\ ~config.is_enabled => config.did_document = {}
        /\ config.is_enabled /\ ~env.override.set =>
             config.did_document = build_services(config.flags, env.url)
        /\ config.is_enabled => env.url # "cleartext"

\* The tasks exist while the process serves, the listener if DIDComm is on, and
\* join returns after HTTP only.
TasksInv ==
    /\ process # "serving" => http = "off"
    /\ process = "serving" =>
         /\ http # "off"
         /\ listener.at = "off" <=> ~config.is_enabled
         /\ listener.at = "listening" /\ "tsp" \in config.flags => listener.tsp
         /\ supervisor = "returned" => http = "stopped"

ServerInv ==
    /\ env \in Environments
    /\ process \in {"down", "loaded", "serving"}
    /\ ConfigInv /\ TasksInv /\ HealthAgrees /\ NoOtherIdentity

-----------------------------------------------------------------------------
\* What Load makes of the environment.
LEMMA ConfigFacts ==
    ASSUME NEW id
    PROVE  /\ Config(id).flags = TransportFlags(env.flags)
           /\ Config(id).is_enabled <=> "didcomm" \in TransportFlags(env.flags)
           /\ Config(id).is_enabled => Config(id).identity = id
           /\ ~Config(id).is_enabled => Config(id).did_document = {}
           /\ Config(id).is_enabled /\ ~env.override.set =>
                Config(id).did_document = build_services(TransportFlags(env.flags), env.url)
<1> DEFINE flags == TransportFlags(env.flags)
           didcomm == "didcomm" \in flags
           document == IF ~didcomm THEN {}
                       ELSE IF env.override.set THEN env.override.kinds
                       ELSE build_services(flags, env.url)
           who == IF didcomm THEN id ELSE NoIdentity
<1>1. Config(id) = [valid |-> TRUE, is_enabled |-> didcomm, flags |-> flags,
                    identity |-> who, did_document |-> document]
  BY DEF Config
<1>2. /\ Config(id).flags = flags
      /\ Config(id).identity = who
      /\ Config(id).did_document = document
  <2> HIDE DEF flags, didcomm, document, who
  <2> QED  BY <1>1
<1>3. Config(id).is_enabled <=> didcomm
  <2>1. Config(id).is_enabled = didcomm
    <3> HIDE DEF flags, document, who
    <3> QED  BY <1>1
  <2> QED  BY <2>1
<1> QED  BY <1>2, <1>3, Zenon

\* An identity comes from the first source that is configured, and using it leaves
\* that source the first.
LEMMA IdentityFacts ==
    ASSUME NEW answers \in BOOLEAN, NEW id \in identity(answers), id # NoIdentity,
           Cache(id, answers)
    PROVE  id.source = IF env.vta THEN "vta"
                       ELSE IF env.backend /\ store' # Empty THEN "store" ELSE "inline"
<1>1. CASE env.vta
  BY <1>1 DEF identity, startup
<1>2. CASE ~env.vta /\ env.backend /\ (store # Empty \/ ~answers)
  <2>1. id = [source |-> "store", version |-> 0] /\ store.shape = "profile"
    BY <1>2 DEF identity, load_profile_from_secret_store
  <2> QED  BY <1>2, <2>1 DEF Cache, Empty
<1>3. CASE ~env.vta /\ ~(env.backend /\ (store # Empty \/ ~answers))
  <2>1. id = [source |-> "inline", version |-> 0]
    BY <1>3 DEF identity, inline_profile
  <2> QED  BY <1>3, <2>1 DEF Cache
<1> QED  BY <1>1, <1>2, <1>3

\* What Load does: it fails, or starts without DIDComm, or with the identity it had.
NotLoaded ==
    /\ \E reason \in {"config", "secretStore"} : NotStarted(reason)
    /\ UNCHANGED <<store, newest, kept, unkept>>

NoneHad ==
    /\ NotStarted("identity")
    /\ NoIdentity \in identity(TRUE)
    /\ UNCHANGED <<store, newest, kept, unkept>>

LoadedWithoutDidcomm ==
    /\ "didcomm" \notin TransportFlags(env.flags)
    /\ config' = Config(NoIdentity)
    /\ process' = "loaded" /\ failed' = "no"
    /\ UNCHANGED <<store, newest, kept, unkept>>
    /\ UNCHANGED <<http, listener, supervisor, health, cancelled>>

IdentityHad(id, answers) ==
    /\ "didcomm" \in TransportFlags(env.flags)
    /\ id \in identity(answers) /\ id # NoIdentity
    /\ Cache(id, answers)
    /\ Identified(id)

LEMMA LoadSteps ==
    ASSUME Load
    PROVE  \/ NotLoaded \/ NoneHad \/ LoadedWithoutDidcomm
           \/ \E answers \in BOOLEAN : \E id \in identity(answers) : IdentityHad(id, answers)
BY DEF Load, NotLoaded, NoneHad, LoadedWithoutDidcomm, IdentityHad

LEMMA InitInv == Init => ServerInv
BY DEF Init, ServerInv, ConfigInv, TasksInv, HealthAgrees, NoOtherIdentity

\* A process that is gone leaves nothing to say.
LEMMA GoneInv ==
    ASSUME env' \in Environments, Gone
    PROVE  ServerInv'
BY DEF Gone, ServerInv, ConfigInv, TasksInv, HealthAgrees, NoOtherIdentity

LEMMA LoadInv ==
    ASSUME ServerInv, Load
    PROVE  ServerInv'
<1> USE DEF ServerInv
<1>0. env' = env /\ process = "down" /\ http = "off"
  BY DEF Load, TasksInv
<1>1. CASE \E reason : NotStarted(reason)
  BY <1>0, <1>1, GoneInv DEF NotStarted
<1>2. CASE LoadedWithoutDidcomm
  <2>1. ~config'.is_enabled
    BY <1>2, ConfigFacts DEF LoadedWithoutDidcomm
  <2>2. ConfigInv'
    BY <1>0, <1>2, <2>1, ConfigFacts DEF LoadedWithoutDidcomm, ConfigInv
  <2>3. TasksInv' /\ HealthAgrees' /\ NoOtherIdentity'
    BY <1>0, <1>2, <2>1 DEF LoadedWithoutDidcomm, TasksInv, HealthAgrees, NoOtherIdentity
  <2> QED  BY <1>0, <1>2, <2>2, <2>3 DEF LoadedWithoutDidcomm
<1>3. ASSUME NEW answers \in BOOLEAN, NEW id \in identity(answers), IdentityHad(id, answers),
             validate_public_url(env.url)
      PROVE  ServerInv'
  <2>1. /\ Cache(id, answers) /\ config' = Config(id)
        /\ process' = "loaded" /\ http' = http
        /\ env.url # "cleartext" /\ id # NoIdentity
    BY <1>3 DEF IdentityHad, Identified, validate_public_url
  <2>2. ConfigInv'
    BY <1>0, <2>1, ConfigFacts DEF ConfigInv
  <2>3. TasksInv' /\ HealthAgrees'
    BY <1>0, <2>1 DEF TasksInv, HealthAgrees
  <2>4. NoOtherIdentity'
    BY <1>0, <2>1, ConfigFacts, IdentityFacts DEF NoOtherIdentity
  <2> QED  BY <1>0, <2>1, <2>2, <2>3, <2>4
<1> QED  BY <1>1, <1>2, <1>3, LoadSteps DEF NotLoaded, NoneHad, IdentityHad, Identified

LEMMA ServeInv ==
    ASSUME ServerInv, serve
    PROVE  ServerInv'
<1> USE DEF ServerInv
<1>0. env' = env /\ store' = store /\ process = "loaded"
  BY DEF serve, outside
<1>1. CASE \E kind : NotStarted(kind)
  BY <1>0, <1>1, GoneInv DEF NotStarted
<1>2. CASE /\ process' = "serving" /\ http' = "serving" /\ config' = config
           /\ health' = RegistryHealth(config.is_enabled)
           /\ listener' = IF config.is_enabled THEN [at |-> "checking", attempt |-> 1] ELSE NotRunning
           /\ supervisor' = IF env.embedded THEN "none" ELSE "join"
  <2>1. ConfigInv' /\ NoOtherIdentity'
    BY <1>0, <1>2 DEF ConfigInv, NoOtherIdentity
  <2>2. TasksInv'
    BY <1>2 DEF TasksInv, NotRunning
  <2>3. HealthAgrees'
    BY <1>2 DEF HealthAgrees, RegistryHealth
  <2> QED  BY <1>0, <1>2, <2>1, <2>2, <2>3
<1> QED  BY <1>1, <1>2 DEF serve

\* The listener's own steps change nothing but the listener.
LEMMA ListenerInv ==
    ASSUME ServerInv, Check \/ Build \/ Panic
    PROVE  ServerInv'
<1> USE DEF ServerInv
<1>0. /\ env' = env /\ store' = store /\ process' = process /\ process = "serving"
      /\ config' = config /\ http' = http /\ supervisor' = supervisor /\ health' = health
  BY DEF Check, Build, Panic, ListenerOnly, outside
<1>1. listener.at \in {"checking", "building", "listening"}
  BY DEF Check, Build, Panic
<1>2. /\ listener'.at \in {"checking", "building", "listening", "ended"}
      /\ listener'.at = "listening" /\ "tsp" \in config.flags => listener'.tsp
  <2>1. CASE Check
    BY <2>1 DEF Check, Ended
  <2>2. CASE Build
    <3> DEFINE on == "tsp" \in config.flags
    <3>1. CASE listener' = [at |-> "listening", tsp |-> on]
      <4>1. listener'.at = "listening" /\ listener'.tsp = on
        <5> HIDE DEF on
        <5> QED  BY <3>1, Zenon
      <4> QED  BY <4>1, Zenon
    <3>2. CASE Ended("dropped")
      BY <3>2 DEF Ended
    <3> QED  BY <2>2, <3>1, <3>2 DEF Build
  <2>3. CASE Panic
    BY <2>3 DEF Panic, Ended
  <2> QED  BY <2>1, <2>2, <2>3
<1>3. ConfigInv' /\ NoOtherIdentity'
  BY <1>0 DEF ConfigInv, NoOtherIdentity
<1>4. TasksInv'
  BY <1>0, <1>1, <1>2 DEF TasksInv
<1>5. HealthAgrees'
  BY <1>0, <1>1 DEF HealthAgrees
<1> QED  BY <1>0, <1>3, <1>4, <1>5

LEMMA NextInv ==
    ASSUME ServerInv, [Next]_vars
    PROVE  ServerInv'
<1> USE DEF ServerInv
<1>1. CASE Redeploy \/ Provision
  BY <1>1 DEF Redeploy, Provision, inside, ConfigInv, TasksInv, HealthAgrees, NoOtherIdentity
<1>2. CASE VtaConnectivity \/ rotate_did
  BY <1>2 DEF VtaConnectivity, rotate_did, inside, ConfigInv, TasksInv, HealthAgrees, NoOtherIdentity
<1>3. CASE HttpEnds
  BY <1>3 DEF HttpEnds, outside, ConfigInv, TasksInv, HealthAgrees, NoOtherIdentity
<1>4. CASE JoinListener
  <2>1. health'.writes = "unavailable"
    BY <1>4 DEF JoinListener
  <2> QED
    BY <1>4, <2>1 DEF JoinListener, outside, ConfigInv, TasksInv, HealthAgrees, NoOtherIdentity
<1>5. CASE JoinHttp
  BY <1>5 DEF JoinHttp, outside, ConfigInv, TasksInv, HealthAgrees, NoOtherIdentity
<1>6. CASE shutdown
  BY <1>6 DEF shutdown, outside, ConfigInv, TasksInv, HealthAgrees, NoOtherIdentity
<1>7. CASE Exit \/ Crash
  BY <1>7, GoneInv DEF Exit, Crash, outside
<1>8. CASE UNCHANGED vars
  BY <1>8 DEF vars, outside, ConfigInv, TasksInv, HealthAgrees, NoOtherIdentity
<1> QED
  BY <1>1, <1>2, <1>3, <1>4, <1>5, <1>6, <1>7, <1>8, LoadInv, ServeInv, ListenerInv DEF Next

THEOREM ServerInvariant == Spec => []ServerInv
<1>1. ServerInv /\ [Next]_vars => ServerInv'
  BY NextInv
<1> QED  BY <1>1, InitInv, PTL DEF Spec

\* Failures are counted up.
MishapsCounted == mishaps \in Nat

LEMMA CountedInvariant == Spec => []MishapsCounted
<1>1. Init => MishapsCounted
  BY DEF Init, MishapsCounted
<1>2. MishapsCounted /\ [Next]_vars => MishapsCounted'
  <2> SUFFICES ASSUME mishaps \in Nat, [Next]_vars, mishaps' # mishaps
               PROVE  mishaps' \in Nat
    BY DEF MishapsCounted
  <2>1. \E kind : Mishap(kind)
    BY DEF Next, SecretStore, vars, Redeploy, Provision, VtaConnectivity, rotate_did, Load, serve, Check, Build,
           Panic, HttpEnds, JoinListener, JoinHttp, Exit, shutdown, Crash
  <2> QED  BY <2>1 DEF Mishap
<1> QED  BY <1>1, <1>2, PTL DEF Spec

-----------------------------------------------------------------------------
\* /health tells of faults that are there, and of DIDComm being off.
THEOREM HealthAgreesHolds == Spec => []HealthAgrees
<1>1. ServerInv => HealthAgrees
  BY DEF ServerInv
<1> QED  BY <1>1, ServerInvariant, PTL

\* No identity takes the place of another.
THEOREM NoOtherIdentityHolds == Spec => []NoOtherIdentity
<1>1. ServerInv => NoOtherIdentity
  BY DEF ServerInv
<1> QED  BY <1>1, ServerInvariant, PTL

\* What the DID document advertises is answered.
THEOREM AdvertisedIsServedHolds == Spec => []AdvertisedIsServed
<1>1. ServerInv => AdvertisedIsServed
  <2> SUFFICES ASSUME ServerInv, process = "serving", ~env.override.set
               PROVE  /\ "rest" \in config.did_document =>
                           http # "off" /\ env.url \in {"https", "loopback"}
                      /\ "didcomm" \in config.did_document => listener.at # "off"
                      /\ "tsp" \in config.did_document /\ listener.at = "listening" => listener.tsp
    BY DEF AdvertisedIsServed
  <2>1. CASE config.is_enabled
    <3>1. config.did_document = {t \in config.flags : t = "rest" => env.url # "none"}
      BY <2>1 DEF ServerInv, ConfigInv, build_services
    <3>2. env.url \in {"none", "https", "loopback", "cleartext"} /\ env.url # "cleartext"
      BY <2>1, ServerAssumption DEF ServerInv, ConfigInv, Environment
    <3> QED  BY <2>1, <3>1, <3>2 DEF ServerInv, TasksInv
  <2>2. CASE ~config.is_enabled
    BY <2>2 DEF ServerInv, ConfigInv
  <2> QED  BY <2>1, <2>2
<1> QED  BY <1>1, ServerInvariant, PTL

\* The end of the listener never ends HTTP.
THEOREM ReadsSurviveHolds == Spec => ReadsSurvive
<1>1. ServerInv /\ MishapsCounted /\ [Next]_vars =>
        [http = "serving" /\ http' # "serving" => cancelled \/ mishaps' > mishaps]_vars
  <2> SUFFICES ASSUME ServerInv, MishapsCounted, Next, http = "serving", http' # "serving"
               PROVE  cancelled \/ mishaps' > mishaps
    OBVIOUS
  <2>1. process = "serving" /\ supervisor # "returned"
    BY DEF ServerInv, TasksInv
  <2>2. CASE HttpEnds \/ Crash
    BY <2>2 DEF HttpEnds, Crash, Mishap, MishapsCounted
  <2>3. CASE Redeploy \/ Provision \/ Load \/ serve \/ Exit
    BY <2>1, <2>3 DEF Redeploy, Provision, Load, serve, Exit
  <2>4. CASE VtaConnectivity \/ rotate_did
    BY <2>4 DEF VtaConnectivity, rotate_did, inside
  <2>5. CASE Check \/ Build \/ Panic
    BY <2>5 DEF Check, Build, Panic, ListenerOnly
  <2>6. CASE JoinListener \/ JoinHttp \/ shutdown
    BY <2>6 DEF JoinListener, JoinHttp, shutdown
  <2> QED  BY <2>2, <2>3, <2>4, <2>5, <2>6 DEF Next
<1> QED  BY <1>1, ServerInvariant, CountedInvariant, PTL DEF Spec, ReadsSurvive

-----------------------------------------------------------------------------
(* Types                                                                   *)

\* What may be read of a process in each stage.
StagesTyped ==
    /\ process = "down" => config = Invalid
    /\ process # "down" => config \in Configurations
    /\ process # "serving" => listener = NotRunning /\ http = "off" /\ supervisor = "none"

LEMMA IdentityTyped ==
    ASSUME TypeOK, NEW answers \in BOOLEAN, NEW id \in identity(answers)
    PROVE  id \in Identities /\ (id.source = "vta" => id.version \in 1..MaxRotations + 1)
<1>1. CASE id = [source |-> "vta", version |-> vta.version]
  BY <1>1, ServerAssumption DEF TypeOK, Vtas, Identities
<1>2. CASE store.shape = "bundle" /\ id = [source |-> "vta", version |-> store.version]
  <2>1. store.version \in 1..MaxRotations + 1
    BY <1>2 DEF TypeOK, Stores, Empty, Profile, Bundle
  <2> QED  BY <1>2, <2>1, ServerAssumption DEF Identities
<1>3. CASE id \in {[source |-> "store", version |-> 0], [source |-> "inline", version |-> 0],
                   NoIdentity}
  BY <1>3, ServerAssumption DEF Identities, NoIdentity
<1> QED
  BY <1>1, <1>2, <1>3
     DEF identity, startup, load_profile_from_secret_store, inline_profile

LEMMA ConfigTyped ==
    ASSUME env \in Environments, NEW id \in Identities
    PROVE  Config(id) \in Configurations
<1> DEFINE flags == TransportFlags(env.flags)
           didcomm == "didcomm" \in flags
           document == IF ~didcomm THEN {}
                       ELSE IF env.override.set THEN env.override.kinds
                       ELSE build_services(flags, env.url)
           who == IF didcomm THEN id ELSE NoIdentity
<1>1. Config(id) = [valid |-> TRUE, is_enabled |-> didcomm, flags |-> flags,
                    identity |-> who, did_document |-> document]
  BY DEF Config
<1>2. flags \subseteq Transports
  BY DEF TransportFlags
<1>3. didcomm \in BOOLEAN
  OBVIOUS
<1>4. who \in Identities
  BY ServerAssumption DEF NoIdentity, Identities
<1>5. document \subseteq Transports
  <2>1. env.override.set => env.override.kinds \subseteq Transports
    <3>1. env.override \in {[set |-> FALSE]} \union [set : {TRUE}, kinds : SUBSET Transports]
      BY ServerAssumption DEF Environment
    <3>2. CASE env.override = [set |-> FALSE]
      BY <3>2
    <3>3. CASE env.override \in [set : {TRUE}, kinds : SUBSET Transports]
      BY <3>3
    <3> QED  BY <3>1, <3>2, <3>3
  <2>2. build_services(flags, env.url) \subseteq Transports
    BY <1>2 DEF build_services
  <2> QED  BY <2>1, <2>2
<1> HIDE DEF flags, didcomm, document, who
<1> QED  BY <1>1, <1>2, <1>3, <1>4, <1>5 DEF Configurations

TypedInv == TypeOK /\ StagesTyped

LEMMA MishapTyped ==
    ASSUME mishaps \in 0..MaxMishaps, NEW kind, Mishap(kind)
    PROVE  mishaps' \in 0..MaxMishaps
BY ServerAssumption DEF Mishap

LEMMA LoadTyped ==
    ASSUME TypedInv, Load
    PROVE  TypedInv'
<1>0. /\ env' = env /\ vta' = vta /\ process = "down"
      /\ http = "off" /\ listener = NotRunning /\ supervisor = "none"
  BY DEF Load, TypedInv, StagesTyped
<1>1. mishaps' \in 0..MaxMishaps
  <2>1. mishaps' = mishaps \/ Mishap("secretStore")
    BY DEF Load, SecretStore
  <2> QED  BY <2>1, MishapTyped DEF TypedInv, TypeOK
\* What is read is typed, if it is kept: the rest of the process is not there yet.
<1>2. ASSUME /\ store' \in Stores /\ newest' \in 0..MaxRotations + 1
             /\ kept' \in BOOLEAN /\ unkept' \in BOOLEAN,
             NEW id \in Identities,
             \/ \E reason \in {"config", "identity", "secretStore"} : NotStarted(reason)
             \/ /\ config' = Config(id)
                /\ process' = "loaded" /\ failed' = "no"
                /\ UNCHANGED <<http, listener, supervisor, health, cancelled>>
      PROVE  TypedInv'
  <2>1. CASE \E reason \in {"config", "identity", "secretStore"} : NotStarted(reason)
    BY <1>0, <1>1, <1>2, <2>1 DEF NotStarted, Gone, TypedInv, TypeOK, StagesTyped
  <2>2. CASE /\ config' = Config(id)
             /\ process' = "loaded" /\ failed' = "no"
             /\ UNCHANGED <<http, listener, supervisor, health, cancelled>>
    <3>1. config' \in Configurations
      BY <2>2, ConfigTyped DEF TypedInv, TypeOK
    <3> QED  BY <1>0, <1>1, <1>2, <2>2, <3>1 DEF TypedInv, TypeOK, StagesTyped
  <2> QED  BY <1>2, <2>1, <2>2
<1>3. NoIdentity \in Identities
  BY ServerAssumption DEF NoIdentity, Identities
<1>4. CASE NotLoaded \/ NoneHad \/ LoadedWithoutDidcomm
  BY <1>2, <1>3, <1>4 DEF NotLoaded, NoneHad, LoadedWithoutDidcomm, TypedInv, TypeOK
<1>5. ASSUME NEW answers \in BOOLEAN, NEW id \in identity(answers), IdentityHad(id, answers)
      PROVE  TypedInv'
  <2>1. id \in Identities /\ (id.source = "vta" => id.version \in 1..MaxRotations + 1)
    BY IdentityTyped DEF TypedInv
  <2>2. store' \in Stores
    BY <1>5, <2>1 DEF IdentityHad, Cache, TypedInv, TypeOK, Stores
  <2>3. newest' \in 0..MaxRotations + 1
    BY <1>5, <2>1, ServerAssumption DEF IdentityHad, Cache, Identities, TypedInv, TypeOK
  <2>4. kept' \in BOOLEAN /\ unkept' \in BOOLEAN
    BY <1>5 DEF IdentityHad, Cache, TypedInv, TypeOK
  <2> QED  BY <1>2, <1>5, <2>1, <2>2, <2>3, <2>4 DEF IdentityHad, Identified
<1> QED  BY <1>4, <1>5, LoadSteps

LEMMA ServeTyped ==
    ASSUME TypedInv, serve
    PROVE  TypedInv'
<1>0. /\ env' = env /\ vta' = vta /\ store' = store
      /\ process = "loaded" /\ config \in Configurations
  BY DEF serve, outside, TypedInv, StagesTyped
<1>1. CASE /\ \E kind \in {"storage", "bind"} : Mishap(kind) /\ NotStarted(kind)
           /\ UNCHANGED <<newest, kept, unkept>>
  <2>1. mishaps' \in 0..MaxMishaps
    BY <1>1, MishapTyped DEF TypedInv, TypeOK
  <2> QED
    BY <1>0, <1>1, <2>1 DEF NotStarted, Gone, TypedInv, TypeOK, StagesTyped
<1>2. CASE /\ process' = "serving"
           /\ http' = "serving"
           /\ health' = RegistryHealth(config.is_enabled)
           /\ listener' = IF config.is_enabled THEN [at |-> "checking", attempt |-> 1] ELSE NotRunning
           /\ supervisor' = IF env.embedded THEN "none" ELSE "join"
           /\ UNCHANGED <<config, cancelled, mishaps, histories>>
  <2>1. listener' \in Listeners
    BY <1>2, ServerAssumption DEF Listeners
  <2>2. health' \in Healths
    BY <1>2 DEF RegistryHealth, Healths
  <2>3. StagesTyped'
    BY <1>0, <1>2 DEF StagesTyped
  <2> QED
    BY <1>0, <1>2, <2>1, <2>2, <2>3 DEF TypedInv, TypeOK, histories
<1> QED  BY <1>1, <1>2 DEF serve

LEMMA ListenerTyped ==
    ASSUME TypedInv, Check \/ Build \/ Panic
    PROVE  TypedInv'
<1>1. ListenerOnly /\ process = "serving" /\ mishaps' \in 0..MaxMishaps
  BY MishapTyped DEF Check, Build, Panic, ListenerOnly, TypedInv, TypeOK
<1>2. listener' \in Listeners
  <2>1. CASE Check
    <3>1. listener.attempt \in 1..MaxAttempts
      BY <2>1 DEF Check, TypedInv, TypeOK, Listeners, NotRunning
    <3> QED  BY <2>1, <3>1, ServerAssumption DEF Check, Ended, Listeners
  <2>2. CASE Build
    <3> DEFINE on == "tsp" \in config.flags
    <3>1. on \in BOOLEAN
      OBVIOUS
    <3>2. CASE listener' = [at |-> "listening", tsp |-> on]
      <4> HIDE DEF on
      <4> QED  BY <3>1, <3>2 DEF Listeners
    <3>3. CASE Ended("dropped")
      BY <3>3 DEF Ended, Listeners
    <3> QED  BY <2>2, <3>2, <3>3 DEF Build
  <2>3. CASE Panic
    BY <2>3 DEF Panic, Ended, Listeners
  <2> QED  BY <2>1, <2>2, <2>3
<1>3. StagesTyped'
  BY <1>1 DEF ListenerOnly, StagesTyped, TypedInv
<1> QED
  BY <1>1, <1>2, <1>3 DEF ListenerOnly, TypedInv, TypeOK, outside, histories

LEMMA OutsideTyped ==
    ASSUME TypedInv, Redeploy \/ Provision \/ VtaConnectivity \/ rotate_did
    PROVE  TypedInv'
<1>1. CASE Redeploy
  BY <1>1 DEF Redeploy, inside, TypedInv, TypeOK, StagesTyped
<1>2. CASE Provision
  BY <1>2 DEF Provision, inside, TypedInv, TypeOK, StagesTyped, Stores
<1>3. CASE VtaConnectivity
  <2>1. mishaps' \in 0..MaxMishaps
    BY <1>3, MishapTyped DEF VtaConnectivity, TypedInv, TypeOK
  <2>2. vta' \in Vtas
    BY <1>3 DEF VtaConnectivity, TypedInv, TypeOK, Vtas
  <2> QED
    BY <1>3, <2>1, <2>2 DEF VtaConnectivity, inside, histories, TypedInv, TypeOK, StagesTyped
<1>4. CASE rotate_did
  <2>1. vta' \in Vtas
    BY <1>4, ServerAssumption DEF rotate_did, TypedInv, TypeOK, Vtas
  <2> QED
    BY <1>4, <2>1 DEF rotate_did, inside, histories, TypedInv, TypeOK, StagesTyped
<1> QED  BY <1>1, <1>2, <1>3, <1>4

\* The server's state has the types TypeOK gives it, whatever the bounds.
THEOREM ServerTypeCorrect == Spec => []TypeOK
<1>1. Init => TypedInv
  <2> SUFFICES ASSUME Init
               PROVE  TypedInv
    OBVIOUS
  <2>1. vta \in Vtas
    BY ServerAssumption DEF Init, Vtas
  <2>2. store \in Stores
    BY DEF Init, Stores
  <2>3. listener \in Listeners
    BY DEF Init, Listeners
  <2>4. health \in Healths
    BY DEF Init, Healths
  <2>5. mishaps \in 0..MaxMishaps /\ newest \in 0..MaxRotations + 1
    BY ServerAssumption DEF Init
  <2> QED  BY <2>1, <2>2, <2>3, <2>4, <2>5 DEF Init, TypedInv, TypeOK, StagesTyped
<1>2. TypedInv /\ [Next]_vars => TypedInv'
  <2> SUFFICES ASSUME TypedInv, [Next]_vars
               PROVE  TypedInv'
    OBVIOUS
  <2>1. CASE HttpEnds
    <3>1. mishaps' \in 0..MaxMishaps
      BY <2>1, MishapTyped DEF HttpEnds, TypedInv, TypeOK
    <3>2. process = "serving"
      BY <2>1 DEF HttpEnds, TypedInv, TypeOK, StagesTyped
    <3> QED
      BY <2>1, <3>1, <3>2 DEF HttpEnds, outside, histories, TypedInv, TypeOK, StagesTyped
  <2>2. CASE JoinListener
    <3>1. health' \in Healths
      BY <2>2 DEF JoinListener, Healths
    <3>2. process = "serving"
      BY <2>2 DEF JoinListener, TypedInv, TypeOK, StagesTyped
    <3> QED
      BY <2>2, <3>1, <3>2 DEF JoinListener, outside, histories, TypedInv, TypeOK, StagesTyped
  <2>3. CASE JoinHttp
    <3>1. process = "serving"
      BY <2>3 DEF JoinHttp, TypedInv, TypeOK, StagesTyped
    <3> QED
      BY <2>3, <3>1 DEF JoinHttp, outside, histories, TypedInv, TypeOK, StagesTyped
  <2>4. CASE shutdown
    BY <2>4 DEF shutdown, outside, histories, TypedInv, TypeOK, StagesTyped
  <2>5. CASE Exit
    <3>1. listener' \in Listeners
      BY <2>5 DEF Exit, Gone, Listeners
    <3> QED
      BY <2>5, <3>1 DEF Exit, Gone, outside, histories, TypedInv, TypeOK, StagesTyped
  <2>6. CASE Crash
    <3>1. mishaps' \in 0..MaxMishaps
      BY <2>6, MishapTyped DEF Crash, TypedInv, TypeOK
    <3>2. listener' \in Listeners
      BY <2>6 DEF Crash, Gone, Listeners
    <3> QED
      BY <2>6, <3>1, <3>2 DEF Crash, Gone, outside, histories, TypedInv, TypeOK, StagesTyped
  <2>7. CASE UNCHANGED vars
    BY <2>7 DEF vars, outside, histories, TypedInv, TypeOK, StagesTyped
  <2> QED
    BY <2>1, <2>2, <2>3, <2>4, <2>5, <2>6, <2>7, LoadTyped, ServeTyped, ListenerTyped, OutsideTyped
       DEF Next
<1>3. TypedInv => TypeOK
  BY DEF TypedInv
<1> QED  BY <1>1, <1>2, <1>3, PTL DEF Spec

-----------------------------------------------------------------------------
(* An outage of the VTA                                                    *)

\* What is kept of the VTA is the newest there was, unless that could not be kept, and
\* stays there while the deployment does; a running process has it, too.
OutageInv ==
    /\ newest <= vta.version
    /\ store.shape = "bundle" =>
          store.version <= newest /\ (store.version = newest \/ unkept)
    /\ kept => store.shape = "bundle"
    /\ failed = "identity" => ~(env.vta /\ kept)
    /\ process # "down" /\ config.is_enabled /\ env.vta =>
          config.identity.version = newest \/ unkept

LEMMA LoadOutage ==
    ASSUME TypeOK, OutageInv, Load
    PROVE  OutageInv'
<1>0. /\ env' = env /\ vta' = vta /\ process = "down"
      /\ vta.version \in Nat /\ newest \in Nat /\ unkept \in BOOLEAN
      /\ store.shape = "bundle" => store.version \in Nat
  BY ServerAssumption DEF Load, TypeOK, Vtas, Stores, Empty, Profile, Bundle
<1>1. CASE NotLoaded
  BY <1>0, <1>1 DEF NotLoaded, NotStarted, Gone, OutageInv
<1>2. CASE NoneHad
  <2>1. ~(env.vta /\ kept)
    BY <1>2 DEF NoneHad, identity, startup, NoIdentity, OutageInv
  <2> QED  BY <1>0, <1>2, <2>1 DEF NoneHad, NotStarted, Gone, OutageInv
<1>3. CASE LoadedWithoutDidcomm
  <2>1. ~config'.is_enabled
    BY <1>3, ConfigFacts DEF LoadedWithoutDidcomm
  <2> QED  BY <1>0, <1>3, <2>1 DEF LoadedWithoutDidcomm, OutageInv
<1>4. ASSUME NEW answers \in BOOLEAN, NEW id \in identity(answers), IdentityHad(id, answers)
      PROVE  OutageInv'
  <2>1. Cache(id, answers) /\ id # NoIdentity
    BY <1>4 DEF IdentityHad
  <2>2. failed' # "identity"
    BY <1>4 DEF IdentityHad, Identified, NotStarted
  <2>3. process' = "down" \/ (config'.is_enabled => config'.identity = id)
    BY <1>4, ConfigFacts DEF IdentityHad, Identified, NotStarted, Gone
  <2>4. CASE id.source # "vta"
    <3>1. id.version = 0 /\ ~env.vta
      BY <2>1, <2>4 DEF identity, startup, load_profile_from_secret_store, inline_profile
    <3>2. newest' = newest /\ store' = store /\ kept' = kept /\ unkept' = unkept
      BY <1>0, <2>1, <2>4, <3>1 DEF Cache, TypeOK
    <3> QED  BY <1>0, <2>2, <3>1, <3>2 DEF OutageInv
  <2>5. CASE id.source = "vta" /\ vta.online
    <3>1. id.version = vta.version /\ newest' = vta.version /\ unkept' = ~answers
      BY <1>0, <2>1, <2>5
         DEF identity, startup, load_profile_from_secret_store, inline_profile, Cache, OutageInv
    <3>2. CASE answers
      <4>1. store' = Bundle(newest')
        BY <2>1, <2>5, <3>1, <3>2 DEF Cache
      <4> QED  BY <1>0, <2>2, <2>3, <3>1, <4>1 DEF OutageInv, Bundle
    <3>3. CASE ~answers
      <4>1. store' = store /\ kept' = kept /\ unkept'
        BY <2>1, <2>5, <3>1, <3>3 DEF Cache, TypeOK
      <4> QED  BY <1>0, <2>2, <2>3, <3>1, <4>1 DEF OutageInv
    <3> QED  BY <3>2, <3>3
  <2>6. CASE id.source = "vta" /\ ~vta.online
    <3>1. answers /\ store.shape = "bundle" /\ id.version = store.version
      BY <2>1, <2>6 DEF identity, startup, load_profile_from_secret_store, inline_profile
    <3>2. store' = Bundle(id.version) /\ unkept' = unkept
      BY <2>1, <2>6, <3>1 DEF Cache
    <3>3. newest' = newest
      BY <1>0, <2>1, <3>1 DEF Cache, OutageInv
    <3>4. id.version <= newest
      BY <3>1 DEF OutageInv
    <3>5. id.version = newest' \/ unkept'
      BY <3>1, <3>2, <3>3 DEF OutageInv
    <3> QED  BY <1>0, <2>2, <2>3, <3>2, <3>3, <3>4, <3>5 DEF OutageInv, Bundle
  <2> QED  BY <2>4, <2>5, <2>6
<1> QED  BY <1>1, <1>2, <1>3, <1>4, LoadSteps

\* A registry whose keys were cached once starts without its VTA when the secret store
\* answers, after any number of starts, failed ones among them; and with the newest keys
\* it ever had, unless the store refused those.
THEOREM SurvivesVtaOutageHolds == Spec => []SurvivesVtaOutage
<1>1. Init => OutageInv
  BY DEF Init, OutageInv, Empty, Profile
<1>2. TypeOK /\ OutageInv /\ [Next]_vars => OutageInv'
  <2> SUFFICES ASSUME TypeOK, OutageInv, [Next]_vars
               PROVE  OutageInv'
    OBVIOUS
  <2>1. CASE Load
    BY <2>1, LoadOutage
  <2>2. CASE Redeploy \/ Provision
    BY <2>2 DEF Redeploy, Provision, inside, OutageInv, Profile
  <2>3. CASE VtaConnectivity
    <3>1. vta'.version = vta.version
      BY <2>3 DEF VtaConnectivity, TypeOK, Vtas
    <3> QED  BY <2>3, <3>1 DEF VtaConnectivity, inside, histories, OutageInv
  <2>4. CASE rotate_did
    <3>1. vta'.version = vta.version + 1 /\ vta.version \in Nat /\ newest \in Nat
      BY <2>4, ServerAssumption DEF rotate_did, TypeOK, Vtas
    <3> QED  BY <2>4, <3>1 DEF rotate_did, inside, histories, OutageInv
  <2>5. CASE serve
    <3>1. CASE /\ \E kind \in {"storage", "bind"} : NotStarted(kind)
               /\ UNCHANGED <<newest, kept, unkept>>
      BY <2>5, <3>1 DEF serve, outside, NotStarted, Gone, OutageInv
    <3>2. CASE process' = "serving" /\ UNCHANGED <<config, histories>>
      BY <2>5, <3>2 DEF serve, outside, histories, OutageInv
    <3> QED  BY <2>5, <3>1, <3>2 DEF serve
  <2>6. CASE Check \/ Build \/ Panic
    BY <2>6 DEF Check, Build, Panic, ListenerOnly, outside, histories, OutageInv
  <2>7. CASE HttpEnds \/ JoinListener \/ JoinHttp \/ shutdown
    <3>1. UNCHANGED <<env, vta, store, process, config, failed, newest, kept, unkept>>
      BY <2>7 DEF HttpEnds, JoinListener, JoinHttp, shutdown, outside, histories
    <3> QED  BY <3>1 DEF OutageInv
  <2>8. CASE Exit \/ Crash
    BY <2>8 DEF Exit, Crash, Gone, outside, histories, OutageInv
  <2>9. CASE UNCHANGED vars
    BY <2>9 DEF vars, outside, histories, OutageInv
  <2> QED  BY <2>1, <2>2, <2>3, <2>4, <2>5, <2>6, <2>7, <2>8, <2>9 DEF Next
<1>3. TypeOK /\ OutageInv => SurvivesVtaOutage
  BY DEF OutageInv, SurvivesVtaOutage
<1> QED  BY <1>1, <1>2, <1>3, ServerTypeCorrect, PTL DEF Spec

\* What the supervisor has noticed: join goes on without the listener once it has told
\* /health of its end, and only a host leaves the tasks alone.
JoinInv ==
    process = "serving" =>
        /\ supervisor \in {"none", "join", "joinHttp", "returned"}
        /\ supervisor = "none" => env.embedded
        /\ supervisor = "joinHttp" => health.writes = "unavailable"

\* The end of a listener is told by /health for as long as anybody can ask, from
\* the moment join notices it (server.rs, join and health.rs).
THEOREM OkUntilJoinedHolds == Spec => []OkUntilJoined
<1>1. Init => JoinInv
  BY DEF Init, JoinInv
<1>2. JoinInv /\ [Next]_vars => JoinInv'
  <2> SUFFICES ASSUME JoinInv, [Next]_vars
               PROVE  JoinInv'
    OBVIOUS
  <2>1. CASE Redeploy \/ Provision \/ Load \/ Exit \/ Crash
    <3>1. process' # "serving"
      BY <2>1 DEF Redeploy, Provision, Load, Identified, Exit, Crash, Gone, NotStarted, inside
    <3> QED  BY <3>1 DEF JoinInv
  <2>2. CASE VtaConnectivity \/ rotate_did \/ Check \/ Build \/ Panic \/ HttpEnds
    BY <2>2 DEF VtaConnectivity, rotate_did, Check, Build, Panic, HttpEnds, ListenerOnly,
                outside, inside, JoinInv
  <2>3. CASE serve
    BY <2>3 DEF serve, NotStarted, Gone, outside, JoinInv
  <2>4. CASE JoinListener \/ JoinHttp \/ shutdown
    <3>1. CASE JoinListener
      <4>1. supervisor' = "joinHttp" /\ health'.writes = "unavailable"
        BY <3>1 DEF JoinListener
      <4> QED  BY <4>1 DEF JoinInv
    <3>2. CASE JoinHttp
      BY <3>2 DEF JoinHttp, outside, JoinInv
    <3>3. CASE shutdown
      BY <3>3 DEF shutdown, outside, JoinInv
    <3> QED  BY <2>4, <3>1, <3>2, <3>3
  <2>5. CASE UNCHANGED vars
    BY <2>5 DEF vars, outside, JoinInv
  <2> QED  BY <2>1, <2>2, <2>3, <2>4, <2>5 DEF Next
<1>3. ServerInv /\ JoinInv => OkUntilJoined
  BY DEF ServerInv, TasksInv, JoinInv, OkUntilJoined
<1> QED  BY <1>1, <1>2, <1>3, ServerInvariant, PTL DEF Spec

=============================================================================
