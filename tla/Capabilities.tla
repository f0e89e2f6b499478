---------------------------- MODULE Capabilities -----------------------------
(***************************************************************************)
(* Runtime composition of capabilities: CapabilitySet.  Enable and disable *)
(* requests change the enablement state in memory, save it to the state    *)
(* file and swap the two live dispatchers (the admin surface of DIDComm    *)
(* and TSP, then the query surface of HTTP), all under the write lock of   *)
(* the state.  A save may fail, and the process may stop between any two   *)
(* of these steps; a restart composes both dispatchers from the file.      *)
(*                                                                         *)
(* A dispatcher is what it adds to its base: for each capability, the      *)
(* configuration its handlers were registered with, or Off.                *)
(***************************************************************************)
EXTENDS Integers

CONSTANTS
    Available,   \* capabilities compiled into the host
    Unknown,     \* a capability that is not
    Configs,     \* configurations that pass validation
    BadConfig,   \* one that does not
    Off,         \* not enabled, not served
    Admins,      \* enable and disable requests handled at the same time
    Mishaps,     \* the kinds of failure considered
    MaxMishaps   \* bound: how many failures happen in a behavior

ASSUME CapabilitiesAssumption ==
    /\ Unknown \notin Available
    /\ BadConfig \notin Configs \union {Off}
    /\ Off \notin Configs
    /\ Mishaps \subseteq {"crash", "saveFault"}
    /\ MaxMishaps \in Nat

VARIABLES
    disk,              \* the state file
    state,             \* memory: each capability's enablement state
    dispatcher,        \* the admin surface
    query_dispatcher,  \* the query surface
    requests,          \* the requests being handled
    mishaps,           \* how many failures happened
    promised           \* history: what the last answer said of each capability

surfaces == <<dispatcher, query_dispatcher>>
capabilityVars == <<disk, state, surfaces, requests, mishaps, promised>>

\* A disabled capability keeps its entry, with enabled |-> FALSE.
Entry == [enabled : BOOLEAN, config : Configs \union {Off}]
Never == [enabled |-> FALSE, config |-> Off]
States == [Available -> Entry]
Surface == [Available -> Configs \union {Off}]

enabled(s, slug) == s[slug].enabled

compose(s) == [slug \in Available |-> IF enabled(s, slug) THEN s[slug].config ELSE Off]

Answers == {"none", "ok", "unknown_capability", "config_invalid",
            "already_enabled", "not_enabled", "storage"}

Request == [pc : {"idle", "validated", "changed", "saved", "swapped", "answered"},
            slug : Available \union {Unknown}, config : Configs \union {BadConfig, Off},
            answer : Answers]
NoRequest == [pc |-> "idle", slug |-> Unknown, config |-> Off, answer |-> "none"]

\* A request to enable has a configuration; one to disable has none.
Enables(a) == requests[a].config # Off

\* (Mistaken: rebuild runs after the lock was dropped.)
LockedUntilSaved == \E a \in Admins : requests[a].pc = "changed"

\* A request holds the write lock of the state.
Locked == \E a \in Admins : requests[a].pc \in {"changed", "saved", "swapped"}

\* What nobody can tell: a request is being handled, or failed.
Open == "open"

CapabilitiesInit ==
    /\ disk = [slug \in Available |-> Never]
    /\ state = disk
    /\ dispatcher = compose(disk)
    /\ query_dispatcher = compose(disk)
    /\ requests = [a \in Admins |-> NoRequest]
    /\ mishaps = 0
    /\ promised = [slug \in Available |-> Off]

Mishap(kind) ==
    /\ kind \in Mishaps
    /\ mishaps < MaxMishaps
    /\ mishaps' = mishaps + 1

-----------------------------------------------------------------------------
(* Requests                                                                *)

Answered(a, answer) ==
    requests' = [requests EXCEPT ![a].pc = "answered", ![a].answer = answer]

\* Validation, before the lock.
Ask(a, slug, config) ==
    /\ requests[a].pc = "idle"
    /\ requests' = [requests EXCEPT ![a] =
          [pc |-> IF config # Off /\ (slug = Unknown \/ config = BadConfig)
                  THEN "answered" ELSE "validated",
           slug |-> slug, config |-> config,
           answer |-> IF config # Off /\ slug = Unknown THEN "unknown_capability"
                      ELSE IF config = BadConfig THEN "config_invalid" ELSE "none"]]
    /\ UNCHANGED <<disk, state, surfaces, mishaps, promised>>

\* Under the lock: refuse what is no transition.
Refuse(a) ==
    LET slug == requests[a].slug
        on == slug \in Available /\ enabled(state, slug)
    IN
    /\ requests[a].pc = "validated" /\ ~Locked
    /\ Enables(a) <=> on
    /\ Answered(a, IF on THEN "already_enabled" ELSE "not_enabled")
    /\ UNCHANGED <<disk, state, surfaces, mishaps, promised>>

\* Under the lock: change the state in memory.
Change(a) ==
    LET slug == requests[a].slug IN
    /\ requests[a].pc = "validated" /\ ~Locked
    /\ slug \in Available
    /\ Enables(a) <=> ~enabled(state, slug)
    /\ state' = [state EXCEPT ![slug] =
          IF Enables(a) THEN [enabled |-> TRUE, config |-> requests[a].config]
          ELSE [@ EXCEPT !.enabled = FALSE]]
    /\ promised' = [promised EXCEPT ![slug] = Open]
    /\ requests' = [requests EXCEPT ![a].pc = "changed"]
    /\ UNCHANGED <<disk, surfaces, mishaps>>

\* (Mistaken: the file is patched with this request's entry only.)
SaveEntry(a) ==
    /\ requests[a].pc = "changed"
    /\ \/ /\ disk' = [disk EXCEPT ![requests[a].slug] = state[requests[a].slug]]
          /\ requests' = [requests EXCEPT ![a].pc = "saved"]
          /\ UNCHANGED mishaps
       \/ /\ Mishap("saveFault")
          /\ Answered(a, "storage")
          /\ UNCHANGED disk
    /\ UNCHANGED <<state, surfaces, promised>>

\* store.save replaces the file by one with the whole state, or fails and leaves
\* it as it was; the error returns at once.
Save(a) ==
    /\ requests[a].pc = "changed"
    /\ \/ /\ disk' = state
          /\ requests' = [requests EXCEPT ![a].pc = "saved"]
          /\ UNCHANGED mishaps
       \/ /\ Mishap("saveFault")
          /\ Answered(a, "storage")
          /\ UNCHANGED disk
    /\ UNCHANGED <<state, surfaces, promised>>

\* (Mistaken: the new handlers are added to the old dispatcher.)
SwapAdminAdding(a) ==
    /\ requests[a].pc = "saved"
    /\ dispatcher' = [slug \in Available |->
          IF enabled(state, slug) THEN state[slug].config ELSE dispatcher[slug]]
    /\ requests' = [requests EXCEPT ![a].pc = "swapped"]
    /\ UNCHANGED <<disk, state, query_dispatcher, mishaps, promised>>

\* rebuild, one dispatcher after the other.
SwapAdmin(a) ==
    /\ requests[a].pc = "saved"
    /\ dispatcher' = compose(state)
    /\ requests' = [requests EXCEPT ![a].pc = "swapped"]
    /\ UNCHANGED <<disk, state, query_dispatcher, mishaps, promised>>

SwapQuery(a) ==
    /\ requests[a].pc = "swapped"
    /\ query_dispatcher' = compose(state)
    /\ Answered(a, "ok")
    /\ promised' = [promised EXCEPT ![requests[a].slug] = requests[a].config]
    /\ UNCHANGED <<disk, state, dispatcher, mishaps>>

Forget(a) ==
    /\ requests[a].pc = "answered"
    /\ requests' = [requests EXCEPT ![a] = NoRequest]
    /\ UNCHANGED <<disk, state, surfaces, mishaps, promised>>

\* The process stops and starts again: CapabilitySet::new.
Restart ==
    /\ Mishap("crash")
    /\ state' = disk
    /\ dispatcher' = compose(disk)
    /\ query_dispatcher' = compose(disk)
    /\ requests' = [a \in Admins |-> NoRequest]
    /\ UNCHANGED <<disk, promised>>

CapabilitiesNext ==
    \/ \E a \in Admins :
         \/ \E slug \in Available \union {Unknown}, config \in Configs \union {BadConfig, Off} :
               Ask(a, slug, config)
         \/ Refuse(a) \/ Change(a) \/ Save(a) \/ SwapAdmin(a) \/ SwapQuery(a) \/ Forget(a)
    \/ Restart

CapabilitiesSpec == CapabilitiesInit /\ [][CapabilitiesNext]_capabilityVars

-----------------------------------------------------------------------------
(* Properties                                                              *)

\* Besides the types: the lock has one holder.
CapabilitiesTypeOK ==
    /\ disk \in States
    /\ state \in States
    /\ dispatcher \in Surface
    /\ query_dispatcher \in Surface
    /\ requests \in [Admins -> Request]
    /\ mishaps \in 0..MaxMishaps
    /\ promised \in [Available -> Configs \union {Off, Open}]
    /\ \A a, b \in Admins :
         /\ requests[a].pc \in {"changed", "saved", "swapped"}
         /\ requests[b].pc \in {"changed", "saved", "swapped"}
         => a = b

\* Both surfaces serve what the state file says, but for the moments in which a
\* request that has saved its change swaps them.  So a restart changes nothing
\* about what is served, or completes that request: also after saves that failed
\* and left memory and file apart.
ServedIsPersisted ==
    (\A a \in Admins : requests[a].pc \notin {"saved", "swapped"}) =>
        dispatcher = compose(disk) /\ query_dispatcher = compose(disk)

\* What the last answer about a capability said (enabled with this
\* configuration, or disabled) stays true on both surfaces and in the file until
\* the next transition of that same capability begins: whatever happens to
\* requests about other capabilities, to saves, or to the process.
AnswersHold ==
    \A slug \in Available : promised[slug] # Open =>
        /\ dispatcher[slug] = promised[slug]
        /\ query_dispatcher[slug] = promised[slug]
        /\ compose(disk)[slug] = promised[slug]

\* A restart serves what was served before it, or completes the one request that had
\* saved its change: on both surfaces alike, though the process may stop between any
\* two steps of a request and after any saves that failed.
RestartServesTheSame ==
    [][Restart =>
         \/ UNCHANGED surfaces
         \/ \E a \in Admins :
              /\ requests[a].pc \in {"saved", "swapped"}
              /\ dispatcher' = compose(state) /\ query_dispatcher' = compose(state)
              /\ dispatcher'[requests[a].slug] = requests[a].config]_capabilityVars

-----------------------------------------------------------------------------
(* The inductive invariant behind ServedIsPersisted and AnswersHold        *)

Transitions == {"changed", "saved", "swapped"}

\* A request that holds the lock has changed the state as it was asked to, and
\* has come as far as its pc says.
HolderInv ==
    \A a \in Admins : requests[a].pc \in Transitions =>
        /\ requests[a].slug \in Available
        /\ requests[a].config \in Configs \union {Off}
        /\ compose(state)[requests[a].slug] = requests[a].config
        /\ promised[requests[a].slug] = Open
        /\ requests[a].pc \in {"saved", "swapped"} => disk = state
        /\ requests[a].pc = "swapped" => dispatcher = compose(state)

\* A request that passed validation asks for something that can be done.
ValidatedInv ==
    \A a \in Admins : requests[a].pc = "validated" =>
        requests[a].config \in Configs \union {Off}

\* A failed save leaves memory and file apart on capabilities whose status is open
\* only: the next save may write the memory.
MemoryInv ==
    \A slug \in Available : promised[slug] # Open => compose(state)[slug] = promised[slug]

CapabilitiesInv ==
    /\ CapabilitiesTypeOK
    /\ ValidatedInv
    /\ HolderInv
    /\ MemoryInv
    /\ ServedIsPersisted
    /\ AnswersHold

=============================================================================
