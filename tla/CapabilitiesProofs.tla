------------------------- MODULE CapabilitiesProofs --------------------------
(***************************************************************************)
(* Theorems about Capabilities, for every set of capabilities,             *)
(* configurations and concurrent requests, any failures and any number of  *)
(* them.                                                                   *)
(***************************************************************************)
EXTENDS Capabilities, TLAPS

\* What the state composes to is a surface.
LEMMA ComposeType ==
    ASSUME NEW s \in States
    PROVE  compose(s) \in Surface
  BY DEF compose, enabled, States, Entry, Surface

\* Enabling a capability with a configuration, or disabling it, changes what the
\* state composes to at that capability, and nowhere else.
LEMMA ComposeChange ==
    ASSUME state \in States, NEW slug \in Available, NEW e \in Entry,
           state' = [state EXCEPT ![slug] = e]
    PROVE  /\ state' \in States
           /\ compose(state')[slug] = IF e.enabled THEN e.config ELSE Off
           /\ \A other \in Available \ {slug} : compose(state')[other] = compose(state)[other]
  BY DEF compose, enabled, States

\* The program starts in a state of the invariant: nothing is enabled anywhere.
LEMMA InitInv == CapabilitiesInit => CapabilitiesInv
  <1> SUFFICES ASSUME CapabilitiesInit
               PROVE  CapabilitiesInv
    OBVIOUS
  <1> USE CapabilitiesAssumption
  <1>1. disk \in States /\ state \in States /\ disk = state
    BY DEF CapabilitiesInit, States, Entry, Never
  <1>2. \A a \in Admins : requests[a] = NoRequest
    BY DEF CapabilitiesInit
  <1>3. NoRequest \in Request /\ NoRequest.pc = "idle"
    BY DEF NoRequest, Request, Answers
  <1>4. CapabilitiesTypeOK
    <2>1. dispatcher \in Surface /\ query_dispatcher \in Surface
      BY <1>1, ComposeType DEF CapabilitiesInit
    <2>2. requests \in [Admins -> Request]
      BY <1>3 DEF CapabilitiesInit
    <2> QED
      BY <1>1, <1>2, <1>3, <2>1, <2>2 DEF CapabilitiesTypeOK, CapabilitiesInit
  <1>5. ValidatedInv /\ HolderInv
    BY <1>2, <1>3 DEF ValidatedInv, HolderInv, Transitions
  <1>6. \A slug \in Available : compose(disk)[slug] = Off
    BY DEF CapabilitiesInit, compose, enabled, Never
  <1>7. MemoryInv /\ ServedIsPersisted /\ AnswersHold
    BY <1>1, <1>6 DEF MemoryInv, ServedIsPersisted, AnswersHold, CapabilitiesInit
  <1> QED
    BY <1>4, <1>5, <1>7 DEF CapabilitiesInv

\* Every step of every request, and a restart at any moment, keeps the invariant.
LEMMA NextInv == CapabilitiesInv /\ [CapabilitiesNext]_capabilityVars => CapabilitiesInv'
  <1> SUFFICES ASSUME CapabilitiesInv, [CapabilitiesNext]_capabilityVars
               PROVE  CapabilitiesInv'
    OBVIOUS
  <1> USE CapabilitiesAssumption
  <1> USE DEF CapabilitiesInv
  \* A request that answers or is forgotten without touching anything else.
  <1>1. ASSUME NEW a \in Admins, NEW r \in Request, r.pc \notin Transitions,
               r.pc = "validated" => r.config \in Configs \union {Off},
               requests[a].pc \notin Transitions,
               requests' = [requests EXCEPT ![a] = r],
               UNCHANGED <<disk, state, surfaces, mishaps, promised>>
        PROVE  CapabilitiesInv'
    <2>1. /\ requests'[a] = r
          /\ \A b \in Admins \ {a} : requests'[b] = requests[b]
      BY <1>1 DEF CapabilitiesTypeOK
    <2>2. \A b \in Admins : requests'[b].pc \in Transitions => b # a /\ requests'[b] = requests[b]
      BY <1>1, <2>1
    <2>3. CapabilitiesTypeOK'
      BY <1>1, <2>2 DEF CapabilitiesTypeOK, surfaces, Transitions
    <2>4. ValidatedInv'
      BY <1>1, <2>1 DEF ValidatedInv
    <2>5. HolderInv'
      BY <1>1, <2>2 DEF HolderInv, surfaces
    <2>6. MemoryInv' /\ AnswersHold'
      BY <1>1 DEF MemoryInv, AnswersHold, surfaces
    <2>7. ServedIsPersisted'
      BY <1>1, <2>1 DEF ServedIsPersisted, surfaces, Transitions
    <2> QED
      BY <2>3, <2>4, <2>5, <2>6, <2>7
  <1>2. ASSUME NEW a \in Admins,
               NEW slug \in Available \union {Unknown},
               NEW config \in Configs \union {BadConfig, Off}, Ask(a, slug, config)
        PROVE  CapabilitiesInv'
    <2> DEFINE r == [pc |-> IF config # Off /\ (slug = Unknown \/ config = BadConfig)
                            THEN "answered" ELSE "validated",
                     slug |-> slug, config |-> config,
                     answer |-> IF config # Off /\ slug = Unknown THEN "unknown_capability"
                                ELSE IF config = BadConfig THEN "config_invalid" ELSE "none"]
    <2>1. r \in Request /\ r.pc \in {"answered", "validated"}
      BY DEF Request, Answers
    <2>2. r.pc = "validated" => r.config \in Configs \union {Off}
      OBVIOUS
    <2>3. requests[a].pc = "idle" /\ requests' = [requests EXCEPT ![a] = r]
      BY <1>2 DEF Ask
    <2>4. UNCHANGED <<disk, state, surfaces, mishaps, promised>>
      BY <1>2 DEF Ask
    <2> HIDE DEF r
    <2> QED
      BY <1>1, <2>1, <2>2, <2>3, <2>4 DEF Transitions
  <1>3. ASSUME NEW a \in Admins, Refuse(a)
        PROVE  CapabilitiesInv'
    <2>1. PICK answer \in {"already_enabled", "not_enabled"} : Answered(a, answer)
      BY <1>3 DEF Refuse
    <2> DEFINE r == [requests[a] EXCEPT !.pc = "answered", !.answer = answer]
    <2>2. r \in Request /\ r.pc = "answered"
      BY DEF Request, Answers, CapabilitiesTypeOK
    <2>3. requests[a].pc = "validated" /\ UNCHANGED <<disk, state, surfaces, mishaps, promised>>
      BY <1>3 DEF Refuse
    <2>4. requests' = [requests EXCEPT ![a] = r]
      BY <2>1 DEF Answered, CapabilitiesTypeOK
    <2> HIDE DEF r
    <2> QED
      BY <1>1, <2>2, <2>3, <2>4 DEF Transitions
  <1>4. ASSUME NEW a \in Admins, Forget(a)
        PROVE  CapabilitiesInv'
    <2>1. NoRequest \in Request /\ NoRequest.pc = "idle"
      BY DEF NoRequest, Request, Answers
    <2> QED
      BY <1>1, <1>4, <2>1 DEF Forget, Transitions
  <1>5. ASSUME NEW a \in Admins, Change(a)
        PROVE  CapabilitiesInv'
    <2> DEFINE slug == requests[a].slug
               e == IF Enables(a) THEN [enabled |-> TRUE, config |-> requests[a].config]
                    ELSE [state[slug] EXCEPT !.enabled = FALSE]
    <2>1. /\ requests[a].pc = "validated" /\ slug \in Available
          /\ requests[a].config \in Configs \union {Off}
          /\ requests[a] \in Request
      BY <1>5 DEF Change, ValidatedInv, CapabilitiesTypeOK
    <2>2. \A b \in Admins : requests[b].pc \notin Transitions
      BY <1>5 DEF Change, Locked, Transitions
    <2>3. e \in Entry /\ (IF e.enabled THEN e.config ELSE Off) = requests[a].config
      <3>1. CASE Enables(a)
        BY <2>1, <3>1 DEF Entry, Enables
      <3>2. CASE ~Enables(a)
        <4>1. state[slug] \in Entry
          BY <2>1 DEF CapabilitiesTypeOK, States
        <4>2. requests[a].config = Off /\ e = [state[slug] EXCEPT !.enabled = FALSE]
          BY <3>2 DEF Enables
        <4>3. e \in Entry /\ ~e.enabled
          BY <4>1, <4>2 DEF Entry
        <4> QED
          BY <4>2, <4>3
      <3> QED
        BY <3>1, <3>2
    <2>4. state' = [state EXCEPT ![slug] = e]
      BY <1>5 DEF Change
    <2>5. /\ promised' = [promised EXCEPT ![slug] = Open]
          /\ requests' = [requests EXCEPT ![a].pc = "changed"]
          /\ UNCHANGED <<disk, surfaces, mishaps>>
      BY <1>5 DEF Change
    <2> HIDE DEF e
    <2>6. /\ state' \in States
          /\ compose(state')[slug] = requests[a].config
          /\ \A other \in Available \ {slug} : compose(state')[other] = compose(state)[other]
      <3>1. state \in States
        BY DEF CapabilitiesTypeOK
      <3>2. /\ state' \in States
            /\ compose(state')[slug] = IF e.enabled THEN e.config ELSE Off
            /\ \A other \in Available \ {slug} : compose(state')[other] = compose(state)[other]
        BY <2>1, <2>3, <2>4, <3>1, ComposeChange
      <3> QED
        BY <2>3, <3>2
    <2>7. /\ requests' \in [Admins -> Request]
          /\ requests'[a].pc = "changed" /\ requests'[a].slug = slug
          /\ requests'[a].config = requests[a].config
          /\ \A b \in Admins \ {a} : requests'[b] = requests[b]
      BY <2>1, <2>5 DEF CapabilitiesTypeOK, Request
    <2>8. /\ promised' \in [Available -> Configs \union {Off, Open}]
          /\ promised'[slug] = Open
          /\ \A other \in Available \ {slug} : promised'[other] = promised[other]
      BY <2>1, <2>5 DEF CapabilitiesTypeOK
    <2>9. CapabilitiesTypeOK'
      BY <2>2, <2>5, <2>6, <2>7, <2>8 DEF CapabilitiesTypeOK, surfaces, Transitions
    <2>10. ValidatedInv'
      BY <2>7 DEF ValidatedInv
    <2>11. HolderInv'
      BY <2>1, <2>2, <2>6, <2>7, <2>8 DEF HolderInv, Transitions
    <2>12. MemoryInv'
      BY <2>1, <2>6, <2>8 DEF MemoryInv
    <2>13. AnswersHold'
      BY <2>1, <2>5, <2>8 DEF AnswersHold, surfaces
    <2>14. ServedIsPersisted'
      BY <2>2, <2>5 DEF ServedIsPersisted, surfaces, Transitions
    <2> QED
      BY <2>9, <2>10, <2>11, <2>12, <2>13, <2>14
  <1>6. ASSUME NEW a \in Admins, Save(a)
        PROVE  CapabilitiesInv'
    <2>1. /\ requests[a].pc = "changed" /\ UNCHANGED <<state, surfaces, promised>>
          /\ requests[a] \in Request
      BY <1>6 DEF Save, CapabilitiesTypeOK
    <2>2. \A b \in Admins \ {a} : requests[b].pc \notin Transitions
      BY <2>1 DEF CapabilitiesTypeOK, Transitions
    <2>3. dispatcher = compose(disk) /\ query_dispatcher = compose(disk)
      BY <2>1, <2>2 DEF ServedIsPersisted, Transitions
    <2>4. CASE /\ disk' = state
               /\ requests' = [requests EXCEPT ![a].pc = "saved"]
               /\ UNCHANGED mishaps
      <3>1. /\ requests' \in [Admins -> Request]
            /\ requests'[a].pc = "saved"
            /\ requests'[a].slug = requests[a].slug
            /\ requests'[a].config = requests[a].config
            /\ \A b \in Admins \ {a} : requests'[b] = requests[b]
        BY <2>1, <2>4 DEF CapabilitiesTypeOK, Request
      <3>2. CapabilitiesTypeOK'
        BY <2>1, <2>2, <2>4, <3>1 DEF CapabilitiesTypeOK, surfaces, Transitions
      <3>3. ValidatedInv' /\ HolderInv'
        BY <2>1, <2>2, <2>4, <3>1 DEF ValidatedInv, HolderInv, Transitions, surfaces
      <3>4. MemoryInv' /\ AnswersHold'
        BY <2>1, <2>4 DEF MemoryInv, AnswersHold, surfaces
      <3>5. ServedIsPersisted'
        BY <3>1 DEF ServedIsPersisted
      <3> QED
        BY <3>2, <3>3, <3>4, <3>5
    <2>5. CASE Mishap("saveFault") /\ Answered(a, "storage") /\ UNCHANGED disk
      <3>1. /\ requests' \in [Admins -> Request]
            /\ requests'[a].pc = "answered"
            /\ \A b \in Admins \ {a} : requests'[b] = requests[b]
        BY <2>1, <2>5 DEF CapabilitiesTypeOK, Answered, Request, Answers
      <3>2. mishaps' \in 0..MaxMishaps
        BY <2>5 DEF CapabilitiesTypeOK, Mishap
      <3>3. CapabilitiesTypeOK'
        BY <2>1, <2>2, <2>5, <3>1, <3>2 DEF CapabilitiesTypeOK, surfaces, Transitions
      <3>4. ValidatedInv' /\ HolderInv'
        BY <2>1, <2>2, <2>5, <3>1 DEF ValidatedInv, HolderInv, Transitions, surfaces
      <3>5. MemoryInv' /\ AnswersHold'
        BY <2>1, <2>5 DEF MemoryInv, AnswersHold, surfaces
      <3>6. ServedIsPersisted'
        BY <2>1, <2>3, <2>5 DEF ServedIsPersisted, surfaces
      <3> QED
        BY <3>3, <3>4, <3>5, <3>6
    <2> QED
      BY <1>6, <2>4, <2>5 DEF Save
  <1>7. ASSUME NEW a \in Admins, SwapAdmin(a)
        PROVE  CapabilitiesInv'
    <2>1. /\ requests[a].pc = "saved" /\ requests[a] \in Request
          /\ dispatcher' = compose(state)
          /\ requests' = [requests EXCEPT ![a].pc = "swapped"]
          /\ UNCHANGED <<disk, state, query_dispatcher, mishaps, promised>>
      BY <1>7 DEF SwapAdmin, CapabilitiesTypeOK
    <2>2. \A b \in Admins \ {a} : requests[b].pc \notin Transitions
      BY <2>1 DEF CapabilitiesTypeOK, Transitions
    <2>3. /\ requests' \in [Admins -> Request]
          /\ requests'[a].pc = "swapped"
          /\ requests'[a].slug = requests[a].slug
          /\ requests'[a].config = requests[a].config
          /\ \A b \in Admins \ {a} : requests'[b] = requests[b]
      BY <2>1 DEF CapabilitiesTypeOK, Request
    <2>4. CapabilitiesTypeOK'
      <3>1. dispatcher' \in Surface
        BY <2>1, ComposeType DEF CapabilitiesTypeOK
      <3> QED
        BY <2>1, <2>2, <2>3, <3>1 DEF CapabilitiesTypeOK, Transitions
    <2>5. ValidatedInv' /\ HolderInv'
      BY <2>1, <2>2, <2>3 DEF ValidatedInv, HolderInv, Transitions
    <2>6. MemoryInv' /\ AnswersHold'
      BY <2>1 DEF MemoryInv, AnswersHold
    <2>7. ServedIsPersisted'
      BY <2>3 DEF ServedIsPersisted
    <2> QED
      BY <2>4, <2>5, <2>6, <2>7
  <1>8. ASSUME NEW a \in Admins, SwapQuery(a)
        PROVE  CapabilitiesInv'
    <2>1. /\ requests[a].pc = "swapped" /\ requests[a] \in Request
          /\ query_dispatcher' = compose(state)
          /\ Answered(a, "ok")
          /\ promised' = [promised EXCEPT ![requests[a].slug] = requests[a].config]
          /\ UNCHANGED <<disk, state, dispatcher, mishaps>>
      BY <1>8 DEF SwapQuery, CapabilitiesTypeOK
    <2>2. \A b \in Admins \ {a} : requests[b].pc \notin Transitions
      BY <2>1 DEF CapabilitiesTypeOK, Transitions
    <2>3. /\ requests[a].slug \in Available
          /\ requests[a].config \in Configs \union {Off}
          /\ compose(state)[requests[a].slug] = requests[a].config
          /\ disk = state /\ dispatcher = compose(state)
      BY <2>1 DEF HolderInv, Transitions
    <2>4. /\ requests' \in [Admins -> Request]
          /\ requests'[a].pc = "answered"
          /\ \A b \in Admins \ {a} : requests'[b] = requests[b]
      BY <2>1 DEF CapabilitiesTypeOK, Answered, Request, Answers
    <2>5. /\ promised' \in [Available -> Configs \union {Off, Open}]
          /\ \A slug \in Available : promised'[slug] # Open => compose(state)[slug] = promised'[slug]
      BY <2>1, <2>3 DEF CapabilitiesTypeOK, MemoryInv
    <2>6. CapabilitiesTypeOK'
      <3>1. query_dispatcher' \in Surface
        BY <2>1, ComposeType DEF CapabilitiesTypeOK
      <3> QED
        BY <2>1, <2>2, <2>4, <2>5, <3>1 DEF CapabilitiesTypeOK, Transitions
    <2>7. ValidatedInv' /\ HolderInv'
      BY <2>2, <2>4 DEF ValidatedInv, HolderInv, Transitions
    <2>8. MemoryInv' /\ AnswersHold' /\ ServedIsPersisted'
      BY <2>1, <2>3, <2>5 DEF MemoryInv, AnswersHold, ServedIsPersisted
    <2> QED
      BY <2>6, <2>7, <2>8
  <1>9. ASSUME Restart
        PROVE  CapabilitiesInv'
    <2>1. /\ state' = disk /\ disk' = disk
          /\ dispatcher' = compose(disk) /\ query_dispatcher' = compose(disk)
          /\ requests' = [a \in Admins |-> NoRequest] /\ promised' = promised
          /\ mishaps' \in 0..MaxMishaps
      BY <1>9 DEF Restart, Mishap, CapabilitiesTypeOK
    <2>2. NoRequest \in Request /\ NoRequest.pc = "idle"
      BY DEF NoRequest, Request, Answers
    <2>3. compose(disk) \in Surface
      BY ComposeType DEF CapabilitiesTypeOK
    <2>4. CapabilitiesTypeOK'
      BY <2>1, <2>2, <2>3 DEF CapabilitiesTypeOK
    <2>5. ValidatedInv' /\ HolderInv'
      BY <2>1, <2>2 DEF ValidatedInv, HolderInv, Transitions
    <2>6. MemoryInv' /\ AnswersHold' /\ ServedIsPersisted'
      BY <2>1 DEF MemoryInv, AnswersHold, ServedIsPersisted
    <2> QED
      BY <2>4, <2>5, <2>6
  <1>10. CASE UNCHANGED capabilityVars
    BY <1>10 DEF capabilityVars, surfaces, CapabilitiesTypeOK, ValidatedInv, HolderInv,
                 MemoryInv, ServedIsPersisted, AnswersHold
  <1> QED
    BY <1>2, <1>3, <1>4, <1>5, <1>6, <1>7, <1>8, <1>9, <1>10 DEF CapabilitiesNext

\* The invariant of the capability set.
THEOREM CapabilitiesInvariant == CapabilitiesSpec => []CapabilitiesInv
  <1>1. CapabilitiesInit => CapabilitiesInv
    BY InitInv
  <1>2. CapabilitiesInv /\ [CapabilitiesNext]_capabilityVars => CapabilitiesInv'
    BY NextInv
  <1> QED
    BY <1>1, <1>2, PTL DEF CapabilitiesSpec

\* The state is well formed, and the write lock of CapabilitySet has one holder.
THEOREM CapabilitiesTypeCorrect == CapabilitiesSpec => []CapabilitiesTypeOK
  <1>1. CapabilitiesInv => CapabilitiesTypeOK
    BY DEF CapabilitiesInv
  <1> QED
    BY <1>1, CapabilitiesInvariant, PTL

\* Both surfaces serve what the state file says, but while a request that has
\* saved its change swaps them.
THEOREM ServedIsPersistedHolds == CapabilitiesSpec => []ServedIsPersisted
  <1>1. CapabilitiesInv => ServedIsPersisted
    BY DEF CapabilitiesInv
  <1> QED
    BY <1>1, CapabilitiesInvariant, PTL

\* What enable and disable answered stays true, on both surfaces and in the file,
\* until the next transition of the same capability begins.
THEOREM AnswersHoldHolds == CapabilitiesSpec => []AnswersHold
  <1>1. CapabilitiesInv => AnswersHold
    BY DEF CapabilitiesInv
  <1> QED
    BY <1>1, CapabilitiesInvariant, PTL

\* CapabilitySet::new composes from the file what was served before the process
\* stopped, or what the request was about to serve that it interrupted.
THEOREM RestartServesTheSameHolds == CapabilitiesSpec => RestartServesTheSame
  <1>1. CapabilitiesInv /\ [CapabilitiesNext]_capabilityVars =>
          [Restart =>
             \/ UNCHANGED surfaces
             \/ \E a \in Admins :
                  /\ requests[a].pc \in {"saved", "swapped"}
                  /\ dispatcher' = compose(state) /\ query_dispatcher' = compose(state)
                  /\ dispatcher'[requests[a].slug] = requests[a].config]_capabilityVars
    <2> SUFFICES ASSUME CapabilitiesInv, Restart
                 PROVE  \/ UNCHANGED surfaces
                        \/ \E a \in Admins :
                             /\ requests[a].pc \in {"saved", "swapped"}
                             /\ dispatcher' = compose(state) /\ query_dispatcher' = compose(state)
                             /\ dispatcher'[requests[a].slug] = requests[a].config
      OBVIOUS
    <2>1. dispatcher' = compose(disk) /\ query_dispatcher' = compose(disk)
      BY DEF Restart
    <2>2. CASE \A a \in Admins : requests[a].pc \notin {"saved", "swapped"}
      BY <2>1, <2>2 DEF CapabilitiesInv, ServedIsPersisted, surfaces
    <2>3. ASSUME NEW a \in Admins, requests[a].pc \in {"saved", "swapped"}
          PROVE  disk = state /\ compose(state)[requests[a].slug] = requests[a].config
      BY <2>3 DEF CapabilitiesInv, HolderInv, Transitions
    <2> QED
      BY <2>1, <2>2, <2>3
  <1> QED
    BY <1>1, CapabilitiesInvariant, PTL DEF CapabilitiesSpec, RestartServesTheSame

=============================================================================
