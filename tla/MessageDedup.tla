---------------------------- MODULE MessageDedup ----------------------------
(***************************************************************************)
(* Write-path deduplication of Trust Tasks: the claim store                *)
(* (MemoryMessageIdStore) and dispatch_idempotent, the procedure both the  *)
(* DIDComm and the TSP handler tasks run for a write.                      *)
(*                                                                         *)
(* Copies of one document share a key (message_key: issuer and id).  They  *)
(* are redelivered by the mediator and handled by tasks that run           *)
(* concurrently: each claims the key, runs the handler, and resolves the   *)
(* claim with complete or release.  Between those three steps everything   *)
(* else may happen: other copies, the passage of time, a panic of the      *)
(* handler, a restart of the process (which forgets the in-memory store).  *)
(*                                                                         *)
(* Timestamps are kept as ages (now - claimed_at, now - completed_at),     *)
(* capped where no guard can tell them apart any more.                     *)
(***************************************************************************)
EXTENDS Integers, FiniteSets

CONSTANTS
    Keys,              \* message keys: one document each
    NoKey,             \* the key of a task that handles nothing
    Tasks,             \* handler tasks that may run at the same time
    TTL,               \* how long a completed outcome is replayed
    InFlightTTL,       \* how long an unresolved claim is honoured
    HandlerBound,      \* a handler resolves its claim at this age at the latest
    RedeliveryWindow,  \* redeliveries stop this long after an outcome is stored
    Mishaps,           \* the kinds of failure considered
    MaxMishaps         \* bound: how many failures happen in a behavior

AllMishaps == {"panic", "transient", "restart", "storeFault"}

ASSUME WindowsAssumption ==
    /\ TTL \in Nat \ {0}
    /\ InFlightTTL \in Nat \ {0}
    /\ HandlerBound \in Nat
    /\ RedeliveryWindow \in Nat \ {0}

ASSUME NoKeyAssumption == NoKey \notin Keys

ASSUME MishapsAssumption ==
    /\ Mishaps \subseteq AllMishaps
    /\ MaxMishaps \in Nat

VARIABLES
    entries,   \* the store: what it holds for each key
    tasks,     \* the handler tasks
    recorded,  \* -1, or the age of the key's stored outcome (drives redelivery)
    mishaps,   \* how many failures happened so far
    runs,      \* history: how often the handler of a key was started
    applied,   \* history: how often a key's mutation reached the repository
    lapses,    \* history: how many of those applications left no trace in the store
    answers    \* history: the definitive outcomes sent to the sender of a key

vars == <<entries, tasks, recorded, mishaps, runs, applied, lapses, answers>>

-----------------------------------------------------------------------------
(* Data                                                                    *)

Kinds == {"ok", "rejected", "retryable"}
Outcome == [kind : Kinds, run : Nat]
NoOutcome == [kind |-> "none", run |-> 0]

\* The age past which no entry changes any more.
AgeCap == IF TTL > InFlightTTL THEN TTL ELSE InFlightTTL

Entry == [status : {"absent", "inFlight", "done"},
          age : 0..AgeCap,
          outcome : Outcome \union {NoOutcome}]

Absent   == [status |-> "absent",   age |-> 0, outcome |-> NoOutcome]
InFlight == [status |-> "inFlight", age |-> 0, outcome |-> NoOutcome]
Done(o)  == [status |-> "done",     age |-> 0, outcome |-> o]

\* An owner acquired the claim; a task that is not the owner found the store
\* unavailable and went ahead without one.
Task == [pc : {"idle", "running", "returned"}, key : Keys \union {NoKey},
         owner : BOOLEAN, mutated : BOOLEAN, age : 0..HandlerBound,
         outcome : Outcome \union {NoOutcome}]

Idle == [pc |-> "idle", key |-> NoKey, owner |-> FALSE,
         mutated |-> FALSE, age |-> 0, outcome |-> NoOutcome]

Busy(t) == tasks[t].pc # "idle"
Owns(t, k) == Busy(t) /\ tasks[t].owner /\ tasks[t].key = k

Older(age, cap) == IF age < cap THEN age + 1 ELSE cap

\* (Mistaken: one window for claims and outcomes alike.)
ExpiredOneWindow(e) == e.status # "absent" /\ e.age >= InFlightTTL

\* (Mistaken: a claim nobody resolves is kept for ever.)
ExpiredDoneOnly(e) == e.status = "done" /\ e.age >= TTL

Expired(e) ==
    \/ e.status = "done"     /\ e.age >= TTL
    \/ e.status = "inFlight" /\ e.age >= InFlightTTL

\* Every claim first drops what has expired, for all keys.
evict_expired == [k \in Keys |-> IF Expired(entries[k]) THEN Absent ELSE entries[k]]

is_cacheable(o) == o.kind # "retryable"

-----------------------------------------------------------------------------
(* Steps                                                                   *)

Init ==
    /\ entries = [k \in Keys |-> Absent]
    /\ tasks = [t \in Tasks |-> Idle]
    /\ recorded = [k \in Keys |-> -1]
    /\ mishaps = 0
    /\ runs = [k \in Keys |-> 0]
    /\ applied = [k \in Keys |-> 0]
    /\ lapses = [k \in Keys |-> 0]
    /\ answers = [k \in Keys |-> {}]

Mishap(kind) ==
    /\ kind \in Mishaps
    /\ mishaps < MaxMishaps
    /\ mishaps' = mishaps + 1

\* The mediator (or the sender's retry) delivers a copy of k to an idle task.
Delivered(t, k) == ~Busy(t) /\ recorded[k] < RedeliveryWindow

Start(t, k, owner) ==
    /\ runs' = [runs EXCEPT ![k] = @ + 1]
    /\ tasks' = [tasks EXCEPT ![t] =
                   [pc |-> "running", key |-> k, owner |-> owner, mutated |-> FALSE,
                    age |-> 0, outcome |-> NoOutcome]]

\* (Mistaken: a bare "was this handled?" test instead of a claim.)
AcquireUnlessDone(t, k) ==
    /\ Delivered(t, k)
    /\ evict_expired[k].status # "done"
    /\ entries' = [evict_expired EXCEPT ![k] = InFlight]
    /\ Start(t, k, TRUE)
    /\ UNCHANGED <<recorded, mishaps, applied, lapses, answers>>

\* claim -> Acquired: this copy will run the handler.
Acquire(t, k) ==
    /\ Delivered(t, k)
    /\ evict_expired[k].status = "absent"
    /\ entries' = [evict_expired EXCEPT ![k] = InFlight]
    /\ Start(t, k, TRUE)
    /\ UNCHANGED <<recorded, mishaps, applied, lapses, answers>>

\* claim -> InFlight: the copy is told to retry.
TurnAway(t, k) ==
    /\ Delivered(t, k)
    /\ evict_expired[k].status = "inFlight"
    /\ entries' = evict_expired
    /\ UNCHANGED <<tasks, recorded, mishaps, runs, applied, lapses, answers>>

\* claim -> Replay: the copy is answered with the stored outcome.
Replay(t, k) ==
    /\ Delivered(t, k)
    /\ evict_expired[k].status = "done"
    /\ entries' = evict_expired
    /\ answers' = [answers EXCEPT ![k] = @ \union {evict_expired[k].outcome}]
    /\ UNCHANGED <<tasks, recorded, mishaps, runs, applied, lapses>>

\* claim -> Err: the store is unavailable and the copy is dispatched anyway.
FailOpen(t, k) ==
    /\ Delivered(t, k)
    /\ Mishap("storeFault")
    /\ Start(t, k, FALSE)
    /\ UNCHANGED <<entries, recorded, applied, lapses, answers>>

\* The handler's repository call takes effect.  Nothing in the store can
\* account for a mutation made without a claim.
Mutate(t) ==
    LET k == tasks[t].key IN
    /\ tasks[t].pc = "running" /\ ~tasks[t].mutated
    /\ tasks' = [tasks EXCEPT ![t].mutated = TRUE]
    /\ applied' = [applied EXCEPT ![k] = @ + 1]
    /\ lapses' = IF tasks[t].owner THEN lapses ELSE [lapses EXCEPT ![k] = @ + 1]
    /\ UNCHANGED <<entries, recorded, mishaps, runs, answers>>

\* handle_document returns: success once the mutation took effect, a
\* deterministic rejection if there was none, a retryable rejection either way
\* (a backend can fail after it applied the write).
Return(t) ==
    /\ tasks[t].pc = "running"
    /\ \E kind \in Kinds :
         /\ tasks' = [tasks EXCEPT ![t].pc = "returned",
                        ![t].outcome = [kind |-> kind, run |-> runs[tasks[t].key]]]
         /\ \/ /\ kind = IF tasks[t].mutated THEN "ok" ELSE "rejected"
               /\ UNCHANGED mishaps
            \/ kind = "retryable" /\ Mishap("transient")
    /\ UNCHANGED <<entries, recorded, runs, applied, lapses, answers>>

\* (Mistaken: expires_at is the time of completion.)
complete_without_ttl(k, o) ==
    /\ entries' = [entries EXCEPT ![k] = [Done(o) EXCEPT !.age = TTL]]
    /\ recorded' = [recorded EXCEPT ![k] = IF @ = -1 THEN 0 ELSE @]

\* (Mistaken: the claim is marked done, the response is not stored with it.)
complete_without_outcome(k, o) ==
    /\ entries' = [entries EXCEPT ![k].status = "done", ![k].age = 0]
    /\ recorded' = [recorded EXCEPT ![k] = IF @ = -1 THEN 0 ELSE @]

\* complete(key, outcome): unconditional, whoever holds the claim by now.
complete(k, o) ==
    /\ entries' = [entries EXCEPT ![k] = Done(o)]
    /\ recorded' = [recorded EXCEPT ![k] = IF @ = -1 THEN 0 ELSE @]

\* release(key): unconditional, too.
release(k) ==
    /\ entries' = [entries EXCEPT ![k] = Absent]
    /\ UNCHANGED recorded

\* The rest of dispatch_idempotent: resolve the claim, if there is one, and
\* answer the sender.  A store fault is logged and leaves the claim unresolved.
Resolve(t) ==
    LET k == tasks[t].key
        o == tasks[t].outcome
        mutated == tasks[t].owner /\ tasks[t].mutated
    IN
    /\ tasks[t].pc = "returned"
    /\ tasks' = [tasks EXCEPT ![t] = Idle]
    /\ answers' = IF is_cacheable(o) THEN [answers EXCEPT ![k] = @ \union {o}] ELSE answers
    /\ \/ ~tasks[t].owner /\ UNCHANGED <<entries, recorded, mishaps, lapses>>
       \/ /\ tasks[t].owner
          /\ IF is_cacheable(o) THEN complete(k, o) ELSE release(k)
          /\ lapses' = IF mutated /\ ~is_cacheable(o) THEN [lapses EXCEPT ![k] = @ + 1] ELSE lapses
          /\ UNCHANGED mishaps
       \/ /\ tasks[t].owner
          /\ Mishap("storeFault")
          /\ lapses' = IF mutated THEN [lapses EXCEPT ![k] = @ + 1] ELSE lapses
          /\ UNCHANGED <<entries, recorded>>
    /\ UNCHANGED <<runs, applied>>

-----------------------------------------------------------------------------
(* Failures of the process, and time                                       *)

\* The handler task panics (or is dropped): its claim stays in the store.
Panic(t) ==
    LET k == tasks[t].key IN
    /\ Busy(t)
    /\ Mishap("panic")
    /\ tasks' = [tasks EXCEPT ![t] = Idle]
    /\ lapses' = IF tasks[t].owner /\ tasks[t].mutated
                 THEN [lapses EXCEPT ![k] = @ + 1] ELSE lapses
    /\ UNCHANGED <<entries, recorded, runs, applied, answers>>

\* The process restarts: tasks and store are gone, and copies whose
\* redelivery window is still open may come back.
Restart ==
    /\ Mishap("restart")
    /\ entries' = [k \in Keys |-> Absent]
    /\ tasks' = [t \in Tasks |-> Idle]
    /\ recorded' = [k \in Keys |-> IF recorded[k] = RedeliveryWindow THEN recorded[k] ELSE -1]
    /\ lapses' = [k \in Keys |->
                    IF \/ \E t \in Tasks : Owns(t, k) /\ tasks[t].mutated
                       \/ /\ recorded[k] < RedeliveryWindow
                          /\ entries[k].status = "done" /\ entries[k].outcome.kind = "ok"
                    THEN lapses[k] + 1 ELSE lapses[k]]
    /\ UNCHANGED <<runs, applied, answers>>

\* One unit of time passes.  No handler outlives HandlerBound.
Tick ==
    /\ \A t \in Tasks : Busy(t) => tasks[t].age < HandlerBound
    /\ entries' = [k \in Keys |->
                     IF entries[k].status = "absent" THEN entries[k]
                     ELSE [entries[k] EXCEPT !.age = Older(@, AgeCap)]]
    /\ tasks' = [t \in Tasks |->
                   IF Busy(t) THEN [tasks[t] EXCEPT !.age = @ + 1] ELSE tasks[t]]
    /\ recorded' = [k \in Keys |->
                      IF recorded[k] = -1 THEN -1 ELSE Older(recorded[k], RedeliveryWindow)]
    /\ UNCHANGED <<mishaps, runs, applied, lapses, answers>>

Next ==
    \/ \E t \in Tasks, k \in Keys :
         Acquire(t, k) \/ TurnAway(t, k) \/ Replay(t, k) \/ FailOpen(t, k)
    \/ \E t \in Tasks : Mutate(t) \/ Return(t) \/ Resolve(t) \/ Panic(t)
    \/ Restart
    \/ Tick

Spec == Init /\ [][Next]_vars

\* Handlers run to their end, time passes, and a document that was not
\* definitively answered keeps being sent.
Fairness ==
    /\ \A t \in Tasks : WF_vars(Mutate(t) \/ Return(t)) /\ WF_vars(Resolve(t))
    /\ \A k \in Keys : 
         WF_vars(answers[k] = {} /\ \E t \in Tasks : Acquire(t, k) \/ Replay(t, k))
    /\ WF_vars(Tick)

FairSpec == Spec /\ Fairness

-----------------------------------------------------------------------------
(* Properties                                                              *)

TypeOK ==
    /\ entries \in [Keys -> Entry]
    /\ tasks \in [Tasks -> Task]
    /\ recorded \in [Keys -> -1..RedeliveryWindow]
    /\ mishaps \in 0..MaxMishaps
    /\ runs \in [Keys -> Nat]
    /\ applied \in [Keys -> Nat]
    /\ lapses \in [Keys -> Nat]
    /\ answers \in [Keys -> SUBSET Outcome]

\* Handlers are faster than the in-flight window, and outcomes are kept longer
\* than copies keep arriving: what the comments on the two TTLs ask for.
WellTuned == HandlerBound < InFlightTTL /\ RedeliveryWindow <= TTL

\* At most one running handler holds the claim of a key: a copy arriving while
\* another is being handled never gets past claim.
OneOwner ==
    \A k \in Keys : \A s, t \in Tasks : Owns(s, k) /\ Owns(t, k) => s = t

\* Every application of a document beyond the first is the price of one
\* identified lapse: a panic after the mutation, a retryable failure after the
\* mutation, a restart, or a fault of the store.  Redelivery alone, in any
\* interleaving, never applies a document again.
AppliedOncePerLapse ==
    \A k \in Keys : applied[k] <= 1 + lapses[k]

\* So a document is applied again at most once for each thing that went wrong: one
\* panic, one transient failure, one restart or one fault of the store, whatever it
\* hit, costs one further application of it and no more.
AppliedOncePerMishap ==
    \A k \in Keys : applied[k] <= 1 + mishaps

\* While the process stays up and the store works, every definitive answer a
\* sender gets for a document is the answer of one and the same run: a replay
\* gives the original response, and no second response is ever produced.
AnswersAgree ==
    Mishaps \intersect {"restart", "storeFault"} = {} =>
        \A k \in Keys : \A o, p \in answers[k] : o = p

\* A document that keeps being sent is definitively answered in the end, however
\* often its handler panicked or failed transiently: no claim wedges its key,
\* and no transient failure is replayed for good.
EventuallyAnswered == \A k \in Keys : <>(answers[k] # {})

\* As the senders see it: a document is applied once, and again only after a
\* lapse, one application per lapse and never before it.
Promise == INSTANCE WriteOnce WITH Keys <- Keys, applied <- applied, lapses <- lapses

ImplementsWriteOnce == Promise!Spec

\* What the source says of dispatch_idempotent: a redelivery "never mutates the
\* registry twice".  It does when the backend fails after it applied the write:
\* the claim is released and the retry applies the document again.
NeverMutatesTwice == \A k \in Keys : applied[k] <= 1

-----------------------------------------------------------------------------
(* The inductive invariant behind OneOwner, AppliedOncePerLapse and        *)
(* AnswersAgree for well tuned windows                                     *)

\* Stored and pending outcomes are real ones, and say what the handler did.
OutcomesInv ==
    /\ \A k \in Keys : entries[k].status = "done" => entries[k].outcome \in Outcome
    /\ \A t \in Tasks : tasks[t].pc = "returned" =>
          /\ tasks[t].outcome \in Outcome
          /\ tasks[t].outcome.kind = "ok" => tasks[t].mutated
          /\ tasks[t].outcome.kind = "rejected" => ~tasks[t].mutated

\* The type invariant in full: a completed entry can be replayed, and a task that
\* does something knows for which document.
TypedInv ==
    /\ TypeOK
    /\ OutcomesInv
    /\ \A t \in Tasks : Busy(t) => tasks[t].key \in Keys

\* A task that owns a key is the one the store's claim was made for.
ClaimInv ==
    \A k \in Keys : \A t \in Tasks : Owns(t, k) =>
        /\ entries[k].status = "inFlight"
        /\ entries[k].age = tasks[t].age
        /\ recorded[k] = -1

\* As long as copies of k keep arriving after its outcome was stored, the
\* outcome is there for them.
RecordedInv ==
    \A k \in Keys :
        /\ recorded[k] \in 0..RedeliveryWindow - 1 =>
              entries[k].status = "done" /\ entries[k].age <= recorded[k]
        /\ entries[k].status = "done" => recorded[k] # -1

\* One application may be accounted for by the store, or by the owner that is
\* about to store it; all others are lapses.
Accounted(k) ==
    \/ recorded[k] = RedeliveryWindow
    \/ recorded[k] # -1 /\ entries[k].outcome.kind = "ok"
    \/ \E t \in Tasks : Owns(t, k) /\ tasks[t].mutated

AccountInv ==
    \A k \in Keys : applied[k] <= lapses[k] + IF Accounted(k) THEN 1 ELSE 0

\* Answers repeat the stored outcome.
AnswersInv ==
    Mishaps \intersect {"restart", "storeFault"} = {} =>
        /\ \A t \in Tasks : Busy(t) => tasks[t].owner
        /\ \A k \in Keys : recorded[k] = -1 => answers[k] = {}
        /\ \A k \in Keys : recorded[k] \in 0..RedeliveryWindow - 1 =>
              \A o \in answers[k] : o = entries[k].outcome
        /\ \A k \in Keys : \A o, p \in answers[k] : o = p

\* The handlers whose run met a failure already that may still cost an application
\* of k: those without a claim that have not mutated, and those that must release
\* the claim of what they applied.
Owing(k) ==
    {t \in Tasks :
       /\ Busy(t) /\ tasks[t].key = k
       /\ \/ ~tasks[t].owner /\ ~tasks[t].mutated
          \/ /\ tasks[t].owner /\ tasks[t].mutated
             /\ tasks[t].pc = "returned" /\ tasks[t].outcome.kind = "retryable"}

\* Every lapse, and every one still to come, has a failure of its own.
MishapsInv ==
    \A k \in Keys :
        /\ IsFiniteSet(Owing(k))
        /\ lapses[k] + Cardinality(Owing(k)) <= mishaps

DedupInv ==
    /\ TypedInv
    /\ ClaimInv
    /\ OneOwner
    /\ RecordedInv
    /\ AccountInv
    /\ AnswersInv

=============================================================================
