------------------------ MODULE MessageDedupProofs --------------------------
(***************************************************************************)
(* Theorems about MessageDedup, for every set of keys and tasks and every  *)
(* value of the windows that is well tuned.                                *)
(***************************************************************************)
EXTENDS MessageDedup, FiniteSetTheorems, TLAPS

\* The cap on ages leaves both expiry tests meaningful.
LEMMA AgeCapIsCap ==
    AgeCap \in Nat /\ TTL <= AgeCap /\ InFlightTTL <= AgeCap
  BY WindowsAssumption DEF AgeCap

\* Growing older stays within the cap.
LEMMA OlderType ==
    ASSUME NEW cap \in Nat, NEW age \in 0..cap
    PROVE  Older(age, cap) \in 0..cap /\ Older(age, cap) <= age + 1 /\ age <= Older(age, cap)
  BY DEF Older

\* Eviction keeps entries well formed and touches nothing unexpired.
LEMMA EvictType ==
    ASSUME TypeOK
    PROVE  /\ evict_expired \in [Keys -> Entry]
           /\ \A k \in Keys : evict_expired[k] \in {entries[k], Absent}
           /\ \A k \in Keys : ~Expired(entries[k]) => evict_expired[k] = entries[k]
           /\ \A k \in Keys : evict_expired[k].status # "absent" => evict_expired[k] = entries[k]
  <1>1. Absent \in Entry
    BY AgeCapIsCap DEF Absent, Entry
  <1>2. Absent.status = "absent"
    BY DEF Absent
  <1> QED
    BY <1>1, <1>2 DEF TypeOK, evict_expired

\* The states the program can be in are those TypeOK describes.
LEMMA InitType == Init => TypeOK /\ OutcomesInv
  BY WindowsAssumption, MishapsAssumption, AgeCapIsCap
     DEF Init, TypeOK, OutcomesInv, Absent, Entry, Idle, Task

\* Every step keeps the variables well typed, keeps outcomes truthful and gives
\* only known keys to busy tasks.
LEMMA NextTyped == TypedInv /\ [Next]_vars => TypedInv'
  <1> SUFFICES ASSUME TypedInv, [Next]_vars
               PROVE  TypedInv'
    OBVIOUS
  <1> USE WindowsAssumption, MishapsAssumption, AgeCapIsCap
  <1>0. /\ Absent \in Entry /\ InFlight \in Entry
        /\ Absent.status = "absent" /\ InFlight.status = "inFlight"
        /\ \A o \in Outcome : Done(o) \in Entry /\ Done(o).outcome = o
        /\ Idle \in Task /\ Idle.pc = "idle"
    BY DEF Absent, InFlight, Done, Entry, Idle, Task
  <1>1. ASSUME NEW t \in Tasks, NEW k \in Keys, NEW owner \in BOOLEAN,
               Start(t, k, owner)
        PROVE  /\ tasks' \in [Tasks -> Task] /\ runs' \in [Keys -> Nat]
               /\ \A u \in Tasks : tasks'[u].pc = "returned" => u # t /\ tasks'[u] = tasks[u]
               /\ \A u \in Tasks : tasks'[u].key \in Keys \/ tasks'[u] = tasks[u]
    <2> DEFINE new == [pc |-> "running", key |-> k, owner |-> owner, mutated |-> FALSE,
                       age |-> 0, outcome |-> NoOutcome]
    <2>1. new \in Task /\ new.pc = "running" /\ new.key = k
      BY DEF Task
    <2>2. tasks' = [tasks EXCEPT ![t] = new] /\ runs' = [runs EXCEPT ![k] = @ + 1]
      BY <1>1 DEF Start
    <2> QED
      BY <2>1, <2>2 DEF TypedInv, TypeOK
  <1>2. ASSUME NEW t \in Tasks, NEW k \in Keys, Acquire(t, k)
        PROVE  TypedInv'
    <2>1. /\ tasks' \in [Tasks -> Task] /\ runs' \in [Keys -> Nat]
          /\ \A u \in Tasks : tasks'[u].pc = "returned" => u # t /\ tasks'[u] = tasks[u]
          /\ \A u \in Tasks : tasks'[u].key \in Keys \/ tasks'[u] = tasks[u]
      <3>1. Start(t, k, TRUE)
        BY <1>2, Zenon DEF Acquire
      <3> QED
        BY <1>1, <3>1, Zenon
    <2>2. /\ entries' = [evict_expired EXCEPT ![k] = InFlight]
          /\ UNCHANGED <<recorded, mishaps, applied, lapses, answers>>
      BY <1>2 DEF Acquire
    <2>3. entries' \in [Keys -> Entry]
      BY <1>0, <2>2, EvictType DEF TypedInv
    <2>4. \A j \in Keys : entries'[j].status = "done" => entries'[j] = entries[j]
      BY <1>0, <2>2, EvictType DEF TypedInv
    <2>5. OutcomesInv'
      BY <2>1, <2>2, <2>4 DEF TypedInv, OutcomesInv
    <2>6. \A u \in Tasks : Busy(u)' => tasks'[u].key \in Keys
      BY <2>1 DEF TypedInv, Busy
    <2> QED
      BY <2>1, <2>2, <2>3, <2>5, <2>6 DEF TypedInv, TypeOK
  <1>3. ASSUME NEW t \in Tasks, NEW k \in Keys, TurnAway(t, k)
        PROVE  TypedInv'
    BY <1>0, <1>3, EvictType DEF TurnAway, TypedInv, TypeOK, OutcomesInv, Busy
  <1>4. ASSUME NEW t \in Tasks, NEW k \in Keys, Replay(t, k)
        PROVE  TypedInv'
    BY <1>0, <1>4, EvictType DEF Replay, TypedInv, TypeOK, OutcomesInv, Busy
  <1>5. ASSUME NEW t \in Tasks, NEW k \in Keys, FailOpen(t, k)
        PROVE  TypedInv'
    <2>1. UNCHANGED <<entries, recorded, applied, lapses, answers>> /\ Mishap("storeFault")
      BY <1>5 DEF FailOpen
    <2>2. mishaps' \in 0..MaxMishaps
      BY <2>1 DEF Mishap, TypedInv, TypeOK
    <2>3. Start(t, k, FALSE)
      BY <1>5, Zenon DEF FailOpen
    <2>4. /\ tasks' \in [Tasks -> Task] /\ runs' \in [Keys -> Nat]
          /\ \A u \in Tasks : tasks'[u].pc = "returned" => u # t /\ tasks'[u] = tasks[u]
          /\ \A u \in Tasks : tasks'[u].key \in Keys \/ tasks'[u] = tasks[u]
      BY <2>3, <1>1, Zenon
    <2> QED
      BY <2>1, <2>2, <2>4 DEF TypedInv, TypeOK, OutcomesInv, Busy
  <1>6. ASSUME NEW t \in Tasks, Mutate(t)
        PROVE  TypedInv'
    <2> DEFINE new == [tasks[t] EXCEPT !.mutated = TRUE]
    <2>1. /\ tasks[t].pc = "running" /\ tasks' = [tasks EXCEPT ![t] = new]
          /\ tasks[t].key \in Keys
          /\ UNCHANGED <<entries, recorded, mishaps, runs, answers>>
      BY <1>6 DEF Mutate, TypedInv, Busy
    <2>2. new \in Task /\ new.pc = "running" /\ new.key = tasks[t].key
      BY <2>1 DEF TypedInv, TypeOK, Task
    <2>3. applied' \in [Keys -> Nat] /\ lapses' \in [Keys -> Nat]
      BY <1>6, <2>1 DEF Mutate, TypedInv, TypeOK
    <2> HIDE DEF new
    <2>4. tasks' \in [Tasks -> Task]
      BY <2>1, <2>2 DEF TypedInv, TypeOK
    <2>5. OutcomesInv'
      BY <2>1, <2>2 DEF TypedInv, TypeOK, OutcomesInv
    <2>6. \A u \in Tasks : Busy(u)' => tasks'[u].key \in Keys
      BY <2>1, <2>2 DEF TypedInv, TypeOK, Busy
    <2> QED
      BY <2>1, <2>3, <2>4, <2>5, <2>6 DEF TypedInv, TypeOK
  <1>7. ASSUME NEW t \in Tasks, Return(t)
        PROVE  TypedInv'
    <2>1. PICK kind \in Kinds :
            /\ tasks' = [tasks EXCEPT ![t].pc = "returned",
                           ![t].outcome = [kind |-> kind, run |-> runs[tasks[t].key]]]
            /\ \/ /\ kind = IF tasks[t].mutated THEN "ok" ELSE "rejected"
                  /\ UNCHANGED mishaps
               \/ kind = "retryable" /\ Mishap("transient")
      BY <1>7 DEF Return
    <2> DEFINE o == [kind |-> kind, run |-> runs[tasks[t].key]]
               new == [tasks[t] EXCEPT !.pc = "returned", !.outcome = o]
    <2>2. /\ tasks[t].pc = "running" /\ tasks' = [tasks EXCEPT ![t] = new]
          /\ tasks[t].key \in Keys
          /\ UNCHANGED <<entries, recorded, runs, applied, lapses, answers>>
      BY <1>7, <2>1 DEF Return, TypedInv, TypeOK, Busy
    <2>3. o \in Outcome
      BY <2>2 DEF Outcome, TypedInv, TypeOK
    <2>4. /\ new \in Task /\ new.pc = "returned" /\ new.key = tasks[t].key
          /\ new.outcome = o /\ new.mutated = tasks[t].mutated
      BY <2>3 DEF TypedInv, TypeOK, Task
    <2>5. o.kind = "ok" => tasks[t].mutated
      BY <2>1
    <2>6. o.kind = "rejected" => ~tasks[t].mutated
      BY <2>1
    <2>7. mishaps' \in 0..MaxMishaps
      BY <2>1 DEF Mishap, TypedInv, TypeOK
    <2> HIDE DEF new, o
    <2>8. tasks' \in [Tasks -> Task]
      BY <2>2, <2>4 DEF TypedInv, TypeOK
    <2>9. OutcomesInv'
      BY <2>2, <2>3, <2>4, <2>5, <2>6 DEF TypedInv, TypeOK, OutcomesInv
    <2>10. \A u \in Tasks : Busy(u)' => tasks'[u].key \in Keys
      BY <2>2, <2>4 DEF TypedInv, TypeOK, Busy
    <2> QED
      BY <2>2, <2>7, <2>8, <2>9, <2>10 DEF TypedInv, TypeOK
  <1>8. ASSUME NEW t \in Tasks, Resolve(t)
        PROVE  TypedInv'
    BY <1>0, <1>8 DEF Resolve, complete, release, Mishap, TypedInv, TypeOK, OutcomesInv, Busy
  <1>9. ASSUME NEW t \in Tasks, Panic(t)
        PROVE  TypedInv'
    BY <1>0, <1>9 DEF Panic, Mishap, TypedInv, TypeOK, OutcomesInv, Busy
  <1>10. ASSUME Restart
         PROVE  TypedInv'
    BY <1>0, <1>10 DEF Restart, Mishap, TypedInv, TypeOK, OutcomesInv, Busy
  <1>11. ASSUME Tick
         PROVE  TypedInv'
    <2>1. /\ entries' \in [Keys -> Entry]
          /\ \A k \in Keys : /\ entries'[k].status = entries[k].status
                             /\ entries'[k].outcome = entries[k].outcome
      <3> SUFFICES ASSUME NEW k \in Keys, entries[k].status # "absent"
                   PROVE  LET e == [entries[k] EXCEPT !.age = Older(@, AgeCap)]
                          IN  /\ e \in Entry /\ e.status = entries[k].status
                              /\ e.outcome = entries[k].outcome
        BY <1>11 DEF Tick, TypedInv, TypeOK
      <3>1. entries[k] \in Entry /\ Older(entries[k].age, AgeCap) \in 0..AgeCap
        BY OlderType DEF TypedInv, TypeOK, Entry
      <3> QED
        BY <3>1 DEF Entry
    <2>2. /\ tasks' \in [Tasks -> Task]
          /\ \A t \in Tasks : /\ tasks'[t].pc = tasks[t].pc /\ tasks'[t].key = tasks[t].key
                              /\ tasks'[t].outcome = tasks[t].outcome
                              /\ tasks'[t].mutated = tasks[t].mutated
      <3> SUFFICES ASSUME NEW t \in Tasks, Busy(t)
                   PROVE  LET u == [tasks[t] EXCEPT !.age = @ + 1]
                          IN  /\ u \in Task /\ u.pc = tasks[t].pc /\ u.key = tasks[t].key
                              /\ u.outcome = tasks[t].outcome /\ u.mutated = tasks[t].mutated
        BY <1>11 DEF Tick, TypedInv, TypeOK
      <3>1. tasks[t] \in Task /\ tasks[t].age + 1 \in 0..HandlerBound
        BY <1>11 DEF Tick, TypedInv, TypeOK, Task
      <3> QED
        BY <3>1 DEF Task
    <2>3. recorded' \in [Keys -> -1..RedeliveryWindow]
      <3> SUFFICES ASSUME NEW k \in Keys, recorded[k] # -1
                   PROVE  Older(recorded[k], RedeliveryWindow) \in 0..RedeliveryWindow
        BY <1>11 DEF Tick, TypedInv, TypeOK
      <3>1. recorded[k] \in 0..RedeliveryWindow
        BY DEF TypedInv, TypeOK
      <3> QED
        BY <3>1, OlderType
    <2> QED
      <3>1. UNCHANGED <<mishaps, runs, applied, lapses, answers>>
        BY <1>11 DEF Tick
      <3>2. TypeOK'
        BY <2>1, <2>2, <2>3, <3>1 DEF TypedInv, TypeOK
      <3>3. OutcomesInv'
        BY <2>1, <2>2 DEF TypedInv, OutcomesInv
      <3>4. \A t \in Tasks : Busy(t)' => tasks'[t].key \in Keys
        BY <2>2 DEF TypedInv, Busy
      <3> QED
        BY <3>2, <3>3, <3>4 DEF TypedInv
  <1>12. CASE UNCHANGED vars
    BY <1>12 DEF vars, TypedInv, TypeOK, OutcomesInv, Busy
  <1> QED
    BY <1>2, <1>3, <1>4, <1>5, <1>6, <1>7, <1>8, <1>9, <1>10, <1>11, <1>12 DEF Next

\* Every reachable state is well typed: ages stay in their ranges, whatever the
\* store holds as done is a response that can be replayed, and what a handler
\* returned says whether it mutated the registry.
THEOREM TypeCorrect == Spec => []TypedInv
  <1>1. Init => TypedInv
    BY InitType DEF TypedInv, Init, Busy, Idle
  <1> QED
    BY <1>1, NextTyped, PTL DEF Spec

-----------------------------------------------------------------------------
(* Safety for well tuned windows                                           *)

\* Neither the claim of a running handler nor an outcome whose document still
\* arrives is ever evicted.
LEMMA NotEvicted ==
    ASSUME WellTuned, DedupInv, NEW k \in Keys
    PROVE  /\ \A t \in Tasks : Owns(t, k) => evict_expired[k] = entries[k]
           /\ recorded[k] \in 0..RedeliveryWindow - 1 => evict_expired[k] = entries[k]
  <1>1. ASSUME NEW t \in Tasks, Owns(t, k)
        PROVE  ~Expired(entries[k])
    <2>1. tasks[t].age <= HandlerBound
      BY DEF DedupInv, TypedInv, TypeOK, Task
    <2>2. entries[k].status = "inFlight" /\ entries[k].age = tasks[t].age
      BY <1>1 DEF DedupInv, ClaimInv
    <2>3. tasks[t].age \in Nat
      BY WindowsAssumption DEF DedupInv, TypedInv, TypeOK, Task
    <2> QED
      BY <2>1, <2>2, <2>3, WindowsAssumption DEF WellTuned, Expired
  <1>2. ASSUME recorded[k] \in 0..RedeliveryWindow - 1
        PROVE  ~Expired(entries[k])
    <2>1. entries[k].status = "done" /\ entries[k].age <= recorded[k]
      BY <1>2 DEF DedupInv, RecordedInv
    <2>2. entries[k].age \in Nat
      BY AgeCapIsCap DEF DedupInv, TypedInv, TypeOK, Entry
    <2> QED
      BY <1>2, <2>1, <2>2, WindowsAssumption DEF WellTuned, Expired
  <1> QED
    BY <1>1, <1>2, EvictType DEF DedupInv, TypedInv

\* Owners after a task was started, and after a task ended.
LEMMA OwnersAfterStart ==
    ASSUME TypeOK, NEW t \in Tasks, NEW k \in Keys, NEW owner \in BOOLEAN,
           ~Busy(t), Start(t, k, owner)
    PROVE  /\ \A u \in Tasks, j \in Keys :
                Owns(u, j)' <=> Owns(u, j) \/ (owner /\ u = t /\ j = k)
           /\ \A u \in Tasks : u # t => tasks'[u] = tasks[u]
           /\ tasks'[t].age = 0 /\ tasks'[t].mutated = FALSE
           /\ tasks'[t].owner = owner
  BY DEF Start, Owns, Busy, TypeOK

LEMMA OwnersAfterEnd ==
    ASSUME TypeOK, NEW t \in Tasks, tasks' = [tasks EXCEPT ![t] = Idle]
    PROVE  /\ \A u \in Tasks, j \in Keys : Owns(u, j)' <=> Owns(u, j) /\ u # t
           /\ \A u \in Tasks : u # t => tasks'[u] = tasks[u]
           /\ ~Busy(t)'
  BY DEF Owns, Busy, TypeOK, Idle

LEMMA InitDedup == Init => DedupInv
  <1> SUFFICES ASSUME Init PROVE DedupInv
    OBVIOUS
  <1>1. TypedInv
    BY InitType DEF TypedInv, Init, Busy, Idle
  <1>2. \A t \in Tasks : ~Busy(t)
    BY DEF Init, Busy, Idle
  <1>3. ClaimInv /\ OneOwner
    BY <1>2 DEF ClaimInv, OneOwner, Owns
  <1>4. RecordedInv /\ AnswersInv /\ AccountInv
    BY <1>2 DEF Init, RecordedInv, AnswersInv, AccountInv, Absent
  <1> QED
    BY <1>1, <1>3, <1>4 DEF DedupInv

\* What a copy finds when it is let through: nobody owns the key and no outcome
\* is stored.
LEMMA AcquireDedup ==
    ASSUME WellTuned, DedupInv, TypedInv', NEW t \in Tasks, NEW k \in Keys, Acquire(t, k)
    PROVE  DedupInv'
  <1>1. Start(t, k, TRUE) /\ ~Busy(t)
    BY DEF Acquire, Delivered
  <1>2. /\ \A u \in Tasks, j \in Keys : Owns(u, j)' <=> Owns(u, j) \/ (u = t /\ j = k)
        /\ \A u \in Tasks : u # t => tasks'[u] = tasks[u]
        /\ tasks'[t].age = 0 /\ ~tasks'[t].mutated /\ tasks'[t].owner
    BY <1>1, OwnersAfterStart DEF DedupInv, TypedInv
  <1>3. evict_expired[k].status = "absent" /\ recorded[k] < RedeliveryWindow
    BY DEF Acquire, Delivered
  <1>4. /\ entries'[k] = InFlight
        /\ \A j \in Keys : j # k => entries'[j] = evict_expired[j]
        /\ UNCHANGED <<recorded, applied, lapses, answers>>
    BY EvictType DEF Acquire, DedupInv, TypedInv
  <1>5. recorded[k] = -1
    <2>1. recorded[k] \notin 0..RedeliveryWindow - 1
      BY <1>3, NotEvicted DEF DedupInv, RecordedInv
    <2> QED
      BY <1>3, <2>1, WindowsAssumption DEF DedupInv, TypedInv, TypeOK
  <1>6. \A u \in Tasks : ~Owns(u, k)
    BY <1>3, NotEvicted DEF DedupInv, ClaimInv
  <1>7. ClaimInv'
    <2> SUFFICES ASSUME NEW j \in Keys, NEW u \in Tasks, Owns(u, j)'
                 PROVE  /\ entries'[j].status = "inFlight"
                        /\ entries'[j].age = tasks'[u].age
                        /\ recorded'[j] = -1
      BY DEF ClaimInv
    <2>1. CASE u = t /\ j = k
      BY <1>2, <1>4, <1>5, <2>1 DEF InFlight
    <2>2. CASE ~(u = t /\ j = k)
      <3>1. Owns(u, j) /\ j # k /\ u # t
        BY <1>1, <1>2, <1>6, <2>2 DEF Owns
      <3> QED
        BY <1>2, <1>4, <3>1, NotEvicted DEF DedupInv, ClaimInv
    <2> QED
      BY <2>1, <2>2
  <1>8. OneOwner'
    BY <1>2, <1>6 DEF DedupInv, OneOwner
  <1>9. RecordedInv'
    BY <1>4, <1>5, NotEvicted, EvictType DEF DedupInv, TypedInv, RecordedInv, InFlight
  <1>10. AccountInv'
    <2> SUFFICES ASSUME NEW j \in Keys, Accounted(j) PROVE Accounted(j)'
      BY <1>4 DEF DedupInv, AccountInv, TypedInv, TypeOK
    <2>1. CASE recorded[j] = RedeliveryWindow
      BY <1>4, <2>1 DEF Accounted
    <2>2. CASE recorded[j] # -1 /\ recorded[j] # RedeliveryWindow /\ entries[j].outcome.kind = "ok"
      <3>1. recorded[j] \in 0..RedeliveryWindow - 1
        BY <2>2, WindowsAssumption DEF DedupInv, TypedInv, TypeOK
      <3> QED
        BY <1>4, <1>5, <2>2, <3>1, NotEvicted DEF Accounted
    <2>3. ASSUME NEW u \in Tasks, Owns(u, j), tasks[u].mutated
          PROVE  Accounted(j)'
      BY <1>1, <1>2, <2>3 DEF Accounted, Owns
    <2> QED
      BY <2>1, <2>2, <2>3 DEF Accounted
  <1>11. AnswersInv'
    <2>1. \A j \in Keys : recorded[j] \in 0..RedeliveryWindow - 1 => entries'[j] = entries[j]
      BY <1>4, <1>5, NotEvicted
    <2> SUFFICES ASSUME Mishaps \intersect {"restart", "storeFault"} = {}
                 PROVE  AnswersInv'
      BY DEF AnswersInv
    <2>2. \A u \in Tasks : Busy(u)' => tasks'[u].owner
      BY <1>2, Zenon DEF DedupInv, AnswersInv, Busy
    <2>3. \A j \in Keys : recorded'[j] = -1 => answers'[j] = {}
      BY <1>4 DEF DedupInv, AnswersInv
    <2>4. \A j \in Keys : recorded'[j] \in 0..RedeliveryWindow - 1 =>
            \A o \in answers'[j] : o = entries'[j].outcome
      BY <1>4, <2>1 DEF DedupInv, AnswersInv
    <2>5. \A j \in Keys : \A o, p \in answers'[j] : o = p
      BY <1>4 DEF DedupInv, AnswersInv
    <2> QED
      BY <2>2, <2>3, <2>4, <2>5, Zenon DEF AnswersInv, Busy
  <1> QED
    BY <1>7, <1>8, <1>9, <1>10, <1>11 DEF DedupInv

\* Turning a copy away and replaying to it only evict.
LEMMA EvictDedup ==
    ASSUME WellTuned, DedupInv, TypedInv', entries' = evict_expired,
           UNCHANGED <<tasks, recorded, applied, lapses>>
    PROVE  /\ ClaimInv' /\ OneOwner' /\ RecordedInv' /\ AccountInv'
           /\ \A j \in Keys : recorded[j] \in 0..RedeliveryWindow - 1 => entries'[j] = entries[j]
  <1>1. \A j \in Keys : recorded[j] \in 0..RedeliveryWindow - 1 => entries'[j] = entries[j]
    BY NotEvicted
  <1>2. ClaimInv' /\ OneOwner' /\ RecordedInv'
    BY NotEvicted, EvictType DEF DedupInv, TypedInv, ClaimInv, OneOwner, RecordedInv, Owns, Busy
  <1>3. AccountInv'
    <2> SUFFICES ASSUME NEW j \in Keys, Accounted(j) PROVE Accounted(j)'
      BY DEF DedupInv, AccountInv, TypedInv, TypeOK
    <2>1. recorded[j] \in 0..RedeliveryWindow - 1 \/ recorded[j] \in {-1, RedeliveryWindow}
      BY WindowsAssumption DEF DedupInv, TypedInv, TypeOK
    <2> QED
      BY <1>1, <2>1 DEF Accounted, Owns, Busy
  <1> QED
    BY <1>1, <1>2, <1>3

LEMMA TurnAwayDedup ==
    ASSUME WellTuned, DedupInv, TypedInv', NEW t \in Tasks, NEW k \in Keys, TurnAway(t, k)
    PROVE  DedupInv'
  <1>1. /\ entries' = evict_expired /\ UNCHANGED <<tasks, recorded, applied, lapses, answers>>
    BY DEF TurnAway
  <1>2. AnswersInv'
    BY <1>1, EvictDedup DEF DedupInv, AnswersInv, Busy
  <1> QED
    BY <1>1, <1>2, EvictDedup DEF DedupInv

\* The replayed outcome is the one every earlier answer gave.
LEMMA ReplayDedup ==
    ASSUME WellTuned, DedupInv, TypedInv', NEW t \in Tasks, NEW k \in Keys, Replay(t, k)
    PROVE  DedupInv'
  <1>1. /\ entries' = evict_expired /\ UNCHANGED <<tasks, recorded, applied, lapses>>
        /\ recorded[k] < RedeliveryWindow
        /\ evict_expired[k].status = "done"
        /\ answers' = [answers EXCEPT ![k] = @ \union {evict_expired[k].outcome}]
    BY DEF Replay, Delivered
  <1>2. evict_expired[k] = entries[k]
    BY <1>1, EvictType DEF DedupInv, TypedInv
  <1>3. /\ answers'[k] = answers[k] \union {entries[k].outcome}
        /\ \A j \in Keys : j # k => answers'[j] = answers[j]
    BY <1>1, <1>2 DEF DedupInv, TypedInv, TypeOK
  <1>4. recorded[k] \in 0..RedeliveryWindow - 1
    BY <1>1, <1>2, WindowsAssumption DEF DedupInv, TypedInv, TypeOK, RecordedInv
  <1>5. AnswersInv'
    BY <1>1, <1>3, <1>4, EvictDedup DEF DedupInv, AnswersInv, Busy
  <1> QED
    BY <1>1, <1>5, EvictDedup DEF DedupInv

\* A copy let through by a faulty store owns nothing.
LEMMA FailOpenDedup ==
    ASSUME WellTuned, DedupInv, TypedInv', NEW t \in Tasks, NEW k \in Keys, FailOpen(t, k)
    PROVE  DedupInv'
  <1>1. /\ UNCHANGED <<entries, recorded, applied, lapses, answers>>
        /\ "storeFault" \in Mishaps
        /\ ~Busy(t)
    BY DEF FailOpen, Mishap, Delivered
  <1>2. Start(t, k, FALSE)
    BY Zenon DEF FailOpen
  <1>3. /\ \A u \in Tasks, j \in Keys : Owns(u, j)' <=> Owns(u, j) \/ (FALSE /\ u = t /\ j = k)
        /\ \A u \in Tasks : u # t => tasks'[u] = tasks[u]
    BY <1>1, <1>2, OwnersAfterStart, Zenon DEF DedupInv, TypedInv
  <1>4. \A u \in Tasks, j \in Keys :
            /\ Owns(u, j)' <=> Owns(u, j)
            /\ Owns(u, j) => tasks'[u] = tasks[u]
    BY <1>1, <1>3 DEF Owns
  <1>5. ClaimInv' /\ OneOwner' /\ RecordedInv'
    BY <1>1, <1>4 DEF DedupInv, ClaimInv, OneOwner, RecordedInv
  <1>6. AccountInv'
    BY <1>1, <1>4 DEF DedupInv, AccountInv, Accounted
  <1>7. AnswersInv'
    BY <1>1 DEF AnswersInv
  <1> QED
    BY <1>5, <1>6, <1>7 DEF DedupInv

\* The one step that applies a document: an owner is charged to the claim, a
\* task without a claim is a lapse.
LEMMA MutateDedup ==
    ASSUME WellTuned, DedupInv, TypedInv', NEW t \in Tasks, Mutate(t)
    PROVE  DedupInv'
  <1> DEFINE k == tasks[t].key
  <1>1. /\ UNCHANGED <<entries, recorded, answers>> /\ Busy(t) /\ k \in Keys
        /\ ~tasks[t].mutated
        /\ tasks' = [tasks EXCEPT ![t].mutated = TRUE]
        /\ applied' = [applied EXCEPT ![k] = @ + 1]
        /\ lapses' = IF tasks[t].owner THEN lapses ELSE [lapses EXCEPT ![k] = @ + 1]
    BY DEF Mutate, Busy, DedupInv, TypedInv
  <1>2. /\ \A u \in Tasks : u # t => tasks'[u] = tasks[u]
        /\ tasks'[t].pc = tasks[t].pc /\ tasks'[t].key = k /\ tasks'[t].age = tasks[t].age
        /\ tasks'[t].mutated
    BY <1>1 DEF DedupInv, TypedInv, TypeOK, Task
  <1>3. tasks'[t].owner <=> tasks[t].owner
    BY <1>1 DEF DedupInv, TypedInv, TypeOK, Task
  <1>4. \A u \in Tasks : Busy(u)' <=> Busy(u)
    BY <1>2 DEF Busy
  <1>5. \A u \in Tasks, j \in Keys : Owns(u, j)' <=> Owns(u, j)
    BY <1>2, <1>3, <1>4, Zenon DEF Owns
  <1>6. ClaimInv' /\ OneOwner' /\ RecordedInv'
    <2>1. ClaimInv'
      BY <1>1, <1>2, <1>5 DEF DedupInv, ClaimInv
    <2>2. OneOwner' /\ RecordedInv'
      BY <1>1, <1>5 DEF DedupInv, OneOwner, RecordedInv
    <2> QED
      BY <2>1, <2>2
  <1>7. AnswersInv'
    <2> SUFFICES ASSUME Mishaps \intersect {"restart", "storeFault"} = {}
                 PROVE  AnswersInv'
      BY DEF AnswersInv
    <2>1. \A u \in Tasks : Busy(u)' => tasks'[u].owner
      BY <1>2, <1>3, <1>4, Zenon DEF DedupInv, AnswersInv
    <2> QED
      BY <1>1, <2>1 DEF DedupInv, AnswersInv
  <1>8. \A j \in Keys : Accounted(j) => Accounted(j)'
    <2> SUFFICES ASSUME NEW j \in Keys, NEW u \in Tasks, Owns(u, j), tasks[u].mutated
                 PROVE  Owns(u, j)' /\ tasks'[u].mutated
      BY <1>1 DEF Accounted
    <2> QED
      BY <1>2, <1>5
  <1>9. AccountInv'
    <2> SUFFICES ASSUME NEW j \in Keys
                 PROVE  applied'[j] <= lapses'[j] + IF Accounted(j)' THEN 1 ELSE 0
      BY DEF AccountInv
    <2>0. /\ applied[j] \in Nat /\ lapses[j] \in Nat
          /\ applied[j] <= lapses[j] + IF Accounted(j) THEN 1 ELSE 0
      BY DEF DedupInv, AccountInv, TypedInv, TypeOK
    <2>1. CASE j # k
      <3>1. applied'[j] = applied[j] /\ lapses'[j] = lapses[j]
        BY <1>1, <2>1 DEF DedupInv, TypedInv, TypeOK
      <3> QED
        BY <1>8, <2>0, <3>1
    <2>2. CASE j = k /\ ~tasks[t].owner
      <3>1. applied'[j] = applied[j] + 1 /\ lapses'[j] = lapses[j] + 1
        BY <1>1, <2>2 DEF DedupInv, TypedInv, TypeOK
      <3> QED
        BY <1>8, <2>0, <3>1
    <2>3. CASE j = k /\ tasks[t].owner
      <3>1. applied'[j] = applied[j] + 1 /\ lapses'[j] = lapses[j]
        BY <1>1, <2>3 DEF DedupInv, TypedInv, TypeOK
      <3>2. Owns(t, j)
        BY <1>1, <2>3 DEF Owns
      <3>3. Accounted(j)'
        BY <1>2, <1>5, <3>2 DEF Accounted
      <3>4. ~Accounted(j)
        <4>1. recorded[j] = -1
          BY <3>2 DEF DedupInv, ClaimInv
        <4>2. \A u \in Tasks : Owns(u, j) => u = t
          BY <3>2 DEF DedupInv, OneOwner
        <4> QED
          BY <1>1, <4>1, <4>2, WindowsAssumption DEF Accounted
      <3> QED
        BY <2>0, <3>1, <3>3, <3>4
    <2> QED
      BY <2>1, <2>2, <2>3
  <1> QED
    BY <1>6, <1>7, <1>9 DEF DedupInv

LEMMA ReturnDedup ==
    ASSUME WellTuned, DedupInv, TypedInv', NEW t \in Tasks, Return(t)
    PROVE  DedupInv'
  <1>1. /\ UNCHANGED <<entries, recorded, applied, lapses, answers>> /\ Busy(t)
        /\ \A u \in Tasks : u # t => tasks'[u] = tasks[u]
        /\ tasks'[t].pc = "returned" /\ tasks'[t].key = tasks[t].key
        /\ tasks'[t].age = tasks[t].age
        /\ tasks'[t].owner = tasks[t].owner /\ tasks'[t].mutated = tasks[t].mutated
    BY DEF Return, Busy, DedupInv, TypedInv, TypeOK, Task
  <1>2. \A u \in Tasks : Busy(u)' <=> Busy(u)
    BY <1>1 DEF Busy
  <1>3. \A u \in Tasks : /\ tasks'[u].owner = tasks[u].owner /\ tasks'[u].key = tasks[u].key
                         /\ tasks'[u].age = tasks[u].age /\ tasks'[u].mutated = tasks[u].mutated
    BY <1>1
  <1>4. \A u \in Tasks, j \in Keys : Owns(u, j)' <=> Owns(u, j)
    BY <1>2, <1>3, Zenon DEF Owns
  <1>5. ClaimInv' /\ OneOwner' /\ RecordedInv'
    BY <1>1, <1>3, <1>4 DEF DedupInv, ClaimInv, OneOwner, RecordedInv
  <1>6. AccountInv'
    BY <1>1, <1>3, <1>4 DEF DedupInv, AccountInv, Accounted
  <1>7. AnswersInv'
    <2> SUFFICES ASSUME Mishaps \intersect {"restart", "storeFault"} = {}
                 PROVE  AnswersInv'
      BY DEF AnswersInv
    <2>1. \A u \in Tasks : Busy(u)' => tasks'[u].owner
      BY <1>2, <1>3, Zenon DEF DedupInv, AnswersInv
    <2> QED
      BY <1>1, <2>1 DEF DedupInv, AnswersInv
  <1> QED
    BY <1>5, <1>6, <1>7 DEF DedupInv

\* A task that ends without touching the store or the answers loses its claim to
\* an application, which is then a lapse.
LEMMA EndDedup ==
    ASSUME WellTuned, DedupInv, NEW t \in Tasks, Busy(t),
           tasks' = [tasks EXCEPT ![t] = Idle],
           UNCHANGED <<entries, recorded, applied>>,
           lapses' = IF tasks[t].owner /\ tasks[t].mutated
                     THEN [lapses EXCEPT ![tasks[t].key] = @ + 1] ELSE lapses
    PROVE  ClaimInv' /\ OneOwner' /\ RecordedInv' /\ AccountInv'
  <1>1. /\ \A u \in Tasks, j \in Keys : Owns(u, j)' <=> Owns(u, j) /\ u # t
        /\ \A u \in Tasks : u # t => tasks'[u] = tasks[u]
    BY OwnersAfterEnd DEF DedupInv, TypedInv
  <1>2. ClaimInv' /\ OneOwner' /\ RecordedInv'
    BY <1>1 DEF DedupInv, ClaimInv, OneOwner, RecordedInv
  <1>3. AccountInv'
    <2> SUFFICES ASSUME NEW j \in Keys
                 PROVE  applied'[j] <= lapses'[j] + IF Accounted(j)' THEN 1 ELSE 0
      BY DEF AccountInv
    <2>0. /\ applied[j] \in Nat /\ lapses[j] \in Nat
          /\ applied[j] <= lapses[j] + IF Accounted(j) THEN 1 ELSE 0
      BY DEF DedupInv, AccountInv, TypedInv, TypeOK
    <2>1. CASE Owns(t, j) /\ tasks[t].mutated
      <3>1. lapses'[j] = lapses[j] + 1
        BY <2>1 DEF Owns, DedupInv, TypedInv, TypeOK
      <3> QED
        BY <2>0, <3>1
    <2>2. CASE ~(Owns(t, j) /\ tasks[t].mutated)
      <3>1. Accounted(j)' <=> Accounted(j)
        BY <1>1, <2>2 DEF Accounted
      <3>2. lapses'[j] = lapses[j]
        BY <2>2 DEF Owns, DedupInv, TypedInv, TypeOK
      <3> QED
        BY <2>0, <3>1, <3>2
    <2> QED
      BY <2>1, <2>2
  <1> QED
    BY <1>2, <1>3

LEMMA PanicDedup ==
    ASSUME WellTuned, DedupInv, TypedInv', NEW t \in Tasks, Panic(t)
    PROVE  DedupInv'
  <1>1. /\ UNCHANGED <<entries, recorded, applied, answers>> /\ Busy(t)
        /\ tasks' = [tasks EXCEPT ![t] = Idle]
        /\ lapses' = IF tasks[t].owner /\ tasks[t].mutated
                     THEN [lapses EXCEPT ![tasks[t].key] = @ + 1] ELSE lapses
    BY DEF Panic
  <1>2. ClaimInv' /\ OneOwner' /\ RecordedInv' /\ AccountInv'
    BY <1>1, EndDedup
  <1>3. \A u \in Tasks : Busy(u)' => Busy(u) /\ tasks'[u] = tasks[u]
    BY <1>1, OwnersAfterEnd DEF DedupInv, TypedInv, Busy
  <1>4. AnswersInv'
    BY <1>1, <1>3 DEF DedupInv, AnswersInv
  <1> QED
    BY <1>2, <1>4 DEF DedupInv

\* Resolving: the owner's outcome becomes the stored one and the first answer,
\* or the claim is released with nothing stored and nothing answered.
LEMMA ResolveDedup ==
    ASSUME WellTuned, DedupInv, TypedInv', NEW t \in Tasks, Resolve(t)
    PROVE  DedupInv'
  <1> DEFINE k == tasks[t].key
             o == tasks[t].outcome
  <1>1. /\ Busy(t) /\ k \in Keys /\ tasks[t].pc = "returned"
        /\ tasks' = [tasks EXCEPT ![t] = Idle]
        /\ UNCHANGED applied
        /\ answers' = IF is_cacheable(o) THEN [answers EXCEPT ![k] = @ \union {o}] ELSE answers
    BY DEF Resolve, Busy, DedupInv, TypedInv
  <1>2. /\ o \in Outcome
        /\ o.kind = "ok" => tasks[t].mutated
        /\ o.kind = "rejected" => ~tasks[t].mutated
    BY <1>1 DEF DedupInv, TypedInv, OutcomesInv
  <1>3. /\ \A u \in Tasks, j \in Keys : Owns(u, j)' <=> Owns(u, j) /\ u # t
        /\ \A u \in Tasks : u # t => tasks'[u] = tasks[u]
        /\ \A u \in Tasks : Busy(u)' => Busy(u) /\ tasks'[u] = tasks[u]
    BY <1>1, OwnersAfterEnd DEF DedupInv, TypedInv, Busy
  <1>4. CASE ~tasks[t].owner
    <2>1. UNCHANGED <<entries, recorded, lapses>>
      BY <1>4 DEF Resolve
    <2>2. ClaimInv' /\ OneOwner' /\ RecordedInv' /\ AccountInv'
      BY <1>1, <1>4, <2>1, EndDedup
    <2>3. AnswersInv'
      BY <1>1, <1>3, <1>4 DEF DedupInv, AnswersInv
    <2> QED
      BY <2>2, <2>3 DEF DedupInv
  <1>5. CASE /\ tasks[t].owner
             /\ Mishap("storeFault")
             /\ lapses' = IF tasks[t].owner /\ tasks[t].mutated
                          THEN [lapses EXCEPT ![k] = @ + 1] ELSE lapses
             /\ UNCHANGED <<entries, recorded>>
    <2>1. ClaimInv' /\ OneOwner' /\ RecordedInv' /\ AccountInv'
      BY <1>1, <1>5, EndDedup
    <2>2. AnswersInv'
      BY <1>5 DEF Mishap, AnswersInv
    <2> QED
      BY <2>1, <2>2 DEF DedupInv
  <1>6. CASE /\ tasks[t].owner /\ ~is_cacheable(o)
             /\ release(k)
             /\ lapses' = IF tasks[t].owner /\ tasks[t].mutated
                          THEN [lapses EXCEPT ![k] = @ + 1] ELSE lapses
    <2>1. /\ entries'[k] = Absent /\ UNCHANGED recorded
          /\ \A j \in Keys : j # k => entries'[j] = entries[j]
      BY <1>6 DEF release, DedupInv, TypedInv, TypeOK
    <2>2. /\ Owns(t, k) /\ recorded[k] = -1 /\ entries[k].status = "inFlight"
          /\ \A u \in Tasks : Owns(u, k) => u = t
      BY <1>1, <1>6 DEF Owns, DedupInv, ClaimInv, OneOwner
    <2>3. ClaimInv' /\ OneOwner' /\ RecordedInv'
      BY <1>3, <2>1, <2>2, WindowsAssumption
         DEF DedupInv, ClaimInv, OneOwner, RecordedInv, Absent
    <2>4. AccountInv'
      <3> SUFFICES ASSUME NEW j \in Keys
                   PROVE  applied'[j] <= lapses'[j] + IF Accounted(j)' THEN 1 ELSE 0
        BY DEF AccountInv
      <3>0. /\ applied[j] \in Nat /\ lapses[j] \in Nat
            /\ applied[j] <= lapses[j] + IF Accounted(j) THEN 1 ELSE 0
        BY DEF DedupInv, AccountInv, TypedInv, TypeOK
      <3>1. CASE j = k /\ tasks[t].mutated
        <4>1. lapses'[j] = lapses[j] + 1
          BY <1>6, <3>1 DEF DedupInv, TypedInv, TypeOK
        <4> QED
          BY <1>1, <3>0, <4>1
      <3>2. CASE j = k /\ ~tasks[t].mutated
        <4>1. lapses'[j] = lapses[j]
          BY <1>6, <3>2
        <4>2. ~Accounted(j)
          BY <2>2, <3>2, WindowsAssumption DEF Accounted
        <4> QED
          BY <1>1, <3>0, <4>1, <4>2
      <3>3. CASE j # k
        <4>1. lapses'[j] = lapses[j]
          BY <1>6, <3>3 DEF DedupInv, TypedInv, TypeOK
        <4>2. \A u \in Tasks : Owns(u, j) => u # t
          BY <3>3 DEF Owns
        <4>3. Accounted(j)' <=> Accounted(j)
          BY <1>3, <2>1, <3>3, <4>2 DEF Accounted
        <4> QED
          BY <1>1, <3>0, <4>1, <4>3
      <3> QED
        BY <3>1, <3>2, <3>3
    <2>5. AnswersInv'
      <3>1. answers' = answers
        BY <1>1, <1>6
      <3>2. \A j \in Keys : recorded[j] \in 0..RedeliveryWindow - 1 => entries'[j] = entries[j]
        BY <2>1, <2>2
      <3> QED
        BY <1>3, <2>1, <3>1, <3>2 DEF DedupInv, AnswersInv
    <2> QED
      BY <2>3, <2>4, <2>5 DEF DedupInv
  <1>7. CASE tasks[t].owner /\ is_cacheable(o) /\ complete(k, o) /\ UNCHANGED lapses
    <2>1. /\ entries'[k] = Done(o) /\ recorded'[k] = 0
          /\ \A j \in Keys : j # k => entries'[j] = entries[j] /\ recorded'[j] = recorded[j]
          /\ Owns(t, k) /\ recorded[k] = -1
          /\ \A u \in Tasks : Owns(u, k) => u = t
      BY <1>1, <1>7 DEF complete, Owns, DedupInv, TypedInv, TypeOK, ClaimInv, OneOwner
    <2>2. Done(o).status = "done" /\ Done(o).age = 0 /\ Done(o).outcome = o
      BY DEF Done
    <2>3. ClaimInv' /\ OneOwner' /\ RecordedInv'
      BY <1>3, <2>1, <2>2, WindowsAssumption
         DEF DedupInv, ClaimInv, OneOwner, RecordedInv
    <2>4. AccountInv'
      <3> SUFFICES ASSUME NEW j \in Keys, Accounted(j) PROVE Accounted(j)'
        BY <1>1, <1>7 DEF DedupInv, AccountInv, TypedInv, TypeOK
      <3>1. CASE j = k
        <4>1. tasks[t].mutated
          BY <2>1, <3>1, WindowsAssumption DEF Accounted
        <4>2. o.kind = "ok"
          BY <1>2, <1>7, <4>1 DEF is_cacheable, Outcome, Kinds
        <4> QED
          BY <2>1, <2>2, <3>1, <4>2 DEF Accounted
      <3>2. CASE j # k
        <4>1. \A u \in Tasks : Owns(u, j) => u # t
          BY <3>2 DEF Owns
        <4> QED
          BY <1>3, <2>1, <3>2, <4>1 DEF Accounted
      <3> QED
        BY <3>1, <3>2
    <2>5. AnswersInv'
      <3> SUFFICES ASSUME Mishaps \intersect {"restart", "storeFault"} = {}
                   PROVE  AnswersInv'
        BY DEF AnswersInv
      <3>1. answers[k] = {}
        BY <1>1, <2>1 DEF DedupInv, AnswersInv
      <3>2. answers'[k] = {o} /\ \A j \in Keys : j # k => answers'[j] = answers[j]
        BY <1>1, <1>7, <3>1 DEF DedupInv, TypedInv, TypeOK
      <3>3. \A u \in Tasks : Busy(u)' => tasks'[u].owner
        BY <1>3 DEF DedupInv, AnswersInv
      <3> QED
        BY <2>1, <2>2, <3>2, <3>3 DEF DedupInv, AnswersInv
    <2> QED
      BY <2>3, <2>4, <2>5 DEF DedupInv
  <1>8. \/ ~tasks[t].owner
        \/ /\ tasks[t].owner
           /\ Mishap("storeFault")
           /\ lapses' = IF tasks[t].owner /\ tasks[t].mutated
                        THEN [lapses EXCEPT ![k] = @ + 1] ELSE lapses
           /\ UNCHANGED <<entries, recorded>>
        \/ /\ tasks[t].owner /\ ~is_cacheable(o)
           /\ release(k)
           /\ lapses' = IF tasks[t].owner /\ tasks[t].mutated
                        THEN [lapses EXCEPT ![k] = @ + 1] ELSE lapses
        \/ tasks[t].owner /\ is_cacheable(o) /\ complete(k, o) /\ UNCHANGED lapses
    BY DEF Resolve
  <1> QED
    BY <1>4, <1>5, <1>6, <1>7, <1>8

\* A restart forgets stored outcomes and running owners; each of them that stood
\* for an application becomes a lapse.
LEMMA RestartDedup ==
    ASSUME WellTuned, DedupInv, TypedInv', Restart
    PROVE  DedupInv'
  <1>1. /\ entries' = [k \in Keys |-> Absent]
        /\ recorded' = [k \in Keys |-> IF recorded[k] = RedeliveryWindow THEN recorded[k] ELSE -1]
        /\ "restart" \in Mishaps /\ UNCHANGED applied
    BY DEF Restart, Mishap
  <1>2. \A t \in Tasks : ~Busy(t)'
    BY DEF Restart, Busy, Idle
  <1>3. ClaimInv' /\ OneOwner' /\ AnswersInv'
    BY <1>1, <1>2 DEF ClaimInv, OneOwner, AnswersInv, Owns
  <1>4. RecordedInv'
    BY <1>1, WindowsAssumption DEF RecordedInv, Absent
  <1>5. AccountInv'
    <2> SUFFICES ASSUME NEW j \in Keys
                 PROVE  applied'[j] <= lapses'[j] + IF Accounted(j)' THEN 1 ELSE 0
      BY DEF AccountInv
    <2>0. /\ applied[j] \in Nat /\ lapses[j] \in Nat
          /\ applied[j] <= lapses[j] + IF Accounted(j) THEN 1 ELSE 0
          /\ recorded[j] \in -1..RedeliveryWindow
      BY DEF DedupInv, AccountInv, TypedInv, TypeOK
    <2>1. lapses'[j] = IF \/ \E t \in Tasks : Owns(t, j) /\ tasks[t].mutated
                          \/ /\ recorded[j] < RedeliveryWindow
                             /\ entries[j].status = "done" /\ entries[j].outcome.kind = "ok"
                       THEN lapses[j] + 1 ELSE lapses[j]
      BY DEF Restart
    <2>2. CASE recorded[j] = RedeliveryWindow
      BY <1>1, <2>0, <2>1, <2>2 DEF Accounted
    <2>3. CASE recorded[j] # RedeliveryWindow /\ Accounted(j)
      <3>1. lapses'[j] = lapses[j] + 1
        <4>1. CASE \E t \in Tasks : Owns(t, j) /\ tasks[t].mutated
          BY <2>1, <4>1
        <4>2. CASE recorded[j] # -1 /\ entries[j].outcome.kind = "ok"
          BY <2>0, <2>1, <2>3, <4>2, WindowsAssumption DEF DedupInv, RecordedInv
        <4> QED
          BY <2>3, <4>1, <4>2 DEF Accounted
      <3> QED
        BY <1>1, <2>0, <3>1
    <2>4. CASE ~Accounted(j)
      BY <1>1, <2>0, <2>1, <2>4
    <2> QED
      BY <2>2, <2>3, <2>4
  <1> QED
    BY <1>3, <1>4, <1>5 DEF DedupInv

\* Time: a claim and its owner age together, a stored outcome no faster than the
\* redelivery window of its document.
LEMMA TickDedup ==
    ASSUME WellTuned, DedupInv, TypedInv', Tick
    PROVE  DedupInv'
  <1>1. /\ \A t \in Tasks : Busy(t) => tasks[t].age < HandlerBound
        /\ UNCHANGED <<mishaps, runs, applied, lapses, answers>>
        /\ \A k \in Keys : recorded'[k] = IF recorded[k] = -1 THEN -1
                                          ELSE Older(recorded[k], RedeliveryWindow)
    BY DEF Tick
  <1>2. \A t \in Tasks : /\ tasks'[t].pc = tasks[t].pc /\ tasks'[t].key = tasks[t].key
                         /\ tasks'[t].owner = tasks[t].owner
                         /\ tasks'[t].mutated = tasks[t].mutated
                         /\ Busy(t) => tasks'[t].age = tasks[t].age + 1
    BY DEF Tick, DedupInv, TypedInv, TypeOK, Task
  <1>3. \A k \in Keys : /\ entries'[k].status = entries[k].status
                        /\ entries'[k].outcome = entries[k].outcome
                        /\ entries[k].status # "absent" =>
                             entries'[k].age = Older(entries[k].age, AgeCap)
    BY DEF Tick, DedupInv, TypedInv, TypeOK, Entry
  <1>4. \A t \in Tasks : Busy(t)' <=> Busy(t)
    BY <1>2 DEF Busy
  <1>5. \A t \in Tasks, k \in Keys : Owns(t, k)' <=> Owns(t, k)
    BY <1>2, <1>4, Zenon DEF Owns
  <1>6. \A k \in Keys : /\ recorded'[k] = -1 <=> recorded[k] = -1
                        /\ recorded'[k] \in 0..RedeliveryWindow - 1 =>
                             /\ recorded[k] \in 0..RedeliveryWindow - 1
                             /\ recorded'[k] = recorded[k] + 1
                        /\ recorded[k] = RedeliveryWindow => recorded'[k] = RedeliveryWindow
    BY <1>1, WindowsAssumption DEF Older, DedupInv, TypedInv, TypeOK
  <1>7. ClaimInv'
    <2> SUFFICES ASSUME NEW k \in Keys, NEW t \in Tasks, Owns(t, k)
                 PROVE  /\ entries'[k].status = "inFlight"
                        /\ entries'[k].age = tasks'[t].age
                        /\ recorded'[k] = -1
      BY <1>5 DEF ClaimInv
    <2>1. /\ entries[k].status = "inFlight" /\ recorded[k] = -1
          /\ entries[k].age = tasks[t].age
      BY DEF DedupInv, ClaimInv
    <2>2. tasks[t].age \in Nat /\ tasks[t].age < HandlerBound
      BY <1>1, WindowsAssumption DEF Owns, DedupInv, TypedInv, TypeOK, Task
    <2>3. tasks[t].age < AgeCap
      BY <2>2, AgeCapIsCap, WindowsAssumption DEF WellTuned
    <2>4. entries'[k].age = entries[k].age + 1
      BY <1>3, <2>1, <2>3 DEF Older
    <2>5. Busy(t)
      BY DEF Owns
    <2> QED
      BY <1>2, <1>3, <1>6, <2>1, <2>4, <2>5
  <1>8. OneOwner'
    BY <1>5 DEF DedupInv, OneOwner
  <1>9. RecordedInv'
    <2> SUFFICES ASSUME NEW k \in Keys
                 PROVE  /\ recorded'[k] \in 0..RedeliveryWindow - 1 =>
                             entries'[k].status = "done" /\ entries'[k].age <= recorded'[k]
                        /\ entries'[k].status = "done" => recorded'[k] # -1
      BY DEF RecordedInv
    <2>1. entries[k].age \in 0..AgeCap
      BY DEF DedupInv, TypedInv, TypeOK, Entry
    <2>2. Older(entries[k].age, AgeCap) <= entries[k].age + 1
      BY <2>1, OlderType, AgeCapIsCap
    <2>3. /\ recorded[k] \in 0..RedeliveryWindow - 1 =>
               entries[k].status = "done" /\ entries[k].age <= recorded[k]
          /\ entries[k].status = "done" => recorded[k] # -1
      BY DEF DedupInv, RecordedInv
    <2>4. Older(entries[k].age, AgeCap) \in Nat
      BY <2>1, AgeCapIsCap DEF Older
    <2>5. ASSUME recorded'[k] \in 0..RedeliveryWindow - 1
          PROVE  entries'[k].status = "done" /\ entries'[k].age <= recorded'[k]
      <3>1. /\ entries[k].status = "done" /\ entries[k].age <= recorded[k]
            /\ recorded'[k] = recorded[k] + 1 /\ recorded[k] \in Nat
        <4>1. recorded[k] \in 0..RedeliveryWindow - 1 /\ recorded'[k] = recorded[k] + 1
          BY <1>6, <2>5
        <4> QED
          BY <2>3, <4>1, WindowsAssumption
      <3>2. entries'[k].status = "done" /\ entries'[k].age = Older(entries[k].age, AgeCap)
        BY <1>3, <3>1
      <3> QED
        BY <2>1, <2>2, <2>4, <3>1, <3>2, AgeCapIsCap, SMT
    <2> QED
      BY <1>3, <1>6, <2>3, <2>5
  <1>10. AccountInv'
    <2> SUFFICES ASSUME NEW k \in Keys, Accounted(k) PROVE Accounted(k)'
      BY <1>1 DEF DedupInv, AccountInv, TypedInv, TypeOK
    <2> QED
      BY <1>2, <1>3, <1>5, <1>6 DEF Accounted
  <1>11. AnswersInv'
    <2> SUFFICES ASSUME Mishaps \intersect {"restart", "storeFault"} = {}
                 PROVE  AnswersInv'
      BY DEF AnswersInv
    <2>1. \A t \in Tasks : Busy(t)' => tasks'[t].owner
      BY <1>2, <1>4, Zenon DEF DedupInv, AnswersInv
    <2> QED
      BY <1>1, <1>3, <1>6, <2>1 DEF DedupInv, AnswersInv
  <1> QED
    BY <1>7, <1>8, <1>9, <1>10, <1>11 DEF DedupInv

\* DedupInv is inductive.
LEMMA NextDedup ==
    ASSUME WellTuned
    PROVE  DedupInv /\ [Next]_vars => DedupInv'
  <1> SUFFICES ASSUME DedupInv, [Next]_vars PROVE DedupInv'
    OBVIOUS
  <1>1. TypedInv'
    BY NextTyped DEF DedupInv
  <1>2. CASE UNCHANGED vars
    BY <1>1, <1>2 DEF vars, DedupInv, ClaimInv, OneOwner, RecordedInv, AccountInv, Accounted,
                      AnswersInv, Owns, Busy
  <1>3. CASE Next
    BY <1>1, <1>3, AcquireDedup, TurnAwayDedup, ReplayDedup, FailOpenDedup, MutateDedup,
       ReturnDedup, ResolveDedup, PanicDedup, RestartDedup, TickDedup DEF Next
  <1> QED
    BY <1>2, <1>3

\* With well tuned windows the invariant behind dispatch_idempotent's promises
\* holds: claims belong to running handlers, and stored outcomes outlast redelivery.
THEOREM DedupInvariant ==
    ASSUME WellTuned
    PROVE  Spec => []DedupInv
  <1>1. DedupInv /\ [Next]_vars => DedupInv'
    BY NextDedup
  <1> QED
    BY <1>1, InitDedup, PTL DEF Spec

\* Mutual exclusion: a copy that arrives while another is being handled never
\* gets past claim, whatever fails.
THEOREM OneOwnerHolds ==
    ASSUME WellTuned
    PROVE  Spec => []OneOwner
  <1>1. DedupInv => OneOwner
    BY DEF DedupInv
  <1> QED
    BY <1>1, DedupInvariant, PTL

\* Redelivery never applies a document again: every application after the first
\* is paid for by a panic, a restart, a store fault, or a backend that failed
\* after it had applied the write.
THEOREM AppliedOncePerLapseHolds ==
    ASSUME WellTuned
    PROVE  Spec => []AppliedOncePerLapse
  <1>1. DedupInv => AppliedOncePerLapse
    BY DEF DedupInv, AccountInv, AppliedOncePerLapse, TypedInv, TypeOK
  <1> QED
    BY <1>1, DedupInvariant, PTL

\* Losing track of some documents is a lapse of WriteOnce.
LEMMA LapseStep ==
    ASSUME TypeOK, TypeOK', UNCHANGED applied,
           \A k \in Keys : lapses'[k] = lapses[k] \/ lapses'[k] = lapses[k] + 1
    PROVE  Promise!Next
  <1> DEFINE L == {k \in Keys : lapses'[k] # lapses[k]}
  <1>1. Promise!Lapse(L)
    <2>1. lapses' = [k \in Keys |-> lapses'[k]]
      BY Zenon DEF TypeOK
    <2>2. \A k \in Keys : lapses'[k] = IF k \in L THEN lapses[k] + 1 ELSE lapses[k]
      OBVIOUS
    <2> QED
      BY <2>1, <2>2, Zenon DEF Promise!Lapse
  <1>2. L \in SUBSET Keys
    OBVIOUS
  <1> QED
    BY <1>1, <1>2, Zenon DEF Promise!Next

\* A mutation is an application of WriteOnce: its owner is the only one whose
\* application is not yet accounted for, and one without a claim is a lapse at once.
LEMMA MutateStep ==
    ASSUME DedupInv, TypeOK', NEW t \in Tasks, Mutate(t)
    PROVE  Promise!Next
  <1> DEFINE k == tasks[t].key
             L == IF tasks[t].owner THEN {} ELSE {k}
  <1>1. k \in Keys /\ Busy(t)
    BY DEF Mutate, DedupInv, TypedInv, Busy
  <1>2. /\ applied \in [Keys -> Nat] /\ lapses \in [Keys -> Nat]
        /\ applied' \in [Keys -> Nat] /\ lapses' \in [Keys -> Nat]
    BY DEF DedupInv, TypedInv, TypeOK
  <1>3. /\ ~tasks[t].mutated
        /\ applied' = [applied EXCEPT ![k] = @ + 1]
        /\ lapses' = IF tasks[t].owner THEN lapses ELSE [lapses EXCEPT ![k] = @ + 1]
    BY Zenon DEF Mutate
  <1>4. applied[k] <= lapses[k] + IF Accounted(k) THEN 1 ELSE 0
    BY <1>1 DEF DedupInv, AccountInv
  <1>5. CASE tasks[t].owner
    <2>1. Owns(t, k)
      BY <1>1, <1>5, Zenon DEF Owns
    <2>2. recorded[k] = -1
      BY <1>1, <2>1 DEF DedupInv, ClaimInv
    <2>3. \A s \in Tasks : Owns(s, k) => s = t
      BY <1>1, <2>1 DEF DedupInv, OneOwner
    <2>4. ~ \E s \in Tasks : Owns(s, k) /\ tasks[s].mutated
      BY <1>3, <2>3, Zenon
    <2>5. -1 # RedeliveryWindow
      BY WindowsAssumption
    <2>6. ~Accounted(k)
      BY <2>2, <2>4, <2>5, Zenon DEF Accounted
    <2>7. applied[k] <= lapses[k]
      BY <1>1, <1>2, <1>4, <2>6
    <2>8. lapses' = lapses
      BY <1>3, <1>5, Zenon
    <2>9. Promise!Apply(k)
      BY <1>3, <2>7, <2>8 DEF Promise!Apply
    <2>10. Promise!Lapse({})
      BY <1>2, <2>8 DEF Promise!Lapse
    <2> QED
      BY <1>1, <2>9, <2>10, Zenon DEF Promise!Next
  <1>6. CASE ~tasks[t].owner
    <2>1. lapses' = [lapses EXCEPT ![k] = @ + 1]
      BY <1>3, <1>6, Zenon
    <2>2. applied[k] <= lapses[k] + 1
      BY <1>1, <1>2, <1>4
    <2>3. Promise!Apply(k)
      BY <1>1, <1>2, <1>3, <2>1, <2>2 DEF Promise!Apply
    <2>4. Promise!Lapse({k})
      BY <1>1, <1>2, <2>1 DEF Promise!Lapse
    <2>5. {k} \in SUBSET Keys
      BY <1>1
    <2> QED
      BY <1>1, <2>3, <2>4, <2>5, Zenon DEF Promise!Next
  <1> QED
    BY <1>5, <1>6

\* Every step of the store and its tasks is a step of WriteOnce, or none.
LEMMA StepImplements ==
    ASSUME DedupInv, TypedInv', [Next]_vars
    PROVE  [Promise!Next]_<<applied, lapses>>
  <1> USE DEF TypedInv
  <1>1. TypeOK /\ TypeOK' /\ lapses \in [Keys -> Nat]
    BY DEF DedupInv, TypeOK
  <1>2. ASSUME NEW t \in Tasks, Resolve(t) PROVE Promise!Next
    <2>1. UNCHANGED applied /\ \A k \in Keys : lapses'[k] = lapses[k] \/ lapses'[k] = lapses[k] + 1
      BY <1>1, <1>2 DEF Resolve
    <2> QED
      BY <1>1, <2>1, LapseStep
  <1>3. ASSUME NEW t \in Tasks, Panic(t) PROVE Promise!Next
    <2>1. UNCHANGED applied /\ \A k \in Keys : lapses'[k] = lapses[k] \/ lapses'[k] = lapses[k] + 1
      BY <1>1, <1>3 DEF Panic
    <2> QED
      BY <1>1, <2>1, LapseStep
  <1>4. ASSUME Restart PROVE Promise!Next
    <2>1. UNCHANGED applied /\ \A k \in Keys : lapses'[k] = lapses[k] \/ lapses'[k] = lapses[k] + 1
      BY <1>1, <1>4 DEF Restart
    <2> QED
      BY <1>1, <2>1, LapseStep
  <1>5. ASSUME NEW t \in Tasks, Mutate(t) PROVE Promise!Next
    BY <1>1, <1>5, MutateStep
  <1>6. ASSUME NEW t \in Tasks, NEW k \in Keys,
               Acquire(t, k) \/ TurnAway(t, k) \/ Replay(t, k) \/ FailOpen(t, k) \/ Return(t)
        PROVE  UNCHANGED <<applied, lapses>>
    BY <1>6 DEF Acquire, TurnAway, Replay, FailOpen, Return
  <1>7. ASSUME NEW t \in Tasks, Return(t) PROVE UNCHANGED <<applied, lapses>>
    BY <1>7 DEF Return
  <1>8. CASE Tick
    BY <1>8 DEF Tick
  <1>9. CASE UNCHANGED vars
    BY <1>9 DEF vars
  <1> QED
    BY <1>2, <1>3, <1>4, <1>5, <1>6, <1>7, <1>8, <1>9 DEF Next

\* The write path implements WriteOnce: a document is applied once, and each
\* further application comes after a lapse of its own.
THEOREM ImplementsWriteOnceHolds ==
    ASSUME WellTuned
    PROVE  Spec => ImplementsWriteOnce
  <1>1. Init => Promise!Init
    BY DEF Init, Promise!Init
  <1>2. DedupInv /\ TypedInv' /\ [Next]_vars => [Promise!Next]_<<applied, lapses>>
    BY StepImplements
  <1>3. DedupInv => TypedInv
    BY DEF DedupInv
  <1> QED
    BY <1>1, <1>2, <1>3, DedupInvariant, PTL DEF Spec, ImplementsWriteOnce, Promise!Spec

\* In one life of the process and with a working store, all definitive answers to
\* one document come from the same run of its handler.
THEOREM AnswersAgreeHolds ==
    ASSUME WellTuned
    PROVE  Spec => []AnswersAgree
  <1>1. DedupInv => AnswersAgree
    BY DEF DedupInv, AnswersInv, AnswersAgree
  <1> QED
    BY <1>1, DedupInvariant, PTL

-----------------------------------------------------------------------------
(* What lapses cost                                                        *)

\* One more handler may owe an application, or one fewer.
LEMMA OwingGrows ==
    ASSUME NEW S, NEW T, NEW t, IsFiniteSet(S), T \subseteq S \union {t}
    PROVE  IsFiniteSet(T) /\ Cardinality(T) <= Cardinality(S) + 1
  <1>1. /\ IsFiniteSet(S \union {t})
        /\ Cardinality(S \union {t}) = Cardinality(S) \/ Cardinality(S \union {t}) = Cardinality(S) + 1
    BY FS_AddElement
  <1>2. IsFiniteSet(T) /\ Cardinality(T) <= Cardinality(S \union {t})
    BY <1>1, FS_Subset
  <1> QED
    BY <1>1, <1>2, FS_CardinalityType

LEMMA OwingShrinks ==
    ASSUME NEW S, NEW T, NEW t \in S, IsFiniteSet(S), T \subseteq S \ {t}
    PROVE  IsFiniteSet(T) /\ Cardinality(T) + 1 <= Cardinality(S)
  <1>1. IsFiniteSet(S \ {t}) /\ Cardinality(S \ {t}) = Cardinality(S) - 1
    BY FS_RemoveElement
  <1>2. IsFiniteSet(T) /\ Cardinality(T) <= Cardinality(S \ {t})
    BY <1>1, FS_Subset
  <1> QED
    BY <1>1, <1>2, FS_CardinalityType

\* The account of one document after a step: a failure pays for a lapse or for one
\* more handler that owes, and a lapse without a failure is one that was owed.
LEMMA MishapsAccount ==
    ASSUME NEW S, NEW T, IsFiniteSet(S),
           NEW l \in Nat, NEW m \in Nat, NEW l2 \in Nat, NEW m2 \in Nat,
           l + Cardinality(S) <= m,
           \/ T \subseteq S /\ l2 = l /\ m2 >= m
           \/ T \subseteq S /\ (l2 = l \/ l2 = l + 1) /\ m2 = m + 1
           \/ \E t : T \subseteq S \union {t} /\ l2 = l /\ m2 = m + 1
           \/ \E t \in S : T \subseteq S \ {t} /\ l2 = l + 1 /\ m2 = m
    PROVE  IsFiniteSet(T) /\ l2 + Cardinality(T) <= m2
  <1>1. Cardinality(S) \in Nat
    BY FS_CardinalityType
  <1>2. CASE T \subseteq S /\ (l2 = l \/ l2 = l + 1) /\ m2 - l2 >= m - l
    <2>1. IsFiniteSet(T) /\ Cardinality(T) <= Cardinality(S)
      BY <1>2, FS_Subset
    <2>2. Cardinality(T) \in Nat
      BY <2>1, FS_CardinalityType
    <2> QED
      BY <1>1, <1>2, <2>1, <2>2
  <1>3. CASE \E t : T \subseteq S \union {t} /\ l2 = l /\ m2 = m + 1
    <2>1. IsFiniteSet(T) /\ Cardinality(T) <= Cardinality(S) + 1
      BY <1>3, OwingGrows
    <2>2. Cardinality(T) \in Nat
      BY <2>1, FS_CardinalityType
    <2> QED
      BY <1>1, <1>3, <2>1, <2>2
  <1>4. CASE \E t \in S : T \subseteq S \ {t} /\ l2 = l + 1 /\ m2 = m
    <2>1. IsFiniteSet(T) /\ Cardinality(T) + 1 <= Cardinality(S)
      BY <1>4, OwingShrinks
    <2>2. Cardinality(T) \in Nat
      BY <2>1, FS_CardinalityType
    <2> QED
      BY <1>1, <1>4, <2>1, <2>2
  <1> QED
    BY <1>2, <1>3, <1>4

\* At first nothing went wrong, and nobody owes anything.
LEMMA InitMishaps == Init => MishapsInv
  <1> SUFFICES ASSUME Init, NEW k \in Keys
               PROVE  IsFiniteSet(Owing(k)) /\ lapses[k] + Cardinality(Owing(k)) <= mishaps
    BY DEF MishapsInv
  <1>1. Owing(k) = {}
    BY DEF Init, Owing, Busy, Idle
  <1> QED
    BY <1>1, FS_EmptySet DEF Init

\* A handler may come to owe something by a failure only, and ceases to when it has
\* a lapse to show for it.
LEMMA OwingStep ==
    ASSUME TypedInv, TypedInv', [Next]_vars, NEW k \in Keys
    PROVE  \/ Owing(k)' \subseteq Owing(k) /\ lapses'[k] = lapses[k] /\ mishaps' >= mishaps
           \/ /\ Owing(k)' \subseteq Owing(k) /\ mishaps' = mishaps + 1
              /\ lapses'[k] = lapses[k] \/ lapses'[k] = lapses[k] + 1
           \/ \E t : Owing(k)' \subseteq Owing(k) \union {t} /\ lapses'[k] = lapses[k] /\ mishaps' = mishaps + 1
           \/ \E t \in Owing(k) : /\ Owing(k)' \subseteq Owing(k) \ {t}
                                  /\ lapses'[k] = lapses[k] + 1 /\ mishaps' = mishaps
  <1>0. /\ tasks \in [Tasks -> Task] /\ tasks' \in [Tasks -> Task]
        /\ lapses \in [Keys -> Nat] /\ mishaps \in Nat
    BY MishapsAssumption DEF TypedInv, TypeOK
  <1>1. Idle.pc = "idle"
    BY DEF Idle
  <1> DEFINE Owes(r) == /\ r.pc # "idle" /\ r.key = k
                        /\ \/ ~r.owner /\ ~r.mutated
                           \/ /\ r.owner /\ r.mutated
                              /\ r.pc = "returned" /\ r.outcome.kind = "retryable"
  \* A step of one task.
  <1>2. ASSUME NEW t \in Tasks, NEW r, tasks' = [tasks EXCEPT ![t] = r]
        PROVE  /\ Owing(k)' \subseteq Owing(k) \union {t}
               /\ ~Owes(r) => Owing(k)' \subseteq Owing(k) \ {t}
               /\ Owes(tasks[t]) => Owing(k)' \subseteq Owing(k)
    <2>1. Owing(k) = {u \in Tasks : Owes(tasks[u])} /\ Owing(k)' = {u \in Tasks : Owes(tasks'[u])}
      BY DEF Owing, Busy
    <2>2. tasks'[t] = r /\ \A u \in Tasks \ {t} : tasks'[u] = tasks[u]
      BY <1>0, <1>2
    <2> HIDE DEF Owes
    <2> QED
      BY <2>1, <2>2
  <1>3. ASSUME NEW t \in Tasks, NEW j \in Keys, Acquire(t, j)
        PROVE  Owing(k)' \subseteq Owing(k) /\ lapses' = lapses /\ mishaps' = mishaps
    <2> DEFINE r == [pc |-> "running", key |-> j, owner |-> TRUE, mutated |-> FALSE,
                     age |-> 0, outcome |-> NoOutcome]
    <2>1. tasks' = [tasks EXCEPT ![t] = r] /\ lapses' = lapses /\ mishaps' = mishaps
      BY <1>3 DEF Acquire, Start
    <2>2. ~Owes(r)
      OBVIOUS
    <2> HIDE DEF r, Owes
    <2>3. Owing(k)' \subseteq Owing(k) \ {t}
      BY <1>2, <2>1, <2>2
    <2> QED
      BY <2>1, <2>3
  <1>4. ASSUME NEW t \in Tasks, NEW j \in Keys, TurnAway(t, j) \/ Replay(t, j)
        PROVE  UNCHANGED <<tasks, lapses, mishaps>>
    BY <1>4 DEF TurnAway, Replay
  <1>5. ASSUME NEW t \in Tasks, NEW j \in Keys, FailOpen(t, j)
        PROVE  Owing(k)' \subseteq Owing(k) \union {t} /\ lapses' = lapses /\ mishaps' = mishaps + 1
    <2> DEFINE r == [pc |-> "running", key |-> j, owner |-> FALSE, mutated |-> FALSE,
                     age |-> 0, outcome |-> NoOutcome]
    <2>1. tasks' = [tasks EXCEPT ![t] = r] /\ lapses' = lapses /\ mishaps' = mishaps + 1
      BY <1>5 DEF FailOpen, Start, Mishap
    <2> QED
      BY <1>2, <2>1
  <1>6. ASSUME NEW t \in Tasks, Mutate(t)
        PROVE  \/ Owing(k)' \subseteq Owing(k) /\ lapses'[k] = lapses[k] /\ mishaps' = mishaps
               \/ /\ t \in Owing(k) /\ Owing(k)' \subseteq Owing(k) \ {t}
                  /\ lapses'[k] = lapses[k] + 1 /\ mishaps' = mishaps
    <2> DEFINE r == [tasks[t] EXCEPT !.mutated = TRUE]
    <2>1. /\ tasks' = [tasks EXCEPT ![t] = r] /\ mishaps' = mishaps
          /\ tasks[t].pc = "running" /\ ~tasks[t].mutated
          /\ lapses' = IF tasks[t].owner THEN lapses
                       ELSE [lapses EXCEPT ![tasks[t].key] = @ + 1]
      BY <1>0, <1>6 DEF Mutate
    <2>2. r.pc = "running" /\ r.owner = tasks[t].owner /\ r.mutated /\ r.key = tasks[t].key
      BY <1>0, <2>1 DEF Task
    <2> HIDE DEF r
    <2>3. CASE tasks[t].owner
      BY <1>2, <2>1, <2>2, <2>3
    <2>4. CASE ~tasks[t].owner /\ tasks[t].key = k
      <3>1. t \in Owing(k)
        BY <2>1, <2>4 DEF Owing, Busy
      <3> QED
        BY <1>0, <1>2, <2>1, <2>2, <2>4, <3>1
    <2>5. CASE ~tasks[t].owner /\ tasks[t].key # k
      BY <1>0, <1>2, <2>1, <2>2, <2>5
    <2> QED
      BY <2>3, <2>4, <2>5
  <1>7. ASSUME NEW t \in Tasks, Return(t)
        PROVE  \/ Owing(k)' \subseteq Owing(k) /\ lapses' = lapses /\ mishaps' = mishaps
               \/ Owing(k)' \subseteq Owing(k) \union {t} /\ lapses' = lapses /\ mishaps' = mishaps + 1
    <2>1. PICK kind \in Kinds :
            /\ tasks' = [tasks EXCEPT ![t].pc = "returned",
                            ![t].outcome = [kind |-> kind, run |-> runs[tasks[t].key]]]
            /\ \/ /\ kind = IF tasks[t].mutated THEN "ok" ELSE "rejected"
                  /\ UNCHANGED mishaps
               \/ kind = "retryable" /\ Mishap("transient")
      BY <1>7 DEF Return
    <2> DEFINE r == [tasks[t] EXCEPT !.pc = "returned",
                                     !.outcome = [kind |-> kind, run |-> runs[tasks[t].key]]]
    <2>2. tasks' = [tasks EXCEPT ![t] = r] /\ lapses' = lapses /\ tasks[t].pc = "running"
      BY <1>0, <1>7, <2>1 DEF Return
    <2>3. /\ r.pc = "returned" /\ r.owner = tasks[t].owner /\ r.mutated = tasks[t].mutated
          /\ r.key = tasks[t].key /\ r.outcome.kind = kind
      BY <1>0, <2>1 DEF Task
    <2> HIDE DEF r
    <2>4. CASE kind = "retryable" /\ Mishap("transient")
      BY <1>2, <2>2, <2>4 DEF Mishap
    <2>5. CASE kind # "retryable" /\ UNCHANGED mishaps
      BY <1>0, <1>2, <2>2, <2>3, <2>5 DEF Task
    <2> QED
      BY <2>1, <2>4, <2>5
  <1>8. ASSUME NEW t \in Tasks, Resolve(t)
        PROVE  \/ Owing(k)' \subseteq Owing(k) /\ lapses'[k] = lapses[k] /\ mishaps' = mishaps
               \/ /\ Owing(k)' \subseteq Owing(k) /\ mishaps' = mishaps + 1
                  /\ lapses'[k] = lapses[k] \/ lapses'[k] = lapses[k] + 1
               \/ /\ t \in Owing(k) /\ Owing(k)' \subseteq Owing(k) \ {t}
                  /\ lapses'[k] = lapses[k] + 1 /\ mishaps' = mishaps
    <2> DEFINE j == tasks[t].key
               o == tasks[t].outcome
               mutated == tasks[t].owner /\ tasks[t].mutated
    <2>1. tasks' = [tasks EXCEPT ![t] = Idle] /\ tasks[t].pc = "returned"
      BY <1>8 DEF Resolve
    <2>2. Owing(k)' \subseteq Owing(k) \ {t}
      BY <1>1, <1>2, <2>1
    <2>3. \/ UNCHANGED <<mishaps, lapses>>
          \/ /\ UNCHANGED mishaps
             /\ lapses' = IF mutated /\ ~is_cacheable(o) THEN [lapses EXCEPT ![j] = @ + 1] ELSE lapses
          \/ /\ mishaps' = mishaps + 1
             /\ lapses' = IF mutated THEN [lapses EXCEPT ![j] = @ + 1] ELSE lapses
      BY <1>8 DEF Resolve, Mishap
    <2>4. CASE lapses' = lapses
      BY <2>2, <2>3, <2>4
    <2>5. CASE mutated /\ ~is_cacheable(o) /\ UNCHANGED mishaps /\ lapses' = [lapses EXCEPT ![j] = @ + 1]
      <3>1. CASE j = k
        <4>1. t \in Owing(k)
          BY <2>1, <2>5, <3>1 DEF Owing, Busy, is_cacheable
        <4> QED
          BY <1>0, <2>2, <2>5, <3>1, <4>1
      <3>2. CASE j # k
        BY <1>0, <2>2, <2>5, <3>2
      <3> QED
        BY <3>1, <3>2
    <2>6. CASE mishaps' = mishaps + 1 /\ lapses' = [lapses EXCEPT ![j] = @ + 1]
      BY <1>0, <2>2, <2>6
    <2> QED
      BY <2>3, <2>4, <2>5, <2>6
  <1>9. ASSUME NEW t \in Tasks, Panic(t)
        PROVE  /\ Owing(k)' \subseteq Owing(k) /\ mishaps' = mishaps + 1
               /\ lapses'[k] = lapses[k] \/ lapses'[k] = lapses[k] + 1
    <2>1. /\ tasks' = [tasks EXCEPT ![t] = Idle] /\ mishaps' = mishaps + 1
          /\ lapses' = lapses \/ lapses' = [lapses EXCEPT ![tasks[t].key] = @ + 1]
      BY <1>9 DEF Panic, Mishap
    <2>2. Owing(k)' \subseteq Owing(k) \ {t}
      BY <1>1, <1>2, <2>1
    <2> QED
      BY <1>0, <2>1, <2>2
  <1>10. ASSUME Restart
         PROVE  /\ Owing(k)' \subseteq Owing(k) /\ mishaps' = mishaps + 1
                /\ lapses'[k] = lapses[k] \/ lapses'[k] = lapses[k] + 1
    <2>1. tasks' = [t \in Tasks |-> Idle] /\ mishaps' = mishaps + 1
      BY <1>10 DEF Restart, Mishap
    <2>2. Owing(k)' = {}
      BY <1>1, <2>1 DEF Owing, Busy
    <2>3. lapses'[k] = lapses[k] \/ lapses'[k] = lapses[k] + 1
      BY <1>10 DEF Restart
    <2> QED
      BY <2>1, <2>2, <2>3
  <1>11. ASSUME Tick
         PROVE  Owing(k)' \subseteq Owing(k) /\ lapses' = lapses /\ mishaps' = mishaps
    <2>1. /\ tasks' = [t \in Tasks |->
                         IF Busy(t) THEN [tasks[t] EXCEPT !.age = @ + 1] ELSE tasks[t]]
          /\ lapses' = lapses /\ mishaps' = mishaps
      BY <1>11 DEF Tick
    <2>2. \A t \in Tasks :
            /\ tasks'[t].pc = tasks[t].pc /\ tasks'[t].key = tasks[t].key
            /\ tasks'[t].owner = tasks[t].owner /\ tasks'[t].mutated = tasks[t].mutated
            /\ tasks'[t].outcome = tasks[t].outcome
      BY <1>0, <2>1 DEF Task
    <2> QED
      BY <2>1, <2>2 DEF Owing, Busy
  <1>12. ASSUME UNCHANGED <<tasks, lapses, mishaps>>
         PROVE  Owing(k)' \subseteq Owing(k) /\ lapses' = lapses /\ mishaps' = mishaps
    BY <1>12 DEF Owing, Busy
  <1>13. CASE UNCHANGED vars
    BY <1>0, <1>12, <1>13 DEF vars
  <1> QED
    BY <1>0, <1>3, <1>4, <1>5, <1>6, <1>7, <1>8, <1>9, <1>10, <1>11, <1>12, <1>13 DEF Next

\* Each lapse, past or to come, has a failure of its own, whatever the windows.
THEOREM MishapsInvariant == Spec => []MishapsInv
  <1>1. MishapsInv /\ TypedInv /\ TypedInv' /\ [Next]_vars => MishapsInv'
    <2> SUFFICES ASSUME MishapsInv, TypedInv, TypedInv', [Next]_vars, NEW k \in Keys
                 PROVE  IsFiniteSet(Owing(k)') /\ lapses'[k] + Cardinality(Owing(k)') <= mishaps'
      BY DEF MishapsInv
    <2>1. /\ lapses[k] \in Nat /\ lapses'[k] \in Nat /\ mishaps \in Nat /\ mishaps' \in Nat
          /\ IsFiniteSet(Owing(k)) /\ lapses[k] + Cardinality(Owing(k)) <= mishaps
      BY MishapsAssumption DEF MishapsInv, TypedInv, TypeOK
    <2> DEFINE S == Owing(k)
               T == Owing(k)'
    <2>2. \/ T \subseteq S /\ lapses'[k] = lapses[k] /\ mishaps' >= mishaps
          \/ T \subseteq S /\ (lapses'[k] = lapses[k] \/ lapses'[k] = lapses[k] + 1) /\ mishaps' = mishaps + 1
          \/ \E t : T \subseteq S \union {t} /\ lapses'[k] = lapses[k] /\ mishaps' = mishaps + 1
          \/ \E t \in S : T \subseteq S \ {t} /\ lapses'[k] = lapses[k] + 1 /\ mishaps' = mishaps
      BY OwingStep
    <2> HIDE DEF S, T
    <2>3. IsFiniteSet(T) /\ lapses'[k] + Cardinality(T) <= mishaps'
      BY <2>1, <2>2, MishapsAccount DEF S
    <2> QED
      BY <2>3 DEF T
  <1> QED
    BY <1>1, InitMishaps, TypeCorrect, PTL DEF Spec

\* A document is applied once, and once more at most for each failure there was.
THEOREM AppliedOncePerMishapHolds ==
    ASSUME WellTuned
    PROVE  Spec => []AppliedOncePerMishap
  <1>1. TypedInv /\ MishapsInv /\ AppliedOncePerLapse => AppliedOncePerMishap
    <2> SUFFICES ASSUME TypedInv, MishapsInv, AppliedOncePerLapse, NEW k \in Keys
                 PROVE  applied[k] <= 1 + mishaps
      BY DEF AppliedOncePerMishap
    <2>1. applied[k] \in Nat /\ lapses[k] \in Nat /\ mishaps \in Nat
      BY MishapsAssumption DEF TypedInv, TypeOK
    <2>2. Cardinality(Owing(k)) \in Nat /\ lapses[k] + Cardinality(Owing(k)) <= mishaps
      BY FS_CardinalityType DEF MishapsInv
    <2>3. applied[k] <= 1 + lapses[k]
      BY DEF AppliedOncePerLapse
    <2> QED
      BY <2>1, <2>2, <2>3
  <1> QED
    BY <1>1, TypeCorrect, MishapsInvariant, AppliedOncePerLapseHolds, PTL

\* What the source says of dispatch_idempotent, that a redelivery "never mutates
\* the registry twice", holds as long as nothing fails: redelivery alone, of any
\* number of copies in any order, cannot do it.
THEOREM NeverMutatesTwiceUnlessFailed ==
    ASSUME WellTuned, MaxMishaps = 0
    PROVE  Spec => []NeverMutatesTwice
  <1>1. TypedInv /\ AppliedOncePerMishap => NeverMutatesTwice
    BY DEF TypedInv, TypeOK, AppliedOncePerMishap, NeverMutatesTwice
  <1> QED
    BY <1>1, TypeCorrect, AppliedOncePerMishapHolds, PTL

=============================================================================
