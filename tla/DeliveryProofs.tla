--------------------------- MODULE DeliveryProofs ---------------------------
(***************************************************************************)
(* Proofs about Delivery: nothing vanishes, nothing changes without        *)
(* authority, no document is applied twice while it is remembered, and     *)
(* nobody is told otherwise, for any messages, senders, batch sizes and    *)
(* numbers of handlers, and however often anything fails.                  *)
(***************************************************************************)
EXTENDS Delivery, TLAPS

-----------------------------------------------------------------------------
(* The invariant                                                           *)

Stored == {Absent, InFlight} \union [status : {"done"}, outcome : Outcome]
Fates == [kind : FateKinds] \union [kind : {"answered"}, outcome : Outcome]
Entries == [envelope : Envelopes, status : {"SUCCESS", "FAILURE", "UNAUTHORIZED"}]

\* What was sent stays as it is.
Sent(e) == carries[e] # None

SentInv ==
    /\ \A e \in mailbox \union fetched \union effects : Sent(e)
    /\ \A e \in Envelopes : fates[e] # {} => Sent(e)
    /\ \A entry \in trail : Sent(entry.envelope)
    /\ \A x \in Copy : Working(x) => Sent(x[1])

\* A batch is acknowledged when its handlers were started.
KeptInv ==
    /\ NothingVanishes
    /\ \A e \in fetched : Held(e) \/ fates[e] # {}

Resolving(x) == tasks[x].pc \in {"claimed", "dispatched"}

\* A Trust Task that got as far as the deduplication store.
Accepted(m) ==
    /\ m.form = "task" /\ m.fault \notin {"poison", "malformed"}
    /\ Deduplicated(m) /\ ~Refused(m)

Own(x) == <<MessageOf(x).sender, MessageOf(x).id>>

\* Some copy of the document of x changed the repository.
Effected(x) == \E other \in effects : SameDocument(carries[other], MessageOf(x))

\* What the stages of a handler task say of its message.
TaskOK(x) ==
    /\ Resolving(x) => Accepted(MessageOf(x))
    /\ tasks[x].pc = "dispatched" =>
         /\ tasks[x].outcome.of = Own(x)
         /\ tasks[x].mutated => /\ tasks[x].outcome.answer \in {"ok", "failed"}
                                /\ x[1] \in effects
         /\ tasks[x].outcome.answer = "ok" => x[1] \in effects
    /\ tasks[x].pc = "auditing" =>
         /\ MessageOf(x).form = "admin" /\ tasks[x].outcome.of = Own(x)
         /\ tasks[x].outcome.answer = "ok" /\ MessageOf(x).op \in Writes => x[1] \in effects
    /\ tasks[x].pc = "replying" =>
         /\ MessageOf(x).issued => tasks[x].outcome.of = Own(x)
         /\ MessageOf(x).issued /\ tasks[x].outcome.answer = "ok" /\ MessageOf(x).op \in Acting =>
              Effected(x)
         /\ MessageOf(x).form = "admin" =>
              [envelope |-> x[1], status |-> AuditStatus(tasks[x].outcome.answer)] \in trail

TaskInv == \A x \in Copy : TaskOK(x)

\* A document is claimed by one copy at a time, and an outcome that is stored is
\* that of a copy of the document.
ClaimInv ==
    /\ \A x \in Copy : Resolving(x) => memory[message_key(MessageOf(x))] = InFlight
    /\ \A x, y \in Copy :
         /\ Resolving(x) /\ Resolving(y)
         /\ message_key(MessageOf(x)) = message_key(MessageOf(y))
         => x = y

StoredInv ==
    \A d \in Documents : memory[d] \notin {Absent, InFlight} =>
        /\ d[1] # "anonymous" => memory[d].outcome.of = d
        /\ memory[d].outcome.answer = "ok" =>
             \E other \in effects : /\ carries[other].form = "task"
                                    /\ message_key(carries[other]) = d

\* An application that the store or a task can still tell of.
Remembered(d) ==
    \/ memory[d] \notin {Absent, InFlight} /\ memory[d].outcome.answer = "ok"
    \/ \E x \in Copy : /\ tasks[x].pc = "dispatched" /\ tasks[x].mutated
                       /\ message_key(MessageOf(x)) = d

AccountInv ==
    \A d \in Documents :
        /\ applied[d] <= lapses[d] + 1
        /\ applied[d] <= lapses[d] \/ Remembered(d)

MemoryInv == ClaimInv /\ StoredInv /\ AccountInv

HistoryInv == OnlyAuthorisedEffects /\ AuditedBeforeAnswered /\ AcknowledgedWereApplied

\* Everything but the deduplication store and what is forgotten of it.
HandlingInv == TypeOK /\ SentInv /\ KeptInv /\ TaskInv /\ HistoryInv

DeliveryInv == HandlingInv /\ MemoryInv

-----------------------------------------------------------------------------
(* Types                                                                   *)

LEMMA MishapBounded ==
    ASSUME mishaps \in 0..MaxMishaps, NEW kind, Mishap(kind)
    PROVE  mishaps' \in 0..MaxMishaps
BY DeliveryAssumption DEF Mishap

\* What a task is, by its stage.
LEMMA TaskFacts ==
    ASSUME NEW t \in Task
    PROVE  /\ t.pc \in {"idle", "received", "claimed", "packed", "dispatched",
                        "auditing", "replying"}
           /\ t.pc = "packed" => t = [pc |-> "packed", tries |-> t.tries] /\ t.tries \in 0..Attempts - 1
           /\ t.pc \in {"dispatched", "auditing", "replying"} => t.outcome \in Outcome
           /\ t.pc = "dispatched" => t.mutated \in BOOLEAN
<1>1. CASE t \in [pc : {"idle", "received", "claimed"}]
  BY <1>1
<1>2. CASE t \in [pc : {"packed"}, tries : 0..Attempts - 1]
  BY <1>2
<1>3. CASE t \in [pc : {"dispatched"}, outcome : Outcome, mutated : BOOLEAN]
  BY <1>3
<1>4. CASE t \in [pc : {"auditing", "replying"}, outcome : Outcome]
  BY <1>4
<1> QED  BY <1>1, <1>2, <1>3, <1>4 DEF Task

\* The forms of a task.
LEMMA TaskForms ==
    /\ \A pc \in {"idle", "received", "claimed"} : [pc |-> pc] \in Task
    /\ \A tries \in 0..Attempts - 1 : [pc |-> "packed", tries |-> tries] \in Task
    /\ \A pc \in {"auditing", "replying"}, o \in Outcome : [pc |-> pc, outcome |-> o] \in Task
    /\ \A o \in Outcome, mutated \in BOOLEAN :
         [pc |-> "dispatched", outcome |-> o, mutated |-> mutated] \in Task
BY DEF Task

\* What Become does.
LEMMA BecomeFacts ==
    ASSUME tasks \in [Copy -> Task], NEW x \in Copy, NEW t \in Task, Become(x, t)
    PROVE  /\ tasks' \in [Copy -> Task]
           /\ tasks'[x] = t
           /\ \A y \in Copy \ {x} : tasks'[y] = tasks[y]
BY DEF Become

\* What a handler knows of its message.
LEMMA MessageFacts ==
    ASSUME TypeOK, SentInv, NEW x \in Copy, Working(x)
    PROVE  /\ x[1] \in Envelopes
           /\ MessageOf(x) \in Messages /\ MessageOf(x) \in Message
           /\ message_key(MessageOf(x)) \in Documents
           /\ Own(x) \in Clients \X Ids
<1>1. x[1] \in Envelopes
  BY DeliveryAssumption
<1>2. MessageOf(x) \in Messages /\ MessageOf(x) \in Message
  BY <1>1, DeliveryAssumption DEF TypeOK, SentInv, Sent, MessageOf
<1> QED  BY <1>1, <1>2 DEF Message, message_key, Documents, Own

\* Any answer a handler gives of its own is an outcome.
LEMMA AnsweredType ==
    ASSUME TypeOK, SentInv, NEW x \in Copy, Working(x),
           NEW answer \in {"ok", "exists", "notFound", "failed", "busy", "refused",
                           "unsupported", "rotated"}
    PROVE  /\ Answered(x, answer) \in Outcome
           /\ Answered(x, answer).answer = answer /\ Answered(x, answer).of = Own(x)
<1>1. Own(x) \in Clients \X Ids
  BY MessageFacts
<1>2. Answered(x, answer) = [answer |-> answer, of |-> Own(x)]
  BY DEF Answered, Own
<1> QED  BY <1>1, <1>2 DEF Outcome

LEMMA StoredFacts ==
    ASSUME NEW s \in Stored, s \notin {Absent, InFlight}
    PROVE  s.outcome \in Outcome
BY DEF Stored

LEMMA TypeParts ==
    TypeOK <=>
      /\ up \in BOOLEAN
      /\ carries \in [Envelopes -> Messages \union {None}]
      /\ mailbox \subseteq Envelopes /\ fetched \subseteq Envelopes
      /\ tasks \in [Copy -> Task]
      /\ memory \in [Documents -> Stored]
      /\ records \in Table
      /\ mishaps \in 0..MaxMishaps
      /\ trail \subseteq Entries
      /\ fates \in [Envelopes -> SUBSET Fates]
      /\ effects \subseteq Envelopes
      /\ applied \in [Documents -> Nat] /\ lapses \in [Documents -> Nat]
BY DEF TypeOK, Stored, Fates, Entries

LEMMA InitDelivery == Init => DeliveryInv
<1> SUFFICES ASSUME Init
             PROVE  DeliveryInv
  OBVIOUS
<1>0. \A x \in Copy : tasks[x].pc = "idle"
  BY DEF Init, Idle
<1>1. TypeOK
  <2>1. Idle \in Task
    BY TaskForms DEF Idle
  <2> QED  BY <2>1, DeliveryAssumption, TypeParts DEF Init, Stored
<1>2. SentInv /\ KeptInv
  BY <1>0 DEF Init, SentInv, KeptInv, NothingVanishes, Working
<1>3. TaskInv
  BY <1>0 DEF TaskInv, TaskOK, Resolving
<1>4. HistoryInv
  BY DEF Init, HistoryInv, OnlyAuthorisedEffects, AuditedBeforeAnswered, AcknowledgedWereApplied
<1>5. MemoryInv
  BY <1>0 DEF Init, MemoryInv, ClaimInv, StoredInv, AccountInv, Resolving
<1> QED  BY <1>1, <1>2, <1>3, <1>4, <1>5 DEF DeliveryInv, HandlingInv
-----------------------------------------------------------------------------
(* The steps of a handler                                                  *)

Authorised(m) == m.sender \in Admins /\ (m.form = "task" => m.fault = "none")

\* A step of the handler x, which becomes t and may end with the fates F, keeps
\* everything but what the deduplication store has to say.
LEMMA HandlingKept ==
    ASSUME HandlingInv, NEW x \in Copy, Working(x), NEW t \in Task, NEW F \in SUBSET Fates,
           Become(x, t), UNCHANGED listener,
           fates' = [fates EXCEPT ![x[1]] = @ \union F], t.pc = "idle" => F # {},
           \A fate \in F : fate.kind = "answered" =>
              tasks[x].pc = "replying" /\ fate.outcome = tasks[x].outcome,
           mishaps' \in 0..MaxMishaps, records' \in Table, memory' \in [Documents -> Stored],
           applied' \in [Documents -> Nat], lapses' \in [Documents -> Nat],
           effects \subseteq effects', effects' \subseteq effects \union {x[1]},
           effects' = effects \/ Authorised(MessageOf(x)),
           trail \subseteq trail',
           \A entry \in trail' \ trail :
              /\ entry \in Entries /\ entry.envelope = x[1]
              /\ entry.status = "SUCCESS" /\ MessageOf(x).op \in Writes => x[1] \in effects',
           TaskOK(x)'
    PROVE  HandlingInv'
<1> USE DEF HandlingInv
<1>0. /\ tasks' \in [Copy -> Task] /\ tasks'[x] = t
      /\ \A y \in Copy \ {x} : tasks'[y] = tasks[y]
  BY BecomeFacts DEF TypeOK
<1>1. UNCHANGED <<up, carries, mailbox, fetched>>
  BY DEF listener
<1>2. x[1] \in Envelopes /\ Sent(x[1])
  BY MessageFacts DEF SentInv
<1>3. /\ fates \in [Envelopes -> SUBSET Fates] /\ fates' \in [Envelopes -> SUBSET Fates]
      /\ fates'[x[1]] = fates[x[1]] \union F
      /\ \A e \in Envelopes \ {x[1]} : fates'[e] = fates[e]
  BY <1>2, TypeParts
<1>4. TypeOK'
  <2>1. effects' \subseteq Envelopes
    BY <1>2, TypeParts
  <2>2. trail' \subseteq Entries
    BY TypeParts
  <2>3. TypeOK' <=>
          /\ up' \in BOOLEAN
          /\ carries' \in [Envelopes -> Messages \union {None}]
          /\ mailbox' \subseteq Envelopes /\ fetched' \subseteq Envelopes
          /\ tasks' \in [Copy -> Task]
          /\ memory' \in [Documents -> Stored]
          /\ records' \in Table
          /\ mishaps' \in 0..MaxMishaps
          /\ trail' \subseteq Entries
          /\ fates' \in [Envelopes -> SUBSET Fates]
          /\ effects' \subseteq Envelopes
          /\ applied' \in [Documents -> Nat] /\ lapses' \in [Documents -> Nat]
    BY DEF TypeOK, Stored, Fates, Entries
  <2> QED  BY <1>0, <1>1, <1>3, <2>1, <2>2, <2>3, TypeParts
<1>5. SentInv'
  <2>1. \A y \in Copy : Working(y)' => Sent(y[1])
    BY <1>0, <1>2 DEF SentInv, Working
  <2>2. \A e \in Envelopes : fates'[e] # {} => Sent(e)
    BY <1>2, <1>3 DEF SentInv
  <2> QED  BY <1>1, <1>2, <2>1, <2>2 DEF SentInv, Sent
<1>6. KeptInv'
  <2>1. ASSUME NEW e \in Envelopes, Held(e)
        PROVE  Held(e)' \/ fates'[e] # {}
    <3>1. PICK y \in Copy : y[1] = e /\ Working(y)
      BY <2>1 DEF Held
    <3>2. CASE y # x
      BY <1>0, <3>1, <3>2 DEF Held, Working
    <3>3. CASE y = x
      BY <1>0, <1>2, <1>3, <3>1, <3>3 DEF Held, Working
    <3> QED  BY <3>2, <3>3
  <2>2. \A e \in Envelopes : fates[e] # {} => fates'[e] # {}
    BY <1>2, <1>3
  <2>3. fetched \subseteq Envelopes
    BY DEF TypeOK
  <2> QED  BY <1>1, <2>1, <2>2, <2>3 DEF KeptInv, NothingVanishes
<1>7. TaskInv'
  <2> SUFFICES ASSUME NEW y \in Copy \ {x}
               PROVE  TaskOK(y)'
    BY DEF TaskInv
  <2>1. tasks'[y] = tasks[y] /\ MessageOf(y)' = MessageOf(y) /\ TaskOK(y)
    BY <1>0, <1>1 DEF MessageOf, TaskInv
  <2>2. Effected(y) => Effected(y)'
    BY <1>1, <2>1 DEF Effected
  <2>3. Resolving(y)' <=> Resolving(y)
    BY <2>1 DEF Resolving
  <2>4. Own(y)' = Own(y)
    BY <2>1 DEF Own
  <2> QED  BY <2>1, <2>2, <2>3, <2>4 DEF TaskOK
<1>8. OnlyAuthorisedEffects'
  BY <1>1 DEF HistoryInv, OnlyAuthorisedEffects, Authorised, MessageOf
<1>9. TaskOK(x)
  BY DEF TaskInv
<1>10. AuditedBeforeAnswered'
  <2>1. ASSUME NEW e \in Envelopes, NEW fate \in fates'[e],
               carries[e].form = "admin", fate.kind = "answered"
        PROVE  [envelope |-> e, status |-> AuditStatus(fate.outcome.answer)] \in trail'
    <3>1. CASE fate \in fates[e]
      BY <2>1, <3>1 DEF HistoryInv, AuditedBeforeAnswered
    <3>2. CASE fate \notin fates[e]
      <4>1. e = x[1] /\ fate \in F
        BY <1>3, <2>1, <3>2
      <4> QED  BY <1>9, <2>1, <4>1 DEF TaskOK, MessageOf
    <3> QED  BY <3>1, <3>2
  <2>2. \A entry \in trail' :
          entry.status = "SUCCESS" /\ carries[entry.envelope].op \in Writes =>
             entry.envelope \in effects'
    BY DEF HistoryInv, AuditedBeforeAnswered, MessageOf
  <2> QED  BY <1>1, <2>1, <2>2 DEF AuditedBeforeAnswered
<1>11. AcknowledgedWereApplied'
  <2> SUFFICES ASSUME NEW e \in Envelopes, NEW fate \in fates'[e],
                      fate.kind = "answered", carries[e].issued
               PROVE  /\ fate.outcome.of = <<carries[e].sender, carries[e].id>>
                      /\ fate.outcome.answer = "ok" /\ carries[e].op \in Acting =>
                           \E other \in effects' : SameDocument(carries[other], carries[e])
    BY <1>1 DEF AcknowledgedWereApplied
  <2>1. CASE fate \in fates[e]
    BY <2>1 DEF HistoryInv, AcknowledgedWereApplied
  <2>2. CASE fate \notin fates[e]
    <3>1. e = x[1] /\ fate \in F
      BY <1>3, <2>2
    <3> QED  BY <1>9, <3>1 DEF TaskOK, MessageOf, Own, Effected
  <2> QED  BY <2>1, <2>2
<1> QED  BY <1>4, <1>5, <1>6, <1>7, <1>8, <1>10, <1>11 DEF HistoryInv

\* What a call on the repository does.
LEMMA PerformFacts ==
    ASSUME TypeOK, SentInv, NEW x \in Copy, Working(x), MessageOf(x).op \in Ops,
           NEW answer \in Answers, NEW tookEffect \in BOOLEAN, Perform(x, answer, tookEffect)
    PROVE  /\ mishaps' \in 0..MaxMishaps /\ records' \in Table
           /\ answer \in {"ok", "exists", "notFound", "failed"}
           /\ tookEffect => MessageOf(x).op \in Writes /\ answer \in {"ok", "failed"}
           /\ answer = "ok" /\ MessageOf(x).op \in Writes => tookEffect
           /\ effects' = IF tookEffect THEN effects \union {x[1]} ELSE effects
<1> DEFINE m == MessageOf(x)
           verdict == Verdict(m.op, m.key, records)
<1>1. verdict \in {"ok", "exists", "notFound"}
  BY DEF Verdict
<1>2. \/ answer = verdict /\ tookEffect = (verdict = "ok" /\ m.op \in Writes) /\ UNCHANGED mishaps
      \/ /\ answer = "failed" /\ Mishap("storage")
         /\ tookEffect \in {FALSE, verdict = "ok" /\ m.op \in Writes}
  BY DEF Perform
<1>3. /\ records' = IF tookEffect THEN Written(m.op, m.key, m.value, records) ELSE records
      /\ effects' = IF tookEffect THEN effects \union {x[1]} ELSE effects
  BY DEF Perform
<1>4. mishaps' \in 0..MaxMishaps
  BY <1>2, MishapBounded DEF TypeOK
<1>5. Written(m.op, m.key, m.value, records) \in Table
  <2>1. m \in Messages /\ m \in Message
    BY MessageFacts
  <2>2. m.op \in Writes => m.key \in Keys /\ m.value \in Values \union {None}
    BY <2>1, DeliveryAssumption DEF Message, Writes, Ops
  <2> QED  BY <2>2 DEF Written, Table, TypeOK
<1>6. records' \in Table
  BY <1>3, <1>5 DEF TypeOK
<1> HIDE DEF verdict
<1>7. tookEffect => verdict = "ok" /\ m.op \in Writes
  BY <1>2
<1> QED  BY <1>1, <1>2, <1>3, <1>4, <1>6, <1>7

\* A step of a handler that has no claim and gets none leaves the store alone.
LEMMA MemoryKept ==
    ASSUME HandlingInv, MemoryInv, NEW x \in Copy, NEW t \in Task, Become(x, t),
           UNCHANGED <<listener, memory, applied, lapses>>, effects \subseteq effects',
           ~Resolving(x), t.pc \notin {"claimed", "dispatched"}
    PROVE  MemoryInv'
<1>0. /\ tasks'[x] = t /\ \A y \in Copy \ {x} : tasks'[y] = tasks[y]
  BY BecomeFacts DEF HandlingInv, TypeOK
<1>1. carries' = carries /\ memory' = memory /\ applied' = applied /\ lapses' = lapses
  BY DEF listener
<1>2. \A y \in Copy : /\ MessageOf(y)' = MessageOf(y)
                      /\ Resolving(y)' <=> Resolving(y)
  BY <1>0, <1>1 DEF MessageOf, Resolving
<1>3. \A y \in Copy : message_key(MessageOf(y))' = message_key(MessageOf(y))
  BY <1>2 DEF message_key
<1>4. ClaimInv'
  BY <1>1, <1>2, <1>3 DEF MemoryInv, ClaimInv
<1>5. StoredInv'
  BY <1>1 DEF MemoryInv, StoredInv, message_key
<1>6. \A d \in Documents : Remembered(d)' <=> Remembered(d)
  BY <1>0, <1>1, <1>3 DEF Remembered, Resolving
<1> QED  BY <1>1, <1>4, <1>5, <1>6 DEF MemoryInv, AccountInv

\* Such a step, when it changes no history either, ends the handler or leads on.
LEMMA QuietStep ==
    ASSUME HandlingInv, MemoryInv, NEW x \in Copy, Working(x), ~Resolving(x),
           NEW t \in Task, t.pc \notin {"claimed", "dispatched"}, NEW F \in SUBSET Fates,
           Become(x, t), UNCHANGED <<listener, server>>,
           fates' = [fates EXCEPT ![x[1]] = @ \union F], t.pc = "idle" => F # {},
           \A fate \in F : fate.kind = "answered" =>
              tasks[x].pc = "replying" /\ fate.outcome = tasks[x].outcome,
           mishaps' \in 0..MaxMishaps,
           TaskOK(x)'
    PROVE  HandlingInv' /\ MemoryInv'
<1>1. UNCHANGED <<memory, records, trail, effects, applied, lapses>>
  BY DEF server
<1>2. /\ records' \in Table /\ memory' \in [Documents -> Stored]
      /\ applied' \in [Documents -> Nat] /\ lapses' \in [Documents -> Nat]
  BY <1>1, TypeParts DEF HandlingInv
<1>3. HandlingInv'
  BY <1>1, <1>2, HandlingKept
<1>4. MemoryInv'
  BY <1>1, MemoryKept DEF listener
<1> QED  BY <1>3, <1>4

\* No fate is added when the handling goes on.
LEMMA SameFates ==
    ASSUME HandlingInv, NEW x \in Copy, fates' = fates
    PROVE  \E F \in SUBSET Fates : F = {} /\ fates' = [fates EXCEPT ![x[1]] = @ \union F]
<1>1. fates \in [Envelopes -> SUBSET Fates]
  BY TypeParts DEF HandlingInv
<1>2. fates' = [fates EXCEPT ![x[1]] = @ \union {}]
  BY <1>1
<1> QED  BY <1>2

LEMMA IdleTask == Idle \in Task /\ Idle.pc = "idle"
BY TaskForms DEF Idle

LEMMA NamedFates == \A kind \in FateKinds : Fate(kind) \in Fates /\ Fate(kind).kind # "answered"
BY DEF Fate, Fates, FateKinds

\* The handler ends without a reply.
LEMMA EndsUnanswered ==
    ASSUME HandlingInv, MemoryInv, NEW x \in Copy, Working(x), ~Resolving(x),
           NEW kind \in FateKinds, End(x, Fate(kind)), UNCHANGED <<listener, server>>,
           mishaps' \in 0..MaxMishaps
    PROVE  HandlingInv' /\ MemoryInv'
<1>1. /\ Become(x, Idle)
      /\ fates' = [fates EXCEPT ![x[1]] = @ \union {Fate(kind)}]
  BY DEF End
<1>2. tasks'[x] = Idle
  BY <1>1, BecomeFacts, IdleTask DEF HandlingInv, TypeOK
<1>3. TaskOK(x)'
  BY <1>2 DEF TaskOK, Resolving, Idle
<1>4. {Fate(kind)} \in SUBSET Fates /\ {Fate(kind)} # {}
  BY NamedFates
<1> QED  BY <1>1, <1>3, <1>4, IdleTask, NamedFates, QuietStep

\* The handler goes on to a stage at which it has no outcome.
LEMMA GoesOn ==
    ASSUME HandlingInv, MemoryInv, NEW x \in Copy, Working(x), ~Resolving(x),
           NEW t \in Task, t.pc \in {"packed", "received"}, Become(x, t),
           UNCHANGED <<listener, server, fates>>, mishaps' \in 0..MaxMishaps
    PROVE  HandlingInv' /\ MemoryInv'
<1>1. tasks'[x] = t
  BY BecomeFacts DEF HandlingInv, TypeOK
<1>2. TaskOK(x)'
  BY <1>1 DEF TaskOK, Resolving
<1>3. PICK F \in SUBSET Fates : F = {} /\ fates' = [fates EXCEPT ![x[1]] = @ \union F]
  BY SameFates
<1>4. t.pc \notin {"idle", "claimed", "dispatched"} /\ \A fate \in F : FALSE
  BY <1>3
<1> QED  BY <1>2, <1>3, <1>4, QuietStep

\* The handler of a Trust Task or of a query has its answer.
LEMMA Concludes ==
    ASSUME HandlingInv, MemoryInv, NEW x \in Copy, Working(x), ~Resolving(x),
           MessageOf(x).form # "admin", NEW o \in Outcome, ToReply(x, o),
           MessageOf(x).issued => o.of = Own(x),
           MessageOf(x).issued /\ o.answer = "ok" /\ MessageOf(x).op \in Acting => Effected(x),
           UNCHANGED <<listener, fates, memory, records, trail, applied, lapses>>,
           mishaps' \in 0..MaxMishaps,
           \/ effects' = effects
           \/ effects' = effects \union {x[1]} /\ Authorised(MessageOf(x))
    PROVE  HandlingInv' /\ MemoryInv'
<1> DEFINE t == [pc |-> "replying", outcome |-> o]
<1>1. t \in Task /\ Become(x, t)
  BY TaskForms DEF ToReply
<1>2. tasks'[x] = t /\ carries' = carries
  BY <1>1, BecomeFacts DEF HandlingInv, TypeOK, listener
<1>3. TaskOK(x)'
  <2>1. Effected(x) => Effected(x)'
    BY <1>2 DEF Effected, MessageOf
  <2> QED  BY <1>2, <2>1 DEF TaskOK, Resolving, MessageOf, Own
<1>4. PICK F \in SUBSET Fates : F = {} /\ fates' = [fates EXCEPT ![x[1]] = @ \union F]
  BY SameFates
<1>5. /\ records' \in Table /\ memory' \in [Documents -> Stored]
      /\ applied' \in [Documents -> Nat] /\ lapses' \in [Documents -> Nat]
  BY TypeParts DEF HandlingInv
<1>6. t.pc = "replying"
  OBVIOUS
<1> HIDE DEF t
<1>7. HandlingInv'
  <2>1. trail' = trail /\ (\A entry \in trail' \ trail : FALSE) /\ (\A fate \in F : FALSE)
    BY <1>4
  <2>2. /\ effects \subseteq effects' /\ effects' \subseteq effects \union {x[1]}
        /\ effects' = effects \/ Authorised(MessageOf(x))
    OBVIOUS
  <2>3. UNCHANGED listener
    OBVIOUS
  <2> QED  BY <1>1, <1>3, <1>4, <1>5, <1>6, <2>1, <2>2, <2>3, HandlingKept
<1>8. MemoryInv'
  BY <1>1, <1>6, MemoryKept
<1> QED  BY <1>7, <1>8

LEMMA UnpackKeeps ==
    ASSUME HandlingInv, MemoryInv, NEW x \in Copy, Unpack(x)
    PROVE  HandlingInv' /\ MemoryInv'
<1>0. /\ Working(x) /\ ~Resolving(x) /\ mishaps \in 0..MaxMishaps
      /\ UNCHANGED <<listener, server>> /\ mishaps' = mishaps
      /\ tasks[x] \in Task /\ tasks[x].pc = "packed"
  BY DEF Unpack, Working, Resolving, HandlingInv, TypeOK
<1>1. CASE Become(x, [pc |-> "received"]) /\ UNCHANGED fates
  BY <1>0, <1>1, TaskForms, GoesOn
<1>2. CASE \E kind \in {"dropped", "exhausted"} : End(x, Fate(kind))
  BY <1>0, <1>2, EndsUnanswered DEF FateKinds
<1>3. CASE /\ tasks[x].tries + 1 < Attempts
           /\ Become(x, [tasks[x] EXCEPT !.tries = @ + 1]) /\ UNCHANGED fates
  <2> DEFINE t == [pc |-> "packed", tries |-> tasks[x].tries + 1]
  <2>1. tasks[x] = [pc |-> "packed", tries |-> tasks[x].tries] /\ tasks[x].tries \in 0..Attempts - 1
    BY <1>0, TaskFacts
  <2>2. [tasks[x] EXCEPT !.tries = @ + 1] = t
    BY <2>1
  <2>3. t \in Task
    BY <1>3, <2>1, DeliveryAssumption, TaskForms
  <2> QED  BY <1>0, <1>3, <2>2, <2>3, GoesOn
<1> QED  BY <1>1, <1>2, <1>3 DEF Unpack

\* What holds of a handler before its message was looked at.
LEMMA ReceivedFacts ==
    ASSUME NEW x \in Copy, tasks[x].pc = "received"
    PROVE  Working(x) /\ ~Resolving(x)
BY DEF Working, Resolving

\* The steps of Trust Tasks and queries that end in an answer.
LEMMA AnswersKeep ==
    ASSUME HandlingInv, MemoryInv, NEW x \in Copy,
           Drop(x) \/ Refuse(x) \/ handle_did_rotate(x) \/ Query(x) \/ TrqpQuery(x)
    PROVE  HandlingInv' /\ MemoryInv'
<1>0. /\ Working(x) /\ ~Resolving(x) /\ TypeOK /\ SentInv /\ mishaps \in 0..MaxMishaps
  BY ReceivedFacts DEF Drop, Refuse, handle_did_rotate, Query, TrqpQuery, IsTask, HandlingInv, TypeOK
<1>a. MessageOf(x) \in Messages /\ MessageOf(x) \in Message
  BY <1>0, MessageFacts
<1>1. CASE Drop(x)
  <2>1. End(x, Fate("dropped")) /\ UNCHANGED <<listener, server>> /\ mishaps' = mishaps
    BY <1>1 DEF Drop
  <2>2. "dropped" \in FateKinds
    BY DEF FateKinds
  <2> QED  BY <1>0, <2>1, <2>2, EndsUnanswered
<1>2. CASE Refuse(x)
  <2> DEFINE o == Answered(x, "refused")
  <2>1. o \in Outcome /\ o.answer = "refused" /\ o.of = Own(x)
    BY <1>0, AnsweredType
  <2>2. /\ ToReply(x, o) /\ MessageOf(x).form = "task" /\ mishaps' = mishaps
        /\ UNCHANGED <<listener, fates, memory, records, trail, applied, lapses>>
        /\ effects' = effects
    BY <1>2 DEF Refuse, IsTask, server
  <2> HIDE DEF o
  <2> QED  BY <1>0, <2>1, <2>2, Concludes
<1>3. CASE handle_did_rotate(x)
  <2>1. /\ MessageOf(x).form = "task" /\ MessageOf(x).op = "rotate"
        /\ UNCHANGED <<listener, fates, memory, records, trail, applied, lapses>>
        /\ ~Refused(MessageOf(x)) /\ MessageOf(x).fault \notin {"poison", "malformed"}
    BY <1>3 DEF handle_did_rotate, IsTask
  <2>2. MessageOf(x).fault # "payload" => Authorised(MessageOf(x))
    BY <1>a, <2>1 DEF Refused, is_write_slug, Authorised, Message, Faults
  <2>3. PICK answer \in {"rotated", "failed", "refused"} :
          /\ ToReply(x, Answered(x, answer)) /\ mishaps' \in 0..MaxMishaps
          /\ \/ effects' = effects
             \/ effects' = effects \union {x[1]} /\ MessageOf(x).fault # "payload"
    BY <1>0, <1>3, MishapBounded DEF handle_did_rotate
  <2> DEFINE o == Answered(x, answer)
  <2>4. o \in Outcome /\ o.answer = answer /\ o.of = Own(x)
    BY <1>0, AnsweredType
  <2> HIDE DEF o
  <2>5. ToReply(x, o)
    BY <2>3 DEF o
  <2>6. \/ effects' = effects
        \/ effects' = effects \union {x[1]} /\ Authorised(MessageOf(x))
    BY <2>2, <2>3
  <2>7. MessageOf(x).op \notin Acting
    BY <2>1 DEF Acting, Writes
  <2> QED  BY <1>0, <2>1, <2>3, <2>4, <2>5, <2>6, <2>7, Concludes
<1>4. ASSUME NEW answer \in Answers, Perform(x, answer, FALSE), ToReply(x, Answered(x, answer)),
             MessageOf(x).op \in Ops, MessageOf(x).form # "admin",
             UNCHANGED <<listener, fates, memory, trail, applied, lapses>>,
             MessageOf(x).op \notin Acting
      PROVE  HandlingInv' /\ MemoryInv'
  <2>1. /\ answer \in {"ok", "exists", "notFound", "failed"} /\ mishaps' \in 0..MaxMishaps
        /\ effects' = effects
    BY <1>0, <1>4, PerformFacts
  <2>2. records' = records
    BY <1>4 DEF Perform
  <2> DEFINE o == Answered(x, answer)
  <2>3. o \in Outcome /\ o.answer = answer /\ o.of = Own(x)
    BY <1>0, <2>1, AnsweredType
  <2> HIDE DEF o
  <2>4. ToReply(x, o)
    BY <1>4 DEF o
  <2>5. UNCHANGED <<listener, fates, memory, records, trail, applied, lapses>>
    BY <1>4, <2>2
  <2> QED  BY <1>0, <1>4, <2>1, <2>3, <2>4, <2>5, Concludes
<1>5. CASE Query(x)
  <2>1. /\ MessageOf(x).op \in Ops /\ MessageOf(x).op \notin Acting /\ MessageOf(x).form = "task"
        /\ UNCHANGED <<listener, fates, memory, trail, applied, lapses>>
    BY <1>5, <1>a DEF Query, IsTask, is_write_slug, Message, Acting
  <2>2. CASE \E answer \in Answers : Perform(x, answer, FALSE) /\ ToReply(x, Answered(x, answer))
    BY <1>4, <2>1, <2>2
  <2>3. CASE ToReply(x, Answered(x, "refused")) /\ UNCHANGED <<mishaps, records, effects>>
    <3> DEFINE o == Answered(x, "refused")
    <3>1. o \in Outcome /\ o.answer = "refused" /\ o.of = Own(x)
      BY <1>0, AnsweredType
    <3>2. mishaps' \in 0..MaxMishaps
      BY <1>0, <2>3
    <3> HIDE DEF o
    <3>3. ToReply(x, o)
      BY <2>3 DEF o
    <3> QED  BY <1>0, <2>1, <2>3, <3>1, <3>2, <3>3, Concludes
  <2> QED  BY <1>5, <2>2, <2>3 DEF Query
<1>6. CASE TrqpQuery(x)
  <2>1. MessageOf(x).form = "query" /\ MessageOf(x).op = "read"
    BY <1>6, <1>a, DeliveryAssumption DEF TrqpQuery
  <2>2. MessageOf(x).op \in Ops /\ MessageOf(x).op \notin Acting
    BY <2>1 DEF Ops, Writes, Acting
  <2>3. PICK answer \in Answers :
          /\ Perform(x, answer, FALSE)
          /\ IF answer = "failed" THEN End(x, Fate("dropped"))
             ELSE ToReply(x, Answered(x, answer)) /\ UNCHANGED fates
    BY <1>6 DEF TrqpQuery
  <2>4. UNCHANGED <<listener, memory, trail, applied, lapses>>
    BY <1>6 DEF TrqpQuery
  <2>5. CASE answer # "failed"
    BY <1>4, <2>1, <2>2, <2>3, <2>4, <2>5
  <2>6. CASE answer = "failed"
    <3>1. mishaps' \in 0..MaxMishaps /\ effects' = effects
      BY <1>0, <2>2, <2>3, PerformFacts
    <3>2. records' = records
      BY <2>3 DEF Perform
    <3>3. UNCHANGED <<listener, server>>
      BY <2>4, <3>1, <3>2 DEF server
    <3>4. "dropped" \in FateKinds
      BY DEF FateKinds
    <3> QED  BY <1>0, <2>3, <2>6, <3>1, <3>3, <3>4, EndsUnanswered
  <2> QED  BY <2>5, <2>6
<1> QED  BY <1>1, <1>2, <1>3, <1>5, <1>6

\* The steps of tr-admin messages, and replies.
LEMMA AdminKeeps ==
    ASSUME HandlingInv, MemoryInv, NEW x \in Copy,
           handle_unauthorized(x) \/ handle_request(x)
    PROVE  HandlingInv' /\ MemoryInv'
<1>0. /\ Working(x) /\ ~Resolving(x) /\ TypeOK /\ SentInv /\ mishaps \in 0..MaxMishaps
      /\ MessageOf(x).form = "admin"
      /\ UNCHANGED <<listener, fates, memory, trail, applied, lapses>>
  BY ReceivedFacts DEF handle_unauthorized, handle_request, IsAdmin, HandlingInv, TypeOK, server
<1>a. MessageOf(x) \in Messages /\ x[1] \in Envelopes
  BY <1>0, MessageFacts
<1>1. ASSUME NEW o \in Outcome, Become(x, [pc |-> "auditing", outcome |-> o]), o.of = Own(x),
             mishaps' \in 0..MaxMishaps, records' \in Table,
             \/ effects' = effects
             \/ effects' = effects \union {x[1]} /\ MessageOf(x).sender \in Admins,
             o.answer = "ok" /\ MessageOf(x).op \in Writes => x[1] \in effects'
      PROVE  HandlingInv' /\ MemoryInv'
  <2> DEFINE t == [pc |-> "auditing", outcome |-> o]
  <2>1. t \in Task
    BY TaskForms
  <2>2. tasks'[x] = t /\ carries' = carries
    BY <1>0, <1>1, <2>1, BecomeFacts DEF TypeOK, listener
  <2>3. TaskOK(x)'
    BY <1>0, <1>1, <2>2 DEF TaskOK, Resolving, MessageOf, Own
  <2>4. PICK F \in SUBSET Fates : F = {} /\ fates' = [fates EXCEPT ![x[1]] = @ \union F]
    BY <1>0, SameFates
  <2>5. /\ memory' \in [Documents -> Stored]
        /\ applied' \in [Documents -> Nat] /\ lapses' \in [Documents -> Nat]
    BY <1>0, TypeParts
  <2>6. t.pc = "auditing" /\ Become(x, t)
    BY <1>1
  <2>7. /\ effects \subseteq effects' /\ effects' \subseteq effects \union {x[1]}
        /\ effects' = effects \/ Authorised(MessageOf(x))
    BY <1>0, <1>1 DEF Authorised
  <2>8. trail' = trail /\ (\A entry \in trail' \ trail : FALSE) /\ (\A fate \in F : FALSE)
    BY <1>0, <2>4
  <2> HIDE DEF t
  <2>9. HandlingInv'
    BY <1>0, <1>1, <2>1, <2>3, <2>4, <2>5, <2>6, <2>7, <2>8, HandlingKept
  <2>10. MemoryInv'
    BY <1>0, <2>1, <2>6, <2>7, MemoryKept
  <2> QED  BY <2>9, <2>10
<1>2. ASSUME NEW answer \in {"refused", "failed"}, UNCHANGED <<mishaps, records, effects>>,
             Become(x, [pc |-> "auditing", outcome |-> Answered(x, answer)])
      PROVE  HandlingInv' /\ MemoryInv'
  <2> DEFINE o == Answered(x, answer)
  <2>1. o \in Outcome /\ o.answer = answer /\ o.of = Own(x)
    BY <1>0, AnsweredType
  <2>2. Become(x, [pc |-> "auditing", outcome |-> o])
    BY <1>2
  <2> HIDE DEF o
  <2>3. records' \in Table /\ mishaps' \in 0..MaxMishaps
    BY <1>0, <1>2 DEF TypeOK
  <2> QED  BY <1>1, <1>2, <2>1, <2>2, <2>3
<1>3. CASE handle_unauthorized(x)
  BY <1>2, <1>3 DEF handle_unauthorized, server
<1>4. CASE handle_request(x) /\ MessageOf(x).fault = "malformed"
  BY <1>2, <1>4 DEF handle_request
<1>5. CASE handle_request(x) /\ MessageOf(x).fault # "malformed"
  <2>1. PICK answer \in Answers, tookEffect \in BOOLEAN :
          /\ Perform(x, answer, tookEffect)
          /\ Become(x, [pc |-> "auditing", outcome |-> Answered(x, answer)])
    BY <1>5 DEF handle_request
  <2>2. MessageOf(x).op \in Ops /\ MessageOf(x).sender \in Admins
    BY <1>0, <1>5, <1>a, DeliveryAssumption DEF handle_request
  <2>3. /\ mishaps' \in 0..MaxMishaps /\ records' \in Table
        /\ answer \in {"ok", "exists", "notFound", "failed"}
        /\ answer = "ok" /\ MessageOf(x).op \in Writes => tookEffect
        /\ effects' = IF tookEffect THEN effects \union {x[1]} ELSE effects
    BY <1>0, <2>1, <2>2, PerformFacts
  <2> DEFINE o == Answered(x, answer)
  <2>4. o \in Outcome /\ o.answer = answer /\ o.of = Own(x)
    BY <1>0, <2>3, AnsweredType
  <2>5. Become(x, [pc |-> "auditing", outcome |-> o])
    BY <2>1
  <2> HIDE DEF o
  <2> QED  BY <1>1, <2>2, <2>3, <2>4, <2>5
<1> QED  BY <1>3, <1>4, <1>5

LEMMA AuditKeeps ==
    ASSUME HandlingInv, MemoryInv, NEW x \in Copy, Audit(x)
    PROVE  HandlingInv' /\ MemoryInv'
<1> DEFINE o == tasks[x].outcome
           t == [pc |-> "replying", outcome |-> o]
           entry == [envelope |-> x[1], status |-> AuditStatus(o.answer)]
<1>0. /\ tasks[x].pc = "auditing" /\ Working(x) /\ ~Resolving(x)
      /\ UNCHANGED <<listener, fates, memory, applied, lapses, mishaps, records, effects>>
      /\ Become(x, t) /\ trail' = trail \union {entry}
  BY DEF Audit, ToReply, log, Working, Resolving
<1>1. o \in Outcome /\ t \in Task /\ t.pc = "replying"
  BY <1>0, TaskFacts, TaskForms DEF HandlingInv, TypeOK
<1>2. /\ MessageOf(x).form = "admin" /\ o.of = Own(x)
      /\ o.answer = "ok" /\ MessageOf(x).op \in Writes => x[1] \in effects
  BY <1>0 DEF HandlingInv, TaskInv, TaskOK
<1>3. entry \in Entries /\ (entry.status = "SUCCESS" => o.answer = "ok") /\ entry.envelope = x[1]
  <2>1. x[1] \in Envelopes
    BY <1>0, MessageFacts DEF HandlingInv
  <2>2. AuditStatus(o.answer) \in {"SUCCESS", "FAILURE", "UNAUTHORIZED"}
    BY DEF AuditStatus
  <2>3. AuditStatus(o.answer) = "SUCCESS" => o.answer = "ok"
    BY DEF AuditStatus
  <2> QED  BY <2>1, <2>2, <2>3 DEF Entries
<1>4. tasks'[x] = t /\ carries' = carries
  BY <1>0, <1>1, BecomeFacts DEF HandlingInv, TypeOK, listener
<1>5. TaskOK(x)'
  <2>1. x[1] \in effects => Effected(x)'
    BY <1>0, <1>4 DEF Effected, SameDocument, MessageOf
  <2>2. MessageOf(x).op \in Acting => MessageOf(x).op \in Writes
    <3>1. MessageOf(x) \in Messages
      BY <1>0, MessageFacts DEF HandlingInv
    <3>2. MessageOf(x).op \in Ops
      BY <1>2, <3>1, DeliveryAssumption
    <3> QED  BY <3>2 DEF Acting, Ops, Writes
  <2> QED  BY <1>0, <1>2, <1>4, <2>1, <2>2 DEF TaskOK, Resolving, MessageOf, Own
<1>6. PICK F \in SUBSET Fates : F = {} /\ fates' = [fates EXCEPT ![x[1]] = @ \union F]
  BY <1>0, SameFates
<1>7. /\ records' \in Table /\ memory' \in [Documents -> Stored] /\ mishaps' \in 0..MaxMishaps
      /\ applied' \in [Documents -> Nat] /\ lapses' \in [Documents -> Nat]
  BY <1>0, TypeParts DEF HandlingInv
<1>8. \A other \in trail' \ trail :
          /\ other \in Entries /\ other.envelope = x[1]
          /\ other.status = "SUCCESS" /\ MessageOf(x).op \in Writes => x[1] \in effects'
  BY <1>0, <1>2, <1>3
<1>9. trail \subseteq trail' /\ \A fate \in F : FALSE
  BY <1>0, <1>6
<1> HIDE DEF t, entry
<1>10. HandlingInv'
  BY <1>0, <1>1, <1>5, <1>6, <1>7, <1>8, <1>9, HandlingKept
<1>11. MemoryInv'
  BY <1>0, <1>1, MemoryKept
<1> QED  BY <1>10, <1>11

LEMMA ReplyKeeps ==
    ASSUME HandlingInv, MemoryInv, NEW x \in Copy, Reply(x)
    PROVE  HandlingInv' /\ MemoryInv'
<1>0. /\ tasks[x].pc = "replying" /\ Working(x) /\ ~Resolving(x) /\ mishaps \in 0..MaxMishaps
      /\ UNCHANGED <<listener, server>>
  BY DEF Reply, Working, Resolving, HandlingInv, TypeOK
<1>1. CASE End(x, Fate("unsent")) /\ Mishap("send")
  <2>1. "unsent" \in FateKinds /\ mishaps' \in 0..MaxMishaps
    BY <1>0, <1>1, MishapBounded DEF FateKinds
  <2> QED  BY <1>0, <1>1, <2>1, EndsUnanswered
<1>2. CASE End(x, [kind |-> "answered", outcome |-> tasks[x].outcome]) /\ UNCHANGED mishaps
  <2> DEFINE fate == [kind |-> "answered", outcome |-> tasks[x].outcome]
             F == {fate}
  <2>1. tasks[x].outcome \in Outcome
    BY <1>0, TaskFacts DEF HandlingInv, TypeOK
  <2>2. F \in SUBSET Fates /\ F # {}
    BY <2>1 DEF Fates
  <2>3. Become(x, Idle) /\ fates' = [fates EXCEPT ![x[1]] = @ \union F]
    BY <1>2 DEF End
  <2>4. tasks'[x] = Idle
    BY <2>3, BecomeFacts, IdleTask DEF HandlingInv, TypeOK
  <2>5. TaskOK(x)'
    BY <2>4 DEF TaskOK, Resolving, Idle
  <2>6. \A other \in F : other.outcome = tasks[x].outcome
    OBVIOUS
  <2> HIDE DEF F
  <2> QED  BY <1>0, <1>2, <2>2, <2>3, <2>5, <2>6, IdleTask, QuietStep
<1> QED  BY <1>1, <1>2 DEF Reply

-----------------------------------------------------------------------------
(* The deduplication                                                       *)

\* Whose document an issued document's key is.
LEMMA KeyFacts ==
    ASSUME NEW m \in Message, NEW n \in Message
    PROVE  /\ message_key(m)[2] = m.id
           /\ message_key(m)[1] = "anonymous" <=> ~m.issued
           /\ m.issued => message_key(m) = <<m.sender, m.id>>
           /\ m.issued /\ message_key(m) = message_key(n) => m.sender = n.sender /\ m.id = n.id
<1>1. /\ m.sender # "anonymous" /\ n.sender # "anonymous"
      /\ m.issued \in BOOLEAN /\ n.issued \in BOOLEAN
  BY DeliveryAssumption DEF Message
<1>2. CASE m.issued
  <2>1. message_key(m) = <<m.sender, m.id>>
    BY <1>2 DEF message_key
  <2>2. CASE n.issued
    BY <1>1, <1>2, <2>1, <2>2 DEF message_key
  <2>3. CASE ~n.issued
    BY <1>1, <1>2, <2>1, <2>3 DEF message_key
  <2> QED  BY <1>1, <1>2, <2>1, <2>2, <2>3
<1>3. CASE ~m.issued
  BY <1>3 DEF message_key
<1> QED  BY <1>1, <1>2, <1>3

LEMMA ClaimKeeps ==
    ASSUME HandlingInv, MemoryInv, NEW x \in Copy, Claim(x)
    PROVE  HandlingInv' /\ MemoryInv'
<1> DEFINE m == MessageOf(x)
           d == message_key(m)
<1>0. /\ tasks[x].pc = "received" /\ Accepted(m)
      /\ UNCHANGED <<listener, mishaps, fates, records, trail, effects, applied, lapses>>
  BY DEF Claim, IsTask, Accepted
<1>1. /\ Working(x) /\ ~Resolving(x) /\ TypeOK /\ SentInv /\ mishaps' \in 0..MaxMishaps
      /\ m.form = "task"
  BY <1>0, ReceivedFacts DEF HandlingInv, TypeOK, Accepted
<1>2. m \in Message /\ d \in Documents
  BY <1>1, MessageFacts
<1>3. CASE memory[d] = InFlight /\ ToReply(x, Answered(x, "busy")) /\ UNCHANGED memory
  <2> DEFINE o == Answered(x, "busy")
  <2>1. o \in Outcome /\ o.answer = "busy" /\ o.of = Own(x) /\ ToReply(x, o)
    BY <1>1, <1>3, AnsweredType
  <2> HIDE DEF o
  <2> QED  BY <1>0, <1>1, <1>3, <2>1, Concludes
<1>4. CASE memory[d] \notin {Absent, InFlight} /\ ToReply(x, memory[d].outcome) /\ UNCHANGED memory
  <2> DEFINE o == memory[d].outcome
  <2>1. o \in Outcome
    BY <1>1, <1>2, <1>4, StoredFacts, TypeParts
  <2>2. m.issued => o.of = Own(x)
    BY <1>2, <1>4, KeyFacts DEF MemoryInv, StoredInv, Own
  <2>3. m.issued /\ o.answer = "ok" => Effected(x)
    <3> SUFFICES ASSUME m.issued, o.answer = "ok"
                 PROVE  Effected(x)
      OBVIOUS
    <3>1. PICK other \in effects : carries[other].form = "task" /\ message_key(carries[other]) = d
      BY <1>2, <1>4 DEF MemoryInv, StoredInv
    <3>2. carries[other] \in Message
      BY <1>1, DeliveryAssumption DEF SentInv, Sent, TypeOK
    <3> HIDE DEF m
    <3>3. m.sender = carries[other].sender /\ m.id = carries[other].id
      BY <1>2, <3>1, <3>2, KeyFacts
    <3> QED  BY <1>1, <3>1, <3>3 DEF Effected, SameDocument, m
  <2> HIDE DEF o
  <2>4. ToReply(x, o)
    BY <1>4 DEF o
  <2> QED  BY <1>0, <1>1, <1>4, <2>1, <2>2, <2>3, <2>4, Concludes
<1>5. CASE /\ memory[d] = Absent
           /\ memory' = [memory EXCEPT ![d] = InFlight]
           /\ Become(x, [pc |-> "claimed"])
  <2> DEFINE t == [pc |-> "claimed"]
  <2>1. t \in Task
    BY TaskForms
  <2>2. /\ tasks'[x] = t /\ carries' = carries
        /\ \A y \in Copy \ {x} : tasks'[y] = tasks[y]
    BY <1>0, <1>1, <1>5, <2>1, BecomeFacts DEF TypeOK, listener
  <2>3. /\ memory' \in [Documents -> Stored]
        /\ memory'[d] = InFlight /\ \A c \in Documents \ {d} : memory'[c] = memory[c]
    BY <1>1, <1>2, <1>5, TypeParts DEF Stored
  <2>4. TaskOK(x)'
    BY <1>0, <2>2 DEF TaskOK, Resolving, MessageOf
  <2>5. HandlingInv'
    <3>1. PICK F \in SUBSET Fates : F = {} /\ fates' = [fates EXCEPT ![x[1]] = @ \union F]
      BY <1>0, SameFates
    <3>2. /\ records' \in Table
          /\ applied' \in [Documents -> Nat] /\ lapses' \in [Documents -> Nat]
      BY <1>0, <1>1, TypeParts
    <3>3. trail' = trail /\ (\A entry \in trail' \ trail : FALSE) /\ (\A fate \in F : FALSE)
      BY <1>0, <3>1
    <3>4. t.pc # "idle" /\ Become(x, t) /\ effects' = effects /\ UNCHANGED listener
      BY <1>0, <1>5
    <3> HIDE DEF t
    <3> QED  BY <1>1, <2>1, <2>3, <2>4, <3>1, <3>2, <3>3, <3>4, HandlingKept
  <2>6. \A y \in Copy : MessageOf(y)' = MessageOf(y)
                        /\ message_key(MessageOf(y))' = message_key(MessageOf(y))
    BY <2>2 DEF MessageOf, message_key
  <2>7. \A y \in Copy : Resolving(y)' <=> Resolving(y) \/ y = x
    BY <2>2 DEF Resolving
  <2>8. \A y \in Copy : Resolving(y) => message_key(MessageOf(y)) # d
    BY <1>5 DEF MemoryInv, ClaimInv, Absent, InFlight
  <2>9. ClaimInv'
    <3>1. \A y \in Copy : Resolving(y)' => memory'[message_key(MessageOf(y))] = InFlight
      <4> SUFFICES ASSUME NEW y \in Copy, Resolving(y), y # x
                   PROVE  memory'[message_key(MessageOf(y))] = InFlight
        BY <2>3, <2>7
      <4>1. Working(y)
        BY DEF Working, Resolving
      <4>2. message_key(MessageOf(y)) \in Documents
        BY <1>1, <4>1, MessageFacts
      <4> QED  BY <2>3, <2>8, <4>2 DEF MemoryInv, ClaimInv
    <3>2. \A y, z \in Copy : /\ Resolving(y)' /\ Resolving(z)'
                             /\ message_key(MessageOf(y)) = message_key(MessageOf(z))
                             => y = z
      BY <2>7, <2>8 DEF MemoryInv, ClaimInv
    <3> QED  BY <2>6, <3>1, <3>2 DEF ClaimInv
  <2>10. StoredInv'
    BY <1>0, <2>2, <2>3 DEF MemoryInv, StoredInv, message_key
  <2>11. \A c \in Documents : Remembered(c) => Remembered(c)'
    BY <1>0, <1>5, <2>2, <2>3, <2>6 DEF Remembered
  <2>12. AccountInv'
    BY <1>0, <2>11 DEF MemoryInv, AccountInv
  <2> QED  BY <2>5, <2>9, <2>10, <2>12 DEF MemoryInv
<1> QED  BY <1>3, <1>4, <1>5 DEF Claim

\* What is known when a claim is about to be resolved.
LEMMA ResolvingFacts ==
    ASSUME HandlingInv, MemoryInv, NEW x \in Copy, Resolving(x)
    PROVE  /\ Working(x) /\ TypeOK /\ SentInv
           /\ MessageOf(x) \in Message /\ message_key(MessageOf(x)) \in Documents
           /\ x[1] \in Envelopes
           /\ MessageOf(x).form = "task" /\ Accepted(MessageOf(x))
           /\ MessageOf(x).op \in Acting \union {"rotate"}
           /\ MessageOf(x).fault # "payload" => Authorised(MessageOf(x))
           /\ memory[message_key(MessageOf(x))] = InFlight
           /\ \A y \in Copy : /\ Resolving(y)
                              /\ message_key(MessageOf(y)) = message_key(MessageOf(x))
                              => y = x
<1>1. Working(x) /\ TypeOK /\ SentInv
  BY DEF Working, Resolving, HandlingInv
<1>2. /\ MessageOf(x) \in Message /\ message_key(MessageOf(x)) \in Documents
      /\ x[1] \in Envelopes
  BY <1>1, MessageFacts
<1>3. Accepted(MessageOf(x))
  BY DEF HandlingInv, TaskInv, TaskOK
<1>4. MessageOf(x).op \in Acting \union {"rotate"} /\ MessageOf(x).form = "task"
  BY <1>3 DEF Accepted, Deduplicated, is_write_slug
<1>5. MessageOf(x).fault # "payload" => Authorised(MessageOf(x))
  BY <1>2, <1>3 DEF Accepted, Deduplicated, Refused, is_write_slug, Authorised, Message, Faults
<1> QED  BY <1>1, <1>2, <1>3, <1>4, <1>5 DEF MemoryInv, ClaimInv

\* What a claimed document is answered.
Rulings == {"ok", "exists", "notFound", "failed", "refused", "unsupported"}

\* What the dispatch of a claimed document does: it writes only what is authorised.
LEMMA DispatchFacts ==
    ASSUME HandlingInv, MemoryInv, NEW x \in Copy, Dispatch(x)
    PROVE  \E answer \in Rulings, mutated \in BOOLEAN :
              /\ Become(x, [pc |-> "dispatched", outcome |-> Answered(x, answer), mutated |-> mutated])
              /\ mishaps' \in 0..MaxMishaps /\ records' \in Table
              /\ mutated => answer \in {"ok", "failed"} /\ Authorised(MessageOf(x))
              /\ answer = "ok" => mutated
              /\ effects' = IF mutated THEN effects \union {x[1]} ELSE effects
              /\ applied' = IF mutated THEN [applied EXCEPT ![message_key(MessageOf(x))] = @ + 1]
                                       ELSE applied
<1> DEFINE m == MessageOf(x)
<1>0. /\ Resolving(x)
  BY DEF Dispatch, Resolving
<1>1. /\ Working(x) /\ TypeOK /\ SentInv
      /\ m.fault # "payload" => Authorised(m)
      /\ mishaps \in 0..MaxMishaps /\ records \in Table
  BY <1>0, ResolvingFacts DEF TypeOK
<1>2. PICK answer \in Answers \union {"refused", "unsupported"}, tookEffect \in BOOLEAN :
        /\ \/ m.op \in Writes /\ m.fault # "payload" /\ Perform(x, answer, tookEffect)
           \/ m.op = "govern" /\ m.fault # "payload" /\ Govern(x, answer, tookEffect)
           \/ Reject(m, answer) /\ ~tookEffect /\ UNCHANGED <<mishaps, records, effects>>
        /\ Become(x, [pc |-> "dispatched", outcome |-> Answered(x, answer), mutated |-> tookEffect])
        /\ applied' = IF tookEffect THEN [applied EXCEPT ![message_key(m)] = @ + 1] ELSE applied
  BY DEF Dispatch
<1>3. /\ answer \in Rulings /\ mishaps' \in 0..MaxMishaps /\ records' \in Table
      /\ tookEffect => answer \in {"ok", "failed"} /\ m.fault # "payload"
      /\ answer = "ok" => tookEffect
      /\ effects' = IF tookEffect THEN effects \union {x[1]} ELSE effects
  <2>1. CASE m.op \in Writes /\ m.fault # "payload" /\ Perform(x, answer, tookEffect)
    <3>1. /\ MessageOf(x).op \in Ops /\ MessageOf(x).op \in Writes
          /\ answer \in Answers /\ Perform(x, answer, tookEffect)
      BY <2>1 DEF Ops, Perform, Verdict, Answers
    <3>2. /\ mishaps' \in 0..MaxMishaps /\ records' \in Table
          /\ answer \in {"ok", "exists", "notFound", "failed"}
          /\ tookEffect => answer \in {"ok", "failed"}
          /\ answer = "ok" => tookEffect
          /\ effects' = IF tookEffect THEN effects \union {x[1]} ELSE effects
      BY <1>1, <3>1, PerformFacts
    <3> QED  BY <2>1, <3>2 DEF Rulings
  <2>2. CASE m.op = "govern" /\ m.fault # "payload" /\ Govern(x, answer, tookEffect)
    <3>1. mishaps' \in 0..MaxMishaps
      BY <1>1, <2>2, MishapBounded DEF Govern
    <3>2. /\ answer \in {"ok", "refused", "failed"}
          /\ answer = "ok" => tookEffect
          /\ answer = "refused" => ~tookEffect
          /\ effects' = IF tookEffect THEN effects \union {x[1]} ELSE effects
      BY <2>2 DEF Govern
    <3>3. records' \in Table
      BY <1>1, <2>2 DEF Govern
    <3> QED  BY <2>2, <3>1, <3>2, <3>3 DEF Rulings
  <2>3. CASE Reject(m, answer) /\ ~tookEffect /\ UNCHANGED <<mishaps, records, effects>>
    BY <1>1, <2>3 DEF Reject, Rulings
  <2> QED  BY <1>2, <2>1, <2>2, <2>3
<1> QED  BY <1>1, <1>2, <1>3

LEMMA DispatchKeeps ==
    ASSUME HandlingInv, MemoryInv, NEW x \in Copy, Dispatch(x)
    PROVE  HandlingInv' /\ MemoryInv'
<1> DEFINE m == MessageOf(x)
<1>0. /\ tasks[x].pc = "claimed" /\ Resolving(x)
      /\ UNCHANGED <<listener, fates, memory, trail, lapses>>
  BY DEF Dispatch, Resolving
<1>d. PICK d \in Documents : d = message_key(MessageOf(x))
  BY <1>0, ResolvingFacts
<1>1. /\ Working(x) /\ TypeOK /\ SentInv /\ m \in Message /\ x[1] \in Envelopes
      /\ m.form = "task" /\ Accepted(m) /\ memory[d] = InFlight
      /\ \A y \in Copy : Resolving(y) /\ message_key(MessageOf(y)) = d => y = x
  BY <1>0, <1>d, ResolvingFacts
<1>2. PICK answer \in Rulings, mutated \in BOOLEAN :
        /\ Become(x, [pc |-> "dispatched", outcome |-> Answered(x, answer), mutated |-> mutated])
        /\ mishaps' \in 0..MaxMishaps /\ records' \in Table
        /\ mutated => answer \in {"ok", "failed"} /\ Authorised(m)
        /\ answer = "ok" => mutated
        /\ effects' = IF mutated THEN effects \union {x[1]} ELSE effects
        /\ applied' = IF mutated THEN [applied EXCEPT ![d] = @ + 1] ELSE applied
  BY <1>d, DispatchFacts
<1> DEFINE o == Answered(x, answer)
           t == [pc |-> "dispatched", outcome |-> o, mutated |-> mutated]
<1>3. o \in Outcome /\ o.answer = answer /\ o.of = Own(x)
  BY <1>1, AnsweredType DEF Rulings
<1> HIDE DEF o
<1>4. t \in Task /\ Become(x, t) /\ t.pc = "dispatched"
  BY <1>2, <1>3, TaskForms DEF o
<1>5. /\ tasks'[x] = t /\ carries' = carries
      /\ \A y \in Copy \ {x} : tasks'[y] = tasks[y]
  BY <1>0, <1>1, <1>4, BecomeFacts DEF TypeOK, listener
<1>6. /\ applied \in [Documents -> Nat] /\ lapses \in [Documents -> Nat]
      /\ applied' \in [Documents -> Nat]
  BY <1>1, <1>2 DEF TypeOK
<1>7. TaskOK(x)'
  <2>1. Resolving(x)' /\ Accepted(MessageOf(x))' /\ Own(x)' = Own(x)
    BY <1>1, <1>4, <1>5 DEF Resolving, MessageOf, Own
  <2>2. mutated => x[1] \in effects'
    BY <1>2
  <2> QED  BY <1>2, <1>3, <1>5, <2>1, <2>2 DEF TaskOK
<1>8. effects \subseteq effects' /\ effects' \subseteq effects \union {x[1]}
  BY <1>2
<1>9. HandlingInv'
  <2>1. PICK F \in SUBSET Fates : F = {} /\ fates' = [fates EXCEPT ![x[1]] = @ \union F]
    BY <1>0, SameFates
  <2>2. memory' \in [Documents -> Stored] /\ lapses' \in [Documents -> Nat]
    BY <1>0, <1>1, TypeParts
  <2>3. trail' = trail /\ (\A entry \in trail' \ trail : FALSE) /\ (\A fate \in F : FALSE)
    BY <1>0, <2>1
  <2> HIDE DEF t
  <2> QED  BY <1>0, <1>1, <1>2, <1>4, <1>6, <1>7, <1>8, <2>1, <2>2, <2>3, HandlingKept
<1>10. \A y \in Copy : /\ MessageOf(y)' = MessageOf(y)
                       /\ message_key(MessageOf(y))' = message_key(MessageOf(y))
                       /\ Resolving(y)' <=> Resolving(y)
  BY <1>0, <1>4, <1>5 DEF MessageOf, message_key, Resolving
<1>11. ClaimInv'
  BY <1>0, <1>10 DEF MemoryInv, ClaimInv
<1>12. StoredInv'
  BY <1>0, <1>5, <1>8 DEF MemoryInv, StoredInv, message_key
<1>13. ~Remembered(d)
  <2>1. \A y \in Copy : tasks[y].pc = "dispatched" => message_key(MessageOf(y)) # d
    BY <1>0, <1>1 DEF Resolving
  <2> QED  BY <1>1, <2>1 DEF Remembered
<1>14. applied[d] <= lapses[d]
  BY <1>1, <1>13 DEF MemoryInv, AccountInv
<1>15. \A c \in Documents : Remembered(c) => Remembered(c)'
  <2>1. \A y \in Copy : tasks[y].pc = "dispatched" => y # x
    BY <1>0
  <2> QED  BY <1>0, <1>5, <1>10, <2>1 DEF Remembered
<1>16. AccountInv'
  <2>1. lapses' = lapses
    BY <1>0
  <2>2. CASE ~mutated
    BY <1>2, <1>15, <2>1, <2>2 DEF MemoryInv, AccountInv
  <2>3. CASE mutated
    <3>1. Remembered(d)'
      <4>1. tasks'[x].pc = "dispatched" /\ tasks'[x].mutated
        BY <1>5, <2>3
      <4>2. message_key(MessageOf(x))' = d
        BY <1>d, <1>10
      <4> QED  BY <4>1, <4>2 DEF Remembered
    <3>2. applied'[d] = applied[d] + 1 /\ \A c \in Documents \ {d} : applied'[c] = applied[c]
      BY <1>1, <1>2, <1>6, <2>3
    <3>3. ASSUME NEW c \in Documents
          PROVE  applied'[c] <= lapses[c] + 1 /\ (applied'[c] <= lapses[c] \/ Remembered(c)')
      <4>1. CASE c = d
        BY <1>6, <1>14, <3>1, <3>2, <4>1
      <4>2. CASE c # d
        BY <1>15, <3>2, <4>2 DEF MemoryInv, AccountInv
      <4> QED  BY <4>1, <4>2
    <3> QED  BY <2>1, <3>3 DEF AccountInv
  <2> QED  BY <2>2, <2>3
<1> QED  BY <1>9, <1>11, <1>12, <1>16 DEF MemoryInv

LEMMA ResolveKeeps ==
    ASSUME HandlingInv, MemoryInv, NEW x \in Copy, Resolve(x)
    PROVE  HandlingInv' /\ MemoryInv'
<1> DEFINE m == MessageOf(x)
           o == tasks[x].outcome
           t == [pc |-> "replying", outcome |-> o]
           failed == o.answer = "failed"
           s == IF failed THEN Absent ELSE [status |-> "done", outcome |-> o]
<1>d. PICK d \in Documents : d = message_key(MessageOf(x))
  <2>1. Resolving(x)
    BY DEF Resolve, Resolving
  <2> QED  BY <2>1, ResolvingFacts
<1>0. /\ tasks[x].pc = "dispatched" /\ Resolving(x) /\ Become(x, t)
      /\ memory' = [memory EXCEPT ![d] = s]
      /\ lapses' = IF failed /\ tasks[x].mutated THEN [lapses EXCEPT ![d] = @ + 1] ELSE lapses
      /\ UNCHANGED <<listener, mishaps, fates, records, trail, effects, applied>>
  BY <1>d DEF Resolve, ToReply, Resolving
<1>1. /\ Working(x) /\ TypeOK /\ SentInv /\ m \in Message /\ x[1] \in Envelopes
      /\ m.form = "task" /\ Accepted(m) /\ memory[d] = InFlight
      /\ \A y \in Copy : Resolving(y) /\ message_key(MessageOf(y)) = d => y = x
  BY <1>0, <1>d, ResolvingFacts
<1>2. o \in Outcome /\ t \in Task /\ t.pc = "replying" /\ s \in Stored
  BY <1>0, <1>1, TaskFacts, TaskForms DEF TypeOK, Stored
<1>3. /\ o.of = Own(x) /\ (o.answer = "ok" => x[1] \in effects)
      /\ tasks[x].mutated => o.answer \in {"ok", "failed"}
  BY <1>0 DEF HandlingInv, TaskInv, TaskOK
<1>4. /\ tasks'[x] = t /\ carries' = carries
      /\ \A y \in Copy \ {x} : tasks'[y] = tasks[y]
  BY <1>0, <1>1, <1>2, BecomeFacts DEF TypeOK, listener
<1>5. /\ memory' \in [Documents -> Stored] /\ memory'[d] = s
      /\ \A c \in Documents \ {d} : memory'[c] = memory[c]
  BY <1>0, <1>1, <1>2, TypeParts
<1>6. /\ applied \in [Documents -> Nat] /\ lapses \in [Documents -> Nat]
      /\ lapses' \in [Documents -> Nat]
      /\ \A c \in Documents \ {d} : lapses'[c] = lapses[c]
      /\ lapses'[d] = IF failed /\ tasks[x].mutated THEN lapses[d] + 1 ELSE lapses[d]
  BY <1>0, <1>1 DEF TypeOK
<1>7. TaskOK(x)'
  <2>1. x[1] \in effects => Effected(x)'
    BY <1>0, <1>4 DEF Effected, SameDocument, MessageOf
  <2> QED  BY <1>1, <1>3, <1>4, <2>1 DEF TaskOK, Resolving, MessageOf, Own
<1> HIDE DEF t, s
<1>8. HandlingInv'
  <2>1. PICK F \in SUBSET Fates : F = {} /\ fates' = [fates EXCEPT ![x[1]] = @ \union F]
    BY <1>0, SameFates
  <2>2. records' \in Table /\ mishaps' \in 0..MaxMishaps /\ applied' \in [Documents -> Nat]
    BY <1>0, <1>1, TypeParts
  <2>3. trail' = trail /\ (\A entry \in trail' \ trail : FALSE) /\ (\A fate \in F : FALSE)
    BY <1>0, <2>1
  <2> QED  BY <1>0, <1>1, <1>2, <1>5, <1>6, <1>7, <2>1, <2>2, <2>3, HandlingKept
<1>9. \A y \in Copy : /\ MessageOf(y)' = MessageOf(y)
                      /\ message_key(MessageOf(y))' = message_key(MessageOf(y))
  BY <1>4 DEF MessageOf, message_key
<1>10. \A y \in Copy : Resolving(y)' <=> Resolving(y) /\ y # x
  BY <1>2, <1>4 DEF Resolving
<1>11. ClaimInv'
  <2>1. ASSUME NEW y \in Copy, Resolving(y)'
        PROVE  memory'[message_key(MessageOf(y))] = InFlight
    <3>1. Resolving(y) /\ y # x
      BY <1>10, <2>1
    <3>2. message_key(MessageOf(y)) \in Documents \ {d}
      BY <1>1, <3>1, ResolvingFacts
    <3> QED  BY <1>5, <3>1, <3>2 DEF MemoryInv, ClaimInv
  <2>2. \A y, z \in Copy : /\ Resolving(y)' /\ Resolving(z)'
                           /\ message_key(MessageOf(y)) = message_key(MessageOf(z))
                           => y = z
    BY <1>10 DEF MemoryInv, ClaimInv
  <2> QED  BY <1>9, <2>1, <2>2 DEF ClaimInv
<1>12. StoredInv'
  <2> SUFFICES ASSUME NEW c \in Documents, memory'[c] \notin {Absent, InFlight}
               PROVE  /\ c[1] # "anonymous" => memory'[c].outcome.of = c
                      /\ memory'[c].outcome.answer = "ok" =>
                           \E other \in effects : /\ carries[other].form = "task"
                                                  /\ message_key(carries[other]) = c
    BY <1>0, <1>4 DEF StoredInv, message_key
  <2>1. CASE c # d
    BY <1>5, <2>1 DEF MemoryInv, StoredInv
  <2>2. CASE c = d
    <3>1. ~failed /\ memory'[d].outcome = o
      BY <1>5, <2>2 DEF s
    <3>2. d[1] # "anonymous" => Own(x) = d
      BY <1>1, <1>d, KeyFacts DEF Own, Message
    <3>3. carries[x[1]] = m
      BY DEF MessageOf
    <3> QED  BY <1>1, <1>3, <1>d, <2>2, <3>1, <3>2, <3>3
  <2> QED  BY <2>1, <2>2
<1>13. \A c \in Documents \ {d} : Remembered(c) => Remembered(c)'
  <2>1. \A c \in Documents \ {d}, y \in Copy : message_key(MessageOf(y)) = c => y # x
    BY <1>d
  <2> QED  BY <1>4, <1>5, <1>9, <2>1 DEF Remembered
<1>14. AccountInv'
  <2>1. ASSUME NEW c \in Documents \ {d}
        PROVE  applied[c] <= lapses'[c] + 1 /\ (applied[c] <= lapses'[c] \/ Remembered(c)')
    BY <1>6, <1>13 DEF MemoryInv, AccountInv
  <2>2. /\ applied[d] <= lapses[d] + 1
        /\ applied[d] <= lapses[d] \/ Remembered(d)
    BY DEF MemoryInv, AccountInv
  <2>3. Remembered(d) => tasks[x].mutated
    BY <1>1 DEF Remembered, Resolving
  <2>4. CASE failed /\ tasks[x].mutated
    BY <1>0, <1>1, <1>6, <2>1, <2>2, <2>4 DEF AccountInv
  <2>5. CASE ~tasks[x].mutated
    BY <1>0, <1>1, <1>6, <2>1, <2>2, <2>3, <2>5 DEF AccountInv
  <2>6. CASE ~failed /\ tasks[x].mutated
    <3>1. Remembered(d)'
      <4>1. memory'[d] = [status |-> "done", outcome |-> o] /\ o.answer = "ok"
        BY <1>3, <1>5, <2>6 DEF s
      <4>2. memory'[d].outcome.answer = "ok" /\ memory'[d] \notin {Absent, InFlight}
        BY <4>1 DEF Absent, InFlight
      <4> QED  BY <4>2 DEF Remembered
    <3> QED  BY <1>0, <1>1, <1>6, <2>1, <2>2, <2>6, <3>1 DEF AccountInv
  <2> QED  BY <2>4, <2>5, <2>6
<1> QED  BY <1>8, <1>11, <1>12, <1>14 DEF MemoryInv

LEMMA HandleKeeps ==
    ASSUME HandlingInv, MemoryInv, NEW x \in Copy, Handle(x)
    PROVE  HandlingInv' /\ MemoryInv'
<1>1. CASE Unpack(x)
  BY <1>1, UnpackKeeps
<1>2. CASE Drop(x) \/ Refuse(x) \/ handle_did_rotate(x) \/ Query(x) \/ TrqpQuery(x)
  BY <1>2, AnswersKeep
<1>3. CASE handle_unauthorized(x) \/ handle_request(x)
  BY <1>3, AdminKeeps
<1>4. CASE Audit(x)
  BY <1>4, AuditKeeps
<1>5. CASE Reply(x)
  BY <1>5, ReplyKeeps
<1>6. CASE Claim(x)
  BY <1>6, ClaimKeeps
<1>7. CASE Dispatch(x)
  BY <1>7, DispatchKeeps
<1>8. CASE Resolve(x)
  BY <1>8, ResolveKeeps
<1> QED  BY <1>1, <1>2, <1>3, <1>4, <1>5, <1>6, <1>7, <1>8 DEF Handle

-----------------------------------------------------------------------------
(* The steps of the listener, of senders and of the process                *)

\* What holds of the tasks that go on, whatever else happens to them and to the
\* messages nobody handles.
LEMMA OnlyStarted ==
    ASSUME HandlingInv, MemoryInv, UNCHANGED server,
           \A x \in Copy : Working(x) => tasks'[x] = tasks[x] /\ MessageOf(x)' = MessageOf(x),
           \A x \in Copy : ~Working(x) =>
              tasks'[x] = tasks[x] \/ tasks'[x].pc \in {"packed", "received"},
           \A e \in Envelopes : Sent(e) => carries'[e] = carries[e],
           fates' = fates
    PROVE  TaskInv' /\ HistoryInv' /\ MemoryInv'
<1>0. /\ UNCHANGED <<memory, records, trail, effects, applied, lapses>>
      /\ effects \subseteq Envelopes /\ trail \subseteq Entries
      /\ \A e \in effects : Sent(e) /\ carries'[e] = carries[e]
      /\ \A entry \in trail : carries'[entry.envelope] = carries[entry.envelope]
  BY TypeParts DEF server, HandlingInv, SentInv, Entries
<1>1. \A x \in Copy : Resolving(x) \/ tasks[x].pc \in {"auditing", "replying"} => Working(x)
  BY DEF Resolving, Working
<1>2. \A x \in Copy : ~Working(x) => ~Resolving(x)' /\ tasks'[x].pc \notin {"auditing", "replying"}
  BY DEF Resolving, Working
<1>3. \A x \in Copy : Resolving(x)' <=> Resolving(x)
  BY <1>1, <1>2 DEF Resolving
<1>4. TaskInv'
  <2> SUFFICES ASSUME NEW x \in Copy
               PROVE  TaskOK(x)'
    BY DEF TaskInv
  <2>1. CASE Working(x)
    <3>1. tasks'[x] = tasks[x] /\ MessageOf(x)' = MessageOf(x) /\ Own(x)' = Own(x)
      BY <2>1 DEF Own
    <3>2. Effected(x) => Effected(x)'
      BY <1>0, <3>1 DEF Effected
    <3>3. TaskOK(x)
      BY DEF HandlingInv, TaskInv
    <3> QED  BY <1>0, <1>3, <3>1, <3>2, <3>3 DEF TaskOK
  <2>2. CASE ~Working(x)
    BY <1>2, <2>2 DEF TaskOK, Resolving
  <2> QED  BY <2>1, <2>2
<1>5. HistoryInv'
  <2>1. \A e \in Envelopes : fates[e] # {} => carries'[e] = carries[e]
    BY DEF HandlingInv, SentInv
  <2>2. OnlyAuthorisedEffects'
    BY <1>0 DEF HandlingInv, HistoryInv, OnlyAuthorisedEffects
  <2>3. AuditedBeforeAnswered'
    BY <1>0, <2>1 DEF HandlingInv, HistoryInv, AuditedBeforeAnswered
  <2>4. AcknowledgedWereApplied'
    <3>1. \A e \in Envelopes : \A fate \in fates'[e] : fate \in fates[e] /\ carries'[e] = carries[e]
      BY <2>1
    <3>2. \A e \in Envelopes : \A other \in effects :
            carries'[e] = carries[e] /\ SameDocument(carries[other], carries[e])
            => SameDocument(carries'[other], carries'[e])
      BY <1>0
    <3> QED  BY <1>0, <3>1, <3>2 DEF HandlingInv, HistoryInv, AcknowledgedWereApplied
  <2> QED  BY <2>2, <2>3, <2>4 DEF HistoryInv
<1>6. \A x \in Copy : Resolving(x) => message_key(MessageOf(x))' = message_key(MessageOf(x))
  BY <1>1 DEF message_key
<1>7. ClaimInv'
  BY <1>0, <1>3, <1>6 DEF MemoryInv, ClaimInv
<1>8. StoredInv'
  <2>1. \A other \in effects : message_key(carries[other])' = message_key(carries[other])
    BY <1>0 DEF message_key
  <2> QED  BY <1>0, <2>1 DEF MemoryInv, StoredInv
<1>9. \A d \in Documents : Remembered(d) => Remembered(d)'
  <2>1. \A x \in Copy : tasks[x].pc = "dispatched" => tasks'[x] = tasks[x] /\ Resolving(x)
    BY <1>1 DEF Resolving
  <2> QED  BY <1>0, <1>6, <2>1 DEF Remembered
<1>10. AccountInv'
  BY <1>0, <1>9 DEF MemoryInv, AccountInv
<1> QED  BY <1>4, <1>5, <1>7, <1>8, <1>10 DEF MemoryInv

LEMMA SendKeeps ==
    ASSUME HandlingInv, MemoryInv, NEW e \in Envelopes, NEW m \in Messages, Send(e, m)
    PROVE  HandlingInv' /\ MemoryInv'
<1>0. /\ ~Sent(e) /\ carries' = [carries EXCEPT ![e] = m] /\ mailbox' = mailbox \union {e}
      /\ UNCHANGED <<up, fetched, tasks, mishaps, fates, server>>
      /\ UNCHANGED <<memory, records, trail, effects, applied, lapses>>
  BY DEF Send, Sent, server
<1>1. /\ carries' \in [Envelopes -> Messages \union {None}] /\ carries'[e] = m /\ m # None
      /\ \A d \in Envelopes \ {e} : carries'[d] = carries[d]
  BY <1>0, DeliveryAssumption DEF HandlingInv, TypeOK
<1>2. TypeOK'
  BY <1>0, <1>1 DEF HandlingInv, TypeOK
<1>3. \A d \in Envelopes : Sent(d) => Sent(d)' /\ carries'[d] = carries[d]
  BY <1>0, <1>1 DEF Sent
<1>4. \A x \in Copy : x[1] \in Envelopes
  BY DeliveryAssumption
<1>5. \A x \in Copy : Working(x) => tasks'[x] = tasks[x] /\ MessageOf(x)' = MessageOf(x)
  BY <1>0, <1>3, <1>4 DEF HandlingInv, SentInv, MessageOf
<1>6. TaskInv' /\ HistoryInv' /\ MemoryInv'
  <2>1. \A x \in Copy : tasks'[x] = tasks[x]
    BY <1>0
  <2> QED  BY <1>0, <1>3, <1>5, <2>1, OnlyStarted
<1>7. SentInv'
  <2>1. \A d \in mailbox \union fetched \union effects : d \in Envelopes
    BY DEF HandlingInv, TypeOK
  <2>2. \A entry \in trail : entry.envelope \in Envelopes
    BY TypeParts DEF HandlingInv, Entries
  <2>3. Sent(e)'
    BY <1>1 DEF Sent
  <2>4. \A x \in Copy : Working(x)' <=> Working(x)
    BY <1>0 DEF Working
  <2> QED  BY <1>0, <1>3, <1>4, <2>1, <2>2, <2>3, <2>4 DEF HandlingInv, SentInv
<1>8. KeptInv'
  <2>1. \A d \in Envelopes : Held(d)' <=> Held(d)
    BY <1>0 DEF Held, Working
  <2>2. fetched \subseteq Envelopes
    BY DEF HandlingInv, TypeOK
  <2> QED  BY <1>0, <1>1, <2>1, <2>2 DEF HandlingInv, KeptInv, NothingVanishes
<1> QED  BY <1>2, <1>6, <1>7, <1>8 DEF HandlingInv

\* A started task is one that was idle, and each of the envelopes gets one.
LEMMA SpawnFacts ==
    ASSUME HandlingInv, NEW E \in SUBSET Envelopes, \A e \in E : HasSlot(e), Spawn(E)
    PROVE  /\ tasks' \in [Copy -> Task]
           /\ \A x \in Copy : Working(x) => tasks'[x] = tasks[x]
           /\ \A x \in Copy : ~Working(x) =>
                \/ tasks'[x] = tasks[x]
                \/ x[1] \in E /\ tasks'[x].pc \in {"packed", "received"}
           /\ \A e \in E : Held(e)'
<1>1. \A e \in E : Slot(e) \in Copy /\ Slot(e)[1] = e /\ ~Working(Slot(e))
  BY DEF HasSlot, Slot
<1> DEFINE started(x) == IF MessageOf(x).via = "tsp" THEN [pc |-> "packed", tries |-> 0]
                                                     ELSE [pc |-> "received"]
<1>2. \A x \in Copy : started(x) \in Task /\ started(x).pc \in {"packed", "received"}
  <2>1. 0 \in 0..Attempts - 1
    BY DeliveryAssumption
  <2>2. [pc |-> "packed", tries |-> 0] \in Task /\ [pc |-> "received"] \in Task
    BY <2>1, TaskForms
  <2> QED  BY <2>2
<1>3. tasks' = [x \in Copy |-> IF x[1] \in E /\ x = Slot(x[1]) THEN started(x) ELSE tasks[x]]
  BY DEF Spawn
<1> HIDE DEF started
<1>4. tasks \in [Copy -> Task]
  BY DEF HandlingInv, TypeOK
<1>5. tasks' \in [Copy -> Task]
  BY <1>2, <1>3, <1>4
<1>6. \A x \in Copy : Working(x) => tasks'[x] = tasks[x]
  BY <1>1, <1>3
<1>7. \A x \in Copy : ~Working(x) =>
         \/ tasks'[x] = tasks[x]
         \/ x[1] \in E /\ tasks'[x].pc \in {"packed", "received"}
  BY <1>2, <1>3
<1>8. ASSUME NEW e \in E
      PROVE  Held(e)'
  <2>1. tasks'[Slot(e)] = started(Slot(e))
    BY <1>1, <1>3
  <2>2. tasks'[Slot(e)].pc # "idle"
    BY <1>1, <1>2, <2>1
  <2>3. PICK x \in Copy : x = Slot(e)
    BY <1>1
  <2>4. x[1] = e /\ tasks'[x].pc # "idle"
    BY <1>1, <2>2, <2>3
  <2> QED  BY <2>4 DEF Held, Working
<1> QED  BY <1>5, <1>6, <1>7, <1>8

\* Handlers are started for envelopes out of the mailbox, before any of them is
\* taken out of it.
LEMMA StartKeeps ==
    ASSUME HandlingInv, MemoryInv, NEW E \in SUBSET Envelopes, E \subseteq mailbox,
           \A e \in E : HasSlot(e), Spawn(E),
           mailbox' \subseteq mailbox, mailbox \subseteq mailbox' \union E,
           fetched' \subseteq fetched \union E,
           UNCHANGED <<up, carries, fates, server>>, mishaps' \in 0..MaxMishaps
    PROVE  HandlingInv' /\ MemoryInv'
<1>0. /\ UNCHANGED <<memory, records, trail, effects, applied, lapses>>
      /\ carries' = carries /\ fates' = fates /\ up' = up
  BY DEF server
<1>1. /\ tasks' \in [Copy -> Task]
      /\ \A x \in Copy : Working(x) => tasks'[x] = tasks[x]
      /\ \A x \in Copy : ~Working(x) =>
           \/ tasks'[x] = tasks[x]
           \/ x[1] \in E /\ tasks'[x].pc \in {"packed", "received"}
      /\ \A e \in E : Held(e)'
  BY SpawnFacts
<1>2. TypeOK'
  <2>1. mailbox' \subseteq Envelopes /\ fetched' \subseteq Envelopes
    BY DEF HandlingInv, TypeOK
  <2> QED  BY <1>0, <1>1, <2>1 DEF HandlingInv, TypeOK
<1>3. TaskInv' /\ HistoryInv' /\ MemoryInv'
  <2>1. \A x \in Copy : MessageOf(x)' = MessageOf(x)
    BY <1>0 DEF MessageOf
  <2> QED  BY <1>0, <1>1, <2>1, OnlyStarted
<1>4. SentInv'
  <2>1. \A x \in Copy : Working(x)' => Sent(x[1])
    BY <1>1 DEF HandlingInv, SentInv, Working
  <2> QED  BY <1>0, <2>1 DEF HandlingInv, SentInv, Sent
<1>5. KeptInv'
  <2>1. \A e \in Envelopes : Held(e) => Held(e)'
    BY <1>1 DEF Held, Working
  <2>2. fetched \subseteq Envelopes
    BY DEF HandlingInv, TypeOK
  <2> QED  BY <1>0, <1>1, <2>1, <2>2 DEF HandlingInv, KeptInv, NothingVanishes
<1> QED  BY <1>2, <1>3, <1>4, <1>5 DEF HandlingInv

LEMMA ListenerKeeps ==
    ASSUME HandlingInv, MemoryInv,
           \/ \E e \in Envelopes : process_next_message(e)
           \/ \E E \in SUBSET Envelopes : FetchBatch(E)
    PROVE  HandlingInv' /\ MemoryInv'
<1>0. mishaps \in 0..MaxMishaps /\ mailbox \subseteq Envelopes
  BY DEF HandlingInv, TypeOK
<1>1. ASSUME NEW e \in Envelopes, process_next_message(e)
      PROVE  HandlingInv' /\ MemoryInv'
  <2>1. /\ e \in mailbox /\ HasSlot(e) /\ Spawn({e})
        /\ UNCHANGED <<up, carries, fates, server>> /\ fetched' = fetched
        /\ mailbox' = mailbox \/ mailbox' = mailbox \ {e}
    BY <1>1 DEF process_next_message
  <2>2. mishaps' \in 0..MaxMishaps
    BY <1>0, <1>1, MishapBounded DEF process_next_message
  <2>3. PICK E \in SUBSET Envelopes : E = {e}
    OBVIOUS
  <2>4. /\ E \subseteq mailbox /\ \A d \in E : HasSlot(d)
        /\ mailbox' \subseteq mailbox /\ mailbox \subseteq mailbox' \union E
        /\ fetched' \subseteq fetched \union E
    BY <2>1, <2>3
  <2> QED  BY <2>1, <2>2, <2>3, <2>4, StartKeeps
<1>2. ASSUME NEW E \in SUBSET Envelopes, FetchBatch(E)
      PROVE  HandlingInv' /\ MemoryInv'
  <2>1. /\ E \subseteq mailbox /\ (\A e \in E : HasSlot(e)) /\ Spawn(E)
        /\ UNCHANGED <<up, carries, fates, server>> /\ fetched' = E
        /\ mailbox' = mailbox /\ mishaps' = mishaps
    BY <1>2 DEF FetchBatch
  <2> QED  BY <1>0, <2>1, StartKeeps
<1> QED  BY <1>1, <1>2

\* A batch that is deleted has been handled or is being handled.
LEMMA AcknowledgeKeeps ==
    ASSUME HandlingInv, MemoryInv, AcknowledgeBatch
    PROVE  HandlingInv' /\ MemoryInv'
<1>0. /\ UNCHANGED <<up, carries, tasks, fates, server>> /\ fetched' = {}
      /\ UNCHANGED <<memory, records, trail, effects, applied, lapses>>
      /\ mailbox' \subseteq mailbox /\ mailbox \subseteq mailbox' \union fetched
  BY DEF AcknowledgeBatch, server
<1>1. mishaps' \in 0..MaxMishaps
  BY MishapBounded DEF AcknowledgeBatch, HandlingInv, TypeOK
<1>2. TypeOK'
  BY <1>0, <1>1 DEF HandlingInv, TypeOK
<1>3. TaskInv' /\ HistoryInv' /\ MemoryInv'
  <2>1. \A x \in Copy : MessageOf(x)' = MessageOf(x) /\ tasks'[x] = tasks[x]
    BY <1>0 DEF MessageOf
  <2>2. \A e \in Envelopes : carries'[e] = carries[e]
    BY <1>0
  <2> QED  BY <1>0, <2>1, <2>2, OnlyStarted
<1>4. SentInv'
  BY <1>0 DEF HandlingInv, SentInv, Sent, Working
<1>5. KeptInv'
  BY <1>0 DEF HandlingInv, KeptInv, NothingVanishes, Held, Working
<1> QED  BY <1>2, <1>3, <1>4, <1>5 DEF HandlingInv

LEMMA RestartKeeps ==
    ASSUME HandlingInv, MemoryInv, Restart
    PROVE  HandlingInv' /\ MemoryInv'
<1>0. /\ up' = TRUE /\ UNCHANGED <<carries, mailbox, fetched, tasks, mishaps, fates, server>>
      /\ UNCHANGED <<memory, records, trail, effects, applied, lapses>>
  BY DEF Restart, server
<1>1. TypeOK'
  BY <1>0 DEF HandlingInv, TypeOK
<1>2. TaskInv' /\ HistoryInv' /\ MemoryInv'
  <2>1. \A x \in Copy : MessageOf(x)' = MessageOf(x) /\ tasks'[x] = tasks[x]
    BY <1>0 DEF MessageOf
  <2>2. \A e \in Envelopes : carries'[e] = carries[e]
    BY <1>0
  <2> QED  BY <1>0, <2>1, <2>2, OnlyStarted
<1>3. SentInv' /\ KeptInv'
  BY <1>0 DEF HandlingInv, SentInv, KeptInv, NothingVanishes, Sent, Held, Working
<1> QED  BY <1>1, <1>2, <1>3 DEF HandlingInv

\* What was being handled is lost or still in the mailbox, and what could be told
\* of an application is a lapse.
LEMMA CrashKeeps ==
    ASSUME HandlingInv, MemoryInv, Crash
    PROVE  HandlingInv' /\ MemoryInv'
<1>0. /\ up' = FALSE /\ fetched' = {} /\ mishaps' \in 0..MaxMishaps
      /\ tasks' = [x \in Copy |-> Idle] /\ memory' = [d \in Documents |-> Absent]
      /\ UNCHANGED <<carries, mailbox, records, trail, effects, applied>>
  BY MishapBounded DEF Crash, HandlingInv, TypeOK
<1>1. fates' = [e \in Envelopes |->
                  IF Held(e) /\ e \notin mailbox THEN fates[e] \union {Fate("lost")} ELSE fates[e]]
  BY DEF Crash
<1>2. lapses' = [d \in Documents |-> IF Remembered(d) THEN lapses[d] + 1 ELSE lapses[d]]
  BY DEF Crash, Remembered
<1>3. \A x \in Copy : tasks'[x].pc = "idle"
  BY <1>0 DEF Idle
<1>4. Fate("lost") \in Fates /\ Fate("lost").kind # "answered"
  <2>1. "lost" \in FateKinds
    BY DEF FateKinds
  <2> QED  BY <2>1, NamedFates
<1>5. /\ fates' \in [Envelopes -> SUBSET Fates]
      /\ \A e \in Envelopes : /\ fates[e] \subseteq fates'[e]
                              /\ \A fate \in fates'[e] : fate.kind = "answered" => fate \in fates[e]
                              /\ Held(e) /\ e \notin mailbox => fates'[e] # {}
                              /\ fates'[e] # {} => Held(e) \/ fates[e] # {}
  BY <1>1, <1>4, TypeParts DEF HandlingInv
<1>6. applied \in [Documents -> Nat] /\ lapses \in [Documents -> Nat] /\ lapses' \in [Documents -> Nat]
  BY <1>2 DEF HandlingInv, TypeOK
<1>7. TypeOK'
  <2>1. tasks' \in [Copy -> Task]
    BY <1>0, IdleTask
  <2>2. memory' \in [Documents -> {Absent, InFlight} \union [status : {"done"}, outcome : Outcome]]
    BY <1>0
  <2>3. fates' \in [Envelopes -> SUBSET ([kind : FateKinds] \union
                                         [kind : {"answered"}, outcome : Outcome])]
    BY <1>5 DEF Fates
  <2> QED  BY <1>0, <1>6, <2>1, <2>2, <2>3 DEF HandlingInv, TypeOK
<1>8. SentInv'
  <2>1. \A e \in Envelopes : Held(e) => Sent(e)
    BY DEF HandlingInv, SentInv, Held
  <2> QED  BY <1>0, <1>3, <1>5, <2>1 DEF HandlingInv, SentInv, Sent, Working
<1>9. KeptInv'
  BY <1>0, <1>5 DEF HandlingInv, KeptInv, NothingVanishes
<1>10. TaskInv'
  BY <1>3 DEF TaskInv, TaskOK, Resolving
<1>11. HistoryInv'
  <2>1. OnlyAuthorisedEffects'
    BY <1>0 DEF HandlingInv, HistoryInv, OnlyAuthorisedEffects
  <2>2. AuditedBeforeAnswered'
    BY <1>0, <1>5 DEF HandlingInv, HistoryInv, AuditedBeforeAnswered
  <2>3. AcknowledgedWereApplied'
    BY <1>0, <1>5 DEF HandlingInv, HistoryInv, AcknowledgedWereApplied
  <2> QED  BY <2>1, <2>2, <2>3 DEF HistoryInv
<1>12. ClaimInv' /\ StoredInv'
  BY <1>0, <1>3 DEF ClaimInv, StoredInv, Resolving
<1>13. AccountInv'
  <2>1. \A d \in Documents : /\ applied[d] <= lapses[d] + 1
                             /\ applied[d] <= lapses[d] \/ Remembered(d)
    BY DEF MemoryInv, AccountInv
  <2>2. \A d \in Documents : lapses'[d] = IF Remembered(d) THEN lapses[d] + 1 ELSE lapses[d]
    BY <1>2
  <2>3. \A d \in Documents : applied[d] <= lapses'[d]
    BY <1>6, <2>1, <2>2
  <2> QED  BY <1>0, <1>6, <2>3 DEF AccountInv
<1> QED  BY <1>7, <1>8, <1>9, <1>10, <1>11, <1>12, <1>13 DEF HandlingInv, MemoryInv

-----------------------------------------------------------------------------
(* The theorems                                                            *)

LEMMA StutterKeeps ==
    ASSUME DeliveryInv, UNCHANGED vars
    PROVE  DeliveryInv'
<1>0. /\ UNCHANGED <<up, carries, mailbox, fetched, tasks, mishaps, fates, server>>
      /\ UNCHANGED <<memory, records, trail, effects, applied, lapses>>
  BY DEF vars, server
<1>1. TypeOK'
  BY <1>0 DEF DeliveryInv, HandlingInv, TypeOK
<1>2. TaskInv' /\ HistoryInv' /\ MemoryInv'
  <2>1. \A x \in Copy : MessageOf(x)' = MessageOf(x) /\ tasks'[x] = tasks[x]
    BY <1>0 DEF MessageOf
  <2>2. \A e \in Envelopes : carries'[e] = carries[e]
    BY <1>0
  <2> QED  BY <1>0, <2>1, <2>2, OnlyStarted DEF DeliveryInv
<1>3. SentInv' /\ KeptInv'
  BY <1>0 DEF DeliveryInv, HandlingInv, SentInv, KeptInv, NothingVanishes, Sent, Held, Working
<1> QED  BY <1>1, <1>2, <1>3 DEF DeliveryInv, HandlingInv

LEMMA NextKeeps == DeliveryInv /\ [Next]_vars => DeliveryInv'
<1> SUFFICES ASSUME DeliveryInv, [Next]_vars
             PROVE  DeliveryInv'
  OBVIOUS
<1> USE DEF DeliveryInv
<1>1. ASSUME NEW e \in Envelopes, NEW m \in Messages, Send(e, m)
      PROVE  DeliveryInv'
  BY <1>1, SendKeeps
<1>2. CASE \/ \E e \in Envelopes : process_next_message(e)
           \/ \E E \in SUBSET Envelopes : FetchBatch(E)
  BY <1>2, ListenerKeeps
<1>3. CASE AcknowledgeBatch
  BY <1>3, AcknowledgeKeeps
<1>4. ASSUME NEW x \in Copy, Handle(x)
      PROVE  DeliveryInv'
  BY <1>4, HandleKeeps
<1>5. CASE Crash
  BY <1>5, CrashKeeps
<1>6. CASE Restart
  BY <1>6, RestartKeeps
<1>7. CASE UNCHANGED vars
  BY <1>7, StutterKeeps
<1> QED  BY <1>1, <1>2, <1>3, <1>4, <1>5, <1>6, <1>7 DEF Next

\* Mailbox, handlers, store and histories agree with each other in every state:
\* the listener (mediator_functions.rs), the handlers it starts and
\* dispatch_idempotent, from Init on.
THEOREM DeliveryInvariant == Spec => []DeliveryInv
<1> QED  BY InitDelivery, NextKeeps, PTL DEF Spec

\* Every variable keeps its type, for all messages and whatever the handlers do.
THEOREM DeliveryTypeCorrect == Spec => []TypeOK
<1>1. DeliveryInv => TypeOK
  BY DEF DeliveryInv, HandlingInv
<1> QED  BY <1>1, DeliveryInvariant, PTL

\* A message that was sent is in the mailbox, with a handler, or came to a named
\* end: the live stream and the sync lose none between them.
THEOREM NothingVanishesHolds == Spec => []NothingVanishes
<1>1. DeliveryInv => NothingVanishes
  BY DEF DeliveryInv, HandlingInv, KeptInv
<1> QED  BY <1>1, DeliveryInvariant, PTL

\* The repository and the registry's keys change only for administrators, and
\* by Trust Tasks only with a valid proof: authorize_write, verify_write_proof and the
\* check of the sender's DID in AdminMessagesHandler.
THEOREM OnlyAuthorisedEffectsHolds == Spec => []OnlyAuthorisedEffects
<1>1. DeliveryInv => OnlyAuthorisedEffects
  BY DEF DeliveryInv, HandlingInv, HistoryInv
<1> QED  BY <1>1, DeliveryInvariant, PTL

\* A tr-admin message is answered after the audit log tells of it, and the log
\* tells of no write that did not happen: handle_success, handle_failure and
\* handle_unauthorized.
THEOREM AuditedBeforeAnsweredHolds == Spec => []AuditedBeforeAnswered
<1>1. DeliveryInv => AuditedBeforeAnswered
  BY DEF DeliveryInv, HandlingInv, HistoryInv
<1> QED  BY <1>1, DeliveryInvariant, PTL

\* Senders are answered about their own documents, and "ok" to a write only if it
\* was applied: what dispatch_idempotent replays.
THEOREM AcknowledgedWereAppliedHolds == Spec => []AcknowledgedWereApplied
<1>1. DeliveryInv => AcknowledgedWereApplied
  BY DEF DeliveryInv, HandlingInv, HistoryInv
<1> QED  BY <1>1, DeliveryInvariant, PTL

-----------------------------------------------------------------------------
(* The promise of the write path                                           *)

\* Steps other than these neither apply a document nor lose track of one.
LEMMA OtherSteps ==
    ASSUME NEW x \in Copy, Handle(x), ~Dispatch(x), ~Resolve(x)
    PROVE  UNCHANGED <<applied, lapses>>
<1>1. CASE Unpack(x) \/ Drop(x) \/ Refuse(x) \/ handle_unauthorized(x) \/ Reply(x)
  <2>1. UNCHANGED server
    BY <1>1 DEF Unpack, Drop, Refuse, handle_unauthorized, Reply
  <2> QED  BY <2>1 DEF server
<1>2. CASE handle_did_rotate(x) \/ Claim(x) \/ Query(x) \/ TrqpQuery(x)
  BY <1>2 DEF handle_did_rotate, Claim, Query, TrqpQuery
<1>3. CASE handle_request(x) \/ Audit(x)
  BY <1>3 DEF handle_request, Audit
<1> QED  BY <1>1, <1>2, <1>3 DEF Handle

\* Losing track of the documents L, and nothing else.
LEMMA LapseOnly ==
    ASSUME NEW L \in SUBSET Documents, UNCHANGED applied,
           lapses' = [d \in Documents |-> IF d \in L THEN lapses[d] + 1 ELSE lapses[d]]
    PROVE  Promise!Next
<1>1. Promise!Lapse(L)
  BY DEF Promise!Lapse
<1> QED  BY <1>1, Zenon DEF Promise!Next

\* A dispatch applies a document only when no earlier application of it is
\* remembered.
LEMMA DispatchIsApply ==
    ASSUME HandlingInv, MemoryInv, NEW x \in Copy, Dispatch(x)
    PROVE  Promise!Next \/ UNCHANGED <<applied, lapses>>
<1>0. /\ tasks[x].pc = "claimed" /\ Resolving(x) /\ lapses' = lapses
  BY DEF Dispatch, Resolving
<1>1. PICK d \in Documents : d = message_key(MessageOf(x))
  BY <1>0, ResolvingFacts
<1>2. /\ memory[d] = InFlight
      /\ \A y \in Copy : Resolving(y) /\ message_key(MessageOf(y)) = d => y = x
      /\ lapses \in [Documents -> Nat]
  BY <1>0, <1>1, ResolvingFacts DEF TypeOK
<1>3. ~Remembered(d)
  BY <1>0, <1>2 DEF Remembered, Resolving
<1>4. applied[d] <= lapses[d]
  BY <1>3 DEF MemoryInv, AccountInv
<1>5. applied' = [applied EXCEPT ![d] = @ + 1] \/ applied' = applied
  BY <1>1, DispatchFacts
<1>6. CASE applied' = [applied EXCEPT ![d] = @ + 1]
  <2>1. Promise!Apply(d)
    BY <1>0, <1>4, <1>6 DEF Promise!Apply
  <2>2. Promise!Lapse({})
    BY <1>0, <1>2 DEF Promise!Lapse
  <2>3. {} \in SUBSET Documents
    OBVIOUS
  <2> QED  BY <2>1, <2>2, <2>3, Zenon DEF Promise!Next
<1> QED  BY <1>0, <1>5, <1>6

LEMMA StepIsPromised ==
    ASSUME DeliveryInv, [Next]_vars
    PROVE  [Promise!Next]_<<applied, lapses>>
<1>1. CASE UNCHANGED server
  BY <1>1 DEF server
<1>2. CASE Crash
  <2>1. PICK L \in SUBSET Documents : L = {d \in Documents : Remembered(d)}
    OBVIOUS
  <2>2. lapses' = [d \in Documents |-> IF d \in L THEN lapses[d] + 1 ELSE lapses[d]]
    BY <1>2, <2>1 DEF Crash, Remembered
  <2>3. applied' = applied
    BY <1>2 DEF Crash
  <2> QED  BY <2>2, <2>3, LapseOnly
<1>3. ASSUME NEW x \in Copy, Resolve(x)
      PROVE  [Promise!Next]_<<applied, lapses>>
  <2>1. PICK d : d = message_key(MessageOf(x))
    OBVIOUS
  <2>2. Resolving(x)
    BY <1>3 DEF Resolve, Resolving
  <2>3. d \in Documents /\ lapses \in [Documents -> Nat]
    BY <2>1, <2>2, ResolvingFacts DEF DeliveryInv, TypeOK
  <2>4. applied' = applied /\ (lapses' = lapses \/ lapses' = [lapses EXCEPT ![d] = @ + 1])
    BY <1>3, <2>1 DEF Resolve
  <2>5. CASE lapses' = [lapses EXCEPT ![d] = @ + 1]
    <3>1. lapses' = [c \in Documents |-> IF c \in {d} THEN lapses[c] + 1 ELSE lapses[c]]
      BY <2>3, <2>5
    <3>2. {d} \in SUBSET Documents
      BY <2>3
    <3> QED  BY <2>4, <3>1, <3>2, LapseOnly
  <2> QED  BY <2>4, <2>5
<1>4. ASSUME NEW x \in Copy, Handle(x)
      PROVE  [Promise!Next]_<<applied, lapses>>
  <2>1. CASE Dispatch(x)
    BY <2>1, DispatchIsApply DEF DeliveryInv
  <2>2. CASE Resolve(x)
    BY <1>3, <2>2
  <2> QED  BY <1>4, <2>1, <2>2, OtherSteps
<1>5. CASE \/ \E e \in Envelopes, m \in Messages : Send(e, m)
           \/ \E e \in Envelopes : process_next_message(e)
           \/ \E E \in SUBSET Envelopes : FetchBatch(E)
           \/ AcknowledgeBatch \/ Restart
  BY <1>1, <1>5 DEF Send, process_next_message, FetchBatch, AcknowledgeBatch, Restart
<1>6. CASE UNCHANGED vars
  BY <1>6 DEF vars, server
<1> QED  BY <1>2, <1>4, <1>5, <1>6 DEF Next

\* Whatever is delivered twice, over either transport, or after a crash, the
\* registry applies a document at most once more than it lost track of it: the
\* claims of dispatch_idempotent implement WriteOnce.
THEOREM DeliveryImplementsWriteOnce == Spec => ImplementsWriteOnce
<1>1. Init => Promise!Init
  BY DEF Init, Promise!Init
<1>2. DeliveryInv /\ [Next]_vars => [Promise!Next]_<<applied, lapses>>
  BY StepIsPromised
<1> QED  BY <1>1, <1>2, DeliveryInvariant, PTL DEF Spec, ImplementsWriteOnce, Promise!Spec
-----------------------------------------------------------------------------
(* What applying a document again costs                                    *)

\* The mishaps that count are never fewer than they were, and a crash or a failure
\* of the storage counts.
LEMMA ChargedGrows ==
    ASSUME mishaps \in Nat, mishaps' = mishaps \/ \E kind \in AllMishaps : Mishap(kind)
    PROVE  /\ Charged \in Nat /\ Charged' \in Nat /\ Charged <= Charged'
           /\ Mishap("crash") \/ Mishap("storage") => Charged' = Charged + 1
<1>1. mishaps' \in {mishaps, mishaps + 1}
  BY DEF Mishap
<1>2. Mishap("crash") \/ Mishap("storage") =>
        Mishaps \intersect {"crash", "storage"} # {} /\ mishaps' = mishaps + 1
  BY DEF Mishap
<1>3. CASE Mishaps \intersect {"crash", "storage"} = {}
  BY <1>2, <1>3 DEF Charged
<1>4. CASE Mishaps \intersect {"crash", "storage"} # {}
  BY <1>1, <1>2, <1>4 DEF Charged
<1> QED  BY <1>3, <1>4

\* A step that neither dispatches nor resolves brings no new debt.
LEMMA NoNewDebt ==
    ASSUME NEW S \in SUBSET Copy, FailuresInv, Charged \in Nat, Charged' \in Nat,
           Charged <= Charged', lapses \in [Documents -> Nat], UNCHANGED lapses,
           \A x \in S : ~Owes(x, message_key(MessageOf(x)))',
           \A x \in Copy \ S : \A d \in Documents : Owes(x, d)' => Owes(x, d)
    PROVE  FailuresInv'
<1>1. \A x \in S : \A d \in Documents : ~Owes(x, d)'
  BY DEF Owes
<1>2. \A d \in Documents : (\E x \in Copy : Owes(x, d)') => \E x \in Copy : Owes(x, d)
  BY <1>1
<1>3. \A d \in Documents : lapses'[d] \in Nat /\ lapses'[d] = lapses[d]
  OBVIOUS
<1> QED  BY <1>2, <1>3 DEF FailuresInv

\* How the steps of handlers that have no claim use up mishaps.
LEMMA HandlersMishaps ==
    ASSUME NEW x \in Copy, Handle(x)
    PROVE  mishaps' = mishaps \/ \E kind \in AllMishaps : Mishap(kind)
<1>1. ASSUME NEW answer, NEW tookEffect, Perform(x, answer, tookEffect)
      PROVE  mishaps' = mishaps \/ \E kind \in AllMishaps : Mishap(kind)
  BY <1>1 DEF Perform, AllMishaps
<1>2. CASE Unpack(x) \/ Drop(x) \/ Refuse(x) \/ Claim(x) \/ Resolve(x)
           \/ handle_unauthorized(x) \/ Audit(x)
  BY <1>2 DEF Unpack, Drop, Refuse, Claim, Resolve, handle_unauthorized, Audit
<1>3. CASE handle_did_rotate(x) \/ Reply(x)
  BY <1>3 DEF handle_did_rotate, Reply, AllMishaps
<1>4. CASE Query(x) \/ TrqpQuery(x) \/ handle_request(x) \/ Dispatch(x)
  BY <1>1, <1>4 DEF Query, TrqpQuery, handle_request, Dispatch, Govern, AllMishaps
<1> QED  BY <1>2, <1>3, <1>4 DEF Handle

\* A step of a handler that has no claim yet replaces its task by one that owes
\* nothing.
LEMMA OthersOweNothing ==
    ASSUME TypeOK, SentInv, NEW x \in Copy, Handle(x), ~Dispatch(x), ~Resolve(x)
    PROVE  /\ carries' = carries
           /\ \A y \in Copy \ {x} : tasks'[y] = tasks[y]
           /\ tasks'[x].pc # "dispatched"
<1>0. tasks \in [Copy -> Task] /\ x \in Copy
  BY DEF TypeOK
<1>1. ASSUME NEW t, Become(x, t), t.pc # "dispatched"
      PROVE  tasks'[x].pc # "dispatched" /\ \A y \in Copy \ {x} : tasks'[y] = tasks[y]
  BY <1>0, <1>1 DEF Become
<1>2. ASSUME NEW o, ToReply(x, o)
      PROVE  tasks'[x].pc # "dispatched" /\ \A y \in Copy \ {x} : tasks'[y] = tasks[y]
  BY <1>1, <1>2 DEF ToReply
<1>3. ASSUME NEW fate, End(x, fate)
      PROVE  tasks'[x].pc # "dispatched" /\ \A y \in Copy \ {x} : tasks'[y] = tasks[y]
  BY <1>1, <1>3 DEF End, Idle
<1>4. CASE Unpack(x)
  <2>1. [pc |-> "received"].pc # "dispatched"
    OBVIOUS
  <2>2. tasks[x].pc = "packed" /\ carries' = carries
    BY <1>4 DEF Unpack, listener
  <2>3. [tasks[x] EXCEPT !.tries = @ + 1].pc # "dispatched"
    BY <1>0, <2>2, TaskFacts
  <2> QED  BY <1>1, <1>3, <1>4, <2>1, <2>2, <2>3 DEF Unpack
<1>5. CASE Drop(x) \/ Refuse(x) \/ handle_did_rotate(x) \/ Query(x) \/ TrqpQuery(x) \/ Reply(x)
  BY <1>2, <1>3, <1>5 DEF Drop, Refuse, handle_did_rotate, Query, TrqpQuery, Reply, listener
<1>6. CASE Claim(x) \/ handle_unauthorized(x) \/ handle_request(x) \/ Audit(x)
  BY <1>1, <1>2, <1>6 DEF Claim, handle_unauthorized, handle_request, Audit, listener
<1> QED  BY <1>4, <1>5, <1>6 DEF Handle

\* A dispatch comes to owe a lapse only for a failure of the storage.
LEMMA DispatchOwes ==
    ASSUME NEW x \in Copy, Dispatch(x)
    PROVE  /\ UNCHANGED <<carries, lapses>>
           /\ \/ Mishap("storage")
              \/ mishaps' = mishaps /\ \E task : /\ Become(x, task)
                                                 /\ task.outcome.answer # "failed"
<1> DEFINE m == MessageOf(x)
<1>1. UNCHANGED <<carries, lapses>>
  BY DEF Dispatch, listener
<1>2. PICK answer, tookEffect :
        /\ \/ m.op \in Writes /\ m.fault # "payload" /\ Perform(x, answer, tookEffect)
           \/ m.op = "govern" /\ m.fault # "payload" /\ Govern(x, answer, tookEffect)
           \/ Reject(m, answer) /\ ~tookEffect /\ UNCHANGED <<mishaps, records, effects>>
        /\ Become(x, [pc |-> "dispatched", outcome |-> Answered(x, answer), mutated |-> tookEffect])
  BY DEF Dispatch
<1>3. CASE Mishap("storage")
  BY <1>1, <1>3
<1>4. CASE ~Mishap("storage")
  <2>1. mishaps' = mishaps /\ answer # "failed"
    <3>1. CASE Perform(x, answer, tookEffect)
      <4>1. answer = Verdict(m.op, m.key, records) /\ mishaps' = mishaps
        BY <1>4, <3>1 DEF Perform
      <4> QED  BY <4>1 DEF Verdict
    <3>2. CASE Govern(x, answer, tookEffect)
      BY <1>4, <3>2 DEF Govern
    <3>3. CASE Reject(m, answer) /\ UNCHANGED mishaps
      BY <3>3 DEF Reject
    <3> QED  BY <1>2, <3>1, <3>2, <3>3
  <2>2. Answered(x, answer).answer # "failed"
    BY <2>1 DEF Answered
  <2> QED  BY <1>1, <1>2, <2>1, <2>2
<1> QED  BY <1>3, <1>4

\* Each lapse has a crash or a failure of the storage of its own.
LEMMA FailuresStep ==
    ASSUME DeliveryInv, FailuresInv, [Next]_vars
    PROVE  FailuresInv'
<1>0. /\ TypeOK /\ SentInv /\ HandlingInv /\ MemoryInv
      /\ tasks \in [Copy -> Task] /\ mishaps \in Nat /\ lapses \in [Documents -> Nat]
  BY DEF DeliveryInv, HandlingInv, TypeOK
<1>1. ASSUME NEW x \in Copy, Dispatch(x)
      PROVE  FailuresInv'
  <2>1. /\ UNCHANGED <<carries, lapses>> /\ Handle(x)
        /\ \/ Mishap("storage")
           \/ mishaps' = mishaps /\ \E task : Become(x, task) /\ task.outcome.answer # "failed"
    BY <1>1, DispatchOwes DEF Handle
  <2>2. \A y \in Copy \ {x} : \A d \in Documents : Owes(y, d)' => Owes(y, d)
    <3>1. \A y \in Copy \ {x} : tasks'[y] = tasks[y]
      BY <1>0, <1>1 DEF Dispatch, Become
    <3> QED  BY <2>1, <3>1 DEF Owes, message_key, MessageOf
  <2>3. CASE Mishap("storage")
    <3>1. Charged \in Nat /\ Charged' = Charged + 1
      BY <1>0, <2>3, ChargedGrows DEF AllMishaps
    <3>2. \A d \in Documents : lapses[d] \in Nat /\ lapses[d] <= Charged /\ lapses'[d] = lapses[d]
      BY <1>0, <2>1 DEF FailuresInv
    <3>3. \A d \in Documents : lapses'[d] < Charged'
      BY <3>1, <3>2
    <3> QED  BY <3>1, <3>2, <3>3 DEF FailuresInv
  <2>4. CASE mishaps' = mishaps /\ \E task : Become(x, task) /\ task.outcome.answer # "failed"
    <3>1. tasks'[x].outcome.answer # "failed"
      BY <1>0, <2>4 DEF Become
    <3>2. ~Owes(x, message_key(MessageOf(x)))'
      BY <3>1 DEF Owes
    <3>3. Charged' = Charged /\ Charged \in Nat
      BY <1>0, <2>4 DEF Charged
    <3>4. Charged <= Charged' /\ {x} \in SUBSET Copy
      BY <3>3
    <3> QED  BY <1>0, <2>1, <2>2, <3>2, <3>3, <3>4, NoNewDebt
  <2> QED  BY <2>1, <2>3, <2>4
<1>2. ASSUME NEW x \in Copy, Resolve(x)
      PROVE  FailuresInv'
  <2>1. PICK d \in Documents : d = message_key(MessageOf(x))
    BY <1>0, <1>2, ResolvingFacts DEF Resolve, Resolving
  <2>2. /\ tasks[x].pc = "dispatched" /\ carries' = carries /\ Charged' = Charged
        /\ lapses' = IF tasks[x].outcome.answer = "failed" /\ tasks[x].mutated
                     THEN [lapses EXCEPT ![d] = @ + 1] ELSE lapses
        /\ tasks' = [tasks EXCEPT ![x] = [pc |-> "replying", outcome |-> tasks[x].outcome]]
    BY <1>2, <2>1 DEF Resolve, ToReply, Become, listener, Charged
  <2>3. Charged \in Nat
    BY <1>0 DEF Charged
  <2>4. \A y \in Copy : Resolving(y) /\ message_key(MessageOf(y)) = d => y = x
    BY <1>0, <2>1, <2>2, ResolvingFacts DEF Resolving
  <2>5. \A y \in Copy : \A c \in Documents : Owes(y, c)' => Owes(y, c) /\ y # x
    BY <1>0, <2>2 DEF Owes, message_key, MessageOf
  <2>6. CASE tasks[x].outcome.answer = "failed" /\ tasks[x].mutated
    <3>1. lapses[d] < Charged
      <4>1. Owes(x, d)
        BY <2>1, <2>2, <2>6 DEF Owes
      <4> QED  BY <2>1, <4>1 DEF FailuresInv
    <3>2. \A y \in Copy : ~Owes(y, d)'
      BY <2>4, <2>5 DEF Owes, Resolving
    <3>3. /\ lapses'[d] = lapses[d] + 1 /\ lapses[d] \in Nat
          /\ \A c \in Documents \ {d} : lapses'[c] = lapses[c]
      BY <1>0, <2>2, <2>6
    <3>4. lapses'[d] <= Charged'
      BY <2>2, <2>3, <3>1, <3>3
    <3> QED  BY <2>2, <2>5, <3>2, <3>3, <3>4 DEF FailuresInv
  <2>7. CASE ~(tasks[x].outcome.answer = "failed" /\ tasks[x].mutated)
    <3>1. lapses' = lapses /\ Charged <= Charged'
      BY <2>2, <2>3, <2>7
    <3> QED  BY <2>2, <2>5, <3>1 DEF FailuresInv
  <2> QED  BY <2>6, <2>7
<1>3. CASE Crash
  <2>1. /\ Charged \in Nat /\ Charged' = Charged + 1
    BY <1>0, <1>3, ChargedGrows DEF Crash, AllMishaps
  <2>2. /\ tasks' = [x \in Copy |-> Idle]
        /\ \A d \in Documents : lapses'[d] \in {lapses[d], lapses[d] + 1}
    BY <1>3 DEF Crash
  <2>3. \A x \in Copy : \A d \in Documents : ~Owes(x, d)'
    BY <2>2 DEF Owes, Idle
  <2>4. \A d \in Documents : lapses[d] \in Nat /\ lapses[d] <= Charged
    BY <1>0 DEF FailuresInv
  <2> QED  BY <2>1, <2>2, <2>3, <2>4 DEF FailuresInv
<1>4. ASSUME NEW x \in Copy, Handle(x), ~Dispatch(x), ~Resolve(x)
      PROVE  FailuresInv'
  <2>1. /\ Charged \in Nat /\ Charged' \in Nat /\ Charged <= Charged' /\ UNCHANGED lapses
    BY <1>0, <1>4, ChargedGrows, HandlersMishaps, OtherSteps
  <2>2. \A y \in Copy \ {x} : \A d \in Documents : Owes(y, d)' => Owes(y, d)
    BY <1>0, <1>4, OthersOweNothing DEF Owes, message_key, MessageOf
  <2>3. ~Owes(x, message_key(MessageOf(x)))'
    BY <1>0, <1>4, OthersOweNothing DEF Owes
  <2>4. {x} \in SUBSET Copy
    OBVIOUS
  <2> QED  BY <1>0, <2>1, <2>2, <2>3, <2>4, NoNewDebt
<1>5. ASSUME UNCHANGED lapses, mishaps' = mishaps \/ \E kind \in AllMishaps : Mishap(kind),
             \A y \in Copy : tasks'[y].pc = "dispatched" =>
                tasks'[y] = tasks[y] /\ carries'[y[1]] = carries[y[1]]
      PROVE  FailuresInv'
  <2>1. Charged \in Nat /\ Charged' \in Nat /\ Charged <= Charged'
    BY <1>0, <1>5, ChargedGrows
  <2>2. \A y \in Copy \ {} : \A d \in Documents : Owes(y, d)' => Owes(y, d)
    BY <1>5 DEF Owes, message_key, MessageOf
  <2>3. {} \in SUBSET Copy
    OBVIOUS
  <2> QED  BY <1>0, <1>5, <2>1, <2>2, <2>3, NoNewDebt
<1>6. ASSUME NEW e \in Envelopes, NEW m \in Messages, Send(e, m)
      PROVE  FailuresInv'
  <2>1. /\ ~Sent(e) /\ UNCHANGED <<tasks, mishaps, lapses>>
        /\ carries' = [carries EXCEPT ![e] = m]
    BY <1>6 DEF Send, server, Sent
  <2>2. \A y \in Copy : tasks[y].pc = "dispatched" => Sent(y[1]) /\ y[1] \in Envelopes
    BY <1>0, DeliveryAssumption DEF SentInv, Working
  <2>3. \A y \in Copy : tasks[y].pc = "dispatched" => carries'[y[1]] = carries[y[1]]
    BY <1>0, <2>1, <2>2 DEF TypeOK
  <2> QED  BY <1>5, <2>1, <2>3
<1>7. ASSUME NEW E \in SUBSET Envelopes, Spawn(E), UNCHANGED <<carries, server>>,
             mishaps' = mishaps \/ \E kind \in AllMishaps : Mishap(kind)
      PROVE  FailuresInv'
  <2>1. \A y \in Copy : tasks'[y].pc = "dispatched" => tasks'[y] = tasks[y]
    BY <1>0, <1>7 DEF Spawn
  <2> QED  BY <1>5, <1>7, <2>1 DEF server
<1>8. ASSUME NEW e \in Envelopes, process_next_message(e)
      PROVE  FailuresInv'
  <2>1. {e} \in SUBSET Envelopes
    OBVIOUS
  <2>2. mishaps' = mishaps \/ \E kind \in AllMishaps : Mishap(kind)
    BY <1>8 DEF process_next_message, AllMishaps
  <2> QED  BY <1>7, <1>8, <2>1, <2>2 DEF process_next_message
<1>9. ASSUME NEW E \in SUBSET Envelopes, FetchBatch(E)
      PROVE  FailuresInv'
  BY <1>7, <1>9 DEF FetchBatch
<1>10. CASE AcknowledgeBatch
  <2>1. mishaps' = mishaps \/ \E kind \in AllMishaps : Mishap(kind)
    BY <1>10 DEF AcknowledgeBatch, AllMishaps
  <2> QED  BY <1>5, <1>10, <2>1 DEF AcknowledgeBatch, server
<1>11. CASE Restart \/ UNCHANGED vars
  BY <1>5, <1>11 DEF Restart, vars, server
<1> QED  BY <1>1, <1>2, <1>3, <1>4, <1>6, <1>8, <1>9, <1>10, <1>11 DEF Next

\* A document is applied once, and once more at most for each crash of the process
\* and each failure of the storage: what the mailbox's two paths, lost
\* acknowledgements, unsent replies and senders that repeat themselves can do to a
\* write comes to an end at dispatch_idempotent.
THEOREM DeliveryAppliedOncePerMishap == Spec => []AppliedOncePerMishap
<1>1. Init => FailuresInv
  <2> SUFFICES ASSUME Init
               PROVE  FailuresInv
    OBVIOUS
  <2>1. /\ tasks = [x \in Copy |-> Idle] /\ mishaps = 0
        /\ \A d \in Documents : lapses[d] = 0
    BY DEF Init
  <2>2. \A x \in Copy : \A d \in Documents : ~Owes(x, d)
    BY <2>1 DEF Owes, Idle
  <2> QED  BY <2>1, <2>2 DEF FailuresInv, Charged
<1>2. FailuresInv /\ DeliveryInv /\ [Next]_vars => FailuresInv'
  BY FailuresStep
<1>3. FailuresInv /\ DeliveryInv => AppliedOncePerMishap
  <2> SUFFICES ASSUME FailuresInv, DeliveryInv, NEW d \in Documents
               PROVE  applied[d] <= 1 + Charged
    BY DEF AppliedOncePerMishap
  <2>1. /\ applied[d] \in Nat /\ lapses[d] \in Nat /\ Charged \in Nat
        /\ applied[d] <= lapses[d] + 1 /\ lapses[d] <= Charged
    BY DEF FailuresInv, DeliveryInv, HandlingInv, TypeOK, MemoryInv, AccountInv, Charged
  <2> QED  BY <2>1
<1> QED  BY <1>1, <1>2, <1>3, DeliveryInvariant, PTL DEF Spec


=============================================================================
