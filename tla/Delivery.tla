------------------------------ MODULE Delivery ------------------------------
(***************************************************************************)
(* The mediator side of the registry: the listener that takes messages     *)
(* from the mailbox the mediator keeps for it, and the handlers it starts. *)
(*                                                                         *)
(* Messages leave the mailbox in two ways that know nothing of each other. *)
(* The live stream hands one message over and has it deleted at once       *)
(* (auto_delete); the periodic sync fetches a batch, starts a handler for  *)
(* each and only then acknowledges the batch.  Every message gets a task   *)
(* of its own which nobody waits for.  So a message can be handled more    *)
(* than once, handled in any order, or be lost with the process.           *)
(*                                                                         *)
(* A handler is chosen by the message's form: a Trust Task (over DIDComm   *)
(* or TSP, sharing one dispatcher and one deduplication store), a legacy   *)
(* tr-admin message or a legacy trqp query.  The deduplication store is    *)
(* MessageDedup without its clock: copies are assumed to arrive within the *)
(* window it was tuned for.                                                *)
(***************************************************************************)
EXTENDS Records, Naturals, FiniteSets

CONSTANTS
    MaxSent,     \* bound: how many messages are put into the mailbox
    Messages,    \* bound: what they may contain
    Copy,        \* bound: an envelope and a number for each handler that can run
    Admins,      \* admin_dids
    Ids,         \* Trust Task document ids
    Seeds,       \* bound: what the repository may contain at first
    Batch,       \* messages_limit of a delivery request
    Attempts,    \* UNPACK_MAX_ATTEMPTS
    Mishaps,     \* the kinds of failure considered
    MaxMishaps   \* bound: how many failures happen in a behavior

Forms == {"task", "admin", "query", "other"}
Faults == {"none", "poison", "malformed", "misaddressed", "noProof", "badProof", "payload"}

\* What Trust Tasks can write: the records, and what governance/capability/enable and
\* disable and git-trust/grant and revoke change, which is in Capabilities and GitTrust.
Acting == Writes \union {"govern"}

\* via: the transport the frame came over.  issued: the document names its
\* issuer.  fault: the first thing wrong with the message, if any ("payload": the
\* document is one, but what it carries is no such request).
Message == [via : {"didcomm", "tsp", "unknown"}, form : Forms, sender : Clients,
            issued : BOOLEAN, id : Ids, op : Ops \union {"rotate", "govern"},
            key : Keys \union {None}, value : Values \union {None}, fault : Faults]

AllMishaps == {"crash", "undeleted", "ack", "resolver", "storage", "send"}

\* Messages are numbered as they come into the mailbox.
Envelopes == 1..MaxSent

ASSUME DeliveryAssumption ==
    /\ MaxSent \in Nat /\ Seeds \subseteq Table
    /\ Messages \subseteq Message /\ None \notin Messages /\ "anonymous" \notin Clients
    /\ \A m \in Messages :
         /\ m.op \in Ops => /\ (m.key = None) <=> (m.op = "list")
                            /\ (m.value = None) <=> (m.op \notin {"create", "update"})
         /\ m.form = "query" => m.op = "read"
         /\ m.fault \in {"poison", "payload"} => m.form = "task"
         /\ m.form = "admin" => m.op \in Ops
    /\ Copy \subseteq Envelopes \X Nat /\ \A e \in Envelopes : \E x \in Copy : x[1] = e
    /\ Admins \subseteq Clients
    /\ Batch \in Nat \ {0} /\ Attempts \in Nat \ {0}
    /\ Mishaps \subseteq AllMishaps /\ MaxMishaps \in Nat

VARIABLES
    up,        \* whether the process runs
    carries,   \* what each envelope contains, once it is sent
    mailbox,   \* the envelopes the mediator holds
    fetched,   \* the batch the sync task has yet to acknowledge
    tasks,     \* the handler tasks, by envelope and copy
    memory,    \* the deduplication store
    records,   \* the repository
    mishaps,   \* how many failures happened so far
    trail,     \* history: the audit log
    fates,     \* history: how the handling of each envelope ended
    effects,   \* history: the envelopes whose write changed the repository
    applied,   \* history: how often each document reached the repository
    lapses     \* history: how often that was forgotten

server == <<memory, records, trail, effects, applied, lapses>>
vars == <<up, carries, mailbox, fetched, tasks, mishaps, fates, server>>

-----------------------------------------------------------------------------
(* Data                                                                    *)

\* (Mistaken: the document id alone.)
message_key_of_id(m) == <<"anonymous", m.id>>

\* A document's key in the deduplication store.
message_key(m) == <<IF m.issued THEN m.sender ELSE "anonymous", m.id>>

Documents == (Clients \union {"anonymous"}) \X Ids

is_write_slug(m) == m.op \in Acting \union {"rotate"}

\* (Mistaken: a proof is asked for, but not verified.)
RefusedUnverified(m) ==
    \/ m.fault = "misaddressed"
    \/ is_write_slug(m) /\ (m.sender \notin Admins \/ m.fault = "noProof")

\* resolve_parties, validate_basic, authorize_write and verify_write_proof.
Refused(m) ==
    \/ m.fault = "misaddressed"
    \/ is_write_slug(m) /\ (m.sender \notin Admins \/ m.fault \in {"noProof", "badProof"})

\* of: whose document gave this answer.
Outcome == [answer : {"ok", "exists", "notFound", "failed", "busy", "refused",
                      "unsupported", "rotated"},
            of : Clients \X Ids]

Absent == [status |-> "absent"]
InFlight == [status |-> "inFlight"]

Idle == [pc |-> "idle"]

MessageOf(x) == carries[x[1]]
Working(x) == tasks[x].pc # "idle"
Held(e) == \E x \in Copy : x[1] = e /\ Working(x)

Answered(x, answer) == [answer |-> answer, of |-> <<MessageOf(x).sender, MessageOf(x).id>>]

-----------------------------------------------------------------------------
(* The mailbox and the listener                                            *)

Init ==
    /\ up = TRUE
    /\ carries = [e \in Envelopes |-> None]
    /\ mailbox = {}
    /\ fetched = {}
    /\ tasks = [x \in Copy |-> Idle]
    /\ memory = [d \in Documents |-> Absent]
    /\ records \in Seeds
    /\ mishaps = 0
    /\ trail = {}
    /\ fates = [e \in Envelopes |-> {}]
    /\ effects = {}
    /\ applied = [d \in Documents |-> 0]
    /\ lapses = [d \in Documents |-> 0]

Mishap(kind) ==
    /\ kind \in Mishaps
    /\ mishaps < MaxMishaps
    /\ mishaps' = mishaps + 1

\* A sender sends a message, or sends one again.
Send(e, m) ==
    /\ carries[e] = None /\ \A d \in 1..e - 1 : carries[d] # None
    /\ carries' = [carries EXCEPT ![e] = m]
    /\ mailbox' = mailbox \union {e}
    /\ UNCHANGED <<up, fetched, tasks, mishaps, fates, server>>

\* An idle task for each of the envelopes E.
Slot(e) == CHOOSE x \in Copy : x[1] = e /\ ~Working(x)
HasSlot(e) == \E x \in Copy : x[1] = e /\ ~Working(x)

\* (Mistaken: the batch's TSP frames are left to a second socket.)
SpawnDidcommOnly(E) ==
    tasks' = [x \in Copy |->
                IF x[1] \in E /\ x = Slot(x[1]) /\ MessageOf(x).via # "tsp"
                THEN [pc |-> "received"] ELSE tasks[x]]

\* spawn_handler and spawn_tsp_handler.
Spawn(E) ==
    tasks' = [x \in Copy |->
                IF x[1] \in E /\ x = Slot(x[1])
                THEN IF MessageOf(x).via = "tsp" THEN [pc |-> "packed", tries |-> 0]
                                                 ELSE [pc |-> "received"]
                ELSE tasks[x]]

\* live_stream_next_frame with auto_delete; the deletion may fail.
process_next_message(e) ==
    /\ up /\ e \in mailbox /\ HasSlot(e)
    /\ Spawn({e})
    /\ \/ mailbox' = mailbox \ {e} /\ UNCHANGED mishaps
       \/ Mishap("undeleted") /\ UNCHANGED mailbox
    /\ UNCHANGED <<up, carries, fetched, fates, server>>

\* (Mistaken: a backlog beyond messages_limit is left alone.)
FetchBacklog(E) ==
    /\ up /\ fetched = {}
    /\ E # {} /\ E = mailbox /\ Cardinality(E) <= Batch
    /\ \A e \in E : HasSlot(e)
    /\ Spawn(E)
    /\ fetched' = E
    /\ UNCHANGED <<up, carries, mailbox, mishaps, fates, server>>

\* sync_and_process_offline_messages, up to the handlers it starts.
FetchBatch(E) ==
    /\ up /\ fetched = {}
    /\ E # {} /\ E \subseteq mailbox
    /\ Cardinality(E) = Batch \/ (E = mailbox /\ Cardinality(E) < Batch)
    /\ \A e \in E : HasSlot(e)
    /\ Spawn(E)
    /\ fetched' = E
    /\ UNCHANGED <<up, carries, mailbox, mishaps, fates, server>>

\* send_messages_received.  Without a reply the batch may be deleted or not.
AcknowledgeBatch ==
    /\ up /\ fetched # {}
    /\ fetched' = {}
    /\ \/ mailbox' = mailbox \ fetched /\ UNCHANGED mishaps
       \/ Mishap("ack") /\ UNCHANGED mailbox
    /\ UNCHANGED <<up, carries, tasks, fates, server>>

-----------------------------------------------------------------------------
(* Handlers                                                                *)

listener == <<up, carries, mailbox, fetched>>

Become(x, task) == tasks' = [tasks EXCEPT ![x] = task]

ToReply(x, outcome) == Become(x, [pc |-> "replying", outcome |-> outcome])

\* The handling of x ends, without a reply or with it.
End(x, fate) ==
    /\ Become(x, Idle)
    /\ fates' = [fates EXCEPT ![x[1]] = @ \union {fate}]

Fate(kind) == [kind |-> kind]

\* (Mistaken: the attempt that failed last is not counted.)
UnpackOnceMore(x) ==
    /\ tasks[x].pc = "packed"
    /\ \/ /\ MessageOf(x).fault # "poison"
          /\ Become(x, [pc |-> "received"])
          /\ UNCHANGED <<mishaps, fates>>
       \/ MessageOf(x).fault = "poison" /\ End(x, Fate("dropped")) /\ UNCHANGED mishaps
       \/ /\ "resolver" \in Mishaps /\ UNCHANGED mishaps
          /\ IF tasks[x].tries < Attempts
             THEN Become(x, [tasks[x] EXCEPT !.tries = @ + 1]) /\ UNCHANGED fates
             ELSE End(x, Fate("exhausted"))
    /\ UNCHANGED <<listener, server>>

\* process_tsp_frame unpacks the frame, retrying while that fails transiently.
Unpack(x) ==
    /\ tasks[x].pc = "packed"
    /\ \/ /\ MessageOf(x).fault # "poison"
          /\ Become(x, [pc |-> "received"])
          /\ UNCHANGED <<mishaps, fates>>
       \/ MessageOf(x).fault = "poison" /\ End(x, Fate("dropped")) /\ UNCHANGED mishaps
       \/ /\ "resolver" \in Mishaps /\ UNCHANGED mishaps
          /\ IF tasks[x].tries + 1 < Attempts
             THEN Become(x, [tasks[x] EXCEPT !.tries = @ + 1]) /\ UNCHANGED fates
             ELSE End(x, Fate("exhausted"))
    /\ UNCHANGED <<listener, server>>

\* Frames and message types nobody handles, problem reports, and bodies that
\* are no document or no query: logged, and that is all.
Drop(x) ==
    /\ tasks[x].pc = "received"
    /\ LET m == MessageOf(x) IN
         \/ m.via = "unknown" \/ m.form = "other"
         \/ m.fault \in {"poison", "malformed"} /\ m.form \in {"task", "query"}
    /\ End(x, Fate("dropped"))
    /\ UNCHANGED <<listener, mishaps, server>>

IsTask(x) ==
    /\ tasks[x].pc = "received"
    /\ MessageOf(x).via # "unknown" /\ MessageOf(x).form = "task"
    /\ MessageOf(x).fault \notin {"poison", "malformed"}

Refuse(x) ==
    /\ IsTask(x) /\ Refused(MessageOf(x))
    /\ ToReply(x, Answered(x, "refused"))
    /\ UNCHANGED <<listener, mishaps, fates, server>>

\* Over DIDComm registry/did/rotate is carried out by the VTA, before the
\* deduplication and as often as it is delivered; it may fail with its work done.
handle_did_rotate(x) ==
    LET m == MessageOf(x) IN
    /\ IsTask(x) /\ ~Refused(m)
    /\ m.op = "rotate" /\ m.via = "didcomm"
    /\ \/ /\ m.fault = "payload"
          /\ ToReply(x, Answered(x, "refused"))
          /\ UNCHANGED <<mishaps, effects>>
       \/ /\ m.fault # "payload"
          /\ effects' = effects \union {x[1]}
          /\ ToReply(x, Answered(x, "rotated"))
          /\ UNCHANGED mishaps
       \/ /\ m.fault # "payload"
          /\ Mishap("storage")
          /\ effects' \in {effects, effects \union {x[1]}}
          /\ ToReply(x, Answered(x, "failed"))
    /\ UNCHANGED <<listener, fates, memory, records, trail, applied, lapses>>

Deduplicated(m) == is_write_slug(m) /\ ~(m.op = "rotate" /\ m.via = "didcomm")

\* (Mistaken: only a completed copy stops the next one.)
ClaimUnlessDone(x) ==
    LET m == MessageOf(x)
        d == message_key(m)
    IN
    /\ IsTask(x) /\ ~Refused(m) /\ Deduplicated(m)
    /\ IF memory[d] \in {Absent, InFlight}
       THEN memory' = [memory EXCEPT ![d] = InFlight] /\ Become(x, [pc |-> "claimed"])
       ELSE ToReply(x, memory[d].outcome) /\ UNCHANGED memory
    /\ UNCHANGED <<listener, mishaps, fates, records, trail, effects, applied, lapses>>

\* dispatch_idempotent claims a write: Acquired, InFlight or Replay.
Claim(x) ==
    LET m == MessageOf(x)
        d == message_key(m)
    IN
    /\ IsTask(x) /\ ~Refused(m) /\ Deduplicated(m)
    /\ \/ /\ memory[d] = Absent
          /\ memory' = [memory EXCEPT ![d] = InFlight]
          /\ Become(x, [pc |-> "claimed"])
       \/ /\ memory[d] = InFlight
          /\ ToReply(x, Answered(x, "busy"))
          /\ UNCHANGED memory
       \/ /\ memory[d] \notin {Absent, InFlight}
          /\ ToReply(x, memory[d].outcome)
          /\ UNCHANGED memory
    /\ UNCHANGED <<listener, mishaps, fates, records, trail, effects, applied, lapses>>

\* What a call on the repository does to it: it may fail before it took effect
\* or after.
Perform(x, answer, tookEffect) ==
    LET m == MessageOf(x)
        verdict == Verdict(m.op, m.key, records)
    IN
    /\ \/ answer = verdict /\ tookEffect = (verdict = "ok" /\ m.op \in Writes) /\ UNCHANGED mishaps
       \/ /\ answer = "failed" /\ Mishap("storage")
          /\ tookEffect \in {FALSE, verdict = "ok" /\ m.op \in Writes}
    /\ records' = IF tookEffect THEN Written(m.op, m.key, m.value, records) ELSE records
    /\ effects' = IF tookEffect THEN effects \union {x[1]} ELSE effects

\* What a handler of Capabilities or GitTrust does to its own tables: a transition, a
\* refusal that leaves them alone, or a failure of the storage before or after it.
Govern(x, answer, tookEffect) ==
    /\ \/ answer \in {"ok", "refused"} /\ tookEffect = (answer = "ok") /\ UNCHANGED mishaps
       \/ answer = "failed" /\ Mishap("storage")
    /\ effects' = IF tookEffect THEN effects \union {x[1]} ELSE effects
    /\ UNCHANGED records

\* What the dispatcher rejects whenever it is asked: it knows no registry/did/rotate,
\* and a payload must be that of the request.
Reject(m, answer) ==
    \/ m.op = "rotate" /\ answer = "unsupported"
    \/ m.op # "rotate" /\ m.fault = "payload" /\ answer = "refused"

\* handle_document: handle_create, handle_update, handle_delete and the handlers of
\* the capabilities, or a rejection.
Dispatch(x) ==
    LET m == MessageOf(x)
        d == message_key(m)
    IN
    /\ tasks[x].pc = "claimed"
    /\ \E answer \in Answers \union {"refused", "unsupported"}, tookEffect \in BOOLEAN :
         /\ \/ m.op \in Writes /\ m.fault # "payload" /\ Perform(x, answer, tookEffect)
            \/ m.op = "govern" /\ m.fault # "payload" /\ Govern(x, answer, tookEffect)
            \/ Reject(m, answer) /\ ~tookEffect /\ UNCHANGED <<mishaps, records, effects>>
         /\ Become(x, [pc |-> "dispatched", outcome |-> Answered(x, answer),
                       mutated |-> tookEffect])
         /\ applied' = IF tookEffect THEN [applied EXCEPT ![d] = @ + 1] ELSE applied
    /\ UNCHANGED <<listener, fates, memory, trail, lapses>>

\* dispatch_idempotent resolves the claim: complete, or release after a failure
\* of the backend.
Resolve(x) ==
    LET d == message_key(MessageOf(x))
        o == tasks[x].outcome
    IN
    /\ tasks[x].pc = "dispatched"
    /\ memory' = [memory EXCEPT ![d] = IF o.answer = "failed" THEN Absent
                                       ELSE [status |-> "done", outcome |-> o]]
    /\ lapses' = IF o.answer = "failed" /\ tasks[x].mutated
                 THEN [lapses EXCEPT ![d] = @ + 1] ELSE lapses
    /\ ToReply(x, o)
    /\ UNCHANGED <<listener, mishaps, fates, records, trail, effects, applied>>

\* Reads pass the deduplication by: handle_recognition, handle_authorization,
\* handle_read and handle_list.
Query(x) ==
    /\ IsTask(x) /\ ~Refused(MessageOf(x)) /\ ~is_write_slug(MessageOf(x))
    /\ \/ /\ MessageOf(x).fault # "payload"
          /\ \E answer \in Answers :
               Perform(x, answer, FALSE) /\ ToReply(x, Answered(x, answer))
       \/ /\ MessageOf(x).fault = "payload"
          /\ ToReply(x, Answered(x, "refused"))
          /\ UNCHANGED <<mishaps, records, effects>>
    /\ UNCHANGED <<listener, fates, memory, trail, applied, lapses>>

\* TRQPMessagesHandler: a query that fails is logged and not answered.
TrqpQuery(x) ==
    LET m == MessageOf(x) IN
    /\ tasks[x].pc = "received"
    /\ m.via # "unknown" /\ m.form = "query" /\ m.fault # "malformed"
    /\ \E answer \in Answers :
         /\ Perform(x, answer, FALSE)
         /\ IF answer = "failed" THEN End(x, Fate("dropped"))
            ELSE ToReply(x, Answered(x, answer)) /\ UNCHANGED fates
    /\ UNCHANGED <<listener, memory, trail, applied, lapses>>

\* AdminMessagesHandler: the sender's DID is checked, no proof and no
\* deduplication; a malformed body is a failure like any other.
IsAdmin(x) ==
    /\ tasks[x].pc = "received"
    /\ MessageOf(x).via # "unknown" /\ MessageOf(x).form = "admin"

handle_unauthorized(x) ==
    /\ IsAdmin(x) /\ MessageOf(x).sender \notin Admins
    /\ Become(x, [pc |-> "auditing", outcome |-> Answered(x, "refused")])
    /\ UNCHANGED <<listener, mishaps, fates, server>>

handle_request(x) ==
    /\ IsAdmin(x) /\ MessageOf(x).sender \in Admins
    /\ \/ /\ MessageOf(x).fault = "malformed"
          /\ Become(x, [pc |-> "auditing", outcome |-> Answered(x, "failed")])
          /\ UNCHANGED <<mishaps, records, effects>>
       \/ /\ MessageOf(x).fault # "malformed"
          /\ \E answer \in Answers, tookEffect \in BOOLEAN :
               /\ Perform(x, answer, tookEffect)
               /\ Become(x, [pc |-> "auditing", outcome |-> Answered(x, answer)])
    /\ UNCHANGED <<listener, fates, memory, trail, applied, lapses>>

AuditStatus(answer) ==
    IF answer = "ok" THEN "SUCCESS" ELSE IF answer = "refused" THEN "UNAUTHORIZED" ELSE "FAILURE"

\* (Mistaken: failures are not logged.)
log_successes(e, status) ==
    trail' = IF status = "SUCCESS" THEN trail \union {[envelope |-> e, status |-> status]} ELSE trail

log(e, status) == trail' = trail \union {[envelope |-> e, status |-> status]}

\* handle_success, handle_failure and handle_unauthorized: the audit log first,
\* then the reply.
Audit(x) ==
    /\ tasks[x].pc = "auditing"
    /\ log(x[1], AuditStatus(tasks[x].outcome.answer))
    /\ ToReply(x, tasks[x].outcome)
    /\ UNCHANGED <<listener, mishaps, fates, memory, records, effects, applied, lapses>>

\* A reply that cannot be sent is logged.
Reply(x) ==
    /\ tasks[x].pc = "replying"
    /\ \/ End(x, [kind |-> "answered", outcome |-> tasks[x].outcome]) /\ UNCHANGED mishaps
       \/ End(x, Fate("unsent")) /\ Mishap("send")
    /\ UNCHANGED <<listener, server>>

-----------------------------------------------------------------------------
(* Crash and restart                                                       *)

\* The tasks and the in-memory store are gone; the mailbox and the repository
\* stay.  An application whose trace was in them is forgotten.
Crash ==
    /\ up /\ Mishap("crash")
    /\ up' = FALSE
    /\ fetched' = {}
    /\ tasks' = [x \in Copy |-> Idle]
    /\ memory' = [d \in Documents |-> Absent]
    /\ fates' = [e \in Envelopes |->
                   IF Held(e) /\ e \notin mailbox THEN fates[e] \union {Fate("lost")} ELSE fates[e]]
    /\ lapses' = [d \in Documents |->
                    IF \/ memory[d] \notin {Absent, InFlight} /\ memory[d].outcome.answer = "ok"
                       \/ \E x \in Copy : /\ tasks[x].pc = "dispatched" /\ tasks[x].mutated
                                          /\ message_key(MessageOf(x)) = d
                    THEN lapses[d] + 1 ELSE lapses[d]]
    /\ UNCHANGED <<carries, mailbox, records, trail, effects, applied>>

Restart ==
    /\ ~up
    /\ up' = TRUE
    /\ UNCHANGED <<carries, mailbox, fetched, tasks, mishaps, fates, server>>

Handle(x) ==
    \/ Unpack(x) \/ Drop(x) \/ Refuse(x) \/ handle_did_rotate(x)
    \/ Claim(x) \/ Dispatch(x) \/ Resolve(x) \/ Query(x) \/ TrqpQuery(x)
    \/ handle_unauthorized(x) \/ handle_request(x) \/ Audit(x) \/ Reply(x)

Next ==
    \/ \E e \in Envelopes, m \in Messages : Send(e, m)
    \/ \E e \in Envelopes : process_next_message(e)
    \/ \E E \in SUBSET Envelopes : FetchBatch(E)
    \/ AcknowledgeBatch
    \/ \E x \in Copy : Handle(x)
    \/ Crash \/ Restart

Spec == Init /\ [][Next]_vars

\* The sync comes round every 30 seconds, started tasks run on, and the process
\* is restarted.  Nothing is assumed of the live stream.
Fairness ==
    /\ \A e \in Envelopes : SF_vars(\E E \in SUBSET Envelopes : e \in E /\ FetchBatch(E))
    /\ WF_vars(AcknowledgeBatch)
    /\ \A x \in Copy : WF_vars(Handle(x))
    /\ WF_vars(Restart)

FairSpec == Spec /\ Fairness

-----------------------------------------------------------------------------
(* Properties                                                              *)

Task ==
    [pc : {"idle", "received", "claimed"}]
    \union [pc : {"packed"}, tries : 0..Attempts - 1]
    \union [pc : {"dispatched"}, outcome : Outcome, mutated : BOOLEAN]
    \union [pc : {"auditing", "replying"}, outcome : Outcome]

FateKinds == {"dropped", "exhausted", "lost", "unsent"}

TypeOK ==
    /\ up \in BOOLEAN
    /\ carries \in [Envelopes -> Messages \union {None}]
    /\ mailbox \subseteq Envelopes /\ fetched \subseteq Envelopes
    /\ tasks \in [Copy -> Task]
    /\ memory \in [Documents -> {Absent, InFlight} \union [status : {"done"}, outcome : Outcome]]
    /\ records \in Table
    /\ mishaps \in 0..MaxMishaps
    /\ trail \subseteq [envelope : Envelopes, status : {"SUCCESS", "FAILURE", "UNAUTHORIZED"}]
    /\ fates \in [Envelopes -> SUBSET ([kind : FateKinds] \union
                                       [kind : {"answered"}, outcome : Outcome])]
    /\ effects \subseteq Envelopes
    /\ applied \in [Documents -> Nat] /\ lapses \in [Documents -> Nat]

\* A message that was sent is in the mailbox, or a handler has it, or its
\* handling ended in a way this module names: whichever of the stream and the sync
\* took it, over whichever transport, none goes missing between the two.
NothingVanishes ==
    \A e \in Envelopes :
        carries[e] # None => e \in mailbox \/ Held(e) \/ fates[e] # {}

\* Whatever is delivered twice, over either transport, by stream and sync at
\* once, after a lost acknowledgement or because the sender sent it again: the
\* registry applies a document as WriteOnce allows.
Promise == INSTANCE WriteOnce WITH Keys <- Documents, applied <- applied, lapses <- lapses

ImplementsWriteOnce == Promise!Spec

\* The mishaps that can make the registry lose track of a document: the others lose or
\* double messages, which costs no document a second application.
Charged == IF Mishaps \intersect {"crash", "storage"} = {} THEN 0 ELSE mishaps

\* So a document is applied once, and once more at most for each crash and each
\* failure of the storage: however its copies are sent, delivered and acknowledged.
AppliedOncePerMishap == \A d \in Documents : applied[d] <= 1 + Charged

\* The sender of an issued document is given the answer to that very document,
\* by the registry or out of its memory, and the answer "ok" to a write only if the
\* document changed the repository, by this copy or by another one.
SameDocument(m, n) == m.form = n.form /\ m.sender = n.sender /\ m.id = n.id

AcknowledgedWereApplied ==
    \A e \in Envelopes : \A fate \in fates[e] :
        fate.kind = "answered" /\ carries[e].issued =>
            /\ fate.outcome.of = <<carries[e].sender, carries[e].id>>
            /\ fate.outcome.answer = "ok" /\ carries[e].op \in Acting =>
                 \E other \in effects : SameDocument(carries[other], carries[e])

\* The repository and the registry's own keys change only on behalf of
\* administrators, and by Trust Tasks only with a valid proof.
OnlyAuthorisedEffects ==
    \A e \in effects :
        /\ carries[e].sender \in Admins
        /\ carries[e].form = "task" => carries[e].fault = "none"

\* A tr-admin message is answered after the audit log tells of it, with the status
\* it was answered with, and the log tells of no write that did not happen.
AuditedBeforeAnswered ==
    /\ \A e \in Envelopes : \A fate \in fates[e] :
         carries[e].form = "admin" /\ fate.kind = "answered" =>
            [envelope |-> e, status |-> AuditStatus(fate.outcome.answer)] \in trail
    /\ \A entry \in trail :
         entry.status = "SUCCESS" /\ carries[entry.envelope].op \in Writes =>
            entry.envelope \in effects

\* Every message comes to an end, also one that arrived while the process was down
\* or whose acknowledgement got lost.
HandledEventually == \A e \in Envelopes : carries[e] # None ~> fates[e] # {}

-----------------------------------------------------------------------------
(* The inductive invariant behind AppliedOncePerMishap                     *)

\* x is about to lose track of document d, which it applied.
Owes(x, d) ==
    /\ tasks[x].pc = "dispatched" /\ tasks[x].mutated /\ tasks[x].outcome.answer = "failed"
    /\ message_key(MessageOf(x)) = d

\* Every lapse, past or about to come, was paid for.
FailuresInv ==
    \A d \in Documents :
        /\ lapses[d] <= Charged
        /\ (\E x \in Copy : Owes(x, d)) => lapses[d] < Charged

=============================================================================
