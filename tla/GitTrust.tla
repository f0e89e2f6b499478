------------------------------ MODULE GitTrust -------------------------------
(***************************************************************************)
(* The git-trust capability: grants and revocations of commit-signing      *)
(* authority, kept as records of the registry.  Their handlers are reached *)
(* through the dispatchers CapabilitySet composes, and work under the      *)
(* authority they were registered with; meanwhile the capability may be    *)
(* disabled or enabled with another authority, and administrators write    *)
(* the same records directly.                                              *)
(*                                                                         *)
(* The repository is one of the adapters of KeyValueStorage, chosen when   *)
(* the registry starts.  With Redis each of its calls is one step.  With   *)
(* fjall a write is two: it finds the record to be (or not to be) there,   *)
(* and puts the new one whatever came between.  With DynamoDB a read may   *)
(* find what the record was before.  (With the CSV file, see FileStorage.) *)
(***************************************************************************)
EXTENDS Capabilities

CONSTANTS
    Slug,       \* "git-trust", one of the available capabilities
    Subjects,   \* members' DIDs, with the resource
    Details,    \* the rest of a record: whether it is recognized, its context
    NoDetails,  \* what a grant writes there: recognized, an empty context
    NoRecord,
    Tasks,      \* handlers of grants and revocations that run at the same time
    Backends    \* the adapters considered

ASSUME GitTrustAssumption ==
    /\ Slug \in Available
    /\ Subjects # {}
    /\ NoDetails \in Details
    /\ NoRecord \notin [authorized : BOOLEAN, details : Details]
    /\ Backends \subseteq {"redis", "dynamodb", "fjall"}

VARIABLES
    backend,    \* which adapter
    records,    \* the repository, by authority and subject
    held,       \* details each record has held, which a read may find (dynamodb)
    tasks,      \* the handlers
    revoked,    \* history: keys whose last answer was "revoked", and that no
                \* administrator wrote since
    overtaken,  \* history: keys that a grant put though there was a record
    raced       \* history: keys that what a revocation has read of may have been
                \* written since by an administrator or by such a grant

gitVars == <<backend, records, held, tasks, revoked, overtaken, raced>>
vars == <<capabilityVars, gitVars>>

GitKeys == Configs \X Subjects

\* (The type, which a grant and a revocation set to authorization, is left out.)
Record == [authorized : BOOLEAN, details : Details]

GitAnswers == {"none", "unsupported", "granted", "already_granted",
               "revoked", "not_granted", "internal_error"}

\* tested: a grant found no record.  updating: a revocation found the record to be
\* there for its update.  seen: the details a revocation has read.  promise: what the
\* answers of CapabilitySet said of the capability when the message was dispatched.
Task == [pc : {"idle", "dispatched", "tested", "read", "updating", "answered"},
         op : {"grant", "revoke"},
         authority : Configs \union {Off}, subject : Subjects,
         seen : Details, answer : GitAnswers,
         promise : Configs \union {Off, Open}]

Idle == [pc |-> "idle", op |-> "grant", authority |-> Off,
         subject |-> CHOOSE s \in Subjects : TRUE,
         seen |-> NoDetails, answer |-> "none", promise |-> Open]

KeyOf(t) == <<tasks[t].authority, tasks[t].subject>>

Writing == {"tested", "read", "updating"}

\* The records that revocations have read and are about to update.
Reading == {KeyOf(t) : t \in {u \in Tasks : tasks[u].pc \in {"read", "updating"}}}

TwoSteps == backend = "fjall"
EventualReads == backend = "dynamodb"

Init ==
    /\ CapabilitiesInit
    /\ backend \in Backends
    /\ records = [k \in GitKeys |-> NoRecord]
    /\ held = [k \in GitKeys |-> {}]
    /\ tasks = [t \in Tasks |-> Idle]
    /\ revoked = {}
    /\ overtaken = {}
    /\ raced = {}

\* A record that was written in between stays so for as long as a revocation may
\* still put back what it has read; where reads find old records, for ever.
Races(keys) ==
    raced' = IF EventualReads THEN raced \union keys ELSE (raced \union keys) \intersect Reading'

\* What remains of a handler that answered is its answer.
Reply(t, answer) ==
    tasks' = [tasks EXCEPT ![t] = [Idle EXCEPT !.pc = "answered", !.answer = answer]]

\* A binding clones the dispatcher of its surface and routes the message: to a
\* handler bound to the authority the capability was registered with, if it is.
Dispatch(t, op, subject, surface) ==
    /\ tasks[t].pc = "idle"
    /\ tasks' = [tasks EXCEPT ![t] =
          [pc |-> IF surface[Slug] = Off THEN "answered" ELSE "dispatched",
           op |-> op, authority |-> surface[Slug], subject |-> subject, seen |-> NoDetails,
           answer |-> IF surface[Slug] = Off THEN "unsupported" ELSE "none",
           promise |-> promised[Slug]]]
    /\ UNCHANGED <<records, revoked, overtaken>> /\ Races({})

\* The record of a grant is put, over the one that is there if there is one.
PutGrant(t) ==
    LET k == KeyOf(t)
        over == IF records[k] = NoRecord THEN {} ELSE {k}
    IN
    /\ records' = [records EXCEPT ![k] = [authorized |-> TRUE, details |-> NoDetails]]
    /\ Reply(t, "granted")
    /\ overtaken' = overtaken \union over
    /\ Races(over)
    /\ UNCHANGED revoked

\* (Mistaken: a grant puts the record, whether there is one or not.)
GrantAnyway(t) ==
    /\ tasks[t].pc = "dispatched" /\ tasks[t].op = "grant"
    /\ records' = [records EXCEPT ![KeyOf(t)] =
          [authorized |-> TRUE, details |-> NoDetails]]
    /\ Reply(t, "granted")
    /\ Races({}) /\ UNCHANGED <<revoked, overtaken>>

\* handle_grant: create.  (A condition is evaluated on what is stored.)
Grant(t) ==
    /\ tasks[t].pc = "dispatched" /\ tasks[t].op = "grant"
    /\ IF records[KeyOf(t)] = NoRecord /\ ~TwoSteps
       THEN PutGrant(t)
       ELSE /\ IF records[KeyOf(t)] = NoRecord
               THEN tasks' = [tasks EXCEPT ![t].pc = "tested"]
               ELSE Reply(t, "already_granted")
            /\ Races({}) /\ UNCHANGED <<records, revoked, overtaken>>

\* ... its second step.
GrantInsert(t) == tasks[t].pc = "tested" /\ PutGrant(t)

\* The details a read may find, with the record.
Found(k) ==
    IF EventualReads THEN held[k]
    ELSE IF records[k] = NoRecord THEN {} ELSE {records[k].details}

\* handle_revoke: read, ...
RevokeRead(t) ==
    /\ tasks[t].pc = "dispatched" /\ tasks[t].op = "revoke"
    /\ \/ /\ records[KeyOf(t)] = NoRecord \/ EventualReads
          /\ Reply(t, "not_granted")
       \/ \E d \in Found(KeyOf(t)) :
             tasks' = [tasks EXCEPT ![t].pc = "read", ![t].seen = d]
    /\ Races({}) /\ UNCHANGED <<records, revoked, overtaken>>

\* (Mistaken: the record is built anew, as a grant builds it.)
PutAnew(t) ==
    /\ records' = [records EXCEPT ![KeyOf(t)] =
          [authorized |-> FALSE, details |-> NoDetails]]
    /\ Reply(t, "revoked")
    /\ revoked' = revoked \union {KeyOf(t)}
    /\ overtaken' = overtaken \ {KeyOf(t)}
    /\ Races({})

\* The record is put as it was read, but for the authorization.
PutRevoked(t) ==
    /\ records' = [records EXCEPT ![KeyOf(t)] =
          [authorized |-> FALSE, details |-> tasks[t].seen]]
    /\ Reply(t, "revoked")
    /\ revoked' = revoked \union {KeyOf(t)}
    /\ overtaken' = overtaken \ {KeyOf(t)}
    /\ Races({})

\* ... then update, from what was read.
RevokeUpdate(t) ==
    /\ tasks[t].pc = "read"
    /\ IF records[KeyOf(t)] # NoRecord /\ ~TwoSteps
       THEN PutRevoked(t)
       ELSE /\ IF records[KeyOf(t)] # NoRecord
               THEN tasks' = [tasks EXCEPT ![t].pc = "updating"]
               ELSE Reply(t, "internal_error")
            /\ Races({}) /\ UNCHANGED <<records, revoked, overtaken>>

\* ... its second step.
RevokeInsert(t) == tasks[t].pc = "updating" /\ PutRevoked(t)

\* The repository fails, before or after the call took effect.
RepositoryFails(t) ==
    /\ \/ tasks[t].pc \in {"dispatched"} \union Writing
       \/ tasks[t].answer \in {"granted", "revoked"}
    /\ Reply(t, "internal_error")
    /\ Races({}) /\ UNCHANGED <<records, revoked, overtaken>>

Done(t) ==
    /\ tasks[t].pc = "answered"
    /\ tasks' = [tasks EXCEPT ![t] = Idle]
    /\ Races({}) /\ UNCHANGED <<records, revoked, overtaken>>

\* An administrator creates, updates or deletes a record (registry/record/*).
\* (With fjall this is the write's second step, and needs nothing of the first.)
AdminWrite(k, record) ==
    /\ record = NoRecord => records[k] # NoRecord
    /\ records' = [records EXCEPT ![k] = record]
    /\ revoked' = revoked \ {k}
    /\ overtaken' = overtaken \ {k}
    /\ UNCHANGED tasks
    /\ Races({k})

GitNext ==
    \/ \E t \in Tasks :
         \/ \E op \in {"grant", "revoke"}, subject \in Subjects,
               surface \in {dispatcher, query_dispatcher} : Dispatch(t, op, subject, surface)
         \/ Grant(t) \/ GrantInsert(t)
         \/ RevokeRead(t) \/ RevokeUpdate(t) \/ RevokeInsert(t)
         \/ RepositoryFails(t) \/ Done(t)
    \/ \E k \in GitKeys, record \in Record \union {NoRecord} : AdminWrite(k, record)

\* DynamoDB's replicas have held what was ever written.
Replicate ==
    held' = [k \in GitKeys |->
               IF EventualReads /\ records'[k] # NoRecord
               THEN held[k] \union {records'[k].details} ELSE held[k]]

\* A restart of the process also ends its handlers.
Next ==
    /\ \/ GitNext /\ UNCHANGED capabilityVars
       \/ /\ CapabilitiesNext
          /\ tasks' = IF Restart THEN [t \in Tasks |-> Idle] ELSE tasks
          /\ Races({}) /\ UNCHANGED <<records, revoked, overtaken>>
    /\ Replicate /\ UNCHANGED backend

Spec == Init /\ [][Next]_vars

-----------------------------------------------------------------------------
(* Properties                                                              *)

TypeOK ==
    /\ CapabilitiesTypeOK
    /\ backend \in Backends
    /\ records \in [GitKeys -> Record \union {NoRecord}]
    /\ held \in [GitKeys -> SUBSET Details]
    /\ tasks \in [Tasks -> Task]
    /\ revoked \subseteq GitKeys
    /\ overtaken \subseteq GitKeys
    /\ raced \subseteq IF EventualReads THEN GitKeys ELSE Reading
    /\ \A t \in Tasks :
         /\ tasks[t].pc \in {"dispatched"} \union Writing => KeyOf(t) \in GitKeys
         /\ tasks[t].pc = "idle" => tasks[t] = Idle

\* A member whose revocation was confirmed is not authorized again by anything
\* the capability does (grants racing the revocation, other revocations, a
\* change of the authority and back): only an administrator's own write can, or,
\* with fjall, a grant that found no record before it was there.
RevocationHolds ==
    \A k \in revoked \ overtaken : records[k] # NoRecord /\ ~records[k].authorized

\* What "revoked" says to the caller, without that exception.
RevocationFinal ==
    \A k \in revoked : records[k] # NoRecord /\ ~records[k].authorized

\* A grant or revocation that was dispatched while the last answer about the
\* capability was "enabled with this authority" works under that authority, and
\* one that was dispatched while the last answer was "disabled" is refused,
\* whatever transitions began and failed before, and however long it takes.
GrantsFollowConfig ==
    \A t \in Tasks : (tasks[t].pc # "idle" /\ tasks[t].promise # Open) =>
        /\ tasks[t].authority = tasks[t].promise
        /\ tasks[t].promise = Off => tasks[t].answer = "unsupported"

\* What the comment in handle_revoke says: "mark unauthorized, retaining the
\* record for audit".  A revocation changes the authorization, and nothing else.
RevokeOnlyMarks ==
    [][\A t \in Tasks :
         (tasks'[t].answer = "revoked" /\ tasks[t].answer = "none")
           => records'[KeyOf(t)].details = records[KeyOf(t)].details]_vars

\* The half of that which holds.  Between the read and the update of a revocation
\* anything may happen: grants, other revocations, changes of the capability.  If
\* nothing is put over the record meanwhile by an administrator or by a grant that had
\* found none (with DynamoDB, whose read may be of any age: if no administrator ever
\* wrote it), the update still finds it, and changes its authorization and nothing else.
RevokeOnlyMarksUnlessRaced ==
    [][\A t \in Tasks : (RevokeUpdate(t) \/ RevokeInsert(t)) /\ KeyOf(t) \notin raced =>
         \/ tasks'[t].pc = "updating"
         \/ /\ tasks'[t].answer = "revoked"
            /\ records[KeyOf(t)] # NoRecord
            /\ records'[KeyOf(t)] =
                 [authorized |-> FALSE, details |-> records[KeyOf(t)].details]]_vars

-----------------------------------------------------------------------------
(* The inductive invariant behind RevokeOnlyMarksUnlessRaced               *)

\* What a revocation read is still so, unless the record was written in between.
ReadHolds(t) ==
    (tasks[t].pc \in {"read", "updating"} /\ KeyOf(t) \notin raced) =>
        records[KeyOf(t)] # NoRecord /\ records[KeyOf(t)].details = tasks[t].seen

\* With DynamoDB, a record no administrator wrote was only ever granted and revoked.
Untouched(k) ==
    (EventualReads /\ k \notin raced) =>
        /\ held[k] \subseteq {NoDetails}
        /\ held[k] # {} <=> records[k] # NoRecord
        /\ records[k] # NoRecord => records[k].details = NoDetails

ReadsHold == (\A t \in Tasks : ReadHolds(t)) /\ (\A k \in GitKeys : Untouched(k))

=============================================================================
