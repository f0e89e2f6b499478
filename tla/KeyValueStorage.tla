--------------------------- MODULE KeyValueStorage ---------------------------
(***************************************************************************)
(* The repository on a key-value service: RedisStorage, DynamoDbStorage    *)
(* and FjallStorage.  They differ in what is one step on the service, and  *)
(* in what a read may show:                                                *)
(*                                                                         *)
(*   redis     EXISTS and SET are two commands, sent while the process     *)
(*             holds its connection's write lock; list is a SCAN loop      *)
(*   dynamodb  a conditional put or delete is one request; list is a       *)
(*             sequence of pages; there is no lock, and gets and pages     *)
(*             are eventually consistent                                   *)
(*   fjall     contains_key and insert (or remove) are two calls of a      *)
(*             blocking thread, with no lock around them                   *)
(*                                                                         *)
(* The service is used by this process only, and outlives it.              *)
(***************************************************************************)
EXTENDS Records

CONSTANTS
    Backends,  \* what TR_STORAGE_BACKEND may name
    Offered    \* bound: the operations clients call

ASSUME BackendAssumption ==
    /\ Backends \subseteq {"redis", "dynamodb", "fjall"}
    /\ Offered \subseteq Ops

VARIABLES
    backend,   \* which of the three adapters
    records,   \* what the service stores
    replicas,  \* what a read may find of each record (more than one thing: dynamodb)
    calls,     \* each client's current call
    progress,  \* how far a call of several steps has come
    holder     \* who holds the connection's lock (redis)

vars == <<backend, records, replicas, calls, progress, holder>>

\* tested: the key was found as the write needs it.  scanned: the keys a list
\* has been through; page: what it found there.
NotStarted == [tested |-> FALSE, scanned |-> {}, page |-> EmptyTable]

Locks == backend = "redis"
EventualReads == backend = "dynamodb"

\* Whether op is a single command of the service.
OneStep(op) ==
    \/ op = "read"
    \/ op \in Writes /\ backend = "dynamodb"
    \/ op = "delete" /\ backend = "redis"
    \/ op = "list" /\ backend = "fjall"

\* The tables a read or a list may find: the one that is stored, or for each record
\* on its own anything it holds or has held.
Readable == {t \in Table : \A k \in Keys : t[k] \in replicas[k]}

Init ==
    /\ backend \in Backends
    /\ records \in Table
    /\ replicas \in [Keys -> SUBSET (Values \union {None})]
    /\ \A k \in Keys :
         IF EventualReads THEN records[k] \in replicas[k] ELSE replicas[k] = {records[k]}
    /\ calls = [c \in Clients |-> NoCall]
    /\ progress = [c \in Clients |-> NotStarted]
    /\ holder = None

Invoke(c, op, k, v) ==
    /\ calls[c].op = "none"
    /\ Arguments(op, k, v)
    /\ calls' = [calls EXCEPT ![c] = NewCall(op, k, v)]
    /\ UNCHANGED <<records, progress, holder>>

\* self.connection.write().await
Lock(c) ==
    /\ Locks
    /\ calls[c].answer = "pending"
    /\ holder = None
    /\ holder' = c
    /\ UNCHANGED <<records, calls, progress>>

\* (Mistaken: the lock is held for a command, not for the method.)
MayProceedAnyway(c) == calls[c].answer = "pending"

MayProceed(c) ==
    /\ calls[c].answer = "pending"
    /\ Locks => holder = c

\* The method returns to its caller; the lock's guard is dropped.
Answer(c, answer, seen) ==
    /\ calls' = [calls EXCEPT ![c].answer = answer, ![c].seen = seen]
    /\ progress' = [progress EXCEPT ![c] = NotStarted]
    /\ holder' = IF holder = c THEN None ELSE holder

\* A condition is evaluated on what is stored, a read on what it finds.
Perform(c) ==
    LET call == calls[c] IN
    /\ MayProceed(c)
    /\ OneStep(call.op)
    /\ records' = Written(call.op, call.key, call.value, records)
    /\ \E t \in IF call.op \in Writes THEN {records} ELSE Readable :
          Answer(c, Verdict(call.op, call.key, t), Shown(call.op, call.key, t))

\* EXISTS, contains_key: return early if the record is not as it should be.
Test(c) ==
    LET call == calls[c]
        verdict == Verdict(call.op, call.key, records)
    IN
    /\ MayProceed(c)
    /\ call.op \in Writes /\ ~OneStep(call.op)
    /\ ~progress[c].tested
    /\ \/ /\ verdict = "ok"
          /\ progress' = [progress EXCEPT ![c].tested = TRUE]
          /\ UNCHANGED <<calls, holder>>
       \/ verdict # "ok" /\ Answer(c, verdict, EmptyTable)
    /\ UNCHANGED records

\* SET, insert, remove: unconditional.
Write(c) ==
    LET call == calls[c] IN
    /\ MayProceed(c)
    /\ progress[c].tested
    /\ records' = [records EXCEPT ![call.key] = call.value]
    /\ Answer(c, "ok", EmptyTable)

\* The cursor passes k: the record, if there is one, is fetched.
Scan(c, k) ==
    /\ MayProceed(c)
    /\ calls[c].op = "list" /\ ~OneStep("list")
    /\ k \notin progress[c].scanned
    /\ \E found \in replicas[k] :
          progress' = [progress EXCEPT ![c].scanned = @ \union {k}, ![c].page[k] = found]
    /\ UNCHANGED <<records, calls, holder>>

\* (Mistaken: the loop ends with the first page.)
EndScanEarly(c) ==
    /\ MayProceed(c)
    /\ calls[c].op = "list" /\ ~OneStep("list")
    /\ progress[c].scanned # {}
    /\ Answer(c, "ok", progress[c].page)
    /\ UNCHANGED records

\* The cursor is back at 0 (there is no next page).
EndScan(c) ==
    /\ MayProceed(c)
    /\ calls[c].op = "list" /\ ~OneStep("list")
    /\ progress[c].scanned = Keys
    /\ Answer(c, "ok", progress[c].page)
    /\ UNCHANGED records

\* A command fails; the service may have executed it nevertheless.
Fail(c) ==
    /\ calls[c].op # "none"
    /\ \/ MayProceed(c)
       \/ calls[c].answer = "ok"
    /\ Answer(c, "failed", EmptyTable)
    /\ UNCHANGED records

Return(c) ==
    /\ calls[c].op # "none"
    /\ calls[c].answer # "pending"
    /\ calls' = [calls EXCEPT ![c] = NoCall]
    /\ UNCHANGED <<records, progress, holder>>

\* No bound is promised on how long an eventually consistent read is behind: what
\* a record has held stays readable.
Replicate ==
    replicas' = [k \in Keys |->
        IF EventualReads THEN replicas[k] \union {records'[k]} ELSE {records'[k]}]

Next ==
    /\ \E c \in Clients :
         \/ \E op \in Offered, k \in Keys \union {None}, v \in Values \union {None} :
               Invoke(c, op, k, v)
         \/ Lock(c) \/ Perform(c) \/ Test(c) \/ Write(c)
         \/ \E k \in Keys : Scan(c, k)
         \/ EndScan(c) \/ Fail(c) \/ Return(c)
    /\ Replicate
    /\ UNCHANGED backend

Spec == Init /\ [][Next]_vars

-----------------------------------------------------------------------------
(* Properties                                                              *)

\* Besides the types: a read may find what is stored, and nothing else unless reads
\* are eventually consistent; the lock, and a half-done write or list, belong to a
\* call that has not been answered.
TypeOK ==
    /\ backend \in Backends
    /\ records \in Table
    /\ replicas \in [Keys -> SUBSET (Values \union {None})]
    /\ calls \in [Clients -> Call]
    /\ progress \in [Clients -> [tested : BOOLEAN, scanned : SUBSET Keys, page : Table]]
    /\ holder \in Clients \union {None}
    /\ \A k \in Keys :
         IF EventualReads THEN records[k] \in replicas[k] ELSE replicas[k] = {records[k]}
    /\ \A c \in Clients :
         (holder = c \/ progress[c] # NotStarted) => calls[c].answer = "pending"

Store == INSTANCE RecordStore
Eventual == INSTANCE EventualStore

\* Calls do not overlap, and show what is stored: Redis's lock keeps the others out,
\* and fjall may have a single caller.
OneAtATime ==
    \/ Locks
    \/ backend = "fjall" /\ \A c, d \in Clients : c = d

\* Every call on Redis takes effect at one moment, as if the repository were a
\* single table behind a lock: EXISTS and SET, and the steps of a SCAN, are held
\* together by the lock on the connection.  So does every call of a single caller on
\* fjall.
Linearizable == Store!Init /\ [][OneAtATime => Store!Next]_<<records, calls>>

\* The calls of DynamoDbStorage overlap, with nothing to hold them apart, and its
\* lists are put together from pages fetched one after the other while records are
\* created, replaced and deleted.  It still behaves as a table on which every write is
\* decided and done at one moment, by what is stored and not by what was read; and
\* a read or a whole list shows of each record, of none too few, something the
\* record holds or has held.
EventuallyConsistent ==
    Eventual!Init /\ [][EventualReads => Eventual!Next]_<<records, replicas, calls>>

\* What the test of the adapter says of a create: "duplicate create fails".  A
\* create reports success only if no record was there at that moment.
CreateFillsVacancy ==
    [][\A c \in Clients :
         (calls[c].op = "create" /\ calls[c].answer = "pending" /\ calls'[c].answer = "ok")
           => records[calls[c].key] = None]_vars

\* What a caller may not rely on: that the three are the same table.  On DynamoDB
\* a caller may miss its own write, on fjall two creates may both succeed.
OneTable == [][Store!Next]_<<records, calls>>

-----------------------------------------------------------------------------
(* The inductive invariant behind Linearizable                             *)

\* What makes calls atomic that do not overlap.  A call that is under way holds the
\* lock, if there is one; so what it has learnt is still the case: a tested key is
\* as the write needs it, and the page of a list shows what the keys passed so far
\* hold.
AloneInv ==
    /\ TypeOK
    /\ OneAtATime =>
         /\ \A c \in Clients : progress[c] # NotStarted /\ Locks => holder = c
         /\ \A c \in Clients : progress[c].tested =>
               /\ calls[c].op \in Writes
               /\ Verdict(calls[c].op, calls[c].key, records) = "ok"
         /\ \A c \in Clients, k \in Keys :
               progress[c].page[k] = IF k \in progress[c].scanned THEN records[k] ELSE None

-----------------------------------------------------------------------------
(* The inductive invariant behind EventuallyConsistent                     *)

\* No write is in two steps, and what a list has collected is still among what the
\* records have held.
PagesInv ==
    /\ TypeOK
    /\ EventualReads => \A c \in Clients :
         /\ ~progress[c].tested
         /\ \A k \in progress[c].scanned : progress[c].page[k] \in replicas[k]

=============================================================================
