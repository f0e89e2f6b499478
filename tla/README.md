# Trust Registry: TLA+ models and proofs

This directory models the trust registry (`src/trust-registry`, a Rust server) in TLA+,
checks the models with TLC on small instances and proves theorems about them with TLAPS.
Every definition is translated from the source; `PROJECT.json` maps each to its lines.
Paths below are relative to `src/trust-registry/src/` unless they start with `src/`.

1. [The system](#1-the-system)
2. [The modules](#2-the-modules)
3. [The runs](#3-the-runs)
4. [Disagreements found](#4-disagreements-found)
5. [The proofs](#5-the-proofs)
6. [What is not modelled](#6-what-is-not-modelled)
7. [Open ends](#7-open-ends)
8. [Running everything](#8-running-everything)

## 1. The system

The registry keeps *trust records* (authority, action, resource, entity; recognized,
authorized, context) and answers queries about them. Requests are *Trust Task* documents.
Queries arrive over HTTP, everything else over DIDComm or TSP through a mediator that
queues messages for the registry.

| Component | State | Operations | Talks to |
| --- | --- | --- | --- |
| Mediator listener (`didcomm/listener/`) | none of its own; the queue is the mediator's | live pickup, periodic offline sync, one spawned task per message | handlers |
| TSP binding (`tsp/`) | none | unpack with retries, checks, dispatch, reply | dedup |
| DIDComm handlers (`didcomm/handlers/`) | none | parse, authorize, verify proof, dispatch, reply; `did/rotate`; the legacy tr-admin and trqp protocols | dedup, repository, audit log |
| Write-path dedup (`dedup/`) | message key → in flight / done | `claim`, `complete`, `release`, `dispatch_idempotent` | router |
| Router (`trust_tasks/router.rs`) | none | one handler per document type | repository |
| Capability composition (`capabilities/mod.rs`) | enablement state in memory and in a JSON file; two live dispatchers | `enable`, `disable`, `list`, startup | bindings read the dispatchers |
| git-trust (`capabilities/git_trust.rs`) | none; its grants are records | grant, revoke | repository |
| Repository (`storage/`) | the records | create, update, delete, read, list, find | memory, CSV file, Redis, DynamoDB, fjall |
| Configuration, secrets, DID document (`configs/`, `didcomm/did_document.rs`) | one slot of a secret store | load, cache the VTA's keys, build the document | VTA, secret store |
| Server (`server.rs`, `health.rs`) | tasks, shutdown token, health | start, serve, join, shutdown | all |
| TRQL client (`src/trql-client`) | map of waiters | discover, exchange, demultiplex replies | mediator, registry |

How they interact. The listener spawns a task per message. A task clones the live dispatcher
(so a later swap does not affect it), passes the checks, and for a write goes through
`dispatch_idempotent`, which claims the message key, runs the handler and resolves the claim.
The handler calls the repository. Capability requests travel the same way and swap the
dispatchers the next tasks clone. HTTP requests read the query dispatcher. The server starts HTTP and
the listener as two tasks and looks after both.

What is hard, and what would make each component correct:

* **Listener and handlers.** Two paths out of the mailbox that know nothing of each other, one deleting before and
  one acknowledging after the handlers start. Wanted: nothing is lost but what the code gives up knowingly, nothing is
  applied twice but after a lapse, whatever is answered or logged is what happened.
* **Dedup.** At-least-once delivery and one task per message: copies of one document run
  concurrently with each other, with expiry, panics, transient failures and restarts.
  Wanted: one claim holder per document, one application per document except where the
  design gives that up, one answer, and no document that is stuck for good.
* **Repository.** Backends promise the same thing with different atomic steps: a lock over a
  connection, conditional requests, pages and old reads, or nothing. Wanted: each write is decided and done at
  one moment, and what a read shows was there.
* **CSV file.** Two copies of the data (memory, file), changed by calls, a sync task and
  administrators, in steps that no lock joins. Wanted: accepted writes survive, edits are
  served.
* **Capabilities.** Four copies of one fact (memory, file, two dispatchers), changed under a
  lock that does not make the sequence atomic with respect to failing saves and crashes.
  Wanted: what an answer said stays true; a restart changes nothing that was served.
* **git-trust.** Handlers bound to a configuration that may be gone when they write; read and
  update in two calls. They run on every backend. Wanted: a confirmed revocation holds.
* **Server and configuration.** Four sources of an identity of which two share a slot of a store that may fail; a listener that may fail at any
  stage beside an HTTP task that must not care. Wanted: the identity configured and no other, health that tells the truth,
  reads that outlive the write path.
* **Client.** Replies that race timeouts and each other, come twice, or to nobody. Wanted: each request gets its own
  reply or an error, and no reply is thrown away while somebody waits for it.

## 2. The modules

| Module | Models | Builds on |
| --- | --- | --- |
| `WriteOnce` | what the write path promises: one application per document and lapse | |
| `MessageDedup` | `dedup/mod.rs` | implements `WriteOnce` |
| `MessageDedupProofs` | theorems about `MessageDedup` | `MessageDedup` |
| `Delivery` | mailbox, listener, TSP binding, all message handlers, audit log | `Records`; implements `WriteOnce` |
| `DeliveryProofs` | theorems about `Delivery` | `Delivery` |
| `Records` | the repository trait's data and verdicts (`storage/repository.rs`, `local_storage.rs`) | |
| `RecordStore` | the abstract repository: each call one step | `Records` |
| `EventualStore` | the abstract repository with eventually consistent reads | `Records` |
| `KeyValueStorage` | Redis, DynamoDB and fjall adapters | `Records`; compared with `RecordStore` and `EventualStore` |
| `RecordKeys` | the keys records are kept under (`domain/key.rs`) | `Records` |
| `KeyValueStorageProofs` | theorems about `KeyValueStorage` and `RecordKeys` | both |
| `FileStorage` | CSV adapter with its sync task | `Records`; compared with `RecordStore` |
| `FileStorageProofs` | theorems about `FileStorage` | `FileStorage` |
| `Capabilities` | `capabilities/mod.rs` | |
| `CapabilitiesProofs` | theorems about `Capabilities` | `Capabilities` |
| `GitTrust` | `capabilities/git_trust.rs` | `Capabilities` |
| `GitTrustProofs` | theorems about `GitTrust` | `GitTrust`, `CapabilitiesProofs` |
| `Server` | `server.rs`, `health.rs`, `configs/`, `did_document.rs`, the listener's start and end | |
| `ServerProofs` | theorems about `Server` | `Server` |
| `RequestReply` | what the client promises its callers: requests end once, answers are the registry's | |
| `TrqlClient` | `src/trql-client` | implements `RequestReply` |
| `TrqlClientProofs` | theorems about `TrqlClient` | `TrqlClient` |
| `MC*` | instances and symmetry sets for TLC, one module per specification | |

### MessageDedup, WriteOnce

`entries` is the store's map, `tasks` the tasks inside `dispatch_idempotent`. `Acquire`,
`TurnAway`, `Replay` and `FailOpen` are the four outcomes of `claim`, each with the eviction that
precedes it for all keys; `Mutate` is the moment the repository applies the write, `Return` the
return of `handle_document` with a success, a deterministic rejection or a retryable one;
`Resolve` is `complete` or `release`, or a store fault in either, and the answer to the sender.
`Panic`, `Restart` and `Tick` are what happens to the process. Outcomes are abstracted to their
kind and the run of the handler that produced them, which is all that tells two responses apart.

Time is kept as ages, capped where no test of the code can tell them apart; `Tick` is the only
action that lets time pass. `Expired` has the two windows of the code. `HandlerBound` bounds how
long a handler runs, `RedeliveryWindow` how long the mediator redelivers; the code fixes neither,
so they are constants, and `WellTuned` says what the comments at `dedup/mod.rs:58-73` ask for.
`lapses` counts, per document, the applications that left no trace in the store: each is one of
the four events named at `AppliedOncePerLapse`; `mishaps` counts what went wrong with the process, whichever documents it hit.

`WriteOnce` is the promise without the machinery: a document may be applied if no earlier application of it is still
remembered. It has `applied` and `lapses` as its only variables, and both `MessageDedup` and `Delivery` refine it
with the variables of the same names.

### Delivery

`mailbox` is what the mediator holds, `carries` what each envelope contains. `process_next_message` is the live stream (the
frame is deleted when it is handed over, unless the deletion fails); `FetchBatch` and `AcknowledgeBatch` are the two
halves of `sync_and_process_offline_messages`, with handlers running in between. `Spawn` starts a handler,
whose later steps are actions of their own, in any order with those of others: `Unpack` (a TSP frame, with
its retries), `Drop`, `Refuse` (all checks before dispatch, of either binding), `handle_did_rotate`, `Claim`, `Dispatch`, `Resolve`,
`Query`, `TrqpQuery`, `handle_unauthorized`, `handle_request`, `Audit`, `Reply`. A message is a record of what these tell apart;
`fault` is the first thing a check would find wrong with it, a payload that is none of its request's among them (`Reject`).
`Govern` is what a handler of the capabilities does to tables of its own, of which `Capabilities` and `GitTrust` tell. The deduplication store appears without its clock: copies arrive within
its window, as `WellTuned` asks in `MessageDedup`. A repository call is one step of `Records` that may fail before or after it took
effect (`Perform`). `Crash` ends all tasks and forgets the store. `trail`, `fates`, `effects`, `applied` and `lapses` are
history variables.

### Records, RecordStore, EventualStore, KeyValueStorage

`Verdict`, `Written` and `Shown` say what each call of the trait answers, writes and returns.
`RecordStore` gives them one step each; `Fail` is an error whose effect is unknown, which is what
the trait's callers must assume. `LocalStorage` does everything under one lock and needs no model of
its own.

`KeyValueStorage` is one of the three adapters, chosen at the start (`backend`); `Locks`, `OneStep` and `EventualReads` say how they differ:
Redis takes the write lock of its connection for the whole method and sends several commands;
DynamoDB sends conditional requests and collects the pages of a list; fjall tests and writes in two
calls. `Test`, `Write`, `Scan` and `EndScan` are the parts of a call that is not one step. DynamoDB's gets and queries do not ask for consistent
reads (`ddb_storage.rs:114-120`, `254-264`), so a read or a page shows of a record anything it holds or has held: `replicas`, of which `Readable` picks.
Conditions are evaluated on the stored item, whatever reads show.

`EventualStore` says what is left of `RecordStore` then: writes are one step on the table, a read or list one step that shows of each record
something it holds or has held.

### RecordKeys

Everywhere else a key is a key. Here it is four names, each a sequence of characters, and two tables get the same calls: `named`, kept under
the names as `LocalStorage` and `FileStorage` keep them, and `joined`, kept under the names joined by `#` (`sk`) as Redis, DynamoDB and fjall do. One call
is one step (`OnRecord`, `OnAll`): what the calls' parts can do to each other is `KeyValueStorage`.

### FileStorage

`records` and `last_modified` are the two locks' contents, `file` the file. `Mutate` is what a method
does under the lock of `records`; `Snapshot`, `Truncate`, `WriteOut`, `Stat` and `Finish` are the steps
of `write_to_file`, `Fail` an error in one of them. The sync task is `SyncWake`, `SyncStat`,
`SyncRead`, `SyncInstall` and `SyncStamp`: each step ends where the code gives up a lock or awaits.
A file is the table it parses to or `Garbled`; a file that was just opened for writing is an empty
table, and two overlapping writes leave any mixture (`Overlaid`). `Stamped` lets the file system give
two changes the same mtime when `CoarseClock` holds. `excuses` records which of the known races
happened, so that `AcknowledgedKept` can say that nothing else loses a record.

### Capabilities, GitTrust

`state`, `disk`, `dispatcher` and `query_dispatcher` are the four copies of what is enabled. A request
goes through `Ask` (validation), `Refuse` or `Change` (under the lock), `Save`, `SwapAdmin` and
`SwapQuery`; the lock is held from `Change` to the answer. A failing save answers at once and leaves
the changed state in memory, as the code does. `Restart` composes from the file.

`GitTrust` extends it with the tasks of the two handlers and the records. `Dispatch` clones either
surface, as a DIDComm or TSP task and the HTTP binding do. (The closure a capability registers with does not know which
surface it builds, so an enabled capability is registered on the query surface, too.) `RevokeRead` and `RevokeUpdate` are two
steps; between them a task keeps the details it read (`seen`), and what remains of a task that answered is its answer. The repository is one of the adapters
above: on Redis each call is one step; on fjall a create and an update are two (`TwoSteps`: `Grant` and `GrantInsert`, `RevokeUpdate` and `RevokeInsert`), the second
one unconditional; on DynamoDB a revocation may read details the record had before, or not find it (`held`, `Found`). `AdminWrite` is any create, update
or delete by an administrator. History: `overtaken` are the records a grant was put over though it had found none, `raced` those that were written under a
revocation that had read them, by an administrator or such a grant (on DynamoDB, where a read may be of any age: that an administrator ever wrote).

### Server

`env` holds the environment variables as the code tells their values apart (a flag may be unset, true, false or unreadable; a public
URL https, loopback, cleartext or missing; and so on). `Load` is `TrustRegistryConfig::load`: it fails, or takes the identity from the
first source configured (`identity`), caches a bundle the VTA gave (`Cache`), and then (`Identified`) refuses a public URL nobody can use or fixes the transports
and the DID document (`Config`). The secret store answers a start or fails (`SecretStore`): it cannot be opened in this deployment (`storable`), or a read or
write of it fails (a mishap). Without it a profile is not found and a cached bundle neither kept nor read. `serve` opens the repository, binds the address and starts both tasks. The listener passes `Check`
(its DID document, a bounded number of times) and `Build` before it listens; `Ended` is all that is known of its end.
`JoinListener` and `JoinHttp` are the branches of `join`, `Exit` the process's end after it, `shutdown` what an embedding host calls.
`Redeploy`, `Provision`, `VtaConnectivity` and `Crash` are the world outside. One slot of the secret store holds either a VTA's bundle or a
provisioned profile; neither parses as the other.

### TrqlClient

`Connect` reads the DID document's services (`endpoint`, `KindOf`: what the code counts a service as) and selects a transport (`select`). `Advertises` is what
a service offers by its types, whatever the code makes of it; the properties speak of that. Over a mediator an exchange is `register`,
`send_envelope`, `Sent`, then `Receive`, or `Elapse`, `Expire` and `abandon`: the timeout of Tokio polls the channel first, then the clock; the
channel goes with the future; the waiter is taken out of the map after that. The demux takes a reply (`Take`), drops it (`Discard`), or looks for its
waiter under the lock (`route`), hands it over (`Hand`) and acknowledges it (`Ack`, DIDComm only). `Cancel` drops the future of an exchange,
`Panic` ends the demux.
`RequestReply` is the promise to the callers without any transport: requests are asked, replies come, and a request ends once with a result that is `Founded` on
them. `TrqlClient` refines it with `Result`, what a caller has got. Over HTTPS an exchange is `Post`, then `AnswerByHttps` or `PostFails` (the
time is up before the head of the answer came, or in its body, which is a transport error). `send_query` checks the reply. The registry answers what it likes,
as often as it likes: twice, with somebody else's document, unreadably, never.

## 3. The runs

Twelve runs; eleven must find no error, one must find the violation of section 4.

| Run | Question | Instance | States |
| --- | --- | --- | --- |
| `DedupSafety` | Are claims exclusive, does each application but the first cost a failure, and is that `WriteOnce`? | 2 documents, 3 tasks, 2 mishaps of any kind | 308 k |
| `DedupLive` | Do all answers agree, and does each document get one in the end? | same, panics and transient failures, fairness | 24 k |
| `Delivery` | Is anything lost, doubled, misanswered or applied without authority between mailbox and repository? | any 2 of 14 messages, batches of 1, 2 attempts, 1 mishap of 6 kinds, fairness | 753 k |
| `Storage` | Does Redis implement `RecordStore`, and DynamoDB `EventualStore`? | either; 2 clients, 2 keys, 2 values, all operations | 66 k |
| `RecordKeys` | Do joined keys tell records apart? | 5 records whose names look alike when joined, 2 values | 2 k |
| `FileKept` | What can lose an accepted write? | 2 clients, 2 keys, sync task, one crash or disk failure, equal mtimes | 5.8 M |
| `FileEdits` | Are edits served in the end? | an administrator, a crash, garbled versions, fairness | 26 k |
| `Capabilities` | Do the four copies agree, and do answers hold? | 2 capabilities, 2 requests, 2 configurations, 2 failures | 61 k |
| `GitTrust` | Do revocations hold and change nothing else, and do tasks obey the configuration? | fjall or DynamoDB; 2 tasks, 1 authority, 2 values of the details, an administrator, 2 failures | 866 k |
| `Server` | Are identity, health and advertised transports true, and do reads outlive the listener? | 17 deployments, 2 attempts, 2 rotations, 3 mishaps of 9 kinds, fairness | 34 k |
| `TrqlClient` | Does each request end once, and with its own reply: does the client implement `RequestReply`? | 2 requests, 8 pairs of DID document and client, 1 mishap of 7 kinds, fairness | 421 k |
| `StorageFjallTwice` | (violated) Does a create fill a vacancy only? | 2 clients, 1 key | until found |

**Why the bounds are enough.** Three tasks on two keys are one more than any guard of
`MessageDedup` relates (an owner, a copy, and a third that evicts or acquires after either); its
windows (in flight 2, replay 3, handler 1) give every order of expiry, resolution and redelivery
that well tuned windows allow, and two mishaps let one failure hit the recovery from another. In `Delivery` two
envelopes are what every property relates: the same document twice, two documents of one id, a batch and what is left behind it
(`Batch` is 1 so that a backlog is longer than a batch). They are handled by one task each, so one envelope's two deliveries are
handled in turn; concurrent copies are two envelopes with one document. The fourteen messages have every form, transport
and fault that a guard tells apart; the repository starts filled, so that each write can succeed. Two
clients show every race between two calls. `GitTrust` starts with fjall or DynamoDB: with Redis it takes the steps of fjall that have nothing between
their two halves. Two tasks are a grant on its way and, one after the other, the grant and the revocation it overtakes; `GitTrustAuthorities.cfg` (not in
`PROJECT.json`; 2.4 M states) checks the same properties with two authorities, on fjall and without failures. In `FileStorage` two writers, the sync task and one
mishap are all the actors the code has but more of the same; `MaxTime` bounds mtimes, and `Room` keeps it
from stopping a write half-way. Two requests are enough for `Capabilities` since the lock admits one at a time
and a second can only wait or be refused. `Server` has one process; three mishaps let an outage, a failing listener and a crash
follow each other, and two rotations let the cache be two versions behind. In `TrqlClient` two requests and a demux are all that a stray reply, a waiter and a
timeout need. The symmetry sets permute keys, tasks, clients and
values, which no definition tells apart; runs with a temporal property use none (the action properties
of `DedupSafety`, `Storage`, `FileKept` and `GitTrust` are checked step by step and are themselves symmetric).

**Deadlock** is checked except where the system may really stop: in the passing runs of `FileStorage`, when
the process ended while the file does not parse (`try_new` fails) or, in the runs' bounded time, when no
mtime is left; in `Delivery` and `TrqlClient`, when the bounded number of messages or requests has been dealt with; in `Server`, when an
embedding host does nothing more with a process whose tasks have ended.

**Fairness.** `MessageDedup`: handlers run on and resolve (Tokio polls a woken task; storage calls have
time-outs of their own), time passes, and a document without a definitive answer keeps being sent: the
senders' side of at-least-once delivery, without which nothing could be promised. `Delivery`: the sync comes round every 30 seconds and
fetches each message again and again for as long as it is there (strong fairness per envelope: a batch of the limit's size need not contain it each
time), a batch is acknowledged or fails to be, started tasks run on, and a supervisor restarts the process. Of the live stream nothing is assumed.
`FileStorage`: the sync
task loops for as long as the process runs, a call that has begun to write ends, and a process that can
start is started. Nothing is assumed of edits, crashes, failures or new calls. `Server`: whoever starts the process starts it again; checks,
connection (ten seconds at most) and the branches of `join` run on. `TrqlClient`: timers elapse and the steps of a started exchange are taken; nothing is assumed
of registry, mediator or demux.

**The mutants** in `PROJECT.json` check the checks: each property has a mistaken variant of one definition
(marked "Mistaken" in the module) under which its run fails.

### The properties

* `TypedInv` (with `OneOwner`, `AppliedOncePerMishap`): the state is well formed; at most one handler
  owns a key's claim; a document is applied once, and once more at most for each thing that went wrong.
* `AnswersAgree`, `EventuallyAnswered`: one document, one answer; and it comes.
* `ImplementsWriteOnce` (of `MessageDedup` and of `Delivery`): no step applies a document while an application of it is remembered.
* `NothingVanishes`, `HandledEventually`: every message sent is in the mailbox, in the hands of a task, or has met one of the ends `fates` names; and in the end it
  meets one.
* `AcknowledgedWereApplied`: the sender of an issued document is given the answer to that very document, and "ok" for a write means that it changed the
  repository, be it through another copy.
* `OnlyAuthorisedEffects`: changes are made for administrators, and by Trust Tasks only with a valid proof.
* `AuditedBeforeAnswered`: a tr-admin answer is in the log first, and no logged success is untrue.
* `Linearizable`: with Redis, and with fjall and one client, `KeyValueStorage` implements `RecordStore`, variables under their own names.
* `EventuallyConsistent`: with DynamoDB it implements `EventualStore`: writes are decided and done on the table, whatever was read; a read, and a list put together
  from pages between which others write, shows of each record something it holds or has held, and of none too few.
* `BackendsAgree`: whatever records come and go, a backend with joined keys answers as one that keeps the names.
* `AcknowledgedKept`: an accepted write is in memory and in the file unless one of four named events
  happened: overlapping writers, a sync that read while a change was on its way, a stop or failure
  between truncating and writing, an edit.
* `CallsAreAtomic`: outside those, and outside the moment the sync task installs a table, what clients see of the memory is
  `RecordStore!Next`.
* `EditsServed`: an edit that stays the file's last change and parses is served for good.
* `ServedIsPersisted`, `AnswersHold`: surfaces equal the file but while a saved request swaps them;
  the last answer about a capability stays true everywhere until its next transition.
* `GrantsFollowConfig`, `RevocationHolds`: tasks work under the configuration the answers promised; a
  confirmed revocation is undone by an administrator's own write only, or on fjall by a grant that found no record before it was there.
* `RevokeOnlyMarksUnlessRaced`: a revocation finds the record it read and changes its authorization and nothing else, unless an administrator (or on fjall such a
  grant) wrote it in between; on DynamoDB, whose read may be of any age, unless an administrator ever wrote it.
* `HealthAgrees`, `WritesUpOrReported`: `/health` reports no fault that is none; in production the listener comes up or its end is reported.
* `AdvertisedIsServed`: without an override, a registry that listens answers what it advertises.
* `NoOtherIdentity`, `SurvivesVtaOutage`: the first configured source gives the identity or the start fails; once the store has kept a deployment's keys, no start
  without the VTA lacks an identity unless the store fails at that moment, whatever happened to other starts; and it has the newest keys, unless the store would not take those.
* `ReadsSurvive`: nothing the listener does ends HTTP.
* `ImplementsRequestReply`, `FastReplyKept`, `AckedWereHanded`: a request ends once, with what the registry replied to it, and blames the registry only for what it sent; the reply to a request that still waits is on its way; over DIDComm
  only replies that were handed over are deleted.
* `NoWaiterLeaks`, `EveryExchangeEnds`: only dropped exchanges leave a waiter behind; each exchange ends whatever the registry does.
* `BestSharedTransport`: the client uses a transport the document advertises, at an endpoint advertised for it, and passes over one it prefers only where no service
  advertises that but beside a type more preferred still.

## 4. Disagreements found

`StorageFjallTwice` checks what a test says and finds it violated: "duplicate create fails" (`fjall_storage.rs:190`) holds for
calls in sequence, not for two concurrent creates. (`CreatesFillVacancies`: on the other backends it holds for those, too.)

Ten more configurations show a disagreement of a comment, a doc or a test with the code; TLC finds the named property violated:

| Configuration | Module | Property | What is said, and what happens |
| --- | --- | --- | --- |
| `DedupTwice.cfg` | `MCMessageDedup` | `NeverMutatesTwice` | A redelivery "never mutates the registry twice" (`dedup/mod.rs:275`). It does after a backend failed once it had applied the write: the outcome is retryable, the claim is released, the retry runs. (`AppliedOncePerMishap` is what holds; `NeverMutatesTwiceUnlessFailed`.) |
| `FileReload.cfg` | `MCFileStorage` | `OwnWritesNotReloaded` | `last_modified` is set "to prevent reload" (`csv_file_storage.rs:201`), but a sync during the write still loads the half-written file. (`ReloadChangesNothing` is the half that holds.) |
| `RecordKeysFragments.cfg` | `MCRecordKeys` | `BackendsAgree` | A query names a record by four names (`storage/repository.rs:7-12`). Where the keys are joined, a `#` in the resource and a `#` in the entity give two records one key (`domain/key.rs:21`); `local_storage.rs` keeps them apart. |
| `GitRevokeOverwrites.cfg` | `MCGitTrust` | `RevokeOnlyMarks` | A revocation only marks the record (`git_trust.rs:196`), but puts back everything else as it was read. (`RevokeOnlyMarksUnlessRaced` is the half that holds.) |
| `GitRevokeUndone.cfg` | `MCGitTrust` | `RevocationFinal` | A grant is refused where there is a record (`git_trust.rs:142-149`, "duplicate create fails"). On fjall a grant that found none is put over the record another created and a revocation has marked: the member is authorized again. (`RevocationHolds` is what holds, `RevocationFinalWithoutFjall` the rest.) |
| `TrqlUnreadable.cfg` | `MCTrqlClient` | `UnreadableIsReported` | An unreadable reply is a contract violation, "never silently dropped" (`src/trql-client/src/transport.rs:44-46`). Both mediated transports drop it, and the caller gets a timeout. (The other way round it holds: `GoodRegistryNeverBlamed`.) |
| `TrqlDowngrade.cfg` | `MCTrqlClient` | `NeverDowngrades` | "the highest-preference protocol both sides speak", "Never silently downgrade" (`src/trql-client/src/discovery.rs:5-6`, `15-17`). A service entry of the types TSP and DIDComm counts for TSP alone (`discovery.rs:164-170`): a client of DIDComm and HTTPS takes HTTPS, one of DIDComm alone is told that nothing is shared. (`BestSharedTransport` is what holds.) |
| `ServerOkMeansListening.cfg` | `MCServer` | `OkMeansListening` | "ok" means the listener is running (`health.rs:24`), but it is set when the server starts, before the listener's checks and connection. (Of its end `OkUntilJoined` is the half that holds.) |
| `ServerShutdownStopsListener.cfg` | `MCServer` | `ShutdownStopsListener` | The listeners observe the shutdown token (`server.rs:69`), but the receive loop does not, and `join` returns when HTTP has ended. |
| `ServerWithoutVta.cfg` | `MCServer` | `StartsWithoutItsVta` | The bundle is cached "so the Trust Registry survives the VTA being briefly offline" (`configs/vta.rs:9`). It does not where no secret store can be opened, or the store failed when the bundle was to be kept or is wanted. (`SurvivesVtaOutage` is what holds.) |

`StorageDynamoDb.cfg` (`MCKeyValueStorage`) shows with one client why DynamoDB is compared with `EventualStore`: `OneTable`, that it is a `RecordStore`, is violated by a
caller that misses its own write. No doc of the repository says otherwise.

Observed while modelling:

* A listener that failed is reported by `/health` as "exited cleanly", since its own result is discarded (`server.rs:205`).
* `registry/did/rotate` over DIDComm passes the deduplication by and is carried out once per delivery
  (`didcomm/handlers/trust_tasks/mod.rs:174`), though `dedup/mod.rs:12` counts it among what is deduplicated. Over TSP it is rejected as unknown.
* A `DID_DOCUMENT` override may advertise transports whose flags are off (`did_document.rs:96-98` says that cannot be).
* The branch "reply demux task stopped" (`src/trql-client/src/didcomm.rs:129-134`) is never taken: the senders outlive the demux in the shared map.
* The rotation of a VTA's keys reaches neither the running listener nor the cache before the next start (`configs/vta.rs:132-170`); a
  provisioned profile and the cached bundle overwrite each other.
* An embedded server whose host never calls `join` never marks writes unavailable (`server.rs:85`): `WritesUpOrReported` is about production.
* A handler slower than the in-flight window loses its claim to another copy, and its `complete` or `release` then
  resolves the other's claim (`dedup/mod.rs:226-251` do not check who holds it). `WellTuned` excludes it; the 60 s
  window is meant to (`dedup/mod.rs:65`).
* An edit made between a call's write and its `metadata` request gets the call's mtime check, and is never loaded
  (`csv_file_storage.rs:202`); `src/README.md:234` promises automatic synchronisation. `FileEdits` therefore has no writing calls.
* After a save failed, enabling again answers `already_enabled` although no surface serves the capability
  (`capabilities/mod.rs:220`); only a disable or a restart gets out of it.
* A grant after a revocation answers `already_granted: an active grant exists` (`git_trust.rs:145`): the revoked
  record is still there.

## 5. The proofs

`MessageDedupProofs` proves, for any sets of keys and tasks and any windows:

* `TypeCorrect`: `Spec => []TypedInv`;
* under `WellTuned` (a handler ends before its claim expires, and outcomes are kept at least as long as
  copies keep coming) `DedupInvariant`: `Spec => []DedupInv`, and from it `OneOwnerHolds`,
  `AppliedOncePerLapseHolds` and `AnswersAgreeHolds`; and `ImplementsWriteOnceHolds`: `Spec => Promise!Spec`;
* `MishapsInvariant`: `Spec => []MishapsInv`, whatever the windows; with `AppliedOncePerLapseHolds` it gives `AppliedOncePerMishapHolds`,
  and, if nothing may fail, `NeverMutatesTwiceUnlessFailed`: what `dedup/mod.rs:275` says of redelivery.

Assumptions: `WindowsAssumption`, `NoKeyAssumption`, `MishapsAssumption` of `MessageDedup`, which TLC evaluates in its
runs. `WellTuned` is a hypothesis of the theorems, not an assumption of the module; without it `OneOwner` is false.

The argument. None of the three properties is inductive. Two owners could arise if an owner's entry were gone
from the store, so `ClaimInv` ties each owner to an in-flight entry *of the same age*: then a claim cannot expire
before `HandlerBound` forces its owner to resolve it, and nobody else can acquire the key. A redelivered copy
could apply a document again if the stored outcome had expired, so `RecordedInv` says that while copies still
arrive the outcome is stored and no older than its recording. `AccountInv` then compares `applied` with `lapses`:
they differ by at most one, and that one is accounted for by the stored outcome or by the owner about to store
it. `AnswersInv` says that answers given so far equal the stored outcome. `DedupInv` is their conjunction with
`TypedInv`; each lemma shows that a step preserves one part from all of `DedupInv`, action by action.
`OutcomesInv`, part of `TypedInv`, is what lets a retryable outcome and a success be told apart in the account. The refinement needs the account
once more, before a step: a claim's owner that is about to mutate has `applied <= lapses`, which is `WriteOnce`'s guard.

A lapse is noted later than its cause. So `MishapsInv` counts the tasks that met a failure which may still cost document `k` an application (`Owing(k)`): those a store fault
let in without a claim, until they mutate, and those that failed transiently after they mutated, until they release the claim. `lapses[k]` and their number together do not
exceed `mishaps`: a task joins them with a mishap of its own, noting the lapse moves it from one summand to the other, and a restart adds one lapse at most and dismisses all tasks.

`KeyValueStorageProofs` proves, for any clients, keys and values (assumptions: `NoneAssumption` of `Records`,
`BackendAssumption`):

* `TypeCorrect`: `Spec => []TypeOK`, with any of the three adapters;
* `AloneInvariant`: `Spec => []AloneInv`, and `CallsAloneLinearizable`: `Spec => Linearizable`, about Redis with any clients and fjall with one;
* `PagesInvariant`: `Spec => []PagesInv`, and `DynamoDbEventuallyConsistent`: `Spec => EventuallyConsistent`, about DynamoDB with any clients;
* `CreatesFillVacancies`: `Spec => CreateFillsVacancy` if fjall is not among the backends. `StorageFjallTwice` is the case that is left.

The argument for `Linearizable`. A write that has tested its key, or a list that is half through, is under way while others
want to write. `AloneInv` says that such a call holds the lock, if there is one, or else has no rival (`OneAtATime`), and so that what it has learnt is still true: the verdict
on a tested key is `ok`, the page shows what the keys passed so far hold. The SET is then the abstract write, the end of the SCAN
the abstract list, and all other steps are invisible; `SameRecords` shows that the abstract module's copies of the operators
of `Records` are those of `Records`. None of this is so on DynamoDB. There a write tests and writes in one request, and a list is invisible until its end, which is the abstract
`Look`: `PagesInv` says that what the pages so far showed is among what the records have held, which only grows.

`BackendsAgreeHolds` (assumption: `RecordKeysAssumption`) says of `RecordKeys`, for any records in which only the entity's identifier may
contain a `#` (`PlainNames`, a hypothesis), that `NamedSpec => []BackendsAgree`. `FirstSeparator` shows that the first `#` of a joined name tells where
a plain name ends, `SortKeysDiffer` peels off the names one by one, so that `sk` is one-to-one, and then both tables take each write at the place of
the same record. The entity may contain anything, since it comes last.

`CapabilitiesProofs` proves `CapabilitiesInvariant`: `CapabilitiesSpec => []CapabilitiesInv`, and from it
`CapabilitiesTypeCorrect`, `ServedIsPersistedHolds`, `AnswersHoldHolds` and `RestartServesTheSameHolds` (an action property: a restart at any moment serves what
was served, or completes the one request that had saved), for any capabilities, requests and
configurations (assumption: that of `Capabilities` on its constants). None but the first is inductive: while a request is between its save and
its swaps the surfaces differ from the file. `HolderInv` says which request that is and how far it has come, by the
holder of the lock; `MemoryInv` how far the state in memory may be from the file after a save failed; `ValidatedInv`
that what a waiting request is about to install was validated.

`GitTrustProofs` extends them to the composition (assumption: `GitTrustAssumption`): `GitInvariant`, `GitTypeCorrect`, `RevocationHoldsAlways`,
`GrantsFollowConfigAlways` and `RevokeOnlyMarksHolds`. `GitInv` joins `CapabilitiesInv`, `TypeOK` and the two properties. `RevocationHolds` is kept since a
record that was revoked is there, so that a grant that is put nevertheless overtakes it, and since a revocation writes the authorization anew whatever it
read before; `GrantsFollowConfig` is established at a dispatch by `AnswersHold` of the capability set, and `TypeOK` ties
the key a task writes to the configuration it was dispatched with. `RevocationFinalWithoutFjall`: where a create is one step nothing is ever overtaken.
`RevokeOnlyMarksUnlessRaced` rests on `ReadsHold`: as long as no administrator and no delayed grant wrote it, the record a
revocation has read is there with the details it read, since other grants create only what is missing, other revocations keep the details, and no code of the capability
deletes; on DynamoDB a record no administrator ever wrote has only ever held the details of a grant (`Untouched`), so that an old read shows nothing else.

`ServerProofs` (assumption: `ServerAssumption`) proves `ServerInvariant`, `ServerTypeCorrect`, `HealthAgreesHolds`, `AdvertisedIsServedHolds`,
`NoOtherIdentityHolds` and `ReadsSurviveHolds`, for any environments, attempts and rotations. The invariant says what each stage of the process implies: a
process that is down has no tasks and no configuration; a configuration is the one its environment gives; `unavailable` was set by `join` after the listener ended, and
`ended` is where a listener stays. `NoOtherIdentity` needs that the store changes under a running process by nobody but its own cache.

`SurvivesVtaOutageHolds` rests on an invariant of its own, `OutageInv`: a bundle once kept stays while the deployment does, is the newest there was unless the store
would not take that (`unkept`), and is never newer than the VTA; and a store that answers gives it. `OkUntilJoinedHolds` adds `JoinInv`: `join` goes on
without the listener only once it has told `/health`, and a supervisor that nobody started means a host.

`DeliveryProofs` (assumptions: `DeliveryAssumption`, `NoneAssumption`) proves `DeliveryInvariant`, `DeliveryTypeCorrect`, `NothingVanishesHolds`,
`OnlyAuthorisedEffectsHolds`, `AuditedBeforeAnsweredHolds`, `AcknowledgedWereAppliedHolds`, `DeliveryImplementsWriteOnce` and `DeliveryAppliedOncePerMishap`, for any clients, messages,
batches and failures. `DeliveryInv` follows a message: `SentInv` says that nothing is kept, done or noted of a message that was not sent, `KeptInv` that a batch is
acknowledged when its messages are in somebody's hands, `TaskInv` what a task knows at each of its stages (one past the checks has
a message without fault, one at the answer has its audit entry), `ClaimInv` that a claimed document is claimed by one task, `StoredInv` that a
stored outcome is that of a copy of the document. `AccountInv` compares `applied` with
`lapses`, as in `MessageDedupProofs`, with `Remembered` for what a claim or a stored outcome accounts for; a task about to dispatch has nothing remembered of its
document, which is the guard of `WriteOnce`. `FailuresInv` charges each lapse to a crash or a failure of the storage (`Charged`): a task that applied a document and failed has used up
one that no lapse of the document is charged to yet (`Owes`), and by `ClaimInv` there is one such task at most. Undeleted frames, lost acknowledgements, transient
resolver failures and unsent replies are charged nothing.

`FileStorageProofs` (assumptions: `FileAssumption`, `NoneAssumption`) proves `FileInvariant`, `FileTypeCorrect`, `AcknowledgedKeptHolds`,
`CallsAreAtomicHolds`, `ReloadChangesNothingHolds`, `ExcusesFoundedHolds` and `SerialWritesKept`, for any clients, keys and values. As long as there is no excuse, one call at a time has a copy of the memory that is not in the file (`OneWriter`),
and what the sync task has loaded is what the file holds and no change is on its way (`FreshSync`). Then the memory agrees with the accepted calls
(`MemoryAgrees`), a copy does but for the calls that came after it (`CopiesAgree`), and so does the file but for the calls still to write it
(`FileAgrees`): `Settled` names the keys none of these work on. For `CallsAreAtomic` it is enough that a write shows its caller nothing.
The same invariant says that what the sync task is about to install is the memory but for the keys whose writing failed (`ReloadChangesNothing`: the half of the comment at
`csv_file_storage.rs:201` that holds). `ExcusesFounded` asks what each excuse takes (a second caller, the sync task, an administrator, a stop or failure), with `SyncRuns` for a sync task
that is not there; so one caller without sync and edits loses an accepted write only to a stop or failure while the file is being written (`SerialWritesKept`).

`TrqlClientProofs` (assumptions: `ClientAssumption`, `NoneAssumption`) proves `ClientInvariant`, `ClientTypeCorrect`, one theorem for each of the safety
properties of `TrqlClient` (`OwnReplyHolds`, `FastReplyKeptHolds`, `AckedWereHandedHolds`, `NoWaiterLeaksHolds`, `BestSharedTransportHolds`, `GoodRegistryNeverBlamedHolds`) and
`ImplementsRequestReplyHolds`: `Spec => Exchanges!Spec`, for any requests, DID documents and replies. `FastReplyKept` is the one with an argument: a reply that was given and is not
spoiled is in the inbox, at the demux, in a channel, or was handed over, or its request has stopped waiting; so `KeptInv` follows each reply through these places,
`WaiterInv` says that a request which waits has its waiter in the map unless the demux has taken it out for the very reply it holds, and `AckedInv` that a
reply is deleted from there on only. `BestSharedTransport` needs that the smallest index of a nonempty set of positions exists
(`WFMin` of the library), and that what a document advertises and the code does not find is found as something better. For the refinement `DocumentsInv` says that whatever a channel or a request that has received it holds, the registry gave; then the
step that ends a request is `End`, over HTTPS together with the reply that ends it, and every step of the demux is invisible. `GoodInv` follows a reply of a good registry to the request it
answers: it is never handed to another one.

Only model-checked: liveness (`EventuallyAnswered`, `EditsServed`, `HandledEventually`, `WritesUpOrReported`, `EveryExchangeEnds`), which is out of the
prover's reach, as is everything with `ENABLED`; and the violations. Every safety property that a passing run checks has a theorem. Some theorems state more than the runs check; each of their
properties (`OwnReply`, `AppliedOncePerLapse`, `CreateFillsVacancy` of Redis and DynamoDB, `RevocationFinal` of DynamoDB, `ReloadChangesNothing`, `ExcusesFounded`, `GoodRegistryNeverBlamed`, `OkUntilJoined`,
`RestartServesTheSame`, `AppliedOncePerMishap` of `Delivery`, `TypeOK` of `GitTrust` and of `KeyValueStorage`, `NamedTypeOK`) can be put into the configuration of its module
to be checked there.

## 6. What is not modelled

Wording, layout and logging anywhere; the setup tools but for the profile they leave behind; the test programs and the empty TRQP stub. Cryptography, the
resolution of DIDs and the messaging library appear as steps that succeed or fail. Of a record only the key and an opaque value
are kept, but for `RecordKeys`: what CSV cannot express of a context (`csv_file_storage.rs:333`) and the merging of contexts are conversions of that value. `GitTrust` has the three key-value adapters; on the CSV file, whose memory is behind one lock
but which loses accepted writes as `FileStorage` says, a grant or revocation is lost with the record it wrote. What the VTA's library does when a bundle cannot be kept is not
part of the repository: the model lets it give up or go on. The HTTP surface keeps no state beyond the dispatchers and the server's task. The
wall clock only goes forward. `Delivery` and `MessageDedup` are not composed: the first has the store without time, the second one document's copies without the
mailbox, and `WriteOnce` is what they have in common. The access list sent to the mediator when the listener starts, and the mediator's own limits, are left out.

## 7. Open ends

What a next step would add: the contexts of records as values of several shapes, with what the CSV file and the merging make of them; a composition of `Delivery`
with the clock of `MessageDedup`; and of `Delivery` with `KeyValueStorage` in place of repository calls of one step.

## 8. Running everything

    tlasany MessageDedup.tla
    tlc -workers 2 -config DedupSafety.cfg MCMessageDedup
    tlapm MessageDedupProofs.tla        (and the other *Proofs modules)

`PROJECT.json` lists every run with its module and configuration; the configurations of section 4 run the same way and end in a
counterexample.
