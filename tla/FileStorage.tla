----------------------------- MODULE FileStorage -----------------------------
(***************************************************************************)
(* The repository in a CSV file: FileStorage.  Records are served from     *)
(* memory.  A write changes the memory under its lock, and only then       *)
(* writes the whole table to the file, in steps no lock joins:             *)
(*                                                                         *)
(*   snapshot the memory, truncate the file, write it, read its mtime,     *)
(*   remember that mtime as last_modified                                  *)
(*                                                                         *)
(* Meanwhile a sync task reloads the file whenever its mtime is newer than *)
(* last_modified, an administrator edits the file, and the process stops   *)
(* and starts.                                                             *)
(*                                                                         *)
(* The file is the table it parses to, or Garbled; a file opened for       *)
(* writing is an empty table.                                              *)
(***************************************************************************)
EXTENDS Records, Integers, FiniteSets

CONSTANTS
    Garbled,      \* a file that does not parse
    Offered,      \* bound: the operations clients call
    Environment,  \* what happens besides clients' calls
    CoarseClock,  \* whether two changes of the file may have the same mtime
    MaxTime,      \* bound on the file's mtime
    MaxMishaps    \* bound on crashes and failures

ASSUME FileAssumption ==
    /\ Garbled \notin [Keys -> Values \union {None}]
    /\ Offered \subseteq Ops
    /\ Environment \subseteq {"sync", "edit", "crash", "failure"}
    /\ CoarseClock \in BOOLEAN
    /\ MaxTime \in Nat /\ MaxMishaps \in Nat

VARIABLES
    records,       \* memory: the table served
    last_modified, \* memory: the mtime of the file as last seen
    file,          \* the file: what it parses to, its mtime, and (history) whether
                   \* its last change was an administrator's
    calls,         \* each client's current call
    writing,       \* how far write_to_file has come for each client
    sync,          \* the sync task
    up,            \* whether the process runs
    mishaps,       \* how many crashes and failures happened
    expected,      \* history: the table according to the accepted calls
    doubtful,      \* history: keys one of whose writes failed in the file
    excuses        \* history: the races and failures that may lose a record

vars == <<records, last_modified, file, calls, writing, sync, up, mishaps,
          expected, doubtful, excuses>>

memory == <<records, last_modified>>
history == <<expected, doubtful, excuses>>

Tables == Table
Contents == Tables \union {Garbled}
Times == 0..MaxTime

\* The stages of write_to_file; "none" outside it.
Stages == {"none", "mutated", "snapshot", "opened", "written", "stamped"}
Writing == [stage : Stages, table : Tables, modified : Times]
NotWriting == [stage |-> "none", table |-> EmptyTable, modified |-> 0]

Sync == [pc : {"asleep", "woken", "changed", "loaded", "installed"},
         previous : Times, modified : Times, table : Tables]
Asleep == [pc |-> "asleep", previous |-> 0, modified |-> 0, table |-> EmptyTable]

At(c, stage) == writing[c].stage = stage

\* Calls whose change of the memory is not in the file yet.
Unsaved == {c \in Clients : writing[c].stage \in {"mutated", "snapshot", "opened"}}

Init ==
    /\ records \in Tables
    /\ file = [content |-> records, mtime |-> 0, edited |-> FALSE]
    /\ last_modified = 0
    /\ calls = [c \in Clients |-> NoCall]
    /\ writing = [c \in Clients |-> NotWriting]
    /\ sync = Asleep
    /\ up = TRUE
    /\ mishaps = 0
    /\ expected = records
    /\ doubtful = {}
    /\ excuses = {}

\* The file system stamps a change of the file.
Stamped(content, edited) ==
    \E time \in {file.mtime, file.mtime + 1} :
        /\ time <= MaxTime
        /\ CoarseClock \/ time > file.mtime
        /\ file' = [content |-> content, mtime |-> time, edited |-> edited]

\* Bound: a change of the file may begin only if all that have begun can end
\* within MaxTime.
Room(changes) ==
    LET begun == {c \in Clients : calls[c].op \in Writes /\ calls[c].answer = "pending"}
    IN CoarseClock \/ file.mtime + changes + 2 * Cardinality(begun \union Unsaved) <= MaxTime

Excuse(condition, kind) == IF condition THEN {kind} ELSE {}

-----------------------------------------------------------------------------
(* Calls                                                                   *)

Invoke(c, op, k, v) ==
    /\ up
    /\ calls[c].op = "none"
    /\ Arguments(op, k, v)
    /\ op \in Writes => Room(2)
    /\ calls' = [calls EXCEPT ![c] = NewCall(op, k, v)]
    /\ UNCHANGED <<memory, file, writing, sync, up, mishaps, history>>

\* (Mistaken: only create and update write the file.)
MutateUnsavedDelete(c) ==
    LET call == calls[c]
        verdict == Verdict(call.op, call.key, records)
        accepted == call.op \in Writes /\ verdict = "ok"
    IN
    /\ call.answer = "pending"
    /\ calls' = [calls EXCEPT ![c].answer = verdict,
                              ![c].seen = Shown(call.op, call.key, records)]
    /\ records' = Written(call.op, call.key, call.value, records)
    /\ IF accepted
       THEN /\ writing' = IF call.op = "delete" THEN writing
                          ELSE [writing EXCEPT ![c].stage = "mutated"]
            /\ expected' = [expected EXCEPT ![call.key] = call.value]
            /\ excuses' = excuses \union Excuse(sync.pc = "loaded", "staleSync")
       ELSE UNCHANGED <<writing, expected, excuses>>
    /\ UNCHANGED <<last_modified, file, sync, up, mishaps, doubtful>>

\* Under the memory's lock: a read or list is served; a write is refused, or
\* changes the memory (from here on everybody sees it).
Mutate(c) ==
    LET call == calls[c]
        verdict == Verdict(call.op, call.key, records)
        accepted == call.op \in Writes /\ verdict = "ok"
    IN
    /\ call.answer = "pending"
    /\ calls' = [calls EXCEPT ![c].answer = verdict,
                              ![c].seen = Shown(call.op, call.key, records)]
    /\ records' = Written(call.op, call.key, call.value, records)
    /\ IF accepted
       THEN /\ writing' = [writing EXCEPT ![c].stage = "mutated"]
            /\ expected' = [expected EXCEPT ![call.key] = call.value]
            /\ excuses' = excuses \union Excuse(sync.pc = "loaded", "staleSync")
       ELSE UNCHANGED <<writing, expected, excuses>>
    /\ UNCHANGED <<last_modified, file, sync, up, mishaps, doubtful>>

Snapshot(c) ==
    /\ At(c, "mutated")
    /\ writing' = [writing EXCEPT ![c].stage = "snapshot", ![c].table = records]
    /\ excuses' = excuses \union
          Excuse(\E d \in Clients : At(d, "snapshot") \/ At(d, "opened"), "overlap")
    /\ UNCHANGED <<memory, file, calls, sync, up, mishaps, expected, doubtful>>

\* tokio::fs::write opens the file, which empties it, ...
Truncate(c) ==
    /\ At(c, "snapshot")
    /\ writing' = [writing EXCEPT ![c].stage = "opened"]
    /\ Stamped(EmptyTable, FALSE)
    /\ UNCHANGED <<memory, calls, sync, up, mishaps, history>>

\* ... and writes from its start: over what another call wrote there since, if
\* any, leaving the tail of a longer file in place.
Overlaid(table, content) ==
    IF content = EmptyTable THEN {table}
    ELSE {table, Garbled} \union
         IF content = Garbled THEN {}
         ELSE {[k \in Keys |-> IF k \in tail THEN content[k] ELSE table[k]] :
                  tail \in SUBSET {k \in Keys : content[k] # None}}

WriteOut(c) ==
    /\ At(c, "opened")
    /\ writing' = [writing EXCEPT ![c].stage = "written"]
    /\ IF writing[c].table = EmptyTable THEN UNCHANGED file
       ELSE \E content \in Overlaid(writing[c].table, file.content) : Stamped(content, FALSE)
    /\ UNCHANGED <<memory, calls, sync, up, mishaps, history>>

\* The mtime is asked for, whoever changed the file last.
Stat(c) ==
    /\ At(c, "written")
    /\ writing' = [writing EXCEPT ![c].stage = "stamped", ![c].modified = file.mtime]
    /\ UNCHANGED <<memory, file, calls, sync, up, mishaps, history>>

\* (Mistaken: the memory is set to what was written.)
FinishWithSnapshot(c) ==
    /\ At(c, "stamped")
    /\ last_modified' = writing[c].modified
    /\ records' = writing[c].table
    /\ writing' = [writing EXCEPT ![c] = NotWriting]
    /\ UNCHANGED <<file, calls, sync, up, mishaps, history>>

Finish(c) ==
    /\ At(c, "stamped")
    /\ last_modified' = writing[c].modified
    /\ writing' = [writing EXCEPT ![c] = NotWriting]
    /\ UNCHANGED <<records, file, calls, sync, up, mishaps, history>>

Mishap(kind) ==
    /\ kind \in Environment
    /\ mishaps < MaxMishaps
    /\ mishaps' = mishaps + 1

\* (Mistaken: the error is reported, and the rest of the method runs.)
FailAndGoOn(c) ==
    /\ writing[c].stage \in {"snapshot", "opened", "written"}
    /\ Mishap("failure")
    /\ calls' = [calls EXCEPT ![c].answer = "failed"]
    /\ UNCHANGED <<memory, file, writing, sync, up, history>>

\* Opening, writing or examining the file fails: the caller gets an error, the
\* memory keeps the change.
Fail(c) ==
    /\ writing[c].stage \in {"snapshot", "opened", "written"}
    /\ Mishap("failure")
    /\ writing' = [writing EXCEPT ![c] = NotWriting]
    /\ calls' = [calls EXCEPT ![c].answer = "failed"]
    /\ doubtful' = doubtful \union {calls[c].key}
    /\ excuses' = excuses \union Excuse(At(c, "opened"), "tornFile")
    /\ UNCHANGED <<memory, file, sync, up, expected>>

Return(c) ==
    /\ calls[c].op # "none"
    /\ calls[c].answer # "pending"
    /\ At(c, "none")
    /\ calls' = [calls EXCEPT ![c] = NoCall]
    /\ UNCHANGED <<memory, file, writing, sync, up, mishaps, history>>

-----------------------------------------------------------------------------
(* The sync task: load_if_modified, then the two locks one after the other *)

SyncWake ==
    /\ "sync" \in Environment /\ up
    /\ sync.pc = "asleep"
    /\ sync' = [sync EXCEPT !.pc = "woken", !.previous = last_modified]
    /\ UNCHANGED <<memory, file, calls, writing, up, mishaps, history>>

SyncStat ==
    /\ sync.pc = "woken"
    /\ sync' = IF file.mtime > sync.previous
               THEN [sync EXCEPT !.pc = "changed", !.modified = file.mtime]
               ELSE Asleep
    /\ UNCHANGED <<memory, file, calls, writing, up, mishaps, history>>

\* A file that does not parse is reported in the log and looked at again later.
SyncRead ==
    /\ sync.pc = "changed"
    /\ sync' = IF file.content = Garbled THEN Asleep
               ELSE [sync EXCEPT !.pc = "loaded", !.table = file.content]
    /\ excuses' = excuses \union Excuse(Unsaved # {}, "staleSync")
    /\ UNCHANGED <<memory, file, calls, writing, up, mishaps, expected, doubtful>>

SyncInstall ==
    /\ sync.pc = "loaded"
    /\ records' = sync.table
    /\ sync' = [sync EXCEPT !.pc = "installed"]
    /\ UNCHANGED <<last_modified, file, calls, writing, up, mishaps, history>>

\* (Mistaken: the mtime is asked for after the file was read.)
SyncStampNow ==
    /\ sync.pc = "installed"
    /\ last_modified' = file.mtime
    /\ sync' = Asleep
    /\ UNCHANGED <<records, file, calls, writing, up, mishaps, history>>

SyncStamp ==
    /\ sync.pc = "installed"
    /\ last_modified' = sync.modified
    /\ sync' = Asleep
    /\ UNCHANGED <<records, file, calls, writing, up, mishaps, history>>

-----------------------------------------------------------------------------
(* The environment                                                         *)

\* An administrator saves another version of the file.
Edit(content) ==
    /\ "edit" \in Environment
    /\ content # file.content
    /\ Room(1)
    /\ Stamped(content, TRUE)
    /\ excuses' = excuses \union {"edit"}
    /\ UNCHANGED <<memory, calls, writing, sync, up, mishaps, expected, doubtful>>

\* The process stops.  A call it interrupts may or may not have reached the file.
Crash ==
    LET interrupted == {calls[c].key : c \in {d \in Clients : ~At(d, "none")}} IN
    /\ up
    /\ Mishap("crash")
    /\ up' = FALSE
    /\ records' = EmptyTable
    /\ last_modified' = 0
    /\ calls' = [c \in Clients |-> NoCall]
    /\ writing' = [c \in Clients |-> NotWriting]
    /\ sync' = Asleep
    /\ expected' = [k \in Keys |->
          IF k \in interrupted /\ file.content # Garbled THEN file.content[k] ELSE expected[k]]
    /\ excuses' = excuses \union Excuse(\E c \in Clients : At(c, "opened"), "tornFile")
    /\ UNCHANGED <<file, doubtful>>

\* try_new: without a file that parses the registry does not start.
Start ==
    /\ ~up
    /\ file.content # Garbled
    /\ up' = TRUE
    /\ records' = file.content
    /\ last_modified' = file.mtime
    /\ UNCHANGED <<file, calls, writing, sync, mishaps, history>>

Calls(c) ==
    \/ \E op \in Offered, k \in Keys \union {None}, v \in Values \union {None} :
          Invoke(c, op, k, v)
    \/ Mutate(c) \/ Snapshot(c) \/ Truncate(c) \/ WriteOut(c) \/ Stat(c) \/ Finish(c)
    \/ Fail(c) \/ Return(c)

SyncTask == SyncWake \/ SyncStat \/ SyncRead \/ SyncInstall \/ SyncStamp

Next ==
    \/ \E c \in Clients : Calls(c)
    \/ SyncTask
    \/ \E content \in Contents : Edit(content)
    \/ Crash
    \/ Start

Spec == Init /\ [][Next]_vars

\* The sync task is never stopped while the process runs, a call that writes the
\* file runs to its end, and a process that can start is started.
Fairness ==
    /\ WF_vars(SyncTask)
    /\ \A c \in Clients : WF_vars(Mutate(c) \/ Snapshot(c) \/ Truncate(c) \/ WriteOut(c)
                                    \/ Stat(c) \/ Finish(c))
    /\ WF_vars(Start)

FairSpec == Spec /\ Fairness

-----------------------------------------------------------------------------
(* Properties                                                              *)

TypeOK ==
    /\ records \in Tables
    /\ last_modified \in Times
    /\ file \in [content : Contents, mtime : Times, edited : BOOLEAN]
    /\ calls \in [Clients -> Call]
    /\ writing \in [Clients -> Writing]
    /\ sync \in Sync
    /\ up \in BOOLEAN
    /\ mishaps \in 0..MaxMishaps
    /\ expected \in Tables
    /\ doubtful \subseteq Keys
    /\ excuses \subseteq {"staleSync", "overlap", "tornFile", "edit"}
    /\ \A c \in Clients : ~At(c, "none") =>
          up /\ calls[c].op \in Writes /\ calls[c].answer = "ok"

\* Nothing an accepted call did is lost, neither from memory nor from the file
\* nor by a restart, unless one of four things happened: two calls were writing
\* the file at the same time, the sync task loaded it while a change was still
\* on its way there, the process stopped (or the disk failed) between emptying
\* the file and writing it, or an administrator changed it.
AcknowledgedKept ==
    excuses = {} =>
        \A k \in Keys \ doubtful :
            (\A c \in Clients : ~At(c, "none") => calls[c].key # k) =>
                /\ up => records[k] = expected[k]
                /\ (\A c \in Clients : ~At(c, "opened")) =>
                      file.content # Garbled /\ file.content[k] = expected[k]

\* What has to be there for an accepted call to be lost: two callers, or a sync task,
\* or an administrator, or a process that stops or a disk that fails between emptying
\* the file and writing it.
ExcusesFounded ==
    /\ "overlap" \in excuses => \E c, d \in Clients : c # d
    /\ "staleSync" \in excuses => "sync" \in Environment
    /\ "edit" \in excuses => "edit" \in Environment
    /\ "tornFile" \in excuses => Environment \intersect {"crash", "failure"} # {}

Store == INSTANCE RecordStore

\* But for the moments when the sync task installs a table, and for the process's
\* stops and starts, the memory is a table on which every call takes effect at
\* one moment: the slow, unlocked work on the file adds no effect of its own, and
\* a write it fails in may or may not have happened, as the caller is told.
CallsAreAtomic ==
    [][(<<records, calls>>' # <<records, calls>> /\ up /\ up' /\ ~SyncInstall) => Store!Next]_vars

\* What the comment in write_to_file says last_modified is for: "to prevent
\* reload".  Unless somebody else changed the file, the sync task never replaces
\* the memory by anything else than what is there already.
OwnWritesNotReloaded == [][SyncInstall => "edit" \in excuses \/ sync.table = records]_vars

\* The half of that which holds: as long as nothing that may lose a record has
\* happened, installing what the sync task loaded changes no record at all, but
\* those whose writing to the file failed.
ReloadChangesNothing ==
    [][SyncInstall /\ excuses = {} => \A k \in Keys \ doubtful : records'[k] = records[k]]_vars

\* "To synchronise the changes from data.csv [...] automatically": an edit that is
\* not overwritten is served in the end, if the file can be read.
EditsServed ==
    <>[](file.edited /\ file.content # Garbled => up /\ records = file.content)

=============================================================================
