-------------------------- MODULE FileStorageProofs --------------------------
(***************************************************************************)
(* Proofs about FileStorage: for any clients, keys and values, with or     *)
(* without the sync task, edits, crashes and failures, no accepted call is *)
(* lost without an excuse, no excuse is noted without a cause, a reload    *)
(* without an edit changes nothing, and every call takes effect at one     *)
(* moment.                                                                 *)
(***************************************************************************)
EXTENDS FileStorage, TLAPS

-----------------------------------------------------------------------------
(* The invariant                                                           *)

\* A write has a key and shows nothing, and no call outlives the process.
ArgumentsInv ==
    \A c \in Clients :
        /\ calls[c].op \in Writes => calls[c].key \in Keys /\ calls[c].seen = EmptyTable
        /\ calls[c].answer = "pending" => up

\* A call that has a copy of the memory which is not in the file.
Copied(c) == At(c, "snapshot") \/ At(c, "opened")

\* One call at a time copies the memory into the file, and while it does the file
\* is empty.
OneWriter ==
    /\ \A c, d \in Clients : Copied(c) /\ Copied(d) => c = d
    /\ \A c \in Clients : At(c, "opened") => file.content = EmptyTable

\* What the sync task has loaded is what it is about to replace.
FreshSync == sync.pc = "loaded" => Unsaved = {} /\ sync.table = file.content

\* A key that none of the calls C works on, and whose writes all succeeded.
Settled(k, C) == k \notin doubtful /\ \A c \in C : calls[c].key # k

Mutated == {c \in Clients : At(c, "mutated")}

\* Accepted writes are in the memory; in a copy of it, unless they came after;
\* and in the file, unless they are on their way there.
MemoryAgrees == up => \A k \in Keys \ doubtful : records[k] = expected[k]

CopiesAgree ==
    \A c \in Clients : Copied(c) =>
        \A k \in Keys : Settled(k, Mutated) => writing[c].table[k] = expected[k]

FileAgrees ==
    /\ file.content \in Tables
    /\ (\A c \in Clients : ~At(c, "opened")) =>
          \A k \in Keys : Settled(k, Unsaved) => file.content[k] = expected[k]

AgreeInv == OneWriter /\ FreshSync /\ MemoryAgrees /\ CopiesAgree /\ FileAgrees

KeptInv == excuses = {} => AgreeInv

FileInv == TypeOK /\ ArgumentsInv /\ KeptInv
-----------------------------------------------------------------------------
(* What the operators yield                                                *)

CallTypes == /\ calls \in [Clients -> Call] /\ writing \in [Clients -> Writing]
             /\ \A c \in Clients : ~At(c, "none") =>
                   up /\ calls[c].op \in Writes /\ calls[c].answer = "ok"

LEMMA MishapBounded ==
    ASSUME mishaps \in 0..MaxMishaps, NEW kind, Mishap(kind)
    PROVE  mishaps' \in 0..MaxMishaps
BY FileAssumption DEF Mishap

LEMMA EmptyType == EmptyTable \in Tables
BY DEF EmptyTable, Tables, Table

LEMMA StampedFacts ==
    ASSUME file \in [content : Contents, mtime : Times, edited : BOOLEAN],
           NEW content \in Contents, NEW edited \in BOOLEAN, Stamped(content, edited)
    PROVE  /\ file' \in [content : Contents, mtime : Times, edited : BOOLEAN]
           /\ file'.content = content
<1>1. PICK time \in {file.mtime, file.mtime + 1} :
         /\ time <= MaxTime
         /\ file' = [content |-> content, mtime |-> time, edited |-> edited]
  BY DEF Stamped
<1>2. time \in Times
  BY <1>1, FileAssumption DEF Times
<1> QED  BY <1>1, <1>2

LEMMA WrittenType ==
    ASSUME NEW op, NEW k \in Keys \union {None}, NEW v \in Values \union {None}, NEW t \in Tables
    PROVE  Written(op, k, v, t) \in Tables
BY DEF Written, Tables, Table

LEMMA VerdictType ==
    ASSUME NEW op, NEW k, NEW t
    PROVE  Verdict(op, k, t) \in {"ok", "exists", "notFound"}
BY DEF Verdict

LEMMA ShownFacts ==
    ASSUME NEW op, NEW k \in Keys \union {None}, NEW t \in Tables
    PROVE  /\ Shown(op, k, t) \in Tables
           /\ op \in Writes => Shown(op, k, t) = EmptyTable
<1>1. op \in Writes => op # "list" /\ op # "read"
  BY DEF Writes
<1>2. op = "read" => [EmptyTable EXCEPT ![k] = t[k]] \in Tables
  <2>1. CASE k \in Keys
    BY <2>1 DEF Tables, Table, EmptyTable
  <2>2. CASE k \notin Keys
    BY <2>2 DEF Tables, Table, EmptyTable
  <2> QED  BY <2>1, <2>2
<1> QED  BY <1>1, <1>2, EmptyType DEF Shown

LEMMA OverlaidFacts ==
    ASSUME NEW table \in Tables, NEW content \in Contents
    PROVE  /\ Overlaid(table, content) \subseteq Contents
           /\ content = EmptyTable => Overlaid(table, content) = {table}
<1>1. CASE content = EmptyTable
  BY <1>1 DEF Overlaid, Contents
<1>2. CASE content # EmptyTable /\ content = Garbled
  BY <1>2 DEF Overlaid, Contents
<1>3. CASE content # EmptyTable /\ content # Garbled
  <2>1. content \in Tables
    BY <1>3 DEF Contents
  <2>2. \A tail : [k \in Keys |-> IF k \in tail THEN content[k] ELSE table[k]] \in Tables
    BY <2>1 DEF Tables, Table
  <2> QED  BY <1>3, <2>2 DEF Overlaid, Contents
<1> QED  BY <1>1, <1>2, <1>3

LEMMA ExcuseFacts ==
    ASSUME NEW condition \in BOOLEAN, NEW kind
    PROVE  /\ Excuse(condition, kind) \subseteq {kind}
           /\ condition => Excuse(condition, kind) # {}
BY DEF Excuse

LEMMA IdleForms == NoCall \in Call /\ NotWriting \in Writing /\ Asleep \in Sync
<1>1. EmptyTable \in Tables /\ EmptyTable \in Table /\ 0 \in Times
  BY EmptyType, FileAssumption DEF Tables, Times
<1> QED  BY <1>1 DEF NoCall, NotWriting, Asleep, Call, Writing, Sync, Stages, Answers

\* The stage of one call changes.
LEMMA StageFacts ==
    ASSUME writing \in [Clients -> Writing], NEW c \in Clients, NEW w \in Writing,
           writing' = [writing EXCEPT ![c] = w]
    PROVE  /\ writing' \in [Clients -> Writing] /\ writing'[c] = w
           /\ \A d \in Clients \ {c} : writing'[d] = writing[d]
OBVIOUS

LEMMA InitFile == Init => FileInv
<1> SUFFICES ASSUME Init
             PROVE  FileInv
  OBVIOUS
<1>1. TypeOK
  <2>1. \A c \in Clients : At(c, "none")
    BY DEF Init, At, NotWriting
  <2>2. file \in [content : Contents, mtime : Times, edited : BOOLEAN]
    BY FileAssumption DEF Init, Contents, Times
  <2> QED  BY <2>1, <2>2, IdleForms, FileAssumption DEF Init, TypeOK, Times
<1>2. ArgumentsInv
  BY DEF Init, ArgumentsInv, NoCall, Writes
<1>3. KeptInv
  BY DEF Init, KeptInv, AgreeInv, OneWriter, FreshSync, MemoryAgrees, CopiesAgree, FileAgrees,
         Copied, At, NotWriting, Asleep
<1> QED  BY <1>1, <1>2, <1>3 DEF FileInv

-----------------------------------------------------------------------------
(* The steps of calls                                                      *)

\* A step that touches neither the tables nor the calls that are not in the file
\* yet keeps what they agree on.
LEMMA AgreeFrame ==
    ASSUME FileInv,
           UNCHANGED <<records, up, expected, doubtful, excuses>>,
           file'.content = file.content,
           \A c \in Clients : \A stage \in {"mutated", "snapshot", "opened"} :
              At(c, stage)' <=> At(c, stage),
           \A c \in Clients : Copied(c) => writing'[c].table = writing[c].table,
           \A c \in Unsaved : calls'[c].key = calls[c].key,
           sync'.pc = "loaded" => sync.pc = "loaded" /\ sync'.table = sync.table
    PROVE  KeptInv'
<1> SUFFICES ASSUME excuses = {}
             PROVE  AgreeInv'
  BY DEF KeptInv
<1>0. OneWriter /\ FreshSync /\ MemoryAgrees /\ CopiesAgree /\ FileAgrees
  BY DEF FileInv, KeptInv, AgreeInv
<1>1. /\ \A c \in Clients : Copied(c)' <=> Copied(c)
      /\ Unsaved' = Unsaved /\ Mutated' = Mutated
  BY DEF Copied, Unsaved, Mutated, At
<1>2. Mutated \subseteq Unsaved
  BY DEF Mutated, Unsaved, At
<1>3. \A k \in Keys : /\ Settled(k, Unsaved)' <=> Settled(k, Unsaved)
                      /\ Settled(k, Mutated)' <=> Settled(k, Mutated)
  BY <1>1, <1>2 DEF Settled
<1>4. OneWriter' /\ MemoryAgrees'
  BY <1>0, <1>1 DEF OneWriter, MemoryAgrees
<1>5. FreshSync'
  BY <1>0, <1>1 DEF FreshSync
<1>6. CopiesAgree'
  BY <1>0, <1>1, <1>3 DEF CopiesAgree
<1>7. FileAgrees'
  BY <1>0, <1>1, <1>3 DEF FileAgrees
<1> QED  BY <1>4, <1>5, <1>6, <1>7 DEF AgreeInv

LEMMA InvokeKeeps ==
    ASSUME FileInv, NEW c \in Clients, NEW op \in Offered, NEW k \in Keys \union {None},
           NEW v \in Values \union {None}, Invoke(c, op, k, v)
    PROVE  FileInv'
<1> DEFINE new == NewCall(op, k, v)
<1>0. /\ calls[c].op = "none" /\ Arguments(op, k, v) /\ calls' = [calls EXCEPT ![c] = new]
      /\ UNCHANGED <<records, last_modified, file, writing, sync, up, mishaps,
                     expected, doubtful, excuses>>
  BY DEF Invoke, memory, history
<1>1. At(c, "none")
  BY <1>0 DEF FileInv, TypeOK, Writes
<1>2. /\ new \in Call /\ new.op = op /\ new.key = k /\ new.seen = EmptyTable
  BY EmptyType, FileAssumption DEF NewCall, Call, Answers, Tables
<1>3. op \in Writes => k \in Keys
  BY <1>0 DEF Arguments, Writes
<1> HIDE DEF new
<1>4. /\ calls' \in [Clients -> Call] /\ calls'[c] = new
      /\ \A d \in Clients \ {c} : calls'[d] = calls[d]
  BY <1>0, <1>2 DEF FileInv, TypeOK
<1>5. TypeOK'
  <2>1. \A d \in Clients : ~At(d, "none")' =>
          up' /\ calls'[d].op \in Writes /\ calls'[d].answer = "ok"
    BY <1>0, <1>1, <1>4 DEF FileInv, TypeOK, At
  <2> QED  BY <1>0, <1>4, <2>1 DEF FileInv, TypeOK
<1>6. ArgumentsInv'
  BY <1>0, <1>2, <1>3, <1>4 DEF FileInv, ArgumentsInv, Invoke
<1>7. KeptInv'
  <2>1. c \notin Unsaved
    BY <1>1 DEF Unsaved, At
  <2>2. \A d \in Unsaved : d \in Clients \ {c}
    BY <2>1 DEF Unsaved
  <2> QED  BY <1>0, <1>4, <2>2, AgreeFrame DEF At
<1> QED  BY <1>5, <1>6, <1>7 DEF FileInv

LEMMA ReturnKeeps ==
    ASSUME FileInv, NEW c \in Clients, Return(c)
    PROVE  FileInv'
<1>0. /\ At(c, "none") /\ calls' = [calls EXCEPT ![c] = NoCall]
      /\ UNCHANGED <<records, last_modified, file, writing, sync, up, mishaps,
                     expected, doubtful, excuses>>
  BY DEF Return, memory, history
<1>1. /\ calls' \in [Clients -> Call] /\ calls'[c] = NoCall
      /\ \A d \in Clients \ {c} : calls'[d] = calls[d]
  BY <1>0, IdleForms DEF FileInv, TypeOK
<1>2. TypeOK'
  <2>1. \A d \in Clients : ~At(d, "none")' =>
          up' /\ calls'[d].op \in Writes /\ calls'[d].answer = "ok"
    BY <1>0, <1>1 DEF FileInv, TypeOK, At
  <2> QED  BY <1>0, <1>1, <2>1 DEF FileInv, TypeOK
<1>3. ArgumentsInv'
  BY <1>0, <1>1 DEF FileInv, ArgumentsInv, NoCall, Writes
<1>4. KeptInv'
  <2>1. \A d \in Unsaved : d \in Clients \ {c}
    BY <1>0 DEF Unsaved, At
  <2> QED  BY <1>0, <1>1, <2>1, AgreeFrame DEF At
<1> QED  BY <1>2, <1>3, <1>4 DEF FileInv

\* What a call is once it was carried out in memory.
LEMMA MutateFacts ==
    ASSUME FileInv, NEW c \in Clients, Mutate(c)
    PROVE  /\ calls[c].answer = "pending" /\ At(c, "none")
           /\ calls' \in [Clients -> Call]
           /\ calls'[c].op = calls[c].op /\ calls'[c].key = calls[c].key
           /\ calls'[c].answer = Verdict(calls[c].op, calls[c].key, records)
           /\ calls[c].op \in Writes => calls'[c].seen = EmptyTable
           /\ \A d \in Clients \ {c} : calls'[d] = calls[d]
           /\ records' = Written(calls[c].op, calls[c].key, calls[c].value, records)
           /\ records' \in Tables
<1> DEFINE call == calls[c]
<1>0. /\ call.answer = "pending"
      /\ calls' = [calls EXCEPT ![c].answer = Verdict(call.op, call.key, records),
                                ![c].seen = Shown(call.op, call.key, records)]
      /\ records' = Written(call.op, call.key, call.value, records)
  BY DEF Mutate
<1>1. At(c, "none")
  BY <1>0 DEF FileInv, TypeOK
<1>2. call \in Call /\ calls \in [Clients -> Call] /\ records \in Tables
  BY DEF FileInv, TypeOK
<1>3. call.key \in Keys \union {None} /\ call.value \in Values \union {None}
  BY <1>2 DEF Call
<1>4. /\ Shown(call.op, call.key, records) \in Tables
      /\ call.op \in Writes => Shown(call.op, call.key, records) = EmptyTable
  BY <1>2, <1>3, ShownFacts
<1>5. Verdict(call.op, call.key, records) \in Answers
  BY VerdictType DEF Answers
<1>6. records' \in Tables
  BY <1>0, <1>2, <1>3, WrittenType
<1>7. /\ calls' \in [Clients -> Call]
      /\ calls'[c].op = call.op /\ calls'[c].key = call.key
      /\ calls'[c].answer = Verdict(call.op, call.key, records)
      /\ calls'[c].seen = Shown(call.op, call.key, records)
      /\ \A d \in Clients \ {c} : calls'[d] = calls[d]
  BY <1>0, <1>2, <1>4, <1>5 DEF Call, Tables
<1> QED  BY <1>0, <1>1, <1>4, <1>6, <1>7

LEMMA MutateKeeps ==
    ASSUME FileInv, NEW c \in Clients, Mutate(c)
    PROVE  FileInv'
<1> DEFINE call == calls[c]
           verdict == Verdict(call.op, call.key, records)
           accepted == call.op \in Writes /\ verdict = "ok"
           w == [writing[c] EXCEPT !.stage = "mutated"]
<1>0. /\ call.answer = "pending" /\ At(c, "none")
      /\ calls' \in [Clients -> Call]
      /\ calls'[c].op = call.op /\ calls'[c].key = call.key /\ calls'[c].answer = verdict
      /\ call.op \in Writes => calls'[c].seen = EmptyTable
      /\ \A d \in Clients \ {c} : calls'[d] = calls[d]
      /\ records' = Written(call.op, call.key, call.value, records)
      /\ records' \in Tables
  BY MutateFacts
<1>1. UNCHANGED <<last_modified, file, sync, up, mishaps, doubtful>> /\ up
  BY <1>0 DEF Mutate, FileInv, ArgumentsInv
<1>2. ArgumentsInv'
  BY <1>0, <1>1 DEF FileInv, ArgumentsInv
<1>3. CASE ~accepted
  <2>1. UNCHANGED <<writing, expected, excuses>>
    BY <1>3 DEF Mutate
  <2>2. records' = records
    BY <1>0, <1>3 DEF Written
  <2>3. TypeOK'
    <3>1. \A d \in Clients : ~At(d, "none")' =>
            up' /\ calls'[d].op \in Writes /\ calls'[d].answer = "ok"
      BY <1>0, <1>1, <2>1 DEF FileInv, TypeOK, At
    <3> QED  BY <1>0, <1>1, <2>1, <3>1 DEF FileInv, TypeOK
  <2>4. KeptInv'
    <3>1. \A d \in Unsaved : d \in Clients \ {c}
      BY <1>0 DEF Unsaved, At
    <3> QED  BY <1>0, <1>1, <2>1, <2>2, <3>1, AgreeFrame DEF At
  <2> QED  BY <1>2, <2>3, <2>4 DEF FileInv
<1>4. CASE accepted
  <2>1. /\ writing' = [writing EXCEPT ![c] = w]
        /\ expected' = [expected EXCEPT ![call.key] = call.value]
        /\ excuses' = excuses \union Excuse(sync.pc = "loaded", "staleSync")
    BY <1>4 DEF Mutate
  <2>2. call \in Call /\ call.key \in Keys /\ call.value \in Values \union {None}
    BY <1>4 DEF FileInv, TypeOK, ArgumentsInv, Call
  <2>3. w \in Writing /\ w.stage = "mutated"
    <3>1. "mutated" \in Stages
      BY DEF Stages
    <3>2. writing[c] \in Writing
      BY DEF FileInv, TypeOK
    <3> QED  BY <3>1, <3>2 DEF Writing
  <2> HIDE DEF w
  <2>4. /\ writing' \in [Clients -> Writing] /\ writing'[c] = w
        /\ \A d \in Clients \ {c} : writing'[d] = writing[d]
    BY <2>1, <2>3, StageFacts DEF FileInv, TypeOK
  <2>5. records' = [records EXCEPT ![call.key] = call.value]
    BY <1>0, <1>4 DEF Written
  <2>6. /\ expected' \in Tables /\ expected'[call.key] = call.value
        /\ records'[call.key] = call.value
        /\ \A k \in Keys \ {call.key} : expected'[k] = expected[k] /\ records'[k] = records[k]
    BY <2>1, <2>2, <2>5 DEF FileInv, TypeOK, Tables, Table
  <2>7. TypeOK'
    <3>1. \A d \in Clients : ~At(d, "none")' =>
            up' /\ calls'[d].op \in Writes /\ calls'[d].answer = "ok"
      BY <1>0, <1>1, <1>4, <2>4 DEF FileInv, TypeOK, At
    <3>2. excuses' \subseteq {"staleSync", "overlap", "tornFile", "edit"}
      BY <2>1 DEF Excuse, FileInv, TypeOK
    <3> QED  BY <1>0, <1>1, <2>4, <2>6, <3>1, <3>2 DEF FileInv, TypeOK
  <2>8. KeptInv'
    <3> SUFFICES ASSUME excuses' = {}
                 PROVE  AgreeInv'
      BY DEF KeptInv
    <3>0. excuses = {} /\ sync.pc # "loaded"
      BY <2>1 DEF Excuse
    <3>1. OneWriter /\ MemoryAgrees /\ CopiesAgree /\ FileAgrees
      BY <3>0 DEF FileInv, KeptInv, AgreeInv
    <3>2. \A d \in Clients : /\ Copied(d)' <=> Copied(d)
                             /\ At(d, "opened")' <=> At(d, "opened")
                             /\ Copied(d) => writing'[d] = writing[d]
      BY <1>0, <2>3, <2>4 DEF Copied, At
    <3>3. Unsaved' = Unsaved \union {c} /\ Mutated' = Mutated \union {c} /\ c \notin Unsaved
      BY <1>0, <2>3, <2>4 DEF Unsaved, Mutated, At
    <3>4. \A k \in Keys : Settled(k, Unsaved)' => k # call.key /\ Settled(k, Unsaved)
      BY <1>0, <1>1, <3>3 DEF Settled, Unsaved
    <3>5. \A k \in Keys : Settled(k, Mutated)' => k # call.key /\ Settled(k, Mutated)
      <4>1. \A d \in Mutated : d \in Clients \ {c}
        BY <1>0 DEF Mutated, At
      <4> QED  BY <1>0, <1>1, <3>3, <4>1 DEF Settled
    <3>6. OneWriter' /\ FreshSync'
      BY <1>1, <3>0, <3>1, <3>2 DEF OneWriter, FreshSync
    <3>7. MemoryAgrees'
      BY <1>1, <2>6, <3>1 DEF MemoryAgrees
    <3>8. CopiesAgree'
      BY <2>6, <3>1, <3>2, <3>5 DEF CopiesAgree
    <3>9. FileAgrees'
      BY <1>1, <2>6, <3>1, <3>2, <3>4 DEF FileAgrees
    <3> QED  BY <3>6, <3>7, <3>8, <3>9 DEF AgreeInv
  <2> QED  BY <1>2, <2>7, <2>8 DEF FileInv
<1> QED  BY <1>3, <1>4

\* A step of write_to_file that a call takes while it is under way.
LEMMA StageTypes ==
    ASSUME FileInv, NEW c \in Clients, NEW w \in Writing, ~At(c, "none"),
           writing' = [writing EXCEPT ![c] = w],
           UNCHANGED <<records, calls, sync, up, mishaps, expected, doubtful>>,
           last_modified' \in Times,
           file' \in [content : Contents, mtime : Times, edited : BOOLEAN],
           excuses' \subseteq {"staleSync", "overlap", "tornFile", "edit"}
    PROVE  /\ TypeOK' /\ ArgumentsInv'
           /\ writing' \in [Clients -> Writing] /\ writing'[c] = w
           /\ \A d \in Clients \ {c} : writing'[d] = writing[d]
<1>1. /\ writing' \in [Clients -> Writing] /\ writing'[c] = w
      /\ \A d \in Clients \ {c} : writing'[d] = writing[d]
  BY StageFacts DEF FileInv, TypeOK
<1>2. \A d \in Clients : ~At(d, "none")' => up' /\ calls'[d].op \in Writes /\ calls'[d].answer = "ok"
  BY <1>1 DEF FileInv, TypeOK, At
<1>3. TypeOK'
  BY <1>1, <1>2 DEF FileInv, TypeOK
<1>4. ArgumentsInv'
  BY DEF FileInv, ArgumentsInv
<1> QED  BY <1>1, <1>3, <1>4

\* Taking the copy keeps one writer, unless it is excused.
LEMMA SnapshotKeeps ==
    ASSUME FileInv, NEW c \in Clients, Snapshot(c)
    PROVE  FileInv'
<1> DEFINE w == [writing[c] EXCEPT !.stage = "snapshot", !.table = records]
<1>0. /\ At(c, "mutated")
      /\ writing' = [writing EXCEPT ![c] = w]
      /\ excuses' = excuses \union
            Excuse(\E d \in Clients : At(d, "snapshot") \/ At(d, "opened"), "overlap")
      /\ UNCHANGED <<records, last_modified, file, calls, sync, up, mishaps, expected, doubtful>>
  BY DEF Snapshot, memory
<1>1. /\ writing[c] \in Writing /\ "snapshot" \in Stages /\ records \in Tables /\ ~At(c, "none") /\ up
      /\ last_modified \in Times
      /\ file \in [content : Contents, mtime : Times, edited : BOOLEAN]
  BY <1>0 DEF FileInv, TypeOK, Stages, At
<1>2. w \in Writing /\ w.stage = "snapshot" /\ w.table = records
  BY <1>1 DEF Writing
<1> HIDE DEF w
<1>3. excuses' \subseteq {"staleSync", "overlap", "tornFile", "edit"}
  BY <1>0 DEF Excuse, FileInv, TypeOK
<1>4. /\ TypeOK' /\ ArgumentsInv'
      /\ writing'[c] = w /\ \A d \in Clients \ {c} : writing'[d] = writing[d]
  BY <1>0, <1>1, <1>3, <1>2, StageTypes
<1>5. KeptInv'
  <2> SUFFICES ASSUME excuses' = {}
               PROVE  AgreeInv'
    BY DEF KeptInv
  <2>0. excuses = {} /\ \A d \in Clients : ~Copied(d)
    BY <1>0 DEF Excuse, Copied
  <2>1. FreshSync /\ MemoryAgrees /\ FileAgrees
    BY <2>0 DEF FileInv, KeptInv, AgreeInv
  <2>2. \A d \in Clients : (Copied(d)' <=> d = c) /\ ~At(d, "opened")'
    BY <1>2, <1>4, <2>0 DEF Copied, At
  <2>3. Unsaved' = Unsaved /\ \A d \in Clients : ~At(d, "opened")
    BY <1>0, <1>2, <1>4, <2>0 DEF Unsaved, Copied, At
  <2>4. OneWriter' /\ FreshSync' /\ MemoryAgrees'
    BY <1>0, <2>1, <2>2, <2>3 DEF OneWriter, FreshSync, MemoryAgrees
  <2>5. CopiesAgree'
    BY <1>0, <1>1, <1>2, <1>4, <2>1, <2>2 DEF CopiesAgree, MemoryAgrees, Settled
  <2>6. \A k \in Keys : Settled(k, Unsaved)' <=> Settled(k, Unsaved)
    BY <1>0, <2>3 DEF Settled
  <2>7. FileAgrees'
    BY <1>0, <2>1, <2>3, <2>6 DEF FileAgrees
  <2> QED  BY <2>4, <2>5, <2>7 DEF AgreeInv
<1> QED  BY <1>4, <1>5 DEF FileInv

\* The file is empty as long as the one writer has it open.
LEMMA TruncateKeeps ==
    ASSUME FileInv, NEW c \in Clients, Truncate(c)
    PROVE  FileInv'
<1> DEFINE w == [writing[c] EXCEPT !.stage = "opened"]
<1>0. /\ At(c, "snapshot")
      /\ writing' = [writing EXCEPT ![c] = w]
      /\ Stamped(EmptyTable, FALSE)
      /\ UNCHANGED <<records, last_modified, calls, sync, up, mishaps, expected, doubtful, excuses>>
  BY DEF Truncate, memory, history
<1>1. /\ writing[c] \in Writing /\ "opened" \in Stages /\ ~At(c, "none")
      /\ last_modified \in Times
      /\ excuses \subseteq {"staleSync", "overlap", "tornFile", "edit"}
  BY <1>0 DEF FileInv, TypeOK, Stages, At
<1>2. w \in Writing /\ w.stage = "opened" /\ w.table = writing[c].table
  BY <1>1 DEF Writing
<1> HIDE DEF w
<1>3. /\ file' \in [content : Contents, mtime : Times, edited : BOOLEAN]
      /\ file'.content = EmptyTable
  <2>1. EmptyTable \in Contents /\ FALSE \in BOOLEAN
    BY EmptyType DEF Contents
  <2>2. file \in [content : Contents, mtime : Times, edited : BOOLEAN]
    BY DEF FileInv, TypeOK
  <2> QED  BY <1>0, <2>1, <2>2, StampedFacts
<1>4. /\ TypeOK' /\ ArgumentsInv'
      /\ writing'[c] = w /\ \A d \in Clients \ {c} : writing'[d] = writing[d]
  BY <1>0, <1>1, <1>3, <1>2, StageTypes
<1>5. KeptInv'
  <2> SUFFICES ASSUME excuses = {}
               PROVE  AgreeInv'
    BY <1>0 DEF KeptInv
  <2>1. OneWriter /\ FreshSync /\ MemoryAgrees /\ CopiesAgree
    BY DEF FileInv, KeptInv, AgreeInv
  <2>2. \A d \in Clients : /\ Copied(d)' <=> Copied(d)
                           /\ writing'[d].table = writing[d].table
    BY <1>0, <1>2, <1>4 DEF Copied, At
  <2>3. Unsaved' = Unsaved /\ Mutated' = Mutated /\ c \in Unsaved
    BY <1>0, <1>2, <1>4 DEF Unsaved, Mutated, At
  <2>4. OneWriter' /\ MemoryAgrees'
    BY <1>0, <1>3, <2>1, <2>2 DEF OneWriter, MemoryAgrees
  <2>5. FreshSync'
    BY <1>0, <2>1, <2>3 DEF FreshSync
  <2>6. CopiesAgree'
    BY <1>0, <2>1, <2>2, <2>3 DEF CopiesAgree, Settled
  <2>7. At(c, "opened")'
    BY <1>2, <1>4 DEF At
  <2>8. FileAgrees'
    BY <1>3, <2>7, EmptyType DEF FileAgrees
  <2> QED  BY <2>4, <2>5, <2>6, <2>8 DEF AgreeInv
<1> QED  BY <1>4, <1>5 DEF FileInv

\* What the one writer writes is its copy, which lacks the changes made since.
LEMMA WriteOutKeeps ==
    ASSUME FileInv, NEW c \in Clients, WriteOut(c)
    PROVE  FileInv'
<1> DEFINE w == [writing[c] EXCEPT !.stage = "written"]
<1>0. /\ At(c, "opened")
      /\ writing' = [writing EXCEPT ![c] = w]
      /\ IF writing[c].table = EmptyTable THEN UNCHANGED file
         ELSE \E content \in Overlaid(writing[c].table, file.content) : Stamped(content, FALSE)
      /\ UNCHANGED <<records, last_modified, calls, sync, up, mishaps, expected, doubtful, excuses>>
  BY DEF WriteOut, memory, history
<1>1. /\ writing[c] \in Writing /\ "written" \in Stages /\ ~At(c, "none")
      /\ last_modified \in Times
      /\ excuses \subseteq {"staleSync", "overlap", "tornFile", "edit"}
      /\ file \in [content : Contents, mtime : Times, edited : BOOLEAN]
      /\ writing[c].table \in Tables
  BY <1>0 DEF FileInv, TypeOK, Stages, At, Writing
<1>2. w \in Writing /\ w.stage = "written" /\ w.table = writing[c].table
  BY <1>1 DEF Writing
<1> HIDE DEF w
<1>3. /\ file' \in [content : Contents, mtime : Times, edited : BOOLEAN]
      /\ file.content = EmptyTable => file'.content = writing[c].table
  <2>1. CASE writing[c].table = EmptyTable
    BY <1>0, <1>1, <2>1
  <2>2. CASE writing[c].table # EmptyTable
    <3>1. PICK content \in Overlaid(writing[c].table, file.content) : Stamped(content, FALSE)
      BY <1>0, <2>2
    <3>2. file.content \in Contents /\ FALSE \in BOOLEAN
      BY <1>1
    <3>3. content \in Contents /\ (file.content = EmptyTable => content = writing[c].table)
      BY <1>1, <3>2, OverlaidFacts
    <3> QED  BY <1>1, <3>1, <3>2, <3>3, StampedFacts
  <2> QED  BY <2>1, <2>2
<1>4. /\ TypeOK' /\ ArgumentsInv'
      /\ writing'[c] = w /\ \A d \in Clients \ {c} : writing'[d] = writing[d]
  BY <1>0, <1>1, <1>3, <1>2, StageTypes
<1>5. KeptInv'
  <2> SUFFICES ASSUME excuses = {}
               PROVE  AgreeInv'
    BY <1>0 DEF KeptInv
  <2>1. OneWriter /\ FreshSync /\ MemoryAgrees /\ CopiesAgree
    BY DEF FileInv, KeptInv, AgreeInv
  <2>2. Copied(c) /\ c \in Unsaved /\ file'.content = writing[c].table
    BY <1>0, <1>3, <2>1 DEF Copied, Unsaved, At, OneWriter
  <2>3. \A d \in Clients : ~Copied(d)' /\ ~At(d, "opened")'
    BY <1>2, <1>4, <2>1, <2>2 DEF OneWriter, Copied, At
  <2>4. Mutated' = Mutated /\ Mutated \subseteq Unsaved'
    BY <1>0, <1>2, <1>4 DEF Mutated, Unsaved, At
  <2>5. OneWriter' /\ MemoryAgrees' /\ CopiesAgree'
    BY <1>0, <2>1, <2>3 DEF OneWriter, MemoryAgrees, CopiesAgree
  <2>6. FreshSync'
    BY <1>0, <2>1, <2>2 DEF FreshSync
  <2>7. \A k \in Keys : Settled(k, Unsaved)' => Settled(k, Mutated)
    BY <1>0, <2>4 DEF Settled
  <2>8. FileAgrees'
    BY <1>0, <1>1, <2>1, <2>2, <2>7 DEF FileAgrees, CopiesAgree
  <2> QED  BY <2>5, <2>6, <2>8 DEF AgreeInv
<1> QED  BY <1>4, <1>5 DEF FileInv

LEMMA StatKeeps ==
    ASSUME FileInv, NEW c \in Clients, Stat(c)
    PROVE  FileInv'
<1> DEFINE w == [writing[c] EXCEPT !.stage = "stamped", !.modified = file.mtime]
<1>0. /\ At(c, "written")
      /\ writing' = [writing EXCEPT ![c] = w]
      /\ UNCHANGED <<records, last_modified, file, calls, sync, up, mishaps, expected, doubtful, excuses>>
  BY DEF Stat, memory, history
<1>1. /\ writing[c] \in Writing /\ "stamped" \in Stages /\ ~At(c, "none")
      /\ last_modified \in Times /\ file.mtime \in Times
      /\ excuses \subseteq {"staleSync", "overlap", "tornFile", "edit"}
      /\ file \in [content : Contents, mtime : Times, edited : BOOLEAN]
  BY <1>0 DEF FileInv, TypeOK, Stages, At
<1>2. w \in Writing /\ w.stage = "stamped" /\ w.table = writing[c].table
  BY <1>1 DEF Writing
<1> HIDE DEF w
<1>3. /\ TypeOK' /\ ArgumentsInv'
      /\ writing'[c] = w /\ \A d \in Clients \ {c} : writing'[d] = writing[d]
  BY <1>0, <1>1, <1>2, StageTypes
<1>4. KeptInv'
  BY <1>0, <1>2, <1>3, AgreeFrame DEF At
<1> QED  BY <1>3, <1>4 DEF FileInv

LEMMA FinishKeeps ==
    ASSUME FileInv, NEW c \in Clients, Finish(c)
    PROVE  FileInv'
<1>0. /\ At(c, "stamped") /\ last_modified' = writing[c].modified
      /\ writing' = [writing EXCEPT ![c] = NotWriting]
      /\ UNCHANGED <<records, file, calls, sync, up, mishaps, expected, doubtful, excuses>>
  BY DEF Finish, history
<1>1. /\ writing[c] \in Writing /\ ~At(c, "none")
      /\ excuses \subseteq {"staleSync", "overlap", "tornFile", "edit"}
      /\ file \in [content : Contents, mtime : Times, edited : BOOLEAN]
  BY <1>0 DEF FileInv, TypeOK, At
<1>2. last_modified' \in Times /\ NotWriting \in Writing /\ NotWriting.stage = "none"
  BY <1>0, <1>1, IdleForms DEF Writing, NotWriting
<1>3. /\ TypeOK' /\ ArgumentsInv'
      /\ writing'[c] = NotWriting /\ \A d \in Clients \ {c} : writing'[d] = writing[d]
  BY <1>0, <1>1, <1>2, StageTypes
<1>4. KeptInv'
  BY <1>0, <1>2, <1>3, AgreeFrame DEF At, Copied
<1> QED  BY <1>3, <1>4 DEF FileInv

\* A write that fails in the file leaves a doubtful key, and the file as it was
\* unless it had just been emptied.
LEMMA FailKeeps ==
    ASSUME FileInv, NEW c \in Clients, Fail(c)
    PROVE  FileInv'
<1>0. /\ writing[c].stage \in {"snapshot", "opened", "written"}
      /\ writing' = [writing EXCEPT ![c] = NotWriting]
      /\ calls' = [calls EXCEPT ![c].answer = "failed"]
      /\ doubtful' = doubtful \union {calls[c].key}
      /\ excuses' = excuses \union Excuse(At(c, "opened"), "tornFile")
      /\ UNCHANGED <<records, last_modified, file, sync, up, expected>>
  BY DEF Fail, memory
<1>1. /\ ~At(c, "none") /\ calls[c] \in Call /\ calls \in [Clients -> Call]
      /\ calls[c].op \in Writes /\ calls[c].key \in Keys /\ calls[c].seen = EmptyTable
  BY <1>0 DEF FileInv, TypeOK, ArgumentsInv, At
<1>2. /\ calls' \in [Clients -> Call] /\ calls'[c].answer = "failed"
      /\ calls'[c].op = calls[c].op /\ calls'[c].key = calls[c].key
      /\ calls'[c].seen = calls[c].seen
      /\ \A d \in Clients \ {c} : calls'[d] = calls[d]
  BY <1>0, <1>1 DEF Call, Answers
<1>3. /\ writing' \in [Clients -> Writing] /\ writing'[c] = NotWriting
      /\ \A d \in Clients \ {c} : writing'[d] = writing[d]
  BY <1>0, IdleForms, StageFacts DEF FileInv, TypeOK
<1>4. At(c, "none")'
  BY <1>3 DEF At, NotWriting
<1>5. TypeOK'
  <2>1. \A d \in Clients : ~At(d, "none")' =>
          up' /\ calls'[d].op \in Writes /\ calls'[d].answer = "ok"
    BY <1>0, <1>2, <1>3, <1>4 DEF FileInv, TypeOK, At
  <2>2. mishaps' \in 0..MaxMishaps
    BY MishapBounded DEF Fail, FileInv, TypeOK
  <2>3. excuses' \subseteq {"staleSync", "overlap", "tornFile", "edit"} /\ doubtful' \subseteq Keys
    BY <1>0, <1>1 DEF Excuse, FileInv, TypeOK
  <2> QED  BY <1>0, <1>2, <1>3, <2>1, <2>2, <2>3 DEF FileInv, TypeOK
<1>6. ArgumentsInv'
  BY <1>0, <1>1, <1>2 DEF FileInv, ArgumentsInv
<1>7. KeptInv'
  <2> SUFFICES ASSUME excuses' = {}
               PROVE  AgreeInv'
    BY DEF KeptInv
  <2>0. excuses = {} /\ ~At(c, "opened")
    BY <1>0 DEF Excuse
  <2>1. OneWriter /\ FreshSync /\ MemoryAgrees /\ CopiesAgree /\ FileAgrees
    BY <2>0 DEF FileInv, KeptInv, AgreeInv
  <2>2. \A d \in Clients : /\ At(d, "opened")' <=> At(d, "opened")
                           /\ Copied(d)' => d # c /\ Copied(d)
    BY <1>3, <1>4, <2>0 DEF Copied, At, NotWriting
  <2>3. /\ Unsaved' = Unsaved \ {c} /\ Mutated' = Mutated
        /\ \A d \in Mutated : d \in Clients \ {c}
    BY <1>0, <1>3 DEF Unsaved, Mutated, At, NotWriting
  <2>4. \A k \in Keys : Settled(k, Unsaved)' => Settled(k, Unsaved)
    <3>1. \A d \in Unsaved' : calls'[d].key = calls[d].key
      BY <1>2, <2>3 DEF Unsaved
    <3> QED  BY <1>0, <2>3, <3>1 DEF Settled
  <2>5. \A k \in Keys : Settled(k, Mutated)' => Settled(k, Mutated)
    BY <1>0, <1>2, <2>3 DEF Settled
  <2>6. OneWriter' /\ MemoryAgrees'
    BY <1>0, <2>1, <2>2 DEF OneWriter, MemoryAgrees
  <2>7. FreshSync'
    BY <1>0, <2>1, <2>3 DEF FreshSync
  <2>8. CopiesAgree'
    BY <1>0, <1>3, <2>1, <2>2, <2>5 DEF CopiesAgree
  <2>9. FileAgrees'
    BY <1>0, <2>1, <2>2, <2>4 DEF FileAgrees
  <2> QED  BY <2>6, <2>7, <2>8, <2>9 DEF AgreeInv
<1> QED  BY <1>5, <1>6, <1>7 DEF FileInv

LEMMA CallsKeep ==
    ASSUME FileInv, NEW c \in Clients, Calls(c)
    PROVE  FileInv'
<1>1. CASE \E op \in Offered, k \in Keys \union {None}, v \in Values \union {None} :
              Invoke(c, op, k, v)
  BY <1>1, InvokeKeeps
<1> QED  BY <1>1, MutateKeeps, SnapshotKeeps, TruncateKeeps, WriteOutKeeps, StatKeeps,
            FinishKeeps, FailKeeps, ReturnKeeps DEF Calls

-----------------------------------------------------------------------------
(* The sync task and the environment                                       *)

\* A step of the sync task that only reads.
LEMMA SyncTypes ==
    ASSUME FileInv, sync' \in Sync, last_modified' \in Times,
           UNCHANGED <<file, calls, writing, up, mishaps, expected, doubtful>>,
           records' \in Tables, excuses' \subseteq {"staleSync", "overlap", "tornFile", "edit"}
    PROVE  TypeOK' /\ ArgumentsInv'
<1>1. \A d \in Clients : ~At(d, "none")' => up' /\ calls'[d].op \in Writes /\ calls'[d].answer = "ok"
  BY DEF FileInv, TypeOK, At
<1>2. TypeOK'
  BY <1>1 DEF FileInv, TypeOK
<1>3. ArgumentsInv'
  BY DEF FileInv, ArgumentsInv
<1> QED  BY <1>2, <1>3

LEMMA SyncKeeps ==
    ASSUME FileInv, SyncTask
    PROVE  FileInv'
<1>0. /\ sync \in Sync /\ last_modified \in Times /\ records \in Tables /\ file.mtime \in Times
      /\ file.content \in Contents
      /\ excuses \subseteq {"staleSync", "overlap", "tornFile", "edit"}
  BY DEF FileInv, TypeOK
<1>1. CASE SyncWake \/ SyncStat \/ SyncStamp
  <2>1. /\ UNCHANGED <<records, file, calls, writing, up, mishaps, expected, doubtful, excuses>>
        /\ last_modified' = last_modified \/ last_modified' = sync.modified
    BY <1>1 DEF SyncWake, SyncStat, SyncStamp, memory, history
  <2>2. sync' \in Sync /\ sync'.pc # "loaded"
    <3>1. CASE SyncWake
      BY <1>0, <3>1 DEF SyncWake, Sync
    <3>2. CASE SyncStat
      BY <1>0, <3>2, IdleForms DEF SyncStat, Sync, Asleep
    <3>3. CASE SyncStamp
      BY <3>3, IdleForms DEF SyncStamp, Asleep
    <3> QED  BY <1>1, <3>1, <3>2, <3>3
  <2>3. last_modified' \in Times
    BY <1>0, <2>1 DEF Sync
  <2>4. TypeOK' /\ ArgumentsInv'
    BY <1>0, <2>1, <2>2, <2>3, SyncTypes
  <2>5. KeptInv'
    BY <2>1, <2>2, AgreeFrame DEF At
  <2> QED  BY <2>4, <2>5 DEF FileInv
<1>2. CASE SyncRead
  <2>1. /\ UNCHANGED <<records, last_modified, file, calls, writing, up, mishaps, expected, doubtful>>
        /\ excuses' = excuses \union Excuse(Unsaved # {}, "staleSync")
        /\ sync' = IF file.content = Garbled THEN Asleep
                   ELSE [sync EXCEPT !.pc = "loaded", !.table = file.content]
    BY <1>2 DEF SyncRead, memory
  <2>2. sync' \in Sync /\ (sync'.pc = "loaded" => sync'.table = file.content)
    <3>1. CASE file.content = Garbled
      BY <2>1, <3>1, IdleForms DEF Asleep
    <3>2. CASE file.content # Garbled
      <4>1. file.content \in Tables
        BY <1>0, <3>2 DEF Contents
      <4> QED  BY <1>0, <2>1, <3>2, <4>1 DEF Sync
    <3> QED  BY <3>1, <3>2
  <2>3. excuses' \subseteq {"staleSync", "overlap", "tornFile", "edit"}
    BY <1>0, <2>1 DEF Excuse
  <2>4. TypeOK' /\ ArgumentsInv'
    BY <1>0, <2>1, <2>2, <2>3, SyncTypes
  <2>5. KeptInv'
    <3> SUFFICES ASSUME excuses' = {}
                 PROVE  AgreeInv'
      BY DEF KeptInv
    <3>0. excuses = {} /\ Unsaved = {}
      BY <2>1 DEF Excuse
    <3>1. OneWriter /\ MemoryAgrees /\ CopiesAgree /\ FileAgrees
      BY <3>0 DEF FileInv, KeptInv, AgreeInv
    <3>2. FreshSync'
      BY <2>1, <2>2, <3>0 DEF FreshSync, Unsaved
    <3>3. OneWriter' /\ MemoryAgrees'
      BY <2>1, <3>1 DEF OneWriter, MemoryAgrees, Copied, At
    <3>4. CopiesAgree'
      BY <2>1, <3>1 DEF CopiesAgree, Copied, Settled, Mutated, At
    <3>5. FileAgrees'
      BY <2>1, <3>1 DEF FileAgrees, Settled, Unsaved, At
    <3> QED  BY <3>2, <3>3, <3>4, <3>5 DEF AgreeInv
  <2> QED  BY <2>4, <2>5 DEF FileInv
<1>3. CASE SyncInstall
  <2>1. /\ sync.pc = "loaded" /\ records' = sync.table
        /\ sync' = [sync EXCEPT !.pc = "installed"]
        /\ UNCHANGED <<last_modified, file, calls, writing, up, mishaps, expected, doubtful, excuses>>
    BY <1>3 DEF SyncInstall, history
  <2>2. sync' \in Sync /\ sync'.pc = "installed" /\ records' \in Tables
    BY <1>0, <2>1 DEF Sync
  <2>3. TypeOK' /\ ArgumentsInv'
    BY <1>0, <2>1, <2>2, SyncTypes
  <2>4. KeptInv'
    <3> SUFFICES ASSUME excuses = {}
                 PROVE  AgreeInv'
      BY <2>1 DEF KeptInv
    <3>1. OneWriter /\ FreshSync /\ CopiesAgree /\ FileAgrees
      BY DEF FileInv, KeptInv, AgreeInv
    <3>2. Unsaved = {} /\ records' = file.content
      BY <2>1, <3>1 DEF FreshSync
    <3>3. \A d \in Clients : ~At(d, "opened")
      BY <3>2 DEF Unsaved, At
    <3>4. \A k \in Keys \ doubtful : Settled(k, Unsaved)
      BY <3>2 DEF Settled
    <3>5. MemoryAgrees'
      BY <2>1, <3>1, <3>2, <3>3, <3>4 DEF MemoryAgrees, FileAgrees
    <3>6. OneWriter' /\ FreshSync'
      BY <2>1, <2>2, <3>1 DEF OneWriter, FreshSync, Copied, At
    <3>7. CopiesAgree'
      BY <2>1, <3>1 DEF CopiesAgree, Copied, Settled, Mutated, At
    <3>8. FileAgrees'
      BY <2>1, <3>1 DEF FileAgrees, Settled, Unsaved, At
    <3> QED  BY <3>5, <3>6, <3>7, <3>8 DEF AgreeInv
  <2> QED  BY <2>3, <2>4 DEF FileInv
<1> QED  BY <1>1, <1>2, <1>3 DEF SyncTask

LEMMA EditKeeps ==
    ASSUME FileInv, NEW content \in Contents, Edit(content)
    PROVE  FileInv'
<1>0. /\ Stamped(content, TRUE) /\ excuses' = excuses \union {"edit"}
      /\ UNCHANGED <<records, last_modified, calls, writing, sync, up, mishaps, expected, doubtful>>
  BY DEF Edit, memory
<1>1. file' \in [content : Contents, mtime : Times, edited : BOOLEAN]
  <2>1. file \in [content : Contents, mtime : Times, edited : BOOLEAN] /\ TRUE \in BOOLEAN
    BY DEF FileInv, TypeOK
  <2> QED  BY <1>0, <2>1, StampedFacts
<1>2. TypeOK'
  <2>1. \A d \in Clients : ~At(d, "none")' =>
          up' /\ calls'[d].op \in Writes /\ calls'[d].answer = "ok"
    BY <1>0 DEF FileInv, TypeOK, At
  <2> QED  BY <1>0, <1>1, <2>1 DEF FileInv, TypeOK
<1>3. ArgumentsInv' /\ KeptInv'
  BY <1>0 DEF FileInv, ArgumentsInv, KeptInv
<1> QED  BY <1>2, <1>3 DEF FileInv

\* A crash settles the interrupted writes as the file has them.
LEMMA CrashKeeps ==
    ASSUME FileInv, Crash
    PROVE  FileInv'
<1> DEFINE interrupted == {calls[c].key : c \in {d \in Clients : ~At(d, "none")}}
<1>0. /\ up' = FALSE /\ records' = EmptyTable /\ last_modified' = 0
      /\ calls' = [c \in Clients |-> NoCall] /\ writing' = [c \in Clients |-> NotWriting]
      /\ sync' = Asleep
      /\ expected' = [k \in Keys |->
            IF k \in interrupted /\ file.content # Garbled THEN file.content[k] ELSE expected[k]]
      /\ excuses' = excuses \union Excuse(\E c \in Clients : At(c, "opened"), "tornFile")
      /\ UNCHANGED <<file, doubtful>>
  BY DEF Crash
<1>1. mishaps' \in 0..MaxMishaps
  BY MishapBounded DEF Crash, FileInv, TypeOK
<1>2. \A c \in Clients : At(c, "none")' /\ writing'[c].stage = "none"
  BY <1>0 DEF At, NotWriting
<1>3. file.content # Garbled => file.content \in Tables
  BY DEF FileInv, TypeOK, Contents
<1> HIDE DEF interrupted
<1>4. expected' \in Tables
  BY <1>0, <1>3 DEF FileInv, TypeOK, Tables, Table
<1>5. TypeOK'
  <2>1. excuses' \subseteq {"staleSync", "overlap", "tornFile", "edit"}
    BY <1>0 DEF Excuse, FileInv, TypeOK
  <2>2. 0 \in Times
    BY FileAssumption DEF Times
  <2>3. calls' \in [Clients -> Call] /\ writing' \in [Clients -> Writing]
    BY <1>0, IdleForms
  <2> QED  BY <1>0, <1>1, <1>2, <1>4, <2>1, <2>2, <2>3, IdleForms, EmptyType DEF FileInv, TypeOK
<1>6. ArgumentsInv'
  BY <1>0 DEF ArgumentsInv, NoCall, Writes
<1>7. KeptInv'
  <2> SUFFICES ASSUME excuses' = {}
               PROVE  AgreeInv'
    BY DEF KeptInv
  <2>0. excuses = {} /\ \A c \in Clients : ~At(c, "opened")
    BY <1>0 DEF Excuse
  <2>1. FileAgrees
    BY <2>0 DEF FileInv, KeptInv, AgreeInv
  <2>2. OneWriter' /\ FreshSync' /\ MemoryAgrees' /\ CopiesAgree'
    BY <1>0, <1>2 DEF OneWriter, FreshSync, MemoryAgrees, CopiesAgree, Copied, At, Asleep
  <2>3. ASSUME NEW k \in Keys \ doubtful
        PROVE  file.content[k] = expected'[k]
    <3>1. CASE k \in interrupted
      <4>1. file.content # Garbled
        BY <2>1, FileAssumption DEF FileAgrees, Tables, Table
      <4> QED  BY <1>0, <3>1, <4>1
    <3>2. CASE k \notin interrupted
      <4>1. \A c \in Unsaved : c \in Clients /\ ~At(c, "none")
        BY DEF Unsaved, At
      <4>2. Settled(k, Unsaved)
        BY <3>2, <4>1 DEF Settled, interrupted
      <4> QED  BY <1>0, <2>0, <2>1, <3>2, <4>2 DEF FileAgrees
    <3> QED  BY <3>1, <3>2
  <2>4. FileAgrees'
    BY <1>0, <2>1, <2>3 DEF FileAgrees, Settled
  <2> QED  BY <2>2, <2>4 DEF AgreeInv
<1> QED  BY <1>5, <1>6, <1>7 DEF FileInv

LEMMA StartKeeps ==
    ASSUME FileInv, Start
    PROVE  FileInv'
<1>0. /\ ~up /\ file.content # Garbled /\ up' = TRUE /\ records' = file.content
      /\ last_modified' = file.mtime
      /\ UNCHANGED <<file, calls, writing, sync, mishaps, expected, doubtful, excuses>>
  BY DEF Start, history
<1>1. \A c \in Clients : At(c, "none")
  BY <1>0 DEF FileInv, TypeOK
<1>2. file.content \in Tables /\ file.mtime \in Times
  BY <1>0 DEF FileInv, TypeOK, Contents
<1>3. TypeOK'
  <2>1. \A c \in Clients : At(c, "none")'
    BY <1>0, <1>1 DEF At
  <2> QED  BY <1>0, <1>2, <2>1 DEF FileInv, TypeOK
<1>4. ArgumentsInv'
  BY <1>0 DEF FileInv, ArgumentsInv
<1>5. KeptInv'
  <2> SUFFICES ASSUME excuses = {}
               PROVE  AgreeInv'
    BY <1>0 DEF KeptInv
  <2>1. OneWriter /\ FreshSync /\ CopiesAgree /\ FileAgrees
    BY DEF FileInv, KeptInv, AgreeInv
  <2>2. Unsaved = {} /\ \A c \in Clients : ~At(c, "opened")
    BY <1>1 DEF Unsaved, At
  <2>3. \A k \in Keys \ doubtful : Settled(k, Unsaved)
    BY <2>2 DEF Settled
  <2>4. MemoryAgrees'
    BY <1>0, <2>1, <2>2, <2>3 DEF MemoryAgrees, FileAgrees
  <2>5. OneWriter' /\ FreshSync'
    BY <1>0, <2>1 DEF OneWriter, FreshSync, Unsaved, Copied, At
  <2>6. CopiesAgree'
    BY <1>0, <2>1 DEF CopiesAgree, Copied, Settled, Mutated, At
  <2>7. FileAgrees'
    BY <1>0, <2>1 DEF FileAgrees, Settled, Unsaved, At
  <2> QED  BY <2>4, <2>5, <2>6, <2>7 DEF AgreeInv
<1> QED  BY <1>3, <1>4, <1>5 DEF FileInv

LEMMA StutterKeeps ==
    ASSUME FileInv, UNCHANGED vars
    PROVE  FileInv'
<1>0. UNCHANGED <<records, last_modified, file, calls, writing, sync, up, mishaps,
                  expected, doubtful, excuses>>
  BY DEF vars
<1>1. TypeOK' /\ ArgumentsInv'
  BY <1>0, SyncTypes DEF FileInv, TypeOK
<1>2. KeptInv'
  BY <1>0, AgreeFrame DEF At
<1> QED  BY <1>1, <1>2 DEF FileInv

-----------------------------------------------------------------------------
(* The theorems                                                            *)

\* Memory, file, calls and sync task fit together in every state: FileStorage's
\* write methods, write_to_file and start_file_sync, from Init on.
THEOREM FileInvariant == Spec => []FileInv
<1>1. FileInv /\ [Next]_vars => FileInv'
  <2> SUFFICES ASSUME FileInv, [Next]_vars
               PROVE  FileInv'
    OBVIOUS
  <2>1. CASE UNCHANGED vars
    BY <2>1, StutterKeeps
  <2> QED  BY <2>1, CallsKeep, SyncKeeps, EditKeeps, CrashKeeps, StartKeeps DEF Next
<1> QED  BY <1>1, InitFile, PTL DEF Spec

\* Every variable keeps its type, and only an accepted write is in write_to_file.
THEOREM FileTypeCorrect == Spec => []TypeOK
<1>1. FileInv => TypeOK
  BY DEF FileInv
<1> QED  BY <1>1, FileInvariant, PTL

\* Nothing an accepted call did is lost from the memory or the file, unless one of
\* the four things happened that AcknowledgedKept names.
THEOREM AcknowledgedKeptHolds == Spec => []AcknowledgedKept
<1>1. FileInv => AcknowledgedKept
  <2> SUFFICES ASSUME FileInv, excuses = {}, NEW k \in Keys \ doubtful,
                      \A c \in Clients : ~At(c, "none") => calls[c].key # k
               PROVE  /\ up => records[k] = expected[k]
                      /\ (\A c \in Clients : ~At(c, "opened")) =>
                            file.content # Garbled /\ file.content[k] = expected[k]
    BY DEF AcknowledgedKept
  <2>1. MemoryAgrees /\ FileAgrees
    BY DEF FileInv, KeptInv, AgreeInv
  <2>2. Settled(k, Unsaved)
    BY DEF Settled, Unsaved, At
  <2>3. file.content # Garbled
    BY <2>1, FileAssumption DEF FileAgrees, Tables, Table
  <2> QED  BY <2>1, <2>2, <2>3 DEF MemoryAgrees, FileAgrees
<1> QED  BY <1>1, FileInvariant, PTL

-----------------------------------------------------------------------------
(* Every call takes effect at one moment                                   *)

\* RecordStore reads the operators of the calls as this module does.
LEMMA SameRecords ==
    /\ Store!Ops = Ops /\ Store!NoCall = NoCall /\ Store!EmptyTable = EmptyTable
    /\ \A op, k, v : /\ Store!Arguments(op, k, v) <=> Arguments(op, k, v)
                     /\ Store!NewCall(op, k, v) = NewCall(op, k, v)
    /\ \A op, k, t : /\ Store!Verdict(op, k, t) = Verdict(op, k, t)
                     /\ Store!Shown(op, k, t) = Shown(op, k, t)
    /\ \A op, k, v, t : Store!Written(op, k, v, t) = Written(op, k, v, t)
<1>1. Store!EmptyTable = EmptyTable /\ Store!Writes = Writes
  BY DEF EmptyTable, Store!EmptyTable, Writes, Store!Writes
<1>2. Store!Ops = Ops /\ Store!NoCall = NoCall
  BY <1>1 DEF Ops, Store!Ops, NoCall, Store!NoCall
<1>3. \A op, k, v : /\ Store!Arguments(op, k, v) <=> Arguments(op, k, v)
                    /\ Store!NewCall(op, k, v) = NewCall(op, k, v)
  BY <1>1 DEF Arguments, Store!Arguments, NewCall, Store!NewCall
<1>4. \A op, k, t : Store!Verdict(op, k, t) = Verdict(op, k, t)
  BY DEF Verdict, Store!Verdict
<1>5. \A op, k, t : Store!Shown(op, k, t) = Shown(op, k, t)
  BY <1>1 DEF Shown, Store!Shown
<1>6. \A op, k, v, t : Store!Written(op, k, v, t) = Written(op, k, v, t)
  BY <1>1, <1>4 DEF Written, Store!Written
<1> QED  BY <1>1, <1>2, <1>3, <1>4, <1>5, <1>6

\* A step of a call is a step of the store, or changes neither memory nor calls.
LEMMA CallsRefine ==
    ASSUME FileInv, NEW c \in Clients, Calls(c), <<records, calls>>' # <<records, calls>>
    PROVE  Store!Next
<1>0. calls \in [Clients -> Call] /\ calls[c] \in Call
  BY DEF FileInv, TypeOK
<1>1. ASSUME NEW op \in Offered, NEW k \in Keys \union {None}, NEW v \in Values \union {None},
             Invoke(c, op, k, v)
      PROVE  Store!Next
  <2>1. Store!Invoke(c, op, k, v)
    BY <1>1, SameRecords DEF Invoke, Store!Invoke, memory
  <2> QED  BY <2>1, SameRecords, FileAssumption DEF Store!Next
<1>2. CASE Mutate(c)
  <2>1. Store!Perform(c)
    BY <1>2, SameRecords DEF Mutate, Store!Perform
  <2> QED  BY <2>1 DEF Store!Next
<1>3. CASE Fail(c)
  <2>1. /\ calls[c].op \in Writes /\ calls[c].answer = "ok" /\ calls[c].seen = EmptyTable
        /\ calls' = [calls EXCEPT ![c].answer = "failed"] /\ UNCHANGED records
    BY <1>3 DEF Fail, memory, FileInv, TypeOK, ArgumentsInv, At
  <2>2. calls' = [calls EXCEPT ![c].answer = "failed", ![c].seen = EmptyTable]
    BY <1>0, <2>1 DEF Call
  <2>3. Store!Fail(c)
    BY <2>1, <2>2, SameRecords DEF Store!Fail, Writes
  <2> QED  BY <2>3 DEF Store!Next
<1>4. CASE Return(c)
  <2>1. Store!Return(c)
    BY <1>4, SameRecords DEF Return, Store!Return, memory
  <2> QED  BY <2>1 DEF Store!Next
<1>5. CASE Snapshot(c) \/ Truncate(c) \/ WriteOut(c) \/ Stat(c) \/ Finish(c)
  BY <1>5 DEF Snapshot, Truncate, WriteOut, Stat, Finish, memory
<1> QED  BY <1>1, <1>2, <1>3, <1>4, <1>5 DEF Calls

\* While the process runs and the sync task installs nothing, a call changes the
\* memory at one moment and is answered for it: the work on the file, which no lock
\* joins, adds no effect, for any number of callers.
THEOREM CallsAreAtomicHolds == Spec => CallsAreAtomic
<1>1. FileInv /\ [Next]_vars =>
          [(<<records, calls>>' # <<records, calls>> /\ up /\ up' /\ ~SyncInstall) => Store!Next]_vars
  <2> SUFFICES ASSUME FileInv, Next, <<records, calls>>' # <<records, calls>>, up, up', ~SyncInstall
               PROVE  Store!Next
    OBVIOUS
  <2>1. CASE \E c \in Clients : Calls(c)
    BY <2>1, CallsRefine
  <2>2. CASE SyncTask
    BY <2>2 DEF SyncTask, SyncWake, SyncStat, SyncRead, SyncStamp, memory
  <2>3. CASE \E content \in Contents : Edit(content)
    BY <2>3 DEF Edit, memory
  <2>4. CASE Crash \/ Start
    BY <2>4 DEF Crash, Start
  <2> QED  BY <2>1, <2>2, <2>3, <2>4 DEF Next
<1> QED  BY <1>1, FileInvariant, PTL DEF Spec, CallsAreAtomic
-----------------------------------------------------------------------------
(* What a reload may do                                                    *)

SyncStops == ~up => sync.pc = "asleep"

LEMMA SyncStopsStep == SyncStops /\ [Next]_vars => SyncStops'
<1> SUFFICES ASSUME SyncStops, [Next]_vars  PROVE SyncStops'
  OBVIOUS
<1>1. CASE \E c \in Clients : Calls(c)
  <2>1. \A c \in Clients : Calls(c) => UNCHANGED <<sync, up>>
    BY DEF Calls, Invoke, Mutate, Snapshot, Truncate, WriteOut, Stat, Finish, Fail, Return
  <2> QED  BY <1>1, <2>1 DEF SyncStops
<1>2. CASE SyncWake
  BY <1>2 DEF SyncWake, SyncStops
<1>3. CASE SyncStat \/ SyncRead \/ SyncInstall \/ SyncStamp
  BY <1>3 DEF SyncStops, SyncStat, SyncRead, SyncInstall, SyncStamp
<1>4. CASE \E content \in Contents : Edit(content)
  <2>1. UNCHANGED <<sync, up>>
    BY <1>4 DEF Edit
  <2> QED  BY <2>1 DEF SyncStops
<1>5. CASE Crash \/ Start
  <2>1. sync' = Asleep \/ up'
    BY <1>5 DEF Crash, Start
  <2> QED  BY <2>1 DEF SyncStops, Asleep
<1>6. CASE UNCHANGED vars
  BY <1>6 DEF SyncStops, vars
<1> QED  BY <1>1, <1>2, <1>3, <1>4, <1>5, <1>6 DEF Next, SyncTask

\* Unless a race, a failure or an administrator gave it a reason, the sync task
\* replaces the memory by what is there already: the mtime it sees may well be newer
\* than last_modified because of the registry's own writes, but then the file and
\* the memory say the same of every key none of whose writes failed.
THEOREM ReloadChangesNothingHolds == Spec => ReloadChangesNothing
<1>1. Init => SyncStops
  BY DEF Init, SyncStops
<1>2. Spec => []SyncStops
  BY <1>1, SyncStopsStep, PTL DEF Spec
<1>3. FileInv /\ SyncStops =>
          (SyncInstall /\ excuses = {} => \A k \in Keys \ doubtful : records'[k] = records[k])
  <2> SUFFICES ASSUME FileInv, SyncStops, SyncInstall, excuses = {}, NEW k \in Keys \ doubtful
               PROVE  records'[k] = records[k]
    OBVIOUS
  <2>1. FreshSync /\ MemoryAgrees /\ FileAgrees
    BY DEF FileInv, KeptInv, AgreeInv
  <2>2. up /\ sync.pc = "loaded" /\ records' = sync.table
    BY DEF SyncInstall, SyncStops
  <2>3. Unsaved = {} /\ sync.table = file.content
    BY <2>1, <2>2 DEF FreshSync
  <2>4. (\A c \in Clients : ~At(c, "opened")) /\ Settled(k, Unsaved)
    BY <2>3 DEF Unsaved, At, Settled
  <2>5. file.content[k] = expected[k]
    BY <2>1, <2>4 DEF FileAgrees
  <2>6. records[k] = expected[k]
    BY <2>1, <2>2 DEF MemoryAgrees
  <2> QED  BY <2>2, <2>3, <2>5, <2>6
<1> QED  BY <1>2, <1>3, FileInvariant, PTL DEF ReloadChangesNothing

-----------------------------------------------------------------------------
(* What may lose a record                                                  *)

SyncRuns == sync.pc # "asleep" => "sync" \in Environment

LEMMA FoundedStep ==
    ASSUME SyncRuns, ExcusesFounded, [Next]_vars
    PROVE  (SyncRuns /\ ExcusesFounded)'
<1>a. \A condition, kind : Excuse(condition, kind) \subseteq {kind}
                           /\ (~condition => Excuse(condition, kind) = {})
  BY DEF Excuse
<1>1. ASSUME UNCHANGED <<sync, excuses>>
      PROVE  (SyncRuns /\ ExcusesFounded)'
  BY <1>1 DEF SyncRuns, ExcusesFounded
<1>2. ASSUME NEW c \in Clients, Mutate(c)
      PROVE  (SyncRuns /\ ExcusesFounded)'
  <2>1. sync' = sync /\ excuses' \subseteq excuses \union Excuse(sync.pc = "loaded", "staleSync")
    BY <1>2 DEF Mutate
  <2>2. "staleSync" \in excuses' \ excuses => "sync" \in Environment
    BY <1>a, <2>1 DEF SyncRuns
  <2>3. excuses' \subseteq excuses \union {"staleSync"}
    BY <1>a, <2>1
  <2> QED  BY <2>1, <2>2, <2>3 DEF SyncRuns, ExcusesFounded
<1>3. ASSUME NEW c \in Clients, Snapshot(c)
      PROVE  (SyncRuns /\ ExcusesFounded)'
  <2> DEFINE Overlap == \E d \in Clients : At(d, "snapshot") \/ At(d, "opened")
  <2>1. sync' = sync /\ excuses' = excuses \union Excuse(Overlap, "overlap") /\ At(c, "mutated")
    BY <1>3 DEF Snapshot
  <2>2. Overlap => \E d \in Clients : c # d
    BY <2>1 DEF At
  <2> HIDE DEF Overlap
  <2>3. excuses' \subseteq excuses \union {"overlap"} /\ ("overlap" \in excuses' \ excuses => Overlap)
    BY <1>a, <2>1
  <2> QED  BY <2>1, <2>2, <2>3 DEF SyncRuns, ExcusesFounded
<1>4. ASSUME NEW c \in Clients, Fail(c)
      PROVE  (SyncRuns /\ ExcusesFounded)'
  <2>1. sync' = sync /\ "failure" \in Environment
        /\ excuses' = excuses \union Excuse(At(c, "opened"), "tornFile")
    BY <1>4 DEF Fail, Mishap
  <2>2. excuses' \subseteq excuses \union {"tornFile"}
    BY <1>a, <2>1
  <2> QED  BY <2>1, <2>2 DEF SyncRuns, ExcusesFounded
<1>5. CASE SyncWake
  BY <1>5 DEF SyncWake, SyncRuns, ExcusesFounded, history
<1>6. CASE SyncStat \/ SyncInstall \/ SyncStamp
  <2>1. "sync" \in Environment /\ excuses' = excuses
    BY <1>6 DEF SyncStat, SyncInstall, SyncStamp, SyncRuns, history
  <2> QED  BY <2>1 DEF SyncRuns, ExcusesFounded
<1>7. CASE SyncRead
  <2>1. "sync" \in Environment /\ excuses' = excuses \union Excuse(Unsaved # {}, "staleSync")
    BY <1>7 DEF SyncRead, SyncRuns
  <2>2. excuses' \subseteq excuses \union {"staleSync"}
    BY <1>a, <2>1
  <2> QED  BY <2>1, <2>2 DEF SyncRuns, ExcusesFounded
<1>8. ASSUME NEW content \in Contents, Edit(content)
      PROVE  (SyncRuns /\ ExcusesFounded)'
  <2>1. sync' = sync /\ "edit" \in Environment /\ excuses' = excuses \union {"edit"}
    BY <1>8 DEF Edit
  <2> QED  BY <2>1 DEF SyncRuns, ExcusesFounded
<1>9. CASE Crash
  <2>1. sync' = Asleep /\ "crash" \in Environment
        /\ excuses' = excuses \union Excuse(\E c \in Clients : At(c, "opened"), "tornFile")
    BY <1>9 DEF Crash, Mishap
  <2>2. excuses' \subseteq excuses \union {"tornFile"}
    BY <1>a, <2>1
  <2> QED  BY <2>1, <2>2 DEF SyncRuns, ExcusesFounded, Asleep
<1>10. CASE Start \/ UNCHANGED vars
  BY <1>1, <1>10 DEF Start, vars, history
<1>11. ASSUME NEW c \in Clients,
              \/ \E op \in Offered, k \in Keys \union {None}, v \in Values \union {None} :
                    Invoke(c, op, k, v)
              \/ Truncate(c) \/ WriteOut(c) \/ Stat(c) \/ Finish(c) \/ Return(c)
       PROVE  (SyncRuns /\ ExcusesFounded)'
  BY <1>1, <1>11 DEF Invoke, Truncate, WriteOut, Stat, Finish, Return, history
<1> QED
  BY <1>2, <1>3, <1>4, <1>5, <1>6, <1>7, <1>8, <1>9, <1>10, <1>11 DEF Next, Calls, SyncTask

\* The excuses of AcknowledgedKept are what their names say.
THEOREM ExcusesFoundedHolds == Spec => []ExcusesFounded
<1>1. Init => SyncRuns /\ ExcusesFounded
  BY DEF Init, SyncRuns, ExcusesFounded, Asleep
<1>2. (SyncRuns /\ ExcusesFounded) /\ [Next]_vars => (SyncRuns /\ ExcusesFounded)'
  BY FoundedStep
<1> QED  BY <1>1, <1>2, PTL DEF Spec

\* So a registry whose callers come one after the other, whose file nobody else
\* touches and that reloads it never, keeps every accepted write, through any number
\* of stops and failures, but for one that hits the file while it is being written.
THEOREM SerialWritesKept ==
    ASSUME \A c, d \in Clients : c = d,
           Environment \intersect {"sync", "edit"} = {}
    PROVE  Spec => [](excuses \subseteq {"tornFile"} /\ AcknowledgedKept)
<1>1. TypeOK /\ ExcusesFounded => excuses \subseteq {"tornFile"}
  BY DEF TypeOK, ExcusesFounded
<1> QED  BY <1>1, FileTypeCorrect, ExcusesFoundedHolds, AcknowledgedKeptHolds, PTL


=============================================================================
