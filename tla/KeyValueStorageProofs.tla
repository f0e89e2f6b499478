----------------------- MODULE KeyValueStorageProofs -------------------------
(***************************************************************************)
(* Theorems about KeyValueStorage, for any clients, keys and values: the   *)
(* state is well formed with each of the three backends; calls that do not *)
(* overlap and read what is stored (the Redis adapter's lock sees to it)   *)
(* implement RecordStore; and DynamoDB's, which overlap and read what may  *)
(* be old, implement EventualStore.                                        *)
(* About RecordKeys: the keys they use tell the records apart.             *)
(***************************************************************************)
EXTENDS KeyValueStorage, RecordKeys, SequenceTheorems, TLAPS

\* What the operations of a table return.
LEMMA TableOps ==
    ASSUME NEW t \in Table, NEW op \in Ops \union {"none"},
           NEW k \in Keys \union {None}, NEW v \in Values \union {None}
    PROVE  /\ Verdict(op, k, t) \in {"ok", "exists", "notFound"}
           /\ Written(op, k, v, t) \in Table
           /\ Shown(op, k, t) \in Table
           /\ EmptyTable \in Table
  <1>1. EmptyTable \in Table
    BY DEF EmptyTable, Table
  <1>2. Verdict(op, k, t) \in {"ok", "exists", "notFound"}
    BY DEF Verdict
  <1>3. Written(op, k, v, t) \in Table
    BY DEF Written, Table
  <1>4. Shown(op, k, t) \in Table
    BY <1>1 DEF Shown, Table, EmptyTable
  <1> QED
    BY <1>1, <1>2, <1>3, <1>4

\* A call is NoCall, or new, or one whose answer is replaced.
LEMMA CallTypes ==
    /\ NoCall \in Call /\ NoCall.op = "none" /\ NoCall.answer = "ok"
    /\ \A op \in Ops, k \in Keys \union {None}, v \in Values \union {None} :
          /\ NewCall(op, k, v) \in Call
          /\ NewCall(op, k, v).answer = "pending" /\ NewCall(op, k, v).op = op
    /\ \A call \in Call, answer \in Answers, seen \in Table :
          [call EXCEPT !.answer = answer, !.seen = seen] \in Call
  <1>1. EmptyTable \in Table
    BY DEF EmptyTable, Table
  <1> QED
    BY <1>1 DEF NoCall, NewCall, Call, Answers

\* What an unfinished call has come to is a progress of the right type.
Progress == [tested : BOOLEAN, scanned : SUBSET Keys, page : Table]

LEMMA NotStartedType ==
    /\ NotStarted \in Progress
    /\ NotStarted.tested = FALSE /\ NotStarted.scanned = {} /\ NotStarted.page = EmptyTable
  BY DEF NotStarted, Progress, EmptyTable, Table

\* The program starts in a well formed state.
LEMMA InitType == Init => TypeOK
  <1> SUFFICES ASSUME Init
               PROVE  TypeOK
    OBVIOUS
  <1>1. progress \in [Clients -> Progress]
    BY NotStartedType DEF Init
  <1>2. calls \in [Clients -> Call]
    BY CallTypes DEF Init
  <1>3. \A c \in Clients : (holder = c \/ progress[c] # NotStarted) => calls[c].answer = "pending"
    BY NoneAssumption DEF Init
  <1> QED
    BY <1>1, <1>2, <1>3 DEF Init, TypeOK, Progress

\* What reads may find are tables; if they find what is stored, it is that table.
LEMMA ReadableTables ==
    ASSUME TypeOK
    PROVE  /\ records \in Table /\ Readable \subseteq Table
           /\ ~EventualReads => Readable = {records}
  <1>1. records \in Table /\ Readable \subseteq Table
    BY DEF TypeOK, Readable
  <1>2. ASSUME ~EventualReads
        PROVE  Readable = {records}
    <2>1. \A k \in Keys : replicas[k] = {records[k]}
      BY <1>2 DEF TypeOK
    <2>2. \A t \in Table : (\A k \in Keys : t[k] = records[k]) => t = records
      BY <1>1 DEF Table
    <2>3. \A t \in Readable : t = records
      BY <2>1, <2>2 DEF Readable
    <2>4. records \in Readable
      BY <1>1, <2>1 DEF Readable
    <2> QED
      BY <2>3, <2>4
  <1> QED
    BY <1>1, <1>2

\* Whatever a client does leaves its call, its progress and the lock well formed.
\* A step that answers a call ends its progress and gives the lock back.
LEMMA AnswerType ==
    ASSUME TypeOK, NEW c \in Clients, NEW answer \in Answers, NEW seen \in Table,
           Answer(c, answer, seen)
    PROVE  /\ calls' \in [Clients -> Call]
           /\ progress' \in [Clients -> Progress]
           /\ holder' \in Clients \union {None}
           /\ progress'[c] = NotStarted /\ holder' # c
           /\ \A d \in Clients \ {c} : calls'[d] = calls[d] /\ progress'[d] = progress[d]
           /\ holder' # holder => holder' = None
           /\ calls'[c].op = calls[c].op /\ calls'[c].answer = answer /\ calls'[c].seen = seen
  <1>1. [calls[c] EXCEPT !.answer = answer, !.seen = seen] \in Call
    BY CallTypes DEF TypeOK
  <1>2. calls' = [calls EXCEPT ![c] = [calls[c] EXCEPT !.answer = answer, !.seen = seen]]
    BY DEF Answer, TypeOK
  <1>3. progress' = [progress EXCEPT ![c] = NotStarted]
    BY DEF Answer
  <1>4. holder' = IF holder = c THEN None ELSE holder
    BY DEF Answer
  <1>5. calls'[c].op = calls[c].op /\ calls'[c].answer = answer /\ calls'[c].seen = seen
    BY <1>2 DEF TypeOK, Call
  <1> QED
    BY <1>1, <1>2, <1>3, <1>4, <1>5, NotStartedType, NoneAssumption DEF TypeOK, Progress

\* The part of TypeOK a step of one client may touch.
CallsOK ==
    /\ records \in Table
    /\ calls \in [Clients -> Call]
    /\ progress \in [Clients -> Progress]
    /\ holder \in Clients \union {None}
    /\ \A c \in Clients :
         (holder = c \/ progress[c] # NotStarted) => calls[c].answer = "pending"

\* A step of a client, whatever the backend.
Step(c) ==
    \/ \E op \in Offered, k \in Keys \union {None}, v \in Values \union {None} :
          Invoke(c, op, k, v)
    \/ Lock(c) \/ Perform(c) \/ Test(c) \/ Write(c)
    \/ \E k \in Keys : Scan(c, k)
    \/ EndScan(c) \/ Fail(c) \/ Return(c)

LEMMA NextIsStep == Next => \E c \in Clients : Step(c)
  BY DEF Next, Step

\* Every step of a client keeps its part of the state well formed.
LEMMA StepType ==
    ASSUME TypeOK, NEW c \in Clients, Step(c)
    PROVE  CallsOK'
  <1> USE DEF CallsOK
  <1>1. /\ records \in Table
        /\ calls \in [Clients -> Call]
        /\ progress \in [Clients -> Progress]
        /\ holder \in Clients \union {None}
        /\ \A d \in Clients :
             (holder = d \/ progress[d] # NotStarted) => calls[d].answer = "pending"
    BY DEF TypeOK, Progress
  <1>2. /\ calls[c].op \in Ops \union {"none"} /\ calls[c].key \in Keys \union {None}
        /\ calls[c].value \in Values \union {None} /\ progress[c].page \in Table
    BY <1>1 DEF Call, Progress
  \* A step that answers the call.
  <1>3. ASSUME NEW answer \in Answers, NEW seen \in Table, Answer(c, answer, seen),
               records' \in Table
        PROVE  CallsOK'
    <2>1. /\ calls' \in [Clients -> Call]
          /\ progress' \in [Clients -> Progress]
          /\ holder' \in Clients \union {None}
          /\ progress'[c] = NotStarted /\ holder' # c
          /\ \A d \in Clients \ {c} : calls'[d] = calls[d] /\ progress'[d] = progress[d]
          /\ holder' # holder => holder' = None
      BY <1>3, AnswerType
    <2>2. \A d \in Clients : holder' = d => d # c /\ holder = d
      BY <2>1, NoneAssumption
    <2>3. \A d \in Clients :
            (holder' = d \/ progress'[d] # NotStarted) => calls'[d].answer = "pending"
      BY <1>1, <2>1, <2>2
    <2> QED
      BY <1>3, <2>1, <2>3
  <1>4. "ok" \in Answers /\ "failed" \in Answers /\ EmptyTable \in Table
    BY DEF Answers, EmptyTable, Table
  <1>5. ASSUME NEW op \in Offered, NEW k \in Keys \union {None}, NEW v \in Values \union {None},
               Invoke(c, op, k, v)
        PROVE  CallsOK'
    <2> DEFINE new == NewCall(op, k, v)
    <2>0. op \in Ops
      BY BackendAssumption
    <2>1. new \in Call /\ new.answer = "pending"
      BY <2>0, CallTypes
    <2>2. calls' = [calls EXCEPT ![c] = new] /\ UNCHANGED <<records, progress, holder>>
      BY <1>5 DEF Invoke
    <2> HIDE DEF new
    <2> QED
      BY <1>1, <2>1, <2>2
  <1>6. CASE Lock(c)
    BY <1>1, <1>6 DEF Lock
  <1>7. CASE Perform(c)
    <2>1. PICK t \in Table :
             Answer(c, Verdict(calls[c].op, calls[c].key, t), Shown(calls[c].op, calls[c].key, t))
      BY <1>7, ReadableTables DEF Perform
    <2>2. /\ Verdict(calls[c].op, calls[c].key, t) \in Answers
          /\ Shown(calls[c].op, calls[c].key, t) \in Table
      BY <1>2, TableOps DEF Answers
    <2>3. Written(calls[c].op, calls[c].key, calls[c].value, records) \in Table
      BY <1>1, <1>2, TableOps
    <2> QED
      BY <1>3, <1>7, <2>1, <2>2, <2>3 DEF Perform
  <1>8. CASE Test(c)
    <2> DEFINE verdict == Verdict(calls[c].op, calls[c].key, records)
    <2>1. verdict \in Answers
      BY <1>1, <1>2, TableOps DEF Answers
    <2>2. calls[c].answer = "pending" /\ UNCHANGED records
      BY <1>8 DEF Test, MayProceed
    <2>3. CASE progress' = [progress EXCEPT ![c].tested = TRUE] /\ UNCHANGED <<calls, holder>>
      <3>1. progress' \in [Clients -> Progress]
        BY <1>1, <2>3 DEF Progress
      <3>2. \A d \in Clients \ {c} : progress'[d] = progress[d]
        BY <1>1, <2>3
      <3> QED
        BY <1>1, <2>2, <2>3, <3>1, <3>2
    <2>4. CASE Answer(c, verdict, EmptyTable)
      BY <1>1, <1>3, <1>4, <2>1, <2>2, <2>4
    <2> QED
      BY <1>8, <2>3, <2>4 DEF Test
  <1>9. CASE Write(c)
    <2>1. [records EXCEPT ![calls[c].key] = calls[c].value] \in Table
      BY <1>1, <1>2 DEF Table
    <2> QED
      BY <1>3, <1>4, <1>9, <2>1 DEF Write
  <1>10. ASSUME NEW k \in Keys, Scan(c, k)
         PROVE  CallsOK'
    <2>1. calls[c].answer = "pending" /\ UNCHANGED <<records, calls, holder>>
      BY <1>10 DEF Scan, MayProceed
    <2>2. PICK found \in replicas[k] :
             progress' = [progress EXCEPT ![c].scanned = @ \union {k}, ![c].page[k] = found]
      BY <1>10 DEF Scan
    <2> DEFINE new == [progress[c] EXCEPT !.scanned = @ \union {k}, !.page[k] = found]
    <2>5. progress' = [progress EXCEPT ![c] = new]
      BY <1>1, <2>2
    <2>6. progress[c] \in Progress /\ found \in Values \union {None}
      BY <1>1, <1>10 DEF TypeOK
    <2>7. new \in Progress
      BY <2>6 DEF Progress, Table
    <2> HIDE DEF new
    <2>3. progress' \in [Clients -> Progress]
      BY <1>1, <2>5, <2>7
    <2>4. \A d \in Clients \ {c} : progress'[d] = progress[d]
      BY <1>1, <2>5
    <2> QED
      BY <1>1, <2>1, <2>3, <2>4
  <1>11. CASE EndScan(c)
    BY <1>1, <1>2, <1>3, <1>4, <1>11 DEF EndScan
  <1>12. CASE Fail(c)
    BY <1>1, <1>3, <1>4, <1>12 DEF Fail
  <1>13. CASE Return(c)
    BY <1>1, <1>13, CallTypes DEF Return
  <1> QED
    BY <1>5, <1>6, <1>7, <1>8, <1>9, <1>10, <1>11, <1>12, <1>13 DEF Step

\* What reads may find is what is stored, or includes it.
LEMMA ReplicasType ==
    ASSUME TypeOK, records' \in Table, Replicate, UNCHANGED backend
    PROVE  /\ replicas' \in [Keys -> SUBSET (Values \union {None})]
           /\ EventualReads' = EventualReads
           /\ \A k \in Keys :
                IF EventualReads' THEN records'[k] \in replicas'[k]
                ELSE replicas'[k] = {records'[k]}
  <1>1. EventualReads' = EventualReads
    BY DEF EventualReads
  <1>2. \A k \in Keys : records'[k] \in Values \union {None}
    BY DEF Table
  <1>3. CASE EventualReads
    BY <1>1, <1>2, <1>3 DEF TypeOK, Replicate
  <1>4. CASE ~EventualReads
    BY <1>1, <1>2, <1>4 DEF TypeOK, Replicate
  <1> QED
    BY <1>1, <1>3, <1>4

\* With any backend the state is well formed: an unfinished call is unanswered, and
\* only an unanswered call holds the lock.
THEOREM TypeCorrect == Spec => []TypeOK
  <1>1. TypeOK /\ [Next]_vars => TypeOK'
    <2> SUFFICES ASSUME TypeOK, [Next]_vars
                 PROVE  TypeOK'
      OBVIOUS
    <2>1. CASE UNCHANGED vars
      BY <2>1 DEF vars, TypeOK, EventualReads
    <2>2. CASE Next
      <3>1. CallsOK'
        BY <2>2, NextIsStep, StepType
      <3>2. Replicate /\ UNCHANGED backend
        BY <2>2 DEF Next
      <3>3. /\ replicas' \in [Keys -> SUBSET (Values \union {None})]
            /\ \A k \in Keys :
                 IF EventualReads' THEN records'[k] \in replicas'[k]
                 ELSE replicas'[k] = {records'[k]}
        BY <3>1, <3>2, ReplicasType DEF CallsOK
      <3>4. backend' \in Backends
        BY <3>2 DEF TypeOK
      <3> QED
        BY <3>1, <3>3, <3>4 DEF CallsOK, TypeOK, Progress
    <2> QED
      BY <2>1, <2>2
  <1> QED
    BY <1>1, InitType, PTL DEF Spec

\* The adapters start in a state of the invariant.
LEMMA AloneInit == Init => AloneInv
  <1> SUFFICES ASSUME Init
               PROVE  AloneInv
    OBVIOUS
  <1>1. \A c \in Clients : progress[c] = NotStarted
    BY DEF Init
  <1>2. \A k \in Keys : EmptyTable[k] = None
    BY DEF EmptyTable
  <1> QED
    BY <1>1, <1>2, InitType, NotStartedType DEF AloneInv

\* A step of a client keeps the invariant: while it is under way, nobody else changes
\* the records.
LEMMA AloneStep ==
    ASSUME OneAtATime, AloneInv, NEW c \in Clients, Step(c), TypeOK', UNCHANGED backend
    PROVE  AloneInv'
  <1>0. TypeOK /\ Locks' = Locks /\ ~EventualReads
    BY DEF AloneInv, Locks, EventualReads, OneAtATime
  <1>1. /\ records \in Table
        /\ calls \in [Clients -> Call]
        /\ progress \in [Clients -> Progress]
        /\ \A d \in Clients :
             (holder = d \/ progress[d] # NotStarted) => calls[d].answer = "pending"
        /\ \A d \in Clients : progress[d] # NotStarted /\ Locks => holder = d
        /\ \A d \in Clients : progress[d].tested =>
              /\ calls[d].op \in Writes
              /\ Verdict(calls[d].op, calls[d].key, records) = "ok"
        /\ \A d \in Clients, k \in Keys :
              progress[d].page[k] = IF k \in progress[d].scanned THEN records[k] ELSE None
    BY DEF AloneInv, TypeOK, Progress
  <1>2. \A k \in Keys : EmptyTable[k] = None
    BY DEF EmptyTable
  <1>3. MayProceed(c) => (Locks => holder = c) /\ \A d \in Clients \ {c} : progress[d] = NotStarted
    BY <1>1 DEF MayProceed, OneAtATime
  \* What the other clients know stays true: either they know nothing, or this
  \* step leaves the records alone.
  <1>4. ASSUME \A d \in Clients \ {c} :
                 /\ calls'[d] = calls[d] /\ progress'[d] = progress[d]
                 /\ holder = d => holder' = d,
               records' = records \/ \A d \in Clients \ {c} : progress[d] = NotStarted,
               progress'[c] # NotStarted /\ Locks => holder' = c,
               progress'[c].tested =>
                 /\ calls'[c].op \in Writes
                 /\ Verdict(calls'[c].op, calls'[c].key, records') = "ok",
               \A k \in Keys : progress'[c].page[k] =
                    IF k \in progress'[c].scanned THEN records'[k] ELSE None
        PROVE  AloneInv'
    <2>1. \A d \in Clients : progress'[d] # NotStarted /\ Locks => holder' = d
      BY <1>1, <1>4
    <2>2. ASSUME NEW d \in Clients \ {c}
          PROVE  /\ progress'[d].tested =>
                      /\ calls'[d].op \in Writes
                      /\ Verdict(calls'[d].op, calls'[d].key, records') = "ok"
                 /\ \A k \in Keys : progress'[d].page[k] =
                      IF k \in progress'[d].scanned THEN records'[k] ELSE None
      <3>1. CASE records' = records
        BY <1>1, <1>4, <3>1
      <3>2. CASE progress[d] = NotStarted
        <4>1. progress'[d] = NotStarted
          BY <1>1, <1>4, <3>2
        <4> QED
          BY <1>2, <4>1, NotStartedType
      <3> QED
        BY <1>4, <3>1, <3>2
    <2>3. /\ \A d \in Clients : progress'[d].tested =>
                /\ calls'[d].op \in Writes
                /\ Verdict(calls'[d].op, calls'[d].key, records') = "ok"
          /\ \A d \in Clients, k \in Keys : progress'[d].page[k] =
                IF k \in progress'[d].scanned THEN records'[k] ELSE None
      BY <1>4, <2>2
    <2> QED
      BY <1>0, <2>1, <2>3 DEF AloneInv
  \* A step that answers the call.
  <1>5. ASSUME NEW answer \in Answers, NEW seen \in Table, Answer(c, answer, seen),
               records' = records \/ \A d \in Clients \ {c} : progress[d] = NotStarted
        PROVE  AloneInv'
    <2>1. /\ progress'[c] = NotStarted
          /\ \A d \in Clients \ {c} : calls'[d] = calls[d] /\ progress'[d] = progress[d]
      BY <1>5, AnswerType DEF AloneInv
    <2>2. \A d \in Clients \ {c} : holder = d => holder' = d
      BY <1>5 DEF Answer
    <2> QED
      BY <1>2, <1>4, <1>5, <2>1, <2>2, NotStartedType
  <1>6. /\ calls[c].op \in Ops \union {"none"} /\ calls[c].key \in Keys \union {None}
        /\ calls[c].value \in Values \union {None} /\ progress[c].page \in Table
        /\ EmptyTable \in Table /\ "ok" \in Answers /\ "failed" \in Answers
        /\ Verdict(calls[c].op, calls[c].key, records) \in Answers
        /\ Shown(calls[c].op, calls[c].key, records) \in Table
    <2>1. /\ calls[c].op \in Ops \union {"none"} /\ calls[c].key \in Keys \union {None}
          /\ calls[c].value \in Values \union {None} /\ progress[c].page \in Table
      BY <1>1 DEF Call, Progress
    <2> QED
      BY <1>1, <2>1, TableOps DEF Answers
  \* A step that changes this client's call, which has not begun or is over.
  <1>7. ASSUME NEW call, calls' = [calls EXCEPT ![c] = call],
               progress[c] = NotStarted, UNCHANGED <<records, progress, holder>>
        PROVE  AloneInv'
    BY <1>1, <1>4, <1>7, NotStartedType
  <1>8. ASSUME NEW op \in Offered, NEW k \in Keys \union {None}, NEW v \in Values \union {None},
               Invoke(c, op, k, v)
        PROVE  AloneInv'
    <2>1. calls[c].op = "none" /\ calls' = [calls EXCEPT ![c] = NewCall(op, k, v)]
          /\ UNCHANGED <<records, progress, holder>>
      BY <1>8 DEF Invoke
    <2>2. ~progress[c].tested
      BY <1>1, <2>1 DEF Writes
    <2>3. \A d \in Clients \ {c} : calls'[d] = calls[d]
      BY <1>1, <2>1
    <2> QED
      BY <1>1, <1>4, <2>1, <2>2, <2>3
  <1>9. CASE Lock(c)
    BY <1>1, <1>4, <1>9, NoneAssumption DEF Lock
  <1>10. CASE Perform(c)
    <2>1. PICK t \in Table :
             Answer(c, Verdict(calls[c].op, calls[c].key, t), Shown(calls[c].op, calls[c].key, t))
      BY <1>0, <1>10, ReadableTables DEF Perform
    <2>2. /\ Verdict(calls[c].op, calls[c].key, t) \in Answers
          /\ Shown(calls[c].op, calls[c].key, t) \in Table
      BY <1>6, TableOps DEF Answers
    <2> QED
      BY <1>3, <1>5, <1>10, <2>1, <2>2 DEF Perform
  <1>11. CASE Test(c)
    <2> DEFINE verdict == Verdict(calls[c].op, calls[c].key, records)
    <2>1. /\ (Locks => holder = c) /\ UNCHANGED records
          /\ calls[c].op \in Writes
      BY <1>3, <1>11 DEF Test, OneStep, Writes
    <2>2. CASE /\ verdict = "ok" /\ progress' = [progress EXCEPT ![c].tested = TRUE]
               /\ UNCHANGED <<calls, holder>>
      <3>1. \A d \in Clients \ {c} : progress'[d] = progress[d]
        BY <1>1, <2>2
      <3>2. /\ progress'[c].page = progress[c].page
            /\ progress'[c].scanned = progress[c].scanned
        BY <1>1, <2>2 DEF Progress
      <3> QED
        BY <1>1, <1>4, <2>1, <2>2, <3>1, <3>2
    <2>3. CASE Answer(c, verdict, EmptyTable)
      BY <1>5, <1>6, <2>1, <2>3
    <2> QED
      BY <1>11, <2>2, <2>3 DEF Test
  <1>12. CASE Write(c)
    BY <1>3, <1>5, <1>6, <1>12 DEF Write
  <1>13. ASSUME NEW k \in Keys, Scan(c, k)
         PROVE  AloneInv'
    <2>0. replicas[k] = {records[k]}
      BY <1>0 DEF TypeOK
    <2>1. /\ (Locks => holder = c) /\ calls[c].op = "list" /\ UNCHANGED <<records, calls, holder>>
          /\ progress' = [progress EXCEPT ![c].scanned = @ \union {k}, ![c].page[k] = records[k]]
      BY <1>3, <1>13, <2>0 DEF Scan
    <2>2. \A d \in Clients \ {c} : progress'[d] = progress[d]
      BY <1>1, <2>1
    <2>3. /\ progress'[c].tested = progress[c].tested
          /\ progress'[c].scanned = progress[c].scanned \union {k}
          /\ progress'[c].page = [progress[c].page EXCEPT ![k] = records[k]]
      BY <1>1, <2>1 DEF Progress
    <2>4. \A j \in Keys : progress'[c].page[j] =
              IF j \in progress'[c].scanned THEN records[j] ELSE None
      BY <1>1, <1>6, <2>3 DEF Table
    <2> QED
      BY <1>1, <1>4, <2>1, <2>2, <2>3, <2>4
  <1>14. CASE EndScan(c)
    BY <1>5, <1>6, <1>14 DEF EndScan
  <1>15. CASE Fail(c)
    BY <1>5, <1>6, <1>15 DEF Fail
  <1>16. CASE Return(c)
    <2>1. progress[c] = NotStarted
      BY <1>1, <1>16 DEF Return
    <2> QED
      BY <1>7, <1>16, <2>1 DEF Return
  <1> QED
    BY <1>8, <1>9, <1>10, <1>11, <1>12, <1>13, <1>14, <1>15, <1>16 DEF Step

\* The abstract store's copies of the operators of Records are those of Records.
LEMMA SameRecords ==
    /\ Store!Ops = Ops /\ Store!NoCall = NoCall /\ Store!EmptyTable = EmptyTable
    /\ \A op, k, v : /\ Store!Arguments(op, k, v) <=> Arguments(op, k, v)
                     /\ Store!NewCall(op, k, v) = NewCall(op, k, v)
    /\ \A op, k, t : /\ Store!Verdict(op, k, t) = Verdict(op, k, t)
                     /\ Store!Shown(op, k, t) = Shown(op, k, t)
    /\ \A op, k, v, t : Store!Written(op, k, v, t) = Written(op, k, v, t)
  <1>1. Store!EmptyTable = EmptyTable /\ Store!Writes = Writes
    BY DEF EmptyTable, Store!EmptyTable, Writes, Store!Writes
  <1>2. Store!Ops = Ops
    BY <1>1 DEF Ops, Store!Ops
  <1>3. Store!NoCall = NoCall
    BY <1>1 DEF NoCall, Store!NoCall
  <1>4. \A op, k, v : Store!Arguments(op, k, v) <=> Arguments(op, k, v)
    BY DEF Arguments, Store!Arguments
  <1>5. \A op, k, v : Store!NewCall(op, k, v) = NewCall(op, k, v)
    BY <1>1 DEF NewCall, Store!NewCall
  <1>6. \A op, k, t : Store!Verdict(op, k, t) = Verdict(op, k, t)
    BY DEF Verdict, Store!Verdict
  <1>7. \A op, k, t : Store!Shown(op, k, t) = Shown(op, k, t)
    BY <1>1 DEF Shown, Store!Shown
  <1>8. \A op, k, v, t : Store!Written(op, k, v, t) = Written(op, k, v, t)
    BY <1>1, <1>6 DEF Written, Store!Written
  <1> QED
    BY <1>1, <1>2, <1>3, <1>4, <1>5, <1>6, <1>7, <1>8

\* A step of the Redis adapter is a step of the abstract store, or invisible in it:
\* a write takes effect with its SET, a list with the end of its SCAN.
LEMMA AloneRefines ==
    ASSUME OneAtATime, AloneInv, NEW c \in Clients, Step(c)
    PROVE  [Store!Next]_(Store!vars)
  <1> USE DEF Store!vars
  <1>1. /\ records \in Table
        /\ calls \in [Clients -> Call]
        /\ progress \in [Clients -> Progress]
    BY DEF AloneInv, TypeOK, Progress
  <1>2. ASSUME Store!Perform(c) \/ Store!Fail(c) \/ Store!Return(c)
        PROVE  Store!Next
    BY <1>2 DEF Store!Next
  <1>3. ASSUME NEW op \in Offered, NEW k \in Keys \union {None}, NEW v \in Values \union {None},
               Invoke(c, op, k, v)
        PROVE  Store!Next
    <2>1. Store!Invoke(c, op, k, v)
      BY <1>3, SameRecords DEF Invoke, Store!Invoke
    <2> QED
      BY <2>1, SameRecords, BackendAssumption DEF Store!Next
  <1>4. CASE Lock(c)
    BY <1>4 DEF Lock
  <1>5. CASE Perform(c)
    <2>1. Readable = {records}
      BY ReadableTables DEF AloneInv, EventualReads, OneAtATime, Locks
    <2>2. Answer(c, Verdict(calls[c].op, calls[c].key, records),
                    Shown(calls[c].op, calls[c].key, records))
      BY <1>5, <2>1 DEF Perform
    <2> QED
      BY <1>2, <1>5, <2>2, SameRecords DEF Perform, MayProceed, Answer, Store!Perform
  <1>6. CASE Test(c)
    <2> DEFINE verdict == Verdict(calls[c].op, calls[c].key, records)
    <2>1. calls[c].answer = "pending" /\ calls[c].op \in Writes /\ UNCHANGED records
      BY <1>6 DEF Test, MayProceed, OneStep, Writes
    <2>2. CASE verdict # "ok" /\ Answer(c, verdict, EmptyTable)
      <3>1. Shown(calls[c].op, calls[c].key, records) = EmptyTable
        BY <2>1 DEF Shown, Writes
      <3>2. Written(calls[c].op, calls[c].key, calls[c].value, records) = records
        BY <2>2 DEF Written
      <3> QED
        BY <1>2, <2>1, <2>2, <3>1, <3>2, SameRecords DEF Answer, Store!Perform
    <2> QED
      BY <1>6, <2>1, <2>2 DEF Test
  <1>7. CASE Write(c)
    <2>1. /\ calls[c].answer = "pending" /\ calls[c].op \in Writes
          /\ Verdict(calls[c].op, calls[c].key, records) = "ok"
      BY <1>7 DEF Write, MayProceed, AloneInv
    <2>2. /\ Shown(calls[c].op, calls[c].key, records) = EmptyTable
          /\ Written(calls[c].op, calls[c].key, calls[c].value, records) =
                [records EXCEPT ![calls[c].key] = calls[c].value]
      BY <2>1 DEF Shown, Written, Writes
    <2> QED
      BY <1>2, <1>7, <2>1, <2>2, SameRecords DEF Write, Answer, Store!Perform
  <1>8. ASSUME NEW k \in Keys, Scan(c, k)
        PROVE  UNCHANGED Store!vars
    BY <1>8 DEF Scan
  <1>9. CASE EndScan(c)
    <2>1. /\ calls[c].answer = "pending" /\ calls[c].op = "list"
          /\ progress[c].scanned = Keys /\ UNCHANGED records
          /\ Answer(c, "ok", progress[c].page)
      BY <1>9 DEF EndScan, MayProceed
    <2>2. progress[c].page = records
      <3>1. progress[c].page \in Table /\ \A k \in Keys : progress[c].page[k] = records[k]
        BY <1>1, <2>1 DEF AloneInv, Progress
      <3> QED
        BY <1>1, <3>1 DEF Table
    <2>3. /\ Shown(calls[c].op, calls[c].key, records) = records
          /\ Verdict(calls[c].op, calls[c].key, records) = "ok"
          /\ Written(calls[c].op, calls[c].key, calls[c].value, records) = records
      BY <2>1 DEF Shown, Verdict, Written, Writes
    <2> QED
      BY <1>2, <2>1, <2>2, <2>3, SameRecords DEF Answer, Store!Perform
  <1>10. CASE Fail(c)
    BY <1>2, <1>10, SameRecords DEF Fail, MayProceed, Answer, Store!Fail
  <1>11. CASE Return(c)
    BY <1>2, <1>11, SameRecords DEF Return, Store!Return
  <1> QED
    BY <1>3, <1>4, <1>5, <1>6, <1>7, <1>8, <1>9, <1>10, <1>11 DEF Step

\* The invariant of an adapter whose calls do not overlap, and read what is stored.
THEOREM AloneInvariant == Spec => []AloneInv
  <1>1. AloneInv /\ [Next]_vars /\ TypeOK' => AloneInv'
    <2> SUFFICES ASSUME AloneInv, [Next]_vars, TypeOK'
                 PROVE  AloneInv'
      OBVIOUS
    <2>1. UNCHANGED backend
      BY DEF Next, vars
    <2>2. OneAtATime' = OneAtATime
      BY <2>1 DEF OneAtATime, Locks
    <2>3. CASE ~OneAtATime
      BY <2>2, <2>3 DEF AloneInv
    <2>4. CASE OneAtATime /\ UNCHANGED vars
      BY <2>2, <2>4 DEF vars, AloneInv, Locks
    <2>5. CASE OneAtATime /\ Next
      BY <2>1, <2>5, NextIsStep, AloneStep
    <2> QED
      BY <2>3, <2>4, <2>5
  <1> QED
    BY <1>1, AloneInit, TypeCorrect, PTL DEF Spec

\* Calls that do not overlap, and read what is stored, implement the abstract store,
\* for any number of keys and values: those of any number of callers on Redis, whose
\* lock keeps them apart, and those of a single caller on fjall.
THEOREM CallsAloneLinearizable == Spec => Linearizable
  <1>1. Init => Store!Init
    BY SameRecords DEF Init, Store!Init, Store!Table, Table
  <1>2. AloneInv /\ [Next]_vars => [OneAtATime => Store!Next]_<<records, calls>>
    <2> SUFFICES ASSUME AloneInv, [Next]_vars, OneAtATime
                 PROVE  [Store!Next]_(Store!vars)
      BY DEF Store!vars
    <2>1. CASE UNCHANGED vars
      BY <2>1 DEF vars, Store!vars
    <2> QED
      BY <2>1, NextIsStep, AloneRefines
  <1> QED
    BY <1>1, <1>2, AloneInvariant, PTL DEF Spec, Linearizable

-----------------------------------------------------------------------------
(* DynamoDB                                                                *)

\* A step of a client keeps what its list has collected among what the records
\* have held.
LEMMA PagesStep ==
    ASSUME PagesInv, EventualReads, NEW c \in Clients, Step(c), Replicate
    PROVE  \A d \in Clients :
             /\ ~progress'[d].tested
             /\ \A k \in progress'[d].scanned : progress'[d].page[k] \in replicas'[k]
  <1>1. /\ progress \in [Clients -> Progress]
        /\ \A d \in Clients :
             /\ ~progress[d].tested /\ progress[d].scanned \subseteq Keys
             /\ \A k \in progress[d].scanned : progress[d].page[k] \in replicas[k]
    BY DEF PagesInv, TypeOK, Progress
  <1>2. \A k \in Keys : replicas[k] \subseteq replicas'[k]
    BY DEF Replicate
  <1>3. ASSUME progress' = [progress EXCEPT ![c] = NotStarted] \/ UNCHANGED progress,
               NEW d \in Clients
        PROVE  /\ ~progress'[d].tested
               /\ \A k \in progress'[d].scanned : progress'[d].page[k] \in replicas'[k]
    <2>1. progress'[d] = progress[d] \/ progress'[d] = NotStarted
      BY <1>1, <1>3
    <2> QED
      BY <1>1, <1>2, <2>1, NotStartedType
  <1>4. ~Test(c)
    BY DEF Test, OneStep, EventualReads
  <1>5. ASSUME NEW k \in Keys, Scan(c, k), NEW d \in Clients
        PROVE  /\ ~progress'[d].tested
               /\ \A l \in progress'[d].scanned : progress'[d].page[l] \in replicas'[l]
    <2>1. PICK found \in replicas[k] :
             progress' = [progress EXCEPT ![c].scanned = @ \union {k}, ![c].page[k] = found]
      BY <1>5 DEF Scan
    <2>2. CASE d # c
      <3>1. progress'[d] = progress[d]
        BY <1>1, <2>1, <2>2
      <3> QED
        BY <1>1, <1>2, <3>1
    <2>3. CASE d = c
      <3>1. /\ progress'[c].tested = progress[c].tested
            /\ progress'[c].scanned = progress[c].scanned \union {k}
            /\ progress'[c].page = [progress[c].page EXCEPT ![k] = found]
        BY <1>1, <2>1 DEF Progress
      <3>2. progress[c].page \in Table
        BY <1>1 DEF Progress
      <3> QED
        BY <1>1, <1>2, <2>1, <2>3, <3>1, <3>2 DEF Table
    <2> QED
      BY <2>2, <2>3
  <1>6. CASE Lock(c) \/ Return(c)
    BY <1>3, <1>6 DEF Lock, Return
  <1>7. ASSUME NEW op \in Offered, NEW k \in Keys \union {None}, NEW v \in Values \union {None},
               Invoke(c, op, k, v)
        PROVE  UNCHANGED progress
    BY <1>7 DEF Invoke
  <1>8. CASE Perform(c) \/ Write(c) \/ EndScan(c) \/ Fail(c)
    BY <1>3, <1>8 DEF Perform, Write, EndScan, Fail, Answer
  <1> QED
    BY <1>3, <1>4, <1>5, <1>6, <1>7, <1>8 DEF Step

\* On DynamoDB no write is in two steps, and what a list has collected was there at
\* some time.
THEOREM PagesInvariant == Spec => []PagesInv
  <1>1. Init => PagesInv
    BY InitType, NotStartedType DEF Init, PagesInv
  <1>2. PagesInv /\ [Next]_vars /\ TypeOK' => PagesInv'
    <2> SUFFICES ASSUME PagesInv, [Next]_vars, TypeOK'
                 PROVE  PagesInv'
      OBVIOUS
    <2>1. EventualReads' = EventualReads
      BY DEF Next, vars, EventualReads
    <2>2. CASE UNCHANGED vars
      BY <2>1, <2>2 DEF vars, PagesInv
    <2>3. CASE Next
      <3>1. Replicate
        BY <2>3 DEF Next
      <3> QED
        BY <2>1, <2>3, <3>1, NextIsStep, PagesStep DEF PagesInv
    <2> QED
      BY <2>2, <2>3
  <1> QED
    BY <1>1, <1>2, TypeCorrect, PTL DEF Spec

\* The copies of EventualStore's are those of Records.
LEMMA SameEventual ==
    /\ Eventual!Ops = Ops /\ Eventual!NoCall = NoCall /\ Eventual!EmptyTable = EmptyTable
    /\ Eventual!Writes = Writes /\ Eventual!Table = Table
    /\ \A op, k, v : /\ Eventual!Arguments(op, k, v) <=> Arguments(op, k, v)
                     /\ Eventual!NewCall(op, k, v) = NewCall(op, k, v)
    /\ \A op, k, t : /\ Eventual!Verdict(op, k, t) = Verdict(op, k, t)
                     /\ Eventual!Shown(op, k, t) = Shown(op, k, t)
    /\ \A op, k, v, t : Eventual!Written(op, k, v, t) = Written(op, k, v, t)
  <1>1. /\ Eventual!EmptyTable = EmptyTable /\ Eventual!Writes = Writes
        /\ Eventual!Table = Table
    BY DEF EmptyTable, Eventual!EmptyTable, Writes, Eventual!Writes, Table, Eventual!Table
  <1>2. Eventual!Ops = Ops
    BY <1>1 DEF Ops, Eventual!Ops
  <1>3. Eventual!NoCall = NoCall
    BY <1>1 DEF NoCall, Eventual!NoCall
  <1>4. \A op, k, v : Eventual!Arguments(op, k, v) <=> Arguments(op, k, v)
    BY DEF Arguments, Eventual!Arguments
  <1>5. \A op, k, v : Eventual!NewCall(op, k, v) = NewCall(op, k, v)
    BY <1>1 DEF NewCall, Eventual!NewCall
  <1>6. \A op, k, t : Eventual!Verdict(op, k, t) = Verdict(op, k, t)
    BY DEF Verdict, Eventual!Verdict
  <1>7. \A op, k, t : Eventual!Shown(op, k, t) = Shown(op, k, t)
    BY <1>1 DEF Shown, Eventual!Shown
  <1>8. \A op, k, v, t : Eventual!Written(op, k, v, t) = Written(op, k, v, t)
    BY <1>1, <1>6 DEF Written, Eventual!Written
  <1> QED
    BY <1>1, <1>2, <1>3, <1>4, <1>5, <1>6, <1>7, <1>8

\* A step on DynamoDB is a step of the abstract store with eventually consistent
\* reads, or invisible in it: a list is a step of it when its last page is there.
LEMMA DynamoDbRefines ==
    ASSUME EventualReads, PagesInv, NEW c \in Clients, Step(c), Replicate
    PROVE  [Eventual!Next]_(Eventual!vars)
  <1> USE DEF Eventual!vars
  <1>1. /\ records \in Table
        /\ replicas \in [Keys -> SUBSET (Values \union {None})]
        /\ calls \in [Clients -> Call] /\ progress \in [Clients -> Progress]
        /\ \A k \in Keys : records[k] \in replicas[k]
    BY DEF PagesInv, TypeOK, Progress
  <1>2. replicas' = [k \in Keys |-> replicas[k] \union {records'[k]}]
    BY DEF Replicate
  <1>3. records' = records => replicas' = replicas
    BY <1>1, <1>2
  <1>4. ASSUME \/ Eventual!Write(c) \/ Eventual!Fail(c) \/ Eventual!Return(c)
               \/ \E t \in Table : Eventual!Look(c, t)
        PROVE  Eventual!Next
    BY <1>4, SameEventual DEF Eventual!Next
  <1>5. ASSUME NEW op \in Offered, NEW k \in Keys \union {None}, NEW v \in Values \union {None},
               Invoke(c, op, k, v)
        PROVE  Eventual!Next
    <2>1. Eventual!Invoke(c, op, k, v)
      BY <1>3, <1>5, SameEventual DEF Invoke, Eventual!Invoke
    <2> QED
      BY <2>1, SameEventual, BackendAssumption DEF Eventual!Next
  <1>6. ~Lock(c) /\ ~Test(c) /\ ~Write(c)
    <2>1. ~progress[c].tested /\ ~Locks
      BY DEF PagesInv, EventualReads, Locks
    <2> QED
      BY <2>1 DEF Lock, Test, Write, OneStep, EventualReads
  <1>7. CASE Perform(c)
    <2>1. calls[c].answer = "pending"
          /\ records' = Written(calls[c].op, calls[c].key, calls[c].value, records)
      BY <1>7 DEF Perform, MayProceed
    <2>2. CASE calls[c].op \in Writes
      <3>1. Answer(c, Verdict(calls[c].op, calls[c].key, records), EmptyTable)
        <4>1. Shown(calls[c].op, calls[c].key, records) = EmptyTable
          BY <2>2 DEF Shown, Writes
        <4> QED
          BY <1>7, <2>2, <4>1 DEF Perform
      <3>2. Eventual!Write(c)
        BY <1>2, <2>1, <2>2, <3>1, SameEventual DEF Answer, Eventual!Write, Eventual!Answer
      <3> QED
        BY <1>4, <3>2
    <2>3. CASE calls[c].op \notin Writes
      <3>1. PICK t \in Readable :
              Answer(c, Verdict(calls[c].op, calls[c].key, t), Shown(calls[c].op, calls[c].key, t))
        BY <1>7, <2>3 DEF Perform
      <3>2. t \in Table /\ \A k \in Keys : t[k] \in replicas[k]
        BY <3>1 DEF Readable
      <3>3. records' = records /\ replicas' = replicas
        BY <1>3, <2>1, <2>3 DEF Written
      <3>4. Eventual!Look(c, t)
        BY <2>1, <2>3, <3>1, <3>2, <3>3, SameEventual DEF Answer, Eventual!Look, Eventual!Answer
      <3> QED
        BY <1>4, <3>2, <3>4
    <2> QED
      BY <2>2, <2>3
  <1>8. ASSUME NEW k \in Keys, Scan(c, k)
        PROVE  UNCHANGED Eventual!vars
    BY <1>3, <1>8 DEF Scan
  <1>9. CASE EndScan(c)
    <2>1. /\ calls[c].answer = "pending" /\ calls[c].op = "list"
          /\ progress[c].scanned = Keys /\ UNCHANGED records
          /\ Answer(c, "ok", progress[c].page)
      BY <1>9 DEF EndScan, MayProceed
    <2> DEFINE t == progress[c].page
    <2>2. t \in Table /\ \A k \in Keys : t[k] \in replicas[k]
      BY <1>1, <2>1 DEF PagesInv, Progress
    <2>3. Shown(calls[c].op, calls[c].key, t) = t /\ Verdict(calls[c].op, calls[c].key, t) = "ok"
          /\ calls[c].op \notin Writes
      BY <2>1 DEF Shown, Verdict, Writes
    <2>4. Answer(c, "ok", t) /\ records' = records /\ replicas' = replicas
      BY <1>3, <2>1
    <2> HIDE DEF t
    <2>5. Eventual!Look(c, t)
      BY <2>1, <2>2, <2>3, <2>4, SameEventual DEF Answer, Eventual!Look, Eventual!Answer
    <2> QED
      BY <1>4, <2>2, <2>5
  <1>10. CASE Fail(c)
    BY <1>3, <1>4, <1>10, SameEventual DEF Fail, MayProceed, Answer, Eventual!Fail, Eventual!Answer
  <1>11. CASE Return(c)
    BY <1>3, <1>4, <1>11, SameEventual DEF Return, Eventual!Return
  <1> QED
    BY <1>5, <1>6, <1>7, <1>8, <1>9, <1>10, <1>11 DEF Step

\* DynamoDbStorage behaves, for any number of callers that overlap, as a table whose
\* writes take effect one at a time and whose reads and lists show of each record
\* something it holds or has held.
THEOREM DynamoDbEventuallyConsistent == Spec => EventuallyConsistent
  <1>1. Init => Eventual!Init
    <2> SUFFICES ASSUME Init
                 PROVE  \A k \in Keys : records[k] \in replicas[k]
      BY SameEventual DEF Init, Eventual!Init
    <2> QED
      BY DEF Init
  <1>2. PagesInv /\ [Next]_vars => [EventualReads => Eventual!Next]_<<records, replicas, calls>>
    <2> SUFFICES ASSUME PagesInv, [Next]_vars, EventualReads
                 PROVE  [Eventual!Next]_(Eventual!vars)
      BY DEF Eventual!vars
    <2>1. CASE UNCHANGED vars
      BY <2>1 DEF vars, Eventual!vars
    <2>2. CASE Next
      <3>1. Replicate
        BY <2>2 DEF Next
      <3> QED
        BY <2>2, <3>1, NextIsStep, DynamoDbRefines
    <2> QED
      BY <2>1, <2>2
  <1> QED
    BY <1>1, <1>2, PagesInvariant, PTL DEF Spec, EventuallyConsistent

-----------------------------------------------------------------------------
(* Creates                                                                 *)

\* A create on Redis or DynamoDB is answered "ok" by a step that finds no record:
\* the service tests and writes in one request, or the lock keeps a tested key as
\* it was.
LEMMA FillsVacancyStep ==
    ASSUME AloneInv, PagesInv, OneAtATime \/ EventualReads,
           NEW d \in Clients, Step(d),
           NEW c \in Clients, calls[c].op = "create",
           calls[c].answer = "pending", calls'[c].answer = "ok"
    PROVE  records[calls[c].key] = None
  <1>1. calls \in [Clients -> Call] /\ calls[c] \in Call
    BY DEF AloneInv, TypeOK
  \* It is a step of the client itself.
  <1>2. ASSUME NEW call, calls' = [calls EXCEPT ![d] = call]
        PROVE  c = d
    BY <1>1, <1>2
  <1>3. ASSUME NEW answer, NEW seen, Answer(d, answer, seen)
        PROVE  c = d /\ answer = "ok"
    <2>1. calls' = [calls EXCEPT ![d] = [calls[d] EXCEPT !.answer = answer, !.seen = seen]]
      BY <1>1, <1>3 DEF Answer
    <2>2. c = d
      BY <1>2, <2>1
    <2>3. calls'[d].answer = answer
      BY <1>1, <2>1 DEF Call
    <2> QED
      BY <2>2, <2>3
  <1>4. ASSUME NEW op \in Offered, NEW k \in Keys \union {None}, NEW v \in Values \union {None},
               Invoke(d, op, k, v)
        PROVE  FALSE
    BY <1>2, <1>4 DEF Invoke
  <1>5. CASE Lock(d)
    BY <1>5 DEF Lock
  <1>6. CASE Perform(d)
    <2>1. calls[d].op \in Writes =>
            c = d /\ Verdict(calls[d].op, calls[d].key, records) = "ok"
      BY <1>3, <1>6 DEF Perform
    <2>2. c = d
      BY <1>3, <1>6 DEF Perform
    <2>3. c = d /\ Verdict("create", calls[c].key, records) = "ok"
      BY <2>1, <2>2 DEF Writes
    <2> QED
      BY <2>3 DEF Verdict
  <1>7. CASE Test(d)
    <2>1. CASE Answer(d, Verdict(calls[d].op, calls[d].key, records), EmptyTable)
      <3>1. c = d /\ Verdict("create", calls[c].key, records) = "ok"
        BY <1>3, <2>1
      <3> QED
        BY <3>1 DEF Verdict
    <2> QED
      BY <1>7, <2>1 DEF Test
  <1>8. CASE Write(d)
    <2>1. c = d /\ progress[c].tested
      BY <1>3, <1>8 DEF Write
    <2>2. CASE OneAtATime
      <3>1. Verdict("create", calls[c].key, records) = "ok"
        BY <2>1, <2>2 DEF AloneInv
      <3> QED
        BY <3>1 DEF Verdict
    <2>3. CASE EventualReads
      BY <2>1, <2>3 DEF PagesInv
    <2> QED
      BY <2>2, <2>3
  <1>9. ASSUME NEW k \in Keys, Scan(d, k)
        PROVE  FALSE
    BY <1>9 DEF Scan
  <1>10. CASE EndScan(d)
    BY <1>3, <1>10 DEF EndScan
  <1>11. CASE Fail(d)
    BY <1>3, <1>11 DEF Fail
  <1>12. CASE Return(d)
    BY <1>2, <1>12 DEF Return
  <1> QED
    BY <1>4, <1>5, <1>6, <1>7, <1>8, <1>9, <1>10, <1>11, <1>12 DEF Step

\* What the test of the adapters says, "duplicate create fails", holds of
\* concurrent creates too, where the adapter is not fjall: of any number of them on
\* Redis and DynamoDB at most one finds the key vacant and is answered "ok".
\* (StorageFjallTwice shows that on fjall two may.)
THEOREM CreatesFillVacancies ==
    ASSUME "fjall" \notin Backends
    PROVE  Spec => CreateFillsVacancy
  <1>1. AloneInv /\ PagesInv /\ [Next]_vars =>
          [\A c \in Clients :
             (calls[c].op = "create" /\ calls[c].answer = "pending" /\ calls'[c].answer = "ok")
               => records[calls[c].key] = None]_vars
    <2> SUFFICES ASSUME AloneInv, PagesInv, Next
                 PROVE  \A c \in Clients :
                          (calls[c].op = "create" /\ calls[c].answer = "pending"
                             /\ calls'[c].answer = "ok") => records[calls[c].key] = None
      OBVIOUS
    <2>1. OneAtATime \/ EventualReads
      BY BackendAssumption DEF AloneInv, TypeOK, OneAtATime, Locks, EventualReads
    <2> QED
      BY <2>1, NextIsStep, FillsVacancyStep
  <1> QED
    BY <1>1, AloneInvariant, PagesInvariant, PTL DEF Spec, CreateFillsVacancy

-----------------------------------------------------------------------------
(* The keys of the records                                                 *)

Plain(name) == \A i \in 1..Len(name) : name[i] # "#"
Separated(name, rest) == name \o <<"#">> \o rest

\* The first "#" tells where a plain name ends.
LEMMA FirstSeparator ==
    ASSUME NEW a \in Name, NEW b \in Name, NEW x \in Name, NEW y \in Name,
           Plain(a), Plain(b), Separated(a, x) = Separated(b, y)
    PROVE  a = b /\ x = y
  <1> DEFINE s == a \o <<"#">> \o x
             t == b \o <<"#">> \o y
  <1>0. <<"#">> \in Name /\ Len(<<"#">>) = 1 /\ <<"#">>[1] = "#"
    BY RecordKeysAssumption DEF Name
  <1>1. /\ Len(a) \in Nat /\ Len(b) \in Nat
        /\ a \o <<"#">> \in Name /\ Len(a \o <<"#">>) = Len(a) + 1
        /\ b \o <<"#">> \in Name /\ Len(b \o <<"#">>) = Len(b) + 1
    BY <1>0, ConcatProperties, LenProperties DEF Name
  <1>2. /\ \A i \in 1..Len(a) : s[i] = a[i]
        /\ s[Len(a) + 1] = "#"
    <2>1. \A i \in 1..Len(a) + 1 : (a \o <<"#">>)[i] = IF i <= Len(a) THEN a[i] ELSE "#"
      BY <1>0, <1>1, ConcatProperties DEF Name
    <2>2. Len(x) \in Nat /\ \A i \in 1..Len(a) + 1 : s[i] = (a \o <<"#">>)[i]
      BY <1>1, ConcatProperties, LenProperties DEF Name
    <2> QED
      BY <1>1, <2>1, <2>2
  <1>3. /\ \A i \in 1..Len(b) : t[i] = b[i]
        /\ t[Len(b) + 1] = "#"
    <2>1. \A i \in 1..Len(b) + 1 : (b \o <<"#">>)[i] = IF i <= Len(b) THEN b[i] ELSE "#"
      BY <1>0, <1>1, ConcatProperties DEF Name
    <2>2. Len(y) \in Nat /\ \A i \in 1..Len(b) + 1 : t[i] = (b \o <<"#">>)[i]
      BY <1>1, ConcatProperties, LenProperties DEF Name
    <2> QED
      BY <1>1, <2>1, <2>2
  <1>4. s = t
    BY DEF Separated
  <1> HIDE DEF s, t
  <1>5. Len(a) = Len(b)
    <2>1. CASE Len(a) < Len(b)
      <3>1. Len(a) + 1 \in 1..Len(b)
        BY <1>1, <2>1
      <3>2. b[Len(a) + 1] = "#"
        BY <1>2, <1>3, <1>4, <3>1
      <3> QED
        BY <3>1, <3>2 DEF Plain
    <2>2. CASE Len(b) < Len(a)
      <3>1. Len(b) + 1 \in 1..Len(a)
        BY <1>1, <2>2
      <3>2. a[Len(b) + 1] = "#"
        BY <1>2, <1>3, <1>4, <3>1
      <3> QED
        BY <3>1, <3>2 DEF Plain
    <2> QED
      BY <1>1, <2>1, <2>2
  <1>6. a = b
    <2>1. \A i \in 1..Len(a) : a[i] = b[i]
      BY <1>2, <1>3, <1>4, <1>5
    <2> QED
      BY <1>5, <2>1, SeqEqual DEF Name
  <1>7. x = y
    <2> DEFINE p == a \o <<"#">>
    <2>1. p \in Name /\ p \o x = p \o y
      BY <1>1, <1>4, <1>6 DEF s, t
    <2> HIDE DEF p
    <2> QED
      BY <2>1, ConcatSimplifications DEF Name
  <1> QED
    BY <1>6, <1>7

\* Two records share a sort key only if they share their names, provided that no
\* name but the entity's has a "#" in it.
LEMMA SortKeysDiffer ==
    ASSUME PlainNames, NEW k \in Keys, NEW l \in Keys, sk(k) = sk(l)
    PROVE  k = l
  <1>1. /\ k \in [authority_id : Name, action : Name, resource : Name, entity_id : Name]
        /\ l \in [authority_id : Name, action : Name, resource : Name, entity_id : Name]
    BY RecordKeysAssumption
  <1>2. /\ Plain(k.authority_id) /\ Plain(k.action) /\ Plain(k.resource)
        /\ Plain(l.authority_id) /\ Plain(l.action) /\ Plain(l.resource)
    BY DEF PlainNames, Plain
  <1>3. ASSUME NEW n \in Name, NEW m \in Name
        PROVE  Separated(n, m) \in Name
    <2>1. <<"#">> \in Name
      BY RecordKeysAssumption DEF Name
    <2>2. n \o <<"#">> \in Name
      BY <2>1, ConcatProperties DEF Name
    <2> QED
      BY <2>2, ConcatProperties DEF Name, Separated
  <1> DEFINE r(key) == Separated(key.resource, key.entity_id)
             a(key) == Separated(key.action, r(key))
             u(key) == Separated(key.authority_id, a(key))
  <1>4. r(k) \in Name /\ r(l) \in Name
    BY <1>1, <1>3
  <1>5. a(k) \in Name /\ a(l) \in Name
    <2> HIDE DEF r
    <2> QED
      BY <1>1, <1>3, <1>4
  <1>6. u(k) = u(l)
    <2>1. sk(k) = TR_SK_PREFIX \o u(k) /\ sk(l) = TR_SK_PREFIX \o u(l)
      BY DEF sk, Separated
    <2>2. u(k) \in Name /\ u(l) \in Name
      <3> HIDE DEF a
      <3> QED
        BY <1>1, <1>3, <1>5
    <2>3. TR_SK_PREFIX \in Name
      BY RecordKeysAssumption DEF TR_SK_PREFIX, Name
    <2> HIDE DEF u
    <2> QED
      BY <2>1, <2>2, <2>3, ConcatSimplifications DEF Name
  <1>7. k.authority_id = l.authority_id /\ a(k) = a(l)
    <2> HIDE DEF a
    <2> QED
      BY <1>1, <1>2, <1>5, <1>6, FirstSeparator
  <1>8. k.action = l.action /\ r(k) = r(l)
    <2> HIDE DEF r
    <2> QED
      BY <1>1, <1>2, <1>4, <1>7, FirstSeparator
  <1>9. k.resource = l.resource /\ k.entity_id = l.entity_id
    BY <1>1, <1>2, <1>8, FirstSeparator
  <1> QED
    BY <1>1, <1>7, <1>8, <1>9

\* The two tables hold the same records, and the last two answers were the same.
NamedInv == NamedTypeOK /\ BackendsAgree /\ \A k \in Keys : joined[sk(k)] = named[k]

\* A write at a place of either table does the same to both.
LEMMA BothWritten ==
    ASSUME PlainNames, NamedInv, NEW op \in Ops, NEW k \in Keys, NEW i \in Item \union {None},
           named' = Written(op, k, i, named), joined' = Written(op, sk(k), i, joined)
    PROVE  NamedTypeOK' /\ \A l \in Keys : joined'[sk(l)] = named'[l]
  <1>1. \A l \in Keys : sk(l) \in SortKeys
    BY DEF SortKeys
  <1>2. /\ named \in [Keys -> Item \union {None}] /\ joined \in [SortKeys -> Item \union {None}]
        /\ \A l \in Keys : joined[sk(l)] = named[l]
    BY DEF NamedInv, NamedTypeOK
  <1>3. Verdict(op, k, named) = Verdict(op, sk(k), joined)
    BY <1>2 DEF Verdict
  <1>4. CASE op \in Writes /\ Verdict(op, k, named) = "ok"
    <2>1. named' = [named EXCEPT ![k] = i] /\ joined' = [joined EXCEPT ![sk(k)] = i]
      BY <1>3, <1>4 DEF Written
    <2>2. \A l \in Keys : joined'[sk(l)] = named'[l]
      BY <1>1, <1>2, <2>1, SortKeysDiffer
    <2> QED
      BY <1>1, <1>2, <2>1, <2>2 DEF NamedTypeOK
  <1>5. CASE ~(op \in Writes /\ Verdict(op, k, named) = "ok")
    BY <1>2, <1>3, <1>5 DEF Written, NamedTypeOK
  <1> QED
    BY <1>4, <1>5

\* Both tables answer alike.
LEMMA BothServed ==
    ASSUME NamedInv
    PROVE  /\ Served("list", None, named) = Served("list", None, joined)
           /\ \A op \in Ops \ {"list"}, k \in Keys : Served(op, k, named) = Served(op, sk(k), joined)
  <1>1. /\ DOMAIN named = Keys /\ DOMAIN joined = SortKeys
        /\ \A k \in Keys : joined[sk(k)] = named[k]
    BY DEF NamedInv, NamedTypeOK
  <1>2. {named[p] : p \in Keys} = {joined[p] : p \in SortKeys}
    <2>1. \A k \in Keys : sk(k) \in SortKeys
      BY DEF SortKeys
    <2>2. \A p \in SortKeys : \E k \in Keys : p = sk(k)
      BY DEF SortKeys
    <2> QED
      BY <1>1, <2>1, <2>2
  <1>3. Served("list", None, named) = Served("list", None, joined)
    BY <1>1, <1>2 DEF Served, Verdict
  <1>4. ASSUME NEW op \in Ops \ {"list"}, NEW k \in Keys
        PROVE  Served(op, k, named) = Served(op, sk(k), joined)
    <2>1. Verdict(op, k, named) = Verdict(op, sk(k), joined)
      BY <1>1, <1>4 DEF Verdict
    <2>2. CASE op = "read"
      <3>1. {named[p] : p \in {k}} = {joined[p] : p \in {sk(k)}}
        BY <1>1
      <3> QED
        BY <2>1, <2>2, <3>1 DEF Served
    <2>3. CASE op # "read"
      BY <1>4, <2>1, <2>3 DEF Served
    <2> QED
      BY <2>2, <2>3
  <1> QED
    BY <1>3, <1>4

\* A backend that keeps records under their joined names answers as one that keeps
\* them under the names themselves, for any records of which only the entity's name
\* may have a "#" in it: TrustRecordKey::sk is one-to-one on them.
THEOREM BackendsAgreeHolds ==
    ASSUME PlainNames
    PROVE  NamedSpec => []BackendsAgree
  <1>1. NamedInit => NamedInv
    <2> SUFFICES ASSUME NamedInit
                 PROVE  NamedInv
      OBVIOUS
    <2>1. NamedTypeOK /\ BackendsAgree
      BY DEF NamedInit, NamedTypeOK, BackendsAgree
    <2>2. \A k \in Keys : sk(k) \in SortKeys
      BY DEF SortKeys
    <2> QED
      BY <2>1, <2>2 DEF NamedInit, NamedInv
  <1>2. NamedInv /\ [NamedNext]_namedVars => NamedInv'
    <2> SUFFICES ASSUME NamedInv, [NamedNext]_namedVars
                 PROVE  NamedInv'
      OBVIOUS
    <2>1. ASSUME NEW op \in Ops, NEW k \in Keys, NEW v \in Values \union {None}, OnRecord(op, k, v)
          PROVE  NamedInv'
      <3>1. op # "list"
        BY <2>1, NoneAssumption DEF OnRecord, Arguments
      <3>2. item(k, v) \in Item \union {None}
        BY DEF item, Item
      <3>3. NamedTypeOK' /\ \A l \in Keys : joined'[sk(l)] = named'[l]
        BY <2>1, <3>2, BothWritten DEF OnRecord
      <3>4. BackendsAgree'
        BY <2>1, <3>1, BothServed DEF OnRecord, BackendsAgree
      <3> QED
        BY <3>3, <3>4 DEF NamedInv
    <2>2. CASE OnAll
      <3>1. BackendsAgree'
        BY <2>2, BothServed DEF OnAll, BackendsAgree
      <3> QED
        BY <2>2, <3>1 DEF OnAll, NamedInv, NamedTypeOK
    <2>3. CASE UNCHANGED namedVars
      BY <2>3 DEF namedVars, NamedInv, NamedTypeOK, BackendsAgree
    <2> QED
      BY <2>1, <2>2, <2>3 DEF NamedNext
  <1>3. NamedInv => BackendsAgree
    BY DEF NamedInv
  <1> QED
    BY <1>1, <1>2, <1>3, PTL DEF NamedSpec

=============================================================================
