--------------------------- MODULE GitTrustProofs ----------------------------
(***************************************************************************)
(* Theorems about the git-trust capability composed with the capability    *)
(* set that registers it, for any number of handlers, requests, members,   *)
(* authorities and failures.                                               *)
(***************************************************************************)
EXTENDS GitTrust, CapabilitiesProofs

\* What the composition maintains.
GitInv ==
    /\ CapabilitiesInv
    /\ TypeOK
    /\ GrantsFollowConfig
    /\ RevocationHolds

\* A step of the composition is a step of the capability set, or leaves it alone.
LEMMA CapabilitiesStep == [Next]_vars => [CapabilitiesNext]_capabilityVars
  BY DEF Next, vars

\* An idle handler is a task.
LEMMA IdleTask ==
    Idle \in Task /\ Idle.pc = "idle" /\ Idle.answer = "none" /\ Idle.promise = Open
  <1>1. (CHOOSE s \in Subjects : TRUE) \in Subjects
    BY GitTrustAssumption
  <1> QED
    BY <1>1, GitTrustAssumption DEF Idle, Task, GitAnswers

\* The program starts in a state of the invariant.
LEMMA GitInitInv == Init => GitInv
  <1> SUFFICES ASSUME Init
               PROVE  GitInv
    OBVIOUS
  <1>1. CapabilitiesInv
    BY InitInv DEF Init
  <1>2. \A t \in Tasks : tasks[t] = Idle
    BY DEF Init
  <1>3. TypeOK
    BY <1>1, <1>2, IdleTask DEF Init, TypeOK, CapabilitiesInv, Writing
  <1>4. GrantsFollowConfig /\ RevocationHolds
    BY <1>2, IdleTask DEF Init, GrantsFollowConfig, RevocationHolds
  <1> QED
    BY <1>1, <1>3, <1>4 DEF GitInv

\* What a handler says of the configuration it works under: the part of TypeOK
\* and GrantsFollowConfig that is about one task.
Faithful(task) ==
    /\ task \in Task
    /\ task.pc \in {"dispatched"} \union Writing => task.authority \in Configs
    /\ task.pc = "idle" => task = Idle
    /\ (task.pc # "idle" /\ task.promise # Open) =>
          /\ task.authority = task.promise
          /\ task.promise = Off => task.answer = "unsupported"

\* The tasks of a state of the invariant are faithful, and only those are.
LEMMA TasksFaithful ==
    ASSUME TypeOK, GrantsFollowConfig
    PROVE  \A t \in Tasks : Faithful(tasks[t])
  BY DEF TypeOK, GrantsFollowConfig, Faithful, KeyOf, GitKeys

\* A handler at work has a record it works on.
LEMMA Working ==
    ASSUME NEW t \in Tasks, Faithful(tasks[t]), tasks[t].pc \in {"dispatched"} \union Writing
    PROVE  KeyOf(t) \in GitKeys
  BY DEF Faithful, Task, KeyOf, GitKeys

\* Only records count as raced.
LEMMA RacesTyped ==
    ASSUME raced \subseteq (IF EventualReads THEN GitKeys ELSE Reading),
           NEW keys \in SUBSET GitKeys, Races(keys), UNCHANGED backend
    PROVE  raced' \subseteq (IF EventualReads THEN GitKeys ELSE Reading)'
  BY DEF Races, EventualReads

\* The replicas hold what records held.
LEMMA ReplicasTyped ==
    ASSUME held \in [GitKeys -> SUBSET Details], Replicate,
           records' \in [GitKeys -> Record \union {NoRecord}]
    PROVE  held' \in [GitKeys -> SUBSET Details]
  <1>1. \A k \in GitKeys : records'[k] # NoRecord => records'[k].details \in Details
    BY DEF Record
  <1> QED
    BY <1>1 DEF Replicate

\* Handlers and administrators keep the invariant, with the capability set left alone.
LEMMA GitStepInv ==
    ASSUME GitInv, GitNext, Replicate, UNCHANGED backend, UNCHANGED capabilityVars
    PROVE  GitInv'
  <1>1. CapabilitiesInv'
    BY NextInv DEF GitInv
  <1>2. \A t \in Tasks : Faithful(tasks[t])
    BY TasksFaithful DEF GitInv
  <1>3. /\ backend \in Backends
        /\ records \in [GitKeys -> Record \union {NoRecord}]
        /\ held \in [GitKeys -> SUBSET Details]
        /\ tasks \in [Tasks -> Task]
        /\ revoked \subseteq GitKeys /\ overtaken \subseteq GitKeys
        /\ raced \subseteq IF EventualReads THEN GitKeys ELSE Reading
        /\ RevocationHolds
    BY DEF GitInv, TypeOK
  \* It is enough that the records are fine and that every task stays faithful.
  <1>4. ASSUME /\ records' \in [GitKeys -> Record \union {NoRecord}]
               /\ revoked' \subseteq GitKeys /\ overtaken' \subseteq GitKeys
               /\ RevocationHolds',
               NEW keys \in SUBSET GitKeys, Races(keys),
               tasks' \in [Tasks -> Task], \A t \in Tasks : Faithful(tasks'[t])
        PROVE  GitInv'
    <2>1. GrantsFollowConfig'
      BY <1>4 DEF GrantsFollowConfig, Faithful
    <2>2. \A t \in Tasks :
            /\ tasks'[t].pc \in {"dispatched"} \union Writing => KeyOf(t)' \in GitKeys
            /\ tasks'[t].pc = "idle" => tasks'[t] = Idle
      BY <1>4 DEF Faithful, KeyOf, GitKeys, Task
    <2>3. held' \in [GitKeys -> SUBSET Details]
      BY <1>3, <1>4, ReplicasTyped
    <2>4. raced' \subseteq (IF EventualReads THEN GitKeys ELSE Reading)'
      BY <1>3, <1>4, RacesTyped
    <2>5. TypeOK'
      BY <1>1, <1>3, <1>4, <2>2, <2>3, <2>4 DEF TypeOK, CapabilitiesInv
    <2> QED
      BY <1>1, <1>4, <2>1, <2>5 DEF GitInv
  <1>5. ASSUME NEW t \in Tasks, NEW r, Faithful(r), tasks' = [tasks EXCEPT ![t] = r]
        PROVE  tasks' \in [Tasks -> Task] /\ \A u \in Tasks : Faithful(tasks'[u])
    BY <1>2, <1>3, <1>5 DEF Faithful
  \* An answer is faithful: it says nothing of a configuration.
  <1>6. ASSUME NEW t \in Tasks, NEW answer \in GitAnswers, Reply(t, answer)
        PROVE  tasks' \in [Tasks -> Task] /\ \A u \in Tasks : Faithful(tasks'[u])
    <2> DEFINE r == [Idle EXCEPT !.pc = "answered", !.answer = answer]
    <2>1. tasks' = [tasks EXCEPT ![t] = r]
      BY <1>6 DEF Reply
    <2>2. r \in Task /\ r.promise = Open /\ r.pc = "answered"
      BY IdleTask DEF Task
    <2> HIDE DEF r
    <2>3. Faithful(r)
      BY <2>2 DEF Faithful, Writing
    <2> QED
      BY <1>5, <2>1, <2>3
  \* A step of a handler that leaves the records alone.
  <1>7. ASSUME UNCHANGED <<records, revoked, overtaken>>, Races({}),
               tasks' \in [Tasks -> Task], \A u \in Tasks : Faithful(tasks'[u])
        PROVE  GitInv'
    BY <1>3, <1>4, <1>7 DEF RevocationHolds
  <1>8. ASSUME NEW t \in Tasks, NEW op \in {"grant", "revoke"}, NEW subject \in Subjects,
               NEW surface \in {dispatcher, query_dispatcher}, Dispatch(t, op, subject, surface)
        PROVE  GitInv'
    <2> DEFINE r == [pc |-> IF surface[Slug] = Off THEN "answered" ELSE "dispatched",
                     op |-> op, authority |-> surface[Slug], subject |-> subject, seen |-> NoDetails,
                     answer |-> IF surface[Slug] = Off THEN "unsupported" ELSE "none",
                     promise |-> promised[Slug]]
    <2>1. surface[Slug] \in Configs \union {Off} /\ promised[Slug] \in Configs \union {Off, Open}
      BY GitTrustAssumption DEF GitInv, CapabilitiesInv, CapabilitiesTypeOK, Surface
    <2>2. promised[Slug] # Open => surface[Slug] = promised[Slug]
      BY GitTrustAssumption DEF GitInv, CapabilitiesInv, AnswersHold
    <2>3. Faithful(r)
      BY <2>1, <2>2, GitTrustAssumption DEF Faithful, Task, GitAnswers, Writing
    <2>4. tasks' = [tasks EXCEPT ![t] = r] /\ UNCHANGED <<records, revoked, overtaken>> /\ Races({})
      BY <1>8 DEF Dispatch
    <2> HIDE DEF r
    <2> QED
      BY <1>5, <1>7, <2>3, <2>4
  \* Going on to the second step of a write.
  <1>9. ASSUME NEW t \in Tasks, NEW pc \in {"tested", "updating"},
               tasks[t].pc \in {"dispatched", "read"},
               tasks' = [tasks EXCEPT ![t].pc = pc]
        PROVE  tasks' \in [Tasks -> Task] /\ \A u \in Tasks : Faithful(tasks'[u])
    <2> DEFINE r == [tasks[t] EXCEPT !.pc = pc]
    <2>1. tasks' = [tasks EXCEPT ![t] = r]
      BY <1>3, <1>9
    <2>2. Faithful(r)
      BY <1>2, <1>9 DEF Faithful, Task, Writing
    <2> HIDE DEF r
    <2> QED
      BY <1>5, <2>1, <2>2
  <1>10. ASSUME NEW t \in Tasks, PutGrant(t), tasks[t].pc \in {"dispatched", "tested"}
         PROVE  GitInv'
    <2> DEFINE new == [authorized |-> TRUE, details |-> NoDetails]
               over == IF records[KeyOf(t)] = NoRecord THEN {} ELSE {KeyOf(t)}
    <2>1. KeyOf(t) \in GitKeys
      BY <1>2, <1>10, Working DEF Writing
    <2>2. new \in Record
      BY GitTrustAssumption DEF Record
    <2>3. /\ records' = [records EXCEPT ![KeyOf(t)] = new] /\ Reply(t, "granted")
          /\ overtaken' = overtaken \union over /\ Races(over) /\ UNCHANGED revoked
      BY <1>10 DEF PutGrant
    <2>4. over \in SUBSET GitKeys
      BY <2>1
    \* A confirmed revocation left a record: putting another one overtakes it.
    <2>5. RevocationHolds'
      <3> SUFFICES ASSUME NEW k \in revoked \ (overtaken \union over)
                   PROVE  records'[k] # NoRecord /\ ~records'[k].authorized
        BY <2>3 DEF RevocationHolds
      <3>1. k \in GitKeys /\ records[k] # NoRecord /\ ~records[k].authorized
        BY <1>3 DEF RevocationHolds
      <3>2. k # KeyOf(t)
        BY <3>1
      <3> HIDE DEF new
      <3> QED
        BY <1>3, <2>1, <2>3, <3>1, <3>2
    <2>6. records' \in [GitKeys -> Record \union {NoRecord}]
      <3> HIDE DEF new
      <3> QED
        BY <1>3, <2>2, <2>3
    <2>7. "granted" \in GitAnswers
      BY DEF GitAnswers
    <2> HIDE DEF over, new
    <2> QED
      BY <1>3, <1>4, <1>6, <2>3, <2>4, <2>5, <2>6, <2>7
  <1>11. ASSUME NEW t \in Tasks, Grant(t)
         PROVE  GitInv'
    <2>1. CASE PutGrant(t)
      BY <1>10, <1>11, <2>1 DEF Grant
    <2>2. CASE /\ tasks' = [tasks EXCEPT ![t].pc = "tested"]
               /\ Races({}) /\ UNCHANGED <<records, revoked, overtaken>>
      BY <1>7, <1>9, <1>11, <2>2 DEF Grant
    <2>3. CASE /\ Reply(t, "already_granted")
               /\ Races({}) /\ UNCHANGED <<records, revoked, overtaken>>
      BY <1>6, <1>7, <2>3 DEF GitAnswers
    <2> QED
      BY <1>11, <2>1, <2>2, <2>3 DEF Grant
  <1>12. ASSUME NEW t \in Tasks, RevokeRead(t)
         PROVE  GitInv'
    <2>1. tasks[t].pc = "dispatched" /\ UNCHANGED <<records, revoked, overtaken>> /\ Races({})
      BY <1>12 DEF RevokeRead
    <2>2. CASE Reply(t, "not_granted")
      BY <1>6, <1>7, <2>1, <2>2 DEF GitAnswers
    <2>3. ASSUME NEW d \in Found(KeyOf(t)),
                 tasks' = [tasks EXCEPT ![t].pc = "read", ![t].seen = d]
          PROVE  GitInv'
      <3> DEFINE r == [tasks[t] EXCEPT !.pc = "read", !.seen = d]
      <3>1. tasks' = [tasks EXCEPT ![t] = r]
        BY <1>3, <2>3
      <3>2. KeyOf(t) \in GitKeys
        BY <1>2, <2>1, Working
      <3>3. d \in Details
        BY <1>3, <2>3, <3>2 DEF Found, Record
      <3>4. Faithful(r)
        BY <1>2, <2>1, <3>3 DEF Faithful, Task, Writing
      <3> HIDE DEF r
      <3> QED
        BY <1>5, <1>7, <2>1, <3>1, <3>4
    <2> QED
      BY <1>12, <2>2, <2>3 DEF RevokeRead
  <1>13. ASSUME NEW t \in Tasks, PutRevoked(t), tasks[t].pc \in {"read", "updating"}
         PROVE  GitInv'
    <2> DEFINE new == [authorized |-> FALSE, details |-> tasks[t].seen]
    <2>1. KeyOf(t) \in GitKeys
      BY <1>2, <1>13, Working DEF Writing
    <2>2. /\ records' = [records EXCEPT ![KeyOf(t)] = new] /\ Reply(t, "revoked")
          /\ revoked' = revoked \union {KeyOf(t)}
          /\ overtaken' = overtaken \ {KeyOf(t)} /\ Races({})
      BY <1>13 DEF PutRevoked
    <2>3. tasks[t].seen \in Details
      BY <1>2 DEF Faithful, Task
    <2>4. new \in Record /\ ~new.authorized
      BY <2>3 DEF Record
    <2>5. new # NoRecord
      BY <2>4, GitTrustAssumption DEF Record
    <2>6. "revoked" \in GitAnswers
      BY DEF GitAnswers
    <2> HIDE DEF new
    <2>7. /\ records' \in [GitKeys -> Record \union {NoRecord}]
          /\ revoked' \subseteq GitKeys /\ overtaken' \subseteq GitKeys
      BY <1>3, <2>1, <2>2, <2>4
    <2>8. RevocationHolds'
      BY <1>3, <2>1, <2>2, <2>4, <2>5 DEF RevocationHolds
    <2> QED
      BY <1>4, <1>6, <2>2, <2>6, <2>7, <2>8
  <1>14. ASSUME NEW t \in Tasks, RevokeUpdate(t)
         PROVE  GitInv'
    <2>1. CASE PutRevoked(t)
      BY <1>13, <1>14, <2>1 DEF RevokeUpdate
    <2>2. CASE /\ tasks' = [tasks EXCEPT ![t].pc = "updating"]
               /\ Races({}) /\ UNCHANGED <<records, revoked, overtaken>>
      BY <1>7, <1>9, <1>14, <2>2 DEF RevokeUpdate
    <2>3. CASE /\ Reply(t, "internal_error")
               /\ Races({}) /\ UNCHANGED <<records, revoked, overtaken>>
      BY <1>6, <1>7, <2>3 DEF GitAnswers
    <2> QED
      BY <1>14, <2>1, <2>2, <2>3 DEF RevokeUpdate
  <1>15. ASSUME NEW t \in Tasks, GrantInsert(t) \/ RevokeInsert(t)
         PROVE  GitInv'
    BY <1>10, <1>13, <1>15 DEF GrantInsert, RevokeInsert
  <1>16. ASSUME NEW t \in Tasks, RepositoryFails(t)
         PROVE  GitInv'
    BY <1>6, <1>7, <1>16 DEF GitAnswers, RepositoryFails
  <1>17. ASSUME NEW t \in Tasks, Done(t)
         PROVE  GitInv'
    <2>1. Faithful(Idle)
      BY IdleTask DEF Faithful, Writing
    <2> QED
      BY <1>5, <1>7, <1>17, <2>1 DEF Done
  <1>18. ASSUME NEW k \in GitKeys, NEW record \in Record \union {NoRecord},
                AdminWrite(k, record)
         PROVE  GitInv'
    <2>1. /\ records' \in [GitKeys -> Record \union {NoRecord}]
          /\ revoked' \subseteq GitKeys /\ overtaken' \subseteq GitKeys
          /\ RevocationHolds'
      BY <1>3, <1>18 DEF AdminWrite, RevocationHolds
    <2>2. tasks' = tasks /\ Races({k})
      BY <1>18 DEF AdminWrite
    <2> QED
      BY <1>2, <1>3, <1>4, <2>1, <2>2
  <1> QED
    BY <1>8, <1>11, <1>12, <1>14, <1>15, <1>16, <1>17, <1>18 DEF GitNext

\* So does the capability set, which may end all handlers by a restart.
LEMMA CapabilityStepInv ==
    ASSUME GitInv, CapabilitiesNext,
           tasks' = IF Restart THEN [t \in Tasks |-> Idle] ELSE tasks,
           UNCHANGED <<records, revoked, overtaken>>, Races({}),
           Replicate, UNCHANGED backend
    PROVE  GitInv'
  <1>1. CapabilitiesInv'
    BY NextInv DEF GitInv
  <1>2. \/ tasks' = tasks
        \/ tasks' = [t \in Tasks |-> Idle]
    OBVIOUS
  <1>3. RevocationHolds'
    BY DEF GitInv, RevocationHolds
  <1>4. held' \in [GitKeys -> SUBSET Details]
    BY ReplicasTyped DEF GitInv, TypeOK
  <1>5. raced' \subseteq (IF EventualReads THEN GitKeys ELSE Reading)'
    <2>1. {} \in SUBSET GitKeys
      OBVIOUS
    <2> QED
      BY <2>1, RacesTyped DEF GitInv, TypeOK
  <1>6. CASE tasks' = tasks
    <2>1. TypeOK'
      BY <1>1, <1>4, <1>5, <1>6 DEF GitInv, TypeOK, CapabilitiesInv, KeyOf
    <2>2. GrantsFollowConfig'
      BY <1>6 DEF GitInv, GrantsFollowConfig
    <2> QED
      BY <1>1, <1>3, <2>1, <2>2 DEF GitInv
  <1>7. CASE tasks' = [t \in Tasks |-> Idle]
    <2>1. TypeOK'
      BY <1>1, <1>4, <1>5, <1>7, IdleTask DEF GitInv, TypeOK, CapabilitiesInv, Writing
    <2>2. GrantsFollowConfig'
      BY <1>7, IdleTask DEF GrantsFollowConfig
    <2> QED
      BY <1>1, <1>3, <2>1, <2>2 DEF GitInv
  <1> QED
    BY <1>2, <1>6, <1>7

\* The invariant of the composition, over Redis, DynamoDB and fjall.
THEOREM GitInvariant == Spec => []GitInv
  <1>1. Init => GitInv
    BY GitInitInv
  <1>2. GitInv /\ [Next]_vars => GitInv'
    <2> SUFFICES ASSUME GitInv, [Next]_vars
                 PROVE  GitInv'
      OBVIOUS
    <2>1. CASE UNCHANGED vars
      <3>1. CapabilitiesInv'
        BY <2>1, NextInv DEF GitInv, vars
      <3> QED
        BY <2>1, <3>1 DEF vars, gitVars, GitInv, TypeOK, CapabilitiesInv, GrantsFollowConfig,
                          RevocationHolds, KeyOf, Reading, EventualReads
    <2> QED
      BY <2>1, GitStepInv, CapabilityStepInv DEF Next
  <1> QED
    BY <1>1, <1>2, PTL DEF Spec

\* A member whose revocation was confirmed stays unauthorized, until an
\* administrator writes the record: over Redis and DynamoDB without exception, over
\* fjall but for a grant that found no record before the revoked one was there.
THEOREM RevocationHoldsAlways == Spec => []RevocationHolds
  <1>1. GitInv => RevocationHolds
    BY DEF GitInv
  <1> QED
    BY <1>1, GitInvariant, PTL

\* Nothing is overtaken where a create is one step: the exception is fjall's alone.
THEOREM RevocationFinalWithoutFjall ==
    ASSUME "fjall" \notin Backends
    PROVE  Spec => []RevocationFinal
  <1> DEFINE NoOvertaking == overtaken = {} /\ \A t \in Tasks : tasks[t].pc # "tested"
  <1>1. Init => NoOvertaking
    BY IdleTask DEF Init
  <1>2. GitInv /\ NoOvertaking /\ [Next]_vars => NoOvertaking'
    <2> SUFFICES ASSUME GitInv, NoOvertaking, [Next]_vars
                 PROVE  NoOvertaking'
      OBVIOUS
    <2>1. tasks \in [Tasks -> Task] /\ ~TwoSteps
      BY DEF GitInv, TypeOK, TwoSteps
    <2>2. ASSUME NEW t \in Tasks, NEW r, tasks' = [tasks EXCEPT ![t] = r], r.pc # "tested",
                 overtaken' \subseteq overtaken
          PROVE  NoOvertaking'
      BY <2>1, <2>2
    <2>3. ASSUME NEW t \in Tasks, NEW answer, Reply(t, answer), overtaken' \subseteq overtaken
          PROVE  NoOvertaking'
      <3>1. [Idle EXCEPT !.pc = "answered", !.answer = answer].pc = "answered"
        BY IdleTask DEF Task
      <3> QED
        BY <2>2, <2>3, <3>1 DEF Reply
    <2>4. ASSUME NEW t \in Tasks, NEW op \in {"grant", "revoke"}, NEW subject \in Subjects,
                 NEW surface \in {dispatcher, query_dispatcher}, Dispatch(t, op, subject, surface)
          PROVE  NoOvertaking'
      BY <2>2, <2>4 DEF Dispatch
    <2>5. ASSUME NEW t \in Tasks, Grant(t) \/ GrantInsert(t)
          PROVE  NoOvertaking'
      <3>1. CASE records[KeyOf(t)] = NoRecord
        BY <2>1, <2>3, <2>5, <3>1 DEF Grant, GrantInsert, PutGrant
      <3>2. CASE records[KeyOf(t)] # NoRecord
        BY <2>1, <2>3, <2>5, <3>2 DEF Grant, GrantInsert
      <3> QED
        BY <3>1, <3>2
    <2>6. ASSUME NEW t \in Tasks, RevokeRead(t)
          PROVE  NoOvertaking'
      <3>1. CASE Reply(t, "not_granted")
        BY <2>3, <2>6, <3>1 DEF RevokeRead
      <3>2. ASSUME NEW d, tasks' = [tasks EXCEPT ![t].pc = "read", ![t].seen = d]
            PROVE  NoOvertaking'
        <4>1. /\ tasks' = [tasks EXCEPT ![t] = [tasks[t] EXCEPT !.pc = "read", !.seen = d]]
              /\ [tasks[t] EXCEPT !.pc = "read", !.seen = d].pc = "read"
          BY <2>1, <3>2 DEF Task
        <4> QED
          BY <2>2, <2>6, <4>1 DEF RevokeRead
      <3> QED
        BY <2>6, <3>1, <3>2 DEF RevokeRead
    <2>7. ASSUME NEW t \in Tasks, RevokeUpdate(t) \/ RevokeInsert(t)
          PROVE  NoOvertaking'
      BY <2>1, <2>3, <2>7 DEF RevokeUpdate, RevokeInsert, PutRevoked
    <2>8. ASSUME NEW t \in Tasks, RepositoryFails(t) \/ Done(t)
          PROVE  NoOvertaking'
      BY <2>2, <2>3, <2>8, IdleTask DEF RepositoryFails, Done
    <2>9. CASE GitNext
      BY <2>4, <2>5, <2>6, <2>7, <2>8, <2>9 DEF GitNext, AdminWrite
    <2>10. CASE /\ tasks' = IF Restart THEN [t \in Tasks |-> Idle] ELSE tasks
                /\ UNCHANGED overtaken
      BY <2>10, IdleTask
    <2>11. CASE UNCHANGED vars
      BY <2>11 DEF vars, gitVars
    <2> QED
      BY <2>9, <2>10, <2>11 DEF Next
  <1>3. GitInv /\ NoOvertaking => RevocationFinal
    BY DEF GitInv, RevocationHolds, RevocationFinal
  <1> QED
    BY <1>1, <1>2, <1>3, GitInvariant, PTL DEF Spec

\* A handler dispatched after an answer of the capability set works as that
\* answer said, for as long as it runs.
THEOREM GrantsFollowConfigAlways == Spec => []GrantsFollowConfig
  <1>1. GitInv => GrantsFollowConfig
    BY DEF GitInv
  <1> QED
    BY <1>1, GitInvariant, PTL

\* Every variable of the composition keeps its type.
THEOREM GitTypeCorrect == Spec => []TypeOK
  <1>1. GitInv => TypeOK
    BY DEF GitInv
  <1> QED
    BY <1>1, GitInvariant, PTL

-----------------------------------------------------------------------------
(* What a revocation changes                                               *)

Holding == {"read", "updating"}

\* That k was put in this step counts as a race, if it can matter to anybody.
PutOver(k) == k \in raced' \/ (~EventualReads /\ k \notin Reading')

\* What is put is a record.
LEMMA NotNoRecord ==
    ASSUME NEW d \in Details, NEW b \in BOOLEAN
    PROVE  [authorized |-> b, details |-> d] # NoRecord
  <1>1. [authorized |-> b, details |-> d] \in [authorized : BOOLEAN, details : Details]
    OBVIOUS
  <1> QED
    BY <1>1, GitTrustAssumption

\* A race is forgotten when no revocation is left that it could matter to.
LEMMA RacesLast ==
    ASSUME Next, NEW k \in raced, EventualReads \/ k \in Reading'
    PROVE  k \in raced'
  <1>1. \E keys : Races(keys)
    BY DEF Next, GitNext, Dispatch, Grant, GrantInsert, PutGrant, RevokeRead, RevokeUpdate,
           RevokeInsert, PutRevoked, RepositoryFails, Done, AdminWrite
  <1> QED
    BY <1>1 DEF Races

\* What a step does to a record: a grant puts it, a revocation does, or an
\* administrator.
LEMMA RecordStep ==
    ASSUME GitInv, Next, NEW k \in GitKeys
    PROVE  \/ records'[k] = records[k]
           \/ /\ records'[k] = [authorized |-> TRUE, details |-> NoDetails]
              /\ records[k] = NoRecord \/ PutOver(k)
           \/ \E t \in Tasks :
                /\ tasks[t].pc \in Holding /\ k = KeyOf(t)
                /\ records[k] # NoRecord \/ tasks[t].pc = "updating"
                /\ records'[k] = [authorized |-> FALSE, details |-> tasks[t].seen]
           \/ PutOver(k)
  <1>1. records \in [GitKeys -> Record \union {NoRecord}]
    BY DEF GitInv, TypeOK
  <1>2. ASSUME NEW t \in Tasks, PutGrant(t)
        PROVE  \/ records'[k] = records[k]
               \/ /\ records'[k] = [authorized |-> TRUE, details |-> NoDetails]
                  /\ records[k] = NoRecord \/ PutOver(k)
    BY <1>1, <1>2 DEF PutGrant, Races, PutOver
  <1>3. ASSUME NEW t \in Tasks, PutRevoked(t), tasks[t].pc \in Holding,
               records[KeyOf(t)] # NoRecord \/ tasks[t].pc = "updating"
        PROVE  \/ records'[k] = records[k]
               \/ /\ k = KeyOf(t)
                  /\ records[k] # NoRecord \/ tasks[t].pc = "updating"
                  /\ records'[k] = [authorized |-> FALSE, details |-> tasks[t].seen]
    BY <1>1, <1>3 DEF PutRevoked
  <1>4. ASSUME NEW j \in GitKeys, NEW record, AdminWrite(j, record)
        PROVE  records'[k] = records[k] \/ PutOver(k)
    BY <1>1, <1>4 DEF AdminWrite, Races, PutOver
  <1>5. CASE records' = records
    BY <1>5
  <1>6. CASE GitNext
    <2>1. ASSUME NEW t \in Tasks, Grant(t) \/ GrantInsert(t)
          PROVE  PutGrant(t) \/ records' = records
      BY <2>1 DEF Grant, GrantInsert
    <2>2. ASSUME NEW t \in Tasks, RevokeUpdate(t) \/ RevokeInsert(t)
          PROVE  \/ records' = records
                 \/ /\ PutRevoked(t) /\ tasks[t].pc \in Holding
                    /\ records[KeyOf(t)] # NoRecord \/ tasks[t].pc = "updating"
      BY <2>2 DEF RevokeUpdate, RevokeInsert, Holding
    <2>3. ASSUME NEW t \in Tasks,
                 \/ \E op \in {"grant", "revoke"}, subject \in Subjects,
                       surface \in {dispatcher, query_dispatcher} : Dispatch(t, op, subject, surface)
                 \/ RevokeRead(t) \/ RepositoryFails(t) \/ Done(t)
          PROVE  records' = records
      BY <2>3 DEF Dispatch, RevokeRead, RepositoryFails, Done
    <2> QED
      BY <1>2, <1>3, <1>4, <1>5, <1>6, <2>1, <2>2, <2>3 DEF GitNext
  <1> QED
    BY <1>5, <1>6 DEF Next

\* Who holds what it has read did so before, or has read it now.
LEMMA ReaderStep ==
    ASSUME GitInv, Next, NEW u \in Tasks, tasks'[u].pc \in Holding
    PROVE  \/ /\ tasks[u].pc \in Holding
              /\ KeyOf(u)' = KeyOf(u) /\ tasks'[u].seen = tasks[u].seen
           \/ /\ KeyOf(u) \in GitKeys /\ KeyOf(u)' = KeyOf(u)
              /\ tasks'[u].seen \in Found(KeyOf(u))
              /\ UNCHANGED records /\ Races({})
  <1>1. tasks \in [Tasks -> Task] /\ \A t \in Tasks : Faithful(tasks[t])
    BY TasksFaithful DEF GitInv, TypeOK
  \* A handler that takes a step to anywhere else is another one.
  <1>2. ASSUME NEW t \in Tasks, NEW r, tasks' = [tasks EXCEPT ![t] = r], r.pc \notin Holding
        PROVE  tasks'[u] = tasks[u]
    BY <1>1, <1>2
  <1>3. ASSUME NEW t \in Tasks, NEW answer, Reply(t, answer)
        PROVE  tasks'[u] = tasks[u]
    <2>1. [Idle EXCEPT !.pc = "answered", !.answer = answer].pc = "answered"
      BY IdleTask DEF Task
    <2> QED
      BY <1>2, <1>3, <2>1 DEF Reply, Holding
  <1>4. CASE tasks'[u] = tasks[u]
    BY <1>4 DEF KeyOf
  <1>5. ASSUME NEW t \in Tasks, NEW pc \in {"tested", "updating"},
               pc = "updating" => tasks[t].pc = "read",
               tasks' = [tasks EXCEPT ![t].pc = pc]
        PROVE  /\ tasks[u].pc \in Holding
               /\ KeyOf(u)' = KeyOf(u) /\ tasks'[u].seen = tasks[u].seen
    BY <1>1, <1>5 DEF KeyOf, Holding, Task
  <1>6. ASSUME NEW t \in Tasks,
               \/ \E op \in {"grant", "revoke"}, subject \in Subjects,
                     surface \in {dispatcher, query_dispatcher} : Dispatch(t, op, subject, surface)
               \/ RepositoryFails(t) \/ Done(t)
        PROVE  tasks'[u] = tasks[u]
    BY <1>2, <1>3, <1>6, IdleTask DEF Dispatch, RepositoryFails, Done, Holding
  <1>7. ASSUME NEW t \in Tasks, Grant(t) \/ GrantInsert(t)
        PROVE  tasks'[u] = tasks[u] \/ tasks' = [tasks EXCEPT ![t].pc = "tested"]
    BY <1>3, <1>7 DEF Grant, GrantInsert, PutGrant
  <1>8. ASSUME NEW t \in Tasks, RevokeUpdate(t) \/ RevokeInsert(t)
        PROVE  \/ tasks'[u] = tasks[u]
               \/ tasks[t].pc = "read" /\ tasks' = [tasks EXCEPT ![t].pc = "updating"]
    BY <1>3, <1>8 DEF RevokeUpdate, RevokeInsert, PutRevoked
  <1>9. ASSUME NEW t \in Tasks, RevokeRead(t)
        PROVE  \/ tasks'[u] = tasks[u]
               \/ /\ KeyOf(u) \in GitKeys /\ KeyOf(u)' = KeyOf(u)
                  /\ tasks'[u].seen \in Found(KeyOf(u))
                  /\ UNCHANGED records /\ Races({})
    <2>1. UNCHANGED records /\ Races({}) /\ KeyOf(t) \in GitKeys
      BY <1>1, <1>9, Working DEF RevokeRead
    <2>2. CASE Reply(t, "not_granted")
      BY <1>3, <2>2
    <2>3. ASSUME NEW d \in Found(KeyOf(t)),
                 tasks' = [tasks EXCEPT ![t].pc = "read", ![t].seen = d]
          PROVE  \/ tasks'[u] = tasks[u]
                 \/ u = t /\ KeyOf(u)' = KeyOf(u) /\ tasks'[u].seen = d
      BY <1>1, <2>3 DEF KeyOf, Task
    <2> QED
      BY <1>9, <2>1, <2>2, <2>3 DEF RevokeRead
  <1>10. CASE GitNext
    BY <1>4, <1>5, <1>6, <1>7, <1>8, <1>9, <1>10 DEF GitNext, AdminWrite
  <1>11. CASE tasks' = IF Restart THEN [t \in Tasks |-> Idle] ELSE tasks
    BY <1>4, <1>11, IdleTask DEF Holding
  <1> QED
    BY <1>10, <1>11 DEF Next

\* What a revocation has read is left alone by everybody but administrators and grants
\* that had found no record, whose writes count as races, and other revocations, which
\* write back the details they read.
LEMMA ReadsHoldStep == GitInv /\ ReadsHold /\ [Next]_vars => ReadsHold'
  <1> SUFFICES ASSUME GitInv, ReadsHold, [Next]_vars
               PROVE  ReadsHold'
    OBVIOUS
  <1>1. CASE UNCHANGED vars
    BY <1>1 DEF vars, gitVars, ReadsHold, ReadHolds, Untouched, KeyOf, EventualReads
  <1>2. CASE Next
    <2>1. /\ records \in [GitKeys -> Record \union {NoRecord}]
          /\ tasks \in [Tasks -> Task]
          /\ \A t \in Tasks : tasks[t].pc \in Holding => KeyOf(t) \in GitKeys
      BY DEF GitInv, TypeOK, Holding, Writing
    <2>2. EventualReads' <=> EventualReads
      BY <1>2 DEF Next, EventualReads
    \* A revocation of an unraced record puts back the details the record has.
    <2>3. ASSUME NEW k \in GitKeys, k \notin raced, NEW t \in Tasks,
                 tasks[t].pc \in Holding, k = KeyOf(t),
                 records'[k] = [authorized |-> FALSE, details |-> tasks[t].seen]
          PROVE  /\ records[k] # NoRecord /\ records'[k] # NoRecord
                 /\ records'[k].details = records[k].details
      <3>1. tasks[t].seen \in Details
        BY <2>1 DEF Task
      <3>2. records[k] # NoRecord /\ records[k].details = tasks[t].seen
        BY <2>3 DEF ReadsHold, ReadHolds, Holding
      <3>3. [authorized |-> FALSE, details |-> tasks[t].seen] # NoRecord
        BY <3>1, NotNoRecord
      <3> QED
        BY <2>3, <3>2, <3>3
    <2>4. ASSUME NEW k \in GitKeys
          PROVE  Untouched(k)'
      <3> SUFFICES ASSUME EventualReads, k \notin raced'
                   PROVE  /\ held'[k] \subseteq {NoDetails}
                          /\ held'[k] # {} <=> records'[k] # NoRecord
                          /\ records'[k] # NoRecord => records'[k].details = NoDetails
        BY <2>2 DEF Untouched
      <3>1. k \notin raced /\ ~PutOver(k)
        BY <1>2, RacesLast DEF PutOver
      <3>2. /\ held[k] \subseteq {NoDetails}
            /\ held[k] # {} <=> records[k] # NoRecord
            /\ records[k] # NoRecord => records[k].details = NoDetails
        BY <3>1 DEF ReadsHold, Untouched
      <3>3. /\ records'[k] # NoRecord => records'[k].details = NoDetails
            /\ records[k] # NoRecord => records'[k] # NoRecord
        <4>1. CASE records'[k] = records[k]
          BY <3>2, <4>1
        <4>2. CASE records'[k] = [authorized |-> TRUE, details |-> NoDetails]
          <5>1. [authorized |-> TRUE, details |-> NoDetails] # NoRecord
            BY GitTrustAssumption, NotNoRecord
          <5> QED
            BY <4>2, <5>1
        <4>3. ASSUME NEW t \in Tasks, tasks[t].pc \in Holding, k = KeyOf(t),
                     records'[k] = [authorized |-> FALSE, details |-> tasks[t].seen]
              PROVE  records'[k] # NoRecord /\ records'[k].details = NoDetails
          BY <2>3, <3>1, <3>2, <4>3
        <4> QED
          BY <1>2, <3>1, <4>1, <4>2, <4>3, RecordStep
      <3>4. held'[k] = IF records'[k] # NoRecord
                       THEN held[k] \union {records'[k].details} ELSE held[k]
        BY <1>2 DEF Next, Replicate
      <3> QED
        BY <3>2, <3>3, <3>4
    <2>5. ASSUME NEW u \in Tasks
          PROVE  ReadHolds(u)'
      <3> SUFFICES ASSUME tasks'[u].pc \in Holding, KeyOf(u)' \notin raced'
                   PROVE  records'[KeyOf(u)'] # NoRecord
                          /\ records'[KeyOf(u)'].details = tasks'[u].seen
        BY DEF ReadHolds, Holding
      <3>1. KeyOf(u)' \in Reading'
        BY DEF Reading, Holding
      <3>2. CASE /\ tasks[u].pc \in Holding
                 /\ KeyOf(u)' = KeyOf(u) /\ tasks'[u].seen = tasks[u].seen
        <4> DEFINE k == KeyOf(u)
        <4>1. k \in GitKeys /\ k \notin raced /\ ~PutOver(k)
          BY <1>2, <2>1, <3>1, <3>2, RacesLast DEF PutOver
        <4>2. records[k] # NoRecord /\ records[k].details = tasks[u].seen
          BY <3>2, <4>1 DEF ReadsHold, ReadHolds, Holding
        <4> HIDE DEF k
        <4>3. records'[k] # NoRecord /\ records'[k].details = records[k].details
          <5>1. ASSUME NEW t \in Tasks, tasks[t].pc \in Holding, k = KeyOf(t),
                       records'[k] = [authorized |-> FALSE, details |-> tasks[t].seen]
                PROVE  records'[k] # NoRecord /\ records'[k].details = records[k].details
            BY <2>3, <4>1, <5>1
          <5> QED
            BY <1>2, <4>1, <4>2, <5>1, RecordStep
        <4> QED
          BY <3>2, <4>2, <4>3 DEF k
      <3>3. CASE /\ KeyOf(u) \in GitKeys /\ KeyOf(u)' = KeyOf(u)
                 /\ tasks'[u].seen \in Found(KeyOf(u))
                 /\ UNCHANGED records /\ Races({})
        <4>1. CASE EventualReads
          <5>1. KeyOf(u) \notin raced
            BY <1>2, <3>3, <4>1, RacesLast
          <5>2. /\ held[KeyOf(u)] \subseteq {NoDetails}
                /\ held[KeyOf(u)] # {} <=> records[KeyOf(u)] # NoRecord
                /\ records[KeyOf(u)] # NoRecord => records[KeyOf(u)].details = NoDetails
            BY <3>3, <4>1, <5>1 DEF ReadsHold, Untouched
          <5>3. tasks'[u].seen \in held[KeyOf(u)]
            BY <3>3, <4>1 DEF Found
          <5> QED
            BY <3>3, <5>2, <5>3
        <4>2. CASE ~EventualReads
          BY <3>3, <4>2 DEF Found
        <4> QED
          BY <4>1, <4>2
      <3> QED
        BY <1>2, <3>2, <3>3, ReaderStep
    <2> QED
      BY <2>4, <2>5 DEF ReadsHold
  <1> QED
    BY <1>1, <1>2

\* For any number of grants and revocations, whatever happens to the capability
\* meanwhile, over Redis, DynamoDB and fjall: the update of a revocation whose record
\* nobody put over since it was read (over DynamoDB: no administrator ever wrote)
\* succeeds, and takes away the authorization and nothing else.
THEOREM RevokeOnlyMarksHolds == Spec => RevokeOnlyMarksUnlessRaced
  <1>1. Init => ReadsHold
    BY IdleTask DEF Init, ReadsHold, ReadHolds, Untouched
  <1>2. Spec => []ReadsHold
    BY <1>1, GitInvariant, ReadsHoldStep, PTL DEF Spec
  <1>3. GitInv /\ ReadsHold =>
          \A t \in Tasks : (RevokeUpdate(t) \/ RevokeInsert(t)) /\ KeyOf(t) \notin raced =>
            \/ tasks'[t].pc = "updating"
            \/ /\ tasks'[t].answer = "revoked"
               /\ records[KeyOf(t)] # NoRecord
               /\ records'[KeyOf(t)] =
                    [authorized |-> FALSE, details |-> records[KeyOf(t)].details]
    <2> SUFFICES ASSUME GitInv, ReadsHold, NEW t \in Tasks,
                        RevokeUpdate(t) \/ RevokeInsert(t), KeyOf(t) \notin raced
                 PROVE  \/ tasks'[t].pc = "updating"
                        \/ /\ tasks'[t].answer = "revoked"
                           /\ records[KeyOf(t)] # NoRecord
                           /\ records'[KeyOf(t)] =
                                [authorized |-> FALSE, details |-> records[KeyOf(t)].details]
      OBVIOUS
    <2>1. /\ records \in [GitKeys -> Record \union {NoRecord}]
          /\ tasks \in [Tasks -> Task] /\ KeyOf(t) \in GitKeys
      BY DEF GitInv, TypeOK, RevokeUpdate, RevokeInsert, Writing
    <2>2. records[KeyOf(t)] # NoRecord /\ records[KeyOf(t)].details = tasks[t].seen
      BY DEF ReadsHold, ReadHolds, RevokeUpdate, RevokeInsert
    <2>3. CASE PutRevoked(t)
      <3>1. /\ records' = [records EXCEPT ![KeyOf(t)] =
                  [authorized |-> FALSE, details |-> tasks[t].seen]]
            /\ Reply(t, "revoked")
        BY <2>3 DEF PutRevoked
      <3>2. tasks'[t].answer = "revoked"
        BY <2>1, <3>1, IdleTask DEF Reply, Task
      <3> QED
        BY <2>1, <2>2, <3>1, <3>2
    <2>4. CASE tasks[t].pc = "read" /\ tasks' = [tasks EXCEPT ![t].pc = "updating"]
      <3>1. tasks'[t].pc = "updating"
        BY <2>1, <2>4 DEF Task
      <3> QED
        BY <3>1
    <2> QED
      BY <2>2, <2>3, <2>4 DEF RevokeUpdate, RevokeInsert
  <1> QED
    BY <1>2, <1>3, GitInvariant, PTL DEF RevokeOnlyMarksUnlessRaced

=============================================================================
