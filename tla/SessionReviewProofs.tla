------------------------ MODULE SessionReviewProofs ------------------------
(* Proofs about SessionReview, for any workspaces, rule matches and bound  *)
(* on decisions.                                                           *)
EXTENDS SessionReview, TLAPS

USE ReviewAssumption

(* What is known of the handler that holds the mutex. *)
JobType == [id : Ids, rec : RecordType, action : Actions \cup {"none"},
            todo : Seq(RuleIds)]

Writing == pc # "idle" => job \in JobType

(* A decision writes what it read: no other handler came in between.       *)
Deciding ==
    pc = "row" /\ job.action # "none" =>
        /\ records[job.id] # NoRecord
        /\ job.rec = Applied(records[job.id], job.action)

(* Seeding never reaches an id that is an open candidate: it started       *)
(* without any, and no id comes twice.                                     *)
Seeding ==
    pc # "idle" /\ job.action = "none" =>
        /\ job.rec.kind = "candidate" /\ ~job.rec.verified
        /\ \A i \in 1..Len(job.todo) :
              job.todo[i] \notin Candidates /\ job.todo[i] # job.id
        /\ \A i, j \in 1..Len(job.todo) : job.todo[i] = job.todo[j] => i = j
        /\ pc = "row" => job.id \notin Candidates
        /\ pc = "row" /\ job.id \in DefaultIds => records[job.id] = NoRecord

Typed ==
    /\ config \in Workspaces \cup {NoWorkspace}
    /\ records \in [Ids -> RecordType \cup {NoRecord}]
    /\ pc \in {"idle", "row", "unindex", "index", "event"}
    /\ decided \in Seq([id : Ids, action : Actions])

IInv == Typed /\ Writing /\ Deciding /\ Seeding

LEMMA CandidateType ==
  ASSUME NEW w \in Workspaces
  PROVE  /\ Candidate(w) \in RecordType /\ Candidate(w).kind = "candidate"
         /\ ~Candidate(w).verified
  BY DEF Candidate, RecordType

LEMMA AppliedType ==
  ASSUME NEW rec \in RecordType, NEW action \in Actions
  PROVE  Applied(rec, action) \in RecordType
  BY DEF Applied, Label, Verified, Unverified, RecordType, Actions

(* apply_review_action_to_record: what each action does to a record.       *)
LEMMA AppliedFacts ==
  ASSUME NEW rec \in RecordType, NEW action \in Actions
  PROVE  /\ action = "confirm" => Applied(rec, action).kind = "finding" /\ Applied(rec, action).verified
         /\ action = "reject" => Applied(rec, action).kind = "candidate" /\ ~Applied(rec, action).verified
         /\ action \in {"suppress", "annotate"} =>
               /\ Applied(rec, action).kind = rec.kind
               /\ Applied(rec, action).verified = rec.verified
  BY DEF Applied, Label, Verified, Unverified, RecordType, Actions

LEMMA SeedIInv ==
  ASSUME IInv, QueueEmpty, NEW ids \in Seq(Ids), ids # <<>>, NEW w \in Workspaces,
         Tail(ids) \in Seq(RuleIds),
         \A i, j \in 1..Len(ids) : ids[i] = ids[j] => i = j,
         Head(ids) \in DefaultIds => records[Head(ids)] = NoRecord,
         Seed(ids, w)
  PROVE  IInv'
<1>1. job' = [id |-> Head(ids), rec |-> Candidate(w), action |-> "none", todo |-> Tail(ids)]
  BY DEF Seed
<1>2. Head(ids) \in Ids /\ pc' = "row" /\ UNCHANGED <<config, records, decided>>
  BY DEF Seed, FirstStatement
<1>3. Candidates' = {} BY <1>2 DEF QueueEmpty, Candidates
<1>4. job' \in JobType BY <1>1, <1>2, CandidateType DEF JobType
<1>5. Typed' /\ Writing' /\ Deciding'
  BY <1>1, <1>2, <1>4 DEF IInv, Typed, Writing, Deciding
<1>6. \A i \in 1..Len(Tail(ids)) : Tail(ids)[i] = ids[i + 1] /\ i + 1 \in 1..Len(ids)
  OBVIOUS
<1>7. Head(ids) = ids[1] /\ 1 \in 1..Len(ids) OBVIOUS
<1>8. \A i \in 1..Len(Tail(ids)) : Tail(ids)[i] # Head(ids)
  BY <1>6, <1>7
<1>9. \A i, j \in 1..Len(Tail(ids)) : Tail(ids)[i] = Tail(ids)[j] => i = j
  BY <1>6
<1>10. Seeding'
  BY <1>1, <1>2, <1>3, <1>8, <1>9, CandidateType DEF Seeding
<1>q. QED BY <1>5, <1>10 DEF IInv

LEMMA InitIInv == Init => IInv
  BY DEF Init, IInv, Typed, Writing, Deciding, Seeding

LEMMA StepIInv == IInv /\ [Next]_vars => IInv'
<1> SUFFICES ASSUME IInv, [Next]_vars PROVE IInv'
  OBVIOUS
<1>T. records \in [Ids -> RecordType \cup {NoRecord}] BY DEF IInv, Typed
<1>F. ASSUME UNCHANGED <<records, pc, job, decided>>, config' \in Workspaces \cup {NoWorkspace}
      PROVE  IInv'
  BY <1>F DEF IInv, Typed, Writing, Deciding, Seeding, Candidates
<1>I. ASSUME UNCHANGED <<records, decided>>, pc' = "idle",
             config' \in Workspaces \cup {NoWorkspace}
      PROVE  IInv'
  BY <1>I DEF IInv, Typed, Writing, Deciding, Seeding
<1>C. config \in Workspaces \cup {NoWorkspace} BY DEF IInv, Typed
<1>0. CASE UNCHANGED vars BY <1>0, <1>C, <1>F DEF vars
<1>1. CASE \E w \in Workspaces : ConfirmWorkspace(w)
  BY <1>1, <1>F DEF ConfirmWorkspace
<1>2. CASE SeedRules
  <2>1. config \in Workspaces /\ Matches[config] \in Seq(RuleIds) /\ Matches[config] # <<>>
    BY <1>2, <1>C DEF SeedRules
  <2>2. Matches[config] \in Seq(Ids) BY <2>1 DEF Ids
  <2>3. Head(Matches[config]) \in RuleIds /\ Tail(Matches[config]) \in Seq(RuleIds)
    BY <2>1
  <2>4. QueueEmpty /\ Seed(Matches[config], config) BY <1>2 DEF SeedRules
  <2>q. QED BY <2>1, <2>2, <2>3, <2>4, SeedIInv
<1>3. CASE SeedDefault
  <2>1. PICK id \in NewIds : Seed(<<id>>, Own) BY <1>3 DEF SeedDefault
  <2>2. id \in Ids /\ records[id] = NoRecord BY <2>1 DEF NewIds, Ids
  <2>3. /\ <<id>> \in Seq(Ids) /\ <<id>> # <<>> /\ Tail(<<id>>) \in Seq(RuleIds)
        /\ Head(<<id>>) = id /\ Len(<<id>>) = 1
    BY <2>2
  <2>4. QueueEmpty BY <1>3 DEF SeedDefault
  <2>5. \A i, j \in 1..Len(<<id>>) : <<id>>[i] = <<id>>[j] => i = j
    BY <2>3
  <2>6. Head(<<id>>) \in DefaultIds => records[Head(<<id>>)] = NoRecord
    BY <2>2, <2>3
  <2>7. Own \in Workspaces /\ Seed(<<id>>, Own) BY <2>1
  <2>q. QED BY <2>3, <2>4, <2>5, <2>6, <2>7, SeedIInv
<1>4. ASSUME NEW id \in Ids, NEW action \in Actions, Decide(id, action) PROVE IInv'
  <2>1. records[id] # NoRecord /\ records[id] \in RecordType
    BY <1>4, <1>T DEF Decide
  <2>2. job' = [id |-> id, rec |-> Applied(records[id], action), action |-> action, todo |-> <<>>]
    BY <1>4 DEF Decide
  <2>3. Applied(records[id], action) \in RecordType BY <2>1, AppliedType
  <2>4. job' \in JobType BY <2>2, <2>3 DEF JobType
  <2>5. action # "none" BY DEF Actions
  <2>6. pc' = "row" /\ UNCHANGED <<config, records, decided>>
    BY <1>4 DEF Decide, FirstStatement
  <2>7. Typed' /\ Writing' BY <2>4, <2>6 DEF IInv, Typed, Writing
  <2>8. Deciding' BY <2>1, <2>2, <2>6 DEF Deciding
  <2>9. Seeding' BY <2>2, <2>5 DEF Seeding
  <2>q. QED BY <2>7, <2>8, <2>9 DEF IInv
<1>5. CASE WriteRow
  <2>1. /\ pc = "row" /\ pc' = "unindex" /\ UNCHANGED <<config, job>>
        /\ records' = [records EXCEPT ![job.id] = job.rec]
    BY <1>5 DEF WriteRow
  <2>2. job \in JobType BY <2>1 DEF IInv, Writing
  <2>3. job.id \in Ids /\ job.rec \in RecordType /\ job.action \in Actions \cup {"none"}
        /\ job.todo \in Seq(RuleIds)
    BY <2>2 DEF JobType
  <2>4. records' \in [Ids -> RecordType \cup {NoRecord}] BY <2>1, <2>3, <1>T
  <2>5. decided' \in Seq([id : Ids, action : Actions])
    <3>1. decided \in Seq([id : Ids, action : Actions]) BY DEF IInv, Typed
    <3>2. CASE job.action = "none" BY <1>5, <3>1, <3>2 DEF WriteRow
    <3>3. CASE job.action # "none"
      <4>1. [id |-> job.id, action |-> job.action] \in [id : Ids, action : Actions]
        BY <2>3, <3>3
      <4>q. QED BY <1>5, <3>1, <3>3, <4>1 DEF WriteRow
    <3>q. QED BY <3>2, <3>3
  <2>6. Typed' /\ Writing' /\ Deciding'
    BY <2>1, <2>2, <2>4, <2>5 DEF IInv, Typed, Writing, Deciding
  <2>7. ASSUME job.action = "none", NEW i \in 1..Len(job.todo)
        PROVE  job.todo[i] \notin Candidates' /\ job.todo[i] # job.id
    <3>1. job.todo[i] \notin Candidates /\ job.todo[i] # job.id
      BY <2>1, <2>7 DEF IInv, Seeding
    <3>2. job.todo[i] \in Ids BY <2>3 DEF Ids
    <3>3. records'[job.todo[i]] = records[job.todo[i]] BY <2>1, <3>1, <3>2, <1>T
    <3>q. QED BY <3>1, <3>2, <3>3 DEF Candidates
  <2>8. Seeding'
    BY <2>1, <2>7 DEF IInv, Seeding
  <2>q. QED BY <2>6, <2>8 DEF IInv
<1>6. CASE Unindex
  <2>1. pc = "unindex" /\ pc' = "index" /\ UNCHANGED <<config, records, job, decided>>
    BY <1>6 DEF Unindex
  <2>2. Typed' /\ Writing' /\ Deciding' /\ Seeding'
    BY <2>1 DEF IInv, Typed, Writing, Deciding, Seeding, Candidates
  <2>q. QED BY <2>2 DEF IInv
<1>7. CASE Index
  <2>1. pc = "index" /\ UNCHANGED <<config, records, decided>> BY <1>7 DEF Index
  <2>2. job \in JobType BY <2>1 DEF IInv, Writing
  <2>3. CASE job.action # "none" /\ pc' = "event" /\ UNCHANGED job
    BY <2>1, <2>3 DEF IInv, Typed, Writing, Deciding, Seeding
  <2>4. CASE /\ job.action = "none" /\ job.todo # <<>> /\ pc' = FirstStatement
             /\ job' = [job EXCEPT !.id = Head(job.todo), !.todo = Tail(job.todo)]
    <3>1. pc' = "row" BY <2>4 DEF FirstStatement
    <3>2. job.todo \in Seq(RuleIds) /\ job.rec \in RecordType BY <2>2 DEF JobType
    <3>3. job' = [id |-> Head(job.todo), rec |-> job.rec, action |-> "none",
                  todo |-> Tail(job.todo)]
      BY <2>2, <2>4 DEF JobType
    <3>4. Head(job.todo) \in RuleIds /\ Tail(job.todo) \in Seq(RuleIds)
      BY <2>4, <3>2
    <3>5. job' \in JobType BY <3>2, <3>3, <3>4 DEF JobType, Ids
    <3>6. \A i \in 1..Len(Tail(job.todo)) :
             Tail(job.todo)[i] = job.todo[i + 1] /\ i + 1 \in 1..Len(job.todo)
      BY <2>4, <3>2
    <3>7. Head(job.todo) = job.todo[1] /\ 1 \in 1..Len(job.todo) BY <2>4, <3>2
    <3>8. /\ \A i \in 1..Len(job.todo) : job.todo[i] \notin Candidates
          /\ \A i, j \in 1..Len(job.todo) : job.todo[i] = job.todo[j] => i = j
          /\ job.rec.kind = "candidate" /\ ~job.rec.verified
      BY <2>1, <2>4 DEF IInv, Seeding
    <3>9. Candidates' = Candidates BY <2>1 DEF Candidates
    <3>10. /\ \A i \in 1..Len(Tail(job.todo)) :
                 Tail(job.todo)[i] \notin Candidates' /\ Tail(job.todo)[i] # Head(job.todo)
           /\ \A i, j \in 1..Len(Tail(job.todo)) :
                 Tail(job.todo)[i] = Tail(job.todo)[j] => i = j
      BY <3>6, <3>7, <3>8, <3>9
    <3>11. Head(job.todo) \notin Candidates' BY <3>7, <3>8, <3>9
    <3>12. Head(job.todo) \notin DefaultIds BY <3>4
    <3>13. Seeding' BY <3>3, <3>8, <3>10, <3>11, <3>12 DEF Seeding
    <3>14. Typed' /\ Writing' /\ Deciding'
      BY <2>1, <3>1, <3>3, <3>5 DEF IInv, Typed, Writing, Deciding
    <3>q. QED BY <3>13, <3>14 DEF IInv
  <2>5. CASE pc' = "idle" BY <2>1, <2>5, <1>I, <1>C
  <2>q. QED BY <1>7, <2>3, <2>4, <2>5 DEF Index
<1>8. CASE AppendEvent BY <1>8, <1>I, <1>C DEF AppendEvent
<1>9. CASE StatementFails BY <1>9, <1>I, <1>C DEF StatementFails
<1>10. CASE Restart BY <1>10, <1>I DEF Restart
<1>11. CASE LoadOverlay \/ Expire BY <1>11, <1>F, <1>C DEF LoadOverlay, Expire
<1>q. QED
  BY <1>0, <1>1, <1>2, <1>3, <1>4, <1>5, <1>6, <1>7, <1>8, <1>9, <1>10, <1>11 DEF Next
-----------------------------------------------------------------------------
(* What a step that changes a record is.                                   *)
LEMMA RecordStep ==
  ASSUME IInv, [Next]_vars, records' # records
  PROVE  /\ pc = "row" /\ job \in JobType
         /\ records' = [records EXCEPT ![job.id] = job.rec]
         /\ job.action # "none" =>
               decided' = Append(decided, [id |-> job.id, action |-> job.action])
         /\ job.action = "none" => decided' = decided
<1>1. WriteRow
  BY DEF Next, vars, ConfirmWorkspace, SeedRules, SeedDefault, Seed, Decide,
     Unindex, Index, AppendEvent, StatementFails, Restart, LoadOverlay, Expire
<1>q. QED BY <1>1 DEF WriteRow, IInv, Writing

LEMMA DecidedAppended ==
  ASSUME IInv, job \in JobType, job.action # "none",
         decided' = Append(decided, [id |-> job.id, action |-> job.action])
  PROVE  /\ Len(decided) \in Nat /\ Len(decided') = Len(decided) + 1
         /\ decided'[Len(decided')] = [id |-> job.id, action |-> job.action]
         /\ \A n \in 1..Len(decided) : decided'[n] = decided[n]
<1>1. decided \in Seq([id : Ids, action : Actions]) BY DEF IInv, Typed
<1>2. [id |-> job.id, action |-> job.action] \in [id : Ids, action : Actions]
  BY DEF JobType
<1>q. QED BY <1>1, <1>2

(* A reload of the queue never touches an open candidate.                  *)
THEOREM OpenCandidatesSafe == Spec => OpenCandidatesKept
<1>1. ASSUME IInv, [Next]_vars, NEW id \in Candidates, records'[id] # records[id]
      PROVE  Len(decided') = Len(decided) + 1 /\ decided'[Len(decided')].id = id
  <2>1. /\ pc = "row" /\ job \in JobType
        /\ records' = [records EXCEPT ![job.id] = job.rec]
        /\ job.action # "none" =>
              decided' = Append(decided, [id |-> job.id, action |-> job.action])
    BY <1>1, RecordStep
  <2>2. id = job.id BY <1>1, <2>1 DEF IInv, Typed, Candidates
  <2>3. job.action # "none" BY <1>1, <2>1, <2>2 DEF IInv, Seeding
  <2>q. QED BY <1>1, <2>1, <2>2, <2>3, DecidedAppended
<1>2. IInv /\ [Next]_vars =>
        [\A id \in Candidates : records'[id] # records[id] =>
            Len(decided') = Len(decided) + 1 /\ decided'[Len(decided')].id = id]_vars
  BY <1>1
<1>q. QED BY <1>2, InitIInv, StepIInv, PTL DEF Spec, OpenCandidatesKept

(* After its creation a candidate with a time-stamped id only changes by a *)
(* decision on it.                                                         *)
THEOREM DefaultsSafe == Spec => OnlyDecisionsChangeDefaults
<1>1. ASSUME IInv, [Next]_vars, NEW id \in DefaultIds,
             records[id] # NoRecord, records'[id] # records[id]
      PROVE  Len(decided') = Len(decided) + 1 /\ decided'[Len(decided')].id = id
  <2>1. /\ pc = "row" /\ job \in JobType
        /\ records' = [records EXCEPT ![job.id] = job.rec]
        /\ job.action # "none" =>
              decided' = Append(decided, [id |-> job.id, action |-> job.action])
    BY <1>1, RecordStep
  <2>2. id = job.id BY <1>1, <2>1 DEF IInv, Typed, Ids
  <2>3. job.action # "none" BY <1>1, <2>1, <2>2 DEF IInv, Seeding
  <2>q. QED BY <1>1, <2>1, <2>2, <2>3, DecidedAppended
<1>2. IInv /\ [Next]_vars =>
        [\A id \in DefaultIds : records[id] # NoRecord /\ records'[id] # records[id] =>
            Len(decided') = Len(decided) + 1 /\ decided'[Len(decided')].id = id]_vars
  BY <1>1
<1>q. QED BY <1>2, InitIInv, StepIInv, PTL DEF Spec, OnlyDecisionsChangeDefaults
-----------------------------------------------------------------------------
LEMMA StepConfirmed == IInv /\ FindingsWereConfirmed /\ [Next]_vars => FindingsWereConfirmed'
<1> SUFFICES ASSUME IInv, FindingsWereConfirmed, [Next]_vars PROVE FindingsWereConfirmed'
  OBVIOUS
<1>1. CASE UNCHANGED <<records, decided>>
  BY <1>1 DEF FindingsWereConfirmed, Verdicts
<1>2. CASE WriteRow
  <2>1. /\ pc = "row" /\ records' = [records EXCEPT ![job.id] = job.rec]
        /\ job \in JobType
    BY <1>2 DEF WriteRow, IInv, Writing
  <2>2. job.id \in Ids /\ job.rec \in RecordType /\ job.action \in Actions \cup {"none"}
    BY <2>1 DEF JobType
  <2>3. records \in [Ids -> RecordType \cup {NoRecord}]
        /\ decided \in Seq([id : Ids, action : Actions]) /\ Len(decided) \in Nat
    BY DEF IInv, Typed
  <2>4. CASE job.action = "none"
    <3>1. decided' = decided BY <1>2, <2>4 DEF WriteRow
    <3>2. job.rec.kind = "candidate" /\ ~job.rec.verified
      BY <2>1, <2>4 DEF IInv, Seeding
    <3>3. records'[job.id] = job.rec /\ \A id \in Ids \ {job.id} : records'[id] = records[id]
      BY <2>1, <2>2, <2>3
    <3>q. QED BY <3>1, <3>2, <3>3 DEF FindingsWereConfirmed, Verdicts
  <2>5. CASE job.action # "none"
    <3>1. /\ Len(decided') = Len(decided) + 1
          /\ decided'[Len(decided) + 1] = [id |-> job.id, action |-> job.action]
          /\ \A n \in 1..Len(decided) : decided'[n] = decided[n]
      BY <1>2, <2>1, <2>5, DecidedAppended DEF WriteRow
    <3>2. records[job.id] # NoRecord /\ job.rec = Applied(records[job.id], job.action)
      BY <2>1, <2>5 DEF IInv, Deciding
    <3>3. records[job.id] \in RecordType /\ job.action \in Actions
      BY <2>2, <2>3, <2>5, <3>2
    <3>4. ASSUME NEW id \in Ids, records'[id] # NoRecord,
                 records'[id].kind = "finding" \/ records'[id].verified
          PROVE  /\ records'[id].kind = "finding" /\ records'[id].verified
                 /\ \E n \in Verdicts(id)' :
                       /\ decided'[n].action = "confirm"
                       /\ \A m \in Verdicts(id)' : m <= n
      <4>1. CASE id # job.id
        <5>1. records'[id] = records[id] BY <2>1, <2>3, <4>1
        <5>2. \A n : n \in Verdicts(id)' <=> n \in Verdicts(id)
          BY <2>3, <3>1, <4>1 DEF Verdicts
        <5>3. PICK n \in Verdicts(id) :
                 decided[n].action = "confirm" /\ \A m \in Verdicts(id) : m <= n
          BY <3>4, <5>1 DEF FindingsWereConfirmed
        <5>4. n \in 1..Len(decided) BY <5>3 DEF Verdicts
        <5>5. records'[id].kind = "finding" /\ records'[id].verified
          BY <3>4, <5>1 DEF FindingsWereConfirmed
        <5>6. decided'[n].action = "confirm" BY <3>1, <5>3, <5>4
        <5>7. n \in Verdicts(id)' /\ \A m \in Verdicts(id)' : m <= n
          BY <5>2, <5>3
        <5>q. QED BY <5>5, <5>6, <5>7
      <4>2. CASE id = job.id /\ job.action = "confirm"
        <5>1. records'[id] = job.rec BY <2>1, <2>3, <4>2
        <5>2. job.rec.kind = "finding" /\ job.rec.verified
          BY <3>2, <3>3, <4>2, AppliedFacts
        <5>3. Len(decided) + 1 \in Verdicts(id)'
          BY <2>3, <3>1, <4>2 DEF Verdicts
        <5>4. \A m \in Verdicts(id)' : m <= Len(decided) + 1
          BY <2>3, <3>1 DEF Verdicts
        <5>5. decided'[Len(decided) + 1].action = "confirm" BY <3>1, <4>2
        <5>q. QED BY <5>1, <5>2, <5>3, <5>4, <5>5
      <4>3. CASE id = job.id /\ job.action = "reject"
        <5>1. records'[id] = job.rec BY <2>1, <2>3, <4>3
        <5>q. QED BY <3>2, <3>3, <3>4, <4>3, <5>1, AppliedFacts
      <4>4. CASE id = job.id /\ job.action \in {"suppress", "annotate"}
        <5>1. records'[id] = job.rec BY <2>1, <2>3, <4>4
        <5>2. job.rec.kind = records[id].kind /\ job.rec.verified = records[id].verified
          BY <3>2, <3>3, <4>4, AppliedFacts
        <5>3. \A n : n \in Verdicts(id)' <=> n \in Verdicts(id)
          BY <2>3, <3>1, <4>4 DEF Verdicts
        <5>4. /\ records[id].kind = "finding" /\ records[id].verified
              /\ \E n \in Verdicts(id) :
                    decided[n].action = "confirm" /\ \A m \in Verdicts(id) : m <= n
          BY <3>2, <3>4, <4>4, <5>1, <5>2 DEF FindingsWereConfirmed
        <5>5. PICK n \in Verdicts(id) :
                 decided[n].action = "confirm" /\ \A m \in Verdicts(id) : m <= n
          BY <5>4
        <5>6. n \in 1..Len(decided) BY <5>5 DEF Verdicts
        <5>7. records'[id].kind = "finding" /\ records'[id].verified
          BY <5>1, <5>2, <5>4
        <5>8. decided'[n].action = "confirm" BY <3>1, <5>5, <5>6
        <5>9. n \in Verdicts(id)' /\ \A m \in Verdicts(id)' : m <= n
          BY <5>3, <5>5
        <5>q. QED BY <5>7, <5>8, <5>9
      <4>q. QED BY <3>3, <4>1, <4>2, <4>3, <4>4 DEF Actions
    <3>q. QED BY <3>4 DEF FindingsWereConfirmed
  <2>q. QED BY <2>4, <2>5
<1>q. QED
  BY <1>1, <1>2 DEF Next, vars, ConfirmWorkspace, SeedRules, SeedDefault, Seed,
     Decide, Unindex, Index, AppendEvent, StatementFails, Restart, LoadOverlay, Expire

(* A verified finding was confirmed by an analyst and not rejected since,  *)
(* through any seeding, failed statement and restart.                      *)
THEOREM FindingsConfirmed == Spec => []FindingsWereConfirmed
<1>1. Init => FindingsWereConfirmed BY DEF Init, FindingsWereConfirmed
<1>q. QED BY <1>1, InitIInv, StepIInv, StepConfirmed, PTL DEF Spec
-----------------------------------------------------------------------------
(* While no handler is past its row write, a cached overlay is the store's *)
(* unless a handler failed; past the index write there is no overlay.      *)
OverlayInv ==
    /\ pc \in {"idle", "row"} /\ overlay # NoCache /\ ~failed => overlay.snap = records
    /\ pc = "event" => overlay = NoCache

LEMMA StepOverlay == IInv /\ OverlayInv /\ [Next]_vars => OverlayInv'
<1> SUFFICES ASSUME IInv, OverlayInv, [Next]_vars PROVE OverlayInv'
  OBVIOUS
<1> USE DEF OverlayInv
<1>1. CASE UNCHANGED vars \/ \E w \in Workspaces : ConfirmWorkspace(w)
  BY <1>1 DEF vars, ConfirmWorkspace
<1>2. CASE SeedRules \/ SeedDefault
  BY <1>2 DEF SeedRules, SeedDefault, Seed, FirstStatement
<1>3. CASE \E id \in Ids, action \in Actions : Decide(id, action)
  BY <1>3 DEF Decide, FirstStatement
<1>4. CASE WriteRow \/ Unindex BY <1>4 DEF WriteRow, Unindex
<1>5. CASE Index BY <1>5 DEF Index, Invalidated, FirstStatement
<1>6. CASE AppendEvent BY <1>6 DEF AppendEvent
<1>7. CASE StatementFails \/ Restart BY <1>7 DEF StatementFails, Restart
<1>8. CASE LoadOverlay BY <1>8 DEF LoadOverlay
<1>9. CASE Expire
  <2>1. overlay'.snap = overlay.snap BY <1>9 DEF Expire
  <2>q. QED BY <1>9, <2>1 DEF Expire
<1>q. QED BY <1>1, <1>2, <1>3, <1>4, <1>5, <1>6, <1>7, <1>8, <1>9 DEF Next

(* Unless a handler failed half-way, the graphs are annotated with the     *)
(* records the store has.                                                  *)
THEOREM OverlaySound == Spec => []OverlayCurrent
<1>1. Init => OverlayInv BY DEF Init, OverlayInv
<1>2. OverlayInv => OverlayCurrent BY DEF OverlayInv, OverlayCurrent
<1>q. QED BY <1>1, <1>2, InitIInv, StepIInv, StepOverlay, PTL DEF Spec
-----------------------------------------------------------------------------
(* The log and the search table.  Past its row write a deciding handler    *)
(* has a decision to tell of.                                              *)
LoggedSoFar ==
    /\ index \subseteq Ids
    /\ events \subseteq 1..Len(decided) /\ feedback \subseteq 1..Len(decided)
    /\ pc \in {"unindex", "index"} /\ job.action # "none" => Len(decided) >= 1
    /\ pc = "event" => Len(decided) >= 1

LEMMA StepLogged == IInv /\ LoggedSoFar /\ [Next]_vars => LoggedSoFar'
<1> SUFFICES ASSUME IInv, LoggedSoFar, [Next]_vars PROVE LoggedSoFar'
  OBVIOUS
<1> USE DEF LoggedSoFar
<1>0. decided \in Seq([id : Ids, action : Actions]) /\ Len(decided) \in Nat BY DEF IInv, Typed
<1>a. pc # "idle" => job.id \in Ids /\ job.action \in Actions \cup {"none"} BY DEF IInv, Writing, JobType
<1>b. "none" \notin Actions BY DEF Actions
<1>1. CASE UNCHANGED vars \/ \E w \in Workspaces : ConfirmWorkspace(w)
  BY <1>1 DEF vars, ConfirmWorkspace
<1>2. CASE SeedRules \/ SeedDefault
  BY <1>2 DEF SeedRules, SeedDefault, Seed, FirstStatement
<1>3. CASE \E id \in Ids, action \in Actions : Decide(id, action)
  BY <1>3 DEF Decide, FirstStatement
<1>4. CASE WriteRow
  <2>1. CASE job.action = "none" BY <1>4, <2>1 DEF WriteRow
  <2>2. CASE job.action # "none"
    <3>1. PICK d \in [id : Ids, action : Actions] : decided' = Append(decided, d)
      <4>1. pc # "idle" BY <1>4 DEF WriteRow
      <4>2. [id |-> job.id, action |-> job.action] \in [id : Ids, action : Actions] BY <1>a, <2>2, <4>1
      <4>q. QED BY <1>4, <2>2, <4>2 DEF WriteRow
    <3>2. Len(decided') = Len(decided) + 1 BY <1>0, <3>1
    <3>3. UNCHANGED <<index, events, feedback>> BY <1>4 DEF WriteRow
    <3>q. QED BY <1>0, <3>2, <3>3
  <2>q. QED BY <2>1, <2>2
<1>5. CASE Unindex BY <1>5 DEF Unindex
<1>6. CASE Index
  <2>1. pc = "index" /\ index' = index \cup {job.id} /\ UNCHANGED <<decided, events, feedback>>
    BY <1>6 DEF Index
  <2>2. index' \subseteq Ids BY <1>a, <2>1
  <2>3. \/ pc' = "event" /\ job' = job /\ job.action # "none"
        \/ pc' = "row"
        \/ pc' = "idle"
    BY <1>6 DEF Index, FirstStatement
  <2>q. QED BY <2>1, <2>2, <2>3
<1>7. CASE AppendEvent
  <2>1. pc = "event" /\ pc' = "idle" /\ UNCHANGED <<index, decided>> BY <1>7 DEF AppendEvent
  <2>2. events' = events \cup {Len(decided)} /\ feedback' \in {feedback, feedback \cup {Len(decided)}}
    BY <1>7 DEF AppendEvent, Logged
  <2>3. Len(decided) \in 1..Len(decided) BY <1>0, <2>1
  <2>4. events' \subseteq 1..Len(decided) /\ feedback' \subseteq 1..Len(decided) BY <2>2, <2>3
  <2>5. Len(decided') = Len(decided) BY <2>1
  <2>q. QED BY <2>1, <2>4, <2>5
<1>8. CASE StatementFails \/ Restart BY <1>8 DEF StatementFails, Restart
<1>9. CASE LoadOverlay \/ Expire BY <1>9 DEF LoadOverlay, Expire
<1>q. QED BY <1>1, <1>2, <1>3, <1>4, <1>5, <1>6, <1>7, <1>8, <1>9 DEF Next

(* Every variable keeps to its type: what is logged and fed back are       *)
(* decisions whose row was written.                                        *)
THEOREM TypeCorrect == Spec => []TypeOK
<1>1. Init => LoggedSoFar BY DEF Init, LoggedSoFar
<1>2. IInv /\ LoggedSoFar => TypeOK BY DEF IInv, Typed, Writing, JobType, LoggedSoFar, TypeOK
<1>q. QED BY <1>1, <1>2, InitIInv, StepIInv, StepLogged, PTL DEF Spec
=============================================================================
