-------------------------- MODULE AuditWizardProofs --------------------------
(* A session is made from one wizard's own source, and none of the jobs of *)
(* a session that was reported is lost.  Both rest on what the states of   *)
(* the wizards keep to themselves: a state in the middle of a creation is  *)
(* never dropped for its age, and a session has one creation ever.         *)
EXTENDS AuditWizard, TLAPS

USE WizardAssumption

(* No state is dropped while it creates a session; the manager's own state *)
(* is never dropped.                                                       *)
Busy(c) == pc[c] # "idle"
KeptWhileBusy ==
    /\ ui[Main] # Gone /\ ~old[Main]
    /\ \A c \in Clients : Busy(c) => ui[c] # Gone /\ ~old[c]

(* The summary and the configuration of a state are of the source it has   *)
(* resolved, the last one its client asked for.                            *)
Sound(u, src) ==
    /\ u.source \in {NoSource, src}
    /\ u.summary \in {NoSource, u.source}
    /\ u.config # NoConfig => /\ u.source # NoSource
                              /\ u.config.source = u.source
                              /\ u.config.scope = u.source

Bound == \A c \in Clients : ui[c] # Gone => Sound(ui[c], asked[c])

(* A session has one creation ever, and is in the database only if that    *)
(* creation has stored it.                                                 *)
Creating ==
    /\ \A c \in Clients : Busy(c) =>
          /\ making[c] \in SessionIds
          /\ born[making[c]] # NoSource /\ making[c] \notin acked
          /\ pc[c] = "row" \/ ~ui[c].store => making[c] \notin rows
    /\ \A c, d \in Clients : c # d /\ Busy(c) /\ Busy(d) => making[c] # making[d]
    /\ \A s \in SessionIds : born[s] = NoSource => s \notin rows \cup acked

IInv == TypeOK /\ KeptWhileBusy /\ Bound /\ Creating /\ JobsSurvive
-----------------------------------------------------------------------------
(* What the requests do to a state.                                        *)
LEMMA FreshState ==
    ASSUME NEW st \in BOOLEAN, NEW src
    PROVE  Fresh(st) \in UiState /\ Sound(Fresh(st), src) /\ Fresh(st).config = NoConfig
BY DEF Fresh, UiState, Sound

LEMMA ResolvedState ==
    ASSUME NEW u \in UiState, NEW src \in Sources
    PROVE  Resolved(u, src) \in UiState /\ Sound(Resolved(u, src), src)
BY DEF Resolved, UiState, Sound

LEMMA ParsedState ==
    ASSUME NEW u \in UiState, NEW src, Sound(u, src)
    PROVE  [u EXCEPT !.yaml = TRUE] \in UiState /\ Sound([u EXCEPT !.yaml = TRUE], src)
BY DEF UiState, Sound

LEMMA DetectedState ==
    ASSUME NEW u \in UiState, NEW src, Sound(u, src)
    PROVE  /\ [u EXCEPT !.summary = u.source] \in UiState
           /\ Sound([u EXCEPT !.summary = u.source], src)
BY DEF UiState, Sound

LEMMA SummarisedState ==
    ASSUME NEW u \in UiState, NEW src, Sound(u, src)
    PROVE  /\ Summarised(u) \in UiState /\ Sound(Summarised(u), src)
           /\ Summarised(u).source = u.source /\ Summarised(u).summary = u.source
BY DEF Summarised, UiState, Sound

LEMMA ConfirmedState ==
    ASSUME NEW u \in UiState, NEW src, Sound(u, src), u.source # NoSource, u.summary = u.source
    PROVE  Confirmed(u) \in UiState /\ Sound(Confirmed(u), src)
<1>1. u.source \in Sources /\ u.yaml \in BOOLEAN BY DEF UiState
<1>2. [source |-> u.source, scope |-> u.summary, yaml |-> u.yaml] \in ConfigType
  BY <1>1 DEF ConfigType
<1>3. Confirmed(u) \in UiState BY <1>2 DEF Confirmed, UiState
<1>4. /\ Confirmed(u).source = u.source /\ Confirmed(u).summary = u.summary
      /\ Confirmed(u).config = [source |-> u.source, scope |-> u.summary, yaml |-> u.yaml]
  BY DEF Confirmed, UiState
<1>q. QED BY <1>3, <1>4 DEF Sound

LEMMA SessionsState ==
    ASSUME NEW u \in UiState, NEW src, Sound(u, src), NEW S \in SUBSET SessionIds
    PROVE  /\ [u EXCEPT !.sessions = S] \in UiState
           /\ Sound([u EXCEPT !.sessions = S], src)
           /\ [u EXCEPT !.sessions = S].store = u.store
BY DEF UiState, Sound

LEMMA JobsState ==
    ASSUME NEW u \in UiState, NEW src, Sound(u, src),
           NEW s \in SessionIds, NEW n \in 0..NumJobs
    PROVE  /\ [u EXCEPT !.jobs[s] = n] \in UiState
           /\ Sound([u EXCEPT !.jobs[s] = n], src)
           /\ [u EXCEPT !.jobs[s] = n].store = u.store
BY DEF UiState, Sound

(* The state a request finds or makes is sound.                            *)
LEMMA CurrentState ==
    ASSUME IInv, NEW c \in Clients, NEW u \in Current(c)
    PROVE  /\ u \in UiState /\ Sound(u, asked[c])
           /\ u.config # NoConfig => u = ui[c] /\ ui[c] # Gone
BY FreshState DEF IInv, TypeOK, Bound, Current
-----------------------------------------------------------------------------
(* A request leaves the other clients' states as they are, or drops those  *)
(* that are old: never one that creates a session, nor the manager's own.  *)
LEMMA ServeKeeps ==
    ASSUME IInv, NEW c \in Clients, NEW v \in UiState, Serve(c, v), Sound(v, asked'[c]),
           \A d \in Clients \ {c} : asked'[d] = asked[d]
    PROVE  /\ ui' \in [Clients -> UiState \cup {Gone}] /\ old' \in [Clients -> BOOLEAN]
           /\ ui'[Main] # Gone /\ ~old'[Main]
           /\ ui'[c] = v /\ v # Gone /\ ~old'[c] /\ ~Busy(c)
           /\ \A d \in Clients : Busy(d) => d # c /\ ui'[d] = ui[d] /\ ~old'[d]
           /\ Bound'
<1> USE DEF IInv
<1>0. /\ ui \in [Clients -> UiState \cup {Gone}] /\ old \in [Clients -> BOOLEAN]
      /\ Main \in Clients
  BY DEF TypeOK, Clients
<1>1. /\ pc[c] = "idle"
      /\ \A d \in Clients : ui'[d] = IF d = c THEN v
                                     ELSE IF Dropped(c, d) THEN Gone ELSE ui[d]
      /\ \A d \in Clients : old'[d] = (d # c /\ old[d] /\ ~Dropped(c, d))
  BY DEF Serve
<1>2. ui' \in [Clients -> UiState \cup {Gone}]
  <2>1. ui' = [d \in Clients |-> ui'[d]] BY DEF Serve
  <2>q. QED BY <1>0, <1>1, <2>1
<1>3. old' \in [Clients -> BOOLEAN]
  <2>1. old' = [d \in Clients |-> old'[d]] BY DEF Serve
  <2>2. \A d \in Clients : old'[d] \in BOOLEAN BY <1>1
  <2>q. QED BY <2>1, <2>2
<1>4. ui'[Main] # Gone /\ ~old'[Main]
  BY <1>0, <1>1 DEF KeptWhileBusy, Dropped
<1>5. \A d \in Clients : Busy(d) => d # c /\ ui'[d] = ui[d] /\ ~old'[d]
  BY <1>1 DEF KeptWhileBusy, Dropped, Busy
<1>6. ui'[c] = v /\ v # Gone /\ ~old'[c] /\ ~Busy(c) BY <1>1 DEF Busy
<1>7. \A d \in Clients : ui'[d] # Gone => Sound(ui'[d], asked'[d])
  BY <1>1 DEF Bound
<1>8. Bound' BY <1>7 DEF Bound, Sound
<1>q. QED BY <1>2, <1>3, <1>4, <1>5, <1>6, <1>8

(* A request that is no part of a creation keeps the invariant.            *)
LEMMA ServeStep ==
    ASSUME IInv, NEW c \in Clients, NEW v \in UiState, Serve(c, v), Sound(v, asked'[c]),
           asked' \in [Clients -> Sources \cup {NoSource}],
           \A d \in Clients \ {c} : asked'[d] = asked[d],
           plans' \in [SessionIds -> Sources \cup {NoSource}], planned' \subseteq SessionIds,
           UNCHANGED <<pc, making, rows, log, born, acked>>
    PROVE  IInv'
<1> USE DEF IInv
<1>1. /\ ui' \in [Clients -> UiState \cup {Gone}] /\ old' \in [Clients -> BOOLEAN]
      /\ ui'[Main] # Gone /\ ~old'[Main]
      /\ \A d \in Clients : Busy(d) => ui'[d] = ui[d] /\ ~old'[d]
      /\ Bound'
  BY ServeKeeps
<1>2. TypeOK' BY <1>1 DEF TypeOK
<1>3. KeptWhileBusy' BY <1>1 DEF KeptWhileBusy, Busy
<1>4. Creating' BY <1>1 DEF Creating, Busy
<1>5. JobsSurvive' BY DEF JobsSurvive
<1>q. QED BY <1>1, <1>2, <1>3, <1>4, <1>5
-----------------------------------------------------------------------------
LEMMA InitIInv == Init => IInv
<1> SUFFICES ASSUME Init PROVE IInv OBVIOUS
<1>0. Main \in Clients BY DEF Clients
<1>1. \A st \in Opens : \A src : Fresh(st) \in UiState /\ Sound(Fresh(st), src)
  BY FreshState
<1>2. TypeOK BY <1>0, <1>1 DEF Init, TypeOK, creation
<1>3. KeptWhileBusy BY <1>0 DEF Init, KeptWhileBusy, Busy
<1>4. Bound BY <1>1 DEF Init, Bound
<1>5. Creating /\ JobsSurvive BY DEF Init, Creating, JobsSurvive, Busy
<1>q. QED BY <1>2, <1>3, <1>4, <1>5 DEF IInv

LEMMA StepWizard ==
    ASSUME IInv, NEW c \in Clients, Wizard(c)
    PROVE  IInv'
<1>0. /\ asked \in [Clients -> Sources \cup {NoSource}]
      /\ plans \in [SessionIds -> Sources \cup {NoSource}] /\ planned \subseteq SessionIds
  BY DEF IInv, TypeOK
<1>1. ASSUME NEW v \in UiState, Serve(c, v), Sound(v, asked[c]),
             UNCHANGED <<creation, db, history>>
      PROVE  IInv'
  BY <1>0, <1>1, ServeStep DEF creation, db, history
<1>2. CASE Refuse(c) BY <1>1, <1>2, CurrentState DEF Refuse
<1>3. CASE ParseConfig(c) BY <1>1, <1>3, CurrentState, ParsedState DEF ParseConfig
<1>4. CASE DetectWorkspace(c)
  BY <1>1, <1>4, CurrentState, DetectedState DEF DetectWorkspace
<1>5. CASE ConfirmWorkspace(c)
  <2>1. PICK u \in Current(c) :
           /\ u.source # NoSource
           /\ Serve(c, Confirmed(Summarised(u))) \/ Serve(c, Summarised(u))
           /\ UNCHANGED <<creation, db, history>>
    BY <1>5 DEF ConfirmWorkspace
  <2>2. u \in UiState /\ Sound(u, asked[c]) BY CurrentState
  <2>3. /\ Summarised(u) \in UiState /\ Sound(Summarised(u), asked[c])
        /\ Summarised(u).source = u.source /\ Summarised(u).summary = u.source
    BY <2>2, SummarisedState
  <2>4. Confirmed(Summarised(u)) \in UiState /\ Sound(Confirmed(Summarised(u)), asked[c])
    BY <2>1, <2>3, ConfirmedState
  <2>q. QED BY <1>1, <2>1, <2>3, <2>4
<1>6. ASSUME NEW src \in Sources, ResolveSource(c, src) PROVE IInv'
  <2>1. PICK u \in Current(c) : Serve(c, Resolved(u, src)) BY <1>6 DEF ResolveSource
  <2>2. Resolved(u, src) \in UiState /\ Sound(Resolved(u, src), src)
    BY CurrentState, ResolvedState
  <2>3. /\ asked' \in [Clients -> Sources \cup {NoSource}] /\ asked'[c] = src
        /\ \A d \in Clients \ {c} : asked'[d] = asked[d]
        /\ UNCHANGED <<pc, making, rows, log, plans, born, acked, planned>>
    BY <1>0, <1>6 DEF ResolveSource, creation, db
  <2>q. QED BY <1>0, <2>1, <2>2, <2>3, ServeStep
<1>7. ASSUME NEW s \in SessionIds, BeginCreate(c, s) PROVE IInv'
  <2> USE DEF IInv
  <2>1. PICK u \in Current(c) : /\ u.config # NoConfig /\ Serve(c, u)
                                /\ born' = [born EXCEPT ![s] = u.config.source]
    BY <1>7 DEF BeginCreate
  <2>2. /\ born[s] = NoSource /\ pc' = [pc EXCEPT ![c] = "row"]
        /\ making' = [making EXCEPT ![c] = s]
        /\ UNCHANGED <<rows, log, plans, asked, acked, planned>>
    BY <1>7 DEF BeginCreate, db
  <2>3. u \in UiState /\ Sound(u, asked[c]) BY CurrentState
  <2>4. u.config \in ConfigType /\ u.config.source \in Sources
    BY <2>1, <2>3 DEF UiState, ConfigType
  <2>5. /\ ui' \in [Clients -> UiState \cup {Gone}] /\ old' \in [Clients -> BOOLEAN]
        /\ ui'[Main] # Gone /\ ~old'[Main]
        /\ ui'[c] # Gone /\ ~old'[c] /\ ~Busy(c)
        /\ \A d \in Clients : Busy(d) => ui'[d] = ui[d] /\ ~old'[d]
        /\ Bound'
    <3>1. Sound(u, asked'[c]) BY <2>2, <2>3
    <3>q. QED BY <2>1, <2>2, <2>3, <3>1, ServeKeeps
  <2>6. TypeOK'
    <3>1. /\ pc' \in [Clients -> {"idle", "row", "jobs"}]
          /\ making' \in [Clients -> SessionIds \cup {NoSession}]
      BY <2>2 DEF TypeOK
    <3>2. born' \in [SessionIds -> Sources \cup {NoSource}]
      BY <2>1, <2>4 DEF TypeOK
    <3>q. QED BY <2>2, <2>5, <3>1, <3>2 DEF TypeOK
  <2>7. /\ \A d \in Clients : /\ pc'[d] = IF d = c THEN "row" ELSE pc[d]
                              /\ making'[d] = IF d = c THEN s ELSE making[d]
        /\ \A t \in SessionIds : born'[t] = IF t = s THEN u.config.source ELSE born[t]
    BY <2>1, <2>2 DEF TypeOK
  <2>8. \A d \in Clients : Busy(d)' <=> d = c \/ Busy(d) BY <2>7 DEF Busy
  <2>9. KeptWhileBusy' BY <2>5, <2>8 DEF KeptWhileBusy
  <2>10. u.config.source # NoSource BY <2>4
  <2>11. Creating'
    <3>1. \A d \in Clients : Busy(d)' =>
             /\ making'[d] \in SessionIds
             /\ born'[making'[d]] # NoSource /\ making'[d] \notin acked'
             /\ pc'[d] = "row" \/ ~ui'[d].store => making'[d] \notin rows'
      BY <2>2, <2>5, <2>7, <2>8, <2>10 DEF Creating
    <3>2. \A d \in Clients : Busy(d) => making[d] # s BY <2>2 DEF Creating
    <3>3. \A d, e \in Clients : d # e /\ Busy(d)' /\ Busy(e)' => making'[d] # making'[e]
      BY <2>7, <2>8, <3>2 DEF Creating
    <3>4. \A t \in SessionIds : born'[t] = NoSource => t \notin rows' \cup acked'
      BY <2>2, <2>7, <2>10 DEF Creating
    <3>q. QED BY <3>1, <3>3, <3>4 DEF Creating
  <2>12. JobsSurvive' BY <2>2 DEF JobsSurvive
  <2>q. QED BY <2>5, <2>6, <2>9, <2>11, <2>12
<1>q. QED BY <1>2, <1>3, <1>4, <1>5, <1>6, <1>7 DEF Wizard

(* create_audit_session: the state is its own until the answer.            *)
LEMMA StepCreate ==
    ASSUME IInv, NEW c \in Clients, Create(c)
    PROVE  IInv'
<1> USE DEF IInv
<1>0. /\ pc \in [Clients -> {"idle", "row", "jobs"}]
      /\ making \in [Clients -> SessionIds \cup {NoSession}]
      /\ ui \in [Clients -> UiState \cup {Gone}] /\ log \in [SessionIds -> 0..NumJobs]
      /\ Main \in Clients
  BY DEF TypeOK, Clients
<1>1. /\ Busy(c) /\ ui[c] # Gone /\ ui[c] \in UiState /\ Sound(ui[c], asked[c])
      /\ making[c] \in SessionIds
      /\ born[making[c]] # NoSource /\ making[c] \notin acked
      /\ pc[c] = "row" \/ ~ui[c].store => making[c] \notin rows
  <2>1. Busy(c)
    BY DEF Create, StoreSession, StoreJob, FinishCreate, CreateFails, Busy
  <2>2. ui[c] # Gone BY <2>1 DEF KeptWhileBusy
  <2>q. QED BY <1>0, <2>1, <2>2 DEF Bound, Creating
<1>2. CASE StoreSession(c)
  <2>1. /\ pc[c] = "row" /\ pc' = [pc EXCEPT ![c] = "jobs"]
        /\ rows' = IF ui[c].store THEN rows \cup {making[c]} ELSE rows
        /\ ui' = [ui EXCEPT ![c].sessions = ui[c].sessions \cup {making[c]}]
        /\ UNCHANGED <<old, making, log, plans, born, asked, acked, planned>>
    BY <1>2 DEF StoreSession, RowsAfter, history
  <2>2. /\ ui'[c] \in UiState /\ Sound(ui'[c], asked[c]) /\ ui'[c].store = ui[c].store
        /\ \A d \in Clients \ {c} : ui'[d] = ui[d]
        /\ ui' \in [Clients -> UiState \cup {Gone}]
    <3>1. ui[c].sessions \cup {making[c]} \in SUBSET SessionIds BY <1>1 DEF UiState
    <3>2. ui'[c] = [ui[c] EXCEPT !.sessions = ui[c].sessions \cup {making[c]}]
      BY <1>0, <2>1
    <3>3. ui'[c] \in UiState /\ Sound(ui'[c], asked[c]) /\ ui'[c].store = ui[c].store
      BY <1>1, <3>1, <3>2, SessionsState
    <3>4. \A d \in Clients \ {c} : ui'[d] = ui[d] BY <1>0, <2>1
    <3>5. ui' \in [Clients -> UiState \cup {Gone}]
      <4>1. DOMAIN ui' = Clients /\ ui' = [d \in Clients |-> ui'[d]] BY <1>0, <2>1
      <4>2. \A d \in Clients : ui'[d] \in UiState \cup {Gone} BY <1>0, <3>3, <3>4
      <4>q. QED BY <4>1, <4>2
    <3>q. QED BY <3>3, <3>4, <3>5
  <2>3. \A d \in Clients : pc'[d] = IF d = c THEN "jobs" ELSE pc[d] BY <1>0, <2>1
  <2>4. TypeOK'
    <3>1. ui'[Main] # Gone BY <1>0, <2>2 DEF KeptWhileBusy
    <3>q. QED BY <1>1, <2>1, <2>2, <3>1 DEF TypeOK
  <2>5. KeptWhileBusy' BY <1>0, <1>1, <2>1, <2>2, <2>3 DEF KeptWhileBusy, Busy
  <2>6. Bound'
    <3>1. \A d \in Clients : ui'[d] # Gone => Sound(ui'[d], asked'[d])
      BY <2>1, <2>2 DEF Bound
    <3>q. QED BY <3>1 DEF Bound, Sound
  <2>7. \A d \in Clients : Busy(d)' <=> Busy(d) BY <1>1, <2>3 DEF Busy
  <2>8. Creating'
    <3>1. \A d \in Clients : d # c /\ Busy(d) => making[d] # making[c]
      BY <1>1 DEF Creating
    <3>2. \A d \in Clients : Busy(d)' =>
             /\ making'[d] \in SessionIds
             /\ born'[making'[d]] # NoSource /\ making'[d] \notin acked'
             /\ pc'[d] = "row" \/ ~ui'[d].store => making'[d] \notin rows'
      BY <1>1, <2>1, <2>2, <2>3, <2>7, <3>1 DEF Creating
    <3>3. \A s \in SessionIds : born'[s] = NoSource => s \notin rows' \cup acked'
      BY <1>1, <2>1 DEF Creating
    <3>q. QED BY <2>1, <2>7, <3>2, <3>3 DEF Creating
  <2>9. JobsSurvive' BY <1>1, <2>1 DEF JobsSurvive
  <2>q. QED BY <2>4, <2>5, <2>6, <2>8, <2>9
<1>3. CASE StoreJob(c)
  <2>1. /\ log' = [log EXCEPT ![making[c]] = @ + 1] /\ log[making[c]] < NumJobs
        /\ UNCHANGED <<ui, old, pc, making, rows, plans, born, asked, acked, planned>>
    BY <1>3 DEF StoreJob, JobsLeft, creation, history
  <2>2. log' \in [SessionIds -> 0..NumJobs] BY <1>0, <1>1, <2>1
  <2>3. TypeOK' BY <2>1, <2>2 DEF TypeOK
  <2>4. KeptWhileBusy' /\ Bound' /\ Creating'
    BY <2>1 DEF KeptWhileBusy, Bound, Sound, Creating, Busy
  <2>5. JobsSurvive' BY <1>0, <1>1, <2>1 DEF JobsSurvive
  <2>q. QED BY <2>3, <2>4, <2>5
<1>4. CASE FinishCreate(c)
  <2>1. /\ pc[c] = "jobs" /\ (ui[c].store => log[making[c]] = NumJobs)
        /\ ui' = [ui EXCEPT ![c].jobs[making[c]] = NumJobs]
        /\ acked' = acked \cup {making[c]} /\ pc' = [pc EXCEPT ![c] = "idle"]
        /\ making' = [making EXCEPT ![c] = NoSession]
        /\ UNCHANGED <<old, rows, log, plans, born, asked, planned>>
    BY <1>4 DEF FinishCreate, JobsStored, db
  <2>2. /\ ui'[c] \in UiState /\ Sound(ui'[c], asked[c])
        /\ \A d \in Clients \ {c} : ui'[d] = ui[d]
        /\ ui' \in [Clients -> UiState \cup {Gone}]
    <3>1. NumJobs \in 0..NumJobs OBVIOUS
    <3>2. ui'[c] = [ui[c] EXCEPT !.jobs[making[c]] = NumJobs] BY <1>0, <2>1
    <3>3. ui'[c] \in UiState /\ Sound(ui'[c], asked[c])
      BY <1>1, <3>1, <3>2, JobsState
    <3>4. \A d \in Clients \ {c} : ui'[d] = ui[d] BY <1>0, <2>1
    <3>5. ui' \in [Clients -> UiState \cup {Gone}]
      <4>1. DOMAIN ui' = Clients /\ ui' = [d \in Clients |-> ui'[d]] BY <1>0, <2>1
      <4>2. \A d \in Clients : ui'[d] \in UiState \cup {Gone} BY <1>0, <3>3, <3>4
      <4>q. QED BY <4>1, <4>2
    <3>q. QED BY <3>3, <3>4, <3>5
  <2>3. \A d \in Clients : /\ pc'[d] = IF d = c THEN "idle" ELSE pc[d]
                           /\ making'[d] = IF d = c THEN NoSession ELSE making[d]
    BY <1>0, <2>1
  <2>4. TypeOK'
    <3>1. ui'[Main] # Gone BY <1>0, <2>2 DEF KeptWhileBusy
    <3>q. QED BY <1>1, <2>1, <2>2, <3>1 DEF TypeOK
  <2>5. \A d \in Clients : Busy(d)' <=> d # c /\ Busy(d) BY <2>3 DEF Busy
  <2>6. KeptWhileBusy' BY <1>0, <1>1, <2>1, <2>2, <2>5 DEF KeptWhileBusy
  <2>7. Bound'
    <3>1. \A d \in Clients : ui'[d] # Gone => Sound(ui'[d], asked'[d])
      BY <2>1, <2>2 DEF Bound
    <3>q. QED BY <3>1 DEF Bound, Sound
  <2>8. Creating'
    <3>1. \A d \in Clients : d # c /\ Busy(d) => making[d] # making[c]
      BY <1>1 DEF Creating
    <3>2. \A d \in Clients : Busy(d)' =>
             /\ making'[d] \in SessionIds
             /\ born'[making'[d]] # NoSource /\ making'[d] \notin acked'
             /\ pc'[d] = "row" \/ ~ui'[d].store => making'[d] \notin rows'
      BY <2>1, <2>2, <2>3, <2>5, <3>1 DEF Creating
    <3>3. \A s \in SessionIds : born'[s] = NoSource => s \notin rows' \cup acked'
      BY <1>1, <2>1 DEF Creating
    <3>4. \A d, e \in Clients : d # e /\ Busy(d)' /\ Busy(e)' => making'[d] # making'[e]
      BY <2>3, <2>5 DEF Creating
    <3>q. QED BY <3>2, <3>3, <3>4 DEF Creating
  <2>9. JobsSurvive' BY <1>1, <2>1 DEF JobsSurvive
  <2>q. QED BY <2>4, <2>6, <2>7, <2>8, <2>9
<1>5. CASE CreateFails(c)
  <2>1. /\ pc' = [pc EXCEPT ![c] = "idle"] /\ making' = [making EXCEPT ![c] = NoSession]
        /\ UNCHANGED <<ui, old, rows, log, plans, born, asked, acked, planned>>
    BY <1>5 DEF CreateFails, db, history
  <2>2. TypeOK' BY <2>1 DEF TypeOK
  <2>3. \A d \in Clients : /\ pc'[d] = IF d = c THEN "idle" ELSE pc[d]
                           /\ making'[d] = IF d = c THEN NoSession ELSE making[d]
    BY <1>0, <2>1
  <2>4. \A d \in Clients : Busy(d)' <=> d # c /\ Busy(d) BY <2>3 DEF Busy
  <2>5. KeptWhileBusy' /\ Bound' BY <2>1, <2>4 DEF KeptWhileBusy, Bound, Sound
  <2>6. Creating' BY <2>1, <2>3, <2>4 DEF Creating
  <2>q. QED BY <2>1, <2>2, <2>5, <2>6 DEF JobsSurvive
<1>q. QED BY <1>2, <1>3, <1>4, <1>5 DEF Create

(* The requests about a session, on the manager's own state.               *)
LEMMA StepSession ==
    ASSUME IInv, NEW s \in SessionIds,
           EnsureLoaded(s) \/ OpenSession(s) \/ LoadToolbench(s)
    PROVE  IInv'
<1>0. /\ asked \in [Clients -> Sources \cup {NoSource}] /\ log \in [SessionIds -> 0..NumJobs]
      /\ plans \in [SessionIds -> Sources \cup {NoSource}] /\ planned \subseteq SessionIds
      /\ Main \in Clients /\ ui[Main] \in UiState /\ Sound(ui[Main], asked[Main])
  BY DEF IInv, TypeOK, Bound, Clients
<1>1. Loaded(s) \in UiState /\ Sound(Loaded(s), asked[Main])
  <2>1. ui[Main].sessions \cup {s} \in SUBSET SessionIds BY <1>0 DEF UiState
  <2>2. Loaded(s) = [ui[Main] EXCEPT !.sessions = ui[Main].sessions \cup {s}]
    BY DEF Loaded
  <2>q. QED BY <1>0, <2>1, <2>2, SessionsState
<1>2. ASSUME NEW v \in UiState, Serve(Main, v), Sound(v, asked[Main]),
             UNCHANGED <<creation, db, history>>
      PROVE  IInv'
  BY <1>0, <1>2, ServeStep DEF creation, db, history
<1>3. CASE EnsureLoaded(s) BY <1>1, <1>2, <1>3 DEF EnsureLoaded
<1>4. CASE OpenSession(s)
  <2>1. JobsShown(s) \in 0..NumJobs
    BY <1>0 DEF JobsShown, JobsOfLog, UiState
  <2>2. [Loaded(s) EXCEPT !.jobs[s] = JobsShown(s)] \in UiState
        /\ Sound([Loaded(s) EXCEPT !.jobs[s] = JobsShown(s)], asked[Main])
    BY <1>1, <2>1, JobsState
  <2>q. QED BY <1>2, <1>4, <2>2 DEF OpenSession
<1>5. CASE LoadToolbench(s)
  <2>1. /\ Serve(Main, Loaded(s)) /\ planned' \in SUBSET SessionIds
        /\ UNCHANGED <<pc, making, rows, log, born, asked, acked>>
        /\ plans' = plans \/ /\ ui[Main].config # NoConfig
                             /\ plans' = [plans EXCEPT ![s] = ui[Main].config.source]
    BY <1>0, <1>5 DEF LoadToolbench, creation
  <2>2. ui[Main].config # NoConfig => ui[Main].config.source \in Sources
    BY <1>0 DEF UiState, ConfigType
  <2>3. plans' \in [SessionIds -> Sources \cup {NoSource}] BY <1>0, <2>1, <2>2
  <2>q. QED BY <1>0, <1>1, <2>1, <2>3, ServeStep
<1>q. QED BY <1>3, <1>4, <1>5

LEMMA StepOther ==
    ASSUME IInv, Restart \/ \E w \in Wizards : GetOld(w)
    PROVE  IInv'
<1> USE DEF IInv
<1>0. Main \in Clients BY DEF Clients
<1>1. ASSUME NEW w \in Wizards, GetOld(w) PROVE IInv'
  <2>1. /\ pc[w] = "idle" /\ old' = [old EXCEPT ![w] = TRUE] /\ w \in Clients /\ w # Main
        /\ UNCHANGED <<ui, pc, making, rows, log, plans, born, asked, acked, planned>>
    BY <1>1 DEF GetOld, Clients, creation, db, history
  <2>2. TypeOK' BY <2>1 DEF TypeOK
  <2>3. \A d \in Clients \ {w} : old'[d] = old[d] BY <2>1 DEF TypeOK
  <2>4. KeptWhileBusy' BY <1>0, <2>1, <2>3 DEF KeptWhileBusy, Busy
  <2>5. Bound' /\ Creating' /\ JobsSurvive'
    BY <2>1 DEF Bound, Sound, Creating, Busy, JobsSurvive
  <2>q. QED BY <2>2, <2>4, <2>5
<1>2. CASE Restart
  <2>1. PICK st \in BOOLEAN :
           ui' = [c \in Clients |-> IF c = Main THEN Fresh(st) ELSE Gone]
    BY <1>2 DEF Restart
  <2>2. /\ old' = [c \in Clients |-> FALSE] /\ pc' = [c \in Clients |-> "idle"]
        /\ making' = [c \in Clients |-> NoSession]
        /\ UNCHANGED <<rows, log, plans, born, asked, acked, planned>>
    BY <1>2 DEF Restart, db, history
  <2>3. Fresh(st) \in UiState /\ \A src : Sound(Fresh(st), src) BY FreshState
  <2>4. /\ ui' \in [Clients -> UiState \cup {Gone}] /\ ui'[Main] # Gone
        /\ \A c \in Clients : ui'[c] # Gone => ui'[c] = Fresh(st)
    BY <1>0, <2>1, <2>3
  <2>5. TypeOK' BY <2>2, <2>4 DEF TypeOK
  <2>6. KeptWhileBusy' BY <1>0, <2>2, <2>4 DEF KeptWhileBusy, Busy
  <2>7. Bound'
    <3>1. \A c \in Clients : ui'[c] # Gone => Sound(ui'[c], asked'[c]) BY <2>3, <2>4
    <3>q. QED BY <3>1 DEF Bound, Sound
  <2>8. Creating' /\ JobsSurvive' BY <2>2 DEF Creating, Busy, JobsSurvive
  <2>q. QED BY <2>5, <2>6, <2>7, <2>8
<1>q. QED BY <1>1, <1>2

LEMMA StepIInv == IInv /\ [Next]_vars => IInv'
<1>1. ASSUME IInv, UNCHANGED vars PROVE IInv'
  BY <1>1 DEF IInv, vars, TypeOK, KeptWhileBusy, Bound, Sound, Creating, Busy, JobsSurvive
<1>q. QED BY <1>1, StepWizard, StepCreate, StepSession, StepOther DEF Next

THEOREM Invariant == Spec => []IInv
BY InitIInv, StepIInv, PTL DEF Spec
-----------------------------------------------------------------------------
(* Every variable keeps its type: the manager's own state is always there. *)
THEOREM TypeCorrect == Spec => []TypeOK
<1>1. IInv => TypeOK BY DEF IInv
<1>q. QED BY <1>1, Invariant, PTL

(* The jobs of a stored session whose creation was reported are all in the *)
(* event log, whatever fails, is dropped or restarted beside it.           *)
THEOREM NoJobLost == Spec => []JobsSurvive
<1>1. IInv => JobsSurvive BY DEF IInv
<1>q. QED BY <1>1, Invariant, PTL

(* A session is made from the source its own client resolved last, and its *)
(* crates are those detected in that source.                               *)
THEOREM OwnSource == Spec => SessionOfOwnSource
<1> DEFINE Own == \A c \in Clients : pc[c] = "idle" /\ pc'[c] = "row" =>
                      /\ born'[making'[c]] = asked[c]
                      /\ ui'[c].config.scope = asked[c]
<1>1. IInv /\ [Next]_vars => [Own]_vars
  <2> SUFFICES ASSUME IInv, Next, NEW c \in Clients, pc[c] = "idle", pc'[c] = "row"
               PROVE  /\ born'[making'[c]] = asked[c]
                      /\ ui'[c].config.scope = asked[c]
    OBVIOUS
  <2>0. pc \in [Clients -> {"idle", "row", "jobs"}] BY DEF IInv, TypeOK
  <2>1. PICK s \in SessionIds : BeginCreate(c, s)
    <3>1. ASSUME NEW d \in Clients, Wizard(d), \A s \in SessionIds : ~BeginCreate(d, s)
          PROVE  pc' = pc
      BY <3>1 DEF Wizard, Refuse, ParseConfig, DetectWorkspace, ConfirmWorkspace,
                  ResolveSource, creation
    <3>2. ASSUME NEW d \in Clients, Create(d) PROVE pc'[c] # "row"
      BY <2>0, <3>2 DEF Create, StoreSession, StoreJob, FinishCreate, CreateFails, creation
    <3>3. ASSUME NEW s \in SessionIds, EnsureLoaded(s) \/ OpenSession(s) \/ LoadToolbench(s)
          PROVE  pc' = pc
      BY <3>3 DEF EnsureLoaded, OpenSession, LoadToolbench, creation
    <3>4. ASSUME Restart \/ \E w \in Wizards : GetOld(w) PROVE pc'[c] # "row"
      BY <3>4 DEF Restart, GetOld, creation
    <3>5. PICK d \in Clients, s \in SessionIds : BeginCreate(d, s)
      BY <3>1, <3>2, <3>3, <3>4 DEF Next
    <3>6. d = c BY <2>0, <3>5 DEF BeginCreate
    <3>q. QED BY <3>5, <3>6
  <2>2. PICK u \in Current(c) : /\ u.config # NoConfig /\ Serve(c, u)
                                /\ born' = [born EXCEPT ![s] = u.config.source]
    BY <2>1 DEF BeginCreate
  <2>3. Sound(u, asked[c]) BY CurrentState
  <2>4. u.config.source = asked[c] /\ u.config.scope = asked[c]
    BY <2>2, <2>3 DEF Sound
  <2>5. ui'[c] = u BY <2>2 DEF Serve
  <2>6. making'[c] = s /\ born'[s] = u.config.source
    BY <2>1, <2>2 DEF BeginCreate, IInv, TypeOK
  <2>q. QED BY <2>4, <2>5, <2>6
<1>q. QED BY <1>1, Invariant, PTL DEF Spec, SessionOfOwnSource
=============================================================================
