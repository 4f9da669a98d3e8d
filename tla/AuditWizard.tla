---------------------------- MODULE AuditWizard ----------------------------
(***************************************************************************)
(* From the intake wizard to a persistent audit session: SessionManager.   *)
(* The five wizard requests run on the UiSessionState of the caller's      *)
(* wizard id, a state that is dropped when it has not been used for half   *)
(* an hour; every other request runs on the manager's own state.  Each     *)
(* state has a mutex, its own connection to the one database and its own   *)
(* caches, so requests of different states interleave at every statement.  *)
(* No single request is assumed to take longer than the half hour.         *)
(***************************************************************************)
EXTENDS Naturals, FiniteSets

CONSTANTS Wizards,     \* wizard ids the browsers generate
          Main,        \* SessionManager::inner, for requests without an id
          Sources,     \* what resolve_source can resolve
          SessionIds,  \* sess-<micros>: never the same twice
          NumJobs,     \* jobs that bootstrap_jobs queues for a session
          Opens,       \* outcomes of SessionStore::open: it may fail
          NoSource, NoConfig, Gone, NoSession

Clients == Wizards \cup {Main}

ConfigType == [source : Sources, scope : Sources, yaml : BOOLEAN]
UiState == [source : Sources \cup {NoSource}, yaml : BOOLEAN,
            summary : Sources \cup {NoSource}, config : ConfigType \cup {NoConfig},
            sessions : SUBSET SessionIds, jobs : [SessionIds -> 0..NumJobs],
            store : BOOLEAN]

ASSUME WizardAssumption ==
    /\ Main \notin Wizards
    /\ NumJobs \in Nat \ {0}
    /\ Opens \subseteq BOOLEAN
    /\ NoSource \notin Sources /\ NoConfig \notin ConfigType
    /\ Gone \notin UiState /\ NoSession \notin SessionIds

VARIABLES ui,       \* the state of each client, Gone when there is none
          old,      \* wizards not used for wizard_ttl
          pc,       \* where create_audit_session is, under the state's mutex
          making,   \* the session it creates
          rows,     \* audit_sessions
          log,      \* how many job.lifecycle events of a session are stored
          plans,    \* audit.plan.generated: the source the plan was made from
          born,     \* history: the source in a session's snapshot
          asked,    \* history: the source each client had resolved last
          acked,    \* history: sessions whose creation was reported
          planned   \* history: sessions with a toolbench context

vars == <<ui, old, pc, making, rows, log, plans, born, asked, acked, planned>>
db == <<rows, log, plans>>
history == <<born, asked, acked, planned>>
creation == <<pc, making>>

Fresh(st) == [source |-> NoSource, yaml |-> FALSE, summary |-> NoSource,
              config |-> NoConfig, sessions |-> {},
              jobs |-> [s \in SessionIds |-> 0], store |-> st]

Init ==
    /\ ui \in [Clients -> {Gone} \cup {Fresh(st) : st \in Opens}]
    /\ \A c \in Clients : ui[c] = Gone <=> c # Main
    /\ old = [c \in Clients |-> FALSE]
    /\ pc = [c \in Clients |-> "idle"]
    /\ making = [c \in Clients |-> NoSession]
    /\ rows = {} /\ log = [s \in SessionIds |-> 0]
    /\ plans = [s \in SessionIds |-> NoSource]
    /\ born = [s \in SessionIds |-> NoSource]
    /\ asked = [c \in Clients |-> NoSource]
    /\ acked = {} /\ planned = {}

(* state_for_wizard: a request with a wizard id first drops every state of *)
(* a wizard that is too old, its own too, and then finds or makes its own. *)
Dropped(c, d) == c # Main /\ old[d]

CurrentUnkeyed(c) == {ui[Main]}
Current(c) == IF ui[c] = Gone \/ Dropped(c, c) THEN {Fresh(st) : st \in Opens}
              ELSE {ui[c]}

(* A request of c that leaves c's state as v. *)
Serve(c, v) ==
    /\ pc[c] = "idle"
    /\ ui' = [d \in Clients |-> IF d = c THEN v
                                ELSE IF Dropped(c, d) THEN Gone ELSE ui[d]]
    /\ old' = [d \in Clients |-> d # c /\ old[d] /\ ~Dropped(c, d)]

(* The early returns: wrong order, bad input, a failing analysis.          *)
Refuse(c) ==
    /\ \E u \in Current(c) : Serve(c, u)
    /\ UNCHANGED <<creation, db, history>>

Resolved(u, src) ==
    [u EXCEPT !.source = src, !.summary = NoSource, !.config = NoConfig]

ResolveSource(c, src) ==
    /\ \E u \in Current(c) : Serve(c, Resolved(u, src))
    /\ asked' = [asked EXCEPT ![c] = src]
    /\ UNCHANGED <<creation, db, born, acked, planned>>

(* The parsed configuration outlives the source it was written for. *)
ParseConfig(c) ==
    /\ \E u \in Current(c) : Serve(c, [u EXCEPT !.yaml = TRUE])
    /\ UNCHANGED <<creation, db, history>>

DetectWorkspace(c) ==
    /\ \E u \in Current(c) :
          /\ u.source # NoSource
          /\ Serve(c, [u EXCEPT !.summary = u.source])
    /\ UNCHANGED <<creation, db, history>>

(* A declined confirmation has cached the summary all the same. *)
Summarised(u) ==
    [u EXCEPT !.summary = IF u.summary # NoSource THEN u.summary ELSE u.source]

Confirmed(u) ==
    [u EXCEPT !.config = [source |-> u.source, scope |-> u.summary, yaml |-> u.yaml]]

ConfirmWorkspace(c) ==
    /\ \E u \in Current(c) :
          /\ u.source # NoSource
          /\ \/ Serve(c, Confirmed(Summarised(u)))
             \/ Serve(c, Summarised(u))
    /\ UNCHANGED <<creation, db, history>>

(* create_audit_session, from its check to the answer. *)
BeginCreate(c, s) ==
    /\ born[s] = NoSource
    /\ \E u \in Current(c) :
          /\ u.config # NoConfig
          /\ Serve(c, u)
          /\ born' = [born EXCEPT ![s] = u.config.source]
    /\ pc' = [pc EXCEPT ![c] = "row"]
    /\ making' = [making EXCEPT ![c] = s]
    /\ UNCHANGED <<db, asked, acked, planned>>

(* store.create_session; only then is the session kept in memory. *)
RowsAfter(c) == IF ui[c].store THEN rows \cup {making[c]} ELSE rows

StoreSession(c) ==
    /\ pc[c] = "row"
    /\ rows' = RowsAfter(c)
    /\ ui' = [ui EXCEPT ![c].sessions = @ \cup {making[c]}]
    /\ pc' = [pc EXCEPT ![c] = "jobs"]
    /\ UNCHANGED <<old, making, log, plans, history>>

JobsLeft(c) == log[making[c]] < NumJobs

StoreJob(c) ==
    /\ pc[c] = "jobs" /\ ui[c].store /\ JobsLeft(c)
    /\ log' = [log EXCEPT ![making[c]] = @ + 1]
    /\ UNCHANGED <<ui, old, creation, rows, plans, history>>

JobsStoredLater(c) == TRUE
JobsStored(c) == ui[c].store => log[making[c]] = NumJobs

FinishCreate(c) ==
    /\ pc[c] = "jobs" /\ JobsStored(c)
    /\ ui' = [ui EXCEPT ![c].jobs[making[c]] = NumJobs]
    /\ acked' = acked \cup {making[c]}
    /\ pc' = [pc EXCEPT ![c] = "idle"]
    /\ making' = [making EXCEPT ![c] = NoSession]
    /\ UNCHANGED <<old, db, born, asked, planned>>

(* A statement fails: create_audit_session returns the error as it stands. *)
CreateFails(c) ==
    /\ pc[c] # "idle" /\ ui[c].store
    /\ pc' = [pc EXCEPT ![c] = "idle"]
    /\ making' = [making EXCEPT ![c] = NoSession]
    /\ UNCHANGED <<ui, old, db, history>>

(* ensure_session_loaded, the first step of every request about a session. *)
Known(s) == s \in ui[Main].sessions \/ (ui[Main].store /\ s \in rows)
Loaded(s) == [ui[Main] EXCEPT !.sessions = @ \cup {s}]

EnsureLoaded(s) ==
    /\ Known(s) /\ Serve(Main, Loaded(s))
    /\ UNCHANGED <<creation, db, history>>

(* open_audit_session: jobs that are not cached come from the event log.   *)
JobsOfLog(s) == IF ui[Main].store THEN log[s] ELSE 0
JobsShown(s) == IF ui[Main].jobs[s] # 0 THEN ui[Main].jobs[s] ELSE JobsOfLog(s)

OpenSession(s) ==
    /\ Known(s)
    /\ Serve(Main, [Loaded(s) EXCEPT !.jobs[s] = JobsShown(s)])
    /\ UNCHANGED <<creation, db, history>>

(* load_toolbench_context: makes the session's plan the first time, if the *)
(* manager's own state has a configuration.                                *)
PlanMissing(s) == ui[Main].store /\ plans[s] = NoSource

LoadToolbench(s) ==
    /\ Known(s) /\ Serve(Main, Loaded(s))
    /\ \/ /\ ui[Main].config # NoConfig /\ PlanMissing(s)
          /\ plans' = [plans EXCEPT ![s] = ui[Main].config.source]
          /\ planned' \in {planned, planned \cup {s}}  \* the file may fail
       \/ /\ ~(ui[Main].config # NoConfig /\ PlanMissing(s))
          /\ planned' = planned \cup {s}
          /\ UNCHANGED plans
    /\ UNCHANGED <<creation, rows, log, born, asked, acked>>

(* wizard_ttl passes since w's last request. *)
GetOld(w) ==
    /\ ui[w] # Gone /\ pc[w] = "idle" /\ ~old[w]
    /\ old' = [old EXCEPT ![w] = TRUE]
    /\ UNCHANGED <<ui, creation, db, history>>

(* The process is killed and started again: the database is left.          *)
Restart ==
    /\ \E st \in Opens :
          ui' = [c \in Clients |-> IF c = Main THEN Fresh(st) ELSE Gone]
    /\ old' = [c \in Clients |-> FALSE]
    /\ pc' = [c \in Clients |-> "idle"]
    /\ making' = [c \in Clients |-> NoSession]
    /\ UNCHANGED <<db, history>>

Wizard(c) ==
    \/ Refuse(c) \/ ParseConfig(c) \/ DetectWorkspace(c) \/ ConfirmWorkspace(c)
    \/ \E src \in Sources : ResolveSource(c, src)
    \/ \E s \in SessionIds : BeginCreate(c, s)

Create(c) == StoreSession(c) \/ StoreJob(c) \/ FinishCreate(c) \/ CreateFails(c)

Next ==
    \/ \E c \in Clients : Wizard(c) \/ Create(c)
    \/ \E s \in SessionIds : EnsureLoaded(s) \/ OpenSession(s) \/ LoadToolbench(s)
    \/ \E w \in Wizards : GetOld(w)
    \/ Restart

Spec == Init /\ [][Next]_vars
-----------------------------------------------------------------------------
(* Every variable keeps to its type. *)
TypeOK ==
    /\ ui \in [Clients -> UiState \cup {Gone}] /\ ui[Main] # Gone
    /\ old \in [Clients -> BOOLEAN]
    /\ pc \in [Clients -> {"idle", "row", "jobs"}]
    /\ making \in [Clients -> SessionIds \cup {NoSession}]
    /\ rows \subseteq SessionIds
    /\ log \in [SessionIds -> 0..NumJobs]
    /\ plans \in [SessionIds -> Sources \cup {NoSource}]
    /\ born \in [SessionIds -> Sources \cup {NoSource}]
    /\ asked \in [Clients -> Sources \cup {NoSource}]
    /\ acked \subseteq SessionIds /\ planned \subseteq SessionIds

(* A client's session is bound to the source that client resolved last,    *)
(* whatever other clients do and however long it waits between requests,   *)
(* and its crates are those detected in that very source, not in one       *)
(* whose summary was cached before.                                        *)
SessionOfOwnSource ==
    [][\A c \in Clients : pc[c] = "idle" /\ pc'[c] = "row" =>
          /\ born'[making'[c]] = asked[c]
          /\ ui'[c].config.scope = asked[c]]_vars

(* Once a stored session was reported as created, all its jobs are in the  *)
(* event log, so that a restarted process shows them.                      *)
JobsSurvive == \A s \in acked \cap rows : log[s] = NumJobs
-----------------------------------------------------------------------------
(* docs/design/plans/2026-03-12-v3-hybrid-audit-workstation.md:1119:       *)
(* "wizard mode creates persistent audit sessions".                        *)
SessionsPersistent == acked \subseteq rows

(* docs/design/plans/2026-03-12-v3-hybrid-audit-workstation-design.md:106: *)
(* a session "Stores selected domains, job history": opened after its      *)
(* creation was reported, it shows all its jobs.                           *)
OpenShowsAllJobs ==
    \A s \in acked \cap rows : ui[Main].jobs[s] \in {0, NumJobs}

(* docs/superpowers/specs/2026-03-20-web-ui-design.md:128: the manifest    *)
(* under /api/sessions/:id is the session's.  It is read from the          *)
(* configuration of the manager's own state.                               *)
ManifestOfSession ==
    \A s \in ui[Main].sessions :
        ui[Main].config # NoConfig => ui[Main].config.source = born[s]

(* docs/design/plans/2026-03-22-plan4-t2-visibility-control.md:30: "An     *)
(* AuditPlan artifact is persisted after deterministic overview/checklist/ *)
(* tool planning completes".                                               *)
PlanPersisted == \A s \in planned \cap rows : plans[s] # NoSource
=============================================================================
