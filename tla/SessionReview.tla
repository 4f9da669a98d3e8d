--------------------------- MODULE SessionReview ---------------------------
(***************************************************************************)
(* The review queue of one audit session: UiSessionState over SessionStore.*)
(* Handlers hold the state's mutex, so one runs at a time, but a write is  *)
(* several autocommitted SQL statements: upsert_record stores the row,     *)
(* deletes the search entry and inserts a new one, and only then is the    *)
(* graph overlay cache dropped and the review event appended.  A statement *)
(* may fail, and the process may be killed, between any two of them.       *)
(***************************************************************************)
EXTENDS Naturals, Sequences, FiniteSets

CONSTANTS Workspaces,   \* source trees a wizard can confirm
          Own,          \* the one this session is a snapshot of
          NoWorkspace,  \* audit_config is None
          RuleIds,      \* ids rule-<rule>-<n>: the same for every workspace
          Matches,      \* the rule matches in each workspace, in order
          DefaultIds,   \* ids cand-<micros>: never the same twice
          MaxDecisions, \* bound: review decisions
          NoRecord, NoCache, NoId

Ids == RuleIds \cup DefaultIds
Actions == {"confirm", "reject", "suppress", "annotate"}

RecordType == [kind : {"candidate", "finding"}, verified : BOOLEAN,
               labels : SUBSET {"confirmed", "rejected", "suppressed", "annotated"},
               origin : Workspaces]

ASSUME ReviewAssumption ==
    /\ Own \in Workspaces /\ NoWorkspace \notin Workspaces
    /\ RuleIds \cap DefaultIds = {}
    /\ Matches \in [Workspaces -> Seq(RuleIds)]
    /\ \A w \in Workspaces : \A i, j \in 1..Len(Matches[w]) :
          Matches[w][i] = Matches[w][j] => i = j
    /\ MaxDecisions \in Nat
    /\ NoRecord \notin RecordType
    /\ NoId \notin RuleIds \cup DefaultIds

VARIABLES config,    \* the workspace of audit_config
          records,   \* audit_records
          index,     \* record_search: the records that have an entry
          overlay,   \* graph_overlay_cache: [snap, fresh] or NoCache
          pc,        \* the next statement of the handler that has the mutex
          job,       \* what that handler is writing
          decided,   \* history: decisions whose row was written
          events,    \* the decisions with a review.action event
          feedback,  \* the decisions the knowledge base was told of
          failed     \* history: a handler failed since the overlay was cached

vars == <<config, records, index, overlay, pc, job, decided, events, feedback, failed>>

Candidate(w) == [kind |-> "candidate", verified |-> FALSE, labels |-> {},
                 origin |-> w]
NoJob == [id |-> NoId, rec |-> NoRecord, action |-> "none", todo |-> <<>>]

Candidates == {id \in Ids : records[id] # NoRecord /\ records[id].kind = "candidate"}

Init ==
    /\ config \in Workspaces \cup {NoWorkspace}
    /\ records = [id \in Ids |-> NoRecord]
    /\ index = {}
    /\ overlay = NoCache
    /\ pc = "idle" /\ job = NoJob
    /\ decided = <<>> /\ events = {} /\ feedback = {}
    /\ failed = FALSE

(* confirm_workspace, for this session's source or a later session's.      *)
ConfirmWorkspace(w) ==
    /\ pc = "idle"
    /\ config' = w
    /\ UNCHANGED <<records, index, overlay, pc, job, decided, events, feedback, failed>>

(* upsert_record writes the row before it touches the search table. *)
FirstStatement == "row"

Seed(ids, w) ==
    /\ job' = [id |-> Head(ids), rec |-> Candidate(w), action |-> "none",
               todo |-> Tail(ids)]
    /\ pc' = FirstStatement
    /\ UNCHANGED <<config, records, index, overlay, decided, events, feedback, failed>>

(* load_review_queue: with no candidate left, the rules are evaluated on   *)
(* the workspace of audit_config and every match becomes a candidate.      *)
QueueEmptyNever == TRUE
QueueEmpty == Candidates = {}

SeedRules ==
    /\ pc = "idle" /\ QueueEmpty
    /\ config # NoWorkspace /\ Matches[config] # <<>>
    /\ Seed(Matches[config], config)

(* Without a configuration, a match or a loadable rule pack, the session's *)
(* own project IR gives one candidate under a new, time-stamped id.        *)
NewIdsReused == DefaultIds
NewIds == {id \in DefaultIds : records[id] = NoRecord}

SeedDefault ==
    /\ pc = "idle" /\ QueueEmpty
    /\ \E id \in NewIds : Seed(<<id>>, Own)

(* apply_review_action_to_record; seeded records all carry an evidence     *)
(* reference, so confirm does not bail out.                                *)
Label(rec, label) == [rec EXCEPT !.labels = @ \cup {label}]
Verified(rec) == [rec EXCEPT !.kind = "finding", !.verified = TRUE]
UnverifiedKeepsKind(rec) == rec
Unverified(rec) == [rec EXCEPT !.kind = "candidate", !.verified = FALSE]

Applied(rec, action) ==
    IF action = "confirm" THEN Label(Verified(rec), "confirmed")
    ELSE IF action = "reject" THEN Label(Unverified(rec), "rejected")
    ELSE IF action = "suppress" THEN Label(rec, "suppressed")
    ELSE Label(rec, "annotated")

Decide(id, action) ==
    /\ pc = "idle" /\ records[id] # NoRecord
    /\ Len(decided) < MaxDecisions
    /\ job' = [id |-> id, rec |-> Applied(records[id], action),
               action |-> action, todo |-> <<>>]
    /\ pc' = FirstStatement
    /\ UNCHANGED <<config, records, index, overlay, decided, events, feedback, failed>>

(* The three statements of upsert_record.                                  *)
WriteRow ==
    /\ pc = "row"
    /\ records' = [records EXCEPT ![job.id] = job.rec]
    /\ decided' = IF job.action = "none" THEN decided
                  ELSE Append(decided, [id |-> job.id, action |-> job.action])
    /\ pc' = "unindex"
    /\ UNCHANGED <<config, index, overlay, job, events, feedback, failed>>

Unindex ==
    /\ pc = "unindex"
    /\ index' = index \ {job.id}
    /\ pc' = "index"
    /\ UNCHANGED <<config, records, overlay, job, decided, events, feedback, failed>>

InvalidatedKept == overlay
Invalidated == NoCache

(* The last statement; persist_review_record then drops the overlay, and a *)
(* seeding handler goes on with the next match.                            *)
Index ==
    /\ pc = "index"
    /\ index' = index \cup {job.id}
    /\ overlay' = Invalidated
    /\ \/ /\ job.action # "none"
          /\ pc' = "event"
          /\ UNCHANGED job
       \/ /\ job.action = "none" /\ job.todo # <<>>
          /\ pc' = FirstStatement
          /\ job' = [job EXCEPT !.id = Head(job.todo), !.todo = Tail(job.todo)]
       \/ /\ job.action = "none" /\ job.todo = <<>>
          /\ pc' = "idle"
          /\ job' = NoJob
    /\ UNCHANGED <<config, records, decided, events, feedback, failed>>

(* append_review_event, and then the feedback, whose failures are ignored. *)
Logged == events \cup {Len(decided)}

AppendEvent ==
    /\ pc = "event"
    /\ events' = Logged
    /\ \/ /\ job.action \in {"confirm", "reject"}
          /\ feedback' = feedback \cup {Len(decided)}
       \/ UNCHANGED feedback
    /\ pc' = "idle" /\ job' = NoJob
    /\ UNCHANGED <<config, records, index, overlay, decided, failed>>

(* A statement fails: the handler returns its error and releases the mutex. *)
StatementFails ==
    /\ pc # "idle"
    /\ pc' = "idle" /\ job' = NoJob
    /\ failed' = TRUE
    /\ UNCHANGED <<config, records, index, overlay, decided, events, feedback>>

(* The process is killed and started again: only the database is left.     *)
Restart ==
    /\ pc' = "idle" /\ job' = NoJob
    /\ overlay' = NoCache /\ config' = NoWorkspace /\ failed' = FALSE
    /\ UNCHANGED <<records, index, decided, events, feedback>>

(* load_graph_overlay_records, for the four annotated graphs.              *)
LoadOverlay ==
    /\ pc = "idle"
    /\ overlay # NoCache => ~overlay.fresh
    /\ overlay' = [snap |-> records, fresh |-> TRUE]
    /\ failed' = FALSE
    /\ UNCHANGED <<config, records, index, pc, job, decided, events, feedback>>

(* GRAPH_OVERLAY_CACHE_TTL passes.                                         *)
Expire ==
    /\ overlay # NoCache /\ overlay.fresh
    /\ overlay' = [overlay EXCEPT !.fresh = FALSE]
    /\ UNCHANGED <<config, records, index, pc, job, decided, events, feedback, failed>>

Next ==
    \/ \E w \in Workspaces : ConfirmWorkspace(w)
    \/ SeedRules \/ SeedDefault
    \/ \E id \in Ids, action \in Actions : Decide(id, action)
    \/ WriteRow \/ Unindex \/ Index \/ AppendEvent
    \/ StatementFails \/ Restart \/ LoadOverlay \/ Expire

Spec == Init /\ [][Next]_vars
-----------------------------------------------------------------------------
(* Every variable keeps to its type. *)
TypeOK ==
    /\ config \in Workspaces \cup {NoWorkspace}
    /\ records \in [Ids -> RecordType \cup {NoRecord}]
    /\ index \subseteq Ids
    /\ pc \in {"idle", "row", "unindex", "index", "event"}
    /\ pc # "idle" =>
          /\ job.id \in Ids /\ job.rec \in RecordType
          /\ job.action \in Actions \cup {"none"} /\ job.todo \in Seq(RuleIds)
    /\ decided \in Seq([id : Ids, action : Actions])
    /\ events \subseteq 1..Len(decided)
    /\ feedback \subseteq 1..Len(decided)

Verdicts(id) == {n \in 1..Len(decided) :
                    decided[n].id = id /\ decided[n].action \in {"confirm", "reject"}}

(* A verified finding was confirmed by an analyst and not rejected since:  *)
(* neither seeding nor a restart or failure mid-way ever makes one.        *)
FindingsWereConfirmed ==
    \A id \in Ids :
        records[id] # NoRecord /\ (records[id].kind = "finding" \/ records[id].verified) =>
            /\ records[id].kind = "finding" /\ records[id].verified
            /\ \E n \in Verdicts(id) :
                  /\ decided[n].action = "confirm"
                  /\ \A m \in Verdicts(id) : m <= n

(* The graphs never annotate nodes with records that a decision or a seed  *)
(* has replaced: outside a handler the cached overlay is the store's, as   *)
(* long as no handler failed half-way.                                     *)
OverlayCurrent ==
    pc = "idle" /\ overlay # NoCache /\ ~failed => overlay.snap = records

(* A candidate under a time-stamped id belongs to the analyst: after it is *)
(* created, only a decision on that record changes it.                     *)
OnlyDecisionsChangeDefaults ==
    [][\A id \in DefaultIds :
          records[id] # NoRecord /\ records'[id] # records[id] =>
              Len(decided') = Len(decided) + 1 /\ decided'[Len(decided')].id = id]_vars

(* A reload of the queue never touches an open candidate, whatever labels  *)
(* and verdicts it has: only a decision on it does.                        *)
OpenCandidatesKept ==
    [][\A id \in Candidates :
          records'[id] # records[id] =>
              Len(decided') = Len(decided) + 1 /\ decided'[Len(decided')].id = id]_vars
-----------------------------------------------------------------------------
(* docs/design/plans/2026-03-12-v3-hybrid-audit-workstation-design.md:106: *)
(* a session "Stores selected domains, job history, notes, candidates,     *)
(* findings": a confirmed finding stays one until an analyst rejects it.   *)
FindingsKept ==
    [][\A id \in Ids :
          records[id] # NoRecord /\ records[id].kind = "finding" =>
              \/ records'[id].kind = "finding"
              \/ Len(decided') > Len(decided)]_vars

(* The same line: a session is a workspace "bound to one project           *)
(* snapshot", so its candidates come from that snapshot's source.          *)
CandidatesOfSnapshot ==
    \A id \in Ids : records[id] # NoRecord => records[id].origin = Own

(* docs/design/plans/2026-03-12-v3-hybrid-audit-workstation.md:1124:       *)
(* "local persistence and search survive restarts": search finds every     *)
(* record of the session.                                                  *)
SearchFindsRecords ==
    pc = "idle" => \A id \in Ids : records[id] # NoRecord => id \in index

(* docs/design/plans/2026-03-12-v3-rollout-checklist.md:17: "Confirm       *)
(* actions are reflected in session console events".                       *)
DecisionsReachConsole == pc = "idle" => events = 1..Len(decided)
=============================================================================
