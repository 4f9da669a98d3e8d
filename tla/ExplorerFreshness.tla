------------------------- MODULE ExplorerFreshness -------------------------
(***************************************************************************)
(* Does an open explorer know that its graph is out of date?  Three parts  *)
(* answer together: the session state re-analyses the source tree whenever *)
(* any browser asks for an overview and logs explorer_graph_stale when the *)
(* analysis changed; the web server polls the tail of that log for every   *)
(* socket; and the useUnifiedGraph hook discards answers of older          *)
(* generations, merges clusters and raises the banner.                     *)
(***************************************************************************)
EXTENDS Naturals, Sequences, SequencesExt, FiniteSets

CONSTANTS Clients,   \* mounted explorers of one session
          Clusters,  \* expandable nodes of the overview
          Window,    \* log entries a poll looks at; 30 in the code
          MaxTree,   \* bound: versions of the source tree, 1..MaxTree
          MaxGen     \* bound: loads of one explorer

ASSUME FreshnessAssumption ==
    /\ Window \in Nat \ {0} /\ MaxTree \in Nat \ {0} /\ MaxGen \in Nat
    /\ "overview" \notin Clusters /\ "full" \notin Clusters

Kinds == {"overview", "full"} \cup Clusters

VARIABLES tree,    \* the version of the source tree on disk
          cache,   \* project_ir_cache: the version analysed, 0 if none
          recent,  \* the last Window console entries: the second of a stale
                   \* event, 0 for any other entry
          stream,  \* each client's socket: [state, marker, inbox]
          hook,    \* the hook's state and generationRef
          reqs,    \* each client's explorer-graph requests under way
          lost     \* history: a stale event was dropped by the server

vars == <<tree, cache, recent, stream, hook, reqs, lost>>

(* A socket is down before its first connection and while the reconnect    *)
(* timer runs; once closed cleanly it stays so for as long as the page.    *)
Socket(s) == [state |-> s, marker |-> 0, inbox |-> 0]
Down == Socket("down")
NoKids == [k \in Clusters |-> 0]

Init ==
    /\ tree = 1 /\ cache = 0 /\ recent = <<>> /\ lost = FALSE
    /\ stream = [c \in Clients |-> Down]
    /\ hook = [c \in Clients |->
                [gen |-> 0, full |-> FALSE, loading |-> TRUE, error |-> FALSE,
                 stale |-> FALSE, base |-> 0, kids |-> NoKids,
                 loadingClusters |-> {}, loadedClusters |-> {}]]
    /\ reqs = [c \in Clients |-> {}]
-----------------------------------------------------------------------------
(* The console log, as far back as a poll looks.  A stale entry is known   *)
(* by its timestamp, to the second.                                        *)
Stamps == ToSet(recent) \ {0}
Latest(stamps) == IF stamps = {} THEN 0 ELSE CHOOSE s \in stamps : \A t \in stamps : t <= s
LastStale == Latest(Stamps)

Logged(entry) ==
    LET log == Append(recent, entry)
    IN  IF Len(log) > Window THEN Tail(log) ELSE log

OutOfWindow == Len(recent) = Window /\ Head(recent) # 0

LogOther ==
    /\ recent' = Logged(0)
    /\ lost' = (lost \/ OutOfWindow)
    /\ UNCHANGED <<tree, cache, stream, hook, reqs>>

EditTree ==
    /\ tree < MaxTree
    /\ tree' = tree + 1
    /\ UNCHANGED <<cache, recent, stream, hook, reqs, lost>>

(* append_explorer_graph_stale_event, in the same second as the last one   *)
(* or a later one.                                                         *)
AppendStale ==
    \/ /\ recent' = Logged(LastStale + 1)
       /\ lost' = (lost \/ OutOfWindow)
    \/ /\ LastStale # 0
       /\ recent' = Logged(LastStale)
       /\ lost' = TRUE

(* load_or_refresh_project_ir_for_explorer: the cache holds the new        *)
(* analysis before the event is appended, which may fail.                  *)
Refreshed == tree

Refresh ==
    /\ cache' = Refreshed
    /\ \/ /\ cache \in {0, tree}
          /\ UNCHANGED <<recent, lost>>
       \/ /\ cache \notin {0, tree}
          /\ AppendStale

RefreshFails ==
    /\ cache \notin {0, tree}
    /\ cache' = tree
    /\ lost' = TRUE
    /\ UNCHANGED recent

(* load_or_build_project_ir, for the full graph and for clusters.          *)
Build ==
    /\ cache' = IF cache = 0 THEN tree ELSE cache
    /\ UNCHANGED <<recent, lost>>

(* Another browser, or another tab, opens the explorer. *)
OtherOverview ==
    /\ Refresh \/ RefreshFails
    /\ UNCHANGED <<tree, stream, hook, reqs>>

(* load_explorer_graph answers one request, or fails. *)
Answered(c, r, version) ==
    reqs' = [reqs EXCEPT ![c] =
                (@ \ {r}) \cup {[r EXCEPT !.done = TRUE, !.version = version]}]

Answer(c, r) ==
    /\ r \in reqs[c] /\ ~r.done
    /\ \/ r.kind = "overview" /\ Refresh /\ Answered(c, r, cache')
       \/ r.kind = "overview" /\ RefreshFails /\ Answered(c, r, 0)
       \/ r.kind # "overview" /\ Build /\ Answered(c, r, cache')
       \/ Answered(c, r, 0) /\ UNCHANGED <<cache, recent, lost>>
    /\ UNCHANGED <<tree, stream, hook>>

(* The server is killed and started again; sockets and requests break.     *)
Restart ==
    /\ cache' = 0 /\ lost' = TRUE
    /\ stream' = [c \in Clients |-> IF stream[c].state = "up" THEN Down ELSE stream[c]]
    /\ reqs' = [c \in Clients |->
                 {[r EXCEPT !.done = TRUE, !.version = IF r.done THEN @ ELSE 0] :
                     r \in reqs[c]}]
    /\ UNCHANGED <<tree, recent, hook>>
-----------------------------------------------------------------------------
(* stream_session_events, and HttpTransport.subscribe on the other side.   *)
Connect(c) ==
    /\ hook[c].gen > 0 /\ stream[c].state = "down"
    /\ stream' = [stream EXCEPT ![c] = Socket("up")]
    /\ UNCHANGED <<tree, cache, recent, hook, reqs, lost>>

(* The close event: a broken connection starts the reconnect timer, but    *)
(* after a close handshake, which a proxy can begin, no timer is started.  *)
Close(c, state) ==
    /\ stream[c].state = "up"
    /\ stream' = [stream EXCEPT ![c] = Socket(state)]
    /\ UNCHANGED <<tree, cache, recent, hook, reqs, lost>>

Disconnect(c) == Close(c, "down")
CloseCleanly(c) == Close(c, "ended")

Marker(c) == LastStale

Poll(c) ==
    /\ stream[c].state = "up"
    /\ Marker(c) # 0 /\ Marker(c) # stream[c].marker
    /\ stream' = [stream EXCEPT ![c].marker = Marker(c), ![c].inbox = @ + 1]
    /\ UNCHANGED <<tree, cache, recent, hook, reqs, lost>>

Deliver(c) ==
    /\ stream[c].inbox > 0
    /\ stream' = [stream EXCEPT ![c].inbox = @ - 1]
    /\ hook' = [hook EXCEPT ![c].stale = TRUE]
    /\ UNCHANGED <<tree, cache, recent, reqs, lost>>
-----------------------------------------------------------------------------
(* loadBaseGraph takes the banner down when it asks, not when it is        *)
(* answered: what was announced in between stays announced.                *)
Loading(h) ==
    [h EXCEPT !.gen = @ + 1, !.loading = TRUE, !.error = FALSE, !.stale = FALSE,
              !.loadingClusters = {}, !.loadedClusters = {}]

Request(c, kind, gen) ==
    reqs' = [reqs EXCEPT ![c] =
                @ \cup {[gen |-> gen, kind |-> kind, done |-> FALSE, version |-> 0]}]

Depth(h) == IF h.full THEN "full" ELSE "overview"

LoadBaseGraph(c, h) ==
    /\ hook[c].gen < MaxGen
    /\ hook' = [hook EXCEPT ![c] = Loading(h)]
    /\ Request(c, Depth(h), hook[c].gen + 1)
    /\ UNCHANGED <<tree, cache, recent, stream, lost>>

Mount(c) == hook[c].gen = 0 /\ LoadBaseGraph(c, hook[c])

(* The button is in the banner and in the error panel. *)
Reload(c) ==
    /\ hook[c].stale \/ (hook[c].error /\ ~hook[c].loading)
    /\ LoadBaseGraph(c, hook[c])

Shown(c) == ~hook[c].loading /\ ~hook[c].error

(* Few enough files: the overview is replaced by the full graph.           *)
RequestFull(c) ==
    /\ Shown(c) /\ ~hook[c].full
    /\ LoadBaseGraph(c, [hook[c] EXCEPT !.full = TRUE])

(* expandCluster: the canvas is only there while a graph is shown.         *)
Expandable(c, k) == k \notin hook[c].loadedClusters \cup hook[c].loadingClusters

ExpandCluster(c, k) ==
    /\ Shown(c) /\ Expandable(c, k)
    /\ hook' = [hook EXCEPT ![c].loadingClusters = @ \cup {k}]
    /\ Request(c, k, hook[c].gen)
    /\ UNCHANGED <<tree, cache, recent, stream, lost>>

BasedFresh(h, version) ==
    [h EXCEPT !.base = version, !.kids = NoKids, !.loading = FALSE, !.stale = FALSE]
Based(h, version) ==
    [h EXCEPT !.base = version, !.kids = NoKids, !.loading = FALSE]

Merged(h, k, version) ==
    [h EXCEPT !.kids[k] = version, !.loadedClusters = @ \cup {k},
              !.loadingClusters = @ \ {k}]

Received(h, r) ==
    IF r.kind \in Clusters
    THEN IF r.version = 0 THEN [h EXCEPT !.loadingClusters = @ \ {r.kind}]
         ELSE Merged(h, r.kind, r.version)
    ELSE IF r.version = 0 THEN [h EXCEPT !.error = TRUE, !.loading = FALSE]
         ELSE Based(h, r.version)

OfThisGeneration(c, r) == r.gen = hook[c].gen

Receive(c, r) ==
    /\ r \in reqs[c] /\ r.done
    /\ reqs' = [reqs EXCEPT ![c] = @ \ {r}]
    /\ \/ /\ OfThisGeneration(c, r)
          /\ hook' = [hook EXCEPT ![c] = Received(hook[c], r)]
       \/ /\ ~OfThisGeneration(c, r)
          /\ UNCHANGED hook
    /\ UNCHANGED <<tree, cache, recent, stream, lost>>

Next ==
    \/ LogOther \/ EditTree \/ OtherOverview \/ Restart
    \/ \E c \in Clients :
          \/ Connect(c) \/ Disconnect(c) \/ CloseCleanly(c) \/ Poll(c) \/ Deliver(c)
          \/ Mount(c) \/ Reload(c) \/ RequestFull(c)
          \/ \E k \in Clusters : ExpandCluster(c, k)
          \/ \E r \in reqs[c] : Answer(c, r) \/ Receive(c, r)

Spec == Init /\ [][Next]_vars

(* The reconnect timer of a broken socket and the poll ticker fire for as  *)
(* long as the tab and the server live, and a socket that keeps coming     *)
(* back delivers at last.  Nothing brings a cleanly closed socket back.    *)
Fairness == \A c \in Clients : WF_vars(Connect(c)) /\ SF_vars(Poll(c)) /\ SF_vars(Deliver(c))
LiveSpec == Spec /\ Fairness
-----------------------------------------------------------------------------
(* Every variable keeps to its type, and no cluster is both loaded and     *)
(* loading.                                                                *)
Sockets == [state : {"down", "up", "ended"}, marker : Nat, inbox : Nat]
Requests == [gen : 0..MaxGen, kind : Kinds, done : BOOLEAN, version : 0..MaxTree]
Hooks == [gen : 0..MaxGen, full : BOOLEAN, loading : BOOLEAN, error : BOOLEAN, stale : BOOLEAN,
          base : 0..MaxTree, kids : [Clusters -> 0..MaxTree],
          loadingClusters : SUBSET Clusters, loadedClusters : SUBSET Clusters]
TypeOK ==
    /\ tree \in 1..MaxTree /\ cache \in 0..MaxTree /\ lost \in BOOLEAN
    /\ recent \in Seq(Nat) /\ Len(recent) <= Window
    /\ stream \in [Clients -> Sockets]
    /\ hook \in [Clients -> Hooks] /\ reqs \in [Clients -> SUBSET Requests]
    /\ \A c \in Clients : hook[c].loadedClusters \cap hook[c].loadingClusters = {}

Behind(c) == Shown(c) /\ 0 < hook[c].base /\ hook[c].base < cache

(* The stale event is still on its way to c: in the socket, or due with    *)
(* the next poll of this connection or of the next one.                    *)
OnItsWay(c) ==
    \/ stream[c].inbox > 0
    \/ LastStale # 0 /\ stream[c].state # "ended" /\ stream[c].marker # LastStale

(* What no later step makes up for: the server lost the event, or the      *)
(* socket was closed cleanly and will not be opened again.                 *)
CutOff(c) == lost \/ stream[c].state = "ended"

(* A cluster that will not be fetched again is in the graph on the screen, *)
(* even when answers of earlier loads arrive late.                         *)
LoadedClustersShown ==
    \A c \in Clients : \A k \in hook[c].loadedClusters :
        Shown(c) => hook[c].kids[k] # 0

(* An explorer that shows an older analysis than the server's has the      *)
(* banner up, or the news is on its way, unless the server lost the event  *)
(* or the socket was closed for good: no reload, late answer, reconnect or *)
(* poll order hides it, or the clusters that were loaded.                  *)
FreshOrWarned ==
    /\ LoadedClustersShown
    /\ \A c \in Clients : Behind(c) /\ ~CutOff(c) => hook[c].stale \/ OnItsWay(c)

(* Liveness: an explorer that fell behind learns of it, however often its  *)
(* socket breaks, unless the server lost the event or the socket was       *)
(* closed cleanly, after which the page does not connect again.            *)
WarnedUnlessLost ==
    \A c \in Clients : Behind(c) ~> (hook[c].stale \/ ~Behind(c) \/ CutOff(c))
-----------------------------------------------------------------------------
(* docs/superpowers/specs/2026-03-28-explorer-api-integration-design.md:   *)
(* 639: "Stale notification | Emit event, banner appears".                 *)
BannerAppears == \A c \in Clients : Behind(c) ~> (hook[c].stale \/ ~Behind(c))

(* The same document, line 441: "If explorer_graph_stale fires while       *)
(* isLoading is true, suppress it".                                        *)
SuppressedWhileLoading ==
    [][\A c \in Clients :
          hook[c].loading /\ hook'[c].gen = hook[c].gen /\ hook'[c].stale =>
              hook[c].stale]_vars
=============================================================================
