--------------------------- MODULE ResearchService ---------------------------
(***************************************************************************)
(* ResearchService: advisories looked up in public databases, through a    *)
(* cache with a time to live and a counter of calls that is checked with   *)
(* fetch_add and given back with fetch_sub.  Its users share one service:  *)
(* toolbench loads, which ask for every dependency of a session's          *)
(* workspace and hold the lock of the session manager while they do, and   *)
(* research tool actions, which ask one question each and hold no lock.    *)
(***************************************************************************)
EXTENDS Naturals, Sequences, FiniteSets

CONSTANTS Loads,       \* toolbench loads
          ToolActions, \* research tool actions
          Sessions,    \* audit sessions
          SessionOf,   \* the session each user asks for
          Keys,        \* questions: a crate's advisories, a CVE search, a document
          Specs,       \* the questions that fetch a document
          Blocked,     \* the documents that are not on the allowlist
          Queries,     \* the questions of each user, in order
          MaxApiCalls, \* max_api_calls
          Wrap,        \* 2^64, where the counter wraps
          Ttl,         \* how long the cache keeps an answer
          MaxTime,     \* bound: how far the clock goes
          MaxResets    \* bound: calls of reset_rate_limit

Users == Loads \cup ToolActions
Never == MaxTime + 1
NoAnswer == [key |-> "none"]

ASSUME ResearchAssumption ==
    /\ IsFiniteSet(Users) /\ Loads \cap ToolActions = {}
    /\ SessionOf \in [Users -> Sessions]
    /\ Blocked \subseteq Specs /\ Specs \subseteq Keys
    /\ Queries \in [Users -> Seq(Keys)]
    /\ \A u \in ToolActions : Len(Queries[u]) = 1
    /\ MaxApiCalls \in Nat /\ Ttl \in Nat \ {0} /\ MaxTime \in Nat /\ MaxResets \in Nat
    /\ Wrap \in Nat /\ Wrap > MaxApiCalls + Cardinality(Users)

Steps == {"start", "get", "add", "undo", "fetch", "insert", "end"}
Says == {"clean", "advisory"}
Answers == [key : Keys, says : Says, at : 0..MaxTime]
Entries == [says : Says, inserted : 0..MaxTime]
NoEntry == [says |-> "none"]

VARIABLES pc,        \* what a user does next
          idx,       \* the question it is at
          holder,    \* the load that holds the session manager's lock, if any
          apiCalls,  \* api_calls
          cache,     \* ResearchCache
          response,  \* what a source answered
          answer,    \* the last answer each user was given
          refused,   \* users that were told of the rate limit
          now,       \* the time, in units in which a request takes none
          published, \* when each question's advisory was published
          unread,    \* history: questions a source answered with an error status
          grants,    \* history: the questions that took a call from the budget
          resets     \* calls of reset_rate_limit so far

vars == <<pc, idx, holder, apiCalls, cache, response, answer, refused, now,
          published, unread, grants, resets>>
world == <<now, published>>

Key(u) == Queries[u][idx[u]]

Init ==
    /\ pc = [u \in Users |-> "start"]
    /\ idx = [u \in Users |-> 1]
    /\ holder = {}
    /\ apiCalls = 0
    /\ cache = [k \in Keys |-> NoEntry]
    /\ response = [u \in Users |-> "none"]
    /\ answer = [u \in Users |-> NoAnswer]
    /\ refused = {}
    /\ now = 0
    /\ published = [k \in Keys |-> Never]
    /\ unread = {} /\ grants = {} /\ resets = 0
-----------------------------------------------------------------------------
(* The loop over dependencies: a repeated one is skipped, and the lock is  *)
(* given back after the last.                                              *)
Repeated(u) == \E i \in 1..(idx[u] - 1) : Queries[u][i] = Key(u)

Start(u) ==
    /\ pc[u] = "start"
    /\ u \in Loads => holder = {}
    /\ holder' = IF u \in Loads THEN {u} ELSE holder
    /\ pc' = [pc EXCEPT ![u] = "get"]
    /\ UNCHANGED <<idx, apiCalls, cache, response, answer, refused, world, unread, grants, resets>>

Advance(u) ==
    /\ idx' = [idx EXCEPT ![u] = @ + 1]
    /\ pc' = [pc EXCEPT ![u] = "get"]

Skip(u) ==
    /\ pc[u] = "get" /\ idx[u] <= Len(Queries[u]) /\ Repeated(u)
    /\ Advance(u)
    /\ UNCHANGED <<holder, apiCalls, cache, response, answer, refused, world, unread, grants, resets>>

Finish(u) ==
    /\ pc[u] = "get" /\ idx[u] > Len(Queries[u])
    /\ pc' = [pc EXCEPT ![u] = "end"]
    /\ holder' = holder \ {u}
    /\ UNCHANGED <<idx, apiCalls, cache, response, answer, refused, world, unread, grants, resets>>
-----------------------------------------------------------------------------
(* query *)
GiveAnswer(u, says) ==
    answer' = [answer EXCEPT ![u] = [key |-> Key(u), says |-> says, at |-> now]]

ValidEver(k) == cache[k] # NoEntry
Valid(k) == cache[k] # NoEntry /\ now - cache[k].inserted < Ttl

Asks(u) == pc[u] = "get" /\ idx[u] <= Len(Queries[u]) /\ ~Repeated(u)

HitCounted(u) ==
    /\ Asks(u) /\ Valid(Key(u))
    /\ GiveAnswer(u, cache[Key(u)].says)
    /\ Advance(u)
    /\ apiCalls' = (apiCalls + 1) % Wrap
    /\ UNCHANGED <<holder, cache, response, refused, world, unread, grants, resets>>
Hit(u) ==
    /\ Asks(u) /\ Valid(Key(u))
    /\ GiveAnswer(u, cache[Key(u)].says)
    /\ Advance(u)
    /\ UNCHANGED <<holder, apiCalls, cache, response, refused, world, unread, grants, resets>>

Miss(u) ==
    /\ Asks(u) /\ ~Valid(Key(u))
    /\ pc' = [pc EXCEPT ![u] = "add"]
    /\ UNCHANGED <<idx, holder, apiCalls, cache, response, answer, refused, world, unread, grants, resets>>

(* fetch_add hands the old value to the comparison. *)
Allowed(before) == before < MaxApiCalls

FetchAdd(u) ==
    /\ pc[u] = "add"
    /\ apiCalls' = (apiCalls + 1) % Wrap
    /\ IF Allowed(apiCalls)
       THEN /\ pc' = [pc EXCEPT ![u] = "fetch"]
            /\ grants' = grants \cup {<<u, idx[u]>>}
       ELSE /\ pc' = [pc EXCEPT ![u] = "undo"]
            /\ UNCHANGED grants
    /\ UNCHANGED <<idx, holder, cache, response, answer, refused, world, unread, resets>>

(* The error of a full budget ends a load; any other error skips a         *)
(* dependency.                                                             *)
Undo(u) ==
    /\ pc[u] = "undo"
    /\ apiCalls' = (apiCalls + Wrap - 1) % Wrap
    /\ refused' = refused \cup {u}
    /\ idx' = [idx EXCEPT ![u] = Len(Queries[u]) + 1]
    /\ pc' = [pc EXCEPT ![u] = "get"]
    /\ UNCHANGED <<holder, cache, response, answer, world, unread, grants, resets>>

(* The transport fails, a document is refused, or the URL is not allowed:  *)
(* the call stays counted.                                                 *)
Fails(u) ==
    /\ pc[u] = "fetch"
    /\ Advance(u)
    /\ UNCHANGED <<holder, apiCalls, cache, response, answer, refused, world, unread, grants, resets>>

Truth(k) == IF published[k] <= now THEN "advisory" ELSE "clean"

Responds(u) ==
    /\ pc[u] = "fetch" /\ Key(u) \notin Blocked
    /\ response' = [response EXCEPT ![u] = Truth(Key(u))]
    /\ pc' = [pc EXCEPT ![u] = "insert"]
    /\ UNCHANGED <<idx, holder, apiCalls, cache, answer, refused, world, unread, grants, resets>>

(* An advisory source takes an error status for an empty list of findings. *)
ErrorStatus(u) ==
    /\ pc[u] = "fetch" /\ Key(u) \notin Specs
    /\ response' = [response EXCEPT ![u] = "clean"]
    /\ unread' = unread \cup {Key(u)}
    /\ pc' = [pc EXCEPT ![u] = "insert"]
    /\ UNCHANGED <<idx, holder, apiCalls, cache, answer, refused, world, grants, resets>>

(* insert and prune_expired, under the cache's mutex *)
Pruned(c) ==
    [k \in Keys |-> IF c[k] # NoEntry /\ now - c[k].inserted >= Ttl THEN NoEntry ELSE c[k]]

Insert(u) ==
    /\ pc[u] = "insert"
    /\ cache' = Pruned([cache EXCEPT ![Key(u)] =
                            [says |-> response[u], inserted |-> now]])
    /\ GiveAnswer(u, response[u])
    /\ response' = [response EXCEPT ![u] = "none"]
    /\ Advance(u)
    /\ UNCHANGED <<holder, apiCalls, refused, world, unread, grants, resets>>
-----------------------------------------------------------------------------
ResetRateLimit ==
    /\ resets < MaxResets
    /\ resets' = resets + 1
    /\ apiCalls' = 0
    /\ UNCHANGED <<pc, idx, holder, cache, response, answer, refused, world, unread, grants>>

Publish(k) ==
    /\ k \notin Specs /\ published[k] = Never
    /\ published' = [published EXCEPT ![k] = now]
    /\ UNCHANGED <<pc, idx, holder, apiCalls, cache, response, answer, refused, now, unread, grants, resets>>

(* A request times out after ten seconds, and the time to live is a day:   *)
(* the clock stands still while a request is out.                          *)
Tick ==
    /\ now < MaxTime
    /\ \A u \in Users : pc[u] \notin {"fetch", "insert"}
    /\ now' = now + 1
    /\ UNCHANGED <<pc, idx, holder, apiCalls, cache, response, answer, refused, published, unread, grants, resets>>

Query(u) ==
    \/ Start(u) \/ Skip(u) \/ Finish(u) \/ Hit(u) \/ Miss(u) \/ FetchAdd(u)
    \/ Undo(u) \/ Fails(u) \/ Responds(u) \/ ErrorStatus(u) \/ Insert(u)

Next ==
    \/ \E u \in Users : Query(u)
    \/ ResetRateLimit
    \/ \E k \in Keys : Publish(k)
    \/ Tick

Spec == Init /\ [][Next]_vars
FairSpec == Spec /\ \A u \in Users : WF_vars(Query(u))
-----------------------------------------------------------------------------
(* Every variable keeps to its type. *)
TypeOK ==
    /\ pc \in [Users -> Steps]
    /\ idx \in [Users -> Nat \ {0}]
    /\ holder \in SUBSET Loads
    /\ apiCalls \in 0..(Wrap - 1)
    /\ cache \in [Keys -> Entries \cup {NoEntry}]
    /\ response \in [Users -> Says \cup {"none"}]
    /\ answer \in [Users -> Answers \cup {NoAnswer}]
    /\ refused \in SUBSET Users
    /\ now \in 0..MaxTime
    /\ published \in [Keys -> 0..Never]
    /\ unread \in SUBSET Keys
    /\ grants \in SUBSET (Users \X Nat)
    /\ resets \in 0..MaxResets

(* Without a reset, no interleaving of fetch_add, the comparison and       *)
(* fetch_sub lets more calls through than the budget has.                  *)
CallsBounded ==
    resets = 0 => Cardinality(grants) <= MaxApiCalls

(* Without a reset, a query is refused only when the whole budget was      *)
(* really taken: the counts that other refused queries are about to give   *)
(* back never refuse a call that was still left; and the budget holds.     *)
RefusedOnlyWhenSpent ==
    /\ CallsBounded
    /\ resets = 0 /\ (refused # {} \/ \E u \in Users : pc[u] = "undo")
           => Cardinality(grants) >= MaxApiCalls

(* An answer that shows no advisory is never older than the time to live:  *)
(* whatever order concurrent answers reach the cache in, an advisory that  *)
(* is older than that is shown, unless a source answered with an error     *)
(* status, which counts as no advisory.                                    *)
AnswersFresh ==
    \A u \in Users :
        answer[u] # NoAnswer =>
            \/ answer[u].says = "advisory"
            \/ answer[u].key \in unread
            \/ answer[u].at < published[answer[u].key] + Ttl

(* Every user is told something: errors and refusals do not hold the lock  *)
(* of the session manager for ever.                                        *)
EveryQueryEnds == \A u \in Users : <>(pc[u] = "end")
-----------------------------------------------------------------------------
SessionCalls(s) == {g \in grants : SessionOf[g[1]] = s}

(* docs/design/plans/2026-03-22-plan6-t4-expansion.md:36: "Rate limits     *)
(* (max 10 API calls per session)": a session is refused only when its own *)
(* queries took the budget.                                                *)
LimitPerSession ==
    \A u \in refused : Cardinality(SessionCalls(SessionOf[u])) >= MaxApiCalls

(* The same document, line 21: "Rate limits and caching prevent abuse and  *)
(* redundant network calls": no question is on its way to a source twice.  *)
NoRedundantCalls ==
    \A u, v \in Users :
        u # v /\ pc[u] = "fetch" /\ pc[v] = "fetch" => Key(u) # Key(v)
=============================================================================
