--------------------------- MODULE ResearchProofs ---------------------------
(* The budget and the cache of the research service.  Without a reset the  *)
(* counter is always the calls granted plus the calls that are about to be *)
(* given back, so it never wraps, and a query that is refused met a budget *)
(* that was spent.  An answer is dated by the moment its source was asked, *)
(* and no advisory was published before that moment unless it is shown.    *)
EXTENDS ResearchService, FiniteSetTheorems, TLAPS

-----------------------------------------------------------------------------
(* fetch_add and fetch_sub, far from where the counter wraps.              *)
LEMMA AddNoWrap ==
    ASSUME NEW w \in Nat, NEW x \in Nat, x + 1 < w
    PROVE  (x + 1) % w = x + 1
OBVIOUS

LEMMA SubNoWrap ==
    ASSUME NEW w \in Nat, NEW x \in Nat, 0 < x, x < w
    PROVE  (x + w - 1) % w = x - 1
OBVIOUS

LEMMA WrapsInRange ==
    ASSUME NEW w \in Nat \ {0}, NEW x \in Int
    PROVE  x % w \in 0..(w - 1)
OBVIOUS

USE ResearchAssumption
-----------------------------------------------------------------------------
Undoing == {u \in Users : pc[u] = "undo"}

(* A query that is past the cache is about a question of its list, and the *)
(* calls it was granted are for the questions it has dealt with.           *)
AtQuestion ==
    /\ \A u \in Users : pc[u] \in {"add", "undo", "fetch", "insert"} =>
           idx[u] <= Len(Queries[u])
    /\ \A g \in grants : \/ g[2] < idx[g[1]]
                         \/ g[2] = idx[g[1]] /\ pc[g[1]] \in {"fetch", "insert"}

(* What the counter counts until it is reset.                              *)
Counted ==
    /\ IsFiniteSet(grants)
    /\ resets = 0 =>
          /\ apiCalls = Cardinality(grants) + Cardinality(Undoing)
          /\ Cardinality(grants) <= MaxApiCalls
          /\ Undoing # {} \/ refused # {} => Cardinality(grants) = MaxApiCalls

(* No advisory of question k was published before the time t.              *)
NoneBefore(k, t) == k \in unread \/ t <= published[k]

Dated ==
    /\ \A u \in Users : pc[u] = "insert" =>
          /\ response[u] \in Says
          /\ response[u] = "clean" => NoneBefore(Key(u), now)
    /\ \A k \in Keys : cache[k] # NoEntry =>
          /\ cache[k].inserted <= now
          /\ cache[k].says = "clean" => NoneBefore(k, cache[k].inserted)
    /\ \A u \in Users : answer[u] \in Answers =>
          /\ answer[u].at <= now
          /\ answer[u].says = "clean" =>
                 \/ answer[u].key \in unread
                 \/ answer[u].at < published[answer[u].key] + Ttl

(* A load between its first question and its last holds the lock.          *)
Locked ==
    /\ \A u \in Loads : pc[u] \notin {"start", "end"} => u \in holder
    /\ \A u, v \in holder : u = v

IInv == TypeOK /\ AtQuestion /\ Counted /\ Dated /\ Locked
-----------------------------------------------------------------------------
LEMMA UndoingFinite ==
    /\ IsFiniteSet(Undoing)
    /\ Cardinality(Undoing) \in Nat /\ Cardinality(Users) \in Nat
    /\ Cardinality(Undoing) <= Cardinality(Users)
BY FS_Subset, FS_CardinalityType DEF Undoing

LEMMA KeyTyped ==
    ASSUME TypeOK, NEW u \in Users, idx[u] <= Len(Queries[u])
    PROVE  Key(u) \in Keys
<1>1. idx[u] \in Nat \ {0} /\ Queries[u] \in Seq(Keys) BY DEF TypeOK
<1>q. QED BY <1>1 DEF Key

(* No action of one user touches another user's place, or the clock.       *)
LEMMA QueryFrame ==
    ASSUME TypeOK, NEW u \in Users, Query(u)
    PROVE  /\ UNCHANGED <<now, published, resets>>
           /\ unread \subseteq unread'
           /\ \A v \in Users \ {u} :
                 /\ pc'[v] = pc[v] /\ idx'[v] = idx[v]
                 /\ response'[v] = response[v] /\ answer'[v] = answer[v]
<1>0. /\ pc \in [Users -> Steps] /\ idx \in [Users -> Nat \ {0}]
      /\ response \in [Users -> Says \cup {"none"}]
      /\ answer \in [Users -> Answers \cup {NoAnswer}]
  BY DEF TypeOK
<1>1. CASE Start(u) \/ Skip(u) \/ Finish(u) \/ Miss(u)
  BY <1>0, <1>1 DEF Start, Skip, Finish, Miss, Advance, world
<1>2. CASE Hit(u) BY <1>0, <1>2 DEF Hit, GiveAnswer, Advance, world
<1>3. CASE FetchAdd(u) BY <1>0, <1>3 DEF FetchAdd, world
<1>4. CASE Undo(u) BY <1>0, <1>4 DEF Undo, world
<1>5. CASE Fails(u) \/ Responds(u) BY <1>0, <1>5 DEF Fails, Responds, Advance, world
<1>6. CASE ErrorStatus(u) BY <1>0, <1>6 DEF ErrorStatus, world
<1>7. CASE Insert(u) BY <1>0, <1>7 DEF Insert, GiveAnswer, Advance, world
<1>q. QED BY <1>1, <1>2, <1>3, <1>4, <1>5, <1>6, <1>7 DEF Query

(* What a user's place may become: it never goes back in its list.         *)
LEMMA QueryPlace ==
    ASSUME TypeOK, AtQuestion, NEW u \in Users, Query(u)
    PROVE  /\ pc' \in [Users -> Steps] /\ idx' \in [Users -> Nat \ {0}]
           /\ idx[u] <= idx'[u]
           /\ pc'[u] \in {"add", "undo", "fetch", "insert"} =>
                 idx'[u] = idx[u] /\ idx[u] <= Len(Queries[u])
           /\ pc[u] \in {"fetch", "insert"} =>
                 idx[u] < idx'[u] \/ pc'[u] \in {"fetch", "insert"}
<1>0. /\ pc \in [Users -> Steps] /\ idx \in [Users -> Nat \ {0}]
      /\ idx[u] \in Nat \ {0} /\ Len(Queries[u]) \in Nat
      /\ Queries[u] \in Seq(Keys)
  BY DEF TypeOK
<1>s. Steps = {"start", "get", "add", "undo", "fetch", "insert", "end"} BY DEF Steps
<1>1. CASE Start(u) BY <1>0, <1>s, <1>1 DEF Start
<1>2. ASSUME Advance(u)
      PROVE  /\ pc' \in [Users -> Steps] /\ idx' \in [Users -> Nat \ {0}]
             /\ pc'[u] = "get" /\ idx'[u] = idx[u] + 1
  BY <1>0, <1>s, <1>2 DEF Advance
<1>3. CASE Skip(u) \/ Hit(u) \/ Fails(u) \/ Insert(u)
  BY <1>0, <1>2, <1>3 DEF Skip, Hit, Fails, Insert
<1>4. CASE Finish(u) BY <1>0, <1>s, <1>4 DEF Finish
<1>5. CASE Miss(u) BY <1>0, <1>s, <1>5 DEF Miss, Asks
<1>6. CASE FetchAdd(u)
  <2>1. \E s \in {"fetch", "undo"} : pc' = [pc EXCEPT ![u] = s]
    BY <1>6 DEF FetchAdd
  <2>2. pc[u] = "add" /\ idx' = idx BY <1>6 DEF FetchAdd
  <2>3. idx[u] <= Len(Queries[u]) BY <2>2 DEF AtQuestion
  <2>4. pc' \in [Users -> Steps] /\ pc'[u] \in {"fetch", "undo"} BY <1>0, <1>s, <2>1
  <2>q. QED BY <1>0, <2>2, <2>3, <2>4
<1>7. CASE Undo(u)
  <2>1. /\ pc[u] = "undo" /\ pc' = [pc EXCEPT ![u] = "get"]
        /\ idx' = [idx EXCEPT ![u] = Len(Queries[u]) + 1]
    BY <1>7 DEF Undo
  <2>2. idx[u] <= Len(Queries[u]) BY <2>1 DEF AtQuestion
  <2>q. QED BY <1>0, <1>s, <2>1, <2>2
<1>8. CASE Responds(u) BY <1>0, <1>s, <1>8 DEF Responds, AtQuestion
<1>9. CASE ErrorStatus(u) BY <1>0, <1>s, <1>9 DEF ErrorStatus, AtQuestion
<1>q. QED BY <1>1, <1>3, <1>4, <1>5, <1>6, <1>7, <1>8, <1>9 DEF Query
-----------------------------------------------------------------------------
LEMMA StepTyped == ASSUME IInv, Next PROVE TypeOK'
<1> USE DEF IInv, TypeOK
<1>1. ASSUME NEW u \in Users, Query(u) PROVE TypeOK'
  <2>0. /\ pc' \in [Users -> Steps] /\ idx' \in [Users -> Nat \ {0}]
        /\ UNCHANGED <<now, published, resets>>
    BY <1>1, QueryPlace, QueryFrame
  <2>k. idx[u] <= Len(Queries[u]) => Key(u) \in Keys BY KeyTyped
  <2>1. CASE Start(u) BY <2>0, <2>1 DEF Start, world
  <2>2. CASE Skip(u) \/ Finish(u) \/ Miss(u) \/ Fails(u)
    BY <2>0, <2>2 DEF Skip, Finish, Miss, Fails, world
  <2>3. CASE Hit(u)
    <3>1. Key(u) \in Keys /\ cache[Key(u)] # NoEntry /\ GiveAnswer(u, cache[Key(u)].says)
          /\ UNCHANGED <<holder, apiCalls, cache, response, refused, unread, grants>>
      BY <2>k, <2>3 DEF Hit, Asks, Valid
    <3>2. cache[Key(u)].says \in Says BY <3>1 DEF Entries
    <3>3. answer' \in [Users -> Answers \cup {NoAnswer}]
      BY <3>1, <3>2 DEF GiveAnswer, Answers
    <3>q. QED BY <2>0, <3>1, <3>3
  <2>4. CASE FetchAdd(u)
    <3>1. /\ apiCalls' = (apiCalls + 1) % Wrap
          /\ grants' = grants \/ grants' = grants \cup {<<u, idx[u]>>}
          /\ UNCHANGED <<holder, cache, response, answer, refused, unread>>
      BY <2>4 DEF FetchAdd
    <3>2. apiCalls' \in 0..(Wrap - 1)
      BY <3>1, UndoingFinite, WrapsInRange
    <3>3. grants' \in SUBSET (Users \X Nat) BY <3>1
    <3>q. QED BY <2>0, <3>1, <3>2, <3>3
  <2>5. CASE Undo(u)
    <3>1. /\ apiCalls' = (apiCalls + Wrap - 1) % Wrap
          /\ refused' = refused \cup {u}
          /\ UNCHANGED <<holder, cache, response, answer, unread, grants>>
      BY <2>5 DEF Undo
    <3>2. apiCalls' \in 0..(Wrap - 1)
      BY <3>1, UndoingFinite, WrapsInRange
    <3>q. QED BY <2>0, <3>1, <3>2
  <2>6. CASE Responds(u) \/ ErrorStatus(u)
    <3>1. /\ \E r \in Says : response' = [response EXCEPT ![u] = r]
          /\ unread' = unread \/ unread' = unread \cup {Key(u)}
          /\ pc[u] = "fetch"
          /\ UNCHANGED <<holder, apiCalls, cache, answer, refused, grants>>
      BY <2>6 DEF Responds, ErrorStatus, Truth, Says
    <3>2. Key(u) \in Keys BY <2>k, <3>1 DEF AtQuestion
    <3>q. QED BY <2>0, <3>1, <3>2
  <2>7. CASE Insert(u)
    <3>1. /\ pc[u] = "insert" /\ GiveAnswer(u, response[u])
          /\ cache' = Pruned([cache EXCEPT ![Key(u)] = [says |-> response[u], inserted |-> now]])
          /\ response' = [response EXCEPT ![u] = "none"]
          /\ UNCHANGED <<holder, apiCalls, refused, unread, grants>>
      BY <2>7 DEF Insert
    <3>2. Key(u) \in Keys /\ response[u] \in Says
      BY <2>k, <3>1 DEF AtQuestion, Dated
    <3>3. [cache EXCEPT ![Key(u)] = [says |-> response[u], inserted |-> now]]
              \in [Keys -> Entries \cup {NoEntry}]
      BY <3>2 DEF Entries
    <3>4. cache' \in [Keys -> Entries \cup {NoEntry}] BY <3>1, <3>3 DEF Pruned
    <3>5. answer' \in [Users -> Answers \cup {NoAnswer}]
      BY <3>1, <3>2 DEF GiveAnswer, Answers
    <3>q. QED BY <2>0, <3>1, <3>4, <3>5
  <2>q. QED BY <1>1, <2>1, <2>2, <2>3, <2>4, <2>5, <2>6, <2>7 DEF Query
<1>2. CASE ResetRateLimit
  <2>1. 0 \in 0..(Wrap - 1) BY UndoingFinite
  <2>2. resets < MaxResets /\ resets' = resets + 1 /\ apiCalls' = 0
        /\ UNCHANGED <<pc, idx, holder, cache, response, answer, refused, world, unread, grants>>
    BY <1>2 DEF ResetRateLimit
  <2>3. resets' \in 0..MaxResets BY <2>2
  <2>q. QED BY <2>1, <2>2, <2>3 DEF world
<1>3. ASSUME NEW k \in Keys, Publish(k) PROVE TypeOK'
  BY <1>3 DEF Publish, Never
<1>4. CASE Tick BY <1>4 DEF Tick
<1>q. QED BY <1>1, <1>2, <1>3, <1>4 DEF Next

(* What the actions that leave the places of the users alone keep.         *)
LEMMA OtherSteps ==
    ASSUME Next, \A u \in Users : ~Query(u)
    PROVE  UNCHANGED <<pc, idx, holder, cache, response, answer, refused, unread, grants>>
BY DEF Next, ResetRateLimit, Publish, Tick, world

(* A call is granted for the question its user is at.                      *)
LEMMA QueryGrants ==
    ASSUME NEW u \in Users, Query(u)
    PROVE  \/ grants' = grants
           \/ FetchAdd(u) /\ pc' = [pc EXCEPT ![u] = "fetch"]
              /\ grants' = grants \cup {<<u, idx[u]>>} /\ idx' = idx
<1>1. CASE FetchAdd(u) BY <1>1 DEF FetchAdd
<1>2. CASE ~FetchAdd(u)
  BY <1>2 DEF Query, Start, Skip, Finish, Hit, Miss, Undo, Fails, Responds, ErrorStatus, Insert
<1>q. QED BY <1>1, <1>2

LEMMA StepAtQuestion == ASSUME IInv, Next PROVE AtQuestion'
<1> USE DEF IInv
<1>1. CASE \A u \in Users : ~Query(u)
  <2>1. UNCHANGED <<pc, idx, grants>> BY <1>1, OtherSteps
  <2>q. QED BY <2>1 DEF AtQuestion
<1>2. ASSUME NEW u \in Users, Query(u) PROVE AtQuestion'
  <2>1. /\ idx[u] <= idx'[u]
        /\ pc'[u] \in {"add", "undo", "fetch", "insert"} =>
              idx'[u] = idx[u] /\ idx[u] <= Len(Queries[u])
        /\ pc[u] \in {"fetch", "insert"} =>
              idx[u] < idx'[u] \/ pc'[u] \in {"fetch", "insert"}
    BY <1>2, QueryPlace
  <2>2. \A v \in Users \ {u} : pc'[v] = pc[v] /\ idx'[v] = idx[v]
    BY <1>2, QueryFrame
  <2>3. \A v \in Users : pc'[v] \in {"add", "undo", "fetch", "insert"} =>
            idx'[v] <= Len(Queries[v])
    BY <2>1, <2>2 DEF AtQuestion
  <2>4. /\ grants \subseteq Users \X Nat /\ idx[u] \in Nat
        /\ idx' \in [Users -> Nat \ {0}] /\ idx'[u] \in Nat
    BY <1>2, QueryPlace DEF TypeOK
  <2>5. ASSUME NEW g \in grants
        PROVE  \/ g[2] < idx'[g[1]]
               \/ g[2] = idx'[g[1]] /\ pc'[g[1]] \in {"fetch", "insert"}
    <3>1. g[1] \in Users /\ g[2] \in Nat BY <2>4
    <3>2. \/ g[2] < idx[g[1]]
          \/ g[2] = idx[g[1]] /\ pc[g[1]] \in {"fetch", "insert"}
      BY DEF AtQuestion
    <3>3. CASE g[1] # u BY <2>2, <3>1, <3>2, <3>3
    <3>4. CASE g[1] = u BY <2>1, <2>4, <3>1, <3>2, <3>4
    <3>q. QED BY <3>3, <3>4
  <2>6. ASSUME grants' = grants \cup {<<u, idx[u]>>}, idx' = idx,
               pc' = [pc EXCEPT ![u] = "fetch"]
        PROVE  \A g \in grants' : \/ g[2] < idx'[g[1]]
                                  \/ g[2] = idx'[g[1]] /\ pc'[g[1]] \in {"fetch", "insert"}
    <3>1. pc'[u] = "fetch" BY <2>6 DEF TypeOK
    <3>q. QED BY <2>5, <2>6, <3>1
  <2>q. QED BY <1>2, <2>3, <2>5, <2>6, QueryGrants DEF AtQuestion
<1>q. QED BY <1>1, <1>2

(* Any step but fetch_add, fetch_sub and the reset leaves the count alone. *)
LEMMA CountKept ==
    ASSUME Counted, UNCHANGED <<grants, apiCalls, resets, refused>>,
           \A u \in Users : pc'[u] = "undo" <=> pc[u] = "undo"
    PROVE  Counted'
<1>1. Undoing' = Undoing BY DEF Undoing
<1>q. QED BY <1>1 DEF Counted

LEMMA StepCounted == ASSUME IInv, Next PROVE Counted'
<1> USE DEF IInv
<1>0. /\ IsFiniteSet(grants) /\ IsFiniteSet(Undoing)
      /\ Cardinality(grants) \in Nat /\ Cardinality(Undoing) \in Nat
      /\ Cardinality(Users) \in Nat /\ Cardinality(Undoing) <= Cardinality(Users)
      /\ apiCalls \in Nat /\ pc \in [Users -> Steps]
  BY UndoingFinite, FS_CardinalityType DEF Counted, TypeOK
<1>1. ASSUME NEW u \in Users, FetchAdd(u) PROVE Counted'
  <2>1. /\ pc[u] = "add" /\ apiCalls' = (apiCalls + 1) % Wrap
        /\ UNCHANGED <<idx, refused, resets>>
    BY <1>1 DEF FetchAdd
  <2>2. u \notin Undoing BY <2>1 DEF Undoing
  <2>3. IsFiniteSet(Undoing \cup {u})
        /\ Cardinality(Undoing \cup {u}) = Cardinality(Undoing) + 1
    BY <1>0, <2>2, FS_AddElement
  <2>4. Cardinality(Undoing) + 1 <= Cardinality(Users)
    <3>1. Undoing \cup {u} \in SUBSET Users BY DEF Undoing
    <3>q. QED BY <2>3, <3>1, FS_Subset
  <2>5. resets = 0 => apiCalls' = apiCalls + 1
    <3> SUFFICES ASSUME resets = 0 PROVE apiCalls' = apiCalls + 1 OBVIOUS
    <3>1. apiCalls + 1 < Wrap BY <1>0, <2>4 DEF Counted
    <3>q. QED BY <1>0, <2>1, <3>1, AddNoWrap
  <2>6. CASE Allowed(apiCalls)
    <3>1. pc' = [pc EXCEPT ![u] = "fetch"] /\ grants' = grants \cup {<<u, idx[u]>>}
      BY <1>1, <2>6 DEF FetchAdd
    <3>2. Undoing' = Undoing BY <1>0, <2>1, <3>1 DEF Undoing
    <3>3. <<u, idx[u]>> \notin grants
      <4>1. idx[u] \in Nat BY DEF TypeOK
      <4>q. QED BY <2>1, <4>1 DEF AtQuestion
    <3>4. IsFiniteSet(grants') /\ Cardinality(grants') = Cardinality(grants) + 1
      BY <1>0, <3>1, <3>3, FS_AddElement
    <3>5. resets = 0 => Cardinality(grants) < MaxApiCalls /\ Undoing = {} /\ refused = {}
      BY <1>0, <2>6 DEF Allowed, Counted
    <3>q. QED BY <1>0, <2>1, <2>5, <3>2, <3>4, <3>5 DEF Counted
  <2>7. CASE ~Allowed(apiCalls)
    <3>1. pc' = [pc EXCEPT ![u] = "undo"] /\ grants' = grants
      BY <1>1, <2>7 DEF FetchAdd
    <3>2. Undoing' = Undoing \cup {u} BY <1>0, <3>1 DEF Undoing
    <3>3. resets = 0 => Cardinality(grants) = MaxApiCalls
      <4> SUFFICES ASSUME resets = 0 PROVE Cardinality(grants) = MaxApiCalls OBVIOUS
      <4>1. CASE Undoing # {} BY <4>1 DEF Counted
      <4>2. CASE Undoing = {}
        <5>1. Cardinality(Undoing) = 0 BY <4>2, FS_EmptySet
        <5>q. QED BY <1>0, <2>7, <5>1 DEF Allowed, Counted
      <4>q. QED BY <4>1, <4>2
    <3>q. QED BY <1>0, <2>1, <2>3, <2>5, <3>1, <3>2, <3>3 DEF Counted
  <2>q. QED BY <2>6, <2>7
<1>2. ASSUME NEW u \in Users, Undo(u) PROVE Counted'
  <2>1. /\ pc[u] = "undo" /\ pc' = [pc EXCEPT ![u] = "get"]
        /\ apiCalls' = (apiCalls + Wrap - 1) % Wrap
        /\ refused' = refused \cup {u} /\ UNCHANGED <<grants, resets>>
    BY <1>2 DEF Undo
  <2>2. u \in Undoing /\ Undoing' = Undoing \ {u} BY <1>0, <2>1 DEF Undoing
  <2>3. Cardinality(Undoing') = Cardinality(Undoing) - 1
    BY <1>0, <2>2, FS_RemoveElement
  <2>4. Cardinality(Undoing) # 0 BY <1>0, <2>2, FS_EmptySet
  <2>5. resets = 0 => apiCalls' = apiCalls - 1
    <3> SUFFICES ASSUME resets = 0 PROVE apiCalls' = apiCalls - 1 OBVIOUS
    <3>1. 0 < apiCalls /\ apiCalls < Wrap BY <1>0, <2>4 DEF Counted
    <3>q. QED BY <1>0, <2>1, <3>1, SubNoWrap
  <2>q. QED BY <1>0, <2>1, <2>2, <2>3, <2>5 DEF Counted
<1>3. CASE ResetRateLimit
  <2>1. resets' # 0 /\ grants' = grants BY <1>3 DEF ResetRateLimit, TypeOK
  <2>q. QED BY <2>1 DEF Counted
<1>4. CASE Tick \/ \E k \in Keys : Publish(k)
  BY <1>4, CountKept DEF Tick, Publish
<1>5. ASSUME NEW u \in Users, Query(u), ~FetchAdd(u), ~Undo(u) PROVE Counted'
  <2>1. UNCHANGED <<grants, apiCalls, resets, refused>> /\ pc[u] # "undo" /\ pc'[u] # "undo"
    BY <1>0, <1>5 DEF Query, Start, Skip, Finish, Hit, Miss, Fails, Responds, ErrorStatus,
                      Insert, Advance, Asks
  <2>2. \A v \in Users \ {u} : pc'[v] = pc[v] BY <1>5, QueryFrame
  <2>q. QED BY <2>1, <2>2, CountKept
<1>q. QED BY <1>1, <1>2, <1>3, <1>4, <1>5 DEF Next

(* An answer that was on its way, is cached or was given stays dated when  *)
(* its maps do not change and no request goes out or comes back.           *)
LEMMA DateKept ==
    ASSUME TypeOK, Dated, UNCHANGED <<cache, answer, published>>,
           now <= now', now' \in Nat, unread \subseteq unread',
           \A u \in Users : pc'[u] = "insert" =>
              /\ pc[u] = "insert" /\ response'[u] = response[u]
              /\ idx'[u] = idx[u] /\ now' = now
    PROVE  Dated'
<1>1. now \in Nat /\ \A k \in Keys : cache[k] \in Entries \cup {NoEntry}
  BY DEF TypeOK
<1>2. \A u \in Users : pc'[u] = "insert" =>
         /\ response'[u] \in Says
         /\ response'[u] = "clean" => NoneBefore(Key(u), now)'
  BY DEF Dated, NoneBefore, Key
<1>3. \A k \in Keys : cache'[k] # NoEntry =>
         /\ cache'[k].inserted <= now'
         /\ cache'[k].says = "clean" => NoneBefore(k, cache[k].inserted)'
  BY <1>1 DEF Dated, NoneBefore, Entries
<1>4. \A u \in Users : answer'[u] \in Answers =>
         /\ answer'[u].at <= now'
         /\ answer'[u].says = "clean" =>
                \/ answer'[u].key \in unread'
                \/ answer'[u].at < published'[answer'[u].key] + Ttl
  BY <1>1 DEF Dated, Answers
<1>q. QED BY <1>2, <1>3, <1>4 DEF Dated

(* A source that shows no advisory is asked before one is published.       *)
LEMMA TruthIsDated ==
    ASSUME TypeOK, NEW k \in Keys, Truth(k) = "clean"
    PROVE  now <= published[k]
BY DEF TypeOK, Truth, Never

LEMMA StepDated == ASSUME IInv, Next PROVE Dated'
<1> USE DEF IInv
<1>0. /\ now \in Nat /\ pc \in [Users -> Steps] /\ published \in [Keys -> Nat]
      /\ response \in [Users -> Says \cup {"none"}]
      /\ answer \in [Users -> Answers \cup {NoAnswer}]
      /\ cache \in [Keys -> Entries \cup {NoEntry}]
      /\ \A k \in Keys : cache[k] # NoEntry => cache[k].inserted \in Nat /\ cache[k].says \in Says
  BY DEF TypeOK, Never, Entries
<1>f. ASSUME NEW u \in Users, Query(u)
      PROVE  /\ UNCHANGED <<now, published>> /\ unread \subseteq unread'
             /\ \A v \in Users \ {u} :
                   /\ pc'[v] = pc[v] /\ idx'[v] = idx[v]
                   /\ response'[v] = response[v] /\ answer'[v] = answer[v]
  BY <1>f, QueryFrame
<1>1. CASE ResetRateLimit
  BY <1>0, <1>1, DateKept DEF ResetRateLimit, world
<1>2. CASE Tick
  BY <1>0, <1>2, DateKept DEF Tick
<1>3. ASSUME NEW k \in Keys, Publish(k) PROVE Dated'
  <2>1. /\ published[k] = Never /\ published' = [published EXCEPT ![k] = now]
        /\ UNCHANGED <<pc, idx, cache, response, answer, now, unread>>
    BY <1>3 DEF Publish
  <2>2. \A j \in Keys : published'[j] = IF j = k THEN now ELSE published[j]
    BY <1>0, <2>1
  <2>3. \A u \in Users : pc'[u] = "insert" =>
           /\ response'[u] \in Says
           /\ response'[u] = "clean" => NoneBefore(Key(u), now)'
    <3> SUFFICES ASSUME NEW u \in Users, pc[u] = "insert"
                 PROVE  /\ response[u] \in Says
                        /\ response[u] = "clean" =>
                              Key(u) \in unread \/ now <= published'[Key(u)]
      BY <2>1 DEF NoneBefore, Key
    <3>1. Key(u) \in Keys BY KeyTyped DEF AtQuestion
    <3>q. QED BY <1>0, <2>2, <3>1 DEF Dated, NoneBefore
  <2>4. \A j \in Keys : cache'[j] # NoEntry =>
           /\ cache'[j].inserted <= now'
           /\ cache'[j].says = "clean" => NoneBefore(j, cache[j].inserted)'
    BY <1>0, <2>1, <2>2 DEF Dated, NoneBefore
  <2>5. \A u \in Users : answer'[u] \in Answers =>
           /\ answer'[u].at <= now'
           /\ answer'[u].says = "clean" =>
                  \/ answer'[u].key \in unread'
                  \/ answer'[u].at < published'[answer'[u].key] + Ttl
    <3> SUFFICES ASSUME NEW u \in Users, answer[u] \in Answers
                 PROVE  /\ answer[u].at <= now
                        /\ answer[u].says = "clean" =>
                               \/ answer[u].key \in unread
                               \/ answer[u].at < published'[answer[u].key] + Ttl
      BY <2>1
    <3>1. answer[u].at \in Nat /\ answer[u].key \in Keys /\ answer[u].at <= now
      BY DEF Dated, Answers
    <3>2. answer[u].says = "clean" =>
             answer[u].key \in unread \/ answer[u].at < published[answer[u].key] + Ttl
      BY DEF Dated
    <3>3. answer[u].at < now + Ttl BY <1>0, <3>1
    <3>q. QED BY <2>2, <3>1, <3>2, <3>3
  <2>q. QED BY <2>3, <2>4, <2>5 DEF Dated
<1>4. ASSUME NEW u \in Users, Query(u), ~Hit(u), ~Responds(u), ~ErrorStatus(u), ~Insert(u)
      PROVE  Dated'
  <2>1. UNCHANGED <<cache, answer, response>> /\ pc'[u] # "insert"
    BY <1>0, <1>4 DEF Query, Start, Skip, Finish, Miss, FetchAdd, Undo, Fails, Advance
  <2>q. QED BY <1>0, <1>f, <1>4, <2>1, DateKept
<1>5. ASSUME NEW u \in Users, Hit(u) PROVE Dated'
  <2>0. Query(u) BY <1>5 DEF Query
  <2>1. /\ Asks(u) /\ cache[Key(u)] # NoEntry /\ now - cache[Key(u)].inserted < Ttl
        /\ answer' = [answer EXCEPT ![u] = [key |-> Key(u), says |-> cache[Key(u)].says, at |-> now]]
        /\ pc' = [pc EXCEPT ![u] = "get"]
        /\ UNCHANGED <<cache, response, now, published, unread>>
    BY <1>5 DEF Hit, Valid, GiveAnswer, Advance, world
  <2>2. Key(u) \in Keys BY <2>1, KeyTyped DEF Asks
  <2>3. answer'[u] = [key |-> Key(u), says |-> cache[Key(u)].says, at |-> now] BY <1>0, <2>1
  <2>4. cache[Key(u)].says = "clean" => Key(u) \in unread \/ now < published[Key(u)] + Ttl
    BY <1>0, <2>1, <2>2 DEF Dated, NoneBefore
  <2>5. \A v \in Users : answer'[v] \in Answers =>
           /\ answer'[v].at <= now'
           /\ answer'[v].says = "clean" =>
                  \/ answer'[v].key \in unread'
                  \/ answer'[v].at < published'[answer'[v].key] + Ttl
    <3>1. ASSUME NEW v \in Users, v # u PROVE answer'[v] = answer[v] BY <1>f, <2>0, <3>1
    <3>q. QED BY <1>0, <2>1, <2>3, <2>4, <3>1 DEF Dated
  <2>6. \A v \in Users : pc'[v] = "insert" => pc[v] = "insert" /\ Key(v)' = Key(v)
    BY <1>0, <1>f, <2>0, <2>1 DEF Key
  <2>7. \A v \in Users : pc'[v] = "insert" =>
           /\ response'[v] \in Says
           /\ response'[v] = "clean" => NoneBefore(Key(v), now)'
    BY <2>1, <2>6 DEF Dated, NoneBefore
  <2>8. \A k \in Keys : cache'[k] # NoEntry =>
           /\ cache'[k].inserted <= now'
           /\ cache'[k].says = "clean" => NoneBefore(k, cache[k].inserted)'
    BY <2>1 DEF Dated, NoneBefore
  <2>q. QED BY <2>5, <2>7, <2>8 DEF Dated
<1>6. ASSUME NEW u \in Users, Responds(u) \/ ErrorStatus(u) PROVE Dated'
  <2>0. Query(u) BY <1>6 DEF Query
  <2>1. /\ pc[u] = "fetch" /\ idx' = idx /\ UNCHANGED <<cache, answer, now, published>>
        /\ \E r \in Says : /\ response' = [response EXCEPT ![u] = r]
                           /\ r = "clean" => Truth(Key(u)) = "clean" \/ Key(u) \in unread'
    BY <1>6 DEF Responds, ErrorStatus, Truth, Says, world
  <2>2. Key(u) \in Keys BY <2>1, KeyTyped DEF AtQuestion
  <2>3. /\ response'[u] \in Says
        /\ response'[u] = "clean" => Key(u) \in unread' \/ now <= published[Key(u)]
    BY <1>0, <2>1, <2>2, TruthIsDated
  <2>4. \A v \in Users : pc'[v] = "insert" =>
           /\ response'[v] \in Says
           /\ response'[v] = "clean" => NoneBefore(Key(v), now)'
    <3>1. \A v \in Users : Key(v)' = Key(v) BY <2>1 DEF Key
    <3>2. ASSUME NEW v \in Users, v # u, pc'[v] = "insert"
          PROVE  /\ response'[v] \in Says
                 /\ response'[v] = "clean" => Key(v) \in unread' \/ now <= published[Key(v)]
      BY <1>f, <2>0, <3>2 DEF Dated, NoneBefore
    <3>q. QED BY <2>1, <2>3, <3>1, <3>2 DEF NoneBefore
  <2>5. \A k \in Keys : cache'[k] # NoEntry =>
           /\ cache'[k].inserted <= now'
           /\ cache'[k].says = "clean" => NoneBefore(k, cache[k].inserted)'
    BY <1>f, <2>0, <2>1 DEF Dated, NoneBefore
  <2>6. \A v \in Users : answer'[v] \in Answers =>
           /\ answer'[v].at <= now'
           /\ answer'[v].says = "clean" =>
                  \/ answer'[v].key \in unread'
                  \/ answer'[v].at < published'[answer'[v].key] + Ttl
    BY <1>f, <2>0, <2>1 DEF Dated
  <2>q. QED BY <2>4, <2>5, <2>6 DEF Dated
<1>7. ASSUME NEW u \in Users, Insert(u) PROVE Dated'
  <2>0. Query(u) BY <1>7 DEF Query
  <2>1. /\ pc[u] = "insert" /\ pc' = [pc EXCEPT ![u] = "get"]
        /\ cache' = Pruned([cache EXCEPT ![Key(u)] = [says |-> response[u], inserted |-> now]])
        /\ answer' = [answer EXCEPT ![u] = [key |-> Key(u), says |-> response[u], at |-> now]]
        /\ UNCHANGED <<now, published, unread>>
    BY <1>7 DEF Insert, GiveAnswer, Advance, world
  <2>2. Key(u) \in Keys /\ idx[u] <= Len(Queries[u]) BY <2>1, KeyTyped DEF AtQuestion
  <2>3. response[u] = "clean" => Key(u) \in unread \/ now <= published[Key(u)]
    BY <2>1 DEF Dated, NoneBefore
  <2>4. \A k \in Keys : cache'[k] # NoEntry =>
           \/ cache'[k] = cache[k]
           \/ k = Key(u) /\ cache'[k] = [says |-> response[u], inserted |-> now]
    BY <1>0, <2>1 DEF Pruned
  <2>5. \A k \in Keys : cache'[k] # NoEntry =>
           /\ cache'[k].inserted <= now'
           /\ cache'[k].says = "clean" => NoneBefore(k, cache[k].inserted)'
    <3> SUFFICES ASSUME NEW k \in Keys, cache'[k] # NoEntry
                 PROVE  /\ cache'[k].inserted <= now
                        /\ cache'[k].says = "clean" =>
                              k \in unread \/ cache'[k].inserted <= published[k]
      BY <2>1 DEF NoneBefore
    <3>1. CASE cache'[k] = cache[k] BY <3>1 DEF Dated, NoneBefore
    <3>2. CASE k = Key(u) /\ cache'[k] = [says |-> response[u], inserted |-> now]
      BY <1>0, <2>3, <3>2
    <3>q. QED BY <2>4, <3>1, <3>2
  <2>6. answer'[u] = [key |-> Key(u), says |-> response[u], at |-> now] BY <1>0, <2>1
  <2>7. response[u] = "clean" => Key(u) \in unread \/ now < published[Key(u)] + Ttl
    BY <1>0, <2>2, <2>3
  <2>8. \A v \in Users : answer'[v] \in Answers =>
           /\ answer'[v].at <= now'
           /\ answer'[v].says = "clean" =>
                  \/ answer'[v].key \in unread'
                  \/ answer'[v].at < published'[answer'[v].key] + Ttl
    <3>1. \A v \in Users : v # u => answer'[v] = answer[v] BY <1>f, <2>0
    <3>2. CASE response[u] = "clean" BY <1>0, <2>1, <2>6, <2>7, <3>1, <3>2 DEF Dated
    <3>3. CASE response[u] # "clean" BY <1>0, <2>1, <2>6, <3>1, <3>3 DEF Dated
    <3>q. QED BY <3>2, <3>3
  <2>9. \A v \in Users : pc'[v] = "insert" =>
           /\ response'[v] \in Says
           /\ response'[v] = "clean" => NoneBefore(Key(v), now)'
    <3>1. ASSUME NEW v \in Users, pc'[v] = "insert"
          PROVE  v # u /\ pc[v] = "insert" /\ Key(v)' = Key(v) /\ response'[v] = response[v]
      BY <1>0, <1>f, <2>0, <2>1, <3>1 DEF Key
    <3>2. ASSUME NEW v \in Users, pc'[v] = "insert"
          PROVE  /\ response[v] \in Says
                 /\ response[v] = "clean" => Key(v) \in unread \/ now <= published[Key(v)]
      BY <3>1, <3>2 DEF Dated, NoneBefore
    <3>q. QED BY <2>1, <3>1, <3>2 DEF NoneBefore
  <2>q. QED BY <2>5, <2>8, <2>9 DEF Dated
<1>q. QED BY <1>1, <1>2, <1>3, <1>4, <1>5, <1>6, <1>7 DEF Next

LEMMA StepLocked == ASSUME IInv, Next PROVE Locked'
<1> USE DEF IInv
<1>0. pc \in [Users -> Steps] /\ holder \in SUBSET Loads /\ Loads \subseteq Users
  BY DEF TypeOK, Users
<1>1. CASE \A u \in Users : ~Query(u)
  <2>1. pc' = pc /\ holder' = holder BY <1>1, OtherSteps
  <2>q. QED BY <2>1 DEF Locked
<1>2. ASSUME NEW u \in Users, Query(u) PROVE Locked'
  <2>0. \A v \in Users \ {u} : pc'[v] = pc[v] BY <1>2, QueryFrame
  <2>1. CASE Start(u)
    <3>1. /\ u \in Loads => holder = {}
          /\ holder' = IF u \in Loads THEN {u} ELSE holder
      BY <2>1 DEF Start
    <3>q. QED BY <1>0, <2>0, <3>1 DEF Locked
  <2>2. CASE Finish(u)
    <3>1. pc'[u] = "end" /\ holder' = holder \ {u} BY <1>0, <2>2 DEF Finish
    <3>q. QED BY <1>0, <2>0, <3>1 DEF Locked
  <2>3. CASE ~Start(u) /\ ~Finish(u)
    <3>1. pc[u] \notin {"start", "end"} /\ holder' = holder
      BY <1>0, <1>2, <2>3 DEF Query, Skip, Hit, Miss, FetchAdd, Undo, Fails, Responds,
                              ErrorStatus, Insert, Advance, Asks
    <3>q. QED BY <1>0, <2>0, <3>1 DEF Locked
  <2>q. QED BY <2>1, <2>2, <2>3
<1>q. QED BY <1>1, <1>2

LEMMA InitIInv == Init => IInv
<1> SUFFICES ASSUME Init PROVE IInv OBVIOUS
<1>1. TypeOK
  <2>1. 0 \in 0..(Wrap - 1) BY UndoingFinite
  <2>q. QED BY <2>1 DEF Init, TypeOK, Steps, Never
<1>2. AtQuestion BY DEF Init, AtQuestion
<1>l. Locked BY DEF Init, Locked, Users
<1>3. Counted
  <2>1. Undoing = {} /\ grants = {} /\ refused = {} /\ apiCalls = 0 BY DEF Init, Undoing
  <2>2. IsFiniteSet({}) /\ Cardinality({}) = 0 BY FS_EmptySet
  <2>q. QED BY <2>1, <2>2 DEF Counted
<1>4. Dated
  <2>1. NoAnswer \notin Answers
    <3>1. \A a \in Answers : "at" \in DOMAIN a BY DEF Answers
    <3>2. "at" \notin DOMAIN NoAnswer BY DEF NoAnswer
    <3>q. QED BY <3>1, <3>2
  <2>2. \A u \in Users : pc[u] # "insert" /\ answer[u] \notin Answers BY <2>1 DEF Init
  <2>3. \A k \in Keys : cache[k] = NoEntry BY DEF Init
  <2>q. QED BY <2>2, <2>3 DEF Dated
<1>q. QED BY <1>1, <1>2, <1>3, <1>4, <1>l DEF IInv

LEMMA StepIInv == IInv /\ [Next]_vars => IInv'
<1>1. ASSUME IInv, UNCHANGED vars PROVE IInv'
  BY <1>1 DEF IInv, vars, world, TypeOK, AtQuestion, Counted, Undoing, Dated, NoneBefore, Key, Locked
<1>2. ASSUME IInv, Next PROVE IInv'
  BY <1>2, StepTyped, StepAtQuestion, StepCounted, StepDated, StepLocked DEF IInv
<1>q. QED BY <1>1, <1>2

THEOREM Invariant == Spec => []IInv
BY InitIInv, StepIInv, PTL DEF Spec
-----------------------------------------------------------------------------
(* Every variable keeps its type: the counter never leaves its width.      *)
THEOREM TypeCorrect == Spec => []TypeOK
<1>1. IInv => TypeOK BY DEF IInv
<1>q. QED BY <1>1, Invariant, PTL

(* The budget holds in every interleaving of fetch_add, the comparison and *)
(* fetch_sub, and a query that is refused met a budget that was spent.     *)
THEOREM BudgetExact == Spec => []RefusedOnlyWhenSpent
<1>1. IInv => RefusedOnlyWhenSpent
  <2> SUFFICES ASSUME IInv, resets = 0
               PROVE  /\ Cardinality(grants) <= MaxApiCalls
                      /\ refused # {} \/ (\E u \in Users : pc[u] = "undo") =>
                            Cardinality(grants) >= MaxApiCalls
    BY DEF RefusedOnlyWhenSpent, CallsBounded
  <2>1. (\E u \in Users : pc[u] = "undo") => Undoing # {} BY DEF Undoing
  <2>q. QED BY <2>1 DEF IInv, Counted
<1>q. QED BY <1>1, Invariant, PTL

(* No answer hides an advisory that is older than the time to live, in     *)
(* whatever order concurrent answers reach the cache, unless a source      *)
(* answered with an error status.                                          *)
THEOREM NoStaleAnswer == Spec => []AnswersFresh
<1>1. IInv => AnswersFresh
  <2> SUFFICES ASSUME IInv, NEW u \in Users, answer[u] # NoAnswer,
                      answer[u].says # "advisory"
               PROVE  \/ answer[u].key \in unread
                      \/ answer[u].at < published[answer[u].key] + Ttl
    BY DEF AnswersFresh
  <2>1. answer[u] \in Answers BY DEF IInv, TypeOK
  <2>2. answer[u].says = "clean" BY <2>1 DEF Answers, Says
  <2>q. QED BY <2>1, <2>2 DEF IInv, Dated
<1>q. QED BY <1>1, Invariant, PTL

(* Toolbench loads go through their questions one load at a time.          *)
OneLoadAtATime ==
    \A u, v \in Loads : {pc[u], pc[v]} \cap {"start", "end"} = {} => u = v

(* The lock of the session manager is held through a whole load, whatever  *)
(* its queries end with, and given back by no other.                       *)
THEOREM LoadsExclude == Spec => []OneLoadAtATime
<1>1. IInv => OneLoadAtATime BY DEF IInv, Locked, OneLoadAtATime
<1>q. QED BY <1>1, Invariant, PTL
=============================================================================
