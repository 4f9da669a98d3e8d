---------------------------- MODULE ExplorerProofs ----------------------------
(* What an open explorer knows of the graph it shows.  The analysis the    *)
(* server caches only changes together with a stale event, the server      *)
(* dates that event later than any that a socket has reported, and a load  *)
(* of an older generation can neither replace the graph nor clear what was *)
(* announced since: so the news is shown, in the socket, or due.  Then the *)
(* graph itself: what is drawn of it is a forest, and what the toolbench   *)
(* gathers around a selection is what is nearest.                          *)
EXTENDS ExplorerFreshness, ProjectGraph, FiniteSetTheorems, WellFoundedInduction, TLAPS

USE FreshnessAssumption

Base(r) == r.kind \notin Clusters
OfLoad(c) == {r \in reqs[c] : r.gen = hook[c].gen}

(* A request is of a load that was begun.  While the graph itself is under *)
(* way, nothing else of this load is, and no cluster of it was merged.     *)
LoadsInOrder(c) ==
    /\ \A r \in reqs[c] : 1 <= r.gen /\ r.gen <= hook[c].gen
    /\ hook[c].gen = 0 => hook[c].loading /\ hook[c].loadedClusters = {}
    /\ \A r \in OfLoad(c) : Base(r) =>
          /\ hook[c].loading /\ hook[c].loadedClusters = {}
          /\ OfLoad(c) = {r}

(* A cluster that counts as loaded has been merged.                        *)
LoadedMerged(c) == \A k \in hook[c].loadedClusters : hook[c].kids[k] # 0

(* As long as no stale event was lost: what an explorer shows or is about  *)
(* to be given is no newer than the cache, its socket is behind the last   *)
(* event or has reported it, and if it has an older graph, or is about to  *)
(* get one, it is warned or will be, or its socket was closed for good.    *)
Warned(c) == hook[c].stale \/ OnItsWay(c) \/ stream[c].state = "ended"

NotAhead(c) ==
    lost \/ (hook[c].base <= cache /\ \A r \in reqs[c] : r.version <= cache)

SocketFollows(c) ==
    lost \/ (stream[c].marker <= LastStale /\ (OnItsWay(c) => LastStale # 0))

NewsTravels(c) ==
    lost \/ /\ Behind(c) => Warned(c)
            /\ \A r \in OfLoad(c) :
                  Base(r) /\ r.done /\ 0 < r.version /\ r.version < cache => Warned(c)

ClientInv(c) ==
    LoadsInOrder(c) /\ LoadedMerged(c) /\ NotAhead(c) /\ SocketFollows(c) /\ NewsTravels(c)

IInv == TypeOK /\ cache <= tree /\ \A c \in Clients : ClientInv(c)
-----------------------------------------------------------------------------
(* Every nonempty set of natural numbers has a least element.              *)
LEMMA LeastNat ==
    ASSUME NEW S \in SUBSET Nat, S # {}
    PROVE  \E m \in S : \A n \in S : m <= n
<1> DEFINE R == {ss \in Nat \X Nat : ss[1] < ss[2]}
<1>1. IsWellFoundedOn(R, Nat) BY NatLessThanWellFounded DEF OpToRel
<1> HIDE DEF R
<1>2. PICK m \in S : \A n \in S : ~(<<n, m>> \in R) BY <1>1, WFMin
<1>3. \A n \in S : ~(n < m) BY <1>2 DEF R
<1>q. QED BY <1>3

(* Some entry of a log is as late as every other.  Of the entries up to    *)
(* the first place where that failed, the last one or the latest before it *)
(* would be.                                                               *)
LEMMA LatestExists ==
    ASSUME NEW s \in Seq(Nat), Len(s) > 0
    PROVE  \E i \in 1..Len(s) : \A j \in 1..Len(s) : s[j] <= s[i]
<1>0. \A j \in 1..Len(s) : s[j] \in Nat OBVIOUS
<1> DEFINE Good(n) == \E i \in 1..n : \A j \in 1..n : s[j] <= s[i]
           Bad == {n \in 1..Len(s) : ~Good(n)}
<1>1. SUFFICES ASSUME ~Good(Len(s)) PROVE FALSE OBVIOUS
<1>2. Len(s) \in Bad /\ Bad \subseteq Nat BY <1>1
<1>3. PICK m \in Bad : \A n \in Bad : m <= n BY <1>2, LeastNat
<1>4. m \in 1..Len(s) /\ ~Good(m) /\ \A n \in 1..Len(s) : n < m => Good(n) BY <1>3
<1>s. Len(s) \in Nat OBVIOUS
<1> HIDE DEF Bad, Good
<1>5. m # 1
  <2>1. s[1] \in Nat /\ 1 \in 1..1 /\ \A j \in 1..1 : j = 1 BY <1>0, <1>s
  <2>2. Good(1) BY <2>1 DEF Good
  <2>q. QED BY <1>4, <2>2
<1>6. m - 1 \in 1..Len(s) /\ m - 1 < m /\ m \in Nat BY <1>s, <1>4, <1>5
<1>7. Good(m - 1) BY <1>4, <1>6
<1>8. PICK i \in 1..(m - 1) : \A j \in 1..(m - 1) : s[j] <= s[i] BY <1>7 DEF Good
<1>9. /\ i \in 1..m /\ m \in 1..m /\ \A j \in 1..m : j = m \/ j \in 1..(m - 1)
      /\ \A j \in 1..m : j \in 1..Len(s)
  BY <1>s, <1>4, <1>6
<1>10. s[i] \in Nat /\ s[m] \in Nat /\ \A j \in 1..m : s[j] \in Nat BY <1>0, <1>9
<1>11. CASE s[m] <= s[i]
  <2>1. \A j \in 1..m : s[j] <= s[i] BY <1>8, <1>9, <1>11
  <2>2. Good(m) BY <1>9, <2>1 DEF Good
  <2>q. QED BY <1>4, <2>2
<1>12. CASE s[i] <= s[m]
  <2>1. \A j \in 1..m : s[j] <= s[m]
    <3>1. ASSUME NEW j \in 1..(m - 1) PROVE s[j] <= s[m]
      <4>1. j \in 1..m BY <1>6
      <4>2. s[j] \in Nat /\ s[j] <= s[i] BY <1>8, <1>10, <4>1
      <4>q. QED BY <1>10, <1>12, <4>2
    <3>2. s[m] <= s[m] BY <1>10
    <3>q. QED BY <1>9, <3>1, <3>2
  <2>2. Good(m) BY <1>9, <2>1 DEF Good
  <2>q. QED BY <1>4, <2>2
<1>q. QED BY <1>10, <1>11, <1>12

LEMMA SetOfSeq ==
    ASSUME NEW s \in Seq(Nat)
    PROVE  /\ ToSet(s) = {s[i] : i \in 1..Len(s)} /\ ToSet(s) \subseteq Nat
<1>1. DOMAIN s = 1..Len(s) /\ \A i \in 1..Len(s) : s[i] \in Nat OBVIOUS
<1>q. QED BY <1>1 DEF ToSet

(* Latest is the last of the stale events in sight, 0 if there is none.    *)
LEMMA LatestIsLast ==
    ASSUME NEW s \in Seq(Nat)
    PROVE  /\ Latest(ToSet(s) \ {0}) \in Nat
           /\ \A t \in ToSet(s) : t <= Latest(ToSet(s) \ {0})
           /\ Latest(ToSet(s) \ {0}) # 0 => Latest(ToSet(s) \ {0}) \in ToSet(s)
<1> DEFINE stamps == ToSet(s) \ {0}
           last == Latest(stamps)
<1>1. ToSet(s) = {s[i] : i \in 1..Len(s)} /\ ToSet(s) \subseteq Nat BY SetOfSeq
<1>2. CASE stamps = {}
  <2>1. last = 0 BY <1>2 DEF Latest
  <2>2. \A t \in ToSet(s) : t = 0 /\ t <= 0 BY <1>2
  <2> HIDE DEF last
  <2>3. last \in Nat /\ (\A t \in ToSet(s) : t <= last) /\ ~(last # 0) BY <2>1, <2>2
  <2>q. QED BY <2>3 DEF last
<1>3. CASE stamps # {}
  <2>1. Len(s) > 0 BY <1>1, <1>3
  <2>2. PICK i \in 1..Len(s) : \A j \in 1..Len(s) : s[j] <= s[i] BY <2>1, LatestExists
  <2>3. \A t \in ToSet(s) : t <= s[i] BY <1>1, <2>2
  <2>4. s[i] \in ToSet(s) BY <1>1
  <2>5. PICK t \in stamps : TRUE BY <1>3
  <2>6. t \in Nat /\ t > 0 /\ t <= s[i] BY <1>1, <2>3, <2>5
  <2>7. s[i] \in stamps BY <1>1, <2>4, <2>6
  <2>8. last \in stamps /\ \A x \in stamps : x <= last
    <3> HIDE DEF stamps
    <3>1. \A x \in stamps : x <= s[i] BY <2>3 DEF stamps
    <3>q. QED BY <1>3, <2>7, <3>1 DEF Latest
  <2>9. last \in Nat /\ \A x \in ToSet(s) : x <= last
    <3> HIDE DEF last
    <3>q. QED BY <1>1, <2>8
  <2>q. QED BY <2>8, <2>9
<1>q. QED BY <1>2, <1>3

(* A console entry that pushes no stale event out of sight adds itself.    *)
LEMMA LoggedAdds ==
    ASSUME TypeOK, NEW entry \in Nat
    PROVE  /\ Logged(entry) \in Seq(Nat) /\ Len(Logged(entry)) <= Window
           /\ ~OutOfWindow => ToSet(Logged(entry)) \ {0} = (ToSet(recent) \cup {entry}) \ {0}
<1> DEFINE log == Append(recent, entry)
<1>1. recent \in Seq(Nat) /\ Len(recent) <= Window BY DEF TypeOK
<1>2. log \in Seq(Nat) /\ Len(log) = Len(recent) + 1
      /\ \A i \in 1..Len(log) : log[i] = IF i = Len(log) THEN entry ELSE recent[i]
  BY <1>1
<1>3. ToSet(log) = ToSet(recent) \cup {entry}
  <2>1. ToSet(log) = {log[i] : i \in 1..Len(log)} BY <1>2, SetOfSeq
  <2>2. ToSet(recent) = {recent[i] : i \in 1..Len(recent)} BY <1>1, SetOfSeq
  <2>3. ASSUME NEW x \in ToSet(log) PROVE x \in ToSet(recent) \cup {entry}
    <3>1. PICK i \in 1..Len(log) : x = log[i] BY <2>1
    <3>q. QED BY <1>1, <1>2, <2>2, <3>1
  <2>4. ASSUME NEW x \in ToSet(recent) PROVE x \in ToSet(log)
    <3>1. PICK i \in 1..Len(recent) : x = recent[i] BY <2>2
    <3>2. i \in 1..Len(log) /\ log[i] = x BY <1>1, <1>2, <3>1
    <3>q. QED BY <2>1, <3>2
  <2>5. entry \in ToSet(log)
    <3>1. Len(log) \in 1..Len(log) /\ log[Len(log)] = entry BY <1>1, <1>2
    <3>q. QED BY <2>1, <3>1
  <2>q. QED BY <2>3, <2>4, <2>5
<1>4. CASE Len(log) <= Window
  <2>1. Logged(entry) = log BY <1>2, <1>4 DEF Logged
  <2>q. QED BY <1>2, <1>3, <1>4, <2>1
<1>5. CASE Len(log) > Window
  <2>1. Logged(entry) = Tail(log) BY <1>2, <1>5 DEF Logged
  <2>2. Len(recent) = Window /\ Len(log) = Window + 1 BY <1>1, <1>2, <1>5
  <2>3. Tail(log) \in Seq(Nat) /\ Len(Tail(log)) = Window
        /\ \A i \in 1..Window : Tail(log)[i] = log[i + 1]
    BY <1>2, <2>2
  <2>4. ASSUME ~OutOfWindow
        PROVE  ToSet(Tail(log)) \ {0} = ToSet(log) \ {0}
    <3>1. Head(recent) = 0 /\ log[1] = 0
      BY <1>1, <1>2, <2>2, <2>4 DEF OutOfWindow
    <3>2. ToSet(Tail(log)) = {Tail(log)[i] : i \in 1..Window} BY <2>3, SetOfSeq
    <3>3. ToSet(log) = {log[i] : i \in 1..(Window + 1)} BY <1>2, <2>2, SetOfSeq
    <3>4. ASSUME NEW x \in ToSet(Tail(log)) PROVE x \in ToSet(log)
      <4>1. PICK i \in 1..Window : x = Tail(log)[i] BY <3>2
      <4>2. i + 1 \in 1..(Window + 1) /\ x = log[i + 1] BY <2>3, <4>1
      <4>q. QED BY <3>3, <4>2
    <3>5. ASSUME NEW x \in ToSet(log), x # 0 PROVE x \in ToSet(Tail(log))
      <4>1. PICK i \in 1..(Window + 1) : x = log[i] BY <3>3
      <4>2. i # 1 BY <3>1, <3>5, <4>1
      <4>3. i - 1 \in 1..Window /\ (i - 1) + 1 = i BY <4>1, <4>2
      <4>4. Tail(log)[i - 1] = x BY <2>3, <4>1, <4>3
      <4>q. QED BY <3>2, <4>3, <4>4
    <3>q. QED BY <3>4, <3>5
  <2>q. QED BY <1>3, <2>1, <2>3, <2>4
<1>q. QED BY <1>1, <1>2, <1>4, <1>5

LEMMA LastStaleTyped ==
    ASSUME TypeOK
    PROVE  /\ LastStale \in Nat /\ \A t \in ToSet(recent) : t <= LastStale
           /\ LastStale # 0 => LastStale \in ToSet(recent)
BY LatestIsLast DEF LastStale, Stamps, TypeOK

(* What may happen in the server: its cache only moves on, and only with a *)
(* stale event that is later than all before it, unless that event, or one *)
(* before it, is lost.                                                     *)
CacheMoves ==
    /\ cache' \in 0..MaxTree /\ lost' \in BOOLEAN
    /\ recent' \in Seq(Nat) /\ Len(recent') <= Window
    /\ LastStale' \in Nat
    /\ lost' \/ /\ ~lost
                /\ cache <= cache' /\ LastStale <= LastStale'
                /\ cache = 0 \/ cache' = cache \/ LastStale < LastStale'

LEMMA LogMoves ==
    ASSUME TypeOK, NEW entry \in Nat,
           recent' = Logged(entry), lost' = (lost \/ OutOfWindow)
    PROVE  /\ recent' \in Seq(Nat) /\ Len(recent') <= Window /\ lost' \in BOOLEAN
           /\ LastStale' \in Nat
           /\ lost' \/ /\ LastStale <= LastStale'
                       /\ entry = LastStale + 1 => LastStale < LastStale'
<1>1. /\ recent' \in Seq(Nat) /\ Len(recent') <= Window
      /\ ~OutOfWindow => Stamps' = Stamps \cup ({entry} \ {0})
  BY LoggedAdds DEF Stamps
<1>2. LastStale' \in Nat /\ (\A t \in ToSet(recent') : t <= LastStale')
  BY <1>1, LatestIsLast DEF LastStale, Stamps
<1>3. LastStale \in Nat /\ (LastStale # 0 => LastStale \in ToSet(recent)) BY LastStaleTyped
<1>4. ASSUME ~OutOfWindow
      PROVE  /\ LastStale <= LastStale'
             /\ entry = LastStale + 1 => LastStale < LastStale'
  <2>1. LastStale # 0 => LastStale \in Stamps' BY <1>1, <1>3, <1>4 DEF Stamps
  <2>2. LastStale # 0 => LastStale \in ToSet(recent') BY <2>1 DEF Stamps
  <2>3. entry = LastStale + 1 => entry \in Stamps' BY <1>1, <1>3, <1>4
  <2>4. entry = LastStale + 1 => entry \in ToSet(recent') BY <2>3 DEF Stamps
  <2>q. QED BY <1>2, <1>3, <2>2, <2>4
<1>q. QED BY <1>1, <1>2, <1>4 DEF TypeOK

LEMMA LogUnmoved == ASSUME UNCHANGED recent PROVE LastStale' = LastStale
BY DEF LastStale, Stamps

LEMMA ServerMoves ==
    ASSUME TypeOK, cache <= tree,
           Refresh \/ RefreshFails \/ Build \/ UNCHANGED <<cache, recent, lost>>
    PROVE  CacheMoves /\ cache' <= tree
<1>0. /\ tree \in 1..MaxTree /\ cache \in 0..MaxTree /\ lost \in BOOLEAN
      /\ recent \in Seq(Nat) /\ Len(recent) <= Window /\ cache <= tree
      /\ LastStale \in Nat
  BY LastStaleTyped DEF TypeOK
<1>1. ASSUME UNCHANGED <<recent, lost>>, cache' = cache \/ (cache = 0 /\ cache' = tree)
      PROVE  CacheMoves /\ cache' <= tree
  <2>1. LastStale' = LastStale BY <1>1, LogUnmoved
  <2>q. QED BY <1>0, <1>1, <2>1 DEF CacheMoves
<1>2. CASE RefreshFails
  <2>1. LastStale' = LastStale BY <1>2, LogUnmoved DEF RefreshFails
  <2>q. QED BY <1>0, <1>2, <2>1 DEF RefreshFails, CacheMoves
<1>3. CASE Refresh
  <2>1. cache' = tree BY <1>3 DEF Refresh, Refreshed
  <2>2. CASE cache \in {0, tree} /\ UNCHANGED <<recent, lost>> BY <1>1, <2>1, <2>2
  <2>3. CASE /\ recent' = Logged(LastStale + 1)
             /\ lost' = (lost \/ OutOfWindow)
    <3>1. /\ recent' \in Seq(Nat) /\ Len(recent') <= Window /\ lost' \in BOOLEAN
          /\ LastStale' \in Nat
          /\ lost' \/ (LastStale <= LastStale' /\ LastStale < LastStale')
      <4>1. LastStale + 1 \in Nat BY <1>0
      <4>q. QED BY <2>3, <4>1, LogMoves
    <3>2. lost' \/ ~lost BY <1>0, <2>3
    <3>3. cache' \in 0..MaxTree /\ cache <= cache' /\ cache' <= tree BY <1>0, <2>1
    <3>q. QED BY <3>1, <3>2, <3>3 DEF CacheMoves
  <2>4. CASE recent' = Logged(LastStale) /\ lost' = TRUE
    <3>1. recent' \in Seq(Nat) /\ Len(recent') <= Window BY <1>0, <2>4, LoggedAdds
    <3>2. LastStale' \in Nat BY <3>1, LatestIsLast DEF LastStale, Stamps
    <3>q. QED BY <1>0, <2>1, <2>4, <3>1, <3>2 DEF CacheMoves
  <2>q. QED BY <1>3, <2>2, <2>3, <2>4 DEF Refresh, AppendStale
<1>q. QED BY <1>1, <1>2, <1>3 DEF Build

(* Whoever was warned stays warned while the server moves, and everybody   *)
(* is when the cache has left them behind.                                 *)
LEMMA WarnedKeeps ==
    ASSUME IInv, CacheMoves, UNCHANGED <<stream, hook>>, ~lost', NEW c \in Clients
    PROVE  /\ Warned(c) => Warned(c)'
           /\ cache # 0 /\ cache' # cache => Warned(c)'
           /\ stream[c].marker <= LastStale'
           /\ OnItsWay(c)' => LastStale' # 0
<1>1. /\ stream[c].marker \in Nat /\ stream[c].marker <= LastStale
      /\ OnItsWay(c) => LastStale # 0
      /\ LastStale \in Nat /\ LastStale' \in Nat /\ LastStale <= LastStale'
      /\ cache = 0 \/ cache' = cache \/ LastStale < LastStale'
  BY LastStaleTyped DEF IInv, CacheMoves, ClientInv, SocketFollows, TypeOK, Sockets
<1>2. LastStale < LastStale' => OnItsWay(c)' \/ stream'[c].state = "ended"
  BY <1>1 DEF OnItsWay
<1>3. OnItsWay(c) => OnItsWay(c)' \/ stream'[c].state = "ended"
  BY <1>1, <1>2 DEF OnItsWay
<1>4. OnItsWay(c)' => LastStale' # 0
  <2>1. CASE stream[c].inbox > 0 BY <1>1, <2>1 DEF OnItsWay
  <2>2. CASE ~(stream[c].inbox > 0) BY <2>2 DEF OnItsWay
  <2>q. QED BY <2>1, <2>2
<1>q. QED BY <1>1, <1>2, <1>3, <1>4 DEF Warned
-----------------------------------------------------------------------------
LEMMA InitIInv == Init => IInv
<1> SUFFICES ASSUME Init PROVE IInv OBVIOUS
<1>1. TypeOK
  <2>1. recent \in Seq(Nat) /\ Len(recent) <= Window BY DEF Init
  <2>2. tree = 1 /\ cache = 0 /\ lost = FALSE BY DEF Init
  <2>6. tree \in 1..MaxTree /\ cache \in 0..MaxTree BY <2>2
  <2>3. stream \in [Clients -> Sockets] BY DEF Init, Down, Socket, Sockets
  <2>4. hook \in [Clients -> Hooks]
    <3>1. NoKids \in [Clusters -> 0..MaxTree] BY DEF NoKids
    <3>q. QED BY <3>1 DEF Init, Hooks
  <2>5. reqs \in [Clients -> SUBSET Requests] BY DEF Init
  <2>q. QED BY <2>1, <2>2, <2>3, <2>4, <2>5, <2>6 DEF TypeOK, Init
<1>2. cache <= tree BY DEF Init
<1>3. ASSUME NEW c \in Clients PROVE ClientInv(c)
  <2>1. /\ reqs[c] = {} /\ hook[c].gen = 0 /\ hook[c].loading /\ hook[c].base = 0
        /\ hook[c].loadedClusters = {} /\ stream[c] = Down /\ cache = 0
    BY DEF Init
  <2>2. stream[c].marker = 0 /\ stream[c].inbox = 0 BY <2>1 DEF Down, Socket
  <2>3. LastStale \in Nat BY <1>1, LastStaleTyped
  <2>4. LoadsInOrder(c) /\ LoadedMerged(c) /\ NotAhead(c) /\ NewsTravels(c)
    BY <2>1 DEF LoadsInOrder, LoadedMerged, NotAhead, NewsTravels, OfLoad, Behind
  <2>5. SocketFollows(c) BY <2>2, <2>3 DEF SocketFollows, OnItsWay
  <2>q. QED BY <2>4, <2>5 DEF ClientInv
<1>q. QED BY <1>1, <1>2, <1>3 DEF IInv

(* Steps of the server: analyses, log entries and edits of the source.     *)
LEMMA ServerKeeps ==
    ASSUME IInv, CacheMoves, tree' \in 1..MaxTree, cache' <= tree',
           UNCHANGED <<stream, hook, reqs>>
    PROVE  IInv'
<1>1. TypeOK' BY DEF IInv, TypeOK, CacheMoves
<1>2. ASSUME NEW c \in Clients PROVE ClientInv(c)'
  <2>1. LoadsInOrder(c)' /\ LoadedMerged(c)'
    BY DEF IInv, ClientInv, LoadsInOrder, LoadedMerged, OfLoad
  <2>2. CASE lost' BY <2>1, <2>2 DEF ClientInv, NotAhead, SocketFollows, NewsTravels
  <2>3. CASE ~lost'
    <3>1. /\ ~lost /\ cache <= cache' /\ cache \in Nat /\ cache' \in Nat
          /\ hook[c].base \in Nat /\ \A r \in reqs[c] : r.version \in Nat
      BY <2>3 DEF IInv, CacheMoves, TypeOK, Hooks, Requests
    <3>2. NotAhead(c)' BY <3>1 DEF IInv, ClientInv, NotAhead
    <3>3. SocketFollows(c)' BY <2>3, WarnedKeeps DEF SocketFollows
    <3>4. /\ Warned(c) => Warned(c)'
          /\ cache # 0 /\ cache' # cache => Warned(c)'
      BY <2>3, WarnedKeeps
    <3>5. Behind(c)' => Warned(c)'
      <4>1. CASE cache' = cache BY <3>1, <3>4, <4>1 DEF IInv, ClientInv, NewsTravels, Behind, Shown
      <4>2. CASE cache' # cache BY <3>1, <3>4, <4>2 DEF IInv, ClientInv, NotAhead, Behind
      <4>q. QED BY <4>1, <4>2
    <3>6. ASSUME NEW r \in OfLoad(c), Base(r), r.done, 0 < r.version, r.version < cache'
          PROVE  Warned(c)'
      <4>1. CASE cache' = cache BY <3>1, <3>4, <3>6, <4>1 DEF IInv, ClientInv, NewsTravels
      <4>2. CASE cache' # cache BY <3>1, <3>4, <3>6, <4>2 DEF IInv, ClientInv, NotAhead, OfLoad
      <4>q. QED BY <4>1, <4>2
    <3>7. NewsTravels(c)' BY <3>5, <3>6 DEF NewsTravels, OfLoad
    <3>q. QED BY <2>1, <3>2, <3>3, <3>7 DEF ClientInv
  <2>q. QED BY <2>2, <2>3
<1>q. QED BY <1>1, <1>2 DEF IInv

(* A request is answered with what the cache holds now, or fails.          *)
LEMMA AnsweredIs ==
    ASSUME TypeOK, NEW c \in Clients, NEW r \in reqs[c], NEW v \in 0..MaxTree, Answered(c, r, v)
    PROVE  /\ reqs' \in [Clients -> SUBSET Requests]
           /\ \A d \in Clients \ {c} : reqs'[d] = reqs[d]
           /\ \E new \in Requests :
                 /\ new.gen = r.gen /\ new.kind = r.kind /\ new.version = v
                 /\ reqs'[c] = (reqs[c] \ {r}) \cup {new}
<1> DEFINE new == [r EXCEPT !.done = TRUE, !.version = v]
<1>1. reqs \in [Clients -> SUBSET Requests] /\ r \in Requests BY DEF TypeOK
<1>2. new \in Requests /\ new.gen = r.gen /\ new.kind = r.kind /\ new.version = v
  BY <1>1 DEF Requests
<1>3. reqs' = [reqs EXCEPT ![c] = (reqs[c] \ {r}) \cup {new}] BY DEF Answered
<1> HIDE DEF new
<1>q. QED BY <1>1, <1>2, <1>3

LEMMA AnswerKeeps ==
    ASSUME IInv, CacheMoves, UNCHANGED <<tree, stream, hook>>, cache' <= tree,
           NEW c \in Clients, NEW r \in reqs[c], NEW v \in {0, cache'}, Answered(c, r, v)
    PROVE  IInv'
<1>0. TypeOK /\ v \in 0..MaxTree BY DEF IInv, CacheMoves
<1>1. /\ reqs' \in [Clients -> SUBSET Requests]
      /\ \A d \in Clients \ {c} : reqs'[d] = reqs[d]
  BY <1>0, AnsweredIs
<1>2. PICK new \in Requests :
          /\ new.gen = r.gen /\ new.kind = r.kind /\ new.version = v
          /\ reqs'[c] = (reqs[c] \ {r}) \cup {new}
  BY <1>0, AnsweredIs
<1>3. TypeOK' BY <1>1 DEF IInv, TypeOK, CacheMoves
<1>4. ASSUME NEW d \in Clients
      PROVE  /\ LoadsInOrder(d)'
             /\ \A s \in reqs'[d] : s \in reqs[d] \/ (d = c /\ s = new)
  <2>1. \A s \in reqs'[d] : s \in reqs[d] \/ (d = c /\ s = new) BY <1>1, <1>2
  <2>2. CASE d # c
    BY <1>1, <2>2 DEF IInv, ClientInv, LoadsInOrder, OfLoad
  <2>3. CASE d = c
    <3>1. /\ \A x \in reqs[c] : 1 <= x.gen /\ x.gen <= hook[c].gen
          /\ hook[c].gen = 0 => hook[c].loading /\ hook[c].loadedClusters = {}
          /\ \A x \in OfLoad(c) : Base(x) =>
                hook[c].loading /\ hook[c].loadedClusters = {} /\ OfLoad(c) = {x}
      BY DEF IInv, ClientInv, LoadsInOrder
    <3>2. OfLoad(c)' = IF r \in OfLoad(c) THEN (OfLoad(c) \ {r}) \cup {new} ELSE OfLoad(c)
      BY <1>2 DEF OfLoad
    <3>3. Base(new) <=> Base(r) BY <1>2 DEF Base
    <3>4. ASSUME NEW x \in OfLoad(c)', Base(x)
          PROVE  hook[c].loading /\ hook[c].loadedClusters = {} /\ OfLoad(c)' = {x}
      <4>1. CASE r \notin OfLoad(c) BY <3>1, <3>2, <3>4, <4>1
      <4>2. CASE r \in OfLoad(c) /\ x = new BY <3>1, <3>2, <3>3, <3>4, <4>2
      <4>3. CASE r \in OfLoad(c) /\ x # new BY <3>1, <3>2, <3>4, <4>3
      <4>q. QED BY <4>1, <4>2, <4>3
    <3>5. \A x \in reqs'[c] : 1 <= x.gen /\ x.gen <= hook[c].gen BY <1>2, <3>1
    <3>q. QED BY <2>1, <2>3, <3>1, <3>4, <3>5 DEF LoadsInOrder
  <2>q. QED BY <2>1, <2>2, <2>3
<1>5. ASSUME NEW d \in Clients PROVE ClientInv(d)'
  <2>1. LoadedMerged(d)' BY DEF IInv, ClientInv, LoadedMerged
  <2>2. CASE lost' BY <1>4, <2>1, <2>2 DEF ClientInv, NotAhead, SocketFollows, NewsTravels
  <2>3. CASE ~lost'
    <3>1. /\ ~lost /\ cache <= cache' /\ cache \in Nat /\ cache' \in Nat
          /\ hook[d].base \in Nat /\ \A s \in reqs[d] : s.version \in Nat
      BY <2>3 DEF IInv, CacheMoves, TypeOK, Hooks, Requests
    <3>2. NotAhead(d)' BY <1>2, <1>4, <3>1 DEF IInv, ClientInv, NotAhead
    <3>3. SocketFollows(d)' BY <2>3, WarnedKeeps DEF SocketFollows
    <3>4. /\ Warned(d) => Warned(d)'
          /\ cache # 0 /\ cache' # cache => Warned(d)'
      BY <2>3, WarnedKeeps
    <3>5. Behind(d)' => Warned(d)'
      <4>1. CASE cache' = cache BY <3>1, <3>4, <4>1 DEF IInv, ClientInv, NewsTravels, Behind, Shown
      <4>2. CASE cache' # cache BY <3>1, <3>4, <4>2 DEF IInv, ClientInv, NotAhead, Behind
      <4>q. QED BY <4>1, <4>2
    <3>6. ASSUME NEW s \in reqs'[d], s.gen = hook[d].gen, Base(s), s.done, 0 < s.version, s.version < cache'
          PROVE  Warned(d)'
      <4>0. s \in reqs[d] BY <1>2, <1>4, <3>1, <3>6
      <4>1. CASE cache' = cache
        BY <3>1, <3>4, <3>6, <4>0, <4>1 DEF IInv, ClientInv, NewsTravels, OfLoad
      <4>2. CASE cache' # cache BY <3>1, <3>4, <3>6, <4>0, <4>2 DEF IInv, ClientInv, NotAhead
      <4>q. QED BY <4>1, <4>2
    <3>7. NewsTravels(d)' BY <3>5, <3>6 DEF NewsTravels, OfLoad
    <3>q. QED BY <1>4, <2>1, <3>2, <3>3, <3>7 DEF ClientInv
  <2>q. QED BY <2>2, <2>3
<1>q. QED BY <1>3, <1>5 DEF IInv

(* After a restart every event counts as lost: what remains is the order   *)
(* of the loads.                                                           *)
LEMMA RestartKeeps == ASSUME IInv, Restart PROVE IInv'
<1> DEFINE Broken(r) == [r EXCEPT !.done = TRUE, !.version = IF r.done THEN r.version ELSE 0]
<1>1. /\ cache' = 0 /\ lost' = TRUE
      /\ stream' = [c \in Clients |-> IF stream[c].state = "up" THEN Down ELSE stream[c]]
      /\ reqs' = [c \in Clients |-> {Broken(r) : r \in reqs[c]}]
      /\ UNCHANGED <<tree, recent, hook>>
  <2>1. reqs' = [c \in Clients |->
                   {[r EXCEPT !.done = TRUE, !.version = IF r.done THEN @ ELSE 0] : r \in reqs[c]}]
    BY DEF Restart
  <2>2. reqs' = [c \in Clients |-> {Broken(r) : r \in reqs[c]}] BY <2>1
  <2>q. QED BY <2>2 DEF Restart
<1>2. ASSUME NEW r \in Requests
      PROVE  Broken(r) \in Requests /\ Broken(r).gen = r.gen /\ Broken(r).kind = r.kind
  <2> DEFINE v == IF r.done THEN r.version ELSE 0
  <2>1. v \in 0..MaxTree BY DEF Requests
  <2> HIDE DEF v
  <2>2. /\ [r EXCEPT !.done = TRUE, !.version = v] \in Requests
        /\ [r EXCEPT !.done = TRUE, !.version = v].gen = r.gen
        /\ [r EXCEPT !.done = TRUE, !.version = v].kind = r.kind
    BY <2>1 DEF Requests
  <2>q. QED BY <2>2 DEF v
<1> HIDE DEF Broken
<1>3. reqs \in [Clients -> SUBSET Requests] BY DEF IInv, TypeOK
<1>4. TypeOK'
  <2>1. stream' \in [Clients -> Sockets] BY <1>1 DEF Down, Socket, Sockets, IInv, TypeOK
  <2>2. reqs' \in [Clients -> SUBSET Requests] BY <1>1, <1>2, <1>3
  <2>q. QED BY <1>1, <2>1, <2>2 DEF IInv, TypeOK
<1>5. ASSUME NEW c \in Clients PROVE ClientInv(c)'
  <2>1. LoadsInOrder(c)
    BY DEF IInv, ClientInv
  <2>2. reqs'[c] = {Broken(r) : r \in reqs[c]} BY <1>1
  <2>3. OfLoad(c)' = {Broken(r) : r \in OfLoad(c)} BY <1>1, <1>2, <1>3, <2>2 DEF OfLoad
  <2>4. ASSUME NEW x \in OfLoad(c)', Base(x)
        PROVE  hook[c].loading /\ hook[c].loadedClusters = {} /\ OfLoad(c)' = {x}
    <3>1. PICK r \in OfLoad(c) : x = Broken(r) BY <2>3
    <3>2. Base(r) BY <1>2, <1>3, <2>4, <3>1 DEF Base, OfLoad
    <3>3. OfLoad(c) = {r} /\ hook[c].loading /\ hook[c].loadedClusters = {}
      BY <2>1, <3>2 DEF LoadsInOrder
    <3>q. QED BY <2>3, <3>1, <3>3
  <2>5. \A x \in reqs'[c] : 1 <= x.gen /\ x.gen <= hook[c].gen
    BY <1>2, <1>3, <2>1, <2>2 DEF LoadsInOrder
  <2>6. LoadsInOrder(c)' BY <1>1, <2>1, <2>4, <2>5 DEF LoadsInOrder
  <2>7. LoadedMerged(c)' BY <1>1 DEF IInv, ClientInv, LoadedMerged
  <2>q. QED BY <1>1, <2>6, <2>7 DEF ClientInv, NotAhead, SocketFollows, NewsTravels
<1>6. (cache <= tree)' BY <1>1 DEF IInv, TypeOK
<1>q. QED BY <1>4, <1>5, <1>6 DEF IInv
-----------------------------------------------------------------------------
(* Explorers share nothing but the server: a step of one leaves what holds *)
(* of the others.                                                          *)
LEMMA OtherClient ==
    ASSUME IInv, UNCHANGED <<cache, recent, lost>>, NEW d \in Clients,
           stream'[d] = stream[d], hook'[d] = hook[d], reqs'[d] = reqs[d]
    PROVE  ClientInv(d)'
<1>1. LastStale' = LastStale BY LogUnmoved
<1>2. (OnItsWay(d)' <=> OnItsWay(d)) /\ (Behind(d)' <=> Behind(d)) /\ OfLoad(d)' = OfLoad(d)
  BY <1>1 DEF OnItsWay, Behind, Shown, OfLoad
<1>3. (Warned(d)' <=> Warned(d)) BY <1>2 DEF Warned
<1>4. LoadsInOrder(d)' /\ LoadedMerged(d)' /\ NotAhead(d)'
  BY <1>2 DEF IInv, ClientInv, LoadsInOrder, LoadedMerged, NotAhead
<1>5. SocketFollows(d)' BY <1>1, <1>2 DEF IInv, ClientInv, SocketFollows
<1>6. NewsTravels(d)' BY <1>2, <1>3 DEF IInv, ClientInv, NewsTravels
<1>q. QED BY <1>4, <1>5, <1>6 DEF ClientInv

LEMMA BannerUp ==
    ASSUME NEW h \in Hooks
    PROVE  LET up == [h EXCEPT !.stale = TRUE]
           IN  /\ up \in Hooks /\ up.stale
               /\ up.gen = h.gen /\ up.loading = h.loading /\ up.error = h.error
               /\ up.base = h.base /\ up.kids = h.kids
               /\ up.loadedClusters = h.loadedClusters
               /\ up.loadingClusters = h.loadingClusters
BY DEF Hooks

(* The socket: what it had to tell is told, kept, or due again.            *)
LEMMA SocketKeeps ==
    ASSUME IInv, NEW c \in Clients,
           Connect(c) \/ Disconnect(c) \/ CloseCleanly(c) \/ Poll(c) \/ Deliver(c)
    PROVE  IInv'
<1>0. /\ UNCHANGED <<tree, cache, recent, reqs, lost>> /\ LastStale' = LastStale
      /\ LastStale \in Nat /\ stream \in [Clients -> Sockets] /\ hook \in [Clients -> Hooks]
      /\ stream[c].inbox \in Nat /\ stream[c].marker \in Nat
  BY LogUnmoved, LastStaleTyped DEF Connect, Disconnect, CloseCleanly, Close, Poll, Deliver, IInv, TypeOK, Sockets
<1>o. ASSUME NEW new \in Sockets, stream' = [stream EXCEPT ![c] = new],
             hook' = hook \/ hook' = [hook EXCEPT ![c].stale = TRUE],
             lost \/ /\ Warned(c) => Warned(c)'
                     /\ new.marker <= LastStale /\ (OnItsWay(c)' => LastStale # 0)
      PROVE  IInv'
  <2>1. /\ \A d \in Clients \ {c} : hook'[d] = hook[d] /\ stream'[d] = stream[d]
        /\ stream'[c] = new /\ stream' \in [Clients -> Sockets]
    BY <1>0, <1>o
  <2>2. hook[c] \in Hooks BY <1>0
  <2>3. /\ hook' \in [Clients -> Hooks]
        /\ hook'[c].gen = hook[c].gen /\ hook'[c].loading = hook[c].loading
        /\ hook'[c].error = hook[c].error /\ hook'[c].base = hook[c].base
        /\ hook'[c].kids = hook[c].kids /\ hook'[c].loadedClusters = hook[c].loadedClusters
        /\ hook'[c].loadingClusters = hook[c].loadingClusters
    <3>1. CASE hook' = hook BY <1>0, <3>1
    <3>2. CASE hook' = [hook EXCEPT ![c].stale = TRUE]
      <4> DEFINE up == [hook[c] EXCEPT !.stale = TRUE]
      <4>1. hook' = [hook EXCEPT ![c] = up] BY <3>2
      <4>2. /\ up \in Hooks
            /\ up.gen = hook[c].gen /\ up.loading = hook[c].loading /\ up.error = hook[c].error
            /\ up.base = hook[c].base /\ up.kids = hook[c].kids
            /\ up.loadedClusters = hook[c].loadedClusters
            /\ up.loadingClusters = hook[c].loadingClusters
        BY <2>2, BannerUp
      <4> HIDE DEF up
      <4>q. QED BY <1>0, <4>1, <4>2
    <3>q. QED BY <1>o, <3>1, <3>2
  <2>4. TypeOK' BY <1>0, <2>1, <2>3 DEF IInv, TypeOK
  <2>5. LoadsInOrder(c)' /\ LoadedMerged(c)' /\ NotAhead(c)'
    BY <1>0, <2>3 DEF IInv, ClientInv, LoadsInOrder, LoadedMerged, NotAhead, OfLoad
  <2>6. SocketFollows(c)' BY <1>0, <1>o, <2>1 DEF SocketFollows
  <2>7. OfLoad(c)' = OfLoad(c) /\ (Behind(c)' <=> Behind(c)) BY <1>0, <2>3 DEF OfLoad, Behind, Shown
  <2>8. NewsTravels(c)' BY <1>0, <1>o, <2>7 DEF IInv, ClientInv, NewsTravels
  <2>9. \A d \in Clients : ClientInv(d)' BY <1>0, <2>1, <2>5, <2>6, <2>8, OtherClient DEF ClientInv
  <2>q. QED BY <1>0, <2>4, <2>9 DEF IInv
<1>s. lost \/ (stream[c].marker <= LastStale /\ (OnItsWay(c) => LastStale # 0))
  BY DEF IInv, ClientInv, SocketFollows
<1>1. ASSUME NEW s \in {"down", "up"}, hook' = hook, stream[c].state # "ended",
             stream' = [stream EXCEPT ![c] = Socket(s)]
      PROVE  IInv'
  <2>1. /\ Socket(s) \in Sockets /\ Socket(s).marker = 0 /\ Socket(s).inbox = 0
        /\ Socket(s).state = s
    BY DEF Sockets, Socket
  <2>2. stream'[c] = Socket(s) BY <1>0, <1>1
  <2>3. OnItsWay(c)' <=> LastStale # 0 BY <1>0, <2>1, <2>2 DEF OnItsWay
  <2>4. lost \/ (Warned(c) => Warned(c)') BY <1>s, <1>1, <2>3 DEF Warned
  <2>5. Socket(s).marker <= LastStale BY <1>0, <2>1
  <2>q. QED BY <1>o, <1>1, <2>1, <2>3, <2>4, <2>5
<1>5. CASE Connect(c) BY <1>1, <1>5 DEF Connect
<1>6. CASE Disconnect(c) BY <1>1, <1>6 DEF Disconnect, Close
<1>2. CASE CloseCleanly(c)
  <2>1. hook' = hook /\ stream' = [stream EXCEPT ![c] = Socket("ended")]
    BY <1>2 DEF CloseCleanly, Close
  <2>2. /\ Socket("ended") \in Sockets /\ Socket("ended").marker = 0
        /\ Socket("ended").inbox = 0 /\ Socket("ended").state = "ended"
    BY DEF Sockets, Socket
  <2>3. stream'[c] = Socket("ended") BY <1>0, <2>1
  <2>4. ~OnItsWay(c)' /\ Warned(c)' BY <2>2, <2>3 DEF OnItsWay, Warned
  <2>5. Socket("ended").marker <= LastStale BY <1>0, <2>2
  <2>q. QED BY <1>o, <2>1, <2>2, <2>4, <2>5
<1>3. CASE Poll(c)
  <2> DEFINE new == [stream[c] EXCEPT !.marker = LastStale, !.inbox = stream[c].inbox + 1]
  <2>1. hook' = hook /\ stream' = [stream EXCEPT ![c] = new] BY <1>0, <1>3 DEF Poll, Marker
  <2>5. new \in Sockets /\ new.marker = LastStale /\ new.inbox = stream[c].inbox + 1
    <3>1. stream[c] \in Sockets /\ stream[c].inbox + 1 \in Nat BY <1>0
    <3>2. \A m, n \in Nat : LET told == [stream[c] EXCEPT !.marker = m, !.inbox = n]
                            IN  told \in Sockets /\ told.marker = m /\ told.inbox = n
      BY <3>1 DEF Sockets
    <3>q. QED BY <1>0, <3>1, <3>2, Zenon
  <2> HIDE DEF new
  <2>2. stream'[c] = new BY <1>0, <2>1
  <2>3. LastStale # 0 BY <1>3 DEF Poll, Marker
  <2>6. stream'[c].inbox > 0 BY <1>0, <2>2, <2>5
  <2>4. OnItsWay(c)' BY <2>6 DEF OnItsWay
  <2>7. new.marker <= LastStale BY <1>0, <2>5
  <2>q. QED BY <1>o, <2>1, <2>3, <2>4, <2>5, <2>7 DEF Warned
<1>4. CASE Deliver(c)
  <2> DEFINE new == [stream[c] EXCEPT !.inbox = stream[c].inbox - 1]
  <2>1. /\ hook' = [hook EXCEPT ![c].stale = TRUE] /\ stream' = [stream EXCEPT ![c] = new]
        /\ stream[c].inbox > 0
    BY <1>0, <1>4 DEF Deliver
  <2>2. /\ new \in Sockets /\ stream'[c] = new /\ new.marker = stream[c].marker
        /\ new.state = stream[c].state
    BY <1>0, <2>1 DEF Sockets
  <2> HIDE DEF new
  <2>3. hook'[c].stale BY <1>0, <2>1 DEF Hooks
  <2>4. OnItsWay(c) BY <2>1 DEF OnItsWay
  <2>q. QED BY <1>o, <1>s, <2>1, <2>2, <2>3, <2>4 DEF Warned
<1>q. QED BY <1>2, <1>3, <1>4, <1>5, <1>6

(* Steps of the hook: one explorer's state and requests.                   *)
LEMMA HookStep ==
    ASSUME IInv, NEW c \in Clients, NEW new \in Hooks, NEW rs \in SUBSET Requests,
           hook' = [hook EXCEPT ![c] = new], reqs' = [reqs EXCEPT ![c] = rs],
           UNCHANGED <<tree, cache, recent, stream, lost>>,
           new.loadedClusters \cap new.loadingClusters = {},
           LoadsInOrder(c)', LoadedMerged(c)', NotAhead(c)', NewsTravels(c)'
    PROVE  IInv'
<1>1. /\ hook' \in [Clients -> Hooks] /\ reqs' \in [Clients -> SUBSET Requests]
      /\ hook'[c] = new /\ \A d \in Clients \ {c} : hook'[d] = hook[d] /\ reqs'[d] = reqs[d]
  BY DEF IInv, TypeOK
<1>2. TypeOK' BY <1>1 DEF IInv, TypeOK
<1>3. LastStale' = LastStale BY LogUnmoved
<1>4. (OnItsWay(c)' <=> OnItsWay(c)) BY <1>3 DEF OnItsWay
<1>5. SocketFollows(c)' BY <1>3, <1>4 DEF IInv, ClientInv, SocketFollows
<1>6. \A d \in Clients : ClientInv(d)' BY <1>1, <1>5, OtherClient DEF ClientInv
<1>q. QED BY <1>2, <1>6 DEF IInv

(* A load begins a generation of its own: nothing that is under way is of  *)
(* it, and nothing is shown until it is answered.                          *)
LEMMA LoadKeeps ==
    ASSUME IInv, NEW c \in Clients, NEW h \in Hooks, h.gen = hook[c].gen, h.base = hook[c].base,
           LoadBaseGraph(c, h)
    PROVE  IInv'
<1> DEFINE new == Loading(h)
           r == [gen |-> hook[c].gen + 1, kind |-> Depth(h), done |-> FALSE, version |-> 0]
           rs == reqs[c] \cup {r}
<1>1. /\ hook' = [hook EXCEPT ![c] = new] /\ reqs' = [reqs EXCEPT ![c] = rs]
      /\ hook[c].gen < MaxGen /\ UNCHANGED <<tree, cache, recent, stream, lost>>
  BY DEF LoadBaseGraph, Request
<1>2. /\ hook \in [Clients -> Hooks] /\ reqs \in [Clients -> SUBSET Requests]
      /\ hook[c].gen \in Nat /\ hook[c].gen + 1 \in 0..MaxGen
      /\ \A x \in reqs[c] : x.gen \in Nat /\ 1 <= x.gen /\ x.gen <= hook[c].gen
  BY <1>1 DEF IInv, TypeOK, ClientInv, LoadsInOrder, Hooks, Requests
<1>3. /\ new \in Hooks /\ new.gen = hook[c].gen + 1 /\ new.loading /\ new.loadedClusters = {}
      /\ new.base = hook[c].base
  BY <1>2 DEF Loading, Hooks
<1>4. r \in Requests /\ r.gen = hook[c].gen + 1 /\ ~r.done /\ r.version = 0
  BY <1>2 DEF Requests, Kinds, Depth
<1> HIDE DEF new, r
<1>5. hook'[c] = new /\ reqs'[c] = rs BY <1>1, <1>2
<1>6. OfLoad(c)' = {r}
  <2>1. \A x \in reqs[c] : x.gen # hook[c].gen + 1 BY <1>2
  <2>q. QED BY <1>3, <1>4, <1>5, <2>1 DEF OfLoad
<1>7. LoadsInOrder(c)'
  <2>1. \A x \in rs : 1 <= x.gen /\ x.gen <= hook[c].gen + 1 BY <1>2, <1>4
  <2>q. QED BY <1>2, <1>3, <1>5, <1>6, <2>1 DEF LoadsInOrder
<1>8. LoadedMerged(c)' BY <1>3, <1>5 DEF LoadedMerged
<1>9. NotAhead(c)'
  <2>1. r.version <= cache BY <1>4 DEF IInv, TypeOK
  <2>q. QED BY <1>1, <1>3, <1>5, <2>1 DEF IInv, ClientInv, NotAhead
<1>10. NewsTravels(c)' BY <1>3, <1>4, <1>5, <1>6 DEF NewsTravels, Behind, Shown
<1>11. rs \in SUBSET Requests BY <1>2, <1>4
<1> HIDE DEF rs
<1>12. new.loadedClusters \cap new.loadingClusters = {} BY <1>3
<1>q. QED BY <1>1, <1>3, <1>7, <1>8, <1>9, <1>10, <1>11, <1>12, HookStep

(* A cluster is asked for while the graph is shown: no graph of this load  *)
(* is under way.                                                           *)
LEMMA ExpandKeeps ==
    ASSUME IInv, NEW c \in Clients, NEW k \in Clusters, ExpandCluster(c, k)
    PROVE  IInv'
<1> DEFINE new == [hook[c] EXCEPT !.loadingClusters = hook[c].loadingClusters \cup {k}]
           r == [gen |-> hook[c].gen, kind |-> k, done |-> FALSE, version |-> 0]
           rs == reqs[c] \cup {r}
<1>0. hook \in [Clients -> Hooks] /\ reqs \in [Clients -> SUBSET Requests] /\ hook[c] \in Hooks
  BY DEF IInv, TypeOK
<1>1. /\ hook' = [hook EXCEPT ![c] = new] /\ reqs' = [reqs EXCEPT ![c] = rs]
      /\ Shown(c) /\ k \notin hook[c].loadedClusters \cup hook[c].loadingClusters
      /\ UNCHANGED <<tree, cache, recent, stream, lost>>
  BY <1>0 DEF ExpandCluster, Expandable, Request
<1>2. /\ new \in Hooks /\ new.gen = hook[c].gen /\ new.loading = hook[c].loading
      /\ new.error = hook[c].error /\ new.stale = hook[c].stale
      /\ new.base = hook[c].base /\ new.kids = hook[c].kids
      /\ new.loadedClusters = hook[c].loadedClusters
      /\ new.loadingClusters = hook[c].loadingClusters \cup {k}
  BY <1>0 DEF Hooks
<1>3. ~hook[c].loading /\ hook[c].gen # 0 /\ hook[c].gen \in Nat
  BY <1>0, <1>1 DEF Shown, IInv, ClientInv, LoadsInOrder, Hooks
<1>4. r \in Requests /\ r.gen = hook[c].gen /\ ~r.done /\ r.version = 0 /\ r.kind = k
  BY <1>0 DEF Requests, Kinds, Hooks
<1> HIDE DEF new, r
<1>5. hook'[c] = new /\ reqs'[c] = rs BY <1>0, <1>1
<1>6. OfLoad(c)' = OfLoad(c) \cup {r} BY <1>2, <1>4, <1>5 DEF OfLoad
<1>7. \A x \in OfLoad(c)' : ~Base(x)
  BY <1>3, <1>4, <1>6 DEF IInv, ClientInv, LoadsInOrder, Base
<1>8. LoadsInOrder(c)'
  <2>1. \A x \in rs : 1 <= x.gen /\ x.gen <= hook[c].gen
    BY <1>3, <1>4 DEF IInv, ClientInv, LoadsInOrder
  <2>q. QED BY <1>2, <1>3, <1>5, <1>7, <2>1 DEF LoadsInOrder
<1>9. LoadedMerged(c)' BY <1>2, <1>5 DEF IInv, ClientInv, LoadedMerged
<1>10. NotAhead(c)'
  <2>1. r.version <= cache BY <1>4 DEF IInv, TypeOK
  <2>q. QED BY <1>1, <1>2, <1>5, <2>1 DEF IInv, ClientInv, NotAhead
<1>11. NewsTravels(c)'
  <2>1. LastStale' = LastStale BY <1>1, LogUnmoved
  <2>2. (Warned(c)' <=> Warned(c)) /\ (Behind(c)' <=> Behind(c))
    BY <1>1, <1>2, <1>5, <2>1 DEF Warned, OnItsWay, Behind, Shown
  <2>q. QED BY <1>1, <1>7, <2>2 DEF IInv, ClientInv, NewsTravels
<1>12. rs \in SUBSET Requests BY <1>0, <1>4
<1> HIDE DEF rs
<1>13. new.loadedClusters \cap new.loadingClusters = {} BY <1>1, <1>2 DEF IInv, TypeOK
<1>q. QED BY <1>1, <1>2, <1>8, <1>9, <1>10, <1>11, <1>12, <1>13, HookStep

(* An answer is taken out of its request.  What the hook makes of it may   *)
(* not touch what the others look at.                                      *)
LEMMA TakenOut ==
    ASSUME IInv, NEW c \in Clients, NEW r \in reqs[c], NEW new \in Hooks,
           hook' = [hook EXCEPT ![c] = new], reqs' = [reqs EXCEPT ![c] = reqs[c] \ {r}],
           UNCHANGED <<cache, recent, stream, lost>>, new.gen = hook[c].gen
    PROVE  /\ hook'[c] = new /\ reqs'[c] = reqs[c] \ {r} /\ hook[c].gen > 0
           /\ OfLoad(c)' = OfLoad(c) \ {r}
           /\ OnItsWay(c)' <=> OnItsWay(c)
           /\ \A x \in reqs'[c] : 1 <= x.gen /\ x.gen <= hook[c].gen
           /\ lost \/ \A x \in reqs'[c] : x.version <= cache
<1>1. hook \in [Clients -> Hooks] /\ reqs \in [Clients -> SUBSET Requests] BY DEF IInv, TypeOK
<1>2. hook'[c] = new /\ reqs'[c] = reqs[c] \ {r} BY <1>1
<1>3. LoadsInOrder(c) /\ NotAhead(c) BY DEF IInv, ClientInv
<1>4. hook[c].gen > 0
  <2>1. r.gen \in Nat /\ hook[c].gen \in Nat BY <1>1 DEF Requests, Hooks
  <2>q. QED BY <1>3, <2>1 DEF LoadsInOrder
<1>5. LastStale' = LastStale BY LogUnmoved
<1>6. OnItsWay(c)' <=> OnItsWay(c) BY <1>5 DEF OnItsWay
<1>7. OfLoad(c)' = OfLoad(c) \ {r} BY <1>2 DEF OfLoad
<1>q. QED BY <1>2, <1>3, <1>4, <1>6, <1>7 DEF LoadsInOrder, NotAhead

LEMMA ReceiveKeeps ==
    ASSUME IInv, NEW c \in Clients, NEW r \in reqs[c], Receive(c, r)
    PROVE  IInv'
<1>0. /\ hook \in [Clients -> Hooks] /\ reqs \in [Clients -> SUBSET Requests]
      /\ hook[c] \in Hooks /\ r \in Requests /\ cache \in 0..MaxTree
      /\ hook[c].loadedClusters \cap hook[c].loadingClusters = {}
  BY DEF IInv, TypeOK
<1>1. /\ reqs' = [reqs EXCEPT ![c] = reqs[c] \ {r}] /\ r.done
      /\ reqs[c] \ {r} \in SUBSET Requests
      /\ UNCHANGED <<tree, cache, recent, stream, lost>>
  BY <1>0 DEF Receive
<1>2. LoadsInOrder(c) /\ LoadedMerged(c) /\ NotAhead(c) /\ NewsTravels(c) BY DEF IInv, ClientInv
<1>a. CASE UNCHANGED hook /\ ~OfThisGeneration(c, r)
  <2>1. hook' = [hook EXCEPT ![c] = hook[c]] BY <1>0, <1>a
  <2>2. /\ OfLoad(c)' = OfLoad(c) \ {r} /\ (OnItsWay(c)' <=> OnItsWay(c)) /\ hook[c].gen > 0
        /\ \A x \in reqs'[c] : 1 <= x.gen /\ x.gen <= hook[c].gen
        /\ lost \/ \A x \in reqs'[c] : x.version <= cache
    BY <1>0, <1>1, <2>1, TakenOut
  <2>3. OfLoad(c)' = OfLoad(c) BY <1>a, <2>2 DEF OfLoad, OfThisGeneration
  <2>4. LoadsInOrder(c)' BY <1>2, <1>a, <2>2, <2>3 DEF LoadsInOrder
  <2>5. LoadedMerged(c)' BY <1>2, <1>a DEF LoadedMerged
  <2>6. NotAhead(c)' BY <1>1, <1>2, <1>a, <2>2 DEF NotAhead
  <2>7. (Warned(c)' <=> Warned(c)) /\ (Behind(c)' <=> Behind(c))
    BY <1>1, <1>a, <2>2 DEF Warned, Behind, Shown
  <2>8. NewsTravels(c)' BY <1>1, <1>2, <2>3, <2>7 DEF NewsTravels
  <2>q. QED BY <1>0, <1>1, <2>1, <2>4, <2>5, <2>6, <2>8, HookStep
<1>b. ASSUME OfThisGeneration(c, r), hook' = [hook EXCEPT ![c] = Received(hook[c], r)], ~Base(r)
      PROVE  IInv'
  <2> DEFINE new == Received(hook[c], r)
  <2>0. r.kind \in Clusters /\ r.version \in 0..MaxTree BY <1>0, <1>b DEF Base, Requests
  <2>1. /\ new \in Hooks /\ new.gen = hook[c].gen /\ new.loading = hook[c].loading
        /\ new.error = hook[c].error /\ new.stale = hook[c].stale /\ new.base = hook[c].base
        /\ new.loadingClusters = hook[c].loadingClusters \ {r.kind}
        /\ \/ new.loadedClusters = hook[c].loadedClusters /\ new.kids = hook[c].kids
           \/ /\ new.loadedClusters = hook[c].loadedClusters \cup {r.kind}
              /\ r.version # 0 /\ new.kids = [hook[c].kids EXCEPT ![r.kind] = r.version]
    <3>1. CASE r.version = 0
      <4>1. new = [hook[c] EXCEPT !.loadingClusters = hook[c].loadingClusters \ {r.kind}]
        BY <1>0, <2>0, <3>1 DEF Received
      <4>q. QED BY <1>0, <2>0, <4>1 DEF Hooks
    <3>2. CASE r.version # 0
      <4>1. new = Merged(hook[c], r.kind, r.version) BY <2>0, <3>2 DEF Received
      <4> HIDE DEF new
      <4>q. QED BY <1>0, <2>0, <3>2, <4>1 DEF Hooks, Merged
    <3>q. QED BY <3>1, <3>2
  <2>2. hook' = [hook EXCEPT ![c] = new] BY <1>b
  <2> HIDE DEF new
  <2>3. /\ OfLoad(c)' = OfLoad(c) \ {r} /\ (OnItsWay(c)' <=> OnItsWay(c)) /\ hook[c].gen > 0
        /\ hook'[c] = new /\ \A x \in reqs'[c] : 1 <= x.gen /\ x.gen <= hook[c].gen
        /\ lost \/ \A x \in reqs'[c] : x.version <= cache
    BY <1>0, <1>1, <2>1, <2>2, TakenOut
  <2>4. \A x \in OfLoad(c)' : ~Base(x)
    <3>1. r \in OfLoad(c) BY <1>b DEF OfLoad, OfThisGeneration
    <3>2. ASSUME NEW x \in OfLoad(c), Base(x) PROVE FALSE
      BY <1>2, <1>b, <3>1, <3>2 DEF LoadsInOrder
    <3>q. QED BY <2>3, <3>2
  <2>5. LoadsInOrder(c)' BY <2>1, <2>3, <2>4 DEF LoadsInOrder
  <2>6. LoadedMerged(c)'
    <3>1. hook[c].kids \in [Clusters -> 0..MaxTree] /\ hook[c].loadedClusters \subseteq Clusters
      BY <1>0 DEF Hooks
    <3>2. ASSUME NEW k \in new.loadedClusters PROVE new.kids[k] # 0
      BY <1>2, <2>0, <2>1, <3>1 DEF LoadedMerged
    <3>q. QED BY <2>3, <3>2 DEF LoadedMerged
  <2>7. NotAhead(c)' BY <1>1, <1>2, <2>1, <2>3 DEF NotAhead
  <2>8. (Warned(c)' <=> Warned(c)) /\ (Behind(c)' <=> Behind(c))
    BY <1>1, <2>1, <2>3 DEF Warned, Behind, Shown
  <2>9. NewsTravels(c)' BY <1>1, <1>2, <2>4, <2>8 DEF NewsTravels
  <2>10. new.loadedClusters \cap new.loadingClusters = {} BY <1>0, <2>1
  <2>q. QED BY <1>0, <1>1, <2>1, <2>2, <2>5, <2>6, <2>7, <2>9, <2>10, HookStep
<1>c. ASSUME OfThisGeneration(c, r), hook' = [hook EXCEPT ![c] = Received(hook[c], r)], Base(r)
      PROVE  IInv'
  <2> DEFINE new == Received(hook[c], r)
  <2>0. r.version \in 0..MaxTree BY <1>0 DEF Requests
  <2>h. r \in OfLoad(c) /\ hook[c].loadedClusters = {} /\ OfLoad(c) = {r}
    <3>1. r \in OfLoad(c) BY <1>c DEF OfLoad, OfThisGeneration
    <3>q. QED BY <1>2, <1>c, <3>1 DEF LoadsInOrder
  <2>1. /\ new \in Hooks /\ new.gen = hook[c].gen /\ new.loading = FALSE
        /\ new.stale = hook[c].stale /\ new.loadedClusters = hook[c].loadedClusters
        /\ \/ new.error = TRUE /\ new.base = hook[c].base
           \/ new.base = r.version /\ r.version # 0
    <3>1. CASE r.version = 0
      <4>1. new = [hook[c] EXCEPT !.error = TRUE, !.loading = FALSE]
        BY <1>c, <3>1 DEF Received, Base
      <4> HIDE DEF new
      <4>q. QED BY <1>0, <4>1 DEF Hooks
    <3>2. CASE r.version # 0
      <4>1. new = Based(hook[c], r.version) BY <1>c, <3>2 DEF Received, Base
      <4>2. NoKids \in [Clusters -> 0..MaxTree] BY DEF NoKids
      <4> HIDE DEF new
      <4>q. QED BY <1>0, <2>0, <3>2, <4>1, <4>2 DEF Hooks, Based
    <3>q. QED BY <3>1, <3>2
  <2>2. hook' = [hook EXCEPT ![c] = new] BY <1>c
  <2> HIDE DEF new
  <2>3. /\ OfLoad(c)' = OfLoad(c) \ {r} /\ (OnItsWay(c)' <=> OnItsWay(c)) /\ hook[c].gen > 0
        /\ hook'[c] = new /\ \A x \in reqs'[c] : 1 <= x.gen /\ x.gen <= hook[c].gen
        /\ lost \/ \A x \in reqs'[c] : x.version <= cache
    BY <1>0, <1>1, <2>1, <2>2, TakenOut
  <2>4. OfLoad(c)' = {} BY <2>h, <2>3
  <2>5. LoadsInOrder(c)' BY <2>1, <2>3, <2>4 DEF LoadsInOrder
  <2>6. LoadedMerged(c)' BY <2>h, <2>1, <2>3 DEF LoadedMerged
  <2>7. NotAhead(c)' BY <1>1, <1>2, <2>1, <2>3 DEF NotAhead
  <2>8. Warned(c)' <=> Warned(c) BY <1>1, <2>1, <2>3 DEF Warned
  <2>9. lost \/ (Behind(c)' => Warned(c)')
    <3>1. ASSUME ~lost, Behind(c)' PROVE Warned(c)
      <4>1. 0 < new.base /\ new.base < cache /\ new.error # TRUE
        BY <1>1, <2>3, <3>1 DEF Behind, Shown
      <4>2. new.base = r.version BY <2>1, <4>1
      <4>q. QED BY <1>1, <1>2, <1>c, <2>h, <3>1, <4>1, <4>2 DEF NewsTravels
    <3>q. QED BY <2>8, <3>1
  <2>10. NewsTravels(c)' BY <1>1, <2>4, <2>9 DEF NewsTravels
  <2>11. new.loadedClusters \cap new.loadingClusters = {} BY <2>h, <2>1
  <2>q. QED BY <1>0, <1>1, <2>1, <2>2, <2>5, <2>6, <2>7, <2>10, <2>11, HookStep
<1>q. QED BY <1>a, <1>b, <1>c DEF Receive

LEMMA StepIInv == IInv /\ [Next]_vars => IInv'
<1> SUFFICES ASSUME IInv, [Next]_vars PROVE IInv' OBVIOUS
<1>0. /\ TypeOK /\ cache <= tree /\ tree \in 1..MaxTree /\ cache \in 0..MaxTree
      /\ hook \in [Clients -> Hooks]
  BY DEF IInv, TypeOK
<1>1. CASE LogOther
  <2>1. /\ recent' = Logged(0) /\ lost' = (lost \/ OutOfWindow) /\ 0 \in Nat
        /\ UNCHANGED <<tree, cache, stream, hook, reqs>>
    BY <1>1 DEF LogOther
  <2>2. CacheMoves BY <1>0, <2>1, LogMoves DEF CacheMoves, TypeOK
  <2>q. QED BY <1>0, <2>1, <2>2, ServerKeeps
<1>2. CASE EditTree
  <2>1. /\ tree' \in 1..MaxTree /\ tree <= tree'
        /\ UNCHANGED <<cache, recent, stream, hook, reqs, lost>>
    BY <1>0, <1>2 DEF EditTree
  <2>2. CacheMoves BY <1>0, <2>1, ServerMoves
  <2>3. cache' <= tree' BY <1>0, <2>1
  <2>q. QED BY <2>1, <2>2, <2>3, ServerKeeps
<1>3. CASE OtherOverview
  BY <1>0, <1>3, ServerMoves, ServerKeeps DEF OtherOverview
<1>4. CASE Restart BY <1>4, RestartKeeps
<1>5. ASSUME NEW c \in Clients,
             Connect(c) \/ Disconnect(c) \/ CloseCleanly(c) \/ Poll(c) \/ Deliver(c)
      PROVE  IInv'
  BY <1>5, SocketKeeps
<1>6. ASSUME NEW c \in Clients, Mount(c) \/ Reload(c) \/ RequestFull(c)
      PROVE  IInv'
  <2>1. hook[c] \in Hooks BY <1>0
  <2>2. LET h == [hook[c] EXCEPT !.full = TRUE]
        IN  h \in Hooks /\ h.gen = hook[c].gen /\ h.base = hook[c].base
    BY <2>1 DEF Hooks
  <2>q. QED BY <1>6, <2>1, <2>2, LoadKeeps DEF Mount, Reload, RequestFull
<1>7. ASSUME NEW c \in Clients, NEW k \in Clusters, ExpandCluster(c, k) PROVE IInv'
  BY <1>7, ExpandKeeps
<1>8. ASSUME NEW c \in Clients, NEW r \in reqs[c], Answer(c, r) PROVE IInv'
  <2>1. UNCHANGED <<tree, stream, hook>> BY <1>8 DEF Answer
  <2>2. PICK v \in {0, cache'} :
            /\ Answered(c, r, v)
            /\ Refresh \/ RefreshFails \/ Build \/ UNCHANGED <<cache, recent, lost>>
    BY <1>8 DEF Answer
  <2>3. CacheMoves /\ cache' <= tree BY <1>0, <2>2, ServerMoves
  <2>q. QED BY <2>1, <2>2, <2>3, AnswerKeeps
<1>9. ASSUME NEW c \in Clients, NEW r \in reqs[c], Receive(c, r) PROVE IInv'
  BY <1>9, ReceiveKeeps
<1>10. CASE UNCHANGED vars
  <2>1. CacheMoves BY <1>0, <1>10, ServerMoves DEF vars
  <2>q. QED BY <1>0, <1>10, <2>1, ServerKeeps DEF vars
<1>q. QED BY <1>1, <1>2, <1>3, <1>4, <1>5, <1>6, <1>7, <1>8, <1>9, <1>10 DEF Next

THEOREM Invariant == Spec => []IInv
BY InitIInv, StepIInv, PTL DEF Spec
-----------------------------------------------------------------------------
(* Every variable keeps its type, and no cluster is both loaded and being  *)
(* loaded, whatever answers arrive late.                                   *)
THEOREM TypeCorrect == Spec => []TypeOK
<1>1. IInv => TypeOK BY DEF IInv
<1>q. QED BY <1>1, Invariant, PTL

(* An explorer that shows an older analysis than the server's is warned or *)
(* about to be, unless the server lost a stale event or its socket was     *)
(* closed cleanly, and every cluster that counts as loaded is in the graph *)
(* on the screen.                                                          *)
THEOREM NewsArrives == Spec => []FreshOrWarned
<1>1. IInv => FreshOrWarned
  BY DEF IInv, ClientInv, LoadedMerged, NewsTravels, Warned, FreshOrWarned, LoadedClustersShown,
     CutOff
<1>q. QED BY <1>1, Invariant, PTL

------------------------------------------------------------------------------
(* What the explorer draws and the toolbench gathers: the project graph.   *)
(* First, as in EngineProofs, recursive functions, and what sequences and  *)
(* their elements are.                                                     *)
HIDE FreshnessAssumption

(* What repeats a step n times, from a, has values for all of them: the    *)
(* recursive functions of the models are of this form.                     *)
Repetition(w, S, a, n, next) ==
    w \in [0..n -> S] /\ w[0] = a /\ \A i \in 1..n : w[i] = next[<<w[i - 1], i>>]

LEMMA Repeated ==
    ASSUME NEW S, NEW a \in S, NEW n \in Nat, NEW next \in [S \X (1..n) -> S]
    PROVE  \E w : Repetition(w, S, a, n, next)
<1> USE DEF Repetition
<1> DEFINE Right(w, m) == w[0] = a /\ \A i \in 1..m : w[i] = next[<<w[i - 1], i>>]
           B == {m \in 0..n : ~\E w \in [0..m -> S] : Right(w, m)}
<1>1. CASE B = {}
  <2>1. n \in 0..n OBVIOUS
  <2>q. QED BY <1>1, <2>1
<1>2. CASE B # {}
  <2>1. PICK m \in B : \A k \in B : m <= k
    <3>1. B \in SUBSET Nat OBVIOUS
    <3>q. QED BY <1>2, <3>1, LeastNat
  <2>2. m \in 0..n /\ ~\E w \in [0..m -> S] : Right(w, m) BY <2>1
  <2>3. CASE m = 0
    <3> DEFINE w == [i \in 0..0 |-> a]
    <3>1. w \in [0..0 -> S] /\ Right(w, 0) OBVIOUS
    <3>q. QED BY <2>2, <2>3, <3>1
  <2>4. CASE m # 0
    <3>1. m - 1 \in 0..n /\ m \in 1..n /\ ~(m <= m - 1) BY <2>2, <2>4
    <3>2. m - 1 \notin B BY <2>1, <3>1
    <3>3. PICK w \in [0..(m - 1) -> S] : Right(w, m - 1) BY <3>1, <3>2
    <3> DEFINE longer == [i \in 0..m |-> IF i = m THEN next[<<w[m - 1], m>>] ELSE w[i]]
    <3>4. w[m - 1] \in S /\ next[<<w[m - 1], m>>] \in S BY <3>1, <3>3
    <3>5. longer \in [0..m -> S]
      <4>1. \A i \in 0..m : i # m => i \in 0..(m - 1) BY <3>1
      <4>q. QED BY <3>3, <3>4, <4>1
    <3>6. longer[0] = a BY <3>1, <3>3
    <3>7. ASSUME NEW i \in 1..m PROVE longer[i] = next[<<longer[i - 1], i>>]
      <4>1. i - 1 \in 0..m /\ i - 1 # m /\ longer[i - 1] = w[i - 1] BY <3>1
      <4>2. CASE i = m BY <4>1, <4>2
      <4>3. CASE i # m
        <5>1. i \in 1..(m - 1) /\ i \in 0..m BY <3>1, <4>3
        <5>2. w[i] = next[<<w[i - 1], i>>] BY <3>3, <5>1
        <5>q. QED BY <4>1, <4>3, <5>1, <5>2
      <4>q. QED BY <4>2, <4>3
    <3>8. Right(longer, m) BY <3>6, <3>7
    <3>q. QED BY <2>2, <3>5, <3>8
  <2>q. QED BY <2>3, <2>4
<1>q. QED BY <1>1, <1>2

LEMMA SameElements ==
    ASSUME NEW S, NEW s \in Seq(S), NEW t \in Seq(S), Len(s) = Len(t), \A i \in 1..Len(s) : s[i] = t[i]
    PROVE  s = t
OBVIOUS

(* SetToSeq of a finite set is its elements, each once.                    *)
LEMMA EachInSeq ==
    ASSUME NEW S, IsFiniteSet(S)
    PROVE  /\ SetToSeq(S) \in Seq(S)
           /\ \A i, j \in DOMAIN SetToSeq(S) : SetToSeq(S)[i] = SetToSeq(S)[j] => i = j
           /\ {SetToSeq(S)[i] : i \in DOMAIN SetToSeq(S)} = S
<1>1. PICK l \in Nat : l = Cardinality(S) /\ ExistsBijection(1..l, S) BY FS_CardinalityType
<1>2. \E f \in [1..l -> S] : IsInjective(f)
  BY <1>1 DEF ExistsBijection, Bijection, Injection, IsInjective
<1>3. PICK f \in [1..l -> S] : f = SetToSeq(S) /\ IsInjective(f) BY <1>1, <1>2 DEF SetToSeq
<1>4. \A i, j \in 1..l : f[i] = f[j] => i = j BY <1>3 DEF IsInjective
<1>5. f \in Injection(1..l, S) BY <1>3, <1>4 DEF Injection, IsInjective
<1>6. IsFiniteSet(1..l) /\ Cardinality(1..l) = l BY <1>1, FS_Interval
<1>7. f \in Surjection(1..l, S) BY <1>1, <1>5, <1>6, FS_Injection
<1>8. {f[i] : i \in 1..l} = S BY <1>3, <1>7 DEF Surjection
<1>9. f \in Seq(S)
  <2>1. \A n \in Nat : \A u : u \in [1..n -> S] => u \in Seq(S) OBVIOUS
  <2>q. QED BY <1>1, <2>1
<1>q. QED BY <1>3, <1>4, <1>8, <1>9

LEMMA Flattened ==
    ASSUME NEW M, NEW seqs \in Seq(Seq(M))
    PROVE  /\ FlattenSeq(seqs) \in Seq(M)
           /\ \A k \in DOMAIN FlattenSeq(seqs) : \E a \in DOMAIN seqs : \E b \in DOMAIN seqs[a] :
                  FlattenSeq(seqs)[k] = seqs[a][b]
           /\ \A a \in DOMAIN seqs : \A b \in DOMAIN seqs[a] : \E k \in DOMAIN FlattenSeq(seqs) :
                  FlattenSeq(seqs)[k] = seqs[a][b]
<1>1. PICK n \in Nat : n = Len(seqs) /\ DOMAIN seqs = 1..n OBVIOUS
<1>0. \A i \in 1..n : seqs[i] \in Seq(M) BY <1>1
<1>Z. CASE n = 0
  <2>1. FlattenSeq(seqs) = seqs /\ seqs = <<>> BY <1>1, <1>Z DEF FlattenSeq
  <2>q. QED BY <2>1
<1>P. CASE n # 0
  <2> DEFINE Joined(g) == [i \in 1..n |-> IF i = 1 THEN seqs[i] ELSE g[i - 1] \o seqs[i]]
             chosen == CHOOSE g : g = Joined(g)
  <2>2. FlattenSeq(seqs) = chosen[n] BY <1>1, <1>P DEF FlattenSeq
  <2>3. \E g : g = Joined(g)
    <3>1. PICK V : V = Seq(M) OBVIOUS
    <3>2. PICK e \in V : e = <<>>
      <4>1. <<>> \in Seq(M) OBVIOUS
      <4>q. QED BY <3>1, <4>1
    <3>3. PICK f : f = [p \in V \X (1..n) |-> p[1] \o seqs[p[2]]] OBVIOUS
    <3>5. \A t \in V, i \in 1..n : t \o seqs[i] \in V BY <3>1, <1>0
    <3>6. f \in [V \X (1..n) -> V] BY <3>3, <3>5
    <3>7. PICK w : Repetition(w, V, e, n, f) BY <3>6, Repeated
    <3>8. w \in [0..n -> V] /\ w[0] = <<>> /\ \A i \in 1..n : w[i] = f[<<w[i - 1], i>>]
      BY <3>2, <3>7 DEF Repetition
    <3>9. \A i \in 1..n : w[i] = w[i - 1] \o seqs[i]
      <4> SUFFICES ASSUME NEW i \in 1..n PROVE w[i] = w[i - 1] \o seqs[i] OBVIOUS
      <4>1. w[i - 1] \in V BY <3>8
      <4>2. <<w[i - 1], i>> \in V \X (1..n) BY <4>1
      <4>q. QED BY <3>3, <3>8, <4>2
    <3>10. PICK h : h = [i \in 1..n |-> w[i]] OBVIOUS
    <3>11. 1 \in 1..n /\ w[1] = <<>> \o seqs[1] /\ seqs[1] \in Seq(M)
      <4>1. 1 \in 1..n BY <1>P
      <4>2. w[1] = w[1 - 1] \o seqs[1] BY <3>9, <4>1
      <4>3. 1 - 1 = 0 OBVIOUS
      <4>4. w[1] = <<>> \o seqs[1] BY <3>8, <4>2, <4>3
      <4>q. QED BY <1>0, <4>1, <4>4
    <3>12. w[1] = seqs[1] BY <3>11
    <3>13. \A i \in 1..n : i # 1 => i - 1 \in 1..n OBVIOUS
    <3>14. \A i \in 1..n : h[i] = IF i = 1 THEN seqs[i] ELSE h[i - 1] \o seqs[i]
      BY <3>9, <3>10, <3>12, <3>13
    <3>15. h = Joined(h) BY <3>10, <3>14
    <3>q. QED BY <3>15
  <2> HIDE DEF Joined
  <2>4. PICK g : g = chosen /\ g = Joined(g) BY <2>3
  <2> HIDE DEF chosen
  <2>5. \A i \in 1..n : g[i] = IF i = 1 THEN seqs[i] ELSE g[i - 1] \o seqs[i] BY <2>4 DEF Joined
  <2> DEFINE Right(i) ==
              /\ g[i] \in Seq(M)
              /\ \A k \in DOMAIN g[i] : \E a \in 1..i : \E b \in DOMAIN seqs[a] : g[i][k] = seqs[a][b]
              /\ \A a \in 1..i : \A b \in DOMAIN seqs[a] : \E k \in DOMAIN g[i] : g[i][k] = seqs[a][b]
  <2>6. Right(1)
    <3>1. 1 \in 1..n /\ g[1] = seqs[1] BY <1>P, <2>5
    <3>2. \A a \in 1..1 : a = 1 OBVIOUS
    <3>3. 1 \in 1..1 OBVIOUS
    <3>q. QED BY <1>0, <3>1, <3>2, <3>3
  <2>7. ASSUME NEW i \in 2..n, Right(i - 1) PROVE Right(i)
    <3>1. PICK t \in Seq(M) : t = g[i - 1] BY <2>7
    <3>2. PICK m \in Nat : m = Len(t) /\ DOMAIN t = 1..m BY <3>1
    <3>0. i \in 1..n /\ i # 1 OBVIOUS
    <3>3. i \in 1..n /\ i # 1 /\ g[i] = t \o seqs[i]
      <4>1. g[i] = g[i - 1] \o seqs[i] BY <2>5, <3>0
      <4>q. QED BY <3>0, <3>1, <4>1
    <3>4. PICK r \in Seq(M) : r = seqs[i] BY <1>0, <3>3
    <3>5. PICK l \in Nat : l = Len(r) /\ DOMAIN r = 1..l BY <3>4
    <3>6. PICK u : u = t \o r OBVIOUS
    <3>7. /\ u \in Seq(M) /\ DOMAIN u = 1..(m + l)
          /\ \A k \in 1..m : u[k] = t[k]
          /\ \A k \in (m + 1)..(m + l) : u[k] = r[k - m]
      <4>1. u \in Seq(M) /\ Len(u) = m + l BY <3>1, <3>2, <3>4, <3>5, <3>6
      <4>2. DOMAIN u = 1..(m + l) BY <4>1
      <4>3. \A k \in 1..(m + l) : u[k] = IF k <= m THEN t[k] ELSE r[k - m]
        BY <3>1, <3>2, <3>4, <3>5, <3>6
      <4>4. \A k \in 1..m : k \in 1..(m + l) /\ k <= m BY <3>2, <3>5
      <4>5. \A k \in (m + 1)..(m + l) : k \in 1..(m + l) /\ ~(k <= m) BY <3>2, <3>5
      <4>q. QED BY <4>1, <4>2, <4>3, <4>4, <4>5
    <3>8. g[i] = u BY <3>3, <3>4, <3>6
    <3>9. \A k \in 1..(m + l) : k \in 1..m \/ (k \in (m + 1)..(m + l) /\ k - m \in 1..l) BY <3>2, <3>5
    <3>10. \A a \in 1..(i - 1) : a \in 1..i OBVIOUS
    <3>11. i \in 1..i OBVIOUS
    <3>12. \A k \in 1..m : \E a \in 1..(i - 1) : \E b \in DOMAIN seqs[a] : t[k] = seqs[a][b]
      <4>1. \A k \in DOMAIN g[i - 1] : \E a \in 1..(i - 1) : \E b \in DOMAIN seqs[a] : g[i - 1][k] = seqs[a][b]
        BY <2>7
      <4>q. QED BY <3>1, <3>2, <4>1
    <3>13. \A a \in 1..(i - 1) : \A b \in DOMAIN seqs[a] : \E k \in 1..m : t[k] = seqs[a][b]
      <4>1. \A a \in 1..(i - 1) : \A b \in DOMAIN seqs[a] : \E k \in DOMAIN g[i - 1] : g[i - 1][k] = seqs[a][b]
        BY <2>7
      <4> SUFFICES ASSUME NEW a \in 1..(i - 1), NEW b \in DOMAIN seqs[a] PROVE \E k \in 1..m : t[k] = seqs[a][b]
        OBVIOUS
      <4>2. PICK k \in DOMAIN g[i - 1] : g[i - 1][k] = seqs[a][b] BY <4>1
      <4>q. QED BY <3>1, <3>2, <4>2
    <3>14. \A k \in 1..(m + l) : \E a \in 1..i : \E b \in DOMAIN seqs[a] : u[k] = seqs[a][b]
      <4> SUFFICES ASSUME NEW k \in 1..(m + l)
                   PROVE  \E a \in 1..i : \E b \in DOMAIN seqs[a] : u[k] = seqs[a][b]
        OBVIOUS
      <4>1. CASE k \in 1..m
        <5>1. PICK a \in 1..(i - 1) : \E b \in DOMAIN seqs[a] : t[k] = seqs[a][b] BY <3>12, <4>1
        <5>2. a \in 1..i /\ u[k] = t[k] BY <3>7, <3>10, <4>1
        <5>q. QED BY <5>1, <5>2
      <4>2. CASE k \in (m + 1)..(m + l) /\ k - m \in 1..l
        <5>1. u[k] = seqs[i][k - m] /\ k - m \in DOMAIN seqs[i] BY <3>4, <3>5, <3>7, <4>2
        <5>q. QED BY <3>11, <5>1
      <4>q. QED BY <3>9, <4>1, <4>2
    <3>15. \A a \in 1..i : \A b \in DOMAIN seqs[a] : \E k \in 1..(m + l) : u[k] = seqs[a][b]
      <4> SUFFICES ASSUME NEW a \in 1..i, NEW b \in DOMAIN seqs[a]
                   PROVE  \E k \in 1..(m + l) : u[k] = seqs[a][b]
        OBVIOUS
      <4>1. CASE a = i
        <5>1. b \in 1..l BY <3>4, <3>5, <4>1
        <5>2. m + b \in (m + 1)..(m + l) /\ m + b \in 1..(m + l) /\ (m + b) - m = b BY <3>2, <3>5, <5>1
        <5>3. u[m + b] = r[b] BY <3>7, <5>2
        <5>q. QED BY <3>4, <4>1, <5>2, <5>3
      <4>2. CASE a # i
        <5>1. a \in 1..(i - 1) BY <4>2
        <5>2. PICK k \in 1..m : t[k] = seqs[a][b] BY <3>13, <5>1
        <5>3. k \in 1..(m + l) BY <3>2, <3>5
        <5>q. QED BY <3>7, <5>2, <5>3
      <4>q. QED BY <4>1, <4>2
    <3>16. g[i] \in Seq(M) /\ DOMAIN g[i] = 1..(m + l) BY <3>7, <3>8
    <3>17. \A k \in DOMAIN g[i] : \E a \in 1..i : \E b \in DOMAIN seqs[a] : g[i][k] = seqs[a][b]
      BY <3>8, <3>14, <3>16
    <3>18. \A a \in 1..i : \A b \in DOMAIN seqs[a] : \E k \in DOMAIN g[i] : g[i][k] = seqs[a][b]
      BY <3>8, <3>15, <3>16
    <3>q. QED BY <3>16, <3>17, <3>18
  <2> HIDE DEF Right
  <2>8. Right(n)
    <3>1. SUFFICES ASSUME ~Right(n) PROVE FALSE OBVIOUS
    <3>2. PICK B : B = {i \in 1..n : ~Right(i)} OBVIOUS
    <3>3. B \in SUBSET Nat /\ n \in B BY <1>P, <3>1, <3>2
    <3>4. PICK i \in B : \A k \in B : i <= k BY <3>3, LeastNat
    <3>5. i # 1 /\ i \in 2..n /\ i - 1 \in 1..n BY <2>6, <3>2, <3>4
    <3>6. i - 1 \notin B BY <3>4, <3>5
    <3>7. Right(i - 1) BY <3>2, <3>5, <3>6
    <3>q. QED BY <2>7, <3>2, <3>4, <3>5, <3>7
  <2>9. FlattenSeq(seqs) = g[n] BY <2>2, <2>4
  <2>10. PICK z : z = g[n] OBVIOUS
  <2>11. /\ z \in Seq(M)
         /\ \A k \in DOMAIN z : \E a \in 1..n : \E b \in DOMAIN seqs[a] : z[k] = seqs[a][b]
         /\ \A a \in 1..n : \A b \in DOMAIN seqs[a] : \E k \in DOMAIN z : z[k] = seqs[a][b]
    BY <2>8, <2>10 DEF Right
  <2>12. FlattenSeq(seqs) = z BY <2>9, <2>10
  <2>13. \A k \in DOMAIN z : \E a \in DOMAIN seqs : \E b \in DOMAIN seqs[a] : z[k] = seqs[a][b]
    <3> SUFFICES ASSUME NEW k \in DOMAIN z PROVE \E a \in DOMAIN seqs : \E b \in DOMAIN seqs[a] : z[k] = seqs[a][b]
      OBVIOUS
    <3>1. PICK a \in 1..n : \E b \in DOMAIN seqs[a] : z[k] = seqs[a][b] BY <2>11
    <3>2. a \in DOMAIN seqs BY <1>1
    <3>q. QED BY <3>1, <3>2
  <2>14. \A a \in DOMAIN seqs : \A b \in DOMAIN seqs[a] : \E k \in DOMAIN z : z[k] = seqs[a][b] BY <1>1, <2>11
  <2>q. QED BY <2>11, <2>12, <2>13, <2>14
<1>q. QED BY <1>Z, <1>P

LEMMA SeqParts ==
    ASSUME NEW S, NEW s \in Seq(S)
    PROVE  /\ Len(s) \in Nat /\ DOMAIN s = 1..Len(s) /\ \A i \in DOMAIN s : s[i] \in S
           /\ s # <<>> => /\ Len(s) # 0 /\ Head(s) = s[1]
                          /\ Tail(s) \in Seq(S) /\ Len(Tail(s)) = Len(s) - 1
                          /\ \A i \in 1..Len(s) - 1 : Tail(s)[i] = s[i + 1]
OBVIOUS

LEMMA SeqJoined ==
    ASSUME NEW S, NEW s \in Seq(S), NEW t \in Seq(S)
    PROVE  /\ s \o t \in Seq(S) /\ Len(s \o t) = Len(s) + Len(t)
           /\ \A i \in 1..Len(s) : (s \o t)[i] = s[i]
           /\ \A i \in 1..Len(t) : (s \o t)[Len(s) + i] = t[i]
<1>1. Len(s) \in Nat /\ Len(t) \in Nat OBVIOUS
<1>2. \A i \in 1..Len(t) : Len(s) + i \in (Len(s) + 1)..(Len(s) + Len(t)) /\ Len(s) + i - Len(s) = i BY <1>1
<1>3. \A i \in (Len(s) + 1)..(Len(s) + Len(t)) : (s \o t)[i] = t[i - Len(s)] OBVIOUS
<1>q. QED BY <1>2, <1>3

LEMMA SeqFrom ==
    ASSUME NEW S, NEW m \in Nat, NEW u \in [1..m -> S]
    PROVE  u \in Seq(S) /\ Len(u) = m
OBVIOUS

LEMMA SeqAppended ==
    ASSUME NEW S, NEW s \in Seq(S), NEW x \in S
    PROVE  /\ Append(s, x) \in Seq(S) /\ Len(Append(s, x)) = Len(s) + 1
           /\ Append(s, x)[Len(s) + 1] = x /\ \A i \in 1..Len(s) : Append(s, x)[i] = s[i]
           /\ ToSet(Append(s, x)) = ToSet(s) \cup {x}
<1>1. PICK n \in Nat : n = Len(s) /\ DOMAIN s = 1..n OBVIOUS
<1>0. Append(s, x) \in Seq(S) OBVIOUS
<1>2. PICK t \in Seq(S) : t = Append(s, x) BY <1>0
<1>3. Len(t) = n + 1 /\ DOMAIN t = 1..(n + 1) /\ t[n + 1] = x /\ \A i \in 1..n : t[i] = s[i] BY <1>1, <1>2
<1>4. \A i \in 1..(n + 1) : i \in 1..n \/ i = n + 1 BY <1>1
<1>5. \A i \in 1..n : i \in 1..(n + 1) BY <1>1
<1>6. n + 1 \in 1..(n + 1) BY <1>1
<1>7. ToSet(t) = {t[i] : i \in 1..(n + 1)} /\ ToSet(s) = {s[i] : i \in 1..n} BY <1>1, <1>3 DEF ToSet
<1>8. ToSet(t) = ToSet(s) \cup {x} BY <1>3, <1>4, <1>5, <1>6, <1>7
<1>q. QED BY <1>1, <1>2, <1>3, <1>8

LEMMA SetMapped ==
    ASSUME NEW S, IsFiniteSet(S), NEW f, DOMAIN f = S, NEW T, T = {f[x] : x \in S}
    PROVE  IsFiniteSet(T) /\ Cardinality(T) <= Cardinality(S)
<1>1. PICK g : g = [x \in S |-> f[x]] OBVIOUS
<1>2. g \in Surjection(S, T) BY <1>1 DEF Surjection
<1>q. QED BY <1>2, FS_Surjection

LEMMA SeqOfSet ==
    ASSUME NEW S, IsFiniteSet(S)
    PROVE  DOMAIN SetToSeq(S) = 1..Cardinality(S)
<1>1. PICK l \in Nat : l = Cardinality(S) /\ ExistsBijection(1..l, S) BY FS_CardinalityType
<1>2. \E f \in [1..l -> S] : IsInjective(f)
  BY <1>1 DEF ExistsBijection, Bijection, Injection, IsInjective
<1>3. SetToSeq(S) \in [1..l -> S] BY <1>1, <1>2 DEF SetToSeq
<1>q. QED BY <1>1, <1>3

(* The neighbourhood of a selection.  The queue holds, in order of their   *)
(* distance, the nodes that were met and not yet taken, and each stands at *)
(* its distance; what was taken below the last hop had all its neighbours  *)
(* met.                                                                    *)
Around == search.seeds \cup {e.to : e \in irEdges} \cup {e.from : e \in irEdges}
StillQueued(waiting) == {waiting[i].id : i \in DOMAIN waiting}
Once(s) == \A i, j \in DOMAIN s : s[i] = s[j] => i = j
Queues == Seq([id : Around, hops : 0..MaxHops])
NewlyMet(item, met) == IF item.hops < MaxHops THEN Adjacent(item.id) \ met ELSE {}
InLine(ids, hops) == [i \in 1..Cardinality(ids) |-> [id |-> SetToSeq(ids)[i], hops |-> hops]]
Gathered(waiting, ordered, met) ==
    /\ search.seeds \subseteq met
    /\ met = ToSet(ordered) \cup StillQueued(waiting) /\ ToSet(ordered) \cap StillQueued(waiting) = {}
    /\ Once(ordered) /\ \A i, j \in DOMAIN waiting : waiting[i].id = waiting[j].id => i = j
    /\ \A i, j \in DOMAIN waiting : i <= j => waiting[i].hops <= waiting[j].hops
    /\ \A i \in DOMAIN waiting : waiting[i].hops <= waiting[1].hops + 1
    /\ \A i \in DOMAIN waiting : waiting[i].id \in Ball[waiting[i].hops]
    /\ \A i \in DOMAIN waiting : waiting[i].hops # 0 => waiting[i].id \notin Ball[waiting[i].hops - 1]
    /\ \A i \in DOMAIN waiting : ToSet(ordered) \subseteq Ball[waiting[i].hops]
    /\ ToSet(ordered) \subseteq Ball[MaxHops]
    /\ \A h \in 1..MaxHops : \A id \in ToSet(ordered) \cap Ball[h - 1] : Adjacent(id) \subseteq met

SearchInv ==
    /\ search \in [seeds : SUBSET Around, queue : Queues, visited : SUBSET Around, ordered : Seq(Around)]
    /\ Gathered(search.queue, search.ordered, search.visited)
    /\ Len(search.ordered) <= MaxNodes

LEMMA Balls ==
    ASSUME GraphAssumption, search.seeds \subseteq Around
    PROVE  /\ Ball[0] = search.seeds /\ \A h \in 1..MaxHops : Ball[h] = OneHop(Ball[h - 1])
           /\ \A h \in 0..MaxHops : Ball[h] \subseteq Around
<1>1. PICK n \in Nat : n = MaxHops BY DEF GraphAssumption
<1>2. \A ids \in SUBSET Around : OneHop(ids) \in SUBSET Around BY DEF OneHop, Adjacent, Around
<1>3. PICK next : next = [p \in (SUBSET Around) \X (1..n) |-> OneHop(p[1])] OBVIOUS
<1>4. next \in [(SUBSET Around) \X (1..n) -> SUBSET Around] BY <1>2, <1>3
<1>5. search.seeds \in SUBSET Around OBVIOUS
<1>6. PICK w : Repetition(w, SUBSET Around, search.seeds, n, next) BY <1>4, <1>5, Repeated
<1>7. /\ w \in [0..n -> SUBSET Around] /\ w[0] = search.seeds
      /\ \A i \in 1..n : w[i] = next[<<w[i - 1], i>>]
  BY <1>6 DEF Repetition
<1>8. \A i \in 1..n : w[i] = OneHop(w[i - 1])
  <2> SUFFICES ASSUME NEW i \in 1..n PROVE w[i] = OneHop(w[i - 1]) OBVIOUS
  <2>1. i - 1 \in 0..n /\ w[i - 1] \in SUBSET Around BY <1>7
  <2>2. <<w[i - 1], i>> \in (SUBSET Around) \X (1..n) BY <2>1
  <2>q. QED BY <1>3, <1>7, <2>2
<1> DEFINE Nearer(b) == [h \in 0..n |-> IF h = 0 THEN search.seeds ELSE OneHop(b[h - 1])]
<1>9. w = Nearer(w) BY <1>7, <1>8
<1>10. Ball = CHOOSE b : b = Nearer(b) BY <1>1 DEF Ball
<1> HIDE DEF Nearer
<1>11. Ball = Nearer(Ball) BY <1>9, <1>10
<1>12. \A h \in 0..n : Ball[h] = IF h = 0 THEN search.seeds ELSE OneHop(Ball[h - 1])
  BY <1>11 DEF Nearer
<1>13. Ball[0] = search.seeds /\ \A h \in 1..n : Ball[h] = OneHop(Ball[h - 1]) BY <1>12
<1>14. \A h \in 0..n : Ball[h] \in SUBSET Around
  <2> DEFINE B == {h \in 0..n : Ball[h] \notin SUBSET Around}
  <2>1. SUFFICES ASSUME B # {} PROVE FALSE OBVIOUS
  <2>2. B \in SUBSET Nat OBVIOUS
  <2>3. PICK h \in B : \A k \in B : h <= k BY <2>1, <2>2, LeastNat
  <2>4. h \in 0..n /\ Ball[h] \notin SUBSET Around BY <2>3
  <2>5. h # 0 BY <1>5, <1>13, <2>4
  <2>6. h - 1 \in 0..n /\ h \in 1..n /\ ~(h <= h - 1) BY <2>4, <2>5
  <2>7. Ball[h - 1] \in SUBSET Around BY <2>3, <2>6
  <2>q. QED BY <1>2, <1>13, <2>4, <2>6, <2>7
<1>q. QED BY <1>1, <1>13, <1>14

LEMMA BallsGrow ==
    ASSUME GraphAssumption, search.seeds \subseteq Around, NEW g \in 0..MaxHops, NEW h \in 0..MaxHops, g <= h
    PROVE  Ball[g] \subseteq Ball[h]
<1>1. PICK n \in Nat : n = MaxHops BY DEF GraphAssumption
<1>2. \A k \in 1..n : Ball[k - 1] \subseteq Ball[k] BY <1>1, Balls DEF OneHop
<1> DEFINE B == {k \in g..n : ~(Ball[g] \subseteq Ball[k])}
<1>3. SUFFICES ASSUME B # {} PROVE FALSE BY <1>1
<1>4. B \in SUBSET Nat BY <1>1
<1>5. PICK k \in B : \A l \in B : k <= l BY <1>3, <1>4, LeastNat
<1>6. k \in g..n /\ ~(Ball[g] \subseteq Ball[k]) /\ k # g BY <1>5
<1>7. k - 1 \in g..n /\ k \in 1..n /\ ~(k <= k - 1) BY <1>1, <1>6
<1>8. Ball[g] \subseteq Ball[k - 1] BY <1>5, <1>7
<1>q. QED BY <1>2, <1>6, <1>7, <1>8

(* Whatever is as near as the front of the queue was met.                  *)
LEMMA NearIsMet ==
    ASSUME GraphAssumption, search.seeds \subseteq Around,
           NEW waiting \in Queues, NEW ordered, NEW met, Gathered(waiting, ordered, met),
           NEW h \in 0..MaxHops, waiting # <<>> => h <= waiting[1].hops
    PROVE  Ball[h] \subseteq met
<1>1. PICK n \in Nat : n = MaxHops BY DEF GraphAssumption
<1> DEFINE B == {k \in 0..h : ~(Ball[k] \subseteq met)}
<1>2. SUFFICES ASSUME B # {} PROVE FALSE BY <1>1
<1>3. B \in SUBSET Nat BY <1>1
<1>4. PICK k \in B : \A l \in B : k <= l BY <1>2, <1>3, LeastNat
<1>5. k \in 0..h /\ ~(Ball[k] \subseteq met) BY <1>4
<1>6. k # 0 BY <1>5, Balls DEF Gathered
<1>7. k - 1 \in 0..h /\ k - 1 \in 0..n /\ k \in 1..n /\ ~(k <= k - 1) BY <1>1, <1>5, <1>6
<1>8. Ball[k - 1] \subseteq met BY <1>4, <1>7
<1>9. ASSUME NEW i \in DOMAIN waiting, waiting[i].id \in Ball[k - 1] PROVE FALSE
  <2>1. waiting # <<>> /\ 1 \in DOMAIN waiting /\ i \in Nat /\ 1 <= i BY DEF Queues
  <2>2. waiting[1].hops \in 0..n /\ waiting[i].hops \in 0..n
    <3>1. \A j \in DOMAIN waiting : waiting[j] \in [id : Around, hops : 0..MaxHops] BY SeqParts DEF Queues
    <3>q. QED BY <1>1, <2>1, <3>1
  <2>3. waiting[1].hops <= waiting[i].hops BY <2>1 DEF Gathered
  <2>4. k <= waiting[i].hops /\ waiting[i].hops # 0 /\ waiting[i].hops - 1 \in 0..n /\ k - 1 <= waiting[i].hops - 1
    BY <1>1, <1>5, <1>7, <2>1, <2>2, <2>3
  <2>5. Ball[k - 1] \subseteq Ball[waiting[i].hops - 1] BY <1>1, <1>7, <2>4, BallsGrow
  <2>q. QED BY <1>9, <2>4, <2>5 DEF Gathered
<1>10. Ball[k - 1] \subseteq ToSet(ordered) BY <1>8, <1>9 DEF Gathered, StillQueued
<1>11. \A id \in Ball[k - 1] : Adjacent(id) \subseteq met BY <1>1, <1>7, <1>10 DEF Gathered
<1>12. Ball[k] = Ball[k - 1] \cup UNION {Adjacent(id) : id \in Ball[k - 1]} BY <1>1, <1>7, Balls DEF OneHop
<1>q. QED BY <1>5, <1>8, <1>11, <1>12

(* One turn of the loop.                                                   *)
LEMMA PopKeeps ==
    ASSUME GraphAssumption, search.seeds \subseteq Around, IsFiniteSet(irEdges),
           NEW waiting \in Queues, waiting # <<>>, NEW ordered \in Seq(Around), NEW met \in SUBSET Around,
           Gathered(waiting, ordered, met),
           NEW fresh, fresh = NewlyMet(Head(waiting), met), NEW next, next = InLine(fresh, Head(waiting).hops + 1)
    PROVE  /\ Tail(waiting) \o next \in Queues /\ Append(ordered, Head(waiting).id) \in Seq(Around)
           /\ met \cup fresh \in SUBSET Around
           /\ Gathered(Tail(waiting) \o next, Append(ordered, Head(waiting).id), met \cup fresh)
<1>1. PICK n \in Nat : n = MaxHops BY DEF GraphAssumption
<1>e. PICK E : E = [id : Around, hops : 0..n] OBVIOUS
<1>s. Queues = Seq(E) /\ waiting \in Seq(E) BY <1>1, <1>e DEF Queues
<1>2. PICK l \in Nat : l = Len(waiting) /\ DOMAIN waiting = 1..l /\ l # 0 BY <1>s, SeqParts
<1>3. PICK x, d : x = waiting[1].id /\ d = waiting[1].hops /\ Head(waiting) = waiting[1]
  <2>1. Head(waiting) = waiting[1] BY <1>s, SeqParts
  <2>q. QED BY <2>1
<1>4. \A i \in 1..l : waiting[i] \in E /\ waiting[i] \in [id : Around, hops : 0..n] BY <1>e, <1>s, <1>2, SeqParts
<1>5. 1 \in 1..l /\ x \in Around /\ d \in 0..n BY <1>2, <1>3, <1>4
<1>6. fresh = IF d < n THEN Adjacent(x) \ met ELSE {} BY <1>1, <1>3 DEF NewlyMet
<1>7. IsFiniteSet(fresh) /\ fresh \in SUBSET Around
  <2>1. Adjacent(x) \subseteq {e.to : e \in irEdges} \cup {e.from : e \in irEdges} BY DEF Adjacent
  <2>2. IsFiniteSet({e.to : e \in irEdges}) /\ IsFiniteSet({e.from : e \in irEdges})
    <3>1. PICK f : f = [e \in irEdges |-> e.to] OBVIOUS
    <3>2. PICK g : g = [e \in irEdges |-> e.from] OBVIOUS
    <3>3. {e.to : e \in irEdges} = {f[e] : e \in irEdges} BY <3>1
    <3>4. {e.from : e \in irEdges} = {g[e] : e \in irEdges} BY <3>2
    <3>5. DOMAIN f = irEdges /\ DOMAIN g = irEdges BY <3>1, <3>2
    <3>6. PICK A, B : A = {f[e] : e \in irEdges} /\ B = {g[e] : e \in irEdges} OBVIOUS
    <3>7. IsFiniteSet(A) BY <3>5, <3>6, SetMapped
    <3>8. IsFiniteSet(B) BY <3>5, <3>6, SetMapped
    <3>q. QED BY <3>3, <3>4, <3>6, <3>7, <3>8
  <2>3. IsFiniteSet({e.to : e \in irEdges} \cup {e.from : e \in irEdges}) BY <2>2, FS_Union
  <2>4. fresh \subseteq {e.to : e \in irEdges} \cup {e.from : e \in irEdges} BY <1>6, <2>1
  <2>q. QED BY <2>3, <2>4, FS_Subset DEF Around
<1>8. PICK f \in Seq(fresh) : f = SetToSeq(fresh) /\ (\A i, j \in DOMAIN f : f[i] = f[j] => i = j)
                              /\ {f[i] : i \in DOMAIN f} = fresh /\ DOMAIN f = 1..Cardinality(fresh)
  BY <1>7, EachInSeq, SeqOfSet
<1>9. PICK m \in Nat : m = Cardinality(fresh) /\ DOMAIN f = 1..m BY <1>7, <1>8, FS_CardinalityType
<1>10. next = [i \in 1..m |-> [id |-> f[i], hops |-> d + 1]] BY <1>3, <1>8, <1>9 DEF InLine
<1>11. \A i \in 1..m : d < n /\ f[i] \in fresh /\ f[i] \in Around /\ f[i] \in Adjacent(x) /\ f[i] \notin met
  <2>1. \A i \in 1..m : f[i] \in fresh BY <1>9
  <2>q. QED BY <1>6, <1>7, <2>1
<1>12. next \in Seq(E) /\ Len(next) = m
  <2>1. \A i \in 1..m : [id |-> f[i], hops |-> d + 1] \in E
    <3>1. \A i \in 1..m : d + 1 \in 0..n BY <1>5, <1>11
    <3>q. QED BY <1>e, <1>11, <3>1
  <2>2. next \in [1..m -> E] BY <1>10, <2>1
  <2>q. QED BY <2>2, SeqFrom
<1>13. PICK tail \in Seq(E) : tail = Tail(waiting) /\ Len(tail) = l - 1 /\ DOMAIN tail = 1..(l - 1)
                             /\ \A i \in 1..(l - 1) : tail[i] = waiting[i + 1]
  <2>1. Tail(waiting) \in Seq(E) /\ Len(Tail(waiting)) = l - 1 /\ \A i \in 1..(l - 1) : Tail(waiting)[i] = waiting[i + 1]
    BY <1>s, <1>2, SeqParts
  <2>2. DOMAIN Tail(waiting) = 1..Len(Tail(waiting)) BY <2>1, SeqParts
  <2>q. QED BY <2>1, <2>2
<1>14. PICK q \in Seq(E) : q = Tail(waiting) \o next BY <1>12, <1>13, SeqJoined
<1>15. /\ Len(next) = m /\ Len(Tail(waiting)) = l - 1 /\ DOMAIN q = 1..(l - 1 + m)
       /\ \A i \in 1..(l - 1) : q[i] = waiting[i + 1]
       /\ \A i \in l..(l - 1 + m) : /\ i - (l - 1) \in 1..m /\ q[i] = [id |-> f[i - (l - 1)], hops |-> d + 1]
                                    /\ q[i].id = f[i - (l - 1)] /\ q[i].hops = d + 1
  <2>0. l - 1 \in Nat BY <1>2
  <2>1. PICK k \in Nat : k = l - 1 BY <2>0
  <2>2. PICK u \in Seq(E) : u = next BY <1>12
  <2>j. q = tail \o u BY <1>13, <1>14, <2>2
  <2>l. Len(u) = m /\ Len(tail) = k BY <1>12, <1>13, <2>1, <2>2
  <2>3. Len(q) = k + m /\ (\A i \in 1..k : q[i] = tail[i]) /\ \A i \in 1..m : q[k + i] = u[i]
    <3>1. \A a, b, c \in Seq(E) : c = a \o b =>
              /\ Len(c) = Len(a) + Len(b) /\ \A i \in 1..Len(a) : c[i] = a[i]
              /\ \A i \in 1..Len(b) : c[Len(a) + i] = b[i]
      BY SeqJoined
    <3>2. /\ Len(q) = Len(tail) + Len(u) /\ \A i \in 1..Len(tail) : q[i] = tail[i]
          /\ \A i \in 1..Len(u) : q[Len(tail) + i] = u[i]
      BY <2>j, <3>1
    <3>q. QED BY <2>l, <3>2
  <2>4. DOMAIN q = 1..(k + m) BY <2>3, SeqParts
  <2>5. ASSUME NEW i \in l..(l - 1 + m)
        PROVE  /\ i - (l - 1) \in 1..m /\ q[i] = [id |-> f[i - (l - 1)], hops |-> d + 1]
               /\ q[i].id = f[i - (l - 1)] /\ q[i].hops = d + 1
    <3>0. i - (l - 1) \in 1..m /\ k + (i - (l - 1)) = i BY <1>2, <1>9, <2>1
    <3>1. PICK j \in 1..m : j = i - (l - 1) /\ k + j = i BY <3>0
    <3>2. q[i] = next[j] BY <2>2, <2>3, <3>1
    <3>3. next[j] = [id |-> f[j], hops |-> d + 1] BY <1>10
    <3>4. q[i].id = f[j] /\ q[i].hops = d + 1 BY <3>2, <3>3
    <3>q. QED BY <3>1, <3>2, <3>3, <3>4
  <2>q. QED BY <1>12, <1>13, <2>1, <2>3, <2>4, <2>5
<1>i. \A i \in DOMAIN q : i \in Nat /\ (i \in 1..(l - 1) \/ i \in l..(l - 1 + m))
  <2>1. \A i \in 1..(l - 1 + m) : i \in Nat /\ (i \in 1..(l - 1) \/ i \in l..(l - 1 + m)) BY <1>2, <1>9
  <2>q. QED BY <1>15, <2>1
<1>16. PICK o \in Seq(Around) : o = Append(ordered, x) /\ ToSet(o) = ToSet(ordered) \cup {x}
  <2>1. Append(ordered, x) \in Seq(Around) /\ ToSet(Append(ordered, x)) = ToSet(ordered) \cup {x}
    BY <1>5, SeqAppended
  <2>q. QED BY <2>1
<1>17. PICK v \in SUBSET Around : v = met \cup fresh BY <1>7
<1>18. StillQueued(waiting) = {x} \cup StillQueued(Tail(waiting)) /\ x \notin StillQueued(Tail(waiting))
       /\ StillQueued(q) = StillQueued(Tail(waiting)) \cup fresh
  <2>1. \A i \in 1..(l - 1) : i + 1 \in 1..l /\ i + 1 # 1 BY <1>2
  <2>2. \A i \in 1..l : i = 1 \/ (i - 1 \in 1..(l - 1) /\ (i - 1) + 1 = i) BY <1>2
  <2>3. DOMAIN Tail(waiting) = 1..(l - 1) /\ \A i \in 1..(l - 1) : Tail(waiting)[i] = waiting[i + 1] BY <1>13
  <2>4. StillQueued(Tail(waiting)) = {waiting[i + 1].id : i \in 1..(l - 1)} BY <2>3 DEF StillQueued
  <2>5. StillQueued(waiting) = {waiting[i].id : i \in 1..l} BY <1>2 DEF StillQueued
  <2>6. StillQueued(waiting) = {x} \cup StillQueued(Tail(waiting)) BY <1>3, <1>5, <2>1, <2>2, <2>4, <2>5
  <2>7. \A i \in 1..l : waiting[i].id = x => i = 1 BY <1>2, <1>3, <1>5 DEF Gathered
  <2>8. x \notin StillQueued(Tail(waiting)) BY <2>1, <2>4, <2>7
  <2>9. StillQueued(q) = {q[i].id : i \in 1..(l - 1 + m)} BY <1>15 DEF StillQueued
  <2>11. ASSUME NEW i \in 1..(l - 1 + m) PROVE q[i].id \in StillQueued(Tail(waiting)) \cup fresh
    <3>1. CASE i \in 1..(l - 1) BY <1>15, <2>4, <3>1
    <3>2. CASE i \in l..(l - 1 + m)
      <4>1. i - (l - 1) \in 1..m /\ q[i].id = f[i - (l - 1)] BY <1>15, <3>2
      <4>q. QED BY <1>11, <4>1
    <3>q. QED BY <1>i, <1>15, <3>1, <3>2
  <2>12. \A i \in 1..(l - 1) : i \in 1..(l - 1 + m) BY <1>2, <1>9
  <2>13. ASSUME NEW y \in StillQueued(Tail(waiting)) PROVE y \in StillQueued(q)
    <3>1. PICK i \in 1..(l - 1) : y = waiting[i + 1].id BY <2>4
    <3>2. q[i].id = y /\ i \in 1..(l - 1 + m) BY <1>15, <2>12, <3>1
    <3>q. QED BY <2>9, <3>2
  <2>14. fresh \subseteq StillQueued(q)
    <3> SUFFICES ASSUME NEW y \in fresh PROVE y \in StillQueued(q) OBVIOUS
    <3>1. PICK i \in 1..m : f[i] = y BY <1>8, <1>9
    <3>2. i + (l - 1) \in l..(l - 1 + m) /\ (i + (l - 1)) - (l - 1) = i /\ i + (l - 1) \in 1..(l - 1 + m)
      BY <1>2, <1>9
    <3>3. q[i + (l - 1)].id = y BY <1>15, <3>1, <3>2
    <3>q. QED BY <2>9, <3>2, <3>3
  <2>q. QED BY <2>6, <2>8, <2>9, <2>11, <2>13, <2>14
<1>19. met = ToSet(ordered) \cup StillQueued(waiting) /\ ToSet(ordered) \cap StillQueued(waiting) = {} BY DEF Gathered
<1>20. x \notin ToSet(ordered) /\ x \in met BY <1>18, <1>19
<1>21. fresh \cap met = {} BY <1>6
<1>22. v = ToSet(o) \cup StillQueued(q) /\ ToSet(o) \cap StillQueued(q) = {}
  <2>1. PICK A, B, O, Q : /\ A = ToSet(ordered) /\ B = StillQueued(Tail(waiting))
                          /\ O = ToSet(o) /\ Q = StillQueued(q)
    OBVIOUS
  <2>2. O = A \cup {x} /\ Q = B \cup fresh /\ v = met \cup fresh BY <1>16, <1>17, <1>18, <2>1
  <2>3. met = A \cup {x} \cup B /\ A \cap B = {} /\ x \notin A /\ x \notin B BY <1>18, <1>19, <1>20, <2>1
  <2>4. v = O \cup Q /\ O \cap Q = {} BY <1>21, <2>2, <2>3
  <2>q. QED BY <2>1, <2>4
<1>23. Once(o)
  <2>1. Once(ordered) BY DEF Gathered
  <2>2. PICK k \in Nat : k = Len(ordered) /\ DOMAIN ordered = 1..k OBVIOUS
  <2>3. DOMAIN o = 1..(k + 1) /\ o[k + 1] = x /\ \A i \in 1..k : o[i] = ordered[i]
    BY <1>5, <1>16, <2>2, SeqAppended, SeqParts
  <2>4. \A i \in 1..k : ordered[i] # x BY <1>20, <2>2 DEF ToSet
  <2>5. \A i \in 1..(k + 1) : i \in 1..k \/ i = k + 1 BY <2>2
  <2>q. QED BY <2>1, <2>2, <2>3, <2>4, <2>5 DEF Once
<1> DEFINE Old(i) == i \in 1..(l - 1)
           New(i) == i \in l..(l - 1 + m)
<1>24. \A i \in DOMAIN q : Old(i) \/ New(i) BY <1>i
<1>25. \A i \in DOMAIN q : Old(i) => /\ i + 1 \in 1..l /\ q[i] = waiting[i + 1] /\ q[i].hops \in d..n /\ q[i].hops <= d + 1
                                     /\ q[i].id \in StillQueued(Tail(waiting))
  <2> SUFFICES ASSUME NEW i \in DOMAIN q, Old(i)
               PROVE  /\ i + 1 \in 1..l /\ q[i] = waiting[i + 1] /\ q[i].hops \in d..n /\ q[i].hops <= d + 1
                      /\ q[i].id \in StillQueued(Tail(waiting))
    OBVIOUS
  <2>1. i + 1 \in 1..l /\ 1 <= i + 1 /\ q[i] = waiting[i + 1] BY <1>2, <1>15
  <2>2. waiting[i + 1].hops \in 0..n /\ d <= waiting[i + 1].hops /\ waiting[i + 1].hops <= d + 1
    BY <1>2, <1>3, <1>4, <1>5, <2>1 DEF Gathered
  <2>3. i \in DOMAIN Tail(waiting) /\ Tail(waiting)[i] = waiting[i + 1] BY <1>13
  <2>q. QED BY <1>5, <2>1, <2>2, <2>3 DEF StillQueued
<1>26. \A i \in DOMAIN q : New(i) => /\ i - (l - 1) \in 1..m /\ q[i] = [id |-> f[i - (l - 1)], hops |-> d + 1]
                                     /\ q[i].hops = d + 1 /\ q[i].id \in fresh /\ d < n
  <2> SUFFICES ASSUME NEW i \in DOMAIN q, New(i)
               PROVE  /\ i - (l - 1) \in 1..m /\ q[i] = [id |-> f[i - (l - 1)], hops |-> d + 1]
                      /\ q[i].hops = d + 1 /\ q[i].id \in fresh /\ d < n
    OBVIOUS
  <2>0. i - (l - 1) \in 1..m BY <1>2, <1>9
  <2>1. i - (l - 1) \in 1..m /\ q[i] = [id |-> f[i - (l - 1)], hops |-> d + 1] BY <1>15, <2>0
  <2>q. QED BY <1>11, <2>1
<1>27. ASSUME NEW i \in DOMAIN q, NEW j \in DOMAIN q, q[i].id = q[j].id PROVE i = j
  <2>1. CASE Old(i) /\ Old(j)
    <3>1. i + 1 \in DOMAIN waiting /\ j + 1 \in DOMAIN waiting /\ waiting[i + 1].id = waiting[j + 1].id
      BY <1>2, <1>25, <1>27, <2>1
    <3>2. i + 1 = j + 1 BY <3>1 DEF Gathered
    <3>3. i \in Nat /\ j \in Nat BY <1>2, <2>1
    <3>q. QED BY <3>2, <3>3
  <2>2. CASE New(i) /\ New(j)
    <3>0. /\ i - (l - 1) \in 1..m /\ q[i].id = f[i - (l - 1)]
          /\ j - (l - 1) \in 1..m /\ q[j].id = f[j - (l - 1)]
      BY <1>15, <2>2
    <3>1. i - (l - 1) \in 1..m /\ j - (l - 1) \in 1..m /\ f[i - (l - 1)] = f[j - (l - 1)]
      BY <1>27, <3>0
    <3>2. i - (l - 1) = j - (l - 1) BY <1>8, <1>9, <3>1
    <3>3. i \in Nat /\ j \in Nat BY <1>2, <2>2
    <3>q. QED BY <1>2, <3>2, <3>3
  <2>3. CASE (Old(i) /\ New(j)) \/ (New(i) /\ Old(j))
    <3>1. StillQueued(Tail(waiting)) \cap fresh = {} BY <1>18, <1>19, <1>21
    <3>q. QED BY <1>25, <1>26, <1>27, <2>3, <3>1
  <2>q. QED BY <1>24, <2>1, <2>2, <2>3
<1>28. \A i \in DOMAIN q : q[i].hops \in d..n /\ q[i].hops <= d + 1
  <2>1. ASSUME NEW i \in DOMAIN q, New(i) PROVE q[i].hops \in d..n
    <3>1. q[i].hops = d + 1 /\ d < n BY <1>26, <2>1
    <3>2. d + 1 \in d..n BY <1>5, <3>1
    <3>q. QED BY <3>1, <3>2
  <2>q. QED BY <1>5, <1>24, <1>25, <1>26, <2>1
<1>29. ASSUME NEW i \in DOMAIN q, NEW j \in DOMAIN q, i <= j PROVE q[i].hops <= q[j].hops
  <2>1. CASE New(j) BY <1>5, <1>26, <1>28, <2>1
  <2>2. CASE Old(i) /\ Old(j)
    <3>1. i + 1 \in DOMAIN waiting /\ j + 1 \in DOMAIN waiting /\ i + 1 <= j + 1 BY <1>2, <1>15, <1>25, <1>29, <2>2
    <3>q. QED BY <1>25, <2>2, <3>1 DEF Gathered
  <2>3. New(i) /\ Old(j) => FALSE BY <1>2, <1>9, <1>29
  <2>q. QED BY <1>24, <2>1, <2>2, <2>3
<1>30. \A i \in DOMAIN q : q[i].hops <= q[1].hops + 1
  <2> SUFFICES ASSUME NEW i \in DOMAIN q PROVE q[i].hops <= q[1].hops + 1 OBVIOUS
  <2>0. PICK k \in Int : k = l - 1 + m BY <1>2, <1>9
  <2>1. 1 \in DOMAIN q BY <1>15, <2>0
  <2>q. QED BY <1>5, <1>28, <2>1
<1>31. x \in Ball[d] /\ ToSet(ordered) \subseteq Ball[d] /\ (d # 0 => x \notin Ball[d - 1])
  BY <1>2, <1>3, <1>5 DEF Gathered
<1>32. Ball[d] \subseteq met
  <2>1. d \in 0..MaxHops /\ d <= waiting[1].hops BY <1>1, <1>3, <1>5
  <2>q. QED BY <2>1, NearIsMet
<1>33. d < n => Ball[d + 1] = Ball[d] \cup UNION {Adjacent(id) : id \in Ball[d]}
  <2>1. d < n => d + 1 \in 1..n /\ (d + 1) - 1 = d BY <1>5
  <2>q. QED BY <1>1, <2>1, Balls DEF OneHop
<1>34. ASSUME NEW i \in DOMAIN q
       PROVE  q[i].id \in Ball[q[i].hops] /\ (q[i].hops # 0 => q[i].id \notin Ball[q[i].hops - 1])
  <2>1. CASE Old(i) BY <1>2, <1>25, <2>1 DEF Gathered
  <2>2. CASE New(i)
    <3>1. q[i].hops = d + 1 /\ q[i].id \in fresh /\ d < n BY <1>26, <2>2
    <3>2. q[i].id \in Adjacent(x) /\ q[i].id \notin met BY <1>6, <3>1
    <3>3. q[i].id \in Ball[d + 1] BY <1>31, <1>33, <3>1, <3>2
    <3>4. (d + 1) - 1 = d BY <1>5
    <3>q. QED BY <1>32, <3>1, <3>2, <3>3, <3>4
  <2>q. QED BY <1>24, <2>1, <2>2
<1>35. \A h \in d..n : ToSet(o) \subseteq Ball[h]
  <2> SUFFICES ASSUME NEW h \in d..n PROVE ToSet(o) \subseteq Ball[h] OBVIOUS
  <2>1. h \in 0..n /\ d <= h BY <1>5
  <2>2. Ball[d] \subseteq Ball[h] BY <1>1, <1>5, <2>1, BallsGrow
  <2>q. QED BY <1>16, <1>31, <2>2
<1>36. ASSUME NEW h \in 1..MaxHops, NEW id \in ToSet(o) \cap Ball[h - 1] PROVE Adjacent(id) \subseteq v
  <2>1. CASE id \in ToSet(ordered) BY <1>17, <1>36, <2>1 DEF Gathered
  <2>2. CASE id = x
    <3>1. d < n
      <4>1. SUFFICES ASSUME d = n PROVE FALSE BY <1>5
      <4>2. h - 1 \in 0..n /\ d # 0 /\ d - 1 \in 0..n /\ h - 1 <= d - 1 BY <1>1, <1>5, <4>1
      <4>3. Ball[h - 1] \subseteq Ball[d - 1] BY <1>1, <4>2, BallsGrow
      <4>q. QED BY <1>31, <1>36, <2>2, <4>2, <4>3
    <3>q. QED BY <1>6, <1>17, <2>2, <3>1
  <2>q. QED BY <1>16, <1>36, <2>1, <2>2
<1>37. search.seeds \subseteq v BY <1>17 DEF Gathered
<1>38. MaxHops \in d..n BY <1>1, <1>5
<1>39. Gathered(q, o, v)
  BY <1>22, <1>23, <1>27, <1>28, <1>29, <1>30, <1>34, <1>35, <1>36, <1>37, <1>38 DEF Gathered
<1>q. QED BY <1>s, <1>3, <1>14, <1>16, <1>17, <1>39


(* What is always true of the IR.                                          *)
IrInv ==
    /\ irFiles \in Seq(SourcePaths)
    /\ irSymbols \in Seq(ToSet(irSymbols))
    /\ \A s \in ToSet(irSymbols) : s.file \in ToSet(irFiles) /\ s.id[1] = "symbol"
    /\ IsFiniteSet(irEdges) /\ \A e \in irEdges : e.relation = "contains" => e.from[1] = "file"
    /\ \A n \in DOMAIN idsByName : IsFiniteSet(idsByName[n])
ViewFollows ==
    \/ view = NoView
    \/ mapped /\ (\/ \E full \in BOOLEAN : view = Laid(full)
                  \/ \E n \in ToSet(Laid(TRUE).nodes) : view = Below(Laid(TRUE), n.id))
GraphInv == IrInv /\ ViewFollows /\ SearchInv /\ (search # NoSearch => mapped /\ view = NoView)

(* The elements of a sequence, and of two.                                 *)
LEMMA Elements ==
    ASSUME NEW S, NEW s \in Seq(S)
    PROVE  /\ ToSet(s) = {s[i] : i \in 1..Len(s)} /\ IsFiniteSet(ToSet(s)) /\ ToSet(s) \subseteq S
           /\ Cardinality(ToSet(s)) <= Len(s)
<1>1. PICK n \in Nat : n = Len(s) /\ DOMAIN s = 1..n OBVIOUS
<1>2. IsFiniteSet(1..n) /\ Cardinality(1..n) = n
  <2>1. 1 \in Int /\ n \in Int OBVIOUS
  <2>2. IsFiniteSet(1..n) /\ Cardinality(1..n) = IF 1 > n THEN 0 ELSE n - 1 + 1 BY <2>1, FS_Interval
  <2>q. QED BY <2>2
<1>3. PICK T : T = {s[i] : i \in 1..n} OBVIOUS
<1>4. IsFiniteSet(T) /\ Cardinality(T) <= n BY <1>1, <1>2, <1>3, SetMapped
<1>5. ToSet(s) = T BY <1>1, <1>3 DEF ToSet
<1>6. T \subseteq S BY <1>1, <1>3
<1>q. QED BY <1>1, <1>3, <1>4, <1>5, <1>6

LEMMA EachMapped ==
    ASSUME NEW S, NEW s \in Seq(S), NEW T, NEW u \in [DOMAIN s -> T]
    PROVE  u \in Seq(T) /\ Len(u) = Len(s)
<1>1. PICK n \in Nat : n = Len(s) /\ DOMAIN s = 1..n OBVIOUS
<1>2. u \in [1..n -> T] BY <1>1
<1>q. QED BY <1>1, <1>2, SeqFrom

LEMMA WiderSeq ==
    ASSUME NEW S, NEW T, S \subseteq T, NEW s \in Seq(S)
    PROVE  s \in Seq(T)
<1>1. PICK n \in Nat : n = Len(s) /\ DOMAIN s = 1..n /\ s \in [1..n -> S] OBVIOUS
<1>2. s \in [1..n -> T] BY <1>1
<1>q. QED BY <1>1, <1>2, SeqFrom

LEMMA JoinedElements ==
    ASSUME NEW S, NEW s \in Seq(S), NEW t \in Seq(S)
    PROVE  s \o t \in Seq(S) /\ ToSet(s \o t) = ToSet(s) \cup ToSet(t)
<1>1. PICK n \in Nat, m \in Nat : n = Len(s) /\ m = Len(t) OBVIOUS
<1>2. PICK u : u = s \o t OBVIOUS
<1>3. u \in Seq(S) /\ Len(u) = n + m /\ (\A i \in 1..n : u[i] = s[i]) /\ \A i \in 1..m : u[n + i] = t[i]
  BY <1>1, <1>2, SeqJoined
<1>4. ToSet(u) = {u[i] : i \in 1..(n + m)} /\ ToSet(s) = {s[i] : i \in 1..n} /\ ToSet(t) = {t[i] : i \in 1..m}
  BY <1>1, <1>3, Elements
<1>5. \A i \in 1..n : i \in 1..(n + m) BY <1>1
<1>6. \A i \in 1..m : n + i \in 1..(n + m) BY <1>1
<1>7. \A i \in 1..(n + m) : i \in 1..n \/ (i - n \in 1..m /\ n + (i - n) = i) BY <1>1
<1>8. \A i \in 1..(n + m) : u[i] \in ToSet(s) \cup ToSet(t)
  <2> SUFFICES ASSUME NEW i \in 1..(n + m), i \notin 1..n PROVE u[i] \in ToSet(t) BY <1>3, <1>4
  <2>1. PICK k \in 1..m : n + k = i BY <1>7
  <2>q. QED BY <1>3, <1>4, <2>1
<1>9. ToSet(s) \subseteq ToSet(u) BY <1>3, <1>4, <1>5
<1>10. ToSet(t) \subseteq ToSet(u) BY <1>3, <1>4, <1>6
<1>11. ToSet(u) = ToSet(s) \cup ToSet(t) BY <1>4, <1>8, <1>9, <1>10
<1>q. QED BY <1>2, <1>3, <1>11

LEMMA InOwnSet ==
    ASSUME NEW S, NEW s \in Seq(S)
    PROVE  s \in Seq(ToSet(s))
<1>1. PICK n \in Nat : n = Len(s) /\ DOMAIN s = 1..n /\ s = [i \in 1..n |-> s[i]] OBVIOUS
<1>2. \A i \in 1..n : s[i] \in ToSet(s) BY <1>1 DEF ToSet
<1>3. s \in [1..n -> ToSet(s)] BY <1>1, <1>2
<1>q. QED BY <1>1, <1>3, SeqFrom

(* Finite unions and images.                                               *)
LEMMA UnionMapped ==
    ASSUME NEW S, IsFiniteSet(S), NEW f, DOMAIN f = S, \A x \in S : IsFiniteSet(f[x])
    PROVE  IsFiniteSet(UNION {f[x] : x \in S})
<1>1. PICK T : T = {f[x] : x \in S} OBVIOUS
<1>2. IsFiniteSet(T) BY <1>1, SetMapped
<1>3. \A t \in T : IsFiniteSet(t) BY <1>1
<1>q. QED BY <1>1, <1>2, <1>3, FS_UNION


LEMMA SymbolsTyped ==
    ASSUME GraphAssumption, NEW p \in SourcePaths, NEW t \in Texts[p]
    PROVE  /\ SymbolsOf(p, t) \in Seq(ToSet(SymbolsOf(p, t))) /\ IsFiniteSet(ToSet(SymbolsOf(p, t)))
           /\ \A s \in ToSet(SymbolsOf(p, t)) : s.file = p /\ s.id[1] = "symbol"
<1>1. DOMAIN t = TextFields /\ \A f \in TextFields : t[f] \in Seq(ToSet(t[f])) BY DEF GraphAssumption
<1>2. /\ t.fns \in Seq(ToSet(t.fns)) /\ t.macros \in Seq(ToSet(t.macros)) /\ t.impls \in Seq(ToSet(t.impls))
      /\ t.templates \in Seq(ToSet(t.templates)) /\ t.signals \in Seq(ToSet(t.signals))
  BY <1>1 DEF TextFields
<1> DEFINE Kinds4 == {"macro_call", "trait_impl_method", "circom_template", "circom_signal"}
           Decls == ToSet(t.macros) \cup ToSet(t.impls) \cup ToSet(t.templates) \cup ToSet(t.signals)
           W == {Symbol(FunctionId(p, x.name), p, "function", x) : x \in ToSet(t.fns)}
                \cup {Symbol(DeclId(p, z[1], z[2]), p, z[1], z[2]) : z \in Kinds4 \X Decls}
           Others(kind, ds) == [i \in DOMAIN ds |-> Symbol(DeclId(p, kind, ds[i]), p, kind, ds[i])]
<1>3. \A s \in W : s.file = p /\ s.id[1] = "symbol" BY DEF Symbol, FunctionId, DeclId
<1>4. \A k \in Kinds4, x \in Decls : Symbol(DeclId(p, k, x), p, k, x) \in W
  <2> SUFFICES ASSUME NEW k \in Kinds4, NEW x \in Decls PROVE Symbol(DeclId(p, k, x), p, k, x) \in W OBVIOUS
  <2>1. PICK z \in Kinds4 \X Decls : z = <<k, x>> OBVIOUS
  <2>2. z[1] = k /\ z[2] = x BY <2>1
  <2>q. QED BY <2>2
<1>5. PICK u : u = [i \in DOMAIN t.fns |-> Symbol(FunctionId(p, t.fns[i].name), p, "function", t.fns[i])] OBVIOUS
<1>6. u \in Seq(W)
  <2>1. \A i \in DOMAIN t.fns : u[i] \in W BY <1>5 DEF ToSet
  <2>2. PICK d : d = t.fns /\ d \in Seq(ToSet(d)) BY <1>2
  <2>3. u \in [DOMAIN d -> W] BY <1>5, <2>1, <2>2
  <2> HIDE DEF W
  <2>q. QED BY <2>2, <2>3, EachMapped
<1> HIDE DEF W
<1>7. ASSUME NEW k \in Kinds4, NEW ds, ds \in Seq(ToSet(ds)), ToSet(ds) \subseteq Decls
      PROVE  Others(k, ds) \in Seq(W)
  <2>1. PICK v : v = Others(k, ds) OBVIOUS
  <2>2. v \in [DOMAIN ds -> W] BY <1>4, <1>7, <2>1 DEF ToSet
  <2>q. QED BY <1>7, <2>1, <2>2, EachMapped
<1>8. /\ Others("macro_call", t.macros) \in Seq(W) /\ Others("trait_impl_method", t.impls) \in Seq(W)
      /\ Others("circom_template", t.templates) \in Seq(W) /\ Others("circom_signal", t.signals) \in Seq(W)
  BY <1>2, <1>7
<1>9. SymbolsOf(p, t) = u \o Others("macro_call", t.macros) \o Others("trait_impl_method", t.impls)
                        \o Others("circom_template", t.templates) \o Others("circom_signal", t.signals)
  BY <1>5 DEF SymbolsOf
<1> HIDE DEF Others
<1>10. PICK a, b, c, e : /\ a = Others("macro_call", t.macros) /\ b = Others("trait_impl_method", t.impls)
                         /\ c = Others("circom_template", t.templates) /\ e = Others("circom_signal", t.signals)
  OBVIOUS
<1>11. u \o a \in Seq(W) BY <1>6, <1>8, <1>10, SeqJoined
<1>12. (u \o a) \o b \in Seq(W) BY <1>8, <1>10, <1>11, SeqJoined
<1>13. ((u \o a) \o b) \o c \in Seq(W) BY <1>8, <1>10, <1>12, SeqJoined
<1>14. (((u \o a) \o b) \o c) \o e \in Seq(W) BY <1>8, <1>10, <1>13, SeqJoined
<1>15. PICK r : r = SymbolsOf(p, t) /\ r \in Seq(W) BY <1>9, <1>10, <1>14
<1>16. ToSet(r) \subseteq W /\ IsFiniteSet(ToSet(r)) /\ r \in Seq(ToSet(r)) BY <1>15, Elements, InOwnSet
<1>q. QED BY <1>3, <1>15, <1>16

LEMMA FieldsTyped ==
    ASSUME GraphAssumption, NEW p \in SourcePaths, NEW t \in Texts[p], NEW f \in TextFields
    PROVE  t[f] \in Seq(ToSet(t[f])) /\ IsFiniteSet(ToSet(t[f]))
<1>1. t[f] \in Seq(ToSet(t[f])) BY DEF GraphAssumption
<1>2. PICK s : s = t[f] /\ s \in Seq(ToSet(s)) BY <1>1
<1>3. IsFiniteSet(ToSet(s)) BY <1>2, Elements
<1>q. QED BY <1>2, <1>3

LEMMA NamesFinite ==
    ASSUME GraphAssumption, NEW p \in SourcePaths, NEW t \in Texts[p],
           \A n \in DOMAIN idsByName : IsFiniteSet(idsByName[n])
    PROVE  \A n : IsFiniteSet(IdsNamed(NamesWith(p, t), n))
<1> DEFINE A == {<<f.name, FunctionId(p, f.name)>> : f \in ToSet(t.fns)}
           B == {<<m.method, DeclId(p, "trait_impl_method", m)>> : m \in ToSet(t.impls)}
           named == A \cup B
<1>1. IsFiniteSet(ToSet(t.fns)) /\ IsFiniteSet(ToSet(t.impls)) BY FieldsTyped DEF TextFields
<1>2. IsFiniteSet(A)
  <2>1. PICK f : f = [x \in ToSet(t.fns) |-> <<x.name, FunctionId(p, x.name)>>] OBVIOUS
  <2>2. A = {f[x] : x \in ToSet(t.fns)} BY <2>1
  <2>3. DOMAIN f = ToSet(t.fns) BY <2>1
  <2> HIDE DEF A
  <2>q. QED BY <1>1, <2>2, <2>3, SetMapped
<1>3. IsFiniteSet(B)
  <2>1. PICK f : f = [x \in ToSet(t.impls) |-> <<x.method, DeclId(p, "trait_impl_method", x)>>] OBVIOUS
  <2>2. B = {f[x] : x \in ToSet(t.impls)} BY <2>1
  <2>3. DOMAIN f = ToSet(t.impls) BY <2>1
  <2> HIDE DEF B
  <2>q. QED BY <1>1, <2>2, <2>3, SetMapped
<1>4. IsFiniteSet(named) BY <1>2, <1>3, FS_Union
<1>5. NamesWith(p, t) = [n \in DOMAIN idsByName \cup {x[1] : x \in named} |->
                            IdsNamed(idsByName, n) \cup {x[2] : x \in {y \in named : y[1] = n}}]
  BY DEF NamesWith
<1> HIDE DEF named
<1> SUFFICES ASSUME NEW n PROVE IsFiniteSet(IdsNamed(NamesWith(p, t), n)) OBVIOUS
<1>6. CASE n \notin DOMAIN NamesWith(p, t) BY <1>6, FS_EmptySet DEF IdsNamed
<1>7. CASE n \in DOMAIN NamesWith(p, t)
  <2>1. PICK S : S = {y \in named : y[1] = n} OBVIOUS
  <2>2. IsFiniteSet(S) BY <1>4, <2>1, FS_Subset
  <2>3. PICK f : f = [x \in S |-> x[2]] OBVIOUS
  <2>4. PICK T : T = {f[x] : x \in S} OBVIOUS
  <2>5. IsFiniteSet(T)
    <3>1. DOMAIN f = S BY <2>3
    <3>q. QED BY <2>2, <2>4, <3>1, SetMapped
  <2>6. T = {x[2] : x \in {y \in named : y[1] = n}} BY <2>1, <2>3, <2>4
  <2>7. IsFiniteSet(IdsNamed(idsByName, n)) BY FS_EmptySet DEF IdsNamed
  <2>8. IdsNamed(NamesWith(p, t), n) = IdsNamed(idsByName, n) \cup T
    <3>1. n \in DOMAIN idsByName \cup {x[1] : x \in named} BY <1>5, <1>7
    <3>2. NamesWith(p, t)[n] = IdsNamed(idsByName, n) \cup T BY <1>5, <2>6, <3>1
    <3>q. QED BY <1>7, <3>2 DEF IdsNamed
  <2>q. QED BY <2>5, <2>7, <2>8, FS_Union
<1>q. QED BY <1>6, <1>7

LEMMA EdgesFinite ==
    ASSUME GraphAssumption, NEW p \in SourcePaths, NEW t \in Texts[p], NEW names, \A n : IsFiniteSet(IdsNamed(names, n))
    PROVE  /\ IsFiniteSet(ContainsEdges(p, t)) /\ IsFiniteSet(InvokesMacro(p, t)) /\ IsFiniteSet(LetFlows(p, t))
           /\ IsFiniteSet(CallsOf(p, t, names))
           /\ IsFiniteSet({Edge(FileId(p), f.id, "cfg_divergence") : f \in NewFeatures(p, t)})
           /\ \A e \in ContainsEdges(p, t) \cup InvokesMacro(p, t) \cup LetFlows(p, t) \cup CallsOf(p, t, names)
                       \cup {Edge(FileId(p), f.id, "cfg_divergence") : f \in NewFeatures(p, t)} :
                 e.relation = "contains" => e.from[1] = "file"
<1>1. /\ IsFiniteSet(ToSet(t.macros)) /\ IsFiniteSet(ToSet(t.vars)) /\ IsFiniteSet(ToSet(t.signals))
      /\ IsFiniteSet(ToSet(t.calls)) /\ t.cfgs \in Seq(ToSet(t.cfgs))
  BY FieldsTyped DEF TextFields
<1>2. IsFiniteSet(ContainsEdges(p, t))
  <2>1. PICK S : S = {x \in ToSet(SymbolsOf(p, t)) : x.kind # "circom_signal"} OBVIOUS
  <2>2. IsFiniteSet(S) BY <2>1, SymbolsTyped, FS_Subset
  <2>3. PICK f : f = [s \in S |-> Edge(FileId(p), s.id, "contains")] OBVIOUS
  <2>4. PICK g : g = [s \in ToSet(t.signals) |->
                          Edge(TemplateOf(p, t, s), DeclId(p, "circom_signal", s),
                               IF TemplateOf(p, t, s) = FileId(p) THEN "contains" ELSE "declares_signal")]
    OBVIOUS
  <2>5. PICK A, B : A = {f[s] : s \in S} /\ B = {g[s] : s \in ToSet(t.signals)} OBVIOUS
  <2>6. DOMAIN f = S /\ DOMAIN g = ToSet(t.signals) BY <2>3, <2>4
  <2>7. IsFiniteSet(A) BY <2>2, <2>5, <2>6, SetMapped
  <2>8. IsFiniteSet(B)
    <3>1. PICK T : T = ToSet(t.signals) OBVIOUS
    <3>2. IsFiniteSet(T) /\ DOMAIN g = T /\ B = {g[s] : s \in T} BY <1>1, <2>5, <2>6, <3>1
    <3>q. QED BY <3>2, SetMapped
  <2>9. ContainsEdges(p, t) = A \cup B BY <2>1, <2>3, <2>4, <2>5 DEF ContainsEdges
  <2>q. QED BY <2>7, <2>8, <2>9, FS_Union
<1>3. IsFiniteSet(InvokesMacro(p, t))
  <2>1. PICK S : S = {x \in ToSet(t.macros) : x.caller # "none"} OBVIOUS
  <2>2. IsFiniteSet(S) BY <1>1, <2>1, FS_Subset
  <2>3. PICK f : f = [m \in S |-> Edge(FunctionId(p, m.caller), DeclId(p, "macro_call", m), "invokes_macro")] OBVIOUS
  <2>4. DOMAIN f = S /\ InvokesMacro(p, t) = {f[m] : m \in S} BY <2>1, <2>3 DEF InvokesMacro
  <2>q. QED BY <2>2, <2>4, SetMapped
<1>4. IsFiniteSet(LetFlows(p, t))
  <2>1. PICK S : S = {x \in ToSet(t.vars) : x.fn # "none"} OBVIOUS
  <2>2. IsFiniteSet(S) BY <1>1, <2>1, FS_Subset
  <2>3. PICK f : f = [v \in S |-> Edge(FlowId(FunctionId(p, v.fn)), VarId(p, v), "parameter_flow")] OBVIOUS
  <2>4. DOMAIN f = S /\ LetFlows(p, t) = {f[v] : v \in S} BY <2>1, <2>3 DEF LetFlows
  <2>q. QED BY <2>2, <2>4, SetMapped
<1>5. IsFiniteSet(CallsOf(p, t, names))
  <2> DEFINE Three(x, y) == {Edge(x, y, "calls"), Edge(FlowId(x), FlowId(y), "parameter_flow"),
                                 Edge(FlowId(y), FlowId(x), "return_flow")}
             Reached(c) == UNION {Three(FunctionId(p, c.caller), to) : to \in IdsNamed(names, c.callee)}
  <2>1. \A x, y : IsFiniteSet(Three(x, y))
    <3> SUFFICES ASSUME NEW x, NEW y PROVE IsFiniteSet(Three(x, y)) OBVIOUS
    <3>1. PICK a, b, c : a = Edge(x, y, "calls") /\ b = Edge(FlowId(x), FlowId(y), "parameter_flow")
                         /\ c = Edge(FlowId(y), FlowId(x), "return_flow") OBVIOUS
    <3>2. IsFiniteSet({a}) /\ IsFiniteSet({b}) /\ IsFiniteSet({c}) BY FS_Singleton
    <3>3. IsFiniteSet({a} \cup {b}) BY <3>2, FS_Union
    <3>4. IsFiniteSet(({a} \cup {b}) \cup {c}) BY <3>2, <3>3, FS_Union
    <3>5. Three(x, y) = ({a} \cup {b}) \cup {c} BY <3>1
    <3>q. QED BY <3>4, <3>5
  <2> HIDE DEF Three
  <2>2. ASSUME NEW c PROVE IsFiniteSet(Reached(c))
    <3>1. PICK T : T = IdsNamed(names, c.callee) /\ IsFiniteSet(T) OBVIOUS
    <3>2. PICK f : f = [to \in T |-> Three(FunctionId(p, c.caller), to)] OBVIOUS
    <3>3. DOMAIN f = T /\ \A x \in T : IsFiniteSet(f[x]) BY <2>1, <3>2
    <3>4. Reached(c) = UNION {f[x] : x \in T} BY <3>1, <3>2
    <3>q. QED BY <3>1, <3>3, <3>4, UnionMapped
  <2>3. CallsOf(p, t, names) = UNION {Reached(c) : c \in ToSet(t.calls)} BY DEF CallsOf, Three
  <2> HIDE DEF Reached
  <2>0. PICK S : S = ToSet(t.calls) /\ IsFiniteSet(S) BY <1>1
  <2>4. PICK f : f = [c \in S |-> Reached(c)] OBVIOUS
  <2>5. DOMAIN f = S /\ \A c \in S : IsFiniteSet(f[c]) BY <2>2, <2>4
  <2>6. CallsOf(p, t, names) = UNION {f[c] : c \in S} BY <2>0, <2>3, <2>4
  <2>7. IsFiniteSet(UNION {f[c] : c \in S}) BY <2>0, <2>5, UnionMapped
  <2>q. QED BY <2>6, <2>7
<1>6. IsFiniteSet({Edge(FileId(p), f.id, "cfg_divergence") : f \in NewFeatures(p, t)})
  <2>1. PICK S : S = {k \in DOMAIN t.cfgs : /\ \A j \in 1..k - 1 : t.cfgs[j].name # t.cfgs[k].name
                                            /\ texts[p] = NoText} OBVIOUS
  <2>2. IsFiniteSet(S)
    <3>1. PICK n \in Nat : DOMAIN t.cfgs = 1..n BY <1>1
    <3>2. IsFiniteSet(1..n) BY FS_Interval
    <3>q. QED BY <2>1, <3>1, <3>2, FS_Subset
  <2>3. PICK f : f = [i \in S |-> Edge(FileId(p), FeatureId(p, t.cfgs[i]), "cfg_divergence")] OBVIOUS
  <2>4. PICK T : T = {f[i] : i \in S} OBVIOUS
  <2>5. IsFiniteSet(T)
    <3>1. DOMAIN f = S BY <2>3
    <3>q. QED BY <2>2, <2>4, <3>1, SetMapped
  <2>6. NewFeatures(p, t) = {[id |-> FeatureId(p, t.cfgs[i]), feature |-> t.cfgs[i].name] : i \in S}
    BY <2>1 DEF NewFeatures
  <2>7. {Edge(FileId(p), x.id, "cfg_divergence") : x \in NewFeatures(p, t)} = T
    <3>1. \A x \in NewFeatures(p, t) : \E i \in S : x.id = FeatureId(p, t.cfgs[i]) BY <2>6
    <3>2. ASSUME NEW i \in S PROVE \E x \in NewFeatures(p, t) : x.id = FeatureId(p, t.cfgs[i])
      <4>1. PICK x : x = [id |-> FeatureId(p, t.cfgs[i]), feature |-> t.cfgs[i].name] OBVIOUS
      <4>2. x \in NewFeatures(p, t) /\ x.id = FeatureId(p, t.cfgs[i]) BY <2>6, <4>1
      <4>q. QED BY <4>2
    <3>3. \A i \in S : f[i] = Edge(FileId(p), FeatureId(p, t.cfgs[i]), "cfg_divergence") BY <2>3
    <3>q. QED BY <2>4, <3>1, <3>2, <3>3
  <2>q. QED BY <2>5, <2>7
<1>7. \A e \in ContainsEdges(p, t) : e.relation = "contains" => e.from[1] = "file" BY DEF ContainsEdges, Edge, FileId
<1>8. \A e \in InvokesMacro(p, t) \cup LetFlows(p, t) \cup CallsOf(p, t, names)
              \cup {Edge(FileId(p), f.id, "cfg_divergence") : f \in NewFeatures(p, t)} : e.relation # "contains"
  BY DEF InvokesMacro, LetFlows, CallsOf, Edge
<1>q. QED BY <1>2, <1>3, <1>4, <1>5, <1>6, <1>7, <1>8


LEMMA BallOfNone == search.seeds \subseteq Around => Ball[0] = search.seeds
BY GraphAssumption, Balls

LEMMA NoSearchInv ==
    ASSUME GraphAssumption, search = NoSearch
    PROVE  SearchInv
<1>1. /\ search.seeds = {} /\ search.queue = <<>> /\ search.visited = {} /\ search.ordered = <<>>
      /\ search = [seeds |-> search.seeds, queue |-> search.queue, visited |-> search.visited,
                   ordered |-> search.ordered]
  BY DEF NoSearch
<1>2. ToSet(search.ordered) = {} /\ StillQueued(search.queue) = {} BY <1>1 DEF ToSet, StillQueued
<1>3. Gathered(search.queue, search.ordered, search.visited) BY <1>1, <1>2 DEF Gathered, Once
<1>4. search.queue \in Queues /\ search.ordered \in Seq(Around) BY <1>1 DEF Queues
<1>5. Len(search.ordered) <= MaxNodes BY <1>1 DEF GraphAssumption
<1>q. QED BY <1>1, <1>3, <1>4, <1>5 DEF SearchInv

LEMMA NoSearchThen == search = NoSearch => SearchInv
BY GraphAssumption, NoSearchInv

(* The explorer graph depends on files, symbols and edges only.             *)
LEMMA LaidKept ==
    ASSUME irFiles' = irFiles, irSymbols' = irSymbols, irEdges' = irEdges
    PROVE  Laid(TRUE)' = Laid(TRUE) /\ Laid(FALSE)' = Laid(FALSE)
<1>1. SymbolNodes' = SymbolNodes /\ SymbolEdges' = SymbolEdges BY DEF SymbolNodes, SymbolEdges
<1>2. \A id : TempOf(id)' = TempOf(id) BY DEF TempOf
<1>3. SymIds' = SymIds BY DEF SymIds
<1>4. CrossEdges' = CrossEdges BY <1>2, <1>3 DEF CrossEdges
<1>5. PICK files, ns, es : files = irFiles /\ ns = SymbolNodes /\ es = SymbolEdges \o CrossEdges OBVIOUS
<1>q. QED BY <1>1, <1>4 DEF Laid

LEMMA InitGraphInv == GraphAssumption /\ GraphInit => GraphInv
<1> SUFFICES ASSUME GraphAssumption, GraphInit PROVE GraphInv OBVIOUS
<1>1. irFiles = <<>> /\ irSymbols = <<>> /\ irEdges = {} /\ idsByName = <<>> /\ view = NoView /\ search = NoSearch
  BY DEF GraphInit
<1>2. IrInv
  <2>1. ToSet(irSymbols) = {} BY <1>1 DEF ToSet
  <2>2. irFiles \in Seq(SourcePaths) /\ irSymbols \in Seq(ToSet(irSymbols)) BY <1>1
  <2>3. DOMAIN idsByName = {} BY <1>1
  <2>q. QED BY <1>1, <2>1, <2>2, <2>3, FS_EmptySet DEF IrInv
<1>q. QED BY <1>1, <1>2, NoSearchInv DEF GraphInv, ViewFollows

LEMMA WalkKeepsIr == ASSUME GraphAssumption, IrInv, WalkFile PROVE IrInv'
<1>0. PICK p \in SourcePaths : \E t \in Texts[p] :
          /\ irFiles' = Append(irFiles, p) /\ irSymbols' = irSymbols \o SymbolsOf(p, t)
          /\ idsByName' = NamesWith(p, t)
          /\ irEdges' = irEdges \cup ContainsEdges(p, t) \cup InvokesMacro(p, t) \cup LetFlows(p, t)
                        \cup CallsOf(p, t, NamesWith(p, t))
                        \cup {Edge(FileId(p), f.id, "cfg_divergence") : f \in NewFeatures(p, t)}
  BY Zenon DEF WalkFile
<1>1. PICK t \in Texts[p] :
          /\ irFiles' = Append(irFiles, p) /\ irSymbols' = irSymbols \o SymbolsOf(p, t)
          /\ idsByName' = NamesWith(p, t)
          /\ irEdges' = irEdges \cup ContainsEdges(p, t) \cup InvokesMacro(p, t) \cup LetFlows(p, t)
                        \cup CallsOf(p, t, NamesWith(p, t))
                        \cup {Edge(FileId(p), f.id, "cfg_divergence") : f \in NewFeatures(p, t)}
  BY <1>0
<1>2. irFiles' \in Seq(SourcePaths) /\ ToSet(irFiles)' = ToSet(irFiles) \cup {p}
  <2>1. irFiles \in Seq(SourcePaths) BY DEF IrInv
  <2>2. Append(irFiles, p) \in Seq(SourcePaths) /\ ToSet(Append(irFiles, p)) = ToSet(irFiles) \cup {p}
    BY <2>1, SeqAppended
  <2>q. QED BY <1>1, <2>2
<1>3. /\ irSymbols' \in Seq(ToSet(irSymbols'))
      /\ \A s \in ToSet(irSymbols') : s.file \in ToSet(irFiles') /\ s.id[1] = "symbol"
  <2>1. PICK a, b : a = irSymbols /\ b = SymbolsOf(p, t) OBVIOUS
  <2>2. PICK S : S = ToSet(a) \cup ToSet(b) OBVIOUS
  <2>3. a \in Seq(ToSet(a)) /\ b \in Seq(ToSet(b)) BY <2>1, SymbolsTyped DEF IrInv
  <2>4. a \in Seq(S) BY <2>2, <2>3, WiderSeq
  <2>5. b \in Seq(S) BY <2>2, <2>3, WiderSeq
  <2>6. a \o b \in Seq(S) /\ ToSet(a \o b) = ToSet(a) \cup ToSet(b) BY <2>4, <2>5, JoinedElements
  <2>7. irSymbols' = a \o b BY <1>1, <2>1
  <2>8. irSymbols' \in Seq(ToSet(irSymbols')) /\ ToSet(irSymbols') = ToSet(irSymbols) \cup ToSet(b)
    BY <2>1, <2>2, <2>6, <2>7
  <2>9. \A s \in ToSet(b) : s.file = p /\ s.id[1] = "symbol" BY <2>1, SymbolsTyped
  <2>10. \A s \in ToSet(irSymbols) : s.file \in ToSet(irFiles) /\ s.id[1] = "symbol" BY DEF IrInv
  <2>11. ToSet(irFiles') = ToSet(irFiles) \cup {p} BY <1>2
  <2>q. QED BY <2>8, <2>9, <2>10, <2>11
<1>4. \A n : IsFiniteSet(IdsNamed(NamesWith(p, t), n)) BY NamesFinite DEF IrInv
<1>5. \A n \in DOMAIN idsByName' : IsFiniteSet(idsByName'[n])
  <2> SUFFICES ASSUME NEW n \in DOMAIN idsByName' PROVE IsFiniteSet(idsByName'[n]) OBVIOUS
  <2>1. IsFiniteSet(IdsNamed(NamesWith(p, t), n)) /\ n \in DOMAIN NamesWith(p, t) BY <1>1, <1>4
  <2>q. QED BY <1>1, <2>1 DEF IdsNamed
<1>6. IsFiniteSet(irEdges') /\ \A e \in irEdges' : e.relation = "contains" => e.from[1] = "file"
  <2>1. PICK A, B, C, D, E : /\ A = ContainsEdges(p, t) /\ B = InvokesMacro(p, t) /\ C = LetFlows(p, t)
                             /\ D = CallsOf(p, t, NamesWith(p, t))
                             /\ E = {Edge(FileId(p), f.id, "cfg_divergence") : f \in NewFeatures(p, t)}
    OBVIOUS
  <2>2. /\ IsFiniteSet(A) /\ IsFiniteSet(B) /\ IsFiniteSet(C) /\ IsFiniteSet(D) /\ IsFiniteSet(E)
        /\ \A e \in A \cup B \cup C \cup D \cup E : e.relation = "contains" => e.from[1] = "file"
    <3>1. PICK names : names = NamesWith(p, t) /\ \A n : IsFiniteSet(IdsNamed(names, n)) BY <1>4
    <3>q. QED BY <2>1, <3>1, EdgesFinite
  <2>3. irEdges' = irEdges \cup A \cup B \cup C \cup D \cup E BY <1>1, <2>1
  <2>4. IsFiniteSet(irEdges) /\ \A e \in irEdges : e.relation = "contains" => e.from[1] = "file" BY DEF IrInv
  <2>5. IsFiniteSet(irEdges \cup A) BY <2>2, <2>4, FS_Union
  <2>6. IsFiniteSet(irEdges \cup A \cup B) BY <2>2, <2>5, FS_Union
  <2>7. IsFiniteSet(irEdges \cup A \cup B \cup C) BY <2>2, <2>6, FS_Union
  <2>8. IsFiniteSet(irEdges \cup A \cup B \cup C \cup D) BY <2>2, <2>7, FS_Union
  <2>9. IsFiniteSet(irEdges \cup A \cup B \cup C \cup D \cup E) BY <2>2, <2>8, FS_Union
  <2>q. QED BY <2>2, <2>3, <2>4, <2>9
<1>q. QED BY <1>2, <1>3, <1>5, <1>6 DEF IrInv

(* A search only looks at the edges.                                       *)
LEMMA SearchKept ==
    ASSUME irEdges' = irEdges, search'.seeds = search.seeds
    PROVE  Around' = Around /\ Ball' = Ball /\ Queues' = Queues /\ \A id : Adjacent(id)' = Adjacent(id)
<1>1. Around' = Around BY DEF Around
<1>2. \A id : Adjacent(id)' = Adjacent(id) BY DEF Adjacent
<1>3. \A ids : OneHop(ids)' = OneHop(ids) BY <1>2 DEF OneHop
<1>4. Ball' = Ball BY DEF Ball, OneHop, Adjacent
<1>q. QED BY <1>1, <1>2, <1>4 DEF Queues

LEMMA SelectKeeps == ASSUME GraphAssumption, GraphInv, Select PROVE GraphInv'
<1>1. PICK seeds \in Selections :
          /\ mapped /\ view = NoView /\ search = NoSearch
          /\ search' = [seeds |-> seeds, visited |-> seeds, ordered |-> <<>>,
                        queue |-> [i \in 1..Cardinality(seeds) |-> [id |-> SetToSeq(seeds)[i], hops |-> 0]]]
  BY Zenon DEF Select
<1>2. UNCHANGED <<texts, irFiles, irSymbols, irFlows, irFeatures, irEdges, idsByName, mapped, view>> BY DEF Select
<1>3. IsFiniteSet(seeds)
  <2>1. CASE seeds \in {{FileId(p)} : p \in ToSet(irFiles)}
    <3>1. PICK p \in ToSet(irFiles) : seeds = {FileId(p)} BY <2>1
    <3>2. IsFiniteSet({FileId(p)}) BY FS_Singleton
    <3>q. QED BY <3>1, <3>2
  <2>2. CASE \E n : seeds = {s.id : s \in {x \in ToSet(irSymbols) : x.name = n}}
    <3>1. PICK n : seeds = {s.id : s \in {x \in ToSet(irSymbols) : x.name = n}} BY <2>2
    <3>2. PICK S : S = {x \in ToSet(irSymbols) : x.name = n} OBVIOUS
    <3>3. IsFiniteSet(ToSet(irSymbols)) BY Elements DEF GraphInv, IrInv
    <3>4. IsFiniteSet(S) BY <3>2, <3>3, FS_Subset
    <3>5. PICK f : f = [s \in S |-> s.id] OBVIOUS
    <3>6. DOMAIN f = S /\ seeds = {f[s] : s \in S} BY <3>1, <3>2, <3>5
    <3>q. QED BY <3>4, <3>6, SetMapped
  <2>q. QED BY <2>1, <2>2 DEF Selections
<1>4. PICK f \in Seq(seeds) : f = SetToSeq(seeds) /\ (\A i, j \in DOMAIN f : f[i] = f[j] => i = j)
                              /\ {f[i] : i \in DOMAIN f} = seeds /\ DOMAIN f = 1..Cardinality(seeds)
  BY <1>3, EachInSeq, SeqOfSet
<1>5. PICK m \in Nat : m = Cardinality(seeds) /\ DOMAIN f = 1..m BY <1>3, <1>4, FS_CardinalityType
<1>6. PICK q : q = [i \in 1..m |-> [id |-> f[i], hops |-> 0]] OBVIOUS
<1>7. search' = [seeds |-> seeds, visited |-> seeds, ordered |-> <<>>, queue |-> q] BY <1>1, <1>4, <1>5, <1>6
<1>8. search'.seeds = seeds /\ search'.queue = q /\ search'.visited = seeds /\ search'.ordered = <<>> BY <1>7
<1>9. PICK A : A = Around' /\ seeds \subseteq A BY <1>8 DEF Around
<1>10. PICK n \in Nat : n = MaxHops BY DEF GraphAssumption
<1>11. DOMAIN q = 1..m /\ \A i \in 1..m : q[i].id = f[i] /\ q[i].hops = 0 /\ f[i] \in seeds BY <1>5, <1>6
<1>12. q \in Queues'
  <2>1. PICK E : E = [id : A, hops : 0..n] OBVIOUS
  <2>2. \A i \in 1..m : [id |-> f[i], hops |-> 0] \in E BY <1>9, <1>11, <2>1
  <2>3. q \in [1..m -> E] BY <1>6, <2>2
  <2>4. q \in Seq(E) BY <2>3, SeqFrom
  <2>q. QED BY <1>9, <1>10, <2>1, <2>4 DEF Queues
<1>13. StillQueued(q) = seeds /\ ToSet(<<>>) = {}
  <2>1. StillQueued(q) = {f[i] : i \in 1..m} BY <1>11 DEF StillQueued
  <2>q. QED BY <1>4, <1>5, <2>1 DEF ToSet
<1>14. Ball'[0] = seeds
  <2>1. search'.seeds \subseteq Around' BY <1>8, <1>9
  <2>3. (search.seeds \subseteq Around => Ball[0] = search.seeds)' BY BallOfNone, PTL
  <2>q. QED BY <1>8, <2>1, <2>3
<1>15. Gathered(search.queue, search.ordered, search.visited)'
  <2>1. \A i, j \in DOMAIN q : q[i].id = q[j].id => i = j BY <1>4, <1>5, <1>11
  <2>q. QED BY <1>8, <1>11, <1>13, <1>14, <2>1 DEF Gathered, Once
<1>16. SearchInv'
  <2>1. search' \in [seeds : SUBSET A, queue : Queues', visited : SUBSET A, ordered : Seq(A)]
    BY <1>7, <1>9, <1>12
  <2>2. Len(<<>>) <= MaxNodes BY DEF GraphAssumption
  <2>q. QED BY <1>8, <1>9, <1>15, <2>1, <2>2 DEF SearchInv
<1>17. IrInv' BY <1>2 DEF GraphInv, IrInv
<1>18. view' = NoView /\ mapped' BY <1>1, <1>2
<1>q. QED BY <1>16, <1>17, <1>18 DEF GraphInv, ViewFollows

LEMMA GatherKeeps == ASSUME GraphAssumption, GraphInv, Gather PROVE GraphInv'
<1> DEFINE waiting == search.queue
           ordered == search.ordered
           met == search.visited
<1>1. PICK fresh, next : fresh = NewlyMet(Head(waiting), met) /\ next = InLine(fresh, Head(waiting).hops + 1)
  OBVIOUS
<1>2. search' = [search EXCEPT !.ordered = Append(ordered, Head(waiting).id), !.queue = Tail(waiting) \o next,
                               !.visited = met \cup fresh]
  BY <1>1 DEF Gather, Pop, NewlyMet, InLine
<1>3. waiting # <<>> /\ Len(ordered) < MaxNodes
      /\ UNCHANGED <<texts, irFiles, irSymbols, irFlows, irFeatures, irEdges, idsByName, mapped, view>>
  BY DEF Gather, Searching
<1>4. search \in [seeds : SUBSET Around, queue : Queues, visited : SUBSET Around, ordered : Seq(Around)]
  BY DEF GraphInv, SearchInv
<1>5. search' = [seeds |-> search.seeds, ordered |-> Append(ordered, Head(waiting).id), queue |-> Tail(waiting) \o next,
                 visited |-> met \cup fresh]
  BY <1>2, <1>4
<1>6. /\ search'.seeds = search.seeds /\ search'.queue = Tail(waiting) \o next
      /\ search'.ordered = Append(ordered, Head(waiting).id) /\ search'.visited = met \cup fresh
  BY <1>5
<1>7. Around' = Around /\ Ball' = Ball /\ Queues' = Queues /\ \A id : Adjacent(id)' = Adjacent(id)
  BY <1>3, <1>6, SearchKept
<1>8. /\ Tail(waiting) \o next \in Queues /\ Append(ordered, Head(waiting).id) \in Seq(Around)
      /\ met \cup fresh \in SUBSET Around
      /\ Gathered(Tail(waiting) \o next, Append(ordered, Head(waiting).id), met \cup fresh)
  <2>1. IsFiniteSet(irEdges) /\ search.seeds \subseteq Around BY <1>4 DEF GraphInv, IrInv
  <2>2. /\ waiting \in Queues /\ ordered \in Seq(Around) /\ met \in SUBSET Around
        /\ Gathered(waiting, ordered, met)
    BY <1>4 DEF GraphInv, SearchInv
  <2>3. PICK q, o, v : q = waiting /\ o = ordered /\ v = met OBVIOUS
  <2>4. /\ q \in Queues /\ q # <<>> /\ o \in Seq(Around) /\ v \in SUBSET Around /\ Gathered(q, o, v)
        /\ fresh = NewlyMet(Head(q), v) /\ next = InLine(fresh, Head(q).hops + 1)
    BY <1>1, <1>3, <2>2, <2>3
  <2>5. /\ Tail(q) \o next \in Queues /\ Append(o, Head(q).id) \in Seq(Around)
        /\ v \cup fresh \in SUBSET Around
        /\ Gathered(Tail(q) \o next, Append(o, Head(q).id), v \cup fresh)
    BY <2>1, <2>4, PopKeeps
  <2>q. QED BY <2>3, <2>5
<1>9. Gathered(search.queue, search.ordered, search.visited)'
  <2>1. PICK q, o, v : q = Tail(waiting) \o next /\ o = Append(ordered, Head(waiting).id) /\ v = met \cup fresh
    OBVIOUS
  <2>2. Gathered(q, o, v) /\ search'.queue = q /\ search'.ordered = o /\ search'.visited = v BY <1>6, <1>8, <2>1
  <2>q. QED BY <1>6, <1>7, <2>2 DEF Gathered
<1>10. SearchInv'
  <2>1. Len(Append(ordered, Head(waiting).id)) <= MaxNodes
    <3>1. PICK k \in Nat : k = Len(ordered) BY <1>4
    <3>2. PICK n \in Nat : n = MaxNodes BY DEF GraphAssumption
    <3>3. Len(Append(ordered, Head(waiting).id)) = k + 1 BY <1>4, <3>1
    <3>q. QED BY <1>3, <3>1, <3>2, <3>3
  <2>2. search' \in [seeds : SUBSET Around, queue : Queues, visited : SUBSET Around, ordered : Seq(Around)]
    <3>1. search.seeds \in SUBSET Around BY <1>4
    <3>q. QED BY <1>5, <1>8, <3>1
  <2>q. QED BY <1>6, <1>7, <1>9, <2>1, <2>2 DEF SearchInv
<1>11. mapped /\ view = NoView
  <2>1. search # NoSearch BY <1>3 DEF NoSearch
  <2>q. QED BY <2>1 DEF GraphInv
<1>12. IrInv' /\ mapped' BY <1>3, <1>11 DEF GraphInv, IrInv
<1>q. QED BY <1>3, <1>10, <1>11, <1>12 DEF GraphInv, ViewFollows

(* What is nearer than the front of the queue was taken, and what is not   *)
(* nearer stands in no smaller ball than what was.                         *)
LEMMA NearestIfGathered == ASSUME GraphAssumption, SearchInv PROVE NearestFirst
<1> SUFFICES ASSUME ~Searching
             PROVE  /\ Cardinality(ToSet(search.ordered)) = Len(search.ordered)
                    /\ ToSet(search.ordered) \subseteq Ball[MaxHops]
                    /\ Len(search.ordered) < MaxNodes => ToSet(search.ordered) = Ball[MaxHops]
                    /\ \A h \in 0..MaxHops : ToSet(search.ordered) \subseteq Ball[h] \/ Ball[h] \subseteq ToSet(search.ordered)
  BY DEF NearestFirst, SearchInv
<1>1. PICK q, o, v : q = search.queue /\ o = search.ordered /\ v = search.visited OBVIOUS
<1>2. /\ q \in Queues /\ o \in Seq(Around) /\ search.seeds \subseteq Around /\ Gathered(q, o, v)
      /\ (q = <<>> \/ ~(Len(o) < MaxNodes))
  BY <1>1 DEF SearchInv, Searching
<1>3. PICK n \in Nat : n = MaxHops BY DEF GraphAssumption
<1>4. Cardinality(ToSet(o)) = Len(o)
  <2>1. PICK k \in Nat : k = Len(o) /\ DOMAIN o = 1..k /\ o \in [1..k -> Around] BY <1>2
  <2>2. o \in Bijection(1..k, ToSet(o))
    <3>1. ToSet(o) = {o[i] : i \in 1..k} BY <2>1 DEF ToSet
    <3>2. \A i, j \in 1..k : o[i] = o[j] => i = j BY <1>2, <2>1 DEF Gathered, Once
    <3>3. o \in [1..k -> ToSet(o)] BY <2>1, <3>1
    <3>4. o \in Injection(1..k, ToSet(o)) BY <3>2, <3>3 DEF Injection, IsInjective
    <3>5. o \in Surjection(1..k, ToSet(o)) BY <3>1, <3>3 DEF Surjection
    <3>q. QED BY <3>4, <3>5 DEF Bijection
  <2>3. ExistsBijection(1..k, ToSet(o)) BY <2>2 DEF ExistsBijection
  <2>4. Cardinality(ToSet(o)) = k BY <2>3, FS_CountingElements
  <2>q. QED BY <2>1, <2>4
<1>5. ToSet(o) \subseteq Ball[MaxHops] /\ v = ToSet(o) \cup StillQueued(q) BY <1>2 DEF Gathered
<1>6. CASE q = <<>>
  <2>1. StillQueued(q) = {} BY <1>6 DEF StillQueued
  <2>2. \A h \in 0..MaxHops : Ball[h] \subseteq v BY <1>2, <1>6, NearIsMet
  <2>3. \A h \in 0..MaxHops : Ball[h] \subseteq ToSet(o) BY <1>5, <2>1, <2>2
  <2>4. MaxHops \in 0..MaxHops BY <1>3
  <2>q. QED BY <1>1, <1>4, <1>5, <2>3, <2>4
<1>7. CASE q # <<>>
  <2>1. 1 \in DOMAIN q /\ (\A i \in DOMAIN q : q[i].hops \in 0..n /\ 1 <= i)
    <3>0. PICK E : E = [id : Around, hops : 0..n] OBVIOUS
    <3>1. q \in Seq(E) BY <1>2, <1>3, <3>0 DEF Queues
    <3>2. PICK l \in Nat : DOMAIN q = 1..l /\ l # 0 /\ \A i \in 1..l : q[i] \in E BY <1>7, <3>1, SeqParts
    <3>q. QED BY <3>0, <3>2
  <2>2. PICK d \in 0..n : d = q[1].hops BY <2>1
  <2>3. ASSUME NEW h \in 0..MaxHops PROVE ToSet(o) \subseteq Ball[h] \/ Ball[h] \subseteq ToSet(o)
    <3>1. CASE d <= h
      <4>1. ToSet(o) \subseteq Ball[d] BY <1>2, <2>1, <2>2 DEF Gathered
      <4>2. Ball[d] \subseteq Ball[h] BY <1>2, <1>3, <2>2, <2>3, <3>1, BallsGrow
      <4>q. QED BY <4>1, <4>2
    <3>2. CASE ~(d <= h)
      <4>1. h <= q[1].hops /\ h \in 0..n /\ h <= d BY <1>3, <2>2, <2>3, <3>2
      <4>2. Ball[h] \subseteq v BY <1>2, <1>3, <4>1, NearIsMet
      <4>3. ASSUME NEW i \in DOMAIN q, q[i].id \in Ball[h] PROVE FALSE
        <5>1. q[i].hops \in 0..n /\ d <= q[i].hops BY <1>2, <2>1, <2>2 DEF Gathered
        <5>2. q[i].hops # 0 /\ q[i].hops - 1 \in 0..n /\ h <= q[i].hops - 1 BY <2>2, <3>2, <4>1, <5>1
        <5>3. Ball[h] \subseteq Ball[q[i].hops - 1] BY <1>2, <1>3, <4>1, <5>2, BallsGrow
        <5>4. q[i].id \notin Ball[q[i].hops - 1] BY <1>2, <5>2 DEF Gathered
        <5>q. QED BY <4>3, <5>3, <5>4
      <4>q. QED BY <1>5, <4>2, <4>3 DEF StillQueued
    <3>q. QED BY <3>1, <3>2
  <2>q. QED BY <1>1, <1>2, <1>4, <1>5, <1>7, <2>3
<1>q. QED BY <1>6, <1>7

LEMMA StepGraphInv == GraphAssumption /\ GraphInv /\ [GraphNext]_graphVars => GraphInv'
<1> SUFFICES ASSUME GraphAssumption, GraphInv, [GraphNext]_graphVars PROVE GraphInv' OBVIOUS
<1>1. CASE WalkFile
  <2>1. ~mapped /\ UNCHANGED <<mapped, view, search>> BY <1>1 DEF WalkFile
  <2>2. view = NoView /\ search = NoSearch BY <2>1 DEF GraphInv, ViewFollows
  <2>3. SearchInv'
    <3>1. search' = NoSearch BY <2>1, <2>2
    <3>2. (search = NoSearch => SearchInv)' BY NoSearchThen, PTL
    <3>3. NoSearch' = NoSearch BY DEF NoSearch
    <3>q. QED BY <3>1, <3>2, <3>3
  <2>4. IrInv' BY <1>1, WalkKeepsIr DEF GraphInv
  <2>q. QED BY <2>1, <2>2, <2>3, <2>4 DEF GraphInv, ViewFollows
<1>2. CASE Mapped
  <2>1. ~mapped /\ UNCHANGED <<texts, irFiles, irSymbols, irFlows, irEdges, idsByName, view, search>> BY <1>2 DEF Mapped
  <2>2. view = NoView /\ search = NoSearch BY <2>1 DEF GraphInv, ViewFollows
  <2>3. SearchInv'
    <3>1. search' = NoSearch BY <2>1, <2>2
    <3>2. (search = NoSearch => SearchInv)' BY NoSearchThen, PTL
    <3>3. NoSearch' = NoSearch BY DEF NoSearch
    <3>q. QED BY <3>1, <3>2, <3>3
  <2>4. IrInv' BY <2>1 DEF GraphInv, IrInv
  <2>q. QED BY <2>1, <2>2, <2>3, <2>4 DEF GraphInv, ViewFollows
<1>3. CASE Explore
  <2>1. mapped /\ search = NoSearch /\ UNCHANGED <<irFiles, irSymbols, irEdges, idsByName, mapped, search>> BY <1>3 DEF Explore
  <2>2. SearchInv'
    <3>1. search' = NoSearch BY <2>1
    <3>2. (search = NoSearch => SearchInv)' BY NoSearchThen, PTL
    <3>3. NoSearch' = NoSearch BY DEF NoSearch
    <3>q. QED BY <3>1, <3>2, <3>3
  <2>3. IrInv' BY <2>1 DEF GraphInv, IrInv
  <2>4. Laid(TRUE)' = Laid(TRUE) /\ Laid(FALSE)' = Laid(FALSE) BY <2>1, LaidKept
  <2>5. ViewFollows'
    <3>1. CASE \E full \in BOOLEAN : view' = Laid(full)
      <4>1. \E full \in BOOLEAN : view' = Laid(full)' BY <2>4, <3>1
      <4>q. QED BY <2>1, <4>1 DEF ViewFollows
    <3>2. CASE \E x \in ToSet(Laid(TRUE).nodes) : view' = Below(Laid(TRUE), x.id)
      <4>1. PICK g : g = Laid(TRUE) OBVIOUS
      <4>2. \E x \in ToSet(g.nodes) : view' = Below(g, x.id) BY <3>2, <4>1
      <4>3. Laid(TRUE)' = g BY <2>4, <4>1
      <4>4. \E x \in ToSet(Laid(TRUE)'.nodes) : view' = Below(Laid(TRUE)', x.id) BY <4>2, <4>3
      <4>q. QED BY <2>1, <4>4 DEF ViewFollows
    <3>q. QED BY <1>3, <3>1, <3>2 DEF Explore
  <2>q. QED BY <2>1, <2>2, <2>3, <2>5 DEF GraphInv
<1>4. CASE Select BY <1>4, SelectKeeps
<1>5. CASE Gather BY <1>5, GatherKeeps
<1>6. CASE UNCHANGED graphVars
  <2>1. UNCHANGED <<irFiles, irSymbols, irEdges, idsByName, mapped, view, search>> BY <1>6 DEF graphVars
  <2>2. IrInv' BY <2>1 DEF GraphInv, IrInv
  <2>3. SearchInv'
    <3>1. Around' = Around /\ Ball' = Ball /\ Queues' = Queues /\ \A id : Adjacent(id)' = Adjacent(id)
      BY <2>1, SearchKept
    <3>2. Gathered(search.queue, search.ordered, search.visited)'
      <4>1. Gathered(search.queue, search.ordered, search.visited) BY DEF GraphInv, SearchInv
      <4>q. QED BY <2>1, <3>1, <4>1 DEF Gathered
    <3>q. QED BY <2>1, <3>1, <3>2 DEF GraphInv, SearchInv
  <2>4. Laid(TRUE)' = Laid(TRUE) /\ Laid(FALSE)' = Laid(FALSE) BY <2>1, LaidKept
  <2>5. ViewFollows' BY <2>1, <2>4 DEF GraphInv, ViewFollows
  <2>q. QED BY <2>1, <2>2, <2>3, <2>5 DEF GraphInv
<1>q. QED BY <1>1, <1>2, <1>3, <1>4, <1>5, <1>6 DEF GraphNext

(* The search invariant holds at every step, and the neighbourhood of a    *)
(* selection is that of its nearest nodes.                                 *)
THEOREM NeighbourhoodIsNearest == GraphSpec => []NearestFirst
<1>1. GraphInv => NearestFirst BY GraphAssumption, NearestIfGathered DEF GraphInv
<1>2. GraphInit => GraphInv BY GraphAssumption, InitGraphInv
<1>3. GraphInv /\ [GraphNext]_graphVars => GraphInv' BY GraphAssumption, StepGraphInv
<1>q. QED BY <1>1, <1>2, <1>3, PTL DEF GraphSpec


(* What is kept of a sequence, in its order: r holds the elements of s at  *)
(* the positions in keep, ix says where each stood.                        *)
Kept(s, keep, r, ix) ==
    /\ ix \in [1..Len(r) -> keep]
    /\ \A k, l \in 1..Len(r) : ix[k] = ix[l] => k = l
    /\ \A i \in keep : \E k \in 1..Len(r) : ix[k] = i
    /\ \A k \in 1..Len(r) : r[k] = s[ix[k]]

LEMMA KeepsOne ==
    ASSUME NEW S, NEW s \in Seq(S), NEW keep, NEW r \in Seq(S), NEW ix, Kept(s, keep, r, ix),
           NEW i \in 1..Len(s), i \notin keep
    PROVE  \E a : Append(r, s[i]) \in Seq(S) /\ Kept(s, keep \cup {i}, Append(r, s[i]), a)
<1>1. PICK n \in Nat : n = Len(r) /\ DOMAIN r = 1..n OBVIOUS
<1>2. PICK x \in S : x = s[i] OBVIOUS
<1>3. PICK q \in Seq(S) : q = Append(r, x) BY <1>2, SeqAppended
<1>4. Len(q) = n + 1 /\ q[n + 1] = x /\ \A k \in 1..n : q[k] = r[k] BY <1>1, <1>2, <1>3, SeqAppended
<1>5. \A k \in 1..(n + 1) : k \in 1..n \/ k = n + 1 BY <1>1
<1>6. \A k \in 1..n : k # n + 1 /\ k \in 1..(n + 1) BY <1>1
<1>7. PICK a : a = [k \in 1..(n + 1) |-> IF k = n + 1 THEN i ELSE ix[k]] OBVIOUS
<1>8. n + 1 \in 1..(n + 1) /\ a[n + 1] = i BY <1>1, <1>7
<1>9. ix \in [1..n -> keep] /\ \A k \in 1..n : a[k] = ix[k] /\ ix[k] # i
  <2>1. ix \in [1..n -> keep] BY <1>1 DEF Kept
  <2>2. \A k \in 1..n : ix[k] # i BY <2>1
  <2>3. \A k \in 1..n : a[k] = ix[k] BY <1>6, <1>7
  <2>q. QED BY <2>1, <2>2, <2>3
<1>10. a \in [1..(n + 1) -> keep \cup {i}]
  <2>1. \A k \in 1..(n + 1) : a[k] \in keep \cup {i} BY <1>5, <1>8, <1>9
  <2>q. QED BY <1>7, <2>1
<1>11. ASSUME NEW k \in 1..(n + 1), NEW l \in 1..(n + 1), a[k] = a[l] PROVE k = l
  <2>1. CASE k \in 1..n /\ l \in 1..n BY <1>1, <1>9, <1>11, <2>1 DEF Kept
  <2>2. CASE ~(k \in 1..n /\ l \in 1..n) BY <1>5, <1>8, <1>9, <1>11, <2>2
  <2>q. QED BY <2>1, <2>2
<1>12. \A j \in keep \cup {i} : \E k \in 1..(n + 1) : a[k] = j
  <2> SUFFICES ASSUME NEW j \in keep PROVE \E k \in 1..(n + 1) : a[k] = j BY <1>8
  <2>1. PICK k \in 1..n : ix[k] = j BY <1>1 DEF Kept
  <2>q. QED BY <1>6, <1>9, <2>1
<1>13. \A k \in 1..(n + 1) : q[k] = s[a[k]]
  <2>1. \A k \in 1..n : r[k] = s[ix[k]] BY <1>1 DEF Kept
  <2>q. QED BY <1>2, <1>4, <1>5, <1>8, <1>9, <2>1
<1>14. Kept(s, keep \cup {i}, q, a) BY <1>4, <1>10, <1>11, <1>12, <1>13 DEF Kept
<1>q. QED BY <1>2, <1>3, <1>14

LEMMA Retained ==
    ASSUME NEW S, NEW s \in Seq(S), NEW keep \in SUBSET (1..Len(s))
    PROVE  Retain(s, keep) \in Seq(S) /\ \E ix : Kept(s, keep, Retain(s, keep), ix)
<1>1. PICK n \in Nat : n = Len(s) OBVIOUS
<1>2. PICK V : V = Seq(S) OBVIOUS
<1>e. PICK e \in V : e = <<>>
  <2>1. <<>> \in Seq(S) OBVIOUS
  <2>q. QED BY <1>2, <2>1
<1>3. PICK next : next = [z \in V \X (1..n) |-> IF z[2] \in keep THEN Append(z[1], s[z[2]]) ELSE z[1]] OBVIOUS
<1>4. \A v \in V, i \in 1..n : (IF i \in keep THEN Append(v, s[i]) ELSE v) \in V
  <2> SUFFICES ASSUME NEW v \in V, NEW i \in 1..n PROVE Append(v, s[i]) \in V OBVIOUS
  <2>1. s[i] \in S BY <1>1
  <2>q. QED BY <1>2, <2>1
<1>5. next \in [V \X (1..n) -> V] BY <1>3, <1>4
<1>6. PICK w : Repetition(w, V, e, n, next) BY <1>5, Repeated
<1>7. w \in [0..n -> V] /\ w[0] = e /\ \A i \in 1..n : w[i] = next[<<w[i - 1], i>>] BY <1>6 DEF Repetition
<1>8. \A i \in 1..n : w[i] = IF i \in keep THEN Append(w[i - 1], s[i]) ELSE w[i - 1]
  <2> SUFFICES ASSUME NEW i \in 1..n PROVE w[i] = IF i \in keep THEN Append(w[i - 1], s[i]) ELSE w[i - 1] OBVIOUS
  <2>1. i - 1 \in 0..n /\ w[i - 1] \in V BY <1>7
  <2>2. <<w[i - 1], i>> \in V \X (1..n) BY <2>1
  <2>q. QED BY <1>3, <1>7, <2>2
<1> DEFINE Longer(f) == [i \in 0..n |-> IF i = 0 THEN <<>> ELSE IF i \in keep THEN Append(f[i - 1], s[i]) ELSE f[i - 1]]
           keeping == CHOOSE f : f = Longer(f)
<1>9. w = Longer(w)
  <2>1. \A i \in 0..n : i # 0 => i \in 1..n OBVIOUS
  <2>2. \A i \in 0..n : w[i] = Longer(w)[i] BY <1>e, <1>7, <1>8, <2>1
  <2>3. w = [i \in 0..n |-> w[i]] BY <1>7
  <2>q. QED BY <2>2, <2>3
<1>10. Retain(s, keep) = keeping[n] BY <1>1 DEF Retain
<1> HIDE DEF Longer
<1>11. PICK k : k = keeping /\ k = Longer(k) BY <1>9
<1>12. \A i \in 0..n : k[i] = IF i = 0 THEN <<>> ELSE IF i \in keep THEN Append(k[i - 1], s[i]) ELSE k[i - 1]
  BY <1>11 DEF Longer
<1> HIDE DEF keeping
<1> DEFINE Right(i) == k[i] \in Seq(S) /\ \E ix : Kept(s, keep \cap (1..i), k[i], ix)
           B == {i \in 0..n : ~Right(i)}
<1>13. Right(0)
  <2>1. k[0] = <<>> /\ keep \cap (1..0) = {} BY <1>12
  <2>2. Kept(s, {}, <<>>, <<>>) BY DEF Kept
  <2>q. QED BY <2>1, <2>2
<1>14. ASSUME NEW i \in 1..n, Right(i - 1) PROVE Right(i)
  <2>1. k[i] = IF i \in keep THEN Append(k[i - 1], s[i]) ELSE k[i - 1]
    <3>1. i \in 0..n /\ i # 0 OBVIOUS
    <3>q. QED BY <1>12, <3>1
  <2>2. CASE i \notin keep
    <3>1. keep \cap (1..i) = keep \cap (1..(i - 1)) BY <1>1, <2>2
    <3>q. QED BY <1>14, <2>1, <2>2, <3>1
  <2>3. CASE i \in keep
    <3>0. PICK r \in Seq(S) : r = k[i - 1] BY <1>14
    <3>1. PICK ix : r = k[i - 1] /\ Kept(s, keep \cap (1..(i - 1)), r, ix) BY <1>14, <3>0
    <3>2. i \notin keep \cap (1..(i - 1)) /\ i \in 1..Len(s) BY <1>1
    <3>3. \E a : Append(r, s[i]) \in Seq(S) /\ Kept(s, (keep \cap (1..(i - 1))) \cup {i}, Append(r, s[i]), a)
      BY <3>1, <3>2, KeepsOne
    <3>4. (keep \cap (1..(i - 1))) \cup {i} = keep \cap (1..i) BY <1>1, <2>3
    <3>5. k[i] = Append(r, s[i]) BY <2>1, <2>3, <3>1
    <3>q. QED BY <3>3, <3>4, <3>5
  <2>q. QED BY <2>2, <2>3
<1> HIDE DEF Right
<1>15. \A i \in 0..n : Right(i)
  <2>1. SUFFICES ASSUME B # {} PROVE FALSE OBVIOUS
  <2>2. B \in SUBSET Nat OBVIOUS
  <2>3. PICK i \in B : \A j \in B : i <= j BY <2>1, <2>2, LeastNat
  <2>4. i \in 0..n /\ ~Right(i) BY <2>3
  <2>5. i # 0 BY <1>13, <2>4
  <2>6. i \in 1..n /\ i - 1 \in 0..n /\ ~(i <= i - 1) BY <2>4, <2>5
  <2>7. Right(i - 1) BY <2>3, <2>6
  <2>q. QED BY <1>14, <2>4, <2>6, <2>7
<1>16. n \in 0..n /\ keep \cap (1..n) = keep
  <2>1. n \in 0..n /\ keep \subseteq 1..n BY <1>1
  <2>q. QED BY <2>1
<1>17. k[n] \in Seq(S) /\ \E ix : Kept(s, keep, k[n], ix) BY <1>15, <1>16 DEF Right
<1>q. QED BY <1>10, <1>11, <1>17


(* What is kept of each key is its first holder.                           *)
OneOfEach(s, key, r, ix) ==
    /\ ix \in [1..Len(r) -> 1..Len(s)]
    /\ \A k \in 1..Len(r) : r[k] = s[ix[k]]
    /\ \A k, l \in 1..Len(r) : key[ix[k]] = key[ix[l]] => k = l
    /\ \A i \in 1..Len(s) : \E k \in 1..Len(r) : key[ix[k]] = key[i]

LEMMA Firsts ==
    ASSUME NEW S, NEW s \in Seq(S), NEW key,
           NEW keep, keep = {i \in DOMAIN s : \A j \in 1..i - 1 : key[j] # key[i]},
           NEW r, r = Retain(s, keep)
    PROVE  r \in Seq(S) /\ \E ix : OneOfEach(s, key, r, ix)
<1>1. PICK n \in Nat : n = Len(s) /\ DOMAIN s = 1..n OBVIOUS
<1>2. keep \in SUBSET (1..n) BY <1>1
<1>3. r \in Seq(S) /\ \E ix : Kept(s, keep, r, ix) BY <1>1, <1>2, Retained
<1>a. PICK ix : Kept(s, keep, r, ix) BY <1>3
<1>4. PICK m \in Nat : m = Len(r) BY <1>3, SeqParts
<1>5. /\ ix \in [1..m -> keep] /\ (\A k, l \in 1..m : ix[k] = ix[l] => k = l)
      /\ (\A i \in keep : \E k \in 1..m : ix[k] = i) /\ \A k \in 1..m : r[k] = s[ix[k]]
  BY <1>a, <1>4 DEF Kept
<1>6. ix \in [1..m -> 1..n] BY <1>2, <1>5
<1>7. ASSUME NEW k \in 1..m, NEW l \in 1..m, key[ix[k]] = key[ix[l]] PROVE k = l
  <2>1. ix[k] \in keep /\ ix[l] \in keep /\ ix[k] \in 1..n /\ ix[l] \in 1..n BY <1>5, <1>6
  <2>2. ~(ix[k] < ix[l])
    <3>1. ix[k] < ix[l] => ix[k] \in 1..ix[l] - 1 BY <2>1
    <3>q. QED BY <1>7, <2>1, <3>1
  <2>3. ~(ix[l] < ix[k])
    <3>1. ix[l] < ix[k] => ix[l] \in 1..ix[k] - 1 BY <2>1
    <3>q. QED BY <1>7, <2>1, <3>1
  <2>4. ix[k] = ix[l] BY <2>1, <2>2, <2>3
  <2>q. QED BY <1>5, <2>4
<1>8. ASSUME NEW i \in 1..n PROVE \E k \in 1..m : key[ix[k]] = key[i]
  <2> DEFINE B == {j \in 1..n : key[j] = key[i]}
  <2>1. B \in SUBSET Nat /\ i \in B OBVIOUS
  <2>2. PICK j \in B : \A l \in B : j <= l BY <2>1, LeastNat
  <2>3. j \in 1..n /\ key[j] = key[i] BY <2>2
  <2>4. \A l \in 1..j - 1 : key[l] # key[j]
    <3> SUFFICES ASSUME NEW l \in 1..j - 1, key[l] = key[j] PROVE FALSE OBVIOUS
    <3>1. l \in 1..n /\ ~(j <= l) BY <1>1, <2>3
    <3>2. l \in B BY <2>3, <3>1
    <3>q. QED BY <2>2, <3>1, <3>2
  <2>5. j \in keep BY <1>1, <2>3, <2>4
  <2>6. PICK k \in 1..m : ix[k] = j BY <1>5, <2>5
  <2>q. QED BY <2>3, <2>6
<1>9. OneOfEach(s, key, r, ix) BY <1>1, <1>4, <1>5, <1>6, <1>7, <1>8 DEF OneOfEach
<1>q. QED BY <1>3, <1>9

LEMMA NodesDeduped ==
    ASSUME NEW S, NEW ns \in Seq(S)
    PROVE  /\ DedupeNodes(ns) \in Seq(S) /\ ToSet(DedupeNodes(ns)) \subseteq ToSet(ns)
           /\ \A k, l \in DOMAIN DedupeNodes(ns) : DedupeNodes(ns)[k].id = DedupeNodes(ns)[l].id => k = l
           /\ \A x \in ToSet(ns) : \E y \in ToSet(DedupeNodes(ns)) : y.id = x.id
<1>1. PICK n \in Nat : n = Len(ns) /\ DOMAIN ns = 1..n OBVIOUS
<1>2. PICK key : key = [i \in 1..n |-> ns[i].id] OBVIOUS
<1>3. PICK keep : keep = {i \in DOMAIN ns : \A j \in 1..i - 1 : ns[j].id # ns[i].id} OBVIOUS
<1>4. keep = {i \in DOMAIN ns : \A j \in 1..i - 1 : key[j] # key[i]}
  <2>1. \A i \in 1..n : \A j \in 1..i - 1 : j \in 1..n BY <1>1
  <2>2. \A i \in 1..n : \A j \in 1..i - 1 : key[j] = ns[j].id /\ key[i] = ns[i].id BY <1>2, <2>1
  <2>q. QED BY <1>1, <1>3, <2>2
<1>5. PICK d : d = Retain(ns, keep) OBVIOUS
<1>6. DedupeNodes(ns) = d BY <1>3, <1>5 DEF DedupeNodes
<1>7. d \in Seq(S) /\ \E ix : OneOfEach(ns, key, d, ix) BY <1>4, <1>5, Firsts
<1>8. PICK m \in Nat : m = Len(d) /\ DOMAIN d = 1..m BY <1>7
<1>f. PICK ix : OneOfEach(ns, key, d, ix) BY <1>7
<1>9. /\ ix \in [1..m -> 1..n] /\ \A k \in 1..m : d[k] = ns[ix[k]]
      /\ \A k, l \in 1..m : key[ix[k]] = key[ix[l]] => k = l
      /\ \A i \in 1..n : \E k \in 1..m : key[ix[k]] = key[i]
  BY <1>1, <1>8, <1>f DEF OneOfEach
<1>10. \A k \in 1..m : key[ix[k]] = d[k].id BY <1>2, <1>9
<1>11. ToSet(d) = {d[k] : k \in 1..m} /\ ToSet(ns) = {ns[i] : i \in 1..n} BY <1>1, <1>8 DEF ToSet
<1>12. ToSet(d) \subseteq ToSet(ns)
  <2>1. \A k \in 1..m : ix[k] \in 1..n /\ d[k] = ns[ix[k]] BY <1>9
  <2>q. QED BY <1>11, <2>1
<1>13. \A k, l \in 1..m : d[k].id = d[l].id => k = l BY <1>9, <1>10
<1>14. ASSUME NEW x \in ToSet(ns) PROVE \E y \in ToSet(d) : y.id = x.id
  <2>1. PICK i \in 1..n : x = ns[i] BY <1>11
  <2>2. PICK k \in 1..m : key[ix[k]] = key[i] BY <1>9
  <2>3. d[k].id = x.id BY <1>2, <1>10, <2>1, <2>2
  <2>q. QED BY <1>11, <2>3
<1>q. QED BY <1>6, <1>7, <1>8, <1>12, <1>13, <1>14

LEMMA EdgesDeduped ==
    ASSUME NEW S, NEW es \in Seq(S)
    PROVE  /\ DedupeEdges(es) \in Seq(S) /\ ToSet(DedupeEdges(es)) = ToSet(es)
           /\ \A k, l \in DOMAIN DedupeEdges(es) : DedupeEdges(es)[k] = DedupeEdges(es)[l] => k = l
<1>1. PICK n \in Nat : n = Len(es) /\ DOMAIN es = 1..n OBVIOUS
<1>2. PICK keep : keep = {i \in DOMAIN es : \A j \in 1..i - 1 : es[j] # es[i]} OBVIOUS
<1>3. PICK d : d = Retain(es, keep) OBVIOUS
<1>4. DedupeEdges(es) = d BY <1>2, <1>3 DEF DedupeEdges
<1>5. d \in Seq(S) /\ \E ix : OneOfEach(es, es, d, ix) BY <1>2, <1>3, Firsts
<1>6. PICK m \in Nat : m = Len(d) /\ DOMAIN d = 1..m BY <1>5
<1>f. PICK ix : OneOfEach(es, es, d, ix) BY <1>5
<1>7. /\ ix \in [1..m -> 1..n] /\ \A k \in 1..m : d[k] = es[ix[k]]
      /\ \A k, l \in 1..m : es[ix[k]] = es[ix[l]] => k = l
      /\ \A i \in 1..n : \E k \in 1..m : es[ix[k]] = es[i]
  BY <1>1, <1>6, <1>f DEF OneOfEach
<1>8. ToSet(d) = {d[k] : k \in 1..m} /\ ToSet(es) = {es[i] : i \in 1..n} BY <1>1, <1>6 DEF ToSet
<1>9. ToSet(d) = ToSet(es)
  <2>1. \A k \in 1..m : ix[k] \in 1..n /\ d[k] = es[ix[k]] BY <1>7
  <2>2. ToSet(d) \subseteq ToSet(es) BY <1>8, <2>1
  <2>3. ASSUME NEW i \in 1..n PROVE \E k \in 1..m : d[k] = es[i]
    <3>1. PICK k \in 1..m : es[ix[k]] = es[i] BY <1>7
    <3>q. QED BY <2>1, <3>1
  <2>4. ToSet(es) \subseteq ToSet(d) BY <1>8, <2>3
  <2>q. QED BY <2>2, <2>4
<1>10. \A k, l \in 1..m : d[k] = d[l] => k = l BY <1>7
<1>q. QED BY <1>4, <1>5, <1>6, <1>9, <1>10

(* Following the edges as often as there are edges ends at the least set   *)
(* that holds the cluster and is closed.                                   *)
LEMMA DescendantsLeast ==
    ASSUME NEW S, NEW es \in Seq(S), NEW c
    PROVE  /\ c \in Descendants(es, c) /\ OneDown(es, Descendants(es, c)) \subseteq Descendants(es, c)
           /\ \A X : c \in X /\ OneDown(es, X) \subseteq X => Descendants(es, c) \subseteq X
<1>1. PICK n \in Nat : n = Len(es) /\ DOMAIN es = 1..n OBVIOUS
<1>2. PICK U : U = {c} \cup {es[i].to : i \in 1..n} OBVIOUS
<1>3. IsFiniteSet(U) /\ Cardinality(U) <= n + 1
  <2>1. PICK f : f = [i \in 1..n |-> es[i].to] OBVIOUS
  <2>2. PICK T : T = {f[i] : i \in 1..n} OBVIOUS
  <2>3. DOMAIN f = 1..n BY <2>1
  <2>4. IsFiniteSet(1..n) /\ Cardinality(1..n) = n
    <3>1. 1 \in Int /\ n \in Int OBVIOUS
    <3>2. IsFiniteSet(1..n) /\ Cardinality(1..n) = IF 1 > n THEN 0 ELSE n - 1 + 1 BY <3>1, FS_Interval
    <3>q. QED BY <3>2
  <2>5. IsFiniteSet(T) /\ Cardinality(T) <= n BY <2>2, <2>3, <2>4, SetMapped
  <2>6. T = {es[i].to : i \in 1..n} BY <2>1, <2>2
  <2>7. U = T \cup {c} BY <1>2, <2>6
  <2>8. PICK k \in Nat : k = Cardinality(T) BY <2>5, FS_CardinalityType
  <2>9. IsFiniteSet(T \cup {c}) /\ (Cardinality(T \cup {c}) = k \/ Cardinality(T \cup {c}) = k + 1)
    BY <2>5, <2>8, FS_AddElement
  <2>q. QED BY <2>5, <2>7, <2>8, <2>9
<1>4. ToSet(es) = {es[i] : i \in 1..n} BY <1>1 DEF ToSet
<1>5. \A X \in SUBSET U : OneDown(es, X) \in SUBSET U BY <1>2, <1>4 DEF OneDown
<1>6. PICK next : next = [z \in (SUBSET U) \X (1..n) |-> OneDown(es, z[1])] OBVIOUS
<1>7. next \in [(SUBSET U) \X (1..n) -> SUBSET U] BY <1>5, <1>6
<1>8. {c} \in SUBSET U BY <1>2
<1>9. PICK w : Repetition(w, SUBSET U, {c}, n, next) BY <1>7, <1>8, Repeated
<1>10. /\ w \in [0..n -> SUBSET U] /\ w[0] = {c}
       /\ \A i \in 1..n : w[i] = next[<<w[i - 1], i>>]
  BY <1>9 DEF Repetition
<1>11. \A i \in 1..n : w[i] = OneDown(es, w[i - 1])
  <2> SUFFICES ASSUME NEW i \in 1..n PROVE w[i] = OneDown(es, w[i - 1]) OBVIOUS
  <2>1. i - 1 \in 0..n /\ w[i - 1] \in SUBSET U BY <1>10
  <2>2. <<w[i - 1], i>> \in (SUBSET U) \X (1..n) BY <2>1
  <2>q. QED BY <1>6, <1>10, <2>2
<1> DEFINE Wider1(f) == [k \in 0..n |-> IF k = 0 THEN {c} ELSE OneDown(es, f[k - 1])]
           chosen == CHOOSE f : f = Wider1(f)
<1>12. w = Wider1(w)
  <2>1. \A i \in 0..n : i # 0 => i \in 1..n OBVIOUS
  <2>2. \A i \in 0..n : w[i] = Wider1(w)[i] BY <1>10, <1>11, <2>1
  <2>3. w = [i \in 0..n |-> w[i]] BY <1>10
  <2>q. QED BY <2>2, <2>3
<1>13. Descendants(es, c) = chosen[n] BY <1>1 DEF Descendants
<1> HIDE DEF Wider1
<1>14. PICK g : g = chosen /\ g = Wider1(g) BY <1>12
<1> HIDE DEF chosen
<1>15. \A k \in 0..n : g[k] = IF k = 0 THEN {c} ELSE OneDown(es, g[k - 1]) BY <1>14 DEF Wider1
<1>16. g[0] = {c} /\ \A k \in 1..n : g[k] = OneDown(es, g[k - 1]) BY <1>15
<1> DEFINE Closed(X) == OneDown(es, X) \subseteq X
           Right(k) == /\ g[k] \in SUBSET U /\ c \in g[k] /\ (Closed(g[k]) \/ k + 1 <= Cardinality(g[k]))
                       /\ \A X : c \in X /\ Closed(X) => g[k] \subseteq X
           B == {k \in 0..n : ~Right(k)}
<1>17. Right(0)
  <2>1. Cardinality({c}) = 1 BY FS_Singleton
  <2>q. QED BY <1>8, <1>16, <2>1
<1>18. ASSUME NEW k \in 1..n, Right(k - 1) PROVE Right(k)
  <2>1. PICK Y : Y = g[k - 1] OBVIOUS
  <2>2. g[k] = OneDown(es, Y) BY <1>16, <2>1
  <2>3. Y \subseteq OneDown(es, Y) BY DEF OneDown
  <2>4. Y \in SUBSET U /\ c \in Y /\ (Closed(Y) \/ k - 1 + 1 <= Cardinality(Y)) /\ \A X : c \in X /\ Closed(X) => Y \subseteq X
    BY <1>18, <2>1
  <2>5. OneDown(es, Y) \in SUBSET U BY <1>5, <2>4
  <2>6. Closed(OneDown(es, Y)) \/ k + 1 <= Cardinality(OneDown(es, Y))
    <3>1. CASE Closed(Y)
      <4>1. OneDown(es, Y) = Y BY <2>3, <3>1
      <4>q. QED BY <3>1, <4>1
    <3>2. CASE ~Closed(Y)
      <4>1. PICK Z : Z = OneDown(es, Y) OBVIOUS
      <4>2. Y \subseteq Z /\ Y # Z /\ IsFiniteSet(Z) BY <1>3, <2>3, <2>5, <3>2, <4>1, FS_Subset
      <4>3. IsFiniteSet(Y) /\ Cardinality(Y) < Cardinality(Z) BY <4>2, FS_Subset, FS_CardinalityType
      <4>4. Cardinality(Y) \in Nat /\ Cardinality(Z) \in Nat BY <4>2, <4>3, FS_CardinalityType
      <4>5. k <= Cardinality(Y) BY <2>4, <3>2
      <4>q. QED BY <4>1, <4>3, <4>4, <4>5
    <3>q. QED BY <3>1, <3>2
  <2>7. ASSUME NEW X, c \in X, Closed(X) PROVE OneDown(es, Y) \subseteq X
    <3>1. Y \subseteq X BY <2>4, <2>7
    <3>2. OneDown(es, Y) \subseteq OneDown(es, X) BY <3>1 DEF OneDown
    <3>q. QED BY <2>7, <3>2
  <2>q. QED BY <2>2, <2>3, <2>4, <2>5, <2>6, <2>7
<1> HIDE DEF Right
<1>19. \A k \in 0..n : Right(k)
  <2>1. SUFFICES ASSUME B # {} PROVE FALSE OBVIOUS
  <2>2. B \in SUBSET Nat OBVIOUS
  <2>3. PICK k \in B : \A j \in B : k <= j BY <2>1, <2>2, LeastNat
  <2>4. k \in 0..n /\ ~Right(k) BY <2>3
  <2>5. k # 0 BY <1>17, <2>4
  <2>6. k \in 1..n /\ k - 1 \in 0..n /\ ~(k <= k - 1) BY <2>4, <2>5
  <2>7. Right(k - 1) BY <2>3, <2>6
  <2>q. QED BY <1>18, <2>4, <2>6, <2>7
<1>20. n \in 0..n OBVIOUS
<1>21. PICK D : D = g[n] OBVIOUS
<1>22. /\ D \in SUBSET U /\ c \in D /\ (Closed(D) \/ n + 1 <= Cardinality(D))
       /\ \A X : c \in X /\ Closed(X) => D \subseteq X
  BY <1>19, <1>20, <1>21 DEF Right
<1>23. Closed(D)
  <2>1. SUFFICES ASSUME n + 1 <= Cardinality(D) PROVE Closed(D) BY <1>22
  <2>2. IsFiniteSet(D) /\ Cardinality(D) \in Nat /\ Cardinality(U) \in Nat /\ Cardinality(D) <= Cardinality(U)
    BY <1>3, <1>22, FS_Subset, FS_CardinalityType
  <2>3. Cardinality(D) = Cardinality(U) BY <1>3, <2>1, <2>2
  <2>4. D = U BY <1>3, <1>22, <2>3, FS_Subset
  <2>q. QED BY <1>5, <1>22, <2>4
<1>q. QED BY <1>13, <1>14, <1>21, <1>22, <1>23


(* The beginning of a sequence.                                            *)
LEMMA Beginning ==
    ASSUME NEW S, NEW s \in Seq(S), NEW d \in 0..Len(s)
    PROVE  SubSeq(s, 1, d) \in Seq(S) /\ Len(SubSeq(s, 1, d)) = d /\ \A i \in 1..d : SubSeq(s, 1, d)[i] = s[i]
<1>1. PICK n \in Nat : n = Len(s) OBVIOUS
<1>4. PICK r : r = [i \in 1..d |-> s[i]] OBVIOUS
<1>5. SubSeq(s, 1, d) = r
  <2>1. \A i \in 1..d : i + 1 - 1 = i OBVIOUS
  <2>2. SubSeq(s, 1, d) = [i \in 1..(1 + d - 1) |-> s[i + 1 - 1]] BY <1>1
  <2>q. QED BY <1>1, <1>4, <2>1, <2>2
<1>6. \A i \in 1..d : s[i] \in S BY <1>1
<1>7. r \in [1..d -> S] BY <1>4, <1>6
<1>8. r \in Seq(S) /\ Len(r) = d BY <1>1, <1>7, SeqFrom
<1>q. QED BY <1>4, <1>5, <1>8

LEMMA BeginningOf ==
    ASSUME NEW S, NEW s \in Seq(S), NEW t \in Seq(S), NEW d \in 0..Len(s), d <= Len(t), \A i \in 1..d : s[i] = t[i]
    PROVE  SubSeq(s, 1, d) = SubSeq(t, 1, d)
<1>1. Len(t) \in Nat /\ d \in Nat BY SeqParts
<1>2. d \in 0..Len(t) BY <1>1
<1>3. PICK a \in Seq(S), b \in Seq(S) : a = SubSeq(s, 1, d) /\ b = SubSeq(t, 1, d) BY <1>2, Beginning
<1>4. Len(a) = d /\ Len(b) = d /\ \A i \in 1..d : a[i] = s[i] /\ b[i] = t[i] BY <1>2, <1>3, Beginning
<1>5. a = b BY <1>4, SameElements
<1>q. QED BY <1>3, <1>5

LEMMA WholeBeginning ==
    ASSUME NEW S, NEW s \in Seq(S)
    PROVE  SubSeq(s, 1, Len(s)) = s
<1>1. Len(s) \in 0..Len(s) BY SeqParts
<1>2. PICK a \in Seq(S) : a = SubSeq(s, 1, Len(s)) BY <1>1, Beginning
<1>3. Len(a) = Len(s) /\ \A i \in 1..Len(s) : a[i] = s[i] BY <1>1, <1>2, Beginning
<1>4. a = s BY <1>3, SameElements
<1>q. QED BY <1>2, <1>4

LEMMA BeginningTwice ==
    ASSUME NEW S, NEW s \in Seq(S), NEW d \in 0..Len(s), NEW k \in 0..d
    PROVE  SubSeq(SubSeq(s, 1, d), 1, k) = SubSeq(s, 1, k)
<1>1. PICK t \in Seq(S) : t = SubSeq(s, 1, d) BY Beginning
<1>2. Len(t) = d /\ \A i \in 1..d : t[i] = s[i] BY <1>1, Beginning
<1>3. Len(s) \in Nat BY SeqParts
<1>4. k \in 0..Len(t) /\ k <= Len(s) /\ \A i \in 1..k : t[i] = s[i] BY <1>2, <1>3
<1>5. SubSeq(t, 1, k) = SubSeq(s, 1, k) BY <1>4, BeginningOf
<1>q. QED BY <1>1, <1>5
-----------------------------------------------------------------------------
(* The nodes that one file stands for, by their ids, the node above one,   *)
(* and the edge between them.                                              *)
IdsOfFile(p) == {TempId("crate", <<p[1]>>), TempId("file", p)}
                \cup {TempId("module", SubSeq(p, 1, d)) : d \in 2..ParentDepth(p)}
NodeOf(id) == Node(id.kind, id.place)
Above(id) ==
    IF id.kind = "symbol" THEN TempId("file", SubSeq(id.place, 1, Len(id.place) - 1))
    ELSE Branch(id.place, IF id.kind = "file" THEN ParentDepth(id.place) ELSE Len(id.place) - 1)
Link(id) == Edge(Above(id), id, "contains")
Hanging(ids) == {id \in ids : id.kind # "crate"}

LEMMA PathTyped ==
    ASSUME GraphAssumption, NEW p \in SourcePaths
    PROVE  /\ p \in Seq(STRING) /\ Len(p) \in Nat \ {0} /\ ParentDepth(p) \in 1..Len(p)
           /\ (Len(p) # 1 => ParentDepth(p) = Len(p) - 1) /\ (Len(p) = 1 => ParentDepth(p) = 1)
<1>1. p \in Seq(STRING) /\ p # <<>> BY DEF GraphAssumption
<1>2. Len(p) \in Nat \ {0} BY <1>1
<1>3. PICK n \in Nat : n = Len(p) /\ n # 0 BY <1>2
<1>4. ParentDepth(p) = IF n = 1 THEN 1 ELSE n - 1 BY <1>3 DEF ParentDepth
<1>5. n # 1 => n - 1 \in 1..n BY <1>3
<1>q. QED BY <1>1, <1>3, <1>4, <1>5

LEMMA TwoElements ==
    ASSUME NEW a, NEW b
    PROVE  <<a, b>> \in Seq({a, b}) /\ ToSet(<<a, b>>) = {a, b}
BY DEF ToSet

LEMMA SingleElement ==
    ASSUME NEW a
    PROVE  <<a>> \in Seq({a}) /\ ToSet(<<a>>) = {a}
BY DEF ToSet

LEMMA NodesOfFile ==
    ASSUME GraphAssumption, NEW p \in SourcePaths
    PROVE  /\ Hierarchy(p).nodes \in Seq({NodeOf(id) : id \in IdsOfFile(p)})
           /\ ToSet(Hierarchy(p).nodes) = {NodeOf(id) : id \in IdsOfFile(p)}
<1>1. PICK d \in Nat : d = ParentDepth(p) /\ 1 <= d BY PathTyped
<1>2. PICK M : M = {NodeOf(id) : id \in IdsOfFile(p)} OBVIOUS
<1>3. PICK a, b : a = Node("crate", <<p[1]>>) /\ b = Node("file", p) OBVIOUS
<1>4. PICK u : u = [i \in 1..d - 1 |-> Node("module", SubSeq(p, 1, i + 1))] OBVIOUS
<1>5. Hierarchy(p).nodes = <<a, b>> \o u BY <1>1, <1>3, <1>4 DEF Hierarchy
<1>6. a \in M /\ b \in M
  <2>1. NodeOf(TempId("crate", <<p[1]>>)) = a /\ NodeOf(TempId("file", p)) = b BY <1>3 DEF NodeOf, TempId, Node
  <2>q. QED BY <1>2, <2>1 DEF IdsOfFile
<1>7. \A k \in 2..d : NodeOf(TempId("module", SubSeq(p, 1, k))) = Node("module", SubSeq(p, 1, k))
  BY DEF NodeOf, TempId
<1>8. d - 1 \in Nat /\ \A i \in 1..d - 1 : i + 1 \in 2..d BY <1>1
<1>9. \A i \in 1..d - 1 : u[i] \in M
  <2> SUFFICES ASSUME NEW i \in 1..d - 1 PROVE u[i] \in M OBVIOUS
  <2>1. u[i] = NodeOf(TempId("module", SubSeq(p, 1, i + 1))) BY <1>4, <1>7, <1>8
  <2>2. TempId("module", SubSeq(p, 1, i + 1)) \in IdsOfFile(p) BY <1>1, <1>8 DEF IdsOfFile
  <2>q. QED BY <1>2, <2>1, <2>2
<1>10. u \in [1..d - 1 -> M] BY <1>4, <1>9
<1>11. u \in Seq(M) BY <1>8, <1>10, SeqFrom
<1>t. PICK h : h = <<a, b>> /\ h \in Seq({a, b}) /\ ToSet(h) = {a, b} BY TwoElements
<1>12. h \in Seq(M)
  <2>1. {a, b} \subseteq M BY <1>6
  <2>q. QED BY <1>t, <2>1, WiderSeq
<1>13. Hierarchy(p).nodes \in Seq(M) /\ ToSet(Hierarchy(p).nodes) = {a, b} \cup ToSet(u)
  <2>1. h \o u \in Seq(M) /\ ToSet(h \o u) = ToSet(h) \cup ToSet(u) BY <1>11, <1>12, JoinedElements
  <2>q. QED BY <1>5, <1>t, <2>1
<1>14. ToSet(u) = {u[i] : i \in 1..d - 1} BY <1>10 DEF ToSet
<1>15. M \subseteq {a, b} \cup ToSet(u)
  <2> SUFFICES ASSUME NEW id \in IdsOfFile(p) PROVE NodeOf(id) \in {a, b} \cup ToSet(u) BY <1>2
  <2>1. CASE id \in {TempId("crate", <<p[1]>>), TempId("file", p)} BY <1>3, <2>1 DEF NodeOf, TempId, Node
  <2>2. ASSUME NEW k \in 2..d, id = TempId("module", SubSeq(p, 1, k)) PROVE NodeOf(id) \in ToSet(u)
    <3>1. k - 1 \in 1..d - 1 /\ (k - 1) + 1 = k BY <1>1
    <3>2. u[k - 1] = NodeOf(id) BY <1>4, <1>7, <2>2, <3>1
    <3>q. QED BY <1>14, <3>1, <3>2
  <2>q. QED BY <1>1, <2>1, <2>2 DEF IdsOfFile
<1>16. ToSet(Hierarchy(p).nodes) = M BY <1>6, <1>9, <1>13, <1>14, <1>15
<1>q. QED BY <1>2, <1>13, <1>16

LEMMA EdgesOfFile ==
    ASSUME GraphAssumption, NEW p \in SourcePaths
    PROVE  /\ Hierarchy(p).edges \in Seq({Link(id) : id \in Hanging(IdsOfFile(p))})
           /\ ToSet(Hierarchy(p).edges) = {Link(id) : id \in Hanging(IdsOfFile(p))}
<1>1. PICK d \in Nat : d = ParentDepth(p) /\ 1 <= d BY PathTyped
<1>2. PICK M : M = {Link(id) : id \in Hanging(IdsOfFile(p))} OBVIOUS
<1>3. PICK b : b = Edge(Branch(p, d), TempId("file", p), "contains") OBVIOUS
<1>4. PICK u : u = [i \in 1..d - 1 |-> Edge(Branch(p, i), Branch(p, i + 1), "contains")] OBVIOUS
<1>5. Hierarchy(p).edges = u \o <<b>> BY <1>1, <1>3, <1>4 DEF Hierarchy
<1>6. b = Link(TempId("file", p)) /\ TempId("file", p) \in Hanging(IdsOfFile(p)) /\ b \in M
  <2>1. b = Link(TempId("file", p)) BY <1>1, <1>3 DEF Link, Above, TempId
  <2>2. TempId("file", p) \in Hanging(IdsOfFile(p)) BY DEF Hanging, IdsOfFile, TempId
  <2>q. QED BY <1>2, <2>1, <2>2
<1>7. d - 1 \in Nat /\ \A i \in 1..d - 1 : i + 1 \in 2..d BY <1>1
<1>8. ASSUME NEW i \in 1..d - 1
      PROVE  /\ u[i] = Link(TempId("module", SubSeq(p, 1, i + 1)))
             /\ TempId("module", SubSeq(p, 1, i + 1)) \in Hanging(IdsOfFile(p)) /\ u[i] \in M
  <2>0. p \in Seq(STRING) /\ d <= Len(p) /\ Len(p) \in Nat BY <1>1, PathTyped
  <2>1. PICK q \in Seq(STRING) : q = SubSeq(p, 1, i + 1) /\ Len(q) = i + 1 /\ q[1] = p[1]
    <3>1. i + 1 \in 0..Len(p) /\ 1 \in 1..(i + 1) BY <1>7, <2>0
    <3>2. SubSeq(p, 1, i + 1) \in Seq(STRING) /\ Len(SubSeq(p, 1, i + 1)) = i + 1 /\ SubSeq(p, 1, i + 1)[1] = p[1]
      BY <2>0, <3>1, Beginning
    <3>q. QED BY <3>2
  <2>2. Branch(q, i) = Branch(p, i)
    <3>1. i + 1 \in 0..Len(p) /\ i \in 0..i + 1 BY <1>7, <2>0
    <3>2. SubSeq(q, 1, i) = SubSeq(p, 1, i) BY <2>0, <2>1, <3>1, BeginningTwice
    <3>q. QED BY <2>1, <3>2 DEF Branch
  <2>3. Above(TempId("module", q)) = Branch(p, i)
    <3>1. TempId("module", q).kind = "module" /\ TempId("module", q).place = q BY DEF TempId
    <3>2. Len(q) - 1 = i BY <2>1
    <3>q. QED BY <2>2, <3>1, <3>2 DEF Above
  <2>4. Branch(p, i + 1) = TempId("module", q)
    <3>1. i + 1 # 1 OBVIOUS
    <3>q. QED BY <2>1, <3>1 DEF Branch
  <2>5. u[i] = Edge(Branch(p, i), Branch(p, i + 1), "contains") BY <1>4
  <2>6. u[i] = Link(TempId("module", q)) BY <2>3, <2>4, <2>5 DEF Link
  <2>7. TempId("module", q) \in Hanging(IdsOfFile(p))
    <3>1. TempId("module", q) \in IdsOfFile(p) BY <1>1, <1>7, <2>1 DEF IdsOfFile
    <3>q. QED BY <3>1 DEF Hanging, TempId
  <2>q. QED BY <1>2, <2>1, <2>6, <2>7
<1>9. u \in [1..d - 1 -> M] BY <1>4, <1>8
<1>10. u \in Seq(M) BY <1>7, <1>9, SeqFrom
<1>t. PICK h : h = <<b>> /\ h \in Seq({b}) /\ ToSet(h) = {b} BY SingleElement
<1>11. h \in Seq(M)
  <2>1. {b} \subseteq M BY <1>6
  <2>q. QED BY <1>t, <2>1, WiderSeq
<1>12. Hierarchy(p).edges \in Seq(M) /\ ToSet(Hierarchy(p).edges) = ToSet(u) \cup {b}
  <2>1. u \o h \in Seq(M) /\ ToSet(u \o h) = ToSet(u) \cup ToSet(h) BY <1>10, <1>11, JoinedElements
  <2>q. QED BY <1>5, <1>t, <2>1
<1>13. ToSet(u) = {u[i] : i \in 1..d - 1} BY <1>9 DEF ToSet
<1>14. M \subseteq {b} \cup ToSet(u)
  <2> SUFFICES ASSUME NEW id \in Hanging(IdsOfFile(p)) PROVE Link(id) \in {b} \cup ToSet(u) BY <1>2
  <2>1. CASE id = TempId("file", p) BY <1>6, <2>1
  <2>2. ASSUME NEW k \in 2..d, id = TempId("module", SubSeq(p, 1, k)) PROVE Link(id) \in ToSet(u)
    <3>1. k - 1 \in 1..d - 1 /\ (k - 1) + 1 = k BY <1>1
    <3>2. u[k - 1] = Link(id) BY <1>8, <2>2, <3>1
    <3>q. QED BY <1>13, <3>1, <3>2
  <2>3. id # TempId("crate", <<p[1]>>) BY DEF Hanging, TempId
  <2>q. QED BY <1>1, <2>1, <2>2, <2>3 DEF IdsOfFile, Hanging
<1>15. ToSet(Hierarchy(p).edges) = M BY <1>6, <1>8, <1>12, <1>13, <1>14
<1>q. QED BY <1>2, <1>12, <1>15


(* The ids of the whole graph or of its overview, and the edges that cross *)
(* from symbol to symbol.                                                  *)
SymbolTemps == {SymbolTemp(s) : s \in ToSet(irSymbols)}
IdsOf(full) == (UNION {IdsOfFile(p) : p \in ToSet(irFiles)}) \cup IF full THEN SymbolTemps ELSE {}
Crossing == {Edge(TempOf(e.from), TempOf(e.to), e.relation) : e \in {x \in irEdges : x.from \in SymIds /\ x.to \in SymIds}}
AllLinks(full) == {Link(id) : id \in Hanging(IdsOf(full))} \cup IF full THEN Crossing ELSE {}

LEMMA FlatElements ==
    ASSUME NEW M, NEW seqs \in Seq(Seq(M))
    PROVE  FlattenSeq(seqs) \in Seq(M) /\ ToSet(FlattenSeq(seqs)) = UNION {ToSet(seqs[i]) : i \in DOMAIN seqs}
<1>1. PICK f \in Seq(M) : f = FlattenSeq(seqs) BY Flattened
<1>2. \A k \in DOMAIN f : \E a \in DOMAIN seqs : \E b \in DOMAIN seqs[a] : f[k] = seqs[a][b] BY <1>1, Flattened
<1>3. \A a \in DOMAIN seqs : \A b \in DOMAIN seqs[a] : \E k \in DOMAIN f : f[k] = seqs[a][b] BY <1>1, Flattened
<1>4. ToSet(f) = {f[k] : k \in DOMAIN f} /\ \A a \in DOMAIN seqs : ToSet(seqs[a]) = {seqs[a][b] : b \in DOMAIN seqs[a]}
  BY DEF ToSet
<1>5. ToSet(f) \subseteq UNION {ToSet(seqs[i]) : i \in DOMAIN seqs} BY <1>2, <1>4
<1>6. UNION {ToSet(seqs[i]) : i \in DOMAIN seqs} \subseteq ToSet(f) BY <1>3, <1>4
<1>q. QED BY <1>1, <1>5, <1>6

(* Members that are laid out one after the other.                          *)
LEMMA OneAfterOther ==
    ASSUME NEW I, NEW files \in Seq(I), NEW M, NEW of, \A p \in ToSet(files) : of[p] \in Seq(M),
           NEW seqs \in [DOMAIN files -> Seq(M)], \A i \in DOMAIN files : seqs[i] = of[files[i]]
    PROVE  /\ FlattenSeq(seqs) \in Seq(M)
           /\ \A x : x \in ToSet(FlattenSeq(seqs)) <=> \E p \in ToSet(files) : x \in ToSet(of[p])
<1>1. PICK n \in Nat : n = Len(files) /\ DOMAIN files = 1..n OBVIOUS
<1>2. PICK V : V = Seq(M) OBVIOUS
<1>4. ToSet(files) = {files[i] : i \in 1..n} BY <1>1 DEF ToSet
<1>6. seqs \in [1..n -> V] BY <1>1, <1>2
<1>7. seqs \in Seq(Seq(M)) BY <1>2, <1>6, SeqFrom
<1>8. /\ FlattenSeq(seqs) \in Seq(M)
      /\ ToSet(FlattenSeq(seqs)) = UNION {ToSet(seqs[i]) : i \in DOMAIN seqs}
  BY <1>7, FlatElements
<1>9. {ToSet(seqs[i]) : i \in DOMAIN seqs} = {ToSet(of[p]) : p \in ToSet(files)}
  <2>1. DOMAIN seqs = 1..n /\ \A i \in 1..n : seqs[i] = of[files[i]] BY <1>1, <1>6
  <2>2. \A i \in 1..n : ToSet(seqs[i]) = ToSet(of[files[i]]) BY <2>1
  <2>3. {ToSet(seqs[i]) : i \in DOMAIN seqs} = {ToSet(of[files[i]]) : i \in 1..n} BY <2>1, <2>2
  <2>4. ASSUME NEW p \in ToSet(files) PROVE ToSet(of[p]) \in {ToSet(of[files[i]]) : i \in 1..n}
    <3>1. PICK i \in 1..n : files[i] = p BY <1>4
    <3>q. QED BY <3>1
  <2>5. ASSUME NEW i \in 1..n PROVE ToSet(of[files[i]]) \in {ToSet(of[p]) : p \in ToSet(files)}
    <3>1. files[i] \in ToSet(files) BY <1>4
    <3>q. QED BY <3>1
  <2>6. {ToSet(of[p]) : p \in ToSet(files)} = {ToSet(of[files[i]]) : i \in 1..n} BY <2>4, <2>5
  <2>q. QED BY <2>3, <2>6
<1>10. ToSet(FlattenSeq(seqs)) = UNION {ToSet(of[p]) : p \in ToSet(files)} BY <1>8, <1>9
<1>11. \A x : x \in UNION {ToSet(of[p]) : p \in ToSet(files)} <=> \E p \in ToSet(files) : x \in ToSet(of[p]) OBVIOUS
<1>12. FlattenSeq(seqs) \in Seq(M) BY <1>8
<1>q. QED BY <1>10, <1>11, <1>12

LEMMA SymbolPlace ==
    ASSUME GraphAssumption, IrInv, NEW s \in ToSet(irSymbols)
    PROVE  /\ SymbolTemp(s).kind = "symbol" /\ SymbolTemp(s).place = Append(s.file, <<s.name, s.line>>)
           /\ s.file \in ToSet(irFiles) /\ s.file \in SourcePaths /\ s.file \in Seq(STRING)
           /\ Len(SymbolTemp(s).place) = Len(s.file) + 1 /\ SubSeq(SymbolTemp(s).place, 1, Len(s.file)) = s.file
           /\ \A S : S = STRING \cup {<<s.name, s.line>>} => SymbolTemp(s).place \in Seq(S) /\ s.file \in Seq(S)
           /\ \A i \in 1..Len(s.file) : SymbolTemp(s).place[i] = s.file[i]
<1>1. PICK x, S : x = <<s.name, s.line>> /\ S = STRING \cup {x} OBVIOUS
<1>2. PICK f : f = s.file OBVIOUS
<1>3. f \in ToSet(irFiles) BY <1>2 DEF IrInv
<1>4. f \in SourcePaths BY <1>3, Elements DEF IrInv
<1>5. f \in Seq(STRING) BY <1>4, PathTyped
<1>6. f \in Seq(S)
  <2>1. STRING \subseteq S BY <1>1
  <2>q. QED BY <1>5, <2>1, WiderSeq
<1>7. PICK n \in Nat : n = Len(f) BY <1>6, SeqParts
<1>8. x \in S BY <1>1
<1>9. PICK t \in Seq(S) : t = Append(f, x) BY <1>6, <1>8, SeqAppended
<1>10. Len(t) = n + 1 /\ \A i \in 1..n : t[i] = f[i] BY <1>6, <1>7, <1>8, <1>9, SeqAppended
<1>11. SubSeq(t, 1, n) = f
  <2>1. n \in 0..Len(t) /\ n <= Len(f) BY <1>7, <1>10
  <2>2. SubSeq(t, 1, n) = SubSeq(f, 1, n) BY <1>6, <1>9, <1>10, <2>1, BeginningOf
  <2>3. SubSeq(f, 1, n) = f BY <1>6, <1>7, WholeBeginning
  <2>q. QED BY <2>2, <2>3
<1>12. SymbolTemp(s).kind = "symbol" /\ SymbolTemp(s).place = t BY <1>1, <1>2, <1>9 DEF SymbolTemp, TempId
<1>13. \A Z : Z = STRING \cup {<<s.name, s.line>>} => Z = S BY <1>1
<1>q. QED BY <1>1, <1>2, <1>3, <1>4, <1>5, <1>6, <1>7, <1>9, <1>10, <1>11, <1>12, <1>13

LEMMA SymbolLink ==
    ASSUME GraphAssumption, IrInv, NEW s \in ToSet(irSymbols)
    PROVE  /\ Above(SymbolTemp(s)) = TempId("file", s.file)
           /\ Link(SymbolTemp(s)) = Edge(TempId("file", s.file), SymbolTemp(s), "contains")
<1>1. PICK t : t = SymbolTemp(s) OBVIOUS
<1>2. /\ t.kind = "symbol" /\ Len(s.file) \in Nat /\ Len(t.place) = Len(s.file) + 1
      /\ SubSeq(t.place, 1, Len(s.file)) = s.file
  <2>1. s.file \in Seq(STRING) BY SymbolPlace
  <2>2. Len(s.file) \in Nat BY <2>1
  <2>q. QED BY <1>1, <2>2, SymbolPlace
<1>3. Len(t.place) - 1 = Len(s.file) BY <1>2
<1>4. Above(t) = TempId("file", s.file) BY <1>2, <1>3 DEF Above
<1>q. QED BY <1>1, <1>4 DEF Link

LEMMA AboveIsThere ==
    ASSUME GraphAssumption, IrInv, NEW full \in BOOLEAN, NEW id \in Hanging(IdsOf(full))
    PROVE  Above(id) \in IdsOf(full)
<1>1. CASE id \in SymbolTemps /\ full
  <2>1. PICK s \in ToSet(irSymbols) : id = SymbolTemp(s) BY <1>1 DEF SymbolTemps
  <2>2. s.file \in ToSet(irFiles) BY SymbolPlace
  <2>3. Above(id) = TempId("file", s.file) BY <2>1, SymbolLink
  <2>4. TempId("file", s.file) \in IdsOfFile(s.file) BY DEF IdsOfFile
  <2>q. QED BY <2>2, <2>3, <2>4 DEF IdsOf
<1>2. ASSUME NEW p \in ToSet(irFiles), id \in IdsOfFile(p) PROVE Above(id) \in IdsOf(full)
  <2>1. p \in SourcePaths BY Elements DEF IrInv
  <2>2. PICK d \in Nat : d = ParentDepth(p) /\ 1 <= d /\ d <= Len(p) /\ Len(p) \in Nat /\ p \in Seq(STRING)
    BY <2>1, PathTyped
  <2>3. \A k \in 1..d : Branch(p, k) \in IdsOfFile(p)
    <3> SUFFICES ASSUME NEW k \in 1..d PROVE Branch(p, k) \in IdsOfFile(p) OBVIOUS
    <3>1. CASE k = 1 BY <3>1 DEF Branch, IdsOfFile
    <3>2. CASE k # 1
      <4>1. k \in 2..d BY <3>2
      <4>q. QED BY <2>2, <3>2, <4>1 DEF Branch, IdsOfFile
    <3>q. QED BY <3>1, <3>2
  <2>4. CASE id = TempId("file", p)
    <3>1. Above(id) = Branch(p, d) BY <2>2, <2>4 DEF Above, TempId
    <3>2. d \in 1..d BY <2>2
    <3>q. QED BY <2>3, <3>1, <3>2 DEF IdsOf
  <2>5. ASSUME NEW k \in 2..d, id = TempId("module", SubSeq(p, 1, k)) PROVE Above(id) \in IdsOf(full)
    <3>1. k \in 0..Len(p) /\ k - 1 \in 0..k /\ k - 1 \in 1..d /\ 1 \in 1..k BY <2>2
    <3>0. /\ SubSeq(p, 1, k) \in Seq(STRING) /\ Len(SubSeq(p, 1, k)) = k /\ SubSeq(p, 1, k)[1] = p[1]
      BY <2>2, <3>1, Beginning
    <3>2. PICK q \in Seq(STRING) : q = SubSeq(p, 1, k) /\ Len(q) = k /\ q[1] = p[1] BY <3>0
    <3>3. SubSeq(q, 1, k - 1) = SubSeq(p, 1, k - 1) BY <2>2, <3>1, <3>2, BeginningTwice
    <3>4. Branch(q, k - 1) = Branch(p, k - 1) BY <3>2, <3>3 DEF Branch
    <3>5. id.kind = "module" /\ id.place = q BY <2>5, <3>2 DEF TempId
    <3>6. Above(id) = Branch(p, k - 1) BY <3>2, <3>4, <3>5 DEF Above
    <3>q. QED BY <2>3, <3>1, <3>6 DEF IdsOf
  <2>6. id # TempId("crate", <<p[1]>>) BY DEF Hanging, TempId
  <2>q. QED BY <1>2, <2>2, <2>4, <2>5, <2>6 DEF IdsOfFile
<1>3. id \in IdsOf(full) BY DEF Hanging
<1>4. (\E p \in ToSet(irFiles) : id \in IdsOfFile(p)) \/ (full /\ id \in SymbolTemps)
  <2>1. CASE full
    <3>1. IdsOf(full) = (UNION {IdsOfFile(p) : p \in ToSet(irFiles)}) \cup SymbolTemps BY <2>1 DEF IdsOf
    <3>2. id \in UNION {IdsOfFile(p) : p \in ToSet(irFiles)} \/ id \in SymbolTemps BY <1>3, <3>1
    <3>3. id \in UNION {IdsOfFile(p) : p \in ToSet(irFiles)} => \E p \in ToSet(irFiles) : id \in IdsOfFile(p)
      OBVIOUS
    <3>q. QED BY <2>1, <3>2, <3>3, Zenon
  <2>2. CASE ~full
    <3>1. IdsOf(full) = (UNION {IdsOfFile(p) : p \in ToSet(irFiles)}) \cup {} BY <2>2 DEF IdsOf
    <3>q. QED BY <1>3, <3>1
  <2>q. QED BY <2>1, <2>2
<1>q. QED BY <1>1, <1>2, <1>4

LEMMA LastOf ==
    ASSUME NEW n \in Nat, NEW ix \in SUBSET (1..n), ix # {}
    PROVE  \E k \in ix : \A j \in ix : j <= k
<1> DEFINE B == {k \in Nat : \A j \in ix : j <= k}
<1>1. B \in SUBSET Nat /\ n \in B OBVIOUS
<1>2. PICK k \in B : \A l \in B : k <= l BY <1>1, LeastNat
<1>3. k \in Nat /\ \A j \in ix : j <= k BY <1>2
<1>4. SUFFICES ASSUME k \notin ix PROVE FALSE BY <1>3
<1>5. \A j \in ix : j \in Nat /\ 1 <= j /\ j <= k /\ j # k BY <1>3, <1>4
<1>6. k # 0
  <2>1. PICK j \in ix : TRUE OBVIOUS
  <2>q. QED BY <1>3, <1>5, <2>1
<1>7. k - 1 \in B BY <1>3, <1>5, <1>6
<1>q. QED BY <1>2, <1>3, <1>7

LEMMA CrossingTyped ==
    ASSUME IrInv
    PROVE  /\ IsFiniteSet(Crossing)
           /\ \A e \in Crossing : e.relation # "contains" /\ e.from \in SymbolTemps /\ e.to \in SymbolTemps
                                  /\ e = Edge(e.from, e.to, e.relation)
<1>1. PICK between : between = {x \in irEdges : x.from \in SymIds /\ x.to \in SymIds} OBVIOUS
<1>2. IsFiniteSet(between) BY <1>1, FS_Subset DEF IrInv
<1>3. PICK f : f = [e \in between |-> Edge(TempOf(e.from), TempOf(e.to), e.relation)] OBVIOUS
<1>4. PICK T : T = {f[e] : e \in between} OBVIOUS
<1>5. Crossing = T BY <1>1, <1>3, <1>4 DEF Crossing
<1>6. IsFiniteSet(Crossing)
  <2>1. DOMAIN f = between BY <1>3
  <2>q. QED BY <1>2, <1>4, <1>5, <2>1, SetMapped
<1>7. ASSUME NEW id \in SymIds PROVE TempOf(id) \in SymbolTemps
  <2>1. PICK n \in Nat : DOMAIN irSymbols = 1..n BY DEF IrInv
  <2>2. PICK ix : ix = {i \in DOMAIN irSymbols : irSymbols[i].id = id} OBVIOUS
  <2>3. PICK s \in ToSet(irSymbols) : s.id = id BY DEF SymIds
  <2>4. PICK i \in 1..n : irSymbols[i] = s BY <2>1 DEF ToSet
  <2>5. ix \in SUBSET (1..n) /\ ix # {} BY <2>1, <2>2, <2>3, <2>4
  <2>6. \E k \in ix : \A j \in ix : j <= k BY <2>5, LastOf
  <2>7. PICK k : k = (CHOOSE l \in ix : \A j \in ix : j <= l) OBVIOUS
  <2>8. k \in DOMAIN irSymbols BY <2>1, <2>5, <2>6, <2>7
  <2>9. TempOf(id) = SymbolTemp(irSymbols[k]) BY <2>2, <2>7 DEF TempOf
  <2>10. irSymbols[k] \in ToSet(irSymbols) BY <2>8 DEF ToSet
  <2>q. QED BY <2>9, <2>10 DEF SymbolTemps
<1>8. \A id \in SymIds : id[1] = "symbol" BY DEF SymIds, IrInv
<1>9. ASSUME NEW e \in between PROVE e.relation # "contains"
  <2>1. e \in irEdges /\ e.from[1] = "symbol" BY <1>1, <1>8
  <2>q. QED BY <2>1 DEF IrInv
<1>10. \A e \in between : TempOf(e.from) \in SymbolTemps /\ TempOf(e.to) \in SymbolTemps BY <1>1, <1>7
<1>11. \A e \in Crossing : e.relation # "contains" /\ e.from \in SymbolTemps /\ e.to \in SymbolTemps
                           /\ e = Edge(e.from, e.to, e.relation)
  BY <1>3, <1>4, <1>5, <1>9, <1>10 DEF Edge
<1>q. QED BY <1>6, <1>11


(* What is laid out before it is deduplicated.                             *)
NodesMeant(full) == {NodeOf(id) : id \in IdsOf(full)}
LaidNodes(full) ==
    LET trees == [i \in DOMAIN irFiles |-> Hierarchy(irFiles[i])]
    IN  FlattenSeq([i \in DOMAIN trees |-> trees[i].nodes]) \o (IF full THEN SymbolNodes ELSE <<>>)
LaidEdges(full) ==
    LET trees == [i \in DOMAIN irFiles |-> Hierarchy(irFiles[i])]
    IN  FlattenSeq([i \in DOMAIN trees |-> trees[i].edges]) \o (IF full THEN SymbolEdges \o CrossEdges ELSE <<>>)

LEMMA SymbolsApart == ASSUME NEW full \in BOOLEAN
    PROVE  /\ full => IdsOf(full) = (UNION {IdsOfFile(p) : p \in ToSet(irFiles)}) \cup SymbolTemps
           /\ ~full => IdsOf(full) = UNION {IdsOfFile(p) : p \in ToSet(irFiles)}
           /\ full => AllLinks(full) = {Link(id) : id \in Hanging(IdsOf(full))} \cup Crossing
           /\ ~full => AllLinks(full) = {Link(id) : id \in Hanging(IdsOf(full))}
BY DEF IdsOf, AllLinks

LEMMA IdsShaped ==
    ASSUME NEW full \in BOOLEAN, NEW id \in IdsOf(full)
    PROVE  NodeOf(id) = [id |-> id, kind |-> id.kind, children |-> 0]
<1>1. PICK files : files = UNION {IdsOfFile(p) : p \in ToSet(irFiles)} OBVIOUS
<1>2. id \in files \/ id \in SymbolTemps BY <1>1, SymbolsApart
<1>3. \E kind, place : id = TempId(kind, place)
  <2>1. ASSUME NEW p, id \in IdsOfFile(p) PROVE \E kind, place : id = TempId(kind, place) BY <2>1 DEF IdsOfFile
  <2>2. id \in SymbolTemps => \E kind, place : id = TempId(kind, place) BY DEF SymbolTemps, SymbolTemp
  <2>q. QED BY <1>1, <1>2, <2>1, <2>2
<1>q. QED BY <1>3 DEF NodeOf, Node, TempId

LEMMA NodesLaid ==
    ASSUME GraphAssumption, IrInv, NEW full \in BOOLEAN
    PROVE  LaidNodes(full) \in Seq(NodesMeant(full)) /\ ToSet(LaidNodes(full)) = NodesMeant(full)
<1> DEFINE trees == [i \in DOMAIN irFiles |-> Hierarchy(irFiles[i])]
<1>0. PICK all : all = LaidNodes(full) OBVIOUS
<1>e. all = FlattenSeq([i \in DOMAIN trees |-> trees[i].nodes]) \o (IF full THEN SymbolNodes ELSE <<>>)
  BY <1>0 DEF LaidNodes
<1>1. PICK M : M = NodesMeant(full) OBVIOUS
<1>2. PICK of : of = [p \in ToSet(irFiles) |-> Hierarchy(p).nodes] OBVIOUS
<1>3. irFiles \in Seq(SourcePaths) /\ ToSet(irFiles) \subseteq SourcePaths BY Elements DEF IrInv
<1>4. \A i \in DOMAIN irFiles : irFiles[i] \in ToSet(irFiles) BY DEF ToSet
<1>5. PICK flat : flat = FlattenSeq([i \in DOMAIN irFiles |-> of[irFiles[i]]]) OBVIOUS
<1>6. FlattenSeq([i \in DOMAIN trees |-> trees[i].nodes]) = flat
  <2>1. DOMAIN trees = DOMAIN irFiles /\ \A i \in DOMAIN irFiles : trees[i].nodes = of[irFiles[i]] BY <1>2, <1>4
  <2>2. [i \in DOMAIN trees |-> trees[i].nodes] = [i \in DOMAIN irFiles |-> of[irFiles[i]]] BY <2>1
  <2>q. QED BY <1>5, <2>2
<1>7. \A p \in ToSet(irFiles) : of[p] \in Seq(M) /\ ToSet(of[p]) = {NodeOf(id) : id \in IdsOfFile(p)}
  <2> SUFFICES ASSUME NEW p \in ToSet(irFiles)
               PROVE  of[p] \in Seq(M) /\ ToSet(of[p]) = {NodeOf(id) : id \in IdsOfFile(p)}
    OBVIOUS
  <2>1. PICK T : T = {NodeOf(id) : id \in IdsOfFile(p)} OBVIOUS
  <2>2. of[p] \in Seq(T) /\ ToSet(of[p]) = T BY <1>2, <1>3, <2>1, NodesOfFile
  <2>3. T \subseteq M BY <1>1, <2>1 DEF NodesMeant, IdsOf
  <2>q. QED BY <2>1, <2>2, <2>3, WiderSeq
<1>8. flat \in Seq(M) /\ \A x : x \in ToSet(flat) <=> \E p \in ToSet(irFiles) : x \in ToSet(of[p])
  <2>1. irFiles \in Seq(SourcePaths) BY <1>3
  <2>2. \A p \in ToSet(irFiles) : of[p] \in Seq(M) BY <1>7
  <2>3. PICK seqs : seqs = [i \in DOMAIN irFiles |-> of[irFiles[i]]] OBVIOUS
  <2>4. seqs \in [DOMAIN irFiles -> Seq(M)] /\ \A i \in DOMAIN irFiles : seqs[i] = of[irFiles[i]] BY <1>4, <2>2, <2>3
  <2>5. flat = FlattenSeq(seqs) BY <1>5, <2>3
  <2>6. /\ FlattenSeq(seqs) \in Seq(M)
        /\ \A x : x \in ToSet(FlattenSeq(seqs)) <=> \E p \in ToSet(irFiles) : x \in ToSet(of[p])
    BY <2>1, <2>2, <2>4, OneAfterOther
  <2>q. QED BY <2>5, <2>6
<1>9. PICK files : files = UNION {IdsOfFile(p) : p \in ToSet(irFiles)} OBVIOUS
<1>10. ToSet(flat) = {NodeOf(id) : id \in files}
  <2>1. \A x \in ToSet(flat) : \E p \in ToSet(irFiles) : x \in {NodeOf(id) : id \in IdsOfFile(p)} BY <1>7, <1>8
  <2>2. ASSUME NEW id \in files PROVE \E p \in ToSet(irFiles) : NodeOf(id) \in ToSet(of[p])
    <3>1. PICK p \in ToSet(irFiles) : id \in IdsOfFile(p) BY <1>9
    <3>2. NodeOf(id) \in ToSet(of[p]) BY <1>7, <3>1
    <3>q. QED BY <3>2
  <2>3. ToSet(flat) \subseteq {NodeOf(id) : id \in files} BY <1>9, <2>1
  <2>4. {NodeOf(id) : id \in files} \subseteq ToSet(flat) BY <1>8, <2>2
  <2>q. QED BY <2>3, <2>4
<1>11. ASSUME ~full PROVE all \in Seq(M) /\ ToSet(all) = M
  <2>1. all = flat \o <<>> /\ IdsOf(full) = files BY <1>e, <1>6, <1>9, <1>11, SymbolsApart
  <2>2. <<>> \in Seq(M) /\ ToSet(<<>>) = {} BY DEF ToSet
  <2>3. flat \o <<>> \in Seq(M) /\ ToSet(flat \o <<>>) = ToSet(flat) \cup ToSet(<<>>) BY <1>8, <2>2, JoinedElements
  <2>q. QED BY <1>1, <1>10, <2>1, <2>2, <2>3 DEF NodesMeant
<1>12. ASSUME full PROVE all \in Seq(M) /\ ToSet(all) = M
  <2>1. all = flat \o SymbolNodes /\ IdsOf(full) = files \cup SymbolTemps BY <1>e, <1>6, <1>9, <1>12, SymbolsApart
  <2>2. \A i \in DOMAIN irSymbols : SymbolNodes[i] = NodeOf(SymbolTemp(irSymbols[i]))
    BY DEF SymbolNodes, NodeOf, SymbolTemp, TempId
  <2>3. \A i \in DOMAIN irSymbols : irSymbols[i] \in ToSet(irSymbols) BY DEF ToSet
  <2>4. \A i \in DOMAIN irSymbols : SymbolNodes[i] \in M
    <3>1. \A i \in DOMAIN irSymbols : SymbolTemp(irSymbols[i]) \in SymbolTemps BY <2>3 DEF SymbolTemps
    <3>q. QED BY <1>1, <2>1, <2>2, <3>1 DEF NodesMeant
  <2>5. SymbolNodes \in [DOMAIN irSymbols -> M] BY <2>4 DEF SymbolNodes
  <2>6. SymbolNodes \in Seq(M) BY <2>5, EachMapped DEF IrInv
  <2>7. ToSet(SymbolNodes) = {NodeOf(id) : id \in SymbolTemps}
    <3>1. ToSet(SymbolNodes) = {SymbolNodes[i] : i \in DOMAIN irSymbols} BY <2>5 DEF ToSet
    <3>2. ToSet(SymbolNodes) \subseteq {NodeOf(id) : id \in SymbolTemps} BY <2>2, <2>3, <3>1 DEF SymbolTemps
    <3>3. ASSUME NEW s \in ToSet(irSymbols) PROVE NodeOf(SymbolTemp(s)) \in ToSet(SymbolNodes)
      <4>1. PICK i \in DOMAIN irSymbols : irSymbols[i] = s BY DEF ToSet
      <4>q. QED BY <2>2, <3>1, <4>1
    <3>4. {NodeOf(id) : id \in SymbolTemps} \subseteq ToSet(SymbolNodes) BY <3>3 DEF SymbolTemps
    <3>q. QED BY <3>2, <3>4
  <2>8. flat \o SymbolNodes \in Seq(M) /\ ToSet(flat \o SymbolNodes) = ToSet(flat) \cup ToSet(SymbolNodes)
    BY <1>8, <2>6, JoinedElements
  <2>9. M = {NodeOf(id) : id \in files} \cup {NodeOf(id) : id \in SymbolTemps} BY <1>1, <2>1 DEF NodesMeant
  <2>q. QED BY <1>1, <1>10, <2>1, <2>7, <2>8, <2>9
<1>q. QED BY <1>0, <1>1, <1>11, <1>12

LEMMA EdgesLaid ==
    ASSUME GraphAssumption, IrInv, NEW full \in BOOLEAN
    PROVE  LaidEdges(full) \in Seq(AllLinks(full)) /\ ToSet(LaidEdges(full)) = AllLinks(full)
<1> DEFINE trees == [i \in DOMAIN irFiles |-> Hierarchy(irFiles[i])]
<1>0. PICK all : all = LaidEdges(full) OBVIOUS
<1>e. all = FlattenSeq([i \in DOMAIN trees |-> trees[i].edges]) \o (IF full THEN SymbolEdges \o CrossEdges ELSE <<>>)
  BY <1>0 DEF LaidEdges
<1>1. PICK M : M = AllLinks(full) OBVIOUS
<1>2. PICK of : of = [p \in ToSet(irFiles) |-> Hierarchy(p).edges] OBVIOUS
<1>3. irFiles \in Seq(SourcePaths) /\ ToSet(irFiles) \subseteq SourcePaths BY Elements DEF IrInv
<1>4. \A i \in DOMAIN irFiles : irFiles[i] \in ToSet(irFiles) BY DEF ToSet
<1>5. PICK flat : flat = FlattenSeq([i \in DOMAIN irFiles |-> of[irFiles[i]]]) OBVIOUS
<1>6. FlattenSeq([i \in DOMAIN trees |-> trees[i].edges]) = flat
  <2>1. DOMAIN trees = DOMAIN irFiles /\ \A i \in DOMAIN irFiles : trees[i].edges = of[irFiles[i]] BY <1>2, <1>4
  <2>2. [i \in DOMAIN trees |-> trees[i].edges] = [i \in DOMAIN irFiles |-> of[irFiles[i]]] BY <2>1
  <2>q. QED BY <1>5, <2>2
<1>9. PICK files : files = UNION {IdsOfFile(p) : p \in ToSet(irFiles)} OBVIOUS
<1>a. files \subseteq IdsOf(full) BY <1>9, SymbolsApart
<1>b. {Link(id) : id \in Hanging(files)} \subseteq M
  <2>1. Hanging(files) \subseteq Hanging(IdsOf(full)) BY <1>a DEF Hanging
  <2>2. {Link(id) : id \in Hanging(IdsOf(full))} \subseteq M BY <1>1, SymbolsApart
  <2>q. QED BY <2>1, <2>2
<1>c. \A p \in ToSet(irFiles) : Hanging(IdsOfFile(p)) \subseteq Hanging(files) BY <1>9 DEF Hanging
<1>7. \A p \in ToSet(irFiles) : of[p] \in Seq(M) /\ ToSet(of[p]) = {Link(id) : id \in Hanging(IdsOfFile(p))}
  <2> SUFFICES ASSUME NEW p \in ToSet(irFiles)
               PROVE  of[p] \in Seq(M) /\ ToSet(of[p]) = {Link(id) : id \in Hanging(IdsOfFile(p))}
    OBVIOUS
  <2>1. PICK T : T = {Link(id) : id \in Hanging(IdsOfFile(p))} OBVIOUS
  <2>2. of[p] \in Seq(T) /\ ToSet(of[p]) = T BY <1>2, <1>3, <2>1, EdgesOfFile
  <2>3. T \subseteq M BY <1>b, <1>c, <2>1
  <2>q. QED BY <2>1, <2>2, <2>3, WiderSeq
<1>8. flat \in Seq(M) /\ \A x : x \in ToSet(flat) <=> \E p \in ToSet(irFiles) : x \in ToSet(of[p])
  <2>1. irFiles \in Seq(SourcePaths) BY <1>3
  <2>2. \A p \in ToSet(irFiles) : of[p] \in Seq(M) BY <1>7
  <2>3. PICK seqs : seqs = [i \in DOMAIN irFiles |-> of[irFiles[i]]] OBVIOUS
  <2>4. seqs \in [DOMAIN irFiles -> Seq(M)] /\ \A i \in DOMAIN irFiles : seqs[i] = of[irFiles[i]] BY <1>4, <2>2, <2>3
  <2>5. flat = FlattenSeq(seqs) BY <1>5, <2>3
  <2>6. /\ FlattenSeq(seqs) \in Seq(M)
        /\ \A x : x \in ToSet(FlattenSeq(seqs)) <=> \E p \in ToSet(irFiles) : x \in ToSet(of[p])
    BY <2>1, <2>2, <2>4, OneAfterOther
  <2>q. QED BY <2>5, <2>6
<1>10. ToSet(flat) = {Link(id) : id \in Hanging(files)}
  <2>1. \A x \in ToSet(flat) : \E p \in ToSet(irFiles) : x \in {Link(id) : id \in Hanging(IdsOfFile(p))} BY <1>7, <1>8
  <2>2. \A id \in Hanging(files) : \E p \in ToSet(irFiles) : id \in Hanging(IdsOfFile(p)) BY <1>9 DEF Hanging
  <2>3. ToSet(flat) \subseteq {Link(id) : id \in Hanging(files)} BY <1>c, <2>1
  <2>4. ASSUME NEW id \in Hanging(files) PROVE Link(id) \in ToSet(flat)
    <3>1. PICK p \in ToSet(irFiles) : id \in Hanging(IdsOfFile(p)) BY <2>2
    <3>2. Link(id) \in ToSet(of[p]) BY <1>7, <3>1
    <3>q. QED BY <1>8, <3>2
  <2>q. QED BY <2>3, <2>4
<1>11. ASSUME ~full PROVE all \in Seq(M) /\ ToSet(all) = M
  <2>1. all = flat \o <<>> /\ IdsOf(full) = files BY <1>e, <1>6, <1>9, <1>11, SymbolsApart
  <2>2. <<>> \in Seq(M) /\ ToSet(<<>>) = {} BY DEF ToSet
  <2>3. flat \o <<>> \in Seq(M) /\ ToSet(flat \o <<>>) = ToSet(flat) \cup ToSet(<<>>) BY <1>8, <2>2, JoinedElements
  <2>4. M = {Link(id) : id \in Hanging(files)} BY <1>1, <1>11, <2>1, SymbolsApart
  <2>q. QED BY <1>1, <1>10, <2>1, <2>2, <2>3, <2>4
<1>12. ASSUME full PROVE all \in Seq(M) /\ ToSet(all) = M
  <2>0. PICK cross : cross = CrossEdges OBVIOUS
  <2>1. all = flat \o (SymbolEdges \o cross) /\ IdsOf(full) = files \cup SymbolTemps
    BY <1>e, <1>6, <1>9, <1>12, <2>0, SymbolsApart
  <2>2. \A i \in DOMAIN irSymbols : irSymbols[i] \in ToSet(irSymbols) BY DEF ToSet
  <2>3. \A i \in DOMAIN irSymbols : SymbolEdges[i] = Link(SymbolTemp(irSymbols[i]))
    BY <2>2, SymbolLink DEF SymbolEdges
  <2>4. \A id \in SymbolTemps : id.kind = "symbol" BY SymbolPlace DEF SymbolTemps
  <2>5. Hanging(IdsOf(full)) = Hanging(files) \cup SymbolTemps BY <2>1, <2>4 DEF Hanging
  <2>6. M = {Link(id) : id \in Hanging(files)} \cup {Link(id) : id \in SymbolTemps} \cup Crossing
    <3>1. M = {Link(id) : id \in Hanging(IdsOf(full))} \cup Crossing BY <1>1, <1>12, SymbolsApart
    <3>q. QED BY <2>5, <3>1
  <2>7. \A i \in DOMAIN irSymbols : SymbolTemp(irSymbols[i]) \in SymbolTemps BY <2>2 DEF SymbolTemps
  <2>8. SymbolEdges \in [DOMAIN irSymbols -> M]
    <3>1. \A i \in DOMAIN irSymbols : SymbolEdges[i] \in M BY <2>3, <2>6, <2>7
    <3>q. QED BY <3>1 DEF SymbolEdges
  <2>9. SymbolEdges \in Seq(M) BY <2>8, EachMapped DEF IrInv
  <2>10. ToSet(SymbolEdges) = {Link(id) : id \in SymbolTemps}
    <3>1. ToSet(SymbolEdges) = {SymbolEdges[i] : i \in DOMAIN irSymbols} BY <2>8 DEF ToSet
    <3>2. ToSet(SymbolEdges) \subseteq {Link(id) : id \in SymbolTemps} BY <2>3, <2>7, <3>1
    <3>3. ASSUME NEW s \in ToSet(irSymbols) PROVE Link(SymbolTemp(s)) \in ToSet(SymbolEdges)
      <4>1. PICK i \in DOMAIN irSymbols : irSymbols[i] = s BY DEF ToSet
      <4>q. QED BY <2>3, <3>1, <4>1
    <3>4. {Link(id) : id \in SymbolTemps} \subseteq ToSet(SymbolEdges) BY <3>3 DEF SymbolTemps
    <3>q. QED BY <3>2, <3>4
  <2>11. cross \in Seq(M) /\ ToSet(cross) = Crossing
    <3>1. cross = SetToSeq(Crossing) BY <2>0 DEF CrossEdges, Crossing
    <3>2. IsFiniteSet(Crossing) BY CrossingTyped
    <3>3. cross \in Seq(Crossing) /\ {cross[i] : i \in DOMAIN cross} = Crossing BY <3>1, <3>2, EachInSeq
    <3>4. Crossing \subseteq M BY <2>6
    <3>q. QED BY <3>3, <3>4, WiderSeq DEF ToSet
  <2>12. PICK tail : tail = SymbolEdges \o cross OBVIOUS
  <2>13. tail \in Seq(M) /\ ToSet(tail) = ToSet(SymbolEdges) \cup ToSet(cross) BY <2>9, <2>11, <2>12, JoinedElements
  <2>14. flat \o tail \in Seq(M) /\ ToSet(flat \o tail) = ToSet(flat) \cup ToSet(tail) BY <1>8, <2>13, JoinedElements
  <2>15. ToSet(all) = M BY <1>10, <2>1, <2>6, <2>10, <2>11, <2>12, <2>13, <2>14
  <2>q. QED BY <1>1, <2>1, <2>12, <2>14, <2>15
<1>q. QED BY <1>0, <1>1, <1>11, <1>12


(* A whole graph or an overview is its ids and its links, each once.       *)
HashOf(id) == <<id.kind, "hash", id>>
Drawn(g, ids, links) ==
    /\ g.nodes = [i \in DOMAIN ids |-> [id |-> HashOf(ids[i]), kind |-> ids[i].kind,
                                        children |-> Children(g.edges, HashOf(ids[i]))]]
    /\ g.edges = [i \in DOMAIN links |-> Edge(HashOf(links[i].from), HashOf(links[i].to), links[i].relation)]
OnceEach(s, S) == s \in Seq(S) /\ ToSet(s) = S /\ \A i, j \in DOMAIN s : s[i] = s[j] => i = j

LEMMA LinkEnds ==
    ASSUME GraphAssumption, IrInv, NEW full \in BOOLEAN, NEW e \in AllLinks(full)
    PROVE  /\ e.from \in IdsOf(full) /\ e.to \in IdsOf(full) /\ e = Edge(e.from, e.to, e.relation)
           /\ e.relation = "contains" => e.to \in Hanging(IdsOf(full)) /\ e = Link(e.to)
<1>1. CASE \E id \in Hanging(IdsOf(full)) : e = Link(id)
  <2>1. PICK id \in Hanging(IdsOf(full)) : e = Link(id) BY <1>1
  <2>2. e.from = Above(id) /\ e.to = id /\ e = Edge(e.from, e.to, e.relation) BY <2>1 DEF Link, Edge
  <2>3. Above(id) \in IdsOf(full) /\ id \in IdsOf(full) BY AboveIsThere DEF Hanging
  <2>q. QED BY <2>1, <2>2, <2>3
<1>2. CASE full /\ e \in Crossing
  <2>1. e.relation # "contains" /\ e.from \in SymbolTemps /\ e.to \in SymbolTemps /\ e = Edge(e.from, e.to, e.relation)
    BY <1>2, CrossingTyped
  <2>2. SymbolTemps \subseteq IdsOf(full) BY <1>2, SymbolsApart
  <2>q. QED BY <2>1, <2>2
<1>q. QED BY <1>1, <1>2, SymbolsApart

(* What hashing the ids makes of the nodes and edges.                      *)
DrawnOf(ns, es, of) ==
    LET hashed == [i \in DOMAIN es |-> [es[i] EXCEPT !.from = Hashed(ns, @), !.to = Hashed(ns, @)]]
    IN  [nodes |-> [i \in DOMAIN ns |-> [ns[i] EXCEPT !.id = Hashed(ns, @),
                                                      !.children = Children(hashed, Hashed(ns, ns[i].id))]],
         edges |-> hashed, of |-> of]

LEMMA LaidIs ==
    ASSUME GraphAssumption, IrInv, NEW full \in BOOLEAN
    PROVE  /\ \E ids, links : /\ OnceEach(ids, IdsOf(full)) /\ OnceEach(links, AllLinks(full))
                              /\ Drawn(Laid(full), ids, links)
           /\ Laid(full).of = <<IF full THEN "full" ELSE "overview">>
<1>1. PICK allN : allN = LaidNodes(full) OBVIOUS
<1>2. PICK allE : allE = LaidEdges(full) OBVIOUS
<1>3. PICK of : of = <<IF full THEN "full" ELSE "overview">> OBVIOUS
<1>4. PICK M : M = NodesMeant(full) OBVIOUS
<1>5. PICK L : L = AllLinks(full) OBVIOUS
<1>6. allN \in Seq(M) /\ ToSet(allN) = M BY <1>1, <1>4, NodesLaid
<1>7. allE \in Seq(L) /\ ToSet(allE) = L BY <1>2, <1>5, EdgesLaid
<1>8. PICK ns : ns = DedupeNodes(allN) OBVIOUS
<1>9. PICK es : es = DedupeEdges(allE) OBVIOUS
<1>10. /\ ns \in Seq(M) /\ \A k, l \in DOMAIN ns : ns[k].id = ns[l].id => k = l
       /\ \A x \in M : \E y \in ToSet(ns) : y.id = x.id
  BY <1>6, <1>8, NodesDeduped
<1>11. es \in Seq(L) /\ ToSet(es) = L /\ \A k, l \in DOMAIN es : es[k] = es[l] => k = l
  BY <1>7, <1>9, EdgesDeduped
<1>12. PICK I : I = IdsOf(full) OBVIOUS
<1>13. \A id \in I : NodeOf(id) = [id |-> id, kind |-> id.kind, children |-> 0] BY <1>12, IdsShaped
<1>14. PICK n \in Nat : n = Len(ns) /\ DOMAIN ns = 1..n BY <1>10, SeqParts
<1>15. PICK m \in Nat : m = Len(es) /\ DOMAIN es = 1..m BY <1>11, SeqParts
<1>16. PICK ids : ids = [i \in 1..n |-> ns[i].id] OBVIOUS
<1>17. \A i \in 1..n : ids[i] \in I /\ ns[i] = [id |-> ids[i], kind |-> ids[i].kind, children |-> 0]
  <2> SUFFICES ASSUME NEW i \in 1..n
               PROVE  ids[i] \in I /\ ns[i] = [id |-> ids[i], kind |-> ids[i].kind, children |-> 0]
    OBVIOUS
  <2>1. ns[i] \in M BY <1>10, <1>14
  <2>2. PICK id \in I : ns[i] = NodeOf(id) BY <1>4, <1>12, <2>1 DEF NodesMeant
  <2>q. QED BY <1>13, <1>16, <2>2
<1>18. OnceEach(ids, I)
  <2>1. ids \in [1..n -> I] BY <1>16, <1>17
  <2>2. ids \in Seq(I) BY <2>1, SeqFrom
  <2>3. ToSet(ids) = {ids[i] : i \in 1..n} BY <2>1 DEF ToSet
  <2>4. ASSUME NEW id \in I PROVE id \in ToSet(ids)
    <3>1. NodeOf(id) \in M /\ NodeOf(id).id = id BY <1>4, <1>12, <1>13 DEF NodesMeant
    <3>2. PICK y \in ToSet(ns) : y.id = id BY <1>10, <3>1
    <3>3. PICK i \in 1..n : y = ns[i] BY <1>14 DEF ToSet
    <3>4. ids[i] = id BY <1>16, <3>2, <3>3
    <3>q. QED BY <2>3, <3>4
  <2>5. \A i, j \in 1..n : ids[i] = ids[j] => i = j BY <1>10, <1>14, <1>16
  <2>6. DOMAIN ids = 1..n BY <2>1
  <2>q. QED BY <1>17, <2>2, <2>3, <2>4, <2>5, <2>6 DEF OnceEach
<1>19. \A id \in I : Hashed(ns, id) = HashOf(id)
  <2> SUFFICES ASSUME NEW id \in I PROVE \E i \in DOMAIN ns : ns[i].id = id BY DEF Hashed, HashOf
  <2>1. id \in ToSet(ids) BY <1>18 DEF OnceEach
  <2>2. PICK i \in 1..n : ids[i] = id BY <1>16, <2>1 DEF ToSet
  <2>q. QED BY <1>14, <1>16, <2>2
<1>20. \A i \in 1..m : es[i].from \in I /\ es[i].to \in I /\ es[i] = Edge(es[i].from, es[i].to, es[i].relation)
  <2> SUFFICES ASSUME NEW i \in 1..m
               PROVE  es[i].from \in I /\ es[i].to \in I /\ es[i] = Edge(es[i].from, es[i].to, es[i].relation)
    OBVIOUS
  <2>1. es[i] \in AllLinks(full) BY <1>5, <1>11, <1>15
  <2>q. QED BY <1>12, <2>1, LinkEnds
<1>21. PICK g : g = Laid(full) OBVIOUS
<1>22. g = DrawnOf(ns, es, of)
  <2>1. Laid(full) = DrawnOf(DedupeNodes(LaidNodes(full)), DedupeEdges(LaidEdges(full)),
                             <<IF full THEN "full" ELSE "overview">>)
    BY DEF Laid, DrawnOf, LaidNodes, LaidEdges
  <2>q. QED BY <1>1, <1>2, <1>3, <1>8, <1>9, <1>21, <2>1
<1> DEFINE hashed == [i \in DOMAIN es |-> [es[i] EXCEPT !.from = Hashed(ns, @), !.to = Hashed(ns, @)]]
           drawn == [i \in DOMAIN ns |-> [ns[i] EXCEPT !.id = Hashed(ns, @),
                                                       !.children = Children(hashed, Hashed(ns, ns[i].id))]]
<1>24. g = [nodes |-> drawn, edges |-> hashed, of |-> of] BY <1>22 DEF DrawnOf
<1>25. \A i \in 1..m : hashed[i] = Edge(HashOf(es[i].from), HashOf(es[i].to), es[i].relation)
  <2> SUFFICES ASSUME NEW i \in 1..m
               PROVE  hashed[i] = Edge(HashOf(es[i].from), HashOf(es[i].to), es[i].relation)
    OBVIOUS
  <2>1. PICK a, b, r : es[i] = Edge(a, b, r) /\ a \in I /\ b \in I BY <1>20
  <2>2. es[i] = [from |-> a, to |-> b, relation |-> r] BY <2>1 DEF Edge
  <2>3. Hashed(ns, a) = HashOf(a) /\ Hashed(ns, b) = HashOf(b) BY <1>19, <2>1
  <2>4. hashed[i] = [es[i] EXCEPT !.from = Hashed(ns, es[i].from), !.to = Hashed(ns, es[i].to)] BY <1>15
  <2>6. es[i].from = a /\ es[i].to = b BY <2>2
  <2>5. PICK x, y, e, h : x = HashOf(a) /\ y = HashOf(b) /\ e = es[i] /\ h = hashed[i] OBVIOUS
  <2>7. h = [e EXCEPT !.from = x, !.to = y] BY <2>3, <2>4, <2>5, <2>6
  <2>8. [e EXCEPT !.from = x, !.to = y] = [from |-> x, to |-> y, relation |-> r]
    <3>1. e = [from |-> a, to |-> b, relation |-> r] BY <2>2, <2>5
    <3>2. PICK f : f = [e EXCEPT !.from = x] OBVIOUS
    <3>3. f = [from |-> x, to |-> b, relation |-> r] BY <3>1, <3>2
    <3>4. [f EXCEPT !.to = y] = [from |-> x, to |-> y, relation |-> r] BY <3>3
    <3>5. [e EXCEPT !.from = x, !.to = y] = [[e EXCEPT !.from = x] EXCEPT !.to = y] BY <3>1
    <3>q. QED BY <3>2, <3>4, <3>5
  <2>9. h = Edge(x, y, r) /\ e.relation = r BY <2>2, <2>5, <2>7, <2>8 DEF Edge
  <2>q. QED BY <2>5, <2>6, <2>9
<1>26. \A i \in 1..n : drawn[i] = [id |-> HashOf(ids[i]), kind |-> ids[i].kind, children |-> Children(hashed, HashOf(ids[i]))]
  <2> SUFFICES ASSUME NEW i \in 1..n
               PROVE  drawn[i] = [id |-> HashOf(ids[i]), kind |-> ids[i].kind, children |-> Children(hashed, HashOf(ids[i]))]
    OBVIOUS
  <2>1. PICK a, k : a = ids[i] /\ k = ids[i].kind OBVIOUS
  <2>2. a \in I /\ ns[i] = [id |-> a, kind |-> k, children |-> 0] BY <1>17, <2>1
  <2>3. Hashed(ns, a) = HashOf(a) BY <1>19, <2>2
  <2>4. ns[i].id = a BY <2>2
  <2>5. drawn[i] = [ns[i] EXCEPT !.id = Hashed(ns, ns[i].id), !.children = Children(hashed, Hashed(ns, ns[i].id))]
    BY <1>14
  <2>6. PICK x, y, v, h : x = HashOf(a) /\ y = Children(hashed, HashOf(a)) /\ v = ns[i] /\ h = drawn[i] OBVIOUS
  <2>7. h = [v EXCEPT !.id = x, !.children = y] BY <2>3, <2>4, <2>5, <2>6
  <2>8. [v EXCEPT !.id = x, !.children = y] = [id |-> x, kind |-> k, children |-> y]
    <3>1. v = [id |-> a, kind |-> k, children |-> 0] BY <2>2, <2>6
    <3>2. PICK f : f = [v EXCEPT !.id = x] OBVIOUS
    <3>3. f = [id |-> x, kind |-> k, children |-> 0] BY <3>1, <3>2
    <3>4. [f EXCEPT !.children = y] = [id |-> x, kind |-> k, children |-> y] BY <3>3
    <3>5. [v EXCEPT !.id = x, !.children = y] = [[v EXCEPT !.id = x] EXCEPT !.children = y] BY <3>1
    <3>q. QED BY <3>2, <3>4, <3>5
  <2>q. QED BY <2>1, <2>6, <2>7, <2>8
<1>27. Drawn(g, ids, es)
  <2>1. g.nodes = drawn /\ g.edges = hashed BY <1>24
  <2>2. DOMAIN drawn = 1..n /\ DOMAIN ids = 1..n /\ DOMAIN hashed = 1..m /\ DOMAIN es = 1..m
    BY <1>14, <1>15, <1>16
  <2>3. drawn = [i \in DOMAIN ids |-> [id |-> HashOf(ids[i]), kind |-> ids[i].kind,
                                       children |-> Children(hashed, HashOf(ids[i]))]]
    <3>1. DOMAIN drawn = DOMAIN ids BY <2>2
    <3> HIDE DEF hashed
    <3>q. QED BY <1>14, <1>26, <3>1
  <2>4. hashed = [i \in DOMAIN es |-> Edge(HashOf(es[i].from), HashOf(es[i].to), es[i].relation)]
    BY <1>15, <1>25
  <2>q. QED BY <2>1, <2>3, <2>4 DEF Drawn
<1>28. OnceEach(es, L) BY <1>11 DEF OnceEach
<1>29. g.of = of BY <1>24
<1>30. OnceEach(ids, IdsOf(full)) /\ OnceEach(es, AllLinks(full)) /\ Drawn(Laid(full), ids, es)
  BY <1>5, <1>12, <1>18, <1>21, <1>27, <1>28
<1>q. QED BY <1>3, <1>21, <1>29, <1>30


(* A whole graph and an overview are forests.                              *)
LEMMA HashApart == \A a, b : HashOf(a) = HashOf(b) => a = b
<1>1. \A a : HashOf(a)[3] = a BY DEF HashOf
<1>q. QED BY <1>1

DrawnTo(g, ids, links, I, L) ==
    /\ Len(ids) \in Nat /\ DOMAIN ids = 1..Len(ids) /\ Len(links) \in Nat /\ DOMAIN links = 1..Len(links)
    /\ g.nodes \in Seq(ToSet(g.nodes)) /\ Len(g.nodes) = Len(ids) /\ DOMAIN g.nodes = 1..Len(ids)
    /\ g.edges \in Seq(ToSet(g.edges)) /\ Len(g.edges) = Len(links) /\ DOMAIN g.edges = 1..Len(links)
    /\ \A i \in 1..Len(ids) : /\ ids[i] \in I /\ g.nodes[i] \in ToSet(g.nodes)
                              /\ g.nodes[i].id = HashOf(ids[i]) /\ g.nodes[i].kind = ids[i].kind
                              /\ g.nodes[i].children = Children(g.edges, HashOf(ids[i]))
    /\ \A i \in 1..Len(links) : /\ links[i] \in L /\ g.edges[i] \in ToSet(g.edges)
                                /\ g.edges[i].from = HashOf(links[i].from) /\ g.edges[i].to = HashOf(links[i].to)
                                /\ g.edges[i].relation = links[i].relation
    /\ \A id \in I : \E i \in 1..Len(ids) : ids[i] = id
    /\ \A e \in L : \E i \in 1..Len(links) : links[i] = e
    /\ \A x \in ToSet(g.nodes) : \E i \in 1..Len(ids) : g.nodes[i] = x
    /\ \A x \in ToSet(g.edges) : \E i \in 1..Len(links) : g.edges[i] = x

LEMMA DrawnParts ==
    ASSUME NEW I, NEW L, NEW g, NEW ids, NEW links, OnceEach(ids, I), OnceEach(links, L), Drawn(g, ids, links)
    PROVE  DrawnTo(g, ids, links, I, L)
<1>1. PICK n \in Nat : n = Len(ids) /\ DOMAIN ids = 1..n /\ ToSet(ids) = {ids[i] : i \in 1..n} /\ ids \in Seq(I)
  <2>1. ids \in Seq(I) BY DEF OnceEach
  <2>q. QED BY <2>1, SeqParts DEF ToSet
<1>2. PICK m \in Nat : m = Len(links) /\ DOMAIN links = 1..m /\ ToSet(links) = {links[i] : i \in 1..m} /\ links \in Seq(L)
  <2>1. links \in Seq(L) BY DEF OnceEach
  <2>q. QED BY <2>1, SeqParts DEF ToSet
<1>3. PICK u : u = g.nodes OBVIOUS
<1>4. PICK v : v = g.edges OBVIOUS
<1>5. u = [i \in 1..n |-> [id |-> HashOf(ids[i]), kind |-> ids[i].kind, children |-> Children(v, HashOf(ids[i]))]]
  BY <1>1, <1>3, <1>4 DEF Drawn
<1>6. v = [i \in 1..m |-> Edge(HashOf(links[i].from), HashOf(links[i].to), links[i].relation)]
  BY <1>2, <1>4 DEF Drawn
<1>7. DOMAIN u = 1..n /\ ToSet(u) = {u[i] : i \in 1..n} BY <1>5 DEF ToSet
<1>8. DOMAIN v = 1..m /\ ToSet(v) = {v[i] : i \in 1..m} BY <1>6 DEF ToSet
<1>9. u \in [1..n -> ToSet(u)] BY <1>5, <1>7
<1>10. v \in [1..m -> ToSet(v)] BY <1>6, <1>8
<1>11. u \in Seq(ToSet(u)) /\ Len(u) = n BY <1>9, SeqFrom
<1>12. v \in Seq(ToSet(v)) /\ Len(v) = m BY <1>10, SeqFrom
<1>13. \A i \in 1..n : ids[i] \in I /\ u[i] \in ToSet(u) /\ u[i].id = HashOf(ids[i]) /\ u[i].kind = ids[i].kind
                       /\ u[i].children = Children(v, HashOf(ids[i]))
  <2> SUFFICES ASSUME NEW i \in 1..n
               PROVE  /\ ids[i] \in I /\ u[i] \in ToSet(u) /\ u[i].id = HashOf(ids[i]) /\ u[i].kind = ids[i].kind
                      /\ u[i].children = Children(v, HashOf(ids[i]))
    OBVIOUS
  <2>1. ids[i] \in I /\ u[i] \in ToSet(u) BY <1>1, <1>7
  <2>2. u[i] = [id |-> HashOf(ids[i]), kind |-> ids[i].kind, children |-> Children(v, HashOf(ids[i]))] BY <1>5
  <2>q. QED BY <2>1, <2>2
<1>14. \A i \in 1..m : links[i] \in L /\ v[i] \in ToSet(v) /\ v[i].from = HashOf(links[i].from)
                       /\ v[i].to = HashOf(links[i].to) /\ v[i].relation = links[i].relation
  <2> SUFFICES ASSUME NEW i \in 1..m
               PROVE  /\ links[i] \in L /\ v[i] \in ToSet(v) /\ v[i].from = HashOf(links[i].from)
                      /\ v[i].to = HashOf(links[i].to) /\ v[i].relation = links[i].relation
    OBVIOUS
  <2>1. links[i] \in L /\ v[i] \in ToSet(v) BY <1>2, <1>8
  <2>2. v[i] = Edge(HashOf(links[i].from), HashOf(links[i].to), links[i].relation) BY <1>6
  <2>q. QED BY <2>1, <2>2 DEF Edge
<1>15. \A id \in I : \E i \in 1..n : ids[i] = id BY <1>1 DEF OnceEach
<1>16. \A e \in L : \E i \in 1..m : links[i] = e BY <1>2 DEF OnceEach
<1>17. \A x \in ToSet(u) : \E i \in 1..n : u[i] = x BY <1>7
<1>18. \A x \in ToSet(v) : \E i \in 1..m : v[i] = x BY <1>8
<1>q. QED BY <1>1, <1>2, <1>3, <1>4, <1>7, <1>8, <1>11, <1>12, <1>13, <1>14, <1>15, <1>16, <1>17, <1>18 DEF DrawnTo

LEMMA ParentsAre ==
    ASSUME GraphAssumption, IrInv, NEW full \in BOOLEAN, NEW ids, NEW links,
           OnceEach(ids, IdsOf(full)), OnceEach(links, AllLinks(full)), Drawn(view, ids, links),
           NEW id \in IdsOf(full)
    PROVE  /\ id.kind = "crate" => Parents(HashOf(id)) = {}
           /\ id.kind # "crate" => Parents(HashOf(id)) = {HashOf(Above(id))}
<1>1. PICK I, L : I = IdsOf(full) /\ L = AllLinks(full) OBVIOUS
<1>d. DrawnTo(view, ids, links, I, L) BY <1>1, DrawnParts
<1>2. PICK m : /\ \A i \in 1..m : /\ links[i] \in L /\ view.edges[i] \in ToSet(view.edges)
                                  /\ view.edges[i].from = HashOf(links[i].from) /\ view.edges[i].to = HashOf(links[i].to)
                                  /\ view.edges[i].relation = links[i].relation
               /\ \A e \in L : \E i \in 1..m : links[i] = e
               /\ \A x \in ToSet(view.edges) : \E i \in 1..m : view.edges[i] = x
  BY <1>d DEF DrawnTo
<1>3. \A e \in L : e.relation = "contains" => e.to \in Hanging(I) /\ e = Link(e.to) BY <1>1, LinkEnds
<1>4. ASSUME NEW x \in ToSet(view.edges), x.relation = "contains", x.to = HashOf(id)
      PROVE  id \in Hanging(I) /\ x.from = HashOf(Above(id))
  <2>1. PICK i \in 1..m : view.edges[i] = x BY <1>2
  <2>2. PICK e \in L : links[i] = e BY <1>2
  <2>3. HashOf(e.to) = HashOf(id) /\ e.relation = "contains" /\ x.from = HashOf(e.from) BY <1>2, <1>4, <2>1, <2>2
  <2>4. e.to = id BY <2>3, HashApart
  <2>5. id \in Hanging(I) /\ e = Link(id) BY <1>3, <2>3, <2>4
  <2>6. e.from = Above(id) BY <2>5 DEF Link, Edge
  <2>q. QED BY <2>3, <2>5, <2>6
<1>5. PICK P : P = Parents(HashOf(id)) OBVIOUS
<1>6. \A y : y \in P <=> \E x \in ToSet(view.edges) : x.relation = "contains" /\ x.to = HashOf(id) /\ x.from = y
  BY <1>5 DEF Parents
<1>7. ASSUME id.kind # "crate" PROVE HashOf(Above(id)) \in P
  <2>1. id \in Hanging(I) BY <1>1, <1>7 DEF Hanging
  <2>2. Link(id) \in L
    <3>1. \A h \in Hanging(I) : Link(h) \in {Link(k) : k \in Hanging(I)} OBVIOUS
    <3>2. {Link(k) : k \in Hanging(I)} \subseteq L BY <1>1, SymbolsApart
    <3>q. QED BY <2>1, <3>1, <3>2
  <2>3. PICK i \in 1..m : links[i] = Link(id) BY <1>2, <2>2
  <2>4. Link(id).from = Above(id) /\ Link(id).to = id /\ Link(id).relation = "contains" BY DEF Link, Edge
  <2>5. /\ view.edges[i] \in ToSet(view.edges) /\ view.edges[i].from = HashOf(links[i].from)
        /\ view.edges[i].to = HashOf(links[i].to) /\ view.edges[i].relation = links[i].relation
    BY <1>2
  <2>6. view.edges[i].from = HashOf(Above(id)) /\ view.edges[i].to = HashOf(id) /\ view.edges[i].relation = "contains"
    BY <2>3, <2>4, <2>5
  <2>q. QED BY <1>6, <2>5, <2>6
<1>8. \A y \in P : id \in Hanging(I) /\ y = HashOf(Above(id)) BY <1>4, <1>6
<1>9. id.kind = "crate" => P = {} BY <1>8 DEF Hanging
<1>10. id.kind # "crate" => P = {HashOf(Above(id))} BY <1>7, <1>8
<1>q. QED BY <1>5, <1>9, <1>10

LEMMA OneForOne ==
    ASSUME NEW S, NEW T, IsFiniteSet(S), NEW f, \A x \in S : f[x] \in T, \A x, y \in S : f[x] = f[y] => x = y,
           \A z \in T : \E x \in S : f[x] = z
    PROVE  IsFiniteSet(T) /\ Cardinality(T) = Cardinality(S)
<1>1. PICK g : g = [x \in S |-> f[x]] OBVIOUS
<1>2. g \in Bijection(S, T) BY <1>1 DEF Bijection, Injection, Surjection, IsInjective
<1>3. ExistsBijection(S, T) BY <1>2 DEF ExistsBijection
<1>q. QED BY <1>3, FS_Bijection

LEMMA ChildrenAre ==
    ASSUME GraphAssumption, IrInv, NEW full \in BOOLEAN, NEW ids, NEW links,
           OnceEach(ids, IdsOf(full)), OnceEach(links, AllLinks(full)), Drawn(view, ids, links),
           NEW id \in IdsOf(full)
    PROVE  Children(view.edges, HashOf(id)) = Cardinality({x \in ToSet(view.nodes) : HashOf(id) \in Parents(x.id)})
<1>1. PICK I, L : I = IdsOf(full) /\ L = AllLinks(full) OBVIOUS
<1>d. DrawnTo(view, ids, links, I, L) BY <1>1, DrawnParts
<1>n. PICK n \in Nat, m \in Nat : n = Len(ids) /\ m = Len(links) BY <1>d DEF DrawnTo
<1>2. /\ DOMAIN view.edges = 1..m /\ DOMAIN ids = 1..n /\ DOMAIN links = 1..m /\ Len(ids) = n
      /\ \A i \in 1..m : /\ links[i] \in L
                         /\ view.edges[i].from = HashOf(links[i].from) /\ view.edges[i].to = HashOf(links[i].to)
                         /\ view.edges[i].relation = links[i].relation
      /\ \A e \in L : \E i \in 1..m : links[i] = e
      /\ \A i \in 1..n : ids[i] \in I /\ view.nodes[i] \in ToSet(view.nodes) /\ view.nodes[i].id = HashOf(ids[i])
      /\ \A h \in I : \E i \in 1..n : ids[i] = h
      /\ \A x \in ToSet(view.nodes) : \E i \in 1..n : view.nodes[i] = x
  BY <1>d, <1>n DEF DrawnTo
<1>3. \A i, j \in 1..n : ids[i] = ids[j] => i = j BY <1>2 DEF OnceEach
<1>4. \A i, j \in 1..m : links[i] = links[j] => i = j BY <1>2 DEF OnceEach
<1>5. PICK C : C = {h \in I : h.kind # "crate" /\ Above(h) = id} OBVIOUS
<1>6. PICK P : P = {i \in DOMAIN view.edges : view.edges[i].relation = "contains" /\ view.edges[i].from = HashOf(id)}
  OBVIOUS
<1>7. PICK Q : Q = {x \in ToSet(view.nodes) : HashOf(id) \in Parents(x.id)} OBVIOUS
<1>8. \A e \in L : e.relation = "contains" => e.to \in Hanging(I) /\ e = Link(e.to) BY <1>1, LinkEnds
<1>9. \A h : Link(h).from = Above(h) /\ Link(h).to = h /\ Link(h).relation = "contains" BY DEF Link, Edge
<1>10. \A i \in P : /\ i \in 1..m /\ links[i].to \in C /\ links[i] = Link(links[i].to)
  <2> SUFFICES ASSUME NEW i \in P PROVE i \in 1..m /\ links[i].to \in C /\ links[i] = Link(links[i].to) OBVIOUS
  <2>1. PICK e : e = links[i] OBVIOUS
  <2>2. i \in 1..m /\ e \in L /\ e.relation = "contains" /\ HashOf(e.from) = HashOf(id) BY <1>2, <1>6, <2>1
  <2>3. e.to \in Hanging(I) /\ e = Link(e.to) /\ e.from = id BY <1>8, <2>2, HashApart
  <2>4. Above(e.to) = id BY <1>9, <2>3
  <2>q. QED BY <1>5, <2>1, <2>2, <2>3, <2>4 DEF Hanging
<1>11. IsFiniteSet(P)
  <2>1. P \subseteq 1..m BY <1>10
  <2>2. IsFiniteSet(1..m) BY FS_Interval
  <2>q. QED BY <2>1, <2>2, FS_Subset
<1>12. IsFiniteSet(C) /\ Cardinality(C) = Cardinality(P)
  <2>1. PICK f : f = [i \in P |-> links[i].to] OBVIOUS
  <2>2. \A i \in P : f[i] \in C BY <1>10, <2>1
  <2>3. \A i, j \in P : f[i] = f[j] => i = j
    <3> SUFFICES ASSUME NEW i \in P, NEW j \in P, f[i] = f[j] PROVE i = j OBVIOUS
    <3>1. links[i] = links[j] BY <1>10, <2>1
    <3>q. QED BY <1>4, <1>10, <3>1
  <2>4. \A h \in C : \E i \in P : f[i] = h
    <3> SUFFICES ASSUME NEW h \in C PROVE \E i \in P : f[i] = h OBVIOUS
    <3>1. h \in Hanging(I) /\ Above(h) = id BY <1>5 DEF Hanging
    <3>2. Link(h) \in L
      <4>1. \A k \in Hanging(I) : Link(k) \in {Link(l) : l \in Hanging(I)} OBVIOUS
      <4>2. {Link(l) : l \in Hanging(I)} \subseteq L BY <1>1, SymbolsApart
      <4>q. QED BY <3>1, <4>1, <4>2
    <3>3. PICK i \in 1..m : links[i] = Link(h) BY <1>2, <3>2
    <3>4. i \in P BY <1>2, <1>6, <1>9, <3>1, <3>3
    <3>q. QED BY <1>9, <2>1, <3>3, <3>4
  <2>q. QED BY <1>11, <2>2, <2>3, <2>4, OneForOne
<1>13. \A h \in I : HashOf(id) \in Parents(HashOf(h)) <=> h \in C
  <2> SUFFICES ASSUME NEW h \in I PROVE HashOf(id) \in Parents(HashOf(h)) <=> h \in C OBVIOUS
  <2>1. h.kind = "crate" => Parents(HashOf(h)) = {} BY <1>1, ParentsAre
  <2>2. h.kind # "crate" => Parents(HashOf(h)) = {HashOf(Above(h))} BY <1>1, ParentsAre
  <2>3. HashOf(id) = HashOf(Above(h)) <=> id = Above(h) BY HashApart
  <2>q. QED BY <1>5, <2>1, <2>2, <2>3
<1>14. Cardinality(Q) = Cardinality(C)
  <2>1. PICK ix : ix = [h \in C |-> CHOOSE i \in 1..n : ids[i] = h] OBVIOUS
  <2>2. \A h \in C : ix[h] \in 1..n /\ ids[ix[h]] = h
    <3> SUFFICES ASSUME NEW h \in C PROVE ix[h] \in 1..n /\ ids[ix[h]] = h OBVIOUS
    <3>1. \E i \in 1..n : ids[i] = h BY <1>2, <1>5
    <3>q. QED BY <2>1, <3>1
  <2>3. PICK f : f = [h \in C |-> view.nodes[ix[h]]] OBVIOUS
  <2>4. \A h \in C : f[h] \in ToSet(view.nodes) /\ f[h].id = HashOf(h)
    <3> SUFFICES ASSUME NEW h \in C PROVE f[h] \in ToSet(view.nodes) /\ f[h].id = HashOf(h) OBVIOUS
    <3>1. PICK i \in 1..n : i = ix[h] /\ ids[i] = h BY <2>2
    <3>2. f[h] = view.nodes[i] BY <2>3, <3>1
    <3>3. view.nodes[i] \in ToSet(view.nodes) /\ view.nodes[i].id = HashOf(ids[i]) BY <1>2
    <3>q. QED BY <3>1, <3>2, <3>3
  <2>5. \A h \in C : f[h] \in Q BY <1>5, <1>7, <1>13, <2>4
  <2>6. \A h, k \in C : f[h] = f[k] => h = k BY <2>4, HashApart
  <2>7. \A x \in Q : \E h \in C : f[h] = x
    <3> SUFFICES ASSUME NEW x \in Q PROVE \E h \in C : f[h] = x OBVIOUS
    <3>1. PICK i \in 1..n : view.nodes[i] = x BY <1>2, <1>7
    <3>2. PICK h \in I : ids[i] = h BY <1>2
    <3>3. h \in C BY <1>2, <1>7, <1>13, <3>1, <3>2
    <3>4. ix[h] = i BY <1>3, <2>2, <3>2, <3>3
    <3>q. QED BY <2>3, <3>1, <3>3, <3>4
  <2>q. QED BY <1>12, <2>5, <2>6, <2>7, OneForOne
<1>15. Children(view.edges, HashOf(id)) = Cardinality(P) BY <1>6 DEF Children
<1>q. QED BY <1>7, <1>12, <1>14, <1>15

LEMMA ForestDrawn ==
    ASSUME GraphAssumption, IrInv, NEW full \in BOOLEAN, view = Laid(full)
    PROVE  /\ Cardinality(ViewIds) = Len(view.nodes)
           /\ \A e \in ToSet(view.edges) : e.from \in ViewIds /\ e.to \in ViewIds
           /\ \A n \in ToSet(view.nodes) :
                  /\ Cardinality(Parents(n.id)) = IF n.kind = "crate" THEN 0 ELSE 1
                  /\ n.children = Cardinality({m \in ToSet(view.nodes) : n.id \in Parents(m.id)})
<1>1. PICK I, L : I = IdsOf(full) /\ L = AllLinks(full) OBVIOUS
<1>2. PICK ids, links : OnceEach(ids, I) /\ OnceEach(links, L) /\ Drawn(view, ids, links) BY <1>1, LaidIs
<1>d. DrawnTo(view, ids, links, I, L) BY <1>2, DrawnParts
<1>n. PICK n \in Nat, m \in Nat : n = Len(ids) /\ m = Len(links) BY <1>d DEF DrawnTo
<1>3. /\ Len(view.nodes) = n /\ DOMAIN ids = 1..n
      /\ \A i \in 1..m : /\ links[i] \in L
                         /\ view.edges[i].from = HashOf(links[i].from) /\ view.edges[i].to = HashOf(links[i].to)
      /\ \A x \in ToSet(view.edges) : \E i \in 1..m : view.edges[i] = x
      /\ \A i \in 1..n : /\ ids[i] \in I /\ view.nodes[i] \in ToSet(view.nodes) /\ view.nodes[i].id = HashOf(ids[i])
                         /\ view.nodes[i].kind = ids[i].kind
                         /\ view.nodes[i].children = Children(view.edges, HashOf(ids[i]))
      /\ \A h \in I : \E i \in 1..n : ids[i] = h
      /\ \A x \in ToSet(view.nodes) : \E i \in 1..n : view.nodes[i] = x
  BY <1>d, <1>n DEF DrawnTo
<1>4. \A i, j \in 1..n : ids[i] = ids[j] => i = j BY <1>2, <1>3 DEF OnceEach
<1>5. \A id \in I : HashOf(id) \in ViewIds
  <2> SUFFICES ASSUME NEW id \in I PROVE HashOf(id) \in ViewIds OBVIOUS
  <2>1. PICK i \in 1..n : ids[i] = id BY <1>3
  <2>2. view.nodes[i] \in ToSet(view.nodes) /\ view.nodes[i].id = HashOf(id) BY <1>3, <2>1
  <2>q. QED BY <2>2 DEF ViewIds
<1>6. Cardinality(ViewIds) = n
  <2>1. PICK f : f = [i \in 1..n |-> HashOf(ids[i])] OBVIOUS
  <2>2. \A i \in 1..n : f[i] \in ViewIds BY <1>3, <1>5, <2>1
  <2>3. \A i, j \in 1..n : f[i] = f[j] => i = j BY <1>4, <2>1, HashApart
  <2>4. \A z \in ViewIds : \E i \in 1..n : f[i] = z
    <3> SUFFICES ASSUME NEW z \in ViewIds PROVE \E i \in 1..n : f[i] = z OBVIOUS
    <3>1. PICK x \in ToSet(view.nodes) : x.id = z BY DEF ViewIds
    <3>2. PICK i \in 1..n : view.nodes[i] = x BY <1>3
    <3>3. f[i] = z BY <1>3, <2>1, <3>1, <3>2
    <3>q. QED BY <3>3
  <2>5. IsFiniteSet(1..n) /\ Cardinality(1..n) = n
    <3>1. 1 \in Int /\ n \in Int OBVIOUS
    <3>2. IsFiniteSet(1..n) /\ Cardinality(1..n) = IF 1 > n THEN 0 ELSE n - 1 + 1 BY <3>1, FS_Interval
    <3>q. QED BY <3>2
  <2>6. PICK S, V : S = 1..n /\ V = ViewIds OBVIOUS
  <2>7. IsFiniteSet(S) /\ (\A i \in S : f[i] \in V) /\ \A i, j \in S : f[i] = f[j] => i = j
    BY <2>2, <2>3, <2>5, <2>6
  <2>8. \A z \in V : \E i \in S : f[i] = z BY <2>4, <2>6
  <2>9. Cardinality(V) = Cardinality(S) BY <2>7, <2>8, OneForOne
  <2>q. QED BY <2>5, <2>6, <2>9
<1>7. ASSUME NEW e \in ToSet(view.edges) PROVE e.from \in ViewIds /\ e.to \in ViewIds
  <2>1. PICK i \in 1..m : view.edges[i] = e BY <1>3
  <2>2. links[i] \in L /\ e.from = HashOf(links[i].from) /\ e.to = HashOf(links[i].to) BY <1>3, <2>1
  <2>3. links[i].from \in I /\ links[i].to \in I BY <1>1, <2>2, LinkEnds
  <2>4. HashOf(links[i].from) \in ViewIds /\ HashOf(links[i].to) \in ViewIds BY <1>5, <2>3
  <2>q. QED BY <2>2, <2>4
<1>8. ASSUME NEW x \in ToSet(view.nodes)
      PROVE  /\ Cardinality(Parents(x.id)) = IF x.kind = "crate" THEN 0 ELSE 1
             /\ x.children = Cardinality({k \in ToSet(view.nodes) : x.id \in Parents(k.id)})
  <2>1. PICK i \in 1..n : view.nodes[i] = x BY <1>3
  <2>2. PICK id \in I : ids[i] = id BY <1>3
  <2>3. x.id = HashOf(id) /\ x.kind = id.kind /\ x.children = Children(view.edges, HashOf(id)) BY <1>3, <2>1, <2>2
  <2>4. /\ id.kind = "crate" => Parents(HashOf(id)) = {}
        /\ id.kind # "crate" => Parents(HashOf(id)) = {HashOf(Above(id))}
    BY <1>1, <1>2, ParentsAre
  <2>5. Children(view.edges, HashOf(id)) = Cardinality({k \in ToSet(view.nodes) : HashOf(id) \in Parents(k.id)})
    BY <1>1, <1>2, ChildrenAre
  <2>6. Cardinality({}) = 0 /\ Cardinality({HashOf(Above(id))}) = 1 BY FS_EmptySet, FS_Singleton
  <2>7. Cardinality(Parents(x.id)) = IF x.kind = "crate" THEN 0 ELSE 1
    <3>1. CASE id.kind = "crate" BY <2>3, <2>4, <2>6, <3>1
    <3>2. CASE id.kind # "crate" BY <2>3, <2>4, <2>6, <3>2
    <3>q. QED BY <3>1, <3>2
  <2>q. QED BY <2>3, <2>5, <2>7
<1>q. QED BY <1>3, <1>6, <1>7, <1>8


(* Where an id lies: crates and modules begin paths, a symbol follows one. *)
Segments == STRING \cup {<<s.name, s.line>> : s \in ToSet(irSymbols)}
LiesBy(id, p) ==
    \/ id.kind = "crate" /\ id.place = SubSeq(p, 1, 1)
    \/ id.kind = "module" /\ Len(id.place) \in 2..Len(p) - 1 /\ id.place = SubSeq(p, 1, Len(id.place))
    \/ id.kind = "file" /\ id.place = p
    \/ id.kind = "symbol" /\ Len(id.place) = Len(p) + 1 /\ SubSeq(id.place, 1, Len(p)) = p

LEMMA FirstOne ==
    ASSUME NEW S, NEW s \in Seq(S), Len(s) # 0
    PROVE  <<s[1]>> = SubSeq(s, 1, 1)
<1>1. 1 \in 0..Len(s) /\ 1 \in 1..Len(s) /\ 1 \in 1..1 BY SeqParts
<1>2. s[1] \in S BY <1>1
<1>3. PICK a : a = <<s[1]>> OBVIOUS
<1>4. PICK b : b = SubSeq(s, 1, 1) OBVIOUS
<1>5. a \in Seq(S) /\ Len(a) = 1 /\ a[1] = s[1] BY <1>2, <1>3
<1>6. b \in Seq(S) /\ Len(b) = 1 /\ b[1] = s[1] BY <1>1, <1>4, Beginning
<1>7. \A i \in 1..Len(a) : a[i] = b[i] BY <1>5, <1>6
<1>8. a = b BY <1>5, <1>6, <1>7, SameElements
<1>q. QED BY <1>3, <1>4, <1>8

LEMMA PathPlaced ==
    ASSUME GraphAssumption, NEW p \in SourcePaths
    PROVE  p \in Seq(Segments) /\ Len(p) \in Nat \ {0} /\ <<p[1]>> = SubSeq(p, 1, 1)
<1>1. p \in Seq(STRING) /\ Len(p) \in Nat \ {0} BY PathTyped
<1>2. STRING \subseteq Segments BY DEF Segments
<1>3. PICK S : S = Segments OBVIOUS
<1>4. p \in Seq(S) BY <1>1, <1>2, <1>3, WiderSeq
<1>5. Len(p) # 0 BY <1>1
<1>6. <<p[1]>> = SubSeq(p, 1, 1) BY <1>4, <1>5, FirstOne
<1>q. QED BY <1>1, <1>3, <1>4, <1>6

LEMMA NoneOnTheWay ==
    ASSUME GraphAssumption, NEW p \in SourcePaths, NEW q \in SourcePaths, Len(p) < Len(q)
    PROVE  SubSeq(q, 1, Len(p)) # p
BY DEF GraphAssumption

LEMMA Placed ==
    ASSUME GraphAssumption, IrInv, NEW full \in BOOLEAN, NEW id \in IdsOf(full)
    PROVE  /\ id = TempId(id.kind, id.place) /\ id.place \in Seq(Segments) /\ Len(id.place) \in Nat \ {0}
           /\ \E p \in SourcePaths : LiesBy(id, p)
<1>1. PICK files : files = UNION {IdsOfFile(p) : p \in ToSet(irFiles)} OBVIOUS
<1>2. id \in files \/ id \in SymbolTemps BY <1>1, SymbolsApart
<1>3. PICK S : S = Segments OBVIOUS
<1>4. \A p \in ToSet(irFiles) : p \in SourcePaths BY Elements DEF IrInv
<1>5. ASSUME NEW p \in SourcePaths, id \in IdsOfFile(p)
      PROVE  id = TempId(id.kind, id.place) /\ id.place \in Seq(S) /\ Len(id.place) \in Nat \ {0} /\ LiesBy(id, p)
  <2>1. p \in Seq(S) /\ Len(p) \in Nat \ {0} /\ <<p[1]>> = SubSeq(p, 1, 1) BY <1>3, PathPlaced
  <2>2. CASE id = TempId("crate", <<p[1]>>)
    <3>1. id.kind = "crate" /\ id.place = SubSeq(p, 1, 1) /\ id = TempId(id.kind, id.place) BY <2>1, <2>2 DEF TempId
    <3>2. 1 \in 0..Len(p) BY <2>1
    <3>3. SubSeq(p, 1, 1) \in Seq(S) /\ Len(SubSeq(p, 1, 1)) = 1 BY <2>1, <3>2, Beginning
    <3>q. QED BY <3>1, <3>3 DEF LiesBy
  <2>3. CASE id = TempId("file", p)
    <3>1. id.kind = "file" /\ id.place = p /\ id = TempId(id.kind, id.place) BY <2>3 DEF TempId
    <3>q. QED BY <2>1, <3>1 DEF LiesBy
  <2>4. ASSUME NEW d \in 2..ParentDepth(p), id = TempId("module", SubSeq(p, 1, d))
        PROVE  id = TempId(id.kind, id.place) /\ id.place \in Seq(S) /\ Len(id.place) \in Nat \ {0} /\ LiesBy(id, p)
    <3>1. id.kind = "module" /\ id.place = SubSeq(p, 1, d) /\ id = TempId(id.kind, id.place) BY <2>4 DEF TempId
    <3>2. PICK k \in Nat : k = Len(p) /\ k # 0 BY <2>1
    <3>3. ParentDepth(p) = IF k = 1 THEN 1 ELSE k - 1 BY <3>2 DEF ParentDepth
    <3>4. d \in 2..k - 1 /\ d \in 0..k /\ d \in Nat \ {0} BY <3>2, <3>3
    <3>5. SubSeq(p, 1, d) \in Seq(S) /\ Len(SubSeq(p, 1, d)) = d BY <2>1, <3>2, <3>4, Beginning
    <3>q. QED BY <3>1, <3>2, <3>4, <3>5 DEF LiesBy
  <2>q. QED BY <1>5, <2>2, <2>3, <2>4 DEF IdsOfFile
<1>6. CASE id \in files
  <2>1. PICK p \in ToSet(irFiles) : id \in IdsOfFile(p) BY <1>1, <1>6
  <2>2. p \in SourcePaths BY <1>4
  <2>q. QED BY <1>3, <1>5, <2>1, <2>2
<1>7. CASE id \in SymbolTemps
  <2>1. PICK s \in ToSet(irSymbols) : id = SymbolTemp(s) BY <1>7 DEF SymbolTemps
  <2>2. PICK f \in SourcePaths : f = s.file BY SymbolPlace
  <2>3. id.kind = "symbol" /\ Len(id.place) = Len(f) + 1 /\ SubSeq(id.place, 1, Len(f)) = f
    BY <2>1, <2>2, SymbolPlace
  <2>4. LiesBy(id, f) BY <2>3 DEF LiesBy
  <2>5. Len(f) \in Nat BY <2>2, PathPlaced
  <2>6. id.place \in Seq(S)
    <3>1. PICK T : T = STRING \cup {<<s.name, s.line>>} OBVIOUS
    <3>2. id.place \in Seq(T) BY <2>1, <3>1, SymbolPlace
    <3>3. T \subseteq S BY <1>3, <3>1 DEF Segments
    <3>q. QED BY <3>2, <3>3, WiderSeq
  <2>7. id = TempId(id.kind, id.place) BY <2>1 DEF SymbolTemp, TempId
  <2>q. QED BY <1>3, <2>3, <2>4, <2>5, <2>6, <2>7
<1>q. QED BY <1>2, <1>6, <1>7

(* What is above an id begins its place: q above id, k and l their lengths. *)
Rises(id, q, k, l) ==
    /\ k \in Nat /\ l \in Nat /\ 1 <= k /\ k <= l /\ l <= k + 1 /\ q.place = SubSeq(id.place, 1, k)
    /\ q.kind \in {"crate", "module", "file"} /\ (q.kind = "crate" <=> k = 1 /\ id.kind # "symbol")
    /\ (q.kind # "crate" => k + 1 = l) /\ (id.kind = "symbol" <=> q.kind = "file")

LEMMA AbovePlaced ==
    ASSUME GraphAssumption, IrInv, NEW full \in BOOLEAN, NEW id \in Hanging(IdsOf(full)), NEW q, q = Above(id),
           NEW k, k = Len(q.place), NEW l, l = Len(id.place)
    PROVE  Rises(id, q, k, l)
<1>1. PICK S, a : S = Segments /\ a = id.place OBVIOUS
<1>2. id \in IdsOf(full) /\ id.kind # "crate" BY DEF Hanging
<1>3. a \in Seq(S) /\ l \in Nat \ {0} /\ l = Len(a) BY <1>1, <1>2, Placed
<1>4. PICK p \in SourcePaths : LiesBy(id, p) BY <1>2, Placed
<1>5. p \in Seq(S) /\ Len(p) \in Nat \ {0} BY <1>1, PathPlaced
<1>6. ASSUME NEW d \in 1..l, d + 1 = l \/ (d = 1 /\ l = 1), q = Branch(a, d)
      PROVE  /\ k \in Nat /\ 1 <= k /\ k <= l /\ l <= k + 1 /\ q.place = SubSeq(a, 1, k)
             /\ q.kind \in {"crate", "module"} /\ (q.kind = "crate" <=> k = 1) /\ (q.kind # "crate" => k + 1 = l)
  <2>1. d \in 0..Len(a) BY <1>3
  <2>2. CASE d = 1
    <3>1. q = TempId("crate", <<a[1]>>) BY <1>6, <2>2 DEF Branch
    <3>2. Len(a) # 0 BY <1>3
    <3>3. <<a[1]>> = SubSeq(a, 1, 1) BY <1>3, <3>2, FirstOne
    <3>4. Len(SubSeq(a, 1, 1)) = 1 BY <1>3, <2>1, <2>2, Beginning
    <3>5. q.kind = "crate" /\ q.place = SubSeq(a, 1, 1) /\ k = 1 BY <3>1, <3>3, <3>4 DEF TempId
    <3>q. QED BY <1>3, <1>6, <2>2, <3>5
  <2>3. CASE d # 1
    <3>1. q = TempId("module", SubSeq(a, 1, d)) BY <1>6, <2>3 DEF Branch
    <3>2. Len(SubSeq(a, 1, d)) = d BY <1>3, <2>1, Beginning
    <3>3. q.kind = "module" /\ q.place = SubSeq(a, 1, d) /\ k = d BY <3>1, <3>2 DEF TempId
    <3>q. QED BY <1>3, <1>6, <2>3, <3>3
  <2>q. QED BY <2>2, <2>3
<1>7. CASE id.kind = "symbol"
  <2>1. q = TempId("file", SubSeq(a, 1, l - 1)) BY <1>1, <1>3, <1>7 DEF Above
  <2>2. l = Len(p) + 1 BY <1>4, <1>7 DEF LiesBy
  <2>3. l - 1 \in 0..Len(a) /\ l - 1 \in Nat \ {0} BY <1>3, <1>5, <2>2
  <2>4. Len(SubSeq(a, 1, l - 1)) = l - 1 BY <1>3, <2>3, Beginning
  <2>5. q.kind = "file" /\ q.place = SubSeq(a, 1, l - 1) /\ k = l - 1 BY <2>1, <2>4 DEF TempId
  <2>6. q.kind = "file" /\ q.place = SubSeq(a, 1, k) BY <2>5
  <2>7. k \in Nat /\ l \in Nat /\ 1 <= k /\ k <= l /\ l <= k + 1 /\ k + 1 = l BY <1>3, <2>3, <2>5
  <2>q. QED BY <1>1, <1>7, <2>6, <2>7 DEF Rises
<1>8. CASE id.kind = "file"
  <2>1. q = Branch(a, ParentDepth(a)) BY <1>1, <1>8 DEF Above
  <2>2. PICK d : d = ParentDepth(a) OBVIOUS
  <2>3. d = IF l = 1 THEN 1 ELSE l - 1 BY <1>3, <2>2 DEF ParentDepth
  <2>4. d \in 1..l /\ (d + 1 = l \/ (d = 1 /\ l = 1)) BY <1>3, <2>3
  <2>q. QED BY <1>1, <1>3, <1>6, <1>8, <2>1, <2>2, <2>4 DEF Rises
<1>9. CASE id.kind = "module"
  <2>1. q = Branch(a, l - 1) BY <1>1, <1>3, <1>9 DEF Above
  <2>2. l \in 2..Len(p) - 1 BY <1>4, <1>9 DEF LiesBy
  <2>3. PICK d : d = l - 1 OBVIOUS
  <2>4. d \in 1..l /\ d + 1 = l BY <1>3, <1>5, <2>2, <2>3
  <2>q. QED BY <1>1, <1>3, <1>6, <1>9, <2>1, <2>3, <2>4 DEF Rises
<1>q. QED BY <1>2, <1>4, <1>7, <1>8, <1>9 DEF LiesBy


(* What lies inside a cluster is what hangs from it, step by step.         *)
LiesIn(c, id) ==
    /\ id.kind # "crate"
    /\ IF c.kind = "crate" THEN id.place[1] = c.place[1]
       ELSE Len(id.place) > Len(c.place) /\ SubSeq(id.place, 1, Len(c.place)) = c.place

LEMMA DownInside ==
    ASSUME GraphAssumption, IrInv, NEW full \in BOOLEAN, NEW c \in IdsOf(full), NEW id \in Hanging(IdsOf(full)),
           NEW q, q = Above(id), q = c \/ LiesIn(c, q)
    PROVE  LiesIn(c, id)
<1>1. PICK S, a, b, k, l : S = Segments /\ a = id.place /\ b = q.place /\ k = Len(b) /\ l = Len(a) OBVIOUS
<1>2. id \in IdsOf(full) /\ id.kind # "crate" BY DEF Hanging
<1>3. a \in Seq(S) BY <1>1, <1>2, Placed
<1>4. /\ k \in Nat /\ l \in Nat /\ 1 <= k /\ k <= l /\ b = SubSeq(a, 1, k) /\ (q.kind # "crate" => k + 1 = l)
  <2>1. Rises(id, q, k, l) BY <1>1, AbovePlaced
  <2>q. QED BY <1>1, <2>1 DEF Rises
<1>5. b[1] = a[1]
  <2>1. k \in 0..Len(a) /\ 1 \in 1..k BY <1>1, <1>4
  <2>q. QED BY <1>3, <1>4, <2>1, Beginning
<1>6. CASE c.kind = "crate" BY <1>1, <1>2, <1>5, <1>6 DEF LiesIn
<1>7. CASE c.kind # "crate"
  <2>1. q.kind # "crate" BY <1>7 DEF LiesIn
  <2>2. k + 1 = l BY <1>4, <2>1
  <2>3. PICK m : m = Len(c.place) OBVIOUS
  <2>4. m \in Nat BY <2>3, Placed
  <2>5. CASE q = c
    <3>0. c.place = b /\ m = k BY <1>1, <2>3, <2>5
    <3>1. c.place = SubSeq(a, 1, m) /\ l > m BY <1>4, <2>2, <3>0
    <3>q. QED BY <1>1, <1>2, <1>7, <2>3, <3>1 DEF LiesIn
  <2>6. CASE q # c
    <3>1. k > m /\ SubSeq(b, 1, m) = c.place BY <1>1, <1>7, <2>3, <2>6 DEF LiesIn
    <3>2. k \in 0..Len(a) /\ m \in 0..k BY <1>1, <1>4, <2>4, <3>1
    <3>3. SubSeq(SubSeq(a, 1, k), 1, m) = SubSeq(a, 1, m) BY <1>3, <3>2, BeginningTwice
    <3>4. SubSeq(a, 1, m) = c.place BY <1>4, <3>1, <3>3
    <3>5. l > m BY <1>4, <2>2, <2>4, <3>1
    <3>q. QED BY <1>1, <1>2, <1>7, <2>3, <3>4, <3>5 DEF LiesIn
  <2>q. QED BY <2>5, <2>6
<1>q. QED BY <1>6, <1>7

(* Only a symbol lies beyond a whole path.                                 *)
LEMMA PathsEnd ==
    ASSUME GraphAssumption, IrInv, NEW full \in BOOLEAN, NEW id \in IdsOf(full), NEW p \in SourcePaths,
           Len(p) < Len(id.place), SubSeq(id.place, 1, Len(p)) = p
    PROVE  id.kind = "symbol" /\ Len(id.place) = Len(p) + 1
<1>1. PICK S : S = Segments OBVIOUS
<1>0. PICK a, l, m : a = id.place /\ l = Len(a) /\ m = Len(p) OBVIOUS
<1>a. m < l /\ SubSeq(a, 1, m) = p BY <1>0
<1>2. a \in Seq(S) /\ l \in Nat BY <1>0, <1>1, Placed
<1>3. p \in Seq(S) /\ m \in Nat \ {0} BY <1>0, <1>1, PathPlaced
<1>4. PICK x \in SourcePaths : LiesBy(id, x) BY Placed
<1>5. PICK n : n = Len(x) OBVIOUS
<1>6. x \in Seq(S) /\ n \in Nat \ {0} BY <1>1, <1>5, PathPlaced
<1>7. m < n => SubSeq(x, 1, m) # p BY <1>0, <1>5, NoneOnTheWay
<1>8. id.kind # "crate"
  <2> SUFFICES ASSUME id.kind = "crate" PROVE FALSE OBVIOUS
  <2>1. a = SubSeq(x, 1, 1) BY <1>0, <1>4 DEF LiesBy
  <2>2. 1 \in 0..Len(x) BY <1>5, <1>6
  <2>3. l = 1 BY <1>0, <1>6, <2>1, <2>2, Beginning
  <2>q. QED BY <1>3, <1>a, <2>3
<1>9. id.kind # "module"
  <2> SUFFICES ASSUME id.kind = "module" PROVE FALSE OBVIOUS
  <2>1. l \in 2..n - 1 /\ a = SubSeq(x, 1, l) BY <1>0, <1>4, <1>5 DEF LiesBy
  <2>2. l \in 0..Len(x) /\ m \in 0..l /\ m < n BY <1>a, <1>2, <1>3, <1>5, <1>6, <2>1
  <2>3. SubSeq(SubSeq(x, 1, l), 1, m) = SubSeq(x, 1, m) BY <1>6, <2>2, BeginningTwice
  <2>q. QED BY <1>7, <1>a, <2>1, <2>2, <2>3
<1>10. id.kind # "file"
  <2> SUFFICES ASSUME id.kind = "file" PROVE FALSE OBVIOUS
  <2>1. a = x BY <1>0, <1>4 DEF LiesBy
  <2>q. QED BY <1>0, <1>5, <1>7, <1>a, <2>1, WholeBeginning, <1>6
<1>11. id.kind = "symbol" /\ l = n + 1 /\ SubSeq(a, 1, n) = x BY <1>0, <1>4, <1>5, <1>8, <1>9, <1>10 DEF LiesBy
<1>12. ~(m < n)
  <2> SUFFICES ASSUME m < n PROVE FALSE OBVIOUS
  <2>1. n \in 0..Len(a) /\ m \in 0..n BY <1>0, <1>2, <1>3, <1>6, <1>11
  <2>2. SubSeq(SubSeq(a, 1, n), 1, m) = SubSeq(a, 1, m) BY <1>2, <2>1, BeginningTwice
  <2>q. QED BY <1>7, <1>11, <1>a, <2>2
<1>q. QED BY <1>0, <1>a, <1>2, <1>3, <1>6, <1>11, <1>12

(* How far an id is from its crate, at most.                               *)
DepthOf(id) == Len(id.place) + IF id.kind \in {"file", "symbol"} THEN 1 ELSE 0

LEMMA AboveIsNearer ==
    ASSUME GraphAssumption, IrInv, NEW full \in BOOLEAN, NEW id \in Hanging(IdsOf(full)), NEW q, q = Above(id)
    PROVE  DepthOf(id) \in Nat /\ DepthOf(q) \in Nat /\ DepthOf(q) < DepthOf(id)
<1>1. PICK k, l : k = Len(q.place) /\ l = Len(id.place) OBVIOUS
<1>2. /\ k \in Nat /\ l \in Nat /\ 1 <= k /\ k <= l
      /\ q.kind \in {"crate", "module", "file"} /\ (q.kind = "crate" <=> k = 1 /\ id.kind # "symbol")
      /\ (q.kind # "crate" => k + 1 = l) /\ (id.kind = "symbol" <=> q.kind = "file")
  <2>1. Rises(id, q, k, l) BY <1>1, AbovePlaced
  <2>q. QED BY <1>1, <2>1 DEF Rises
<1>3. id \in IdsOf(full) /\ id.kind # "crate" BY DEF Hanging
<1>4. PICK p \in SourcePaths : LiesBy(id, p) BY <1>3, Placed
<1>5. Len(p) \in Nat BY PathPlaced
<1>6. id.kind \in {"module", "file", "symbol"} /\ (id.kind = "module" => 2 <= l) BY <1>1, <1>3, <1>4, <1>5 DEF LiesBy
<1>7. DepthOf(id) = l + IF id.kind = "module" THEN 0 ELSE 1
  <2>1. CASE id.kind = "module" BY <1>1, <2>1 DEF DepthOf
  <2>2. CASE id.kind \in {"file", "symbol"} BY <1>1, <2>2 DEF DepthOf
  <2>q. QED BY <1>6, <2>1, <2>2
<1>8. DepthOf(q) = k + IF q.kind = "file" THEN 1 ELSE 0
  <2>1. CASE q.kind \in {"crate", "module"} BY <1>1, <2>1 DEF DepthOf
  <2>2. CASE q.kind = "file" BY <1>1, <2>2 DEF DepthOf
  <2>q. QED BY <1>2, <2>1, <2>2
<1>q. QED BY <1>2, <1>6, <1>7, <1>8

LEMMA UpInside ==
    ASSUME GraphAssumption, IrInv, NEW full \in BOOLEAN, NEW c \in IdsOf(full), NEW id \in IdsOf(full), LiesIn(c, id),
           NEW q, q = Above(id)
    PROVE  id \in Hanging(IdsOf(full)) /\ q \in IdsOf(full) /\ (q = c \/ LiesIn(c, q))
<1>1. PICK S, a, b, k, l, m : /\ S = Segments /\ a = id.place /\ b = q.place /\ k = Len(b) /\ l = Len(a)
                              /\ m = Len(c.place)
  OBVIOUS
<1>2. id \in Hanging(IdsOf(full)) BY DEF Hanging, LiesIn
<1>3. q \in IdsOf(full) BY <1>2, AboveIsThere
<1>4. a \in Seq(S) /\ b \in Seq(S) /\ c.place \in Seq(S) /\ m \in Nat \ {0} BY <1>1, <1>3, Placed
<1>5. /\ k \in Nat /\ l \in Nat /\ 1 <= k /\ k <= l /\ l <= k + 1 /\ b = SubSeq(a, 1, k)
      /\ q.kind \in {"crate", "module", "file"} /\ (q.kind = "crate" <=> k = 1 /\ id.kind # "symbol")
      /\ (q.kind # "crate" => k + 1 = l) /\ (id.kind = "symbol" <=> q.kind = "file")
  <2>1. Rises(id, q, k, l) BY <1>1, <1>2, AbovePlaced
  <2>q. QED BY <1>1, <2>1 DEF Rises
<1>6. c = TempId(c.kind, c.place) /\ q = TempId(q.kind, q.place) BY <1>3, Placed
<1>7. c.kind = q.kind /\ c.place = q.place => q = c BY <1>6
<1>8. PICK x \in SourcePaths : LiesBy(c, x) BY Placed
<1>9. PICK y \in SourcePaths : LiesBy(q, y) BY <1>3, Placed
<1>10. x \in Seq(S) /\ Len(x) \in Nat \ {0} BY <1>1, PathPlaced
<1>11. CASE c.kind = "crate"
  <2>1. k \in 0..Len(a) /\ 1 \in 1..k BY <1>1, <1>5
  <2>2. b[1] = a[1] BY <1>4, <1>5, <2>1, Beginning
  <2>3. a[1] = c.place[1] BY <1>1, <1>11 DEF LiesIn
  <2>4. CASE q.kind # "crate"
    <3>1. q.place[1] = c.place[1] BY <1>1, <2>2, <2>3
    <3>2. LiesIn(c, q) BY <1>11, <2>4, <3>1 DEF LiesIn
    <3>q. QED BY <1>2, <1>3, <3>2
  <2>5. CASE q.kind = "crate"
    <3>1. k = 1 BY <1>5, <2>5
    <3>2. c.place = SubSeq(x, 1, 1) BY <1>8, <1>11 DEF LiesBy
    <3>3. 1 \in 0..Len(x) BY <1>10
    <3>4. m = 1 BY <1>1, <1>10, <3>2, <3>3, Beginning
    <3>5. PICK d \in Seq(S) : d = c.place BY <1>4
    <3>0. Len(b) = 1 /\ Len(d) = 1 /\ b[1] = d[1] BY <1>1, <2>2, <2>3, <3>1, <3>4, <3>5
    <3>6. Len(b) = Len(d) /\ \A i \in 1..Len(b) : b[i] = d[i] BY <3>0
    <3>7. b = d BY <1>4, <3>5, <3>6, SameElements
    <3>8. q = c BY <1>1, <1>7, <1>11, <2>5, <3>5, <3>7
    <3>q. QED BY <1>2, <1>3, <3>8
  <2>q. QED BY <2>4, <2>5
<1>12. CASE c.kind # "crate"
  <2>1. l > m /\ SubSeq(a, 1, m) = c.place BY <1>1, <1>12 DEF LiesIn
  <2>2. m <= k BY <1>4, <1>5, <2>1
  <2>3. c.kind # "symbol"
    <3> SUFFICES ASSUME c.kind = "symbol" PROVE FALSE OBVIOUS
    <3>1. PICK n \in Nat : n = Len(x) BY <1>10
    <3>2. m = n + 1 /\ SubSeq(c.place, 1, n) = x BY <1>1, <1>8, <3>1 DEF LiesBy
    <3>3. m \in 0..Len(a) /\ n \in 0..m BY <1>1, <1>4, <1>5, <2>1, <3>1, <3>2
    <3>4. SubSeq(SubSeq(a, 1, m), 1, n) = SubSeq(a, 1, n) BY <1>4, <3>3, BeginningTwice
    <3>5. SubSeq(a, 1, n) = x /\ n < l BY <1>5, <2>1, <3>1, <3>2, <3>4
    <3>6. l = n + 1
      <4>1. Len(x) < Len(id.place) /\ SubSeq(id.place, 1, Len(x)) = x BY <1>1, <3>1, <3>5
      <4>2. Len(id.place) = Len(x) + 1 BY <4>1, PathsEnd
      <4>q. QED BY <1>1, <3>1, <4>2
    <3>q. QED BY <2>1, <3>2, <3>6
  <2>4. CASE c.kind = "file"
    <3>1. c.place = x /\ m = Len(x) BY <1>1, <1>8, <2>4 DEF LiesBy
    <3>2. m < l /\ SubSeq(a, 1, m) = x BY <1>4, <1>5, <2>1, <3>1
    <3>3. id.kind = "symbol" /\ l = m + 1
      <4>1. Len(x) < Len(id.place) /\ SubSeq(id.place, 1, Len(x)) = x BY <1>1, <3>1, <3>2
      <4>2. id.kind = "symbol" /\ Len(id.place) = Len(x) + 1 BY <4>1, PathsEnd
      <4>q. QED BY <1>1, <3>1, <4>2
    <3>4. q.kind = "file" /\ k = m BY <1>4, <1>5, <3>3
    <3>5. b = c.place BY <1>5, <2>1, <3>4
    <3>q. QED BY <1>1, <1>2, <1>3, <1>7, <2>4, <3>4, <3>5
  <2>5. CASE c.kind = "module"
    <3>1. m \in 2..Len(x) - 1 /\ c.place = SubSeq(x, 1, m) BY <1>1, <1>8, <2>5 DEF LiesBy
    <3>2. q.kind # "crate" BY <1>4, <1>5, <2>2, <3>1
    <3>3. CASE m < k
      <4>1. k \in 0..Len(a) /\ m \in 0..k BY <1>1, <1>4, <1>5, <3>3
      <4>2. SubSeq(SubSeq(a, 1, k), 1, m) = SubSeq(a, 1, m) BY <1>4, <4>1, BeginningTwice
      <4>3. SubSeq(b, 1, m) = c.place BY <1>5, <2>1, <4>2
      <4>4. k > m BY <1>4, <1>5, <3>3
      <4>q. QED BY <1>1, <1>2, <1>3, <1>12, <3>2, <4>3, <4>4 DEF LiesIn
    <3>4. CASE m = k
      <4>1. b = c.place BY <1>5, <2>1, <3>4
      <4>2. q.kind # "file"
        <5> SUFFICES ASSUME q.kind = "file" PROVE FALSE OBVIOUS
        <5>1. b = y BY <1>1, <1>9 DEF LiesBy
        <5>2. Len(y) = m /\ m < Len(x) /\ SubSeq(x, 1, m) = y BY <1>1, <1>10, <3>1, <3>4, <4>1, <5>1
        <5>q. QED BY <5>2, NoneOnTheWay
      <4>3. q.kind = "module" BY <1>5, <3>2, <4>2
      <4>q. QED BY <1>1, <1>2, <1>3, <1>7, <2>5, <4>1, <4>3
    <3>q. QED BY <1>4, <1>5, <2>2, <3>3, <3>4
  <2>q. QED BY <1>8, <1>12, <2>3, <2>4, <2>5 DEF LiesBy
<1>q. QED BY <1>2, <1>3, <1>11, <1>12


(* The descendants of a cluster are itself and what lies inside it.        *)
LEMMA BelowIs ==
    ASSUME GraphAssumption, IrInv, NEW g, NEW I, I = IdsOf(TRUE), NEW ids, NEW links,
           DrawnTo(g, ids, links, I, AllLinks(TRUE)), NEW c \in I
    PROVE  \A id \in I : HashOf(id) \in Descendants(g.edges, HashOf(c)) <=> id = c \/ LiesIn(c, id)
<1>1. PICK L, es, D, h : L = AllLinks(TRUE) /\ es = g.edges /\ h = HashOf(c) /\ D = Descendants(es, h) OBVIOUS
<1>2. es \in Seq(ToSet(es)) BY <1>1 DEF DrawnTo
<1>3. /\ h \in D /\ OneDown(es, D) \subseteq D
      /\ \A X : h \in X /\ OneDown(es, X) \subseteq X => D \subseteq X
  BY <1>1, <1>2, DescendantsLeast
<1>m. PICK m : m = Len(links) OBVIOUS
<1>4. /\ \A i \in 1..m : /\ links[i] \in L /\ es[i] \in ToSet(es) /\ es[i].from = HashOf(links[i].from)
                         /\ es[i].to = HashOf(links[i].to) /\ es[i].relation = links[i].relation
      /\ \A e \in L : \E i \in 1..m : links[i] = e
      /\ \A x \in ToSet(es) : \E i \in 1..m : es[i] = x
  BY <1>1, <1>m DEF DrawnTo
<1>5. ASSUME NEW x \in ToSet(es), x.relation = "contains"
      PROVE  \E id \in Hanging(I) : x.from = HashOf(Above(id)) /\ x.to = HashOf(id)
  <2>1. PICK i \in 1..m : es[i] = x BY <1>4
  <2>2. PICK e \in L : links[i] = e BY <1>4
  <2>3. e.relation = "contains" /\ x.from = HashOf(e.from) /\ x.to = HashOf(e.to) BY <1>4, <1>5, <2>1, <2>2
  <2>4. e.to \in Hanging(I) /\ e = Link(e.to) BY <1>1, <2>3, LinkEnds
  <2>5. e.from = Above(e.to) BY <2>4 DEF Link, Edge
  <2>q. QED BY <2>3, <2>4, <2>5
<1>6. ASSUME NEW id \in Hanging(I)
      PROVE  \E x \in ToSet(es) : x.relation = "contains" /\ x.from = HashOf(Above(id)) /\ x.to = HashOf(id)
  <2>1. Link(id) \in L
    <3>1. {Link(k) : k \in Hanging(I)} \subseteq L BY <1>1, SymbolsApart
    <3>2. Link(id) \in {Link(k) : k \in Hanging(I)} OBVIOUS
    <3>q. QED BY <3>1, <3>2
  <2>2. PICK i \in 1..m : links[i] = Link(id) BY <1>4, <2>1
  <2>3. Link(id).from = Above(id) /\ Link(id).to = id /\ Link(id).relation = "contains" BY DEF Link, Edge
  <2>4. /\ es[i] \in ToSet(es) /\ es[i].relation = "contains" /\ es[i].from = HashOf(Above(id))
        /\ es[i].to = HashOf(id)
    BY <1>4, <2>2, <2>3
  <2>q. QED BY <2>4
<1>7. ASSUME NEW id \in I, HashOf(id) \in D PROVE id = c \/ LiesIn(c, id)
  <2>1. PICK X : X = {HashOf(k) : k \in {j \in I : j = c \/ LiesIn(c, j)}} OBVIOUS
  <2>2. \A y : y \in X <=> \E k \in I : (k = c \/ LiesIn(c, k)) /\ y = HashOf(k) BY <2>1
  <2>3. h \in X BY <1>1, <2>2
  <2>4. ASSUME NEW x \in ToSet(es), x.relation = "contains", x.from \in X PROVE x.to \in X
    <3>1. PICK k \in Hanging(I) : x.from = HashOf(Above(k)) /\ x.to = HashOf(k) BY <1>5, <2>4
    <3>2. PICK q \in I : (q = c \/ LiesIn(c, q)) /\ x.from = HashOf(q) BY <2>2, <2>4
    <3>3. q = Above(k) BY <3>1, <3>2, HashApart
    <3>4. LiesIn(c, k) BY <3>2, <3>3, DownInside
    <3>5. k \in I BY DEF Hanging
    <3>q. QED BY <2>2, <3>1, <3>4, <3>5
  <2>5. OneDown(es, X) \subseteq X BY <2>4 DEF OneDown
  <2>6. HashOf(id) \in X BY <1>3, <1>7, <2>3, <2>5
  <2>7. PICK k \in I : (k = c \/ LiesIn(c, k)) /\ HashOf(id) = HashOf(k) BY <2>2, <2>6
  <2>8. id = k BY <2>7, HashApart
  <2>q. QED BY <2>7, <2>8
<1>8. \A id \in I : LiesIn(c, id) => HashOf(id) \in D
  <2>1. PICK W : W = {id \in I : LiesIn(c, id) /\ HashOf(id) \notin D} OBVIOUS
  <2>2. SUFFICES ASSUME W # {} PROVE FALSE BY <2>1
  <2>3. \A id \in W : /\ id \in Hanging(I) /\ Above(id) \in I /\ (Above(id) = c \/ LiesIn(c, Above(id)))
                      /\ DepthOf(id) \in Nat /\ DepthOf(Above(id)) < DepthOf(id) /\ DepthOf(Above(id)) \in Nat
    <3> SUFFICES ASSUME NEW id \in W
                 PROVE  /\ id \in Hanging(I) /\ Above(id) \in I /\ (Above(id) = c \/ LiesIn(c, Above(id)))
                        /\ DepthOf(id) \in Nat /\ DepthOf(Above(id)) < DepthOf(id) /\ DepthOf(Above(id)) \in Nat
      OBVIOUS
    <3>1. id \in I /\ LiesIn(c, id) BY <2>1
    <3>2. id \in Hanging(I) /\ Above(id) \in I /\ (Above(id) = c \/ LiesIn(c, Above(id))) BY <3>1, UpInside
    <3>q. QED BY <3>2, AboveIsNearer
  <2>4. PICK N : N = {DepthOf(id) : id \in W} OBVIOUS
  <2>5. N \in SUBSET Nat /\ N # {} BY <2>2, <2>3, <2>4
  <2>6. PICK d \in N : \A e \in N : d <= e BY <2>5, LeastNat
  <2>7. PICK id \in W : d = DepthOf(id) BY <2>4, <2>6
  <2>8. PICK q \in I : q = Above(id) /\ (q = c \/ LiesIn(c, q)) BY <2>3
  <2>9. HashOf(q) \in D
    <3>1. CASE q = c BY <1>1, <1>3, <3>1
    <3>2. CASE q # c
      <4>1. q \in W => d <= DepthOf(q) BY <2>4, <2>6
      <4>2. DepthOf(q) < d /\ d \in Nat /\ DepthOf(q) \in Nat BY <2>3, <2>7, <2>8
      <4>3. q \notin W BY <4>1, <4>2
      <4>q. QED BY <2>1, <2>8, <3>2, <4>3
    <3>q. QED BY <3>1, <3>2
  <2>10. id \in Hanging(I) BY <2>3
  <2>11. PICK x \in ToSet(es) : x.relation = "contains" /\ x.from = HashOf(q) /\ x.to = HashOf(id)
    BY <1>6, <2>8, <2>10
  <2>12. x.to \in OneDown(es, D) BY <2>9, <2>11 DEF OneDown
  <2>q. QED BY <1>3, <2>1, <2>7, <2>11, <2>12
<1>q. QED BY <1>1, <1>3, <1>7, <1>8

LEMMA ClusterDrawn ==
    ASSUME GraphAssumption, IrInv, NEW n \in ToSet(Laid(TRUE).nodes), view = Below(Laid(TRUE), n.id)
    PROVE  ClusterIsSubtree /\ view.of \notin {<<"full">>, <<"overview">>}
<1>1. PICK I, L, g : I = IdsOf(TRUE) /\ L = AllLinks(TRUE) /\ g = Laid(TRUE) OBVIOUS
<1>2. PICK ids, links : OnceEach(ids, I) /\ OnceEach(links, L) /\ Drawn(g, ids, links) BY <1>1, LaidIs
<1>3. DrawnTo(g, ids, links, I, L) BY <1>2, DrawnParts
<1>4. PICK l \in Nat : l = Len(ids) BY <1>3 DEF DrawnTo
<1>5. /\ g.nodes \in Seq(ToSet(g.nodes)) /\ DOMAIN g.nodes = 1..l /\ Len(g.nodes) = l
      /\ \A i \in 1..l : ids[i] \in I /\ g.nodes[i] \in ToSet(g.nodes) /\ g.nodes[i].id = HashOf(ids[i])
      /\ \A x \in ToSet(g.nodes) : \E i \in 1..l : g.nodes[i] = x
  BY <1>3, <1>4 DEF DrawnTo
<1>6. PICK c \in I : n.id = HashOf(c)
  <2>1. PICK i \in 1..l : g.nodes[i] = n BY <1>1, <1>5
  <2>q. QED BY <1>5, <2>1
<1>7. PICK D, h : h = HashOf(c) /\ D = Descendants(g.edges, h) OBVIOUS
<1>8. \A id \in I : HashOf(id) \in D <=> id = c \/ LiesIn(c, id) BY <1>1, <1>3, <1>7, BelowIs
<1>9. ~LiesIn(c, c)
  <2>1. Len(c.place) \in Nat BY <1>1, Placed
  <2>q. QED BY <2>1 DEF LiesIn
<1>10. PICK keep : keep = {i \in DOMAIN g.nodes : g.nodes[i].id \in D \ {h}} OBVIOUS
<1>11. \A i \in 1..l : i \in keep <=> LiesIn(c, ids[i])
  <2> SUFFICES ASSUME NEW i \in 1..l PROVE i \in keep <=> LiesIn(c, ids[i]) OBVIOUS
  <2>1. i \in keep <=> HashOf(ids[i]) \in D /\ HashOf(ids[i]) # h BY <1>5, <1>10
  <2>2. HashOf(ids[i]) = h <=> ids[i] = c BY <1>7, HashApart
  <2>3. HashOf(ids[i]) \in D <=> ids[i] = c \/ LiesIn(c, ids[i]) BY <1>5, <1>8
  <2>q. QED BY <1>9, <2>1, <2>2, <2>3
<1>12. PICK r : r = Retain(g.nodes, keep) OBVIOUS
<1>13. view.nodes = r /\ view.of = h BY <1>1, <1>6, <1>7, <1>10, <1>12 DEF Below
<1>k. PICK k : k = Len(r) OBVIOUS
<1>14. PICK ix : /\ DOMAIN r = 1..k /\ ix \in [1..k -> keep]
                 /\ (\A i \in keep : \E j \in 1..k : ix[j] = i) /\ \A j \in 1..k : r[j] = g.nodes[ix[j]]
  <2>1. keep \in SUBSET (1..Len(g.nodes)) BY <1>5, <1>10
  <2>2. r \in Seq(ToSet(g.nodes)) /\ \E ix : Kept(g.nodes, keep, r, ix) BY <1>5, <1>12, <2>1, Retained
  <2>3. PICK ix : Kept(g.nodes, keep, r, ix) BY <2>2
  <2>4. DOMAIN r = 1..Len(r) BY <2>2
  <2>q. QED BY <1>k, <2>3, <2>4 DEF Kept
<1>15. PICK R : R = {x.id : x \in {y \in ToSet(Laid(TRUE).nodes) : Inside(view.of, y.id)}} OBVIOUS
<1>16. \A id \in I : Inside(view.of, HashOf(id)) <=> LiesIn(c, id)
  <2>1. \A id : HashOf(id)[3] = id BY DEF HashOf
  <2>2. \A id : Inside(HashOf(c), HashOf(id)) <=> LiesIn(c, id) BY <2>1 DEF Inside, LiesIn
  <2>q. QED BY <1>7, <1>13, <2>2
<1>17. ASSUME NEW z \in ViewIds PROVE z \in R
  <2>1. PICK x \in ToSet(r) : z = x.id BY <1>13 DEF ViewIds
  <2>2. PICK j \in 1..k : r[j] = x BY <1>14 DEF ToSet
  <2>3. PICK i \in keep : i = ix[j] BY <1>14
  <2>4. i \in 1..l BY <1>5, <1>10
  <2>5. x = g.nodes[i] /\ x \in ToSet(g.nodes) /\ x.id = HashOf(ids[i]) /\ ids[i] \in I BY <1>5, <1>14, <2>2, <2>3, <2>4
  <2>6. Inside(view.of, x.id) BY <1>11, <1>16, <2>4, <2>5
  <2>q. QED BY <1>1, <1>15, <2>1, <2>5, <2>6
<1>18. ASSUME NEW z \in R PROVE z \in ViewIds
  <2>1. PICK x \in ToSet(g.nodes) : Inside(view.of, x.id) /\ z = x.id BY <1>1, <1>15
  <2>2. PICK i \in 1..l : g.nodes[i] = x BY <1>5
  <2>3. i \in keep BY <1>5, <1>11, <1>16, <2>1, <2>2
  <2>4. PICK j \in 1..k : ix[j] = i BY <1>14, <2>3
  <2>5. r[j] = x /\ r[j] \in ToSet(r) BY <1>14, <2>2, <2>4 DEF ToSet
  <2>q. QED BY <1>13, <2>1, <2>5 DEF ViewIds
<1>19. ClusterIsSubtree BY <1>15, <1>17, <1>18 DEF ClusterIsSubtree
<1>20. view.of \notin {<<"full">>, <<"overview">>}
  <2>1. Len(h) = 3 BY <1>7 DEF HashOf
  <2>2. ASSUME NEW a PROVE h # <<a>>
    <3>1. Len(<<a>>) = 1 OBVIOUS
    <3>q. QED BY <2>1, <3>1
  <2>q. QED BY <1>13, <2>2
<1>q. QED BY <1>19, <1>20

LEMMA ForestIfFollowed == ASSUME GraphAssumption, GraphInv PROVE ViewIsForest
<1>1. IrInv /\ ViewFollows BY DEF GraphInv
<1>2. CASE view = NoView
  <2>1. view.of = <<"none">> BY <1>2 DEF NoView
  <2>2. <<"none">> # <<"full">> /\ <<"none">> # <<"overview">> OBVIOUS
  <2>q. QED BY <2>1, <2>2 DEF ViewIsForest, ClusterIsSubtree
<1>3. ASSUME NEW full \in BOOLEAN, view = Laid(full) PROVE ViewIsForest
  <2>1. view.of \in {<<"full">>, <<"overview">>}
    <3>1. view.of = <<IF full THEN "full" ELSE "overview">> BY <1>1, <1>3, LaidIs
    <3>q. QED BY <3>1
  <2>2. ClusterIsSubtree BY <2>1 DEF ClusterIsSubtree
  <2>3. /\ Cardinality(ViewIds) = Len(view.nodes)
        /\ \A e \in ToSet(view.edges) : e.from \in ViewIds /\ e.to \in ViewIds
        /\ \A n \in ToSet(view.nodes) :
               /\ Cardinality(Parents(n.id)) = IF n.kind = "crate" THEN 0 ELSE 1
               /\ n.children = Cardinality({m \in ToSet(view.nodes) : n.id \in Parents(m.id)})
    BY <1>1, <1>3, ForestDrawn
  <2>q. QED BY <2>2, <2>3 DEF ViewIsForest
<1>4. ASSUME NEW n \in ToSet(Laid(TRUE).nodes), view = Below(Laid(TRUE), n.id) PROVE ViewIsForest
  <2>1. ClusterIsSubtree /\ view.of \notin {<<"full">>, <<"overview">>} BY <1>1, <1>4, ClusterDrawn
  <2>q. QED BY <2>1 DEF ViewIsForest
<1>q. QED BY <1>1, <1>2, <1>3, <1>4 DEF ViewFollows

(* Whatever members overlap and whatever names repeat, an explorer graph   *)
(* is a forest over the crates with one node of each id, edges between its *)
(* nodes and the true number of children, and the graph below a cluster    *)
(* holds exactly what lies inside it (ExplorerGraphBuilder::build).        *)
THEOREM ExplorerIsForest == GraphSpec => []ViewIsForest
<1>1. GraphInit => GraphInv BY GraphAssumption, InitGraphInv
<1>2. GraphInv /\ [GraphNext]_graphVars => GraphInv' BY GraphAssumption, StepGraphInv
<1>3. GraphInv => ViewIsForest BY GraphAssumption, ForestIfFollowed
<1>q. QED BY <1>1, <1>2, <1>3, PTL DEF GraphSpec
-----------------------------------------------------------------------------
(* What is left of the graph's types: the texts are the files' own, and no *)
(* more files are walked than the bound allows.                            *)
TextsTyped ==
    /\ Len(irFiles) <= MaxWalked /\ mapped \in BOOLEAN
    /\ DOMAIN texts = SourcePaths /\ \A p \in SourcePaths : texts[p] \in {NoText} \cup Texts[p]

LEMMA StepTextsTyped ==
    ASSUME GraphAssumption, IrInv, TextsTyped, [GraphNext]_graphVars
    PROVE  TextsTyped'
<1>1. CASE WalkFile
  <2>1. PICK p \in SourcePaths : \E t \in Texts[p] :
            texts' = [texts EXCEPT ![p] = t] /\ irFiles' = Append(irFiles, p)
    BY <1>1, Zenon DEF WalkFile
  <2>2. PICK t \in Texts[p] : texts' = [texts EXCEPT ![p] = t] /\ irFiles' = Append(irFiles, p) BY <2>1
  <2>3. Len(irFiles) < MaxWalked /\ mapped' = mapped BY <1>1 DEF WalkFile
  <2>4. Len(irFiles') <= MaxWalked
    <3>1. irFiles \in Seq(SourcePaths) /\ MaxWalked \in Nat BY DEF IrInv, GraphAssumption
    <3>2. Len(Append(irFiles, p)) = Len(irFiles) + 1 /\ Len(irFiles) \in Nat BY <3>1
    <3>q. QED BY <2>2, <2>3, <3>1, <3>2
  <2>q. QED BY <2>2, <2>3, <2>4 DEF TextsTyped
<1>2. CASE Mapped \/ Explore \/ Select \/ Gather \/ UNCHANGED graphVars
  <2>1. UNCHANGED <<texts, irFiles>> /\ mapped' \in {mapped, TRUE}
    BY <1>2 DEF Mapped, Explore, Select, Gather, graphVars
  <2>q. QED BY <2>1 DEF TextsTyped
<1>q. QED BY <1>1, <1>2 DEF GraphNext

(* Every symbol of the graph belongs to a file that was walked, and no     *)
(* neighbourhood has more nodes than it may have.                          *)
THEOREM GraphTypeCorrect == GraphSpec => []GraphTypeOK
<1>1. GraphAssumption BY GraphAssumption
<1>2. GraphInit => TextsTyped
  <2>1. SUFFICES ASSUME GraphInit PROVE TextsTyped OBVIOUS
  <2>2. MaxWalked \in Nat BY <1>1 DEF GraphAssumption
  <2>3. Len(irFiles) <= MaxWalked
    <3>1. irFiles = <<>> BY <2>1 DEF GraphInit
    <3>2. Len(irFiles) = 0 BY <3>1
    <3>q. QED BY <2>2, <3>2
  <2>4. mapped \in BOOLEAN BY <2>1 DEF GraphInit
  <2>5. texts = [p \in SourcePaths |-> NoText] BY <2>1 DEF GraphInit
  <2>6. DOMAIN texts = SourcePaths /\ \A p \in SourcePaths : texts[p] \in {NoText} \cup Texts[p] BY <2>5
  <2>q. QED BY <2>3, <2>4, <2>6 DEF TextsTyped
<1>3. GraphInv /\ TextsTyped => GraphTypeOK
  BY DEF GraphInv, IrInv, SearchInv, TextsTyped, GraphTypeOK
<1>4. GraphInv => IrInv BY DEF GraphInv
<1>q. QED BY <1>1, <1>2, <1>3, <1>4, InitGraphInv, StepGraphInv, StepTextsTyped, PTL DEF GraphSpec
=============================================================================
