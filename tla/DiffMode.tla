------------------------------ MODULE DiffMode ------------------------------
(***************************************************************************)
(* Diff mode: the findings of one commit are kept in an AnalysisCache (a   *)
(* map in memory over a sled database that one process at a time can       *)
(* open), and compute_diff decides for a later commit which of them still  *)
(* stand and what has to be analysed again.  Processes open the cache,     *)
(* insert what an analysis of a commit found, compute diffs, and exit or   *)
(* crash.                                                                  *)
(***************************************************************************)
EXTENDS Naturals, Sequences, FiniteSets

CONSTANTS Processes,   \* programs that use the cache directory
          Paths,       \* files of the repository
          Members,     \* the workspace's members
          CratesOf,    \* the members in whose directory a file lies
          NamedCrate,  \* the crate that a finding in a file names
          Manifests,   \* the files that are called Cargo.toml
          Trees,       \* bound: what a commit can have in each file, 0 when
                       \* there is none
          Flawed,      \* the contents in which the engines find something
          First,       \* the tree of the first commit
          MaxCommits,  \* bound: commits of the repository
          LockRetries, \* LOCK_RETRY_ATTEMPTS
          Renames      \* whether git looks for renames, as it does by default

ASSUME DiffAssumption ==
    /\ Manifests \subseteq Paths /\ CratesOf \in [Paths -> SUBSET Members]
    /\ Trees \subseteq [Paths -> Nat] /\ First \in Trees /\ Flawed \subseteq Nat \ {0}
    /\ MaxCommits \in Nat \ {0} /\ LockRetries \in Nat /\ Renames \in BOOLEAN

Commits == 1..MaxCommits
Nothing == [base |-> 0]
Findings(tree) == {f \in Paths \ Manifests : tree[f] \in Flawed}

VARIABLES commits,  \* the repository's commits, each a function from Paths
          pc,       \* of each process
          retries,  \* of AnalysisCache::open
          lock,     \* the process that has the database open, if any
          inner,    \* each process's map of commits to findings
          db,       \* the database on disk
          buffered, \* what sled has not written to disk yet
          target,   \* the commit a process inserts
          diff,     \* the last DiffAnalysis
          inserted, \* history: the commits insert has returned for
          refused   \* history: those of them that encoding, sled or the disk
                    \* refused, and that are not on the disk since

diffVars == <<commits, pc, retries, lock, inner, db, buffered, target, diff, inserted,
              refused>>

Empty == [c \in {} |-> {}]
With(map, c, findings) == [d \in DOMAIN map \cup {c} |-> IF d = c THEN findings ELSE map[d]]
Over(top, map) == [d \in DOMAIN top \cup DOMAIN map |-> IF d \in DOMAIN top THEN top[d] ELSE map[d]]

DiffInit ==
    /\ commits = <<First>>
    /\ pc = [p \in Processes |-> "closed"]
    /\ retries = [p \in Processes |-> 0]
    /\ lock = {}
    /\ inner = [p \in Processes |-> Empty]
    /\ db = Empty /\ buffered = Empty
    /\ target = [p \in Processes |-> 0]
    /\ diff = Nothing
    /\ inserted = {} /\ refused = {}
-----------------------------------------------------------------------------
(* What developers do: a commit edits, adds, deletes and moves files.      *)
Commit(tree) ==
    /\ Len(commits) < MaxCommits
    /\ commits' = Append(commits, tree)
    /\ UNCHANGED <<pc, retries, lock, inner, db, buffered, target, diff, inserted, refused>>

-----------------------------------------------------------------------------
(* AnalysisCache::open: sled locks its directory, and a lock that is held  *)
(* is tried again ten times.                                               *)
Open(p) ==
    /\ pc[p] = "closed" /\ lock = {}
    /\ lock' = {p}
    /\ pc' = [pc EXCEPT ![p] = "open"]
    /\ retries' = [retries EXCEPT ![p] = 0]
    /\ inner' = [inner EXCEPT ![p] = Empty]
    /\ UNCHANGED <<commits, db, buffered, target, diff, inserted, refused>>

RetryOpen(p) ==
    /\ pc[p] = "closed" /\ lock # {} /\ retries[p] < LockRetries
    /\ retries' = [retries EXCEPT ![p] = @ + 1]
    /\ UNCHANGED <<commits, pc, lock, inner, db, buffered, target, diff, inserted, refused>>

OpenFails(p) ==
    /\ pc[p] = "closed" /\ lock # {} /\ retries[p] = LockRetries
    /\ pc' = [pc EXCEPT ![p] = "failed"]
    /\ UNCHANGED <<commits, retries, lock, inner, db, buffered, target, diff, inserted, refused>>

(* sled writes what it buffered when it is told to, now and then by        *)
(* itself, and when the end of a process drops the database; the write may *)
(* fail, and a crash may come before it.                                   *)
Written == db' = Over(buffered, db) /\ refused' = refused \ DOMAIN buffered
Unwritten == UNCHANGED <<db, refused>>

Ends(p) ==
    /\ pc' = [pc EXCEPT ![p] = "closed"]
    /\ IF lock = {p} THEN buffered' = Empty /\ (Written \/ Unwritten)
                     ELSE Unwritten /\ UNCHANGED buffered
    /\ lock' = lock \ {p}
    /\ inner' = [inner EXCEPT ![p] = Empty]
    /\ retries' = [retries EXCEPT ![p] = 0]
    /\ UNCHANGED <<commits, target, diff, inserted>>

Exit(p) == pc[p] \in {"open", "failed"} /\ Ends(p)
Crash(p) == pc[p] \notin {"closed", "failed"} /\ Ends(p)
-----------------------------------------------------------------------------
(* insert: the map, then the database, then flush.  It returns nothing,    *)
(* and ignores an error of any of them.                                    *)
InsertInner(p, c) ==
    /\ pc[p] = "open" /\ c \in DOMAIN commits
    /\ inner' = [inner EXCEPT ![p] = With(@, c, Findings(commits[c]))]
    /\ target' = [target EXCEPT ![p] = c]
    /\ pc' = [pc EXCEPT ![p] = "insert"]
    /\ UNCHANGED <<commits, retries, lock, db, buffered, diff, inserted, refused>>

Returns(p, step) ==
    /\ pc[p] = step
    /\ inserted' = inserted \cup {target[p]}
    /\ target' = [target EXCEPT ![p] = 0]
    /\ pc' = [pc EXCEPT ![p] = "open"]
    /\ UNCHANGED <<commits, retries, lock, inner, diff>>

EncodeFails(p) ==
    /\ Returns(p, "insert")
    /\ refused' = refused \cup {target[p]}
    /\ UNCHANGED <<db, buffered>>

InsertDb(p) ==
    /\ pc[p] = "insert"
    /\ buffered' = With(buffered, target[p], Findings(commits[target[p]]))
    /\ pc' = [pc EXCEPT ![p] = "flush"]
    /\ UNCHANGED <<commits, retries, lock, inner, db, target, diff, inserted, refused>>

InsertDbFails(p) ==
    /\ pc[p] = "insert"
    /\ refused' = refused \cup {target[p]}
    /\ pc' = [pc EXCEPT ![p] = "flush"]
    /\ UNCHANGED <<commits, retries, lock, inner, db, buffered, target, diff, inserted>>

FlushNothing(p) == Returns(p, "flush") /\ UNCHANGED <<db, buffered, refused>>
Flush(p) == Returns(p, "flush") /\ Written /\ buffered' = Empty

FlushFails(p) ==
    /\ Returns(p, "flush")
    /\ refused' = refused \cup {target[p]}
    /\ UNCHANGED <<db, buffered>>

(* get: the map, or the database, whose answer it puts into the map; an    *)
(* unknown commit has no findings, and neither has one that cannot be      *)
(* read.                                                                   *)
Known(p, c) == c \in DOMAIN inner[p] \cup DOMAIN buffered \cup DOMAIN db
Get(p, c) ==
    IF c \in DOMAIN inner[p] THEN inner[p][c]
    ELSE IF c \in DOMAIN buffered THEN buffered[c]
    ELSE IF c \in DOMAIN db THEN db[c] ELSE {}
Readable(p, c) == {k \in BOOLEAN : (c \in DOMAIN inner[p] => k) /\ (k => Known(p, c))}
-----------------------------------------------------------------------------
(* compute_diff                                                            *)

(* git diff --name-only lists a renamed file under its new name only.      *)
(* Which deleted file was renamed to which added one git decides by how    *)
(* much of it is alike, and the files here have no text to compare: any    *)
(* pairing is possible.                                                    *)
Differing(base, head) == {f \in Paths : base[f] # head[f]}
Added(base, head) == {f \in Paths : base[f] = 0 /\ head[f] # 0}
Renamed(base, head) == IF Renames /\ Added(base, head) # {} THEN Added(head, base) ELSE {}

ModifiedFiles(base, head) == {{f \in Differing(base, head) : base[f] # 0}}
ChangedFiles(base, head) ==
    {Differing(base, head) \ away :
        away \in {gone \in SUBSET Renamed(base, head) :
                     Cardinality(gone) <= Cardinality(Added(base, head))}}

FullRerun(changed) == changed \cap Manifests # {}
AffectedCrates(changed) ==
    IF FullRerun(changed) THEN Members ELSE UNION {CratesOf[f] : f \in changed}

(* The files that the tasks analyse again: members in full, or single      *)
(* files of the head.                                                      *)
RerunFiles(changed) ==
    IF FullRerun(changed) THEN {f \in Paths : CratesOf[f] # {}} ELSE changed

CachedWhole(previous, changed) == {f \in previous : ~FullRerun(changed)}
CachedFindings(previous, changed) ==
    {f \in previous : ~FullRerun(changed) /\ NamedCrate[f] \notin AffectedCrates(changed)}

ComputeDiff(p, b, h) ==
    /\ pc[p] = "open" /\ b # h /\ {b, h} \subseteq DOMAIN commits
    /\ \E known \in Readable(p, b), changed \in ChangedFiles(commits[b], commits[h]) :
           /\ inner' = [inner EXCEPT ![p] = IF known THEN With(@, b, Get(p, b)) ELSE @]
           /\ diff' = [base |-> b, head |-> h, known |-> known,
                       rerun |-> RerunFiles(changed),
                       cached |-> CachedFindings(IF known THEN Get(p, b) ELSE {}, changed)]
    /\ UNCHANGED <<commits, pc, retries, lock, db, buffered, target, inserted, refused>>
-----------------------------------------------------------------------------
Use(p) ==
    \/ Open(p) \/ RetryOpen(p) \/ OpenFails(p) \/ Exit(p) \/ Crash(p)
    \/ \E c \in Commits : InsertInner(p, c)
    \/ InsertDb(p) \/ Flush(p)
    \/ EncodeFails(p) \/ InsertDbFails(p) \/ FlushFails(p)
    \/ \E b, h \in Commits : ComputeDiff(p, b, h)

DiffNext ==
    \/ \E tree \in Trees : Commit(tree)
    \/ \E p \in Processes : Use(p)
DiffSpec == DiffInit /\ [][DiffNext]_diffVars
-----------------------------------------------------------------------------
Maps == UNION {[known -> SUBSET Paths] : known \in SUBSET Commits}
Diffs == [base : Commits, head : Commits, known : BOOLEAN,
          rerun : SUBSET Paths, cached : SUBSET Paths]
DiffTypeOK ==
    /\ Len(commits) \in Commits /\ \A c \in DOMAIN commits : commits[c] \in Trees
    /\ pc \in [Processes -> {"closed", "failed", "open", "insert", "flush"}]
    /\ retries \in [Processes -> 0..LockRetries]
    /\ lock \in SUBSET Processes
    /\ \A p \in Processes : inner[p] \in Maps
    /\ db \in Maps /\ buffered \in Maps
    /\ target \in [Processes -> Commits \cup {0}]
    /\ diff \in Diffs \cup {Nothing}
    /\ inserted \in SUBSET Commits /\ refused \in SUBSET Commits

(* Whatever the cache knows of a commit is what its analysis found, and it *)
(* knows every commit that insert has returned for, however the processes  *)
(* in between ended, unless an error on the way to the disk was swallowed. *)
InsertedIsKept ==
    \A p \in Processes : pc[p] = "open" =>
        /\ inserted \subseteq {c \in Commits : Known(p, c)} \cup refused
        /\ \A c \in Commits : Known(p, c) => Get(p, c) = Findings(commits[c])

(* A finding of the head that is neither in a file analysed again nor      *)
(* taken from the cache is lost in one of two ways: a full rerun passes    *)
(* over its file, which is in no member, or it is an old one of an         *)
(* unchanged file, and the base was not known to the cache or another file *)
(* changed in the crate it names.                                          *)
Passed(f, base, head) == CratesOf[f] = {} /\ \E m \in Manifests : base[m] # head[m]
Dropped(f, base, head) ==
    /\ base[f] = head[f]
    /\ ~diff.known \/ \E g \in Differing(base, head) : NamedCrate[f] \in CratesOf[g]
LossesConfined ==
    diff # Nothing =>
        LET base == commits[diff.base]  head == commits[diff.head] IN
        \A f \in Findings(head) \ (diff.rerun \cup diff.cached) :
            Passed(f, base, head) \/ Dropped(f, base, head)

(* A finding that is taken from the cache is one the head still has,       *)
(* unless it names another crate than its file's, or its file was moved    *)
(* away in a form that git shows as a rename.                              *)
Misnamed == {f \in Paths : NamedCrate[f] \notin CratesOf[f]}
CachedUnlessMoved ==
    diff # Nothing =>
        LET base == commits[diff.base]  head == commits[diff.head] IN
        diff.cached \subseteq Findings(head) \cup Renamed(base, head) \cup Misnamed
-----------------------------------------------------------------------------
(* docs/design/implementation-plan-v2.md:2461: the cached findings are     *)
(* "from unchanged modules", so the head still has each of them.           *)
CachedFromUnchanged ==
    diff # Nothing =>
        diff.cached \subseteq Findings(commits[diff.head])

(* README.md:122: "Diff mode re-analyzes only the crates affected by a     *)
(* commit range and caches results from unchanged modules": when the cache *)
(* knows the base, no finding of the head gets lost.                       *)
NothingLost ==
    diff # Nothing /\ diff.known =>
        Findings(commits[diff.head]) \subseteq diff.rerun \cup diff.cached
=============================================================================
