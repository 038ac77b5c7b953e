---------------------------- MODULE ContextCache ----------------------------
(***************************************************************************)
(* ContextCacheService: what is on a task's disk, kept in memory across     *)
(* executions.  A hit answers at once and refreshes the same object in the  *)
(* background, file by file; a miss scans the disk and may evict others.    *)
(* Several refreshes of one object may overlap.                             *)
(*                                                                         *)
(* A file is its size, 0 when it is not there (or ignored, too large or     *)
(* unreadable).  A scan sees the disk at one moment.                        *)
(***************************************************************************)
EXTENDS Naturals, FiniteSets, FiniteSetsExt, Sequences, SequencesExt

CONSTANTS
    CacheKeys,      \* projectId:taskId
    Files,          \* relative paths
    MaxFileSize,    \* largest size of a file
    CacheLimit,     \* MAX_CACHE_SIZE_MB
    MaxBuilds,      \* bound: contexts built
    MaxRefreshes,   \* bound: refreshes under way
    MaxEdits        \* bound: changes on disk

ASSUME CacheConstants ==
    /\ {MaxFileSize, CacheLimit, MaxBuilds, MaxRefreshes, MaxEdits} \subseteq Nat
    /\ MaxFileSize # 0 /\ IsFiniteSet(Files)

VARIABLES
    disk,       \* key -> file -> size
    contexts,   \* contexts built: files and totalSize
    caches,     \* key -> context, 0 when there is none
    updated,    \* contexts in the order of lastUpdated
    building,   \* keys whose build is under way
    refreshes,  \* refreshes under way: context, key, files left, detected
    edits       \* changes on disk so far

cacheVars == <<disk, contexts, caches, updated, building, refreshes, edits>>

Sizes == 0..MaxFileSize
SumOf(files) == SumFunction(files)
Cached == {caches[k] : k \in CacheKeys} \ {0}
TotalSize(built, set) == SumFunction([c \in set |-> built[c].total])

Totals == {SumOf(files) : files \in [Files -> Sizes]}
Contexts == [files : [Files -> Sizes], total : Totals]
Refreshes == [id : 1..MaxRefreshes, context : Nat, key : CacheKeys, left : SUBSET Files,
              detected : BOOLEAN]

CacheTypeOK ==
    /\ disk \in [CacheKeys -> [Files -> Sizes]]
    /\ contexts \in Seq(Contexts)
    /\ caches \in [CacheKeys -> 0..Len(contexts)]
    /\ refreshes \subseteq Refreshes /\ IsFiniteSet(refreshes)
    /\ \A r \in refreshes : r.context \in DOMAIN contexts

(* Contexts are few, those that will be built included. *)
BuildsAreBounded ==
    /\ building \subseteq CacheKeys /\ IsFiniteSet(building)
    /\ Len(contexts) + Cardinality(building) <= MaxBuilds

(* updated lists each context, and none of them twice. *)
UpdatedListsAll ==
    /\ updated \in Seq(DOMAIN contexts) /\ Len(updated) = Len(contexts)
    /\ \A c \in DOMAIN contexts : \E i \in DOMAIN updated : updated[i] = c

CacheInit ==
    /\ disk = [k \in CacheKeys |-> [f \in Files |-> 1]]
    /\ contexts = <<>> /\ updated = <<>>
    /\ caches = [k \in CacheKeys |-> 0]
    /\ building = {} /\ refreshes = {} /\ edits = 0

-----------------------------------------------------------------------------
(* The agents write, or delete, a file. *)
EditDisk(k, f, size) ==
    /\ edits < MaxEdits
    /\ disk[k][f] # size
    /\ edits' = edits + 1
    /\ disk' = [disk EXCEPT ![k][f] = size]
    /\ UNCHANGED <<contexts, caches, updated, building, refreshes>>

(* getContext: a hit that has not expired; the refresh is scheduled. *)
CacheHit(k) ==
    /\ caches[k] # 0
    /\ Cardinality(refreshes) < MaxRefreshes
    /\ refreshes' = refreshes \cup {[id |-> Min({n \in 1..MaxRefreshes : \A r \in refreshes : r.id # n}),
                                     context |-> caches[k], key |-> k,
                                     left |-> {}, detected |-> FALSE]}
    /\ UNCHANGED <<disk, contexts, caches, updated, building, edits>>

(* getContext: a miss, an expired context or a forced refresh. *)
CacheMiss(k) ==
    /\ k \notin building
    /\ Len(contexts) + Cardinality(building) < MaxBuilds
    /\ building' = building \cup {k}
    /\ UNCHANGED <<disk, contexts, caches, updated, refreshes, edits>>

(* Mutant of Evicted: eviction stops after the first context. *)
Bug_EvictsOne(size) ==
    IF size[0] > CacheLimit THEN Min({n \in DOMAIN size : size[n] # size[0]}) ELSE 0

(* evictIfNeeded: how many go, where size[n] is left when the n oldest are gone.
   Above the limit they go until four fifths of it are left. *)
Evicted(size) ==
    IF size[0] > CacheLimit THEN Min({n \in DOMAIN size : 5 * size[n] <= 4 * CacheLimit}) ELSE 0

(* The cached contexts that stay; the oldest in the order of lastUpdated go first. *)
Staying(built, cached, order) ==
    LET left(n) == cached \cap ToSet(SubSeq(order, n + 1, Len(order)))
        size == [n \in 0..Len(order) |-> TotalSize(built, left(n))]
    IN left(Evicted(size))

(* The scan is over: the context is cached, then others, or itself, evicted. *)
BuildContext(k) ==
    LET new == Len(contexts) + 1
        built == Append(contexts, [files |-> disk[k], total |-> SumOf(disk[k])])
        filled == [caches EXCEPT ![k] = new]
        stays == Staying(built, Range(filled), Append(updated, new))
    IN /\ k \in building
       /\ building' = building \ {k}
       /\ contexts' = built
       /\ updated' = Append(updated, new)
       /\ caches' = [q \in CacheKeys |-> IF filled[q] \in stays THEN filled[q] ELSE 0]
       /\ UNCHANGED <<disk, refreshes, edits>>

-----------------------------------------------------------------------------
(* Mutant of Retotal: the total is the one the refresh began with, plus the
   file at hand. *)
Bug_AddsUp(c, files, f) == contexts[c].total + files[f]

(* applyDiff recomputes the total from all files. *)
Retotal(c, files, f) == SumOf(files)

(* lastUpdated of the context is now. *)
Touch(c) ==
    LET i == CHOOSE n \in DOMAIN updated : updated[n] = c
    IN Append(RemoveAt(updated, i), c)

(* The context with its new files, and with its total when the refresh ends. *)
ApplyTo(c, files, f, last) ==
    /\ contexts' = [contexts EXCEPT ![c].files = files,
                                    ![c].total = IF last THEN Retotal(c, files, f) ELSE @]
    /\ updated' = IF last THEN Touch(c) ELSE updated

(* detectChanges, and the deletions of applyDiff.  Without a change the
   refresh is over, and without an addition its totals follow at once. *)
Detect(r) ==
    LET files == contexts[r.context].files
        now == disk[r.key]
        deleted == {f \in Files : files[f] # 0 /\ now[f] = 0}
        changed == {f \in Files : now[f] # 0 /\ now[f] # files[f]}
        kept == [f \in Files |-> IF f \in deleted THEN 0 ELSE files[f]]
    IN /\ ~r.detected
       /\ IF deleted \cup changed = {}
          THEN UNCHANGED <<contexts, updated>>
          ELSE ApplyTo(r.context, kept, CHOOSE f \in Files : TRUE, changed = {})
       /\ refreshes' = (refreshes \ {r}) \cup
              (IF changed = {} THEN {} ELSE {[r EXCEPT !.left = changed, !.detected = TRUE]})
       /\ UNCHANGED <<disk, caches, building, edits>>

(* applyDiff reads one file; one that is gone is skipped.  After the last the
   totals are computed. *)
ApplyFile(r, f) ==
    LET old == contexts[r.context].files
        files == [old EXCEPT ![f] = IF disk[r.key][f] = 0 THEN @ ELSE disk[r.key][f]]
    IN /\ r.detected /\ f \in r.left
       /\ ApplyTo(r.context, files, f, r.left = {f})
       /\ refreshes' = (refreshes \ {r}) \cup
              (IF r.left = {f} THEN {} ELSE {[r EXCEPT !.left = @ \ {f}]})
       /\ UNCHANGED <<disk, caches, building, edits>>

CacheNext ==
    \/ \E k \in CacheKeys : CacheHit(k) \/ CacheMiss(k) \/ BuildContext(k)
    \/ \E k \in CacheKeys : \E f \in Files : \E size \in Sizes : EditDisk(k, f, size)
    \/ \E r \in refreshes : Detect(r) \/ \E f \in Files : ApplyFile(r, f)

CacheSpec == CacheInit /\ [][CacheNext]_cacheVars

-----------------------------------------------------------------------------
(* The total of a context is the sum of its files whenever no refresh of it is
   under way, however the refreshes before overlapped: eviction and the token
   statistics are computed from it. *)
TotalsAgree ==
    \A c \in DOMAIN contexts :
        (\A r \in refreshes : r.context # c) => contexts[c].total = SumOf(contexts[c].files)

(* A context that was scanned leaves the cache within its limit, although the
   refreshes in between grow contexts without evicting any. *)
RoomAfterBuild == [][Len(contexts') > Len(contexts) => TotalSize(contexts, Cached)' <= CacheLimit]_cacheVars

(* Why: a total may only lag behind a refresh that has files left to read. *)
LaggingIsRefreshed ==
    /\ \A r \in refreshes : r.detected => r.left # {}
    /\ \A c \in DOMAIN contexts :
          (\A r \in refreshes : r.context = c => ~r.detected) =>
              contexts[c].total = SumOf(contexts[c].files)

TotalsAreTrue == CacheTypeOK /\ TotalsAgree /\ LaggingIsRefreshed

(* Eviction, and the statistics shown to the user, compute with true sizes. *)
CacheInv == TotalsAreTrue /\ BuildsAreBounded /\ UpdatedListsAll
=============================================================================
