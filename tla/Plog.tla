-------------------------------- MODULE Plog --------------------------------
(***************************************************************************)
(* core/plog.cpp: one EntryMng, that is one plog instance of one server:   *)
(* the cache of entries (an LRU map), the counters kept in memory, and the *)
(* disk below, which the user of the library implements with SaveEntry,    *)
(* LoadEntry and BatchLoadEntry over SerializeTo and UnserializeFrom.      *)
(***************************************************************************)
EXTENDS LruMap

CONSTANTS
    None,        \* a null shared_ptr, a missing row on disk
    MaxEntry,    \* bound: last entry ever asked for
    Troubles     \* what may go wrong together: sets of "evict", "save", "load", "fresh"

ASSUME PlogAssumption ==
    MaxEntry \in Nat /\ \A t \in Troubles : t \subseteq {"evict", "save", "load", "fresh"}

VARIABLES
    cache,       \* entries_
    disk,        \* the rows of this instance
    cnt,         \* the counters of EntryMng
    trouble      \* what may go wrong: the cache is smaller than the plog ("evict"),
                 \* SaveEntry fails ("save"), BatchLoadEntry fails half way
                 \* ("load"), nobody calls LoadAllFromDisk ("fresh")

Entry == 0 .. MaxEntry

\* config_->entry_cache_num_
CacheSize == IF "evict" \in trouble THEN 1 ELSE MaxEntry + 1

\* What SaveEntry may return.
SaveOutcomes == IF "save" \in trouble THEN BOOLEAN ELSE {TRUE}

\* ~0ull, which is larger than every entry.
Ones == MaxEntry + 1

\* A proposal as far as an entry tells them apart, and a row of two.
Proposal == [pid : Nat, vid : Nat, status : {"INIT", "PROMISED", "ACCEPTED", "CHOSEN"}]
Row == [p1 : Proposal, p2 : Proposal]

ASSUME NoneAssumption == None \notin Proposal /\ None \notin Row

\* class Entry: accepted_ and promised_.
EmptyEntry == [acc |-> None, prom |-> None]

\* GenDummyProposal: all zero, which makes the status INIT.
Dummy == [pid |-> 0, vid |-> 0, status |-> "INIT"]

\* Mutation: with a vote the promise is written in its place.
MutSerializeTo(x) ==
    [p1 |-> IF x.acc = None \/ x.prom # None THEN Dummy ELSE x.acc,
     p2 |-> IF x.prom = None THEN Dummy ELSE x.prom]

\* A row has two proposals; a dummy stands for a missing one, and for the
\* promise of an entry with a vote.
SerializeTo(x) ==
    [p1 |-> IF x.acc = None THEN Dummy ELSE x.acc,
     p2 |-> IF x.acc # None \/ x.prom = None THEN Dummy ELSE x.prom]

\* Both proposals of the row are cloned, dummies as well.
UnserializeFrom(raw) == [acc |-> raw.p1, prom |-> raw.p2]

\* Entry::Status of an entry that comes from disk.
RowStatus(e) == UnserializeFrom(disk[e]).acc.status

-----------------------------------------------------------------------------
\* The counters as the constructor and Reset leave them.
FreshCounters ==
    [inUse |-> Ones, last |-> Ones, global |-> Ones, firstValid |-> Ones,
     firstUnchosen |-> Ones, maxContinue |-> 0]

\* The counters with which LoadAllFromDisk begins.
ClearedCounters(committed) ==
    [FreshCounters EXCEPT !.inUse = 0, !.last = 0, !.global = 0,
                          !.maxContinue = committed]

\* Mutation: the run of chosen entries is not followed.
MutRecoverEntry(s, e) ==
    [cache |-> Put(s.cache, e, UnserializeFrom(disk[e]), CacheSize),
     cnt |-> [s.cnt EXCEPT
        !.last = IF RowStatus(e) = "CHOSEN" /\ e > @ THEN e ELSE @,
        !.firstUnchosen = IF RowStatus(e) # "CHOSEN" /\ e < @ THEN e ELSE @,
        !.firstValid = IF e < @ THEN e ELSE @,
        !.inUse = IF e > @ THEN e ELSE @]]

\* RecoverRange: what one loaded row does to the cache and to the counters.
RecoverEntry(s, e) ==
    LET chosen == RowStatus(e) = "CHOSEN" IN
    [cache |-> Put(s.cache, e, UnserializeFrom(disk[e]), CacheSize),
     cnt |-> [s.cnt EXCEPT
        !.last = IF chosen /\ e > @ THEN e ELSE @,
        !.maxContinue = IF chosen /\ e = @ + 1 THEN e ELSE @,
        !.firstUnchosen = IF ~chosen /\ e < @ THEN e ELSE @,
        !.firstValid = IF e < @ THEN e ELSE @,
        !.inUse = IF e > @ THEN e ELSE @]]

\* The rows that BatchLoadEntry hands out, from 1 on and in ascending order.
Rows == {e \in Entry \ {0} : disk[e] # None}

\* RecoverRange: what each row finds and leaves when it is loaded, the last
\* committed entry being known.
RecoverRange(committed) ==
    LET upTo[e \in Entry] ==
          IF e = 0 THEN [cache |-> EmptyMap, cnt |-> ClearedCounters(committed)]
          ELSE IF e \in Rows THEN RecoverEntry(upTo[e - 1], e) ELSE upTo[e - 1]
    IN upTo

\* LoadAllFromDisk, which asks for batches until one is empty or fails, and
\* reports success in either case.  The last committed entry comes from disk too.
LoadAllFromDisk ==
    \E committed \in {c \in Entry : \A e \in 1 .. c : disk[e] # None /\ RowStatus(e) = "CHOSEN"},
       n \in IF "load" \in trouble THEN Entry ELSE {MaxEntry} :
       LET s == RecoverRange(committed)[n] IN
       /\ cache' = s.cache
       /\ cnt' = [s.cnt EXCEPT !.global = IF s.cnt.last > @ THEN s.cnt.last ELSE @]

\* The process comes up again over the same disk.
StartPlog ==
    /\ UNCHANGED disk
    /\ IF "fresh" \in trouble THEN cache' = EmptyMap /\ cnt' = FreshCounters
       ELSE LoadAllFromDisk

PlogInit ==
    /\ trouble \in Troubles
    /\ cache = EmptyMap
    /\ disk = [e \in Entry |-> None]
    /\ cnt = IF "fresh" \in trouble THEN FreshCounters ELSE ClearedCounters(0)

-----------------------------------------------------------------------------
\* CreateEntry reads the disk only for an entry above all that were in use.
AboveInUse(e) == cnt.inUse = Ones \/ e > cnt.inUse

\* GetEntryAndCreateIfNotExist: what the caller finds in the entry.
Fetch(e) ==
    IF Exists(cache, e) THEN cache.kv[e].val
    ELSE IF AboveInUse(e) /\ disk[e] # None THEN UnserializeFrom(disk[e])
    ELSE EmptyEntry

\* max_in_used_entry_ once entry e has been asked for.
InUse(e) == IF ~Exists(cache, e) /\ AboveInUse(e) THEN e ELSE cnt.inUse

\* The entry is first in the cache now, and holds x when the caller is done;
\* an object that is in the cache is changed in place.
Keep(e, x) == cache' = Put(cache, e, x, CacheSize)

\* SaveEntry.
Save(e, x) == disk' = [disk EXCEPT ![e] = SerializeTo(x)]

\* SetGlobalMaxChosenEntry, and the comparison that SetChosen makes twice.
Raised(max, e) == IF max = Ones \/ max < e THEN e ELSE max

\* GetNextEntry(create): with create the entry is there afterwards.
GetNextEntry ==
    LET e == IF cnt.last = Ones THEN 0 ELSE cnt.last + 1 IN
    /\ e \in Entry
    /\ Keep(e, Fetch(e))
    /\ cnt' = [cnt EXCEPT !.inUse = InUse(e)]
    /\ UNCHANGED disk

\* IsLocalChosenLagBehind, after its early return for an unused plog ...
LagAsked == ~(cnt.inUse = Ones /\ cnt.last = Ones)
\* ... and its answer.
IsLocalChosenLagBehind == LagAsked /\ cnt.last < cnt.global

=============================================================================
