------------------------- MODULE FixCountAllocator -------------------------
(***************************************************************************)
(* The pools of util/fix_count_allocator.hpp.  A shard is a sequence of    *)
(* idle objects: FixCountVector takes the newest one out,                  *)
(* FixCountLockFreeQueue the oldest.  An object is a number, and a new one *)
(* is the smallest number that is not in use.                              *)
(***************************************************************************)
EXTENDS Integers, SequencesExt, FiniteSetsExt

Fresh(used) == Min((1 .. Cardinality(used) + 1) \ used)

\* AllocByShard: an idle object, or a new one.
AllocLast(pool, used) ==
    IF pool = <<>> THEN [obj |-> Fresh(used), pool |-> pool]
                   ELSE [obj |-> Last(pool), pool |-> Front(pool)]

AllocFirst(pool, used) ==
    IF pool = <<>> THEN [obj |-> Fresh(used), pool |-> pool]
                   ELSE [obj |-> Head(pool), pool |-> Tail(pool)]

\* ReleaseByShard: a full pool destroys the object.
Release(pool, obj, capacity) ==
    IF Len(pool) >= capacity THEN pool ELSE Append(pool, obj)

\* Objects released one after the other: as many as there is room for.
ReleaseAll(pool, objs, capacity) ==
    IF Len(pool) + Len(objs) <= capacity THEN pool \o objs
    ELSE pool \o SubSeq(objs, 1, capacity - Len(pool))

=============================================================================
