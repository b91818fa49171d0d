--------------------------- MODULE LockFreeQueue ---------------------------
(***************************************************************************)
(* The ring of util/queue.h.  A thread inside Enqueue or Dequeue (both     *)
(* called with block = false) is its registers: the program counter, the   *)
(* copies of head and tail it has read, and the item it carries.  Every    *)
(* access to a shared word is a step of its own, except that filling or    *)
(* emptying a slot and setting its flag are one: between them the flag     *)
(* keeps all others away from the slot.                                    *)
(***************************************************************************)
EXTENDS Integers

CONSTANTS
    Thread,   \* whoever calls the queue
    Item,     \* what is queued
    NoItem,   \* no item
    Size,     \* head_->size
    Word      \* 2^64: head and tail are uint64_t

VARIABLES
    head, tail,   \* the positions to be claimed next by Enqueue and by Dequeue
    slot,         \* the entries behind the header
    reg           \* the registers of each thread

queueVars == <<head, tail, slot, reg>>

\* The registers of a thread at pc that carries item and has no copies.
At(pc, item) == [pc |-> pc, h |-> 0, t |-> 0, item |-> item]

\* Init(size): every word is zero.
QueueInit ==
    /\ head = 0 /\ tail = 0
    /\ slot = [i \in 0 .. Size - 1 |-> [flag |-> "NULL", data |-> NoItem]]

-----------------------------------------------------------------------------
\* Enqueue reads head and, later, tail.
EnqReadHead(x) ==
    /\ reg[x].pc = "enqHead"
    /\ reg' = [reg EXCEPT ![x].pc = "enqTail", ![x].h = head]
    /\ UNCHANGED <<head, tail, slot>>

EnqReadTail(x) ==
    /\ reg[x].pc = "enqTail"
    /\ reg' = [reg EXCEPT ![x].pc = "enqClaim", ![x].t = tail]
    /\ UNCHANGED <<head, tail, slot>>

\* Mutation: one position more than there are slots.
MutHasRoom(x) == Size >= reg[x].h - reg[x].t

HasRoom(x) == Size > reg[x].h - reg[x].t

\* Mutation: head is moved without comparing it with the copy.
MutClaimBlind(x) ==
    /\ reg[x].pc = "enqClaim"
    /\ reg[x].h >= reg[x].t /\ HasRoom(x)
    /\ head' = (reg[x].h + 1) % Word
    /\ reg' = [reg EXCEPT ![x].pc = "enqTake", ![x].t = 0]
    /\ UNCHANGED <<tail, slot>>

\* The compare-and-swap on head succeeds: the position is claimed.
EnqClaim(x) ==
    /\ reg[x].pc = "enqClaim"
    /\ reg[x].h >= reg[x].t /\ HasRoom(x)
    /\ head = reg[x].h
    /\ head' = (head + 1) % Word
    /\ reg' = [reg EXCEPT ![x].pc = "enqTake", ![x].t = 0]
    /\ UNCHANGED <<tail, slot>>

\* It fails: another thread has moved head; read again.
EnqRetry(x) ==
    /\ reg[x].pc = "enqClaim"
    /\ reg[x].h >= reg[x].t /\ HasRoom(x)
    /\ head # reg[x].h
    /\ reg' = [reg EXCEPT ![x] = At("enqHead", @.item)]
    /\ UNCHANGED <<head, tail, slot>>

\* RT_FULL.
EnqFull(x) ==
    /\ reg[x].pc = "enqClaim"
    /\ reg[x].h >= reg[x].t /\ ~HasRoom(x)
    /\ reg' = [reg EXCEPT ![x] = At("enqFull", @.item)]
    /\ UNCHANGED <<head, tail, slot>>

\* The copies are out of order.  The code takes head to have overflowed and,
\* if its compare-and-swap succeeds, moves head and tail (for which it spins)
\* back to the start of the ring; then it tries again.
EnqRepair(x) ==
    /\ reg[x].pc = "enqClaim"
    /\ reg[x].h < reg[x].t
    /\ head' = IF head = reg[x].h
               THEN (reg[x].h - reg[x].t + (reg[x].t % Size)) % Word
               ELSE head
    /\ tail' = IF head = reg[x].h THEN reg[x].t % Size ELSE tail
    /\ reg' = [reg EXCEPT ![x] = At("enqHead", @.item)]
    /\ UNCHANGED slot

\* The slot of a claimed position may still be in use; wait for it.
EnqTake(x) ==
    LET pos == reg[x].h % Size IN
    /\ reg[x].pc = "enqTake"
    /\ slot[pos].flag = "NULL"
    /\ slot' = [slot EXCEPT ![pos].flag = "SETTOOK"]
    /\ reg' = [reg EXCEPT ![x].pc = "enqFill"]
    /\ UNCHANGED <<head, tail>>

EnqFill(x) ==
    LET pos == reg[x].h % Size IN
    /\ reg[x].pc = "enqFill"
    /\ slot' = [slot EXCEPT ![pos] = [flag |-> "SETED", data |-> reg[x].item]]
    /\ reg' = [reg EXCEPT ![x] = At("enqOk", NoItem)]
    /\ UNCHANGED <<head, tail>>

\* The steps of Enqueue but the claim of a position.
EnqueueStep(x) ==
    \/ EnqReadHead(x) \/ EnqReadTail(x) \/ EnqRetry(x) \/ EnqFull(x)
    \/ EnqRepair(x) \/ EnqTake(x) \/ EnqFill(x)

-----------------------------------------------------------------------------
DeqReadHead(x) ==
    /\ reg[x].pc = "deqHead"
    /\ reg' = [reg EXCEPT ![x].pc = "deqTail", ![x].h = head]
    /\ UNCHANGED <<head, tail, slot>>

DeqReadTail(x) ==
    /\ reg[x].pc = "deqTail"
    /\ reg' = [reg EXCEPT ![x].pc = "deqClaim", ![x].t = tail]
    /\ UNCHANGED <<head, tail, slot>>

\* The compare-and-swap on tail; another consumer may have been faster.
DeqClaim(x) ==
    /\ reg[x].pc = "deqClaim"
    /\ reg[x].t < reg[x].h
    /\ IF tail = reg[x].t
       THEN /\ tail' = (tail + 1) % Word
            /\ reg' = [reg EXCEPT ![x].pc = "deqTake", ![x].h = 0]
       ELSE /\ reg' = [reg EXCEPT ![x] = At("deqHead", NoItem)]
            /\ UNCHANGED tail
    /\ UNCHANGED <<head, slot>>

\* Mutation: the last item is left in the ring.
MutDeqEmpty(x) ==
    /\ reg[x].pc = "deqClaim"
    /\ reg[x].t + 1 >= reg[x].h
    /\ reg' = [reg EXCEPT ![x] = At("deqEmpty", NoItem)]
    /\ UNCHANGED <<head, tail, slot>>

\* Mutation: Dequeue blocks, whatever its caller asks for.
MutDeqBlocks(x) ==
    /\ reg[x].pc = "deqClaim"
    /\ reg[x].t >= reg[x].h
    /\ reg' = [reg EXCEPT ![x] = At("deqHead", NoItem)]
    /\ UNCHANGED <<head, tail, slot>>

\* RT_EMPTY.
DeqEmpty(x) ==
    /\ reg[x].pc = "deqClaim"
    /\ reg[x].t >= reg[x].h
    /\ reg' = [reg EXCEPT ![x] = At("deqEmpty", NoItem)]
    /\ UNCHANGED <<head, tail, slot>>

\* The slot of a claimed position may not be filled yet; wait for it.  The
\* item is moved out and the slot is free.
DeqTake(x) ==
    LET pos == reg[x].t % Size IN
    /\ reg[x].pc = "deqTake"
    /\ slot[pos].flag = "SETED"
    /\ reg' = [reg EXCEPT ![x] = At("deqOk", slot[pos].data)]
    /\ slot' = [slot EXCEPT ![pos] = [flag |-> "NULL", data |-> NoItem]]
    /\ UNCHANGED <<head, tail>>

DequeueStep(x) ==
    DeqReadHead(x) \/ DeqReadTail(x) \/ DeqClaim(x) \/ DeqEmpty(x) \/ DeqTake(x)

=============================================================================
