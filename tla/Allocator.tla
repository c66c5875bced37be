----------------------------- MODULE Allocator -----------------------------
(***************************************************************************)
(* The global allocator: two pools of fixed-size blocks in one heap, a     *)
(* bitmap for each, first fit, everything under one spin lock.             *)
(*                                                                         *)
(* The search for free blocks is modelled bit by bit, one step per         *)
(* iteration of the loop; marking and clearing bits is one step each.      *)
(***************************************************************************)
EXTENDS Integers

CONSTANTS Procs,       \* the processors that allocate
          Nobody,      \* the lock's value when it is free
          Number4096,  \* NUMBER_OF_BLOCK_4096
          Number128,   \* NUMBER_OF_BLOCK_128
          Sizes        \* layout sizes requested

ASSUME NobodyAssumption == Nobody \notin Procs
ASSUME NumberAssumption == Number4096 \in Nat /\ Number128 \in Nat
ASSUME SizeAssumption == Sizes \subseteq Nat \ {0}

Pools == {"block4096", "block128"}
BlockSize(pool) == IF pool = "block4096" THEN 4096 ELSE 128
Number(pool) == IF pool = "block4096" THEN Number4096 ELSE Number128

(* Blocks: the 128-byte blocks follow the 4096-byte ones in the heap.      *)
Base(pool) == IF pool = "block4096" THEN 0 ELSE 4096 * Number4096
HeapSize == 4096 * Number4096 + 128 * Number128

VARIABLES
    lock,     \* who holds METADATA's lock
    bitmap,   \* the used blocks of each pool
    pc,       \* where each processor is in alloc()
    size,     \* layout.size() of its call
    index,    \* the loop of find_empty_blocks(): the next bit,
    start,    \*   the first block of the current run of free ones,
    empty,    \*   and the run's length
    live      \* what the callers own: the pointers they got and their layouts

vars == <<lock, bitmap, pc, size, index, start, empty, live>>

-----------------------------------------------------------------------------
PoolOf(n) == IF n >= 4096 THEN "block4096" ELSE "block128"

round_down_by(number, unit) == number \div unit

round_up_by(number, unit) ==
    number \div unit + IF number % unit # 0 THEN 1 ELSE 0

(* The number of blocks of a request, and the blocks it occupies.          *)
Count(n) == round_up_by(n, BlockSize(PoolOf(n)))
Span(s, n) == s .. (s + Count(n) - 1)

Address(pool, s) == Base(pool) + s * BlockSize(pool)

(* dealloc_internal() finds the first block from the pointer.              *)
StartOf(a) == (a.ptr - Base(PoolOf(a.size))) \div BlockSize(PoolOf(a.size))
BlocksOf(a) == Span(StartOf(a), a.size)

TypeOK ==
    /\ lock \in Procs \cup {Nobody}
    /\ bitmap \in [Pools -> SUBSET Nat]
    /\ \A pool \in Pools : bitmap[pool] \subseteq 0 .. (Number(pool) - 1)
    /\ pc \in [Procs -> {"idle", "scan", "mark", "null", "panic"}]
    /\ size \in [Procs -> Nat]
    /\ index \in [Procs -> Nat]
    /\ start \in [Procs -> Nat]
    /\ empty \in [Procs -> Nat]
    /\ live \subseteq [ptr : Nat, size : Sizes]

Init ==
    /\ lock = Nobody
    /\ bitmap = [pool \in Pools |-> {}]
    /\ pc = [p \in Procs |-> "idle"]
    /\ size = [p \in Procs |-> 0]
    /\ index = [p \in Procs |-> 0]
    /\ start = [p \in Procs |-> 0]
    /\ empty = [p \in Procs |-> 0]
    /\ live = {}

-----------------------------------------------------------------------------
(* METADATA.lock() returns.                                                *)
Acquire(p) == lock = Nobody /\ lock' = p

(* The call returns: the guard is dropped, its locals are dead.            *)
Return(p) ==
    /\ lock' = Nobody
    /\ pc' = [pc EXCEPT ![p] = "idle"]
    /\ size' = [size EXCEPT ![p] = 0]
    /\ index' = [index EXCEPT ![p] = 0]
    /\ start' = [start EXCEPT ![p] = 0]
    /\ empty' = [empty EXCEPT ![p] = 0]

alloc(p, n) ==
    /\ pc[p] = "idle"
    /\ Acquire(p)
    /\ pc' = [pc EXCEPT ![p] = "scan"]
    /\ size' = [size EXCEPT ![p] = n]
    /\ UNCHANGED <<bitmap, index, start, empty, live>>

ScanForgettingStart(p) ==
    LET used == index[p] \in bitmap[PoolOf(size[p])]
        run == IF used THEN 0 ELSE empty[p] + 1
    IN  /\ pc[p] = "scan"
        /\ index[p] < Number(PoolOf(size[p]))
        /\ start' = [start EXCEPT ![p] = IF used THEN index[p] ELSE @]
        /\ empty' = [empty EXCEPT ![p] = run]
        /\ index' = [index EXCEPT ![p] = @ + 1]
        /\ pc' = [pc EXCEPT ![p] = IF run = Count(size[p]) THEN "mark" ELSE "scan"]
        /\ UNCHANGED <<lock, bitmap, size, live>>

ScanPastTheEnd(p) ==
    LET used == index[p] \in bitmap[PoolOf(size[p])]
        run == IF used THEN 0 ELSE empty[p] + 1
    IN  /\ pc[p] = "scan"
        /\ index[p] <= Number(PoolOf(size[p]))
        /\ start' = [start EXCEPT ![p] = IF ~used /\ empty[p] = 0 THEN index[p] ELSE @]
        /\ empty' = [empty EXCEPT ![p] = run]
        /\ index' = [index EXCEPT ![p] = @ + 1]
        /\ pc' = [pc EXCEPT ![p] = IF run = Count(size[p]) THEN "mark" ELSE "scan"]
        /\ UNCHANGED <<lock, bitmap, size, live>>

(* One iteration of find_empty_blocks(): a used bit ends the run, a free   *)
(* one extends or opens it, and the run may now be long enough.            *)
Scan(p) ==
    LET used == index[p] \in bitmap[PoolOf(size[p])]
        run == IF used THEN 0 ELSE empty[p] + 1
    IN  /\ pc[p] = "scan"
        /\ index[p] < Number(PoolOf(size[p]))
        /\ start' = [start EXCEPT ![p] = IF ~used /\ empty[p] = 0 THEN index[p] ELSE @]
        /\ empty' = [empty EXCEPT ![p] = run]
        /\ index' = [index EXCEPT ![p] = @ + 1]
        /\ pc' = [pc EXCEPT ![p] = IF run = Count(size[p]) THEN "mark" ELSE "scan"]
        /\ UNCHANGED <<lock, bitmap, size, live>>

ScanEndsEarly(p) ==
    /\ pc[p] = "scan"
    /\ index[p] + 1 >= Number(PoolOf(size[p]))
    /\ pc' = [pc EXCEPT ![p] = "null"]
    /\ UNCHANGED <<lock, bitmap, size, index, start, empty, live>>

(* The bitmap ends without a run: None.                                    *)
ScanEnds(p) ==
    /\ pc[p] = "scan"
    /\ index[p] >= Number(PoolOf(size[p]))
    /\ pc' = [pc EXCEPT ![p] = "null"]
    /\ UNCHANGED <<lock, bitmap, size, index, start, empty, live>>

ReturnNullLocked(p) ==
    /\ pc[p] = "null"
    /\ pc' = [pc EXCEPT ![p] = "idle"]
    /\ UNCHANGED <<lock, bitmap, size, index, start, empty, live>>

ReturnNull(p) ==
    /\ pc[p] = "null"
    /\ Return(p)
    /\ UNCHANGED <<bitmap, live>>

(* The rest of alloc_internal(): every block found must be free.           *)
MarkInUse(p) ==
    LET pool == PoolOf(size[p])
        blocks == Span(start[p], size[p])
    IN  /\ pc[p] = "mark"
        /\ IF blocks \cap bitmap[pool] = {}
             THEN /\ bitmap' = [bitmap EXCEPT ![pool] = @ \cup blocks]
                  /\ live' = live \cup {[ptr |-> Address(pool, start[p]), size |-> size[p]]}
                  /\ Return(p)
             ELSE /\ pc' = [pc EXCEPT ![p] = "panic"]
                  /\ UNCHANGED <<lock, bitmap, size, index, start, empty, live>>

deallocOneBlock(p, a) ==
    /\ pc[p] = "idle"
    /\ lock = Nobody
    /\ bitmap' = [bitmap EXCEPT ![PoolOf(a.size)] = @ \ {StartOf(a)}]
    /\ live' = live \ {a}
    /\ UNCHANGED <<lock, pc, size, index, start, empty>>

(* The owner gives a pointer back, with the layout it asked for.  Every    *)
(* block of it must be in use.                                             *)
dealloc(p, a) ==
    LET pool == PoolOf(a.size)
    IN  /\ pc[p] = "idle"
        /\ lock = Nobody
        /\ IF BlocksOf(a) \subseteq bitmap[pool]
             THEN /\ bitmap' = [bitmap EXCEPT ![pool] = @ \ BlocksOf(a)]
                  /\ live' = live \ {a}
                  /\ UNCHANGED <<lock, pc>>
             ELSE /\ lock' = p
                  /\ pc' = [pc EXCEPT ![p] = "panic"]
                  /\ UNCHANGED <<bitmap, live>>
        /\ UNCHANGED <<size, index, start, empty>>

-----------------------------------------------------------------------------
Step(p) == Scan(p) \/ ScanEnds(p) \/ ReturnNull(p) \/ MarkInUse(p)

Next ==
    \E p \in Procs :
        \/ \E n \in Sizes : alloc(p, n)
        \/ Step(p)
        \/ \E a \in live : dealloc(p, a)

Spec == Init /\ [][Next]_vars

(* A processor that holds the lock keeps executing.                        *)
FairSpec == Spec /\ \A p \in Procs : WF_vars(Step(p))

-----------------------------------------------------------------------------
(* No two allocations in use share a byte, and all of them lie in the      *)
(* heap: no caller's memory is another's, across both pools.               *)
NoByteShared ==
    /\ \A a \in live : a.ptr + a.size <= HeapSize
    /\ \A a, b \in live :
          a # b => a.ptr + a.size <= b.ptr \/ b.ptr + b.size <= a.ptr

(* The bitmaps mark the blocks of the allocations in use and no others:    *)
(* nothing is leaked by a failed or a completed call, and nothing in use   *)
(* looks free.                                                             *)
BitmapIsExact ==
    \A pool \in Pools :
        bitmap[pool] = UNION {BlocksOf(a) : a \in {b \in live : PoolOf(b.size) = pool}}

(* The assertions of alloc_internal() and dealloc_internal() hold.         *)
NoAssertionFails == \A p \in Procs : pc[p] # "panic"

Free(pool, s, n) ==
    s + Count(n) <= Number(pool) /\ Span(s, n) \cap bitmap[pool] = {}

(* find_empty_blocks() finds the lowest run of free blocks that is long    *)
(* enough, and reports None only if there is none.                         *)
FindsFirstFit ==
    \A p \in Procs :
        LET pool == PoolOf(size[p])
        IN  /\ pc[p] = "mark" => Free(pool, start[p], size[p])
            /\ pc[p] = "mark" => \A s \in 0 .. (start[p] - 1) : ~Free(pool, s, size[p])
            /\ pc[p] = "null" => \A s \in 0 .. Number(pool) : ~Free(pool, s, size[p])

(* The lock is always released: no call keeps it, whatever it returns.     *)
LockIsReleased == lock # Nobody ~> lock = Nobody
=============================================================================
