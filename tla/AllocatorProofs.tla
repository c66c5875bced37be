-------------------------- MODULE AllocatorProofs --------------------------
(***************************************************************************)
(* Proofs about module Allocator, for any number of processors and blocks  *)
(* and any layout sizes.                                                   *)
(***************************************************************************)
EXTENDS Allocator, TLAPS

-----------------------------------------------------------------------------
(* Arithmetic of blocks and addresses.                                     *)

LEMMA Division ==
    ASSUME NEW n \in Nat, NEW unit \in {128, 4096}
    PROVE  /\ n \div unit \in Nat
           /\ n <= unit * (n \div unit + 1)
           /\ n % unit = 0 => n = unit * (n \div unit)
           /\ n >= unit => n \div unit > 0
<1>1. CASE unit = 128
  <2>1. n \div 128 \in Nat /\ n <= 128 * (n \div 128 + 1)
    OBVIOUS
  <2>2. n % 128 = 0 => n = 128 * (n \div 128)
    OBVIOUS
  <2>3. n >= 128 => n \div 128 > 0
    OBVIOUS
  <2> QED
    BY <1>1, <2>1, <2>2, <2>3
<1>2. CASE unit = 4096
  <2>1. n \div 4096 \in Nat /\ n <= 4096 * (n \div 4096 + 1)
    OBVIOUS
  <2>2. n % 4096 = 0 => n = 4096 * (n \div 4096)
    OBVIOUS
  <2>3. n >= 4096 => n \div 4096 > 0
    OBVIOUS
  <2> QED
    BY <1>2, <2>1, <2>2, <2>3
<1> QED
  BY <1>1, <1>2

LEMMA RoundUp ==
    ASSUME NEW n \in Nat, n > 0
    PROVE  /\ Count(n) \in Nat
           /\ Count(n) > 0
           /\ n <= Count(n) * BlockSize(PoolOf(n))
<1>1. CASE n >= 4096
  BY <1>1, Division DEF Count, round_up_by, BlockSize, PoolOf
<1>2. CASE ~(n >= 4096)
  BY <1>2, Division DEF Count, round_up_by, BlockSize, PoolOf
<1> QED
  BY <1>1, <1>2

LEMMA StartOfAddress ==
    ASSUME NEW n \in Nat, NEW s \in Nat, NEW a,
           a = [ptr |-> Address(PoolOf(n), s), size |-> n]
    PROVE  /\ StartOf(a) = s
           /\ Address(PoolOf(n), s) \in Nat
<1>1. (s * 4096) \div 4096 = s /\ (s * 128) \div 128 = s
  OBVIOUS
<1>2. 4096 * Number4096 \in Nat
  BY NumberAssumption
<1>3. CASE n >= 4096
  BY <1>1, <1>2, <1>3 DEF StartOf, Address, PoolOf, Base, BlockSize
<1>4. CASE ~(n >= 4096)
  BY <1>1, <1>2, <1>4 DEF StartOf, Address, PoolOf, Base, BlockSize
<1> QED
  BY <1>3, <1>4

-----------------------------------------------------------------------------
(* The inductive invariant.                                                *)

(* Only the holder of the lock is inside a call, and its locals are those  *)
(* of a request.                                                           *)
LockInv ==
    \A p \in Procs :
        /\ pc[p] # "idle" => lock = p
        /\ pc[p] = "idle" => index[p] = 0 /\ start[p] = 0 /\ empty[p] = 0
        /\ pc[p] \in {"scan", "mark", "null"} => size[p] \in Sizes

(* No complete run of free blocks ends before block i.                     *)
NoRunBefore(pool, n, i) ==
    \A s \in Nat : s + Count(n) <= i => \E j \in Span(s, n) : j \in bitmap[pool]

(* The loop invariant of find_empty_blocks().                              *)
ScanInv ==
    \A p \in Procs :
        pc[p] = "scan" =>
          LET pool == PoolOf(size[p])
          IN  /\ index[p] <= Number(pool)
              /\ empty[p] < Count(size[p])
              /\ empty[p] <= index[p]
              /\ empty[p] > 0 => start[p] + empty[p] = index[p]
              /\ \A j \in Nat : index[p] - empty[p] <= j /\ j < index[p] => j \notin bitmap[pool]
              /\ empty[p] < index[p] => index[p] - empty[p] - 1 \in bitmap[pool]
              /\ NoRunBefore(pool, size[p], index[p])

(* What the callers own is in the bitmap, and only that.                   *)
LiveInv ==
    /\ \A a \in live :
          /\ StartOf(a) \in Nat
          /\ a.ptr = Address(PoolOf(a.size), StartOf(a))
          /\ StartOf(a) + Count(a.size) <= Number(PoolOf(a.size))
          /\ BlocksOf(a) \subseteq bitmap[PoolOf(a.size)]
    /\ \A a, b \in live :
          a # b /\ PoolOf(a.size) = PoolOf(b.size) => BlocksOf(a) \cap BlocksOf(b) = {}
    /\ \A pool \in Pools : \A i \in bitmap[pool] :
          \E a \in live : PoolOf(a.size) = pool /\ i \in BlocksOf(a)

Inv ==
    /\ TypeOK
    /\ LockInv
    /\ ScanInv
    /\ FindsFirstFit
    /\ LiveInv
    /\ NoAssertionFails

LEMMA PoolFacts ==
    /\ \A n \in Nat : PoolOf(n) \in Pools
    /\ \A pool \in Pools : Number(pool) \in Nat
BY NumberAssumption DEF PoolOf, Pools, Number

LEMMA CountFacts ==
    /\ \A n \in Sizes : n \in Nat /\ Count(n) \in Nat /\ Count(n) > 0
    /\ \A n \in Sizes : PoolOf(n) \in Pools
BY RoundUp, SizeAssumption, PoolFacts

LEMMA InitInv == Init => Inv
BY NumberAssumption, NobodyAssumption
DEF Init, Inv, TypeOK, LockInv, ScanInv, FindsFirstFit, LiveInv, NoAssertionFails, Pools

LEMMA AllocInv ==
    ASSUME Inv, NEW p \in Procs, NEW n \in Sizes, alloc(p, n)
    PROVE  Inv'
<1> USE NobodyAssumption, CountFacts, PoolFacts DEF Inv
<1>1. TypeOK'
  BY DEF TypeOK, alloc, Acquire
<1>2. LockInv'
  BY DEF TypeOK, LockInv, alloc, Acquire
<1>3. \A q \in Procs : q # p => pc[q] = "idle" /\ pc'[q] = "idle"
  BY DEF TypeOK, LockInv, alloc, Acquire
<1>4. pc'[p] = "scan" /\ size'[p] = n /\ index'[p] = 0 /\ empty'[p] = 0
  BY DEF TypeOK, LockInv, alloc
<1>5. ScanInv'
  <2>1. NoRunBefore(PoolOf(n), n, 0)'
    BY DEF NoRunBefore
  <2> QED
    BY <1>3, <1>4, <2>1 DEF ScanInv
<1>6. FindsFirstFit' /\ NoAssertionFails'
  BY <1>3, <1>4 DEF FindsFirstFit, NoAssertionFails
<1>7. LiveInv'
  BY DEF LiveInv, alloc
<1> QED
  BY <1>1, <1>2, <1>5, <1>6, <1>7

LEMMA ScanStepInv ==
    ASSUME Inv, NEW p \in Procs, Scan(p)
    PROVE  Inv'
<1> USE NobodyAssumption, CountFacts, PoolFacts DEF Inv
<1> DEFINE n == size[p]
           pool == PoolOf(n)
           i == index[p]
           used == i \in bitmap[pool]
           run == IF used THEN 0 ELSE empty[p] + 1
<1>1. TypeOK'
  BY DEF TypeOK, Scan
<1>2. pc[p] = "scan" /\ n \in Sizes /\ i < Number(pool) /\ i \in Nat /\ empty[p] \in Nat
  BY DEF TypeOK, LockInv, Scan
<1>3. \A q \in Procs : q # p => pc[q] = "idle" /\ pc'[q] = "idle"
  BY <1>2 DEF TypeOK, LockInv, Scan
<1>4. /\ pc'[p] = IF run = Count(n) THEN "mark" ELSE "scan"
      /\ size' = size /\ bitmap' = bitmap /\ live' = live /\ lock' = lock
      /\ index'[p] = i + 1
      /\ empty'[p] = run
      /\ start'[p] = IF ~used /\ empty[p] = 0 THEN i ELSE start[p]
  BY DEF TypeOK, Scan
<1>5. LockInv'
  BY <1>2, <1>3, <1>4 DEF TypeOK, LockInv, Scan
<1>6. /\ empty[p] < Count(n)
      /\ empty[p] <= i
      /\ empty[p] > 0 => start[p] + empty[p] = i
      /\ \A j \in Nat : i - empty[p] <= j /\ j < i => j \notin bitmap[pool]
      /\ empty[p] < i => i - empty[p] - 1 \in bitmap[pool]
      /\ NoRunBefore(pool, n, i)
  BY <1>2 DEF ScanInv
<1>7. run <= Count(n) /\ run <= i + 1 /\ run \in Nat
  BY <1>2, <1>6
<1>8. run > 0 => start'[p] + run = i + 1
  BY <1>2, <1>4, <1>6 DEF TypeOK
<1>9. \A j \in Nat : (i + 1) - run <= j /\ j < i + 1 => j \notin bitmap[pool]
  BY <1>2, <1>6
<1>10. run < i + 1 => i - run \in bitmap[pool]
  BY <1>2, <1>6
<1>11. CASE run = Count(n)
  <2>1. start'[p] + Count(n) = i + 1 /\ start'[p] \in Nat
    BY <1>1, <1>2, <1>8, <1>11 DEF TypeOK
  <2>2. Free(pool, start'[p], n)
    BY <2>1, <1>2, <1>9, <1>11 DEF Free, Span
  <2>3. ASSUME NEW s \in 0 .. (start'[p] - 1)
        PROVE  ~Free(pool, s, n)
    <3>1. s \in Nat /\ s + Count(n) <= i
      BY <2>1, <1>2
    <3>2. \E j \in Span(s, n) : j \in bitmap[pool]
      BY <3>1, <1>6 DEF NoRunBefore
    <3> QED
      BY <3>2 DEF Free
  <2>4. pc'[p] = "mark" /\ (Free(pool, start[p], n))' = Free(pool, start'[p], n)
    BY <1>4, <1>11 DEF Free
  <2>5. \A s : (Free(pool, s, n))' = Free(pool, s, n)
    BY <1>4 DEF Free
  <2>6. FindsFirstFit'
    BY <1>3, <1>4, <2>2, <2>3, <2>4, <2>5 DEF FindsFirstFit, Free
  <2>7. ScanInv' /\ NoAssertionFails'
    BY <1>3, <2>4 DEF ScanInv, NoAssertionFails
  <2>8. LiveInv'
    BY <1>4 DEF LiveInv
  <2> QED
    BY <1>1, <1>5, <2>6, <2>7, <2>8
<1>12. CASE run # Count(n)
  <2>1. pc'[p] = "scan"
    BY <1>4, <1>12
  <2>2. NoRunBefore(pool, n, i + 1)
    <3> SUFFICES ASSUME NEW s \in Nat, s + Count(n) <= i + 1
                 PROVE  \E j \in Span(s, n) : j \in bitmap[pool]
      BY DEF NoRunBefore
    <3>1. CASE s + Count(n) <= i
      BY <3>1, <1>6 DEF NoRunBefore
    <3>2. CASE s + Count(n) = i + 1
      <4>1. i - run \in bitmap[pool]
        BY <1>2, <1>7, <1>10, <1>12, <3>2
      <4>2. i - run \in Span(s, n)
        BY <1>2, <1>7, <1>12, <3>2 DEF Span
      <4> QED
        BY <4>1, <4>2
    <3> QED
      BY <3>1, <3>2, <1>2
  <2>3. (NoRunBefore(pool, n, index[p]))'
    BY <2>2, <1>4 DEF NoRunBefore
  <2>4. ScanInv'
    <3> HIDE DEF run, used
    <3>1. /\ index'[p] <= Number(pool)
          /\ empty'[p] < Count(n)
          /\ empty'[p] <= index'[p]
          /\ empty'[p] > 0 => start'[p] + empty'[p] = index'[p]
      BY <1>2, <1>4, <1>7, <1>8, <1>12
    <3>2. ASSUME NEW j \in Nat, index'[p] - empty'[p] <= j, j < index'[p]
          PROVE  j \notin bitmap'[pool]
      <4>1. (i + 1) - run <= j /\ j < i + 1
        BY <1>4, <3>2
      <4> QED
        BY <4>1, <1>4, <1>9
    <3>3. empty'[p] < index'[p] => index'[p] - empty'[p] - 1 \in bitmap'[pool]
      <4>1. (i + 1) - run - 1 = i - run
        BY <1>2, <1>7
      <4> QED
        BY <4>1, <1>4, <1>10
    <3> QED
      BY <1>3, <1>4, <2>3, <3>1, <3>2, <3>3 DEF ScanInv
  <2>5. FindsFirstFit' /\ NoAssertionFails'
    BY <1>3, <2>1 DEF FindsFirstFit, NoAssertionFails
  <2>6. LiveInv'
    BY <1>4 DEF LiveInv
  <2> QED
    BY <1>1, <1>5, <2>4, <2>5, <2>6
<1> QED
  BY <1>11, <1>12

LEMMA ScanEndsInv ==
    ASSUME Inv, NEW p \in Procs, ScanEnds(p)
    PROVE  Inv'
<1> USE NobodyAssumption, CountFacts, PoolFacts DEF Inv
<1> DEFINE n == size[p]
           pool == PoolOf(n)
<1>1. TypeOK' /\ LockInv' /\ LiveInv'
  BY DEF TypeOK, LockInv, LiveInv, ScanEnds
<1>2. \A q \in Procs : q # p => pc'[q] = "idle"
  BY DEF TypeOK, LockInv, ScanEnds
<1>3. pc'[p] = "null" /\ n \in Sizes /\ UNCHANGED <<bitmap, size>>
  BY DEF TypeOK, LockInv, ScanEnds
<1>4. ScanInv' /\ NoAssertionFails'
  BY <1>2, <1>3 DEF ScanInv, NoAssertionFails
<1>5. NoRunBefore(pool, n, index[p]) /\ index[p] = Number(pool)
  <2>1. pc[p] = "scan" /\ index[p] >= Number(pool) /\ index[p] \in Nat
    BY DEF ScanEnds, TypeOK
  <2>2. NoRunBefore(pool, n, index[p]) /\ index[p] <= Number(pool)
    BY <2>1 DEF ScanInv
  <2> QED
    BY <1>3, <2>1, <2>2
<1>6. ASSUME NEW s \in 0 .. Number(pool)
      PROVE  ~Free(pool, s, n)
  BY <1>3, <1>5 DEF NoRunBefore, Free
<1>7. FindsFirstFit'
  BY <1>2, <1>3, <1>6 DEF FindsFirstFit, Free
<1> QED
  BY <1>1, <1>4, <1>7

LEMMA ReturnNullInv ==
    ASSUME Inv, NEW p \in Procs, ReturnNull(p)
    PROVE  Inv'
<1> USE DEF Inv
<1>1. TypeOK' /\ LiveInv'
  BY DEF TypeOK, LiveInv, ReturnNull, Return
<1>2. \A q \in Procs : pc'[q] = "idle"
  BY DEF TypeOK, LockInv, ReturnNull, Return
<1>3. LockInv'
  BY <1>2 DEF TypeOK, LockInv, ReturnNull, Return
<1> QED
  BY <1>1, <1>2, <1>3 DEF ScanInv, FindsFirstFit, NoAssertionFails

(* The blocks found are free, so the new allocation is disjoint from every *)
(* other one.                                                              *)
LEMMA MarkInUseInv ==
    ASSUME Inv, NEW p \in Procs, MarkInUse(p)
    PROVE  Inv'
<1> USE NobodyAssumption, CountFacts, PoolFacts DEF Inv
<1> DEFINE n == size[p]
           pool == PoolOf(n)
           s == start[p]
           blocks == Span(s, n)
           a == [ptr |-> Address(pool, s), size |-> n]
<1>1. pc[p] = "mark" /\ n \in Sizes /\ s \in Nat
  BY DEF MarkInUse, TypeOK, LockInv
<1>2. Free(pool, s, n)
  BY <1>1 DEF FindsFirstFit
<1>3. s + Count(n) <= Number(pool) /\ blocks \cap bitmap[pool] = {}
  BY <1>2 DEF Free
<1>4. /\ bitmap' = [bitmap EXCEPT ![pool] = @ \cup blocks]
      /\ live' = live \cup {a}
      /\ Return(p)
  BY <1>3 DEF MarkInUse
<1>5. StartOf(a) = s /\ a.ptr = Address(pool, s) /\ a.size = n /\ a.ptr \in Nat
  BY <1>1, StartOfAddress
<1>6. blocks = BlocksOf(a) /\ blocks \subseteq 0 .. (Number(pool) - 1)
  <2>1. blocks = BlocksOf(a)
    BY <1>5 DEF BlocksOf
  <2>2. Count(n) \in Nat /\ Number(pool) \in Nat
    BY <1>1
  <2>3. blocks \subseteq 0 .. (Number(pool) - 1)
    BY <1>1, <1>3, <2>2 DEF Span
  <2> QED
    BY <2>1, <2>3
<1>7. TypeOK'
  <2>1. pool \in Pools /\ blocks \subseteq Nat
    BY <1>1, <1>6
  <2>2. bitmap' \in [Pools -> SUBSET Nat]
    BY <1>4, <2>1 DEF TypeOK
  <2>3. \A q \in Pools : bitmap'[q] \subseteq 0 .. (Number(q) - 1)
    BY <1>4, <1>6, <2>1 DEF TypeOK
  <2>4. live' \subseteq [ptr : Nat, size : Sizes]
    BY <1>1, <1>4, <1>5 DEF TypeOK
  <2> QED
    BY <1>4, <2>2, <2>3, <2>4 DEF TypeOK, Return
<1>8. \A q \in Procs : pc'[q] = "idle"
  BY <1>1, <1>4 DEF TypeOK, LockInv, Return
<1>9. LockInv' /\ ScanInv' /\ FindsFirstFit' /\ NoAssertionFails'
  BY <1>4, <1>8 DEF TypeOK, LockInv, Return, ScanInv, FindsFirstFit, NoAssertionFails
<1>10. LiveInv'
  <2>1. pool \in Pools /\ bitmap'[pool] = bitmap[pool] \cup blocks
        /\ \A q \in Pools : q # pool => bitmap'[q] = bitmap[q]
    BY <1>1, <1>4 DEF TypeOK
  <2>2. \A b \in live : PoolOf(b.size) \in Pools
    BY DEF TypeOK
  <2>3. \A b \in live : PoolOf(b.size) = pool => BlocksOf(b) \cap blocks = {}
    BY <1>3 DEF LiveInv
  <2>4. ASSUME NEW b \in live'
        PROVE  /\ StartOf(b) \in Nat
               /\ b.ptr = Address(PoolOf(b.size), StartOf(b))
               /\ StartOf(b) + Count(b.size) <= Number(PoolOf(b.size))
               /\ BlocksOf(b) \subseteq bitmap'[PoolOf(b.size)]
    <3>1. CASE b \in live
      BY <2>1, <2>2, <3>1 DEF LiveInv
    <3>2. CASE b = a
      BY <1>1, <1>3, <1>5, <1>6, <2>1, <3>2
    <3> QED
      BY <1>4, <3>1, <3>2
  <2>5. ASSUME NEW b \in live', NEW c \in live', b # c, PoolOf(b.size) = PoolOf(c.size)
        PROVE  BlocksOf(b) \cap BlocksOf(c) = {}
    <3>1. CASE b \in live /\ c \in live
      BY <2>5, <3>1 DEF LiveInv
    <3>2. CASE b = a /\ c \in live
      BY <1>5, <1>6, <2>3, <2>5, <3>2
    <3>3. CASE b \in live /\ c = a
      BY <1>5, <1>6, <2>3, <2>5, <3>3
    <3> QED
      BY <1>4, <2>5, <3>1, <3>2, <3>3
  <2>6. ASSUME NEW q \in Pools, NEW i \in bitmap'[q]
        PROVE  \E b \in live' : PoolOf(b.size) = q /\ i \in BlocksOf(b)
    <3>1. CASE i \in bitmap[q]
      BY <1>4, <3>1 DEF LiveInv
    <3>2. CASE q = pool /\ i \in blocks
      BY <1>4, <1>5, <1>6, <3>2
    <3> QED
      BY <2>1, <2>6, <3>1, <3>2
  <2> QED
    BY <2>4, <2>5, <2>6 DEF LiveInv
<1> QED
  BY <1>7, <1>9, <1>10

LEMMA DeallocInv ==
    ASSUME Inv, NEW p \in Procs, NEW a \in live, dealloc(p, a)
    PROVE  Inv'
<1> USE NobodyAssumption, CountFacts, PoolFacts DEF Inv
<1> DEFINE pool == PoolOf(a.size)
<1>1. BlocksOf(a) \subseteq bitmap[pool] /\ a.size \in Sizes /\ pool \in Pools
  BY DEF LiveInv, TypeOK
<1>2. /\ bitmap' = [bitmap EXCEPT ![pool] = @ \ BlocksOf(a)]
      /\ live' = live \ {a}
      /\ UNCHANGED <<lock, pc, size, index, start, empty>>
  BY <1>1 DEF dealloc
<1>3. TypeOK'
  BY <1>1, <1>2 DEF TypeOK
<1>4. \A q \in Procs : pc[q] = "idle"
  BY DEF dealloc, LockInv
<1>5. LockInv' /\ ScanInv' /\ FindsFirstFit' /\ NoAssertionFails'
  BY <1>2, <1>4 DEF LockInv, ScanInv, FindsFirstFit, NoAssertionFails
<1>6. LiveInv'
  <2>1. /\ bitmap'[pool] = bitmap[pool] \ BlocksOf(a)
        /\ \A q \in Pools : q # pool => bitmap'[q] = bitmap[q]
    BY <1>1, <1>2 DEF TypeOK
  <2>2. \A b \in live : PoolOf(b.size) \in Pools
    BY DEF TypeOK
  <2>3. \A b \in live' : BlocksOf(b) \subseteq bitmap'[PoolOf(b.size)]
    BY <1>2, <2>1, <2>2 DEF LiveInv
  <2>4. ASSUME NEW q \in Pools, NEW i \in bitmap'[q]
        PROVE  \E b \in live' : PoolOf(b.size) = q /\ i \in BlocksOf(b)
    <3>1. i \in bitmap[q] /\ ~(q = pool /\ i \in BlocksOf(a))
      BY <2>1, <2>4
    <3>2. PICK b \in live : PoolOf(b.size) = q /\ i \in BlocksOf(b)
      BY <3>1 DEF LiveInv
    <3> QED
      BY <1>2, <3>1, <3>2
  <2> QED
    BY <1>2, <2>3, <2>4 DEF LiveInv
<1> QED
  BY <1>3, <1>5, <1>6

LEMMA NextInv == Inv /\ [Next]_vars => Inv'
<1> SUFFICES ASSUME Inv, [Next]_vars
             PROVE  Inv'
  OBVIOUS
<1>1. ASSUME NEW p \in Procs, Step(p)
      PROVE  Inv'
  BY <1>1, ScanStepInv, ScanEndsInv, ReturnNullInv, MarkInUseInv DEF Step
<1>2. CASE UNCHANGED vars
  BY <1>2 DEF vars, Inv, TypeOK, LockInv, ScanInv, NoRunBefore, FindsFirstFit, Free,
              LiveInv, NoAssertionFails
<1> QED
  BY <1>1, <1>2, AllocInv, DeallocInv DEF Next

-----------------------------------------------------------------------------
(* From blocks to bytes.                                                   *)

LEMMA Extent ==
    ASSUME Inv, NEW a \in live
    PROVE  /\ a.ptr \in Nat /\ a.size \in Nat /\ StartOf(a) \in Nat
           /\ Count(a.size) \in Nat /\ Count(a.size) > 0
           /\ StartOf(a) + Count(a.size) <= Number(PoolOf(a.size))
           /\ a.ptr = Address(PoolOf(a.size), StartOf(a))
           /\ a.size <= Count(a.size) * BlockSize(PoolOf(a.size))
<1>1. a.ptr \in Nat /\ a.size \in Sizes
  BY DEF Inv, TypeOK
<1>2. a.size \in Nat /\ a.size > 0
  <2>1. \A n \in Sizes : n \in Nat /\ n > 0
    BY SizeAssumption
  <2> QED
    BY <1>1, <2>1
<1>3. /\ Count(a.size) \in Nat /\ Count(a.size) > 0
      /\ a.size <= Count(a.size) * BlockSize(PoolOf(a.size))
  BY <1>2, RoundUp
<1>4. /\ StartOf(a) \in Nat
      /\ a.ptr = Address(PoolOf(a.size), StartOf(a))
      /\ StartOf(a) + Count(a.size) <= Number(PoolOf(a.size))
  BY DEF Inv, LiveInv
<1> QED
  BY <1>1, <1>2, <1>3, <1>4

LEMMA Separate ==
    ASSUME Inv, NEW a \in live, NEW b \in live, a # b, PoolOf(a.size) = PoolOf(b.size)
    PROVE  \/ StartOf(a) + Count(a.size) <= StartOf(b)
           \/ StartOf(b) + Count(b.size) <= StartOf(a)
<1>1. /\ StartOf(a) \in Nat /\ StartOf(b) \in Nat
      /\ Count(a.size) \in Nat /\ Count(a.size) > 0
      /\ Count(b.size) \in Nat /\ Count(b.size) > 0
  BY Extent
<1>2. BlocksOf(a) \cap BlocksOf(b) = {}
  BY DEF Inv, LiveInv
<1>3. StartOf(a) \notin BlocksOf(b) \/ StartOf(a) \notin BlocksOf(a)
  BY <1>2
<1>4. StartOf(b) \notin BlocksOf(a) \/ StartOf(b) \notin BlocksOf(b)
  BY <1>2
<1> QED
  BY <1>1, <1>3, <1>4 DEF BlocksOf, Span

LEMMA InvImpliesNoByteShared == Inv => NoByteShared
<1> SUFFICES ASSUME Inv
             PROVE  NoByteShared
  OBVIOUS
<1> USE NumberAssumption
<1>1. ASSUME NEW a \in live
      PROVE  /\ PoolOf(a.size) = "block4096" => a.ptr + a.size <= 4096 * Number4096
             /\ PoolOf(a.size) = "block128" => a.ptr >= 4096 * Number4096
             /\ a.ptr + a.size <= HeapSize
  <2>1. CASE PoolOf(a.size) = "block4096"
    BY <2>1, Extent DEF Address, Base, BlockSize, Number, HeapSize
  <2>2. CASE PoolOf(a.size) = "block128"
    BY <2>2, Extent DEF Address, Base, BlockSize, Number, HeapSize
  <2> QED
    BY <2>1, <2>2 DEF PoolOf
<1>2. ASSUME NEW a \in live, NEW b \in live, a # b
      PROVE  a.ptr + a.size <= b.ptr \/ b.ptr + b.size <= a.ptr
  <2>1. /\ a.ptr \in Nat /\ a.size \in Nat /\ b.ptr \in Nat /\ b.size \in Nat
        /\ StartOf(a) \in Nat /\ StartOf(b) \in Nat
        /\ Count(a.size) \in Nat /\ Count(b.size) \in Nat
    BY Extent
  <2>2. CASE PoolOf(a.size) = PoolOf(b.size)
    <3>1. \/ StartOf(a) + Count(a.size) <= StartOf(b)
          \/ StartOf(b) + Count(b.size) <= StartOf(a)
      BY <1>2, <2>2, Separate
    <3>2. CASE PoolOf(a.size) = "block4096"
      <4>1. /\ a.ptr = StartOf(a) * 4096 /\ a.size <= Count(a.size) * 4096
            /\ b.ptr = StartOf(b) * 4096 /\ b.size <= Count(b.size) * 4096
        <5>1. /\ a.ptr = Address("block4096", StartOf(a))
              /\ b.ptr = Address("block4096", StartOf(b))
              /\ a.size <= Count(a.size) * BlockSize("block4096")
              /\ b.size <= Count(b.size) * BlockSize("block4096")
          BY <2>2, <3>2, Extent
        <5> QED
          BY <2>1, <5>1 DEF Address, Base, BlockSize
      <4> QED
        BY <2>1, <3>1, <4>1
    <3>3. CASE PoolOf(a.size) = "block128"
      <4>1. /\ a.ptr = 4096 * Number4096 + StartOf(a) * 128
            /\ b.ptr = 4096 * Number4096 + StartOf(b) * 128
            /\ a.size <= Count(a.size) * 128 /\ b.size <= Count(b.size) * 128
        <5>1. /\ a.ptr = Address("block128", StartOf(a))
              /\ b.ptr = Address("block128", StartOf(b))
              /\ a.size <= Count(a.size) * BlockSize("block128")
              /\ b.size <= Count(b.size) * BlockSize("block128")
          BY <2>2, <3>3, Extent
        <5> QED
          BY <2>1, <5>1 DEF Address, Base, BlockSize
      <4> QED
        BY <2>1, <3>1, <4>1
    <3> QED
      BY <3>2, <3>3 DEF PoolOf
  <2>3. CASE PoolOf(a.size) # PoolOf(b.size)
    BY <1>1, <2>1, <2>3 DEF PoolOf
  <2> QED
    BY <2>2, <2>3
<1> QED
  BY <1>1, <1>2 DEF NoByteShared

LEMMA InvImpliesBitmapIsExact == Inv => BitmapIsExact
BY DEF Inv, LiveInv, BitmapIsExact, TypeOK

-----------------------------------------------------------------------------
(* The bitmaps never mark a block outside their pool, and the locals of    *)
(* every call keep their types.                                            *)
THEOREM TypeCorrect == Spec => []TypeOK
<1>1. Inv => TypeOK
  BY DEF Inv
<1> QED
  BY <1>1, InitInv, NextInv, PTL DEF Spec

(* alloc() never hands out a byte that is already in use, whichever        *)
(* processors call it and in whatever order memory is given back.          *)
THEOREM AllocationsAreDisjoint == Spec => []NoByteShared
  BY InitInv, NextInv, InvImpliesNoByteShared, PTL DEF Spec

(* The bitmaps are exactly what is in use: no block is lost.               *)
THEOREM NothingLeaks == Spec => []BitmapIsExact
  BY InitInv, NextInv, InvImpliesBitmapIsExact, PTL DEF Spec

(* The loop of find_empty_blocks() returns the first fit, for bitmaps and  *)
(* requests of any length, and None only if nothing fits.                  *)
THEOREM FirstFit == Spec => []FindsFirstFit
<1>1. Inv => FindsFirstFit
  BY DEF Inv
<1> QED
  BY <1>1, InitInv, NextInv, PTL DEF Spec

(* The assertions on the bitmap's bits never fail.                         *)
THEOREM AssertionsHold == Spec => []NoAssertionFails
<1>1. Inv => NoAssertionFails
  BY DEF Inv
<1> QED
  BY <1>1, InitInv, NextInv, PTL DEF Spec
=============================================================================
