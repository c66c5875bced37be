-------------------------- MODULE SerialLogProofs --------------------------
(***************************************************************************)
(* The lock of the UART, for any number of processors, any depth of frames *)
(* and any number of records, exits and NMIs.                              *)
(***************************************************************************)
EXTENDS SerialLog, SequenceTheorems, TLAPS

Ctxs == {"setup", "entering", "guest", "host", "panic"}
Causes == {"none", "fault", "interrupt", "nmi"}

Frames == [ctx : Ctxs, at : Ats, if : BOOLEAN, enabled : BOOLEAN, todo : 0 .. 3,
           left : 0 .. LineLength, cause : Causes]

(* The processor's own code is at the bottom of its stack, and only there. *)
Bottom == {"setup", "entering", "guest"}

ShapeInv ==
    /\ vendor \in {"intel", "amd"} /\ level \in {"info", "trace"}
    /\ flags \in [Processors -> BOOLEAN]
    /\ stack \in [Processors -> Seq(Frames)]
    /\ \A p \in Processors : Depth(p) >= 1
    /\ hit \subseteq Processors

(* What is true of a frame by itself.  Interrupts are off inside log(), in *)
(* a panic and in an Intel host; they and the guard's copy never come from *)
(* anywhere but the flags that the processor had at first.                 *)
Sound(p, d, f) ==
    /\ f.ctx \in IF d = 1 THEN Bottom ELSE {"host", "panic"}
    /\ f.at # "code" => ~f.if
    /\ f.if \/ f.enabled => flags[p] /\ f.ctx # "panic" /\ (f.ctx = "host" => vendor = "amd")

FramesInv == \A p \in Processors : \A d \in 1 .. Depth(p) : Sound(p, d, stack[p][d])

(* Mutual exclusion: whoever writes holds the lock, and the other way      *)
(* around; and only an NMI gets on top of it.                              *)
LockInv ==
    /\ \A p \in Processors : \A d \in 1 .. Depth(p) :
          stack[p][d].at = "write" => /\ holder = <<p, d>>
                                      /\ d < Depth(p) => p \in hit
    /\ holder # NoHolder =>
          \E p \in Processors : \E d \in 1 .. Depth(p) :
              holder = <<p, d>> /\ stack[p][d].at = "write"

(* The line is the lock's holder's, and empty before and after its record. *)
LineInv ==
    /\ line \in Seq(Processors \X Nat)
    /\ \A i \in DOMAIN line : line[i] = holder
    /\ holder = NoHolder => line = <<>>
    /\ \A p \in Processors : \A d \in 1 .. Depth(p) :
          stack[p][d].at = "write" /\ stack[p][d].left = 0 => line = <<>>

Inv == ShapeInv /\ FramesInv /\ LockInv /\ LineInv /\ InterruptedOnlyBetweenRecords

-----------------------------------------------------------------------------
(* What Set, Push and Resume's pop do to the frames.                       *)

LEMMA NoHolderIsNoPair == \A p, d : <<p, d>> # NoHolder
<1> SUFFICES ASSUME NEW p, NEW d, <<p, d>> = <<>> PROVE FALSE
  BY DEF NoHolder
<1>1. Len(<<p, d>>) = 2 /\ Len(<<>>) = 0
  OBVIOUS
<1> QED
  BY <1>1

LEMMA TopFacts ==
    ASSUME ShapeInv, FramesInv, NEW p \in Processors
    PROVE  /\ Depth(p) \in Nat /\ Depth(p) >= 1 /\ Depth(p) \in 1 .. Depth(p)
           /\ Top(p) = stack[p][Depth(p)] /\ Top(p) \in Frames /\ Sound(p, Depth(p), Top(p))
           /\ \A d \in 1 .. Depth(p) : stack[p][d] \in Frames /\ d \in Nat
<1>1. stack[p] \in Seq(Frames)
  BY DEF ShapeInv
<1>2. Depth(p) \in Nat /\ Depth(p) >= 1 /\ \A d \in 1 .. Depth(p) : stack[p][d] \in Frames
  BY <1>1, LenProperties, ElementOfSeq DEF ShapeInv, Depth
<1> QED
  BY <1>2 DEF Top, FramesInv

LEMMA SetFacts ==
    ASSUME ShapeInv, NEW p \in Processors, NEW f \in Frames, Set(p, f)
    PROVE  /\ stack' \in [Processors -> Seq(Frames)]
           /\ \A q \in Processors : Depth(q)' = Depth(q)
           /\ \A q \in Processors : \A d \in 1 .. Depth(q) :
                 stack'[q][d] = IF q = p /\ d = Depth(p) THEN f ELSE stack[q][d]
<1> DEFINE s == [stack[p] EXCEPT ![Depth(p)] = f]
<1>1. stack[p] \in Seq(Frames) /\ Depth(p) = Len(stack[p]) /\ Depth(p) >= 1
  BY DEF ShapeInv, Depth
<1>2. Depth(p) \in 1 .. Len(stack[p])
  BY <1>1, LenProperties
<1>3. /\ s \in Seq(Frames) /\ Len(s) = Depth(p)
      /\ \A d \in 1 .. Depth(p) : s[d] = IF d = Depth(p) THEN f ELSE stack[p][d]
  BY <1>1, <1>2, ExceptSeq
<1>4. stack' = [stack EXCEPT ![p] = s]
  BY DEF Set
<1> HIDE DEF s
<1>5. stack'[p] = s /\ \A q \in Processors : q # p => stack'[q] = stack[q]
  BY <1>4 DEF ShapeInv
<1>6. stack' \in [Processors -> Seq(Frames)]
  BY <1>3, <1>4 DEF ShapeInv
<1> QED
  BY <1>3, <1>5, <1>6 DEF Depth

LEMMA AppendFacts ==
    ASSUME NEW s \in Seq(Frames), NEW f \in Frames
    PROVE  /\ Append(s, f) \in Seq(Frames) /\ Len(Append(s, f)) = Len(s) + 1
           /\ Append(s, f)[Len(s) + 1] = f /\ Len(s) \in Nat
           /\ \A d \in 1 .. Len(s) : Append(s, f)[d] = s[d]
BY AppendProperties, LenProperties

LEMMA PushFacts ==
    ASSUME ShapeInv, NEW p \in Processors, NEW f \in Frames, Push(p, f)
    PROVE  /\ stack' \in [Processors -> Seq(Frames)]
           /\ \A q \in Processors : Depth(q)' = IF q = p THEN Depth(p) + 1 ELSE Depth(q)
           /\ \A q \in Processors : \A d \in 1 .. Depth(q) : stack'[q][d] = stack[q][d]
           /\ stack'[p][Depth(p) + 1] = f
<1>1. stack[p] \in Seq(Frames)
  BY DEF ShapeInv
<1>2. /\ stack' \in [Processors -> Seq(Frames)]
      /\ stack'[p] = Append(stack[p], f) /\ \A q \in Processors : q # p => stack'[q] = stack[q]
  BY <1>1, AppendFacts DEF Push, ShapeInv
<1>3. /\ Len(stack'[p]) = Len(stack[p]) + 1 /\ stack'[p][Len(stack[p]) + 1] = f
      /\ \A d \in 1 .. Len(stack[p]) : stack'[p][d] = stack[p][d]
  BY <1>1, <1>2, AppendFacts
<1> QED
  BY <1>2, <1>3 DEF Depth

(* The running frame is replaced and another one put on top of it.         *)
LEMMA SetPushFacts ==
    ASSUME ShapeInv, NEW p \in Processors, NEW f \in Frames, NEW g \in Frames,
           stack' = [[stack EXCEPT ![p][Depth(p)] = f] EXCEPT ![p] = Append(@, g)]
    PROVE  /\ stack' \in [Processors -> Seq(Frames)]
           /\ \A q \in Processors : Depth(q)' = IF q = p THEN Depth(p) + 1 ELSE Depth(q)
           /\ \A q \in Processors : \A d \in 1 .. Depth(q) :
                 stack'[q][d] = IF q = p /\ d = Depth(p) THEN f ELSE stack[q][d]
           /\ stack'[p][Depth(p) + 1] = g
<1> DEFINE s == [stack[p] EXCEPT ![Depth(p)] = f]
<1>1. stack[p] \in Seq(Frames) /\ Depth(p) = Len(stack[p]) /\ Depth(p) >= 1
  BY DEF ShapeInv, Depth
<1>2. Depth(p) \in 1 .. Len(stack[p])
  BY <1>1, LenProperties
<1>3. /\ s \in Seq(Frames) /\ Len(s) = Depth(p)
      /\ \A d \in 1 .. Depth(p) : s[d] = IF d = Depth(p) THEN f ELSE stack[p][d]
  BY <1>1, <1>2, ExceptSeq
<1>4. stack' = [stack EXCEPT ![p] = Append(s, g)]
  BY DEF ShapeInv
<1> HIDE DEF s
<1>5. /\ Append(s, g) \in Seq(Frames) /\ Len(Append(s, g)) = Depth(p) + 1
      /\ Append(s, g)[Depth(p) + 1] = g
      /\ \A d \in 1 .. Depth(p) : Append(s, g)[d] = s[d]
  BY <1>3, AppendFacts
<1>6. stack'[p] = Append(s, g) /\ \A q \in Processors : q # p => stack'[q] = stack[q]
  BY <1>4 DEF ShapeInv
<1>7. stack' \in [Processors -> Seq(Frames)]
  BY <1>4, <1>5 DEF ShapeInv
<1> QED
  BY <1>3, <1>5, <1>6, <1>7 DEF Depth

LEMMA PopFacts ==
    ASSUME ShapeInv, NEW p \in Processors, Depth(p) > 1,
           stack' = [stack EXCEPT ![p] = SubSeq(@, 1, Depth(p) - 1)]
    PROVE  /\ stack' \in [Processors -> Seq(Frames)]
           /\ \A q \in Processors : Depth(q)' = IF q = p THEN Depth(p) - 1 ELSE Depth(q)
           /\ \A q \in Processors : \A d \in 1 .. Depth(q)' : stack'[q][d] = stack[q][d]
<1> DEFINE s == SubSeq(stack[p], 1, Depth(p) - 1)
<1>1. stack[p] \in Seq(Frames) /\ Depth(p) \in Nat
  BY LenProperties DEF ShapeInv, Depth
<1>2. \A d \in 1 .. (Depth(p) - 1) : stack[p][d] \in Frames
  BY <1>1, ElementOfSeq DEF Depth
<1>3. /\ s \in Seq(Frames) /\ Len(s) = Depth(p) - 1
      /\ \A d \in 1 .. (Depth(p) - 1) : s[d] = stack[p][d]
  BY <1>1, <1>2, SubSeqProperties
<1>4. stack' = [stack EXCEPT ![p] = s]
  OBVIOUS
<1> HIDE DEF s
<1>5. stack'[p] = s /\ \A q \in Processors : q # p => stack'[q] = stack[q]
  BY <1>4 DEF ShapeInv
<1>6. stack' \in [Processors -> Seq(Frames)]
  BY <1>3, <1>4 DEF ShapeInv
<1> QED
  BY <1>3, <1>5, <1>6 DEF Depth

-----------------------------------------------------------------------------
(* Steps that replace the running frame.                                   *)

LEMMA SetKeepsFrames ==
    ASSUME Inv, NEW p \in Processors, NEW f \in Frames, Set(p, f),
           Sound(p, Depth(p), f), f.cause = Top(p).cause, UNCHANGED <<machine, hit>>
    PROVE  ShapeInv' /\ FramesInv' /\ InterruptedOnlyBetweenRecords'
<1> USE DEF Inv
<1>1. ShapeInv'
  BY SetFacts DEF ShapeInv, machine
<1>2. FramesInv'
  BY SetFacts DEF FramesInv, Sound, machine
<1>3. ASSUME NEW q \in Processors, NEW d \in 2 .. Depth(q), stack'[q][d].cause = "interrupt"
      PROVE  /\ vendor = "amd" /\ flags[q]
             /\ stack'[q][d - 1].ctx = "entering" /\ stack'[q][d - 1].at = "code"
  <2>1. Depth(q) \in Nat /\ d \in 1 .. Depth(q) /\ d - 1 \in 1 .. Depth(q) /\ d - 1 # Depth(q)
    BY TopFacts
  <2>2. stack'[q][d - 1] = stack[q][d - 1]
    BY <2>1, SetFacts
  <2>3. stack[q][d].cause = "interrupt"
    BY <1>3, <2>1, SetFacts DEF Top
  <2> QED
    BY <2>2, <2>3 DEF InterruptedOnlyBetweenRecords
<1> QED
  BY <1>1, <1>2, <1>3, SetFacts DEF InterruptedOnlyBetweenRecords, machine

(* Away from the lock.                                                     *)
LEMMA SetAside ==
    ASSUME Inv, NEW p \in Processors, NEW f \in Frames, Set(p, f),
           Sound(p, Depth(p), f), f.cause = Top(p).cause,
           Top(p).at # "write", f.at # "write", UNCHANGED <<machine, hit, holder, line>>
    PROVE  Inv'
<1> USE DEF Inv
<1>1. ShapeInv' /\ FramesInv' /\ InterruptedOnlyBetweenRecords'
  BY SetKeepsFrames
<1>2. \A q \in Processors : \A d \in 1 .. Depth(q) :
          (stack'[q][d].at = "write" => stack'[q][d] = stack[q][d])
       /\ (stack[q][d].at = "write" => stack'[q][d] = stack[q][d])
  BY SetFacts DEF Top
<1>3. LockInv'
  BY <1>2, SetFacts DEF LockInv
<1>4. LineInv'
  <2>1. \A q \in Processors : \A d \in 1 .. Depth(q)' :
            stack'[q][d].at = "write" /\ stack'[q][d].left = 0 => line' = <<>>
    BY <1>2, SetFacts, ZenonT(60) DEF LineInv
  <2> QED
    BY <2>1 DEF LineInv
<1> QED
  BY <1>1, <1>3, <1>4

LEMMA LogInv == ASSUME Inv, NEW p \in Processors, log(p) PROVE Inv'
<1> DEFINE f == [Guard(Top(p)) EXCEPT !.at = "id"]
<1>1. Top(p) \in Frames /\ Sound(p, Depth(p), Top(p))
  BY TopFacts DEF Inv
<1>2. f \in Frames /\ f.cause = Top(p).cause /\ f.at = "id"
  BY <1>1 DEF Guard, Frames, Ats
<1>3. Sound(p, Depth(p), f)
  BY <1>1 DEF Guard, Frames, Sound
<1>4. Set(p, f) /\ Top(p).at = "code" /\ UNCHANGED <<machine, hit, holder, line>>
  BY DEF log
<1> HIDE DEF f
<1> QED
  BY <1>2, <1>3, <1>4, SetAside

LEMMA LoggedInv == ASSUME Inv, NEW p \in Processors, Logged(p) PROVE Inv'
<1> DEFINE t == Top(p)
           g == [DropGuard(t) EXCEPT !.at = "code", !.enabled = FALSE,
                                     !.todo = IF @ > 0 THEN @ - 1 ELSE 0]
           f == IF g.ctx = "panic" THEN [g EXCEPT !.at = "halted", !.if = FALSE] ELSE g
<1>1. t \in Frames /\ Sound(p, Depth(p), t) /\ t.at = "unlocked"
  BY TopFacts DEF Inv, Logged
<1>2. /\ g \in Frames /\ g.cause = t.cause /\ g.ctx = t.ctx /\ g.at = "code"
      /\ ~g.enabled /\ (g.if => t.if \/ t.enabled)
  <2> DEFINE b == t.if \/ t.enabled
             n == IF t.todo > 0 THEN t.todo - 1 ELSE 0
  <2>1. b \in BOOLEAN /\ n \in 0 .. 3
    BY <1>1 DEF Frames
  <2>2. g = [t EXCEPT !.if = b, !.at = "code", !.enabled = FALSE, !.todo = n]
    BY <1>1 DEF DropGuard, Frames
  <2> HIDE DEF b, n, g, t
  <2>3. /\ g \in Frames /\ g.cause = t.cause /\ g.ctx = t.ctx /\ g.at = "code"
        /\ ~g.enabled /\ g.if = b
    BY <1>1, <2>1, <2>2 DEF Frames, Ats
  <2> QED
    BY <2>3 DEF b
<1>3. Set(p, f) /\ UNCHANGED <<machine, hit, holder, line>>
  BY DEF Logged
<1> HIDE DEF t, g
<1>4. f \in Frames /\ f.cause = t.cause /\ f.at # "write" /\ Sound(p, Depth(p), f)
  BY <1>1, <1>2 DEF Frames, Ats, Sound
<1> HIDE DEF f
<1> QED
  BY <1>1, <1>3, <1>4, SetAside DEF t

LEMMA InitializeInv == ASSUME Inv, NEW p \in Processors, initialize(p) PROVE Inv'
<1> DEFINE f == [Top(p) EXCEPT !.ctx = "entering", !.todo = IF level = "trace" THEN 2 ELSE 1]
<1>1. Top(p) \in Frames /\ Sound(p, Depth(p), Top(p)) /\ Top(p).at = "code" /\ Top(p).ctx = "setup"
  BY TopFacts DEF Inv, initialize, Done
<1>2. f \in Frames /\ f.cause = Top(p).cause /\ f.at = "code" /\ Sound(p, Depth(p), f)
  <2>1. PICK n \in 0 .. 3 : n = IF level = "trace" THEN 2 ELSE 1
    OBVIOUS
  <2>2. f = [Top(p) EXCEPT !.ctx = "entering", !.todo = n]
    BY <2>1
  <2> QED
    BY <1>1, <2>2 DEF Frames, Ctxs, Sound, Bottom
<1>3. Set(p, f) /\ UNCHANGED <<machine, hit, holder, line>>
  BY DEF initialize
<1> HIDE DEF f
<1> QED
  BY <1>1, <1>2, <1>3, SetAside

LEMMA EnterInv == ASSUME Inv, NEW p \in Processors, Enter(p) PROVE Inv'
<1> DEFINE f == [Top(p) EXCEPT !.ctx = "guest"]
<1>1. /\ Top(p) \in Frames /\ Sound(p, Depth(p), Top(p))
      /\ Top(p).at = "code" /\ Top(p).ctx = "entering"
  BY TopFacts DEF Inv, Enter, Done
<1>2. f \in Frames /\ f.cause = Top(p).cause /\ f.at = "code" /\ Sound(p, Depth(p), f)
  BY <1>1 DEF Frames, Ctxs, Sound, Bottom
<1>3. Set(p, f) /\ UNCHANGED <<machine, hit, holder, line>>
  BY DEF Enter
<1> HIDE DEF f
<1> QED
  BY <1>1, <1>2, <1>3, SetAside

(* The lock is free, so nobody else writes, and the line is empty.         *)
LEMMA LockStepInv == ASSUME Inv, NEW p \in Processors, lock(p) PROVE Inv'
<1> USE DEF Inv
<1> DEFINE f == [Top(p) EXCEPT !.at = "write", !.left = LineLength]
<1>1. Top(p) \in Frames /\ Sound(p, Depth(p), Top(p)) /\ Top(p).at = "lock" /\ Depth(p) \in 1 .. Depth(p)
  BY TopFacts DEF lock
<1>2. f \in Frames /\ f.cause = Top(p).cause /\ f.at = "write" /\ Sound(p, Depth(p), f)
  <2>1. LineLength \in 0 .. LineLength
    BY BoundAssumption
  <2> QED
    BY <1>1, <2>1 DEF Frames, Ats, Sound
<1>3. f.left # 0
  BY <1>1, BoundAssumption DEF Frames
<1>4. Set(p, f) /\ holder = NoHolder /\ holder' = <<p, Depth(p)>> /\ UNCHANGED <<machine, hit, line>>
  BY DEF lock, Me
<1> HIDE DEF f
<1>5. ShapeInv' /\ FramesInv' /\ InterruptedOnlyBetweenRecords'
  BY <1>2, <1>4, SetKeepsFrames
<1>6. \A q \in Processors : \A d \in 1 .. Depth(q) : stack[q][d].at # "write"
  BY <1>4, NoHolderIsNoPair DEF LockInv
<1>7. \A q \in Processors : \A d \in 1 .. Depth(q) :
          stack'[q][d].at = "write" => q = p /\ d = Depth(p) /\ stack'[q][d] = f
  BY <1>2, <1>4, <1>6, SetFacts
<1>8. stack'[p][Depth(p)].at = "write"
  BY <1>1, <1>2, <1>4, SetFacts
<1>9. LockInv'
  <2>1. Depth(p)' = Depth(p) /\ Depth(p) \in 1 .. Depth(p) /\ ~(Depth(p) < Depth(p))
    BY <1>1, <1>2, <1>4, SetFacts, TopFacts
  <2> QED
    BY <1>1, <1>2, <1>4, <1>7, <1>8, <2>1, SetFacts DEF LockInv
<1>10. LineInv'
  BY <1>3, <1>4, <1>7, <1>2, SetFacts, NoHolderIsNoPair DEF LineInv
<1> QED
  BY <1>5, <1>9, <1>10

(* A byte is added to the holder's own line.                               *)
LEMMA WriteStrInv == ASSUME Inv, NEW p \in Processors, write_str(p) PROVE Inv'
<1> USE DEF Inv
<1> DEFINE f == [Top(p) EXCEPT !.left = @ - 1]
<1>1. /\ Top(p) \in Frames /\ Sound(p, Depth(p), Top(p)) /\ Depth(p) \in 1 .. Depth(p)
      /\ Top(p).at = "write" /\ Top(p).left > 0 /\ Top(p) = stack[p][Depth(p)] /\ Depth(p) \in Nat
  BY TopFacts DEF write_str
<1>2. /\ f \in Frames /\ f.cause = Top(p).cause /\ f.at = "write" /\ Sound(p, Depth(p), f)
      /\ f.left = Top(p).left - 1
  BY <1>1, BoundAssumption DEF Frames, Sound
<1>3. Set(p, f) /\ UNCHANGED <<machine, hit, holder>>
  BY DEF write_str
<1> HIDE DEF f
<1>4. ShapeInv' /\ FramesInv' /\ InterruptedOnlyBetweenRecords'
  BY <1>2, <1>3, SetKeepsFrames
<1>5. \A q \in Processors : \A d \in 1 .. Depth(q) : stack'[q][d].at = stack[q][d].at
  BY <1>1, <1>2, <1>3, SetFacts
<1>6. LockInv'
  BY <1>2, <1>3, <1>5, SetFacts DEF LockInv
<1>7. holder = <<p, Depth(p)>> /\ holder # NoHolder /\ holder \in Processors \X Nat
  BY <1>1, NoHolderIsNoPair DEF LockInv
<1>8. \A q \in Processors : \A d \in 1 .. Depth(q) :
          stack'[q][d].at = "write" => q = p /\ d = Depth(p) /\ stack'[q][d] = f
  BY <1>1, <1>2, <1>3, <1>5, <1>7, SetFacts, SMTT(60) DEF LockInv
<1>9. CASE Top(p).left = 1
  <2>1. line' = <<>> /\ <<>> \in Seq(Processors \X Nat)
    BY <1>9 DEF write_str
  <2> QED
    BY <1>4, <1>6, <2>1 DEF LineInv
<1>10. CASE Top(p).left # 1
  <2>1. line' = Append(line, holder) /\ line \in Seq(Processors \X Nat)
    BY <1>7, <1>10 DEF write_str, Me, LineInv
  <2>2. /\ line' \in Seq(Processors \X Nat)
        /\ \A i \in DOMAIN line' : line'[i] = holder
    <3>1. /\ line' \in Seq(Processors \X Nat) /\ Len(line') = Len(line) + 1
          /\ \A i \in 1 .. Len(line) : line'[i] = line[i]
          /\ line'[Len(line) + 1] = holder
      BY <1>7, <2>1, AppendProperties
    <3>2. DOMAIN line = 1 .. Len(line) /\ DOMAIN line' = 1 .. Len(line') /\ Len(line) \in Nat
      BY <2>1, <3>1, LenProperties
    <3>3. \A i \in 1 .. Len(line) + 1 : i \in 1 .. Len(line) \/ i = Len(line) + 1
      BY <3>2
    <3>4. \A i \in 1 .. Len(line) : line[i] = holder
      BY <3>2 DEF LineInv
    <3> QED
      BY <3>1, <3>2, <3>3, <3>4
  <2>3. f.left # 0
    BY <1>1, <1>2, <1>10 DEF Frames
  <2>4. LineInv'
    BY <1>2, <1>3, <1>7, <1>8, <2>2, <2>3, SetFacts, ZenonT(60) DEF LineInv
  <2> QED
    BY <1>4, <1>6, <2>4
<1> QED
  BY <1>9, <1>10

LEMMA UnlockInv == ASSUME Inv, NEW p \in Processors, unlock(p) PROVE Inv'
<1> USE DEF Inv
<1> DEFINE f == [Top(p) EXCEPT !.at = "unlocked"]
<1>1. /\ Top(p) \in Frames /\ Sound(p, Depth(p), Top(p)) /\ Depth(p) \in 1 .. Depth(p)
      /\ Top(p).at = "write" /\ Top(p).left = 0 /\ Top(p) = stack[p][Depth(p)]
  BY TopFacts DEF unlock
<1>2. f \in Frames /\ f.cause = Top(p).cause /\ f.at = "unlocked" /\ Sound(p, Depth(p), f)
  BY <1>1 DEF Frames, Ats, Sound
<1>3. Set(p, f) /\ holder' = NoHolder /\ UNCHANGED <<machine, hit, line>>
  BY DEF unlock
<1> HIDE DEF f
<1>4. ShapeInv' /\ FramesInv' /\ InterruptedOnlyBetweenRecords'
  BY <1>2, <1>3, SetKeepsFrames
<1>5. holder = <<p, Depth(p)>>
  BY <1>1 DEF LockInv
<1>6. \A q \in Processors : \A d \in 1 .. Depth(q) : stack'[q][d].at # "write"
  BY <1>2, <1>3, <1>5, SetFacts DEF LockInv
<1>7. LockInv'
  BY <1>2, <1>3, <1>6, SetFacts DEF LockInv
<1>8. line = <<>>
  BY <1>1 DEF LineInv
<1>9. LineInv'
  BY <1>2, <1>3, <1>6, <1>8, SetFacts DEF LineInv
<1> QED
  BY <1>4, <1>7, <1>9

-----------------------------------------------------------------------------
(* Steps that put a frame on top, and the one that takes it away.          *)

LEMMA PushedInv ==
    ASSUME Inv, NEW p \in Processors, NEW f \in Frames, Push(p, f),
           Sound(p, Depth(p) + 1, f), f.at = "code",
           f.cause = "interrupt" => /\ vendor = "amd" /\ flags[p]
                                    /\ Top(p).ctx = "entering" /\ Top(p).at = "code",
           hit \subseteq hit', hit' \subseteq Processors, Top(p).at = "write" => p \in hit',
           UNCHANGED <<machine, holder, line>>
    PROVE  Inv'
<1> USE DEF Inv
<1>1. /\ Depth(p) \in Nat /\ Depth(p) >= 1 /\ Depth(p)' = Depth(p) + 1
      /\ \A q \in Processors : q # p => Depth(q)' = Depth(q)
  BY PushFacts, TopFacts
<1>2. ASSUME NEW q \in Processors, NEW d \in 1 .. Depth(q)'
      PROVE  \/ d \in 1 .. Depth(q) /\ stack'[q][d] = stack[q][d]
             \/ q = p /\ d = Depth(p) + 1 /\ stack'[q][d] = f
  BY <1>1, PushFacts
<1>3. ShapeInv'
  <2>1. \A q \in Processors : Depth(q)' >= 1
    BY <1>1 DEF ShapeInv
  <2> QED
    BY <2>1, PushFacts DEF ShapeInv, machine
<1>4. FramesInv'
  BY <1>2 DEF FramesInv, Sound, machine
<1>5. ASSUME NEW q \in Processors, NEW d \in 1 .. Depth(q)', stack'[q][d].at = "write"
      PROVE  /\ holder = <<q, d>> /\ (d < Depth(q)' => q \in hit')
             /\ d \in 1 .. Depth(q) /\ stack'[q][d] = stack[q][d]
  <2>1. d \in 1 .. Depth(q) /\ stack'[q][d] = stack[q][d]
    BY <1>2, <1>5
  <2>2. holder = <<q, d>> /\ (d < Depth(q) => q \in hit)
    BY <1>5, <2>1 DEF LockInv
  <2>3. CASE d = Depth(q) /\ q = p
    BY <1>5, <2>1, <2>2, <2>3 DEF Top
  <2>4. CASE q # p
    BY <1>1, <2>1, <2>2, <2>4
  <2>5. CASE d # Depth(q)
    BY <2>1, <2>2, <2>5, TopFacts
  <2> QED
    BY <2>1, <2>2, <2>3, <2>4, <2>5
<1>6. \A q \in Processors : \A d \in 1 .. Depth(q) : d \in 1 .. Depth(q)' /\ stack'[q][d] = stack[q][d]
  BY <1>1, PushFacts
<1>7. LockInv'
  BY <1>5, <1>6 DEF LockInv
<1>8. LineInv'
  <2>1. \A q \in Processors : \A d \in 1 .. Depth(q)' :
            stack'[q][d].at = "write" /\ stack'[q][d].left = 0 => line' = <<>>
    BY <1>5 DEF LineInv
  <2> QED
    BY <2>1 DEF LineInv
<1>9. ASSUME NEW q \in Processors, NEW d \in 2 .. Depth(q)', stack'[q][d].cause = "interrupt"
      PROVE  /\ vendor = "amd" /\ flags[q]
             /\ stack'[q][d - 1].ctx = "entering" /\ stack'[q][d - 1].at = "code"
  <2>1. d \in 1 .. Depth(q)' /\ d - 1 \in 1 .. Depth(q) /\ d - 1 \in Nat
    BY <1>1, TopFacts
  <2>2. stack'[q][d - 1] = stack[q][d - 1]
    BY <2>1, <1>6
  <2>3. CASE d \in 1 .. Depth(q) /\ stack'[q][d] = stack[q][d]
    BY <1>9, <2>2, <2>3 DEF InterruptedOnlyBetweenRecords
  <2>4. CASE q = p /\ d = Depth(p) + 1 /\ stack'[q][d] = f
    <3>1. d - 1 = Depth(p)
      BY <1>1, <2>4
    <3> QED
      BY <1>9, <2>2, <2>4, <3>1 DEF Top
  <2> QED
    BY <1>2, <2>1, <2>3, <2>4
<1>10. InterruptedOnlyBetweenRecords'
  BY <1>9 DEF InterruptedOnlyBetweenRecords, machine
<1> QED
  BY <1>3, <1>4, <1>7, <1>8, <1>10

(* The host's frame of a VM exit: interrupts are off, or masked by GIF.    *)
LEMMA HostFrameFacts ==
    ASSUME Inv, NEW p \in Processors, NEW todo \in 0 .. 3, NEW cause \in {"none", "fault"}
    PROVE  LET g == HostFrame(p, todo, cause)
           IN  /\ g \in Frames /\ g.at = "code" /\ g.cause # "interrupt"
               /\ Sound(p, Depth(p) + 1, g)
<1> DEFINE b == vendor = "amd" /\ flags[p]
           g == HostFrame(p, todo, cause)
<1>1. b \in BOOLEAN /\ 0 \in 0 .. LineLength /\ Depth(p) + 1 # 1
  BY TopFacts, BoundAssumption DEF Inv
<1>2. /\ g \in Frames /\ g.at = "code" /\ g.cause = cause
      /\ g.ctx = "host" /\ g.if = b /\ ~g.enabled
  <2> HIDE DEF b
  <2>1. g = [ctx |-> "host", at |-> "code", if |-> b, enabled |-> FALSE, todo |-> todo, left |-> 0,
             cause |-> cause]
    BY DEF HostFrame, Frame, b
  <2> QED
    BY <1>1, <2>1 DEF Frames, Ctxs, Ats, Causes
<1> HIDE DEF g
<1> QED
  BY <1>1, <1>2 DEF Sound, g

LEMMA RecordsRange == ExitRecords \in 0 .. 3
BY DEF ExitRecords

LEMMA ExitInv == ASSUME Inv, NEW p \in Processors, Exit(p) PROVE Inv'
<1>1. \E todo \in 0 .. 3, cause \in {"none", "fault"} : Push(p, HostFrame(p, todo, cause))
  BY RecordsRange DEF Exit
<1>2. PICK todo \in 0 .. 3, cause \in {"none", "fault"} : Push(p, HostFrame(p, todo, cause))
  BY <1>1
<1> DEFINE g == HostFrame(p, todo, cause)
<1>3. g \in Frames /\ g.at = "code" /\ g.cause # "interrupt" /\ Sound(p, Depth(p) + 1, g)
  BY HostFrameFacts
<1>4. Push(p, g) /\ Top(p).at = "code" /\ hit' = hit /\ hit \subseteq Processors
      /\ UNCHANGED <<machine, holder, line>>
  BY <1>2 DEF Exit, Inv, ShapeInv
<1> HIDE DEF g
<1> QED
  BY <1>3, <1>4, PushedInv

LEMMA PanicFacts ==
    ASSUME Inv, NEW p \in Processors, NEW cause \in Causes
    PROVE  LET f == Frame("panic", FALSE, 1, cause)
           IN  f \in Frames /\ f.at = "code" /\ f.cause = cause /\ Sound(p, Depth(p) + 1, f)
<1> DEFINE f == Frame("panic", FALSE, 1, cause)
<1>1. 0 \in 0 .. LineLength /\ Depth(p) + 1 # 1
  BY TopFacts, BoundAssumption DEF Inv
<1>2. /\ f \in Frames /\ f.at = "code" /\ f.cause = cause
      /\ f.ctx = "panic" /\ ~f.if /\ ~f.enabled
  BY <1>1 DEF Frame, Frames, Ctxs, Ats
<1> HIDE DEF f
<1> QED
  BY <1>1, <1>2 DEF Sound, f

(* An interrupt gets through only where the processor still has its first  *)
(* flags: GIF masks it in an AMD host, and nowhere else are they set.      *)
LEMMA InterruptInv == ASSUME Inv, NEW p \in Processors, Interrupt(p) PROVE Inv'
<1> DEFINE f == Frame("panic", FALSE, 1, "interrupt")
<1>1. /\ Top(p) \in Frames /\ Sound(p, Depth(p), Top(p)) /\ Top(p).if
      /\ Depth(p) \in 1 .. Depth(p) /\ Top(p) = stack[p][Depth(p)]
  BY TopFacts DEF Inv, Interrupt
<1>2. Top(p).at = "code" /\ flags[p] /\ Top(p).ctx # "panic" /\ (Top(p).ctx = "host" => vendor = "amd")
  BY <1>1 DEF Sound
<1>3. Top(p).ctx # "host"
  BY <1>1, <1>2 DEF Interrupt, GifSet
<1>4. vendor = "amd" /\ Top(p).ctx = "entering"
  BY <1>2, <1>3 DEF Interrupt, OnHostIdt
<1>5. f \in Frames /\ f.at = "code" /\ f.cause = "interrupt" /\ Sound(p, Depth(p) + 1, f)
  BY PanicFacts DEF Causes
<1>6. Push(p, f) /\ hit' = hit /\ hit \subseteq Processors /\ UNCHANGED <<machine, holder, line>>
  BY DEF Interrupt, Panic, Inv, ShapeInv
<1> HIDE DEF f
<1> QED
  BY <1>2, <1>4, <1>5, <1>6, PushedInv

LEMMA NmiInv == ASSUME Inv, NEW p \in Processors, Nmi(p) PROVE Inv'
<1> DEFINE f == Frame("panic", FALSE, 1, "nmi")
<1>1. f \in Frames /\ f.at = "code" /\ f.cause = "nmi" /\ Sound(p, Depth(p) + 1, f)
  BY PanicFacts DEF Causes
<1>2. Push(p, f) /\ UNCHANGED <<machine, holder, line>>
  BY DEF Nmi, Panic
<1>3. Top(p).at = "write" => holder = Me(p)
  BY TopFacts DEF Inv, LockInv, Me
<1>4. hit \subseteq hit' /\ hit' \subseteq Processors /\ (Top(p).at = "write" => p \in hit')
  BY <1>3 DEF Nmi, Inv, ShapeInv
<1> HIDE DEF f
<1> QED
  BY <1>1, <1>2, <1>4, PushedInv

LEMMA FaultInv == ASSUME Inv, NEW p \in Processors, Fault(p) PROVE Inv'
<1> DEFINE f == Frame("panic", FALSE, 1, "fault")
<1>1. f \in Frames /\ f.at = "code" /\ f.cause = "fault" /\ Sound(p, Depth(p) + 1, f)
  BY PanicFacts DEF Causes
<1>2. /\ Push(p, f) /\ Top(p).at = "code" /\ hit' = hit /\ hit \subseteq Processors
      /\ UNCHANGED <<machine, holder, line>>
  BY DEF Fault, Done, Panic, Inv, ShapeInv
<1> HIDE DEF f
<1> QED
  BY <1>1, <1>2, PushedInv

(* apic_id() in the guest exits, before lock(): two frames change.         *)
LEMMA ApicIdInv == ASSUME Inv, NEW p \in Processors, apic_id(p) PROVE Inv'
<1> USE DEF Inv
<1> DEFINE f == [Top(p) EXCEPT !.at = "lock"]
           g == HostFrame(p, ExitRecords, "none")
<1>1. /\ Top(p) \in Frames /\ Sound(p, Depth(p), Top(p)) /\ Top(p).at = "id"
      /\ Depth(p) \in Nat /\ Depth(p) >= 1 /\ Depth(p) \in 1 .. Depth(p) /\ Top(p) = stack[p][Depth(p)]
  BY TopFacts DEF apic_id
<1>2. f \in Frames /\ f.cause = Top(p).cause /\ f.at = "lock" /\ Sound(p, Depth(p), f)
  BY <1>1 DEF Frames, Ats, Sound
<1>3. g \in Frames /\ g.at = "code" /\ g.cause # "interrupt" /\ Sound(p, Depth(p) + 1, g)
  BY HostFrameFacts, RecordsRange
<1>4. UNCHANGED <<machine, hit, holder, line>>
  BY DEF apic_id
<1>5. CASE Top(p).ctx # "guest"
  <2>1. Set(p, f)
    BY <1>5 DEF apic_id, AskedFor, Set, Top, ShapeInv
  <2> HIDE DEF f
  <2> QED
    BY <1>1, <1>2, <1>4, <2>1, SetAside
<1>6. CASE Top(p).ctx = "guest"
  <2>1. stack' = [[stack EXCEPT ![p][Depth(p)] = f] EXCEPT ![p] = Append(@, g)]
    BY <1>6 DEF apic_id, AskedFor, Top, ShapeInv
  <2> HIDE DEF f, g
  <2>2. /\ stack' \in [Processors -> Seq(Frames)]
        /\ Depth(p)' = Depth(p) + 1 /\ \A q \in Processors : q # p => Depth(q)' = Depth(q)
        /\ \A q \in Processors : \A d \in 1 .. Depth(q) :
              stack'[q][d] = IF q = p /\ d = Depth(p) THEN f ELSE stack[q][d]
        /\ stack'[p][Depth(p) + 1] = g
    <3>1. /\ stack' \in [Processors -> Seq(Frames)]
          /\ \A q \in Processors : Depth(q)' = IF q = p THEN Depth(p) + 1 ELSE Depth(q)
          /\ \A q \in Processors : \A d \in 1 .. Depth(q) :
                stack'[q][d] = IF q = p /\ d = Depth(p) THEN f ELSE stack[q][d]
          /\ stack'[p][Depth(p) + 1] = g
      BY <1>2, <1>3, <2>1, SetPushFacts, ZenonT(60)
    <3> QED
      BY <3>1
  <2>3. ASSUME NEW q \in Processors, NEW d \in 1 .. Depth(q)'
        PROVE  \/ d \in 1 .. Depth(q) /\ stack'[q][d] = stack[q][d] /\ ~(q = p /\ d = Depth(p))
               \/ q = p /\ d = Depth(p) /\ stack'[q][d] = f
               \/ q = p /\ d = Depth(p) + 1 /\ stack'[q][d] = g
    <3>1. d \in 1 .. Depth(q) \/ (q = p /\ d = Depth(p) + 1)
      BY <1>1, <2>2
    <3> QED
      BY <2>2, <3>1
  <2>4. ShapeInv'
    BY <1>1, <1>4, <2>2 DEF ShapeInv, machine
  <2>5. FramesInv'
    BY <1>2, <1>3, <1>4, <2>3 DEF FramesInv, Sound, machine
  <2>6. ASSUME NEW q \in Processors, NEW d \in 1 .. Depth(q)', stack'[q][d].at = "write"
        PROVE  /\ d \in 1 .. Depth(q) /\ stack'[q][d] = stack[q][d]
               /\ d < Depth(q)' => d < Depth(q)
    <3>1. d \in 1 .. Depth(q) /\ stack'[q][d] = stack[q][d] /\ ~(q = p /\ d = Depth(p))
      BY <1>2, <1>3, <2>3, <2>6
    <3> QED
      BY <1>1, <2>2, <3>1, TopFacts
  <2>7. \A q \in Processors : \A d \in 1 .. Depth(q) :
            d \in 1 .. Depth(q)' /\ (stack[q][d].at = "write" => stack'[q][d] = stack[q][d])
    BY <1>1, <2>2
  <2>8. LockInv'
    BY <1>4, <2>6, <2>7 DEF LockInv
  <2>9. LineInv'
    <3>1. \A q \in Processors : \A d \in 1 .. Depth(q)' :
              stack'[q][d].at = "write" /\ stack'[q][d].left = 0 => line' = <<>>
      BY <1>4, <2>6 DEF LineInv
    <3> QED
      BY <1>4, <3>1 DEF LineInv
  <2>10. ASSUME NEW q \in Processors, NEW d \in 2 .. Depth(q)', stack'[q][d].cause = "interrupt"
         PROVE  /\ vendor = "amd" /\ flags[q]
                /\ stack'[q][d - 1].ctx = "entering" /\ stack'[q][d - 1].at = "code"
    <3>1. d \in 1 .. Depth(q)' /\ d \in Nat
      BY <1>1, <2>2, TopFacts
    <3>2. d \in 2 .. Depth(q) /\ stack[q][d].cause = "interrupt"
      BY <1>1, <1>2, <1>3, <2>3, <2>10, <3>1
    <3>3. d - 1 \in 1 .. Depth(q) /\ ~(q = p /\ d - 1 = Depth(p))
      BY <1>1, <3>2, TopFacts
    <3>4. stack'[q][d - 1] = stack[q][d - 1]
      BY <2>2, <3>3
    <3> QED
      BY <3>2, <3>4 DEF InterruptedOnlyBetweenRecords
  <2>11. InterruptedOnlyBetweenRecords'
    BY <1>4, <2>10 DEF InterruptedOnlyBetweenRecords, machine
  <2> QED
    BY <2>4, <2>5, <2>8, <2>9, <2>11
<1> QED
  BY <1>5, <1>6

(* The host's frame that goes away does not hold the lock.                 *)
LEMMA ResumeInv == ASSUME Inv, NEW p \in Processors, Resume(p) PROVE Inv'
<1> USE DEF Inv
<1>1. /\ Top(p).at = "code" /\ Top(p).ctx = "host" /\ Sound(p, Depth(p), Top(p))
      /\ Depth(p) \in Nat /\ Depth(p) >= 1 /\ Top(p) = stack[p][Depth(p)]
      /\ stack' = [stack EXCEPT ![p] = SubSeq(@, 1, Depth(p) - 1)]
      /\ UNCHANGED <<machine, hit, holder, line>>
  BY TopFacts DEF Resume, Done
<1>2. Depth(p) > 1
  BY <1>1 DEF Sound, Bottom
<1>3. /\ stack' \in [Processors -> Seq(Frames)]
      /\ Depth(p)' = Depth(p) - 1 /\ \A q \in Processors : q # p => Depth(q)' = Depth(q)
      /\ \A q \in Processors : \A d \in 1 .. Depth(q)' : stack'[q][d] = stack[q][d]
  BY <1>1, <1>2, PopFacts
<1>4. \A q \in Processors : \A d \in 1 .. Depth(q)' : d \in 1 .. Depth(q)
  BY <1>1, <1>3
<1>5. ShapeInv'
  <2>1. \A q \in Processors : Depth(q)' >= 1
    BY <1>1, <1>2, <1>3 DEF ShapeInv
  <2> QED
    BY <1>1, <1>3, <2>1 DEF ShapeInv, machine
<1>6. FramesInv'
  BY <1>1, <1>3, <1>4 DEF FramesInv, Sound, machine
<1>7. \A q \in Processors : \A d \in 1 .. Depth(q) :
          stack[q][d].at = "write" => d \in 1 .. Depth(q)' /\ stack'[q][d] = stack[q][d]
  <2> SUFFICES ASSUME NEW q \in Processors, NEW d \in 1 .. Depth(q), stack[q][d].at = "write"
               PROVE  d \in 1 .. Depth(q)'
    BY <1>3
  <2>1. CASE q = p
    <3>1. d # Depth(p)
      BY <1>1, <2>1
    <3> QED
      BY <1>1, <1>3, <2>1, <3>1
  <2> QED
    BY <1>3, <2>1
<1>8. LockInv'
  <2>1. ASSUME NEW q \in Processors, NEW d \in 1 .. Depth(q)', stack'[q][d].at = "write"
        PROVE  holder = <<q, d>> /\ (d < Depth(q)' => q \in hit)
    <3>1. d \in 1 .. Depth(q) /\ stack[q][d].at = "write" /\ (d < Depth(q)' => d < Depth(q))
      BY <1>1, <1>3, <1>4, <2>1
    <3> QED
      BY <3>1 DEF LockInv
  <2> QED
    BY <1>1, <1>7, <2>1, ZenonT(60) DEF LockInv
<1>9. LineInv'
  <2>1. \A q \in Processors : \A d \in 1 .. Depth(q)' :
            stack'[q][d].at = "write" /\ stack'[q][d].left = 0 => line' = <<>>
    BY <1>1, <1>3, <1>4 DEF LineInv
  <2> QED
    BY <1>1, <2>1 DEF LineInv
<1>10. ASSUME NEW q \in Processors, NEW d \in 2 .. Depth(q)', stack'[q][d].cause = "interrupt"
       PROVE  /\ vendor = "amd" /\ flags[q]
              /\ stack'[q][d - 1].ctx = "entering" /\ stack'[q][d - 1].at = "code"
  <2>1. d \in 1 .. Depth(q)' /\ d - 1 \in 1 .. Depth(q)' /\ d \in 2 .. Depth(q)
    BY <1>1, <1>3, <1>4, TopFacts
  <2> QED
    BY <1>3, <1>10, <2>1 DEF InterruptedOnlyBetweenRecords
<1>11. InterruptedOnlyBetweenRecords'
  BY <1>1, <1>10 DEF InterruptedOnlyBetweenRecords, machine
<1> QED
  BY <1>5, <1>6, <1>8, <1>9, <1>11

-----------------------------------------------------------------------------
LEMMA InitInv == Init => Inv
<1> SUFFICES ASSUME Init PROVE Inv
  OBVIOUS
<1>1. flags \in [Processors -> BOOLEAN] /\ 0 \in 0 .. LineLength
  BY BoundAssumption DEF Init
<1> DEFINE F(p) == Frame("setup", flags[p], 1, "none")
<1>2. ASSUME NEW p \in Processors
      PROVE  F(p) \in Frames /\ F(p).at = "code" /\ Sound(p, 1, F(p))
  <2>1. flags[p] \in BOOLEAN
    BY <1>1
  <2> QED
    BY <1>1, <2>1 DEF Frame, Frames, Ctxs, Ats, Causes, Sound, Bottom
<1>3. ASSUME NEW p \in Processors
      PROVE  /\ stack[p] \in Seq(Frames) /\ Depth(p) = 1
             /\ stack[p][1] \in Frames /\ stack[p][1].at = "code" /\ Sound(p, 1, stack[p][1])
  <2>1. stack[p] = <<F(p)>>
    BY DEF Init
  <2> HIDE DEF F
  <2>2. stack[p] \in Seq(Frames) /\ Len(stack[p]) = 1 /\ stack[p][1] = F(p)
    BY <1>2, <2>1
  <2> QED
    BY <1>2, <2>2 DEF Depth
<1>4. stack = [p \in Processors |-> stack[p]]
  BY DEF Init
<1>5. ShapeInv
  BY <1>1, <1>3, <1>4 DEF Init, ShapeInv
<1>6. FramesInv /\ LockInv /\ InterruptedOnlyBetweenRecords
  BY <1>3 DEF Init, FramesInv, LockInv, InterruptedOnlyBetweenRecords
<1>7. LineInv
  BY <1>3 DEF Init, LineInv
<1> QED
  BY <1>5, <1>6, <1>7 DEF Inv

LEMMA NextInv == Inv /\ [Next]_vars => Inv'
<1> SUFFICES ASSUME Inv, [Next]_vars PROVE Inv'
  OBVIOUS
<1>1. CASE UNCHANGED vars
  BY <1>1 DEF vars, Inv, ShapeInv, FramesInv, Sound, LockInv, LineInv, InterruptedOnlyBetweenRecords,
             Depth
<1>2. CASE Next
  BY <1>2, LogInv, ApicIdInv, LockStepInv, WriteStrInv, UnlockInv, LoggedInv, InitializeInv, EnterInv,
     ExitInv, ResumeInv, InterruptInv, NmiInv, FaultInv DEF Next
<1> QED
  BY <1>1, <1>2

LEMMA Invariance == Spec => []Inv
<1> QED
  BY InitInv, NextInv, PTL DEF Spec

-----------------------------------------------------------------------------
(* Frames, flags and the lock keep their types, and the lock's holder is a *)
(* frame that exists and writes: a VM exit never returns past it.          *)
THEOREM TypeCorrect == Spec => []TypeOK
<1>1. Inv => TypeOK
  <2> SUFFICES ASSUME Inv PROVE TypeOK
    OBVIOUS
  <2>1. ASSUME NEW p \in Processors, NEW d \in 1 .. Depth(p)
        PROVE  /\ stack[p][d].ctx \in IF d = 1 THEN {"setup", "entering", "guest"}
                                              ELSE {"host", "panic"}
               /\ stack[p][d].at \in Ats /\ stack[p][d].left \in 0 .. LineLength
               /\ stack[p][d].todo \in 0 .. 3
    <3>1. stack[p][d] \in Frames /\ Sound(p, d, stack[p][d])
      BY TopFacts DEF Inv, FramesInv
    <3> QED
      BY <3>1 DEF Frames, Sound, Bottom
  <2>2. ASSUME holder # NoHolder
        PROVE  /\ holder[1] \in Processors /\ holder[2] \in 1 .. Depth(holder[1])
               /\ stack[holder[1]][holder[2]].at = "write"
    <3>1. PICK p \in Processors : \E d \in 1 .. Depth(p) : holder = <<p, d>> /\ stack[p][d].at = "write"
      BY <2>2 DEF Inv, LockInv
    <3>2. PICK d \in 1 .. Depth(p) : holder = <<p, d>> /\ stack[p][d].at = "write"
      BY <3>1
    <3>3. holder[1] = p /\ holder[2] = d
      BY <3>2
    <3> QED
      BY <3>2, <3>3
  <2> QED
    BY <2>1, <2>2 DEF Inv, ShapeInv, TypeOK
<1> QED
  BY <1>1, Invariance, PTL

(* The lock keeps the records of all processors, of guests, hosts and      *)
(* panics apart on the wire, even when an NMI takes a record's writer away *)
(* in the middle of it.                                                    *)
THEOREM RecordsDoNotMix == Spec => []LinesAreWhole
<1>1. Inv => LinesAreWhole
  BY DEF Inv, LineInv, LinesAreWhole
<1> QED
  BY <1>1, Invariance, PTL

(* InterruptGuard does what it is there for, on every processor and at any *)
(* depth: no interrupt makes the host panic inside log(), nor after a VM   *)
(* exit.                                                                   *)
THEOREM InterruptsStayOut == Spec => []InterruptedOnlyBetweenRecords
<1>1. Inv => InterruptedOnlyBetweenRecords
  BY DEF Inv
<1> QED
  BY <1>1, Invariance, PTL

(* A processor does not wait for itself: the exit of apic_id() is over, or *)
(* pending, before the lock is taken, and nothing but an NMI gets on top   *)
(* of the lock's holder.                                                   *)
THEOREM NoSelfDeadlock == Spec => []NoReentry
<1>1. Inv => NoReentry
  <2> SUFFICES ASSUME Inv, NEW p \in Processors, Top(p).at = "lock", holder # NoHolder, holder[1] = p
               PROVE  p \in hit
    BY DEF NoReentry
  <2>1. PICK q \in Processors : \E d \in 1 .. Depth(q) : holder = <<q, d>> /\ stack[q][d].at = "write"
    BY DEF Inv, LockInv
  <2>2. PICK d \in 1 .. Depth(q) : holder = <<q, d>> /\ stack[q][d].at = "write"
    BY <2>1
  <2>3. q = p
    BY <2>2
  <2>4. d # Depth(p)
    BY <2>2, <2>3 DEF Top
  <2>5. d < Depth(p)
    BY <2>3, <2>4, TopFacts DEF Inv
  <2> QED
    BY <2>2, <2>3, <2>5 DEF Inv, LockInv
<1> QED
  BY <1>1, Invariance, PTL
=============================================================================
