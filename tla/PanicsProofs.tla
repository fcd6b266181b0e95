---------------------------- MODULE PanicsProofs ----------------------------
(***************************************************************************)
(* Theorems about Panics, for every number of machines, every message and  *)
(* limit, and every depth of the frames.                                   *)
(***************************************************************************)
EXTENDS Panics, SequenceTheorems, TLAPS

-----------------------------------------------------------------------------
(* The invariant *)

Handlers == {"host", "assert_panic"}

Frame == {Execution(v) : v \in VMs}
         \cup {Assertion(v, e, h) : v \in VMs, e \in Messages \cup {NoMessage}, h \in Handlers}

TypeOK ==
    /\ limit \in [VMs -> Nat]
    /\ remaining \in [VMs -> Nat]
    /\ allowed \in [VMs -> Nat]
    /\ taken \in [VMs -> Nat]
    /\ handler \in [VMs -> Handlers]
    /\ frames \in Seq(Frame)
    /\ control \in Controls
    /\ crashed \in BOOLEAN

Depths == 1..Len(frames)

(* The frames of one machine are next to each other, its execution first.    *)
FramesOK ==
    /\ control = "host" <=> frames = <<>>
    /\ \A i \in Depths :
          IF frames[i].kind = "execution"
          THEN \A j \in 1..(i-1) : frames[j].vm # frames[i].vm
          ELSE i > 1 /\ frames[i-1].vm = frames[i].vm

(* Every step is taken from the steps that remain.                           *)
StepsAddUp ==
    \A v \in VMs :
        /\ allowed[v] # 0 => taken[v] + remaining[v] = allowed[v]
        /\ limit[v] # 0 => allowed[v] <= limit[v]

(* A machine that is limited and may go on has steps that remain.            *)
StepsRemain ==
    \A i \in Depths :
        (control = "run" \/ frames[i].vm # vm) /\ allowed[frames[i].vm] # 0 => remaining[frames[i].vm] # 0

(* Whether one of the first n frames fs is an assert_panic on v.             *)
Waits(fs, v, n) == \E i \in 1..n : fs[i].kind = "assert_panic" /\ fs[i].vm = v

Waiting(fs, v, n) == IF Waits(fs, v, n) THEN "assert_panic" ELSE "host"

(* The handler of a machine is the one of its innermost assert_panic, which  *)
(* keeps the one that was there before.                                      *)
HandlersOK ==
    /\ \A v \in VMs : handler[v] = Waiting(frames, v, Len(frames))
    /\ \A i \in Depths :
          frames[i].kind = "assert_panic" => frames[i].handler = Waiting(frames, frames[i].vm, i - 1)

(* While a panic unwinds, nothing changes who was told of it.                *)
PanicTold ==
    control = "failed" /\ panic # NoPanic =>
        /\ panic.told = handler[vm]
        /\ handler[vm] = "assert_panic" => message = panic.text

StepInv == TypeOK /\ FramesOK /\ StepsAddUp /\ StepsRemain

HandlerInv == HandlersOK /\ PanicTold

-----------------------------------------------------------------------------
(* Frames *)

(* The fields of a frame.                                                    *)
LEMMA FrameFields ==
    ASSUME NEW f \in Frame
    PROVE  /\ f.vm \in VMs
           /\ f.kind \in {"execution", "assert_panic"}
           /\ f.kind = "assert_panic" => f.handler \in Handlers
BY DEF Frame, Execution, Assertion

(* The frames after one is entered.                                          *)
LEMMA Pushed ==
    ASSUME NEW f \in Frame, frames \in Seq(Frame), frames' = Append(frames, f)
    PROVE  /\ frames' \in Seq(Frame)
           /\ Len(frames) \in Nat
           /\ Len(frames') = Len(frames) + 1
           /\ \A i \in 1..Len(frames) : frames'[i] = frames[i]
           /\ frames'[Len(frames) + 1] = f
           /\ frames' # <<>>
BY AppendProperties

(* The frames after the last one is left.                                    *)
LEMMA Popped ==
    ASSUME frames \in Seq(Frame), frames # <<>>, frames' = Below
    PROVE  /\ frames' \in Seq(Frame)
           /\ Len(frames) \in Nat \ {0}
           /\ Len(frames') = Len(frames) - 1
           /\ \A i \in 1..Len(frames') : frames'[i] = frames[i]
           /\ frames' # <<>> <=> Len(frames) > 1
<1>1. Len(frames) \in Nat \ {0} BY EmptySeq
<1>2. /\ frames' \in Seq(Frame)
      /\ Len(frames') = Len(frames) - 1
      /\ \A i \in 1..Len(frames') : frames'[i] = frames[i]
  <2> DEFINE n == Len(frames) - 1
  <2>1. n \in Nat /\ \A i \in 1..n : frames[i] \in Frame BY <1>1, LenProperties
  <2>2. frames' = SubSeq(frames, 1, n) BY DEF Below
  <2> HIDE DEF n
  <2>3. /\ SubSeq(frames, 1, n) \in Seq(Frame)
        /\ Len(SubSeq(frames, 1, n)) = IF 1 <= n THEN n - 1 + 1 ELSE 0
        /\ \A i \in 1..n - 1 + 1 : SubSeq(frames, 1, n)[i] = frames[1 + i - 1]
    BY <2>1, SubSeqProperties, 1 \in Int, n \in Int
  <2>4. Len(frames') = n BY <2>1, <2>2, <2>3
  <2>5. \A i \in 1..n : frames'[i] = frames[i] BY <2>1, <2>2, <2>3
  <2> QED BY <2>2, <2>3, <2>4, <2>5 DEF n
<1> QED BY <1>1, <1>2, EmptySeq

(* The last frame, when somebody executes.                                   *)
LEMMA TopFrame ==
    ASSUME TypeOK, FramesOK, control # "host"
    PROVE  /\ frames # <<>> /\ frames \in Seq(Frame)
           /\ Len(frames) \in Nat \ {0}
           /\ Top \in Frame
           /\ vm \in VMs
           /\ \A i \in 1..Len(frames) : frames[i] \in Frame /\ frames[i].vm \in VMs
<1>1. frames # <<>> /\ frames \in Seq(Frame) BY DEF TypeOK, FramesOK
<1>2. Len(frames) \in Nat \ {0} BY <1>1, EmptySeq
<1>3. \A i \in 1..Len(frames) : frames[i] \in Frame BY <1>1, LenProperties
<1> QED BY <1>1, <1>2, <1>3, FrameFields DEF Top, vm

-----------------------------------------------------------------------------
(* The steps *)

LEMMA InitSteps == Init => StepInv
<1> SUFFICES ASSUME Init PROVE StepInv OBVIOUS
<1>1. frames = <<>> /\ Len(frames) = 0 BY EmptySeq DEF Init
<1>2. limit \in [VMs -> Nat] BY PanicsAssumption DEF Init
<1>3. TypeOK BY <1>1, <1>2, EmptySeq DEF TypeOK, Init, Handlers, Controls
<1>4. Depths = {} BY <1>1 DEF Depths
<1>6. FramesOK /\ StepsRemain
  <2>1. control = "host" /\ frames = <<>> BY DEF Init
  <2>2. \A i \in Depths : FALSE BY <1>4
  <2>3. FramesOK BY <2>1, <2>2, Zenon DEF FramesOK
  <2>4. StepsRemain BY <2>2, Zenon DEF StepsRemain
  <2> QED BY <2>3, <2>4
<1>5. StepsAddUp
  <2> SUFFICES ASSUME NEW v \in VMs PROVE allowed[v] = 0 /\ 0 <= limit[v] BY DEF StepsAddUp
  <2> QED BY <1>2 DEF Init
<1> QED BY <1>3, <1>5, <1>6 DEF StepInv

(* No step confuses the types or the order of the frames, or loses a step.   *)
LEMMA ExecuteSteps == ASSUME StepInv, NEW v \in VMs, Execute(v) PROVE StepInv'
<1> USE DEF StepInv
<1>1. Execution(v) \in Frame /\ Execution(v).vm = v /\ Execution(v).kind = "execution"
  BY DEF Frame, Execution
<1>2. frames' = Append(frames, Execution(v)) /\ frames \in Seq(Frame) BY DEF Execute, TypeOK
<1>3. /\ frames' \in Seq(Frame)
      /\ Len(frames) \in Nat
      /\ Len(frames') = Len(frames) + 1
      /\ \A i \in 1..Len(frames) : frames'[i] = frames[i]
      /\ frames'[Len(frames) + 1] = Execution(v)
      /\ frames' # <<>>
  BY <1>1, <1>2, Pushed
<1>4. TypeOK' BY <1>3 DEF TypeOK, Execute, Controls
<1>5. \A i \in 1..Len(frames) : frames[i].vm # v
  BY <1>2, LenProperties DEF Execute, InUse
<1>6. FramesOK'
  <2> SUFFICES ASSUME NEW i \in 1..Len(frames')
               PROVE  IF frames'[i].kind = "execution"
                      THEN \A j \in 1..(i-1) : frames'[j].vm # frames'[i].vm
                      ELSE i > 1 /\ frames'[i-1].vm = frames'[i].vm
    BY <1>3 DEF FramesOK, Depths, Execute
  <2>1. CASE i = Len(frames) + 1 BY <2>1, <1>1, <1>3, <1>5
  <2>2. CASE i \in 1..Len(frames) BY <2>2, <1>3 DEF FramesOK, Depths
  <2> QED BY <2>1, <2>2, <1>3
<1>7. StepsAddUp' BY <1>3 DEF Execute, TypeOK, StepsAddUp
<1>8. StepsRemain'
  <2> SUFFICES ASSUME NEW i \in 1..Len(frames'), allowed'[frames'[i].vm] # 0
               PROVE  remaining'[frames'[i].vm] # 0
    BY DEF StepsRemain, Depths
  <2>1. CASE i = Len(frames) + 1 BY <2>1, <1>1, <1>3 DEF Execute, TypeOK
  <2>2. CASE i \in 1..Len(frames)
    <3>1. frames[i] \in Frame /\ frames[i].vm \in VMs /\ frames[i].vm # v
      BY <2>2, <1>2, <1>5, LenProperties, FrameFields
    <3>2. control = "run"
      <4>1. frames # <<>> BY <1>2, <1>3, <2>2, EmptySeq
      <4> QED BY <4>1 DEF Execute, FramesOK
    <3> QED BY <3>1, <3>2, <2>2, <1>3 DEF Execute, TypeOK, StepsRemain, Depths
  <2> QED BY <2>1, <2>2, <1>3
<1> QED BY <1>4, <1>6, <1>7, <1>8

(* Where the frames do not change.                                           *)
LEMMA FramesStay ==
    ASSUME FramesOK, UNCHANGED frames, control # "host", control' # "host"
    PROVE  FramesOK'
BY DEF FramesOK, Depths

(* A panic takes no steps.                                                   *)
LEMMA PanicSteps ==
    ASSUME StepInv, control # "host", NEW hs \in [VMs -> Handlers], NEW text, Panic(vm, hs, text),
           UNCHANGED <<remaining, frames, allowed, taken>>
    PROVE  StepInv'
<1> USE DEF StepInv
<1>1. control' = "failed" /\ limit' = limit /\ crashed' = crashed /\ handler' = hs BY DEF Panic
<1>2. TypeOK' BY <1>1 DEF TypeOK, Controls
<1>3. FramesOK' BY <1>1, FramesStay
<1>4. StepsAddUp' BY <1>1 DEF StepsAddUp
<1>5. StepsRemain' BY <1>1 DEF StepsRemain, Depths, vm, Top
<1> QED BY <1>2, <1>3, <1>4, <1>5

LEMMA NativeFailsSteps == ASSUME StepInv, NativeFails PROVE StepInv'
<1> USE DEF StepInv
<1>1. /\ control # "host" /\ control' = "failed"
      /\ UNCHANGED <<limit, remaining, handler, message, frames, crashed, allowed, taken>>
  BY DEF NativeFails, Running
<1>2. TypeOK' BY <1>1 DEF TypeOK, Controls
<1>3. FramesOK' BY <1>1, FramesStay
<1>4. StepsAddUp' BY <1>1 DEF StepsAddUp
<1>5. StepsRemain' BY <1>1 DEF StepsRemain, Depths, vm, Top
<1> QED BY <1>2, <1>3, <1>4, <1>5

LEMMA AssertPanicSteps ==
    ASSUME StepInv, NEW e \in Messages \cup {NoMessage}, AssertPanic(e)
    PROVE  StepInv'
<1> USE DEF StepInv
<1> DEFINE f == Assertion(vm, e, handler[vm])
           n == Len(frames)
<1>1. control = "run" BY DEF AssertPanic, Running
<1>2. /\ frames # <<>> /\ frames \in Seq(Frame) /\ n \in Nat \ {0}
      /\ vm \in VMs /\ vm = frames[n].vm
      /\ \A i \in 1..n : frames[i].vm \in VMs
  BY <1>1, TopFrame DEF vm, Top
<1>3. f \in Frame /\ f.vm = vm /\ f.kind = "assert_panic"
  <2>1. handler[vm] \in Handlers BY <1>2 DEF TypeOK
  <2>2. f \in Frame BY <1>2, <2>1 DEF Frame
  <2> QED BY <2>2 DEF Assertion
<1>4. frames' = Append(frames, f) BY DEF AssertPanic
<1> HIDE DEF f
<1>5. /\ frames' \in Seq(Frame)
      /\ Len(frames') = n + 1
      /\ \A i \in 1..n : frames'[i] = frames[i]
      /\ frames'[n + 1] = f
      /\ frames' # <<>>
  BY <1>2, <1>3, <1>4, Pushed
<1> HIDE DEF n
<1>6. TypeOK' BY <1>2, <1>5 DEF TypeOK, AssertPanic, Handlers
<1>7. FramesOK'
  <2> SUFFICES ASSUME NEW i \in 1..n + 1
               PROVE  IF frames'[i].kind = "execution"
                      THEN \A j \in 1..(i-1) : frames'[j].vm # frames'[i].vm
                      ELSE i > 1 /\ frames'[i-1].vm = frames'[i].vm
    BY <1>1, <1>5 DEF FramesOK, Depths, AssertPanic
  <2>1. CASE i = n + 1 BY <2>1, <1>2, <1>3, <1>5
  <2>2. CASE i \in 1..n BY <2>2, <1>2, <1>5 DEF FramesOK, Depths, n
  <2> QED BY <2>1, <2>2, <1>2
<1>8. StepsAddUp' BY DEF AssertPanic, StepsAddUp
<1>9. StepsRemain'
  <2> SUFFICES ASSUME NEW i \in 1..n + 1, allowed'[frames'[i].vm] # 0
               PROVE  remaining'[frames'[i].vm] # 0
    BY <1>5 DEF StepsRemain, Depths
  <2>1. \A j \in 1..n : allowed[frames[j].vm] # 0 => remaining[frames[j].vm] # 0
    BY <1>1 DEF StepsRemain, Depths, n
  <2>2. \E j \in 1..n : frames'[i].vm = frames[j].vm
    <3>1. CASE i = n + 1 BY <3>1, <1>2, <1>3, <1>5
    <3>2. CASE i \in 1..n BY <3>2, <1>5
    <3> QED BY <3>1, <3>2, <1>2
  <2> QED BY <2>1, <2>2 DEF AssertPanic
<1> QED BY <1>6, <1>7, <1>8, <1>9

(* Where the last frame is left: those below stay as they are.               *)
LEMMA FramesBelow ==
    ASSUME TypeOK, FramesOK, control # "host", frames' = Below,
           (control' = "host") <=> (frames' = <<>>)
    PROVE  FramesOK'
<1>1. frames # <<>> /\ frames \in Seq(Frame) BY TopFrame
<1>2. /\ Len(frames) \in Nat \ {0}
      /\ Len(frames') = Len(frames) - 1
      /\ \A i \in 1..Len(frames') : frames'[i] = frames[i]
  BY <1>1, Popped
<1> SUFFICES ASSUME NEW i \in 1..Len(frames')
             PROVE  IF frames'[i].kind = "execution"
                    THEN \A j \in 1..(i-1) : frames'[j].vm # frames'[i].vm
                    ELSE i > 1 /\ frames'[i-1].vm = frames'[i].vm
  BY DEF FramesOK, Depths
<1>3. i \in Depths /\ frames'[i] = frames[i] /\ \A j \in 1..(i-1) : frames'[j] = frames[j]
  BY <1>2 DEF Depths
<1>4. i > 1 => i - 1 \in 1..(i-1) BY <1>2
<1> QED BY <1>3, <1>4 DEF FramesOK

LEMMA ReturnSteps == ASSUME StepInv, Return PROVE StepInv'
<1> USE DEF StepInv
<1>1. control = "run" /\ frames' = Below /\ UNCHANGED <<remaining, allowed, taken>>
  BY DEF Return, Running
<1>2. /\ frames # <<>> /\ frames \in Seq(Frame) /\ Top \in Frame /\ vm \in VMs
      /\ Len(frames) \in Nat \ {0}
  BY <1>1, TopFrame
<1>3. /\ frames' \in Seq(Frame)
      /\ Len(frames') = Len(frames) - 1
      /\ \A i \in 1..Len(frames') : frames'[i] = frames[i]
      /\ frames' # <<>> <=> Len(frames) > 1
  BY <1>1, <1>2, Popped
<1>4. limit' = limit /\ crashed' = crashed BY DEF Return, Panic
<1>5. handler' \in [VMs -> Handlers] /\ control' \in Controls
  <2>1. CASE Top.kind = "assert_panic"
    <3>1. handler' = HandlersAfter(Top) /\ control' = "failed" BY <2>1 DEF Return, Panic
    <3> QED BY <2>1, <3>1, <1>2, FrameFields DEF HandlersAfter, TypeOK, Controls
  <2>2. CASE Top.kind # "assert_panic" BY <2>2 DEF Return, TypeOK, Controls
  <2> QED BY <2>1, <2>2
<1>6. TypeOK' BY <1>1, <1>3, <1>4, <1>5 DEF TypeOK
<1>7. FramesOK'
  <2>1. (control' = "host") <=> (frames' = <<>>)
    <3>1. CASE Top.kind = "assert_panic"
      <4>1. Len(frames) > 1 BY <3>1, <1>2 DEF FramesOK, Depths, Top
      <4>2. control' = "failed" BY <3>1 DEF Return, Panic
      <4> QED BY <4>1, <4>2, <1>3
    <3>2. CASE Top.kind # "assert_panic" BY <3>2, <1>1 DEF Return
    <3> QED BY <3>1, <3>2
  <2> QED BY <2>1, <1>1, FramesBelow
<1>8. StepsAddUp' BY <1>1, <1>4 DEF StepsAddUp
<1>9. StepsRemain'
  <2>1. \A i \in 1..Len(frames') : i \in Depths BY <1>2, <1>3 DEF Depths
  <2> QED BY <2>1, <1>1, <1>3 DEF StepsRemain, Depths
<1> QED BY <1>6, <1>7, <1>8, <1>9

LEMMA ExecutionFailsSteps == ASSUME StepInv, ExecutionFails PROVE StepInv'
<1> USE DEF StepInv
<1>1. /\ control = "failed" /\ frames' = Below /\ Top.kind = "execution"
      /\ UNCHANGED <<limit, remaining, handler, crashed, allowed, taken>>
      /\ control' \in Controls
      /\ (control' = "host") <=> (frames' = <<>>)
  BY DEF ExecutionFails, Controls
<1>2. /\ frames # <<>> /\ frames \in Seq(Frame) /\ Len(frames) \in Nat \ {0} /\ vm = frames[Len(frames)].vm
  BY <1>1, TopFrame DEF vm, Top
<1>3. /\ frames' \in Seq(Frame)
      /\ Len(frames') = Len(frames) - 1
      /\ \A i \in 1..Len(frames') : frames'[i] = frames[i]
  BY <1>1, <1>2, Popped
<1>4. TypeOK' BY <1>1, <1>3 DEF TypeOK
<1>5. FramesOK' BY <1>1, FramesBelow
<1>6. StepsAddUp' BY <1>1 DEF StepsAddUp
<1>7. \A i \in 1..Len(frames') : i \in Depths /\ frames[i].vm # vm
  <2>1. Len(frames) \in Depths /\ frames[Len(frames)].kind = "execution" BY <1>1, <1>2 DEF Depths, Top
  <2> QED BY <2>1, <1>2, <1>3 DEF FramesOK, Depths
<1>8. StepsRemain' BY <1>1, <1>3, <1>7 DEF StepsRemain, Depths
<1> QED BY <1>4, <1>5, <1>6, <1>8

(* A process that goes on after it has used up its steps is not limited.     *)
LEMMA AssertPanicEndsSteps == ASSUME StepInv, AssertPanicEnds PROVE StepInv'
<1> USE DEF StepInv
<1>1. control = "failed" /\ Top.kind = "assert_panic" /\ UNCHANGED <<limit, remaining, taken>>
  BY DEF AssertPanicEnds, Panic
<1>2. /\ frames # <<>> /\ frames \in Seq(Frame) /\ Len(frames) \in Nat \ {0}
      /\ Top \in Frame /\ vm \in VMs /\ vm = frames[Len(frames)].vm
      /\ \A i \in 1..Len(frames) : frames[i].vm \in VMs
  BY <1>1, TopFrame DEF vm, Top
<1>3. CASE UNCHANGED <<handler, frames, control, allowed>> /\ crashed' = TRUE
  <2>1. TypeOK' BY <1>1, <1>3 DEF TypeOK
  <2>2. FramesOK' BY <1>1, <1>3, FramesStay
  <2>3. StepsAddUp' BY <1>1, <1>3 DEF StepsAddUp
  <2>4. StepsRemain' BY <1>1, <1>3 DEF StepsRemain, Depths, vm, Top
  <2> QED BY <2>1, <2>2, <2>3, <2>4
<1>4. CASE /\ frames' = Below /\ Resumed /\ crashed' = crashed
           /\ handler' = HandlersAfter(Top) /\ control' \in {"run", "failed"}
  <2>1. /\ frames' \in Seq(Frame)
        /\ Len(frames') = Len(frames) - 1
        /\ \A i \in 1..Len(frames') : frames'[i] = frames[i]
        /\ frames' # <<>> <=> Len(frames) > 1
    BY <1>4, <1>2, Popped
  <2>2. allowed' = [allowed EXCEPT ![vm] = IF remaining[vm] = 0 THEN 0 ELSE allowed[vm]]
    BY <1>4 DEF Resumed
  <2>3. handler' \in [VMs -> Handlers] BY <1>1, <1>2, <1>4, FrameFields DEF HandlersAfter, TypeOK
  <2>4. TypeOK' BY <1>1, <1>2, <1>4, <2>1, <2>2, <2>3 DEF TypeOK, Controls
  <2>5. FramesOK'
    <3>1. Len(frames) > 1 BY <1>1, <1>2 DEF FramesOK, Depths, Top
    <3> QED BY <3>1, <2>1, <1>1, <1>4, FramesBelow
  <2>6. StepsAddUp' BY <1>1, <1>2, <2>2 DEF StepsAddUp, TypeOK
  <2>7. StepsRemain'
    <3> SUFFICES ASSUME NEW i \in 1..Len(frames'), allowed'[frames'[i].vm] # 0
                 PROVE  remaining'[frames'[i].vm] # 0
      BY DEF StepsRemain, Depths
    <3>1. i \in Depths /\ frames'[i] = frames[i] /\ frames[i].vm \in VMs BY <1>2, <2>1 DEF Depths
    <3>2. CASE frames[i].vm = vm BY <3>1, <3>2, <1>1, <2>2 DEF TypeOK
    <3>3. CASE frames[i].vm # vm BY <3>1, <3>3, <1>1, <2>2 DEF TypeOK, StepsRemain
    <3> QED BY <3>2, <3>3
  <2> QED BY <2>4, <2>5, <2>6, <2>7
<1> QED BY <1>3, <1>4 DEF AssertPanicEnds, Panic

LEMMA SetStepLimitSteps == ASSUME StepInv, NEW n \in StepLimits, SetStepLimit(n) PROVE StepInv'
<1> USE DEF StepInv
<1>1. control = "run" /\ frames' = frames BY DEF SetStepLimit, Running
<1>2. vm \in VMs /\ \A i \in 1..Len(frames) : frames[i].vm \in VMs BY <1>1, TopFrame
<1>3. n \in Nat BY PanicsAssumption
<1>4. CASE MaySet(n)
  <2>1. /\ remaining' = [remaining EXCEPT ![vm] = n]
        /\ allowed' = [allowed EXCEPT ![vm] = n]
        /\ taken' = [taken EXCEPT ![vm] = 0]
        /\ UNCHANGED <<limit, handler, control, crashed>>
    BY <1>4 DEF SetStepLimit
  <2>2. TypeOK' BY <1>1, <1>2, <1>3, <2>1 DEF TypeOK
  <2>3. FramesOK' BY <1>1, <2>1, FramesStay
  <2>4. StepsAddUp' BY <1>2, <1>3, <1>4, <2>1 DEF StepsAddUp, TypeOK, MaySet
  <2>5. StepsRemain' BY <1>1, <1>2, <1>4, <2>1 DEF StepsRemain, Depths, TypeOK, MaySet
  <2> QED BY <2>2, <2>3, <2>4, <2>5
<1>5. CASE ~MaySet(n)
  <2>1. Panic(vm, handler, "step limit") /\ UNCHANGED <<remaining, frames, allowed, taken>>
    BY <1>5, <1>1 DEF SetStepLimit
  <2>2. handler \in [VMs -> Handlers] BY DEF TypeOK
  <2> QED BY <2>1, <2>2, <1>1, PanicSteps
<1> QED BY <1>4, <1>5

LEMMA StepSteps == ASSUME StepInv, Step PROVE StepInv'
<1> USE DEF StepInv
<1>1. /\ control = "run"
      /\ remaining' = [remaining EXCEPT ![vm] = IF remaining[vm] > 0 THEN remaining[vm] - 1 ELSE remaining[vm]]
      /\ taken' = [taken EXCEPT ![vm] = IF allowed[vm] # 0 THEN taken[vm] + 1 ELSE taken[vm]]
      /\ UNCHANGED <<limit, handler, crashed, frames, allowed>>
      /\ control' = IF remaining[vm] = 1 THEN "failed" ELSE "run"
  BY DEF Step, Running, Panic, Exceeds
<1>2. /\ frames # <<>> /\ Len(frames) \in Nat \ {0}
      /\ vm \in VMs /\ vm = frames[Len(frames)].vm
      /\ \A i \in 1..Len(frames) : frames[i].vm \in VMs
  BY <1>1, TopFrame DEF vm, Top
<1>3. TypeOK' BY <1>1, <1>2 DEF TypeOK, Controls
<1>4. FramesOK' BY <1>1, FramesStay
<1>5. allowed[vm] # 0 => remaining[vm] # 0 BY <1>1, <1>2 DEF StepsRemain, Depths
<1>6. StepsAddUp' BY <1>1, <1>2, <1>5 DEF StepsAddUp, TypeOK
<1>7. vm' = vm BY <1>1 DEF vm, Top
<1>8. StepsRemain'
  <2> SUFFICES ASSUME NEW i \in Depths, control' = "run" \/ frames[i].vm # vm, allowed[frames[i].vm] # 0
               PROVE  remaining'[frames[i].vm] # 0
    BY <1>1, <1>7 DEF StepsRemain, Depths
  <2>1. frames[i].vm \in VMs /\ remaining[frames[i].vm] # 0 BY <1>1, <1>2 DEF StepsRemain, Depths
  <2>2. CASE frames[i].vm = vm BY <2>1, <2>2, <1>1 DEF TypeOK
  <2>3. CASE frames[i].vm # vm BY <2>1, <2>3, <1>1 DEF TypeOK
  <2> QED BY <2>2, <2>3
<1> QED BY <1>3, <1>4, <1>6, <1>8

LEMMA NextSteps == ASSUME StepInv, [Next]_vars PROVE StepInv'
<1>1. ASSUME NEW v \in VMs, Execute(v) PROVE StepInv' BY <1>1, ExecuteSteps
<1>2. ASSUME NEW text \in Messages \cup {NoMessage}, PanicWith(text) PROVE StepInv'
  <2>1. /\ control # "host" /\ Panic(vm, handler, text) /\ handler \in [VMs -> Handlers]
        /\ UNCHANGED <<remaining, frames, allowed, taken>>
    BY <1>2 DEF PanicWith, Running, StepInv, TypeOK
  <2> QED BY <2>1, PanicSteps
<1>3. ASSUME NEW text \in Messages \cup {NoMessage}, AssertPanic(text) PROVE StepInv'
  BY <1>3, AssertPanicSteps
<1>4. ASSUME NEW n \in StepLimits, SetStepLimit(n) PROVE StepInv' BY <1>4, SetStepLimitSteps
<1>5. CASE UNCHANGED vars
  BY <1>5 DEF vars, StepInv, TypeOK, FramesOK, StepsAddUp, StepsRemain, Depths, vm, Top
<1> QED
  BY <1>1, <1>2, <1>3, <1>4, <1>5, NativeFailsSteps, ReturnSteps, ExecutionFailsSteps,
     AssertPanicEndsSteps, StepSteps
  DEF Next

LEMMA StepInvariant == Spec => []StepInv
BY InitSteps, NextSteps, PTL DEF Spec

(* A process that goes on has taken fewer steps than the limit that was last *)
(* set, which is no more than the limit of its machine, for every limit and  *)
(* every nesting of machines and of assert_panic: what it has taken and what *)
(* remains add up to the limit, and something remains for all that can go on.*)
THEOREM StepsAreLimited == Spec => []StepsWithinLimit
<1>1. StepInv => StepsWithinLimit
  <2> SUFFICES ASSUME StepInv PROVE StepsWithinLimit OBVIOUS
  <2>1. ASSUME Running, allowed[vm] # 0 PROVE taken[vm] < allowed[vm]
    <3>1. control = "run" BY <2>1 DEF Running
    <3>2. vm \in VMs /\ Len(frames) \in Depths /\ frames[Len(frames)].vm = vm
      BY <3>1, TopFrame DEF StepInv, vm, Top, Depths
    <3>3. remaining[vm] # 0 BY <2>1, <3>1, <3>2 DEF StepInv, StepsRemain
    <3> QED BY <2>1, <3>2, <3>3 DEF StepInv, TypeOK, StepsAddUp
  <2>2. \A v \in VMs : limit[v] # 0 => allowed[v] <= limit[v] BY DEF StepInv, StepsAddUp
  <2> QED BY <2>1, <2>2 DEF StepsWithinLimit
<1> QED BY <1>1, StepInvariant, PTL

-----------------------------------------------------------------------------
(* The handlers *)

(* What waits among some frames does not depend on those above.              *)
LEMMA WaitingStays ==
    ASSUME NEW fs, NEW gs, NEW v, NEW n \in Nat, \A i \in 1..n : gs[i] = fs[i]
    PROVE  Waiting(gs, v, n) = Waiting(fs, v, n)
BY DEF Waiting, Waits

LEMMA WaitingNext ==
    ASSUME NEW fs, NEW v, NEW n \in Nat
    PROVE  /\ fs[n + 1].kind = "assert_panic" /\ fs[n + 1].vm = v => Waiting(fs, v, n + 1) = "assert_panic"
           /\ ~(fs[n + 1].kind = "assert_panic" /\ fs[n + 1].vm = v) => Waiting(fs, v, n + 1) = Waiting(fs, v, n)
<1>1. \A i : i \in 1..n + 1 <=> (i \in 1..n \/ i = n + 1) OBVIOUS
<1>2. Waits(fs, v, n + 1) <=> Waits(fs, v, n) \/ (fs[n + 1].kind = "assert_panic" /\ fs[n + 1].vm = v)
  BY <1>1, Zenon DEF Waits
<1> QED BY <1>2 DEF Waiting

LEMMA InitHandlers == Init => HandlerInv
<1> SUFFICES ASSUME Init PROVE HandlerInv OBVIOUS
<1>1. Len(frames) = 0 BY EmptySeq DEF Init
<1>2. Depths = {} BY <1>1 DEF Depths
<1>3. \A v \in VMs : Waiting(frames, v, Len(frames)) = "host" BY <1>2, Zenon DEF Waiting, Waits, Depths
<1>4. \A v \in VMs : handler[v] = "host" BY DEF Init
<1> QED BY <1>2, <1>3, <1>4 DEF HandlerInv, HandlersOK, PanicTold, Init

(* Where neither the frames nor the handlers change.                         *)
LEMMA HandlersStay ==
    ASSUME HandlersOK, UNCHANGED <<frames, handler>>
    PROVE  HandlersOK'
BY DEF HandlersOK, Depths

(* Where the frame f is entered: only an assert_panic changes a handler.     *)
LEMMA HandlersPushed ==
    ASSUME HandlersOK, handler \in [VMs -> Handlers], NEW f \in Frame, frames \in Seq(Frame),
           frames' = Append(frames, f),
           f.kind = "assert_panic" =>
               f.handler = handler[f.vm] /\ handler' = [handler EXCEPT ![f.vm] = "assert_panic"],
           f.kind # "assert_panic" => handler' = handler
    PROVE  HandlersOK'
<1> DEFINE n == Len(frames)
           fs == frames'
<1>1. /\ n \in Nat
      /\ Len(fs) = n + 1
      /\ \A i \in 1..n : fs[i] = frames[i]
      /\ fs[n + 1] = f
  BY Pushed
<1> HIDE DEF n, fs
<1>2. ASSUME NEW v, NEW k \in 0..n PROVE Waiting(fs, v, k) = Waiting(frames, v, k)
  <2>1. \A j \in 1..k : fs[j] = frames[j] BY <1>1
  <2> QED BY <2>1, Zenon DEF Waiting, Waits
<1>3. ASSUME NEW v \in VMs PROVE handler'[v] = Waiting(fs, v, n + 1)
  <2>1. handler[v] = Waiting(frames, v, n) BY DEF HandlersOK, n
  <2>2. n \in 0..n /\ n \in Nat BY <1>1
  <2>3. Waiting(fs, v, n) = Waiting(frames, v, n) BY <1>2, <2>2
  <2>4. CASE f.kind = "assert_panic" /\ f.vm = v
    <3>1. fs[n + 1].kind = "assert_panic" /\ fs[n + 1].vm = v BY <1>1, <2>4
    <3>2. Waiting(fs, v, n + 1) = "assert_panic" BY <2>2, <3>1, WaitingNext, Zenon
    <3> QED BY <2>4, <3>2
  <2>5. CASE ~(f.kind = "assert_panic" /\ f.vm = v)
    <3>1. ~(fs[n + 1].kind = "assert_panic" /\ fs[n + 1].vm = v) BY <1>1, <2>5
    <3>2. Waiting(fs, v, n + 1) = Waiting(fs, v, n) BY <2>2, <3>1, WaitingNext, Zenon
    <3> QED BY <2>1, <2>3, <2>5, <3>2
  <2> QED BY <2>4, <2>5
<1>4. ASSUME NEW i \in 1..n + 1, fs[i].kind = "assert_panic"
      PROVE  fs[i].handler = Waiting(fs, fs[i].vm, i - 1)
  <2>1. CASE i = n + 1
    <3>1. f.vm \in VMs BY FrameFields
    <3>2. handler[f.vm] = Waiting(frames, f.vm, n) BY <3>1 DEF HandlersOK, n
    <3>3. Waiting(fs, f.vm, n) = Waiting(frames, f.vm, n) BY <1>1, <1>2
    <3> QED BY <2>1, <3>2, <3>3, <1>1, <1>4
  <2>2. CASE i \in 1..n
    <3>1. fs[i] = frames[i] /\ i - 1 \in 0..n BY <2>2, <1>1
    <3>2. frames[i].handler = Waiting(frames, frames[i].vm, i - 1)
      BY <2>2, <3>1, <1>4 DEF HandlersOK, Depths, n
    <3> QED BY <3>1, <3>2, <1>2
  <2> QED BY <2>1, <2>2, <1>1
<1> QED BY <1>1, <1>3, <1>4 DEF HandlersOK, Depths, fs

(* Where the last frame is left: an assert_panic restores the handler.       *)
LEMMA HandlersPopped ==
    ASSUME HandlersOK, handler \in [VMs -> Handlers], frames \in Seq(Frame), frames # <<>>,
           frames' = Below,
           Top.kind = "assert_panic" => handler' = HandlersAfter(Top),
           Top.kind # "assert_panic" => handler' = handler
    PROVE  HandlersOK'
<1> DEFINE n == Len(frames) - 1
<1>1. /\ n \in Nat
      /\ n + 1 = Len(frames)
      /\ Len(frames') = n
      /\ \A i \in 1..n : frames'[i] = frames[i]
      /\ Top = frames[n + 1]
  BY Popped DEF Top
<1> HIDE DEF n
<1>2. ASSUME NEW v, NEW k \in 0..n PROVE Waiting(frames', v, k) = Waiting(frames, v, k)
  <2>1. \A j \in 1..k : frames'[j] = frames[j] BY <1>1
  <2> QED BY <2>1, Zenon DEF Waiting, Waits
<1>3. ASSUME NEW v \in VMs PROVE handler'[v] = Waiting(frames', v, n)
  <2>1. handler[v] = Waiting(frames, v, n + 1) BY <1>1 DEF HandlersOK
  <2>2. n \in 0..n /\ n \in Nat BY <1>1
  <2>3. Waiting(frames', v, n) = Waiting(frames, v, n) BY <1>2, <2>2
  <2>4. CASE Top.kind = "assert_panic" /\ Top.vm = v
    <3>1. Top.handler = Waiting(frames, v, n + 1 - 1) BY <2>4, <1>1 DEF HandlersOK, Depths
    <3>2. n + 1 - 1 = n BY <1>1
    <3> QED BY <2>3, <2>4, <3>1, <3>2 DEF HandlersAfter
  <2>5. CASE ~(Top.kind = "assert_panic" /\ Top.vm = v)
    <3>1. Waiting(frames, v, n + 1) = Waiting(frames, v, n) BY <1>1, <2>2, <2>5, WaitingNext, Zenon
    <3>2. handler'[v] = handler[v] BY <2>5 DEF HandlersAfter
    <3> QED BY <2>1, <2>3, <3>1, <3>2
  <2> QED BY <2>4, <2>5
<1>4. ASSUME NEW i \in 1..n, frames'[i].kind = "assert_panic"
      PROVE  frames'[i].handler = Waiting(frames', frames'[i].vm, i - 1)
  <2>1. frames'[i] = frames[i] /\ i - 1 \in 0..n /\ i \in Depths BY <1>1 DEF Depths
  <2>2. frames[i].handler = Waiting(frames, frames[i].vm, i - 1) BY <2>1, <1>4 DEF HandlersOK
  <2> QED BY <2>1, <2>2, <1>2
<1> QED BY <1>1, <1>3, <1>4 DEF HandlersOK, Depths

(* Below an assert_panic, its machine goes on.                               *)
LEMMA SameMachine ==
    ASSUME TypeOK, FramesOK, frames # <<>>, Top.kind = "assert_panic", frames' = Below
    PROVE  vm' = vm
<1>1. frames \in Seq(Frame) BY DEF TypeOK
<1>2. /\ Len(frames) \in Nat \ {0}
      /\ Len(frames') = Len(frames) - 1
      /\ \A i \in 1..Len(frames') : frames'[i] = frames[i]
  BY <1>1, Popped
<1>3. Len(frames) > 1 /\ frames[Len(frames) - 1].vm = frames[Len(frames)].vm
  BY <1>2 DEF FramesOK, Depths, Top
<1>4. frames'[Len(frames')] = frames[Len(frames) - 1] BY <1>2, <1>3
<1> QED BY <1>3, <1>4 DEF vm, Top

(* A panic is told to the handler that its machine has then.                 *)
LEMMA PanicTells ==
    ASSUME NEW hs, NEW text, Panic(vm', hs, text)
    PROVE  PanicTold'
BY DEF Panic, PanicTold

LEMMA PanicHandlers ==
    ASSUME HandlerInv, NEW text, Panic(vm, handler, text), UNCHANGED frames
    PROVE  HandlerInv'
<1>1. vm' = vm BY DEF vm, Top
<1>2. handler' = handler BY DEF Panic
<1>3. PanicTold' BY <1>1, PanicTells
<1> QED BY <1>2, <1>3, HandlersStay DEF HandlerInv

LEMMA ExecuteHandlers == ASSUME StepInv, HandlerInv, NEW v \in VMs, Execute(v) PROVE HandlerInv'
<1>1. Execution(v) \in Frame /\ Execution(v).kind = "execution" BY DEF Frame, Execution
<1>2. /\ frames' = Append(frames, Execution(v)) /\ frames \in Seq(Frame)
      /\ handler' = handler /\ handler \in [VMs -> Handlers] /\ control' = "run"
  BY DEF Execute, StepInv, TypeOK
<1>3. HandlersOK' BY <1>1, <1>2, HandlersPushed DEF HandlerInv
<1> QED BY <1>2, <1>3 DEF HandlerInv, PanicTold

LEMMA AssertPanicHandlers ==
    ASSUME StepInv, HandlerInv, NEW e \in Messages \cup {NoMessage}, AssertPanic(e)
    PROVE  HandlerInv'
<1> DEFINE f == Assertion(vm, e, handler[vm])
<1>1. control = "run" /\ control' = "run" /\ frames' = Append(frames, f)
      /\ handler' = [handler EXCEPT ![vm] = "assert_panic"]
  BY DEF AssertPanic, Running
<1>2. frames \in Seq(Frame) /\ vm \in VMs BY <1>1, TopFrame DEF StepInv
<1>3. handler \in [VMs -> Handlers] BY DEF StepInv, TypeOK
<1>4. f \in Frame
  <2>1. handler[vm] \in Handlers BY <1>2, <1>3
  <2> QED BY <1>2, <2>1 DEF Frame
<1>5. f.kind = "assert_panic" /\ f.vm = vm /\ f.handler = handler[vm] BY DEF Assertion
<1> HIDE DEF f
<1>6. HandlersOK' BY <1>1, <1>2, <1>3, <1>4, <1>5, HandlersPushed DEF HandlerInv
<1> QED BY <1>1, <1>6 DEF HandlerInv, PanicTold

LEMMA ReturnHandlers == ASSUME StepInv, HandlerInv, Return PROVE HandlerInv'
<1>1. control = "run" /\ frames' = Below BY DEF Return, Running
<1>2. /\ frames # <<>> /\ frames \in Seq(Frame) /\ Len(frames) \in Nat \ {0}
      /\ handler \in [VMs -> Handlers]
  BY <1>1, TopFrame DEF StepInv, TypeOK
<1>3. CASE Top.kind = "assert_panic"
  <2>1. Panic(vm, HandlersAfter(Top), "assert_panic") BY <1>3 DEF Return
  <2>2. handler' = HandlersAfter(Top) BY <2>1 DEF Panic
  <2>3. HandlersOK' BY <1>1, <1>2, <1>3, <2>2, HandlersPopped DEF HandlerInv
  <2>4. vm' = vm BY <1>1, <1>2, <1>3, SameMachine DEF StepInv
  <2>5. PanicTold' BY <2>1, <2>4, PanicTells
  <2> QED BY <2>3, <2>5 DEF HandlerInv
<1>4. CASE Top.kind # "assert_panic"
  <2>1. handler' = handler /\ control' # "failed" BY <1>4 DEF Return
  <2>2. HandlersOK' BY <1>1, <1>2, <1>4, <2>1, HandlersPopped DEF HandlerInv
  <2> QED BY <2>1, <2>2 DEF HandlerInv, PanicTold
<1> QED BY <1>3, <1>4

LEMMA ExecutionFailsHandlers == ASSUME StepInv, HandlerInv, ExecutionFails PROVE HandlerInv'
<1>1. /\ control = "failed" /\ Top.kind = "execution" /\ frames' = Below
      /\ handler' = handler /\ panic' = NoPanic
  BY DEF ExecutionFails
<1>2. frames # <<>> /\ frames \in Seq(Frame) /\ handler \in [VMs -> Handlers]
  BY <1>1, TopFrame DEF StepInv, TypeOK
<1>3. HandlersOK' BY <1>1, <1>2, HandlersPopped DEF HandlerInv
<1> QED BY <1>1, <1>3 DEF HandlerInv, PanicTold, NoPanic

LEMMA AssertPanicEndsHandlers == ASSUME StepInv, HandlerInv, AssertPanicEnds PROVE HandlerInv'
<1>1. control = "failed" /\ Top.kind = "assert_panic" BY DEF AssertPanicEnds
<1>2. /\ frames # <<>> /\ frames \in Seq(Frame) /\ Len(frames) \in Nat \ {0}
      /\ handler \in [VMs -> Handlers]
  BY <1>1, TopFrame DEF StepInv, TypeOK
<1>3. CASE UNCHANGED <<handler, message, frames, control, panic>>
  <2>1. HandlersOK' BY <1>3, HandlersStay DEF HandlerInv
  <2>2. vm' = vm BY <1>3 DEF vm, Top
  <2>3. PanicTold' BY <1>3, <2>2 DEF HandlerInv, PanicTold, NoPanic
  <2> QED BY <2>1, <2>3 DEF HandlerInv
<1>4. CASE /\ frames' = Below /\ handler' = HandlersAfter(Top)
           /\ control' # "failed" \/ Panic(vm, HandlersAfter(Top), "assert_panic")
  <2>1. HandlersOK' BY <1>1, <1>2, <1>4, HandlersPopped DEF HandlerInv
  <2>2. vm' = vm BY <1>1, <1>2, <1>4, SameMachine DEF StepInv
  <2>3. PanicTold' BY <1>4, <2>2, PanicTells DEF PanicTold
  <2> QED BY <2>1, <2>3 DEF HandlerInv
<1> QED BY <1>3, <1>4 DEF AssertPanicEnds, Panic

LEMMA NextHandlers == ASSUME StepInv, HandlerInv, [Next]_vars PROVE HandlerInv'
<1>1. ASSUME NEW v \in VMs, Execute(v) PROVE HandlerInv' BY <1>1, ExecuteHandlers
<1>2. ASSUME NEW text \in Messages \cup {NoMessage}, PanicWith(text) PROVE HandlerInv'
  BY <1>2, PanicHandlers DEF PanicWith
<1>3. ASSUME NEW text \in Messages \cup {NoMessage}, AssertPanic(text) PROVE HandlerInv'
  BY <1>3, AssertPanicHandlers
<1>4. ASSUME UNCHANGED <<frames, handler>>, control' # "failed" \/ panic' = NoPanic
      PROVE  HandlerInv'
  BY <1>4, HandlersStay DEF HandlerInv, PanicTold, NoPanic
<1>5. CASE NativeFails BY <1>5, <1>4 DEF NativeFails
<1>6. ASSUME NEW n \in StepLimits, SetStepLimit(n) PROVE HandlerInv'
  BY <1>4, <1>6, PanicHandlers DEF SetStepLimit, Running
<1>7. CASE Step BY <1>4, <1>7, PanicHandlers DEF Step, Running
<1>8. CASE UNCHANGED vars
  <2>1. UNCHANGED <<frames, handler, message, control, panic>> BY <1>8 DEF vars
  <2>2. vm' = vm BY <2>1 DEF vm, Top
  <2>3. PanicTold' BY <2>1, <2>2 DEF HandlerInv, PanicTold, NoPanic
  <2> QED BY <2>1, <2>3, HandlersStay DEF HandlerInv
<1> QED
  BY <1>1, <1>2, <1>3, <1>5, <1>6, <1>7, <1>8, ReturnHandlers, ExecutionFailsHandlers,
     AssertPanicEndsHandlers
  DEF Next

LEMMA HandlerInvariant == Spec => []HandlerInv
<1>1. Init => HandlerInv BY InitHandlers
<1>2. StepInv /\ HandlerInv /\ [Next]_vars => HandlerInv' BY NextHandlers
<1> QED BY <1>1, <1>2, StepInvariant, PTL DEF Spec

(* A panic is told to the innermost assert_panic of its machine or to the    *)
(* host, and the message that is kept is its own, for every nesting: each    *)
(* assert_panic keeps the handler of the next one below it on the machine,   *)
(* so the handler is always the one of what waits.                           *)
THEOREM PanicsAreTold == Spec => []PanicsReachWhoWaits
<1>1. StepInv /\ HandlerInv => PanicsReachWhoWaits
  <2> SUFFICES ASSUME StepInv, HandlerInv, control = "failed", panic # NoPanic
               PROVE  LET waits == \E i \in DOMAIN frames : frames[i].kind = "assert_panic" /\ frames[i].vm = vm
                      IN  /\ panic.told = IF waits THEN "assert_panic" ELSE "host"
                          /\ waits => message = panic.text
    BY DEF PanicsReachWhoWaits
  <2>1. vm \in VMs /\ frames \in Seq(Frame) BY TopFrame DEF StepInv
  <2>2. handler[vm] = Waiting(frames, vm, Len(frames)) BY <2>1 DEF HandlerInv, HandlersOK
  <2>3. DOMAIN frames = 1..Len(frames) BY <2>1, LenProperties
  <2>4. /\ panic.told = Waiting(frames, vm, Len(frames))
        /\ Waits(frames, vm, Len(frames)) => message = panic.text
    BY <2>2 DEF HandlerInv, PanicTold, Waiting
  <2> QED BY <2>3, <2>4 DEF Waiting, Waits
<1> QED BY <1>1, StepInvariant, HandlerInvariant, PTL
=============================================================================
