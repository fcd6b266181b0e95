------------------------------- MODULE Panics -------------------------------
(***************************************************************************)
(* Panics, who is told of them, and the limit of steps that causes one:    *)
(* lauf_runtime_panic and the step limit of process.cpp, the builtins of   *)
(* lib/limits.cpp, and lauf.test.assert_panic of lib/test.cpp, which puts  *)
(* its own panic handler into the virtual machine, runs a function that    *)
(* has to panic, and goes on.                                              *)
(*                                                                         *)
(* What makes it hard: assert_panic nests, also through a native function  *)
(* that executes a program on another virtual machine; the handlers are of *)
(* a machine, the message they leave is of the thread; and the process     *)
(* that goes on may be one that has no steps left.                         *)
(***************************************************************************)
EXTENDS Integers, Sequences

CONSTANTS
    VMs,            \* virtual machines, used by one thread
    Messages,       \* of the panics of programs, and the ones they expect
    StepLimits,     \* of virtual machines (0 is none), and that programs set
    MaxFrames       \* bound: runs of programs and of assert_panic below each other

NoMessage == "no message"   \* a null pointer

ASSUME PanicsAssumption ==
    /\ NoMessage \notin Messages
    /\ StepLimits \subseteq Nat
    /\ MaxFrames \in Nat

VARIABLES
    limit,      \* the step limit of each machine
    remaining,  \* process->remaining_steps of each machine
    handler,    \* the panic handler of each machine: "host" or "assert_panic"
    message,    \* panic_msg of the thread
    frames,     \* who has entered the interpreter, innermost last
    control,    \* who executes: see Controls
    crashed,    \* whether strcmp was called with a null pointer
    allowed,    \* history: the limit that was last set, 0 for none or used up
    taken,      \* history: steps since then
    panic       \* history: the last panic, and who was told

vars == <<limit, remaining, handler, message, frames, control, crashed, allowed, taken, panic>>

-----------------------------------------------------------------------------

(* host: native code below all frames.  run: the program of the last frame.  *)
(* failed: the interpreter returns false to the last frame.                  *)
Controls == {"host", "run", "failed"}

(* lauf_vm_execute on a machine, and a call of assert_panic on it            *)
Execution(v)         == [kind |-> "execution", vm |-> v]
Assertion(v, e, old) == [kind |-> "assert_panic", vm |-> v, expects |-> e, handler |-> old]

Top     == frames[Len(frames)]
Below   == SubSeq(frames, 1, Len(frames) - 1)
vm      == Top.vm
Running == control = "run" /\ ~crashed

InUse(v) == \E i \in DOMAIN frames : frames[i].vm = v

NoPanic == [text |-> NoMessage, told |-> "nobody"]

-----------------------------------------------------------------------------

Init ==
    /\ limit \in [VMs -> StepLimits]
    /\ remaining = limit
    /\ handler = [v \in VMs |-> "host"]
    /\ message = NoMessage
    /\ frames = <<>>
    /\ control = "host"
    /\ crashed = FALSE
    /\ allowed = [v \in VMs |-> 0]
    /\ taken = [v \in VMs |-> 0]
    /\ panic = NoPanic

(* lauf_vm_execute, by the host or by a native function.                     *)
Execute(v) ==
    /\ control \in {"host", "run"} /\ ~crashed
    /\ Len(frames) < MaxFrames
    /\ ~InUse(v)
    /\ frames' = Append(frames, Execution(v))
    /\ control' = "run"
    /\ remaining' = [remaining EXCEPT ![v] = limit[v]]
    /\ allowed' = [allowed EXCEPT ![v] = limit[v]]
    /\ taken' = [taken EXCEPT ![v] = 0]
    /\ UNCHANGED <<limit, handler, message, crashed, panic>>

(* lauf_runtime_panic on the machine v, with the handlers hs.                *)
Panic(v, hs, text) ==
    /\ message' = IF hs[v] = "assert_panic" THEN text ELSE message
    /\ panic' = [text |-> text, told |-> hs[v]]
    /\ handler' = hs
    /\ control' = "failed"
    /\ UNCHANGED <<limit, crashed>>

(* panic, panic_if, and all that panics; its message may be no valid string. *)
PanicWith(text) ==
    /\ Running
    /\ Panic(vm, handler, text)
    /\ UNCHANGED <<remaining, frames, allowed, taken>>

(* A native function returns false, and has not panicked.                    *)
NativeFails ==
    /\ Running
    /\ control' = "failed"
    /\ panic' = NoPanic
    /\ UNCHANGED <<limit, remaining, handler, message, frames, crashed, allowed, taken>>

(* lauf.test.assert_panic, up to the call of the function.                   *)
AssertPanic(expects) ==
    /\ Running
    /\ Len(frames) < MaxFrames
    /\ frames' = Append(frames, Assertion(vm, expects, handler[vm]))
    /\ handler' = [handler EXCEPT ![vm] = "assert_panic"]
    /\ UNCHANGED <<limit, remaining, message, control, crashed, allowed, taken, panic>>

(* lauf_vm_set_panic_handler: back to the handler that was there before.     *)
HandlersAfter_same(f) == handler    \* mutant
HandlersAfter(f) == [handler EXCEPT ![f.vm] = f.handler]

(* The program or the function returns.                                      *)
Return ==
    /\ Running
    /\ frames' = Below
    /\ IF Top.kind = "assert_panic"
       THEN Panic(vm, HandlersAfter(Top), "assert_panic")
       ELSE /\ control' = IF Below = <<>> THEN "host" ELSE "run"
            /\ UNCHANGED <<limit, handler, message, crashed, panic>>
    /\ UNCHANGED <<remaining, allowed, taken>>

(* lauf_vm_execute returns false; a native function that called it may go on *)
(* or return false as well.                                                  *)
ExecutionFails ==
    /\ control = "failed" /\ ~crashed
    /\ Top.kind = "execution"
    /\ frames' = Below
    /\ \/ Below = <<>> /\ control' = "host"
       \/ Below # <<>> /\ control' \in {"run", "failed"}
    /\ panic' = NoPanic
    /\ UNCHANGED <<limit, remaining, handler, message, crashed, allowed, taken>>

(* A process that has used up its steps is unlimited if it goes on.          *)
Resumed == allowed' = [allowed EXCEPT ![vm] = IF remaining[vm] = 0 THEN 0 ELSE @]

(* assert_panic after the function has failed: the process goes on, if the   *)
(* message is the one that is expected.                                      *)
AssertPanicEnds ==
    /\ control = "failed" /\ ~crashed
    /\ Top.kind = "assert_panic"
    /\ IF Top.expects # NoMessage /\ message = NoMessage
       THEN /\ crashed' = TRUE
            /\ UNCHANGED <<limit, handler, message, frames, control, allowed, panic>>
       ELSE /\ frames' = Below
            /\ Resumed
            /\ IF Top.expects # message THEN Panic(vm, HandlersAfter(Top), "assert_panic")
               ELSE /\ handler' = HandlersAfter(Top)
                    /\ control' = "run"
                    /\ UNCHANGED <<limit, message, crashed, panic>>
    /\ UNCHANGED <<remaining, taken>>

(* lauf.limits.set_step_limit                                                *)
MaySet(n) == n # 0 /\ (limit[vm] # 0 => n <= limit[vm])

SetStepLimit(n) ==
    /\ Running
    /\ IF MaySet(n)
       THEN /\ remaining' = [remaining EXCEPT ![vm] = n]
            /\ allowed' = [allowed EXCEPT ![vm] = n]
            /\ taken' = [taken EXCEPT ![vm] = 0]
            /\ UNCHANGED <<limit, handler, message, control, crashed, panic>>
       ELSE Panic(vm, handler, "step limit") /\ UNCHANGED <<remaining, allowed, taken>>
    /\ UNCHANGED frames

(* lauf.limits.step, and lauf_runtime_increment_step                         *)
Exceeds_after(n) == n = 0   \* mutant
Exceeds(n) == n = 1

Step ==
    /\ Running
    /\ remaining' = [remaining EXCEPT ![vm] = IF @ > 0 THEN @ - 1 ELSE @]
    /\ taken' = [taken EXCEPT ![vm] = IF allowed[vm] # 0 THEN @ + 1 ELSE @]
    /\ IF Exceeds(remaining[vm]) THEN Panic(vm, handler, "step limit")
       ELSE UNCHANGED <<limit, handler, message, control, crashed, panic>>
    /\ UNCHANGED <<frames, allowed>>

-----------------------------------------------------------------------------

Next ==
    \/ \E v \in VMs : Execute(v)
    \/ \E text \in Messages \cup {NoMessage} : PanicWith(text) \/ AssertPanic(text)
    \/ NativeFails
    \/ Return
    \/ ExecutionFails
    \/ AssertPanicEnds
    \/ \E n \in StepLimits : SetStepLimit(n)
    \/ Step

Spec == Init /\ [][Next]_vars

-----------------------------------------------------------------------------
(* Properties *)

(* A panic is told to the innermost assert_panic that waits on the machine   *)
(* that panics, which then has the message of this panic and of no other,    *)
(* or else to the host, however the calls of assert_panic and the machines   *)
(* are nested (the handlers of lauf_lib_test_assert_panic).                  *)
PanicsReachWhoWaits ==
    control = "failed" /\ panic # NoPanic =>
        LET waits == \E i \in DOMAIN frames : frames[i].kind = "assert_panic" /\ frames[i].vm = vm
        IN  /\ panic.told = IF waits THEN "assert_panic" ELSE "host"
            /\ waits => message = panic.text

(* A process that goes on has taken fewer steps than the limit that was last *)
(* set, and this is no more than the limit of its machine; unless it has     *)
(* used up its steps before and recovered from the panic (set_step_limit and *)
(* increment_step).                                                          *)
StepsWithinLimit ==
    /\ Running /\ allowed[vm] # 0 => taken[vm] < allowed[vm]
    /\ \A v \in VMs : limit[v] # 0 => allowed[v] <= limit[v]
=============================================================================
