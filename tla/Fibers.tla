------------------------------- MODULE Fibers -------------------------------
(***************************************************************************)
(* The control flow between fibers: the fiber instructions of              *)
(* vm_execute.cpp, and lauf_runtime_call and lauf_runtime_resume of        *)
(* process.cpp, with which a host and a builtin enter the interpreter.     *)
(*                                                                         *)
(* One fiber executes at a time, and control moves when it says so.  What  *)
(* makes it hard is that there are three ways to move it (resume, transfer *)
(* and suspend), that exit and panic move it too, that a builtin can enter *)
(* the interpreter again while a fiber waits below it, and that a fiber is *)
(* known by a handle (the index of its entry in the allocation table) or   *)
(* by a pointer, and may be destroyed in between.                          *)
(*                                                                         *)
(* Only fibers are in the table here (Memory has the rest), so a handle is *)
(* an index of it; it counts from 1, and 0 is lauf_runtime_address_null.   *)
(* A failed assertion or the use of a destroyed fiber ends the behaviour   *)
(* in "fault".                                                             *)
(***************************************************************************)
EXTENDS Integers, Sequences

CONSTANTS
    Programs,   \* the kinds of program that are checked, see ProgramKinds
    MaxFibers   \* bound: length of the table

(* arities: the numbers of values that its functions and switches take and   *)
(* give.  disciplined: whether it keeps to the rules below.  loses: the      *)
(* fibers of which it may have lost all handles when the garbage collector   *)
(* runs.  fibers and calls bound the length of its table and the activations *)
(* of the interpreter on the native stack.                                   *)
ProgramKinds == [arities : SUBSET Nat, disciplined : BOOLEAN, loses : {"none", "idle", "any"},
                 fibers : Nat \ {0}, calls : Nat]

ASSUME FibersAssumption ==
    /\ MaxFibers \in Nat
    /\ Programs \subseteq ProgramKinds
    /\ \A p \in Programs : 0 \in p.arities /\ p.fibers <= MaxFibers
    \* It keeps the handles of the fibers that it has not finished with.
    /\ \A p \in Programs : p.disciplined => p.loses # "any"

VARIABLES
    program,    \* its kind
    table,      \* the fibers, by handle; a destroyed one stays until it is trimmed
    cur,        \* process->cur_fiber: a handle, 0 for nullptr, or Dangling
    hosts,      \* the activations of lauf_runtime_{call,resume,...}, innermost last
    control,    \* who executes: see Controls
    yielded,    \* number of values given by the suspend that left the interpreter
    fault       \* the assertion that failed, or the misuse of a destroyed fiber

vars == <<program, table, cur, hosts, control, yielded, fault>>

Arities == program.arities

-----------------------------------------------------------------------------

(* host: native code outside of any activation.  run: the interpreter.       *)
(* returned and panicked: lauf_runtime_resume, after the interpreter.        *)
Controls == {"host", "run", "returned", "panicked"}

Statuses == {"ready", "running", "suspended", "done", "freed"}

Null == 0
Dangling == -1      \* a pointer to a fiber that has been destroyed

Handles == 1..MaxFibers

Fresh(in, out) == [status |-> "ready", parent |-> Null, expects |-> in, outputs |-> out]

(* lauf::get_fiber *)
Exists(h) == h \in 1..Len(table) /\ table[h].status # "freed"

(* The assertions of transfer_arguments, resume and resume_by. *)
Waits_notRunning(h) == table[h].status # "running"   \* mutant
Waits(h) == table[h].status \in {"suspended", "ready"}

(* lauf_runtime_fiber::suspend, resume_by and resume *)
(* ("expects" has a meaning only while the fiber waits; it is 0 otherwise).  *)
SuspendedFor(f, n) == [f EXCEPT !.status = "suspended", !.expects = n]
Resumed(f)         == [f EXCEPT !.status = "running", !.expects = 0]
ResumedBy_once(f, p) == [Resumed(f) EXCEPT !.parent = IF @ = Null THEN p ELSE @]   \* mutant
ResumedBy(f, p) == [Resumed(f) EXCEPT !.parent = p]
Done_suspended(f) == SuspendedFor(f, 0)   \* mutant
Done(f) == [f EXCEPT !.status = "done"]

Executing == control = "run" /\ fault = "none"

Parents(handles) == {table[h].parent : h \in handles \cap 1..Len(table)}

(* The fibers that wait for f, its parent, the parent of that, ...: the      *)
(* least set of handles with these.                                          *)
Ancestors(f) ==
    {h \in 1..Len(table) :
        \A S \in SUBSET (1..Len(table)) :
            Parents({f} \cup S) \cap 1..Len(table) \subseteq S => h \in S}

Top == hosts[Len(hosts)]

(* The rules of a disciplined program.  It resumes and transfers to no fiber *)
(* that waits for one that executes; it destroys no such fiber either, none  *)
(* that executes, and none that an activation will destroy itself; a fiber   *)
(* gives at its end as many values as whoever it returns to takes; and a     *)
(* host that has destroyed the current fiber resumes no other after that.    *)
OnStack == (IF control = "run" THEN {cur} ELSE {}) \cup {hosts[i].saved : i \in 1..Len(hosts)}
Waiting == UNION {Ancestors(f) : f \in OnStack}
InUse   == OnStack \cup Waiting \cup {hosts[i].initial : i \in 1..Len(hosts)}

MaySwitchTo(h) == program.disciplined => h \notin Waiting
MayDestroy(h) == program.disciplined => h \notin InUse
MayGive(n) == program.disciplined =>
                    n = IF Exists(table[cur].parent) THEN table[table[cur].parent].expects ELSE Top.outputs
MayEnter == program.disciplined => cur # Dangling
MayBeCollected(h) == program.loses = "any" \/ (program.loses = "idle" /\ h \notin InUse)

-----------------------------------------------------------------------------
(* Destroying fibers, and trimming the table *)

(* memory::remove_freed, of the table t *)
Trimmed(t) ==
    SubSeq(t, 1, CHOOSE n \in 0..Len(t) : /\ n > 0 => t[n].status # "freed"
                                          /\ \A i \in n + 1..Len(t) : t[i].status = "freed")

Remains == [status |-> "freed", parent |-> Null, expects |-> 0, outputs |-> 0]

(* Pointers to a destroyed fiber dangle; a handle does not.                  *)
Pointer(p, handles) == IF p \in handles THEN Dangling ELSE p

Freed_parents(handles) ==   \* mutant
    [h \in 1..Len(table) |-> IF h \in handles THEN Remains
                             ELSE [table[h] EXCEPT !.parent = Pointer(@, handles)]]
Freed(handles) == [h \in 1..Len(table) |-> IF h \in handles THEN Remains ELSE table[h]]

Pointers(hs, handles) ==
    [i \in 1..Len(hs) |-> [hs[i] EXCEPT !.initial = Pointer(@, handles), !.saved = Pointer(@, handles)]]

(* lauf_runtime_fiber::destroy of some fibers                                *)
Destroy(handles, t) ==
    /\ table' = t
    /\ cur' = Pointer(cur, handles)
    /\ hosts' = Pointers(hosts, handles)

-----------------------------------------------------------------------------
(* Initially the process is new (lauf_vm_execute), or lauf_vm_start_process  *)
(* has made the fiber of the entry function the current one.                 *)

Init ==
    /\ program \in Programs
    /\ \/ table = <<>> /\ cur = Null
       \/ \E in, out \in Arities : table = <<Fresh(in, out)>> /\ cur = 1
    /\ hosts = <<>>
    /\ control = "host"
    /\ yielded = 0
    /\ fault = "none"

Fault(what) ==
    /\ fault' = what
    /\ UNCHANGED <<table, cur, hosts, control, yielded>>

(* lauf_runtime_panic, and the return from the interpreter after it.         *)
Panic ==
    IF table[cur].status \notin {"running", "ready"}
    THEN Fault("suspend() of a fiber that does not execute")
    ELSE /\ table' = [table EXCEPT ![cur] = SuspendedFor(@, 0)]
         /\ cur' = Null
         /\ control' = "panicked"
         /\ UNCHANGED <<hosts, yielded, fault>>

-----------------------------------------------------------------------------
(* Instructions and builtins of the current fiber *)

(* lauf.fiber.create; also lauf_runtime_create_fiber by the host.            *)
Create(in, out) ==
    /\ fault = "none"
    /\ control \in {"run", "host"}
    /\ Len(table) < program.fibers
    /\ table' = Append(table, Fresh(in, out))
    /\ UNCHANGED <<cur, hosts, control, yielded, fault>>

(* What fiber_resume and fiber_transfer check. *)
Accepts(h, in) == Exists(h) /\ Waits(h) /\ table[h].expects = in

SwitchTo_both(h, out, parent) ==   \* mutant
    /\ table' = [table EXCEPT ![h] = ResumedBy(@, parent)]
    /\ cur' = h
    /\ UNCHANGED <<hosts, control, yielded, fault>>
SwitchTo(h, out, parent) ==
    /\ table' = [table EXCEPT ![cur] = SuspendedFor(@, out), ![h] = ResumedBy(@, parent)]
    /\ cur' = h
    /\ UNCHANGED <<hosts, control, yielded, fault>>

(* fiber_resume: the current fiber becomes the parent.                       *)
Resume(h, in, out) ==
    /\ Executing
    /\ MaySwitchTo(h)
    /\ IF Accepts(h, in) THEN SwitchTo(h, out, cur) ELSE Panic

(* fiber_transfer: the parent of the current fiber becomes the parent.       *)
Transfer(h, in, out) ==
    /\ Executing
    /\ MaySwitchTo(h)
    /\ IF Accepts(h, in) THEN SwitchTo(h, out, table[cur].parent) ELSE Panic

(* fiber_suspend: back to the parent, or out of the interpreter.             *)
Suspend(in, out) ==
    /\ Executing
    /\ LET parent == table[cur].parent
       IN  \/ /\ parent = Null
              /\ in > 0 => MayGive(in)
              /\ table' = [table EXCEPT ![cur] = SuspendedFor(@, out)]
              /\ control' = "returned"
              /\ yielded' = in
              /\ UNCHANGED <<cur, hosts, fault>>
           \/ /\ parent # Null
              /\ ~Exists(parent)
              /\ Panic
           \/ /\ Exists(parent)
              /\ IF ~Waits(parent) THEN Fault("suspend to a fiber that does not wait")
                 ELSE IF table[parent].expects # in THEN Panic
                 ELSE /\ table' = [table EXCEPT ![cur]    = SuspendedFor(@, out),
                                                ![parent] = Resumed(@)]
                      /\ cur' = parent
                      /\ UNCHANGED <<hosts, control, yielded, fault>>

(* exit, at the end of the root function of a fiber: the fiber is done, and  *)
(* its results go to the parent, or out of the interpreter.                  *)
Exit ==
    /\ Executing
    /\ MayGive(table[cur].outputs)
    /\ LET parent == table[cur].parent
           done   == [table EXCEPT ![cur] = Done(@)]
       IN  \/ /\ Exists(parent) => done[parent].status = "done"
              /\ table' = done
              /\ control' = "returned"
              /\ UNCHANGED <<cur, hosts, yielded, fault>>
           \/ /\ Exists(parent)
              /\ done[parent].status # "done"
              /\ IF ~Waits(parent) THEN Fault("exit to a fiber that does not wait")
                 ELSE IF table[parent].expects # table[cur].outputs
                 THEN Fault("suspend() of a fiber that is done")
                 ELSE IF table[parent].status = "ready" THEN Fault("exit to a fiber that is not suspended")
                 ELSE /\ table' = [done EXCEPT ![parent] = Resumed(@)]
                      /\ cur' = parent
                      /\ UNCHANGED <<hosts, control, yielded, fault>>

(* panic, and any other instruction or builtin that panics                   *)
PanicInstruction == Executing /\ Panic

(* lauf.fiber.destroy; also lauf_runtime_destroy_fiber by the host.  The     *)
(* panic at a split local variable is Memory's.                              *)
DestroyFiber(h) ==
    /\ Executing \/ (control = "host" /\ fault = "none" /\ Exists(h))
    /\ MayDestroy(h)
    /\ IF ~Exists(h) THEN Panic
       ELSE IF table[h].status = "running" THEN Fault("destroy of a fiber that executes")
       ELSE Destroy({h}, Trimmed(Freed({h}))) /\ UNCHANGED <<control, yielded, fault>>

(* lauf_runtime_gc, called by a builtin: the current fiber is a root, no     *)
(* other is.  The table is not trimmed.                                      *)
Collect(handles) ==
    /\ Executing
    /\ cur \notin handles
    /\ \A h \in handles : Exists(h) /\ MayBeCollected(h)
    /\ Destroy(handles, Freed(handles))
    /\ UNCHANGED <<control, yielded, fault>>

(* return_free: trims the table.                                             *)
ReturnFree ==
    /\ Executing
    /\ table' = Trimmed(table)
    /\ UNCHANGED <<cur, hosts, control, yielded, fault>>

-----------------------------------------------------------------------------
(* Entering the interpreter *)

(* lauf_runtime_resume of the fiber h of the table t, up to the interpreter. *)
Enter(t, h, in) ==
    /\ IF t[h].expects = in
       THEN /\ table' = [t EXCEPT ![h] = ResumedBy(@, Null)]
            /\ cur' = h
            /\ control' = "run"
       ELSE /\ table' = [t EXCEPT ![h] = SuspendedFor(ResumedBy(@, Null), 0)]
            /\ cur' = Null
            /\ control' = "panicked"
    /\ yielded' = 0
    /\ UNCHANGED fault

(* lauf_runtime_call, by the host or by a builtin such as assert_panic: a    *)
(* new fiber, until it is done.                                              *)
Call(in, out) ==
    /\ fault = "none"
    /\ control \in {"run", "host"}
    /\ Len(table) < program.fibers
    /\ Len(hosts) < program.calls
    /\ hosts' = Append(hosts, [initial |-> Len(table) + 1, until |-> TRUE, outputs |-> out,
                               call |-> TRUE, saved |-> cur])
    /\ Enter(Append(table, Fresh(in, out)), Len(table) + 1, in)

(* lauf_runtime_resume and lauf_runtime_resume_until_completion by the host, *)
(* which must only resume fibers that wait.  They read the status of the     *)
(* current fiber, in an assertion.                                           *)
HostResume(h, in, out, until) ==
    /\ fault = "none"
    /\ control = "host"
    /\ Len(hosts) < program.calls
    /\ Exists(h)
    /\ Waits(h)
    /\ MayEnter
    /\ IF cur = Dangling THEN Fault("use of a destroyed fiber")
       ELSE /\ hosts' = Append(hosts, [initial |-> h, until |-> until, outputs |-> out,
                                       call |-> FALSE, saved |-> Null])
            /\ Enter(table, h, in)

(* The rest of the activation: lauf_runtime_resume_until_completion destroys *)
(* the fiber it was given, and lauf_runtime_call restores the current one.   *)
Leave ==
    LET saved == IF Top.call THEN Top.saved ELSE cur
        below == SubSeq(hosts, 1, Len(hosts) - 1)
        back  == IF below = <<>> THEN "host" ELSE "run"
    IN  IF ~Top.until
        THEN /\ hosts' = below
             /\ cur' = saved
             /\ control' = back
             /\ yielded' = 0
             /\ UNCHANGED <<table, fault>>
        ELSE IF Top.initial = Dangling THEN Fault("destroy of a destroyed fiber")
        ELSE IF table[Top.initial].status = "running" THEN Fault("destroy of a fiber that executes")
        ELSE IF back = "run" /\ saved = Dangling THEN Fault("use of a destroyed fiber")
        ELSE /\ table' = Trimmed(Freed({Top.initial}))
             /\ hosts' = Pointers(below, {Top.initial})
             /\ cur' = Pointer(saved, {Top.initial})
             /\ control' = back
             /\ yielded' = 0
             /\ UNCHANGED fault

(* lauf_runtime_resume after the interpreter returned true: it passes on the *)
(* results, and lauf_runtime_resume_until_completion resumes the current     *)
(* fiber, which need not be the one it started with, until that is done.     *)
Return ==
    /\ control = "returned"
    /\ fault = "none"
    /\ LET done == table[cur].status = "done"
           n    == IF done THEN table[cur].outputs ELSE yielded
       IN  IF (done \/ n > 0) /\ n # Top.outputs
           THEN Fault("suspend() of a fiber that does not execute")
           ELSE IF Top.until /\ ~done
           THEN Enter(table, cur, 0) /\ UNCHANGED hosts
           ELSE Leave

(* The same after the interpreter returned false.                            *)
ReturnPanic == control = "panicked" /\ fault = "none" /\ Leave

-----------------------------------------------------------------------------

Next ==
    /\ UNCHANGED program
    /\ \/ \E in, out \in Arities :
             \/ Create(in, out)
             \/ Call(in, out)
             \/ Suspend(in, out)
             \/ \E h \in Handles :
                   \/ Resume(h, in, out)
                   \/ Transfer(h, in, out)
                   \/ \E until \in BOOLEAN : HostResume(h, in, out, until)
       \/ \E h \in Handles : DestroyFiber(h)
       \/ \E handles \in SUBSET (1..Len(table)) : Collect(handles)
       \/ Exit
       \/ PanicInstruction
       \/ ReturnFree
       \/ Return
       \/ ReturnPanic

Spec == Init /\ [][Next]_vars

(* The native code does not stop, and the program is one in which a fiber    *)
(* that gets control again and again ends at last.                           *)
FairSpec ==
    /\ Spec
    /\ WF_vars(Return /\ UNCHANGED program)
    /\ WF_vars(ReturnPanic /\ UNCHANGED program)
    /\ \A h \in Handles : SF_vars(cur = h /\ Exit /\ UNCHANGED program)

-----------------------------------------------------------------------------
(* Properties *)

FiberRecords == [status : Statuses, parent : 0..MaxFibers, expects : Arities, outputs : Arities]

FiberPointers == {Dangling, Null} \cup Handles

Activations == [initial : {Dangling} \cup Handles, until : BOOLEAN, outputs : Arities,
                call : BOOLEAN, saved : FiberPointers]

Faults == {"none",
           "suspend() of a fiber that does not execute",
           "suspend() of a fiber that is done",
           "suspend to a fiber that does not wait",
           "exit to a fiber that does not wait",
           "exit to a fiber that is not suspended",
           "destroy of a fiber that executes",
           "destroy of a destroyed fiber",
           "use of a destroyed fiber"}

(* Every variable has its type. *)
TypeOK ==
    /\ program \in Programs
    /\ table \in Seq(FiberRecords)
    /\ cur \in FiberPointers
    /\ hosts \in Seq(Activations)
    /\ control \in Controls
    /\ yielded \in Arities
    /\ fault \in Faults

Alive == {h \in 1..Len(table) : table[h].status # "freed"}

(* The fibers that a builtin called from below the innermost activation.     *)
Below == {hosts[i].saved : i \in 2..Len(hosts)}

(* Exactly the fibers that have native or interpreted frames on the machine  *)
(* stack are running: the current one, and below each inner activation the   *)
(* one whose builtin started it.  No switch gets into one of those, however  *)
(* the handles were passed around.                                           *)
RunningFibersAreOnStack ==
    fault = "none" =>
    /\ {h \in Alive : table[h].status = "running"}
          = (IF control = "run" THEN {cur} ELSE {}) \cup (Below \ {Dangling})
    /\ control = "run" => cur \in Alive \ Below
    /\ Dangling \notin Below => \A i, j \in 2..Len(hosts) : i # j => hosts[i].saved # hosts[j].saved

(* A fiber that is done stays done until it is destroyed, one that has been  *)
(* destroyed is gone, and one that has started is never ready again.         *)
LifeGoesForward ==
    [][\A h \in 1..Len(table) : h \in 1..Len(table') =>
          LET old == table[h].status
              new == table'[h].status
          IN  /\ old = "done"  => new \in {"done", "freed"}
              /\ old = "freed" => new = "freed"
              /\ old \in {"running", "suspended"} => new # "ready"]_vars

(* None of the assertions of process.hpp, process.cpp and vm_execute.cpp     *)
(* fails, and no destroyed fiber is used, if the program is disciplined.     *)
NoFault == program.disciplined => fault = "none"

(* A fiber waits for at most one fiber of those that execute: the parents    *)
(* from the current fiber on form a chain without a cycle, all of it         *)
(* suspended and none of it below an activation, that ends at a fiber        *)
(* without a parent.                                                         *)
ParentsFormChain ==
    program.disciplined /\ control = "run" /\ fault = "none" =>
    /\ cur \notin Ancestors(cur)
    /\ \A h \in Ancestors(cur) :
          /\ table[h].status = "suspended"
          /\ h \notin Ancestors(h)
          /\ h \notin Below
          /\ table[h].parent # Null => Exists(table[h].parent)

(* lauf_runtime_call and lauf_runtime_resume_until_completion come back to   *)
(* the host of a disciplined program whose switches carry no values (with    *)
(* values, the fiber they go to may not expect them, for ever).              *)
HostGetsControlBack ==
    program.disciplined /\ program.arities = {0} /\ control # "host" ~> control = "host"

-----------------------------------------------------------------------------
(* What the code states of itself, and a program can refute *)

(* Control goes from a fiber that is done to the one that waits for it, and  *)
(* that one is suspended (the assertion of exit).                            *)
ExitResumesSuspended == fault # "exit to a fiber that is not suspended"
=============================================================================
