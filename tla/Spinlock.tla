------------------------------ MODULE Spinlock ------------------------------
(***************************************************************************)
(* The spin locks of xv6 (spinlock.c) on several CPUs, with what disables  *)
(* and enables interrupts: pushcli and popcli, traps, and the switches     *)
(* between processes and the scheduler, which carry ptable.lock from one   *)
(* thread to another (sched and scheduler in proc.c).                      *)
(*                                                                         *)
(* todo[t] is what thread t has still to do in the kernel, a sequence of   *)
(* calls; a process with nothing to do is in user mode.  A CPU's scheduler *)
(* is the thread with the CPU's name.                                      *)
(***************************************************************************)
EXTENDS Integers, Sequences

CONSTANTS Cpu, Thread, \* the processes
          SpinLock, None   \* SpinLock: the spin locks other than ptable.lock

VARIABLES
  state,             \* state[p]: p->state
  proc,              \* proc[c]: c->proc, None in the scheduler
  iflag,             \* the CPUs with interrupts enabled
  ncli, intena,      \* the fields of struct cpu
  locked,            \* locked[l]: the CPU that has l, or None
  todo,
  panicked

vars == <<state, proc, iflag, ncli, intena, locked, todo, panicked>>

Locks == SpinLock \cup {"ptable"}
Runs(c) == IF proc[c] = None THEN c ELSE proc[c]

\* A process that was never run begins in forkret.
Init ==
  /\ state = [p \in Thread |-> "RUNNABLE"]
  /\ proc = [c \in Cpu |-> None]
  /\ iflag = {} /\ ncli = [c \in Cpu |-> 0] /\ intena = [c \in Cpu |-> FALSE]
  /\ locked = [l \in Locks |-> None]
  /\ todo = [t \in Thread \cup Cpu |->
               IF t \in Cpu THEN <<>> ELSE <<<<"release", "ptable">>, <<"forkret">>>>]
  /\ panicked = FALSE

\* The call that CPU c is about to make, and what its thread goes on with.
Call(c) == IF panicked \/ todo[Runs(c)] = <<>> THEN <<"none">> ELSE Head(todo[Runs(c)])
Then(c, ops) == todo' = [todo EXCEPT ![Runs(c)] = ops \o Tail(@)]

-----------------------------------------------------------------------------
(* acquire and release.                                                    *)

\* popcli: the last one enables interrupts if they were before the first.
Popcli(c) ==
  /\ ncli' = [ncli EXCEPT ![c] = @ - 1]
  /\ iflag' = IF ncli[c] = 1 /\ intena[c] THEN iflag \cup {c} ELSE iflag

\* pushcli, and the test for a lock that this CPU has already.
Acquire(c) ==
  /\ Call(c)[1] = "acquire"
  /\ LET l == Call(c)[2] IN
     /\ panicked' = (locked[l] = c)
     /\ Then(c, <<<<"spin", l>>>>)
  /\ iflag' = iflag \ {c}
  /\ ncli' = [ncli EXCEPT ![c] = @ + 1]
  /\ intena' = IF ncli[c] = 0 THEN [intena EXCEPT ![c] = c \in iflag] ELSE intena
  /\ UNCHANGED <<state, proc, locked>>

\* The xchg that finds the lock free.
Spin(c) ==
  /\ Call(c)[1] = "spin"
  /\ LET l == Call(c)[2] IN
     /\ locked[l] = None
     /\ locked' = [locked EXCEPT ![l] = c]
  /\ Then(c, <<>>)
  /\ UNCHANGED <<state, proc, iflag, ncli, intena, panicked>>

Release(c) ==
  /\ Call(c)[1] = "release"
  /\ LET l == Call(c)[2] IN
     /\ panicked' = (locked[l] # c \/ c \in iflag \/ ncli[c] = 0)
     /\ locked' = [locked EXCEPT ![l] = None]
  /\ Popcli(c)
  /\ Then(c, <<>>)
  /\ UNCHANGED <<state, proc, intena>>

-----------------------------------------------------------------------------
(* Switches.                                                               *)

\* A variant: intena stays with the CPU.
Sched_CpuIntena(c) ==
  /\ Call(c)[1] = "sched"
  /\ panicked' = (locked["ptable"] # c \/ ncli[c] # 1 \/ c \in iflag)
  /\ state' = [state EXCEPT ![proc[c]] = Call(c)[2]]
  /\ Then(c, <<>>)
  /\ proc' = [proc EXCEPT ![c] = None]
  /\ UNCHANGED <<iflag, ncli, intena, locked>>

\* p->state is set and sched called; intena is kept on p's stack.
Sched(c) ==
  /\ Call(c)[1] = "sched"
  /\ panicked' = (locked["ptable"] # c \/ ncli[c] # 1 \/ c \in iflag)
  /\ state' = [state EXCEPT ![proc[c]] = Call(c)[2]]
  /\ Then(c, <<<<"resume", intena[c]>>>>)
  /\ proc' = [proc EXCEPT ![c] = None]
  /\ UNCHANGED <<iflag, ncli, intena, locked>>

\* Back from swtch, maybe on another CPU.
Resume(c) ==
  /\ Call(c)[1] = "resume"
  /\ intena' = [intena EXCEPT ![c] = Call(c)[2]]
  /\ Then(c, <<>>)
  /\ UNCHANGED <<state, proc, iflag, ncli, locked, panicked>>

\* The loop of scheduler: sti and acquire; run processes; release.
Scheduler(c) ==
  /\ proc[c] = None /\ ~panicked
  /\ \/ /\ todo[c] = <<>>
        /\ iflag' = iflag \cup {c}
        /\ todo' = [todo EXCEPT ![c] = <<<<"acquire", "ptable">>, <<"loop">>>>]
        /\ UNCHANGED <<state, proc>>
     \/ /\ Call(c) = <<"loop">>
        /\ \E p \in Thread :
             /\ state[p] = "RUNNABLE"
             /\ state' = [state EXCEPT ![p] = "RUNNING"]
             /\ proc' = [proc EXCEPT ![c] = p]
        /\ UNCHANGED <<iflag, todo>>
     \/ /\ Call(c) = <<"loop">>
        /\ Then(c, <<<<"release", "ptable">>>>)
        /\ UNCHANGED <<state, proc, iflag>>
  /\ UNCHANGED <<ncli, intena, locked, panicked>>

-----------------------------------------------------------------------------
(* Traps.                                                                  *)

Acq(l) == <<"acquire", l>>
Rel(l) == <<"release", l>>

\* What system calls do with locks: a wakeup under a lock, sleep with a lock,
\* sleep with ptable.lock, exit.
Calls ==
  {<<Acq(l), Acq("ptable"), <<"wakeup">>, Rel("ptable"), Rel(l)>> : l \in SpinLock}
  \cup {<<Acq(l), Acq("ptable"), Rel(l), <<"sched", "SLEEPING">>, Rel("ptable"),
          Acq(l), Rel(l)>> : l \in SpinLock}
  \cup {<<Acq("ptable"), <<"sched", "SLEEPING">>, Rel("ptable")>>,
        <<Acq("ptable"), <<"sched", "ZOMBIE">>>>}

\* T_SYSCALL is a trap gate: interrupts stay enabled.
Syscall(c) ==
  /\ proc[c] # None /\ todo[proc[c]] = <<>> /\ c \in iflag /\ ~panicked
  /\ \E ops \in Calls : todo' = [todo EXCEPT ![proc[c]] = Append(ops, <<"trapret">>)]
  /\ UNCHANGED <<state, proc, iflag, ncli, intena, locked, panicked>>

Yield == <<Acq("ptable"), <<"sched", "RUNNABLE">>, Rel("ptable")>>

\* An interrupt gate disables them.  The handler wakes processes under a
\* lock; with the timer's, a process that runs gives up the CPU.
Interrupt(c) ==
  /\ c \in iflag /\ ~panicked
  /\ iflag' = iflag \ {c}
  /\ \E l \in SpinLock, timer \in BOOLEAN :
       todo' = [todo EXCEPT ![Runs(c)] =
         <<Acq(l), Acq("ptable"), <<"wakeup">>, Rel("ptable"), Rel(l)>>
         \o (IF timer /\ proc[c] # None /\ state[proc[c]] = "RUNNING" THEN Yield ELSE <<>>)
         \o <<<<"iret">>>> \o @]
  /\ UNCHANGED <<state, proc, ncli, intena, locked, panicked>>

\* They come back to code that runs with interrupts enabled.
Iret(c) ==
  /\ Call(c) \in {<<"iret">>, <<"trapret">>, <<"forkret">>}
  /\ iflag' = iflag \cup {c}
  /\ Then(c, <<>>)
  /\ UNCHANGED <<state, proc, ncli, intena, locked, panicked>>

Wakeup(c) ==
  /\ Call(c) = <<"wakeup">>
  /\ \E P \in SUBSET {p \in Thread : state[p] = "SLEEPING"} :
       state' = [p \in Thread |-> IF p \in P THEN "RUNNABLE" ELSE state[p]]
  /\ Then(c, <<>>)
  /\ UNCHANGED <<proc, iflag, ncli, intena, locked, panicked>>

Next == \E c \in Cpu :
  \/ Acquire(c) \/ Spin(c) \/ Release(c)
  \/ Sched(c) \/ Resume(c) \/ Scheduler(c)
  \/ Syscall(c) \/ Interrupt(c) \/ Iret(c) \/ Wakeup(c)

Spec == Init /\ [][Next]_vars

-----------------------------------------------------------------------------
(* Properties.                                                             *)

InInterrupt(t) == \E i \in DOMAIN todo[t] : todo[t][i] = <<"iret">>
InForkret(t) == \E i \in DOMAIN todo[t] : todo[t][i] = <<"forkret">>

\* A CPU has interrupts enabled exactly when its thread would: not under a
\* lock or on the way to one, not in a handler, and again after the last lock
\* of a system call, wherever that has slept meanwhile.  So no handler spins
\* for a lock that its own CPU holds; and no assertion fails.
InterruptsRestored ==
  /\ ~panicked
  /\ \A c \in Cpu :
       /\ ncli[c] > 0 \/ InInterrupt(Runs(c)) => c \notin iflag
       /\ proc[c] # None /\ ncli[c] = 0 /\ ~InInterrupt(proc[c]) /\ ~InForkret(proc[c])
            => c \in iflag
       /\ \A l \in Locks : locked[l] = c => ncli[c] > 0
=============================================================================
