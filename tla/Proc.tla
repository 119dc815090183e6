-------------------------------- MODULE Proc --------------------------------
(***************************************************************************)
(* The life of a process in xv6 (proc.c, trap.c, sysproc.c): fork, exit,   *)
(* wait, kill, sleep and the scheduler of every CPU.                       *)
(*                                                                         *)
(* ptable.lock is handed from a process that calls sched to the scheduler  *)
(* of its CPU, and from there to the process that runs next, so its holder *)
(* is a variable.  A step of a process needs a CPU that runs it.           *)
(***************************************************************************)
EXTENDS Integers, FiniteSets

CONSTANTS NPROC,      \* slots of the process table, 1 .. NPROC; init is 1
          Cpu, None,
          MaxTicks,   \* bound: the ticks that a process sleeps
          Killable,   \* the processes whose pid somebody passes to kill
          Strays      \* kill is also called with pids that no process has

ASSUME ProcAssumption ==
  /\ NPROC \in Nat \ {0} /\ MaxTicks \in Nat
  /\ Killable \subseteq 1 .. NPROC /\ Strays \in BOOLEAN
  /\ Cpu \cap (0 .. NPROC) = {} /\ None \notin Cpu \cup 0 .. NPROC

Slot == 1 .. NPROC
initproc == 1
Ticks == 0      \* &ticks, as a channel

VARIABLES
  state, parent, killed,  \* the fields of struct proc; killed is the set
  chan,                   \* what a process sleeps on: a process or Ticks
  unnamed,                \* the slots with pid 0
  pc,                     \* where the kernel thread of a process is
  child,                  \* child[p]: the slot that p's fork fills
  left,                   \* left[p]: n - (ticks - ticks0) in sys_sleep
  ptlock, tickslock,      \* who holds ptable.lock and tickslock (Ticks: the clock)
  cpu,                    \* cpu[c]: the process that c runs, or None
  pos                     \* pos[c]: where c's scheduler is in the table

table == <<state, parent, killed, chan, unnamed>>
local == <<pc, child, left>>
sched == <<ptlock, cpu, pos>>
vars  == <<table, local, sched, tickslock>>

Init ==
  /\ state = [p \in Slot |-> IF p = initproc THEN "RUNNABLE" ELSE "UNUSED"]
  /\ parent = [p \in Slot |-> None]
  /\ killed = {} /\ unnamed = Slot \ {initproc}
  /\ chan = [p \in Slot |-> None]
  /\ pc = [p \in Slot |-> "user"]
  /\ child = [p \in Slot |-> None]
  /\ left = [p \in Slot |-> 0]
  /\ ptlock = None /\ tickslock = None
  /\ cpu = [c \in Cpu |-> None]
  /\ pos = [c \in Cpu |-> 1]

\* p runs at label l and has released ptable.lock after it was switched to.
At(p, l) == (\E c \in Cpu : cpu[c] = p) /\ ptlock # p /\ pc[p] = l
Goto(p, l) == pc' = [pc EXCEPT ![p] = l]

\* sched: from p, which holds ptable.lock, to the scheduler of its CPU.
Sched(p) == \E c \in Cpu :
  /\ cpu[c] = p
  /\ cpu' = [cpu EXCEPT ![c] = None]
  /\ ptlock' = c
  /\ UNCHANGED pos

\* wakeup1, on the table st.
Wakeup1(st, c) == [p \in Slot |-> IF st[p] = "SLEEPING" /\ chan[p] = c THEN "RUNNABLE"
                                                                       ELSE st[p]]

-----------------------------------------------------------------------------
(* The scheduler.                                                          *)

SchedulerLock(c) ==
  /\ cpu[c] = None
  /\ ptlock = None
  /\ ptlock' = c
  /\ pos' = [pos EXCEPT ![c] = 1]
  /\ UNCHANGED <<table, local, cpu, tickslock>>

\* A variant: the process that is switched to is not marked RUNNING.
SchedulerRun_Unmarked(c) ==
  /\ ptlock = c
  /\ \E p \in Slot :
       /\ p >= pos[c] /\ state[p] = "RUNNABLE"
       /\ \A q \in pos[c] .. p - 1 : state[q] # "RUNNABLE"
       /\ UNCHANGED state
       /\ cpu' = [cpu EXCEPT ![c] = p]
       /\ ptlock' = p
       /\ pos' = [pos EXCEPT ![c] = p + 1]
  /\ UNCHANGED <<parent, killed, chan, unnamed, local, tickslock>>

\* To the next process that is RUNNABLE.
SchedulerRun(c) ==
  /\ ptlock = c
  /\ \E p \in Slot :
       /\ p >= pos[c] /\ state[p] = "RUNNABLE"
       /\ \A q \in pos[c] .. p - 1 : state[q] # "RUNNABLE"
       /\ state' = [state EXCEPT ![p] = "RUNNING"]
       /\ cpu' = [cpu EXCEPT ![c] = p]
       /\ ptlock' = p
       /\ pos' = [pos EXCEPT ![c] = p + 1]
  /\ UNCHANGED <<parent, killed, chan, unnamed, local, tickslock>>

SchedulerUnlock(c) ==
  /\ ptlock = c
  /\ \A p \in pos[c] .. NPROC : state[p] # "RUNNABLE"
  /\ ptlock' = None
  /\ UNCHANGED <<table, local, cpu, pos, tickslock>>

\* A process that was switched to releases ptable.lock: in yield, forkret
\* and the end of sleep; wait goes on with the lock.
Resume(p) ==
  /\ ptlock = p /\ pc[p] # "wait"
  /\ ptlock' = None
  /\ chan' = [chan EXCEPT ![p] = None]
  /\ UNCHANGED <<state, parent, killed, unnamed, local, cpu, pos, tickslock>>

\* A clock tick, in user mode or in the kernel without a lock.
Yield(p) ==
  /\ \E l \in {"user", "fork", "forked"} : At(p, l)
  /\ ptlock = None
  /\ state' = [state EXCEPT ![p] = "RUNNABLE"]
  /\ Sched(p)
  /\ UNCHANGED <<parent, killed, chan, unnamed, local, tickslock>>

-----------------------------------------------------------------------------
(* fork.                                                                   *)

\* A process that was killed exits when it is about to return to user mode.
MayCall(p) == At(p, "user") /\ p \notin killed

\* allocproc.
ForkAlloc(p) ==
  /\ MayCall(p)
  /\ ptlock = None
  /\ \E c \in Slot :
       /\ state[c] = "UNUSED" /\ \A q \in 1 .. c - 1 : state[q] # "UNUSED"
       /\ state' = [state EXCEPT ![c] = "EMBRYO"]
       /\ unnamed' = unnamed \ {c}
       /\ child' = [child EXCEPT ![p] = c]
  /\ Goto(p, "fork")
  /\ UNCHANGED <<parent, killed, chan, left, sched, tickslock>>

\* No memory for the child: its slot is free again, but keeps its pid.
ForkFail(p) ==
  /\ At(p, "fork")
  /\ state' = [state EXCEPT ![child[p]] = "UNUSED"]
  /\ child' = [child EXCEPT ![p] = None]
  /\ Goto(p, "user")
  /\ UNCHANGED <<parent, killed, chan, unnamed, left, sched, tickslock>>

\* np->parent = curproc, without the lock.
ForkParent(p) ==
  /\ At(p, "fork")
  /\ parent' = [parent EXCEPT ![child[p]] = p]
  /\ Goto(p, "forked")
  /\ UNCHANGED <<state, killed, chan, unnamed, child, left, sched, tickslock>>

ForkRun(p) ==
  /\ At(p, "forked")
  /\ ptlock = None
  /\ state' = [state EXCEPT ![child[p]] = "RUNNABLE"]
  /\ pc' = [pc EXCEPT ![p] = "user", ![child[p]] = "user"]
  /\ child' = [child EXCEPT ![p] = None]
  /\ UNCHANGED <<parent, killed, chan, unnamed, left, sched, tickslock>>

-----------------------------------------------------------------------------
(* exit, wait and kill.                                                    *)

\* Variants: the children are not passed to init; the parent is not woken.
Abandon_Nobody(p) ==
  /\ UNCHANGED parent
  /\ state' = [Wakeup1(state, parent[p]) EXCEPT ![p] = "ZOMBIE"]
Abandon_Unheard(p) ==
  /\ parent' = [q \in Slot |-> IF parent[q] = p THEN initproc ELSE parent[q]]
  /\ LET inits == IF \E q \in Slot : parent[q] = p /\ state[q] = "ZOMBIE"
                  THEN Wakeup1(state, initproc) ELSE state
     IN state' = [inits EXCEPT ![p] = "ZOMBIE"]

\* Wake the parent, pass the children to init, become a zombie.
Abandon(p) ==
  /\ parent' = [q \in Slot |-> IF parent[q] = p THEN initproc ELSE parent[q]]
  /\ LET woken == Wakeup1(state, parent[p])
         inits == IF \E q \in Slot : parent[q] = p /\ state[q] = "ZOMBIE"
                  THEN Wakeup1(woken, initproc) ELSE woken
     IN state' = [inits EXCEPT ![p] = "ZOMBIE"]

Exit(p) ==
  /\ At(p, "user") /\ p # initproc
  /\ ptlock = None
  /\ Abandon(p)
  /\ Sched(p)
  /\ UNCHANGED <<killed, chan, unnamed, local, tickslock>>

\* panic("init exiting"): the CPU that runs init stops.
InitExit ==
  /\ At(initproc, "user") /\ initproc \in killed
  /\ Goto(initproc, "panic")
  /\ UNCHANGED <<table, child, left, sched, tickslock>>

WaitCall(p) ==
  /\ MayCall(p)
  /\ ptlock = None
  /\ ptlock' = p
  /\ Goto(p, "wait")
  /\ UNCHANGED <<table, child, left, cpu, pos, tickslock>>

InWait(p) == pc[p] = "wait" /\ ptlock = p

\* The first zombie child in the table.
Reap(p, c) ==
  /\ InWait(p)
  /\ parent[c] = p /\ state[c] = "ZOMBIE"
  /\ \A q \in 1 .. c - 1 : parent[q] = p => state[q] # "ZOMBIE"
  /\ state' = [state EXCEPT ![c] = "UNUSED"]
  /\ parent' = [parent EXCEPT ![c] = None]
  /\ killed' = killed \ {c} /\ unnamed' = unnamed \cup {c}
  /\ chan' = [chan EXCEPT ![p] = None]
  /\ ptlock' = None
  /\ Goto(p, "user")
  /\ UNCHANGED <<child, left, cpu, pos, tickslock>>

NoZombie(p) == \A c \in Slot : parent[c] = p => state[c] # "ZOMBIE"

\* No children, or killed: return -1.
WaitFail(p) ==
  /\ InWait(p) /\ NoZombie(p)
  /\ (\A c \in Slot : parent[c] # p) \/ p \in killed
  /\ chan' = [chan EXCEPT ![p] = None]
  /\ ptlock' = None
  /\ Goto(p, "user")
  /\ UNCHANGED <<state, parent, killed, unnamed, child, left, cpu, pos, tickslock>>

\* sleep(curproc, &ptable.lock).
WaitSleep(p) ==
  /\ InWait(p) /\ NoZombie(p)
  /\ (\E c \in Slot : parent[c] = p) /\ p \notin killed
  /\ chan' = [chan EXCEPT ![p] = p]
  /\ state' = [state EXCEPT ![p] = "SLEEPING"]
  /\ Sched(p)
  /\ UNCHANGED <<parent, killed, unnamed, local, tickslock>>

\* A variant: the victim is marked but not woken.
Mark_Asleep(p) == killed' = killed \cup {p} /\ UNCHANGED state

Mark(p) ==
  /\ killed' = killed \cup {p}
  /\ state' = [state EXCEPT ![p] = IF @ = "SLEEPING" THEN "RUNNABLE" ELSE @]

\* kill(pid), for the pid of slot q: of a process, or, if Strays, one that
\* fork has not returned yet or never will, or 0, which is the pid of every
\* other free slot.
Kill(p, q) ==
  /\ MayCall(p)
  /\ ptlock = None
  /\ IF state[q] \in {"UNUSED", "EMBRYO"} THEN Strays ELSE q \in Killable
  /\ q \in unnamed => \A r \in 1 .. q - 1 : r \notin unnamed
  /\ Mark(q)
  /\ UNCHANGED <<parent, chan, unnamed, local, sched, tickslock>>

-----------------------------------------------------------------------------
(* sys_sleep, and the clock.                                               *)

SleepCall(p) ==
  /\ MayCall(p)
  /\ tickslock = None
  /\ tickslock' = p
  /\ \E k \in 0 .. MaxTicks : left' = [left EXCEPT ![p] = k]
  /\ Goto(p, "sleep")
  /\ UNCHANGED <<table, child, sched>>

\* while(ticks - ticks0 < n)
SleepTest(p) ==
  /\ At(p, "sleep")
  /\ IF left[p] = 0 \/ p \in killed
     THEN Goto(p, "user") /\ tickslock' = None
     ELSE Goto(p, "handoff") /\ UNCHANGED tickslock
  /\ UNCHANGED <<table, child, left, sched>>

\* A variant: tickslock is released before ptable.lock is taken.
SleepHandoff_ReleaseFirst(p) ==
  /\ At(p, "handoff")
  /\ \/ tickslock = p /\ tickslock' = None /\ UNCHANGED <<state, chan, pc, sched>>
     \/ /\ tickslock # p /\ ptlock = None
        /\ chan' = [chan EXCEPT ![p] = Ticks]
        /\ state' = [state EXCEPT ![p] = "SLEEPING"]
        /\ Sched(p)
        /\ Goto(p, "woken")
        /\ UNCHANGED tickslock
  /\ UNCHANGED <<parent, killed, unnamed, child, left>>

\* sleep(&ticks, &tickslock): ptable.lock is taken before tickslock is
\* released.
SleepHandoff(p) ==
  /\ At(p, "handoff")
  /\ ptlock = None
  /\ tickslock' = None
  /\ chan' = [chan EXCEPT ![p] = Ticks]
  /\ state' = [state EXCEPT ![p] = "SLEEPING"]
  /\ Sched(p)
  /\ Goto(p, "woken")
  /\ UNCHANGED <<parent, killed, unnamed, child, left>>

SleepWoken(p) ==
  /\ At(p, "woken")
  /\ tickslock = None
  /\ tickslock' = p
  /\ Goto(p, "sleep")
  /\ UNCHANGED <<table, child, left, sched>>

\* The timer interrupt of the first CPU: ticks++, then wakeup(&ticks), all
\* under tickslock.
Tick ==
  /\ tickslock = None
  /\ tickslock' = Ticks
  /\ left' = [p \in Slot |-> IF left[p] > 0 THEN left[p] - 1 ELSE 0]
  /\ UNCHANGED <<table, pc, child, sched>>

TickWakeup ==
  /\ tickslock = Ticks
  /\ ptlock = None
  /\ state' = Wakeup1(state, Ticks)
  /\ tickslock' = None
  /\ UNCHANGED <<parent, killed, chan, unnamed, local, sched>>

-----------------------------------------------------------------------------
Scheduler(c) == SchedulerLock(c) \/ SchedulerRun(c) \/ SchedulerUnlock(c)

Kernel(p) ==
  \/ ForkFail(p) \/ ForkParent(p) \/ ForkRun(p)
  \/ WaitFail(p) \/ WaitSleep(p) \/ (\E c \in Slot : Reap(p, c))
  \/ SleepTest(p) \/ SleepHandoff(p) \/ SleepWoken(p)

User(p) ==
  \/ ForkAlloc(p) \/ Exit(p) \/ WaitCall(p) \/ SleepCall(p)
  \/ \E q \in Slot : Kill(p, q)

Next ==
  \/ Tick \/ TickWakeup \/ InitExit
  \/ \E c \in Cpu : Scheduler(c)
  \/ \E p \in Slot : Resume(p) \/ Kernel(p) \/ User(p) \/ Yield(p)

Spec == Init /\ [][Next]_vars

\* An interrupt of the clock that is pending is taken as soon as the lock
\* that masked it is released, so the clock needs no quiet moment: it ticks,
\* and takes the CPU from a process, if it can again and again.  The same of
\* a kernel thread between two ticks.  What was killed
\* exits when its CPU leaves the kernel.
FairSpec ==
  /\ Spec
  /\ SF_vars(Tick) /\ SF_vars(TickWakeup) /\ \A p \in Slot : SF_vars(Yield(p))
  /\ \A c \in Cpu : WF_vars(Scheduler(c))
  /\ \A p \in Slot : WF_vars(Resume(p))
  /\ \A p \in Slot : SF_vars(Kernel(p)) /\ SF_vars(p \in killed /\ Exit(p))

-----------------------------------------------------------------------------
(* Properties.                                                             *)

States == {"UNUSED", "EMBRYO", "RUNNABLE", "RUNNING", "SLEEPING", "ZOMBIE"}
Alive(p) == state[p] \in {"RUNNABLE", "RUNNING", "SLEEPING"}

\* Every variable has its type, and chan is set only of a process that
\* sleeps or was woken and has not cleared it yet.
TypeOK ==
  /\ state \in [Slot -> States]
  /\ parent \in [Slot -> Slot \cup {None}]
  /\ killed \subseteq Slot /\ unnamed \subseteq Slot
  /\ chan \in [Slot -> Slot \cup {Ticks, None}]
  /\ \A p \in Slot : chan[p] # None => state[p] \in {"SLEEPING", "RUNNABLE"} \/ ptlock = p
  /\ pc \in [Slot -> {"user", "fork", "forked", "wait", "sleep", "handoff", "woken",
                      "panic"}]
  /\ child \in [Slot -> Slot \cup {None}]
  /\ left \in [Slot -> 0 .. MaxTicks]
  /\ ptlock \in Slot \cup Cpu \cup {None} /\ tickslock \in Slot \cup {Ticks, None}
  /\ cpu \in [Cpu -> Slot \cup {None}] /\ pos \in [Cpu -> 1 .. NPROC + 1]

\* A process is on a CPU exactly while it is RUNNING, or on its way off it
\* under ptable.lock, and never on two.
OnOneCpu ==
  \A p \in Slot :
    /\ state[p] = "RUNNING" <=> \E c \in Cpu : cpu[c] = p
    /\ \A c, d \in Cpu : cpu[c] = p /\ cpu[d] = p => c = d

\* Whoever is alive or a zombie has a parent that is alive and can reap it;
\* init is the only one without.
ParentLives ==
  \A p \in Slot \ {initproc} :
    Alive(p) \/ state[p] = "ZOMBIE" => parent[p] \in Slot /\ Alive(parent[p])

\* No parent sleeps in wait while it has a zombie to reap.
NoZombieMissed ==
  \A p \in Slot :
    state[p] = "SLEEPING" /\ chan[p] = p => NoZombie(p)

\* Nobody oversleeps: a process whose time has come is not asleep, unless
\* the clock is about to wake it.
NoTickMissed ==
  tickslock # Ticks =>
    \A p \in Slot : state[p] = "SLEEPING" /\ chan[p] = Ticks => left[p] > 0

\* A killed process does not sleep in wait.
KilledDoNotWait ==
  \A p \in Slot : p \in killed => ~(state[p] = "SLEEPING" /\ chan[p] = p)

\* Nobody sleeps over what it waits for: a child's end, its time, being killed.
NobodyMissed == NoZombieMissed /\ NoTickMissed /\ KilledDoNotWait

\* If kill is called with pids of processes only, wait cleans a slot well
\* enough that a new process in it is not born killed.  With Strays it may
\* be: kill does not look at the state of the slot that it marks.
BornUnmarked ==
  [][\A p \in Slot : state[p] = "UNUSED" /\ state'[p] = "EMBRYO" => p \notin killed']_vars

\* Each killed process exits, whatever it is doing.
KilledExit == \A p \in Killable \ {initproc} : p \in killed /\ Alive(p) ~> ~Alive(p)

\* A wait returns once there is a zombie to reap.
WaitReturns == \A p \in Slot : pc[p] = "wait" /\ Alive(p) /\ ~NoZombie(p) ~> pc[p] = "user"
=============================================================================
