----------------------------- MODULE ProcProofs -----------------------------
(***************************************************************************)
(* What holds of Proc for every size of the process table and any number   *)
(* of CPUs: its type invariant, one CPU per process, and that exit, wait,  *)
(* kill and the clock leave nobody behind.                                 *)
(***************************************************************************)
EXTENDS Proc, TLAPS

\* A CPU that holds ptable.lock is in its scheduler; a process that holds it
\* is on a CPU.
LockHeld ==
  /\ \A c \in Cpu : ptlock = c => cpu[c] = None
  /\ \A p \in Slot : ptlock = p => state[p] = "RUNNING"

\* Each slot that a fork fills is filled by one fork.
Forking ==
  /\ \A p \in Slot : pc[p] \in {"fork", "forked"} <=> child[p] # None
  /\ \A p \in Slot : child[p] # None => state[child[p]] = "EMBRYO"
  /\ \A p \in Slot : pc[p] = "forked" => parent[child[p]] = p
  /\ \A p, q \in Slot : child[p] # None /\ p # q => child[p] # child[q]

\* Who is inside the kernel is alive.
KernelAlive == \A p \in Slot : pc[p] # "user" => Alive(p)

\* init lives and has no parent, and nobody is its own.
Family ==
  /\ Alive(initproc) /\ parent[initproc] = None
  /\ \A p \in Slot : parent[p] # p

\* The clock stands still for a process that is about to sleep.
ClockHeld ==
  \A p \in Slot : /\ pc[p] \in {"sleep", "handoff"} => tickslock = p
                  /\ pc[p] = "handoff" => left[p] > 0

\* Without stray calls of kill, free slots are not marked.
FreeUnmarked ==
  ~Strays => \A p \in Slot : state[p] \in {"UNUSED", "EMBRYO"} => p \notin killed

IInv ==
  /\ TypeOK /\ OnOneCpu /\ ParentLives /\ NoZombieMissed /\ NoTickMissed
  /\ KilledDoNotWait
  /\ LockHeld /\ Forking /\ KernelAlive /\ Family /\ ClockHeld /\ FreeUnmarked

-----------------------------------------------------------------------------
(* Facts used by several steps.                                            *)

\* Processes, CPUs, the clock and None are different things.
LEMMA Apart ==
  /\ \A c \in Cpu : c \notin Slot /\ c # None
  /\ None \notin Slot /\ Ticks \notin Slot /\ Ticks # None /\ initproc \in Slot
BY ProcAssumption DEF Slot, Ticks, initproc

\* sched takes p off its CPU and nobody else, and the CPU has the lock.
LEMMA Switch ==
  ASSUME TypeOK, OnOneCpu, NEW p \in Slot, Sched(p)
  PROVE  /\ state[p] = "RUNNING"
         /\ ptlock' \in Cpu /\ cpu'[ptlock'] = None /\ pos' = pos
         /\ cpu' \in [Cpu -> Slot \cup {None}]
         /\ \A d \in Cpu : cpu'[d] # p
         /\ \A d \in Cpu, q \in Slot \ {p} : (cpu'[d] = q) = (cpu[d] = q)
<1>1. PICK c \in Cpu : /\ cpu[c] = p /\ cpu' = [cpu EXCEPT ![c] = None]
                       /\ ptlock' = c /\ pos' = pos
  BY DEF Sched
<1>2. cpu \in [Cpu -> Slot \cup {None}]  BY DEF TypeOK
<1>3. \A d \in Cpu : cpu[d] = p => d = c  BY <1>1 DEF OnOneCpu
<1>4. cpu'[c] = None /\ \A d \in Cpu \ {c} : cpu'[d] = cpu[d]  BY <1>1, <1>2
<1>5. state[p] = "RUNNING"  BY <1>1 DEF OnOneCpu
<1> QED  BY <1>1, <1>2, <1>3, <1>4, <1>5, Apart

\* Whoever leaves a CPU through sched, and is not RUNNING any more, leaves
\* the others as they were.
LEMMA OffCpu ==
  ASSUME TypeOK, OnOneCpu, NEW p \in Slot, Sched(p), state'[p] # "RUNNING",
         \A q \in Slot \ {p} : (state'[q] = "RUNNING") = (state[q] = "RUNNING")
  PROVE  OnOneCpu' /\ LockHeld'
BY Switch, Apart DEF OnOneCpu, LockHeld

\* p moves and nobody else.
LEMMA Moves ==
  ASSUME TypeOK, NEW p \in Slot, NEW l, Goto(p, l)
  PROVE  pc'[p] = l /\ \A q \in Slot \ {p} : pc'[q] = pc[q]
BY DEF TypeOK, Goto

\* wakeup1 makes those that sleep on the channel RUNNABLE, and no other.
LEMMA Woken ==
  ASSUME NEW st \in [Slot -> States], NEW ch
  PROVE  /\ Wakeup1(st, ch) \in [Slot -> States]
         /\ \A q \in Slot :
              \/ Wakeup1(st, ch)[q] = st[q] /\ ~(st[q] = "SLEEPING" /\ chan[q] = ch)
              \/ /\ Wakeup1(st, ch)[q] = "RUNNABLE"
                 /\ st[q] = "SLEEPING" /\ chan[q] = ch
BY DEF Wakeup1, States

\* exit: p is a zombie; its parent does not sleep in wait, nor does init if
\* one of the children it inherits is a zombie; nobody else's state changes
\* in another way.
LEMMA Abandoned ==
  ASSUME TypeOK, NEW p \in Slot, Abandon(p)
  PROVE  /\ state' \in [Slot -> States] /\ state'[p] = "ZOMBIE"
         /\ \A q \in Slot \ {p} :
              /\ \/ state'[q] = state[q]
                 \/ state[q] = "SLEEPING" /\ state'[q] = "RUNNABLE"
              /\ state'[q] = "SLEEPING" =>
                   /\ chan[q] # parent[p]
                   /\ (\E r \in Slot : parent[r] = p /\ state[r] = "ZOMBIE")
                        => chan[q] # initproc
<1> DEFINE woken == Wakeup1(state, parent[p])
           inits == IF \E r \in Slot : parent[r] = p /\ state[r] = "ZOMBIE"
                    THEN Wakeup1(woken, initproc) ELSE woken
<1>1. state \in [Slot -> States]  BY DEF TypeOK
<1>2. woken \in [Slot -> States] /\ \A q \in Slot :
        \/ woken[q] = state[q] /\ ~(state[q] = "SLEEPING" /\ chan[q] = parent[p])
        \/ woken[q] = "RUNNABLE" /\ state[q] = "SLEEPING"
  BY <1>1, Woken
<1>3. Wakeup1(woken, initproc) \in [Slot -> States] /\ \A q \in Slot :
        \/ /\ Wakeup1(woken, initproc)[q] = woken[q]
           /\ ~(woken[q] = "SLEEPING" /\ chan[q] = initproc)
        \/ Wakeup1(woken, initproc)[q] = "RUNNABLE" /\ woken[q] = "SLEEPING"
  BY <1>2, Woken
<1>4. state' = [inits EXCEPT ![p] = "ZOMBIE"]  BY DEF Abandon
<1>5. inits \in [Slot -> States]  BY <1>2, <1>3
<1>6. state' \in [Slot -> States] /\ state'[p] = "ZOMBIE"
      /\ \A q \in Slot \ {p} : state'[q] = inits[q]
  BY <1>4, <1>5 DEF States
<1>7. ASSUME NEW q \in Slot
      PROVE  /\ inits[q] = state[q] \/ (state[q] = "SLEEPING" /\ inits[q] = "RUNNABLE")
             /\ inits[q] = "SLEEPING" =>
                  /\ chan[q] # parent[p]
                  /\ (\E r \in Slot : parent[r] = p /\ state[r] = "ZOMBIE")
                       => chan[q] # initproc
  <2> HIDE DEF woken
  <2> QED  BY <1>2, <1>3
<1> QED  BY <1>6, <1>7

-----------------------------------------------------------------------------
(* One lemma per action: each conjunct of the invariant is preserved.      *)


LEMMA SchedulerLockInv == ASSUME IInv, NEW c \in Cpu, SchedulerLock(c) PROVE IInv'
<1>1. TypeOK'
  BY Apart, ProcAssumption DEF IInv, SchedulerLock, table, local, TypeOK, initproc,
     Ticks, States
<1>2. OnOneCpu'  BY DEF IInv, SchedulerLock, table, OnOneCpu
<1>3. ParentLives'  BY DEF IInv, SchedulerLock, table, ParentLives, Alive
<1>4. NoZombieMissed'  BY DEF IInv, SchedulerLock, table, NoZombieMissed, NoZombie
<1>5. NoTickMissed'  BY DEF IInv, SchedulerLock, table, local, NoTickMissed
<1>6. KilledDoNotWait'  BY DEF IInv, SchedulerLock, table, KilledDoNotWait
<1>7. LockHeld'
  <2>1. \A d \in Cpu : ptlock' = d => cpu'[d] = None  BY DEF SchedulerLock
  <2>2. \A q \in Slot : ptlock' = q => state'[q] = "RUNNING"
    BY Apart DEF SchedulerLock
  <2> QED  BY <2>1, <2>2 DEF LockHeld
<1>8. Forking'  BY DEF IInv, SchedulerLock, table, local, Forking
<1>9. KernelAlive'  BY DEF IInv, SchedulerLock, table, local, KernelAlive, Alive
<1>10. Family'  BY DEF IInv, SchedulerLock, table, Family, Alive
<1>11. ClockHeld'  BY DEF IInv, SchedulerLock, local, ClockHeld
<1>12. FreeUnmarked'  BY DEF IInv, SchedulerLock, table, FreeUnmarked
<1> QED  BY <1>1, <1>2, <1>3, <1>4, <1>5, <1>6, <1>7, <1>8, <1>9, <1>10, <1>11, <1>12
   DEF IInv

LEMMA SchedulerRunInv == ASSUME IInv, NEW c \in Cpu, SchedulerRun(c) PROVE IInv'
<1>1. TypeOK'
  <2>1. state' \in [Slot -> States]  BY DEF IInv, SchedulerRun, TypeOK, States
  <2>2. parent' \in [Slot -> Slot \cup {None}] /\ killed' \subseteq Slot /\ unnamed' \subseteq Slot
    BY DEF IInv, SchedulerRun, TypeOK
  <2>3. chan' \in [Slot -> Slot \cup {Ticks, None}]  BY DEF IInv, SchedulerRun, TypeOK
  <2>4. \A q \in Slot : chan'[q] # None => state'[q] \in {"SLEEPING", "RUNNABLE"} \/ ptlock' = q
    BY Apart DEF IInv, SchedulerRun, TypeOK
  <2>5. pc' \in [Slot -> {"user", "fork", "forked", "wait", "sleep", "handoff", "woken",
                         "panic"}]  BY DEF IInv, SchedulerRun, local, TypeOK
  <2>6. child' \in [Slot -> Slot \cup {None}]
    BY DEF IInv, SchedulerRun, local, TypeOK
  <2>7. left' \in [Slot -> 0 .. MaxTicks]  BY DEF IInv, SchedulerRun, local, TypeOK
  <2>8. ptlock' \in Slot \cup Cpu \cup {None} /\ tickslock' \in Slot \cup {Ticks, None}
    BY DEF IInv, SchedulerRun, TypeOK
  <2>9. cpu' \in [Cpu -> Slot \cup {None}] /\ pos' \in [Cpu -> 1 .. NPROC + 1]
    BY ProcAssumption DEF IInv, SchedulerRun, TypeOK, Slot
  <2> QED  BY <2>1, <2>2, <2>3, <2>4, <2>5, <2>6, <2>7, <2>8, <2>9 DEF TypeOK
<1>2. OnOneCpu'  BY Apart DEF IInv, SchedulerRun, OnOneCpu, TypeOK, LockHeld
<1>3. ParentLives'  BY DEF IInv, SchedulerRun, ParentLives, Alive
<1>4. NoZombieMissed'  BY DEF IInv, SchedulerRun, NoZombieMissed, NoZombie
<1>5. NoTickMissed'  BY DEF IInv, SchedulerRun, local, NoTickMissed
<1>6. KilledDoNotWait'  BY DEF IInv, SchedulerRun, KilledDoNotWait
<1>7. LockHeld'  BY Apart DEF IInv, SchedulerRun, LockHeld, TypeOK
<1>8. Forking'  BY DEF IInv, SchedulerRun, local, Forking
<1>9. KernelAlive'  BY DEF IInv, SchedulerRun, local, KernelAlive, Alive
<1>10. Family'  BY DEF IInv, SchedulerRun, Family, Alive
<1>11. ClockHeld'  BY DEF IInv, SchedulerRun, local, ClockHeld
<1>12. FreeUnmarked'  BY DEF IInv, SchedulerRun, FreeUnmarked
<1> QED  BY <1>1, <1>2, <1>3, <1>4, <1>5, <1>6, <1>7, <1>8, <1>9, <1>10, <1>11, <1>12
   DEF IInv

LEMMA SchedulerUnlockInv == ASSUME IInv, NEW c \in Cpu, SchedulerUnlock(c) PROVE IInv'
<1>1. TypeOK'  BY Apart DEF IInv, SchedulerUnlock, table, local, TypeOK
<1>2. OnOneCpu'  BY DEF IInv, SchedulerUnlock, table, OnOneCpu
<1>3. ParentLives'  BY DEF IInv, SchedulerUnlock, table, ParentLives, Alive
<1>4. NoZombieMissed'  BY DEF IInv, SchedulerUnlock, table, NoZombieMissed, NoZombie
<1>5. NoTickMissed'  BY DEF IInv, SchedulerUnlock, table, local, NoTickMissed
<1>6. KilledDoNotWait'  BY DEF IInv, SchedulerUnlock, table, KilledDoNotWait
<1>7. LockHeld'  BY Apart DEF SchedulerUnlock, LockHeld
<1>8. Forking'  BY DEF IInv, SchedulerUnlock, table, local, Forking
<1>9. KernelAlive'  BY DEF IInv, SchedulerUnlock, table, local, KernelAlive, Alive
<1>10. Family'  BY DEF IInv, SchedulerUnlock, table, Family, Alive
<1>11. ClockHeld'  BY DEF IInv, SchedulerUnlock, local, ClockHeld
<1>12. FreeUnmarked'  BY DEF IInv, SchedulerUnlock, table, FreeUnmarked
<1> QED  BY <1>1, <1>2, <1>3, <1>4, <1>5, <1>6, <1>7, <1>8, <1>9, <1>10, <1>11, <1>12
   DEF IInv

LEMMA ResumeInv == ASSUME IInv, NEW p \in Slot, Resume(p) PROVE IInv'
<1>1. TypeOK'  BY DEF IInv, Resume, local, TypeOK
<1>2. OnOneCpu'  BY DEF IInv, Resume, OnOneCpu
<1>3. ParentLives'  BY DEF IInv, Resume, ParentLives, Alive
<1>4. NoZombieMissed'  BY Apart DEF IInv, Resume, NoZombieMissed, NoZombie
<1>5. NoTickMissed'  BY Apart DEF IInv, Resume, local, NoTickMissed
<1>6. KilledDoNotWait'  BY Apart DEF IInv, Resume, KilledDoNotWait
<1>7. LockHeld'  BY Apart DEF Resume, LockHeld
<1>8. Forking'  BY DEF IInv, Resume, local, Forking
<1>9. KernelAlive'  BY DEF IInv, Resume, local, KernelAlive, Alive
<1>10. Family'  BY DEF IInv, Resume, Family, Alive
<1>11. ClockHeld'  BY DEF IInv, Resume, local, ClockHeld
<1>12. FreeUnmarked'  BY DEF IInv, Resume, FreeUnmarked
<1> QED  BY <1>1, <1>2, <1>3, <1>4, <1>5, <1>6, <1>7, <1>8, <1>9, <1>10, <1>11, <1>12
   DEF IInv

LEMMA YieldInv == ASSUME IInv, NEW p \in Slot, Yield(p) PROVE IInv'
<1>0. /\ state[p] = "RUNNING"
      /\ ptlock' \in Cpu /\ cpu'[ptlock'] = None /\ pos' = pos
      /\ cpu' \in [Cpu -> Slot \cup {None}]
      /\ \A d \in Cpu : cpu'[d] # p
      /\ \A d \in Cpu, q \in Slot \ {p} : (cpu'[d] = q) = (cpu[d] = q)
  BY Switch DEF IInv, Yield
<1>1. TypeOK'  BY <1>0 DEF IInv, Yield, At, local, TypeOK, States
<1>2. OnOneCpu'  BY OffCpu, <1>0 DEF IInv, TypeOK, Yield
<1>3. ParentLives'  BY <1>0 DEF IInv, Yield, ParentLives, Alive
<1>4. NoZombieMissed'  BY DEF IInv, Yield, NoZombieMissed, NoZombie
<1>5. NoTickMissed'  BY DEF IInv, Yield, local, NoTickMissed
<1>6. KilledDoNotWait'  BY DEF IInv, Yield, KilledDoNotWait
<1>7. LockHeld'  BY OffCpu, <1>0 DEF IInv, TypeOK, Yield
<1>8. Forking'  BY <1>0 DEF IInv, Yield, local, Forking
<1>9. KernelAlive'  BY DEF IInv, Yield, local, KernelAlive, Alive
<1>10. Family'  BY DEF IInv, Yield, Family, Alive
<1>11. ClockHeld'  BY DEF IInv, Yield, local, ClockHeld
<1>12. FreeUnmarked'  BY DEF IInv, Yield, FreeUnmarked
<1> QED  BY <1>1, <1>2, <1>3, <1>4, <1>5, <1>6, <1>7, <1>8, <1>9, <1>10, <1>11, <1>12
   DEF IInv

LEMMA ForkAllocInv == ASSUME IInv, NEW p \in Slot, ForkAlloc(p) PROVE IInv'
<1>1. TypeOK'
  <2>1. state' \in [Slot -> States]  BY DEF IInv, ForkAlloc, TypeOK, States
  <2>2. parent' \in [Slot -> Slot \cup {None}] /\ killed' \subseteq Slot /\ unnamed' \subseteq Slot
    BY DEF IInv, ForkAlloc, TypeOK
  <2>3. chan' \in [Slot -> Slot \cup {Ticks, None}]  BY DEF IInv, ForkAlloc, TypeOK
  <2>4. \A q \in Slot : chan'[q] # None => state'[q] \in {"SLEEPING", "RUNNABLE"} \/ ptlock' = q
    BY DEF IInv, ForkAlloc, sched, TypeOK
  <2>5. pc' \in [Slot -> {"user", "fork", "forked", "wait", "sleep", "handoff", "woken",
                         "panic"}]  BY DEF IInv, ForkAlloc, Goto, TypeOK
  <2>6. child' \in [Slot -> Slot \cup {None}]  BY DEF IInv, ForkAlloc, TypeOK
  <2>7. left' \in [Slot -> 0 .. MaxTicks]  BY DEF IInv, ForkAlloc, TypeOK
  <2>8. ptlock' \in Slot \cup Cpu \cup {None} /\ tickslock' \in Slot \cup {Ticks, None}
    BY DEF IInv, ForkAlloc, sched, TypeOK
  <2>9. cpu' \in [Cpu -> Slot \cup {None}] /\ pos' \in [Cpu -> 1 .. NPROC + 1]
    BY DEF IInv, ForkAlloc, sched, TypeOK
  <2> QED  BY <2>1, <2>2, <2>3, <2>4, <2>5, <2>6, <2>7, <2>8, <2>9 DEF TypeOK
<1>2. OnOneCpu'  BY DEF IInv, ForkAlloc, sched, OnOneCpu
<1>3. ParentLives'  BY DEF IInv, ForkAlloc, ParentLives, Alive
<1>4. NoZombieMissed'  BY DEF IInv, ForkAlloc, NoZombieMissed, NoZombie
<1>5. NoTickMissed'  BY DEF IInv, ForkAlloc, NoTickMissed
<1>6. KilledDoNotWait'  BY DEF IInv, ForkAlloc, KilledDoNotWait
<1>7. LockHeld'  BY DEF IInv, ForkAlloc, sched, LockHeld
<1>8. Forking'  BY Apart DEF IInv, ForkAlloc, Goto, Forking, TypeOK
<1>9. KernelAlive'
  BY Apart DEF IInv, ForkAlloc, At, MayCall, Goto, KernelAlive, OnOneCpu, Alive
<1>10. Family'  BY DEF IInv, ForkAlloc, Family, Alive
<1>11. ClockHeld'  BY DEF IInv, ForkAlloc, Goto, ClockHeld
<1>12. FreeUnmarked'  BY DEF IInv, ForkAlloc, FreeUnmarked
<1> QED  BY <1>1, <1>2, <1>3, <1>4, <1>5, <1>6, <1>7, <1>8, <1>9, <1>10, <1>11, <1>12
   DEF IInv

LEMMA ForkFailInv == ASSUME IInv, NEW p \in Slot, ForkFail(p) PROVE IInv'
<1>1. TypeOK'
  <2>1. state' \in [Slot -> States]  BY DEF IInv, ForkFail, TypeOK, States
  <2>2. parent' \in [Slot -> Slot \cup {None}] /\ killed' \subseteq Slot /\ unnamed' \subseteq Slot
    BY DEF IInv, ForkFail, TypeOK
  <2>3. chan' \in [Slot -> Slot \cup {Ticks, None}]  BY DEF IInv, ForkFail, TypeOK
  <2>4. \A q \in Slot : chan'[q] # None => state'[q] \in {"SLEEPING", "RUNNABLE"} \/ ptlock' = q
    BY Apart DEF IInv, ForkFail, sched, TypeOK, Forking
  <2>5. pc' \in [Slot -> {"user", "fork", "forked", "wait", "sleep", "handoff", "woken",
                         "panic"}]  BY DEF IInv, ForkFail, Goto, TypeOK
  <2>6. child' \in [Slot -> Slot \cup {None}]  BY DEF IInv, ForkFail, TypeOK
  <2>7. left' \in [Slot -> 0 .. MaxTicks]  BY DEF IInv, ForkFail, TypeOK
  <2>8. ptlock' \in Slot \cup Cpu \cup {None} /\ tickslock' \in Slot \cup {Ticks, None}
    BY DEF IInv, ForkFail, sched, TypeOK
  <2>9. cpu' \in [Cpu -> Slot \cup {None}] /\ pos' \in [Cpu -> 1 .. NPROC + 1]
    BY DEF IInv, ForkFail, sched, TypeOK
  <2> QED  BY <2>1, <2>2, <2>3, <2>4, <2>5, <2>6, <2>7, <2>8, <2>9 DEF TypeOK
<1>2. OnOneCpu'  BY Apart DEF IInv, ForkFail, sched, OnOneCpu, Forking
<1>3. ParentLives'  BY Apart DEF IInv, ForkFail, ParentLives, Forking, Alive
<1>4. NoZombieMissed'  BY DEF IInv, ForkFail, NoZombieMissed, NoZombie
<1>5. NoTickMissed'  BY DEF IInv, ForkFail, NoTickMissed
<1>6. KilledDoNotWait'  BY DEF IInv, ForkFail, KilledDoNotWait
<1>7. LockHeld'  BY Apart DEF IInv, ForkFail, sched, LockHeld, Forking
<1>8. Forking'  BY DEF IInv, ForkFail, Goto, Forking, TypeOK
<1>9. KernelAlive'  BY Apart DEF IInv, ForkFail, Goto, KernelAlive, Forking, Alive
<1>10. Family'  BY Apart DEF IInv, ForkFail, Family, Forking, Alive
<1>11. ClockHeld'  BY DEF IInv, ForkFail, Goto, ClockHeld
<1>12. FreeUnmarked'  BY Apart DEF IInv, ForkFail, FreeUnmarked, Forking
<1> QED  BY <1>1, <1>2, <1>3, <1>4, <1>5, <1>6, <1>7, <1>8, <1>9, <1>10, <1>11, <1>12
   DEF IInv

LEMMA ForkParentInv == ASSUME IInv, NEW p \in Slot, ForkParent(p) PROVE IInv'
<1>1. TypeOK'  BY DEF IInv, ForkParent, Goto, sched, TypeOK
<1>2. OnOneCpu'  BY DEF IInv, ForkParent, sched, OnOneCpu
<1>3. ParentLives'  BY Apart DEF IInv, ForkParent, At, ParentLives, OnOneCpu, Alive
<1>4. NoZombieMissed'
  BY Apart DEF IInv, ForkParent, At, NoZombieMissed, OnOneCpu, NoZombie
<1>5. NoTickMissed'  BY DEF IInv, ForkParent, NoTickMissed
<1>6. KilledDoNotWait'  BY DEF IInv, ForkParent, KilledDoNotWait
<1>7. LockHeld'  BY DEF IInv, ForkParent, sched, LockHeld
<1>8. Forking'  BY DEF IInv, ForkParent, At, Goto, Forking, TypeOK
<1>9. KernelAlive'  BY DEF IInv, ForkParent, At, Goto, KernelAlive, Alive
<1>10. Family'  BY DEF IInv, ForkParent, At, Family, OnOneCpu, Forking, Alive
<1>11. ClockHeld'  BY DEF IInv, ForkParent, Goto, ClockHeld
<1>12. FreeUnmarked'  BY DEF IInv, ForkParent, FreeUnmarked
<1> QED  BY <1>1, <1>2, <1>3, <1>4, <1>5, <1>6, <1>7, <1>8, <1>9, <1>10, <1>11, <1>12
   DEF IInv

LEMMA ForkRunInv == ASSUME IInv, NEW p \in Slot, ForkRun(p) PROVE IInv'
<1>1. TypeOK'  BY DEF IInv, ForkRun, sched, TypeOK, States
<1>2. OnOneCpu'  BY Apart DEF IInv, ForkRun, sched, OnOneCpu, Forking
<1>3. ParentLives'
  BY Apart DEF IInv, ForkRun, At, ParentLives, OnOneCpu, Forking, Alive
<1>4. NoZombieMissed'  BY DEF IInv, ForkRun, NoZombieMissed, NoZombie
<1>5. NoTickMissed'  BY DEF IInv, ForkRun, NoTickMissed
<1>6. KilledDoNotWait'  BY DEF IInv, ForkRun, KilledDoNotWait
<1>7. LockHeld'  BY Apart DEF ForkRun, sched, LockHeld
<1>8. Forking'
  <2>1. \A q \in Slot : pc'[q] \in {"fork", "forked"} <=> child'[q] # None
    <3>1. /\ child[p] \in Slot /\ state[child[p]] = "EMBRYO" /\ Alive(p)
          /\ child[p] # p
      BY DEF IInv, ForkRun, At, TypeOK, OnOneCpu, Forking, Alive
    <3>2. pc[child[p]] = "user" /\ child[child[p]] = None
      BY <3>1 DEF IInv, KernelAlive, Forking, Alive
    <3>3. /\ pc'[p] = "user" /\ child'[p] = None
          /\ \A q \in Slot \ {p} : pc'[q] = pc[q] /\ child'[q] = child[q]
      BY <3>1, <3>2 DEF IInv, ForkRun, TypeOK
    <3> QED  BY <3>3 DEF IInv, Forking
  <2>2. \A q \in Slot : child'[q] # None => state'[child'[q]] = "EMBRYO"
    BY DEF IInv, ForkRun, Forking, TypeOK
  <2>3. \A q \in Slot : pc'[q] = "forked" => parent'[child'[q]] = q
    BY DEF IInv, ForkRun, Forking, TypeOK
  <2>4. \A q, r \in Slot : child'[q] # None /\ q # r => child'[q] # child'[r]
    BY DEF IInv, ForkRun, Forking
  <2> QED  BY <2>1, <2>2, <2>3, <2>4 DEF Forking
<1>9. KernelAlive'  BY DEF IInv, ForkRun, KernelAlive, TypeOK, Alive
<1>10. Family'  BY DEF IInv, ForkRun, Family, Alive
<1>11. ClockHeld'  BY DEF IInv, ForkRun, ClockHeld, TypeOK
<1>12. FreeUnmarked'  BY DEF IInv, ForkRun, FreeUnmarked
<1> QED  BY <1>1, <1>2, <1>3, <1>4, <1>5, <1>6, <1>7, <1>8, <1>9, <1>10, <1>11, <1>12
   DEF IInv

LEMMA ExitInv == ASSUME IInv, NEW p \in Slot, Exit(p) PROVE IInv'
<1>0. /\ state[p] = "RUNNING"
      /\ ptlock' \in Cpu /\ cpu'[ptlock'] = None /\ pos' = pos
      /\ cpu' \in [Cpu -> Slot \cup {None}]
      /\ \A d \in Cpu : cpu'[d] # p
      /\ \A d \in Cpu, q \in Slot \ {p} : (cpu'[d] = q) = (cpu[d] = q)
  BY Switch DEF IInv, Exit
<1>a. /\ state' \in [Slot -> States] /\ state'[p] = "ZOMBIE"
      /\ \A q \in Slot \ {p} :
           /\ \/ state'[q] = state[q]
              \/ state[q] = "SLEEPING" /\ state'[q] = "RUNNABLE"
           /\ state'[q] = "SLEEPING" =>
                /\ chan[q] # parent[p]
                /\ (\E r \in Slot : parent[r] = p /\ state[r] = "ZOMBIE")
                     => chan[q] # initproc
  BY Abandoned DEF IInv, Exit
<1>b. parent' = [q \in Slot |-> IF parent[q] = p THEN initproc ELSE parent[q]]
  BY DEF Exit, Abandon
<1>1. TypeOK'
  <2>1. state' \in [Slot -> States]  BY <1>a DEF Exit
  <2>2. parent' \in [Slot -> Slot \cup {None}] /\ killed' \subseteq Slot /\ unnamed' \subseteq Slot
    BY <1>b, Apart DEF IInv, Exit, TypeOK
  <2>3. chan' \in [Slot -> Slot \cup {Ticks, None}]  BY DEF IInv, Exit, TypeOK
  <2>4. \A q \in Slot : chan'[q] # None => state'[q] \in {"SLEEPING", "RUNNABLE"} \/ ptlock' = q
    BY <1>0, <1>a DEF IInv, Exit, At, TypeOK
  <2>5. pc' \in [Slot -> {"user", "fork", "forked", "wait", "sleep", "handoff", "woken",
                         "panic"}]  BY DEF IInv, Exit, local, TypeOK
  <2>6. child' \in [Slot -> Slot \cup {None}]  BY DEF IInv, Exit, local, TypeOK
  <2>7. left' \in [Slot -> 0 .. MaxTicks]  BY DEF IInv, Exit, local, TypeOK
  <2>8. ptlock' \in Slot \cup Cpu \cup {None} /\ tickslock' \in Slot \cup {Ticks, None}
    BY <1>0 DEF IInv, Exit, TypeOK
  <2>9. cpu' \in [Cpu -> Slot \cup {None}] /\ pos' \in [Cpu -> 1 .. NPROC + 1]
    BY <1>0 DEF IInv, Exit, TypeOK
  <2> QED  BY <2>1, <2>2, <2>3, <2>4, <2>5, <2>6, <2>7, <2>8, <2>9 DEF TypeOK
<1>2. OnOneCpu'  BY OffCpu, <1>a DEF IInv, TypeOK, Exit
<1>3. ParentLives'
  BY <1>0, <1>a, <1>b, Apart DEF IInv, Exit, ParentLives, Family, Alive
<1>4. NoZombieMissed'
  <2> SUFFICES ASSUME NEW q \in Slot, state'[q] = "SLEEPING", chan'[q] = q,
                      NEW c \in Slot, parent'[c] = q, state'[c] = "ZOMBIE"
               PROVE  FALSE
    BY DEF NoZombieMissed, NoZombie
  <2>1. q # p /\ state[q] = "SLEEPING" /\ chan[q] = q
    BY <1>a DEF Exit
  <2>2. CASE c = p
    <3>1. parent'[p] = parent[p]  BY <1>b DEF IInv, TypeOK, Family
    <3> QED  BY <2>1, <2>2, <3>1, <1>a
  <2>3. CASE c # p /\ parent[c] = p
    <3>1. q = initproc /\ state[c] = "ZOMBIE"  BY <2>3, <1>a, <1>b
    <3> QED  BY <2>1, <2>3, <3>1, <1>a
  <2>4. CASE c # p /\ parent[c] # p
    <3>1. parent[c] = q /\ state[c] = "ZOMBIE"  BY <2>4, <1>a, <1>b
    <3> QED  BY <2>1, <3>1 DEF IInv, NoZombieMissed, NoZombie
  <2> QED  BY <2>2, <2>3, <2>4
<1>5. NoTickMissed'  BY <1>a DEF IInv, Exit, local, NoTickMissed
<1>6. KilledDoNotWait'  BY <1>a DEF IInv, Exit, KilledDoNotWait
<1>7. LockHeld'  BY OffCpu, <1>a DEF IInv, TypeOK, Exit
<1>8. Forking'
  <2>1. \A q \in Slot : pc'[q] \in {"fork", "forked"} <=> child'[q] # None
    BY DEF IInv, Exit, local, Forking
  <2>2. \A q \in Slot : child'[q] # None => state'[child'[q]] = "EMBRYO"
    BY <1>0, <1>a DEF IInv, Exit, local, Forking, TypeOK
  <2>3. \A q \in Slot : pc'[q] = "forked" => parent'[child'[q]] = q
    BY <1>b DEF IInv, Exit, At, local, Forking, TypeOK
  <2>4. \A q, r \in Slot : child'[q] # None /\ q # r => child'[q] # child'[r]
    BY DEF IInv, Exit, local, Forking
  <2> QED  BY <2>1, <2>2, <2>3, <2>4 DEF Forking
<1>9. KernelAlive'  BY <1>a DEF IInv, Exit, At, local, KernelAlive, Alive
<1>10. Family'  BY <1>a, <1>b, Apart DEF IInv, Exit, Family, Alive
<1>11. ClockHeld'  BY DEF IInv, Exit, local, ClockHeld
<1>12. FreeUnmarked'  BY <1>a DEF IInv, Exit, FreeUnmarked
<1> QED  BY <1>1, <1>2, <1>3, <1>4, <1>5, <1>6, <1>7, <1>8, <1>9, <1>10, <1>11, <1>12
   DEF IInv

LEMMA InitExitInv == ASSUME IInv, InitExit PROVE IInv'
<1>1. TypeOK'  BY DEF IInv, InitExit, Goto, table, sched, TypeOK
<1>2. OnOneCpu'  BY DEF IInv, InitExit, table, sched, OnOneCpu
<1>3. ParentLives'  BY DEF IInv, InitExit, table, ParentLives, Alive
<1>4. NoZombieMissed'  BY DEF IInv, InitExit, table, NoZombieMissed, NoZombie
<1>5. NoTickMissed'  BY DEF IInv, InitExit, table, NoTickMissed
<1>6. KilledDoNotWait'  BY DEF IInv, InitExit, table, KilledDoNotWait
<1>7. LockHeld'  BY DEF IInv, InitExit, table, sched, LockHeld
<1>8. Forking'
  <2>1. \A q \in Slot : pc'[q] \in {"fork", "forked"} <=> child'[q] # None
    BY Moves, Apart DEF IInv, TypeOK, Forking, InitExit, At
  <2>2. \A q \in Slot : child'[q] # None => state'[child'[q]] = "EMBRYO"
    BY DEF IInv, InitExit, table, Forking
  <2>3. \A q \in Slot : pc'[q] = "forked" => parent'[child'[q]] = q
    BY DEF IInv, InitExit, Goto, table, Forking
  <2>4. \A q, r \in Slot : child'[q] # None /\ q # r => child'[q] # child'[r]
    BY DEF IInv, InitExit, Forking
  <2> QED  BY <2>1, <2>2, <2>3, <2>4 DEF Forking
<1>9. KernelAlive'
  BY Apart DEF IInv, InitExit, At, Goto, table, KernelAlive, OnOneCpu, Alive
<1>10. Family'  BY DEF IInv, InitExit, table, Family, Alive
<1>11. ClockHeld'  BY DEF IInv, InitExit, Goto, ClockHeld
<1>12. FreeUnmarked'  BY DEF IInv, InitExit, table, FreeUnmarked
<1> QED  BY <1>1, <1>2, <1>3, <1>4, <1>5, <1>6, <1>7, <1>8, <1>9, <1>10, <1>11, <1>12
   DEF IInv

LEMMA WaitCallInv == ASSUME IInv, NEW p \in Slot, WaitCall(p) PROVE IInv'
<1>1. TypeOK'  BY Apart DEF IInv, WaitCall, Goto, table, TypeOK
<1>2. OnOneCpu'  BY DEF IInv, WaitCall, table, OnOneCpu
<1>3. ParentLives'  BY DEF IInv, WaitCall, table, ParentLives, Alive
<1>4. NoZombieMissed'  BY DEF IInv, WaitCall, table, NoZombieMissed, NoZombie
<1>5. NoTickMissed'  BY DEF IInv, WaitCall, table, NoTickMissed
<1>6. KilledDoNotWait'  BY DEF IInv, WaitCall, table, KilledDoNotWait
<1>7. LockHeld'  BY Apart DEF IInv, WaitCall, At, MayCall, table, LockHeld, OnOneCpu
<1>8. Forking'
  <2>1. \A q \in Slot : pc'[q] \in {"fork", "forked"} <=> child'[q] # None
    BY Moves, Apart DEF IInv, TypeOK, Forking, WaitCall, MayCall, At
  <2>2. \A q \in Slot : child'[q] # None => state'[child'[q]] = "EMBRYO"
    BY DEF IInv, WaitCall, table, Forking
  <2>3. \A q \in Slot : pc'[q] = "forked" => parent'[child'[q]] = q
    BY DEF IInv, WaitCall, Goto, table, Forking
  <2>4. \A q, r \in Slot : child'[q] # None /\ q # r => child'[q] # child'[r]
    BY DEF IInv, WaitCall, Forking
  <2> QED  BY <2>1, <2>2, <2>3, <2>4 DEF Forking
<1>9. KernelAlive'
  BY Apart DEF IInv, WaitCall, At, MayCall, Goto, table, KernelAlive, OnOneCpu, Alive
<1>10. Family'  BY DEF IInv, WaitCall, table, Family, Alive
<1>11. ClockHeld'  BY DEF IInv, WaitCall, Goto, ClockHeld
<1>12. FreeUnmarked'  BY DEF IInv, WaitCall, table, FreeUnmarked
<1> QED  BY <1>1, <1>2, <1>3, <1>4, <1>5, <1>6, <1>7, <1>8, <1>9, <1>10, <1>11, <1>12
   DEF IInv

LEMMA ReapInv == ASSUME IInv, NEW p \in Slot, NEW c \in Slot, Reap(p, c) PROVE IInv'
<1>1. TypeOK'  BY DEF IInv, Reap, InWait, Goto, TypeOK, States
<1>2. OnOneCpu'  BY DEF IInv, Reap, OnOneCpu
<1>3. ParentLives'  BY DEF IInv, Reap, ParentLives, TypeOK, Alive
<1>4. NoZombieMissed'  BY Apart DEF IInv, Reap, NoZombieMissed, NoZombie
<1>5. NoTickMissed'  BY Apart DEF IInv, Reap, NoTickMissed
<1>6. KilledDoNotWait'  BY Apart DEF IInv, Reap, KilledDoNotWait
<1>7. LockHeld'  BY Apart DEF Reap, LockHeld
<1>8. Forking'
  <2>1. \A q \in Slot : pc'[q] \in {"fork", "forked"} <=> child'[q] # None
    BY DEF IInv, Reap, InWait, Goto, Forking
  <2>2. \A q \in Slot : child'[q] # None => state'[child'[q]] = "EMBRYO"
    BY DEF IInv, Reap, Forking
  <2>3. \A q \in Slot : pc'[q] = "forked" => parent'[child'[q]] = q
    BY DEF IInv, Reap, Goto, Forking
  <2>4. \A q, r \in Slot : child'[q] # None /\ q # r => child'[q] # child'[r]
    BY DEF IInv, Reap, Forking
  <2> QED  BY <2>1, <2>2, <2>3, <2>4 DEF Forking
<1>9. KernelAlive'  BY DEF IInv, Reap, Goto, KernelAlive, Alive
<1>10. Family'  BY Apart DEF IInv, Reap, Family, Alive
<1>11. ClockHeld'  BY DEF IInv, Reap, Goto, ClockHeld
<1>12. FreeUnmarked'  BY DEF IInv, Reap, FreeUnmarked
<1> QED  BY <1>1, <1>2, <1>3, <1>4, <1>5, <1>6, <1>7, <1>8, <1>9, <1>10, <1>11, <1>12
   DEF IInv

LEMMA WaitFailInv == ASSUME IInv, NEW p \in Slot, WaitFail(p) PROVE IInv'
<1>1. TypeOK'  BY DEF IInv, WaitFail, InWait, Goto, TypeOK
<1>2. OnOneCpu'  BY DEF IInv, WaitFail, OnOneCpu
<1>3. ParentLives'  BY DEF IInv, WaitFail, ParentLives, Alive
<1>4. NoZombieMissed'  BY DEF IInv, WaitFail, NoZombieMissed, NoZombie
<1>5. NoTickMissed'  BY Apart DEF IInv, WaitFail, NoTickMissed
<1>6. KilledDoNotWait'  BY Apart DEF IInv, WaitFail, KilledDoNotWait
<1>7. LockHeld'  BY Apart DEF WaitFail, LockHeld
<1>8. Forking'
  <2>1. \A q \in Slot : pc'[q] \in {"fork", "forked"} <=> child'[q] # None
    BY DEF IInv, WaitFail, InWait, Goto, Forking
  <2>2. \A q \in Slot : child'[q] # None => state'[child'[q]] = "EMBRYO"
    BY DEF IInv, WaitFail, Forking
  <2>3. \A q \in Slot : pc'[q] = "forked" => parent'[child'[q]] = q
    BY DEF IInv, WaitFail, Goto, Forking
  <2>4. \A q, r \in Slot : child'[q] # None /\ q # r => child'[q] # child'[r]
    BY DEF IInv, WaitFail, Forking
  <2> QED  BY <2>1, <2>2, <2>3, <2>4 DEF Forking
<1>9. KernelAlive'  BY DEF IInv, WaitFail, Goto, KernelAlive, Alive
<1>10. Family'  BY DEF IInv, WaitFail, Family, Alive
<1>11. ClockHeld'  BY DEF IInv, WaitFail, Goto, ClockHeld
<1>12. FreeUnmarked'  BY DEF IInv, WaitFail, FreeUnmarked
<1> QED  BY <1>1, <1>2, <1>3, <1>4, <1>5, <1>6, <1>7, <1>8, <1>9, <1>10, <1>11, <1>12
   DEF IInv

LEMMA WaitSleepInv == ASSUME IInv, NEW p \in Slot, WaitSleep(p) PROVE IInv'
<1>0. /\ state[p] = "RUNNING"
      /\ ptlock' \in Cpu /\ cpu'[ptlock'] = None /\ pos' = pos
      /\ cpu' \in [Cpu -> Slot \cup {None}]
      /\ \A d \in Cpu : cpu'[d] # p
      /\ \A d \in Cpu, q \in Slot \ {p} : (cpu'[d] = q) = (cpu[d] = q)
  BY Switch DEF IInv, WaitSleep
<1>1. TypeOK'  BY <1>0 DEF IInv, WaitSleep, InWait, local, TypeOK, States
<1>2. OnOneCpu'  BY OffCpu, <1>0 DEF IInv, TypeOK, WaitSleep
<1>3. ParentLives'  BY <1>0 DEF IInv, WaitSleep, ParentLives, Alive
<1>4. NoZombieMissed'  BY DEF IInv, WaitSleep, NoZombieMissed, NoZombie
<1>5. NoTickMissed'  BY Apart DEF IInv, WaitSleep, local, NoTickMissed, TypeOK
<1>6. KilledDoNotWait'  BY DEF IInv, WaitSleep, KilledDoNotWait
<1>7. LockHeld'  BY OffCpu, <1>0 DEF IInv, TypeOK, WaitSleep
<1>8. Forking'  BY <1>0 DEF IInv, WaitSleep, local, Forking
<1>9. KernelAlive'  BY DEF IInv, WaitSleep, local, KernelAlive, Alive
<1>10. Family'  BY DEF IInv, WaitSleep, Family, Alive
<1>11. ClockHeld'  BY DEF IInv, WaitSleep, local, ClockHeld
<1>12. FreeUnmarked'  BY DEF IInv, WaitSleep, FreeUnmarked
<1> QED  BY <1>1, <1>2, <1>3, <1>4, <1>5, <1>6, <1>7, <1>8, <1>9, <1>10, <1>11, <1>12
   DEF IInv

LEMMA KillInv == ASSUME IInv, NEW p \in Slot, NEW q \in Slot, Kill(p, q) PROVE IInv'
<1>1. TypeOK'  BY DEF IInv, Kill, Mark, local, sched, TypeOK, States
<1>2. OnOneCpu'  BY DEF IInv, Kill, Mark, sched, OnOneCpu
<1>3. ParentLives'  BY DEF IInv, Kill, Mark, ParentLives, Alive
<1>4. NoZombieMissed'  BY DEF IInv, Kill, Mark, NoZombieMissed, NoZombie
<1>5. NoTickMissed'  BY DEF IInv, Kill, Mark, local, NoTickMissed
<1>6. KilledDoNotWait'  BY DEF IInv, Kill, Mark, KilledDoNotWait, TypeOK
<1>7. LockHeld'  BY DEF IInv, Kill, Mark, sched, LockHeld
<1>8. Forking'  BY DEF IInv, Kill, Mark, local, Forking
<1>9. KernelAlive'  BY DEF IInv, Kill, Mark, local, KernelAlive, Alive
<1>10. Family'  BY DEF IInv, Kill, Mark, Family, Alive
<1>11. ClockHeld'  BY DEF IInv, Kill, local, ClockHeld
<1>12. FreeUnmarked'  BY DEF IInv, Kill, Mark, FreeUnmarked
<1> QED  BY <1>1, <1>2, <1>3, <1>4, <1>5, <1>6, <1>7, <1>8, <1>9, <1>10, <1>11, <1>12
   DEF IInv

LEMMA SleepCallInv == ASSUME IInv, NEW p \in Slot, SleepCall(p) PROVE IInv'
<1>1. TypeOK'
  <2>1. state' \in [Slot -> States]  BY DEF IInv, SleepCall, table, TypeOK
  <2>2. parent' \in [Slot -> Slot \cup {None}] /\ killed' \subseteq Slot /\ unnamed' \subseteq Slot
    BY DEF IInv, SleepCall, table, TypeOK
  <2>3. chan' \in [Slot -> Slot \cup {Ticks, None}]
    BY DEF IInv, SleepCall, table, TypeOK
  <2>4. \A q \in Slot : chan'[q] # None => state'[q] \in {"SLEEPING", "RUNNABLE"} \/ ptlock' = q
    BY DEF IInv, SleepCall, table, sched, TypeOK
  <2>5. pc' \in [Slot -> {"user", "fork", "forked", "wait", "sleep", "handoff", "woken",
                         "panic"}]  BY DEF IInv, SleepCall, Goto, TypeOK
  <2>6. child' \in [Slot -> Slot \cup {None}]  BY DEF IInv, SleepCall, TypeOK
  <2>7. left' \in [Slot -> 0 .. MaxTicks]  BY DEF IInv, SleepCall, TypeOK
  <2>8. ptlock' \in Slot \cup Cpu \cup {None} /\ tickslock' \in Slot \cup {Ticks, None}
    BY DEF IInv, SleepCall, sched, TypeOK
  <2>9. cpu' \in [Cpu -> Slot \cup {None}] /\ pos' \in [Cpu -> 1 .. NPROC + 1]
    BY DEF IInv, SleepCall, sched, TypeOK
  <2> QED  BY <2>1, <2>2, <2>3, <2>4, <2>5, <2>6, <2>7, <2>8, <2>9 DEF TypeOK
<1>2. OnOneCpu'  BY DEF IInv, SleepCall, table, sched, OnOneCpu
<1>3. ParentLives'  BY DEF IInv, SleepCall, table, ParentLives, Alive
<1>4. NoZombieMissed'  BY DEF IInv, SleepCall, table, NoZombieMissed, NoZombie
<1>5. NoTickMissed'
  <2>1. \A q \in Slot \ {p} : left'[q] = left[q]  BY DEF SleepCall, IInv, TypeOK
  <2>2. state[p] = "RUNNING" /\ tickslock = None
    BY DEF SleepCall, MayCall, At, IInv, OnOneCpu
  <2> QED  BY <2>1, <2>2, Apart DEF SleepCall, table, IInv, NoTickMissed
<1>6. KilledDoNotWait'  BY DEF IInv, SleepCall, table, KilledDoNotWait
<1>7. LockHeld'  BY DEF IInv, SleepCall, table, sched, LockHeld
<1>8. Forking'  BY DEF IInv, SleepCall, MayCall, At, Goto, table, Forking
<1>9. KernelAlive'
  BY Apart DEF IInv, SleepCall, MayCall, At, Goto, table, KernelAlive, OnOneCpu, Alive
<1>10. Family'  BY DEF IInv, SleepCall, table, Family, Alive
<1>11. ClockHeld'  BY Apart DEF IInv, SleepCall, Goto, ClockHeld
<1>12. FreeUnmarked'  BY DEF IInv, SleepCall, table, FreeUnmarked
<1> QED  BY <1>1, <1>2, <1>3, <1>4, <1>5, <1>6, <1>7, <1>8, <1>9, <1>10, <1>11, <1>12
   DEF IInv

LEMMA SleepTestInv == ASSUME IInv, NEW p \in Slot, SleepTest(p) PROVE IInv'
<1>1. TypeOK'
  <2>1. state' \in [Slot -> States]  BY DEF IInv, SleepTest, table, TypeOK
  <2>2. parent' \in [Slot -> Slot \cup {None}] /\ killed' \subseteq Slot /\ unnamed' \subseteq Slot
    BY DEF IInv, SleepTest, table, TypeOK
  <2>3. chan' \in [Slot -> Slot \cup {Ticks, None}]
    BY DEF IInv, SleepTest, table, TypeOK
  <2>4. \A q \in Slot : chan'[q] # None => state'[q] \in {"SLEEPING", "RUNNABLE"} \/ ptlock' = q
    BY DEF IInv, SleepTest, table, sched, TypeOK
  <2>5. pc' \in [Slot -> {"user", "fork", "forked", "wait", "sleep", "handoff", "woken",
                         "panic"}]  BY DEF IInv, SleepTest, Goto, TypeOK
  <2>6. child' \in [Slot -> Slot \cup {None}]  BY DEF IInv, SleepTest, TypeOK
  <2>7. left' \in [Slot -> 0 .. MaxTicks]  BY DEF IInv, SleepTest, TypeOK
  <2>8. ptlock' \in Slot \cup Cpu \cup {None} /\ tickslock' \in Slot \cup {Ticks, None}
    BY DEF IInv, SleepTest, sched, TypeOK
  <2>9. cpu' \in [Cpu -> Slot \cup {None}] /\ pos' \in [Cpu -> 1 .. NPROC + 1]
    BY DEF IInv, SleepTest, sched, TypeOK
  <2> QED  BY <2>1, <2>2, <2>3, <2>4, <2>5, <2>6, <2>7, <2>8, <2>9 DEF TypeOK
<1>2. OnOneCpu'  BY DEF IInv, SleepTest, table, sched, OnOneCpu
<1>3. ParentLives'  BY DEF IInv, SleepTest, table, ParentLives, Alive
<1>4. NoZombieMissed'  BY DEF IInv, SleepTest, table, NoZombieMissed, NoZombie
<1>5. NoTickMissed'  BY Apart DEF IInv, SleepTest, At, table, NoTickMissed, ClockHeld
<1>6. KilledDoNotWait'  BY DEF IInv, SleepTest, table, KilledDoNotWait
<1>7. LockHeld'  BY DEF IInv, SleepTest, table, sched, LockHeld
<1>8. Forking'
  <2>1. \A q \in Slot : pc'[q] \in {"fork", "forked"} <=> child'[q] # None
    BY DEF IInv, SleepTest, At, Goto, Forking, TypeOK
  <2>2. \A q \in Slot : child'[q] # None => state'[child'[q]] = "EMBRYO"
    BY DEF IInv, SleepTest, table, Forking
  <2>3. \A q \in Slot : pc'[q] = "forked" => parent'[child'[q]] = q
    BY DEF IInv, SleepTest, Goto, table, Forking, TypeOK
  <2>4. \A q, r \in Slot : child'[q] # None /\ q # r => child'[q] # child'[r]
    BY DEF IInv, SleepTest, Forking
  <2> QED  BY <2>1, <2>2, <2>3, <2>4 DEF Forking
<1>9. KernelAlive'
  BY DEF IInv, SleepTest, At, Goto, table, KernelAlive, TypeOK, Alive
<1>10. Family'  BY DEF IInv, SleepTest, table, Family, Alive
<1>11. ClockHeld'
  <2>1. tickslock = p /\ pc[p] = "sleep"  BY DEF SleepTest, At, IInv, ClockHeld
  <2>2. \A q \in Slot \ {p} : pc'[q] = pc[q] /\ pc[q] \notin {"sleep", "handoff"}
    BY <2>1, Moves DEF SleepTest, IInv, ClockHeld
  <2>3. CASE left[p] = 0 \/ p \in killed
    <3>1. pc'[p] = "user"  BY <2>3, Moves DEF SleepTest, IInv
    <3> QED  BY <2>2, <3>1 DEF ClockHeld
  <2>4. CASE ~(left[p] = 0 \/ p \in killed)
    <3>1. pc'[p] = "handoff" /\ UNCHANGED <<left, tickslock>>
      BY <2>4, Moves DEF SleepTest, IInv
    <3>2. left[p] > 0  BY <2>4 DEF IInv, TypeOK
    <3> QED  BY <2>1, <2>2, <3>1, <3>2 DEF ClockHeld
  <2> QED  BY <2>3, <2>4
<1>12. FreeUnmarked'  BY DEF IInv, SleepTest, table, FreeUnmarked
<1> QED  BY <1>1, <1>2, <1>3, <1>4, <1>5, <1>6, <1>7, <1>8, <1>9, <1>10, <1>11, <1>12
   DEF IInv

LEMMA SleepHandoffInv == ASSUME IInv, NEW p \in Slot, SleepHandoff(p) PROVE IInv'
<1>0. /\ state[p] = "RUNNING"
      /\ ptlock' \in Cpu /\ cpu'[ptlock'] = None /\ pos' = pos
      /\ cpu' \in [Cpu -> Slot \cup {None}]
      /\ \A d \in Cpu : cpu'[d] # p
      /\ \A d \in Cpu, q \in Slot \ {p} : (cpu'[d] = q) = (cpu[d] = q)
  BY Switch DEF IInv, SleepHandoff
<1>1. TypeOK'  BY <1>0 DEF IInv, SleepHandoff, At, Goto, TypeOK, States
<1>2. OnOneCpu'  BY OffCpu, <1>0 DEF IInv, TypeOK, SleepHandoff
<1>3. ParentLives'  BY <1>0 DEF IInv, SleepHandoff, ParentLives, Alive
<1>4. NoZombieMissed'
  BY Apart DEF IInv, SleepHandoff, NoZombieMissed, TypeOK, NoZombie
<1>5. NoTickMissed'  BY Apart DEF IInv, SleepHandoff, At, NoTickMissed, ClockHeld
<1>6. KilledDoNotWait'  BY Apart DEF IInv, SleepHandoff, KilledDoNotWait, TypeOK
<1>7. LockHeld'  BY OffCpu, <1>0 DEF IInv, TypeOK, SleepHandoff
<1>8. Forking'
  <2>1. \A q \in Slot : pc'[q] \in {"fork", "forked"} <=> child'[q] # None
    BY Moves, Apart DEF IInv, TypeOK, Forking, SleepHandoff, At
  <2>2. \A q \in Slot : child'[q] # None => state'[child'[q]] = "EMBRYO"
    BY <1>0 DEF IInv, SleepHandoff, Forking
  <2>3. \A q \in Slot : pc'[q] = "forked" => parent'[child'[q]] = q
    BY DEF IInv, SleepHandoff, Goto, Forking
  <2>4. \A q, r \in Slot : child'[q] # None /\ q # r => child'[q] # child'[r]
    BY DEF IInv, SleepHandoff, Forking
  <2> QED  BY <2>1, <2>2, <2>3, <2>4 DEF Forking
<1>9. KernelAlive'  BY <1>0 DEF IInv, SleepHandoff, Goto, KernelAlive, Alive
<1>10. Family'  BY DEF IInv, SleepHandoff, Family, Alive
<1>11. ClockHeld'  BY DEF IInv, SleepHandoff, At, Goto, ClockHeld, TypeOK
<1>12. FreeUnmarked'  BY DEF IInv, SleepHandoff, FreeUnmarked
<1> QED  BY <1>1, <1>2, <1>3, <1>4, <1>5, <1>6, <1>7, <1>8, <1>9, <1>10, <1>11, <1>12
   DEF IInv

LEMMA SleepWokenInv == ASSUME IInv, NEW p \in Slot, SleepWoken(p) PROVE IInv'
<1>1. TypeOK'  BY DEF IInv, SleepWoken, Goto, table, sched, TypeOK
<1>2. OnOneCpu'  BY DEF IInv, SleepWoken, table, sched, OnOneCpu
<1>3. ParentLives'  BY DEF IInv, SleepWoken, table, ParentLives, Alive
<1>4. NoZombieMissed'  BY DEF IInv, SleepWoken, table, NoZombieMissed, NoZombie
<1>5. NoTickMissed'  BY Apart DEF IInv, SleepWoken, table, NoTickMissed
<1>6. KilledDoNotWait'  BY DEF IInv, SleepWoken, table, KilledDoNotWait
<1>7. LockHeld'  BY DEF IInv, SleepWoken, table, sched, LockHeld
<1>8. Forking'  BY DEF IInv, SleepWoken, At, Goto, table, Forking
<1>9. KernelAlive'  BY DEF IInv, SleepWoken, At, Goto, table, KernelAlive, Alive
<1>10. Family'  BY DEF IInv, SleepWoken, table, Family, Alive
<1>11. ClockHeld'  BY Apart DEF IInv, SleepWoken, Goto, ClockHeld
<1>12. FreeUnmarked'  BY DEF IInv, SleepWoken, table, FreeUnmarked
<1> QED  BY <1>1, <1>2, <1>3, <1>4, <1>5, <1>6, <1>7, <1>8, <1>9, <1>10, <1>11, <1>12
   DEF IInv

LEMMA TickInv == ASSUME IInv, Tick PROVE IInv'
<1>1. TypeOK'  BY Apart, ProcAssumption DEF IInv, Tick, table, sched, TypeOK
<1>2. OnOneCpu'  BY DEF IInv, Tick, table, sched, OnOneCpu
<1>3. ParentLives'  BY DEF IInv, Tick, table, ParentLives, Alive
<1>4. NoZombieMissed'  BY DEF IInv, Tick, table, NoZombieMissed, NoZombie
<1>5. NoTickMissed'  BY DEF Tick, NoTickMissed
<1>6. KilledDoNotWait'  BY DEF IInv, Tick, table, KilledDoNotWait
<1>7. LockHeld'  BY DEF IInv, Tick, table, sched, LockHeld
<1>8. Forking'  BY DEF IInv, Tick, table, Forking
<1>9. KernelAlive'  BY DEF IInv, Tick, table, KernelAlive, Alive
<1>10. Family'  BY DEF IInv, Tick, table, Family, Alive
<1>11. ClockHeld'  BY Apart DEF IInv, Tick, ClockHeld
<1>12. FreeUnmarked'  BY DEF IInv, Tick, table, FreeUnmarked
<1> QED  BY <1>1, <1>2, <1>3, <1>4, <1>5, <1>6, <1>7, <1>8, <1>9, <1>10, <1>11, <1>12
   DEF IInv

LEMMA TickWakeupInv == ASSUME IInv, TickWakeup PROVE IInv'
<1>1. TypeOK'  BY DEF IInv, TickWakeup, local, sched, Wakeup1, TypeOK, States
<1>2. OnOneCpu'  BY DEF IInv, TickWakeup, sched, Wakeup1, OnOneCpu
<1>3. ParentLives'  BY DEF IInv, TickWakeup, Wakeup1, ParentLives, Alive
<1>4. NoZombieMissed'  BY DEF IInv, TickWakeup, Wakeup1, NoZombieMissed, NoZombie
<1>5. NoTickMissed'  BY DEF TickWakeup, Wakeup1, NoTickMissed
<1>6. KilledDoNotWait'  BY DEF IInv, TickWakeup, Wakeup1, KilledDoNotWait
<1>7. LockHeld'  BY DEF IInv, TickWakeup, sched, Wakeup1, LockHeld
<1>8. Forking'  BY DEF IInv, TickWakeup, local, Wakeup1, Forking, TypeOK
<1>9. KernelAlive'  BY DEF IInv, TickWakeup, local, Wakeup1, KernelAlive, Alive
<1>10. Family'  BY Apart DEF IInv, TickWakeup, Wakeup1, Family, Alive
<1>11. ClockHeld'  BY Apart DEF IInv, TickWakeup, local, ClockHeld
<1>12. FreeUnmarked'  BY DEF IInv, TickWakeup, Wakeup1, FreeUnmarked
<1> QED  BY <1>1, <1>2, <1>3, <1>4, <1>5, <1>6, <1>7, <1>8, <1>9, <1>10, <1>11, <1>12
   DEF IInv

-----------------------------------------------------------------------------
(* The invariant and what follows from it.                                 *)

LEMMA InitIInv == Init => IInv
<1> SUFFICES ASSUME Init PROVE IInv  OBVIOUS
<1>1. TypeOK /\ OnOneCpu /\ LockHeld
  BY Apart, ProcAssumption DEF Init, TypeOK, OnOneCpu, LockHeld, Slot, States, Ticks, initproc
<1>2. ParentLives /\ NoZombieMissed /\ NoTickMissed /\ KilledDoNotWait
  BY Apart DEF Init, ParentLives, NoZombieMissed, NoTickMissed, KilledDoNotWait, Alive
<1>3. Forking /\ KernelAlive /\ Family /\ ClockHeld /\ FreeUnmarked
  BY Apart DEF Init, Forking, KernelAlive, Family, ClockHeld, FreeUnmarked, Alive
<1> QED  BY <1>1, <1>2, <1>3 DEF IInv

LEMMA NextInv == IInv /\ [Next]_vars => IInv'
<1> SUFFICES ASSUME IInv, [Next]_vars PROVE IInv'  OBVIOUS
<1>1. CASE UNCHANGED vars
  BY <1>1 DEF vars, table, local, sched, IInv, TypeOK, OnOneCpu, ParentLives,
     NoZombieMissed, NoZombie, NoTickMissed, KilledDoNotWait, LockHeld, Forking,
     KernelAlive, Family, ClockHeld, FreeUnmarked, Alive
<1>2. CASE Tick \/ TickWakeup \/ InitExit  BY <1>2, TickInv, TickWakeupInv, InitExitInv
<1>3. ASSUME NEW c \in Cpu, Scheduler(c) PROVE IInv'
  BY <1>3, SchedulerLockInv, SchedulerRunInv, SchedulerUnlockInv DEF Scheduler
<1>4. ASSUME NEW p \in Slot, Resume(p) \/ Yield(p) PROVE IInv'
  BY <1>4, ResumeInv, YieldInv
<1>5. ASSUME NEW p \in Slot, Kernel(p) PROVE IInv'
  BY <1>5, ForkFailInv, ForkParentInv, ForkRunInv, WaitFailInv, WaitSleepInv, ReapInv,
     SleepTestInv, SleepHandoffInv, SleepWokenInv DEF Kernel
<1>6. ASSUME NEW p \in Slot, User(p) PROVE IInv'
  BY <1>6, ForkAllocInv, ExitInv, WaitCallInv, SleepCallInv, KillInv DEF User
<1> QED  BY <1>1, <1>2, <1>3, <1>4, <1>5, <1>6 DEF Next

THEOREM Invariance == Spec => []IInv
BY InitIInv, NextInv, PTL DEF Spec

\* Every variable has its type, and chan is cleared before a process goes on.
THEOREM TypeCorrect == Spec => []TypeOK
<1>1. IInv => TypeOK  BY DEF IInv
<1> QED  BY <1>1, Invariance, PTL

\* The scheduler: a process is on one CPU exactly while it is RUNNING, for
\* any number of CPUs.
THEOREM OneCpu == Spec => []OnOneCpu
<1>1. IInv => OnOneCpu  BY DEF IInv
<1> QED  BY <1>1, Invariance, PTL

\* exit: nobody is left without a parent that can reap it.
THEOREM ParentsLive == Spec => []ParentLives
<1>1. IInv => ParentLives  BY DEF IInv
<1> QED  BY <1>1, Invariance, PTL

\* exit and wait: no parent sleeps over a zombie, not even init over those
\* it inherits.
THEOREM ZombiesHeard == Spec => []NoZombieMissed
<1>1. IInv => NoZombieMissed  BY DEF IInv
<1> QED  BY <1>1, Invariance, PTL

\* sys_sleep and the clock: no tick that ends a sleep is missed.
THEOREM TicksHeard == Spec => []NoTickMissed
<1>1. IInv => NoTickMissed  BY DEF IInv
<1> QED  BY <1>1, Invariance, PTL

\* kill and wait: a process that was killed does not sleep in wait.
THEOREM KilledAwake == Spec => []KilledDoNotWait
<1>1. IInv => KilledDoNotWait  BY DEF IInv
<1> QED  BY <1>1, Invariance, PTL

\* exit, the clock and kill wake whom they concern.
THEOREM NobodyOversleeps == Spec => []NobodyMissed
<1>1. IInv => NobodyMissed  BY DEF IInv, NobodyMissed
<1> QED  BY <1>1, Invariance, PTL

\* allocproc: without stray calls of kill, a process is not born killed.
THEOREM FreshUnmarked == ASSUME ~Strays PROVE Spec => BornUnmarked
<1>1. IInv /\ IInv' /\ [Next]_vars =>
        [\A p \in Slot : state[p] = "UNUSED" /\ state'[p] = "EMBRYO" => p \notin killed']_vars
  BY DEF IInv, FreeUnmarked
<1> QED  BY <1>1, Invariance, PTL DEF Spec, BornUnmarked
=============================================================================
