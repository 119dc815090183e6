-------------------------------- MODULE Shell --------------------------------
(***************************************************************************)
(* The job table of the shell of src/os/my_shell.c: commands in the        *)
(* foreground, in series (&&), in parallel (&&&) and in the background (&),*)
(* children that end when they like, interrupts, and exit, which kills the *)
(* processes in the table.  Parsing, freeing of memory and what the        *)
(* programs do are left out.  One step of the shell is the code between    *)
(* two system calls that depend on a child; a fork may fail.  A background *)
(* job that finds the table full is written before its first slot, over    *)
(* other variables of main: see Record.                                    *)
(***************************************************************************)
EXTENDS Integers, Sequences

CONSTANTS Pid,    \* process identifiers, for children and strangers alike
          SLOTS   \* waitKiskeLiyeKarRhe[]: 64

\* A command line: how each of its commands is started, in order.
Line == {<<"fg">>, <<"and", "and">>, <<"par", "par">>, <<"bg", "fg">>, <<"bg", "bg">>}

VARIABLES
  table,     \* waitKiskeLiyeKarRhe: a pid, or -1
  any,       \* pehlaNasha: there may be something in the table
  sigint,    \* kyaAgliLinePeJaye
  todo,      \* the commands of the line that are still to be started
  await,     \* the pids that the shell has still to wait for, in order
  own,       \* own[i]: "no", or as the shell's child "running", "stopped"
             \* or "zombie"
  strangers, \* pids of processes of others
  pc,        \* "top", "line", "cmds", "gone"
  hit        \* the pids that exit has killed

vars == <<table, any, sigint, todo, await, own, strangers, pc, hit>>

Init ==
  /\ table = [s \in 1 .. SLOTS |-> -1] /\ any = FALSE /\ sigint = FALSE
  /\ todo = <<>> /\ await = <<>>
  /\ own = [i \in Pid |-> "no"] /\ strangers = {}
  /\ pc = "top" /\ hit = {}

-----------------------------------------------------------------------------
(* The main loop.                                                          *)

\* A variant: a slot is only cleared when its own wait reaps the child.
Cleared_OnlyReaped(s) == own[table[s]] = "zombie"

\* waitpid(.., WNOHANG) gives 0 for a child that runs and -1 for no child.
Cleared(s) == own[table[s]] \in {"no", "zombie"}

\* Poll the children in the table; start over after an interrupt.
Top ==
  /\ pc = "top"
  /\ LET polled == {s \in 1 .. SLOTS : any /\ table[s] # -1} IN
     /\ own' = [i \in Pid |-> IF own[i] = "zombie" /\ \E s \in polled : table[s] = i
                              THEN "no" ELSE own[i]]
     /\ table' = [s \in 1 .. SLOTS |-> IF s \in polled /\ Cleared(s) THEN -1 ELSE table[s]]
  /\ sigint' = FALSE
  /\ pc' = IF sigint THEN "top" ELSE "line"
  /\ UNCHANGED <<any, todo, await, strangers, hit>>

\* exit: kill what the table names, up to the first free slot.
Quit ==
  /\ pc = "line"
  /\ LET upto == {s \in 1 .. SLOTS : \A t \in 1 .. s : table[t] # -1} IN
     hit' = {table[s] : s \in upto}
  /\ pc' = "gone"
  /\ UNCHANGED <<table, any, sigint, todo, await, own, strangers>>

\* A line is read; &&& ends the shell if there has been an interrupt.
Read ==
  /\ pc = "line"
  /\ \E l \in Line :
       /\ todo' = l
       /\ pc' = IF sigint /\ l[1] = "par" THEN "gone" ELSE "cmds"
  /\ UNCHANGED <<table, any, sigint, await, own, strangers, hit>>

\* The line goes on starting commands before it waits for any.
Parallel == todo # <<>> /\ Head(todo) = "par"

Full == \A s \in 1 .. SLOTS : table[s] # -1
FreeSlot == CHOOSE s \in 1 .. SLOTS : table[s] = -1 /\ \A t \in 1 .. s - 1 : table[t] # -1

\* waitKiskeLiyeKarRhe[findFreeIndex(..)] = ret.  In a full table the index is
\* -1, and ret overwrites a local variable of main that the compiler put there:
\* one whose value is no longer used, a loop's index or bound, so that the rest
\* of the line is skipped, or what the shell then crashes on.
Record(ret) ==
  \/ /\ ~Full
     /\ table' = [table EXCEPT ![FreeSlot] = ret]
     /\ todo' = Tail(todo)
     /\ UNCHANGED pc
  \/ /\ Full
     /\ \/ todo' \in {Tail(todo), <<>>} /\ UNCHANGED pc
        \/ pc' = "gone" /\ UNCHANGED todo
     /\ UNCHANGED table

\* fork and what follows it in the parent.  A fork that fails returns -1, and
\* waitpid will wait for any child.  && goes no further after an interrupt.
Start ==
  /\ pc = "cmds" /\ todo # <<>>
  /\ await # <<>> => Parallel
  /\ IF Head(todo) = "and" /\ sigint
     THEN todo' = <<>> /\ UNCHANGED <<table, any, await, own, pc>>
     ELSE \E ret \in {i \in Pid : own[i] = "no" /\ i \notin strangers} \cup {-1} :
            /\ own' = [i \in Pid |-> IF i = ret THEN "running" ELSE own[i]]
            /\ IF Head(todo) = "bg"
               THEN Record(ret) /\ any' = TRUE /\ UNCHANGED await
               ELSE /\ await' = IF Head(todo) = "par" /\ ret = -1 THEN await
                                ELSE Append(await, ret)
                    /\ todo' = Tail(todo)
                    /\ UNCHANGED <<table, any, pc>>
  /\ UNCHANGED <<sigint, strangers, hit>>

\* waitpid(.., W_OK) for the next of them: W_OK is WUNTRACED, so that a child
\* that stops ends the wait as well.
Wait ==
  /\ pc = "cmds" /\ await # <<>> /\ ~Parallel
  /\ LET which == IF Head(await) = -1 THEN Pid ELSE {Head(await)} IN
     \/ \E i \in which : own[i] = "zombie" /\ own' = [own EXCEPT ![i] = "no"]
     \/ /\ (\E i \in which : own[i] = "stopped") \/ (\A i \in which : own[i] = "no")
        /\ UNCHANGED own
  /\ await' = Tail(await)
  /\ UNCHANGED <<table, any, sigint, todo, strangers, pc, hit>>

LineDone ==
  /\ pc = "cmds" /\ todo = <<>> /\ await = <<>>
  /\ pc' = "top"
  /\ UNCHANGED <<table, any, sigint, todo, await, own, strangers, hit>>

Shell == Top \/ Quit \/ Read \/ Start \/ Wait \/ LineDone

-----------------------------------------------------------------------------
(* What goes on beside the shell.                                          *)

\* A child stops, continues, or ends and is a zombie until it is waited for.
Change(i) ==
  /\ pc # "gone" /\ own[i] \in {"running", "stopped"}
  /\ \E s \in {"running", "stopped", "zombie"} : own' = [own EXCEPT ![i] = s]
  /\ UNCHANGED <<table, any, sigint, todo, await, strangers, pc, hit>>

\* A pid that is nobody's is given to somebody else's process, which ends.
Stranger(i) ==
  /\ pc # "gone" /\ own[i] = "no"
  /\ strangers' = IF i \in strangers THEN strangers \ {i} ELSE strangers \cup {i}
  /\ UNCHANGED <<table, any, sigint, todo, await, own, pc, hit>>

\* SIGINT sets the flag; the children in the shell's group end by themselves.
Sigint ==
  /\ pc # "gone" /\ ~sigint
  /\ sigint' = TRUE
  /\ UNCHANGED <<table, any, todo, await, own, strangers, pc, hit>>

Next == Shell \/ Sigint \/ \E i \in Pid : Change(i) \/ Stranger(i)

Spec == Init /\ [][Next]_vars

-----------------------------------------------------------------------------
(* Properties.                                                             *)

\* exit never kills a process of somebody else: although any child may have
\* been waited for and its pid used again, the table names children of the
\* shell whenever a line is read, also after lines that found it full.
KillsOwnOnly == hit \cap strangers = {}
=============================================================================
