------------------------------- MODULE Files -------------------------------
(***************************************************************************)
(* Files, inodes and directories of xv6 (file.c, fs.c, sysfile.c): the     *)
(* system calls that make, name, open and remove files, walking paths and  *)
(* counting references and links while other processes do the same.        *)
(*                                                                         *)
(* One step is what a process does between two waits for an inode's lock,  *)
(* or one critical section of icache.lock that others can notice.  The     *)
(* inode cache is write-through: each change of an inode is followed by    *)
(* iupdate under the inode's lock, and one variable stands for both copies.*)
(* The transactions of the log are not shown (module Log), nor what files  *)
(* contain; the disk has inodes and blocks enough unless ialloc panics.    *)
(***************************************************************************)
EXTENDS Integers, Sequences, FiniteSets

CONSTANTS Proc,    \* processes
          Inum,    \* the inodes on the disk; 1 is the root directory
          Name,    \* names of files
          File,    \* ftable.file[]
          Fd,      \* file descriptors of a process
          MaxLinks,\* bound: the links sys_link counts
          Calls,   \* the system calls with a path: <<op, path>>, <<"link", old, new>>
          None

Root == 1
Dots == {".", ".."}

Paths == Seq(Name \cup Dots) \ {<<>>}

ASSUME FilesAssumption ==
  /\ Root \in Inum /\ None \notin Inum \cup Proc \cup File
  /\ IsFiniteSet(Inum) /\ IsFiniteSet(Proc) /\ IsFiniteSet(File) /\ IsFiniteSet(Fd)
  /\ Name \cap Dots = {} /\ IsFiniteSet(Name)
  /\ MaxLinks \in Nat
  /\ \A c \in Calls : /\ c[1] \in {"open", "create", "mkdir", "unlink", "link", "chdir"}
                      /\ c[2] \in Paths
                      /\ c[1] = "link" => c[3] \in Paths

VARIABLES
  type,     \* type[i]: "free", "file" or "dir"
  nlink,    \* nlink[i]
  ents,     \* ents[d][x]: the inode that x names in directory d, or None
  ref,      \* ref[i]: references to i's entry in the inode cache
  valid,    \* the inodes whose entry has been read from the disk
  lock,     \* lock[i]: the process that has i locked
  fref,     \* fref[f]: references to file f
  fip,      \* fip[f]: the inode that f is open on
  ofile,    \* ofile[p][fd]: p's open files
  cwd,      \* cwd[p]
  th,       \* th[p]: p's kernel thread, see below
  panicked  \* the message of panic, or "no"

disk   == <<type, nlink, ents>>
icache == <<ref, valid, lock>>
files  == <<fref, fip, ofile>>
vars   == <<disk, icache, files, cwd, th, panicked>>

(***************************************************************************)
(* Where a kernel thread is (pc), the system call it carries out, the rest *)
(* of its path, the label to go to when the path is walked, the inodes its *)
(* local variables refer to, and, in iput, the label to return to.         *)
(***************************************************************************)
Idle(l) == [pc |-> l, call |-> <<>>, path |-> <<>>, goal |-> "user", ret |-> "user",
            at |-> None, dp |-> None, ip |-> None, put |-> None]

NoEntries == [x \in Name \cup Dots |-> None]
DirOf(i, d) == [NoEntries EXCEPT !["."] = i, ![".."] = d]

Init ==
  /\ type  = [i \in Inum |-> IF i = Root THEN "dir" ELSE "free"]
  /\ nlink = [i \in Inum |-> IF i = Root THEN 1 ELSE 0]
  /\ ents  = [i \in Inum |-> IF i = Root THEN DirOf(Root, Root) ELSE NoEntries]
  /\ \E p \in Proc :
       /\ th  = [q \in Proc |-> Idle(IF q = p THEN "user" ELSE "gone")]
       /\ cwd = [q \in Proc |-> IF q = p THEN Root ELSE None]
  /\ ref = [i \in Inum |-> IF i = Root THEN 1 ELSE 0]
  /\ valid = {} /\ lock = [i \in Inum |-> None]
  /\ fref = [f \in File |-> 0] /\ fip = [f \in File |-> None]
  /\ ofile = [p \in Proc |-> [fd \in Fd |-> None]]
  /\ panicked = "no"

At(p, l) == th[p].pc = l /\ panicked = "no"
Set(p, t) == th' = [th EXCEPT ![p] = t]
Panic(m) == panicked' = m /\ UNCHANGED <<disk, icache, files, cwd, th>>

\* t goes on to iput(i), and then to r.
Put(t, i, r) == [t EXCEPT !.pc = "iput", !.put = i, !.ret = r]
PutAt(t, r) == [Put(t, t.at, r) EXCEPT !.at = None]
PutDp(t, r) == [Put(t, t.dp, r) EXCEPT !.dp = None]
PutIp(t, r) == [Put(t, t.ip, r) EXCEPT !.ip = None]

\* ilock of an inode that nobody has locked, then Then.
Ilock(i, Then) ==
  /\ lock[i] = None
  /\ IF type[i] = "free" THEN Panic("ilock: no type")
                         ELSE valid' = valid \cup {i} /\ UNCHANGED panicked /\ Then

-----------------------------------------------------------------------------
(* iput.                                                                   *)

\* A variant: the count is not looked at.
Iput_AnyRef(p) ==
  /\ At(p, "iput")
  /\ LET i == th[p].put IN
     /\ lock[i] = None
     /\ IF i \in valid /\ nlink[i] = 0
        THEN /\ type' = [type EXCEPT ![i] = "free"]
             /\ ents' = [ents EXCEPT ![i] = NoEntries]
             /\ valid' = valid \ {i}
        ELSE UNCHANGED <<type, ents, valid>>
  /\ Set(p, [th[p] EXCEPT !.pc = "unref"])
  /\ UNCHANGED <<nlink, ref, lock, files, cwd, panicked>>

\* Under the inode's lock: free it if this is the last reference and no name
\* is left.
Iput(p) ==
  /\ At(p, "iput")
  /\ LET i == th[p].put IN
     /\ lock[i] = None
     /\ IF i \in valid /\ nlink[i] = 0 /\ ref[i] = 1
        THEN /\ type' = [type EXCEPT ![i] = "free"]
             /\ ents' = [ents EXCEPT ![i] = NoEntries]
             /\ valid' = valid \ {i}
        ELSE UNCHANGED <<type, ents, valid>>
  /\ Set(p, [th[p] EXCEPT !.pc = "unref"])
  /\ UNCHANGED <<nlink, ref, lock, files, cwd, panicked>>

\* Then, without it, drop the reference; an entry without references is not
\* valid to the iget that takes it next.  link goes on to put its other inode.
Unref(p) ==
  /\ At(p, "unref")
  /\ ref' = [ref EXCEPT ![th[p].put] = @ - 1]
  /\ valid' = IF ref[th[p].put] = 1 THEN valid \ {th[p].put} ELSE valid
  /\ LET t == [th[p] EXCEPT !.put = None, !.pc = th[p].ret] IN
     Set(p, IF t.pc = "put_ip" THEN PutIp(t, "user")
            ELSE IF t.pc \in {"user", "gone"} THEN Idle(t.pc) ELSE t)
  /\ UNCHANGED <<disk, lock, files, cwd, panicked>>

-----------------------------------------------------------------------------
(* Paths: namex, hand over hand.                                           *)

\* namei of path, or nameiparent, from the root or the current directory.
StartWalk(p, t, path, goal) ==
  \E d \in {Root, cwd[p]} :
    /\ ref' = [ref EXCEPT ![d] = @ + 1]
    /\ Set(p, [t EXCEPT !.pc = "walk", !.path = path, !.goal = goal, !.at = d])

Parent(t) == t.goal \in {"create", "unlink", "link2"}

Walk(p) ==
  /\ At(p, "walk")
  /\ LET t == th[p]  i == t.at  next == ents[i][Head(t.path)]
         fail == PutAt(t, IF t.goal = "link2" THEN "bad" ELSE "user") IN
     Ilock(i,
       IF type[i] # "dir" THEN Set(p, fail) /\ UNCHANGED ref
       ELSE IF Parent(t) /\ Len(t.path) = 1
       THEN Set(p, [t EXCEPT !.pc = t.goal, !.dp = i, !.at = None]) /\ UNCHANGED ref
       ELSE IF next = None THEN Set(p, fail) /\ UNCHANGED ref
       ELSE /\ ref' = [ref EXCEPT ![next] = @ + 1]
            /\ Set(p, IF Len(t.path) = 1
                      THEN [PutAt(t, t.goal) EXCEPT !.ip = next]
                      ELSE [PutAt(t, "walk") EXCEPT !.at = next, !.path = Tail(@)]))
  /\ UNCHANGED <<disk, lock, files, cwd>>

\* A system call with a path.
Call(p) ==
  /\ At(p, "user")
  /\ \E c \in Calls :
       StartWalk(p, [th[p] EXCEPT !.call = c], c[2],
                 IF c[1] = "mkdir" THEN "create" ELSE c[1])
  /\ UNCHANGED <<disk, valid, lock, files, cwd, panicked>>

-----------------------------------------------------------------------------
(* open and create.                                                        *)

\* filealloc and fdalloc, with the inode locked; without either the inode
\* is put back.  It is unlocked in both cases.
OpenFile(p) ==
  LET t == th[p]  free == {f \in File : fref[f] = 0} IN
  IF free # {} /\ \E fd \in Fd : ofile[p][fd] = None
  THEN /\ \E f \in free, fd \in Fd :
            /\ ofile[p][fd] = None
            /\ fref'  = [fref EXCEPT ![f] = 1]
            /\ fip'   = [fip EXCEPT ![f] = t.ip]
            /\ ofile' = [ofile EXCEPT ![p][fd] = f]
       /\ Set(p, Idle("user"))
  ELSE Set(p, PutIp(t, "user")) /\ UNCHANGED files

\* open without O_CREATE; a directory is not opened for writing.
Open(p) ==
  /\ At(p, "open")
  /\ LET i == th[p].ip IN
     Ilock(i, \/ OpenFile(p)
              \/ type[i] = "dir" /\ Set(p, PutIp(th[p], "user")) /\ UNCHANGED files)
  /\ UNCHANGED <<disk, ref, lock, cwd>>

\* create under the parent's lock: look the name up, or make the inode and
\* enter it; the new inode stays locked while the parent is put.
Create(p) ==
  /\ At(p, "create")
  /\ LET t == th[p]  d == t.dp  x == Head(t.path)  old == ents[d][x]
         kind == IF t.call[1] = "mkdir" THEN "dir" ELSE "file"
         free == {i \in Inum : type[i] = "free"} IN
     /\ lock[d] = None
     /\ IF type[d] = "free" THEN Panic("ilock: no type")
        ELSE IF type[d] # "dir" THEN Panic("dirlookup not DIR")
        ELSE IF old # None
        THEN /\ ref' = [ref EXCEPT ![old] = @ + 1]
             /\ valid' = valid \cup {d}
             /\ Set(p, [PutDp(t, "opened") EXCEPT !.ip = old])
             /\ UNCHANGED <<disk, lock, panicked>>
        ELSE IF free = {} THEN Panic("ialloc: no inodes")
        ELSE \E i \in free :
             /\ type'  = [type EXCEPT ![i] = kind]
             /\ nlink' = [nlink EXCEPT ![i] = 1, ![d] = IF kind = "dir" THEN @ + 1 ELSE @]
             /\ ents'  = [ents EXCEPT ![d][x] = i,
                            ![i] = IF kind = "dir" THEN DirOf(i, d) ELSE NoEntries]
             /\ ref'   = [ref EXCEPT ![i] = @ + 1]
             /\ valid' = valid \cup {d, i}
             /\ lock'  = [lock EXCEPT ![i] = p]
             /\ Set(p, [PutDp(t, "created") EXCEPT !.ip = i])
             /\ UNCHANGED panicked
  /\ UNCHANGED <<files, cwd>>

\* The name was there: only a file may be opened that way.
Opened(p) ==
  /\ At(p, "opened")
  /\ LET t == th[p] IN
     Ilock(t.ip, IF t.call[1] = "create" /\ type[t.ip] = "file" THEN OpenFile(p)
                 ELSE Set(p, PutIp(t, "user")) /\ UNCHANGED files)
  /\ UNCHANGED <<disk, ref, lock, cwd>>

Created(p) ==
  /\ At(p, "created")
  /\ lock' = [lock EXCEPT ![th[p].ip] = None]
  /\ IF th[p].call[1] = "create" THEN OpenFile(p)
     ELSE Set(p, PutIp(th[p], "user")) /\ UNCHANGED files
  /\ UNCHANGED <<disk, ref, valid, cwd, panicked>>

-----------------------------------------------------------------------------
(* unlink.                                                                 *)

\* A variant: the parent is not kept locked.
Unlink_NotHeld(p) ==
  /\ At(p, "unlink")
  /\ LET t == th[p]  d == t.dp  x == Head(t.path)  i == ents[d][x] IN
     Ilock(d,
       IF x \in Dots \/ i = None
       THEN Set(p, PutDp(t, "user")) /\ UNCHANGED ref
       ELSE /\ ref' = [ref EXCEPT ![i] = @ + 1]
            /\ Set(p, [t EXCEPT !.pc = "unlink2", !.ip = i]))
  /\ UNCHANGED <<disk, lock, files, cwd>>

\* Under the parent's lock, find the name.
Unlink(p) ==
  /\ At(p, "unlink")
  /\ LET t == th[p]  d == t.dp  x == Head(t.path)  i == ents[d][x] IN
     Ilock(d,
       IF x \in Dots \/ i = None
       THEN Set(p, PutDp(t, "user")) /\ UNCHANGED <<ref, lock>>
       ELSE /\ ref'  = [ref EXCEPT ![i] = @ + 1]
            /\ lock' = [lock EXCEPT ![d] = p]
            /\ Set(p, [t EXCEPT !.pc = "unlink2", !.ip = i]))
  /\ UNCHANGED <<disk, files, cwd>>

IsEmptyDir(i) == \A x \in Name : ents[i][x] = None

\* Under both locks: clear the entry, unless it is a directory in use.
Unlink2(p) ==
  /\ At(p, "unlink2")
  /\ LET t == th[p]  d == t.dp  i == t.ip  x == Head(t.path) IN
     /\ lock[i] = None
     /\ IF type[i] = "free" THEN Panic("ilock: no type")
        ELSE IF nlink[i] < 1 THEN Panic("unlink: nlink < 1")
        ELSE /\ valid' = valid \cup {i}
             /\ IF type[i] = "dir" /\ ~IsEmptyDir(i)
                THEN Set(p, PutIp(t, "unlink_bad")) /\ UNCHANGED <<nlink, ents, lock>>
                ELSE /\ ents'  = [ents EXCEPT ![d][x] = None]
                     /\ nlink' = [nlink EXCEPT ![d] = IF type[i] = "dir" THEN @ - 1 ELSE @]
                     /\ lock'  = [lock EXCEPT ![d] = None, ![i] = p]
                     /\ Set(p, PutDp(t, "unlink3"))
             /\ UNCHANGED <<type, ref, files, cwd, panicked>>

UnlinkBad(p) ==
  /\ At(p, "unlink_bad")
  /\ lock' = [lock EXCEPT ![th[p].dp] = None]
  /\ Set(p, PutDp(th[p], "user"))
  /\ UNCHANGED <<disk, ref, valid, files, cwd, panicked>>

\* The inode, locked all the while, loses its link.
Unlink3(p) ==
  /\ At(p, "unlink3")
  /\ LET i == th[p].ip IN
     /\ nlink' = [nlink EXCEPT ![i] = @ - 1]
     /\ lock'  = [lock EXCEPT ![i] = None]
  /\ Set(p, PutIp(th[p], "user"))
  /\ UNCHANGED <<type, ents, ref, valid, files, cwd, panicked>>

-----------------------------------------------------------------------------
(* link.                                                                   *)

\* A variant: the link is counted once it is made.
Link_CountLater(p) ==
  /\ At(p, "link")
  /\ LET i == th[p].ip IN
     Ilock(i, IF type[i] = "dir" THEN Set(p, PutIp(th[p], "user")) /\ UNCHANGED <<nlink, ref>>
              ELSE StartWalk(p, th[p], th[p].call[3], "link2") /\ UNCHANGED nlink)
  /\ UNCHANGED <<type, ents, lock, files, cwd>>

\* Count the link before it is made.
Link(p) ==
  /\ At(p, "link")
  /\ LET i == th[p].ip IN
     Ilock(i, IF type[i] = "dir" THEN Set(p, PutIp(th[p], "user")) /\ UNCHANGED <<nlink, ref>>
              ELSE /\ nlink[i] < MaxLinks
                   /\ nlink' = [nlink EXCEPT ![i] = @ + 1]
                   /\ StartWalk(p, th[p], th[p].call[3], "link2"))
  /\ UNCHANGED <<type, ents, lock, files, cwd>>

\* dirlink; a name that exists is put back with the directory still locked.
Link2(p) ==
  /\ At(p, "link2")
  /\ LET t == th[p]  d == t.dp  x == Head(t.path)  old == ents[d][x] IN
     Ilock(d,
       IF old = None
       THEN /\ ents' = [ents EXCEPT ![d][x] = t.ip]
            /\ Set(p, PutDp(t, "put_ip"))
            /\ UNCHANGED <<ref, lock>>
       ELSE /\ ref'  = [ref EXCEPT ![old] = @ + 1]
            /\ lock' = [lock EXCEPT ![d] = p]
            /\ Set(p, Put(t, old, "link_bad"))
            /\ UNCHANGED ents)
  /\ UNCHANGED <<type, nlink, files, cwd>>

LinkBad(p) ==
  /\ At(p, "link_bad")
  /\ lock' = [lock EXCEPT ![th[p].dp] = None]
  /\ Set(p, PutDp(th[p], "bad"))
  /\ UNCHANGED <<disk, ref, valid, files, cwd, panicked>>

\* bad: take the link back.
Bad(p) ==
  /\ At(p, "bad")
  /\ LET i == th[p].ip IN
     Ilock(i, nlink' = [nlink EXCEPT ![i] = @ - 1] /\ Set(p, PutIp(th[p], "user")))
  /\ UNCHANGED <<type, ents, ref, lock, files, cwd>>

-----------------------------------------------------------------------------
(* chdir, dup, close, fork and exit.                                       *)

Chdir(p) ==
  /\ At(p, "chdir")
  /\ LET t == th[p]  i == t.ip IN
     Ilock(i, IF type[i] # "dir" THEN Set(p, PutIp(t, "user")) /\ UNCHANGED cwd
              ELSE /\ cwd' = [cwd EXCEPT ![p] = i]
                   /\ Set(p, [Put(t, cwd[p], "user") EXCEPT !.ip = None]))
  /\ UNCHANGED <<disk, ref, lock, files>>

Dup(p) ==
  /\ At(p, "user")
  /\ \E fd, new \in Fd :
       /\ ofile[p][fd] # None /\ ofile[p][new] = None
       /\ ofile' = [ofile EXCEPT ![p][new] = ofile[p][fd]]
       /\ fref'  = [fref EXCEPT ![ofile[p][fd]] = @ + 1]
  /\ UNCHANGED <<disk, icache, fip, cwd, th, panicked>>

\* fileclose: the last reference puts the inode.
FileClose(p, fd, then) ==
  LET f == ofile[p][fd] IN
  /\ f # None
  /\ ofile' = [ofile EXCEPT ![p][fd] = None]
  /\ fref'  = [fref EXCEPT ![f] = @ - 1]
  /\ IF fref[f] = 1
     THEN fip' = [fip EXCEPT ![f] = None] /\ Set(p, Put(th[p], fip[f], then))
     ELSE UNCHANGED <<fip, th>>
  /\ UNCHANGED <<disk, icache, cwd, panicked>>

Close(p) == At(p, "user") /\ \E fd \in Fd : FileClose(p, fd, "user")

\* A variant: the child's files are not counted.
Fork_NoFiledup(p) ==
  /\ At(p, "user")
  /\ \E c \in Proc :
       /\ At(c, "gone")
       /\ ofile' = [ofile EXCEPT ![c] = ofile[p]]
       /\ cwd'   = [cwd EXCEPT ![c] = cwd[p]]
       /\ Set(c, Idle("user"))
  /\ ref'  = [ref EXCEPT ![cwd[p]] = @ + 1]
  /\ UNCHANGED <<disk, valid, lock, fref, fip, panicked>>

Fork(p) ==
  /\ At(p, "user")
  /\ \E c \in Proc :
       /\ At(c, "gone")
       /\ ofile' = [ofile EXCEPT ![c] = ofile[p]]
       /\ cwd'   = [cwd EXCEPT ![c] = cwd[p]]
       /\ Set(c, Idle("user"))
  /\ fref' = [f \in File |-> fref[f] + Cardinality({fd \in Fd : ofile[p][fd] = f})]
  /\ ref'  = [ref EXCEPT ![cwd[p]] = @ + 1]
  /\ UNCHANGED <<disk, valid, lock, fip, panicked>>

\* exit closes the files one by one, then puts the current directory.
Exit(p) ==
  /\ At(p, "user") /\ \E q \in Proc \ {p} : th[q].pc # "gone"
  /\ Set(p, Idle("exit"))
  /\ UNCHANGED <<disk, icache, files, cwd, panicked>>

ExitClose(p) ==
  /\ At(p, "exit")
  /\ IF \E fd \in Fd : ofile[p][fd] # None
     THEN \E fd \in Fd : FileClose(p, fd, "exit")
     ELSE /\ cwd' = [cwd EXCEPT ![p] = None]
          /\ Set(p, Put(th[p], cwd[p], "gone"))
          /\ UNCHANGED <<disk, icache, files, panicked>>

-----------------------------------------------------------------------------
Kernel(p) ==
  \/ Iput(p) \/ Unref(p) \/ Walk(p) \/ Open(p) \/ Create(p) \/ Opened(p) \/ Created(p)
  \/ Unlink(p) \/ Unlink2(p) \/ UnlinkBad(p) \/ Unlink3(p)
  \/ Link(p) \/ Link2(p) \/ LinkBad(p) \/ Bad(p) \/ Chdir(p) \/ ExitClose(p)

User(p) == Call(p) \/ Dup(p) \/ Close(p) \/ Fork(p) \/ Exit(p)

Next == \E p \in Proc : Kernel(p) \/ User(p)

Spec == Init /\ [][Next]_vars

-----------------------------------------------------------------------------
(* Properties.                                                             *)

\* What refers to i's entry in the inode cache: local variables of kernel
\* threads, current directories and open files.
Pointers(i) ==
  {pv \in Proc \X {"at", "dp", "ip", "put"} : th[pv[1]][pv[2]] = i}
  \cup {<<p, "cwd">> : p \in {q \in Proc : cwd[q] = i}}
  \cup {<<f, "file">> : f \in {g \in File : fip[g] = i}}

\* ip->ref is the number of pointers to the entry, and f->ref the number of
\* descriptors of the file; a file with descriptors is open on an inode.
RefsCountPointers ==
  panicked = "no" =>
    /\ \A i \in Inum : ref[i] = Cardinality(Pointers(i))
    /\ \A f \in File :
         /\ fref[f] = Cardinality({pfd \in Proc \X Fd : ofile[pfd[1]][pfd[2]] = f})
         /\ fip[f] # None <=> fref[f] > 0

\* Nothing that is still named by a directory, or still referred to, is
\* freed: only the process that freed an inode may still have to drop its
\* reference.
NotFreedInUse ==
  \A i \in Inum : type[i] = "free" =>
    /\ \A d \in Inum, x \in Name : ents[d][x] # i
    /\ \A pv \in Pointers(i) : pv[2] = "put" /\ th[pv[1]].pc = "unref"

Names(i)   == {dx \in Inum \X Name : ents[dx[1]][dx[2]] = i}
Subdirs(i) == {x \in Name : ents[i][x] # None /\ type[ents[i][x]] = "dir"}

\* Links that sys_link has counted but not made, or that sys_unlink has
\* unmade but still counts.
Linking(i)   == {p \in Proc : th[p].ip = i /\ th[p].goal = "link2" /\ th[p].ret # "put_ip"}
Unlinking(i) == {p \in Proc : th[p].ip = i /\ "unlink3" \in {th[p].pc, th[p].ret}}

\* An inode counts every name it has, a name more while one is being made or
\* removed, and as a directory the ".." of its subdirectories: so the count
\* does not fall to zero while a name is left.
NamesCounted ==
  \A i \in Inum :
    type[i] # "free" =>
      nlink[i] >= Cardinality(Names(i)) + Cardinality(Subdirs(i))
                  + Cardinality(Linking(i)) + Cardinality(Unlinking(i))

\* No walk or removal meets an inode that is not what it was any more.
AssertionsHold == panicked \in {"no", "ialloc: no inodes"}

\* fs.c:326-329: "If that was the last reference and the inode has no links
\* to it, free the inode (and its content) on disk."
FreedWhenUnused ==
  \A i \in Inum : type[i] # "free" /\ ref[i] = 0 => nlink[i] > 0
=============================================================================
