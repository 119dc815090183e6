------------------------------- MODULE Blocks -------------------------------
(***************************************************************************)
(* The contents of xv6's files (fs.c, file.c): the bitmap of free blocks,  *)
(* the direct and indirect blocks of an inode, reading, writing in         *)
(* transactions of a bounded size, and truncation.                         *)
(*                                                                         *)
(* One step is what a process does between two uses of the bitmap's        *)
(* buffer, whose lock processes with different inodes compete for; the     *)
(* inode's lock is held all the while.  The bitmap fits one block, as the  *)
(* 1000 blocks of FSSIZE do.  Offsets and sizes are in units of which a    *)
(* block has BSIZE; what is written to a data block is abstracted to a     *)
(* value that, were the block to become an indirect one, would be junk.    *)
(***************************************************************************)
EXTENDS Integers, FiniteSets, FiniteSetsExt

CONSTANTS Proc, Inode,
          SIZE,        \* data blocks of the disk
          BSIZE, NDIRECT, NINDIRECT,
          MAXOPBLOCKS, \* what begin_op reserves
          Lengths,     \* bound: the sizes of a call of write
          None

Block == 1 .. SIZE
Junk == SIZE
MAXFILE == NDIRECT + NINDIRECT

VARIABLES
  used,     \* the blocks marked in the bitmap
  ptr,      \* ptr[b]: block b read as an indirect block
  addrs,    \* addrs[i]: ip->addrs, 0 for no block; NDIRECT is the indirect one
  size,     \* size[i]: ip->size
  dinode,   \* dinode[i]: <<addrs, size>> as iupdate has last logged them
  lock,     \* lock[i]
  job,      \* job[p]: the call of p
  logged,   \* logged[p]: the blocks of the transaction of p
  panicked  \* the message of panic, or "no"

disk == <<used, ptr, addrs, size, dinode>>
vars == <<disk, lock, job, logged, panicked>>

NoAddrs == [k \in 0 .. NDIRECT |-> 0]
NoPtrs  == [k \in 0 .. NINDIRECT - 1 |-> 0]
Idle    == [pc |-> "user", i |-> None, off |-> 0, n |-> 0, tot |-> 0, k |-> 0]

Init ==
  /\ used = {} /\ ptr = [b \in Block |-> [k \in 0 .. NINDIRECT - 1 |-> Junk]]
  /\ addrs = [i \in Inode |-> NoAddrs] /\ size = [i \in Inode |-> 0]
  /\ dinode = [i \in Inode |-> <<NoAddrs, 0>>]
  /\ lock = [i \in Inode |-> None]
  /\ job = [p \in Proc |-> Idle] /\ logged = [p \in Proc |-> {}]
  /\ panicked = "no"

At(p, l) == job[p].pc = l /\ panicked = "no"
Goto(p, l) == job' = [job EXCEPT ![p].pc = l]
Log(p, bs) == logged' = [logged EXCEPT ![p] = @ \cup bs]
Panic(m) == panicked' = m /\ UNCHANGED <<disk, lock, job, logged>>

\* The block of the bn-th block of i, or 0.
Mapped(i, bn) ==
  IF bn < NDIRECT THEN addrs[i][bn]
  ELSE IF addrs[i][NDIRECT] = 0 THEN 0 ELSE ptr[addrs[i][NDIRECT]][bn - NDIRECT]

-----------------------------------------------------------------------------
(* balloc and bfree.                                                       *)

FirstFree == Min(Block \ used)

\* A variant: the block is not zeroed.
Zeroed_Junk(b) == ptr

\* What bzero makes of block b.
Zeroed(b) == [ptr EXCEPT ![b] = NoPtrs]

\* What balloc of block b logs: the bitmap, and b with zeroes.
AllocLogs(b) == {<<"bitmap">>, <<"data", b>>}

\* What a free block holds is junk to its next user.
Bfree(p, b) ==
  IF b \notin used THEN panicked' = "freeing free block" /\ UNCHANGED <<used, ptr, logged>>
  ELSE /\ used' = used \ {b} /\ Log(p, {<<"bitmap">>}) /\ UNCHANGED panicked
       /\ ptr' = [ptr EXCEPT ![b] = [k \in 0 .. NINDIRECT - 1 |-> Junk]]

-----------------------------------------------------------------------------
(* fileread: readi.                                                        *)

\* A block that is not there would be allocated, outside of a transaction.
Read(p) ==
  /\ At(p, "user")
  /\ \E i \in Inode :
       /\ lock[i] = None
       /\ \E bn \in 0 .. MAXFILE - 1 : bn * BSIZE < size[i] /\ Mapped(i, bn) = 0
  /\ Panic("log_write outside of trans")

-----------------------------------------------------------------------------
(* filewrite: writei in chunks.                                            *)

\* A variant: the blocks of slop are forgotten.
Chunk_NoSlop == (MAXOPBLOCKS - 1 - 1) * BSIZE

\* What one transaction may write.
Chunk == ((MAXOPBLOCKS - 1 - 1 - 2) \div 2) * BSIZE

\* n1 of a chunk, when n are left to write.
ThisChunk(n) == Min({n, Chunk})

\* begin_op, ilock and the checks of writei, for a chunk of the n that are
\* left at off; a file that would be too long ends the call.
BeginChunk(p, i, off, n) ==
  /\ lock[i] = None
  /\ IF off > size[i] \/ off + ThisChunk(n) > MAXFILE * BSIZE
     THEN job' = [job EXCEPT ![p] = Idle] /\ UNCHANGED lock
     ELSE /\ lock' = [lock EXCEPT ![i] = p]
          /\ job' = [job EXCEPT ![p] =
                       [Idle EXCEPT !.pc = "write", !.i = i, !.off = off, !.n = n]]
  /\ UNCHANGED <<disk, logged, panicked>>

\* The file's offset is where it was opened or where it was last written.
Write(p) ==
  /\ At(p, "user")
  /\ \E i \in Inode : \E off \in {0, size[i]}, n \in Lengths : BeginChunk(p, i, off, n)

NextChunk(p) == At(p, "begin") /\ BeginChunk(p, job[p].i, job[p].off, job[p].n)

Bn(p) == job[p].off \div BSIZE

\* bmap: allocate the block, after the indirect block that names it.
Bmap(p) ==
  LET i == job[p].i  bn == Bn(p)  b == FirstFree  a == addrs[i][NDIRECT] IN
  /\ At(p, "write") /\ Mapped(i, bn) = 0
  /\ IF used = Block THEN Panic("balloc: out of blocks")
     ELSE /\ used' = used \cup {b}
          /\ IF bn < NDIRECT \/ a = 0
             THEN /\ addrs' = [addrs EXCEPT ![i][Min({bn, NDIRECT})] = b]
                  /\ ptr' = Zeroed(b) /\ Log(p, AllocLogs(b))
             ELSE /\ ptr' = [Zeroed(b) EXCEPT ![a][bn - NDIRECT] = b]
                  /\ Log(p, AllocLogs(b) \cup {<<"data", a>>}) /\ UNCHANGED addrs
          /\ UNCHANGED <<size, dinode, job, lock, panicked>>

\* The data for this block; after the last one iupdate, for a longer file.
Copy(p) ==
  LET j == job[p]  i == j.i  b == Mapped(i, Bn(p))
      m == Min({ThisChunk(j.n) - j.tot, BSIZE - (j.off % BSIZE)})
      last == j.tot + m = ThisChunk(j.n)  longer == last /\ j.off + m > size[i] IN
  /\ At(p, "write") /\ b # 0
  /\ ptr' = [ptr EXCEPT ![b] = [k \in 0 .. NINDIRECT - 1 |-> Junk]]
  /\ job' = [job EXCEPT ![p] = [j EXCEPT !.tot = j.tot + m, !.off = j.off + m,
                                           !.pc = IF last THEN "end" ELSE "write"]]
  /\ Log(p, {<<"data", b>>} \cup (IF longer THEN {<<"inode", i>>} ELSE {}))
  /\ IF longer THEN /\ size' = [size EXCEPT ![i] = j.off + m]
                    /\ dinode' = [dinode EXCEPT ![i] = <<addrs[i], j.off + m>>]
               ELSE UNCHANGED <<size, dinode>>
  /\ UNCHANGED <<used, addrs, lock, panicked>>

\* iunlock and end_op; then the next chunk.
EndChunk(p) ==
  /\ At(p, "end")
  /\ LET j == job[p]  left == j.n - j.tot IN
     /\ lock' = [lock EXCEPT ![j.i] = None]
     /\ job' = [job EXCEPT ![p] = IF left = 0 THEN Idle
                  ELSE [Idle EXCEPT !.pc = "begin", !.i = j.i, !.off = j.off, !.n = left]]
  /\ logged' = [logged EXCEPT ![p] = {}]
  /\ UNCHANGED <<disk, panicked>>

-----------------------------------------------------------------------------
(* itrunc, when the last name and reference of an inode go.                *)

Trunc(p) ==
  /\ At(p, "user")
  /\ \E i \in Inode :
       /\ lock[i] = None
       /\ lock' = [lock EXCEPT ![i] = p]
       /\ job' = [job EXCEPT ![p] = [@ EXCEPT !.pc = "direct", !.i = i, !.k = 0]]
  /\ UNCHANGED <<disk, logged, panicked>>

TruncDirect(p) ==
  /\ At(p, "direct")
  /\ LET i == job[p].i  k == job[p].k IN
     IF k = NDIRECT
     THEN /\ job' = [job EXCEPT ![p].k = 0,
                       ![p].pc = IF addrs[i][NDIRECT] # 0 THEN "indirect" ELSE "update"]
          /\ UNCHANGED <<used, ptr, addrs, logged, panicked>>
     ELSE /\ job' = [job EXCEPT ![p].k = k + 1]
          /\ addrs' = [addrs EXCEPT ![i][k] = 0]
          /\ IF addrs[i][k] # 0 THEN Bfree(p, addrs[i][k]) ELSE UNCHANGED <<used, ptr, logged, panicked>>
  /\ UNCHANGED <<size, dinode, lock>>

\* The blocks that the indirect block names, then the block itself.
TruncIndirect(p) ==
  /\ At(p, "indirect")
  /\ LET i == job[p].i  k == job[p].k  a == addrs[i][NDIRECT] IN
     IF k = NINDIRECT
     THEN /\ addrs' = [addrs EXCEPT ![i][NDIRECT] = 0]
          /\ Bfree(p, a) /\ Goto(p, "update")
     ELSE /\ job' = [job EXCEPT ![p].k = k + 1]
          /\ IF ptr[a][k] # 0 THEN Bfree(p, ptr[a][k]) ELSE UNCHANGED <<used, ptr, logged, panicked>>
          /\ UNCHANGED addrs
  /\ UNCHANGED <<size, dinode, lock>>

TruncUpdate(p) ==
  /\ At(p, "update")
  /\ LET i == job[p].i IN
     /\ size' = [size EXCEPT ![i] = 0]
     /\ dinode' = [dinode EXCEPT ![i] = <<addrs[i], 0>>]
     /\ lock' = [lock EXCEPT ![i] = None]
  /\ logged' = [logged EXCEPT ![p] = {}]
  /\ job' = [job EXCEPT ![p] = Idle]
  /\ UNCHANGED <<used, ptr, addrs, panicked>>

Next == \E p \in Proc :
  \/ Read(p)
  \/ Write(p) \/ NextChunk(p) \/ Bmap(p) \/ Copy(p) \/ EndChunk(p)
  \/ Trunc(p) \/ TruncDirect(p) \/ TruncIndirect(p) \/ TruncUpdate(p)

Spec == Init /\ [][Next]_vars

-----------------------------------------------------------------------------
(* Properties.                                                             *)

\* What i uses: the places that name a block, without those that itrunc has
\* freed already.
Truncated(i) == IF \E p \in Proc : lock[i] = p /\ job[p].pc = "indirect"
                THEN job[lock[i]].k ELSE 0
Places(i) ==
  {<<i, k>> : k \in {k \in 0 .. NDIRECT : addrs[i][k] # 0}}
  \cup (IF addrs[i][NDIRECT] = 0 THEN {}
        ELSE {<<i, NDIRECT + 1 + k>> :
                k \in {k \in Truncated(i) .. NINDIRECT - 1 : ptr[addrs[i][NDIRECT]][k] # 0}})
BlockAt(i, k) == IF k <= NDIRECT THEN addrs[i][k] ELSE ptr[addrs[i][NDIRECT]][k - NDIRECT - 1]

\* No two places name the same block, the bitmap marks the blocks that are
\* named and no others, and an inode that nobody has locked is as it is on
\* the disk, with every block below its size.
BlocksApart ==
  LET all == UNION {Places(i) : i \in Inode}  blocks == {BlockAt(x[1], x[2]) : x \in all} IN
  /\ panicked \notin {"freeing free block", "log_write outside of trans"}
  /\ used = blocks /\ Cardinality(all) = Cardinality(blocks)
  /\ \A i \in Inode : lock[i] = None =>
       /\ dinode[i] = <<addrs[i], size[i]>>
       /\ \A bn \in 0 .. MAXFILE - 1 : bn * BSIZE < size[i] <=> Mapped(i, bn) # 0

\* A transaction writes no more blocks than begin_op has reserved for it.
TransactionFits == \A p \in Proc : Cardinality(logged[p]) <= MAXOPBLOCKS
=============================================================================
