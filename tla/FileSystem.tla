----------------------------- MODULE FileSystem -----------------------------
(***************************************************************************)
(* Inodes, directories, path names and open files: kernel/fs.c, file.c and *)
(* the file system calls of sysfile.c.  A step is what a process does      *)
(* while no other process can see a difference: between two waits for an   *)
(* inode lock, or between two sections under itable.lock.  Every call is   *)
(* one log transaction (module Log), and a block of the disk is changed    *)
(* under the lock of its buffer (module BufCache).  A read or write is of  *)
(* one block, so that filewrite needs one transaction too.                 *)
(***************************************************************************)
EXTENDS Integers, Sequences, FiniteSets, FiniteSetsExt, SequencesExt

CONSTANTS Proc, NINODES, NBLOCKS, NFILE, NOFILE,
          NDIRECT, NINDIRECT,  \* blocks of a file
          DPB,                 \* directory entries in a block
          Calls,               \* the system calls of a run
          Budget,              \* how many calls each process makes
          Start                \* the file system at the start, see Init

ASSUME FSAssumption ==
  NINODES \in Nat /\ NBLOCKS \in Nat /\ NFILE \in Nat /\ NOFILE \in Nat
    /\ NDIRECT \in Nat /\ NINDIRECT \in Nat /\ DPB \in Nat

VARIABLES
  dinode, ents, used,       \* on disk: inodes, directory contents, the bitmap
  mem, valid, ref, lock,    \* in memory: itable, by inode number
  file, ofile, cwd,         \* ftable; the open files and directory of a process
  pc, call, at, ip, dp, put, rest, stack,   \* a process in a call
  left, panicked

Inode == 1 .. NINODES - 1
Block == 1 .. NBLOCKS
File == 1 .. NFILE
Fd == 0 .. NOFILE - 1
ROOTINO == 1
None == 0
NoProc == "nobody"
NoCall == [op |-> "none"]
MAXFILE == NDIRECT + NINDIRECT

\* An inode: its links, the blocks of its data, the indirect block, and the size of a
\* file in blocks.  The size of a directory is that of its entries.
Free == [type |-> "free", nlink |-> 0, addrs |-> <<>>, ind |-> None, size |-> 0]
NoFile == [ref |-> 0, ip |-> None, off |-> 0, flags |-> {}, dev |-> FALSE]

onDisk == <<dinode, ents, used>>
table == <<mem, valid, ref, lock>>
files == <<file, ofile, cwd>>
local == <<call, at, ip, dp, put, rest, stack>>
vars == <<onDisk, table, files, pc, local, left, panicked>>

\* mkfs has made the file system, and the first process has forked the others,
\* which share its open files.
Init ==
  /\ dinode = Start.dinode /\ ents = Start.ents /\ used = Start.used
  /\ mem = [i \in Inode |-> Free] /\ valid = [i \in Inode |-> FALSE]
  /\ lock = [i \in Inode |-> NoProc]
  /\ file = Start.file
  /\ ofile = [p \in Proc |-> Start.ofile]
  /\ cwd = [p \in Proc |-> ROOTINO]
  /\ ref = [i \in Inode |-> (IF i = ROOTINO THEN Cardinality(Proc) ELSE 0)
                            + Cardinality({f \in File : Start.file[f].ref > 0 /\ Start.file[f].ip = i})]
  /\ pc = [p \in Proc |-> "idle"]
  /\ call = [p \in Proc |-> NoCall]
  /\ at = [p \in Proc |-> None] /\ ip = [p \in Proc |-> None] /\ dp = [p \in Proc |-> None]
  /\ put = [p \in Proc |-> <<>>] /\ rest = [p \in Proc |-> <<>>] /\ stack = [p \in Proc |-> <<>>]
  /\ left = [p \in Proc |-> Budget] /\ panicked = FALSE
-----------------------------------------------------------------------------
(***************************************************************************)
(* Inodes                                                                  *)
(***************************************************************************)
\* ilock waits for the lock and reads the inode when it is not valid.
NoType(i) == ~valid[i] /\ dinode[i].type = "free"
CanLock(i) == lock[i] = NoProc /\ ~NoType(i)
Node(i) == IF valid[i] THEN mem[i] ELSE dinode[i]

\* After ilock the inode is in memory.
InMemory(i) == valid' = [valid EXCEPT ![i] = TRUE] /\ mem' = [mem EXCEPT ![i] = Node(i)]

\* Variant: iupdate is not called.
Update_Memory(i, node) ==
  /\ valid' = [valid EXCEPT ![i] = TRUE]
  /\ mem' = [mem EXCEPT ![i] = node]
  /\ UNCHANGED dinode

\* iupdate copies what was assigned to disk.
Update(i, node) ==
  /\ valid' = [valid EXCEPT ![i] = TRUE]
  /\ mem' = [mem EXCEPT ![i] = node]
  /\ dinode' = [dinode EXCEPT ![i] = node]

iget(i) == ref' = [ref EXCEPT ![i] = @ + 1]

\* Where a process goes on: at the labels of s, the last of which is "idle".
Goto(p, l) == pc' = [pc EXCEPT ![p] = l]
Continue(p, s) ==
  /\ Goto(p, Head(s))
  /\ stack' = [stack EXCEPT ![p] = Tail(s)]
  /\ IF Head(s) = "idle" THEN call' = [call EXCEPT ![p] = NoCall] /\ rest' = [rest EXCEPT ![p] = <<>>]
                         ELSE UNCHANGED <<call, rest>>

\* The calls of iput for the inodes of is, and the labels after them.
PutThen(p, is, s) ==
  /\ put' = [put EXCEPT ![p] = is]
  /\ Goto(p, "put")
  /\ stack' = [stack EXCEPT ![p] = s]

Forget(v, p) == v' = [v EXCEPT ![p] = None]

\* Variant: an inode without links is freed although others refer to it.
LastRef_Any(i) == valid[i] /\ mem[i].nlink = 0

LastRef(i) == ref[i] = 1 /\ valid[i] /\ mem[i].nlink = 0

\* ref--.  An entry without references is out of the table: iget sets valid to 0
\* when it uses the entry again.
Drop(i) ==
  /\ ref' = [ref EXCEPT ![i] = @ - 1]
  /\ IF ref[i] = 1 THEN valid' = [valid EXCEPT ![i] = FALSE] /\ mem' = [mem EXCEPT ![i] = Free]
                   ELSE UNCHANGED <<valid, mem>>

\* The end of iput: the reference is gone.
PutDone(p) ==
  /\ Drop(Head(put[p]))
  /\ put' = [put EXCEPT ![p] = Tail(@)]
  /\ IF Len(put[p]) > 1 THEN Goto(p, "put") /\ UNCHANGED <<stack, call, rest>>
                        ELSE Continue(p, stack[p])

\* iput: under itable.lock; the lock of an inode that is freed is free.
iput(p) ==
  LET i == Head(put[p])
  IN /\ pc[p] = "put"
     /\ IF LastRef(i)
        THEN /\ lock[i] = NoProc
             /\ lock' = [lock EXCEPT ![i] = p]
             /\ Goto(p, "trunc")
             /\ UNCHANGED <<mem, valid, ref, put, stack, call, rest>>
        ELSE PutDone(p) /\ UNCHANGED lock
     /\ UNCHANGED <<onDisk, files, at, ip, dp>>

\* The inode of itrunc: that of iput, or that of sys_open with O_TRUNC.
Truncated(p) == IF put[p] # <<>> THEN Head(put[p]) ELSE ip[p]

\* Blocks in the order in which itrunc frees them: data, then the indirect block.
BlocksOf(node) == node.addrs \o (IF node.ind = None THEN <<>> ELSE <<node.ind>>)

bfree(b) == used' = used \ {b}

\* itrunc frees block after block and then writes the inode.  The entries of a
\* directory are in its blocks.
itrunc(p) ==
  LET i == Truncated(p)
      node == mem[i]
  IN /\ pc[p] = "trunc"
     /\ IF BlocksOf(node) # <<>>
        THEN /\ bfree(Head(BlocksOf(node)))
             /\ mem' = [mem EXCEPT ![i] = IF node.addrs # <<>> THEN [node EXCEPT !.addrs = Tail(@)]
                                          ELSE [node EXCEPT !.ind = None]]
             /\ ents' = [ents EXCEPT ![i] = {}]
             /\ UNCHANGED <<dinode, pc, stack, call, rest>>
        ELSE /\ dinode' = [dinode EXCEPT ![i] = [node EXCEPT !.size = 0]]
             /\ mem' = [mem EXCEPT ![i] = [node EXCEPT !.size = 0]]
             /\ IF put[p] # <<>> THEN Goto(p, "free") /\ UNCHANGED <<stack, call, rest>>
                ELSE Continue(p, stack[p])
             /\ UNCHANGED <<used, ents>>
     /\ UNCHANGED <<valid, ref, lock, files, at, ip, dp, put>>

\* type = 0 and iupdate: from here on ialloc may give the inode away again.
FreeInode(p) ==
  LET i == Head(put[p])
      node == [mem[i] EXCEPT !.type = "free"]
  IN /\ pc[p] = "free"
     /\ mem' = [mem EXCEPT ![i] = node] /\ dinode' = [dinode EXCEPT ![i] = node]
     /\ Goto(p, "invalid")
     /\ UNCHANGED <<ents, used, valid, ref, lock, files, local>>

Invalidate(p) ==
  /\ pc[p] = "invalid"
  /\ valid' = [valid EXCEPT ![Head(put[p])] = FALSE]
  /\ lock' = [lock EXCEPT ![Head(put[p])] = NoProc]
  /\ Goto(p, "putref")
  /\ UNCHANGED <<onDisk, mem, ref, files, local>>

iputEnd(p) ==
  /\ pc[p] = "putref"
  /\ PutDone(p)
  /\ UNCHANGED <<onDisk, lock, files, at, ip, dp>>
-----------------------------------------------------------------------------
(***************************************************************************)
(* Blocks and directories                                                  *)
(***************************************************************************)
balloc(S) == IF S = Block THEN None ELSE Min(Block \ S)

\* Variant: the address of the indirect block is only stored with that of a block.
bmap_LosesIndirect(node, bits) ==
  LET n    == Len(node.addrs)
      ind  == IF n < NDIRECT \/ node.ind # None THEN node.ind ELSE balloc(bits)
      u    == bits \cup ({ind} \ {None})
      addr == IF n >= NDIRECT /\ ind = None THEN None ELSE balloc(u)
  IN [ok |-> addr # None, used |-> u \cup ({addr} \ {None}),
      node |-> IF addr = None THEN node ELSE [node EXCEPT !.ind = ind, !.addrs = Append(@, addr)]]

\* bmap for the block after the last one: the node and the bitmap it leaves.  An
\* indirect block stays with the inode when there is no block behind it.
bmap(node, bits) ==
  LET n    == Len(node.addrs)
      ind  == IF n < NDIRECT \/ node.ind # None THEN node.ind ELSE balloc(bits)
      u    == bits \cup ({ind} \ {None})
      addr == IF n >= NDIRECT /\ ind = None THEN None ELSE balloc(u)
  IN [ok |-> addr # None, used |-> u \cup ({addr} \ {None}),
      node |-> [node EXCEPT !.ind = ind, !.addrs = IF addr = None THEN @ ELSE Append(@, addr)]]

Lookup(i, name) == {e \in ents[i] : e[1] = name}
Has(i, name) == Lookup(i, name) # {}
Find(i, name) == (CHOOSE e \in Lookup(i, name) : TRUE)[2]

\* writei of a new entry needs a block when the directory's blocks are full.
Grown(i, node, bits) ==
  IF Cardinality(ents[i]) < Len(node.addrs) * DPB THEN [ok |-> TRUE, used |-> bits, node |-> node]
  ELSE IF Len(node.addrs) = MAXFILE THEN [ok |-> FALSE, used |-> bits, node |-> node]
  ELSE bmap(node, bits)
isdirempty(i) == \A e \in ents[i] : e[1] \in {".", ".."}
-----------------------------------------------------------------------------
(***************************************************************************)
(* Path names: namex goes from directory to directory, one lock at a time  *)
(***************************************************************************)
\* namex begins; s = <<"namei" or "nameiparent", label when found, when failed>>.
\* The reference to the inode that it is at is its own.
Walk(p, absolute, path, s) ==
  LET i == IF absolute THEN ROOTINO ELSE cwd[p]
  IN /\ at' = [at EXCEPT ![p] = i]
     /\ ref' = [ref EXCEPT ![i] = @ + 1]
     /\ rest' = [rest EXCEPT ![p] = path]
     /\ stack' = [stack EXCEPT ![p] = s]
     /\ Goto(p, "namex")

\* One turn of the loop; nameiparent leaves the last name in rest.
namex(p) ==
  LET i == at[p]
      parent == stack[p][1] = "nameiparent"
      last == parent /\ Len(rest[p]) = 1
      Return == /\ IF parent THEN dp' = [dp EXCEPT ![p] = i] /\ UNCHANGED ip
                             ELSE ip' = [ip EXCEPT ![p] = i] /\ UNCHANGED dp
                /\ Forget(at, p)
                /\ Goto(p, stack[p][2]) /\ stack' = [stack EXCEPT ![p] = <<>>]
                /\ UNCHANGED <<put, ref, rest>>
      Fail == PutThen(p, <<i>>, <<stack[p][3]>>) /\ Forget(at, p) /\ UNCHANGED <<ip, dp, ref, rest>>
  IN /\ pc[p] = "namex"
     /\ IF rest[p] = <<>>
        THEN (IF parent THEN Fail ELSE Return) /\ UNCHANGED <<mem, valid>>
        ELSE /\ CanLock(i)
             /\ InMemory(i)
             /\ IF Node(i).type # "dir" \/ (~last /\ ~Has(i, Head(rest[p]))) THEN Fail
                ELSE IF last THEN Return
                ELSE LET j == Find(i, Head(rest[p]))
                     IN /\ iget(j)
                        /\ at' = [at EXCEPT ![p] = j]
                        /\ rest' = [rest EXCEPT ![p] = Tail(@)]
                        /\ PutThen(p, <<i>>, <<"namex">> \o stack[p])
                        /\ UNCHANGED <<ip, dp>>
     /\ UNCHANGED <<onDisk, lock, files, call>>
-----------------------------------------------------------------------------
(***************************************************************************)
(* create, for open, mkdir and mknod                                       *)
(***************************************************************************)
Unlocked(i) == lock' = [lock EXCEPT ![i] = NoProc]
Name(p) == Head(rest[p])

\* The type of the new inode; "nodev" is a device whose major number is out of range.
NewType(p) == IF call[p].op = "open" THEN "file" ELSE IF call[p].op = "mkdir" THEN "dir" ELSE call[p].type

\* ialloc takes the first inode without a type and marks it as allocated.
FreeInodes == {i \in Inode : dinode[i].type = "free"}
ialloc(i, t) == dinode' = [dinode EXCEPT ![i] = [Free EXCEPT !.type = t]] /\ iget(i)

\* dp is locked: the name exists, or there is a new inode for it.
Create(p) ==
  LET d == dp[p]
  IN /\ pc[p] = "create" /\ CanLock(d)
     /\ InMemory(d)
     /\ IF Has(d, Name(p))
        THEN /\ iget(Find(d, Name(p))) /\ ip' = [ip EXCEPT ![p] = Find(d, Name(p))]
             /\ PutThen(p, <<d>>, <<"exists">>) /\ Forget(dp, p)
             /\ UNCHANGED <<dinode, lock>>
        ELSE IF FreeInodes = {}
        THEN PutThen(p, <<d>>, <<"idle">>) /\ Forget(dp, p) /\ UNCHANGED <<dinode, lock, ref, ip>>
        ELSE /\ ialloc(Min(FreeInodes), NewType(p))
             /\ ip' = [ip EXCEPT ![p] = Min(FreeInodes)]
             /\ lock' = [lock EXCEPT ![d] = p]
             /\ Goto(p, "create2")
             /\ UNCHANGED <<dp, put, stack>>
     /\ UNCHANGED <<ents, used, files, call, at, rest>>

CreateExists(p) ==
  LET i == ip[p]
  IN /\ pc[p] = "exists" /\ CanLock(i)
     /\ InMemory(i)
     /\ IF NewType(p) = "file" /\ Node(i).type \in {"file", "dev", "nodev"}
        THEN lock' = [lock EXCEPT ![i] = p] /\ Goto(p, "opened") /\ UNCHANGED <<put, stack, ip>>
        ELSE PutThen(p, <<i>>, <<"idle">>) /\ Forget(ip, p) /\ UNCHANGED lock
     /\ UNCHANGED <<onDisk, ref, files, call, at, dp, rest>>

\* The new inode is locked too; "." and ".." of a directory, then the new entry.
CreateNew(p) ==
  LET i == ip[p]
      d == dp[p]
      dir == NewType(p) = "dir"
      node == [Node(i) EXCEPT !.nlink = 1]
      g1 == IF dir THEN Grown(i, node, used) ELSE [ok |-> TRUE, used |-> used, node |-> node]
      g2 == IF g1.ok THEN Grown(d, mem[d], g1.used) ELSE [ok |-> FALSE, used |-> g1.used, node |-> mem[d]]
      node1 == IF g2.ok THEN g1.node ELSE [g1.node EXCEPT !.nlink = 0]
      node2 == [g2.node EXCEPT !.nlink = IF dir /\ g2.ok THEN @ + 1 ELSE @]
  IN /\ pc[p] = "create2" /\ CanLock(i)
     /\ valid' = [valid EXCEPT ![i] = TRUE]
     /\ mem' = [mem EXCEPT ![i] = node1, ![d] = node2]
     /\ dinode' = [dinode EXCEPT ![i] = node1, ![d] = node2]
     /\ used' = g2.used
     /\ ents' = [ents EXCEPT ![i] = IF dir /\ g1.ok THEN {<<".", i>>, <<"..", d>>} ELSE {},
                             ![d] = IF g2.ok THEN @ \cup {<<Name(p), i>>} ELSE @]
     /\ IF g2.ok
        THEN /\ lock' = [lock EXCEPT ![i] = p, ![d] = NoProc]
             /\ PutThen(p, <<d>>, <<IF NewType(p) = "file" THEN "opened" ELSE "made">>)
             /\ Forget(dp, p) /\ UNCHANGED ip
        ELSE PutThen(p, <<i>>, <<"unlockdp">>) /\ Forget(ip, p) /\ UNCHANGED <<lock, dp>>
     /\ UNCHANGED <<ref, files, call, at, rest>>

\* iunlockput(dp) on the way out of a call that has failed; sys_link goes on.
UnlockDp(p) ==
  /\ pc[p] = "unlockdp"
  /\ Unlocked(dp[p])
  /\ PutThen(p, <<dp[p]>>, <<IF call[p].op = "link" THEN "linkbad" ELSE "idle">>) /\ Forget(dp, p)
  /\ UNCHANGED <<onDisk, mem, valid, ref, files, call, at, ip, rest>>

\* The end of sys_mkdir and sys_mknod.
Made(p) ==
  /\ pc[p] = "made"
  /\ Unlocked(ip[p])
  /\ PutThen(p, <<ip[p]>>, <<"idle">>) /\ Forget(ip, p)
  /\ UNCHANGED <<onDisk, mem, valid, ref, files, call, at, dp, rest>>
-----------------------------------------------------------------------------
(***************************************************************************)
(* sys_open, and the calls on open files                                   *)
(***************************************************************************)
FreeFiles == {f \in File : file[f].ref = 0}
FreeFds(p) == {d \in Fd : ofile[p][d] = None}

\* ip is locked: a device that can exist, a file structure and a descriptor, or back out.
Opened(p) ==
  LET i == ip[p]
      flags == call[p].flags
      ok == Node(i).type # "nodev" /\ FreeFiles # {} /\ FreeFds(p) # {}
  IN IF ok
     THEN /\ file' = [file EXCEPT ![Min(FreeFiles)] =
                        [ref |-> 1, ip |-> i, off |-> 0, flags |-> flags \cap {"read", "write"},
                         dev |-> Node(i).type = "dev"]]
          /\ ofile' = [ofile EXCEPT ![p][Min(FreeFds(p))] = Min(FreeFiles)]
          /\ lock' = [lock EXCEPT ![i] = p]
          /\ IF "trunc" \in flags /\ Node(i).type = "file"
             THEN Goto(p, "trunc") /\ stack' = [stack EXCEPT ![p] = <<"openend">>]
             ELSE Goto(p, "openend") /\ UNCHANGED stack
          /\ UNCHANGED <<put, ip>>
     ELSE /\ Unlocked(i) /\ PutThen(p, <<i>>, <<"idle">>) /\ Forget(ip, p)
          /\ UNCHANGED <<file, ofile>>

Open(p) ==
  LET i == ip[p]
  IN /\ pc[p] = "open" /\ CanLock(i)
     /\ InMemory(i)
     /\ IF Node(i).type = "dir" /\ call[p].flags # {"read"}
        THEN PutThen(p, <<i>>, <<"idle">>) /\ Forget(ip, p) /\ UNCHANGED <<lock, file, ofile>>
        ELSE Opened(p)
     /\ UNCHANGED <<onDisk, ref, cwd, call, at, dp, rest>>

OpenCreated(p) ==
  /\ pc[p] = "opened"
  /\ Opened(p)
  /\ UNCHANGED <<onDisk, mem, valid, ref, cwd, call, at, dp, rest>>

OpenEnd(p) ==
  /\ pc[p] = "openend"
  /\ Unlocked(ip[p]) /\ Forget(ip, p)
  /\ Continue(p, <<"idle">>)
  /\ UNCHANGED <<onDisk, mem, valid, ref, files, at, dp, put>>

sys_close(p, d) ==
  LET f == ofile[p][d]
  IN /\ f # None
     /\ ofile' = [ofile EXCEPT ![p][d] = None]
     /\ IF file[f].ref > 1
        THEN file' = [file EXCEPT ![f].ref = @ - 1] /\ UNCHANGED <<pc, put, stack>>
        ELSE file' = [file EXCEPT ![f] = NoFile] /\ PutThen(p, <<file[f].ip>>, <<"idle">>)
     /\ UNCHANGED <<onDisk, table, cwd, call, at, ip, dp, rest>>

filedup(f) == file' = [file EXCEPT ![f].ref = @ + 1]

\* Variant: filedup is forgotten.
sys_dup_NoRef(p, d) ==
  /\ ofile[p][d] # None /\ FreeFds(p) # {}
  /\ ofile' = [ofile EXCEPT ![p][Min(FreeFds(p))] = ofile[p][d]]
  /\ UNCHANGED <<onDisk, table, file, cwd, pc, local>>

sys_dup(p, d) ==
  LET f == ofile[p][d]
  IN /\ f # None /\ FreeFds(p) # {}
     /\ ofile' = [ofile EXCEPT ![p][Min(FreeFds(p))] = f]
     /\ filedup(f)
     /\ UNCHANGED <<onDisk, table, cwd, pc, local>>

\* readi of one block, up to the end of the file; the copy to the process may fail.
readi(node, off, copied) == IF copied /\ off < node.size THEN 1 ELSE 0

\* writei of one block; when the copy from the process fails, a block that bmap has
\* allocated stays with the inode, beyond its size.
Written(node, off, copied) ==
  LET b == IF off < Len(node.addrs) THEN [ok |-> TRUE, used |-> used, node |-> node] ELSE bmap(node, used)
  IN IF off > node.size \/ off + 1 > MAXFILE THEN [ok |-> FALSE, used |-> used, node |-> node]
     ELSE [b EXCEPT !.ok = @ /\ copied, !.node.size = IF b.ok /\ copied THEN Max({@, off + 1}) ELSE @]

\* read and write of a block, under the lock of the inode; devices are not modelled.
sys_read(p, d) ==
  LET f == ofile[p][d]
      i == file[f].ip
  IN /\ f # None /\ "read" \in file[f].flags /\ ~file[f].dev
     /\ CanLock(i) /\ InMemory(i)
     /\ \E copied \in BOOLEAN : file' = [file EXCEPT ![f].off = @ + readi(Node(i), @, copied)]
     /\ UNCHANGED <<onDisk, ref, lock, ofile, cwd, pc, local>>

sys_write(p, d) ==
  LET f == ofile[p][d]
      i == file[f].ip
  IN /\ f # None /\ "write" \in file[f].flags /\ ~file[f].dev
     /\ CanLock(i)
     /\ \E copied \in BOOLEAN :
          LET w == Written(Node(i), file[f].off, copied)
          IN /\ Update(i, w.node)
             /\ used' = w.used
             /\ file' = [file EXCEPT ![f].off = IF w.ok THEN @ + 1 ELSE @]
     /\ UNCHANGED <<ents, ref, lock, ofile, cwd, pc, local>>

sys_fstat(p, d) ==
  LET i == file[ofile[p][d]].ip
  IN /\ ofile[p][d] # None
     /\ CanLock(i) /\ InMemory(i)
     /\ UNCHANGED <<onDisk, ref, lock, files, pc, local>>
-----------------------------------------------------------------------------
(***************************************************************************)
(* sys_link                                                                *)
(***************************************************************************)
Link(p) ==
  LET i == ip[p]
  IN /\ pc[p] = "link" /\ CanLock(i)
     /\ IF Node(i).type = "dir"
        THEN InMemory(i) /\ PutThen(p, <<i>>, <<"idle">>) /\ Forget(ip, p)
             /\ UNCHANGED <<dinode, ref, at, rest>>
        ELSE /\ Update(i, [Node(i) EXCEPT !.nlink = @ + 1])
             /\ Walk(p, call[p].newabs, call[p].new, <<"nameiparent", "link2", "linkbad">>)
             /\ UNCHANGED <<put, ip>>
     /\ UNCHANGED <<ents, used, lock, files, call, dp>>

\* dirlink: it fails when the name exists, after taking and dropping a reference while
\* the directory is locked.
LinkEntry(p) ==
  LET d == dp[p]
      g == Grown(d, Node(d), used)
  IN /\ pc[p] = "link2" /\ CanLock(d)
     /\ IF Has(d, Name(p))
        THEN /\ InMemory(d) /\ iget(Find(d, Name(p)))
             /\ lock' = [lock EXCEPT ![d] = p]
             /\ PutThen(p, <<Find(d, Name(p))>>, <<"unlockdp">>)
             /\ UNCHANGED <<onDisk, ip, dp>>
        ELSE /\ Update(d, g.node) /\ used' = g.used /\ UNCHANGED <<ref, lock>>
             /\ ents' = [ents EXCEPT ![d] = IF g.ok THEN @ \cup {<<Name(p), ip[p]>>} ELSE @]
             /\ IF g.ok THEN PutThen(p, <<d, ip[p]>>, <<"idle">>) /\ Forget(ip, p)
                        ELSE PutThen(p, <<d>>, <<"linkbad">>) /\ UNCHANGED ip
             /\ Forget(dp, p)
     /\ UNCHANGED <<files, call, at, rest>>

LinkBad(p) ==
  LET i == ip[p]
  IN /\ pc[p] = "linkbad" /\ CanLock(i)
     /\ Update(i, [Node(i) EXCEPT !.nlink = @ - 1])
     /\ PutThen(p, <<i>>, <<"idle">>) /\ Forget(ip, p)
     /\ UNCHANGED <<ents, used, ref, lock, files, call, at, dp, rest>>
-----------------------------------------------------------------------------
(***************************************************************************)
(* sys_unlink, sys_chdir                                                   *)
(***************************************************************************)
Unlink(p) ==
  LET d == dp[p]
      bad == Name(p) \in {".", ".."} \/ ~Has(d, Name(p))
  IN /\ pc[p] = "unlink" /\ CanLock(d)
     /\ InMemory(d)
     /\ IF bad
        THEN PutThen(p, <<d>>, <<"idle">>) /\ Forget(dp, p) /\ UNCHANGED <<ref, lock, ip>>
        ELSE /\ iget(Find(d, Name(p))) /\ ip' = [ip EXCEPT ![p] = Find(d, Name(p))]
             /\ lock' = [lock EXCEPT ![d] = p]
             /\ Goto(p, "unlink2")
             /\ UNCHANGED <<dp, put, stack>>
     /\ UNCHANGED <<onDisk, files, call, at, rest>>

\* Both are locked: the entry goes, and dp is let go of.
UnlinkEntry(p) ==
  LET i == ip[p]
      d == dp[p]
      dir == Node(i).type = "dir"
      node == [mem[d] EXCEPT !.nlink = IF dir THEN @ - 1 ELSE @]
  IN /\ pc[p] = "unlink2" /\ CanLock(i) /\ Node(i).nlink >= 1
     /\ valid' = [valid EXCEPT ![i] = TRUE]
     /\ IF dir /\ ~isdirempty(i)
        THEN /\ mem' = [mem EXCEPT ![i] = Node(i)]
             /\ PutThen(p, <<i>>, <<"unlockdp">>) /\ Forget(ip, p)
             /\ UNCHANGED <<dinode, ents, lock, dp>>
        ELSE /\ ents' = [ents EXCEPT ![d] = @ \ Lookup(d, Name(p))]
             /\ mem' = [mem EXCEPT ![i] = Node(i), ![d] = node]
             /\ dinode' = [dinode EXCEPT ![d] = node]
             /\ lock' = [lock EXCEPT ![i] = p, ![d] = NoProc]
             /\ PutThen(p, <<d>>, <<"unlink3">>) /\ Forget(dp, p)
             /\ UNCHANGED ip
     /\ UNCHANGED <<used, ref, files, call, at, rest>>

UnlinkEnd(p) ==
  LET i == ip[p]
  IN /\ pc[p] = "unlink3"
     /\ Update(i, [mem[i] EXCEPT !.nlink = @ - 1])
     /\ Unlocked(i)
     /\ PutThen(p, <<i>>, <<"idle">>) /\ Forget(ip, p)
     /\ UNCHANGED <<ents, used, ref, files, call, at, dp, rest>>

\* p->cwd is assigned after iput of the old directory; no other process reads it.
Chdir(p) ==
  LET i == ip[p]
  IN /\ pc[p] = "chdir" /\ CanLock(i)
     /\ InMemory(i) /\ Forget(ip, p)
     /\ IF Node(i).type = "dir"
        THEN cwd' = [cwd EXCEPT ![p] = i] /\ PutThen(p, <<cwd[p]>>, <<"idle">>)
        ELSE PutThen(p, <<i>>, <<"idle">>) /\ UNCHANGED cwd
     /\ UNCHANGED <<onDisk, ref, lock, file, ofile, call, at, dp, rest>>
-----------------------------------------------------------------------------
\* A call with a path: it begins with namei or nameiparent.
PathCall(p, c) ==
  LET parent == c.op \in {"mkdir", "mknod", "unlink"} \/ (c.op = "open" /\ "create" \in c.flags)
      found == IF c.op = "unlink" THEN "unlink" ELSE IF parent THEN "create" ELSE c.op
  IN /\ call' = [call EXCEPT ![p] = c]
     /\ Walk(p, c.abs, c.path, <<IF parent THEN "nameiparent" ELSE "namei", found, "idle">>)
     /\ UNCHANGED <<onDisk, mem, valid, lock, files, ip, dp, put>>

FdCall(p, c) ==
  \/ c.op = "close" /\ sys_close(p, c.fd)
  \/ c.op = "dup" /\ sys_dup(p, c.fd)
  \/ c.op = "read" /\ sys_read(p, c.fd)
  \/ c.op = "write" /\ sys_write(p, c.fd)
  \/ c.op = "fstat" /\ sys_fstat(p, c.fd)

SysStart(p) ==
  /\ pc[p] = "idle" /\ left[p] > 0
  /\ left' = [left EXCEPT ![p] = @ - 1]
  /\ \E c \in Calls : IF "fd" \in DOMAIN c THEN FdCall(p, c) ELSE PathCall(p, c)
  /\ UNCHANGED panicked

\* The call locks the inode of the open file f at descriptor d.
LocksInode(c, d, f) ==
  /\ c.op \in {"read", "write", "fstat"} /\ c.fd = d
  /\ c.op = "fstat" \/ (c.op \in f.flags /\ ~f.dev)

\* The inodes that the next call on an open file would lock.
FileTargets(p) ==
  LET opened == {d \in Fd : ofile[p][d] # None}
      f(d) == file[ofile[p][d]]
  IN {f(d).ip : d \in {x \in opened : \E c \in Calls : LocksInode(c, x, f(x))}}

\* The inodes that the process is about to lock.
Targets(p) ==
  CASE pc[p] = "namex" /\ rest[p] # <<>> -> {at[p]}
    [] pc[p] \in {"create", "unlink", "link2"} -> {dp[p]}
    [] pc[p] \in {"exists", "create2", "open", "link", "linkbad", "unlink2", "chdir"} -> {ip[p]}
    [] pc[p] = "idle" /\ left[p] > 0 -> FileTargets(p)
    [] OTHER -> {}

\* panic("ilock: no type").  A process at panic("unlink: nlink < 1") has no step,
\* which TLC would report as a deadlock.
Panic(p) ==
  /\ \E i \in Targets(p) : lock[i] = NoProc /\ NoType(i)
  /\ panicked' = TRUE
  /\ UNCHANGED <<onDisk, table, files, pc, local, left>>

Step(p) ==
  \/ iput(p) \/ itrunc(p) \/ FreeInode(p) \/ Invalidate(p) \/ iputEnd(p)
  \/ namex(p)
  \/ Create(p) \/ CreateExists(p) \/ CreateNew(p) \/ UnlockDp(p) \/ Made(p)
  \/ Open(p) \/ OpenCreated(p) \/ OpenEnd(p)
  \/ Link(p) \/ LinkEntry(p) \/ LinkBad(p)
  \/ Unlink(p) \/ UnlinkEntry(p) \/ UnlinkEnd(p)
  \/ Chdir(p)

\* The calls of the run are over, or the kernel has stopped.
Stop ==
  /\ panicked \/ \A p \in Proc : pc[p] = "idle"
  /\ UNCHANGED vars

Next ==
  \/ \E p \in Proc : /\ ~panicked
                     /\ SysStart(p) \/ Panic(p) \/ (Step(p) /\ UNCHANGED <<left, panicked>>)
  \/ Stop

Spec == Init /\ [][Next]_vars
-----------------------------------------------------------------------------
Count(S) == Cardinality(S)
Eq(v, i) == Count({p \in Proc : v[p] = i})

\* While sys_open holds the lock, ip is the reference that it has given to the file.
Opening(p) == pc[p] = "openend" \/ (pc[p] = "trunc" /\ put[p] = <<>>)

\* The references to an inode: directories, open files, and what calls hold.
Holders(i) ==
  Eq(cwd, i) + Eq(at, i) + Eq(dp, i) + Count({p \in Proc : ip[p] = i /\ ~Opening(p)})
  + Count({f \in File : file[f].ref > 0 /\ file[f].ip = i})
  + Count({p \in Proc : put[p] # <<>> /\ Head(put[p]) = i})
  + Count({p \in Proc : Len(put[p]) > 1 /\ put[p][2] = i})

\* Every reference count is exact, whichever way a call ends: ip->ref counts the
\* pointers to the inode, and f->ref the descriptors of all processes.
RefsExact ==
  /\ \A i \in Inode : ref[i] = Holders(i)
  /\ \A f \in File : file[f].ref = Count({x \in Proc \X Fd : ofile[x[1]][x[2]] = f})

\* fs.c, iput: "ip->ref == 1 means no other process can have ip locked, so this
\* acquiresleep() won't block (or deadlock)".
LastRefUnlocked ==
  \A p \in Proc : pc[p] = "put" /\ LastRef(Head(put[p])) => lock[Head(put[p])] = NoProc

\* No entry of a directory points to an inode that is free or has too few links:
\* nlink is raised before an entry is made and lowered after it is removed.
LinksCovered ==
  LET links == UNION {{<<d, e>> : e \in {x \in ents[d] : x[1] \notin {".", ".."}}} : d \in Inode}
  IN /\ \A l \in links : dinode[l[2][2]].type # "free"
     /\ \A i \in Inode : Count({l \in links : l[2][2] = i}) <= dinode[i].nlink

\* An inode that a process refers to has a type when it is locked (fs.c, ilock:
\* panic("ilock: no type")), with one exception: a process whose directory has
\* been removed reaches the parent through "..", and the parent may have been
\* removed and freed since, as ".." does not count in what unlink looks at.
OnlyDotdotPanics ==
  panicked => \E d \in Inode, i \in UNION {Targets(p) : p \in Proc} :
    /\ NoType(i)
    /\ <<"..", i>> \in ents[d]
    /\ ref[d] > 0 /\ dinode[d].nlink = 0

\* The bitmap has exactly the blocks of the inodes, and no block is in two files.
BlocksExact ==
  LET blocks(i) == BlocksOf(Node(i))
  IN /\ used = UNION {ToSet(blocks(i)) : i \in Inode}
     /\ Count(used) = MapThenSumSet(LAMBDA i : Len(blocks(i)), Inode)
=============================================================================
