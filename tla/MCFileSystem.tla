---------------------------- MODULE MCFileSystem ----------------------------
(* Instances of FileSystem for TLC. *)
EXTENDS FileSystem

Node0(t, n, a) == [type |-> t, nlink |-> n, addrs |-> a, ind |-> None,
                   size |-> IF t = "file" THEN Len(a) ELSE 0]

\* / with the directories d and d/e and the file f, which all processes have open.
MCStart ==
  [dinode |-> [i \in 1 .. NINODES - 1 |->
     CASE i = 1 -> Node0("dir", 2, <<1>>) [] i = 2 -> Node0("dir", 2, <<2>>)
       [] i = 3 -> Node0("dir", 1, <<3>>) [] i = 4 -> Node0("file", 1, <<4>>) [] OTHER -> Free],
   ents |-> [i \in 1 .. NINODES - 1 |->
     CASE i = 1 -> {<<".", 1>>, <<"..", 1>>, <<"d", 2>>, <<"f", 4>>}
       [] i = 2 -> {<<".", 2>>, <<"..", 1>>, <<"e", 3>>}
       [] i = 3 -> {<<".", 3>>, <<"..", 2>>} [] OTHER -> {}],
   used |-> 1 .. 4,
   file |-> [f \in 1 .. NFILE |->
     IF f = 1 THEN [ref |-> Cardinality(Proc), ip |-> 4, off |-> 0, flags |-> {"read", "write"}, dev |-> FALSE]
     ELSE NoFile],
   ofile |-> [d \in 0 .. NOFILE - 1 |-> IF d = 0 THEN 1 ELSE None]]

PathOp(o, a, ns) == [op |-> o, abs |-> a, path |-> ns]
NodOp(ns, t) == [op |-> "mknod", abs |-> TRUE, path |-> ns, type |-> t]
OpenOp(a, ns, fl) == [op |-> "open", abs |-> a, path |-> ns, flags |-> fl]
LinkOp(old, new) == [op |-> "link", abs |-> TRUE, path |-> old, newabs |-> TRUE, new |-> new]
FdOp(o) == [op |-> o, fd |-> 0]

MCCalls ==
  {OpenOp(TRUE, <<"d", "a">>, {"write", "create"}), OpenOp(FALSE, <<"f">>, {"read", "write", "trunc"}),
   OpenOp(FALSE, <<"..">>, {"write"}), PathOp("mkdir", FALSE, <<"a">>),
   NodOp(<<"d", "a">>, "dev"), NodOp(<<"d", "a">>, "nodev"),
   PathOp("unlink", TRUE, <<"d">>), PathOp("unlink", TRUE, <<"d", "e">>), PathOp("unlink", TRUE, <<"f">>),
   PathOp("chdir", FALSE, <<"d", "e">>), PathOp("chdir", FALSE, <<"f">>), PathOp("mkdir", TRUE, <<>>),
   LinkOp(<<"f">>, <<"d", "a">>), LinkOp(<<"d">>, <<"a">>),
   FdOp("close"), FdOp("dup"), FdOp("read"), FdOp("write"), FdOp("fstat")}

Symmetry == Permutations(Proc)
=============================================================================
