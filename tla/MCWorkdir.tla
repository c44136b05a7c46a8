------------------------------ MODULE MCWorkdir -------------------------------
(* Instances of Workdir for TLC: one name for a copy, and five worlds.  In     *)
(* Untroubled every command runs and nothing but anchoring fails; in Troubled a *)
(* write fails or a process dies, and a document is altered; in Retried that    *)
(* happens twice, to a folder nobody alters; in the two of Crashing bundles are *)
(* written in a folder where a process dies.                                    *)
EXTENDS Workdir

Copies == {"copy.json"}

Untroubled == [commands |-> {"erasure", "bundle", "pack", "copy"}, faults |-> {"build"},
               cuts |-> 0, altered |-> 0]
Troubled   == [commands |-> {"erasure", "copy"}, faults |-> {"write", "kill"},
               cuts |-> 1, altered |-> 1]
Retried    == [commands |-> {"erasure"}, faults |-> {"write", "kill"}, cuts |-> 2, altered |-> 0]
Crashing   == {[commands |-> {c}, faults |-> {"kill"}, cuts |-> 1, altered |-> 0] :
               c \in {"bundle", "pack"}}
Failing    == [commands |-> {"erasure", "bundle", "pack", "copy"}, faults |-> {"write"},
               cuts |-> 1, altered |-> 0]
TheWorlds  == {Untroubled, Troubled, Retried} \cup Crashing
FullDisk   == {Failing}
=============================================================================
