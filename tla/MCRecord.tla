------------------------------ MODULE MCRecord ------------------------------
(***************************************************************************)
(* Instances of Record.  The recipes rewrite "a" and remove "b"; "c" is    *)
(* not theirs.  v1 and v2 have the same length, so that only the hash and  *)
(* the mtime tell them apart.                                              *)
(***************************************************************************)
EXTENDS Record

MCContents == {"v1", "v2"}
MCSizeOf == [c \in MCContents |-> 2]
MCModes == {"644"}
MCMTimes == {0, 1, 2}

File(k, c, t) == [kind |-> k, content |-> c, mode |-> "644", mtime |-> t]
Old == File("regular", "v1", 1)
New == File("regular", "v2", 2)
Absent == File("absent", "v1", 0)

MCNodeStates == {Old, New, Absent}
MCWant == [p \in {"a", "b"} |-> IF p = "a" THEN New ELSE Absent]
MCWantA == [p \in {"a"} |-> New]
=============================================================================
