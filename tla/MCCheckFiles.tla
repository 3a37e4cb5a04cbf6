---------------------------- MODULE MCCheckFiles ----------------------------
(***************************************************************************)
(* Small instances of CheckFiles for TLC.  v1 and v2 have the same length, *)
(* as an edit that keeps the size does; "empty" has size 0, which the      *)
(* manifest cannot tell from "not recorded".                               *)
(***************************************************************************)
EXTENDS CheckFiles

MCContents == {"empty", "v1", "v2"}
MCSizeOf == [c \in MCContents |-> IF c = "empty" THEN 0 ELSE 2]
MCModes == {"644", "600"}
MCMTimes == {0, 1, 2}

File(k, c, m, t) == [kind |-> k, content |-> c, mode |-> m, mtime |-> t]
Entry(p, c, m, z, t) ==
    [path |-> p, sha |-> Digest(c), mode |-> m, size |-> z, mtime |-> t]

(* Path a: a file in every state a check tells apart, tracked by a manifest *)
(* as generated; sparse, as from a hand-written one; of an empty file; and  *)
(* with a size that is not that of the hashed bytes.                        *)
ManyStates ==
    {File("regular", c, "644", 1) : c \in MCContents} \cup
    {File("regular", "v1", "600", 1), File("regular", "v1", "644", 2),
     File("regular", "v2", "644", 2), File("regular", "v1", "644", 0),
     File("unreadable", "v1", "644", 1), File("absent", "empty", "644", 0),
     File("dir", "empty", "644", 0), File("statfail", "empty", "644", 0)}
OneFile ==
    {<<Entry("a", "v1", "644", 2, 1)>>, <<Entry("a", "v1", NoMode, 0, 0)>>,
     <<Entry("a", "empty", "644", 0, 1)>>, <<Entry("a", "v1", "644", 0, 2)>>,
     <<Entry("a", "v1", "644", 3, 1)>>}
ManyConfigs ==
    [checks : {{}, {"mtime"}, {"mode", "size"}, CheckNames}, fast : BOOLEAN]

(* Paths b and c: up to three entries for two workers, one file tracked    *)
(* twice, one entry without a hash, under the default configuration.       *)
FewStates ==
    {File("regular", "v1", "644", 1), File("regular", "v2", "644", 2),
     File("absent", "empty", "644", 0), File("unreadable", "v1", "644", 1)}
Tracks(p) == Entry(p, "v1", "644", 2, 1)
TwoFiles ==
    {<<>>, <<Tracks("b"), Tracks("c"), Tracks("b")>>,
     <<Tracks("c"), [Tracks("b") EXCEPT !.sha = NoSha], Tracks("c")>>}

MCPaths == {"a", "b", "c"}
MCCalls == (OneFile \X ManyConfigs)
           \cup (TwoFiles \X {[checks |-> {}, fast |-> FALSE]})
MCStatesOf == [p \in MCPaths |-> IF p = "a" THEN ManyStates ELSE FewStates]
=============================================================================
