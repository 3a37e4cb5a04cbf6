---------------------------- MODULE MCProvision ----------------------------
(***************************************************************************)
(* Instances of Provision.  Most worlds are those of MCScan, scanned alone.*)
(* Two runs write: one of a file given twice, and one of a file and those  *)
(* of a playbook, where there is one, or an empty list of playbooks.  File *)
(* "a" is left in any state a run or a check tells apart; "b" rests.       *)
(***************************************************************************)
EXTENDS MCScan, Provision

MCContents == {"v1", "v2", "v3"}
MCSizeOf == [c \in MCContents |-> IF c = "v3" THEN 3 ELSE 2]
MCModes == {"644", "600"}
MCMTimes == {0, 1, 2}

File(k, c, m, t) == [kind |-> k, content |-> c, mode |-> m, mtime |-> t]
Resting == File("regular", "v1", "644", 1)
Restless ==
    {Resting, File("regular", "v2", "644", 1), File("regular", "v3", "600", 2),
     File("unreadable", "v1", "644", 1), File("absent", "v1", "644", 0)}

FileA == <<"/etc", "a">>
FileB == <<"/etc", "b">>
Manages == World(<<Site>>, Site :> Doc("list", <<Play([v |-> "a"], <<>>,
    <<<<Named(Template, "s1"), Named(Copies(<<"a", "a">>), "s2")>>>>)>>, NoVars))
NoPlaybooks == World(<<>>, <<>>)
WriteWorlds == {Manages, NoPlaybooks}
ProvisionWorlds == MCWorlds \cup WriteWorlds
ProvisionItems ==
    MCItems \cup {Named(Template, "s1"), Named(Copies(<<"a", "a">>), "s2")}
            \cup Elements(Manages.docs[Site].items)

MCPaths == {FileA, FileB}
MCStatesOf == [p \in MCPaths |-> IF p = FileA THEN Restless ELSE {Resting}]
Copied == [NoManifest EXCEPT !.status = "whole", !.by = "other",
               !.files = <<[path |-> FileA, sha |-> Digest("v1"), mode |-> "644",
                            size |-> 2, mtime |-> 1]>>]
MCManifests == {NoManifest, [NoManifest EXCEPT !.status = "broken"], Copied}

Command(cmd, asked, scan) == [cmd |-> cmd, files |-> asked, scan |-> scan]
Node(w, d, cs) ==
    [world |-> w, dest |-> d, commands |-> cs, fs |-> [p \in MCPaths |-> Resting]]
MCNodes ==
    {Node(w, Copied, {Command("scan", <<>>, TRUE)}) : w \in MCWorlds}
    \cup {Node(w, d, {Command("write", <<FileB>>, TRUE),
                      Command("write", <<FileA, FileA>>, FALSE)}) :
             w \in WriteWorlds, d \in MCManifests}
=============================================================================
