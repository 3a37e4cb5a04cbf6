------------------------------- MODULE Record -------------------------------
(***************************************************************************)
(* Recording a baseline around a provisioning run (internal/agent/audit/   *)
(* record.go): RecordBegin saves an index of the files, the run changes    *)
(* the node, RecordEnd builds a second index and merges the difference     *)
(* into the manifest.  An index is built in two passes, a walk that takes  *)
(* the stat of every file and a pool that hashes them later.  Recorders    *)
(* are the wrapper plays of docs/ansible-interception.md, each with its    *)
(* own index file, all with the one manifest.  Anything else that changes  *)
(* the node is Drift.                                                      *)
(***************************************************************************)
EXTENDS FileCheck, FiniteSets

CONSTANTS
    Recorders,   \* wrapper plays that may run on the node
    NodeStates,  \* the states of a file
    Want,        \* the state the recipes put each managed path in
    Packages,    \* packages
    MaxRuns,     \* bound: wrapper runs in all
    MaxDrift,    \* bound: changes by others
    MaxFailures, \* bound: failed tasks of a wrapper play
    MaxDamage,   \* bound: times the manifest stops parsing
    AfterFailure \* what the operator does then: "idle", the play is started
                 \* again; "run", the tasks from the failed one on are repeated

ASSUME RecordAssumption ==
    /\ NodeStates \subseteq FileStates
    /\ \A s, t \in NodeStates : s.kind = "absent" /\ t.kind = "absent" => s = t
    /\ DOMAIN Want \subseteq Paths /\ \A p \in DOMAIN Want : Want[p] \in NodeStates
    /\ {MaxRuns, MaxDrift, MaxFailures, MaxDamage} \subseteq Nat
    /\ AfterFailure \subseteq {"idle", "run"} /\ AfterFailure # {}

VARIABLES
    fs, installed,     \* the files and the packages on the node
    files, snapshot,   \* the manifest's file entries and package snapshot
    index,             \* per recorder: its index file
    stage,             \* per recorder: where it is
    infos, built,      \* per recorder: stats of the walk, entries hashed
    draft,             \* per recorder: the manifest about to be written
    runs, drifts, failures, damages,
    touched,           \* history: per recorder, paths changed since its begin
    applied,           \* history: paths changed by runs alone
    provided           \* history: packages runs installed that are still there

vars == <<fs, installed, files, snapshot, index, stage, infos, built,
          draft, runs, drifts, failures, damages, touched, applied, provided>>
node == <<fs, installed>>
manifest == <<files, snapshot>>
local == <<index, stage, infos, built, draft>>
bounds == <<runs, drifts, failures, damages>>
history == <<touched, applied, provided>>

-----------------------------------------------------------------------------
(* A manifest that is missing or does not parse counts as an empty one:    *)
(* RecordEnd goes on with a fresh Manifest if loadManifest fails.          *)
Empty == [p \in {} |-> {}]
Fresh == [files |-> Empty, snapshot |-> {}]

Attrs(got, info) == [sha |-> got, size |-> info.size, mtime |-> info.mtime,
                     mode |-> info.mode]
EntryOf(p, attrs) == [path |-> p, sha |-> attrs.sha, mode |-> attrs.mode,
                      size |-> attrs.size, mtime |-> attrs.mtime]

(* Only regular files are collected; a kind "unreadable" is one, too. *)
Walked == {p \in Paths : fs[p].kind \in {"regular", "unreadable"}}

DiffNewOnly(before, after) == \* Mutant: changed attributes are not compared
    {p \in DOMAIN after : p \notin DOMAIN before} \cup (DOMAIN before \ DOMAIN after)
DiffAll(before, after) == \* Mutant: everything on disk is taken for changed
    DOMAIN after \cup DOMAIN before

(* The paths that are new in after, different, or gone. *)
DiffIndexes(before, after) ==
    {p \in DOMAIN after : p \notin DOMAIN before \/ before[p] # after[p]}
    \cup (DOMAIN before \ DOMAIN after)

(* Mutant: a deleted path gets an empty entry. *)
MergeZeroValue(old, before, after) ==
    [p \in DOMAIN old \cup DiffIndexes(before, after) |->
        IF p \notin DiffIndexes(before, after) THEN old[p]
        ELSE IF p \in DOMAIN after THEN after[p]
        ELSE [sha |-> NoSha, size |-> 0, mtime |-> 0, mode |-> NoMode]]
Merge(old, before, after) ==
    LET diff == DiffIndexes(before, after)
        kept == DOMAIN old \ (diff \ DOMAIN after)
    IN  [p \in kept \cup (diff \cap DOMAIN after) |->
            IF p \in diff THEN after[p] ELSE old[p]]

Init ==
    /\ fs \in [Paths -> NodeStates]
    /\ installed = {}
    /\ files = Empty /\ snapshot = {}
    /\ index = [r \in Recorders |-> Empty]
    /\ stage = [r \in Recorders |-> "idle"]
    /\ infos = [r \in Recorders |-> Empty] /\ built = [r \in Recorders |-> Empty]
    /\ draft = [r \in Recorders |-> Fresh]
    /\ runs = 0 /\ drifts = 0 /\ failures = 0 /\ damages = 0
    /\ touched = [r \in Recorders |-> {}] /\ applied = {} /\ provided = {}

-----------------------------------------------------------------------------
(* BuildFileIndex, first pass.  The walk is short against the hashing and  *)
(* is taken as one step.                                                   *)
Walk(r, to) ==
    /\ infos' = [infos EXCEPT ![r] = [p \in Walked |-> StatOf(fs[p])]]
    /\ built' = [built EXCEPT ![r] = Empty]
    /\ stage' = [stage EXCEPT ![r] = to]

Begin(r) ==
    /\ stage[r] = "idle" /\ runs < MaxRuns
    /\ Walk(r, "begin")
    /\ runs' = runs + 1
    /\ touched' = [touched EXCEPT ![r] = {}]
    /\ UNCHANGED <<node, manifest, index, draft, drifts, failures, damages, applied,
                   provided>>

(* Second pass: one worker hashes p, or fails to and skips it. *)
Hash(r, p) ==
    /\ stage[r] \in {"begin", "end"} /\ p \in DOMAIN infos[r]
    /\ infos' = [infos EXCEPT ![r] = [q \in DOMAIN @ \ {p} |-> @[q]]]
    /\ built' = [built EXCEPT ![r] =
                   IF fs[p].kind # "regular" THEN @
                   ELSE [q \in DOMAIN @ \cup {p} |->
                           IF q = p THEN Attrs(Digest(fs[p].content), infos[r][p])
                           ELSE @[q]]]
    /\ UNCHANGED <<node, manifest, index, stage, draft, bounds, history>>

Indexed(r) == DOMAIN infos[r] = {}

SaveIndex(r) ==
    /\ stage[r] = "begin" /\ Indexed(r)
    /\ index' = [index EXCEPT ![r] = built[r]]
    /\ stage' = [stage EXCEPT ![r] = "run"]
    /\ UNCHANGED <<node, manifest, infos, built, draft, bounds, history>>

(* The recipes bring managed paths to the wanted state, if not in it yet.  *)
Provision(r, p) ==
    /\ stage[r] = "run" /\ p \in DOMAIN Want
    /\ fs[p] # Want[p]
    /\ fs' = [fs EXCEPT ![p] = Want[p]]
    /\ touched' = [q \in Recorders |-> touched[q] \cup {p}]
    /\ applied' = applied \cup ({p} \ touched[r])
    /\ UNCHANGED <<installed, manifest, local, bounds, provided>>

ProvisionPackage(r, k) ==
    /\ stage[r] = "run" /\ k \notin installed
    /\ installed' = installed \cup {k} /\ provided' = provided \cup {k}
    /\ UNCHANGED <<fs, manifest, local, bounds, touched, applied>>

(* RecordEnd loads the pre-index, which RecordBegin has written. *)
End(r) ==
    /\ stage[r] = "run"
    /\ Walk(r, "end")
    /\ UNCHANGED <<node, manifest, index, draft, bounds, history>>

(* It loads the manifest, merges the difference and takes the package      *)
(* snapshot, whose listing is taken to work here (Remediate has it fail).  *)
(* The write is a later step: another recorder may come first.             *)
LoadAndMerge(r) ==
    /\ stage[r] = "end" /\ Indexed(r)
    /\ draft' = [draft EXCEPT ![r] =
                   [files |-> Merge(files, index[r], built[r]),
                    snapshot |-> installed]]
    /\ stage' = [stage EXCEPT ![r] = "write"]
    /\ UNCHANGED <<node, manifest, index, infos, built, bounds, history>>

(* writeManifest: see ManifestStore for what happens inside. *)
Write(r) ==
    /\ stage[r] = "write"
    /\ files' = draft[r].files /\ snapshot' = draft[r].snapshot
    /\ draft' = [draft EXCEPT ![r] = Fresh]
    /\ stage' = [stage EXCEPT ![r] = "idle"]
    /\ UNCHANGED <<node, index, infos, built, bounds, history>>

-----------------------------------------------------------------------------
(* A task fails or is killed, and ansible stops there.  An index file cut  *)
(* short is no matter: the play that starts again writes it anew.          *)
Fail(r) ==
    /\ failures < MaxFailures /\ stage[r] # "idle"
    /\ \E next \in IF stage[r] = "begin" THEN {"idle"} ELSE AfterFailure :
          stage' = [stage EXCEPT ![r] = next]
    /\ infos' = [infos EXCEPT ![r] = Empty] /\ built' = [built EXCEPT ![r] = Empty]
    /\ draft' = [draft EXCEPT ![r] = Fresh]
    /\ failures' = failures + 1
    /\ UNCHANGED <<node, manifest, index, runs, drifts, damages, history>>

(* The manifest file stops parsing (ManifestStore: two writers, power):    *)
(* what it had accumulated is lost.                                        *)
Damage ==
    /\ damages < MaxDamage /\ files # Empty
    /\ files' = Empty /\ snapshot' = {}
    /\ applied' = {} /\ provided' = {}
    /\ damages' = damages + 1
    /\ UNCHANGED <<node, local, runs, drifts, failures, touched>>

Drift(p) ==
    /\ drifts < MaxDrift
    /\ \E file \in NodeStates \ {fs[p]} : fs' = [fs EXCEPT ![p] = file]
    /\ touched' = [r \in Recorders |-> touched[r] \cup {p}]
    /\ applied' = applied \ {p}
    /\ drifts' = drifts + 1
    /\ UNCHANGED <<installed, manifest, local, runs, failures, damages, provided>>

DriftPackage(k) ==
    /\ drifts < MaxDrift
    /\ installed' = IF k \in installed THEN installed \ {k} ELSE installed \cup {k}
    /\ provided' = provided \ {k}
    /\ drifts' = drifts + 1
    /\ UNCHANGED <<fs, manifest, local, runs, failures, damages, touched, applied>>

RecorderStep(r) ==
    \/ Begin(r) \/ SaveIndex(r) \/ End(r) \/ LoadAndMerge(r) \/ Write(r)
    \/ \E p \in Paths : Hash(r, p) \/ Provision(r, p)
    \/ \E k \in Packages : ProvisionPackage(r, k)

Next ==
    \/ \E r \in Recorders : RecorderStep(r) \/ Fail(r)
    \/ Damage
    \/ \E p \in Paths : Drift(p)
    \/ \E k \in Packages : DriftPackage(k)

Spec == Init /\ [][Next]_vars
-----------------------------------------------------------------------------
FileAttrs == [sha : Digests, size : Nat, mtime : MTimes, mode : Modes]
IsIndex(x, kind) == DOMAIN x \subseteq Paths /\ \A p \in DOMAIN x : x[p] \in kind

(* Types of the files given to the recorder (index, draft, manifest) and   *)
(* of the node it records.                                                 *)
TypeOK ==
    /\ fs \in [Paths -> FileStates]
    /\ installed \subseteq Packages /\ provided \subseteq installed
    /\ IsIndex(files, FileAttrs) /\ snapshot \subseteq Packages
    /\ \A r \in Recorders :
          /\ stage[r] \in {"idle", "begin", "run", "end", "write"}
          /\ IsIndex(index[r], FileAttrs)
          /\ IsIndex(infos[r], Infos) /\ IsIndex(built[r], FileAttrs)
          /\ IsIndex(draft[r].files, FileAttrs) /\ draft[r].snapshot \subseteq Packages
          /\ touched[r] \subseteq Paths
    /\ applied \subseteq Paths

Tracked(p) == p \in DOMAIN files
EveryCheck == [checks |-> CheckNames, fast |-> FALSE]

(* Every path that runs left in its present state is tracked with          *)
(* attributes that verify against the node under every check, or is no     *)
(* longer tracked if a run deleted it.                                     *)
AppliedIsTracked ==
    \A p \in applied :
        IF fs[p].kind = "absent" THEN ~Tracked(p)
        ELSE Tracked(p) /\ ~Departs(EntryOf(p, files[p]), EveryCheck, fs[p])

(* The manifest accumulates what the plays did: once none is under way, it *)
(* tracks what they changed as it is now, and its snapshot has the         *)
(* packages they installed, so that no check takes them for unauthorized.  *)
RunsAccumulate ==
    (\A r \in Recorders : stage[r] = "idle") =>
        AppliedIsTracked /\ provided \subseteq snapshot

(* "Whatever Ansible did is captured exactly": when record-end has written *)
(* the manifest, what plays did to the node up to then is in it, also what *)
(* a play did that failed before and was started again.                    *)
CapturedAtEnd ==
    [][\A r \in Recorders :
          stage[r] = "write" /\ stage'[r] = "idle" /\ UNCHANGED failures
             => AppliedIsTracked']_vars

(* Nothing is adopted into the list of files that did not change while the *)
(* recipes ran, whatever happened to the node and the manifest before: the *)
(* draft of a recorder differs from the manifest it loaded only in paths   *)
(* somebody changed since its own RecordBegin, and with one recorder and a *)
(* manifest that always parsed so does what it writes from what it writes  *)
(* over.  In particular the same recipes run a second time leave the list  *)
(* as it is.  Of two recorders that overlap the second write undoes the    *)
(* first, and a recorder that writes over a damaged manifest may repair it.*)
KeepsOutside(old, new, r) ==
    \A p \in Paths \ touched[r] :
        /\ p \in DOMAIN old <=> p \in DOMAIN new
        /\ p \in DOMAIN old => new[p] = old[p]

OnlyWindowChangesRecorded ==
    [][\A r \in Recorders :
          /\ stage[r] = "end" /\ stage'[r] = "write"
                => KeepsOutside(files, draft'[r].files, r)
          /\ Recorders = {r} /\ damages' = 0 => KeepsOutside(files, files', r)]_vars
=============================================================================
