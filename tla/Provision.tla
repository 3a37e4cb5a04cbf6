----------------------------- MODULE Provision -----------------------------
(***************************************************************************)
(* The command line of a provisioned node (cmd/agent/main.go): runs of     *)
(* -scan-playbook (runScan) and -write-manifest (runWriteManifest), with   *)
(* the walk of Scan and GenerateManifest of internal/agent/audit/          *)
(* generate.go, followed by -check (runCheck), as the last tasks of the    *)
(* ansible role do it.  Meanwhile other processes edit files of the node,  *)
(* and others write the manifest.  Packages and services are in Remediate, *)
(* the steps of a check in CheckFiles, those of a write in ManifestStore.  *)
(***************************************************************************)
EXTENDS Scan, FileCheck

CONSTANTS
    Nodes,        \* [world, fs, dest, commands]: a node as the first run finds
                  \* it, and the [cmd, files, scan] it may be given
    StatesOf,     \* per path, the states the file is found and left in
    Manifests,    \* the manifests others leave: missing, damaged or their own
    MaxRuns,      \* bound: runs that scan or write
    MaxEdits,     \* bound: edits of files
    MaxOthers     \* bound: manifests put there by others

NoManifest == [status |-> "absent", files |-> <<>>, at |-> 0, by |-> "nobody"]

ASSUME ProvisionAssumption ==
    /\ StatesOf \in [Paths -> SUBSET FileStates]
    /\ \A n \in Nodes :
          /\ n.world \in Worlds /\ n.dest \in Manifests
          /\ n.fs \in [Paths -> FileStates]
          /\ \A c \in n.commands : c.cmd \in {"scan", "write"} /\ (c.cmd = "scan" => c.scan)
          /\ {c.files : c \in n.commands} \subseteq Seq(Seq(STRING))
    /\ \A d \in Manifests : d.status \in {"absent", "broken", "whole"} /\ d.by # "run"
    /\ {MaxRuns, MaxEdits, MaxOthers} \subseteq Nat

VARIABLES
    commands,     \* what may be asked of this node
    fs,           \* the files of the node
    dest,         \* the installed manifest; "by" is history
    call,         \* the run in progress, or the last one
    place,        \* where it is
    list,         \* the paths it has still to collect
    info, window, \* the stat of the first of them; the bytes a read may get
    entries,      \* m.Files
    missed,       \* the paths collectFiles warned of
    changed,      \* whether the manifest differs from the installed one
    report,       \* how the last run or check ended, until the node changes
    runs, edits, others,
    during,       \* history: per path, its states since the run began
    since,        \* history: as during, of the run that wrote the manifest
    wrote,        \* history: the call that wrote the manifest
    replaced      \* history: the lists of files installed since the run began

around == <<commands, fs, dest, edits, others, during, since, wrote, replaced>>
collected == <<list, info, window, entries, missed>>
vars == <<scanVars, around, call, place, collected, changed, report, runs>>

NoInfo == [kind |-> "none"]
NoReport == [cmd |-> "none", code |-> 0, said |-> "", flag |-> FALSE, conf |-> ""]
Ended(cmd, code, said) ==
    /\ report' = [NoReport EXCEPT !.cmd = cmd, !.code = code, !.said = said]
    /\ place' = "idle"

Init ==
    /\ \E n \in Nodes :
          /\ world = n.world /\ fs = n.fs /\ dest = n.dest /\ commands = n.commands
    /\ todo = <<>> /\ stack = <<>> /\ visited = {} /\ files = <<>> /\ warnings = {}
    /\ outcome = "running"
    /\ call = [cmd |-> "none", files |-> <<>>, scan |-> FALSE]
    /\ place = "idle" /\ list = <<>> /\ info = NoInfo /\ window = {}
    /\ entries = <<>> /\ missed = {} /\ changed = FALSE
    /\ report = NoReport
    /\ runs = 0 /\ edits = 0 /\ others = 0
    /\ during = [p \in Paths |-> {fs[p]}] /\ since = during
    /\ wrote = call /\ replaced = {}

-----------------------------------------------------------------------------
(* A run starts: with a scan if -scan-playbook is given.  runScan refuses  *)
(* an empty list of playbooks, and ScanPlaybooks panics; both exit with 2. *)
Start ==
    /\ place = "idle" /\ runs < MaxRuns
    /\ \E c \in commands :
          /\ call' = c
          /\ todo' = IF c.scan THEN world.playbooks ELSE <<>>
          /\ list' = c.files
          /\ IF c.scan /\ world.playbooks = <<>>
               THEN Ended(c.cmd, 2, "")
               ELSE /\ place' = IF c.scan THEN "scan" ELSE "stat"
                    /\ report' = NoReport
    /\ stack' = <<>> /\ visited' = {} /\ files' = <<>> /\ warnings' = {}
    /\ outcome' = "running"
    /\ entries' = <<>> /\ missed' = {} /\ changed' = FALSE
    /\ runs' = runs + 1
    /\ during' = [p \in Paths |-> {fs[p]}]
    /\ replaced' = {dest.files}
    /\ UNCHANGED <<world, commands, fs, dest, info, window, edits, others, since, wrote>>

Walk ==
    /\ place = "scan" /\ Scanning
    /\ UNCHANGED <<around, call, place, collected, changed, report, runs>>

AfterScan ==
    /\ place = "scan"
    /\ UNCHANGED <<scanVars, around, call, info, window, entries, missed, changed, runs>>
ScanFailed ==
    /\ AfterScan /\ outcome = "failed"
    /\ Ended(call.cmd, 2, "")
    /\ UNCHANGED list
PrintScan ==
    /\ AfterScan /\ outcome = "done" /\ call.cmd = "scan"
    /\ Ended("scan", 0, "")
    /\ UNCHANGED list

(* runWriteManifest puts the scanned files behind those of -files.         *)
AddScannedInstead == \* Mutant: they take the place of those of -files
    /\ AfterScan /\ outcome = "done" /\ call.cmd = "write"
    /\ list' = Dedupe(files) /\ place' = "stat"
    /\ UNCHANGED report

AddScanned ==
    /\ AfterScan /\ outcome = "done" /\ call.cmd = "write"
    /\ list' = Dedupe(call.files \o Dedupe(files)) /\ place' = "stat"
    /\ UNCHANGED report

-----------------------------------------------------------------------------
(* collectFiles: a stat, and a hash if there is a regular file.            *)
SkipHashOnly == \* Mutant: a failed hash still makes an entry
    /\ entries' = IF place = "stat" THEN entries
                  ELSE Append(entries, [path |-> Head(list), sha |-> NoSha, mode |-> info.mode,
                                        size |-> info.size, mtime |-> info.mtime])
    /\ list' = Tail(list) /\ place' = "stat"
    /\ info' = NoInfo /\ window' = {}
    /\ UNCHANGED missed
Skip ==
    /\ missed' = missed \cup {Head(list)}
    /\ list' = Tail(list) /\ place' = "stat"
    /\ info' = NoInfo /\ window' = {}
    /\ UNCHANGED entries

Bytes(file) == IF file.kind = "regular" THEN {file.content} ELSE {}

(* There is never anything at a path outside Paths.                        *)
IsRegular(p) == p \in Paths /\ fs[p].kind \in {"regular", "unreadable"}

CollectStat ==
    /\ place = "stat" /\ list # <<>>
    /\ LET file == fs[Head(list)]
       IN  IF ~IsRegular(Head(list)) THEN Skip
           ELSE /\ info' = StatOf(file) /\ window' = Bytes(file)
                /\ place' = "hash"
                /\ UNCHANGED <<list, entries, missed>>
    /\ UNCHANGED <<scanVars, around, call, changed, report, runs>>

(* Mutant: the hash of the installed entry is kept if size and time match. *)
CollectedFromLast(p, bytes) ==
    LET same == {f \in Elements(dest.files) :
                    f.path = p /\ f.size = info.size /\ f.mtime = info.mtime}
    IN  [path |-> p, mode |-> info.mode, size |-> info.size, mtime |-> info.mtime,
         sha |-> IF same = {} THEN Digest(bytes) ELSE (CHOOSE f \in same : TRUE).sha]
Collected(p, bytes) ==
    [path |-> p, sha |-> Digest(bytes), mode |-> info.mode, size |-> info.size,
     mtime |-> info.mtime]

(* The hash is of the bytes of one state since the stat, or of a mixture;  *)
(* a file that cannot be opened or read any more is skipped.               *)
CollectHash ==
    /\ place = "hash"
    /\ \/ fs[Head(list)].kind # "regular" /\ Skip
       \/ /\ \E bytes \in window \cup (IF Cardinality(window) > 1 THEN {Torn} ELSE {}) :
                entries' = Append(entries, Collected(Head(list), bytes))
          /\ list' = Tail(list) /\ place' = "stat"
          /\ info' = NoInfo /\ window' = {}
          /\ UNCHANGED missed
    /\ UNCHANGED <<scanVars, around, call, changed, report, runs>>

(* loadManifest of the installed one, and manifestsEqual.                  *)
DiffersInTime(d) == d.files # entries \/ d.at # runs \* Mutant: generated_at counts
Differs(d) == d.files # entries

Compare ==
    /\ place = "stat" /\ list = <<>>
    /\ changed' = (dest.status # "whole" \/ Differs(dest))
    /\ place' = "write"
    /\ UNCHANGED <<scanVars, around, call, collected, report, runs>>

Installs ==
    /\ dest' = [status |-> "whole", files |-> entries, at |-> runs, by |-> "run"]
    /\ since' = during /\ wrote' = call
WriteStep ==
    /\ place = "write"
    /\ UNCHANGED <<scanVars, commands, fs, edits, others, during, replaced, call, collected,
                   changed, runs>>

Write ==
    /\ WriteStep /\ Installs
    /\ Ended("write", 0, IF changed THEN "wrote" ELSE "unchanged")

(* The chmod, which may be what fails, comes after the rename.             *)
WriteFails ==
    /\ WriteStep
    /\ Installs \/ UNCHANGED <<dest, since, wrote>>
    /\ Ended("write", 2, "")

-----------------------------------------------------------------------------
(* resolveCheckInputs: with -manifest given, a configuration that does not *)
(* load (it is missing, does not parse, or has no manifest_path: "bad") is *)
(* as good as none; but config.Load panics on an empty file.               *)
ConfigFiles == {"empty", "bad", "good"}
ResolvesConfigFirst(flag, conf) == conf = "good" \* Mutant: it must load all the same
Resolves(flag, conf) == conf # "empty" /\ (flag \/ conf = "good")

(* CheckLocal's own configuration has neither check set nor fast_scan.     *)
LocalConfig == [checks |-> EffectiveChecks({}), fast |-> FALSE]
FileVerdict(f, file) ==
    LET v == StatVerdict(f, LocalConfig, StatOf(file))
    IN  IF v # "hash" THEN v
        ELSE IF file.kind = "unreadable" THEN "unreadable"
        ELSE HashVerdict(f, LocalConfig, StatOf(file), Digest(file.content))

ExitCode ==
    IF dest.status # "whole" \/ \E f \in Elements(dest.files) : ~WellFormed(f) THEN 2
    ELSE IF \E f \in Elements(dest.files) : FileVerdict(f, fs[f.path]) # Clean THEN 1
    ELSE 0

(* runCheck, in one step.                                                  *)
Check ==
    /\ place = "idle" /\ report.cmd \in {"none", "write"}
    /\ \E flag \in BOOLEAN, conf \in ConfigFiles :
          report' = [cmd |-> "check", said |-> "", flag |-> flag, conf |-> conf,
                     code |-> IF Resolves(flag, conf) THEN ExitCode ELSE 2]
    /\ UNCHANGED <<scanVars, around, call, place, collected, changed, runs>>

-----------------------------------------------------------------------------
(* A scan looks at none of the files of the node.                          *)
Observed == place # "scan" /\ \E c \in commands : c.cmd = "write"

(* Another process replaces, rewrites or removes a file.                   *)
Edit(p) ==
    /\ edits < MaxEdits /\ Observed
    /\ \E file \in StatesOf[p] \ {fs[p]} :
          /\ fs' = [fs EXCEPT ![p] = file]
          /\ during' = [during EXCEPT ![p] = @ \cup {file}]
          /\ since' = [since EXCEPT ![p] = @ \cup {file}]
          /\ window' = IF place = "hash" /\ Head(list) = p THEN window \cup Bytes(file)
                       ELSE window
    /\ edits' = edits + 1 /\ report' = NoReport
    /\ UNCHANGED <<scanVars, commands, dest, others, wrote, replaced, call, place,
                   list, info, entries, missed, changed, runs>>

(* A record-end, an administrator or a damaged disk puts another manifest. *)
Replace ==
    /\ others < MaxOthers /\ Observed
    /\ dest' \in Manifests \ {dest}
    /\ replaced' = replaced \cup {dest'.files}
    /\ others' = others + 1 /\ report' = NoReport
    /\ UNCHANGED <<scanVars, commands, fs, edits, during, since, wrote, call, place,
                   collected, changed, runs>>

Run ==
    \/ Start \/ Walk \/ ScanFailed \/ PrintScan \/ AddScanned
    \/ CollectStat \/ CollectHash \/ Compare \/ Write \/ WriteFails

Next == Run \/ Check \/ Replace \/ \E p \in Paths : Edit(p)

Spec == Init /\ [][Next]_vars

-----------------------------------------------------------------------------
(* Types of the command line's variables; a run holds a stat exactly while *)
(* it hashes, and an entry is never without a hash.                        *)
TypeOK ==
    /\ fs \in [Paths -> FileStates]
    /\ dest.status \in {"absent", "broken", "whole"}
    /\ place \in {"idle", "scan", "stat", "hash", "write"}
    /\ info \in Infos \cup {NoInfo} /\ (info = NoInfo <=> place # "hash")
    /\ window \subseteq Contents
    /\ \A f \in Elements(entries) :
          /\ f.path \in Paths /\ f.sha \in Digests \cup {Digest(Torn)}
          /\ f.mode \in Modes /\ f.size \in Nat /\ f.mtime \in MTimes
    /\ changed \in BOOLEAN
    /\ report.code \in {0, 1, 2}

TrackedOrMissed == missed \cup {dest.files[k].path : k \in DOMAIN dest.files}
Wrote == report.cmd = "write" /\ report.code = 0 /\ dest.by = "run"

(* What a run that ended well was asked to track, by -files or by the      *)
(* playbooks it scanned, is in the manifest or was warned of: a task's     *)
(* path is not lost between the walk, the merged list and the collection.  *)
ManagedIsTracked ==
    Wrote =>
        /\ Elements(call.files) \subseteq TrackedOrMissed
        /\ call.scan /\ IncludesAreFixed(world) /\ Legible(world) =>
           \A c \in Reached(world) : \E d \in Reached(world) :
              /\ d.task = c.task /\ d.dir = c.dir
              /\ \A raw \in RawPaths(d.task) :
                    \/ ManagedPaths(raw, d.vars, d.task.loop) \subseteq TrackedOrMissed
                    \/ WarnedOf(d.task)

(* Each attribute of an entry is that of a state its file had since the    *)
(* run began: nothing is carried over from an earlier manifest, even for a *)
(* file that was rewritten with the size and the time it had.              *)
EntriesAreOfTheRun ==
    dest.by = "run" =>
        \A k \in DOMAIN dest.files :
            LET f == dest.files[k] IN
            /\ \E s \in since[f.path] :
                  f.mode = s.mode /\ f.size = SizeOf[s.content] /\ f.mtime = s.mtime
            /\ \/ \E s \in since[f.path] : f.sha = Digest(s.content)
               \/ f.sha = Digest(Torn) /\ Cardinality(since[f.path]) > 1

(* The role's last task, "Verify baseline reads clean": if no tracked file *)
(* was edited since the run that recorded it began, the check exits with 0,*)
(* whatever configuration file there is beside the -manifest flag.         *)
BaselineReadsClean ==
    /\ report.cmd = "check" /\ dest.by = "run"
    /\ \A k \in DOMAIN dest.files : Cardinality(since[dest.files[k].path]) = 1
    /\ report.conf = "good" \/ (report.flag /\ report.conf # "empty")
    => report.code = 0

(* The role takes its task for changed if the run says so.  A run on a node*)
(* that rests, with the arguments of the last one, does not; and one that  *)
(* says "unchanged" left the list of files it found, or one that somebody  *)
(* else put there in the meantime.                                         *)
Rests ==
    /\ dest.by = "run" /\ wrote = call
    /\ \A p \in Paths : Cardinality(since[p]) = 1
ReportOfChangeIsTrue ==
    [][place = "write" =>
         /\ report'.said = "wrote" => ~Rests
         /\ report'.said = "unchanged" => dest'.files \in replaced]_vars
=============================================================================
