# A TLA+ verification of fiia

fiia is an agent that detects configuration drift on a node. A provisioning
play records a *manifest* (the files with their hashes and attributes, the
packages and services); a daemon verifies the node against it at intervals and
sends a verdict to the operator's OpenTelemetry pipeline. This directory holds
TLA+ modules translated from the Go source, TLC configurations that check them
on small instances, and proofs checked by TLAPS for every instance.

`PROJECT.json` gives, for each definition, the lines it models (`map`), the
runs, for each property a plausible bug of the code that breaks it (`mutants`;
the mutated forms stand next to the operators they replace, marked *Mutant*),
the hazards of the code and the proved theorems.

## Inventory

| Part (source) | State | Operations | What makes it correct |
|---|---|---|---|
| file check (`audit/manifest.go`) | the shared slice of results, the job channel, the wait group; the file system it reads | `checkFiles`, `checkFile`, `sha256File` | every entry judged before the report is made; report in manifest order; lasting drift found, no false alarm, in spite of changes between stat and hash; termination |
| manifest file (`audit/generate.go`, `loadManifest`) | `dest`, `dest.tmp` | `writeManifest`, `loadManifest`, the role's chown | one whole document at all times; reads are atomic; a failed run can be repeated; the daemon can read it |
| recording (`audit/record.go`) | index file, manifest, snapshots | `RecordBegin`, `RecordEnd`, `BuildFileIndex`, `DiffIndexes` | what the run changed is tracked and verifies; nothing else is adopted or lost |
| daemon (`cmd/agent/main.go`) | the loop chosen at start, three goroutines | probe, audit loop, error loop, heartbeat, shutdown | never silent; lasting drift and its repair are reported |
| telemetry (`otel/otel.go`) | gauges, export interval | `EmitCheck`, `EmitAlive`, shutdown | the last verdict reaches the backend |
| one-shot check (`audit/local.go`, `cmd/agent/main.go`) | none | `resolveCheckInputs`, `CheckLocal`, `runCheck`, `runRemediation` | a baseline just recorded reads clean; the verdict printed after a pass is one made after it |
| package and service checks (`audit/manifest_linux.go`, `manifest_darwin.go`) | none (asks dpkg, rpm, systemctl; brew on a Mac) | `checkPackages`, `checkServices`, `checkUnauthorized*` | a clean verdict is a true one; an answer that could not be obtained is not taken for a clean one |
| remediation (`audit/remediate_linux.go`) | packages and services of the node | `remediatePackages`, `remediateServices` | removes what is not in the snapshot, and not what packages wholly recorded need; leaves a settled node alone; reports what it did; converges |
| generation (`audit/generate.go`) | the list of paths, the entries so far | `runWriteManifest`, `GenerateManifest`, `collect*`, `manifestsEqual` | entries are of files as they were during the run; what the run reports as changed is; what a listing that failed leaves in the manifest does no harm later |
| playbook scanner (`audit/scan.go`) | visited files, files found, warnings; the recursion over plays, blocks and includes | `ScanPlaybooks`, `scanFile`, `scanTaskList` | every managed path is listed or warned of, as far as the scanner knows the forms of playbooks; no other is listed; cycles of includes end |
| configuration (`config/config.go`) | none | `Load` | a broken file stops the daemon, and does not stop a check that needs none |
| sdnotify, assertions | none | | |

The parts interact through the manifest file (written by the command-line runs
as root, from the files the scanner found among others, read by the daemon as a
service account and by the check that ends a play), through the node itself
(files, packages, services, which change at any time), and through the gauges
(set by the loops, exported by a timer of the SDK and by the shutdown). The
hard behaviours are the races of a check with the node, of writers with each
other and with readers, failures between two steps of a write or of a wrapper
play, the recursion of the scanner under changing bindings, and the life cycle
of the daemon.

## Modules

| Module | Models | Notes |
|---|---|---|
| `FileCheck` | `checkFile` as operators | split where the code reads the node: `StatVerdict` from the stat, `HashVerdict` from the hash. `Departs` is the yardstick, written per attribute and without the order of the code |
| `CheckFiles` | `checkFiles` with its pool | one action per channel, wait-group or system call; `Edit` is any other process. `seen` and `checked` are history |
| `FileVerdicts` | the promise of a sequential check | implemented by `CheckFiles` (`ImplementsPromise`) |
| `ManifestStore` | `writeManifest`, `loadManifest` | names point to inodes, an inode has two chunks, so half-written files exist; O_TRUNC on the shared `dest.tmp`; mode 0400 stops only writers that are not root; page write-back and loss of power. The documents in `Recorded` are those of record-end, after which nobody gives the file to the agent |
| `ManifestRegister` | the promise: absent or one whole document, changed in one step | implemented by `ManifestStore` (`ImplementsRegister`) |
| `Record` | `RecordBegin` ... `RecordEnd` | walk and hashing are separate steps; plays, drift of files and packages, failed tasks, a manifest that stops parsing; a listing of packages that fails is in `Remediate` |
| `Daemon` | `runDaemon`, its loops, the gauges and log records | with systemd, the collector, the configuration file and the node around it; commands may hang. The node drifts in its files, in what a pass puts right ("fixable") and in what no pass does ("unfixable": a declared package that is missing or of another version, an unauthorized one that apt refuses to remove) |
| `Remediate` | package and service checks, `Remediate`, and the two writers of what they compare with (`GenerateManifest`, `RecordEnd`) | every command the code runs is a step: queries, listings, apt-get with its autoremove, dnf, dpkg, systemctl; `Drift` is anybody else, who may upgrade a package to a version that needs others, or remove one and leave its configuration. The manager `brew` stands for a Mac, whose passes do nothing |
| `PlaybookMeaning` | what playbooks manage, as operators | the yardstick, without the scanner's order of work: every play of a document is one, whatever stands before it, and `creates` counts wherever Ansible takes it; a string is a sequence of tokens |
| `Scan` | `ScanPlaybooks` | the recursion is a stack of lists; one action per branch of `scanFile` and `scanTaskList` |
| `Provision` | `-scan-playbook`, `-write-manifest` and `-check` on one node | composes `Scan` (the walk), the verdicts of `FileCheck` (the check) and the collection of files; others edit files and replace the manifest |
| `MC*` | finite instances | contents, entries, node states, symmetry |
| `CheckFilesProofs`, `ManifestStoreProofs`, `RecordProofs`, `DaemonProofs`, `RemediateProofs`, `ScanProofs`, `ScanWalkProofs`, `ProvisionProofs` | theorems | see below |

How the state corresponds to the code, where it is not one to one:

- `CheckFiles`: `main` is the program counter of the caller of `checkFiles`,
  `step[w]` that of a goroutine. A send on the unbuffered channel is one step
  with its receive. `info[w]` is the `os.FileInfo`, `window[w]` the versions of
  the bytes a worker that has the file open may see; `Torn` is a mixture.
- `ManifestStore`: `pc` follows `os.WriteFile` (open, two chunks), `os.Rename`
  and `os.Chmod`; a writer at "done" has reported success, and `Chown` is the next
  task of the ansible role (`tasks/main.yml:70-76`). It comes after
  `-write-manifest` only: the wrapper play of `docs/ansible-interception.md` has
  no such task, so a document in `Recorded` stays root's. `Fault` is a kill or a
  full disk.
- `Record`: `index[r]` is the file given with `-data`, `draft[r]` the manifest
  in memory between `loadManifest` and `writeManifest`. A manifest that is
  missing and one that does not parse are one state, as in `RecordEnd`. `touched`,
  `applied` and `provided` (what runs installed that is still there) are history.
- `Daemon`: `view` is what a read of the manifest would give, `conf` what a load
  of the configuration would, `pc` the place of the loop's goroutine, `remediate`
  the setting read at start, `hung` a command it waits for, `status`, `details`
  (whether it was recorded at all) and `alive` the gauges in the process, `pending` the queue of log records,
  `backend` what was exported last. Signals cancel the context, after which a
  sleeping loop may still take a timer that has fired, and a running check goes
  on beside the shutdown, which flushes metrics and then log records
  (`FlushMetrics`, `FlushLogs`, `proc`). A pass takes away
  what is "fixable"; `PassGoesAmiss` is one whose commands fail, so that less or
  nothing is put right, or which takes a declared package along. A measurement made with a cancelled
  context may be dropped.
- `Scan`: an element of `stack` is a call of `scanFile` or `scanTaskList` with
  what is left of its list, its bindings and its directory. The items of a list are
  plays, tasks, other mappings (an `import_playbook`) and scalars; the first item
  decides what the scanner takes the list for (`ReadsAsTasks`). `files` and
  `warnings` are the scanner's; a warning keeps the task and what it is about.
- `Provision`: `list` is the paths `collectFiles` has not come to, `info` the stat
  of the first of them and `window` the bytes a read of it may get, as in
  `CheckFiles`. `report` is exit code and output of the last command, until the
  node changes. `during`, `since`, `wrote`, `replaced` and `dest.by` are history.
- `Remediate`: `version`, `residual`, `active` and `enabled` are the node. A package
  in `residual` was removed and its configuration left: `dpkg-query` still answers
  for it and lists it, so it is `Known` to the code, but not `Installed`. What a
  package needs depends on its version (`Needs`). `pc` is the place
  of the agent, `mode` who runs it: the daemon's loop, an operator's
  `-check -remediate`, or the check the latter makes after its pass. `m` is the
  copy of the manifest `loadManifest` returned, read anew before a pass. `todo`
  is the slice of packages to remove, `left` what the present loop has not come
  to, `unit` the service whose second command is next, `rem` the `Remediation`.
  `play` and `draft` are the run that writes the manifest. `before`, `lost`,
  `disturbed` and `failed` are history, read by properties only. The model of
  `checkFiles` here is a choice: it found something or not. A query that breaks
  looks as it does to the code: a package is not installed, a service is down,
  or up where only the exit code of a systemctl that never started is looked at.

How the modules fit together: `CheckFiles` uses the verdicts of `FileCheck`, and
`Record` uses them to say that a recorded file verifies. `Daemon` has the file
check, the checks of packages and services, and a pass of `Remediate` as one
step each; `CheckFiles` and `Remediate` open these steps up. `Provision` extends
`Scan` and `FileCheck`: its list of paths comes from the walk, its check uses the
verdicts. `ManifestStore` shows that the manifest may be taken for a register that
changes in one step (`ManifestRegister`), which is how `Record`, `Provision`,
`Daemon` and `Remediate` treat it.

## Runs

| Run | Instance | Shows |
|---|---|---|
| `Check` | 2 workers; one entry in five shapes, 11 states of the file, 4 check sets with and without fast_scan; manifests of 0 and 3 entries over 2 files (one listed twice, one entry without a hash); 2 edits | `EveryEntryJudged`, `ReportInOrder`, `PersistentDriftReported`, `NoFalseAlarm`, `SizeMismatchOnlyRaces`, `Termination`, `ImplementsPromise` |
| `Store` | 1 root writer, 1 reader, 2 documents, one of the role and one of record-end, 1 fault, 1 loss of power | `NeverTorn`, `ReadsAreAtomic`, `SuccessIsInstalled`, `RetrySucceeds`, `BecomesReadable`, `ImplementsRegister` |
| `StoreCrowd` | 3 root writers | `QuietIsWhole` |
| `Record` | 1 recorder, 3 paths, 1 package that runs and others install and others remove, 2 runs, 2 changes by others, 1 failure, 1 damaged manifest; the play goes on from the failed task | `RunsAccumulate`, `OnlyWindowChangesRecorded` |
| `Provision` | some 1400 trees of playbooks, scanned alone, among them sites the scanner reads otherwise than meant (an import or a scalar first, a play behind tasks, `creates` among the arguments); 2 trees from which, and with `-files`, 2 runs write the manifest of 2 files, one in 5 states; 3 manifests found or put there by others, 2 edits | `FilesAreManaged`, `EveryTaskAccountedFor`, `WalkIsBounded`, `ManagedIsTracked`, `EntriesAreOfTheRun`, `BaselineReadsClean`, `ReportOfChangeIsTrue` |
| `Daemon` | 3 kinds of manifest, 2 of configuration, 3 events: changes of manifest, configuration or a part of the node and passes that go amiss, at most 1 signal, 1 outage and 1 command that hangs | `VerdictIsOfThisCheck`, `LastVerdictSurvivesExit`, `DriftReachesBackend`, `RepairReachesBackend`, `NeverSilent` |
| `Remediate` | 4 packages in 2 versions, dependencies per version: the upgrade of app needs vim; one package is an orphan; 1 declared and 1 other service; apt as root and as a service account, dnf as root and as one systemd refuses to answer, dpkg as root, brew; 2 events | `CleanIsTrue`, `PassEnforces`, `SettledIsLeftAlone`, `NeededIsKept`, `ReportIsTrue`, `EventuallyEnforced` |

`TypeOK` is checked in `Check`, `Store`, `Record`, `Provision`, `Daemon` and
`Remediate`.

Five runs are expected to fail. Each shows a sentence of the code or its docs
that the code does not keep:

- `StoreRecorded`: what record-end writes belongs to root and has mode 0400, and no
  task of the wrapper play gives it to the service account, so the agent deployed
  after it can never read it ("Deploy the agent as a service. It checks the manifest
  on the audit interval", `docs/ansible-interception.md:119-122`).
- `RecordRestart`: a recipe fails after it changed a file, the wrapper play is
  started again, its record-begin takes the changed file into the index, and the
  manifest that its record-end writes does not have it ("Whatever Ansible did is
  captured exactly", line 21, "the union of deltas across runs", line 60).
- `DaemonStuck`: the error loop reports the probe of the start for good, also
  when the manifest can be read again ("while the manifest cannot be read",
  `main.go:228`).
- `ScanDrops`: one scan, which ends with no warning at all, passes over five things
  ("reported in warnings, never silently dropped", `scan.go:32-34`): an unarchive,
  whose branch at `scan.go:221` no task reaches; `creates` among the arguments of a
  command; a one-liner whose path is cut at the blank of its reference; a file of
  tasks included a second time with another variable; and a play behind an
  `import_playbook`, where the list is read as one of tasks.
- `RemediateOrphans`: a pass that removes an unauthorized package ends with
  `apt-get autoremove` on the whole node, which also purges packages of the
  snapshot nobody needs any more; the report does not name them ("removes installed
  packages that are not in the package snapshot", `remediate_linux.go:12`).

### Bounds, and why they are enough

`MaxEdits`: a check looks at a file twice (stat, hash), so two edits put a
different state before, between and after. Two workers and three entries give
every order of finishing and a worker that takes two jobs. In `ManifestStore`
one more inode than names and open files is enough for every new file
(`EnoughInodes`); two chunks are the least with a half-written file; a third
writer can create a new `dest.tmp` between the open and the rename of a second,
after the first has taken the old one away. In `Record` two runs
are what accumulation needs, and the three paths are one rewritten, one removed
and one not touched by the recipes. In `Daemon` three events let the manifest
come and go after the node drifted, or a signal meet a hanging command or an
outage during a change; an event changes one part of the node. The configurations are one that does not load and one
with `remediate = true`; `DaemonStuck` has one without.
In `Provision` a tree is a playbook of one or two plays, each section with a task of
every shape the scanner tells apart or a block around it, and two files of tasks
that may include each other; `Depth` is enough for the reached tasks to be closed
(`ScanAssumption`, which TLC evaluates), `Height` is how many lists deep an item
goes and `Nesting` the longest chain of lists in one document. Two runs are one and its repetition; two edits
put a different state before, between and after the stat and the hash. No
tree of this run has an unarchive or a reference in a one-liner's `creates=`, a file
included twice is judged by one of its ways (`IncludesAreFixed`), and
`EveryTaskAccountedFor` and `ManagedIsTracked` say nothing of trees that are not
`Legible`, though these are scanned: `ScanDrops` is about all of that.
There is nothing at a path outside `Paths`, so that a run may be asked for any.
In `Remediate` an event is a run
that writes the manifest, a change by others or a failing command; two of any kind put one before and one inside a
check or pass, and the initial states already pair each node with a manifest
recorded in this or another state. The hosts are one with each package manager as root, since they differ in
whether dependents go along, whether configuration stays and whether there is an
autoremove, and the lesser rights once each. `Archives` has one choice of what may be
installed, the upgrade of app being the one that brings a dependency. `MaxSignals`, `MaxOutages`, `MaxHangs`, `MaxOthers`,
`MaxFaults`, `MaxFailures`, `MaxDamage` bound the environment only.
`CHECK_DEADLOCK FALSE` is set for `Record` and `Provision`, whose bounded
environments come to an end; elsewhere deadlock is checked.

### Fairness

- `CheckFiles`: weak fairness of the caller and of each worker: the Go
  scheduler runs goroutines that are not blocked. `Edit` is not fair.
- `ManifestStore`: weak fairness of a started write or read, and of repeating a
  failed run, since the operator or the play runs it again. The chown is a step of
  the role's run and so fair after `-write-manifest`; there is none after record-end.
  Starting a first run is not fair.
- `Daemon`: the loop, the heartbeat, the exporter and both parts of the shutdown
  are fair (timers fire, and the SDK has time limits for its exports); a crashed
  process is started again (`Restart=on-failure` in the unit file), a stopped one
  need not be; the collector comes back. That a command hangs, or that one which
  hangs is ever killed, is not fair: nothing in the code sees to it. A pass goes amiss
  at most `MaxEvents` times, so that `RepairReachesBackend` is about drift some pass
  can put right: it excludes files, missing or outdated declared packages and what
  apt refuses for good, for which the backend stays at 1. The
  properties assume nothing about signals but say "once the daemon stays up" and
  "once no command hangs".
- `Remediate`: weak fairness of the agent: the daemon checks at every interval,
  and its commands return. Neither the writer of the manifest nor `Drift` is
  fair. `EventuallyEnforced` is about a daemon with `remediate = true` that is
  root and a manifest whose service snapshot has every service declared running; the
  commands that fail are at most `MaxEvents`.
- `Scan` and `Provision` state no fairness: their properties are about what a run
  that has ended left behind, and `WalkIsBounded` says that a walk nests no deeper
  than the files it opened.

## Proofs

All theorems hold for every value of the constants under the modules' named
assumptions: `FileDataAssumption`, `CheckFilesAssumption`, `StoreAssumption`,
`RecordAssumption`, `DaemonAssumption`, `RemediateAssumption`, `ScanAssumption`,
`ProvisionAssumption`. They say that sets are disjoint where the code's values
are, that bounds are naturals, and that the
documents of a playbook are finite trees (`Height`) whose reached tasks are closed
at `Depth`. Every invariant that a passing run checks is the subject of a theorem.

| Theorem | Property | Inductive invariant |
|---|---|---|
| `TypeCorrect`, `AllJudgedBeforeReport`, `ReportIsOrdered`, `PoolImplementsPromise` | `TypeOK`, `EveryEntryJudged`, `ReportInOrder`, `ImplementsPromise` of `CheckFiles` | `PoolInv`, `Collected` |
| `AlarmsAreReal`, `LastingDriftIsReported`, `SizeMismatchTellsOfARace` | `NoFalseAlarm`, `PersistentDriftReported`, `SizeMismatchOnlyRaces` | `RaceInv` |
| `StoreTypes` | `TypeOK` of `ManifestStore` | `StoreTypeInv` |
| `ManifestNeverTorn`, `ReadsReturnOneVersion`, `SuccessMeansInstalled`, `StoreImplementsRegister` | `NeverTorn`, `ReadsAreAtomic`, `SuccessIsInstalled`, `ImplementsRegister` | `StoreInv` |
| `QuietMeansWhole` | `QuietIsWhole` | `CrowdInv` |
| `RecordTypes`, `WindowBoundsRecording` | `TypeOK`, `OnlyWindowChangesRecorded` of `Record` | `RecordTypeInv`, `Untouched` (`DraftOfWindow`, `Alone`) |
| `RunsAreKept` | `RunsAccumulate` | `AppliedInv`, `ProvidedInv` |
| `DaemonTypes`, `VerdictsAreCurrent`, `ShutdownKeepsVerdict` | `TypeOK`, `VerdictIsOfThisCheck`, `LastVerdictSurvivesExit` of `Daemon` | `TypeOK`, `CheckInv`, `FlushInv` |
| `RemediateTypes`, `NeededAreKept` | `TypeOK`, `NeededIsKept` of `Remediate` | `RemediateInv` |
| `CleanVerdictsAreTrue`, `PassesEnforce`, `OrderIsLeftAlone`, `ReportsAreTrue` | `CleanIsTrue`, `PassEnforces`, `SettledIsLeftAlone`, `ReportIsTrue` | `OutcomeInv` |
| `ListedAreManaged`, `RunsListManaged` | `FilesAreManaged`, of a scan alone and in any run | `ScanInv` |
| `NothingIsPassedOver` | `EveryTaskAccountedFor` | `AccountInv` |
| `WalkStaysBounded` | `WalkIsBounded` | `BoundInv` |
| `ProvisionTypes`, `EntriesOfThisRun` | `TypeOK`, `EntriesAreOfTheRun` of `Provision` | `NodeInv`, `RunInv`, `RecordInv` |
| `BaselinesReadClean` | `BaselineReadsClean` | the same with `CheckInv` |
| `AskedIsTracked` | `ManagedIsTracked` | the same with `AccountInv`, `ListInv` |
| `UnchangedLeavesFiles` | the second half of `ReportOfChangeIsTrue` | `ReplacedInv` |

### The arguments

- `CheckFilesProofs`: `PoolInv` is `TypeOK` and `Holding`: every index is held by
  at most one busy worker, is checked or held exactly if it was sent, and once the
  caller collects all workers have left. It is needed because `EveryEntryJudged`
  alone says nothing before the collection. `Collected` is about the part of the
  report that is built. `PoolImplementsPromise` follows from the two, step by step.
  `RaceInv` relates what a worker has read (`info`, `window`) to the history
  `seen`: the stat is that of a state the file had during the check, the bytes are
  among the versions since (`WorkersSaw`), and every verdict follows from such
  states (`VerdictsJustified`), for any number of edits.
- `ManifestStoreProofs`: `StoreInv` says that at most one writer is between its
  open and its rename, that it works on the inode of `dest.tmp`, that `dest` is
  another and whole one, and that a reader holds a whole inode nobody writes to. It
  holds until power is lost and under `OneAtATime` (no two writers, or no writer is
  root, so that mode 0400 excludes the second); `SuccessMeansInstalled` needs one
  writer. Without `OneAtATime` the name `dest` may come to refer to a file another
  root run is still writing. `QuietMeansWhole` is about any number of root writers:
  `CrowdInv` says that whoever leaves a damaged `dest` or `dest.tmp` is not the last
  at work, since a writer leaves work through its own rename, after which `dest.tmp`
  does not exist.
- `RecordProofs`: `Untouched` says that a path nobody changed in a recorder's window
  has the same attributes in the index saved by `RecordBegin`, in what the walk of
  `RecordEnd` has found so far, and on the node, so that `DiffIndexes` leaves it out.
  It holds for any number of recorders. `OnlyWindowChangesRecorded` compares a draft
  with the manifest that was loaded, which is proved of every recorder; what is
  written is that draft, so with several recorders a write may undo another's. Only
  for one recorder, and as long as the manifest always parsed, does the second
  conjunct say that no step changes another entry of the manifest. `AppliedInv` says that a path a run has
  changed is in the manifest as the run left it, or will be: it is among those the
  present walk finds different. Its hypothesis `Accumulating` is one recorder, whose
  play is resumed after a failure (`RecordRestart` shows what a restart loses), and
  recipes that leave regular files or remove them; where they remove any, nothing else
  than regular files comes and goes, because a path that had become a directory is in
  neither index and stays tracked when it is removed.
- `DaemonProofs`: `CheckInv` says of each part the loop has looked at that a state
  of the node since `Load` was as it found; `FlushInv` that from the flush on the
  backend shows the last verdict, unless one came later (`flushed = "late"`).
- `RemediateProofs`: `RemediateInv` is the types with `ListInv`: what a pass is about
  to remove is outside the snapshot, and there is none if the snapshot is empty.
  Nothing is assumed of the dependencies, of the node or of the snapshots:
  `NeededIsKept` is about a package all of whose needs, in the version it has now, are
  recorded. None of these is in a list to remove, so the package manager, which takes
  along what needs a listed package, takes neither the package nor its needs
  (`KeepsNeeded`), and autoremove keeps the closure of what was installed on request.
  A recorded package whose upgrade brought a need that is not recorded does go with
  it: the run reaches this, and the property says so.
  `OutcomeInv` follows a check and a pass command by command: what a check that has
  found nothing has made sure of (`CleanInv`), what a pass of root has put right so
  far (`EnforceInv`), that one which began on a node in order never leaves the short
  way (`SettledInv`), and how `lost`, `todo` and `rem` hang together (`ReportInv`).
- `ScanProofs`: `ScanInv` says of every list on the stack that its tasks, under the
  bindings and the directory of its frame, are among the reached ones; each action
  then shows that the lists it pushes are, too, from the closure of the reached tasks.
- `ScanWalkProofs`: `AccountInv` says that there is a set of contexts the walk has
  been through, each accounted for, such that what they lead to is among them or still
  on the stack (`Owed`), and the same of every visited file. When the stack is empty
  the set, taken without its bindings, is closed, and the reached tasks are the least
  closed set (`ReachedLeast`). `BoundInv` says of every frame that it and the lists
  below it fit under `Nesting` lists per visited file, counted from the bottom of the
  stack. Leaving the bindings out is where the premise `IncludesAreFixed` of
  `EveryTaskAccountedFor` comes from: a file is walked once, so an include whose path
  another way to that file would bind otherwise is followed with one path only. The
  property is false without the premise, which the proof brought to light.
- `ProvisionProofs`: the walk keeps its invariants inside a run. `RecordInv` says
  that `info`, `window`, every entry made so far and every entry installed by a run
  are of states in `during` (`since`), and that mixed bytes need two of them;
  `CheckInv` that a check which was reported is what the check would say now, which
  with a single state per file means that it is clean; `ListInv` that what was asked
  for is, from the end of the scan on, listed, collected or warned of. `Dedupe` loses
  no path (`DedupeElements`).

Hypotheses of the scanner's theorems: `PlainOneLiners` (no reference in a one-liner's
`creates=`, whose path is cut off) and `OneActionEach` (in `AskedIsTracked`: a block
or an include is not a module as well). `WalkStaysBounded` has none, and the instances
of `Provision` meet both. The premise `Legible` is part of the properties: each
document begins with an item of the sort of the rest, and there is no unarchive and
no `creates` or `removes` among the arguments of a command. `ScanDrops` has a
counterexample for each.

`Dedupe` and the reached tasks are recursive functions over the naturals. Facts about
them are proved by induction, which is stated with a set in place of a predicate
(`SetInduction`, from the least element of a set of naturals), and `Recursion` gives
the function that such a definition chooses.

### Only model-checked

- Liveness (`Termination`, `RetrySucceeds`, `BecomesReadable`, `EventuallyEnforced`,
  `DriftReachesBackend`, `RepairReachesBackend`, `NeverSilent`): fairness is stated
  with ENABLED, about which the prover has no rules.
- The first half of `ReportOfChangeIsTrue`, that a run on a node at rest does not say
  "wrote". It compares two runs, and needs that two scans of the same playbooks list
  the same paths in the same order; the relation `Scanning` is deterministic, but the
  proof would have to define its result as a function beside it.

## Not modelled, and limits

- sdnotify sends datagrams to systemd and has no state. The text and the cap of
  the labels, `fiia.checks.total`, printing and the usage errors of flags are left
  out.
- `Scan`: a task that names several modules is taken to have one (the code goes
  through them in the random order of a Go map). The scanner reads `creates` and
  `removes` of the task itself only (`scan.go:264`), the yardstick also among the
  module's arguments. `import_playbook` is an item the code does not follow; what it
  imports, and roles, are not in the yardstick either. The order in which `vars` and
  `vars_files` bind is one operator for both (`LastBinding`), so that it is
  translated from the code and not tested against another definition. How a string
  is cut into references is fixed by the tokens.
- `CheckLocal` builds its own configuration and so ignores `check` and
  `fast_scan`, although `local.go:16` says that "local results match what the
  daemon would emit". `Provision` has it as it is; no property says otherwise.
- Two writers of the manifest at once: `QuietIsWhole` says what holds, and the
  theorems exclude two that are root (`OneAtATime`); in `Record` and `Provision`
  there is one run at a time. Two concurrent `record-end` lose each other's updates;
  nothing in the docs promises otherwise, and no property does.
- A snapshot takes in whatever is on the node when it is made, packages that were
  installed by hand included. The docs say so (`docs/drift-operations.md:67-69`), and
  no property calls it wrong; `RunsAccumulate` says that nothing a run installed is
  missing.
- A declared package removed without purging it escapes the check, since
  `dpkg-query -W` still answers with its version (`manifest_linux.go:79-87`);
  `CleanIsTrue` names this case. A pass installs nothing, so `PassEnforces` promises
  nothing of declared packages that are missing.
- `Remediate` has systemd on every Linux node, and no bare `rpm -e` without dnf.
  Services are reported as stopped or disabled whether or not the command succeeded;
  no property says otherwise. A service whose query breaks while the manifest is
  written is recorded as down, and later passes stop it: the model has this, and
  `PassEnforces` takes the manifest as it is.
- A systemctl that cannot be started counts as an exit code 0 (`LooksUp`), so
  `CleanIsTrue` says nothing of services once a command broke.
- A service declared running that is missing from the service snapshot is
  stopped and started by every pass; `EventuallyEnforced` excludes it.
- `Privileged` in `Daemon` is a daemon whose unit lets it act as root; the unit
  file of the collection takes all capabilities away.
- `Record` takes the walk of a tree as one step and has no symbolic links.
- The OpenTelemetry SDK, systemd, ansible, brew and the kernel are modelled from
  how the code uses them and marked external in the map.
- A manifest with an entry that lacks its hash makes the daemon crash and
  restart without a verdict; `NeverSilent` is stated for the other manifests, and
  `BaselineReadsClean` for configurations that are not empty, which panic the check.
  `Termination` counts a panic as an end.
- `fast_scan` trusts size and mtime, so `PersistentDriftReported` exempts content that
  changed under both (`TrustedByStat`).
- `RunManifest` returns `ok` = false only without a `manifest_path`, which
  `config.go:63` does not let a daemon start with: `Daemon` has no such step.

## Plan

Order of work: (1) file check, (2) manifest file, (3) recording, (4) daemon,
(5) packages, services and remediation, (6) the scanner, (7) the command line
that scans, writes and checks: modelled and checked, with the proofs above. Next:

1. Proofs: the first half of `ReportOfChangeIsTrue`, to begin with for runs without
   a scan: with one state per file the entries are a function of the list of paths.
2. Proofs: that one reader's steps of `ManifestStore` hold for two root writers that
   do not overlap in time, in place of `OneAtATime`.
3. Symbolic links in `Record`; several recorders that take turns.
