------------------------------- MODULE Daemon -------------------------------
(***************************************************************************)
(* The agent daemon (runDaemon and its loops in cmd/agent/main.go) from    *)
(* the manifest to the metrics backend: the probe at start, the goroutine  *)
(* that checks or reports errors, remediation, the heartbeat, the gauges   *)
(* and log records of internal/agent/otel/otel.go, their export and the    *)
(* flush at shutdown; with systemd, the operator, the provisioning play and*)
(* the collector around it.  What a check and a pass look at is in         *)
(* CheckFiles and Remediate; here a node drifts in its files, in what a    *)
(* pass puts right when its commands succeed (unauthorized packages and    *)
(* services, declared services) and in what no pass puts right: a declared *)
(* package that is missing or of another version, or an unauthorized one   *)
(* that the package manager will not remove.                               *)
(***************************************************************************)
EXTENDS Integers

CONSTANTS
    FirstViews,  \* what the manifest may be when the machine starts
    Views,       \* and what the play may turn it into
    Configs,     \* of {"bad", "watch", "enforce"}: what the configuration file
                 \* may be; one that does not load, remediate = false or true
    Privileged,  \* the process may remove packages and stop services
    MaxEvents,   \* bound: events of every kind together
    MaxSignals,  \* bound: times the operator stops the daemon
    MaxOutages,  \* bound: times the collector goes away
    MaxHangs     \* bound: commands that do not return

ASSUME DaemonAssumption ==
    /\ FirstViews \subseteq Views
    /\ Views \subseteq {"missing", "malformed", "good"}
    /\ Configs \subseteq {"bad", "watch", "enforce"} /\ Privileged \in BOOLEAN
    /\ {MaxEvents, MaxSignals, MaxOutages, MaxHangs} \subseteq Nat

VARIABLES
    view,      \* the manifest as the daemon would read it: "missing" if it
               \* cannot be read or parsed, "malformed" if an entry lacks its
               \* hash, which panics the check
    drift,     \* how the node departs from it now
    conf,      \* the configuration file
    proc,      \* the process: "down" after a crash, "stopped" after a signal
    mode,      \* the loop it runs, fixed at start
    remediate, \* cfg.Remediate, read at start
    pc, found, \* of that loop's goroutine; what its check has found so far
    verdict,   \* the Status of its result
    hung,      \* a command it has started does not return
    status, details, alive,  \* the gauges: last value; whether it was recorded
    pending,   \* log records are waiting in the batch processor
    backend,   \* what the last exports left in the metrics backend
    collector, \* "up" or "down"
    events, signals, outages, hangs,
    since,     \* history: every drift of the node since the check that is
               \* under way began
    flushed    \* history: how the shutdown went

node == <<view, drift, conf>>
setting == <<mode, remediate, hung>>
loop == <<setting, pc, found, verdict>>
gauges == <<status, details, alive, pending>>
bounds == <<events, signals, outages, hangs>>
world == <<collector, bounds>>
vars == <<node, proc, loop, gauges, backend, world, since, flushed>>

State == {"fixable", "unfixable"}   \* of the packages and services
Parts == {"file"} \cup State
Running == proc \in {"up", "closing", "flushing", "flushed"}
None == 9                   \* a gauge without a value

(* Mutant: an error gets a value of its own, outside the documented three. *)
DriftStatusNoDefault(result) == CASE result = "OK" -> 0
                                  [] result = "DRIFT_DETECTED" -> 1
                                  [] result = "CHECK_ERROR" -> 2 [] OTHER -> 3
DriftStatus(result) == CASE result = "OK" -> 0 [] result = "DRIFT_DETECTED" -> 1
                         [] OTHER -> 2

Init ==
    /\ view \in FirstViews /\ drift \in SUBSET Parts /\ conf \in Configs
    /\ proc = "down" /\ mode = "audit" /\ remediate = FALSE /\ pc = "none"
    /\ found = {} /\ verdict = "OK" /\ hung = FALSE
    /\ status = None /\ details = FALSE /\ alive = None /\ pending = FALSE
    /\ backend = [status |-> None, details |-> FALSE, alive |-> None]
    /\ collector = "up"
    /\ events = 0 /\ signals = 0 /\ outages = 0 /\ hangs = 0
    /\ since = {} /\ flushed = "no"

-----------------------------------------------------------------------------
(* A configuration that does not load ends the process at once, and systemd*)
(* starts the next.                                                        *)
StartFails ==
    /\ proc \in {"down", "stopped"} /\ conf = "bad"
    /\ proc' = "down"
    /\ UNCHANGED <<node, loop, gauges, backend, world, since, flushed>>

(* runDaemon: Load, Setup, READY, ProbeManifest.  A manifest with an entry *)
(* without a hash parses.                                                  *)
Start ==
    /\ proc \in {"down", "stopped"} /\ conf # "bad"
    /\ proc' = "up" /\ pc' = "wait"
    /\ mode' = IF view = "missing" THEN "error" ELSE "audit"
    /\ remediate' = (conf = "enforce")
    /\ found' = {} /\ verdict' = "OK" /\ hung' = FALSE
    /\ status' = None /\ details' = FALSE /\ alive' = None /\ pending' = FALSE
    /\ since' = {} /\ flushed' = "no"
    /\ UNCHANGED <<node, backend, world>>

(* waitTick has slept an interval; RunManifest loads the manifest.         *)
LoadSkipsMissing == \* Mutant: a manifest that cannot be loaded gives no verdict
    /\ Running /\ mode = "audit" /\ pc = "wait" /\ view # "missing"
    /\ since' = {drift} /\ found' = {} /\ UNCHANGED verdict
    /\ pc' = IF view = "good" THEN "files" ELSE "malformed"
    /\ UNCHANGED <<node, proc, setting, gauges, backend, world, flushed>>
LoadKeepsFindings == \* Mutant: the deviations of the last check are kept
    /\ Running /\ mode = "audit" /\ pc = "wait"
    /\ since' = {drift}
    /\ IF view = "missing"
         THEN verdict' = "MANIFEST_NOT_FOUND" /\ pc' = "emit"
         ELSE /\ pc' = IF view = "good" THEN "files" ELSE "malformed"
              /\ UNCHANGED verdict
    /\ UNCHANGED <<node, proc, setting, found, gauges, backend, world, flushed>>

Load ==
    /\ Running /\ mode = "audit" /\ pc = "wait"
    /\ since' = {drift} /\ found' = {}
    /\ IF view = "missing"
         THEN verdict' = "MANIFEST_NOT_FOUND" /\ pc' = "emit"
         ELSE /\ pc' = IF view = "good" THEN "files" ELSE "malformed"
              /\ UNCHANGED verdict
    /\ UNCHANGED <<node, proc, setting, gauges, backend, world, flushed>>

(* The assert of checkFile panics in a worker goroutine: no deferred call  *)
(* of runDaemon runs, nothing is flushed.                                  *)
Panic ==
    /\ Running /\ pc = "malformed"
    /\ proc' = "down" /\ pc' = "none"
    /\ UNCHANGED <<node, setting, found, verdict, gauges, backend, world, since, flushed>>

(* The files are checked first, packages and services after them.          *)
CheckFiles ==
    /\ Running /\ pc = "files"
    /\ found' = found \cup (drift \cap {"file"})
    /\ pc' = "state"
    /\ UNCHANGED <<node, proc, setting, verdict, gauges, backend, world, since, flushed>>

CheckState ==
    /\ Running /\ pc = "state" /\ ~hung
    /\ found' = found \cup (drift \cap State)
    /\ verdict' = IF found' = {} THEN "OK" ELSE "DRIFT_DETECTED"
    /\ pc' = IF remediate /\ found' # {} THEN "remediate" ELSE "emit"
    /\ UNCHANGED <<node, proc, setting, gauges, backend, world, since, flushed>>

Enforces == view # "missing" /\ Privileged

RemediateInsteadOfEmit == \* Mutant: after a remediation the loop continues
    /\ Running /\ pc = "remediate" /\ ~hung
    /\ drift' = IF Enforces THEN drift \ {"fixable"} ELSE drift
    /\ since' = since \cup {drift'}
    /\ pc' = "wait"
    /\ UNCHANGED <<view, conf, proc, setting, found, verdict, gauges, backend, world, flushed>>

(* RemediatePath loads the manifest again and enforces what it then says   *)
(* of packages and services; its errors are dropped.                       *)
RemediateNode ==
    /\ Running /\ pc = "remediate" /\ ~hung
    /\ drift' = IF Enforces THEN drift \ {"fixable"} ELSE drift
    /\ since' = since \cup {drift'}
    /\ pc' = "emit"
    /\ UNCHANGED <<view, conf, proc, setting, found, verdict, gauges, backend, world, flushed>>

(* runErrorLoop: the error of the probe, again and again. *)
ErrorTick ==
    /\ Running /\ mode = "error" /\ pc = "wait"
    /\ verdict' = "CHECK_ERROR" /\ found' = {"manifest"}
    /\ pc' = "emit"
    /\ UNCHANGED <<node, proc, setting, gauges, backend, world, since, flushed>>

(* EmitCheck sets the status gauge and, while there are deviations, the    *)
(* details gauge under a label that lists them, and writes a log record.   *)
(* With a context that was cancelled meanwhile the SDK may drop the        *)
(* measurements, once it shuts down also the record, and the waitTick that *)
(* follows ends the loop.                                                  *)
AfterEmit ==
    /\ pending' = TRUE \/ (proc \in {"flushing", "flushed"} /\ UNCHANGED pending)
    /\ pc' = IF proc = "up" THEN "wait" ELSE "none"
    /\ flushed' = IF proc \in {"flushing", "flushed"} THEN "late" ELSE flushed
    /\ since' = {}
    /\ UNCHANGED <<node, proc, setting, found, verdict, alive, backend, world>>

EmitOnlyDrift == \* Mutant: a clean verdict is not recorded
    /\ Running /\ pc = "emit"
    /\ status' = IF verdict = "OK" THEN status ELSE DriftStatus(verdict)
    /\ details' = (details \/ found # {})
    /\ AfterEmit

Emit ==
    /\ Running /\ pc = "emit"
    /\ \/ /\ status' = DriftStatus(verdict)
          /\ details' = (details \/ found # {})
       \/ proc # "up" /\ UNCHANGED <<status, details>>
    /\ AfterEmit

LoopStep == Load \/ Panic \/ CheckFiles \/ CheckState \/ RemediateNode \/ ErrorTick \/ Emit

(* runHeartbeatLoop; the watchdog ping it also sends has no other effect.  *)
Beat ==
    /\ Running /\ alive # 1
    /\ alive' = 1
    /\ UNCHANGED <<node, proc, loop, status, details, pending, backend, world, since, flushed>>

-----------------------------------------------------------------------------
(* The SDK's periodic reader, with the cumulative temporality that is the  *)
(* default: a gauge goes out with its last value once it was recorded, the *)
(* details also when there are none any more.                              *)
Exported ==
    [status  |-> IF status = None THEN backend.status ELSE status,
     details |-> details, alive |-> IF alive = None THEN backend.alive ELSE alive]

Export ==
    /\ proc = "up" /\ collector = "up"
    /\ backend' = Exported
    /\ UNCHANGED <<node, proc, loop, gauges, world, since, flushed>>

(* The batch processor sends its records, or after retries drops them.     *)
ExportLogs ==
    /\ proc \in {"up", "closing"} /\ pending
    /\ pending' = FALSE
    /\ UNCHANGED <<node, proc, loop, status, details, alive, backend, world, since, flushed>>

Event == events < MaxEvents /\ events' = events + 1

(* runDaemon cancels the context.  A loop that sleeps returns, unless its  *)
(* timer has fired, too, and the select takes that; a check goes on.       *)
Signal ==
    /\ proc = "up" /\ Event /\ signals < MaxSignals
    /\ proc' = "closing" /\ signals' = signals + 1
    /\ pc' \in IF pc = "wait" THEN {"wait", "none"} ELSE {pc}
    /\ UNCHANGED <<node, setting, found, verdict, gauges, backend, collector, outages,
                   hangs, since, flushed>>

(* The deferred shutdown of the telemetry, with one time limit for both    *)
(* providers; nobody waits for the loops.                                  *)
FlushNothing == \* Mutant: the shutdown does not export once more
    /\ proc = "closing" /\ proc' = "flushing"
    /\ flushed' = "ok"
    /\ UNCHANGED <<node, loop, gauges, backend, world, since>>

FlushMetrics ==
    /\ proc = "closing" /\ proc' = "flushing"
    /\ IF collector = "up" THEN backend' = Exported /\ flushed' = "ok"
       ELSE flushed' = "failed" /\ UNCHANGED backend
    /\ UNCHANGED <<node, loop, gauges, world, since>>

FlushLogs ==
    /\ proc = "flushing" /\ proc' = "flushed"
    /\ \/ collector = "up" /\ pending' = FALSE /\ UNCHANGED flushed
       \/ /\ collector = "down" \/ flushed = "failed"
          /\ flushed' = IF flushed = "late" THEN "late" ELSE "failed"
          /\ UNCHANGED pending
    /\ UNCHANGED <<node, loop, status, details, alive, backend, world, since>>

(* main returns; the goroutines end wherever they are. *)
Exit ==
    /\ proc = "flushed"
    /\ proc' = "stopped" /\ pc' = "none"
    /\ UNCHANGED <<node, setting, found, verdict, gauges, backend, world, since, flushed>>

-----------------------------------------------------------------------------
(* Events at the node and the collector leave the daemon as it is.         *)
OnNode ==
    /\ Event
    /\ UNCHANGED <<proc, loop, gauges, backend, collector, signals, outages, hangs, flushed>>

(* The play writes the manifest, or someone takes it away. *)
ChangeManifest ==
    /\ OnNode /\ view' \in Views \ {view}
    /\ UNCHANGED <<drift, conf, since>>

(* The play writes the configuration; its handler restarts the daemon,     *)
(* which is a Signal and a Start.                                          *)
ChangeConfig ==
    /\ OnNode /\ conf' \in Configs \ {conf}
    /\ UNCHANGED <<view, drift, since>>

(* The node drifts further, or an administrator repairs it. *)
ChangeNode ==
    /\ OnNode /\ \E part \in Parts : drift' \in {drift \cup {part}, drift \ {part}} \ {drift}
    /\ since' = IF since = {} THEN {} ELSE since \cup {drift'}
    /\ UNCHANGED <<view, conf>>

(* A command of the pass fails, which nothing looks at, so that it puts    *)
(* right less; or the removal takes a declared package along.              *)
PassGoesAmiss ==
    /\ Running /\ pc = "remediate" /\ ~hung
    /\ Enforces /\ "fixable" \in drift /\ Event
    /\ drift' \in {drift, drift \cup {"unfixable"}, (drift \ {"fixable"}) \cup {"unfixable"}}
    /\ since' = since \cup {drift'}
    /\ pc' = "emit"
    /\ UNCHANGED <<view, conf, proc, setting, found, verdict, gauges, backend,
                   collector, signals, outages, hangs, flushed>>

(* A systemctl, dpkg-query or apt-get does not return, until somebody kills*)
(* it; it has no time limit, and the watchdog is fed by another goroutine. *)
Hang ==
    /\ Running /\ pc \in {"state", "remediate"} /\ ~hung
    /\ Event /\ hangs < MaxHangs
    /\ hung' = TRUE /\ hangs' = hangs + 1
    /\ UNCHANGED <<node, proc, mode, remediate, pc, found, verdict, gauges, backend,
                   collector, signals, outages, since, flushed>>
Killed ==
    /\ Running /\ hung
    /\ hung' = FALSE
    /\ UNCHANGED <<node, proc, mode, remediate, pc, found, verdict, gauges, backend,
                   world, since, flushed>>

Outage ==
    /\ collector = "up" /\ Event /\ outages < MaxOutages
    /\ collector' = "down" /\ outages' = outages + 1
    /\ UNCHANGED <<node, proc, loop, gauges, backend, signals, hangs, since, flushed>>
Recover ==
    /\ collector = "down"
    /\ collector' = "up"
    /\ UNCHANGED <<node, proc, loop, gauges, backend, bounds, since, flushed>>

Next ==
    \/ StartFails \/ Start \/ LoopStep \/ Beat
    \/ Export \/ ExportLogs \/ Signal \/ FlushMetrics \/ FlushLogs \/ Exit
    \/ ChangeManifest \/ ChangeConfig \/ ChangeNode
    \/ PassGoesAmiss \/ Hang \/ Killed \/ Outage \/ Recover

Spec == Init /\ [][Next]_vars

(* Timers fire and goroutines run; systemd starts the service after boot   *)
(* and, with Restart=on-failure, after a crash, but not after a clean exit.*)
FairSpec ==
    /\ Spec
    /\ WF_vars(LoopStep) /\ WF_vars(Beat) /\ WF_vars(Export)
    /\ WF_vars(FlushMetrics) /\ WF_vars(FlushLogs) /\ WF_vars(Exit)
    /\ WF_vars(proc = "down" /\ Start)
    /\ WF_vars(Recover)

-----------------------------------------------------------------------------
Verdicts == {"OK", "DRIFT_DETECTED", "MANIFEST_NOT_FOUND", "CHECK_ERROR"}
Labels == SUBSET (Parts \cup {"manifest"})

(* Types of the daemon's places, its gauges and what the backend holds.    *)
TypeOK ==
    /\ view \in Views /\ drift \subseteq Parts /\ conf \in Configs
    /\ proc \in {"down", "up", "closing", "flushing", "flushed", "stopped"}
    /\ mode \in {"audit", "error"}
    /\ remediate \in BOOLEAN /\ hung \in BOOLEAN /\ pending \in BOOLEAN
    /\ pc \in {"none", "wait", "malformed", "files", "state", "remediate", "emit"}
    /\ found \in Labels /\ verdict \in Verdicts
    /\ status \in {0, 1, 2, None} /\ details \in BOOLEAN /\ alive \in {1, None}
    /\ backend \in [status : {0, 1, 2, None}, details : BOOLEAN, alive : {1, None}]
    /\ collector \in {"up", "down"}
    /\ events \in 0..MaxEvents /\ signals \in 0..MaxSignals
    /\ outages \in 0..MaxOutages /\ hangs \in 0..MaxHangs
    /\ since \subseteq SUBSET Parts /\ flushed \in {"no", "ok", "failed", "late"}

(* What a check reports it saw during that check, and what it does not     *)
(* report was in order at some moment of it: the verdict emitted after a   *)
(* remediation, or long after the first of its parts was looked at, is     *)
(* still a verdict on this run and not on an earlier one.                  *)
VerdictIsOfThisCheck ==
    pc = "emit" /\ mode = "audit" /\ verdict # "MANIFEST_NOT_FOUND" =>
        \A part \in Parts :
            IF part \in found THEN \E d \in since : part \in d
            ELSE \E d \in since : part \notin d

(* "The returned shutdown flushes pending telemetry": a daemon that exits  *)
(* on a signal, be it in the middle of a check or behind a command that    *)
(* hangs, leaves its last verdict in the backend and no log record behind, *)
(* unless the collector could not be reached or the verdict came during    *)
(* the shutdown.                                                           *)
LastVerdictSurvivesExit ==
    proc = "stopped" /\ flushed = "ok" =>
        /\ status # None => backend.status = status
        /\ ~pending

Auditing == proc = "up" /\ mode = "audit" /\ view = "good" /\ ~hung

(* Lasting drift is reported: once a daemon that found a good manifest at  *)
(* its start stays up on a node with drift that stays, and its commands    *)
(* return, the backend comes to show 1 and keeps showing it, also while a  *)
(* pass at every check puts other drift right or tries to.                 *)
DriftReachesBackend ==
    \A part \in Parts :
        <>[](Auditing /\ part \in drift) => <>[](backend.status = 1)

(* And it is over when it is over, also when it is the daemon that repairs *)
(* the node, some pass of which at last goes through: the alert that a     *)
(* remediated deviation raised is withdrawn.  It is not while a file or a  *)
(* declared package differs, which no pass puts right.                     *)
RepairReachesBackend ==
    <>[](/\ Auditing
         /\ drift \cap {"file", "unfixable"} = {}
         /\ (remediate /\ Privileged) \/ drift = {})
        => <>[](backend.status = 0)

(* "Emit periodic CHECK_ERROR verdicts so backends alert instead of seeing *)
(* a silent node that never produces a drift verdict": a node whose daemon *)
(* is not stopped emits a verdict again and again, whether its manifest is *)
(* there or not.  (One with an entry that lacks its hash panics the check  *)
(* before it can say anything; a command that hangs for good holds it.)    *)
NeverSilent ==
    <>[](/\ proc \notin {"stopped", "closing", "flushing", "flushed"} /\ conf # "bad"
         /\ view # "malformed" /\ ~hung)
        => []<>(pc = "emit")

(* The error loop runs "while the manifest cannot be read": once it can be *)
(* read for good, the status is not that of the failed probe any more.     *)
ErrorEndsWithManifest ==
    <>[](proc = "up" /\ view = "good") => <>[](backend.status # 2)
=============================================================================
