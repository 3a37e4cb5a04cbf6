---------------------------- MODULE DaemonProofs ----------------------------
(***************************************************************************)
(* What Daemon promises without fairness, for any manifest, configuration, *)
(* rights and any number of events: its types, the verdict that is of this *)
(* check, and the last verdict that survives a shutdown.                   *)
(***************************************************************************)
EXTENDS Daemon, TLAPS

LEMMA InitType == Init => TypeOK
<1> SUFFICES ASSUME Init PROVE TypeOK
  OBVIOUS
<1>1. /\ remediate \in BOOLEAN /\ hung \in BOOLEAN
      /\ pending \in BOOLEAN /\ details \in BOOLEAN
  BY Zenon DEF Init
<1>2. backend \in [status : {0, 1, 2, None}, details : BOOLEAN, alive : {1, None}]
  BY DEF Init, Labels
<1>3. events \in 0..MaxEvents /\ signals \in 0..MaxSignals
      /\ outages \in 0..MaxOutages /\ hangs \in 0..MaxHangs
  BY DaemonAssumption DEF Init
<1> QED
  BY <1>1, <1>2, <1>3, DaemonAssumption DEF Init, TypeOK, Verdicts, Labels

(* The gauge has one of the three documented values, whatever the verdict. *)
LEMMA StatusValues == \A result : DriftStatus(result) \in {0, 1, 2}
BY DEF DriftStatus

LEMMA ExportedType ==
    ASSUME TypeOK
    PROVE  Exported \in [status : {0, 1, 2, None}, details : BOOLEAN, alive : {1, None}]
BY DEF TypeOK, Exported, None

(* The steps that leave both the node and the daemon's loop as they are.   *)
Telemetry == Beat \/ Export \/ ExportLogs \/ FlushMetrics \/ FlushLogs

LEMMA LoopType ==
    ASSUME TypeOK, LoopStep
    PROVE  TypeOK'
<1> USE DEF TypeOK, Running, node, setting, gauges, world, bounds
<1>1. CASE Load
  BY <1>1 DEF Load, Labels, Verdicts
<1>2. CASE Panic
  BY <1>2 DEF Panic
<1>3. CASE CheckFiles
  BY <1>3 DEF CheckFiles, Labels, Parts, State
<1>4. CASE CheckState
  BY <1>4 DEF CheckState, Labels, Parts, State, Verdicts
<1>5. CASE RemediateNode
  BY <1>5 DEF RemediateNode, Parts
<1>6. CASE ErrorTick
  BY <1>6 DEF ErrorTick, Labels, Verdicts
<1>7. CASE Emit
  <2>1. status' \in {0, 1, 2, None}
    BY <1>7, StatusValues DEF Emit
  <2>2. details' \in BOOLEAN
    <3>1. details' = (details \/ found # {}) \/ details' = details
      BY <1>7, Zenon DEF Emit
    <3> QED
      BY <3>1
  <2>3. pc' \in {"none", "wait"} /\ pending' \in BOOLEAN
        /\ flushed' \in {"no", "ok", "failed", "late"}
    BY <1>7 DEF Emit, AfterEmit
  <2> QED
    BY <1>7, <2>1, <2>2, <2>3 DEF Emit, AfterEmit
<1> QED
  BY <1>1, <1>2, <1>3, <1>4, <1>5, <1>6, <1>7 DEF LoopStep

LEMMA TelemetryType ==
    ASSUME TypeOK, Telemetry
    PROVE  TypeOK'
<1> USE DEF TypeOK, node, setting, loop, gauges, world, bounds
<1>1. CASE Beat
  BY <1>1 DEF Beat
<1>2. CASE Export
  BY <1>2, ExportedType DEF Export
<1>3. CASE ExportLogs
  <2>1. pending' \in BOOLEAN
    BY <1>3, Zenon DEF ExportLogs
  <2> QED
    BY <1>3, <2>1 DEF ExportLogs
<1>4. CASE FlushMetrics
  BY <1>4, ExportedType DEF FlushMetrics
<1>5. CASE FlushLogs
  <2>1. pending' \in BOOLEAN
    BY <1>5, Zenon DEF FlushLogs
  <2>2. proc' = "flushed" /\ flushed' \in {"no", "ok", "failed", "late"}
    BY <1>5 DEF FlushLogs
  <2> QED
    BY <1>5, <2>1, <2>2 DEF FlushLogs
<1> QED
  BY <1>1, <1>2, <1>3, <1>4, <1>5 DEF Telemetry

LEMMA EventCounts ==
    ASSUME TypeOK, Event
    PROVE  events' \in 0..MaxEvents
BY DaemonAssumption DEF TypeOK, Event

LEMMA OthersType ==
    ASSUME TypeOK,
           \/ StartFails \/ Start \/ Signal \/ Exit
           \/ ChangeManifest \/ ChangeConfig \/ ChangeNode \/ PassGoesAmiss \/ Hang \/ Killed
           \/ Outage \/ Recover
    PROVE  TypeOK'
<1> USE DEF TypeOK, node, setting, loop, gauges, world, bounds
<1>1. CASE StartFails \/ Start
  <2>1. /\ remediate' \in BOOLEAN /\ hung' \in BOOLEAN
        /\ pending' \in BOOLEAN /\ details' \in BOOLEAN
    <3>1. CASE StartFails
      BY <3>1, Zenon DEF StartFails
    <3>2. CASE Start
      BY <3>2, Zenon DEF Start
    <3> QED
      BY <1>1, <3>1, <3>2
  <2>2. mode' \in {"audit", "error"}
    BY <1>1 DEF StartFails, Start
  <2> QED
    BY <1>1, <2>1, <2>2 DEF StartFails, Start, Labels, Verdicts
<1>2. CASE Signal
  BY <1>2, EventCounts, DaemonAssumption DEF Signal
<1>3. CASE Exit
  BY <1>3 DEF Exit
<1>4. CASE ChangeManifest \/ ChangeConfig
  BY <1>4, EventCounts DEF ChangeManifest, ChangeConfig, OnNode
<1>5. CASE ChangeNode
  <2>1. drift' \in SUBSET Parts /\ since' \subseteq SUBSET Parts
    BY <1>5 DEF ChangeNode
  <2> QED
    BY <1>5, <2>1, EventCounts DEF ChangeNode, OnNode
<1>6. CASE Hang
  BY <1>6, EventCounts, DaemonAssumption DEF Hang
<1>7. CASE Killed \/ Recover
  <2>1. hung' \in BOOLEAN
    <3>1. CASE Killed
      BY <3>1, Zenon DEF Killed
    <3>2. CASE Recover
      BY <3>2, Zenon DEF Recover
    <3> QED
      BY <1>7, <3>1, <3>2
  <2> QED
    BY <1>7, <2>1 DEF Killed, Recover
<1>8. CASE Outage
  BY <1>8, EventCounts, DaemonAssumption DEF Outage
<1>9. CASE PassGoesAmiss
  <2>1. drift' \in SUBSET Parts /\ since' \subseteq SUBSET Parts
    BY <1>9 DEF PassGoesAmiss, Parts, State
  <2> QED
    BY <1>9, <2>1, EventCounts DEF PassGoesAmiss
<1> QED
  BY <1>1, <1>2, <1>3, <1>4, <1>5, <1>6, <1>7, <1>8, <1>9

LEMMA NextType == TypeOK /\ [Next]_vars => TypeOK'
<1> SUFFICES ASSUME TypeOK, [Next]_vars PROVE TypeOK'
  OBVIOUS
<1>1. CASE Next
  BY <1>1, LoopType, TelemetryType, OthersType DEF Next, Telemetry
<1>2. CASE UNCHANGED vars
  BY <1>2 DEF vars, TypeOK, node, loop, setting, gauges, world, bounds
<1> QED
  BY <1>1, <1>2

(* Type correctness: the status gauge only ever has one of the documented  *)
(* values, whatever the loops, the shutdown and the node do.               *)
THEOREM DaemonTypes == Spec => []TypeOK
BY InitType, NextType, PTL DEF Spec

-----------------------------------------------------------------------------
(* What the audit loop has found about a part, the node was in at a moment *)
(* of the check.                                                           *)
Witnessed(part) == IF part \in found THEN \E d \in since : part \in d
                   ELSE \E d \in since : part \notin d

(* While a check of a manifest is under way, its history has the present   *)
(* drift, and its findings are witnessed as far as it has come.            *)
Checking == mode = "audit" /\ (pc \in {"files", "state", "remediate"}
                               \/ (pc = "emit" /\ verdict # "MANIFEST_NOT_FOUND"))
CheckInv ==
    Checking =>
        /\ drift \in since
        /\ pc = "files" => found = {}
        /\ pc # "files" => Witnessed("file")
        /\ pc = "state" => found \cap State = {}
        /\ pc \in {"remediate", "emit"} => \A part \in State : Witnessed(part)

LEMMA InitCheck == Init => CheckInv
BY DEF Init, CheckInv, Checking

(* More history witnesses no less. *)
LEMMA WitnessKept ==
    ASSUME NEW part, Witnessed(part), found' = found, since \subseteq since'
    PROVE  Witnessed(part)'
BY DEF Witnessed

LEMMA LoopCheck ==
    ASSUME TypeOK, CheckInv, LoopStep
    PROVE  CheckInv'
<1>1. CASE Load
  BY <1>1 DEF Load, CheckInv, Checking, node, setting
<1>2. CASE Panic
  BY <1>2 DEF Panic, CheckInv, Checking
<1>3. CASE CheckFiles
  <2>1. pc' = "state" /\ found' = found \cup (drift \cap {"file"})
        /\ UNCHANGED <<drift, mode, since>>
    BY <1>3 DEF CheckFiles, node, setting
  <2>2. mode = "audit" => drift \in since /\ found = {}
    BY <1>3 DEF CheckFiles, CheckInv, Checking
  <2> QED
    BY <2>1, <2>2 DEF CheckInv, Checking, Witnessed, State
<1>4. CASE CheckState
  <2>1. pc' \in {"remediate", "emit"} /\ found' = found \cup (drift \cap State)
        /\ UNCHANGED <<drift, mode, since>>
    BY <1>4 DEF CheckState, node, setting
  <2>2. mode = "audit" => drift \in since /\ Witnessed("file") /\ found \cap State = {}
    BY <1>4 DEF CheckState, CheckInv, Checking
  <2>3. mode = "audit" => Witnessed("file")' /\ \A part \in State : Witnessed(part)'
    BY <2>1, <2>2 DEF Witnessed, State
  <2> QED
    BY <2>1, <2>2, <2>3 DEF CheckInv, Checking
<1>5. CASE RemediateNode
  <2>1. pc = "remediate" /\ pc' = "emit" /\ since' = since \cup {drift'}
        /\ UNCHANGED <<found, mode>>
    BY <1>5 DEF RemediateNode, setting
  <2>2. mode = "audit" => Witnessed("file") /\ \A part \in State : Witnessed(part)
    BY <2>1 DEF CheckInv, Checking
  <2> QED
    BY <2>1, <2>2, WitnessKept DEF CheckInv, Checking
<1>6. CASE ErrorTick
  BY <1>6 DEF ErrorTick, CheckInv, Checking, setting
<1>7. CASE Emit
  BY <1>7 DEF Emit, AfterEmit, CheckInv, Checking
<1> QED
  BY <1>1, <1>2, <1>3, <1>4, <1>5, <1>6, <1>7 DEF LoopStep

LEMMA OthersCheck ==
    ASSUME TypeOK, CheckInv, [Next]_vars, ~LoopStep
    PROVE  CheckInv'
<1>1. CASE Start \/ Exit
  BY <1>1 DEF Start, Exit, CheckInv, Checking
<1>2. CASE ChangeNode
  <2>1. UNCHANGED <<mode, pc, verdict, found>>
        /\ since' = IF since = {} THEN {} ELSE since \cup {drift'}
    BY <1>2 DEF ChangeNode, OnNode, loop, setting
  <2>2. Checking => since # {}
    BY DEF CheckInv
  <2>3. Checking => drift' \in since' /\ since \subseteq since'
    BY <2>1, <2>2
  <2> QED
    BY <2>1, <2>3, WitnessKept DEF CheckInv, Checking
<1>3. CASE Signal
  <2>1. UNCHANGED <<drift, since, mode, verdict, found>>
        /\ (pc' = pc \/ pc' \in {"wait", "none"})
    BY <1>3 DEF Signal, node, setting
  <2> QED
    BY <2>1 DEF CheckInv, Checking, Witnessed
<1>4. ASSUME UNCHANGED <<drift, since, mode, verdict, found, pc>>
      PROVE  CheckInv'
  BY <1>4 DEF CheckInv, Checking, Witnessed
<1>5. CASE StartFails \/ Beat \/ Export \/ ExportLogs \/ FlushMetrics \/ FlushLogs
  BY <1>5, <1>4 DEF StartFails, Beat, Export, ExportLogs, FlushMetrics, FlushLogs,
                    node, loop, setting
<1>6. CASE ChangeManifest \/ ChangeConfig \/ Hang \/ Killed \/ Outage \/ Recover
  BY <1>6, <1>4 DEF ChangeManifest, ChangeConfig, Hang, Killed, Outage, Recover, OnNode,
                    node, loop, setting
<1>7. CASE UNCHANGED vars
  BY <1>7, <1>4 DEF vars, node, loop, setting
<1>8. CASE PassGoesAmiss
  <2>1. pc = "remediate" /\ pc' = "emit" /\ since' = since \cup {drift'}
        /\ UNCHANGED <<found, mode>>
    BY <1>8 DEF PassGoesAmiss, setting
  <2>2. mode = "audit" => Witnessed("file") /\ \A part \in State : Witnessed(part)
    BY <2>1 DEF CheckInv, Checking
  <2> QED
    BY <2>1, <2>2, WitnessKept DEF CheckInv, Checking
<1> QED
  BY <1>1, <1>2, <1>3, <1>5, <1>6, <1>7, <1>8 DEF Next

(* What the daemon reports of a check it saw during that check, and what   *)
(* it does not report was in order at some moment of it, whatever changes  *)
(* between the parts of the check and whether or not a pass came after.    *)
THEOREM VerdictsAreCurrent == Spec => []VerdictIsOfThisCheck
<1>1. TypeOK /\ CheckInv /\ [Next]_vars => CheckInv'
  BY LoopCheck, OthersCheck
<1>2. CheckInv => VerdictIsOfThisCheck
  BY DEF CheckInv, Checking, Witnessed, VerdictIsOfThisCheck, Parts, State
<1> QED
  BY InitCheck, DaemonTypes, <1>1, <1>2, PTL DEF Spec

-----------------------------------------------------------------------------
(* How far the shutdown has come: the metrics are out, then the records;   *)
(* what is emitted meanwhile makes it "late".                              *)
FlushInv ==
    flushed = "ok" =>
        /\ proc \in {"flushing", "flushed", "stopped"} /\ status # None
             => backend.status = status
        /\ proc \in {"flushed", "stopped"} => ~pending

LEMMA InitFlush == Init => FlushInv
BY DEF Init, FlushInv

LEMMA NextFlush ==
    ASSUME TypeOK, FlushInv, [Next]_vars
    PROVE  FlushInv'
<1> USE DEF node, setting, loop, gauges, world, bounds
<1>1. ASSUME flushed' = "ok" => flushed = "ok",
             proc' \in {"flushing", "flushed", "stopped"} => proc' = proc,
             UNCHANGED <<status, pending, backend>>
      PROVE  FlushInv'
  BY <1>1 DEF FlushInv
<1>2. CASE LoopStep
  <2>1. CASE Emit
    BY <2>1, <1>1 DEF Emit, AfterEmit, Running, FlushInv
  <2>2. CASE Load \/ Panic \/ CheckFiles \/ CheckState \/ RemediateNode \/ ErrorTick
    BY <2>2, <1>1 DEF Load, Panic, CheckFiles, CheckState, RemediateNode, ErrorTick
  <2> QED
    BY <1>2, <2>1, <2>2 DEF LoopStep
<1>3. CASE FlushMetrics
  <2>1. proc' = "flushing" /\ UNCHANGED status
        /\ (flushed' = "ok" => backend' = Exported)
    BY <1>3 DEF FlushMetrics
  <2>2. status # None => Exported.status = status
    BY DEF Exported
  <2> QED
    BY <2>1, <2>2 DEF FlushInv
<1>4. CASE FlushLogs
  <2>1. proc = "flushing" /\ proc' = "flushed" /\ UNCHANGED <<status, backend>>
        /\ (flushed' = "ok" => flushed = "ok" /\ pending' = FALSE)
    BY <1>4 DEF FlushLogs
  <2> QED
    BY <2>1 DEF FlushInv
<1>5. CASE Exit
  BY <1>5 DEF Exit, FlushInv
<1>6. CASE Export \/ ExportLogs
  BY <1>6 DEF Export, ExportLogs, FlushInv
<1>7. CASE Beat \/ StartFails \/ Start \/ Signal
  BY <1>7, <1>1 DEF Beat, StartFails, Start, Signal, FlushInv
<1>8. CASE ChangeManifest \/ ChangeConfig \/ ChangeNode \/ PassGoesAmiss
           \/ Hang \/ Killed \/ Outage \/ Recover \/ UNCHANGED vars
  BY <1>8, <1>1 DEF ChangeManifest, ChangeConfig, ChangeNode, PassGoesAmiss, Hang, Killed,
                    Outage, Recover, OnNode, vars
<1> QED
  BY <1>2, <1>3, <1>4, <1>5, <1>6, <1>7, <1>8 DEF Next

(* A daemon that exits on a signal with a flush that succeeded leaves its  *)
(* last verdict in the backend and no record behind, wherever its loop     *)
(* was when the signal came.                                               *)
THEOREM ShutdownKeepsVerdict == Spec => []LastVerdictSurvivesExit
<1>1. TypeOK /\ FlushInv /\ [Next]_vars => FlushInv'
  BY NextFlush
<1>2. FlushInv => LastVerdictSurvivesExit
  BY DEF FlushInv, LastVerdictSurvivesExit
<1> QED
  BY InitFlush, DaemonTypes, <1>1, <1>2, PTL DEF Spec
=============================================================================
