----------------------------- MODULE CheckFiles -----------------------------
(***************************************************************************)
(* One file check of a node: checkFiles of internal/agent/audit/manifest.go*)
(* hands the manifest's entries, one at a time, to a bounded pool of       *)
(* goroutines over an unbuffered channel, waits for the pool and collects  *)
(* the verdicts in manifest order.  The node does not stand still: Edit is *)
(* any other process changing a tracked file at any point of the check.    *)
(***************************************************************************)
EXTENDS FileCheck, Sequences

CONSTANTS
    CPUs,        \* runtime.GOMAXPROCS(0)
    Calls,       \* the (file list, check set and fast_scan) a check may be given
    StatesOf,    \* per path, the states the file is found and left in
    MaxEdits     \* bound: edits made to the node while the check runs

ASSUME CheckFilesAssumption ==
    /\ CPUs \in Nat
    /\ Calls \subseteq Seq(Entries) \X Configs
    /\ StatesOf \in [Paths -> SUBSET FileStates]
    /\ MaxEdits \in Nat

BoundedWorkers(items) ==
    LET w == IF CPUs < 1 THEN 1 ELSE CPUs
        c == IF items < w THEN items ELSE w
    IN  IF c < 1 THEN 1 ELSE c

VARIABLES
    manifest, cfg, \* the arguments of the call
    fs,            \* the tracked files as they are now
    main,          \* where the calling goroutine is
    next,          \* the index of its send loop, then of its collect loop
    job, step,     \* per worker: the index it holds (0: none), its next step
    info, window,  \* per worker: its stat; the bytes the file had since open
    results,       \* the shared slice; Clean is Go's nil
    deviations,    \* the report: entry indices with their reason
    edits,         \* number of edits so far
    checked,       \* history: the entries whose checkFile has returned
    seen           \* history: every state each file has had during the check

vars == <<manifest, cfg, fs, main, next, job, step, info, window, results,
          deviations, edits, checked, seen>>
args == <<manifest, cfg>>
node == <<fs, edits, seen>>
caller == <<main, next, deviations>>

Workers == 1..(IF CPUs < 1 THEN 1 ELSE CPUs)
Indices == 1..Len(manifest)
Tracked == {manifest[i].path : i \in Indices}
NodeStates == UNION {StatesOf[p] : p \in Paths}
NoInfo == [kind |-> "none"]

-----------------------------------------------------------------------------
Init ==
    /\ \E call \in Calls :
          /\ manifest = call[1]
          /\ cfg = [call[2] EXCEPT !.checks = EffectiveChecks(@)]
    /\ fs \in [Paths -> NodeStates]
    /\ \A p \in Paths : fs[p] \in StatesOf[p]
    /\ \A p \in Paths \ Tracked : fs[p] = CHOOSE file \in StatesOf[p] : TRUE
    /\ main = "send" /\ next = 1
    /\ job = [w \in Workers |-> 0]
    /\ step = [w \in Workers |->
                 IF w <= BoundedWorkers(Len(manifest)) THEN "idle" ELSE "exited"]
    /\ info = [w \in Workers |-> NoInfo]
    /\ window = [w \in Workers |-> {}]
    /\ results = [i \in Indices |-> Clean]
    /\ deviations = <<>>
    /\ edits = 0 /\ checked = {}
    /\ seen = [p \in Paths |-> {fs[p]}]

(* jobs <- job{i, files[i]}: the channel is unbuffered, so the send is the *)
(* receive of a worker that is waiting in its range loop.                  *)
SendOneTooMany(w) == \* Mutant: the loop bound is off by one
    /\ main = "send" /\ next <= Len(manifest) + 1
    /\ step[w] = "idle"
    /\ job' = [job EXCEPT ![w] = next]
    /\ step' = [step EXCEPT ![w] = "stat"]
    /\ next' = next + 1
    /\ UNCHANGED <<args, node, main, deviations, info, window, results, checked>>

Send(w) ==
    /\ main = "send" /\ next <= Len(manifest)
    /\ step[w] = "idle"
    /\ job' = [job EXCEPT ![w] = next]
    /\ step' = [step EXCEPT ![w] = "stat"]
    /\ next' = next + 1
    /\ UNCHANGED <<args, node, main, deviations, info, window, results, checked>>

Close ==
    /\ main = "send" /\ next > Len(manifest)
    /\ main' = "wait"
    /\ UNCHANGED <<args, node, next, deviations, job, step, info, window, results, checked>>

(* The range loop of a worker ends once the channel is closed and drained. *)
Exit(w) ==
    /\ main = "wait" /\ step[w] = "idle"
    /\ step' = [step EXCEPT ![w] = "exited"]
    /\ UNCHANGED <<args, node, caller, job, info, window, results, checked>>

(* results[j.idx] = v, and back to the range loop. *)
Return(w, v) ==
    /\ results' = [results EXCEPT ![job[w]] = v]
    /\ checked' = checked \cup {job[w]}
    /\ job' = [job EXCEPT ![w] = 0]
    /\ step' = [step EXCEPT ![w] = "idle"]
    /\ info' = [info EXCEPT ![w] = NoInfo]
    /\ window' = [window EXCEPT ![w] = {}]

Held(w) == manifest[job[w]]

(* A goroutine that panics takes the whole process down.                   *)
Panic(w) ==
    /\ main # "panicked" /\ step[w] = "stat" /\ ~WellFormed(Held(w))
    /\ main' = "panicked"
    /\ UNCHANGED <<args, node, next, deviations, job, step, info, window, results, checked>>

Stat(w) ==
    /\ main # "panicked" /\ step[w] = "stat" /\ WellFormed(Held(w))
    /\ LET st == StatOf(fs[Held(w).path])
           v  == StatVerdict(Held(w), cfg, st)
       IN  IF v = "hash"
             THEN /\ step' = [step EXCEPT ![w] = "open"]
                  /\ info' = [info EXCEPT ![w] = st]
                  /\ UNCHANGED <<job, window, results, checked>>
             ELSE Return(w, v)
    /\ UNCHANGED <<args, node, caller>>

(* os.Open, or the first read of a directory: failures are "unreadable".   *)
OpenRetries(w) == \* Mutant: a file that cannot be opened is tried again
    /\ main # "panicked" /\ step[w] = "open"
    /\ LET file == fs[Held(w).path]
       IN  IF file.kind = "regular"
             THEN /\ step' = [step EXCEPT ![w] = "read"]
                  /\ window' = [window EXCEPT ![w] = {file.content}]
                  /\ UNCHANGED <<job, info, results, checked>>
             ELSE /\ step' = [step EXCEPT ![w] = "stat"]
                  /\ UNCHANGED <<job, info, window, results, checked>>
    /\ UNCHANGED <<args, node, caller>>

Open(w) ==
    /\ main # "panicked" /\ step[w] = "open"
    /\ LET file == fs[Held(w).path]
       IN  IF file.kind = "regular"
             THEN /\ step' = [step EXCEPT ![w] = "read"]
                  /\ window' = [window EXCEPT ![w] = {file.content}]
                  /\ UNCHANGED <<job, info, results, checked>>
             ELSE Return(w, "unreadable")
    /\ UNCHANGED <<args, node, caller>>

(* The file is read in chunks of 32 KiB.  If it was written meanwhile the  *)
(* hash is that of one of the versions, or of a mixture of them.           *)
Read(w) ==
    /\ main # "panicked" /\ step[w] = "read"
    /\ \E bytes \in window[w] \cup
                    (IF \E a, b \in window[w] : a # b THEN {Torn} ELSE {}) :
          Return(w, HashVerdict(Held(w), cfg, info[w], Digest(bytes)))
    /\ UNCHANGED <<args, node, caller>>

(* wg.Wait returns once every worker has called wg.Done.                   *)
WaitForNobody == \* Mutant: wg.Add runs in the goroutine, so wg.Wait returns early
    /\ main = "wait"
    /\ main' = "collect" /\ next' = 1
    /\ UNCHANGED <<args, node, deviations, job, step, info, window, results, checked>>

Wait ==
    /\ main = "wait"
    /\ \A w \in Workers : step[w] = "exited"
    /\ main' = "collect" /\ next' = 1
    /\ UNCHANGED <<args, node, deviations, job, step, info, window, results, checked>>

CollectReversed == \* Mutant: a later deviation is put before the earlier ones
    /\ main = "collect" /\ next <= Len(manifest)
    /\ deviations' = IF results[next] = Clean THEN deviations
                     ELSE <<[entry |-> next, reason |-> results[next]]>> \o deviations
    /\ next' = next + 1
    /\ UNCHANGED <<args, node, main, job, step, info, window, results, checked>>

Collect ==
    /\ main = "collect" /\ next <= Len(manifest)
    /\ deviations' = IF results[next] = Clean THEN deviations
                     ELSE Append(deviations, [entry |-> next, reason |-> results[next]])
    /\ next' = next + 1
    /\ UNCHANGED <<args, node, main, job, step, info, window, results, checked>>

FinishBeforeLast == \* Mutant: the last slot of results is never looked at
    /\ main = "collect" /\ next >= Len(manifest)
    /\ main' = "done"
    /\ UNCHANGED <<args, node, next, deviations, job, step, info, window, results, checked>>

Finish ==
    /\ main = "collect" /\ next > Len(manifest)
    /\ main' = "done"
    /\ UNCHANGED <<args, node, next, deviations, job, step, info, window, results, checked>>

(* Another process of the node replaces, rewrites or removes a file.  A    *)
(* worker that has the file open may see the new bytes (write in place) or *)
(* not (rename over it).                                                   *)
Edit(p) ==
    /\ edits < MaxEdits /\ main \in {"send", "wait"}
    /\ p \in Tracked
    /\ \E file \in StatesOf[p] \ {fs[p]} :
          /\ fs' = [fs EXCEPT ![p] = file]
          /\ seen' = [seen EXCEPT ![p] = @ \cup {file}]
          /\ window' = [w \in Workers |->
                          IF step[w] = "read" /\ Held(w).path = p /\ ~Gone(file)
                            THEN window[w] \cup {file.content}
                            ELSE window[w]]
    /\ edits' = edits + 1
    /\ UNCHANGED <<args, caller, job, step, info, results, checked>>

Terminating == main \in {"done", "panicked"} /\ UNCHANGED vars

WorkerStep(w) == Exit(w) \/ Panic(w) \/ Stat(w) \/ Open(w) \/ Read(w)
CallerStep == Close \/ Wait \/ Collect \/ Finish \/ \E w \in Workers : Send(w)

Next ==
    \/ CallerStep
    \/ \E w \in Workers : WorkerStep(w)
    \/ \E p \in Paths : Edit(p)
    \/ Terminating

Spec == Init /\ [][Next]_vars

(* The Go scheduler runs every goroutine that is not blocked.              *)
FairSpec ==
    Spec /\ WF_vars(CallerStep) /\ \A w \in Workers : WF_vars(WorkerStep(w))

-----------------------------------------------------------------------------
(* Types of the slice of results, of the caller's and each worker's place  *)
(* and of what a worker has read of its file.                              *)
TypeOK ==
    /\ manifest \in Seq(Entries) /\ cfg \in Configs
    /\ fs \in [Paths -> NodeStates]
    /\ main \in {"send", "wait", "collect", "done", "panicked"}
    /\ next \in 1..(Len(manifest) + 1)
    /\ job \in [Workers -> 0..Len(manifest)]
    /\ step \in [Workers -> {"idle", "stat", "open", "read", "exited"}]
    /\ info \in [Workers -> Infos \cup {NoInfo}]
    /\ window \in [Workers -> SUBSET Contents]
    /\ results \in [Indices -> Verdicts]
    /\ deviations \in Seq([entry : Indices, reason : Reasons])
    /\ edits \in 0..MaxEdits
    /\ checked \subseteq Indices
    /\ seen \in [Paths -> SUBSET NodeStates]

(* A slot of results starts as nil, which is also "clean": a report built  *)
(* before the last worker returned would call an unchecked file clean.     *)
(* Collection starts only when every entry was judged and nobody holds one.*)
EveryEntryJudged ==
    main \in {"collect", "done"} =>
        checked = Indices /\ \A w \in Workers : job[w] = 0

(* The report is the deviating entries, each once with its own reason, in  *)
(* manifest order, in whatever order the workers finished.                 *)
ReportInOrder ==
    main \in {"collect", "done"} =>
        /\ \A a, b \in DOMAIN deviations :
              a < b => deviations[a].entry < deviations[b].entry
        /\ \A a \in DOMAIN deviations :
              deviations[a].reason = results[deviations[a].entry]
        /\ \A i \in Indices : i < next /\ results[i] # Clean =>
              \E a \in DOMAIN deviations : deviations[a].entry = i

(* A file that departs from its entry in one attribute for as long as the  *)
(* check lasts is reported, whatever else happens to it between the stat   *)
(* and the end of the hash.  fast_scan gives this up only for what reading *)
(* would show, and only for a file with the recorded size and mtime.       *)
PersistentDriftReported ==
    \A i \in checked :
        LET f == manifest[i] IN
        (\E a \in Attributes :
            /\ \A file \in seen[f.path] : DepartsIn(a, f, cfg, file)
            /\ a \in {"access", "content", "size"} =>
                  ~\E file \in seen[f.path] : TrustedByStat(f, cfg, file))
        => results[i] # Clean

(* Nothing is reported unless the file departed from its entry at some     *)
(* moment of the check: a race of the check with a process that leaves the *)
(* recorded file in place all along cannot raise an alarm.                 *)
NoFalseAlarm ==
    \A i \in checked : results[i] # Clean =>
        \E file \in seen[manifest[i].path] : Departs(manifest[i], cfg, file)

(* The hash is compared before the size, so on an entry whose size is that *)
(* of its bytes "size_mismatch" is never about the file as it stands: the  *)
(* size is the stat's, and the file changed between the stat and the hash. *)
SizeMismatchOnlyRaces ==
    \A i \in checked :
        results[i] = "size_mismatch" /\ Consistent(manifest[i]) =>
            \E s, t \in seen[manifest[i].path] : s # t

(* The check ends, or the process panicked on a malformed entry: neither   *)
(* the unbuffered channel nor the wait group can block it for good.        *)
Termination == <>(main \in {"done", "panicked"})

(* The pool implements the report a sequential check would promise.        *)
Promise == INSTANCE FileVerdicts WITH
    size <- Len(manifest),
    judged <- [i \in Indices |-> IF i \in checked THEN results[i] ELSE "pending"],
    report <- IF main = "done" THEN deviations ELSE <<>>,
    published <- main = "done"

(* Every entry is judged once, by no more than one worker, its verdict is  *)
(* final, and the report is published once, from all verdicts.             *)
ImplementsPromise == Promise!Spec
=============================================================================
