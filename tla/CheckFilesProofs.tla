-------------------------- MODULE CheckFilesProofs --------------------------
(***************************************************************************)
(* Theorems about CheckFiles, for every manifest, configuration, number of *)
(* CPUs, set of file states and number of edits: the pool of workers       *)
(* (PoolInv), the promise it keeps, and what its verdicts mean while the   *)
(* node changes (RaceInv).                                                 *)
(***************************************************************************)
EXTENDS CheckFiles, TLAPS

-----------------------------------------------------------------------------
(* What the helpers return. *)

LEMMA NodeStatesType == NodeStates \subseteq FileStates
BY CheckFilesAssumption DEF CheckFilesAssumption, NodeStates

LEMMA StatOfType ==
    ASSUME NEW file \in NodeStates
    PROVE  StatOf(file) \in Infos
BY FileDataAssumption, NodeStatesType
   DEF FileDataAssumption, StatOf, Infos, FileStates

LEMMA StatVerdictType ==
    ASSUME NEW f, NEW c, NEW i
    PROVE  StatVerdict(f, c, i) \in Verdicts \cup {"hash"}
BY DEF StatVerdict, Verdicts, Reasons, Clean

LEMMA HashVerdictType ==
    ASSUME NEW f, NEW c, NEW i, NEW got
    PROVE  HashVerdict(f, c, i, got) \in Verdicts
BY DEF HashVerdict, Verdicts, Reasons, Clean

LEMMA ReasonsAreNotClean == Clean \notin Reasons /\ "pending" \notin Verdicts
                            /\ "hash" \notin Verdicts
BY DEF Verdicts, Reasons, Clean

LEMMA EffectiveChecksType ==
    ASSUME NEW c \in Configs
    PROVE  [c EXCEPT !.checks = EffectiveChecks(@)] \in Configs
BY DEF Configs, EffectiveChecks, DefaultCheckSet, CheckNames

-----------------------------------------------------------------------------
(***************************************************************************)
(* The pool.  Holding is what makes EveryEntryJudged inductive: an entry   *)
(* that left the send loop is either judged or in the hands of exactly one *)
(* worker, and a worker that has exited holds nothing.                     *)
(***************************************************************************)
Busy(w) == step[w] \in {"stat", "open", "read"}

Holding ==
    /\ \A w \in Workers : Busy(w) <=> job[w] # 0
    /\ \A w, v \in Workers : w # v /\ job[w] # 0 => job[w] # job[v]
    /\ \A w \in Workers : job[w] \notin checked
    /\ main # "panicked" =>
          \A i \in Indices :
             (i \in checked \/ \E w \in Workers : job[w] = i)
             <=> (main = "send" => i < next)
    /\ main \in {"collect", "done"} => \A w \in Workers : step[w] = "exited"

PoolInv == TypeOK /\ Holding

LEMMA ElementOfSeq ==
    ASSUME NEW S, NEW q \in Seq(S), NEW k \in DOMAIN q
    PROVE  q[k] \in S
OBVIOUS

LEMMA ManifestType ==
    ASSUME manifest \in Seq(Entries)
    PROVE  Len(manifest) \in Nat /\ \A i \in Indices : manifest[i] \in Entries
BY DEF Indices

LEMMA PoolInit == Init => PoolInv
<1> SUFFICES ASSUME Init PROVE PoolInv
  OBVIOUS
<1>1. manifest \in Seq(Entries) /\ Len(manifest) \in Nat
  BY ManifestType, CheckFilesAssumption DEF Init, CheckFilesAssumption
<1>2. cfg \in Configs
  BY EffectiveChecksType, CheckFilesAssumption DEF Init, CheckFilesAssumption
<1>3. TypeOK
  <2>1. fs \in [Paths -> NodeStates] /\ seen \in [Paths -> SUBSET NodeStates]
    BY DEF Init
  <2>2. /\ job \in [Workers -> 0..Len(manifest)]
        /\ step \in [Workers -> {"idle", "stat", "open", "read", "exited"}]
        /\ info \in [Workers -> Infos \cup {NoInfo}]
        /\ window \in [Workers -> SUBSET Contents]
    BY <1>1 DEF Init
  <2>3. next \in 1..(Len(manifest) + 1) /\ edits \in 0..MaxEdits
    BY <1>1, CheckFilesAssumption DEF Init, CheckFilesAssumption
  <2>4. results \in [Indices -> Verdicts]
    BY DEF Init, Verdicts, Clean
  <2> QED
    BY <1>1, <1>2, <2>1, <2>2, <2>3, <2>4 DEF Init, TypeOK
<1>4. Holding
  BY <1>1 DEF Init, Holding, Busy, Indices
<1> QED
  BY <1>3, <1>4 DEF PoolInv

(* A worker's checkFile returns v: the part common to Stat, Open and Read. *)
LEMMA ReturnKeepsPool ==
    ASSUME PoolInv, NEW w \in Workers, NEW v \in Verdicts,
           Busy(w), main # "panicked", Return(w, v),
           UNCHANGED <<args, node, caller>>
    PROVE  PoolInv'
<1> USE DEF args, node, caller
<1>1. Len(manifest) \in Nat /\ job[w] \in Indices
  BY ManifestType DEF PoolInv, TypeOK, Holding, Indices
<1>2. main \in {"send", "wait"}
  BY DEF PoolInv, TypeOK, Holding, Busy
<1>3. TypeOK'
  <2>1. /\ job' \in [Workers -> 0..Len(manifest)]
        /\ step' \in [Workers -> {"idle", "stat", "open", "read", "exited"}]
    BY <1>1 DEF PoolInv, TypeOK, Return
  <2>2. /\ info' \in [Workers -> Infos \cup {NoInfo}]
        /\ window' \in [Workers -> SUBSET Contents]
    BY DEF PoolInv, TypeOK, Return
  <2>3. results' \in [Indices -> Verdicts] /\ checked' \subseteq Indices
    BY <1>1 DEF PoolInv, TypeOK, Return
  <2> QED
    BY <2>1, <2>2, <2>3 DEF PoolInv, TypeOK, Indices
<1>4. Holding'
  <2>1. (\A u \in Workers : Busy(u) <=> job[u] # 0)'
    BY <1>1 DEF PoolInv, TypeOK, Holding, Return, Indices, Busy
  <2>2. (\A u, x \in Workers : u # x /\ job[u] # 0 => job[u] # job[x])'
    BY <1>1 DEF PoolInv, TypeOK, Holding, Return, Indices
  <2>3. (\A u \in Workers : job[u] \notin checked)'
    BY <1>1 DEF PoolInv, TypeOK, Holding, Return, Indices
  <2>4. ASSUME NEW i \in Indices
        PROVE  (i \in checked' \/ \E u \in Workers : job'[u] = i)
               <=> (i \in checked \/ \E u \in Workers : job[u] = i)
    BY <1>1 DEF PoolInv, TypeOK, Return, Indices
  <2>5. (main # "panicked" =>
          \A i \in Indices :
             (i \in checked \/ \E u \in Workers : job[u] = i)
             <=> (main = "send" => i < next))'
    BY <2>4 DEF PoolInv, Holding, Indices
  <2> QED
    BY <2>1, <2>2, <2>3, <2>5, <1>2 DEF Holding
<1> QED
  BY <1>3, <1>4 DEF PoolInv

LEMMA PoolStep == PoolInv /\ [Next]_vars => PoolInv'
<1> SUFFICES ASSUME PoolInv, [Next]_vars PROVE PoolInv'
  OBVIOUS
<1> USE DEF PoolInv
<1>0. Len(manifest) \in Nat
  BY ManifestType DEF TypeOK
<1>1. ASSUME NEW w \in Workers, Send(w) PROVE PoolInv'
  <2> USE <1>1 DEF Send, args, node
  <2>0. next \in Nat /\ next >= 1 /\ next <= Len(manifest)
    BY <1>0 DEF TypeOK
  <2>1. job[w] = 0 /\ main' = main /\ next \in Indices
    <3>1. job[w] = 0
      BY DEF Holding, Busy
    <3> QED
      BY <3>1, <2>0, <1>0 DEF Indices
  <2>2. TypeOK'
    <3>1. next' \in 1..(Len(manifest) + 1)
      BY <1>0 DEF TypeOK
    <3>2. /\ job' \in [Workers -> 0..Len(manifest)]
          /\ step' \in [Workers -> {"idle", "stat", "open", "read", "exited"}]
      BY <1>0, <2>1 DEF TypeOK, Indices
    <3> QED
      BY <3>1, <3>2 DEF TypeOK, Indices
  <2>3. next \notin checked /\ \A v \in Workers : job[v] # next
    BY <1>0, <2>1 DEF Holding, TypeOK, Indices
  <2>4. (\A u \in Workers : Busy(u) <=> job[u] # 0)'
    BY <2>1, <1>0 DEF Holding, TypeOK, Busy, Indices
  <2>5. (\A u, x \in Workers : u # x /\ job[u] # 0 => job[u] # job[x])'
    BY <2>1, <2>3 DEF Holding, TypeOK
  <2>6. (\A u \in Workers : job[u] \notin checked)'
    BY <2>3 DEF Holding, TypeOK
  <2>7. ASSUME NEW i \in Indices
        PROVE  (i \in checked' \/ \E u \in Workers : job'[u] = i) <=> i < next'
    <3>1. (i \in checked \/ \E u \in Workers : job[u] = i) <=> i < next
      BY DEF Holding
    <3>2. (\E u \in Workers : job'[u] = i)
          <=> (i = next \/ \E u \in Workers : job[u] = i)
      BY <2>1, <1>0 DEF TypeOK, Indices
    <3> QED
      BY <3>1, <3>2, <1>0 DEF TypeOK, Indices
  <2> QED
    BY <2>1, <2>2, <2>4, <2>5, <2>6, <2>7 DEF Holding, Indices
<1>2. CASE Close
  BY <1>0, <1>2 DEF Close, TypeOK, Holding, Busy, Indices, args, node
<1>3. ASSUME NEW w \in Workers, Exit(w) PROVE PoolInv'
  <2>1. TypeOK'
    BY <1>3 DEF Exit, TypeOK, Indices, args, node, caller
  <2>2. Holding'
    BY <1>3 DEF Exit, TypeOK, Holding, Busy, Indices, args, node, caller
  <2> QED
    BY <2>1, <2>2
<1>4. ASSUME NEW w \in Workers, Panic(w) PROVE PoolInv'
  BY <1>4 DEF Panic, TypeOK, Holding, Busy, Indices, args, node
<1>5. ASSUME NEW w \in Workers, Stat(w) PROVE PoolInv'
  <2> DEFINE st == StatOf(fs[Held(w).path])
             v  == StatVerdict(Held(w), cfg, st)
  <2>1. job[w] \in Indices /\ Held(w) \in Entries /\ Busy(w)
    BY <1>5, <1>0, ManifestType DEF Stat, Holding, Busy, TypeOK, Held, Indices
  <2>2. st \in Infos
    BY <2>1, StatOfType DEF TypeOK, Entries
  <2>3. CASE v = "hash"
    <3>1. /\ step' = [step EXCEPT ![w] = "open"]
          /\ info' = [info EXCEPT ![w] = st]
          /\ UNCHANGED <<job, window, results, checked, args, node, caller>>
      BY <1>5, <2>3 DEF Stat
    <3>2. TypeOK'
      BY <3>1, <2>2 DEF TypeOK, Indices, args, node, caller
    <3>3. Holding'
      BY <3>1, <2>1 DEF TypeOK, Holding, Busy, Indices, args, node, caller
    <3> QED
      BY <3>2, <3>3
  <2>4. CASE v # "hash"
    <3>1. v \in Verdicts
      BY <2>4, StatVerdictType
    <3>2. Return(w, v) /\ UNCHANGED <<args, node, caller>> /\ main # "panicked"
      BY <1>5, <2>4 DEF Stat
    <3> QED
      BY <2>1, <3>1, <3>2, ReturnKeepsPool
  <2> QED
    BY <2>3, <2>4
<1>6. ASSUME NEW w \in Workers, Open(w) PROVE PoolInv'
  <2> DEFINE file == fs[Held(w).path]
  <2>1. job[w] \in Indices /\ Held(w) \in Entries /\ Busy(w)
    BY <1>6, <1>0, ManifestType DEF Open, Holding, Busy, TypeOK, Held, Indices
  <2>2. file \in FileStates
    BY <2>1, NodeStatesType DEF TypeOK, Entries
  <2>3. CASE file.kind = "regular"
    <3>1. /\ step' = [step EXCEPT ![w] = "read"]
          /\ window' = [window EXCEPT ![w] = {file.content}]
          /\ UNCHANGED <<job, info, results, checked, args, node, caller>>
      BY <1>6, <2>3 DEF Open
    <3>2. TypeOK'
      BY <3>1, <2>2 DEF TypeOK, Indices, FileStates, args, node, caller
    <3>3. Holding'
      BY <3>1, <2>1 DEF TypeOK, Holding, Busy, Indices, args, node, caller
    <3> QED
      BY <3>2, <3>3
  <2>4. CASE file.kind # "regular"
    <3>1. /\ Return(w, "unreadable") /\ UNCHANGED <<args, node, caller>>
          /\ main # "panicked"
      BY <1>6, <2>4 DEF Open
    <3> QED
      BY <2>1, <3>1, ReturnKeepsPool DEF Verdicts, Reasons
  <2> QED
    BY <2>3, <2>4
<1>7. ASSUME NEW w \in Workers, Read(w) PROVE PoolInv'
  <2>1. PICK bytes : Return(w, HashVerdict(Held(w), cfg, info[w], Digest(bytes)))
    BY <1>7 DEF Read
  <2>2. Busy(w) /\ main # "panicked" /\ UNCHANGED <<args, node, caller>>
    BY <1>7 DEF Read, Busy
  <2> QED
    BY <2>1, <2>2, HashVerdictType, ReturnKeepsPool
<1>8. CASE Wait
  BY <1>0, <1>8 DEF Wait, TypeOK, Holding, Busy, Indices, args, node
<1>9. CASE Collect
  <2>0. next \in Nat /\ next >= 1 /\ next <= Len(manifest)
    BY <1>0, <1>9 DEF Collect, TypeOK
  <2>1. next \in Indices /\ results[next] \in Verdicts
    <3>1. next \in Indices
      BY <1>0, <2>0 DEF Indices
    <3> QED
      BY <3>1 DEF TypeOK
  <2>2. deviations' \in Seq([entry : Indices, reason : Reasons])
    <3>1. CASE results[next] = Clean
      BY <1>9, <3>1 DEF Collect, TypeOK
    <3>2. CASE results[next] # Clean
      <4>1. [entry |-> next, reason |-> results[next]]
              \in [entry : Indices, reason : Reasons]
        BY <2>1, <3>2 DEF Verdicts
      <4>2. deviations' = Append(deviations, [entry |-> next, reason |-> results[next]])
        BY <1>9, <3>2 DEF Collect
      <4> QED
        BY <4>1, <4>2 DEF TypeOK
    <3> QED
      BY <3>1, <3>2
  <2>3. TypeOK'
    BY <1>0, <1>9, <2>2 DEF Collect, TypeOK, Indices, args, node
  <2> QED
    BY <1>9, <2>3 DEF Collect, Holding, Busy, Indices, args, node
<1>10. CASE Finish
  BY <1>0, <1>10 DEF Finish, TypeOK, Holding, Busy, Indices, args, node
<1>11. ASSUME NEW p \in Paths, Edit(p) PROVE PoolInv'
  <2>1. PICK file \in NodeStates :
          /\ fs' = [fs EXCEPT ![p] = file]
          /\ seen' = [seen EXCEPT ![p] = @ \cup {file}]
          /\ window' = [w \in Workers |->
                          IF step[w] = "read" /\ Held(w).path = p /\ ~Gone(file)
                            THEN window[w] \cup {file.content}
                            ELSE window[w]]
    BY <1>11 DEF Edit, NodeStates
  <2>2. file.content \in Contents
    BY NodeStatesType DEF FileStates
  <2>3. window' \in [Workers -> SUBSET Contents]
    BY <2>1, <2>2 DEF TypeOK
  <2>4. edits' \in 0..MaxEdits
    BY <1>11, CheckFilesAssumption DEF Edit, TypeOK, CheckFilesAssumption
  <2>5. fs' \in [Paths -> NodeStates] /\ seen' \in [Paths -> SUBSET NodeStates]
    BY <2>1 DEF TypeOK
  <2>6. TypeOK'
    BY <1>11, <2>3, <2>4, <2>5 DEF Edit, TypeOK, Indices, args, caller
  <2>7. Holding'
    BY <1>11 DEF Edit, Holding, Busy, Indices, args, caller
  <2> QED
    BY <2>6, <2>7
<1>12. CASE UNCHANGED vars
  BY <1>12 DEF vars, TypeOK, Holding, Busy, Indices
<1> QED
  BY <1>1, <1>2, <1>3, <1>4, <1>5, <1>6, <1>7, <1>8, <1>9, <1>10, <1>11, <1>12
  DEF Next, CallerStep, WorkerStep, Terminating

(* Every index is held by at most one busy worker; it is checked or held   *)
(* once it was sent; when the caller collects, all workers have left.      *)
THEOREM PoolInvariant == Spec => []PoolInv
<1> QED
  BY PoolInit, PoolStep, PTL DEF Spec

(* Every variable keeps its type, for every instance of the check. *)
THEOREM TypeCorrect == Spec => []TypeOK
<1>1. PoolInv => TypeOK
  BY DEF PoolInv
<1> QED
  BY <1>1, PoolInvariant, PTL

LEMMA PoolImpliesJudged == PoolInv => EveryEntryJudged
<1> SUFFICES ASSUME PoolInv, main \in {"collect", "done"}
             PROVE  checked = Indices /\ \A w \in Workers : job[w] = 0
  BY DEF EveryEntryJudged
<1>1. \A w \in Workers : job[w] = 0
  BY DEF PoolInv, Holding, Busy
<1>2. \A i \in Indices : i # 0
  BY DEF Indices
<1> QED
  BY <1>1, <1>2 DEF PoolInv, TypeOK, Holding

(* A report is only ever built from a complete set of verdicts. *)
THEOREM AllJudgedBeforeReport == Spec => []EveryEntryJudged
<1> QED
  BY PoolImpliesJudged, PoolInvariant, PTL

-----------------------------------------------------------------------------
(***************************************************************************)
(* The report.  Collected adds to ReportInOrder what the loop needs: no    *)
(* entry at or after next is in it yet, and it is empty before the loop.   *)
(***************************************************************************)
Collected ==
    /\ main \notin {"collect", "done"} => deviations = <<>>
    /\ main \in {"collect", "done"} =>
          \A a \in DOMAIN deviations : deviations[a].entry < next
    /\ main = "done" => next > Len(manifest)
    /\ ReportInOrder

LEMMA CollectStep ==
    PoolInv /\ Collected /\ [Next]_vars => Collected'
<1> SUFFICES ASSUME PoolInv, Collected, [Next]_vars PROVE Collected'
  OBVIOUS
<1>0. TypeOK /\ Len(manifest) \in Nat
  BY ManifestType DEF PoolInv, TypeOK
<1>1. CASE UNCHANGED <<main, next, deviations, results, manifest>>
  BY <1>1 DEF Collected, ReportInOrder, Indices
<1>2. ASSUME main \in {"send", "wait"}, main' \in {"send", "wait", "panicked"},
             UNCHANGED deviations
      PROVE  Collected'
  BY <1>2 DEF Collected, ReportInOrder
<1>3. ASSUME NEW w \in Workers, WorkerStep(w) PROVE Collected'
  <2>1. main \in {"send", "wait"}
    <3>1. step[w] # "exited" /\ main # "panicked"
      BY <1>3 DEF WorkerStep, Exit, Panic, Stat, Open, Read
    <3> QED
      BY <3>1, <1>0 DEF PoolInv, Holding, TypeOK
  <2>2. main' \in {main, "panicked"} /\ UNCHANGED deviations
    BY <1>3 DEF WorkerStep, Exit, Panic, Stat, Open, Read, caller
  <2> QED
    BY <1>2, <2>1, <2>2
<1>4. ASSUME NEW w \in Workers, Send(w) PROVE Collected'
  BY <1>2, <1>4 DEF Send
<1>5. CASE Close
  BY <1>2, <1>5 DEF Close
<1>6. CASE Wait
  <2>1. main' = "collect" /\ next' = 1 /\ deviations' = <<>>
    BY <1>6 DEF Wait, Collected
  <2> QED
    BY <2>1 DEF Collected, ReportInOrder, Indices
<1>7. CASE Finish
  BY <1>7 DEF Finish, Collected, ReportInOrder, Indices, args
<1>8. CASE Collect
  <2>0. /\ next \in Nat /\ next \in Indices /\ next' = next + 1
        /\ main = "collect" /\ main' = "collect"
        /\ UNCHANGED <<results, manifest>>
    BY <1>0, <1>8 DEF Collect, TypeOK, Indices, args
  <2>1. deviations \in Seq([entry : Indices, reason : Reasons])
    BY <1>0 DEF TypeOK
  <2>4. ASSUME NEW a \in DOMAIN deviations
        PROVE  deviations[a].entry < next /\ deviations[a].entry \in Int
    <3>1. deviations[a] \in [entry : Indices, reason : Reasons]
      BY <2>1, ElementOfSeq
    <3> QED
      BY <1>0, <2>0, <3>1 DEF Collected, Indices
  <2>2. CASE results[next] = Clean
    <3>1. deviations' = deviations
      BY <1>8, <2>2 DEF Collect
    <3>2. \A a \in DOMAIN deviations : deviations[a].entry < next'
      BY <2>0, <2>4
    <3>3. \A i \in Indices : i < next' => i < next \/ i = next
      BY <1>0, <2>0 DEF Indices
    <3> QED
      BY <2>0, <2>2, <3>1, <3>2, <3>3 DEF Collected, ReportInOrder, Indices
  <2>3. CASE results[next] # Clean
    <3> DEFINE e == [entry |-> next, reason |-> results[next]]
    <3>1. deviations' = Append(deviations, e)
      BY <1>8, <2>3 DEF Collect
    <3>2. /\ DOMAIN deviations = 1..Len(deviations) /\ Len(deviations) \in Nat
          /\ DOMAIN deviations' = 1..(Len(deviations) + 1)
          /\ \A a \in DOMAIN deviations : deviations'[a] = deviations[a]
          /\ deviations'[Len(deviations) + 1] = e
      BY <2>1, <3>1
    <3>3. \A a \in DOMAIN deviations' :
             a \in DOMAIN deviations \/ a = Len(deviations) + 1
      BY <3>2
    <3>5. \A a \in DOMAIN deviations' : deviations'[a].entry < next'
      BY <2>0, <3>2, <3>3, <2>4
    <3>6. \A a, b \in DOMAIN deviations' :
             a < b => deviations'[a].entry < deviations'[b].entry
      BY <2>0, <3>2, <3>3, <2>4 DEF Collected, ReportInOrder
    <3>7. \A a \in DOMAIN deviations' :
             deviations'[a].reason = results[deviations'[a].entry]
      BY <2>0, <3>2, <3>3 DEF Collected, ReportInOrder
    <3>8. ASSUME NEW i \in Indices, i < next', results[i] # Clean
          PROVE  \E a \in DOMAIN deviations' : deviations'[a].entry = i
      <4>1. CASE i = next
        BY <3>2, <4>1
      <4>2. CASE i < next
        BY <2>0, <3>2, <3>8, <4>2 DEF Collected, ReportInOrder
      <4> QED
        BY <1>0, <2>0, <3>8, <4>1, <4>2 DEF Indices
    <3> QED
      BY <2>0, <3>5, <3>6, <3>7, <3>8 DEF Collected, ReportInOrder, Indices
  <2> QED
    BY <2>2, <2>3
<1>9. ASSUME NEW p \in Paths, Edit(p) PROVE Collected'
  BY <1>1, <1>9 DEF Edit, args, caller
<1>10. CASE UNCHANGED vars
  BY <1>1, <1>10 DEF vars
<1> QED
  BY <1>3, <1>4, <1>5, <1>6, <1>7, <1>8, <1>9, <1>10
  DEF Next, CallerStep, Terminating

(* The report built so far is made of the verdicts of the entries before   *)
(* the one being collected, in their order.                                *)
THEOREM CollectedInvariant == Spec => []Collected
<1>1. Init => Collected
  BY DEF Init, Collected, ReportInOrder
<1> QED
  BY <1>1, CollectStep, PoolInvariant, PTL DEF Spec

(* Every report is complete, free of duplicates and in manifest order. *)
THEOREM ReportIsOrdered == Spec => []ReportInOrder
<1>1. Collected => ReportInOrder
  BY DEF Collected
<1> QED
  BY <1>1, CollectedInvariant, PTL

-----------------------------------------------------------------------------
(***************************************************************************)
(* The worker pool implements FileVerdicts: the state mapping is Promise   *)
(* in CheckFiles, the invariants are those of CheckFilesProofs.            *)
(***************************************************************************)
Judged == [i \in Indices |-> IF i \in checked THEN results[i] ELSE "pending"]
Report == IF main = "done" THEN deviations ELSE <<>>

LEMMA PromiseInit == Init => Promise!Init
<1> SUFFICES ASSUME Init PROVE Promise!Init
  OBVIOUS
<1>1. Len(manifest) \in Nat
  BY ManifestType, CheckFilesAssumption DEF Init, CheckFilesAssumption
<1> QED
  BY <1>1 DEF Init, Promise!Init, Indices

(* checkFile returning is the one step that shows: it judges its entry.    *)
LEMMA ReturnJudges ==
    ASSUME PoolInv, NEW w \in Workers, NEW v \in Verdicts,
           Busy(w), main # "panicked", Return(w, v),
           UNCHANGED <<args, node, caller>>
    PROVE  Promise!Next
<1>1. job[w] \in Indices /\ job[w] \notin checked
  BY DEF PoolInv, TypeOK, Holding, Indices
<1>2. main \in {"send", "wait"} /\ main' = main /\ manifest' = manifest
  BY DEF PoolInv, TypeOK, Holding, Busy, args, caller
<1>3. Judged[job[w]] = "pending"
  BY <1>1 DEF Judged
<1>4. Judged' = [Judged EXCEPT ![job[w]] = v]
  <2>1. ASSUME NEW i \in Indices
        PROVE  Judged'[i] = IF i = job[w] THEN v ELSE Judged[i]
    BY <1>1, <1>2 DEF Judged, Return, PoolInv, TypeOK, Indices
  <2> QED
    BY <1>2, <2>1 DEF Judged, Indices
<1> QED
  BY <1>1, <1>2, <1>3, <1>4 DEF Promise!Next, Promise!Judge, Judged, Indices, caller

LEMMA QuietStep ==
    ASSUME UNCHANGED <<manifest, results, checked>>,
           main # "done", main' # "done"
    PROVE  UNCHANGED Promise!vars
BY DEF Promise!vars, Indices

LEMMA PromiseStep ==
    PoolInv /\ Collected /\ [Next]_vars => [Promise!Next]_(Promise!vars)
<1> SUFFICES ASSUME PoolInv, Collected, [Next]_vars
             PROVE  Promise!Next \/ UNCHANGED Promise!vars
  OBVIOUS
<1>0. Len(manifest) \in Nat
  BY ManifestType DEF PoolInv, TypeOK
<1>1. ASSUME NEW w \in Workers, Send(w) PROVE UNCHANGED Promise!vars
  BY <1>1, QuietStep DEF Send, args
<1>2. CASE Close \/ Wait \/ Collect
  BY <1>2, QuietStep DEF Close, Wait, Collect, args
<1>3. CASE Finish
  <2>1. EveryEntryJudged /\ main = "collect" /\ main' = "done" /\ next > Len(manifest)
        /\ UNCHANGED <<manifest, results, checked, deviations>>
    <3>1. PoolInv => EveryEntryJudged
      BY PoolImpliesJudged
    <3> QED
      BY <1>3, <3>1 DEF Finish, args
  <2>2. /\ checked = Indices
        /\ results \in [Indices -> Verdicts]
        /\ deviations \in Seq([entry : Indices, reason : Reasons])
        /\ next \in Int
    BY <2>1, <1>0 DEF EveryEntryJudged, PoolInv, TypeOK
  <2>3. Judged = results /\ Judged' = Judged
    BY <2>1, <2>2 DEF Judged, Indices
  <2>4. \A i \in Indices : Judged[i] # "pending"
    BY <2>2, <2>3, ReasonsAreNotClean
  <2>5. \A i \in Indices : i < next
    BY <1>0, <2>1, <2>2 DEF Indices
  <2>6. ASSUME NEW a \in DOMAIN deviations
        PROVE  deviations[a].entry \in Indices /\ deviations[a].reason # "nil"
    <3>1. deviations[a] \in [entry : Indices, reason : Reasons]
      BY <2>2, ElementOfSeq
    <3> QED
      BY <3>1, ReasonsAreNotClean DEF Clean
  <2>7. Promise!IsReport(deviations, Judged)
    BY <2>1, <2>2, <2>3, <2>5, <2>6
    DEF Promise!IsReport, Collected, ReportInOrder, Clean
  <2>8. Promise!Publish
    BY <2>1, <2>3, <2>4, <2>7 DEF Promise!Publish, Judged, Indices
  <2> QED
    BY <2>8 DEF Promise!Next
<1>4. ASSUME NEW w \in Workers, Exit(w) \/ Panic(w) PROVE UNCHANGED Promise!vars
  <2>1. main # "done" /\ main' # "done"
    BY <1>4 DEF Exit, Panic, caller, PoolInv, Holding
  <2> QED
    BY <1>4, <2>1, QuietStep DEF Exit, Panic, args
<1>5. ASSUME NEW w \in Workers, Stat(w) \/ Open(w) \/ Read(w)
      PROVE  Promise!Next \/ UNCHANGED Promise!vars
  <2>1. Busy(w) /\ main \notin {"panicked", "done"} /\ main' = main
        /\ UNCHANGED <<args, node, caller>>
    BY <1>5 DEF Stat, Open, Read, Busy, caller, PoolInv, Holding
  <2>2. CASE \E v \in Verdicts : Return(w, v)
    BY <2>1, <2>2, ReturnJudges
  <2>3. CASE UNCHANGED <<results, checked>>
    BY <2>1, <2>3, QuietStep DEF args
  <2>4. CASE Stat(w)
    BY <2>2, <2>3, <2>4, StatVerdictType DEF Stat
  <2>5. CASE Open(w)
    BY <2>2, <2>3, <2>5 DEF Open, Verdicts, Reasons
  <2>6. CASE Read(w)
    BY <2>2, <2>6, HashVerdictType DEF Read
  <2> QED
    BY <1>5, <2>4, <2>5, <2>6
<1>6. ASSUME NEW p \in Paths, Edit(p) PROVE UNCHANGED Promise!vars
  BY <1>6, QuietStep DEF Edit, args, caller
<1>7. CASE UNCHANGED vars
  BY <1>7 DEF vars, Promise!vars, Indices
<1> QED
  BY <1>1, <1>2, <1>3, <1>4, <1>5, <1>6, <1>7
  DEF Next, CallerStep, WorkerStep, Terminating

(* Whatever the pool does is something the promise allows. *)
THEOREM PoolImplementsPromise == Spec => ImplementsPromise
<1>1. PoolInv /\ Collected /\ [Next]_vars => [Promise!Next]_(Promise!vars)
  BY PromiseStep
<1> QED
  BY PromiseInit, <1>1, PoolInvariant, CollectedInvariant, PTL
  DEF Spec, ImplementsPromise, Promise!Spec

-----------------------------------------------------------------------------
(***************************************************************************)
(* What the verdicts of CheckFiles mean while the node changes under them. *)
(* A worker decides from a stat and from bytes it read at different times, *)
(* so the lemmas relate what it decides to S, the states the file has had. *)
(***************************************************************************)
Alarmed(f, c, S) == \E file \in S : Departs(f, c, file)

MustReport(f, c, S) ==
    \E a \in Attributes :
        /\ \A file \in S : DepartsIn(a, f, c, file)
        /\ a \in {"access", "content", "size"} =>
              ~\E file \in S : TrustedByStat(f, c, file)

Justified(v, f, c, S) ==
    /\ v # Clean => Alarmed(f, c, S)
    /\ MustReport(f, c, S) => v # Clean
    /\ v = "size_mismatch" /\ Consistent(f) => \E s, t \in S : s # t

(* The longer the check lasts, the more alarms are justified and the fewer *)
(* are due: a verdict that was justified stays so.                         *)
LEMMA JustifiedIsMonotone ==
    ASSUME NEW f, NEW c, NEW v, NEW S, NEW T, S \subseteq T, Justified(v, f, c, S)
    PROVE  Justified(v, f, c, T)
BY DEF Justified, Alarmed, MustReport

LEMMA StatJustifies ==
    ASSUME NEW f, NEW c, NEW S, NEW s \in S, s \in FileStates,
           StatVerdict(f, c, StatOf(s)) # "hash"
    PROVE  Justified(StatVerdict(f, c, StatOf(s)), f, c, S)
<1> DEFINE v == StatVerdict(f, c, StatOf(s))
<1>0. StatOf(s).kind = s.kind /\ StatOf(s).mode = s.mode /\ StatOf(s).mtime = s.mtime
  BY DEF StatOf
<1>1. ASSUME v # Clean PROVE Departs(f, c, s)
  <2>1. Gone(s) \/ ("mode" \in c.checks /\ f.mode # NoMode /\ s.mode # f.mode)
    BY <1>0, <1>1 DEF StatVerdict, Gone
  <2> QED
    BY <2>1 DEF Departs, DepartsIn, Attributes
<1>2. ASSUME v = Clean
      PROVE  /\ TrustedByStat(f, c, s)
             /\ ~DepartsIn("mode", f, c, s) /\ ~DepartsIn("mtime", f, c, s)
  <2>1. ~Gone(s) /\ c.fast /\ SizeAndTimeMatch(f, StatOf(s))
        /\ ~("mode" \in c.checks /\ f.mode # NoMode /\ s.mode # f.mode)
    BY <1>0, <1>2 DEF StatVerdict, Gone, Clean
  <2> QED
    BY <1>0, <2>1 DEF TrustedByStat, DepartsIn, SizeAndTimeMatch
<1>3. v # "size_mismatch"
  BY DEF StatVerdict, Clean
<1> QED
  BY <1>1, <1>2, <1>3 DEF Justified, Alarmed, MustReport, Attributes

(* A file that is not regular when it is opened departs from any entry.    *)
LEMMA OpenJustifies ==
    ASSUME NEW f, NEW c, NEW S, NEW s \in S, s \in FileStates, s.kind # "regular"
    PROVE  Justified("unreadable", f, c, S)
<1>1. DepartsIn("access", f, c, s)
  BY DEF FileStates, Kinds, DepartsIn, Gone
<1> QED
  BY <1>1 DEF Justified, Alarmed, Departs, Attributes, Clean

(* s is the file as the stat found it, r as the open did, W the bytes it   *)
(* had while it was read.                                                  *)
LEMMA HashJustifies ==
    ASSUME NEW f \in Entries, NEW c, NEW S, NEW s \in S, NEW r \in S,
           NEW W \in SUBSET Contents, WellFormed(f),
           s \in FileStates, ~Gone(s), r.kind = "regular",
           StatVerdict(f, c, StatOf(s)) = "hash",
           \A b \in W : \E t \in S : ~Gone(t) /\ t.content = b,
           NEW bytes \in W \cup (IF \E a, b \in W : a # b THEN {Torn} ELSE {})
    PROVE  Justified(HashVerdict(f, c, StatOf(s), Digest(bytes)), f, c, S)
<1> DEFINE v == HashVerdict(f, c, StatOf(s), Digest(bytes))
<1>0. /\ StatOf(s).size = SizeOf[s.content]
      /\ StatOf(s).mode = s.mode /\ StatOf(s).mtime = s.mtime /\ StatOf(s).kind = s.kind
  BY DEF StatOf
<1>1. PICK rec \in Contents : f.sha = Digest(rec)
  BY DEF Entries, Digests, WellFormed
<1>2. \A x, y : Digest(x) = Digest(y) => x = y
  BY DEF Digest
<1>3. ASSUME v # Clean PROVE Alarmed(f, c, S)
  <2>1. CASE Digest(bytes) # f.sha
    <3>1. PICK b \in W : b # rec
      BY <1>1, <1>2, <2>1
    <3>2. PICK t \in S : ~Gone(t) /\ t.content = b
      BY <3>1
    <3>3. DepartsIn("content", f, c, t)
      BY <1>1, <1>2, <3>1, <3>2 DEF DepartsIn
    <3> QED
      BY <3>3 DEF Alarmed, Departs, Attributes
  <2>2. CASE Digest(bytes) = f.sha
    <3>1. \/ "size" \in c.checks /\ f.size # 0 /\ StatOf(s).size # f.size
          \/ "mtime" \in c.checks /\ f.mtime # 0 /\ StatOf(s).mtime # f.mtime
      BY <1>3, <2>2 DEF HashVerdict
    <3>2. DepartsIn("size", f, c, s) \/ DepartsIn("mtime", f, c, s)
      BY <1>0, <3>1 DEF DepartsIn
    <3> QED
      BY <3>2 DEF Alarmed, Departs, Attributes
  <2> QED
    BY <2>1, <2>2
<1>4. ASSUME v = Clean PROVE ~MustReport(f, c, S)
  <2>1. Digest(bytes) = f.sha
        /\ ~("size" \in c.checks /\ f.size # 0 /\ SizeOf[s.content] # f.size)
        /\ ~("mtime" \in c.checks /\ f.mtime # 0 /\ s.mtime # f.mtime)
    BY <1>0, <1>4 DEF HashVerdict, Clean
  <2>2. bytes \in W
    BY <1>1, <1>2, <2>1, FileDataAssumption DEF FileDataAssumption
  <2>3. PICK t \in S : ~Gone(t) /\ t.content = bytes
    BY <2>2
  <2>4. ~("mode" \in c.checks /\ f.mode # NoMode /\ s.mode # f.mode)
    BY <1>0 DEF StatVerdict, Gone
  <2>5. ~DepartsIn("access", f, c, r)
    BY DEF DepartsIn, Gone
  <2>6. ~DepartsIn("content", f, c, t)
    BY <2>1, <2>3 DEF DepartsIn
  <2>7. /\ ~DepartsIn("mode", f, c, s) /\ ~DepartsIn("size", f, c, s)
        /\ ~DepartsIn("mtime", f, c, s)
    BY <2>1, <2>4 DEF DepartsIn
  <2> QED
    BY <2>5, <2>6, <2>7 DEF MustReport, Attributes
<1>5. ASSUME v = "size_mismatch", Consistent(f) PROVE \E x, y \in S : x # y
  <2>1. Digest(bytes) = f.sha /\ f.size # 0 /\ SizeOf[s.content] # f.size
    BY <1>0, <1>5 DEF HashVerdict, Clean
  <2>2. bytes = rec /\ bytes \in W
    BY <1>1, <1>2, <2>1, FileDataAssumption DEF FileDataAssumption
  <2>3. PICK t \in S : t.content = rec
    BY <2>2
  <2>4. s # t
    BY <1>1, <1>5, <2>1, <2>3 DEF Consistent
  <2> QED
    BY <2>3, <2>4
<1> QED
  BY <1>3, <1>4, <1>5 DEF Justified

-----------------------------------------------------------------------------
(***************************************************************************)
(* The invariant: what a worker holds it really saw, and every verdict     *)
(* given so far is justified by what the file has been.                    *)
(***************************************************************************)
SawByStat(w, s) ==
    /\ ~Gone(s) /\ info[w] = StatOf(s)
    /\ StatVerdict(Held(w), cfg, info[w]) = "hash"

WorkersSaw ==
    /\ \A p \in Paths : fs[p] \in seen[p]
    /\ \A w \in Workers : step[w] \in {"open", "read"} =>
          /\ WellFormed(Held(w))
          /\ \E s \in seen[Held(w).path] : SawByStat(w, s)
    /\ \A w \in Workers : step[w] = "read" =>
          /\ \E r \in seen[Held(w).path] : r.kind = "regular"
          /\ \A b \in window[w] :
                \E t \in seen[Held(w).path] : ~Gone(t) /\ t.content = b

VerdictsJustified ==
    \A i \in checked :
        Justified(results[i], manifest[i], cfg, seen[manifest[i].path])

RaceInv == WorkersSaw /\ VerdictsJustified

LEMMA HeldType ==
    ASSUME PoolInv, NEW w \in Workers, Busy(w)
    PROVE  job[w] \in Indices /\ Held(w) \in Entries /\ Held(w).path \in Paths
BY ManifestType DEF PoolInv, TypeOK, Holding, Held, Indices, Entries

(* Steps that neither change the node nor give a worker anything new.      *)
LEMMA IdleKeepsRace ==
    ASSUME PoolInv, RaceInv, UNCHANGED <<args, node, info, window, results, checked>>,
           \A w \in Workers : step'[w] \in {"open", "read"} =>
               step'[w] = step[w] /\ job'[w] = job[w]
    PROVE  RaceInv'
<1> USE DEF args, node
<1>1. WorkersSaw'
  BY DEF RaceInv, WorkersSaw, SawByStat, Held
<1>2. VerdictsJustified'
  BY DEF RaceInv, VerdictsJustified
<1> QED
  BY <1>1, <1>2 DEF RaceInv

LEMMA ReturnKeepsRace ==
    ASSUME PoolInv, RaceInv, NEW w \in Workers, NEW v, Busy(w), Return(w, v),
           UNCHANGED <<args, node>>,
           Justified(v, Held(w), cfg, seen[Held(w).path])
    PROVE  RaceInv'
<1> USE DEF args, node
<1>1. job[w] \in Indices
  BY HeldType
<1>2. \A u \in Workers : u # w => /\ job'[u] = job[u] /\ step'[u] = step[u]
                                  /\ info'[u] = info[u] /\ window'[u] = window[u]
  BY DEF Return, PoolInv, TypeOK
<1>3. step'[w] = "idle"
  BY DEF Return, PoolInv, TypeOK
<1>4. WorkersSaw'
  BY <1>2, <1>3 DEF RaceInv, WorkersSaw, SawByStat, Held
<1>5. ASSUME NEW i \in checked'
      PROVE  Justified(results'[i], manifest[i], cfg, seen[manifest[i].path])
  <2>1. CASE i = job[w]
    BY <1>1, <2>1 DEF Return, Held, PoolInv, TypeOK
  <2>2. CASE i # job[w]
    BY <1>5, <2>2 DEF Return, PoolInv, TypeOK, RaceInv, VerdictsJustified
  <2> QED
    BY <2>1, <2>2
<1>6. VerdictsJustified'
  BY <1>5 DEF VerdictsJustified
<1> QED
  BY <1>4, <1>6 DEF RaceInv

LEMMA RaceInit == Init => RaceInv
BY DEF Init, RaceInv, WorkersSaw, VerdictsJustified

LEMMA RaceStep == PoolInv /\ RaceInv /\ [Next]_vars => RaceInv'
<1> SUFFICES ASSUME PoolInv, RaceInv, [Next]_vars PROVE RaceInv'
  OBVIOUS
<1>0. /\ \A w \in Workers : job[w] \in Int
      /\ \A p \in Paths : fs[p] \in NodeStates /\ fs[p] \in FileStates
  BY NodeStatesType, ManifestType DEF PoolInv, TypeOK
<1>1. ASSUME NEW w \in Workers, Send(w) PROVE RaceInv'
  <2>1. \A u \in Workers : step'[u] \in {"open", "read"} =>
            step'[u] = step[u] /\ job'[u] = job[u]
    BY <1>1 DEF Send, PoolInv, TypeOK
  <2> QED
    BY <1>1, <2>1, IdleKeepsRace DEF Send
<1>2. CASE Close \/ Wait \/ Collect \/ Finish
  BY <1>2, IdleKeepsRace DEF Close, Wait, Collect, Finish
<1>3. ASSUME NEW w \in Workers, Exit(w) \/ Panic(w) PROVE RaceInv'
  <2>1. \A u \in Workers : step'[u] \in {"open", "read"} =>
            step'[u] = step[u] /\ job'[u] = job[u]
    BY <1>3 DEF Exit, Panic, PoolInv, TypeOK
  <2> QED
    BY <1>3, <2>1, IdleKeepsRace DEF Exit, Panic
<1>4. ASSUME NEW w \in Workers, Stat(w) PROVE RaceInv'
  <2> DEFINE s == fs[Held(w).path]
             v == StatVerdict(Held(w), cfg, StatOf(s))
  <2>1. Busy(w) /\ WellFormed(Held(w)) /\ UNCHANGED <<args, node>>
    BY <1>4 DEF Stat, Busy
  <2>2. Held(w).path \in Paths /\ s \in FileStates /\ s \in seen[Held(w).path]
    BY <1>0, <2>1, HeldType DEF RaceInv, WorkersSaw
  <2>3. CASE v # "hash"
    <3>1. Return(w, v)
      BY <1>4, <2>3 DEF Stat
    <3>2. Justified(v, Held(w), cfg, seen[Held(w).path])
      BY <2>2, <2>3, StatJustifies
    <3> QED
      BY <2>1, <3>1, <3>2, ReturnKeepsRace
  <2>4. CASE v = "hash"
    <3>1. /\ step' = [step EXCEPT ![w] = "open"]
          /\ info' = [info EXCEPT ![w] = StatOf(s)]
          /\ UNCHANGED <<job, window, results, checked, args, node>>
      BY <1>4, <2>4 DEF Stat
    <3>2. ~Gone(s)
      BY <2>4 DEF StatVerdict, StatOf, Gone
    <3>3. info'[w] = StatOf(s) /\ step'[w] = "open" /\ Held(w)' = Held(w)
      BY <3>1 DEF PoolInv, TypeOK, Held, args
    <3>4. SawByStat(w, s)'
      BY <2>4, <3>1, <3>2, <3>3 DEF SawByStat, args, node
    <3>5. ASSUME NEW u \in Workers, u # w
          PROVE  step'[u] = step[u] /\ info'[u] = info[u]
      BY <3>1, <3>5 DEF PoolInv, TypeOK
    <3>6. WorkersSaw'
      BY <2>1, <2>2, <3>1, <3>3, <3>4, <3>5
      DEF RaceInv, WorkersSaw, SawByStat, Held, args, node
    <3>7. VerdictsJustified'
      BY <3>1 DEF RaceInv, VerdictsJustified, args, node
    <3> QED
      BY <3>6, <3>7 DEF RaceInv
  <2> QED
    BY <2>3, <2>4
<1>5. ASSUME NEW w \in Workers, Open(w) PROVE RaceInv'
  <2> DEFINE s == fs[Held(w).path]
  <2>1. Busy(w) /\ step[w] = "open" /\ UNCHANGED <<args, node>>
    BY <1>5 DEF Open, Busy
  <2>2. Held(w).path \in Paths /\ s \in FileStates /\ s \in seen[Held(w).path]
    BY <1>0, <2>1, HeldType DEF RaceInv, WorkersSaw
  <2>3. CASE s.kind # "regular"
    <3>1. Return(w, "unreadable")
      BY <1>5, <2>3 DEF Open
    <3>2. Justified("unreadable", Held(w), cfg, seen[Held(w).path])
      BY <2>2, <2>3, OpenJustifies
    <3> QED
      BY <2>1, <3>1, <3>2, ReturnKeepsRace
  <2>4. CASE s.kind = "regular"
    <3>1. /\ step' = [step EXCEPT ![w] = "read"]
          /\ window' = [window EXCEPT ![w] = {s.content}]
          /\ UNCHANGED <<job, info, results, checked, args, node>>
      BY <1>5, <2>4 DEF Open
    <3>2. ~Gone(s)
      BY <2>4 DEF Gone
    <3>3. window'[w] = {s.content}
      BY <3>1 DEF PoolInv, TypeOK
    <3>4. ASSUME NEW u \in Workers, u # w
          PROVE  step'[u] = step[u] /\ window'[u] = window[u]
      BY <3>1, <3>4 DEF PoolInv, TypeOK
    <3>5. WorkersSaw'
      BY <2>1, <2>2, <2>4, <3>1, <3>2, <3>3, <3>4
      DEF RaceInv, WorkersSaw, SawByStat, Held, args, node
    <3>6. VerdictsJustified'
      BY <3>1 DEF RaceInv, VerdictsJustified, args, node
    <3> QED
      BY <3>5, <3>6 DEF RaceInv
  <2> QED
    BY <2>3, <2>4
<1>6. ASSUME NEW w \in Workers, Read(w) PROVE RaceInv'
  <2>1. step[w] = "read" /\ Busy(w) /\ UNCHANGED <<args, node>>
    BY <1>6 DEF Read, Busy
  <2>2. PICK bytes \in window[w] \cup
                    (IF \E a, b \in window[w] : a # b THEN {Torn} ELSE {}) :
          Return(w, HashVerdict(Held(w), cfg, info[w], Digest(bytes)))
    BY <1>6 DEF Read
  <2>3. Held(w) \in Entries /\ Held(w).path \in Paths /\ WellFormed(Held(w))
    BY <2>1, HeldType DEF RaceInv, WorkersSaw
  <2>4. PICK s \in seen[Held(w).path] : SawByStat(w, s)
    BY <2>1 DEF RaceInv, WorkersSaw
  <2>5. s \in FileStates
    BY <2>3, <2>4, NodeStatesType DEF PoolInv, TypeOK
  <2>6. PICK r \in seen[Held(w).path] : r.kind = "regular"
    BY <2>1 DEF RaceInv, WorkersSaw
  <2>7. window[w] \in SUBSET Contents
    BY DEF PoolInv, TypeOK
  <2>8. \A b \in window[w] :
           \E t \in seen[Held(w).path] : ~Gone(t) /\ t.content = b
    BY <2>1 DEF RaceInv, WorkersSaw
  <2>9. Justified(HashVerdict(Held(w), cfg, StatOf(s), Digest(bytes)),
                  Held(w), cfg, seen[Held(w).path])
    <3>1. ~Gone(s) /\ StatVerdict(Held(w), cfg, StatOf(s)) = "hash"
      BY <2>4 DEF SawByStat
    <3> DEFINE f == Held(w)
               S == seen[Held(w).path]
               W == window[w]
    <3>2. /\ f \in Entries /\ WellFormed(f) /\ s \in S /\ r \in S
          /\ W \in SUBSET Contents
          /\ \A b \in W : \E t \in S : ~Gone(t) /\ t.content = b
          /\ bytes \in W \cup (IF \E a, b \in W : a # b THEN {Torn} ELSE {})
      BY <2>2, <2>3, <2>4, <2>6, <2>7, <2>8
    <3> HIDE DEF f, S, W
    <3>3. ~Gone(s) /\ StatVerdict(f, cfg, StatOf(s)) = "hash"
      BY <3>1 DEF f
    <3>4. Justified(HashVerdict(f, cfg, StatOf(s), Digest(bytes)), f, cfg, S)
      BY <3>2, <3>3, <2>5, <2>6, HashJustifies
    <3> QED
      BY <3>4 DEF f, S
  <2>10. info[w] = StatOf(s)
    BY <2>4 DEF SawByStat
  <2> QED
    BY <2>1, <2>2, <2>9, <2>10, ReturnKeepsRace
<1>7. ASSUME NEW p \in Paths, Edit(p) PROVE RaceInv'
  <2>1. PICK file \in NodeStates :
          /\ fs' = [fs EXCEPT ![p] = file]
          /\ seen' = [seen EXCEPT ![p] = @ \cup {file}]
          /\ window' = [w \in Workers |->
                          IF step[w] = "read" /\ Held(w).path = p /\ ~Gone(file)
                            THEN window[w] \cup {file.content}
                            ELSE window[w]]
          /\ UNCHANGED <<args, job, step, info, results, checked>>
    BY <1>7 DEF Edit, NodeStates
  <2>2. /\ \A q \in Paths : seen[q] \subseteq seen'[q]
        /\ file \in seen'[p]
    BY <2>1 DEF PoolInv, TypeOK
  <2>3. \A q \in Paths : fs'[q] \in seen'[q]
    BY <2>1 DEF PoolInv, TypeOK, RaceInv, WorkersSaw
  <2>4. ASSUME NEW w \in Workers, step[w] \in {"open", "read"}
        PROVE  /\ Held(w).path \in Paths /\ Held(w)' = Held(w)
               /\ WellFormed(Held(w))
               /\ \E s \in seen'[Held(w).path] : SawByStat(w, s)'
    <3>1. Held(w).path \in Paths /\ Held(w)' = Held(w)
      BY <2>1, <2>4, HeldType DEF Busy, Held, args
    <3>2. \A s : SawByStat(w, s)' <=> SawByStat(w, s)
      BY <2>1, <3>1 DEF SawByStat, args
    <3> QED
      BY <2>2, <2>4, <3>1, <3>2 DEF RaceInv, WorkersSaw
  <2>5. ASSUME NEW w \in Workers, step[w] = "read"
        PROVE  /\ \E r \in seen'[Held(w).path] : r.kind = "regular"
               /\ \A b \in window'[w] :
                     \E t \in seen'[Held(w).path] : ~Gone(t) /\ t.content = b
    <3>1. \A b \in window'[w] :
             b \in window[w] \/ (b = file.content /\ Held(w).path = p /\ ~Gone(file))
      BY <2>1
    <3>2. Held(w).path \in Paths
      BY <2>4, <2>5
    <3> QED
      BY <2>2, <2>5, <3>1, <3>2 DEF RaceInv, WorkersSaw
  <2>6. WorkersSaw'
    <3>1. ASSUME NEW w \in Workers, step[w] \in {"open", "read"}
          PROVE  WellFormed(Held(w))' /\ (\E s \in seen[Held(w).path] : SawByStat(w, s))'
      BY <2>4, <3>1
    <3>2. ASSUME NEW w \in Workers, step[w] = "read"
          PROVE  /\ \E r \in seen'[Held(w)'.path] : r.kind = "regular"
                 /\ \A b \in window'[w] :
                       \E t \in seen'[Held(w)'.path] : ~Gone(t) /\ t.content = b
      BY <2>4, <2>5, <3>2
    <3> QED
      BY <2>1, <2>3, <3>1, <3>2 DEF WorkersSaw
  <2>7. ASSUME NEW i \in checked
        PROVE  Justified(results[i], manifest[i], cfg, seen'[manifest[i].path])
    <3>1. manifest[i].path \in Paths
      BY ManifestType DEF PoolInv, TypeOK, Entries
    <3>2. Justified(results[i], manifest[i], cfg, seen[manifest[i].path])
      BY DEF RaceInv, VerdictsJustified
    <3> QED
      BY <2>2, <3>1, <3>2, JustifiedIsMonotone
  <2>8. VerdictsJustified'
    BY <2>1, <2>7 DEF VerdictsJustified, args
  <2> QED
    BY <2>6, <2>8 DEF RaceInv
<1>8. CASE UNCHANGED vars
  BY <1>8, IdleKeepsRace DEF vars, args, node
<1> QED
  BY <1>1, <1>2, <1>3, <1>4, <1>5, <1>6, <1>7, <1>8
  DEF Next, CallerStep, WorkerStep, Terminating

(* What a worker has read was there during the check, and every verdict    *)
(* rests on a stat and on bytes that were.                                 *)
THEOREM RaceInvariant == Spec => []RaceInv
<1> QED
  BY RaceInit, RaceStep, PoolInvariant, PTL DEF Spec

(* No alarm without a departure: every reported entry names a file that    *)
(* departed from it at some moment of the check.                           *)
THEOREM AlarmsAreReal == Spec => []NoFalseAlarm
<1>1. RaceInv => NoFalseAlarm
  BY DEF RaceInv, VerdictsJustified, Justified, Alarmed, NoFalseAlarm
<1> QED
  BY <1>1, RaceInvariant, PTL

(* A departure that lasts is reported, unless fast_scan may trust the stat. *)
THEOREM LastingDriftIsReported == Spec => []PersistentDriftReported
<1>1. RaceInv => PersistentDriftReported
  BY DEF RaceInv, VerdictsJustified, Justified, MustReport, PersistentDriftReported
<1> QED
  BY <1>1, RaceInvariant, PTL

(* Of an entry whose size is that of its bytes, "size_mismatch" is said    *)
(* only if the file changed during the check.                              *)
THEOREM SizeMismatchTellsOfARace == Spec => []SizeMismatchOnlyRaces
<1>1. RaceInv => SizeMismatchOnlyRaces
  BY DEF RaceInv, VerdictsJustified, Justified, SizeMismatchOnlyRaces
<1> QED
  BY <1>1, RaceInvariant, PTL
=============================================================================
