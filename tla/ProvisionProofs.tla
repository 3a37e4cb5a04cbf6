-------------------------- MODULE ProvisionProofs --------------------------
(***************************************************************************)
(* Theorems about runs of the command line, for every node, every set of   *)
(* playbooks and whatever others do to the files and the manifest in the   *)
(* meantime: what a run lists and records, and what a check of it says.    *)
(* The walk in a run is that of Scan, with the invariants of ScanProofs and*)
(* ScanWalkProofs.                                                         *)
(***************************************************************************)
EXTENDS Provision, ScanWalkProofs

-----------------------------------------------------------------------------
(* A function on the naturals may be defined by its first value and a step.*)
Iterates(f, n, first, step) ==
    f[0] = first /\ \A k \in Nat : k < n => f[k + 1] = step[k][f[k]]
Recurs(r, V, first, step) ==
    r \in [Nat -> V] /\ r[0] = first /\ \A n \in Nat : r[n + 1] = step[n][r[n]]

LEMMA IteratesOnce ==
    ASSUME NEW first, NEW step, NEW m \in Nat, NEW n \in Nat, NEW f, NEW g,
           Iterates(f, m, first, step), Iterates(g, n, first, step)
    PROVE  \A k \in Nat : k <= m /\ k <= n => f[k] = g[k]
<1> DEFINE S == {k \in Nat : k <= m /\ k <= n => f[k] = g[k]}
<1>1. 0 \in S
    BY DEF Iterates
<1>2. ASSUME NEW k \in Nat, k \in S
      PROVE  k + 1 \in S
    <2>1. k + 1 <= m /\ k + 1 <= n => k < m /\ k < n /\ k <= m /\ k <= n
        OBVIOUS
    <2>2. k < m /\ k < n => f[k + 1] = step[k][f[k]] /\ g[k + 1] = step[k][g[k]]
        BY DEF Iterates
    <2> QED BY <1>2, <2>1, <2>2
<1> HIDE DEF S
<1>3. Nat \subseteq S
    BY <1>1, <1>2, SetInduction
<1> QED BY <1>3 DEF S

LEMMA Recursion ==
    ASSUME NEW V, NEW first \in V, NEW step \in [Nat -> [V -> V]]
    PROVE  \E r : Recurs(r, V, first, step)
<1> DEFINE S == {n \in Nat : \E f \in [Nat -> V] : Iterates(f, n, first, step)}
<1>1. 0 \in S
    <2> DEFINE f == [k \in Nat |-> first]
    <2>1. f \in [Nat -> V] /\ Iterates(f, 0, first, step)
        BY DEF Iterates
    <2> QED BY <2>1
<1>2. ASSUME NEW n \in Nat, n \in S
      PROVE  n + 1 \in S
    <2>1. PICK f \in [Nat -> V] : Iterates(f, n, first, step)
        BY <1>2
    <2>2. step[n][f[n]] \in V
        OBVIOUS
    <2> DEFINE g == [k \in Nat |-> IF k = n + 1 THEN step[n][f[n]] ELSE f[k]]
    <2>3. g \in [Nat -> V]
        BY <2>2
    <2>4. g[0] = first
        BY <2>1 DEF Iterates
    <2>5. ASSUME NEW k \in Nat, k < n + 1
          PROVE  g[k + 1] = step[k][g[k]]
        <3>1. g[k] = f[k]
            BY <2>5
        <3>2. CASE k = n
            BY <3>1, <3>2
        <3>3. CASE k # n
            <4>1. k < n /\ k + 1 # n + 1
                BY <2>5, <3>3
            <4>2. f[k + 1] = step[k][f[k]]
                BY <2>1, <4>1 DEF Iterates
            <4> QED BY <3>1, <4>1, <4>2
        <3> QED BY <3>2, <3>3
    <2> HIDE DEF g
    <2>6. Iterates(g, n + 1, first, step)
        BY <2>4, <2>5 DEF Iterates
    <2> QED BY <2>3, <2>6
<1> HIDE DEF S
<1>3. Nat \subseteq S
    BY <1>1, <1>2, SetInduction
<1> DEFINE upTo(n) == CHOOSE f \in [Nat -> V] : Iterates(f, n, first, step)
           r == [n \in Nat |-> upTo(n)[n]]
<1>4. \A n \in Nat : upTo(n) \in [Nat -> V] /\ Iterates(upTo(n), n, first, step)
    BY <1>3 DEF S
<1> HIDE DEF upTo
<1>5. r \in [Nat -> V]
    BY <1>4
<1>6. r[0] = first
    BY <1>4 DEF Iterates
<1>7. ASSUME NEW n \in Nat
      PROVE  r[n + 1] = step[n][r[n]]
    <2>1. n + 1 \in Nat /\ n < n + 1 /\ n <= n /\ n <= n + 1
        OBVIOUS
    <2>2. upTo(n + 1)[n + 1] = step[n][upTo(n + 1)[n]]
        BY <1>4, <2>1 DEF Iterates
    <2>3. upTo(n + 1)[n] = upTo(n)[n]
        BY <1>4, <2>1, IteratesOnce
    <2> QED BY <2>1, <2>2, <2>3
<1> HIDE DEF r
<1>8. Recurs(r, V, first, step)
    BY <1>5, <1>6, <1>7 DEF Recurs
<1> QED BY <1>8

(* Dedupe loses no path.                                                   *)
LEMMA DedupeElements ==
    ASSUME NEW s, IsSeq(s)
    PROVE  IsSeq(Dedupe(s)) /\ Elements(Dedupe(s)) = Elements(s)
<1> DEFINE U == {s[n] : n \in Nat}
           V == Seq(U)
           With(x, e) == IF e \in Elements(x) THEN x ELSE Append(x, e)
           step == [n \in Nat |-> [x \in V |-> With(x, s[n + 1])]]
           Rec(k) == k = [n \in Nat |-> IF n = 0 THEN <<>> ELSE With(k[n - 1], s[n])]
           kept == CHOOSE k : Rec(k)
<1>1. Len(s) \in Nat /\ DOMAIN s = 1..Len(s)
    BY DEF IsSeq
<1>2. ASSUME NEW x \in V, NEW e \in U
      PROVE  With(x, e) \in V /\ Elements(With(x, e)) = Elements(x) \cup {e}
    <2>1. CASE e \in Elements(x)
        BY <2>1
    <2>2. CASE e \notin Elements(x)
        <3>1. /\ Append(x, e) \in Seq(U) /\ Len(x) \in Nat /\ DOMAIN x = 1..Len(x)
              /\ DOMAIN Append(x, e) = 1..(Len(x) + 1) /\ Append(x, e)[Len(x) + 1] = e
              /\ \A i \in 1..Len(x) : Append(x, e)[i] = x[i]
            OBVIOUS
        <3>2. \A i \in 1..(Len(x) + 1) : i \in 1..Len(x) \/ i = Len(x) + 1
            BY <3>1
        <3>3. Elements(Append(x, e)) = Elements(x) \cup {e}
            BY <3>1, <3>2 DEF Elements
        <3> QED BY <2>2, <3>1, <3>3
    <2> QED BY <2>1, <2>2
<1>3. <<>> \in V
    OBVIOUS
<1> HIDE DEF With, V
<1>4. step \in [Nat -> [V -> V]]
    BY <1>2
<1>5. PICK r : Recurs(r, V, <<>>, step)
    <2> HIDE DEF step
    <2> QED BY <1>3, <1>4, Recursion
<1>6. r \in [Nat -> V] /\ r[0] = <<>> /\ \A n \in Nat : r[n + 1] = With(r[n], s[n + 1])
    BY <1>5 DEF Recurs
<1>7. Rec(r)
    <2>1. r = [n \in Nat |-> r[n]]
        BY <1>6
    <2>2. ASSUME NEW n \in Nat, n # 0
          PROVE  r[n] = With(r[n - 1], s[n])
        <3>1. n - 1 \in Nat /\ (n - 1) + 1 = n
            BY <2>2
        <3> QED BY <1>6, <3>1
    <2> QED BY <1>6, <2>1, <2>2
<1> HIDE DEF Rec
<1>8. Rec(kept)
    BY <1>7
<1> HIDE DEF kept
<1>9. kept[0] = <<>> /\ \A n \in Nat : kept[n + 1] = With(kept[n], s[n + 1])
    BY <1>8 DEF Rec
<1> DEFINE S == {n \in Nat : kept[n] \in V /\ Elements(kept[n]) = {s[i] : i \in 1..n}}
<1>10. 0 \in S
    BY <1>3, <1>9 DEF Elements
<1>11. ASSUME NEW n \in Nat, n \in S
       PROVE  n + 1 \in S
    <2>1. \A i \in 1..(n + 1) : i \in 1..n \/ i = n + 1
        OBVIOUS
    <2>2. {s[i] : i \in 1..(n + 1)} = {s[i] : i \in 1..n} \cup {s[n + 1]}
        BY <2>1
    <2>3. s[n + 1] \in U /\ n + 1 \in Nat
        OBVIOUS
    <2> HIDE DEF U
    <2>4. kept[n + 1] \in V /\ Elements(kept[n + 1]) = Elements(kept[n]) \cup {s[n + 1]}
        BY <1>2, <1>9, <1>11, <2>3
    <2> QED BY <1>11, <2>2, <2>3, <2>4
<1> HIDE DEF S
<1>12. Nat \subseteq S
    BY <1>10, <1>11, SetInduction
<1>13. Dedupe(s) = kept[Len(s)]
    BY DEF Dedupe, kept, Rec, With
<1>14. Elements(s) = {s[i] : i \in 1..Len(s)}
    BY <1>1 DEF Elements
<1>15. Dedupe(s) \in Seq(U) /\ Elements(Dedupe(s)) = Elements(s)
    BY <1>1, <1>12, <1>13, <1>14 DEF S, V
<1> QED BY <1>15, SeqElements

-----------------------------------------------------------------------------
(* The scan of a run: Start prepares it, Walk takes its steps, and nothing *)
(* else touches it.                                                        *)
LEMMA CollectSeq ==
    ASSUME NEW t, t.loop \in Seq(STRING), NEW bound, NEW raw
    PROVE  IsSeq(Collect(t, raw, bound).files)
<1>1. IsSeq(<<>>)
    BY DEF IsSeq
<1>2. \/ Collect(t, raw, bound).files = <<>>
      \/ Collect(t, raw, bound).files = ExpandPath(raw, bound, t.loop)
    BY DEF Collect, Nothing, Warn
<1> QED BY <1>1, <1>2, ExpandPathSeq

LEMMA TaskSeqs ==
    ASSUME NEW t, t.loop \in Seq(STRING), NEW bound
    PROVE  IsSeq(ScanModuleArgs(t, bound).files) /\ IsSeq(ScanCommandCreates(t, bound).files)
<1>1. IsSeq(<<>>)
    BY DEF IsSeq
<1>2. \/ ScanModuleArgs(t, bound).files = <<>>
      \/ ScanModuleArgs(t, bound).files = Collect(t, PathArg(t), bound).files
    BY DEF ScanModuleArgs, Nothing, Warn
<1> DEFINE own == Collect(t, t.creates, bound).files
           one == Collect(t, OneLiner(t.inline), bound).files
<1>3. ScanCommandCreates(t, bound).files = <<>> \/ ScanCommandCreates(t, bound).files = own \o one
    BY DEF ScanCommandCreates, Nothing
<1>4. IsSeq(own \o one)
    BY CollectSeq, ConcatElements
<1> QED BY <1>1, <1>2, <1>3, <1>4, CollectSeq

LEMMA FilesSeqStep ==
    ASSUME WalkInv, IsSeq(files), Scanning
    PROVE  IsSeq(files')
<1>1. CASE ManageFiles
    <2> DEFINE one == ScanModuleArgs(Current, LocalVars).files
               two == ScanCommandCreates(Current, LocalVars).files
    <2>1. files' = files \o one \o two /\ Current \in OfKind("task")
        BY <1>1, HereIsReached DEF ManageFiles, Walking
    <2>2. Current.loop \in Seq(STRING)
        <3>1. Current.loop \in {i.loop : i \in OfKind("task")}
            BY <2>1
        <3> QED BY <3>1, ScanAssumption
    <2>3. IsSeq(one) /\ IsSeq(two)
        BY <2>2, TaskSeqs
    <2> HIDE DEF one, two
    <2>4. IsSeq(files \o one) /\ IsSeq((files \o one) \o two)
        BY <2>3, ConcatElements
    <2> QED BY <2>1, <2>4
<1>2. CASE files' \in {files, <<>>}
    <2>1. IsSeq(<<>>)
        BY DEF IsSeq
    <2> QED BY <1>2, <2>1
<1>3. ManageFiles \/ files' \in {files, <<>>}
    BY DEF Scanning, ScanPlaybook, ScanPlay, EnterBlocks, FollowInclude, SkipItem, LeaveList, Return
<1> QED BY <1>1, <1>2, <1>3

LEMMA NextOfScan ==
    ASSUME [Next]_vars
    PROVE  Start \/ Walk \/ UNCHANGED scanVars
<1>1. CASE Start \/ Walk
    BY <1>1
<1>2. CASE ScanFailed \/ PrintScan \/ AddScanned
    BY <1>2 DEF ScanFailed, PrintScan, AddScanned, AfterScan
<1>3. CASE CollectStat \/ CollectHash \/ Compare \/ Write \/ WriteFails
    BY <1>3 DEF CollectStat, CollectHash, Compare, Write, WriteFails, WriteStep
<1>4. CASE Check \/ Replace \/ \E p \in Paths : Edit(p)
    BY <1>4 DEF Check, Replace, Edit
<1>5. CASE UNCHANGED vars
    BY <1>5 DEF vars
<1> QED BY <1>1, <1>2, <1>3, <1>4, <1>5 DEF Next, Run

LEMMA NodesInit == Init => world \in Worlds
    BY ProvisionAssumption DEF Init

(* What every scan keeps, whether it is being walked or not.               *)
ScanPart == WalkInv /\ BoundInv /\ IsSeq(files)

LEMMA ScanPartFresh ==
    ASSUME world \in Worlds, todo = <<>> \/ todo = world.playbooks,
           stack = <<>>, visited = {}, files = <<>>
    PROVE  ScanPart /\ FilesAreManaged
<1>1. world.playbooks \in Seq(Seq(STRING))
    BY ScanAssumption
<1>2. IsSeq(<<>>) /\ Elements(<<>>) = {}
    BY DEF IsSeq, Elements
<1>3. IsSeq(world.playbooks)
    BY <1>1, SeqElements
<1>4. WalkInv
    BY <1>2, <1>3 DEF WalkInv, GivenOnly, FramesReached
<1>5. BoundInv
    BY FS_EmptySet DEF BoundInv, AllFit
<1> QED BY <1>2, <1>4, <1>5 DEF ScanPart, FilesAreManaged

LEMMA ScanPartInit == Init => ScanPart /\ FilesAreManaged
    BY NodesInit, ScanPartFresh DEF Init

LEMMA ScanPartStart ==
    ASSUME ScanPart, Start
    PROVE  ScanPart' /\ FilesAreManaged'
<1>1. world' = world /\ world \in Worlds
    BY DEF Start, ScanPart, WalkInv
<1>2. todo' = <<>> \/ todo' = world.playbooks
    BY DEF Start
<1>3. stack' = <<>> /\ visited' = {} /\ files' = <<>>
    BY DEF Start
<1>4. world.playbooks \in Seq(Seq(STRING))
    BY <1>1, ScanAssumption
<1>5. IsSeq(<<>>) /\ Elements(<<>>) = {}
    BY DEF IsSeq, Elements
<1>6. IsSeq(world.playbooks)
    BY <1>4, SeqElements
<1>7. WalkInv'
    BY <1>1, <1>2, <1>3, <1>5, <1>6 DEF WalkInv, GivenOnly, FramesReached
<1>8. BoundInv'
    BY <1>3, FS_EmptySet DEF BoundInv, AllFit
<1> QED BY <1>3, <1>5, <1>7, <1>8 DEF ScanPart, FilesAreManaged

LEMMA ScanPartStep == ScanPart /\ [Next]_vars => ScanPart'
<1> SUFFICES ASSUME ScanPart, [Next]_vars PROVE ScanPart'
    OBVIOUS
<1>1. CASE Start
    BY <1>1, ScanPartStart
<1>2. CASE Walk
    <2>1. Scanning
        BY <1>2 DEF Walk
    <2> QED BY <2>1, WalkInvStep, BoundStep, FilesSeqStep DEF ScanPart
<1>3. CASE UNCHANGED scanVars
    <2>1. WalkInv' /\ BoundInv'
        BY <1>3, WalkInvStep, BoundStep DEF ScanPart
    <2> QED BY <1>3, <2>1 DEF ScanPart, scanVars
<1> QED BY <1>1, <1>2, <1>3, NextOfScan

LEMMA ScanPartAlways == Spec => []ScanPart
<1>1. Init => ScanPart
    BY ScanPartInit
<1> QED BY <1>1, ScanPartStep, PTL DEF Spec

LEMMA ManagedStep ==
    ASSUME PlainOneLiners
    PROVE  ScanPart /\ FilesAreManaged /\ [Next]_vars => FilesAreManaged'
<1> SUFFICES ASSUME ScanPart, FilesAreManaged, [Next]_vars PROVE FilesAreManaged'
    OBVIOUS
<1>0. ScanInv
    BY DEF ScanPart, ScanInv
<1>1. CASE Start
    BY <1>1, ScanPartStart
<1>2. CASE Walk
    BY <1>0, <1>2, ScanInvStep DEF Walk, ScanInv
<1>3. CASE UNCHANGED scanVars
    BY <1>0, <1>3, ScanInvStep DEF ScanInv
<1> QED BY <1>1, <1>2, <1>3, NextOfScan

(* A run of the command line, however often it is started and whatever is  *)
(* edited meanwhile, lists only what its playbooks manage.                 *)
THEOREM RunsListManaged ==
    ASSUME PlainOneLiners
    PROVE  Spec => []FilesAreManaged
<1>1. Init => ScanPart /\ FilesAreManaged
    BY ScanPartInit
<1>2. ScanPart /\ FilesAreManaged /\ [Next]_vars => (ScanPart /\ FilesAreManaged)'
    BY ScanPartStep, ManagedStep
<1> QED BY <1>1, <1>2, PTL DEF Spec

(* Once a scan has started it is accounted for what it has walked.         *)
AccountPart == place = "scan" \/ outcome # "running" => AccountInv

LEMMA AccountPartStep ==
    ASSUME PlainOneLiners
    PROVE  ScanPart /\ FilesAreManaged /\ AccountPart /\ [Next]_vars => AccountPart'
<1> SUFFICES ASSUME ScanPart, FilesAreManaged, AccountPart, [Next]_vars PROVE AccountPart'
    OBVIOUS
<1>0. ScanInv
    BY DEF ScanPart, ScanInv
<1>1. CASE Start
    <2>1. /\ world' = world /\ stack' = <<>> /\ visited' = {} /\ outcome' = "running"
        BY <1>1 DEF Start
    <2>2. place' = "scan" => todo' = world.playbooks
        BY <1>1 DEF Start, Ended
    <2>3. place' = "scan" => Walked({})'
        BY <2>1, <2>2 DEF Walked
    <2> QED BY <2>1, <2>3 DEF AccountPart, AccountInv
<1>2. CASE Walk
    <2>1. Scanning /\ place = "scan"
        BY <1>2 DEF Walk
    <2> QED BY <1>0, <2>1, AccountStep DEF AccountPart
<1>3. CASE UNCHANGED scanVars /\ ~Start
    <2>1. place' = "scan" => place = "scan"
        <3>1. CASE ScanFailed \/ PrintScan \/ AddScanned
            BY <3>1 DEF ScanFailed, PrintScan, AddScanned, Ended
        <3>2. CASE CollectStat \/ CollectHash \/ Compare \/ Write \/ WriteFails
            BY <3>2 DEF CollectStat, CollectHash, Compare, Write, WriteFails, Skip, Ended
        <3>3. CASE Check \/ Replace \/ \E p \in Paths : Edit(p)
            BY <3>3 DEF Check, Replace, Edit
        <3>4. CASE UNCHANGED vars
            BY <3>4 DEF vars
        <3>5. CASE Walk
            BY <3>5 DEF Walk
        <3> QED BY <1>3, <3>1, <3>2, <3>3, <3>4, <3>5 DEF Next, Run
    <2>2. outcome' = outcome
        BY <1>3 DEF scanVars
    <2>3. AccountInv => AccountInv'
        BY <1>0, <1>3, AccountStep
    <2> QED BY <2>1, <2>2, <2>3 DEF AccountPart
<1> QED BY <1>1, <1>2, <1>3, NextOfScan

LEMMA AccountAlways ==
    ASSUME PlainOneLiners
    PROVE  Spec => [](ScanPart /\ FilesAreManaged /\ AccountPart)
<1>1. Init => ScanPart /\ FilesAreManaged /\ AccountPart
    BY ScanPartInit DEF Init, AccountPart
<1>2. ScanPart /\ FilesAreManaged /\ AccountPart /\ [Next]_vars
          => (ScanPart /\ FilesAreManaged /\ AccountPart)'
    BY ScanPartStep, ManagedStep, AccountPartStep
<1> QED BY <1>1, <1>2, PTL DEF Spec

-----------------------------------------------------------------------------
(* The node and its history: what a file is now is one of the states it had*)
(* since either of the two runs that are remembered began.                 *)
NodeInv ==
    /\ fs \in [Paths -> FileStates]
    /\ during \in [Paths -> SUBSET FileStates] /\ since \in [Paths -> SUBSET FileStates]
    /\ \A p \in Paths : /\ fs[p] \in during[p] /\ fs[p] \in since[p]
                        /\ IsFiniteSet(during[p]) /\ IsFiniteSet(since[p])
    /\ dest.status \in {"absent", "broken", "whole"}

LEMMA NodeInit == Init => NodeInv
<1> SUFFICES ASSUME Init PROVE NodeInv
    OBVIOUS
<1>1. PICK n \in Nodes : fs = n.fs /\ dest = n.dest
    BY DEF Init
<1>2. fs \in [Paths -> FileStates] /\ dest.status \in {"absent", "broken", "whole"}
    BY <1>1, ProvisionAssumption
<1>3. during = [p \in Paths |-> {fs[p]}] /\ since = during
    BY DEF Init
<1>4. \A p \in Paths : IsFiniteSet({fs[p]})
    BY FS_Singleton
<1> QED BY <1>2, <1>3, <1>4 DEF NodeInv

LEMMA NodeStep == NodeInv /\ [Next]_vars => NodeInv'
<1> SUFFICES ASSUME NodeInv, [Next]_vars PROVE NodeInv'
    OBVIOUS
<1>1. CASE Start
    <2>1. /\ fs' = fs /\ dest' = dest /\ since' = since
          /\ during' = [p \in Paths |-> {fs[p]}]
        BY <1>1 DEF Start
    <2>2. \A p \in Paths : IsFiniteSet({fs[p]})
        BY FS_Singleton
    <2> QED BY <2>1, <2>2 DEF NodeInv
<1>2. CASE Write \/ WriteFails
    <2>1. fs' = fs /\ during' = during
        BY <1>2 DEF Write, WriteFails, WriteStep
    <2>2. CASE Installs
        <3>1. since' = during /\ dest'.status = "whole"
            BY <2>2 DEF Installs
        <3> QED BY <2>1, <3>1 DEF NodeInv
    <2>3. CASE UNCHANGED <<dest, since>>
        BY <2>1, <2>3 DEF NodeInv
    <2> QED BY <1>2, <2>2, <2>3 DEF Write, WriteFails
<1>3. CASE Replace
    <2>1. fs' = fs /\ during' = during /\ since' = since /\ dest' \in Manifests
        BY <1>3 DEF Replace
    <2> QED BY <2>1, ProvisionAssumption DEF NodeInv
<1>4. ASSUME NEW p \in Paths, Edit(p)
      PROVE  NodeInv'
    <2>1. PICK file \in StatesOf[p] :
              /\ fs' = [fs EXCEPT ![p] = file]
              /\ during' = [during EXCEPT ![p] = @ \cup {file}]
              /\ since' = [since EXCEPT ![p] = @ \cup {file}]
        BY <1>4 DEF Edit
    <2>2. file \in FileStates /\ dest' = dest
        BY <1>4, <2>1, ProvisionAssumption DEF Edit
    <2>3. fs' \in [Paths -> FileStates]
        BY <2>1, <2>2 DEF NodeInv
    <2>4. during' \in [Paths -> SUBSET FileStates] /\ since' \in [Paths -> SUBSET FileStates]
        BY <2>1, <2>2 DEF NodeInv
    <2>5. ASSUME NEW q \in Paths
          PROVE  /\ fs'[q] \in during'[q] /\ fs'[q] \in since'[q]
                 /\ IsFiniteSet(during'[q]) /\ IsFiniteSet(since'[q])
        <3>1. IsFiniteSet(during[q] \cup {file}) /\ IsFiniteSet(since[q] \cup {file})
            BY FS_AddElement DEF NodeInv
        <3> QED BY <2>1, <3>1 DEF NodeInv
    <2> QED BY <2>2, <2>3, <2>4, <2>5 DEF NodeInv
<1>5. CASE UNCHANGED <<fs, dest, during, since>>
    BY <1>5 DEF NodeInv
<1>6. \/ Start \/ Write \/ WriteFails \/ Replace \/ \E p \in Paths : Edit(p)
      \/ UNCHANGED <<fs, dest, during, since>>
    BY DEF Next, Run, Walk, ScanFailed, PrintScan, AddScanned, AfterScan, CollectStat, CollectHash,
           Compare, Check, around, vars
<1> QED BY <1>1, <1>2, <1>3, <1>4, <1>5, <1>6

-----------------------------------------------------------------------------
(* Where a run is, and what it has in hand there.                          *)
CommandsInv ==
    /\ \A c \in commands :
          c.cmd \in {"scan", "write"} /\ (c.cmd = "scan" => c.scan) /\ IsSeq(c.files)
    /\ IsSeq(call.files)
    /\ place # "idle" => call.cmd \in {"scan", "write"}
PlaceInv ==
    /\ place \in {"idle", "scan", "stat", "hash", "write"}
    /\ place # "idle" => report = NoReport
    /\ report.cmd \in {"none", "scan", "write", "check"} /\ report.code \in {0, 1, 2}
    /\ IsSeq(list)
    /\ place = "hash" => list # <<>> /\ Head(list) \in Paths
    /\ place = "write" => list = <<>>
    /\ place \in {"stat", "hash", "write"} =>
          call.cmd = "write" /\ (call.scan => outcome = "done")
    /\ changed \in BOOLEAN
RunInv == CommandsInv /\ PlaceInv

LEMMA RunInit == Init => RunInv
<1> SUFFICES ASSUME Init PROVE RunInv
    OBVIOUS
<1>1. PICK n \in Nodes : commands = n.commands
    BY DEF Init
<1>2. ASSUME NEW c \in commands
      PROVE  c.cmd \in {"scan", "write"} /\ (c.cmd = "scan" => c.scan) /\ IsSeq(c.files)
    <2>1. c.files \in {d.files : d \in n.commands}
        BY <1>1
    <2>2. c.files \in Seq(Seq(STRING))
        BY <2>1, ProvisionAssumption
    <2> QED BY <1>1, <2>2, ProvisionAssumption, SeqElements
<1>3. IsSeq(<<>>)
    BY DEF IsSeq
<1> QED BY <1>2, <1>3 DEF Init, RunInv, CommandsInv, PlaceInv, NoReport

LEMMA RunStep == ScanPart /\ RunInv /\ [Next]_vars => RunInv'
<1> SUFFICES ASSUME ScanPart, RunInv, [Next]_vars PROVE RunInv'
    OBVIOUS
<1> USE DEF RunInv, NoReport
<1>1. CASE Start
    <2>1. PICK c \in commands :
              /\ call' = c /\ list' = c.files
              /\ IF c.scan /\ world.playbooks = <<>>
                   THEN Ended(c.cmd, 2, "")
                   ELSE place' = (IF c.scan THEN "scan" ELSE "stat") /\ report' = NoReport
        BY <1>1 DEF Start
    <2>2. commands' = commands /\ changed' = FALSE
        BY <1>1 DEF Start
    <2>3. c.cmd \in {"scan", "write"} /\ (c.cmd = "scan" => c.scan) /\ IsSeq(c.files)
        BY DEF CommandsInv
    <2>4. CommandsInv'
        BY <2>1, <2>2, <2>3 DEF CommandsInv
    <2>5. CASE c.scan /\ world.playbooks = <<>>
        <3>1. place' = "idle" /\ report'.cmd = c.cmd /\ report'.code = 2
            BY <2>1, <2>5 DEF Ended
        <3> QED BY <2>1, <2>2, <2>3, <2>4, <3>1 DEF PlaceInv
    <2>6. CASE ~(c.scan /\ world.playbooks = <<>>)
        <3>0. report' = NoReport
            BY <2>1, <2>6
        <3>1. report' = NoReport /\ report'.cmd = "none" /\ report'.code = 0
            BY <3>0
        <3>2. IF c.scan THEN place' = "scan" ELSE place' = "stat" /\ c.cmd = "write"
            BY <2>1, <2>3, <2>6
        <3>3. PlaceInv'
            BY <2>1, <2>2, <2>3, <3>1, <3>2 DEF PlaceInv
        <3> QED BY <2>4, <3>3
    <2> QED BY <2>5, <2>6
<1>2. CASE Walk
    <2>1. UNCHANGED <<commands, call, place, list, changed, report>> /\ place = "scan"
        BY <1>2 DEF Walk, around, collected
    <2> QED BY <2>1 DEF CommandsInv, PlaceInv
<1>3. CASE ScanFailed \/ PrintScan
    <2>1. UNCHANGED <<commands, call, list, changed>> /\ place = "scan" /\ place' = "idle"
        BY <1>3 DEF ScanFailed, PrintScan, AfterScan, around, Ended
    <2>2. report'.cmd \in {"scan", "write"} /\ report'.code \in {0, 1, 2}
        BY <1>3, <2>1 DEF ScanFailed, PrintScan, Ended, CommandsInv
    <2> QED BY <2>1, <2>2 DEF CommandsInv, PlaceInv
<1>4. CASE AddScanned
    <2>1. /\ UNCHANGED <<commands, call, changed, report, outcome>> /\ place = "scan"
          /\ place' = "stat" /\ call.cmd = "write" /\ outcome = "done"
          /\ list' = Dedupe(call.files \o Dedupe(files))
        BY <1>4 DEF AddScanned, AfterScan, around, scanVars
    <2>2. IsSeq(list')
        <3>1. IsSeq(Dedupe(files)) /\ IsSeq(call.files)
            BY DedupeElements DEF ScanPart, CommandsInv
        <3>2. IsSeq(call.files \o Dedupe(files))
            BY <3>1, ConcatElements
        <3> QED BY <2>1, <3>2, DedupeElements
    <2> QED BY <2>1, <2>2 DEF CommandsInv, PlaceInv
<1>5. CASE CollectStat \/ CollectHash
    <2>1. /\ UNCHANGED <<commands, call, changed, report, outcome>>
          /\ place \in {"stat", "hash"} /\ list # <<>>
          /\ \/ list' = Tail(list) /\ place' = "stat"
             \/ list' = list /\ place' = "hash" /\ Head(list) \in Paths
        BY <1>5 DEF CollectStat, CollectHash, Skip, IsRegular, around, scanVars, PlaceInv
    <2>2. IsSeq(Tail(list))
        BY <2>1, TailElements DEF PlaceInv
    <2> QED BY <2>1, <2>2 DEF CommandsInv, PlaceInv
<1>6. CASE Compare
    <2>1. /\ UNCHANGED <<commands, call, report, outcome, list>>
          /\ place = "stat" /\ list = <<>> /\ place' = "write"
          /\ changed' = (dest.status # "whole" \/ Differs(dest))
        BY <1>6 DEF Compare, around, collected, scanVars
    <2>2. changed' \in BOOLEAN
        BY <2>1
    <2> QED BY <2>1, <2>2 DEF CommandsInv, PlaceInv
<1>7. CASE Write \/ WriteFails
    <2>1. /\ UNCHANGED <<commands, call, list, changed>> /\ place' = "idle"
          /\ report'.cmd = "write" /\ report'.code \in {0, 2}
        BY <1>7 DEF Write, WriteFails, WriteStep, Ended, collected
    <2> QED BY <2>1 DEF CommandsInv, PlaceInv
<1>8. CASE Check
    <2>1. UNCHANGED <<commands, call, place, list, changed, outcome>> /\ place = "idle"
        BY <1>8 DEF Check, around, collected, scanVars
    <2>2. ExitCode \in {0, 1, 2}
        BY DEF ExitCode
    <2>3. PICK flag, conf :
              report' = [cmd |-> "check", said |-> "", flag |-> flag, conf |-> conf,
                         code |-> IF Resolves(flag, conf) THEN ExitCode ELSE 2]
        BY <1>8 DEF Check
    <2>4. report'.cmd = "check" /\ report'.code \in {0, 1, 2}
        BY <2>2, <2>3
    <2> QED BY <2>1, <2>4 DEF CommandsInv, PlaceInv
<1>9. CASE Replace \/ \E p \in Paths : Edit(p)
    <2>1. UNCHANGED <<commands, call, place, list, changed, outcome>> /\ report' = NoReport
        BY <1>9 DEF Replace, Edit, collected, scanVars
    <2> QED BY <2>1 DEF CommandsInv, PlaceInv
<1>10. CASE UNCHANGED vars
    <2>1. UNCHANGED <<commands, call, place, list, changed, outcome, report>>
        BY <1>10 DEF vars, around, collected, scanVars
    <2> QED BY <2>1 DEF CommandsInv, PlaceInv
<1> QED BY <1>1, <1>2, <1>3, <1>4, <1>5, <1>6, <1>7, <1>8, <1>9, <1>10 DEF Next, Run

-----------------------------------------------------------------------------
(* What a run records: the stat and the bytes it has in hand, and each     *)
(* entry it has made of them, are those of states the file has had since   *)
(* the run began.                                                          *)
HashInv ==
    IF place = "hash"
      THEN /\ \E s \in during[Head(list)] : info = StatOf(s)
           /\ \A bytes \in window : \E s \in during[Head(list)] :
                 s.kind = "regular" /\ bytes = s.content
      ELSE info = NoInfo /\ window = {}

StatIn(f, states) ==
    \E s \in states : f.mode = s.mode /\ f.size = SizeOf[s.content] /\ f.mtime = s.mtime
ShaIn(f, states) ==
    \/ \E s \in states : s.kind = "regular" /\ f.sha = Digest(s.content)
    \/ f.sha = Digest(Torn) /\ Cardinality(states) > 1
EntryOf(f, history) ==
    f.path \in Paths /\ StatIn(f, history[f.path]) /\ ShaIn(f, history[f.path])

EntriesInv == IsSeq(entries) /\ \A f \in Elements(entries) : EntryOf(f, during)
DestInv ==
    dest.by = "run" =>
        /\ dest.status = "whole" /\ IsSeq(dest.files)
        /\ \A f \in Elements(dest.files) : EntryOf(f, since)
RecordInv == HashInv /\ EntriesInv /\ DestInv

(* An entry stays one of a history that goes on.                           *)
LEMMA EntryGrows ==
    ASSUME NEW h, NEW g, \A p \in Paths : h[p] \subseteq g[p] /\ IsFiniteSet(g[p]),
           NEW f, EntryOf(f, h)
    PROVE  EntryOf(f, g)
<1> DEFINE p == f.path
<1>1. p \in Paths /\ StatIn(f, h[p]) /\ ShaIn(f, h[p])
    BY DEF EntryOf
<1>2. h[p] \subseteq g[p] /\ IsFiniteSet(g[p])
    BY <1>1
<1>3. /\ Cardinality(h[p]) \in Nat /\ Cardinality(g[p]) \in Nat
      /\ Cardinality(h[p]) <= Cardinality(g[p])
    BY <1>2, FS_Subset, FS_CardinalityType
<1>4. StatIn(f, g[p])
    BY <1>1, <1>2 DEF StatIn
<1>5. ShaIn(f, g[p])
    BY <1>1, <1>2, <1>3 DEF ShaIn
<1> QED BY <1>1, <1>4, <1>5 DEF EntryOf

(* A read mixes two versions only of a file that had two states.           *)
LEMMA MixedMeansEdited ==
    ASSUME NEW W, NEW T, IsFiniteSet(T), \A bytes \in W : \E s \in T : bytes = s.content,
           Cardinality(W) > 1
    PROVE  Cardinality(T) > 1
<1>1. Cardinality(T) \in Nat
    BY FS_CardinalityType
<1>2. ASSUME Cardinality(T) = 0
      PROVE  FALSE
    <2>1. T = {}
        BY <1>2, FS_EmptySet
    <2>2. W = {}
        BY <2>1
    <2> QED BY <2>2, FS_EmptySet
<1>3. ASSUME Cardinality(T) = 1
      PROVE  FALSE
    <2>1. PICK s : T = {s}
        BY <1>3, FS_Singleton
    <2>2. W = {} \/ W = {s.content}
        BY <2>1
    <2>3. Cardinality({}) = 0 /\ Cardinality({s.content}) = 1
        BY FS_EmptySet, FS_Singleton
    <2> QED BY <2>2, <2>3
<1> QED BY <1>1, <1>2, <1>3

LEMMA AppendElements ==
    ASSUME NEW s, NEW x, IsSeq(s)
    PROVE  IsSeq(Append(s, x)) /\ Elements(Append(s, x)) = Elements(s) \cup {x}
<1>1. s \in Seq(Elements(s)) /\ Len(s) \in Nat /\ DOMAIN s = 1..Len(s)
    BY DEF IsSeq
<1>2. /\ DOMAIN Append(s, x) = 1..(Len(s) + 1) /\ Append(s, x)[Len(s) + 1] = x
      /\ \A i \in 1..Len(s) : Append(s, x)[i] = s[i]
    BY <1>1
<1>3. \A i \in 1..(Len(s) + 1) : i \in 1..Len(s) \/ i = Len(s) + 1
    BY <1>1
<1>4. Elements(Append(s, x)) = Elements(s) \cup {x}
    BY <1>1, <1>2, <1>3 DEF Elements
<1>5. s \in Seq(Elements(s) \cup {x})
    BY <1>1
<1>6. Append(s, x) \in Seq(Elements(s) \cup {x})
    BY <1>5
<1> QED BY <1>4, <1>6 DEF IsSeq

LEMMA RecordInit == Init => RecordInv
<1> SUFFICES ASSUME Init PROVE RecordInv
    OBVIOUS
<1>1. PICK n \in Nodes : dest = n.dest
    BY DEF Init
<1>2. dest.by # "run"
    BY <1>1, ProvisionAssumption
<1>3. IsSeq(<<>>) /\ Elements(<<>>) = {}
    BY DEF IsSeq, Elements
<1>4. place = "idle" /\ info = NoInfo /\ window = {} /\ entries = <<>>
    BY DEF Init
<1> QED BY <1>2, <1>3, <1>4 DEF RecordInv, HashInv, EntriesInv, DestInv

LEMMA RecordStep == NodeInv /\ RunInv /\ RecordInv /\ [Next]_vars => RecordInv'
<1> SUFFICES ASSUME NodeInv, RunInv, RecordInv, [Next]_vars PROVE RecordInv'
    OBVIOUS
<1>0. HashInv /\ EntriesInv /\ DestInv
    BY DEF RecordInv
<1>1. CASE Start
    <2>1. UNCHANGED <<dest, since, info, window>> /\ entries' = <<>> /\ place = "idle"
        BY <1>1 DEF Start
    <2>2. place' # "hash"
        BY <1>1 DEF Start, Ended
    <2>3. IsSeq(<<>>) /\ Elements(<<>>) = {}
        BY DEF IsSeq, Elements
    <2>4. HashInv'
        BY <1>0, <2>1, <2>2 DEF HashInv
    <2>5. EntriesInv' /\ DestInv'
        BY <1>0, <2>1, <2>3 DEF EntriesInv, DestInv
    <2> QED BY <2>4, <2>5 DEF RecordInv
<1>2. CASE CollectStat
    <2>1. UNCHANGED <<dest, since, during, entries>> /\ place = "stat"
        BY <1>2 DEF CollectStat, Skip, around
    <2>2. CASE Skip
        <3>1. info' = NoInfo /\ window' = {} /\ place' = "stat"
            BY <2>2 DEF Skip
        <3>2. HashInv'
            BY <3>1 DEF HashInv
        <3> QED BY <1>0, <2>1, <3>2 DEF RecordInv, EntriesInv, DestInv
    <2>3. CASE ~Skip
        <3> DEFINE p == Head(list)
        <3>1. /\ p \in Paths /\ info' = StatOf(fs[p]) /\ window' = Bytes(fs[p])
              /\ place' = "hash" /\ list' = list
            BY <1>2, <2>3 DEF CollectStat, IsRegular
        <3>2. fs[p] \in during[p]
            BY <3>1 DEF NodeInv
        <3>3. \A bytes \in window' : fs[p].kind = "regular" /\ bytes = fs[p].content
            BY <3>1 DEF Bytes
        <3>4. HashInv'
            BY <2>1, <3>1, <3>2, <3>3 DEF HashInv
        <3> QED BY <1>0, <2>1, <3>4 DEF RecordInv, EntriesInv, DestInv
    <2> QED BY <2>2, <2>3
<1>3. CASE CollectHash
    <2>1. /\ UNCHANGED <<dest, since, during>> /\ place = "hash" /\ place' = "stat"
          /\ info' = NoInfo /\ window' = {}
        BY <1>3 DEF CollectHash, Skip, around
    <2>2. HashInv' /\ DestInv'
        BY <1>0, <2>1 DEF HashInv, DestInv
    <2>3. CASE Skip
        <3>1. entries' = entries
            BY <2>3 DEF Skip
        <3> QED BY <1>0, <2>1, <2>2, <3>1 DEF RecordInv, EntriesInv
    <2>4. CASE ~Skip
        <3> DEFINE p == Head(list)
        <3>1. PICK bytes \in window \cup (IF Cardinality(window) > 1 THEN {Torn} ELSE {}) :
                  entries' = Append(entries, Collected(p, bytes))
            BY <1>3, <2>4 DEF CollectHash
        <3>2. p \in Paths
            BY <2>1 DEF RunInv, PlaceInv
        <3>3. IsFiniteSet(during[p])
            BY <3>2 DEF NodeInv
        <3>4. PICK s \in during[p] : info = StatOf(s)
            BY <1>0, <2>1 DEF HashInv
        <3>5. \A b \in window : \E t \in during[p] : t.kind = "regular" /\ b = t.content
            BY <1>0, <2>1 DEF HashInv
        <3> DEFINE f == Collected(p, bytes)
        <3>6. /\ f.path = p /\ f.sha = Digest(bytes)
              /\ f.mode = s.mode /\ f.size = SizeOf[s.content] /\ f.mtime = s.mtime
            BY <3>4 DEF Collected, StatOf
        <3> HIDE DEF f
        <3>7. StatIn(f, during[p])
            BY <3>4, <3>6 DEF StatIn
        <3>8. ShaIn(f, during[p])
            <4>1. CASE bytes \in window
                BY <3>5, <3>6, <4>1 DEF ShaIn
            <4>2. CASE bytes \notin window
                <5>1. bytes = Torn /\ Cardinality(window) > 1
                    BY <3>1, <4>2
                <5>2. Cardinality(during[p]) > 1
                    BY <3>3, <3>5, <5>1, MixedMeansEdited
                <5> QED BY <3>6, <5>1, <5>2 DEF ShaIn
            <4> QED BY <4>1, <4>2
        <3>9. EntryOf(f, during)
            BY <3>2, <3>6, <3>7, <3>8 DEF EntryOf
        <3>10. entries' = Append(entries, f)
            BY <3>1 DEF f
        <3>11. IsSeq(entries') /\ Elements(entries') = Elements(entries) \cup {f}
            BY <1>0, <3>10, AppendElements DEF EntriesInv
        <3>12. EntriesInv'
            BY <1>0, <2>1, <3>9, <3>11 DEF EntriesInv
        <3> QED BY <2>2, <3>12 DEF RecordInv
    <2> QED BY <2>3, <2>4
<1>4. CASE Write \/ WriteFails
    <2>1. /\ UNCHANGED <<during, info, window, entries>>
          /\ place = "write" /\ place' = "idle"
        BY <1>4 DEF Write, WriteFails, WriteStep, Ended, collected
    <2>2. HashInv' /\ EntriesInv'
        BY <1>0, <2>1 DEF HashInv, EntriesInv
    <2>3. CASE Installs
        <3>1. dest'.status = "whole" /\ dest'.files = entries /\ since' = during
            BY <2>3 DEF Installs
        <3>2. DestInv'
            BY <1>0, <3>1 DEF DestInv, EntriesInv
        <3> QED BY <2>2, <3>2 DEF RecordInv
    <2>4. CASE UNCHANGED <<dest, since>>
        BY <1>0, <2>2, <2>4 DEF RecordInv, DestInv
    <2> QED BY <1>4, <2>3, <2>4 DEF Write, WriteFails
<1>5. ASSUME NEW p \in Paths, Edit(p)
      PROVE  RecordInv'
    <2>1. PICK file \in StatesOf[p] :
              /\ during' = [during EXCEPT ![p] = @ \cup {file}]
              /\ since' = [since EXCEPT ![p] = @ \cup {file}]
              /\ window' = IF place = "hash" /\ Head(list) = p THEN window \cup Bytes(file)
                           ELSE window
        BY <1>5 DEF Edit
    <2>2. UNCHANGED <<dest, place, list, info, entries>>
        BY <1>5 DEF Edit
    <2>3. \A q \in Paths : /\ during[q] \subseteq during'[q] /\ since[q] \subseteq since'[q]
        BY <2>1 DEF NodeInv
    <2>4. file \in during'[p]
        BY <2>1 DEF NodeInv
    <2>5. NodeInv'
        BY NodeStep
    <2>6. \A q \in Paths : IsFiniteSet(during'[q]) /\ IsFiniteSet(since'[q])
        BY <2>5 DEF NodeInv
    <2>7. EntriesInv'
        <3>1. ASSUME NEW f, EntryOf(f, during)
              PROVE  EntryOf(f, during')
            BY <2>3, <2>6, <3>1, EntryGrows
        <3> QED BY <1>0, <2>2, <3>1 DEF EntriesInv
    <2>8. DestInv'
        <3>1. ASSUME NEW f, EntryOf(f, since)
              PROVE  EntryOf(f, since')
            BY <2>3, <2>6, <3>1, EntryGrows
        <3> QED BY <1>0, <2>2, <3>1 DEF DestInv
    <2>9. HashInv'
        <3>1. CASE place # "hash"
            BY <1>0, <2>1, <2>2, <3>1 DEF HashInv
        <3>2. CASE place = "hash"
            <4>1. Head(list) \in Paths
                BY <3>2 DEF RunInv, PlaceInv
            <4>2. \E s \in during'[Head(list)] : info' = StatOf(s)
                BY <1>0, <2>2, <2>3, <3>2, <4>1 DEF HashInv
            <4>3. ASSUME NEW bytes \in window'
                  PROVE  \E s \in during'[Head(list)] : s.kind = "regular" /\ bytes = s.content
                <5>1. CASE bytes \in window
                    BY <1>0, <2>3, <3>2, <4>1, <5>1 DEF HashInv
                <5>2. CASE bytes \notin window
                    BY <2>1, <2>4, <5>2 DEF Bytes
                <5> QED BY <5>1, <5>2
            <4> QED BY <2>2, <3>2, <4>2, <4>3 DEF HashInv
        <3> QED BY <3>1, <3>2
    <2> QED BY <2>7, <2>8, <2>9 DEF RecordInv
<1>6. CASE Replace
    <2>1. UNCHANGED <<during, since, place, list, info, window, entries>> /\ dest' \in Manifests
        BY <1>6 DEF Replace, collected
    <2>2. dest'.by # "run"
        BY <2>1, ProvisionAssumption
    <2> QED BY <1>0, <2>1, <2>2 DEF RecordInv, HashInv, EntriesInv, DestInv
<1>7. CASE Walk \/ ScanFailed \/ PrintScan \/ AddScanned \/ Compare
    <2>1. /\ UNCHANGED <<dest, during, since, info, window, entries>>
          /\ place # "hash" /\ place' # "hash"
        BY <1>7 DEF Walk, ScanFailed, PrintScan, AddScanned, AfterScan, Compare, Ended, around, collected
    <2> QED BY <1>0, <2>1 DEF RecordInv, HashInv, EntriesInv, DestInv
<1>8. CASE Check \/ UNCHANGED vars
    <2>1. UNCHANGED <<dest, during, since, place, list, info, window, entries>>
        BY <1>8 DEF Check, around, collected, vars
    <2> QED BY <1>0, <2>1 DEF RecordInv, HashInv, EntriesInv, DestInv
<1> QED BY <1>1, <1>2, <1>3, <1>4, <1>5, <1>6, <1>7, <1>8 DEF Next, Run

LEMMA RunsAlways == Spec => [](ScanPart /\ NodeInv /\ RunInv /\ RecordInv)
<1>1. Init => ScanPart /\ NodeInv /\ RunInv /\ RecordInv
    BY ScanPartInit, NodeInit, RunInit, RecordInit
<1>2. ScanPart /\ NodeInv /\ RunInv /\ RecordInv /\ [Next]_vars
          => (ScanPart /\ NodeInv /\ RunInv /\ RecordInv)'
    BY ScanPartStep, NodeStep, RunStep, RecordStep
<1> QED BY <1>1, <1>2, PTL DEF Spec

(* Nothing is carried over from an earlier manifest: each attribute of an  *)
(* entry is that of a state its file had since the run began, and a hash of*)
(* mixed bytes is that of a file edited meanwhile.                         *)
THEOREM EntriesOfThisRun == Spec => []EntriesAreOfTheRun
<1>1. RecordInv => EntriesAreOfTheRun
    <2> SUFFICES ASSUME RecordInv, dest.by = "run", NEW k \in DOMAIN dest.files
                 PROVE  LET f == dest.files[k] IN
                        /\ \E s \in since[f.path] :
                              f.mode = s.mode /\ f.size = SizeOf[s.content] /\ f.mtime = s.mtime
                        /\ \/ \E s \in since[f.path] : f.sha = Digest(s.content)
                           \/ f.sha = Digest(Torn) /\ Cardinality(since[f.path]) > 1
        BY DEF EntriesAreOfTheRun
    <2>1. dest.files[k] \in Elements(dest.files)
        BY DEF Elements
    <2>2. EntryOf(dest.files[k], since)
        BY <2>1 DEF RecordInv, DestInv
    <2> QED BY <2>2 DEF EntryOf, StatIn, ShaIn
<1> QED BY <1>1, RunsAlways, PTL

(* Types of the command line's variables.                                  *)
THEOREM ProvisionTypes == Spec => []TypeOK
<1>1. NodeInv /\ RunInv /\ RecordInv => TypeOK
    <2> SUFFICES ASSUME NodeInv, RunInv, RecordInv PROVE TypeOK
        OBVIOUS
    <2>1. /\ fs \in [Paths -> FileStates] /\ dest.status \in {"absent", "broken", "whole"}
          /\ place \in {"idle", "scan", "stat", "hash", "write"}
          /\ changed \in BOOLEAN /\ report.code \in {0, 1, 2}
        BY DEF NodeInv, RunInv, PlaceInv
    <2>2. ASSUME NEW s \in FileStates
          PROVE  /\ StatOf(s) \in Infos /\ StatOf(s) # NoInfo
                 /\ s.content \in Contents /\ s.mode \in Modes /\ s.mtime \in MTimes
                 /\ SizeOf[s.content] \in Nat /\ Digest(s.content) \in Digests
        <3>1. /\ s.kind \in Kinds /\ s.content \in Contents
              /\ s.mode \in Modes /\ s.mtime \in MTimes
            BY DEF FileStates
        <3>2. SizeOf[s.content] \in Nat
            BY <3>1, FileDataAssumption
        <3>3. StatOf(s) \in Infos
            BY <3>1, <3>2 DEF StatOf, Infos
        <3>4. StatOf(s).kind \in Kinds /\ NoInfo.kind \notin Kinds
            BY <3>1 DEF StatOf, NoInfo, Kinds
        <3>5. StatOf(s) # NoInfo
            BY <3>4
        <3> QED BY <3>1, <3>2, <3>3, <3>5 DEF Digests
    <2>3. \A p \in Paths : during[p] \subseteq FileStates
        BY DEF NodeInv
    <2>4. info \in Infos \cup {NoInfo} /\ (info = NoInfo <=> place # "hash") /\ window \subseteq Contents
        <3>1. CASE place = "hash"
            <4>1. Head(list) \in Paths
                BY <3>1 DEF RunInv, PlaceInv
            <4>2. during[Head(list)] \subseteq FileStates
                BY <2>3, <4>1
            <4>3. PICK s \in during[Head(list)] : info = StatOf(s)
                BY <3>1 DEF RecordInv, HashInv
            <4>4. \A bytes \in window : \E t \in during[Head(list)] : bytes = t.content
                BY <3>1 DEF RecordInv, HashInv
            <4>5. info \in Infos /\ info # NoInfo
                BY <2>2, <4>2, <4>3
            <4>6. window \subseteq Contents
                BY <2>2, <4>2, <4>4
            <4> QED BY <3>1, <4>5, <4>6
        <3>2. CASE place # "hash"
            BY <3>2 DEF RecordInv, HashInv
        <3> QED BY <3>1, <3>2
    <2>5. ASSUME NEW f \in Elements(entries)
          PROVE  /\ f.path \in Paths /\ f.sha \in Digests \cup {Digest(Torn)}
                 /\ f.mode \in Modes /\ f.size \in Nat /\ f.mtime \in MTimes
        <3>1. f.path \in Paths /\ StatIn(f, during[f.path]) /\ ShaIn(f, during[f.path])
            BY DEF RecordInv, EntriesInv, EntryOf
        <3>2. during[f.path] \subseteq FileStates
            BY <2>3, <3>1
        <3>3. f.mode \in Modes /\ f.size \in Nat /\ f.mtime \in MTimes
            BY <2>2, <3>1, <3>2 DEF StatIn
        <3>4. f.sha \in Digests \cup {Digest(Torn)}
            BY <2>2, <3>1, <3>2 DEF ShaIn
        <3> QED BY <3>1, <3>3, <3>4
    <2> QED BY <2>1, <2>4, <2>5 DEF TypeOK
<1> QED BY <1>1, RunsAlways, PTL

-----------------------------------------------------------------------------
(* A check is reported until the node changes, so that what it said is what*)
(* it would say now.                                                       *)
CheckInv ==
    report.cmd = "check" =>
        report.code = IF Resolves(report.flag, report.conf) THEN ExitCode ELSE 2

LEMMA CheckStep == RunInv /\ CheckInv /\ [Next]_vars => CheckInv'
<1> SUFFICES ASSUME RunInv, CheckInv, [Next]_vars PROVE CheckInv'
    OBVIOUS
<1>1. CASE Start
    <2>1. PICK c \in commands : report' = NoReport \/ Ended(c.cmd, 2, "")
        BY <1>1 DEF Start
    <2>2. report'.cmd \in {"none", c.cmd}
        <3>1. CASE report' = NoReport
            BY <3>1 DEF NoReport
        <3>2. CASE Ended(c.cmd, 2, "")
            BY <3>2 DEF Ended, NoReport
        <3> QED BY <2>1, <3>1, <3>2
    <2>3. c.cmd # "check"
        BY DEF RunInv, CommandsInv
    <2> QED BY <2>2, <2>3 DEF CheckInv
<1>2. CASE ScanFailed \/ PrintScan \/ Write \/ WriteFails
    <2>1. report'.cmd \in {call.cmd, "scan", "write"}
        BY <1>2 DEF ScanFailed, PrintScan, Write, WriteFails, Ended, NoReport
    <2>2. place # "idle"
        BY <1>2 DEF ScanFailed, PrintScan, AfterScan, Write, WriteFails, WriteStep
    <2> QED BY <2>1, <2>2 DEF CheckInv, RunInv, CommandsInv
<1>3. CASE Replace \/ \E p \in Paths : Edit(p)
    <2>1. report' = NoReport
        BY <1>3 DEF Replace, Edit
    <2>2. report'.cmd = "none"
        BY <2>1 DEF NoReport
    <2> QED BY <2>2 DEF CheckInv
<1>4. CASE Check
    <2>1. UNCHANGED <<dest, fs>>
        BY <1>4 DEF Check, around
    <2>2. ExitCode' = ExitCode
        BY <2>1 DEF ExitCode
    <2>3. PICK flag, conf :
              report' = [cmd |-> "check", said |-> "", flag |-> flag, conf |-> conf,
                         code |-> IF Resolves(flag, conf) THEN ExitCode ELSE 2]
        BY <1>4 DEF Check
    <2>4. /\ report'.flag = flag /\ report'.conf = conf
          /\ report'.code = IF Resolves(flag, conf) THEN ExitCode ELSE 2
        BY <2>3
    <2> QED BY <2>2, <2>4 DEF CheckInv, Resolves
<1>5. CASE UNCHANGED <<report, dest, fs>>
    <2>1. ExitCode' = ExitCode
        BY <1>5 DEF ExitCode
    <2> QED BY <1>5, <2>1 DEF CheckInv, Resolves
<1>6. Walk \/ AddScanned \/ CollectStat \/ CollectHash \/ Compare \/ UNCHANGED vars
          => UNCHANGED <<report, dest, fs>>
    BY DEF Walk, AddScanned, AfterScan, CollectStat, CollectHash, Compare, around, vars
<1> QED BY <1>1, <1>2, <1>3, <1>4, <1>5, <1>6 DEF Next, Run

(* A file that has had one state since the run began is as its entry says. *)
LEMMA RestingIsClean ==
    ASSUME NodeInv, NEW f, EntryOf(f, since), Cardinality(since[f.path]) = 1
    PROVE  WellFormed(f) /\ FileVerdict(f, fs[f.path]) = Clean
<1> DEFINE p == f.path
           s == fs[p]
<1>1. p \in Paths
    BY DEF EntryOf
<1>2. s \in since[p] /\ IsFiniteSet(since[p])
    BY <1>1 DEF NodeInv
<1>3. \E x : since[p] = {x}
    BY <1>2, FS_Singleton
<1>4. since[p] = {s}
    BY <1>2, <1>3
<1>5. f.mode = s.mode /\ s.kind = "regular" /\ f.sha = Digest(s.content)
    BY <1>4 DEF EntryOf, StatIn, ShaIn
<1>6. WellFormed(f)
    BY <1>5 DEF WellFormed, Digest, NoSha
<1>7. StatVerdict(f, LocalConfig, StatOf(s)) = "hash"
    BY <1>5 DEF StatVerdict, StatOf, LocalConfig
<1>8. HashVerdict(f, LocalConfig, StatOf(s), Digest(s.content)) = Clean
    BY <1>5 DEF HashVerdict, LocalConfig, EffectiveChecks, DefaultCheckSet
<1>9. s.kind # "unreadable"
    BY <1>5
<1>10. FileVerdict(f, s) = Clean
    BY <1>7, <1>8, <1>9 DEF FileVerdict
<1> QED BY <1>6, <1>10

(* The role's last task: after a run, with no tracked file edited since it *)
(* began, the check exits with 0, whatever the manifest was before and     *)
(* whatever configuration is beside the -manifest flag.                    *)
THEOREM BaselinesReadClean == Spec => []BaselineReadsClean
<1>1. Init => CheckInv
    <2>1. Init => report = NoReport
        BY DEF Init
    <2>2. NoReport.cmd = "none"
        BY DEF NoReport
    <2> QED BY <2>1, <2>2 DEF CheckInv
<1>2. Spec => []CheckInv
    BY <1>1, CheckStep, RunsAlways, PTL DEF Spec
<1>3. NodeInv /\ RecordInv /\ CheckInv => BaselineReadsClean
    <2> SUFFICES ASSUME NodeInv, RecordInv, CheckInv,
                        report.cmd = "check", dest.by = "run",
                        \A k \in DOMAIN dest.files : Cardinality(since[dest.files[k].path]) = 1,
                        report.conf = "good" \/ (report.flag /\ report.conf # "empty")
                 PROVE  report.code = 0
        BY DEF BaselineReadsClean
    <2>1. Resolves(report.flag, report.conf)
        BY DEF Resolves
    <2>2. report.code = ExitCode
        BY <2>1 DEF CheckInv
    <2>3. dest.status = "whole"
        BY DEF RecordInv, DestInv
    <2>4. ASSUME NEW f \in Elements(dest.files)
          PROVE  WellFormed(f) /\ FileVerdict(f, fs[f.path]) = Clean
        <3>1. EntryOf(f, since)
            BY DEF RecordInv, DestInv
        <3>2. Cardinality(since[f.path]) = 1
            BY DEF Elements
        <3> QED BY <3>1, <3>2, RestingIsClean
    <2> QED BY <2>2, <2>3, <2>4 DEF ExitCode
<1> QED BY <1>2, <1>3, RunsAlways, PTL

-----------------------------------------------------------------------------
(* What a run was asked to track is, from the end of its scan on, still to *)
(* be collected, collected, or warned of.                                  *)
Asked == Elements(call.files) \cup (IF call.scan THEN Elements(files) ELSE {})
PathsOf(es) == {f.path : f \in Elements(es)}
Said == report.cmd = "write" /\ report.code = 0
Collecting == place \in {"stat", "hash", "write"}

KeptInv == Collecting \/ Said => Asked \subseteq missed \cup PathsOf(entries) \cup Elements(list)
SaidInv ==
    Said => /\ dest.files = entries /\ list = <<>>
            /\ call.scan => outcome = "done"
ListInv == KeptInv /\ SaidInv

LEMMA ListStart ==
    ASSUME Start
    PROVE  ListInv'
<1>1. PICK c \in commands :
          /\ call' = c /\ list' = c.files
          /\ IF c.scan /\ world.playbooks = <<>>
               THEN Ended(c.cmd, 2, "")
               ELSE place' = (IF c.scan THEN "scan" ELSE "stat") /\ report' = NoReport
    BY DEF Start
<1>2. /\ report' \in {NoReport, [NoReport EXCEPT !.cmd = c.cmd, !.code = 2, !.said = ""]}
      /\ place' \in {"stat", "scan", "idle"} /\ (place' = "stat" => ~c.scan)
    BY <1>1 DEF Ended
<1>3. report'.cmd = "none" \/ report'.code = 2
    <2>1. CASE report' = NoReport
        BY <2>1 DEF NoReport
    <2>2. CASE report' = [NoReport EXCEPT !.cmd = c.cmd, !.code = 2, !.said = ""]
        BY <2>2 DEF NoReport
    <2> QED BY <1>2, <2>1, <2>2
<1>4. ~Said'
    BY <1>3 DEF Said
<1>5. Collecting' => Asked' = Elements(list')
    BY <1>1, <1>2 DEF Collecting, Asked
<1> QED BY <1>4, <1>5 DEF ListInv, KeptInv, SaidInv

LEMMA ListStep == ScanPart /\ RunInv /\ RecordInv /\ ListInv /\ [Next]_vars => ListInv'
<1> SUFFICES ASSUME ScanPart, RunInv, RecordInv, ListInv, [Next]_vars PROVE ListInv'
    OBVIOUS
<1>0. KeptInv /\ SaidInv
    BY DEF ListInv
<1>a. place # "idle" => ~Said
    <2>1. NoReport.cmd # "write"
        BY DEF NoReport
    <2> QED BY <2>1 DEF RunInv, PlaceInv, Said
<1>1. CASE Start
    BY <1>1, ListStart
<1>2. CASE Walk \/ ScanFailed \/ PrintScan
    <2>1. CASE Walk
        <3>1. UNCHANGED <<place, report>> /\ place = "scan"
            BY <2>1 DEF Walk
        <3>2. ~Said' /\ ~Collecting'
            BY <1>a, <3>1 DEF Said, Collecting
        <3> QED BY <3>2 DEF ListInv, KeptInv, SaidInv
    <2>2. CASE ScanFailed \/ PrintScan
        <3>1. place' = "idle" /\ (report'.cmd = "scan" \/ report'.code = 2)
            BY <2>2 DEF ScanFailed, PrintScan, Ended, NoReport
        <3>2. ~Said' /\ ~Collecting'
            BY <3>1 DEF Said, Collecting
        <3> QED BY <3>2 DEF ListInv, KeptInv, SaidInv
    <2> QED BY <1>2, <2>1, <2>2
<1>3. CASE AddScanned
    <2>1. /\ UNCHANGED <<call, files, report>> /\ place = "scan"
          /\ list' = Dedupe(call.files \o Dedupe(files))
        BY <1>3 DEF AddScanned, AfterScan, scanVars
    <2>2. IsSeq(call.files) /\ IsSeq(files)
        BY DEF ScanPart, RunInv, CommandsInv
    <2>3. IsSeq(Dedupe(files)) /\ Elements(Dedupe(files)) = Elements(files)
        BY <2>2, DedupeElements
    <2>4. /\ IsSeq(call.files \o Dedupe(files))
          /\ Elements(call.files) \cup Elements(files) \subseteq Elements(call.files \o Dedupe(files))
        BY <2>2, <2>3, ConcatElements, ConcatKeeps
    <2>5. Elements(call.files) \cup Elements(files) \subseteq Elements(list')
        BY <2>1, <2>4, DedupeElements
    <2>6. Asked' \subseteq Elements(list')
        BY <2>1, <2>5 DEF Asked
    <2>7. ~Said'
        BY <1>a, <2>1 DEF Said
    <2> QED BY <2>6, <2>7 DEF ListInv, KeptInv, SaidInv
<1>4. CASE CollectStat \/ CollectHash
    <2>1. /\ UNCHANGED <<call, files, report>> /\ Collecting /\ place # "idle"
          /\ list # <<>> /\ IsSeq(list)
        BY <1>4 DEF CollectStat, CollectHash, scanVars, Collecting, RunInv, PlaceInv
    <2>2. ~Said' /\ Asked' = Asked
        BY <1>a, <2>1 DEF Said, Asked
    <2>3. Elements(list) = {Head(list)} \cup Elements(Tail(list))
        BY <2>1, HeadAndTail, TailElements
    <2>4. CASE Skip
        <3>1. /\ missed' = missed \cup {Head(list)} /\ entries' = entries
              /\ list' = Tail(list)
            BY <2>4 DEF Skip
        <3> QED BY <1>0, <2>1, <2>2, <2>3, <3>1 DEF ListInv, KeptInv, SaidInv
    <2>5. CASE UNCHANGED <<list, entries, missed>>
        BY <1>0, <2>1, <2>2, <2>5 DEF ListInv, KeptInv, SaidInv
    <2>6. CASE CollectHash /\ ~Skip
        <3>1. PICK bytes : /\ entries' = Append(entries, Collected(Head(list), bytes))
                           /\ list' = Tail(list) /\ missed' = missed
            BY <2>6 DEF CollectHash
        <3> DEFINE f == Collected(Head(list), bytes)
        <3>2. f.path = Head(list)
            BY DEF Collected
        <3> HIDE DEF f
        <3>3. entries' = Append(entries, f)
            BY <3>1 DEF f
        <3>4. Elements(entries') = Elements(entries) \cup {f}
            BY <3>3, AppendElements DEF RecordInv, EntriesInv
        <3>5. PathsOf(entries') = PathsOf(entries) \cup {Head(list)}
            BY <3>2, <3>4 DEF PathsOf
        <3> QED BY <1>0, <2>1, <2>2, <2>3, <3>1, <3>5 DEF ListInv, KeptInv, SaidInv
    <2>7. CollectStat => Skip \/ UNCHANGED <<list, entries, missed>>
        BY DEF CollectStat
    <2> QED BY <1>4, <2>4, <2>5, <2>6, <2>7
<1>5. CASE Compare
    <2>1. UNCHANGED <<call, files, report, missed, entries, list>> /\ Collecting /\ place # "idle"
        BY <1>5 DEF Compare, scanVars, collected, Collecting
    <2>2. ~Said' /\ Asked' = Asked
        BY <1>a, <2>1 DEF Said, Asked
    <2> QED BY <1>0, <2>1, <2>2 DEF ListInv, KeptInv, SaidInv
<1>6. CASE Write
    <2>1. /\ UNCHANGED <<call, files, outcome, missed, entries, list>> /\ Collecting
          /\ dest'.files = entries /\ place' = "idle" /\ place = "write"
        BY <1>6 DEF Write, WriteStep, Installs, Ended, scanVars, collected, Collecting
    <2>2. list = <<>> /\ (call.scan => outcome = "done")
        BY <2>1 DEF RunInv, PlaceInv
    <2>3. Asked' = Asked
        BY <2>1 DEF Asked
    <2>4. KeptInv' /\ SaidInv'
        BY <1>0, <2>1, <2>2, <2>3 DEF KeptInv, SaidInv
    <2> QED BY <2>4 DEF ListInv
<1>7. CASE WriteFails
    <2>1. place' = "idle" /\ report'.code = 2
        BY <1>7 DEF WriteFails, Ended, NoReport
    <2> QED BY <2>1 DEF ListInv, KeptInv, SaidInv, Said, Collecting
<1>8. CASE Check
    <2>0. PICK flag, conf :
              report' = [cmd |-> "check", said |-> "", flag |-> flag, conf |-> conf,
                         code |-> IF Resolves(flag, conf) THEN ExitCode ELSE 2]
        BY <1>8 DEF Check
    <2>1. place' = "idle" /\ report'.cmd = "check"
        BY <1>8, <2>0 DEF Check
    <2> QED BY <2>1 DEF ListInv, KeptInv, SaidInv, Said, Collecting
<1>9. CASE Replace \/ \E p \in Paths : Edit(p)
    <2>1. UNCHANGED <<place, call, files, missed, entries, list>> /\ report' = NoReport
        BY <1>9 DEF Replace, Edit, scanVars, collected
    <2>2. report'.cmd = "none"
        BY <2>1 DEF NoReport
    <2>3. ~Said' /\ (Collecting' <=> Collecting) /\ Asked' = Asked
        BY <2>1, <2>2 DEF Said, Collecting, Asked
    <2> QED BY <1>0, <2>1, <2>3 DEF ListInv, KeptInv, SaidInv
<1>10. CASE UNCHANGED vars
    <2>1. UNCHANGED <<place, call, files, outcome, missed, entries, list, dest, report>>
        BY <1>10 DEF vars, scanVars, around, collected
    <2>2. (Said' <=> Said) /\ (Collecting' <=> Collecting) /\ Asked' = Asked
        BY <2>1 DEF Said, Collecting, Asked
    <2> QED BY <1>0, <2>1, <2>2 DEF ListInv, KeptInv, SaidInv
<1> QED BY <1>1, <1>2, <1>3, <1>4, <1>5, <1>6, <1>7, <1>8, <1>9, <1>10 DEF Next, Run

(* A task has one action: a block or an include is not a module as well.   *)
OneActionEach ==
    \A w \in Worlds : \A c \in Reached(w) :
        c.task.blocks # <<>> \/ c.task.include # <<>> => RawPaths(c.task) = {}

(* What a run that ended well was asked to track, by -files or by the      *)
(* playbooks it scanned, is in the manifest or was warned of.              *)
THEOREM AskedIsTracked ==
    ASSUME PlainOneLiners, OneActionEach
    PROVE  Spec => []ManagedIsTracked
<1>1. Init => ListInv
    <2>1. NoReport.cmd # "write"
        BY DEF NoReport
    <2> QED BY <2>1 DEF Init, ListInv, KeptInv, SaidInv, Said, Collecting
<1>2. Spec => []ListInv
    BY <1>1, ListStep, RunsAlways, PTL DEF Spec
<1>3. ScanPart /\ FilesAreManaged /\ AccountPart /\ ListInv => ManagedIsTracked
    <2> SUFFICES ASSUME ScanPart, FilesAreManaged, AccountPart, ListInv, Wrote
                 PROVE  /\ Elements(call.files) \subseteq TrackedOrMissed
                        /\ call.scan /\ IncludesAreFixed(world) /\ Legible(world) =>
                              \A c \in Reached(world) : \E d \in Reached(world) :
                                /\ d.task = c.task /\ d.dir = c.dir
                                /\ \A raw \in RawPaths(d.task) :
                                      \/ ManagedPaths(raw, d.vars, d.task.loop) \subseteq TrackedOrMissed
                                      \/ WarnedOf(d.task)
        BY DEF ManagedIsTracked
    <2>1. Said
        BY DEF Wrote, Said
    <2>2. dest.files = entries /\ list = <<>> /\ (call.scan => outcome = "done")
        BY <2>1 DEF ListInv, SaidInv
    <2>3. Elements(list) = {}
        BY <2>2 DEF Elements
    <2>4. TrackedOrMissed = missed \cup PathsOf(entries)
        BY <2>2 DEF TrackedOrMissed, PathsOf, Elements
    <2>5. Asked \subseteq TrackedOrMissed
        BY <2>1, <2>3, <2>4 DEF ListInv, KeptInv
    <2>6. Elements(call.files) \subseteq TrackedOrMissed
        BY <2>5 DEF Asked
    <2>7. ASSUME call.scan, IncludesAreFixed(world), Legible(world), NEW c \in Reached(world)
          PROVE  \E d \in Reached(world) :
                    /\ d.task = c.task /\ d.dir = c.dir
                    /\ \A raw \in RawPaths(d.task) :
                          \/ ManagedPaths(raw, d.vars, d.task.loop) \subseteq TrackedOrMissed
                          \/ WarnedOf(d.task)
        <3>1. outcome = "done" /\ Elements(files) \subseteq TrackedOrMissed
            BY <2>2, <2>5, <2>7 DEF Asked
        <3>2. ScanInv /\ AccountInv
            BY <3>1 DEF ScanPart, ScanInv, AccountPart
        <3>3. EveryTaskAccountedFor
            BY <3>2, DoneMeansAll
        <3>4. PICK d \in Reached(world) : d.task = c.task /\ d.dir = c.dir /\ AccountedFor(d)
            BY <2>7, <3>1, <3>3 DEF EveryTaskAccountedFor
        <3>5. world \in Worlds
            BY DEF ScanPart, WalkInv
        <3>6. ASSUME NEW raw \in RawPaths(d.task)
              PROVE  \/ ManagedPaths(raw, d.vars, d.task.loop) \subseteq TrackedOrMissed
                     \/ WarnedOf(d.task)
            <4>1. d.task.blocks = <<>> /\ d.task.include = <<>>
                BY <3>5 DEF OneActionEach
            <4>2. PathsAccountedFor(d)
                BY <3>4, <4>1 DEF AccountedFor
            <4> QED BY <3>1, <4>2 DEF PathsAccountedFor
        <3> QED BY <3>4, <3>6
    <2> QED BY <2>6, <2>7
<1> QED BY <1>2, <1>3, AccountAlways, PTL

-----------------------------------------------------------------------------
(* The installed list of files is among those installed since the run      *)
(* began, and so are the entries of a run that found them as installed.    *)
ReplacedInv ==
    /\ place # "idle" => dest.files \in replaced
    /\ place = "write" /\ ~changed => entries \in replaced

LEMMA ReplacedStep == RunInv /\ ReplacedInv /\ [Next]_vars => ReplacedInv'
<1> SUFFICES ASSUME RunInv, ReplacedInv, [Next]_vars PROVE ReplacedInv'
    OBVIOUS
<1> USE DEF ReplacedInv
<1>1. CASE Start
    <2>1. dest' = dest /\ replaced' = {dest.files} /\ place' # "write"
        BY <1>1 DEF Start, Ended
    <2> QED BY <2>1
<1>2. CASE ScanFailed \/ PrintScan \/ Write \/ WriteFails
    <2>1. place' = "idle"
        BY <1>2 DEF ScanFailed, PrintScan, Write, WriteFails, Ended
    <2> QED BY <2>1
<1>3. CASE Walk \/ AddScanned \/ CollectStat \/ CollectHash
    <2>1. UNCHANGED <<dest, replaced>> /\ place # "idle" /\ place' # "write"
        BY <1>3 DEF Walk, AddScanned, AfterScan, CollectStat, CollectHash, Skip, around
    <2> QED BY <2>1
<1>4. CASE Compare
    <2>1. /\ UNCHANGED <<dest, replaced, entries>> /\ place = "stat"
          /\ ~changed' => dest.files = entries
        BY <1>4 DEF Compare, Differs, around, collected
    <2> QED BY <2>1
<1>5. CASE Replace
    <2>1. replaced' = replaced \cup {dest'.files} /\ UNCHANGED <<place, changed, entries>>
        BY <1>5 DEF Replace, collected
    <2> QED BY <2>1
<1>6. CASE Check \/ (\E p \in Paths : Edit(p)) \/ UNCHANGED vars
    <2>1. UNCHANGED <<dest, replaced, place, changed, entries>>
        BY <1>6 DEF Check, Edit, around, collected, vars
    <2> QED BY <2>1
<1> QED BY <1>1, <1>2, <1>3, <1>4, <1>5, <1>6 DEF Next, Run

(* The second half of ReportOfChangeIsTrue.                                *)
UnchangedIsTrue == place = "write" /\ report'.said = "unchanged" => dest'.files \in replaced

(* A run that says "unchanged", for which the role reports no change, left *)
(* the list of files it found or one that somebody else installed while it *)
(* ran: it never replaces what it did not compare itself with.             *)
THEOREM UnchangedLeavesFiles == Spec => [][UnchangedIsTrue]_vars
<1>1. Init => ReplacedInv
    BY DEF Init, ReplacedInv
<1>2. Spec => []ReplacedInv
    BY <1>1, ReplacedStep, RunsAlways, PTL DEF Spec
<1>3. RunInv /\ ReplacedInv /\ [Next]_vars => UnchangedIsTrue
    <2> SUFFICES ASSUME RunInv, ReplacedInv, [Next]_vars,
                        place = "write", report'.said = "unchanged"
                 PROVE  dest'.files \in replaced
        BY DEF UnchangedIsTrue
    <2>0. NoReport.said = ""
        BY DEF NoReport
    <2>1. CASE Write
        <3>1. report'.said = IF changed THEN "wrote" ELSE "unchanged"
            BY <2>1 DEF Write, Ended, NoReport
        <3>2. dest'.files = entries
            BY <2>1 DEF Write, Installs
        <3> QED BY <3>1, <3>2 DEF ReplacedInv
    <2>2. CASE WriteFails
        <3>1. report'.said = ""
            BY <2>2 DEF WriteFails, Ended, NoReport
        <3> QED BY <3>1
    <2>3. CASE Replace \/ \E p \in Paths : Edit(p)
        <3>1. report' = NoReport
            BY <2>3 DEF Replace, Edit
        <3> QED BY <2>0, <3>1
    <2>4. CASE UNCHANGED vars
        <3>1. report' = report /\ report = NoReport
            BY <2>4 DEF vars, RunInv, PlaceInv
        <3> QED BY <2>0, <3>1
    <2>5. Write \/ WriteFails \/ Replace \/ (\E p \in Paths : Edit(p)) \/ UNCHANGED vars
        BY DEF Next, Run, Start, Walk, ScanFailed, PrintScan, AddScanned, AfterScan,
               CollectStat, CollectHash, Compare, Check
    <2> QED BY <2>1, <2>2, <2>3, <2>4, <2>5
<1>4. RunInv /\ ReplacedInv /\ [Next]_vars => [UnchangedIsTrue]_vars
    BY <1>3
<1> QED BY <1>2, <1>4, RunsAlways, PTL DEF Spec
=============================================================================
