---------------------------- MODULE RecordProofs ----------------------------
(***************************************************************************)
(* What Record promises for any files, recipes, failures and drift: its    *)
(* types, that only changes of a recorder's own window reach the manifest  *)
(* (for any number of recorders), and that runs accumulate in it (for one).*)
(***************************************************************************)
EXTENDS Record, TLAPS

(* The variables that are per recorder. *)
Domains ==
    /\ DOMAIN index = Recorders /\ DOMAIN stage = Recorders
    /\ DOMAIN infos = Recorders /\ DOMAIN built = Recorders
    /\ DOMAIN draft = Recorders /\ DOMAIN touched = Recorders

(* What an index says of a file that is as it is now. *)
AttrsNow(p) == Attrs(Digest(fs[p].content), StatOf(fs[p]))

-----------------------------------------------------------------------------
(* What the steps of one recorder do to its index in the making.           *)
LEMMA EmptyIndex == DOMAIN Empty = {}
BY DEF Empty

LEMMA FreshDraft == Fresh.files = Empty /\ Fresh.snapshot = {}
BY DEF Fresh

LEMMA WalkEffect ==
    ASSUME Domains, NEW r \in Recorders, NEW to, Walk(r, to)
    PROVE  /\ DOMAIN infos' = Recorders /\ DOMAIN built' = Recorders
           /\ DOMAIN stage' = Recorders
           /\ stage'[r] = to /\ built'[r] = Empty
           /\ DOMAIN infos'[r] = Walked
           /\ \A p \in Walked : infos'[r][p] = StatOf(fs[p])
           /\ \A q \in Recorders \ {r} : infos'[q] = infos[q] /\ built'[q] = built[q]
                                         /\ stage'[q] = stage[q]
BY DEF Domains, Walk

LEMMA HashEffect ==
    ASSUME Domains, NEW r \in Recorders, NEW p, Hash(r, p)
    PROVE  /\ DOMAIN infos' = Recorders /\ DOMAIN built' = Recorders
           /\ DOMAIN infos'[r] = DOMAIN infos[r] \ {p}
           /\ \A q \in DOMAIN infos'[r] : infos'[r][q] = infos[r][q]
           /\ fs[p].kind # "regular" => built'[r] = built[r]
           /\ fs[p].kind = "regular" =>
                 /\ DOMAIN built'[r] = DOMAIN built[r] \cup {p}
                 /\ built'[r][p] = Attrs(Digest(fs[p].content), infos[r][p])
                 /\ \A q \in DOMAIN built[r] \ {p} : built'[r][q] = built[r][q]
           /\ \A q \in Recorders \ {r} : infos'[q] = infos[q] /\ built'[q] = built[q]
<1>1. infos'[r] = [q \in DOMAIN infos[r] \ {p} |-> infos[r][q]]
  BY DEF Domains, Hash
<1>2. built'[r] = IF fs[p].kind # "regular" THEN built[r]
                  ELSE [q \in DOMAIN built[r] \cup {p} |->
                          IF q = p THEN Attrs(Digest(fs[p].content), infos[r][p])
                          ELSE built[r][q]]
  BY DEF Domains, Hash
<1>3. DOMAIN infos' = Recorders /\ DOMAIN built' = Recorders
      /\ \A q \in Recorders \ {r} : infos'[q] = infos[q] /\ built'[q] = built[q]
  BY DEF Domains, Hash
<1> QED
  BY <1>1, <1>2, <1>3

LEMMA FailEffect ==
    ASSUME Domains, NEW r \in Recorders, Fail(r)
    PROVE  /\ stage'[r] \in IF stage[r] = "begin" THEN {"idle"} ELSE AfterFailure
           /\ infos'[r] = Empty /\ built'[r] = Empty /\ draft'[r] = Fresh
           /\ \A q \in Recorders \ {r} : infos'[q] = infos[q] /\ built'[q] = built[q]
                                         /\ draft'[q] = draft[q] /\ stage'[q] = stage[q]
           /\ DOMAIN stage' = Recorders /\ DOMAIN infos' = Recorders
           /\ DOMAIN built' = Recorders /\ DOMAIN draft' = Recorders
BY DEF Domains, Fail

(* Merge, path by path.                                                    *)
LEMMA MergeDomain ==
    ASSUME NEW old, NEW before, NEW after, NEW p
    PROVE  p \in DOMAIN Merge(old, before, after) <=>
             IF p \in DiffIndexes(before, after) THEN p \in DOMAIN after
             ELSE p \in DOMAIN old
BY DEF Merge

LEMMA MergeValue ==
    ASSUME NEW old, NEW before, NEW after, NEW p \in DOMAIN Merge(old, before, after)
    PROVE  Merge(old, before, after)[p] =
             IF p \in DiffIndexes(before, after) THEN after[p] ELSE old[p]
BY DEF Merge

LEMMA MergeType ==
    ASSUME NEW old, NEW before, NEW after, NEW kind,
           IsIndex(old, kind), IsIndex(after, kind)
    PROVE  IsIndex(Merge(old, before, after), kind)
BY MergeDomain, MergeValue DEF IsIndex

-----------------------------------------------------------------------------
RecordTypeInv == TypeOK /\ Domains

LEMMA AttrsType ==
    ASSUME NEW c \in Contents, NEW info \in Infos
    PROVE  Attrs(Digest(c), info) \in FileAttrs
BY DEF Attrs, FileAttrs, Digests, Infos

LEMMA StatType == \A file \in FileStates : StatOf(file) \in Infos
BY FileDataAssumption DEF StatOf, Infos, FileStates

LEMMA WantType == \A p \in DOMAIN Want : p \in Paths /\ Want[p] \in FileStates
BY RecordAssumption DEF RecordAssumption

LEMMA InitRecordType == Init => RecordTypeInv
<1> SUFFICES ASSUME Init PROVE RecordTypeInv
  OBVIOUS
<1>1. fs \in [Paths -> FileStates]
  BY RecordAssumption DEF Init, RecordAssumption
<1>2. IsIndex(Empty, FileAttrs) /\ IsIndex(Empty, Infos)
  BY EmptyIndex DEF IsIndex
<1>3. Domains
  BY DEF Init, Domains
<1>4. ASSUME NEW r \in Recorders
      PROVE  /\ stage[r] = "idle" /\ touched[r] = {} /\ draft[r] = Fresh
             /\ index[r] = Empty /\ infos[r] = Empty /\ built[r] = Empty
  BY DEF Init
<1> QED
  BY <1>1, <1>2, <1>3, <1>4, FreshDraft DEF Init, RecordTypeInv, TypeOK

(* The types of one recorder's own variables. *)
LocalType(r) ==
    /\ stage[r] \in {"idle", "begin", "run", "end", "write"}
    /\ IsIndex(index[r], FileAttrs)
    /\ IsIndex(infos[r], Infos) /\ IsIndex(built[r], FileAttrs)
    /\ IsIndex(draft[r].files, FileAttrs) /\ draft[r].snapshot \subseteq Packages

LEMMA WalkType ==
    ASSUME RecordTypeInv, NEW r \in Recorders, NEW to \in {"begin", "end"}, Walk(r, to),
           UNCHANGED <<index, draft>>
    PROVE  \A q \in Recorders : LocalType(q)'
<1>1. IsIndex(infos'[r], Infos) /\ IsIndex(built'[r], FileAttrs)
  BY WalkEffect, EmptyIndex, StatType DEF RecordTypeInv, TypeOK, IsIndex, Walked
<1>2. ASSUME NEW q \in Recorders PROVE LocalType(q)'
  <2>1. CASE q = r
    BY <2>1, <1>1, WalkEffect DEF RecordTypeInv, TypeOK, LocalType
  <2>2. CASE q # r
    BY <2>2, WalkEffect DEF RecordTypeInv, TypeOK, LocalType
  <2> QED
    BY <2>1, <2>2
<1> QED
  BY <1>2

LEMMA HashType ==
    ASSUME RecordTypeInv, NEW r \in Recorders, NEW p \in Paths, Hash(r, p)
    PROVE  \A q \in Recorders : LocalType(q)'
<1>1. p \in DOMAIN infos[r] /\ UNCHANGED <<index, draft, stage>>
  BY DEF Hash
<1>2. IsIndex(infos'[r], Infos)
  BY HashEffect DEF RecordTypeInv, TypeOK, IsIndex
<1>3. IsIndex(built'[r], FileAttrs)
  <2>1. CASE fs[p].kind = "regular"
    <3>1. infos[r][p] \in Infos /\ fs[p].content \in Contents
      BY <1>1 DEF RecordTypeInv, TypeOK, IsIndex, FileStates
    <3>2. Attrs(Digest(fs[p].content), infos[r][p]) \in FileAttrs
      BY <3>1, AttrsType
    <3>3. /\ DOMAIN built'[r] = DOMAIN built[r] \cup {p}
          /\ built'[r][p] \in FileAttrs
          /\ \A q \in DOMAIN built[r] \ {p} : built'[r][q] = built[r][q]
      BY <2>1, <3>2, HashEffect DEF RecordTypeInv
    <3> QED
      BY <3>3 DEF RecordTypeInv, TypeOK, IsIndex
  <2>2. CASE fs[p].kind # "regular"
    BY <2>2, HashEffect DEF RecordTypeInv, TypeOK
  <2> QED
    BY <2>1, <2>2
<1>4. ASSUME NEW q \in Recorders PROVE LocalType(q)'
  <2>1. CASE q = r
    BY <2>1, <1>1, <1>2, <1>3 DEF RecordTypeInv, TypeOK, LocalType
  <2>2. CASE q # r
    BY <2>2, <1>1, HashEffect DEF RecordTypeInv, TypeOK, LocalType
  <2> QED
    BY <2>1, <2>2
<1> QED
  BY <1>4

LEMMA RecordTypeParts ==
    ASSUME RecordTypeInv,
           fs' \in [Paths -> FileStates],
           installed' \subseteq Packages, provided' \subseteq installed',
           IsIndex(files', FileAttrs), snapshot' \subseteq Packages,
           \A q \in Recorders : LocalType(q)',
           \A q \in Recorders : touched'[q] \subseteq Paths,
           applied' \subseteq Paths,
           Domains'
    PROVE  RecordTypeInv'
BY DEF RecordTypeInv, TypeOK, LocalType

LEMMA StepRecordType ==
    ASSUME RecordTypeInv, NEW r \in Recorders, RecorderStep(r) \/ Fail(r)
    PROVE  RecordTypeInv'
<1> USE DEF node, manifest, local, bounds, history
<1>0. /\ fs \in [Paths -> FileStates] /\ installed \subseteq Packages /\ provided \subseteq installed
      /\ IsIndex(files, FileAttrs) /\ snapshot \subseteq Packages
      /\ (\A q \in Recorders : LocalType(q) /\ touched[q] \subseteq Paths)
      /\ applied \subseteq Paths /\ Domains
  BY DEF RecordTypeInv, TypeOK, LocalType
<1>1. CASE Begin(r)
  <2>1. Walk(r, "begin") /\ UNCHANGED <<fs, installed, provided, files, snapshot, applied, index, draft>>
        /\ touched' = [touched EXCEPT ![r] = {}]
    BY <1>1 DEF Begin
  <2>2. \A q \in Recorders : LocalType(q)'
    BY <2>1, WalkType
  <2>3. Domains' /\ \A q \in Recorders : touched'[q] \subseteq Paths
    BY <2>1, <1>0, WalkEffect DEF Domains
  <2> QED
    BY <1>0, <2>1, <2>2, <2>3, RecordTypeParts
<1>2. CASE SaveIndex(r)
  <2>1. /\ UNCHANGED <<fs, installed, provided, files, snapshot, applied, infos, built, draft, touched>>
        /\ index' = [index EXCEPT ![r] = built[r]] /\ stage' = [stage EXCEPT ![r] = "run"]
    BY <1>2 DEF SaveIndex
  <2>2. ASSUME NEW q \in Recorders PROVE LocalType(q)'
    BY <1>0, <2>1 DEF LocalType, Domains
  <2>3. Domains'
    BY <1>0, <2>1 DEF Domains
  <2> QED
    BY <1>0, <2>1, <2>2, <2>3, RecordTypeParts
<1>3. CASE End(r)
  <2>1. Walk(r, "end")
        /\ UNCHANGED <<fs, installed, provided, files, snapshot, applied, touched, index, draft>>
    BY <1>3 DEF End
  <2>2. \A q \in Recorders : LocalType(q)'
    BY <2>1, WalkType
  <2>3. Domains'
    BY <2>1, <1>0, WalkEffect DEF Domains
  <2> QED
    BY <1>0, <2>1, <2>2, <2>3, RecordTypeParts
<1>4. CASE LoadAndMerge(r)
  <2>1. /\ UNCHANGED <<fs, installed, provided, files, snapshot, applied, infos, built, index, touched>>
        /\ draft' = [draft EXCEPT ![r] = [files |-> Merge(files, index[r], built[r]),
                                          snapshot |-> installed]]
        /\ stage' = [stage EXCEPT ![r] = "write"]
    BY <1>4 DEF LoadAndMerge
  <2>2. IsIndex(Merge(files, index[r], built[r]), FileAttrs)
    BY <1>0, MergeType DEF LocalType
  <2>3. ASSUME NEW q \in Recorders PROVE LocalType(q)'
    BY <1>0, <2>1, <2>2 DEF LocalType, Domains
  <2>4. Domains'
    BY <1>0, <2>1 DEF Domains
  <2> QED
    BY <1>0, <2>1, <2>3, <2>4, RecordTypeParts
<1>5. CASE Write(r)
  <2>1. /\ UNCHANGED <<fs, installed, provided, applied, infos, built, index, touched>>
        /\ files' = draft[r].files /\ snapshot' = draft[r].snapshot
        /\ draft' = [draft EXCEPT ![r] = Fresh] /\ stage' = [stage EXCEPT ![r] = "idle"]
    BY <1>5 DEF Write
  <2>2. IsIndex(Fresh.files, FileAttrs) /\ Fresh.snapshot \subseteq Packages
    BY FreshDraft, EmptyIndex DEF IsIndex
  <2>3. ASSUME NEW q \in Recorders PROVE LocalType(q)'
    BY <1>0, <2>1, <2>2 DEF LocalType, Domains
  <2>4. Domains' /\ IsIndex(files', FileAttrs) /\ snapshot' \subseteq Packages
    BY <1>0, <2>1 DEF Domains, LocalType
  <2> QED
    BY <1>0, <2>1, <2>3, <2>4, RecordTypeParts
<1>6. ASSUME NEW p \in Paths, Hash(r, p) PROVE RecordTypeInv'
  <2>1. UNCHANGED <<fs, installed, provided, files, snapshot, applied, touched, index, draft, stage>>
    BY <1>6 DEF Hash
  <2>2. Domains'
    BY <1>0, <1>6, <2>1, HashEffect DEF Domains
  <2> QED
    BY <1>0, <1>6, <2>1, <2>2, HashType, RecordTypeParts
<1>7. ASSUME NEW p \in Paths, Provision(r, p) PROVE RecordTypeInv'
  <2>1. /\ UNCHANGED <<installed, provided, files, snapshot, infos, built, index, draft, stage>>
        /\ fs' = [fs EXCEPT ![p] = Want[p]] /\ p \in DOMAIN Want
        /\ touched' = [q \in Recorders |-> touched[q] \cup {p}]
        /\ applied' = applied \cup ({p} \ touched[r])
    BY <1>7 DEF Provision
  <2>2. Domains' /\ \A q \in Recorders : LocalType(q)'
    BY <1>0, <2>1 DEF Domains, LocalType
  <2>3. fs' \in [Paths -> FileStates]
    BY <1>0, <2>1, WantType
  <2> QED
    BY <1>0, <2>1, <2>2, <2>3, RecordTypeParts
<1>8. ASSUME NEW k \in Packages, ProvisionPackage(r, k) PROVE RecordTypeInv'
  <2>1. /\ UNCHANGED <<fs, files, snapshot, infos, built, index, draft, stage, applied, touched>>
        /\ installed' = installed \cup {k} /\ provided' = provided \cup {k}
    BY <1>8 DEF ProvisionPackage
  <2>2. Domains' /\ \A q \in Recorders : LocalType(q)'
    BY <1>0, <2>1 DEF Domains, LocalType
  <2> QED
    BY <1>0, <2>1, <2>2, RecordTypeParts
<1>9. CASE Fail(r)
  <2>1. UNCHANGED <<fs, installed, provided, files, snapshot, applied, touched, index>>
    BY <1>9 DEF Fail
  <2>2. IsIndex(Empty, FileAttrs) /\ IsIndex(Empty, Infos)
        /\ IsIndex(Fresh.files, FileAttrs) /\ Fresh.snapshot \subseteq Packages
    BY FreshDraft, EmptyIndex DEF IsIndex
  <2>3. stage'[r] \in {"idle", "run"}
    BY <1>0, <1>9, FailEffect, RecordAssumption DEF RecordAssumption
  <2>4. ASSUME NEW q \in Recorders PROVE LocalType(q)'
    <3>1. CASE q = r
      BY <3>1, <1>0, <1>9, <2>1, <2>2, <2>3, FailEffect DEF LocalType
    <3>2. CASE q # r
      BY <3>2, <1>0, <1>9, <2>1, FailEffect DEF LocalType
    <3> QED
      BY <3>1, <3>2
  <2>5. Domains'
    BY <1>0, <1>9, <2>1, FailEffect DEF Domains
  <2> QED
    BY <1>0, <2>1, <2>4, <2>5, RecordTypeParts
<1> QED
  BY <1>1, <1>2, <1>3, <1>4, <1>5, <1>6, <1>7, <1>8, <1>9 DEF RecorderStep

LEMMA DriftRecordType ==
    ASSUME RecordTypeInv,
           \/ Damage
           \/ \E p \in Paths : Drift(p)
           \/ \E k \in Packages : DriftPackage(k)
           \/ UNCHANGED vars
    PROVE  RecordTypeInv'
<1> USE DEF node, manifest, local, bounds, history
<1>0. /\ fs \in [Paths -> FileStates] /\ installed \subseteq Packages /\ provided \subseteq installed
      /\ IsIndex(files, FileAttrs) /\ snapshot \subseteq Packages
      /\ (\A q \in Recorders : LocalType(q) /\ touched[q] \subseteq Paths)
      /\ applied \subseteq Paths /\ Domains
  BY DEF RecordTypeInv, TypeOK, LocalType
<1>1. ASSUME UNCHANGED local PROVE \A q \in Recorders : LocalType(q)'
  BY <1>0, <1>1 DEF LocalType
<1>2. CASE Damage
  <2>1. IsIndex(files', FileAttrs) /\ Domains'
    BY <1>0, <1>2, EmptyIndex DEF Damage, IsIndex, Domains
  <2> QED
    BY <1>0, <1>1, <1>2, <2>1, RecordTypeParts DEF Damage
<1>3. ASSUME NEW p \in Paths, Drift(p) PROVE RecordTypeInv'
  <2>1. fs' \in [Paths -> FileStates]
    BY <1>0, <1>3, RecordAssumption DEF Drift, RecordAssumption
  <2>2. touched' = [q \in Recorders |-> touched[q] \cup {p}] /\ UNCHANGED local
        /\ applied' = applied \ {p} /\ UNCHANGED <<installed, provided, files, snapshot>>
    BY <1>3 DEF Drift
  <2>3. Domains' /\ \A q \in Recorders : touched'[q] \subseteq Paths
    BY <1>0, <2>2 DEF Domains
  <2> QED
    BY <1>0, <1>1, <2>1, <2>2, <2>3, RecordTypeParts
<1>4. ASSUME NEW k \in Packages, DriftPackage(k) PROVE RecordTypeInv'
  <2>1. Domains'
    BY <1>0, <1>4 DEF DriftPackage, Domains
  <2>2. installed' \subseteq Packages /\ provided' \subseteq installed'
    BY <1>0, <1>4 DEF DriftPackage
  <2> QED
    BY <1>0, <1>1, <1>4, <2>1, <2>2, RecordTypeParts DEF DriftPackage
<1>5. CASE UNCHANGED vars
  <2>1. Domains'
    BY <1>0, <1>5 DEF vars, Domains
  <2> QED
    BY <1>0, <1>1, <1>5, <2>1, RecordTypeParts DEF vars
<1> QED
  BY <1>2, <1>3, <1>4, <1>5

LEMMA NextRecordType == RecordTypeInv /\ [Next]_vars => RecordTypeInv'
BY StepRecordType, DriftRecordType DEF Next

LEMMA RecordTypeHolds == Spec => []RecordTypeInv
BY InitRecordType, NextRecordType, PTL DEF Spec

(* Type correctness of the node, the manifest and each recorder's indexes, *)
(* for any number of recorders.                                            *)
THEOREM RecordTypes == Spec => []TypeOK
<1>1. RecordTypeInv => TypeOK
  BY DEF RecordTypeInv
<1> QED
  BY <1>1, RecordTypeHolds, PTL

-----------------------------------------------------------------------------
(* What r's pass over the node, and its first index, say of a path that is *)
(* as it was when the pass began.                                          *)
InPass(r, p) ==
    /\ p \in DOMAIN infos[r] => infos[r][p] = StatOf(fs[p])
    /\ p \in DOMAIN built[r] => fs[p].kind = "regular" /\ built[r][p] = AttrsNow(p)
    /\ fs[p].kind = "regular" => p \in DOMAIN infos[r] \cup DOMAIN built[r]
InIndex(r, p) ==
    /\ p \in DOMAIN index[r] <=> fs[p].kind = "regular"
    /\ p \in DOMAIN index[r] => index[r][p] = AttrsNow(p)

(* Both hold of the paths nobody changed since r's begin.                  *)
UntouchedOK(r, p) ==
    /\ stage[r] \in {"begin", "end"} => InPass(r, p)
    /\ stage[r] \in {"run", "end", "write"} => InIndex(r, p)
Untouched == \A r \in Recorders : \A p \in Paths \ touched[r] : UntouchedOK(r, p)

LEMMA WalkInPass ==
    ASSUME Domains, NEW r \in Recorders, NEW to, Walk(r, to), UNCHANGED fs, NEW p \in Paths
    PROVE  InPass(r, p)'
<1>1. /\ DOMAIN infos'[r] = Walked /\ DOMAIN built'[r] = {}
      /\ \A q \in Walked : infos'[r][q] = StatOf(fs[q])
  BY WalkEffect, EmptyIndex
<1>2. p \in Walked <=> fs[p].kind \in {"regular", "unreadable"}
  BY DEF Walked
<1> QED
  BY <1>1, <1>2 DEF InPass

LEMMA HashInPass ==
    ASSUME Domains, NEW r \in Recorders, NEW k \in Paths, Hash(r, k), UNCHANGED fs,
           NEW p \in Paths, InPass(r, p)
    PROVE  InPass(r, p)'
<1>1. k \in DOMAIN infos[r]
  BY DEF Hash
<1>2. AttrsNow(p)' = AttrsNow(p)
  BY DEF AttrsNow
<1>3. CASE fs[k].kind # "regular"
  BY <1>1, <1>2, <1>3, HashEffect DEF InPass
<1>4. CASE fs[k].kind = "regular"
  <2>1. CASE p = k
    BY <1>1, <1>2, <1>4, <2>1, HashEffect DEF InPass, AttrsNow
  <2>2. CASE p # k
    BY <1>1, <1>2, <1>4, <2>2, HashEffect DEF InPass
  <2> QED
    BY <2>1, <2>2
<1> QED
  BY <1>3, <1>4

LEMMA InitUntouched == Init => Untouched
BY DEF Init, Untouched, UntouchedOK

(* A step that does not concern the path or the recorder. *)
LEMMA UntouchedFrame ==
    ASSUME NEW q \in Recorders, NEW p \in Paths, UntouchedOK(q, p),
           fs'[p] = fs[p], infos'[q] = infos[q], built'[q] = built[q],
           index'[q] = index[q], stage'[q] = stage[q]
    PROVE  UntouchedOK(q, p)'
BY DEF UntouchedOK, InPass, InIndex, AttrsNow

LEMMA StepUntouched ==
    ASSUME RecordTypeInv, Untouched, NEW r \in Recorders, RecorderStep(r) \/ Fail(r),
           NEW q \in Recorders, NEW p \in Paths \ touched'[q]
    PROVE  UntouchedOK(q, p)'
<1> USE DEF node, manifest, local, bounds, history
<1>0. Domains /\ (p \notin touched[q] => UntouchedOK(q, p))
  BY DEF RecordTypeInv, Untouched
<1>1. CASE Begin(r)
  <2>1. CASE q = r
    <3>1. Walk(r, "begin") /\ UNCHANGED fs
      BY <1>1 DEF Begin
    <3> QED
      BY <1>0, <2>1, <3>1, WalkInPass, WalkEffect DEF UntouchedOK
  <2>2. CASE q # r
    BY <1>0, <1>1, <2>2, WalkEffect, UntouchedFrame DEF Begin, Domains
  <2> QED
    BY <2>1, <2>2
<1>2. CASE SaveIndex(r)
  <2>1. UNCHANGED <<fs, infos, built, touched>>
        /\ index' = [index EXCEPT ![r] = built[r]] /\ stage' = [stage EXCEPT ![r] = "run"]
        /\ stage[r] = "begin" /\ DOMAIN infos[r] = {}
    BY <1>2 DEF SaveIndex, Indexed
  <2>2. CASE q = r
    BY <1>0, <2>1, <2>2 DEF UntouchedOK, InPass, InIndex, AttrsNow, Domains
  <2>3. CASE q # r
    BY <1>0, <2>1, <2>3, UntouchedFrame DEF Domains
  <2> QED
    BY <2>2, <2>3
<1>3. CASE End(r)
  <2>1. Walk(r, "end") /\ UNCHANGED <<fs, index, touched>> /\ stage[r] = "run"
    BY <1>3 DEF End
  <2>2. CASE q = r
    BY <1>0, <2>1, <2>2, WalkInPass, WalkEffect DEF UntouchedOK, InIndex, AttrsNow
  <2>3. CASE q # r
    BY <1>0, <2>1, <2>3, WalkEffect, UntouchedFrame
  <2> QED
    BY <2>2, <2>3
<1>4. CASE LoadAndMerge(r) \/ Write(r)
  <2>1. UNCHANGED <<fs, infos, built, index, touched>>
        /\ \/ stage[r] = "end" /\ stage' = [stage EXCEPT ![r] = "write"]
           \/ stage' = [stage EXCEPT ![r] = "idle"]
    BY <1>4 DEF LoadAndMerge, Write
  <2>2. CASE q = r
    BY <1>0, <2>1, <2>2 DEF UntouchedOK, InIndex, AttrsNow, Domains
  <2>3. CASE q # r
    BY <1>0, <2>1, <2>3, UntouchedFrame DEF Domains
  <2> QED
    BY <2>2, <2>3
<1>5. ASSUME NEW k \in Paths, Hash(r, k) PROVE UntouchedOK(q, p)'
  <2>1. UNCHANGED <<fs, index, stage, touched>> /\ stage[r] \in {"begin", "end"}
    BY <1>5 DEF Hash
  <2>2. CASE q = r
    <3>1. InPass(r, p)
      BY <1>0, <2>1, <2>2 DEF UntouchedOK
    <3>2. InPass(r, p)'
      BY <1>0, <1>5, <2>1, <3>1, HashInPass
    <3> QED
      BY <1>0, <2>1, <2>2, <3>2 DEF UntouchedOK, InIndex, AttrsNow
  <2>3. CASE q # r
    BY <1>0, <1>5, <2>1, <2>3, HashEffect, UntouchedFrame
  <2> QED
    BY <2>2, <2>3
<1>6. ASSUME NEW k \in Paths, Provision(r, k) PROVE UntouchedOK(q, p)'
  <2>1. p # k /\ p \notin touched[q] /\ fs'[p] = fs[p]
    BY <1>6 DEF Provision, RecordTypeInv, TypeOK
  <2> QED
    BY <1>0, <1>6, <2>1, UntouchedFrame DEF Provision
<1>7. ASSUME NEW k \in Packages, ProvisionPackage(r, k) PROVE UntouchedOK(q, p)'
  BY <1>0, <1>7, UntouchedFrame DEF ProvisionPackage
<1>8. CASE Fail(r)
  <2>1. UNCHANGED <<fs, index, touched>> /\ stage[r] # "idle"
    BY <1>8 DEF Fail
  <2>2. CASE q = r
    <3>1. stage'[r] \in {"idle", "run"} /\ (stage'[r] = "run" => stage[r] # "begin")
      BY <1>0, <1>8, FailEffect, RecordAssumption DEF RecordAssumption
    <3>2. stage[r] \in {"begin", "run", "end", "write"}
      BY <2>1 DEF RecordTypeInv, TypeOK
    <3> QED
      BY <1>0, <2>1, <2>2, <3>1, <3>2 DEF UntouchedOK, InIndex, AttrsNow
  <2>3. CASE q # r
    BY <1>0, <1>8, <2>1, <2>3, FailEffect, UntouchedFrame
  <2> QED
    BY <2>2, <2>3
<1> QED
  BY <1>1, <1>2, <1>3, <1>4, <1>5, <1>6, <1>7, <1>8 DEF RecorderStep

LEMMA NextUntouched == RecordTypeInv /\ Untouched /\ [Next]_vars => Untouched'
<1> SUFFICES ASSUME RecordTypeInv, Untouched, [Next]_vars,
                    NEW q \in Recorders, NEW p \in Paths \ touched'[q]
             PROVE  UntouchedOK(q, p)'
  BY DEF Untouched
<1>1. ASSUME NEW r \in Recorders, RecorderStep(r) \/ Fail(r) PROVE UntouchedOK(q, p)'
  BY <1>1, StepUntouched
<1>2. ASSUME fs'[p] = fs[p], UNCHANGED local, p \notin touched[q] PROVE UntouchedOK(q, p)'
  BY <1>2, UntouchedFrame DEF Untouched, local
<1>3. CASE Damage
  BY <1>2, <1>3 DEF Damage, node
<1>4. ASSUME NEW k \in Paths, Drift(k) PROVE UntouchedOK(q, p)'
  <2>1. p # k /\ p \notin touched[q] /\ fs'[p] = fs[p]
    BY <1>4 DEF Drift, RecordTypeInv, TypeOK
  <2> QED
    BY <1>2, <1>4, <2>1 DEF Drift
<1>5. ASSUME NEW k \in Packages, DriftPackage(k) PROVE UntouchedOK(q, p)'
  BY <1>2, <1>5 DEF DriftPackage
<1>6. CASE UNCHANGED vars
  BY <1>2, <1>6 DEF vars, local
<1> QED
  BY <1>1, <1>3, <1>4, <1>5, <1>6 DEF Next

LEMMA UntouchedHolds == Spec => []Untouched
BY InitUntouched, RecordTypeHolds, NextUntouched, PTL DEF Spec

(* Once the second pass is over, an untouched path is in no difference.    *)
LEMMA NoDifference ==
    ASSUME NEW r \in Recorders, NEW p \in Paths, stage[r] = "end", Indexed(r),
           UntouchedOK(r, p)
    PROVE  p \notin DiffIndexes(index[r], built[r])
<1>1. InPass(r, p) /\ InIndex(r, p) /\ p \notin DOMAIN infos[r]
  BY DEF UntouchedOK, Indexed
<1> QED
  BY <1>1 DEF InPass, InIndex, DiffIndexes

(* The step to stage "write" is the recorder's own LoadAndMerge. *)
LEMMA StepWindow ==
    ASSUME RecordTypeInv, Untouched, Next,
           NEW r \in Recorders, stage[r] = "end", stage'[r] = "write"
    PROVE  LoadAndMerge(r) /\ KeepsOutside(files, draft'[r].files, r)
<1>0. Domains
  BY DEF RecordTypeInv
<1>1. LoadAndMerge(r)
  <2>1. ASSUME NEW q \in Recorders, RecorderStep(q), q # r PROVE FALSE
    <3>1. CASE Begin(q) \/ End(q)
      BY <1>0, <2>1, <3>1, WalkEffect DEF Begin, End
    <3>2. CASE SaveIndex(q) \/ LoadAndMerge(q) \/ Write(q)
      BY <1>0, <2>1, <3>2 DEF SaveIndex, LoadAndMerge, Write, Domains
    <3>3. CASE \E k \in Paths : Hash(q, k) \/ Provision(q, k)
      BY <3>3 DEF Hash, Provision, local
    <3>4. CASE \E k \in Packages : ProvisionPackage(q, k)
      BY <3>4 DEF ProvisionPackage, local
    <3> QED
      BY <2>1, <3>1, <3>2, <3>3, <3>4 DEF RecorderStep
  <2>2. ASSUME NEW q \in Recorders, Fail(q) PROVE FALSE
    <3>1. CASE q = r
      BY <1>0, <2>2, <3>1, FailEffect, RecordAssumption DEF RecordAssumption
    <3>2. CASE q # r
      BY <1>0, <2>2, <3>2, FailEffect
    <3> QED
      BY <3>1, <3>2
  <2>3. CASE RecorderStep(r)
    <3>1. ~ Begin(r) /\ ~ SaveIndex(r) /\ ~ End(r) /\ ~ Write(r)
      BY DEF Begin, SaveIndex, End, Write
    <3>2. \A k \in Paths : ~ Hash(r, k) /\ ~ Provision(r, k)
      BY DEF Hash, Provision, local
    <3>3. \A k \in Packages : ~ ProvisionPackage(r, k)
      BY DEF ProvisionPackage
    <3> QED
      BY <2>3, <3>1, <3>2, <3>3 DEF RecorderStep
  <2>4. ~ Damage /\ (\A k \in Paths : ~ Drift(k)) /\ \A k \in Packages : ~ DriftPackage(k)
    BY DEF Damage, Drift, DriftPackage, local
  <2> QED
    BY <2>1, <2>2, <2>3, <2>4 DEF Next
<1>2. ASSUME NEW p \in Paths \ touched[r] PROVE p \notin DiffIndexes(index[r], built[r])
  BY <1>1, NoDifference DEF Untouched, LoadAndMerge
<1>3. draft'[r].files = Merge(files, index[r], built[r])
  BY <1>0, <1>1 DEF LoadAndMerge, Domains
<1> QED
  BY <1>1, <1>2, <1>3, MergeDomain, MergeValue DEF KeepsOutside

(* What the only recorder is about to write differs from the manifest it   *)
(* will write over in paths of its window alone: nobody else writes, and   *)
(* no damage has come between.                                             *)
Alone(r) == Recorders = {r} /\ damages = 0
DraftOfWindow ==
    /\ damages \in Nat
    /\ \A r \in Recorders : Alone(r) /\ stage[r] = "write"
                              => KeepsOutside(files, draft[r].files, r)

LEMMA InitDraft == Init => DraftOfWindow
BY DEF Init, DraftOfWindow

(* Of a recorder's own steps only LoadAndMerge ends at stage "write". *)
LEMMA StaysAtWrite ==
    ASSUME RecordTypeInv, NEW r \in Recorders, RecorderStep(r) \/ Fail(r), stage'[r] = "write"
    PROVE  LoadAndMerge(r)
<1>0. Domains
  BY DEF RecordTypeInv
<1>1. ~ Fail(r) /\ ~ Begin(r) /\ ~ End(r)
  BY <1>0, FailEffect, WalkEffect, RecordAssumption DEF RecordAssumption, Begin, End
<1>2. ~ SaveIndex(r) /\ ~ Write(r)
  BY <1>0 DEF SaveIndex, Write, Domains
<1>3. \A k \in Paths : ~ Hash(r, k) /\ ~ Provision(r, k)
  BY DEF Hash, Provision, local
<1>4. \A k \in Packages : ~ ProvisionPackage(r, k)
  BY DEF ProvisionPackage, local
<1> QED
  BY <1>1, <1>2, <1>3, <1>4 DEF RecorderStep

LEMMA NextDraft ==
    ASSUME RecordTypeInv, Untouched, DraftOfWindow, [Next]_vars
    PROVE  DraftOfWindow'
<1>1. damages' \in Nat /\ (damages' = 0 => damages = 0 /\ ~ Damage)
  <2>1. CASE Damage
    BY <2>1 DEF Damage, DraftOfWindow
  <2>2. CASE UNCHANGED damages
    BY <2>2 DEF DraftOfWindow, Damage
  <2> QED
    BY <2>1, <2>2 DEF Next, RecorderStep, Begin, SaveIndex, End, LoadAndMerge, Write, Hash,
       Provision, ProvisionPackage, Fail, Drift, DriftPackage, vars, bounds
<1>2. ASSUME NEW r \in Recorders, Recorders = {r}, damages' = 0, stage'[r] = "write"
      PROVE  KeepsOutside(files, draft[r].files, r)'
  <2>1. CASE LoadAndMerge(r)
    <3>1. stage[r] = "end" /\ UNCHANGED <<files, touched>>
      BY <2>1 DEF LoadAndMerge, manifest, history
    <3>2. CASE Next
      BY <3>1, <3>2, <1>2, StepWindow DEF KeepsOutside
    <3>3. CASE UNCHANGED vars
      BY <3>1, <3>3, <1>2 DEF vars
    <3> QED
      BY <3>2, <3>3
  <2>2. ASSUME UNCHANGED <<files, draft, stage>>, touched[r] \subseteq touched'[r]
        PROVE  KeepsOutside(files, draft[r].files, r)'
    <3>1. KeepsOutside(files, draft[r].files, r)
      BY <1>1, <1>2, <2>2 DEF DraftOfWindow, Alone
    <3> QED
      BY <2>2, <3>1 DEF KeepsOutside
  <2>3. CASE RecorderStep(r) \/ Fail(r)
    BY <1>2, <2>1, <2>3, StaysAtWrite
  <2>4. ASSUME NEW k \in Paths, Drift(k) PROVE KeepsOutside(files, draft[r].files, r)'
    BY <2>2, <2>4 DEF Drift, manifest, local
  <2>5. ASSUME NEW k \in Packages, DriftPackage(k)
        PROVE  KeepsOutside(files, draft[r].files, r)'
    BY <2>2, <2>5 DEF DriftPackage, manifest, local
  <2>6. CASE UNCHANGED vars
    BY <2>2, <2>6 DEF vars
  <2> QED
    BY <1>1, <1>2, <2>3, <2>4, <2>5, <2>6 DEF Next
<1> QED
  BY <1>1, <1>2 DEF DraftOfWindow, Alone

LEMMA DraftHolds == Spec => []DraftOfWindow
BY InitDraft, NextDraft, RecordTypeHolds, UntouchedHolds, PTL DEF Spec

WindowOnly ==
    \A r \in Recorders :
        /\ stage[r] = "end" /\ stage'[r] = "write" => KeepsOutside(files, draft'[r].files, r)
        /\ Recorders = {r} /\ damages' = 0 => KeepsOutside(files, files', r)

LEMMA StepWindowOnly ==
    ASSUME RecordTypeInv, Untouched, DraftOfWindow, Next
    PROVE  WindowOnly
<1>1. ASSUME NEW r \in Recorders, Recorders = {r}, damages' = 0
      PROVE  KeepsOutside(files, files', r)
  <2>1. CASE Write(r)
    <3>1. damages = 0 /\ stage[r] = "write" /\ files' = draft[r].files
      BY <1>1, <2>1 DEF Write, bounds
    <3> QED
      BY <1>1, <3>1 DEF DraftOfWindow, Alone
  <2>2. CASE UNCHANGED files
    BY <2>2 DEF KeepsOutside
  <2>3. ~ Damage
    BY <1>1 DEF Damage, DraftOfWindow
  <2> QED
    BY <1>1, <2>1, <2>2, <2>3 DEF Next, RecorderStep, Begin, SaveIndex, End, LoadAndMerge,
       Hash, Provision, ProvisionPackage, Fail, Drift, DriftPackage, manifest
<1> QED
  BY <1>1, StepWindow DEF WindowOnly

(* For any number of recorders, failures and changes: a recorder drafts    *)
(* changes for those paths only that somebody changed since its begin; and *)
(* with one recorder and a manifest that always parsed no step changes an  *)
(* entry outside the window.                                               *)
THEOREM WindowBoundsRecording == Spec => OnlyWindowChangesRecorded
<1>1. RecordTypeInv /\ Untouched /\ DraftOfWindow /\ [Next]_vars => [WindowOnly]_vars
  BY StepWindowOnly
<1> QED
  BY <1>1, RecordTypeHolds, UntouchedHolds, DraftHolds, PTL
     DEF Spec, OnlyWindowChangesRecorded, WindowOnly

-----------------------------------------------------------------------------
(* When runs accumulate: one play at a time on the node, continued where   *)
(* it failed (RecordRestart shows what a restart loses), and recipes that  *)
(* leave regular files or remove them.  A path they remove must not have   *)
(* become a directory or unreadable before: it is then in neither index,   *)
(* and the manifest goes on to track it.                                   *)
Accumulating ==
    /\ \A q, r \in Recorders : q = r
    /\ AfterFailure = {"run"}
    /\ \A p \in DOMAIN Want : Want[p].kind \in {"regular", "absent"}
    /\ (\E p \in DOMAIN Want : Want[p].kind = "absent")
         => \A s \in NodeStates : s.kind \in {"regular", "absent"}

(* An index or the entries of a manifest say of p what is there. *)
Matches(x, p) ==
    IF fs[p].kind = "absent" THEN p \notin DOMAIN x
    ELSE p \in DOMAIN x /\ x[p] = AttrsNow(p)

(* A path that a run has left as it is: the manifest matches it already,   *)
(* or the run is still on and will find it different from its first index. *)
AppliedOK(r, p) ==
    /\ p \in DOMAIN Want /\ fs[p] = Want[p]
    /\ stage[r] \in {"idle", "begin"} \/ p \notin touched[r] => Matches(files, p)
    /\ stage[r] = "begin" => p \notin touched[r]
    /\ stage[r] \in {"run", "end", "write"} /\ p \in touched[r] =>
          /\ fs[p].kind = "regular" /\ p \in DOMAIN index[r] => index[r][p] # AttrsNow(p)
          /\ fs[p].kind = "absent" => p \in DOMAIN index[r]
    /\ stage[r] = "end" => InPass(r, p)
    /\ stage[r] = "write" => Matches(draft[r].files, p)

AppliedInv ==
    /\ \A r \in Recorders : \A p \in applied : AppliedOK(r, p)
    /\ applied # {} => Recorders # {}
    /\ fs \in [Paths -> NodeStates]

RunInv == RecordTypeInv /\ Untouched /\ AppliedInv

LEMMA InitApplied == Init => AppliedInv
BY DEF Init, AppliedInv

(* Two regular files that are not in the same state differ in what an      *)
(* index holds of them.                                                    *)
LEMMA AttrsDistinguish ==
    ASSUME NEW s \in NodeStates, NEW t \in NodeStates,
           s.kind = "regular", t.kind = "regular",
           Attrs(Digest(s.content), StatOf(s)) = Attrs(Digest(t.content), StatOf(t))
    PROVE  s = t
<1>1. s \in FileStates /\ t \in FileStates
  BY RecordAssumption DEF RecordAssumption
<1>2. s.content = t.content /\ s.mode = t.mode /\ s.mtime = t.mtime
  BY DEF Attrs, Digest, StatOf
<1> QED
  BY <1>1, <1>2 DEF FileStates

LEMMA AppliedFrame ==
    ASSUME NEW r \in Recorders, NEW p \in Paths, AppliedOK(r, p),
           fs'[p] = fs[p], infos'[r] = infos[r], built'[r] = built[r],
           index'[r] = index[r], stage'[r] = stage[r], draft'[r] = draft[r],
           UNCHANGED files, p \in touched'[r] <=> p \in touched[r]
    PROVE  AppliedOK(r, p)'
BY DEF AppliedOK, InPass, Matches, AttrsNow

(* The merge takes up what a run has left.                                 *)
LEMMA MergeMatches ==
    ASSUME Accumulating, NEW r \in Recorders, NEW p \in Paths, stage[r] = "end", Indexed(r),
           AppliedOK(r, p), p \notin touched[r] => UntouchedOK(r, p)
    PROVE  Matches(Merge(files, index[r], built[r]), p)
<1> DEFINE M == Merge(files, index[r], built[r])
           D == DiffIndexes(index[r], built[r])
<1>1. p \in DOMAIN M <=> IF p \in D THEN p \in DOMAIN built[r] ELSE p \in DOMAIN files
  BY MergeDomain
<1>2. p \in DOMAIN M => M[p] = IF p \in D THEN built[r][p] ELSE files[p]
  BY MergeValue
<1>3. InPass(r, p) /\ p \notin DOMAIN infos[r] /\ fs[p].kind \in {"regular", "absent"}
  BY DEF AppliedOK, Indexed, Accumulating
<1>4. CASE p \notin touched[r]
  <2>1. p \notin D /\ Matches(files, p)
    BY <1>4, NoDifference DEF AppliedOK
  <2> QED
    BY <1>1, <1>2, <2>1 DEF Matches
<1>5. CASE p \in touched[r]
  <2>1. /\ fs[p].kind = "regular" /\ p \in DOMAIN index[r] => index[r][p] # AttrsNow(p)
        /\ fs[p].kind = "absent" => p \in DOMAIN index[r]
    BY <1>5 DEF AppliedOK
  <2>2. CASE fs[p].kind = "regular"
    <3>1. p \in DOMAIN built[r] /\ built[r][p] = AttrsNow(p)
      BY <1>3, <2>2 DEF InPass
    <3>2. p \in D
      BY <2>1, <2>2, <3>1 DEF DiffIndexes
    <3> QED
      BY <1>1, <1>2, <2>2, <3>1, <3>2 DEF Matches
  <2>3. CASE fs[p].kind = "absent"
    <3>1. p \notin DOMAIN built[r]
      BY <1>3, <2>3 DEF InPass
    <3>2. p \in D
      BY <2>1, <2>3, <3>1 DEF DiffIndexes
    <3> QED
      BY <1>1, <2>3, <3>1, <3>2 DEF Matches
  <2> QED
    BY <1>3, <2>2, <2>3
<1> QED
  BY <1>4, <1>5

(* A recipe changes a path this run has not seen changed before.           *)
LEMMA ProvisionApplies ==
    ASSUME Accumulating, RunInv, NEW r \in Recorders, NEW p \in Paths, Provision(r, p),
           p \notin touched[r]
    PROVE  AppliedOK(r, p)'
<1>1. /\ stage[r] = "run" /\ p \in DOMAIN Want /\ fs[p] # Want[p]
      /\ fs' = [fs EXCEPT ![p] = Want[p]] /\ UNCHANGED <<stage, index, draft, infos, built>>
      /\ touched' = [q \in Recorders |-> touched[q] \cup {p}]
  BY DEF Provision, local
<1>2. InIndex(r, p) /\ fs[p] \in NodeStates /\ Want[p] \in NodeStates
  BY <1>1, RecordAssumption DEF RunInv, Untouched, UntouchedOK, AppliedInv, RecordAssumption
<1>3. fs'[p] = Want[p]
  BY <1>1 DEF RunInv, AppliedInv
<1>4. ASSUME p \in DOMAIN index[r], index[r][p] = AttrsNow(p)', fs'[p].kind = "regular"
      PROVE  FALSE
  <2>1. fs[p].kind = "regular" /\ index[r][p] = AttrsNow(p)
    BY <1>2, <1>4 DEF InIndex
  <2> QED
    BY <1>1, <1>2, <1>3, <1>4, <2>1, AttrsDistinguish DEF AttrsNow
<1>5. ASSUME fs'[p].kind = "absent" PROVE p \in DOMAIN index[r]
  <2>1. fs[p].kind \in {"regular", "absent"}
    BY <1>1, <1>2, <1>3, <1>5 DEF Accumulating
  <2>2. fs[p].kind # "absent"
    BY <1>1, <1>2, <1>3, <1>5, RecordAssumption DEF RecordAssumption
  <2> QED
    BY <1>2, <2>1, <2>2 DEF InIndex
<1>6. stage'[r] = "run" /\ p \in touched'[r] /\ index'[r] = index[r]
  BY <1>1
<1>7. p \in DOMAIN Want
  BY <1>1
<1> QED
  BY <1>3, <1>4, <1>5, <1>6, <1>7 DEF AppliedOK

LEMMA StepApplied ==
    ASSUME Accumulating, RunInv, NEW r \in Recorders, RecorderStep(r) \/ Fail(r),
           NEW p \in applied'
    PROVE  AppliedOK(r, p)'
<1> USE DEF node, manifest, local, bounds, history
<1>0. /\ Domains /\ (p \in applied => p \in Paths /\ AppliedOK(r, p))
      /\ (p \in Paths \ touched[r] => UntouchedOK(r, p))
  BY DEF RunInv, RecordTypeInv, TypeOK, Untouched, AppliedInv
<1>1. CASE Begin(r)
  <2>1. /\ UNCHANGED <<fs, files, index, draft, applied>> /\ stage[r] = "idle"
        /\ stage'[r] = "begin" /\ touched'[r] = {}
    BY <1>0, <1>1, WalkEffect DEF Begin, Domains
  <2> QED
    BY <1>0, <2>1 DEF AppliedOK, Matches, AttrsNow
<1>2. CASE SaveIndex(r)
  <2>1. /\ UNCHANGED <<fs, files, draft, applied, touched>> /\ stage[r] = "begin"
        /\ stage'[r] = "run"
    BY <1>0, <1>2 DEF SaveIndex, Domains
  <2> QED
    BY <1>0, <2>1 DEF AppliedOK, Matches, AttrsNow
<1>3. CASE End(r)
  <2>1. /\ UNCHANGED <<fs, files, index, draft, applied, touched>> /\ stage[r] = "run"
        /\ stage'[r] = "end"
    BY <1>0, <1>3, WalkEffect DEF End
  <2>2. InPass(r, p)'
    BY <1>0, <1>3, <2>1, WalkInPass DEF End
  <2> QED
    BY <1>0, <2>1, <2>2 DEF AppliedOK, Matches, AttrsNow
<1>4. CASE LoadAndMerge(r)
  <2>1. /\ UNCHANGED <<fs, files, index, applied, touched>> /\ stage[r] = "end"
        /\ stage'[r] = "write" /\ Indexed(r)
        /\ draft'[r].files = Merge(files, index[r], built[r])
    BY <1>0, <1>4 DEF LoadAndMerge, Domains
  <2>2. Matches(Merge(files, index[r], built[r]), p)
    BY <1>0, <2>1, MergeMatches
  <2> QED
    BY <1>0, <2>1, <2>2 DEF AppliedOK, Matches, AttrsNow
<1>5. CASE Write(r)
  <2>1. /\ UNCHANGED <<fs, applied>> /\ stage[r] = "write" /\ stage'[r] = "idle"
        /\ files' = draft[r].files
    BY <1>0, <1>5 DEF Write, Domains
  <2> QED
    BY <1>0, <2>1 DEF AppliedOK, Matches, AttrsNow
<1>6. ASSUME NEW k \in Paths, Hash(r, k) PROVE AppliedOK(r, p)'
  <2>1. /\ UNCHANGED <<fs, files, index, draft, applied, touched, stage>>
    BY <1>6 DEF Hash
  <2>2. stage[r] = "end" => InPass(r, p)'
    BY <1>0, <1>6, <2>1, HashInPass DEF AppliedOK
  <2> QED
    BY <1>0, <2>1, <2>2 DEF AppliedOK, Matches, AttrsNow
<1>7. ASSUME NEW k \in Paths, Provision(r, k) PROVE AppliedOK(r, p)'
  <2>1. /\ UNCHANGED <<files, local>> /\ fs' = [fs EXCEPT ![k] = Want[k]]
        /\ fs[k] # Want[k]
        /\ touched'[r] = touched[r] \cup {k} /\ applied' = applied \cup ({k} \ touched[r])
    BY <1>7 DEF Provision
  <2>2. CASE p = k
    <3>1. p \notin touched[r]
      BY <1>0, <2>1, <2>2 DEF AppliedOK
    <3> QED
      BY <1>7, <2>2, <3>1, ProvisionApplies
  <2>3. CASE p # k
    <3>1. p \in applied /\ fs'[p] = fs[p] /\ (p \in touched'[r] <=> p \in touched[r])
      BY <1>0, <2>1, <2>3 DEF RunInv, RecordTypeInv, TypeOK
    <3> QED
      BY <1>0, <2>1, <3>1, AppliedFrame
  <2> QED
    BY <2>2, <2>3
<1>8. ASSUME NEW k \in Packages, ProvisionPackage(r, k) PROVE AppliedOK(r, p)'
  BY <1>0, <1>8, AppliedFrame DEF ProvisionPackage
<1>9. CASE Fail(r)
  <2>1. /\ UNCHANGED <<fs, files, index, applied, touched>> /\ stage[r] # "idle"
        /\ stage'[r] = IF stage[r] = "begin" THEN "idle" ELSE "run"
    BY <1>0, <1>9, FailEffect DEF Fail, Accumulating
  <2>2. stage[r] \in {"begin", "run", "end", "write"}
    BY <2>1 DEF RunInv, RecordTypeInv, TypeOK
  <2> QED
    BY <1>0, <2>1, <2>2 DEF AppliedOK, Matches, AttrsNow
<1> QED
  BY <1>1, <1>2, <1>3, <1>4, <1>5, <1>6, <1>7, <1>8, <1>9 DEF RecorderStep

LEMMA NextApplied ==
    ASSUME Accumulating, RunInv, [Next]_vars
    PROVE  AppliedInv'
<1>0. /\ fs \in [Paths -> NodeStates]
      /\ \A r \in Recorders : \A p \in applied : p \in Paths /\ AppliedOK(r, p)
  BY DEF RunInv, RecordTypeInv, TypeOK, AppliedInv
<1>1. fs' \in [Paths -> NodeStates]
  <2>1. ASSUME NEW p \in Paths, NEW r \in Recorders, Provision(r, p)
        PROVE  fs' \in [Paths -> NodeStates]
    BY <1>0, <2>1, RecordAssumption DEF Provision, RecordAssumption
  <2>2. ASSUME NEW p \in Paths, Drift(p) PROVE fs' \in [Paths -> NodeStates]
    BY <1>0, <2>2 DEF Drift
  <2>3. CASE UNCHANGED fs
    BY <1>0, <2>3
  <2> QED
    BY <2>1, <2>2, <2>3 DEF Next, RecorderStep, Begin, SaveIndex, End, LoadAndMerge, Write,
       Hash, ProvisionPackage, Fail, Damage, DriftPackage, vars, node
<1>2. applied' # {} => Recorders # {}
  <2>1. (\E r \in Recorders : RecorderStep(r) \/ Fail(r)) \/ applied' \subseteq applied
    BY DEF Next, Damage, Drift, DriftPackage, vars
  <2> QED
    BY <2>1 DEF RunInv, AppliedInv
<1>3. ASSUME NEW r \in Recorders, NEW p \in applied' PROVE AppliedOK(r, p)'
  <2>1. ASSUME NEW q \in Recorders, RecorderStep(q) \/ Fail(q) PROVE AppliedOK(r, p)'
    <3>1. q = r
      BY DEF Accumulating
    <3> QED
      BY <2>1, <3>1, StepApplied
  <2>2. CASE Damage
    BY <1>3, <2>2 DEF Damage
  <2>3. ASSUME NEW k \in Paths, Drift(k) PROVE AppliedOK(r, p)'
    <3>1. /\ p \in applied /\ p # k /\ UNCHANGED <<files, local>> /\ fs'[p] = fs[p]
          /\ touched'[r] = touched[r] \cup {k}
      BY <1>0, <1>3, <2>3 DEF Drift, manifest
    <3> QED
      BY <1>0, <3>1, AppliedFrame DEF local
  <2>4. ASSUME NEW k \in Packages, DriftPackage(k) PROVE AppliedOK(r, p)'
    BY <1>0, <1>3, <2>4, AppliedFrame DEF DriftPackage, local, manifest
  <2>5. CASE UNCHANGED vars
    BY <1>0, <1>3, <2>5, AppliedFrame DEF vars, local, manifest
  <2> QED
    BY <2>1, <2>2, <2>3, <2>4, <2>5 DEF Next
<1> QED
  BY <1>1, <1>2, <1>3 DEF AppliedInv

(* What matches departs in no attribute of any check.                      *)
LEMMA MatchVerifies ==
    ASSUME TypeOK, NEW p \in Paths, Matches(files, p),
           fs[p].kind \in {"regular", "absent"}
    PROVE  IF fs[p].kind = "absent" THEN ~Tracked(p)
           ELSE Tracked(p) /\ ~Departs(EntryOf(p, files[p]), EveryCheck, fs[p])
<1>1. CASE fs[p].kind = "absent"
  BY <1>1 DEF Matches, Tracked
<1>2. CASE fs[p].kind = "regular"
  <2>1. Tracked(p) /\ files[p] = AttrsNow(p)
    BY <1>2 DEF Matches, Tracked
  <2>2. ASSUME NEW a \in Attributes PROVE ~DepartsIn(a, EntryOf(p, files[p]), EveryCheck, fs[p])
    BY <1>2, <2>1 DEF DepartsIn, EntryOf, AttrsNow, Attrs, StatOf, Gone
  <2> QED
    BY <1>2, <2>1, <2>2 DEF Departs
<1> QED
  BY <1>1, <1>2

(* A package a run installed is in the snapshot, or the run that installed *)
(* it has yet to take the snapshot or to write it.                         *)
ProvidedOK(r) ==
    /\ stage[r] \in {"idle", "begin"} => provided \subseteq snapshot
    /\ stage[r] = "write" => provided \subseteq draft[r].snapshot
ProvidedInv ==
    /\ \A r \in Recorders : ProvidedOK(r)
    /\ Recorders = {} => provided = {}

LEMMA InitProvided == Init => ProvidedInv
BY DEF Init, ProvidedInv, ProvidedOK

(* The only recorder's own step. *)
LEMMA StepProvided ==
    ASSUME Accumulating, RecordTypeInv, NEW r \in Recorders, ProvidedOK(r),
           RecorderStep(r) \/ Fail(r)
    PROVE  ProvidedOK(r)'
<1> USE DEF node, manifest, local, bounds, history
<1>0. Domains /\ provided \subseteq installed
  BY DEF RecordTypeInv, TypeOK
<1>1. CASE Begin(r) \/ SaveIndex(r) \/ End(r)
  <2>1. /\ UNCHANGED <<snapshot, provided, draft>>
        /\ \/ stage[r] = "idle" /\ stage'[r] = "begin"
           \/ stage'[r] \in {"run", "end"}
    BY <1>0, <1>1, WalkEffect DEF Begin, SaveIndex, End, Domains
  <2> QED
    BY <2>1 DEF ProvidedOK
<1>2. CASE LoadAndMerge(r)
  <2>1. provided' = provided /\ stage'[r] = "write" /\ draft'[r].snapshot = installed
    BY <1>0, <1>2 DEF LoadAndMerge, Domains
  <2> QED
    BY <1>0, <2>1 DEF ProvidedOK
<1>3. CASE Write(r)
  <2>1. /\ provided' = provided /\ stage[r] = "write" /\ stage'[r] = "idle"
        /\ snapshot' = draft[r].snapshot
    BY <1>0, <1>3 DEF Write, Domains
  <2> QED
    BY <2>1 DEF ProvidedOK
<1>4. CASE \E p \in Paths : Hash(r, p) \/ Provision(r, p)
  BY <1>4 DEF Hash, Provision, ProvidedOK
<1>5. CASE \E k \in Packages : ProvisionPackage(r, k)
  BY <1>5 DEF ProvisionPackage, ProvidedOK
<1>6. CASE Fail(r)
  <2>1. /\ UNCHANGED <<snapshot, provided>>
        /\ stage'[r] = IF stage[r] = "begin" THEN "idle" ELSE "run"
    BY <1>0, <1>6, FailEffect DEF Fail, Accumulating
  <2> QED
    BY <2>1 DEF ProvidedOK
<1> QED
  BY <1>1, <1>2, <1>3, <1>4, <1>5, <1>6 DEF RecorderStep

LEMMA NextProvided ==
    ASSUME Accumulating, RecordTypeInv, ProvidedInv, [Next]_vars
    PROVE  ProvidedInv'
<1>1. ASSUME NEW r \in Recorders PROVE ProvidedOK(r)'
  <2>1. ASSUME NEW q \in Recorders, RecorderStep(q) \/ Fail(q) PROVE ProvidedOK(r)'
    <3>1. q = r
      BY DEF Accumulating
    <3> QED
      BY <2>1, <3>1, StepProvided DEF ProvidedInv
  <2>2. ASSUME provided' \subseteq provided, UNCHANGED <<snapshot, stage, draft>>
        PROVE  ProvidedOK(r)'
    BY <2>2 DEF ProvidedInv, ProvidedOK
  <2>3. CASE Damage
    BY <2>3 DEF Damage, ProvidedOK
  <2>4. ASSUME NEW p \in Paths, Drift(p) PROVE ProvidedOK(r)'
    BY <2>2, <2>4 DEF Drift, manifest, local
  <2>5. ASSUME NEW k \in Packages, DriftPackage(k) PROVE ProvidedOK(r)'
    BY <2>2, <2>5 DEF DriftPackage, manifest, local
  <2>6. CASE UNCHANGED vars
    BY <2>2, <2>6 DEF vars
  <2> QED
    BY <2>1, <2>3, <2>4, <2>5, <2>6 DEF Next
<1>2. ASSUME Recorders = {} PROVE provided' = {}
  BY <1>2 DEF ProvidedInv, Next, Damage, Drift, DriftPackage, vars
<1> QED
  BY <1>1, <1>2 DEF ProvidedInv

(* The manifest accumulates what the plays did: once none is under way,    *)
(* every path left in the state a play gave it is tracked so that it       *)
(* verifies under every check, or not tracked if the play removed it, and  *)
(* the packages plays installed are in the snapshot, however often tasks   *)
(* failed, files and packages drifted or the manifest was damaged.         *)
THEOREM RunsAreKept ==
    ASSUME Accumulating
    PROVE  Spec => []RunsAccumulate
<1>1. RecordTypeInv /\ Untouched /\ AppliedInv /\ [Next]_vars => AppliedInv'
  BY NextApplied DEF RunInv
<1>2. RecordTypeInv /\ ProvidedInv /\ [Next]_vars => ProvidedInv'
  BY NextProvided
<1>3. RecordTypeInv /\ AppliedInv /\ ProvidedInv => RunsAccumulate
  <2> SUFFICES ASSUME RecordTypeInv, AppliedInv, ProvidedInv,
                      \A r \in Recorders : stage[r] = "idle"
               PROVE  AppliedIsTracked /\ provided \subseteq snapshot
    BY DEF RunsAccumulate
  <2>1. ASSUME NEW p \in applied
        PROVE  IF fs[p].kind = "absent" THEN ~Tracked(p)
               ELSE Tracked(p) /\ ~Departs(EntryOf(p, files[p]), EveryCheck, fs[p])
    <3>1. PICK r \in Recorders : AppliedOK(r, p)
      BY DEF AppliedInv
    <3>2. p \in Paths /\ Matches(files, p) /\ fs[p].kind \in {"regular", "absent"}
      BY <3>1 DEF AppliedOK, RecordTypeInv, TypeOK, Accumulating
    <3> QED
      BY <3>2, MatchVerifies DEF RecordTypeInv
  <2>2. provided \subseteq snapshot
    BY DEF ProvidedInv, ProvidedOK
  <2> QED
    BY <2>1, <2>2 DEF AppliedIsTracked
<1> QED
  BY <1>1, <1>2, <1>3, InitApplied, InitProvided, RecordTypeHolds, UntouchedHolds, PTL DEF Spec
=============================================================================
