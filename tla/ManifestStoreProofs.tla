------------------------ MODULE ManifestStoreProofs ------------------------
(***************************************************************************)
(* When writeManifest is atomic.  Until the machine loses power it is so   *)
(* if writers never overlap or none of them is root: then the mode 0400 of *)
(* dest.tmp keeps a second writer out, as a lock would.                    *)
(***************************************************************************)
EXTENDS ManifestStore, TLAPS

OneAtATime == Roots = {} \/ \A v, w \in Writers : v = w

Midway(w) == pc[w] \in {"write1", "write2", "rename"}
Whole(i) == Parse(data[i]) \in Documents

(* At most one writer is between its open and its rename, the inode it     *)
(* works on is dest.tmp, and dest is another, whole one.                   *)
WritersInv ==
    /\ \A v, w \in Writers : Midway(v) /\ Midway(w) => v = w
    /\ \A w \in Writers : Midway(w) => tmp # "none"
    /\ \A w \in Writers : IF pc[w] \in {"write1", "write2"}
                          THEN fd[w] = tmp ELSE fd[w] = "none"
    /\ \A w \in Writers : pc[w] = "write2" => data[tmp][1] = doc[w]
    /\ \A w \in Writers : pc[w] = "rename" =>
          data[tmp][1] = doc[w] /\ data[tmp][2] = doc[w]
    /\ dest # "none" => dest # tmp /\ Whole(dest)

(* A reader holds a whole document that nobody writes to any more, and it  *)
(* was the manifest when the reader opened it.                             *)
ReadersInv ==
    \A r \in Readers :
        IF rpc[r] = "idle" THEN rfd[r] = "none" /\ got[r] \in since[r]
        ELSE /\ rfd[r] # "none" /\ rfd[r] # tmp
             /\ Whole(rfd[r]) /\ Parse(data[rfd[r]]) \in since[r]
             /\ rpc[r] = "read2" => chunk[r] = data[rfd[r]][1]

StoreInv == TypeOK /\ WritersInv /\ ReadersInv

LEMMA ParseType ==
    ASSUME NEW c PROVE Parse(c) \in Documents \cup {"torn"}
BY DEF Parse

LEMMA ViewType ==
    ASSUME NEW n, NEW b, NEW o PROVE View(n, b, o) \in Views
BY ParseType DEF View, Views

LEMMA ParseDocument ==
    ASSUME NEW d \in Documents, NEW c, c[1] = d, c[2] = d
    PROVE  Parse(c) = d
BY DEF Parse

(* since is typed and only grows during a read. *)
LEMMA WitnessGrows ==
    ASSUME TypeOK, Witness
    PROVE  /\ since' \in [Readers -> SUBSET Views]
           /\ \A r \in Readers : since[r] \subseteq since'[r]
BY ViewType DEF TypeOK, Witness

(* A step leaves a reader alone if it keeps the inode the reader holds.    *)
LEMMA ReadersUndisturbed ==
    ASSUME TypeOK, ReadersInv, UNCHANGED <<rpc, rfd, chunk, got>>,
           \A r \in Readers : since[r] \subseteq since'[r],
           \A r \in Readers : rpc[r] # "idle" =>
               data'[rfd[r]] = data[rfd[r]] /\ rfd[r] # tmp'
    PROVE  ReadersInv'
BY DEF ReadersInv, Whole

LEMMA StoreInit == Init => StoreInv
<1> SUFFICES ASSUME Init PROVE StoreInv
  OBVIOUS
<1>1. TypeOK
  BY StoreAssumption DEF StoreAssumption, Init, TypeOK, Blank, WriterPCs, Views
<1>2. WritersInv
  BY DEF Init, WritersInv, Midway
<1>3. ReadersInv
  BY DEF Init, ReadersInv
<1> QED
  BY <1>1, <1>2, <1>3 DEF StoreInv

-----------------------------------------------------------------------------
LEMMA BeginStep ==
    ASSUME StoreInv, NEW w \in Writers, Begin(w) PROVE StoreInv'
<1> USE DEF Begin, disk, reading, misfortune
<1>1. TypeOK'
  BY DEF StoreInv, TypeOK, WriterPCs
<1>2. WritersInv'
  BY DEF StoreInv, TypeOK, WritersInv, Midway, Whole
<1>3. ReadersInv'
  BY DEF StoreInv, ReadersInv, Whole
<1> QED
  BY <1>1, <1>2, <1>3 DEF StoreInv

LEMMA OpenTmpStep ==
    ASSUME StoreInv, OneAtATime, NEW w \in Writers, OpenTmp(w) PROVE StoreInv'
<1> USE DEF misfortune
<1>0. /\ TypeOK /\ WritersInv /\ ReadersInv /\ Witness /\ pc[w] = "open"
      /\ UNCHANGED <<dest, doc, rpc, rfd, chunk, got, misfortune>>
  BY DEF StoreInv, OpenTmp
<1>1. /\ since' \in [Readers -> SUBSET Views]
      /\ \A r \in Readers : since[r] \subseteq since'[r]
  BY <1>0, WitnessGrows
<1>2. ASSUME NEW i \in Inodes, i # dest, \A r \in Readers : rfd[r] # i,
             \A v \in Writers : ~Midway(v),
             tmp' = i, data' = [data EXCEPT ![i] = Blank],
             owner' \in [Inodes -> {"root", "agent"}],
             dirty' = dirty \cup {i}, fd' = [fd EXCEPT ![w] = i],
             pc' = [pc EXCEPT ![w] = "write1"]
      PROVE  StoreInv'
  <2>1. TypeOK'
    BY <1>0, <1>1, <1>2 DEF TypeOK, Blank, WriterPCs
  <2>2. WritersInv'
    <3>1. \A v \in Writers : Midway(v)' => v = w
      BY <1>0, <1>2 DEF TypeOK, Midway
    <3>2. \A v \in Writers : v # w => pc'[v] = pc[v] /\ fd'[v] = fd[v]
      BY <1>0, <1>2 DEF TypeOK
    <3>3. pc'[w] = "write1" /\ fd'[w] = tmp'
      BY <1>0, <1>2 DEF TypeOK
    <3>4. dest # "none" => dest # tmp' /\ data'[dest] = data[dest]
      BY <1>0, <1>2 DEF TypeOK
    <3>5. tmp' # "none"
      BY <1>2, StoreAssumption DEF StoreAssumption
    <3> QED
      BY <1>0, <1>2, <3>1, <3>2, <3>3, <3>4, <3>5 DEF WritersInv, Midway, Whole
  <2>3. ReadersInv'
    <3>1. \A r \in Readers : data'[rfd[r]] = data[rfd[r]] /\ rfd[r] # tmp'
      BY <1>0, <1>2 DEF TypeOK
    <3> QED
      BY <1>0, <1>1, <3>1, ReadersUndisturbed
  <2> QED
    BY <2>1, <2>2, <2>3 DEF StoreInv
<1>3. CASE tmp = "none"
  <2> DEFINE i == NewInode
  <2>0. i \in Inodes /\ i \notin InUse
    <3>1. \E j \in Inodes : j \notin InUse
      BY <1>3 DEF OpenTmp
    <3> QED
      BY <3>1 DEF NewInode
  <2>1.    /\ tmp' = i /\ data' = [data EXCEPT ![i] = Blank]
           /\ owner' = [owner EXCEPT ![i] = "root"]
           /\ dirty' = dirty \cup {i} /\ fd' = [fd EXCEPT ![w] = i]
           /\ pc' = [pc EXCEPT ![w] = "write1"]
    BY <1>3 DEF OpenTmp
  <2>2. i # dest /\ \A r \in Readers : rfd[r] # i
    BY <2>0 DEF InUse
  <2>3. \A v \in Writers : ~Midway(v)
    BY <1>0, <1>3 DEF WritersInv
  <2>4. owner' \in [Inodes -> {"root", "agent"}]
    BY <1>0, <2>1 DEF TypeOK
  <2> HIDE DEF i
  <2> QED
    BY <1>2, <2>0, <2>1, <2>2, <2>3, <2>4
<1>4. CASE tmp # "none" /\ w \in Roots
  <2>1. /\ tmp' = tmp /\ data' = [data EXCEPT ![tmp] = Blank] /\ owner' = owner
        /\ dirty' = dirty \cup {tmp} /\ fd' = [fd EXCEPT ![w] = tmp]
        /\ pc' = [pc EXCEPT ![w] = "write1"]
    BY <1>4 DEF OpenTmp
  <2>2. tmp \in Inodes /\ owner' \in [Inodes -> {"root", "agent"}]
    BY <1>0, <1>4, <2>1 DEF TypeOK
  <2>3. tmp # dest
    BY <1>0, <1>4 DEF WritersInv
  <2>4. \A r \in Readers : rfd[r] # tmp
    BY <1>0, <1>4 DEF ReadersInv
  <2>5. \A v \in Writers : ~Midway(v)
    BY <1>0, <1>4 DEF OneAtATime, Midway
  <2> QED
    BY <1>2, <2>1, <2>2, <2>3, <2>4, <2>5
<1>5. CASE tmp # "none" /\ w \notin Roots
  <2>1. pc' = [pc EXCEPT ![w] = "failed"] /\ UNCHANGED <<tmp, data, owner, dirty, fd>>
    BY <1>5 DEF OpenTmp
  <2>2. TypeOK'
    BY <1>0, <1>1, <2>1 DEF TypeOK, WriterPCs
  <2>3. WritersInv'
    BY <1>0, <2>1 DEF TypeOK, WritersInv, Midway, Whole
  <2>4. ReadersInv'
    <3>1. \A r \in Readers : rpc[r] # "idle" => rfd[r] # tmp
      BY <1>0 DEF ReadersInv
    <3> QED
      BY <1>0, <1>1, <2>1, <3>1, ReadersUndisturbed
  <2> QED
    BY <2>2, <2>3, <2>4 DEF StoreInv
<1> QED
  BY <1>3, <1>4, <1>5

(* Writing a chunk of dest.tmp, seen from everyone but the writer. *)
LEMMA ChunkStep ==
    ASSUME StoreInv, NEW w \in Writers, NEW k \in {1, 2},
           NEW before \in {"write1", "write2"}, NEW after \in WriterPCs,
           WriteChunk(w, k, before, after), fd' \in [Writers -> Inodes \cup {"none"}]
    PROVE  /\ TypeOK' /\ ReadersInv'
           /\ tmp \in Inodes /\ data'[tmp] = [data[tmp] EXCEPT ![k] = doc[w]]
           /\ dest # "none" => data'[dest] = data[dest]
<1>0. TypeOK /\ WritersInv /\ ReadersInv /\ Witness /\ fd[w] = tmp
  BY DEF StoreInv, WriteChunk, WritersInv
<1>1. /\ since' \in [Readers -> SUBSET Views]
      /\ \A r \in Readers : since[r] \subseteq since'[r]
  BY <1>0, WitnessGrows
<1>2. tmp \in Inodes
  BY <1>0 DEF WritersInv, TypeOK, Midway, WriteChunk
<1>3. data' = [data EXCEPT ![tmp] = [data[tmp] EXCEPT ![k] = doc[w]]]
  BY <1>0 DEF WriteChunk
<1>4. TypeOK'
  <2>1. data[tmp] \in [{1, 2} -> Documents \cup {"none"}] /\ doc[w] \in Documents
    BY <1>0, <1>2 DEF TypeOK
  <2>2. [data[tmp] EXCEPT ![k] = doc[w]] \in [{1, 2} -> Documents \cup {"none"}]
    BY <2>1
  <2>3. data' \in [Inodes -> [{1, 2} -> Documents \cup {"none"}]]
    BY <1>0, <1>2, <1>3, <2>2 DEF TypeOK
  <2>4. pc' \in [Writers -> WriterPCs] /\ dirty' \subseteq Inodes
    BY <1>0, <1>2 DEF TypeOK, WriteChunk
  <2> QED
    BY <1>0, <1>1, <2>3, <2>4 DEF TypeOK, WriteChunk, misfortune
<1>5. ReadersInv'
  <2>1. \A r \in Readers : rpc[r] # "idle" =>
           data'[rfd[r]] = data[rfd[r]] /\ rfd[r] # tmp'
    BY <1>0, <1>2, <1>3 DEF ReadersInv, TypeOK, WriteChunk
  <2> QED
    BY <1>0, <1>1, <2>1, ReadersUndisturbed DEF WriteChunk
<1>6. dest # "none" => data'[dest] = data[dest]
  BY <1>0, <1>2, <1>3 DEF WritersInv, TypeOK
<1>7. data'[tmp] = [data[tmp] EXCEPT ![k] = doc[w]]
  BY <1>0, <1>2, <1>3 DEF TypeOK
<1> QED
  BY <1>2, <1>4, <1>5, <1>6, <1>7

LEMMA WriteStep ==
    ASSUME StoreInv, NEW w \in Writers, Write1(w) \/ Write2(w) PROVE StoreInv'
<1>0. TypeOK /\ WritersInv
  BY DEF StoreInv
<1>1. CASE Write1(w)
  <2>1. /\ WriteChunk(w, 1, "write1", "write2") /\ fd' = fd
        /\ fd' \in [Writers -> Inodes \cup {"none"}]
    BY <1>0, <1>1 DEF Write1, TypeOK
  <2>2. /\ TypeOK' /\ ReadersInv' /\ tmp \in Inodes
        /\ data'[tmp] = [data[tmp] EXCEPT ![1] = doc[w]]
        /\ dest # "none" => data'[dest] = data[dest]
    BY <2>1, ChunkStep DEF WriterPCs
  <2>3. data'[tmp][1] = doc[w]
    BY <1>0, <2>2 DEF TypeOK
  <2>4. /\ pc[w] = "write1" /\ pc' = [pc EXCEPT ![w] = "write2"]
        /\ UNCHANGED <<dest, tmp, doc>>
    BY <2>1 DEF WriteChunk
  <2>5. WritersInv'
    BY <1>0, <2>1, <2>2, <2>3, <2>4 DEF WritersInv, Midway, Whole, TypeOK
  <2> QED
    BY <2>2, <2>5 DEF StoreInv
<1>2. CASE Write2(w)
  <2>1. /\ WriteChunk(w, 2, "write2", "rename") /\ fd' = [fd EXCEPT ![w] = "none"]
        /\ fd' \in [Writers -> Inodes \cup {"none"}]
    BY <1>0, <1>2 DEF Write2, TypeOK
  <2>2. /\ TypeOK' /\ ReadersInv' /\ tmp \in Inodes
        /\ data'[tmp] = [data[tmp] EXCEPT ![2] = doc[w]]
        /\ dest # "none" => data'[dest] = data[dest]
    <3>1. "rename" \in WriterPCs /\ 2 \in {1, 2} /\ "write2" \in {"write1", "write2"}
      BY DEF WriterPCs
    <3> QED
      BY <2>1, <3>1, ChunkStep
  <2>3. /\ pc[w] = "write2" /\ pc' = [pc EXCEPT ![w] = "rename"]
        /\ UNCHANGED <<dest, tmp, doc>>
    BY <2>1 DEF WriteChunk
  <2>4. data'[tmp][1] = doc[w] /\ data'[tmp][2] = doc[w]
    BY <1>0, <2>2, <2>3 DEF TypeOK, WritersInv
  <2>5. WritersInv'
    BY <1>0, <2>1, <2>2, <2>3, <2>4 DEF WritersInv, Midway, Whole, TypeOK
  <2> QED
    BY <2>2, <2>5 DEF StoreInv
<1> QED
  BY <1>1, <1>2

LEMMA RenameStep ==
    ASSUME StoreInv, NEW w \in Writers, Rename(w) PROVE StoreInv'
<1> USE DEF misfortune
<1>0. /\ TypeOK /\ WritersInv /\ ReadersInv /\ Witness
      /\ pc[w] = "rename" /\ tmp \in Inodes /\ tmp # "none"
  BY DEF StoreInv, Rename, WritersInv, Midway, TypeOK
<1>1. /\ since' \in [Readers -> SUBSET Views]
      /\ \A r \in Readers : since[r] \subseteq since'[r]
  BY <1>0, WitnessGrows
<1>2. /\ dest' = tmp /\ tmp' = "none" /\ pc' = [pc EXCEPT ![w] = "chmod"]
      /\ UNCHANGED <<data, owner, dirty, doc, fd, rpc, rfd, chunk, got, misfortune>>
  BY <1>0 DEF Rename
<1>3. TypeOK'
  BY <1>0, <1>1, <1>2 DEF TypeOK, WriterPCs
<1>4. WritersInv'
  <2>1. Whole(tmp)
    BY <1>0, ParseDocument DEF WritersInv, Whole, TypeOK
  <2>2. \A v \in Writers : ~Midway(v)'
    BY <1>0, <1>2 DEF WritersInv, Midway, TypeOK
  <2>3. \A v \in Writers : fd[v] = "none"
    BY <1>0 DEF WritersInv, Midway
  <2> QED
    BY <1>0, <1>2, <2>1, <2>2, <2>3 DEF WritersInv, Midway, Whole
<1>5. ReadersInv'
  <2>1. \A r \in Readers : rpc[r] # "idle" =>
           data'[rfd[r]] = data[rfd[r]] /\ rfd[r] # tmp'
    BY <1>0, <1>2 DEF ReadersInv
  <2> QED
    BY <1>0, <1>1, <1>2, <2>1, ReadersUndisturbed
<1> QED
  BY <1>3, <1>4, <1>5 DEF StoreInv

LEMMA AfterRenameStep ==
    ASSUME StoreInv, NEW w \in Writers, Chmod(w) \/ Chown(w) \/ Fault(w)
    PROVE  StoreInv'
<1>0. TypeOK /\ WritersInv /\ ReadersInv
  BY DEF StoreInv
<1>1. CASE Chmod(w)
  <2>1. TypeOK'
    BY <1>0, <1>1 DEF Chmod, TypeOK, WriterPCs, disk, reading, misfortune
  <2>2. WritersInv'
    BY <1>0, <1>1 DEF Chmod, TypeOK, WritersInv, Midway, Whole, disk
  <2>3. ReadersInv'
    BY <1>0, <1>1 DEF Chmod, ReadersInv, Whole, disk, reading
  <2> QED
    BY <2>1, <2>2, <2>3 DEF StoreInv
<1>2. CASE Chown(w)
  <2>0. Witness
    BY <1>2 DEF Chown
  <2>1. /\ since' \in [Readers -> SUBSET Views]
        /\ \A r \in Readers : since[r] \subseteq since'[r]
    BY <1>0, <2>0, WitnessGrows
  <2>2. TypeOK'
    BY <1>0, <1>2, <2>1 DEF Chown, TypeOK, WriterPCs, misfortune
  <2>3. WritersInv'
    BY <1>0, <1>2 DEF Chown, TypeOK, WritersInv, Midway, Whole
  <2>4. ReadersInv'
    <3>1. \A r \in Readers : rpc[r] # "idle" => rfd[r] # tmp
      BY <1>0 DEF ReadersInv
    <3> QED
      BY <1>0, <1>2, <2>1, <3>1, ReadersUndisturbed DEF Chown
  <2> QED
    BY <2>2, <2>3, <2>4 DEF StoreInv
<1>3. CASE Fault(w)
  <2>1. TypeOK'
    BY <1>0, <1>3, StoreAssumption
    DEF Fault, TypeOK, WriterPCs, disk, reading, StoreAssumption
  <2>2. WritersInv'
    BY <1>0, <1>3 DEF Fault, TypeOK, WritersInv, Midway, Whole, disk
  <2>3. ReadersInv'
    BY <1>0, <1>3 DEF Fault, ReadersInv, Whole, disk, reading
  <2> QED
    BY <2>1, <2>2, <2>3 DEF StoreInv
<1> QED
  BY <1>1, <1>2, <1>3

LEMMA ReadStep ==
    ASSUME StoreInv, NEW r \in Readers, ReadOpen(r) \/ ReaderStep(r)
    PROVE  StoreInv'
<1> USE DEF disk, writing, misfortune
<1>0. /\ TypeOK /\ WritersInv /\ ReadersInv
      /\ UNCHANGED <<disk, writing, misfortune>>
  BY DEF StoreInv, ReadOpen, ReaderStep, Read1, Read2
<1>1. WritersInv'
  BY <1>0 DEF WritersInv, Midway, Whole
<1>2. CASE ReadOpen(r)
  <2> DEFINE view == View(dest, data, owner)
  <2>1. since' = [since EXCEPT ![r] = {view}] /\ view \in Views /\ rpc[r] = "idle"
    BY <1>2, ViewType DEF ReadOpen
  <2>2. CASE view \in {"absent", "denied"}
    <3>1. got' = [got EXCEPT ![r] = view] /\ UNCHANGED <<rpc, rfd, chunk>>
      BY <1>2, <2>2 DEF ReadOpen
    <3>2. TypeOK'
      BY <1>0, <2>1, <3>1 DEF TypeOK
    <3>3. ReadersInv'
      BY <1>0, <2>1, <3>1 DEF TypeOK, ReadersInv, Whole
    <3> QED
      BY <1>1, <3>2, <3>3 DEF StoreInv
  <2>3. CASE view \notin {"absent", "denied"}
    <3>1. /\ rfd' = [rfd EXCEPT ![r] = dest] /\ rpc' = [rpc EXCEPT ![r] = "read1"]
          /\ UNCHANGED <<got, chunk>>
      BY <1>2, <2>3 DEF ReadOpen
    <3>2. dest # "none" /\ view = Parse(data[dest])
      BY <2>3 DEF View
    <3>3. TypeOK'
      BY <1>0, <2>1, <3>1 DEF TypeOK
    <3>4. dest # tmp /\ Whole(dest)
      BY <1>0, <3>2 DEF WritersInv
    <3>5. ReadersInv'
      BY <1>0, <2>1, <3>1, <3>2, <3>4 DEF TypeOK, ReadersInv, Whole
    <3> QED
      BY <1>1, <3>3, <3>5 DEF StoreInv
  <2> QED
    BY <2>2, <2>3
<1>3. CASE Read1(r)
  <2>1. rpc[r] = "read1" /\ rfd[r] \in Inodes
    BY <1>0, <1>3 DEF Read1, TypeOK, ReadersInv
  <2>2. /\ chunk' = [chunk EXCEPT ![r] = data[rfd[r]][1]]
        /\ rpc' = [rpc EXCEPT ![r] = "read2"]
        /\ UNCHANGED <<rfd, got, since>>
    BY <1>3 DEF Read1
  <2>3. TypeOK'
    BY <1>0, <2>1, <2>2 DEF TypeOK
  <2>4. ReadersInv'
    BY <1>0, <2>1, <2>2 DEF TypeOK, ReadersInv, Whole
  <2> QED
    BY <1>1, <2>3, <2>4 DEF StoreInv
<1>4. CASE Read2(r)
  <2> DEFINE outcome == Parse(<<chunk[r], data[rfd[r]][2]>>)
  <2>1. /\ rpc[r] = "read2" /\ chunk[r] = data[rfd[r]][1]
        /\ Parse(data[rfd[r]]) \in since[r]
    BY <1>0, <1>4 DEF Read2, ReadersInv
  <2>2. outcome = Parse(data[rfd[r]])
    BY <2>1 DEF Parse
  <2>3. outcome \in Views
    BY ParseType DEF Views
  <2>4. /\ got' = [got EXCEPT ![r] = outcome] /\ rfd' = [rfd EXCEPT ![r] = "none"]
        /\ chunk' = [chunk EXCEPT ![r] = "none"] /\ rpc' = [rpc EXCEPT ![r] = "idle"]
        /\ UNCHANGED since
    BY <1>4 DEF Read2
  <2>5. TypeOK'
    BY <1>0, <2>3, <2>4 DEF TypeOK
  <2>6. ReadersInv'
    BY <1>0, <2>1, <2>2, <2>4 DEF TypeOK, ReadersInv, Whole
  <2> QED
    BY <1>1, <2>5, <2>6 DEF StoreInv
<1> QED
  BY <1>2, <1>3, <1>4 DEF ReaderStep

LEMMA WriteBackStep ==
    ASSUME StoreInv, NEW i \in Inodes, WriteBack(i) PROVE StoreInv'
<1> USE DEF WriteBack, writing, reading, misfortune
<1>1. TypeOK'
  BY DEF StoreInv, TypeOK
<1>2. WritersInv'
  BY DEF StoreInv, WritersInv, Midway, Whole
<1>3. ReadersInv'
  BY DEF StoreInv, ReadersInv, Whole
<1> QED
  BY <1>1, <1>2, <1>3 DEF StoreInv

(* Only PowerLoss touches power. *)
LEMMA PowerSteps ==
    ASSUME [Next]_vars PROVE power' = "restored" \/ (power' = power /\ ~PowerLoss)
<1>1. PowerLoss => power' = "restored"
  BY DEF PowerLoss
<1>2. ASSUME NEW w \in Writers, Begin(w) \/ WriterStep(w) \/ Fault(w) PROVE power' = power
  BY <1>2 DEF Begin, WriterStep, OpenTmp, Write1, Write2, WriteChunk, Rename, Chmod,
              Chown, Fault, misfortune
<1>3. ASSUME NEW r \in Readers, ReadOpen(r) \/ ReaderStep(r) PROVE power' = power
  BY <1>3 DEF ReadOpen, ReaderStep, Read1, Read2, misfortune
<1>4. ASSUME NEW i \in Inodes, WriteBack(i) PROVE power' = power
  BY <1>4 DEF WriteBack, misfortune
<1> QED
  BY <1>1, <1>2, <1>3, <1>4 DEF Next, vars

LEMMA StoreStep ==
    ASSUME OneAtATime, StoreInv, [Next]_vars, ~PowerLoss
    PROVE  StoreInv'
<1>1. ASSUME NEW w \in Writers, Begin(w) \/ WriterStep(w) \/ Fault(w)
      PROVE  StoreInv'
  BY <1>1, BeginStep, OpenTmpStep, WriteStep, RenameStep, AfterRenameStep
  DEF WriterStep
<1>2. ASSUME NEW r \in Readers, ReadOpen(r) \/ ReaderStep(r)
      PROVE  StoreInv'
  BY <1>2, ReadStep
<1>3. CASE UNCHANGED vars
  <2>1. TypeOK' /\ WritersInv'
    BY <1>3 DEF vars, StoreInv, TypeOK, WritersInv, Midway, Whole
  <2>2. ReadersInv'
    BY <1>3 DEF vars, StoreInv, ReadersInv, Whole
  <2> QED
    BY <2>1, <2>2 DEF StoreInv
<1> QED
  BY <1>1, <1>2, <1>3, WriteBackStep DEF Next

PoweredInv == power \in {"on", "restored"} /\ (power = "on" => StoreInv)

(* The inductive invariant holds until power is lost.                      *)
THEOREM StoreInvariant ==
    ASSUME OneAtATime
    PROVE  Spec => []PoweredInv
<1>1. Init => PoweredInv
  BY StoreInit DEF PoweredInv, Init
<1>2. PoweredInv /\ [Next]_vars => PoweredInv'
  BY StoreStep, PowerSteps DEF PoweredInv
<1> QED
  BY <1>1, <1>2, PTL DEF Spec

(* The manifest is whole at every moment: writeManifest is atomic when its *)
(* runs do not overlap, or overlap without being root.                     *)
THEOREM ManifestNeverTorn ==
    ASSUME OneAtATime
    PROVE  Spec => []NeverTorn
<1>1. PoweredInv => NeverTorn
  BY StoreAssumption
  DEF StoreAssumption, PoweredInv, StoreInv, WritersInv, Whole, NeverTorn, Current
<1> QED
  BY <1>1, StoreInvariant, PTL

(* Every read returns a document that was the manifest while it ran, or    *)
(* finds it absent or not readable for the service account at its open.    *)
THEOREM ReadsReturnOneVersion ==
    ASSUME OneAtATime
    PROVE  Spec => []ReadsAreAtomic
<1>1. PoweredInv => ReadsAreAtomic
  BY DEF PoweredInv, StoreInv, ReadersInv, ReadsAreAtomic
<1> QED
  BY <1>1, StoreInvariant, PTL

(* The manifest changes in a rename and nowhere else.                      *)
LEMMA OnlyRenameInstalls ==
    ASSUME OneAtATime, StoreInv, [Next]_vars, ~PowerLoss
    PROVE  Current' = Current \/ \E w \in Writers : Rename(w) /\ Current' = doc[w]
<1>0. TypeOK /\ WritersInv
  BY DEF StoreInv
<1>1. ASSUME NEW w \in Writers, Rename(w) PROVE Current' = doc[w]
  <2>1. /\ pc[w] = "rename" /\ tmp # "none" /\ dest' = tmp /\ data' = data
        /\ doc[w] \in Documents
    BY <1>0, <1>1 DEF Rename, WritersInv, Midway, TypeOK
  <2>2. Parse(data[tmp]) = doc[w]
    BY <1>0, <2>1, ParseDocument DEF WritersInv
  <2> QED
    BY <2>1, <2>2 DEF Current
<1>2. ASSUME dest' = dest, dest # "none" => data'[dest] = data[dest]
      PROVE  Current' = Current
  BY <1>2 DEF Current
<1>3. ASSUME NEW w \in Writers, OpenTmp(w) PROVE Current' = Current
  <2>1. dest' = dest
    BY <1>3 DEF OpenTmp
  <2>2. dest # "none" => dest # tmp /\ dest \in Inodes /\ dest \in InUse
    BY <1>0 DEF WritersInv, TypeOK, InUse
  <2>3. dest # "none" => data'[dest] = data[dest]
    <3>1. CASE tmp = "none"
      <4>1. \E j \in Inodes : j \notin InUse
        BY <1>3, <3>1 DEF OpenTmp
      <4>2. NewInode \in Inodes /\ NewInode \notin InUse
        BY <4>1 DEF NewInode
      <4>3. data' = [data EXCEPT ![NewInode] = Blank]
        BY <1>3, <3>1 DEF OpenTmp
      <4> QED
        BY <1>0, <2>2, <4>2, <4>3 DEF TypeOK
    <3>2. CASE tmp # "none"
      BY <1>0, <1>3, <2>2, <3>2 DEF OpenTmp, TypeOK
    <3> QED
      BY <3>1, <3>2
  <2> QED
    BY <1>2, <2>1, <2>3
<1>4. ASSUME NEW w \in Writers, Write1(w) \/ Write2(w) PROVE Current' = Current
  <2>1. dest' = dest /\ data' = [data EXCEPT ![fd[w]] = data'[fd[w]]] /\ fd[w] = tmp
    BY <1>0, <1>4 DEF Write1, Write2, WriteChunk, WritersInv, TypeOK
  <2>2. dest # "none" => dest # tmp /\ dest \in Inodes
    BY <1>0 DEF WritersInv, TypeOK
  <2> QED
    BY <1>0, <1>2, <2>1, <2>2 DEF TypeOK
<1>5. ASSUME NEW w \in Writers, Begin(w) \/ Chmod(w) \/ Chown(w) \/ Fault(w)
      PROVE  Current' = Current
  BY <1>2, <1>5 DEF Begin, Chmod, Chown, Fault, disk
<1>6. ASSUME NEW r \in Readers, ReadOpen(r) \/ ReaderStep(r) PROVE Current' = Current
  BY <1>2, <1>6 DEF ReadOpen, ReaderStep, Read1, Read2, disk
<1>7. ASSUME NEW i \in Inodes, WriteBack(i) PROVE Current' = Current
  BY <1>2, <1>7 DEF WriteBack
<1>8. CASE UNCHANGED vars
  BY <1>2, <1>8 DEF vars
<1> QED
  BY <1>1, <1>3, <1>4, <1>5, <1>6, <1>7, <1>8 DEF Next, WriterStep

(* In those conditions the disk implements the one-step register.          *)
THEOREM StoreImplementsRegister ==
    ASSUME OneAtATime
    PROVE  Spec => ImplementsRegister
<1>1. Init => Register!Init
  BY DEF Init, Register!Init, Current
<1>2. PoweredInv /\ [Next]_vars => [Register!Next]_(Register!vars)
  <2> SUFFICES ASSUME PoweredInv, [Next]_vars
               PROVE  Register!Next \/ UNCHANGED <<Current, power>>
    BY DEF Register!vars
  <2>1. CASE power' = "restored"
    BY <2>1 DEF Register!Next, Register!Lost
  <2>2. CASE power' = power /\ ~PowerLoss /\ power # "on"
    <3>1. power = "restored"
      BY <2>2 DEF PoweredInv
    <3> QED
      BY <2>2, <3>1 DEF Register!Next, Register!Lost
  <2>3. CASE power' = power /\ ~PowerLoss /\ power = "on"
    <3>1. StoreInv
      BY <2>3 DEF PoweredInv
    <3>2. \A w \in Writers : doc[w] \in Documents
      BY <3>1 DEF StoreInv, TypeOK
    <3> QED
      BY <2>3, <3>1, <3>2, OnlyRenameInstalls DEF Register!Next, Register!Install
  <2> QED
    BY <2>1, <2>2, <2>3, PowerSteps
<1> QED
  BY <1>1, <1>2, StoreInvariant, PTL DEF Spec, ImplementsRegister, Register!Spec

(* Between its rename and its end a run that reports success can rely on   *)
(* the manifest being its own, if no other run interferes.                 *)
THEOREM SuccessMeansInstalled ==
    ASSUME \A v, w \in Writers : v = w
    PROVE  Spec => []SuccessIsInstalled
<1>0. OneAtATime
  BY DEF OneAtATime
<1>1. Init => SuccessIsInstalled
  BY DEF Init, SuccessIsInstalled
<1>2. PoweredInv /\ SuccessIsInstalled /\ [Next]_vars => SuccessIsInstalled'
  <2> SUFFICES ASSUME PoweredInv, SuccessIsInstalled, [Next]_vars, power' = "on",
                      NEW w \in Writers, pc'[w] \in {"chmod", "done"}
               PROVE  Current' = doc'[w]
    BY DEF SuccessIsInstalled
  <2>0. power = "on" /\ ~PowerLoss
    BY PowerSteps
  <2>1. /\ StoreInv /\ pc \in [Writers -> WriterPCs]
        /\ pc[w] \in {"chmod", "done"} => Current = doc[w]
    BY <2>0 DEF PoweredInv, StoreInv, TypeOK, SuccessIsInstalled
  <2>2. CASE Rename(w)
    <3>1. /\ doc' = doc /\ tmp # "none" /\ dest' = tmp /\ data' = data
          /\ data[tmp][1] = doc[w] /\ data[tmp][2] = doc[w] /\ doc[w] \in Documents
      BY <2>1, <2>2 DEF Rename, StoreInv, WritersInv, Midway, TypeOK
    <3> QED
      BY <3>1, ParseDocument DEF Current
  <2>3. CASE ~Rename(w)
    <3>1. ASSUME NEW v \in Writers, Begin(v) \/ Fault(v) \/ WriterStep(v)
          PROVE  pc[w] \in {"chmod", "done"} /\ doc'[w] = doc[w]
      <4>0. v = w
        OBVIOUS
      <4>1. CASE Chmod(v)
        BY <2>1, <4>0, <4>1 DEF Chmod
      <4>2. CASE Begin(v) \/ Fault(v) \/ Chown(v)
        BY <2>1, <4>0, <4>2 DEF Begin, Fault, Chown
      <4>3. CASE OpenTmp(v) \/ Write1(v) \/ Write2(v)
        BY <2>1, <4>0, <4>3 DEF OpenTmp, Write1, Write2, WriteChunk
      <4> QED
        BY <2>3, <3>1, <4>0, <4>1, <4>2, <4>3 DEF WriterStep
    <3>2. ASSUME NEW r \in Readers, ReadOpen(r) \/ ReaderStep(r)
          PROVE  pc' = pc /\ doc' = doc
      BY <3>2 DEF ReadOpen, ReaderStep, Read1, Read2, writing
    <3>3. ASSUME NEW i \in Inodes, WriteBack(i) PROVE pc' = pc /\ doc' = doc
      BY <3>3 DEF WriteBack, writing
    <3>4. UNCHANGED vars => pc' = pc /\ doc' = doc
      BY DEF vars
    <3>5. pc[w] \in {"chmod", "done"} /\ doc'[w] = doc[w]
      BY <2>0, <3>1, <3>2, <3>3, <3>4 DEF Next
    <3>6. \A v \in Writers : ~Rename(v)
      BY <2>3
    <3>7. Current' = Current
      BY <1>0, <2>0, <2>1, <3>6, OnlyRenameInstalls
    <3> QED
      BY <2>1, <3>5, <3>7
  <2> QED
    BY <2>2, <2>3
<1> QED
  BY <1>0, <1>1, <1>2, StoreInvariant, PTL DEF Spec

-----------------------------------------------------------------------------
(* Any number of writers, root or not, at once: a writer that writes has a *)
(* file open, a reader that reads too.                                     *)
OpenFiles ==
    /\ \A w \in Writers : pc[w] \in {"write1", "write2"} => fd[w] \in Inodes
    /\ \A r \in Readers : rpc[r] # "idle" => rfd[r] \in Inodes

StoreTypeInv == TypeOK /\ OpenFiles

LEMMA NewInodeIsFree ==
    ASSUME ~(Inodes \subseteq InUse)
    PROVE  NewInode \in Inodes /\ NewInode \notin InUse
<1>1. \E j \in Inodes : j \notin InUse
  OBVIOUS
<1> QED
  BY <1>1 DEF NewInode

LEMMA OpenTmpTypes ==
    ASSUME StoreTypeInv, NEW w \in Writers, OpenTmp(w) PROVE StoreTypeInv'
<1> USE DEF misfortune
<1>0. /\ TypeOK /\ OpenFiles /\ Witness
      /\ UNCHANGED <<dest, doc, rpc, rfd, chunk, got, misfortune>>
  BY DEF StoreTypeInv, OpenTmp
<1>1. since' \in [Readers -> SUBSET Views]
  BY <1>0, WitnessGrows
<1>2. ASSUME NEW i \in Inodes, tmp' = i,
             data' = [data EXCEPT ![i] = Blank],
             owner' \in [Inodes -> {"root", "agent"}],
             dirty' = dirty \cup {i}, fd' = [fd EXCEPT ![w] = i],
             pc' = [pc EXCEPT ![w] = "write1"]
      PROVE  StoreTypeInv'
  <2>1. TypeOK'
    BY <1>0, <1>1, <1>2 DEF TypeOK, Blank, WriterPCs
  <2>2. OpenFiles'
    BY <1>0, <1>2 DEF TypeOK, OpenFiles
  <2> QED
    BY <2>1, <2>2 DEF StoreTypeInv
<1>3. CASE tmp = "none"
  <2>0. NewInode \in Inodes
    BY <1>3, NewInodeIsFree DEF OpenTmp
  <2>1. /\ tmp' = NewInode /\ data' = [data EXCEPT ![NewInode] = Blank]
        /\ owner' = [owner EXCEPT ![NewInode] = "root"]
        /\ dirty' = dirty \cup {NewInode} /\ fd' = [fd EXCEPT ![w] = NewInode]
        /\ pc' = [pc EXCEPT ![w] = "write1"]
    BY <1>3 DEF OpenTmp
  <2>2. owner' \in [Inodes -> {"root", "agent"}]
    BY <1>0, <2>1 DEF TypeOK
  <2> QED
    BY <1>2, <2>0, <2>1, <2>2
<1>4. CASE tmp # "none" /\ w \in Roots
  <2>1. /\ tmp' = tmp /\ data' = [data EXCEPT ![tmp] = Blank] /\ owner' = owner
        /\ dirty' = dirty \cup {tmp} /\ fd' = [fd EXCEPT ![w] = tmp]
        /\ pc' = [pc EXCEPT ![w] = "write1"]
    BY <1>4 DEF OpenTmp
  <2>2. tmp \in Inodes /\ owner' \in [Inodes -> {"root", "agent"}]
    BY <1>0, <1>4, <2>1 DEF TypeOK
  <2> QED
    BY <1>2, <2>1, <2>2
<1>5. CASE tmp # "none" /\ w \notin Roots
  <2>1. pc' = [pc EXCEPT ![w] = "failed"] /\ UNCHANGED <<tmp, data, owner, dirty, fd>>
    BY <1>5 DEF OpenTmp
  <2>2. TypeOK' /\ OpenFiles'
    BY <1>0, <1>1, <2>1 DEF TypeOK, OpenFiles, WriterPCs
  <2> QED
    BY <2>2 DEF StoreTypeInv
<1> QED
  BY <1>3, <1>4, <1>5

(* A chunk goes to the inode the writer has open, and nowhere else.        *)
LEMMA ChunkTypes ==
    ASSUME StoreTypeInv, NEW w \in Writers, NEW k \in {1, 2},
           NEW before \in {"write1", "write2"}, NEW after \in {"write2", "rename"},
           WriteChunk(w, k, before, after), fd' = fd \/ fd' = [fd EXCEPT ![w] = "none"],
           after = "write2" => fd' = fd
    PROVE  StoreTypeInv'
<1> USE DEF misfortune
<1>0. /\ TypeOK /\ OpenFiles /\ Witness /\ fd[w] \in Inodes
      /\ pc' = [pc EXCEPT ![w] = after] /\ dirty' = dirty \cup {fd[w]}
      /\ UNCHANGED <<dest, tmp, owner, doc, rpc, rfd, chunk, got, misfortune>>
  BY DEF StoreTypeInv, OpenFiles, WriteChunk
<1>1. since' \in [Readers -> SUBSET Views]
  BY <1>0, WitnessGrows
<1>2. data' \in [Inodes -> [{1, 2} -> Documents \cup {"none"}]]
  <2>1. data[fd[w]] \in [{1, 2} -> Documents \cup {"none"}] /\ doc[w] \in Documents
    BY <1>0 DEF TypeOK
  <2>2. [data[fd[w]] EXCEPT ![k] = doc[w]] \in [{1, 2} -> Documents \cup {"none"}]
    BY <2>1
  <2>3. data' = [data EXCEPT ![fd[w]] = [data[fd[w]] EXCEPT ![k] = doc[w]]]
    BY DEF WriteChunk
  <2> QED
    BY <1>0, <2>2, <2>3 DEF TypeOK
<1>3. TypeOK'
  BY <1>0, <1>1, <1>2 DEF TypeOK, WriterPCs
<1>4. OpenFiles'
  BY <1>0 DEF TypeOK, OpenFiles
<1> QED
  BY <1>3, <1>4 DEF StoreTypeInv

LEMMA WriterTypes ==
    ASSUME StoreTypeInv, NEW w \in Writers, Begin(w) \/ WriterStep(w) \/ Fault(w)
    PROVE  StoreTypeInv'
<1> USE DEF disk, reading, misfortune
<1>0. TypeOK /\ OpenFiles
  BY DEF StoreTypeInv
<1>1. CASE Begin(w)
  BY <1>0, <1>1 DEF Begin, StoreTypeInv, TypeOK, OpenFiles, WriterPCs
<1>2. CASE Write1(w)
  <2>1. WriteChunk(w, 1, "write1", "write2") /\ fd' = fd
    BY <1>2 DEF Write1
  <2> QED
    BY <2>1, ChunkTypes
<1>3. CASE Write2(w)
  <2>1. WriteChunk(w, 2, "write2", "rename") /\ fd' = [fd EXCEPT ![w] = "none"]
    BY <1>3 DEF Write2
  <2> QED
    BY <2>1, ChunkTypes
<1>4. CASE Rename(w)
  <2>1. since' \in [Readers -> SUBSET Views]
    BY <1>0, <1>4, WitnessGrows DEF Rename
  <2>2. TypeOK'
    BY <1>0, <1>4, <2>1 DEF Rename, TypeOK, WriterPCs
  <2>3. OpenFiles'
    BY <1>0, <1>4 DEF Rename, TypeOK, OpenFiles
  <2> QED
    BY <2>2, <2>3 DEF StoreTypeInv
<1>5. CASE Chmod(w)
  BY <1>0, <1>5 DEF Chmod, StoreTypeInv, TypeOK, OpenFiles, WriterPCs
<1>6. CASE Chown(w)
  <2>1. since' \in [Readers -> SUBSET Views]
    BY <1>0, <1>6, WitnessGrows DEF Chown
  <2>2. TypeOK'
    BY <1>0, <1>6, <2>1 DEF Chown, TypeOK, WriterPCs
  <2>3. OpenFiles'
    BY <1>0, <1>6 DEF Chown, TypeOK, OpenFiles
  <2> QED
    BY <2>2, <2>3 DEF StoreTypeInv
<1>7. CASE Fault(w)
  <2>1. TypeOK'
    BY <1>0, <1>7, StoreAssumption DEF Fault, TypeOK, WriterPCs, StoreAssumption
  <2>2. OpenFiles'
    BY <1>0, <1>7 DEF Fault, TypeOK, OpenFiles
  <2> QED
    BY <2>1, <2>2 DEF StoreTypeInv
<1> QED
  BY <1>1, <1>2, <1>3, <1>4, <1>5, <1>6, <1>7, OpenTmpTypes DEF WriterStep

LEMMA ReaderTypes ==
    ASSUME StoreTypeInv, NEW r \in Readers, ReadOpen(r) \/ ReaderStep(r)
    PROVE  StoreTypeInv'
<1> USE DEF disk, writing, misfortune
<1>0. TypeOK /\ OpenFiles
  BY DEF StoreTypeInv
<1>1. CASE ReadOpen(r)
  <2> DEFINE view == View(dest, data, owner)
  <2>0. view \in Views /\ (view \notin {"absent", "denied"} => dest # "none")
    BY ViewType DEF View
  <2>1. TypeOK'
    BY <1>0, <1>1, <2>0 DEF ReadOpen, TypeOK
  <2>2. OpenFiles'
    BY <1>0, <1>1, <2>0 DEF ReadOpen, TypeOK, OpenFiles
  <2> QED
    BY <2>1, <2>2 DEF StoreTypeInv
<1>2. CASE Read1(r)
  <2>1. rfd[r] \in Inodes
    BY <1>0, <1>2 DEF Read1, OpenFiles
  <2>2. TypeOK'
    BY <1>0, <1>2, <2>1 DEF Read1, TypeOK
  <2>3. OpenFiles'
    BY <1>0, <1>2, <2>1 DEF Read1, TypeOK, OpenFiles
  <2> QED
    BY <2>2, <2>3 DEF StoreTypeInv
<1>3. CASE Read2(r)
  <2>1. Parse(<<chunk[r], data[rfd[r]][2]>>) \in Views
    BY ParseType DEF Views
  <2>2. TypeOK'
    BY <1>0, <1>3, <2>1 DEF Read2, TypeOK
  <2>3. OpenFiles'
    BY <1>0, <1>3 DEF Read2, TypeOK, OpenFiles
  <2> QED
    BY <2>2, <2>3 DEF StoreTypeInv
<1> QED
  BY <1>1, <1>2, <1>3 DEF ReaderStep

LEMMA StoreTypesStep ==
    ASSUME StoreTypeInv, [Next]_vars PROVE StoreTypeInv'
<1>1. ASSUME NEW i \in Inodes, WriteBack(i) PROVE StoreTypeInv'
  BY <1>1 DEF WriteBack, StoreTypeInv, TypeOK, OpenFiles, writing, reading, misfortune
<1>2. CASE PowerLoss
  <2>1. TypeOK'
    BY <1>2 DEF PowerLoss, StoreTypeInv, TypeOK, Blank, WriterPCs
  <2>2. OpenFiles'
    BY <1>2 DEF PowerLoss, StoreTypeInv, OpenFiles
  <2> QED
    BY <2>1, <2>2 DEF StoreTypeInv
<1>3. CASE UNCHANGED vars
  BY <1>3 DEF vars, StoreTypeInv, TypeOK, OpenFiles
<1> QED
  BY <1>1, <1>2, <1>3, WriterTypes, ReaderTypes DEF Next

(* Every name and open file refers to an inode, at every moment, for any   *)
(* number of writers, also across a loss of power.                         *)
THEOREM StoreTypes == Spec => []TypeOK
<1>1. Init => StoreTypeInv
  BY StoreInit DEF Init, StoreInv, StoreTypeInv, OpenFiles
<1>2. StoreTypeInv /\ [Next]_vars => StoreTypeInv'
  BY StoreTypesStep
<1>3. StoreTypeInv => TypeOK
  BY DEF StoreTypeInv
<1> QED
  BY <1>1, <1>2, <1>3, PTL DEF Spec

-----------------------------------------------------------------------------
(* Root writers at once share dest.tmp, and one may truncate or overwrite  *)
(* the inode another installs.  Whoever leaves damage behind is not the    *)
(* last at work: a writer leaves work only through its own rename, and     *)
(* after that dest.tmp does not exist.                                     *)
AtWork(w) == pc[w] \notin {"idle", "chmod", "done"}
Damaged(i) == i # "none" /\ ~Whole(i)

(* A writer whose last steps do not go to what dest.tmp is now. *)
OffTmp(w) == pc[w] = "rename" \/ (pc[w] \in {"write1", "write2"} /\ fd[w] # tmp)

CrowdInv ==
    /\ Damaged(dest) => \E v \in Writers : AtWork(v)
    /\ Damaged(tmp) =>
          \A w \in Writers : OffTmp(w) => \E v \in Writers \ {w} : AtWork(v)
    /\ tmp # "none" =>
          \A w \in Writers :
             pc[w] = "write2" /\ fd[w] = tmp /\ data[tmp][1] # doc[w]
                => \E v \in Writers \ {w} : AtWork(v)

(* A step after which its writer is at work answers for everyone else; for *)
(* itself it must show that what it worked on is whole.                    *)
LEMMA AtWorkAnswers ==
    ASSUME TypeOK, NEW w \in Writers, NEW q \in WriterPCs,
           pc' = [pc EXCEPT ![w] = q], q \notin {"idle", "chmod", "done"},
           Damaged(tmp)' /\ OffTmp(w)' => \E v \in Writers \ {w} : AtWork(v),
           tmp' # "none" /\ q = "write2" /\ fd'[w] = tmp' /\ data'[tmp'][1] # doc'[w]
              => \E v \in Writers \ {w} : AtWork(v)
    PROVE  CrowdInv'
<1>1. AtWork(w)' /\ pc'[w] = q
  BY DEF AtWork, TypeOK
<1>2. \A v \in Writers \ {w} : AtWork(v)' = AtWork(v)
  BY DEF AtWork, TypeOK
<1>3. \A u \in Writers \ {w} : \E v \in Writers \ {u} : AtWork(v)'
  BY <1>1
<1>4. Damaged(dest)' => \E v \in Writers : AtWork(v)'
  BY <1>1
<1>5. ASSUME Damaged(tmp)', NEW u \in Writers, OffTmp(u)'
      PROVE  \E v \in Writers \ {u} : AtWork(v)'
  BY <1>2, <1>3, <1>5
<1>6. ASSUME tmp' # "none", NEW u \in Writers,
             pc'[u] = "write2" /\ fd'[u] = tmp' /\ data'[tmp'][1] # doc'[u]
      PROVE  \E v \in Writers \ {u} : AtWork(v)'
  BY <1>1, <1>2, <1>3, <1>6
<1> QED
  BY <1>4, <1>5, <1>6 DEF CrowdInv

(* The writer's chunk lands in dest.tmp or leaves dest.tmp as it was. *)
LEMMA ChunkLands ==
    ASSUME StoreTypeInv, NEW w \in Writers, NEW k \in {1, 2},
           NEW before \in {"write1", "write2"}, NEW after \in {"write2", "rename"},
           WriteChunk(w, k, before, after)
    PROVE  /\ tmp' = tmp /\ doc' = doc /\ doc[w] \in Documents
           /\ pc[w] = before /\ pc' = [pc EXCEPT ![w] = after]
           /\ fd[w] # tmp => data'[tmp] = data[tmp]
           /\ fd[w] = tmp => data'[tmp] = [data[tmp] EXCEPT ![k] = doc[w]]
           /\ data[fd[w]] \in [{1, 2} -> Documents \cup {"none"}]
<1>1. /\ fd[w] \in Inodes /\ data \in [Inodes -> [{1, 2} -> Documents \cup {"none"}]]
      /\ doc[w] \in Documents /\ tmp \in Inodes \cup {"none"}
  BY DEF StoreTypeInv, OpenFiles, TypeOK, WriteChunk
<1>2. /\ data' = [data EXCEPT ![fd[w]] = [data[fd[w]] EXCEPT ![k] = doc[w]]]
      /\ tmp' = tmp /\ doc' = doc
      /\ pc[w] = before /\ pc' = [pc EXCEPT ![w] = after]
  BY DEF WriteChunk
<1>3. fd[w] # tmp => data'[tmp] = data[tmp]
  BY <1>1, <1>2
<1>4. fd[w] = tmp => data'[tmp] = [data[tmp] EXCEPT ![k] = doc[w]]
  BY <1>1, <1>2
<1> QED
  BY <1>1, <1>2, <1>3, <1>4

LEMMA CrowdWrites ==
    ASSUME StoreTypeInv, CrowdInv, NEW w \in Writers, Write1(w) \/ Write2(w)
    PROVE  CrowdInv'
<1>0. TypeOK
  BY DEF StoreTypeInv
<1>1. CASE Write1(w)
  <2>1. WriteChunk(w, 1, "write1", "write2") /\ fd' = fd
    BY <1>1 DEF Write1
  <2>2. /\ tmp' = tmp /\ doc' = doc /\ doc[w] \in Documents
        /\ pc[w] = "write1" /\ pc' = [pc EXCEPT ![w] = "write2"]
        /\ fd[w] # tmp => data'[tmp] = data[tmp]
        /\ fd[w] = tmp => data'[tmp] = [data[tmp] EXCEPT ![1] = doc[w]]
        /\ data[fd[w]] \in [{1, 2} -> Documents \cup {"none"}]
    BY <2>1, ChunkLands
  <2>3. fd[w] = tmp => data'[tmp][1] = doc[w]
    BY <2>2
  <2>4. OffTmp(w)' => fd[w] # tmp /\ OffTmp(w)
    BY <1>0, <2>1, <2>2 DEF OffTmp, TypeOK
  <2>5. Damaged(tmp)' /\ OffTmp(w)' => \E v \in Writers \ {w} : AtWork(v)
    BY <2>2, <2>4 DEF CrowdInv, Damaged, Whole
  <2> QED
    BY <1>0, <2>1, <2>2, <2>3, <2>5, AtWorkAnswers DEF WriterPCs
<1>2. CASE Write2(w)
  <2>1. WriteChunk(w, 2, "write2", "rename") /\ fd' = [fd EXCEPT ![w] = "none"]
    BY <1>2 DEF Write2
  <2>2. /\ tmp' = tmp /\ doc' = doc /\ doc[w] \in Documents
        /\ pc[w] = "write2" /\ pc' = [pc EXCEPT ![w] = "rename"]
        /\ fd[w] # tmp => data'[tmp] = data[tmp]
        /\ fd[w] = tmp => data'[tmp] = [data[tmp] EXCEPT ![2] = doc[w]]
        /\ data[fd[w]] \in [{1, 2} -> Documents \cup {"none"}]
    <3>1. "write2" \in {"write1", "write2"} /\ "rename" \in {"write2", "rename"}
          /\ 2 \in {1, 2}
      OBVIOUS
    <3> QED
      BY <2>1, <3>1, ChunkLands
  <2>3. Damaged(tmp)' => \E v \in Writers \ {w} : AtWork(v)
    <3>1. CASE fd[w] # tmp
      BY <2>2, <3>1 DEF CrowdInv, OffTmp, Damaged, Whole
    <3>2. CASE fd[w] = tmp /\ data[tmp][1] = doc[w]
      <4>1. data'[tmp][1] = doc[w] /\ data'[tmp][2] = doc[w]
        BY <2>2, <3>2
      <4>2. Parse(data'[tmp]) = doc[w]
        BY <2>2, <4>1, ParseDocument
      <4> QED
        BY <2>2, <4>2 DEF Damaged, Whole
    <3>3. CASE fd[w] = tmp /\ data[tmp][1] # doc[w]
      BY <2>2, <3>3 DEF CrowdInv, Damaged
    <3> QED
      BY <3>1, <3>2, <3>3
  <2> QED
    BY <1>0, <2>2, <2>3, AtWorkAnswers DEF WriterPCs
<1> QED
  BY <1>1, <1>2

LEMMA CrowdWriters ==
    ASSUME StoreTypeInv, CrowdInv, NEW w \in Writers,
           Begin(w) \/ WriterStep(w) \/ Fault(w)
    PROVE  CrowdInv'
<1>0. TypeOK
  BY DEF StoreTypeInv
<1>1. CASE Begin(w) \/ Fault(w)
  <2>1. PICK q \in {"open", "failed"} : pc' = [pc EXCEPT ![w] = q]
    BY <1>1 DEF Begin, Fault
  <2>2. ~OffTmp(w)'
    BY <1>0, <2>1 DEF OffTmp, TypeOK
  <2> QED
    BY <1>0, <2>1, <2>2, AtWorkAnswers DEF WriterPCs
<1>2. CASE OpenTmp(w)
  <2>1. \/ pc' = [pc EXCEPT ![w] = "failed"]
        \/ pc' = [pc EXCEPT ![w] = "write1"] /\ fd' = [fd EXCEPT ![w] = tmp']
    BY <1>2 DEF OpenTmp
  <2>2. ~OffTmp(w)'
    BY <1>0, <2>1 DEF OffTmp, TypeOK
  <2> QED
    BY <1>0, <2>1, <2>2, AtWorkAnswers DEF WriterPCs
<1>3. CASE Rename(w)
  <2>0. pc[w] = "rename" /\ data' = data
    BY <1>3 DEF Rename
  <2>1. CASE tmp = "none"
    <3>1. pc' = [pc EXCEPT ![w] = "failed"] /\ tmp' = "none"
      BY <1>3, <2>1 DEF Rename
    <3> QED
      BY <1>0, <3>1, AtWorkAnswers DEF WriterPCs, Damaged
  <2>2. CASE tmp # "none"
    <3>1. dest' = tmp /\ tmp' = "none" /\ pc' = [pc EXCEPT ![w] = "chmod"]
      BY <1>3, <2>2 DEF Rename
    <3>2. \A v \in Writers \ {w} : AtWork(v)' = AtWork(v)
      BY <1>0, <3>1 DEF AtWork, TypeOK
    <3>3. Damaged(tmp) => \E v \in Writers \ {w} : AtWork(v)
      BY <2>0 DEF CrowdInv, OffTmp
    <3>4. Damaged(dest)' = Damaged(tmp)
      BY <2>0, <3>1 DEF Damaged, Whole
    <3>5. Damaged(dest)' => \E v \in Writers : AtWork(v)'
      BY <3>2, <3>3, <3>4
    <3> QED
      BY <3>1, <3>5 DEF CrowdInv, Damaged
  <2> QED
    BY <2>1, <2>2
<1>4. CASE Chmod(w) \/ Chown(w)
  <2>1. /\ UNCHANGED <<dest, tmp, data, doc, fd>>
        /\ pc[w] \in {"chmod", "done"}
        /\ \E q \in {"done", "idle"} : pc' = [pc EXCEPT ![w] = q]
    BY <1>4 DEF Chmod, Chown, disk
  <2>2. /\ \A v \in Writers : AtWork(v)' = AtWork(v)
        /\ \A v \in Writers : OffTmp(v)' = OffTmp(v)
        /\ \A v \in Writers : pc'[v] = "write2" => pc[v] = "write2"
    BY <1>0, <2>1 DEF AtWork, OffTmp, TypeOK
  <2> QED
    BY <2>1, <2>2 DEF CrowdInv, Damaged, Whole
<1> QED
  BY <1>1, <1>2, <1>3, <1>4, CrowdWrites DEF WriterStep

(* However many root writers overlap and fail, a damaged manifest is only  *)
(* there while one of them is at work or has reported that it failed.      *)
THEOREM QuietMeansWhole == Spec => []QuietIsWhole
<1> DEFINE PoweredCrowd == /\ StoreTypeInv
                           /\ power = "on" => CrowdInv
<1>1. Init => PoweredCrowd
  <2> SUFFICES ASSUME Init PROVE PoweredCrowd
    OBVIOUS
  <2>1. StoreTypeInv
    BY StoreInit DEF Init, StoreInv, StoreTypeInv, OpenFiles
  <2> QED
    BY <2>1 DEF Init, CrowdInv, Damaged
<1>2. PoweredCrowd /\ [Next]_vars => PoweredCrowd'
  <2> SUFFICES ASSUME PoweredCrowd, [Next]_vars PROVE PoweredCrowd'
    OBVIOUS
  <2>1. StoreTypeInv'
    BY StoreTypesStep
  <2> SUFFICES ASSUME power' = "on" PROVE CrowdInv'
    BY <2>1
  <2>2. power = "on" /\ ~PowerLoss /\ StoreTypeInv /\ CrowdInv
    BY PowerSteps
  <2>3. ASSUME UNCHANGED <<dest, tmp, data, pc, doc, fd>> PROVE CrowdInv'
    BY <2>2, <2>3 DEF CrowdInv, Damaged, Whole, OffTmp, AtWork
  <2>4. ASSUME NEW r \in Readers, ReadOpen(r) \/ ReaderStep(r) PROVE CrowdInv'
    BY <2>3, <2>4 DEF ReadOpen, ReaderStep, Read1, Read2, disk, writing
  <2>5. ASSUME NEW i \in Inodes, WriteBack(i) PROVE CrowdInv'
    BY <2>3, <2>5 DEF WriteBack, writing
  <2>6. CASE UNCHANGED vars
    BY <2>3, <2>6 DEF vars
  <2> QED
    BY <2>2, <2>4, <2>5, <2>6, CrowdWriters DEF Next
<1>3. PoweredCrowd => QuietIsWhole
  <2> SUFFICES ASSUME PoweredCrowd, power = "on",
                      \A w \in Writers : pc[w] \in {"idle", "chmod", "done"}
               PROVE  Current # "torn"
    BY DEF QuietIsWhole
  <2>1. ~Damaged(dest)
    BY DEF CrowdInv, AtWork
  <2> QED
    BY <2>1, StoreAssumption DEF StoreAssumption, Damaged, Whole, Current
<1> QED
  BY <1>1, <1>2, <1>3, PTL DEF Spec
=============================================================================
