---------------------------- MODULE ManifestStore ----------------------------
(***************************************************************************)
(* The manifest file on disk: writeManifest of internal/agent/audit/       *)
(* generate.go (WriteFile of dest.tmp, Rename, Chmod), run by -write-      *)
(* manifest and -record-end, against processes that read the manifest      *)
(* (loadManifest), crashes, full disks and power failures.                 *)
(*                                                                         *)
(* Names point to inodes.  An inode holds two chunks, written one after    *)
(* the other, so that a half-written file exists.  All writers use the one *)
(* temporary name dest.tmp and open it with O_TRUNC: a second writer gets  *)
(* the inode of the first.                                                 *)
(***************************************************************************)
EXTENDS Integers, FiniteSets

CONSTANTS
    Writers,     \* processes that write the manifest
    Readers,     \* processes that read it (the daemon, -check)
    Documents,   \* the manifests being written
    Recorded,    \* those of them that -record-end writes, not -write-manifest
    Inodes,      \* bound: files the file system can hold at once
    Roots,       \* those that run as root, so that file modes do not stop them
    MaxFaults,   \* bound: crashes and full disks
    PowerFails   \* whether the machine can lose power (once)

ASSUME StoreAssumption ==
    /\ Roots \subseteq Writers /\ PowerFails \in BOOLEAN
    /\ MaxFaults \in Nat /\ Recorded \subseteq Documents
    /\ {"absent", "denied", "torn", "none"} \cap Documents = {}
    /\ "none" \notin Inodes

VARIABLES
    dest, tmp,    \* the inode each name points to, "none" if there is none
    data,         \* the two chunks of an inode; "none" is a chunk not there
    owner,        \* who may read it: its mode is 0400 from creation on
    dirty,        \* inodes whose bytes are not on the medium yet
    pc, doc, fd,  \* per writer: its step, its document, its open inode
    rpc, rfd,     \* per reader: its step, its open inode
    chunk, got,   \* per reader: the first chunk, the outcome of its last read
    faults, power,
    since         \* history: per reader, what the manifest was since it began

vars == <<dest, tmp, data, owner, dirty, pc, doc, fd, rpc, rfd, chunk, got,
          faults, power, since>>
disk == <<dest, tmp, data, owner, dirty>>
writing == <<pc, doc, fd>>
reading == <<rpc, rfd, chunk, got, since>>
misfortune == <<faults, power>>

-----------------------------------------------------------------------------
(* Mutant: dest.tmp is preallocated, so it holds bytes no writer wrote. *)
BlankPreallocated == [k \in {1, 2} |-> "zeros"]

Blank == [k \in {1, 2} |-> "none"]

(* json.Unmarshal accepts a whole document and nothing less or mixed. *)
Parse(chunks) ==
    IF chunks[1] = chunks[2] /\ chunks[1] \in Documents THEN chunks[1] ELSE "torn"

(* What a reader that reads now gets; it runs as the service account. *)
View(name, bytes, own) ==
    IF name = "none" THEN "absent"
    ELSE IF own[name] # "agent" THEN "denied"
    ELSE Parse(bytes[name])

Current == IF dest = "none" THEN "absent" ELSE Parse(data[dest])

(* The views a read in progress may return, after a step that leads to     *)
(* the primed disk.                                                        *)
Witness ==
    \E view \in {View(dest', data', owner')} :
        since' = [r \in Readers |->
                    IF rpc[r] = "idle" THEN since[r] ELSE since[r] \cup {view}]

(* An inode lives as long as a name or an open file refers to it; which of *)
(* the free ones a new file gets is immaterial.                            *)
InUse == {dest, tmp} \cup {fd[w] : w \in Writers} \cup {rfd[r] : r \in Readers}
NewInode == CHOOSE i \in Inodes : i \notin InUse

Init ==
    /\ dest = "none" /\ tmp = "none"
    /\ data = [i \in Inodes |-> Blank] /\ owner = [i \in Inodes |-> "root"]
    /\ dirty = {}
    /\ pc = [w \in Writers |-> "idle"] /\ doc \in [Writers -> Documents]
    /\ fd = [w \in Writers |-> "none"]
    /\ rpc = [r \in Readers |-> "idle"] /\ rfd = [r \in Readers |-> "none"]
    /\ chunk = [r \in Readers |-> "none"] /\ got = [r \in Readers |-> "absent"]
    /\ faults = 0 /\ power = "on"
    /\ since = [r \in Readers |-> {"absent"}]

-----------------------------------------------------------------------------
(* A run of -write-manifest or -record-end reaches writeManifest; after a  *)
(* failure the operator runs it again.  A run of the role has its chown    *)
(* still to come when it is done.                                          *)
Begin(w) ==
    /\ pc[w] \in {"idle", "failed"} \/ (pc[w] = "done" /\ doc[w] \in Recorded)
    /\ pc' = [pc EXCEPT ![w] = "open"]
    /\ \E d \in Documents :
          /\ pc[w] = "failed" => d = doc[w]
          /\ doc' = [doc EXCEPT ![w] = d]
    /\ UNCHANGED <<disk, fd, reading, misfortune>>

(* Mutant: O_EXCL, so that a file left by an earlier run is not opened.    *)
OpenTmpExclusive(w) ==
    /\ pc[w] = "open"
    /\ IF tmp = "none"
         THEN /\ ~(Inodes \subseteq InUse)
              /\ tmp' = NewInode
              /\ data' = [data EXCEPT ![NewInode] = Blank]
              /\ owner' = [owner EXCEPT ![NewInode] = "root"]
              /\ dirty' = dirty \cup {NewInode}
              /\ fd' = [fd EXCEPT ![w] = NewInode]
              /\ pc' = [pc EXCEPT ![w] = "write1"]
         ELSE /\ pc' = [pc EXCEPT ![w] = "failed"]
              /\ UNCHANGED <<tmp, data, owner, dirty, fd>>
    /\ UNCHANGED <<dest, doc, rpc, rfd, chunk, got, misfortune>>
    /\ Witness
(* os.WriteFile opens with O_WRONLY|O_CREATE|O_TRUNC, mode 0400: a new     *)
(* file may be written through the descriptor that created it, an existing *)
(* one only by root.                                                       *)
OpenTmp(w) ==
    /\ pc[w] = "open"
    /\ IF tmp = "none"
         THEN /\ ~(Inodes \subseteq InUse)
              /\ tmp' = NewInode
              /\ data' = [data EXCEPT ![NewInode] = Blank]
              /\ owner' = [owner EXCEPT ![NewInode] = "root"]
              /\ dirty' = dirty \cup {NewInode}
              /\ fd' = [fd EXCEPT ![w] = NewInode]
              /\ pc' = [pc EXCEPT ![w] = "write1"]
         ELSE IF w \in Roots
           THEN /\ data' = [data EXCEPT ![tmp] = Blank]
                /\ dirty' = dirty \cup {tmp}
                /\ fd' = [fd EXCEPT ![w] = tmp]
                /\ pc' = [pc EXCEPT ![w] = "write1"]
                /\ UNCHANGED <<tmp, owner>>
           ELSE /\ pc' = [pc EXCEPT ![w] = "failed"]
                /\ UNCHANGED <<tmp, data, owner, dirty, fd>>
    /\ UNCHANGED <<dest, doc, rpc, rfd, chunk, got, misfortune>>
    /\ Witness

WriteChunk(w, k, before, after) ==
    /\ pc[w] = before
    /\ data' = [data EXCEPT ![fd[w]] = [@ EXCEPT ![k] = doc[w]]]
    /\ dirty' = dirty \cup {fd[w]}
    /\ pc' = [pc EXCEPT ![w] = after]
    /\ UNCHANGED <<dest, tmp, owner, doc, rpc, rfd, chunk, got, misfortune>>
    /\ Witness

(* Mutant: a short write is taken for a complete one. *)
Write1Short(w) == WriteChunk(w, 1, "write1", "rename")
                  /\ fd' = [fd EXCEPT ![w] = "none"]

Write1(w) == WriteChunk(w, 1, "write1", "write2") /\ UNCHANGED fd
Write2(w) == WriteChunk(w, 2, "write2", "rename")
             /\ fd' = [fd EXCEPT ![w] = "none"]

(* Mutants: an existing manifest is kept; it is removed before the rename; *)
(* the error of the rename is not returned.                                *)
RenameKeepsOld(w) ==
    /\ pc[w] = "rename"
    /\ IF dest # "none" THEN UNCHANGED <<dest, tmp>> ELSE dest' = tmp /\ tmp' = "none"
    /\ pc' = [pc EXCEPT ![w] = "chmod"]
    /\ UNCHANGED <<data, owner, dirty, doc, fd, rpc, rfd, chunk, got, misfortune>>
    /\ Witness
RenameRemovesFirst(w) ==
    /\ pc[w] = "rename"
    /\ IF dest # "none"
         THEN dest' = "none" /\ UNCHANGED <<tmp, pc>>
         ELSE dest' = tmp /\ tmp' = "none" /\ pc' = [pc EXCEPT ![w] = "chmod"]
    /\ UNCHANGED <<data, owner, dirty, doc, fd, rpc, rfd, chunk, got, misfortune>>
    /\ Witness
RenameErrorIgnored(w) ==
    /\ pc[w] = "rename"
    /\ IF tmp = "none" THEN UNCHANGED <<dest, tmp>> ELSE dest' = tmp /\ tmp' = "none"
    /\ pc' = [pc EXCEPT ![w] = "chmod"]
    /\ UNCHANGED <<data, owner, dirty, doc, fd, rpc, rfd, chunk, got, misfortune>>
    /\ Witness

Rename(w) ==
    /\ pc[w] = "rename"
    /\ IF tmp = "none"
         THEN /\ pc' = [pc EXCEPT ![w] = "failed"]   \* ENOENT
              /\ UNCHANGED <<dest, tmp>>
         ELSE /\ dest' = tmp /\ tmp' = "none"
              /\ pc' = [pc EXCEPT ![w] = "chmod"]
    /\ UNCHANGED <<data, owner, dirty, doc, fd, rpc, rfd, chunk, got, misfortune>>
    /\ Witness

(* os.Chmod(dest, 0400) finds the mode it sets; the run reports success.   *)
Chmod(w) ==
    /\ pc[w] = "chmod"
    /\ pc' = [pc EXCEPT ![w] = "done"]
    /\ UNCHANGED <<disk, doc, fd, reading, misfortune>>

(* Mutant: the role has no such task. *)
ChownForgotten(w) ==
    /\ pc[w] = "done" /\ doc[w] \notin Recorded
    /\ pc' = [pc EXCEPT ![w] = "idle"]
    /\ UNCHANGED <<disk, doc, fd, reading, misfortune>>

(* The role's task after -write-manifest: owner = the service account.  No *)
(* task follows -record-end in the wrapper play.                           *)
Chown(w) ==
    /\ pc[w] = "done" /\ doc[w] \notin Recorded
    /\ owner' = [owner EXCEPT ![dest] = "agent"]
    /\ pc' = [pc EXCEPT ![w] = "idle"]
    /\ UNCHANGED <<dest, tmp, data, dirty, doc, fd, rpc, rfd, chunk, got, misfortune>>
    /\ Witness

(* A kill, or ENOSPC before all is written: the temporary file stays. *)
Fault(w) ==
    /\ faults < MaxFaults
    /\ pc[w] \in {"write1", "write2", "rename", "chmod"}
    /\ pc' = [pc EXCEPT ![w] = "failed"]
    /\ fd' = [fd EXCEPT ![w] = "none"]
    /\ faults' = faults + 1
    /\ UNCHANGED <<disk, doc, reading, power>>

-----------------------------------------------------------------------------
(* os.ReadFile of dest, chunk by chunk, then json.Unmarshal. *)
ReadOpen(r) ==
    /\ rpc[r] = "idle"
    /\ LET view == View(dest, data, owner)
       IN  /\ since' = [since EXCEPT ![r] = {view}]
           /\ IF view \in {"absent", "denied"}
                THEN /\ got' = [got EXCEPT ![r] = view]
                     /\ UNCHANGED <<rpc, rfd>>
                ELSE /\ rfd' = [rfd EXCEPT ![r] = dest]
                     /\ rpc' = [rpc EXCEPT ![r] = "read1"]
                     /\ UNCHANGED got
    /\ UNCHANGED <<disk, writing, chunk, misfortune>>

Read1(r) ==
    /\ rpc[r] = "read1"
    /\ chunk' = [chunk EXCEPT ![r] = data[rfd[r]][1]]
    /\ rpc' = [rpc EXCEPT ![r] = "read2"]
    /\ UNCHANGED <<disk, writing, rfd, got, since, misfortune>>

Read2Reopens(r) == \* Mutant: the file is opened by name for every chunk
    /\ rpc[r] = "read2"
    /\ got' = [got EXCEPT ![r] = Parse(<<chunk[r], data[dest][2]>>)]
    /\ rfd' = [rfd EXCEPT ![r] = "none"]
    /\ chunk' = [chunk EXCEPT ![r] = "none"]
    /\ rpc' = [rpc EXCEPT ![r] = "idle"]
    /\ UNCHANGED <<disk, writing, since, misfortune>>

Read2(r) ==
    /\ rpc[r] = "read2"
    /\ got' = [got EXCEPT ![r] = Parse(<<chunk[r], data[rfd[r]][2]>>)]
    /\ rfd' = [rfd EXCEPT ![r] = "none"]
    /\ chunk' = [chunk EXCEPT ![r] = "none"]
    /\ rpc' = [rpc EXCEPT ![r] = "idle"]
    /\ UNCHANGED <<disk, writing, since, misfortune>>

-----------------------------------------------------------------------------
(* The kernel writes the bytes of an inode to the medium in its own time:  *)
(* nothing in writeManifest calls fsync.  A rename may reach it first.     *)
WriteBack(i) ==
    /\ PowerFails /\ i \in dirty /\ power = "on"
    /\ dirty' = dirty \ {i}
    /\ UNCHANGED <<dest, tmp, data, owner, writing, reading, misfortune>>

PowerLoss ==
    /\ PowerFails /\ power = "on"
    /\ power' = "restored"
    /\ data' = [i \in Inodes |-> IF i \in dirty THEN Blank ELSE data[i]]
    /\ dirty' = {}
    /\ pc' = [w \in Writers |-> IF pc[w] = "idle" THEN "idle" ELSE "failed"]
    /\ fd' = [w \in Writers |-> "none"]
    /\ rpc' = [r \in Readers |-> "idle"] /\ rfd' = [r \in Readers |-> "none"]
    /\ chunk' = [r \in Readers |-> "none"]
    /\ UNCHANGED <<dest, tmp, owner, doc, got, since, faults>>

WriterStep(w) ==
    OpenTmp(w) \/ Write1(w) \/ Write2(w) \/ Rename(w) \/ Chmod(w) \/ Chown(w)
ReaderStep(r) == Read1(r) \/ Read2(r)

Next ==
    \/ \E w \in Writers : Begin(w) \/ WriterStep(w) \/ Fault(w)
    \/ \E r \in Readers : ReadOpen(r) \/ ReaderStep(r)
    \/ \E i \in Inodes : WriteBack(i)
    \/ PowerLoss

Spec == Init /\ [][Next]_vars

(* Processes that run are scheduled, and a failed run is run again. *)
FairSpec ==
    /\ Spec
    /\ \A w \in Writers : WF_vars(WriterStep(w))
                          /\ WF_vars(pc[w] = "failed" /\ Begin(w))
    /\ \A r \in Readers : WF_vars(ReaderStep(r))

-----------------------------------------------------------------------------
WriterPCs == {"idle", "failed", "open", "write1", "write2", "rename", "chmod", "done"}
Views == Documents \cup {"absent", "denied", "torn"}

(* Types of the names and inodes, of the writers' and readers' places and  *)
(* of what a read returned.                                                *)
TypeOK ==
    /\ dest \in Inodes \cup {"none"} /\ tmp \in Inodes \cup {"none"}
    /\ data \in [Inodes -> [{1, 2} -> Documents \cup {"none"}]]
    /\ owner \in [Inodes -> {"root", "agent"}]
    /\ dirty \subseteq Inodes
    /\ pc \in [Writers -> WriterPCs]
    /\ doc \in [Writers -> Documents]
    /\ fd \in [Writers -> Inodes \cup {"none"}]
    /\ rpc \in [Readers -> {"idle", "read1", "read2"}]
    /\ rfd \in [Readers -> Inodes \cup {"none"}]
    /\ chunk \in [Readers -> Documents \cup {"none"}]
    /\ got \in [Readers -> Views]
    /\ faults \in 0..MaxFaults
    /\ power \in {"on", "restored"}
    /\ since \in [Readers -> SUBSET Views]

(* "writeManifest writes the manifest atomically": until the machine loses *)
(* power, what the name refers to is one whole document, also while it is  *)
(* being replaced and after a writer died at any point.                    *)
NeverTorn == power = "on" => Current # "torn"

(* A read that overlaps any number of writes returns what the manifest was *)
(* at some moment between its open and its end.                            *)
ReadsAreAtomic ==
    power = "on" => \A r \in Readers : rpc[r] = "idle" => got[r] \in since[r]

(* A run that gets past the rename has installed its own document.         *)
SuccessIsInstalled ==
    power = "on" => \A w \in Writers : pc[w] \in {"chmod", "done"} => Current = doc[w]

(* However many runs write at once, a damaged manifest is never left behind*)
(* by runs that all reported success while the machine kept its power: one *)
(* of them is still at work, or has failed and said so.                    *)
QuietIsWhole ==
    power = "on" /\ (\A w \in Writers : pc[w] \in {"idle", "chmod", "done"})
        => Current # "torn"

(* A failed run leaves at worst a stale dest.tmp, which does not keep the  *)
(* next run from succeeding, also when the failure was a loss of power.    *)
RetrySucceeds == \A w \in Writers : pc[w] = "failed" ~> pc[w] = "done"

(* A run of the role that was begun leaves a manifest the daemon can read, *)
(* however often it fails on the way, be it by a loss of power, and whatever*)
(* record-end runs and dead writers left in its place before.              *)
BecomesReadable ==
    \A w \in Writers : (pc[w] # "idle" /\ doc[w] \notin Recorded)
                          ~> View(dest, data, owner) \in Documents

(* "Run the wrapper once per host type ... Deploy the agent as a service.  *)
(* It checks the manifest": whichever command has written it.              *)
DeployedAgentReads ==
    (\E w \in Writers : pc[w] = "done")
        ~> (View(dest, data, owner) \in Documents \/ power = "restored")

Register == INSTANCE ManifestRegister WITH current <- Current
ImplementsRegister == Register!Spec
=============================================================================
