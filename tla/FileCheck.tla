------------------------------ MODULE FileCheck ------------------------------
(***************************************************************************)
(* What one tracked file is checked for (internal/agent/audit/manifest.go, *)
(* checkFile and its helpers), as operators without state.  A file on the  *)
(* node is a record of its kind, its bytes (a member of Contents), its     *)
(* permission bits and its mtime; its size follows from its bytes.         *)
(*                                                                         *)
(* checkFile makes two separate series of system calls, a stat and then an *)
(* open/read/hash, and the file may change in between, so the function is  *)
(* split where it reads the node: StatVerdict is everything decided from   *)
(* the stat, HashVerdict everything decided once the hash is known.        *)
(***************************************************************************)
EXTENDS Integers

CONSTANTS
    Paths,      \* paths a manifest can track
    Contents,   \* the byte strings a file can hold
    SizeOf,     \* their lengths
    Modes,      \* permission bits, as recorded and as stat returns them
    MTimes,     \* modification times; 0 (the epoch) is also "not recorded"
    Torn        \* bytes of two versions of a file mixed by one read

ASSUME FileDataAssumption ==
    /\ SizeOf \in [Contents -> Nat]
    /\ MTimes \subseteq Nat
    /\ Torn \notin Contents
    /\ "" \notin Modes

(* sha256 tells byte strings apart; NoSha is the empty JSON string.  Bytes *)
(* that were themselves mixed when recorded are a member of Contents that  *)
(* no state of the file holds.                                             *)
Digest(bytes) == <<"sha256", bytes>>
NoSha == <<>>
Digests == {Digest(c) : c \in Contents}

NoMode == ""
CheckNames == {"sha256", "mode", "size", "mtime"}
DefaultCheckSet == {"sha256", "mode"}
EffectiveChecks(checkSet) == IF checkSet = {} THEN DefaultCheckSet ELSE checkSet

(* "statfail": stat fails otherwise than with ENOENT; "unreadable": stat   *)
(* succeeds and open or read fails.                                        *)
Kinds == {"regular", "dir", "absent", "statfail", "unreadable"}
FileStates == [kind : Kinds, content : Contents, mode : Modes, mtime : MTimes]

Entries == [path : Paths, sha : Digests \cup {NoSha}, mode : Modes \cup {NoMode},
            size : Nat, mtime : Nat]
Configs == [checks : SUBSET CheckNames, fast : BOOLEAN]

Infos == [kind : Kinds, size : Nat, mode : Modes, mtime : MTimes]
StatOf(file) == [kind |-> file.kind, size |-> SizeOf[file.content],
                 mode |-> file.mode, mtime |-> file.mtime]

-----------------------------------------------------------------------------
Clean == "nil"
Reasons == {"missing", "stat", "is_directory", "mode_mismatch", "unreadable",
            "hash_mismatch", "size_mismatch", "mtime_mismatch"}
Verdicts == Reasons \cup {Clean}

(* The asserts of checkFile: a violated one panics and ends the process.   *)
WellFormed(f) == f.sha # NoSha

SizeAndTimeMatch(f, info) ==
    /\ f.size # 0 /\ f.mtime # 0
    /\ info.size = f.size /\ info.mtime = f.mtime

(* Mutant: the fast_scan short cut is taken before the mode is compared.   *)
StatVerdictFastFirst(f, cfg, info) ==
    CASE info.kind = "absent"   -> "missing"
      [] info.kind = "statfail" -> "stat"
      [] info.kind = "dir"      -> "is_directory"
      [] OTHER ->
           IF cfg.fast /\ SizeAndTimeMatch(f, info) THEN Clean
           ELSE IF "mode" \in cfg.checks /\ f.mode # NoMode /\ info.mode # f.mode
             THEN "mode_mismatch" ELSE "hash"

StatVerdict(f, cfg, info) ==
    CASE info.kind = "absent"   -> "missing"
      [] info.kind = "statfail" -> "stat"
      [] info.kind = "dir"      -> "is_directory"
      [] OTHER ->
           IF "mode" \in cfg.checks /\ f.mode # NoMode /\ info.mode # f.mode
             THEN "mode_mismatch"
           ELSE IF cfg.fast /\ SizeAndTimeMatch(f, info) THEN Clean ELSE "hash"

(* Mutants: an mtime that was not recorded is compared all the same; the   *)
(* size is compared before the hash.                                       *)
HashVerdictNoRecordTest(f, cfg, info, got) ==
    IF got # f.sha THEN "hash_mismatch"
    ELSE IF "mtime" \in cfg.checks /\ info.mtime # f.mtime THEN "mtime_mismatch"
    ELSE Clean
HashVerdictSizeFirst(f, cfg, info, got) ==
    IF "size" \in cfg.checks /\ f.size # 0 /\ info.size # f.size
      THEN "size_mismatch"
    ELSE IF got # f.sha THEN "hash_mismatch" ELSE Clean

HashVerdict(f, cfg, info, got) ==
    IF got # f.sha THEN "hash_mismatch"
    ELSE IF "size" \in cfg.checks /\ f.size # 0 /\ info.size # f.size
      THEN "size_mismatch"
    ELSE IF "mtime" \in cfg.checks /\ f.mtime # 0 /\ info.mtime # f.mtime
      THEN "mtime_mismatch"
    ELSE Clean

-----------------------------------------------------------------------------
(***************************************************************************)
(* The yardstick: what it means for a file to depart from its entry,       *)
(* stated per attribute and without the order in which checkFile looks.    *)
(***************************************************************************)
Attributes == {"access", "content", "mode", "size", "mtime"}
Gone(file) == file.kind \in {"absent", "statfail", "dir"}

DepartsIn(attribute, f, cfg, file) ==
    \/ Gone(file)
    \/ attribute = "access" /\ file.kind = "unreadable"
    \/ attribute = "content" /\ Digest(file.content) # f.sha
    \/ /\ attribute = "mode" /\ "mode" \in cfg.checks
       /\ f.mode # NoMode /\ file.mode # f.mode
    \/ /\ attribute = "size" /\ "size" \in cfg.checks
       /\ f.size # 0 /\ SizeOf[file.content] # f.size
    \/ /\ attribute = "mtime" /\ "mtime" \in cfg.checks
       /\ f.mtime # 0 /\ file.mtime # f.mtime

Departs(f, cfg, file) == \E a \in Attributes : DepartsIn(a, f, cfg, file)

(* fast_scan trusts a matching size and mtime in place of the bytes.       *)
TrustedByStat(f, cfg, file) ==
    cfg.fast /\ ~Gone(file) /\ SizeAndTimeMatch(f, StatOf(file))

(* The recorded size is that of the recorded bytes.                        *)
Consistent(f) ==
    f.size # 0 => \A c \in Contents : f.sha = Digest(c) => f.size = SizeOf[c]
=============================================================================
