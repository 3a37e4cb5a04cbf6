--------------------------- MODULE MCManifestStore ---------------------------
(***************************************************************************)
(* Instances of ManifestStore.  A writer that needs a new inode finds one: *)
(* at most dest, the open file of every reader and that of every other     *)
(* writer are in use then.                                                 *)
(***************************************************************************)
EXTENDS ManifestStore, TLC

ASSUME EnoughInodes == Cardinality(Inodes) > Cardinality(Writers) + Cardinality(Readers)

(* Documents are interchangeable, and so are the writers that are root.    *)
CrowdSymmetry == Permutations(Documents) \cup Permutations(Roots)
=============================================================================
