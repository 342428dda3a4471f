-------------------------- MODULE MCMetadataCrash --------------------------
(* MetadataCrash for TLC. File names are interchangeable. *)
EXTENDS MetadataCrash, TLC

PathSymmetry == Permutations(Path)
=============================================================================
