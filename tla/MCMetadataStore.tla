-------------------------- MODULE MCMetadataStore --------------------------
(* MetadataStore for TLC. File names are interchangeable. *)
EXTENDS MetadataStore, TLC

PathSymmetry == Permutations(Path)
=============================================================================
