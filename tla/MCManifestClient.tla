-------------------------- MODULE MCManifestClient --------------------------
(***************************************************************************)
(* Two threads, two paths and two seconds, started on an empty manifest    *)
(* and on one with a file.                                                 *)
(***************************************************************************)
EXTENDS ManifestClient, TLC

MCStarts == {NoFiles} \cup {[NoFiles EXCEPT ![p] = v] : p \in Paths, v \in Versions}
MCSymmetry == Permutations(Callers) \cup Permutations(Paths) \cup Permutations(Versions)
=============================================================================
