----------------------------- MODULE MCIngestion -----------------------------
(* Ingestion with two images of good quality and one that is rejected.     *)
(* Keys, municipalities and the good images are interchangeable.           *)
EXTENDS Ingestion, TLC

Symmetry ==
  Permutations(Keys) \cup Permutations(Municipalities)
    \cup Permutations(Contents \ RejectedContents)
=============================================================================
