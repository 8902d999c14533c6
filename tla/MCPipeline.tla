---------------------------- MODULE MCPipeline ----------------------------
(***************************************************************************)
(* Instances of Pipeline for TLC: model values for the jobs, requests,     *)
(* workers and renditions come from the .cfg files.                        *)
(***************************************************************************)
EXTENDS Pipeline, TLC

\* Workers and renditions are interchangeable everywhere, and so are jobs and
\* requests: no action or property names one of them.
Symmetry ==
  Permutations(Jobs) \cup Permutations(Requests)
    \cup Permutations(Workers) \cup Permutations(Renditions)

=============================================================================
