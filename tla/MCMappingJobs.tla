--------------------------- MODULE MCMappingJobs ---------------------------
(***************************************************************************)
(* Instances of MappingJobs for TLC.  Job ids are only compared, so the    *)
(* safety runs may permute them.                                           *)
(***************************************************************************)
EXTENDS MappingJobs, TLC

JobSymmetry == Permutations(JobIds)
=============================================================================
