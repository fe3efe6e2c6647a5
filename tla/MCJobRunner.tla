----------------------------- MODULE MCJobRunner -----------------------------
(* JobRunner with two jobs (one with a change), two pool threads, and more *)
(* submissions than jobs, so that a job is submitted again with the same   *)
(* and with another correlation id.                                        *)
EXTENDS JobRunner
=============================================================================
