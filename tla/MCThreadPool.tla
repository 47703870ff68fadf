---------------------------- MODULE MCThreadPool ----------------------------
(* The sets of workers and tasks are model values given in the cfg; there  *)
(* is no symmetry, since the run checks liveness.                          *)
EXTENDS ThreadPool
=============================================================================
