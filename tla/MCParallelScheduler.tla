-------------------------- MODULE MCParallelScheduler --------------------------
(* Model checking of ParallelScheduler on a small pool.                    *)
EXTENDS ParallelScheduler
================================================================================
