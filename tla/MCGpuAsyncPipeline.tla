-------------------------- MODULE MCGpuAsyncPipeline --------------------------
(* TLC instance of GpuAsyncPipeline: two channels on each side, so that a ring *)
(* that lags the front one can be seen, and rings one block beyond the cushion *)
(* so that both underruns and full rings are within reach.                     *)
EXTENDS GpuAsyncPipeline
===============================================================================
