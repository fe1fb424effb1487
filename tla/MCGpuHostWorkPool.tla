--------------------------- MODULE MCGpuHostWorkPool ---------------------------
(* TLC instance of GpuHostWorkPool: two workers, calls of up to three items   *)
(* and two generations between prepares, so that a worker that slept through  *)
(* one generation meets the next and a re-prepare meets a used counter.       *)
EXTENDS GpuHostWorkPool
===============================================================================
