---------------------------- MODULE MCReverbEngine ----------------------------
(* TLC instance of ReverbEngine: the IR algorithm and one other, two devices, *)
(* one or two impulse responses and a fade of two blocks.                     *)
EXTENDS ReverbEngine
===============================================================================
