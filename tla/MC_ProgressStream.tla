------------------------- MODULE MC_ProgressStream -------------------------
(* More events than the channel holds, so that a worker meets a full one.     *)
EXTENDS ProgressStream
=============================================================================
