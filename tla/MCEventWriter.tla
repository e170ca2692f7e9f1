---------------------------- MODULE MCEventWriter ----------------------------
(* EventWriter for TLC.  The run checks liveness, so it uses no symmetry.    *)
EXTENDS EventWriter
==============================================================================
