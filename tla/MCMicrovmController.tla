------------------------ MODULE MCMicrovmController ------------------------
(* An instance of MicrovmController for TLC. *)
EXTENDS MicrovmController

CONSTANTS p, w, f
=============================================================================
