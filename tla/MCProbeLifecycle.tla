-------------------------- MODULE MCProbeLifecycle ---------------------------
(* An instance of ProbeLifecycle: three starts (main's and two restarts), two    *)
(* isolates that exit and one failure.                                           *)
EXTENDS ProbeLifecycle
=============================================================================
