------------------------------- MODULE MCPins -------------------------------
(* TLC: every PID pinned at once, under kernels that recycle PIDs.          *)
EXTENDS Pins

=============================================================================
