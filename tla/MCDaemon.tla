------------------------------ MODULE MCDaemon ------------------------------
(* Instances of the daemon's life cycle for TLC. *)
EXTENDS Daemon

MCInodes == 1..2
MCVersions == {1, 2}

=============================================================================
