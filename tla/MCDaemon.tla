------------------------------ MODULE MCDaemon ------------------------------
(***************************************************************************)
(* Values for the constants of Daemon that a .cfg cannot write.            *)
(***************************************************************************)
EXTENDS Daemon

\* One angle per lid state: the daemon's properties tell no others apart.
MCAngles == {0, 10, 40}

\* Dark and one brightness, or two to restore the wrong one.
MCTwoLevels == {0, 1}
MCLevels == {0, 1, 2}
=============================================================================
