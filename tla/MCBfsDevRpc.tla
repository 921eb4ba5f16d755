----------------------------- MODULE MCBfsDevRpc -----------------------------
(***************************************************************************)
(* Three runs of bfsdev_command.py against one bfsdev_ctrl.py, with a      *)
(* backlog of one connection, so that a connect finds the backlog full,    *)
(* and connections are queued, in a request thread and answered when the   *)
(* user interrupts or kills the server.                                    *)
(***************************************************************************)
EXTENDS BfsDevRpc
=============================================================================
