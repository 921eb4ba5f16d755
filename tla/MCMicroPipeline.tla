--------------------------- MODULE MCMicroPipeline ---------------------------
(***************************************************************************)
(* Small instance of MicroPipeline: one combined log of one or two runs,   *)
(* over a file system name plot_micro() knows once renamed (bfs -> bfs_ne) *)
(* and one it does not (ext4, a KeyError), two I/O sizes, and run bodies  *)
(* with all four records, with the throughput record only, and with none.  *)
(***************************************************************************)
EXTENDS MicroPipeline, MCSplitLog, TLC

MCPFsNames == {<<"bfs">>, <<"ext4">>}

MCWorkloads == {"seqread", "rread", "seqwrite", "rwrite"}

MCPBodies ==
    {<<"close", "fsync", "op", "open", "other">>, <<"op", "other">>, <<"other">>}

MCPRuns == {RunLines(c, b) : c \in [fs : MCPFsNames, op : MCOps, sz : MCSizes], b \in MCPBodies}

MCIntOf == ("1" :> 1) @@ ("4096" :> 4096) @@ ("131072" :> 131072) @@ ("1048576" :> 1048576)

(* Logs of two runs (the last run of a log is lost, see SplitLog) with a *)
(* 1 MiB and a 4 KiB I/O size.                                            *)
MCMibSizes == {"4096", "1048576"}

MCMibRuns ==
    LET r == {RunLines(c, b) : c \in [fs : MCPFsNames, op : MCOps, sz : MCMibSizes], b \in MCPBodies}
    IN  {r1 \o r2 : r1, r2 \in r}

MCPLogChoices == MCPRuns \cup {r1 \o r2 : r1, r2 \in MCPRuns}
=============================================================================
