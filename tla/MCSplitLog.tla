----------------------------- MODULE MCSplitLog -----------------------------
(***************************************************************************)
(* Small instance of SplitLog: two combined logs, each one or two runs     *)
(* long, over two file system names (one renamed by lines 53-60, one      *)
(* kept), one workload and two I/O sizes, so that the same run name occurs *)
(* in both files and the glob order decides which one is kept.             *)
(***************************************************************************)
EXTENDS SplitLog

MCFsNames == {<<"bfs">>, <<"bfs", "ci">>}
MCOps == {"rread"}
MCSizes == {"4096", "131072"}

(* What filebench prints for one run: a completed run has its per-operation *)
(* breakdown and the closing lines, a run that failed only its preamble.   *)
MCBodies == {<<"close", "op", "open", "other">>, <<"other">>}

RunLines(c, b) ==
    <<[kind |-> "hdr", cfg |-> c]>> \o [k \in DOMAIN b |-> [kind |-> b[k], cfg |-> c]]

MCRuns == {RunLines(c, b) : c \in [fs : MCFsNames, op : MCOps, sz : MCSizes], b \in MCBodies}

MCLogChoices == MCRuns \cup {r1 \o r2 : r1, r2 \in MCRuns}
=============================================================================
