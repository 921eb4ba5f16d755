---------------------------- MODULE MicroPipeline ----------------------------
(***************************************************************************)
(* The filebench microbenchmark pipeline: split.py (module SplitLog) cuts  *)
(* the combined logs into per-run files of filebench-directio/, then       *)
(* plot_micro() of benchmarks/new_bench/plot_micro.py globs that directory *)
(* and, for each *.log file, reads the throughput of the run's read/write  *)
(* operation and the open, close and fsync latencies into four nested      *)
(* dicts res[workload][fs_type][iosize], all initialised to 0.0.           *)
(*                                                                         *)
(* A value read from a record line is represented by the run that printed *)
(* it (the ghost cfg of the line); 0.0 is the model value Zero.            *)
(***************************************************************************)
EXTENDS SplitLog

CONSTANTS
    Zero,       \* the 0.0 every cell of the dicts starts with
    Workloads,  \* the workload keys of the dicts (seqread, rread, ...)
    IntOf       \* int() on the digit strings that occur in file names

ASSUME ZeroAssumption == Zero \notin Cfg

ASSUME IntOfAssumption == Sizes \subseteq DOMAIN IntOf /\ IntOf \in [DOMAIN IntOf -> Nat]

(***************************************************************************)
(* The ghost run of a line is the run that printed it: in every combined   *)
(* log, the lines from a header up to the next header are those of the     *)
(* header's run.                                                           *)
(***************************************************************************)
ASSUME LinesOfRunAssumption ==
    \A s \in LogChoices : \A k \in 1 .. Len(s) :
        s[k].kind = "hdr" => \A j \in 1 .. Len(Segment(s, k)) : Segment(s, k)[j].cfg = s[k].cfg

(* Line 518: fs_types, in the order the loop of lines 570-573 tries them.  *)
FsTypes == <<<<"bfs", "ne">>, <<"bfs", "ci">>, <<"nfs", "ne">>, <<"nfs", "we">>>>

(* The four dicts, in the order lines 594-666 fill them, each with the     *)
(* line kinds whose marker tokens the search of that dict matches.         *)
Metrics == <<"tp", "open", "close", "fsync">>

Markers == [tp |-> {"op"}, open |-> {"open"}, close |-> {"close"}, fsync |-> {"fsync"}]

VARIABLES
    todo,   \* the *.log files of the glob of line 523 not processed yet
    res,    \* res[m][<<workload, fs_type, iosize>>]: the dicts of lines 524-562
    ppc     \* "wait" (split.py not run), "run", "done" or "error" (an exception)

pvars == <<todo, res, ppc>>

allvars == <<vars, pvars>>

(***************************************************************************)
(* The keys of a file name, lines 570-584.  fs_type is the first of        *)
(* fs_types that occurs in the name (its parts occur contiguously), or     *)
(* None; the workload is the first "_"-separated part and the I/O size the *)
(* fourth part from the end, turned into "<n>K" or "<n>M".                 *)
(***************************************************************************)
OccursIn(t, n) == \E d \in 0 .. Len(n) - Len(t) : \A j \in 1 .. Len(t) : n[d + j] = t[j]

FsMatches(n) == {j \in 1 .. Len(FsTypes) : OccursIn(FsTypes[j], n)}

FsTypeOf(n) ==
    IF FsMatches(n) = {} THEN <<>> ELSE FsTypes[FirstOf(FsMatches(n))]

(* Mutant: the size label computed with 1000 for 1024.                     *)
SizeLabelDecimal(sz) ==
    IF sz \div 1000 > 1000 THEN <<(sz \div 1000) \div 1000, "M">> ELSE <<sz \div 1000, "K">>

(* Lines 581-584: "<n>M" above 1024 KiB, else "<n>K".                      *)
SizeLabel(sz) ==
    IF sz \div 1024 > 1024 THEN <<(sz \div 1024) \div 1024, "M">> ELSE <<sz \div 1024, "K">>

(* Line 581: int() of the fourth part from the end; any other part than  *)
(* digits raises ValueError.                                               *)
SizeOK(n) == n[Len(n) - 3] \in DOMAIN IntOf

(* Lines 570-579: workload, fs_type and iosize of a file name.             *)
KeyOf(n) == <<n[1], FsTypeOf(n), SizeLabel(IntOf[n[Len(n) - 3]])>>

(* The cell a run of configuration c is measured for: its workload, the    *)
(* fs type split.py renames it to and its I/O size in KiB (or MiB).        *)
RunKey(c) ==
    <<c.op, MapFs(c.fs),
      IF IntOf[c.sz] >= 1048576 THEN <<IntOf[c.sz] \div 1048576, "M">>
                                ELSE <<IntOf[c.sz] \div 1024, "K">>>>

(* Lines 524-562: the iosize keys every dict starts with.                  *)
InitLabels == {<<4, "K">>, <<8, "K">>, <<16, "K">>, <<32, "K">>, <<64, "K">>, <<128, "K">>}

InitKeys == Workloads \X {FsTypes[j] : j \in 1 .. Len(FsTypes)} \X InitLabels

(* res[workload][fs_type][iosize] = v: a KeyError unless the workload and  *)
(* the fs type are keys; a new iosize key is added to the innermost dict.  *)
KeyValid(key) == key[1] \in Workloads /\ key[2] # <<>>

Put(f, key, v) == [x \in DOMAIN f \cup {key} |-> IF x = key THEN v ELSE f[x]]

(* Lines 564-567: the files the loop skips ("bench" in the basename,       *)
(* "nfsg" in the path).                                                    *)
Skipped(n) == \E j \in 1 .. Len(n) : n[j] \in {"bench", "nfsg"}

(***************************************************************************)
(* Lines 594-666: the first line of the file with a marker of metric m,    *)
(* and whether the search of every metric up to the m-th has succeeded     *)
(* (each failed search ends the file with continue).                       *)
(***************************************************************************)
Hits(c, m) == {k \in 1 .. Len(c) : c[k].kind \in Markers[m]}

Found(c, m) == Hits(c, m) # {}

(* Mutant: the whole record line stored instead of its field.            *)
ValueOfLine(c, m) == c[FirstOf(Hits(c, m))]

(* Lines 619-624 and their copies: the field of the first record found.   *)
ValueOf(c, m) == c[FirstOf(Hits(c, m))].cfg

Reached(c, p) == \A q \in 1 .. p : Found(c, Metrics[q])

-----------------------------------------------------------------------------
PInit ==
    /\ Init
    /\ todo = {}
    /\ res = [m \in {Metrics[p] : p \in 1 .. 4} |-> [key \in InitKeys |-> Zero]]
    /\ ppc = "wait"

(* The user runs plot_micro() once split.py has ended or died.             *)
StartPlot ==
    /\ ppc = "wait"
    /\ pc \in {"done", "crashed"}
    /\ todo' = written
    /\ ppc' = "run"
    /\ UNCHANGED <<vars, res>>

(* Lines 564-567, 594-607: a file that is skipped, or that has no line   *)
(* with a read/write marker, adds nothing.                                 *)
SkipFile ==
    /\ ppc = "run"
    /\ \E n \in todo :
          /\ Skipped(n) \/ (SizeOK(n) /\ ~Found(out[n], "tp"))
          /\ todo' = todo \ {n}
    /\ UNCHANGED <<vars, res, ppc>>

(* Lines 608-666: the throughput, then the open, close and fsync latency, *)
(* each stored as soon as it is found; the first search that fails ends   *)
(* the file with continue.                                                 *)
RecordFile ==
    /\ ppc = "run"
    /\ \E n \in todo :
          /\ ~Skipped(n) /\ SizeOK(n) /\ Found(out[n], "tp") /\ KeyValid(KeyOf(n))
          /\ todo' = todo \ {n}
          /\ res' = [m \in DOMAIN res |->
                       IF \E p \in 1 .. 4 : Metrics[p] = m /\ Reached(out[n], p)
                         THEN Put(res[m], KeyOf(n), ValueOf(out[n], m))
                         ELSE res[m]]
    /\ UNCHANGED <<vars, ppc>>

(* Line 581: a size part that is not a number raises ValueError; line    *)
(* 624: a file whose fs type matches none of fs_types (None), or whose    *)
(* workload is not one of the four, raises KeyError.  Either ends the     *)
(* script.                                                                 *)
FailFile ==
    /\ ppc = "run"
    /\ \E n \in todo :
          /\ ~Skipped(n)
          /\ ~SizeOK(n) \/ (Found(out[n], "tp") /\ ~KeyValid(KeyOf(n)))
          /\ todo' = todo \ {n}
    /\ ppc' = "error"
    /\ UNCHANGED <<vars, res>>

(* The loop is over: the dicts are handed to the plotting code.            *)
PlotDone ==
    /\ ppc = "run"
    /\ todo = {}
    /\ ppc' = "done"
    /\ UNCHANGED <<vars, todo, res>>

(* split.py runs (and may be rerun) before plot_micro() starts.            *)
SplitStep ==
    /\ ppc = "wait"
    /\ Next
    /\ UNCHANGED pvars

PNext ==
    \/ SplitStep
    \/ StartPlot
    \/ SkipFile
    \/ RecordFile
    \/ FailFile
    \/ PlotDone

PSpec == PInit /\ [][PNext]_allvars

-----------------------------------------------------------------------------
PTypeOK ==
    /\ TypeOK
    /\ todo \subseteq written
    /\ DOMAIN res = {Metrics[p] : p \in 1 .. 4}
    /\ \A m \in DOMAIN res :
          /\ InitKeys \subseteq DOMAIN res[m]
          /\ \A key \in DOMAIN res[m] : res[m][key] \in Cfg \cup {Zero}
    /\ ppc \in {"wait", "run", "done", "error"}

(***************************************************************************)
(* Every value in the dicts is a measurement of a run that the combined    *)
(* logs hold under exactly that workload, renamed fs type and I/O size:    *)
(* nothing is credited to another run's cell, through the renaming of      *)
(* split.py, the name built there and parsed again by plot_micro(), and    *)
(* the size label.                                                         *)
(***************************************************************************)
CellsFromOwnRun ==
    \A m \in DOMAIN res : \A key \in DOMAIN res[m] :
        res[m][key] # Zero =>
            /\ RunKey(res[m][key]) = key
            /\ \E f \in Files : \E k \in DOMAIN logs[f] :
                  logs[f][k].kind = "hdr" /\ logs[f][k].cfg = res[m][key]

(***************************************************************************)
(* The comment at lines 520-522: the plot shows the throughput of every    *)
(* run.  Once both scripts have run without a crash, every run of the      *)
(* combined logs that printed its throughput line, and whose workload and  *)
(* renamed fs type are keys of the dicts (lines 524-562), has a throughput *)
(* in its cell, not the initial 0.0.                                       *)
(***************************************************************************)
EveryRunReported ==
    (ppc = "done" /\ crashes = 0) =>
        \A f \in Files : \A k \in DOMAIN logs[f] :
            (/\ logs[f][k].kind = "hdr"
             /\ Found(Segment(logs[f], k), "tp")
             /\ logs[f][k].cfg.op \in Workloads
             /\ MapFs(logs[f][k].cfg.fs) \in {FsTypes[j] : j \in 1 .. Len(FsTypes)})
                => /\ RunKey(logs[f][k].cfg) \in DOMAIN res["tp"]
                   /\ res["tp"][RunKey(logs[f][k].cfg)] # Zero
=============================================================================
