------------------------------ MODULE SplitLog ------------------------------
(***************************************************************************)
(* benchmarks/new_bench/split.py: every combined filebench log in the tmp/ *)
(* directory is cut at its "[Run params: <fs>-<op>-<iosize>-nc1-ncseq1]"   *)
(* header lines and each run is written to the file                        *)
(* "<op>_1_<iosize>_<fs'>_1.log" of the parent directory, unless a file of *)
(* that name already exists.  The output files persist, so the model also  *)
(* lets the process die in the middle of a write and the user run the      *)
(* script again over the same inputs.                                      *)
(*                                                                         *)
(* Data abstraction.  A line is a record: a header carries the run         *)
(* parameters it names, a body line its kind (the filebench line it is:    *)
(* "op", "open", "close", "fsync" record lines or any "other" line) and,   *)
(* as a ghost, the run that printed it.  A file system name is the         *)
(* sequence of its "_"-separated parts, so that the "_".join of the output *)
(* name is concatenation and a later split("_") is indexing.               *)
(***************************************************************************)
EXTENDS Naturals, Sequences, FiniteSets

CONSTANTS
    Files,       \* the combined logs glob.glob(p + "*") returns
    FsNames,     \* file system names a header may carry (as part sequences)
    Ops,         \* filebench workload names (rread, rwrite, ...)
    Sizes,       \* I/O sizes in bytes, as the digit strings of the run params
    LogChoices,  \* the combined logs a file may hold (sequences of Line)
    MaxCrashes,  \* how many times the script may die and be rerun
    NoFile       \* "no file open"

ASSUME MaxCrashesAssumption == MaxCrashes \in Nat
ASSUME NoFileAssumption == NoFile \notin Files

BodyKinds == {"op", "open", "close", "fsync", "other"}

Cfg == [fs : FsNames, op : Ops, sz : Sizes]

Line == [kind : {"hdr"} \cup BodyKinds, cfg : Cfg]

ASSUME LogChoicesAssumption == LogChoices \subseteq Seq(Line)

PCs == {"idle", "scan", "crashed", "done"}

VARIABLES
    logs,     \* logs[f]: the lines of input file f (file.readlines())
    pending,  \* files of the glob list the for loop has not opened yet
    cur,      \* the file being scanned
    i,        \* 1-based index of the next line of cur (the loop's i + 1)
    written,  \* names of the output files that exist on disk
    out,      \* out[n]: the content of output file n
    pc,       \* where the script is
    crashes   \* how many runs died so far

vars == <<logs, pending, cur, i, written, out, pc, crashes>>

(***************************************************************************)
(* The fs renaming of lines 53-60 and the file name built at lines 62-64.  *)
(***************************************************************************)
MapFs(fs) ==
    CASE fs = <<"bfs">>    -> <<"bfs", "ne">>
      [] fs = <<"nfs", "ci">> -> <<"nfs", "we">>
      [] fs = <<"nfs">>    -> <<"nfs", "ne">>
      [] fs = <<"nfsg">>   -> <<"nfsg", "ne">>
      [] OTHER             -> fs

(* Mutant: the renaming of lines 53-60 left out of the file name.          *)
NameNoRename(c) == <<c.op, "1", c.sz>> \o c.fs \o <<"1.log">>

Name(c) == <<c.op, "1", c.sz>> \o MapFs(c.fs) \o <<"1.log">>

(* Every name an output file may have: <op>_1_<iosize>_<fs'>_1.log.        *)
Names == {<<o, "1", z>> \o g \o <<"1.log">> : o \in Ops, z \in Sizes, g \in {MapFs(f) : f \in FsNames}}

(***************************************************************************)
(* Lines 40-47 and 68: the slice data[first_line:last_line] written for    *)
(* the header at 1-based index k.  last_line is the 0-based index of the   *)
(* line before the next header, or 0 when there is none, and the slice     *)
(* stops before it.                                                        *)
(***************************************************************************)
LaterHdrs(s, k) == {j \in k + 1 .. Len(s) : s[j].kind = "hdr"}

FirstOf(S) == CHOOSE j \in S : \A m \in S : j <= m

(* Mutant: last_line = j + 1 for j - 1 at line 46.                         *)
LastLinePastHdr(s, k) == IF LaterHdrs(s, k) = {} THEN 0 ELSE FirstOf(LaterHdrs(s, k))

LastLine(s, k) == IF LaterHdrs(s, k) = {} THEN 0 ELSE FirstOf(LaterHdrs(s, k)) - 2

Slice(s, k) == SubSeq(s, k, LastLine(s, k))

(***************************************************************************)
(* What the header at k stands for: its run, from the header to the line   *)
(* before the next header or to the end of the file.                       *)
(***************************************************************************)
Segment(s, k) ==
    SubSeq(s, k, IF LaterHdrs(s, k) = {} THEN Len(s) ELSE FirstOf(LaterHdrs(s, k)) - 1)

PrefixOf(u, v) == Len(u) <= Len(v) /\ u = SubSeq(v, 1, Len(u))

-----------------------------------------------------------------------------
Init ==
    /\ logs \in [Files -> LogChoices]
    /\ pending = Files
    /\ cur = NoFile
    /\ i = 1
    /\ written = {}
    /\ out = [n \in Names |-> <<>>]
    /\ pc = "idle"
    /\ crashes = 0

(* Lines 32-34: take the next file of the glob list (in any order) and     *)
(* read it whole.                                                          *)
OpenFile ==
    /\ pc = "idle"
    /\ \E f \in pending :
          /\ cur' = f
          /\ pending' = pending \ {f}
    /\ i' = 1
    /\ pc' = "scan"
    /\ UNCHANGED <<logs, written, out, crashes>>

(* Line 35: the for loop over the lines of the file has run out.           *)
CloseFile ==
    /\ pc = "scan"
    /\ i > Len(logs[cur])
    /\ pc' = "idle"
    /\ cur' = NoFile
    /\ UNCHANGED <<logs, pending, i, written, out, crashes>>

(* Line 32: the glob list is exhausted; the script exits.                  *)
Finish ==
    /\ pc = "idle"
    /\ pending = {}
    /\ pc' = "done"
    /\ UNCHANGED <<logs, pending, cur, i, written, out, crashes>>

(* Lines 36-38: a line that is not a header is skipped.                    *)
SkipLine ==
    /\ pc = "scan"
    /\ i <= Len(logs[cur])
    /\ logs[cur][i].kind # "hdr"
    /\ i' = i + 1
    /\ UNCHANGED <<logs, pending, cur, written, out, pc, crashes>>

(* Lines 40-70: a header.  The name is built from its parameters and, if   *)
(* no file of that name exists, the slice is written to a new file.  The   *)
(* assignment i = last_line of line 70 does not affect range(): the loop   *)
(* goes on at the next line.                                               *)
SplitAt ==
    /\ pc = "scan"
    /\ i <= Len(logs[cur])
    /\ logs[cur][i].kind = "hdr"
    /\ LET n == Name(logs[cur][i].cfg)
       IN  IF n \in written
             THEN UNCHANGED <<written, out>>
             ELSE /\ written' = written \cup {n}
                  /\ out' = [out EXCEPT ![n] = Slice(logs[cur], i)]
    /\ i' = i + 1
    /\ UNCHANGED <<logs, pending, cur, pc, crashes>>

(* Lines 67-68 interrupted: open(..., "w") has created the file and the    *)
(* process dies before writelines has reached the disk in full, leaving a  *)
(* prefix of the slice.                                                    *)
CrashWriting ==
    /\ pc = "scan"
    /\ crashes < MaxCrashes
    /\ i <= Len(logs[cur])
    /\ logs[cur][i].kind = "hdr"
    /\ LET n == Name(logs[cur][i].cfg)
       IN  /\ n \notin written
           /\ \E m \in 0 .. Len(Slice(logs[cur], i)) :
                 out' = [out EXCEPT ![n] = SubSeq(Slice(logs[cur], i), 1, m)]
           /\ written' = written \cup {n}
    /\ crashes' = crashes + 1
    /\ pc' = "crashed"
    /\ UNCHANGED <<logs, pending, cur, i>>

(* The user runs the script again: the for loop starts over the same glob  *)
(* list, and the files already on disk are there.                          *)
Rerun ==
    /\ pc = "crashed"
    /\ pending' = Files
    /\ cur' = NoFile
    /\ i' = 1
    /\ pc' = "idle"
    /\ UNCHANGED <<logs, written, out, crashes>>

Next ==
    \/ OpenFile
    \/ CloseFile
    \/ Finish
    \/ SkipLine
    \/ SplitAt
    \/ CrashWriting
    \/ Rerun

Spec == Init /\ [][Next]_vars

-----------------------------------------------------------------------------
TypeOK ==
    /\ logs \in [Files -> Seq(Line)]
    /\ pending \subseteq Files
    /\ cur \in Files \cup {NoFile}
    /\ i \in Nat \ {0}
    /\ written \subseteq Names
    /\ out \in [Names -> Seq(Line)]
    /\ pc \in PCs
    /\ crashes \in 0 .. MaxCrashes
    /\ pc = "scan" => cur \in Files

(***************************************************************************)
(* No output file holds a line of another run: whatever is in the file     *)
(* named n is a prefix of the run of some header that names n.  The cut    *)
(* point of lines 43-47 must stop before the next header, on every input   *)
(* and after any crash and rerun.                                          *)
(***************************************************************************)
NoForeignLines ==
    \A n \in written :
        \E f \in Files : \E k \in DOMAIN logs[f] :
            /\ logs[f][k].kind = "hdr"
            /\ Name(logs[f][k].cfg) = n
            /\ PrefixOf(out[n], Segment(logs[f], k))

(***************************************************************************)
(* The comment at line 29: each run is split into its own file.  When the  *)
(* script has finished without a crash, every output file holds the whole  *)
(* run of a header that names it.                                          *)
(***************************************************************************)
RunsSplitWhole ==
    (pc = "done" /\ crashes = 0) =>
        \A n \in written :
            \E f \in Files : \E k \in DOMAIN logs[f] :
                /\ logs[f][k].kind = "hdr"
                /\ Name(logs[f][k].cfg) = n
                /\ out[n] = Segment(logs[f], k)

(***************************************************************************)
(* Spec section 5: a file's contribution is committed only on full         *)
(* success.  After the script has finished, every output file holds the    *)
(* complete slice line 68 computes for a header naming it, never a torn    *)
(* write of an earlier run that died.                                      *)
(***************************************************************************)
NoTornOutput ==
    pc = "done" =>
        \A n \in written :
            \E f \in Files : \E k \in DOMAIN logs[f] :
                /\ logs[f][k].kind = "hdr"
                /\ Name(logs[f][k].cfg) = n
                /\ out[n] = Slice(logs[f], k)
=============================================================================
