------------------------- MODULE MicroPipelineProofs -------------------------
(***************************************************************************)
(* Proofs about MicroPipeline: split.py followed by plot_micro() of        *)
(* benchmarks/new_bench/plot_micro.py.  The type invariant of the four     *)
(* result dicts, and that every value stored in them is a measurement of   *)
(* the run whose workload, renamed fs type and I/O size the cell names.    *)
(***************************************************************************)
EXTENDS MicroPipeline, SplitLogProofs

(***************************************************************************)
(* Lines 594-666: the search for a metric's marker finds a line of the     *)
(* file, and the field read from it names a run configuration.             *)
(***************************************************************************)
LEMMA ValueType ==
    ASSUME NEW c \in Seq(Line), NEW m, Found(c, m)
    PROVE  /\ FirstOf(Hits(c, m)) \in 1 .. Len(c)
           /\ c[FirstOf(Hits(c, m))].kind \in Markers[m]
           /\ ValueOf(c, m) \in Cfg
<1>1. Hits(c, m) \in SUBSET Nat /\ Hits(c, m) # {}
    BY DEF Hits, Found
<1>2. FirstOf(Hits(c, m)) \in Hits(c, m)
    BY <1>1, FirstOfIsLeast
<1>3. FirstOf(Hits(c, m)) \in 1 .. Len(c) /\ c[FirstOf(Hits(c, m))].kind \in Markers[m]
    BY <1>2 DEF Hits
<1>4. c[FirstOf(Hits(c, m))] \in Line
    BY <1>3
<1>5. QED
    BY <1>3, <1>4 DEF ValueOf, Line

-----------------------------------------------------------------------------
(* The pipeline's steps keep the type of split.py's state, the files left  *)
(* to read among those on disk, and every cell of the dicts 0.0 or a       *)
(* measurement.                                                            *)
(***************************************************************************)
LEMMA PInitTypeOK == PInit => PTypeOK
<1> SUFFICES ASSUME PInit PROVE PTypeOK
    OBVIOUS
<1>1. TypeOK
    BY InitTypeOK DEF PInit
<1>2. QED
    BY <1>1, ZeroAssumption DEF PInit, PTypeOK, Metrics

LEMMA PNextTypeOK == PTypeOK /\ [PNext]_allvars => PTypeOK'
<1> SUFFICES ASSUME PTypeOK, [PNext]_allvars PROVE PTypeOK'
    OBVIOUS
<1>1. CASE SplitStep
    <2>1. TypeOK'
        BY <1>1, NextTypeOK DEF SplitStep, PTypeOK
    <2>2. todo' \subseteq written'
        BY <1>1, KeepsWritten DEF SplitStep, PTypeOK, pvars
    <2>3. QED
        BY <1>1, <2>1, <2>2 DEF SplitStep, PTypeOK, pvars
<1>2. CASE StartPlot
    BY <1>2 DEF StartPlot, PTypeOK, TypeOK, vars
<1>3. CASE SkipFile
    BY <1>3 DEF SkipFile, PTypeOK, TypeOK, vars
<1>4. CASE FailFile
    BY <1>4 DEF FailFile, PTypeOK, TypeOK, vars
<1>5. CASE PlotDone
    BY <1>5 DEF PlotDone, PTypeOK, TypeOK, vars
<1>6. CASE RecordFile
    <2>1. PICK n \in todo :
             /\ Found(out[n], "tp") /\ KeyValid(KeyOf(n))
             /\ todo' = todo \ {n}
             /\ res' = [m \in DOMAIN res |->
                          IF \E p \in 1 .. 4 : Metrics[p] = m /\ Reached(out[n], p)
                            THEN Put(res[m], KeyOf(n), ValueOf(out[n], m))
                            ELSE res[m]]
        BY <1>6 DEF RecordFile
    <2>2. out[n] \in Seq(Line)
        BY DEF PTypeOK, TypeOK
    <2>3. ASSUME NEW m \in DOMAIN res
          PROVE  /\ InitKeys \subseteq DOMAIN res'[m]
                 /\ \A key \in DOMAIN res'[m] : res'[m][key] \in Cfg \cup {Zero}
        <3>1. CASE \E p \in 1 .. 4 : Metrics[p] = m /\ Reached(out[n], p)
            <4>1. Found(out[n], m)
                BY <3>1 DEF Reached
            <4>2. ValueOf(out[n], m) \in Cfg
                BY <2>2, <4>1, ValueType
            <4>3. res'[m] = Put(res[m], KeyOf(n), ValueOf(out[n], m))
                BY <2>1, <3>1
            <4>4. QED
                BY <4>2, <4>3 DEF Put, PTypeOK
        <3>2. CASE ~\E p \in 1 .. 4 : Metrics[p] = m /\ Reached(out[n], p)
            BY <2>1, <3>2 DEF PTypeOK
        <3>3. QED
            BY <3>1, <3>2
    <2>4. UNCHANGED <<vars, ppc>>
        BY <1>6 DEF RecordFile
    <2>5. DOMAIN res' = DOMAIN res /\ todo' \subseteq written'
        BY <2>1, <2>4 DEF PTypeOK, vars
    <2>6. TypeOK' /\ ppc' = ppc
        BY <2>4 DEF PTypeOK, TypeOK, vars
    <2>7. QED
        BY <2>3, <2>5, <2>6 DEF PTypeOK
<1>7. CASE UNCHANGED allvars
    BY <1>7 DEF allvars, vars, pvars, PTypeOK, TypeOK
<1>8. QED
    BY <1>1, <1>2, <1>3, <1>4, <1>5, <1>6, <1>7 DEF PNext

(* Every reachable state of the pipeline is well typed: the dicts keep     *)
(* their four metrics and their initial keys, and each cell holds 0.0 or a *)
(* value read from a record line.                                          *)
THEOREM PTypeCorrect == PSpec => []PTypeOK
BY PInitTypeOK, PNextTypeOK, PTL DEF PSpec

-----------------------------------------------------------------------------
(***************************************************************************)
(* Inputs whose file names plot_micro() parses back into their own run's   *)
(* cell.  The tokens of fs_types (line 518) occur in a name only in its    *)
(* fs part: no workload or size is one of them, and an fs name is renamed *)
(* by split.py to one of fs_types or has none of their tokens.  No size    *)
(* falls in the KiB range 1024 that lines 581-584 label "1024K" (see the   *)
(* finding at plot_micro.py:581).                                          *)
(***************************************************************************)
FsTokens == {"bfs", "nfs", "ne", "ci", "we"}

FsTypeSet == {FsTypes[j] : j \in 1 .. 4}

WellFormedNames ==
    /\ FsNames \subseteq Seq(STRING)
    /\ \A o \in Ops : o \notin FsTokens
    /\ \A z \in Sizes : z \notin FsTokens /\ IntOf[z] \div 1024 # 1024
    /\ \A f \in FsNames :
          \/ MapFs(f) \in FsTypeSet
          \/ \A l \in 1 .. Len(MapFs(f)) : MapFs(f)[l] \notin FsTokens

(* The parts of the name built at lines 62-64.                             *)
LEMMA NameParts ==
    ASSUME NEW c, NEW T, NEW g \in Seq(T), MapFs(c.fs) = g
    PROVE  LET n == Name(c)
           IN  /\ Len(n) = Len(g) + 4
               /\ n[1] = c.op /\ n[2] = "1" /\ n[3] = c.sz
               /\ \A l \in 1 .. Len(g) : n[3 + l] = g[l]
               /\ n[Len(g) + 4] = "1.log"
<1> DEFINE S == T \cup {c.op, "1", c.sz, "1.log"}
           h == <<c.op, "1", c.sz>>
           t == <<"1.log">>
<1>1. h \in Seq(S) /\ Len(h) = 3 /\ t \in Seq(S) /\ Len(t) = 1 /\ g \in Seq(S)
    OBVIOUS
<1>2. /\ h \o g \in Seq(S)
      /\ Len(h \o g) = 3 + Len(g)
      /\ \A k \in 1 .. 3 + Len(g) : (h \o g)[k] = IF k <= 3 THEN h[k] ELSE g[k - 3]
    BY <1>1, ConcatProperties
<1>3. /\ Len((h \o g) \o t) = Len(g) + 4
      /\ \A k \in 1 .. Len(g) + 4 : ((h \o g) \o t)[k] =
            IF k <= 3 + Len(g) THEN (h \o g)[k] ELSE t[k - (3 + Len(g))]
    BY <1>1, <1>2, ConcatProperties
<1>4. Name(c) = (h \o g) \o t
    BY DEF Name
<1>5. QED
    BY <1>1, <1>2, <1>3, <1>4

(* split.py's renaming yields a sequence of strings.                       *)
LEMMA MapFsType ==
    ASSUME NEW T, NEW f \in Seq(T)
    PROVE  MapFs(f) \in Seq(T \cup {"bfs", "nfs", "nfsg", "ne", "we"})
<1> DEFINE S == T \cup {"bfs", "nfs", "nfsg", "ne", "we"}
<1>1. {<<"bfs", "ne">>, <<"nfs", "we">>, <<"nfs", "ne">>, <<"nfsg", "ne">>, f} \subseteq Seq(S)
    OBVIOUS
<1>2. MapFs(f) \in {<<"bfs", "ne">>, <<"nfs", "we">>, <<"nfs", "ne">>, <<"nfsg", "ne">>, f}
    BY DEF MapFs
<1>3. QED
    BY <1>1, <1>2

(***************************************************************************)
(* Lines 570-584 parse the name that lines 62-64 built back into the run's *)
(* own cell, whenever the parse succeeds: the workload is the op, the fs   *)
(* type the renamed fs name, and the size label that of the run's size.   *)
(***************************************************************************)
LEMMA KeyOfName ==
    ASSUME WellFormedNames, NEW c \in Cfg, KeyValid(KeyOf(Name(c)))
    PROVE  KeyOf(Name(c)) = RunKey(c)
<1> DEFINE n == Name(c)
           g == MapFs(c.fs)
           T0 == STRING \cup {"bfs", "nfs", "nfsg", "ne", "we"}
<1>1. c.op \in Ops /\ c.sz \in Sizes /\ c.fs \in FsNames
    BY DEF Cfg
<1>2. g \in Seq(T0)
    BY <1>1, MapFsType DEF WellFormedNames
<1>3. /\ Len(n) = Len(g) + 4
      /\ n[1] = c.op /\ n[2] = "1" /\ n[3] = c.sz
      /\ \A l \in 1 .. Len(g) : n[3 + l] = g[l]
      /\ n[Len(g) + 4] = "1.log"
    BY <1>2, NameParts
<1>4. c.op \notin FsTokens /\ c.sz \notin FsTokens
    BY <1>1 DEF WellFormedNames
<1>5. \A j \in 1 .. 4 : Len(FsTypes[j]) = 2 /\ FsTypes[j][1] \in FsTokens /\ FsTypes[j][2] \in FsTokens
    BY DEF FsTypes, FsTokens
<1>6. Len(g) \in Nat
    BY <1>2
<1>7. \A j, j1 \in 1 .. 4 : FsTypes[j][1] = FsTypes[j1][1] /\ FsTypes[j][2] = FsTypes[j1][2] => j = j1
    BY DEF FsTypes
<1>8. CASE \A l \in 1 .. Len(g) : g[l] \notin FsTokens
    <2>1. \A k \in 1 .. Len(n) : n[k] \notin FsTokens
        <3> SUFFICES ASSUME NEW k \in 1 .. Len(n) PROVE n[k] \notin FsTokens
            OBVIOUS
        <3>1. CASE k <= 3
            BY <1>3, <1>4, <3>1 DEF FsTokens
        <3>2. CASE k \in 4 .. Len(g) + 3
            <4>1. k - 3 \in 1 .. Len(g) /\ n[k] = g[k - 3]
                BY <1>3, <1>6, <3>2
            <4>2. QED
                BY <1>8, <4>1
        <3>3. CASE k = Len(g) + 4
            BY <1>3, <3>3 DEF FsTokens
        <3>4. QED
            BY <1>3, <1>6, <3>1, <3>2, <3>3
    <2>2. FsMatches(n) = {}
        <3> SUFFICES ASSUME NEW j \in 1 .. 4, OccursIn(FsTypes[j], n) PROVE FALSE
            BY DEF FsMatches, FsTypes
        <3>1. PICK d \in 0 .. Len(n) - Len(FsTypes[j]) :
                 \A l \in 1 .. Len(FsTypes[j]) : n[d + l] = FsTypes[j][l]
            BY DEF OccursIn
        <3>2. d + 1 \in 1 .. Len(n) /\ n[d + 1] = FsTypes[j][1]
            BY <1>3, <1>5, <1>6, <3>1
        <3>3. QED
            BY <1>5, <2>1, <3>2
    <2>3. FALSE
        BY <2>2 DEF KeyValid, KeyOf, FsTypeOf
    <2>4. QED
        BY <2>3
<1>9. CASE g \in FsTypeSet
    <2>1. PICK j0 \in 1 .. 4 : g = FsTypes[j0]
        BY <1>9 DEF FsTypeSet
    <2>2. /\ Len(g) = 2 /\ Len(n) = 6
          /\ n[4] = g[1] /\ n[5] = g[2] /\ n[6] = "1.log"
        <3>1. Len(g) = 2
            BY <1>5, <2>1
        <3>2. QED
            BY <1>3, <3>1
    <2>3. \A j \in 1 .. 4 : OccursIn(FsTypes[j], n) <=> j = j0
        <3> SUFFICES ASSUME NEW j \in 1 .. 4 PROVE OccursIn(FsTypes[j], n) <=> j = j0
            OBVIOUS
        <3>1. ASSUME j = j0 PROVE OccursIn(FsTypes[j], n)
            <4>1. \A l \in 1 .. 2 : n[3 + l] = FsTypes[j][l]
                BY <2>1, <2>2, <3>1
            <4>2. Len(FsTypes[j]) = 2
                BY <1>5
            <4>3. 3 \in 0 .. Len(n) - Len(FsTypes[j])
                <5>1. Len(n) = 6
                    BY <2>2
                <5>2. QED
                    BY <4>2, <5>1
            <4>4. \A l \in 1 .. Len(FsTypes[j]) : n[3 + l] = FsTypes[j][l]
                BY <4>1, <4>2
            <4>5. QED
                BY <4>3, <4>4 DEF OccursIn
        <3>2. ASSUME OccursIn(FsTypes[j], n) PROVE j = j0
            <4>1. PICK d \in 0 .. 4 : n[d + 1] = FsTypes[j][1] /\ n[d + 2] = FsTypes[j][2]
                BY <1>5, <2>2, <3>2 DEF OccursIn
            <4>2. g[1] \in FsTokens /\ g[2] \in FsTokens
                BY <1>5, <2>1
            <4>3. d = 3
                BY <1>3, <1>4, <1>5, <2>2, <4>1, <4>2 DEF FsTokens
            <4>4. FsTypes[j][1] = FsTypes[j0][1] /\ FsTypes[j][2] = FsTypes[j0][2]
                BY <2>1, <2>2, <4>1, <4>3
            <4>5. QED
                BY <1>7, <4>4
        <3>3. QED
            BY <3>1, <3>2
    <2>4. FsMatches(n) = {j0}
        BY <2>3 DEF FsMatches, FsTypes
    <2>5. FirstOf({j0}) = j0
        BY FirstOfIsLeast
    <2>6. FsTypeOf(n) = g
        BY <2>1, <2>4, <2>5 DEF FsTypeOf
    <2>7. IntOf[c.sz] \in Nat /\ IntOf[c.sz] \div 1024 # 1024
        BY <1>1, IntOfAssumption DEF WellFormedNames
    <2>8. SizeLabel(IntOf[n[Len(n) - 3]])
            = IF IntOf[c.sz] >= 1048576 THEN <<IntOf[c.sz] \div 1048576, "M">>
                                        ELSE <<IntOf[c.sz] \div 1024, "K">>
        BY <1>3, <2>2, <2>7 DEF SizeLabel
    <2>9. QED
        BY <1>3, <2>6, <2>8 DEF KeyOf, RunKey
<1>10. QED
    BY <1>1, <1>8, <1>9 DEF WellFormedNames

-----------------------------------------------------------------------------
(***************************************************************************)
(* Every value plot_micro() reads from a file on disk is the measurement   *)
(* of the run whose header named the file: the file is a prefix of that   *)
(* run (NoForeignLines) and every line of the run was printed by it.       *)
(***************************************************************************)
LEMMA ValueFromRun ==
    ASSUME TypeOK, NoForeignLines, logs \in [Files -> LogChoices],
           NEW n \in written, NEW m, Found(out[n], m)
    PROVE  \E f \in Files : \E k \in DOMAIN logs[f] :
               /\ logs[f][k].kind = "hdr"
               /\ logs[f][k].cfg = ValueOf(out[n], m)
               /\ Name(logs[f][k].cfg) = n
<1>0. PICK f \in Files : \E k \in DOMAIN logs[f] :
          /\ logs[f][k].kind = "hdr"
          /\ Name(logs[f][k].cfg) = n
          /\ PrefixOf(out[n], Segment(logs[f], k))
    BY DEF NoForeignLines
<1>1. PICK k \in DOMAIN logs[f] :
          /\ logs[f][k].kind = "hdr"
          /\ Name(logs[f][k].cfg) = n
          /\ PrefixOf(out[n], Segment(logs[f], k))
    BY <1>0
<1> DEFINE s == logs[f]
           seg == Segment(s, k)
           u == out[n]
           j == FirstOf(Hits(u, m))
<1>2. s \in Seq(Line) /\ s \in LogChoices /\ k \in 1 .. Len(s) /\ u \in Seq(Line)
    BY DEF TypeOK
<1>3. seg \in Seq(Line)
    BY <1>2, SegmentType
<1>4. j \in 1 .. Len(u) /\ ValueOf(u, m) = u[j].cfg
    BY <1>2, ValueType DEF ValueOf
<1>5. Len(u) <= Len(seg) /\ u = SubSeq(seg, 1, Len(u))
    BY <1>1 DEF PrefixOf
<1>6. u[j] = seg[j] /\ j \in 1 .. Len(seg)
    <2>1. \A x \in 1 .. Len(u) : seg[x] \in Line
        BY <1>3, <1>5
    <2>2. \A x \in 1 .. Len(u) : SubSeq(seg, 1, Len(u))[x] = seg[x]
        BY <1>2, <2>1, SubSeqProperties
    <2>3. QED
        BY <1>4, <1>5, <2>2
<1>7. seg[j].cfg = s[k].cfg
    BY <1>1, <1>2, <1>6, LinesOfRunAssumption
<1>8. QED
    BY <1>0, <1>1, <1>4, <1>6, <1>7

(***************************************************************************)
(* CellsFromOwnRun is not inductive alone: a file read by RecordFile must  *)
(* be a prefix of the run that named it (NoForeignLines, kept by split.py  *)
(* and by nothing plot_micro() does), and the logs are those of the input. *)
(***************************************************************************)
PIInv ==
    /\ PTypeOK
    /\ logs \in [Files -> LogChoices]
    /\ NoForeignLines
    /\ CellsFromOwnRun

LEMMA PInitPIInv == PInit => PIInv
<1> SUFFICES ASSUME PInit PROVE PIInv
    OBVIOUS
<1>1. PTypeOK
    BY PInitTypeOK
<1>2. QED
    BY <1>1 DEF PInit, Init, PIInv, NoForeignLines, CellsFromOwnRun

(* No step changes the input logs.                                         *)
LEMMA LogsConstant == [PNext]_allvars => logs' = logs
BY DEF PNext, SplitStep, Next, OpenFile, CloseFile, Finish, SkipLine, SplitAt, CrashWriting,
       Rerun, StartPlot, SkipFile, RecordFile, FailFile, PlotDone, allvars, vars

LEMMA PNextPIInv ==
    ASSUME WellFormedNames
    PROVE  PIInv /\ [PNext]_allvars => PIInv'
<1> SUFFICES ASSUME PIInv, [PNext]_allvars PROVE PIInv'
    OBVIOUS
<1>1. PTypeOK' /\ logs' = logs
    BY PNextTypeOK, LogsConstant DEF PIInv
<1>2. NoForeignLines'
    <2>1. CASE SplitStep
        BY <2>1, NextIInv DEF SplitStep, IInv, PIInv, PTypeOK
    <2>2. CASE UNCHANGED vars
        BY <2>2 DEF vars, PIInv, NoForeignLines
    <2>3. QED
        BY <2>1, <2>2 DEF PNext, StartPlot, SkipFile, RecordFile, FailFile, PlotDone, allvars
<1>3. CASE UNCHANGED res
    BY <1>1, <1>2, <1>3 DEF PIInv, CellsFromOwnRun
<1>4. CASE RecordFile
    <2>1. PICK n \in todo :
             /\ KeyValid(KeyOf(n))
             /\ res' = [m \in DOMAIN res |->
                          IF \E p \in 1 .. 4 : Metrics[p] = m /\ Reached(out[n], p)
                            THEN Put(res[m], KeyOf(n), ValueOf(out[n], m))
                            ELSE res[m]]
        BY <1>4 DEF RecordFile
    <2>2. n \in written
        BY DEF PIInv, PTypeOK
    <2>3. ASSUME NEW m \in DOMAIN res', NEW key \in DOMAIN res'[m], res'[m][key] # Zero
          PROVE  /\ RunKey(res'[m][key]) = key
                 /\ \E f \in Files : \E k \in DOMAIN logs[f] :
                       logs[f][k].kind = "hdr" /\ logs[f][k].cfg = res'[m][key]
        <3>1. m \in DOMAIN res
            BY <2>1
        <3>2. CASE (\E p \in 1 .. 4 : Metrics[p] = m /\ Reached(out[n], p)) /\ key = KeyOf(n)
            <4>1. Found(out[n], m)
                BY <3>2 DEF Reached
            <4>2. res'[m][key] = ValueOf(out[n], m)
                BY <2>1, <3>1, <3>2 DEF Put
            <4>3. PICK f \in Files : \E k \in DOMAIN logs[f] :
                      /\ logs[f][k].kind = "hdr"
                      /\ logs[f][k].cfg = ValueOf(out[n], m)
                      /\ Name(logs[f][k].cfg) = n
                BY <2>2, <4>1, ValueFromRun DEF PIInv, PTypeOK
            <4>4. PICK k \in DOMAIN logs[f] :
                      /\ logs[f][k].kind = "hdr"
                      /\ logs[f][k].cfg = ValueOf(out[n], m)
                      /\ Name(logs[f][k].cfg) = n
                BY <4>3
            <4>5. logs[f][k].cfg \in Cfg
                <5>1. logs[f] \in Seq(Line) /\ k \in 1 .. Len(logs[f])
                    BY DEF PIInv, PTypeOK, TypeOK
                <5>2. logs[f][k] \in Line
                    BY <5>1, ElementOfSeq
                <5>3. QED
                    BY <5>2 DEF Line
            <4>6. RunKey(logs[f][k].cfg) = KeyOf(n)
                BY <2>1, <4>4, <4>5, KeyOfName
            <4>7. QED
                BY <3>2, <4>2, <4>4, <4>6
        <3>3. CASE ~((\E p \in 1 .. 4 : Metrics[p] = m /\ Reached(out[n], p)) /\ key = KeyOf(n))
            <4>1. key \in DOMAIN res[m] /\ res'[m][key] = res[m][key]
                BY <2>1, <3>1, <3>3 DEF Put
            <4>2. res[m][key] # Zero
                BY <2>3, <4>1
            <4>3. QED
                BY <3>1, <4>1, <4>2 DEF PIInv, CellsFromOwnRun
        <3>4. QED
            BY <3>2, <3>3
    <2>4. QED
        BY <1>1, <1>2, <2>3 DEF PIInv, CellsFromOwnRun
<1>5. QED
    BY <1>3, <1>4 DEF PNext, SplitStep, StartPlot, SkipFile, FailFile, PlotDone, allvars, pvars

(***************************************************************************)
(* On inputs whose names plot_micro() can parse back (WellFormedNames),    *)
(* every non-0.0 cell of the four dicts holds a measurement of a run of    *)
(* the combined logs with exactly that workload, renamed fs type and size, *)
(* through any crashes and reruns of split.py.                             *)
(***************************************************************************)
THEOREM CellsFromOwnRunHolds ==
    ASSUME WellFormedNames
    PROVE  PSpec => []CellsFromOwnRun
<1>1. PInit => PIInv
    BY PInitPIInv
<1>2. PIInv /\ [PNext]_allvars => PIInv'
    BY PNextPIInv
<1>3. PIInv => CellsFromOwnRun
    BY DEF PIInv
<1>4. QED
    BY <1>1, <1>2, <1>3, PTL DEF PSpec
=============================================================================
