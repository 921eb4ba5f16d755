--------------------------- MODULE SplitLogProofs ---------------------------
(***************************************************************************)
(* Proofs about SplitLog (benchmarks/new_bench/split.py) for every set of  *)
(* input logs, names and crash bounds: the type invariant, and that no     *)
(* output file ever holds a line of another run.                           *)
(***************************************************************************)
EXTENDS SplitLog, TLAPS, SequenceTheorems, WellFoundedInduction

(***************************************************************************)
(* The first later header is well defined: a nonempty set of naturals has  *)
(* a least element, which FirstOf picks.                                   *)
(***************************************************************************)
LEMMA FirstOfIsLeast ==
    ASSUME NEW T \in SUBSET Nat, T # {}
    PROVE  /\ FirstOf(T) \in T
           /\ \A m \in T : FirstOf(T) <= m
<1>1. \E x \in T : \A y \in T : ~(<<y, x>> \in OpToRel(<, Nat))
    BY WFMin, NatLessThanWellFounded
<1>2. ASSUME NEW x \in Nat, NEW y \in Nat
      PROVE  (<<y, x>> \in OpToRel(<, Nat)) <=> y < x
    BY DEF OpToRel
<1>3. PICK x \in T : \A y \in T : ~(<<y, x>> \in OpToRel(<, Nat))
    BY <1>1
<1>4. \A y \in T : x <= y
    <2> TAKE y \in T
    <2>1. ~(y < x)
        BY <1>2, <1>3
    <2>2. QED
        BY <2>1
<1>5. QED
    BY <1>4 DEF FirstOf

(***************************************************************************)
(* Where the cut of lines 43-47 and the end of the run fall, for a header  *)
(* at k: the run ends at or after k, and the cut at or before its end.     *)
(***************************************************************************)
LEMMA CutBounds ==
    ASSUME NEW s \in Seq(Line), NEW k \in 1 .. Len(s)
    PROVE  LET E == IF LaterHdrs(s, k) = {} THEN Len(s) ELSE FirstOf(LaterHdrs(s, k)) - 1
           IN  /\ E \in k .. Len(s)
               /\ LastLine(s, k) \in 0 .. E
<1> DEFINE H == LaterHdrs(s, k)
<1>1. CASE H = {}
    BY <1>1 DEF LastLine
<1>2. CASE H # {}
    <2>1. H \in SUBSET (k + 1 .. Len(s))
        BY DEF LaterHdrs
    <2>2. FirstOf(H) \in k + 1 .. Len(s)
        BY <1>2, <2>1, FirstOfIsLeast
    <2>3. QED
        BY <1>2, <2>2 DEF LastLine
<1>3. QED
    BY <1>1, <1>2

(***************************************************************************)
(* The slice written at line 68 is a sequence of lines of the input.       *)
(***************************************************************************)
LEMMA SliceType ==
    ASSUME NEW s \in Seq(Line), NEW k \in 1 .. Len(s)
    PROVE  Slice(s, k) \in Seq(Line)
<1>1. LastLine(s, k) \in 0 .. Len(s)
    BY CutBounds
<1>2. \A j \in k .. LastLine(s, k) : s[j] \in Line
    BY <1>1
<1>3. QED
    BY <1>1, <1>2, SubSeqProperties DEF Slice

(***************************************************************************)
(* The run of a header is a sequence of lines of the input.                *)
(***************************************************************************)
LEMMA SegmentType ==
    ASSUME NEW s \in Seq(Line), NEW k \in 1 .. Len(s)
    PROVE  Segment(s, k) \in Seq(Line)
<1> DEFINE E == IF LaterHdrs(s, k) = {} THEN Len(s) ELSE FirstOf(LaterHdrs(s, k)) - 1
<1>1. E \in k .. Len(s)
    BY CutBounds
<1>2. \A j \in k .. E : s[j] \in Line
    BY <1>1, ElementOfSeq
<1>3. SubSeq(s, k, E) \in Seq(Line)
    <2> HIDE DEF E
    <2>1. QED
        BY <1>1, <1>2, SubSeqProperties
<1>4. QED
    BY <1>3 DEF Segment

(***************************************************************************)
(* The slice is a prefix of the run of its header.                         *)
(***************************************************************************)
LEMMA SliceInSegment ==
    ASSUME NEW s \in Seq(Line), NEW k \in 1 .. Len(s)
    PROVE  PrefixOf(Slice(s, k), Segment(s, k))
<1> DEFINE E == IF LaterHdrs(s, k) = {} THEN Len(s) ELSE FirstOf(LaterHdrs(s, k)) - 1
           L == LastLine(s, k)
<1>1. E \in k .. Len(s) /\ L \in 0 .. E
    BY CutBounds
<1>2. Segment(s, k) = SubSeq(s, k, E) /\ Slice(s, k) = SubSeq(s, k, L)
    BY DEF Segment, Slice
<1>3. /\ Len(SubSeq(s, k, L)) = IF k <= L THEN L - k + 1 ELSE 0
      /\ \A j \in 1 .. L - k + 1 : SubSeq(s, k, L)[j] = s[k + j - 1]
      /\ SubSeq(s, k, L) \in Seq(Line)
    BY <1>1, SubSeqProperties
<1>4. /\ Len(SubSeq(s, k, E)) = E - k + 1
      /\ \A j \in 1 .. E - k + 1 : SubSeq(s, k, E)[j] = s[k + j - 1]
      /\ SubSeq(s, k, E) \in Seq(Line)
    BY <1>1, SubSeqProperties
<1>5. SubSeq(SubSeq(s, k, E), 1, Len(SubSeq(s, k, L))) = SubSeq(s, k, L)
    <2> DEFINE N == Len(SubSeq(s, k, L))
               t == SubSeq(s, k, E)
               u == SubSeq(s, k, L)
    <2>1. N \in 0 .. Len(t) /\ t \in Seq(Line) /\ u \in Seq(Line) /\ Len(u) = N
        BY <1>1, <1>3, <1>4
    <2>2. \A j \in 1 .. N : t[j] \in Line
        BY <2>1, ElementOfSeq
    <2>3. /\ SubSeq(t, 1, N) \in Seq(Line)
          /\ Len(SubSeq(t, 1, N)) = N
          /\ \A j \in 1 .. N : SubSeq(t, 1, N)[j] = t[j]
        <3> HIDE DEF t, N
        <3>1. QED
            BY <2>1, <2>2, SubSeqProperties
    <2>4. \A j \in 1 .. N : t[j] = u[j]
        BY <1>1, <1>3, <1>4, <2>1
    <2>5. SubSeq(t, 1, N) = u
        <3> HIDE DEF t, N, u
        <3>1. QED
            BY <2>1, <2>3, <2>4, SeqEqual
    <2>6. QED
        BY <2>5
<1>6. QED
    BY <1>1, <1>2, <1>3, <1>4, <1>5 DEF PrefixOf

(***************************************************************************)
(* A prefix of a prefix is a prefix.                                       *)
(***************************************************************************)
LEMMA PrefixOfPrefix ==
    ASSUME NEW u \in Seq(Line), NEW v \in Seq(Line), PrefixOf(u, v),
           NEW m \in 0 .. Len(u)
    PROVE  PrefixOf(SubSeq(u, 1, m), v)
<1>1. /\ SubSeq(u, 1, m) \in Seq(Line)
      /\ Len(SubSeq(u, 1, m)) = m
      /\ \A j \in 1 .. m : SubSeq(u, 1, m)[j] = u[j]
    BY SubSeqProperties
<1>2. /\ SubSeq(v, 1, m) \in Seq(Line)
      /\ Len(SubSeq(v, 1, m)) = m
      /\ \A j \in 1 .. m : SubSeq(v, 1, m)[j] = v[j]
    BY SubSeqProperties DEF PrefixOf
<1>3. \A j \in 1 .. m : u[j] = v[j]
    <2>1. u = SubSeq(v, 1, Len(u)) /\ Len(u) <= Len(v)
        BY DEF PrefixOf
    <2>2. \A j \in 1 .. Len(u) : SubSeq(v, 1, Len(u))[j] = v[j]
        BY <2>1, SubSeqProperties
    <2>3. QED
        BY <2>1, <2>2
<1>4. SubSeq(u, 1, m) = SubSeq(v, 1, m)
    BY <1>1, <1>2, <1>3, SeqEqual
<1>5. QED
    BY <1>1, <1>4 DEF PrefixOf

-----------------------------------------------------------------------------
(***************************************************************************)
(* Type correctness: every reachable state of split.py has its variables   *)
(* in their types; in particular every output file is named <op>_1_<size>_ *)
(* <fs'>_1.log and holds a sequence of input lines.                        *)
(***************************************************************************)
LEMMA InitTypeOK == Init => TypeOK
<1> SUFFICES ASSUME Init PROVE TypeOK
    OBVIOUS
<1>1. logs \in [Files -> Seq(Line)]
    BY LogChoicesAssumption DEF Init
<1>2. out \in [Names -> Seq(Line)]
    BY DEF Init
<1>3. QED
    BY <1>1, <1>2, MaxCrashesAssumption, NoFileAssumption DEF Init, TypeOK, PCs

(* The name built at lines 62-64 from a header is one of Names.            *)
LEMMA NameInNames ==
    ASSUME NEW c \in Cfg
    PROVE  Name(c) \in Names
BY DEF Name, Names, Cfg

LEMMA NextTypeOK == TypeOK /\ [Next]_vars => TypeOK'
<1> SUFFICES ASSUME TypeOK, [Next]_vars PROVE TypeOK'
    OBVIOUS
<1>1. CASE OpenFile
    BY <1>1 DEF OpenFile, TypeOK, PCs
<1>2. CASE CloseFile
    BY <1>2 DEF CloseFile, TypeOK, PCs
<1>3. CASE Finish
    BY <1>3 DEF Finish, TypeOK, PCs
<1>4. CASE SkipLine
    BY <1>4 DEF SkipLine, TypeOK
<1>5. CASE SplitAt
    <2> DEFINE s == logs[cur]
               n == Name(s[i].cfg)
    <2>1. cur \in Files /\ s \in Seq(Line) /\ i \in 1 .. Len(s)
        BY <1>5 DEF SplitAt, TypeOK
    <2>2. n \in Names
        <3>1. s[i] \in Line
            BY <2>1
        <3>2. s[i].cfg \in Cfg
            BY <3>1 DEF Line
        <3>3. QED
            BY <3>2, NameInNames
    <2>3. Slice(s, i) \in Seq(Line)
        BY <2>1, SliceType
    <2>4. CASE n \in written
        BY <1>5, <2>4 DEF SplitAt, TypeOK
    <2>5. CASE n \notin written
        <3>1. written' = written \cup {n} /\ out' = [out EXCEPT ![n] = Slice(s, i)]
            BY <1>5, <2>5 DEF SplitAt
        <3>2. written' \subseteq Names /\ out' \in [Names -> Seq(Line)]
            BY <3>1, <2>2, <2>3 DEF TypeOK
        <3>3. QED
            BY <1>5, <2>1, <3>2 DEF SplitAt, TypeOK
    <2>6. QED
        BY <2>4, <2>5
<1>6. CASE CrashWriting
    <2> DEFINE s == logs[cur]
               n == Name(s[i].cfg)
    <2>1. cur \in Files /\ s \in Seq(Line) /\ i \in 1 .. Len(s)
        BY <1>6 DEF CrashWriting, TypeOK
    <2>2. n \in Names
        <3>1. s[i] \in Line
            BY <2>1
        <3>2. s[i].cfg \in Cfg
            BY <3>1 DEF Line
        <3>3. QED
            BY <3>2, NameInNames
    <2>3. Slice(s, i) \in Seq(Line)
        BY <2>1, SliceType
    <2>4. \A m \in 0 .. Len(Slice(s, i)) : SubSeq(Slice(s, i), 1, m) \in Seq(Line)
        BY <2>3, SubSeqProperties
    <2>5. PICK m \in 0 .. Len(Slice(s, i)) : out' = [out EXCEPT ![n] = SubSeq(Slice(s, i), 1, m)]
        BY <1>6 DEF CrashWriting
    <2>6. written' \subseteq Names /\ out' \in [Names -> Seq(Line)]
        BY <1>6, <2>2, <2>4, <2>5 DEF CrashWriting, TypeOK
    <2>7. crashes' \in 0 .. MaxCrashes
        BY <1>6, MaxCrashesAssumption DEF CrashWriting, TypeOK
    <2>8. QED
        BY <1>6, <2>6, <2>7 DEF CrashWriting, TypeOK, PCs
<1>7. CASE Rerun
    BY <1>7 DEF Rerun, TypeOK, PCs
<1>8. CASE UNCHANGED vars
    BY <1>8 DEF vars, TypeOK
<1>9. QED
    BY <1>1, <1>2, <1>3, <1>4, <1>5, <1>6, <1>7, <1>8 DEF Next

THEOREM TypeCorrect == Spec => []TypeOK
BY InitTypeOK, NextTypeOK, PTL DEF Spec

-----------------------------------------------------------------------------
(***************************************************************************)
(* No output file of split.py ever holds a line of another run, after any  *)
(* interleaving of files, crashes in the middle of a write and reruns.     *)
(* NoForeignLines is inductive together with TypeOK: a new file is written *)
(* only under a name not yet on disk, with a prefix of the slice of the    *)
(* header being read, and the slice lies inside that header's run.         *)
(***************************************************************************)
IInv == TypeOK /\ NoForeignLines

(* A header of some input that names n and whose run has u as a prefix.    *)
Witnessed(n, u) ==
    \E f \in Files : \E k \in DOMAIN logs[f] :
        /\ logs[f][k].kind = "hdr"
        /\ Name(logs[f][k].cfg) = n
        /\ PrefixOf(u, Segment(logs[f], k))

LEMMA InitIInv == Init => IInv
BY InitTypeOK DEF Init, IInv, NoForeignLines

(* What SplitAt and CrashWriting write is witnessed by the header read.    *)
LEMMA WriteWitnessed ==
    ASSUME TypeOK, pc = "scan", i <= Len(logs[cur]), logs[cur][i].kind = "hdr",
           NEW m \in 0 .. Len(Slice(logs[cur], i))
    PROVE  Witnessed(Name(logs[cur][i].cfg), SubSeq(Slice(logs[cur], i), 1, m))
<1> DEFINE s == logs[cur]
<1>1. cur \in Files /\ s \in Seq(Line) /\ i \in 1 .. Len(s)
    BY DEF TypeOK
<1>2. PrefixOf(Slice(s, i), Segment(s, i))
    BY <1>1, SliceInSegment
<1>3. Slice(s, i) \in Seq(Line) /\ Segment(s, i) \in Seq(Line)
    <2>1. Slice(s, i) \in Seq(Line)
        BY <1>1, SliceType
    <2>2. Segment(s, i) \in Seq(Line)
        BY <1>1, SegmentType
    <2>3. QED
        BY <2>1, <2>2
<1>4. PrefixOf(SubSeq(Slice(s, i), 1, m), Segment(s, i))
    BY <1>2, <1>3, PrefixOfPrefix
<1>5. i \in DOMAIN s
    BY <1>1
<1>6. QED
    BY <1>1, <1>4, <1>5 DEF Witnessed

LEMMA NextIInv == IInv /\ [Next]_vars => IInv'
<1> SUFFICES ASSUME IInv, [Next]_vars PROVE IInv'
    OBVIOUS
<1>1. TypeOK'
    BY NextTypeOK DEF IInv
<1>2. \A n \in written : Witnessed(n, out[n])
    BY DEF IInv, NoForeignLines, Witnessed
<1>3. SUFFICES \A n \in written' : Witnessed(n, out[n])'
    BY <1>1 DEF IInv, NoForeignLines, Witnessed
(* Steps that leave logs, written and out alone.                           *)
<1>4. CASE UNCHANGED <<logs, written, out>>
    BY <1>2, <1>4 DEF Witnessed
<1>5. CASE SplitAt
    <2> DEFINE n0 == Name(logs[cur][i].cfg)
    <2>1. CASE n0 \in written
        BY <1>2, <1>5, <2>1 DEF SplitAt, Witnessed
    <2>2. CASE n0 \notin written
        <3>1. /\ written' = written \cup {n0}
              /\ out' = [out EXCEPT ![n0] = Slice(logs[cur], i)]
              /\ logs' = logs
            BY <1>5, <2>2 DEF SplitAt
        <3>2. Witnessed(n0, Slice(logs[cur], i))
            <4>1. Len(Slice(logs[cur], i)) \in Nat
                BY <1>5, SliceType DEF SplitAt, IInv, TypeOK
            <4>2. Witnessed(n0, SubSeq(Slice(logs[cur], i), 1, Len(Slice(logs[cur], i))))
                BY <1>5, <4>1, WriteWitnessed DEF SplitAt, IInv
            <4>3. SubSeq(Slice(logs[cur], i), 1, Len(Slice(logs[cur], i))) = Slice(logs[cur], i)
                BY <1>5, SliceType, SubSeqFull DEF SplitAt, IInv, TypeOK
            <4>4. QED
                BY <4>2, <4>3
        <3>3. n0 \in Names /\ out \in [Names -> Seq(Line)]
            BY <1>1, <3>1 DEF IInv, TypeOK
        <3>4. QED
            BY <1>2, <3>1, <3>2, <3>3 DEF Witnessed
    <2>3. QED
        BY <2>1, <2>2
<1>6. CASE CrashWriting
    <2> DEFINE n0 == Name(logs[cur][i].cfg)
    <2>1. PICK m \in 0 .. Len(Slice(logs[cur], i)) :
                 out' = [out EXCEPT ![n0] = SubSeq(Slice(logs[cur], i), 1, m)]
        BY <1>6 DEF CrashWriting
    <2>2. written' = written \cup {n0} /\ logs' = logs
        BY <1>6 DEF CrashWriting
    <2>3. Witnessed(n0, SubSeq(Slice(logs[cur], i), 1, m))
        BY <1>6, WriteWitnessed DEF CrashWriting, IInv
    <2>4. n0 \in Names /\ out \in [Names -> Seq(Line)]
        BY <1>1, <2>2 DEF IInv, TypeOK
    <2>5. ASSUME NEW n \in written' PROVE Witnessed(n, out'[n])
        <3>1. CASE n = n0
            BY <2>1, <2>3, <2>4, <3>1
        <3>2. CASE n # n0
            BY <1>2, <2>1, <2>2, <2>4, <3>2
        <3>3. QED
            BY <3>1, <3>2
    <2>6. QED
        BY <2>2, <2>5 DEF Witnessed
<1>7. QED
    BY <1>4, <1>5, <1>6 DEF Next, vars, OpenFile, CloseFile, Finish, SkipLine, Rerun

THEOREM NoForeignLinesHolds == Spec => []NoForeignLines
<1>1. Init => IInv
    BY InitIInv
<1>2. IInv /\ [Next]_vars => IInv'
    BY NextIInv
<1>3. IInv => NoForeignLines
    BY DEF IInv
<1>4. QED
    BY <1>1, <1>2, <1>3, PTL DEF Spec

-----------------------------------------------------------------------------
(***************************************************************************)
(* The os.path.exists test of line 66 protects every file on disk: no step *)
(* of split.py, a crash in the middle of a write and a rerun included,     *)
(* removes a file or changes what it holds.  SplitAt writes only a name    *)
(* not on disk; CrashWriting tears only the file it is creating.  TypeOK  *)
(* is needed for the names on disk to lie in the domain of out.            *)
(***************************************************************************)
LEMMA KeepsWritten ==
    TypeOK /\ [Next]_vars => \A n \in written : n \in written' /\ out'[n] = out[n]
<1> SUFFICES ASSUME TypeOK, [Next]_vars, NEW n \in written
             PROVE  n \in written' /\ out'[n] = out[n]
    OBVIOUS
<1>1. n \in DOMAIN out
    BY DEF TypeOK
<1>2. CASE UNCHANGED <<written, out>>
    BY <1>2
<1>3. CASE SplitAt
    <2> DEFINE n0 == Name(logs[cur][i].cfg)
    <2>1. CASE n0 \in written
        BY <1>3, <2>1 DEF SplitAt
    <2>2. CASE n0 \notin written
        <3>1. written' = written \cup {n0} /\ out' = [out EXCEPT ![n0] = Slice(logs[cur], i)]
            BY <1>3, <2>2 DEF SplitAt
        <3>2. n # n0
            BY <2>2
        <3>3. QED
            BY <1>1, <3>1, <3>2
    <2>3. QED
        BY <2>1, <2>2
<1>4. CASE CrashWriting
    <2> DEFINE n0 == Name(logs[cur][i].cfg)
    <2>1. n0 \notin written /\ written' = written \cup {n0}
        BY <1>4 DEF CrashWriting
    <2>2. PICK m \in 0 .. Len(Slice(logs[cur], i)) :
                 out' = [out EXCEPT ![n0] = SubSeq(Slice(logs[cur], i), 1, m)]
        BY <1>4 DEF CrashWriting
    <2>3. QED
        BY <1>1, <2>1, <2>2
<1>5. QED
    BY <1>2, <1>3, <1>4 DEF Next, vars, OpenFile, CloseFile, Finish, SkipLine, Rerun

=============================================================================
