--------------------------- MODULE BfsDevRpcProofs ---------------------------
(***************************************************************************)
(* Proofs about the bfsdev RPC model, for any set of clients and any      *)
(* backlog size: the type invariant, from an inductive strengthening by   *)
(* the connection bookkeeping.                                             *)
(***************************************************************************)
EXTENDS BfsDevRpc, TLAPS

(***************************************************************************)
(* TypeOK alone is not inductive: Receive prints resp[c], which is a reply *)
(* only if the connection was answered.  The strengthening is the         *)
(* bookkeeping of the connections between the client scripts, the         *)
(* kernel's backlog and the request threads: a client waits exactly while *)
(* it has a connection; a connection is queued exactly while it is in the *)
(* backlog, once, and the backlog never exceeds its size; only an answered *)
(* connection holds a reply; and a server that is gone leaves no          *)
(* connection queued or in a thread.                                       *)
(***************************************************************************)
RequestAccounting ==
    /\ \A c \in Clients : cpc[c] = "wait" <=> conn[c] # "none"
    /\ \A c \in Clients : conn[c] = "queued" <=> InBacklog(c)
    /\ \A j, k \in 1 .. Len(backlog) : backlog[j] = backlog[k] => j = k
    /\ Len(backlog) <= Backlog
    /\ \A c \in Clients : resp[c] # NoReply <=> conn[c] = "answered"
    /\ srv \in {"down", "dead"} => \A c \in Clients : conn[c] \notin {"queued", "busy"}

IInv == TypeOK /\ RequestAccounting

(* The initial state satisfies the type invariant and the bookkeeping.    *)
LEMMA InitIInv == Init => IInv
BY BacklogAssumption, NoReplyAssumption
   DEF Init, IInv, TypeOK, RequestAccounting, SrvStates, ConnStates, InBacklog

(***************************************************************************)
(* Every step keeps the type invariant and the connection bookkeeping.    *)
(* The server steps move connections between the backlog, the threads and *)
(* the reset state together with the backlog; the client steps move their *)
(* own connection and program counter together.                            *)
(***************************************************************************)
LEMMA NextIInv == IInv /\ [Next]_vars => IInv'
<1> SUFFICES ASSUME IInv, [Next]_vars PROVE IInv'
    OBVIOUS
<1> USE BacklogAssumption, NoReplyAssumption
<1>1. CASE StartServer
    BY <1>1 DEF StartServer, IInv, TypeOK, RequestAccounting, SrvStates, InBacklog
<1>2. CASE ServeForever
    BY <1>2 DEF ServeForever, IInv, TypeOK, RequestAccounting, SrvStates, InBacklog
<1>3. CASE Accept
    <2> DEFINE h == Head(backlog)
    <2>1. backlog \in Seq(Clients) /\ Len(backlog) > 0
        BY <1>3 DEF Accept, IInv, TypeOK
    <2>2. h \in Clients /\ conn[h] = "queued"
        BY <2>1 DEF IInv, RequestAccounting, InBacklog
    <2>3. /\ Len(backlog') = Len(backlog) - 1
          /\ \A k \in 1 .. Len(backlog') : backlog'[k] = backlog[k + 1]
        BY <1>3, <2>1 DEF Accept
    <2>4. \A c \in Clients : InBacklog(c)' <=> InBacklog(c) /\ c # h
        <3> SUFFICES ASSUME NEW c \in Clients PROVE InBacklog(c)' <=> InBacklog(c) /\ c # h
            OBVIOUS
        <3>1. h = backlog[1]
            BY <2>1
        <3>2. ASSUME InBacklog(c)' PROVE InBacklog(c) /\ c # h
            <4>1. PICK k \in 1 .. Len(backlog') : backlog'[k] = c
                BY <3>2 DEF InBacklog
            <4>2. backlog[k + 1] = c /\ k + 1 \in 1 .. Len(backlog) /\ k + 1 # 1
                BY <2>1, <2>3, <4>1
            <4>3. QED
                BY <2>1, <3>1, <4>2 DEF IInv, RequestAccounting, InBacklog
        <3>3. ASSUME InBacklog(c), c # h PROVE InBacklog(c)'
            <4>1. PICK k \in 1 .. Len(backlog) : backlog[k] = c
                BY <3>3 DEF InBacklog
            <4>2. k # 1 /\ k - 1 \in 1 .. Len(backlog')
                BY <2>1, <2>3, <3>1, <3>3, <4>1
            <4>3. backlog'[k - 1] = c
                BY <2>3, <4>1, <4>2
            <4>4. QED
                BY <4>2, <4>3 DEF InBacklog
        <3>4. QED
            BY <3>2, <3>3
    <2>5. TypeOK'
        BY <1>3, <2>1, <2>2 DEF Accept, IInv, TypeOK, ConnStates
    <2>6. \A c \in Clients : cpc'[c] = "wait" <=> conn'[c] # "none"
        BY <1>3, <2>2 DEF Accept, IInv, TypeOK, RequestAccounting
    <2>7. \A c \in Clients : conn'[c] = "queued" <=> InBacklog(c)'
        BY <1>3, <2>2, <2>4 DEF Accept, IInv, TypeOK, RequestAccounting
    <2>8. \A j, k \in 1 .. Len(backlog') : backlog'[j] = backlog'[k] => j = k
        BY <2>1, <2>3 DEF IInv, RequestAccounting
    <2>9. \A c \in Clients : resp'[c] # NoReply <=> conn'[c] = "answered"
        BY <1>3, <2>2 DEF Accept, IInv, TypeOK, RequestAccounting
    <2>10. RequestAccounting'
        BY <1>3, <2>3, <2>6, <2>7, <2>8, <2>9 DEF Accept, IInv, RequestAccounting
    <2>11. QED
        BY <2>5, <2>10 DEF IInv
<1>4. CASE \E c \in Clients : Handle(c)
    BY <1>4 DEF Handle, IInv, TypeOK, RequestAccounting, ConnStates, InBacklog
<1>5. CASE Interrupt
    BY <1>5 DEF Interrupt, IInv, TypeOK, RequestAccounting, SrvStates, InBacklog
<1>6. CASE Exit
    BY <1>6 DEF Exit, ResetQueued, IInv, TypeOK, RequestAccounting, SrvStates,
                ConnStates, InBacklog
<1>7. CASE Kill
    BY <1>7 DEF Kill, ResetQueued, IInv, TypeOK, RequestAccounting, SrvStates,
                ConnStates, InBacklog, Alive
<1>8. CASE \E c \in Clients : Connect(c)
    <2> PICK c \in Clients : Connect(c)
        BY <1>8
    <2>1. ~InBacklog(c)
        BY DEF Connect, IInv, RequestAccounting
    <2>2. /\ backlog \in Seq(Clients)
          /\ Len(backlog') = Len(backlog) + 1
          /\ backlog'[Len(backlog')] = c
          /\ \A k \in 1 .. Len(backlog) : backlog'[k] = backlog[k]
        BY DEF Connect, IInv, TypeOK
    <2>3. \A d \in Clients : InBacklog(d)' <=> InBacklog(d) \/ d = c
        BY <2>2 DEF InBacklog
    <2>4. TypeOK'
        BY DEF Connect, IInv, TypeOK, ConnStates
    <2>5. \A j, k \in 1 .. Len(backlog') : backlog'[j] = backlog'[k] => j = k
        BY <2>1, <2>2 DEF IInv, RequestAccounting, InBacklog
    <2>6. \A d \in Clients : conn'[d] = "queued" <=> InBacklog(d)'
        BY <2>3 DEF Connect, IInv, TypeOK, RequestAccounting
    <2>7. RequestAccounting'
        BY <2>2, <2>5, <2>6 DEF Connect, IInv, TypeOK, RequestAccounting, Alive
    <2>8. QED
        BY <2>4, <2>7 DEF IInv
<1>9. CASE \E c \in Clients : Refused(c)
    BY <1>9 DEF Refused, IInv, TypeOK, RequestAccounting, InBacklog
<1>10. CASE \E c \in Clients : ConnectTimeout(c)
    BY <1>10 DEF ConnectTimeout, IInv, TypeOK, RequestAccounting, InBacklog
<1>11. CASE \E c \in Clients : Receive(c)
    <2> PICK c \in Clients : Receive(c)
        BY <1>11
    <2>1. resp[c] = DevControl(Param)
        BY DEF Receive, IInv, TypeOK, RequestAccounting
    <2>2. TypeOK'
        BY <2>1 DEF Receive, IInv, TypeOK, ConnStates
    <2>3. RequestAccounting'
        BY DEF Receive, IInv, TypeOK, RequestAccounting, InBacklog
    <2>4. QED
        BY <2>2, <2>3 DEF IInv
<1>12. CASE \E c \in Clients : Reset(c)
    BY <1>12 DEF Reset, IInv, TypeOK, RequestAccounting, ConnStates, InBacklog
<1>13. CASE UNCHANGED vars
    BY <1>13 DEF vars, IInv, TypeOK, RequestAccounting, InBacklog
<1>14. QED
    BY <1>1, <1>2, <1>3, <1>4, <1>5, <1>6, <1>7, <1>8, <1>9, <1>10, <1>11,
       <1>12, <1>13 DEF Next, ServerNext, ClientNext

(* Every reachable state is well typed.                                   *)
THEOREM TypeCorrect == Spec => []TypeOK
<1>1. IInv => TypeOK
    BY DEF IInv
<1>2. QED
    BY InitIInv, NextIInv, <1>1, PTL DEF Spec

=============================================================================
