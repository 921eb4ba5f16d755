------------------------------ MODULE BfsDevRpc ------------------------------
(***************************************************************************)
(* The bfsdev device-control RPC of src/scripts/.                          *)
(*                                                                         *)
(* bfsdev_ctrl.py builds a pyjsonrpc ThreadingHttpServer on localhost:8080 *)
(* (lines 14-17: the socket is bound and listening from here on), prints   *)
(* two lines and serves forever (line 23).  Its serve loop accepts one     *)
(* connection of the listen backlog at a time and hands it to a thread of  *)
(* its own, which runs the JSON-RPC method dev_control (lines 9-11) and    *)
(* writes the reply.  The threads are not daemons (the SocketServer        *)
(* default), so a Ctrl-C ends the serve loop but the process exits only    *)
(* when they are done; the backlog is reset when it exits.                 *)
(*                                                                         *)
(* Each client is one run of bfsdev_command.py: it calls dev_control(1)    *)
(* (line 11), prints the result, calls it again through the attribute form *)
(* (line 16) and prints that.  Neither call has a timeout or a retry: a    *)
(* refused or reset connection raises and ends the script.                 *)
(***************************************************************************)
EXTENDS Naturals, Sequences, FiniteSets

CONSTANTS
    Clients,    \* the runs of bfsdev_command.py
    Backlog,    \* how many connections the kernel queues before accept
    NoReply     \* no reply on a connection yet

ASSUME BacklogAssumption == Backlog \in Nat \ {0}

(* Lines 9-11: the method the server exposes.                              *)
DevControl(a) == "text "

(* Lines 11 and 16: the argument of both calls.                            *)
Param == 1

ASSUME NoReplyAssumption == NoReply # DevControl(Param)

SrvStates == {"down", "bound", "serving", "stopping", "dead"}

ConnStates == {"none", "queued", "busy", "answered", "reset"}

VARIABLES
    srv,        \* the server process: not started, bound (lines 14-20),
                \* in serve_forever (23), interrupted, or gone
    backlog,    \* the connections the kernel has queued, in arrival order
    conn,       \* conn[c]: the server side of client c's current connection
    resp,       \* resp[c]: the reply written on it
    cpc,        \* cpc[c]: "send", "wait", "done" or "raised"
    printed     \* printed[c]: what client c has printed

vars == <<srv, backlog, conn, resp, cpc, printed>>

Alive == {"bound", "serving", "stopping"}

InBacklog(c) == \E k \in 1 .. Len(backlog) : backlog[k] = c

(* Every connection of the backlog, or also every accepted one, is reset. *)
ResetQueued(busyToo) ==
    [c \in Clients |->
        IF conn[c] = "queued" \/ (busyToo /\ conn[c] = "busy") THEN "reset" ELSE conn[c]]

-----------------------------------------------------------------------------
Init ==
    /\ srv = "down"
    /\ backlog = <<>>
    /\ conn = [c \in Clients |-> "none"]
    /\ resp = [c \in Clients |-> NoReply]
    /\ cpc = [c \in Clients |-> "send"]
    /\ printed = [c \in Clients |-> <<>>]

(* bfsdev_ctrl.py lines 14-20: the server socket is bound and listens.     *)
StartServer ==
    /\ srv = "down"
    /\ srv' = "bound"
    /\ UNCHANGED <<backlog, conn, resp, cpc, printed>>

(* Line 23: serve_forever starts its loop.                                 *)
ServeForever ==
    /\ srv = "bound"
    /\ srv' = "serving"
    /\ UNCHANGED <<backlog, conn, resp, cpc, printed>>

(* The serve loop accepts the oldest queued connection and starts a thread *)
(* for it.                                                                 *)
Accept ==
    /\ srv = "serving"
    /\ backlog # <<>>
    /\ conn' = [conn EXCEPT ![Head(backlog)] = "busy"]
    /\ backlog' = Tail(backlog)
    /\ UNCHANGED <<srv, resp, cpc, printed>>

(* The request thread: dev_control(a) (lines 9-11) and the reply written.  *)
Handle(c) ==
    /\ conn[c] = "busy"
    /\ srv # "dead"
    /\ resp' = [resp EXCEPT ![c] = DevControl(Param)]
    /\ conn' = [conn EXCEPT ![c] = "answered"]
    /\ UNCHANGED <<srv, backlog, cpc, printed>>

(* Ctrl-C: KeyboardInterrupt ends serve_forever (or the start-up lines).   *)
Interrupt ==
    /\ srv \in {"bound", "serving"}
    /\ srv' = "stopping"
    /\ UNCHANGED <<backlog, conn, resp, cpc, printed>>

(* The interpreter exits once the request threads are done; the kernel     *)
(* resets what is still in the backlog.                                    *)
Exit ==
    /\ srv = "stopping"
    /\ \A c \in Clients : conn[c] # "busy"
    /\ srv' = "dead"
    /\ conn' = ResetQueued(FALSE)
    /\ backlog' = <<>>
    /\ UNCHANGED <<resp, cpc, printed>>

(* The server process is killed: queued and accepted connections are     *)
(* reset; replies already written still reach their clients.             *)
Kill ==
    /\ srv \in Alive
    /\ srv' = "dead"
    /\ conn' = ResetQueued(TRUE)
    /\ backlog' = <<>>
    /\ UNCHANGED <<resp, cpc, printed>>

-----------------------------------------------------------------------------
(* bfsdev_command.py line 11 or 16: the call connects; the kernel queues  *)
(* the connection while the backlog has room.                              *)
Connect(c) ==
    /\ cpc[c] = "send"
    /\ srv \in Alive
    /\ Len(backlog) < Backlog
    /\ backlog' = Append(backlog, c)
    /\ conn' = [conn EXCEPT ![c] = "queued"]
    /\ cpc' = [cpc EXCEPT ![c] = "wait"]
    /\ UNCHANGED <<srv, resp, printed>>

(* Mutant: a refused call retried until the server is up.                 *)
RefusedRetry(c) ==
    /\ cpc[c] = "send"
    /\ srv \in {"down", "dead"}
    /\ UNCHANGED vars

(* Nothing listens on port 8080: the call raises and the script ends.     *)
Refused(c) ==
    /\ cpc[c] = "send"
    /\ srv \in {"down", "dead"}
    /\ cpc' = [cpc EXCEPT ![c] = "raised"]
    /\ UNCHANGED <<srv, backlog, conn, resp, printed>>

(* The backlog stays full until the kernel gives up on the connection.    *)
ConnectTimeout(c) ==
    /\ cpc[c] = "send"
    /\ srv \in Alive
    /\ Len(backlog) = Backlog
    /\ cpc' = [cpc EXCEPT ![c] = "raised"]
    /\ UNCHANGED <<srv, backlog, conn, resp, printed>>

(* Mutant: a reset connection taken for an empty reply.                   *)
ResetAsReply(c) ==
    /\ cpc[c] = "wait"
    /\ conn[c] = "reset"
    /\ printed' = [printed EXCEPT ![c] = Append(@, resp[c])]
    /\ cpc' = [cpc EXCEPT ![c] = IF Len(printed[c]) = 1 THEN "done" ELSE "send"]
    /\ conn' = [conn EXCEPT ![c] = "none"]
    /\ UNCHANGED <<srv, backlog, resp>>

(* The call returns the reply and line 11 (or 16) prints it; after the    *)
(* second the script ends.                                                 *)
Receive(c) ==
    /\ cpc[c] = "wait"
    /\ conn[c] = "answered"
    /\ printed' = [printed EXCEPT ![c] = Append(@, resp[c])]
    /\ cpc' = [cpc EXCEPT ![c] = IF Len(printed[c]) = 1 THEN "done" ELSE "send"]
    /\ conn' = [conn EXCEPT ![c] = "none"]
    /\ resp' = [resp EXCEPT ![c] = NoReply]
    /\ UNCHANGED <<srv, backlog>>

(* The connection is reset while the call waits: the call raises.        *)
Reset(c) ==
    /\ cpc[c] = "wait"
    /\ conn[c] = "reset"
    /\ cpc' = [cpc EXCEPT ![c] = "raised"]
    /\ conn' = [conn EXCEPT ![c] = "none"]
    /\ UNCHANGED <<srv, backlog, resp, printed>>

ServerNext == StartServer \/ ServeForever \/ Accept \/ Interrupt \/ Exit \/ Kill
                \/ \E c \in Clients : Handle(c)

ClientNext(c) == Connect(c) \/ Refused(c) \/ ConnectTimeout(c) \/ Receive(c) \/ Reset(c)

Next == ServerNext \/ \E c \in Clients : ClientNext(c)

(***************************************************************************)
(* Fairness: a client script runs until it ends, the serve loop and the    *)
(* request threads are scheduled, and an interrupted interpreter exits.    *)
(* Starting, interrupting and killing the server are up to the user, and  *)
(* the kernel's connect timeout need not fire.                             *)
(***************************************************************************)
Fairness ==
    /\ \A c \in Clients : WF_vars(Connect(c) \/ Refused(c) \/ Receive(c) \/ Reset(c))
    /\ \A c \in Clients : WF_vars(Handle(c))
    /\ WF_vars(ServeForever)
    /\ WF_vars(Accept)
    /\ WF_vars(Exit)

Spec == Init /\ [][Next]_vars /\ Fairness

-----------------------------------------------------------------------------
TypeOK ==
    /\ srv \in SrvStates
    /\ backlog \in Seq(Clients)
    /\ conn \in [Clients -> ConnStates]
    /\ resp \in [Clients -> {DevControl(Param), NoReply}]
    /\ cpc \in [Clients -> {"send", "wait", "done", "raised"}]
    /\ printed \in [Clients -> Seq({DevControl(Param)})]

(***************************************************************************)
(* Every run of bfsdev_command.py ends, having printed both results or    *)
(* raised, whatever the user does to the server: no call waits forever on *)
(* a connection that a Ctrl-C or a kill left behind.                       *)
(***************************************************************************)
ClientsTerminate == <>(\A c \in Clients : cpc[c] \in {"done", "raised"})

=============================================================================
