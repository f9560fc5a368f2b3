----------------------------- MODULE HttpServer -----------------------------
(***************************************************************************)
(* How output_http accepts connections and reads requests                  *)
(* (plugins/output_http/httpd.c): server_thread waits on its listening     *)
(* sockets and starts a detached client_thread per connection; a           *)
(* client_thread reads the request, checks it and dispatches it.  What the *)
(* answers do to the picture buffer is in HttpClient.                      *)
(*                                                                         *)
(* server_thread hands a connection over in a malloced cell, pcfd, which   *)
(* the client_thread copies and frees.                                     *)
(***************************************************************************)
EXTENDS Naturals, FiniteSets

CONSTANTS
    Sockets,      \* indices of the listening sockets, one per address family
    Conns,        \* connections made in a behaviour; also names the thread
                  \* started when the connection was accepted
    Cells,        \* heap cells malloc may return for a pcfd
    None,
    Actions,      \* the types of request the peers make
    Digits,       \* digits that may follow an underscore in a request
    Plugins,      \* number of input and of output plugins
    MaxLines,     \* bound: header lines a peer sends before the empty one
    Events        \* "nothread": pthread_create may fail

ASSUME ServerAssumption ==
    /\ Sockets \subseteq Nat /\ None \notin Conns \cup Cells \cup Digits
    /\ Actions \subseteq {"snapshot", "take", "output_json", "file"}
    /\ Digits \subseteq Nat /\ 0 \in Digits
    /\ Plugins \in Nat \ {0} /\ MaxLines \in Nat
    /\ Events \subseteq {"nothread"}

VARIABLES
    conn,      \* "away", "waiting" in a backlog, "open", "closed"
    sock,      \* the socket it was made to
    alive,     \* cells that are allocated
    fd,        \* pcfd->fd of each cell, kept by a freed cell
    srvPc, pcfd, ready,
    cliPc, arg, lcfd, req, lines, silent,
    crashed

srvVars == <<srvPc, pcfd, ready>>
reqVars == <<req, lines, silent>>
heapVars == <<alive, fd>>
cliVars == <<cliPc, arg, lcfd, reqVars>>
vars == <<conn, sock, heapVars, srvVars, cliVars, crashed>>

Suffixed == {"snapshot", "take", "output_json"}
Types == Actions \cup {"unknown"}
Requests == [type : Types, suffix : Digits \cup {None}, input : Digits,
             allowed : BOOLEAN]
NoRequest == [type |-> "unknown", suffix |-> None, input |-> 0, allowed |-> FALSE]

ServerTypeOK ==
    /\ conn \in [Conns -> {"away", "waiting", "open", "closed"}]
    /\ sock \in [Conns -> Sockets]
    /\ alive \subseteq Cells /\ fd \in [Cells -> Conns \cup {None}]
    /\ srvPc \in {"malloc", "select", "accept", "create"}
    /\ pcfd \in Cells \cup {None} /\ ready \subseteq Sockets
    /\ cliPc \in [Conns -> {"none", "start", "line", "headers", "check",
                            "answer", "done"}]
    /\ arg \in [Conns -> Cells \cup {None}]
    /\ lcfd \in [Conns -> Conns \cup {None}]
    /\ req \in [Conns -> Requests] /\ lines \in [Conns -> 0 .. MaxLines]
    /\ silent \in [Conns -> BOOLEAN] /\ crashed \in BOOLEAN

(* The sockets are bound and listen.                                       *)
ServerInit ==
    /\ conn = [c \in Conns |-> "away"] /\ sock \in [Conns -> Sockets]
    /\ alive = {} /\ fd = [a \in Cells |-> None]
    /\ srvPc = "malloc" /\ pcfd = None /\ ready = {}
    /\ cliPc = [c \in Conns |-> "none"]
    /\ arg = [c \in Conns |-> None] /\ lcfd = [c \in Conns |-> None]
    /\ req = [c \in Conns |-> NoRequest] /\ lines = [c \in Conns |-> 0]
    /\ silent = [c \in Conns |-> FALSE] /\ crashed = FALSE

-----------------------------------------------------------------------------
(* The peers.                                                              *)
Connect(c) ==
    /\ conn[c] = "away"
    /\ conn' = [conn EXCEPT ![c] = "waiting"]
    /\ UNCHANGED <<sock, heapVars, srvVars, cliVars, crashed>>

(* A peer stalls, or goes away, before its request is complete.            *)
FallSilent(c) ==
    /\ cliPc[c] \in {"line", "headers"} /\ ~silent[c]
    /\ silent' = [silent EXCEPT ![c] = TRUE]
    /\ UNCHANGED <<conn, sock, heapVars, srvVars, cliPc, arg, lcfd, req, lines, crashed>>

-----------------------------------------------------------------------------
(* One cell per round of the loop of server_thread.                        *)
ServerMalloc ==
    /\ srvPc = "malloc"
    /\ \E a \in Cells \ alive :
          /\ alive' = alive \cup {a}
          /\ pcfd' = a
    /\ srvPc' = "select"
    /\ UNCHANGED <<conn, sock, fd, ready, cliVars, crashed>>

Backlog(s) == {c \in Conns : conn[c] = "waiting" /\ sock[c] = s}

ServerSelect ==
    /\ srvPc = "select"
    /\ ready' = {s \in Sockets : Backlog(s) # {}}
    /\ ready' # {}
    /\ srvPc' = "accept"
    /\ UNCHANGED <<conn, sock, heapVars, pcfd, cliVars, crashed>>

First(S) == CHOOSE s \in S : \A r \in S : s <= r

(* The sockets select reported are visited in order; all of them put the   *)
(* connection they accept into the same cell.                              *)
ServerAccept ==
    /\ srvPc = "accept"
    /\ \E c \in Backlog(First(ready)) :
          /\ conn' = [conn EXCEPT ![c] = "open"]
          /\ fd' = [fd EXCEPT ![pcfd] = c]
    /\ srvPc' = "create"
    /\ UNCHANGED <<sock, alive, pcfd, ready, cliVars, crashed>>

(* The thread gets the cell.  When it cannot be started, the connection    *)
(* and the cell are given up, but the scan of the sockets goes on; freeing *)
(* a cell twice may abort.                                                 *)
ServerCreate ==
    /\ srvPc = "create"
    /\ \/ /\ cliPc' = [cliPc EXCEPT ![fd[pcfd]] = "start"]
          /\ arg' = [arg EXCEPT ![fd[pcfd]] = pcfd]
          /\ UNCHANGED <<conn, alive, crashed>>
       \/ /\ "nothread" \in Events
          /\ conn' = [conn EXCEPT ![fd[pcfd]] = "closed"]
          /\ alive' = alive \ {pcfd}
          /\ crashed' \in {FALSE, pcfd \notin alive}
          /\ UNCHANGED <<cliPc, arg>>
    /\ ready' = ready \ {First(ready)}
    /\ srvPc' = IF ready' = {} THEN "malloc" ELSE "accept"
    /\ UNCHANGED <<sock, fd, pcfd, lcfd, reqVars>>

ServerStep == ServerMalloc \/ ServerSelect \/ ServerAccept \/ ServerCreate

-----------------------------------------------------------------------------
(* The thread frees the request and returns.                               *)
Return(t) ==
    /\ cliPc' = [cliPc EXCEPT ![t] = "done"]
    /\ lcfd' = [lcfd EXCEPT ![t] = None]
    /\ req' = [req EXCEPT ![t] = NoRequest]
    /\ lines' = [lines EXCEPT ![t] = 0]
    /\ silent' = [silent EXCEPT ![t] = FALSE]
    /\ UNCHANGED <<sock, heapVars, srvVars, arg, crashed>>

CloseAndReturn(t) ==
    /\ conn' = IF lcfd[t] = None THEN conn ELSE [conn EXCEPT ![lcfd[t]] = "closed"]
    /\ Return(t)

(* memcpy and free of the argument.  From a cell that was freed before, it *)
(* may copy what was there or anything, and the second free may abort.     *)
ClientStart(t) ==
    /\ cliPc[t] = "start"
    /\ \/ arg[t] \in alive /\ lcfd' = [lcfd EXCEPT ![t] = fd[arg[t]]] /\ UNCHANGED crashed
       \/ /\ arg[t] \notin alive
          /\ \E c \in {fd[arg[t]], None} : lcfd' = [lcfd EXCEPT ![t] = c]
          /\ crashed' \in BOOLEAN
    /\ alive' = alive \ {arg[t]}
    /\ arg' = [arg EXCEPT ![t] = None]
    /\ cliPc' = [cliPc EXCEPT ![t] = "line"]
    /\ UNCHANGED <<conn, sock, fd, srvVars, reqVars>>

(* The character after the first underscore of the request line, wherever  *)
(* that is: in the suffix of the action, or in the file name of a take     *)
(* request.                                                                *)
PluginNumber(suffix, name) ==
    IF suffix # None THEN suffix ELSE IF name # None THEN name ELSE 0

(* The request line.  Malformed requests and bad escapes are answered with *)
(* an error.                                                               *)
ClientRequestLine(t) ==
    /\ cliPc[t] = "line" /\ ~silent[t]
    /\ \/ \E type \in Actions, suffix, name \in Digits \cup {None} :
             /\ type \notin Suffixed => suffix = None
             /\ type # "take" => name = None
             /\ req' = [req EXCEPT ![t] =
                   [type |-> type, suffix |-> suffix, allowed |-> FALSE,
                    input |-> PluginNumber(suffix, name)]]
             /\ cliPc' = [cliPc EXCEPT ![t] = "headers"]
             /\ UNCHANGED <<conn, sock, heapVars, srvVars, arg, lcfd, lines,
                            silent, crashed>>
       \/ CloseAndReturn(t)

(* A header line; the empty one ends the request.                          *)
ClientHeader(t) ==
    /\ cliPc[t] = "headers" /\ ~silent[t]
    /\ \/ lines[t] < MaxLines /\ lines' = [lines EXCEPT ![t] = @ + 1] /\ UNCHANGED <<cliPc, req>>
       \/ /\ \E ok \in BOOLEAN : req' = [req EXCEPT ![t].allowed = ok]
          /\ cliPc' = [cliPc EXCEPT ![t] = "check"]
          /\ UNCHANGED lines
    /\ UNCHANGED <<conn, sock, heapVars, srvVars, arg, lcfd, silent, crashed>>

(* Mutant of ClientTimeout: only the request line is read with a timeout.  *)
ClientTimeoutOfLine(t) ==
    /\ cliPc[t] = "line" /\ silent[t]
    /\ CloseAndReturn(t)

(* Mutant of ClientTimeout: the connection is not closed.                  *)
ClientTimeoutLeaks(t) ==
    /\ cliPc[t] \in {"line", "headers"} /\ silent[t]
    /\ UNCHANGED conn
    /\ Return(t)

(* _readline returns -1 after 5 seconds without data, or at end of file.   *)
ClientTimeout(t) ==
    /\ cliPc[t] \in {"line", "headers"} /\ silent[t]
    /\ CloseAndReturn(t)

(* Mutant of InRange: off by one.                                          *)
InRangeOrNext(r) == r.type \in Suffixed => r.input <= Plugins

InRange(r) == r.type \in Suffixed => r.input < Plugins

(* The check of the credentials (option -c), then that of the number.      *)
ClientCheck(t) ==
    /\ cliPc[t] = "check"
    /\ \/ /\ req[t].allowed
          /\ req' = [req EXCEPT ![t].type = IF InRange(req[t]) THEN @ ELSE "unknown"]
          /\ cliPc' = [cliPc EXCEPT ![t] = "answer"]
          /\ UNCHANGED <<conn, sock, heapVars, srvVars, arg, lcfd, lines, silent,
                         crashed>>
       \/ ~req[t].allowed /\ CloseAndReturn(t)

(* The switch over the request type, and the end of client_thread.         *)
ClientAnswer(t) ==
    /\ cliPc[t] = "answer"
    /\ CloseAndReturn(t)

ClientReads(t) ==
    \/ ClientStart(t) \/ ClientRequestLine(t) \/ ClientHeader(t)
    \/ ClientTimeout(t) \/ ClientCheck(t)

-----------------------------------------------------------------------------
Running ==
    \/ ServerStep
    \/ \E c \in Conns : Connect(c) \/ FallSilent(c) \/ ClientReads(c) \/ ClientAnswer(c)

ServerNext == ~crashed /\ Running

ServerSpec == ServerInit /\ [][ServerNext]_vars

(* The threads are scheduled and _readline gives up on a silent peer.  An  *)
(* answer may take forever: a stream ends when the peer leaves.            *)
FairServerSpec ==
    /\ ServerSpec
    /\ WF_vars(~crashed /\ ServerStep)
    /\ \A c \in Conns : WF_vars(~crashed /\ ClientReads(c))

-----------------------------------------------------------------------------
(* "arg ... must have been allocated so it is freeable by this thread      *)
(* function": a thread about to copy its argument finds a cell nobody has  *)
(* freed, and no other thread has the same one.                            *)
FreeableByThread ==
    \A t \in Conns : cliPc[t] = "start" =>
        /\ arg[t] \in alive
        /\ \A u \in Conns \ {t} : cliPc[u] = "start" => arg[u] # arg[t]

Holders(c) ==
    {t \in Conns : \/ cliPc[t] = "start" /\ fd[arg[t]] = c
                   \/ cliPc[t] \notin {"none", "start", "done"} /\ lcfd[t] = c}
    \cup (IF srvPc = "create" /\ fd[pcfd] = c THEN {None} ELSE {})

(* "start a new thread for each accepted connection": an open connection   *)
(* is always in the hands of exactly one thread, which will close it, and  *)
(* nobody holds a connection that is closed.                               *)
ThreadPerConnection ==
    \A c \in Conns : Cardinality(Holders(c)) = IF conn[c] = "open" THEN 1 ELSE 0

(* The request is dispatched only to a plugin that exists and only after   *)
(* the credentials were found right.                                       *)
AnswerAllowed ==
    \A t \in Conns : cliPc[t] = "answer" =>
        req[t].allowed /\ (req[t].type \in Suffixed => req[t].input < Plugins)

(* A request without a suffix is answered "from the 0. input plugin".      *)
FirstInputByDefault ==
    \A t \in Conns : cliPc[t] = "answer" /\ req[t].suffix = None => req[t].input = 0

(* Every connection is answered or closed, also when its peer falls silent *)
(* in the middle of a request.                                             *)
ConnectionReached ==
    \A c \in Conns : conn[c] = "waiting" ~>
        conn[c] = "closed" \/ \E t \in Conns : cliPc[t] = "answer" /\ lcfd[t] = c
=============================================================================
