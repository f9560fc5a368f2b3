---------------------------- MODULE OutputProofs -----------------------------
(***************************************************************************)
(* Proofs about the two larger output plugins: HttpServer for any number   *)
(* of connections, heap cells and plugins, and the RingBuffer of           *)
(* output_file for any options, faults and files left behind.              *)
(***************************************************************************)
EXTENDS HttpServer, RingBuffer, FiniteSetTheorems, TLAPS

(* The type invariant with what server_thread and a starting client_thread *)
(* know of the cell they hold.                                             *)
CellsKnown ==
    /\ ServerTypeOK
    /\ srvPc # "malloc" => pcfd \in Cells
    /\ srvPc = "create" => fd[pcfd] \in Conns
    /\ \A t \in Conns : cliPc[t] = "start" => arg[t] \in Cells

(* A dispatched request has passed both checks.                            *)
Checked == CellsKnown /\ AnswerAllowed

(* With one listening socket a round of the loop starts one thread, so the *)
(* cell of the round is the server's own until the thread is started.      *)
OneCellEach ==
    /\ CellsKnown /\ FreeableByThread
    /\ srvPc \in {"accept", "create"} => ready # {}
    /\ srvPc # "malloc" => /\ pcfd \in alive
                           /\ \A t \in Conns : cliPc[t] = "start" => arg[t] # pcfd

(* Whose a connection is: the server's between accept and the start of the *)
(* thread, then the thread's of the same name until it returns, and nobody *)
(* else's.                                                                 *)
ByServer(c) == srvPc = "create" /\ fd[pcfd] = c
ByThread(c) == cliPc[c] \notin {"none", "done"}
OwnConnection ==
    \A c \in Conns :
        /\ cliPc[c] = "start" => fd[arg[c]] = c
        /\ cliPc[c] \notin {"none", "start", "done"} => lcfd[c] = c
        /\ ByServer(c) => cliPc[c] = "none"
        /\ conn[c] \in {"away", "waiting"} => cliPc[c] = "none"
        /\ conn[c] = "open" <=> ByServer(c) \/ ByThread(c)

(* A plugin number that was read is a digit.                               *)
LEMMA PluginNumberIsDigit ==
    ASSUME NEW suffix \in Digits \cup {None}, NEW name \in Digits \cup {None}
    PROVE  PluginNumber(suffix, name) \in Digits
BY ServerAssumption, Zenon DEF PluginNumber

(* Changing a field of a request.                                          *)
LEMMA RequestUpdates ==
    ASSUME NEW r \in Requests
    PROVE  /\ \A ok \in BOOLEAN : [r EXCEPT !.allowed = ok] \in Requests
           /\ \A type \in Types :
                 LET q == [r EXCEPT !.type = type]
                 IN  /\ q \in Requests /\ q.type = type
                     /\ q.allowed = r.allowed /\ q.input = r.input
BY Zenon DEF Requests

(* Steps of server_thread keep the types.                                  *)
LEMMA ServerKeepsTypes ==
    ASSUME Checked, ServerStep
    PROVE  Checked'
<1> USE DEF Checked, CellsKnown, ServerTypeOK, AnswerAllowed, cliVars, reqVars,
            heapVars
<1>1. CASE ServerMalloc  BY <1>1, Zenon DEF ServerMalloc
<1>2. CASE ServerSelect  BY <1>2, Zenon DEF ServerSelect
<1>3. CASE ServerAccept  BY <1>3 DEF ServerAccept, Backlog
<1>4. CASE ServerCreate
  <2>1. ready' \in SUBSET Sockets /\ srvPc' \in {"malloc", "accept"}
    BY <1>4, Zenon DEF ServerCreate
  <2>2. fd[pcfd] \in Conns /\ pcfd \in Cells  BY <1>4, Zenon DEF ServerCreate
  <2>3. /\ UNCHANGED <<sock, fd, pcfd, lcfd, req, lines, silent>>
        /\ crashed' \in BOOLEAN
    BY <1>4, Zenon DEF ServerCreate
  <2>4. ASSUME cliPc' = [cliPc EXCEPT ![fd[pcfd]] = "start"],
               arg' = [arg EXCEPT ![fd[pcfd]] = pcfd],
               UNCHANGED <<conn, alive>>
        PROVE  Checked'
    BY <2>1, <2>2, <2>3, <2>4, Zenon
  <2>5. ASSUME conn' = [conn EXCEPT ![fd[pcfd]] = "closed"],
               alive' = alive \ {pcfd}, UNCHANGED <<cliPc, arg>>
        PROVE  Checked'
    BY <2>1, <2>2, <2>3, <2>5, Zenon
  <2> QED  BY <1>4, <2>4, <2>5, Zenon DEF ServerCreate
<1> QED  BY <1>1, <1>2, <1>3, <1>4, Zenon DEF ServerStep

(* Steps of the peer and the thread of one connection keep the types.      *)
LEMMA ClientKeepsTypes ==
    ASSUME Checked, NEW t \in Conns,
           Connect(t) \/ FallSilent(t) \/ ClientReads(t) \/ ClientAnswer(t)
    PROVE  Checked'
<1> USE DEF Checked, CellsKnown, ServerTypeOK, AnswerAllowed, cliVars, reqVars,
            heapVars, srvVars
<1>1. CASE Connect(t)  BY <1>1, Zenon DEF Connect
<1>2. CASE FallSilent(t)  BY <1>2, Zenon DEF FallSilent
<1>3. ASSUME Return(t), conn' \in [Conns -> {"away", "waiting", "open", "closed"}]
      PROVE  Checked'
  <2>1. NoRequest \in Requests
    BY ServerAssumption, Zenon DEF NoRequest, Requests, Types
  <2> QED  BY <1>3, <2>1, ServerAssumption DEF Return
<1>4. CASE CloseAndReturn(t)  BY <1>3, <1>4, Zenon DEF CloseAndReturn
<1>5. CASE ClientAnswer(t)  BY <1>4, <1>5, Zenon DEF ClientAnswer
<1>6. CASE ClientTimeout(t)  BY <1>4, <1>6, Zenon DEF ClientTimeout
<1>7. CASE ClientStart(t)  BY <1>7 DEF ClientStart
<1>8. CASE ClientRequestLine(t)
  <2>1. ASSUME NEW type \in Actions, NEW suffix \in Digits \cup {None},
               NEW name \in Digits \cup {None}
        PROVE  [type |-> type, suffix |-> suffix, allowed |-> FALSE,
                input |-> PluginNumber(suffix, name)] \in Requests
    BY PluginNumberIsDigit, Zenon DEF Requests, Types
  <2>2. ASSUME NEW r \in Requests, req' = [req EXCEPT ![t] = r],
               cliPc' = [cliPc EXCEPT ![t] = "headers"],
               UNCHANGED <<conn, sock, heapVars, srvVars, arg, lcfd, lines,
                           silent, crashed>>
        PROVE  Checked'
    BY <2>2, Zenon
  <2> HIDE DEF Checked
  <2> QED  BY <1>4, <1>8, <2>1, <2>2, Zenon DEF ClientRequestLine
<1>9. CASE ClientHeader(t)
  <2>1. \A ok \in BOOLEAN : [req[t] EXCEPT !.allowed = ok] \in Requests
    BY RequestUpdates, Zenon
  <2>2. CASE lines' = [lines EXCEPT ![t] = @ + 1] /\ lines[t] < MaxLines
             /\ UNCHANGED <<cliPc, req>>
    <3>1. lines[t] + 1 \in 0 .. MaxLines  BY <2>2, ServerAssumption
    <3>2. lines' \in [Conns -> 0 .. MaxLines]  BY <2>2, <3>1, Zenon
    <3> QED  BY <1>9, <2>2, <3>2, Zenon DEF ClientHeader
  <2>3. ASSUME NEW ok \in BOOLEAN, req' = [req EXCEPT ![t].allowed = ok],
               cliPc' = [cliPc EXCEPT ![t] = "check"], UNCHANGED lines
        PROVE  Checked'
    <3>1. req' \in [Conns -> Requests]  BY <2>1, <2>3, Zenon
    <3>2. \A u \in Conns : cliPc'[u] = "answer" => cliPc[u] = "answer" /\ req'[u] = req[u]
      BY <2>3, Zenon
    <3> QED  BY <1>9, <2>3, <3>1, <3>2, Zenon DEF ClientHeader
  <2> QED  BY <1>9, <2>2, <2>3, Zenon DEF ClientHeader
<1>10. CASE ClientCheck(t)
  <2>1. req[t] \in Requests  BY Zenon
  <2>2. CASE req[t].allowed
    <3> DEFINE type == IF InRange(req[t]) THEN req[t].type ELSE "unknown"
               r == [req[t] EXCEPT !.type = type]
    <3>1. type \in Types  BY <2>1, Zenon DEF Requests, Types
    <3>2. r \in Requests /\ r.type = type /\ r.allowed /\ r.input = req[t].input
      BY <2>1, <2>2, <3>1, RequestUpdates
    <3>3. r.type \in Suffixed => r.input < Plugins
      BY <3>2 DEF InRange, Suffixed
    <3>4. /\ req' = [req EXCEPT ![t] = r]
          /\ cliPc' = [cliPc EXCEPT ![t] = "answer"]
          /\ UNCHANGED <<conn, sock, heapVars, srvVars, arg, lcfd, lines, silent,
                         crashed>>
      BY <1>10, <2>2, Zenon DEF ClientCheck
    <3> HIDE DEF r
    <3> QED  BY <3>2, <3>3, <3>4, Zenon
  <2> QED  BY <1>4, <1>10, <2>2, Zenon DEF ClientCheck
<1> QED
  BY <1>1, <1>2, <1>5, <1>6, <1>7, <1>8, <1>9, <1>10, Zenon DEF ClientReads

(* Every behaviour of the server keeps the types and dispatches only       *)
(* requests that passed the checks.                                        *)
THEOREM RequestsChecked == ServerSpec => []Checked
<1>1. ServerInit => Checked
  <2>1. NoRequest \in Requests
    BY ServerAssumption, Zenon DEF NoRequest, Requests, Types
  <2>2. 0 \in 0 .. MaxLines  BY ServerAssumption
  <2>3. ServerInit => ServerTypeOK
    <3> SUFFICES ASSUME ServerInit  PROVE ServerTypeOK
      BY Zenon
    <3>1. /\ req \in [Conns -> Requests] /\ lines \in [Conns -> 0 .. MaxLines]
          /\ silent \in [Conns -> BOOLEAN] /\ crashed \in BOOLEAN
      BY <2>1, <2>2, Zenon DEF ServerInit
    <3>2. /\ arg \in [Conns -> Cells \cup {None}]
          /\ lcfd \in [Conns -> Conns \cup {None}]
          /\ fd \in [Cells -> Conns \cup {None}]
      BY Zenon DEF ServerInit
    <3> QED  BY <3>1, <3>2, Zenon DEF ServerInit, ServerTypeOK
  <2> QED  BY <2>3, Zenon DEF ServerInit, Checked, CellsKnown, AnswerAllowed
<1>2. Checked /\ [ServerNext]_vars => Checked'
  <2> SUFFICES ASSUME Checked, [ServerNext]_vars  PROVE Checked'
    BY Zenon
  <2>1. CASE UNCHANGED vars
    <3>1. ServerTypeOK'
      <4>1. ServerTypeOK  BY Zenon DEF Checked, CellsKnown
      <4>2. UNCHANGED <<conn, sock, alive, fd, srvPc, pcfd, ready>>
        BY <2>1, Zenon DEF vars, heapVars, srvVars
      <4>3. UNCHANGED <<cliPc, arg, lcfd, req, lines, silent, crashed>>
        BY <2>1, Zenon DEF vars, cliVars, reqVars
      <4> QED  BY <4>1, <4>2, <4>3, Zenon DEF ServerTypeOK
    <3>2. UNCHANGED <<cliPc, req, arg, srvPc, pcfd, fd>>
      BY <2>1, Zenon DEF vars, cliVars, reqVars, heapVars, srvVars
    <3> QED  BY <3>1, <3>2, Zenon DEF Checked, CellsKnown, AnswerAllowed
  <2> QED  BY <2>1, ServerKeepsTypes, ClientKeepsTypes, Zenon DEF ServerNext, Running
<1> QED  BY <1>1, <1>2, PTL DEF ServerSpec

(* A request is dispatched to an existing plugin and with the right        *)
(* credentials, whatever the number of plugins.                            *)
THEOREM AnswersAllowed == ServerSpec => []AnswerAllowed
<1>1. Checked => AnswerAllowed  BY Zenon DEF Checked
<1> QED  BY <1>1, RequestsChecked, PTL

(* The variables of the server have their types.                           *)
THEOREM ServerTypes == ServerSpec => []ServerTypeOK
<1>1. Checked => ServerTypeOK  BY Zenon DEF Checked, CellsKnown
<1> QED  BY <1>1, RequestsChecked, PTL

(* With one listening socket every cell has one owner.                     *)
LEMMA CellsOwned ==
    ASSUME NEW s, Sockets = {s}
    PROVE  ServerSpec => []OneCellEach
<1>1. ServerInit /\ Checked => OneCellEach
  BY Zenon DEF ServerInit, OneCellEach, Checked, FreeableByThread
<1>2. OneCellEach /\ Checked /\ Checked' /\ [ServerNext]_vars => OneCellEach'
  <2> SUFFICES ASSUME OneCellEach, Checked, Checked', [ServerNext]_vars
               PROVE  OneCellEach'
    BY Zenon
  <2> USE DEF OneCellEach, FreeableByThread, CellsKnown, ServerTypeOK, Checked
  <2>1. CASE ServerMalloc  BY <2>1 DEF ServerMalloc, cliVars
  <2>2. CASE ServerSelect  BY <2>2, Zenon DEF ServerSelect, heapVars, cliVars
  <2>3. CASE ServerAccept  BY <2>3 DEF ServerAccept, cliVars
  <2>4. CASE ServerCreate
    <3>1. ready = {s} /\ First(ready) = s
      <4>1. ready = {s}  BY <2>4 DEF ServerCreate
      <4> QED  BY <4>1, ServerAssumption DEF First
    <3>2. srvPc' = "malloc"  BY <2>4, <3>1 DEF ServerCreate
    <3>3. fd[pcfd] \in Conns  BY <2>4, Zenon DEF ServerCreate
    <3>4. ASSUME cliPc' = [cliPc EXCEPT ![fd[pcfd]] = "start"],
                 arg' = [arg EXCEPT ![fd[pcfd]] = pcfd],
                 UNCHANGED alive
          PROVE  FreeableByThread'
      <4>1. pcfd \in alive /\ \A t \in Conns : cliPc[t] = "start" => arg[t] # pcfd
        BY <2>4, Zenon DEF ServerCreate
      <4>2. \A t \in Conns \ {fd[pcfd]} : cliPc'[t] = cliPc[t] /\ arg'[t] = arg[t]
        BY <3>4
      <4>3. arg'[fd[pcfd]] = pcfd  BY <3>3, <3>4, Zenon
      <4> QED  BY <3>4, <4>1, <4>2, <4>3
    <3>5. ASSUME alive' = alive \ {pcfd}, UNCHANGED <<cliPc, arg>>
          PROVE  FreeableByThread'
      BY <2>4, <3>5, Zenon DEF ServerCreate
    <3> QED  BY <2>4, <3>2, <3>4, <3>5, Zenon DEF ServerCreate
  <2>5. ASSUME NEW t \in Conns, ClientStart(t)  PROVE OneCellEach'
    <3>1. /\ alive' = alive \ {arg[t]} /\ UNCHANGED <<srvPc, pcfd, ready>>
          /\ cliPc' = [cliPc EXCEPT ![t] = "line"] /\ cliPc[t] = "start"
          /\ arg' = [arg EXCEPT ![t] = None]
      BY <2>5, Zenon DEF ClientStart, srvVars
    <3>2. \A u \in Conns : cliPc'[u] = "start" =>
             cliPc[u] = "start" /\ u # t /\ arg'[u] = arg[u]
      BY <3>1, Zenon
    <3> QED  BY <3>1, <3>2
  <2>6. ASSUME NEW t \in Conns,
               \/ Connect(t) \/ FallSilent(t) \/ ClientRequestLine(t) \/ ClientHeader(t)
               \/ ClientTimeout(t) \/ ClientCheck(t) \/ ClientAnswer(t)
        PROVE  OneCellEach'
    <3>1. UNCHANGED <<alive, arg, srvPc, pcfd, ready>>
      BY <2>6, Zenon DEF Connect, FallSilent, ClientRequestLine, ClientHeader,
         ClientTimeout, ClientCheck, ClientAnswer, CloseAndReturn, Return,
         heapVars, srvVars, cliVars
    <3>2. \A u \in Conns : cliPc'[u] = "start" => cliPc[u] = "start"
      BY <2>6 DEF Connect, FallSilent, ClientRequestLine, ClientHeader,
         ClientTimeout, ClientCheck, ClientAnswer, CloseAndReturn, Return,
         cliVars
    <3> QED  BY <3>1, <3>2, Zenon
  <2>7. CASE UNCHANGED vars  BY <2>7, Zenon DEF vars, heapVars, srvVars, cliVars
  <2> QED  BY <2>1, <2>2, <2>3, <2>4, <2>5, <2>6, <2>7, ZenonT(30)
           DEF ServerNext, Running, ServerStep, ClientReads
<1> QED  BY <1>1, <1>2, RequestsChecked, PTL DEF ServerSpec

(* With one listening socket no client_thread ever copies or frees a cell  *)
(* that another one has freed.                                             *)
THEOREM CellsFreeable ==
    ASSUME NEW s, Sockets = {s}
    PROVE  ServerSpec => []FreeableByThread
<1>1. OneCellEach => FreeableByThread  BY Zenon DEF OneCellEach
<1> QED  BY <1>1, CellsOwned, PTL

(* A thread that returns closes the connection of its own name.            *)
LEMMA ReturnKeepsOwners ==
    ASSUME OneCellEach, OwnConnection, NEW t \in Conns, CloseAndReturn(t),
           cliPc[t] \notin {"none", "start", "done"}
    PROVE  OwnConnection'
<1> USE DEF OneCellEach, CellsKnown, ServerTypeOK, OwnConnection, ByServer, ByThread
<1>1. lcfd[t] = t /\ t # None  BY ServerAssumption
<1>2. /\ conn' = [conn EXCEPT ![t] = "closed"]
      /\ cliPc' = [cliPc EXCEPT ![t] = "done"]
      /\ lcfd' = [lcfd EXCEPT ![t] = None]
      /\ UNCHANGED <<fd, srvPc, pcfd, arg>>
  BY <1>1, Zenon DEF CloseAndReturn, Return, heapVars, srvVars
<1> QED  BY <1>2

(* One step of server_thread keeps every connection in one pair of hands.  *)
LEMMA ServerKeepsOwners ==
    ASSUME OneCellEach, OneCellEach', OwnConnection, ServerStep
    PROVE  OwnConnection'
<1> USE DEF OneCellEach, CellsKnown, ServerTypeOK, OwnConnection, ByServer, ByThread
<1>1. CASE ServerMalloc  BY <1>1, Zenon DEF ServerMalloc, cliVars
<1>2. CASE ServerSelect  BY <1>2, Zenon DEF ServerSelect, cliVars, heapVars
<1>3. CASE ServerAccept
  <2>1. PICK c \in Conns : /\ conn[c] = "waiting" /\ conn' = [conn EXCEPT ![c] = "open"]
                           /\ fd' = [fd EXCEPT ![pcfd] = c]
    BY <1>3, ZenonT(30) DEF ServerAccept, Backlog
  <2>2. /\ UNCHANGED <<pcfd, cliPc, arg, lcfd>> /\ srvPc = "accept" /\ srvPc' = "create"
    BY <1>3, Zenon DEF ServerAccept, cliVars
  <2>3. pcfd \in Cells /\ fd'[pcfd] = c  BY <2>1, <2>2
  <2>4. \A t \in Conns : cliPc[t] = "start" => fd'[arg[t]] = fd[arg[t]]
    BY <2>1, <2>2, Zenon
  <2> QED  BY <2>1, <2>2, <2>3, <2>4
<1>4. CASE ServerCreate
  <2>1. PICK c \in Conns : fd[pcfd] = c /\ cliPc[c] = "none"
    BY <1>4, Zenon DEF ServerCreate
  <2>2. /\ UNCHANGED <<fd, pcfd, lcfd>> /\ srvPc = "create" /\ srvPc' # "create"
    BY <1>4, Zenon DEF ServerCreate
  <2>3. CASE /\ cliPc' = [cliPc EXCEPT ![c] = "start"]
             /\ arg' = [arg EXCEPT ![c] = pcfd] /\ UNCHANGED conn
    <3>1. cliPc'[c] = "start" /\ arg'[c] = pcfd  BY <2>3
    <3>2. \A d \in Conns \ {c} : cliPc'[d] = cliPc[d] /\ arg'[d] = arg[d]  BY <2>3
    <3> QED  BY <2>1, <2>2, <2>3, <3>1, <3>2
  <2>4. CASE conn' = [conn EXCEPT ![c] = "closed"] /\ UNCHANGED <<cliPc, arg>>
    BY <2>1, <2>2, <2>4
  <2> QED  BY <1>4, <2>1, <2>3, <2>4, ZenonT(30) DEF ServerCreate
<1> QED  BY <1>1, <1>2, <1>3, <1>4, Zenon DEF ServerStep

(* So does a step of a peer or of a client_thread.                         *)
LEMMA ClientKeepsOwners ==
    ASSUME OneCellEach, OwnConnection, NEW t \in Conns,
           Connect(t) \/ FallSilent(t) \/ ClientReads(t) \/ ClientAnswer(t)
    PROVE  OwnConnection'
<1> USE DEF OneCellEach, CellsKnown, ServerTypeOK, OwnConnection, ByServer, ByThread
<1>1. CASE Connect(t)  BY <1>1 DEF Connect, heapVars, srvVars, cliVars
<1>2. CASE FallSilent(t)  BY <1>2, Zenon DEF FallSilent, heapVars, srvVars
<1>3. CASE ClientStart(t)
  <2>1. lcfd' = [lcfd EXCEPT ![t] = t]
    BY <1>3, Zenon DEF ClientStart, FreeableByThread
  <2>2. /\ cliPc' = [cliPc EXCEPT ![t] = "line"] /\ cliPc[t] = "start"
        /\ arg' = [arg EXCEPT ![t] = None] /\ UNCHANGED <<conn, fd, srvPc, pcfd>>
    BY <1>3, Zenon DEF ClientStart, srvVars
  <2> QED  BY <2>1, <2>2
<1>4. CASE ClientRequestLine(t)
  <2>1. CASE CloseAndReturn(t)  BY <1>4, <2>1, ReturnKeepsOwners, ZenonT(30) DEF ClientRequestLine
  <2>2. CASE cliPc' = [cliPc EXCEPT ![t] = "headers"] /\ cliPc[t] = "line"
             /\ UNCHANGED <<conn, heapVars, srvVars, arg, lcfd>>
    BY <2>2 DEF heapVars, srvVars
  <2> QED  BY <1>4, <2>1, <2>2, ZenonT(30) DEF ClientRequestLine
<1>5. CASE ClientHeader(t)  BY <1>5 DEF ClientHeader, heapVars, srvVars
<1>6. CASE ClientTimeout(t)  BY <1>6, ReturnKeepsOwners, ZenonT(30) DEF ClientTimeout
<1>7. CASE ClientCheck(t)
  <2>1. CASE CloseAndReturn(t)  BY <1>7, <2>1, ReturnKeepsOwners, Zenon DEF ClientCheck
  <2>2. CASE cliPc' = [cliPc EXCEPT ![t] = "answer"] /\ cliPc[t] = "check"
             /\ UNCHANGED <<conn, heapVars, srvVars, arg, lcfd>>
    BY <2>2 DEF heapVars, srvVars
  <2> QED  BY <1>7, <2>1, <2>2, Zenon DEF ClientCheck
<1>8. CASE ClientAnswer(t)  BY <1>8, ReturnKeepsOwners, ZenonT(30) DEF ClientAnswer
<1> QED  BY <1>1, <1>2, <1>3, <1>4, <1>5, <1>6, <1>7, <1>8, ZenonT(30) DEF ClientReads

(* Who holds a connection, by name.                                        *)
LEMMA HoldersOfOwn ==
    ASSUME OneCellEach, OwnConnection, NEW c \in Conns
    PROVE  Holders(c) = IF ByServer(c) THEN {None} ELSE IF ByThread(c) THEN {c} ELSE {}
<1> USE DEF OneCellEach, CellsKnown, ServerTypeOK, OwnConnection, ByServer, ByThread
<1>1. \A t \in Conns : (\/ cliPc[t] = "start" /\ fd[arg[t]] = c
                        \/ cliPc[t] \notin {"none", "start", "done"} /\ lcfd[t] = c)
                       <=> t = c /\ ByThread(c)
  BY Zenon
<1>2. ByServer(c) => ~ByThread(c)  BY Zenon
<1> QED  BY <1>1, <1>2 DEF Holders

(* "start a new thread for each accepted connection": with one listening   *)
(* socket an open connection is in the hands of exactly one thread and a   *)
(* closed one of none, whatever the number of connections and whatever     *)
(* threads cannot be started.                                              *)
THEOREM OneThreadPerConnection ==
    ASSUME NEW s, Sockets = {s}
    PROVE  ServerSpec => []ThreadPerConnection
<1>1. ServerInit => OwnConnection
  BY Zenon DEF ServerInit, OwnConnection, ByServer, ByThread
<1>2. OneCellEach /\ OneCellEach' /\ OwnConnection /\ [ServerNext]_vars => OwnConnection'
  <2>1. OwnConnection /\ UNCHANGED vars => OwnConnection'
    BY Zenon DEF OwnConnection, ByServer, ByThread, vars, heapVars, srvVars, cliVars
  <2> QED  BY <2>1, ServerKeepsOwners, ClientKeepsOwners, Zenon DEF ServerNext, Running
<1>3. OneCellEach /\ OwnConnection => ThreadPerConnection
  <2> SUFFICES ASSUME OneCellEach, OwnConnection, NEW c \in Conns
               PROVE  Cardinality(Holders(c)) = IF conn[c] = "open" THEN 1 ELSE 0
    BY Zenon DEF ThreadPerConnection
  <2>1. conn[c] = "open" <=> ByServer(c) \/ ByThread(c)  BY Zenon DEF OwnConnection
  <2> QED  BY <2>1, HoldersOfOwn, FS_Singleton, FS_EmptySet, Zenon
<1> QED  BY <1>1, <1>2, <1>3, CellsOwned, PTL DEF ServerSpec

-----------------------------------------------------------------------------
(* The ring buffer.  Names are pairs of numbers, in the order of the files. *)
Names == Nat \X Nat
Below(fs, f) == {g \in fs : Before(g, f)}

RingTypes ==
    /\ files \subseteq Names /\ IsFiniteSet(files) /\ IsFiniteSet(stuck)
    /\ now \in Nat /\ counter \in Nat /\ summer \in BOOLEAN
    /\ pc \in {"save", "maintain", "pause", "ended"}

(* Pictures since the last maintenance, when the counter stands at n.      *)
Since(n) == IF Exceed > 0 THEN n % (Exceed + 1) ELSE 0

(* How many files there are, once the process has maintained the ring.     *)
Filling ==
    /\ pc \in {"maintain", "pause"} => counter > 0
    /\ pc \in {"save", "pause"} /\ counter > 0 /\ Size >= 0 =>
          Cardinality(files) <= Size + Cardinality(stuck) + Since(counter)
    /\ pc = "maintain" /\ counter > 1 /\ Size >= 0 =>
          Cardinality(files) <= Size + Cardinality(stuck) + Since(counter - 1) + 1

(* While the local time runs forward every name is before the next one.    *)
InOrder ==
    summer => \A f \in files : f[1] <= now /\ (f[1] = now => f[2] < counter)

(* The picture just saved sorts last.                                      *)
SavedLast ==
    /\ pc = "maintain" => saved \in files
    /\ pc = "maintain" /\ summer => \A f \in files : f = saved \/ Before(f, saved)

RInv == RingTypes /\ Filling /\ InOrder /\ SavedLast /\ NewestKeptInSummer

(* One file more, one file less or none.                                   *)
LEMMA FilesCount ==
    ASSUME NEW S, IsFiniteSet(S), NEW x
    PROVE  /\ Cardinality(S) \in Nat
           /\ IsFiniteSet(S \cup {x}) /\ Cardinality(S \cup {x}) <= Cardinality(S) + 1
<1>1. Cardinality(S) \in Nat  BY FS_CardinalityType, Zenon
<1>2. IsFiniteSet(S \cup {x}) /\ Cardinality(S \cup {x}) <= Cardinality(S) + 1
  BY <1>1, FS_AddElement
<1> QED  BY <1>1, <1>2, Zenon

(* The place of a file in the order: fewer than all are before it, and of  *)
(* two files one has more before it than the other.                        *)
LEMMA Ranks ==
    ASSUME NEW fs \in SUBSET Names, IsFiniteSet(fs)
    PROVE  /\ \A f \in fs : Cardinality(Below(fs, f)) \in 0 .. Cardinality(fs) - 1
           /\ \A f, g \in fs :
                f # g => Cardinality(Below(fs, f)) # Cardinality(Below(fs, g))
<1>1. ASSUME NEW f \in fs
      PROVE  /\ IsFiniteSet(Below(fs, f)) /\ Cardinality(Below(fs, f)) \in Nat
             /\ Below(fs, f) \subseteq fs \ {f}
  <2>1. Below(fs, f) \in SUBSET fs  BY Zenon DEF Below
  <2>2. f \notin Below(fs, f)  BY DEF Below, Before, Names
  <2> QED  BY <2>1, <2>2, FS_Subset, FS_CardinalityType, Zenon
<1>2. ASSUME NEW f \in fs  PROVE Cardinality(Below(fs, f)) \in 0 .. Cardinality(fs) - 1
  <2>1. IsFiniteSet(fs \ {f}) /\ Cardinality(fs \ {f}) = Cardinality(fs) - 1
    BY FS_RemoveElement, Zenon
  <2>2. Cardinality(Below(fs, f)) <= Cardinality(fs \ {f})
    BY <1>1, <2>1, FS_Subset, Zenon
  <2>3. Cardinality(fs) \in Nat  BY FS_CardinalityType, Zenon
  <2> QED  BY <1>1, <2>1, <2>2, <2>3
<1>3. ASSUME NEW f \in fs, NEW g \in fs, Before(f, g)
      PROVE  Cardinality(Below(fs, f)) < Cardinality(Below(fs, g))
  <2>1. Below(fs, f) \cup {f} \subseteq Below(fs, g)  BY <1>3 DEF Below, Before, Names
  <2>2. Cardinality(Below(fs, f) \cup {f}) = Cardinality(Below(fs, f)) + 1
    BY <1>1, FS_AddElement, Zenon
  <2>3. Cardinality(Below(fs, f) \cup {f}) <= Cardinality(Below(fs, g))
    BY <1>1, <2>1, FS_Subset, Zenon
  <2> QED  BY <1>1, <2>2, <2>3
<1>4. ASSUME NEW f \in fs, NEW g \in fs, f # g  PROVE Before(f, g) \/ Before(g, f)
  BY <1>4 DEF Before, Names
<1> QED  BY <1>1, <1>2, <1>3, <1>4

(* maintain_ringbuffer leaves no more files than the ring has places ...   *)
LEMMA MaintainBounds ==
    ASSUME NEW fs \in SUBSET Names, IsFiniteSet(fs), Size >= 0
    PROVE  /\ IsFiniteSet(maintain_ringbuffer(fs))
           /\ Cardinality(maintain_ringbuffer(fs)) <= Size
<1> DEFINE kept == maintain_ringbuffer(fs)
           n == Cardinality(fs)
           place == [f \in kept |-> Cardinality(Below(fs, f))]
           places == (n - Size) .. (n - 1)
<1>1. n \in Nat /\ Size \in Nat  BY FS_CardinalityType, RingAssumption
<1>2. kept = {f \in fs : Cardinality(Below(fs, f)) >= n - Size}
  <2>1. ~(Size < 0)  BY <1>1
  <2> QED  BY <2>1, Zenon DEF maintain_ringbuffer, Below
<1> HIDE DEF kept, n
<1>3. \A f \in kept : Cardinality(Below(fs, f)) \in places
  BY <1>1, <1>2, Ranks DEF n
<1>4. \A f, g \in kept : f # g => place[f] # place[g]  BY <1>2, Ranks
<1>5. place \in Injection(kept, places)
  BY <1>3, <1>4, Zenon DEF Injection, IsInjective
<1>6. IsFiniteSet(places) /\ Cardinality(places) <= Size
  <2>1. n - Size \in Int /\ n - 1 \in Int  BY <1>1
  <2>2. /\ IsFiniteSet(places)
        /\ Cardinality(places) = IF n - Size > n - 1 THEN 0 ELSE (n - 1) - (n - Size) + 1
    BY <2>1, FS_Interval, Zenon
  <2> HIDE DEF places
  <2> QED  BY <1>1, <2>2
<1> HIDE DEF place, places
<1>7. IsFiniteSet(kept) /\ Cardinality(kept) <= Cardinality(places)
  BY <1>5, <1>6, FS_Injection, Zenon
<1>8. Cardinality(kept) \in Nat /\ Cardinality(places) \in Nat
  BY <1>6, <1>7, FS_CardinalityType, Zenon
<1> QED  BY <1>1, <1>6, <1>7, <1>8 DEF kept

(* ... and keeps the last one, if it has any.                              *)
LEMMA MaintainKeepsLast ==
    ASSUME NEW fs \in SUBSET Names, IsFiniteSet(fs), NEW f \in fs,
           \A g \in fs : g = f \/ Before(g, f), Size # 0
    PROVE  f \in maintain_ringbuffer(fs)
<1>1. CASE Size < 0  BY <1>1, Zenon DEF maintain_ringbuffer
<1>2. CASE ~(Size < 0)
  <2>1. Below(fs, f) = fs \ {f}  BY DEF Below, Before, Names
  <2>2. Cardinality(fs \ {f}) = Cardinality(fs) - 1 /\ Cardinality(fs) \in Nat
    BY FS_RemoveElement, FS_CardinalityType, Zenon
  <2>3. Cardinality(Below(fs, f)) >= Cardinality(fs) - Size
    BY <1>2, <2>1, <2>2, RingAssumption
  <2> QED  BY <1>2, <2>3, Zenon DEF maintain_ringbuffer, Below
<1> QED  BY <1>1, <1>2, Zenon

(* The remainder counts up to the divisor and starts again.                *)
LEMMA Remainder ==
    ASSUME NEW m \in Nat, m > 0, NEW n \in Nat
    PROVE  /\ n % m \in 0 .. m - 1
           /\ (n + 1) % m = 0 \/ (n + 1) % m = (n % m) + 1
<1> DEFINE q == n \div m
           r == n % m
           k == (n + 1) \div m
           l == (n + 1) % m
<1>1. q \in Int /\ r \in 0 .. m - 1 /\ n = m * q + r  OBVIOUS
<1>2. k \in Int /\ l \in 0 .. m - 1 /\ n + 1 = m * k + l  OBVIOUS
<1> HIDE DEF q, r, k, l
<1>3. m * (k - q) = r + 1 - l  BY <1>1, <1>2
<1>4. k - q \in {0, 1}
  <2>1. ASSUME k - q >= 2  PROVE FALSE
    <3>1. m * (k - q) >= m * 2  BY <1>1, <1>2, <2>1
    <3> QED  BY <1>1, <1>2, <1>3, <3>1
  <2>2. ASSUME k - q <= -1  PROVE FALSE
    <3>1. m * (k - q) <= m * (-1)  BY <1>1, <1>2, <2>2
    <3> QED  BY <1>1, <1>2, <1>3, <3>1
  <2> QED  BY <1>1, <1>2, <2>1, <2>2
<1>5. CASE k - q = 0
  <2>1. m * (k - q) = 0  BY <1>5
  <2> QED  BY <1>1, <1>2, <1>3, <2>1 DEF r, l
<1>6. CASE k - q = 1
  <2>1. m * (k - q) = m  BY <1>6
  <2>2. l = 0  BY <1>1, <1>2, <1>3, <2>1
  <2> QED  BY <1>1, <2>2, Zenon DEF r, l
<1> QED  BY <1>4, <1>5, <1>6, Zenon

LEMMA SinceCounts ==
    ASSUME NEW n \in Nat
    PROVE  /\ Since(n) \in Nat /\ Since(n) <= (IF Exceed > 0 THEN Exceed ELSE 0)
           /\ Exceed > 0 /\ (n + 1) % (Exceed + 1) # 0 => Since(n + 1) = Since(n) + 1
BY Remainder, RingAssumption DEF Since

LEMMA SaveKeeps == ASSUME RInv, Save PROVE RInv'
<1> USE RingAssumption DEF RInv
<1> DEFINE f == <<now, counter>>
<1>1. RingTypes'
  <2>1. f \in Names  BY Zenon DEF Names, RingTypes
  <2>2. IsFiniteSet(files \cup {f})  BY FilesCount, Zenon DEF RingTypes
  <2> QED  BY <2>1, <2>2 DEF RingTypes, Save
<1>2. Filling'
  <2>1. Cardinality(files') <= Cardinality(files) + 1 /\ Cardinality(files) \in Nat
    BY FilesCount, Zenon DEF Save, RingTypes
  <2>2. Cardinality(files') \in Nat /\ Cardinality(stuck) \in Nat
    BY <1>1, FS_CardinalityType, Zenon DEF RingTypes
  <2>3. counter \in Nat /\ Since(counter) \in Nat  BY SinceCounts, Zenon DEF RingTypes
  <2>4. counter > 0 /\ Size >= 0 =>
           Cardinality(files) <= Size + Cardinality(stuck) + Since(counter)
    BY Zenon DEF Filling, Save
  <2>5. counter' - 1 = counter /\ counter' > 0 /\ (counter' > 1 => counter > 0) /\ stuck' = stuck
    BY <2>3 DEF Save
  <2>6. pc' = "maintain"  BY Zenon DEF Save
  <2> QED  BY <2>1, <2>2, <2>3, <2>4, <2>5, <2>6 DEF Filling
<1>3. InOrder'  BY DEF InOrder, Save, RingTypes, Names
<1>4. SavedLast'  BY DEF SavedLast, InOrder, Save, RingTypes, Names, Before
<1>5. NewestKeptInSummer'  BY Zenon DEF NewestKeptInSummer, NewestKept, Save
<1> QED  BY <1>1, <1>2, <1>3, <1>4, <1>5, Zenon

LEMMA SaveFailsKeeps == ASSUME RInv, SaveFails PROVE RInv'
<1> USE RingAssumption DEF RInv
<1> DEFINE f == <<now, counter>>
<1>1. RingTypes'
  <2>1. f \in Names  BY Zenon DEF Names, RingTypes
  <2>2. IsFiniteSet(files \cup {f})  BY FilesCount, Zenon DEF RingTypes
  <2> QED  BY <2>1, <2>2 DEF RingTypes, SaveFails
<1>2. Filling' /\ SavedLast' /\ NewestKeptInSummer'
  BY Zenon DEF Filling, SavedLast, NewestKeptInSummer, NewestKept, SaveFails
<1>3. InOrder'  BY DEF InOrder, SaveFails, RingTypes, Names
<1> QED  BY <1>1, <1>2, <1>3, Zenon

LEMMA MaintainKeeps == ASSUME RInv, Maintain PROVE RInv'
<1> USE RingAssumption DEF RInv
<1>0. /\ pc = "maintain" /\ pc' = "pause" /\ counter > 0 /\ counter \in Nat
      /\ UNCHANGED <<now, summer, counter, saved>>
  BY Zenon DEF Maintain, Filling, RingTypes
<1>1. CASE Due
  <2> DEFINE kept == maintain_ringbuffer(files)
  <2>1. stuck' \in Undeleted(files \ kept) /\ files' = kept \cup stuck'  BY <1>1, Zenon DEF Maintain
  <2>2. kept \subseteq files  BY Zenon DEF maintain_ringbuffer
  <2>3. stuck' \subseteq files  BY <2>1, Zenon DEF Undeleted
  <2>4. saved \in files /\ (summer => \A g \in files : g = saved \/ Before(g, saved))
    BY <1>0, Zenon DEF SavedLast
  <2>5. files \in SUBSET Names /\ IsFiniteSet(files)  BY Zenon DEF RingTypes
  <2>6. Size # 0 /\ summer => saved \in kept  BY <2>4, <2>5, MaintainKeepsLast, Zenon
  <2>7. IsFiniteSet(kept) /\ (Size >= 0 => Cardinality(kept) <= Size)
    <3>1. IsFiniteSet(kept)  BY <2>2, <2>5, FS_Subset, Zenon
    <3> QED  BY <2>5, <3>1, MaintainBounds, Zenon
  <2> HIDE DEF kept
  <2>8. files' \subseteq files  BY <2>1, <2>2, <2>3, Zenon
  <2>9. RingTypes'
    <3>1. IsFiniteSet(files') /\ IsFiniteSet(stuck')  BY <2>3, <2>5, <2>8, FS_Subset, Zenon
    <3> QED  BY <1>0, <2>5, <2>8, <3>1, Zenon DEF RingTypes
  <2>10. Cardinality(files') <= Cardinality(kept) + Cardinality(stuck')
    <3>1. IsFiniteSet(stuck') /\ IsFiniteSet(kept)  BY <2>7, <2>9, Zenon DEF RingTypes
    <3>2. Cardinality(kept \cup stuck') =
            Cardinality(kept) + Cardinality(stuck') - Cardinality(kept \cap stuck')
      BY <3>1, FS_Union, Zenon
    <3>3. /\ Cardinality(kept \cap stuck') \in Nat
          /\ Cardinality(kept) \in Nat /\ Cardinality(stuck') \in Nat
      BY <3>1, FS_Intersection, FS_CardinalityType, Zenon
    <3> QED  BY <2>1, <3>2, <3>3
  <2>11. Filling'
    <3>1. Since(counter) \in Nat  BY <1>0, SinceCounts, Zenon
    <3>2. Cardinality(files') \in Nat /\ Cardinality(stuck') \in Nat /\ Cardinality(kept) \in Nat
      BY <2>7, <2>9, FS_CardinalityType, Zenon DEF RingTypes
    <3>3. Size >= 0 => Cardinality(files') <= Size + Cardinality(stuck') + Since(counter)
      BY <2>7, <2>10, <3>1, <3>2
    <3> QED  BY <1>0, <3>3, Zenon DEF Filling
  <2>12. InOrder' /\ SavedLast'  BY <1>0, <2>8, Zenon DEF InOrder, SavedLast
  <2>13. NewestKeptInSummer'
    BY <1>0, <2>1, <2>6, Zenon DEF NewestKeptInSummer, NewestKept
  <2> QED  BY <2>9, <2>11, <2>12, <2>13, Zenon
<1>2. CASE ~Due
  <2>1. UNCHANGED <<files, stuck>>  BY <1>2, Zenon DEF Maintain
  <2>2. Exceed > 0 /\ counter > 1 /\ counter % (Exceed + 1) # 0  BY <1>0, <1>2 DEF Due
  <2>3. RingTypes' /\ InOrder' /\ SavedLast'
    BY <1>0, <2>1, Zenon DEF RingTypes, InOrder, SavedLast
  <2>4. Filling'
    <3>1. counter - 1 \in Nat /\ (counter - 1) + 1 = counter  BY <1>0
    <3>2. Since(counter) = Since(counter - 1) + 1  BY <2>2, <3>1, SinceCounts, Zenon
    <3>3. Since(counter - 1) \in Nat  BY <3>1, SinceCounts, Zenon
    <3>4. Cardinality(files) \in Nat /\ Cardinality(stuck) \in Nat
      BY FS_CardinalityType, Zenon DEF RingTypes
    <3>5. Size >= 0 => Cardinality(files) <= Size + Cardinality(stuck) + Since(counter - 1) + 1
      BY <1>0, <2>2, Zenon DEF Filling
    <3>6. Size >= 0 => Cardinality(files) <= Size + Cardinality(stuck) + Since(counter)
      BY <3>2, <3>3, <3>4, <3>5
    <3> QED  BY <1>0, <2>1, <3>6, Zenon DEF Filling
  <2>5. NewestKeptInSummer'
    BY <1>0, <2>1, Zenon DEF NewestKeptInSummer, NewestKept, SavedLast
  <2> QED  BY <2>3, <2>4, <2>5, Zenon
<1> QED  BY <1>1, <1>2, Zenon

LEMMA TimePasses ==
    ASSUME RInv, Pause \/ Tick \/ EndOfSummer \/ Restart \/ UNCHANGED ringVars
    PROVE  RInv'
<1> USE DEF RInv
<1>1. RingTypes'
  <2>1. now' \in Nat  BY DEF RingTypes, Pause, Tick, EndOfSummer, Restart, ringVars
  <2>2. counter' \in Nat /\ files' = files /\ stuck' = stuck
    BY DEF RingTypes, Pause, Tick, EndOfSummer, Restart, ringVars
  <2>4. summer' \in BOOLEAN
    BY Zenon DEF RingTypes, Pause, Tick, EndOfSummer, Restart, ringVars
  <2>3. pc' \in {"save", "maintain", "pause", "ended"}
    BY Zenon DEF RingTypes, Pause, Tick, EndOfSummer, Restart, ringVars
  <2> QED  BY <2>1, <2>2, <2>3, <2>4, Zenon DEF RingTypes
<1>2. CASE Pause
  BY <1>1, <1>2, Zenon DEF Pause, Filling, InOrder, SavedLast, NewestKeptInSummer, NewestKept
<1>3. CASE Tick
  <2>1. InOrder'  BY <1>3 DEF Tick, InOrder, RingTypes, Names
  <2> QED  BY <1>1, <1>3, <2>1, Zenon DEF Tick, Filling, SavedLast, NewestKeptInSummer, NewestKept
<1>4. CASE EndOfSummer
  BY <1>1, <1>4, Zenon DEF EndOfSummer, Filling, InOrder, SavedLast, NewestKeptInSummer
<1>5. CASE Restart
  <2>1. InOrder'  BY <1>5 DEF Restart, InOrder, RingTypes, Names
  <2>2. Filling'  BY <1>5 DEF Restart, Filling
  <2> QED  BY <1>1, <1>5, <2>1, <2>2, Zenon DEF Restart, SavedLast, NewestKeptInSummer, NewestKept
<1>6. CASE UNCHANGED ringVars
  BY <1>1, <1>6, Zenon DEF ringVars, Filling, InOrder, SavedLast, NewestKeptInSummer, NewestKept
<1> QED  BY <1>2, <1>3, <1>4, <1>5, <1>6, Zenon

(* The invariant of the ring buffer holds of every behaviour.              *)
THEOREM RingInvariance == RingSpec => []RInv
<1>1. ASSUME RingInit  PROVE RInv
  <2> USE <1>1, RingAssumption DEF RingInit
  <2>1. PICK n \in 0 .. Leftover : files = {0} \X {c \in 0 .. MaxCounter : c < n}  BY Zenon
  <2>2. \A f \in files : f \in Names /\ f[1] = 0
    <3>1. files \subseteq {0} \X Nat  BY <2>1
    <3> HIDE <1>1 DEF RingInit
    <3> QED  BY <3>1 DEF Names
  <2>3. IsFiniteSet(files)
    <3>0. 0 \in Int /\ MaxCounter \in Int  OBVIOUS
    <3>1. IsFiniteSet(0 .. MaxCounter) /\ IsFiniteSet({0})
      BY <3>0, FS_Interval, FS_Singleton, Zenon
    <3>2. {c \in 0 .. MaxCounter : c < n} \subseteq 0 .. MaxCounter  BY Zenon
    <3>3. IsFiniteSet({c \in 0 .. MaxCounter : c < n})  BY <3>1, <3>2, FS_Subset, Zenon
    <3> HIDE <1>1 DEF RingInit
    <3> QED  BY <2>1, <3>1, <3>3, FS_Product, Zenon
  <2>4. IsFiniteSet(stuck)  BY FS_EmptySet, Zenon
  <2>5. RingTypes  BY <2>2, <2>3, <2>4, Zenon DEF RingTypes
  <2>6. InOrder  BY <2>2 DEF InOrder
  <2> QED  BY <2>5, <2>6 DEF RInv, Filling, SavedLast, NewestKeptInSummer, NewestKept
<1>2. ASSUME RInv, [RingNext]_ringVars  PROVE RInv'
  BY <1>2, SaveKeeps, SaveFailsKeeps, MaintainKeeps, TimePasses, Zenon DEF RingNext
<1> QED  BY <1>1, <1>2, PTL DEF RingSpec

(* For every size and allowance the folder holds no more pictures than the *)
(* start-up message says, besides those the last maintenance could not     *)
(* delete, and while the local time runs forward never loses the newest:   *)
(* through restarts, failed writes and failed deletions, with any files of *)
(* an earlier process in the folder.                                       *)
THEOREM RingIsKept == RingSpec => []RingKept
<1>1. ASSUME RInv  PROVE RingKept
  <2> USE <1>1, RingAssumption DEF RInv
  <2>1. RingBounded
    <3> SUFFICES ASSUME pc = "pause", Size >= 0
                 PROVE  Cardinality(files) <=
                          Size + (IF Exceed > 0 THEN Exceed ELSE 0) + Cardinality(stuck)
      BY Zenon DEF RingBounded
    <3>1. counter > 0 /\ counter \in Nat  BY Zenon DEF Filling, RingTypes
    <3>2. Cardinality(files) <= Size + Cardinality(stuck) + Since(counter)
      BY <3>1, Zenon DEF Filling
    <3>3. Since(counter) \in Nat /\ Since(counter) <= (IF Exceed > 0 THEN Exceed ELSE 0)
      BY <3>1, SinceCounts, Zenon
    <3>4. Cardinality(files) \in Nat /\ Cardinality(stuck) \in Nat
      BY FS_CardinalityType, Zenon DEF RingTypes
    <3> QED  BY <3>2, <3>3, <3>4
  <2> QED  BY <2>1, Zenon DEF RingKept
<1> QED  BY <1>1, RingInvariance, PTL
=============================================================================
