------------------------------- MODULE Daemon -------------------------------
(***************************************************************************)
(* Clients of the daemon: HHALClient (daemon/hhal_client.cpp) over the     *)
(* functions of daemon/base/client/socket_client.cpp.  A client makes one  *)
(* call at a time and blocks until it returns; its process may end at any  *)
(* point of a call.                                                        *)
(***************************************************************************)
EXTENDS DaemonServer

CONSTANT OpsOf   \* the operations each client asks for

ASSUME ClientAssumption == OpsOf \in [Conns -> SUBSET Ops]

VARIABLE client   \* where each connection is in a call

vars == <<serverVars, client>>

\* stage says what is received next, when out has been sent; need, how many
\* units of it are left.
Idle(result) ==
    [stage |-> "idle", op |-> NoOp, out |-> <<>>, need |-> 0, result |-> result]

Init ==
    /\ ServerInit
    /\ client = [c \in Conns |-> Idle("none")]

-----------------------------------------------------------------------------
\* initialize.
Connect(c) ==
    /\ life[c] = "new"
    /\ life' = [life EXCEPT ![c] = "open"]
    /\ server_open' = server_open \cup {c}
    /\ backlog' = Append(backlog, c)
    /\ UNCHANGED <<up, down, sockets, revents, consuming, executed, client>>

\* ~HHALClient, TRY_OR_CLOSE, or the end of the process.
Close(c) ==
    /\ life[c] = "open"
    /\ life' = [life EXCEPT ![c] = "closed"]
    /\ down' = [down EXCEPT ![c] = <<>>]
    /\ client' = [client EXCEPT ![c] = Idle("lost")]
    /\ UNCHANGED <<up, server_open, backlog, sockets, revents, consuming, executed>>

\* A call of the API: the command is to be sent, and an answer expected.
Call(c, op) ==
    /\ life[c] = "open" /\ client[c].stage = "idle"
    /\ client' = [client EXCEPT ![c] =
         [@ EXCEPT !.stage = "answer", !.op = op, !.out = Command(op), !.need = 1]]
    /\ executed' = [executed EXCEPT ![c] = <<>>]
    /\ UNCHANGED <<up, down, life, server_open, backlog, sockets, revents, consuming>>

\* send_on_socket sends in as many pieces as it takes.
ClientSend(c) ==
    LET out == client[c].out
    IN  /\ c \in server_open
        /\ \E n \in 1 .. Len(out) :
             /\ up' = [up EXCEPT ![c] = @ \o SubSeq(out, 1, n)]
             /\ client' = [client EXCEPT ![c] =
                             [@ EXCEPT !.out = SubSeq(out, n + 1, Len(out))]]
        /\ UNCHANGED <<down, life, server_open, backlog, sockets, revents,
                       consuming, executed>>

\* receive_on_socket: what has come of the units it needs.
Receives(c, n) ==
    /\ client[c].stage # "idle" /\ client[c].out = <<>>
    /\ n = Min({client[c].need, Len(down[c])}) /\ n > 0
    /\ down' = [down EXCEPT ![c] = SubSeq(@, n + 1, Len(@))]
    /\ UNCHANGED <<up, life, server_open, backlog, sockets, revents,
                   consuming, executed>>

\* A faulty variant: an error response is taken for a response_base.
OnlyRegisterLonger(base) == base = "REGISTER_DATA"

\* The responses with more than a response_base.
LongerThanBase(base) == base \in {"ERROR", "REGISTER_DATA"}

\* What a call does when it has received the response_base: it receives the rest
\* of a longer response, sends the data of a command in two phases and waits for a
\* second answer, receives the memory read, or returns.
AfterBase(k, base) ==
    LET failed == base = "ERROR" \/ (base = "ACK" /\ k.op.kind = "register")
        result == IF failed THEN "ERROR" ELSE "OK"
        first  == base = "ACK" /\ k.stage = "answer"
    IN  CASE LongerThanBase(base) -> [k EXCEPT !.stage = "rest", !.result = result]
          [] first /\ k.op.kind = "write" ->
               [k EXCEPT !.stage = "second", !.out = Payload(k.op)]
          [] first /\ k.op.kind = "read" /\ k.op.size > 0 ->
               [k EXCEPT !.stage = "data", !.need = k.op.size]
          [] OTHER -> Idle(result)

ReceiveBase(c) ==
    /\ client[c].stage \in {"answer", "second"}
    /\ Receives(c, 1)
    /\ client' = [client EXCEPT ![c] = AfterBase(@, Head(down[c]))]

\* receive_rest_of_response.
ReceiveRest(c) ==
    /\ client[c].stage = "rest"
    /\ Receives(c, 1)
    /\ client' = [client EXCEPT ![c] = Idle(@.result)]

ReceiveMemory(c) ==
    LET k == client[c]
    IN  /\ k.stage = "data"
        /\ \E n \in 1 .. k.need :
             /\ Receives(c, n)
             /\ client' = [client EXCEPT ![c] =
                  IF n < k.need THEN [k EXCEPT !.need = @ - n] ELSE Idle("OK")]

\* The server has closed its end: send and recv fail, and the client closes.
\* What was sent before is received first.
Fail(c) ==
    /\ client[c].stage # "idle" /\ c \notin server_open
    /\ client[c].out # <<>> \/ down[c] = <<>>
    /\ Close(c)

Client(c) ==
    ClientSend(c) \/ ReceiveBase(c) \/ ReceiveRest(c) \/ ReceiveMemory(c) \/ Fail(c)

-----------------------------------------------------------------------------
Serve == Server /\ UNCHANGED client

Next ==
    \/ Serve
    \/ \E c \in Conns :
         Connect(c) \/ Close(c) \/ Client(c) \/ \E op \in OpsOf[c] : Call(c, op)

\* The daemon runs, and so does a client in a call; nothing obliges a client to
\* make one.
Fairness == WF_vars(Serve) /\ \A c \in Conns : WF_vars(Client(c))

Spec == Init /\ [][Next]_vars /\ Fairness

-----------------------------------------------------------------------------
\* Types.  A socket that waits for data has not received all of it: recv would be
\* called with no room and return 0, which is taken for a hang up.
SocketOK(s) ==
    /\ s \in Entries
    /\ Len(s.buf) <= BufferSize /\ Len(s.queue) <= 2
    /\ IF s.cmd = NoOp THEN s.data = <<>> ELSE Len(s.data) < s.cmd.size

TypeOK ==
    /\ up \in [Conns -> Seq(Units)]
    /\ down \in [Conns -> Seq(AnswerUnits)] /\ \A c \in Conns : Len(down[c]) <= Room
    /\ life \in [Conns -> {"new", "open", "closed"}]
    /\ server_open \in SUBSET Conns
    /\ backlog \in Seq(Conns)
    /\ DOMAIN sockets = Slots
    /\ \A i \in Slots : sockets[i] = NoSocket \/ SocketOK(sockets[i])
    /\ revents \in [0 .. MaxConnections -> SUBSET {"IN", "OUT", "HUP"}]
    /\ consuming \in SUBSET Slots /\ Cardinality(consuming) <= 1
    /\ \A c \in Conns :
         /\ client[c].stage \in {"idle", "answer", "second", "rest", "data"}
         /\ client[c].op \in Ops \cup {NoOp}
         /\ client[c].result \in Results \cup {"none", "lost"}

Serving(c) == {i \in Slots : sockets[i] # NoSocket /\ sockets[i].conn = c}

\* Between calls nothing of a call is left in a stream, in a buffer or in a queue,
\* where the next call would take it for its own; and an entry is never that of a
\* connection the server has closed, nor of two at once.
CleanBetweenCalls ==
    /\ \A c \in Conns :
         life[c] = "open" /\ client[c].stage = "idle" =>
           /\ up[c] = <<>> /\ down[c] = <<>>
           /\ \A i \in Serving(c) : sockets[i] = NewSocket(c)
    /\ \A c \in Conns :
         Cardinality(Serving(c)) + Cardinality({k \in DOMAIN backlog : backlog[k] = c})
           = (IF c \in server_open THEN 1 ELSE 0)

\* The calls of each connection: what has been executed must be the operation
\* asked for with the data that belongs to it, once.
CallState(c) ==
    IF life[c] = "closed" THEN "over"
    ELSE IF client[c].stage = "idle" THEN "idle"
    ELSE IF executed[c] = <<>> THEN "called"
    ELSE IF /\ Len(executed[c]) = 1
            /\ executed[c][1].op = client[c].op
            /\ executed[c][1].data = IF client[c].op.kind = "write"
                                     THEN Payload(client[c].op) ELSE <<>>
         THEN executed[c][1].result
    ELSE "wrong"

Calls == INSTANCE RemoteCalls WITH
           state    <- [c \in Conns |-> CallState(c)],
           returned <- [c \in Conns |-> IF client[c].stage = "idle" /\ life[c] = "open"
                                        THEN client[c].result ELSE "none"]

\* Clients and daemon together provide remote calls, executed once and answered
\* with their own result, however commands, data and answers are cut into pieces.
ImplementsRemoteCalls == Calls!Spec

\* Every call returns, or its connection is lost.
CallsReturn == \A c \in Conns : client[c].stage # "idle" ~> client[c].stage = "idle"

\* The entry of a client that has gone is given back.
EntriesFreed == \A c \in Conns : life[c] = "closed" ~> Serving(c) = {}

\* "Send the given message to the socket with the given id" (server.h:80): what is
\* queued for a client is sent, while it takes what it is sent.
QueuedIsSent ==
    \A c \in Conns :
      (\E i \in Serving(c) : WantsToWrite(sockets[i]))
        ~> ~\E i \in Serving(c) : WantsToWrite(sockets[i])
=============================================================================
