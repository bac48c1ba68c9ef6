---------------------------- MODULE DaemonServer ----------------------------
(***************************************************************************)
(* The daemon: the poll loop of Server (daemon/base/server/server.cpp)     *)
(* with the handlers of HHALServer (daemon/hhal_server.cpp).  One thread;  *)
(* a step is one system call with what follows it, or one round of a loop. *)
(*                                                                         *)
(* revents holds what poll has returned and is still to be looked at: the  *)
(* state of the sockets may have changed since.                            *)
(***************************************************************************)
EXTENDS DaemonProtocol

CONSTANTS Conns,          \* connections; each is opened at most once
          MaxConnections, \* max_connections
          Room,           \* what a socket holds for a client that does not read
          NoSocket, NoOp

\* What the server keeps for a connection it serves.  cmd and data are
\* receiving_data, waiting if cmd is an operation; sending is what is left of
\* sending_message, if it is in progress.
Entries ==
    [conn : Conns, buf : Seq(Units), cmd : Ops \cup {NoOp}, data : Seq(Units),
     queue : Seq(Messages), in_progress : BOOLEAN, sending : Messages]

ASSUME ServerAssumption ==
    /\ IsFiniteSet(Conns) /\ NoSocket \notin Entries /\ NoOp \notin Ops
    /\ MaxConnections \in Nat \ {0} /\ Room \in Nat \ {0}

VARIABLES up, down,    \* the streams of each connection, to and from the server
          life,        \* the client's end: "new", "open" or "closed"
          server_open, \* connections whose end at the server is open
          backlog,     \* connections to accept
          sockets,     \* what the server keeps for each connection it serves
          revents,     \* what is left of the result of poll
          consuming,   \* the entry in the loop of consume_message_buffer, if any
          executed     \* what HHAL has been called for, since the client's call

serverVars == <<up, down, life, server_open, backlog, sockets, revents,
                consuming, executed>>

Slots == 0 .. MaxConnections - 1
listen_idx == MaxConnections

\* Socket::Socket.
NewSocket(c) ==
    [conn |-> c, buf |-> <<>>, cmd |-> NoOp, data |-> <<>>, queue |-> <<>>,
     in_progress |-> FALSE, sending |-> <<>>]

ServerInit ==
    /\ up = [c \in Conns |-> <<>>] /\ down = [c \in Conns |-> <<>>]
    /\ life = [c \in Conns |-> "new"]
    /\ server_open = {}
    /\ backlog = <<>>
    /\ sockets = [i \in Slots |-> NoSocket]
    /\ revents = [i \in 0 .. MaxConnections |-> {}]
    /\ consuming = {}
    /\ executed = [c \in Conns |-> <<>>]

-----------------------------------------------------------------------------
(* poll.                                                                   *)

\* A faulty variant: the queue is forgotten.
WantsUnfinished(s) == s.in_progress

WantsToWrite(s) == s.queue # <<>> \/ s.in_progress

\* check_for_writes sets POLLOUT; what poll reports of a connection.
Events(s) ==
    (IF up[s.conn] # <<>> \/ life[s.conn] = "closed" THEN {"IN"} ELSE {})
    \cup (IF WantsToWrite(s) /\ Len(down[s.conn]) < Room THEN {"OUT"} ELSE {})
    \cup (IF life[s.conn] = "closed" THEN {"HUP"} ELSE {})

Ready(i) ==
    IF i = listen_idx THEN IF backlog = <<>> THEN {} ELSE {"IN"}
    ELSE IF sockets[i] = NoSocket THEN {} ELSE Events(sockets[i])

\* check_for_writes and poll, which blocks until something is ready.
Poll ==
    /\ consuming = {} /\ \A i \in DOMAIN revents : revents[i] = {}
    /\ \E i \in DOMAIN revents : Ready(i) # {}
    /\ revents' = [i \in DOMAIN revents |-> Ready(i)]
    /\ UNCHANGED <<up, down, life, server_open, backlog, sockets, consuming, executed>>

\* The loop over pollfds is at i, and looks at event e next.
At(i, e) ==
    /\ e \in revents[i]
    /\ \A j \in DOMAIN revents : j < i => revents[j] = {}
    /\ e = "OUT" => "IN" \notin revents[i]
    /\ e = "HUP" => revents[i] = {"HUP"}
    /\ consuming = {}

Seen(i, e) == revents' = [revents EXCEPT ![i] = @ \ {e}]

\* A faulty variant: the entry of the socket is not reset.
CloseKeepingSocket(i) ==
    /\ server_open' = server_open \ {sockets[i].conn}
    /\ revents' = [revents EXCEPT ![i] = {}]
    /\ UNCHANGED sockets

\* close_socket, after which the loop goes on with the next entry.
CloseSocket(i) ==
    /\ server_open' = server_open \ {sockets[i].conn}
    /\ sockets' = [sockets EXCEPT ![i] = NoSocket]
    /\ revents' = [revents EXCEPT ![i] = {}]

-----------------------------------------------------------------------------
(* accept_new_connection: the first free entry, or none.                   *)

Accept ==
    /\ At(listen_idx, "IN")
    /\ Seen(listen_idx, "IN")
    /\ backlog' = Tail(backlog)
    /\ \/ \E i \in Slots :
            /\ sockets[i] = NoSocket /\ \A j \in 0 .. i - 1 : sockets[j] # NoSocket
            /\ sockets' = [sockets EXCEPT ![i] = NewSocket(Head(backlog))]
            /\ UNCHANGED server_open
       \/ /\ \A i \in Slots : sockets[i] # NoSocket
          /\ server_open' = server_open \ {Head(backlog)}
          /\ UNCHANGED sockets
    /\ UNCHANGED <<up, down, life, consuming, executed>>

-----------------------------------------------------------------------------
(* Receiving: receive_messages reads once.                                 *)

\* HHAL is called and the answer queued.
Executes(s, op, data, r) ==
    executed' = [executed EXCEPT ![s.conn] = Append(@, [op |-> op, data |-> data, result |-> r])]

HangUp(i) ==
    /\ At(i, "IN") /\ i \in Slots
    /\ up[sockets[i].conn] = <<>>
    /\ CloseSocket(i)
    /\ UNCHANGED <<up, down, life, backlog, consuming, executed>>

\* While no data is expected, the message buffer is filled up and consumed.
BufferSize == CommandSize + 1

ReceiveMessage(i) ==
    LET s == sockets[i]
        n == Min({BufferSize - Len(s.buf), Len(up[s.conn])})
    IN  /\ At(i, "IN") /\ i \in Slots
        /\ s.cmd = NoOp /\ up[s.conn] # <<>>
        /\ up' = [up EXCEPT ![s.conn] = SubSeq(@, n + 1, Len(@))]
        /\ sockets' = [sockets EXCEPT ![i] =
                         [s EXCEPT !.buf = @ \o SubSeq(up[s.conn], 1, n)]]
        /\ consuming' = {i}
        /\ Seen(i, "IN")
        /\ UNCHANGED <<down, life, server_open, backlog, executed>>

\* A faulty variant: the offset into the data is not reset.
DoneKeepingOffset(s, r) ==
    [s EXCEPT !.cmd = NoOp, !.queue = @ \o Answer(s.cmd, r)]

\* The socket when handle_data has answered and the socket has stopped waiting.
Done(s, r) ==
    [s EXCEPT !.cmd = NoOp, !.data = <<>>, !.queue = @ \o Answer(s.cmd, r)]

\* What is received is added to the data waited for; consume_data_buffer hands the
\* command and all of its data to handle_data.
ReceiveData(i) ==
    LET s    == sockets[i]
        n    == Min({s.cmd.size - Len(s.data), Len(up[s.conn])})
        data == s.data \o SubSeq(up[s.conn], 1, n)
    IN  /\ At(i, "IN") /\ i \in Slots
        /\ s.cmd # NoOp /\ up[s.conn] # <<>>
        /\ up' = [up EXCEPT ![s.conn] = SubSeq(@, n + 1, Len(@))]
        /\ \/ /\ Len(data) < s.cmd.size
              /\ sockets' = [sockets EXCEPT ![i] = [s EXCEPT !.data = data]]
              /\ UNCHANGED executed
           \/ /\ Len(data) = s.cmd.size
              /\ \E r \in Results :
                   /\ Executes(s, s.cmd, data, r)
                   /\ sockets' = [sockets EXCEPT ![i] = Done([s EXCEPT !.data = data], r)]
        /\ Seen(i, "IN")
        /\ UNCHANGED <<down, life, server_open, backlog, consuming>>

-----------------------------------------------------------------------------
(* consume_message_buffer: one round of its loop, with handle_command.      *)

\* A faulty variant: a command in two phases is carried out when it arrives.
HandleAtOnce(i, op) ==
    LET s == sockets[i]
    IN  \E r \in Results :
          /\ Executes(s, op, <<>>, r)
          /\ sockets' = [sockets EXCEPT ![i] =
               [s EXCEPT !.buf = <<>>, !.queue = @ \o Answer(op, r),
                         !.cmd = IF op.kind = "write" /\ op.size > 0 THEN op ELSE NoOp]]

\* The handlers.  A command in two phases is acknowledged and its data expected,
\* if there is any; what is left in the buffer is data then.  The others are
\* carried out.
Handle(i, op) ==
    LET s    == sockets[i]
        left == SubSeq(s.buf, CommandSize + 1, Len(s.buf))
    IN  \/ /\ op.kind = "write"
           /\ sockets' = [sockets EXCEPT ![i] =
                IF op.size > 0
                THEN [s EXCEPT !.queue = Append(@, Ack), !.cmd = op,
                               !.data = left, !.buf = <<>>]
                ELSE [s EXCEPT !.queue = Append(@, Ack), !.buf = left]]
           /\ UNCHANGED executed
        \/ /\ op.kind # "write"
           /\ \E r \in Results :
                /\ Executes(s, op, <<>>, r)
                /\ sockets' = [sockets EXCEPT ![i] =
                     [s EXCEPT !.buf = left, !.queue = @ \o Answer(op, r)]]

\* INSUFFICIENT_DATA: the loop ends until more is received.
ConsumePart(i) ==
    /\ Len(sockets[i].buf) < CommandSize
    /\ consuming' = {}
    /\ UNCHANGED <<sockets, executed>>

ConsumeCommand(i) ==
    /\ Len(sockets[i].buf) >= CommandSize
    /\ Handle(i, sockets[i].buf[1][1])
    /\ consuming' = {j \in {i} : sockets'[j].buf # <<>>}

Consume(i) ==
    /\ i \in consuming
    /\ ConsumePart(i) \/ ConsumeCommand(i)
    /\ UNCHANGED <<up, down, life, server_open, backlog, revents>>

-----------------------------------------------------------------------------
(* send_messages: one round of its loop.  The round takes the next message  *)
(* if none is in progress, and sends what the socket has room for.          *)

Loaded(s) ==
    IF s.in_progress THEN s
    ELSE [s EXCEPT !.in_progress = TRUE, !.sending = Head(s.queue), !.queue = Tail(s.queue)]

\* Nothing can be sent: the loop ends.  send returns 0 for an empty message too.
SendLater(i) ==
    LET s == Loaded(sockets[i])
    IN  /\ life[s.conn] = "open"
        /\ s.sending = <<>> \/ Len(down[s.conn]) >= Room
        /\ sockets' = [sockets EXCEPT ![i] = s]
        /\ Seen(i, "OUT")
        /\ UNCHANGED <<down, server_open>>

SendSome(i) ==
    LET s == Loaded(sockets[i])
    IN  /\ life[s.conn] = "open"
        /\ \E n \in 1 .. Min({Len(s.sending), Room - Len(down[s.conn])}) :
             /\ down' = [down EXCEPT ![s.conn] = @ \o SubSeq(s.sending, 1, n)]
             /\ sockets' = [sockets EXCEPT ![i] =
                  [s EXCEPT !.sending = SubSeq(@, n + 1, Len(@)),
                            !.in_progress = (n < Len(s.sending))]]
        /\ IF WantsToWrite(sockets'[i]) THEN UNCHANGED revents ELSE Seen(i, "OUT")
        /\ UNCHANGED server_open

\* The client has closed its end.
SendError(i) ==
    /\ life[sockets[i].conn] = "closed"
    /\ CloseSocket(i)
    /\ UNCHANGED down

Send(i) ==
    /\ At(i, "OUT") /\ i \in Slots
    /\ SendLater(i) \/ SendSome(i) \/ SendError(i)
    /\ UNCHANGED <<up, life, backlog, consuming, executed>>

\* POLLHUP, when what has been received is dealt with.
HangUpEvent(i) ==
    /\ At(i, "HUP") /\ i \in Slots
    /\ CloseSocket(i)
    /\ UNCHANGED <<up, down, life, backlog, consuming, executed>>

-----------------------------------------------------------------------------
Server ==
    \/ Poll \/ Accept
    \/ \E i \in Slots :
         \/ HangUp(i) \/ ReceiveMessage(i) \/ ReceiveData(i)
         \/ Consume(i) \/ Send(i) \/ HangUpEvent(i)
=============================================================================
