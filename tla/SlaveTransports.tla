-------------------------- MODULE SlaveTransports --------------------------
(***************************************************************************)
(* The two ends the simulator serves Modbus from, sim/modbus_tcp_server    *)
(* and sim/rtu_slave_port, with the bytes of a request and of an answer    *)
(* (sim/modbus_dispatch, core/mbap).                                       *)
(*                                                                         *)
(* The TCP server has an accept thread, a detached thread for every        *)
(* connection, and whoever closes it; the RTU port is a buffer, a silence  *)
(* timer and one answer that may be delayed.  up and down are the bytes    *)
(* under way to and from the master on its present connection.             *)
(***************************************************************************)
EXTENDS StreamAccumulator, RegisterBank

CONSTANTS
    MaxConns,   \* bound: connections the master makes
    Effects     \* what linkEffect may tell a transport: subset of AllEffects

Conns == 1 .. MaxConns
Accepting == 0
Ended == -1
AllEffects == {"none", "drop", "corrupt", "delay"}
ASSUME EffectAssumption == Effects \subseteq AllEffects /\ MaxConns \in Nat

VARIABLES
    conn,      \* the master's connection, 0 when it has none
    up, down,  \* bytes under way
    running,   \* m_running
    listening, \* m_listenFd is open
    acceptor,  \* the accept thread: Accepting, a connection it has got, or Ended
    loop,      \* the thread of a connection
    fds,       \* connections whose socket the server has open
    clients,   \* m_clients
    reply,     \* the answer a thread is about to send
    closer,    \* how far close() has come
    rx,        \* RtuSlavePort::m_rxBuf
    pending    \* RtuSlavePort::m_pendingResp

tcpVars == <<running, listening, acceptor, loop, fds, clients, reply, closer>>
rtuVars == <<rx, pending>>

LoopStates == {"none", "backlog", "reset", "top", "read", "reply", "leave", "ended"}

TransportInit ==
    /\ conn = 0 /\ up = <<>> /\ down = <<>>
    /\ running = TRUE /\ listening = TRUE /\ acceptor = Accepting
    /\ loop = [c \in Conns |-> "none"] /\ reply = [c \in Conns |-> <<>>]
    /\ fds = {} /\ clients = {}
    /\ closer = "open"
    /\ rx = <<>> /\ pending = <<>>

-----------------------------------------------------------------------------
(* Requests and answers as bytes *)

(* How dispatchFull reads a request. *)
PduIn(b) ==
    LET word(at) == IF Len(b) > at THEN ReadU16(b, at) ELSE 0
        of(qty, vals, sized) ==
            [fc |-> b[1], addr |-> word(2), qty |-> qty, vals |-> vals, sized |-> sized]
        whole(n) == Len(b) >= 7 /\ b[6] = n /\ Len(b) = 6 + n
        data == SubSeq(b, 7, Len(b))
    IN  CASE b[1] = 5 -> of(1, <<IF word(4) = 65280 THEN 1 ELSE IF word(4) = 0 THEN 0 ELSE 2>>,
                            Len(b) = 5)
          [] b[1] = 6 -> of(1, <<word(4)>>, Len(b) = 5)
          [] b[1] = 15 -> IF whole((word(4) + 7) \div 8)
                          THEN of(word(4), CoilsIn(data, word(4)), TRUE)
                          ELSE of(word(4), <<>>, FALSE)
          [] b[1] = 16 -> of(word(4), WordsIn(data), whole(2 * word(4)))
          [] OTHER -> of(word(4), <<>>, Len(b) = 5)

AnswerPdu(b, ans) ==
    IF ans.exc # 0 THEN <<128 + b[1], ans.exc>>
    ELSE CASE b[1] \in {1, 2} -> <<b[1], Len(CoilBytes(ans.vals))>> \o CoilBytes(ans.vals)
           [] b[1] \in {3, 4} -> <<b[1], 2 * Len(ans.vals)>> \o WordBytes(ans.vals)
           [] b[1] \in {5, 6} -> b
           [] b[1] \in {15, 16} -> SubSeq(b, 1, 5)

(* The handler of the emulator. *)
Handled(unit, b) ==
    IF unit \in Slaves THEN AnswerPdu(b, AnswerFrom(bank[unit], PduIn(b)))
    ELSE AnswerPdu(b, AnswerOfStranger(PduIn(b)))

(* What the handler leaves in the register bank. *)
Carried(unit, b) ==
    IF unit \in Slaves /\ b[1] \in WriteCodes /\ ExceptionOf(PduIn(b)) = 0
    THEN Publish(unit, Written(bank[unit], PduIn(b))) ELSE UNCHANGED bank

(* corruptByte *)
Flipped(b, at) == [b EXCEPT ![at] = 255 - @]
Touched(b, effect) == IF effect = "corrupt" /\ Len(b) > 3 THEN Flipped(b, 4) ELSE b

-----------------------------------------------------------------------------
(* ModbusTcpServer *)

(* accept returns a connection, or fails once the socket is closed. *)
AcceptOne(c) ==
    /\ acceptor = Accepting
    /\ IF listening
       THEN loop[c] = "backlog" /\ acceptor' = c /\ fds' = fds \cup {c}
       ELSE acceptor' = Ended /\ UNCHANGED fds
    /\ UNCHANGED <<running, listening, loop, clients, reply, closer>>

(* It is entered in m_clients and gets a thread. *)
SpawnClient(c) ==
    /\ acceptor = c
    /\ clients' = clients \cup {c}
    /\ loop' = [loop EXCEPT ![c] = "top"]
    /\ acceptor' = IF running THEN Accepting ELSE Ended
    /\ UNCHANGED <<running, listening, fds, reply, closer>>

(* Mutant: a thread does not look whether the server is still running. *)
LoopTopForEver(c) ==
    /\ loop[c] = "top"
    /\ loop' = [loop EXCEPT ![c] = "read"]
    /\ UNCHANGED <<running, listening, acceptor, fds, clients, reply, closer>>

(* clientLoop: while (m_running), ... *)
LoopTop(c) ==
    /\ loop[c] = "top"
    /\ loop' = [loop EXCEPT ![c] = IF running THEN "read" ELSE "leave"]
    /\ UNCHANGED <<running, listening, acceptor, fds, clients, reply, closer>>

(* ... a request is received in whole and handled, ...  A header with      *)
(* another protocol or a length out of range ends the connection; the      *)
(* master sends none, so that is left out.                                 *)
Connected(c) == conn = c /\ c \in fds
ReadRequest(c) ==
    /\ loop[c] = "read"
    /\ IF Connected(c)
       THEN /\ Len(up) >= 7 /\ Len(up) >= 6 + ReadU16(up, 5)
            /\ LET n == 6 + ReadU16(up, 5)
                   pdu == SubSeq(up, 8, n)
               IN  /\ up' = SubSeq(up, n + 1, Len(up))
                   /\ Carried(up[7], pdu)
                   /\ reply' = [reply EXCEPT ![c] =
                                  [tid |-> ReadU16(up, 1), unit |-> up[7], pdu |-> Handled(up[7], pdu)]]
            /\ loop' = [loop EXCEPT ![c] = "reply"]
       ELSE loop' = [loop EXCEPT ![c] = "leave"] /\ UNCHANGED <<up, bank, reply>>
    /\ UNCHANGED <<running, listening, acceptor, fds, clients, closer>>

(* ... and answered, as the faults on the link have it.  A delay is time   *)
(* spent before this step.                                                 *)
SendReply(c, effect) ==
    LET r == reply[c]
        out == Framed("Tcp", r.tid, r.unit, Touched(r.pdu, effect))
    IN  /\ loop[c] = "reply"
        /\ IF effect = "drop" \/ ~Connected(c)
           THEN loop' = [loop EXCEPT ![c] = "leave"] /\ UNCHANGED down
           ELSE loop' = [loop EXCEPT ![c] = "top"] /\ down' = down \o out
        /\ reply' = [reply EXCEPT ![c] = <<>>]
        /\ UNCHANGED <<running, listening, acceptor, fds, clients, closer>>

(* The thread leaves m_clients and closes its socket. *)
LeaveClients(c) ==
    /\ loop[c] = "leave"
    /\ clients' = clients \ {c} /\ fds' = fds \ {c}
    /\ loop' = [loop EXCEPT ![c] = "ended"]
    /\ UNCHANGED <<running, listening, acceptor, reply, closer>>

(* close, step by step. *)
CloseBegins ==
    /\ closer = "open"
    /\ closer' = "drop" /\ running' = FALSE
    /\ UNCHANGED <<listening, acceptor, loop, fds, clients, reply>>
DropAllClients ==
    /\ closer = "drop"
    /\ closer' = "listen"
    /\ fds' = fds \ clients /\ clients' = {}
    /\ UNCHANGED <<running, listening, acceptor, loop, reply>>
CloseListen ==
    /\ closer = "listen"
    /\ closer' = "join" /\ listening' = FALSE
    /\ loop' = [c \in Conns |-> IF loop[c] = "backlog" /\ acceptor # c THEN "reset" ELSE loop[c]]
    /\ UNCHANGED <<running, acceptor, fds, clients, reply>>
JoinAcceptor ==
    /\ closer = "join" /\ acceptor = Ended
    /\ closer' = "closed"
    /\ UNCHANGED <<running, listening, acceptor, loop, fds, clients, reply>>

-----------------------------------------------------------------------------
(* RtuSlavePort *)

(* onReadyRead: bytes that come before the line is silent belong together. *)
PortReads(n) ==
    /\ rx' = rx \o SubSeq(up, 1, n)
    /\ up' = SubSeq(up, n + 1, Len(up))
    /\ UNCHANGED <<down, bank, pending>>

Accepts(frame) == Len(frame) >= 4 /\ Crc16ModbusVerify(frame)

(* onFrameTimeout and processFrame *)
PortTimeout(effect) ==
    LET pdu == SubSeq(rx, 2, Len(rx) - 2)
        out == Framed("Rtu", 0, rx[1], Touched(Handled(rx[1], pdu), effect))
        sent == IF effect = "corrupt" THEN Flipped(out, Len(out) - 1) ELSE out
    IN  /\ rx # <<>>
        /\ rx' = <<>>
        /\ IF Accepts(rx)
           THEN /\ Carried(rx[1], pdu)
                /\ down' = IF effect \in {"drop", "delay"} THEN down ELSE down \o sent
                /\ pending' = IF effect = "delay" THEN sent ELSE pending
           ELSE UNCHANGED <<bank, down, pending>>
        /\ UNCHANGED up

(* onSendDelayTimeout *)
PortSendsLate ==
    /\ pending # <<>>
    /\ down' = down \o pending
    /\ pending' = <<>>
    /\ UNCHANGED <<up, bank, rx>>
=============================================================================
