---------------------------- MODULE ModbusLink ----------------------------
(***************************************************************************)
(* The application's ModbusEngine at one end of a link and the simulator's *)
(* transports at the other, byte by byte: requests are built and answers   *)
(* taken apart as the code does, the bytes of an answer arrive in pieces   *)
(* of any size, connections are lost between any two of them, and the      *)
(* faults of the simulator act on the answers.                             *)
(***************************************************************************)
EXTENDS SlaveTransports

CONSTANTS
    MaxReqs,      \* bound: requests the master makes
    MaxAtClose,   \* bound: requests made when the server is closed
    RtuRequests,  \* bound: further requests, made over RTU only
    Pieces,       \* bound: sizes of the pieces answers arrive in, apart from all there is
    PortPieces    \* bound: the same for requests at the RTU port

ASSUME LinkAssumption ==
    /\ MaxReqs \in Nat /\ MaxReqs <= 65534 /\ MaxAtClose \in Nat
    /\ Pieces \subseteq Nat /\ 1 \in Pieces

Word == 0 .. 65535

(* A request has words, one quantity for a single write, and no more       *)
(* values than its byte count can say.                                     *)
ASSUME MasterAssumption ==
    \A r \in Requests :
        /\ r.unit \in Int
        /\ r.pdu = [fc |-> r.pdu.fc, addr |-> r.pdu.addr, qty |-> r.pdu.qty,
                    vals |-> r.pdu.vals, sized |-> TRUE]
        /\ r.pdu.fc \in Nat /\ r.pdu.addr \in Word /\ r.pdu.qty \in Word
        /\ \A i \in DOMAIN r.pdu.vals : r.pdu.vals[i] \in Word
        /\ r.pdu.fc \in {5, 6} => r.pdu.qty = 1
        /\ r.pdu.fc = 15 => r.pdu.qty <= 2040 /\ \A i \in DOMAIN r.pdu.vals : r.pdu.vals[i] \in {0, 1}
        /\ r.pdu.fc = 16 => r.pdu.qty <= 127

Refused(req) == req.unit \notin Slaves \/ ExceptionOf(req.pdu) # 0

(* The bytes of the answer to a request. *)
AnswerLength(req) ==
    IF Refused(req) THEN 9
    ELSE CASE req.pdu.fc \in {1, 2} -> 9 + (req.pdu.qty + 7) \div 8
           [] req.pdu.fc \in {3, 4} -> 9 + 2 * req.pdu.qty
           [] OTHER -> 12

(* The answers to all requests have room in the accumulator, though nobody *)
(* takes one out before the last has come.                                 *)
ASSUME RoomAssumption ==
    \E longest \in 1 .. kCapacity :
        /\ MaxReqs * longest <= kCapacity
        /\ \A r \in Requests : Buildable(r.unit, r.pdu) => AnswerLength(r) <= longest

VARIABLES
    transport,  \* "Tcp" or "Rtu"
    acc,        \* m_accumulator
    inFlight,   \* m_inFlight, by transaction id
    asked,      \* the requests made, oldest first
    said,       \* history: answers sent, those with a wrong CRC left out
    got,        \* history: responseParsed, with the request it was matched to
    torn,       \* history: a connection was lost in the middle of an answer
    spoiled     \* history: bytes of answers were lost, or a CRC was wrong

masterVars == <<acc, inFlight, asked, got>>
linkVars == <<transport, conn, up, down, tcpVars, rtuVars, bank, call,
          acc, inFlight, asked, said, got, torn, spoiled>>

Tcp == transport = "Tcp"
NoneInFlight == [t \in {} |-> 0]

LinkInit ==
    /\ transport \in {"Tcp", "Rtu"}
    /\ BankInit /\ TransportInit
    /\ acc = Cleared /\ inFlight = NoneInFlight /\ asked = <<>>
    /\ said = <<>> /\ got = <<>> /\ torn = FALSE /\ spoiled = FALSE

-----------------------------------------------------------------------------
(* The master *)

(* TransactionIdAllocator::allocate *)
LowestFree == CHOOSE t \in 1 .. MaxReqs + 1 :
                 t \notin DOMAIN inFlight /\ \A s \in 1 .. t - 1 : s \in DOMAIN inFlight

(* m_inFlight with a request entered; an id that is there keeps its own.   *)
Registered(tid, req) ==
    [t \in DOMAIN inFlight \cup {tid} |-> IF t \in DOMAIN inFlight THEN inFlight[t] ELSE req]

(* writeRequest: a request that cannot be built gives its id back.  One    *)
(* made without a connection, whose id stays taken and of which nothing is *)
(* sent, is left to PollLink.                                              *)
WriteRequest(req) ==
    LET tid == IF Tcp THEN LowestFree ELSE 0
        frame == BuildRequest(transport, tid, req.unit, req.pdu)
    IN  /\ Len(asked) < MaxReqs
        /\ Tcp => conn # 0 /\ req \in Requests
        /\ asked' = Append(asked, req)
        /\ up' = up \o frame
        /\ inFlight' = IF Tcp /\ frame # <<>> THEN Registered(tid, req) ELSE inFlight
        /\ UNCHANGED <<transport, conn, down, tcpVars, rtuVars, bank, call, acc, said, got, torn, spoiled>>

(* A frame is parsed, and the response matched and reported. *)
ReportOf(st, f) ==
    LET resp == IF Tcp THEN ParseTcpResponse(f) ELSE ParseRtuResponse(f)
    IN  IF resp = <<>> \/ (Tcp /\ resp[1].tid \notin DOMAIN st.inFlight) THEN st
        ELSE IF ~Tcp THEN [st EXCEPT !.got = Append(@, [resp |-> resp[1]])]
        ELSE [got |-> Append(st.got, [resp |-> resp[1], req |-> st.inFlight[resp[1].tid]]),
              inFlight |-> [t \in DOMAIN st.inFlight \ {resp[1].tid} |-> st.inFlight[t]]]

(* So are all frames in turn. *)
ReportsOf(frames) ==
    FoldLeft(LAMBDA st, f : ReportOf(st, f), [inFlight |-> inFlight, got |-> got], frames)

(* onBytesReceived *)
Receive(n, stale) ==
    /\ LET r == ExtractAll(Appended(acc, SubSeq(down, 1, n)), Tcp, stale)
           rep == ReportsOf(r.frames)
       IN  acc' = r.acc /\ inFlight' = rep.inFlight /\ got' = rep.got
    /\ down' = SubSeq(down, n + 1, Len(down))
    /\ UNCHANGED <<transport, conn, up, tcpVars, rtuVars, bank, call, asked, said, torn, spoiled>>

Connect(c) ==
    /\ Tcp /\ conn = 0 /\ listening
    /\ loop[c] = "none" /\ \A d \in 1 .. c - 1 : loop[d] # "none"
    /\ conn' = c
    /\ loop' = [loop EXCEPT ![c] = "backlog"]
    /\ UNCHANGED <<transport, up, down, running, listening, acceptor, fds, clients, reply, closer,
                   rtuVars, bank, call, masterVars, said, torn, spoiled>>

(* onConnectionChanged(false) clears the ids, and not the accumulator. *)
ForgetRequests == inFlight' = NoneInFlight

(* The connection is lost, or the server has closed it. *)
Disconnect ==
    /\ conn # 0
    /\ conn' = 0 /\ up' = <<>> /\ down' = <<>>
    /\ ForgetRequests
    /\ torn' = (torn \/ acc.buf # <<>>)
    /\ spoiled' = (spoiled \/ acc.buf # <<>> \/ down # <<>>)
    /\ UNCHANGED <<transport, tcpVars, rtuVars, bank, call, acc, asked, said, got>>

-----------------------------------------------------------------------------
(* The simulator *)

(* The answer that this step puts on the line. *)
Says(bad) ==
    LET b == SubSeq(down', Len(down) + 1, Len(down'))
    IN  said' = IF b = <<>> \/ bad THEN said
                ELSE Append(said, IF Tcp THEN [tid |-> ReadU16(b, 1), unit |-> b[7],
                                               pdu |-> SubSeq(b, 8, Len(b))]
                                  ELSE [tid |-> 0, unit |-> b[1], pdu |-> SubSeq(b, 2, Len(b) - 2)])

(* Steps of the server that neither read nor answer. *)
ServerQuietStep(A) ==
    /\ Tcp /\ A
    /\ UNCHANGED <<transport, conn, up, down, rtuVars, bank, call, masterVars, said, torn, spoiled>>

Accept == \E c \in Conns : ServerQuietStep(AcceptOne(c))
Spawn == \E c \in Conns : ServerQuietStep(SpawnClient(c))
Top(c) == ServerQuietStep(LoopTop(c))
Leave(c) == ServerQuietStep(LeaveClients(c))
CloseServer == Len(asked) =< MaxAtClose /\ ServerQuietStep(CloseBegins)
Closing == ServerQuietStep(DropAllClients) \/ ServerQuietStep(CloseListen) \/ ServerQuietStep(JoinAcceptor)

Serve(c) ==
    /\ Tcp
    /\ ReadRequest(c)
    /\ UNCHANGED <<transport, conn, down, rtuVars, call, masterVars, said, torn, spoiled>>

Answer(c, effect) ==
    /\ Tcp
    /\ SendReply(c, effect)
    /\ Says(FALSE)
    /\ UNCHANGED <<transport, conn, up, rtuVars, bank, call, masterVars, torn, spoiled>>

PortRead(n) ==
    /\ ~Tcp
    /\ PortReads(n)
    /\ UNCHANGED <<transport, conn, tcpVars, call, masterVars, said, torn, spoiled>>

PortAnswer(effect) ==
    /\ ~Tcp
    /\ PortTimeout(effect)
    /\ Says(effect = "corrupt")
    /\ spoiled' = (spoiled \/ effect = "corrupt")
    /\ UNCHANGED <<transport, conn, tcpVars, call, masterVars, torn>>

PortLate ==
    /\ ~Tcp
    /\ PortSendsLate
    /\ Says(FALSE)
    /\ UNCHANGED <<transport, conn, tcpVars, call, masterVars, torn, spoiled>>

(* How many of the bytes under way may arrive at once. *)
PiecesOf(bytes, sizes) == (sizes \cup {Len(bytes)}) \cap 1 .. Len(bytes)

LinkNext ==
    \/ \E req \in Requests \cup RtuRequests : WriteRequest(req)
    \/ \E n \in PiecesOf(down, Pieces), stale \in {0, 128} : Receive(n, stale)
    \/ \E c \in Conns : Connect(c)
    \/ Disconnect
    \/ Accept \/ Spawn \/ CloseServer \/ Closing
    \/ \E c \in Conns : Top(c) \/ Leave(c) \/ Serve(c)
    \/ \E c \in Conns, effect \in Effects : Answer(c, effect)
    \/ \E n \in PiecesOf(up, PortPieces) : PortRead(n)
    \/ \E effect \in Effects : PortAnswer(effect)
    \/ PortLate

(* The threads of the server run, and close() is not interrupted. *)
LinkFairness ==
    /\ WF_linkVars(Accept \/ Spawn) /\ WF_linkVars(Closing)
    /\ \A c \in Conns : /\ WF_linkVars(Top(c) \/ Leave(c) \/ Serve(c))
                        /\ WF_linkVars(\E effect \in Effects : Answer(c, effect))

LinkSpec == LinkInit /\ [][LinkNext]_linkVars /\ LinkFairness

-----------------------------------------------------------------------------
(* A response is what an answer on the line said. *)
Conveys(resp, s) ==
    /\ resp.tid = s.tid /\ resp.unit = s.unit /\ resp.fc = s.pdu[1]
    /\ resp.fc >= 128 => resp.exc = s.pdu[2]
    /\ resp.fc \in {1, 2} => resp.vals = SubSeq(s.pdu, 3, Len(s.pdu))
    /\ resp.fc \in {3, 4} => WordBytes(resp.vals) = SubSeq(s.pdu, 3, Len(s.pdu))

(* Every response is an answer the device sent, each at most once and in   *)
(* their order, with its data, however the bytes were cut into pieces and  *)
(* whatever came with a wrong CRC: append, tryExtractFrame, parse.         *)
NothingInvented ==
    \E f \in [DOMAIN got -> DOMAIN said] :
        \A i \in DOMAIN got : /\ Conveys(got[i].resp, said[f[i]])
                              /\ \A j \in 1 .. i - 1 : f[j] < f[i]

(* The same while no connection is lost in the middle of an answer.        *)
ResponsesAreAnswers == ~torn => NothingInvented

(* While nothing was lost or damaged, no complete answer waits in the      *)
(* accumulator for bytes to come: what has arrived has been reported.      *)
NothingHeldBack ==
    ~spoiled /\ down = <<>> => acc.buf = <<>> /\ Len(got) = Len(said)

Fits(resp, req) ==
    /\ resp.unit = req.unit
    /\ resp.fc = req.pdu.fc + IF Refused(req) THEN 128 ELSE 0
    /\ resp.fc \in {3, 4} => Len(resp.vals) = req.pdu.qty
    /\ resp.fc \in {1, 2} => Len(resp.vals) = (req.pdu.qty + 7) \div 8

(* From the request that was made to the response it is given, through     *)
(* both codecs: unit and function are the same, it is an exception exactly *)
(* when the request cannot be served, and a read has as many values as     *)
(* were asked for.  RTU does not say to which request a response belongs.  *)
AnswersFitRequests ==
    ~torn => \A i \in DOMAIN got :
                IF Tcp THEN Fits(got[i].resp, got[i].req)
                ELSE \E n \in DOMAIN asked : Fits(got[i].resp, asked[n])

(* After close() every thread of a connection ends and its socket is       *)
(* closed, the one accepted while the others were being dropped too.       *)
ServerShutsDown ==
    (closer = "closed") ~> (fds = {} /\ \A c \in Conns : loop[c] \in {"none", "reset", "ended"})
=============================================================================
