---------------------------- MODULE MCModbusLink ----------------------------
(***************************************************************************)
(* Two parts that share no state: the bytes between the engine and the     *)
(* simulated slaves, and the connection life of a TCP channel.  `part'     *)
(* tells which of them moves, so that their states add up and do not       *)
(* multiply.                                                               *)
(***************************************************************************)
EXTENDS ModbusLink, TcpChannel

CONSTANT Parts

VARIABLE part

allVars == <<part, linkVars, channelVars>>

(* One slave; a read, a write and a read of a slave there is not.  Over    *)
(* RTU also coils, several registers and a request that is not built.      *)

Pdu(fc, addr, qty, vals) == [fc |-> fc, addr |-> addr, qty |-> qty, vals |-> vals, sized |-> TRUE]

MCRequests ==
    {[unit |-> 1, pdu |-> Pdu(3, 0, 1, <<>>)],
     [unit |-> 1, pdu |-> Pdu(6, 0, 1, <<773>>)],
     [unit |-> 2, pdu |-> Pdu(4, 0, 1, <<>>)]}

MCRtuRequests ==
    {[unit |-> 1, pdu |-> Pdu(1, 0, 2, <<>>)],
     [unit |-> 1, pdu |-> Pdu(15, 0, 2, <<1, 1>>)],
     [unit |-> 1, pdu |-> Pdu(16, 0, 2, <<773, 128>>)],
     [unit |-> 0, pdu |-> Pdu(3, 0, 1, <<>>)]}

(* Defaults, a maximum that is not a multiple, equal values, base above max. *)
MCConfigs ==
    {[base |-> 0, max |-> 0], [base |-> 2, max |-> 5],
     [base |-> 3, max |-> 3], [base |-> 4, max |-> 2]}

MCInit == part \in Parts /\ ChannelInit /\ LinkInit /\ (part # "stream" => transport = "Tcp")

InStream(A) == part = "stream" /\ A /\ UNCHANGED <<part, channelVars>>
InChannel(A) == part = "channel" /\ A /\ UNCHANGED <<part, linkVars>>

MCNext == InStream(LinkNext) \/ InChannel(ChannelNext)

(* What the two specifications assume of their parts. *)
MCFairness ==
    /\ WF_allVars(InStream(Accept \/ Spawn)) /\ WF_allVars(InStream(Closing))
    /\ \A c \in Conns : /\ WF_allVars(InStream(Top(c) \/ Leave(c) \/ Serve(c)))
                        /\ WF_allVars(InStream(\E effect \in Effects : Answer(c, effect)))
    /\ WF_allVars(InChannel(AttemptReconnect))
    /\ WF_allVars(InChannel(OnConnected \/ \E err \in Errors : OnErrorOccurred(err)))
    /\ SF_allVars(InChannel(OnConnected))

MCSpec == MCInit /\ [][MCNext]_allVars /\ MCFairness
=============================================================================
