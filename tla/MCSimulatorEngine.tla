------------------------- MODULE MCSimulatorEngine -------------------------
(* Two battery racks with a temperature, an alarm word and a cell voltage  *)
(* the physics does not write.                                             *)
EXTENDS SimulatorEngine

MCPoints ==
    UNION {{[slave |-> s, reg |-> 0, table |-> "holding", evolved |-> TRUE, base |-> 1,
             alarm |-> FALSE, name |-> "MaxTemp", cell |-> -1],
            [slave |-> s, reg |-> 1, table |-> "holding", evolved |-> FALSE, base |-> 0,
             alarm |-> TRUE, name |-> "AlarmWord", cell |-> -1],
            [slave |-> s, reg |-> 0, table |-> "input", evolved |-> FALSE, base |-> 0,
             alarm |-> FALSE, name |-> "CellV", cell |-> 0]} : s \in Slaves}

Fault(type, scope, slave, target, ramp, duration) ==
    [slave |-> slave, reg |-> 0, type |-> type, scope |-> scope, target |-> target,
     ramp |-> ramp, duration |-> duration, delay |-> 0]

MCSpecs ==
    {Fault("OverTemp", "POINT", 1, 3, 2, 1)}

Step(t, action, fault, scope, slave, name, count) ==
    [slave |-> slave, name |-> name, scope |-> scope, target |-> 2, ramp |-> 2,
     duration |-> 0, t |-> t, action |-> action, fault |-> fault, count |-> count]

MCDrillFiles ==
    {[readable |-> FALSE, steps |-> <<>>],
     [readable |-> TRUE, steps |->
        <<Step(1, "RECOVER", "OverTemp", "cluster", 0, "MaxTemp", 1),
          Step(0, "INJECT", "OverTemp", "cluster", 0, "MaxTemp", 1)>>],
     [readable |-> TRUE, steps |->
        <<Step(0, "INJECT", "CellVoltage", "cell", 1, "CellV", 2)>>],
     [readable |-> TRUE, steps |->
        <<Step(0, "RECOVER", "OverTemp", "cluster", 1, "MaxTemp", 1),
          Step(0, "WAIT", "OverTemp", "cluster", 1, "MaxTemp", 1)>>]}

Pdu(fc, addr, qty, vals) == [fc |-> fc, addr |-> addr, qty |-> qty, vals |-> vals, sized |-> TRUE]

MCRequests == {[unit |-> 1, pdu |-> Pdu(6, 0, 1, <<5>>)]}
=============================================================================
