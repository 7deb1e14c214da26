----------------------------- MODULE MCConsole -----------------------------
(***************************************************************************)
(* Four parts of the user interface that share no state: the session of    *)
(* the user, the overview on the data bus, the chart, and the alarm        *)
(* centre.  `part' tells which of them moves, so that their states add up  *)
(* and do not multiply.                                                    *)
(***************************************************************************)
EXTENDS UserSession, DataBus, RealtimePlot, AlarmCenter

CONSTANT Parts

VARIABLE part

consoleVars == <<part, vars, busVars, plotVars, centerVars>>

(* The built-in names and two passwords; at first users.json is missing or *)
(* holds an Admin who has to change the password he was given.             *)
MCDefaults ==
    [n \in Names |-> [password |-> "given", mustChange |-> FALSE,
                      role |-> IF n = "admin" THEN "Admin" ELSE "Operator"]]

MCFiles ==
    {[n \in Names |-> NoUser],
     [n \in Names |-> IF n = "admin" THEN [password |-> "given", mustChange |-> TRUE, role |-> "Admin"]
                      ELSE NoUser]}

(* One rack with two classified points, and a point of no rack. *)
MCRackOf == [p \in BusPoints |-> IF p = "meter" THEN 0 ELSE 1]
MCKindOf == [p \in BusPoints |-> CASE p = "soc" -> "Soc" [] p = "temp" -> "ClusterMaxTemp"
                                   [] OTHER -> "None"]

MCSamples == {<<"soc", 50>>, <<"soc", 120>>, <<"temp", 30>>, <<"meter", 7>>}

(* Two channels and a point that gets none. *)
MCReadings == {[point |-> p, value |-> 0] : p \in {"a", "b", "c"}}

(* A critical and another alarm; the boxes as they begin, and set to one kind. *)
MCAlarms == {[point |-> "soc", level |-> "Warning"], [point |-> "temp", level |-> "Critical"]}
(* Nothing, or an alarm that was active when the program was closed. *)
MCEarlierRows ==
    {<<>>, <<[id |-> 1, run |-> "earlier", point |-> "soc", level |-> "Warning",
              status |-> "Active", age |-> MaxAge, month |-> 1]>>}
MCFilters == {[level |-> All, status |-> All, point |-> All, range |-> DefaultRange],
              [level |-> "Critical", status |-> "Active", point |-> "temp", range |-> 0]}

MCInit ==
    /\ part \in Parts
    /\ Init /\ BusInit /\ PlotInit /\ CenterInit
    /\ (part # "session" => users = MCDefaults)
    /\ (part # "center" => records = <<>>)

InSession(A) == part = "session" /\ A /\ UNCHANGED <<part, busVars, plotVars, centerVars>>
InOverview(A) == part = "overview" /\ A /\ UNCHANGED <<part, vars, plotVars, centerVars>>
InPlot(A) == part = "plot" /\ A /\ UNCHANGED <<part, vars, busVars, centerVars>>
InCenter(A) == part = "center" /\ A /\ UNCHANGED <<part, vars, busVars, plotVars>>

MCNext == InSession(Next) \/ InOverview(BusNext) \/ InPlot(PlotNext) \/ InCenter(CenterNext)

(* Time passes, and the timers of the window and of the views run. *)
MCFairness ==
    /\ WF_consoleVars(InSession(ClockTick)) /\ WF_consoleVars(InSession(StatusTick))
    /\ WF_consoleVars(InOverview(RefreshUi))
    /\ WF_consoleVars(InPlot(Repaint))
    /\ WF_consoleVars(InCenter(SecondPasses)) /\ WF_consoleVars(InCenter(DebounceTimeout))

MCSpec == MCInit /\ [][MCNext]_consoleVars /\ MCFairness

(* What the views have been given comes to the screen: the overview's next *)
(* refresh and the chart's timer see to it, also after the page was hidden *)
(* (onRefreshUi, showEvent, hideEvent); the row of an alarm comes into a   *)
(* query of the alarm centre unless the next alarm puts it off             *)
(* (onAlarmTriggered, m_debounceTimer).                                    *)
ViewsCatchUp == OverviewCatchesUp /\ PlotCatchesUp /\ AlarmsCatchUp
=============================================================================
