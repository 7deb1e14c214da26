------------------------------ MODULE DataBus ------------------------------
(***************************************************************************)
(* datahub/DataBus with its subscribers of the user interface: the station *)
(* overview, in full, and the chart, whose plot is in RealtimePlot.  All   *)
(* broadcasts come from the consume timer of the main thread, where the    *)
(* views live too, so a broadcast reaches all its targets in one step.     *)
(* A view subscribes where it is constructed and unsubscribes where it is  *)
(* destroyed; a point that is not in any rack has rack 0.                  *)
(***************************************************************************)
EXTENDS Integers, Sequences, FiniteSets, FiniteSetsExt

CONSTANTS
    BusPoints,      \* the enabled points
    SinkKeys,       \* what the sink subscribes to: points or the wildcard
    Samples,        \* <<point, value>> of a broadcast
    RackOf,         \* rack named by the point's name, or 0
    KindOf,         \* ovrClassifyName: "Soc", "ClusterMaxTemp" or "None"
    CounterRange,   \* values of an unsigned counter
    MaxHandles,     \* bound: subscriptions made
    MaxBroadcasts   \* bound: samples

ASSUME BusAssumption ==
    /\ RackOf \in [BusPoints -> Nat]
    /\ KindOf \in [BusPoints -> {"Soc", "ClusterMaxTemp", "None"}]
    /\ \A p, q \in BusPoints :
          RackOf[p] = RackOf[q] /\ KindOf[p] = KindOf[q] /\ KindOf[p] # "None" => p = q
    /\ CounterRange \in Nat \ {0} /\ MaxHandles \in Nat /\ MaxBroadcasts \in Nat

VARIABLES
    entries,        \* m_entries
    handleIndex,    \* m_handleIndex
    handleOf,       \* m_handle of a subscriber, 0 when there is none
    nextHandle,     \* m_nextHandle
    cache,          \* OverviewSubscriber::m_cache
    count,          \* OverviewSubscriber::m_count
    shown,          \* what the overview shows since its last refresh
    current         \* the item of the tree and the summary below it

busVars == <<entries, handleIndex, handleOf, nextHandle, cache, count, shown, current>>

Subscribers == {"sink", "overview", "chart"}
Wildcard == "wildcard"

Station == <<"station", 0>>
Racks == {RackOf[p] : p \in BusPoints} \ {0}
Items == {Station} \cup {<<"rack", r>> : r \in Racks}
         \cup {<<"point", p>> : p \in {q \in BusPoints : RackOf[q] # 0}}

-----------------------------------------------------------------------------
(* The bus.                                                                *)

Subscribe(key, sub) ==
    /\ nextHandle <= MaxHandles
    /\ handleOf[sub] = 0
    /\ entries' = Append(entries, [point |-> key, sub |-> sub])
    /\ handleIndex' = [h \in DOMAIN handleIndex \cup {nextHandle} |->
                          IF h = nextHandle THEN Len(entries) + 1 ELSE handleIndex[h]]
    /\ handleOf' = [handleOf EXCEPT ![sub] = nextHandle]
    /\ nextHandle' = nextHandle + 1

(* Mutant: the index of the entry that is moved stays as it was. *)
UnsubscribeUnrepaired(sub) ==
    LET h    == handleOf[sub]
        idx  == handleIndex[h]
        last == Len(entries)
    IN  /\ h # 0
        /\ entries' = SubSeq([entries EXCEPT ![idx] = entries[last]], 1, last - 1)
        /\ handleIndex' = [g \in DOMAIN handleIndex \ {h} |-> handleIndex[g]]
        /\ handleOf' = [handleOf EXCEPT ![sub] = 0]
        /\ UNCHANGED nextHandle

(* unsubscribeImpl_locked: the last entry takes the place that is free. *)
Unsubscribe(sub) ==
    LET h    == handleOf[sub]
        idx  == handleIndex[h]
        last == Len(entries)
    IN  /\ h # 0
        /\ entries' = SubSeq([entries EXCEPT ![idx] = entries[last]], 1, last - 1)
        /\ handleIndex' = [g \in DOMAIN handleIndex \ {h} |->
                              IF handleIndex[g] = last THEN idx ELSE handleIndex[g]]
        /\ handleOf' = [handleOf EXCEPT ![sub] = 0]
        /\ UNCHANGED nextHandle

(* The subscribers a sample goes to. *)
Targets(p) ==
    {entries[i].sub : i \in {j \in DOMAIN entries : entries[j].point \in {p, Wildcard}}}

-----------------------------------------------------------------------------
(* OverviewWidget.  An optional value is a set of at most one.             *)

Cached(c, p) == IF p \in DOMAIN c THEN {c[p]} ELSE {}

RackValue(c, r, kind) ==
    UNION {Cached(c, p) : p \in {q \in BusPoints : RackOf[q] = r /\ KindOf[q] = kind}}

Bounded(v) == IF v < 0 THEN 0 ELSE IF v > 100 THEN 100 ELSE v

(* The station's state of charge: sum and number of the racks that have    *)
(* reported, or what was shown before when none has.                       *)
StationSoc(c, before) ==
    LET ids == {p \in BusPoints : KindOf[p] = "Soc" /\ p \in DOMAIN c}
    IN  IF ids = {} THEN before
        ELSE <<MapThenSumSet(LAMBDA p : Bounded(c[p]), ids), Cardinality(ids)>>

(* updateDrillSummary. *)
Summary(item, c, n, soc) ==
    CASE item[1] = "station" -> <<{Cardinality(Racks)}, {soc}, {n}>>
      [] item[1] = "rack"  -> <<RackValue(c, item[2], "Soc"), RackValue(c, item[2], "ClusterMaxTemp"),
                                {Cardinality({p \in BusPoints : RackOf[p] = item[2]})}>>
      [] item[1] = "point" -> <<{item[2]}, {RackOf[item[2]]}, Cached(c, item[2])>>

(* onRefreshUi with refreshDrillTreeValues, from a subscriber's state. *)
Refreshed(c, n, before) ==
    [soc   |-> StationSoc(c, before.soc),
     cells |-> [r \in Racks |-> RackValue(c, r, "ClusterMaxTemp")],
     racks |-> [r \in Racks |-> <<RackValue(c, r, "Soc"), RackValue(c, r, "ClusterMaxTemp")>>],
     points |-> [p \in BusPoints |-> IF RackOf[p] # 0 THEN Cached(c, p) ELSE {}],
     prev  |-> IF n > 0 THEN n ELSE before.prev,
     rate  |-> IF n > 0 THEN (2 * (n - before.prev)) % CounterRange ELSE before.rate]

NothingShown ==
    [soc |-> <<0, 1>>, cells |-> [r \in Racks |-> {}], racks |-> [r \in Racks |-> <<{}, {}>>],
     points |-> [p \in BusPoints |-> {}], prev |-> 0, rate |-> 0]

Select(item, c, n, soc) == current' = [item |-> item, summary |-> Summary(item, c, n, soc)]

BusInit ==
    /\ entries = <<>>
    /\ handleIndex = <<>>
    /\ handleOf = [s \in Subscribers |-> 0]
    /\ nextHandle = 1
    /\ cache = <<>>
    /\ count = 0
    /\ shown = NothingShown
    /\ current = [item |-> Station, summary |-> Summary(Station, <<>>, 0, <<0, 1>>)]

(* The sink of the application or the chart. *)
OtherSubscribes(sub, key) ==
    /\ Subscribe(key, sub)
    /\ UNCHANGED <<cache, count, shown, current>>

OtherUnsubscribes(sub) ==
    /\ Unsubscribe(sub)
    /\ UNCHANGED <<cache, count, shown, current>>

(* prev, the static counter of the rate, is that of the view before. *)
OverviewOpened ==
    /\ Subscribe(Wildcard, "overview")
    /\ cache' = <<>> /\ count' = 0
    /\ shown' = [NothingShown EXCEPT !.prev = shown.prev]
    /\ Select(Station, <<>>, 0, <<0, 1>>)

OverviewClosed ==
    /\ Unsubscribe("overview")
    /\ UNCHANGED <<cache, count, shown, current>>

(* broadcast; what the sink makes of a sample is in HistoryPath and        *)
(* AlarmEngine.                                                            *)
Broadcast(p, v) ==
    /\ count < MaxBroadcasts
    /\ "overview" \in Targets(p)
    /\ cache' = [q \in DOMAIN cache \cup {p} |-> IF q = p THEN v ELSE cache[q]]
    /\ count' = count + 1
    /\ UNCHANGED <<entries, handleIndex, handleOf, nextHandle, shown, current>>

RefreshUi ==
    /\ handleOf["overview"] # 0
    /\ shown' = Refreshed(cache, count, shown)
    /\ Select(current.item, cache, count, shown'.soc)
    /\ UNCHANGED <<entries, handleIndex, handleOf, nextHandle, cache, count>>

(* onDrillItemChanged, onDrillItemActivated. *)
DrillItemChanged(item) ==
    /\ handleOf["overview"] # 0
    /\ Select(item, cache, count, shown.soc)
    /\ UNCHANGED <<entries, handleIndex, handleOf, nextHandle, cache, count, shown>>

BusNext ==
    \/ \E key \in SinkKeys : OtherSubscribes("sink", key)
    \/ OtherSubscribes("chart", Wildcard)
    \/ \E sub \in {"sink", "chart"} : OtherUnsubscribes(sub)
    \/ OverviewOpened \/ OverviewClosed
    \/ \E s \in Samples : Broadcast(s[1], s[2])
    \/ RefreshUi
    \/ \E item \in Items : DrillItemChanged(item)

BusSpec == BusInit /\ [][BusNext]_busVars

-----------------------------------------------------------------------------
(* Properties.                                                             *)

(* A handle finds the entry of its own subscriber, and no entry is left of *)
(* a view that is gone, which a broadcast would call into, in whatever     *)
(* order views come and go (unsubscribeImpl_locked).                       *)
NoEntryOutlivesItsView ==
    /\ \A i \in DOMAIN entries : handleOf[entries[i].sub] # 0
    /\ \A s \in Subscribers : handleOf[s] # 0 =>
          /\ handleIndex[handleOf[s]] \in DOMAIN entries
          /\ entries[handleIndex[handleOf[s]]].sub = s
    /\ Cardinality({handleIndex[h] : h \in DOMAIN handleIndex}) = Len(entries)

(* The values the overview would show now. *)
OverviewBehind ==
    /\ handleOf["overview"] # 0
    /\ shown.points # Refreshed(cache, count, shown).points

(* What was broadcast comes to the screen (onRefreshUi). *)
OverviewCatchesUp == OverviewBehind ~> ~OverviewBehind
=============================================================================
