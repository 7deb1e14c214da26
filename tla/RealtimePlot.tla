---------------------------- MODULE RealtimePlot ----------------------------
(***************************************************************************)
(* charts/RealtimeChartWidget and RealtimePlotWidget with ChannelBuffer    *)
(* and RenderDownsampler.  A sample of the bus is posted to the main       *)
(* thread, which adds it to the buffer of its channel; a timer moves the   *)
(* buffers to the graphs.  A sample is a key, its time, and a value; the   *)
(* times of the samples are counted.  removeChannel, clearAll and          *)
(* setRefreshActive, which nobody calls, are left out, as is all painting. *)
(***************************************************************************)
EXTENDS Integers, Sequences, FiniteSets, SequencesExt

CONSTANTS
    Readings,       \* [point, value] a sample may have
    MaxChannels,    \* kMaxChannels
    MaxPending,     \* ChannelBuffer::kMaxPending
    Target,         \* points of a channel that fit on the screen
    VisibleWindow,  \* kVisibleWindowSeconds
    MaxPlotted      \* bound: samples

ASSUME PlotAssumption ==
    /\ MaxChannels \in Nat \ {0} /\ MaxPending \in Nat \ {0} /\ Target \in Nat \ {0, 1}
    /\ VisibleWindow \in Nat /\ MaxPlotted \in Nat

VARIABLES
    clock,      \* time of the last sample
    posted,     \* calls queued to the main thread
    channels,   \* the channels in the order they were made
    pending,    \* ChannelBuffer::pending by channel
    graph,      \* the data of the graph by channel
    axis,       \* the axis of the graph, and the mark of its row
    visible,    \* the page is shown
    timer,      \* m_timer is active
    ruler,      \* m_rulerOn
    hoverText   \* m_hoverText: channel, key and value of what is read out

plotVars == <<clock, posted, channels, pending, graph, axis, visible, timer, ruler, hoverText>>

PlotPoints == {r.point : r \in Readings}

(* The timer is started by the constructor, before the page is shown. *)
PlotInit ==
    /\ clock = 0
    /\ posted = <<>>
    /\ channels = <<>>
    /\ pending = [p \in PlotPoints |-> <<>>]
    /\ graph = [p \in PlotPoints |-> <<>>]
    /\ axis = [p \in PlotPoints |-> "left"]
    /\ visible = FALSE
    /\ timer = TRUE
    /\ ruler = FALSE
    /\ hoverText = {}

-----------------------------------------------------------------------------
(* RenderDownsampler::minMaxBucketDownSample                               *)

(* Places of the smallest and the largest value of a bucket, the first of  *)
(* each; the smallest is put first.                                        *)
Extremes(src, from, to) ==
    LET lo == Min({i \in from .. to : \A j \in from .. to : src[i].value <= src[j].value})
        hi == Min({i \in from .. to : \A j \in from .. to : src[i].value >= src[j].value})
    IN  IF lo = hi THEN <<src[lo]>> ELSE <<src[lo], src[hi]>>

AtMost(s, n) == SubSeq(s, 1, IF Len(s) < n THEN Len(s) ELSE n)

(* Buckets are read until there are `target' points; the last sample is    *)
(* added if there is room for it.                                          *)
MinMaxBucketDownSample(src, target) ==
    LET n      == Len(src)
        pairs  == IF target \div 2 > 1 THEN target \div 2 ELSE 1
        size   == IF n \div pairs > 1 THEN n \div pairs ELSE 1
        starts == {i \in 1 .. n : (i - 1) % size = 0}
        end(i) == IF i + size - 1 < n THEN i + size - 1 ELSE n
        out    == AtMost(FlattenSeq([k \in 1 .. Cardinality(starts) |->
                            Extremes(src, (k - 1) * size + 1, end((k - 1) * size + 1))]), target)
    IN  IF target < 2 \/ n <= target THEN src
        ELSE IF Len(out) < target /\ out[Len(out)].key # src[n].key THEN Append(out, src[n])
        ELSE out

-----------------------------------------------------------------------------
(* QCPDataContainer: binary search, and data that is said to be sorted.    *)

LowerBound(data, key) ==
    LET find[first \in 1 .. Len(data) + 1, n \in 0 .. Len(data)] ==
            IF n = 0 THEN first
            ELSE IF data[first + n \div 2].key < key
            THEN find[first + n \div 2 + 1, n - n \div 2 - 1] ELSE find[first, n \div 2]
    IN  find[1, Len(data)]

RemoveBefore(data, key) == SubSeq(data, LowerBound(data, key), Len(data))

(* nearestSample: findBegin gives the last sample before the key, if there *)
(* is one, which is then never exchanged for an earlier one.               *)
NearestSample(data, key) ==
    LET found == LowerBound(data, key)
        it    == IF found = 1 THEN 1 ELSE found - 1
    IN  IF it # 1 /\ key - data[it - 1].key < data[it].key - key THEN data[it - 1] ELSE data[it]

-----------------------------------------------------------------------------
(* onSampleBridge, on the thread of the broadcast. *)
SampleBridge(r) ==
    /\ clock < MaxPlotted
    /\ clock' = clock + 1
    /\ posted' = Append(posted, [point |-> r.point, key |-> clock + 1, value |-> r.value])
    /\ UNCHANGED <<channels, pending, graph, axis, visible, timer, ruler, hoverText>>

(* ChannelBuffer::append. *)
Appended(buf, sample) ==
    LET s == Append(buf, sample)
    IN  IF Len(s) > MaxPending THEN SubSeq(s, Len(s) - MaxPending + 1, Len(s)) ELSE s

(* The posted call: a channel for a new point while there is room, and     *)
(* nothing for a point without a channel.                                  *)
DeliverSample ==
    LET s    == Head(posted)
        made == IF s.point \notin ToSet(channels) /\ Len(channels) < MaxChannels
                THEN Append(channels, s.point) ELSE channels
    IN  /\ posted # <<>>
        /\ posted' = Tail(posted)
        /\ channels' = made
        /\ pending' = IF s.point \in ToSet(made)
                      THEN [pending EXCEPT ![s.point] =
                                Appended(@, [key |-> s.key, value |-> s.value])]
                      ELSE pending
        /\ UNCHANGED <<clock, graph, axis, visible, timer, ruler, hoverText>>

Batch(p) ==
    IF Len(pending[p]) > Target THEN MinMaxBucketDownSample(pending[p], Target) ELSE pending[p]

(* onBatchRepaint.  Old data is removed with the latest key of the         *)
(* channels that were visited; the order is that of a hash table.          *)
Repaint ==
    LET busy == {p \in ToSet(channels) : pending[p] # <<>>}
        n    == Cardinality(busy)
    IN  /\ timer /\ channels # <<>>
        /\ \E order \in {o \in [1 .. n -> busy] : ToSet(o) = busy}, batch \in {[p \in busy |-> Batch(p)]} :
              LET visited(p) == {order[i] : i \in 1 .. CHOOSE i \in 1 .. n : order[i] = p}
                  latest(p)  == Max({batch[q][Len(batch[q])].key : q \in visited(p)})
              IN  graph' = [p \in PlotPoints |->
                              IF p \in busy
                              THEN RemoveBefore(graph[p] \o batch[p], latest(p) - VisibleWindow)
                              ELSE graph[p]]
        /\ pending' = [p \in PlotPoints |-> IF p \in busy THEN <<>> ELSE pending[p]]
        /\ UNCHANGED <<clock, posted, channels, axis, visible, timer, ruler, hoverText>>

(* Mutant: the timer stays as the page left it. *)
ShowWithoutTimer ==
    /\ ~visible
    /\ visible' = TRUE
    /\ UNCHANGED <<clock, posted, channels, pending, graph, axis, timer, ruler, hoverText>>

Show ==
    /\ ~visible
    /\ visible' = TRUE /\ timer' = TRUE
    /\ UNCHANGED <<clock, posted, channels, pending, graph, axis, ruler, hoverText>>

Hide ==
    /\ visible
    /\ visible' = FALSE /\ timer' = FALSE
    /\ UNCHANGED <<clock, posted, channels, pending, graph, axis, ruler, hoverText>>

-----------------------------------------------------------------------------
(* The user                                                                *)

Filled == {p \in ToSet(channels) : graph[p] # <<>>}

ReadOut(p, x) == [point |-> p, sample |-> NearestSample(graph[p], x)]

Distance(a, b) == IF a < b THEN b - a ELSE a - b

(* updateReadout: with the ruler every channel is read out, without it the *)
(* first of those whose sample is nearest.                                 *)
UpdateReadout(on, x) ==
    hoverText' =
        IF on THEN {ReadOut(p, x) : p \in Filled}
        ELSE IF Filled = {} THEN hoverText
        ELSE LET dist(i) == Distance(ReadOut(channels[i], x).sample.key, x)
                 places  == {i \in DOMAIN channels : channels[i] \in Filled}
                 best    == CHOOSE i \in places :
                               \A j \in places : dist(i) < dist(j) \/ (dist(i) = dist(j) /\ i <= j)
             IN  {ReadOut(channels[best], x)}

MouseMoved(x) ==
    /\ visible /\ channels # <<>>
    /\ UpdateReadout(ruler, x)
    /\ UNCHANGED <<clock, posted, channels, pending, graph, axis, visible, timer, ruler>>

(* setRulerEnabled; x is the middle of the axis. *)
RulerToggled(x) ==
    /\ visible
    /\ ruler' = ~ruler
    /\ IF ruler THEN UNCHANGED hoverText ELSE UpdateReadout(TRUE, x)
    /\ UNCHANGED <<clock, posted, channels, pending, graph, axis, visible, timer>>

(* onChannelItemChanged, setChannelAxis. *)
ChannelItemChanged(p) ==
    /\ visible /\ p \in ToSet(channels)
    /\ axis' = [axis EXCEPT ![p] = IF @ = "left" THEN "right" ELSE "left"]
    /\ UNCHANGED <<clock, posted, channels, pending, graph, visible, timer, ruler, hoverText>>

PlotNext ==
    \/ \E r \in Readings : SampleBridge(r)
    \/ DeliverSample
    \/ Repaint
    \/ Show \/ Hide
    \/ \E x \in {1, MaxPlotted} : MouseMoved(x)
    \/ RulerToggled(1)
    \/ \E p \in PlotPoints : ChannelItemChanged(p)

-----------------------------------------------------------------------------
(* Properties.                                                             *)

(* A page that is shown draws what its channels have been given, also      *)
(* after it was hidden (showEvent, hideEvent).                             *)
PlotCatchesUp ==
    \A p \in PlotPoints : (visible /\ pending[p] # <<>>) ~> (pending[p] = <<>> \/ ~visible)

(* RenderDownsampler.h: thinning out keeps the spikes: of the samples that *)
(* were waiting, one of the largest and one of the smallest value is drawn *)
(* (minMaxBucketDownSample).                                               *)
SpikesAreDrawn ==
    [][\A p \in PlotPoints : pending[p] # <<>> /\ pending'[p] = <<>> =>
        LET drawn == ToSet(graph'[p])
            old   == ToSet(pending[p])
        IN  /\ \E s \in drawn : \A t \in old : s.value >= t.value
            /\ \E s \in drawn : \A t \in old : s.value <= t.value]_plotVars
=============================================================================
