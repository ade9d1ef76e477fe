----------------------------- MODULE Transforms -----------------------------
(***************************************************************************)
(* Series computed from other series: the custom functions of the main     *)
(* window (CustomFunction), each with a series of its own, and the         *)
(* transform of a curve in a plot (TransformFunction_SISO behind           *)
(* TransformedTimeseries).  Both go on from where their output ends.       *)
(*                                                                         *)
(* What a function computes is abstracted to where it comes from: y is the *)
(* number of a sample of the base series, then the functions it went       *)
(* through.  A function gives one output for each sample, at its time; the *)
(* transform of the curve is ScaleTransform with a time offset.            *)
(*                                                                         *)
(* The handlers of the main window run one after the other.  The part they *)
(* share, updateDataAndReplot, is told by step: the move, the functions in *)
(* the order of their creation, and the curve.  A move brings one sample   *)
(* at most; what it does to a series is in TimeSeries.                     *)
(***************************************************************************)
EXTENDS Integers, Sequences

CONSTANTS
  Base,        \* the series that is loaded or received
  Functions,   \* names of custom functions, and of their series
  Link,        \* Link[f]: _linked_plot_name of f
  Times,       \* timestamps
  Lowest,      \* std::numeric_limits<double>::lowest()
  Highest,     \* std::numeric_limits<double>::max()
  Limits,      \* settings of the streaming buffer
  Shift,       \* the time offset of the curve's transform
  Files,       \* the times of what a file, or a toolbox, brings
  MaxSamples,  \* bound: samples of the base series
  MaxCreated,  \* bound: functions created
  MaxReplots   \* bound: replots of the timer, and refreshes of functions

Names == Functions \union {Base}

ASSUME TransformsAssumption ==
  /\ Base \notin Functions
  /\ Link \in [Functions -> Names]
  /\ Times \subseteq Int
  /\ Lowest \in Int
  /\ Highest \in Int
  /\ \A t \in Times : Lowest < t /\ t < Highest
  /\ Limits \subseteq Int
  /\ Shift \in Int
  /\ Files \subseteq Seq(Times)
  /\ \A f \in Files : \A i, j \in 1 .. Len(f) : i <= j => f[i] <= f[j]
  /\ MaxSamples \in Nat
  /\ MaxCreated \in Nat
  /\ MaxReplots \in Nat

VARIABLES
  series,     \* the series of _mapped_plot_data
  order,      \* order() of the functions in _transform_functions, 0 if none
  created,    \* the static counter of orders
  streaming,  \* a streamer is active
  limit,      \* maximumRangeX of the series
  curve,      \* _dst_data of the curve, a plot of the base series
  last,       \* _last_timestamp of its transform
  step,       \* what the GUI thread is at
  pending,    \* functions to be calculated in this replot
  at,         \* index of the loop of the curve's transform
  again,      \* after this loop comes updateDataAndReplot
  replots,    \* replots of the timer, and refreshes, so far
  stamp,      \* history: times of the samples of the base series, by number
  disturbed   \* history: functions, or Base for the curve, whose source changed
              \* behind their output

plotting == <<curve, last, at, again>>
counts == <<created, replots>>
vars == <<series, order, streaming, limit, plotting, step, pending, counts,
          stamp, disturbed>>

Sample == [x : Int, y : Seq(Nat)]

TypeOK ==
  /\ series \in [Names -> Seq(Sample)]
  /\ order \in [Functions -> Nat]
  /\ <<created, replots, at>> \in Nat \X Nat \X Nat /\ at > 0
  /\ <<streaming, again>> \in BOOLEAN \X BOOLEAN
  /\ <<limit, last>> \in Int \X Int
  /\ curve \in Seq(Sample)
  /\ step \in {"idle", "move", "functions", "curve"}
  /\ pending \subseteq Functions
  /\ stamp \in Seq(Times)
  /\ disturbed \subseteq Names

Init ==
  /\ series = [n \in Names |-> << >>]
  /\ order = [f \in Functions |-> 0]
  /\ created = 0
  /\ streaming = FALSE
  /\ limit = Highest
  /\ curve = << >>
  /\ last = Lowest
  /\ step = "idle"
  /\ pending = {}
  /\ at = 1
  /\ again = FALSE
  /\ replots = 0
  /\ stamp = << >>
  /\ disturbed = {}

-----------------------------------------------------------------------------
(* Series                                                                  *)

Exists(f) == order[f] # 0

FromBase == {f \in Functions : Link[f] = Base /\ Exists(f)}
Dependents(n) == {f \in Functions : Link[f] = n}

Final(q) == q[Len(q)]

\* trimRange with the range w, which stops once n samples are gone
Stops(q, w, n) == Len(q) - n <= 2 \/ Final(q).x - q[n + 1].x <= w
Trim(q, w) ==
  IF w = Highest \/ q = << >> THEN q
  ELSE LET n == CHOOSE n \in 0 .. Len(q) :
                  Stops(q, w, n) /\ \A k \in 0 .. (n - 1) : ~Stops(q, w, k)
       IN  SubSeq(q, n + 1, Len(q))

\* Samples not later than time t: std::upper_bound in a series
UpTo(q, t) ==
  CHOOSE n \in 0 .. Len(q) :
    /\ \A i \in 1 .. n : q[i].x <= t
    /\ \A i \in (n + 1) .. Len(q) : q[i].x > t

Insert(q, n, s) == SubSeq(q, 1, n) \o <<s>> \o SubSeq(q, n + 1, Len(q))

\* pushBack, without its trimRange
Push(q, s) == Insert(q, UpTo(q, s.x), s)

\* Variant: goes on from the last output, once more
ExtendAgain(nm, out, src) ==
  LET n == UpTo(src, IF out = << >> THEN Lowest ELSE Final(out).x - 1)
  IN  out \o [i \in 1 .. (Len(src) - n) |->
                [x |-> src[n + i].x, y |-> Append(src[n + i].y, nm)]]

\* CustomFunction::calculate: what is later than the last output, in the
\* order of time; nm is the number of the function
Extend(nm, out, src) ==
  LET n == UpTo(src, IF out = << >> THEN Lowest ELSE Final(out).x)
  IN  out \o [i \in 1 .. (Len(src) - n) |->
                [x |-> src[n + i].x, y |-> Append(src[n + i].y, nm)]]

Distance(a, b) == IF a < b THEN b - a ELSE a - b

\* getIndexFromX, of a series that is not empty
IndexFromX(q, t) ==
  LET n == IF \E i \in 1 .. Len(q) : q[i].x >= t
             THEN CHOOSE i \in 1 .. Len(q) :
                    q[i].x >= t /\ \A j \in 1 .. (i - 1) : q[j].x < t
             ELSE Len(q)
  IN  IF n > 1 /\ Distance(q[n - 1].x, t) < Distance(q[n].x, t) THEN n - 1 ELSE n

\* New samples of the base series, with the numbers that follow
Numbered(times) == [i \in 1 .. Len(times) |-> [x |-> times[i], y |-> <<Len(stamp) + i>>]]

-----------------------------------------------------------------------------
(* The user and the replot timer                                           *)

StartStreaming(l) ==
  /\ step = "idle"
  /\ ~streaming
  /\ streaming' = TRUE
  /\ limit' = l
  /\ series' = [n \in Names |-> Trim(series[n], l)]
  /\ UNCHANGED <<order, plotting, step, pending, counts, stamp, disturbed>>

StopStreaming ==
  /\ step = "idle"
  /\ streaming
  /\ streaming' = FALSE
  /\ limit' = Highest
  /\ UNCHANGED <<series, order, plotting, step, pending, counts, stamp, disturbed>>

\* on_streamingSpinBox_valueChanged
SetLimit(l) ==
  /\ step = "idle"
  /\ streaming /\ l # limit
  /\ limit' = l
  /\ series' = [n \in Names |-> Trim(series[n], l)]
  /\ UNCHANGED <<order, streaming, plotting, step, pending, counts, stamp, disturbed>>

\* _replot_timer
Replot ==
  /\ step = "idle"
  /\ streaming
  /\ replots < MaxReplots
  /\ replots' = replots + 1
  /\ step' = "move"
  /\ UNCHANGED <<series, order, created, streaming, limit, plotting, pending, stamp,
                 disturbed>>

\* Variant: the transform is not reset with its output
ResetCurveKeeping ==
  /\ curve' = << >>
  /\ last' = last
  /\ at' = 1
  /\ step' = "curve"

\* updateCache(true) up to the loop
ResetCurve ==
  /\ curve' = << >>
  /\ last' = Lowest
  /\ at' = 1
  /\ step' = "curve"

\* loadDataFromFile, not merging: the functions' series are cleared too, and
\* the curve is made anew before updateDataAndReplot
Load(times) ==
  /\ step = "idle"
  /\ ~streaming
  /\ Len(stamp) + Len(times) <= MaxSamples
  /\ series' = [n \in Names |->
                  IF n = Base THEN Numbered(times)
                  ELSE IF Exists(n) THEN << >> ELSE series[n]]
  /\ stamp' = stamp \o times
  /\ ResetCurve
  /\ again' = TRUE
  /\ disturbed' = {}
  /\ UNCHANGED <<order, streaming, limit, pending, counts>>

\* importData of a toolbox, with remove_old: the base series only
Import(times) ==
  /\ step = "idle"
  /\ Len(stamp) + Len(times) <= MaxSamples
  /\ series' = [series EXCEPT ![Base] = Numbered(times)]
  /\ stamp' = stamp \o times
  /\ step' = "move"
  /\ disturbed' = disturbed \union FromBase \union {Base}
  /\ UNCHANGED <<order, streaming, limit, plotting, pending, counts>>

\* onCustomPlotCreated, of a new function or of one that was edited
Create(f) ==
  /\ step = "idle"
  /\ created < MaxCreated
  /\ created' = created + 1
  /\ order' = [order EXCEPT ![f] = created']
  /\ series' = [series EXCEPT ![f] =
                  Trim(Extend(created', << >>, series[Link[f]]), limit)]
  /\ disturbed' = (disturbed \ {f}) \union Dependents(f)
  /\ UNCHANGED <<streaming, limit, plotting, step, pending, replots, stamp>>

\* onRefreshCustomPlot
Refresh(f) ==
  /\ step = "idle"
  /\ Exists(f)
  /\ replots < MaxReplots
  /\ replots' = replots + 1
  /\ series' = [series EXCEPT ![f] =
                  Trim(Extend(order[f], << >>, series[Link[f]]), limit)]
  /\ step' = "move"
  /\ disturbed' = (disturbed \ {f}) \union Dependents(f)
  /\ UNCHANGED <<order, created, streaming, limit, plotting, pending, stamp>>

\* onDeleteMultipleCurves; of a function, the series and the function.  The
\* curve goes with the base series, and is plotted anew with the next one
Delete(n) ==
  /\ step = "idle"
  /\ n \in Functions => Exists(n)
  /\ series' = [series EXCEPT ![n] = << >>]
  /\ order' = [f \in Functions |-> IF f = n THEN 0 ELSE order[f]]
  /\ disturbed' = (disturbed \ {n}) \union Dependents(n)
  /\ IF n = Base THEN curve' = << >> /\ last' = Lowest ELSE UNCHANGED <<curve, last>>
  /\ UNCHANGED <<streaming, limit, at, again, step, pending, counts, stamp>>

\* on_actionClearBuffer_triggered
ClearBuffer ==
  /\ step = "idle"
  /\ series' = [n \in Names |-> << >>]
  /\ curve' = << >>
  /\ last' = Lowest
  /\ disturbed' = {}
  /\ UNCHANGED <<order, streaming, limit, at, again, step, pending, counts, stamp>>

\* A transform is chosen, or its options change
SetTransform ==
  /\ step = "idle"
  /\ ResetCurve
  /\ again' = FALSE
  /\ disturbed' = disturbed \ {Base}
  /\ UNCHANGED <<series, order, streaming, limit, pending, counts, stamp>>

-----------------------------------------------------------------------------
(* updateDataAndReplot                                                     *)

\* Where MergeData may leave a sample: over the only one, at its time, or
\* among the others, in the order of time
Merged(q, s) ==
  IF Len(q) = 1 /\ q[1].x = s.x THEN {<<s>>}
  ELSE {r \in {Insert(q, n, s) : n \in 0 .. Len(q)} :
          \A i, j \in 1 .. Len(r) : i <= j => r[i].x <= r[j].x}

\* MoveData with what was received, then the limit
Move ==
  /\ step = "move"
  /\ \/ /\ UNCHANGED <<stamp, disturbed>>
        /\ series' = IF streaming THEN [n \in Names |-> Trim(series[n], limit)] ELSE series
     \/ \E t \in Times : \E q \in Merged(series[Base], Numbered(<<t>>)[1]) :
          /\ streaming
          /\ Len(stamp) < MaxSamples
          /\ stamp' = Append(stamp, t)
          /\ series' = [n \in Names |-> Trim(IF n = Base THEN q ELSE series[n], limit)]
          /\ disturbed' = IF series[Base] = << >> \/ Final(series[Base]).x < t THEN disturbed
                           ELSE IF Final(series[Base]).x = t THEN disturbed \union FromBase
                           ELSE disturbed \union FromBase \union {Base}
  /\ step' = "functions"
  /\ pending' = {f \in Functions : Exists(f)}
  /\ UNCHANGED <<order, streaming, limit, plotting, counts>>

\* Variant: the latest function first
CalculateLatest(f) ==
  /\ step = "functions"
  /\ f \in pending
  /\ \A g \in pending : order[f] >= order[g]
  /\ series' = [series EXCEPT ![f] =
                  Trim(Extend(order[f], @, series[Link[f]]), limit)]
  /\ pending' = pending \ {f}
  /\ UNCHANGED <<order, streaming, limit, plotting, step, counts, stamp, disturbed>>

\* Variant: without the limit of the source
CalculateUntrimmed(f) ==
  /\ step = "functions"
  /\ f \in pending
  /\ \A g \in pending : order[f] <= order[g]
  /\ series' = [series EXCEPT ![f] = Extend(order[f], @, series[Link[f]])]
  /\ pending' = pending \ {f}
  /\ UNCHANGED <<order, streaming, limit, plotting, step, counts, stamp, disturbed>>

\* The functions, in the order of their creation
Calculate(f) ==
  /\ step = "functions"
  /\ f \in pending
  /\ \A g \in pending : order[f] <= order[g]
  /\ series' = [series EXCEPT ![f] =
                  Trim(Extend(order[f], @, series[Link[f]]), limit)]
  /\ pending' = pending \ {f}
  /\ UNCHANGED <<order, streaming, limit, plotting, step, counts, stamp, disturbed>>

\* TransformFunction_SISO::calculate up to its loop; nothing is done for an
\* empty series
StartCurve ==
  /\ step = "functions"
  /\ pending = {}
  /\ LET dst == Trim(curve, limit)
         from == IF dst = << >> THEN last ELSE Final(dst).x
     IN  IF series[Base] = << >> THEN at' = 1 /\ UNCHANGED <<curve, last>>
         ELSE /\ curve' = dst
              /\ last' = from
              /\ at' = IndexFromX(series[Base], from)
  /\ step' = "curve"
  /\ again' = FALSE
  /\ UNCHANGED <<series, order, streaming, limit, pending, counts, stamp, disturbed>>

\* The loop, with calculateNextPoint of ScaleTransform
NextPoint ==
  /\ step = "curve"
  /\ at <= Len(series[Base])
  /\ LET p == series[Base][at] IN
       IF p.x >= last
         THEN /\ curve' = Trim(Push(curve, [x |-> p.x + Shift, y |-> p.y]), limit)
              /\ last' = p.x
         ELSE UNCHANGED <<curve, last>>
  /\ at' = at + 1
  /\ UNCHANGED <<series, order, streaming, limit, again, step, pending, counts,
                 stamp, disturbed>>

EndCurve ==
  /\ step = "curve"
  /\ at > Len(series[Base])
  /\ step' = IF again THEN "move" ELSE "idle"
  /\ again' = FALSE
  /\ at' = 1
  /\ UNCHANGED <<series, order, streaming, limit, curve, last, pending, counts,
                 stamp, disturbed>>

User ==
  \/ \E l \in Limits : StartStreaming(l) \/ SetLimit(l)
  \/ StopStreaming
  \/ Replot
  \/ \E times \in Files : Load(times) \/ Import(times)
  \/ \E f \in Functions : Create(f) \/ Refresh(f)
  \/ \E n \in Names : Delete(n)
  \/ ClearBuffer
  \/ SetTransform

Next ==
  \/ User
  \/ Move
  \/ \E f \in Functions : Calculate(f)
  \/ StartCurve
  \/ NextPoint
  \/ EndCurve

Spec == Init /\ [][Next]_vars

-----------------------------------------------------------------------------
(* Properties                                                              *)

\* However samples come, and however often a function is calculated, it takes
\* no sample of the base series twice
OnceEach ==
  \A f \in Functions : \A i, j \in 1 .. Len(series[f]) :
    series[f][i].y[1] = series[f][j].y[1] => i = j

\* A function whose source it was created after: its source came first in the
\* replot
After(f) == Link[f] = Base \/ order[Link[f]] < order[f]

\* What the function with number nm gives for all of the series src
Image(nm, src) ==
  [i \in 1 .. Len(src) |-> [x |-> src[i].x, y |-> Append(src[i].y, nm)]]

\* Outside a replot the series of a function is what the function would give
\* for its source as it is now: increments, limits and trims of either
\* series leave no gap and no rest, unless samples came late, or the source
\* was replaced without the function
MirrorsSource ==
  step = "idle" =>
    \A f \in Functions : Exists(f) /\ After(f) /\ f \notin disturbed =>
      series[f] = Image(order[f], series[Link[f]])

\* In any case no function is behind a source that was created before it: a
\* chain of functions is brought up to date in one replot
CaughtUp ==
  step = "idle" =>
    \A f \in Functions : Exists(f) /\ After(f) /\ series[Link[f]] # << >> =>
      series[f] # << >> /\ Final(series[f]).x >= Final(series[Link[f]]).x

\* Sample i of the series b is in the curve c, or before all that is
InView(c, b, i) ==
  \/ \E j \in 1 .. Len(c) : c[j] = b[i]
  \/ i < Len(b) /\ c # << >> /\ b[i].x <= c[1].x

\* Samples that came in the order of time since the curve was last made anew
\* are shown without a gap up to the last one, in the order of time, although
\* every calculation starts in the middle of a series that is trimmed at its
\* front, and gives its last sample again (with no time offset)
CurveShowsAll ==
  step = "idle" /\ Base \notin disturbed =>
    /\ \A i, j \in 1 .. Len(curve) : i <= j => curve[i].x <= curve[j].x
    /\ \A i \in 1 .. Len(series[Base]) : InView(curve, series[Base], i)

-----------------------------------------------------------------------------
(* Why OnceEach and CaughtUp hold                                          *)

Sorted(q) == \A i, j \in 1 .. Len(q) : i <= j => q[i].x <= q[j].x

\* Samples have the time of the sample of the base series they come from
Sourced(q, times) ==
  \A i \in 1 .. Len(q) :
    q[i].y # << >> /\ q[i].y[1] \in 1 .. Len(times) /\ q[i].x = times[q[i].y[1]]

Once(q) == \A i, j \in 1 .. Len(q) : q[i].y[1] = q[j].y[1] => i = j

Kept ==
  /\ \A n \in Names : Sorted(series[n]) /\ Sourced(series[n], stamp) /\ Once(series[n])
  /\ Sorted(curve)

\* Functions are calculated in their order, the oldest first
InOrder ==
  /\ \A f \in Functions : order[f] <= created
  /\ step = "functions" =>
       \A f \in Functions \ pending, g \in pending : order[f] <= order[g]

\* The series q is not behind the series src
NotBehind(q, src) == src # << >> => q # << >> /\ Final(q).x >= Final(src).x

\* In a replot the functions that are done are up to date
Done(f) ==
  step = "idle" \/ (step = "curve" /\ ~again) \/ (step = "functions" /\ f \notin pending)
UpToDate ==
  \A f \in Functions : Exists(f) /\ After(f) /\ Done(f) => NotBehind(series[f], series[Link[f]])

IInv == TypeOK /\ Kept /\ InOrder /\ UpToDate

-----------------------------------------------------------------------------
(* Why MirrorsSource holds                                                 *)

\* The series q was made from src, and since then src went on: what it has got
\* is later, and what it has dropped, the first d of q, q will drop too, with
\* the limit w
Follows(nm, q, src, w) ==
  /\ q # << >> => src # << >> /\ Final(q).x <= Final(src).x
  /\ \E d \in 0 .. Len(q) :
       /\ \A i \in 1 .. d : w # Highest /\ Len(src) >= 2 /\ Final(src).x - q[i].x > w
       /\ \A i \in (d + 1) .. Len(q) : i - d <= Len(src) /\ q[i] = Image(nm, src)[i - d]
       /\ \A j \in 1 .. Len(src) : q # << >> /\ j + d > Len(q) => src[j].x > Final(q).x

Mirrors(f) == series[f] = Image(order[f], series[Link[f]])

\* Where a function that is to mirror its source stands in a replot
InStep(f) ==
  /\ Done(f) => Mirrors(f)
  /\ step = "functions" /\ f \in pending =>
       Follows(order[f], series[f], series[Link[f]], limit)
  /\ step = "move" \/ (step = "curve" /\ again) => series[f] = << >> \/ Mirrors(f)

\* Series keep their limit, but for one a toolbox has brought until it is moved
Tight == \A n \in Names : Trim(series[n], limit) = series[n]

Mirroring ==
  /\ ~streaming => limit = Highest
  /\ step # "move" => Tight
  /\ \A f \in Functions : Exists(f) /\ After(f) /\ f \notin disturbed => InStep(f)
-----------------------------------------------------------------------------
(* Why CurveShowsAll holds                                                 *)

\* Between the calculations the curve ends where the series ends
Settled(b) ==
  /\ b = << >> <=> curve = << >>
  /\ b # << >> => Final(curve).x = Final(b).x
  /\ \A i \in 1 .. Len(b) : InView(curve, b, i)

\* After a move the series still has the time the curve ends at, and what is
\* not in view is not before it
Awaited(b) ==
  /\ b = << >> => curve = << >>
  /\ curve # << >> =>
       /\ \E i \in 1 .. Len(b) : b[i].x = Final(curve).x
       /\ \A i \in 1 .. Len(b) : b[i].x < Final(curve).x => InView(curve, b, i)

\* The loop takes every sample that is not in view yet
InLoop(b) ==
  /\ b = << >> => curve = << >>
  /\ curve # << >> => Final(curve).x = last
  /\ b # << >> /\ at > Len(b) => curve # << >> /\ last = Final(b).x
  /\ \A i \in 1 .. Len(b) : IF i < at THEN InView(curve, b, i) ELSE b[i].x >= last

Showing ==
  /\ curve = << >> => last = Lowest
  /\ Base \notin disturbed =>
       CASE step \in {"idle", "move"} -> Settled(series[Base])
         [] step = "functions" -> Awaited(series[Base])
         [] step = "curve" -> InLoop(series[Base])
=============================================================================
