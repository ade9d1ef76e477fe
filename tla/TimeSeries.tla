----------------------------- MODULE TimeSeries -----------------------------
(***************************************************************************)
(* A time series and the data that is moved into it: PJ::TimeseriesBase    *)
(* with its cached ranges, MergeData and MoveData, and the operations of   *)
(* MainWindow that call them while files are loaded and streams run.       *)
(*                                                                         *)
(* plot is the series of the main window; source is the one of the same    *)
(* name that a streamer or a loader fills and MoveData empties into plot.  *)
(* The loops of MergeData are steps here.  Nothing comes between them: the *)
(* GUI thread runs them under the streamer's mutex.                        *)
(***************************************************************************)
EXTENDS Integers, Sequences, FiniteSetsExt, TLC

CONSTANTS
  Times,       \* timestamps, isEqual when they are equal
  Values,      \* finite values
  NaN,         \* a value that is not one
  Lowest,      \* std::numeric_limits<double>::lowest()
  Highest,     \* std::numeric_limits<double>::max()
  Limits,      \* settings of the streaming buffer but for "inf"
  Files,       \* what a loader pushes in the order of time before all else
  MaxReceived, \* bound: samples after which no more are received one by one
  MaxLoaded    \* bound: samples after which no more are loaded with a file

ASSUME SeriesAssumption ==
  /\ Times \subseteq Int
  /\ Values \subseteq Int
  /\ NaN \notin Int
  /\ Lowest \in Int
  /\ Highest \in Int
  /\ \A v \in Times \cup Values : Lowest < v /\ v < Highest
  /\ Limits \subseteq Nat
  /\ \A l \in Limits : l < Highest
  /\ Files \subseteq Seq([x : Times, y : Values])
  /\ \A f \in Files : \A i, j \in 1 .. Len(f) : i <= j => f[i].x <= f[j].x
  /\ MaxReceived \in Nat
  /\ MaxLoaded \in Nat

VARIABLES
  plot,      \* the series in MainWindow::_mapped_plot_data
  source,    \* the series in the streamer's dataMap, or in the loaded file's
  mode,      \* what fills source
  limit,     \* the streaming buffer of the main window
  step,      \* MergeData: the loop it is in
  next,      \* index of the loop
  resort,    \* need_sorting
  samples,   \* number of samples so far
  kept,      \* history: samples received and not erased on request
  least,     \* history: the smallest limit there has been
  spoiled    \* history: a NaN, an overwriting or a sorting merge has happened

merging == <<step, next, resort>>
history == <<samples, kept, least, spoiled>>
vars == <<plot, source, mode, limit, merging, history>>

Point == [x : Times, y : Values]

Interval == [min : Int, max : Int]

Series ==
  [points : Seq(Point), rx : Interval, ry : Interval, dx : BOOLEAN, dy : BOOLEAN,
   max : Limits \cup {Highest}]

TypeOK ==
  /\ plot \in Series
  /\ source \in Series
  /\ mode \in {"idle", "stream", "file"}
  /\ limit \in Limits \cup {Highest}
  /\ step \in {"none", "update", "append", "merge", "done"}
  /\ next \in Nat \ {0}
  /\ resort \in BOOLEAN
  /\ samples \in Nat
  /\ kept \subseteq Point
  /\ least \in Limits \cup {Highest}
  /\ spoiled \in BOOLEAN

-----------------------------------------------------------------------------
\* The series.

Unset == [min |-> Lowest, max |-> Highest]

\* A series that has just been created.
Empty ==
  [points |-> << >>, rx |-> Unset, ry |-> Unset, dx |-> TRUE, dy |-> TRUE, max |-> Highest]

First(s) == s.points[1]
Final(s) == s.points[Len(s.points)]

Content(s) == {s.points[i] : i \in 1 .. Len(s.points)}
TimesOf(s) == {s.points[i].x : i \in 1 .. Len(s.points)}
ValuesOf(s) == {s.points[i].y : i \in 1 .. Len(s.points)}

\* PlotDataBase::clear.
Cleared(s) == [s EXCEPT !.points = << >>, !.dx = TRUE, !.dy = TRUE]

\* pushUpdateRangeX: the first sample sets the range, and leaves it dirty.
RangedX(s, x) ==
  IF s.points = << >> THEN [s EXCEPT !.rx = [min |-> x, max |-> x], !.dx = TRUE]
  ELSE IF s.dx THEN s
  ELSE IF x > s.rx.max THEN [s EXCEPT !.rx.max = x]
  ELSE IF x < s.rx.min THEN [s EXCEPT !.rx.min = x]
  ELSE [s EXCEPT !.dx = TRUE]

\* pushUpdateRangeY.
RangedY(s, y) ==
  IF s.dy THEN s
  ELSE IF y > s.ry.max THEN [s EXCEPT !.ry.max = y]
  ELSE IF y < s.ry.min THEN [s EXCEPT !.ry.min = y]
  ELSE [s EXCEPT !.dy = TRUE]

\* Variant: a sample exactly as old as the limit goes too.
TrimStopsLate(s, n) ==
  \/ Len(s.points) - n <= 2
  \/ Final(s).x - s.points[n + 1].x < s.max

\* trimRange stops popping once n samples are gone.
TrimStops(s, n) ==
  \/ Len(s.points) - n <= 2
  \/ Final(s).x - s.points[n + 1].x <= s.max

\* Variant: the sample popped is never an extreme.
TrimClean(s) ==
  LET n == Min({k \in 0 .. Len(s.points) : TrimStops(s, k)})
  IN  IF s.max = Highest THEN s
      ELSE [s EXCEPT !.points = SubSeq(s.points, n + 1, Len(s.points))]

\* trimRange, with popFront for each sample that is too old.
Trim(s) ==
  LET n == Min({k \in 0 .. Len(s.points) : TrimStops(s, k)})
      gone == {s.points[i] : i \in 1 .. n}
  IN  IF s.max = Highest THEN s
      ELSE [s EXCEPT !.points = SubSeq(s.points, n + 1, Len(s.points)),
                     !.dx = s.dx \/ \E p \in gone : p.x \in {s.rx.min, s.rx.max},
                     !.dy = s.dy \/ \E p \in gone : p.y \in {s.ry.min, s.ry.max}]

\* Variant: the next sample trims.
LimitedLater(s, l) == [s EXCEPT !.max = l]

\* setMaximumRangeX.
Limited(s, l) == Trim([s EXCEPT !.max = l])

\* Samples not later than time t: std::upper_bound.
UpTo(s, t) ==
  Min({n \in 0 .. Len(s.points) : n < Len(s.points) => t < s.points[n + 1].x})

\* pushBack, with insert for a late sample.  A NaN is skipped when it has
\* already widened the range of the times.
Pushed(s, p) ==
  LET r == RangedX(s, p.x)
      n == UpTo(s, p.x)
  IN  Trim(IF p.y = NaN THEN r
           ELSE [RangedY(r, p.y) EXCEPT
                   !.points = IF s.points # << >> /\ p.x < Final(s).x
                                THEN SubSeq(@, 1, n) \o <<p>> \o SubSeq(@, n + 1, Len(@))
                                ELSE Append(@, p)])

\* The orders std::sort may leave the samples in: equal times in any order.
Sortings(q) ==
  {[i \in 1 .. Len(q) |-> q[f[i]]] :
     f \in {g \in Permutations(1 .. Len(q)) \cap Bijection(1 .. Len(q), 1 .. Len(q)) :
              \A i, j \in 1 .. Len(q) : i < j => q[g[i]].x <= q[g[j]].x}}

\* sort, given the order it found.  The range it leaves, which starts from
\* [lowest, max], has the greatest time as its min and the least as its max,
\* and is said to be clean.
Resorted(s, q) ==
  LET r == [s EXCEPT !.points = q]
  IN  Trim([r EXCEPT !.rx = [min |-> Max(TimesOf(r)), max |-> Min(TimesOf(r))],
                     !.ry = [min |-> Max(ValuesOf(r)), max |-> Min(ValuesOf(r))],
                     !.dx = FALSE, !.dy = FALSE])

Distance(a, b) == IF a < b THEN b - a ELSE a - b

\* Variant: the first sample that is not earlier.
IndexFromXLower(s, t) ==
  LET n == Min({k \in 1 .. Len(s.points) + 1 : k <= Len(s.points) => t <= s.points[k].x})
  IN  IF s.points = << >> THEN 0
      ELSE IF n > Len(s.points) THEN Len(s.points)
      ELSE n

\* getIndexFromX; indices start at 1, and 0 is none.
IndexFromX(s, t) ==
  LET n == Min({k \in 1 .. Len(s.points) + 1 : k <= Len(s.points) => t <= s.points[k].x})
  IN  IF s.points = << >> THEN 0
      ELSE IF n > Len(s.points) THEN Len(s.points)
      ELSE IF n > 1 /\ Distance(s.points[n - 1].x, t) < Distance(s.points[n].x, t) THEN n - 1
      ELSE n

Init ==
  /\ plot = Empty
  /\ source = Empty
  /\ mode = "idle"
  /\ limit \in Limits \cup {Highest}
  /\ step = "none"
  /\ next = 1
  /\ resort = FALSE
  /\ samples = 0
  /\ kept = {}
  /\ least = Highest
  /\ spoiled = FALSE

-----------------------------------------------------------------------------
\* What fills the source.

\* startStreamingPlugin: the limit goes to every series there is.  One the
\* streamer creates later has none.
Start ==
  /\ mode = "idle"
  /\ mode' = "stream"
  /\ plot' = Limited(plot, limit)
  /\ source' \in {Empty, Limited(Empty, limit)}
  /\ least' = Min({least, limit})
  /\ UNCHANGED <<limit, merging, samples, kept, spoiled>>

\* A file is opened; the loader fills a map of its own.  Pushed in the order
\* of time, samples leave both ranges dirty.
Open(file) ==
  /\ mode = "idle"
  /\ samples + Len(file) <= MaxLoaded
  /\ mode' = "file"
  /\ source' = [Empty EXCEPT !.points = file]
  /\ samples' = samples + Len(file)
  /\ kept' = kept \cup Content(source')
  /\ UNCHANGED <<plot, limit, merging, least, spoiled>>

\* A parser has a sample.
Receive(p) ==
  /\ mode # "idle"
  /\ step = "none"
  /\ samples < MaxReceived
  /\ samples' = samples + 1
  /\ source' = Pushed(source, p)
  /\ kept' = kept \cup ({p} \cap Point)
  /\ spoiled' = (spoiled \/ p.y = NaN)
  /\ UNCHANGED <<plot, mode, limit, merging, least>>

\* stopStreamingPlugin, after which the streamer clears its map; or a file
\* that the loader gives up.
Stop ==
  /\ mode # "idle"
  /\ step = "none"
  /\ mode' = "idle"
  /\ plot' = IF mode = "stream" THEN Limited(plot, Highest) ELSE plot
  /\ source' = Empty
  /\ kept' = kept \cap Content(plot)
  /\ UNCHANGED <<limit, merging, samples, least, spoiled>>

\* on_streamingSpinBox_valueChanged, which does no more while Pause is checked.
SetLimit(l) ==
  /\ step = "none"
  /\ l # limit
  /\ limit' = l
  /\ \/ /\ mode = "stream"
        /\ plot' = Limited(plot, l)
        /\ source' = Limited(source, l)
        /\ least' = Min({least, l})
     \/ UNCHANGED <<plot, source, least>>
  /\ UNCHANGED <<mode, merging, samples, kept, spoiled>>

\* Clear Buffer, or Delete All Data, after which the series is made again.
Erase ==
  /\ step = "none"
  /\ mode # "file"
  /\ plot' \in {Cleared(plot), Empty}
  /\ kept' = Content(source)
  /\ UNCHANGED <<source, mode, limit, merging, samples, least, spoiled>>

\* rangeX and rangeY, which cache what they find.
AskRange ==
  /\ step = "none"
  /\ plot.points # << >>
  /\ \/ /\ plot.dx
        /\ plot' = [plot EXCEPT !.dx = FALSE,
                      !.rx = [min |-> Min(TimesOf(plot)), max |-> Max(TimesOf(plot))]]
     \/ /\ plot.dy
        /\ plot' = [plot EXCEPT !.dy = FALSE,
                      !.ry = [min |-> Min(ValuesOf(plot)), max |-> Max(ValuesOf(plot))]]
  /\ UNCHANGED <<source, mode, limit, merging, history>>

-----------------------------------------------------------------------------
\* MoveData, called by updateDataAndReplot and by importPlotDataMap.

\* MergeData: which loop it takes when neither series is empty.
Loop(p, s) ==
  IF Len(p.points) = Len(s.points) /\ Final(p).x = Final(s).x /\ First(p).x = First(s).x
    THEN "update"
  ELSE IF Final(p).x < First(s).x THEN "append"
  ELSE IF Final(s).x < First(p).x THEN "prepend"
  ELSE "merge"

\* MoveData up to the loop.  A file that is not merged takes the place of what
\* was there; the series gets the limit of the source, then swaps if it must.
StartMove(remove_older) ==
  LET p == Limited(IF remove_older THEN Cleared(plot) ELSE plot, source.max)
      empty == source.points = << >> \/ p.points = << >>
      swap == /\ source.points # << >>
              /\ p.points = << >> \/ Loop(p, source) = "prepend"
  IN  /\ mode # "idle"
      /\ step = "none"
      /\ remove_older => mode = "file"
      /\ plot' = IF swap THEN source ELSE p
      /\ source' = IF swap THEN p ELSE source
      /\ step' = IF empty THEN "done"
                 ELSE IF swap THEN "append"
                 ELSE Loop(p, source)
      /\ next' = 1
      /\ resort' = FALSE
      /\ kept' = IF remove_older THEN Content(source) ELSE kept
      /\ least' = Min({least, source.max})
      /\ UNCHANGED <<mode, limit, samples, spoiled>>

\* The same data is written again: at the same time, the value is replaced
\* and the range of the values is left as it is.
Update ==
  /\ step = "update"
  /\ next <= Len(source.points)
  /\ IF source.points[next].x = plot.points[next].x
       THEN /\ plot' = [plot EXCEPT !.points[next].y = source.points[next].y]
            /\ kept' = (kept \ {plot.points[next]}) \cup {source.points[next]}
            /\ spoiled' = TRUE
            /\ UNCHANGED resort
       ELSE /\ plot' = [plot EXCEPT !.points = Append(@, source.points[next])]
            /\ resort' = TRUE
            /\ UNCHANGED <<kept, spoiled>>
  /\ next' = next + 1
  /\ UNCHANGED <<source, mode, limit, step, samples, least>>

\* The data comes after what is there.
AppendNext ==
  /\ step = "append"
  /\ next <= Len(source.points)
  /\ plot' = Pushed(plot, source.points[next])
  /\ next' = next + 1
  /\ UNCHANGED <<source, mode, limit, step, resort, history>>

\* The data overlaps: pushUnsorted.
MergeNext ==
  /\ step = "merge"
  /\ next <= Len(source.points)
  /\ plot' = [plot EXCEPT !.points = Append(@, source.points[next])]
  /\ next' = next + 1
  /\ resort' = TRUE
  /\ UNCHANGED <<source, mode, limit, step, history>>

\* Variant: the series is not sorted after an overlapping merge.
SortUpdated ==
  /\ step \in {"update", "append", "merge"}
  /\ next > Len(source.points)
  /\ IF resort /\ step = "update"
       THEN /\ \E q \in Sortings(plot.points) : plot' = Resorted(plot, q)
            /\ spoiled' = TRUE
       ELSE UNCHANGED <<plot, spoiled>>
  /\ source' = Cleared(source)
  /\ step' = "done"
  /\ UNCHANGED <<mode, limit, next, resort, samples, kept, least>>

\* The loop is over: sort when samples were pushed unsorted, and clear the
\* source.
EndMerge ==
  /\ step \in {"update", "append", "merge"}
  /\ next > Len(source.points)
  /\ IF resort
       THEN /\ \E q \in Sortings(plot.points) : plot' = Resorted(plot, q)
            /\ spoiled' = TRUE
       ELSE UNCHANGED <<plot, spoiled>>
  /\ source' = Cleared(source)
  /\ step' = "done"
  /\ UNCHANGED <<mode, limit, next, resort, samples, kept, least>>

\* Back in the caller: the buffer's limit while streaming, whether or not the
\* series keeps to the source's; the end of the file's map otherwise.
EndMove ==
  /\ step = "done"
  /\ IF mode = "stream"
       THEN /\ plot' = Limited(plot, limit)
            /\ least' = Min({least, limit})
            /\ UNCHANGED <<source, mode>>
       ELSE /\ source' = Empty
            /\ mode' = "idle"
            /\ UNCHANGED <<plot, least>>
  /\ step' = "none"
  /\ next' = 1
  /\ resort' = FALSE
  /\ UNCHANGED <<limit, samples, kept, spoiled>>

Next ==
  \/ Start
  \/ \E file \in Files : Open(file)
  \/ \E p \in [x : Times, y : Values \cup {NaN}] : Receive(p)
  \/ Stop
  \/ \E l \in Limits \cup {Highest} : SetLimit(l)
  \/ Erase
  \/ AskRange
  \/ \E r \in BOOLEAN : StartMove(r)
  \/ Update
  \/ AppendNext
  \/ MergeNext
  \/ EndMerge
  \/ EndMove

Spec == Init /\ [][Next]_vars

-----------------------------------------------------------------------------
Sorted(q) == \A i, j \in 1 .. Len(q) : i <= j => q[i].x <= q[j].x

InWindow(s) ==
  s.max = Highest \/ Len(s.points) <= 2 \/ Final(s).x - First(s).x <= s.max

\* The range that is cached and said to be clean is the range there is.
RangeTrue(s) ==
  s.points # << >> =>
    /\ ~s.dx => s.rx = [min |-> Min(TimesOf(s)), max |-> Max(TimesOf(s))]
    /\ ~s.dy => s.ry = [min |-> Min(ValuesOf(s)), max |-> Max(ValuesOf(s))]

\* Whatever order samples come in, and however a batch of them overlaps what
\* is there, both series are in the order of time when no move is under way:
\* the searches of getIndexFromX and pushBack rely on it.
SortedByTime ==
  step = "none" => Sorted(plot.points) /\ Sorted(source.points)

\* A sample received is in the series or still in the streamer's, unless it
\* was erased, overwritten by one of the same time, or is older than the
\* shortest buffer there has been: no batch boundary, swap or late sample
\* loses one.
NothingLost ==
  step = "none" =>
    \A k \in kept :
      \/ k \in Content(plot) \cup Content(source)
      \/ \E n \in kept : k.x + least < n.x

\* When no move is under way neither series spans more than its limit, two
\* samples excepted.
WindowKept == step = "none" => InWindow(plot) /\ InWindow(source)

\* What pushBack, trimming and MergeData leave together, between moves.
SortedInWindow == SortedByTime /\ WindowKept

\* The cached ranges the plots are drawn with stay true through pushes, late
\* samples, trims, swaps and clears, as long as no NaN came, nothing was
\* overwritten and no merge had to sort.
RangesTrue == step = "none" /\ ~spoiled => RangeTrue(plot) /\ RangeTrue(source)

\* The tracker shows a sample no other is nearer to.
NearestSample ==
  step = "none" /\ plot.points # << >> =>
    \A t \in Times : LET n == IndexFromX(plot, t) IN
      /\ n \in 1 .. Len(plot.points)
      /\ \A i \in 1 .. Len(plot.points) :
           Distance(plot.points[n].x, t) <= Distance(plot.points[i].x, t)

\* Outside the loops that push unsorted the series is sorted, and within them
\* as long as they have not pushed.
PlotSorted ==
  /\ step \in {"none", "append", "done"} \/ ~resort => Sorted(plot.points)
  /\ step = "append" => ~resort

SourceSorted == Sorted(source.points)

PlotInWindow == step \in {"none", "append", "done"} \/ ~resort => InWindow(plot)

SourceInWindow == InWindow(source)

\* A merge overwrites, and sorts, only samples there are.
MergeInBounds ==
  /\ step = "update" => Len(source.points) <= Len(plot.points)
  /\ resort /\ step # "done" => plot.points # << >>

\* No move is under way without something that fills the source.
Resting ==
  /\ mode = "idle" => step = "none"
  /\ step = "none" => ~resort

\* The inductive invariant.
IInv ==
  /\ TypeOK
  /\ PlotSorted
  /\ SourceSorted
  /\ PlotInWindow
  /\ SourceInWindow
  /\ MergeInBounds
  /\ Resting

\* What is still to be moved, and all there is to be found.
Pending == {source.points[i] : i \in next .. Len(source.points)}
Held == Content(plot) \cup Pending

\* Of the samples C, none is later than every one in K.
Latest(K, C) == C # {} => \E n \in K \cap C : \A p \in C : p.x <= n.x

\* A sample in K is in C, or too old for a buffer of length l.
Found(K, C, l) == \A k \in K : k \in C \/ \E n \in K : k.x + l < n.x

\* No step of a move drops a sample that is not too old.
Complete ==
  /\ Latest(kept, Held)
  /\ Found(kept, Held, least)
  /\ step = "none" =>
       next = 1 /\ Latest(kept, Content(plot)) /\ Latest(kept, Content(source))
  /\ step = "done" \/ mode = "idle" => source.points = << >>
  /\ least <= plot.max /\ least <= source.max

\* A series without samples has no range to be trusted.
RangeKnown(s) == RangeTrue(s) /\ (s.points = << >> => s.dx /\ s.dy)

\* A range that is not true comes from a merge that has sorted or will sort.
RangesKnown ==
  /\ spoiled \/ RangeKnown(source)
  /\ spoiled \/ resort \/ RangeKnown(plot)
  /\ step = "done" /\ resort => spoiled

=============================================================================
