----------------------------- MODULE MCTimeSeries -----------------------------
EXTENDS TimeSeries

MCTimes == {1, 2, 4}
MCValues == 1 .. 2
MCLowest == -100
MCHighest == 100
MCLimits == {2}
MCPoint(t, v) == [x |-> t, y |-> v]
MCFiles ==
  {<< >>,
   <<MCPoint(1, 1), MCPoint(2, 1), MCPoint(4, 2)>>,
   <<MCPoint(1, 2), MCPoint(1, 1), MCPoint(4, 1)>>}

=============================================================================
