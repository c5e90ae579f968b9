----------------------------- MODULE MCTimeSeries -----------------------------
(* Profiles for TimeSeries. *)
EXTENDS TimeSeries

Line(t, v) == [time |-> t, value |-> v]

\* a plain profile; one that begins late and repeats lines, once with the same
\* value at another time; a single line; two that the constructor refuses
MCStreams ==
  { <<Line(0, 1), Line(1, -1), Line(3, 2), Line(4, 0)>>,
    <<Line(1, 2), Line(1, 2), Line(2, 2), Line(4, -1)>>,
    <<Line(0, 1)>>,
    <<Line(0, 1), Line(2, 1), Line(1, 0)>>,
    <<>> }
=============================================================================
