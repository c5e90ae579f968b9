------------------------------- MODULE Rainflow -------------------------------
(***************************************************************************)
(* src/src/misc/rainflow.cpp: countCycles, rainflow counting after ASTM    *)
(* E1049-85, by which the cyclical aging turns the samples of the state of *)
(* charge into cycles.  Values are integers, positions start at 1, and the *)
(* cycle count is in halves: 1 for a half cycle, 2 for a full one.         *)
(***************************************************************************)
EXTENDS Integers, Sequences, SequencesExt, FiniteSetsExt

\* abs of the standard library
Distance(x, y) == IF x < y THEN y - x ELSE x - y

Cycle(values, start, end, halves) ==
  [halves |-> halves, depth |-> Distance(values[start], values[end]), start |-> start, end |-> end]

\* a position is a reversal when the next value goes the other way
Look(values, st, i) ==
  IF IF st.up THEN values[i + 1] < values[i] ELSE values[i + 1] > values[i]
  THEN [found |-> Append(st.found, i), up |-> ~st.up]
  ELSE st

\* the positions of the reversals; the first and the last value always are,
\* between them maxima and minima alternate
Reversals(values) ==
  LET look[k \in 0..(Len(values) - 2)] ==
        IF k = 0 THEN [found |-> <<1>>, up |-> values[1] <= values[2]] ELSE Look(values, look[k - 1], k + 1)
  IN Append(look[Len(values) - 2].found, Len(values))

\* mutant: a cycle in the middle counts as a half, too
CountingTurnHalf(values, st) ==
  LET n  == Len(st.read)
      y1 == st.read[n - 2]
      y2 == st.read[n - 1]
      x2 == st.read[n]
      enough == n >= 3 /\ Distance(values[y2], values[x2]) >= Distance(values[y1], values[y2])
  IN IF ~enough
     THEN IF st.unread = <<>> THEN st
          ELSE [st EXCEPT !.read = Append(@, Head(st.unread)), !.unread = Tail(@)]
     ELSE IF n = 3
          THEN [st EXCEPT !.read = <<y2, x2>>, !.cycles = Append(@, Cycle(values, y1, y2, 1))]
          ELSE [st EXCEPT !.read = Append(SubSeq(@, 1, n - 3), x2), !.cycles = Append(@, Cycle(values, y1, y2, 1))]

\* One turn of the loop.  st.read are the reversals up to lastRead that are not
\* discarded, the first of which is S; the last three make the ranges Y and X.
CountingTurn(values, st) ==
  LET n  == Len(st.read)
      y1 == st.read[n - 2]
      y2 == st.read[n - 1]
      x2 == st.read[n]
      enough == n >= 3 /\ Distance(values[y2], values[x2]) >= Distance(values[y1], values[y2])
  IN IF ~enough
     THEN IF st.unread = <<>> THEN st
          ELSE [st EXCEPT !.read = Append(@, Head(st.unread)), !.unread = Tail(@)]
     ELSE IF n = 3
          THEN [st EXCEPT !.read = <<y2, x2>>, !.cycles = Append(@, Cycle(values, y1, y2, 1))]
          ELSE [st EXCEPT !.read = Append(SubSeq(@, 1, n - 3), x2), !.cycles = Append(@, Cycle(values, y1, y2, 2))]

\* Each turn reads a reversal or discards one or two.
CountCycles(values) ==
  IF Len(values) < 2 THEN <<>>
  ELSE LET reversals == Reversals(values)
           turn[k \in 0..(2 * Len(reversals))] ==
             IF k = 0 THEN [read |-> <<>>, unread |-> reversals, cycles |-> <<>>] ELSE CountingTurn(values, turn[k - 1])
           st == turn[2 * Len(reversals)]
       IN st.cycles \o [i \in 1..(Len(st.read) - 1) |-> Cycle(values, st.read[i], st.read[i + 1], 1)]

-----------------------------------------------------------------------------
(* What the counting is for, by definition *)

\* the sum of the first n values of f
SumTo(f, n) ==
  LET sum[k \in 0..n] == IF k = 0 THEN 0 ELSE sum[k - 1] + f[k]
  IN sum[n]

\* the whole way up and down
TotalVariation(values) ==
  SumTo([i \in 1..(Len(values) - 1) |-> Distance(values[i], values[i + 1])], Len(values) - 1)

SpanOf(values) == Max(ToSet(values)) - Min(ToSet(values))

\* the way that the cycles stand for
CountedWay(cycles) == SumTo([i \in DOMAIN cycles |-> cycles[i].halves * cycles[i].depth], Len(cycles))
===============================================================================
