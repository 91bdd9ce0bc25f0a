----------------------------- MODULE MCNextBus -----------------------------
(* Small instances of NextBus: one tick in the hour before last, and two in each
   of the hours around midnight. *)
EXTENDS NextBus

CONSTANTS r1, r2, stop, typo, A, B

MCRequests == {r1, r2}
OneRequest == {r1}
MCNames    == {A, B}
MCKnown    == {stop}
MCStops    == {stop, typo, NoStop}

Ask1(s, routes, p) == [stop |-> s, routes |-> routes, prognosis |-> p]
MCQueries ==
  {Ask1(stop, {A}, TRUE), Ask1(typo, {A, B}, FALSE), Ask1(NoStop, {A}, FALSE)}

T(name, schedule, scheduled, estimated, begin, end, value) ==
  [name |-> name, schedule |-> schedule, scheduled |-> scheduled,
   estimated |-> estimated, begin |-> begin, end |-> end, value |-> value]
At(name, t)        == T(name, "event", t, 0, 0, 0, 0)
About(name, t)     == T(name, "event", ZeroTime, t, 0, 0, 0)
Every(name, n, e)  == T(name, "frequency", 0, 0, 4, e, n)
Nothing(name)      == T(name, "none", 0, 0, 0, 0, 0)

\* Out of order, around midnight, by frequency, and on another route; and a bus
\* that leaves soon, or has left, with nothing else to show.
MCTimetables ==
  {<<Every(A, 2, 1), About(B, 1), At(A, 3), At(A, 2)>>,
   <<About(A, 1), Nothing(A), Every(B, 1, 5)>>}

MCHourOf == [t \in 0..5 |-> <<22, 23, 23, 0, 0, 1>>[t + 1]]
MCDayOf  == [t \in 0..5 |-> IF t < 3 THEN 0 ELSE 1]

=============================================================================
