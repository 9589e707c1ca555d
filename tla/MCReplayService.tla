-------------------------- MODULE MCReplayService ---------------------------
(***************************************************************************)
(* ReplayService on small instances.  The source log holds every offset up *)
(* to its end.                                                             *)
(***************************************************************************)
EXTENDS ReplayService, TLC

Job(a, b, d, x) == [start |-> a, end |-> b, dryRun |-> d, script |-> x]

\* Two messages are replayed: offsets 1 and 2.
TwoMessages == {Job(1, 3, FALSE, FALSE)}

\* The log goes on past the range from the start.
FullLog ==
  /\ ServiceInit
  /\ latest = MaxOffset
  /\ records = Earliest..(latest - 1)

SafeOnFullLog == FullLog /\ [][Next]_vars
SpecOnFullLog == FullLog /\ [][Next]_vars /\ Fairness

\* The log ends where the range does, and grows (or not) during the replay.
GrowingLog ==
  /\ ServiceInit
  /\ latest = MaxOffset - 1
  /\ records = Earliest..(latest - 1)

SafeOnGrowingLog == GrowingLog /\ [][Next]_vars

Interchangeable == Permutations(Streams)
=============================================================================
