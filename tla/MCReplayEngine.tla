--------------------------- MODULE MCReplayEngine ---------------------------
(***************************************************************************)
(* ReplayEngine on small instances: one stream over every log of up to     *)
(* MaxOffset offsets with any of them missing, every job below.            *)
(***************************************************************************)
EXTENDS ReplayEngine

Job(a, b, d, x) == [start |-> a, end |-> b, dryRun |-> d, script |-> x]

\* Every range over 0..4 (also empty, reversed and outside the log), with and
\* without a script, as a real and as a dry run.
AllJobs == {Job(a, b, d, x) : a \in 0..3, b \in 0..4, d \in BOOLEAN, x \in BOOLEAN}

\* One plain job: the message at offset_end exists.
PlainJob == {Job(1, 2, FALSE, FALSE)}
=============================================================================
