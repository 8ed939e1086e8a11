--------------------------- MODULE MCTaskRegistry ---------------------------
(* Instances of TaskRegistry for TLC. *)
EXTENDS TaskRegistry, TLC

CONSTANTS first, second, a, b, r1, r2

\* Servers differ by their name only: the first task may always be on a.
MCArrivals == (Tasks \X Servers) \ {<<first, b>>}

BothWays  == {TRUE, FALSE}
WithRedis == {TRUE}
NoRedis   == {FALSE}
=============================================================================
