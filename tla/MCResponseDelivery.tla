------------------------- MODULE MCResponseDelivery -------------------------
(* Instances of ResponseDelivery for TLC: one timing of each kind the form  *)
(* allows, with chunks shorter than the answer.                             *)
EXTENDS ResponseDelivery, TLC

Timing(mode, unit, quick, min, max) ==
    [mode |-> mode, unit |-> unit, quick |-> quick, min |-> min, max |-> max]

Kinds ==
    { Timing("NORMAL", "CHARACTER", FALSE, 1, 1),
      Timing("DELAYED", "CHARACTER", FALSE, 2, 2), Timing("DELAYED", "CHARACTER", TRUE, 2, 2),
      Timing("SLOW", "CHARACTER", FALSE, 1, 2), Timing("SLOW", "CHARACTER", FALSE, 3, 3),
      Timing("SLOW", "CHUNK", FALSE, 1, 2), Timing("FAST", "CHARACTER", FALSE, 2, 2),
      Timing("SLOW", "WORD", FALSE, 1, 2), Timing("FAST", "WORD", FALSE, 1, 1) }
SlowWords == {Timing("SLOW", "WORD", FALSE, 1, 1)}
=============================================================================
