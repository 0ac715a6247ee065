-------------------------------- MODULE MCTimer --------------------------------
(***************************************************************************)
(* Small instances of Timer: a slot of two milliseconds and intervals of   *)
(* two slots or more stand for the slot of 20 ms and the 100 ms minimum.   *)
(***************************************************************************)
EXTENDS Timer

LoopsMixed == {-1, 0, 2}
LoopsForever == {-1}
=============================================================================
