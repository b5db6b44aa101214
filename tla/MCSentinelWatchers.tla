----------------------- MODULE MCSentinelWatchers -----------------------
(* SentinelWatchers on small instances. *)
EXTENDS SentinelWatchers, TLC

CONSTANTS w1, w2, c1, loop

AnyShape == [repeat : BOOLEAN, baseline : BOOLEAN]
OneShot == [repeat : {FALSE}, baseline : {FALSE}]
Symmetry == Permutations(Ids)
=========================================================================
