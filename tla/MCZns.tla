-------------------------------- MODULE MCZns ---------------------------------
(* What the host may ask of zones of eight sectors in four pages on two banks. *)
(* Bitmaps of zns_tl_open: nothing, parts of pages, a page, all but the last   *)
(* sector; all of them for a host that is not careful.  Lists of zns_izc:      *)
(* none, one that repeats a sector and ends in a page, the zone reversed.      *)
EXTENDS Zns

Bitmap(S) == [s \in Sectors |-> IF s \in S THEN 1 ELSE 0]
SomeMaps  == {Bitmap(S) : S \in {{}, {0, 3, 4, 5}, 2 .. 7, 0 .. 6}}
FullMaps  == {Bitmap(S) : S \in {{}, Sectors}}
SomeLists == {<<>>, <<6, 1, 1>>, <<7, 6, 5, 4, 3, 2, 1, 0>>}
===============================================================================
