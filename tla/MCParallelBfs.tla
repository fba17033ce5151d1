--------------------------- MODULE MCParallelBfs ---------------------------
(***************************************************************************)
(* Two maps for the search from house 1.                                   *)
(*                                                                         *)
(*   Tree: two workers share at a     Diamond: a level of three vertices,  *)
(*   time, house 8 is found from      and house 6 can be reached on a      *)
(*   two vertices of a level and on   short and on a longer way.           *)
(*   a longer way from 9, and house                                        *)
(*   10 is unreachable.                                                    *)
(*              1                                1                         *)
(*          2       3                          / | \                       *)
(*         4 5     6 7     10                 2  3  4                      *)
(*          8 ---- 9                          |  |                         *)
(*                                            5 -6                         *)
(***************************************************************************)
EXTENDS ParallelBfs

TreeHouses == <<8, 1, 7, 10>>
TreeRoads == <<<<1, 2>>, <<1, 3>>, <<2, 4>>, <<2, 5>>, <<3, 6>>, <<3, 7>>,
               <<4, 8>>, <<5, 8>>, <<6, 9>>, <<8, 9>>>>

DiamondHouses == <<1, 4, 6>>
DiamondRoads == <<<<1, 2>>, <<1, 3>>, <<1, 4>>, <<2, 5>>, <<3, 6>>, <<5, 6>>>>
=============================================================================
