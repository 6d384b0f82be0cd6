------------------------------- MODULE MCWatch -------------------------------
(* TLC instance of the watch, with the intervals of the code scaled down but *)
(* kept in their order.                                                      *)
EXTENDS WatchLink, TLC

CONSTANTS d1, d2
=============================================================================
