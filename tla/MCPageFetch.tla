----------------------------- MODULE MCPageFetch -----------------------------
(* A small instance of PageFetch for TLC. *)
EXTENDS PageFetch

ThreeKeys == 1..3

R(k, how) == [key |-> k, kind |-> how]

\* Three rows; a page of rows that an inventory does not keep before one that it
\* keeps; a row of an unknown channel.
AtFirst == {<<R(1, "good"), R(2, "good"), R(3, "good")>>,
            <<R(1, "other"), R(2, "bare"), R(3, "good")>>,
            <<R(1, "odd")>>}
==============================================================================
