---------------------------- MODULE MCDatasetFeed ----------------------------
(* A small instance of DatasetFeed for TLC. *)
EXTENDS DatasetFeed

\* One plain table row and one with two line items, and two scopes.
Keys      == 1..3
TableRows == {{1, 3}, {2}}
Scopes    == {{1, 2, 3}, {1, 2}}
==============================================================================
