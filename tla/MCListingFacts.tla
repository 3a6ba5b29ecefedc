---------------------------- MODULE MCListingFacts ----------------------------
(* Small instances of ListingFacts for TLC. *)
EXTENDS ListingFacts

CONSTANTS units,         \* a column
          salesSync,     \* the worker of an endpoint
          backfill,      \* a rebuild, from the command line
          cron, posted,  \* two calls that share a report
          server, command, sales, listing

ThreeJobs   == {salesSync, backfill, cron}
TwoCalls    == {cron, posted}
OneColumn   == {units}
OneListing  == {listing}
OneReport   == {sales}

JobKinds    == [j \in Jobs |-> CASE j = backfill -> "rebuild"
                                 [] j \in {cron, posted} -> "report"
                                 [] OTHER -> "sync"]
Processes   == [j \in Jobs |-> IF j = backfill THEN command ELSE server]
Stored      == [j \in Jobs |-> {units}]
SalesReport == [j \in Jobs |-> sales]
CoversUnits == [r \in Reports |-> {units}]
=============================================================================
