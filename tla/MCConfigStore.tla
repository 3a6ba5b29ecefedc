---------------------------- MODULE MCConfigStore ----------------------------
(* Small instances of ConfigStore for TLC. *)
EXTENDS ConfigStore, TLC

CONSTANTS r1, r2, a1, a2, e1, e2, g, h, p, q, f1, f2, project

TwoRequests == {r1, r2}
Accounts    == {a1, a2}
Endpoints   == {e1, e2}

OneEndpoint ==
  [accounts  |-> [a \in Accounts |-> IF a = a1 THEN [group |-> g, chk |-> 1] ELSE None],
   endpoints |-> [e \in Endpoints |-> IF e = e1 THEN [account |-> a1, path |-> p, hot |-> 1, late |-> 0] ELSE None],
   secret |-> FALSE, fields |-> {}, child |-> {},
   tokens |-> [x \in {project} |-> None]]

\* The same service with the dataset API published for one project.
WithProject ==
  [OneEndpoint EXCEPT !.secret = TRUE, !.fields = {f1},
                      !.tokens[project] = [fields |-> {f1}, scope |-> "daily"]]

StartBoth == {OneEndpoint, WithProject}

RequestSymmetry == Permutations(TwoRequests)
==============================================================================
