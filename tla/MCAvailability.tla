---------------------------- MODULE MCAvailability ----------------------------
(* Small networks for model checking the availability monitor. *)
EXTENDS AvailabilityMonitor

CONSTANTS e1, x1, x2, r1

\* Everybody may see everybody.
FullMesh == {<<a, b>> \in (Ids \X Ids) : a # b}

\* e1 - x1 <- x2: the second exit is only reachable through the first, so two
\* nodes ping in parallel and one hop routes relay through an exit.
Line == {<<e1, x1>>, <<x1, e1>>, <<x2, x1>>}

\* What the routes in the line need: the ends may pay the exit between them.
Ends == {<<e1, x1>>, <<x2, x1>>}
==============================================================================
