------------------------------ MODULE MCMirror ------------------------------
(* One name with everything it may hold, a chain of a few blocks and a table   *)
(* of four rows.                                                               *)
EXTENDS Mirror

MCScore     == [m \in Member |-> IF m = "p" THEN 1 ELSE 2]
MCFirstRows == <<"a", "b", "c", "d">>
=============================================================================
