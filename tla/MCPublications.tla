--------------------------- MODULE MCPublications ---------------------------
(* Two heights and a second best block at the upper one; a stream of each      *)
(* kind would double the states, so the connection is a server-sent one.       *)
EXTENDS Publications

MCHeight == <<1, 2, 2>>
MCWants  == [h \in Hook |-> {"sync"}]
=============================================================================
