------------------------------ MODULE MCRetrain ------------------------------
(***************************************************************************)
(* A small instance of Retrain for TLC: three months on main, two to come; *)
(* two fit files (the second with a duplicate and a trip too long) and one *)
(* with a trip of unknown zones.                                           *)
(***************************************************************************)
EXTENDS Retrain, TLC

CONSTANTS good, revised, unzoned

Trip(s, e, p, d) == [start |-> s, end |-> e, pu |-> p, do |-> d]

MCContent ==
    LET a == Trip(1, 4, 1, 2)
        b == Trip(2, 5, 1, 1)
    IN  (good :> <<a, b>>)
        @@ (revised :> <<a, b, b, Trip(3, 9, 2, 2)>>)
        @@ (unzoned :> <<a, b, Trip(3, 6, Null, 3)>>)

MCMain0 == [m \in 1..3 |-> good]
MCMaxNull == [c \in {"start", "end", "pu", "do"} |-> 0]
MCDst == {<<7, 8>>}

Request(m, c, r) == [month |-> m, checkOnly |-> c, rebuild |-> r]
MCRequests ==
    {Request(None, TRUE, FALSE), Request(4, FALSE, TRUE),
     Request(5, FALSE, FALSE), Request(5, FALSE, TRUE)}
=============================================================================
