------------------------------ MODULE MCIngest ------------------------------
(***************************************************************************)
(* A small instance of Ingest for TLC: two months, of which month 1 goes   *)
(* overdue when the calendar moves; two admitted contents of one length,   *)
(* of which c2 spells one column twice, and a third of another length with *)
(* an unknown column.                                                      *)
(***************************************************************************)
EXTENDS Ingest, TLC

CONSTANTS c1, c2, drifted, lookup, pickup, fee, feeOld, extra, zone

MCNames ==
    (c1 :> {pickup, fee}) @@ (c2 :> {pickup, fee, feeOld})
    @@ (drifted :> {pickup, extra}) @@ (lookup :> {zone})

MCSize == (c1 :> 1) @@ (c2 :> 1) @@ (drifted :> 2) @@ (lookup :> 3)
MCServable == (1 :> {c1, c2, drifted}) @@ (2 :> {c1}) @@ (Zones :> {lookup})
MCSource0 == {(1 :> c) @@ (2 :> None) @@ (Zones :> lookup) : c \in {c1, drifted}}
MCVariants == (pickup :> {}) @@ (fee :> {feeOld})
MCRequests == {<<1, 2>>, <<2>>, <<Zones>>}
=============================================================================
