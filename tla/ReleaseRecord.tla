----------------------------- MODULE ReleaseRecord -----------------------------
(***************************************************************************)
(* What src/tripduration/registry.py promises of a release: each command   *)
(* of scripts/promote.py changes both aliases and all four files at once,  *)
(* or changes nothing.  ReleaseTransaction implements it with a journal.   *)
(***************************************************************************)
EXTENDS ReleaseData

CONSTANTS
  MaxRows,     \* bound: commands stop when promotions.md has this many rows
  Edits        \* which hand edits happen: a subset of {"between", "during"}

VARIABLES
  alias,       \* the registry's aliases
  file         \* the four release files

vars == <<alias, file>>

Init == StartingRecord(alias, file)

Write(plan) ==
  \E pl \in Platforms :
    /\ alias' = plan.after
    /\ file' = NewFiles(plan, pl, file)

RoomInLog == Len(LogOf(file)) < MaxRows

Promote(v) ==
  /\ RoomInLog
  /\ Consistent(alias, file)
  /\ Write(PromotePlan(v, alias, file))

Rollback ==
  /\ RoomInLog
  /\ file["champion"] # None
  /\ file["champion"].previous # None
  /\ Consistent(alias, file)
  /\ Write(RollbackPlan(file))

Refresh ==
  /\ file["champion"] # None
  /\ AliasMatches(alias, file)
  /\ Write(RefreshPlan(alias, file))

\* Someone moves an alias in the MLflow UI, or edits the fixture by hand.
Edit ==
  /\ "between" \in Edits
  /\ \/ /\ \E x \in Aliases, v \in MaybeVersion : alias' = [alias EXCEPT ![x] = v]
        /\ UNCHANGED file
     \/ /\ file["fixture"] # None
        /\ file' = [file EXCEPT !["fixture"].version = None]
        /\ UNCHANGED alias

Next == (\E v \in Versions : Promote(v)) \/ Rollback \/ Refresh \/ Edit

Spec == Init /\ [][Next]_vars

=============================================================================
