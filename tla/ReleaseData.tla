------------------------------ MODULE ReleaseData ------------------------------
(***************************************************************************)
(* What a release record is, in src/tripduration/registry.py: two registry *)
(* aliases and four files in git, and the record each command asks for.    *)
(*                                                                         *)
(* A file is its content.  champion.json is the version it names, the one  *)
(* it would roll back to, the action that wrote it and the fixture it      *)
(* vouches for (fixture_sha256); champion_meta.json is the version it was  *)
(* copied from; champion_fixture.csv is the version and the platform its   *)
(* predictions were computed with; promotions.md is its sequence of rows.  *)
(* The sha256 of a file is its content.                                    *)
(***************************************************************************)
EXTENDS Naturals, Sequences

CONSTANTS
  Versions,    \* the registered model versions
  Platforms,   \* where a fixture can be computed (arm64, x86_64)
  None         \* no version, no file, no journal, no recorded fixture

Aliases == {"champion", "challenger"}
Keys == {"champion", "meta", "fixture", "log"}

\* The order of the release steps: both aliases, then the four files as the
\* journal lists them, which is written with sorted keys and read back.
StepOf == <<"champion", "challenger", "champion", "fixture", "log", "meta">>
AliasSteps == 1..2
FileSteps == 3..6
Done == 7

MaybeVersion == Versions \cup {None}

Fixtures == [version : MaybeVersion, platform : Platforms]

Champions ==
  [version : Versions, previous : MaybeVersion,
   action : {"promote", "rollback"}, fixture : Fixtures \cup {None}]

Rows == [action : {"promote", "rollback"}, from : MaybeVersion, to : Versions]

AliasStates == [Aliases -> MaybeVersion]

FileStates == [Keys -> Champions \cup MaybeVersion \cup Fixtures \cup Seq(Rows)]

\* None is nothing else: no version, no platform and no file's content.
ASSUME DataAssumption ==
  /\ Platforms # {}
  /\ None \notin Versions \cup Platforms
  /\ None \notin Champions \cup Fixtures
  /\ None \notin Seq(Rows)

\* Four files, each absent or with a content of its kind.
FilesOK(f) ==
  /\ f = [k \in Keys |-> f[k]]
  /\ f["champion"] = None \/ f["champion"] \in Champions
  /\ f["meta"] \in MaybeVersion
  /\ f["fixture"] = None \/ f["fixture"] \in Fixtures
  /\ f["log"] = None \/ f["log"] \in Seq(Rows)

NoFiles == [k \in Keys |-> None]

NoAliases == [x \in Aliases |-> None]

\* champion.json written before fixtures were vouched for, with its row.
LegacyFiles(v) ==
  [k \in Keys |->
    CASE k = "champion" -> [version |-> v, previous |-> None,
                            action |-> "promote", fixture |-> None]
      [] k = "log" -> <<[action |-> "promote", from |-> None, to |-> v]>>
      [] OTHER -> None]

\* Nothing promoted yet, or a release from before the transaction.
StartingRecord(a, f) ==
  \/ a = NoAliases /\ f = NoFiles
  \/ \E v \in Versions : /\ a = [NoAliases EXCEPT !["champion"] = v]
                         /\ f = LegacyFiles(v)

LogOf(f) == IF f["log"] = None THEN <<>> ELSE f["log"]

\* What a command will write: the new record, and the aliases it leaves.
Actions == {"promote", "rollback", "refresh"}

Plans ==
  [action : Actions, version : Versions, previous : MaybeVersion,
   recorded : {"promote", "rollback"}, after : AliasStates]

-----------------------------------------------------------------------------

\* The alias champion and champion.json name the same version (or neither any).
AliasMatches(a, f) ==
  a["champion"] = IF f["champion"] = None THEN None ELSE f["champion"].version

\* The fixture on disk is the one champion.json vouches for.  A record from
\* before the fixture_sha256 field vouches for none and is not compared.
FixtureMatches(f) ==
  f["champion"] # None => f["champion"].fixture \in {None, f["fixture"]}

Consistent(a, f) == AliasMatches(a, f) /\ FixtureMatches(f)

\* promote --version v: the old champion becomes challenger and previous.
PromotePlan(v, a, f) ==
  LET current == IF f["champion"] = None THEN None ELSE f["champion"].version
  IN [action |-> "promote", version |-> v, previous |-> current,
      recorded |-> "promote",
      after |-> [x \in Aliases |->
                  IF x = "champion" THEN v
                  ELSE IF current \notin {None, v} THEN current
                  ELSE a["challenger"]]]

\* promote --rollback: the champion and the version it replaced change places.
RollbackPlan(f) ==
  LET current == f["champion"]
  IN [action |-> "rollback", version |-> current.previous,
      previous |-> current.version, recorded |-> "rollback",
      after |-> [x \in Aliases |->
                  IF x = "champion" THEN current.previous ELSE current.version]]

\* promote --refresh: the same release, written again; no alias moves.
RefreshPlan(a, f) ==
  LET current == f["champion"]
  IN [action |-> "refresh", version |-> current.version,
      previous |-> current.previous, recorded |-> current.action, after |-> a]

\* What a plan writes to one of the files: the fixture is computed on the
\* platform at hand and the row follows the log it found.
NewFile(plan, pl, f, k) ==
  LET fixture == [version |-> plan.version, platform |-> pl]
      row == [action |-> plan.recorded, from |-> plan.previous, to |-> plan.version]
  IN CASE k = "champion" -> [version |-> plan.version, previous |-> plan.previous,
                             action |-> plan.recorded, fixture |-> fixture]
       [] k = "meta" -> plan.version
       [] k = "fixture" -> fixture
       [] k = "log" ->
            IF plan.action = "refresh" THEN LogOf(f) ELSE Append(LogOf(f), row)

NewFiles(plan, pl, f) == [k \in Keys |-> NewFile(plan, pl, f, k)]

=============================================================================
