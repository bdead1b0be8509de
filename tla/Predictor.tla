----------------------------- MODULE Predictor -----------------------------
(***************************************************************************)
(* What an image serves (api/deps.py, release.py): the files it carries    *)
(* decide once, at load, which predictor answers, under which label, and   *)
(* what the service says of itself.  Every failure has a defined answer.   *)
(***************************************************************************)
EXTENDS Naturals, FiniteSets

CONSTANTS
    Releases,       \* release ids
    Absent          \* no such file, or no value

ASSUME PredictorAssumption == Absent \notin Releases

\* The usability of each file.  A model or a table is usable and the one that
\* champion.json names, usable and another one, or not usable.
Image ==
    [config : BOOLEAN, reference : BOOLEAN,
     champion : {"valid", "absent", "bad"},
     release : Releases \cup {Absent, "bad"},
     model : {"champion", "other", "bad"}, fallback : {"champion", "other", "bad"}]

\* Which predictor answers when everything works.
Kind(i) ==
    CASE ~i.config \/ ~i.reference -> "none"
      [] i.config /\ i.reference /\ i.model # "bad" -> "model"
      [] i.config /\ i.reference /\ i.model = "bad" /\ i.fallback # "bad" -> "fallback"
      [] OTHER -> "none"

\* Mutant: bytes that are not the champion's get no label.
LabelMissing(file, i) == IF i.champion = "valid" /\ file = "champion" THEN "champion" ELSE Absent

\* The version in an answer is the champion's only when the bytes are the ones
\* champion.json names.
Label(file, i) ==
    IF i.champion = "valid" /\ file = "champion" THEN "champion" ELSE "unregistered"

ModelVersion(i) ==
    CASE Kind(i) = "model"    -> Label(i.model, i)
      [] Kind(i) = "fallback" -> Label(i.fallback, i)
      [] OTHER -> "unavailable"

ReleaseId(i)    == IF i.release \in Releases THEN i.release ELSE Absent
ReleaseError(i) == i.champion = "bad" \/ i.release = "bad"

\* `failing`: the model failed on the last prediction it was asked for.
Status(i, failing) ==
    CASE Kind(i) = "none" -> "unavailable"
      [] Kind(i) = "fallback" -> "degraded"
      [] Kind(i) = "model" /\ (ReleaseError(i) \/ failing) -> "degraded"
      [] OTHER -> "ok"
=============================================================================
