---------------------------- MODULE ImageRetention ----------------------------
(***************************************************************************)
(* scripts/ecr_retention.py and deploy/aws/ecr-lifecycle.json: which       *)
(* images of the repository are pinned, and which AWS may expire.  Images  *)
(* are numbered in the order they were pushed; a number is a digest.       *)
(* Every image keeps the release tag it was pushed with (the repository is *)
(* IMMUTABLE), so removing its pin never removes its last tag.             *)
(***************************************************************************)
EXTENDS Naturals, FiniteSets

CONSTANTS
  KeepNewest,  \* how many of the newest images the last rule keeps (5)
  MaxPins      \* how many pinned images the first rule keeps (10)

ASSUME RetentionAssumption ==
  /\ KeepNewest \in Nat \ {0}
  /\ MaxPins \in Nat \ {0, 1}

Newest(images, n) == {i \in images : Cardinality({j \in images : j > i}) < n}

\* The lifecycle policy: the first rule selects the pinned images, and what it
\* selects the second one, which counts every image, cannot expire.
Expired(images, pins) ==
  LET pinned == images \cap pins
  IN (pinned \ Newest(pinned, MaxPins))
       \cup ((images \ pinned) \ Newest(images, KeepNewest))

\* release-pins: what stays pinned after a deploy.  A redeploy of the image
\* that was live already is no transition, and the earlier target stays.
ReleasePins(deployed, previous, old) ==
  IF deployed # previous THEN {deployed, previous} ELSE {deployed} \cup old

\* pin refuses too many images, and an image that is not in the repository.
CanPin(digests, images) == Cardinality(digests) <= MaxPins /\ digests \subseteq images

=============================================================================
