------------------------------ MODULE MonthData ------------------------------
(***************************************************************************)
(* From a month's raw file to the training split: validate.py (which rows  *)
(* are trips), quality.py (whether the month is fit to train on) and       *)
(* prepare.py (which months train, validate and test).  Content[f] is the  *)
(* sequence of trips of file f; a trip has the columns of                  *)
(* validity.dedupe_key, its times counted from the start of the month.     *)
(***************************************************************************)
EXTENDS Integers, Sequences, FiniteSets

CONSTANTS
    Content,                     \* file -> its trips: [start, end, pu, do]
    Null,                        \* a null cell
    MonthEnd,                    \* the month is [0, MonthEnd)
    DstWindows,                  \* <<lo, hi>>: hours of a DST day that are dropped
    ZoneMin, ZoneMax,            \* the zones the API serves
    MinDuration, MaxDuration,    \* validity: bounds of a trip's duration
    MinRaw, MinValid,            \* quality: rows a month must have,
    Precision,                   \*   rates are rounded to 1/Precision (10^6 in the code),
    MaxReject,                   \*   the part of the rows that may be rejected,
    MaxNull,                     \*   the part of a column that may be null, both in 1/Precision,
    LastZone,                    \*   the largest zone id TLC uses
    Implausible,                 \*   files whose percentiles or busiest pair are out of bounds
    StartMonth, Window           \* split.start_month, split.train_window_max

ASSUME MonthDataAssumption ==
    /\ MinDuration \in Nat \ {0} /\ MaxDuration \in Nat
    /\ MinRaw \in Nat /\ MinValid \in Nat \ {0}
    /\ Precision \in Nat \ {0} /\ MaxReject \in 0..Precision
    /\ 1 <= ZoneMin /\ ZoneMin <= ZoneMax /\ ZoneMax <= LastZone
    /\ StartMonth \in Nat /\ Window \in Nat \ {0}

\* A file is a finite sequence of trips; no null zone is tolerated in a month.
Cell == Int \cup {Null}

ASSUME FilesAssumption ==
    /\ \A file \in DOMAIN Content :
          Content[file] \in Seq([start : Cell, end : Cell, pu : Cell, do : Cell])
    /\ {"pu", "do"} \subseteq DOMAIN MaxNull /\ MaxNull["pu"] = 0 /\ MaxNull["do"] = 0

Files == DOMAIN Content
Rows(file) == DOMAIN Content[file]

-----------------------------------------------------------------------------
(* validate.py: one mask per rule, each False where a null hides the answer. *)

Known(cells) == \A c \in cells : c # Null

NullTimestamp(t) == ~Known({t.start, t.end})

PickupOutsideMonth(t) == Known({t.start}) /\ t.start \notin 0..(MonthEnd - 1)

\* A null in one of the two cells hides the other: pc.or_ of a null is null.
ZoneInvalid(t) == Known({t.pu, t.do}) /\ ~({t.pu, t.do} \subseteq ZoneMin..ZoneMax)

DstTransition(t) ==
    /\ Known({t.start, t.end})
    /\ \E w \in DstWindows, time \in {t.start, t.end} : w[1] <= time /\ time < w[2]

TooShort(t) == Known({t.start, t.end}) /\ t.end - t.start < MinDuration
TooLong(t)  == Known({t.start, t.end}) /\ t.end - t.start > MaxDuration

\* The same identity key as an earlier row, whatever the other rules say of that one.
DuplicateTrip(file, i) == \E j \in Rows(file) : j < i /\ Content[file][j] = Content[file][i]

Invalid(t) ==
    \/ NullTimestamp(t) \/ PickupOutsideMonth(t) \/ ZoneInvalid(t)
    \/ DstTransition(t) \/ TooShort(t) \/ TooLong(t)

\* rule_masks, RULES: the rows some rule rejects.
Rejected(file, i) ==
    \/ Invalid(Content[file][i])
    \/ DuplicateTrip(file, i)

\* apply_rules: the rows that are kept in data/validated.
Kept(file) == {i \in Rows(file) : ~Rejected(file, i)}

-----------------------------------------------------------------------------
(* quality.py: the acceptance rules, on the raw month and on what was kept. *)

Nulls(file, column) == {i \in Rows(file) : Content[file][i][column] = Null}
Zones(file) == ({Content[file][i].pu : i \in Rows(file)} \cup {Content[file][i].do : i \in Rows(file)}) \ {Null}

\* round(k / n, 6) <= ceiling: the rate may exceed its ceiling by half a unit.
RateWithin(k, n, ceiling) == 2 * Precision * k <= (2 * ceiling + 1) * n

NullRatesWithin(file) ==
    \A c \in DOMAIN MaxNull :
        RateWithin(Cardinality(Nulls(file, c)), Len(Content[file]), MaxNull[c])

\* An all-null zone column has range 0-0, which is out of range too.
ZoneIdsInRange(file) ==
    /\ Zones(file) \subseteq 1..LastZone
    /\ \A c \in {"pu", "do"} : Nulls(file, c) # Rows(file)

RejectRateWithin(file) ==
    /\ Rows(file) # {}
    /\ RateWithin(Len(Content[file]) - Cardinality(Kept(file)), Len(Content[file]), MaxReject)

\* Mutant: the null rates are reported and not enforced.
QualityWithoutNulls(file) ==
    /\ Len(Content[file]) >= MinRaw /\ Cardinality(Kept(file)) >= MinValid
    /\ RejectRateWithin(file) /\ ZoneIdsInRange(file) /\ file \notin Implausible

\* check: every rule passes.
Quality(file) ==
    /\ Len(Content[file]) >= MinRaw /\ Cardinality(Kept(file)) >= MinValid
    /\ RejectRateWithin(file) /\ NullRatesWithin(file) /\ ZoneIdsInRange(file)
    /\ file \notin Implausible

\* The files whose month passes.
Passing == {file \in Files : Quality(file)}

-----------------------------------------------------------------------------
(* prepare.py: the split over the contiguous months. *)

Largest(months) == CHOOSE m \in months : \A k \in months : k <= m

\* month_sequence: from the start month on, refusing to skip one; derive_split
\* needs three of them.
Sequenced(available) == {m \in available : m >= StartMonth}
Splits(available) ==
    LET months == Sequenced(available) IN
    /\ StartMonth \in months
    /\ \A m \in months : \A k \in StartMonth..m : k \in months
    /\ Cardinality(months) >= 3

\* derive_split: the newest month tests, the one before validates, and at most
\* Window months before that train.
Split(available) ==
    LET months == Sequenced(available)
        test   == Largest(months)
    IN  [train |-> {m \in months : test - 1 - Window <= m /\ m <= test - 2},
         val   |-> test - 1,
         test  |-> test]

\* dvc repro: validate and quality go through every month's file, and a failure
\* of one of them stops the pipeline before prepare.
Repro(data) ==
    /\ \A m \in DOMAIN data : data[m] \in Passing
    /\ Splits(DOMAIN data)
=============================================================================
