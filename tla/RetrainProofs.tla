----------------------------- MODULE RetrainProofs -----------------------------
(***************************************************************************)
(* Proofs about MonthData and Retrain, for every set of files, months and  *)
(* bounds.                                                                 *)
(***************************************************************************)
EXTENDS Retrain, FiniteSetTheorems, NaturalsInduction, TLAPS

-----------------------------------------------------------------------------
(* Least and largest months *)

LessThan == {p \in Nat \X Nat : p[1] < p[2]}

LEMMA LessThanIsWellFounded == IsWellFoundedOn(LessThan, Nat)
<1>1. OpToRel(<, Nat) = LessThan
  BY Zenon DEF OpToRel, LessThan
<1>2. QED
  BY NatLessThanWellFounded, <1>1, Zenon

LEMMA LeastNumber ==
  ASSUME NEW S, S \subseteq Nat, S # {}
  PROVE  \E m \in S : \A k \in S : m <= k
<1>1. PICK m \in S : \A k \in S : <<k, m>> \notin LessThan
  BY LessThanIsWellFounded, WFMin
<1>2. ASSUME NEW k \in S PROVE m <= k
  <2>1. m \in Nat /\ k \in Nat
    OBVIOUS
  <2>2. ~(k < m)
    BY <1>1, <2>1 DEF LessThan
  <2>3. QED
    BY <2>1, <2>2
<1>3. QED
  BY <1>2

\* Largest is what its name says, for months of the instance.
LEMMA LargestMonth ==
  ASSUME NEW S, S \subseteq Months, S # {}
  PROVE  /\ Largest(S) \in S
         /\ \A k \in S : k <= Largest(S)
<1>1. PICK last \in Months : Months \subseteq StartMonth..last
  BY MonthsAssumption
<1>2. Months \subseteq Nat
  BY RetrainAssumption
<1> DEFINE T == {last - k : k \in S}
<1>3. T \subseteq Nat /\ T # {}
  <2>1. ASSUME NEW k \in S PROVE last - k \in Nat
    <3>1. k \in Int /\ last \in Int /\ k \in StartMonth..last /\ StartMonth \in Int
      BY <1>1, <1>2, MonthDataAssumption
    <3>2. QED
      BY <3>1
  <2>2. QED
    BY <2>1
<1>4. PICK t \in T : \A u \in T : t <= u
  BY <1>3, LeastNumber
<1>5. PICK m \in S : t = last - m
  OBVIOUS
<1>6. ASSUME NEW k \in S PROVE k <= m
  <2>1. k \in Int /\ m \in Int /\ last \in Int
    BY <1>1, <1>2
  <2>2. last - m <= last - k
    BY <1>4, <1>5
  <2>3. QED
    BY <2>1, <2>2
<1>7. QED
  BY <1>5, <1>6 DEF Largest

-----------------------------------------------------------------------------
(* What a month that passes quality.py holds *)

LEMMA RowsAreFinite ==
  ASSUME NEW file \in Files
  PROVE  /\ Len(Content[file]) \in Nat
         /\ Rows(file) = 1..Len(Content[file])
         /\ IsFiniteSet(Rows(file))
<1>1. Content[file] \in Seq([start : Cell, end : Cell, pu : Cell, do : Cell])
  BY FilesAssumption DEF Files
<1>2. Len(Content[file]) \in Nat /\ Rows(file) = 1..Len(Content[file])
  BY <1>1 DEF Rows
<1>3. QED
  BY <1>2, FS_Interval

\* No trip is kept twice.
LEMMA KeptAreDistinct ==
  ASSUME NEW file \in Files
  PROVE  Cardinality({Content[file][i] : i \in Kept(file)}) = Cardinality(Kept(file))
<1> DEFINE trip == [i \in Kept(file) |-> Content[file][i]]
           T == {Content[file][i] : i \in Kept(file)}
<1>1. Kept(file) \subseteq Rows(file) /\ Rows(file) \subseteq Int
  BY RowsAreFinite DEF Kept
<1>2. IsFiniteSet(Kept(file))
  BY <1>1, RowsAreFinite, FS_Subset
<1>3. ASSUME NEW i \in Kept(file), NEW j \in Kept(file), trip[i] = trip[j]
      PROVE  i = j
  <2>1. ~DuplicateTrip(file, i) /\ ~DuplicateTrip(file, j)
    BY DEF Kept, Rejected
  <2>2. ~(i < j) /\ ~(j < i)
    BY <1>1, <1>3, <2>1 DEF DuplicateTrip
  <2>3. QED
    BY <1>1, <2>2
<1>4. trip \in Surjection(Kept(file), T)
  BY DEF Surjection
<1>5. trip \in Injection(Kept(file), T)
  BY <1>3 DEF Injection, IsInjective
<1>6. QED
  BY <1>2, <1>4, <1>5, FS_Surjection

\* A kept trip with a zone the API does not serve has a null zone.
LEMMA UnservedHaveNullZones ==
  ASSUME NEW file \in Files
  PROVE  Unserved(file) \subseteq Nulls(file, "pu") \cup Nulls(file, "do")
  BY DEF Unserved, Kept, Rejected, Invalid, ZoneInvalid, Known, Nulls

\* A rate that rounds to zero.
LEMMA RoundsToZero ==
  ASSUME NEW a \in Nat, NEW b \in Nat, NEW u \in Nat, NEW n \in Nat, u <= a + b,
         RateWithin(a, n, 0), RateWithin(b, n, 0)
  PROVE  Precision * u <= n
<1>1. Precision \in Nat
  BY MonthDataAssumption
<1>2. Precision * u <= Precision * (a + b)
  BY <1>1
<1>3. 2 * (Precision * a) <= n /\ 2 * (Precision * b) <= n
  BY <1>1 DEF RateWithin
<1>4. Precision * (a + b) = Precision * a + Precision * b
  BY <1>1
<1>5. QED
  BY <1>1, <1>2, <1>3, <1>4

\* quality.py lets only fit months through.
THEOREM PassingIsFit == Passing \subseteq Fit
<1> SUFFICES ASSUME NEW file \in Files, Quality(file)
             PROVE  file \in Fit
  BY Zenon DEF Passing
<1> DEFINE pu == Nulls(file, "pu")
           do == Nulls(file, "do")
<1>1. Cardinality({Content[file][i] : i \in Kept(file)}) >= MinValid
  BY KeptAreDistinct DEF Quality
<1>2. /\ IsFiniteSet(pu) /\ IsFiniteSet(do) /\ IsFiniteSet(Unserved(file))
      /\ Cardinality(pu) \in Nat /\ Cardinality(do) \in Nat /\ Cardinality(Unserved(file)) \in Nat
  <2>1. pu \subseteq Rows(file) /\ do \subseteq Rows(file) /\ Unserved(file) \subseteq Rows(file)
    BY DEF Nulls, Unserved, Kept
  <2>2. QED
    BY <2>1, RowsAreFinite, FS_Subset, FS_CardinalityType
<1>3. Cardinality(Unserved(file)) <= Cardinality(pu) + Cardinality(do)
  <2>1. /\ IsFiniteSet(pu \cup do)
        /\ Cardinality(pu \cup do) = Cardinality(pu) + Cardinality(do) - Cardinality(pu \cap do)
    BY <1>2, FS_Union
  <2>2. Cardinality(pu \cap do) \in Nat
    BY <1>2, FS_Intersection, FS_CardinalityType
  <2>3. Cardinality(Unserved(file)) <= Cardinality(pu \cup do)
    BY <2>1, UnservedHaveNullZones, FS_Subset
  <2>4. Cardinality(pu \cup do) \in Nat
    BY <2>1, FS_CardinalityType
  <2>5. QED
    BY <1>2, <2>1, <2>2, <2>3, <2>4
<1>4. /\ RateWithin(Cardinality(pu), Len(Content[file]), 0)
      /\ RateWithin(Cardinality(do), Len(Content[file]), 0)
  BY FilesAssumption DEF Quality, NullRatesWithin
<1>5. Precision * Cardinality(Unserved(file)) <= Len(Content[file])
  BY <1>2, <1>3, <1>4, RowsAreFinite, RoundsToZero
<1>6. QED
  BY <1>1, <1>5 DEF Fit

-----------------------------------------------------------------------------
(* The split of a month sequence *)

LEMMA MonthsAreNumbers ==
  /\ Months \subseteq Nat /\ NewMonths \subseteq Months /\ NewMonths \subseteq Nat
  /\ \A m \in Months : StartMonth <= m
  /\ StartMonth \in Nat
<1>1. Months \subseteq Nat /\ NewMonths \subseteq Months
  BY RetrainAssumption DEF Months
<1>2. StartMonth \in Nat
  BY MonthDataAssumption
<1>3. \A m \in Months : StartMonth <= m
  BY <1>1, <1>2, MonthsAssumption
<1>4. QED
  BY <1>1, <1>2, <1>3

LEMMA ThreeMonths ==
  ASSUME NEW M, M \subseteq Months, Splits(M)
  PROVE  /\ M # {} /\ Sequenced(M) = M /\ Contiguous(M)
         /\ Largest(M) \in M /\ \A k \in M : k <= Largest(M)
         /\ StartMonth <= Largest(M) - 2
<1>1. Sequenced(M) = M
  BY MonthsAreNumbers DEF Sequenced
<1>2. StartMonth \in M /\ Contiguous(M) /\ Cardinality(M) >= 3
  BY <1>1 DEF Splits, Contiguous
<1>3. Largest(M) \in M /\ \A k \in M : k <= Largest(M)
  BY <1>2, LargestMonth
<1>4. ASSUME Largest(M) < StartMonth + 2 PROVE FALSE
  <2>1. M \subseteq StartMonth..(StartMonth + 1)
    <3>1. ASSUME NEW k \in M PROVE k \in StartMonth..(StartMonth + 1)
      <4>1. k \in Nat /\ Largest(M) \in Nat /\ StartMonth \in Nat /\ StartMonth <= k
        BY <1>3, MonthsAreNumbers
      <4>2. QED
        BY <1>3, <1>4, <4>1
    <3>2. QED
      BY <3>1
  <2>2. /\ IsFiniteSet(StartMonth..(StartMonth + 1))
        /\ Cardinality(StartMonth..(StartMonth + 1)) = 2
    BY FS_Interval, MonthsAreNumbers
  <2>3. IsFiniteSet(M) /\ Cardinality(M) <= 2
    BY <2>1, <2>2, FS_Subset
  <2>4. Cardinality(M) \in Nat
    BY <2>3, FS_CardinalityType
  <2>5. QED
    BY <1>2, <2>3, <2>4
<1>5. Largest(M) \in Nat /\ StartMonth \in Nat
  BY <1>3, MonthsAreNumbers
<1>6. QED
  BY <1>1, <1>2, <1>3, <1>4, <1>5

\* derive_split: the last month tests, the one before validates, and the
\* training window, which is never empty, ends before both.
THEOREM SplitIsRight ==
  ASSUME NEW M, M \subseteq Months, Splits(M)
  PROVE  /\ Split(M).test = Largest(M)
         /\ Split(M).val = Largest(M) - 1
         /\ Split(M) \in [train : SUBSET Months, val : Months, test : Months]
         /\ Largest(M) - 2 \in Split(M).train
         /\ \A k \in Split(M).train : Largest(M) - 2 - k < Window /\ k <= Largest(M) - 2
<1> DEFINE last == Largest(M)
<1>1. /\ last \in M /\ Sequenced(M) = M /\ Contiguous(M) /\ StartMonth <= last - 2
      /\ last \in Nat /\ StartMonth \in Nat /\ Window \in Nat \ {0}
  BY ThreeMonths, MonthsAreNumbers, MonthDataAssumption
<1>2. last - 1 \in M /\ last - 2 \in M
  BY <1>1 DEF Contiguous
<1> DEFINE train == {m \in M : last - 1 - Window <= m /\ m <= last - 2}
<1>3. Split(M) = [train |-> train, val |-> last - 1, test |-> last]
  BY <1>1 DEF Split
<1>4. train \subseteq M /\ last - 2 \in train
  BY <1>1, <1>2
<1>5. ASSUME NEW k \in train PROVE last - 2 - k < Window /\ k <= last - 2
  BY <1>1, <1>5, MonthsAreNumbers
<1>6. QED
  BY <1>1, <1>2, <1>3, <1>4, <1>5

-----------------------------------------------------------------------------
(* What plan allows *)

\* With main's months and the candidates without a gap, the month a run may
\* train continues them, comes after everything it carries, and no rejected
\* month lies between.
THEOREM PlanFollows ==
  ASSUME NEW onMain, onMain \subseteq Months, onMain # {}, Contiguous(onMain),
         NEW candidates, DOMAIN candidates \subseteq NewMonths,
         NEW month \in NewMonths, NEW rebuild,
         MayTrain(month, onMain, candidates, rebuild)
  PROVE  /\ Contiguous(onMain \cup Carry(month, onMain, candidates) \cup {month})
         /\ \A k \in onMain \cup Carry(month, onMain, candidates) : k < month
         /\ \A k \in DOMAIN candidates :
              candidates[k].rejected => k >= month \/ k \in onMain
<1> DEFINE chain == AcceptedChain(onMain, candidates)
           L == Largest(onMain)
           top == Largest(onMain \cup chain)
<1>1. L \in onMain /\ L \in Nat /\ \A k \in onMain : k \in Nat /\ k <= L
  BY LargestMonth, MonthsAreNumbers
<1>2. chain \subseteq NewMonths /\ chain \subseteq Nat /\ DOMAIN candidates \subseteq Nat
  BY MonthsAreNumbers DEF AcceptedChain
<1>3. top \in onMain \cup chain /\ top \in Nat /\ \A k \in onMain \cup chain : k <= top
  BY <1>1, <1>2, LargestMonth, MonthsAreNumbers
<1>4. /\ month \in Nat /\ StartMonth \in Nat /\ StartMonth <= month
      /\ \A k \in onMain : StartMonth <= k
  BY MonthsAreNumbers
<1>5. \A k \in StartMonth..L : k \in onMain
  BY <1>1 DEF Contiguous
<1>6. L < month
  <2>1. month \notin onMain
    BY DEF MayTrain
  <2>2. QED
    BY <1>1, <1>4, <1>5, <2>1
<1>7. \A m \in chain : \A k \in (L + 1)..m : k \in chain /\ ~candidates[k].rejected
  <2>1. ASSUME NEW m \in chain, NEW k \in (L + 1)..m
        PROVE  k \in chain /\ ~candidates[k].rejected
    <3>1. /\ m \in Nat /\ k \in Nat /\ L < k /\ k <= m
      BY <1>1, <1>2, <2>1
    <3>2. \A j \in (L + 1)..m : j \in DOMAIN candidates /\ ~candidates[j].rejected
      BY DEF AcceptedChain
    <3>3. \A j \in (L + 1)..k : j \in (L + 1)..m
      BY <1>1, <3>1
    <3>4. QED
      BY <3>1, <3>2, <3>3 DEF AcceptedChain
  <2>2. QED
    BY <2>1
<1>8. month \in chain \/ month = top + 1
  <2>1. ~Gap(month, onMain, candidates)
    BY DEF MayTrain
  <2>2. Expected(onMain, candidates) = top + 1
    BY DEF Expected
  <2>3. CASE month \in DOMAIN candidates
    BY <2>1, <2>2, <2>3 DEF Gap
  <2>4. CASE month \notin DOMAIN candidates
    <3>1. month <= top + 1
      BY <1>3, <1>4, <2>1, <2>2, <2>4 DEF Gap
    <3>2. ASSUME month <= top PROVE month \in chain
      <4>1. top \in chain
        BY <1>1, <1>3, <1>4, <1>6, <3>2
      <4>2. month \in (L + 1)..top
        BY <1>1, <1>3, <1>4, <1>6, <3>2
      <4>3. QED
        BY <1>7, <4>1, <4>2
    <3>3. QED
      BY <1>3, <1>4, <3>1, <3>2
  <2>5. QED
    BY <2>3, <2>4
<1>9. \A k \in (L + 1)..(month - 1) : k \in chain /\ ~candidates[k].rejected
  <2>1. CASE month \in chain
    BY <1>1, <1>4, <1>7, <2>1
  <2>2. CASE month = top + 1
    <3>1. CASE top \in chain
      BY <1>3, <1>7, <2>2, <3>1
    <3>2. CASE top \in onMain
      BY <1>1, <1>3, <2>2, <3>2
    <3>3. QED
      BY <1>3, <3>1, <3>2
  <2>3. QED
    BY <1>8, <2>1, <2>2
<1>10. Carry(month, onMain, candidates) = {k \in chain : k < month}
  BY DEF Carry
<1>11. \A k \in onMain \cup Carry(month, onMain, candidates) : k < month
  BY <1>1, <1>4, <1>6, <1>10
<1>12. \A k \in StartMonth..(month - 1) : k \in onMain \cup Carry(month, onMain, candidates)
  <2>1. ASSUME NEW k \in StartMonth..(month - 1)
        PROVE  k \in onMain \cup Carry(month, onMain, candidates)
    <3>1. k \in Nat /\ StartMonth <= k /\ k < month
      BY <1>4, <2>1
    <3>2. k <= L \/ k \in (L + 1)..(month - 1)
      BY <1>1, <1>4, <3>1
    <3>3. QED
      BY <1>1, <1>4, <1>5, <1>9, <1>10, <3>1, <3>2
  <2>2. QED
    BY <2>1
<1>13. Contiguous(onMain \cup Carry(month, onMain, candidates) \cup {month})
  <2>1. ASSUME NEW m \in onMain \cup Carry(month, onMain, candidates) \cup {month},
               NEW k \in StartMonth..m
        PROVE  k \in onMain \cup Carry(month, onMain, candidates) \cup {month}
    <3>1. m \in Nat /\ m <= month /\ k \in Nat /\ k <= m
      BY <1>1, <1>2, <1>4, <1>10, <1>11, <2>1
    <3>2. k = month \/ k \in StartMonth..(month - 1)
      BY <1>4, <2>1, <3>1
    <3>3. QED
      BY <1>12, <3>2
  <2>2. QED
    BY <2>1 DEF Contiguous
<1>14. ASSUME NEW k \in DOMAIN candidates, candidates[k].rejected
       PROVE  k >= month \/ k \in onMain
  <2>1. k \in Nat /\ StartMonth <= k
    BY MonthsAreNumbers
  <2>2. ~(k \in (L + 1)..(month - 1))
    BY <1>9, <1>14
  <2>3. QED
    BY <1>1, <1>4, <1>5, <2>1, <2>2
<1>15. QED
  BY <1>11, <1>13, <1>14

-----------------------------------------------------------------------------
(* The inductive invariant *)

\* A branch can get a commit that neither its head nor anything a run remembers has.
EnoughShas == MaxShas >= 4

\* None is neither a commit nor a run.
NoneIsNoRecord == "sha" \notin DOMAIN None /\ "pc" \notin DOMAIN None

Building == {"carry", "push", "pr"}

\* Months' files that main may hold: all pass, without a gap.
Good(data) ==
  /\ IsData(data)
  /\ \A m \in DOMAIN data : data[m] \in Passing
  /\ Contiguous(DOMAIN data)

\* A candidate's branch: good data up to its month, on which it is tested.
BranchOK(m, b) == b # None =>
  /\ DOMAIN b = {"sha", "data", "split"}
  /\ b.sha \in Shas /\ Good(b.data) /\ m \in DOMAIN b.data
  /\ b.split \in [train : SUBSET Months, val : Months, test : Months]
  /\ b.split.test = m /\ b.split.val = m - 1
  /\ m - 2 \in b.split.train
  /\ \A k \in b.split.train : m - 2 - k < Window /\ k <= m - 2

\* A run that builds its month: what it holds and has still to carry leads to it.
BuildOK(r) ==
  /\ r.month \in NewMonths /\ r.month \notin DOMAIN r.main
  /\ IsData(r.data) /\ \A m \in DOMAIN r.data : r.data[m] \in Passing
  /\ Contiguous(DOMAIN r.data \cup r.todo \cup {r.month})
  /\ \A k \in DOMAIN r.data \cup r.todo : k <= r.month
  /\ \A k \in DOMAIN r.candidates :
       r.candidates[k].rejected => k >= r.month \/ k \in DOMAIN r.main
  /\ r.month \in DOMAIN r.candidates => r.candidates[r.month].sha \in r.seen

Fields == {"pc", "request", "main", "candidates", "month", "lease", "seen", "todo", "data"}

RunOK(r) == r # None =>
  /\ DOMAIN r = Fields
  /\ r.pc \in {"list", "plan"} \cup Building
  /\ r.request \in Requests \cup {Scheduled} /\ Good(r.main)
  /\ DOMAIN r.candidates \subseteq NewMonths
  /\ \A m \in DOMAIN r.candidates : r.candidates[m].sha \in Shas
  /\ r.todo \subseteq DOMAIN r.candidates
  /\ r.seen \subseteq Shas /\ r.lease \in r.seen \cup {None}
  /\ \E a, b : r.seen \subseteq {a, b}
  /\ r.pc \in Building => BuildOK(r)
  /\ r.pc \notin Building => r.month = None /\ r.todo = {}
  /\ r.pc \in {"push", "pr"} =>
       r.todo = {} /\ r.month \in DOMAIN r.data /\ Splits(DOMAIN r.data)

PendingOK(w) == w # None => w.request \in Requests \cup {Scheduled} /\ Good(w.main)

BranchesOK ==
  /\ DOMAIN branches = NewMonths
  /\ \A m \in NewMonths : BranchOK(m, branches[m])

PrsOK ==
  /\ prs \in [NewMonths -> [rejected : BOOLEAN] \cup {None}]
  /\ \A m \in NewMonths : prs[m] # None => branches[m] # None

IInv ==
  /\ published \in [NewMonths -> Files \cup {None}]
  /\ Good(main)
  /\ BranchesOK /\ PrsOK
  /\ RunOK(run) /\ PendingOK(pending) /\ (pending # None => run # None)
  /\ budget \in 0..Budget

-----------------------------------------------------------------------------
(* What the steps build *)

LEMMA GoodOverridden ==
  ASSUME NEW f, NEW g, Good(f), Good(g)
  PROVE  Good(f ++ g) /\ DOMAIN (f ++ g) = DOMAIN f \cup DOMAIN g
<1>1. /\ DOMAIN (f ++ g) = DOMAIN f \cup DOMAIN g
      /\ \A m \in DOMAIN f \cup DOMAIN g :
           (f ++ g)[m] = IF m \in DOMAIN g THEN g[m] ELSE f[m]
  BY DEF ++
<1>2. IsData(f ++ g)
  BY <1>1 DEF Good, IsData
<1>3. Contiguous(DOMAIN (f ++ g))
  BY <1>1 DEF Good, Contiguous
<1>4. QED
  BY <1>1, <1>2, <1>3 DEF Good

LEMMA GoodHasMonths ==
  ASSUME NEW data, Good(data)
  PROVE  DOMAIN data \subseteq Months /\ DOMAIN data # {} /\ Contiguous(DOMAIN data)
<1>1. DOMAIN Main0 # {}
  BY RetrainAssumption DEF Repro, Splits, Sequenced
<1>2. QED
  BY <1>1 DEF Good, IsData

LEMMA StartedIsOK ==
  ASSUME NEW w, PendingOK(w)
  PROVE  RunOK(Started(w))
<1> SUFFICES ASSUME w # None PROVE RunOK(Started(w))
  BY DEF Started, RunOK
<1> DEFINE r == [pc |-> "list", request |-> w.request, main |-> w.main,
                 candidates |-> <<>>, month |-> None, lease |-> None, seen |-> {},
                 todo |-> {}, data |-> <<>>]
<1>1. Started(w) = r
  BY DEF Started
<1>2. DOMAIN r.candidates = {}
  OBVIOUS
<1>3. "list" \notin Building
  BY DEF Building
<1>4. QED
  BY <1>1, <1>2, <1>3 DEF RunOK, PendingOK, Fields

LEMMA FreshIsFresh ==
  ASSUME EnoughShas, IInv, NEW m \in NewMonths
  PROVE  /\ FreshSha(m) \in Shas
         /\ branches[m] # None => FreshSha(m) # branches[m].sha
<1> DEFINE Fresh(s) ==
        /\ branches[m] # None => s # branches[m].sha
        /\ run # None =>
              /\ m \in DOMAIN run.candidates => s # run.candidates[m].sha
              /\ m = run.month => s \notin run.seen
<1>1. 1 \in Shas /\ 2 \in Shas /\ 3 \in Shas /\ 4 \in Shas
  BY RetrainAssumption DEF Shas, EnoughShas
<1>2. \E x, y, z : \A s : s \notin {x, y, z} => Fresh(s)
  <2>1. CASE run # None /\ m = run.month
    <3>1. m # None
      BY MonthsAreNumbers, RetrainAssumption
    <3>2. BuildOK(run)
      BY <2>1, <3>1 DEF IInv, RunOK
    <3>3. m \in DOMAIN run.candidates => run.candidates[m].sha \in run.seen
      BY <2>1, <3>2 DEF BuildOK
    <3>4. PICK a, b : run.seen \subseteq {a, b}
      BY <2>1 DEF IInv, RunOK
    <3>5. \A s : s \notin {a, b, branches[m].sha} => Fresh(s)
      BY <2>1, <3>3, <3>4
    <3>6. QED
      BY <3>5
  <2>2. CASE run = None \/ m # run.month
    <3>1. \A s : s \notin {run.candidates[m].sha, branches[m].sha, branches[m].sha} => Fresh(s)
      BY <2>2
    <3>2. QED
      BY <3>1
  <2>3. QED
    BY <2>1, <2>2
<1>3. \E s \in Shas : Fresh(s)
  <2>1. PICK x, y, z : \A s : s \notin {x, y, z} => Fresh(s)
    BY <1>2
  <2>2. \E s \in {1, 2, 3, 4} : s \notin {x, y, z}
    OBVIOUS
  <2>3. QED
    BY <1>1, <2>1, <2>2
<1>4. FreshSha(m) = CHOOSE s \in Shas : Fresh(s)
  BY DEF FreshSha
<1>5. FreshSha(m) \in Shas /\ Fresh(FreshSha(m))
  BY <1>3, <1>4
<1>6. QED
  BY <1>5

-----------------------------------------------------------------------------
(* The steps of a run keep the invariant *)

LEMMA PlanKeeps ==
  ASSUME IInv, Plan
  PROVE  RunOK(run')
<1> DEFINE onMain == DOMAIN run.main
           heads == [m \in {k \in NewMonths : branches[k] # None} |-> branches[m].sha]
           month == IF run.request.month = None
                    THEN Expected(onMain, run.candidates) ELSE run.request.month
<1>1. run # None /\ run.pc = "plan" /\ RunOK(run) /\ PendingOK(pending) /\ BranchesOK
  BY DEF Plan, IInv
<1>2. CASE EndRun
  BY <1>1, <1>2, StartedIsOK DEF EndRun
<1>3. CASE ~EndRun
  <2>1. /\ MayTrain(month, onMain, run.candidates, run.request.rebuild)
        /\ IsPublished(month)
        /\ run' = [run EXCEPT
                      !.pc = "carry", !.month = month,
                      !.todo = Carry(month, onMain, run.candidates),
                      !.lease = Lease(month, run.candidates, heads),
                      !.seen = {run.candidates[m].sha : m \in DOMAIN run.candidates \cap {month}}
                               \cup {heads[m] : m \in DOMAIN heads \cap {month}},
                      !.data = run.main]
    BY <1>3 DEF Plan
  <2>2. /\ month \in NewMonths /\ month \notin onMain /\ Good(run.main)
        /\ DOMAIN run.candidates \subseteq NewMonths
        /\ \A m \in DOMAIN run.candidates : run.candidates[m].sha \in Shas
    BY <1>1, <2>1 DEF RunOK, IsPublished, MayTrain
  <2>3. onMain \subseteq Months /\ onMain # {} /\ Contiguous(onMain)
    BY <2>2, GoodHasMonths
  <2> DEFINE carry == Carry(month, onMain, run.candidates)
             lease == Lease(month, run.candidates, heads)
             seen == {run.candidates[m].sha : m \in DOMAIN run.candidates \cap {month}}
                     \cup {heads[m] : m \in DOMAIN heads \cap {month}}
  <2>4. /\ Contiguous(onMain \cup carry \cup {month})
        /\ \A k \in onMain \cup carry : k < month
        /\ \A k \in DOMAIN run.candidates :
             run.candidates[k].rejected => k >= month \/ k \in onMain
    BY <2>1, <2>2, <2>3, PlanFollows
  <2>5. carry \subseteq DOMAIN run.candidates
    BY DEF Carry, AcceptedChain
  <2>6. \A m \in DOMAIN heads : heads[m] \in Shas
    BY <1>1 DEF BranchesOK, BranchOK
  <2>7. seen \subseteq Shas /\ lease \in seen \cup {None}
    BY <2>2, <2>6 DEF Lease
  <2>8. seen \subseteq {run.candidates[month].sha, heads[month]}
    OBVIOUS
  <2>9. DOMAIN run = Fields
    BY <1>1 DEF RunOK
  <2> HIDE DEF carry, lease, seen, heads, month
  <2>10. /\ DOMAIN run' = Fields /\ run'.pc = "carry" /\ run'.request = run.request
         /\ run'.main = run.main /\ run'.candidates = run.candidates /\ run'.month = month
         /\ run'.lease = lease /\ run'.seen = seen /\ run'.todo = carry
         /\ run'.data = run.main
    BY <2>1, <2>9 DEF carry, lease, seen, Fields
  <2>11. BuildOK(run')
    <3>1. IsData(run.main) /\ \A m \in DOMAIN run.main : run.main[m] \in Passing
      BY <2>2 DEF Good
    <3>2. ASSUME NEW k \in onMain \cup carry PROVE k <= month
      <4>1. k \in Nat /\ month \in Nat
        BY <2>2, <2>3, <2>5, MonthsAreNumbers
      <4>2. QED
        BY <2>4, <4>1
    <3>3. month \in DOMAIN run.candidates => run.candidates[month].sha \in seen
      BY DEF seen
    <3>4. QED
      BY <2>2, <2>4, <2>10, <3>1, <3>2, <3>3 DEF BuildOK
  <2>12. QED
    BY <1>1, <2>2, <2>5, <2>7, <2>8, <2>10, <2>11 DEF RunOK, Building
<1>4. QED
  BY <1>2, <1>3

LEMMA CarryOneKeeps ==
  ASSUME IInv, CarryOne
  PROVE  RunOK(run')
<1> DEFINE c == CHOOSE m \in run.todo : \A k \in run.todo : m <= k
           data == run.data ++ [m \in {c} |-> branches[c].data[c]]
           rest == run.todo \ {c}
<1>1. run # None /\ run.pc = "carry" /\ run.todo # {} /\ RunOK(run)
  BY DEF CarryOne, IInv
<1>2. CASE EndRun
  BY <1>2, StartedIsOK DEF EndRun, IInv
<1>3. CASE ~EndRun
  <2>1. branches[c] # None /\ run' = [run EXCEPT !.todo = rest, !.data = data]
    BY <1>3 DEF CarryOne
  <2>2. BuildOK(run) /\ run.todo \subseteq NewMonths
    BY <1>1 DEF RunOK, Building
  <2>3. c \in run.todo
    BY <1>1, <2>2, LeastNumber, MonthsAreNumbers
  <2>4. BranchOK(c, branches[c])
    BY <2>2, <2>3 DEF IInv, BranchesOK
  <2> HIDE DEF c
  <2>5. /\ DOMAIN data = DOMAIN run.data \cup {c}
        /\ \A m \in DOMAIN run.data \cup {c} :
             data[m] = IF m = c THEN branches[c].data[c] ELSE run.data[m]
    BY DEF ++
  <2>6. branches[c].data[c] \in Passing /\ Passing \subseteq Files /\ c \in Months
    BY <2>1, <2>2, <2>3, <2>4, MonthsAreNumbers DEF BranchOK, Good, Passing
  <2>8. rest \subseteq run.todo /\ DOMAIN data \cup rest = DOMAIN run.data \cup run.todo
    BY <2>3, <2>5
  <2> HIDE DEF data, rest
  <2>7. /\ DOMAIN run' = Fields /\ run'.pc = "carry" /\ run'.request = run.request
        /\ run'.main = run.main /\ run'.candidates = run.candidates
        /\ run'.month = run.month /\ run'.lease = run.lease /\ run'.seen = run.seen
        /\ run'.todo = rest /\ run'.data = data
    <3>1. DOMAIN run = Fields /\ run.pc = "carry"
      BY <1>1 DEF RunOK
    <3>2. QED
      BY <2>1, <3>1 DEF Fields
  <2>9. BuildOK(run')
    <3>1. IsData(data) /\ \A m \in DOMAIN data : data[m] \in Passing
      BY <2>2, <2>5, <2>6 DEF BuildOK, IsData
    <3>2. QED
      BY <2>2, <2>8, <2>7, <3>1 DEF BuildOK
  <2>10. QED
    BY <1>1, <2>8, <2>7, <2>9 DEF RunOK, Building
<1>4. QED
  BY <1>2, <1>3

LEMMA IngestAndReproKeeps ==
  ASSUME IInv, IngestAndRepro
  PROVE  RunOK(run')
<1> DEFINE data == run.data ++ [m \in {run.month} |-> published[run.month]]
<1>1. run # None /\ run.pc = "carry" /\ run.todo = {} /\ RunOK(run)
  BY DEF IngestAndRepro, IInv
<1>2. CASE EndRun
  BY <1>2, StartedIsOK DEF EndRun, IInv
<1>3. CASE ~EndRun
  <2>1. /\ published[run.month] # None /\ Repro(data)
        /\ run' = [run EXCEPT !.pc = "push", !.data = data]
    BY <1>3 DEF IngestAndRepro
  <2>2. BuildOK(run)
    BY <1>1 DEF RunOK, Building
  <2>3. DOMAIN data = DOMAIN run.data \cup {run.month}
    BY DEF ++
  <2>4. Splits(DOMAIN data) /\ \A m \in DOMAIN data : data[m] \in Passing /\ data[m] \in Files
    BY <2>1 DEF Repro, Passing
  <2> HIDE DEF data
  <2>5. /\ DOMAIN run' = Fields /\ run'.pc = "push" /\ run'.request = run.request
        /\ run'.main = run.main /\ run'.candidates = run.candidates
        /\ run'.month = run.month /\ run'.lease = run.lease /\ run'.seen = run.seen
        /\ run'.todo = run.todo /\ run'.data = data
    <3>1. DOMAIN run = Fields /\ run.pc = "carry"
      BY <1>1 DEF RunOK
    <3>2. QED
      BY <2>1, <3>1 DEF Fields
  <2>6. BuildOK(run')
    <3>1. IsData(data)
      BY <2>2, <2>3, <2>4, MonthsAreNumbers DEF BuildOK, IsData
    <3>2. DOMAIN data \cup run.todo \cup {run.month} = DOMAIN run.data \cup run.todo \cup {run.month}
      BY <2>3
    <3>3. \A k \in DOMAIN data \cup run.todo : k <= run.month
      <4>1. run.month \in Nat
        BY <2>2, MonthsAreNumbers DEF BuildOK
      <4>2. \A k \in DOMAIN run.data \cup run.todo : k <= run.month
        BY <2>2 DEF BuildOK
      <4>3. QED
        BY <2>3, <4>1, <4>2
    <3>4. QED
      BY <2>2, <2>4, <2>5, <3>1, <3>2, <3>3 DEF BuildOK
  <2>7. run.month \in DOMAIN data
    BY <2>3
  <2>8. QED
    BY <1>1, <2>4, <2>5, <2>6, <2>7 DEF RunOK, Building
<1>4. QED
  BY <1>2, <1>3

LEMMA PushKeeps ==
  ASSUME EnoughShas, NoneIsNoRecord, IInv, Push
  PROVE  RunOK(run') /\ BranchesOK' /\ PrsOK'
<1>1. run # None /\ run.pc = "push" /\ RunOK(run) /\ BuildOK(run) /\ prs' = prs
  BY DEF Push, IInv, RunOK, Building
<1>2. CASE EndRun /\ UNCHANGED branches
  <2>1. RunOK(run')
    BY <1>2, StartedIsOK DEF EndRun, IInv
  <2>2. QED
    BY <1>1, <1>2, <2>1 DEF BranchesOK, PrsOK, IInv
<1>3. CASE ~(EndRun /\ UNCHANGED branches)
  <2> DEFINE m0 == run.month
             b == [sha |-> FreshSha(m0), data |-> run.data, split |-> Split(DOMAIN run.data)]
  <2>1. branches' = [branches EXCEPT ![m0] = b] /\ run' = [run EXCEPT !.pc = "pr"]
    BY <1>3 DEF Push
  <2>2. /\ run.todo = {} /\ m0 \in DOMAIN run.data /\ Splits(DOMAIN run.data)
        /\ m0 \in NewMonths /\ IsData(run.data)
    BY <1>1 DEF RunOK, BuildOK
  <2>3. DOMAIN run.data \cup run.todo \cup {m0} = DOMAIN run.data /\ Good(run.data)
    BY <1>1, <2>2 DEF BuildOK, Good
  <2>4. DOMAIN run.data \subseteq Months /\ DOMAIN run.data # {}
    BY <2>3, GoodHasMonths
  <2>5. Largest(DOMAIN run.data) = m0
    <3>1. /\ Largest(DOMAIN run.data) \in DOMAIN run.data
          /\ \A k \in DOMAIN run.data : k <= Largest(DOMAIN run.data)
      BY <2>4, LargestMonth
    <3>2. \A k \in DOMAIN run.data : k <= m0
      BY <1>1 DEF BuildOK
    <3>3. Largest(DOMAIN run.data) \in Nat /\ m0 \in Nat
      BY <2>2, <2>4, <3>1, MonthsAreNumbers
    <3>4. m0 <= Largest(DOMAIN run.data) /\ Largest(DOMAIN run.data) <= m0
      BY <2>2, <3>1, <3>2
    <3>5. QED
      BY <3>3, <3>4
  <2>6. FreshSha(m0) \in Shas
    BY <2>2, FreshIsFresh
  <2>7. BranchOK(m0, b)
    <3>1. /\ b.split = Split(DOMAIN run.data)
          /\ b.split.test = m0 /\ b.split.val = m0 - 1
          /\ b.split \in [train : SUBSET Months, val : Months, test : Months]
          /\ m0 - 2 \in b.split.train
          /\ \A k \in b.split.train : m0 - 2 - k < Window /\ k <= m0 - 2
      BY <2>2, <2>4, <2>5, SplitIsRight
    <3>2. QED
      BY <2>2, <2>3, <2>6, <3>1 DEF BranchOK
  <2>8. b # None
    BY DEF NoneIsNoRecord
  <2> HIDE DEF b
  <2>9. BranchesOK'
    BY <2>1, <2>2, <2>7 DEF BranchesOK, IInv
  <2>10. PrsOK'
    BY <1>1, <2>1, <2>2, <2>8 DEF BranchesOK, PrsOK, IInv
  <2>11. /\ DOMAIN run' = Fields /\ run'.pc = "pr" /\ run'.request = run.request
         /\ run'.main = run.main /\ run'.candidates = run.candidates
         /\ run'.month = run.month /\ run'.lease = run.lease /\ run'.seen = run.seen
         /\ run'.todo = run.todo /\ run'.data = run.data
    BY <1>1, <2>1 DEF RunOK, Fields
  <2>12. BuildOK(run')
    BY <1>1, <2>11 DEF BuildOK
  <2>13. RunOK(run')
    BY <1>1, <2>11, <2>12 DEF RunOK, Building
  <2>14. QED
    BY <2>9, <2>10, <2>13
<1>4. QED
  BY <1>2, <1>3

LEMMA ListCandidatesKeeps ==
  ASSUME IInv, ListCandidates
  PROVE  RunOK(run')
<1> DEFINE open == [m \in {k \in NewMonths : prs[k] # None} |->
                      [sha |-> branches[m].sha, rejected |-> prs[m].rejected]]
<1>1. run # None /\ run.pc = "list" /\ RunOK(run)
  BY DEF ListCandidates, IInv
<1>2. run' = [run EXCEPT !.pc = "plan", !.candidates = open]
  BY DEF ListCandidates
<1>3. DOMAIN open \subseteq NewMonths /\ \A m \in DOMAIN open : open[m].sha \in Shas
  BY DEF IInv, PrsOK, BranchesOK, BranchOK
<1>4. run.pc \notin Building /\ run.todo = {}
  BY <1>1 DEF RunOK, Building
<1> HIDE DEF open
<1>5. /\ DOMAIN run' = Fields /\ run'.pc = "plan" /\ run'.request = run.request
      /\ run'.main = run.main /\ run'.candidates = open /\ run'.month = run.month
      /\ run'.lease = run.lease /\ run'.seen = run.seen /\ run'.todo = run.todo
      /\ run'.data = run.data
  BY <1>1, <1>2 DEF RunOK, Fields
<1>6. QED
  BY <1>1, <1>3, <1>4, <1>5 DEF RunOK, Building

LEMMA TriggerKeeps ==
  ASSUME IInv, NEW request \in Requests \cup {Scheduled}, Trigger(request)
  PROVE  RunOK(run') /\ PendingOK(pending') /\ (pending' # None => run' # None)
<1> DEFINE waiting == [request |-> request, main |-> main]
<1>1. PendingOK(waiting)
  BY DEF IInv, PendingOK
<1>2. CASE run = None
  <2>1. run' = Started(waiting) /\ pending' = pending /\ pending = None
    BY <1>2 DEF Trigger, IInv
  <2>2. QED
    BY <1>1, <2>1, StartedIsOK DEF PendingOK
<1>3. CASE run # None
  <2>1. run' = run /\ pending' = waiting
    BY <1>3 DEF Trigger
  <2>2. QED
    BY <1>1, <1>3, <2>1 DEF IInv
<1>4. QED
  BY <1>2, <1>3

LEMMA EndRunKeeps ==
  ASSUME IInv, EndRun
  PROVE  RunOK(run') /\ PendingOK(pending') /\ (pending' # None => run' # None)
<1>1. pending' = None /\ RunOK(run')
  BY StartedIsOK DEF EndRun, IInv
<1>2. QED
  BY <1>1 DEF PendingOK

LEMMA InitInvariant == Init => IInv
<1> SUFFICES ASSUME Init PROVE IInv
  OBVIOUS
<1>1. Good(Main0)
  <2>1. \A m \in DOMAIN Main0 : Main0[m] \in Passing /\ Main0[m] \in Files
    BY RetrainAssumption DEF Repro, Passing
  <2>2. DOMAIN Main0 \subseteq Months
    BY DEF Months
  <2>3. Contiguous(DOMAIN Main0)
    BY <2>2, RetrainAssumption, ThreeMonths DEF Repro
  <2>4. QED
    BY <2>1, <2>2, <2>3 DEF Good, IsData
<1>2. RunOK(run) /\ PendingOK(pending)
  BY DEF Init, RunOK, PendingOK
<1>3. BranchesOK /\ PrsOK
  BY DEF Init, BranchesOK, BranchOK, PrsOK
<1>4. budget \in 0..Budget
  BY RetrainAssumption DEF Init
<1>5. QED
  BY <1>1, <1>2, <1>3, <1>4 DEF Init, IInv

\* What a run does.
LEMMA RunStepInvariant ==
  ASSUME EnoughShas, NoneIsNoRecord, IInv, RunStep
  PROVE  IInv'
<1>1. RunOK(run') /\ BranchesOK' /\ PrsOK'
  <2>1. CASE ListCandidates
    <3>1. UNCHANGED remote
      BY <2>1 DEF ListCandidates
    <3>2. QED
      BY <2>1, <3>1, ListCandidatesKeeps DEF remote, IInv, BranchesOK, PrsOK
  <2>2. CASE Plan
    <3>1. UNCHANGED remote
      BY <2>2 DEF Plan
    <3>2. QED
      BY <2>2, <3>1, PlanKeeps DEF remote, IInv, BranchesOK, PrsOK
  <2>3. CASE CarryOne
    <3>1. UNCHANGED remote
      BY <2>3 DEF CarryOne
    <3>2. QED
      BY <2>3, <3>1, CarryOneKeeps DEF remote, IInv, BranchesOK, PrsOK
  <2>4. CASE IngestAndRepro
    <3>1. UNCHANGED remote
      BY <2>4 DEF IngestAndRepro
    <3>2. QED
      BY <2>4, <3>1, IngestAndReproKeeps DEF remote, IInv, BranchesOK, PrsOK
  <2>5. CASE Push
    BY <2>5, PushKeeps
  <2>6. CASE OpenPr
    <3>1. EndRun /\ branches' = branches
      BY <2>6 DEF OpenPr
    <3>2. RunOK(run') /\ BranchesOK'
      BY <3>1, EndRunKeeps DEF IInv, BranchesOK
    <3>3. PrsOK'
      BY <2>6, <3>1 DEF OpenPr, IInv, PrsOK
    <3>4. QED
      BY <3>2, <3>3
  <2>7. QED
    BY <2>1, <2>2, <2>3, <2>4, <2>5, <2>6 DEF RunStep
<1>2. UNCHANGED <<published, main, budget>>
  BY DEF RunStep, ListCandidates, Plan, CarryOne, IngestAndRepro, Push, OpenPr
<1>3. PendingOK(pending') /\ (pending' # None => run' # None)
  <2>1. CASE EndRun
    BY <2>1, EndRunKeeps
  <2>2. CASE ~EndRun
    <3>1. pending' = pending /\ run # None
      BY <2>2 DEF RunStep, ListCandidates, Plan, CarryOne, IngestAndRepro, Push, OpenPr
    <3>2. DOMAIN run' = DOMAIN run
      BY <2>2 DEF RunStep, ListCandidates, Plan, CarryOne, IngestAndRepro, Push, OpenPr
    <3>3. "pc" \in DOMAIN run
      BY <3>1 DEF IInv, RunOK, Fields
    <3>4. run' # None
      BY <3>2, <3>3 DEF NoneIsNoRecord
    <3>5. QED
      BY <3>1, <3>4 DEF IInv
  <2>3. QED
    BY <2>1, <2>2
<1>4. QED
  BY <1>1, <1>2, <1>3 DEF IInv

-----------------------------------------------------------------------------
(* What people, TLC and failures do keeps it too *)

LEMMA UpdateBranchKeeps ==
  ASSUME EnoughShas, NoneIsNoRecord, IInv, NEW m \in NewMonths, UpdateBranch(m)
  PROVE  BranchesOK' /\ PrsOK'
<1> DEFINE b == branches[m]
           sha == FreshSha(m)
           data == b.data ++ main
<1>1. b # None /\ BranchOK(m, b) /\ Good(main)
  BY DEF UpdateBranch, IInv, BranchesOK
<1>2. sha \in Shas /\ Good(data) /\ m \in DOMAIN data
  BY <1>1, FreshIsFresh, GoodOverridden DEF BranchOK
<1>3. branches' = [branches EXCEPT ![m].sha = sha, ![m].data = data] /\ prs' = prs
  BY DEF UpdateBranch
<1> HIDE DEF sha, data
<1>4. DOMAIN branches = NewMonths /\ DOMAIN branches' = NewMonths
  BY <1>3 DEF IInv, BranchesOK
<1>5. \A k \in NewMonths \ {m} : branches'[k] = branches[k]
  BY <1>3, <1>4
<1>6. DOMAIN branches'[m] = DOMAIN b
  BY <1>3, <1>4
<1>7. branches'[m].sha = sha /\ branches'[m].data = data /\ branches'[m].split = b.split
  BY <1>1, <1>3, <1>4 DEF BranchOK
<1>8. BranchOK(m, branches'[m])
  BY <1>1, <1>2, <1>6, <1>7 DEF BranchOK
<1>9. BranchesOK'
  BY <1>4, <1>5, <1>8 DEF IInv, BranchesOK
<1>10. branches'[m] # None
  BY <1>1, <1>6 DEF BranchOK, NoneIsNoRecord
<1>11. PrsOK'
  BY <1>3, <1>5, <1>10 DEF IInv, PrsOK
<1>12. QED
  BY <1>9, <1>11

LEMMA EndPrKeeps ==
  ASSUME IInv, NEW m \in NewMonths, NEW deleted \in BOOLEAN, EndPr(m, deleted)
  PROVE  BranchesOK' /\ PrsOK'
<1>1. /\ DOMAIN branches = NewMonths /\ DOMAIN branches' = NewMonths
      /\ \A k \in NewMonths : branches'[k] = branches[k] \/ (k = m /\ branches'[k] = None)
  <2>1. DOMAIN branches = NewMonths
    BY DEF IInv, BranchesOK
  <2>2. branches' = branches \/ branches' = [branches EXCEPT ![m] = None]
    BY DEF EndPr
  <2>3. DOMAIN branches' = NewMonths
    BY <2>1, <2>2
  <2>4. ASSUME NEW k \in NewMonths
        PROVE  branches'[k] = branches[k] \/ (k = m /\ branches'[k] = None)
    BY <2>1, <2>2
  <2>5. QED
    BY <2>1, <2>3, <2>4
<1>2. BranchesOK'
  BY <1>1 DEF IInv, BranchesOK, BranchOK
<1>3. prs' = [prs EXCEPT ![m] = None]
  BY DEF EndPr
<1>4. PrsOK'
  BY <1>1, <1>3 DEF IInv, PrsOK
<1>5. QED
  BY <1>2, <1>4

LEMMA EnvironmentInvariant ==
  ASSUME EnoughShas, NoneIsNoRecord, IInv, Environment \/ Schedule
  PROVE  IInv'
<1>1. CASE Schedule
  <2>1. Trigger(Scheduled) /\ UNCHANGED <<published, main, branches, prs, budget>>
    BY <1>1 DEF Schedule, Trigger, remote
  <2>2. QED
    BY <2>1, TriggerKeeps DEF IInv, BranchesOK, PrsOK
<1>2. CASE \E request \in Requests : Dispatch(request)
  <2>1. PICK request \in Requests : Dispatch(request)
    BY <1>2
  <2>2. Trigger(request) /\ UNCHANGED <<published, main, branches, prs>>
    BY <2>1 DEF Dispatch, Trigger, remote
  <2>3. budget' \in 0..Budget
    BY <2>1, RetrainAssumption DEF Dispatch, Spend, IInv
  <2>4. QED
    BY <2>2, <2>3, TriggerKeeps DEF IInv, BranchesOK, PrsOK
<1>3. CASE Die
  <2>1. EndRun /\ UNCHANGED <<published, main, branches, prs>>
    BY <1>3 DEF Die, remote
  <2>2. budget' \in 0..Budget
    BY <1>3, RetrainAssumption DEF Die, Spend, IInv
  <2>3. QED
    BY <2>1, <2>2, EndRunKeeps DEF IInv, BranchesOK, PrsOK
<1>4. CASE \/ \E m \in NewMonths, f \in Files : Publish(m, f) \/ Republish(m, f)
           \/ \E m \in NewMonths : Republish(m, None)
  <2>1. PICK m \in NewMonths, f \in Files \cup {None} : Publish(m, f) \/ Republish(m, f)
    BY <1>4
  <2>2. /\ published' = [published EXCEPT ![m] = f]
        /\ UNCHANGED <<main, branches, prs, run, pending>>
    BY <2>1 DEF Publish, Republish, remote
  <2>3. budget' \in 0..Budget
    BY <2>1, RetrainAssumption DEF Publish, Republish, Spend, IInv
  <2>4. QED
    BY <2>2, <2>3 DEF IInv, BranchesOK, PrsOK
<1>5. CASE \E m \in NewMonths, b \in BOOLEAN : Label(m, b)
  <2>1. PICK m \in NewMonths, b \in BOOLEAN : Label(m, b)
    BY <1>5
  <2>2. /\ prs' = [prs EXCEPT ![m].rejected = b] /\ prs[m] # None
        /\ UNCHANGED <<published, main, branches, run, pending>>
    BY <2>1 DEF Label
  <2>3. budget' \in 0..Budget
    BY <2>1, RetrainAssumption DEF Label, Spend, IInv
  <2>4. PrsOK'
    BY <2>2 DEF IInv, PrsOK
  <2>5. QED
    BY <2>2, <2>3, <2>4 DEF IInv, BranchesOK
<1>6. CASE \/ \E m \in NewMonths, b \in BOOLEAN : Close(m, b)
           \/ \E m \in NewMonths : DeleteBranch(m)
  <2>1. PICK m \in NewMonths, b \in BOOLEAN :
          /\ EndPr(m, b) /\ Spend
          /\ UNCHANGED <<published, main, run, pending>>
    <3>1. CASE \E m \in NewMonths, b \in BOOLEAN : Close(m, b)
      BY <3>1 DEF Close
    <3>2. CASE \E m \in NewMonths : DeleteBranch(m)
      <4>1. TRUE \in BOOLEAN
        OBVIOUS
      <4>2. QED
        BY <3>2, <4>1 DEF DeleteBranch
    <3>3. QED
      BY <1>6, <3>1, <3>2
  <2>2. budget' \in 0..Budget
    BY <2>1, RetrainAssumption DEF Spend, IInv
  <2>3. QED
    BY <2>1, <2>2, EndPrKeeps DEF IInv
<1>7. CASE \E m \in NewMonths, b \in BOOLEAN : Merge(m, b)
  <2>1. PICK m \in NewMonths, b \in BOOLEAN : Merge(m, b)
    BY <1>7
  <2>2. /\ prs[m] # None /\ main' = branches[m].data ++ main
        /\ EndPr(m, b) /\ UNCHANGED <<published, run, pending>>
    BY <2>1 DEF Merge
  <2>3. budget' \in 0..Budget
    BY <2>1, RetrainAssumption DEF Merge, Spend, IInv
  <2>4. Good(branches[m].data)
    BY <2>2 DEF IInv, PrsOK, BranchesOK, BranchOK
  <2>5. Good(main')
    BY <2>2, <2>4, GoodOverridden DEF IInv
  <2>6. QED
    BY <2>2, <2>3, <2>5, EndPrKeeps DEF IInv
<1>8. CASE \E m \in NewMonths : UpdateBranch(m)
  <2>1. PICK m \in NewMonths : UpdateBranch(m)
    BY <1>8
  <2>2. UNCHANGED <<published, main, run, pending>>
    BY <2>1 DEF UpdateBranch
  <2>3. budget' \in 0..Budget
    BY <2>1, RetrainAssumption DEF UpdateBranch, Spend, IInv
  <2>4. QED
    BY <2>1, <2>2, <2>3, UpdateBranchKeeps DEF IInv
<1>9. QED
  BY <1>1, <1>2, <1>3, <1>4, <1>5, <1>6, <1>7, <1>8 DEF Environment

-----------------------------------------------------------------------------
(* The theorems *)

\* The inductive invariant: main, every branch and every run hold months without
\* a gap whose files all passed, and a run's data leads to the month it builds.
THEOREM RetrainInvariant ==
  ASSUME EnoughShas, NoneIsNoRecord
  PROVE  Spec => []IInv
<1>1. IInv /\ [Next]_vars => IInv'
  <2> SUFFICES ASSUME IInv, [Next]_vars PROVE IInv'
    OBVIOUS
  <2>1. CASE Next
    BY <2>1, RunStepInvariant, EnvironmentInvariant DEF Next
  <2>2. CASE UNCHANGED vars
    BY <2>2 DEF vars, IInv, BranchesOK, PrsOK
  <2>3. QED
    BY <2>1, <2>2
<1>2. QED
  BY <1>1, InitInvariant, PTL DEF Spec

\* Type correctness.
THEOREM RetrainTypeCorrect ==
  ASSUME EnoughShas, NoneIsNoRecord
  PROVE  Spec => []TypeOK
<1>1. ASSUME IInv PROVE TypeOK
  <2>1. \A m \in NewMonths : branches[m] # None =>
          /\ branches[m].sha \in Shas /\ IsData(branches[m].data)
          /\ branches[m].split \in [train : SUBSET Months, val : Months, test : Months]
    BY <1>1 DEF IInv, BranchesOK, BranchOK, Good
  <2>2. DOMAIN branches = NewMonths
    BY <1>1 DEF IInv, BranchesOK
  <2>3. run # None =>
          /\ run.pc \in {"list", "plan", "carry", "push", "pr"}
          /\ run.request \in Requests \cup {Scheduled} /\ IsData(run.main)
          /\ DOMAIN run.candidates \subseteq NewMonths
          /\ run.pc \in {"carry", "push", "pr"} =>
                run.month \in NewMonths \ DOMAIN run.main /\ IsData(run.data)
          /\ run.todo \subseteq DOMAIN run.candidates
          /\ run.lease \in Shas \cup {None} /\ run.seen \subseteq Shas
    BY <1>1 DEF IInv, RunOK, BuildOK, Building, Good
  <2>4. pending # None =>
          run # None /\ pending.request \in Requests \cup {Scheduled} /\ IsData(pending.main)
    BY <1>1 DEF IInv, PendingOK, Good
  <2>5. QED
    BY <1>1, <2>1, <2>2, <2>3, <2>4 DEF IInv, PrsOK, Good, TypeOK
<1>2. QED
  BY <1>1, RetrainInvariant, PTL

\* Whatever is merged, closed, rejected, rebuilt or deleted between the steps of
\* a run, main, the candidates and what a run builds have no gap.
THEOREM MonthsHaveNoGap ==
  ASSUME EnoughShas, NoneIsNoRecord
  PROVE  Spec => []NoGap
<1>1. ASSUME IInv PROVE NoGap
  BY <1>1 DEF IInv, BranchesOK, BranchOK, Good, RunOK, BuildOK, Building, NoGap
<1>2. QED
  BY <1>1, RetrainInvariant, PTL

\* What reaches main or a candidate is fit to train on: quality.py's rules, with
\* their rounding and the nulls of the masks, bound the trips outside the zones
\* the API serves, and nothing reaches a branch past them.
THEOREM TrainedDataIsFit ==
  ASSUME EnoughShas, NoneIsNoRecord
  PROVE  Spec => []DataIsFit
<1>1. ASSUME IInv PROVE DataIsFit
  BY <1>1, PassingIsFit DEF IInv, BranchesOK, BranchOK, Good, DataIsFit
<1>2. QED
  BY <1>1, RetrainInvariant, PTL

\* A candidate is tested on its own month, unseen in its training.
THEOREM CandidatesAreTestedOnTheirMonth ==
  ASSUME EnoughShas, NoneIsNoRecord
  PROVE  Spec => []TestedOnItsMonth
<1>1. ASSUME IInv PROVE TestedOnItsMonth
  BY <1>1 DEF IInv, BranchesOK, BranchOK, TestedOnItsMonth
<1>2. QED
  BY <1>1, RetrainInvariant, PTL

\* No run trains a month after one it has seen rejected.
THEOREM RejectedMonthsHoldLaterOnes ==
  ASSUME EnoughShas, NoneIsNoRecord
  PROVE  Spec => []LaterMonthsWait
<1>1. ASSUME IInv PROVE LaterMonthsWait
  BY <1>1 DEF IInv, RunOK, BuildOK, Building, LaterMonthsWait
<1>2. QED
  BY <1>1, RetrainInvariant, PTL

\* A run's push replaces only a commit its plan saw.
THEOREM PushesReplaceWhatWasSeen ==
  ASSUME EnoughShas, NoneIsNoRecord
  PROVE  Spec => NothingVanishes
<1>1. IInv /\ [Next]_vars =>
        [ \A m \in NewMonths :
            budget' = budget /\ branches[m] # None /\ branches'[m] # branches[m]
                => branches[m].sha \in run.seen ]_vars
  <2> SUFFICES ASSUME IInv, Next, NEW m \in NewMonths, budget' = budget,
                      branches[m] # None, branches'[m] # branches[m]
               PROVE  branches[m].sha \in run.seen
    BY DEF vars
  <2>1. ~Spend
    BY RetrainAssumption DEF Spend, IInv
  <2>2. Push
    BY <2>1 DEF Next, RunStep, Environment, Schedule, Trigger, Dispatch, Publish, Republish,
       Label, Close, Merge, DeleteBranch, UpdateBranch, Die, ListCandidates, Plan, CarryOne,
       IngestAndRepro, OpenPr, remote
  <2>3. m = run.month /\ branches[m].sha = run.lease
    BY <2>2 DEF Push, IInv, BranchesOK
  <2>4. branches[m].sha \in Shas /\ Shas \subseteq Nat
    BY DEF IInv, BranchesOK, BranchOK, Shas
  <2>5. run # None /\ run.lease \in run.seen \cup {None}
    BY <2>2 DEF Push, IInv, RunOK
  <2>6. QED
    BY <2>3, <2>4, <2>5, RetrainAssumption
<1>2. QED
  BY <1>1, RetrainInvariant, PTL DEF Spec, NothingVanishes
=============================================================================
