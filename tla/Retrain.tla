------------------------------- MODULE Retrain -------------------------------
(***************************************************************************)
(* The weekly retrain (retrain_plan.py, retrain.yml): a plan job reads the *)
(* open candidates and the branches and decides which month to train, and  *)
(* a train job carries the unmerged data, ingests the month, runs the      *)
(* pipeline and pushes a candidate branch with its pull request.  Between  *)
(* any two steps people merge, close, label and push, TLC republishes, the *)
(* job dies, and another run is triggered: one runs, one waits, a third    *)
(* replaces the one that waits.  A commit is its months' files, the split  *)
(* it was trained on, and an identity that no other commit of its branch   *)
(* still known to a run has.                                               *)
(***************************************************************************)
EXTENDS MonthData

CONSTANTS
    None,            \* no file, branch, pull request, month or run
    NewMonths,       \* the months after those on main at the start
    Main0,           \* data/raw/yellow on main at the start: months and their files
    Requests,        \* the inputs of a dispatch: month, checkOnly, rebuild
    MaxShas,         \* identities of commits of a branch
    Budget           \* bound on what people and failures do

Months == DOMAIN Main0 \cup NewMonths
Shas == 1..MaxShas

ASSUME RetrainAssumption ==
    /\ Months \subseteq Nat /\ DOMAIN Main0 \cap NewMonths = {}
    /\ Requests \subseteq [month : Nat \cup {None}, checkOnly : BOOLEAN, rebuild : BOOLEAN]
    /\ Budget \in Nat /\ MaxShas \in Nat
    /\ None \notin Files /\ None \notin Nat /\ Repro(Main0)

\* The months in question are those from the first one of the split to some last one.
ASSUME MonthsAssumption == \E last \in Months : Months \subseteq StartMonth..last

VARIABLES
    published,   \* what TLC serves for a new month, or None
    main,        \* main's .dvc pointers: month -> file
    branches,    \* retrain/<month>: its head commit, or None
    prs,         \* the open candidate of a month: whether it is data-rejected, or None
    run,         \* the run in progress, or None
    pending,     \* the run waiting for it: its request and the main it will check out
    budget

vars == <<published, main, branches, prs, run, pending, budget>>
remote == <<branches, prs>>

\* f overridden by g.
f ++ g == [m \in DOMAIN f \cup DOMAIN g |-> IF m \in DOMAIN g THEN g[m] ELSE f[m]]

-----------------------------------------------------------------------------
(* retrain_plan.py: what one run may do, from main's months, the open        *)
(* candidates [month -> sha, rejected] and the branches' heads.              *)

\* Mutant: a data-rejected candidate does not hold the later months.
ChainPastRejected(onMain, candidates) ==
    {m \in DOMAIN candidates :
        /\ m > Largest(onMain)
        /\ \A k \in (Largest(onMain) + 1)..m : k \in DOMAIN candidates}

\* accepted_chain: the open candidates that continue main's months without a
\* gap; nothing after a missing or data-rejected month.
AcceptedChain(onMain, candidates) ==
    {m \in DOMAIN candidates :
        /\ m > Largest(onMain)
        /\ \A k \in (Largest(onMain) + 1)..m : k \in DOMAIN candidates /\ ~candidates[k].rejected}

Expected(onMain, candidates) == Largest(onMain \cup AcceptedChain(onMain, candidates)) + 1

\* Mutant: a month beyond the expected one is not refused.
GapAllowed(month, onMain, candidates) == month < CHOOSE m \in onMain : \A k \in onMain : m <= k

\* plan's refusals: a backfill, a month beyond the accepted data, a rebuild
\* after a missing or rejected month.
Gap(month, onMain, candidates) ==
    LET expected == Expected(onMain, candidates) IN
    \/ \A m \in onMain : month < m
    \/ /\ month \in DOMAIN candidates
       /\ month \notin AcceptedChain(onMain, candidates) /\ month # expected
    \/ month \notin DOMAIN candidates /\ month > expected

\* plan: the months that are not on main, already a candidate or refused.
MayTrain(month, onMain, candidates, rebuild) ==
    /\ month \notin onMain
    /\ month \in DOMAIN candidates => rebuild
    /\ ~Gap(month, onMain, candidates)

\* Mutant: a rebuild carries the candidates after the month too.
CarryAll(month, onMain, candidates) == AcceptedChain(onMain, candidates) \ {month}

\* The candidates whose data the month is built on.
Carry(month, onMain, candidates) == {m \in AcceptedChain(onMain, candidates) : m < month}

\* Mutant: a branch without an open pull request is not looked at.
LeaseOfPr(month, candidates, heads) ==
    IF month \in DOMAIN candidates THEN candidates[month].sha ELSE None

\* The commit a push must replace: the open candidate's head, or a branch left
\* behind by a closed one; None for a new branch.
Lease(month, candidates, heads) ==
    IF month \in DOMAIN candidates THEN candidates[month].sha
    ELSE IF month \in DOMAIN heads THEN heads[month] ELSE None

-----------------------------------------------------------------------------
(* retrain.yml: the concurrency group. *)

\* A run as it starts; it checks out the main of its trigger.
Started(waiting) ==
    IF waiting = None THEN None
    ELSE [pc |-> "list", request |-> waiting.request, main |-> waiting.main,
          candidates |-> <<>>, month |-> None, lease |-> None, seen |-> {},
          todo |-> {}, data |-> <<>>]

\* schedule and workflow_dispatch.
Trigger(request) ==
    LET waiting == [request |-> request, main |-> main] IN
    /\ IF run = None
       THEN run' = Started(waiting) /\ UNCHANGED pending
       ELSE pending' = waiting /\ UNCHANGED run
    /\ UNCHANGED <<published, main, remote>>

Scheduled == [month |-> None, checkOnly |-> FALSE, rebuild |-> FALSE]

\* Mondays, 09:00 UTC.
Schedule == Trigger(Scheduled) /\ UNCHANGED budget

\* The run is over, whatever its conclusion, and the waiting one starts.
EndRun == run' = Started(pending) /\ pending' = None

\* gh pr list: the open candidates with their heads and labels.
ListCandidates ==
    /\ run # None /\ run.pc = "list"
    /\ run' = [run EXCEPT !.pc = "plan",
                          !.candidates = [m \in {k \in NewMonths : prs[k] # None} |->
                              [sha |-> branches[m].sha, rejected |-> prs[m].rejected]]]
    /\ UNCHANGED <<published, main, remote, pending, budget>>

\* is_published, for the months this instance knows.
IsPublished(month) == month \in NewMonths /\ published[month] # None

\* git ls-remote and retrain_plan.py, up to the HEAD request that says whether
\* the month is published.
Plan ==
    /\ run # None /\ run.pc = "plan"
    /\ LET onMain == DOMAIN run.main
           heads  == [m \in {k \in NewMonths : branches[k] # None} |-> branches[m].sha]
           month  == IF run.request.month = None
                     THEN Expected(onMain, run.candidates) ELSE run.request.month
       IN  IF /\ MayTrain(month, onMain, run.candidates, run.request.rebuild)
              /\ IsPublished(month)
              /\ ~run.request.checkOnly
           THEN /\ run' = [run EXCEPT
                      !.pc = "carry", !.month = month,
                      !.todo = Carry(month, onMain, run.candidates),
                      !.lease = Lease(month, run.candidates, heads),
                      !.seen = {run.candidates[m].sha : m \in DOMAIN run.candidates \cap {month}}
                               \cup {heads[m] : m \in DOMAIN heads \cap {month}},
                      !.data = run.main]
                /\ UNCHANGED pending
           ELSE EndRun
    /\ UNCHANGED <<published, main, remote, budget>>

\* git fetch and git checkout FETCH_HEAD of one carried pointer: what the branch
\* holds now.  The fetch of a deleted branch fails the job.
CarryOne ==
    /\ run # None /\ run.pc = "carry" /\ run.todo # {}
    /\ LET c == CHOOSE m \in run.todo : \A k \in run.todo : m <= k
       IN  IF branches[c] # None
           THEN /\ run' = [run EXCEPT !.todo = @ \ {c},
                              !.data = @ ++ [m \in {c} |-> branches[c].data[c]]]
                /\ UNCHANGED pending
           ELSE EndRun
    /\ UNCHANGED <<published, main, remote, budget>>

\* make ingest fetches what TLC serves now, or fails; dvc repro goes through
\* every month, and a refused one stops the job.  The scoring that follows ends
\* the job when the champion was trained on the month: champions are taken to be
\* trained on months of main, which no run rebuilds.
IngestAndRepro ==
    /\ run # None /\ run.pc = "carry" /\ run.todo = {}
    /\ LET data == run.data ++ [m \in {run.month} |-> published[run.month]]
       IN  IF published[run.month] # None /\ Repro(data)
           THEN run' = [run EXCEPT !.pc = "push", !.data = data] /\ UNCHANGED pending
           ELSE EndRun
    /\ UNCHANGED <<published, main, remote, budget>>

\* An identity no commit of the branch has that a run still knows of.
FreshSha(month) ==
    CHOOSE s \in Shas :
        /\ branches[month] # None => s # branches[month].sha
        /\ run # None =>
              /\ month \in DOMAIN run.candidates => s # run.candidates[month].sha
              /\ month = run.month => s \notin run.seen

\* Mutant: a lease-less force push.
PushForced ==
    /\ run # None /\ run.pc = "push"
    /\ branches' = [branches EXCEPT ![run.month] =
          [sha |-> FreshSha(run.month), data |-> run.data, split |-> Split(DOMAIN run.data)]]
    /\ run' = [run EXCEPT !.pc = "pr"]
    /\ UNCHANGED <<published, main, prs, pending, budget>>

\* git push --force-with-lease, or a plain push of a new branch.
Push ==
    /\ run # None /\ run.pc = "push"
    /\ LET head == IF branches[run.month] = None THEN None ELSE branches[run.month].sha
       IN  IF head = run.lease
           THEN /\ branches' = [branches EXCEPT ![run.month] =
                      [sha |-> FreshSha(run.month), data |-> run.data,
                       split |-> Split(DOMAIN run.data)]]
                /\ run' = [run EXCEPT !.pc = "pr"]
                /\ UNCHANGED pending
           ELSE EndRun /\ UNCHANGED branches
    /\ UNCHANGED <<published, main, prs, budget>>

\* Mutant: the pull request is opened without looking whether its branch is there.
OpenPrBlindly ==
    /\ run # None /\ run.pc = "pr"
    /\ prs' = IF run.month \in DOMAIN run.candidates \/ prs[run.month] # None
              THEN prs ELSE [prs EXCEPT ![run.month] = [rejected |-> FALSE]]
    /\ EndRun
    /\ UNCHANGED <<published, main, branches, budget>>

\* Open or update the candidate PR: the update goes to the pull request the plan
\* saw, by number, and leaves it as open, closed or data-rejected as it is.
OpenPr ==
    /\ run # None /\ run.pc = "pr"
    /\ prs' = IF run.month \in DOMAIN run.candidates \/ branches[run.month] = None
                 \/ prs[run.month] # None
              THEN prs ELSE [prs EXCEPT ![run.month] = [rejected |-> FALSE]]
    /\ EndRun
    /\ UNCHANGED <<published, main, branches, budget>>

-----------------------------------------------------------------------------
(* People, TLC and failures, each bounded by the budget. *)

Spend == budget > 0 /\ budget' = budget - 1

\* workflow_dispatch with its inputs.
Dispatch(request) == Trigger(request) /\ Spend

\* TLC publishes a month; Republish replaces or withdraws it.
Publish(m, f) ==
    /\ published[m] = None
    /\ published' = [published EXCEPT ![m] = f]
    /\ UNCHANGED <<main, remote, run, pending, budget>>

Republish(m, f) ==
    /\ published[m] \notin {None, f} /\ Spend
    /\ published' = [published EXCEPT ![m] = f]
    /\ UNCHANGED <<main, remote, run, pending>>

Label(m, rejected) ==
    /\ prs[m] # None /\ prs[m].rejected # rejected /\ Spend
    /\ prs' = [prs EXCEPT ![m].rejected = rejected]
    /\ UNCHANGED <<published, main, branches, run, pending>>

\* A pull request ends, with or without its branch.
EndPr(m, deleted) ==
    /\ prs' = [prs EXCEPT ![m] = None]
    /\ branches' = IF deleted THEN [branches EXCEPT ![m] = None] ELSE branches

Close(m, deleted) ==
    /\ prs[m] # None /\ Spend
    /\ EndPr(m, deleted)
    /\ UNCHANGED <<published, main, run, pending>>

\* The branch a closed pull request or a dead job left behind is cleaned up.
DeleteBranch(m) ==
    /\ prs[m] = None /\ branches[m] # None /\ Spend
    /\ EndPr(m, TRUE)
    /\ UNCHANGED <<published, main, run, pending>>

\* GitHub merges what does not conflict; people merge no rejected month.
Merge(m, deleted) ==
    /\ prs[m] # None /\ ~prs[m].rejected /\ Spend
    /\ \A k \in DOMAIN main \cap DOMAIN branches[m].data : main[k] = branches[m].data[k]
    /\ main' = branches[m].data ++ main
    /\ EndPr(m, deleted)
    /\ UNCHANGED <<published, run, pending>>

\* update-branch: a person's commit that brings main into the branch.
UpdateBranch(m) ==
    /\ branches[m] # None /\ Spend
    /\ branches' = [branches EXCEPT ![m].sha = FreshSha(m),
                                    ![m].data = branches[m].data ++ main]
    /\ UNCHANGED <<published, main, prs, run, pending>>

\* A cancelled job, a lost runner, a failed request.
Die ==
    /\ run # None /\ Spend
    /\ EndRun
    /\ UNCHANGED <<published, main, remote>>

-----------------------------------------------------------------------------
Init ==
    /\ published = [m \in NewMonths |-> None]
    /\ main = Main0
    /\ branches = [m \in NewMonths |-> None]
    /\ prs = [m \in NewMonths |-> None]
    /\ run = None /\ pending = None
    /\ budget = Budget

RunStep == ListCandidates \/ Plan \/ CarryOne \/ IngestAndRepro \/ Push \/ OpenPr

Environment ==
    \/ \E m \in NewMonths, f \in Files : Publish(m, f) \/ Republish(m, f)
    \/ \E m \in NewMonths : Republish(m, None)
    \/ \E m \in NewMonths, b \in BOOLEAN : Label(m, b) \/ Close(m, b) \/ Merge(m, b)
    \/ \E m \in NewMonths : DeleteBranch(m) \/ UpdateBranch(m)
    \/ \E request \in Requests : Dispatch(request)
    \/ Die

Next == Schedule \/ RunStep \/ Environment

\* A started run goes on, and the schedule triggers one every week.
Fairness == WF_run(RunStep) /\ WF_<<run, pending>>(Schedule)

Spec == Init /\ [][Next]_vars
FairSpec == Spec /\ Fairness

-----------------------------------------------------------------------------
(* Properties. *)

IsData(data) ==
    /\ DOMAIN Main0 \subseteq DOMAIN data /\ DOMAIN data \subseteq Months
    /\ \A m \in DOMAIN data : data[m] \in Files

TypeOK ==
    /\ published \in [NewMonths -> Files \cup {None}]
    /\ IsData(main)
    /\ DOMAIN branches = NewMonths
    /\ \A m \in NewMonths : branches[m] # None =>
          /\ branches[m].sha \in Shas /\ IsData(branches[m].data)
          /\ branches[m].split \in [train : SUBSET Months, val : Months, test : Months]
    /\ prs \in [NewMonths -> [rejected : BOOLEAN] \cup {None}]
    /\ \A m \in NewMonths : prs[m] # None => branches[m] # None
    /\ run # None =>
          /\ run.pc \in {"list", "plan", "carry", "push", "pr"}
          /\ run.request \in Requests \cup {Scheduled} /\ IsData(run.main)
          /\ DOMAIN run.candidates \subseteq NewMonths
          /\ run.pc \in {"carry", "push", "pr"} =>
                run.month \in NewMonths \ DOMAIN run.main /\ IsData(run.data)
          /\ run.todo \subseteq DOMAIN run.candidates
          /\ run.lease \in Shas \cup {None} /\ run.seen \subseteq Shas
    /\ pending # None =>
          run # None /\ pending.request \in Requests \cup {Scheduled} /\ IsData(pending.main)
    /\ budget \in 0..Budget

Contiguous(months) == \A m \in months : \A k \in StartMonth..m : k \in months

\* Main and every candidate branch hold the months from the first one on without
\* a gap, and so does what a run sets out to build, whatever was merged, closed,
\* rejected, rebuilt or deleted between the plan of a run, its steps and the run
\* that waited for it.
NoGap ==
    /\ Contiguous(DOMAIN main)
    /\ \A m \in NewMonths : branches[m] # None => Contiguous(DOMAIN branches[m].data)
    /\ run # None /\ run.pc \in {"carry", "push", "pr"} =>
          Contiguous(DOMAIN run.data \cup run.todo \cup {run.month})

\* The kept trips whose zones are not both zones the API serves.
Unserved(file) ==
    {i \in Kept(file) : ~({Content[file][i].pu, Content[file][i].do} \subseteq ZoneMin..ZoneMax)}

Fit ==
    {file \in Files :
        /\ Cardinality({Content[file][i] : i \in Kept(file)}) >= MinValid
        /\ Precision * Cardinality(Unserved(file)) <= Len(Content[file])}

\* What reached main or a candidate is fit to train on: enough distinct trips are
\* kept of every month, and all are between zones the API serves but for what the
\* rounding of the null rates hides (nothing in fewer than Precision rows).
DataIsFit ==
    /\ \A m \in DOMAIN main : main[m] \in Fit
    /\ \A m \in NewMonths : branches[m] # None =>
          \A k \in DOMAIN branches[m].data : branches[m].data[k] \in Fit

\* A candidate is tested on the month it is named for, which no earlier step of
\* its own training saw: the newest month it holds, the one before it validates,
\* and the training window ends before both.
TestedOnItsMonth ==
    \A m \in NewMonths : branches[m] # None =>
        LET split == branches[m].split IN
        /\ split.test = m /\ split.val = m - 1
        /\ m - 2 \in split.train
        /\ \A k \in split.train : m - 2 - k < Window /\ k <= m - 2

\* Once a run has seen a month labelled data-rejected, it trains no later one:
\* later months wait.
LaterMonthsWait ==
    run # None /\ run.pc \in {"carry", "push", "pr"} =>
        \A k \in DOMAIN run.candidates :
            run.candidates[k].rejected => k >= run.month \/ k \in DOMAIN run.main

\* A run replaces no commit that its plan did not see: what a person pushed to a
\* candidate since then makes the run fail and does not vanish.
NothingVanishes ==
    [][ \A m \in NewMonths :
            budget' = budget /\ branches[m] # None /\ branches'[m] # branches[m]
                => branches[m].sha \in run.seen ]_vars

\* A month that TLC has published with fit data, and whose predecessors are so
\* too and not held, ends up on main or in an open candidate and stays there,
\* whichever runs died, lost their lease, or were cancelled while they waited.
NewMonthsArrive ==
    \A m \in NewMonths :
        <>[](   (\A k \in NewMonths : k <= m =>
                    /\ published[k] \in Passing
                    /\ prs[k] # None => ~prs[k].rejected)
             => m \in DOMAIN main \/ prs[m] # None)
=============================================================================
