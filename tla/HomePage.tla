------------------------------ MODULE HomePage ------------------------------
(* What the home page counts, words and colours: useWorkspaceHome, beside    *)
(* what the list of sessions and the command center say of the same rows.    *)
(* The page derives most of it from one list at a time, and the model holds  *)
(* the list that was fetched. Findings and jobs it counts twice, in lists of *)
(* each active session and in the analytics: their model holds the rows of   *)
(* the database, what each answer said of them, and writers in between.      *)
EXTENDS SessionViews, FiniteSets

CONSTANTS
    HomeSessions,      \* the sessions whose findings or jobs are counted twice,
    MaxCountedTwice    \* and the most findings or jobs that runs create

ASSUME HomeAssumption == MaxCountedTwice \in Nat

VARIABLE homeList      \* the list fetched, and its rows

(* The rows of the panel of active sessions.                                 *)
WorkspaceSessions(crowd) == PlacesOf(crowd, LAMBDA s : s \in ActiveOnHome)

(* The metric of active sessions and the two facts below it.                 *)
MapMetrics(crowd) ==
    [active  |-> Cardinality(WorkspaceSessions(crowd)),
     running |-> CountOf(crowd, LAMBDA s : s = "running"),
     paused  |-> CountOf(crowd, LAMBDA s : s = "paused")]

(* The tabs of that panel, each with the number of its rows.                 *)
TabCount(crowd, tab) == Cardinality({i \in WorkspaceSessions(crowd) : HomeTab(crowd[i]) = tab})

-----------------------------------------------------------------------------

(* A finding or a job: its status, and the one that the list of its session  *)
(* and the analytics told when they were last fetched.                       *)
Unread == "unread"
Stages(list) ==
    IF list = "findings" THEN {"candidate", "needs_review", "confirmed"} ELSE {"queued", "failed"}
CountedRow(list) ==
    [session : HomeSessions, status : Stages(list),
     seen : Stages(list) \cup {Unread}, counted : Stages(list) \cup {Unread}]

(* All of them, the sessions that the page takes for active, and whether the *)
(* analytics have answered. Until then, or if they fail, nothing is counted. *)
CountedLists(list) ==
    [rows : Seq(CountedRow(list)), active : SUBSET HomeSessions, answered : BOOLEAN]

NeedsReview(status) == status \in {"candidate", "needs_review"}
AnalyticsTotal(known) == CountOf(known.rows, LAMBDA f : f.counted # Unread)

(* Findings to review: the attention queue has those of the active sessions, *)
(* the metric what the analytics counted of the workspace, or their total.   *)
AttentionFindings(known) ==
    CountOf(known.rows, LAMBDA f : f.session \in known.active /\ NeedsReview(f.seen))

CandidateMetric(known) ==
    LET candidates == CountOf(known.rows, LAMBDA f : NeedsReview(f.counted))
    IN IF candidates # 0 THEN candidates ELSE AnalyticsTotal(known)

(* Mutant: the analytics come first, the list takes their place.             *)
FindingBadgeTotalFirst(known) ==
    IF AnalyticsTotal(known) # 0 THEN AnalyticsTotal(known) ELSE AttentionFindings(known)

(* The badge of the navigation: the queue, or the total of the analytics.    *)
FindingBadge(known) ==
    IF AttentionFindings(known) # 0 THEN AttentionFindings(known) ELSE AnalyticsTotal(known)

(* Failed jobs: those "visible here", and the metric above that.             *)
VisibleFailures(known) ==
    CountOf(known.rows, LAMBDA j : j.session \in known.active /\ j.seen = "failed")

FailedJobsMetric(known) ==
    IF known.answered THEN CountOf(known.rows, LAMBDA j : j.counted = "failed")
    ELSE VisibleFailures(known)

-----------------------------------------------------------------------------

(* An event of a session: what it is about and what happened.                *)
EventTypes ==
    [about : {"evidence", "finding", "job", "approval", "memory", "tool_call",
              "session", "runtime", "report", "file"},
     what  : {"created", "updated", "started", "finished", "completed", "failed", "denied"}]

Names(e, word) == word \in {e.about, e.what}

ActivityCategory(e) ==
    CASE Names(e, "evidence") -> "Evidence"
      [] Names(e, "finding")  -> "Findings"
      [] Names(e, "job")      -> "Jobs"
      [] Names(e, "approval") -> "Approvals"
      [] Names(e, "memory")   -> "Memory"
      [] OTHER                -> "Events"

(* The colour of an event in the activity list of the home page.             *)
ActivityTone(e) ==
    IF Names(e, "failed") \/ Names(e, "denied") THEN "red"
    ELSE CASE ActivityCategory(e) = "Approvals"            -> "amber"
           [] ActivityCategory(e) \in {"Evidence", "Jobs"} -> "teal"
           [] ActivityCategory(e) = "Memory"               -> "violet"
           [] OTHER                                        -> "blue"

(* Its colour in the timeline of the command center.                         *)
EventTone(e) ==
    IF Names(e, "failed") \/ Names(e, "denied") THEN "blue"
    ELSE IF Names(e, "finished") \/ Names(e, "completed") THEN "green" ELSE "teal"

-----------------------------------------------------------------------------

(* Tool calls and jobs of the listed sessions; what failed of either is one  *)
(* group of the attention queue, two of each and at most three in all.       *)
Work == [kind : {"call", "job"}, status : {"failed", "timed_out", "succeeded"}]

FailedCalls(work) ==
    PlacesOf(work, LAMBDA w : w.kind = "call" /\ w.status \in {"failed", "timed_out"})
FailedJobs(work) == PlacesOf(work, LAMBDA w : w.kind = "job" /\ w.status = "failed")

(* The first n rows of one list followed by another.                         *)
FirstOfBoth(n, calls, jobs) ==
    FirstFew(n, calls) \cup FirstFew(n - Cardinality(FirstFew(n, calls)), jobs)

(* Mutant: the calls are cut to the length of the group only.                *)
FailureItemsCallsFirst(work) == FirstOfBoth(3, FailedCalls(work), FailedJobs(work))

FailureItems(work) ==
    FirstOfBoth(3, FirstFew(2, FailedCalls(work)), FirstFew(2, FailedJobs(work)))

FailureCount(work) == Cardinality(FailedCalls(work)) + Cardinality(FailedJobs(work))

-----------------------------------------------------------------------------

(* The tasks of a session.                                                   *)
HomeTask == [steps : SeqOf(StepStatuses, MaxPlanned)]

HomeInit == homeList = [of |-> "nothing", rows |-> <<>>]

FetchHomeList(list, rows) == homeList' = [of |-> list, rows |-> rows]

FetchOneList ==
    /\ homeList.of = "nothing"
    /\ \/ \E rows \in SeqOf(SessionStatuses, MaxListed) : FetchHomeList("sessions", rows)
       \/ \E rows \in SeqOf(HomeTask, MaxPlanned) : FetchHomeList("tasks", rows)
       \/ \E r \in RuntimeRows : FetchHomeList("runtime", <<r>>)
       \/ \E e \in EventTypes : FetchHomeList("events", <<e>>)
       \/ \E rows \in SeqOf(Work, MaxWork) : FetchHomeList("work", rows)

(* The page opens on findings or jobs before any query has its answer.       *)
CountTwice(list) ==
    /\ homeList.of = "nothing"
    /\ FetchHomeList(list, [rows |-> <<>>, active |-> {}, answered |-> FALSE])

CountedTwice == homeList.of \in {"findings", "jobs"}
Known == homeList.rows
Become(rows, active, answered) ==
    FetchHomeList(homeList.of, [rows |-> rows, active |-> active, answered |-> answered])

(* The agent proposes a finding or a session gets a job, operators move a    *)
(* finding from any status to any other, and a job fails.                    *)
RowAppears(s) ==
    /\ CountedTwice /\ Len(Known.rows) < MaxCountedTwice
    /\ LET first == IF homeList.of = "findings" THEN "candidate" ELSE "queued"
           row == [session |-> s, status |-> first, seen |-> Unread, counted |-> Unread]
       IN Become(Append(Known.rows, row), Known.active, Known.answered)

RowMoves(i, status) ==
    /\ status # Known.rows[i].status
    /\ homeList.of = "jobs" => status = "failed"
    /\ Become([Known.rows EXCEPT ![i].status = status], Known.active, Known.answered)

(* The polled list of sessions says which are active; only these have their  *)
(* findings and jobs fetched, session by session and not polled.             *)
FetchActive(active) ==
    /\ CountedTwice /\ active # Known.active
    /\ Become(Known.rows, active, Known.answered)

FetchSessionRows(s) ==
    LET Read(row) == IF row.session = s THEN [row EXCEPT !.seen = row.status] ELSE row
    IN Become([i \in DOMAIN Known.rows |-> Read(Known.rows[i])], Known.active, Known.answered)

(* The analytics, not polled either, count the rows of all sessions that     *)
(* were created in their window, whose beginning cuts off the oldest.        *)
FetchAnalytics(cut) ==
    LET Counted(i) == IF i > cut THEN Known.rows[i].status ELSE Unread
    IN Become([i \in DOMAIN Known.rows |-> [Known.rows[i] EXCEPT !.counted = Counted(i)]],
              Known.active, TRUE)

HomeNext ==
    \/ FetchOneList
    \/ \E list \in {"findings", "jobs"} : CountTwice(list)
    \/ \E s \in HomeSessions : RowAppears(s)
    \/ CountedTwice /\ \E i \in DOMAIN Known.rows, status \in Stages(homeList.of) :
           RowMoves(i, status)
    \/ \E active \in SUBSET HomeSessions : FetchActive(active)
    \/ CountedTwice /\ \E s \in Known.active : FetchSessionRows(s)
    \/ CountedTwice /\ \E cut \in 0..Len(Known.rows) : FetchAnalytics(cut)

HomeSpec == HomeInit /\ [][HomeNext]_homeList

-----------------------------------------------------------------------------

Fetched(list) == homeList.of = list

(* A session is counted in a tab of the home page only under its own status, *)
(* and each session of the list in exactly one tab beside that of all.       *)
TabsAreTrue ==
    Fetched("sessions") => \A i \in DOMAIN homeList.rows :
        LET s == homeList.rows[i]
        IN /\ HomeTab(s) # "hidden" => HomeTab(s) = s
           /\ {tab \in SessionStatuses : InTab(tab, s)} = {s}

(* The metric of the home page, which counts the fetched sessions, agrees    *)
(* with the tabs of the panel, which count the rows that were mapped.        *)
HomeCountsAgree ==
    Fetched("sessions") =>
        LET metric == MapMetrics(homeList.rows)
        IN /\ metric.running = TabCount(homeList.rows, "running")
           /\ metric.paused = TabCount(homeList.rows, "paused")
           /\ metric.active = metric.running + metric.paused
                              + TabCount(homeList.rows, "planning")

(* The three pages name the same step whenever one is running or to be run,  *)
(* and count the same steps as completed.                                    *)
PagesNameOneStep ==
    Fetched("tasks") =>
        /\ ActiveStep(homeList.rows) # NoStep =>
               /\ CommandCurrentStep(homeList.rows) = HomeCurrentStep("running", homeList.rows)
               /\ CommandCurrentStep(homeList.rows) = ListCurrentStep("running", homeList.rows)
        /\ CompletedSteps(homeList.rows) = StepsDone(homeList.rows)

(* A runtime that failed or is unhealthy is healthy on no page, and one that *)
(* runs is healthy on all: the pages map the same row separately.            *)
FailedRuntimeIsSeen ==
    Fetched("runtime") =>
        LET row == homeList.rows[1]
            broken == row \in {"failed", "unhealthy"}
        IN /\ (HomeRuntime(row) = "unhealthy") = broken /\ (ListRuntime(row) = "failed") = broken
           /\ broken => HomeRuntime(row) # "healthy" /\ ~RailRuntimeHealthy(row)
           /\ (HeaderHealth(row) = "unhealthy") = broken
           /\ (RuntimeStateCheck(row) = "failed") = broken
           /\ row = "running" => /\ HomeRuntime(row) = "healthy" /\ ListRuntime(row) = "healthy"
                                 /\ RailRuntimeHealthy(row) /\ HeaderHealth(row) = "healthy"
                                 /\ RuntimeStateCheck(row) = "ok"

(* Every answer that the page needs is as young as the last change of a row, *)
(* and none of the rows is older than the window.                            *)
AnswersAreCurrent ==
    /\ Known.answered
    /\ \A i \in DOMAIN Known.rows :
           LET row == Known.rows[i]
           IN row.counted = row.status /\ (row.session \in Known.active => row.seen = row.status)

(* The places of rows that both answers tell alike.                          *)
InBoth(Waits(_)) ==
    PlacesOf(Known.rows, LAMBDA f : f.session \in Known.active /\ Waits(f.seen) /\ Waits(f.counted))

(* Late answers and writers in between never make the badge smaller than the *)
(* attention queue, nor the metric smaller than the findings that wait in    *)
(* both answers, and the metric is zero only if the analytics, late or not,  *)
(* told of no finding at all. Once all answers are current the queue has     *)
(* just the findings that wait in active sessions, and the metric has them.  *)
ReviewIsCounted ==
    Fetched("findings") =>
        /\ FindingBadge(Known) >= AttentionFindings(Known)
        /\ CandidateMetric(Known) >= Cardinality(InBoth(NeedsReview))
        /\ CandidateMetric(Known) = 0 => \A i \in DOMAIN Known.rows : Known.rows[i].counted = Unread
        /\ AnswersAreCurrent =>
               /\ AttentionFindings(Known) = CountOf(Known.rows,
                      LAMBDA f : f.session \in Known.active /\ NeedsReview(f.status))
               /\ CandidateMetric(Known) >= AttentionFindings(Known)

(* The metric of failed jobs has every job that both answers tell to have    *)
(* failed, and once they are current it is not below what is visible here;   *)
(* while they are not, it may be.                                            *)
FailuresAreCounted ==
    Fetched("jobs") =>
        /\ FailedJobsMetric(Known) >= Cardinality(InBoth(LAMBDA s : s = "failed"))
        /\ AnswersAreCurrent \/ ~Known.answered => FailedJobsMetric(Known) >= VisibleFailures(Known)

(* The home page and the command center single out the same events.          *)
FailuresStandOut ==
    Fetched("events") =>
        (ActivityTone(homeList.rows[1]) = "red") = (EventTone(homeList.rows[1]) = "blue")

(* The group of failures is empty only when nothing failed, never promises   *)
(* fewer than it lists, and however many calls failed, a job that failed is  *)
(* among its items, and however many jobs, a call.                           *)
FailuresAreListed ==
    Fetched("work") =>
        LET items == FailureItems(homeList.rows)
            failed == FailedCalls(homeList.rows) \cup FailedJobs(homeList.rows)
        IN /\ (items = {}) = (FailureCount(homeList.rows) = 0)
           /\ Cardinality(items) <= FailureCount(homeList.rows) /\ items \subseteq failed
           /\ \A kind \in {"call", "job"} :
                  (\E i \in failed : homeList.rows[i].kind = kind) =>
                      \E i \in items : homeList.rows[i].kind = kind

(* The home page counts sessions alike in its metric and its tabs, counts    *)
(* what waits or failed in both of two answers however late either is, and   *)
(* hides no failure behind a cut list.                                       *)
HomeTells ==
    /\ HomeCountsAgree /\ ReviewIsCounted /\ FailuresAreCounted
    /\ FailuresStandOut /\ FailuresAreListed
=============================================================================
