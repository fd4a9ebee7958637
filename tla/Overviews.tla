----------------------------- MODULE Overviews ------------------------------
(* The numbers that pages derive from whole lists: approvals, sessions, and  *)
(* evidence with its findings. Several pages count the same rows, some from  *)
(* the list and some from the answers of the analytics API, and each answer  *)
(* arrives on its own. As in HomePage the model holds what was fetched: rows *)
(* of one moment, as many as the lists hold, in the window of the analytics. *)
EXTENDS SessionViews, FiniteSets

CONSTANT Pieces       \* the pieces of evidence

ASSUME PiecesAssumption == IsFiniteSet(Pieces)

VARIABLE overview      \* the list fetched, its rows, the analytics that arrived

(* count, countStatus: a status without rows is not in the analytics.        *)
KeyCount(counts, key) == IF key \in DOMAIN counts THEN counts[key] ELSE 0
GroupedCounts(rows, Key(_)) ==
    [k \in {Key(rows[i]) : i \in DOMAIN rows} |-> CountOf(rows, LAMBDA r : Key(r) = k)]

(* The share of a part, rounded to a whole number: Math.round.               *)
Rounded(part, whole) == (2 * part + whole) \div (2 * whole)

-----------------------------------------------------------------------------

(* Approval requests: what the API stores, and how the page reads it.        *)
ApprovalRows == [status : {"pending", "approved", "denied"}, risk : {"low", "medium", "high"}]
ApprovalStatus(status) == IF status \in {"approved", "denied", "expired"} THEN status ELSE "pending"
ApprovalRisk(risk) == IF risk \in {"high", "medium"} THEN risk ELSE "low"
IsPending(a) == a.status = "pending"

(* The two answers of the API that count approvals.                          *)
AnalyticsApprovals(rows) ==
    [total    |-> Len(rows),
     pending  |-> CountOf(rows, IsPending),
     approved |-> CountOf(rows, LAMBDA a : a.status = "approved"),
     denied   |-> CountOf(rows, LAMBDA a : a.status = "denied")]
ApprovalCounts(rows) == GroupedCounts(rows, LAMBDA a : a.status)

(* The metrics of the approvals page.                                        *)
BuildApprovalMetrics(rows, arrived) ==
    LET Counted(status) == CountOf(rows, LAMBDA a : ApprovalStatus(a.status) = status)
        analytics == AnalyticsApprovals(rows)
        known == "approvals" \in arrived
    IN [total    |-> IF known THEN analytics.total ELSE Len(rows),
        pending  |-> IF known THEN analytics.pending ELSE Counted("pending"),
        approved |-> IF known THEN analytics.approved ELSE Counted("approved"),
        denied   |-> IF known THEN analytics.denied ELSE Counted("denied"),
        expired  |-> Counted("expired")]

(* Its slices by risk, where each begins in the ring, and what was resolved. *)
RiskOrder == <<"high", "medium", "low">>

BuildRiskSummary(rows) ==
    [i \in 1..3 |-> CountOf(rows, LAMBDA a : ApprovalRisk(a.risk) = RiskOrder[i])]

RiskGradient(summary) == <<0, summary[1], summary[1] + summary[2]>>
BuildRecentOutcomes(rows) ==
    FirstFew(5, PlacesOf(rows, LAMBDA a : ApprovalStatus(a.status) # "pending"))

(* The same pending requests on the home page (its metric, the badge and the *)
(* group of the attention queue, from the list of pending ones), the list of *)
(* sessions, and the analytics page, which reads no list.                    *)
HomePendingMetric(rows, arrived) ==
    IF "approvals" \in arrived THEN AnalyticsApprovals(rows).pending
    ELSE CountOf(rows, IsPending)
HomePendingBadge(rows) == CountOf(rows, IsPending)
NotificationCount(rows) == CountOf(rows, IsPending)

AnalyticsPending(rows, arrived) ==
    IF "approvals" \in arrived THEN AnalyticsApprovals(rows).pending
    ELSE IF "overview" \in arrived THEN KeyCount(ApprovalCounts(rows), "pending") ELSE 0

-----------------------------------------------------------------------------

(* Sessions by status: the overview takes what the analytics say of a status *)
(* and counts the list for the others, the tabs count the list.              *)
StatusTabs(rows) ==
    [s \in SessionStatuses |-> CountOf(rows, LAMBDA r : NormalizeStatus(r) = s)]

(* Mutant: a status that the analytics do not mention has no sessions.       *)
OverviewStatusesGiven(rows, arrived) ==
    [s \in SessionStatuses |->
        IF "sessions" \in arrived THEN StatusTabs(rows)[s] ELSE 0]

OverviewStatuses(rows, arrived) ==
    LET counts == IF "sessions" \in arrived THEN GroupedCounts(rows, LAMBDA r : r) ELSE <<>>
    IN [s \in SessionStatuses |->
           IF s \in DOMAIN counts THEN counts[s] ELSE StatusTabs(rows)[s]]

(* The sessions completed, as the analytics page tells.                      *)
SessionsCompleted(rows, arrived) ==
    IF "overview" \in arrived THEN KeyCount(GroupedCounts(rows, LAMBDA r : r), "completed") ELSE 0

-----------------------------------------------------------------------------

(* Findings with the pieces of evidence that they cite, in the order in      *)
(* which the API lists them.                                                 *)
CitedFindings ==
    [status : {"candidate", "needs_review", "confirmed", "fixed"}, severity : {"high", "info"},
     cites : SUBSET Pieces]

(* The finding that the row of a piece of evidence names, and its status.    *)
LinkedFinding(findings, e) == {i \in DOMAIN findings : e \in findings[i].cites}
FirstLinked(findings, e) == Min(LinkedFinding(findings, e))

RowStatus(findings, e) ==
    IF LinkedFinding(findings, e) = {} THEN "reviewed"
    ELSE IF findings[FirstLinked(findings, e)].status = "confirmed" THEN "confirmed"
    ELSE "candidate"

(* The numbers above the table, and the evidence links of a finding.         *)
AwaitsReview(f) == f.status \in {"candidate", "needs_review"}
BuildEvidenceMetrics(findings) ==
    [linked    |-> Cardinality({e \in Pieces : LinkedFinding(findings, e) # {}}),
     confirmed |-> CountOf(findings, LAMBDA f : f.status = "confirmed"),
     candidate |-> CountOf(findings, AwaitsReview)]
EvidenceLinks(f) == Cardinality(f.cites)

(* The card "Confirmed findings" of the analytics page: it looks the status  *)
(* up among the counts by severity, where it never is.                       *)
SeverityCounts(findings) == GroupedCounts(findings, LAMBDA f : f.severity)
AnalyticsConfirmed(findings, arrived) ==
    IF "overview" \in arrived THEN KeyCount(SeverityCounts(findings), "confirmed") ELSE 0

(* The rows that the filter of statuses lets through.                        *)
FilterEvidence(findings, status) ==
    {e \in Pieces : status \in {"all", RowStatus(findings, e)}}

-----------------------------------------------------------------------------

OverviewInit == overview = [of |-> "nothing", rows |-> <<>>, arrived |-> {}]

FetchOverview(list, rows, arrived) ==
    overview' = [of |-> list, rows |-> rows, arrived |-> arrived]

OverviewNext ==
    /\ overview.of = "nothing"
    /\ \/ \E rows \in SeqOf(ApprovalRows, MaxListed), arrived \in SUBSET {"approvals", "overview"} :
              FetchOverview("approvals", rows, arrived)
       \/ \E rows \in SeqOf(SessionStatuses, MaxListed), arrived \in SUBSET {"sessions", "overview"} :
              FetchOverview("sessions", rows, arrived)
       \/ \E rows \in SeqOf(CitedFindings, MaxListed), arrived \in SUBSET {"overview"} :
              FetchOverview("findings", rows, arrived)

OverviewSpec == OverviewInit /\ [][OverviewNext]_overview

-----------------------------------------------------------------------------

OverviewOf(list) == overview.of = list

(* Whichever answers have arrived, five places tell one number of pending    *)
(* requests, and the analytics page the same once it has an answer.          *)
PendingIsOneNumber ==
    OverviewOf("approvals") =>
        LET pending == CountOf(overview.rows, IsPending)
        IN /\ BuildApprovalMetrics(overview.rows, overview.arrived).pending = pending
           /\ HomePendingMetric(overview.rows, overview.arrived) = pending
           /\ HomePendingBadge(overview.rows) = pending
           /\ NotificationCount(overview.rows) = pending
           /\ overview.arrived # {} => AnalyticsPending(overview.rows, overview.arrived) = pending

(* The metrics of the approvals page add up to its total, its slices by risk *)
(* fill the ring, and the outcomes are those of the resolved metrics.        *)
ApprovalsAddUp ==
    OverviewOf("approvals") =>
        LET metric == BuildApprovalMetrics(overview.rows, overview.arrived)
            risk == BuildRiskSummary(overview.rows)
        IN /\ metric.pending + metric.approved + metric.denied + metric.expired = metric.total
           /\ RiskGradient(risk)[3] + risk[3] = metric.total
           /\ Cardinality(BuildRecentOutcomes(overview.rows)) = Min({5, metric.total - metric.pending})

(* The overview of sessions adds up to their number and agrees with the      *)
(* tabs, with analytics and before they arrive.                              *)
SessionsAddUp ==
    OverviewOf("sessions") =>
        LET numbers == OverviewStatuses(overview.rows, overview.arrived)
        IN /\ SumOf(numbers) = Len(overview.rows)
           /\ numbers = StatusTabs(overview.rows)
           /\ "overview" \in overview.arrived =>
                  SessionsCompleted(overview.rows, overview.arrived) = numbers["completed"]

(* Where two pages do not agree: the evidence page counts the confirmed      *)
(* findings, and the card of the analytics page tells that number only when  *)
(* it is zero, since whatever has arrived the card tells zero.               *)
ConfirmedCardTellsZero ==
    OverviewOf("findings") =>
        LET confirmed == BuildEvidenceMetrics(overview.rows).confirmed
            card == AnalyticsConfirmed(overview.rows, overview.arrived)
        IN /\ (card = confirmed) = (\A f \in Range(overview.rows) : f.status # "confirmed")
           /\ card <= confirmed

(* A row of evidence is confirmed only by a confirmed finding that cites it, *)
(* reviewed only if none does, and the filter of statuses shares the rows    *)
(* out; the metric of linked rows counts pieces that findings link.          *)
LinkedRowsTell ==
    OverviewOf("findings") =>
        LET findings == overview.rows
            metric == BuildEvidenceMetrics(findings)
        IN /\ \A e \in Pieces :
                  /\ RowStatus(findings, e) = "confirmed" =>
                         \E f \in Range(findings) : e \in f.cites /\ f.status = "confirmed"
                  /\ (RowStatus(findings, e) = "reviewed") =
                         (\A f \in Range(findings) : e \notin f.cites)
           /\ Cardinality(FilterEvidence(findings, "candidate"))
                  + Cardinality(FilterEvidence(findings, "confirmed")) = metric.linked
           /\ metric.confirmed = 0 => FilterEvidence(findings, "confirmed") = {}
           /\ metric.linked <= SumOf([i \in DOMAIN findings |-> EvidenceLinks(findings[i])])
=============================================================================
