----------------------------- MODULE RowDetails -----------------------------
(* What the side panels tell of one selected row, or of the rows of one      *)
(* session: an approval request, a tool call, a runtime, the file writes of  *)
(* a session, the risks of a report. A panel words the same row several      *)
(* times over. As in HomePage the model holds what was fetched.              *)
EXTENDS Overviews, RuntimeConsole

VARIABLE detail        \* what the panel is about, and what was fetched of it

(* Approval requests as the API tells them: once decided, the time is set.   *)
DecidedRows == [status : {"approved", "denied"}, resolved : {TRUE}, noted : BOOLEAN]
RequestRows == DecidedRows \cup [status : {"pending"}, resolved : {FALSE}, noted : {FALSE}]

PolicyDecision(status) ==
    CASE status = "approved" -> "allow"
      [] status = "denied"   -> "denied_by_policy"
      [] OTHER               -> "require_approval"

ApprovalTrail(a) ==
    <<"requested">> \o (IF a.resolved THEN <<ApprovalStatus(a.status)>> ELSE <<>>)

(* The row of the queue, the lock of the panel and what its tabs tell.       *)
MapApproval(a) ==
    LET status == ApprovalStatus(a.status)
    IN [policy |-> PolicyDecision(status),
        wording |-> IF status = "pending" THEN "Require approval" ELSE status,
        stamp  |-> IF status = "pending" THEN "Requested" ELSE "Resolved",
        trail  |-> ApprovalTrail(a)]
DecisionLocked(a) == ApprovalStatus(a.status) # "pending"

-----------------------------------------------------------------------------

(* Tool calls as the API tells them. Calls that are refused or that need no  *)
(* execution are stored under their last status, without any time; others    *)
(* have a time of completion, also when they never started.                  *)
CallRows ==
    {c \in [status : ToolStatusOrder \cup {"awaiting_approval"},
            started : BOOLEAN, completed : BOOLEAN,
            raw : BOOLEAN, result : BOOLEAN, error : BOOLEAN] :
        /\ c.status \in {"queued", "awaiting_approval"} =>
               ~c.started /\ ~c.completed /\ ~c.raw /\ ~c.result /\ ~c.error
        /\ c.status = "running" => c.started /\ ~c.completed /\ ~c.raw /\ ~c.result /\ ~c.error
        /\ c.status \in {"failed", "timed_out", "cancelled"} => c.completed
        /\ c.status = "denied" => ~c.started /\ ~c.raw /\ ~c.result /\ c.error
        /\ c.status = "succeeded" => (c.started => c.completed) /\ ~c.error}

(* Mutant: one event for either time.                                        *)
AuditTrailEither(c) ==
    IF c.started THEN <<"started">> ELSE <<c.status>>

(* The audit trail words the status of the API, the pill its normal form.    *)
AuditTrail(c) ==
    LET timed == (IF c.started THEN <<"started">> ELSE <<>>)
                 \o (IF c.completed THEN <<c.status>> ELSE <<>>)
    IN IF timed = <<>> THEN <<c.status>> ELSE timed

(* The text of the preview and the words for it in the table.                *)
ResultOutput(c) ==
    IF c.raw THEN "raw" ELSE IF c.result THEN "result" ELSE "empty"
MapToolCall(c) ==
    [pill   |-> NormalizeToolStatus(c.status),
     output |-> IF c.raw THEN "bytes" ELSE IF c.error THEN "Error" ELSE "--",
     created |-> c.started \/ c.completed,
     stdout |-> ResultOutput(c), stderr |-> c.error,
     trail  |-> AuditTrail(c)]

-----------------------------------------------------------------------------

(* A runtime: its row, whether it has a workspace, its network.              *)
InstanceRows ==
    [row : RuntimeRows \ {"none"}, workspace : BOOLEAN, network : {"none", "bridge"}]

HealthChecks(i) ==
    [state     |-> RuntimeStateCheck(i.row),
     workspace |-> IF i.workspace THEN "ok" ELSE "warning",
     network   |-> IF i.network = "none" THEN "ok" ELSE "warning"]

(* The checks that are shown as long as the session has no runtime.          *)
EmptyRuntimeInstance == [state |-> "warning", workspace |-> "warning", network |-> "ok"]

-----------------------------------------------------------------------------

(* The writes of a session: a file that an operator wrote has an event, a    *)
(* call of the tool that writes files has none.                              *)
Writes == [by : {"operator"}, status : {"succeeded"}]
          \cup [by : {"tool"}, status : {"succeeded", "denied"}]

MapRecentFileWrites(writes) ==
    LET events == PlacesOf(writes, LAMBDA w : w.by = "operator")
        calls == PlacesOf(writes, LAMBDA w : w.by = "tool" /\ w.status = "succeeded")
    IN IF events # {} THEN events ELSE FirstFew(6, calls)

-----------------------------------------------------------------------------

(* The risks of the findings of a report, by the severity that is shown.     *)
Severities == {"critical", "high", "medium", "low", "info"}
RiskSeverities == {"High", "Medium", "Low", "Info"}

ReportSeverity(s) ==
    CASE s = "high" -> "High" [] s = "medium" -> "Medium" [] s = "low" -> "Low" [] OTHER -> "Info"

RiskSummary(findings) ==
    [severity \in RiskSeverities |->
        LET count == CountOf(findings, LAMBDA s : ReportSeverity(s) = severity)
            total == Max({Len(findings), 1})
        IN [count |-> count, percent |-> Rounded(100 * count, total)]]

-----------------------------------------------------------------------------

DetailInit == detail = [of |-> "nothing", row |-> <<>>]

ShowDetail(panel, row) ==
    /\ detail.of = "nothing"
    /\ detail' = [of |-> panel, row |-> row]

DetailNext ==
    \/ \E a \in RequestRows : ShowDetail("approval", a)
    \/ \E c \in CallRows : ShowDetail("call", c)
    \/ \E i \in InstanceRows : ShowDetail("runtime", i)
    \/ \E writes \in SeqOf(Writes, MaxListed) : ShowDetail("writes", writes)
    \/ \E findings \in SeqOf(Severities, MaxListed) : ShowDetail("risks", findings)

DetailSpec == DetailInit /\ [][DetailNext]_detail

-----------------------------------------------------------------------------

DetailOf(panel) == detail.of = panel

(* The lock, the wording of the policy, the stamp and the audit trail of a   *)
(* request tell one story: it is locked if and only if its trail ends in the *)
(* decision that the other tabs name.                                        *)
ApprovalTells ==
    DetailOf("approval") =>
        LET a == detail.row
            shown == MapApproval(a)
        IN /\ DecisionLocked(a) = (Len(shown.trail) = 2)
           /\ DecisionLocked(a) = (shown.stamp = "Resolved")
           /\ DecisionLocked(a) => shown.wording = Last(shown.trail)
           /\ (shown.policy = "allow") = (Last(shown.trail) = "approved")

(* The audit trail ends in the status of the call, or in its start while it  *)
(* runs; the pill words the same status, but for an approval that is awaited *)
(* (which it shows as a failure); and the word "Error" stands in the table   *)
(* only if there is an error to read.                                        *)
AuditTrailTells ==
    DetailOf("call") =>
        LET c == detail.row
            shown == MapToolCall(c)
            lastWord == IF c.status = "running" THEN "started" ELSE c.status
        IN /\ Last(shown.trail) = lastWord
           /\ c.status # "awaiting_approval" => shown.pill = c.status
           /\ shown.output = "Error" => shown.stderr /\ shown.stdout # "raw"
           /\ shown.output = "--" => ~shown.stderr
           /\ "started" \in Range(shown.trail) => shown.created

(* The health in the header of the runtime page is the first of the checks   *)
(* below it, and a session without a runtime passes no check of its state.   *)
ChecksAgree ==
    DetailOf("runtime") =>
        LET checks == HealthChecks(detail.row)
        IN /\ (HeaderHealth(detail.row.row) = "healthy") = (checks.state = "ok")
           /\ (HeaderHealth(detail.row.row) = "unhealthy") = (checks.state = "failed")
           /\ detail.row = [row |-> "stopped", workspace |-> FALSE, network |-> "none"] =>
                  checks = EmptyRuntimeInstance

(* The list of file writes is empty only if nothing is told to be written,   *)
(* and lists no refused write.                                               *)
WritesAreListed ==
    DetailOf("writes") =>
        LET listed == MapRecentFileWrites(detail.row)
        IN /\ (listed = {}) = (\A w \in Range(detail.row) : w.status = "denied")
           /\ \A i \in listed : detail.row[i].status = "succeeded"

(* Every finding is counted under one severity, and each share stays between *)
(* nothing and the whole, whatever is rounded.                               *)
RisksAddUp ==
    DetailOf("risks") =>
        LET summary == RiskSummary(detail.row)
        IN /\ SumOf([s \in RiskSeverities |-> summary[s].count]) = Len(detail.row)
           /\ \A s \in RiskSeverities :
                  summary[s].percent \in 0..100 /\ (summary[s].count = 0 => summary[s].percent = 0)
=============================================================================
