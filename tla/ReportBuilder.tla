--------------------------- MODULE ReportBuilder ---------------------------
(* The reports page: ReportsPage with its header and settings, and the       *)
(* queries and mutations of useReports. Rendering is a job of a worker; the  *)
(* list of reports is not polled.                                            *)
EXTENDS WebLists

CONSTANTS
    ReportSessions,    \* numbered in the order of the session list
    Reports,           \* numbered in the order of their lists
    SessionOfReport,
    Titles,
    TypedTitles,       \* those that the operator of the page types
    Contended          \* the reports that other operators write, too

ASSUME ReportAssumption ==
    /\ ReportSessions \subseteq Nat \ {0} /\ Reports \subseteq Nat \ {0}
    /\ IsFiniteSet(ReportSessions) /\ IsFiniteSet(Reports)
    /\ SessionOfReport \in [Reports -> ReportSessions]
    /\ Titles # {} /\ TypedTitles \subseteq Titles /\ Contended \subseteq Reports

VARIABLES
    report,            \* status and title of each report in the database
    renderJobs,        \* reports with a render job
    shownReports,      \* the reports last fetched
    chosenSession, chosenReport,
    titleDraft,        \* the title field, and the report it was loaded from
    titleSave,         \* the update of a title in flight
    reportAction       \* the mutation of the header in flight

reportVars == <<report, renderJobs, shownReports, chosenSession, chosenReport,
                titleDraft, titleSave, reportAction>>
reportServer == <<report, renderJobs>>
reportChoice == <<chosenSession, chosenReport, titleDraft>>

DefaultTitle == CHOOSE t \in Titles : TRUE
NoReport == [status |-> "absent", title |-> DefaultTitle]
NoTitleSave == [report |-> Nothing, draft |-> Nothing, title |-> DefaultTitle]
NoReportAction == [phase |-> "none", kind |-> "none", report |-> Nothing, title |-> DefaultTitle]
ActionDone == [NoReportAction EXCEPT !.phase = "done"]
ReportRow == [status : {"absent", "draft", "rendered", "final"}, title : Titles]

(* The findings that the page previews and counts as included, and those     *)
(* that the renderer of the API puts into a report.                          *)
ReportFindingLabels == {"Confirmed", "Accepted Risk", "Fixed"}
PreviewLabel(s) ==
    CASE s = "confirmed"      -> "Confirmed"
      [] s = "false_positive" -> "False Positive"
      [] s = "accepted_risk"  -> "Accepted Risk"
      [] s = "fixed"          -> "Fixed"
      [] s = "archived"       -> "Archived"
      [] s = "needs_review"   -> "Needs Review"
      [] OTHER                -> "Candidate"
RenderedStatuses == {"confirmed", "accepted_risk", "fixed"}

ListedReports(s, shown) ==
    {r \in Reports : SessionOfReport[r] = s /\ shown[r].status # "absent"}

(* The report of the page: the chosen one or else the first of the session.  *)
ResolveReport(s, chosen, shown) == StillOrFirst(chosen, ListedReports(s, shown))

TitleOf(r, shown) == IF r = Nothing THEN DefaultTitle ELSE shown[r].title

ReportInit ==
    /\ report \in [Reports -> {NoReport, [NoReport EXCEPT !.status = "draft"]}]
    /\ renderJobs = {}
    /\ shownReports = [r \in Reports |-> NoReport]
    /\ chosenSession = FirstOf(ReportSessions) /\ chosenReport = Nothing
    /\ titleDraft = [of |-> Nothing, title |-> DefaultTitle]
    /\ titleSave = NoTitleSave /\ reportAction = NoReportAction

-----------------------------------------------------------------------------

(* Mutant: the field is loaded anew only when the title is another one.      *)
LoadTitleByTitle(r, shown) ==
    titleDraft' = IF TitleOf(r, shown) = TitleOf(chosenReport, shownReports)
                  THEN titleDraft ELSE [of |-> r, title |-> TitleOf(r, shown)]

(* The effect of the page: another report, or another title of the same      *)
(* report, loads the field anew; what was being typed is lost.               *)
LoadTitle(r, shown) ==
    titleDraft' = IF r = chosenReport /\ TitleOf(r, shown) = TitleOf(r, shownReports)
                  THEN titleDraft ELSE [of |-> r, title |-> TitleOf(r, shown)]

(* The effects of a render, which settle the report and the title field.     *)
Settle(s, chosen, shown) ==
    LET r == ResolveReport(s, chosen, shown)
    IN chosenReport' = r /\ LoadTitle(r, shown)

(* Other operators create and rename reports.                                *)
OtherWritesReport(r, title) ==
    /\ r \in Contended
    /\ \/ /\ report[r] = NoReport
          /\ report' = [report EXCEPT ![r] = [status |-> "draft", title |-> title]]
       \/ /\ report[r] # NoReport /\ report[r].title # title
          /\ report' = [report EXCEPT ![r].title = title]
    /\ UNCHANGED <<renderJobs, shownReports, reportChoice, titleSave, reportAction>>

(* The worker renders whatever the status of the report is by then.          *)
RenderJob(r) ==
    /\ r \in renderJobs
    /\ renderJobs' = renderJobs \ {r}
    /\ report' = [report EXCEPT ![r].status = "rendered"]
    /\ UNCHANGED <<shownReports, reportChoice, titleSave, reportAction>>

(* The answer of the list query of the session: on mount, when the session   *)
(* is chosen, and after a mutation.                                          *)
FetchedReports ==
    [r \in Reports |-> IF SessionOfReport[r] = chosenSession THEN report[r] ELSE shownReports[r]]

FetchReports ==
    /\ shownReports # FetchedReports
    /\ shownReports' = FetchedReports
    /\ Settle(chosenSession, chosenReport, FetchedReports)
    /\ UNCHANGED <<reportServer, chosenSession, titleSave, reportAction>>

HandleSessionChange(s) ==
    /\ s # chosenSession
    /\ chosenSession' = s
    /\ Settle(s, Nothing, shownReports)
    /\ UNCHANGED <<reportServer, shownReports, titleSave, reportAction>>

SelectReport(r) ==
    /\ r \in ListedReports(chosenSession, shownReports) \ {chosenReport}
    /\ Settle(chosenSession, r, shownReports)
    /\ UNCHANGED <<reportServer, shownReports, chosenSession, titleSave, reportAction>>

TypeTitle(title) ==
    /\ chosenReport # Nothing /\ titleDraft.title # title
    /\ titleDraft' = [titleDraft EXCEPT !.title = title]
    /\ UNCHANGED <<reportServer, shownReports, chosenSession, chosenReport, titleSave, reportAction>>

(* Leaving the field saves the title, also while the header is busy.         *)
UpdateTitle ==
    /\ chosenReport # Nothing /\ titleDraft.title # shownReports[chosenReport].title
    /\ titleSave = NoTitleSave
    /\ titleSave' = [report |-> chosenReport,
                     draft |-> titleDraft.of, title |-> titleDraft.title]
    /\ UNCHANGED <<reportServer, shownReports, reportChoice, reportAction>>

(* The save is carried out or it fails; an answer, even one that got lost,   *)
(* ends it. Success fetches the list of the session that is chosen by then.  *)
SaveTitle ==
    /\ titleSave # NoTitleSave
    /\ report' = [report EXCEPT ![titleSave.report].title = titleSave.title]
    /\ titleSave' = NoTitleSave
    /\ UNCHANGED <<renderJobs, shownReports, reportChoice, reportAction>>

TitleSaveFails ==
    /\ titleSave # NoTitleSave
    /\ titleSave' = NoTitleSave
    /\ UNCHANGED <<reportServer, shownReports, reportChoice, reportAction>>

-----------------------------------------------------------------------------

CanFinalize(r) == r # Nothing /\ shownReports[r].status = "rendered"

(* The buttons of the header are disabled while one of them is busy.         *)
ClickHeader(kind) ==
    /\ reportAction = NoReportAction /\ titleSave = NoTitleSave
    /\ CASE kind = "create"   -> TRUE
         [] kind = "finalize" -> CanFinalize(chosenReport)
         [] OTHER             -> chosenReport # Nothing
    /\ reportAction' = [phase |-> "sent", kind |-> kind, report |->
                            IF kind = "create" THEN Nothing ELSE chosenReport,
                        title |-> IF kind = "create" THEN titleDraft.title ELSE DefaultTitle]
    /\ UNCHANGED <<reportServer, shownReports, reportChoice, titleSave>>

CommitCreate(r) ==
    /\ reportAction.phase = "sent" /\ reportAction.kind = "create"
    /\ report[r] = NoReport
    /\ report' = [report EXCEPT ![r] = [status |-> "draft", title |-> reportAction.title]]
    /\ reportAction' = ActionDone
    /\ UNCHANGED <<renderJobs, shownReports, reportChoice, titleSave>>

CommitRender ==
    /\ reportAction.phase = "sent" /\ reportAction.kind = "render"
    /\ renderJobs' = renderJobs \cup {reportAction.report}
    /\ reportAction' = ActionDone
    /\ UNCHANGED <<report, shownReports, reportChoice, titleSave>>

Finalizable(r) == report[r].status \in {"rendered", "final"}

CommitFinalize ==
    /\ reportAction.phase = "sent" /\ reportAction.kind = "finalize"
    /\ IF Finalizable(reportAction.report)
       THEN /\ report' = [report EXCEPT ![reportAction.report].status = "final"]
            /\ reportAction' = ActionDone
       ELSE reportAction' = [NoReportAction EXCEPT !.phase = "refused"] /\ UNCHANGED report
    /\ UNCHANGED <<renderJobs, shownReports, reportChoice, titleSave>>

(* An export stores an asset and leaves the report otherwise as it is.       *)
CommitExport ==
    /\ reportAction.phase = "sent" /\ reportAction.kind = "export"
    /\ reportAction' = ActionDone
    /\ UNCHANGED <<reportServer, shownReports, reportChoice, titleSave>>

(* The header is busy until the list is fetched again, or until the action   *)
(* or that fetch has failed.                                                 *)
ReportActionEnds ==
    /\ reportAction # NoReportAction
    /\ reportAction' = NoReportAction
    /\ \/ /\ reportAction.phase = "done"
          /\ shownReports' = FetchedReports
          /\ Settle(chosenSession, chosenReport, FetchedReports)
          /\ UNCHANGED chosenSession
       \/ UNCHANGED <<shownReports, reportChoice>>
    /\ UNCHANGED <<reportServer, titleSave>>

ReportNext ==
    \/ \E r \in Reports : \/ RenderJob(r) \/ SelectReport(r) \/ CommitCreate(r)
                          \/ \E t \in Titles : OtherWritesReport(r, t)
    \/ FetchReports
    \/ \E s \in ReportSessions : HandleSessionChange(s)
    \/ \E t \in TypedTitles : TypeTitle(t)
    \/ UpdateTitle \/ SaveTitle \/ TitleSaveFails
    \/ \E kind \in {"create", "render", "finalize", "export"} : ClickHeader(kind)
    \/ CommitRender \/ CommitFinalize \/ CommitExport \/ ReportActionEnds

ReportSpec == ReportInit /\ [][ReportNext]_reportVars

-----------------------------------------------------------------------------

ReportTypeOK ==
    /\ report \in [Reports -> ReportRow] /\ shownReports \in [Reports -> ReportRow]
    /\ renderJobs \subseteq Reports
    /\ chosenSession \in ReportSessions \cup {Nothing} /\ chosenReport \in Reports \cup {Nothing}
    /\ titleDraft \in [of : Reports \cup {Nothing}, title : Titles]
    /\ titleSave \in [report : Reports \cup {Nothing},
                      draft : Reports \cup {Nothing}, title : Titles]
    /\ reportAction \in [phase : {"none", "sent", "done", "refused"},
           kind : {"none", "create", "render", "finalize", "export"},
           report : Reports \cup {Nothing}, title : Titles]

(* A title typed for one report is never saved to another one, although      *)
(* reports may have the same title and refetches, sessions and fallbacks     *)
(* change the report under the field.                                        *)
TitlesGoHome == titleSave.report = titleSave.draft

(* Finalising is offered on a row fetched earlier and carried out later, and *)
(* the API never refuses it: no step in between takes a report back to draft.*)
FinalizeIsAccepted == reportAction.phase # "refused"
=============================================================================
