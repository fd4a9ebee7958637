------------------------------- MODULE WebApp -------------------------------
(* The web application: one page is open in the browser at a time (App.tsx), *)
(* and each keeps its state to itself; what pages share is the API.          *)
(* QueryCache shows that a page sees the rows of the API as they once were   *)
(* and never goes back, so the fetches of the pages take the rows of the     *)
(* moment.                                                                   *)
EXTENDS AuthGate, HomePage, HomeApproval, SessionsBoard, SetupFlow, ApprovalsBoard,
        EvidenceBoard, MemoryBoard, MemorySearch, ReportBuilder, ReportOutline,
        RuntimeConsole, Overviews, RowDetails, Directories

CONSTANT Pages         \* the pages that runs explore

(* Parts of a page that share no state are open one at a time, too: the      *)
(* approval panel of the home page, the search of the memory page, the       *)
(* outline of the reports page, the numbers above the lists, the details     *)
(* beside them, and the directories of providers and of analytics.           *)
AllPages == {"login", "home", "panel", "sessions", "setup", "approvals", "evidence",
             "memory", "search", "reports", "outline", "runtime", "overview", "details",
             "users", "directory"}

ASSUME WebAssumption == Pages \subseteq AllPages

VARIABLE page          \* the page that is open

webVars == <<page, authVars, homeList, homePanelVars, sessionsVars, setupVars, boardVars,
             evidenceVars, memoryVars, searchVars, reportVars, outlineVars, consoleVars,
             overview, detail, usersVars, directory>>

(* A page that is not open has one state.                                    *)
AuthAtRest == AuthInit /\ ~signedIn /\ route = "root"
SetupAtRest == SetupInit /\ row[CHOOSE t \in TargetRows : TRUE] = "blank"
BoardAtRest == BoardInit /\ queue = [r \in Requests |-> "absent"]
EvidenceAtRest ==
    /\ EvidenceInit /\ \A f \in Findings : finding[f].status = "absent"
    /\ supports = CHOOSE s \in SupportsInPlay : TRUE
MemoryAtRest ==
    /\ MemoryInit /\ memory = [m \in Memories |-> NoMemory]
    /\ memoryView = CHOOSE v \in MemoryViews : TRUE
SearchAtRest == SearchInit /\ search = CHOOSE s \in Searches : s.query = ""
UsersAtRest == UsersInit /\ exampleRole = [u \in ExampleUsers |-> "Viewer"]
ReportAtRest == ReportInit /\ report = [r \in Reports |-> NoReport]
ConsoleAtRest ==
    /\ ConsoleInit /\ sessionStatus = [s \in ConsoleSessions |-> "draft"]
    /\ requestedSession = Nothing

WebInit ==
    /\ page \in Pages
    /\ IF page = "login" THEN AuthInit ELSE AuthAtRest
    /\ HomeInit /\ PanelInit /\ SessionsInit /\ OutlineInit /\ OverviewInit /\ DetailInit
    /\ DirectoryInit
    /\ IF page = "setup" THEN SetupInit ELSE SetupAtRest
    /\ IF page = "approvals" THEN BoardInit ELSE BoardAtRest
    /\ IF page = "evidence" THEN EvidenceInit ELSE EvidenceAtRest
    /\ IF page = "memory" THEN MemoryInit ELSE MemoryAtRest
    /\ IF page = "search" THEN SearchInit ELSE SearchAtRest
    /\ IF page = "users" THEN UsersInit ELSE UsersAtRest
    /\ IF page = "reports" THEN ReportInit ELSE ReportAtRest
    /\ IF page = "runtime" THEN ConsoleInit ELSE ConsoleAtRest

WebNext ==
    \/ /\ page = "login" /\ UNCHANGED <<page, homeList, homePanelVars, sessionsVars, setupVars,
                      boardVars, evidenceVars, memoryVars, searchVars,
                      reportVars, outlineVars, consoleVars, overview, detail,
                      usersVars, directory>>
       /\ AuthNext
    \/ /\ page = "home" /\ UNCHANGED <<page, authVars, homePanelVars, sessionsVars, setupVars,
                      boardVars, evidenceVars, memoryVars, searchVars,
                      reportVars, outlineVars, consoleVars, overview, detail,
                      usersVars, directory>>
       /\ HomeNext
    \/ /\ page = "panel" /\ UNCHANGED <<page, authVars, homeList, sessionsVars, setupVars,
                      boardVars, evidenceVars, memoryVars, searchVars,
                      reportVars, outlineVars, consoleVars, overview, detail,
                      usersVars, directory>>
       /\ PanelNext
    \/ /\ page = "sessions" /\ UNCHANGED <<page, authVars, homeList, homePanelVars, setupVars,
                      boardVars, evidenceVars, memoryVars, searchVars,
                      reportVars, outlineVars, consoleVars, overview, detail,
                      usersVars, directory>>
       /\ SessionsNext
    \/ /\ page = "setup" /\ UNCHANGED <<page, authVars, homeList, homePanelVars, sessionsVars,
                      boardVars, evidenceVars, memoryVars, searchVars,
                      reportVars, outlineVars, consoleVars, overview, detail,
                      usersVars, directory>>
       /\ SetupNext
    \/ /\ page = "approvals" /\ UNCHANGED <<page, authVars, homeList, homePanelVars, sessionsVars,
                      setupVars, evidenceVars, memoryVars, searchVars,
                      reportVars, outlineVars, consoleVars, overview, detail,
                      usersVars, directory>>
       /\ BoardNext
    \/ /\ page = "evidence" /\ UNCHANGED <<page, authVars, homeList, homePanelVars, sessionsVars,
                      setupVars, boardVars, memoryVars, searchVars, reportVars,
                      outlineVars, consoleVars, overview, detail, usersVars,
                      directory>>
       /\ EvidenceNext
    \/ /\ page = "memory" /\ UNCHANGED <<page, authVars, homeList, homePanelVars, sessionsVars,
                      setupVars, boardVars, evidenceVars, searchVars,
                      reportVars, outlineVars, consoleVars, overview, detail,
                      usersVars, directory>>
       /\ MemoryNext
    \/ /\ page = "search" /\ UNCHANGED <<page, authVars, homeList, homePanelVars, sessionsVars,
                      setupVars, boardVars, evidenceVars, memoryVars,
                      reportVars, outlineVars, consoleVars, overview, detail,
                      usersVars, directory>>
       /\ SearchNext
    \/ /\ page = "reports" /\ UNCHANGED <<page, authVars, homeList, homePanelVars, sessionsVars,
                      setupVars, boardVars, evidenceVars, memoryVars,
                      searchVars, outlineVars, consoleVars, overview, detail,
                      usersVars, directory>>
       /\ ReportNext
    \/ /\ page = "outline" /\ UNCHANGED <<page, authVars, homeList, homePanelVars, sessionsVars,
                      setupVars, boardVars, evidenceVars, memoryVars,
                      searchVars, reportVars, consoleVars, overview, detail,
                      usersVars, directory>>
       /\ OutlineNext
    \/ /\ page = "runtime" /\ UNCHANGED <<page, authVars, homeList, homePanelVars, sessionsVars,
                      setupVars, boardVars, evidenceVars, memoryVars,
                      searchVars, reportVars, outlineVars, overview, detail,
                      usersVars, directory>>
       /\ ConsoleNext
    \/ /\ page = "overview" /\ UNCHANGED <<page, authVars, homeList, homePanelVars, sessionsVars,
                      setupVars, boardVars, evidenceVars, memoryVars,
                      searchVars, reportVars, outlineVars, consoleVars, detail,
                      usersVars, directory>>
       /\ OverviewNext
    \/ /\ page = "details" /\ UNCHANGED <<page, authVars, homeList, homePanelVars, sessionsVars,
                      setupVars, boardVars, evidenceVars, memoryVars,
                      searchVars, reportVars, outlineVars, consoleVars,
                      overview, usersVars, directory>>
       /\ DetailNext
    \/ /\ page = "users" /\ UNCHANGED <<page, authVars, homeList, homePanelVars, sessionsVars,
                      setupVars, boardVars, evidenceVars, memoryVars,
                      searchVars, reportVars, outlineVars, consoleVars,
                      overview, detail, directory>>
       /\ UsersNext
    \/ /\ page = "directory" /\ UNCHANGED <<page, authVars, homeList, homePanelVars, sessionsVars,
                      setupVars, boardVars, evidenceVars, memoryVars,
                      searchVars, reportVars, outlineVars, consoleVars,
                      overview, detail, usersVars>>
       /\ DirectoryNext

WebSpec == WebInit /\ [][WebNext]_webVars

-----------------------------------------------------------------------------

(* The open page keeps to its types, and its selections, fields and requests *)
(* to rows that exist.                                                       *)
WebTypeOK ==
    CASE page = "login"     -> AuthTypeOK
      [] page = "home"      -> homeList.of \in {"nothing", "sessions", "tasks", "runtime",
                                               "findings", "jobs", "events", "work"}
      [] page = "panel"     -> PanelTypeOK
      [] page = "sessions"  -> SessionsTypeOK
      [] page = "setup"     -> SetupTypeOK
      [] page = "approvals" -> BoardTypeOK
      [] page = "evidence"  -> EvidenceTypeOK
      [] page = "memory"    -> MemoryTypeOK
      [] page = "search"    -> SearchTypeOK
      [] page = "reports"   -> ReportTypeOK
      [] page = "outline"   -> OutlineTypeOK
      [] page = "runtime"   -> ConsoleTypeOK
      [] page = "overview"  -> overview.of \in {"nothing", "approvals", "sessions", "findings"}
      [] page = "details"   -> detail.of \in {"nothing", "approval", "call", "runtime",
                                              "writes", "risks"}
      [] page = "users"     -> UsersTypeOK
      [] page = "directory" -> directory.of \in {"nothing", "providers", "tools", "sessions",
                                                 "severities"}

(* What the evidence page says of a finding's place in the report, what the  *)
(* reports page previews and counts, and what the API renders are the same   *)
(* findings: three lists of statuses kept apart.                             *)
InclusionAgrees ==
    page \in {"evidence", "reports"} => \A s \in FindingStatuses :
        /\ (ReportInclusion(s) = "Include in report") = (PreviewLabel(s) \in ReportFindingLabels)
        /\ (ReportInclusion(s) = "Include in report") = (s \in RenderedStatuses)

(* A click is refused by the API only if another operator moved the row that *)
(* it was offered for: the conditions of the buttons and the guards of the   *)
(* API were written apart. And whatever the API would accept is offered.     *)
OfferedIsAccepted == ClicksAreAccepted /\ TransitionsAreOffered /\ FinalizeIsAccepted

(* One row is told alike on every page, although each page maps it in a file *)
(* of its own: statuses and tabs, runtimes, current steps, reported findings.*)
PagesAgree == TabsAreTrue /\ FailedRuntimeIsSeen /\ PagesNameOneStep /\ InclusionAgrees

(* Of answers of one moment, whichever have arrived: pending approvals are   *)
(* one number on the five places that tell it; the numbers above the lists   *)
(* of approvals and of sessions add up to these lists; the sessions          *)
(* completed are as many on the analytics page; its rates, its ring and its  *)
(* shares fill the whole, and so do the risks of a report. The one card that *)
(* disagrees with another page is that of confirmed findings: it tells zero, *)
(* and so is wrong just when a finding is confirmed.                         *)
NumbersAddUp ==
    /\ PendingIsOneNumber /\ ApprovalsAddUp /\ SessionsAddUp /\ AnalyticsAddUp /\ RisksAddUp
    /\ ConfirmedCardTellsZero

(* A row and the panel beside it tell what the API has: a row of evidence is *)
(* worded as the finding that it names, no example rows stand beside real    *)
(* ones, no write that was refused is listed, and no lock, status, check,    *)
(* output or card of a panel contradicts another one.                        *)
RowsTell ==
    /\ LinkedRowsTell /\ ApprovalTells /\ AuditTrailTells /\ ChecksAgree
    /\ WritesAreListed /\ UsersAreTheApis /\ CardsAgree
=============================================================================
