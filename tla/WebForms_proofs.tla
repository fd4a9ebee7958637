--------------------------- MODULE WebForms_proofs ---------------------------
(* Proofs about the two places where operators decide, the approvals page    *)
(* and the approval panel of the home page, and about the login, the         *)
(* inspector of the evidence page, the header of the reports page and the    *)
(* panel of the memory page: forms whose answers, saves, polls and refetches *)
(* may cross. They hold for any requests, filters and page size, and for any *)
(* evidence, findings, sessions, reports, titles, memories, tabs and bound   *)
(* on writes.                                                                *)
EXTENDS ApprovalsBoard, HomeApproval, AuthGate, EvidenceBoard, ReportBuilder, MemoryBoard,
        WebLists_proofs

(* The effect of the page selects a request or nothing, and what it selects  *)
(* anew has no note and no feedback.                                         *)
LEMMA Reselected ==
    ASSUME BoardTypeOK, NEW rows, rows \subseteq Requests, ReselectRequest(rows)
    PROVE  /\ selectedRequest' \in Requests \cup {NoRequest}
           /\ \/ UNCHANGED panelVars
              \/ decisionNote' = NoRequest /\ decisionFeedback' = NoFeedback
<1>1. rows \subseteq Nat
    BY BoardAssumption
<1>2. FirstOf(rows) \in Requests \cup {NoRequest}
    BY <1>1, FirstOfIsListed DEF NoRequest
<1> QED
    BY <1>2 DEF ReselectRequest, SelectRequest, BoardTypeOK, panelVars

(* The rows that a filter lets through are requests.                         *)
LEMMA FilteredAreRequests ==
    ASSUME NEW f, NEW through, through \subseteq Requests, NEW shown
    PROVE  FilteredRequests(f, through, shown) \subseteq Requests
    BY DEF FilteredRequests

-----------------------------------------------------------------------------

(* A note belongs to the panel that is open, and a decision in flight names  *)
(* a request and a verdict, and carries the note of that request.            *)
NoteIsOfPanel == decisionNote \in {NoRequest, selectedRequest}
DecisionIsWhole ==
    decision.phase # "none" =>
        decision.req \in Requests /\ decision.verdict \in Verdicts /\ decision.note = decision.req

(* What the database holds of a decision that was accepted or announced: no  *)
(* verdict is ever taken back.                                               *)
VerdictsAreHeld ==
    /\ decision.phase = "resolved" => queue[decision.req] = decision.verdict
    /\ decisionFeedback.tone = "success" =>
           /\ decisionFeedback.req \in Requests /\ decisionFeedback.verdict \in Verdicts
           /\ queue[decisionFeedback.req] = decisionFeedback.verdict

BoardInv == BoardTypeOK /\ NoteIsOfPanel /\ DecisionIsWhole /\ VerdictsAreHeld

Feedbacks == [tone : {"none", "error", "success"},
              req : Requests \cup {NoRequest}, verdict : Verdicts \cup {"none"}]
Decisions == [phase : {"none", "sent", "resolved", "refused"},
              req : Requests \cup {NoRequest}, verdict : Verdicts \cup {"none"},
              note : Requests \cup {NoRequest}]

LEMMA NothingIsTyped == NoFeedback \in Feedbacks /\ NoDecision \in Decisions
    BY DEF NoFeedback, NoDecision, Feedbacks, Decisions

(* Steps that leave the decision and the database alone, and the feedback    *)
(* too unless they drop it with the note.                                    *)
LEMMA PanelStep ==
    ASSUME BoardInv, UNCHANGED <<queue, decision>>,
           \/ UNCHANGED panelVars
           \/ decisionNote' = NoRequest /\ decisionFeedback' = NoFeedback
    PROVE  (NoteIsOfPanel /\ DecisionIsWhole /\ VerdictsAreHeld)'
<1>1. CASE UNCHANGED panelVars
    BY <1>1 DEF BoardInv, panelVars, NoteIsOfPanel, DecisionIsWhole, VerdictsAreHeld
<1>2. CASE decisionNote' = NoRequest /\ decisionFeedback' = NoFeedback
    BY <1>2 DEF BoardInv, NoteIsOfPanel, DecisionIsWhole, VerdictsAreHeld, NoFeedback
<1> QED
    BY <1>1, <1>2

(* Requests are asked for once and decided once, so a step of the database   *)
(* takes back no verdict.                                                    *)
LEMMA QueueStep ==
    ASSUME BoardInv, UNCHANGED <<panelVars, decision>>,
           \A q \in Requests : queue[q] \in Verdicts => queue'[q] = queue[q]
    PROVE  (NoteIsOfPanel /\ DecisionIsWhole /\ VerdictsAreHeld)'
    BY DEF BoardInv, BoardTypeOK, panelVars, NoteIsOfPanel, DecisionIsWhole, VerdictsAreHeld, Verdicts

LEMMA BoardInvStep == BoardInv /\ [BoardNext]_boardVars => BoardInv'
<1> SUFFICES ASSUME BoardInv, [BoardNext]_boardVars PROVE BoardInv'
    OBVIOUS
<1>0. /\ BoardTypeOK /\ narrowed \subseteq Requests
      /\ NoFeedback \in Feedbacks /\ NoDecision \in Decisions
    BY NothingIsTyped DEF BoardInv, BoardTypeOK
<1> USE DEF panelVars, filterVars, RequestStatus, Verdicts, Feedbacks, Decisions
<1>1. ASSUME NEW r \in Requests, AgentRequests(r) PROVE BoardInv'
    <2>1. BoardTypeOK'
        BY <1>0, <1>1 DEF AgentRequests, BoardTypeOK
    <2>2. \A q \in Requests : queue[q] \in Verdicts => queue'[q] = queue[q]
        BY <1>0, <1>1 DEF AgentRequests, BoardTypeOK
    <2> QED
        BY <1>1, <2>1, <2>2, QueueStep DEF AgentRequests, BoardInv
<1>2. ASSUME NEW r \in Requests, HandleSelectRequest(r) PROVE BoardInv'
    <2>1. BoardTypeOK'
        BY <1>0, <1>2 DEF HandleSelectRequest, SelectRequest, BoardTypeOK
    <2> QED
        BY <1>2, <2>1, PanelStep DEF HandleSelectRequest, SelectRequest, BoardInv
<1>3. ASSUME NEW r \in Requests, NEW v \in Verdicts, OtherDecides(r, v) PROVE BoardInv'
    <2>1. BoardTypeOK'
        BY <1>0, <1>3 DEF OtherDecides, BoardTypeOK
    <2>2. \A q \in Requests : queue[q] \in Verdicts => queue'[q] = queue[q]
        BY <1>0, <1>3 DEF OtherDecides, BoardTypeOK
    <2> QED
        BY <1>3, <2>1, <2>2, QueueStep DEF OtherDecides, BoardInv
<1>4. CASE FetchApprovals
    <2>1. FilteredRequests(statusFilter, narrowed, shownQueue') \subseteq Requests
        BY <1>0, FilteredAreRequests
    <2>2. ListApprovals(statusFilter) \in [Requests -> RequestStatus]
        BY <1>0 DEF ListApprovals, BoardTypeOK
    <2>3. shownQueue' \in [StatusFilters -> [Requests -> RequestStatus]]
        BY <1>0, <1>4, <2>2 DEF FetchApprovals, BoardTypeOK
    <2>4. BoardTypeOK'
        BY <1>0, <1>4, <2>1, <2>3, Reselected DEF FetchApprovals, BoardTypeOK
    <2> QED
        BY <1>0, <1>4, <2>1, <2>4, Reselected, PanelStep DEF FetchApprovals, BoardInv
<1>5. ASSUME NEW f \in StatusFilters, HandleStatusChange(f) PROVE BoardInv'
    <2>1. FilteredRequests(f, narrowed, shownQueue) \subseteq Requests
        BY <1>0, FilteredAreRequests
    <2>2. BoardTypeOK'
        BY <1>0, <1>5, <2>1, Reselected DEF HandleStatusChange, BoardTypeOK
    <2> QED
        BY <1>0, <1>5, <2>1, <2>2, Reselected, PanelStep DEF HandleStatusChange, BoardInv
<1>6. ASSUME NEW t \in Narrowings, NEW s \in BOOLEAN, HandleNarrowing(t, s) PROVE BoardInv'
    <2>1. t \subseteq Requests
        BY BoardAssumption
    <2>2. FilteredRequests(statusFilter, t, shownQueue) \subseteq Requests
        BY <2>1, FilteredAreRequests
    <2>3. BoardTypeOK'
        BY <1>0, <1>6, <2>1, <2>2, Reselected DEF HandleNarrowing, BoardTypeOK
    <2> QED
        BY <1>0, <1>6, <2>2, <2>3, Reselected, PanelStep DEF HandleNarrowing, BoardInv
<1>7. ASSUME NEW p \in 1 .. Cardinality(Requests), HandlePageChange(p) PROVE BoardInv'
    <2>1. p \in Nat
        BY FS_CardinalityType, BoardAssumption
    <2>2. BoardTypeOK'
        BY <1>0, <1>7, <2>1 DEF HandlePageChange, BoardTypeOK
    <2> QED
        BY <1>7, <2>2, PanelStep DEF HandlePageChange, BoardInv
<1>8. CASE HandleNoteChange
    BY <1>0, <1>8 DEF HandleNoteChange, BoardInv, BoardTypeOK, NoteIsOfPanel, DecisionIsWhole,
                      VerdictsAreHeld
<1>9. ASSUME NEW v \in Verdicts, HandleApplyDecision(v) PROVE BoardInv'
    <2>1. CASE decisionNote = NoRequest
        BY <1>0, <1>9, <2>1 DEF HandleApplyDecision, DecisionEnabled, BoardInv, BoardTypeOK,
                                NoteIsOfPanel, DecisionIsWhole, VerdictsAreHeld
    <2>2. CASE decisionNote # NoRequest
        <3>1. decisionNote = selectedRequest /\ selectedRequest \in Requests
            BY <1>0, <1>9, <2>2 DEF HandleApplyDecision, DecisionEnabled, BoardInv, BoardTypeOK,
                                    NoteIsOfPanel
        <3> QED
            BY <1>0, <1>9, <2>2, <3>1 DEF HandleApplyDecision, BoardInv, BoardTypeOK,
                                          NoteIsOfPanel, DecisionIsWhole, VerdictsAreHeld
    <2> QED
        BY <2>1, <2>2
<1>10. CASE ResolveApproval
    <2>1. decision.req \in Requests /\ decision.verdict \in Verdicts
        BY <1>10 DEF ResolveApproval, BoardInv, DecisionIsWhole
    <2>2. CASE queue[decision.req] = "pending"
        BY <1>0, <1>10, <2>1, <2>2 DEF ResolveApproval, BoardInv, BoardTypeOK,
                                       NoteIsOfPanel, DecisionIsWhole, VerdictsAreHeld
    <2>3. CASE queue[decision.req] # "pending"
        BY <1>0, <1>10, <2>1, <2>3 DEF ResolveApproval, BoardInv, BoardTypeOK,
                                       NoteIsOfPanel, DecisionIsWhole, VerdictsAreHeld
    <2> QED
        BY <2>2, <2>3
<1>11. CASE DecisionSucceeds
    <2>1. decision.req \in Requests /\ decision.verdict \in Verdicts
        BY <1>11 DEF DecisionSucceeds, BoardInv, DecisionIsWhole
    <2>2. NoDecision.phase = "none"
        BY DEF NoDecision
    <2> QED
        BY <1>0, <1>11, <2>1, <2>2 DEF DecisionSucceeds, BoardInv, BoardTypeOK,
                                       NoteIsOfPanel, DecisionIsWhole, VerdictsAreHeld
<1>12. CASE DecisionFails
    <2>1. NoDecision.phase = "none"
        BY DEF NoDecision
    <2> QED
        BY <1>0, <1>12, <2>1 DEF DecisionFails, BoardInv, BoardTypeOK,
                                 NoteIsOfPanel, DecisionIsWhole, VerdictsAreHeld
<1>13. CASE UNCHANGED boardVars
    <2>1. BoardTypeOK'
        BY <1>0, <1>13 DEF boardVars, BoardTypeOK
    <2> QED
        BY <1>13, <2>1, PanelStep DEF boardVars, BoardInv
<1> QED
    BY <1>1, <1>2, <1>3, <1>4, <1>5, <1>6, <1>7, <1>8, <1>9, <1>10, <1>11, <1>12, <1>13
    DEF BoardNext

LEMMA BoardInvInit == BoardInit => BoardInv
<1> SUFFICES ASSUME BoardInit PROVE BoardInv
    OBVIOUS
<1>1. BoardTypeOK
    BY NothingIsTyped, BoardAssumption
    DEF BoardInit, BoardTypeOK, RequestStatus, Verdicts, Feedbacks, Decisions
<1>2. NoteIsOfPanel /\ DecisionIsWhole /\ VerdictsAreHeld
    BY DEF BoardInit, NoteIsOfPanel, DecisionIsWhole, VerdictsAreHeld, NoFeedback, NoDecision
<1> QED
    BY <1>1, <1>2 DEF BoardInv

-----------------------------------------------------------------------------

(* Every reachable state of the page is well typed.                          *)
THEOREM BoardTypeCorrect == BoardSpec => []BoardTypeOK
    BY BoardInvInit, BoardInvStep, PTL DEF BoardSpec, BoardInv

(* A decision carries the note that was typed for the request it decides.    *)
THEOREM DecisionsCarryTheirNote == BoardSpec => []DecisionsAreInformed
<1>1. BoardInv => DecisionsAreInformed
    <2> SUFFICES ASSUME BoardInv PROVE DecisionsAreInformed
        OBVIOUS
    <2>1. NoRequest \notin Requests
        BY BoardAssumption DEF NoRequest, Nothing
    <2> QED
        BY <2>1 DEF BoardInv, DecisionIsWhole, DecisionsAreInformed
<1> QED
    BY <1>1, BoardInvInit, BoardInvStep, PTL DEF BoardSpec

(* The page announces only decisions that the database holds.                *)
THEOREM AnnouncedIsHeld == BoardSpec => []FeedbackIsTrue
<1>1. BoardInv => FeedbackIsTrue
    BY DEF BoardInv, VerdictsAreHeld, FeedbackIsTrue
<1> QED
    BY <1>1, BoardInvInit, BoardInvStep, PTL DEF BoardSpec

-----------------------------------------------------------------------------

(* The approval panel of the home page.                                      *)

(* Every reachable state of the panel is well typed.                         *)
THEOREM PanelTypeCorrect == PanelSpec => []PanelTypeOK
<1>1. PanelInit => PanelTypeOK
    <2>1. NoListFetch \in [state : {"idle", "asked", "read"}, rows : SUBSET HomeRequests]
        BY DEF NoListFetch
    <2> QED
        BY <2>1 DEF PanelInit, PanelTypeOK
<1>2. PanelTypeOK /\ [PanelNext]_homePanelVars => PanelTypeOK'
    <2> SUFFICES ASSUME PanelTypeOK, [PanelNext]_homePanelVars PROVE PanelTypeOK'
        OBVIOUS
    <2> USE DEF PanelTypeOK, NoListFetch, NoVerdict
    <2>1. ASSUME NEW r \in HomeRequests, AgentAsks(r) \/ OthersDecide(r) PROVE PanelTypeOK'
        BY <2>1 DEF AgentAsks, OthersDecide
    <2>2. CASE PollPending
        BY <2>2 DEF PollPending
    <2>3. CASE PendingRead
        BY <2>3 DEF PendingRead, PendingRequests
    <2>4. CASE PendingArrives
        BY <2>4 DEF PendingArrives
    <2>5. CASE PendingFails
        BY <2>5 DEF PendingFails
    <2>6. CASE DecideShown
        <3>1. pendingList \subseteq Nat
            BY HomeApprovalAssumption
        <3>2. ShownRequest \in HomeRequests
            BY <2>6, <3>1, FirstOfIsListed DEF DecideShown, ShownRequest
        <3> QED
            BY <2>6, <3>2 DEF DecideShown
    <2>7. CASE ResolveShown
        BY <2>7 DEF ResolveShown
    <2>8. CASE VerdictSucceeds
        BY <2>8 DEF VerdictSucceeds, WorkspaceRefetched
    <2>9. CASE VerdictFails
        BY <2>9 DEF VerdictFails
    <2>10. CASE UNCHANGED homePanelVars
        BY <2>10 DEF homePanelVars
    <2> QED
        BY <2>1, <2>2, <2>3, <2>4, <2>5, <2>6, <2>7, <2>8, <2>9, <2>10 DEF PanelNext
<1> QED
    BY <1>1, <1>2, PTL DEF PanelSpec

-----------------------------------------------------------------------------

(* What was decided stays decided, and what this page decided has been.      *)
DecidedIsResolved ==
    /\ \A r \in mine : asked[r] = "resolved"
    /\ verdict.state = "done" => asked[verdict.on] = "resolved"

PanelInv == PanelTypeOK /\ DecidedIsResolved /\ DecidedLeavesPanel

(* The database never reopens a request, so a fetch that starts after a      *)
(* decision cannot bring it back; one that started before was cancelled.     *)
LEMMA PanelInvStep == PanelInv /\ PanelTypeOK' /\ [PanelNext]_homePanelVars => PanelInv'
<1> SUFFICES ASSUME PanelInv, PanelTypeOK', [PanelNext]_homePanelVars
             PROVE  DecidedIsResolved' /\ DecidedLeavesPanel'
    BY DEF PanelInv
<1> USE DEF PanelInv, PanelTypeOK, DecidedIsResolved, DecidedLeavesPanel, NoListFetch, NoVerdict
<1>1. ASSUME NEW r \in HomeRequests, AgentAsks(r) \/ OthersDecide(r)
      PROVE  DecidedIsResolved' /\ DecidedLeavesPanel'
    BY <1>1 DEF AgentAsks, OthersDecide
<1>2. CASE PollPending
    BY <1>2 DEF PollPending
<1>3. CASE PendingRead
    BY <1>3 DEF PendingRead, PendingRequests
<1>4. CASE PendingArrives
    BY <1>4 DEF PendingArrives
<1>5. CASE PendingFails
    BY <1>5 DEF PendingFails
<1>6. CASE DecideShown
    BY <1>6 DEF DecideShown
<1>7. CASE ResolveShown
    BY <1>7 DEF ResolveShown
<1>8. CASE VerdictSucceeds
    BY <1>8 DEF VerdictSucceeds, WorkspaceRefetched
<1>9. CASE VerdictFails
    BY <1>9 DEF VerdictFails
<1>10. CASE UNCHANGED homePanelVars
    BY <1>10 DEF homePanelVars
<1> QED
    BY <1>1, <1>2, <1>3, <1>4, <1>5, <1>6, <1>7, <1>8, <1>9, <1>10 DEF PanelNext

(* A request whose decision was acknowledged on the home page leaves the     *)
(* panel for good, unless the page tells that a fetch failed.                *)
THEOREM DecidedStaysAway == PanelSpec => []DecidedLeavesPanel
<1>1. PanelInit => DecidedIsResolved /\ DecidedLeavesPanel
    BY DEF PanelInit, DecidedIsResolved, DecidedLeavesPanel, NoListFetch, NoVerdict
<1> QED
    BY <1>1, PanelInvStep, PanelTypeCorrect, PTL DEF PanelSpec, PanelInv

-----------------------------------------------------------------------------

(* A login that was taken in started a check of the user after it, and the   *)
(* session has not ended since.                                              *)
AdmittedIsKnown == admitted = "yes" => signedIn /\ me.fetch # "anonymous"

AuthInv == AuthTypeOK /\ AdmittedIsKnown /\ LoginIsNotStranded

LEMMA AuthInvStep == AuthInv /\ [AuthNext]_authVars => AuthInv'
<1> SUFFICES ASSUME AuthInv, [AuthNext]_authVars PROVE AuthInv'
    OBVIOUS
<1> USE DEF AuthInv, AuthTypeOK, AdmittedIsKnown, LoginIsNotStranded, Answers, FirstFetch,
            Lead, Led, MountMe, MeLoading, Authenticated
<1>1. CASE SessionEnds
    BY <1>1 DEF SessionEnds
<1>2. CASE FollowLink
    BY <1>2 DEF FollowLink
<1>3. CASE AnswerAges
    BY <1>3 DEF AnswerAges
<1>4. ASSUME NEW r \in {"root", "login", "app"}, LoadRoute(r) PROVE AuthInv'
    BY <1>4 DEF LoadRoute
<1>5. CASE GetCurrentUser
    BY <1>5 DEF GetCurrentUser
<1>6. CASE CurrentUserArrives
    BY <1>6 DEF CurrentUserArrives
<1>7. CASE CurrentUserFails
    BY <1>7 DEF CurrentUserFails
<1>8. CASE HandleLoginSubmit \/ LoginCommits \/ LoginFails
    BY <1>8 DEF HandleLoginSubmit, LoginCommits, LoginFails
<1>9. CASE LoginSucceeds
    BY <1>9 DEF LoginSucceeds, InvalidatedMe
<1>10. CASE UNCHANGED authVars
    BY <1>10 DEF authVars
<1> QED
    BY <1>1, <1>2, <1>3, <1>4, <1>5, <1>6, <1>7, <1>8, <1>9, <1>10 DEF AuthNext

(* Who has logged in ends up in the application, unless the check of the     *)
(* user fails or the first one overlapped the login.                         *)
THEOREM LoginEndsInside == AuthSpec => []LoginIsNotStranded
<1>1. AuthInit => AuthInv
    BY DEF AuthInit, AuthInv, AuthTypeOK, AdmittedIsKnown, LoginIsNotStranded, Answers, FirstFetch
<1> QED
    BY <1>1, AuthInvStep, PTL DEF AuthSpec, AuthInv

-----------------------------------------------------------------------------

Labels == {"Confirmed", "False positive", "Accepted risk", "Fixed", "Archived", "Needs review",
           "Ready for review"}
MaybeFinding == Findings \cup {Nothing}

(* The shape of what the inspector holds and of what it has sent.            *)
InspectorShape ==
    /\ inspectorForm \in [of : MaybeFinding, status : Labels]
    /\ findingSave \in [phase : {"none", "updating", "reviewing", "saved"},
           finding : MaybeFinding, typedFor : MaybeFinding, status : FindingStatuses]
    /\ supports \in [Evidence -> MaybeFinding]

EvidenceInv == InspectorShape /\ SavesGoWhereTyped

(* The form of a finding says which one it is of.                            *)
LEMMA FormIsOfItsFinding ==
    ASSUME NEW f \in MaybeFinding, NEW shown
    PROVE  FormOf(f, shown) \in [of : MaybeFinding, status : Labels] /\ FormOf(f, shown).of = f
<1>1. \A s : FindingStatus(s) \in Labels
    BY DEF FindingStatus, Labels
<1> QED
    BY <1>1 DEF FormOf, NoForm, Labels

LEMMA SelectedIsFinding ==
    ASSUME NEW e, NEW shown
    PROVE  SelectedFinding(e, shown) \in MaybeFinding
<1>1. ShownFindings(shown) \subseteq Findings /\ Findings \subseteq Nat
    BY EvidenceAssumption DEF ShownFindings
<1>2. FirstOf(ShownFindings(shown)) \in Findings \cup {Nothing}
    BY <1>1, FirstOfIsListed
<1> QED
    BY <1>1, <1>2 DEF SelectedFinding, MaybeFinding

(* The two effects of the page leave the fields with the finding they show.  *)
LEMMA ResetFormFits ==
    ASSUME NEW e, NEW shown, ResetForm(e, shown)
    PROVE  /\ inspectorForm' \in [of : MaybeFinding, status : Labels]
           /\ inspectorForm'.of = SelectedFinding(e, shown)
    BY SelectedIsFinding, FormIsOfItsFinding DEF ResetForm

LEMMA ShowEvidenceFits ==
    ASSUME EvidenceInv, NEW e, ShowEvidence(e)
    PROVE  /\ inspectorForm' \in [of : MaybeFinding, status : Labels]
           /\ inspectorForm'.of = SelectedFinding(e, shownFindings) /\ selectedEvidence' = e
    BY ResetFormFits DEF ShowEvidence, EvidenceInv, InspectorShape

LEMMA EvidenceInvStep == EvidenceInv /\ [EvidenceNext]_evidenceVars => EvidenceInv'
<1> SUFFICES ASSUME EvidenceInv, [EvidenceNext]_evidenceVars PROVE EvidenceInv'
    OBVIOUS
<1> USE DEF EvidenceInv, InspectorShape, SavesGoWhereTyped
<1>1. ASSUME NEW f \in Findings, AgentProposes(f) \/ OtherReviews(f) PROVE EvidenceInv'
    <2>1. UNCHANGED <<supports, shownFindings, selectedEvidence, inspectorForm, findingSave>>
        BY <1>1 DEF AgentProposes, OtherReviews
    <2>2. SelectedFinding(selectedEvidence, shownFindings)
              = SelectedFinding(selectedEvidence, shownFindings)'
        BY <2>1 DEF SelectedFinding, ShownFindings
    <2> QED
        BY <2>1, <2>2
<1>2. CASE FetchFindings
    <2>1. /\ inspectorForm' \in [of : MaybeFinding, status : Labels]
          /\ inspectorForm'.of = SelectedFinding(selectedEvidence', finding)
        BY <1>2, ResetFormFits DEF FetchFindings
    <2>2. SelectedFinding(selectedEvidence', finding)
              = SelectedFinding(selectedEvidence, shownFindings)'
        BY <1>2 DEF FetchFindings, SelectedFinding, ShownFindings
    <2> QED
        BY <1>2, <2>1, <2>2 DEF FetchFindings
<1>3. ASSUME NEW e, ShowEvidence(e), UNCHANGED <<supports, shownFindings, findingSave>>
      PROVE  EvidenceInv'
    <2>1. SelectedFinding(e, shownFindings) = SelectedFinding(selectedEvidence, shownFindings)'
        BY <1>3, ShowEvidenceFits DEF SelectedFinding, ShownFindings
    <2> QED
        BY <1>3, <2>1, ShowEvidenceFits
<1>4. ASSUME NEW e \in Evidence, SelectEvidence(e) PROVE EvidenceInv'
    BY <1>3, <1>4 DEF SelectEvidence
<1>5. ASSUME NEW filter, HandleEvidenceFilter(filter) PROVE EvidenceInv'
    BY <1>3, <1>5 DEF HandleEvidenceFilter
<1>6. ASSUME ResetForm(selectedEvidence, shownFindings),
             UNCHANGED <<supports, shownFindings, selectedEvidence>>,
             findingSave' \in [phase : {"none", "updating", "reviewing", "saved"},
                 finding : MaybeFinding, typedFor : MaybeFinding, status : FindingStatuses],
             findingSave'.typedFor = findingSave'.finding
      PROVE  EvidenceInv'
    <2>1. SelectedFinding(selectedEvidence, shownFindings)
              = SelectedFinding(selectedEvidence, shownFindings)'
        BY <1>6 DEF SelectedFinding, ShownFindings
    <2> QED
        BY <1>6, <2>1, ResetFormFits
<1>7. CASE ReopenInspector
    BY <1>6, <1>7 DEF ReopenInspector
<1>8. ASSUME NEW s \in StatusesInPlay, EditStatus(FindingStatus(s)) PROVE EvidenceInv'
    <2>1. FindingStatus(s) \in Labels
        BY DEF FindingStatus, Labels
    <2>2. SelectedFinding(selectedEvidence, shownFindings)
              = SelectedFinding(selectedEvidence, shownFindings)'
        BY <1>8 DEF EditStatus, SelectedFinding, ShownFindings
    <2> QED
        BY <1>8, <2>1, <2>2 DEF EditStatus
<1>9. CASE SaveFinding
    <2>1. BackendFindingStatus(inspectorForm.status) \in FindingStatuses
        BY DEF BackendFindingStatus, FindingStatuses
    <2> QED
        BY <1>6, <1>9, <2>1, SelectedIsFinding DEF SaveFinding
<1>10. CASE UpdateFinding \/ ReviewFinding
    <2>1. SelectedFinding(selectedEvidence, shownFindings)
              = SelectedFinding(selectedEvidence, shownFindings)'
        BY <1>10 DEF UpdateFinding, ReviewFinding, SelectedFinding, ShownFindings
    <2> QED
        BY <1>10, <2>1 DEF UpdateFinding, ReviewFinding
<1>11. CASE SaveEnds
    <2>1. NoSave \in [phase : {"none", "updating", "reviewing", "saved"},
              finding : MaybeFinding, typedFor : MaybeFinding, status : FindingStatuses]
          /\ NoSave.typedFor = NoSave.finding
        BY DEF NoSave, MaybeFinding, FindingStatuses
    <2> QED
        BY <1>6, <1>11, <2>1 DEF SaveEnds
<1>12. CASE UNCHANGED evidenceVars
    BY <1>12 DEF evidenceVars, SelectedFinding, ShownFindings
<1> QED
    BY <1>1, <1>2, <1>4, <1>5, <1>7, <1>8, <1>9, <1>10, <1>11, <1>12 DEF EvidenceNext

LEMMA InspectorStarts == EvidenceInit => EvidenceInv
<1> SUFFICES ASSUME EvidenceInit PROVE EvidenceInv
    OBVIOUS
<1>1. ShownFindings(shownFindings) = {}
    BY DEF EvidenceInit, ShownFindings
<1>2. SelectedFinding(selectedEvidence, shownFindings) = Nothing
    BY <1>1, FirstOfIsListed DEF SelectedFinding
<1> QED
    BY <1>2, EvidenceAssumption
    DEF EvidenceInit, EvidenceInv, InspectorShape, SavesGoWhereTyped, NoForm, NoSave, MaybeFinding,
        Labels, FindingStatuses

(* What is typed for one finding is never saved to another one.              *)
THEOREM SavesArrive == EvidenceSpec => []SavesGoWhereTyped
    BY InspectorStarts, EvidenceInvStep, PTL DEF EvidenceSpec, EvidenceInv

-----------------------------------------------------------------------------

(* The action of the header is about a report, unless it creates one.        *)
HeaderIsWhole ==
    reportAction.phase = "sent" /\ reportAction.kind # "create" => reportAction.report \in Reports

TitleIsOfReport == titleDraft.of = chosenReport

(* What has been rendered stays rendered, as shown and as asked to be final. *)
Settled == {"rendered", "final"}
RenderedStays ==
    /\ \A r \in Reports : shownReports[r].status \in Settled => report[r].status \in Settled
    /\ reportAction.phase = "sent" /\ reportAction.kind = "finalize" =>
           report[reportAction.report].status \in Settled

ReportInv == /\ ReportTypeOK /\ HeaderIsWhole /\ TitleIsOfReport /\ TitlesGoHome
             /\ RenderedStays /\ FinalizeIsAccepted

HeaderActions == [phase : {"none", "sent", "done", "refused"},
                  kind : {"none", "create", "render", "finalize", "export"},
                  report : Reports \cup {Nothing}, title : Titles]

LEMMA NoReportIsTyped ==
    /\ DefaultTitle \in Titles /\ NoReport \in ReportRow
    /\ [NoReport EXCEPT !.status = "draft"] \in ReportRow
    /\ {NoReportAction, ActionDone} \subseteq HeaderActions
    /\ NoTitleSave \in [report : Reports \cup {Nothing}, draft : Reports \cup {Nothing}, title : Titles]
    /\ NoReportAction.phase = "none" /\ ActionDone.phase = "done"
    /\ NoTitleSave.report = NoTitleSave.draft
<1>1. DefaultTitle \in Titles
    BY ReportAssumption DEF DefaultTitle
<1>2. NoReport \in ReportRow /\ [NoReport EXCEPT !.status = "draft"] \in ReportRow
    BY <1>1 DEF NoReport, ReportRow
<1>3. {NoReportAction, ActionDone} \subseteq HeaderActions
    BY <1>1 DEF NoReportAction, ActionDone, HeaderActions
<1>4. NoReportAction.phase = "none" /\ ActionDone.phase = "done"
    BY DEF NoReportAction, ActionDone
<1> QED
    BY <1>1, <1>2, <1>3, <1>4 DEF NoTitleSave

(* The effects of a render: the page is at a report, and the title is of it. *)
LEMMA SettleFits ==
    ASSUME ReportTypeOK, TitleIsOfReport, NEW s, NEW chosen,
           NEW shown \in [Reports -> ReportRow], Settle(s, chosen, shown)
    PROVE  /\ chosenReport' \in Reports \cup {Nothing}
           /\ titleDraft' \in [of : Reports \cup {Nothing}, title : Titles]
           /\ titleDraft'.of = chosenReport'
<1> DEFINE r == ResolveReport(s, chosen, shown)
<1>1. ListedReports(s, shown) \subseteq Reports /\ Reports \subseteq Nat
    BY ReportAssumption DEF ListedReports
<1>2. r \in Reports \cup {Nothing}
    BY <1>1, StillOrFirstIsListed DEF ResolveReport
<1>3. TitleOf(r, shown) \in Titles
    BY <1>2, NoReportIsTyped DEF TitleOf, ReportRow
<1> HIDE DEF r
<1> QED
    BY <1>2, <1>3 DEF Settle, r, LoadTitle, ReportTypeOK, TitleIsOfReport

LEMMA FetchedAreReports ==
    ASSUME ReportTypeOK, RenderedStays
    PROVE  /\ FetchedReports \in [Reports -> ReportRow]
           /\ \A r \in Reports : FetchedReports[r].status \in Settled => report[r].status \in Settled
    BY DEF ReportTypeOK, RenderedStays, FetchedReports

(* The page moves to another report, with what it has or has just fetched.   *)
LEMMA SettleStep ==
    ASSUME ReportInv, NEW s, NEW chosen, Settle(s, chosen, shownReports'),
           \/ UNCHANGED shownReports
           \/ shownReports' = FetchedReports,
           chosenSession' \in ReportSessions \cup {Nothing}, UNCHANGED <<report, renderJobs, titleSave>>,
           reportAction' \in {reportAction, NoReportAction}
    PROVE  ReportInv'
<1>1. /\ shownReports' \in [Reports -> ReportRow]
      /\ \A r \in Reports : shownReports'[r].status \in Settled => report[r].status \in Settled
    BY FetchedAreReports DEF ReportInv, ReportTypeOK, RenderedStays
<1>2. /\ chosenReport' \in Reports \cup {Nothing}
      /\ titleDraft' \in [of : Reports \cup {Nothing}, title : Titles]
      /\ titleDraft'.of = chosenReport'
    BY <1>1, SettleFits DEF ReportInv
<1>3. ReportTypeOK'
    BY <1>1, <1>2, NoReportIsTyped DEF ReportInv, ReportTypeOK, HeaderActions
<1>4. (HeaderIsWhole /\ TitleIsOfReport /\ TitlesGoHome /\ FinalizeIsAccepted)'
    BY <1>2, NoReportIsTyped DEF ReportInv, HeaderIsWhole, TitleIsOfReport, TitlesGoHome, FinalizeIsAccepted
<1>5. RenderedStays'
    BY <1>1, NoReportIsTyped DEF ReportInv, RenderedStays
<1> QED
    BY <1>3, <1>4, <1>5 DEF ReportInv

(* The database is written, and the header may be answered.                  *)
LEMMA ReportWriteStep ==
    ASSUME ReportInv, report' \in [Reports -> ReportRow], renderJobs' \subseteq Reports,
           \A r \in Reports : report[r].status \in Settled => report'[r].status \in Settled,
           reportAction' \in {reportAction, ActionDone}, titleSave' \in {titleSave, NoTitleSave},
           UNCHANGED <<shownReports, reportChoice>>
    PROVE  ReportInv'
<1>1. ReportTypeOK'
    BY NoReportIsTyped DEF ReportInv, ReportTypeOK, reportChoice, HeaderActions
<1>2. (HeaderIsWhole /\ TitleIsOfReport /\ TitlesGoHome /\ FinalizeIsAccepted)'
    BY NoReportIsTyped DEF ReportInv, reportChoice, HeaderIsWhole, TitleIsOfReport, TitlesGoHome,
                           FinalizeIsAccepted
<1>3. RenderedStays'
    BY NoReportIsTyped DEF ReportInv, RenderedStays, HeaderIsWhole
<1> QED
    BY <1>1, <1>2, <1>3 DEF ReportInv

LEMMA ReportInvStep == ReportInv /\ [ReportNext]_reportVars => ReportInv'
<1> SUFFICES ASSUME ReportInv, [ReportNext]_reportVars PROVE ReportInv'
    OBVIOUS
<1>0. /\ ReportTypeOK /\ report \in [Reports -> ReportRow] /\ renderJobs \subseteq Reports
      /\ titleSave.title \in Titles /\ reportAction.title \in Titles /\ titleDraft.title \in Titles
    BY DEF ReportInv, ReportTypeOK
<1>1. ASSUME NEW q \in Reports, NEW t \in Titles, OtherWritesReport(q, t) PROVE ReportInv'
    <2>1. report' \in [Reports -> ReportRow]
        BY <1>0, <1>1 DEF OtherWritesReport, ReportRow
    <2>2. \A r \in Reports : report[r].status \in Settled => report'[r].status \in Settled
        BY <1>0, <1>1 DEF OtherWritesReport, ReportRow, NoReport, Settled
    <2> QED
        BY <1>0, <1>1, <2>1, <2>2, ReportWriteStep DEF OtherWritesReport
<1>2. ASSUME NEW q \in Reports, RenderJob(q) PROVE ReportInv'
    <2>1. report' \in [Reports -> ReportRow] /\ renderJobs' \subseteq Reports
        BY <1>0, <1>2 DEF RenderJob, ReportRow
    <2>2. \A r \in Reports : report[r].status \in Settled => report'[r].status \in Settled
        BY <1>0, <1>2 DEF RenderJob, ReportRow, Settled
    <2> QED
        BY <1>2, <2>1, <2>2, ReportWriteStep DEF RenderJob
<1>3. CASE FetchReports
    BY <1>0, <1>3, SettleStep DEF FetchReports, reportServer, ReportTypeOK
<1>4. ASSUME NEW q \in ReportSessions, HandleSessionChange(q) PROVE ReportInv'
    BY <1>4, SettleStep DEF HandleSessionChange, reportServer
<1>5. ASSUME NEW q \in Reports, SelectReport(q) PROVE ReportInv'
    BY <1>0, <1>5, SettleStep DEF SelectReport, reportServer, ReportTypeOK
<1>6. ASSUME NEW t \in Titles, TypeTitle(t) PROVE ReportInv'
    <2>1. /\ titleDraft' \in [of : Reports \cup {Nothing}, title : Titles]
          /\ titleDraft'.of = titleDraft.of
        BY <1>0, <1>6 DEF TypeTitle, ReportTypeOK
    <2> QED
        BY <1>6, <2>1 DEF TypeTitle, reportServer, ReportInv, ReportTypeOK, HeaderIsWhole,
                          TitleIsOfReport, TitlesGoHome, RenderedStays, FinalizeIsAccepted
<1>7. CASE UpdateTitle
    BY <1>0, <1>7 DEF UpdateTitle, reportServer, reportChoice, ReportInv, ReportTypeOK, HeaderIsWhole,
                      TitleIsOfReport, TitlesGoHome, RenderedStays, FinalizeIsAccepted
<1>8. CASE SaveTitle
    <2>1. report' \in [Reports -> ReportRow]
        BY <1>0, <1>8 DEF SaveTitle, ReportRow
    <2>2. \A r \in Reports : report[r].status \in Settled => report'[r].status \in Settled
        BY <1>0, <1>8 DEF SaveTitle, ReportRow
    <2> QED
        BY <1>0, <1>8, <2>1, <2>2, ReportWriteStep DEF SaveTitle
<1>9. CASE TitleSaveFails
    BY <1>0, <1>9, ReportWriteStep DEF TitleSaveFails, reportServer
<1>10. ASSUME NEW kind \in {"create", "render", "finalize", "export"}, ClickHeader(kind)
       PROVE  ReportInv'
    <2>1. kind # "create" => chosenReport \in Reports
        BY <1>0, <1>10 DEF ClickHeader, CanFinalize, ReportTypeOK
    <2>2. kind = "finalize" => report[chosenReport].status \in Settled
        BY <1>10, <2>1 DEF ClickHeader, CanFinalize, ReportInv, RenderedStays, Settled
    <2>3. reportAction' \in HeaderActions
        BY <1>0, <1>10, NoReportIsTyped DEF ClickHeader, ReportTypeOK, HeaderActions
    <2>4. /\ reportAction'.phase = "sent" /\ reportAction'.kind = kind
          /\ kind # "create" => reportAction'.report = chosenReport
        BY <1>10 DEF ClickHeader
    <2>5. UNCHANGED <<report, renderJobs, shownReports, chosenSession, chosenReport, titleDraft, titleSave>>
        BY <1>10 DEF ClickHeader, reportServer, reportChoice
    <2>6. ReportTypeOK'
        BY <1>0, <2>3, <2>5 DEF ReportTypeOK, HeaderActions
    <2> QED
        BY <2>1, <2>2, <2>4, <2>5, <2>6 DEF ReportInv, HeaderIsWhole, TitleIsOfReport, TitlesGoHome,
                                            RenderedStays, FinalizeIsAccepted
<1>11. ASSUME NEW q \in Reports, CommitCreate(q) PROVE ReportInv'
    <2>1. report' \in [Reports -> ReportRow]
        BY <1>0, <1>11 DEF CommitCreate, ReportRow
    <2>2. \A r \in Reports : report[r].status \in Settled => report'[r].status \in Settled
        BY <1>0, <1>11 DEF CommitCreate, NoReport, Settled
    <2> QED
        BY <1>0, <1>11, <2>1, <2>2, ReportWriteStep DEF CommitCreate
<1>12. CASE CommitRender
    <2>1. renderJobs' \subseteq Reports
        BY <1>0, <1>12 DEF CommitRender, ReportInv, HeaderIsWhole
    <2> QED
        BY <1>0, <1>12, <2>1, ReportWriteStep DEF CommitRender
<1>13. CASE CommitFinalize
    <2>1. reportAction.report \in Reports /\ report[reportAction.report].status \in Settled
        BY <1>13 DEF CommitFinalize, ReportInv, HeaderIsWhole, RenderedStays
    <2>2. /\ report' = [report EXCEPT ![reportAction.report].status = "final"]
          /\ reportAction' = ActionDone
        BY <1>13, <2>1 DEF CommitFinalize, Finalizable, Settled
    <2>3. report' \in [Reports -> ReportRow]
        BY <1>0, <2>1, <2>2 DEF ReportRow
    <2>4. \A r \in Reports : report[r].status \in Settled => report'[r].status \in Settled
        BY <1>0, <2>1, <2>2 DEF ReportRow, Settled
    <2> QED
        BY <1>0, <1>13, <2>2, <2>3, <2>4, ReportWriteStep DEF CommitFinalize
<1>14. CASE CommitExport
    BY <1>0, <1>14, ReportWriteStep DEF CommitExport, reportServer
<1>15. CASE ReportActionEnds
    <2>1. CASE shownReports' = FetchedReports /\ Settle(chosenSession, chosenReport, FetchedReports)
               /\ UNCHANGED chosenSession
        BY <1>0, <1>15, <2>1, SettleStep DEF ReportActionEnds, reportServer, ReportTypeOK
    <2>2. CASE UNCHANGED <<shownReports, reportChoice>>
        BY <1>0, <1>15, <2>2, NoReportIsTyped
        DEF ReportActionEnds, reportServer, reportChoice, HeaderActions, ReportInv, ReportTypeOK,
            HeaderIsWhole, TitleIsOfReport, TitlesGoHome, RenderedStays, FinalizeIsAccepted
    <2> QED
        BY <1>15, <2>1, <2>2 DEF ReportActionEnds
<1>16. CASE UNCHANGED reportVars
    BY <1>0, <1>16, ReportWriteStep DEF reportVars, reportChoice
<1>17. \A t \in TypedTitles : t \in Titles
    BY ReportAssumption
<1> QED
    BY <1>1, <1>2, <1>3, <1>4, <1>5, <1>6, <1>7, <1>8, <1>9, <1>10, <1>11, <1>12, <1>13, <1>14,
       <1>15, <1>16, <1>17
    DEF ReportNext

LEMMA ReportInvariant == ReportSpec => []ReportInv
<1>1. ReportInit => ReportInv
    <2> SUFFICES ASSUME ReportInit PROVE ReportInv
        OBVIOUS
    <2>1. FirstOf(ReportSessions) \in ReportSessions \cup {Nothing}
        BY ReportAssumption, FirstOfIsListed
    <2>2. ReportTypeOK
        BY <2>1, NoReportIsTyped, ReportAssumption DEF ReportInit, ReportTypeOK, HeaderActions
    <2>3. \A r \in Reports : shownReports[r].status \notin Settled
        BY DEF ReportInit, NoReport, Settled
    <2> QED
        BY <2>2, <2>3, NoReportIsTyped
        DEF ReportInit, ReportInv, HeaderIsWhole, TitleIsOfReport, TitlesGoHome, RenderedStays,
            FinalizeIsAccepted
<1> QED
    BY <1>1, ReportInvStep, PTL DEF ReportSpec

(* A title typed for one report is never saved to another one.               *)
THEOREM TitlesArrive == ReportSpec => []TitlesGoHome
    BY ReportInvariant, PTL DEF ReportInv

(* The API never refuses to finalise a report for which the page offered it. *)
THEOREM FinalizeNeverRefused == ReportSpec => []FinalizeIsAccepted
    BY ReportInvariant, PTL DEF ReportInv

-----------------------------------------------------------------------------

(* A request in flight is one that the API knows.                            *)
ActionIsWhole ==
    memoryAction.phase = "sent" =>
        /\ memoryAction.kind # "none"
        /\ memoryAction.kind = "promote" => memoryAction.wide # "none"

(* Versions only grow, and what the page shows is behind an acknowledged     *)
(* change only while the list that follows it is fetched, or after an error. *)
VersionsGrow ==
    /\ \A m \in Memories : acknowledged[m] <= memory[m].version
    /\ memoryAction.phase \in {"committed", "acknowledged"} =>
           /\ memoryAction.memory \in Memories
           /\ memoryAction.at <= memory[memoryAction.memory].version
    /\ memoryAction.phase # "acknowledged" /\ ~memoryError =>
           \A m \in Memories : shownMemories[m].version >= acknowledged[m]

MemoryInv == MemoryTypeOK /\ ActionIsWhole /\ EditsGoToTheirMemory /\ VersionsGrow

Actions == [phase : {"none", "sent", "refused", "committed", "acknowledged"},
            kind : {"none", "create", "update", "approve", "reject", "promote"},
            memory : Memories \cup {Nothing}, draft : Memories \cup {Nothing},
            at : 0 .. MaxWrites, wide : {"none", "project", "workspace"}]

LEMMA StoredRow ==
    ASSUME NEW status \in {"absent", "candidate", "approved", "rejected"}, NEW flagged \in BOOLEAN,
           NEW embedding \in {"pending", "blocked", "embedded", "failed"},
           NEW visibility \in {"session", "project", "workspace"}
    PROVE  /\ Stored(status, flagged, embedding, visibility) \in MemoryRow
           /\ Stored(status, flagged, embedding, visibility).version = 0
    BY MemoryAssumption DEF Stored, MemoryRow

LEMMA NoMemoryIsTyped ==
    NoMemory \in MemoryRow /\ NoMemory.version = 0 /\ NoMemoryAction \in Actions
<1>1. NoMemory \in MemoryRow /\ NoMemory.version = 0
    BY StoredRow DEF NoMemory
<1>2. NoMemoryAction \in Actions
    BY MemoryAssumption DEF NoMemoryAction, Actions
<1> QED
    BY <1>1, <1>2

(* Rows that are written stay rows, and their version does not shrink.       *)
LEMMA RewrittenRow ==
    ASSUME NEW row \in MemoryRow, row.version < MaxWrites, NEW flagged \in BOOLEAN
    PROVE  Rewritten(row, flagged) \in MemoryRow /\ Rewritten(row, flagged).version = row.version + 1
<1> DEFINE text == IF flagged THEN "blocked" ELSE "pending"
<1>1. row.version \in 0 .. MaxWrites /\ row.version + 1 \in 0 .. MaxWrites
    BY MemoryAssumption DEF MemoryRow
<1>2. text \in {"blocked", "pending"}
    OBVIOUS
<1>3. Rewritten(row, flagged) = [row EXCEPT !.flagged = flagged, !.embedding = text,
                                            !.version = row.version + 1]
    BY DEF Rewritten, MemoryRow
<1> HIDE DEF text
<1> QED
    BY <1>1, <1>2, <1>3 DEF MemoryRow

LEMMA CreatedRow ==
    ASSUME NEW flagged \in BOOLEAN, NEW visibility \in {"session", "project", "workspace"}
    PROVE  Created(flagged, visibility) \in MemoryRow /\ Created(flagged, visibility).version = 0
<1>1. (IF flagged THEN "blocked" ELSE "pending") \in {"pending", "blocked", "embedded", "failed"}
    OBVIOUS
<1> QED
    BY <1>1, StoredRow DEF Created

LEMMA AppliedRow ==
    ASSUME NEW row \in MemoryRow, NEW flagged \in BOOLEAN,
           NEW kind \in {"create", "update", "approve", "reject", "promote"},
           NEW wide \in {"none", "project", "workspace"}, kind = "promote" => wide # "none",
           kind = "create" => row = NoMemory, kind # "create" => row.version < MaxWrites
    PROVE  /\ Applied(row, kind, flagged, wide) \in MemoryRow
           /\ Applied(row, kind, flagged, wide).version >= row.version
<1>0. row.version \in 0 .. MaxWrites /\ row.version \in Nat
    BY MemoryAssumption DEF MemoryRow
<1>1. CASE kind = "create"
    <2>1. Applied(row, kind, flagged, wide) = Created(FALSE, "workspace")
        BY <1>1 DEF Applied
    <2>2. Created(FALSE, "workspace") \in MemoryRow /\ Created(FALSE, "workspace").version = 0
        BY CreatedRow
    <2>3. row.version = 0
        BY <1>1, NoMemoryIsTyped
    <2>4. Applied(row, kind, flagged, wide) \in MemoryRow /\ Applied(row, kind, flagged, wide).version = 0
        BY <2>1, <2>2, Zenon
    <2> QED
        BY <2>3, <2>4
<1>2. CASE kind = "update"
    <2>1. Applied(row, kind, flagged, wide) = Rewritten(row, flagged)
        BY <1>2 DEF Applied
    <2>2. row.version < MaxWrites
        BY <1>2
    <2> QED
        BY <1>0, <2>1, <2>2, RewrittenRow
<1>3. CASE kind \in {"approve", "reject", "promote"}
    <2>0. row.version + 1 \in 0 .. MaxWrites /\ row.version + 1 >= row.version
        BY <1>0, <1>3, MemoryAssumption
    <2>1. CASE kind = "approve"
        <3>1. Applied(row, kind, flagged, wide) =
                  [row EXCEPT !.status = "approved", !.embedding = "pending",
                              !.version = row.version + 1]
            BY <2>1 DEF Applied, MemoryRow
        <3> QED
            BY <2>0, <3>1 DEF MemoryRow
    <2>2. CASE kind = "reject"
        <3>1. Applied(row, kind, flagged, wide) =
                  [row EXCEPT !.status = "rejected", !.version = row.version + 1]
            BY <2>2 DEF Applied, MemoryRow
        <3> QED
            BY <2>0, <3>1 DEF MemoryRow
    <2>3. CASE kind = "promote"
        <3>1. wide \in {"project", "workspace"}
            BY <2>3
        <3>2. Applied(row, kind, flagged, wide) =
                  [row EXCEPT !.visibility = wide, !.version = row.version + 1]
            BY <2>3 DEF Applied, MemoryRow
        <3> QED
            BY <2>0, <3>1, <3>2 DEF MemoryRow
    <2> QED
        BY <1>3, <2>1, <2>2, <2>3
<1> QED
    BY <1>1, <1>2, <1>3

-----------------------------------------------------------------------------

(* Writes behind the page's back: the rows stay typed and grow.              *)
LEMMA ServerStep ==
    ASSUME MemoryInv, memory' \in [Memories -> MemoryRow],
           \A m \in Memories : memory'[m].version >= memory[m].version,
           embedJobs' \subseteq Memories,
           UNCHANGED <<memoryCache, memoryView, selectedMemory, draftOf, memoryAction, acknowledged>>
    PROVE  MemoryInv'
<1>0. \A m \in Memories : /\ memory[m].version \in Nat /\ memory'[m].version \in Nat
                          /\ acknowledged[m] \in Nat
    BY MemoryAssumption DEF MemoryInv, MemoryTypeOK, MemoryRow
<1>1. MemoryTypeOK' /\ ActionIsWhole' /\ EditsGoToTheirMemory'
    BY DEF MemoryInv, MemoryTypeOK, memoryCache, ActionIsWhole, EditsGoToTheirMemory
<1>2. VersionsGrow'
    <2>1. \A m \in Memories : acknowledged[m] <= memory'[m].version
        BY <1>0 DEF MemoryInv, VersionsGrow
    <2>2. memoryAction.phase \in {"committed", "acknowledged"} =>
              memoryAction.at <= memory'[memoryAction.memory].version
        <3> SUFFICES ASSUME memoryAction.phase \in {"committed", "acknowledged"}
                     PROVE  memoryAction.at <= memory'[memoryAction.memory].version
            OBVIOUS
        <3>1. /\ memoryAction.memory \in Memories
              /\ memoryAction.at <= memory[memoryAction.memory].version
            BY DEF MemoryInv, VersionsGrow
        <3>2. memoryAction.at \in Nat
            BY MemoryAssumption DEF MemoryInv, MemoryTypeOK
        <3> QED
            BY <1>0, <3>1, <3>2
    <2> QED
        BY <2>1, <2>2 DEF MemoryInv, VersionsGrow, memoryCache
<1> QED
    BY <1>1, <1>2 DEF MemoryInv

(* Steps of the panel: no request, no row and no answer.                     *)
LEMMA MemoryPanelStep ==
    ASSUME MemoryInv, UNCHANGED <<memoryServer, memoryCache, memoryAction, acknowledged>>,
           memoryView' \in MemoryViews, selectedMemory' \in Memories \cup {Nothing},
           draftOf' \in {Nothing, selectedMemory'}
    PROVE  MemoryInv'
    BY DEF MemoryInv, MemoryTypeOK, memoryServer, memoryCache, ActionIsWhole,
           EditsGoToTheirMemory, VersionsGrow

(* A request is sent, with what the form was for.                            *)
LEMMA RequestStep ==
    ASSUME MemoryInv, NEW kind \in {"create", "update", "approve", "reject", "promote"},
           NEW m \in Memories \cup {Nothing}, NEW wide \in {"none", "project", "workspace"},
           kind = "promote" => wide # "none", kind = "update" => draftOf = m,
           Request(kind, m, wide)
    PROVE  MemoryInv'
<1>1. memoryAction' \in Actions
    BY MemoryAssumption DEF Request, MemoryInv, MemoryTypeOK, Actions
<1>2. memoryAction.phase = "none"
    BY DEF Request, Busy, NoMemoryAction
<1> QED
    BY <1>1, <1>2 DEF Request, DraftReset, MemoryInv, MemoryTypeOK, Actions, memoryServer, memoryCache,
                      ActionIsWhole, EditsGoToTheirMemory, VersionsGrow

LEMMA ReselectedMemory ==
    ASSUME NEW m, NEW shown, Reselect(m, shown)
    PROVE  selectedMemory' \in Memories \cup {Nothing}
<1>1. Listed(shown) \subseteq Memories /\ Memories \subseteq Nat
    BY MemoryAssumption DEF Listed
<1> QED
    BY <1>1, StillOrFirstIsListed DEF Reselect

LEMMA MemoryInvStep == MemoryInv /\ [MemoryNext]_memoryVars => MemoryInv'
<1> SUFFICES ASSUME MemoryInv, [MemoryNext]_memoryVars PROVE MemoryInv'
    OBVIOUS
<1>0. /\ MemoryTypeOK /\ memoryAction \in Actions
      /\ \A m \in Memories : memory[m] \in MemoryRow /\ memory[m].version \in Nat
    BY MemoryAssumption DEF MemoryInv, MemoryTypeOK, Actions, MemoryRow
<1>1. ASSUME NEW m \in Memories, NEW flagged \in BOOLEAN, AgentProposesMemory(m, flagged)
      PROVE  MemoryInv'
    <2>1. /\ Created(flagged, "session") \in MemoryRow /\ Created(flagged, "session").version = 0
          /\ NoMemory.version = 0
        BY CreatedRow, NoMemoryIsTyped
    <2>2. /\ memory' \in [Memories -> MemoryRow] /\ embedJobs' \subseteq Memories
          /\ \A q \in Memories : memory'[q].version >= memory[q].version
        BY <1>0, <1>1, <2>1 DEF AgentProposesMemory, MemoryTypeOK
    <2> QED
        BY <1>1, <2>2, ServerStep DEF AgentProposesMemory
<1>2. ASSUME NEW m \in Memories, NEW flagged \in BOOLEAN, OtherEditsMemory(m, flagged)
      PROVE  MemoryInv'
    <2>1. /\ Rewritten(memory[m], flagged) \in MemoryRow
          /\ Rewritten(memory[m], flagged).version = memory[m].version + 1
        BY <1>0, <1>2, RewrittenRow DEF OtherEditsMemory
    <2>2. /\ memory' \in [Memories -> MemoryRow] /\ embedJobs' \subseteq Memories
          /\ \A q \in Memories : memory'[q].version >= memory[q].version
        BY <1>0, <1>2, <2>1 DEF OtherEditsMemory, MemoryTypeOK
    <2> QED
        BY <1>2, <2>2, ServerStep DEF OtherEditsMemory
<1>3. ASSUME NEW m \in Memories, NEW flagged \in BOOLEAN, CommitMemory(m, flagged)
      PROVE  MemoryInv'
    <2> DEFINE new == Applied(memory[m], memoryAction.kind, flagged, memoryAction.wide)
    <2>1. /\ memoryAction.kind \in {"create", "update", "approve", "reject", "promote"}
          /\ memoryAction.wide \in {"none", "project", "workspace"}
          /\ memoryAction.kind = "promote" => memoryAction.wide # "none"
        BY <1>0, <1>3 DEF CommitMemory, MemoryInv, ActionIsWhole, Actions
    <2>2. new \in MemoryRow /\ new.version >= memory[m].version
        BY <1>0, <1>3, <2>1, AppliedRow DEF CommitMemory
    <2> HIDE DEF new
    <2>3. /\ memory' = [memory EXCEPT ![m] = new]
          /\ memoryAction' = [memoryAction EXCEPT !.phase = "committed", !.memory = m,
                                                  !.at = memory'[m].version]
          /\ memoryAction.phase = "sent"
          /\ memoryAction.kind # "create" => m = memoryAction.memory
          /\ UNCHANGED <<memoryCache, memoryView, selectedMemory, draftOf, acknowledged>>
        BY <1>3 DEF CommitMemory, new
    <2>4. /\ memory' \in [Memories -> MemoryRow] /\ memory'[m] = new
          /\ \A q \in Memories : memory'[q].version >= memory[q].version
        BY <1>0, <2>2, <2>3 DEF MemoryTypeOK
    <2>5. new.version \in 0 .. MaxWrites
        BY <2>2 DEF MemoryRow
    <2>6. /\ memoryAction' \in Actions /\ memoryAction'.phase = "committed"
          /\ memoryAction'.memory = m /\ memoryAction'.at = new.version
          /\ memoryAction'.kind = memoryAction.kind /\ memoryAction'.draft = memoryAction.draft
        BY <1>0, <2>3, <2>4, <2>5 DEF Actions
    <2>7. embedJobs' \subseteq Memories
        BY <1>0, <1>3 DEF CommitMemory, MemoryTypeOK
    <2>8. MemoryTypeOK'
        BY <1>0, <2>3, <2>4, <2>6, <2>7 DEF MemoryTypeOK, memoryCache, Actions
    <2>9. ActionIsWhole' /\ EditsGoToTheirMemory'
        BY <2>3, <2>6 DEF MemoryInv, ActionIsWhole, EditsGoToTheirMemory
    <2>10. VersionsGrow'
        <3>1. \A q \in Memories : acknowledged[q] \in Nat /\ memory'[q].version \in Nat
            BY <1>0, <2>4, MemoryAssumption DEF MemoryTypeOK, MemoryRow
        <3>2. \A q \in Memories : acknowledged[q] <= memory'[q].version
            BY <1>0, <2>4, <3>1 DEF MemoryInv, VersionsGrow
        <3>3. memoryAction'.at <= memory'[memoryAction'.memory].version
            BY <2>4, <2>6, <3>1
        <3> QED
            BY <2>3, <2>6, <3>2, <3>3 DEF MemoryInv, VersionsGrow, memoryCache
    <2> QED
        BY <2>8, <2>9, <2>10 DEF MemoryInv
<1>4. ASSUME NEW m \in Memories, SelectMemory(m) PROVE MemoryInv'
    BY <1>0, <1>4, MemoryPanelStep DEF SelectMemory, DraftReset, MemoryTypeOK
<1>5. ASSUME NEW m \in Memories, NEW embedded \in BOOLEAN, EmbedMemory(m, embedded) PROVE MemoryInv'
    <2>1. PICK e \in {"failed", "blocked", "embedded"} : memory' = [memory EXCEPT ![m].embedding = e]
        BY <1>5 DEF EmbedMemory
    <2>2. [memory[m] EXCEPT !.embedding = e] \in MemoryRow
          /\ [memory[m] EXCEPT !.embedding = e].version = memory[m].version
        BY <1>0 DEF MemoryRow
    <2>3. /\ memory' \in [Memories -> MemoryRow]
          /\ \A q \in Memories : memory'[q].version >= memory[q].version
        BY <1>0, <2>1, <2>2 DEF MemoryTypeOK
    <2>4. embedJobs' \subseteq Memories
        BY <1>0, <1>5 DEF EmbedMemory, MemoryTypeOK
    <2> QED
        BY <1>5, <2>3, <2>4, ServerStep DEF EmbedMemory
<1>6. CASE RefuseApproval
    <2> DEFINE r == memoryAction.memory
    <2> DEFINE new == [[memory[r] EXCEPT !.status = "candidate"] EXCEPT !.embedding = "blocked"]
    <2>1. /\ memory' = [memory EXCEPT ![r] = new]
          /\ memoryAction' = [memoryAction EXCEPT !.phase = "refused"]
          /\ memoryAction.phase = "sent"
          /\ UNCHANGED <<embedJobs, memoryCache, memoryView, selectedMemory, draftOf, acknowledged>>
        BY <1>0, <1>6 DEF RefuseApproval, MemoryTypeOK
    <2>2. r \in Memories => new \in MemoryRow /\ new.version = memory[r].version
        BY <1>0 DEF MemoryRow
    <2> HIDE DEF new
    <2>3. /\ memory' \in [Memories -> MemoryRow]
          /\ \A q \in Memories : memory'[q].version = memory[q].version
        BY <1>0, <2>1, <2>2 DEF MemoryTypeOK
    <2>4. /\ memoryAction' \in Actions /\ memoryAction'.phase = "refused"
          /\ memoryAction'.kind = memoryAction.kind /\ memoryAction'.draft = memoryAction.draft
          /\ memoryAction'.memory = memoryAction.memory
        BY <1>0, <2>1 DEF Actions
    <2> HIDE DEF r
    <2> QED
        BY <1>0, <2>1, <2>3, <2>4 DEF MemoryInv, MemoryTypeOK, Actions, memoryCache, ActionIsWhole,
                                      EditsGoToTheirMemory, VersionsGrow
<1>7. CASE FetchMemories
    <2>1. selectedMemory' \in Memories \cup {Nothing}
        BY <1>7, ReselectedMemory DEF FetchMemories
    <2>2. \A m \in Memories : acknowledged[m] \in Nat
        BY <1>0, MemoryAssumption DEF MemoryTypeOK
    <2> QED
        BY <1>0, <1>7, <2>1, <2>2 DEF FetchMemories, DraftReset, MemoryInv, MemoryTypeOK, memoryServer,
                                      ActionIsWhole, EditsGoToTheirMemory, VersionsGrow
<1>8. CASE CloseMemory
    <2>1. selectedMemory' \in Memories \cup {Nothing}
        BY <1>8, ReselectedMemory DEF CloseMemory
    <2> QED
        BY <1>0, <1>8, <2>1, MemoryPanelStep DEF CloseMemory, DraftReset, MemoryTypeOK
<1>9. CASE EditMemory
    BY <1>0, <1>9, MemoryPanelStep DEF EditMemory, MemoryTypeOK
<1>10. CASE CancelEdit
    BY <1>0, <1>10, MemoryPanelStep DEF CancelEdit, MemoryTypeOK
<1>11. ASSUME NEW view \in MemoryViews, ChangeMemoryView(view) PROVE MemoryInv'
    BY <1>0, <1>11, MemoryPanelStep DEF ChangeMemoryView, DraftReset, MemoryTypeOK
<1>12. CASE CreateMemory
    BY <1>12, RequestStep DEF CreateMemory
<1>13. CASE SaveEdit
    <2>1. selectedMemory \in Memories \cup {Nothing} /\ draftOf = selectedMemory
        BY <1>0, <1>13 DEF SaveEdit, MemoryInv, MemoryTypeOK, EditsGoToTheirMemory
    <2> QED
        BY <1>13, <2>1, RequestStep DEF SaveEdit
<1>14. CASE ApproveMemory \/ RejectMemory \/ PromoteMemory
    <2>1. selectedMemory \in Memories \cup {Nothing}
        BY <1>0 DEF MemoryTypeOK
    <2>2. CASE ApproveMemory
        BY <2>1, <2>2, RequestStep DEF ApproveMemory
    <2>3. CASE RejectMemory
        BY <2>1, <2>3, RequestStep DEF RejectMemory
    <2>4. CASE PromoteMemory
        <3>1. PICK wide \in {"project", "workspace"} : Request("promote", selectedMemory, wide)
            BY <2>4 DEF PromoteMemory
        <3> QED
            BY <2>1, <3>1, RequestStep
    <2> QED
        BY <1>14, <2>2, <2>3, <2>4
<1>15. CASE MemoryAcknowledged
    <2> DEFINE r == memoryAction.memory
    <2>1. /\ memoryAction.phase = "committed" /\ r \in Memories
          /\ memoryAction.at \in 0 .. MaxWrites /\ memoryAction.at <= memory[r].version
          /\ acknowledged' = [acknowledged EXCEPT ![r] = memoryAction.at]
          /\ memoryAction' = [memoryAction EXCEPT !.phase = "acknowledged"]
          /\ UNCHANGED <<memoryServer, memoryCache, memoryView, selectedMemory, draftOf>>
        BY <1>0, <1>15 DEF MemoryAcknowledged, MemoryInv, VersionsGrow, Actions
    <2>2. /\ memoryAction' \in Actions /\ memoryAction'.phase = "acknowledged"
          /\ memoryAction'.kind = memoryAction.kind /\ memoryAction'.draft = memoryAction.draft
          /\ memoryAction'.memory = r /\ memoryAction'.at = memoryAction.at
        BY <1>0, <2>1 DEF Actions
    <2> HIDE DEF r
    <2>3. MemoryTypeOK'
        BY <1>0, <2>1, <2>2 DEF MemoryTypeOK, Actions, memoryServer, memoryCache
    <2>4. ActionIsWhole' /\ EditsGoToTheirMemory'
        BY <2>1, <2>2 DEF MemoryInv, ActionIsWhole, EditsGoToTheirMemory, r
    <2>5. VersionsGrow'
        BY <1>0, <2>1, <2>2 DEF MemoryInv, VersionsGrow, memoryServer, MemoryTypeOK
    <2> QED
        BY <2>3, <2>4, <2>5 DEF MemoryInv
<1>16. ASSUME NEW succeeds \in BOOLEAN, MemoryRefetched(succeeds) PROVE MemoryInv'
    <2>1. selectedMemory' \in Memories \cup {Nothing}
        BY <1>16, ReselectedMemory DEF MemoryRefetched
    <2>2. /\ memoryAction' = NoMemoryAction /\ draftOf' = Nothing
          /\ shownMemories' = (IF succeeds THEN memory ELSE shownMemories) /\ memoryError' = ~succeeds
          /\ UNCHANGED <<memoryServer, memoryView, acknowledged>>
        BY <1>16 DEF MemoryRefetched, DraftReset
    <2>3. MemoryTypeOK'
        BY <1>0, <2>1, <2>2, NoMemoryIsTyped DEF MemoryTypeOK, Actions, memoryServer
    <2>4. \A m \in Memories : acknowledged[m] \in Nat
        BY <1>0, MemoryAssumption DEF MemoryTypeOK
    <2>5. ActionIsWhole' /\ EditsGoToTheirMemory' /\ VersionsGrow'
        BY <1>0, <2>2, <2>4 DEF MemoryInv, NoMemoryAction, ActionIsWhole, EditsGoToTheirMemory,
                                VersionsGrow, memoryServer
    <2> QED
        BY <2>3, <2>5 DEF MemoryInv
<1>17. CASE MemoryActionFails
    <2>1. MemoryTypeOK'
        BY <1>0, <1>17, NoMemoryIsTyped
        DEF MemoryActionFails, DraftReset, MemoryTypeOK, Actions, memoryServer, memoryCache
    <2>2. ActionIsWhole' /\ EditsGoToTheirMemory' /\ VersionsGrow'
        BY <1>17 DEF MemoryActionFails, DraftReset, MemoryInv, NoMemoryAction, ActionIsWhole,
                     EditsGoToTheirMemory, VersionsGrow, memoryServer, memoryCache
    <2> QED
        BY <2>1, <2>2 DEF MemoryInv
<1>18. CASE UNCHANGED memoryVars
    BY <1>0, <1>18, MemoryPanelStep
    DEF memoryVars, memoryServer, memoryCache, MemoryInv, MemoryTypeOK, EditsGoToTheirMemory
<1> QED
    BY <1>1, <1>2, <1>3, <1>4, <1>5, <1>6, <1>7, <1>8, <1>9, <1>10, <1>11, <1>12, <1>13, <1>14,
       <1>15, <1>16, <1>17, <1>18
    DEF MemoryNext

LEMMA MemoryInvInit == MemoryInit => MemoryInv
<1> SUFFICES ASSUME MemoryInit PROVE MemoryInv
    OBVIOUS
<1>1. /\ Stored("candidate", FALSE, "pending", "session") \in MemoryRow
      /\ Stored("approved", FALSE, "embedded", "project") \in MemoryRow
    BY StoredRow
<1>2. MemoryTypeOK
    <2>1. memory \in [Memories -> MemoryRow] /\ shownMemories \in [Memories -> MemoryRow]
        BY <1>1, NoMemoryIsTyped DEF MemoryInit
    <2>2. memoryAction \in Actions
        BY NoMemoryIsTyped DEF MemoryInit
    <2>3. acknowledged \in [Memories -> 0 .. MaxWrites]
        BY MemoryAssumption DEF MemoryInit
    <2> QED
        BY <2>1, <2>2, <2>3 DEF MemoryInit, MemoryTypeOK, Actions
<1>3. \A m \in Memories : memory[m].version \in Nat
    BY <1>2, MemoryAssumption DEF MemoryTypeOK, MemoryRow
<1>4. ActionIsWhole /\ EditsGoToTheirMemory /\ VersionsGrow
    BY <1>3, NoMemoryIsTyped DEF MemoryInit, NoMemoryAction, ActionIsWhole, EditsGoToTheirMemory, VersionsGrow
<1> QED
    BY <1>2, <1>4 DEF MemoryInv

-----------------------------------------------------------------------------

(* Every reachable state of the page is well typed.                          *)
THEOREM MemoryTypeCorrect == MemorySpec => []MemoryTypeOK
    BY MemoryInvInit, MemoryInvStep, PTL DEF MemorySpec, MemoryInv

(* What is typed for one memory is saved to that memory.                     *)
THEOREM EditsArriveHome == MemorySpec => []EditsGoToTheirMemory
    BY MemoryInvInit, MemoryInvStep, PTL DEF MemorySpec, MemoryInv

(* A panel that is usable again shows the change that was acknowledged last, *)
(* or a later one, or the page tells of an error.                            *)
THEOREM AcknowledgedIsSeen == MemorySpec => []NextActionSeesLast
<1>1. MemoryInv => NextActionSeesLast
    BY DEF MemoryInv, VersionsGrow, NextActionSeesLast, Busy, NoMemoryAction
<1> QED
    BY <1>1, MemoryInvInit, MemoryInvStep, PTL DEF MemorySpec
=============================================================================
