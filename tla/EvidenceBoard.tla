---------------------------- MODULE EvidenceBoard ----------------------------
(* The evidence page: EvidencePage, EvidenceReviewScreen with its inspector, *)
(* and the queries and mutations of useEvidenceFindings, for one session.    *)
(* Its evidence and the findings it supports are listed in their order.      *)
EXTENDS WebLists

CONSTANTS
    Evidence, Findings,   \* numbered in the order of their lists
    StatusesInPlay,       \* the finding statuses that runs explore
    FiltersInPlay,        \* and the status filters
    SupportsInPlay,       \* the findings that evidence may support at first
    RowsInPlay            \* what type, severity and creator may let through

FindingStatuses == {"candidate", "needs_review", "confirmed", "false_positive",
                    "accepted_risk", "fixed", "archived"}
ReviewableStatuses == {"confirmed", "false_positive", "accepted_risk", "fixed", "archived"}
IncludedStatuses == {"confirmed", "accepted_risk", "fixed"}

ASSUME EvidenceAssumption ==
    /\ Evidence \subseteq Nat \ {0} /\ Findings \subseteq Nat \ {0}
    /\ IsFiniteSet(Evidence) /\ IsFiniteSet(Findings)
    /\ FiltersInPlay \subseteq {"all", "reviewed", "confirmed", "candidate"}
    /\ RowsInPlay \subseteq SUBSET Evidence
    /\ SupportsInPlay \subseteq [Evidence -> Findings \cup {Nothing}]
    /\ "candidate" \in StatusesInPlay /\ StatusesInPlay \subseteq FindingStatuses

VARIABLES
    finding,              \* the findings of the database: their status, reviewed
    supports,             \* the first finding that lists a piece of evidence
    shownFindings,        \* the findings last fetched
    evidenceFilter,       \* the status filter, and what the others let through
    selectedEvidence,
    inspectorForm,        \* the fields of the inspector and whose they are
    findingSave           \* the save in flight: an update, then a review

evidenceVars == <<finding, supports, shownFindings, evidenceFilter,
                  selectedEvidence, inspectorForm, findingSave>>

NoForm == [of |-> Nothing, status |-> "Ready for review"]
NoSave == [phase |-> "none", finding |-> Nothing, typedFor |-> Nothing, status |-> "candidate"]
FindingRow == [status : StatusesInPlay \cup {"absent"}, reviewed : BOOLEAN]

(* The label of the screen for each status.                                  *)
FindingStatus(s) ==
    CASE s = "confirmed"      -> "Confirmed"
      [] s = "false_positive" -> "False positive"
      [] s = "accepted_risk"  -> "Accepted risk"
      [] s = "fixed"          -> "Fixed"
      [] s = "archived"       -> "Archived"
      [] s = "needs_review"   -> "Needs review"
      [] OTHER                -> "Ready for review"

(* The status that the inspector sends for a label.                          *)
BackendFindingStatus(label) ==
    CASE label = "Confirmed"      -> "confirmed"
      [] label = "False positive" -> "false_positive"
      [] label = "Accepted risk"  -> "accepted_risk"
      [] label = "Fixed"          -> "fixed"
      [] label = "Archived"       -> "archived"
      [] label = "Needs review"   -> "needs_review"
      [] OTHER                    -> "candidate"

(* The report inclusion that the inspector shows.                            *)
ReportInclusion(s) == IF s \in IncludedStatuses THEN "Include in report" ELSE "Keep internal only"

ShownFindings(shown) == {f \in Findings : shown[f].status # "absent"}

(* What the evidence table says of a piece of evidence.                      *)
EvidenceStatus(e, shown) ==
    LET f == supports[e]
    IN IF f \notin ShownFindings(shown) THEN "reviewed"
       ELSE IF shown[f].status = "confirmed" THEN "confirmed" ELSE "candidate"

EvidenceStatuses == {"reviewed", "confirmed", "candidate"}

(* The rows of the table: the status of a row follows its finding, so a      *)
(* fetch can take a row out of the table.                                    *)
FilteredEvidence(filter, shown) ==
    {e \in filter.rows : filter.status \in {"all", EvidenceStatus(e, shown)}}

(* The finding in the inspector: that of the selected evidence, or else the  *)
(* first one.                                                                *)
SelectedFinding(e, shown) ==
    IF e # Nothing /\ supports[e] \in ShownFindings(shown)
    THEN supports[e] ELSE FirstOf(ShownFindings(shown))

FormOf(f, shown) ==
    IF f = Nothing THEN NoForm ELSE [of |-> f, status |-> FindingStatus(shown[f].status)]

EvidenceInit ==
    /\ finding \in [Findings -> {[status |-> "candidate", reviewed |-> FALSE],
                                 [status |-> "absent", reviewed |-> FALSE]}]
    /\ supports \in SupportsInPlay
    /\ shownFindings = [f \in Findings |-> [status |-> "absent", reviewed |-> FALSE]]
    /\ evidenceFilter = [rows |-> Evidence, status |-> "all"]
    /\ selectedEvidence = FirstOf(Evidence)
    /\ inspectorForm = NoForm /\ findingSave = NoSave

-----------------------------------------------------------------------------

(* The agent proposes a finding; another operator confirms one.              *)
AgentProposes(f) ==
    /\ finding[f].status = "absent"
    /\ finding' = [finding EXCEPT ![f].status = "candidate"]
    /\ UNCHANGED <<supports, shownFindings, evidenceFilter, selectedEvidence, inspectorForm, findingSave>>

OtherReviews(f) ==
    /\ finding[f].status \notin {"absent", "confirmed"}
    /\ "confirmed" \in StatusesInPlay
    /\ finding' = [finding EXCEPT ![f] = [status |-> "confirmed", reviewed |-> TRUE]]
    /\ UNCHANGED <<supports, shownFindings, evidenceFilter, selectedEvidence, inspectorForm, findingSave>>

(* Mutant: the fields are kept when another finding comes into the inspector.*)
ResetFormOnce(e, shown) ==
    inspectorForm' = IF inspectorForm.of = Nothing
                     THEN FormOf(SelectedFinding(e, shown), shown) ELSE inspectorForm

(* The effect of the inspector: a rendering of the page maps every finding   *)
(* anew, and each new finding object resets the fields, typed ones included. *)
ResetForm(e, shown) == inspectorForm' = FormOf(SelectedFinding(e, shown), shown)

(* The answer of the findings query: on mount, after a save, on reconnect.   *)
FetchFindings ==
    /\ shownFindings # finding
    /\ shownFindings' = finding
    /\ selectedEvidence' = StillOrFirst(selectedEvidence, FilteredEvidence(evidenceFilter, finding))
    /\ ResetForm(selectedEvidence', finding)
    /\ UNCHANGED <<finding, supports, evidenceFilter, findingSave>>

(* Choosing another piece of evidence resets the fields only if it leads to  *)
(* another finding: the screen renders with the objects it has.              *)
ShowEvidence(e) ==
    /\ selectedEvidence' = e
    /\ IF SelectedFinding(e, shownFindings) = inspectorForm.of
       THEN UNCHANGED inspectorForm ELSE ResetForm(e, shownFindings)

SelectEvidence(e) ==
    /\ e \in FilteredEvidence(evidenceFilter, shownFindings) \ {selectedEvidence}
    /\ ShowEvidence(e)
    /\ UNCHANGED <<finding, supports, shownFindings, evidenceFilter, findingSave>>

(* The filters of type, status, severity and reviewer, and the effect that   *)
(* selects the first remaining row. Without a selected row the screen shows  *)
(* no evidence but still the first finding.                                  *)
HandleEvidenceFilter(filter) ==
    /\ filter # evidenceFilter
    /\ evidenceFilter' = filter
    /\ ShowEvidence(StillOrFirst(selectedEvidence, FilteredEvidence(filter, shownFindings)))
    /\ UNCHANGED <<finding, supports, shownFindings, findingSave>>

(* Closing the inspector unmounts it, and what was typed in it is gone.      *)
ReopenInspector ==
    /\ inspectorForm.of # Nothing
    /\ ResetForm(selectedEvidence, shownFindings)
    /\ UNCHANGED <<finding, supports, shownFindings, evidenceFilter, selectedEvidence, findingSave>>

EditStatus(label) ==
    /\ inspectorForm.of # Nothing /\ inspectorForm.status # label
    /\ inspectorForm' = [inspectorForm EXCEPT !.status = label]
    /\ UNCHANGED <<finding, supports, shownFindings, evidenceFilter, selectedEvidence, findingSave>>

(* Saving starts a mutation; its pending state renders the page, which       *)
(* resets the fields to the finding as it was last fetched.                  *)
SaveFinding ==
    /\ findingSave = NoSave
    /\ inspectorForm.of # Nothing
    /\ findingSave' = [phase |-> "updating",
                       finding |-> SelectedFinding(selectedEvidence, shownFindings),
                       typedFor |-> inspectorForm.of,
                       status |-> BackendFindingStatus(inspectorForm.status)]
    /\ ResetForm(selectedEvidence, shownFindings)
    /\ UNCHANGED <<finding, supports, shownFindings, evidenceFilter, selectedEvidence>>

(* PATCH /findings/{id} writes every field as it is sent, of which the model *)
(* has the status; only a reviewable one, even if nobody changed it, is      *)
(* followed by POST /findings/{id}/review, which records the reviewer anew.  *)
UpdateFinding ==
    /\ findingSave.phase = "updating"
    /\ finding' = [finding EXCEPT ![findingSave.finding].status = findingSave.status]
    /\ findingSave' = [findingSave EXCEPT !.phase =
           IF findingSave.status \in ReviewableStatuses THEN "reviewing" ELSE "saved"]
    /\ UNCHANGED <<supports, shownFindings, evidenceFilter, selectedEvidence, inspectorForm>>

ReviewFinding ==
    /\ findingSave.phase = "reviewing"
    /\ finding' = [finding EXCEPT ![findingSave.finding] =
                       [status |-> findingSave.status, reviewed |-> TRUE]]
    /\ findingSave' = [findingSave EXCEPT !.phase = "saved"]
    /\ UNCHANGED <<supports, shownFindings, evidenceFilter, selectedEvidence, inspectorForm>>

(* Either request or either answer may fail; the save then ends with an      *)
(* error, and only a complete one invalidates the list of findings.          *)
SaveEnds ==
    /\ findingSave # NoSave
    /\ findingSave' = NoSave
    /\ ResetForm(selectedEvidence, shownFindings)
    /\ UNCHANGED <<finding, supports, shownFindings, evidenceFilter, selectedEvidence>>

EvidenceNext ==
    \/ \E f \in Findings : AgentProposes(f) \/ OtherReviews(f)
    \/ FetchFindings
    \/ \E e \in Evidence : SelectEvidence(e)
    \/ \E rows \in RowsInPlay, status \in FiltersInPlay :
           HandleEvidenceFilter([rows |-> rows, status |-> status])
    \/ ReopenInspector
    \/ \E s \in StatusesInPlay : EditStatus(FindingStatus(s))
    \/ SaveFinding
    \/ UpdateFinding
    \/ ReviewFinding
    \/ SaveEnds

EvidenceSpec == EvidenceInit /\ [][EvidenceNext]_evidenceVars

-----------------------------------------------------------------------------

EvidenceTypeOK ==
    LET Label == {FindingStatus(t) : t \in FindingStatuses}
        MaybeFinding == Findings \cup {Nothing}
    IN /\ finding \in [Findings -> FindingRow] /\ shownFindings \in [Findings -> FindingRow]
       /\ supports \in [Evidence -> MaybeFinding]
       /\ evidenceFilter \in [rows : SUBSET Evidence, status : EvidenceStatuses \cup {"all"}]
       /\ selectedEvidence \in Evidence \cup {Nothing}
       /\ inspectorForm \in [of : MaybeFinding, status : Label]
       /\ findingSave \in [phase : {"none", "updating", "reviewing", "saved"},
              finding : MaybeFinding, typedFor : MaybeFinding, status : FindingStatuses]

(* What an operator types for one finding is never saved to another one,     *)
(* although findings are not given an inspector of their own, and selection, *)
(* filters, and fetches that change the filtered rows change the finding     *)
(* under the operator's fields.                                              *)
SavesGoWhereTyped ==
    /\ inspectorForm.of = SelectedFinding(selectedEvidence, shownFindings)
    /\ findingSave.typedFor = findingSave.finding
=============================================================================
