--------------------------- MODULE ReportOutline ---------------------------
(* The panels of the reports page below its header: the filter of finding    *)
(* statuses and the outline of sections that an operator switches, and the   *)
(* data that mapReportBuilderData derives for them. Reports, findings and    *)
(* evidence are three queries, and what is switched is state of the page     *)
(* that an effect of ReportsPage refreshes.                                  *)
EXTENDS ReportBuilder, Sequences, SequencesExt

CONSTANTS
    StatusesOfFindings,    \* the statuses of findings that runs tell apart
    MaxFindings,           \* bound: the findings of a session
    SwitchedSections       \* the sections that operators switch

ASSUME OutlineAssumption ==
    /\ StatusesOfFindings \subseteq STRING /\ MaxFindings \in Nat
    /\ SwitchedSections \subseteq {"summary", "findings", "evidence", "appendix"}

VARIABLES
    outlineData,       \* the answers of the three queries
    includedLabels,    \* the finding statuses that the filter lets through
    sections,          \* the outline
    filteredFor,       \* the report for which the filter was last switched
    touched            \* the sections switched since the last refresh

outlineVars == <<outlineData, includedLabels, sections, filteredFor, touched>>

OutlineFinding == [status : StatusesOfFindings, evidence : 0..1]
NoRow == [id |-> Nothing, status |-> "absent", rendered |-> <<>>]

(* The findings that the API puts into a report are of the rendered statuses. *)
OutlineReports ==
    {NoRow} \cup [id : Reports, status : {"draft"}, rendered : {<<>>}]
            \cup [id : Reports, status : {"rendered", "final"},
                  rendered : {<<>>} \cup {<<f>> : f \in {g \in OutlineFinding : g.status \in RenderedStatuses}}]

IsRendered(row) == row.status \in {"rendered", "final"}

(* The findings of the session, or, as long as there are none, those of the  *)
(* rendered report.                                                          *)
BuilderFindings(d) == IF d.findings # <<>> THEN d.findings ELSE d.report.rendered

(* The places, in that list, of the findings with one of the labels.         *)
LabelledFindings(d, labels) ==
    {i \in DOMAIN BuilderFindings(d) : PreviewLabel(BuilderFindings(d)[i].status) \in labels}
BuilderIncluded(d) == LabelledFindings(d, ReportFindingLabels)

(* How many references to evidence are listed: those of the rendered         *)
(* findings, or those of the session.                                        *)
RenderedReferences(findings) ==
    UNION {{i} \X (1..findings[i].evidence) : i \in DOMAIN findings}
EvidenceReferences(d) ==
    LET rendered == Cardinality(RenderedReferences(d.report.rendered))
    IN IF rendered > 0 THEN rendered ELSE d.evidence

SectionNames == {"summary", "findings", "evidence", "appendix"}

(* A section: switched on, counting its items, marked as disabled, complete. *)
DefaultSections ==
    [s \in SectionNames |-> [enabled |-> s # "appendix", counted |-> 0,
                             marked |-> FALSE, complete |-> FALSE]]

SectionsWithMetrics(outline, d) ==
    LET included == Cardinality(BuilderIncluded(d))
        Counting(s, n) == [outline[s] EXCEPT !.counted = n, !.marked = FALSE, !.complete = n > 0]
    IN [s \in SectionNames |->
           CASE s = "findings" -> Counting(s, included)
             [] s = "evidence" -> Counting(s, EvidenceReferences(d))
             [] s = "summary"  -> [outline[s] EXCEPT !.complete = IsRendered(d.report)]
             [] OTHER          -> outline[s]]

(* The checklist of the inspector.                                           *)
Readiness(d) ==
    LET included == BuilderIncluded(d)
    IN [exists   |-> d.report # NoRow,
        included |-> included # {},
        linked   |-> included # {} /\ \A i \in included : BuilderFindings(d)[i].evidence > 0,
        evidence |-> EvidenceReferences(d) > 0,
        rendered |-> IsRendered(d.report)]

(* The findings of the preview.                                              *)
VisibleFindings(d, labels) == LabelledFindings(d, labels)

-----------------------------------------------------------------------------

NoData == [report |-> NoRow, findings |-> <<>>, evidence |-> 0]

OutlineInit ==
    /\ outlineData = NoData
    /\ includedLabels = ReportFindingLabels
    /\ sections = SectionsWithMetrics(DefaultSections, NoData)
    /\ filteredFor = Nothing /\ touched = {}

(* Mutant: another report alone is no reason to refresh.                     *)
EffectDueIgnoresReport(old, new) ==
    \/ old.report.status # new.report.status
    \/ EvidenceReferences(old) # EvidenceReferences(new)
    \/ Len(BuilderFindings(old)) # Len(BuilderFindings(new))

(* The dependencies of the effect: a finding that changes its status alone   *)
(* refreshes nothing. The session is one more: sessions share no report, so  *)
(* it tells apart only two sessions that have none, which are left out.      *)
EffectDue(old, new) ==
    \/ old.report.id # new.report.id \/ old.report.status # new.report.status
    \/ EvidenceReferences(old) # EvidenceReferences(new)
    \/ Len(BuilderFindings(old)) # Len(BuilderFindings(new))

DataArrives(d) ==
    /\ d # outlineData
    /\ outlineData' = d
    /\ IF EffectDue(outlineData, d)
       THEN /\ includedLabels' = ReportFindingLabels
            /\ sections' = SectionsWithMetrics(sections, d)
            /\ touched' = {}
       ELSE UNCHANGED <<includedLabels, sections, touched>>
    /\ UNCHANGED filteredFor

ToggleStatus(s) ==
    /\ includedLabels' = IF PreviewLabel(s) \in includedLabels
                         THEN includedLabels \ {PreviewLabel(s)}
                         ELSE includedLabels \cup {PreviewLabel(s)}
    /\ filteredFor' = outlineData.report.id
    /\ UNCHANGED <<outlineData, sections, touched>>

ToggleSection(s) ==
    /\ sections' = [sections EXCEPT ![s].enabled = ~@, ![s].complete = ~sections[s].enabled,
                                    ![s].marked = @ \/ sections[s].enabled]
    /\ touched' = touched \cup {s}
    /\ UNCHANGED <<outlineData, includedLabels, filteredFor>>

(* Reports are chosen and rendered, findings and evidence come and go.       *)
OutlineNext ==
    \/ \E row \in OutlineReports : DataArrives([outlineData EXCEPT !.report = row])
    \/ \E n \in 0..MaxFindings : \E list \in [1..n -> OutlineFinding] :
           DataArrives([outlineData EXCEPT !.findings = list])
    \/ \E n \in 0..1 : DataArrives([outlineData EXCEPT !.evidence = n])
    \/ \E s \in StatusesOfFindings : ToggleStatus(s)
    \/ \E s \in SwitchedSections : ToggleSection(s)

OutlineSpec == OutlineInit /\ [][OutlineNext]_outlineVars

-----------------------------------------------------------------------------

OutlineTypeOK ==
    /\ outlineData.report \in OutlineReports /\ outlineData.evidence \in 0..1
    /\ Range(outlineData.findings) \subseteq OutlineFinding
    /\ includedLabels \subseteq ReportFindingLabels \cup {PreviewLabel(s) : s \in StatusesOfFindings}
    /\ sections \in [SectionNames -> [enabled : BOOLEAN, counted : Nat,
                                      marked : BOOLEAN, complete : BOOLEAN]]
    /\ filteredFor \in Reports \cup {Nothing} /\ touched \subseteq SectionNames

(* A filter that was switched for one report never hides or shows findings   *)
(* of another.                                                               *)
FilterStaysWithReport ==
    includedLabels # ReportFindingLabels => filteredFor = outlineData.report.id

(* The outline is a copy, yet sections that nobody switched follow what they *)
(* are about: the summary the rendering of the report, the section of        *)
(* evidence the references that are listed.                                  *)
SectionsFollow ==
    /\ "summary" \notin touched => sections["summary"].complete = IsRendered(outlineData.report)
    /\ "evidence" \notin touched =>
           /\ sections["evidence"].complete = Readiness(outlineData).evidence
           /\ sections["evidence"].counted = EvidenceReferences(outlineData)

(* What the page keeps for a report goes with the report.                    *)
OutlineFollows == FilterStaysWithReport /\ SectionsFollow
=============================================================================
