--------------------------- MODULE ApprovalsBoard ---------------------------
(* The approvals page of the web application: ApprovalsPage with its queue   *)
(* table, its decision panel and the queries and mutations of useApprovals.  *)
(* React runs the effects of a render before the user can act on it, so each *)
(* action ends with the reselection that the page's effect makes.            *)
EXTENDS WebLists

CONSTANTS
    Requests,          \* approval requests, numbered in the order of the list
    StatusFilters,     \* the options of the status filter that are explored
    Narrowings,        \* what risk, project, requester and search let through
    PageSize           \* rows on a page of the queue

ASSUME BoardAssumption ==
    /\ Requests \subseteq Nat \ {0} /\ IsFiniteSet(Requests)
    /\ StatusFilters \subseteq {"all", "pending", "approved", "denied", "expired"}
    /\ "all" \in StatusFilters
    /\ Narrowings \subseteq SUBSET Requests /\ Requests \in Narrowings
    /\ PageSize \in Nat \ {0}

VARIABLES
    queue,             \* status of each request in the database
    shownQueue,        \* per status filter, the rows last fetched
    statusFilter,
    narrowed,          \* the requests the other filters let through
    selectedRequest,
    queuePage,
    decisionNote,      \* the request whose panel the note was typed in
    decisionFeedback,
    decision           \* the mutation in flight

boardVars == <<queue, shownQueue, statusFilter, narrowed, selectedRequest,
               queuePage, decisionNote, decisionFeedback, decision>>
panelVars == <<selectedRequest, decisionNote, decisionFeedback>>
filterVars == <<statusFilter, narrowed, queuePage>>

NoRequest == Nothing
NoFeedback == [tone |-> "none", req |-> NoRequest, verdict |-> "none"]
NoDecision == [phase |-> "none", req |-> NoRequest, verdict |-> "none", note |-> NoRequest]
RequestStatus == {"absent", "pending", "approved", "denied"}
Verdicts == {"approved", "denied"}

(* The rows that GET /approvals returns for a status filter.                 *)
ListApprovals(f) ==
    [r \in Requests |-> IF f = "all" \/ queue[r] = f THEN queue[r] ELSE "absent"]

(* The rows that remain when the filters of the page are applied to the      *)
(* fetched ones.                                                             *)
FilteredRequests(f, through, shown) == {r \in through : shown[f][r] # "absent"}

BoardInit ==
    /\ queue \in [Requests -> {"absent", "pending", "approved"}]
    /\ shownQueue = [f \in StatusFilters |-> [r \in Requests |-> "absent"]]
    /\ statusFilter = "all" /\ narrowed = Requests
    /\ selectedRequest = NoRequest /\ queuePage = 1
    /\ decisionNote = NoRequest /\ decisionFeedback = NoFeedback
    /\ decision = NoDecision

-----------------------------------------------------------------------------

(* Mutants: the note survives a change of selection; success is announced    *)
(* when the decision is sent.                                                *)
SelectRequestKeepsNote(r) ==
    /\ selectedRequest' = r /\ decisionFeedback' = NoFeedback
    /\ UNCHANGED decisionNote

SelectRequest(r) ==
    /\ selectedRequest' = r
    /\ decisionNote' = NoRequest
    /\ decisionFeedback' = NoFeedback

(* The effect of the page: a selection that is no longer listed is replaced  *)
(* by the first row.                                                         *)
ReselectRequest(rows) ==
    IF selectedRequest = StillOrFirst(selectedRequest, rows)
    THEN UNCHANGED panelVars
    ELSE SelectRequest(FirstOf(rows))

(* An agent asks for an approval; another operator, in another browser,      *)
(* decides one.                                                              *)
AgentRequests(r) ==
    /\ queue[r] = "absent"
    /\ queue' = [queue EXCEPT ![r] = "pending"]
    /\ UNCHANGED <<shownQueue, filterVars, panelVars, decision>>

OtherDecides(r, verdict) ==
    /\ queue[r] = "pending"
    /\ queue' = [queue EXCEPT ![r] = verdict]
    /\ UNCHANGED <<shownQueue, filterVars, panelVars, decision>>

(* The answer of the list query: the 10 s poll, the refresh button or the    *)
(* invalidation after a decision.                                            *)
FetchApprovals ==
    /\ shownQueue[statusFilter] # ListApprovals(statusFilter)
    /\ shownQueue' = [shownQueue EXCEPT ![statusFilter] = ListApprovals(statusFilter)]
    /\ ReselectRequest(FilteredRequests(statusFilter, narrowed, shownQueue'))
    /\ UNCHANGED <<queue, filterVars, decision>>

HandleStatusChange(f) ==
    /\ f # statusFilter
    /\ statusFilter' = f /\ queuePage' = 1
    /\ ReselectRequest(FilteredRequests(f, narrowed, shownQueue))
    /\ UNCHANGED <<queue, shownQueue, narrowed, decision>>

(* The risk, project and requester filters go back to page 1; the search     *)
(* field does not.                                                           *)
HandleNarrowing(through, bySearch) ==
    /\ through # narrowed \/ (~bySearch /\ queuePage # 1)
    /\ narrowed' = through
    /\ queuePage' = IF bySearch THEN queuePage ELSE 1
    /\ ReselectRequest(FilteredRequests(statusFilter, through, shownQueue))
    /\ UNCHANGED <<queue, shownQueue, statusFilter, decision>>

ListedRequests == FilteredRequests(statusFilter, narrowed, shownQueue)

HandlePageChange(p) ==
    /\ \/ queuePage > 1 /\ p = queuePage - 1
       \/ queuePage < LastPage(ListedRequests, PageSize) /\ p = queuePage + 1
    /\ queuePage' = p
    /\ UNCHANGED <<queue, shownQueue, statusFilter, narrowed, panelVars, decision>>

HandleSelectRequest(r) ==
    /\ r \in OnPage(ListedRequests, queuePage, PageSize)
    /\ SelectRequest(r)
    /\ UNCHANGED <<queue, shownQueue, filterVars, decision>>

HandleNoteChange ==
    /\ selectedRequest # NoRequest
    /\ decisionNote' = selectedRequest
    /\ UNCHANGED <<queue, shownQueue, filterVars, selectedRequest, decisionFeedback, decision>>

(* The two buttons are disabled while a decision is in flight and for a      *)
(* request that is not shown as pending.                                     *)
DecisionEnabled ==
    /\ selectedRequest # NoRequest
    /\ shownQueue[statusFilter][selectedRequest] = "pending"
    /\ decision = NoDecision

HandleApplyDecision(verdict) ==
    /\ DecisionEnabled
    /\ IF decisionNote = NoRequest
       THEN /\ decisionFeedback' = [tone |-> "error", req |-> selectedRequest, verdict |-> verdict]
            /\ UNCHANGED decision
       ELSE /\ decision' = [phase |-> "sent", req |-> selectedRequest,
                            verdict |-> verdict, note |-> decisionNote]
            /\ UNCHANGED decisionFeedback
    /\ UNCHANGED <<queue, shownQueue, filterVars, selectedRequest, decisionNote>>

(* The API decides a pending request and refuses any other.                  *)
ResolveApproval ==
    /\ decision.phase = "sent"
    /\ IF queue[decision.req] = "pending"
       THEN /\ queue' = [queue EXCEPT ![decision.req] = decision.verdict]
            /\ decision' = [decision EXCEPT !.phase = "resolved"]
       ELSE /\ decision' = [decision EXCEPT !.phase = "refused"]
            /\ UNCHANGED queue
    /\ UNCHANGED <<shownQueue, filterVars, panelVars>>

SuccessOnAnyAnswer ==
    /\ decision.phase \in {"resolved", "refused"}
    /\ decisionFeedback' = [tone |-> "success", req |-> decision.req, verdict |-> decision.verdict]
    /\ decisionNote' = NoRequest
    /\ decision' = NoDecision
    /\ UNCHANGED <<queue, shownQueue, filterVars, selectedRequest>>

(* The answer of a decision reports on the request it was made for and       *)
(* clears the note, whichever request is selected by then.                   *)
DecisionSucceeds ==
    /\ decision.phase = "resolved"
    /\ decisionFeedback' = [tone |-> "success", req |-> decision.req, verdict |-> decision.verdict]
    /\ decisionNote' = NoRequest
    /\ decision' = NoDecision
    /\ UNCHANGED <<queue, shownQueue, filterVars, selectedRequest>>

(* A refusal, a request that is lost or an answer that is lost.              *)
DecisionFails ==
    /\ decision # NoDecision
    /\ decisionFeedback' = [tone |-> "error", req |-> decision.req, verdict |-> decision.verdict]
    /\ decision' = NoDecision
    /\ UNCHANGED <<queue, shownQueue, filterVars, selectedRequest, decisionNote>>

BoardNext ==
    \/ \E r \in Requests : \/ AgentRequests(r)
                           \/ HandleSelectRequest(r)
                           \/ \E v \in Verdicts : OtherDecides(r, v)
    \/ FetchApprovals
    \/ \E f \in StatusFilters : HandleStatusChange(f)
    \/ \E t \in Narrowings, s \in BOOLEAN : HandleNarrowing(t, s)
    \/ \E p \in 1 .. Cardinality(Requests) : HandlePageChange(p)
    \/ HandleNoteChange
    \/ \E v \in Verdicts : HandleApplyDecision(v)
    \/ ResolveApproval
    \/ DecisionSucceeds
    \/ DecisionFails

BoardSpec == BoardInit /\ [][BoardNext]_boardVars

-----------------------------------------------------------------------------

(* The variables of the page keep their types.                               *)
BoardTypeOK ==
    /\ queue \in [Requests -> RequestStatus]
    /\ shownQueue \in [StatusFilters -> [Requests -> RequestStatus]]
    /\ statusFilter \in StatusFilters /\ narrowed \in SUBSET Requests
    /\ selectedRequest \in Requests \cup {NoRequest}
    /\ queuePage \in Nat
    /\ decisionNote \in Requests \cup {NoRequest}
    /\ decisionFeedback \in [tone : {"none", "error", "success"},
                             req : Requests \cup {NoRequest}, verdict : Verdicts \cup {"none"}]
    /\ decision \in [phase : {"none", "sent", "resolved", "refused"},
                     req : Requests \cup {NoRequest}, verdict : Verdicts \cup {"none"},
                     note : Requests \cup {NoRequest}]

(* A decision carries the note that was typed in the panel of the request it *)
(* decides, although polls, filters and late answers move the selection:     *)
(* the note becomes the resolution note of the audit trail.                  *)
DecisionsAreInformed ==
    decision.phase # "none" => decision.req # NoRequest /\ decision.note = decision.req

(* "Decision recorded" is only ever said of a decision that the database     *)
(* holds, although other operators decide the same requests.                 *)
FeedbackIsTrue ==
    decisionFeedback.tone = "success" =>
        queue[decisionFeedback.req] = decisionFeedback.verdict
=============================================================================
