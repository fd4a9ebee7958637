---------------------------- MODULE HomeApproval ----------------------------
(* The approval panel of the home page (ApprovalRequestPanel): it shows the  *)
(* newest pending request of a list that useWorkspaceHome polls, and decides *)
(* it with the mutations of useApprovals. Other people decide requests too.  *)
EXTENDS WebLists

CONSTANT HomeRequests      \* approval requests, newest first

ASSUME HomeApprovalAssumption == HomeRequests \subseteq Nat \ {0} /\ IsFiniteSet(HomeRequests)

VARIABLES
    asked,                 \* status of each request in the database
    pendingList,           \* the pending requests that were last fetched
    listFetch,             \* the fetch of that list
    listFailed,            \* the last fetch failed, which the page tells
    verdict,               \* the decision in flight
    mine                   \* the requests whose decision was acknowledged here

homePanelVars == <<asked, pendingList, listFetch, listFailed, verdict, mine>>

NoListFetch == [state |-> "idle", rows |-> {}]
NoVerdict == [on |-> Nothing, state |-> "none"]

PendingRequests == {r \in HomeRequests : asked[r] = "pending"}
ShownRequest == FirstOf(pendingList)
IsResolving == verdict # NoVerdict

PanelInit ==
    /\ asked = [r \in HomeRequests |-> "absent"]
    /\ pendingList = {} /\ listFetch = NoListFetch
    /\ listFailed = FALSE /\ verdict = NoVerdict
    /\ mine = {}

(* An agent asks, and somebody decides on the approvals page.                *)
AgentAsks(r) ==
    /\ asked[r] = "absent"
    /\ asked' = [asked EXCEPT ![r] = "pending"]
    /\ UNCHANGED <<pendingList, listFetch, listFailed, verdict, mine>>

OthersDecide(r) ==
    /\ asked[r] = "pending"
    /\ asked' = [asked EXCEPT ![r] = "resolved"]
    /\ UNCHANGED <<pendingList, listFetch, listFailed, verdict, mine>>

-----------------------------------------------------------------------------

(* The list is polled; the API reads it, and its answer reaches the page.    *)
PollPending ==
    /\ listFetch.state = "idle"
    /\ listFetch' = [state |-> "asked", rows |-> {}]
    /\ UNCHANGED <<asked, pendingList, listFailed, verdict, mine>>

PendingRead ==
    /\ listFetch.state = "asked"
    /\ listFetch' = [state |-> "read", rows |-> PendingRequests]
    /\ UNCHANGED <<asked, pendingList, listFailed, verdict, mine>>

PendingArrives ==
    /\ listFetch.state = "read"
    /\ pendingList' = listFetch.rows
    /\ listFetch' = NoListFetch /\ listFailed' = FALSE
    /\ UNCHANGED <<asked, verdict, mine>>

PendingFails ==
    /\ listFetch.state # "idle"
    /\ listFetch' = NoListFetch /\ listFailed' = TRUE
    /\ UNCHANGED <<asked, pendingList, verdict, mine>>

-----------------------------------------------------------------------------

(* Approve and Deny send the request that is shown, and are disabled until   *)
(* the answer arrives.                                                       *)
DecideShown ==
    /\ ShownRequest # Nothing /\ ~IsResolving
    /\ verdict' = [on |-> ShownRequest, state |-> "sent"]
    /\ UNCHANGED <<asked, pendingList, listFetch, listFailed, mine>>

(* The API accepts a decision on a pending request only.                     *)
ResolveShown ==
    /\ verdict.state = "sent"
    /\ IF asked[verdict.on] = "pending"
       THEN /\ asked' = [asked EXCEPT ![verdict.on] = "resolved"]
            /\ verdict' = [verdict EXCEPT !.state = "done"]
       ELSE /\ verdict' = [verdict EXCEPT !.state = "refused"]
            /\ UNCHANGED asked
    /\ UNCHANGED <<pendingList, listFetch, listFailed, mine>>

(* Mutant: a fetch in flight is taken for the one that is wanted.            *)
RefetchedIfIdle ==
    listFetch' = IF listFetch = NoListFetch THEN [state |-> "asked", rows |-> {}] ELSE listFetch

(* workspace.refetch: a fetch in flight is cancelled for a new one.          *)
WorkspaceRefetched == listFetch' = [state |-> "asked", rows |-> {}]

VerdictSucceeds ==
    /\ verdict.state = "done"
    /\ mine' = mine \cup {verdict.on}
    /\ verdict' = NoVerdict
    /\ WorkspaceRefetched
    /\ UNCHANGED <<asked, pendingList, listFailed>>

(* A refusal, or an answer that is lost.                                     *)
VerdictFails ==
    /\ verdict.state \in {"sent", "done", "refused"}
    /\ verdict' = NoVerdict
    /\ UNCHANGED <<asked, pendingList, listFetch, listFailed, mine>>

PanelNext ==
    \/ \E r \in HomeRequests : AgentAsks(r) \/ OthersDecide(r)
    \/ PollPending \/ PendingRead \/ PendingArrives \/ PendingFails
    \/ DecideShown \/ ResolveShown \/ VerdictSucceeds \/ VerdictFails

PanelSpec == PanelInit /\ [][PanelNext]_homePanelVars

-----------------------------------------------------------------------------

PanelTypeOK ==
    /\ asked \in [HomeRequests -> {"absent", "pending", "resolved"}]
    /\ pendingList \subseteq HomeRequests
    /\ listFetch \in [state : {"idle", "asked", "read"}, rows : SUBSET HomeRequests]
    /\ listFailed \in BOOLEAN
    /\ verdict \in [on : HomeRequests, state : {"sent", "done", "refused"}] \cup {NoVerdict}
    /\ mine \subseteq HomeRequests

(* A request whose decision was acknowledged stands in the panel only while  *)
(* the fetch that takes it away is on its way, or the page tells that it     *)
(* failed, and no fetch brings it back.                                      *)
DecidedLeavesPanel ==
    \A r \in mine :
        /\ r \in pendingList => listFetch.state # "idle" \/ listFailed
        /\ listFetch.state = "read" => r \notin listFetch.rows
=============================================================================
