---------------------------- MODULE SessionsBoard ----------------------------
(* The list of sessions (SessionsListPage, SessionDetailsPanel,              *)
(* SessionsTable, useSessionsList) and the command center that it opens      *)
(* (SessionCommandCenterPage, useSessionCommandCenter). The list is polled,  *)
(* the detail of the command center is not.                                  *)
EXTENDS WebLists, SessionViews

CONSTANTS
    Sessions,          \* numbered in the order of the session list
    BusySessions,      \* those that others change
    TabsInPlay,        \* the tabs that runs explore
    SessionPageSize    \* PAGE_SIZE of the page

ASSUME SessionsAssumption ==
    /\ Sessions \subseteq Nat \ {0} /\ IsFiniteSet(Sessions) /\ Sessions # {}
    /\ BusySessions \subseteq Sessions
    /\ SessionPageSize \in Nat \ {0}

VARIABLES
    sessionRow,        \* status of each session in the database
    listedSessions,    \* the list last fetched
    activeTab, sessionsPage, selectedSession, foundSessions,
    openedSession,     \* the session of the command center, if that is open
    shownDetail,       \* its status as last fetched
    lifecycle          \* the lifecycle mutation in flight

sessionsVars == <<sessionRow, listedSessions, activeTab, sessionsPage, selectedSession,
                  foundSessions, openedSession, shownDetail, lifecycle>>
listState == <<activeTab, sessionsPage, selectedSession, foundSessions>>
commandState == <<openedSession, shownDetail>>

LifecycleActions == {"start", "pause", "resume", "stop", "archive"}
NoLifecycle == [phase |-> "none", from |-> "list", action |-> "start",
                session |-> Nothing, seen |-> "draft", met |-> "draft"]

(* The statuses from which the API carries an action out, and where it leads.*)
AcceptedFrom(action) ==
    CASE action = "start"   -> {"draft"}
      [] action = "pause"   -> {"running"}
      [] action = "resume"  -> {"paused"}
      [] action = "stop"    -> {"planning", "running", "paused", "awaiting_approval"}
      [] action = "archive" -> {"draft", "completed", "failed", "stopped"}

LeadsTo(action) ==
    CASE action = "start"   -> "planning"
      [] action = "pause"   -> "paused"
      [] action = "resume"  -> "running"
      [] action = "stop"    -> "stopped"
      [] action = "archive" -> "archived"

(* Mutant: sessions on pause can be archived, too.                           *)
OfferedFromPaused(action) ==
    CASE action = "start"   -> {"draft"}
      [] action = "pause"   -> {"running"}
      [] action = "resume"  -> {"paused"}
      [] action = "stop"    -> {"planning", "running", "paused"}
      [] action = "archive" -> {"draft", "completed", "failed", "stopped", "paused"}

(* The statuses for which the panel of the list enables the buttons. The     *)
(* command center has pause and stop, enabled whatever the status.           *)
OfferedFrom(action) ==
    CASE action = "start"   -> {"draft"}
      [] action = "pause"   -> {"running"}
      [] action = "resume"  -> {"paused"}
      [] action = "stop"    -> {"planning", "running", "paused"}
      [] action = "archive" -> {"draft", "completed", "failed", "stopped"}

CommandActions == {"pause", "stop"}

SessionsInit ==
    /\ sessionRow = [s \in Sessions |-> "draft"]
    /\ listedSessions = [s \in Sessions |-> "absent"]
    /\ activeTab = "all" /\ sessionsPage = 1 /\ selectedSession = Nothing
    /\ foundSessions = Sessions
    /\ openedSession = Nothing /\ shownDetail = "absent"
    /\ lifecycle = NoLifecycle

-----------------------------------------------------------------------------

ListedSessions == {s \in Sessions : listedSessions[s] # "absent"}
FilteredSessions == {s \in ListedSessions \cap foundSessions : InTab(activeTab, listedSessions[s])}
VisibleSessions == OnPage(FilteredSessions, sessionsPage, SessionPageSize)

(* The session in the panel: the selected one whether or not it passes the   *)
(* filters, else the first of the list.                                      *)
PanelSession == StillOrFirst(selectedSession, ListedSessions)

OnList == openedSession = Nothing

(* The planner, agents and other operators change a session.                 *)
OthersMove(s) ==
    /\ \/ /\ sessionRow[s] = "planning"
          /\ \E to \in {"running", "failed"} : sessionRow' = [sessionRow EXCEPT ![s] = to]
       \/ /\ sessionRow[s] = "running"
          /\ \E to \in {"awaiting_approval", "completed"} :
                 sessionRow' = [sessionRow EXCEPT ![s] = to]
       \/ /\ sessionRow[s] = "awaiting_approval"
          /\ sessionRow' = [sessionRow EXCEPT ![s] = "running"]
       \/ \E action \in LifecycleActions :
              /\ sessionRow[s] \in AcceptedFrom(action)
              /\ sessionRow' = [sessionRow EXCEPT ![s] = LeadsTo(action)]
    /\ UNCHANGED <<listedSessions, listState, commandState, lifecycle>>

(* The list is fetched every 15 s and after a mutation; the effect of the    *)
(* page selects the first session if none was selected so far.               *)
FetchSessions ==
    /\ OnList /\ listedSessions # sessionRow
    /\ listedSessions' = sessionRow
    /\ selectedSession' = IF selectedSession = Nothing THEN FirstOf(Sessions) ELSE selectedSession
    /\ UNCHANGED <<sessionRow, activeTab, sessionsPage, foundSessions, commandState, lifecycle>>

(* Tabs and filters turn back to the first page, the search of the page      *)
(* header does not.                                                          *)
HandleTabChange(tab) ==
    /\ OnList /\ tab # activeTab
    /\ activeTab' = tab /\ sessionsPage' = 1
    /\ UNCHANGED <<sessionRow, listedSessions, selectedSession, foundSessions, commandState, lifecycle>>

HandleFilters(found) ==
    /\ OnList /\ found # foundSessions
    /\ foundSessions' = found /\ sessionsPage' = 1
    /\ UNCHANGED <<sessionRow, listedSessions, activeTab, selectedSession, commandState, lifecycle>>

HandleGlobalSearch(found) ==
    /\ OnList /\ found # foundSessions
    /\ foundSessions' = found
    /\ UNCHANGED <<sessionRow, listedSessions, activeTab, sessionsPage, selectedSession,
                   commandState, lifecycle>>

(* The buttons 1, 2, 3, previous and next keep to the last page.             *)
TurnPage(p) ==
    /\ OnList /\ p # sessionsPage
    /\ p \in 1..LastPage(FilteredSessions, SessionPageSize)
    /\ p <= 3 \/ p \in {sessionsPage - 1, sessionsPage + 1}
    /\ sessionsPage' = p
    /\ UNCHANGED <<sessionRow, listedSessions, activeTab, selectedSession, foundSessions,
                   commandState, lifecycle>>

HandleSelectSession(s) ==
    /\ OnList /\ s \in VisibleSessions \ {selectedSession}
    /\ selectedSession' = s
    /\ UNCHANGED <<sessionRow, listedSessions, activeTab, sessionsPage, foundSessions,
                   commandState, lifecycle>>

-----------------------------------------------------------------------------

Send(from, action, s, seen) ==
    lifecycle' = [phase |-> "sent", from |-> from, action |-> action,
                  session |-> s, seen |-> seen, met |-> seen]

(* A button of the panel; all are disabled while a mutation is pending.      *)
ClickLifecycle(action) ==
    /\ OnList /\ lifecycle = NoLifecycle
    /\ PanelSession # Nothing
    /\ NormalizeStatus(listedSessions[PanelSession]) \in OfferedFrom(action)
    /\ Send("list", action, PanelSession, listedSessions[PanelSession])
    /\ UNCHANGED <<sessionRow, listedSessions, listState, commandState>>

(* Pause and stop of the command center.                                     *)
ClickControl(action) ==
    /\ ~OnList /\ shownDetail # "absent" /\ lifecycle = NoLifecycle
    /\ Send("command", action, openedSession, shownDetail)
    /\ UNCHANGED <<sessionRow, listedSessions, listState, commandState>>

CommitLifecycle ==
    LET s == lifecycle.session
    IN /\ lifecycle.phase = "sent"
       /\ IF sessionRow[s] \in AcceptedFrom(lifecycle.action)
          THEN /\ sessionRow' = [sessionRow EXCEPT ![s] = LeadsTo(lifecycle.action)]
               /\ lifecycle' = [NoLifecycle EXCEPT !.phase = "done"]
          ELSE /\ lifecycle' = [lifecycle EXCEPT !.phase = "refused", !.met = sessionRow[s]]
               /\ UNCHANGED sessionRow
       /\ UNCHANGED <<listedSessions, listState, commandState>>

(* The answer, or its loss, ends the mutation. Success refetches the list,   *)
(* analytics, details and events, which the buttons do not wait for.         *)
LifecycleEnds ==
    /\ lifecycle # NoLifecycle
    /\ lifecycle' = NoLifecycle
    /\ UNCHANGED <<sessionRow, listedSessions, listState, commandState>>

(* Opening the command center unmounts the list, which forgets its tab, page *)
(* and filters. The detail is cached: the list fetches those of all its      *)
(* sessions. A request in flight goes on without its page, like one of       *)
(* another operator.                                                         *)
HandleOpenSession(s) ==
    /\ OnList /\ s \in VisibleSessions \cup ({selectedSession} \ {Nothing})
    /\ openedSession' = s /\ shownDetail' = listedSessions[s]
    /\ lifecycle' = NoLifecycle
    /\ activeTab' = "all" /\ sessionsPage' = 1 /\ foundSessions' = Sessions
    /\ selectedSession' = FirstOf(Sessions)
    /\ UNCHANGED <<sessionRow, listedSessions>>

(* The detail is fetched on mount, after a mutation and on reconnect.        *)
FetchDetail ==
    /\ ~OnList /\ shownDetail # sessionRow[openedSession]
    /\ shownDetail' = sessionRow[openedSession]
    /\ UNCHANGED <<sessionRow, listedSessions, listState, openedSession, lifecycle>>

(* Back to the list, which mounts with the rows that it had.                 *)
BackToSessions ==
    /\ ~OnList
    /\ openedSession' = Nothing /\ shownDetail' = "absent" /\ lifecycle' = NoLifecycle
    /\ UNCHANGED <<sessionRow, listedSessions, listState>>

SessionsNext ==
    \/ \E s \in Sessions : HandleSelectSession(s) \/ HandleOpenSession(s)
    \/ \E s \in BusySessions : OthersMove(s)
    \/ FetchSessions
    \/ \E tab \in TabsInPlay : HandleTabChange(tab)
    \/ \E found \in {Sessions, {FirstOf(Sessions)}} :
           HandleFilters(found) \/ HandleGlobalSearch(found)
    \/ \E p \in 1..Cardinality(Sessions) : TurnPage(p)
    \/ \E action \in LifecycleActions : ClickLifecycle(action)
    \/ \E action \in CommandActions : ClickControl(action)
    \/ CommitLifecycle \/ LifecycleEnds \/ FetchDetail \/ BackToSessions

SessionsSpec == SessionsInit /\ [][SessionsNext]_sessionsVars

-----------------------------------------------------------------------------

SessionsTypeOK ==
    /\ sessionRow \in [Sessions -> SessionStatuses]
    /\ listedSessions \in [Sessions -> SessionStatuses \cup {"absent"}]
    /\ activeTab \in TabsInPlay \cup {"all"} /\ sessionsPage \in Nat \ {0}
    /\ selectedSession \in Sessions \cup {Nothing} /\ foundSessions \subseteq Sessions
    /\ openedSession \in Sessions \cup {Nothing}
    /\ shownDetail \in SessionStatuses \cup {"absent"}
    /\ lifecycle \in [phase : {"none", "sent", "done", "refused"}, from : {"list", "command"},
           action : LifecycleActions, session : Sessions \cup {Nothing},
           seen : SessionStatuses, met : SessionStatuses]

(* A click in the panel is refused by the API only if the session was moved  *)
(* after the row was fetched: the conditions of the buttons and the guards   *)
(* of the API were written separately.                                       *)
ClicksAreAccepted ==
    lifecycle.phase = "refused" /\ lifecycle.from = "list" => lifecycle.met # lifecycle.seen

(* In the other direction, an operator who has an up-to-date row before them *)
(* gets to every transition that the API allows, in the panel or, for the    *)
(* stop of a session that awaits an approval, in the command center.         *)
TransitionsAreOffered ==
    \A s \in ListedSessions : \A action \in LifecycleActions :
        /\ listedSessions[s] = sessionRow[s]
        /\ sessionRow[s] \in AcceptedFrom(action)
        => listedSessions[s] \in OfferedFrom(action) \/ action \in CommandActions
=============================================================================
