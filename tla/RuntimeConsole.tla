--------------------------- MODULE RuntimeConsole ---------------------------
(* The runtime page: RuntimeToolCallsPage with its dialog, its table of tool *)
(* calls and the queries and mutations of useRuntimeToolCalls. The session   *)
(* is that of the URL or else one the page picks from the session list.      *)
EXTENDS WebLists

CONSTANTS
    ConsoleSessions,   \* numbered in the order of the session list
    Calls,             \* tool calls, numbered in the order of their lists
    SessionOfCall,
    CallStatusesInPlay \* the statuses of a tool call that runs explore

ToolStatusOrder == {"queued", "running", "succeeded", "failed", "timed_out", "cancelled", "denied"}
ActiveSessionStatuses == {"running", "planning", "paused", "awaiting_approval"}

ASSUME ConsoleAssumption ==
    /\ ConsoleSessions \subseteq Nat \ {0} /\ Calls \subseteq Nat \ {0}
    /\ IsFiniteSet(ConsoleSessions) /\ IsFiniteSet(Calls)
    /\ SessionOfCall \in [Calls -> ConsoleSessions]
    /\ "queued" \in CallStatusesInPlay

VARIABLES
    sessionStatus,     \* status of each session in the database
    shownStatus,       \* the session list last fetched
    requestedSession,  \* session_id of the URL
    call,              \* status of each tool call in the database
    shownCalls,        \* the tool calls last fetched
    activeFilter, selectedCall,
    dialog,            \* the command dialog, and the session it was opened for
    consoleAction      \* the mutation in flight

consoleVars == <<sessionStatus, shownStatus, requestedSession, call, shownCalls,
                 activeFilter, selectedCall, dialog, consoleAction>>
consoleServer == <<sessionStatus, call>>
consoleTable == <<shownCalls, activeFilter, selectedCall>>

NoDialog == [open |-> FALSE, session |-> Nothing]
NoConsoleAction == [kind |-> "none", session |-> Nothing, typedFor |-> Nothing, ownDialog |-> FALSE]
CallStates == CallStatusesInPlay \cup {"absent"}

(* A status of a tool call that the page does not know is shown as failed.   *)
NormalizeToolStatus(s) == IF s \in ToolStatusOrder THEN s ELSE "failed"

-----------------------------------------------------------------------------

(* The session of the page: that of the URL if it is listed, else the first  *)
(* active one, else the first.                                               *)
ResolveSession(requested, shown) ==
    LET listed == {s \in ConsoleSessions : shown[s] # "absent"}
        active == {s \in listed : shown[s] \in ActiveSessionStatuses}
    IN IF requested \in listed THEN requested
       ELSE IF active # {} THEN FirstOf(active) ELSE FirstOf(listed)

SelectedSession == ResolveSession(requestedSession, shownStatus)

CallsOf(s, shown) == {c \in Calls : SessionOfCall[c] = s /\ shown[c] # "absent"}

CallsForFilter(s, shown, f) ==
    {c \in CallsOf(s, shown) : f = "all" \/ NormalizeToolStatus(shown[c]) = f}

(* The filters that are offered: all, and each status that some call has.    *)
ToolCallFilters(s, shown) == {"all"} \cup {NormalizeToolStatus(shown[c]) : c \in CallsOf(s, shown)}

ConsoleInit ==
    /\ sessionStatus \in [ConsoleSessions -> {"draft", "running"}]
    /\ shownStatus = [s \in ConsoleSessions |-> "absent"]
    /\ requestedSession \in ConsoleSessions \cup {Nothing}
    /\ call = [c \in Calls |-> "absent"] /\ shownCalls = [c \in Calls |-> "absent"]
    /\ activeFilter = "all" /\ selectedCall = Nothing
    /\ dialog = NoDialog /\ consoleAction = NoConsoleAction

OfferedOrAll(f, filters) == IF f \in filters THEN f ELSE "all"

(* The two effects of the page: a filter that is no longer offered becomes   *)
(* "all", and a selection the table does not show becomes its first row.     *)
SettleTable(s, shown) ==
    LET f == OfferedOrAll(activeFilter, ToolCallFilters(s, shown))
    IN /\ activeFilter' = f
       /\ selectedCall' = StillOrFirst(selectedCall, CallsForFilter(s, shown, f))

(* Users, agents and executors change sessions and tool calls: a session is  *)
(* running or not, and a call that has not ended takes any other status. The *)
(* API allows fewer changes than these.                                      *)
SessionMoves(s) ==
    /\ sessionStatus' = [sessionStatus EXCEPT ![s] = IF @ = "running" THEN "draft" ELSE "running"]
    /\ UNCHANGED <<shownStatus, requestedSession, call, consoleTable, dialog, consoleAction>>

CallMoves(c, status) ==
    /\ status # call[c] /\ call[c] \notin {"succeeded", "cancelled"}
    /\ call' = [call EXCEPT ![c] = status]
    /\ UNCHANGED <<sessionStatus, shownStatus, requestedSession, consoleTable, dialog, consoleAction>>

(* The session list is fetched on mount, on reconnect and by the refresh     *)
(* button; it is not polled.                                                 *)
FetchConsoleSessions ==
    /\ shownStatus' = sessionStatus
    /\ SettleTable(ResolveSession(requestedSession, sessionStatus), shownCalls)
    /\ UNCHANGED <<consoleServer, requestedSession, shownCalls, dialog, consoleAction>>

(* The tool calls of the session are polled every 5 s.                       *)
FetchCalls ==
    LET shown == [c \in Calls |-> IF SessionOfCall[c] = SelectedSession
                                  THEN call[c] ELSE shownCalls[c]]
    IN /\ SelectedSession # Nothing
       /\ shownCalls' = shown
       /\ SettleTable(SelectedSession, shown)
       /\ UNCHANGED <<consoleServer, shownStatus, requestedSession, dialog, consoleAction>>

HandleFilterChange(f) ==
    /\ f \in ToolCallFilters(SelectedSession, shownCalls) \ {activeFilter}
    /\ activeFilter' = f
    /\ selectedCall' = FirstOf(CallsForFilter(SelectedSession, shownCalls, f))
    /\ UNCHANGED <<consoleServer, shownStatus, requestedSession, shownCalls, dialog, consoleAction>>

(* Closing the details clears the selection; the effect selects the first.   *)
SelectCall(c) ==
    /\ c \in CallsForFilter(SelectedSession, shownCalls, activeFilter)
    /\ selectedCall' = c
    /\ UNCHANGED <<consoleServer, shownStatus, requestedSession, shownCalls, activeFilter,
                   dialog, consoleAction>>

-----------------------------------------------------------------------------

Mutating == consoleAction # NoConsoleAction

(* Mutant: the dialog can be opened while a command is being sent.           *)
OpenDialogAlways ==
    /\ SelectedSession # Nothing /\ ~dialog.open
    /\ dialog' = [open |-> TRUE, session |-> SelectedSession]
    /\ UNCHANGED <<consoleServer, shownStatus, requestedSession, consoleTable, consoleAction>>

HandleRequestCommand ==
    /\ SelectedSession # Nothing /\ ~Mutating /\ ~dialog.open
    /\ dialog' = [open |-> TRUE, session |-> SelectedSession]
    /\ UNCHANGED <<consoleServer, shownStatus, requestedSession, consoleTable, consoleAction>>

CancelCommand ==
    /\ dialog.open
    /\ dialog' = NoDialog
    /\ consoleAction' = [consoleAction EXCEPT !.ownDialog = FALSE]
    /\ UNCHANGED <<consoleServer, shownStatus, requestedSession, consoleTable>>

(* A command that does not parse is refused by the dialog; another goes to   *)
(* the session that the page shows by then.                                  *)
HandleSubmitCommand ==
    /\ dialog.open /\ ~Mutating
    /\ consoleAction' = [kind |-> "command", session |-> SelectedSession,
                         typedFor |-> dialog.session, ownDialog |-> TRUE]
    /\ UNCHANGED <<consoleServer, shownStatus, requestedSession, consoleTable, dialog>>

(* Starting and stopping the runtime, which the dialog covers.               *)
ClickRuntime ==
    /\ SelectedSession # Nothing /\ ~Mutating /\ ~dialog.open
    /\ consoleAction' = [NoConsoleAction EXCEPT !.kind = "runtime", !.session = SelectedSession]
    /\ UNCHANGED <<consoleServer, shownStatus, requestedSession, consoleTable, dialog>>

(* The API queues the command as a tool call of the session, if it runs.     *)
CreateToolCall(c) ==
    /\ consoleAction.kind = "command" /\ call[c] = "absent"
    /\ SessionOfCall[c] = consoleAction.session
    /\ sessionStatus[consoleAction.session] = "running"
    /\ call' = [call EXCEPT ![c] = "queued"]
    /\ consoleAction' = [consoleAction EXCEPT !.kind = "created"]
    /\ UNCHANGED <<sessionStatus, shownStatus, requestedSession, consoleTable, dialog>>

(* onSuccess closes whichever dialog is open and invalidates the session.    *)
CommandSucceeds ==
    /\ consoleAction.kind = "created"
    /\ dialog' = NoDialog /\ consoleAction' = NoConsoleAction
    /\ UNCHANGED <<consoleServer, shownStatus, requestedSession, consoleTable>>

(* A refusal or a loss, or the answer about a runtime; the dialog stays.     *)
ConsoleActionEnds ==
    /\ Mutating
    /\ consoleAction' = NoConsoleAction
    /\ UNCHANGED <<consoleServer, shownStatus, requestedSession, consoleTable, dialog>>

ConsoleNext ==
    \/ \E s \in ConsoleSessions : SessionMoves(s)
    \/ \E c \in Calls : \/ \E status \in CallStatusesInPlay : CallMoves(c, status)
                        \/ SelectCall(c) \/ CreateToolCall(c)
    \/ FetchConsoleSessions \/ FetchCalls
    \/ \E f \in ToolStatusOrder \cup {"all"} : HandleFilterChange(f)
    \/ HandleRequestCommand \/ CancelCommand \/ HandleSubmitCommand \/ ClickRuntime
    \/ CommandSucceeds \/ ConsoleActionEnds

ConsoleSpec == ConsoleInit /\ [][ConsoleNext]_consoleVars

-----------------------------------------------------------------------------

ConsoleTypeOK ==
    /\ sessionStatus \in [ConsoleSessions -> {"draft", "running"}]
    /\ shownStatus \in [ConsoleSessions -> {"absent", "draft", "running"}]
    /\ requestedSession \in ConsoleSessions \cup {Nothing}
    /\ call \in [Calls -> CallStates] /\ shownCalls \in [Calls -> CallStates]
    /\ activeFilter \in ToolStatusOrder \cup {"all"}
    /\ selectedCall \in Calls \cup {Nothing}
    /\ dialog \in [open : BOOLEAN, session : ConsoleSessions \cup {Nothing}]
    /\ consoleAction \in [kind : {"none", "runtime", "command", "created"},
           session : ConsoleSessions \cup {Nothing},
           typedFor : ConsoleSessions \cup {Nothing}, ownDialog : BOOLEAN]

(* A session with tool calls never shows an empty table, and what the panel  *)
(* details is a row of the table, although every poll can take the last call *)
(* from under a filter.                                                      *)
TableIsNeverStranded ==
    LET rows == CallsForFilter(SelectedSession, shownCalls, activeFilter)
    IN /\ CallsOf(SelectedSession, shownCalls) # {} => rows # {}
       /\ selectedCall = FirstOf(rows) \/ selectedCall \in rows

(* The console of a session that the URL names stays with it: a command goes *)
(* to the session for which its dialog was opened, whatever other sessions   *)
(* do meanwhile. (Without a session in the URL it need not.)                 *)
CommandsStayInSession ==
    /\ requestedSession # Nothing
    /\ consoleAction.kind = "command"
    => consoleAction.session = consoleAction.typedFor

(* A late answer closes no dialog but the one its command was typed in.      *)
AnswersCloseTheirDialog ==
    consoleAction.kind \in {"command", "created"} /\ dialog.open => consoleAction.ownDialog

(* The console never mixes sessions up: tables, commands and dialogs.        *)
ConsoleStaysInSession ==
    TableIsNeverStranded /\ CommandsStayInSession /\ AnswersCloseTheirDialog
=============================================================================
