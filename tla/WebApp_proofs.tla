---------------------------- MODULE WebApp_proofs ----------------------------
(* Proofs about the runtime page, the assessment setup, the search of the    *)
(* memory page, the outline of the reports page, the list of sessions and    *)
(* the users page, and about the application that all the pages make up: to  *)
(* its operator each page is as if it were alone, so that what is proved of  *)
(* a page, here or in the modules extended, holds in the application.        *)
EXTENDS WebApp, WebForms_proofs, WebNumbers_proofs

(* What the table of the console shows of a session: a row if it has any     *)
(* call, and a selection that is one of the rows.                            *)
TableHolds(s, shown, f, c) ==
    LET rows == CallsForFilter(s, shown, f)
    IN (CallsOf(s, shown) # {} => rows # {}) /\ (c = FirstOf(rows) \/ c \in rows)

(* With a session in the URL, a dialog is opened only once the session list  *)
(* was fetched, which then lists that session for good.                      *)
DialogIsOfRequested ==
    dialog.open /\ requestedSession # Nothing =>
        /\ dialog.session = requestedSession
        /\ shownStatus[requestedSession] # "absent"

ListedTogether ==
    \A s, q \in ConsoleSessions : shownStatus[s] # "absent" => shownStatus[q] # "absent"

ConsoleInv ==
    ConsoleTypeOK /\ ConsoleStaysInSession /\ DialogIsOfRequested /\ ListedTogether

LEMMA SessionIsListed ==
    ASSUME NEW requested \in ConsoleSessions \cup {Nothing},
           NEW shown \in [ConsoleSessions -> {"absent", "draft", "running"}]
    PROVE  /\ ResolveSession(requested, shown) \in ConsoleSessions \cup {Nothing}
           /\ ResolveSession(requested, shown) # Nothing =>
                  \E s \in ConsoleSessions : shown[s] # "absent"
           /\ requested # Nothing /\ shown[requested] # "absent" =>
                  ResolveSession(requested, shown) = requested
<1> DEFINE listed == {s \in ConsoleSessions : shown[s] # "absent"}
           active == {s \in listed : shown[s] \in ActiveSessionStatuses}
<1>1. listed \subseteq Nat \ {0} /\ active \subseteq Nat \ {0} /\ active \subseteq listed
    BY ConsoleAssumption
<1>2. /\ active # {} => FirstOf(active) \in active
      /\ listed = {} => FirstOf(listed) = Nothing
      /\ listed # {} => FirstOf(listed) \in listed
    BY <1>1, FirstOfIsListed
<1>3. Nothing \notin ConsoleSessions
    BY ConsoleAssumption DEF Nothing
<1>4. ResolveSession(requested, shown) =
          IF requested \in listed THEN requested
          ELSE IF active # {} THEN FirstOf(active) ELSE FirstOf(listed)
    BY DEF ResolveSession
<1> QED
    BY <1>1, <1>2, <1>3, <1>4

(* The two effects of the page leave the table as it must be.                *)
LEMMA TableSettles ==
    ASSUME NEW s, NEW shown \in [Calls -> CallStates], SettleTable(s, shown)
    PROVE  /\ activeFilter' \in ToolStatusOrder \cup {"all"}
           /\ selectedCall' \in Calls \cup {Nothing}
           /\ TableHolds(s, shown, activeFilter', selectedCall')
<1> DEFINE filters == ToolCallFilters(s, shown)
           f == OfferedOrAll(activeFilter, filters)
           rows == CallsForFilter(s, shown, f)
<1>1. f \in filters /\ "all" \in filters /\ filters \subseteq ToolStatusOrder \cup {"all"}
    BY DEF OfferedOrAll, ToolCallFilters, NormalizeToolStatus, ToolStatusOrder
<1>2. rows \subseteq Calls /\ rows \subseteq Nat
    BY ConsoleAssumption DEF CallsForFilter, CallsOf
<1>3. CallsOf(s, shown) # {} => rows # {}
    <2>1. CASE f = "all"
        BY <2>1 DEF CallsForFilter
    <2>2. CASE f # "all"
        <3>1. PICK c \in CallsOf(s, shown) : f = NormalizeToolStatus(shown[c])
            BY <1>1, <2>2 DEF ToolCallFilters
        <3> QED
            BY <3>1 DEF CallsForFilter
    <2> QED
        BY <2>1, <2>2
<1>4. activeFilter' = f /\ selectedCall' = StillOrFirst(selectedCall, rows)
    BY DEF SettleTable
<1>5. selectedCall' = FirstOf(rows) \/ selectedCall' \in rows
    BY <1>4 DEF StillOrFirst
<1>6. selectedCall' \in rows \cup {Nothing}
    BY <1>2, <1>4, StillOrFirstIsListed
<1> QED
    BY <1>1, <1>2, <1>3, <1>4, <1>5, <1>6 DEF TableHolds

LEMMA ConsoleStep == ConsoleInv /\ [ConsoleNext]_consoleVars => ConsoleInv'
<1> SUFFICES ASSUME ConsoleInv, [ConsoleNext]_consoleVars PROVE ConsoleInv'
    OBVIOUS
<1> DEFINE Table == TableHolds(SelectedSession, shownCalls, activeFilter, selectedCall)
<1>0. ConsoleTypeOK /\ Table /\ CommandsStayInSession /\ AnswersCloseTheirDialog
      /\ DialogIsOfRequested /\ ListedTogether
    BY DEF ConsoleInv, ConsoleStaysInSession, TableIsNeverStranded, TableHolds
<1>t. TableIsNeverStranded' <=> Table'
    BY DEF TableIsNeverStranded, TableHolds
<1>s. /\ SelectedSession \in ConsoleSessions \cup {Nothing}
      /\ SelectedSession # Nothing => \E s \in ConsoleSessions : shownStatus[s] # "absent"
      /\ requestedSession # Nothing /\ shownStatus[requestedSession] # "absent" =>
             SelectedSession = requestedSession
    BY <1>0, SessionIsListed DEF SelectedSession, ConsoleTypeOK
<1>r. SelectedSession # Nothing /\ requestedSession # Nothing =>
          /\ SelectedSession = requestedSession
          /\ shownStatus[requestedSession] # "absent"
    BY <1>0, <1>s DEF ListedTogether, ConsoleTypeOK
<1>n. Nothing \notin Calls /\ Nothing \notin ConsoleSessions
    BY ConsoleAssumption DEF Nothing
<1>k. ASSUME UNCHANGED <<shownStatus, requestedSession, consoleTable>> PROVE Table'
    BY <1>0, <1>k DEF SelectedSession, consoleTable
<1> HIDE DEF Table
<1> USE DEF ConsoleInv, ConsoleStaysInSession
<1>1. ASSUME NEW s \in ConsoleSessions, SessionMoves(s) PROVE ConsoleInv'
    BY <1>0, <1>1, <1>k, <1>t
    DEF SessionMoves, ConsoleTypeOK, CommandsStayInSession, AnswersCloseTheirDialog,
        DialogIsOfRequested, ListedTogether, consoleTable
<1>2. ASSUME NEW c \in Calls, NEW status \in CallStatusesInPlay, CallMoves(c, status)
      PROVE ConsoleInv'
    BY <1>0, <1>2, <1>k, <1>t
    DEF CallMoves, ConsoleTypeOK, CommandsStayInSession, AnswersCloseTheirDialog,
        DialogIsOfRequested, ListedTogether, consoleTable, CallStates
<1>3. ASSUME NEW c \in Calls, SelectCall(c) PROVE ConsoleInv'
    <2>1. Table'
        BY <1>0, <1>3 DEF SelectCall, Table, TableHolds, SelectedSession
    <2> QED
        BY <1>0, <1>3, <1>t, <2>1
        DEF SelectCall, ConsoleTypeOK, CommandsStayInSession, AnswersCloseTheirDialog,
            DialogIsOfRequested, ListedTogether, consoleServer
<1>4. ASSUME NEW c \in Calls, CreateToolCall(c) PROVE ConsoleInv'
    <2>1. call' \in [Calls -> CallStates]
        BY <1>0, <1>4, ConsoleAssumption DEF CreateToolCall, ConsoleTypeOK, CallStates
    <2> QED
        BY <1>0, <1>4, <1>k, <1>t, <2>1
        DEF CreateToolCall, ConsoleTypeOK, CommandsStayInSession, AnswersCloseTheirDialog,
            DialogIsOfRequested, ListedTogether, consoleTable
<1>5. CASE FetchConsoleSessions
    <2>1. /\ shownStatus' = sessionStatus
          /\ SettleTable(ResolveSession(requestedSession, sessionStatus), shownCalls)
          /\ UNCHANGED <<consoleServer, requestedSession, shownCalls, dialog, consoleAction>>
        BY <1>5 DEF FetchConsoleSessions
    <2>2. SelectedSession' = ResolveSession(requestedSession, sessionStatus)
        BY <2>1 DEF SelectedSession
    <2>3. /\ activeFilter' \in ToolStatusOrder \cup {"all"}
          /\ selectedCall' \in Calls \cup {Nothing}
          /\ TableHolds(SelectedSession', shownCalls, activeFilter', selectedCall')
        BY <1>0, <2>1, <2>2, TableSettles DEF ConsoleTypeOK
    <2>4. Table'
        BY <2>1, <2>3 DEF Table
    <2>5. \A s \in ConsoleSessions : sessionStatus[s] \in {"draft", "running"}
        BY <1>0 DEF ConsoleTypeOK
    <2> QED
        BY <1>0, <1>t, <2>1, <2>3, <2>4, <2>5
        DEF ConsoleTypeOK, CommandsStayInSession, AnswersCloseTheirDialog,
            DialogIsOfRequested, ListedTogether, consoleServer
<1>6. CASE FetchCalls
    <2> DEFINE shown == [c \in Calls |-> IF SessionOfCall[c] = SelectedSession
                                         THEN call[c] ELSE shownCalls[c]]
    <2>1. /\ shownCalls' = shown /\ SettleTable(SelectedSession, shown)
          /\ UNCHANGED <<consoleServer, shownStatus, requestedSession, dialog, consoleAction>>
        BY <1>6 DEF FetchCalls
    <2>2. shown \in [Calls -> CallStates]
        BY <1>0 DEF ConsoleTypeOK
    <2>3. /\ activeFilter' \in ToolStatusOrder \cup {"all"}
          /\ selectedCall' \in Calls \cup {Nothing}
          /\ TableHolds(SelectedSession, shown, activeFilter', selectedCall')
        BY <2>1, <2>2, TableSettles
    <2> HIDE DEF shown
    <2>4. SelectedSession' = SelectedSession
        BY <2>1 DEF SelectedSession
    <2>5. Table'
        BY <2>1, <2>3, <2>4 DEF Table
    <2> QED
        BY <1>0, <1>t, <2>1, <2>2, <2>3, <2>5
        DEF ConsoleTypeOK, CommandsStayInSession, AnswersCloseTheirDialog,
            DialogIsOfRequested, ListedTogether, consoleServer
<1>7. ASSUME NEW f \in ToolStatusOrder \cup {"all"}, HandleFilterChange(f) PROVE ConsoleInv'
    <2> DEFINE rows == CallsForFilter(SelectedSession, shownCalls, f)
    <2>1. CallsOf(SelectedSession, shownCalls) # {} => rows # {}
        BY <1>7 DEF HandleFilterChange, ToolCallFilters, CallsForFilter
    <2>2. rows \subseteq Calls /\ rows \subseteq Nat
        BY ConsoleAssumption DEF CallsForFilter, CallsOf
    <2>3. FirstOf(rows) \in Calls \cup {Nothing}
        BY <2>2, FirstOfIsListed
    <2>4. activeFilter' = f /\ selectedCall' = FirstOf(rows)
          /\ UNCHANGED <<consoleServer, shownStatus, requestedSession, shownCalls, dialog,
                         consoleAction>>
        BY <1>7 DEF HandleFilterChange
    <2>5. Table'
        BY <2>1, <2>4 DEF Table, TableHolds, SelectedSession
    <2> QED
        BY <1>0, <1>t, <2>3, <2>4, <2>5
        DEF ConsoleTypeOK, CommandsStayInSession, AnswersCloseTheirDialog,
            DialogIsOfRequested, ListedTogether, consoleServer
<1>8. CASE HandleRequestCommand
    BY <1>0, <1>8, <1>k, <1>t, <1>s, <1>r
    DEF HandleRequestCommand, ConsoleTypeOK, CommandsStayInSession, AnswersCloseTheirDialog,
        DialogIsOfRequested, ListedTogether, consoleTable, consoleServer, Mutating, NoConsoleAction
<1>9. CASE CancelCommand
    BY <1>0, <1>9, <1>k, <1>t
    DEF CancelCommand, ConsoleTypeOK, CommandsStayInSession, AnswersCloseTheirDialog,
        DialogIsOfRequested, ListedTogether, consoleTable, consoleServer, NoDialog
<1>10. CASE HandleSubmitCommand
    BY <1>0, <1>10, <1>k, <1>t, <1>s
    DEF HandleSubmitCommand, ConsoleTypeOK, CommandsStayInSession, AnswersCloseTheirDialog,
        DialogIsOfRequested, ListedTogether, consoleTable, consoleServer
<1>11. CASE ClickRuntime
    BY <1>0, <1>11, <1>k, <1>t, <1>s
    DEF ClickRuntime, ConsoleTypeOK, CommandsStayInSession, AnswersCloseTheirDialog,
        DialogIsOfRequested, ListedTogether, consoleTable, consoleServer, NoConsoleAction
<1>12. CASE CommandSucceeds \/ ConsoleActionEnds
    <2>1. /\ consoleAction' = NoConsoleAction /\ dialog' \in {dialog, NoDialog}
          /\ UNCHANGED <<consoleServer, shownStatus, requestedSession, consoleTable>>
        BY <1>12 DEF CommandSucceeds, ConsoleActionEnds
    <2>2. dialog'.open => dialog' = dialog
        BY <2>1 DEF NoDialog
    <2>3. ConsoleTypeOK'
        <3> DEFINE Dialogs == [open : BOOLEAN, session : ConsoleSessions \cup {Nothing}]
                   Sent == [kind : {"none", "runtime", "command", "created"},
                            session : ConsoleSessions \cup {Nothing},
                            typedFor : ConsoleSessions \cup {Nothing}, ownDialog : BOOLEAN]
        <3>1. NoDialog \in Dialogs /\ NoConsoleAction \in Sent
            BY DEF NoDialog, NoConsoleAction
        <3>2. dialog' \in Dialogs /\ consoleAction' \in Sent
            BY <1>0, <2>1, <3>1 DEF ConsoleTypeOK
        <3> HIDE DEF Dialogs, Sent
        <3> QED
            BY <1>0, <2>1, <3>2 DEF ConsoleTypeOK, consoleTable, consoleServer, Dialogs, Sent
    <2>4. TableIsNeverStranded'
        BY <1>k, <1>t, <2>1
    <2> QED
        BY <1>0, <2>1, <2>2, <2>3, <2>4
        DEF CommandsStayInSession, AnswersCloseTheirDialog, DialogIsOfRequested,
            ListedTogether, NoConsoleAction
<1>13. CASE UNCHANGED consoleVars
    BY <1>0, <1>13, <1>k, <1>t
    DEF consoleVars, ConsoleTypeOK, CommandsStayInSession,
        AnswersCloseTheirDialog, DialogIsOfRequested, ListedTogether, consoleTable
<1> QED
    BY <1>1, <1>2, <1>3, <1>4, <1>5, <1>6, <1>7, <1>8, <1>9, <1>10, <1>11, <1>12, <1>13
    DEF ConsoleNext

LEMMA ConsoleStarts == ConsoleInit => ConsoleInv
<1> SUFFICES ASSUME ConsoleInit PROVE ConsoleInv
    OBVIOUS
<1>1. ConsoleTypeOK
    BY DEF ConsoleInit, ConsoleTypeOK, NoDialog, NoConsoleAction, CallStates
<1>2. TableIsNeverStranded
    <2>1. \A s : CallsOf(s, shownCalls) = {} /\ CallsForFilter(s, shownCalls, activeFilter) = {}
        BY DEF ConsoleInit, CallsOf, CallsForFilter
    <2> QED
        BY <2>1 DEF ConsoleInit, TableIsNeverStranded, FirstOf
<1> QED
    BY <1>1, <1>2 DEF ConsoleInit, ConsoleInv, ConsoleStaysInSession, CommandsStayInSession,
        AnswersCloseTheirDialog, DialogIsOfRequested, ListedTogether, NoDialog, NoConsoleAction

(* The console never mixes sessions up: its table shows a call if the        *)
(* session has one, a command goes to the session its dialog was opened for, *)
(* and a late answer closes no other dialog.                                 *)
THEOREM ConsoleKeepsToSession == ConsoleSpec => []ConsoleStaysInSession
    BY ConsoleStarts, ConsoleStep, PTL DEF ConsoleSpec, ConsoleInv

-----------------------------------------------------------------------------

(* What was saved has a target, and from the scope on, the project has what  *)
(* was excluded when it was saved.                                           *)
FlowIsOfItsRows ==
    /\ flow.phase # "none" => InState(flow.row, "In scope") # {}
    /\ flow.phase \in {"targets", "done"} => project.excluded = InState(flow.row, "Excluded")

SetupInv == SetupTypeOK /\ FlowIsOfItsRows /\ SessionsAreComplete /\ ChosenUnlessGone

Flows == [phase : {"none", "listing", "project", "scope", "targets", "done"},
          row : [TargetRows -> RowStates], chosen : Choice, listed : OptionTable]
Projects == [state : {"absent", "created", "scoped", "session"}, used : Choice,
             excluded : SUBSET TargetRows, targets : SUBSET TargetRows]

LEMMA DefaultsAreOptions ==
    ASSUME NEW choice \in Choice, NEW table
    PROVE  /\ WithDefaults(choice, table) \in Choice
           /\ \A list : ActiveFirst(list) \in AnyOption \cup {Nothing}
<1>1. AnyOption \subseteq Nat \ {0}
    BY SetupAssumption DEF AnyOption, Kinds
<1>2. ASSUME NEW list PROVE ActiveFirst(list) \in AnyOption \cup {Nothing}
    <2> DEFINE active == {o \in AnyOption : list[o] = "active"}
    <2>1. active \subseteq Nat /\ active \subseteq AnyOption
          /\ ListedOptions(list) \subseteq Nat /\ ListedOptions(list) \subseteq AnyOption
        BY <1>1 DEF ListedOptions
    <2>2. /\ active # {} => FirstOf(active) \in active
          /\ ListedOptions(list) # {} => FirstOf(ListedOptions(list)) \in ListedOptions(list)
          /\ ListedOptions(list) = {} => FirstOf(ListedOptions(list)) = Nothing
        BY <2>1, FirstOfIsListed
    <2> QED
        BY <2>1, <2>2 DEF ActiveFirst
<1>3. \A k \in Kinds : choice[k] \in AnyOption \cup {Nothing}
    BY DEF Choice
<1> QED
    BY <1>2, <1>3 DEF WithDefaults, Choice

LEMMA BlanksAreTyped ==
    NoFlow \in Flows /\ NoProject \in Projects /\ NoChoice \in Choice
    /\ EmptyList \in [AnyOption -> OptionStatuses]
    BY SetupAssumption
    DEF NoFlow, NoProject, Flows, Projects, NoChoice, Choice, RowStates, OptionTable, EmptyList

(* A step of the form leaves the flow and its project alone.                 *)
LEMMA FormStep ==
    ASSUME SetupInv, UNCHANGED <<flow, project>>,
           option' \in OptionTable, shownOption' \in OptionTable, chosen' \in Choice,
           named' \in BOOLEAN, row' \in [TargetRows -> RowStates],
           \E t \in TargetRows : row'[t] # "none"
    PROVE  SetupInv'
    BY DEF SetupInv, SetupTypeOK, FlowIsOfItsRows, SessionsAreComplete, ChosenUnlessGone

(* A step of the flow leaves the form alone.                                 *)
LEMMA FlowStep ==
    ASSUME SetupInv, UNCHANGED <<option, shownOption, chosen, named, row>>,
           flow' \in Flows, project' \in Projects,
           FlowIsOfItsRows', SessionsAreComplete', ChosenUnlessGone'
    PROVE  SetupInv'
    BY DEF SetupInv, SetupTypeOK, Flows, Projects

LEMMA SetupStep == SetupInv /\ [SetupNext]_setupVars => SetupInv'
<1> SUFFICES ASSUME SetupInv, [SetupNext]_setupVars PROVE SetupInv'
    OBVIOUS
<1>0. /\ option \in OptionTable /\ shownOption \in OptionTable /\ chosen \in Choice
      /\ named \in BOOLEAN /\ row \in [TargetRows -> RowStates]
      /\ \E t \in TargetRows : row[t] # "none"
      /\ flow \in Flows /\ project \in Projects
      /\ FlowIsOfItsRows /\ SessionsAreComplete /\ ChosenUnlessGone
    BY DEF SetupInv, SetupTypeOK, Flows, Projects
<1>1. ASSUME NEW k \in Kinds, NEW o \in AnyOption, NEW s \in OptionStatuses,
             OthersChangeOption(k, o, s)
      PROVE  SetupInv'
    <2>1. option' \in OptionTable
        BY <1>0, <1>1 DEF OthersChangeOption, OptionTable
    <2> QED
        BY <1>0, <1>1, <2>1, FormStep DEF OthersChangeOption, setupForm
<1>2. ASSUME NEW k \in Kinds, NEW o \in AnyOption \cup {Nothing}, ChooseOption(k, o)
      PROVE  SetupInv'
    <2>1. [chosen EXCEPT ![k] = o] \in Choice
        BY <1>0 DEF Choice
    <2>2. chosen' \in Choice
        BY <1>2, <2>1, DefaultsAreOptions DEF ChooseOption
    <2> QED
        BY <1>0, <1>2, <2>2, FormStep DEF ChooseOption
<1>3. CASE FetchOptions
    <2>1. chosen' \in Choice
        BY <1>0, <1>3, DefaultsAreOptions DEF FetchOptions
    <2> QED
        BY <1>0, <1>3, <2>1, FormStep DEF FetchOptions
<1>4. CASE NameProject
    BY <1>0, <1>4, FormStep DEF NameProject
<1>5. ASSUME NEW t \in TargetRows, HandleAddTarget(t) PROVE SetupInv'
    <2>1. row' \in [TargetRows -> RowStates] /\ row'[t] # "none"
        BY <1>0, <1>5 DEF HandleAddTarget, RowStates
    <2> QED
        BY <1>0, <1>5, <2>1, FormStep DEF HandleAddTarget
<1>6. ASSUME NEW t \in TargetRows, HandleRemoveTarget(t) PROVE SetupInv'
    <2>1. row' = RowsWithout(t) /\ row[t] # "none"
          /\ UNCHANGED <<option, shownOption, chosen, named, flow, project>>
        BY <1>6 DEF HandleRemoveTarget
    <2>2. row' \in [TargetRows -> RowStates]
        BY <1>0, <2>1 DEF RowsWithout, RowStates
    <2>3. \E q \in TargetRows : row'[q] # "none"
        <3>1. CASE InState(row, "none") = TargetRows \ {t}
            BY <1>0, <2>1, <3>1 DEF RowsWithout
        <3>2. CASE InState(row, "none") # TargetRows \ {t}
            <4>1. PICK q \in TargetRows \ {t} : row[q] # "none"
                BY <2>1, <3>2 DEF InState
            <4>2. row'[q] = row[q]
                BY <1>0, <2>1, <4>1 DEF RowsWithout
            <4> QED
                BY <4>1, <4>2
        <3> QED
            BY <3>1, <3>2
    <2> QED
        BY <1>0, <2>1, <2>2, <2>3, FormStep
<1>7. ASSUME NEW t \in TargetRows, NEW s \in RowStates, HandleUpdateTarget(t, s) PROVE SetupInv'
    <2>1. row' \in [TargetRows -> RowStates] /\ row'[t] # "none"
        BY <1>0, <1>7 DEF HandleUpdateTarget
    <2> QED
        BY <1>0, <1>7, <2>1, FormStep DEF HandleUpdateTarget
<1>8. CASE HandleSaveContinue
    <2>1. flow' \in Flows /\ flow'.phase = "listing" /\ flow'.row = row
        BY <1>0, <1>8, BlanksAreTyped DEF HandleSaveContinue, Flows, NoFlow
    <2>2. InState(row, "In scope") # {}
        BY <1>8 DEF HandleSaveContinue, CanSave
    <2> QED
        BY <1>0, <1>8, <2>1, <2>2, FlowStep
        DEF HandleSaveContinue, setupForm, FlowIsOfItsRows, SessionsAreComplete, ChosenUnlessGone
<1>9. ASSUME NEW failed \in SUBSET Kinds, ListChoices(failed) PROVE SetupInv'
    <2> DEFINE lists == [k \in Kinds |-> IF k \in failed THEN EmptyList ELSE option[k]]
    <2>1. lists \in OptionTable
        BY <1>0, BlanksAreTyped DEF OptionTable
    <2>2. flow' = [flow EXCEPT !.phase = "project", !.listed = lists] /\ flow.phase = "listing"
        BY <1>9 DEF ListChoices
    <2> HIDE DEF lists
    <2>3. flow' \in Flows /\ flow'.phase = "project" /\ flow'.row = flow.row
        BY <1>0, <2>1, <2>2 DEF Flows
    <2> QED
        BY <1>0, <1>9, <2>2, <2>3, FlowStep
        DEF ListChoices, setupForm, FlowIsOfItsRows, SessionsAreComplete, ChosenUnlessGone
<1>10. CASE CreateProject
    <2>1. /\ flow' \in Flows /\ flow'.phase = "scope" /\ flow'.row = flow.row
          /\ project' \in Projects
        BY <1>0, <1>10, BlanksAreTyped DEF CreateProject, Flows, Projects
    <2> QED
        BY <1>0, <1>10, <2>1, FlowStep
        DEF CreateProject, setupForm, FlowIsOfItsRows, SessionsAreComplete, ChosenUnlessGone
<1>11. CASE CreateScope
    <2>1. /\ flow' \in Flows /\ flow'.phase = "targets" /\ flow'.row = flow.row
          /\ project' \in Projects /\ project'.excluded = InState(flow.row, "Excluded")
        <3>1. InState(flow.row, "Excluded") \in SUBSET TargetRows
            BY DEF InState
        <3> QED
            BY <1>0, <1>11, <3>1 DEF CreateScope, Flows, Projects
    <2> QED
        BY <1>0, <1>11, <2>1, FlowStep
        DEF CreateScope, setupForm, FlowIsOfItsRows, SessionsAreComplete, ChosenUnlessGone
<1>12. ASSUME NEW t \in TargetRows, CreateTarget(t) PROVE SetupInv'
    <2>1. project' \in Projects /\ project'.excluded = project.excluded
        BY <1>0, <1>12 DEF CreateTarget, Projects
    <2> QED
        BY <1>0, <1>12, <2>1, FlowStep
        DEF CreateTarget, setupForm, FlowIsOfItsRows, SessionsAreComplete, ChosenUnlessGone
<1>13. CASE CreateSession
    <2> DEFINE used == [k \in Kinds |-> Used(k, flow.listed[k])]
    <2>1. flow.phase = "targets" /\ project.targets = InState(flow.row, "In scope")
          /\ project' = [project EXCEPT !.state = "session", !.used = used]
          /\ flow' = [flow EXCEPT !.phase = "done"]
        BY <1>13 DEF CreateSession, TargetsCreated
    <2>2. used \in Choice
        BY <1>0, DefaultsAreOptions DEF Used, Choice, Flows
    <2>3. \A k \in Kinds : \/ used[k] = flow.chosen[k]
                           \/ flow.chosen[k] \notin ListedOptions(flow.listed[k])
        BY DEF Used
    <2> HIDE DEF used
    <2>4. /\ flow' \in Flows /\ flow'.row = flow.row /\ flow'.chosen = flow.chosen
          /\ flow'.listed = flow.listed /\ flow'.phase = "done"
          /\ project' \in Projects /\ project'.used = used
          /\ project'.targets = project.targets /\ project'.excluded = project.excluded
        BY <1>0, <2>1, <2>2 DEF Flows, Projects
    <2>5. FlowIsOfItsRows' /\ SessionsAreComplete'
        BY <1>0, <2>1, <2>4 DEF FlowIsOfItsRows, SessionsAreComplete
    <2>6. ChosenUnlessGone'
        BY <2>3, <2>4 DEF ChosenUnlessGone
    <2> QED
        BY <1>13, <2>4, <2>5, <2>6, FlowStep DEF CreateSession, setupForm
<1>14. CASE FlowFails
    <2>1. flow'.phase = "none"
        BY <1>14 DEF FlowFails, NoFlow
    <2> QED
        BY <1>0, <1>14, <2>1, BlanksAreTyped, FlowStep
        DEF FlowFails, setupForm, FlowIsOfItsRows, SessionsAreComplete, ChosenUnlessGone
<1>15. CASE FlowSucceeds
    <2>1. chosen' \in Choice
        BY <1>15, BlanksAreTyped, DefaultsAreOptions DEF FlowSucceeds
    <2>2. row' \in [TargetRows -> RowStates] /\ \E t \in TargetRows : row'[t] # "none"
        BY <1>15 DEF FlowSucceeds, RowStates
    <2>3. flow'.phase = "none" /\ flow' \in Flows /\ project' \in Projects
        BY <1>15, BlanksAreTyped DEF FlowSucceeds, NoFlow
    <2> QED
        BY <1>0, <1>15, <2>1, <2>2, <2>3
        DEF FlowSucceeds, SetupInv, SetupTypeOK, Flows, Projects, FlowIsOfItsRows,
            SessionsAreComplete, ChosenUnlessGone
<1>16. CASE UNCHANGED setupVars
    BY <1>0, <1>16, FormStep DEF setupVars
<1> QED
    BY <1>1, <1>2, <1>3, <1>4, <1>5, <1>6, <1>7, <1>8, <1>9, <1>10, <1>11, <1>12, <1>13, <1>14,
       <1>15, <1>16
    DEF SetupNext

LEMMA SetupStarts == SetupInit => SetupInv
<1> SUFFICES ASSUME SetupInit PROVE SetupInv
    OBVIOUS
<1>1. option \in OptionTable /\ shownOption \in OptionTable
    BY BlanksAreTyped DEF SetupInit, OptionTable
<1>2. row \in [TargetRows -> RowStates] /\ row # [t \in TargetRows |-> "none"]
    BY DEF SetupInit, RowStates
<1>3. flow.phase = "none"
    BY DEF SetupInit, NoFlow
<1> QED
    BY <1>1, <1>2, <1>3, BlanksAreTyped
    DEF SetupInit, SetupInv, SetupTypeOK, Flows, Projects, FlowIsOfItsRows, SessionsAreComplete,
        ChosenUnlessGone

(* The checklist is right whatever was chosen, as an option is never nothing.*)
LEMMA ChecklistIsRight == SetupTypeOK => ChecklistTells
<1>1. Nothing \notin AnyOption
    BY SetupAssumption DEF AnyOption, Kinds, Nothing
<1>2. ASSUME CompleteItems = ChecklistItems PROVE CanSave
    <2>1. "Project name is set" \in CompleteItems /\ "At least one in-scope target" \in CompleteItems
          /\ Kinds \subseteq CompleteItems
        BY <1>2 DEF ChecklistItems
    <2>2. named /\ InState(row, "In scope") # {}
        BY <2>1 DEF CompleteItems, Kinds
    <2>3. \A k \in Kinds : chosen[k] \in ListedOptions(shownOption[k])
        BY <2>1 DEF CompleteItems, Kinds
    <2> QED
        BY <1>1, <2>2, <2>3 DEF CanSave, ListedOptions
<1>3. CanSave => ChecklistItems \ CompleteItems \subseteq Kinds
    BY DEF CanSave, CompleteItems, ChecklistItems
<1> QED
    BY <1>2, <1>3 DEF ChecklistTells

(* A session is created for a project that has the targets and exclusions    *)
(* saved with it, under the chosen provider and policy unless these were     *)
(* gone, and the checklist beside the button tells when it can be saved.     *)
THEOREM SessionsComeAsChosen == SetupSpec => []SessionsAreAsChosen
<1>1. SetupInv => SessionsAreAsChosen
    BY ChecklistIsRight DEF SetupInv, SessionsAreAsChosen
<1> QED
    BY <1>1, SetupStarts, SetupStep, PTL DEF SetupSpec

-----------------------------------------------------------------------------

(* Rows that answer a search: of its visibility and within its limit.        *)
Fit(fields, rows) ==
    /\ rows \subseteq FoundMemories
    /\ \A m \in rows : VisibilityOf[m] \in VisibilityFilter(fields.visibility)
    /\ Cardinality(rows) <= fields.limit

CachedAnswers ==
    [known : BOOLEAN, rows : SUBSET FoundMemories, fetch : {"idle", "asked", "read"},
     asks : Searches \cup {Nothing}, read : SUBSET FoundMemories,
     failed : BOOLEAN, overlapped : BOOLEAN]

(* What is cached for a search, and what was read for it, answers it.        *)
AnswerFits(s, a) ==
    /\ a \in CachedAnswers
    /\ a.fetch # "idle" => a.asks = s
    /\ a.fetch # "read" => a.read = {}
    /\ ~a.known => a.rows = {}
    /\ Fit(s, a.rows) /\ Fit(s, a.read)

(* An answer under way that has a memory rejected meanwhile is marked, and   *)
(* rows that are shown with one are marked, failed, or about to be replaced. *)
OverlapIsMarked(a, gone) == a.read \cap gone # {} => a.overlapped
GoneIsTold(a, gone) == a.rows \cap gone # {} => a.fetch # "idle" \/ a.failed \/ a.overlapped

AnswerHolds(s, a, shown, gone) ==
    /\ s.query # "" /\ AnswerFits(s, a) /\ OverlapIsMarked(a, gone)
    /\ s = shown => GoneIsTold(a, gone)

SearchInv ==
    /\ SearchTypeOK
    /\ rejectedHere \cap findable = {}
    /\ \A s \in DOMAIN answers : withProvider /\ AnswerHolds(s, answers[s], search, rejectedHere)

LEMMA NoRowsFit == \A s \in Searches : Fit(s, {}) /\ AnswerFits(s, NoAnswer)
<1>1. \A s \in Searches : s.limit \in Nat
    BY SearchAssumption DEF Searches
<1>2. \A s \in Searches : Fit(s, {})
    BY <1>1, FS_EmptySet DEF Fit
<1> QED
    BY <1>2 DEF AnswerFits, NoAnswer, CachedAnswers

(* The API answers within the visibility and the limit that it was asked for.*)
LEMMA ResultsFit ==
    ASSUME findable \subseteq FoundMemories, NEW s \in Searches
    PROVE  Fit(s, SearchResults(s)) /\ SearchResults(s) \subseteq findable
<1> DEFINE found == {m \in findable : VisibilityOf[m] \in VisibilityFilter(s.visibility)}
<1>1. found \in SUBSET FoundMemories /\ found \subseteq Nat /\ IsFiniteSet(found)
    BY SearchAssumption, FS_Subset
<1>2. s.limit \in Nat
    BY SearchAssumption DEF Searches
<1>3. /\ OnPage(found, 1, s.limit) \subseteq found
      /\ Cardinality(OnPage(found, 1, s.limit)) <= s.limit
    BY <1>1, <1>2, FirstPageFits
<1>4. SearchResults(s) = OnPage(found, 1, s.limit)
    BY DEF SearchResults
<1> QED
    BY <1>1, <1>3, <1>4 DEF Fit

(* A fetch replaces the one in flight, not the rows that are shown.          *)
LEMMA FetchKeepsFit ==
    ASSUME NEW s \in Searches, NEW a, AnswerFits(s, a), NEW gone
    PROVE  /\ AnswerFits(s, FetchStarted(a, s))
           /\ OverlapIsMarked(FetchStarted(a, s), gone) /\ GoneIsTold(FetchStarted(a, s), gone)
<1> DEFINE b == FetchStarted(a, s)
<1>1. /\ b \in CachedAnswers /\ b.fetch = "asked" /\ b.asks = s /\ b.read = {}
      /\ b.known = a.known /\ b.rows = a.rows
    BY DEF AnswerFits, CachedAnswers, FetchStarted
<1> HIDE DEF b
<1>2. AnswerFits(s, b)
    BY <1>1, NoRowsFit DEF AnswerFits
<1>3. OverlapIsMarked(b, gone) /\ GoneIsTold(b, gone)
    BY <1>1 DEF OverlapIsMarked, GoneIsTold
<1> QED
    BY <1>2, <1>3 DEF b

(* A step that caches one answer and otherwise changes at most the fields.   *)
LEMMA CachedStep ==
    ASSUME SearchInv, NEW key \in Searches, NEW a, Cached(key, a),
           withProvider' = TRUE, search' \in {search, key},
           AnswerHolds(key, a, search', rejectedHere),
           UNCHANGED <<findable, rejection, rejectedHere>>
    PROVE  SearchInv'
<1>1. /\ DOMAIN answers' = DOMAIN answers \cup {key}
      /\ answers'[key] = a
      /\ \A s \in DOMAIN answers : s # key => answers'[s] = answers[s]
    BY DEF Cached
<1>2. \A s \in DOMAIN answers' :
          withProvider' /\ AnswerHolds(s, answers'[s], search', rejectedHere')
    BY <1>1 DEF SearchInv, AnswerHolds
<1>3. \A s \in DOMAIN answers' : answers'[s] \in CachedAnswers
                                 /\ (answers'[s].fetch # "idle" => answers'[s].asks = s)
    BY <1>2 DEF AnswerHolds, AnswerFits
<1>4. DOMAIN answers' \subseteq Searches
    BY <1>1 DEF SearchInv, SearchTypeOK
<1>5. SearchTypeOK'
    BY <1>3, <1>4 DEF SearchInv, SearchTypeOK, CachedAnswers
<1> QED
    BY <1>2, <1>5 DEF SearchInv

(* A search that comes to be shown is fetched, or a fetch of it is on its way*)
LEMMA ObserveStep ==
    ASSUME SearchInv, NEW fields \in Searches, fields.query # "", Observe(fields),
           withProvider' = TRUE, search' = fields,
           UNCHANGED <<findable, rejection, rejectedHere>>
    PROVE  SearchInv'
<1>1. AnswerFits(fields, AnswerTo(fields))
    BY NoRowsFit DEF SearchInv, AnswerHolds, AnswerTo
<1>2. CASE AnswerTo(fields).fetch = "idle"
    <2>1. Cached(fields, FetchStarted(AnswerTo(fields), fields))
        BY <1>2 DEF Observe, SearchKey
    <2>2. AnswerHolds(fields, FetchStarted(AnswerTo(fields), fields), search', rejectedHere)
        BY <1>1, FetchKeepsFit DEF AnswerHolds
    <2> QED
        BY <2>1, <2>2, CachedStep
<1>3. CASE AnswerTo(fields).fetch # "idle"
    <2>1. UNCHANGED answers
        BY <1>3 DEF Observe, SearchKey
    <2>2. fields \in DOMAIN answers /\ answers[fields].fetch # "idle"
        BY <1>3 DEF AnswerTo, NoAnswer
    <2>3. \A s \in DOMAIN answers' :
              withProvider' /\ AnswerHolds(s, answers'[s], search', rejectedHere')
        BY <2>1, <2>2 DEF SearchInv, AnswerHolds, GoneIsTold
    <2> QED
        BY <2>1, <2>3 DEF SearchInv, SearchTypeOK
<1> QED
    BY <1>2, <1>3

LEMMA SearchStep == SearchInv /\ [SearchNext]_searchVars => SearchInv'
<1> SUFFICES ASSUME SearchInv, [SearchNext]_searchVars PROVE SearchInv'
    OBVIOUS
<1>0. /\ findable \subseteq FoundMemories /\ search \in Searches /\ withProvider \in BOOLEAN
      /\ DOMAIN answers \subseteq Searches
      /\ rejection \in [on : Reviewed, state : {"sent", "done"}] \cup {NoRejection}
      /\ rejectedHere \subseteq Reviewed /\ rejectedHere \cap findable = {}
      /\ \A s \in DOMAIN answers :
             withProvider /\ AnswerHolds(s, answers[s], search, rejectedHere)
    BY DEF SearchInv, SearchTypeOK
<1>1. CASE ProviderArrives
    <2>1. CASE search.query # ""
        BY <1>0, <1>1, <2>1, ObserveStep DEF ProviderArrives
    <2>2. CASE search.query = ""
        BY <1>0, <1>1, <2>2 DEF ProviderArrives, SearchInv, SearchTypeOK
    <2> QED
        BY <2>1, <2>2
<1>2. ASSUME NEW fields \in Searches, EnterSearch(fields) PROVE SearchInv'
    <2>1. /\ fields # search /\ search' = fields
          /\ UNCHANGED <<findable, withProvider, rejection, rejectedHere>>
        BY <1>2 DEF EnterSearch
    <2>2. CASE fields.query # "" /\ withProvider
        <3>1. Observe(fields)
            BY <1>2, <2>1, <2>2 DEF EnterSearch, SearchEnabled, SearchKey
        <3> QED
            BY <2>1, <2>2, <3>1, ObserveStep
    <2>3. CASE ~(fields.query # "" /\ withProvider)
        <3>1. UNCHANGED answers
            BY <1>2, <2>3 DEF EnterSearch, SearchEnabled
        <3>2. fields \notin DOMAIN answers
            BY <1>0, <2>3 DEF AnswerHolds
        <3>3. \A s \in DOMAIN answers' :
                  withProvider' /\ AnswerHolds(s, answers'[s], search', rejectedHere')
            BY <1>0, <2>1, <3>1, <3>2 DEF AnswerHolds
        <3> QED
            BY <1>0, <2>1, <3>1, <3>3 DEF SearchInv, SearchTypeOK
    <2> QED
        BY <2>2, <2>3
<1>3. ASSUME NEW key \in DOMAIN answers, SearchRead(key) \/ SearchArrives(key) \/ SearchFails(key)
      PROVE  SearchInv'
    <2> DEFINE a == answers[key]
    <2>0. /\ key \in Searches /\ withProvider /\ key.query # ""
          /\ a \in CachedAnswers /\ AnswerFits(key, a) /\ OverlapIsMarked(a, rejectedHere)
          /\ key = search => GoneIsTold(a, rejectedHere)
          /\ AnswerTo(key) = a
        BY <1>0 DEF AnswerHolds, AnswerFits, AnswerTo
    <2>1. CASE SearchRead(key)
        <3> DEFINE b == [a EXCEPT !.fetch = "read", !.read = SearchResults(a.asks)]
        <3>1. a.fetch = "asked" /\ Cached(key, b)
              /\ UNCHANGED <<findable, search, withProvider, rejection, rejectedHere>>
            BY <2>0, <2>1 DEF SearchRead
        <3>2. a.asks = key /\ Fit(key, SearchResults(key)) /\ SearchResults(key) \subseteq findable
            BY <1>0, <2>0, <3>1, ResultsFit DEF AnswerFits
        <3>3. /\ b \in CachedAnswers /\ b.fetch = "read" /\ b.asks = key /\ b.known = a.known
              /\ b.rows = a.rows /\ b.read = SearchResults(key)
            BY <2>0, <3>2 DEF CachedAnswers, Fit
        <3> HIDE DEF a, b
        <3>4. AnswerHolds(key, b, search', rejectedHere)
            BY <1>0, <2>0, <3>1, <3>2, <3>3
            DEF AnswerHolds, AnswerFits, OverlapIsMarked, GoneIsTold
        <3> QED
            BY <2>0, <3>1, <3>4, CachedStep
    <2>2. CASE SearchArrives(key)
        <3> DEFINE b == [NoAnswer EXCEPT !.known = TRUE, !.rows = a.read,
                                         !.overlapped = a.overlapped]
        <3>1. Cached(key, b)
              /\ UNCHANGED <<findable, search, withProvider, rejection, rejectedHere>>
            BY <2>0, <2>2 DEF SearchArrives
        <3>2. /\ b \in CachedAnswers /\ b.fetch = "idle" /\ b.known = TRUE
              /\ b.rows = a.read /\ b.read = {} /\ b.overlapped = a.overlapped
            BY <2>0 DEF CachedAnswers, NoAnswer
        <3> HIDE DEF a, b
        <3>3. AnswerHolds(key, b, search', rejectedHere)
            BY <2>0, <3>1, <3>2, NoRowsFit
            DEF AnswerHolds, AnswerFits, OverlapIsMarked, GoneIsTold
        <3> QED
            BY <2>0, <3>1, <3>3, CachedStep
    <2>3. CASE SearchFails(key)
        <3> DEFINE b == [a EXCEPT !.fetch = "idle", !.asks = Nothing, !.read = {}, !.failed = TRUE]
        <3>1. Cached(key, b)
              /\ UNCHANGED <<findable, search, withProvider, rejection, rejectedHere>>
            BY <2>0, <2>3 DEF SearchFails
        <3>2. /\ b \in CachedAnswers /\ b.fetch = "idle" /\ b.known = a.known
              /\ b.rows = a.rows /\ b.read = {} /\ b.failed = TRUE
            BY <2>0 DEF CachedAnswers
        <3> HIDE DEF a, b
        <3>3. AnswerHolds(key, b, search', rejectedHere)
            BY <2>0, <3>1, <3>2, NoRowsFit
            DEF AnswerHolds, AnswerFits, OverlapIsMarked, GoneIsTold
        <3> QED
            BY <2>0, <3>1, <3>3, CachedStep
    <2> QED
        BY <1>3, <2>1, <2>2, <2>3
<1>4. ASSUME NEW m \in Reviewed, OthersReview(m) PROVE SearchInv'
    <2>1. m \in FoundMemories
        BY SearchAssumption
    <2>2. \A s \in DOMAIN answers : AnswerHolds(s, answers[s], search, rejectedHere \ {m})
        BY <1>0 DEF AnswerHolds, OverlapIsMarked, GoneIsTold
    <2> QED
        BY <1>0, <1>4, <2>1, <2>2 DEF OthersReview, SearchInv, SearchTypeOK
<1>5. ASSUME NEW m \in Reviewed, SendRejection(m) PROVE SearchInv'
    BY <1>0, <1>5 DEF SendRejection, SearchInv, SearchTypeOK
<1>6. CASE RejectionCommits
    <2>1. rejection \in [on : Reviewed, state : {"sent", "done"}]
        BY <1>0, <1>6 DEF RejectionCommits, NoRejection
    <2> QED
        BY <1>0, <1>6, <2>1 DEF RejectionCommits, SearchInv, SearchTypeOK
<1>7. CASE RejectionSucceeds
    <2> DEFINE gone == rejectedHere \cup ({rejection.on} \ findable)
               InFlight(s) == answers[s].fetch # "idle"
    <2>1. /\ rejectedHere' = gone /\ rejection' = NoRejection /\ MemoryInvalidated
          /\ UNCHANGED <<findable, search, withProvider>>
        BY <1>7 DEF RejectionSucceeds
    <2>2. rejection.on \in Reviewed
        BY <1>0, <1>7 DEF RejectionSucceeds, NoRejection
    <2>3. DOMAIN answers' = DOMAIN answers
        BY <2>1 DEF MemoryInvalidated
    <2>4. ASSUME NEW s \in DOMAIN answers
          PROVE  withProvider /\ AnswerHolds(s, answers'[s], search, gone)
        <3>1. s \in Searches /\ s.query # "" /\ AnswerFits(s, answers[s]) /\ withProvider
              /\ answers[s] \in CachedAnswers
            BY <1>0 DEF AnswerHolds, AnswerFits
        <3>2. CASE s = search /\ (answers[s].known \/ ~InFlight(s))
            <4>1. answers'[s] = FetchStarted(answers[s], s)
                BY <2>1, <3>1, <3>2 DEF MemoryInvalidated, SearchKey, SearchEnabled
            <4> QED
                BY <3>1, <4>1, FetchKeepsFit DEF AnswerHolds
        <3>3. CASE ~(s = search /\ (answers[s].known \/ ~InFlight(s)))
            <4> DEFINE b == [answers[s] EXCEPT !.overlapped = @ \/ InFlight(s)]
            <4>1. answers'[s] = b
                BY <2>1, <3>3 DEF MemoryInvalidated, SearchKey
            <4>2. /\ b \in CachedAnswers /\ b.fetch = answers[s].fetch /\ b.asks = answers[s].asks
                  /\ b.known = answers[s].known /\ b.rows = answers[s].rows
                  /\ b.read = answers[s].read /\ (InFlight(s) => b.overlapped)
                BY <3>1 DEF CachedAnswers
            <4> HIDE DEF b
            <4>3. AnswerFits(s, b)
                BY <3>1, <4>2 DEF AnswerFits
            <4>4. OverlapIsMarked(b, gone)
                BY <3>1, <4>2 DEF AnswerFits, OverlapIsMarked
            <4>5. s = search => GoneIsTold(b, gone)
                BY <3>3, <4>2 DEF GoneIsTold
            <4> QED
                BY <3>1, <4>1, <4>3, <4>4, <4>5 DEF AnswerHolds
        <3> QED
            BY <3>2, <3>3
    <2> HIDE DEF gone
    <2>5. \A s \in DOMAIN answers' :
              withProvider' /\ AnswerHolds(s, answers'[s], search', rejectedHere')
        BY <2>1, <2>3, <2>4
    <2>6. \A s \in DOMAIN answers' : answers'[s] \in CachedAnswers
                                     /\ (answers'[s].fetch # "idle" => answers'[s].asks = s)
        BY <2>5 DEF AnswerHolds, AnswerFits
    <2>7. rejectedHere' \subseteq Reviewed /\ rejectedHere' \cap findable' = {}
        BY <1>0, <2>1, <2>2 DEF gone
    <2>8. SearchTypeOK'
        BY <1>0, <2>1, <2>3, <2>6, <2>7 DEF SearchTypeOK, CachedAnswers
    <2> QED
        BY <2>5, <2>7, <2>8 DEF SearchInv
<1>8. CASE RejectionFails
    BY <1>0, <1>8 DEF RejectionFails, SearchInv, SearchTypeOK
<1>9. CASE UNCHANGED searchVars
    BY <1>0, <1>9 DEF searchVars, SearchInv, SearchTypeOK
<1> QED
    BY <1>1, <1>2, <1>3, <1>4, <1>5, <1>6, <1>7, <1>8, <1>9 DEF SearchNext

LEMMA SearchStarts == SearchInit => SearchInv
<1> SUFFICES ASSUME SearchInit PROVE SearchInv
    OBVIOUS
<1>1. DOMAIN answers = {}
    <2>1. DOMAIN <<>> = {}
        OBVIOUS
    <2> QED
        BY <2>1 DEF SearchInit
<1> QED
    BY <1>1 DEF SearchInit, SearchInv, SearchTypeOK

LEMMA SearchHolds == SearchInv => SearchFollows
<1> SUFFICES ASSUME SearchInv PROVE SearchFollows
    OBVIOUS
<1>0. search \in Searches
    BY DEF SearchInv, SearchTypeOK
<1>1. CASE search \in DOMAIN answers
    <2>1. Answer = answers[search] /\ AnswerHolds(search, Answer, search, rejectedHere)
        BY <1>1 DEF SearchInv, Answer, AnswerTo, SearchKey
    <2>2. AnswerFits(search, Answer) /\ GoneIsTold(Answer, rejectedHere)
        BY <2>1 DEF AnswerHolds
    <2>3. ShownResults = Answer.rows
        BY <2>2 DEF ShownResults, AnswerFits
    <2> QED
        BY <2>2, <2>3 DEF SearchFollows, RejectedLeavesSearch, SearchIsOfItsFields, AnswerFits,
            Fit, GoneIsTold
<1>2. CASE search \notin DOMAIN answers
    <2>1. ShownResults = {}
        BY <1>2 DEF ShownResults, Answer, AnswerTo, SearchKey, NoAnswer
    <2>2. Fit(search, {})
        BY <1>0, NoRowsFit
    <2> QED
        BY <2>1, <2>2 DEF SearchFollows, RejectedLeavesSearch, SearchIsOfItsFields, Fit
<1> QED
    BY <1>1, <1>2

(* The results of the search are of the fields above them, in whatever order *)
(* they were typed and answered, and a memory rejected on the page stands    *)
(* among them only until the next answer, or under an error.                 *)
THEOREM SearchIsFollowed == SearchSpec => []SearchFollows
    BY SearchStarts, SearchStep, SearchHolds, PTL DEF SearchSpec

-----------------------------------------------------------------------------

(* Every section of the outline keeps its four fields.                       *)
IsSection(r) == DOMAIN r = {"enabled", "counted", "marked", "complete"}

OutlineInv ==
    /\ DOMAIN sections = SectionNames /\ \A s \in SectionNames : IsSection(sections[s])
    /\ OutlineFollows

(* A refresh counts and completes each section anew, for the data it is of.  *)
LEMMA RefreshedFollow ==
    ASSUME NEW outline, NEW d, DOMAIN outline = SectionNames,
           \A s \in SectionNames : IsSection(outline[s])
    PROVE  LET fresh == SectionsWithMetrics(outline, d)
           IN /\ DOMAIN fresh = SectionNames /\ \A s \in SectionNames : IsSection(fresh[s])
              /\ fresh["summary"].complete = IsRendered(d.report)
              /\ fresh["evidence"].complete = (EvidenceReferences(d) > 0)
              /\ fresh["evidence"].counted = EvidenceReferences(d)
<1> DEFINE included == Cardinality(BuilderIncluded(d))
           Counting(s, n) == [outline[s] EXCEPT !.counted = n, !.marked = FALSE, !.complete = n > 0]
           fresh == SectionsWithMetrics(outline, d)
<1>1. ASSUME NEW s \in SectionNames, NEW n
      PROVE  /\ IsSection(Counting(s, n))
             /\ Counting(s, n).counted = n /\ Counting(s, n).complete = (n > 0)
    <2>1. ASSUME NEW done
          PROVE  LET r == [outline[s] EXCEPT !.counted = n, !.marked = FALSE, !.complete = done]
                 IN IsSection(r) /\ r.counted = n /\ r.complete = done
        BY DEF IsSection
    <2> QED
        BY <2>1
<1>2. ASSUME NEW s \in SectionNames, NEW done
      PROVE  LET r == [outline[s] EXCEPT !.complete = done] IN IsSection(r) /\ r.complete = done
    BY DEF IsSection
<1>3. /\ "findings" \in SectionNames /\ "evidence" \in SectionNames /\ "summary" \in SectionNames
    BY DEF SectionNames
<1>4. /\ DOMAIN fresh = SectionNames
      /\ fresh["findings"] = Counting("findings", included)
      /\ fresh["evidence"] = Counting("evidence", EvidenceReferences(d))
      /\ fresh["summary"] = [outline["summary"] EXCEPT !.complete = IsRendered(d.report)]
      /\ fresh["appendix"] = outline["appendix"]
    BY <1>3 DEF SectionsWithMetrics, SectionNames
<1> HIDE DEF fresh, Counting, included
<1>5. \A s \in SectionNames : IsSection(fresh[s])
    <2>1. IsSection(fresh["findings"]) /\ IsSection(fresh["evidence"])
        BY <1>1, <1>3, <1>4
    <2>2. IsSection(fresh["summary"])
        BY <1>2, <1>3, <1>4
    <2>3. IsSection(fresh["appendix"])
        BY <1>4 DEF SectionNames
    <2> QED
        BY <2>1, <2>2, <2>3 DEF SectionNames
<1>6. fresh["summary"].complete = IsRendered(d.report)
    BY <1>2, <1>3, <1>4
<1>7. /\ fresh["evidence"].complete = (EvidenceReferences(d) > 0)
      /\ fresh["evidence"].counted = EvidenceReferences(d)
    BY <1>1, <1>3, <1>4
<1> QED
    BY <1>4, <1>5, <1>6, <1>7 DEF fresh

LEMMA OutlineStarts == OutlineInit => OutlineInv
<1> SUFFICES ASSUME OutlineInit PROVE OutlineInv
    OBVIOUS
<1>1. DOMAIN DefaultSections = SectionNames /\ \A s \in SectionNames : IsSection(DefaultSections[s])
    BY DEF DefaultSections, IsSection
<1> HIDE DEF DefaultSections
<1>2. outlineData = NoData /\ sections = SectionsWithMetrics(DefaultSections, NoData)
      /\ includedLabels = ReportFindingLabels
    BY DEF OutlineInit
<1>3. /\ DOMAIN sections = SectionNames /\ \A s \in SectionNames : IsSection(sections[s])
      /\ sections["summary"].complete = IsRendered(NoData.report)
      /\ sections["evidence"].complete = (EvidenceReferences(NoData) > 0)
      /\ sections["evidence"].counted = EvidenceReferences(NoData)
    BY <1>1, <1>2, RefreshedFollow
<1> QED
    BY <1>2, <1>3
    DEF OutlineInv, OutlineFollows, FilterStaysWithReport, SectionsFollow, Readiness

LEMMA OutlineStep == OutlineInv /\ [OutlineNext]_outlineVars => OutlineInv'
<1> SUFFICES ASSUME OutlineInv, [OutlineNext]_outlineVars PROVE OutlineInv'
    OBVIOUS
<1>0. /\ DOMAIN sections = SectionNames /\ \A s \in SectionNames : IsSection(sections[s])
      /\ includedLabels # ReportFindingLabels => filteredFor = outlineData.report.id
      /\ "summary" \notin touched => sections["summary"].complete = IsRendered(outlineData.report)
      /\ "evidence" \notin touched =>
             /\ sections["evidence"].complete = (EvidenceReferences(outlineData) > 0)
             /\ sections["evidence"].counted = EvidenceReferences(outlineData)
    BY DEF OutlineInv, OutlineFollows, FilterStaysWithReport, SectionsFollow, Readiness
<1> DEFINE Goal ==
          /\ DOMAIN sections' = SectionNames /\ \A s \in SectionNames : IsSection(sections'[s])
          /\ includedLabels' # ReportFindingLabels => filteredFor' = outlineData'.report.id
          /\ "summary" \notin touched' =>
                 sections'["summary"].complete = IsRendered(outlineData'.report)
          /\ "evidence" \notin touched' =>
                 /\ sections'["evidence"].complete = (EvidenceReferences(outlineData') > 0)
                 /\ sections'["evidence"].counted = EvidenceReferences(outlineData')
<1>g. SUFFICES Goal
    BY DEF OutlineInv, OutlineFollows, FilterStaysWithReport, SectionsFollow, Readiness
<1>1. ASSUME NEW d, DataArrives(d) PROVE Goal
    <2>1. CASE EffectDue(outlineData, d)
        <3>1. /\ outlineData' = d /\ includedLabels' = ReportFindingLabels
              /\ sections' = SectionsWithMetrics(sections, d)
            BY <1>1, <2>1 DEF DataArrives
        <3> QED
            BY <1>0, <3>1, RefreshedFollow
    <2>2. CASE ~EffectDue(outlineData, d)
        <3>1. outlineData' = d /\ UNCHANGED <<includedLabels, sections, touched, filteredFor>>
            BY <1>1, <2>2 DEF DataArrives
        <3>2. /\ d.report.id = outlineData.report.id /\ d.report.status = outlineData.report.status
              /\ EvidenceReferences(d) = EvidenceReferences(outlineData)
            BY <2>2 DEF EffectDue
        <3>3. IsRendered(d.report) = IsRendered(outlineData.report)
            BY <3>2 DEF IsRendered
        <3> QED
            BY <1>0, <3>1, <3>2, <3>3
    <2> QED
        BY <2>1, <2>2
<1>2. ASSUME NEW s, ToggleStatus(s) PROVE Goal
    BY <1>0, <1>2 DEF ToggleStatus
<1>3. ASSUME NEW s \in SectionNames, ToggleSection(s) PROVE Goal
    <2>1. /\ DOMAIN sections' = SectionNames
          /\ \A q \in SectionNames : q # s => sections'[q] = sections[q]
          /\ touched' = touched \cup {s}
          /\ UNCHANGED <<outlineData, includedLabels, filteredFor>>
        BY <1>0, <1>3 DEF ToggleSection
    <2>2. IsSection(sections'[s])
        BY <1>0, <1>3 DEF ToggleSection, IsSection
    <2> QED
        BY <1>0, <2>1, <2>2 DEF SectionNames
<1>4. ASSUME UNCHANGED outlineVars PROVE Goal
    BY <1>0, <1>4 DEF outlineVars
<1>5. SwitchedSections \subseteq SectionNames
    BY OutlineAssumption DEF SectionNames
<1> QED
    BY <1>1, <1>2, <1>3, <1>4, <1>5 DEF OutlineNext

(* A filter that was switched for one report never hides findings of another,*)
(* and sections that nobody switched follow the data they are about.         *)
THEOREM OutlineIsFollowed == OutlineSpec => []OutlineFollows
    BY OutlineStarts, OutlineStep, PTL DEF OutlineSpec, OutlineInv

-----------------------------------------------------------------------------

(* The application starts with each page in a state that the page may start  *)
(* in, and moves one page at a time, as that page may move.                  *)
LEMMA PagesStart ==
    WebInit =>
        /\ AuthInit /\ PanelInit /\ SessionsInit /\ SetupInit /\ BoardInit /\ EvidenceInit
        /\ MemoryInit /\ SearchInit /\ ReportInit /\ OutlineInit /\ ConsoleInit /\ UsersInit
        /\ HomeInit /\ OverviewInit /\ DetailInit /\ DirectoryInit
    BY DEF WebInit, AuthAtRest, SetupAtRest, BoardAtRest, EvidenceAtRest, MemoryAtRest,
           SearchAtRest, UsersAtRest, ReportAtRest, ConsoleAtRest

LEMMA PagesStep ==
    [WebNext]_webVars =>
        /\ [AuthNext]_authVars /\ [PanelNext]_homePanelVars /\ [SessionsNext]_sessionsVars
        /\ [SetupNext]_setupVars /\ [BoardNext]_boardVars /\ [EvidenceNext]_evidenceVars
        /\ [MemoryNext]_memoryVars /\ [SearchNext]_searchVars /\ [ReportNext]_reportVars
        /\ [OutlineNext]_outlineVars /\ [ConsoleNext]_consoleVars /\ [UsersNext]_usersVars
        /\ [HomeNext]_homeList /\ [OverviewNext]_overview /\ [DetailNext]_detail
        /\ [DirectoryNext]_directory /\ UNCHANGED page
    BY DEF WebNext, webVars

-----------------------------------------------------------------------------

(* What is sent is about a session of the list and, from the panel, an       *)
(* action that was offered for the status it showed.                         *)
LifecycleIsOffered ==
    lifecycle.phase = "sent" =>
        /\ lifecycle.session \in Sessions
        /\ lifecycle.from = "list" => lifecycle.seen \in OfferedFrom(lifecycle.action)

SessionsInv == SessionsTypeOK /\ LifecycleIsOffered /\ ClicksAreAccepted

Lifecycles == [phase : {"none", "sent", "done", "refused"}, from : {"list", "command"},
               action : LifecycleActions, session : Sessions \cup {Nothing},
               seen : SessionStatuses, met : SessionStatuses]

(* The buttons are enabled for no status from which the API refuses, and for *)
(* every one from which it does not, but for a stop while an approval is     *)
(* awaited: the two tables were written apart.                               *)
LEMMA TablesAgree ==
    \A action \in LifecycleActions :
        /\ OfferedFrom(action) \subseteq AcceptedFrom(action)
        /\ AcceptedFrom(action) \subseteq SessionStatuses /\ LeadsTo(action) \in SessionStatuses
        /\ action \notin CommandActions => AcceptedFrom(action) \subseteq OfferedFrom(action)
<1>1. ASSUME NEW action \in LifecycleActions
      PROVE  /\ OfferedFrom(action) \subseteq AcceptedFrom(action)
             /\ action \notin CommandActions => AcceptedFrom(action) \subseteq OfferedFrom(action)
    BY DEF LifecycleActions, OfferedFrom, AcceptedFrom, CommandActions
<1>2. ASSUME NEW action \in LifecycleActions
      PROVE  AcceptedFrom(action) \subseteq SessionStatuses /\ LeadsTo(action) \in SessionStatuses
    BY DEF LifecycleActions, AcceptedFrom, LeadsTo, SessionStatuses
<1> QED
    BY <1>1, <1>2

LEMMA SessionsAreNumbered ==
    /\ FirstOf(Sessions) \in Sessions /\ Nothing \notin Sessions
    /\ PanelSession \in ListedSessions \cup {Nothing} /\ ListedSessions \subseteq Sessions
<1>1. Sessions \subseteq Nat /\ Sessions # {} /\ Nothing \notin Sessions
    BY SessionsAssumption DEF Nothing
<1>2. ListedSessions \subseteq Sessions /\ ListedSessions \subseteq Nat
    BY <1>1 DEF ListedSessions
<1> QED
    BY <1>1, <1>2, FirstOfIsListed, StillOrFirstIsListed DEF PanelSession

(* A step that sends nothing and leaves what was sent.                       *)
LEMMA NoSendStep ==
    ASSUME SessionsInv, lifecycle' \in {lifecycle, NoLifecycle},
           sessionRow' \in [Sessions -> SessionStatuses],
           listedSessions' \in [Sessions -> SessionStatuses \cup {"absent"}],
           activeTab' \in TabsInPlay \cup {"all"}, sessionsPage' \in Nat \ {0},
           selectedSession' \in Sessions \cup {Nothing}, foundSessions' \subseteq Sessions,
           openedSession' \in Sessions \cup {Nothing},
           shownDetail' \in SessionStatuses \cup {"absent"}
    PROVE  SessionsInv'
<1>1. NoLifecycle \in Lifecycles /\ NoLifecycle.phase = "none"
    BY DEF NoLifecycle, Lifecycles, LifecycleActions, SessionStatuses
<1>2. lifecycle \in Lifecycles
    BY DEF SessionsInv, SessionsTypeOK, Lifecycles
<1>3. lifecycle' \in Lifecycles /\ LifecycleIsOffered' /\ ClicksAreAccepted'
    BY <1>1, <1>2 DEF SessionsInv, LifecycleIsOffered, ClicksAreAccepted
<1> QED
    BY <1>3 DEF SessionsInv, SessionsTypeOK, Lifecycles

LEMMA SessionsStep == SessionsInv /\ [SessionsNext]_sessionsVars => SessionsInv'
<1> SUFFICES ASSUME SessionsInv, [SessionsNext]_sessionsVars PROVE SessionsInv'
    OBVIOUS
<1>0. /\ sessionRow \in [Sessions -> SessionStatuses]
      /\ listedSessions \in [Sessions -> SessionStatuses \cup {"absent"}]
      /\ activeTab \in TabsInPlay \cup {"all"} /\ sessionsPage \in Nat \ {0}
      /\ selectedSession \in Sessions \cup {Nothing} /\ foundSessions \subseteq Sessions
      /\ openedSession \in Sessions \cup {Nothing}
      /\ shownDetail \in SessionStatuses \cup {"absent"}
      /\ lifecycle \in Lifecycles /\ LifecycleIsOffered /\ ClicksAreAccepted
    BY DEF SessionsInv, SessionsTypeOK, Lifecycles
<1>1. ASSUME NEW s \in Sessions, HandleSelectSession(s) PROVE SessionsInv'
    BY <1>0, <1>1, NoSendStep DEF HandleSelectSession, commandState
<1>2. ASSUME NEW s \in Sessions, HandleOpenSession(s) PROVE SessionsInv'
    <2>1. 1 \in Nat \ {0} /\ listedSessions[s] \in SessionStatuses \cup {"absent"}
        BY <1>0
    <2> QED
        BY <1>0, <1>2, <2>1, SessionsAreNumbered, NoSendStep DEF HandleOpenSession
<1>3. ASSUME NEW s \in Sessions, OthersMove(s) PROVE SessionsInv'
    <2>1. PICK to \in SessionStatuses : sessionRow' = [sessionRow EXCEPT ![s] = to]
        <3>1. {"running", "failed", "awaiting_approval", "completed"} \subseteq SessionStatuses
            BY DEF SessionStatuses
        <3> QED
            BY <1>3, <3>1, TablesAgree DEF OthersMove
    <2>2. sessionRow' \in [Sessions -> SessionStatuses]
        BY <1>0, <2>1
    <2> QED
        BY <1>0, <1>3, <2>2, NoSendStep DEF OthersMove, listState, commandState
<1>4. CASE FetchSessions
    BY <1>0, <1>4, SessionsAreNumbered, NoSendStep DEF FetchSessions, commandState
<1>5. ASSUME NEW tab \in TabsInPlay, HandleTabChange(tab) PROVE SessionsInv'
    BY <1>0, <1>5, NoSendStep DEF HandleTabChange, commandState
<1>6. ASSUME NEW found \in {Sessions, {FirstOf(Sessions)}},
             HandleFilters(found) \/ HandleGlobalSearch(found)
      PROVE  SessionsInv'
    <2>1. found \subseteq Sessions
        BY SessionsAreNumbered
    <2> QED
        BY <1>0, <1>6, <2>1, NoSendStep DEF HandleFilters, HandleGlobalSearch, commandState
<1>7. ASSUME NEW p \in 1..Cardinality(Sessions), TurnPage(p) PROVE SessionsInv'
    <2>1. Cardinality(Sessions) \in Nat
        BY SessionsAssumption, FS_CardinalityType
    <2>2. p \in Nat \ {0}
        BY <2>1
    <2> QED
        BY <1>0, <1>7, <2>2, NoSendStep DEF TurnPage, commandState
<1>8. ASSUME NEW action \in LifecycleActions, ClickLifecycle(action) PROVE SessionsInv'
    <2> DEFINE seen == listedSessions[PanelSession]
    <2>1. /\ PanelSession \in Sessions /\ seen \in SessionStatuses
          /\ seen \in OfferedFrom(action)
        <3>1. PanelSession \in ListedSessions
            BY <1>8, SessionsAreNumbered DEF ClickLifecycle
        <3>2. PanelSession \in Sessions /\ seen \in SessionStatuses
            BY <1>0, <3>1, SessionsAreNumbered DEF ListedSessions
        <3> QED
            BY <1>8, <3>2 DEF ClickLifecycle, NormalizeStatus
    <2>2. /\ lifecycle' = [phase |-> "sent", from |-> "list", action |-> action,
                           session |-> PanelSession, seen |-> seen, met |-> seen]
          /\ UNCHANGED <<sessionRow, listedSessions, listState, commandState>>
        BY <1>8 DEF ClickLifecycle, Send
    <2> HIDE DEF seen
    <2>3. lifecycle' \in Lifecycles /\ LifecycleIsOffered' /\ ClicksAreAccepted'
        BY <2>1, <2>2 DEF Lifecycles, LifecycleIsOffered, ClicksAreAccepted
    <2> QED
        BY <1>0, <2>2, <2>3 DEF SessionsInv, SessionsTypeOK, Lifecycles, listState, commandState
<1>9. ASSUME NEW action \in CommandActions, ClickControl(action) PROVE SessionsInv'
    <2>1. openedSession \in Sessions /\ shownDetail \in SessionStatuses
          /\ action \in LifecycleActions
        BY <1>0, <1>9 DEF ClickControl, OnList, CommandActions, LifecycleActions
    <2>2. /\ lifecycle' = [phase |-> "sent", from |-> "command", action |-> action,
                           session |-> openedSession, seen |-> shownDetail, met |-> shownDetail]
          /\ UNCHANGED <<sessionRow, listedSessions, listState, commandState>>
        BY <1>9 DEF ClickControl, Send
    <2>3. lifecycle' \in Lifecycles /\ LifecycleIsOffered' /\ ClicksAreAccepted'
        BY <2>1, <2>2 DEF Lifecycles, LifecycleIsOffered, ClicksAreAccepted
    <2> QED
        BY <1>0, <2>2, <2>3 DEF SessionsInv, SessionsTypeOK, Lifecycles, listState, commandState
<1>10. CASE CommitLifecycle
    <2> DEFINE s == lifecycle.session
    <2>1. lifecycle.phase = "sent" /\ s \in Sessions
          /\ UNCHANGED <<listedSessions, listState, commandState>>
        BY <1>0, <1>10 DEF CommitLifecycle, LifecycleIsOffered
    <2>2. lifecycle.action \in LifecycleActions /\ lifecycle.seen \in SessionStatuses
        BY <1>0 DEF Lifecycles
    <2>3. CASE sessionRow[s] \in AcceptedFrom(lifecycle.action)
        <3>1. /\ sessionRow' = [sessionRow EXCEPT ![s] = LeadsTo(lifecycle.action)]
              /\ lifecycle' = [NoLifecycle EXCEPT !.phase = "done"]
            BY <1>10, <2>3 DEF CommitLifecycle
        <3>2. sessionRow' \in [Sessions -> SessionStatuses]
            BY <1>0, <2>2, <3>1, TablesAgree
        <3>3. lifecycle' \in Lifecycles /\ lifecycle'.phase = "done"
            BY <3>1 DEF NoLifecycle, Lifecycles, LifecycleActions, SessionStatuses
        <3> QED
            BY <1>0, <2>1, <3>2, <3>3
            DEF SessionsInv, SessionsTypeOK, Lifecycles, listState, commandState,
                LifecycleIsOffered, ClicksAreAccepted
    <2>4. CASE sessionRow[s] \notin AcceptedFrom(lifecycle.action)
        <3>1. /\ lifecycle' = [lifecycle EXCEPT !.phase = "refused", !.met = sessionRow[s]]
              /\ UNCHANGED sessionRow
            BY <1>10, <2>4 DEF CommitLifecycle
        <3>2. sessionRow[s] \in SessionStatuses
            BY <1>0, <2>1
        <3> HIDE DEF s
        <3>3. /\ lifecycle' \in Lifecycles /\ lifecycle'.phase = "refused"
              /\ lifecycle'.met = sessionRow[s] /\ lifecycle'.seen = lifecycle.seen
              /\ lifecycle'.from = lifecycle.from
            BY <1>0, <3>1, <3>2 DEF Lifecycles
        <3>4. lifecycle.from = "list" => sessionRow[s] # lifecycle.seen
            BY <1>0, <2>1, <2>2, <2>4, TablesAgree DEF LifecycleIsOffered
        <3> QED
            BY <1>0, <2>1, <3>1, <3>3, <3>4
            DEF SessionsInv, SessionsTypeOK, Lifecycles, listState, commandState,
                LifecycleIsOffered, ClicksAreAccepted
    <2> QED
        BY <2>3, <2>4
<1>11. CASE LifecycleEnds
    BY <1>0, <1>11, NoSendStep DEF LifecycleEnds, listState, commandState
<1>12. CASE FetchDetail
    <2>1. sessionRow[openedSession] \in SessionStatuses
        BY <1>0, <1>12 DEF FetchDetail, OnList
    <2> QED
        BY <1>0, <1>12, <2>1, NoSendStep DEF FetchDetail, listState
<1>13. CASE BackToSessions
    BY <1>0, <1>13, NoSendStep DEF BackToSessions, listState
<1>14. CASE UNCHANGED sessionsVars
    BY <1>0, <1>14, NoSendStep DEF sessionsVars
<1>15. BusySessions \subseteq Sessions
    BY SessionsAssumption
<1> QED
    BY <1>1, <1>2, <1>3, <1>4, <1>5, <1>6, <1>7, <1>8, <1>9, <1>10, <1>11, <1>12, <1>13, <1>14,
       <1>15
    DEF SessionsNext

LEMMA SessionsStart == SessionsInit => SessionsInv
    BY SessionsAssumption
    DEF SessionsInit, SessionsInv, SessionsTypeOK, LifecycleIsOffered, ClicksAreAccepted,
        NoLifecycle, LifecycleActions, SessionStatuses

LEMMA OffersAreComplete == TransitionsAreOffered
    BY TablesAgree DEF TransitionsAreOffered

-----------------------------------------------------------------------------

(* What the inspector has typed or sent is a status that findings may have,  *)
(* for every label is translated back to the status it was shown for.        *)
LabelsInPlay == {FindingStatus(s) : s \in StatusesInPlay}
Saves == [phase : {"none", "updating", "reviewing", "saved"}, finding : MaybeFinding,
          typedFor : MaybeFinding, status : FindingStatuses]

EvidenceTyped ==
    /\ EvidenceInv
    /\ finding \in [Findings -> FindingRow] /\ shownFindings \in [Findings -> FindingRow]
    /\ evidenceFilter \in [rows : SUBSET Evidence, status : EvidenceStatuses \cup {"all"}]
    /\ selectedEvidence \in Evidence \cup {Nothing}
    /\ inspectorForm.status \in LabelsInPlay
    /\ findingSave # NoSave => findingSave.finding \in Findings
    /\ findingSave.status \in StatusesInPlay

LEMMA LabelsReturn ==
    /\ \A s \in FindingStatuses : BackendFindingStatus(FindingStatus(s)) = s
    /\ NoForm.status \in LabelsInPlay /\ NoSave.status \in StatusesInPlay
    /\ \A s \in StatusesInPlay \cup {"absent"} : FindingStatus(s) \in LabelsInPlay
<1>1. ASSUME NEW s \in FindingStatuses PROVE BackendFindingStatus(FindingStatus(s)) = s
    BY DEF FindingStatuses, FindingStatus, BackendFindingStatus
<1>2. FindingStatus("candidate") = "Ready for review" /\ FindingStatus("absent") = "Ready for review"
    BY DEF FindingStatus
<1>3. "Ready for review" \in LabelsInPlay
    BY <1>2, EvidenceAssumption DEF LabelsInPlay
<1> QED
    BY <1>1, <1>2, <1>3, EvidenceAssumption DEF NoForm, NoSave, LabelsInPlay

LEMMA FormInPlay ==
    ASSUME NEW f, NEW shown \in [Findings -> FindingRow], f \in MaybeFinding
    PROVE  FormOf(f, shown).status \in LabelsInPlay
<1>1. CASE f = Nothing
    BY <1>1, LabelsReturn DEF FormOf
<1>2. CASE f # Nothing
    <2>1. shown[f].status \in StatusesInPlay \cup {"absent"}
        BY <1>2 DEF MaybeFinding, FindingRow
    <2> QED
        BY <1>2, <2>1, LabelsReturn DEF FormOf
<1> QED
    BY <1>1, <1>2

LEMMA ResetInPlay ==
    ASSUME NEW e, NEW shown \in [Findings -> FindingRow], ResetForm(e, shown)
    PROVE  inspectorForm'.status \in LabelsInPlay
    BY SelectedIsFinding, FormInPlay DEF ResetForm

LEMMA SelectionStays ==
    ASSUME NEW filter \in [rows : SUBSET Evidence, status : EvidenceStatuses \cup {"all"}], NEW shown,
           selectedEvidence \in Evidence \cup {Nothing}
    PROVE  StillOrFirst(selectedEvidence, FilteredEvidence(filter, shown)) \in Evidence \cup {Nothing}
<1>1. FilteredEvidence(filter, shown) \subseteq Evidence /\ Evidence \subseteq Nat
    BY EvidenceAssumption DEF FilteredEvidence
<1> QED
    BY <1>1, StillOrFirstIsListed

LEMMA EvidenceTypedStep == EvidenceTyped /\ [EvidenceNext]_evidenceVars => EvidenceTyped'
<1> SUFFICES ASSUME EvidenceTyped, [EvidenceNext]_evidenceVars PROVE EvidenceTyped'
    OBVIOUS
<1>0. /\ EvidenceInv /\ EvidenceInv' /\ findingSave \in Saves
      /\ finding \in [Findings -> FindingRow] /\ shownFindings \in [Findings -> FindingRow]
      /\ evidenceFilter \in [rows : SUBSET Evidence, status : EvidenceStatuses \cup {"all"}]
      /\ selectedEvidence \in Evidence \cup {Nothing}
      /\ inspectorForm.status \in LabelsInPlay
      /\ findingSave # NoSave => findingSave.finding \in Findings
      /\ findingSave.status \in StatusesInPlay
    BY EvidenceInvStep DEF EvidenceTyped, EvidenceInv, InspectorShape, Saves
<1>a. StatusesInPlay \subseteq FindingStatuses /\ "candidate" \in StatusesInPlay
    BY EvidenceAssumption
<1>1. ASSUME NEW f \in Findings, AgentProposes(f) PROVE EvidenceTyped'
    <2>1. finding' \in [Findings -> FindingRow]
        BY <1>0, <1>1, <1>a DEF AgentProposes, FindingRow
    <2> QED
        BY <1>0, <1>1, <2>1 DEF AgentProposes, EvidenceTyped
<1>2. ASSUME NEW f \in Findings, OtherReviews(f) PROVE EvidenceTyped'
    <2>1. finding' \in [Findings -> FindingRow]
        BY <1>0, <1>2 DEF OtherReviews, FindingRow
    <2> QED
        BY <1>0, <1>2, <2>1 DEF OtherReviews, EvidenceTyped
<1>3. CASE FetchFindings
    <2>1. selectedEvidence' \in Evidence \cup {Nothing}
        BY <1>0, <1>3, SelectionStays DEF FetchFindings
    <2>2. inspectorForm'.status \in LabelsInPlay
        BY <1>0, <1>3, ResetInPlay DEF FetchFindings
    <2> QED
        BY <1>0, <1>3, <2>1, <2>2 DEF FetchFindings, EvidenceTyped
<1>4. ASSUME NEW e \in Evidence \cup {Nothing}, ShowEvidence(e)
      PROVE  selectedEvidence' = e /\ inspectorForm'.status \in LabelsInPlay
    BY <1>0, <1>4, ResetInPlay DEF ShowEvidence
<1>5. ASSUME NEW e \in Evidence, SelectEvidence(e) PROVE EvidenceTyped'
    BY <1>0, <1>4, <1>5 DEF SelectEvidence, EvidenceTyped
<1>6. ASSUME NEW rows \in RowsInPlay, NEW status \in FiltersInPlay,
             HandleEvidenceFilter([rows |-> rows, status |-> status])
      PROVE  EvidenceTyped'
    <2> DEFINE filter == [rows |-> rows, status |-> status]
               e == StillOrFirst(selectedEvidence, FilteredEvidence(filter, shownFindings))
    <2>1. filter \in [rows : SUBSET Evidence, status : EvidenceStatuses \cup {"all"}]
        BY EvidenceAssumption DEF EvidenceStatuses
    <2>2. e \in Evidence \cup {Nothing}
        BY <1>0, <2>1, SelectionStays
    <2>3. evidenceFilter' = filter /\ ShowEvidence(e)
          /\ UNCHANGED <<finding, supports, shownFindings, findingSave>>
        BY <1>6 DEF HandleEvidenceFilter
    <2> HIDE DEF filter, e
    <2> QED
        BY <1>0, <1>4, <2>1, <2>2, <2>3 DEF EvidenceTyped
<1>7. CASE ReopenInspector
    BY <1>0, <1>7, ResetInPlay DEF ReopenInspector, EvidenceTyped
<1>8. ASSUME NEW s \in StatusesInPlay, EditStatus(FindingStatus(s)) PROVE EvidenceTyped'
    <2>1. inspectorForm'.status = FindingStatus(s)
        BY <1>0, <1>8 DEF EditStatus, EvidenceInv, InspectorShape
    <2>2. FindingStatus(s) \in LabelsInPlay
        BY DEF LabelsInPlay
    <2> QED
        BY <1>0, <1>8, <2>1, <2>2 DEF EditStatus, EvidenceTyped
<1>9. CASE SaveFinding
    <2>1. inspectorForm.of # Nothing
          /\ inspectorForm.of = SelectedFinding(selectedEvidence, shownFindings)
        BY <1>0, <1>9 DEF SaveFinding, EvidenceInv, SavesGoWhereTyped
    <2>2. SelectedFinding(selectedEvidence, shownFindings) \in Findings
        BY <2>1, SelectedIsFinding DEF MaybeFinding
    <2>3. BackendFindingStatus(inspectorForm.status) \in StatusesInPlay
        BY <1>0, <1>a, LabelsReturn DEF LabelsInPlay
    <2>4. inspectorForm'.status \in LabelsInPlay
        BY <1>0, <1>9, ResetInPlay DEF SaveFinding
    <2> QED
        BY <1>0, <1>9, <2>2, <2>3, <2>4 DEF SaveFinding, EvidenceTyped
<1>10. CASE UpdateFinding
    <2>0. findingSave # NoSave
        BY <1>10 DEF UpdateFinding, NoSave
    <2>1. finding' \in [Findings -> FindingRow]
        BY <1>0, <1>10, <2>0 DEF UpdateFinding, FindingRow
    <2>2. findingSave'.finding = findingSave.finding /\ findingSave'.status = findingSave.status
        BY <1>0, <1>10 DEF UpdateFinding, Saves
    <2> QED
        BY <1>0, <1>10, <2>0, <2>1, <2>2 DEF UpdateFinding, EvidenceTyped
<1>11. CASE ReviewFinding
    <2>0. findingSave # NoSave
        BY <1>11 DEF ReviewFinding, NoSave
    <2>1. finding' \in [Findings -> FindingRow]
        BY <1>0, <1>11, <2>0 DEF ReviewFinding, FindingRow
    <2>2. findingSave'.finding = findingSave.finding /\ findingSave'.status = findingSave.status
        BY <1>0, <1>11 DEF ReviewFinding, Saves
    <2> QED
        BY <1>0, <1>11, <2>0, <2>1, <2>2 DEF ReviewFinding, EvidenceTyped
<1>12. CASE SaveEnds
    BY <1>0, <1>12, ResetInPlay, LabelsReturn DEF SaveEnds, EvidenceTyped
<1>13. CASE UNCHANGED evidenceVars
    BY <1>0, <1>13 DEF evidenceVars, EvidenceTyped
<1> QED
    BY <1>1, <1>2, <1>3, <1>5, <1>6, <1>7, <1>8, <1>9, <1>10, <1>11, <1>12, <1>13 DEF EvidenceNext

LEMMA EvidenceStarts == EvidenceInit => EvidenceTyped
<1> SUFFICES ASSUME EvidenceInit PROVE EvidenceTyped
    OBVIOUS
<1>1. FirstOf(Evidence) \in Evidence \cup {Nothing}
    BY EvidenceAssumption, FirstOfIsListed
<1>2. EvidenceInv
    BY InspectorStarts
<1>3. finding \in [Findings -> FindingRow] /\ shownFindings \in [Findings -> FindingRow]
    <2>1. {[status |-> "candidate", reviewed |-> FALSE], [status |-> "absent", reviewed |-> FALSE]}
          \subseteq FindingRow
        BY EvidenceAssumption DEF FindingRow
    <2> QED
        BY <2>1 DEF EvidenceInit
<1> QED
    BY <1>1, <1>2, <1>3, LabelsReturn DEF EvidenceInit, EvidenceTyped, EvidenceStatuses

LEMMA EvidenceIsTyped == EvidenceTyped => EvidenceTypeOK
<1>1. Labels \subseteq {FindingStatus(t) : t \in FindingStatuses}
    <2>1. /\ FindingStatus("confirmed") = "Confirmed" /\ FindingStatus("archived") = "Archived"
          /\ FindingStatus("false_positive") = "False positive"
          /\ FindingStatus("accepted_risk") = "Accepted risk" /\ FindingStatus("fixed") = "Fixed"
          /\ FindingStatus("needs_review") = "Needs review"
          /\ FindingStatus("candidate") = "Ready for review"
        BY DEF FindingStatus
    <2> QED
        BY <2>1 DEF Labels, FindingStatuses
<1> QED
    BY <1>1 DEF EvidenceTyped, EvidenceInv, InspectorShape, EvidenceTypeOK, MaybeFinding

-----------------------------------------------------------------------------

(* What is shown about a report is of the data that arrived, and each        *)
(* section counts some number of items.                                      *)
OutlineData == [report : OutlineReports, findings : Seq(OutlineFinding), evidence : 0..1]
Section == [enabled : BOOLEAN, counted : Nat, marked : BOOLEAN, complete : BOOLEAN]
LabelsOffered == ReportFindingLabels \cup {PreviewLabel(s) : s \in StatusesOfFindings}

OutlineTyped ==
    /\ outlineData \in OutlineData /\ includedLabels \subseteq LabelsOffered
    /\ sections \in [SectionNames -> Section]
    /\ filteredFor \in Reports \cup {Nothing} /\ touched \subseteq SectionNames

(* Findings and references of a report are finitely many.                    *)
LEMMA CountsAreNumbers ==
    ASSUME NEW d \in OutlineData
    PROVE  Cardinality(BuilderIncluded(d)) \in Nat /\ EvidenceReferences(d) \in Nat
<1>1. d.report.rendered \in Seq(OutlineFinding)
    <2>1. <<>> \in Seq(OutlineFinding) /\ \A f \in OutlineFinding : <<f>> \in Seq(OutlineFinding)
        OBVIOUS
    <2>2. d.report \in OutlineReports
        BY DEF OutlineData
    <2> HIDE DEF OutlineFinding
    <2>3. CASE d.report = NoRow
        BY <2>1, <2>3 DEF NoRow
    <2>4. CASE d.report \in [id : Reports, status : {"draft"}, rendered : {<<>>}]
        BY <2>1, <2>4
    <2> DEFINE shown == {g \in OutlineFinding : g.status \in RenderedStatuses}
    <2>5. CASE d.report \in [id : Reports, status : {"rendered", "final"},
                             rendered : {<<>>} \cup {<<f>> : f \in shown}]
        <3>1. d.report.rendered \in {<<>>} \cup {<<f>> : f \in OutlineFinding}
            BY <2>5
        <3> QED
            BY <2>1, <3>1
    <2> QED
        BY <2>2, <2>3, <2>4, <2>5 DEF OutlineReports
<1>2. BuilderFindings(d) \in Seq(OutlineFinding)
    BY <1>1 DEF BuilderFindings, OutlineData
<1>3. ASSUME NEW list \in Seq(OutlineFinding) PROVE IsFiniteSet(DOMAIN list)
    <2>1. DOMAIN list = 1..Len(list) /\ Len(list) \in Nat
        OBVIOUS
    <2> QED
        BY <2>1, FS_Interval
<1>a. ASSUME NEW list \in Seq(OutlineFinding), NEW i \in DOMAIN list
      PROVE  1..list[i].evidence \subseteq {1}
    <2>1. list[i] \in OutlineFinding
        OBVIOUS
    <2>2. list[i].evidence \in 0..1
        BY <2>1 DEF OutlineFinding
    <2> QED
        BY <2>2
<1>4. Cardinality(BuilderIncluded(d)) \in Nat
    <2>1. BuilderIncluded(d) \in SUBSET DOMAIN BuilderFindings(d)
        BY DEF BuilderIncluded, LabelledFindings
    <2> QED
        BY <1>2, <1>3, <2>1, FS_Subset, FS_CardinalityType
<1>5. Cardinality(RenderedReferences(d.report.rendered)) \in Nat
    <2> DEFINE list == d.report.rendered
               places == DOMAIN list
    <2>0. list \in Seq(OutlineFinding) /\ IsFiniteSet(places)
        BY <1>1, <1>3
    <2>1. IsFiniteSet({1})
        BY FS_Singleton
    <2>2. ASSUME NEW i \in places, NEW r \in {i} \X (1..list[i].evidence)
          PROVE  r \in places \X {1}
        <3>1. 1..list[i].evidence \subseteq {1}
            BY <2>0, <1>a
        <3> QED
            BY <3>1
    <2>3. RenderedReferences(list) \subseteq places \X {1}
        BY <2>2 DEF RenderedReferences
    <2> HIDE DEF places, list
    <2>4. IsFiniteSet(places \X {1})
        BY <2>0, <2>1, FS_Product
    <2>5. IsFiniteSet(RenderedReferences(list))
        BY <2>3, <2>4, FS_Subset
    <2> QED
        BY <2>5, FS_CardinalityType DEF list
<1>6. d.evidence \in Nat
    BY DEF OutlineData
<1> QED
    BY <1>4, <1>5, <1>6 DEF EvidenceReferences

(* A refresh leaves an outline of sections.                                  *)
LEMMA RefreshedAreSections ==
    ASSUME NEW outline \in [SectionNames -> Section], NEW d \in OutlineData
    PROVE  SectionsWithMetrics(outline, d) \in [SectionNames -> Section]
<1>1. ASSUME NEW r \in Section, NEW n \in Nat
      PROVE  [r EXCEPT !.counted = n, !.marked = FALSE, !.complete = n > 0] \in Section
    <2>1. ASSUME NEW done \in BOOLEAN
          PROVE  [r EXCEPT !.counted = n, !.marked = FALSE, !.complete = done] \in Section
        BY DEF Section
    <2>2. (n > 0) \in BOOLEAN
        OBVIOUS
    <2> QED
        BY <2>1, <2>2
<1>2. ASSUME NEW r \in Section
      PROVE  [r EXCEPT !.complete = IsRendered(d.report)] \in Section
    <2>1. ASSUME NEW done \in BOOLEAN PROVE [r EXCEPT !.complete = done] \in Section
        BY DEF Section
    <2>2. IsRendered(d.report) \in BOOLEAN
        BY DEF IsRendered
    <2> QED
        BY <2>1, <2>2
<1> HIDE DEF Section
<1> QED
    BY <1>1, <1>2, CountsAreNumbers DEF SectionsWithMetrics

LEMMA OutlineTypedStarts == OutlineInit => OutlineTyped
<1> SUFFICES ASSUME OutlineInit PROVE OutlineTyped
    OBVIOUS
<1>1. NoData \in OutlineData
    <2>1. NoRow \in OutlineReports /\ <<>> \in Seq(OutlineFinding)
        BY DEF OutlineReports
    <2> QED
        BY <2>1 DEF NoData, OutlineData
<1>2. DefaultSections \in [SectionNames -> Section]
    BY DEF DefaultSections, Section
<1>3. sections \in [SectionNames -> Section]
    BY <1>1, <1>2, RefreshedAreSections DEF OutlineInit
<1> QED
    BY <1>1, <1>3 DEF OutlineInit, OutlineTyped, LabelsOffered

LEMMA OutlineTypedStep == OutlineTyped /\ [OutlineNext]_outlineVars => OutlineTyped'
<1> SUFFICES ASSUME OutlineTyped, [OutlineNext]_outlineVars PROVE OutlineTyped'
    OBVIOUS
<1>0. /\ outlineData \in OutlineData /\ includedLabels \subseteq LabelsOffered
      /\ sections \in [SectionNames -> Section]
      /\ filteredFor \in Reports \cup {Nothing} /\ touched \subseteq SectionNames
    BY DEF OutlineTyped
<1>1. ASSUME NEW d \in OutlineData, DataArrives(d) PROVE OutlineTyped'
    <2>1. CASE EffectDue(outlineData, d)
        <3>1. /\ outlineData' = d /\ includedLabels' = ReportFindingLabels
              /\ sections' = SectionsWithMetrics(sections, d) /\ touched' = {}
              /\ UNCHANGED filteredFor
            BY <1>1, <2>1 DEF DataArrives
        <3> QED
            BY <1>0, <3>1, RefreshedAreSections DEF OutlineTyped, LabelsOffered
    <2>2. CASE ~EffectDue(outlineData, d)
        BY <1>0, <1>1, <2>2 DEF DataArrives, OutlineTyped
    <2> QED
        BY <2>1, <2>2
<1>2. ASSUME NEW r \in OutlineReports PROVE [outlineData EXCEPT !.report = r] \in OutlineData
    BY <1>0 DEF OutlineData
<1>3. ASSUME NEW n \in 0..MaxFindings, NEW list \in [1..n -> OutlineFinding]
      PROVE  [outlineData EXCEPT !.findings = list] \in OutlineData
    <2>1. list \in Seq(OutlineFinding)
        <3>1. n \in Nat
            BY OutlineAssumption
        <3> QED
            BY <3>1
    <2> QED
        BY <1>0, <2>1 DEF OutlineData
<1>4. ASSUME NEW n \in 0..1 PROVE [outlineData EXCEPT !.evidence = n] \in OutlineData
    BY <1>0 DEF OutlineData
<1>5. ASSUME NEW s \in StatusesOfFindings, ToggleStatus(s) PROVE OutlineTyped'
    <2>1. outlineData.report.id \in Reports \cup {Nothing}
        <3>1. outlineData.report \in OutlineReports
            BY <1>0 DEF OutlineData
        <3> QED
            BY <3>1 DEF OutlineReports, NoRow
    <2>2. PreviewLabel(s) \in LabelsOffered
        BY DEF LabelsOffered
    <2> QED
        BY <1>0, <1>5, <2>1, <2>2 DEF ToggleStatus, OutlineTyped
<1>6. ASSUME NEW s \in SectionNames, ToggleSection(s) PROVE OutlineTyped'
    <2>1. [sections[s] EXCEPT !.enabled = ~@, !.complete = ~sections[s].enabled,
                              !.marked = @ \/ sections[s].enabled] \in Section
        BY <1>0 DEF Section
    <2>2. sections' \in [SectionNames -> Section]
        BY <1>0, <1>6, <2>1 DEF ToggleSection
    <2> QED
        BY <1>0, <1>6, <2>2 DEF ToggleSection, OutlineTyped
<1>7. CASE UNCHANGED outlineVars
    BY <1>0, <1>7 DEF outlineVars, OutlineTyped
<1>8. SwitchedSections \subseteq SectionNames
    BY OutlineAssumption DEF SectionNames
<1> QED
    BY <1>1, <1>2, <1>3, <1>4, <1>5, <1>6, <1>7, <1>8 DEF OutlineNext

LEMMA OutlineIsTyped == OutlineTyped => OutlineTypeOK
<1>1. ASSUME NEW list \in Seq(OutlineFinding) PROVE Range(list) \subseteq OutlineFinding
    BY DEF Range
<1> QED
    BY <1>1 DEF OutlineTyped, OutlineTypeOK, OutlineData, LabelsOffered, Section

-----------------------------------------------------------------------------

(* The users page knows whom it may list, choose and check.                  *)
LEMMA SourceIsListed ==
    ASSUME UsersTypeOK
    PROVE  /\ DOMAIN SourceUsers \subseteq ApiUsers \cup ExampleUsers /\ DOMAIN SourceUsers # {}
           /\ VisibleUsers \subseteq DOMAIN SourceUsers /\ SelectedUser \in DOMAIN SourceUsers
<1>1. DOMAIN SourceUsers \subseteq ApiUsers \cup ExampleUsers /\ DOMAIN SourceUsers # {}
    BY DirectoryAssumption DEF SourceUsers, UsersTypeOK
<1>2. DOMAIN SourceUsers \subseteq Nat
    BY <1>1, DirectoryAssumption
<1>3. SelectedUser \in DOMAIN SourceUsers
    BY <1>1, <1>2, FirstOfIsListed DEF SelectedUser, StillOrFirst
<1> QED
    BY <1>1, <1>3 DEF VisibleUsers

LEMMA UsersStart == UsersInit => UsersTypeOK
<1> SUFFICES ASSUME UsersInit PROVE UsersTypeOK
    OBVIOUS
<1>1. DOMAIN listedUsers = {} /\ Range(listedUsers) = {}
    <2>1. DOMAIN <<>> = {}
        OBVIOUS
    <2>2. DOMAIN listedUsers = {}
        BY <2>1 DEF UsersInit
    <2> QED
        BY <2>2 DEF Range
<1>2. FirstOf(ExampleUsers) \in ExampleUsers
    BY DirectoryAssumption, FirstOfIsListed
<1> QED
    BY <1>1, <1>2 DEF UsersInit, UsersTypeOK

LEMMA UsersStep == UsersTypeOK /\ [UsersNext]_usersVars => UsersTypeOK'
<1> SUFFICES ASSUME UsersTypeOK, [UsersNext]_usersVars PROVE UsersTypeOK'
    OBVIOUS
<1>0. VisibleUsers \subseteq ApiUsers \cup ExampleUsers
    BY SourceIsListed
<1>1. ASSUME NEW rows \in [ApiUsers -> RolesInPlay], UsersArrive(rows) PROVE UsersTypeOK'
    <2>1. DOMAIN rows = ApiUsers /\ Range(rows) \subseteq RolesInPlay
        BY DEF Range
    <2> QED
        BY <1>1, <2>1 DEF UsersArrive, UsersTypeOK
<1>2. ASSUME NEW r \in RolesInPlay, UpdateUserRole(SelectedUser, r) PROVE UsersTypeOK'
    BY <1>2 DEF UpdateUserRole, UsersTypeOK
<1>3. ASSUME NEW u \in VisibleUsers, SelectUser(u) \/ ToggleRow(u) PROVE UsersTypeOK'
    BY <1>0, <1>3 DEF SelectUser, ToggleRow, UsersTypeOK
<1>4. ASSUME NEW r \in RolesInPlay \cup {"All roles"}, FilterRole(r) PROVE UsersTypeOK'
    BY <1>4 DEF FilterRole, UsersTypeOK
<1>5. CASE ToggleAllVisible
    BY <1>0, <1>5 DEF ToggleAllVisible, UsersTypeOK
<1>6. CASE UNCHANGED usersVars
    BY <1>6 DEF usersVars, UsersTypeOK
<1> QED
    BY <1>1, <1>2, <1>3, <1>4, <1>5, <1>6 DEF UsersNext

LEMMA ListedAreReal == UsersTypeOK => UsersAreTheApis
<1> SUFFICES ASSUME UsersTypeOK, DOMAIN listedUsers # {} PROVE UsersAreTheApis
    BY DEF UsersAreTheApis
<1>1. SourceUsers = listedUsers /\ DOMAIN listedUsers = ApiUsers
    BY DEF SourceUsers, UsersTypeOK
<1> QED
    BY <1>1, SourceIsListed DEF UsersAreTheApis

-----------------------------------------------------------------------------

(* To its operator each page of the application is as if it were alone: what *)
(* holds of a page by itself holds of it in the application.                 *)
THEOREM PagesKeepTheirSpecs ==
    WebSpec =>
        /\ AuthSpec /\ PanelSpec /\ SessionsSpec /\ SetupSpec /\ BoardSpec /\ EvidenceSpec
        /\ MemorySpec /\ SearchSpec /\ ReportSpec /\ OutlineSpec /\ ConsoleSpec
        /\ HomeSpec /\ OverviewSpec /\ DetailSpec
        /\ UsersInit /\ [][UsersNext]_usersVars
        /\ DirectoryInit /\ [][DirectoryNext]_directory
        /\ [][UNCHANGED page]_page
<1>1. WebInit /\ [][WebNext]_webVars => AuthSpec /\ PanelSpec /\ SessionsSpec /\ SetupSpec
    BY PagesStart, PagesStep, PTL DEF AuthSpec, PanelSpec, SessionsSpec, SetupSpec
<1>2. WebInit /\ [][WebNext]_webVars => BoardSpec /\ EvidenceSpec /\ MemorySpec /\ SearchSpec
    BY PagesStart, PagesStep, PTL DEF BoardSpec, EvidenceSpec, MemorySpec, SearchSpec
<1>3. WebInit /\ [][WebNext]_webVars => ReportSpec /\ OutlineSpec /\ ConsoleSpec /\ HomeSpec
    BY PagesStart, PagesStep, PTL DEF ReportSpec, OutlineSpec, ConsoleSpec, HomeSpec
<1>4. WebInit /\ [][WebNext]_webVars =>
        /\ OverviewSpec /\ DetailSpec
        /\ UsersInit /\ [][UsersNext]_usersVars
        /\ DirectoryInit /\ [][DirectoryNext]_directory
        /\ [][UNCHANGED page]_page
    BY PagesStart, PagesStep, PTL DEF OverviewSpec, DetailSpec
<1> QED
    BY <1>1, <1>2, <1>3, <1>4, PTL DEF WebSpec

(* In the application, whichever page is open: a login that the API admits   *)
(* does not end at the login page, a decided request stays off the home page,*)
(* sessions are composed as chosen, decisions carry the note of their request*)
(* and are announced as the API holds them, what is typed for a finding, a   *)
(* memory or a report is saved there, search, outline and console follow     *)
(* what they are about, and no row of the users page is an example.          *)
THEOREM PagesKeepTheirPromises ==
    WebSpec =>
        /\ [](LoginIsNotStranded /\ DecidedLeavesPanel /\ SessionsAreAsChosen)
        /\ [](DecisionsAreInformed /\ FeedbackIsTrue /\ SavesGoWhereTyped)
        /\ [](EditsGoToTheirMemory /\ NextActionSeesLast /\ TitlesGoHome)
        /\ [](SearchFollows /\ OutlineFollows /\ ConsoleStaysInSession /\ UsersAreTheApis)
<1>1. WebSpec => [](LoginIsNotStranded /\ DecidedLeavesPanel /\ SessionsAreAsChosen)
    BY PagesKeepTheirSpecs, LoginEndsInside, DecidedStaysAway, SessionsComeAsChosen, PTL
<1>2. WebSpec => [](DecisionsAreInformed /\ FeedbackIsTrue /\ SavesGoWhereTyped)
    BY PagesKeepTheirSpecs, DecisionsCarryTheirNote, AnnouncedIsHeld, SavesArrive, PTL
<1>3. WebSpec => [](EditsGoToTheirMemory /\ NextActionSeesLast /\ TitlesGoHome)
    BY PagesKeepTheirSpecs, EditsArriveHome, AcknowledgedIsSeen, TitlesArrive, PTL
<1>4. WebSpec => [](SearchFollows /\ OutlineFollows /\ ConsoleStaysInSession)
    BY PagesKeepTheirSpecs, SearchIsFollowed, OutlineIsFollowed, ConsoleKeepsToSession, PTL
<1>5. WebSpec => []UsersAreTheApis
    BY PagesKeepTheirSpecs, UsersStart, UsersStep, ListedAreReal, PTL
<1> QED
    BY <1>1, <1>2, <1>3, <1>4, <1>5, PTL

(* A click is refused by the API only if another operator moved the row that *)
(* it was offered for, and what the API would accept is offered.             *)
THEOREM OffersAreAccepted == WebSpec => []OfferedIsAccepted
<1>1. SessionsSpec => []ClicksAreAccepted
    BY SessionsStart, SessionsStep, PTL DEF SessionsSpec, SessionsInv
<1>2. ClicksAreAccepted /\ FinalizeIsAccepted => OfferedIsAccepted
    BY OffersAreComplete DEF OfferedIsAccepted
<1> QED
    BY <1>1, <1>2, PagesKeepTheirSpecs, FinalizeNeverRefused, PTL

(* The pages that show a list of the API hold a list that they know.         *)
LEMMA HomeTyped ==
    HomeSpec => [](homeList.of \in {"nothing", "sessions", "tasks", "runtime", "findings",
                                    "jobs", "events", "work"})
<1> DEFINE Typed == homeList.of \in {"nothing", "sessions", "tasks", "runtime", "findings",
                                     "jobs", "events", "work"}
<1>1. HomeInit => Typed
    BY DEF HomeInit
<1>2. Typed /\ [HomeNext]_homeList => Typed'
    <2>1. FetchOneList \/ (\E list \in {"findings", "jobs"} : CountTwice(list)) => Typed'
        BY DEF FetchOneList, CountTwice, FetchHomeList
    <2>2. \A rows, active, answered : Become(rows, active, answered) => homeList'.of = homeList.of
        BY DEF Become, FetchHomeList
    <2> QED
        BY <2>1, <2>2 DEF HomeNext, RowAppears, RowMoves, FetchActive, FetchSessionRows,
                          FetchAnalytics
<1> QED
    BY <1>1, <1>2, PTL DEF HomeSpec

LEMMA OverviewTyped ==
    OverviewSpec => [](overview.of \in {"nothing", "approvals", "sessions", "findings"})
<1> DEFINE Typed == overview.of \in {"nothing", "approvals", "sessions", "findings"}
<1>1. OverviewInit => Typed
    BY DEF OverviewInit
<1>2. Typed /\ [OverviewNext]_overview => Typed'
    BY DEF OverviewNext, FetchOverview
<1> QED
    BY <1>1, <1>2, PTL DEF OverviewSpec

LEMMA DetailTyped ==
    DetailSpec => [](detail.of \in {"nothing", "approval", "call", "runtime", "writes", "risks"})
<1> DEFINE Typed == detail.of \in {"nothing", "approval", "call", "runtime", "writes", "risks"}
<1>1. DetailInit => Typed
    BY DEF DetailInit
<1>2. Typed /\ [DetailNext]_detail => Typed'
    BY DEF DetailNext, ShowDetail
<1> QED
    BY <1>1, <1>2, PTL DEF DetailSpec

LEMMA DirectoryTyped ==
    DirectoryInit /\ [][DirectoryNext]_directory =>
        [](directory.of \in {"nothing", "providers", "tools", "sessions", "severities"})
<1> DEFINE Typed == directory.of \in {"nothing", "providers", "tools", "sessions", "severities"}
<1>1. DirectoryInit => Typed
    BY DEF DirectoryInit
<1>2. Typed /\ [DirectoryNext]_directory => Typed'
    BY DEF DirectoryNext, FetchDirectory
<1> QED
    BY <1>1, <1>2, PTL

(* The open page keeps to its types, and its selections, fields and requests *)
(* to rows that exist.                                                       *)
THEOREM PagesAreTyped == WebSpec => []WebTypeOK
<1>1. AuthSpec => []AuthTypeOK
    <2>1. AuthInit => AuthInv
        BY DEF AuthInit, AuthInv, AuthTypeOK, AdmittedIsKnown, LoginIsNotStranded, MountMe, Led,
               Lead, Answers, FirstFetch, MeLoading, Authenticated
    <2> QED
        BY <2>1, AuthInvStep, PTL DEF AuthSpec, AuthInv
<1>2. SessionsSpec => []SessionsTypeOK
    BY SessionsStart, SessionsStep, PTL DEF SessionsSpec, SessionsInv
<1>3. SetupSpec => []SetupTypeOK
    BY SetupStarts, SetupStep, PTL DEF SetupSpec, SetupInv
<1>4. EvidenceSpec => []EvidenceTypeOK
    BY EvidenceStarts, EvidenceTypedStep, EvidenceIsTyped, PTL DEF EvidenceSpec
<1>5. SearchSpec => []SearchTypeOK
    BY SearchStarts, SearchStep, PTL DEF SearchSpec, SearchInv
<1>6. ReportSpec => []ReportTypeOK
    BY ReportInvariant, PTL DEF ReportInv
<1>7. OutlineSpec => []OutlineTypeOK
    BY OutlineTypedStarts, OutlineTypedStep, OutlineIsTyped, PTL DEF OutlineSpec
<1>8. ConsoleSpec => []ConsoleTypeOK
    BY ConsoleStarts, ConsoleStep, PTL DEF ConsoleSpec, ConsoleInv
<1>9. WebSpec => [](page \in AllPages)
    <2>1. WebInit => page \in AllPages
        BY WebAssumption DEF WebInit
    <2>2. page \in AllPages /\ [WebNext]_webVars => (page \in AllPages)'
        BY PagesStep
    <2> QED
        BY <2>1, <2>2, PTL DEF WebSpec
<1>10. WebSpec => [](UsersTypeOK)
    BY PagesKeepTheirSpecs, UsersStart, UsersStep, PTL
<1> DEFINE Typed ==
          /\ AuthTypeOK /\ PanelTypeOK /\ SessionsTypeOK /\ SetupTypeOK /\ BoardTypeOK
          /\ EvidenceTypeOK /\ MemoryTypeOK /\ SearchTypeOK /\ ReportTypeOK /\ OutlineTypeOK
          /\ ConsoleTypeOK /\ UsersTypeOK
          /\ homeList.of \in {"nothing", "sessions", "tasks", "runtime", "findings", "jobs", "events", "work"}
          /\ overview.of \in {"nothing", "approvals", "sessions", "findings"}
          /\ detail.of \in {"nothing", "approval", "call", "runtime", "writes", "risks"}
          /\ directory.of \in {"nothing", "providers", "tools", "sessions", "severities"}
<1>11. Typed /\ page \in AllPages => WebTypeOK
    BY DEF AllPages, WebTypeOK
<1>12. WebSpec => []Typed
    BY <1>1, <1>2, <1>3, <1>4, <1>5, <1>6, <1>7, <1>8, <1>10, PagesKeepTheirSpecs, PanelTypeCorrect,
       BoardTypeCorrect, MemoryTypeCorrect, HomeTyped, OverviewTyped, DetailTyped, DirectoryTyped, PTL
<1> QED
    BY <1>9, <1>11, <1>12, PTL

-----------------------------------------------------------------------------

(* What the statuses of findings say of the report does not differ.          *)
LEMMA InclusionsAgree == InclusionAgrees
    BY DEF InclusionAgrees, FindingStatuses, ReportInclusion, IncludedStatuses, PreviewLabel,
           ReportFindingLabels, RenderedStatuses

(* One row is told alike on every page: statuses and tabs, runtimes, current *)
(* steps and reported findings, in lists of any length and plans of any size.*)
THEOREM PagesTellAlike == WebSpec => []PagesAgree
<1>1. HomeListTyped => PagesAgree
    BY TabsHold, RuntimesHold, StepsHold, InclusionsAgree DEF PagesAgree
<1> QED
    BY <1>1, PagesKeepTheirSpecs, HomeListIsTyped, PTL

(* A row and the panel beside it tell what the API has, whatever lists are   *)
(* fetched: a row of evidence is worded as the finding that it names, no     *)
(* example rows stand beside real ones, no write that was refused is listed, *)
(* and no lock, status, check, output or card contradicts another one.       *)
THEOREM RowsTellTheTruth == WebSpec => []RowsTell
<1>1. OverviewListed /\ DetailListed /\ DirectoryListed /\ UsersTypeOK => RowsTell
    BY LinkedAgree, ApprovalAgrees, AuditAgrees, ChecksHold, WritesAgree, CardsHold,
       ListedAreReal DEF RowsTell
<1>2. WebSpec => []UsersTypeOK
    BY PagesKeepTheirSpecs, UsersStart, UsersStep, PTL
<1> QED
    BY <1>1, <1>2, PagesKeepTheirSpecs, OverviewIsListed, DetailIsListed, DirectoryIsListed, PTL

(* Of answers of one moment, for lists of any length and whatever is         *)
(* rounded: pending approvals are one number on the five places that tell    *)
(* it, numbers above the lists of approvals and sessions add up to the       *)
(* lists, sessions completed are as many on the analytics page, whose rates, *)
(* ring and shares fill the whole, as the risks of a report do; and the card *)
(* of confirmed findings disagrees with the evidence page just when a        *)
(* finding is confirmed, since it tells zero.                                *)
THEOREM NumbersAddUpAlways == WebSpec => []NumbersAddUp
<1>1. OverviewListed /\ DetailListed /\ DirectoryListed => NumbersAddUp
    BY PendingAgrees, ApprovalsAgree, SessionsAgree, AnalyticsAgree, RisksAgree, ConfirmedCardHolds
    DEF NumbersAddUp
<1> QED
    BY <1>1, PagesKeepTheirSpecs, OverviewIsListed, DetailIsListed, DirectoryIsListed, PTL
=============================================================================
