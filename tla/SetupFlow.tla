----------------------------- MODULE SetupFlow -----------------------------
(* Setting up an assessment: NewAssessmentSetupPage with its targets and     *)
(* guardrails, useNewAssessmentSetup, and the requests of                    *)
(* useCreateAssessmentFlow, each of which may fail.                          *)
EXTENDS WebLists

CONSTANTS
    TargetRows,        \* rows that the table of targets may have
    Options,           \* for each kind of choice, its options in their order
    OptionStatuses,    \* absent, active or disabled: those in play
    Unstable           \* the options that administrators change

Kinds == {"provider", "policy"}
AnyOption == Options["provider"] \cup Options["policy"]

ASSUME SetupAssumption ==
    /\ Options \in [Kinds -> SUBSET (Nat \ {0})] /\ IsFiniteSet(AnyOption)
    /\ Unstable \in [Kinds -> SUBSET AnyOption]
    /\ {"absent", "active"} \subseteq OptionStatuses
    /\ TargetRows # {}

VARIABLES
    option,            \* status of each option in the database
    shownOption,       \* as last fetched by the page
    chosen,            \* the selected option of each kind
    named,             \* the project name is filled in
    row,               \* the rows of the table of targets
    flow,              \* the creation in flight
    project            \* the project of that creation in the database

setupVars == <<option, shownOption, chosen, named, row, flow, project>>
setupForm == <<chosen, named, row>>

RowStates == {"none", "blank", "In scope", "Excluded"}
OptionTable == [Kinds -> [AnyOption -> OptionStatuses]]
EmptyList == [o \in AnyOption |-> "absent"]
NoChoice == [k \in Kinds |-> Nothing]
Choice == [Kinds -> AnyOption \cup {Nothing}]

NoFlow == [phase |-> "none", row |-> [t \in TargetRows |-> "none"],
           chosen |-> NoChoice, listed |-> [k \in Kinds |-> EmptyList]]
NoProject == [state |-> "absent", excluded |-> {}, targets |-> {}, used |-> NoChoice]

InState(r, s) == {t \in TargetRows : r[t] = s}
ListedOptions(list) == {o \in AnyOption : list[o] # "absent"}

(* The first active option, else the first.                                  *)
ActiveFirst(list) ==
    LET active == {o \in AnyOption : list[o] = "active"}
    IN IF active # {} THEN FirstOf(active) ELSE FirstOf(ListedOptions(list))

(* The effects of the page: what is not chosen becomes the default.          *)
WithDefaults(choice, table) ==
    [k \in Kinds |-> IF choice[k] # Nothing THEN choice[k]
                     ELSE ActiveFirst(table[k])]

SetupInit ==
    /\ option \in {t \in OptionTable : \A k \in Kinds, o \in AnyOption :
                       t[k][o] = (IF o \in Options[k] THEN "active" ELSE "absent")}
    /\ shownOption = [k \in Kinds |-> EmptyList]
    /\ chosen = NoChoice /\ named = FALSE
    /\ \E t \in TargetRows : row = [r \in TargetRows |-> IF r = t THEN "blank" ELSE "none"]
    /\ flow = NoFlow
    /\ project = NoProject

-----------------------------------------------------------------------------

(* Administrators disable, delete and restore provider profiles and policies.*)
OthersChangeOption(k, o, status) ==
    /\ o \in Unstable[k] /\ option[k][o] # status
    /\ option' = [option EXCEPT ![k][o] = status]
    /\ UNCHANGED <<shownOption, setupForm, flow, project>>

(* The two lists are fetched on mount and on reconnect.                      *)
FetchOptions ==
    /\ shownOption # option
    /\ shownOption' = option
    /\ chosen' = WithDefaults(chosen, option)
    /\ UNCHANGED <<option, named, row, flow, project>>

(* Selecting nothing is undone by the effect.                                *)
ChooseOption(k, o) ==
    /\ o \in ListedOptions(shownOption[k]) \cup {Nothing} /\ o # chosen[k]
    /\ chosen' = WithDefaults([chosen EXCEPT ![k] = o], shownOption)
    /\ UNCHANGED <<option, shownOption, named, row, flow, project>>

NameProject ==
    /\ named' = ~named
    /\ UNCHANGED <<option, shownOption, chosen, row, flow, project>>

HandleAddTarget(t) ==
    /\ row[t] = "none"
    /\ row' = [row EXCEPT ![t] = "blank"]
    /\ UNCHANGED <<option, shownOption, chosen, named, flow, project>>

(* Mutant: the last row can be removed, too.                                 *)
RowsWithoutLast(t) == [row EXCEPT ![t] = "none"]

(* The last row that is removed is replaced by a blank one.                  *)
RowsWithout(t) ==
    [row EXCEPT ![t] = IF InState(row, "none") = TargetRows \ {t} THEN "blank" ELSE "none"]

HandleRemoveTarget(t) ==
    /\ row[t] # "none"
    /\ row' = RowsWithout(t)
    /\ UNCHANGED <<option, shownOption, chosen, named, flow, project>>

HandleUpdateTarget(t, state) ==
    /\ row[t] # "none" /\ state \notin {"none", row[t]}
    /\ row' = [row EXCEPT ![t] = state]
    /\ UNCHANGED <<option, shownOption, chosen, named, flow, project>>

-----------------------------------------------------------------------------

CanSave ==
    /\ named /\ InState(row, "In scope") # {}
    /\ \A k \in Kinds : chosen[k] # Nothing

(* The items of the checklist beside the button that are complete.           *)
CompleteItems ==
    (IF named THEN {"Project name is set"} ELSE {}) \cup
    (IF InState(row, "In scope") # {}
     THEN {"At least one in-scope target", "Scope rules can be generated"} ELSE {}) \cup
    {k \in Kinds : chosen[k] \in ListedOptions(shownOption[k])}

ChecklistItems == {"Project name is set", "At least one in-scope target",
                   "Scope rules can be generated"} \cup Kinds

HandleSaveContinue ==
    /\ CanSave /\ flow = NoFlow
    /\ flow' = [NoFlow EXCEPT !.phase = "listing", !.row = row, !.chosen = chosen]
    /\ UNCHANGED <<option, shownOption, setupForm, project>>

(* The flow asks for both lists anew; a request that fails counts as an      *)
(* empty list.                                                               *)
ListChoices(failed) ==
    /\ flow.phase = "listing"
    /\ flow' = [flow EXCEPT !.phase = "project", !.listed =
                   [k \in Kinds |-> IF k \in failed THEN EmptyList ELSE option[k]]]
    /\ UNCHANGED <<option, shownOption, setupForm, project>>

CreateProject ==
    /\ flow.phase = "project"
    /\ project' = [NoProject EXCEPT !.state = "created"]
    /\ flow' = [flow EXCEPT !.phase = "scope"]
    /\ UNCHANGED <<option, shownOption, setupForm>>

CreateScope ==
    /\ flow.phase = "scope"
    /\ project' = [project EXCEPT !.state = "scoped",
                                  !.excluded = InState(flow.row, "Excluded")]
    /\ flow' = [flow EXCEPT !.phase = "targets"]
    /\ UNCHANGED <<option, shownOption, setupForm>>

(* One request for each target in scope, all at once.                        *)
CreateTarget(t) ==
    /\ flow.phase = "targets"
    /\ t \in InState(flow.row, "In scope") \ project.targets
    /\ project' = [project EXCEPT !.targets = @ \cup {t}]
    /\ UNCHANGED <<option, shownOption, setupForm, flow>>

(* The chosen option if it is listed, else the default, else none.           *)
Used(k, list) ==
    IF flow.chosen[k] \in ListedOptions(list) THEN flow.chosen[k] ELSE ActiveFirst(list)

(* Mutant: the session is created without waiting for the targets.           *)
TargetsSent == TRUE

TargetsCreated == project.targets = InState(flow.row, "In scope")

CreateSession ==
    /\ flow.phase = "targets" /\ TargetsCreated
    /\ project' = [project EXCEPT !.state = "session",
           !.used = [k \in Kinds |-> Used(k, flow.listed[k])]]
    /\ flow' = [flow EXCEPT !.phase = "done"]
    /\ UNCHANGED <<option, shownOption, setupForm>>

(* A request that fails, or whose answer is lost, ends the flow with an      *)
(* error; nothing is undone, and saving again starts from the beginning with *)
(* another project. No step of the page reads the one that was left.         *)
FlowFails ==
    /\ flow.phase \notin {"none", "listing"}
    /\ flow' = NoFlow /\ project' = NoProject
    /\ UNCHANGED <<option, shownOption, setupForm>>

(* The page moves on to the session; a later visit finds a blank form.       *)
FlowSucceeds ==
    /\ flow.phase = "done"
    /\ flow' = NoFlow /\ project' = NoProject /\ named' = FALSE /\ chosen' = WithDefaults(NoChoice, shownOption)
    /\ \E t \in TargetRows : row' = [r \in TargetRows |-> IF r = t THEN "blank" ELSE "none"]
    /\ UNCHANGED <<option, shownOption>>

SetupNext ==
    \/ \E k \in Kinds :
           \/ \E o \in AnyOption, s \in OptionStatuses : OthersChangeOption(k, o, s)
           \/ \E o \in AnyOption \cup {Nothing} : ChooseOption(k, o)
    \/ FetchOptions \/ NameProject
    \/ \E t \in TargetRows :
           \/ HandleAddTarget(t) \/ HandleRemoveTarget(t) \/ CreateTarget(t)
           \/ \E s \in RowStates : HandleUpdateTarget(t, s)
    \/ HandleSaveContinue
    \/ \E failed \in SUBSET Kinds : ListChoices(failed)
    \/ CreateProject \/ CreateScope \/ CreateSession \/ FlowFails \/ FlowSucceeds

SetupSpec == SetupInit /\ [][SetupNext]_setupVars

-----------------------------------------------------------------------------

SetupTypeOK ==
    /\ option \in OptionTable /\ shownOption \in OptionTable
    /\ chosen \in Choice /\ named \in BOOLEAN
    /\ row \in [TargetRows -> RowStates] /\ row # [t \in TargetRows |-> "none"]
    /\ flow \in [phase : {"none", "listing", "project", "scope", "targets", "done"},
                 row : [TargetRows -> RowStates],
                 chosen : Choice, listed : OptionTable]
    /\ project \in [state : {"absent", "created", "scoped", "session"}, used : Choice,
                    excluded : SUBSET TargetRows, targets : SUBSET TargetRows]

(* A session is only created for a project whose scope and targets are all   *)
(* there as they were when it was saved, although the form can be edited     *)
(* meanwhile and the targets are created by requests of their own.           *)
SessionsAreComplete ==
    flow.phase = "done" =>
        /\ project.targets = InState(flow.row, "In scope")
        /\ project.excluded = InState(flow.row, "Excluded")
        /\ project.targets # {}

(* A session runs under another policy or provider than the one chosen, or   *)
(* under none, only if the chosen one was not in the list that the flow got. *)
ChosenUnlessGone ==
    flow.phase = "done" => \A k \in Kinds :
        \/ project.used[k] = flow.chosen[k]
        \/ flow.chosen[k] \notin ListedOptions(flow.listed[k])

(* The button and the checklist beside it agree: whoever has completed the   *)
(* list can save, and can save only then unless a choice was deleted.        *)
ChecklistTells ==
    /\ CompleteItems = ChecklistItems => CanSave
    /\ CanSave => ChecklistItems \ CompleteItems \subseteq Kinds

(* What the operator is told to choose, and chose, is what the session gets: *)
(* its targets all created, its policy and provider unless they were gone.   *)
SessionsAreAsChosen == SessionsAreComplete /\ ChosenUnlessGone /\ ChecklistTells
=============================================================================
