---------------------------- MODULE MemoryBoard ----------------------------
(* The memory page: MemoryPage with its panel, and the queries and mutations *)
(* of useMemoryLibrary. A memory is edited in a form that belongs to the     *)
(* panel and acted upon through one mutation at a time.                      *)
EXTENDS WebLists

CONSTANTS
    Memories,          \* numbered in the order of the list
    OldMemories,       \* those that may be approved at first; agents propose the others
    MemoryViews,       \* tab and status filter of the toolbar that are explored
    MaxWrites          \* bound on the writes to a memory

MemoryTabs == {"Candidate", "Approved", "Rejected", "Archived", "Blocked"}
OpenStatuses == MemoryTabs \ {"Archived"}

ASSUME MemoryAssumption ==
    /\ Memories \subseteq Nat \ {0} /\ IsFiniteSet(Memories)
    /\ MemoryViews \subseteq [tab : MemoryTabs, open : BOOLEAN] /\ MemoryViews # {}
    /\ OldMemories \subseteq Memories /\ MaxWrites \in Nat

VARIABLES
    memory,            \* the documents in the database
    embedJobs,         \* documents with an embedding job
    shownMemories,     \* the documents last fetched
    memoryError,       \* the last fetch failed, and the page says so
    memoryView,
    selectedMemory,
    draftOf,           \* the memory whose text is in the edit form, if any
    memoryAction,      \* the mutation in flight
    acknowledged       \* the version this operator last wrote and had acknowledged

memoryVars == <<memory, embedJobs, shownMemories, memoryError, memoryView, selectedMemory,
                draftOf, memoryAction, acknowledged>>
memoryServer == <<memory, embedJobs>>
memoryCache == <<shownMemories, memoryError>>

Stored(status, flagged, embedding, visibility) ==
    [status |-> status, flagged |-> flagged, embedding |-> embedding,
     visibility |-> visibility, version |-> 0]
NoMemory == Stored("absent", FALSE, "pending", "session")
MemoryRow == [status : {"absent", "candidate", "approved", "rejected"}, flagged : BOOLEAN,
              embedding : {"pending", "blocked", "embedded", "failed"},
              visibility : {"session", "project", "workspace"}, version : 0 .. MaxWrites]
NoMemoryAction == [phase |-> "none", kind |-> "none", memory |-> Nothing,
                   draft |-> Nothing, at |-> 0, wide |-> "none"]
(* The tab of a document: flagged content counts as blocked, whatever the    *)
(* review said.                                                              *)
MemoryStatus(row) ==
    CASE row.flagged \/ row.embedding = "blocked" -> "Blocked"
      [] row.status = "approved" -> "Approved"
      [] row.status = "rejected" -> "Rejected"
      [] row.status = "archived" -> "Archived"
      [] OTHER                   -> "Candidate"

Listed(shown) == {m \in Memories : shown[m].status # "absent"}

VisibleMemories ==
    {m \in Listed(shownMemories) :
        /\ MemoryStatus(shownMemories[m]) = memoryView.tab
        /\ memoryView.open => memoryView.tab \in OpenStatuses}

MemoryInit ==
    /\ memory \in [Memories -> {NoMemory, Stored("approved", FALSE, "embedded", "project")}]
    /\ \A m \in Memories \ OldMemories : memory[m] = NoMemory
    /\ embedJobs = {}
    /\ shownMemories = [m \in Memories |-> NoMemory] /\ memoryError = FALSE
    /\ memoryView \in MemoryViews
    /\ selectedMemory = Nothing /\ draftOf = Nothing
    /\ memoryAction = NoMemoryAction
    /\ acknowledged = [m \in Memories |-> 0]

-----------------------------------------------------------------------------

(* Content is scanned whenever it is written: it is flagged, or it waits to  *)
(* be embedded. Editing does not change the review and queues no job.        *)
Rewritten(row, flagged) ==
    [row EXCEPT !.flagged = flagged, !.embedding = IF flagged THEN "blocked" ELSE "pending",
                !.version = @ + 1]

Created(flagged, visibility) ==
    Stored("candidate", flagged, IF flagged THEN "blocked" ELSE "pending", visibility)

AgentProposesMemory(m, flagged) ==
    /\ m \notin OldMemories /\ memory[m] = NoMemory
    /\ memory' = [memory EXCEPT ![m] = Created(flagged, "session")]
    /\ UNCHANGED <<embedJobs, memoryCache, memoryView, selectedMemory, draftOf,
                   memoryAction, acknowledged>>

OtherEditsMemory(m, flagged) ==
    /\ memory[m] # NoMemory /\ memory[m].version < MaxWrites
    /\ memory' = [memory EXCEPT ![m] = Rewritten(@, flagged)]
    /\ UNCHANGED <<embedJobs, memoryCache, memoryView, selectedMemory, draftOf,
                   memoryAction, acknowledged>>

(* The job of an approval: it fails for a memory that is no longer approved, *)
(* blocks one that is flagged by then, and may fail at the provider.         *)
EmbedMemory(m, embedded) ==
    /\ m \in embedJobs
    /\ embedJobs' = embedJobs \ {m}
    /\ memory' = [memory EXCEPT ![m].embedding =
                    IF memory[m].status # "approved" THEN "failed"
                    ELSE IF memory[m].flagged THEN "blocked"
                    ELSE IF embedded THEN "embedded" ELSE "failed"]
    /\ UNCHANGED <<memoryCache, memoryView, selectedMemory, draftOf, memoryAction, acknowledged>>

(* Mutant: the form survives a render of the page.                           *)
DraftKept == UNCHANGED draftOf

(* A render of the page maps every document anew, and each new memory object *)
(* closes the form of the panel.                                             *)
DraftReset == draftOf' = Nothing

(* The effect of the page: a selection that is not listed becomes the first. *)
Reselect(m, shown) == selectedMemory' = StillOrFirst(m, Listed(shown))

(* The answer of the 15 s poll; one that changes nothing does not render.    *)
FetchMemories ==
    /\ memoryAction.phase # "acknowledged"
    /\ shownMemories # memory \/ memoryError
    /\ shownMemories' = memory /\ memoryError' = FALSE
    /\ DraftReset /\ Reselect(selectedMemory, memory)
    /\ UNCHANGED <<memoryServer, memoryView, memoryAction, acknowledged>>

SelectMemory(m) ==
    /\ m \in VisibleMemories /\ m # selectedMemory
    /\ DraftReset /\ selectedMemory' = m
    /\ UNCHANGED <<memoryServer, memoryCache, memoryView, memoryAction, acknowledged>>

(* Closing the panel clears the selection, and the effect selects the first. *)
CloseMemory ==
    /\ DraftReset /\ Reselect(Nothing, shownMemories)
    /\ UNCHANGED <<memoryServer, memoryCache, memoryView, memoryAction, acknowledged>>

(* Tab, filters, the search panel and the checkboxes of the table, which no  *)
(* action uses: whatever changes, the page renders.                          *)
ChangeMemoryView(view) ==
    /\ memoryView' = view /\ DraftReset
    /\ UNCHANGED <<memoryServer, memoryCache, selectedMemory, memoryAction, acknowledged>>

Busy == memoryAction # NoMemoryAction

(* Editing is a state of the panel: the page is not rendered.                *)
EditMemory ==
    /\ selectedMemory # Nothing /\ draftOf = Nothing /\ ~Busy
    /\ draftOf' = selectedMemory
    /\ UNCHANGED <<memoryServer, memoryCache, memoryView, selectedMemory, memoryAction, acknowledged>>

CancelEdit ==
    /\ draftOf # Nothing /\ ~Busy
    /\ draftOf' = Nothing
    /\ UNCHANGED <<memoryServer, memoryCache, memoryView, selectedMemory, memoryAction, acknowledged>>

(* Starting a mutation renders the page.                                     *)
Request(kind, m, wide) ==
    /\ ~Busy
    /\ memoryAction' = [phase |-> "sent", kind |-> kind, memory |-> m,
                        draft |-> draftOf, at |-> 0, wide |-> wide]
    /\ DraftReset
    /\ UNCHANGED <<memoryServer, memoryCache, memoryView, selectedMemory, acknowledged>>

CreateMemory == Request("create", Nothing, "none")

SaveEdit == draftOf # Nothing /\ Request("update", selectedMemory, "none")

(* A provider profile is required too; the model's workspace has one.        *)
CanApprove ==
    LET row == shownMemories[selectedMemory] IN MemoryStatus(row) # "Approved" /\ ~row.flagged

ApproveMemory ==
    /\ selectedMemory # Nothing /\ draftOf = Nothing
    /\ CanApprove
    /\ Request("approve", selectedMemory, "none")

RejectMemory ==
    /\ selectedMemory # Nothing /\ draftOf = Nothing
    /\ Request("reject", selectedMemory, "none")

CanPromote == LET row == shownMemories[selectedMemory]
              IN MemoryStatus(row) = "Approved" /\ row.visibility # "workspace"

PromoteMemory ==
    /\ selectedMemory # Nothing /\ draftOf = Nothing
    /\ CanPromote
    /\ Request("promote", selectedMemory,
               IF shownMemories[selectedMemory].visibility = "session"
               THEN "project" ELSE "workspace")

-----------------------------------------------------------------------------

(* What the API makes of a request; approving content that is flagged and    *)
(* promoting what is not approved is refused.                                *)
Refused(row, kind) ==
    \/ kind = "approve" /\ row.flagged
    \/ kind = "promote" /\ row.status # "approved"

(* A refused approval still records its review: a candidate that is blocked. *)
RefuseApproval ==
    /\ memoryAction.phase = "sent" /\ memoryAction.kind = "approve"
    /\ Refused(memory[memoryAction.memory], "approve")
    /\ memory' = [memory EXCEPT ![memoryAction.memory].status = "candidate",
                                ![memoryAction.memory].embedding = "blocked"]
    /\ memoryAction' = [memoryAction EXCEPT !.phase = "refused"]
    /\ UNCHANGED <<embedJobs, memoryCache, memoryView, selectedMemory, draftOf, acknowledged>>

Applied(row, kind, flagged, wide) ==
    CASE kind = "create"  -> Created(FALSE, "workspace")
      [] kind = "update"  -> Rewritten(row, flagged)
      [] kind = "approve" -> [row EXCEPT !.status = "approved", !.embedding = "pending",
                                         !.version = @ + 1]
      [] kind = "reject"  -> [row EXCEPT !.status = "rejected", !.version = @ + 1]
      [] kind = "promote" -> [row EXCEPT !.visibility = wide, !.version = @ + 1]

CommitMemory(m, flagged) ==
    /\ memoryAction.phase = "sent"
    /\ IF memoryAction.kind = "create" THEN memory[m] = NoMemory
       ELSE m = memoryAction.memory /\ memory[m].version < MaxWrites
    /\ ~Refused(memory[m], memoryAction.kind)
    /\ memory' = [memory EXCEPT ![m] = Applied(@, memoryAction.kind, flagged, memoryAction.wide)]
    /\ embedJobs' = IF memoryAction.kind = "approve" THEN embedJobs \cup {m} ELSE embedJobs
    /\ memoryAction' = [memoryAction EXCEPT !.phase = "committed", !.memory = m,
                                            !.at = memory'[m].version]
    /\ UNCHANGED <<memoryCache, memoryView, selectedMemory, draftOf, acknowledged>>

(* Mutant: the hook does not wait for the list to be fetched again.          *)
NotAwaited ==
    /\ memoryAction.phase = "committed"
    /\ acknowledged' = [acknowledged EXCEPT ![memoryAction.memory] = memoryAction.at]
    /\ memoryAction' = NoMemoryAction
    /\ DraftReset
    /\ UNCHANGED <<memoryServer, memoryCache, memoryView, selectedMemory>>

(* onSuccess of the hook: the mutation stays pending until the lists that it *)
(* invalidates are fetched again, and the poll's own fetch is cancelled.     *)
MemoryAcknowledged ==
    /\ memoryAction.phase = "committed"
    /\ acknowledged' = [acknowledged EXCEPT ![memoryAction.memory] = memoryAction.at]
    /\ memoryAction' = [memoryAction EXCEPT !.phase = "acknowledged"]
    /\ UNCHANGED <<memoryServer, memoryCache, memoryView, selectedMemory, draftOf>>

(* That fetch succeeds, or fails twice and reports an error. A memory that   *)
(* was created is then selected.                                             *)
MemoryRefetched(succeeds) ==
    LET shown == IF succeeds THEN memory ELSE shownMemories
        made == memoryAction.kind = "create"
    IN /\ memoryAction.phase = "acknowledged"
       /\ shownMemories' = shown /\ memoryError' = ~succeeds
       /\ memoryAction' = NoMemoryAction
       /\ Reselect(IF made THEN memoryAction.memory ELSE selectedMemory, shown)
       /\ DraftReset
       /\ UNCHANGED <<memoryServer, memoryView, acknowledged>>

(* The API refuses, or the request or its answer is lost.                    *)
MemoryActionFails ==
    /\ memoryAction.phase \in {"sent", "committed", "refused"}
    /\ memoryAction' = NoMemoryAction /\ DraftReset
    /\ UNCHANGED <<memoryServer, memoryCache, memoryView, selectedMemory, acknowledged>>

MemoryNext ==
    \/ \E m \in Memories, flagged \in BOOLEAN :
           AgentProposesMemory(m, flagged) \/ OtherEditsMemory(m, flagged) \/ CommitMemory(m, flagged)
    \/ \E m \in Memories : SelectMemory(m) \/ \E embedded \in BOOLEAN : EmbedMemory(m, embedded)
    \/ RefuseApproval
    \/ FetchMemories \/ CloseMemory \/ EditMemory \/ CancelEdit
    \/ \E view \in MemoryViews : ChangeMemoryView(view)
    \/ CreateMemory \/ SaveEdit \/ ApproveMemory \/ RejectMemory \/ PromoteMemory
    \/ MemoryAcknowledged
    \/ \E succeeds \in BOOLEAN : MemoryRefetched(succeeds)
    \/ MemoryActionFails

MemorySpec == MemoryInit /\ [][MemoryNext]_memoryVars

-----------------------------------------------------------------------------

MemoryTypeOK ==
    /\ memory \in [Memories -> MemoryRow] /\ shownMemories \in [Memories -> MemoryRow]
    /\ embedJobs \subseteq Memories /\ memoryError \in BOOLEAN
    /\ memoryView \in MemoryViews
    /\ {selectedMemory, draftOf} \subseteq Memories \cup {Nothing}
    /\ memoryAction \in [phase : {"none", "sent", "refused", "committed", "acknowledged"},
           kind : {"none", "create", "update", "approve", "reject", "promote"},
           memory : Memories \cup {Nothing}, draft : Memories \cup {Nothing},
           at : 0 .. MaxWrites, wide : {"none", "project", "workspace"}]
    /\ acknowledged \in [Memories -> 0 .. MaxWrites]

(* The text of the form is saved to the memory that it was typed for,        *)
(* although polls, other operators and filters render the page under it.     *)
EditsGoToTheirMemory ==
    /\ draftOf \in {Nothing, selectedMemory}
    /\ memoryAction.kind = "update" => memoryAction.draft = memoryAction.memory

(* When the panel is usable again after a change that was acknowledged, it   *)
(* shows that change or a later one, or the page shows an error: the next    *)
(* action does not start from what the operator has just replaced.           *)
NextActionSeesLast ==
    ~Busy /\ ~memoryError =>
        \A m \in Memories : shownMemories[m].version >= acknowledged[m]
=============================================================================
