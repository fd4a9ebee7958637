---------------------------- MODULE MemorySearch ----------------------------
(* The semantic search of the memory page ("approved only"). Its answer is   *)
(* cached per search: what was typed, the visibility and the limit chosen.   *)
(* Every keystroke is another search, a search that was left keeps its fetch *)
(* and its rows, and nothing polls; decisions on memories refetch.           *)
EXTENDS WebLists

CONSTANTS
    FoundMemories,         \* the memories that match the searches, best score first
    Reviewed,              \* those of them that reviewers reject and approve again
    VisibilityOf,          \* their visibility
    Queries,               \* what is typed, besides nothing
    Visibilities,          \* the choices of visibility
    Limits                 \* the choices of the limit

ASSUME SearchAssumption ==
    /\ FoundMemories \subseteq Nat \ {0} /\ IsFiniteSet(FoundMemories)
    /\ Reviewed \subseteq FoundMemories
    /\ VisibilityOf \in [FoundMemories -> {"Session", "Project", "Workspace"}]
    /\ "" \notin Queries /\ Limits \subseteq Nat \ {0} /\ "All" \in Visibilities
    /\ Visibilities \subseteq {"All", "Session", "Project", "Workspace"}

VARIABLES
    findable,              \* the approved memories with an embedding
    search,                \* the fields of the panel
    withProvider,          \* the first provider profile is known
    answers,               \* the cached answers of the searches so far
    rejection,             \* the rejection that is in flight
    rejectedHere           \* memories whose rejection was acknowledged here

searchVars == <<findable, search, withProvider, answers, rejection, rejectedHere>>

Searches == [query : Queries \cup {""}, visibility : Visibilities, limit : Limits]

SearchKey(fields) == fields
SearchEnabled(fields) == fields.query # "" /\ withProvider

VisibilityFilter(choice) ==
    IF choice = "All" THEN {"Session", "Project", "Workspace"} ELSE {choice}

(* The API answers with the best memories of the visibilities asked for.     *)
SearchResults(fields) ==
    OnPage({m \in findable : VisibilityOf[m] \in VisibilityFilter(fields.visibility)}, 1, fields.limit)

(* A cached answer: its rows, if any arrived, the fetch in flight, whether   *)
(* the last one failed, whether it was in flight when rows were invalidated. *)
NoAnswer ==
    [known |-> FALSE, rows |-> {}, fetch |-> "idle", asks |-> Nothing, read |-> {},
     failed |-> FALSE, overlapped |-> FALSE]
AnswerTo(key) == IF key \in DOMAIN answers THEN answers[key] ELSE NoAnswer
Answer == AnswerTo(SearchKey(search))
ShownResults == IF Answer.known THEN Answer.rows ELSE {}

Cached(key, answer) ==
    answers' = [k \in DOMAIN answers \cup {key} |-> IF k = key THEN answer ELSE answers[k]]

(* A fetch for the fields that are shown, in place of any other.             *)
FetchStarted(answer, fields) ==
    [answer EXCEPT !.fetch = "asked", !.asks = fields, !.read = {}, !.overlapped = FALSE]

-----------------------------------------------------------------------------

NoRejection == [on |-> Nothing, state |-> "none"]

SearchInit ==
    /\ findable = FoundMemories
    /\ search \in {s \in Searches : s.query = ""}
    /\ withProvider = FALSE
    /\ answers = <<>>
    /\ rejection = NoRejection /\ rejectedHere = {}

(* What is shown is stale at once, so a search that becomes the shown one is *)
(* fetched, unless a fetch of it is still in flight.                         *)
Observe(fields) ==
    LET key == SearchKey(fields)
    IN IF AnswerTo(key).fetch = "idle"
       THEN Cached(key, FetchStarted(AnswerTo(key), fields)) ELSE UNCHANGED answers

ProviderArrives ==
    /\ ~withProvider
    /\ withProvider' = TRUE
    /\ IF search.query # "" THEN Observe(search) ELSE UNCHANGED answers
    /\ UNCHANGED <<findable, search, rejection, rejectedHere>>

EnterSearch(fields) ==
    /\ fields # search
    /\ search' = fields
    /\ IF SearchEnabled(fields) /\ SearchKey(fields) # SearchKey(search)
       THEN Observe(fields) ELSE UNCHANGED answers
    /\ UNCHANGED <<findable, withProvider, rejection, rejectedHere>>

(* The API answers, and the answer arrives, or fails.                        *)
SearchRead(key) ==
    /\ AnswerTo(key).fetch = "asked"
    /\ Cached(key, [answers[key] EXCEPT !.fetch = "read", !.read = SearchResults(answers[key].asks)])
    /\ UNCHANGED <<findable, search, withProvider, rejection, rejectedHere>>

SearchArrives(key) ==
    /\ AnswerTo(key).fetch = "read"
    /\ Cached(key, [NoAnswer EXCEPT !.known = TRUE, !.rows = answers[key].read,
                                    !.overlapped = answers[key].overlapped])
    /\ UNCHANGED <<findable, search, withProvider, rejection, rejectedHere>>

SearchFails(key) ==
    /\ AnswerTo(key).fetch # "idle"
    /\ Cached(key, [answers[key] EXCEPT !.fetch = "idle", !.asks = Nothing, !.read = {},
                                        !.failed = TRUE])
    /\ UNCHANGED <<findable, search, withProvider, rejection, rejectedHere>>

-----------------------------------------------------------------------------

(* Other reviewers reject memories, and approve them again; what is approved *)
(* can be found once it is embedded.                                         *)
OthersReview(m) ==
    /\ findable' = IF m \in findable THEN findable \ {m} ELSE findable \cup {m}
    /\ rejectedHere' = rejectedHere \ {m}
    /\ UNCHANGED <<search, withProvider, answers, rejection>>

(* The page rejects a memory while no other action of it is busy.            *)
SendRejection(m) ==
    /\ rejection = NoRejection
    /\ rejection' = [on |-> m, state |-> "sent"]
    /\ UNCHANGED <<findable, search, withProvider, answers, rejectedHere>>

RejectionCommits ==
    /\ rejection.state = "sent"
    /\ findable' = findable \ {rejection.on}
    /\ rejection' = [rejection EXCEPT !.state = "done"]
    /\ UNCHANGED <<search, withProvider, answers, rejectedHere>>

(* Mutant: the list of memories is refetched, the searches are not.          *)
MemoryInvalidatedDocuments == UNCHANGED answers

(* invalidateMemory: the search that is shown is refetched, and its fetch in *)
(* flight cancelled if it has rows; other fetches in flight go on.           *)
MemoryInvalidated ==
    LET InFlight(s) == answers[s].fetch # "idle"
    IN answers' = [s \in DOMAIN answers |->
           IF s = SearchKey(search) /\ SearchEnabled(search) /\ (answers[s].known \/ ~InFlight(s))
           THEN FetchStarted(answers[s], search)
           ELSE [answers[s] EXCEPT !.overlapped = @ \/ InFlight(s)]]

RejectionSucceeds ==
    /\ rejection.state = "done"
    /\ rejectedHere' = rejectedHere \cup ({rejection.on} \ findable)
    /\ rejection' = NoRejection
    /\ MemoryInvalidated
    /\ UNCHANGED <<findable, search, withProvider>>

RejectionFails ==
    /\ rejection # NoRejection
    /\ rejection' = NoRejection
    /\ UNCHANGED <<findable, search, withProvider, answers, rejectedHere>>

SearchNext ==
    \/ ProviderArrives \/ (\E s \in Searches : EnterSearch(s))
    \/ \E key \in DOMAIN answers : SearchRead(key) \/ SearchArrives(key) \/ SearchFails(key)
    \/ \E m \in Reviewed : OthersReview(m) \/ SendRejection(m)
    \/ RejectionCommits \/ RejectionSucceeds \/ RejectionFails

SearchSpec == SearchInit /\ [][SearchNext]_searchVars

-----------------------------------------------------------------------------

SearchTypeOK ==
    /\ findable \subseteq FoundMemories /\ search \in Searches /\ withProvider \in BOOLEAN
    /\ DOMAIN answers \subseteq Searches
    /\ \A s \in DOMAIN answers :
           /\ answers[s].rows \cup answers[s].read \subseteq FoundMemories
           /\ answers[s].fetch \in {"idle", "asked", "read"}
           /\ answers[s].fetch # "idle" => answers[s].asks \in Searches
    /\ rejection \in [on : Reviewed, state : {"sent", "done"}] \cup {NoRejection}
    /\ rejectedHere \subseteq Reviewed

(* A memory that was rejected on this page stands among the approved ones of *)
(* the search only while a fetch is on its way, or the page tells that the   *)
(* last one failed, or the answer was read as the rejection came in.         *)
RejectedLeavesSearch ==
    ShownResults \cap rejectedHere # {} =>
        Answer.fetch # "idle" \/ Answer.failed \/ Answer.overlapped

(* The results are those of the fields above them, in whatever order they    *)
(* were typed and answered: of the visibility and within the limit chosen.   *)
SearchIsOfItsFields ==
    /\ \A m \in ShownResults : VisibilityOf[m] \in VisibilityFilter(search.visibility)
    /\ Cardinality(ShownResults) <= search.limit

(* The results of the search follow its fields and the decisions made here.  *)
SearchFollows == RejectedLeavesSearch /\ SearchIsOfItsFields
=============================================================================
