----------------------------- MODULE Directories -----------------------------
(* The pages of the administrator: users and their roles, providers and      *)
(* policies, analytics. Each shows example rows as long as the API listed    *)
(* none, and words what the API listed several times over.                   *)
EXTENDS Overviews

CONSTANTS
    ApiUsers,              \* the users of the workspace, newest first
    ExampleUsers,          \* the users that come with the page
    RolesInPlay,           \* the roles that runs tell apart
    ToolNames              \* the tools that agents call

ASSUME DirectoryAssumption ==
    /\ ApiUsers \cup ExampleUsers \subseteq Nat \ {0}
    /\ ApiUsers \cap ExampleUsers = {} /\ ExampleUsers # {}
    /\ RolesInPlay \subseteq {"Owner", "Admin", "Operator", "Reviewer", "Viewer"}
    /\ "Viewer" \in RolesInPlay

VARIABLES
    listedUsers,           \* the users of the API that arrived, with their roles
    exampleRole,           \* the roles of the example users
    chosenUser,            \* the id that was clicked last
    roleFilter,            \* the role that the table is narrowed to
    checkedUsers,          \* the ids of the rows that are checked
    directory              \* the lists of another page, and which arrived

usersVars == <<listedUsers, exampleRole, chosenUser, roleFilter, checkedUsers>>

-----------------------------------------------------------------------------

SourceUsers == IF DOMAIN listedUsers # {} THEN listedUsers ELSE exampleRole
VisibleUsers == {u \in DOMAIN SourceUsers : roleFilter \in {"All roles", SourceUsers[u]}}
SelectedUser == StillOrFirst(chosenUser, DOMAIN SourceUsers)
AllVisibleSelected == VisibleUsers # {} /\ VisibleUsers \subseteq checkedUsers

UsersInit ==
    /\ listedUsers = <<>>
    /\ exampleRole \in {[u \in ExampleUsers |-> r] : r \in RolesInPlay}
    /\ chosenUser = FirstOf(ExampleUsers) /\ roleFilter = "All roles"
    /\ checkedUsers = {}

(* The API lists users as they are by now, without a poll: on focus.         *)
UsersArrive(rows) ==
    /\ listedUsers' = rows
    /\ UNCHANGED <<exampleRole, chosenUser, roleFilter, checkedUsers>>

(* The role of the panel is written into the example rows, which leaves a    *)
(* user of the API as it is; nothing is sent.                                *)
UpdateUserRole(u, r) ==
    /\ exampleRole' = IF u \in ExampleUsers THEN [exampleRole EXCEPT ![u] = r] ELSE exampleRole
    /\ UNCHANGED <<listedUsers, chosenUser, roleFilter, checkedUsers>>

SelectUser(u) ==
    /\ chosenUser' = u
    /\ UNCHANGED <<listedUsers, exampleRole, roleFilter, checkedUsers>>

FilterRole(r) ==
    /\ roleFilter' = r
    /\ UNCHANGED <<listedUsers, exampleRole, chosenUser, checkedUsers>>

ToggleRow(u) ==
    /\ checkedUsers' = IF u \in checkedUsers THEN checkedUsers \ {u} ELSE checkedUsers \cup {u}
    /\ UNCHANGED <<listedUsers, exampleRole, chosenUser, roleFilter>>

(* Rows that the filter hides keep their check mark.                         *)
ToggleAllVisible ==
    /\ checkedUsers' = IF AllVisibleSelected THEN checkedUsers \ VisibleUsers
                       ELSE checkedUsers \cup VisibleUsers
    /\ UNCHANGED <<listedUsers, exampleRole, chosenUser, roleFilter>>

UsersNext ==
    \/ \E rows \in [ApiUsers -> RolesInPlay] : UsersArrive(rows)
    \/ \E r \in RolesInPlay : UpdateUserRole(SelectedUser, r)
    \/ \E u \in VisibleUsers : SelectUser(u) \/ ToggleRow(u)
    \/ \E r \in RolesInPlay \cup {"All roles"} : FilterRole(r)
    \/ ToggleAllVisible

-----------------------------------------------------------------------------

(* Providers and policies as the API lists them, and the rows on the page.   *)
ProviderRows == [credential : BOOLEAN, active : BOOLEAN]
PolicyRows == [active : BOOLEAN]
ExampleRows == <<"example">>
ShownRows(rows) == IF rows # <<>> THEN rows ELSE ExampleRows
HasIssue(policy) == ~policy.active

(* The cards below the tables, and the words that the tables have for it.    *)
ProviderHealthMetrics(providers, policies) ==
    LET issues == CountOf(policies, HasIssue)
        present == CountOf(providers, LAMBDA p : p.credential)
    IN [providers |-> Len(providers), present |-> present, missing |-> Len(providers) - present,
        disabled |-> CountOf(providers, LAMBDA p : ~p.active),
        policies |-> Len(policies), valid |-> Len(policies) - issues, issues |-> issues,
        configured |-> {l \in {"provider", "policy"} :
                           IF l = "provider" THEN providers # <<>> ELSE policies # <<>>}]

HealthShown(providers, policies) == providers # <<>> \/ policies # <<>>
IssueCount(policies) == CountOf(policies, HasIssue)
CredentialsPresent(providers) == {i \in DOMAIN providers : providers[i].credential}

-----------------------------------------------------------------------------

(* Tool calls as the analytics of the API count them, per tool and overall,  *)
(* and the rates of the page, in tenths of a percent.                        *)
EndedStatuses == {"succeeded", "failed", "timed_out", "cancelled", "denied"}
CountedCalls ==
    [tool : ToolNames, status : EndedStatuses \cup {"queued", "running", "awaiting_approval"}]
Succeeded(c) == c.status = "succeeded"
Failed(c) == c.status \in {"failed", "timed_out", "cancelled", "denied"}
Rate(part, whole) == Rounded(1000 * part, whole)
ToolItems(calls) ==
    [t \in {calls[i].tool : i \in DOMAIN calls} |->
        [count     |-> CountOf(calls, LAMBDA c : c.tool = t),
         succeeded |-> CountOf(calls, LAMBDA c : c.tool = t /\ Succeeded(c)),
         failed    |-> CountOf(calls, LAMBDA c : c.tool = t /\ Failed(c))]]

(* The API rounds the overall rate to hundredths of a percent, and the page  *)
(* rounds it again. A tie goes up; where the API lets it go to the even      *)
(* digit, the page rounds both alike.                                        *)
OverallRate(part, whole) == Rounded(Rounded(10000 * part, whole), 10)
SuccessRate(calls) == OverallRate(CountOf(calls, Succeeded), Len(calls))

MapToolMetrics(calls) ==
    [t \in DOMAIN ToolItems(calls) |->
        LET item == ToolItems(calls)[t]
        IN [success |-> Rate(item.succeeded, item.count),
            failure |-> Rate(item.failed, item.count)]]

(* The slices of sessions, of any status, and the shares of severities.      *)
MapStatusSlices(rows) == GroupedCounts(rows, LAMBDA r : r)
TotalSessions(slices) == SumOf(slices)
MapSeverityMetrics(findings) ==
    LET counts == GroupedCounts(findings, LAMBDA f : f)
        total == Max({Len(findings), 1})
    IN [s \in DOMAIN counts |-> [count |-> counts[s], percent |-> Rounded(100 * counts[s], total)]]

-----------------------------------------------------------------------------

DirectoryInit == directory = [of |-> "nothing", rows |-> <<>>, arrived |-> {}]

FetchDirectory(list, rows, arrived) ==
    /\ directory.of = "nothing"
    /\ directory' = [of |-> list, rows |-> rows, arrived |-> arrived]

DirectoryNext ==
    \/ \E providers \in SeqOf(ProviderRows, MaxListed), policies \in SeqOf(PolicyRows, MaxListed) :
           FetchDirectory("providers", <<providers, policies>>, {})
    \/ \E calls \in SeqOf(CountedCalls, MaxListed) : FetchDirectory("tools", calls, {})
    \/ \E rows \in SeqOf(SessionStatuses, MaxListed), arrived \in SUBSET {"overview", "sessions"} :
           FetchDirectory("sessions", rows, arrived)
    \/ \E findings \in SeqOf({"critical", "high", "info"}, MaxListed) :
           FetchDirectory("severities", findings, {})

-----------------------------------------------------------------------------

DirectoryOf(list) == directory.of = list

UsersTypeOK ==
    /\ DOMAIN listedUsers \in {{}, ApiUsers} /\ Range(listedUsers) \subseteq RolesInPlay
    /\ exampleRole \in [ExampleUsers -> RolesInPlay]
    /\ chosenUser \in ApiUsers \cup ExampleUsers
    /\ roleFilter \in RolesInPlay \cup {"All roles"}
    /\ checkedUsers \subseteq ApiUsers \cup ExampleUsers

(* Once the API has listed users, no row and no panel is about an example    *)
(* user, whichever was chosen, edited or checked before, and what stands in  *)
(* the table is as the API listed it.                                        *)
UsersAreTheApis ==
    DOMAIN listedUsers # {} =>
        /\ VisibleUsers \cup {SelectedUser} \subseteq ApiUsers
        /\ \A u \in VisibleUsers : SourceUsers[u] = listedUsers[u]

(* The cards agree with the tables above them, and name a default of each    *)
(* list that has rows, also when the other list is empty.                    *)
CardsAgree ==
    DirectoryOf("providers") =>
        LET providers == directory.rows[1]
            policies == directory.rows[2]
            card == ProviderHealthMetrics(providers, policies)
            told == HealthShown(providers, policies)
        IN /\ providers # <<>> =>
                  /\ told /\ card.providers = Len(ShownRows(providers)) /\ "provider" \in card.configured
                  /\ card.present = Cardinality(CredentialsPresent(providers))
                  /\ card.present + card.missing = card.providers /\ card.disabled <= card.providers
           /\ policies # <<>> =>
                  /\ told /\ card.policies = Len(ShownRows(policies)) /\ "policy" \in card.configured
                  /\ card.issues = IssueCount(policies) /\ card.valid + card.issues = card.policies

(* The rates of a tool fill the whole, but for the rounding, once all its    *)
(* calls ended, and never exceed it by more; below a thousand calls they do  *)
(* not fill it before. The overall rate, which is rounded twice, lies        *)
(* between those of the tools or a tenth of a percent above. The ring of     *)
(* sessions counts what the metric above it counts. Every finding is in one  *)
(* share, and no share is lost to rounding among up to 200 findings.         *)
AnalyticsAddUp ==
    /\ DirectoryOf("tools") =>
           LET calls == directory.rows
               tool == MapToolMetrics(calls)
               Ended(t) == \A i \in DOMAIN calls : calls[i].tool = t => calls[i].status \in EndedStatuses
           IN /\ \A t \in DOMAIN tool :
                     /\ tool[t].success + tool[t].failure <= 1001
                     /\ Ended(t) => tool[t].success + tool[t].failure >= 1000
                     /\ ~Ended(t) /\ ToolItems(calls)[t].count < 1000 =>
                            tool[t].success + tool[t].failure < 1000
              /\ calls # <<>> =>
                     /\ \E t \in DOMAIN tool : tool[t].success <= SuccessRate(calls)
                     /\ \E t \in DOMAIN tool : tool[t].success + 1 >= SuccessRate(calls)
    /\ DirectoryOf("sessions") =>
           LET slices == MapStatusSlices(directory.rows)
           IN /\ TotalSessions(slices) = Len(directory.rows)
              /\ "overview" \in directory.arrived =>
                     SessionsCompleted(directory.rows, directory.arrived) = KeyCount(slices, "completed")
    /\ DirectoryOf("severities") =>
           LET share == MapSeverityMetrics(directory.rows)
           IN /\ SumOf([s \in DOMAIN share |-> share[s].count]) = Len(directory.rows)
              /\ \A s \in DOMAIN share :
                     share[s].percent \in 0..100 /\ (share[s].percent = 0 => Len(directory.rows) > 200)
=============================================================================
