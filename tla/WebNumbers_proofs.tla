-------------------------- MODULE WebNumbers_proofs --------------------------
(* Proofs about what the pages derive from the lists they fetch: tabs,       *)
(* current steps, metrics, charts, audit trails and cards. They hold for     *)
(* lists of any length, for plans of any size and for whatever is rounded:   *)
(* the counts are sizes of sets of places in a list, so that parts of a list *)
(* are compared by their cardinalities.                                      *)
EXTENDS HomePage, RowDetails, Directories, WebLists_proofs

-----------------------------------------------------------------------------
(* What pages tell of whole lists holds of lists of any length.              *)

(* A list that runs fetch, however long they let it be, is a list.           *)
LEMMA SeqOfIsSeq ==
    ASSUME NEW S, NEW n \in Nat, NEW rows \in SeqOf(S, n)
    PROVE  rows \in Seq(S) /\ Len(rows) \in Nat /\ DOMAIN rows = 1..Len(rows)
<1>1. PICK m \in 0..n : rows \in [1..m -> S]
    BY DEF SeqOf
<1> QED
    BY <1>1

(* The rows that a filter lets through, in a list of any length.             *)
LEMMA FilteredRows ==
    ASSUME NEW S, NEW rows \in Seq(S), NEW part, part \subseteq DOMAIN rows
    PROVE  /\ IsFiniteSet(part) /\ Cardinality(part) \in Nat /\ Cardinality(part) <= Len(rows)
           /\ part \subseteq Nat
<1>1. Len(rows) \in Nat /\ part \subseteq 1..Len(rows)
    OBVIOUS
<1> QED
    BY <1>1, PartOfList

(* A filter lets nothing through, and nothing else has no rows.              *)
LEMMA NoneFiltered ==
    ASSUME NEW part, IsFiniteSet(part)
    PROVE  (Cardinality(part) = 0) = (part = {})
    BY FS_EmptySet

-----------------------------------------------------------------------------

(* What is fetched for the home page and the list of sessions.               *)
HomeListTyped ==
    /\ homeList.of = "sessions" => homeList.rows \in Seq(SessionStatuses)
    /\ homeList.of = "tasks" => homeList.rows \in Seq(HomeTask)
    /\ homeList.of = "runtime" => homeList.rows[1] \in RuntimeRows
    /\ homeList.of = "findings" => homeList.rows \in CountedLists("findings")
    /\ homeList.of = "jobs" => homeList.rows \in CountedLists("jobs")
    /\ homeList.of = "events" => homeList.rows[1] \in EventTypes
    /\ homeList.of = "work" => homeList.rows \in Seq(Work)

(* The page may fetch any known findings or jobs in place of others.         *)
LEMMA BecomesTyped ==
    ASSUME NEW list \in {"findings", "jobs"}, NEW known \in CountedLists(list),
           FetchHomeList(list, known)
    PROVE  HomeListTyped'
    BY DEF HomeListTyped, FetchHomeList

(* Whoever changes one row, or all, leaves a list of such rows.              *)
LEMMA RowsStayTyped ==
    ASSUME NEW list \in {"findings", "jobs"}, CountedTwice, homeList.of = list,
           Known \in CountedLists(list)
    PROVE  /\ \A s \in HomeSessions : RowAppears(s) => HomeListTyped'
           /\ \A i \in DOMAIN Known.rows, status \in Stages(list) : RowMoves(i, status) => HomeListTyped'
           /\ \A active \in SUBSET HomeSessions : FetchActive(active) => HomeListTyped'
           /\ \A s : FetchSessionRows(s) => HomeListTyped'
           /\ \A cut \in Nat : FetchAnalytics(cut) => HomeListTyped'
<1> DEFINE rows == Known.rows
           Row == CountedRow(list)
<1>0. rows \in Seq(Row) /\ Known.active \in SUBSET HomeSessions /\ Known.answered \in BOOLEAN
    BY DEF CountedLists
<1>1. /\ Len(rows) \in Nat /\ DOMAIN rows = 1..Len(rows)
      /\ \A i \in DOMAIN rows : rows[i] \in Row
    <2> HIDE DEF rows, Row
    <2> QED
        BY <1>0
<1>2. ASSUME NEW new \in Seq(Row), NEW active \in SUBSET HomeSessions, NEW answered \in BOOLEAN,
             Become(new, active, answered)
      PROVE  HomeListTyped'
    <2>1. [rows |-> new, active |-> active, answered |-> answered] \in CountedLists(list)
        BY <1>2 DEF CountedLists
    <2> QED
        BY <1>2, <2>1, BecomesTyped DEF Become
<1>3. ASSUME NEW new, DOMAIN new = DOMAIN rows, \A i \in DOMAIN rows : new[i] \in Row,
             new = [i \in DOMAIN rows |-> new[i]]
      PROVE  new \in Seq(Row)
    <2> HIDE DEF rows, Row
    <2> QED
        BY <1>1, <1>3
<1>4. ASSUME NEW row \in Row, NEW status \in Stages(list)
      PROVE  /\ [row EXCEPT !.status = status] \in Row
             /\ [row EXCEPT !.seen = row.status] \in Row
             /\ [row EXCEPT !.counted = row.status] \in Row
             /\ [row EXCEPT !.counted = Unread] \in Row
    BY DEF CountedRow
<1>5. ASSUME NEW s \in HomeSessions, RowAppears(s) PROVE HomeListTyped'
    <2> DEFINE first == IF list = "findings" THEN "candidate" ELSE "queued"
               row == [session |-> s, status |-> first, seen |-> Unread, counted |-> Unread]
    <2>1. row \in Row
        BY DEF CountedRow, Stages, Unread
    <2>2. Append(rows, row) \in Seq(Row)
        <3> HIDE DEF rows, Row, row
        <3> QED
            BY <1>0, <2>1
    <2>3. Become(Append(rows, row), Known.active, Known.answered)
        BY <1>5 DEF RowAppears
    <2> QED
        BY <1>0, <1>2, <2>2, <2>3
<1>6. ASSUME NEW i \in DOMAIN rows, NEW status \in Stages(list), RowMoves(i, status)
      PROVE  HomeListTyped'
    <2> DEFINE new == [rows EXCEPT ![i].status = status]
    <2>1. new \in Seq(Row)
        <3>1. /\ DOMAIN new = DOMAIN rows /\ new = [j \in DOMAIN rows |-> new[j]]
              /\ \A j \in DOMAIN rows :
                    new[j] = IF j = i THEN [rows[j] EXCEPT !.status = status] ELSE rows[j]
            OBVIOUS
        <3>2. \A j \in DOMAIN rows : new[j] \in Row
            BY <1>1, <1>4, <3>1
        <3> QED
            BY <1>3, <3>1, <3>2
    <2>2. Become(new, Known.active, Known.answered)
        BY <1>6 DEF RowMoves
    <2> QED
        BY <1>0, <1>2, <2>1, <2>2
<1>7. ASSUME NEW active \in SUBSET HomeSessions, FetchActive(active) PROVE HomeListTyped'
    <2>1. Become(rows, active, Known.answered)
        BY <1>7 DEF FetchActive
    <2> QED
        BY <1>0, <1>2, <2>1
<1>8. ASSUME NEW s, FetchSessionRows(s) PROVE HomeListTyped'
    <2> DEFINE Read(row) == IF row.session = s THEN [row EXCEPT !.seen = row.status] ELSE row
               new == [i \in DOMAIN rows |-> Read(rows[i])]
    <2>1. new \in Seq(Row)
        <3>1. \A i \in DOMAIN rows : rows[i].status \in Stages(list)
            BY <1>1 DEF CountedRow
        <3>2. \A i \in DOMAIN rows : new[i] \in Row
            BY <1>1, <1>4, <3>1
        <3> QED
            BY <1>3, <3>2
    <2>2. Become(new, Known.active, Known.answered)
        BY <1>8 DEF FetchSessionRows
    <2> QED
        BY <1>0, <1>2, <2>1, <2>2
<1>9. ASSUME NEW cut \in Nat, FetchAnalytics(cut) PROVE HomeListTyped'
    <2> DEFINE Counted(i) == IF i > cut THEN rows[i].status ELSE Unread
               new == [i \in DOMAIN rows |-> [rows[i] EXCEPT !.counted = Counted(i)]]
    <2>1. new \in Seq(Row)
        <3>1. \A i \in DOMAIN rows : rows[i].status \in Stages(list)
            BY <1>1 DEF CountedRow
        <3>2. \A i \in DOMAIN rows : new[i] \in Row
            BY <1>1, <1>4, <3>1
        <3> QED
            BY <1>3, <3>2
    <2>2. Become(new, Known.active, TRUE)
        BY <1>9 DEF FetchAnalytics
    <2> QED
        BY <1>0, <1>2, <2>1, <2>2
<1> QED
    BY <1>5, <1>6, <1>7, <1>8, <1>9

(* That it stays so.                                                         *)
LEMMA HomeListIsTyped == HomeSpec => []HomeListTyped
<1>1. HomeInit => HomeListTyped
    BY DEF HomeInit, HomeListTyped
<1>2. ASSUME HomeListTyped, [HomeNext]_homeList PROVE HomeListTyped'
    <2>0. MaxListed \in Nat /\ MaxPlanned \in Nat /\ MaxWork \in Nat
        BY ListAssumption
    <2>1. ASSUME NEW rows \in SeqOf(SessionStatuses, MaxListed), FetchHomeList("sessions", rows)
          PROVE  HomeListTyped'
        BY <2>0, <2>1, SeqOfIsSeq DEF HomeListTyped, FetchHomeList
    <2>2. ASSUME NEW rows \in SeqOf(HomeTask, MaxPlanned), FetchHomeList("tasks", rows)
          PROVE  HomeListTyped'
        BY <2>0, <2>2, SeqOfIsSeq DEF HomeListTyped, FetchHomeList
    <2>3. ASSUME NEW r \in RuntimeRows, FetchHomeList("runtime", <<r>>) PROVE HomeListTyped'
        BY <2>3 DEF HomeListTyped, FetchHomeList
    <2>4. ASSUME NEW e \in EventTypes, FetchHomeList("events", <<e>>) PROVE HomeListTyped'
        BY <2>4 DEF HomeListTyped, FetchHomeList
    <2>5. ASSUME NEW rows \in SeqOf(Work, MaxWork), FetchHomeList("work", rows)
          PROVE  HomeListTyped'
        BY <2>0, <2>5, SeqOfIsSeq DEF HomeListTyped, FetchHomeList
    <2>6. ASSUME NEW list \in {"findings", "jobs"}, CountTwice(list) PROVE HomeListTyped'
        <3>1. [rows |-> <<>>, active |-> {}, answered |-> FALSE] \in CountedLists(list)
            BY DEF CountedLists
        <3> QED
            BY <2>6, <3>1, BecomesTyped DEF CountTwice
    <2>7. CASE UNCHANGED homeList
        BY <1>2, <2>7 DEF HomeListTyped
    <2>8. ASSUME CountedTwice
          PROVE  homeList.of \in {"findings", "jobs"} /\ Known \in CountedLists(homeList.of)
        BY <1>2, <2>8 DEF HomeListTyped, CountedTwice, Known
    <2>9. ASSUME NEW s \in HomeSessions, RowAppears(s) PROVE HomeListTyped'
        BY <2>8, <2>9, RowsStayTyped DEF RowAppears
    <2>10. ASSUME CountedTwice, NEW i \in DOMAIN Known.rows, NEW status \in Stages(homeList.of),
                  RowMoves(i, status)
           PROVE  HomeListTyped'
        BY <2>8, <2>10, RowsStayTyped
    <2>11. ASSUME NEW active \in SUBSET HomeSessions, FetchActive(active) PROVE HomeListTyped'
        BY <2>8, <2>11, RowsStayTyped DEF FetchActive
    <2>12. ASSUME CountedTwice, NEW s \in Known.active, FetchSessionRows(s) PROVE HomeListTyped'
        BY <2>8, <2>12, RowsStayTyped
    <2>13. ASSUME CountedTwice, NEW cut \in 0..Len(Known.rows), FetchAnalytics(cut) PROVE HomeListTyped'
        <3>1. cut \in Nat
            BY <2>8, <2>13 DEF CountedLists
        <3> QED
            BY <2>8, <2>13, <3>1, RowsStayTyped
    <2> QED
        BY <1>2, <2>1, <2>2, <2>3, <2>4, <2>5, <2>6, <2>7, <2>9, <2>10, <2>11, <2>12, <2>13
        DEF HomeNext, FetchOneList
<1> QED
    BY <1>1, <1>2, PTL DEF HomeSpec

(* The tabs of the home page and of the list keep sessions apart.            *)
LEMMA TabsHold == HomeListTyped => TabsAreTrue
<1>1. ASSUME NEW s \in SessionStatuses
      PROVE  /\ HomeTab(s) # "hidden" => HomeTab(s) = s
             /\ {tab \in SessionStatuses : InTab(tab, s)} = {s}
    BY DEF HomeTab, InTab, NormalizeStatus, SessionStatuses, ActiveOnHome
<1>2. ASSUME homeList.rows \in Seq(SessionStatuses), NEW i \in DOMAIN homeList.rows
      PROVE  homeList.rows[i] \in SessionStatuses
    BY <1>2
<1> QED
    BY <1>1, <1>2 DEF TabsAreTrue, HomeListTyped, Fetched

(* The pages word a runtime alike where it matters.                          *)
LEMMA RuntimesHold == HomeListTyped => FailedRuntimeIsSeen
<1>1. ASSUME NEW r \in RuntimeRows
      PROVE  LET broken == r \in {"failed", "unhealthy"}
             IN /\ (HomeRuntime(r) = "unhealthy") = broken /\ (ListRuntime(r) = "failed") = broken
                /\ broken => HomeRuntime(r) # "healthy" /\ ~RailRuntimeHealthy(r)
                /\ (HeaderHealth(r) = "unhealthy") = broken
                /\ (RuntimeStateCheck(r) = "failed") = broken
                /\ r = "running" => /\ HomeRuntime(r) = "healthy" /\ ListRuntime(r) = "healthy"
                                    /\ RailRuntimeHealthy(r) /\ HeaderHealth(r) = "healthy"
                                    /\ RuntimeStateCheck(r) = "ok"
    BY DEF RuntimeRows, HomeRuntime, ListRuntime, RailRuntimeHealthy, HeaderHealth,
           RuntimeHealth, RuntimeStateCheck, NormalizeRuntimeStatus
<1> QED
    BY <1>1 DEF FailedRuntimeIsSeen, HomeListTyped, Fetched

-----------------------------------------------------------------------------

(* The steps of plans: typed, and known to the pages by the same places.     *)
LEMMA StepsAreTyped ==
    ASSUME NEW tasks \in Seq(HomeTask)
    PROVE  \A p \in StepPlaces(tasks) : StepAt(tasks, p) \in StepStatuses
<1>1. ASSUME NEW t \in DOMAIN tasks PROVE tasks[t].steps \in Seq(StepStatuses)
    <2>1. tasks[t] \in HomeTask
        OBVIOUS
    <2>2. tasks[t].steps \in SeqOf(StepStatuses, MaxPlanned)
        BY <2>1 DEF HomeTask
    <2> QED
        BY <2>2, ListAssumption, SeqOfIsSeq
<1> DEFINE places == [t \in DOMAIN tasks |-> DOMAIN tasks[t].steps]
<1>2. ASSUME NEW p \in StepPlaces(tasks) PROVE StepAt(tasks, p) \in StepStatuses
    <2>1. p \in DisjointUnion(places)
        BY DEF StepPlaces
    <2>2. p[1] \in DOMAIN places /\ p[2] \in places[p[1]]
        <3> HIDE DEF places
        <3> QED
            BY <2>1, InUnionOfParts
    <2>3. p[1] \in DOMAIN tasks /\ p[2] \in DOMAIN tasks[p[1]].steps
        BY <2>2
    <2> QED
        BY <1>1, <2>3 DEF StepAt
<1> QED
    BY <1>2

(* The three words of the command center stand for the five statuses.        *)
LEMMA StepsAreMappedAlike ==
    ASSUME NEW tasks \in Seq(HomeTask)
    PROVE  /\ MappedSteps(tasks, "running")
                  = StepsWith(tasks, LAMBDA s : s \in {"running", "awaiting_input"})
           /\ MappedSteps(tasks, "pending") = StepsWith(tasks, LAMBDA s : s \in {"ready", "created"})
<1>1. ASSUME NEW s \in StepStatuses
      PROVE  /\ (MapStepStatus(s) = "running") = (s \in {"running", "awaiting_input"})
             /\ (MapStepStatus(s) = "pending") = (s \in {"ready", "created"})
    BY DEF StepStatuses, MapStepStatus
<1>2. \A p \in StepPlaces(tasks) : StepAt(tasks, p) \in StepStatuses
    BY StepsAreTyped
<1> QED
    BY <1>1, <1>2 DEF MappedSteps, StepsWith

(* A step that is running or to be run is current on all three pages.        *)
LEMMA OneCurrentStep ==
    ASSUME NEW tasks \in Seq(HomeTask), ActiveStep(tasks) # NoStep
    PROVE  /\ CommandCurrentStep(tasks) = HomeCurrentStep("running", tasks)
           /\ CommandCurrentStep(tasks) = ListCurrentStep("running", tasks)
<1> DEFINE running == MappedSteps(tasks, "running")
           pending == MappedSteps(tasks, "pending")
<1>1. ActiveStep(tasks) = IF running # {} THEN FirstStep(running) ELSE FirstStep(pending)
    BY StepsAreMappedAlike DEF ActiveStep
<1>2. FirstStep({}) = NoStep
    BY DEF FirstStep
<1>3. CommandCurrentStep(tasks) = ActiveStep(tasks)
    <2>1. CASE running # {}
        BY <1>1, <2>1 DEF CommandCurrentStep
    <2>2. CASE running = {}
        <3>1. pending # {}
            BY <1>1, <1>2, <2>2
        <3> QED
            BY <1>1, <2>2, <3>1 DEF CommandCurrentStep
    <2> QED
        BY <2>1, <2>2
<1>4. HomeCurrentStep("running", tasks) = ActiveStep(tasks)
      /\ ListCurrentStep("running", tasks) = ActiveStep(tasks)
    BY DEF HomeCurrentStep, ListCurrentStep
<1> QED
    BY <1>3, <1>4

(* The completed steps of a plan, task by task or all at once.               *)
LEMMA OneNumberOfSteps ==
    ASSUME NEW tasks \in Seq(HomeTask)
    PROVE  CompletedSteps(tasks) = StepsDone(tasks)
<1> DEFINE steps(t) == tasks[t].steps
           part == [t \in DOMAIN tasks |-> PlacesOf(steps(t), LAMBDA s : MapStepStatus(s) = "completed")]
           counts == [t \in DOMAIN tasks |-> CompleteCount(tasks[t])]
           places == [t \in DOMAIN tasks |-> DOMAIN tasks[t].steps]
<1>1. DOMAIN part = DOMAIN tasks /\ DOMAIN counts = DOMAIN tasks /\ IsFiniteSet(DOMAIN tasks)
    <2>1. DOMAIN tasks \subseteq DOMAIN tasks
        OBVIOUS
    <2>2. IsFiniteSet(DOMAIN tasks)
        BY <2>1, FilteredRows
    <2> QED
        BY <2>2
<1>2. ASSUME NEW t \in DOMAIN tasks
      PROVE  IsFiniteSet(part[t]) /\ counts[t] = Cardinality(part[t])
    <2>1. tasks[t] \in HomeTask
        OBVIOUS
    <2>2. steps(t) \in SeqOf(StepStatuses, MaxPlanned)
        BY <2>1 DEF HomeTask
    <2>3. steps(t) \in Seq(StepStatuses)
        BY <2>2, ListAssumption, SeqOfIsSeq
    <2>4. part[t] \subseteq DOMAIN steps(t)
        BY DEF PlacesOf
    <2>5. IsFiniteSet(part[t])
        <3> HIDE DEF part, steps
        <3> QED
            BY <2>3, <2>4, FilteredRows
    <2>6. counts[t] = Cardinality(part[t])
        BY DEF CompleteCount, CountOf, PlacesOf
    <2> QED
        BY <2>5, <2>6
<1>3. SumOf(counts) = Cardinality(DisjointUnion(part))
    <2> HIDE DEF part, counts
    <2> QED
        BY <1>1, <1>2, SumOfSizes
<1>4. ASSUME NEW s \in StepStatuses PROVE (MapStepStatus(s) = "completed") = (s = "completed")
    BY DEF StepStatuses, MapStepStatus
<1>5. ASSUME NEW p \in DisjointUnion(part)
      PROVE  p \in StepPlaces(tasks) /\ StepAt(tasks, p) = "completed"
    <2>1. p[1] \in DOMAIN part /\ p[2] \in part[p[1]] /\ p = <<p[1], p[2]>>
        <3> HIDE DEF part
        <3> QED
            BY InUnionOfParts
    <2>2. /\ p[1] \in DOMAIN places /\ p[2] \in places[p[1]]
          /\ MapStepStatus(StepAt(tasks, p)) = "completed"
        BY <2>1 DEF PlacesOf, StepAt
    <2>3. p \in DisjointUnion(places)
        <3> HIDE DEF places
        <3> QED
            BY <2>1, <2>2, InUnionOfParts
    <2>4. p \in StepPlaces(tasks)
        BY <2>3 DEF StepPlaces
    <2> QED
        BY <1>4, <2>2, <2>4, StepsAreTyped
<1>6. ASSUME NEW p \in StepPlaces(tasks), StepAt(tasks, p) = "completed"
      PROVE  p \in DisjointUnion(part)
    <2>1. p \in DisjointUnion(places)
        BY DEF StepPlaces
    <2>2. p[1] \in DOMAIN places /\ p[2] \in places[p[1]] /\ p = <<p[1], p[2]>>
        <3> HIDE DEF places
        <3> QED
            BY <2>1, InUnionOfParts
    <2>3. MapStepStatus(StepAt(tasks, p)) = "completed"
        BY <1>6 DEF MapStepStatus
    <2>4. p[1] \in DOMAIN part /\ p[2] \in part[p[1]]
        BY <2>2, <2>3 DEF PlacesOf, StepAt
    <2> HIDE DEF part
    <2> QED
        BY <2>2, <2>4, InUnionOfParts
<1>7. DisjointUnion(part) = StepsWith(tasks, LAMBDA s : s = "completed")
    <2> HIDE DEF part
    <2> QED
        BY <1>5, <1>6 DEF StepsWith
<1>8. CompletedSteps(tasks) = SumOf(counts)
    BY DEF CompletedSteps
<1> HIDE DEF part, counts
<1> QED
    BY <1>3, <1>7, <1>8 DEF StepsDone

(* The pages name one step and one number.                                   *)
LEMMA StepsHold == HomeListTyped => PagesNameOneStep
    BY OneCurrentStep, OneNumberOfSteps DEF HomeListTyped, PagesNameOneStep, Fetched

-----------------------------------------------------------------------------

(* The metrics of the home page count what its tabs hold.                    *)
LEMMA HomeCountsHold == HomeListTyped => HomeCountsAgree
<1> SUFFICES ASSUME HomeListTyped, homeList.of = "sessions" PROVE HomeCountsAgree
    BY DEF HomeCountsAgree, Fetched
<1> DEFINE crowd == homeList.rows
           In(tab) == {i \in WorkspaceSessions(crowd) : HomeTab(crowd[i]) = tab}
           active == WorkspaceSessions(crowd)
           shown == In("running") \cup In("paused")
<1>1. crowd \in Seq(SessionStatuses)
    BY DEF HomeListTyped
<1>2. ASSUME NEW i \in DOMAIN crowd PROVE crowd[i] \in SessionStatuses
    BY <1>1
<1>3. ASSUME NEW s \in SessionStatuses
      PROVE  /\ (s = "running") = (s \in ActiveOnHome /\ HomeTab(s) = "running")
             /\ (s = "paused") = (s \in ActiveOnHome /\ HomeTab(s) = "paused")
             /\ s \in ActiveOnHome => HomeTab(s) \in {"running", "paused", "planning"}
    BY DEF SessionStatuses, ActiveOnHome, HomeTab
<1>4. /\ PlacesOf(crowd, LAMBDA s : s = "running") = In("running")
      /\ PlacesOf(crowd, LAMBDA s : s = "paused") = In("paused")
    BY <1>2, <1>3 DEF PlacesOf, WorkspaceSessions
<1>5. active = shown \cup In("planning") /\ shown \cap In("planning") = {}
      /\ In("running") \cap In("paused") = {}
    BY <1>2, <1>3 DEF PlacesOf, WorkspaceSessions
<1>6. IsFiniteSet(active) /\ IsFiniteSet(shown)
    <2>1. active \subseteq DOMAIN crowd /\ shown \subseteq DOMAIN crowd
        BY DEF WorkspaceSessions, PlacesOf
    <2> HIDE DEF active, shown, crowd
    <2> QED
        BY <1>1, <2>1, FilteredRows
<1>7. Cardinality(active) =
          Cardinality(In("running")) + Cardinality(In("paused")) + Cardinality(In("planning"))
    <2> DEFINE a == In("running")
               b == In("paused")
               c == In("planning")
    <2>1. active = shown \cup c /\ shown \cap c = {} /\ shown = a \cup b /\ a \cap b = {}
        BY <1>5
    <2> HIDE DEF a, b, c, active, shown
    <2>2. Cardinality(active) = Cardinality(shown) + Cardinality(c)
        BY <1>6, <2>1, PartsAddUp
    <2>3. Cardinality(shown) = Cardinality(a) + Cardinality(b)
        BY <1>6, <2>1, PartsAddUp
    <2>4. Cardinality(active) = Cardinality(a) + Cardinality(b) + Cardinality(c)
        BY <2>2, <2>3
    <2> QED
        BY <2>4 DEF a, b, c
<1>8. /\ MapMetrics(crowd).running = TabCount(crowd, "running")
      /\ MapMetrics(crowd).paused = TabCount(crowd, "paused")
    BY <1>4 DEF MapMetrics, CountOf, TabCount
<1>9. /\ MapMetrics(crowd).active = Cardinality(active)
      /\ MapMetrics(crowd).running = Cardinality(In("running"))
      /\ MapMetrics(crowd).paused = Cardinality(In("paused"))
      /\ TabCount(crowd, "planning") = Cardinality(In("planning"))
    BY <1>4 DEF MapMetrics, CountOf, TabCount
<1> HIDE DEF In, active
<1> QED
    BY <1>7, <1>8, <1>9 DEF HomeCountsAgree

(* The places of known rows that a filter lets through are as many as the    *)
(* filter says, and no more than those that a wider one does.                *)
LEMMA KnownPlaces ==
    ASSUME NEW list, Known \in CountedLists(list), NEW a, NEW b,
           a \subseteq b, b \subseteq DOMAIN Known.rows
    PROVE  /\ IsFiniteSet(a) /\ IsFiniteSet(b)
           /\ Cardinality(a) \in Nat /\ Cardinality(b) \in Nat
           /\ Cardinality(a) <= Cardinality(b)
           /\ (Cardinality(b) = 0) = (b = {})
<1>1. Known.rows \in Seq(CountedRow(list))
    BY DEF CountedLists
<1>2. a \in SUBSET b /\ a \subseteq DOMAIN Known.rows
    OBVIOUS
<1>3. IsFiniteSet(b) /\ Cardinality(b) \in Nat
    BY <1>1, FilteredRows
<1> QED
    BY <1>2, <1>3, FS_Subset, FS_CardinalityType, NoneFiltered

(* No number of the home page hides a finding that waits in both answers.    *)
LEMMA ReviewsAreCounted == HomeListTyped => ReviewIsCounted
<1> SUFFICES ASSUME HomeListTyped, homeList.of = "findings" PROVE ReviewIsCounted
    BY DEF ReviewIsCounted, Fetched
<1> DEFINE rows == Known.rows
           all == PlacesOf(rows, LAMBDA f : f.counted # Unread)
           candidates == PlacesOf(rows, LAMBDA f : NeedsReview(f.counted))
           attended == PlacesOf(rows, LAMBDA f : f.session \in Known.active /\ NeedsReview(f.seen))
           waiting == PlacesOf(rows, LAMBDA f : f.session \in Known.active /\ NeedsReview(f.status))
           both == InBoth(NeedsReview)
<1>1. Known \in CountedLists("findings")
    BY DEF HomeListTyped, Known
<1>2. /\ all \subseteq DOMAIN rows /\ candidates \subseteq DOMAIN rows /\ attended \subseteq DOMAIN rows
      /\ both \subseteq candidates /\ both \subseteq attended
    BY DEF PlacesOf, InBoth
<1>3. /\ AnalyticsTotal(Known) = Cardinality(all)
      /\ AttentionFindings(Known) = Cardinality(attended)
      /\ CandidateMetric(Known) = IF Cardinality(candidates) # 0 THEN Cardinality(candidates)
                                  ELSE Cardinality(all)
      /\ FindingBadge(Known) = IF Cardinality(attended) # 0 THEN Cardinality(attended)
                               ELSE Cardinality(all)
    BY DEF AnalyticsTotal, AttentionFindings, CandidateMetric, FindingBadge, CountOf
<1>4. all = {} => \A i \in DOMAIN rows : rows[i].counted = Unread
    BY DEF PlacesOf
<1>5. AnswersAreCurrent => attended = waiting /\ both = attended
    BY DEF AnswersAreCurrent, PlacesOf, InBoth
<1>6. /\ IsFiniteSet(all) /\ Cardinality(all) \in Nat /\ (Cardinality(all) = 0) = (all = {})
      /\ Cardinality(candidates) \in Nat /\ Cardinality(attended) \in Nat /\ Cardinality(both) \in Nat
      /\ Cardinality(both) <= Cardinality(candidates)
    <2> HIDE DEF all, candidates, attended, both
    <2> QED
        BY <1>1, <1>2, KnownPlaces DEF rows
<1> HIDE DEF all, candidates, attended, both, waiting
<1>7. FindingBadge(Known) >= AttentionFindings(Known)
    BY <1>3, <1>6
<1>8. CandidateMetric(Known) >= Cardinality(both)
    BY <1>3, <1>6
<1>9. CandidateMetric(Known) = 0 => all = {}
    BY <1>3, <1>6
<1>10. AnswersAreCurrent =>
          /\ AttentionFindings(Known) = Cardinality(waiting)
          /\ CandidateMetric(Known) >= AttentionFindings(Known)
    BY <1>3, <1>5, <1>8
<1> QED
    BY <1>4, <1>7, <1>8, <1>9, <1>10 DEF ReviewIsCounted, CountOf, both, waiting, rows

(* Nor one that hides a job that failed in both answers.                     *)
LEMMA FailuresInBoth == HomeListTyped => FailuresAreCounted
<1> SUFFICES ASSUME HomeListTyped, homeList.of = "jobs" PROVE FailuresAreCounted
    BY DEF FailuresAreCounted, Fetched
<1> DEFINE rows == Known.rows
           told == PlacesOf(rows, LAMBDA j : j.counted = "failed")
           visible == PlacesOf(rows, LAMBDA j : j.session \in Known.active /\ j.seen = "failed")
           both == InBoth(LAMBDA s : s = "failed")
<1>1. Known \in CountedLists("jobs")
    BY DEF HomeListTyped, Known
<1>2. /\ told \subseteq DOMAIN rows /\ visible \subseteq DOMAIN rows
      /\ both \subseteq told /\ both \subseteq visible
    BY DEF PlacesOf, InBoth
<1>3. /\ VisibleFailures(Known) = Cardinality(visible)
      /\ FailedJobsMetric(Known) = IF Known.answered THEN Cardinality(told) ELSE Cardinality(visible)
    BY DEF VisibleFailures, FailedJobsMetric, CountOf
<1>4. AnswersAreCurrent => Known.answered /\ visible \subseteq told
    BY DEF AnswersAreCurrent, PlacesOf
<1>5. /\ Cardinality(told) \in Nat /\ Cardinality(visible) \in Nat /\ Cardinality(both) \in Nat
      /\ Cardinality(both) <= Cardinality(told) /\ Cardinality(both) <= Cardinality(visible)
      /\ visible \subseteq told => Cardinality(visible) <= Cardinality(told)
    <2> HIDE DEF told, visible, both
    <2> QED
        BY <1>1, <1>2, KnownPlaces DEF rows
<1> HIDE DEF told, visible, both
<1>6. FailedJobsMetric(Known) >= Cardinality(both)
    BY <1>3, <1>5
<1>7. AnswersAreCurrent \/ ~Known.answered => FailedJobsMetric(Known) >= VisibleFailures(Known)
    BY <1>3, <1>4, <1>5
<1> QED
    BY <1>6, <1>7 DEF FailuresAreCounted, both

(* The home page and the command center single out the same events.          *)
LEMMA FailuresStand == HomeListTyped => FailuresStandOut
<1>1. ASSUME NEW e PROVE (ActivityTone(e) = "red") = (EventTone(e) = "blue")
    BY DEF ActivityTone, EventTone, ActivityCategory
<1> QED
    BY <1>1 DEF FailuresStandOut

(* The first few of two lists, both of them where there is room for either.  *)
LEMMA FirstOfBothAreFew ==
    ASSUME NEW calls, calls \subseteq Nat, IsFiniteSet(calls),
           NEW jobs, jobs \subseteq Nat, IsFiniteSet(jobs),
           NEW n \in Nat, Cardinality(calls) < n
    PROVE  /\ calls \subseteq FirstOfBoth(n, calls, jobs)
           /\ FirstOfBoth(n, calls, jobs) \subseteq calls \cup jobs
           /\ jobs # {} => FirstOfBoth(n, calls, jobs) \cap jobs # {}
<1> DEFINE first == FirstFew(n, calls)
           rest == n - Cardinality(first)
<1>1. Cardinality(calls) \in Nat /\ Cardinality(jobs) \in Nat
    BY FS_CardinalityType
<1>2. first \subseteq calls /\ IsFiniteSet(first) /\ Cardinality(first) = Cardinality(calls)
    <2>1. /\ first \subseteq calls /\ IsFiniteSet(first)
          /\ Cardinality(first) = IF Cardinality(calls) <= n THEN Cardinality(calls) ELSE n
        BY FirstFewAreFew
    <2> HIDE DEF first
    <2> QED
        BY <1>1, <2>1
<1>3. first = calls
    <2>1. first \in SUBSET calls
        BY <1>2
    <2> HIDE DEF first
    <2> QED
        BY <1>2, <2>1, FS_Subset
<1>4. rest \in Nat /\ rest > 0
    <2> HIDE DEF first
    <2> QED
        BY <1>1, <1>2
<1>5. /\ FirstFew(rest, jobs) \subseteq jobs
      /\ IsFiniteSet(FirstFew(rest, jobs))
      /\ Cardinality(FirstFew(rest, jobs)) =
             IF Cardinality(jobs) <= rest THEN Cardinality(jobs) ELSE rest
    <2> HIDE DEF rest
    <2> QED
        BY <1>4, FirstFewAreFew
<1>6. jobs # {} => FirstFew(rest, jobs) # {}
    <2>1. jobs # {} => Cardinality(jobs) # 0
        BY FS_EmptySet
    <2> HIDE DEF rest
    <2>2. jobs # {} => Cardinality(FirstFew(rest, jobs)) # 0
        BY <1>1, <1>4, <1>5, <2>1
    <2> QED
        BY <1>5, <2>2, FS_EmptySet
<1>7. FirstOfBoth(n, calls, jobs) = first \cup FirstFew(rest, jobs)
    BY DEF FirstOfBoth
<1> HIDE DEF first, rest
<1> QED
    BY <1>3, <1>5, <1>6, <1>7

(* No list that is cut hides that something failed, nor which kind of work.  *)
LEMMA FailuresAreThere == HomeListTyped => FailuresAreListed
<1> SUFFICES ASSUME HomeListTyped, homeList.of = "work" PROVE FailuresAreListed
    BY DEF FailuresAreListed, Fetched
<1> DEFINE work == homeList.rows
           calls == FailedCalls(work)
           jobs == FailedJobs(work)
           fewCalls == FirstFew(2, calls)
           fewJobs == FirstFew(2, jobs)
           items == FailureItems(work)
<1>1. work \in Seq(Work)
    BY DEF HomeListTyped
<1>2. /\ calls \subseteq DOMAIN work /\ jobs \subseteq DOMAIN work /\ calls \cap jobs = {}
      /\ \A i \in calls : work[i].kind = "call"
      /\ \A i \in jobs : work[i].kind = "job"
    BY DEF FailedCalls, FailedJobs, PlacesOf
<1>3. /\ IsFiniteSet(calls) /\ Cardinality(calls) \in Nat /\ calls \subseteq Nat
      /\ IsFiniteSet(jobs) /\ Cardinality(jobs) \in Nat /\ jobs \subseteq Nat
    <2> HIDE DEF work, calls, jobs
    <2> QED
        BY <1>1, <1>2, FilteredRows
<1>4. /\ FailureCount(work) = Cardinality(calls) + Cardinality(jobs)
      /\ items = FirstOfBoth(3, fewCalls, fewJobs)
    BY DEF FailureCount, FailureItems
<1> HIDE DEF work, calls, jobs, items
<1>5. /\ fewCalls \subseteq calls /\ IsFiniteSet(fewCalls) /\ Cardinality(fewCalls) < 3
      /\ fewJobs \subseteq jobs /\ IsFiniteSet(fewJobs)
      /\ (calls # {} => fewCalls # {}) /\ (jobs # {} => fewJobs # {})
    <2>1. /\ fewCalls \subseteq calls /\ IsFiniteSet(fewCalls)
          /\ Cardinality(fewCalls) = IF Cardinality(calls) <= 2 THEN Cardinality(calls) ELSE 2
        BY <1>3, FirstFewAreFew
    <2>2. /\ fewJobs \subseteq jobs /\ IsFiniteSet(fewJobs)
          /\ Cardinality(fewJobs) = IF Cardinality(jobs) <= 2 THEN Cardinality(jobs) ELSE 2
        BY <1>3, FirstFewAreFew
    <2>3. (calls # {} => Cardinality(calls) # 0) /\ (jobs # {} => Cardinality(jobs) # 0)
        BY <1>3, FS_EmptySet
    <2>4. (Cardinality(fewCalls) # 0 => fewCalls # {}) /\ (Cardinality(fewJobs) # 0 => fewJobs # {})
        BY FS_EmptySet
    <2> HIDE DEF fewCalls, fewJobs
    <2> QED
        BY <1>3, <2>1, <2>2, <2>3, <2>4
<1> HIDE DEF fewCalls, fewJobs
<1>6. /\ fewCalls \subseteq items /\ items \subseteq fewCalls \cup fewJobs
      /\ fewJobs # {} => items \cap fewJobs # {}
    <2>1. fewCalls \subseteq Nat /\ fewJobs \subseteq Nat /\ 3 \in Nat
        BY <1>3, <1>5
    <2>2. IsFiniteSet(fewCalls) /\ IsFiniteSet(fewJobs) /\ Cardinality(fewCalls) < 3
        BY <1>5
    <2>3. /\ fewCalls \subseteq FirstOfBoth(3, fewCalls, fewJobs)
          /\ FirstOfBoth(3, fewCalls, fewJobs) \subseteq fewCalls \cup fewJobs
          /\ fewJobs # {} => FirstOfBoth(3, fewCalls, fewJobs) \cap fewJobs # {}
        BY <2>1, <2>2, FirstOfBothAreFew
    <2> QED
        BY <1>4, <2>3
<1>7. items \subseteq calls \cup jobs
    BY <1>5, <1>6
<1>8. Cardinality(items) <= FailureCount(work)
    <2> DEFINE failed == calls \cup jobs
    <2>1. IsFiniteSet(failed)
        BY <1>3, FS_Union
    <2>2. failed = calls \cup jobs
        OBVIOUS
    <2> HIDE DEF failed
    <2>3. Cardinality(failed) = Cardinality(calls) + Cardinality(jobs)
        BY <1>2, <2>1, <2>2, PartsAddUp
    <2>4. items \in SUBSET failed
        BY <1>7, <2>2
    <2>5. Cardinality(items) <= Cardinality(failed)
        BY <2>1, <2>4, FS_Subset
    <2> QED
        BY <1>4, <2>3, <2>5
<1>9. (items = {}) = (FailureCount(work) = 0)
    <2>1. FailureCount(work) = 0 <=> calls = {} /\ jobs = {}
        <3>1. (Cardinality(calls) = 0) = (calls = {}) /\ (Cardinality(jobs) = 0) = (jobs = {})
            BY <1>3, NoneFiltered
        <3>2. FailureCount(work) = 0 <=> Cardinality(calls) = 0 /\ Cardinality(jobs) = 0
            BY <1>3, <1>4
        <3> QED
            BY <3>1, <3>2
    <2>2. items = {} <=> calls = {} /\ jobs = {}
        BY <1>5, <1>6, <1>7
    <2> QED
        BY <2>1, <2>2
<1>10. ASSUME NEW i \in calls \cup jobs PROVE \E j \in items : work[j].kind = work[i].kind
    <2>1. ASSUME i \in calls PROVE \E j \in items : work[j].kind = "call"
        <3>1. PICK j \in fewCalls : TRUE
            BY <1>5, <2>1
        <3>2. j \in calls /\ j \in items
            BY <1>5, <1>6
        <3> QED
            BY <1>2, <3>2
    <2>2. ASSUME i \in jobs PROVE \E j \in items : work[j].kind = "job"
        <3>1. PICK j \in items \cap fewJobs : TRUE
            BY <1>5, <1>6, <2>2
        <3>2. j \in jobs /\ j \in items
            BY <1>5
        <3> QED
            BY <1>2, <3>2
    <2> QED
        BY <1>2, <2>1, <2>2
<1> QED
    BY <1>7, <1>8, <1>9, <1>10 DEF FailuresAreListed, work, calls, jobs, items

(* The home page counts sessions alike in its metric and its tabs, counts    *)
(* what waits or failed in both of two answers however late either is, and   *)
(* hides no failure behind a cut list, however many sessions, findings, tool *)
(* calls and jobs there are, whoever changes them between two answers.       *)
THEOREM HomeHidesNothing == HomeSpec => []HomeTells
<1>1. HomeListTyped => HomeTells
    BY HomeCountsHold, ReviewsAreCounted, FailuresInBoth, FailuresStand, FailuresAreThere DEF HomeTells
<1> QED
    BY <1>1, HomeListIsTyped, PTL

-----------------------------------------------------------------------------

(* What a rounded share says: it is nearest to the share, a tie goes up.     *)
LEMMA RoundedIsNearest ==
    ASSUME NEW p \in Nat, NEW w \in Nat, w > 0
    PROVE  /\ Rounded(p, w) \in Nat
           /\ 2 * (w * Rounded(p, w)) <= 2 * p + w
           /\ 2 * p + w < 2 * (w * Rounded(p, w)) + 2 * w
<1> DEFINE m == 2 * p + w
           q == m \div (2 * w)
<1>1. m \in Nat /\ 2 * w \in Nat /\ 2 * w > 0
    OBVIOUS
<1>2. q \in Nat /\ (2 * w) * q <= m /\ m < (2 * w) * q + 2 * w
    <2> DEFINE d == 2 * w
    <2>1. d \in Nat /\ d > 0
        BY <1>1
    <2> HIDE DEF m, d
    <2>2. m \div d \in Nat /\ d * (m \div d) <= m /\ m < d * (m \div d) + d
        <3>1. m = (d * (m \div d)) + (m % d) /\ 0 <= (m % d) /\ (m % d) < d /\ m \div d \in Int /\ (m % d) \in Int
            BY <1>1, <2>1
        <3>2. m \div d >= 0
            BY <1>1, <2>1
        <3> DEFINE r == m \div d
        <3>3. d * r \in Int
            BY <3>1, <2>1
        <3> QED
            BY <3>1, <3>2, <3>3, <1>1, <2>1
    <2> QED
        BY <2>2 DEF d
<1>3. Rounded(p, w) = q
    BY DEF Rounded
<1> HIDE DEF q
<1>4. w * q \in Nat /\ (2 * w) * q = 2 * (w * q)
    BY <1>2
<1> QED
    BY <1>2, <1>3, <1>4

(* Products with the same positive factor are ordered as the other factors.  *)
(* A positive factor of both sides may go.                                   *)
LEMMA Cancel ==
    ASSUME NEW c \in Nat, c > 0, NEW x \in Int, NEW y \in Int
    PROVE  /\ c * x < c * y => x < y
           /\ c * x <= c * y => x <= y
           /\ x <= y => c * x <= c * y
           /\ x < y => c * x < c * y
    OBVIOUS

(* A factor of a sum.                                                        *)
LEMMA Distribute ==
    ASSUME NEW c \in Nat, NEW x \in Nat, NEW y \in Nat
    PROVE  c * x \in Nat /\ c * y \in Nat /\ c * (x + y) = c * x + c * y
    OBVIOUS

(* A rate is nearest to the share in tenths of a percent.                    *)
LEMMA RateIsNearest ==
    ASSUME NEW c \in Nat, NEW w \in Nat, w > 0
    PROVE  /\ Rate(c, w) \in Nat
           /\ 2 * (w * Rate(c, w)) <= 2000 * c + w
           /\ 2000 * c + w < 2 * (w * Rate(c, w)) + 2 * w
<1> DEFINE p == 1000 * c
<1>1. p \in Nat /\ 2 * p = 2000 * c
    OBVIOUS
<1> HIDE DEF p
<1>2. /\ Rounded(p, w) \in Nat
      /\ 2 * (w * Rounded(p, w)) <= 2 * p + w
      /\ 2 * p + w < 2 * (w * Rounded(p, w)) + 2 * w
    BY <1>1, RoundedIsNearest
<1>3. Rate(c, w) = Rounded(p, w)
    BY DEF Rate, p
<1> QED
    BY <1>1, <1>2, <1>3

(* So it is a number of tenths.                                              *)
LEMMA RateIsNumber ==
    ASSUME NEW c \in Nat, NEW w \in Nat, w > 0
    PROVE  Rate(c, w) \in Nat
    BY RateIsNearest

(* Two rounded shares of a whole: they exceed it by the rounding at most,    *)
(* fill it if the parts do, and below a thousand only then.                  *)
LEMMA RatesFill ==
    ASSUME NEW n \in Nat, n > 0, NEW s \in Nat, NEW f \in Nat
    PROVE  /\ s + f <= n => Rate(s, n) + Rate(f, n) <= 1001
           /\ s + f = n => Rate(s, n) + Rate(f, n) >= 1000
           /\ s + f < n /\ n < 1000 => Rate(s, n) + Rate(f, n) < 1000
<1> DEFINE S == Rate(s, n)
           F == Rate(f, n)
           x == n * S
           y == n * F
<1>1. S \in Nat /\ 2 * x <= 2000 * s + n /\ 2000 * s + n < 2 * x + 2 * n
    BY RateIsNearest
<1>2. F \in Nat /\ 2 * y <= 2000 * f + n /\ 2000 * f + n < 2 * y + 2 * n
    BY RateIsNearest
<1> HIDE DEF S, F
<1>3. x \in Nat /\ y \in Nat /\ x + y = n * (S + F) /\ S + F \in Nat
    BY <1>1, <1>2, Distribute
<1> HIDE DEF x, y
<1>4. ASSUME s + f <= n PROVE S + F <= 1001
    <2>1. n * (S + F) < n * 1002
        BY <1>1, <1>2, <1>3, <1>4
    <2>2. S + F < 1002
        BY <1>3, <2>1, Cancel
    <2> QED
        BY <1>3, <2>2
<1>5. ASSUME s + f = n PROVE S + F >= 1000
    <2>1. n * 999 < n * (S + F)
        BY <1>1, <1>2, <1>3, <1>5
    <2>2. 999 < S + F
        BY <1>3, <2>1, Cancel
    <2> QED
        BY <1>3, <2>2
<1>6. ASSUME s + f < n, n < 1000 PROVE S + F < 1000
    <2>1. n * (S + F) < n * 1000
        BY <1>1, <1>2, <1>3, <1>6
    <2> QED
        BY <1>3, <2>1, Cancel
<1> QED
    BY <1>4, <1>5, <1>6 DEF S, F

(* A share that is not larger is not rounded to more.                        *)
LEMMA SmallerRate ==
    ASSUME NEW a \in Nat, NEW m \in Nat, m > 0, NEW b \in Nat, NEW n \in Nat, n > 0,
           a * n <= b * m
    PROVE  Rate(a, m) <= Rate(b, n)
<1> DEFINE A == Rate(a, m)
           B == Rate(b, n)
<1>1. A \in Nat /\ 2 * (m * A) <= 2000 * a + m
    BY RateIsNearest
<1>2. B \in Nat /\ 2000 * b + n < 2 * (n * B) + 2 * n
    BY RateIsNearest
<1> HIDE DEF A, B
<1> DEFINE c == m * n
<1>3. c \in Nat /\ c > 0
    BY Cancel
<1>4. n * (2 * (m * A)) <= n * (2000 * a + m)
    <2>1. 2 * (m * A) \in Int /\ 2000 * a + m \in Int
        BY <1>1, <1>2
    <2> QED
        BY <1>1, <1>2, <2>1, Cancel
<1>5. m * (2000 * b + n) < m * (2 * (n * B) + 2 * n)
    <2>1. 2000 * b + n \in Int /\ 2 * (n * B) + 2 * n \in Int
        BY <1>1, <1>2
    <2> QED
        BY <1>1, <1>2, <2>1, Cancel
<1>6. /\ n * (2 * (m * A)) = 2 * (c * A) /\ n * (2000 * a + m) = 2000 * (a * n) + c
      /\ m * (2000 * b + n) = 2000 * (b * m) + c
      /\ m * (2 * (n * B) + 2 * n) = 2 * (c * (B + 1))
    BY <1>1, <1>2
<1>7. c * A \in Nat /\ c * (B + 1) \in Nat /\ a * n \in Nat /\ b * m \in Nat
    BY <1>1, <1>2, <1>3
<1> HIDE DEF c
<1>8. c * A < c * (B + 1)
    BY <1>3, <1>4, <1>5, <1>6, <1>7
<1>9. A < B + 1
    BY <1>1, <1>2, <1>3, <1>8, Cancel
<1> QED
    BY <1>1, <1>2, <1>9 DEF A, B

(* Rounded to hundredths of a percent first, a rate is what it is when it is *)
(* rounded once, or a tenth more.                                            *)
LEMMA RoundedTwice ==
    ASSUME NEW c \in Nat, NEW n \in Nat, n > 0
    PROVE  /\ OverallRate(c, n) \in Nat
           /\ Rate(c, n) <= OverallRate(c, n) /\ OverallRate(c, n) <= Rate(c, n) + 1
<1> DEFINE q == Rate(c, n)
           fine == Rounded(10000 * c, n)
           twice == Rounded(fine, 10)
<1>1. q \in Nat /\ 2 * (n * q) <= 2000 * c + n /\ 2000 * c + n < 2 * (n * q) + 2 * n
    BY RateIsNearest
<1>2. /\ fine \in Nat /\ 2 * (n * fine) <= 20000 * c + n
      /\ 20000 * c + n < 2 * (n * fine) + 2 * n
    <2> DEFINE p == 10000 * c
    <2>1. p \in Nat /\ 2 * p = 20000 * c
        OBVIOUS
    <2> HIDE DEF p
    <2>2. /\ Rounded(p, n) \in Nat
          /\ 2 * (n * Rounded(p, n)) <= 2 * p + n
          /\ 2 * p + n < 2 * (n * Rounded(p, n)) + 2 * n
        BY <2>1, RoundedIsNearest
    <2> QED
        BY <2>1, <2>2 DEF p
<1> HIDE DEF q, fine
<1>3. /\ twice \in Nat /\ 2 * (10 * twice) <= 2 * fine + 10
      /\ 2 * fine + 10 < 2 * (10 * twice) + 2 * 10
    <2>1. fine \in Nat /\ 10 \in Nat /\ 10 > 0
        BY <1>2
    <2> QED
        BY <2>1, RoundedIsNearest
<1> HIDE DEF twice
<1>4. q <= twice
    <2>1. n * (20 * q) \in Nat /\ n * (20 * q) = 20 * (n * q) /\ n * q \in Nat
          /\ n * fine \in Nat /\ n * (2 * fine + 12) = 2 * (n * fine) + 12 * n
        BY <1>1, <1>2
    <2>2. n * (20 * q) < n * (2 * fine + 12)
        BY <1>1, <1>2, <2>1
    <2>3. 20 * q < 2 * fine + 12
        BY <1>1, <1>2, <2>2, Cancel
    <2> QED
        BY <1>1, <1>2, <1>3, <2>3
<1>5. twice <= q + 1
    <2>1. n * q \in Nat /\ n * fine \in Nat
          /\ n * (2 * fine) = 2 * (n * fine) /\ n * (20 * q + 11) = 20 * (n * q) + 11 * n
        BY <1>1, <1>2
    <2>2. n * (2 * fine) < n * (20 * q + 11)
        BY <1>1, <1>2, <2>1
    <2>3. 2 * fine < 20 * q + 11
        BY <1>1, <1>2, <2>2, Cancel
    <2> QED
        BY <1>1, <1>2, <1>3, <2>3
<1> QED
    BY <1>3, <1>4, <1>5 DEF OverallRate, q, fine, twice

(* The percentage of a part is between none and all, and is rounded to none  *)
(* only if the part is.                                                      *)
LEMMA PercentOfPart ==
    ASSUME NEW c \in Nat, NEW w \in Nat, w > 0, c <= w
    PROVE  /\ Rounded(100 * c, w) \in 0..100
           /\ c = 0 => Rounded(100 * c, w) = 0
           /\ Rounded(100 * c, w) = 0 => 200 * c < w
<1> DEFINE q == Rounded(100 * c, w)
<1>1. 100 * c \in Nat
    OBVIOUS
<1>2. /\ q \in Nat /\ 2 * (w * q) <= 2 * (100 * c) + w
      /\ 2 * (100 * c) + w < 2 * (w * q) + 2 * w
    BY <1>1, RoundedIsNearest
<1> HIDE DEF q
<1>3. w * q \in Nat
    BY <1>2
<1>4. w * q < w * 101
    BY <1>2, <1>3
<1>5. q < 101
    BY <1>2, <1>4, Cancel
<1>6. c = 0 => w * q < w * 1
    BY <1>2, <1>3
<1>7. c = 0 => q < 1
    BY <1>2, <1>6, Cancel
<1>8. q = 0 => w * q = 0
    BY <1>2
<1> QED
    BY <1>2, <1>5, <1>7, <1>8 DEF q

-----------------------------------------------------------------------------
(* What is fetched for the numbers above the lists, and for the panels.      *)
OverviewListed ==
    /\ overview.of = "approvals" => /\ overview.rows \in Seq(ApprovalRows)
                                    /\ overview.arrived \subseteq {"approvals", "overview"}
    /\ overview.of = "sessions" => overview.rows \in Seq(SessionStatuses)
    /\ overview.of = "findings" => overview.rows \in Seq(CitedFindings)

(* That it stays so.                                                         *)
LEMMA OverviewIsListed == OverviewSpec => []OverviewListed
<1>1. OverviewInit => OverviewListed
    BY DEF OverviewInit, OverviewListed
<1>2. ASSUME OverviewListed, [OverviewNext]_overview PROVE OverviewListed'
    <2>0. MaxListed \in Nat
        BY ListAssumption
    <2>1. ASSUME NEW rows \in SeqOf(ApprovalRows, MaxListed),
                 NEW arrived \in SUBSET {"approvals", "overview"},
                 FetchOverview("approvals", rows, arrived)
          PROVE  OverviewListed'
        BY <2>0, <2>1, SeqOfIsSeq DEF OverviewListed, FetchOverview
    <2>2. ASSUME NEW rows \in SeqOf(SessionStatuses, MaxListed),
                 NEW arrived, FetchOverview("sessions", rows, arrived)
          PROVE  OverviewListed'
        BY <2>0, <2>2, SeqOfIsSeq DEF OverviewListed, FetchOverview
    <2>3. ASSUME NEW rows \in SeqOf(CitedFindings, MaxListed), NEW arrived,
                 FetchOverview("findings", rows, arrived)
          PROVE  OverviewListed'
        BY <2>0, <2>3, SeqOfIsSeq DEF OverviewListed, FetchOverview
    <2>4. CASE UNCHANGED overview
        BY <1>2, <2>4 DEF OverviewListed
    <2> QED
        BY <1>2, <2>1, <2>2, <2>3, <2>4 DEF OverviewNext
<1> QED
    BY <1>1, <1>2, PTL DEF OverviewSpec

DetailListed ==
    /\ detail.of = "approval" => detail.row \in RequestRows
    /\ detail.of = "call" => detail.row \in CallRows
    /\ detail.of = "runtime" => detail.row \in InstanceRows
    /\ detail.of = "writes" => detail.row \in Seq(Writes)
    /\ detail.of = "risks" => detail.row \in Seq(Severities)

(* That it stays so.                                                         *)
LEMMA DetailIsListed == DetailSpec => []DetailListed
<1>1. DetailInit => DetailListed
    BY DEF DetailInit, DetailListed
<1>2. ASSUME DetailListed, [DetailNext]_detail PROVE DetailListed'
    <2>0. MaxListed \in Nat
        BY ListAssumption
    <2>1. ASSUME NEW a \in RequestRows, ShowDetail("approval", a) PROVE DetailListed'
        BY <2>1 DEF DetailListed, ShowDetail
    <2>2. ASSUME NEW c \in CallRows, ShowDetail("call", c) PROVE DetailListed'
        BY <2>2 DEF DetailListed, ShowDetail
    <2>3. ASSUME NEW i \in InstanceRows, ShowDetail("runtime", i) PROVE DetailListed'
        BY <2>3 DEF DetailListed, ShowDetail
    <2>4. ASSUME NEW writes \in SeqOf(Writes, MaxListed), ShowDetail("writes", writes)
          PROVE  DetailListed'
        BY <2>0, <2>4, SeqOfIsSeq DEF DetailListed, ShowDetail
    <2>5. ASSUME NEW findings \in SeqOf(Severities, MaxListed), ShowDetail("risks", findings)
          PROVE  DetailListed'
        BY <2>0, <2>5, SeqOfIsSeq DEF DetailListed, ShowDetail
    <2>6. CASE UNCHANGED detail
        BY <1>2, <2>6 DEF DetailListed
    <2> QED
        BY <1>2, <2>1, <2>2, <2>3, <2>4, <2>5, <2>6 DEF DetailNext
<1> QED
    BY <1>1, <1>2, PTL DEF DetailSpec

DirectoryListed ==
    /\ directory.of = "providers" => /\ directory.rows[1] \in Seq(ProviderRows)
                                     /\ directory.rows[2] \in Seq(PolicyRows)
    /\ directory.of = "tools" => directory.rows \in Seq(CountedCalls)
    /\ directory.of = "sessions" => directory.rows \in Seq(SessionStatuses)
    /\ directory.of = "severities" => directory.rows \in Seq({"critical", "high", "info"})

(* That it stays so.                                                         *)
LEMMA DirectoryIsListed ==
    DirectoryInit /\ [][DirectoryNext]_directory => []DirectoryListed
<1>1. DirectoryInit => DirectoryListed
    BY DEF DirectoryInit, DirectoryListed
<1>2. ASSUME DirectoryListed, [DirectoryNext]_directory PROVE DirectoryListed'
    <2>0. MaxListed \in Nat
        BY ListAssumption
    <2>1. ASSUME NEW providers \in SeqOf(ProviderRows, MaxListed),
                 NEW policies \in SeqOf(PolicyRows, MaxListed),
                 FetchDirectory("providers", <<providers, policies>>, {})
          PROVE  DirectoryListed'
        BY <2>0, <2>1, SeqOfIsSeq DEF DirectoryListed, FetchDirectory
    <2>2. ASSUME NEW calls \in SeqOf(CountedCalls, MaxListed), FetchDirectory("tools", calls, {})
          PROVE  DirectoryListed'
        BY <2>0, <2>2, SeqOfIsSeq DEF DirectoryListed, FetchDirectory
    <2>3. ASSUME NEW rows \in SeqOf(SessionStatuses, MaxListed), NEW arrived,
                 FetchDirectory("sessions", rows, arrived)
          PROVE  DirectoryListed'
        BY <2>0, <2>3, SeqOfIsSeq DEF DirectoryListed, FetchDirectory
    <2>4. ASSUME NEW findings \in SeqOf({"critical", "high", "info"}, MaxListed),
                 FetchDirectory("severities", findings, {})
          PROVE  DirectoryListed'
        BY <2>0, <2>4, SeqOfIsSeq DEF DirectoryListed, FetchDirectory
    <2>5. CASE UNCHANGED directory
        BY <1>2, <2>5 DEF DirectoryListed
    <2> QED
        BY <1>2, <2>1, <2>2, <2>3, <2>4, <2>5 DEF DirectoryNext
<1> QED
    BY <1>1, <1>2, PTL

-----------------------------------------------------------------------------

(* The keys that occur in a list are finitely many.                          *)
LEMMA FiniteKeys ==
    ASSUME NEW key, IsFiniteSet(DOMAIN key)
    PROVE  IsFiniteSet(Range(key))
<1> DEFINE places == DOMAIN key
           named == [i \in places |-> key[i]]
<1>1. named \in Surjection(places, Range(key))
    BY DEF Surjection, Range
<1> HIDE DEF named
<1> QED
    BY <1>1, FS_Surjection

(* A list has as many rows as it is long.                                    *)
LEMMA WholeList ==
    ASSUME NEW S, NEW rows \in Seq(S)
    PROVE  /\ IsFiniteSet(DOMAIN rows) /\ Cardinality(DOMAIN rows) = Len(rows)
           /\ Len(rows) \in Nat /\ \A i \in DOMAIN rows : rows[i] \in S
<1>1. Len(rows) \in Nat /\ DOMAIN rows = 1..Len(rows)
    OBVIOUS
<1> QED
    BY <1>1, FS_Interval
(* Counts under keys add up to the length of the list.                       *)
LEMMA ListAddsUp ==
    ASSUME NEW S, NEW rows \in Seq(S), NEW keys, IsFiniteSet(keys),
           NEW key \in [DOMAIN rows -> keys],
           NEW f, DOMAIN f = keys,
           \A k \in keys : f[k] = Cardinality(Under(k, key, DOMAIN rows))
    PROVE  SumOf(f) = Len(rows)
<1> DEFINE whole == DOMAIN rows
<1>2. IsFiniteSet(whole) /\ Cardinality(whole) = Len(rows)
    BY WholeList
<1>3. key \in [whole -> keys] /\ \A k \in keys : f[k] = Cardinality(Under(k, key, whole))
    OBVIOUS
<1> HIDE DEF whole
<1>4. SumOf(f) = Cardinality(whole)
    BY <1>2, <1>3, SumOfCounts
<1> QED
    BY <1>2, <1>4

-----------------------------------------------------------------------------

(* Five places tell one number of pending requests.                          *)
LEMMA PendingAgrees == OverviewListed => PendingIsOneNumber
<1> SUFFICES ASSUME OverviewListed, overview.of = "approvals" PROVE PendingIsOneNumber
    BY DEF PendingIsOneNumber, OverviewOf
<1> DEFINE rows == overview.rows
           pending == PlacesOf(rows, IsPending)
<1>1. rows \in Seq(ApprovalRows) /\ overview.arrived \subseteq {"approvals", "overview"}
    BY DEF OverviewListed
<1>2. \A i \in DOMAIN rows : rows[i] \in ApprovalRows
    BY <1>1, WholeList
<1>3. ASSUME NEW a \in ApprovalRows
      PROVE  (ApprovalStatus(a.status) = "pending") = IsPending(a)
    BY DEF ApprovalRows, ApprovalStatus, IsPending
<1>4. PlacesOf(rows, LAMBDA a : ApprovalStatus(a.status) = "pending") = pending
    BY <1>2, <1>3 DEF PlacesOf
<1>5. CountOf(rows, LAMBDA a : ApprovalStatus(a.status) = "pending") = CountOf(rows, IsPending)
    BY <1>4 DEF CountOf
<1>6. KeyCount(ApprovalCounts(rows), "pending") = CountOf(rows, IsPending)
    <2> DEFINE counts == ApprovalCounts(rows)
    <2>1. counts = [k \in {rows[i].status : i \in DOMAIN rows} |->
                        CountOf(rows, LAMBDA a : a.status = k)]
        BY DEF ApprovalCounts, GroupedCounts
    <2>2. CASE "pending" \in DOMAIN counts
        <3>1. counts["pending"] = CountOf(rows, LAMBDA a : a.status = "pending")
            BY <2>1, <2>2
        <3>2. PlacesOf(rows, LAMBDA a : a.status = "pending") = pending
            BY DEF PlacesOf, IsPending
        <3> QED
            BY <2>2, <3>1, <3>2 DEF KeyCount, CountOf
    <2>3. CASE "pending" \notin DOMAIN counts
        <3>1. pending = {}
            BY <2>1, <2>3 DEF PlacesOf, IsPending
        <3>2. Cardinality(pending) = 0
            BY <3>1, FS_EmptySet
        <3> QED
            BY <2>3, <3>2 DEF KeyCount, CountOf
    <2> QED
        BY <2>2, <2>3
<1>7. BuildApprovalMetrics(rows, overview.arrived).pending = CountOf(rows, IsPending)
    BY <1>5 DEF BuildApprovalMetrics, AnalyticsApprovals
<1>8. /\ HomePendingMetric(rows, overview.arrived) = CountOf(rows, IsPending)
      /\ HomePendingBadge(rows) = CountOf(rows, IsPending)
      /\ NotificationCount(rows) = CountOf(rows, IsPending)
    BY DEF HomePendingMetric, HomePendingBadge, NotificationCount, AnalyticsApprovals
<1>9. overview.arrived # {} => AnalyticsPending(rows, overview.arrived) = CountOf(rows, IsPending)
    BY <1>1, <1>6 DEF AnalyticsPending, AnalyticsApprovals
<1> QED
    BY <1>7, <1>8, <1>9 DEF PendingIsOneNumber

(* The smaller of two numbers.                                               *)
LEMMA SmallerOfTwo ==
    ASSUME NEW m \in Nat, NEW n \in Nat
    PROVE  Min({m, n}) = IF n <= m THEN n ELSE m
    BY DEF Min

(* Two parts share a list out.                                               *)
SharedOut(whole, a, b) == whole = a \cup b /\ a \cap b = {}

(* Their sizes add up to its size.                                           *)
LEMMA SharedAddUp ==
    ASSUME NEW whole, IsFiniteSet(whole), NEW a, NEW b, SharedOut(whole, a, b)
    PROVE  /\ IsFiniteSet(a) /\ IsFiniteSet(b)
           /\ Cardinality(a) \in Nat /\ Cardinality(b) \in Nat
           /\ Cardinality(whole) = Cardinality(a) + Cardinality(b)
<1>1. whole = a \cup b /\ a \cap b = {} /\ a \in SUBSET whole /\ b \in SUBSET whole
    BY DEF SharedOut
<1>2. IsFiniteSet(a) /\ IsFiniteSet(b)
    BY <1>1, FS_Subset
<1> QED
    BY <1>1, <1>2, PartsAddUp

(* The metrics of the approvals page add up.                                 *)
LEMMA ApprovalsAgree == OverviewListed => ApprovalsAddUp
<1> SUFFICES ASSUME OverviewListed, overview.of = "approvals" PROVE ApprovalsAddUp
    BY DEF ApprovalsAddUp, OverviewOf
<1> DEFINE rows == overview.rows
           whole == DOMAIN rows
           metric == BuildApprovalMetrics(rows, overview.arrived)
           risk == BuildRiskSummary(rows)
           With(s) == {i \in whole : rows[i].status = s}
           resolved == With("approved") \cup With("denied")
           At(r) == {i \in whole : rows[i].risk = r}
           above == At("high") \cup At("medium")
<1>1. rows \in Seq(ApprovalRows)
    BY DEF OverviewListed
<1>2. IsFiniteSet(whole) /\ Cardinality(whole) = Len(rows)
      /\ \A i \in whole : rows[i] \in ApprovalRows
    BY <1>1, WholeList
<1>3. ASSUME NEW a \in ApprovalRows
      PROVE  /\ ApprovalStatus(a.status) = a.status /\ ApprovalRisk(a.risk) = a.risk
             /\ a.status \in {"pending", "approved", "denied"} /\ a.risk \in {"low", "medium", "high"}
             /\ IsPending(a) = (a.status = "pending")
    BY DEF ApprovalRows, ApprovalStatus, ApprovalRisk, IsPending
<1>4. /\ whole = resolved \cup With("pending") /\ resolved \cap With("pending") = {}
      /\ With("approved") \cap With("denied") = {}
    BY <1>2, <1>3
<1>5. /\ whole = above \cup At("low") /\ above \cap At("low") = {}
      /\ At("high") \cap At("medium") = {}
    BY <1>2, <1>3
<1>6. IsFiniteSet(resolved) /\ IsFiniteSet(above) /\ resolved \subseteq Nat
    <2>1. resolved \subseteq DOMAIN rows /\ above \subseteq DOMAIN rows
        OBVIOUS
    <2> HIDE DEF resolved, above, rows
    <2> QED
        BY <1>1, <2>1, FilteredRows
<1> DEFINE approved == With("approved")
           denied == With("denied")
           pending == With("pending")
           high == At("high")
           medium == At("medium")
           low == At("low")
<1>7. /\ Cardinality(approved) \in Nat /\ Cardinality(denied) \in Nat /\ Cardinality(pending) \in Nat
      /\ Cardinality(resolved) \in Nat
      /\ Cardinality(resolved) = Cardinality(approved) + Cardinality(denied)
      /\ Cardinality(whole) = Cardinality(resolved) + Cardinality(pending)
    <2>1. /\ IsFiniteSet(whole) /\ SharedOut(whole, resolved, pending)
          /\ SharedOut(resolved, approved, denied)
        BY <1>2, <1>4 DEF SharedOut
    <2> HIDE DEF approved, denied, pending, resolved, whole
    <2> QED
        BY <2>1, SharedAddUp
<1>8. /\ Cardinality(high) \in Nat /\ Cardinality(medium) \in Nat /\ Cardinality(low) \in Nat
      /\ Cardinality(whole) = Cardinality(high) + Cardinality(medium) + Cardinality(low)
    <2>1. /\ IsFiniteSet(whole) /\ SharedOut(whole, above, low) /\ SharedOut(above, high, medium)
        BY <1>2, <1>5 DEF SharedOut
    <2> HIDE DEF high, medium, low, above, whole
    <2> QED
        BY <2>1, SharedAddUp
<1>9. ASSUME NEW s \in {"pending", "approved", "denied"}
      PROVE  /\ PlacesOf(rows, LAMBDA a : a.status = s) = With(s)
             /\ PlacesOf(rows, LAMBDA a : ApprovalStatus(a.status) = s) = With(s)
    BY <1>2, <1>3 DEF PlacesOf
<1>10. /\ PlacesOf(rows, IsPending) = With("pending")
       /\ PlacesOf(rows, LAMBDA a : ApprovalStatus(a.status) = "expired") = {}
    BY <1>2, <1>3 DEF PlacesOf
<1>11. Cardinality({}) = 0
    BY FS_EmptySet
<1>12. /\ metric.pending = Cardinality(pending) /\ metric.approved = Cardinality(approved)
       /\ metric.denied = Cardinality(denied)
       /\ metric.expired = 0 /\ metric.total = Len(rows)
    BY <1>9, <1>10, <1>11 DEF BuildApprovalMetrics, AnalyticsApprovals, CountOf
<1>13. /\ PlacesOf(rows, LAMBDA a : ApprovalRisk(a.risk) = RiskOrder[1]) = high
       /\ PlacesOf(rows, LAMBDA a : ApprovalRisk(a.risk) = RiskOrder[2]) = medium
       /\ PlacesOf(rows, LAMBDA a : ApprovalRisk(a.risk) = RiskOrder[3]) = low
    <2>1. RiskOrder[1] = "high" /\ RiskOrder[2] = "medium" /\ RiskOrder[3] = "low"
        BY DEF RiskOrder
    <2> QED
        BY <1>2, <1>3, <2>1 DEF PlacesOf
<1>14. /\ risk[1] = Cardinality(high) /\ risk[2] = Cardinality(medium)
       /\ risk[3] = Cardinality(low) /\ RiskGradient(risk)[3] = risk[1] + risk[2]
    <2>1. /\ risk[1] = Cardinality(PlacesOf(rows, LAMBDA a : ApprovalRisk(a.risk) = RiskOrder[1]))
          /\ risk[2] = Cardinality(PlacesOf(rows, LAMBDA a : ApprovalRisk(a.risk) = RiskOrder[2]))
          /\ risk[3] = Cardinality(PlacesOf(rows, LAMBDA a : ApprovalRisk(a.risk) = RiskOrder[3]))
        BY DEF BuildRiskSummary, CountOf
    <2>2. RiskGradient(risk)[3] = risk[1] + risk[2]
        BY DEF RiskGradient
    <2> HIDE DEF risk
    <2> QED
        BY <1>13, <2>1, <2>2
<1>15. PlacesOf(rows, LAMBDA a : ApprovalStatus(a.status) # "pending") = resolved
    BY <1>2, <1>3 DEF PlacesOf
<1>16. BuildRecentOutcomes(rows) = FirstFew(5, resolved)
    BY <1>15 DEF BuildRecentOutcomes
<1> HIDE DEF approved, denied, pending, high, medium, low, resolved, whole, metric, risk, rows
<1>17. Cardinality(BuildRecentOutcomes(rows)) = Min({5, Cardinality(resolved)})
    <2>1. 5 \in Nat
        OBVIOUS
    <2>2. Cardinality(FirstFew(5, resolved))
              = IF Cardinality(resolved) <= 5 THEN Cardinality(resolved) ELSE 5
        BY <1>6, <2>1, FirstFewAreFew
    <2>3. Min({5, Cardinality(resolved)})
              = IF Cardinality(resolved) <= 5 THEN Cardinality(resolved) ELSE 5
        BY <1>7, <2>1, SmallerOfTwo
    <2> QED
        BY <1>16, <2>2, <2>3
<1>18. metric.total = Cardinality(resolved) + Cardinality(pending)
    BY <1>2, <1>7, <1>12
<1>19. /\ metric.total - metric.pending = Cardinality(resolved)
       /\ metric.pending + metric.approved + metric.denied + metric.expired = metric.total
    <2>1. metric.total - metric.pending = Cardinality(resolved)
        BY <1>7, <1>12, <1>18
    <2>2. metric.pending + metric.approved + metric.denied + metric.expired = metric.total
        BY <1>7, <1>12, <1>18
    <2> QED
        BY <2>1, <2>2
<1>20. RiskGradient(risk)[3] + risk[3] = metric.total
    BY <1>2, <1>8, <1>12, <1>14
<1> QED
    BY <1>17, <1>19, <1>20 DEF ApprovalsAddUp, metric, risk, rows

(* There are finitely many statuses of sessions and severities of risks.     *)
LEMMA FewKeys == IsFiniteSet(SessionStatuses) /\ IsFiniteSet(RiskSeverities)
<1> DEFINE status == [i \in 1..9 |->
                         CASE i = 1 -> "draft"   [] i = 2 -> "planning"  [] i = 3 -> "running"
                           [] i = 4 -> "awaiting_approval"               [] i = 5 -> "paused"
                           [] i = 6 -> "completed" [] i = 7 -> "failed"  [] i = 8 -> "stopped"
                           [] OTHER -> "archived"]
           risk == [i \in 1..4 |->
                       CASE i = 1 -> "High" [] i = 2 -> "Medium" [] i = 3 -> "Low" [] OTHER -> "Info"]
<1>1. status \in Surjection(1..9, SessionStatuses)
    <2>1. status \in [1..9 -> SessionStatuses]
        BY DEF SessionStatuses
    <2>2. /\ status[1] = "draft" /\ status[2] = "planning" /\ status[3] = "running"
          /\ status[4] = "awaiting_approval" /\ status[5] = "paused" /\ status[6] = "completed"
          /\ status[7] = "failed" /\ status[8] = "stopped" /\ status[9] = "archived"
        OBVIOUS
    <2>3. 1 \in 1..9 /\ 2 \in 1..9 /\ 3 \in 1..9 /\ 4 \in 1..9 /\ 5 \in 1..9 /\ 6 \in 1..9
          /\ 7 \in 1..9 /\ 8 \in 1..9 /\ 9 \in 1..9
        OBVIOUS
    <2> HIDE DEF status
    <2>4. ASSUME NEW s \in SessionStatuses PROVE \E i \in 1..9 : status[i] = s
        BY <2>2, <2>3 DEF SessionStatuses
    <2> QED
        BY <2>1, <2>4 DEF Surjection
<1>2. risk \in Surjection(1..4, RiskSeverities)
    <2>1. risk \in [1..4 -> RiskSeverities]
        BY DEF RiskSeverities
    <2>2. risk[1] = "High" /\ risk[2] = "Medium" /\ risk[3] = "Low" /\ risk[4] = "Info"
        OBVIOUS
    <2>3. 1 \in 1..4 /\ 2 \in 1..4 /\ 3 \in 1..4 /\ 4 \in 1..4
        OBVIOUS
    <2> HIDE DEF risk
    <2>4. ASSUME NEW s \in RiskSeverities PROVE \E i \in 1..4 : risk[i] = s
        BY <2>2, <2>3 DEF RiskSeverities
    <2> QED
        BY <2>1, <2>4 DEF Surjection
<1>3. IsFiniteSet(1..9) /\ IsFiniteSet(1..4)
    <2>1. ASSUME NEW n \in Nat PROVE IsFiniteSet(1..n)
        BY FS_Interval
    <2> QED
        BY <2>1
<1> HIDE DEF status, risk
<1> QED
    BY <1>1, <1>2, <1>3, FS_Surjection

(* The overview of sessions adds up to their number.                         *)
LEMMA SessionsAgree == OverviewListed => SessionsAddUp
<1> SUFFICES ASSUME OverviewListed, overview.of = "sessions" PROVE SessionsAddUp
    BY DEF SessionsAddUp, OverviewOf
<1> DEFINE rows == overview.rows
           arrived == overview.arrived
           numbers == OverviewStatuses(rows, arrived)
           tabs == StatusTabs(rows)
           counts == GroupedCounts(rows, LAMBDA r : r)
           key == [i \in DOMAIN rows |-> rows[i]]
<1>1. rows \in Seq(SessionStatuses) /\ \A i \in DOMAIN rows : rows[i] \in SessionStatuses
    <2>1. rows \in Seq(SessionStatuses)
        BY DEF OverviewListed
    <2> QED
        BY <2>1, WholeList
<1>2. ASSUME NEW s \in SessionStatuses
      PROVE  /\ PlacesOf(rows, LAMBDA r : NormalizeStatus(r) = s) = PlacesOf(rows, LAMBDA r : r = s)
             /\ PlacesOf(rows, LAMBDA r : r = s) = Under(s, key, DOMAIN rows)
    BY <1>1 DEF NormalizeStatus, PlacesOf, Under
<1>3. DOMAIN tabs = SessionStatuses
      /\ \A s \in SessionStatuses : tabs[s] = Cardinality(Under(s, key, DOMAIN rows))
    BY <1>2 DEF StatusTabs, CountOf
<1>4. counts = [k \in {rows[i] : i \in DOMAIN rows} |-> CountOf(rows, LAMBDA r : r = k)]
    BY DEF GroupedCounts
<1>5. ASSUME NEW s \in DOMAIN counts PROVE s \in SessionStatuses /\ counts[s] = tabs[s]
    <2>1. s \in SessionStatuses
        BY <1>1, <1>4, <1>5
    <2> QED
        BY <1>2, <1>3, <1>4, <1>5, <2>1 DEF CountOf
<1>6. ASSUME NEW s \in SessionStatuses, s \notin DOMAIN counts PROVE tabs[s] = 0
    <2>1. Under(s, key, DOMAIN rows) = {}
        BY <1>4, <1>6 DEF Under
    <2> QED
        BY <1>3, <2>1, FS_EmptySet
<1>7. numbers = tabs
    <2>1. DOMAIN numbers = SessionStatuses /\ DOMAIN <<>> = {}
        BY DEF OverviewStatuses
    <2>2. ASSUME NEW s \in SessionStatuses PROVE numbers[s] = tabs[s]
        BY <1>5, <2>1 DEF OverviewStatuses
    <2>3. numbers = [s \in SessionStatuses |-> numbers[s]] /\ tabs = [s \in SessionStatuses |-> tabs[s]]
        BY DEF OverviewStatuses, StatusTabs
    <2> HIDE DEF numbers, tabs
    <2> QED
        BY <2>2, <2>3
<1>8. SumOf(tabs) = Len(rows)
    <2>1. key \in [DOMAIN rows -> SessionStatuses]
        BY <1>1
    <2> HIDE DEF key, tabs, rows
    <2> QED
        BY <1>1, <1>3, <2>1, FewKeys, ListAddsUp
<1>9. "overview" \in arrived => SessionsCompleted(rows, arrived) = tabs["completed"]
    <2>1. "completed" \in SessionStatuses
        BY DEF SessionStatuses
    <2>2. KeyCount(counts, "completed") = tabs["completed"]
        BY <1>5, <1>6, <2>1 DEF KeyCount
    <2> QED
        BY <2>2 DEF SessionsCompleted
<1> HIDE DEF numbers, tabs
<1> QED
    BY <1>7, <1>8, <1>9 DEF SessionsAddUp, numbers, tabs

(* Every finding of a report is counted under one severity.                  *)
LEMMA RisksAgree == DetailListed => RisksAddUp
<1> SUFFICES ASSUME DetailListed, detail.of = "risks" PROVE RisksAddUp
    BY DEF RisksAddUp, DetailOf
<1> DEFINE rows == detail.row
           summary == RiskSummary(rows)
           counts == [s \in RiskSeverities |-> summary[s].count]
           key == [i \in DOMAIN rows |-> ReportSeverity(rows[i])]
           total == Max({Len(rows), 1})
<1>1. rows \in Seq(Severities)
    BY DEF DetailListed
<1>2. key \in [DOMAIN rows -> RiskSeverities]
    BY DEF ReportSeverity, RiskSeverities
<1>3. ASSUME NEW s \in RiskSeverities
      PROVE  /\ summary[s].count = Cardinality(Under(s, key, DOMAIN rows))
             /\ summary[s].percent = Rounded(100 * summary[s].count, total)
    <2>1. PlacesOf(rows, LAMBDA r : ReportSeverity(r) = s) = Under(s, key, DOMAIN rows)
        BY DEF PlacesOf, Under
    <2> QED
        BY <2>1 DEF RiskSummary, CountOf
<1>4. Len(rows) \in Nat
    BY <1>1
<1>5. total \in Nat /\ total > 0 /\ total >= Len(rows)
    <2>1. ASSUME NEW n \in Nat PROVE Max({n, 1}) \in Nat /\ Max({n, 1}) > 0 /\ Max({n, 1}) >= n
        BY DEF Max
    <2> HIDE DEF rows
    <2> QED
        BY <1>4, <2>1
<1>6. SumOf(counts) = Len(rows)
    <2>1. DOMAIN counts = RiskSeverities
          /\ \A s \in RiskSeverities : counts[s] = Cardinality(Under(s, key, DOMAIN rows))
        BY <1>3
    <2> HIDE DEF key, counts, rows
    <2> QED
        BY <1>1, <1>2, <2>1, FewKeys, ListAddsUp
<1>7. ASSUME NEW s \in RiskSeverities
      PROVE  summary[s].percent \in 0..100 /\ (summary[s].count = 0 => summary[s].percent = 0)
    <2>1. Under(s, key, DOMAIN rows) \subseteq DOMAIN rows
        BY DEF Under
    <2>2. summary[s].count \in Nat /\ summary[s].count <= Len(rows)
        <3> HIDE DEF summary, key, rows
        <3> QED
            BY <1>1, <1>3, <2>1, FilteredRows
    <2> HIDE DEF summary, total, rows
    <2>3. summary[s].count <= total
        BY <1>4, <1>5, <2>2
    <2> QED
        BY <1>3, <1>5, <2>2, <2>3, PercentOfPart
<1> HIDE DEF counts, summary
<1> QED
    BY <1>6, <1>7 DEF RisksAddUp, counts, summary

(* The card of confirmed findings tells zero, and so the number of the       *)
(* evidence page only if that is zero.                                       *)
LEMMA ConfirmedCardHolds == OverviewListed => ConfirmedCardTellsZero
<1> SUFFICES ASSUME OverviewListed, overview.of = "findings" PROVE ConfirmedCardTellsZero
    BY DEF ConfirmedCardTellsZero, OverviewOf
<1> DEFINE findings == overview.rows
           confirming == PlacesOf(findings, LAMBDA f : f.status = "confirmed")
<1>1. findings \in Seq(CitedFindings)
    BY DEF OverviewListed
<1>2. AnalyticsConfirmed(findings, overview.arrived) = 0
    <2>1. \A i \in DOMAIN findings : findings[i].severity # "confirmed"
        <3>1. \A i \in DOMAIN findings : findings[i] \in CitedFindings
            <4> HIDE DEF findings
            <4> QED
                BY <1>1
        <3> QED
            BY <3>1 DEF CitedFindings
    <2>2. "confirmed" \notin DOMAIN SeverityCounts(findings)
        BY <2>1 DEF SeverityCounts, GroupedCounts
    <2> QED
        BY <2>2 DEF AnalyticsConfirmed, KeyCount
<1>3. BuildEvidenceMetrics(findings).confirmed = Cardinality(confirming)
    BY DEF BuildEvidenceMetrics, CountOf
<1>4. (confirming = {}) = (\A f \in Range(findings) : f.status # "confirmed")
    BY DEF PlacesOf, Range
<1>5. IsFiniteSet(confirming) /\ Cardinality(confirming) \in Nat
    <2>1. confirming \subseteq DOMAIN findings
        BY DEF PlacesOf
    <2> HIDE DEF confirming, findings
    <2> QED
        BY <1>1, <2>1, FilteredRows
<1>6. (Cardinality(confirming) = 0) = (confirming = {})
    <2> HIDE DEF confirming
    <2> QED
        BY <1>5, NoneFiltered
<1> DEFINE confirmed == BuildEvidenceMetrics(findings).confirmed
           card == AnalyticsConfirmed(findings, overview.arrived)
<1>7. (card = confirmed) = (confirming = {}) /\ card <= confirmed
    <2> HIDE DEF confirming
    <2> QED
        BY <1>2, <1>3, <1>5, <1>6
<1>8. (card = confirmed) = (\A f \in Range(findings) : f.status # "confirmed") /\ card <= confirmed
    <2> HIDE DEF confirming, card, confirmed
    <2> QED
        BY <1>4, <1>7
<1> QED
    BY <1>8 DEF ConfirmedCardTellsZero

(* A row of evidence tells what the findings that cite it say.               *)
LEMMA LinkedAgree == OverviewListed => LinkedRowsTell
<1> SUFFICES ASSUME OverviewListed, overview.of = "findings" PROVE LinkedRowsTell
    BY DEF LinkedRowsTell, OverviewOf
<1> DEFINE findings == overview.rows
           metric == BuildEvidenceMetrics(findings)
           Linked(e) == LinkedFinding(findings, e)
           First(e) == FirstLinked(findings, e)
           linked == {e \in Pieces : Linked(e) # {}}
           confirmed == FilterEvidence(findings, "confirmed")
           candidate == FilterEvidence(findings, "candidate")
           confirming == PlacesOf(findings, LAMBDA f : f.status = "confirmed")
           links == [i \in DOMAIN findings |-> EvidenceLinks(findings[i])]
           part == [i \in DOMAIN findings |-> findings[i].cites]
<1>1. findings \in Seq(CitedFindings)
    BY DEF OverviewListed
<1>2. /\ IsFiniteSet(DOMAIN findings) /\ DOMAIN findings \subseteq Nat
      /\ \A i \in DOMAIN findings : findings[i] \in CitedFindings
    <2> HIDE DEF findings
    <2>1. DOMAIN findings \subseteq Nat
        BY <1>1
    <2> QED
        BY <1>1, <2>1, WholeList
<1>3. ASSUME NEW e, Linked(e) # {}
      PROVE  /\ First(e) \in DOMAIN findings /\ e \in findings[First(e)].cites
    <2>1. Linked(e) \subseteq Nat
        BY <1>2 DEF LinkedFinding
    <2>2. \E i \in Linked(e) : \A j \in Linked(e) : i <= j
        <3> HIDE DEF Linked
        <3> QED
            BY <1>3, <2>1, FirstExists
    <2>3. First(e) \in Linked(e)
        BY <2>2 DEF FirstLinked, Min
    <2> QED
        BY <2>3 DEF LinkedFinding
<1>4. \A e : Linked(e) = {} <=> \A f \in Range(findings) : e \notin f.cites
    BY DEF LinkedFinding, Range
<1>5. ASSUME NEW e
      PROVE  /\ (RowStatus(findings, e) = "reviewed") = (Linked(e) = {})
             /\ RowStatus(findings, e) = "confirmed" =>
                    Linked(e) # {} /\ findings[First(e)].status = "confirmed"
             /\ RowStatus(findings, e) \in {"reviewed", "confirmed", "candidate"}
    BY DEF RowStatus
<1>6. ASSUME NEW e \in Pieces, RowStatus(findings, e) = "confirmed"
      PROVE  \E f \in Range(findings) : e \in f.cites /\ f.status = "confirmed"
    <2>1. /\ First(e) \in DOMAIN findings /\ e \in findings[First(e)].cites
          /\ findings[First(e)].status = "confirmed"
        BY <1>3, <1>5, <1>6
    <2> QED
        BY <2>1 DEF Range
<1>7. ASSUME NEW e \in Pieces
      PROVE  (RowStatus(findings, e) = "reviewed") = (\A f \in Range(findings) : e \notin f.cites)
    BY <1>4, <1>5
<1>8. /\ IsFiniteSet(linked) /\ IsFiniteSet(confirmed) /\ IsFiniteSet(candidate)
      /\ Cardinality(linked) = Cardinality(candidate) + Cardinality(confirmed)
    <2>1. linked \in SUBSET Pieces
        OBVIOUS
    <2>2. IsFiniteSet(linked)
        <3> HIDE DEF linked
        <3> QED
            BY <2>1, PiecesAssumption, FS_Subset
    <2>3. SharedOut(linked, candidate, confirmed)
        BY <1>5 DEF SharedOut, FilterEvidence
    <2> HIDE DEF linked, candidate, confirmed
    <2> QED
        BY <2>2, <2>3, SharedAddUp
<1>9. metric.linked = Cardinality(linked) /\ metric.confirmed = Cardinality(confirming)
    BY DEF BuildEvidenceMetrics, CountOf
<1>10. ASSUME metric.confirmed = 0 PROVE confirmed = {}
    <2>1. IsFiniteSet(confirming)
        <3>1. confirming \subseteq DOMAIN findings
            BY DEF PlacesOf
        <3> HIDE DEF confirming, findings
        <3> QED
            BY <1>1, <3>1, FilteredRows
    <2>2. confirming = {}
        <3> HIDE DEF confirming, metric
        <3> QED
            BY <1>9, <1>10, <2>1, NoneFiltered
    <2>3. ASSUME NEW e \in confirmed PROVE FALSE
        <3>1. RowStatus(findings, e) = "confirmed"
            BY DEF FilterEvidence
        <3>2. First(e) \in DOMAIN findings /\ findings[First(e)].status = "confirmed"
            BY <1>3, <1>5, <3>1
        <3> QED
            BY <2>2, <3>2 DEF PlacesOf
    <2> QED
        BY <2>3
<1>11. /\ IsFiniteSet(DisjointUnion(part)) /\ SumOf(links) = Cardinality(DisjointUnion(part))
    <2>1. DOMAIN part = DOMAIN findings /\ DOMAIN links = DOMAIN findings
        OBVIOUS
    <2>2. ASSUME NEW i \in DOMAIN findings
          PROVE  IsFiniteSet(part[i]) /\ links[i] = Cardinality(part[i])
        <3>1. part[i] \in SUBSET Pieces
            BY <1>2 DEF CitedFindings
        <3>2. links[i] = Cardinality(part[i])
            BY DEF EvidenceLinks
        <3> HIDE DEF part
        <3> QED
            BY <3>1, <3>2, PiecesAssumption, FS_Subset
    <2> HIDE DEF part, links, findings
    <2> QED
        BY <1>2, <2>1, <2>2, SumOfSizes
<1>12. Cardinality(linked) <= SumOf(links)
    <2> DEFINE cited == [e \in linked |-> <<First(e), e>>]
    <2>1. ASSUME NEW e \in linked PROVE cited[e] \in DisjointUnion(part)
        <3>1. First(e) \in DOMAIN part /\ e \in part[First(e)]
            BY <1>3
        <3>2. <<First(e), e>> \in DisjointUnion(part)
            <4> HIDE DEF part
            <4> QED
                BY <3>1, InUnionOfParts
        <3> QED
            BY <3>2
    <2>2. ASSUME NEW e \in linked, NEW g \in linked, cited[e] = cited[g] PROVE e = g
        BY <2>2
    <2>3. cited \in [linked -> DisjointUnion(part)]
        BY <2>1
    <2> HIDE DEF cited, part, links, linked
    <2>4. cited \in Injection(linked, DisjointUnion(part))
        BY <2>2, <2>3 DEF Injection, IsInjective
    <2> QED
        BY <1>11, <2>4, FS_Injection
<1> HIDE DEF metric, links, linked, confirmed, candidate
<1>13. /\ Cardinality(candidate) + Cardinality(confirmed) = metric.linked
       /\ metric.linked <= SumOf(links)
    BY <1>8, <1>9, <1>12
<1> QED
    BY <1>6, <1>7, <1>10, <1>13 DEF LinkedRowsTell, metric, links, confirmed, candidate

(* Lists of one row after each other.                                        *)
LEMMA OneAfterOther ==
    ASSUME NEW x, NEW y
    PROVE  <<x>> \o <<y>> = <<x, y>> /\ <<x>> \o <<>> = <<x>> /\ <<>> \o <<y>> = <<y>>
           /\ <<>> \o <<>> = <<>>
<1> DEFINE S == {x, y}
<1>1. <<x>> \in Seq(S) /\ <<y>> \in Seq(S) /\ <<>> \in Seq(S)
    OBVIOUS
<1>2. /\ Len(<<x>>) = 1 /\ Len(<<y>>) = 1 /\ <<x>>[1] = x /\ <<y>>[1] = y
    OBVIOUS
<1> DEFINE xy == <<x>> \o <<y>>
<1>3. xy \in Seq(S) /\ Len(xy) = 2 /\ xy[1] = x /\ xy[2] = y
    BY <1>1, <1>2
<1>4. xy = <<x, y>>
    <2> HIDE DEF xy
    <2> QED
        BY <1>3
<1>5. <<x>> \o <<>> = <<x>> /\ <<>> \o <<y>> = <<y>> /\ <<>> \o <<>> = <<>>
    OBVIOUS
<1> QED
    BY <1>4, <1>5

(* An approval request tells one story.                                      *)
LEMMA ApprovalAgrees == DetailListed => ApprovalTells
<1> SUFFICES ASSUME DetailListed, detail.of = "approval" PROVE ApprovalTells
    BY DEF ApprovalTells, DetailOf
<1> DEFINE a == detail.row
           shown == MapApproval(a)
<1>1. a \in RequestRows
    BY DEF DetailListed
<1>2. \/ a.status \in {"approved", "denied"} /\ a.resolved
      \/ a.status = "pending" /\ ~a.resolved
    BY <1>1 DEF RequestRows, DecidedRows
<1>3. /\ shown.trail = ApprovalTrail(a) /\ shown.policy = PolicyDecision(ApprovalStatus(a.status))
      /\ shown.wording = IF ApprovalStatus(a.status) = "pending" THEN "Require approval"
                         ELSE ApprovalStatus(a.status)
      /\ shown.stamp = IF ApprovalStatus(a.status) = "pending" THEN "Requested" ELSE "Resolved"
    BY DEF MapApproval
<1> HIDE DEF shown
<1>4. CASE a.status \in {"approved", "denied"} /\ a.resolved
    <2>1. ApprovalStatus(a.status) = a.status
        BY <1>4 DEF ApprovalStatus
    <2>2. shown.trail = <<"requested", a.status>>
        BY <1>3, <1>4, <2>1, OneAfterOther DEF ApprovalTrail
    <2>3. Len(shown.trail) = 2 /\ Last(shown.trail) = a.status
        BY <2>2 DEF Last
    <2>4. DecisionLocked(a)
        BY <1>4, <2>1 DEF DecisionLocked
    <2>5. (shown.policy = "allow") = (a.status = "approved")
        BY <1>3, <1>4, <2>1 DEF PolicyDecision
    <2> QED
        BY <1>3, <1>4, <2>1, <2>3, <2>4, <2>5 DEF ApprovalTells, shown
<1>5. CASE a.status = "pending" /\ ~a.resolved
    <2>1. ApprovalStatus(a.status) = "pending"
        BY <1>5 DEF ApprovalStatus
    <2>2. shown.trail = <<"requested">>
        BY <1>3, <1>5, OneAfterOther DEF ApprovalTrail
    <2>3. (Len(shown.trail) = 2) = FALSE /\ (Last(shown.trail) = "approved") = FALSE
        BY <2>2 DEF Last
    <2>4. DecisionLocked(a) = FALSE
        BY <2>1 DEF DecisionLocked
    <2>5. (shown.policy = "allow") = FALSE /\ (shown.stamp = "Resolved") = FALSE
        BY <1>3, <2>1 DEF PolicyDecision
    <2>6. /\ DecisionLocked(a) = (Len(shown.trail) = 2)
          /\ DecisionLocked(a) = (shown.stamp = "Resolved")
          /\ DecisionLocked(a) => shown.wording = Last(shown.trail)
          /\ (shown.policy = "allow") = (Last(shown.trail) = "approved")
        BY <2>3, <2>4, <2>5, Zenon
    <2> QED
        BY <2>6 DEF ApprovalTells, shown
<1> QED
    BY <1>2, <1>4, <1>5

(* The audit trail of a tool call ends in its status.                        *)
LEMMA AuditAgrees == DetailListed => AuditTrailTells
<1> SUFFICES ASSUME DetailListed, detail.of = "call" PROVE AuditTrailTells
    BY DEF AuditTrailTells, DetailOf
<1> DEFINE c == detail.row
           shown == MapToolCall(c)
           trail == AuditTrail(c)
           lastWord == IF c.status = "running" THEN "started" ELSE c.status
<1>1. c \in CallRows
    BY DEF DetailListed
<1>2. /\ c.status \in ToolStatusOrder \cup {"awaiting_approval"}
      /\ c.started \in BOOLEAN /\ c.completed \in BOOLEAN
      /\ c.raw \in BOOLEAN /\ c.result \in BOOLEAN /\ c.error \in BOOLEAN
      /\ c.status \in {"queued", "awaiting_approval"} => ~c.started /\ ~c.completed
      /\ c.status = "running" => c.started /\ ~c.completed
      /\ c.status \in {"failed", "timed_out", "cancelled"} => c.completed
      /\ c.status = "denied" => ~c.started
      /\ c.status = "succeeded" => (c.started => c.completed)
    BY <1>1 DEF CallRows
<1>3. trail = IF c.started
              THEN IF c.completed THEN <<"started", c.status>> ELSE <<"started">>
              ELSE <<c.status>>
    <2> DEFINE start == IF c.started THEN <<"started">> ELSE <<>>
               end == IF c.completed THEN <<c.status>> ELSE <<>>
    <2>1. trail = IF start \o end = <<>> THEN <<c.status>> ELSE start \o end
        BY DEF AuditTrail
    <2>2. /\ c.started /\ c.completed => start \o end = <<"started", c.status>>
          /\ c.started /\ ~c.completed => start \o end = <<"started">>
          /\ ~c.started /\ c.completed => start \o end = <<c.status>>
          /\ ~c.started /\ ~c.completed => start \o end = <<>>
        BY OneAfterOther
    <2>3. \A x, y : <<x, y>> # <<>> /\ <<x>> # <<>>
        OBVIOUS
    <2> HIDE DEF trail, start, end
    <2> QED
        BY <1>2, <2>1, <2>2, <2>3
<1>4. Last(trail) = lastWord
    <2>1. CASE c.started /\ c.completed
        <3>1. trail = <<"started", c.status>> /\ c.status # "running"
            BY <1>2, <1>3, <2>1
        <3> HIDE DEF trail
        <3> QED
            BY <3>1 DEF Last
    <2>2. CASE c.started /\ ~c.completed
        <3>1. trail = <<"started">> /\ c.status = "running"
            BY <1>2, <1>3, <2>2 DEF ToolStatusOrder
        <3> HIDE DEF trail
        <3> QED
            BY <3>1 DEF Last
    <2>3. CASE ~c.started
        <3>1. trail = <<c.status>> /\ c.status # "running"
            BY <1>2, <1>3, <2>3
        <3> HIDE DEF trail
        <3> QED
            BY <3>1 DEF Last
    <2> QED
        BY <1>2, <2>1, <2>2, <2>3
<1>5. "started" \in Range(trail) => c.started
    <2>1. ASSUME ~c.started PROVE "started" \notin Range(trail)
        <3>1. trail = <<c.status>> /\ c.status # "started"
            BY <1>2, <1>3, <2>1 DEF ToolStatusOrder
        <3> HIDE DEF trail
        <3> QED
            BY <3>1 DEF Range
    <2> QED
        BY <1>2, <2>1
<1>6. /\ shown.trail = trail /\ shown.pill = NormalizeToolStatus(c.status)
      /\ shown.output = IF c.raw THEN "bytes" ELSE IF c.error THEN "Error" ELSE "--"
      /\ shown.created = (c.started \/ c.completed)
      /\ shown.stdout = ResultOutput(c) /\ shown.stderr = c.error
    BY DEF MapToolCall
<1>7. c.status # "awaiting_approval" => NormalizeToolStatus(c.status) = c.status
    BY <1>2 DEF NormalizeToolStatus
<1>8. ResultOutput(c) = "raw" => c.raw
    BY DEF ResultOutput
<1>9. c.raw /\ c.error => c.status \notin {"queued", "awaiting_approval", "running", "denied", "succeeded"}
    BY <1>1 DEF CallRows
<1> HIDE DEF shown, trail
<1>10. /\ Last(shown.trail) = lastWord
       /\ c.status # "awaiting_approval" => shown.pill = c.status
       /\ "started" \in Range(shown.trail) => shown.created
    BY <1>4, <1>5, <1>6, <1>7
<1>11. /\ shown.output = "Error" => shown.stderr /\ shown.stdout # "raw"
    BY <1>2, <1>6, <1>8
<1>12. shown.output = "--" => ~shown.stderr
    BY <1>2, <1>6
<1> QED
    BY <1>10, <1>11, <1>12 DEF AuditTrailTells, shown

(* The health in the header of a runtime is that of its checks.              *)
LEMMA ChecksHold == DetailListed => ChecksAgree
<1>1. ASSUME NEW i \in InstanceRows
      PROVE  /\ (HeaderHealth(i.row) = "healthy") = (HealthChecks(i).state = "ok")
             /\ (HeaderHealth(i.row) = "unhealthy") = (HealthChecks(i).state = "failed")
    BY DEF InstanceRows, RuntimeRows, HeaderHealth, RuntimeHealth, HealthChecks, RuntimeStateCheck,
           NormalizeRuntimeStatus
<1>2. HealthChecks([row |-> "stopped", workspace |-> FALSE, network |-> "none"]) = EmptyRuntimeInstance
    BY DEF HealthChecks, EmptyRuntimeInstance, RuntimeStateCheck, NormalizeRuntimeStatus
<1> QED
    BY <1>1, <1>2 DEF ChecksAgree, DetailListed, DetailOf

(* The list of file writes is empty only if nothing was written.             *)
LEMMA WritesAgree == DetailListed => WritesAreListed
<1> SUFFICES ASSUME DetailListed, detail.of = "writes" PROVE WritesAreListed
    BY DEF WritesAreListed, DetailOf
<1> DEFINE rows == detail.row
           events == PlacesOf(rows, LAMBDA w : w.by = "operator")
           calls == PlacesOf(rows, LAMBDA w : w.by = "tool" /\ w.status = "succeeded")
           few == FirstFew(6, calls)
           listed == MapRecentFileWrites(rows)
<1>1. rows \in Seq(Writes) /\ \A i \in DOMAIN rows : rows[i] \in Writes
    <2>1. rows \in Seq(Writes)
        BY DEF DetailListed
    <2> QED
        BY <2>1, WholeList
<1>2. ASSUME NEW w \in Writes
      PROVE  /\ w.by = "operator" \/ (w.by = "tool" /\ w.status = "succeeded") <=> w.status # "denied"
             /\ w.by = "operator" => w.status = "succeeded"
    BY DEF Writes
<1>3. listed = IF events # {} THEN events ELSE few
    BY DEF MapRecentFileWrites
<1>4. few \subseteq calls /\ (few = {}) = (calls = {})
    <2>1. calls \subseteq DOMAIN rows /\ 6 \in Nat
        BY DEF PlacesOf
    <2> HIDE DEF calls, rows
    <2>2. IsFiniteSet(calls) /\ calls \subseteq Nat /\ Cardinality(calls) \in Nat
        BY <1>1, <2>1, FilteredRows
    <2>3. /\ few \subseteq calls /\ IsFiniteSet(few)
          /\ Cardinality(few) = IF Cardinality(calls) <= 6 THEN Cardinality(calls) ELSE 6
        BY <2>1, <2>2, FirstFewAreFew
    <2> HIDE DEF few
    <2>4. (Cardinality(few) = 0) = (few = {}) /\ (Cardinality(calls) = 0) = (calls = {})
        BY <2>2, <2>3, NoneFiltered
    <2> QED
        BY <2>2, <2>3, <2>4
<1>5. \A i \in events \cup calls : i \in DOMAIN rows /\ rows[i].status = "succeeded"
    BY <1>1, <1>2 DEF PlacesOf
<1>6. (events \cup calls = {}) = (\A i \in DOMAIN rows : rows[i].status = "denied")
    BY <1>1, <1>2 DEF PlacesOf
<1>7. (\A w \in Range(rows) : w.status = "denied") = (\A i \in DOMAIN rows : rows[i].status = "denied")
    BY DEF Range
<1> HIDE DEF events, calls, few, listed
<1>8. (listed = {}) = (\A w \in Range(rows) : w.status = "denied")
    BY <1>3, <1>4, <1>6, <1>7
<1>9. \A i \in listed : rows[i].status = "succeeded"
    BY <1>3, <1>4, <1>5
<1> QED
    BY <1>8, <1>9 DEF WritesAreListed, listed

(* The cards of providers and policies agree with the tables.                *)
LEMMA CardsHold == DirectoryListed => CardsAgree
<1> SUFFICES ASSUME DirectoryListed, directory.of = "providers" PROVE CardsAgree
    BY DEF CardsAgree, DirectoryOf
<1> DEFINE providers == directory.rows[1]
           policies == directory.rows[2]
           card == ProviderHealthMetrics(providers, policies)
           with == PlacesOf(providers, LAMBDA p : p.credential)
           inactive == PlacesOf(providers, LAMBDA p : ~p.active)
           issues == PlacesOf(policies, HasIssue)
<1>1. providers \in Seq(ProviderRows) /\ policies \in Seq(PolicyRows)
    BY DEF DirectoryListed
<1>2. /\ with \subseteq DOMAIN providers /\ inactive \subseteq DOMAIN providers
      /\ issues \subseteq DOMAIN policies
    BY DEF PlacesOf
<1>3. /\ card.providers = Len(providers) /\ card.present = Cardinality(with)
      /\ card.missing = Len(providers) - Cardinality(with)
      /\ card.disabled = Cardinality(inactive) /\ card.policies = Len(policies)
      /\ card.valid = Len(policies) - Cardinality(issues) /\ card.issues = Cardinality(issues)
      /\ providers # <<>> => "provider" \in card.configured
      /\ policies # <<>> => "policy" \in card.configured
    BY DEF ProviderHealthMetrics, CountOf
<1>4. CredentialsPresent(providers) = with /\ IssueCount(policies) = Cardinality(issues)
    BY DEF CredentialsPresent, IssueCount, CountOf, PlacesOf
<1> HIDE DEF card, with, inactive, issues, providers, policies
<1>5. /\ Cardinality(with) \in Nat /\ Cardinality(inactive) \in Nat
      /\ Cardinality(inactive) <= Len(providers) /\ Cardinality(issues) \in Nat
    BY <1>1, <1>2, FilteredRows
<1>6. Len(providers) \in Nat /\ Len(policies) \in Nat
    BY <1>1
<1>7. /\ card.present + card.missing = card.providers /\ card.valid + card.issues = card.policies
      /\ card.disabled <= card.providers
    BY <1>3, <1>5, <1>6
<1>8. /\ providers # <<>> => ShownRows(providers) = providers
      /\ policies # <<>> => ShownRows(policies) = policies
      /\ providers # <<>> \/ policies # <<>> => HealthShown(providers, policies)
    BY DEF ShownRows, HealthShown
<1> QED
    BY <1>3, <1>4, <1>7, <1>8 DEF CardsAgree, card, providers, policies

(* A larger number of two is at least either.                                *)
LEMMA AtLeastOne ==
    ASSUME NEW n \in Nat
    PROVE  /\ Max({n, 1}) \in Nat /\ Max({n, 1}) > 0 /\ Max({n, 1}) >= n
           /\ n > 0 => Max({n, 1}) = n
    BY DEF Max

(* The rates of one tool.                                                    *)
LEMMA ToolAddsUp ==
    ASSUME NEW calls \in Seq(CountedCalls), NEW t \in DOMAIN ToolItems(calls)
    PROVE  LET item == ToolItems(calls)[t]
               made == {i \in DOMAIN calls : calls[i].tool = t}
           IN /\ item.count \in Nat /\ item.count > 0 /\ item.succeeded \in Nat /\ item.failed \in Nat
              /\ item.succeeded + item.failed <= item.count
              /\ (\A i \in made : calls[i].status \in EndedStatuses) =>
                     item.succeeded + item.failed = item.count
              /\ ~(\A i \in made : calls[i].status \in EndedStatuses) =>
                     item.succeeded + item.failed < item.count
<1> DEFINE item == ToolItems(calls)[t]
           made == {i \in DOMAIN calls : calls[i].tool = t}
           good == {i \in made : Succeeded(calls[i])}
           bad == {i \in made : Failed(calls[i])}
           ended == good \cup bad
           open == made \ ended
<1>1. item = [count     |-> CountOf(calls, LAMBDA c : c.tool = t),
              succeeded |-> CountOf(calls, LAMBDA c : c.tool = t /\ Succeeded(c)),
              failed    |-> CountOf(calls, LAMBDA c : c.tool = t /\ Failed(c))]
      /\ \E i \in DOMAIN calls : calls[i].tool = t
    BY DEF ToolItems
<1>2. /\ PlacesOf(calls, LAMBDA c : c.tool = t) = made
      /\ PlacesOf(calls, LAMBDA c : c.tool = t /\ Succeeded(c)) = good
      /\ PlacesOf(calls, LAMBDA c : c.tool = t /\ Failed(c)) = bad
    BY DEF PlacesOf
<1>3. /\ item.count = Cardinality(made) /\ item.succeeded = Cardinality(good)
      /\ item.failed = Cardinality(bad)
    <2>1. item = [count |-> Cardinality(made), succeeded |-> Cardinality(good),
                  failed |-> Cardinality(bad)]
        <3> HIDE DEF item, made, good, bad
        <3> QED
            BY <1>1, <1>2 DEF CountOf
    <2> HIDE DEF item
    <2> QED
        BY <2>1
<1>4. made \subseteq DOMAIN calls /\ made # {}
    BY <1>1
<1>5. SharedOut(made, ended, open) /\ SharedOut(ended, good, bad)
    <2>1. ended \subseteq made
        OBVIOUS
    <2>2. ASSUME NEW i \in good PROVE i \notin bad
        BY DEF Succeeded, Failed
    <2> HIDE DEF good, bad
    <2>3. good \cap bad = {}
        BY <2>2
    <2>4. SharedOut(ended, good, bad)
        BY <2>3 DEF SharedOut
    <2> HIDE DEF ended, made
    <2> QED
        BY <2>1, <2>4 DEF SharedOut
<1>6. (\A i \in made : calls[i].status \in EndedStatuses) <=> open = {}
    BY DEF EndedStatuses, Succeeded, Failed
<1> HIDE DEF item, made, good, bad, ended, open
<1>7. IsFiniteSet(made)
    BY <1>4, FilteredRows
<1>8. /\ IsFiniteSet(ended) /\ IsFiniteSet(open)
      /\ Cardinality(made) = Cardinality(ended) + Cardinality(open)
      /\ Cardinality(ended) = Cardinality(good) + Cardinality(bad)
      /\ Cardinality(made) \in Nat /\ Cardinality(ended) \in Nat /\ Cardinality(open) \in Nat
      /\ Cardinality(good) \in Nat /\ Cardinality(bad) \in Nat
    BY <1>5, <1>7, SharedAddUp, FS_CardinalityType
<1>9. (Cardinality(open) = 0) = (open = {}) /\ (Cardinality(made) = 0) = (made = {})
    BY <1>7, <1>8, NoneFiltered
<1>10. /\ item.count \in Nat /\ item.count > 0 /\ item.succeeded \in Nat /\ item.failed \in Nat
       /\ item.succeeded + item.failed <= item.count
       /\ open = {} => item.succeeded + item.failed = item.count
       /\ open # {} => item.succeeded + item.failed < item.count
    <2>1. Cardinality(made) # 0 /\ (open = {} => Cardinality(open) = 0)
          /\ (open # {} => Cardinality(open) # 0)
        BY <1>4, <1>9
    <2>2. /\ Cardinality(made) > 0
          /\ Cardinality(good) + Cardinality(bad) <= Cardinality(made)
          /\ open = {} => Cardinality(good) + Cardinality(bad) = Cardinality(made)
          /\ open # {} => Cardinality(good) + Cardinality(bad) < Cardinality(made)
        BY <1>8, <2>1
    <2> QED
        BY <1>3, <1>8, <2>2
<1> QED
    BY <1>6, <1>10 DEF item, made

(* The rates of the tools add up, and surround the overall rate.             *)
LEMMA ToolsAddUp ==
    ASSUME DirectoryListed, directory.of = "tools"
    PROVE  LET calls == directory.rows
               tool == MapToolMetrics(calls)
               Ended(t) == \A i \in DOMAIN calls : calls[i].tool = t => calls[i].status \in EndedStatuses
           IN /\ \A t \in DOMAIN tool :
                     /\ tool[t].success + tool[t].failure <= 1001
                     /\ Ended(t) => tool[t].success + tool[t].failure >= 1000
                     /\ ~Ended(t) /\ ToolItems(calls)[t].count < 1000 =>
                            tool[t].success + tool[t].failure < 1000
              /\ calls # <<>> =>
                     /\ \E t \in DOMAIN tool : tool[t].success <= SuccessRate(calls)
                     /\ \E t \in DOMAIN tool : tool[t].success + 1 >= SuccessRate(calls)
<1> DEFINE calls == directory.rows
           tool == MapToolMetrics(calls)
           items == ToolItems(calls)
           Ended(t) == \A i \in DOMAIN calls : calls[i].tool = t => calls[i].status \in EndedStatuses
           whole == DOMAIN calls
           good == PlacesOf(calls, Succeeded)
           key == [i \in whole |-> calls[i].tool]
           keys == DOMAIN items
           all == [t \in keys |-> items[t].count]
           some == [t \in keys |-> items[t].succeeded]
<1>1. calls \in Seq(CountedCalls)
    BY DEF DirectoryListed
<1>2. DOMAIN tool = DOMAIN items
      /\ \A t \in DOMAIN items : /\ tool[t].success = Rate(items[t].succeeded, items[t].count)
                                 /\ tool[t].failure = Rate(items[t].failed, items[t].count)
    BY DEF MapToolMetrics
<1>3. ASSUME NEW t \in DOMAIN items
      PROVE  /\ items[t].count \in Nat /\ items[t].count > 0
             /\ items[t].succeeded \in Nat /\ items[t].failed \in Nat
             /\ items[t].succeeded + items[t].failed <= items[t].count
             /\ Ended(t) => items[t].succeeded + items[t].failed = items[t].count
             /\ ~Ended(t) => items[t].succeeded + items[t].failed < items[t].count
    <2> HIDE DEF calls
    <2> QED
        BY <1>1, ToolAddsUp
<1>4. ASSUME NEW t \in DOMAIN tool
      PROVE  /\ tool[t].success + tool[t].failure <= 1001
             /\ Ended(t) => tool[t].success + tool[t].failure >= 1000
             /\ ~Ended(t) /\ items[t].count < 1000 => tool[t].success + tool[t].failure < 1000
    <2> HIDE DEF tool, items, Ended
    <2> QED
        BY <1>2, <1>3, RatesFill
<1>5. keys = Range(key)
      /\ \A t \in keys : /\ items[t].count = Cardinality(Under(t, key, whole))
                         /\ items[t].succeeded = Cardinality(Under(t, key, good))
    <2>1. items = [t \in {calls[i].tool : i \in DOMAIN calls} |->
                      [count     |-> CountOf(calls, LAMBDA c : c.tool = t),
                       succeeded |-> CountOf(calls, LAMBDA c : c.tool = t /\ Succeeded(c)),
                       failed    |-> CountOf(calls, LAMBDA c : c.tool = t /\ Failed(c))]]
        BY DEF ToolItems
    <2>2. keys = Range(key)
        BY <2>1 DEF Range
    <2>3. ASSUME NEW t \in keys
          PROVE  /\ PlacesOf(calls, LAMBDA c : c.tool = t) = Under(t, key, whole)
                 /\ PlacesOf(calls, LAMBDA c : c.tool = t /\ Succeeded(c)) = Under(t, key, good)
        BY DEF PlacesOf, Under
    <2>4. ASSUME NEW t \in keys
          PROVE  /\ items[t].count = CountOf(calls, LAMBDA c : c.tool = t)
                 /\ items[t].succeeded = CountOf(calls, LAMBDA c : c.tool = t /\ Succeeded(c))
        BY <2>1
    <2> QED
        BY <2>2, <2>3, <2>4 DEF CountOf
<1>6. /\ IsFiniteSet(whole) /\ Cardinality(whole) = Len(calls) /\ Len(calls) \in Nat
      /\ good \subseteq whole /\ Cardinality(good) \in Nat
    <2>1. good \subseteq DOMAIN calls
        BY DEF PlacesOf
    <2> HIDE DEF good, calls
    <2> QED
        BY <1>1, <2>1, WholeList, FilteredRows
<1>7. IsFiniteSet(keys) /\ key \in [whole -> keys]
    <2>1. IsFiniteSet(DOMAIN key)
        BY <1>6
    <2>2. key \in [whole -> Range(key)]
        BY DEF Range
    <2> HIDE DEF key, keys
    <2> QED
        BY <1>5, <2>1, <2>2, FiniteKeys
<1>8. SuccessRate(calls) = OverallRate(Cardinality(good), Len(calls))
    BY DEF SuccessRate, CountOf
<1> DEFINE c == Cardinality(good)
           n == Len(calls)
           overall == SuccessRate(calls)
<1>9. ASSUME calls # <<>>
      PROVE  /\ \E t \in DOMAIN tool : tool[t].success <= overall
             /\ \E t \in DOMAIN tool : tool[t].success + 1 >= overall
    <2>1. whole # {} /\ n > 0
        <3> HIDE DEF calls
        <3> QED
            BY <1>1, <1>9
    <2>2. overall \in Nat /\ Rate(c, n) <= overall /\ overall <= Rate(c, n) + 1
        <3> HIDE DEF good, calls
        <3> QED
            BY <1>6, <1>8, <2>1, RoundedTwice
    <2>3. /\ all \in [keys -> Nat] /\ some \in [keys -> Nat]
          /\ \A t \in keys : all[t] = Cardinality(Under(t, key, whole))
          /\ \A t \in keys : some[t] = Cardinality(Under(t, key, good))
        <3> HIDE DEF items, key
        <3> QED
            BY <1>3, <1>5
    <2>4. /\ \E t \in keys : some[t] * Cardinality(whole) <= Cardinality(good) * all[t]
          /\ \E t \in keys : some[t] * Cardinality(whole) >= Cardinality(good) * all[t]
        <3>1. /\ IsFiniteSet(whole) /\ whole # {} /\ good \subseteq whole /\ IsFiniteSet(keys)
              /\ key \in [whole -> keys]
            BY <1>6, <1>7, <2>1
        <3> HIDE DEF whole, good, key, keys, all, some, items, calls
        <3> QED
            BY <2>3, <3>1, SharesSurround
    <2>5. PICK p \in keys : some[p] * n <= c * all[p]
        <3> HIDE DEF all, some, keys, good, whole
        <3> QED
            BY <1>6, <2>4
    <2>6. PICK q \in keys : some[q] * n >= c * all[q]
        <3> HIDE DEF all, some, keys, good, whole
        <3> QED
            BY <1>6, <2>3, <2>4
    <2>7. /\ some[p] \in Nat /\ all[p] \in Nat /\ all[p] > 0 /\ tool[p].success = Rate(some[p], all[p])
          /\ some[q] \in Nat /\ all[q] \in Nat /\ all[q] > 0 /\ tool[q].success = Rate(some[q], all[q])
        <3> HIDE DEF items, tool
        <3> QED
            BY <1>2, <1>3
    <2> HIDE DEF items, tool, all, some, c, n, overall
    <2>8. c \in Nat /\ n \in Nat /\ Rate(c, n) \in Nat
        <3>1. c \in Nat /\ n \in Nat
            BY <1>6 DEF c, n
        <3> QED
            BY <2>1, <3>1, RateIsNumber
    <2>9. tool[p].success <= Rate(c, n) /\ tool[p].success \in Nat
        <3>1. Rate(some[p], all[p]) <= Rate(c, n)
            BY <2>1, <2>5, <2>7, <2>8, SmallerRate
        <3>2. Rate(some[p], all[p]) \in Nat
            BY <2>7, RateIsNumber
        <3> QED
            BY <2>7, <3>1, <3>2
    <2>10. Rate(c, n) <= tool[q].success /\ tool[q].success \in Nat
        <3>1. c * all[q] <= some[q] * n
            <4>1. c * all[q] \in Nat /\ some[q] * n \in Nat
                BY <2>7, <2>8
            <4> QED
                BY <2>6, <4>1
        <3>2. Rate(c, n) <= Rate(some[q], all[q])
            BY <2>1, <2>7, <2>8, <3>1, SmallerRate
        <3>3. Rate(some[q], all[q]) \in Nat
            BY <2>7, RateIsNumber
        <3> QED
            BY <2>7, <3>2, <3>3
    <2>11. tool[p].success <= overall /\ tool[q].success + 1 >= overall
        BY <2>2, <2>8, <2>9, <2>10
    <2> QED
        BY <1>2, <2>11
<1> HIDE DEF tool, items, overall
<1> QED
    BY <1>4, <1>9 DEF tool, items, overall

(* The slices of sessions add up to the sessions.                            *)
LEMMA SlicesAddUp ==
    ASSUME DirectoryListed, directory.of = "sessions"
    PROVE  TotalSessions(MapStatusSlices(directory.rows)) = Len(directory.rows)
<1> DEFINE rows == directory.rows
           slices == MapStatusSlices(rows)
           key == [i \in DOMAIN rows |-> rows[i]]
<1>1. rows \in Seq(SessionStatuses)
    BY DEF DirectoryListed
<1>2. slices = [k \in {rows[i] : i \in DOMAIN rows} |-> CountOf(rows, LAMBDA r : r = k)]
    BY DEF MapStatusSlices, GroupedCounts
<1>3. DOMAIN slices = Range(key)
    BY <1>2 DEF Range
<1>4. \A k \in Range(key) : slices[k] = Cardinality(Under(k, key, DOMAIN rows))
    <2>1. ASSUME NEW k PROVE PlacesOf(rows, LAMBDA r : r = k) = Under(k, key, DOMAIN rows)
        BY DEF PlacesOf, Under
    <2> QED
        BY <1>2, <1>3, <2>1 DEF CountOf
<1>5. key \in [DOMAIN rows -> Range(key)] /\ IsFiniteSet(DOMAIN key)
    <2>1. key \in [DOMAIN rows -> Range(key)] /\ DOMAIN key = DOMAIN rows
        BY DEF Range
    <2> HIDE DEF key, rows
    <2> QED
        BY <1>1, <2>1, WholeList
<1> HIDE DEF key, rows, slices
<1>6. SumOf(slices) = Len(rows)
    BY <1>1, <1>3, <1>4, <1>5, FiniteKeys, ListAddsUp
<1> QED
    BY <1>6 DEF TotalSessions, slices, rows

(* The shares of the severities count every finding, and lose none.          *)
LEMMA SharesAddUp ==
    ASSUME DirectoryListed, directory.of = "severities"
    PROVE  LET share == MapSeverityMetrics(directory.rows)
           IN /\ SumOf([s \in DOMAIN share |-> share[s].count]) = Len(directory.rows)
              /\ \A s \in DOMAIN share :
                     share[s].percent \in 0..100 /\ (share[s].percent = 0 => Len(directory.rows) > 200)
<1> DEFINE rows == directory.rows
           share == MapSeverityMetrics(rows)
           counts == GroupedCounts(rows, LAMBDA f : f)
           numbers == [s \in DOMAIN share |-> share[s].count]
           key == [i \in DOMAIN rows |-> rows[i]]
           total == Max({Len(rows), 1})
<1>1. rows \in Seq({"critical", "high", "info"})
    BY DEF DirectoryListed
<1>2. counts = [k \in {rows[i] : i \in DOMAIN rows} |-> CountOf(rows, LAMBDA r : r = k)]
    BY DEF GroupedCounts
<1>3. /\ DOMAIN share = DOMAIN counts
      /\ \A s \in DOMAIN counts : /\ share[s].count = counts[s]
                                  /\ share[s].percent = Rounded(100 * counts[s], total)
    BY DEF MapSeverityMetrics
<1>4. DOMAIN counts = Range(key)
    BY <1>2 DEF Range
<1>5. \A k \in Range(key) : counts[k] = Cardinality(Under(k, key, DOMAIN rows))
    <2>1. ASSUME NEW k PROVE PlacesOf(rows, LAMBDA r : r = k) = Under(k, key, DOMAIN rows)
        BY DEF PlacesOf, Under
    <2> QED
        BY <1>2, <1>4, <2>1 DEF CountOf
<1>6. key \in [DOMAIN rows -> Range(key)] /\ IsFiniteSet(DOMAIN key) /\ DOMAIN key = DOMAIN rows
    <2>1. key \in [DOMAIN rows -> Range(key)] /\ DOMAIN key = DOMAIN rows
        BY DEF Range
    <2> HIDE DEF key, rows
    <2> QED
        BY <1>1, <2>1, WholeList
<1>7. ASSUME NEW k \in Range(key)
      PROVE  /\ Under(k, key, DOMAIN rows) \subseteq DOMAIN rows
             /\ Under(k, key, DOMAIN rows) # {}
    BY DEF Under, Range
<1>8. DOMAIN numbers = Range(key) /\ \A k \in Range(key) : numbers[k] = counts[k]
    <2> HIDE DEF share, counts, key
    <2> QED
        BY <1>3, <1>4
<1> HIDE DEF key, rows, share, counts, numbers
<1>9. SumOf(numbers) = Len(rows)
    BY <1>1, <1>5, <1>6, <1>8, FiniteKeys, ListAddsUp
<1>10. ASSUME NEW k \in Range(key)
       PROVE  share[k].percent \in 0..100 /\ (share[k].percent = 0 => Len(rows) > 200)
    <2>1. /\ counts[k] \in Nat /\ counts[k] <= Len(rows) /\ counts[k] # 0
        <3> DEFINE own == Under(k, key, DOMAIN rows)
        <3>1. own \subseteq DOMAIN rows /\ own # {} /\ counts[k] = Cardinality(own)
            BY <1>5, <1>7
        <3> HIDE DEF own
        <3>2. IsFiniteSet(own) /\ Cardinality(own) \in Nat /\ Cardinality(own) <= Len(rows)
            BY <1>1, <3>1, FilteredRows
        <3> QED
            BY <3>1, <3>2, NoneFiltered
    <2>2. Len(rows) \in Nat /\ Len(rows) > 0
        <3>1. Len(rows) \in Nat
            BY <1>1
        <3> QED
            BY <2>1, <3>1
    <2>3. total = Len(rows)
        BY <2>2, AtLeastOne
    <2>4. share[k].percent = Rounded(100 * counts[k], Len(rows))
        BY <1>3, <1>4, <2>3
    <2>5. /\ Rounded(100 * counts[k], Len(rows)) \in 0..100
          /\ Rounded(100 * counts[k], Len(rows)) = 0 => 200 * counts[k] < Len(rows)
        BY <2>1, <2>2, PercentOfPart
    <2>6. 200 * counts[k] < Len(rows) => Len(rows) > 200
        BY <2>1, <2>2
    <2> QED
        BY <2>4, <2>5, <2>6
<1> QED
    BY <1>3, <1>4, <1>9, <1>10 DEF numbers, share, rows

(* What the analytics page derives adds up.                                  *)
LEMMA AnalyticsAgree == DirectoryListed => AnalyticsAddUp
<1>1. ASSUME NEW rows, NEW arrived, "overview" \in arrived
      PROVE  SessionsCompleted(rows, arrived) = KeyCount(MapStatusSlices(rows), "completed")
    BY <1>1 DEF SessionsCompleted, MapStatusSlices
<1> QED
    BY <1>1, ToolsAddUp, SlicesAddUp, SharesAddUp DEF AnalyticsAddUp, DirectoryOf

=============================================================================
