----------------------------- MODULE QueryCache -----------------------------
(* The query cache under every page: TanStack Query as App.tsx configures it *)
(* and as the hooks use it. A query fetches its resource when it mounts,     *)
(* some queries poll, and a mutation that is acknowledged invalidates the    *)
(* keys its hook names. What a resource holds is abstracted to the number of *)
(* times it was written.                                                     *)
EXTENDS Naturals, FiniteSets

CONSTANTS
    Keys,              \* queries of the mounted page
    Resources,         \* what they read from the API
    ResourceOf,
    Polled,            \* keys with a refetchInterval
    Mutations,
    Writes,            \* the resource that a mutation writes
    Invalidates,       \* the keys that its onSuccess invalidates
    MaxVersion         \* bound on the writes to a resource

ASSUME CacheAssumption ==
    /\ ResourceOf \in [Keys -> Resources]
    /\ Polled \subseteq Keys
    /\ Writes \in [Mutations -> Resources]
    /\ Invalidates \in [Mutations -> SUBSET Keys]
    /\ MaxVersion \in Nat \ {0}

VARIABLES
    server,            \* version of each resource in the database
    data,              \* version in the cache, Absent before the first answer
    fetch,             \* requests in flight
    failed,            \* the last fetch ended in an error
    mutation,          \* the request of each mutation
    saved              \* the version that an acknowledged mutation wrote

cacheVars == <<server, data, fetch, failed, mutation, saved>>

Absent == 0
Retries == 1           \* retry: 1 of the QueryClient
Asked(try) == [try |-> try, at |-> Absent]
Idle == [phase |-> "idle", at |-> Absent]

CacheInit ==
    /\ server = [r \in Resources |-> 1]
    /\ data = [k \in Keys |-> Absent]
    /\ fetch = [k \in Keys |-> {Asked(0)}]
    /\ failed = [k \in Keys |-> FALSE]
    /\ mutation = [m \in Mutations |-> Idle]
    /\ saved = [k \in Keys |-> Absent]

-----------------------------------------------------------------------------

(* Agents, workers and other operators write behind the page's back.         *)
ServerWrites(r) ==
    /\ server[r] < MaxVersion
    /\ server' = [server EXCEPT ![r] = @ + 1]
    /\ UNCHANGED <<data, fetch, failed, mutation, saved>>

(* A mutant: a query that stops polling once a fetch has failed.             *)
PollDueIfHealthy(k) == k \in Polled /\ fetch[k] = {} /\ ~failed[k]

(* The interval starts a fetch unless one is in flight.                      *)
PollDue(k) == k \in Polled /\ fetch[k] = {}

Poll(k) ==
    /\ PollDue(k)
    /\ fetch' = [fetch EXCEPT ![k] = {Asked(0)}]
    /\ UNCHANGED <<server, data, failed, mutation, saved>>

(* The API reads the rows.                                                   *)
Read(k) ==
    \E f \in fetch[k] :
        /\ f.at = Absent
        /\ fetch' = [fetch EXCEPT ![k] =
               (@ \ {f}) \cup {[f EXCEPT !.at = server[ResourceOf[k]]]}]
        /\ UNCHANGED <<server, data, failed, mutation, saved>>

Arrive(k) ==
    \E f \in fetch[k] :
        /\ f.at # Absent
        /\ data' = [data EXCEPT ![k] = f.at]
        /\ fetch' = [fetch EXCEPT ![k] = @ \ {f}]
        /\ failed' = [failed EXCEPT ![k] = FALSE]
        /\ UNCHANGED <<server, mutation, saved>>

(* A mutant: one retry too many.                                             *)
RetriedMore(f) == IF f.try <= Retries THEN {Asked(f.try + 1)} ELSE {}

Retried(f) == IF f.try < Retries THEN {Asked(f.try + 1)} ELSE {}

(* A request or its answer is lost or refused: one retry, then the query     *)
(* keeps the data it has and reports an error.                               *)
Fail(k) ==
    \E f \in fetch[k] :
        /\ fetch' = [fetch EXCEPT ![k] = (@ \ {f}) \cup Retried(f)]
        /\ failed' = [failed EXCEPT ![k] = Retried(f) = {}]
        /\ UNCHANGED <<server, data, mutation, saved>>

Mutate(m) ==
    /\ mutation[m] = Idle
    /\ mutation' = [mutation EXCEPT ![m] = [phase |-> "sent", at |-> Absent]]
    /\ UNCHANGED <<server, data, fetch, failed, saved>>

Commit(m) ==
    /\ mutation[m].phase = "sent"
    /\ server[Writes[m]] < MaxVersion
    /\ server' = [server EXCEPT ![Writes[m]] = @ + 1]
    /\ mutation' = [mutation EXCEPT ![m] =
           [phase |-> "committed", at |-> server[Writes[m]] + 1]]
    /\ UNCHANGED <<data, fetch, failed, saved>>

(* Mutants: an invalidation that leaves the older fetch in flight, and one   *)
(* that is content with it.                                                  *)
RefetchedBeside(m) ==
    [k \in Keys |-> IF k \in Invalidates[m] THEN fetch[k] \cup {Asked(0)} ELSE fetch[k]]

RefetchedIfIdle(m) ==
    [k \in Keys |-> IF k \in Invalidates[m] /\ fetch[k] = {} THEN {Asked(0)} ELSE fetch[k]]

(* Invalidating a key cancels its fetch and starts another; only the first   *)
(* fetch of a key, which has no data yet, is left to end.                    *)
Refetched(m) ==
    [k \in Keys |->
        IF k \in Invalidates[m] /\ (data[k] # Absent \/ fetch[k] = {})
        THEN {Asked(0)} ELSE fetch[k]]

(* The views of what was written that the operator expects to see it in.     *)
ShownBy(m) == {k \in Invalidates[m] : ResourceOf[k] = Writes[m] /\ data[k] # Absent}

Acknowledge(m) ==
    /\ mutation[m].phase = "committed"
    /\ mutation' = [mutation EXCEPT ![m] = Idle]
    /\ fetch' = Refetched(m)
    /\ saved' = [k \in Keys |-> IF k \in ShownBy(m) THEN mutation[m].at ELSE saved[k]]
    /\ UNCHANGED <<server, data, failed>>

(* The request is refused or lost, or its answer is: no retry, and nothing   *)
(* is invalidated although the write may have happened.                      *)
MutationFails(m) ==
    /\ mutation[m] # Idle
    /\ mutation' = [mutation EXCEPT ![m] = Idle]
    /\ UNCHANGED <<server, data, fetch, failed, saved>>

CacheNext ==
    \/ \E r \in Resources : ServerWrites(r)
    \/ \E k \in Keys : Poll(k) \/ Read(k) \/ Arrive(k) \/ Fail(k)
    \/ \E m \in Mutations : Mutate(m) \/ Commit(m) \/ Acknowledge(m) \/ MutationFails(m)

CacheSpec == CacheInit /\ [][CacheNext]_cacheVars

(* The page is in the foreground, so its intervals run, and the API does not *)
(* fail for ever. Nothing is assumed of users, agents or mutations.          *)
CacheFairness == \A k \in Polled : WF_cacheVars(Poll(k)) /\ SF_cacheVars(Read(k))
                                     /\ SF_cacheVars(Arrive(k))

FairCacheSpec == CacheSpec /\ CacheFairness

-----------------------------------------------------------------------------

CacheTypeOK ==
    LET Version == 0 .. MaxVersion IN
    /\ server \in [Resources -> 1 .. MaxVersion]
    /\ data \in [Keys -> Version]
    /\ fetch \in [Keys -> SUBSET [try : 0 .. Retries, at : Version]]
    /\ failed \in [Keys -> BOOLEAN]
    /\ mutation \in [Mutations -> [phase : {"idle", "sent", "committed"}, at : Version]]
    /\ saved \in [Keys -> Version]

View == INSTANCE ServerView
            WITH Views <- Keys, Source <- ResourceOf, KeptCurrent <- Polled,
                 current <- server, shown <- data

(* The cache implements ServerView: answers that were overtaken by a later   *)
(* fetch, retries and invalidations never take a view back to older data.    *)
ShowsServer == View!ViewSpec

(* Polled keys catch up with the server, whatever fails in between.          *)
PolledCatchUp == View!CatchesUp(1 .. MaxVersion)

(* An operator whose change was acknowledged sees it, or an error, as soon   *)
(* as the list is idle: a poll that read the rows before the change does not *)
(* pass for the refetch.                                                     *)
SavedIsShown ==
    \A k \in Keys : fetch[k] = {} /\ ~failed[k] => data[k] >= saved[k]
=============================================================================
