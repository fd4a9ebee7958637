-------------------------- MODULE QueryCache_proofs --------------------------
(* Proofs about the query cache, for any keys, polls, resources, mutations   *)
(* and invalidations: an acknowledged change is shown, and the cache         *)
(* implements ServerView.                                                    *)
EXTENDS QueryCache, TLAPS

Request == [try : 0 .. Retries, at : 0 .. MaxVersion]

(* A key has one request at a time.                                          *)
OneRequest == \A k \in Keys : \A f, g \in fetch[k] : f = g

(* The cache is behind the server, and an answer is between the two; it was  *)
(* read after the last change that the key was refetched for.                *)
AnswersInOrder ==
    \A k \in Keys :
        /\ data[k] <= server[ResourceOf[k]] /\ saved[k] <= server[ResourceOf[k]]
        /\ \A f \in fetch[k] : f.at # Absent =>
               data[k] <= f.at /\ saved[k] <= f.at /\ f.at <= server[ResourceOf[k]]

CommittedIsStored ==
    \A m \in Mutations :
        mutation[m].phase = "committed" => mutation[m].at <= server[Writes[m]]

CacheInv == CacheTypeOK /\ OneRequest /\ AnswersInOrder /\ CommittedIsStored /\ SavedIsShown

LEMMA AskedIsRequest ==
    ASSUME NEW try \in 0 .. Retries
    PROVE  Asked(try) \in Request /\ Asked(try).at = Absent
    BY CacheAssumption DEF Asked, Request, Retries, Absent

LEMMA RetriedIsRequest ==
    ASSUME NEW f \in Request
    PROVE  /\ Retried(f) \subseteq Request
           /\ \A g, h \in Retried(f) : g = h /\ g.at = Absent
<1>1. f.try + 1 \in 0 .. Retries \/ ~ f.try < Retries
    BY DEF Request, Retries
<1> QED
    BY <1>1, AskedIsRequest DEF Retried

LEMMA CacheInvInit == CacheInit => CacheInv
<1> SUFFICES ASSUME CacheInit PROVE CacheInv
    OBVIOUS
<1>1. Asked(0) \in Request /\ Asked(0).at = Absent
    BY AskedIsRequest DEF Retries
<1>2. Idle \in [phase : {"idle", "sent", "committed"}, at : 0 .. MaxVersion]
    BY CacheAssumption DEF Idle, Absent
<1>3. CacheTypeOK
    BY <1>1, <1>2, CacheAssumption DEF CacheInit, CacheTypeOK, Absent, Request
<1>4. OneRequest /\ AnswersInOrder /\ SavedIsShown
    BY <1>1, CacheAssumption DEF CacheInit, OneRequest, AnswersInOrder, SavedIsShown, Absent
<1>5. CommittedIsStored
    BY DEF CacheInit, CommittedIsStored, Idle
<1> QED
    BY <1>3, <1>4, <1>5 DEF CacheInv

(* The versions that the rest of the invariant compares are numbers.         *)
LEMMA VersionsAreNumbers ==
    ASSUME CacheTypeOK
    PROVE  /\ \A k \in Keys : /\ ResourceOf[k] \in Resources /\ server[ResourceOf[k]] \in Nat
                              /\ data[k] \in Nat /\ saved[k] \in Nat
                              /\ fetch[k] \subseteq Request
           /\ \A m \in Mutations : /\ Writes[m] \in Resources /\ server[Writes[m]] \in Nat
                                   /\ mutation[m].at \in Nat
           /\ \A f \in Request : f.at \in Nat
    BY CacheAssumption DEF CacheTypeOK, Request

-----------------------------------------------------------------------------

(* A write moves the server forward and nothing else that is compared.       *)
LEMMA ServerGrows ==
    ASSUME CacheInv, NEW r \in Resources, server[r] < MaxVersion,
           server' = [server EXCEPT ![r] = @ + 1]
    PROVE  /\ server' \in [Resources -> 1 .. MaxVersion]
           /\ \A s \in Resources : server[s] \in Nat /\ server'[s] \in Nat /\ server[s] <= server'[s]
           /\ server'[r] = server[r] + 1
    BY CacheAssumption DEF CacheInv, CacheTypeOK

LEMMA ServerWritesStep ==
    ASSUME CacheInv, NEW r \in Resources, ServerWrites(r) PROVE CacheInv'
<1>1. /\ server' \in [Resources -> 1 .. MaxVersion]
      /\ \A s \in Resources : server[s] \in Nat /\ server'[s] \in Nat /\ server[s] <= server'[s]
    BY ServerGrows DEF ServerWrites
<1>2. CacheTypeOK' /\ OneRequest' /\ SavedIsShown'
    BY <1>1 DEF ServerWrites, CacheInv, CacheTypeOK, OneRequest, SavedIsShown
<1>3. AnswersInOrder'
    BY <1>1, VersionsAreNumbers DEF ServerWrites, CacheInv, AnswersInOrder
<1>4. CommittedIsStored'
    BY <1>1, VersionsAreNumbers DEF ServerWrites, CacheInv, CommittedIsStored
<1> QED
    BY <1>2, <1>3, <1>4 DEF CacheInv

LEMMA PollStep ==
    ASSUME CacheInv, NEW k \in Keys, Poll(k) PROVE CacheInv'
<1>1. Asked(0) \in Request /\ Asked(0).at = Absent
    BY AskedIsRequest DEF Retries
<1>2. CacheTypeOK'
    BY <1>1 DEF Poll, CacheInv, CacheTypeOK, Request
<1>3. OneRequest' /\ AnswersInOrder' /\ SavedIsShown' /\ CommittedIsStored'
    BY <1>1 DEF Poll, CacheInv, CacheTypeOK, OneRequest, AnswersInOrder, SavedIsShown, CommittedIsStored
<1> QED
    BY <1>2, <1>3 DEF CacheInv

LEMMA ReadStep ==
    ASSUME CacheInv, NEW k \in Keys, Read(k) PROVE CacheInv'
<1>0. /\ CacheTypeOK /\ server[ResourceOf[k]] \in 1 .. MaxVersion
      /\ fetch[k] \subseteq Request
    BY CacheAssumption DEF CacheInv, CacheTypeOK, Request
<1>1. PICK f \in fetch[k] :
          /\ f.at = Absent
          /\ fetch' = [fetch EXCEPT ![k] =
                 (fetch[k] \ {f}) \cup {[f EXCEPT !.at = server[ResourceOf[k]]]}]
          /\ UNCHANGED <<server, data, failed, mutation, saved>>
    BY <1>0 DEF Read, CacheTypeOK
<1> DEFINE answer == [f EXCEPT !.at = server[ResourceOf[k]]]
<1>2. answer \in Request /\ answer.at = server[ResourceOf[k]]
    BY <1>0, <1>1 DEF Request
<1>3. fetch[k] = {f}
    BY <1>1 DEF CacheInv, OneRequest
<1>4. fetch' = [fetch EXCEPT ![k] = {answer}]
    BY <1>1, <1>3
<1> HIDE DEF answer
<1>5. CacheTypeOK'
    BY <1>0, <1>1, <1>2, <1>4 DEF CacheTypeOK, Request
<1>6. OneRequest' /\ SavedIsShown' /\ CommittedIsStored'
    BY <1>0, <1>1, <1>4 DEF CacheInv, CacheTypeOK, OneRequest, SavedIsShown, CommittedIsStored
<1>7. AnswersInOrder'
    BY <1>0, <1>1, <1>2, <1>4, VersionsAreNumbers DEF CacheInv, CacheTypeOK, AnswersInOrder
<1> QED
    BY <1>5, <1>6, <1>7 DEF CacheInv

LEMMA ArriveStep ==
    ASSUME CacheInv, NEW k \in Keys, Arrive(k)
    PROVE  /\ CacheInv'
           /\ UNCHANGED server
           /\ \E v \in 1 .. server[ResourceOf[k]] :
                  data[k] <= v /\ data' = [data EXCEPT ![k] = v]
<1>0. CacheTypeOK /\ server[ResourceOf[k]] \in 1 .. MaxVersion /\ fetch[k] \subseteq Request
    BY CacheAssumption DEF CacheInv, CacheTypeOK, Request
<1>1. PICK f \in fetch[k] :
          /\ f.at # Absent
          /\ data' = [data EXCEPT ![k] = f.at]
          /\ fetch' = [fetch EXCEPT ![k] = fetch[k] \ {f}]
          /\ failed' = [failed EXCEPT ![k] = FALSE]
          /\ UNCHANGED <<server, mutation, saved>>
    BY <1>0 DEF Arrive, CacheTypeOK
<1>2. /\ data[k] <= f.at /\ saved[k] <= f.at /\ f.at <= server[ResourceOf[k]]
      /\ f.at \in 1 .. MaxVersion /\ f.at \in 1 .. server[ResourceOf[k]]
    BY <1>0, <1>1, CacheAssumption DEF CacheInv, AnswersInOrder, Request, Absent
<1>3. fetch' = [fetch EXCEPT ![k] = {}]
    BY <1>1 DEF CacheInv, OneRequest
<1>4. CacheTypeOK'
    BY <1>0, <1>1, <1>2, <1>3, CacheAssumption DEF CacheTypeOK
<1>5. OneRequest' /\ CommittedIsStored'
    BY <1>0, <1>1, <1>3 DEF CacheInv, CacheTypeOK, OneRequest, CommittedIsStored
<1>6. AnswersInOrder' /\ SavedIsShown'
    BY <1>0, <1>1, <1>2, <1>3 DEF CacheInv, CacheTypeOK, AnswersInOrder, SavedIsShown
<1> QED
    BY <1>1, <1>2, <1>4, <1>5, <1>6 DEF CacheInv

LEMMA FailStep ==
    ASSUME CacheInv, NEW k \in Keys, Fail(k) PROVE CacheInv'
<1>0. CacheTypeOK /\ fetch[k] \subseteq Request
    BY DEF CacheInv, CacheTypeOK, Request
<1>1. PICK f \in fetch[k] :
          /\ fetch' = [fetch EXCEPT ![k] = (fetch[k] \ {f}) \cup Retried(f)]
          /\ failed' = [failed EXCEPT ![k] = Retried(f) = {}]
          /\ UNCHANGED <<server, data, mutation, saved>>
    BY <1>0 DEF Fail, CacheTypeOK
<1>2. Retried(f) \subseteq Request /\ \A g, h \in Retried(f) : g = h /\ g.at = Absent
    BY <1>0, RetriedIsRequest
<1>3. fetch' = [fetch EXCEPT ![k] = Retried(f)]
    BY <1>1 DEF CacheInv, OneRequest
<1>4. CacheTypeOK'
    BY <1>0, <1>1, <1>2, <1>3 DEF CacheTypeOK, Request
<1>5. OneRequest' /\ CommittedIsStored'
    BY <1>0, <1>1, <1>2, <1>3 DEF CacheInv, CacheTypeOK, OneRequest, CommittedIsStored
<1>6. AnswersInOrder' /\ SavedIsShown'
    BY <1>0, <1>1, <1>2, <1>3 DEF CacheInv, CacheTypeOK, AnswersInOrder, SavedIsShown
<1> QED
    BY <1>4, <1>5, <1>6 DEF CacheInv

-----------------------------------------------------------------------------

(* Steps that touch one mutation only.                                       *)
LEMMA MutationStep ==
    ASSUME CacheInv, NEW m \in Mutations, Mutate(m) \/ MutationFails(m) PROVE CacheInv'
<1>1. CacheTypeOK'
    <2> DEFINE Sent == [phase |-> "sent", at |-> Absent]
    <2>1. {Sent, Idle} \subseteq [phase : {"idle", "sent", "committed"}, at : 0 .. MaxVersion]
        BY CacheAssumption DEF Idle, Absent
    <2>2. mutation' = [mutation EXCEPT ![m] = Sent] \/ mutation' = [mutation EXCEPT ![m] = Idle]
        BY DEF Mutate, MutationFails
    <2> HIDE DEF Sent
    <2>3. mutation' \in [Mutations -> [phase : {"idle", "sent", "committed"}, at : 0 .. MaxVersion]]
        BY <2>1, <2>2 DEF CacheInv, CacheTypeOK
    <2> QED
        BY <2>3 DEF Mutate, MutationFails, CacheInv, CacheTypeOK
<1>2. CommittedIsStored'
    BY DEF Mutate, MutationFails, Idle, CacheInv, CacheTypeOK, CommittedIsStored
<1>3. OneRequest' /\ AnswersInOrder' /\ SavedIsShown'
    BY DEF Mutate, MutationFails, CacheInv, OneRequest, AnswersInOrder, SavedIsShown
<1> QED
    BY <1>1, <1>2, <1>3 DEF CacheInv

LEMMA CommitStep ==
    ASSUME CacheInv, NEW m \in Mutations, Commit(m) PROVE CacheInv'
<1>0. CacheTypeOK /\ Writes[m] \in Resources
    BY CacheAssumption DEF CacheInv, CacheTypeOK
<1>1. /\ server' \in [Resources -> 1 .. MaxVersion]
      /\ \A s \in Resources : server[s] \in Nat /\ server'[s] \in Nat /\ server[s] <= server'[s]
      /\ server'[Writes[m]] = server[Writes[m]] + 1
    BY <1>0, ServerGrows DEF Commit
<1>2. CacheTypeOK'
    <2>1. server[Writes[m]] + 1 \in 0 .. MaxVersion
        BY <1>0, <1>1, CacheAssumption
    <2> QED
        BY <1>0, <1>1, <2>1 DEF Commit, CacheTypeOK
<1>3. OneRequest' /\ SavedIsShown'
    BY DEF Commit, CacheInv, OneRequest, SavedIsShown
<1>4. AnswersInOrder'
    BY <1>0, <1>1, VersionsAreNumbers DEF Commit, CacheInv, AnswersInOrder
<1>5. CommittedIsStored'
    BY <1>0, <1>1, VersionsAreNumbers DEF Commit, CacheInv, CacheTypeOK, CommittedIsStored
<1> QED
    BY <1>2, <1>3, <1>4, <1>5 DEF CacheInv

LEMMA AcknowledgeStep ==
    ASSUME CacheInv, NEW m \in Mutations, Acknowledge(m) PROVE CacheInv'
<1>0. /\ CacheTypeOK /\ mutation[m].at \in 0 .. MaxVersion
      /\ mutation[m].at <= server[Writes[m]]
    BY DEF CacheInv, CacheTypeOK, Acknowledge, CommittedIsStored
<1>1. Asked(0) \in Request /\ Asked(0).at = Absent
    BY AskedIsRequest DEF Retries
<1>2. CacheTypeOK'
    BY <1>0, <1>1, CacheAssumption DEF Acknowledge, Refetched, CacheTypeOK, Idle, Absent, Request
<1>3. OneRequest'
    BY DEF Acknowledge, Refetched, CacheInv, OneRequest
<1>4. CommittedIsStored'
    BY <1>0 DEF Acknowledge, Idle, CacheInv, CacheTypeOK, CommittedIsStored
<1>5. ASSUME NEW k \in Keys
      PROVE  /\ fetch'[k] = {Asked(0)} \/ (fetch'[k] = fetch[k] /\ saved'[k] = saved[k])
             /\ saved'[k] = saved[k] \/ saved'[k] <= server[ResourceOf[k]]
    BY <1>0 DEF Acknowledge, Refetched, ShownBy
<1>6. AnswersInOrder' /\ SavedIsShown'
    BY <1>1, <1>5 DEF Acknowledge, CacheInv, AnswersInOrder, SavedIsShown
<1> QED
    BY <1>2, <1>3, <1>4, <1>6 DEF CacheInv

LEMMA CacheInvStep == CacheInv /\ [CacheNext]_cacheVars => CacheInv'
<1> SUFFICES ASSUME CacheInv, [CacheNext]_cacheVars PROVE CacheInv'
    OBVIOUS
<1>1. ASSUME NEW r \in Resources, ServerWrites(r) PROVE CacheInv'
    BY <1>1, ServerWritesStep
<1>2. ASSUME NEW k \in Keys, Poll(k) \/ Read(k) \/ Arrive(k) \/ Fail(k) PROVE CacheInv'
    BY <1>2, PollStep, ReadStep, ArriveStep, FailStep
<1>3. ASSUME NEW m \in Mutations, Mutate(m) \/ Commit(m) \/ Acknowledge(m) \/ MutationFails(m)
      PROVE  CacheInv'
    BY <1>3, MutationStep, CommitStep, AcknowledgeStep
<1>4. CASE UNCHANGED cacheVars
    BY <1>4 DEF cacheVars, CacheInv, CacheTypeOK, OneRequest, AnswersInOrder, CommittedIsStored,
                SavedIsShown
<1> QED
    BY <1>1, <1>2, <1>3, <1>4 DEF CacheNext

LEMMA CacheInvariant == CacheSpec => []CacheInv
    BY CacheInvInit, CacheInvStep, PTL DEF CacheSpec

-----------------------------------------------------------------------------

(* The cache keeps its types.                                                *)
THEOREM CacheTypeCorrect == CacheSpec => []CacheTypeOK
    BY CacheInvariant, PTL DEF CacheInv

(* An acknowledged change is shown, or an error, once its view is idle.      *)
THEOREM AcknowledgedIsShown == CacheSpec => []SavedIsShown
    BY CacheInvariant, PTL DEF CacheInv

LEMMA ViewsStart == CacheInit => View!ViewInit
    BY DEF CacheInit, Absent, View!ViewInit

(* Only a write and an answer are steps that ServerView can see.             *)
LEMMA ViewsStep == CacheInv /\ [CacheNext]_cacheVars => [View!ViewNext]_(View!viewVars)
<1> SUFFICES ASSUME CacheInv, CacheNext PROVE View!ViewNext \/ UNCHANGED View!viewVars
    BY DEF cacheVars, View!viewVars
<1>1. ASSUME NEW r \in Resources, ServerWrites(r) PROVE View!ViewNext
    BY <1>1 DEF ServerWrites, View!ViewNext, View!Change
<1>2. ASSUME NEW k \in Keys, Arrive(k) PROVE View!ViewNext \/ UNCHANGED View!viewVars
    <2>1. UNCHANGED server
        BY <1>2, ArriveStep
    <2>2. PICK v \in 1 .. server[ResourceOf[k]] : data[k] <= v /\ data' = [data EXCEPT ![k] = v]
        BY <1>2, ArriveStep
    <2>3. CASE v = data[k]
        BY <2>1, <2>2, <2>3 DEF CacheInv, CacheTypeOK, View!viewVars
    <2>4. CASE v # data[k]
        <3>1. data[k] < v
            BY <2>2, <2>4, VersionsAreNumbers DEF CacheInv
        <3> QED
            BY <2>1, <2>2, <3>1 DEF View!ViewNext, View!Show
    <2> QED
        BY <2>3, <2>4
<1>3. ASSUME NEW k \in Keys, Poll(k) \/ Read(k) \/ Fail(k) PROVE UNCHANGED View!viewVars
    BY <1>3 DEF Poll, Read, Fail, View!viewVars
<1>4. ASSUME NEW m \in Mutations, Commit(m) PROVE View!ViewNext
    BY <1>4, CacheAssumption DEF Commit, View!ViewNext, View!Change
<1>5. ASSUME NEW m \in Mutations, Mutate(m) \/ Acknowledge(m) \/ MutationFails(m)
      PROVE  UNCHANGED View!viewVars
    BY <1>5 DEF Mutate, Acknowledge, MutationFails, View!viewVars
<1> QED
    BY <1>1, <1>2, <1>3, <1>4, <1>5 DEF CacheNext

(* The cache implements ServerView: no view goes back to older data.         *)
THEOREM CacheImplementsServerView == CacheSpec => ShowsServer
<1>1. CacheSpec => View!ViewInit
    BY ViewsStart DEF CacheSpec
<1>2. CacheSpec => [][View!ViewNext]_(View!viewVars)
    BY CacheInvariant, ViewsStep, PTL DEF CacheSpec
<1> QED
    BY <1>1, <1>2, PTL DEF ShowsServer, View!ViewSpec
=============================================================================
