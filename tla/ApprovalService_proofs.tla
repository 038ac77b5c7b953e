----------------------- MODULE ApprovalService_proofs -----------------------
(***************************************************************************)
(* The approval queue keeps its promises for any set of tasks and phases    *)
(* and any number of requests: ApprovalInv is inductive.                    *)
(***************************************************************************)
EXTENDS ApprovalService, TLAPS

(* The empty approval queue that the server starts with satisfies the
   inductive invariant. *)
LEMMA InitInv == Init => ApprovalInv
  <1> SUFFICES ASSUME Init PROVE ApprovalInv
    OBVIOUS
  <1> USE ApprovalConstants DEF Init
  <1>1. issued = 0 /\ 1..issued = {}
    OBVIOUS
  <1>2. TypeOK
    BY <1>1 DEF TypeOK
  <1>3. PendingMirrorsPromises
    BY <1>1 DEF PendingMirrorsPromises
  <1>4. AuditAgrees /\ PromptVisible /\ TimerOwnsEntry /\ OneWaitingPerTask
    BY <1>1 DEF AuditAgrees, PromptVisible, TimerOwnsEntry, OneWaitingPerTask
  <1> QED
    BY <1>2, <1>3, <1>4 DEF ApprovalInv

(* A new request of an idle task takes a fresh number and a free key. *)
LEMMA RequestInv ==
  ASSUME ApprovalInv, NEW t \in Tasks, NEW p \in Phases, NEW timed \in BOOLEAN,
         RequestApproval(t, p, timed)
  PROVE  ApprovalInv'
  <1> DEFINE r == issued + 1
             k == <<t, p>>
  <1>1. /\ TypeOK /\ issued \in Nat /\ r \in Nat /\ r \notin 1..issued
        /\ 1..r = (1..issued) \cup {r} /\ issued' = r /\ k \in Keys
        /\ r # NoRequest
    BY ApprovalConstants DEF ApprovalInv, TypeOK, RequestApproval, Keys
  <1>2. TypeOK'
    <2>1. issued' \in 0..MaxRequests
      BY <1>1, ApprovalConstants DEF RequestApproval
    <2>2. keyOf' \in [1..issued' -> Keys]
      BY <1>1 DEF RequestApproval, TypeOK
    <2>3. promise' \in [1..issued' -> Settled \cup {"waiting"}]
      BY <1>1 DEF RequestApproval, TypeOK
    <2>4. timer' \in [1..issued' -> BOOLEAN]
      BY <1>1 DEF RequestApproval, TypeOK
    <2>5. audit' \in [1..issued' -> SUBSET AuditActions]
      BY <1>1 DEF RequestApproval, TypeOK
    <2>6. pending' \in [Keys -> 1..issued' \cup {NoRequest}]
      BY <1>1 DEF RequestApproval, TypeOK
    <2>7. joined' \in SUBSET Tasks /\ shown' \in SUBSET Keys
      BY <1>1 DEF RequestApproval, TypeOK
    <2> QED
      BY <2>1, <2>2, <2>3, <2>4, <2>5, <2>6, <2>7 DEF TypeOK
  <1>3. /\ keyOf'[r] = k /\ promise'[r] = "waiting" /\ timer'[r] = timed
        /\ audit'[r] = {} /\ pending'[k] = r
    BY <1>1 DEF RequestApproval, TypeOK
  <1>4. \A i \in 1..issued : /\ keyOf'[i] = keyOf[i] /\ promise'[i] = promise[i]
                             /\ timer'[i] = timer[i] /\ audit'[i] = audit[i]
    BY <1>1 DEF RequestApproval
  <1>5. \A i \in 1..issued : keyOf[i][1] = t => promise[i] # "waiting"
    BY DEF RequestApproval, CallerIdle, Waiting
  <1>6. \A j \in Keys : j # k => pending'[j] = pending[j]
    BY <1>1 DEF RequestApproval, TypeOK
  <1>7. PendingMirrorsPromises'
    <2>1. ASSUME NEW i \in 1..issued, promise[i] = "waiting"
          PROVE  pending'[keyOf[i]] = i
      <3>1. keyOf[i] \in Keys /\ keyOf[i] # k
        BY <2>1, <1>1, <1>5 DEF TypeOK
      <3> QED
        BY <3>1, <2>1, <1>6 DEF ApprovalInv, PendingMirrorsPromises, Waiting
    <2>2. ASSUME NEW j \in Keys, j # k, pending[j] # NoRequest
          PROVE  promise'[pending[j]] = "waiting" /\ keyOf'[pending[j]] = j
      BY <2>2, <1>1, <1>4
      DEF ApprovalInv, PendingMirrorsPromises, Waiting, TypeOK
    <2> QED
      BY <2>1, <2>2, <1>1, <1>3, <1>4, <1>6 DEF PendingMirrorsPromises, Waiting
  <1>8. AuditAgrees'
    BY <1>1, <1>3, <1>4 DEF ApprovalInv, AuditAgrees, AuditOf
  <1>9. PromptVisible'
    BY <1>1, <1>3, <1>6 DEF ApprovalInv, PromptVisible, RequestApproval
  <1>10. TimerOwnsEntry'
    BY <1>1, <1>3, <1>4 DEF ApprovalInv, TimerOwnsEntry, Waiting
  <1>11. OneWaitingPerTask'
    BY <1>1, <1>3, <1>4, <1>5 DEF ApprovalInv, OneWaitingPerTask, Waiting
  <1> QED
    BY <1>2, <1>7, <1>8, <1>9, <1>10, <1>11 DEF ApprovalInv

(* Settling the one request that waits under a key and removing its entry, as
   an answer and a timeout both do, keeps the invariant. *)
LEMMA SettleOneInv ==
  ASSUME ApprovalInv, NEW r \in 1..issued, NEW o \in Settled, Waiting(r),
         promise' = [promise EXCEPT ![r] = o],
         timer' = [timer EXCEPT ![r] = FALSE],
         audit' = [audit EXCEPT ![r] = AuditOf(o)],
         pending' = [pending EXCEPT ![keyOf[r]] = NoRequest],
         shown' = shown \/ shown' = shown \ {keyOf[r]},
         UNCHANGED <<issued, keyOf, joined>>
  PROVE  ApprovalInv'
  <1>1. TypeOK /\ keyOf[r] \in Keys /\ pending[keyOf[r]] = r
    BY DEF ApprovalInv, TypeOK, PendingMirrorsPromises
  <1>2. AuditOf(o) \in SUBSET AuditActions
    BY DEF AuditOf, AuditActions, Settled, Answers
  <1>3. TypeOK'
    <2>1. promise' \in [1..issued -> Settled \cup {"waiting"}]
      BY <1>1 DEF TypeOK
    <2>2. timer' \in [1..issued -> BOOLEAN]
      BY <1>1 DEF TypeOK
    <2>3. audit' \in [1..issued -> SUBSET AuditActions]
      BY <1>1, <1>2 DEF TypeOK
    <2>4. pending' \in [Keys -> 1..issued \cup {NoRequest}]
      BY <1>1 DEF TypeOK
    <2>5. shown' \in SUBSET Keys
      BY <1>1 DEF TypeOK
    <2> QED
      BY <1>1, <2>1, <2>2, <2>3, <2>4, <2>5 DEF TypeOK
  <1>4. o # "waiting"
    BY DEF Settled, Answers
  <1>5. /\ promise'[r] = o /\ audit'[r] = AuditOf(o) /\ timer'[r] = FALSE
        /\ \A i \in 1..issued : i # r => /\ promise'[i] = promise[i]
                                       /\ audit'[i] = audit[i]
                                       /\ timer'[i] = timer[i]
        /\ pending'[keyOf[r]] = NoRequest
        /\ \A j \in Keys : j # keyOf[r] => pending'[j] = pending[j]
    BY <1>1 DEF TypeOK
  <1>6. PendingMirrorsPromises'
    <2>1. ASSUME NEW i \in 1..issued, promise'[i] = "waiting"
          PROVE  pending'[keyOf[i]] = i
      <3>1. i # r /\ promise[i] = "waiting" /\ keyOf[i] \in Keys
        BY <2>1, <1>1, <1>4, <1>5 DEF TypeOK
      <3>2. pending[keyOf[i]] = i
        BY <3>1 DEF ApprovalInv, PendingMirrorsPromises, Waiting
      <3> QED
        BY <3>1, <3>2, <1>1, <1>5
    <2>2. ASSUME NEW j \in Keys, pending'[j] # NoRequest
          PROVE  promise'[pending'[j]] = "waiting" /\ keyOf[pending'[j]] = j
      <3>1. j # keyOf[r] /\ pending'[j] = pending[j]
        BY <2>2, <1>5
      <3>2. pending[j] \in 1..issued
        BY <3>1, <2>2, <1>1 DEF TypeOK
      <3>3. promise[pending[j]] = "waiting" /\ keyOf[pending[j]] = j
        BY <3>1, <2>2 DEF ApprovalInv, PendingMirrorsPromises, Waiting
      <3> QED
        BY <3>1, <3>2, <3>3, <1>5
    <2> QED
      BY <2>1, <2>2 DEF PendingMirrorsPromises, Waiting
  <1>7. AuditAgrees'
    BY <1>5 DEF ApprovalInv, AuditAgrees
  <1>8. PromptVisible'
    BY <1>1, <1>5 DEF ApprovalInv, PromptVisible
  <1>9. TimerOwnsEntry'
    BY <1>5 DEF ApprovalInv, TimerOwnsEntry, Waiting
  <1>10. OneWaitingPerTask'
    BY <1>4, <1>5 DEF ApprovalInv, OneWaitingPerTask, Waiting
  <1> QED
    BY <1>3, <1>6, <1>7, <1>8, <1>9, <1>10 DEF ApprovalInv

(* What the audit log holds when a request that still waits is settled. *)
LEMMA AuditWaiting ==
  ASSUME ApprovalInv, NEW r \in 1..issued, Waiting(r)
  PROVE  audit[r] = {}
  BY DEF ApprovalInv, AuditAgrees, AuditOf, Waiting

(* An answer from the socket or an HTTP route settles the request the Map
   holds under the key. *)
LEMMA ResolveInv ==
  ASSUME ApprovalInv, NEW k \in Keys, NEW a \in Answers, Resolve(k, a),
         shown' = shown \/ shown' = shown \ {k}
  PROVE  ApprovalInv'
  <1> DEFINE r == pending[k]
  <1>1. r \in 1..issued /\ Waiting(r) /\ keyOf[r] = k /\ a \in Settled
    BY DEF ApprovalInv, TypeOK, PendingMirrorsPromises, Resolve, Settled
  <1>2. AuditOf(a) = {Logged(a)}
    BY DEF AuditOf, Logged, Answers
  <1>3. audit[r] = {}
    BY <1>1, AuditWaiting
  <1>4. /\ promise' = [promise EXCEPT ![r] = a]
        /\ timer' = [timer EXCEPT ![r] = FALSE]
        /\ pending' = [pending EXCEPT ![keyOf[r]] = NoRequest]
        /\ UNCHANGED <<issued, keyOf, joined>>
    BY <1>1 DEF Resolve, Settle, ClearTimer
  <1>5. audit' = [audit EXCEPT ![r] = AuditOf(a)]
    BY <1>2, <1>3 DEF Resolve
  <1> HIDE DEF r
  <1> QED
    BY <1>1, <1>4, <1>5, SettleOneInv

(* A timer that fires finds its own request still waiting. *)
LEMMA TimerInv ==
  ASSUME ApprovalInv, NEW r \in 1..issued, TimerFires(r)
  PROVE  ApprovalInv'
  <1>1. Waiting(r) /\ "timed_out" \in Settled
    BY DEF ApprovalInv, TimerOwnsEntry, TimerFires, Settled
  <1>2. AuditOf("timed_out") = {"timeout"} /\ audit[r] = {}
    BY <1>1, AuditWaiting DEF AuditOf
  <1>3. /\ promise' = [promise EXCEPT ![r] = "timed_out"]
        /\ audit' = [audit EXCEPT ![r] = AuditOf("timed_out")]
    BY <1>1, <1>2 DEF TimerFires, Settle
  <1>4. shown' = shown
    BY DEF TimerFires
  <1> QED
    BY <1>1, <1>3, <1>4, SettleOneInv DEF TimerFires

(* Cancelling a task settles every request of the task that the Map holds,
   and no request of another task. *)
LEMMA CancelInv ==
  ASSUME ApprovalInv, NEW t \in Tasks, CancelTask(t)
  PROVE  ApprovalInv'
  <1> DEFINE gone == {pending[k] : k \in EntriesOf(t)}
  <1>1. TypeOK /\ UNCHANGED <<issued, keyOf, joined, shown>>
    BY DEF ApprovalInv, CancelTask
  <1>2. \A r \in 1..issued : r \in gone <=> Waiting(r) /\ keyOf[r][1] = t
    <2>1. ASSUME NEW r \in 1..issued, r \in gone
          PROVE  Waiting(r) /\ keyOf[r][1] = t
      <3>1. PICK k \in EntriesOf(t) : r = pending[k]
        BY <2>1
      <3> QED
        BY <3>1 DEF EntriesOf, ApprovalInv, PendingMirrorsPromises
    <2>2. ASSUME NEW r \in 1..issued, Waiting(r), keyOf[r][1] = t
          PROVE  r \in gone
      <3>1. keyOf[r] \in Keys /\ pending[keyOf[r]] = r
        BY <2>2, <1>1 DEF ApprovalInv, PendingMirrorsPromises, TypeOK
      <3>2. r # NoRequest
        BY ApprovalConstants, <1>1 DEF TypeOK
      <3>3. keyOf[r] \in EntriesOf(t)
        BY <2>2, <3>1, <3>2 DEF EntriesOf
      <3> QED
        BY <3>1, <3>3
    <2> QED
      BY <2>1, <2>2
  <1>3. \A k \in Keys : pending'[k] = IF k[1] = t THEN NoRequest ELSE pending[k]
    BY DEF CancelTask, EntriesOf
  <1>4. \A r \in 1..issued :
           /\ promise'[r] = IF r \in gone THEN "cancelled" ELSE promise[r]
           /\ audit'[r] = IF r \in gone THEN audit[r] \cup {"reject"} ELSE audit[r]
           /\ timer'[r] = (timer[r] /\ r \notin gone)
    BY <1>2 DEF CancelTask
  <1>5. TypeOK'
    <2>1. promise' \in [1..issued -> Settled \cup {"waiting"}]
      BY <1>1 DEF CancelTask, TypeOK, Settled
    <2>2. timer' \in [1..issued -> BOOLEAN]
      BY <1>1 DEF CancelTask
    <2>3. audit' \in [1..issued -> SUBSET AuditActions]
      BY <1>1 DEF CancelTask, TypeOK, AuditActions
    <2>4. pending' \in [Keys -> 1..issued \cup {NoRequest}]
      BY <1>1 DEF CancelTask, TypeOK
    <2> QED
      BY <1>1, <2>1, <2>2, <2>3, <2>4 DEF TypeOK
  <1> HIDE DEF gone
  <1>6. PendingMirrorsPromises'
    <2>1. ASSUME NEW i \in 1..issued, promise'[i] = "waiting"
          PROVE  pending'[keyOf[i]] = i
      <3>1. Waiting(i) /\ keyOf[i][1] # t /\ keyOf[i] \in Keys
        BY <2>1, <1>1, <1>2, <1>4 DEF TypeOK, Waiting
      <3> QED
        BY <3>1, <1>3 DEF ApprovalInv, PendingMirrorsPromises
    <2>2. ASSUME NEW j \in Keys, pending'[j] # NoRequest
          PROVE  promise'[pending'[j]] = "waiting" /\ keyOf[pending'[j]] = j
      <3>1. j[1] # t /\ pending'[j] = pending[j]
        BY <2>2, <1>3
      <3>2. pending[j] \in 1..issued /\ Waiting(pending[j]) /\ keyOf[pending[j]] = j
        BY <3>1, <2>2, <1>1 DEF ApprovalInv, PendingMirrorsPromises, TypeOK
      <3>3. pending[j] \notin gone
        BY <3>1, <3>2, <1>2
      <3> QED
        BY <3>1, <3>2, <3>3, <1>4 DEF Waiting
    <2> QED
      BY <1>1, <2>1, <2>2 DEF PendingMirrorsPromises, Waiting
  <1>7. AuditAgrees'
    <2> SUFFICES ASSUME NEW r \in 1..issued
                 PROVE  audit'[r] = AuditOf(promise'[r])
      BY <1>1 DEF AuditAgrees
    <2>1. CASE r \in gone
      BY <2>1, <1>2, <1>4, AuditWaiting DEF AuditOf
    <2>2. CASE r \notin gone
      BY <2>2, <1>4 DEF ApprovalInv, AuditAgrees
    <2> QED
      BY <2>1, <2>2
  <1>8. PromptVisible'
    BY <1>1, <1>3 DEF ApprovalInv, PromptVisible
  <1>9. TimerOwnsEntry'
    BY <1>1, <1>4 DEF ApprovalInv, TimerOwnsEntry, Waiting
  <1>10. OneWaitingPerTask'
    <2>1. \A i \in 1..issued : promise'[i] = "waiting" => promise[i] = "waiting"
      BY <1>4
    <2> QED
      BY <2>1, <1>1 DEF ApprovalInv, OneWaitingPerTask, Waiting
  <1> QED
    BY <1>5, <1>6, <1>7, <1>8, <1>9, <1>10 DEF ApprovalInv

(* Resending the one pending entry of a task makes it visible to the client
   that joins: a task cannot have two. *)
LEMMA JoinInv ==
  ASSUME ApprovalInv, NEW t \in Tasks, JoinTask(t)
  PROVE  ApprovalInv'
  <1>1. UNCHANGED <<issued, keyOf, promise, timer, pending, audit>>
    BY DEF JoinTask
  <1>2. joined' = joined \cup {t}
    BY DEF JoinTask
  <1>3. \A j, k \in EntriesOf(t) : j = k
    <2> SUFFICES ASSUME NEW j \in EntriesOf(t), NEW k \in EntriesOf(t)
                 PROVE  j = k
      OBVIOUS
    <2>1. \A i \in {j, k} : /\ i \in Keys /\ i[1] = t /\ pending[i] \in 1..issued
                           /\ Waiting(pending[i]) /\ keyOf[pending[i]] = i
      BY DEF EntriesOf, ApprovalInv, TypeOK, PendingMirrorsPromises
    <2> QED
      BY <2>1 DEF ApprovalInv, OneWaitingPerTask
  <1>4. shown \subseteq shown' /\ EntriesOf(t) \subseteq shown' /\ shown' \in SUBSET Keys
    <2>1. CASE EntriesOf(t) = {}
      BY <2>1 DEF JoinTask, ResendApprovalRequest, ApprovalInv, TypeOK
    <2>2. CASE EntriesOf(t) # {}
      <3>1. PICK k \in EntriesOf(t) : shown' = shown \cup {k}
        BY <2>2 DEF JoinTask, ResendApprovalRequest
      <3> QED
        BY <3>1, <1>3 DEF EntriesOf, ApprovalInv, TypeOK
    <2> QED
      BY <2>1, <2>2
  <1>5. TypeOK'
    BY <1>1, <1>2, <1>4 DEF ApprovalInv, TypeOK
  <1>6. PromptVisible'
    BY <1>1, <1>2, <1>4 DEF ApprovalInv, PromptVisible, EntriesOf
  <1> QED
    BY <1>1, <1>5, <1>6
    DEF ApprovalInv, PendingMirrorsPromises, AuditAgrees, TimerOwnsEntry,
        OneWaitingPerTask, Waiting

(* Every step of the approval queue preserves the inductive invariant. *)
LEMMA NextInv == ApprovalInv /\ [Next]_vars => ApprovalInv'
  <1> SUFFICES ASSUME ApprovalInv, [Next]_vars PROVE ApprovalInv'
    OBVIOUS
  <1>1. ASSUME NEW t \in Tasks, NEW p \in Phases, NEW timed \in BOOLEAN,
               RequestApproval(t, p, timed)
        PROVE  ApprovalInv'
    BY <1>1, RequestInv
  <1>2. ASSUME NEW k \in Keys, NEW a \in Answers, SocketAnswer(k, a)
        PROVE  ApprovalInv'
    <2>1. CASE Resolve(k, a)
      BY <1>2, <2>1, ResolveInv DEF SocketAnswer
    <2>2. CASE ~Resolve(k, a)
      <3>1. /\ pending[k] = NoRequest /\ shown' = shown \ {k}
            /\ UNCHANGED <<issued, keyOf, promise, timer, pending, audit, joined>>
        BY <1>2, <2>2 DEF SocketAnswer
      <3>2. TypeOK'
        BY <3>1 DEF ApprovalInv, TypeOK
      <3>3. PromptVisible'
        BY <3>1 DEF ApprovalInv, PromptVisible
      <3> QED
        BY <3>1, <3>2, <3>3
        DEF ApprovalInv, PendingMirrorsPromises, AuditAgrees, TimerOwnsEntry,
            OneWaitingPerTask, Waiting
    <2> QED
      BY <2>1, <2>2
  <1>3. ASSUME NEW k \in Keys, NEW a \in Answers, HttpAnswer(k, a)
        PROVE  ApprovalInv'
    BY <1>3, ResolveInv DEF HttpAnswer
  <1>4. ASSUME NEW t \in Tasks, CancelTask(t) PROVE ApprovalInv'
    BY <1>4, CancelInv
  <1>5. ASSUME NEW t \in Tasks, JoinTask(t) PROVE ApprovalInv'
    BY <1>5, JoinInv
  <1>6. ASSUME NEW t \in Tasks, LeaveTask(t) PROVE ApprovalInv'
    <2>1. /\ joined' = joined \ {t} /\ shown' = {k \in shown : k[1] # t}
          /\ UNCHANGED <<issued, keyOf, promise, timer, pending, audit>>
      BY <1>6 DEF LeaveTask
    <2>2. TypeOK' /\ PromptVisible'
      BY <2>1 DEF ApprovalInv, TypeOK, PromptVisible
    <2> QED
      BY <2>1, <2>2
      DEF ApprovalInv, PendingMirrorsPromises, AuditAgrees, TimerOwnsEntry,
          OneWaitingPerTask, Waiting
  <1>7. ASSUME NEW r \in 1..issued, TimerFires(r) PROVE ApprovalInv'
    BY <1>7, TimerInv
  <1>8. CASE UNCHANGED vars
    BY <1>8
    DEF vars, ApprovalInv, TypeOK, PendingMirrorsPromises, AuditAgrees,
        PromptVisible, TimerOwnsEntry, OneWaitingPerTask, Waiting
  <1> QED
    BY <1>1, <1>2, <1>3, <1>4, <1>5, <1>6, <1>7, <1>8 DEF Next

(* The inductive invariant of the approval queue always holds. *)
THEOREM ApprovalInvariant == Spec => []ApprovalInv
  <1> QED
    BY InitInv, NextInv, PTL DEF Spec

(* Type correctness of the approval queue (the Map, the promises, the timers
   and the client's prompts), for every set of tasks and phases. *)
THEOREM ApprovalTypeOK == Spec => []TypeOK
  <1>1. ApprovalInv => TypeOK
    BY DEF ApprovalInv
  <1> QED
    BY <1>1, ApprovalInvariant, PTL

(* For every set of tasks and phases and any number of requests, with or
   without timeouts, the Map of ApprovalService holds exactly the requests
   whose callers still wait: no phase is ever stranded. *)
THEOREM NoRequestStranded == Spec => []PendingMirrorsPromises
  <1>1. ApprovalInv => PendingMirrorsPromises
    BY DEF ApprovalInv
  <1> QED
    BY <1>1, ApprovalInvariant, PTL

(* The approval log records one decision per settled request, the one its
   caller received. *)
THEOREM AuditIsExact == Spec => []AuditAgrees
  <1>1. ApprovalInv => AuditAgrees
    BY DEF ApprovalInv
  <1> QED
    BY <1>1, ApprovalInvariant, PTL

(* A client in the room of a task always displays its pending approval. *)
THEOREM PromptAlwaysVisible == Spec => []PromptVisible
  <1>1. ApprovalInv => PromptVisible
    BY DEF ApprovalInv
  <1> QED
    BY <1>1, ApprovalInvariant, PTL
=============================================================================
