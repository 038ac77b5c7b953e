-------------------------- MODULE ApprovalService --------------------------
(***************************************************************************)
(* The in-memory approval queue of services/realtime/ApprovalService.ts.    *)
(*                                                                         *)
(* A phase that needs a human calls requestApproval and awaits the promise  *)
(* it returns.  The promise is settled by resolveWithAction (an answer from *)
(* a socket or an HTTP route), by cancelTask, or by an optional timer.  The *)
(* service keeps one entry per key "taskId:phase" in the Map `pending`.     *)
(*                                                                         *)
(* A request is named by the number of the call that issued it, so that the *)
(* promises of two calls for the same key can be told apart.  The browser   *)
(* client is part of the model: a prompt reaches the human only while the   *)
(* client is in the task's room, when it is emitted or resent on a join.    *)
(***************************************************************************)
EXTENDS Naturals, FiniteSets

CONSTANTS
    Tasks,        \* task identifiers
    Phases,       \* phase names used as the second half of a key
    MaxRequests,  \* bound: calls of requestApproval in one run of the server
    Timeouts,     \* BOOLEAN: may a caller pass timeoutMs?
    NoRequest     \* absence of a Map entry

ASSUME ApprovalConstants ==
    /\ MaxRequests \in Nat
    /\ Timeouts \in BOOLEAN
    /\ NoRequest \notin Nat

VARIABLES
    issued,   \* number of requestApproval calls so far
    keyOf,    \* request -> its key <<taskId, phase>>
    promise,  \* request -> state of the promise returned to the caller
    timer,    \* request -> is its setTimeout armed?
    pending,  \* key -> the request the Map holds for it
    audit,    \* request -> actions written to the approval log for it
    joined,   \* tasks whose room the client is in
    shown     \* keys whose prompt the client displays

vars == <<issued, keyOf, promise, timer, pending, audit, joined, shown>>

Requests == 1..MaxRequests
Keys == Tasks \X Phases
Answers == {"approve", "reject", "request_changes"}
Settled == Answers \cup {"cancelled", "timed_out"}
AuditActions == {"approve", "reject", "timeout"}

TypeOK ==
    /\ issued \in 0..MaxRequests
    /\ keyOf \in [1..issued -> Keys]
    /\ promise \in [1..issued -> Settled \cup {"waiting"}]
    /\ timer \in [1..issued -> BOOLEAN]
    /\ pending \in [Keys -> 1..issued \cup {NoRequest}]
    /\ audit \in [1..issued -> SUBSET AuditActions]
    /\ joined \in SUBSET Tasks
    /\ shown \in SUBSET Keys

Init ==
    /\ issued = 0
    /\ keyOf = [r \in 1..0 |-> <<>>]
    /\ promise = [r \in 1..0 |-> "waiting"]
    /\ timer = [r \in 1..0 |-> FALSE]
    /\ pending = [k \in Keys |-> NoRequest]
    /\ audit = [r \in 1..0 |-> {}]
    /\ joined = {}
    /\ shown = {}

(* The Map entries of a task: the keys that start with "taskId:". *)
EntriesOf(t) == {k \in Keys : k[1] = t /\ pending[k] # NoRequest}

(* The request waits for the human: its promise is not settled. *)
Waiting(r) == promise[r] = "waiting"

(* The pipeline of one task is sequential: it awaits each answer before it
   asks for the next one, so a task has at most one unsettled request. *)
CallerIdle(t) == \A r \in 1..issued : keyOf[r][1] = t => ~Waiting(r)

(* requestApproval: emit the prompt to the task's room, arm the timer when
   timeoutMs is given, store the resolver under the key. *)
RequestApproval(t, p, timed) ==
    LET r == issued + 1
        k == <<t, p>>
    IN /\ issued < MaxRequests
       /\ CallerIdle(t)
       /\ timed => Timeouts
       /\ issued' = r
       /\ keyOf' = [i \in 1..r |-> IF i = r THEN k ELSE keyOf[i]]
       /\ promise' = [i \in 1..r |-> IF i = r THEN "waiting" ELSE promise[i]]
       /\ timer' = [i \in 1..r |-> IF i = r THEN timed ELSE timer[i]]
       /\ audit' = [i \in 1..r |-> IF i = r THEN {} ELSE audit[i]]
       /\ pending' = [pending EXCEPT ![k] = r]
       /\ shown' = IF t \in joined THEN shown \cup {k} ELSE shown
       /\ UNCHANGED joined

(* A promise keeps the first value it is settled with. *)
Settle(r, outcome) ==
    promise' = [promise EXCEPT ![r] = IF Waiting(r) THEN outcome ELSE @]

(* Mutant of Logged: the answer is logged under its own name. *)
Bug_LogRaw(a) == a

(* The action the audit log records for an answer. *)
Logged(a) == IF a = "request_changes" THEN "approve" ELSE a

(* Mutant of ClearTimer: the timer of an answered request stays armed. *)
Bug_TimerLeftArmed(r) == timer' = timer

(* clearTimeout of the entry that is being removed. *)
ClearTimer(r) == timer' = [timer EXCEPT ![r] = FALSE]

(* resolveWithAction when the Map has the key: clear the timer, resolve the
   promise, delete the entry, write the audit log. *)
Resolve(k, a) ==
    LET r == pending[k]
    IN /\ r # NoRequest
       /\ ClearTimer(r)
       /\ Settle(r, a)
       /\ pending' = [pending EXCEPT ![k] = NoRequest]
       /\ audit' = [audit EXCEPT ![r] = @ \cup {Logged(a)}]
       /\ UNCHANGED <<issued, keyOf, joined>>

(* An answer clicked in the browser (phase:approve, phase:reject and
   phase:request_changes); an answer for a key the Map no longer holds is
   only logged.  Either way the client drops the prompt. *)
SocketAnswer(k, a) ==
    /\ k \in shown
    /\ shown' = shown \ {k}
    /\ \/ Resolve(k, a)
       \/ /\ pending[k] = NoRequest
          /\ UNCHANGED <<issued, keyOf, promise, timer, pending, audit, joined>>

(* The HTTP routes /approve, /reject and /bypass-approval: the same service
   call, whether or not a client shows the prompt. *)
HttpAnswer(k, a) ==
    /\ a \in {"approve", "reject"}
    /\ Resolve(k, a)
    /\ UNCHANGED shown

(* Mutant of CancelTask: the entries are deleted, the promises never settled. *)
Bug_CancelWithoutReject(t) ==
    LET gone == {pending[k] : k \in EntriesOf(t)}
    IN /\ EntriesOf(t) # {}
       /\ timer' = [r \in 1..issued |-> timer[r] /\ r \notin gone]
       /\ audit' = [r \in 1..issued |->
                       IF r \in gone THEN audit[r] \cup {"reject"} ELSE audit[r]]
       /\ pending' = [k \in Keys |-> IF k \in EntriesOf(t) THEN NoRequest
                                                            ELSE pending[k]]
       /\ UNCHANGED <<issued, keyOf, joined, shown, promise>>

(* cancelTask: every entry of the task is cleared, logged and rejected. *)
CancelTask(t) ==
    LET gone == {pending[k] : k \in EntriesOf(t)}
    IN /\ EntriesOf(t) # {}
       /\ timer' = [r \in 1..issued |-> timer[r] /\ r \notin gone]
       /\ audit' = [r \in 1..issued |->
                       IF r \in gone THEN audit[r] \cup {"reject"} ELSE audit[r]]
       /\ promise' = [r \in 1..issued |->
                         IF r \in gone /\ Waiting(r) THEN "cancelled"
                                                     ELSE promise[r]]
       /\ pending' = [k \in Keys |-> IF k \in EntriesOf(t) THEN NoRequest
                                                            ELSE pending[k]]
       /\ UNCHANGED <<issued, keyOf, joined, shown>>

(* The setTimeout callback: it deletes whatever entry the key has now. *)
TimerFires(r) ==
    /\ timer[r]
    /\ timer' = [timer EXCEPT ![r] = FALSE]
    /\ pending' = [pending EXCEPT ![keyOf[r]] = NoRequest]
    /\ audit' = [audit EXCEPT ![r] = @ \cup {"timeout"}]
    /\ Settle(r, "timed_out")
    /\ UNCHANGED <<issued, keyOf, joined, shown>>

(* Mutant of ResendApprovalRequest: a reconnecting client is told nothing. *)
Bug_NoResend(t) == shown' = shown

(* resendApprovalRequest: one pending entry of the task (the Map's first) is
   emitted again; which one is left open. *)
ResendApprovalRequest(t) ==
    IF EntriesOf(t) = {} THEN shown' = shown
                         ELSE \E k \in EntriesOf(t) : shown' = shown \cup {k}

(* A client enters the room of a task; the join callback resends. *)
JoinTask(t) ==
    /\ joined' = joined \cup {t}
    /\ ResendApprovalRequest(t)
    /\ UNCHANGED <<issued, keyOf, promise, timer, pending, audit>>

(* The page is left, closed or reloaded: its prompts are gone. *)
LeaveTask(t) ==
    /\ t \in joined
    /\ joined' = joined \ {t}
    /\ shown' = {k \in shown : k[1] # t}
    /\ UNCHANGED <<issued, keyOf, promise, timer, pending, audit>>

Next ==
    \/ \E t \in Tasks, p \in Phases, timed \in BOOLEAN : RequestApproval(t, p, timed)
    \/ \E k \in Keys, a \in Answers : SocketAnswer(k, a) \/ HttpAnswer(k, a)
    \/ \E t \in Tasks : CancelTask(t) \/ JoinTask(t) \/ LeaveTask(t)
    \/ \E r \in 1..issued : TimerFires(r)

Spec == Init /\ [][Next]_vars

(* The human opens the page of a task sooner or later, and answers a prompt
   that the page keeps showing again and again. *)
HumanFairness ==
    /\ \A t \in Tasks : WF_vars(JoinTask(t))
    /\ \A k \in Keys : SF_vars(\E a \in Answers : SocketAnswer(k, a))

FairSpec == Spec /\ HumanFairness

-----------------------------------------------------------------------------
(* A request waits exactly as long as the Map holds it under its key: a
   promise a phase awaits can always still be answered, cancelled or timed
   out, and an entry never outlives its promise.  A timer that
   resolveWithAction or cancelTask forgot to clear would delete the entry of
   a later request of the same phase and strand that phase for ever. *)
PendingMirrorsPromises ==
    /\ \A r \in 1..issued : Waiting(r) => pending[keyOf[r]] = r
    /\ \A k \in Keys : pending[k] # NoRequest =>
            Waiting(pending[k]) /\ keyOf[pending[k]] = k

(* The audit actions a promise in the given state must have left behind. *)
AuditOf(state) ==
    CASE state = "waiting" -> {}
      [] state \in {"approve", "request_changes"} -> {"approve"}
      [] state \in {"reject", "cancelled"} -> {"reject"}
      [] state = "timed_out" -> {"timeout"}

(* The approval log has exactly one decision for every settled request, the
   one its caller received, and none for a request that still waits. *)
AuditAgrees == \A r \in 1..issued : audit[r] = AuditOf(promise[r])

(* A client that is in the room of a task displays the task's pending
   approval, whether it was there when requestApproval emitted the prompt or
   joined (or came back) later and had it resent. *)
PromptVisible ==
    \A k \in Keys : pending[k] # NoRequest /\ k[1] \in joined => k \in shown

(* Part of the inductive strengthening: an armed timer belongs to a request
   that still waits. *)
TimerOwnsEntry == \A r \in 1..issued : timer[r] => Waiting(r)

(* Part of the inductive strengthening: the sequential pipeline of a task has
   at most one unsettled request. *)
OneWaitingPerTask ==
    \A r, s \in 1..issued :
        Waiting(r) /\ Waiting(s) /\ keyOf[r][1] = keyOf[s][1] => r = s

(* The inductive invariant of the approval queue. *)
ApprovalInv ==
    /\ TypeOK
    /\ PendingMirrorsPromises
    /\ AuditAgrees
    /\ PromptVisible
    /\ TimerOwnsEntry
    /\ OneWaitingPerTask

Open(r) == r \in 1..issued /\ Waiting(r)

(* Every approval a phase waits for is settled, however often the client
   leaves and comes back, because a join resends the prompt. *)
EveryRequestSettles == \A r \in Requests : Open(r) ~> ~Open(r)
=============================================================================
