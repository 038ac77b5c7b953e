--------------------------- MODULE ExecutionTrace ---------------------------
(***************************************************************************)
(* ExecutionTracker: the rows of agent_executions, agent_turns and          *)
(* tool_calls that describe what the agents of one task did.  The event     *)
(* bridge calls it without awaiting it, and the tracker keeps one active    *)
(* execution per task; calls under way hold on to the execution they began  *)
(* with, whatever becomes the active one meanwhile.                         *)
(*                                                                         *)
(* Executions, turns and calls are numbered.  The events carry no           *)
(* tool_use id, so trackExecution makes one of the clock: calls that start  *)
(* in the same millisecond share it, and a completion finds its call only   *)
(* when the stamps agree.  Contents, tokens and the features recorded for   *)
(* machine learning are left out.                                           *)
(***************************************************************************)
EXTENDS Naturals, FiniteSets, FiniteSetsExt, Sequences, SequencesExt

CONSTANTS
    ToolUses,       \* tool_use ids: readings of the clock
    MaxExecutions,  \* bound: sessions registered for the task
    MaxTurns,       \* bound: agent messages
    MaxCalls        \* bound: tool calls started

ASSUME ExecutionConstants == {MaxExecutions, MaxTurns, MaxCalls} \subseteq Nat

VARIABLES
    executions, \* rows of agent_executions: "running" or "completed"
    tracked,    \* per execution, its object: current turn, turn number, pending calls
    active,     \* activeExecutions of the task: an execution or 0
    starting,   \* executions whose startExecution awaits its row
    closing,    \* executions whose completeExecution is under way
    turns,      \* rows of agent_turns: the execution and the number
    opening,    \* turns whose startTurn awaits its row
    calls,      \* rows of tool_calls: execution, turn, use, order, done
    beginning,  \* startToolCalls under way: execution, use, turn, order (0 = not read)
    finishing   \* completeToolCalls under way: execution, use, call

traceVars == <<executions, tracked, active, starting, closing, turns, opening,
               calls, beginning, finishing>>

Untracked == [turn |-> 0, number |-> 0, pending |-> [u \in ToolUses |-> 0]]

Objects == [turn : 0..MaxTurns, number : 0..MaxTurns, pending : [ToolUses -> 0..MaxCalls]]
TurnRows == [exec : 1..MaxExecutions, number : 1..MaxTurns]
CallRows == [exec : 1..MaxExecutions, turn : 0..MaxTurns, use : ToolUses, order : Nat,
             done : BOOLEAN]
Beginnings == [exec : 1..MaxExecutions, use : ToolUses, turn : 1..MaxTurns, order : Nat]
Finishings == [exec : 1..MaxExecutions, use : ToolUses, call : 1..MaxCalls]

TraceTypeOK ==
    /\ executions \in Seq({"running", "completed"}) /\ Len(executions) <= MaxExecutions
    /\ tracked \in Seq(Objects) /\ Len(tracked) = Len(executions)
    /\ active \in 0..Len(executions)
    /\ starting \cup closing \subseteq DOMAIN executions
    /\ turns \in Seq(TurnRows) /\ Len(turns) <= MaxTurns /\ opening \subseteq DOMAIN turns
    /\ calls \in Seq(CallRows) /\ Len(calls) <= MaxCalls
    /\ beginning \subseteq Beginnings /\ finishing \subseteq Finishings

TraceInit ==
    /\ executions = <<>> /\ tracked = <<>> /\ active = 0
    /\ starting = {} /\ closing = {}
    /\ turns = <<>> /\ opening = {}
    /\ calls = <<>> /\ beginning = {} /\ finishing = {}

-----------------------------------------------------------------------------
(* registerSession calls startExecution: the row is created. *)
StartExecution ==
    /\ Len(executions) < MaxExecutions
    /\ executions' = Append(executions, "running")
    /\ tracked' = Append(tracked, Untracked)
    /\ starting' = starting \cup {Len(executions) + 1}
    /\ UNCHANGED <<active, closing, turns, opening, calls, beginning, finishing>>

(* The row is there: the execution becomes the active one of the task. *)
ExecutionStarted(e) ==
    /\ e \in starting
    /\ starting' = starting \ {e}
    /\ active' = e
    /\ UNCHANGED <<executions, tracked, closing, turns, opening, calls, beginning, finishing>>

(* unregisterSession calls completeExecution. *)
CompleteExecution ==
    /\ active # 0
    /\ closing' = closing \cup {active}
    /\ UNCHANGED <<executions, tracked, active, starting, turns, opening, calls,
                   beginning, finishing>>

(* Its row is completed; whatever is active for the task now is forgotten. *)
ExecutionCompleted(e) ==
    /\ e \in closing
    /\ closing' = closing \ {e}
    /\ executions' = [executions EXCEPT ![e] = "completed"]
    /\ active' = 0
    /\ UNCHANGED <<tracked, starting, turns, opening, calls, beginning, finishing>>

-----------------------------------------------------------------------------

(* currentTurnNumber is increased before anything is awaited. *)
TurnNumber(e) == tracked[e].number + 1

(* AgentTurnRepository.create. *)
TurnRow(e) == [exec |-> e, number |-> TurnNumber(e)]

(* A message of the agent: startTurn up to its await. *)
StartTurn ==
    /\ active # 0
    /\ Len(turns) < MaxTurns
    /\ tracked' = [tracked EXCEPT ![active].number = @ + 1]
    /\ turns' = Append(turns, TurnRow(active))
    /\ opening' = opening \cup {Len(turns) + 1}
    /\ UNCHANGED <<executions, active, starting, closing, calls, beginning, finishing>>

(* The turn's row is there: it becomes the current turn of its execution. *)
TurnStarted(t) ==
    /\ t \in opening
    /\ opening' = opening \ {t}
    /\ tracked' = [tracked EXCEPT ![turns[t].exec].turn = t]
    /\ UNCHANGED <<executions, active, starting, closing, turns, calls, beginning, finishing>>

-----------------------------------------------------------------------------
(* A tool starts: nothing without a current turn; else its order is asked for. *)
StartToolCall(u) ==
    /\ Len(calls) + Cardinality(beginning) < MaxCalls
    /\ active # 0 /\ tracked[active].turn # 0
    /\ beginning' = beginning \cup {[exec |-> active, use |-> u, order |-> 0,
                                     turn |-> tracked[active].turn]}
    /\ UNCHANGED <<executions, tracked, active, starting, closing, turns, opening,
                   calls, finishing>>

(* getNextCallOrder: one more than the highest order of the turn. *)
ReadOrder(b) ==
    /\ b.order = 0
    /\ beginning' = (beginning \ {b}) \cup
          {[b EXCEPT !.order = Max({0} \cup {c.order : c \in {d \in ToSet(calls) : d.turn = b.turn}}) + 1]}
    /\ UNCHANGED <<executions, tracked, active, starting, closing, turns, opening,
                   calls, finishing>>

(* Mutant of OwnerOf: the active execution is looked up again. *)
Bug_ActiveNow(b) == IF active = 0 THEN b.exec ELSE active

(* The execution of the call is the one it began with. *)
OwnerOf(b) == b.exec

(* The object whose pendingToolCalls gets the call. *)
PendingHolder(b) == b.exec

(* ToolCallRepository.create, in what is now the current turn. *)
CallRow(b) == [exec |-> OwnerOf(b), turn |-> tracked[b.exec].turn, use |-> b.use,
               order |-> b.order, done |-> FALSE]

(* The call's row is created, and the call is pending. *)
ToolCallStarted(b) ==
    /\ b.order # 0
    /\ calls' = Append(calls, CallRow(b))
    /\ tracked' = [tracked EXCEPT ![PendingHolder(b)].pending[b.use] = Len(calls) + 1]
    /\ beginning' = beginning \ {b}
    /\ UNCHANGED <<executions, active, starting, closing, turns, opening, finishing>>

(* A tool ends: an unknown or not yet known use is dropped. *)
CompleteToolCall(u) ==
    /\ active # 0 /\ tracked[active].pending[u] # 0
    /\ finishing' = finishing \cup {[exec |-> active, use |-> u,
                                     call |-> tracked[active].pending[u]]}
    /\ UNCHANGED <<executions, tracked, active, starting, closing, turns, opening,
                   calls, beginning>>

(* The call's row is completed and the call no longer pending. *)
ToolCallCompleted(f) ==
    /\ f \in finishing
    /\ finishing' = finishing \ {f}
    /\ calls' = [calls EXCEPT ![f.call].done = TRUE]
    /\ tracked' = [tracked EXCEPT ![f.exec].pending[f.use] = 0]
    /\ UNCHANGED <<executions, active, starting, closing, turns, opening, beginning>>

-----------------------------------------------------------------------------
TraceNext ==
    \/ StartExecution \/ CompleteExecution \/ StartTurn
    \/ \E e \in DOMAIN executions : ExecutionStarted(e) \/ ExecutionCompleted(e)
    \/ \E t \in DOMAIN turns : TurnStarted(t)
    \/ \E u \in ToolUses : StartToolCall(u) \/ CompleteToolCall(u)
    \/ \E b \in beginning : ReadOrder(b) \/ ToolCallStarted(b)
    \/ \E f \in finishing : ToolCallCompleted(f)

TraceSpec == TraceInit /\ [][TraceNext]_traceVars

-----------------------------------------------------------------------------
(* Two turns of an execution never have the same number, although their rows
   are created side by side. *)
TurnNumbersDistinct ==
    \A t, s \in DOMAIN turns :
        t # s /\ turns[t].exec = turns[s].exec => turns[t].number # turns[s].number

(* A tool call is filed under a turn of its own execution, although the active
   execution of the task and the current turn may change while it starts. *)
CallInItsExecution ==
    \A c \in DOMAIN calls :
        calls[c].turn # 0 /\ turns[calls[c].turn].exec = calls[c].exec

(* Pending calls and their completions are about the execution that holds
   them: a completion never closes another execution's call. *)
PendingIsOwn ==
    /\ \A e \in DOMAIN executions : \A u \in ToolUses :
          tracked[e].pending[u] # 0 =>
              LET c == calls[tracked[e].pending[u]] IN c.exec = e /\ c.use = u
    /\ \A f \in finishing : calls[f.call].exec = f.exec /\ calls[f.call].use = f.use

(* Why: numbers, current turns and rows refer to what is there ... *)
RefersToRows ==
    /\ \A e \in DOMAIN tracked : tracked[e].number <= Len(turns) /\ tracked[e].turn <= Len(turns)
    /\ \A e \in DOMAIN tracked : \A u \in ToolUses : tracked[e].pending[u] <= Len(calls)
    /\ \A t \in DOMAIN turns : turns[t].exec <= Len(executions)
    /\ \A c \in DOMAIN calls : calls[c].turn <= Len(turns) /\ calls[c].order <= Len(calls)
    /\ \A b \in beginning : b.exec <= Len(executions) /\ b.order <= Len(calls) + 1
    /\ \A f \in finishing : f.exec <= Len(executions) /\ f.call <= Len(calls)

(* ... a turn's number is one its execution has counted, the current turn is one
   of its own, and a call begins only where there is one. *)
TurnsAreOwn ==
    /\ \A t \in DOMAIN turns : turns[t].number <= tracked[turns[t].exec].number
    /\ \A e \in DOMAIN tracked : tracked[e].turn # 0 => turns[tracked[e].turn].exec = e
    /\ \A b \in beginning : tracked[b.exec].turn # 0

CallsAreBounded == IsFiniteSet(beginning) /\ Len(calls) + Cardinality(beginning) <= MaxCalls

(* The rows of executions, turns and calls belong together. *)
TraceInv ==
    /\ TraceTypeOK
    /\ TurnNumbersDistinct /\ CallInItsExecution /\ PendingIsOwn
    /\ RefersToRows /\ TurnsAreOwn /\ CallsAreBounded
=============================================================================
