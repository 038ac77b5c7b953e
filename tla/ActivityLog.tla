----------------------------- MODULE ActivityLog -----------------------------
(***************************************************************************)
(* The activity log of a task: OpenCodeEventBridge turns the agents' events *)
(* into entries, queues them in memory and appends them to the row in       *)
(* batches: every two seconds, when a batch is full, and at shutdown.  None *)
(* of the writes but the last is awaited by anybody.                        *)
(*                                                                         *)
(* Entries are numbered; an event is its kind.                              *)
(***************************************************************************)
EXTENDS Naturals, FiniteSets, Sequences, SequencesExt, Functions

CONSTANTS
    MaxBatch,   \* MAX_BATCH_SIZE
    MaxLogs     \* bound: entries queued

ASSUME ActivityConstants == MaxBatch \in Nat \ {0} /\ MaxLogs \in Nat

VARIABLES
    logQueue,   \* pendingActivityLogs of the task
    appending,  \* appendActivityLogs under way: sets of sequences
    logRow,     \* activity_log of the row
    logFailed,  \* entries whose write failed
    logged,     \* entries queued so far
    halt        \* stop(): "no", "flushing" or "stopped"

logVars == <<logQueue, appending, logRow, logFailed, logged, halt>>

Entries == 1..MaxLogs

LogTypeOK ==
    /\ logQueue \in Seq(Entries) /\ Len(logQueue) < MaxBatch
    /\ \A batch \in appending : batch \in Seq(Entries) /\ batch # <<>>
    /\ logRow \in Seq(Entries)
    /\ logFailed \subseteq Entries
    /\ logged \in 0..MaxLogs
    /\ halt \in {"no", "flushing", "stopped"}

LogInit ==
    /\ logQueue = <<>> /\ appending = {} /\ logRow = <<>>
    /\ logFailed = {} /\ logged = 0 /\ halt = "no"

-----------------------------------------------------------------------------
(* A part of a message: text and tool parts and the end of a step are shown,
   the rest is not. *)
PartType(part) ==
    CASE part = "text" -> "agent_output"
      [] part = "tool" -> "tool_call"
      [] part = "step-finish" -> "step_finish"
      [] part = "other" -> "none"

Parts == {"text", "tool", "step-finish", "other"}

(* transformEvent: the frontend's type of an event, "none" when it is dropped. *)
FrontendType(event, part) ==
    CASE event = "session.start" -> "task_update"
      [] event = "session.idle" -> "agent_completed"
      [] event = "session.error" -> "agent_failed"
      [] event = "message.start" -> "agent_progress"
      [] event = "message.part.updated" -> PartType(part)
      [] event \in {"message.delta", "message.chunk"} -> "agent_output"
      [] event = "message.complete" -> "agent_message"
      [] event \in {"tool.execute.before", "tool.start"} -> "tool_call"
      [] event \in {"tool.execute.after", "tool.complete"} -> "tool_result"
      [] event = "tool.error" -> "tool_error"
      [] event \in {"file.read", "file.write", "file.edit"} -> "file_activity"
      [] event \in {"bash.start", "command.start"} -> "command_running"
      [] event \in {"bash.output", "command.output"} -> "command_output"
      [] event \in {"bash.complete", "command.complete"} -> "command_complete"
      [] event = "question.asked" -> "question_asked"
      [] event = "question.answered" -> "question_answered"
      [] OTHER -> "none"

Events == {"session.start", "session.idle", "session.error", "message.start",
           "message.part.updated", "message.delta", "message.complete", "tool.start",
           "tool.complete", "tool.error", "file.edit", "bash.start", "bash.output",
           "bash.complete", "question.asked", "question.answered",
           "server.heartbeat", "session.updated", "message.updated"}

(* saveForUIRecovery leaves out two types, neither of which transformEvent
   makes. *)
IsSaved(type) == type \notin {"content_chunk", "assistant_chunk"}

(* The forced flush of a full batch. *)
Forced(entries) ==
    /\ appending' = appending \cup {entries}
    /\ logQueue' = <<>>

(* queueActivityLog *)
QueueActivityLog ==
    LET entries == Append(logQueue, logged + 1)
    IN /\ logged' = logged + 1
       /\ IF Len(entries) >= MaxBatch
          THEN Forced(entries)
          ELSE logQueue' = entries /\ appending' = appending

(* handleEvent for a registered session, to its last call. *)
HandleEvent(event, part) ==
    /\ halt # "stopped"
    /\ logged < MaxLogs
    /\ FrontendType(event, part) # "none"
    /\ IF IsSaved(FrontendType(event, part))
       THEN QueueActivityLog
       ELSE UNCHANGED <<logQueue, appending, logged>>
    /\ UNCHANGED <<logRow, logFailed, halt>>

(* Mutant of TakeAll: the queue is cleared when the write is done. *)
Bug_ClearedLater == appending' = appending \cup {logQueue} /\ logQueue' = logQueue

(* Mutant of TakeAll: only full batches leave the queue. *)
Bug_OnlyFull ==
    /\ Len(logQueue) >= MaxBatch
    /\ appending' = appending \cup {logQueue} /\ logQueue' = <<>>

(* flushAllActivityLogs up to its await: the queue is emptied first. *)
TakeAll == appending' = appending \cup {logQueue} /\ logQueue' = <<>>

(* The timer fires. *)
FlushTimer ==
    /\ halt = "no" /\ logQueue # <<>>
    /\ TakeAll
    /\ UNCHANGED <<logRow, logFailed, logged, halt>>

(* activity_log || entries, in one UPDATE. *)
Appended(batch) == logRow \o batch

(* appendActivityLogs ends, in whatever order the pool runs them; a failure
   is logged. *)
EndAppend(batch, ok) ==
    /\ appending' = appending \ {batch}
    /\ IF ok THEN logRow' = Appended(batch) /\ logFailed' = logFailed
             ELSE logRow' = logRow /\ logFailed' = logFailed \cup ToSet(batch)
    /\ UNCHANGED <<logQueue, logged, halt>>

(* stop(): the timer is stopped and the queue is flushed. *)
Stop ==
    /\ halt = "no"
    /\ halt' = "flushing"
    /\ IF logQueue = <<>> THEN UNCHANGED <<logQueue, appending>> ELSE TakeAll
    /\ UNCHANGED <<logRow, logFailed, logged>>

(* The flush is over: what was queued meanwhile is cleared. *)
Stopped ==
    /\ halt = "flushing" /\ appending = {}
    /\ halt' = "stopped"
    /\ logQueue' = <<>>
    /\ UNCHANGED <<appending, logRow, logFailed, logged>>

LogNext ==
    \/ FlushTimer \/ Stop \/ Stopped
    \/ \E event \in Events : \E part \in Parts : HandleEvent(event, part)
    \/ \E batch \in appending : \E ok \in BOOLEAN : EndAppend(batch, ok)

LogFairness == WF_logVars(FlushTimer)

LogSpec == LogInit /\ [][LogNext]_logVars /\ LogFairness

-----------------------------------------------------------------------------
(* No entry is appended twice, although the timer, a full batch and stop()
   take entries from the same queue while writes are under way. *)
LoggedOnce == IsInjective(logRow)

(* Until shutdown an entry is queued, on its way, in the row, or its write
   failed: no flush drops what another one left. *)
LogIsComplete ==
    halt = "no" => \A n \in 1..logged :
        \/ n \in ToSet(logQueue) \cup ToSet(logRow) \cup logFailed
        \/ \E b \in appending : n \in ToSet(b)

(* Why: nothing is in two of the queue, the batches under way and the row, and
   nothing is in any that was not queued. *)
Apart(s, t) == ToSet(s) \cap ToSet(t) = {}
LogIsApart ==
    /\ IsInjective(logQueue) /\ Apart(logQueue, logRow)
    /\ \A b \in appending : IsInjective(b) /\ Apart(b, logQueue) /\ Apart(b, logRow)
    /\ \A b, c \in appending : b # c => Apart(b, c)
    /\ \A s \in appending \cup {logQueue, logRow} : ToSet(s) \subseteq 1..logged
    /\ logFailed \subseteq 1..logged

(* No entry stays in the queue: until shutdown it is emptied again and
   again, by the timer or by a full batch. *)
QueueDrains == []<>(logQueue = <<>> \/ halt # "no")

(* Every entry is written, and written once. *)
LogInv == LogTypeOK /\ LoggedOnce /\ LogIsComplete /\ LogIsApart
=============================================================================
