--------------------------- MODULE ActivityStream ---------------------------
(***************************************************************************)
(* ActivityStreamService: activities of a task on their way to the          *)
(* browsers.  Important ones are emitted at once, the others in batches by  *)
(* a timer; high-frequency ones that follow another of their kind too       *)
(* closely are dropped.  A bounded history serves clients that reconnect.   *)
(*                                                                         *)
(* Activities are numbered; time is the event "the throttle interval of a   *)
(* kind is over".                                                           *)
(***************************************************************************)
EXTENDS Naturals, FiniteSets, Sequences, SequencesExt, Functions

CONSTANTS
    HistorySize,    \* HISTORY_BUFFER_SIZE
    BatchLimit,     \* MAX_BATCH_SIZE
    MaxActivities   \* bound: activities accepted

ASSUME StreamConstants ==
    HistorySize \in Nat /\ BatchLimit \in Nat \ {0} /\ MaxActivities \in Nat

VARIABLES
    pending,    \* pendingActivities of the task
    timer,      \* a batch timer is set
    history,    \* historyBuffer of the task
    emitted,    \* the batches emitted, in order
    recent,     \* high-frequency kinds inside their throttle interval
    accepted,   \* how many activities were accepted
    urgent,     \* those of them that were emitted at once
    cleared     \* those that clearHistory dropped

streamVars == <<pending, timer, history, emitted, recent, accepted, urgent, cleared>>

HighFrequency == {"tool_call", "thinking", "output"}
HighPriority == {"phase_start", "phase_complete", "phase_failed", "story_start",
                 "story_complete", "story_failed", "approval_required",
                 "approval_received", "error"}

StreamTypeOK ==
    /\ pending \in Seq(1..MaxActivities) /\ timer \in BOOLEAN
    /\ history \in Seq(1..MaxActivities) /\ Len(history) <= HistorySize
    /\ emitted \in Seq(Seq(1..MaxActivities))
    /\ recent \subseteq HighFrequency
    /\ accepted \in 0..MaxActivities
    /\ urgent \cup cleared \subseteq 1..accepted

StreamInit ==
    /\ pending = <<>> /\ timer = FALSE /\ history = <<>> /\ emitted = <<>>
    /\ recent = {} /\ accepted = 0 /\ urgent = {} /\ cleared = {}

-----------------------------------------------------------------------------

(* addToHistory trims from the front. *)
Trimmed(h) ==
    IF Len(h) > HistorySize THEN SubSeq(h, Len(h) - HistorySize + 1, Len(h)) ELSE h

(* stream(), by any of the convenience methods: throttled or accepted. *)
StreamActivity(type) ==
    /\ accepted < MaxActivities
    /\ type \notin recent
    /\ recent' = IF type \in HighFrequency THEN recent \cup {type} ELSE recent
    /\ accepted' = accepted + 1
    /\ history' = Trimmed(Append(history, accepted + 1))
    /\ IF type \in HighPriority
       THEN /\ emitted' = Append(emitted, <<accepted + 1>>)
            /\ urgent' = urgent \cup {accepted + 1}
            /\ UNCHANGED <<pending, timer>>
       ELSE /\ pending' = Append(pending, accepted + 1)
            /\ timer' = TRUE
            /\ UNCHANGED <<emitted, urgent>>
    /\ UNCHANGED cleared

(* HIGH_FREQ_THROTTLE_MS after the last activity of the kind. *)
IntervalOver(type) ==
    /\ type \in recent
    /\ recent' = recent \ {type}
    /\ UNCHANGED <<pending, timer, history, emitted, accepted, urgent, cleared>>

(* How many times the timer's loop takes BatchLimit activities. *)
Rounds == Min({n \in 0..Len(pending) : Len(pending) <= n * BatchLimit})

(* The pending activities in batches of at most BatchLimit. *)
Chunked ==
    [i \in 1..Rounds |->
        SubSeq(pending, (i - 1) * BatchLimit + 1,
               IF i * BatchLimit < Len(pending) THEN i * BatchLimit ELSE Len(pending))]

(* The batch timer fires: batch after batch. *)
BatchTimer ==
    /\ timer
    /\ timer' = FALSE
    /\ emitted' = emitted \o Chunked
    /\ pending' = <<>>
    /\ UNCHANGED <<history, recent, accepted, urgent, cleared>>

(* Mutant of Emptied: flush() leaves the pending activities to the timer. *)
Bug_NotEmptied == pending

(* The pending activities after a flush. *)
Emptied == <<>>

(* flush(): everything at once; the timer stays set. *)
FlushStream ==
    /\ pending # <<>>
    /\ emitted' = Append(emitted, pending)
    /\ pending' = Emptied
    /\ UNCHANGED <<timer, history, recent, accepted, urgent, cleared>>

(* clearHistory, for a completed task. *)
ClearHistory ==
    /\ history # <<>>
    /\ history' = <<>>
    /\ cleared' = cleared \cup ToSet(pending)
    /\ pending' = <<>>
    /\ timer' = FALSE
    /\ UNCHANGED <<emitted, recent, accepted, urgent>>

StreamTypes == {"tool_call", "phase_start", "info"}

StreamNext ==
    \/ \E type \in StreamTypes : StreamActivity(type)
    \/ \E type \in HighFrequency : IntervalOver(type)
    \/ BatchTimer \/ FlushStream \/ ClearHistory

StreamSpec == StreamInit /\ [][StreamNext]_streamVars

-----------------------------------------------------------------------------
(* The activities that were emitted. *)
Sent == UNION {ToSet(emitted[b]) : b \in DOMAIN emitted}

(* An accepted activity is pending, emitted or was cleared, and only one of
   these, once: the timer and flush() do not emit the same activity. *)
EmittedOnce ==
    /\ \A b, c \in DOMAIN emitted : \A i \in DOMAIN emitted[b], j \in DOMAIN emitted[c] :
          emitted[b][i] = emitted[c][j] => b = c /\ i = j
    /\ Sent \cap (ToSet(pending) \cup cleared) = {}
    /\ ToSet(pending) \cap cleared = {}
    /\ Sent \cup ToSet(pending) \cup cleared = 1..accepted

(* Activities that go through the batches are emitted in the order they were
   made, whatever flush() and the timer do and whatever overtakes them. *)
BatchesKeepOrder ==
    \A b, c \in DOMAIN emitted : \A i \in DOMAIN emitted[b], j \in DOMAIN emitted[c] :
        /\ b < c \/ (b = c /\ i < j)
        /\ {emitted[b][i], emitted[c][j]} \cap urgent = {}
        => emitted[b][i] < emitted[c][j]

(* What waits is in the order it was made, is not urgent, and is younger than
   whatever went through the batches before. *)
WaitingIsYounger ==
    /\ \A i, j \in DOMAIN pending : i < j => pending[i] < pending[j]
    /\ \A j \in DOMAIN pending :
          /\ pending[j] \notin urgent
          /\ \A b \in DOMAIN emitted : \A i \in DOMAIN emitted[b] :
                emitted[b][i] \notin urgent => emitted[b][i] < pending[j]

(* The history is the newest activities without a gap, and what waits for the
   timer never waits without one. *)
HistoryIsNewest ==
    /\ \A i \in DOMAIN history : history[i] = accepted - Len(history) + i
    /\ pending # <<>> => timer

(* Every activity is emitted once and in order, and the newest are kept. *)
StreamInv ==
    /\ StreamTypeOK
    /\ EmittedOnce
    /\ BatchesKeepOrder
    /\ WaitingIsYounger
    /\ HistoryIsNewest
=============================================================================
