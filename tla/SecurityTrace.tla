---------------------------- MODULE SecurityTrace ----------------------------
(***************************************************************************)
(* What the system knows about the security of a task and where it goes:    *)
(* AgentSpy collects findings in memory, GlobalScanPhaseV2 adds the last    *)
(* ones, and when the execution ends SentinentalWebhook turns them into     *)
(* records, writes them to PostgreSQL and sends them in batches to the      *)
(* training server.  Nobody awaits that end, so the next execution of the   *)
(* task may already collect findings, and batches may overlap.              *)
(*                                                                         *)
(* The pattern tables are abstracted to "an event or file yields a finding  *)
(* of some severity".  Findings and records are numbered.                   *)
(***************************************************************************)
EXTENDS Naturals, FiniteSets, Sequences, SequencesExt

CONSTANTS
    SpySessions,    \* sessions of the task, in which findings are made
    Severities,     \* severities of findings
    Reported,       \* the severities at or above minSeverity
    BatchSize,      \* records that trigger a flush
    MaxFindings,    \* bound: findings made
    MaxPushes,      \* bound: executions that end
    MaxFlights,     \* bound: requests to the training server
    MaxSpyCrashes   \* bound: crashes of the server

ASSUME SecurityTraceConstants ==
    /\ Reported \subseteq Severities
    /\ {BatchSize, MaxFindings, MaxPushes, MaxFlights, MaxSpyCrashes} \subseteq Nat

VARIABLES
    found,      \* agentSpy.vulnerabilities of the task, by number
    counts,     \* agentSpy.metrics of the task: bySeverity
    made,       \* findings made so far, as [session, severity] by number
    scan,       \* the global scan: "idle", "running", "ok" or "failed"
    pushes,     \* push() calls: groups left, the step, the flight awaited
    records,    \* training records: findings and row ("none", "unsent" or "sent")
    buffer,     \* records waiting for a flush
    flights,    \* requests to the training server
    received,   \* record -> how often the training server took it
    buffered,   \* records that were put into the buffer (history)
    doubted,    \* records of a request that failed (history)
    enabled,    \* config.enabled, and with it the flush timer
    spyCrashes  \* crashes so far

spyVars == <<found, counts, made, scan, pushes, records, buffer, flights,
             received, buffered, doubted, enabled, spyCrashes>>

TraceRecords == DOMAIN records
FindingNumbers == DOMAIN made
FlightOver == [ids |-> <<>>, step |-> "done"]      \* a request that is over
OnTheWay(r, f) == flights[f].step = "sent" /\ r \in ToSet(flights[f].ids)

Findings == [session : SpySessions, severity : Severities]
Pushes == [groups : Seq(SUBSET (1..MaxFindings)), step : {"create", "buffer", "flush", "over"},
           record : Nat, flight : Nat]
TrainingRows == [findings : SUBSET (1..MaxFindings), row : {"none", "unsent", "sent"}]
Flights == [ids : Seq(Nat), step : {"sent", "ok", "failed", "done"}]

SpyTypeOK ==
    /\ made \in Seq(Findings) /\ Len(made) <= MaxFindings
    /\ found \subseteq FindingNumbers
    /\ counts \in [Severities -> 0..MaxFindings]
    /\ scan \in {"idle", "running", "ok", "failed"}
    /\ pushes \in Seq(Pushes)
    /\ records \in Seq(TrainingRows)
    /\ buffer \in Seq(Nat)
    /\ flights \in Seq(Flights)
    /\ received \in Seq(Nat) /\ Len(received) = Len(records)
    /\ enabled \in BOOLEAN
    /\ spyCrashes \in 0..MaxSpyCrashes

SpyInit ==
    /\ found = {} /\ counts = [s \in Severities |-> 0]
    /\ made = <<>>
    /\ scan = "idle"
    /\ pushes = <<>> /\ records = <<>>
    /\ buffer = <<>> /\ flights = <<>>
    /\ received = <<>> /\ buffered = {} /\ doubted = {}
    /\ enabled \in BOOLEAN
    /\ spyCrashes = 0

-----------------------------------------------------------------------------
(* AgentSpy. *)

(* createVulnerability, and its place in the list and the metrics. *)
StoreFinding(session, severity) ==
    /\ Len(made) < MaxFindings
    /\ made' = Append(made, [session |-> session, severity |-> severity])
    /\ found' = found \cup {Len(made) + 1}
    /\ counts' = [counts EXCEPT ![severity] = @ + 1]

NotSpy == <<pushes, records, buffer, flights, received, buffered, doubted, enabled, spyCrashes>>

(* analyze() of a tool's arguments, of its output or of a message: a pattern
   matches.  PhaseTracker.trackEvent, its only caller, is exported and not
   called by any phase yet. *)
Analyze(session, severity) ==
    /\ StoreFinding(session, severity)
    /\ UNCHANGED <<scan, NotSpy>>

(* registerExternalVulnerability, for TestGeneration's security edge cases. *)
RegisterExternal(session, severity) ==
    /\ StoreFinding(session, severity)
    /\ UNCHANGED <<scan, NotSpy>>

(* executeGlobalScanPhase: repository after repository. *)
StartScan ==
    /\ scan # "running"
    /\ scan' = "running"
    /\ UNCHANGED <<found, counts, made, NotSpy>>

(* scanWorkspace finds something in a file of the repository at hand. *)
ScanFile(session, severity) ==
    /\ scan = "running"
    /\ StoreFinding(session, severity)
    /\ UNCHANGED <<scan, NotSpy>>

(* scanAllRepositories returns what all repositories had. *)
EndScan ==
    /\ scan = "running"
    /\ scan' = "ok"
    /\ UNCHANGED <<found, counts, made, NotSpy>>

(* It throws: the phase returns an empty scan, and what was found stays with
   the spy. *)
ScanFails ==
    /\ scan = "running"
    /\ scan' = "failed"
    /\ UNCHANGED <<found, counts, made, NotSpy>>

-----------------------------------------------------------------------------
(* The end of execute(). *)

(* push(): the findings by session, without those below minSeverity.  An
   empty group makes no record. *)
Groups(findings) ==
    SetToSeq({{f \in findings : made[f].session = s /\ made[f].severity \in Reported}
              : s \in SpySessions} \ {{}})

(* agentSpy.clear. *)
ClearFindings == found' = {} /\ counts' = [s \in Severities |-> 0]

(* push() up to its first await, then cleanupTaskTracking. *)
EndTask ==
    /\ scan \in {"ok", "failed"}
    /\ Len(pushes) < MaxPushes
    /\ pushes' = IF Groups(found) = <<>> THEN pushes
                 ELSE Append(pushes, [groups |-> Groups(found), step |-> "create",
                                      record |-> 0, flight |-> 0])
    /\ ClearFindings
    /\ scan' = "idle"
    /\ UNCHANGED <<made, records, buffer, flights, received, buffered, doubted,
                   enabled, spyCrashes>>

(* SentinentalRepository.create: a row that was not sent yet. *)
TrainingRow(findings, persisted) ==
    [findings |-> findings, row |-> IF persisted THEN "unsent" ELSE "none"]

(* The record of the first group; a failure of the database is logged. *)
CreateRecord(p, persisted) ==
    /\ pushes[p].step = "create"
    /\ records' = Append(records, TrainingRow(Head(pushes[p].groups), persisted))
    /\ received' = Append(received, 0)
    /\ pushes' = [pushes EXCEPT ![p].step = "buffer", ![p].record = Len(records) + 1]
    /\ UNCHANGED <<found, counts, made, scan, buffer, flights, buffered, doubted,
                   enabled, spyCrashes>>

(* The push goes on with its next group. *)
NextGroup(p, flight) ==
    pushes' = [pushes EXCEPT ![p].groups = Tail(@), ![p].flight = flight, ![p].record = 0,
                             ![p].step = IF flight # 0 THEN "flush"
                                         ELSE IF Len(pushes[p].groups) > 1 THEN "create"
                                         ELSE "over"]

(* flush() up to its await: the whole buffer in one request. *)
SendBatch(ids) ==
    /\ Len(flights) < MaxFlights
    /\ flights' = Append(flights, [ids |-> ids, step |-> "sent"])

(* Buffered for HTTP when enabled; a full buffer is flushed. *)
BufferRecord(p) ==
    LET filled == Append(buffer, pushes[p].record)
    IN /\ pushes[p].step = "buffer"
       /\ IF ~enabled
          THEN UNCHANGED <<buffer, flights>> /\ NextGroup(p, 0)
          ELSE IF Len(filled) < BatchSize
          THEN buffer' = filled /\ flights' = flights /\ NextGroup(p, 0)
          ELSE SendBatch(filled) /\ buffer' = <<>> /\ NextGroup(p, Len(flights) + 1)
       /\ buffered' = IF enabled THEN buffered \cup {pushes[p].record} ELSE buffered
       /\ UNCHANGED <<found, counts, made, scan, records, received, doubted,
                      enabled, spyCrashes>>

(* The flush the push awaited is over. *)
AfterFlush(p) ==
    /\ pushes[p].step = "flush"
    /\ flights[pushes[p].flight].step = "done"
    /\ pushes' = [pushes EXCEPT ![p].step = IF pushes[p].groups # <<>> THEN "create" ELSE "over"]
    /\ UNCHANGED <<found, counts, made, scan, records, buffer, flights, received,
                   buffered, doubted, enabled, spyCrashes>>

-----------------------------------------------------------------------------
(* The requests to the training server. *)

NotFlights == <<found, counts, made, scan, pushes, buffered, spyCrashes>>

(* The flush timer fires. *)
TimerFlush ==
    /\ enabled /\ buffer # <<>>
    /\ SendBatch(buffer)
    /\ buffer' = <<>>
    /\ UNCHANGED <<NotFlights, records, received, doubted, enabled>>

(* Mutant of Rebuffer: a failed batch replaces the buffer. *)
Bug_Overwrites(batch) == buffer' = batch

(* The batch goes back to the front of the buffer. *)
Rebuffer(batch) == buffer' = batch \o buffer

(* What an answer does to the buffer. *)
BufferAfter(f, ok) ==
    IF ok THEN buffer' = buffer ELSE Rebuffer(flights[f].ids)

(* The answer: the server took the batch and says so; or the request failed,
   with the batch taken or not. *)
FlightAnswer(f, taken, ok) ==
    /\ flights[f].step = "sent"
    /\ ok => taken
    /\ received' = [r \in TraceRecords |-> IF taken /\ r \in ToSet(flights[f].ids)
                                     THEN received[r] + 1 ELSE received[r]]
    /\ BufferAfter(f, ok)
    /\ doubted' = IF ok THEN doubted ELSE doubted \cup ToSet(flights[f].ids)
    /\ flights' = [flights EXCEPT ![f].step = IF ok THEN "ok" ELSE "failed"]
    /\ UNCHANGED <<NotFlights, records, enabled>>

(* The row of a record after markSent or markSendFailed, which only counts. *)
MarkedAs(r, step) ==
    IF r.row # "none" /\ step = "ok" THEN [r EXCEPT !.row = "sent"] ELSE r

(* markSent or markSendFailed; a failure is logged. *)
MarkRows(f, written) ==
    /\ flights[f].step \in {"ok", "failed"}
    /\ records' = [r \in TraceRecords |-> IF written /\ r \in ToSet(flights[f].ids)
                                    THEN MarkedAs(records[r], flights[f].step)
                                    ELSE records[r]]
    /\ flights' = [flights EXCEPT ![f] = FlightOver]
    /\ UNCHANGED <<NotFlights, buffer, received, doubted, enabled>>

(* The process dies: what is in memory is gone. *)
SpyCrash ==
    /\ spyCrashes < MaxSpyCrashes
    /\ spyCrashes' = spyCrashes + 1
    /\ found' = {} /\ counts' = [s \in Severities |-> 0]
    /\ scan' = "idle"
    /\ pushes' = [p \in DOMAIN pushes |-> [groups |-> <<>>, step |-> "over",
                                            record |-> 0, flight |-> 0]]
    /\ flights' = [f \in DOMAIN flights |-> FlightOver]
    /\ buffer' = <<>>
    /\ UNCHANGED <<made, records, received, buffered, doubted, enabled>>

-----------------------------------------------------------------------------
SpyStep ==
    \E s \in SpySessions :
        \E severity \in Severities :
            Analyze(s, severity) \/ RegisterExternal(s, severity) \/ ScanFile(s, severity)

ScanStep == StartScan \/ EndScan \/ ScanFails \/ EndTask

PushStep ==
    \E p \in DOMAIN pushes :
        \/ \E persisted \in BOOLEAN : CreateRecord(p, persisted)
        \/ BufferRecord(p) \/ AfterFlush(p)

FlightStep ==
    \/ TimerFlush
    \/ \E f \in DOMAIN flights :
          \/ \E taken, ok \in BOOLEAN : FlightAnswer(f, taken, ok)
          \/ \E written \in BOOLEAN : MarkRows(f, written)

SpyNext ==
    \/ SpyStep \/ ScanStep \/ PushStep \/ FlightStep
    \/ SpyCrash

SpySpec == SpyInit /\ [][SpyNext]_spyVars

-----------------------------------------------------------------------------
(* The metrics agree with the list they summarise, whichever of the four
   sources a finding comes from and whatever was cleared before. *)
MetricsAgree ==
    \A s \in Severities : counts[s] = Cardinality({f \in found : made[f].severity = s})

(* A group that a push still turns into a record: at the step "buffer" its first
   group already is one. *)
Ahead(p, i) == i \in DOMAIN pushes[p].groups /\ (pushes[p].step = "buffer" => i > 1)

(* A finding becomes part of one record only, although an execution may end
   while the push of the one before is still going on: what the spy holds, what
   any push still groups and what the records hold are apart. *)
FindingInOneRecord ==
    /\ \A r, q \in TraceRecords : r # q => records[r].findings \cap records[q].findings = {}
    /\ \A r \in TraceRecords : records[r].findings \subseteq FindingNumbers \ found
    /\ \A p \in DOMAIN pushes : \A i \in DOMAIN pushes[p].groups :
          /\ pushes[p].groups[i] \subseteq FindingNumbers \ found
          /\ Ahead(p, i) => \A r \in TraceRecords : pushes[p].groups[i] \cap records[r].findings = {}
          /\ \A q \in DOMAIN pushes : \A j \in DOMAIN pushes[q].groups :
                p # q \/ i # j => pushes[p].groups[i] \cap pushes[q].groups[j] = {}

(* A push that creates or buffers has a group; one that buffers has a record of
   its own that was not buffered yet. *)
PushHasItsRecord ==
    \A p \in DOMAIN pushes :
        /\ pushes[p].step \in {"create", "buffer"} => pushes[p].groups # <<>>
        /\ pushes[p].step = "buffer" =>
              /\ pushes[p].record \in TraceRecords \ buffered
              /\ \A q \in DOMAIN pushes :
                    q # p /\ pushes[q].step = "buffer" => pushes[q].record # pushes[p].record

(* Only records that were put into the buffer are in it, in requests or taken. *)
BufferedFirst ==
    /\ buffered \subseteq TraceRecords
    /\ ToSet(buffer) \subseteq buffered
    /\ \A f \in DOMAIN flights : ToSet(flights[f].ids) \subseteq buffered
    /\ \A r \in TraceRecords : received[r] > 0 => r \in buffered

(* A row says sent only if the training server took the record, and so does a
   request. *)
SentWasReceived ==
    /\ \A r \in TraceRecords : records[r].row = "sent" => received[r] > 0
    /\ \A f \in DOMAIN flights : flights[f].step = "ok" =>
          \A r \in ToSet(flights[f].ids) : received[r] > 0

(* Overlapping flushes lose nothing: without a crash a record that was
   buffered is in the buffer, on its way, or was taken. *)
BufferedIsKept ==
    spyCrashes = 0 =>
        \A r \in buffered :
            r \in ToSet(buffer) \/ received[r] > 0 \/ \E f \in DOMAIN flights : OnTheWay(r, f)

(* The training server takes a record twice only if a request with it failed:
   flushes of the timer and of a full buffer never send the same record. *)
TakenOnce ==
    \A r \in TraceRecords \ doubted :
        /\ received[r] <= 1
        /\ r \in ToSet(buffer) => received[r] = 0 /\ \A f \in DOMAIN flights : ~OnTheWay(r, f)
        /\ \A f \in DOMAIN flights : OnTheWay(r, f) =>
              received[r] = 0 /\ \A g \in DOMAIN flights : OnTheWay(r, g) => g = f

(* Findings and their records agree, in the spy, the buffer, the rows and the
   training server. *)
SpyInv ==
    /\ SpyTypeOK
    /\ MetricsAgree
    /\ FindingInOneRecord
    /\ PushHasItsRecord
    /\ BufferedFirst
    /\ SentWasReceived
    /\ BufferedIsKept
    /\ TakenOnce
=============================================================================
