---------------------------- MODULE EventBridge -----------------------------
(***************************************************************************)
(* services/opencode/OpenCodeEventBridge.ts for the workspace directory of  *)
(* one task, with the phases that use it and the OpenCode server.           *)
(*                                                                         *)
(* A phase opens a session and registers it; the first registration starts  *)
(* the directory's event loop, the last unregistration stops it.  The phase *)
(* sends a prompt, then starts to listen for the idle event that says the   *)
(* agent has finished.  The event stream of a loop may break; the loop is   *)
(* started again by a timer.                                                *)
(*                                                                         *)
(* A subscription object is named by the order of its creation.  An event   *)
(* carries the number of the prompt it belongs to; an "idle" event has its  *)
(* session's id, a "note" stands for the events that have none.             *)
(***************************************************************************)
EXTENDS Naturals, FiniteSets, Sequences

CONSTANTS
    Sessions,       \* OpenCode sessions the phases of the task may open
    NoSession,      \* no session
    MaxPrompts,     \* bound: prompts sent
    MaxSubs,        \* bound: subscription objects created
    MaxDrops        \* bound: event streams that break

ASSUME BridgeConstants ==
    /\ IsFiniteSet(Sessions)
    /\ NoSession \notin Sessions
    /\ {MaxPrompts, MaxSubs, MaxDrops} \subseteq Nat

VARIABLES
    stamp,      \* session -> its place in activeSessions, 0 when not in it
    opened,     \* sessions created so far
    sub,        \* subscription objects: sessionCount, shouldStop, loop, stream
    cur,        \* the object in directorySubscriptions, 0 when there is none
    inUse,      \* the session the pipeline works with
    leaves,     \* the phase in progress will leave its session registered
    step,       \* where the phase is with its current prompt
    agent,      \* is the agent working on the last prompt?
    owner,      \* prompt -> the session it was sent to
    handled,    \* prompt -> how often its idle event was handled
    credited,   \* <<prompt, session>>: a note of the prompt went to the session
    early,      \* a wait was ended by the idle event of another prompt
    drops       \* streams broken so far

vars == <<stamp, opened, sub, cur, inUse, leaves, step, agent, owner, handled,
          credited, early, drops>>

Prompts == DOMAIN owner
Subs == DOMAIN sub
Active == {s \in Sessions : stamp[s] # 0}
Events == [kind : {"idle", "note"}, prompt : 1..MaxPrompts]
Loops == {"streaming", "retrying", "ended"}

TypeOK ==
    /\ stamp \in [Sessions -> Nat]
    /\ opened \subseteq Sessions
    /\ sub \in Seq([count : Nat, stop : BOOLEAN, loop : Loops, stream : Seq(Events)])
    /\ cur \in 0..Len(sub)
    /\ inUse \in Sessions \cup {NoSession}
    /\ leaves \in BOOLEAN
    /\ step \in {"ready", "sending", "sent", "waiting", "over"}
    /\ agent \in {"idle", "working"}
    /\ owner \in Seq(Sessions)
    /\ handled \in Seq(Nat) /\ Len(handled) = Len(owner)
    /\ credited \subseteq (1..MaxPrompts) \X Sessions
    /\ early \in BOOLEAN
    /\ drops \in 0..MaxDrops

Init ==
    /\ stamp = [s \in Sessions |-> 0] /\ opened = {}
    /\ sub = <<>> /\ cur = 0
    /\ inUse = NoSession /\ leaves = FALSE
    /\ step = "ready" /\ agent = "idle"
    /\ owner = <<>> /\ handled = <<>>
    /\ credited = {} /\ early = FALSE
    /\ drops = 0

-----------------------------------------------------------------------------

(* registerSession: count the session in, start a loop for the first one. *)
RegisterSession(s) ==
    /\ opened' = opened \cup {s}
    /\ stamp' = [stamp EXCEPT ![s] = Cardinality(opened) + 1]
    /\ IF cur # 0
       THEN sub' = [sub EXCEPT ![cur].count = @ + 1] /\ cur' = cur
       ELSE /\ Len(sub) < MaxSubs
            /\ sub' = Append(sub, [count |-> 1, stop |-> FALSE,
                                   loop |-> "streaming", stream |-> <<>>])
            /\ cur' = Len(sub) + 1

(* Mutant of UnregisterSessions: the loop is stopped by the first session
   that leaves the directory. *)
Bug_FirstStops(gone) ==
    LET left == gone \cap Active
    IN /\ stamp' = [s \in Sessions |-> IF s \in gone THEN 0 ELSE stamp[s]]
       /\ IF left = {} \/ cur = 0
          THEN UNCHANGED <<sub, cur>>
          ELSE /\ sub' = [sub EXCEPT ![cur].count = @ - Cardinality(left),
                                     ![cur].stop = TRUE]
               /\ cur' = IF sub[cur].count <= Cardinality(left) THEN 0 ELSE cur

(* unregisterSession for each session of a set: unknown ones are ignored,
   the last one stops the loop and drops the subscription. *)
UnregisterSessions(gone) ==
    LET left == gone \cap Active
    IN /\ stamp' = [s \in Sessions |-> IF s \in gone THEN 0 ELSE stamp[s]]
       /\ IF left = {} \/ cur = 0
          THEN UNCHANGED <<sub, cur>>
          ELSE IF sub[cur].count <= Cardinality(left)
               THEN /\ sub' = [sub EXCEPT ![cur].count = @ - Cardinality(left),
                                          ![cur].stop = TRUE]
                    /\ cur' = 0
               ELSE /\ sub' = [sub EXCEPT ![cur].count = @ - Cardinality(left)]
                    /\ cur' = cur

-----------------------------------------------------------------------------
(* The phases. *)

(* createSession and registerSession.  Analysis and Developer unregister
   their session at the end, Planning and TestGeneration (and an Analysis
   that throws) leave it. *)
OpenSession(s, stays) ==
    /\ inUse = NoSession
    /\ s \notin opened
    /\ RegisterSession(s)
    /\ inUse' = s /\ leaves' = stays /\ step' = "ready"
    /\ UNCHANGED <<agent, owner, handled, credited, early, drops>>

(* sendPrompt posts the prompt; the agent starts before the post returns. *)
SendPrompt ==
    /\ inUse # NoSession /\ step = "ready"
    /\ Len(owner) < MaxPrompts
    /\ step' = "sending" /\ agent' = "working"
    /\ owner' = Append(owner, inUse) /\ handled' = Append(handled, 0)
    /\ UNCHANGED <<stamp, opened, sub, cur, inUse, leaves, credited, early, drops>>

(* promptAsync resolves; waitForIdle still awaits a dynamic import. *)
PromptReturns ==
    /\ step = "sending"
    /\ step' = "sent"
    /\ UNCHANGED <<stamp, opened, sub, cur, inUse, leaves, agent, owner, handled,
                   credited, early, drops>>

(* waitForSessionIdle: the listeners are there from now on. *)
StartWaiting ==
    /\ step = "sent"
    /\ step' = "waiting"
    /\ UNCHANGED <<stamp, opened, sub, cur, inUse, leaves, agent, owner, handled,
                   credited, early, drops>>

(* The safety-net timeout: the phase gives up. *)
WaitTimesOut ==
    /\ step = "waiting"
    /\ step' = "over"
    /\ UNCHANGED <<stamp, opened, sub, cur, inUse, leaves, agent, owner, handled,
                   credited, early, drops>>

(* The phase is done with its session.  An agent that a timeout left working
   is not followed any further. *)
CloseSession ==
    /\ inUse # NoSession /\ step \in {"ready", "over"}
    /\ UnregisterSessions(IF leaves THEN {} ELSE {inUse})
    /\ inUse' = NoSession /\ step' = "ready"
    /\ agent' = "idle"
    /\ UNCHANGED <<opened, leaves, owner, handled, credited, early, drops>>

(* cleanupTaskTracking: unregisterTaskSessions at the end of execute(). *)
EndTask ==
    /\ inUse = NoSession
    /\ Active # {}
    /\ UnregisterSessions(Active)
    /\ UNCHANGED <<opened, inUse, leaves, step, agent, owner, handled, credited, early, drops>>

-----------------------------------------------------------------------------
(* The OpenCode server and the event loops. *)

(* An event goes to every open stream of the directory. *)
Publish(e) ==
    sub' = [i \in Subs |-> IF sub[i].loop = "streaming"
                           THEN [sub[i] EXCEPT !.stream = Append(@, e)]
                           ELSE sub[i]]

(* An event without a session id, at most one per prompt. *)
AgentNotes ==
    LET e == [kind |-> "note", prompt |-> Len(owner)]
    IN /\ agent = "working"
       /\ \A i \in Subs : \A j \in DOMAIN sub[i].stream : sub[i].stream[j] # e
       /\ \A s \in Sessions : <<Len(owner), s>> \notin credited
       /\ Publish(e)
       /\ UNCHANGED <<stamp, opened, cur, inUse, leaves, step, agent, owner, handled,
                      credited, early, drops>>

AgentFinishes ==
    /\ agent = "working"
    /\ agent' = "idle"
    /\ Publish([kind |-> "idle", prompt |-> Len(owner)])
    /\ UNCHANGED <<stamp, opened, cur, inUse, leaves, step, owner, handled, credited,
                   early, drops>>

(* Mutant of Oldest: the session that registered last. *)
Bug_Newest == CHOOSE s \in Active : \A t \in Active : stamp[s] >= stamp[t]

(* The session of an event without an id: the oldest active one. *)
Oldest == CHOOSE s \in Active : \A t \in Active : stamp[s] <= stamp[t]

(* handleEvent: events of unknown sessions are dropped; an idle event ends
   the wait of its session. *)
HandleEvent(e) ==
    LET hears == /\ e.kind = "idle" /\ owner[e.prompt] \in Active
                 /\ step = "waiting" /\ inUse = owner[e.prompt]
    IN /\ handled' = IF e.kind = "idle" /\ owner[e.prompt] \in Active
                     THEN [handled EXCEPT ![e.prompt] = @ + 1] ELSE handled
       /\ credited' = IF e.kind = "note" /\ Active # {}
                      THEN credited \cup {<<e.prompt, Oldest>>} ELSE credited
       /\ step' = IF hears THEN "ready" ELSE step
       /\ early' = (early \/ (hears /\ e.prompt # Len(owner)))

(* Mutant of LoopTurn: a loop that was told to stop still handles events. *)
Bug_HandlesAfterStop(i) ==
    /\ sub[i].loop = "streaming" /\ sub[i].stream # <<>>
    /\ sub' = [sub EXCEPT ![i].stream = Tail(@)]
    /\ HandleEvent(Head(sub[i].stream))
    /\ UNCHANGED <<stamp, opened, cur, inUse, leaves, agent, owner, drops>>

(* One turn of an event loop: a stopped loop ends at its next event and does
   not handle it. *)
LoopTurn(i) ==
    /\ sub[i].loop = "streaming" /\ sub[i].stream # <<>>
    /\ IF sub[i].stop
       THEN /\ sub' = [sub EXCEPT ![i].loop = "ended", ![i].stream = <<>>]
            /\ UNCHANGED <<handled, credited, step, early>>
       ELSE /\ sub' = [sub EXCEPT ![i].stream = Tail(@)]
            /\ HandleEvent(Head(sub[i].stream))
    /\ UNCHANGED <<stamp, opened, cur, inUse, leaves, agent, owner, drops>>

(* The finally block: reconnect in five seconds while sessions are left. *)
AfterBreak(i) == IF sub[i].count > 0 /\ ~sub[i].stop THEN "retrying" ELSE "ended"

(* The stream of a loop ends or throws; what it held is lost. *)
StreamBreaks(i) ==
    /\ drops < MaxDrops
    /\ sub[i].loop = "streaming"
    /\ drops' = drops + 1
    /\ sub' = [sub EXCEPT ![i].loop = AfterBreak(i), ![i].stream = <<>>]
    /\ UNCHANGED <<stamp, opened, cur, inUse, leaves, step, agent, owner, handled,
                   credited, early>>

(* The reconnect timer calls startDirectoryEventLoop, which resets
   shouldStop, also when the subscription was dropped meanwhile. *)
Reconnect(i) ==
    /\ sub[i].loop = "retrying"
    /\ sub' = [sub EXCEPT ![i].loop = "streaming", ![i].stop = FALSE]
    /\ UNCHANGED <<stamp, opened, cur, inUse, leaves, step, agent, owner, handled,
                   credited, early, drops>>

Next ==
    \/ \E s \in Sessions, stays \in BOOLEAN : OpenSession(s, stays)
    \/ SendPrompt \/ PromptReturns \/ StartWaiting \/ WaitTimesOut
    \/ CloseSession \/ EndTask
    \/ AgentNotes \/ AgentFinishes
    \/ \E i \in Subs : LoopTurn(i) \/ StreamBreaks(i) \/ Reconnect(i)

Spec == Init /\ [][Next]_vars

-----------------------------------------------------------------------------
(* sessionCount is the number of registered sessions of the directory,
   whatever order sessions are opened, closed or left behind in; the
   subscription exists exactly while there is one. *)
CountMatches ==
    IF cur = 0 THEN Active = {}
    ELSE sub[cur].count = Cardinality(Active) /\ Active # {}

(* A registered session is served: the loop of its directory runs or is about
   to reconnect, and has not been told to stop. *)
ActiveIsServed ==
    cur # 0 => ~sub[cur].stop /\ sub[cur].loop \in {"streaming", "retrying"}

(* A session is registered once, in the order of the stamps; the one in use
   is the last of them. *)
RegisteredInOrder ==
    /\ Active \subseteq opened
    /\ \A s \in Active : stamp[s] <= Cardinality(opened)
    /\ \A s, t \in Active : stamp[s] = stamp[t] => s = t
    /\ inUse # NoSession => inUse \in Active /\ stamp[inUse] = Cardinality(opened)

(* Prompts went to opened sessions and events are those of such prompts; a
   phase that is not ready, and an agent at work, are about the last prompt,
   and it is of the session in use. *)
LastPromptIsInUse ==
    /\ Len(owner) <= MaxPrompts
    /\ \A n \in 1..Len(owner) : owner[n] \in opened
    /\ \A i \in Subs : \A j \in 1..Len(sub[i].stream) :
          sub[i].stream[j].prompt \in 1..Len(owner)
    /\ step # "ready" \/ agent = "working" =>
          owner # <<>> /\ inUse # NoSession /\ owner[Len(owner)] = inUse

(* Of a directory whose streams never broke: loops that lost their
   subscription are told to stop and stay so; what the current loop still
   has to handle is each idle event once, none of an earlier prompt of the
   session in use, and nothing of another session unless one is left
   registered. *)
StableStreams ==
    /\ \A i \in Subs : sub[i].loop # "retrying" /\ (i # cur => sub[i].stop)
    /\ agent = "working" => step # "ready" /\ handled[Len(owner)] = 0
    /\ cur # 0 =>
          LET q == sub[cur].stream
          IN /\ \A j \in 1..Len(q) : q[j].kind = "idle" =>
                   /\ handled[q[j].prompt] = 0
                   /\ \A k \in 1..Len(q) : q[k] = q[j] => k = j
                   /\ owner[q[j].prompt] = inUse =>
                         q[j].prompt = Len(owner) /\ step # "ready"
                   /\ agent = "working" => q[j].prompt # Len(owner)
             /\ \A j \in 1..Len(q) :
                   inUse \notin {NoSession, owner[q[j].prompt]} => Active # {inUse}

(* Notes are credited to sessions that were opened. *)
CreditedIsOpen == \A c \in credited : c[1] \in 1..Len(owner) /\ c[2] \in opened

(* While no stream breaks, an event is handled once (its cost is counted
   once), and a wait ends with the idle event of its own prompt. *)
StableIsExact ==
    drops = 0 => ~early /\ \A n \in Prompts : handled[n] <= 1

(* While no stream breaks, an event without a session id may be taken for one
   of a session that an earlier phase left registered, but never for one of
   the session in use: the phase that works is not disturbed by what belongs
   to another.  A loop that reconnects after its subscription was dropped
   hands on events of sessions that are gone, so it can break this. *)
NotesSpareTheWaiter ==
    drops = 0 => \A c \in credited : c[2] = inUse => owner[c[1]] = inUse

(* The bookkeeping of the bridge, which registerSession, unregisterSession, the
   loops and their timers must keep together. *)
BridgeInv ==
    /\ TypeOK /\ CountMatches /\ ActiveIsServed
    /\ RegisteredInOrder /\ LastPromptIsInUse /\ CreditedIsOpen
    /\ drops = 0 => StableStreams

-----------------------------------------------------------------------------
(* What the code's own words promise and the code does not keep. *)

(* A loop is only started again "if there are still sessions for this
   directory": no event is handled by two loops. *)
HandledOnce == \A n \in Prompts : handled[n] <= 1

(* Completion is tracked by events: while a phase waits, the agent works or
   its idle event is on the way. *)
WaiterIsServed ==
    step = "waiting" /\ drops = 0 =>
        \/ agent = "working"
        \/ \E i \in Subs : \E j \in DOMAIN sub[i].stream :
              sub[i].stream[j] = [kind |-> "idle", prompt |-> Len(owner)]

(* Events without a session id are not routed to an old session. *)
NotesReachTheirSession == \A c \in credited : c[2] = owner[c[1]]
=============================================================================
