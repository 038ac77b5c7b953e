------------------------- MODULE EventBridge_proofs -------------------------
(***************************************************************************)
(* The bookkeeping of the event bridge, for every set of sessions and every *)
(* number of prompts, subscriptions and broken streams: BridgeInv is        *)
(* inductive, and StableIsExact and NotesSpareTheWaiter are invariants      *)
(* relative to it.                                                          *)
(***************************************************************************)
EXTENDS EventBridge, FiniteSetTheorems, WellFoundedInduction, TLAPS

Sub == [count : Nat, stop : BOOLEAN, loop : Loops, stream : Seq(Events)]

(* The bounds are natural numbers, and sets of sessions are finite. *)
LEMMA Constants ==
    /\ MaxPrompts \in Nat /\ MaxSubs \in Nat /\ MaxDrops \in Nat
    /\ \A S \in SUBSET Sessions : IsFiniteSet(S) /\ Cardinality(S) \in Nat
  <1>1. MaxPrompts \in Nat /\ MaxSubs \in Nat /\ MaxDrops \in Nat
    BY BridgeConstants
  <1>2. ASSUME NEW S \in SUBSET Sessions
        PROVE  IsFiniteSet(S) /\ Cardinality(S) \in Nat
    BY BridgeConstants, FS_Subset, FS_CardinalityType
  <1> QED
    BY <1>1, <1>2

(* What a loop takes from its stream and what it leaves there. *)
LEMMA HeadTail ==
  ASSUME NEW T, NEW q \in Seq(T), q # <<>>
  PROVE  /\ Head(q) = q[1] /\ Head(q) \in T
         /\ Tail(q) \in Seq(T)
         /\ Len(q) \in Nat /\ Len(q) > 0 /\ Len(Tail(q)) = Len(q) - 1
         /\ \A j \in 1..Len(Tail(q)) : j + 1 \in 1..Len(q) /\ Tail(q)[j] = q[j + 1]
  OBVIOUS

(* What a stream holds after an event was published. *)
LEMMA AppendEvent ==
  ASSUME NEW T, NEW q \in Seq(T), NEW e \in T
  PROVE  /\ Append(q, e) \in Seq(T)
         /\ Len(q) \in Nat /\ Len(Append(q, e)) = Len(q) + 1
         /\ \A j \in 1..Len(q) : Append(q, e)[j] = q[j]
         /\ Append(q, e)[Len(q) + 1] = e
  OBVIOUS

(* A subscription object replaced by another version of itself. *)
LEMMA ReplaceSub ==
  ASSUME NEW T, NEW q \in Seq(T), NEW i \in 1..Len(q), NEW r \in T
  PROVE  /\ [q EXCEPT ![i] = r] \in Seq(T)
         /\ Len([q EXCEPT ![i] = r]) = Len(q)
         /\ \A j \in 1..Len(q) : [q EXCEPT ![i] = r][j] = IF j = i THEN r ELSE q[j]
  OBVIOUS

(* activeSessions.values().next() finds the session registered first. *)
LEMMA OldestIsLeast ==
  ASSUME stamp \in [Sessions -> Nat], Active # {}
  PROVE  Oldest \in Active /\ \A t \in Active : stamp[Oldest] <= stamp[t]
  <1> DEFINE Stamps == {stamp[s] : s \in Active}
  <1>1. Stamps \subseteq Nat /\ Stamps # {}
    BY DEF Active
  <1> DEFINE Less == {p \in Nat \X Nat : p[1] < p[2]}
  <1>2. PICK n \in Stamps : \A m \in Stamps : ~ (<<m, n>> \in Less)
    <2>1. IsWellFoundedOn(Less, Nat)
      BY NatLessThanWellFounded DEF OpToRel
    <2> HIDE DEF Stamps, Less
    <2> QED
      BY <1>1, <2>1, WFMin
  <1>3. ASSUME NEW m \in Stamps
        PROVE  n <= m
    <2>1. ~ (<<m, n>> \in Less)
      BY <1>2
    <2>2. m \in Nat /\ n \in Nat
      BY <1>1
    <2> HIDE DEF Stamps
    <2> QED
      BY <2>1, <2>2
  <1>4. \E s \in Active : \A t \in Active : stamp[s] <= stamp[t]
    BY <1>3
  <1> QED
    BY <1>4 DEF Oldest

(* What the streams hold: events of prompts that were sent. *)
LEMMA StreamFacts ==
  ASSUME BridgeInv
  PROVE  /\ sub \in Seq(Sub) /\ Len(sub) \in Nat /\ Subs = 1..Len(sub)
         /\ Len(owner) \in Nat
         /\ cur # 0 => cur \in 1..Len(sub)
         /\ \A i \in 1..Len(sub) :
               /\ sub[i] \in Sub /\ sub[i].stream \in Seq(Events)
               /\ \A j \in 1..Len(sub[i].stream) :
                     LET e == sub[i].stream[j]
                     IN /\ e \in Events /\ e.prompt \in 1..Len(owner)
                        /\ owner[e.prompt] \in Sessions
                        /\ owner[e.prompt] \in opened
                        /\ owner[e.prompt] # NoSession
  <1>1. TypeOK /\ LastPromptIsInUse
    BY DEF BridgeInv
  <1>2. /\ sub \in Seq(Sub) /\ cur \in 0..Len(sub) /\ owner \in Seq(Sessions)
        /\ opened \subseteq Sessions
    BY <1>1 DEF TypeOK, Sub
  <1>3. /\ Len(sub) \in Nat /\ Subs = 1..Len(sub) /\ Len(owner) \in Nat
        /\ cur # 0 => cur \in 1..Len(sub)
    BY <1>2 DEF Subs
  <1>4. ASSUME NEW i \in 1..Len(sub)
        PROVE  sub[i] \in Sub /\ sub[i].stream \in Seq(Events)
    <2>1. sub[i] \in Sub
      BY <1>2
    <2> QED
      BY <2>1 DEF Sub
  <1>5. ASSUME NEW i \in 1..Len(sub), NEW j \in 1..Len(sub[i].stream)
        PROVE  LET e == sub[i].stream[j]
               IN e \in Events /\ e.prompt \in 1..Len(owner) /\ owner[e.prompt] \in opened
    BY <1>1, <1>3, <1>4 DEF LastPromptIsInUse
  <1>6. \A s \in opened : s \in Sessions /\ s # NoSession
    BY <1>2, BridgeConstants
  <1> QED
    BY <1>2, <1>3, <1>4, <1>5, <1>6

(* unregisterSession, for each of a set of sessions: they leave
   activeSessions, and the count, the loop and the subscription follow. *)
LEMMA UnregisterFacts ==
  ASSUME BridgeInv, NEW gone \in SUBSET Sessions, UnregisterSessions(gone)
  PROVE  /\ stamp' \in [Sessions -> Nat]
         /\ Active' = Active \ gone
         /\ \A s \in Active' : stamp'[s] = stamp[s]
         /\ sub' \in Seq(Sub) /\ Len(sub') = Len(sub)
         /\ \A i \in 1..Len(sub) : /\ sub'[i].loop = sub[i].loop
                                   /\ sub'[i].stream = sub[i].stream
                                   /\ sub[i].stop => sub'[i].stop
         /\ cur' = 0 \/ cur' = cur
         /\ cur # 0 /\ cur' = 0 => sub'[cur].stop
         /\ CountMatches' /\ ActiveIsServed'
  <1> DEFINE left == gone \cap Active
  <1>1. /\ stamp \in [Sessions -> Nat] /\ sub \in Seq(Sub) /\ cur \in 0..Len(sub)
        /\ CountMatches /\ ActiveIsServed
    BY DEF BridgeInv, TypeOK, Sub
  <1>2. stamp' = [s \in Sessions |-> IF s \in gone THEN 0 ELSE stamp[s]]
    BY DEF UnregisterSessions
  <1>3. /\ stamp' \in [Sessions -> Nat]
        /\ Active' = Active \ gone
        /\ \A s \in Active' : stamp'[s] = stamp[s]
    BY <1>1, <1>2 DEF Active
  <1>4. /\ Active \in SUBSET Sessions /\ left \in SUBSET Active
        /\ Active' = Active \ left
    BY <1>3 DEF Active
  <1>5. /\ Cardinality(Active) \in Nat /\ Cardinality(left) \in Nat
        /\ Cardinality(left) <= Cardinality(Active)
        /\ Cardinality(Active') = Cardinality(Active) - Cardinality(left)
        /\ Cardinality(left) = Cardinality(Active) <=> Active' = {}
    <2>1. IsFiniteSet(Active) /\ IsFiniteSet(left)
      BY <1>4, Constants
    <2>2. Active \cap left = left
      BY <1>4
    <2> HIDE DEF left
    <2>3. Cardinality(left) <= Cardinality(Active)
      BY <1>4, <2>1, FS_Subset
    <2>4. Cardinality(Active \ left) = Cardinality(Active) - Cardinality(left)
      BY <2>1, <2>2, FS_Difference
    <2>5. Cardinality(Active \ left) = 0 <=> Active \ left = {}
      BY <2>1, FS_Difference, FS_EmptySet
    <2> QED
      BY <1>4, <2>1, <2>3, <2>4, <2>5, FS_CardinalityType
  <1>6. CASE left = {} \/ cur = 0
    <2>1. UNCHANGED <<sub, cur>> /\ Active' = Active
      BY <1>4, <1>6, <1>1 DEF UnregisterSessions, CountMatches
    <2> QED
      BY <1>1, <1>3, <2>1 DEF CountMatches, ActiveIsServed
  <1>7. CASE left # {} /\ cur # 0
    <2> DEFINE n == Cardinality(left)
    <2> HIDE DEF left
    <2>a. cur \in 1..Len(sub) /\ sub[cur] \in Sub
      BY <1>1, <1>7
    <2>1. n \in Nat /\ sub[cur].count \in Nat /\ sub[cur].count - n \in Nat
      BY <1>1, <1>5, <1>7, <2>a DEF CountMatches, Sub
    <2>2. CASE sub[cur].count <= n
      <3>1. /\ sub' = [sub EXCEPT ![cur].count = @ - n, ![cur].stop = TRUE]
            /\ cur' = 0
        BY <1>7, <2>2 DEF UnregisterSessions, left
      <3> HIDE DEF n
      <3> DEFINE r == [sub[cur] EXCEPT !.count = @ - n, !.stop = TRUE]
      <3>a. /\ r \in Sub /\ r.stop
            /\ r.loop = sub[cur].loop /\ r.stream = sub[cur].stream
        BY <2>a, <2>1 DEF Sub
      <3>b. sub' = [sub EXCEPT ![cur] = r]
        BY <3>1
      <3> HIDE DEF r
      <3>2. Active' = {}
        BY <1>1, <1>5, <1>7, <2>2 DEF n, CountMatches
      <3>3. sub' \in Seq(Sub) /\ Len(sub') = Len(sub)
        BY <1>1, <2>a, <3>a, <3>b, ReplaceSub
      <3>4. \A i \in 1..Len(sub) : /\ sub'[i].loop = sub[i].loop
                                   /\ sub'[i].stream = sub[i].stream
                                   /\ sub[i].stop => sub'[i].stop
        BY <1>1, <2>a, <3>a, <3>b, ReplaceSub
      <3>5. sub'[cur].stop
        BY <1>1, <2>a, <3>a, <3>b, ReplaceSub
      <3> QED
        BY <1>3, <3>1, <3>2, <3>3, <3>4, <3>5 DEF CountMatches, ActiveIsServed
    <2>3. CASE ~ (sub[cur].count <= n)
      <3>1. sub' = [sub EXCEPT ![cur].count = @ - n] /\ cur' = cur
        BY <1>7, <2>3 DEF UnregisterSessions, left
      <3> HIDE DEF n
      <3> DEFINE r == [sub[cur] EXCEPT !.count = @ - n]
      <3>a. /\ r \in Sub /\ r.stop = sub[cur].stop /\ r.count = sub[cur].count - n
            /\ r.loop = sub[cur].loop /\ r.stream = sub[cur].stream
        BY <2>a, <2>1 DEF Sub
      <3>b. sub' = [sub EXCEPT ![cur] = r]
        BY <3>1
      <3> HIDE DEF r
      <3>2. sub' \in Seq(Sub) /\ Len(sub') = Len(sub)
        BY <1>1, <2>a, <3>a, <3>b, ReplaceSub
      <3>3. \A i \in 1..Len(sub) : /\ sub'[i].loop = sub[i].loop
                                   /\ sub'[i].stream = sub[i].stream
                                   /\ sub'[i].stop = sub[i].stop
        BY <1>1, <2>a, <3>a, <3>b, ReplaceSub
      <3>4. sub'[cur].count = sub[cur].count - n
        BY <1>1, <2>a, <3>a, <3>b, ReplaceSub
      <3>5. CountMatches'
        BY <1>1, <1>5, <1>7, <2>3, <3>1, <3>4 DEF n, CountMatches
      <3>6. ActiveIsServed'
        BY <1>1, <1>7, <3>1, <3>3 DEF ActiveIsServed
      <3> QED
        BY <1>3, <3>1, <3>2, <3>3, <3>5, <3>6
    <2> QED
      BY <2>2, <2>3
  <1> QED
    BY <1>6, <1>7

-----------------------------------------------------------------------------
(* A bridge that has seen no session satisfies the invariant. *)
LEMMA InitInv == Init => BridgeInv
  <1> SUFFICES ASSUME Init PROVE BridgeInv
    OBVIOUS
  <1> USE DEF Init
  <1>1. Active = {}
    BY DEF Active
  <1>2. TypeOK
    <2>1. <<>> \in Seq(Sub) /\ <<>> \in Seq(Sessions) /\ <<>> \in Seq(Nat)
      OBVIOUS
    <2>2. stamp \in [Sessions -> Nat] /\ opened \subseteq Sessions
      OBVIOUS
    <2>3. 0 \in 0..MaxDrops /\ 0 \in 0..Len(<<>>)
      BY Constants
    <2> QED
      BY <2>1, <2>2, <2>3 DEF TypeOK, Sub
  <1>3. CountMatches /\ ActiveIsServed /\ CreditedIsOpen
    BY <1>1 DEF CountMatches, ActiveIsServed, CreditedIsOpen
  <1>4. RegisteredInOrder
    BY <1>1 DEF RegisteredInOrder
  <1>5. LastPromptIsInUse
    BY Constants DEF LastPromptIsInUse, Subs
  <1>6. StableStreams
    BY DEF StableStreams, Subs
  <1> QED
    BY <1>2, <1>3, <1>4, <1>5, <1>6 DEF BridgeInv

(* createSession and registerSession: the new session is counted in, and it
   is the youngest one. *)
LEMMA OpenSessionInv ==
  ASSUME BridgeInv, NEW s \in Sessions, NEW stays \in BOOLEAN, OpenSession(s, stays)
  PROVE  BridgeInv'
  <1>1. /\ TypeOK /\ CountMatches /\ ActiveIsServed /\ RegisteredInOrder
        /\ LastPromptIsInUse /\ CreditedIsOpen
        /\ drops = 0 => StableStreams
    BY DEF BridgeInv
  <1>2. /\ inUse = NoSession /\ s \notin opened
        /\ opened' = opened \cup {s}
        /\ stamp' = [stamp EXCEPT ![s] = Cardinality(opened) + 1]
        /\ inUse' = s /\ leaves' = stays /\ step' = "ready"
        /\ UNCHANGED <<agent, owner, handled, credited, early, drops>>
    BY DEF OpenSession, RegisterSession
  <1>3. stamp \in [Sessions -> Nat] /\ opened \subseteq Sessions /\ sub \in Seq(Sub)
        /\ cur \in 0..Len(sub) /\ Len(sub) \in Nat
    BY <1>1 DEF TypeOK, Sub
  <1>4. /\ Cardinality(opened) \in Nat
        /\ Cardinality(opened') = Cardinality(opened) + 1
    BY <1>2, <1>3, Constants, FS_AddElement
  <1>5. /\ stamp' \in [Sessions -> Nat]
        /\ Active' = Active \cup {s} /\ s \notin Active
        /\ stamp'[s] = Cardinality(opened')
        /\ \A t \in Active : stamp'[t] = stamp[t]
    BY <1>1, <1>2, <1>3, <1>4 DEF Active, RegisteredInOrder
  <1>6. /\ Cardinality(Active) \in Nat
        /\ Cardinality(Active') = Cardinality(Active) + 1
    <2>1. Active \in SUBSET Sessions
      BY DEF Active
    <2> QED
      BY <1>5, <2>1, Constants, FS_AddElement
  <1>7. RegisteredInOrder'
    BY <1>1, <1>2, <1>3, <1>4, <1>5 DEF RegisteredInOrder, Active
  <1>8. agent # "working"
    BY <1>1, <1>2 DEF LastPromptIsInUse
  <1>9. CreditedIsOpen'
    BY <1>1, <1>2 DEF CreditedIsOpen
  <1>10. CASE cur # 0
    <2> DEFINE r == [sub[cur] EXCEPT !.count = @ + 1]
    <2>1. cur \in 1..Len(sub) /\ sub[cur] \in Sub
      BY <1>3, <1>10
    <2>2. /\ r \in Sub /\ r.stop = sub[cur].stop /\ r.count = sub[cur].count + 1
          /\ r.loop = sub[cur].loop /\ r.stream = sub[cur].stream
      BY <2>1 DEF Sub
    <2>3. sub' = [sub EXCEPT ![cur] = r] /\ cur' = cur
      BY <1>10 DEF OpenSession, RegisterSession
    <2> HIDE DEF r
    <2>4. /\ sub' \in Seq(Sub) /\ Len(sub') = Len(sub)
          /\ sub'[cur].count = sub[cur].count + 1
          /\ \A i \in 1..Len(sub) : /\ sub'[i].stop = sub[i].stop
                                    /\ sub'[i].loop = sub[i].loop
                                    /\ sub'[i].stream = sub[i].stream
      BY <1>3, <2>1, <2>2, <2>3, ReplaceSub
    <2>5. TypeOK'
      BY <1>1, <1>2, <1>3, <1>5, <2>3, <2>4 DEF TypeOK, Sub
    <2>6. CountMatches' /\ ActiveIsServed'
      BY <1>1, <1>5, <1>6, <1>10, <2>1, <2>3, <2>4 DEF CountMatches, ActiveIsServed
    <2>7. LastPromptIsInUse'
      BY <1>1, <1>2, <1>3, <1>8, <2>3, <2>4 DEF LastPromptIsInUse, Subs
    <2>8. ASSUME drops = 0 PROVE StableStreams'
      <3>1. Active' # {s}
        BY <1>1, <1>5, <1>10 DEF CountMatches
      <3>2. \A j \in 1..Len(sub[cur].stream) : owner[sub[cur].stream[j].prompt] \in opened
        BY <1>1, <2>1 DEF LastPromptIsInUse, Subs
      <3> QED
        BY <1>1, <1>2, <1>3, <1>8, <2>1, <2>3, <2>4, <2>8, <3>1, <3>2 DEF StableStreams, Subs
    <2> QED
      BY <1>2, <1>7, <1>9, <2>5, <2>6, <2>7, <2>8 DEF BridgeInv
  <1>11. CASE cur = 0
    <2> DEFINE r == [count |-> 1, stop |-> FALSE, loop |-> "streaming", stream |-> <<>>]
    <2>1. /\ r \in Sub /\ ~ r.stop /\ r.count = 1
          /\ r.loop = "streaming" /\ Len(r.stream) = 0
      BY DEF Sub, Loops
    <2>2. sub' = Append(sub, r) /\ cur' = Len(sub) + 1
      BY <1>11 DEF OpenSession, RegisterSession
    <2> HIDE DEF r
    <2>3. /\ sub' \in Seq(Sub) /\ Len(sub') = Len(sub) + 1
          /\ sub'[Len(sub) + 1] = r
          /\ \A i \in 1..Len(sub) : sub'[i] = sub[i]
      BY <1>3, <2>1, <2>2, AppendEvent
    <2>4. TypeOK'
      BY <1>1, <1>2, <1>3, <1>5, <2>2, <2>3 DEF TypeOK, Sub
    <2>5. CountMatches' /\ ActiveIsServed'
      <3>1. Active = {} /\ Cardinality(Active) = 0
        BY <1>1, <1>11, FS_EmptySet DEF CountMatches
      <3> QED
        BY <1>3, <1>5, <1>6, <2>1, <2>2, <2>3, <3>1 DEF CountMatches, ActiveIsServed
    <2>6. LastPromptIsInUse'
      BY <1>1, <1>2, <1>3, <1>8, <2>1, <2>2, <2>3 DEF LastPromptIsInUse, Subs
    <2>7. ASSUME drops = 0 PROVE StableStreams'
      BY <1>1, <1>2, <1>3, <1>8, <1>11, <2>1, <2>2, <2>3, <2>7 DEF StableStreams, Subs
    <2> QED
      BY <1>2, <1>7, <1>9, <2>4, <2>5, <2>6, <2>7 DEF BridgeInv
  <1> QED
    BY <1>10, <1>11

(* sendPrompt: a prompt of the session in use becomes the last one. *)
LEMMA SendPromptInv ==
  ASSUME BridgeInv, SendPrompt
  PROVE  BridgeInv'
  <1>1. /\ TypeOK /\ CountMatches /\ ActiveIsServed /\ RegisteredInOrder
        /\ LastPromptIsInUse /\ CreditedIsOpen
        /\ drops = 0 => StableStreams
    BY DEF BridgeInv
  <1>2. /\ inUse # NoSession /\ step = "ready" /\ Len(owner) < MaxPrompts
        /\ step' = "sending" /\ agent' = "working"
        /\ owner' = Append(owner, inUse) /\ handled' = Append(handled, 0)
        /\ UNCHANGED <<stamp, opened, sub, cur, inUse, leaves, credited, early, drops>>
    BY DEF SendPrompt
  <1>3. /\ inUse \in Sessions /\ inUse \in opened
        /\ owner \in Seq(Sessions) /\ handled \in Seq(Nat) /\ Len(handled) = Len(owner)
    BY <1>1, <1>2 DEF TypeOK, RegisteredInOrder
  <1>4. /\ owner' \in Seq(Sessions) /\ Len(owner) \in Nat /\ Len(owner') = Len(owner) + 1
        /\ owner'[Len(owner')] = inUse
        /\ \A n \in 1..Len(owner) : owner'[n] = owner[n]
    BY <1>2, <1>3, AppendEvent
  <1>5. /\ handled' \in Seq(Nat) /\ Len(handled') = Len(owner')
        /\ handled'[Len(owner')] = 0
        /\ \A n \in 1..Len(owner) : handled'[n] = handled[n]
    BY <1>2, <1>3, <1>4, AppendEvent
  <1>6. TypeOK'
    BY <1>1, <1>2, <1>4, <1>5 DEF TypeOK
  <1>7. Active' = Active
    BY <1>2 DEF Active
  <1>8. CountMatches' /\ ActiveIsServed' /\ RegisteredInOrder'
    BY <1>1, <1>2, <1>7 DEF CountMatches, ActiveIsServed, RegisteredInOrder
  <1>9. LastPromptIsInUse'
    BY <1>1, <1>2, <1>3, <1>4, Constants DEF LastPromptIsInUse, Subs
  <1>10. CreditedIsOpen'
    BY <1>1, <1>2, <1>4 DEF CreditedIsOpen
  <1>11. ASSUME drops = 0 PROVE StableStreams'
    <2>1. ASSUME cur # 0, NEW j \in 1..Len(sub[cur].stream)
          PROVE  /\ sub[cur].stream[j].prompt \in 1..Len(owner)
                 /\ sub[cur].stream[j].prompt # Len(owner')
      BY <1>4, <2>1, StreamFacts
    <2>2. StableStreams
      BY <1>1, <1>11
    <2>3. \A i \in Subs' : sub'[i].loop # "retrying" /\ (i # cur' => sub'[i].stop)
      BY <1>2, <2>2 DEF StableStreams, Subs
    <2>4. agent' = "working" => step' # "ready" /\ handled'[Len(owner')] = 0
      BY <1>2, <1>5
    <2>5. ASSUME cur # 0, NEW j \in 1..Len(sub[cur].stream), sub[cur].stream[j].kind = "idle"
          PROVE  LET q == sub[cur].stream
                 IN /\ handled'[q[j].prompt] = 0
                    /\ \A k \in 1..Len(q) : q[k] = q[j] => k = j
                    /\ owner'[q[j].prompt] # inUse
                    /\ q[j].prompt # Len(owner')
      BY <1>2, <1>4, <1>5, <2>1, <2>2, <2>5 DEF StableStreams
    <2>6. ASSUME cur # 0, NEW j \in 1..Len(sub[cur].stream)
          PROVE  inUse \notin {NoSession, owner'[sub[cur].stream[j].prompt]} => Active # {inUse}
      BY <1>4, <2>1, <2>2, <2>6 DEF StableStreams
    <2> QED
      BY <1>2, <1>7, <2>3, <2>4, <2>5, <2>6 DEF StableStreams
  <1> QED
    BY <1>2, <1>6, <1>8, <1>9, <1>10, <1>11 DEF BridgeInv

(* The steps of a phase that has sent its prompt, up to its timeout. *)
LEMMA WaitingInv ==
  ASSUME BridgeInv, PromptReturns \/ StartWaiting \/ WaitTimesOut
  PROVE  BridgeInv'
  <1>1. /\ step # "ready" /\ step' # "ready" /\ step' \in {"sent", "waiting", "over"}
        /\ UNCHANGED <<stamp, opened, sub, cur, inUse, leaves, agent, owner, handled,
                       credited, early, drops>>
    BY DEF PromptReturns, StartWaiting, WaitTimesOut
  <1>2. Active' = Active
    BY <1>1 DEF Active
  <1>3. TypeOK'
    BY <1>1 DEF BridgeInv, TypeOK
  <1>4. CountMatches' /\ ActiveIsServed' /\ RegisteredInOrder'
    BY <1>1, <1>2 DEF BridgeInv, CountMatches, ActiveIsServed, RegisteredInOrder
  <1>5. LastPromptIsInUse' /\ CreditedIsOpen'
    BY <1>1 DEF BridgeInv, LastPromptIsInUse, CreditedIsOpen, Subs
  <1>6. ASSUME drops = 0 PROVE StableStreams'
    BY <1>1, <1>2, <1>6 DEF BridgeInv, StableStreams, Subs
  <1> QED
    BY <1>1, <1>3, <1>4, <1>5, <1>6 DEF BridgeInv

(* Sessions leave the directory while no phase works with one: the end of a
   phase and the end of the task. *)
LEMMA LeaveInv ==
  ASSUME BridgeInv, NEW gone \in SUBSET Sessions, UnregisterSessions(gone),
         inUse' = NoSession, step' = "ready", agent' = "idle",
         UNCHANGED <<opened, leaves, owner, handled, credited, early, drops>>
  PROVE  BridgeInv'
  <1>1. /\ TypeOK /\ RegisteredInOrder /\ LastPromptIsInUse /\ CreditedIsOpen
        /\ drops = 0 => StableStreams
    BY DEF BridgeInv
  <1>2. /\ stamp' \in [Sessions -> Nat]
        /\ Active' \subseteq Active
        /\ \A s \in Active' : stamp'[s] = stamp[s]
        /\ sub' \in Seq(Sub) /\ Len(sub') = Len(sub)
        /\ \A i \in 1..Len(sub) : /\ sub'[i].loop = sub[i].loop
                                  /\ sub'[i].stream = sub[i].stream
                                  /\ sub[i].stop => sub'[i].stop
        /\ cur' = 0 \/ cur' = cur
        /\ cur # 0 /\ cur' = 0 => sub'[cur].stop
        /\ CountMatches' /\ ActiveIsServed'
    BY UnregisterFacts
  <1>3. sub \in Seq(Sub) /\ cur \in 0..Len(sub) /\ Len(sub) \in Nat
    BY <1>1 DEF TypeOK, Sub
  <1>4. TypeOK'
    BY <1>1, <1>2, <1>3, SMTT(30) DEF TypeOK, Sub
  <1>5. RegisteredInOrder'
    BY <1>1, <1>2 DEF RegisteredInOrder
  <1>6. LastPromptIsInUse'
    BY <1>1, <1>2, <1>3, SMTT(30) DEF LastPromptIsInUse, Subs
  <1>7. CreditedIsOpen'
    BY <1>1 DEF CreditedIsOpen
  <1>8. ASSUME drops = 0 PROVE StableStreams'
    <2>1. \A i \in 1..Len(sub) : sub'[i].loop # "retrying" /\ (i # cur' => sub'[i].stop)
      BY <1>1, <1>2, <1>3, <1>8 DEF StableStreams, Subs
    <2>2. ASSUME cur # 0, NEW j \in 1..Len(sub[cur].stream)
          PROVE  owner[sub[cur].stream[j].prompt] # NoSession
      BY <2>2, StreamFacts
    <2>3. StableStreams
      BY <1>1, <1>8
    <2>4. \A i \in Subs' : sub'[i].loop # "retrying" /\ (i # cur' => sub'[i].stop)
      BY <1>2, <2>1 DEF Subs
    <2>5. CASE cur' = 0
      BY <2>4, <2>5 DEF StableStreams
    <2>6. CASE cur' = cur /\ cur # 0
      <3>1. sub'[cur].stream = sub[cur].stream
        BY <1>2, <1>3, <2>6
      <3> QED
        BY <2>2, <2>3, <2>4, <2>6, <3>1 DEF StableStreams
    <2> QED
      BY <1>2, <2>5, <2>6
  <1> QED
    BY <1>2, <1>4, <1>5, <1>6, <1>7, <1>8 DEF BridgeInv

(* An event published to every open stream of the directory. *)
LEMMA PublishFacts ==
  ASSUME sub \in Seq(Sub), NEW e \in Events, Publish(e)
  PROVE  /\ sub' \in Seq(Sub) /\ Len(sub') = Len(sub)
         /\ \A i \in 1..Len(sub) :
               /\ sub'[i].count = sub[i].count /\ sub'[i].stop = sub[i].stop
               /\ sub'[i].loop = sub[i].loop
               /\ sub'[i].stream \in {sub[i].stream, Append(sub[i].stream, e)}
  <1>1. Len(sub) \in Nat /\ Subs = 1..Len(sub) /\ \A i \in 1..Len(sub) : sub[i] \in Sub
    BY DEF Subs
  <1> DEFINE new(i) == IF sub[i].loop = "streaming"
                       THEN [sub[i] EXCEPT !.stream = Append(@, e)] ELSE sub[i]
  <1>2. sub' = [i \in 1..Len(sub) |-> new(i)]
    BY <1>1 DEF Publish
  <1>3. ASSUME NEW i \in 1..Len(sub)
        PROVE  /\ new(i) \in Sub
               /\ new(i).count = sub[i].count /\ new(i).stop = sub[i].stop
               /\ new(i).loop = sub[i].loop
               /\ new(i).stream \in {sub[i].stream, Append(sub[i].stream, e)}
    <2>1. sub[i] \in Sub
      BY <1>1
    <2>2. sub[i].stream \in Seq(Events)
      BY <2>1 DEF Sub
    <2>3. Append(sub[i].stream, e) \in Seq(Events)
      BY <2>2, AppendEvent
    <2> QED
      BY <2>1, <2>3 DEF Sub
  <1> HIDE DEF new
  <1> QED
    BY <1>1, <1>2, <1>3

(* The server publishes an event of the last prompt while the agent works on
   it: a note, or the idle event that ends the work. *)
LEMMA PublishInv ==
  ASSUME BridgeInv, agent = "working", NEW k \in {"idle", "note"},
         Publish([kind |-> k, prompt |-> Len(owner)]),
         agent' = IF k = "idle" THEN "idle" ELSE "working",
         UNCHANGED <<stamp, opened, cur, inUse, leaves, step, owner, handled,
                     credited, early, drops>>
  PROVE  BridgeInv'
  <1> DEFINE e == [kind |-> k, prompt |-> Len(owner)]
  <1>1. /\ TypeOK /\ CountMatches /\ ActiveIsServed /\ RegisteredInOrder
        /\ LastPromptIsInUse /\ CreditedIsOpen
        /\ drops = 0 => StableStreams
    BY DEF BridgeInv
  <1>2. /\ owner # <<>> /\ inUse # NoSession /\ owner[Len(owner)] = inUse
        /\ Len(owner) \in 1..MaxPrompts
    BY <1>1, Constants DEF LastPromptIsInUse, TypeOK
  <1>3. e \in Events /\ e.kind = k /\ e.prompt = Len(owner)
    BY <1>2 DEF Events
  <1> HIDE DEF e
  <1>4. /\ sub' \in Seq(Sub) /\ Len(sub') = Len(sub)
        /\ \A i \in 1..Len(sub) :
              /\ sub'[i].count = sub[i].count /\ sub'[i].stop = sub[i].stop
              /\ sub'[i].loop = sub[i].loop
              /\ sub'[i].stream \in {sub[i].stream, Append(sub[i].stream, e)}
    BY <1>3, StreamFacts, PublishFacts DEF e
  <1>5. ASSUME NEW i \in 1..Len(sub), NEW j \in 1..Len(sub'[i].stream)
        PROVE  LET q == sub[i].stream  p == sub'[i].stream
               IN \/ j \in 1..Len(q) /\ p[j] = q[j]
                  \/ j = Len(q) + 1 /\ p[j] = e
    <2>1. sub[i].stream \in Seq(Events)
      BY StreamFacts
    <2>2. CASE sub'[i].stream = sub[i].stream
      BY <2>2
    <2>3. CASE sub'[i].stream = Append(sub[i].stream, e)
      BY <1>3, <2>1, <2>3, AppendEvent
    <2> QED
      BY <1>4, <2>2, <2>3
  <1>6. TypeOK'
    BY <1>1, <1>4 DEF TypeOK, Sub
  <1>7. Active' = Active
    BY DEF Active
  <1>8. CountMatches' /\ ActiveIsServed' /\ RegisteredInOrder' /\ CreditedIsOpen'
    BY <1>1, <1>4, <1>7, StreamFacts
       DEF CountMatches, ActiveIsServed, RegisteredInOrder, CreditedIsOpen
  <1>9. LastPromptIsInUse'
    <2>1. ASSUME NEW i \in 1..Len(sub), NEW j \in 1..Len(sub'[i].stream)
          PROVE  sub'[i].stream[j].prompt \in 1..Len(owner)
      <3>1. CASE sub'[i].stream[j] = e
        BY <1>2, <1>3, <3>1
      <3>2. CASE j \in 1..Len(sub[i].stream) /\ sub'[i].stream[j] = sub[i].stream[j]
        BY <3>2, StreamFacts
      <3> QED
        BY <1>5, <2>1, <3>1, <3>2
    <2>2. Subs' = 1..Len(sub)
      BY <1>4 DEF Subs
    <2> QED
      BY <1>1, <1>2, <2>1, <2>2 DEF LastPromptIsInUse
  <1>10. ASSUME drops = 0 PROVE StableStreams'
    <2>1. StableStreams
      BY <1>1, <1>10
    <2>2. \A i \in Subs' : sub'[i].loop # "retrying" /\ (i # cur' => sub'[i].stop)
      BY <1>4, <2>1, StreamFacts, SMTT(30) DEF StableStreams, Subs
    <2>3. agent' = "working" => step' # "ready" /\ handled'[Len(owner')] = 0
      BY <2>1 DEF StableStreams
    <2>4. ASSUME cur # 0, NEW j \in 1..Len(sub'[cur].stream), sub'[cur].stream[j].kind = "idle"
          PROVE  LET q == sub'[cur].stream
                 IN /\ handled[q[j].prompt] = 0
                    /\ \A i \in 1..Len(q) : q[i] = q[j] => i = j
                    /\ owner[q[j].prompt] = inUse =>
                          q[j].prompt = Len(owner) /\ step # "ready"
                    /\ agent' = "working" => q[j].prompt # Len(owner)
      <3> DEFINE q == sub[cur].stream  p == sub'[cur].stream
      <3>1. \A i \in 1..Len(p) : \/ i \in 1..Len(q) /\ p[i] = q[i]
                                 \/ i = Len(q) + 1 /\ p[i] = e
        BY <1>5, <2>4, StreamFacts
      <3>2. /\ step # "ready" /\ handled[Len(owner)] = 0
            /\ \A i \in 1..Len(q) : q[i].kind = "idle" =>
                   /\ handled[q[i].prompt] = 0
                   /\ \A l \in 1..Len(q) : q[l] = q[i] => l = i
                   /\ owner[q[i].prompt] = inUse => q[i].prompt = Len(owner)
                   /\ q[i].prompt # Len(owner)
        BY <2>1, <2>4 DEF StableStreams
      <3>3. p[j].kind = "idle" /\ j \in 1..Len(p)
        BY <2>4
      <3> SUFFICES /\ handled[p[j].prompt] = 0
                   /\ \A i \in 1..Len(p) : p[i] = p[j] => i = j
                   /\ owner[p[j].prompt] = inUse => p[j].prompt = Len(owner)
                   /\ agent' = "working" => p[j].prompt # Len(owner)
        BY <3>2
      <3> HIDE DEF q, p
      <3>4. CASE j \in 1..Len(q) /\ p[j] = q[j]
        BY <1>3, <3>1, <3>2, <3>3, <3>4
      <3>5. CASE j = Len(q) + 1 /\ p[j] = e
        BY <1>3, <3>1, <3>2, <3>3, <3>5
      <3> QED
        BY <3>1, <3>3, <3>4, <3>5
    <2>5. ASSUME cur # 0, NEW j \in 1..Len(sub'[cur].stream)
          PROVE  inUse \notin {NoSession, owner[sub'[cur].stream[j].prompt]} => Active # {inUse}
      BY <1>2, <1>3, <1>5, <2>1, <2>5, StreamFacts DEF StableStreams
    <2> QED
      BY <1>7, <2>2, <2>3, <2>4, <2>5 DEF StableStreams
  <1> QED
    BY <1>6, <1>8, <1>9, <1>10 DEF BridgeInv

(* The states of a loop, and the stream of a loop that does not listen. *)
LEMMA LoopFacts == "streaming" \in Loops /\ "ended" \in Loops /\ <<>> \in Seq(Events)
  BY DEF Loops

(* A loop ends, breaks or starts again without handling an event. *)
LEMMA LoopStateInv ==
  ASSUME BridgeInv, NEW i \in 1..Len(sub), NEW r \in Sub,
         sub' = [sub EXCEPT ![i] = r], r.count = sub[i].count,
         r.stream = <<>> \/ r.stream = sub[i].stream,
         i = cur => ~ r.stop /\ r.loop \in {"streaming", "retrying"},
         drops' \in 0..MaxDrops,
         drops' = 0 => drops = 0 /\ i # cur /\ r.stop /\ r.loop # "retrying",
         UNCHANGED <<stamp, opened, cur, inUse, leaves, step, agent, owner, handled,
                     credited, early>>
  PROVE  BridgeInv'
  <1>1. /\ TypeOK /\ CountMatches /\ ActiveIsServed /\ RegisteredInOrder
        /\ LastPromptIsInUse /\ CreditedIsOpen
        /\ drops = 0 => StableStreams
    BY DEF BridgeInv
  <1>2. /\ sub' \in Seq(Sub) /\ Len(sub') = Len(sub)
        /\ \A j \in 1..Len(sub) : sub'[j] = IF j = i THEN r ELSE sub[j]
    BY StreamFacts, ReplaceSub
  <1>3. Subs' = 1..Len(sub)
    BY <1>2 DEF Subs
  <1>4. TypeOK'
    BY <1>1, <1>2 DEF TypeOK, Sub
  <1>5. Active' = Active
    BY DEF Active
  <1>6. CountMatches' /\ ActiveIsServed' /\ RegisteredInOrder' /\ CreditedIsOpen'
    BY <1>1, <1>2, <1>5, StreamFacts
       DEF CountMatches, ActiveIsServed, RegisteredInOrder, CreditedIsOpen
  <1>7. LastPromptIsInUse'
    <2>1. ASSUME NEW k \in 1..Len(sub), NEW j \in 1..Len(sub'[k].stream)
          PROVE  sub'[k].stream[j].prompt \in 1..Len(owner)
      <3>1. sub'[k].stream = sub[k].stream
        BY <1>2, <2>1
      <3> QED
        BY <2>1, <3>1, StreamFacts
    <2> QED
      BY <1>1, <1>3, <2>1 DEF LastPromptIsInUse
  <1>8. ASSUME drops' = 0 PROVE StableStreams'
    <2>1. StableStreams /\ i # cur /\ r.stop /\ r.loop # "retrying"
      BY <1>1, <1>8
    <2>2. \A j \in Subs' : sub'[j].loop # "retrying" /\ (j # cur' => sub'[j].stop)
      <3>1. ASSUME NEW j \in 1..Len(sub), j # i
            PROVE  sub[j].loop # "retrying" /\ (j # cur => sub[j].stop)
        BY <2>1, <3>1, StreamFacts DEF StableStreams
      <3> QED
        BY <1>2, <1>3, <2>1, <3>1
    <2>3. cur # 0 => sub'[cur] = sub[cur]
      BY <1>2, <2>1, StreamFacts
    <2> QED
      BY <1>5, <2>1, <2>2, <2>3 DEF StableStreams
  <1> QED
    BY <1>4, <1>6, <1>7, <1>8 DEF BridgeInv

(* A stopped loop ends at its next event. *)
LEMMA StoppedLoopInv ==
  ASSUME BridgeInv, NEW i \in 1..Len(sub), LoopTurn(i), sub[i].stop
  PROVE  BridgeInv'
  <1> DEFINE r == [sub[i] EXCEPT !.loop = "ended", !.stream = <<>>]
  <1>1. sub[i] \in Sub
    BY StreamFacts
  <1>2. /\ r \in Sub /\ r.count = sub[i].count /\ r.stop /\ r.loop = "ended"
        /\ r.stream = <<>>
    BY <1>1, LoopFacts DEF Sub
  <1>3. sub' = [sub EXCEPT ![i] = r]
    BY DEF LoopTurn
  <1>4. i # cur
    BY StreamFacts DEF BridgeInv, ActiveIsServed
  <1>5. /\ drops' = drops /\ drops \in 0..MaxDrops
        /\ UNCHANGED <<stamp, opened, cur, inUse, leaves, step, agent, owner, handled,
                       credited, early>>
    BY DEF LoopTurn, BridgeInv, TypeOK
  <1> HIDE DEF r
  <1> QED
    BY <1>2, <1>3, <1>4, <1>5, LoopStateInv

(* The stream of a loop breaks: it is tried again while it is counted on. *)
LEMMA StreamBreaksInv ==
  ASSUME BridgeInv, NEW i \in 1..Len(sub), StreamBreaks(i)
  PROVE  BridgeInv'
  <1> DEFINE r == [sub[i] EXCEPT !.loop = AfterBreak(i), !.stream = <<>>]
  <1>1. sub[i] \in Sub /\ AfterBreak(i) \in Loops
    BY StreamFacts DEF AfterBreak, Loops
  <1>2. /\ r \in Sub /\ r.count = sub[i].count /\ r.stop = sub[i].stop
        /\ r.loop = AfterBreak(i) /\ r.stream = <<>>
    BY <1>1, LoopFacts DEF Sub
  <1>3. sub' = [sub EXCEPT ![i] = r]
    BY DEF StreamBreaks
  <1>4. ASSUME i = cur
        PROVE  ~ r.stop /\ r.loop \in {"streaming", "retrying"}
    <2>1. i # 0
      OBVIOUS
    <2>2. ~ sub[i].stop /\ sub[i].count = Cardinality(Active) /\ Active # {}
      BY <1>4, <2>1 DEF BridgeInv, ActiveIsServed, CountMatches
    <2>3. Cardinality(Active) \in Nat /\ Cardinality(Active) # 0
      <3>1. Active \in SUBSET Sessions
        BY DEF Active
      <3> QED
        BY <2>2, <3>1, Constants, FS_EmptySet
    <2> QED
      BY <1>2, <2>2, <2>3 DEF AfterBreak
  <1>5. /\ drops' # 0 /\ drops' \in 0..MaxDrops
        /\ UNCHANGED <<stamp, opened, cur, inUse, leaves, step, agent, owner, handled,
                       credited, early>>
    BY Constants, SMTT(30) DEF StreamBreaks, BridgeInv, TypeOK
  <1>6. i = cur => ~ r.stop /\ r.loop \in {"streaming", "retrying"}
    BY <1>4
  <1> HIDE DEF r
  <1> QED
    BY <1>2, <1>3, <1>5, <1>6, LoopStateInv

(* The reconnect timer: a loop that is tried again is told to go on. *)
LEMMA ReconnectInv ==
  ASSUME BridgeInv, NEW i \in 1..Len(sub), Reconnect(i)
  PROVE  BridgeInv'
  <1> DEFINE r == [sub[i] EXCEPT !.loop = "streaming", !.stop = FALSE]
  <1>1. sub[i] \in Sub
    BY StreamFacts
  <1>2. /\ r \in Sub /\ r.count = sub[i].count /\ r.stop = FALSE
        /\ r.loop = "streaming" /\ r.stream = sub[i].stream
    BY <1>1, LoopFacts DEF Sub
  <1>3. sub' = [sub EXCEPT ![i] = r]
    BY DEF Reconnect
  <1>4. drops # 0
    BY StreamFacts DEF Reconnect, BridgeInv, StableStreams
  <1>5. /\ drops' = drops /\ drops \in 0..MaxDrops
        /\ UNCHANGED <<stamp, opened, cur, inUse, leaves, step, agent, owner, handled,
                       credited, early>>
    BY DEF Reconnect, BridgeInv, TypeOK
  <1> HIDE DEF r
  <1> QED
    BY <1>2, <1>3, <1>4, <1>5, LoopStateInv

(* A loop that goes on takes the first event of its stream. *)
LEMMA TurnFacts ==
  ASSUME BridgeInv, NEW i \in 1..Len(sub), LoopTurn(i), ~ sub[i].stop
  PROVE  LET q == sub[i].stream
             e == Head(q)
         IN /\ q \in Seq(Events) /\ Len(q) \in Nat /\ 1 \in 1..Len(q)
            /\ e = q[1] /\ e \in Events
            /\ e.prompt \in 1..Len(owner) /\ owner[e.prompt] \in Sessions
            /\ HandleEvent(e)
            /\ sub' \in Seq(Sub) /\ Len(sub') = Len(sub)
            /\ \A j \in 1..Len(sub) : /\ j # i => sub'[j] = sub[j]
                                      /\ sub'[j].count = sub[j].count
                                      /\ sub'[j].stop = sub[j].stop
                                      /\ sub'[j].loop = sub[j].loop
            /\ \A j \in 1..Len(sub'[i].stream) :
                  /\ j + 1 \in 1..Len(q) /\ j + 1 # 1
                  /\ sub'[i].stream[j] = q[j + 1]
            /\ UNCHANGED <<stamp, opened, cur, inUse, leaves, agent, owner, drops>>
  <1> DEFINE q == sub[i].stream
             r == [sub[i] EXCEPT !.stream = Tail(q)]
  <1>1. sub[i] \in Sub /\ q \in Seq(Events) /\ q # <<>>
    BY StreamFacts DEF LoopTurn
  <1>2. /\ Head(q) = q[1] /\ Head(q) \in Events /\ Tail(q) \in Seq(Events)
        /\ Len(q) \in Nat /\ 1 \in 1..Len(q)
        /\ \A j \in 1..Len(Tail(q)) : j + 1 \in 1..Len(q) /\ Tail(q)[j] = q[j + 1]
        /\ \A j \in 1..Len(Tail(q)) : j + 1 # 1
    <2> HIDE DEF q
    <2> QED
      BY <1>1, HeadTail
  <1>3. Head(q).prompt \in 1..Len(owner) /\ owner[Head(q).prompt] \in Sessions
    BY <1>2, StreamFacts
  <1>4. /\ HandleEvent(Head(q))
        /\ UNCHANGED <<stamp, opened, cur, inUse, leaves, agent, owner, drops>>
    BY DEF LoopTurn
  <1>5. /\ r \in Sub /\ r.count = sub[i].count /\ r.stop = sub[i].stop
        /\ r.loop = sub[i].loop /\ r.stream = Tail(q)
    BY <1>1, <1>2 DEF Sub
  <1>6. sub' = [sub EXCEPT ![i] = r]
    BY DEF LoopTurn
  <1> HIDE DEF r
  <1>7. /\ sub' \in Seq(Sub) /\ Len(sub') = Len(sub)
        /\ \A j \in 1..Len(sub) : sub'[j] = IF j = i THEN r ELSE sub[j]
    BY <1>5, <1>6, StreamFacts, ReplaceSub
  <1> QED
    BY <1>1, <1>2, <1>3, <1>4, <1>5, <1>7

(* handleEvent: the counts of the idle events, the notes and the wait. *)
LEMMA HandleEventInv ==
  ASSUME BridgeInv, NEW i \in 1..Len(sub), LoopTurn(i), ~ sub[i].stop
  PROVE  BridgeInv'
  <1> DEFINE q == sub[i].stream
             e == Head(q)
  <1>1. /\ TypeOK /\ CountMatches /\ ActiveIsServed /\ RegisteredInOrder
        /\ LastPromptIsInUse /\ CreditedIsOpen
        /\ drops = 0 => StableStreams
    BY DEF BridgeInv
  <1>2. /\ Len(q) \in Nat /\ 1 \in 1..Len(q) /\ e = q[1] /\ e \in Events
        /\ e.prompt \in 1..Len(owner) /\ owner[e.prompt] \in Sessions
        /\ HandleEvent(e)
        /\ sub' \in Seq(Sub) /\ Len(sub') = Len(sub)
        /\ \A j \in 1..Len(sub) : /\ j # i => sub'[j] = sub[j]
                                  /\ sub'[j].count = sub[j].count
                                  /\ sub'[j].stop = sub[j].stop
                                  /\ sub'[j].loop = sub[j].loop
        /\ \A j \in 1..Len(sub'[i].stream) :
              /\ j + 1 \in 1..Len(q) /\ j + 1 # 1
              /\ sub'[i].stream[j] = q[j + 1]
        /\ UNCHANGED <<stamp, opened, cur, inUse, leaves, agent, owner, drops>>
    BY TurnFacts
  <1> HIDE DEF e
  <1>3. Subs' = 1..Len(sub) /\ Active' = Active
    BY <1>2 DEF Subs, Active
  <1>4. Active # {} => Oldest \in Active
    BY <1>1, OldestIsLeast DEF TypeOK
  <1>5. credited' \subseteq credited \cup {<<e.prompt, s>> : s \in Active}
    BY <1>2, <1>4 DEF HandleEvent
  <1>6. /\ handled' \in Seq(Nat) /\ Len(handled') = Len(owner)
        /\ \A n \in 1..Len(owner) :
              handled'[n] = handled[n] \/ (e.kind = "idle" /\ n = e.prompt)
    <2>1. handled \in Seq(Nat) /\ Len(handled) = Len(owner)
      BY <1>1 DEF TypeOK
    <2>2. CASE e.kind = "idle" /\ owner[e.prompt] \in Active
      <3>1. handled' = [handled EXCEPT ![e.prompt] = handled[e.prompt] + 1]
        BY <1>2, <2>2 DEF HandleEvent
      <3>2. handled[e.prompt] + 1 \in Nat
        BY <1>2, <2>1
      <3> QED
        BY <1>2, <2>1, <2>2, <3>1, <3>2, ReplaceSub
    <2>3. CASE ~ (e.kind = "idle" /\ owner[e.prompt] \in Active)
      BY <1>2, <2>1, <2>3 DEF HandleEvent
    <2> QED
      BY <2>2, <2>3
  <1>7. step' = step \/ (step' = "ready" /\ inUse = owner[e.prompt])
    BY <1>2 DEF HandleEvent
  <1>8. TypeOK'
    <2>1. credited' \subseteq (1..MaxPrompts) \X Sessions
      <3>1. e.prompt \in 1..MaxPrompts /\ Active \subseteq Sessions
        BY <1>2 DEF Events, Active
      <3> QED
        BY <1>1, <1>5, <3>1 DEF TypeOK
    <2>2. early' \in BOOLEAN
      BY <1>2 DEF HandleEvent
    <2> QED
      BY <1>1, <1>2, <1>6, <1>7, <2>1, <2>2 DEF TypeOK, Sub
  <1>9. CountMatches' /\ ActiveIsServed' /\ RegisteredInOrder'
    BY <1>1, <1>2, <1>3, StreamFacts DEF CountMatches, ActiveIsServed, RegisteredInOrder
  <1>10. CreditedIsOpen'
    <2>1. ASSUME NEW c \in credited'
          PROVE  c[1] \in 1..Len(owner) /\ c[2] \in opened
      <3>1. CASE c \in credited
        BY <1>1, <3>1 DEF CreditedIsOpen
      <3>2. ASSUME NEW s \in Active, c = <<e.prompt, s>>
            PROVE  c[1] \in 1..Len(owner) /\ c[2] \in opened
        BY <1>1, <1>2, <3>2 DEF RegisteredInOrder
      <3> QED
        BY <1>5, <2>1, <3>1, <3>2
    <2> QED
      BY <1>2, <2>1 DEF CreditedIsOpen
  <1>11. LastPromptIsInUse'
    <2>1. ASSUME NEW k \in 1..Len(sub), NEW j \in 1..Len(sub'[k].stream)
          PROVE  sub'[k].stream[j].prompt \in 1..Len(owner)
      <3>1. CASE k = i
        BY <1>2, <2>1, <3>1, StreamFacts
      <3>2. CASE k # i
        BY <1>2, <2>1, <3>2, StreamFacts
      <3> QED
        BY <3>1, <3>2
    <2> QED
      BY <1>1, <1>2, <1>3, <1>7, <2>1 DEF LastPromptIsInUse
  <1>12. ASSUME drops = 0 PROVE StableStreams'
    <2>1. StableStreams /\ i = cur
      BY <1>1, <1>12, StreamFacts DEF StableStreams
    <2>2. \A j \in Subs' : sub'[j].loop # "retrying" /\ (j # cur' => sub'[j].stop)
      BY <1>2, <1>3, <2>1, StreamFacts DEF StableStreams
    <2>3. /\ agent = "working" => step # "ready" /\ handled[Len(owner)] = 0
          /\ \A j \in 1..Len(q) : q[j].kind = "idle" =>
                /\ handled[q[j].prompt] = 0
                /\ \A k \in 1..Len(q) : q[k] = q[j] => k = j
                /\ owner[q[j].prompt] = inUse => q[j].prompt = Len(owner) /\ step # "ready"
                /\ agent = "working" => q[j].prompt # Len(owner)
          /\ \A j \in 1..Len(q) :
                inUse \notin {NoSession, owner[q[j].prompt]} => Active # {inUse}
      BY <2>1 DEF StableStreams
    <2>4. step' = step \/ (e.kind = "idle" /\ e.prompt = Len(owner))
      <3>1. step' = step \/ (e.kind = "idle" /\ owner[e.prompt] = inUse)
        BY <1>2 DEF HandleEvent
      <3> QED
        BY <1>2, <2>3, <3>1
    <2>5. ASSUME NEW j \in 1..Len(q), j # 1, q[j].kind = "idle", e.kind = "idle"
          PROVE  q[j].prompt # e.prompt
      <3>1. q[j] \in Events
        BY StreamFacts
      <3>2. q[j] # e
        BY <1>2, <2>3, <2>5
      <3> QED
        BY <1>2, <2>5, <3>1, <3>2 DEF Events
    <2>6. agent' = "working" => step' # "ready" /\ handled'[Len(owner')] = 0
      <3> SUFFICES ASSUME agent = "working" PROVE step' # "ready" /\ handled'[Len(owner)] = 0
        BY <1>2
      <3>1. Len(owner) \in 1..Len(owner)
        BY <1>1 DEF LastPromptIsInUse, TypeOK
      <3>2. ~ (e.kind = "idle" /\ e.prompt = Len(owner))
        BY <1>2, <2>3
      <3> QED
        BY <1>6, <2>3, <2>4, <3>1, <3>2
    <2>7. ASSUME NEW j \in 1..Len(sub'[i].stream), sub'[i].stream[j].kind = "idle"
          PROVE  LET p == sub'[i].stream
                 IN /\ handled'[p[j].prompt] = 0
                    /\ \A k \in 1..Len(p) : p[k] = p[j] => k = j
                    /\ owner[p[j].prompt] = inUse =>
                          p[j].prompt = Len(owner) /\ step' # "ready"
                    /\ agent = "working" => p[j].prompt # Len(owner)
      <3>1. /\ j + 1 \in 1..Len(q) /\ j + 1 # 1 /\ sub'[i].stream[j] = q[j + 1]
            /\ q[j + 1].prompt \in 1..Len(owner)
        BY <1>2, <2>7, StreamFacts
      <3>2. handled'[q[j + 1].prompt] = 0
        BY <1>6, <2>3, <2>5, <2>7, <3>1
      <3>3. ASSUME NEW k \in 1..Len(sub'[i].stream), sub'[i].stream[k] = sub'[i].stream[j]
            PROVE  k = j
        <4>1. k + 1 \in 1..Len(q) /\ sub'[i].stream[k] = q[k + 1]
          BY <1>2, <3>3
        <4>2. k + 1 = j + 1
          BY <2>3, <2>7, <3>1, <3>3, <4>1
        <4> QED
          BY <4>2
      <3>4. owner[q[j + 1].prompt] = inUse =>
               q[j + 1].prompt = Len(owner) /\ step' # "ready"
        BY <2>3, <2>4, <2>5, <2>7, <3>1
      <3> QED
        BY <2>3, <2>7, <3>1, <3>2, <3>3, <3>4
    <2>8. ASSUME NEW j \in 1..Len(sub'[i].stream)
          PROVE  inUse \notin {NoSession, owner[sub'[i].stream[j].prompt]} => Active # {inUse}
      BY <1>2, <2>3, <2>8
    <2> QED
      BY <1>2, <1>3, <2>1, <2>2, <2>6, <2>7, <2>8 DEF StableStreams
  <1> QED
    BY <1>2, <1>8, <1>9, <1>10, <1>11, <1>12 DEF BridgeInv

(* One turn of a loop. *)
LEMMA LoopTurnInv ==
  ASSUME BridgeInv, NEW i \in 1..Len(sub), LoopTurn(i)
  PROVE  BridgeInv'
  BY StoppedLoopInv, HandleEventInv

(* Every step of the phases, the server and the loops keeps the
   bookkeeping. *)
LEMMA StepInv == BridgeInv /\ [Next]_vars => BridgeInv'
  <1> SUFFICES ASSUME BridgeInv, [Next]_vars PROVE BridgeInv'
    OBVIOUS
  <1>1. ASSUME NEW s \in Sessions, NEW stays \in BOOLEAN, OpenSession(s, stays)
        PROVE  BridgeInv'
    BY <1>1, OpenSessionInv
  <1>2. CASE SendPrompt
    BY <1>2, SendPromptInv
  <1>3. CASE PromptReturns \/ StartWaiting \/ WaitTimesOut
    BY <1>3, WaitingInv
  <1>4. CASE CloseSession
    <2>1. (IF leaves THEN {} ELSE {inUse}) \in SUBSET Sessions
      BY <1>4 DEF CloseSession, BridgeInv, TypeOK
    <2> QED
      BY <1>4, <2>1, LeaveInv DEF CloseSession
  <1>5. CASE EndTask
    <2>1. Active \in SUBSET Sessions
      BY DEF Active
    <2>2. /\ inUse = NoSession /\ step = "ready" /\ agent = "idle"
          /\ UnregisterSessions(Active)
          /\ UNCHANGED <<opened, inUse, leaves, step, agent, owner, handled, credited,
                         early, drops>>
      BY <1>5 DEF EndTask, BridgeInv, LastPromptIsInUse, TypeOK
    <2> QED
      BY <2>1, <2>2, LeaveInv
  <1>6. CASE AgentNotes
    BY <1>6, PublishInv DEF AgentNotes
  <1>7. CASE AgentFinishes
    BY <1>7, PublishInv DEF AgentFinishes
  <1>8. ASSUME NEW i \in Subs, LoopTurn(i) \/ StreamBreaks(i) \/ Reconnect(i)
        PROVE  BridgeInv'
    <2>1. i \in 1..Len(sub)
      BY <1>8, StreamFacts
    <2> QED
      BY <1>8, <2>1, LoopTurnInv, StreamBreaksInv, ReconnectInv
  <1>9. CASE UNCHANGED vars
    <2>1. UNCHANGED <<stamp, opened, sub, cur, inUse, leaves, step, agent, owner, handled,
                      credited, early, drops>>
      BY <1>9 DEF vars
    <2>2. Active' = Active /\ Subs' = Subs
      BY <2>1 DEF Active, Subs
    <2>3. TypeOK' /\ CountMatches' /\ ActiveIsServed' /\ RegisteredInOrder'
      BY <2>1, <2>2 DEF BridgeInv, TypeOK, CountMatches, ActiveIsServed, RegisteredInOrder
    <2>4. LastPromptIsInUse' /\ CreditedIsOpen' /\ (StableStreams' <=> StableStreams)
      BY <2>1, <2>2 DEF BridgeInv, LastPromptIsInUse, CreditedIsOpen, StableStreams
    <2> QED
      BY <2>1, <2>3, <2>4 DEF BridgeInv
  <1> QED
    BY <1>1, <1>2, <1>3, <1>4, <1>5, <1>6, <1>7, <1>8, <1>9 DEF Next

(* sessionCount is the number of registered sessions, whatever order they are
   opened, closed and left behind in and whichever streams break; the
   subscription exists exactly while there is one, and its loop runs or is
   about to reconnect. *)
THEOREM BridgeIsConsistent == Spec => []BridgeInv
  <1> QED
    BY InitInv, StepInv, PTL DEF Spec

-----------------------------------------------------------------------------
(* What one event of a stable stream does: it is handled for the first time,
   and if it ends a wait it is of the last prompt. *)
LEMMA StableTurn ==
  ASSUME BridgeInv, StableIsExact, drops = 0,
         NEW i \in 1..Len(sub), LoopTurn(i), ~ sub[i].stop
  PROVE  ~ early' /\ \A n \in 1..Len(owner) : handled'[n] <= 1
  <1> DEFINE q == sub[i].stream
             e == Head(q)
  <1>1. /\ 1 \in 1..Len(q) /\ e = q[1]
        /\ e.prompt \in 1..Len(owner)
        /\ HandleEvent(e)
    BY TurnFacts
  <1>2. StableStreams /\ i = cur
    BY StreamFacts DEF BridgeInv, StableStreams
  <1>3. e.kind = "idle" => /\ handled[e.prompt] = 0
                           /\ owner[e.prompt] = inUse => e.prompt = Len(owner)
    BY <1>1, <1>2 DEF StableStreams
  <1>4. /\ handled \in Seq(Nat) /\ Len(handled) = Len(owner) /\ ~ early
        /\ \A n \in 1..Len(owner) : handled[n] <= 1
    <2>1. owner \in Seq(Sessions) /\ handled \in Seq(Nat) /\ Len(handled) = Len(owner)
      BY DEF BridgeInv, TypeOK
    <2>2. Prompts = 1..Len(owner)
      BY <2>1 DEF Prompts
    <2> QED
      BY <2>1, <2>2 DEF StableIsExact
  <1> HIDE DEF e
  <1>5. ~ early'
    BY <1>1, <1>3, <1>4 DEF HandleEvent
  <1>6. CASE e.kind = "idle" /\ owner[e.prompt] \in Active
    <2>1. handled' = [handled EXCEPT ![e.prompt] = handled[e.prompt] + 1]
      BY <1>1, <1>6 DEF HandleEvent
    <2>2. handled[e.prompt] + 1 = 1 /\ 1 \in Nat
      BY <1>3, <1>6
    <2> QED
      BY <1>1, <1>4, <1>5, <2>1, <2>2, ReplaceSub, SMTT(30)
  <1>7. CASE ~ (e.kind = "idle" /\ owner[e.prompt] \in Active)
    BY <1>1, <1>4, <1>5, <1>7 DEF HandleEvent
  <1> QED
    BY <1>6, <1>7

(* The steps that handle no event leave the record of what was handled as it
   is, up to the entry of a new prompt. *)
LEMMA HandledStep ==
  ASSUME BridgeInv, [Next]_vars,
         \A i \in 1..Len(sub) : LoopTurn(i) => sub[i].stop
  PROVE  /\ early' = early /\ credited' = credited
         /\ drops' = 0 => drops = 0
         /\ \/ UNCHANGED <<owner, handled>>
            \/ SendPrompt
  <1>1. drops \in Nat
    BY DEF BridgeInv, TypeOK
  <1>2. ASSUME NEW i \in Subs, LoopTurn(i) \/ StreamBreaks(i) \/ Reconnect(i)
        PROVE  /\ UNCHANGED <<early, credited, owner, handled>>
               /\ drops' = 0 => drops = 0
    <2>1. i \in 1..Len(sub)
      BY <1>2, StreamFacts
    <2> QED
      BY <1>1, <1>2, <2>1 DEF LoopTurn, StreamBreaks, Reconnect
  <1>3. ASSUME NEW s \in Sessions, NEW stays \in BOOLEAN, OpenSession(s, stays)
        PROVE  UNCHANGED <<early, credited, owner, handled, drops>>
    BY <1>3 DEF OpenSession
  <1> QED
    BY <1>2, <1>3 DEF Next, SendPrompt, PromptReturns, StartWaiting, WaitTimesOut,
                      CloseSession, EndTask, AgentNotes, AgentFinishes, vars

(* While no stream breaks, an idle event is handled once and a wait ends with
   the idle event of its own prompt, however the prompts of several sessions,
   the server and the loops interleave. *)
THEOREM StableBridgeIsExact == Spec => []StableIsExact
  <1>1. Init => StableIsExact
    BY DEF Init, StableIsExact, Prompts
  <1>2. BridgeInv /\ StableIsExact /\ [Next]_vars => StableIsExact'
    <2> SUFFICES ASSUME BridgeInv, StableIsExact, [Next]_vars, drops' = 0
                 PROVE  ~ early' /\ \A n \in Prompts' : handled'[n] <= 1
      BY DEF StableIsExact
    <2>1. /\ owner \in Seq(Sessions) /\ handled \in Seq(Nat) /\ Len(handled) = Len(owner)
          /\ Prompts = 1..Len(owner)
      BY DEF BridgeInv, TypeOK, Prompts
    <2>2. ASSUME NEW i \in 1..Len(sub), LoopTurn(i), ~ sub[i].stop
          PROVE  ~ early' /\ \A n \in Prompts' : handled'[n] <= 1
      <3>1. owner' = owner /\ drops' = drops
        BY <2>2 DEF LoopTurn
      <3> QED
        BY <2>1, <2>2, <3>1, StableTurn DEF Prompts
    <2>3. CASE \A i \in 1..Len(sub) : LoopTurn(i) => sub[i].stop
      <3>1. /\ drops = 0 /\ ~ early' /\ \A n \in 1..Len(owner) : handled[n] <= 1
            /\ UNCHANGED <<owner, handled>> \/ SendPrompt
        BY <2>1, <2>3, HandledStep DEF StableIsExact
      <3>2. CASE UNCHANGED <<owner, handled>>
        BY <2>1, <3>1, <3>2 DEF Prompts
      <3>3. CASE SendPrompt
        <4>1. owner' = Append(owner, inUse) /\ handled' = Append(handled, 0)
          BY <3>3 DEF SendPrompt
        <4>2. Prompts' = 1..(Len(owner) + 1)
          BY <2>1, <4>1 DEF Prompts
        <4> QED
          BY <2>1, <3>1, <4>1, <4>2
      <3> QED
        BY <3>1, <3>2, <3>3
    <2> QED
      BY <2>2, <2>3
  <1> QED
    BY <1>1, <1>2, BridgeIsConsistent, PTL DEF Spec

(* While no stream breaks, a note is credited to the session in use only if
   it is a note of that session's prompts: it is the youngest session, so it
   is the oldest only when it is alone, and then the stream of its loop holds
   nothing of another. *)
THEOREM NotesSpareTheSessionInUse == Spec => []NotesSpareTheWaiter
  <1>1. Init => NotesSpareTheWaiter
    BY DEF Init, NotesSpareTheWaiter
  <1>2. BridgeInv /\ NotesSpareTheWaiter /\ [Next]_vars => NotesSpareTheWaiter'
    <2> SUFFICES ASSUME BridgeInv, NotesSpareTheWaiter, [Next]_vars, drops' = 0,
                        NEW c \in credited', c[2] = inUse'
                 PROVE  owner'[c[1]] = inUse'
      BY DEF NotesSpareTheWaiter
    <2>1. ASSUME NEW i \in 1..Len(sub), LoopTurn(i), ~ sub[i].stop
          PROVE  owner'[c[1]] = inUse'
      <3> DEFINE e == Head(sub[i].stream)
      <3>1. /\ 1 \in 1..Len(sub[i].stream) /\ e = sub[i].stream[1]
            /\ HandleEvent(e)
            /\ UNCHANGED <<owner, inUse, drops>>
        BY <2>1, TurnFacts
      <3>2. StableStreams /\ i = cur /\ RegisteredInOrder
        BY <2>1, <3>1, StreamFacts DEF BridgeInv, StableStreams
      <3>3. CASE c \in credited
        BY <3>1, <3>3 DEF NotesSpareTheWaiter
      <3>4. CASE c = <<e.prompt, Oldest>> /\ Active # {}
        <4>1. Oldest \in Active /\ \A t \in Active : stamp[Oldest] <= stamp[t]
          BY <3>4, OldestIsLeast DEF BridgeInv, TypeOK
        <4>2. inUse \in Active /\ inUse # NoSession /\ inUse = Oldest
          BY <3>1, <3>4, <4>1, BridgeConstants DEF Active
        <4>3. \A t \in Active : stamp[t] \in Nat /\ stamp[t] = stamp[inUse]
          <5>1. \A t \in Active : stamp[t] \in Nat /\ stamp[t] <= stamp[inUse]
            BY <3>2, <4>2 DEF RegisteredInOrder, BridgeInv, TypeOK, Active
          <5> QED
            BY <4>1, <4>2, <5>1
        <4>4. Active = {inUse}
          BY <3>2, <4>2, <4>3 DEF RegisteredInOrder
        <4>5. owner[e.prompt] = inUse
          BY <3>1, <3>2, <4>2, <4>4, StreamFacts DEF StableStreams
        <4> QED
          BY <3>1, <3>4, <4>5
      <3> HIDE DEF e
      <3> QED
        BY <3>1, <3>3, <3>4 DEF HandleEvent
    <2>2. CASE \A i \in 1..Len(sub) : LoopTurn(i) => sub[i].stop
      <3>1. /\ drops = 0 /\ c \in credited
            /\ UNCHANGED <<owner, handled>> \/ SendPrompt
        BY <2>2, HandledStep
      <3>2. c[1] \in 1..Len(owner) /\ c[2] \in opened
        BY <3>1 DEF BridgeInv, CreditedIsOpen
      <3>3. inUse' = inUse
        <4>1. c[2] # NoSession
          BY <3>2, BridgeConstants DEF BridgeInv, TypeOK
        <4>2. ASSUME NEW s \in Sessions, NEW stays \in BOOLEAN, OpenSession(s, stays)
              PROVE  FALSE
          BY <3>2, <4>2 DEF OpenSession
        <4>3. ~ CloseSession
          BY <4>1 DEF CloseSession
        <4> QED
          BY <4>2, <4>3 DEF Next, vars, SendPrompt, PromptReturns, StartWaiting, WaitTimesOut,
                            EndTask, AgentNotes, AgentFinishes, LoopTurn, StreamBreaks, Reconnect
      <3>4. owner'[c[1]] = owner[c[1]]
        <4>1. owner \in Seq(Sessions) /\ inUse \in Sessions
          BY <3>2, <3>3 DEF BridgeInv, TypeOK
        <4> QED
          BY <3>1, <3>2, <4>1, AppendEvent DEF SendPrompt
      <3> QED
        BY <3>1, <3>3, <3>4 DEF NotesSpareTheWaiter
    <2> QED
      BY <2>1, <2>2
  <1> QED
    BY <1>1, <1>2, BridgeIsConsistent, PTL DEF Spec
=============================================================================
