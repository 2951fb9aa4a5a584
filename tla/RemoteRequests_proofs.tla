------------------------ MODULE RemoteRequests_proofs ------------------------
(***************************************************************************)
(* For any clients, identities, capacities and times that satisfy the      *)
(* assumptions: a command is executed at most once, what a client is told  *)
(* is true, and the counters of the registry are exact.                    *)
(***************************************************************************)
EXTENDS RemoteRequests, FunctionTheorems, FiniteSetTheorems, SequenceTheorems, TLAPS

-----------------------------------------------------------------------------
(* The inductive invariant.                                                *)

HandlerStates == {"unsent", "inflight", "emitting", "forgetting", "waiting",
                  "answered", "gone"}
Verdicts == {None, "unsent", "unconfirmed"} \cup Executed \cup Refused
ClientRecords ==
  [phase : {"idle", "waiting", "retry", "done"}, try : {1, 2}, key : Keys,
   token : Nat, sentAt : Nat, verdict : Verdicts]
HandlerRecords ==
  [state : HandlerStates, sentAt : Nat, entry : Handlers \cup {None},
   answer : {None} \cup Answers, replay : BOOLEAN]
Records == [key : Keys, at : Nat, tier : Tiers]

OutsideTypeOK ==
  /\ clock \in Nat
  /\ instance \in Nat
  /\ open \in BOOLEAN
  /\ client \in [Clients -> ClientRecords]
StoreTypeOK ==
  /\ handler \in [Handlers -> HandlerRecords]
  /\ registry \in [Keys -> Handlers \cup {None}]
  /\ slot \in [Handlers -> {None} \cup Answers]
  /\ order \in Seq(Records)
  /\ owner \subseteq Handlers
  /\ reply \in [Handlers -> {None, "lost"} \cup Executed]
  /\ effect \in [Clients -> Seq(Executed)]
TypeOK == OutsideTypeOK /\ StoreTypeOK

HasRecord(k) == \E i \in DOMAIN order : order[i].key = k
Begun(h) == handler[h].state \notin {"unsent", "inflight"}
InHands(h) == h \in owner \/ reply[h] # None
Pending(h) == handler[h].state \in {"emitting", "forgetting"} \/ InHands(h)
Waits(c, n) == client[c].phase = "waiting" /\ client[c].try = n

\* A request of c may still ask the registry.
CanStart(c) ==
  \/ client[c].phase \in {"idle", "retry"}
  \/ Waits(c, 1)
  \/ \E n \in {1, 2} : handler[<<c, n>>].state = "inflight"

\* How far a client is says how far its two handlers can be.
ClientFits ==
  \A c \in Clients :
    /\ client[c].phase = "idle" => client[c].try = 1 /\ handler[<<c, 1>>].state = "unsent"
    /\ client[c].phase = "retry" => client[c].try = 2 /\ handler[<<c, 2>>].state = "unsent"
    /\ client[c].try = 1 => handler[<<c, 2>>].state = "unsent"
    /\ client[c].phase # "done" => client[c].verdict = None
    /\ client[c].token <= instance

\* What a handler waits for, and when its command may be with the owner.
HandlerFit(h) ==
  /\ handler[h].state = "answered" => Waits(h[1], h[2])
  /\ handler[h].state = "waiting" =>
       /\ handler[h].entry \in Handlers
       /\ handler[h].entry[1] = h[1]
       /\ Begun(handler[h].entry)
  /\ InHands(h) => handler[h].state \in {"waiting", "answered", "gone"}
  /\ InHands(h) /\ handler[h].state = "waiting" => handler[h].entry = h
  /\ h \in owner => reply[h] = None
HandlerFits == \A h \in Handlers : HandlerFit(h)

Stages == ClientFits /\ HandlerFits

\* Neither a client nor a request waits longer than one attempt.
Deadlines ==
  /\ \A c \in Clients : client[c].phase = "waiting" =>
       client[c].sentAt <= clock /\ clock <= client[c].sentAt + Attempt
  /\ \A h \in Handlers : handler[h].state = "inflight" =>
       handler[h].sentAt <= clock /\ clock <= handler[h].sentAt + Attempt

\* An identity has one entry; pending ones have no record, others have one.
Identities ==
  /\ \A k \in Keys : registry[k] # None => Key(registry[k]) = k /\ Begun(registry[k])
  /\ \A h \in Handlers : Pending(h) => registry[Key(h)] = h /\ ~HasRecord(Key(h))
  /\ \A i \in DOMAIN order : registry[order[i].key] # None
  /\ \A i, j \in DOMAIN order : order[i].key = order[j].key => i = j

\* A record is younger than what may still ask for it can be.
Fresh(rec, c) ==
  /\ Waits(c, 1) => client[c].sentAt <= rec.at
  /\ client[c].phase = "retry" => clock <= rec.at + Attempt
  /\ \A n \in {1, 2} : handler[<<c, n>>].state = "inflight" =>
       handler[<<c, n>>].sentAt <= rec.at + Attempt
Retained ==
  \A i \in DOMAIN order :
    order[i].at <= clock /\ Fresh(order[i], registry[order[i].key][1])

\* While a request may still ask, the registry knows that the command ran.
RunsOnce ==
  \A c \in Clients :
    /\ Len(effect[c]) <= 1
    /\ effect[c] # <<>> => \E n \in {1, 2} : Begun(<<c, n>>)
    /\ effect[c] # <<>> /\ CanStart(c) /\ client[c].token = instance =>
         registry[client[c].key] # None /\ registry[client[c].key][1] = c

\* What may still run has not run.
ToRun(h) == handler[h].state \in {"emitting", "forgetting"} \/ h \in owner
PendingIsNew == \A h \in Handlers : ToRun(h) => effect[h[1]] = <<>>

Once == RunsOnce /\ PendingIsNew

\* Every outcome on its way is the outcome of the execution.
Outcomes ==
  /\ \A h \in Handlers :
       /\ slot[h] \in Executed => effect[h[1]] = <<slot[h]>>
       /\ reply[h] \in Executed => effect[h[1]] = <<reply[h]>>
       /\ handler[h].state = "answered" /\ handler[h].answer \in Executed =>
            effect[h[1]] = <<handler[h].answer>>
  /\ \A c \in Clients : client[c].verdict \in Executed => effect[c] = <<client[c].verdict>>

\* The command of c was not executed and no handler can bring it to the owner.
NeverRuns(c) ==
  /\ effect[c] = <<>>
  /\ \A n \in {1, 2} : /\ handler[<<c, n>>].state \notin {"inflight", "emitting"}
                       /\ <<c, n>> \notin owner
\* An answer that the client of h would believe.
Believed(h, replay) == h[2] = 2 => replay

\* A refusal in a slot is the one of admission.
SlotFits ==
  \A h \in Handlers :
    /\ slot[h] \in {None, "lost", "busy"} \cup Executed
    /\ ~Begun(h) \/ handler[h].state = "emitting" => slot[h] = None

\* A refusal that is or will be believed is a refusal for ever.
AnswerFinal(h) ==
  /\ /\ handler[h].state = "answered"
     /\ handler[h].answer \in Refused
     /\ Believed(h, handler[h].replay)
     => NeverRuns(h[1])
  /\ /\ handler[h].state = "waiting"
     /\ slot[handler[h].entry] = "busy"
     /\ Waits(h[1], h[2])
     /\ Believed(h, handler[h].entry # h)
     => NeverRuns(h[1])
AnswersFinal == \A h \in Handlers : AnswerFinal(h)

\* An entry that was refused is about to leave.
EntriesLive ==
  \A k \in Keys : registry[k] # None /\ slot[registry[k]] = "busy" =>
    handler[registry[k]].state = "forgetting"

VerdictsFinal ==
  \A c \in Clients : client[c].verdict \in Refused \cup {"unsent"} =>
    client[c].phase = "done" /\ NeverRuns(c)

Refusals == SlotFits /\ AnswersFinal /\ EntriesLive /\ VerdictsFinal

Promises == /\ Stages /\ Deadlines /\ Identities /\ Retained
            /\ Once /\ Outcomes /\ Refusals
IInv == TypeOK /\ Promises

-----------------------------------------------------------------------------
(* Facts about the constants and the helpers.                              *)

LEMMA Numbers == {Attempt, Retention} \subseteq Nat /\ 2 * Attempt < Retention
  BY RetentionAssumption

LEMMA PairIs == \A h \in Handlers :
    h[1] \in Clients /\ h[2] \in {1, 2} /\ h = <<h[1], h[2]>>
  BY DEF Handlers

LEMMA HandlerIs == \A c \in Clients, n \in {1, 2} :
    <<c, n>> \in Handlers /\ <<c, n>>[1] = c /\ <<c, n>>[2] = n
  BY DEF Handlers

\* Nothing of the program is taken for None.
LEMMA NoneIs ==
    /\ None \notin Handlers \cup Keys \cup Answers \cup Refused \cup {"unsent", "unconfirmed"}
    /\ Executed \cap (Refused \cup {"lost", "unsent", "unconfirmed"}) = {}
  BY NoneAssumption, ExecutedAssumption DEF Handlers, Answers, Refused

LEMMA UpTo ==
  ASSUME NEW n \in Nat
  PROVE  IsFiniteSet(1 .. n) /\ Cardinality(1 .. n) = n
<1>1. 1 \in Int /\ n \in Int
  OBVIOUS
<1>2. /\ IsFiniteSet(1 .. n)
      /\ Cardinality(1 .. n) = IF 1 > n THEN 0 ELSE n - 1 + 1
  BY <1>1, FS_Interval
<1> QED
  BY <1>2

\* The part of the registry's time that may expire is a front of the records,
\* and all of it is expired.
LEMMA PurgeIs ==
  ASSUME TypeOK
  PROVE  /\ PurgeCount \in 0 .. Len(order)
         /\ \A i \in 1 .. PurgeCount : i \in DOMAIN order /\ Expired(order[i])
<1> DEFINE S == {i \in DOMAIN order : \A j \in 1 .. i : Expired(order[j])}
           n == Len(order)
<1>1. n \in Nat /\ DOMAIN order = 1 .. n
  BY DEF TypeOK, StoreTypeOK
<1>2. S \subseteq 1 .. n /\ IsFiniteSet(1 .. n) /\ Cardinality(1 .. n) = n
  BY <1>1, UpTo
<1>3. Cardinality(S) \in 0 .. n
  BY <1>1, <1>2, FS_Subset, FS_CardinalityType
<1>4. ASSUME NEW i \in 1 .. Cardinality(S)  PROVE i \in S
  <2> SUFFICES ASSUME i \notin S PROVE FALSE
    OBVIOUS
  <2>1. \A k \in S : k < i
    <3> SUFFICES ASSUME NEW k \in S, k >= i PROVE FALSE
      BY <1>1, <1>2, <1>3
    <3>1. i \in DOMAIN order
      BY <1>1, <1>2, <1>3
    <3>2. 1 .. i \subseteq 1 .. k
      BY <1>1, <1>2, <1>3
    <3> QED
      BY <3>1, <3>2
  <2>2. S \subseteq 1 .. (i - 1)
    BY <2>1, <1>1, <1>2, <1>3
  <2>3. IsFiniteSet(1 .. (i - 1)) /\ Cardinality(1 .. (i - 1)) = i - 1
    <3>1. i - 1 \in Nat
      BY <1>1, <1>2, <1>3
    <3> QED
      BY <3>1, UpTo
  <2>4. Cardinality(S) <= i - 1
    BY <2>2, <2>3, FS_Subset
  <2> QED
    BY <2>4, <1>3
<1>5. PurgeCount = Cardinality(S)
  BY DEF PurgeCount
<1>6. ASSUME NEW i \in 1 .. PurgeCount  PROVE i \in DOMAIN order /\ Expired(order[i])
  <2>1. i \in S
    BY <1>4, <1>5
  <2>2. i \in 1 .. i
    BY <1>1, <1>2, <2>1
  <2> QED
    BY <2>1, <2>2
<1> QED
  BY <1>3, <1>5, <1>6

\* What a purge takes and what it leaves, position by position.
LEMMA PurgeSplits ==
  ASSUME TypeOK
  PROVE  /\ PurgeCount \in 0 .. Len(order) /\ Len(order) \in Nat
         /\ Purged \in Seq(Records) /\ DOMAIN Purged = 1 .. PurgeCount
         /\ \A i \in 1 .. PurgeCount : Purged[i] = order[i]
         /\ Left \in Seq(Records) /\ Len(Left) = Len(order) - PurgeCount
         /\ DOMAIN Left = 1 .. (Len(order) - PurgeCount)
         /\ \A i \in 1 .. (Len(order) - PurgeCount) : Left[i] = order[i + PurgeCount]
<1> DEFINE n == Len(order)
           p == PurgeCount
<1>1. order \in Seq(Records) /\ n \in Nat /\ DOMAIN order = 1 .. n /\ p \in 0 .. n
  BY PurgeIs DEF TypeOK, StoreTypeOK
<1>2. \A i \in 1 .. n : order[i] \in Records
  BY <1>1, ElementOfSeq
<1>3. Purged \in Seq(Records) /\ Len(Purged) = p /\ \A i \in 1 .. p : Purged[i] = order[i]
  <2>1. \A i \in 1 .. p : order[i] \in Records
    BY <1>1, <1>2
  <2>2. Purged = [i \in 1 .. p |-> order[i]]
    BY <1>1 DEF Purged
  <2>3. Purged \in [1 .. p -> Records]
    BY <2>1, <2>2
  <2> QED
    BY <1>1, <2>2, <2>3
<1>4. /\ Left \in Seq(Records) /\ Len(Left) = n - p
      /\ \A i \in 1 .. n - p : Left[i] = order[i + p]
  <2>1. \A i \in 1 .. n - p : order[i + p] \in Records
    BY <1>1, <1>2
  <2>2. Left = [i \in 1 .. n - p |-> order[i + p]]
    BY <1>1 DEF Left
  <2>3. Left \in [1 .. n - p -> Records]
    BY <2>1, <2>2
  <2> QED
    BY <1>1, <2>2, <2>3
<1>5. DOMAIN Purged = 1 .. p /\ DOMAIN Left = 1 .. n - p
  BY <1>1, <1>3, <1>4
<1> QED
  BY <1>1, <1>3, <1>4, <1>5

\* The registry as begin finds it after purge_expired.
LEMMA PurgedIs ==
  ASSUME TypeOK, Identities
  PROVE  /\ Registered \in [Keys -> Handlers \cup {None}]
         /\ Left \in Seq(Records)
         /\ \A k \in Keys : Registered[k] \in {registry[k], None}
         /\ \A k \in Keys : Registered[k] # registry[k] =>
              \E i \in DOMAIN order : order[i].key = k /\ Expired(order[i])
         /\ \A i \in DOMAIN Left : \E j \in DOMAIN order :
              Left[i] = order[j] /\ Registered[order[j].key] = registry[order[j].key]
         /\ \A i, j \in DOMAIN Left : Left[i].key = Left[j].key => i = j
<1> DEFINE n == Len(order)
           p == PurgeCount
<1>1. order \in Seq(Records) /\ n \in Nat /\ DOMAIN order = 1 .. n /\ p \in 0 .. n
  BY PurgeIs DEF TypeOK, StoreTypeOK
<1>2. \A i \in 1 .. n : order[i] \in Records
  BY <1>1, ElementOfSeq
<1>3. Purged \in Seq(Records) /\ \A i \in 1 .. p : Purged[i] = order[i]
  BY PurgeSplits
<1>4. Left \in Seq(Records) /\ \A i \in 1 .. n - p : Left[i] = order[i + p]
  BY PurgeSplits
<1>5. DOMAIN Purged = 1 .. p /\ DOMAIN Left = 1 .. n - p
  BY PurgeSplits
<1> HIDE DEF n, p
<1>6. \A k \in Keys : Registered[k] =
        IF \E i \in 1 .. p : order[i].key = k THEN None ELSE registry[k]
  <2>1. ASSUME NEW k \in Keys
        PROVE  (\E i \in DOMAIN Purged : Purged[i].key = k)
                 <=> (\E i \in 1 .. p : order[i].key = k)
    BY <1>3, <1>5
  <2> QED
    BY <2>1 DEF Registered
<1>7. Registered \in [Keys -> Handlers \cup {None}]
  <2>1. registry \in [Keys -> Handlers \cup {None}]
    BY DEF TypeOK, StoreTypeOK
  <2>2. \A k \in Keys : Registered[k] \in Handlers \cup {None}
    BY <2>1, <1>6
  <2>3. Registered = [k \in Keys |-> Registered[k]]
    BY DEF Registered
  <2> QED
    BY <2>2, <2>3
<1>8. ASSUME NEW k \in Keys, Registered[k] # registry[k]
      PROVE  \E i \in DOMAIN order : order[i].key = k /\ Expired(order[i])
  <2>1. PICK i \in 1 .. p : order[i].key = k
    BY <1>6, <1>8
  <2>2. i \in DOMAIN order /\ Expired(order[i])
    BY PurgeIs DEF p
  <2> QED
    BY <2>1, <2>2
<1>9. ASSUME NEW i \in DOMAIN Left
      PROVE  /\ i + p \in DOMAIN order /\ Left[i] = order[i + p]
             /\ Registered[order[i + p].key] = registry[order[i + p].key]
  <2>1. i + p \in DOMAIN order /\ Left[i] = order[i + p] /\ i + p \notin 1 .. p
    BY <1>1, <1>4, <1>5
  <2>2. order[i + p].key \in Keys
    BY <2>1, <1>1, <1>2 DEF Records
  <2>3. \A j \in 1 .. p : order[j].key # order[i + p].key
    BY <2>1, <1>1 DEF Identities
  <2> QED
    BY <2>1, <2>2, <2>3, <1>6
<1>10. ASSUME NEW i \in DOMAIN Left, NEW j \in DOMAIN Left, Left[i].key = Left[j].key
       PROVE  i = j
  <2>1. i + p = j + p
    BY <1>9, <1>10 DEF Identities
  <2> QED
    BY <2>1, <1>1, <1>5
<1>11. \A k \in Keys : Registered[k] \in {registry[k], None}
  BY <1>6
<1> QED
  BY <1>4, <1>7, <1>8, <1>9, <1>10, <1>11

\* What a purge keeps: pending entries, and the entry of a command that ran
\* as long as a request may still ask for it.
LEMMA PurgeKeeps ==
  ASSUME TypeOK, Stages, Deadlines, Identities, Retained, Once
  PROVE  /\ \A h \in Handlers : Pending(h) => Registered[Key(h)] = h
         /\ \A c \in Clients :
              effect[c] # <<>> /\ CanStart(c) /\ client[c].token = instance =>
                Registered[client[c].key] # None /\ Registered[client[c].key][1] = c
<1>1. \A h \in Handlers : Key(h) \in Keys
  BY PairIs DEF TypeOK, OutsideTypeOK, ClientRecords, Key
<1>2. ASSUME NEW h \in Handlers, Pending(h)
      PROVE  Registered[Key(h)] = h
  BY <1>1, <1>2, PurgedIs DEF Identities, HasRecord
<1>3. ASSUME NEW c \in Clients, effect[c] # <<>>, CanStart(c), client[c].token = instance
      PROVE  Registered[client[c].key] # None /\ Registered[client[c].key][1] = c
  <2> DEFINE k == client[c].key
  <2>1. k \in Keys /\ registry[k] # None /\ registry[k][1] = c
    BY <1>3 DEF Once, RunsOnce, TypeOK, OutsideTypeOK, ClientRecords
  <2>2. ASSUME NEW i \in DOMAIN order, order[i].key = k, Expired(order[i])
        PROVE  FALSE
    <3>1. order[i].at \in Nat /\ clock \in Nat /\ client[c].sentAt \in Nat
      <4>1. order[i] \in Records
        BY DEF TypeOK, StoreTypeOK
      <4> QED
        BY <4>1 DEF TypeOK, Records, OutsideTypeOK, ClientRecords
    <3>2. Fresh(order[i], c)
      BY <2>1, <2>2 DEF Retained
    <3>3. ~(clock <= order[i].at + 2 * Attempt)
      BY <2>2, <3>1, Numbers DEF Expired
    <3>4. ASSUME Waits(c, 1)  PROVE FALSE
      BY <3>1, <3>2, <3>3, <3>4, Numbers DEF Fresh, Waits, Deadlines
    <3>5. ASSUME client[c].phase = "retry"  PROVE FALSE
      BY <3>1, <3>2, <3>3, <3>5, Numbers DEF Fresh
    <3>6. ASSUME client[c].phase = "idle"  PROVE FALSE
      <4>1. handler[<<c, 1>>].state = "unsent" /\ handler[<<c, 2>>].state = "unsent"
        BY <3>6 DEF Stages, ClientFits
      <4>2. ~Begun(<<c, 1>>) /\ ~Begun(<<c, 2>>)
        BY <4>1 DEF Begun
      <4> QED
        BY <1>3, <4>2 DEF Once, RunsOnce
    <3>7. ASSUME NEW m \in {1, 2}, handler[<<c, m>>].state = "inflight"  PROVE FALSE
      <4>1. <<c, m>> \in Handlers /\ handler[<<c, m>>].sentAt \in Nat
        BY HandlerIs DEF TypeOK, StoreTypeOK, HandlerRecords
      <4>2. clock <= handler[<<c, m>>].sentAt + Attempt
        BY <3>7, <4>1 DEF Deadlines
      <4>3. handler[<<c, m>>].sentAt <= order[i].at + Attempt
        BY <3>2, <3>7 DEF Fresh
      <4> QED
        BY <3>1, <3>3, <4>1, <4>2, <4>3, Numbers
    <3> QED
      BY <1>3, <3>4, <3>5, <3>6, <3>7 DEF CanStart
  <2>3. Registered[k] = registry[k]
    BY <2>1, <2>2, PurgedIs
  <2> QED
    BY <2>1, <2>3
<1> QED
  BY <1>2, <1>3

-----------------------------------------------------------------------------
(* What the building blocks of the actions do.                             *)

LEMMA BecomeIs ==
  ASSUME TypeOK, NEW h \in Handlers, NEW s \in HandlerStates,
         NEW e \in Handlers \cup {None}, Become(h, s, e)
  PROVE  /\ handler' \in [Handlers -> HandlerRecords]
         /\ \A g \in Handlers \ {h} : handler'[g] = handler[g]
         /\ handler'[h].state = s /\ handler'[h].entry = e
<1> DEFINE r == [Idle EXCEPT !.state = s, !.entry = e]
<1>1. r \in HandlerRecords /\ r.state = s /\ r.entry = e
  BY DEF HandlerRecords, Idle
<1>2. handler' = [handler EXCEPT ![h] = r] /\ handler \in [Handlers -> HandlerRecords]
  BY DEF Become, TypeOK, StoreTypeOK
<1> HIDE DEF r
<1> QED
  BY <1>1, <1>2

LEMMA RespondIs ==
  ASSUME TypeOK, NEW h \in Handlers, NEW answer \in Answers, NEW replay \in BOOLEAN,
         Respond(h, answer, replay)
  PROVE  /\ handler' \in [Handlers -> HandlerRecords]
         /\ \A g \in Handlers \ {h} : handler'[g] = handler[g]
         /\ handler'[h].state \in {"gone", "answered"}
         /\ handler'[h].state = "answered" =>
              /\ Waits(h[1], h[2])
              /\ handler'[h].answer = answer
                   \/ (answer = "busy" /\ handler'[h].answer = "closing")
              /\ handler'[h].replay => replay
<1>1. CASE Become(h, "gone", None)
  <2>1. "gone" \in HandlerStates
    BY DEF HandlerStates
  <2> QED
    BY <1>1, <2>1, BecomeIs
<1>2. CASE ~Become(h, "gone", None)
  <2> DEFINE a == IF ~open /\ answer = "busy" THEN "closing" ELSE answer
             b == replay /\ (open \/ answer # "busy")
             r == [Idle EXCEPT !.state = "answered", !.answer = a, !.replay = b]
  <2>1. a \in Answers /\ b \in BOOLEAN
    BY DEF Answers, Refused
  <2> HIDE DEF a, b
  <2>2. /\ r \in HandlerRecords /\ r.state = "answered"
        /\ r.answer = a /\ r.replay = b
    BY <2>1 DEF HandlerRecords, HandlerStates, Idle
  <2>3. /\ handler' = [handler EXCEPT ![h] = r] /\ handler \in [Handlers -> HandlerRecords]
        /\ Waits(h[1], h[2])
    BY <1>2 DEF Respond, Waits, a, b, TypeOK, StoreTypeOK
  <2> HIDE DEF r
  <2>4. /\ handler' \in [Handlers -> HandlerRecords]
        /\ \A g \in Handlers \ {h} : handler'[g] = handler[g]
        /\ handler'[h] = r
    BY <2>2, <2>3
  <2>5. a = answer \/ (answer = "busy" /\ a = "closing")
    BY DEF a
  <2>6. b => replay
    BY DEF b
  <2>7. /\ handler'[h].state = "answered"
        /\ handler'[h].answer = answer
             \/ (answer = "busy" /\ handler'[h].answer = "closing")
    BY <2>2, <2>4, <2>5
  <2>8. handler'[h].replay => replay
    BY <2>2, <2>4, <2>6
  <2> QED
    BY <2>3, <2>4, <2>7, <2>8
<1> QED
  BY <1>1, <1>2

\* A handler that goes on, while clients and clock rest.
OnlyHandler(h) ==
  /\ UNCHANGED <<clock, client, open, instance>>
  /\ \A g \in Handlers \ {h} : handler'[g] = handler[g]
  /\ handler[h].state \notin {"unsent", "answered", "gone"}
  /\ handler'[h].state \notin {"unsent", "inflight"}

\* No record is new, and those that stay keep their entry.
RecordsStay ==
  \A i \in DOMAIN order' : \E j \in DOMAIN order :
    order'[i] = order[j] /\ registry'[order[j].key] = registry[order[j].key]

\* The registry forgets nothing that is pending or may still be asked for.
Forgets ==
  /\ RecordsStay
  /\ \A k \in Keys : registry'[k] \in {registry[k], None}
  /\ \A i, j \in DOMAIN order' : order'[i].key = order'[j].key => i = j
  /\ \A h \in Handlers : Pending(h) => registry'[Key(h)] = h
  /\ \A c \in Clients :
       effect[c] # <<>> /\ CanStart(c) /\ client[c].token = instance =>
         registry'[client[c].key] # None /\ registry'[client[c].key][1] = c

LEMMA ForgetsNothing ==
  ASSUME IInv, UNCHANGED <<registry, order>>
  PROVE  Forgets
<1>1. RecordsStay
  BY DEF RecordsStay
<1>2. \A k \in Keys : registry'[k] \in {registry[k], None}
  OBVIOUS
<1>3. \A i, j \in DOMAIN order' : order'[i].key = order'[j].key => i = j
  BY DEF IInv, Promises, Identities
<1>4. \A h \in Handlers : Pending(h) => registry'[Key(h)] = h
  BY DEF IInv, Promises, Identities
<1>5. \A c \in Clients :
        effect[c] # <<>> /\ CanStart(c) /\ client[c].token = instance =>
          registry'[client[c].key] # None /\ registry'[client[c].key][1] = c
  BY DEF IInv, Promises, Once, RunsOnce
<1> QED
  BY <1>1, <1>2, <1>3, <1>4, <1>5 DEF Forgets

LEMMA ForgetsExpired ==
  ASSUME IInv, registry' = Registered, order' = Left
  PROVE  Forgets
<1>1. /\ RecordsStay
      /\ \A k \in Keys : registry'[k] \in {registry[k], None}
      /\ \A i, j \in DOMAIN order' : order'[i].key = order'[j].key => i = j
  BY PurgedIs DEF IInv, Promises, RecordsStay
<1>2. /\ \A h \in Handlers : Pending(h) => registry'[Key(h)] = h
      /\ \A c \in Clients :
           effect[c] # <<>> /\ CanStart(c) /\ client[c].token = instance =>
             registry'[client[c].key] # None /\ registry'[client[c].key][1] = c
  BY PurgeKeeps DEF IInv, Promises
<1> QED
  BY <1>1, <1>2 DEF Forgets

\* Deadlines and ages are those of before; no request asks that did not.
LEMMA HandlerMoves ==
  ASSUME IInv, NEW h \in Handlers, OnlyHandler(h)
  PROVE  /\ ClientFits' /\ Deadlines'
         /\ \A c \in Clients : CanStart(c)' => CanStart(c)
         /\ \A g \in Handlers : Begun(g) => Begun(g)'
         /\ RecordsStay => Retained'
<1>1. \A g \in Handlers : handler'[g].state \in {"unsent", "inflight"} =>
        handler'[g] = handler[g]
  BY DEF OnlyHandler
<1>2. \A g \in Handlers : handler[g].state = "unsent" => handler'[g] = handler[g]
  BY DEF OnlyHandler
<1>3. ClientFits'
  BY <1>2, HandlerIs DEF IInv, Promises, Stages, ClientFits, OnlyHandler
<1>4. Deadlines'
  BY <1>1 DEF IInv, Promises, Deadlines, OnlyHandler
<1>5. \A c \in Clients : CanStart(c)' => CanStart(c)
  BY <1>1, HandlerIs DEF CanStart, Waits, OnlyHandler
<1>6. \A g \in Handlers : Begun(g) => Begun(g)'
  BY DEF Begun, OnlyHandler
<1>7. ASSUME RecordsStay  PROVE Retained'
  <2> SUFFICES ASSUME NEW i \in DOMAIN order'
               PROVE  (order[i].at <= clock /\ Fresh(order[i], registry[order[i].key][1]))'
    BY DEF Retained
  <2>1. PICK j \in DOMAIN order :
          order'[i] = order[j] /\ registry'[order[j].key] = registry[order[j].key]
    BY <1>7 DEF RecordsStay
  <2>2. PICK rec \in Records : rec = order[j]
    BY DEF IInv, Promises, TypeOK, StoreTypeOK
  <2>3. PICK c \in Clients : c = registry[rec.key][1]
    <3>1. registry[rec.key] \in Handlers
      BY <2>2 DEF IInv, Promises, TypeOK, StoreTypeOK, Identities, Records
    <3> QED
      BY <3>1, PairIs
  <2>4. rec.at <= clock /\ Fresh(rec, c)
    BY <2>2, <2>3 DEF IInv, Promises, Retained
  <2>5. Fresh(rec, c)'
    <3>1. Waits(c, 1)' => client'[c].sentAt <= rec.at
      BY <2>4 DEF Fresh, Waits, OnlyHandler
    <3>2. client'[c].phase = "retry" => clock' <= rec.at + Attempt
      BY <2>4 DEF Fresh, OnlyHandler
    <3>3. ASSUME NEW n \in {1, 2}, handler'[<<c, n>>].state = "inflight"
          PROVE  handler'[<<c, n>>].sentAt <= rec.at + Attempt
      <4>1. handler'[<<c, n>>] = handler[<<c, n>>]
        BY <1>1, <3>3, HandlerIs
      <4> QED
        BY <2>4, <3>3, <4>1 DEF Fresh
    <3> QED
      BY <3>1, <3>2, <3>3 DEF Fresh
  <2>6. order'[i] = rec /\ registry'[rec.key][1] = c /\ clock' = clock
    BY <2>1, <2>2, <2>3 DEF OnlyHandler
  <2> QED
    BY <2>4, <2>5, <2>6
<1> QED
  BY <1>3, <1>4, <1>5, <1>6, <1>7

\* A handler step that admits nothing keeps identities and what ran.
LEMMA NothingNew ==
  ASSUME IInv, NEW h \in Handlers, OnlyHandler(h), Forgets, UNCHANGED effect,
         \A g \in Handlers : Pending(g)' => Pending(g)
  PROVE  Identities' /\ RunsOnce'
<1>1. /\ \A c \in Clients : CanStart(c)' => CanStart(c)
      /\ \A g \in Handlers : Begun(g) => Begun(g)'
  BY HandlerMoves
<1>2. \A g \in Handlers : Key(g)' = Key(g) /\ Key(g) \in Keys
  BY PairIs DEF Key, OnlyHandler, IInv, Promises, TypeOK, OutsideTypeOK, ClientRecords
<1>3. ASSUME NEW k \in Keys, registry'[k] # None
      PROVE  (Key(registry[k]) = k /\ Begun(registry[k]))'
  <2>1. PICK g \in Handlers : registry'[k] = g /\ registry[k] = g
    BY <1>3 DEF Forgets, IInv, Promises, TypeOK, StoreTypeOK
  <2>2. Key(g) = k /\ Begun(g)
    BY <1>3, <2>1 DEF IInv, Promises, Identities, Forgets
  <2>3. (Key(g) = k /\ Begun(g))'
    BY <1>1, <1>2, <2>2
  <2>4. Key(registry[k])' = Key(g)' /\ Begun(registry[k])' = Begun(g)'
    BY <2>1 DEF Key, Begun
  <2> QED
    BY <2>3, <2>4
<1>4. ASSUME NEW g \in Handlers, Pending(g)'
      PROVE  registry'[Key(g)'] = g /\ ~HasRecord(Key(g))'
  <2>1. Pending(g) /\ registry'[Key(g)] = g
    BY <1>4 DEF Forgets
  <2>2. ~HasRecord(Key(g))
    BY <2>1 DEF IInv, Promises, Identities
  <2>3. ~HasRecord(Key(g))'
    BY <1>2, <2>2 DEF HasRecord, Forgets, RecordsStay
  <2> QED
    BY <1>2, <2>1, <2>3
<1>5. \A i \in DOMAIN order' : registry'[order'[i].key] # None
  BY DEF Forgets, RecordsStay, IInv, Promises, Identities
<1>6. \A i, j \in DOMAIN order' : order'[i].key = order'[j].key => i = j
  BY DEF Forgets
<1>7. Identities'
  <2>1. \A k \in Keys : registry'[k] # None => (Key(registry[k]) = k /\ Begun(registry[k]))'
    BY <1>3
  <2>2. \A g \in Handlers : Pending(g)' => (registry[Key(g)] = g /\ ~HasRecord(Key(g)))'
    BY <1>4
  <2> QED
    BY <2>1, <2>2, <1>5, <1>6 DEF Identities
<1>8. RunsOnce'
  <2> SUFFICES ASSUME NEW c \in Clients
               PROVE  /\ Len(effect[c]) <= 1
                      /\ effect[c] # <<>> => \E n \in {1, 2} : Begun(<<c, n>>)'
                      /\ effect[c] # <<>> /\ CanStart(c)' /\ client[c].token = instance =>
                           registry'[client[c].key] # None /\ registry'[client[c].key][1] = c
    BY DEF RunsOnce, OnlyHandler
  <2>1. Len(effect[c]) <= 1
    BY DEF IInv, Promises, Once, RunsOnce
  <2>2. ASSUME effect[c] # <<>>  PROVE \E n \in {1, 2} : Begun(<<c, n>>)'
    BY <1>1, <2>2, HandlerIs DEF IInv, Promises, Once, RunsOnce
  <2>3. ASSUME effect[c] # <<>>, CanStart(c)', client[c].token = instance
        PROVE  registry'[client[c].key] # None /\ registry'[client[c].key][1] = c
    BY <1>1, <2>3 DEF Forgets
  <2> QED
    BY <2>1, <2>2, <2>3
<1> QED
  BY <1>7, <1>8

LEMMA StaysRefused ==
  ASSUME NEW h \in Handlers, OnlyHandler(h), UNCHANGED effect,
         owner' \subseteq owner \cup {h},
         h \in owner' => h \in owner \/ handler[h].state \in {"inflight", "emitting"},
         handler'[h].state = "emitting" => handler[h].state = "inflight"
  PROVE  \A c \in Clients : NeverRuns(c) => NeverRuns(c)'
<1> SUFFICES ASSUME NEW c \in Clients, NeverRuns(c)
             PROVE  NeverRuns(c)'
  OBVIOUS
<1>1. effect'[c] = <<>>
  BY DEF NeverRuns
<1>2. ASSUME NEW n \in {1, 2}
      PROVE  /\ handler'[<<c, n>>].state \notin {"inflight", "emitting"}
             /\ <<c, n>> \notin owner'
  <2>1. /\ <<c, n>> \in Handlers
        /\ handler[<<c, n>>].state \notin {"inflight", "emitting"}
        /\ <<c, n>> \notin owner
    BY HandlerIs DEF NeverRuns
  <2>2. CASE <<c, n>> = h
    BY <2>1, <2>2 DEF OnlyHandler
  <2>3. CASE <<c, n>> # h
    BY <2>1, <2>3 DEF OnlyHandler
  <2> QED
    BY <2>2, <2>3
<1> QED
  BY <1>1, <1>2 DEF NeverRuns

\* A handler that ends, with an answer or without: what it says is true.
Ends(h) ==
  /\ OnlyHandler(h)
  /\ Forgets
  /\ UNCHANGED <<slot, owner, reply, effect>>
  /\ handler[h].state \in {"inflight", "waiting"}
  /\ handler'[h].state \in {"gone", "answered"}
  /\ handler'[h].state = "answered" => Waits(h[1], h[2])
  /\ handler'[h].state = "answered" /\ handler'[h].answer \in Executed =>
       effect[h[1]] = <<handler'[h].answer>>
  /\ /\ handler'[h].state = "answered"
     /\ handler'[h].answer \in Refused
     /\ Believed(h, handler'[h].replay)
     => NeverRuns(h[1])'

LEMMA EndsKeep ==
  ASSUME IInv, NEW h \in Handlers, Ends(h)
  PROVE  Promises'
<1>0. OnlyHandler(h) /\ Forgets /\ UNCHANGED <<slot, owner, reply, effect>>
  BY DEF Ends
<1>1. /\ ClientFits' /\ Deadlines' /\ Retained'
      /\ \A g \in Handlers : Begun(g) => Begun(g)'
  BY <1>0, HandlerMoves DEF Forgets
<1>2. \A g \in Handlers : Pending(g)' => Pending(g)
  BY <1>0 DEF Pending, InHands, Ends, OnlyHandler
<1>3. Identities' /\ RunsOnce'
  BY <1>0, <1>2, NothingNew
<1>4. \A c \in Clients : NeverRuns(c) => NeverRuns(c)'
  BY <1>0, StaysRefused DEF Ends
<1>5. HandlerFits'
  <2> SUFFICES ASSUME NEW g \in Handlers
               PROVE  HandlerFit(g)'
    BY DEF HandlerFits
  <2>1. CASE g = h
    BY <2>1, <1>0 DEF Ends, OnlyHandler, Waits, IInv, Promises, Stages, HandlerFits, HandlerFit
  <2>2. CASE g # h
    BY <2>2, <1>0, <1>1 DEF OnlyHandler, Waits, IInv, Promises, Stages, HandlerFits, HandlerFit, InHands, Begun
  <2> QED
    BY <2>1, <2>2
<1>6. PendingIsNew'
  BY <1>0 DEF PendingIsNew, ToRun, Ends, OnlyHandler, IInv, Promises, Once
<1>7. Outcomes'
  BY <1>0 DEF Outcomes, Ends, OnlyHandler, IInv, Promises
<1>8. SlotFits'
  BY <1>0, <1>1 DEF SlotFits, Ends, OnlyHandler, IInv, Promises, Refusals, Begun
<1>9. AnswersFinal'
  <2> SUFFICES ASSUME NEW g \in Handlers
               PROVE  AnswerFinal(g)'
    BY DEF AnswersFinal
  <2>1. CASE g = h
    BY <2>1 DEF Ends, Believed, AnswerFinal
  <2>2. CASE g # h
    BY <2>2, <1>0, <1>4, PairIs DEF OnlyHandler, Waits, IInv, Promises, Refusals, AnswersFinal, AnswerFinal, Believed
  <2> QED
    BY <2>1, <2>2
<1>10. EntriesLive'
  BY <1>0 DEF EntriesLive, Ends, OnlyHandler, Forgets, IInv, Promises, Refusals, TypeOK, StoreTypeOK
<1>11. VerdictsFinal'
  BY <1>0, <1>4 DEF VerdictsFinal, OnlyHandler, IInv, Promises, Refusals
<1> QED
  BY <1>1, <1>3, <1>5, <1>6, <1>7, <1>8, <1>9, <1>10, <1>11 DEF Promises, Stages, Once, Refusals

\* A refusal of the first attempt that was not a replay: nothing has begun.
LEMMA FirstRefusal ==
  ASSUME IInv, NEW h \in Handlers, OnlyHandler(h), UNCHANGED <<owner, effect>>,
         handler[h].state = "inflight", handler'[h].state = "answered",
         Waits(h[1], h[2]), h[2] # 2
  PROVE  NeverRuns(h[1])'
<1>1. /\ h[1] \in Clients /\ h = <<h[1], 1>> /\ <<h[1], 2>> \in Handlers
      /\ <<h[1], 2>> # h
  BY PairIs, HandlerIs
<1>2. handler[<<h[1], 2>>].state = "unsent"
  BY <1>1 DEF IInv, Promises, Stages, ClientFits, Waits
<1>3. \A n \in {1, 2} : ~Begun(<<h[1], n>>)
  BY <1>1, <1>2 DEF Begun
<1>4. effect[h[1]] = <<>>
  BY <1>1, <1>3 DEF IInv, Promises, Once, RunsOnce
<1>5. \A n \in {1, 2} : <<h[1], n>> \notin owner
  BY <1>1, <1>3, HandlerIs DEF IInv, Promises, Stages, HandlerFits, HandlerFit, InHands, Begun
<1>6. handler'[<<h[1], 2>>].state = "unsent"
  BY <1>1, <1>2 DEF OnlyHandler
<1> QED
  BY <1>1, <1>4, <1>5, <1>6 DEF NeverRuns

\* A refusal the registry or admission makes at once, by what it answers.
LEMMA RefusesKeep ==
  ASSUME IInv, NEW h \in Handlers, NEW answer \in Refused, Respond(h, answer, FALSE),
         handler[h].state = "inflight", Forgets,
         UNCHANGED <<clock, client, open, instance, slot, owner, reply, effect>>
  PROVE  Ends(h)
<1>1. answer \in Answers
  BY DEF Answers
<1>2. /\ \A g \in Handlers \ {h} : handler'[g] = handler[g]
      /\ handler'[h].state \in {"gone", "answered"}
      /\ handler'[h].state = "answered" =>
           /\ Waits(h[1], h[2])
           /\ handler'[h].answer \in Refused
           /\ handler'[h].replay => FALSE
  <2>1. FALSE \in BOOLEAN /\ TypeOK
    BY DEF IInv, Promises
  <2> QED
    BY <1>1, <2>1, RespondIs DEF Refused
<1>3. OnlyHandler(h)
  BY <1>2 DEF OnlyHandler
<1>4. ASSUME handler'[h].state = "answered", Believed(h, handler'[h].replay)
      PROVE  NeverRuns(h[1])'
  BY <1>2, <1>3, <1>4, FirstRefusal DEF Believed
<1>5. handler'[h].state = "answered" => handler'[h].answer \notin Executed
  BY <1>2, NoneIs
<1> QED
  BY <1>2, <1>3, <1>4, <1>5 DEF Ends

LEMMA DropRequestKeeps ==
  ASSUME IInv, NEW h \in Handlers, DropRequest(h)
  PROVE  Ends(h)
<1>1. /\ \A g \in Handlers \ {h} : handler'[g] = handler[g]
      /\ handler'[h].state = "gone"
  BY BecomeIs DEF DropRequest, IInv, Promises, HandlerStates
<1>2. UNCHANGED <<clock, client, open, instance, slot, registry, order, owner, reply, effect>>
  BY DEF DropRequest, outside, store
<1>3. Forgets
  BY <1>2, ForgetsNothing
<1> QED
  BY <1>1, <1>2, <1>3 DEF Ends, OnlyHandler, DropRequest

LEMMA WaitTimesOutKeeps ==
  ASSUME IInv, NEW h \in Handlers, WaitTimesOut(h)
  PROVE  Ends(h)
<1>1. Respond(h, "lost", FALSE) /\ "lost" \in Answers /\ TypeOK /\ FALSE \in BOOLEAN
  BY DEF WaitTimesOut, Answers, IInv, Promises
<1>2. /\ \A g \in Handlers \ {h} : handler'[g] = handler[g]
      /\ handler'[h].state \in {"gone", "answered"}
      /\ handler'[h].state = "answered" =>
           Waits(h[1], h[2]) /\ handler'[h].answer = "lost"
  BY <1>1, RespondIs
<1>3. UNCHANGED <<clock, client, open, instance, slot, registry, order, owner, reply, effect>>
  BY DEF WaitTimesOut, outside, store
<1>4. Forgets
  BY <1>3, ForgetsNothing
<1>5. "lost" \notin Executed /\ "lost" \notin Refused
  BY NoneIs DEF Refused
<1> QED
  BY <1>2, <1>3, <1>4, <1>5 DEF Ends, OnlyHandler, WaitTimesOut

LEMMA JoinedKeeps ==
  ASSUME IInv, NEW h \in Handlers, Joined(h)
  PROVE  Ends(h)
<1> DEFINE e == handler[h].entry
           answer == slot[e]
<1>1. e \in Handlers /\ e[1] = h[1] /\ handler[h].state = "waiting" /\ answer # None
  BY DEF Joined, IInv, Promises, Stages, HandlerFits, HandlerFit
<1>2. answer \in {"lost", "busy"} \cup Executed
  BY <1>1 DEF IInv, Promises, Refusals, SlotFits
<1>3. Respond(h, answer, e # h) /\ answer \in Answers /\ (e # h) \in BOOLEAN /\ TypeOK
  BY <1>2 DEF Joined, Answers, Refused, IInv, Promises
<1> HIDE DEF e, answer
<1>4. /\ \A g \in Handlers \ {h} : handler'[g] = handler[g]
      /\ handler'[h].state \in {"gone", "answered"}
      /\ handler'[h].state = "answered" =>
           /\ Waits(h[1], h[2])
           /\ \/ handler'[h].answer = answer
              \/ (answer = "busy" /\ handler'[h].answer = "closing")
           /\ handler'[h].replay => e # h
  BY <1>3, RespondIs
<1>5. UNCHANGED <<clock, client, open, instance, slot, registry, order, owner, reply, effect>>
  BY DEF Joined, outside, store
<1>6. Forgets /\ OnlyHandler(h)
  BY <1>1, <1>4, <1>5, ForgetsNothing DEF OnlyHandler
<1>7. ASSUME handler'[h].state = "answered", handler'[h].answer \in Executed
      PROVE  effect[h[1]] = <<handler'[h].answer>>
  <2>1. handler'[h].answer = answer
    BY <1>4, <1>7, NoneIs DEF Refused
  <2> QED
    BY <1>1, <1>7, <2>1 DEF IInv, Promises, Outcomes, answer
<1>8. ASSUME handler'[h].state = "answered", handler'[h].answer \in Refused,
             Believed(h, handler'[h].replay)
      PROVE  NeverRuns(h[1])'
  <2>1. answer = "busy"
    BY <1>2, <1>4, <1>8, NoneIs DEF Refused
  <2>2. Believed(h, e # h)
    BY <1>4, <1>8 DEF Believed
  <2>3. NeverRuns(h[1])
    BY <1>1, <1>4, <1>8, <2>1, <2>2 DEF IInv, Promises, Refusals, AnswersFinal, AnswerFinal, e, answer
  <2> QED
    BY <1>1, <1>4, <1>5, <1>6, <2>3, PairIs, StaysRefused
<1> QED
  BY <1>1, <1>4, <1>5, <1>6, <1>7, <1>8 DEF Ends

\* begin joins the entry of its identity.
Joins(h) ==
  LET e == Registered[Key(h)] IN
  /\ handler[h].state = "inflight"
  /\ e # None /\ e[1] = h[1]
  /\ Become(h, "waiting", e)
  /\ registry' = Registered /\ order' = Left
  /\ UNCHANGED <<clock, client, open, instance, slot, owner, reply, effect>>

LEMMA JoinsKeep ==
  ASSUME IInv, NEW h \in Handlers, Joins(h)
  PROVE  Promises'
<1> DEFINE c == h[1]
<1>1. Key(h) \in Keys /\ c \in Clients /\ h = <<c, h[2]>> /\ h[2] \in {1, 2}
  BY PairIs DEF Key, IInv, TypeOK, OutsideTypeOK, ClientRecords
<1>2. PICK e \in Handlers :
        e = Registered[Key(h)] /\ e = registry[Key(h)] /\ e[1] = c
  BY <1>1, PurgedIs DEF Joins, IInv, Promises
<1>3. Begun(e) /\ e # h /\ handler[h].state = "inflight"
  BY <1>1, <1>2 DEF Joins, IInv, Promises, Identities, Begun
<1>4. /\ \A g \in Handlers \ {h} : handler'[g] = handler[g]
      /\ handler'[h].state = "waiting" /\ handler'[h].entry = e
  BY <1>2, BecomeIs DEF Joins, HandlerStates, IInv
<1>5. /\ OnlyHandler(h) /\ Forgets
      /\ UNCHANGED <<slot, owner, reply, effect>>
  BY <1>3, <1>4, ForgetsExpired DEF Joins, OnlyHandler
<1>6. /\ ClientFits' /\ Deadlines' /\ Retained'
      /\ \A g \in Handlers : Begun(g) => Begun(g)'
  BY <1>5, HandlerMoves DEF Forgets
<1>7. \A g \in Handlers : Pending(g)' => Pending(g)
  BY <1>4, <1>5 DEF Pending, InHands, OnlyHandler
<1>8. Identities' /\ RunsOnce'
  BY <1>5, <1>7, NothingNew
<1>9. \A d \in Clients : NeverRuns(d) => NeverRuns(d)'
  BY <1>3, <1>4, <1>5, StaysRefused
<1>10. HandlerFits'
  <2> SUFFICES ASSUME NEW g \in Handlers
               PROVE  HandlerFit(g)'
    BY DEF HandlerFits
  <2>1. CASE g = h
    <3>1. ~InHands(h)
      BY <1>3 DEF IInv, Promises, Stages, HandlerFits, HandlerFit
    <3>2. ~InHands(h)' /\ Begun(e)'
      BY <1>2, <1>3, <1>5, <1>6, <3>1 DEF InHands
    <3>3. Begun(handler[h].entry)' = Begun(e)'
      BY <1>4 DEF Begun
    <3> QED
      BY <2>1, <1>2, <1>4, <3>2, <3>3 DEF InHands, HandlerFit
  <2>2. CASE g # h
    BY <2>2, <1>5, <1>6 DEF OnlyHandler, Waits, IInv, Promises, Stages, HandlerFits, HandlerFit, InHands, Begun
  <2> QED
    BY <2>1, <2>2
<1>11. PendingIsNew'
  BY <1>4, <1>5 DEF PendingIsNew, ToRun, OnlyHandler, IInv, Promises, Once
<1>12. Outcomes'
  BY <1>4, <1>5 DEF Outcomes, OnlyHandler, IInv, Promises
<1>13. SlotFits'
  BY <1>4, <1>5, <1>6 DEF SlotFits, OnlyHandler, IInv, Promises, Refusals, Begun
<1>14. ASSUME slot[e] = "busy", Waits(c, h[2])
       PROVE  NeverRuns(c)'
  <2>1. handler[e].state = "forgetting"
    BY <1>1, <1>2, <1>14, NoneIs DEF IInv, Promises, Refusals, EntriesLive
  <2>2. effect[c] = <<>> /\ e \notin owner /\ h \notin owner
    BY <1>2, <1>3, <2>1 DEF IInv, Promises, Once, PendingIsNew, ToRun, Stages, HandlerFits, HandlerFit, InHands
  <2>3. \A n \in {1, 2} : <<c, n>> \in {h, e}
    BY <1>1, <1>2, <1>3, PairIs
  <2>4. handler'[e].state = "forgetting" /\ handler'[h].state = "waiting"
    BY <1>2, <1>3, <1>4, <2>1
  <2> QED
    BY <1>5, <2>2, <2>3, <2>4 DEF NeverRuns
<1>15. AnswersFinal'
  <2> SUFFICES ASSUME NEW g \in Handlers
               PROVE  AnswerFinal(g)'
    BY DEF AnswersFinal
  <2>1. CASE g = h
    BY <2>1, <1>4, <1>5, <1>14 DEF OnlyHandler, Waits, AnswerFinal
  <2>2. CASE g # h
    BY <2>2, <1>5, <1>9, PairIs DEF OnlyHandler, Waits, IInv, Promises, Refusals, AnswersFinal, AnswerFinal, Believed
  <2> QED
    BY <2>1, <2>2
<1>16. EntriesLive'
  BY <1>3, <1>5 DEF EntriesLive, OnlyHandler, Forgets, IInv, Promises, Refusals, TypeOK, StoreTypeOK
<1>17. VerdictsFinal'
  BY <1>5, <1>9 DEF VerdictsFinal, OnlyHandler, IInv, Promises, Refusals
<1> QED
  BY <1>6, <1>8, <1>10, <1>11, <1>12, <1>13, <1>15, <1>16, <1>17
     DEF Promises, Stages, Once, Refusals

\* begin inserts a pending entry.
Inserts(h) ==
  /\ handler[h].state = "inflight" /\ TokenMatches(h)
  /\ Registered[Key(h)] = None
  /\ Become(h, "emitting", h)
  /\ registry' = [Registered EXCEPT ![Key(h)] = h] /\ order' = Left
  /\ UNCHANGED <<clock, client, open, instance, slot, owner, reply, effect>>

LEMMA InsertsKeep ==
  ASSUME IInv, NEW h \in Handlers, Inserts(h)
  PROVE  Promises'
<1>1. PICK k \in Keys : k = Key(h)
  BY PairIs DEF Key, IInv, TypeOK, OutsideTypeOK, ClientRecords
<1>2. h[1] \in Clients /\ h = <<h[1], h[2]>> /\ h[2] \in {1, 2} /\ client[h[1]].key = k
  BY <1>1, PairIs DEF Key
<1>3. /\ \A g \in Handlers \ {h} : handler'[g] = handler[g]
      /\ handler'[h].state = "emitting" /\ handler[h].state = "inflight"
      /\ UNCHANGED <<clock, client, open, instance, slot, owner, reply, effect>>
  BY BecomeIs DEF Inserts, HandlerStates, IInv
<1>4. OnlyHandler(h)
  BY <1>3 DEF OnlyHandler
<1>5. /\ registry'[k] = h
      /\ \A j \in Keys \ {k} : registry'[j] = Registered[j] /\ registry'[j] \in {registry[j], None}
      /\ \A i \in DOMAIN order' : \E j \in DOMAIN order :
           order'[i] = order[j] /\ Registered[order[j].key] = registry[order[j].key]
      /\ \A i, j \in DOMAIN order' : order'[i].key = order'[j].key => i = j
      /\ Registered[k] = None
  BY <1>1, PurgedIs DEF Inserts, IInv, Promises
<1>6. ASSUME NEW i \in DOMAIN order'
      PROVE  /\ order'[i].key \in Keys \ {k}
             /\ \E j \in DOMAIN order : order'[i] = order[j]
                                        /\ registry'[order[j].key] = registry[order[j].key]
  <2>1. PICK j \in DOMAIN order :
          order'[i] = order[j] /\ Registered[order[j].key] = registry[order[j].key]
    BY <1>5
  <2>2. order[j].key \in Keys /\ registry[order[j].key] # None
    <3>1. order[j] \in Records
      BY DEF IInv, TypeOK, StoreTypeOK
    <3> QED
      BY <3>1 DEF Records, IInv, Promises, Identities
  <2>3. order[j].key # k
    BY <1>5, <2>1, <2>2
  <2> QED
    BY <1>5, <2>1, <2>2, <2>3
<1>7. /\ ClientFits' /\ Deadlines' /\ Retained'
      /\ \A g \in Handlers : Begun(g) => Begun(g)'
      /\ \A c \in Clients : CanStart(c)' => CanStart(c)
  BY <1>4, <1>6, HandlerMoves DEF RecordsStay
<1>8. /\ \A g \in Handlers : Pending(g) => Registered[Key(g)] = g
      /\ \A c \in Clients :
           effect[c] # <<>> /\ CanStart(c) /\ client[c].token = instance =>
             Registered[client[c].key] # None /\ Registered[client[c].key][1] = c
  BY PurgeKeeps DEF IInv, Promises
<1>9. effect[h[1]] = <<>>
  <2>1. CanStart(h[1])
    BY <1>2, <1>3 DEF CanStart
  <2> QED
    BY <1>2, <1>5, <1>8, <2>1 DEF Inserts, TokenMatches
<1>10. slot[h] = None
  BY <1>3 DEF IInv, Promises, Refusals, SlotFits, Begun
<1>11. Identities'
  <2>1. ASSUME NEW j \in Keys, registry'[j] # None
        PROVE  (Key(registry[j]) = j /\ Begun(registry[j]))'
    <3>1. CASE j = k
      BY <1>1, <1>3, <1>5, <3>1 DEF Key, Begun
    <3>2. CASE j # k
      <4>1. PICK g \in Handlers : registry'[j] = g /\ registry[j] = g
        BY <1>5, <2>1, <3>2 DEF IInv, TypeOK, StoreTypeOK
      <4>2. Key(g) = j /\ Begun(g)
        BY <2>1, <4>1 DEF IInv, Promises, Identities
      <4>3. (Key(g) = j /\ Begun(g))'
        BY <1>3, <1>7, <4>2 DEF Key
      <4>4. Key(registry[j])' = Key(g)' /\ Begun(registry[j])' = Begun(g)'
        BY <4>1 DEF Key, Begun
      <4> QED
        BY <4>3, <4>4
    <3> QED
      BY <3>1, <3>2
  <2>2. ASSUME NEW g \in Handlers, Pending(g)'
        PROVE  (registry[Key(g)] = g /\ ~HasRecord(Key(g)))'
    <3>1. Key(g)' = Key(g) /\ Key(g) \in Keys
      BY <1>3, PairIs DEF Key, IInv, TypeOK, OutsideTypeOK, ClientRecords
    <3>2. CASE g = h
      <4>1. ~HasRecord(k)'
        BY <1>6 DEF HasRecord
      <4> QED
        BY <1>1, <1>5, <3>1, <3>2, <4>1 DEF HasRecord
    <3>3. CASE g # h
      <4>1. Pending(g)
        BY <1>3, <2>2, <3>3 DEF Pending, InHands
      <4>2. Key(g) # k /\ registry'[Key(g)] = g
        BY <1>5, <1>8, <3>1, <4>1, NoneIs
      <4>3. ~HasRecord(Key(g))
        BY <4>1 DEF IInv, Promises, Identities
      <4>4. ~HasRecord(Key(g))'
        BY <1>6, <3>1, <4>3 DEF HasRecord
      <4> QED
        BY <3>1, <4>2, <4>4
    <3> QED
      BY <3>2, <3>3
  <2>3. \A i \in DOMAIN order' : registry'[order'[i].key] # None
    BY <1>6 DEF IInv, Promises, Identities
  <2>4. \A j \in Keys : registry'[j] # None => (Key(registry[j]) = j /\ Begun(registry[j]))'
    BY <2>1
  <2>5. \A g \in Handlers : Pending(g)' => (registry[Key(g)] = g /\ ~HasRecord(Key(g)))'
    BY <2>2
  <2> QED
    BY <1>5, <2>3, <2>4, <2>5 DEF Identities
<1>12. RunsOnce'
  <2> SUFFICES ASSUME NEW c \in Clients
               PROVE  /\ Len(effect[c]) <= 1
                      /\ effect[c] # <<>> => \E n \in {1, 2} : Begun(<<c, n>>)'
                      /\ effect[c] # <<>> /\ CanStart(c)' /\ client[c].token = instance =>
                           registry'[client[c].key] # None /\ registry'[client[c].key][1] = c
    BY <1>3 DEF RunsOnce
  <2>1. Len(effect[c]) <= 1
    BY DEF IInv, Promises, Once, RunsOnce
  <2>2. ASSUME effect[c] # <<>>  PROVE \E n \in {1, 2} : Begun(<<c, n>>)'
    BY <1>7, <2>2, HandlerIs DEF IInv, Promises, Once, RunsOnce
  <2>3. ASSUME effect[c] # <<>>, CanStart(c)', client[c].token = instance
        PROVE  registry'[client[c].key] # None /\ registry'[client[c].key][1] = c
    <3>1. client[c].key \in Keys
      BY DEF IInv, TypeOK, OutsideTypeOK, ClientRecords
    <3> QED
      BY <1>5, <1>7, <1>8, <2>3, <3>1
  <2> QED
    BY <2>1, <2>2, <2>3
<1>13. \A c \in Clients : NeverRuns(c) => NeverRuns(c)'
  BY <1>3, <1>4, StaysRefused
<1>14. HandlerFits'
  <2> SUFFICES ASSUME NEW g \in Handlers
               PROVE  HandlerFit(g)'
    BY DEF HandlerFits
  <2>1. CASE g = h
    <3>1. ~InHands(h)
      BY <1>3 DEF IInv, Promises, Stages, HandlerFits, HandlerFit
    <3> QED
      BY <2>1, <1>3, <3>1 DEF InHands, HandlerFit
  <2>2. CASE g # h
    BY <2>2, <1>3, <1>7
       DEF Waits, IInv, Promises, Stages, HandlerFits, HandlerFit, InHands, Begun
  <2> QED
    BY <2>1, <2>2
<1>15. PendingIsNew'
  BY <1>3, <1>9 DEF PendingIsNew, ToRun, IInv, Promises, Once
<1>16. Outcomes'
  BY <1>3 DEF Outcomes, IInv, Promises
<1>17. SlotFits'
  BY <1>3, <1>7, <1>10 DEF SlotFits, IInv, Promises, Refusals, Begun
<1>18. AnswersFinal'
  <2> SUFFICES ASSUME NEW g \in Handlers
               PROVE  AnswerFinal(g)'
    BY DEF AnswersFinal
  <2>1. CASE g = h
    BY <2>1, <1>3 DEF AnswerFinal
  <2>2. CASE g # h
    BY <2>2, <1>3, <1>13, PairIs
       DEF Waits, IInv, Promises, Refusals, AnswersFinal, AnswerFinal, Believed
  <2> QED
    BY <2>1, <2>2
<1>19. EntriesLive'
  <2> SUFFICES ASSUME NEW j \in Keys, registry'[j] # None, slot'[registry'[j]] = "busy"
               PROVE  handler'[registry'[j]].state = "forgetting"
    BY DEF EntriesLive
  <2>1. j # k /\ registry'[j] = registry[j]
    <3>1. slot[h] # "busy"
      BY <1>10, NoneIs DEF Refused
    <3> QED
      BY <1>3, <1>5, <3>1
  <2>2. handler[registry[j]].state = "forgetting" /\ registry[j] \in Handlers
    BY <1>3, <2>1 DEF IInv, Promises, Refusals, EntriesLive, TypeOK, StoreTypeOK
  <2> QED
    BY <1>3, <2>1, <2>2
<1>20. VerdictsFinal'
  BY <1>3, <1>13 DEF VerdictsFinal, IInv, Promises, Refusals
<1> QED
  BY <1>7, <1>11, <1>12, <1>14, <1>15, <1>16, <1>17, <1>18, <1>19, <1>20
     DEF Promises, Stages, Once, Refusals

\* The owner's ingress takes the command.
LEMMA EmitKeeps ==
  ASSUME IInv, NEW h \in Handlers, Emit(h)
  PROVE  Promises'
<1>1. /\ \A g \in Handlers \ {h} : handler'[g] = handler[g]
      /\ handler'[h].state = "waiting" /\ handler'[h].entry = h
      /\ handler[h].state = "emitting"
  BY BecomeIs DEF Emit, HandlerStates, IInv
<1>2. /\ UNCHANGED <<clock, client, open, instance, registry, order, slot, reply, effect>>
      /\ owner' = owner \cup {h}
  BY DEF Emit, outside, store
<1>3. OnlyHandler(h) /\ Forgets
  BY <1>1, <1>2, ForgetsNothing DEF OnlyHandler
<1>4. /\ ClientFits' /\ Deadlines' /\ Retained'
      /\ \A g \in Handlers : Begun(g) => Begun(g)'
  BY <1>3, HandlerMoves DEF Forgets
<1>5. \A g \in Handlers : Pending(g)' => Pending(g)
  BY <1>1, <1>2 DEF Pending, InHands
<1>6. Identities' /\ RunsOnce'
  BY <1>2, <1>3, <1>5, NothingNew
<1>7. \A c \in Clients : NeverRuns(c) => NeverRuns(c)'
  BY <1>1, <1>2, <1>3, StaysRefused
<1>8. h \notin owner /\ reply[h] = None /\ slot[h] = None
  BY <1>1 DEF IInv, Promises, Stages, HandlerFits, HandlerFit, InHands, Refusals, SlotFits
<1>9. HandlerFits'
  <2> SUFFICES ASSUME NEW g \in Handlers
               PROVE  HandlerFit(g)'
    BY DEF HandlerFits
  <2>1. CASE g = h
    <3>1. Begun(h)'
      BY <1>1 DEF Begun
    <3>2. Begun(handler[h].entry)' = Begun(h)'
      BY <1>1 DEF Begun
    <3> QED
      BY <2>1, <1>1, <1>2, <1>8, <3>1, <3>2 DEF InHands, HandlerFit
  <2>2. CASE g # h
    BY <2>2, <1>1, <1>2, <1>4
       DEF Waits, IInv, Promises, Stages, HandlerFits, HandlerFit, InHands, Begun
  <2> QED
    BY <2>1, <2>2
<1>10. PendingIsNew'
  BY <1>1, <1>2 DEF PendingIsNew, ToRun, IInv, Promises, Once
<1>11. Outcomes'
  BY <1>1, <1>2 DEF Outcomes, IInv, Promises
<1>12. SlotFits'
  BY <1>1, <1>2, <1>4 DEF SlotFits, IInv, Promises, Refusals, Begun
<1>13. AnswersFinal'
  <2> SUFFICES ASSUME NEW g \in Handlers
               PROVE  AnswerFinal(g)'
    BY DEF AnswersFinal
  <2>1. CASE g = h
    BY <2>1, <1>1, <1>2, <1>8, NoneIs DEF AnswerFinal, Refused
  <2>2. CASE g # h
    BY <2>2, <1>1, <1>2, <1>7, PairIs
       DEF Waits, IInv, Promises, Refusals, AnswersFinal, AnswerFinal, Believed
  <2> QED
    BY <2>1, <2>2
<1>14. EntriesLive'
  BY <1>1, <1>2 DEF EntriesLive, IInv, Promises, Refusals, TypeOK, StoreTypeOK
<1>15. VerdictsFinal'
  BY <1>2, <1>7 DEF VerdictsFinal, IInv, Promises, Refusals
<1> QED
  BY <1>4, <1>6, <1>9, <1>10, <1>11, <1>12, <1>13, <1>14, <1>15
     DEF Promises, Stages, Once, Refusals

\* The ingress refuses: those who joined the entry are told so.
LEMMA EmitRefusedKeeps ==
  ASSUME IInv, NEW h \in Handlers, EmitRefused(h)
  PROVE  Promises'
<1>1. /\ \A g \in Handlers \ {h} : handler'[g] = handler[g]
      /\ handler'[h].state = "forgetting" /\ handler[h].state = "emitting"
  BY BecomeIs DEF EmitRefused, HandlerStates, IInv
<1>2. /\ UNCHANGED <<clock, client, open, instance, registry, order, owner, reply, effect>>
      /\ slot'[h] = "busy"
      /\ \A g \in Handlers \ {h} : slot'[g] = slot[g]
  BY DEF EmitRefused, outside, IInv, TypeOK, StoreTypeOK
<1>3. OnlyHandler(h) /\ Forgets
  BY <1>1, <1>2, ForgetsNothing DEF OnlyHandler
<1>4. /\ ClientFits' /\ Deadlines' /\ Retained'
      /\ \A g \in Handlers : Begun(g) => Begun(g)'
  BY <1>3, HandlerMoves DEF Forgets
<1>5. \A g \in Handlers : Pending(g)' => Pending(g)
  BY <1>1, <1>2 DEF Pending, InHands
<1>6. Identities' /\ RunsOnce'
  BY <1>2, <1>3, <1>5, NothingNew
<1>7. \A c \in Clients : NeverRuns(c) => NeverRuns(c)'
  BY <1>1, <1>2, <1>3, StaysRefused
<1>8. h \notin owner /\ reply[h] = None /\ effect[h[1]] = <<>>
  BY <1>1 DEF IInv, Promises, Stages, HandlerFits, HandlerFit, InHands, Once, PendingIsNew, ToRun
<1>9. HandlerFits'
  <2> SUFFICES ASSUME NEW g \in Handlers
               PROVE  HandlerFit(g)'
    BY DEF HandlerFits
  <2>1. CASE g = h
    BY <2>1, <1>1, <1>2, <1>8 DEF InHands, HandlerFit
  <2>2. CASE g # h
    BY <2>2, <1>1, <1>2, <1>4
       DEF Waits, IInv, Promises, Stages, HandlerFits, HandlerFit, InHands, Begun
  <2> QED
    BY <2>1, <2>2
<1>10. PendingIsNew'
  BY <1>1, <1>2 DEF PendingIsNew, ToRun, IInv, Promises, Once
<1>11. Outcomes'
  BY <1>1, <1>2, NoneIs DEF Outcomes, IInv, Promises, Refused
<1>12. SlotFits'
  BY <1>1, <1>2, <1>4 DEF SlotFits, IInv, Promises, Refusals, Begun
<1>13. ASSUME NEW g \in Handlers \ {h}, handler[g].state = "waiting", handler[g].entry = h
       PROVE  NeverRuns(g[1])'
  <2>1. g[1] = h[1] /\ g \notin owner
    BY <1>13 DEF IInv, Promises, Stages, HandlerFits, HandlerFit, InHands
  <2>2. \A n \in {1, 2} : <<g[1], n>> \in {g, h}
    BY <2>1, <1>13, PairIs
  <2>3. handler'[g].state = "waiting"
    BY <1>1, <1>13
  <2> QED
    BY <1>1, <1>2, <1>8, <2>1, <2>2, <2>3 DEF NeverRuns
<1>14. AnswersFinal'
  <2> SUFFICES ASSUME NEW g \in Handlers
               PROVE  AnswerFinal(g)'
    BY DEF AnswersFinal
  <2>1. CASE g = h
    BY <2>1, <1>1 DEF AnswerFinal
  <2>2. CASE g # h /\ handler[g].state = "waiting"
    <3>1. handler[g].entry \in Handlers /\ g[1] \in Clients
      BY <2>2, PairIs DEF IInv, Promises, Stages, HandlerFits, HandlerFit
    <3>2. CASE handler[g].entry = h
      BY <2>2, <3>2, <1>1, <1>13 DEF AnswerFinal
    <3>3. CASE handler[g].entry # h
      BY <2>2, <3>1, <3>3, <1>1, <1>2, <1>7
         DEF Waits, IInv, Promises, Refusals, AnswersFinal, AnswerFinal, Believed
    <3> QED
      BY <3>2, <3>3
  <2>3. CASE g # h /\ handler[g].state # "waiting"
    BY <2>3, <1>1, <1>2, <1>7, PairIs
       DEF Waits, IInv, Promises, Refusals, AnswersFinal, AnswerFinal, Believed
  <2> QED
    BY <2>1, <2>2, <2>3
<1>15. EntriesLive'
  BY <1>1, <1>2 DEF EntriesLive, IInv, Promises, Refusals, TypeOK, StoreTypeOK
<1>16. VerdictsFinal'
  BY <1>2, <1>7 DEF VerdictsFinal, IInv, Promises, Refusals
<1> QED
  BY <1>4, <1>6, <1>9, <1>10, <1>11, <1>12, <1>14, <1>15, <1>16
     DEF Promises, Stages, Once, Refusals

\* The refused entry leaves the registry.
LEMMA ForgetUnadmittedKeeps ==
  ASSUME IInv, NEW h \in Handlers, ForgetUnadmitted(h)
  PROVE  Promises'
<1>1. /\ \A g \in Handlers \ {h} : handler'[g] = handler[g]
      /\ handler'[h].state = "waiting" /\ handler'[h].entry = h
      /\ handler[h].state = "forgetting"
  BY BecomeIs DEF ForgetUnadmitted, HandlerStates, IInv
<1>2. PICK k \in Keys : k = Key(h)
  BY PairIs DEF Key, IInv, TypeOK, OutsideTypeOK, ClientRecords
<1>3. registry[k] = h /\ ~HasRecord(k)
  BY <1>1, <1>2 DEF IInv, Promises, Identities, Pending
<1>4. /\ UNCHANGED <<clock, client, open, instance, order, slot, owner, reply, effect>>
      /\ registry'[k] = None
      /\ \A j \in Keys \ {k} : registry'[j] = registry[j]
  BY <1>2, <1>3 DEF ForgetUnadmitted, outside, IInv, TypeOK, StoreTypeOK
<1>5. OnlyHandler(h)
  BY <1>1, <1>4 DEF OnlyHandler
<1>6. \A i \in DOMAIN order : order[i].key \in Keys \ {k}
  <2> SUFFICES ASSUME NEW i \in DOMAIN order
               PROVE  order[i].key \in Keys \ {k}
    OBVIOUS
  <2>1. order[i] \in Records
    BY DEF IInv, TypeOK, StoreTypeOK
  <2> QED
    BY <1>3, <2>1 DEF HasRecord, Records
<1>7. RecordsStay
  BY <1>4, <1>6 DEF RecordsStay
<1>8. /\ ClientFits' /\ Deadlines' /\ Retained'
      /\ \A g \in Handlers : Begun(g) => Begun(g)'
      /\ \A c \in Clients : CanStart(c)' => CanStart(c)
  BY <1>5, <1>7, HandlerMoves
<1>9. \A c \in Clients : NeverRuns(c) => NeverRuns(c)'
  BY <1>1, <1>4, <1>5, StaysRefused
<1>10. h \notin owner /\ reply[h] = None /\ effect[h[1]] = <<>>
  BY <1>1 DEF IInv, Promises, Stages, HandlerFits, HandlerFit, InHands, Once, PendingIsNew, ToRun
<1>11. Identities'
  <2>1. ASSUME NEW j \in Keys, registry'[j] # None
        PROVE  (Key(registry[j]) = j /\ Begun(registry[j]))'
    <3>1. PICK g \in Handlers : registry'[j] = g /\ registry[j] = g
      BY <1>4, <2>1 DEF IInv, TypeOK, StoreTypeOK
    <3>2. Key(g) = j /\ Begun(g)
      BY <2>1, <3>1 DEF IInv, Promises, Identities
    <3>3. (Key(g) = j /\ Begun(g))'
      BY <1>4, <1>8, <3>2 DEF Key
    <3>4. Key(registry[j])' = Key(g)' /\ Begun(registry[j])' = Begun(g)'
      BY <3>1 DEF Key, Begun
    <3> QED
      BY <3>3, <3>4
  <2>2. ASSUME NEW g \in Handlers, Pending(g)'
        PROVE  (registry[Key(g)] = g /\ ~HasRecord(Key(g)))'
    <3>1. Key(g)' = Key(g) /\ Key(g) \in Keys
      BY <1>4, PairIs DEF Key, IInv, TypeOK, OutsideTypeOK, ClientRecords
    <3>2. g # h /\ Pending(g)
      BY <1>1, <1>4, <1>10, <2>2 DEF Pending, InHands
    <3>3. registry[Key(g)] = g /\ ~HasRecord(Key(g))
      BY <3>2 DEF IInv, Promises, Identities
    <3>4. registry'[Key(g)] = g
      BY <1>3, <1>4, <3>1, <3>2, <3>3
    <3>5. ~HasRecord(Key(g))'
      BY <1>4, <3>1, <3>3 DEF HasRecord
    <3> QED
      BY <3>1, <3>4, <3>5
  <2>3. \A i \in DOMAIN order' : registry'[order'[i].key] # None
    BY <1>4, <1>6 DEF IInv, Promises, Identities
  <2>4. \A i, j \in DOMAIN order' : order'[i].key = order'[j].key => i = j
    BY <1>4 DEF IInv, Promises, Identities
  <2>5. \A j \in Keys : registry'[j] # None => (Key(registry[j]) = j /\ Begun(registry[j]))'
    BY <2>1
  <2>6. \A g \in Handlers : Pending(g)' => (registry[Key(g)] = g /\ ~HasRecord(Key(g)))'
    BY <2>2
  <2> QED
    BY <2>3, <2>4, <2>5, <2>6 DEF Identities
<1>12. RunsOnce'
  <2> SUFFICES ASSUME NEW c \in Clients
               PROVE  /\ Len(effect[c]) <= 1
                      /\ effect[c] # <<>> => \E n \in {1, 2} : Begun(<<c, n>>)'
                      /\ effect[c] # <<>> /\ CanStart(c)' /\ client[c].token = instance =>
                           registry'[client[c].key] # None /\ registry'[client[c].key][1] = c
    BY <1>4 DEF RunsOnce
  <2>1. Len(effect[c]) <= 1
    BY DEF IInv, Promises, Once, RunsOnce
  <2>2. ASSUME effect[c] # <<>>  PROVE \E n \in {1, 2} : Begun(<<c, n>>)'
    BY <1>8, <2>2, HandlerIs DEF IInv, Promises, Once, RunsOnce
  <2>3. ASSUME effect[c] # <<>>, CanStart(c)', client[c].token = instance
        PROVE  registry'[client[c].key] # None /\ registry'[client[c].key][1] = c
    <3>1. registry[client[c].key] # None /\ registry[client[c].key][1] = c
      BY <1>8, <2>3 DEF IInv, Promises, Once, RunsOnce
    <3>2. client[c].key \in Keys \ {k}
      BY <1>3, <1>10, <2>3, <3>1 DEF IInv, TypeOK, OutsideTypeOK, ClientRecords
    <3> QED
      BY <1>4, <3>1, <3>2
  <2> QED
    BY <2>1, <2>2, <2>3
<1>13. HandlerFits'
  <2> SUFFICES ASSUME NEW g \in Handlers
               PROVE  HandlerFit(g)'
    BY DEF HandlerFits
  <2>1. CASE g = h
    <3>1. Begun(handler[h].entry)'
      BY <1>1 DEF Begun
    <3> QED
      BY <2>1, <1>1, <1>4, <1>10, <3>1 DEF InHands, HandlerFit
  <2>2. CASE g # h
    BY <2>2, <1>1, <1>4, <1>8
       DEF Waits, IInv, Promises, Stages, HandlerFits, HandlerFit, InHands, Begun
  <2> QED
    BY <2>1, <2>2
<1>14. PendingIsNew'
  BY <1>1, <1>4 DEF PendingIsNew, ToRun, IInv, Promises, Once
<1>15. Outcomes'
  BY <1>1, <1>4 DEF Outcomes, IInv, Promises
<1>16. SlotFits'
  BY <1>1, <1>4, <1>8 DEF SlotFits, IInv, Promises, Refusals, Begun
<1>17. ASSUME Waits(h[1], h[2]), h[2] # 2
       PROVE  NeverRuns(h[1])'
  <2>1. h[1] \in Clients /\ h = <<h[1], 1>> /\ <<h[1], 2>> \in Handlers /\ <<h[1], 2>> # h
    BY <1>17, PairIs, HandlerIs
  <2>2. handler[<<h[1], 2>>].state = "unsent"
    BY <1>17, <2>1 DEF IInv, Promises, Stages, ClientFits, Waits
  <2>3. <<h[1], 2>> \notin owner
    BY <2>1, <2>2 DEF IInv, Promises, Stages, HandlerFits, HandlerFit, InHands
  <2>4. handler'[<<h[1], 2>>].state = "unsent"
    BY <1>1, <2>1, <2>2
  <2> QED
    BY <1>1, <1>4, <1>10, <2>1, <2>3, <2>4 DEF NeverRuns
<1>18. AnswersFinal'
  <2> SUFFICES ASSUME NEW g \in Handlers
               PROVE  AnswerFinal(g)'
    BY DEF AnswersFinal
  <2>1. CASE g = h
    BY <2>1, <1>1, <1>4, <1>17 DEF AnswerFinal, Waits, Believed
  <2>2. CASE g # h
    BY <2>2, <1>1, <1>4, <1>9, PairIs
       DEF Waits, IInv, Promises, Refusals, AnswersFinal, AnswerFinal, Believed
  <2> QED
    BY <2>1, <2>2
<1>19. EntriesLive'
  <2> SUFFICES ASSUME NEW j \in Keys, registry'[j] # None, slot'[registry'[j]] = "busy"
               PROVE  handler'[registry'[j]].state = "forgetting"
    BY DEF EntriesLive
  <2>1. j # k /\ registry'[j] = registry[j] /\ registry[j] \in Handlers
    BY <1>4 DEF IInv, TypeOK, StoreTypeOK
  <2>2. handler[registry[j]].state = "forgetting" /\ registry[j] # h
    BY <1>2, <1>4, <2>1 DEF IInv, Promises, Refusals, EntriesLive, Identities
  <2> QED
    BY <1>1, <2>1, <2>2
<1>20. VerdictsFinal'
  BY <1>4, <1>9 DEF VerdictsFinal, IInv, Promises, Refusals
<1> QED
  BY <1>8, <1>11, <1>12, <1>13, <1>14, <1>15, <1>16, <1>18, <1>19, <1>20
     DEF Promises, Stages, Once, Refusals

\* The first line of a connection is read.
LEMMA ReadRequestKeeps ==
  ASSUME IInv, NEW h \in Handlers, ReadRequest(h)
  PROVE  Promises'
<1>1. /\ handler[h].state = "inflight"
      /\ UNCHANGED <<clock, client, open, instance, owner, reply, effect>>
  BY DEF ReadRequest, outside
<1>2. ASSUME NEW answer \in Refused, Respond(h, answer, FALSE), Forgets, UNCHANGED slot
      PROVE  Promises'
  BY <1>1, <1>2, RefusesKeep, EndsKeep
<1>3. CASE UNCHANGED store /\ (Respond(h, "badtoken", FALSE) \/ Respond(h, "closing", FALSE))
  <2>1. Forgets /\ UNCHANGED slot
    BY <1>3, ForgetsNothing DEF store
  <2> QED
    BY <1>2, <1>3, <2>1 DEF Refused
<1>4. CASE TokenMatches(h) /\ Begin(h)
  <2>1. order' = Left /\ UNCHANGED slot
    BY <1>4 DEF Begin, Purge
  <2>2. CASE registry' = Registered
               /\ (Respond(h, "conflict", FALSE) \/ Respond(h, "busy", FALSE))
    <3>1. Forgets
      BY <2>1, <2>2, ForgetsExpired
    <3> QED
      BY <1>2, <2>1, <2>2, <3>1 DEF Refused
  <2>3. CASE Joins(h)
    BY <2>3, JoinsKeep
  <2>4. CASE Inserts(h)
    BY <2>4, InsertsKeep
  <2> QED
    BY <1>1, <1>4, <2>1, <2>2, <2>3, <2>4 DEF Begin, Joins, Inserts
<1> QED
  BY <1>3, <1>4 DEF ReadRequest

-----------------------------------------------------------------------------
(* The steps of the client.                                                *)

\* A client gives up an attempt: it will repeat the command, or it is done.
Leaves(c) ==
  /\ UNCHANGED <<clock, registry, slot, order, owner, reply, open, instance, effect>>
  /\ \A d \in Clients \ {c} : client'[d] = client[d]
  /\ client'[c].key = client[c].key /\ client'[c].token = client[c].token
  /\ \A h \in Handlers :
       \/ handler'[h] = handler[h]
       \/ handler[h].state = "answered" /\ handler'[h].state = "gone"
  /\ handler'[<<c, client[c].try>>].state # "answered"
  /\ \/ /\ Waits(c, 1)
        /\ client'[c].phase = "retry" /\ client'[c].try = 2
        /\ client'[c].verdict = None
     \/ /\ client'[c].phase = "done" /\ client'[c].try = client[c].try
        /\ client'[c].verdict \in Executed => effect[c] = <<client'[c].verdict>>
        /\ client'[c].verdict \in Refused \cup {"unsent"} => NeverRuns(c)

LEMMA LeavesKeep ==
  ASSUME IInv, NEW c \in Clients, Leaves(c)
  PROVE  Promises'
<1>1. /\ UNCHANGED <<clock, registry, slot, order, owner, reply, open, instance, effect>>
      /\ \A d \in Clients \ {c} : client'[d] = client[d]
      /\ client'[c].key = client[c].key /\ client'[c].token = client[c].token
      /\ client'[c].phase \in {"retry", "done"}
      /\ client'[c].try \in {1, 2}
  BY DEF Leaves, IInv, TypeOK, OutsideTypeOK, ClientRecords
<1>2. \A h \in Handlers :
        \/ handler'[h] = handler[h]
        \/ handler[h].state = "answered" /\ handler'[h].state = "gone"
  BY DEF Leaves
<1>3. \A h \in Handlers :
        /\ handler[h].state # "answered" => handler'[h] = handler[h]
        /\ handler'[h].state # "gone" => handler'[h] = handler[h]
        /\ Begun(h)' <=> Begun(h)
        /\ Pending(h)' <=> Pending(h)
        /\ InHands(h)' <=> InHands(h)
        /\ ToRun(h)' <=> ToRun(h)
        /\ Key(h)' = Key(h)
  <2> SUFFICES ASSUME NEW h \in Handlers
               PROVE  /\ handler[h].state # "answered" => handler'[h] = handler[h]
                      /\ handler'[h].state # "gone" => handler'[h] = handler[h]
                      /\ Begun(h)' <=> Begun(h)
                      /\ Pending(h)' <=> Pending(h)
                      /\ InHands(h)' <=> InHands(h)
                      /\ ToRun(h)' <=> ToRun(h)
                      /\ Key(h)' = Key(h)
    OBVIOUS
  <2>1. Key(h)' = Key(h)
    BY <1>1, PairIs DEF Key
  <2>2. InHands(h)' <=> InHands(h)
    BY <1>1 DEF InHands
  <2> QED
    BY <1>1, <1>2, <2>1, <2>2 DEF Begun, Pending, ToRun
<1>4. \A d \in Clients : NeverRuns(d)' <=> NeverRuns(d)
  <2> SUFFICES ASSUME NEW d \in Clients
               PROVE  NeverRuns(d)' <=> NeverRuns(d)
    OBVIOUS
  <2>1. \A n \in {1, 2} : handler'[<<d, n>>].state \in {"inflight", "emitting"} <=>
                           handler[<<d, n>>].state \in {"inflight", "emitting"}
    BY <1>2, HandlerIs
  <2>2. effect' = effect /\ owner' = owner
    BY <1>1
  <2> QED
    BY <2>1, <2>2 DEF NeverRuns
<1>5. \A h \in Handlers : handler'[h].state = "answered" => h[1] # c
  <2> SUFFICES ASSUME NEW h \in Handlers, handler'[h].state = "answered", h[1] = c
               PROVE  FALSE
    OBVIOUS
  <2>1. handler[h].state = "answered"
    BY <1>3
  <2>2. h = <<c, client[c].try>>
    BY <2>1, PairIs DEF IInv, Promises, Stages, HandlerFits, HandlerFit, Waits
  <2> QED
    BY <2>2 DEF Leaves
<1>6. \A d \in Clients : CanStart(d)' => CanStart(d)
  <2> SUFFICES ASSUME NEW d \in Clients, CanStart(d)'
               PROVE  CanStart(d)
    OBVIOUS
  <2>1. \A n \in {1, 2} : handler'[<<d, n>>].state = "inflight" => handler[<<d, n>>].state = "inflight"
    BY <1>2, HandlerIs
  <2>2. CASE d = c
    BY <2>1, <2>2, <1>1 DEF CanStart, Waits, Leaves
  <2>3. CASE d # c
    BY <2>1, <2>3, <1>1 DEF CanStart, Waits
  <2> QED
    BY <2>2, <2>3
<1>7. ClientFits'
  <2> SUFFICES ASSUME NEW d \in Clients
               PROVE  /\ client'[d].phase = "idle" => client'[d].try = 1 /\ handler'[<<d, 1>>].state = "unsent"
                      /\ client'[d].phase = "retry" => client'[d].try = 2 /\ handler'[<<d, 2>>].state = "unsent"
                      /\ client'[d].try = 1 => handler'[<<d, 2>>].state = "unsent"
                      /\ client'[d].phase # "done" => client'[d].verdict = None
                      /\ client'[d].token <= instance'
    BY DEF ClientFits
  <2>1. \A n \in {1, 2} : handler[<<d, n>>].state = "unsent" => handler'[<<d, n>>].state = "unsent"
    BY <1>2, HandlerIs
  <2>2. CASE d = c
    BY <2>1, <2>2, <1>1 DEF Leaves, Waits, IInv, Promises, Stages, ClientFits
  <2>3. CASE d # c
    BY <2>1, <2>3, <1>1 DEF IInv, Promises, Stages, ClientFits
  <2> QED
    BY <2>2, <2>3
<1>8. HandlerFits'
  <2> SUFFICES ASSUME NEW h \in Handlers
               PROVE  HandlerFit(h)'
    BY DEF HandlerFits
  <2>1. HandlerFit(h)
    BY DEF IInv, Promises, Stages, HandlerFits
  <2>2. handler'[h].state = "answered" => Waits(h[1], h[2])'
    BY <1>1, <1>3, <1>5, <2>1, PairIs DEF HandlerFit, Waits
  <2>3. ASSUME handler'[h].state = "waiting"
        PROVE  (handler[h].entry \in Handlers /\ handler[h].entry[1] = h[1] /\ Begun(handler[h].entry))'
    <3>1. PICK e \in Handlers : e = handler[h].entry /\ e[1] = h[1] /\ Begun(e)
      BY <1>3, <2>1, <2>3 DEF HandlerFit
    <3>2. handler'[h].entry = e /\ Begun(e)'
      BY <1>3, <2>3, <3>1
    <3>3. Begun(handler[h].entry)' = Begun(e)'
      BY <3>2 DEF Begun
    <3> QED
      BY <3>1, <3>2, <3>3
  <2>4. CASE handler'[h] = handler[h]
    BY <1>1, <1>3, <2>1, <2>2, <2>3, <2>4 DEF HandlerFit
  <2>5. CASE handler'[h].state = "gone"
    BY <1>1, <1>3, <2>1, <2>2, <2>3, <2>5 DEF HandlerFit
  <2> QED
    BY <1>2, <2>4, <2>5
<1>9. Deadlines'
  <2>1. \A d \in Clients : client'[d].phase = "waiting" => client'[d] = client[d]
    BY <1>1
  <2>2. \A h \in Handlers : handler'[h].state = "inflight" => handler'[h] = handler[h]
    BY <1>3
  <2> QED
    BY <1>1, <2>1, <2>2 DEF Deadlines, IInv, Promises
<1>10. Identities'
  <2>1. ASSUME NEW k \in Keys, registry'[k] # None
        PROVE  (Key(registry[k]) = k /\ Begun(registry[k]))'
    <3>1. PICK g \in Handlers : registry'[k] = g /\ registry[k] = g
      BY <1>1, <2>1 DEF IInv, TypeOK, StoreTypeOK
    <3>2. Key(g) = k /\ Begun(g)
      BY <2>1, <3>1 DEF IInv, Promises, Identities
    <3>3. (Key(g) = k /\ Begun(g))'
      BY <1>3, <3>2
    <3>4. Key(registry[k])' = Key(g)' /\ Begun(registry[k])' = Begun(g)'
      BY <3>1 DEF Key, Begun
    <3> QED
      BY <3>3, <3>4
  <2>2. ASSUME NEW g \in Handlers, Pending(g)'
        PROVE  (registry[Key(g)] = g /\ ~HasRecord(Key(g)))'
    <3>1. registry[Key(g)] = g /\ ~HasRecord(Key(g))
      BY <1>3, <2>2 DEF IInv, Promises, Identities
    <3> QED
      BY <1>1, <1>3, <3>1 DEF HasRecord
  <2>3. /\ \A i \in DOMAIN order' : registry'[order'[i].key] # None
        /\ \A i, j \in DOMAIN order' : order'[i].key = order'[j].key => i = j
    BY <1>1 DEF IInv, Promises, Identities
  <2>4. \A k \in Keys : registry'[k] # None => (Key(registry[k]) = k /\ Begun(registry[k]))'
    BY <2>1
  <2>5. \A g \in Handlers : Pending(g)' => (registry[Key(g)] = g /\ ~HasRecord(Key(g)))'
    BY <2>2
  <2> QED
    BY <2>3, <2>4, <2>5 DEF Identities
<1>11. Retained'
  <2> SUFFICES ASSUME NEW i \in DOMAIN order'
               PROVE  (order[i].at <= clock /\ Fresh(order[i], registry[order[i].key][1]))'
    BY DEF Retained
  <2>1. PICK rec \in Records : rec = order[i] /\ i \in DOMAIN order
    BY <1>1 DEF IInv, TypeOK, StoreTypeOK
  <2>2. PICK d \in Clients : d = registry[rec.key][1]
    <3>1. registry[rec.key] \in Handlers
      BY <2>1 DEF IInv, Promises, TypeOK, StoreTypeOK, Identities, Records
    <3> QED
      BY <3>1, PairIs
  <2>3. rec.at <= clock /\ Fresh(rec, d)
    BY <2>1, <2>2 DEF IInv, Promises, Retained
  <2>4. \A n \in {1, 2} : handler'[<<d, n>>].state = "inflight" => handler'[<<d, n>>].sentAt <= rec.at + Attempt
    <3> SUFFICES ASSUME NEW n \in {1, 2}, handler'[<<d, n>>].state = "inflight"
                 PROVE  handler'[<<d, n>>].sentAt <= rec.at + Attempt
      OBVIOUS
    <3>1. handler'[<<d, n>>] = handler[<<d, n>>]
      BY <1>3, HandlerIs
    <3> QED
      BY <2>3, <3>1 DEF Fresh
  <2>5. CASE d # c
    <3>1. Fresh(rec, d)'
      BY <1>1, <2>3, <2>4, <2>5 DEF Fresh, Waits
    <3> QED
      BY <1>1, <2>1, <2>2, <2>3, <3>1
  <2>6. CASE d = c
    <3>1. ASSUME client'[c].phase = "retry"  PROVE clock <= rec.at + Attempt
      <4>1. Waits(c, 1) /\ client[c].sentAt \in Nat /\ clock \in Nat /\ rec.at \in Nat
        BY <3>1 DEF Leaves, IInv, TypeOK, OutsideTypeOK, ClientRecords, Records
      <4>2. client[c].sentAt <= rec.at /\ clock <= client[c].sentAt + Attempt
        BY <4>1, <2>3, <2>6 DEF Fresh, IInv, Promises, Deadlines, Waits
      <4> QED
        BY <4>1, <4>2, Numbers
    <3>2. ~Waits(c, 1)'
      BY <1>1 DEF Waits
    <3>3. Fresh(rec, c)'
      BY <1>1, <2>4, <2>6, <3>1, <3>2 DEF Fresh
    <3> QED
      BY <1>1, <2>1, <2>2, <2>3, <2>6, <3>3
  <2> QED
    BY <2>5, <2>6
<1>12. RunsOnce'
  <2> SUFFICES ASSUME NEW d \in Clients
               PROVE  /\ Len(effect[d]) <= 1
                      /\ effect[d] # <<>> => \E n \in {1, 2} : Begun(<<d, n>>)'
                      /\ effect[d] # <<>> /\ CanStart(d)' /\ client'[d].token = instance =>
                           registry[client'[d].key] # None /\ registry[client'[d].key][1] = d
    <3>1. effect' = effect /\ registry' = registry /\ instance' = instance
      BY <1>1
    <3> QED
      BY <3>1 DEF RunsOnce
  <2>1. client'[d].key = client[d].key /\ client'[d].token = client[d].token
    BY <1>1
  <2> QED
    BY <1>3, <1>6, <2>1, HandlerIs DEF IInv, Promises, Once, RunsOnce
<1>13. PendingIsNew'
  BY <1>1, <1>3 DEF PendingIsNew, IInv, Promises, Once
<1>14. Outcomes'
  <2>1. \A d \in Clients : client'[d].verdict \in Executed => effect[d] = <<client'[d].verdict>>
    BY <1>1, NoneIs DEF Leaves, IInv, Promises, Outcomes, Answers
  <2>2. \A h \in Handlers : handler'[h].state = "answered" /\ handler'[h].answer \in Executed =>
            effect[h[1]] = <<handler'[h].answer>>
    BY <1>3 DEF IInv, Promises, Outcomes
  <2> QED
    BY <1>1, <2>1, <2>2 DEF Outcomes, IInv, Promises
<1>15. SlotFits'
  <2>1. \A h \in Handlers : handler'[h].state = "emitting" => handler[h].state = "emitting"
    BY <1>2
  <2> QED
    BY <1>1, <1>3, <2>1 DEF SlotFits, IInv, Promises, Refusals
<1>16. AnswersFinal'
  <2> SUFFICES ASSUME NEW g \in Handlers
               PROVE  AnswerFinal(g)'
    BY DEF AnswersFinal
  <2>1. CASE handler'[g].state = "answered" /\ g[1] # c
    BY <2>1, <1>3, <1>4, PairIs
       DEF IInv, Promises, Refusals, AnswersFinal, AnswerFinal, Believed
  <2>2. CASE handler'[g].state = "waiting" /\ g[1] # c
    <3>1. Waits(g[1], g[2])' <=> Waits(g[1], g[2])
      BY <2>2, <1>1, PairIs DEF Waits
    <3> QED
      BY <2>2, <3>1, <1>1, <1>3, <1>4, PairIs
         DEF IInv, Promises, Refusals, AnswersFinal, AnswerFinal, Believed
  <2>3. CASE handler'[g].state # "answered" /\ g[1] = c
    <3>1. ~Waits(g[1], g[2])'
      BY <2>3, <1>1 DEF Waits
    <3> QED
      BY <2>3, <3>1 DEF AnswerFinal
  <2>4. CASE handler'[g].state \notin {"answered", "waiting"}
    BY <2>4 DEF AnswerFinal
  <2> QED
    BY <1>5, <2>1, <2>2, <2>3, <2>4
<1>17. EntriesLive'
  <2> SUFFICES ASSUME NEW k \in Keys, registry[k] # None, slot[registry[k]] = "busy"
               PROVE  handler'[registry[k]].state = "forgetting"
    BY <1>1 DEF EntriesLive
  <2>1. handler[registry[k]].state = "forgetting" /\ registry[k] \in Handlers
    BY DEF IInv, Promises, Refusals, EntriesLive, TypeOK, StoreTypeOK
  <2> QED
    BY <2>1, <1>3
<1>18. VerdictsFinal'
  <2> SUFFICES ASSUME NEW d \in Clients, client'[d].verdict \in Refused \cup {"unsent"}
               PROVE  client'[d].phase = "done" /\ NeverRuns(d)
    BY <1>4 DEF VerdictsFinal
  <2>1. CASE d = c
    BY <2>1, NoneIs DEF Leaves
  <2>2. CASE d # c
    BY <2>2, <1>1 DEF IInv, Promises, Refusals, VerdictsFinal
  <2> QED
    BY <2>1, <2>2
<1> QED
  BY <1>7, <1>8, <1>9, <1>10, <1>11, <1>12, <1>13, <1>14, <1>15, <1>16, <1>17, <1>18
     DEF Promises, Stages, Once, Refusals

\* The verdict a client is done with, or the second attempt it goes on to.
LEMMA FinishIs ==
  ASSUME IInv, NEW c \in Clients, NEW v \in Verdicts, Finish(c, v)
  PROVE  /\ client' \in [Clients -> ClientRecords]
         /\ \A d \in Clients \ {c} : client'[d] = client[d]
         /\ client'[c].key = client[c].key /\ client'[c].token = client[c].token
         /\ client'[c].phase = "done" /\ client'[c].try = client[c].try
         /\ client'[c].verdict = v
<1> DEFINE r == [client[c] EXCEPT !.phase = "done", !.verdict = v, !.sentAt = 0]
<1>1. client \in [Clients -> ClientRecords] /\ client' = [client EXCEPT ![c] = r]
  BY DEF Finish, IInv, TypeOK, OutsideTypeOK
<1>2. client[c] \in ClientRecords
  BY <1>1
<1>3. /\ r \in ClientRecords
      /\ r.key = client[c].key /\ r.token = client[c].token /\ r.try = client[c].try
      /\ r.phase = "done" /\ r.verdict = v
  BY <1>2 DEF ClientRecords
<1> HIDE DEF r
<1> QED
  BY <1>1, <1>3

LEMMA AmbiguousIs ==
  ASSUME IInv, NEW c \in Clients, client[c].phase = "waiting", Ambiguous(c)
  PROVE  /\ client' \in [Clients -> ClientRecords]
         /\ \A d \in Clients \ {c} : client'[d] = client[d]
         /\ client'[c].key = client[c].key /\ client'[c].token = client[c].token
         /\ \/ /\ Waits(c, 1) /\ client'[c].phase = "retry" /\ client'[c].try = 2
               /\ client'[c].verdict = None
            \/ /\ client'[c].phase = "done" /\ client'[c].try = client[c].try
               /\ client'[c].verdict = "unconfirmed"
<1> DEFINE r == [client[c] EXCEPT !.phase = "retry", !.try = 2, !.sentAt = 0]
<1>1. CASE Finish(c, "unconfirmed")
  <2>1. "unconfirmed" \in Verdicts
    BY DEF Verdicts
  <2> QED
    BY <1>1, <2>1, FinishIs
<1>2. CASE client[c].try = 1 /\ client' = [client EXCEPT ![c] = r]
  <2>1. client \in [Clients -> ClientRecords] /\ client[c] \in ClientRecords
    BY DEF IInv, TypeOK, OutsideTypeOK
  <2>2. /\ r \in ClientRecords
        /\ r.key = client[c].key /\ r.token = client[c].token
        /\ r.phase = "retry" /\ r.try = 2 /\ r.verdict = client[c].verdict
    BY <2>1 DEF ClientRecords
  <2>3. client[c].verdict = None
    BY DEF IInv, Promises, Stages, ClientFits
  <2> HIDE DEF r
  <2> QED
    BY <1>2, <2>1, <2>2, <2>3 DEF Waits
<1> QED
  BY <1>1, <1>2 DEF Ambiguous

LEMMA HangUpIs ==
  ASSUME TypeOK, NEW h \in Handlers, HangUp(h)
  PROVE  /\ handler' \in [Handlers -> HandlerRecords]
         /\ \A g \in Handlers :
              \/ handler'[g] = handler[g]
              \/ handler[g].state = "answered" /\ handler'[g].state = "gone"
         /\ handler'[h].state # "answered"
<1>1. Closed \in HandlerRecords /\ Closed.state = "gone"
  BY DEF Closed, Idle, HandlerRecords, HandlerStates
<1>2. CASE handler[h].state = "answered"
  BY <1>1, <1>2 DEF HangUp, TypeOK, StoreTypeOK
<1>3. CASE handler[h].state # "answered"
  BY <1>3 DEF HangUp, TypeOK, StoreTypeOK
<1> QED
  BY <1>2, <1>3

LEMMA ConnectFailsKeeps ==
  ASSUME IInv, NEW c \in Clients, ConnectFails(c)
  PROVE  Promises'
<1> DEFINE v == IF client[c].try = 1 THEN "unsent" ELSE "unconfirmed"
<1>1. v \in Verdicts /\ Finish(c, v)
  BY DEF ConnectFails, Verdicts
<1>2. v \notin Executed \cup Refused
  BY NoneIs DEF Refused
<1>3. client[c].phase \in {"idle", "retry"} /\ client[c].try \in {1, 2}
  BY DEF ConnectFails, IInv, TypeOK, OutsideTypeOK, ClientRecords
<1>4. handler[<<c, client[c].try>>].state = "unsent"
  BY <1>3 DEF IInv, Promises, Stages, ClientFits
<1>5. ASSUME v = "unsent"  PROVE NeverRuns(c)
  <2>1. \A n \in {1, 2} : handler[<<c, n>>].state = "unsent"
    BY <1>3, <1>4, <1>5 DEF IInv, Promises, Stages, ClientFits
  <2>2. \A n \in {1, 2} : ~Begun(<<c, n>>) /\ <<c, n>> \notin owner
    BY <2>1, HandlerIs DEF Begun, IInv, Promises, Stages, HandlerFits, HandlerFit, InHands
  <2>3. effect[c] = <<>>
    BY <2>2 DEF IInv, Promises, Once, RunsOnce
  <2> QED
    BY <2>1, <2>2, <2>3 DEF NeverRuns
<1> HIDE DEF v
<1>6. /\ \A d \in Clients \ {c} : client'[d] = client[d]
      /\ client'[c].key = client[c].key /\ client'[c].token = client[c].token
      /\ client'[c].phase = "done" /\ client'[c].try = client[c].try
      /\ client'[c].verdict = v
  BY <1>1, FinishIs
<1>7. UNCHANGED <<clock, handler, registry, slot, order, owner, reply, open, instance, effect>>
  BY DEF ConnectFails, store
<1>8. Leaves(c)
  BY <1>2, <1>4, <1>5, <1>6, <1>7 DEF Leaves
<1> QED
  BY <1>8, LeavesKeep

LEMMA NoAnswerKeeps ==
  ASSUME IInv, NEW c \in Clients, NoAnswer(c)
  PROVE  Promises'
<1>1. client[c].phase = "waiting" /\ Ambiguous(c) /\ HangUp(<<c, client[c].try>>)
  BY DEF NoAnswer
<1>2. <<c, client[c].try>> \in Handlers /\ TypeOK
  BY HandlerIs DEF IInv, TypeOK, OutsideTypeOK, ClientRecords
<1>3. "unconfirmed" \notin Executed \cup Refused
  BY NoneIs DEF Refused
<1>4. UNCHANGED <<clock, registry, slot, order, owner, reply, open, instance, effect>>
  BY DEF NoAnswer, store
<1>5. /\ \A g \in Handlers :
           \/ handler'[g] = handler[g]
           \/ handler[g].state = "answered" /\ handler'[g].state = "gone"
      /\ handler'[<<c, client[c].try>>].state # "answered"
  BY <1>1, <1>2, HangUpIs
<1>6. Leaves(c)
  BY <1>1, <1>3, <1>4, <1>5, AmbiguousIs DEF Leaves
<1> QED
  BY <1>6, LeavesKeep

LEMMA ReadAnswerKeeps ==
  ASSUME IInv, NEW c \in Clients, ReadAnswer(c)
  PROVE  Promises'
<1> DEFINE h == <<c, client[c].try>>
           v == handler[h].answer
<1>1. client[c].phase = "waiting" /\ HangUp(h) /\ handler[h].state = "answered"
  BY DEF ReadAnswer
<1>2. h \in Handlers /\ h[1] = c /\ h[2] = client[c].try /\ TypeOK
  BY HandlerIs DEF IInv, TypeOK, OutsideTypeOK, ClientRecords
<1>3. UNCHANGED <<clock, registry, slot, order, owner, reply, open, instance, effect>>
  BY DEF ReadAnswer, store
<1>4. \/ Ambiguous(c)
      \/ Finish(c, v) /\ v # "lost" /\ Believed(h, handler[h].replay)
  BY <1>2 DEF ReadAnswer, Authoritative, Believed
<1>5. v \in {None} \cup Answers
  BY <1>2 DEF TypeOK, StoreTypeOK, HandlerRecords
<1>6. v \in Executed => effect[c] = <<v>>
  BY <1>1, <1>2 DEF IInv, Promises, Outcomes
<1>7. Believed(h, handler[h].replay) /\ v \in Refused => NeverRuns(c)
  BY <1>1, <1>2 DEF IInv, Promises, Refusals, AnswersFinal, AnswerFinal
<1>8. /\ "unconfirmed" \notin Executed \cup Refused \cup {"unsent"}
      /\ "unsent" \notin {None} \cup Answers
  BY NoneIs DEF Refused, Answers
<1> HIDE DEF h, v
<1>9. /\ \A g \in Handlers :
           \/ handler'[g] = handler[g]
           \/ handler[g].state = "answered" /\ handler'[g].state = "gone"
      /\ handler'[h].state # "answered"
  BY <1>1, <1>2, HangUpIs
<1>10. Leaves(c)
  <2>1. CASE Ambiguous(c)
    <3>1. /\ \A d \in Clients \ {c} : client'[d] = client[d]
          /\ client'[c].key = client[c].key /\ client'[c].token = client[c].token
          /\ \/ /\ Waits(c, 1) /\ client'[c].phase = "retry" /\ client'[c].try = 2
                /\ client'[c].verdict = None
             \/ /\ client'[c].phase = "done" /\ client'[c].try = client[c].try
                /\ client'[c].verdict = "unconfirmed"
      BY <1>1, <2>1, AmbiguousIs
    <3> QED
      BY <1>3, <1>8, <1>9, <3>1 DEF Leaves, h
  <2>2. CASE Finish(c, v) /\ v # "lost" /\ Believed(h, handler[h].replay)
    <3>1. v \in Verdicts
      BY <1>5, <2>2 DEF Answers, Verdicts
    <3>2. /\ \A d \in Clients \ {c} : client'[d] = client[d]
          /\ client'[c].key = client[c].key /\ client'[c].token = client[c].token
          /\ client'[c].phase = "done" /\ client'[c].try = client[c].try
          /\ client'[c].verdict = v
      BY <2>2, <3>1, FinishIs
    <3>3. v \in Refused \cup {"unsent"} => NeverRuns(c)
      BY <1>5, <1>7, <1>8, <2>2
    <3> QED
      BY <1>3, <1>6, <1>9, <3>2, <3>3 DEF Leaves, h
  <2> QED
    BY <1>4, <2>1, <2>2
<1> QED
  BY <1>10, LeavesKeep

\* A request is written: the first, or the repeated one.
LEMMA SendIs ==
  ASSUME IInv, NEW c \in Clients, Send(c)
  PROVE  \E n \in {1, 2} :
    /\ n = client[c].try
    /\ client' \in [Clients -> ClientRecords]
    /\ handler' \in [Handlers -> HandlerRecords]
    /\ \A d \in Clients \ {c} : client'[d] = client[d]
    /\ client'[c].key = client[c].key /\ client'[c].try = n
    /\ client'[c].phase = "waiting" /\ client'[c].sentAt = clock
    /\ client'[c].verdict = None
    /\ client'[c].token <= instance
    /\ n = 2 => client'[c].token = client[c].token
    /\ \A g \in Handlers \ {<<c, n>>} : handler'[g] = handler[g]
    /\ handler[<<c, n>>].state = "unsent" /\ handler'[<<c, n>>].state = "inflight"
    /\ handler'[<<c, n>>].sentAt = clock
<1>1. PICK n \in {1, 2} : n = client[c].try
  BY DEF IInv, TypeOK, OutsideTypeOK, ClientRecords
<1>2. /\ <<c, n>> \in Handlers
      /\ client \in [Clients -> ClientRecords] /\ client[c] \in ClientRecords
      /\ handler \in [Handlers -> HandlerRecords] /\ handler[<<c, n>>] \in HandlerRecords
      /\ clock \in Nat /\ instance \in Nat
  BY HandlerIs DEF IInv, TypeOK, OutsideTypeOK, StoreTypeOK
<1>3. /\ client[c].phase \in {"idle", "retry"}
      /\ client[c].verdict = None /\ client[c].token <= instance
      /\ handler[<<c, n>>].state = "unsent"
  BY <1>1 DEF Send, IInv, Promises, Stages, ClientFits
<1>4. PICK t \in IF client[c].try = 1 THEN 1 .. instance ELSE {client[c].token} :
        client' = [client EXCEPT ![c].phase = "waiting", ![c].token = t,
                                 ![c].sentAt = clock]
  BY DEF Send
<1>5. t \in Nat /\ t <= instance /\ (n = 2 => t = client[c].token)
  BY <1>1, <1>2, <1>3, <1>4 DEF ClientRecords
<1> DEFINE r == [client[c] EXCEPT !.phase = "waiting", !.token = t, !.sentAt = clock]
           q == [handler[<<c, n>>] EXCEPT !.state = "inflight", !.sentAt = clock]
<1>6. /\ r \in ClientRecords
      /\ r.key = client[c].key /\ r.try = n /\ r.phase = "waiting" /\ r.sentAt = clock
      /\ r.verdict = None /\ r.token = t
  BY <1>1, <1>2, <1>3, <1>5 DEF ClientRecords
<1>7. q \in HandlerRecords /\ q.state = "inflight" /\ q.sentAt = clock
  BY <1>2 DEF HandlerRecords, HandlerStates
<1>8. client' = [client EXCEPT ![c] = r]
  BY <1>2, <1>4
<1>9. handler' = [handler EXCEPT ![<<c, n>>] = q]
  BY <1>1, <1>2 DEF Send
<1> HIDE DEF r, q
<1>10. /\ client' \in [Clients -> ClientRecords]
       /\ \A d \in Clients \ {c} : client'[d] = client[d]
       /\ client'[c] = r
  BY <1>2, <1>6, <1>8
<1>11. /\ handler' \in [Handlers -> HandlerRecords]
       /\ \A g \in Handlers \ {<<c, n>>} : handler'[g] = handler[g]
       /\ handler'[<<c, n>>] = q
  BY <1>2, <1>7, <1>9
<1> QED
  BY <1>1, <1>3, <1>5, <1>6, <1>7, <1>10, <1>11

LEMMA SendKeeps ==
  ASSUME IInv, NEW c \in Clients, Send(c)
  PROVE  Promises'
<1>1. PICK n \in {1, 2} :
    /\ n = client[c].try
    /\ \A d \in Clients \ {c} : client'[d] = client[d]
    /\ client'[c].key = client[c].key /\ client'[c].try = n
    /\ client'[c].phase = "waiting" /\ client'[c].sentAt = clock
    /\ client'[c].verdict = None
    /\ client'[c].token <= instance
    /\ n = 2 => client'[c].token = client[c].token
    /\ \A g \in Handlers \ {<<c, n>>} : handler'[g] = handler[g]
    /\ handler[<<c, n>>].state = "unsent" /\ handler'[<<c, n>>].state = "inflight"
    /\ handler'[<<c, n>>].sentAt = clock
  BY SendIs
<1>2. PICK h \in Handlers : h = <<c, n>> /\ h[1] = c /\ h[2] = n
  BY HandlerIs
<1>3. UNCHANGED <<clock, registry, slot, order, owner, reply, open, instance, effect>>
  BY DEF Send, store
<1>4. client[c].phase \in {"idle", "retry"}
  BY DEF Send
<1>5. /\ \A g \in Handlers \ {h} : handler'[g] = handler[g]
      /\ handler[h].state = "unsent" /\ handler'[h].state = "inflight"
      /\ handler'[h].sentAt = clock
  BY <1>1, <1>2
<1>6. \A g \in Handlers :
        /\ Begun(g)' <=> Begun(g)
        /\ InHands(g)' <=> InHands(g)
        /\ Pending(g)' <=> Pending(g)
        /\ ToRun(g)' <=> ToRun(g)
        /\ Key(g)' = Key(g)
  <2> SUFFICES ASSUME NEW g \in Handlers
               PROVE  /\ Begun(g)' <=> Begun(g)
                      /\ InHands(g)' <=> InHands(g)
                      /\ Pending(g)' <=> Pending(g)
                      /\ ToRun(g)' <=> ToRun(g)
                      /\ Key(g)' = Key(g)
    OBVIOUS
  <2>1. Key(g)' = Key(g)
    BY <1>1, PairIs DEF Key
  <2>2. InHands(g)' <=> InHands(g)
    BY <1>3 DEF InHands
  <2> QED
    BY <1>3, <1>5, <2>1, <2>2 DEF Begun, Pending, ToRun
<1>7. ~Begun(h) /\ ~InHands(h)
  BY <1>5 DEF Begun, IInv, Promises, Stages, HandlerFits, HandlerFit
<1>8. \A g \in Handlers : g[1] = c => handler[g].state # "answered"
  BY <1>4 DEF Waits, IInv, Promises, Stages, HandlerFits, HandlerFit
<1>9. ClientFits'
  <2> SUFFICES ASSUME NEW d \in Clients
               PROVE  /\ client'[d].phase = "idle" => client'[d].try = 1 /\ handler'[<<d, 1>>].state = "unsent"
                      /\ client'[d].phase = "retry" => client'[d].try = 2 /\ handler'[<<d, 2>>].state = "unsent"
                      /\ client'[d].try = 1 => handler'[<<d, 2>>].state = "unsent"
                      /\ client'[d].phase # "done" => client'[d].verdict = None
                      /\ client'[d].token <= instance'
    BY DEF ClientFits
  <2>1. CASE d = c
    <3>1. ASSUME n = 1  PROVE handler'[<<c, 2>>].state = "unsent"
      <4>1. handler[<<c, 2>>].state = "unsent"
        BY <1>1, <3>1 DEF IInv, Promises, Stages, ClientFits
      <4>2. <<c, 2>> \in Handlers /\ <<c, 2>> # h
        BY <1>2, <3>1, HandlerIs
      <4> QED
        BY <1>5, <4>1, <4>2
    <3> QED
      BY <1>1, <1>3, <2>1, <3>1
  <2>2. CASE d # c
    <3>1. \A m \in {1, 2} : handler'[<<d, m>>] = handler[<<d, m>>]
      BY <1>2, <1>5, <2>2, HandlerIs
    <3> QED
      BY <1>1, <1>3, <2>2, <3>1 DEF IInv, Promises, Stages, ClientFits
  <2> QED
    BY <2>1, <2>2
<1>10. HandlerFits'
  <2> SUFFICES ASSUME NEW g \in Handlers
               PROVE  HandlerFit(g)'
    BY DEF HandlerFits
  <2>1. CASE g = h
    BY <1>5, <1>6, <1>7, <2>1, <1>3 DEF HandlerFit, InHands
  <2>2. CASE g # h
    <3>1. HandlerFit(g) /\ handler'[g] = handler[g]
      BY <1>5, <2>2 DEF IInv, Promises, Stages, HandlerFits
    <3>2. handler[g].state = "answered" => Waits(g[1], g[2])'
      BY <1>1, <1>8, <3>1, PairIs DEF HandlerFit, Waits
    <3>3. ASSUME handler[g].state = "waiting"
          PROVE  (handler[g].entry \in Handlers /\ handler[g].entry[1] = g[1] /\ Begun(handler[g].entry))'
      <4>1. PICK e \in Handlers : e = handler[g].entry /\ e[1] = g[1] /\ Begun(e)
        BY <3>1, <3>3 DEF HandlerFit
      <4>2. handler'[g].entry = e /\ Begun(e)'
        BY <1>6, <3>1, <4>1
      <4>3. Begun(handler[g].entry)' = Begun(e)'
        BY <4>2 DEF Begun
      <4> QED
        BY <4>1, <4>2, <4>3
    <3> QED
      BY <1>3, <1>6, <3>1, <3>2, <3>3 DEF HandlerFit
  <2> QED
    BY <2>1, <2>2
<1>11. Deadlines'
  <2>1. clock \in Nat /\ Attempt \in Nat
    BY Numbers DEF IInv, TypeOK, OutsideTypeOK
  <2>2. ASSUME NEW d \in Clients, client'[d].phase = "waiting"
        PROVE  client'[d].sentAt <= clock /\ clock <= client'[d].sentAt + Attempt
    BY <1>1, <2>1, <2>2 DEF IInv, Promises, Deadlines
  <2>3. ASSUME NEW g \in Handlers, handler'[g].state = "inflight"
        PROVE  handler'[g].sentAt <= clock /\ clock <= handler'[g].sentAt + Attempt
    BY <1>5, <2>1, <2>3 DEF IInv, Promises, Deadlines
  <2> QED
    BY <1>3, <2>2, <2>3 DEF Deadlines
<1>12. Identities'
  <2>1. ASSUME NEW k \in Keys, registry'[k] # None
        PROVE  (Key(registry[k]) = k /\ Begun(registry[k]))'
    <3>1. PICK g \in Handlers : registry'[k] = g /\ registry[k] = g
      BY <1>3, <2>1 DEF IInv, TypeOK, StoreTypeOK
    <3>2. Key(g) = k /\ Begun(g)
      BY <2>1, <3>1 DEF IInv, Promises, Identities
    <3>3. (Key(g) = k /\ Begun(g))'
      BY <1>6, <3>2
    <3>4. Key(registry[k])' = Key(g)' /\ Begun(registry[k])' = Begun(g)'
      BY <3>1 DEF Key, Begun
    <3> QED
      BY <3>3, <3>4
  <2>2. ASSUME NEW g \in Handlers, Pending(g)'
        PROVE  (registry[Key(g)] = g /\ ~HasRecord(Key(g)))'
    <3>1. registry[Key(g)] = g /\ ~HasRecord(Key(g))
      BY <1>6, <2>2 DEF IInv, Promises, Identities
    <3> QED
      BY <1>3, <1>6, <3>1 DEF HasRecord
  <2>3. /\ \A i \in DOMAIN order' : registry'[order'[i].key] # None
        /\ \A i, j \in DOMAIN order' : order'[i].key = order'[j].key => i = j
    BY <1>3 DEF IInv, Promises, Identities
  <2>4. \A k \in Keys : registry'[k] # None => (Key(registry[k]) = k /\ Begun(registry[k]))'
    BY <2>1
  <2>5. \A g \in Handlers : Pending(g)' => (registry[Key(g)] = g /\ ~HasRecord(Key(g)))'
    BY <2>2
  <2> QED
    BY <2>3, <2>4, <2>5 DEF Identities
<1>13. Retained'
  <2> SUFFICES ASSUME NEW i \in DOMAIN order'
               PROVE  (order[i].at <= clock /\ Fresh(order[i], registry[order[i].key][1]))'
    BY DEF Retained
  <2>1. PICK rec \in Records : rec = order[i] /\ i \in DOMAIN order
    BY <1>3 DEF IInv, TypeOK, StoreTypeOK
  <2>2. PICK e \in Handlers : e = registry[rec.key] /\ Begun(e)
    BY <2>1 DEF IInv, Promises, TypeOK, StoreTypeOK, Identities, Records
  <2>3. PICK d \in Clients, m \in {1, 2} : d = e[1] /\ e = <<d, m>>
    BY PairIs
  <2>4. rec.at <= clock /\ Fresh(rec, d)
    BY <2>1, <2>2, <2>3 DEF IInv, Promises, Retained
  <2>5. order'[i] = rec /\ registry'[rec.key][1] = d /\ clock' = clock
    BY <1>3, <2>1, <2>2, <2>3
  <2>6. CASE d # c
    <3>1. \A k \in {1, 2} : handler'[<<d, k>>] = handler[<<d, k>>]
      BY <1>2, <1>5, <2>6, HandlerIs
    <3>2. client'[d] = client[d]
      BY <1>1, <2>6
    <3>3. Fresh(rec, d)'
      BY <1>3, <2>4, <3>1, <3>2 DEF Fresh, Waits
    <3> QED
      BY <2>4, <2>5, <3>3
  <2>7. CASE d = c
    <3>1. client[c].phase = "retry" /\ n = 2
      <4>1. ASSUME client[c].phase = "idle"  PROVE FALSE
        <5>1. \A k \in {1, 2} : handler[<<c, k>>].state = "unsent"
          BY <4>1 DEF IInv, Promises, Stages, ClientFits
        <5> QED
          BY <2>2, <2>3, <2>7, <5>1 DEF Begun
      <4> QED
        BY <1>1, <1>4, <4>1 DEF IInv, Promises, Stages, ClientFits
    <3>2. clock <= rec.at + Attempt
      BY <2>4, <2>7, <3>1 DEF Fresh
    <3>3. ASSUME NEW k \in {1, 2}, handler'[<<c, k>>].state = "inflight"
          PROVE  handler'[<<c, k>>].sentAt <= rec.at + Attempt
      <4>1. CASE <<c, k>> = h
        BY <1>5, <3>2, <4>1
      <4>2. CASE <<c, k>> # h
        BY <1>5, <2>4, <2>7, <3>3, <4>2, HandlerIs DEF Fresh
      <4> QED
        BY <4>1, <4>2
    <3>4. ~Waits(c, 1)' /\ client'[c].phase # "retry"
      BY <1>1, <3>1 DEF Waits
    <3>5. Fresh(rec, c)'
      BY <3>3, <3>4 DEF Fresh
    <3> QED
      BY <2>4, <2>5, <2>7, <3>5
  <2> QED
    BY <2>6, <2>7
<1>14. RunsOnce'
  <2> SUFFICES ASSUME NEW d \in Clients
               PROVE  /\ Len(effect[d]) <= 1
                      /\ effect[d] # <<>> => \E m \in {1, 2} : Begun(<<d, m>>)'
                      /\ effect[d] # <<>> /\ CanStart(d)' /\ client'[d].token = instance =>
                           registry[client'[d].key] # None /\ registry[client'[d].key][1] = d
    <3>1. effect' = effect /\ registry' = registry /\ instance' = instance
      BY <1>3
    <3> QED
      BY <3>1 DEF RunsOnce
  <2>1. Len(effect[d]) <= 1
    BY DEF IInv, Promises, Once, RunsOnce
  <2>2. ASSUME effect[d] # <<>>  PROVE \E m \in {1, 2} : Begun(<<d, m>>)'
    BY <1>6, <2>2, HandlerIs DEF IInv, Promises, Once, RunsOnce
  <2>3. ASSUME effect[d] # <<>>, CanStart(d)', client'[d].token = instance
        PROVE  registry[client'[d].key] # None /\ registry[client'[d].key][1] = d
    <3>1. client'[d].key = client[d].key
      BY <1>1
    <3>2. CanStart(d)
      <4>1. CASE d = c
        BY <1>4, <4>1 DEF CanStart
      <4>2. CASE d # c
        <5>1. \A k \in {1, 2} : handler'[<<d, k>>] = handler[<<d, k>>]
          BY <1>2, <1>5, <4>2, HandlerIs
        <5>2. client'[d] = client[d]
          BY <1>1, <4>2
        <5> QED
          BY <2>3, <5>1, <5>2 DEF CanStart, Waits
      <4> QED
        BY <4>1, <4>2
    <3>3. client'[d].token = client[d].token
      <4>1. CASE d = c
        <5>1. ASSUME client[c].phase = "idle"  PROVE FALSE
          <6>1. \A k \in {1, 2} : handler[<<c, k>>].state = "unsent"
            BY <5>1 DEF IInv, Promises, Stages, ClientFits
          <6>2. \A k \in {1, 2} : ~Begun(<<c, k>>)
            BY <6>1 DEF Begun
          <6> QED
            BY <2>3, <4>1, <6>2 DEF IInv, Promises, Once, RunsOnce
        <5> QED
          BY <1>1, <1>4, <4>1, <5>1 DEF IInv, Promises, Stages, ClientFits
      <4>2. CASE d # c
        BY <1>1, <4>2
      <4> QED
        BY <4>1, <4>2
    <3> QED
      BY <2>3, <3>1, <3>2, <3>3 DEF IInv, Promises, Once, RunsOnce
  <2> QED
    BY <2>1, <2>2, <2>3
<1>15. PendingIsNew'
  BY <1>3, <1>6 DEF PendingIsNew, IInv, Promises, Once
<1>16. Outcomes'
  <2>1. \A d \in Clients : client'[d].verdict \in Executed => effect[d] = <<client'[d].verdict>>
    BY <1>1, NoneIs DEF IInv, Promises, Outcomes, Answers
  <2>2. \A g \in Handlers : handler'[g].state = "answered" /\ handler'[g].answer \in Executed =>
            effect[g[1]] = <<handler'[g].answer>>
    BY <1>5 DEF IInv, Promises, Outcomes
  <2> QED
    BY <1>3, <2>1, <2>2 DEF Outcomes, IInv, Promises
<1>17. SlotFits'
  BY <1>3, <1>5, <1>6 DEF SlotFits, IInv, Promises, Refusals
<1>18. \A d \in Clients \ {c} : NeverRuns(d)' <=> NeverRuns(d)
  <2> SUFFICES ASSUME NEW d \in Clients \ {c}
               PROVE  NeverRuns(d)' <=> NeverRuns(d)
    OBVIOUS
  <2>1. \A k \in {1, 2} : handler'[<<d, k>>] = handler[<<d, k>>]
    BY <1>2, <1>5, HandlerIs
  <2>2. effect' = effect /\ owner' = owner
    BY <1>3
  <2> QED
    BY <2>1, <2>2 DEF NeverRuns
<1>19. AnswersFinal'
  <2> SUFFICES ASSUME NEW g \in Handlers
               PROVE  AnswerFinal(g)'
    BY DEF AnswersFinal
  <2>1. CASE g[1] # c
    <3>1. handler'[g] = handler[g] /\ g[1] \in Clients \ {c}
      BY <1>2, <1>5, <2>1, PairIs
    <3>2. Waits(g[1], g[2])' <=> Waits(g[1], g[2])
      BY <1>1, <3>1 DEF Waits
    <3> QED
      BY <1>3, <1>18, <3>1, <3>2
         DEF IInv, Promises, Refusals, AnswersFinal, AnswerFinal, Believed
  <2>2. CASE g[1] = c /\ g # h
    <3>1. handler'[g].state # "answered"
      BY <1>5, <1>8, <2>2
    <3>2. ~Waits(g[1], g[2])'
      BY <1>1, <1>2, <2>2, PairIs DEF Waits
    <3> QED
      BY <3>1, <3>2 DEF AnswerFinal
  <2>3. CASE g = h
    BY <1>5, <2>3 DEF AnswerFinal
  <2> QED
    BY <2>1, <2>2, <2>3
<1>20. EntriesLive'
  <2> SUFFICES ASSUME NEW k \in Keys, registry[k] # None, slot[registry[k]] = "busy"
               PROVE  handler'[registry[k]].state = "forgetting"
    BY <1>3 DEF EntriesLive
  <2>1. handler[registry[k]].state = "forgetting" /\ registry[k] \in Handlers
    BY DEF IInv, Promises, Refusals, EntriesLive, TypeOK, StoreTypeOK
  <2> QED
    BY <1>5, <2>1
<1>21. VerdictsFinal'
  <2> SUFFICES ASSUME NEW d \in Clients, client'[d].verdict \in Refused \cup {"unsent"}
               PROVE  client'[d].phase = "done" /\ NeverRuns(d)'
    BY DEF VerdictsFinal
  <2>1. d # c
    BY <1>1, NoneIs
  <2> QED
    BY <1>1, <1>18, <2>1 DEF IInv, Promises, Refusals, VerdictsFinal
<1> QED
  BY <1>9, <1>10, <1>11, <1>12, <1>13, <1>14, <1>15, <1>16, <1>17, <1>19, <1>20, <1>21
     DEF Promises, Stages, Once, Refusals

-----------------------------------------------------------------------------
(* The steps of the owner and of its process.                              *)

\* The owner takes an admitted command from its queue, and runs it or not.
OwnerTakes(h, answer) ==
  /\ h \in owner /\ owner' = owner \ {h}
  /\ reply' = [reply EXCEPT ![h] = answer]
  /\ UNCHANGED <<clock, client, handler, registry, slot, order, open, instance>>
  /\ \A c \in Clients \ {h[1]} : effect'[c] = effect[c]
  /\ Len(effect'[h[1]]) <= 1
  /\ answer \in Executed => effect'[h[1]] = <<answer>>

LEMMA OwnerTakesKeeps ==
  ASSUME IInv, NEW h \in Handlers, NEW answer \in {"lost"} \cup Executed,
         OwnerTakes(h, answer)
  PROVE  Promises'
<1>1. /\ UNCHANGED <<clock, client, handler, registry, slot, order, open, instance>>
      /\ h \in owner /\ owner' = owner \ {h}
      /\ \A c \in Clients \ {h[1]} : effect'[c] = effect[c]
      /\ reply'[h] = answer /\ answer # None
      /\ \A g \in Handlers \ {h} : reply'[g] = reply[g]
  BY NoneIs DEF OwnerTakes, IInv, TypeOK, StoreTypeOK, Answers
<1>2. h[1] \in Clients /\ h = <<h[1], h[2]>> /\ h[2] \in {1, 2}
  BY PairIs
<1>3. /\ handler[h].state \in {"waiting", "answered", "gone"}
      /\ registry[Key(h)] = h
      /\ effect[h[1]] = <<>>
  BY <1>1 DEF IInv, Promises, Stages, HandlerFits, HandlerFit, InHands, Identities, Pending,
              Once, PendingIsNew, ToRun
<1>4. \A g \in Handlers : g # h /\ g[1] = h[1] => ~Pending(g)
  <2> SUFFICES ASSUME NEW g \in Handlers, g # h, g[1] = h[1], Pending(g)
               PROVE  FALSE
    OBVIOUS
  <2>1. registry[Key(g)] = g /\ Key(g) = Key(h)
    BY DEF IInv, Promises, Identities, Key
  <2> QED
    BY <1>3, <2>1
<1>5. \A g \in Handlers : InHands(g)' <=> InHands(g)
  BY <1>1 DEF InHands
<1>6. ClientFits' /\ Deadlines'
  BY <1>1 DEF IInv, Promises, Stages, ClientFits, Deadlines
<1>7. HandlerFits'
  BY <1>1, <1>5 DEF IInv, Promises, Stages, HandlerFits, HandlerFit, Waits, Begun
<1>8. Identities'
  <2>1. \A g \in Handlers : Pending(g)' <=> Pending(g)
    BY <1>1, <1>5 DEF Pending
  <2>2. \A k \in Keys : registry'[k] # None => (Key(registry[k]) = k /\ Begun(registry[k]))'
    BY <1>1 DEF IInv, Promises, Identities, Key, Begun
  <2>3. \A g \in Handlers : Pending(g)' => (registry[Key(g)] = g /\ ~HasRecord(Key(g)))'
    BY <1>1, <2>1 DEF IInv, Promises, Identities, Key, HasRecord
  <2>4. /\ \A i \in DOMAIN order' : registry'[order'[i].key] # None
        /\ \A i, j \in DOMAIN order' : order'[i].key = order'[j].key => i = j
    BY <1>1 DEF IInv, Promises, Identities
  <2> QED
    BY <2>2, <2>3, <2>4 DEF Identities
<1>9. Retained'
  BY <1>1 DEF IInv, Promises, Retained, Fresh, Waits
<1>10. RunsOnce'
  <2> SUFFICES ASSUME NEW c \in Clients
               PROVE  /\ Len(effect'[c]) <= 1
                      /\ effect'[c] # <<>> => \E n \in {1, 2} : Begun(<<c, n>>)
                      /\ effect'[c] # <<>> /\ CanStart(c) /\ client[c].token = instance =>
                           registry[client[c].key] # None /\ registry[client[c].key][1] = c
    BY <1>1 DEF RunsOnce, Begun, CanStart, Waits
  <2>1. CASE c = h[1]
    <3>1. Len(effect'[c]) <= 1
      BY <2>1 DEF OwnerTakes
    <3>2. \E n \in {1, 2} : Begun(<<c, n>>)
      BY <1>2, <1>3, <2>1 DEF Begun
    <3>3. registry[client[c].key] # None /\ registry[client[c].key][1] = c
      BY <1>3, <2>1, NoneIs DEF Key
    <3> QED
      BY <3>1, <3>2, <3>3
  <2>2. CASE c # h[1]
    BY <1>1, <2>2 DEF IInv, Promises, Once, RunsOnce
  <2> QED
    BY <2>1, <2>2
<1>11. PendingIsNew'
  <2> SUFFICES ASSUME NEW g \in Handlers, ToRun(g)'
               PROVE  effect'[g[1]] = <<>>
    BY DEF PendingIsNew
  <2>1. g # h /\ ToRun(g) /\ Pending(g)
    BY <1>1, <1>3 DEF ToRun, Pending, InHands
  <2>2. g[1] \in Clients \ {h[1]}
    BY <1>4, <2>1, PairIs
  <2> QED
    BY <1>1, <2>1, <2>2 DEF IInv, Promises, Once, PendingIsNew
<1>12. Outcomes'
  <2>1. ASSUME NEW g \in Handlers
        PROVE  /\ slot[g] \in Executed => effect'[g[1]] = <<slot[g]>>
               /\ reply'[g] \in Executed => effect'[g[1]] = <<reply'[g]>>
               /\ handler[g].state = "answered" /\ handler[g].answer \in Executed =>
                    effect'[g[1]] = <<handler[g].answer>>
    <3>1. CASE g[1] = h[1]
      <4>1. /\ slot[g] \notin Executed /\ reply[g] \notin Executed
            /\ ~(handler[g].state = "answered" /\ handler[g].answer \in Executed)
        BY <1>3, <3>1 DEF IInv, Promises, Outcomes
      <4>2. reply'[g] \in Executed => effect'[g[1]] = <<reply'[g]>>
        BY <1>1, <3>1, <4>1 DEF OwnerTakes
      <4> QED
        BY <4>1, <4>2
    <3>2. CASE g[1] # h[1]
      <4>1. effect'[g[1]] = effect[g[1]] /\ reply'[g] = reply[g]
        BY <1>1, <3>2, PairIs
      <4> QED
        BY <4>1 DEF IInv, Promises, Outcomes
    <3> QED
      BY <3>1, <3>2
  <2>2. ASSUME NEW c \in Clients, client[c].verdict \in Executed
        PROVE  effect'[c] = <<client[c].verdict>>
    <3>1. effect[c] = <<client[c].verdict>>
      BY <2>2 DEF IInv, Promises, Outcomes
    <3> QED
      BY <1>1, <1>3, <3>1
  <2> QED
    BY <1>1, <2>1, <2>2 DEF Outcomes
<1>13. SlotFits' /\ EntriesLive'
  BY <1>1 DEF IInv, Promises, Refusals, SlotFits, EntriesLive, Begun
<1>14. \A c \in Clients : NeverRuns(c) => NeverRuns(c)'
  <2> SUFFICES ASSUME NEW c \in Clients, NeverRuns(c)
               PROVE  NeverRuns(c)'
    OBVIOUS
  <2>1. c # h[1]
    BY <1>1, <1>2 DEF NeverRuns
  <2> QED
    BY <1>1, <2>1 DEF NeverRuns
<1>15. AnswersFinal'
  <2> SUFFICES ASSUME NEW g \in Handlers
               PROVE  AnswerFinal(g)'
    BY DEF AnswersFinal
  <2> QED
    BY <1>1, <1>14, PairIs
       DEF IInv, Promises, Refusals, AnswersFinal, AnswerFinal, Believed, Waits
<1>16. VerdictsFinal'
  BY <1>1, <1>14 DEF IInv, Promises, Refusals, VerdictsFinal
<1> QED
  BY <1>6, <1>7, <1>8, <1>9, <1>10, <1>11, <1>12, <1>13, <1>15, <1>16
     DEF Promises, Stages, Once, Refusals

LEMMA ExecuteKeeps ==
  ASSUME IInv, NEW h \in Handlers, Execute(h)
  PROVE  Promises'
<1>1. PICK v \in Executed, answer \in {"lost"} \cup Executed :
        /\ effect' = [effect EXCEPT ![h[1]] = Append(@, v)]
        /\ answer \in {v, "lost"}
        /\ reply' = [reply EXCEPT ![h] = answer]
  BY DEF Execute
<1>2. h \in owner /\ h[1] \in Clients
  BY PairIs DEF Execute
<1>3. effect[h[1]] = <<>>
  BY <1>2 DEF IInv, Promises, Once, PendingIsNew, ToRun
<1>4. effect'[h[1]] = <<v>> /\ \A c \in Clients \ {h[1]} : effect'[c] = effect[c]
  BY <1>1, <1>2, <1>3 DEF IInv, TypeOK, StoreTypeOK
<1>5. Len(effect'[h[1]]) <= 1
  BY <1>4
<1>6. answer \in Executed => answer = v
  BY <1>1, NoneIs
<1>7. OwnerTakes(h, answer)
  BY <1>1, <1>4, <1>5, <1>6 DEF OwnerTakes, Execute, outside, store
<1> QED
  BY <1>7, OwnerTakesKeeps

LEMMA DropCommandKeeps ==
  ASSUME IInv, NEW h \in Handlers, DropCommand(h)
  PROVE  Promises'
<1>1. h[1] \in Clients /\ Len(effect[h[1]]) <= 1 /\ "lost" \notin Executed
  BY PairIs, NoneIs DEF IInv, Promises, Once, RunsOnce
<1>2. OwnerTakes(h, "lost")
  BY <1>1 DEF OwnerTakes, DropCommand, outside, store
<1> QED
  BY <1>2, OwnerTakesKeeps

\* The outcome is kept: the entry is there, and gets its record.
LEMMA CompleteIs ==
  ASSUME IInv, NEW h \in Handlers, Complete(h)
  PROVE  \E rec \in Records :
    /\ rec.key = Key(h) /\ rec.at = clock
    /\ order' = Append(order, rec)
    /\ slot' = [slot EXCEPT ![h] = reply[h]]
    /\ reply' = [reply EXCEPT ![h] = None]
    /\ reply[h] \in {"lost"} \cup Executed
    /\ UNCHANGED <<clock, client, open, instance, handler, registry, owner, effect>>
<1>1. Key(h) \in Keys /\ clock \in Nat
  BY PairIs DEF Key, IInv, TypeOK, OutsideTypeOK, ClientRecords
<1>2. registry[Key(h)] = h
  BY DEF Complete, IInv, Promises, Identities, Pending, InHands
<1>3. PICK big \in BOOLEAN :
        order' = Append(order, [key |-> Key(h), at |-> clock, tier |-> Tier(big)])
  BY <1>2 DEF Complete
<1>4. [key |-> Key(h), at |-> clock, tier |-> Tier(big)] \in Records
  BY <1>1 DEF Records, Tier, Tiers
<1>5. reply[h] \in {"lost"} \cup Executed
  BY DEF Complete, IInv, TypeOK, StoreTypeOK
<1> QED
  BY <1>2, <1>3, <1>4, <1>5 DEF Complete, outside

LEMMA CompleteKeeps ==
  ASSUME IInv, NEW h \in Handlers, Complete(h)
  PROVE  Promises'
<1>1. PICK rec \in Records :
    /\ rec.key = Key(h) /\ rec.at = clock
    /\ order' = Append(order, rec)
    /\ slot' = [slot EXCEPT ![h] = reply[h]]
    /\ reply' = [reply EXCEPT ![h] = None]
    /\ reply[h] \in {"lost"} \cup Executed
    /\ UNCHANGED <<clock, client, open, instance, handler, registry, owner, effect>>
  BY CompleteIs
<1>2. /\ reply'[h] = None /\ slot'[h] = reply[h]
      /\ \A g \in Handlers \ {h} : reply'[g] = reply[g] /\ slot'[g] = slot[g]
      /\ UNCHANGED <<clock, client, open, instance, handler, registry, owner, effect>>
      /\ reply[h] \in {"lost"} \cup Executed
  BY <1>1 DEF IInv, TypeOK, StoreTypeOK
<1>3. reply[h] \notin {None, "busy"}
  BY <1>2, NoneIs DEF Answers, Refused
<1>4. InHands(h) /\ h \notin owner
  BY <1>3 DEF InHands, IInv, Promises, Stages, HandlerFits, HandlerFit
<1>5. /\ handler[h].state \in {"waiting", "answered", "gone"}
      /\ registry[Key(h)] = h /\ ~HasRecord(Key(h)) /\ Key(h) \in Keys
  BY <1>4, PairIs DEF IInv, Promises, Stages, HandlerFits, HandlerFit, Identities, Pending,
                      Key, TypeOK, OutsideTypeOK, ClientRecords
<1>6. /\ \A g \in Handlers \ {h} : InHands(g)' <=> InHands(g)
      /\ ~InHands(h)'
  BY <1>2, <1>4 DEF InHands
<1>7. /\ \A i \in DOMAIN order' :
           \/ i \in DOMAIN order /\ order'[i] = order[i]
           \/ i = Len(order) + 1 /\ order'[i] = rec
      /\ Len(order) + 1 \notin DOMAIN order
  <2>1. order \in Seq(Records)
    BY DEF IInv, TypeOK, StoreTypeOK
  <2> QED
    BY <1>1, <2>1
<1>8. ClientFits' /\ Deadlines'
  BY <1>2 DEF IInv, Promises, Stages, ClientFits, Deadlines
<1>9. HandlerFits'
  BY <1>2, <1>6 DEF IInv, Promises, Stages, HandlerFits, HandlerFit, Waits, Begun
<1>10. Identities'
  <2>1. \A k \in Keys : registry'[k] # None => (Key(registry[k]) = k /\ Begun(registry[k]))'
    BY <1>2 DEF IInv, Promises, Identities, Key, Begun
  <2>2. ASSUME NEW g \in Handlers, Pending(g)'
        PROVE  (registry[Key(g)] = g /\ ~HasRecord(Key(g)))'
    <3>1. g # h /\ Pending(g)
      BY <1>2, <1>5, <1>6, <2>2 DEF Pending
    <3>2. registry[Key(g)] = g /\ ~HasRecord(Key(g)) /\ Key(g)' = Key(g)
      BY <1>2, <3>1 DEF IInv, Promises, Identities, Key
    <3>3. Key(g) # rec.key
      BY <1>1, <1>5, <3>1, <3>2
    <3>4. \A i \in DOMAIN order' : order'[i].key # Key(g)
      BY <1>7, <3>2, <3>3 DEF HasRecord
    <3> QED
      BY <1>2, <3>2, <3>4 DEF HasRecord
  <2>3. \A i \in DOMAIN order' : registry'[order'[i].key] # None
    BY <1>1, <1>2, <1>5, <1>7, NoneIs DEF IInv, Promises, Identities
  <2>4. \A i, j \in DOMAIN order' : order'[i].key = order'[j].key => i = j
    BY <1>1, <1>5, <1>7 DEF IInv, Promises, Identities, HasRecord
  <2>5. \A g \in Handlers : Pending(g)' => (registry[Key(g)] = g /\ ~HasRecord(Key(g)))'
    BY <2>2
  <2> QED
    BY <2>1, <2>3, <2>4, <2>5 DEF Identities
<1>11. Retained'
  <2> SUFFICES ASSUME NEW i \in DOMAIN order'
               PROVE  order'[i].at <= clock /\ Fresh(order'[i], registry[order'[i].key][1])
    BY <1>2 DEF Retained, Fresh, Waits
  <2>1. CASE i \in DOMAIN order /\ order'[i] = order[i]
    BY <2>1 DEF IInv, Promises, Retained
  <2>2. CASE order'[i] = rec
    <3> DEFINE c == h[1]
    <3>1. registry[rec.key][1] = c /\ c \in Clients
      BY <1>1, <1>5, PairIs
    <3> HIDE DEF c
    <3>2. rec.at = clock /\ clock \in Nat /\ Attempt \in Nat
      BY <1>1, Numbers DEF IInv, TypeOK, OutsideTypeOK
    <3>3. Waits(c, 1) => client[c].sentAt <= clock
      BY <3>1 DEF IInv, Promises, Deadlines, Waits
    <3>4. ASSUME NEW n \in {1, 2}, handler[<<c, n>>].state = "inflight"
          PROVE  handler[<<c, n>>].sentAt <= clock + Attempt
      <4>1. <<c, n>> \in Handlers /\ handler[<<c, n>>].sentAt \in Nat
        BY <3>1, HandlerIs DEF IInv, TypeOK, StoreTypeOK, HandlerRecords
      <4>2. handler[<<c, n>>].sentAt <= clock
        BY <3>4, <4>1 DEF IInv, Promises, Deadlines
      <4> QED
        BY <3>2, <4>1, <4>2
    <3>5. clock <= clock /\ clock <= clock + Attempt
      BY <3>2
    <3>6. Fresh(rec, c)
      BY <3>2, <3>3, <3>4, <3>5 DEF Fresh
    <3> QED
      BY <2>2, <3>1, <3>2, <3>5, <3>6
  <2> QED
    BY <1>7, <2>1, <2>2
<1>12. RunsOnce' /\ PendingIsNew'
  BY <1>2 DEF IInv, Promises, Once, RunsOnce, PendingIsNew, ToRun, Begun, CanStart, Waits
<1>13. Outcomes'
  <2>1. \A g \in Handlers : slot'[g] \in Executed => effect[g[1]] = <<slot'[g]>>
    BY <1>2 DEF IInv, Promises, Outcomes
  <2>2. \A g \in Handlers : reply'[g] \in Executed => effect[g[1]] = <<reply'[g]>>
    BY <1>2, NoneIs DEF IInv, Promises, Outcomes, Answers
  <2> QED
    BY <1>2, <2>1, <2>2 DEF IInv, Promises, Outcomes
<1>14. SlotFits'
  BY <1>2, <1>5 DEF IInv, Promises, Refusals, SlotFits, Begun
<1>15. \A g \in Handlers : slot'[g] = "busy" => slot[g] = "busy"
  BY <1>2, <1>3
<1>16. AnswersFinal'
  <2> SUFFICES ASSUME NEW g \in Handlers
               PROVE  AnswerFinal(g)'
    BY DEF AnswersFinal
  <2>1. AnswerFinal(g) /\ HandlerFit(g)
    BY DEF IInv, Promises, Refusals, AnswersFinal, Stages, HandlerFits
  <2> QED
    BY <1>2, <1>15, <2>1 DEF HandlerFit, AnswerFinal, Believed, Waits, NeverRuns
<1>17. EntriesLive'
  BY <1>2, <1>15 DEF IInv, Promises, Refusals, EntriesLive, TypeOK, StoreTypeOK
<1>18. VerdictsFinal'
  BY <1>2 DEF IInv, Promises, Refusals, VerdictsFinal, NeverRuns
<1> QED
  BY <1>8, <1>9, <1>10, <1>11, <1>12, <1>13, <1>14, <1>16, <1>17, <1>18
     DEF Promises, Stages, Once, Refusals

\* Admission closes: nothing is promised about it.
LEMMA RestKeeps ==
  ASSUME IInv,
         UNCHANGED <<clock, client, handler, registry, slot, order, owner, reply,
                     instance, effect>>
  PROVE  Promises'
<1>1. Stages' /\ Deadlines'
  BY DEF IInv, Promises, Stages, ClientFits, HandlerFits, HandlerFit, Waits, Begun, InHands,
         Deadlines
<1>2. Identities'
  BY DEF IInv, Promises, Identities, Key, Begun, Pending, InHands, HasRecord
<1>3. Retained'
  BY DEF IInv, Promises, Retained, Fresh, Waits
<1>4. Once'
  BY DEF IInv, Promises, Once, RunsOnce, PendingIsNew, ToRun, Begun, CanStart, Waits
<1>5. Outcomes'
  BY DEF IInv, Promises, Outcomes
<1>6. Refusals'
  BY DEF IInv, Promises, Refusals, SlotFits, AnswersFinal, AnswerFinal, EntriesLive,
         VerdictsFinal, NeverRuns, Believed, Waits, Begun
<1> QED
  BY <1>1, <1>2, <1>3, <1>4, <1>5, <1>6 DEF Promises

\* A new process knows nothing, and accepts no request written for the old one.
LEMMA RestartKeeps ==
  ASSUME IInv, Restart
  PROVE  Promises'
<1>1. /\ UNCHANGED <<clock, client, effect>>
      /\ instance' = instance + 1 /\ instance \in Nat
      /\ \A k \in Keys : registry'[k] = None
      /\ \A h \in Handlers : slot'[h] = None /\ reply'[h] = None
      /\ order' = <<>> /\ owner' = {}
  BY DEF Restart, IInv, TypeOK, OutsideTypeOK
<1>2. \A h \in Handlers :
        \/ handler'[h] = handler[h] /\ handler[h].state \in {"unsent", "answered"}
        \/ handler'[h].state = "gone" /\ handler[h].state \notin {"unsent", "answered"}
  BY DEF Restart, Closed, Idle
<1>3. \A h \in Handlers :
        /\ ~InHands(h)' /\ ~Pending(h)' /\ ~ToRun(h)'
        /\ Begun(h) => Begun(h)'
        /\ handler'[h].state \in {"unsent", "answered", "gone"}
  BY <1>1, <1>2 DEF InHands, Pending, ToRun, Begun
<1>4. ClientFits'
  <2> SUFFICES ASSUME NEW d \in Clients
               PROVE  /\ client[d].phase = "idle" => client[d].try = 1 /\ handler'[<<d, 1>>].state = "unsent"
                      /\ client[d].phase = "retry" => client[d].try = 2 /\ handler'[<<d, 2>>].state = "unsent"
                      /\ client[d].try = 1 => handler'[<<d, 2>>].state = "unsent"
                      /\ client[d].phase # "done" => client[d].verdict = None
                      /\ client[d].token <= instance + 1
    BY <1>1 DEF ClientFits
  <2>1. \A m \in {1, 2} : handler[<<d, m>>].state = "unsent" => handler'[<<d, m>>].state = "unsent"
    BY <1>2, HandlerIs
  <2>2. client[d].token \in Nat /\ client[d].token <= instance
    BY DEF IInv, TypeOK, OutsideTypeOK, ClientRecords, Promises, Stages, ClientFits
  <2>3. client[d].token <= instance + 1
    BY <1>1, <2>2
  <2> QED
    BY <2>1, <2>3 DEF IInv, Promises, Stages, ClientFits
<1>5. HandlerFits'
  <2> SUFFICES ASSUME NEW h \in Handlers
               PROVE  HandlerFit(h)'
    BY DEF HandlerFits
  <2>1. handler'[h].state = "answered" => Waits(h[1], h[2])'
    BY <1>1, <1>2 DEF Waits, IInv, Promises, Stages, HandlerFits, HandlerFit
  <2> QED
    BY <1>1, <1>3, <2>1 DEF HandlerFit
<1>6. Deadlines'
  BY <1>1, <1>3 DEF IInv, Promises, Deadlines
<1>7. Identities' /\ Retained'
  BY <1>1, <1>3 DEF Identities, Retained
<1>8. RunsOnce'
  <2> SUFFICES ASSUME NEW c \in Clients
               PROVE  /\ Len(effect[c]) <= 1
                      /\ effect[c] # <<>> => \E n \in {1, 2} : Begun(<<c, n>>)'
                      /\ client[c].token # instance'
    BY <1>1 DEF RunsOnce
  <2>1. client[c].token \in Nat /\ client[c].token <= instance
    BY DEF IInv, TypeOK, OutsideTypeOK, ClientRecords, Promises, Stages, ClientFits
  <2>2. client[c].token # instance'
    BY <1>1, <2>1
  <2> QED
    BY <1>3, <2>2, HandlerIs DEF IInv, Promises, Once, RunsOnce
<1>9. PendingIsNew'
  BY <1>3 DEF PendingIsNew
<1>10. Outcomes'
  <2>1. None \notin Executed
    BY NoneIs DEF Answers
  <2> QED
    BY <1>1, <1>2, <2>1 DEF IInv, Promises, Outcomes
<1>11. SlotFits' /\ EntriesLive'
  BY <1>1 DEF SlotFits, EntriesLive
<1>12. \A c \in Clients : NeverRuns(c) => NeverRuns(c)'
  <2> SUFFICES ASSUME NEW c \in Clients, NeverRuns(c)
               PROVE  NeverRuns(c)'
    OBVIOUS
  <2>1. \A n \in {1, 2} : handler'[<<c, n>>].state \notin {"inflight", "emitting"}
    BY <1>3, HandlerIs
  <2> QED
    BY <1>1, <2>1 DEF NeverRuns
<1>13. AnswersFinal'
  <2> SUFFICES ASSUME NEW g \in Handlers
               PROVE  AnswerFinal(g)'
    BY DEF AnswersFinal
  <2> QED
    BY <1>2, <1>3, <1>12, PairIs
       DEF IInv, Promises, Refusals, AnswersFinal, AnswerFinal, Believed
<1>14. VerdictsFinal'
  BY <1>1, <1>12 DEF IInv, Promises, Refusals, VerdictsFinal
<1> QED
  BY <1>4, <1>5, <1>6, <1>7, <1>8, <1>9, <1>10, <1>11, <1>13, <1>14
     DEF Promises, Stages, Once, Refusals

\* Time passes within the deadlines.
LEMMA TickKeeps ==
  ASSUME IInv, Tick
  PROVE  Promises'
<1>1. /\ UNCHANGED <<client, handler, registry, slot, order, owner, reply, instance, effect>>
      /\ clock' = clock + 1 /\ clock \in Nat /\ Attempt \in Nat
      /\ \A c \in Clients :
           /\ client[c].phase # "retry"
           /\ client[c].phase = "waiting" => clock < client[c].sentAt + Attempt
      /\ \A h \in Handlers :
           handler[h].state = "inflight" => clock < handler[h].sentAt + Attempt
  BY Numbers DEF Tick, store, IInv, TypeOK, OutsideTypeOK
<1>2. Stages'
  BY <1>1 DEF IInv, Promises, Stages, ClientFits, HandlerFits, HandlerFit, Waits, Begun, InHands
<1>3. Deadlines'
  <2>1. ASSUME NEW c \in Clients, client[c].phase = "waiting"
        PROVE  client[c].sentAt <= clock + 1 /\ clock + 1 <= client[c].sentAt + Attempt
    <3>1. client[c].sentAt \in Nat /\ client[c].sentAt <= clock
      BY <2>1 DEF IInv, TypeOK, OutsideTypeOK, ClientRecords, Promises, Deadlines
    <3> QED
      BY <1>1, <2>1, <3>1
  <2>2. ASSUME NEW h \in Handlers, handler[h].state = "inflight"
        PROVE  handler[h].sentAt <= clock + 1 /\ clock + 1 <= handler[h].sentAt + Attempt
    <3>1. handler[h].sentAt \in Nat /\ handler[h].sentAt <= clock
      BY <2>2 DEF IInv, TypeOK, StoreTypeOK, HandlerRecords, Promises, Deadlines
    <3> QED
      BY <1>1, <2>2, <3>1
  <2> QED
    BY <1>1, <2>1, <2>2 DEF Deadlines
<1>4. Identities'
  BY <1>1 DEF IInv, Promises, Identities, Key, Begun, Pending, InHands, HasRecord
<1>5. Retained'
  <2> SUFFICES ASSUME NEW i \in DOMAIN order
               PROVE  (order[i].at <= clock /\ Fresh(order[i], registry[order[i].key][1]))'
    BY <1>1 DEF Retained
  <2>1. PICK rec \in Records : rec = order[i]
    BY DEF IInv, TypeOK, StoreTypeOK
  <2>2. PICK c \in Clients : c = registry[rec.key][1]
    <3>1. registry[rec.key] \in Handlers
      BY <2>1 DEF IInv, Promises, TypeOK, StoreTypeOK, Identities, Records
    <3> QED
      BY <3>1, PairIs
  <2>3. rec.at <= clock /\ Fresh(rec, c) /\ rec.at \in Nat
    BY <2>1, <2>2 DEF IInv, Promises, Retained, Records
  <2>4. rec.at <= clock + 1
    BY <1>1, <2>3
  <2>5. Fresh(rec, c)'
    BY <1>1, <2>3 DEF Fresh, Waits
  <2> QED
    BY <1>1, <2>1, <2>2, <2>4, <2>5
<1>6. Once'
  BY <1>1 DEF IInv, Promises, Once, RunsOnce, PendingIsNew, ToRun, Begun, CanStart, Waits
<1>7. Outcomes'
  BY <1>1 DEF IInv, Promises, Outcomes
<1>8. Refusals'
  BY <1>1 DEF IInv, Promises, Refusals, SlotFits, AnswersFinal, AnswerFinal, EntriesLive,
              VerdictsFinal, NeverRuns, Believed, Waits, Begun
<1> QED
  BY <1>2, <1>3, <1>4, <1>5, <1>6, <1>7, <1>8 DEF Promises

-----------------------------------------------------------------------------
(* The invariant is inductive.                                             *)

LEMMA ClientTypeKept ==
  ASSUME IInv, NEW c \in Clients,
         Send(c) \/ ConnectFails(c) \/ NoAnswer(c) \/ ReadAnswer(c)
  PROVE  TypeOK'
<1> DEFINE h == <<c, client[c].try>>
<1>1. h \in Handlers /\ TypeOK /\ client[c].try \in {1, 2}
  BY HandlerIs DEF IInv, TypeOK, OutsideTypeOK, ClientRecords
<1>2. UNCHANGED <<clock, registry, slot, order, owner, reply, open, instance, effect>>
  BY DEF Send, ConnectFails, NoAnswer, ReadAnswer, store
<1>3. client' \in [Clients -> ClientRecords] /\ handler' \in [Handlers -> HandlerRecords]
  <2>1. CASE Send(c)
    BY <2>1, SendIs
  <2>2. CASE ConnectFails(c)
    <3>1. PICK v \in {"unsent", "unconfirmed"} : Finish(c, v)
      BY <2>2 DEF ConnectFails
    <3>2. v \in Verdicts
      BY <3>1 DEF Verdicts
    <3> QED
      BY <1>1, <2>2, <3>1, <3>2, FinishIs DEF ConnectFails, TypeOK, StoreTypeOK
  <2>3. CASE NoAnswer(c)
    BY <1>1, <2>3, AmbiguousIs, HangUpIs DEF NoAnswer
  <2>4. CASE ReadAnswer(c)
    <3>1. client[c].phase = "waiting" /\ HangUp(h)
      BY <2>4 DEF ReadAnswer
    <3>2. \/ Ambiguous(c)
          \/ Finish(c, handler[h].answer) /\ handler[h].answer # "lost"
      BY <2>4 DEF ReadAnswer, Authoritative
    <3>3. handler[h].answer # "lost" => handler[h].answer \in Verdicts
      BY <1>1 DEF TypeOK, StoreTypeOK, HandlerRecords, Answers, Verdicts
    <3> HIDE DEF h
    <3> QED
      BY <1>1, <3>1, <3>2, <3>3, FinishIs, AmbiguousIs, HangUpIs
  <2> QED
    BY <2>1, <2>2, <2>3, <2>4
<1> QED
  BY <1>1, <1>2, <1>3 DEF TypeOK, OutsideTypeOK, StoreTypeOK

LEMMA HandlerTypeKept ==
  ASSUME IInv, NEW h \in Handlers,
         \/ ReadRequest(h) \/ DropRequest(h) \/ Emit(h) \/ EmitRefused(h)
         \/ ForgetUnadmitted(h) \/ Joined(h) \/ WaitTimesOut(h)
  PROVE  TypeOK'
<1>1. TypeOK /\ Identities /\ Key(h) \in Keys
  BY PairIs DEF IInv, Promises, Key, TypeOK, OutsideTypeOK, ClientRecords
<1>2. UNCHANGED <<clock, client, open, instance, reply, effect>>
  BY DEF ReadRequest, DropRequest, Emit, EmitRefused, ForgetUnadmitted, Joined,
         WaitTimesOut, outside
<1>3. owner' \subseteq Handlers
  BY <1>1 DEF ReadRequest, DropRequest, Emit, EmitRefused, ForgetUnadmitted, Joined,
         WaitTimesOut, TypeOK, StoreTypeOK
<1>4. \A s \in HandlerStates, e \in Handlers \cup {None} :
        Become(h, s, e) => handler' \in [Handlers -> HandlerRecords]
  BY <1>1, BecomeIs
<1>5. \A answer \in Answers, replay \in BOOLEAN :
        Respond(h, answer, replay) => handler' \in [Handlers -> HandlerRecords]
  BY <1>1, RespondIs
<1>6. Registered \in [Keys -> Handlers \cup {None}] /\ Left \in Seq(Records)
  BY <1>1, PurgedIs
<1>7. {"emitting", "forgetting", "waiting", "gone"} \subseteq HandlerStates
  BY DEF HandlerStates
<1>8. {"busy", "closing", "badtoken", "conflict", "lost"} \subseteq Answers
  BY DEF Answers, Refused
<1>9. /\ handler' \in [Handlers -> HandlerRecords]
      /\ registry' \in [Keys -> Handlers \cup {None}]
      /\ slot' \in [Handlers -> {None} \cup Answers]
      /\ order' \in Seq(Records)
  <2>1. CASE ReadRequest(h)
    <3>1. CASE UNCHANGED store /\ (Respond(h, "badtoken", FALSE) \/ Respond(h, "closing", FALSE))
      BY <1>1, <1>5, <1>8, <3>1 DEF store, TypeOK, StoreTypeOK
    <3>2. CASE Begin(h)
      <4>1. order' = Left /\ slot' = slot
        BY <3>2 DEF Begin, Purge
      <4>2. \/ registry' = Registered
            \/ registry' = [Registered EXCEPT ![Key(h)] = h]
        BY <3>2 DEF Begin
      <4>3. handler' \in [Handlers -> HandlerRecords]
        <5>1. Registered[Key(h)] \in Handlers \cup {None}
          BY <1>1, <1>6
        <5>2. \/ Become(h, "waiting", Registered[Key(h)])
              \/ Become(h, "emitting", h)
              \/ Respond(h, "conflict", FALSE) \/ Respond(h, "busy", FALSE)
          BY <3>2 DEF Begin
        <5> QED
          BY <1>4, <1>5, <1>7, <1>8, <5>1, <5>2
      <4> QED
        BY <1>1, <1>6, <4>1, <4>2, <4>3 DEF TypeOK, StoreTypeOK
    <3> QED
      BY <2>1, <3>1, <3>2 DEF ReadRequest
  <2>2. CASE DropRequest(h)
    BY <1>1, <1>4, <1>7, <2>2 DEF DropRequest, store, TypeOK, StoreTypeOK
  <2>3. CASE Emit(h)
    BY <1>1, <1>4, <1>7, <2>3 DEF Emit, store, TypeOK, StoreTypeOK
  <2>4. CASE EmitRefused(h)
    BY <1>1, <1>4, <1>7, <1>8, <2>4 DEF EmitRefused, TypeOK, StoreTypeOK
  <2>5. CASE ForgetUnadmitted(h)
    BY <1>1, <1>4, <1>7, <2>5 DEF ForgetUnadmitted, TypeOK, StoreTypeOK
  <2>6. CASE Joined(h)
    <3>1. handler[h].entry \in Handlers
      BY <2>6 DEF Joined, IInv, Promises, Stages, HandlerFits, HandlerFit
    <3>2. slot[handler[h].entry] \in Answers
      BY <1>1, <2>6, <3>1 DEF Joined, TypeOK, StoreTypeOK
    <3>3. handler' \in [Handlers -> HandlerRecords]
      BY <1>5, <2>6, <3>2 DEF Joined
    <3> QED
      BY <1>1, <2>6, <3>3 DEF Joined, store, TypeOK, StoreTypeOK
  <2>7. CASE WaitTimesOut(h)
    BY <1>1, <1>5, <1>8, <2>7 DEF WaitTimesOut, store, TypeOK, StoreTypeOK
  <2> QED
    BY <2>1, <2>2, <2>3, <2>4, <2>5, <2>6, <2>7
<1> QED
  BY <1>1, <1>2, <1>3, <1>9 DEF TypeOK, OutsideTypeOK, StoreTypeOK

LEMMA OwnerTypeKept ==
  ASSUME IInv, NEW h \in Handlers, Execute(h) \/ DropCommand(h) \/ Complete(h)
  PROVE  TypeOK'
<1>1. TypeOK /\ h[1] \in Clients
  BY PairIs DEF IInv
<1>2. CASE Execute(h)
  <2>1. PICK v \in Executed, answer \in {"lost"} \cup Executed :
          /\ effect' = [effect EXCEPT ![h[1]] = Append(@, v)]
          /\ reply' = [reply EXCEPT ![h] = answer]
    BY <1>2 DEF Execute
  <2>2. effect' \in [Clients -> Seq(Executed)]
    BY <1>1, <2>1 DEF TypeOK, StoreTypeOK
  <2>3. reply' \in [Handlers -> {None, "lost"} \cup Executed]
    BY <1>1, <2>1 DEF TypeOK, StoreTypeOK
  <2> QED
    BY <1>1, <1>2, <2>2, <2>3 DEF Execute, outside, store, TypeOK, OutsideTypeOK, StoreTypeOK
<1>3. CASE DropCommand(h)
  BY <1>1, <1>3 DEF DropCommand, outside, store, TypeOK, OutsideTypeOK, StoreTypeOK
<1>4. CASE Complete(h)
  <2>1. PICK rec \in Records :
          /\ order' = Append(order, rec)
          /\ slot' = [slot EXCEPT ![h] = reply[h]]
          /\ reply' = [reply EXCEPT ![h] = None]
          /\ reply[h] \in {"lost"} \cup Executed
          /\ UNCHANGED <<clock, client, open, instance, handler, registry, owner, effect>>
    BY <1>4, CompleteIs
  <2>2. slot' \in [Handlers -> {None} \cup Answers] /\ order' \in Seq(Records)
    BY <1>1, <2>1 DEF Answers, TypeOK, StoreTypeOK
  <2> QED
    BY <1>1, <2>1, <2>2 DEF TypeOK, OutsideTypeOK, StoreTypeOK
<1> QED
  BY <1>2, <1>3, <1>4

LEMMA ProcessTypeKept ==
  ASSUME IInv, QuiesceOwnerAdmission \/ Restart \/ Tick
  PROVE  TypeOK'
<1>1. TypeOK
  BY DEF IInv
<1>2. CASE QuiesceOwnerAdmission
  BY <1>1, <1>2 DEF QuiesceOwnerAdmission, store, TypeOK, OutsideTypeOK, StoreTypeOK
<1>3. CASE Tick
  BY <1>1, <1>3 DEF Tick, store, TypeOK, OutsideTypeOK, StoreTypeOK
<1>4. CASE Restart
  <2>1. Closed \in HandlerRecords
    BY DEF Closed, Idle, HandlerRecords, HandlerStates
  <2>2. handler' \in [Handlers -> HandlerRecords]
    BY <1>1, <1>4, <2>1 DEF Restart, TypeOK, StoreTypeOK
  <2> QED
    BY <1>1, <1>4, <2>2 DEF Restart, TypeOK, OutsideTypeOK, StoreTypeOK
<1> QED
  BY <1>2, <1>3, <1>4

LEMMA InitHolds == Init => IInv
<1> SUFFICES ASSUME Init PROVE IInv
  OBVIOUS
<1>1. \A h \in Handlers : handler[h] = Idle /\ slot[h] = None /\ reply[h] = None
  BY DEF Init
<1>2. Idle \in HandlerRecords /\ Idle.state = "unsent"
  BY DEF Idle, HandlerRecords, HandlerStates
<1>3. \A h \in Handlers : ~InHands(h) /\ ~Pending(h) /\ ~ToRun(h) /\ ~Begun(h)
  BY <1>1, <1>2 DEF InHands, Pending, ToRun, Begun, Init
<1>4. client \in [Clients -> [phase : {"idle"}, try : {1}, key : Keys,
                              token : {1}, sentAt : {0}, verdict : {None}]]
  BY DEF Init
<1>5. TypeOK
  <2>1. [phase : {"idle"}, try : {1}, key : Keys, token : {1}, sentAt : {0},
         verdict : {None}] \subseteq ClientRecords
    BY DEF ClientRecords, Verdicts
  <2>2. handler \in [Handlers -> HandlerRecords]
    BY <1>2 DEF Init
  <2> QED
    BY <1>4, <2>1, <2>2 DEF Init, TypeOK, OutsideTypeOK, StoreTypeOK
<1>6. Stages
  <2>1. ClientFits
    <3> SUFFICES ASSUME NEW c \in Clients
                 PROVE  /\ client[c].phase = "idle" /\ client[c].try = 1
                        /\ client[c].verdict = None /\ client[c].token <= instance
                        /\ \A n \in {1, 2} : handler[<<c, n>>].state = "unsent"
      BY DEF ClientFits
    <3>1. instance = 1
      BY DEF Init
    <3>2. \A n \in {1, 2} : handler[<<c, n>>].state = "unsent"
      BY <1>1, <1>2, HandlerIs
    <3>3. client[c] \in [phase : {"idle"}, try : {1}, key : Keys, token : {1},
                         sentAt : {0}, verdict : {None}]
      BY <1>4
    <3> QED
      BY <3>1, <3>2, <3>3
  <2>2. HandlerFits
    BY <1>1, <1>2, <1>3 DEF HandlerFits, HandlerFit, Init
  <2> QED
    BY <2>1, <2>2 DEF Stages
<1>7. Deadlines
  BY <1>1, <1>2, <1>4 DEF Deadlines
<1>8. Identities /\ Retained
  BY <1>3 DEF Identities, Retained, Init
<1>9. Once
  BY <1>3 DEF Once, RunsOnce, PendingIsNew, Init
<1>10. None \notin Executed \cup Refused \cup {"unsent"}
  BY NoneIs DEF Answers
<1>11. Outcomes
  BY <1>1, <1>2, <1>4, <1>10 DEF Outcomes
<1>12. Refusals
  BY <1>1, <1>2, <1>4, <1>10 DEF Refusals, SlotFits, AnswersFinal, AnswerFinal, EntriesLive,
                                  VerdictsFinal, Init
<1> QED
  BY <1>5, <1>6, <1>7, <1>8, <1>9, <1>11, <1>12 DEF IInv, Promises

LEMMA NextKeeps == IInv /\ [Next]_vars => IInv'
<1> SUFFICES ASSUME IInv, [Next]_vars PROVE IInv'
  OBVIOUS
<1>1. CASE \E c \in Clients : Send(c) \/ ConnectFails(c) \/ NoAnswer(c) \/ ReadAnswer(c)
  BY <1>1, ClientTypeKept, SendKeeps, ConnectFailsKeeps, NoAnswerKeeps, ReadAnswerKeeps DEF IInv
<1>2. CASE \E h \in Handlers :
             \/ ReadRequest(h) \/ DropRequest(h) \/ Emit(h) \/ EmitRefused(h)
             \/ ForgetUnadmitted(h) \/ Joined(h) \/ WaitTimesOut(h)
  <2>1. PICK h \in Handlers :
             \/ ReadRequest(h) \/ DropRequest(h) \/ Emit(h) \/ EmitRefused(h)
             \/ ForgetUnadmitted(h) \/ Joined(h) \/ WaitTimesOut(h)
    BY <1>2
  <2>2. TypeOK'
    BY <2>1, HandlerTypeKept
  <2>3. DropRequest(h) \/ Joined(h) \/ WaitTimesOut(h) => Promises'
    BY DropRequestKeeps, JoinedKeeps, WaitTimesOutKeeps, EndsKeep
  <2>4. Promises'
    BY <2>1, <2>3, ReadRequestKeeps, EmitKeeps, EmitRefusedKeeps, ForgetUnadmittedKeeps
  <2> QED
    BY <2>2, <2>4 DEF IInv
<1>3. CASE \E h \in Handlers : Execute(h) \/ DropCommand(h) \/ Complete(h)
  BY <1>3, OwnerTypeKept, ExecuteKeeps, DropCommandKeeps, CompleteKeeps DEF IInv
<1>4. CASE QuiesceOwnerAdmission
  <2>1. Promises'
    BY <1>4, RestKeeps DEF QuiesceOwnerAdmission, store
  <2> QED
    BY <1>4, <2>1, ProcessTypeKept DEF IInv
<1>5. CASE Restart \/ Tick
  BY <1>5, ProcessTypeKept, RestartKeeps, TickKeeps DEF IInv
<1>6. CASE UNCHANGED vars
  <2>1. Promises'
    BY <1>6, RestKeeps DEF vars
  <2>2. TypeOK'
    BY <1>6 DEF vars, IInv, TypeOK, OutsideTypeOK, StoreTypeOK
  <2> QED
    BY <2>1, <2>2 DEF IInv
<1> QED
  BY <1>1, <1>2, <1>3, <1>4, <1>5, <1>6 DEF Next

LEMMA InvariantHolds == Spec => []IInv
<1>1. Init => IInv
  BY InitHolds
<1>2. IInv /\ [Next]_vars => IInv'
  BY NextKeeps
<1> QED
  BY <1>1, <1>2, PTL DEF Spec

-----------------------------------------------------------------------------
(* The theorems.                                                           *)

\* However often a command is repeated, whatever was lost, refused, delayed or
\* restarted in between, the owner executes it at most once (requests.rs:1).
THEOREM CommandAppliedOnce == Spec => []AppliedOnce
<1>1. IInv => AppliedOnce
  BY DEF IInv, Promises, Once, RunsOnce, AppliedOnce
<1> QED
  BY <1>1, InvariantHolds, PTL

\* What a client is finally told is true: an outcome is the outcome of the one
\* execution, and a refusal means that the command was not executed; as this
\* holds in every later state too, it never will be.
THEOREM VerdictsAreTrue == Spec => []VerdictIsTrue
<1>1. IInv => VerdictIsTrue
  BY DEF IInv, Promises, Outcomes, Refusals, VerdictsFinal, NeverRuns, VerdictIsTrue
<1> QED
  BY <1>1, InvariantHolds, PTL

-----------------------------------------------------------------------------
(* The budgets.                                                            *)

Registrants == {k \in Keys : registry[k] # None}
InTier(s, tier) == {i \in DOMAIN s : s[i].tier = tier}

\* The counters are exact; what they count is finite whatever Keys is.
Balance ==
  /\ {pending, compact, large} \subseteq Int
  /\ IsFiniteSet(Registrants)
  /\ pending = Cardinality(Registrants) - Len(order)
  /\ compact = TierCount(order, "compact")
  /\ compact + pending <= CompletedCap
  /\ large = TierCount(order, "large")
  /\ large <= LargeCap

LEMMA BudgetNumbers == CompletedCap \in Nat /\ LargeCap \in Nat
  BY RetentionAssumption

LEMMA TierCountIs ==
  ASSUME NEW s \in Seq(Records), NEW tier
  PROVE  /\ TierCount(s, tier) = Cardinality(InTier(s, tier))
         /\ IsFiniteSet(InTier(s, tier)) /\ TierCount(s, tier) \in Nat
<1>1. Len(s) \in Nat /\ DOMAIN s = 1 .. Len(s)
  BY LenProperties
<1>2. InTier(s, tier) \subseteq 1 .. Len(s)
  BY <1>1 DEF InTier
<1>3. TierCount(s, tier) = Cardinality(InTier(s, tier))
  BY DEF TierCount, InTier
<1> QED
  BY <1>1, <1>2, <1>3, UpTo, FS_Subset, FS_CardinalityType

LEMMA TierCountEmpty == \A tier : TierCount(<<>>, tier) = 0
  BY FS_EmptySet DEF TierCount

LEMMA TierCountAppend ==
  ASSUME NEW s \in Seq(Records), NEW rec \in Records, NEW tier
  PROVE  TierCount(Append(s, rec), tier)
           = TierCount(s, tier) + (IF rec.tier = tier THEN 1 ELSE 0)
<1> DEFINE n == Len(s)
           t == Append(s, rec)
<1>1. /\ n \in Nat /\ DOMAIN s = 1 .. n /\ DOMAIN t = 1 .. (n + 1)
      /\ \A i \in 1 .. n : t[i] = s[i]
      /\ t[n + 1] = rec /\ t \in Seq(Records)
  BY LenProperties, AppendProperties
<1>2. /\ TierCount(s, tier) = Cardinality(InTier(s, tier)) /\ IsFiniteSet(InTier(s, tier))
      /\ TierCount(t, tier) = Cardinality(InTier(t, tier)) /\ TierCount(s, tier) \in Nat
  BY <1>1, TierCountIs
<1>3. CASE rec.tier = tier
  <2>1. InTier(t, tier) = InTier(s, tier) \cup {n + 1} /\ n + 1 \notin InTier(s, tier)
    <3> HIDE DEF n, t
    <3> QED
      BY <1>1, <1>3 DEF InTier
  <2>2. Cardinality(InTier(t, tier)) = Cardinality(InTier(s, tier)) + 1
    BY <1>2, <2>1, FS_AddElement
  <2> QED
    BY <1>2, <1>3, <2>2
<1>4. CASE rec.tier # tier
  <2>1. InTier(t, tier) = InTier(s, tier)
    <3> HIDE DEF n, t
    <3> QED
      BY <1>1, <1>4 DEF InTier
  <2> QED
    BY <1>2, <1>4, <2>1
<1> QED
  BY <1>3, <1>4

LEMMA TierCountSplits ==
  ASSUME TypeOK, NEW tier
  PROVE  TierCount(order, tier) = TierCount(Purged, tier) + TierCount(Left, tier)
<1> DEFINE n == Len(order)
           p == PurgeCount
           A == InTier(Purged, tier)
           B == {i \in InTier(order, tier) : i > p}
           C == InTier(Left, tier)
           f == [i \in C |-> i + p]
<1>1. /\ n \in Nat /\ p \in 0 .. n /\ order \in Seq(Records) /\ DOMAIN order = 1 .. n
      /\ Purged \in Seq(Records) /\ DOMAIN Purged = 1 .. p /\ \A i \in 1 .. p : Purged[i] = order[i]
      /\ Left \in Seq(Records) /\ DOMAIN Left = 1 .. (n - p)
      /\ \A i \in 1 .. (n - p) : Left[i] = order[i + p]
  BY PurgeSplits, LenProperties DEF TypeOK, StoreTypeOK
<1>2. /\ IsFiniteSet(A) /\ Cardinality(A) = TierCount(Purged, tier)
      /\ IsFiniteSet(C) /\ Cardinality(C) = TierCount(Left, tier)
      /\ IsFiniteSet(InTier(order, tier))
      /\ Cardinality(InTier(order, tier)) = TierCount(order, tier)
  BY <1>1, TierCountIs
<1> HIDE DEF n, p
<1>3. InTier(order, tier) = A \cup B /\ A \cap B = {}
  BY <1>1 DEF InTier
<1>4. f \in Bijection(C, B)
  <2>1. \A i \in C : i \in 1 .. (n - p) /\ i + p \in B
    BY <1>1 DEF InTier
  <2>2. \A j \in B : j - p \in C /\ (j - p) + p = j
    BY <1>1 DEF InTier
  <2>3. f \in [C -> B]
    BY <2>1
  <2>4. \A i, j \in C : f[i] = f[j] => i = j
    BY <1>1, <2>1
  <2>5. \A j \in B : \E i \in C : f[i] = j
    BY <2>2
  <2> HIDE DEF B, C, f
  <2> QED
    BY <2>3, <2>4, <2>5, Fun_IsBij
<1>5. IsFiniteSet(B) /\ Cardinality(B) = Cardinality(C)
  <2>1. ExistsBijection(C, B)
    BY <1>4 DEF ExistsBijection
  <2> HIDE DEF B, C, f
  <2> QED
    BY <1>2, <2>1, FS_Bijection
<1> HIDE DEF A, B, C, f
<1>6. Cardinality(A \cup B) = Cardinality(A) + Cardinality(B) - Cardinality(A \cap B)
  BY <1>2, <1>5, FS_Union
<1>7. Cardinality(A \cap B) = 0
  BY <1>3, FS_EmptySet
<1>8. Cardinality(A) \in Nat /\ Cardinality(B) \in Nat
  BY <1>2, <1>5, FS_CardinalityType
<1> QED
  BY <1>2, <1>3, <1>5, <1>6, <1>7, <1>8

\* A purge takes as many identities as records.
LEMMA PurgeTakes ==
  ASSUME TypeOK, Identities, IsFiniteSet(Registrants)
  PROVE  LET kept == {k \in Keys : Registered[k] # None}
         IN  /\ IsFiniteSet(kept)
             /\ Cardinality(kept) - Len(Left) = Cardinality(Registrants) - Len(order)
<1> DEFINE p == PurgeCount
           kept == {k \in Keys : Registered[k] # None}
           taken == {order[i].key : i \in 1 .. p}
           f == [i \in 1 .. p |-> order[i].key]
<1>1. /\ p \in 0 .. Len(order) /\ Len(order) \in Nat /\ DOMAIN order = 1 .. Len(order)
      /\ DOMAIN Purged = 1 .. p /\ \A i \in 1 .. p : Purged[i] = order[i]
      /\ Len(Left) = Len(order) - p
      /\ \A i \in 1 .. Len(order) : order[i] \in Records
  BY PurgeSplits, LenProperties, ElementOfSeq DEF TypeOK, StoreTypeOK
<1> HIDE DEF p
<1>2. f \in Bijection(1 .. p, taken)
  <2>1. f \in [1 .. p -> taken]
    OBVIOUS
  <2>2. \A i, j \in 1 .. p : f[i] = f[j] => i = j
    BY <1>1 DEF Identities
  <2>3. \A k \in taken : \E i \in 1 .. p : f[i] = k
    OBVIOUS
  <2> HIDE DEF taken, f
  <2> QED
    BY <2>1, <2>2, <2>3, Fun_IsBij
<1>3. IsFiniteSet(taken) /\ Cardinality(taken) = p
  <2>1. ExistsBijection(1 .. p, taken)
    BY <1>2 DEF ExistsBijection
  <2>2. IsFiniteSet(1 .. p) /\ Cardinality(1 .. p) = p
    BY <1>1, UpTo
  <2> HIDE DEF taken, f
  <2> QED
    BY <2>1, <2>2, FS_Bijection
<1>4. taken \subseteq Registrants
  BY <1>1 DEF Identities, Registrants, Records
<1>5. kept = Registrants \ taken
  <2>1. \A k \in Keys : Registered[k] = IF k \in taken THEN None ELSE registry[k]
    BY <1>1 DEF Registered
  <2> QED
    BY <2>1 DEF Registrants
<1> HIDE DEF kept, taken, f
<1>6. IsFiniteSet(kept)
  BY <1>5, FS_Subset
<1>7. Registrants = kept \cup taken /\ kept \cap taken = {}
  BY <1>4, <1>5
<1>8. Cardinality(kept \cup taken) = Cardinality(kept) + Cardinality(taken) - Cardinality(kept \cap taken)
  BY <1>3, <1>6, FS_Union
<1>9. Cardinality(kept \cap taken) = 0 /\ Cardinality(kept) \in Nat
  BY <1>6, <1>7, FS_EmptySet, FS_CardinalityType
<1>10. Cardinality(kept) - Len(Left) = Cardinality(Registrants) - Len(order)
  BY <1>1, <1>3, <1>7, <1>8, <1>9
<1> QED
  BY <1>6, <1>10 DEF kept

LEMMA BalanceUnchanged ==
  ASSUME Balance, UNCHANGED <<registry, order, pending, compact, large>>
  PROVE  Balance'
  BY DEF Balance, Registrants, TierCount

\* One call of begin.
LEMMA BeginBalances ==
  ASSUME TypeOK, Identities, Balance, NEW h \in Handlers, Begin(h)
  PROVE  Balance'
<1> DEFINE kept == {k \in Keys : Registered[k] # None}
<1>1. IsFiniteSet(kept) /\ Cardinality(kept) - Len(Left) = Cardinality(Registrants) - Len(order)
  BY PurgeTakes DEF Balance
<1>2. /\ \A tier : TierCount(order, tier) = TierCount(Purged, tier) + TierCount(Left, tier)
      /\ \A tier : TierCount(Purged, tier) \in Nat
      /\ \A tier : TierCount(Left, tier) \in Nat
      /\ Len(Left) \in Nat /\ Len(order) \in Nat
  BY PurgeSplits, TierCountSplits, TierCountIs, LenProperties DEF TypeOK, StoreTypeOK
<1>3. /\ order' = Left /\ compact' = CompactLeft
      /\ large' = large - TierCount(Purged, "large")
  BY DEF Begin, Purge
<1>4. /\ compact' = TierCount(order', "compact") /\ compact' <= compact /\ compact' \in Int
      /\ large' = TierCount(order', "large") /\ large' <= large /\ large' \in Int
  <2>1. TierCount(order', "compact") = TierCount(Left, "compact")
        /\ TierCount(order', "large") = TierCount(Left, "large")
    BY <1>3
  <2>2. compact = TierCount(Purged, "compact") + TierCount(Left, "compact")
        /\ large = TierCount(Purged, "large") + TierCount(Left, "large")
    BY <1>2 DEF Balance
  <2> QED
    BY <1>2, <1>3, <2>1, <2>2 DEF CompactLeft
<1>5. Cardinality(kept) \in Nat /\ pending \in Int /\ compact \in Int /\ large \in Int
      /\ CompletedCap \in Nat /\ LargeCap \in Nat
      /\ pending = Cardinality(Registrants) - Len(order) /\ Cardinality(Registrants) \in Nat
      /\ compact + pending <= CompletedCap /\ large <= LargeCap
  BY <1>1, FS_CardinalityType, BudgetNumbers DEF Balance
<1>6. CASE registry' = Registered /\ UNCHANGED pending
  <2>1. Registrants' = kept
    BY <1>6 DEF Registrants
  <2>2. IsFiniteSet(Registrants') /\ Len(order') = Len(Left)
        /\ Cardinality(Registrants') = Cardinality(kept)
    BY <1>1, <1>3, <2>1
  <2>3. pending' = Cardinality(Registrants') - Len(order') /\ pending' \in Int
    <3> HIDE DEF kept
    <3> QED
      BY <1>1, <1>2, <1>5, <1>6, <2>2
  <2>4. compact' + pending' <= CompletedCap /\ large' <= LargeCap
    BY <1>4, <1>5, <1>6
  <2> QED
    BY <1>4, <2>2, <2>3, <2>4 DEF Balance
<1>7. CASE /\ Registered[Key(h)] = None /\ ~Full
           /\ registry' = [Registered EXCEPT ![Key(h)] = h]
           /\ pending' = pending + 1
  <2>1. Key(h) \in Keys /\ h # None
    BY PairIs, NoneIs DEF TypeOK, OutsideTypeOK, ClientRecords, Key
  <2>2. Registered \in [Keys -> Handlers \cup {None}]
    BY PurgedIs
  <2>3. Registrants' = kept \cup {Key(h)} /\ Key(h) \notin kept
    BY <1>7, <2>1, <2>2 DEF Registrants
  <2>4. CompactLeft + pending < CompletedCap
    BY <1>3, <1>4, <1>5, <1>7 DEF Full
  <2> HIDE DEF kept
  <2>5. IsFiniteSet(Registrants') /\ Cardinality(Registrants') = Cardinality(kept) + 1
    BY <1>1, <2>3, FS_AddElement
  <2>6. Len(order') = Len(Left)
    BY <1>3
  <2>7. pending' = Cardinality(Registrants') - Len(order') /\ pending' \in Int
    BY <1>1, <1>2, <1>5, <1>7, <2>5, <2>6
  <2>8. compact' + pending' <= CompletedCap
    BY <1>3, <1>4, <1>5, <1>7, <2>4
  <2>9. large' <= LargeCap
    BY <1>4, <1>5
  <2> QED
    BY <1>4, <2>5, <2>7, <2>8, <2>9 DEF Balance
<1> QED
  BY <1>6, <1>7 DEF Begin

\* forget_unadmitted takes the pending entry it finds.
LEMMA ForgetBalances ==
  ASSUME IInv, Balance, NEW h \in Handlers, ForgetUnadmitted(h)
  PROVE  Balance'
<1>1. Key(h) \in Keys /\ h # None /\ registry \in [Keys -> Handlers \cup {None}]
      /\ Len(order) \in Nat /\ CompletedCap \in Nat
  BY PairIs, NoneIs, LenProperties, BudgetNumbers
     DEF IInv, TypeOK, OutsideTypeOK, StoreTypeOK, ClientRecords, Key
<1>2. CASE registry[Key(h)] # h
  BY <1>2, BalanceUnchanged DEF ForgetUnadmitted
<1>3. CASE registry[Key(h)] = h
  <2>1. /\ registry' = [registry EXCEPT ![Key(h)] = None] /\ pending' = pending - 1
        /\ UNCHANGED <<order, compact, large>>
    BY <1>3 DEF ForgetUnadmitted
  <2>2. Registrants' = Registrants \ {Key(h)} /\ Key(h) \in Registrants
    BY <1>1, <1>3, <2>1 DEF Registrants
  <2>3. IsFiniteSet(Registrants') /\ Cardinality(Registrants') = Cardinality(Registrants) - 1
        /\ Cardinality(Registrants) \in Nat
    BY <2>2, FS_RemoveElement, FS_CardinalityType DEF Balance
  <2>4. compact \in Int /\ pending \in Int
    BY DEF Balance
  <2> QED
    BY <1>1, <2>1, <2>3, <2>4 DEF Balance, TierCount
<1> QED
  BY <1>2, <1>3

\* The place reserved at admission is the one the record takes: the debug_assert
\* of complete_retained.
LEMMA CompleteBalances ==
  ASSUME IInv, Balance, NEW h \in Handlers, Complete(h)
  PROVE  Balance'
<1>1. registry[Key(h)] = h /\ registry' = registry
  BY DEF Complete, IInv, Promises, Identities, Pending, InHands
<1>2. PICK big \in BOOLEAN :
        /\ compact' = compact + (IF Tier(big) = "compact" THEN 1 ELSE 0)
        /\ large' = large + (IF Tier(big) = "large" THEN 1 ELSE 0)
        /\ order' = Append(order, [key |-> Key(h), at |-> clock, tier |-> Tier(big)])
        /\ pending' = pending - 1
  BY <1>1 DEF Complete
<1> DEFINE rec == [key |-> Key(h), at |-> clock, tier |-> Tier(big)]
<1>3. order \in Seq(Records) /\ Len(order) \in Nat /\ rec \in Records /\ rec.tier = Tier(big)
  <2>1. Key(h) \in Keys /\ clock \in Nat /\ Tier(big) \in Tiers
    BY PairIs DEF IInv, TypeOK, OutsideTypeOK, ClientRecords, Key, Tier, Tiers
  <2> QED
    BY <2>1, LenProperties DEF Records, IInv, TypeOK, StoreTypeOK
<1>4. Tier(big) \in {"compact", "large"} /\ (Tier(big) = "large" => large < LargeCap)
  BY DEF Tier
<1> HIDE DEF rec
<1>5. /\ \A tier : TierCount(order', tier)
                     = TierCount(order, tier) + (IF rec.tier = tier THEN 1 ELSE 0)
      /\ Len(order') = Len(order) + 1
  BY <1>2, <1>3, TierCountAppend, AppendProperties DEF rec
<1>6. Registrants' = Registrants
  BY <1>1 DEF Registrants
<1>7. /\ compact \in Int /\ pending \in Int /\ large \in Int
      /\ CompletedCap \in Nat /\ LargeCap \in Nat /\ Cardinality(Registrants) \in Nat
  BY BudgetNumbers, FS_CardinalityType DEF Balance
<1>a. compact' \in Int /\ large' \in Int /\ pending' \in Int
  BY <1>2, <1>4, <1>7
<1>8. IsFiniteSet(Registrants') /\ pending' = Cardinality(Registrants') - Len(order')
      /\ {pending', compact', large'} \subseteq Int
  <2>1. IsFiniteSet(Registrants') /\ Cardinality(Registrants') = Cardinality(Registrants)
    BY <1>6 DEF Balance
  <2>2. pending = Cardinality(Registrants) - Len(order)
    BY DEF Balance
  <2>3. pending' = Cardinality(Registrants') - Len(order')
    BY <1>2, <1>3, <1>5, <1>7, <2>1, <2>2
  <2> QED
    BY <1>a, <2>1, <2>3
<1>9. compact' = TierCount(order', "compact") /\ large' = TierCount(order', "large")
  BY <1>2, <1>3, <1>5 DEF Balance
<1>10. compact' + pending' <= CompletedCap /\ large' <= LargeCap
  <2>1. compact + pending <= CompletedCap /\ large <= LargeCap
    BY DEF Balance
  <2>2. CASE Tier(big) = "compact"
    <3>1. compact' = compact + 1 /\ large' = large /\ pending' = pending - 1
      BY <1>2, <1>7, <2>2
    <3> QED
      BY <1>7, <2>1, <3>1
  <2>3. CASE Tier(big) = "large"
    <3>1. compact' = compact /\ large' = large + 1 /\ pending' = pending - 1 /\ large < LargeCap
      BY <1>2, <1>4, <1>7, <2>3
    <3> QED
      BY <1>7, <2>1, <3>1
  <2> QED
    BY <1>4, <2>2, <2>3
<1> QED
  BY <1>8, <1>9, <1>10 DEF Balance

LEMMA BalanceStep == IInv /\ Balance /\ [Next]_vars => Balance'
<1> SUFFICES ASSUME IInv, Balance, [Next]_vars PROVE Balance'
  OBVIOUS
<1>1. CASE \E c \in Clients : Send(c) \/ ConnectFails(c) \/ NoAnswer(c) \/ ReadAnswer(c)
  BY <1>1, BalanceUnchanged DEF Send, ConnectFails, NoAnswer, ReadAnswer, store
<1>2. ASSUME NEW h \in Handlers, ReadRequest(h) PROVE Balance'
  <2>1. UNCHANGED store \/ Begin(h)
    BY <1>2 DEF ReadRequest
  <2> QED
    BY <2>1, BalanceUnchanged, BeginBalances DEF store, IInv, Promises
<1>3. ASSUME NEW h \in Handlers,
             \/ DropRequest(h) \/ Emit(h) \/ EmitRefused(h) \/ Joined(h) \/ WaitTimesOut(h)
             \/ Execute(h) \/ DropCommand(h)
      PROVE  Balance'
  BY <1>3, BalanceUnchanged DEF DropRequest, Emit, EmitRefused, Joined, WaitTimesOut, Execute,
     DropCommand, store
<1>4. ASSUME NEW h \in Handlers, ForgetUnadmitted(h) \/ Complete(h) PROVE Balance'
  BY <1>4, ForgetBalances, CompleteBalances
<1>5. CASE QuiesceOwnerAdmission \/ Tick \/ UNCHANGED vars
  BY <1>5, BalanceUnchanged DEF QuiesceOwnerAdmission, Tick, vars, store
<1>6. CASE Restart
  <2>1. Registrants' = {} /\ order' = <<>> /\ pending' = 0 /\ compact' = 0 /\ large' = 0
    BY <1>6 DEF Restart, Registrants
  <2>2. Len(order') = 0 /\ \A tier : TierCount(order', tier) = 0
    BY <2>1, EmptySeq, TierCountEmpty
  <2> QED
    BY <2>1, <2>2, FS_EmptySet, BudgetNumbers DEF Balance
<1> QED
  BY <1>1, <1>2, <1>3, <1>4, <1>5, <1>6 DEF Next

LEMMA BalanceInit == Init => Balance
<1> SUFFICES ASSUME Init PROVE Balance
  OBVIOUS
<1>1. Registrants = {} /\ order = <<>> /\ pending = 0 /\ compact = 0 /\ large = 0
  BY DEF Init, Registrants
<1>2. Len(order) = 0 /\ \A tier : TierCount(order, tier) = 0
  BY <1>1, EmptySeq, TierCountEmpty
<1> QED
  BY <1>1, <1>2, FS_EmptySet, BudgetNumbers DEF Balance

\* Along every path of admission, refusal, completion and expiry the counters
\* agree with the entries, an admitted command still has its entry, and the
\* place reserved at admission is there at completion, for any capacities (the
\* debug_assert of requests.rs:392).
THEOREM BudgetsAlwaysBalance == Spec => []BudgetsBalance
<1>1. IInv /\ Balance => BudgetsBalance
  <2> SUFFICES ASSUME IInv, Balance PROVE BudgetsBalance
    OBVIOUS
  <2>1. \A h \in InOwnerHands : registry[Key(h)] = h
    BY DEF InOwnerHands, IInv, Promises, Identities, Pending, InHands, TypeOK, StoreTypeOK
  <2>2. Cardinality(DOMAIN order) = Len(order)
    BY LenProperties, UpTo DEF IInv, TypeOK, StoreTypeOK
  <2> QED
    BY <2>1, <2>2 DEF Balance, BudgetsBalance, Registrants
<1> QED
  BY <1>1, InvariantHolds, BalanceInit, BalanceStep, PTL DEF Spec
=============================================================================
