--------------------------- MODULE RemoteRequests ---------------------------
(***************************************************************************)
(* One-shot remote commands that change state: the client of               *)
(* remote/client.rs, which repeats a command with the same identity once   *)
(* when its answer was lost, the connection handlers of                    *)
(* remote/server/one_shot.rs, the bounded registry of identities of        *)
(* remote/requests.rs (CommandDeduper), and the owner loop that executes   *)
(* admitted commands.                                                      *)
(*                                                                         *)
(* A client makes at most two attempts; attempt i of client c is served by *)
(* the handler <<c, i>>.  A registry entry (Arc<RequestEntry>) is named by *)
(* the handler that inserted it, so that an identity that was removed and  *)
(* inserted again has a new entry.  Time is a discrete clock: a client     *)
(* waits at most Attempt, and a request it sent is read by its handler     *)
(* within Attempt.                                                         *)
(***************************************************************************)
EXTENDS Integers, Sequences, FiniteSets

CONSTANTS Clients,       \* callers; each sends one command
          Repeaters,     \* those that repeat an unanswered command
          Keys,          \* request identities
          Executed,      \* answers of an owner that handled the command
          PendingCap,    \* limits.pending_entries
          CompletedCap,  \* limits.compact_completed_entries
          LargeCap,      \* limits.large_completed_entries
          Attempt,       \* longest attempt: connect, write and reply timeout
          Retention,     \* limits.completed_retention
          MaxClock,      \* bound: the clock stops here
          MaxInstances,  \* bound: owner processes, one after the other
          None

\* Two attempts end before a completed identity expires (requests.rs:50).
ASSUME RetentionAssumption ==
    /\ {Attempt, Retention, PendingCap, CompletedCap, LargeCap} \subseteq Nat
    /\ 2 * Attempt < Retention
ASSUME ExecutedAssumption ==
    Executed \cap {None, "lost", "unconfirmed", "unsent", "busy", "closing",
                   "badtoken", "conflict"} = {}
ASSUME NoneAssumption ==
    None \notin (Clients \X {1, 2}) \cup Keys
                 \cup {"lost", "unsent", "unconfirmed", "busy", "closing",
                       "badtoken", "conflict"}

VARIABLES clock,
          client,    \* caller: phase, current attempt, identity, token, verdict
          handler,   \* connection task of every attempt
          registry,  \* identity -> entry (RequestState.entries)
          slot,      \* entry -> verdict once completed (RequestCompletion)
          order,     \* completed records, oldest first (completed_order)
          pending, compact, large,   \* counters of RequestState
          owner,     \* admitted commands the owner has not handled
          reply,     \* answers on their way to the completion tasks
          open,      \* owner_admission_open
          instance,  \* the running owner process; its token
          effect     \* history: executions of each client's command

vars == <<clock, client, handler, registry, slot, order, pending, compact,
          large, owner, reply, open, instance, effect>>
store == <<registry, slot, order, pending, compact, large>>
outside == <<clock, client, open, instance>>

Handlers == Clients \X {1, 2}
Refused == {"busy", "closing", "badtoken", "conflict"}
Answers == Executed \cup Refused \cup {"lost"} \* lost: timeout, confirmation_lost
Key(h) == client[h[1]].key
Idle == [state |-> "unsent", sentAt |-> 0, entry |-> None,
         answer |-> None, replay |-> FALSE]
Closed == [Idle EXCEPT !.state = "gone"]
Tiers == {"compact", "large"}

Init ==
    /\ clock = 0
    /\ client \in [Clients -> [phase : {"idle"}, try : {1}, key : Keys,
                               token : {1}, sentAt : {0}, verdict : {None}]]
    /\ handler = [h \in Handlers |-> Idle]
    /\ registry = [k \in Keys |-> None]
    /\ slot = [h \in Handlers |-> None]
    /\ order = <<>>
    /\ pending = 0 /\ compact = 0 /\ large = 0
    /\ owner = {}
    /\ reply = [h \in Handlers |-> None]
    /\ open = TRUE
    /\ instance = 1
    /\ effect = [c \in Clients |-> <<>>]

-----------------------------------------------------------------------------
(* The client.                                                             *)

Finish(c, v) ==
    client' = [client EXCEPT ![c].phase = "done", ![c].verdict = v, ![c].sentAt = 0]

\* An ambiguous first attempt is repeated once, an ambiguous second is final.
\* A client that does not repeat leaves it at the first.
Ambiguous(c) ==
    IF client[c].try = 1 /\ c \in Repeaters
    THEN client' = [client EXCEPT ![c].phase = "retry", ![c].try = 2,
                               ![c].sentAt = 0]
    ELSE Finish(c, "unconfirmed")

\* The connection is closed; an answer still on it is read by nobody.
HangUp(h) ==
    handler' = IF handler[h].state = "answered"
               THEN [handler EXCEPT ![h] = Closed] ELSE handler

\* The request is written with the token of the descriptor, which may name an
\* owner that has since been replaced; the retry reuses it.
Send(c) ==
    /\ client[c].phase \in {"idle", "retry"}
    /\ \E t \in IF client[c].try = 1 THEN 1 .. instance ELSE {client[c].token} :
         client' = [client EXCEPT ![c].phase = "waiting", ![c].token = t,
                                  ![c].sentAt = clock]
    /\ handler' = [handler EXCEPT ![<<c, client[c].try>>].state = "inflight",
                                  ![<<c, client[c].try>>].sentAt = clock]
    /\ UNCHANGED <<clock, store, owner, reply, open, instance, effect>>

\* No listener: final on the first attempt, no proof on the second.
ConnectFails(c) ==
    /\ client[c].phase \in {"idle", "retry"}
    /\ Finish(c, IF client[c].try = 1 THEN "unsent" ELSE "unconfirmed")
    /\ UNCHANGED <<clock, handler, store, owner, reply, open, instance, effect>>

\* Reply deadline, end of file, malformed reply, or an error of the write or
\* the flush after which the request may have arrived all the same.
NoAnswer(c) ==
    /\ client[c].phase = "waiting"
    /\ Ambiguous(c)
    /\ HangUp(<<c, client[c].try>>)
    /\ UNCHANGED <<clock, store, owner, reply, open, instance, effect>>

\* The first answer is believed unless it says the outcome is unknown; the
\* second only when it is the retained outcome of the first.
AnyAnswerIsAuthoritative(c, h) == handler[h].answer # "lost"
Authoritative(c, h) ==
    /\ handler[h].answer # "lost"
    /\ client[c].try = 2 => handler[h].replay

ReadAnswer(c) ==
    LET h == <<c, client[c].try>> IN
    /\ client[c].phase = "waiting"
    /\ handler[h].state = "answered"
    /\ IF Authoritative(c, h) THEN Finish(c, handler[h].answer) ELSE Ambiguous(c)
    /\ HangUp(h)
    /\ UNCHANGED <<clock, store, owner, reply, open, instance, effect>>

-----------------------------------------------------------------------------
(* The registry.                                                           *)

\* A completed identity outlives both attempts of its client.
ExpiredWithoutMargin(rec) == clock - rec.at >= 2 * Attempt
Expired(rec) == clock - rec.at >= Retention

\* purge_expired: completed records leave from the front, with their entries.
PurgeCount == Cardinality({i \in DOMAIN order : \A j \in 1 .. i : Expired(order[j])})
Purged == SubSeq(order, 1, PurgeCount)
Left == SubSeq(order, PurgeCount + 1, Len(order))
TierCount(s, tier) == Cardinality({i \in DOMAIN s : s[i].tier = tier})
Registered == [k \in Keys |-> IF \E i \in DOMAIN Purged : Purged[i].key = k
                              THEN None ELSE registry[k]]
CompactLeft == compact - TierCount(Purged, "compact")

\* A pending command reserves its place among the compact outcomes.
FullWithoutReservation ==
    pending >= PendingCap \/ CompactLeft >= CompletedCap
Full == \/ pending >= PendingCap
        \/ CompactLeft + pending >= CompletedCap

Become(h, state, entry) ==
    handler' = [handler EXCEPT ![h] = [Idle EXCEPT !.state = state, !.entry = entry]]

\* The end of the handler: a refusal for lack of room is reported as the
\* shutdown it came with, and then proves nothing; the write fails, or its
\* client is still there to read it.
Respond(h, answer, replay) ==
    \/ Become(h, "gone", None)
    \/ /\ client[h[1]].phase = "waiting" /\ client[h[1]].try = h[2]
       /\ handler' = [handler EXCEPT ![h] =
            [Idle EXCEPT !.state = "answered",
               !.answer = IF ~open /\ answer = "busy" THEN "closing" ELSE answer,
               !.replay = replay /\ (open \/ answer # "busy")]]

Purge == /\ order' = Left
         /\ compact' = CompactLeft
         /\ large' = large - TierCount(Purged, "large")

\* begin: join the entry of the identity, refuse another command that uses
\* it, refuse when the budgets are full, otherwise insert a pending entry.
Begin(h) ==
    LET k == Key(h)
        e == Registered[k]
    IN  /\ Purge
        /\ \/ /\ e # None /\ e[1] = h[1]
              /\ Become(h, "waiting", e)
              /\ registry' = Registered /\ UNCHANGED pending
           \/ /\ e # None /\ e[1] # h[1]
              /\ Respond(h, "conflict", FALSE)
              /\ registry' = Registered /\ UNCHANGED pending
           \/ /\ e = None /\ Full
              /\ Respond(h, "busy", FALSE)
              /\ registry' = Registered /\ UNCHANGED pending
           \/ /\ e = None /\ ~Full
              /\ Become(h, "emitting", h)
              /\ registry' = [Registered EXCEPT ![k] = h]
              /\ pending' = pending + 1
        /\ UNCHANGED slot

-----------------------------------------------------------------------------
(* The connection handler.                                                 *)

TokenMatches(h) == client[h[1]].token = instance

\* The first line is read and validated, then the registry is asked.
ReadRequest(h) ==
    /\ handler[h].state = "inflight"
    /\ \/ /\ ~TokenMatches(h)
          /\ Respond(h, "badtoken", FALSE)
          /\ UNCHANGED store
       \/ /\ TokenMatches(h) /\ ~open
          /\ Respond(h, "closing", FALSE)
          /\ UNCHANGED store
       \/ /\ TokenMatches(h) /\ open
          /\ Begin(h)
    /\ UNCHANGED <<outside, owner, reply, effect>>

\* A connection dropped before its line was read: the connection limit, a
\* read error, or a request that was never written whole.
DropRequest(h) ==
    /\ handler[h].state = "inflight"
    /\ Become(h, "gone", None)
    /\ UNCHANGED <<outside, store, owner, reply, effect>>

\* run_if_owner_admission_open(emit): the owner's ingress takes the command.
Emit(h) ==
    /\ handler[h].state = "emitting" /\ open
    /\ Become(h, "waiting", h)
    /\ owner' = owner \cup {h}
    /\ UNCHANGED <<outside, store, reply, effect>>

\* It refuses, or admission is closed: the entry is completed for those who
\* joined it, and taken out of the registry in a second step.
EmitRefused(h) ==
    /\ handler[h].state = "emitting"
    /\ Become(h, "forgetting", h)
    /\ slot' = [slot EXCEPT ![h] = "busy"]
    /\ UNCHANGED <<outside, registry, order, pending, compact, large, owner,
                   reply, effect>>

\* forget_unadmitted: only the same entry, never a successor.
ForgetUnadmitted(h) ==
    /\ handler[h].state = "forgetting"
    /\ Become(h, "waiting", h)
    /\ IF registry[Key(h)] = h
       THEN /\ registry' = [registry EXCEPT ![Key(h)] = None]
            /\ pending' = pending - 1
       ELSE UNCHANGED <<registry, pending>>
    /\ UNCHANGED <<outside, slot, order, compact, large, owner, reply, effect>>

\* entry.response() within the reply timeout.
Joined(h) ==
    /\ handler[h].state = "waiting"
    /\ slot[handler[h].entry] # None
    /\ Respond(h, slot[handler[h].entry], handler[h].entry # h)
    /\ UNCHANGED <<outside, store, owner, reply, effect>>

WaitTimesOut(h) ==
    /\ handler[h].state = "waiting"
    /\ Respond(h, "lost", FALSE)
    /\ UNCHANGED <<outside, store, owner, reply, effect>>

-----------------------------------------------------------------------------
(* The owner and the completion task.                                      *)

\* The owner executes the command.  Its answer may be dropped, and a command
\* may also be dropped with its queue, unexecuted.
Execute(h) ==
    /\ h \in owner
    /\ owner' = owner \ {h}
    /\ \E v \in Executed :
         /\ effect' = [effect EXCEPT ![h[1]] = Append(@, v)]
         /\ \E answer \in {v, "lost"} : reply' = [reply EXCEPT ![h] = answer]
    /\ UNCHANGED <<outside, handler, store>>

DropCommand(h) ==
    /\ h \in owner
    /\ owner' = owner \ {h}
    /\ reply' = [reply EXCEPT ![h] = "lost"]
    /\ UNCHANGED <<outside, handler, store, effect>>

\* A large answer takes a large slot while there is one, and is otherwise cut
\* down to a compact one with the same verdict.
Tier(big) == IF big /\ large < LargeCap THEN "large" ELSE "compact"

\* complete_retained.
Complete(h) ==
    /\ reply[h] # None
    /\ reply' = [reply EXCEPT ![h] = None]
    /\ \/ /\ registry[Key(h)] # h
          /\ slot' = [slot EXCEPT ![h] = "busy"]
          /\ UNCHANGED <<pending, compact, large, order>>
       \/ /\ registry[Key(h)] = h
          /\ slot' = [slot EXCEPT ![h] = reply[h]]
          /\ pending' = pending - 1
          /\ \E big \in IF reply[h] = "lost" THEN {FALSE} ELSE BOOLEAN :
               /\ compact' = compact + (IF Tier(big) = "compact" THEN 1 ELSE 0)
               /\ large' = large + (IF Tier(big) = "large" THEN 1 ELSE 0)
               /\ order' = Append(order, [key |-> Key(h), at |-> clock,
                                          tier |-> Tier(big)])
    /\ UNCHANGED <<outside, handler, registry, owner, effect>>

-----------------------------------------------------------------------------
(* The life of the server process, and time.                               *)

QuiesceOwnerAdmission ==
    /\ open
    /\ open' = FALSE
    /\ UNCHANGED <<clock, client, handler, store, owner, reply, instance, effect>>

\* The process ends, in order or not, and another one takes the endpoint:
\* connection and completion tasks die with it, written answers do not.
Restart ==
    /\ instance < MaxInstances
    /\ instance' = instance + 1
    /\ open' = TRUE
    /\ handler' = [h \in Handlers |->
            IF handler[h].state \in {"unsent", "answered"} THEN handler[h]
            ELSE Closed]
    /\ registry' = [k \in Keys |-> None]
    /\ slot' = [h \in Handlers |-> None]
    /\ order' = <<>>
    /\ pending' = 0 /\ compact' = 0 /\ large' = 0
    /\ owner' = {}
    /\ reply' = [h \in Handlers |-> None]
    /\ UNCHANGED <<clock, client, effect>>

\* The deadlines of the client and of the connection are kept.
Tick ==
    /\ clock < MaxClock
    /\ \A c \in Clients :
         /\ client[c].phase # "retry"
         /\ client[c].phase = "waiting" => clock < client[c].sentAt + Attempt
    /\ \A h \in Handlers :
         handler[h].state = "inflight" => clock < handler[h].sentAt + Attempt
    /\ clock' = clock + 1
    /\ UNCHANGED <<client, handler, store, owner, reply, open, instance, effect>>

Next ==
    \/ \E c \in Clients :
         Send(c) \/ ConnectFails(c) \/ NoAnswer(c) \/ ReadAnswer(c)
    \/ \E h \in Handlers :
         \/ ReadRequest(h) \/ DropRequest(h) \/ Emit(h) \/ EmitRefused(h)
         \/ ForgetUnadmitted(h) \/ Joined(h) \/ WaitTimesOut(h)
         \/ Execute(h) \/ DropCommand(h) \/ Complete(h)
    \/ QuiesceOwnerAdmission \/ Restart \/ Tick

Spec == Init /\ [][Next]_vars

-----------------------------------------------------------------------------
(* Properties.                                                             *)

\* A command is executed at most once, however often its client repeats it,
\* whatever was lost, refused, delayed or restarted in between: the reason the
\* registry exists (requests.rs:1).
AppliedOnce == \A c \in Clients : Len(effect[c]) <= 1

\* What a client is finally told is true, then and for ever after: an outcome
\* is the outcome of the one execution, and a refusal means that the command
\* was not and will not be executed.
VerdictIsTrue ==
    \A c \in Clients :
        /\ client[c].verdict \in Executed => effect[c] = <<client[c].verdict>>
        /\ client[c].verdict \in Refused \cup {"unsent"} => effect[c] = <<>>

\* The counters agree with the entries along every path of admission, refusal,
\* completion and expiry; every admitted command still has its entry, so the
\* branch of complete_retained that finds it gone is never taken; and the room
\* reserved at admission is there at completion (the debug_assert of
\* requests.rs:392).
InOwnerHands == owner \cup {h \in Handlers : reply[h] # None}
BudgetsBalance ==
    /\ \A h \in InOwnerHands : registry[Key(h)] = h
    /\ pending = Cardinality({k \in Keys : registry[k] # None})
                   - Cardinality(DOMAIN order)
    /\ compact = TierCount(order, "compact")
    /\ compact + pending <= CompletedCap
    /\ large <= LargeCap
=============================================================================
