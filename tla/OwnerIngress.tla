---------------------------- MODULE OwnerIngress ----------------------------
(***************************************************************************)
(* util/delivery.rs, util/delivery/admission.rs and the LatestEventBuffer  *)
(* of util/event_policy.rs: the ingress through which every producer       *)
(* thread of the terminal runtime and of the daemon reaches the one owner  *)
(* loop.  An accepted event is in exactly one of four places: the bounded  *)
(* owner channel, the hand of the single drainer thread, the bounded spill *)
(* queue, or (keyed events) the latest-value buffer, which is announced by *)
(* a wake event that travels like a must-deliver event or, when the spill  *)
(* queue is full, sits in a one-place latch behind what is queued.         *)
(*                                                                         *)
(* Locks.  emit holds the admission mutex for its whole body, so producers *)
(* exclude each other; emit_coalesced also holds the buffer mutex across   *)
(* its wake steps, between which only the drainer thread and the receiver  *)
(* side run.  Each region of the deferred mutex is one action.             *)
(***************************************************************************)
EXTENDS Naturals, Sequences, FiniteSets

CONSTANTS
  Events,           \* every event producers will emit, each emitted once
  Policy,           \* [Events -> Policies], EventPolicy of the event
  Lane,             \* [Events -> Lanes], EventPolicy::lane
  Key,              \* [Events -> Keys \cup {None}], OwnerEvent::coalesce_key
  Callbacks,        \* must-deliver events sent through emit_callback_*
  Keys,
  Wake,             \* OwnerEvent::wake_event
  None,
  ChannelCap,       \* capacity of the owner's mpsc channel
  SpillCap,         \* DeferredQueue::capacity
  BufferCap         \* LatestEventBuffer::max_entries

Policies == {"mustDeliver", "replyOrBusy", "coalesceLatest", "dropIfStale", "bestEffort"}
Lanes == {"control", "work", "telemetry"}
Items == Events \cup {Wake}

ASSUME IngressAssumption ==
  /\ Policy \in [Events -> Policies]
  /\ Lane \in [Events -> Lanes]
  /\ Key \in [Events -> Keys \cup {None}]
  /\ Callbacks \subseteq {e \in Events : Policy[e] = "mustDeliver"}
  /\ Wake \notin Events
  /\ None \notin Items \cup Keys \cup Lanes
  /\ ChannelCap \in Nat \ {0}
  /\ SpillCap \in Nat
  /\ BufferCap \in Nat \ {0}

\* The part of the spill queue kept for control events.
ControlReserve ==
  CASE SpillCap = 0       -> 0
    [] SpillCap \in 1..31 -> 1
    [] OTHER              -> 16

\* wake_event() is MustDeliver { lane: Control } in both owners.
LaneOf(x) == IF x = Wake THEN "control" ELSE Lane[x]

Keyed(e) == Policy[e] \in {"coalesceLatest", "dropIfStale"} /\ Key[e] # None

\* LatestEventClass of a keyed event.
Class(e) ==
  IF Policy[e] = "dropIfStale" THEN "staleResult"
  ELSE IF Lane[e] = "telemetry" THEN "telemetry" ELSE "protected"

Accepted == {"enqueued", "deferred", "coalesced"}
Refused == {"closed", "saturated", "busy", "staleOrFull", "bestEffortDropped"}
Receipts == Accepted \cup Refused

DirectRejection(e) ==
  CASE Policy[e] = "replyOrBusy" -> "busy"
    [] Policy[e] = "dropIfStale" -> "staleOrFull"
    [] Policy[e] = "bestEffort"  -> "bestEffortDropped"
    [] OTHER                     -> "saturated"

VARIABLES
  admissionOpen,    \* IngressAdmission::open
  outcome,          \* what each event's emit has returned so far
  emitter,          \* keyed event whose emit_coalesced is between two regions
  stage,            \* where that call is: "idle", "wake" or "latch"
  buffer,           \* LatestEventBuffer, its events in `order`
  wakePending,      \* LatestEventBuffer::wake_pending
  channel,          \* the owner's mpsc channel
  rxOpen,           \* the receiver is alive
  spill,            \* DeferredState::queue
  latched,          \* DeferredState::latched_wake is Some ...
  remainingBefore,  \* ... with this many queued events before it
  inFlightLane,     \* DeferredState::in_flight_lane
  nonControlLen,    \* DeferredState::non_control_len
  drainerRunning,   \* DeferredState::drainer_running
  closed,           \* DeferredState::closed
  thread,           \* the drainer thread's position
  hand,             \* the event the drainer thread is sending
  owner,            \* the owner loop's position
  received          \* events the owner has taken, directly or drained

admissionVars == <<admissionOpen, outcome, emitter, stage>>
bufferVars    == <<buffer, wakePending>>
stateVars     == <<spill, latched, remainingBefore, inFlightLane,
                   nonControlLen, drainerRunning, closed>>
threadVars    == <<thread, hand>>
ownerVars     == <<owner, received>>
vars == <<admissionVars, bufferVars, channel, rxOpen, stateVars, threadVars, ownerVars>>

AdmissionTypeOK ==
  /\ admissionOpen \in BOOLEAN
  /\ outcome \in [Events -> Receipts \cup {"unsent", "emitting", "waiting"}]
  /\ emitter \in Events \cup {None}
  /\ stage \in {"idle", "wake", "latch"}
  /\ stage # "idle" => emitter # None
BufferTypeOK ==
  /\ buffer \in Seq(Events)
  /\ wakePending \in BOOLEAN
DeferredTypeOK ==
  /\ channel \in Seq(Items)
  /\ rxOpen \in BOOLEAN
  /\ spill \in Seq(Items)
  /\ latched \in BOOLEAN
  /\ remainingBefore \in Nat
  /\ inFlightLane \in Lanes \cup {None}
  /\ nonControlLen \in Nat
  /\ drainerRunning \in BOOLEAN
  /\ closed \in BOOLEAN
  /\ thread \in {"none", "popping", "sending", "completing", "failing", "marking"}
  /\ hand \in Items \cup {None}
OwnerTypeOK ==
  /\ owner \in {"running", "wakeSeen", "draining", "drainWake", "checking",
                "confirming", "final", "closing", "done", "aborted"}
  /\ received \subseteq Events
TypeOK == AdmissionTypeOK /\ BufferTypeOK /\ DeferredTypeOK /\ OwnerTypeOK

Init ==
  /\ admissionOpen = TRUE
  /\ outcome = [e \in Events |-> "unsent"]
  /\ emitter = None
  /\ stage = "idle"
  /\ buffer = <<>>
  /\ wakePending = FALSE
  /\ channel = <<>>
  /\ rxOpen = TRUE
  /\ spill = <<>>
  /\ latched = FALSE
  /\ remainingBefore = 0
  /\ inFlightLane = None
  /\ nonControlLen = 0
  /\ drainerRunning = FALSE
  /\ closed = FALSE
  /\ thread = "none"
  /\ hand = None
  /\ owner = "running"
  /\ received = {}

-----------------------------------------------------------------------------
(* DeferredState and DeferredQueue *)

ClearOpen ==
  /\ spill' = <<>>
  /\ latched' = FALSE
  /\ remainingBefore' = 0
  /\ inFlightLane' = None
  /\ nonControlLen' = 0
  /\ drainerRunning' = FALSE

MarkClosed == ClearOpen /\ closed' = TRUE

\* Variant: the event in the drainer's hand is not counted.
HasCapacityQueuedOnly(x) ==
  /\ Len(spill) < SpillCap
  /\ LaneOf(x) = "control" \/ nonControlLen < SpillCap - ControlReserve

HasCapacity(x) ==
  /\ Len(spill) + (IF inFlightLane = None THEN 0 ELSE 1) < SpillCap
  /\ LaneOf(x) = "control" \/ nonControlLen < SpillCap - ControlReserve

Push(x) ==
  /\ spill' = Append(spill, x)
  /\ nonControlLen' = nonControlLen + (IF LaneOf(x) = "control" THEN 0 ELSE 1)

\* tx.try_send.
TrySend(x) ==
  /\ Len(channel) < ChannelCap
  /\ channel' = Append(channel, x)

\* Variant: the flag is raised and no thread started.
StartDrainerFlagOnly ==
  /\ drainerRunning' = TRUE
  /\ UNCHANGED <<thread, hand, closed>>

\* spawn_drainer, when no drainer runs.  The OS may refuse a thread.
StartDrainer ==
  /\ drainerRunning' = TRUE
  /\ thread' = IF drainerRunning THEN thread ELSE "popping"
  /\ UNCHANGED <<hand, closed>>

\* admit_owned(x) returns this receipt.
Admit(x, receipt) ==
  LET direct == ~drainerRunning /\ spill = <<>>
      full   == ~direct \/ Len(channel) >= ChannelCap
  IN
  \/ /\ closed \/ ~rxOpen
     /\ receipt = "closed"
     /\ MarkClosed
     /\ UNCHANGED <<channel, threadVars>>
  \/ /\ ~closed /\ rxOpen /\ direct
     /\ receipt = "enqueued"
     /\ TrySend(x)
     /\ UNCHANGED <<stateVars, threadVars>>
  \/ /\ ~closed /\ rxOpen /\ full /\ ~HasCapacity(x)
     /\ receipt = "saturated"
     /\ UNCHANGED <<channel, stateVars, threadVars>>
  \/ /\ ~closed /\ rxOpen /\ full /\ HasCapacity(x)
     /\ receipt = "deferred"
     /\ Push(x)
     /\ StartDrainer
     /\ UNCHANGED <<channel, latched, remainingBefore, inFlightLane>>
  \/ /\ ~closed /\ rxOpen /\ full /\ HasCapacity(x) /\ ~drainerRunning
     /\ receipt = "saturated"          \* the drainer thread could not be spawned
     /\ ClearOpen
     /\ UNCHANGED <<channel, closed, threadVars>>

\* Variant: a free channel slot is taken whatever is deferred.
TryDirectBarging(e, receipt) ==
  \/ /\ closed \/ ~rxOpen
     /\ receipt = "closed"
     /\ MarkClosed
     /\ UNCHANGED <<channel, threadVars>>
  \/ /\ ~closed /\ rxOpen /\ Len(channel) >= ChannelCap
     /\ receipt = DirectRejection(e)
     /\ UNCHANGED <<channel, stateVars, threadVars>>
  \/ /\ ~closed /\ rxOpen
     /\ receipt = "enqueued"
     /\ TrySend(e)
     /\ UNCHANGED <<stateVars, threadVars>>

\* try_direct(e) returns this receipt.
TryDirect(e, receipt) ==
  \/ /\ closed \/ ~rxOpen
     /\ receipt = "closed"
     /\ MarkClosed
     /\ UNCHANGED <<channel, threadVars>>
  \/ /\ ~closed /\ rxOpen
     /\ drainerRunning \/ spill # <<>> \/ latched \/ Len(channel) >= ChannelCap
     /\ receipt = DirectRejection(e)
     /\ UNCHANGED <<channel, stateVars, threadVars>>
  \/ /\ ~closed /\ rxOpen
     /\ ~drainerRunning /\ spill = <<>> /\ ~latched
     /\ receipt = "enqueued"
     /\ TrySend(e)
     /\ UNCHANGED <<stateVars, threadVars>>

\* Variant: the drainer that filled the spill queue is assumed to be there.
LatchWakeUnowned(receipt) ==
  /\ ~closed /\ rxOpen
  /\ receipt = "deferred"
  /\ latched' = TRUE
  /\ remainingBefore' = Len(spill)
  /\ UNCHANGED <<spill, inFlightLane, nonControlLen, drainerRunning, closed, threadVars>>

\* latch_wake returns this receipt.
LatchWake(receipt) ==
  \/ /\ closed \/ ~rxOpen
     /\ receipt = "closed"
     /\ MarkClosed
     /\ UNCHANGED threadVars
  \/ /\ ~closed /\ rxOpen /\ latched
     /\ receipt = "coalesced"
     /\ UNCHANGED <<stateVars, threadVars>>
  \/ /\ ~closed /\ rxOpen /\ ~latched
     /\ receipt = "deferred"
     /\ latched' = TRUE
     /\ remainingBefore' = Len(spill)
     /\ StartDrainer
     /\ UNCHANGED <<spill, inFlightLane, nonControlLen>>
  \/ /\ ~closed /\ rxOpen /\ ~latched /\ ~drainerRunning
     /\ receipt = "saturated"          \* the drainer thread could not be spawned
     /\ ClearOpen
     /\ UNCHANGED <<closed, threadVars>>

-----------------------------------------------------------------------------
(* Producers *)

\* A producer may enter: it takes the admission mutex and finds it open.
MayEmit == emitter = None /\ admissionOpen

\* emit, emit_must_deliver_owned and each turn of wait_for_callback_capacity
\* for a must-deliver event; a callback keeps a saturated event and retries.
EmitMustDeliver(e) ==
  /\ Policy[e] = "mustDeliver"
  /\ outcome[e] \in {"unsent", "waiting"}
  /\ MayEmit
  /\ \E receipt \in Receipts :
       /\ Admit(e, receipt)
       /\ outcome' = [outcome EXCEPT ![e] =
            IF receipt = "saturated" /\ e \in Callbacks THEN "waiting" ELSE receipt]
  /\ UNCHANGED <<admissionOpen, emitter, stage, bufferVars, rxOpen, ownerVars>>

\* emit of an event that is neither must-deliver nor keyed.
EmitDirect(e) ==
  /\ Policy[e] # "mustDeliver" /\ ~Keyed(e)
  /\ outcome[e] = "unsent"
  /\ MayEmit
  /\ \E receipt \in Receipts :
       /\ TryDirect(e, receipt)
       /\ outcome' = [outcome EXCEPT ![e] = receipt]
  /\ UNCHANGED <<admissionOpen, emitter, stage, bufferVars, rxOpen, ownerVars>>

\* The admission mutex is taken and found closed.
EmitRefused(e) ==
  /\ emitter = None /\ ~admissionOpen
  /\ outcome[e] \in {"unsent", "waiting"}
  /\ outcome' = [outcome EXCEPT ![e] = "closed"]
  /\ UNCHANGED <<admissionOpen, emitter, stage, bufferVars, channel, rxOpen,
                 stateVars, threadVars, ownerVars>>

\* CallbackCancellation retires the producer of a waiting event.
CallbackCancelled(e) ==
  /\ e \in Callbacks
  /\ outcome[e] \in {"unsent", "waiting"}
  /\ outcome' = [outcome EXCEPT ![e] = "closed"]
  /\ UNCHANGED <<admissionOpen, emitter, stage, bufferVars, channel, rxOpen,
                 stateVars, threadVars, ownerVars>>

-----------------------------------------------------------------------------
(* Keyed events: emit_coalesced over the LatestEventBuffer *)

\* Variant: a full buffer always gives up its oldest resident.
DisplaceableAny(resident, e) == TRUE

\* A resident the new event may displace from a full buffer.
Displaceable(resident, e) ==
  IF Class(e) = "telemetry" THEN Class(resident) = "telemetry"
                            ELSE Class(resident) # "protected"

Replaces(e) == \E i \in DOMAIN buffer : Key[buffer[i]] = Key[e]

\* The oldest displaceable position.
IsVictim(i, e) ==
  /\ i \in DOMAIN buffer
  /\ Displaceable(buffer[i], e)
  /\ \A j \in 1..(i-1) : ~Displaceable(buffer[j], e)

BufferFull(e) == ~Replaces(e) /\ Len(buffer) >= BufferCap

\* The resident position that insert_prioritized gives up for e, if any: the
\* older value of its key, or the victim of a full buffer.
GivenUp(e) ==
  {i \in DOMAIN buffer : Key[buffer[i]] = Key[e] \/ (BufferFull(e) /\ IsVictim(i, e))}

Insertable(e) == BufferFull(e) => GivenUp(e) # {}

\* insert_prioritized leaves this order behind.
Without(i) == SubSeq(buffer, 1, i - 1) \o SubSeq(buffer, i + 1, Len(buffer))
Inserted(e) ==
  Append(IF GivenUp(e) = {} THEN buffer ELSE Without(CHOOSE i \in GivenUp(e) : TRUE), e)

\* emit_coalesced up to its first deferred region.
EmitKeyed(e) ==
  /\ Keyed(e)
  /\ outcome[e] = "unsent"
  /\ MayEmit
  /\ \/ /\ ~rxOpen
        /\ outcome' = [outcome EXCEPT ![e] = "closed"]
        /\ buffer' = <<>> /\ wakePending' = FALSE
        /\ MarkClosed
        /\ UNCHANGED <<emitter, stage>>
     \/ /\ rxOpen /\ ~Insertable(e)
        /\ outcome' = [outcome EXCEPT ![e] = DirectRejection(e)]
        /\ UNCHANGED <<emitter, stage, bufferVars, stateVars>>
     \/ /\ rxOpen /\ Insertable(e)
        /\ buffer' = Inserted(e)
        /\ wakePending' = TRUE
        /\ IF wakePending
           THEN /\ outcome' = [outcome EXCEPT ![e] = "coalesced"]
                /\ UNCHANGED <<emitter, stage>>
           ELSE /\ outcome' = [outcome EXCEPT ![e] = "emitting"]
                /\ emitter' = e /\ stage' = "wake"
        /\ UNCHANGED stateVars
  /\ UNCHANGED <<admissionOpen, channel, rxOpen, threadVars, ownerVars>>

FinishEmit(receipt) ==
  /\ outcome' = [outcome EXCEPT ![emitter] = receipt]
  /\ emitter' = None /\ stage' = "idle"

\* emit_direct(wake): the wake is admitted like any control event.
OfferWake ==
  /\ stage = "wake"
  /\ \E receipt \in Receipts :
       /\ Admit(Wake, receipt)
       /\ CASE receipt = "closed" ->
                 FinishEmit("closed") /\ buffer' = <<>> /\ wakePending' = FALSE
            [] receipt = "saturated" ->
                 stage' = "latch" /\ UNCHANGED <<outcome, emitter, bufferVars>>
            [] OTHER ->
                 FinishEmit("coalesced") /\ UNCHANGED bufferVars
  /\ UNCHANGED <<admissionOpen, rxOpen, ownerVars>>

\* Variant: wake_pending stays armed after the refusal.
OfferLatchStaysArmed ==
  /\ stage = "latch"
  /\ \E receipt \in Receipts :
       /\ LatchWake(receipt)
       /\ FinishEmit(IF receipt \in Accepted THEN "coalesced" ELSE "saturated")
  /\ UNCHANGED <<admissionOpen, bufferVars, channel, rxOpen, ownerVars>>

\* The spill queue refused the wake: latch it, or re-arm and refuse the event.
OfferLatch ==
  /\ stage = "latch"
  /\ \E receipt \in Receipts :
       /\ LatchWake(receipt)
       /\ IF receipt \in Accepted
          THEN FinishEmit("coalesced") /\ UNCHANGED bufferVars
          ELSE FinishEmit("saturated") /\ wakePending' = FALSE /\ UNCHANGED buffer
  /\ UNCHANGED <<admissionOpen, channel, rxOpen, ownerVars>>

-----------------------------------------------------------------------------
(* The drainer thread *)

EndThread == thread' = "none" /\ hand' = None

\* Variant: the stopping drainer leaves drainer_running set.
DrainerPopKeepsFlag ==
  /\ thread = "popping"
  /\ \/ /\ spill # <<>>
        /\ spill' = Tail(spill)
        /\ remainingBefore' = IF latched THEN remainingBefore - 1 ELSE 0
        /\ inFlightLane' = LaneOf(Head(spill))
        /\ hand' = Head(spill) /\ thread' = "sending"
     \/ /\ spill = <<>>
        /\ EndThread
        /\ UNCHANGED <<spill, remainingBefore, inFlightLane>>
  /\ UNCHANGED <<admissionVars, bufferVars, channel, rxOpen, ownerVars, latched,
                 nonControlLen, drainerRunning, closed>>

\* pop_or_stop.
DrainerPop ==
  /\ thread = "popping"
  /\ \/ /\ closed
        /\ MarkClosed
        /\ EndThread
     \/ /\ ~closed /\ latched /\ remainingBefore = 0
        /\ latched' = FALSE
        /\ hand' = Wake /\ thread' = "sending"
        /\ UNCHANGED <<spill, remainingBefore, inFlightLane, nonControlLen, drainerRunning, closed>>
     \/ /\ ~closed /\ ~(latched /\ remainingBefore = 0) /\ spill # <<>>
        /\ spill' = Tail(spill)
        /\ remainingBefore' = IF latched THEN remainingBefore - 1 ELSE 0
        /\ inFlightLane' = LaneOf(Head(spill))
        /\ hand' = Head(spill) /\ thread' = "sending"
        /\ UNCHANGED <<latched, nonControlLen, drainerRunning, closed>>
     \/ /\ ~closed /\ ~(latched /\ remainingBefore = 0) /\ spill = <<>>
        /\ drainerRunning' = FALSE
        /\ EndThread
        /\ UNCHANGED <<spill, latched, remainingBefore, inFlightLane, nonControlLen, closed>>
  /\ UNCHANGED <<admissionVars, bufferVars, channel, rxOpen, ownerVars>>

\* tx.blocking_send: waits for a slot, fails once the receiver is gone.
DrainerSend ==
  /\ thread = "sending"
  /\ \/ /\ rxOpen
        /\ TrySend(hand)
        /\ thread' = "completing"
     \/ /\ ~rxOpen
        /\ thread' = "failing"
        /\ UNCHANGED channel
  /\ hand' = None
  /\ UNCHANGED <<admissionVars, bufferVars, rxOpen, stateVars, ownerVars>>

\* complete_in_flight.
DrainerComplete ==
  /\ thread \in {"completing", "failing"}
  /\ nonControlLen' = IF inFlightLane \in {None, "control"} \/ nonControlLen = 0
                      THEN nonControlLen ELSE nonControlLen - 1
  /\ inFlightLane' = None
  /\ thread' = IF thread = "completing" THEN "popping" ELSE "marking"
  /\ UNCHANGED <<admissionVars, bufferVars, channel, rxOpen, spill, latched,
                 remainingBefore, drainerRunning, closed, hand, ownerVars>>

DrainerMarkClosed ==
  /\ thread = "marking"
  /\ MarkClosed
  /\ EndThread
  /\ UNCHANGED <<admissionVars, bufferVars, channel, rxOpen, ownerVars>>

-----------------------------------------------------------------------------
(* The owner loop and its shutdown drain *)

\* Variant: the wake is ignored.
OwnerReceiveIgnoresWake ==
  /\ owner \in {"running", "draining", "confirming"}
  /\ channel # <<>>
  /\ channel' = Tail(channel)
  /\ owner' = IF owner = "running" THEN "running" ELSE "draining"
  /\ received' = received \cup ({Head(channel)} \ {Wake})
  /\ UNCHANGED <<admissionVars, bufferVars, rxOpen, stateVars, threadVars>>

\* recv / try_recv.  A wake makes the owner drain the buffer next.
OwnerReceive ==
  /\ owner \in {"running", "draining", "confirming"}
  /\ channel # <<>>
  /\ channel' = Tail(channel)
  /\ IF Head(channel) = Wake
     THEN /\ owner' = IF owner = "running" THEN "wakeSeen" ELSE "drainWake"
          /\ UNCHANGED received
     ELSE /\ owner' = IF owner = "running" THEN "running" ELSE "draining"
          /\ received' = received \cup {Head(channel)}
  /\ UNCHANGED <<admissionVars, bufferVars, rxOpen, stateVars, threadVars>>

\* drain_coalesced: waits for the buffer mutex.
OwnerDrain ==
  /\ owner \in {"wakeSeen", "drainWake", "final"}
  /\ emitter = None
  /\ received' = received \cup {buffer[i] : i \in DOMAIN buffer}
  /\ buffer' = <<>> /\ wakePending' = FALSE
  /\ owner' = CASE owner = "wakeSeen"  -> "running"
                [] owner = "drainWake" -> "draining"
                [] owner = "final"     -> "closing"
  /\ UNCHANGED <<admissionVars, channel, rxOpen, stateVars, threadVars>>

\* close_admission waits for the emit in progress.
CloseAdmission ==
  /\ owner = "running"
  /\ emitter = None
  /\ admissionOpen' = FALSE
  /\ owner' = "draining"
  /\ UNCHANGED <<outcome, emitter, stage, bufferVars, channel, rxOpen, stateVars,
                 threadVars, received>>

DeferredIsIdle == ~drainerRunning /\ spill = <<>> /\ ~latched /\ inFlightLane = None

\* drain_daemon_shutdown_ingress: try_recv found the channel empty ...
ObserveEmpty ==
  /\ owner = "draining"
  /\ channel = <<>>
  /\ owner' = "checking"
  /\ UNCHANGED <<admissionVars, bufferVars, channel, rxOpen, stateVars, threadVars, received>>

\* ... then the deferred side is asked whether it is idle; if not, yield and
\* receive again ...
ObserveIdle ==
  /\ owner = "checking"
  /\ owner' = IF DeferredIsIdle THEN "confirming" ELSE "draining"
  /\ UNCHANGED <<admissionVars, bufferVars, channel, rxOpen, stateVars, threadVars, received>>

\* Variant: idle is taken for empty.
ConfirmEmptyUnchecked ==
  /\ owner = "confirming"
  /\ owner' = "final"
  /\ UNCHANGED <<admissionVars, bufferVars, channel, rxOpen, stateVars, threadVars, received>>

\* ... and the channel empty once more.
ConfirmEmpty ==
  /\ owner = "confirming"
  /\ channel = <<>>
  /\ owner' = "final"
  /\ UNCHANGED <<admissionVars, bufferVars, channel, rxOpen, stateVars, threadVars, received>>

\* event_rx.close().
CloseReceiver ==
  /\ owner = "closing"
  /\ rxOpen' = FALSE
  /\ owner' = "done"
  /\ UNCHANGED <<admissionVars, bufferVars, channel, stateVars, threadVars, received>>

\* The owner loop ends without its shutdown drain: the receiver is dropped.
DropReceiver ==
  /\ rxOpen
  /\ owner \in {"running", "wakeSeen"}
  /\ rxOpen' = FALSE
  /\ channel' = <<>>
  /\ owner' = "aborted"
  /\ UNCHANGED <<admissionVars, bufferVars, stateVars, threadVars, received>>

-----------------------------------------------------------------------------
Produce(e) ==
  \/ EmitMustDeliver(e) \/ EmitDirect(e) \/ EmitKeyed(e)
  \/ EmitRefused(e) \/ CallbackCancelled(e)

EmitSteps == OfferWake \/ OfferLatch
Drainer == DrainerPop \/ DrainerSend \/ DrainerComplete \/ DrainerMarkClosed
Shutdown == CloseAdmission \/ ObserveEmpty \/ ObserveIdle \/ ConfirmEmpty \/ CloseReceiver \/ DropReceiver
Owner == OwnerReceive \/ OwnerDrain

Next == (\E e \in Events : Produce(e)) \/ EmitSteps \/ Drainer \/ Owner \/ Shutdown

Spec == Init /\ [][Next]_vars

\* The drainer is an OS thread and an emit in progress runs on its producer's
\* thread; the owner loop keeps receiving, and its shutdown drain runs through.
FairSpec ==
  /\ Spec
  /\ WF_vars(Drainer)
  /\ WF_vars(EmitSteps)
  /\ WF_vars(Owner)
  /\ WF_vars(ObserveEmpty \/ ObserveIdle \/ ConfirmEmpty \/ CloseReceiver)

-----------------------------------------------------------------------------
(* What the ingress promises *)

\* The accepted events the owner has not taken, in the order it will take
\* them: the latched wake keeps its place behind what was queued before it.
QueueOf(s, withWake, before) ==
  IF withWake
  THEN SubSeq(s, 1, before) \o (<<Wake>> \o SubSeq(s, before + 1, Len(s)))
  ELSE s
Queued == QueueOf(spill, latched, remainingBefore)
InHand == IF thread = "sending" THEN <<hand>> ELSE <<>>
Pipeline == IF rxOpen THEN channel \o (InHand \o Queued) ELSE <<>>

Mailbox == INSTANCE OwnerMailbox WITH mailbox <- Pipeline, alive <- rxOpen

\* Channel, drainer hand, spill queue and latch together behave as one FIFO
\* mailbox: no producer overtakes a deferred event, nothing accepted is lost
\* or doubled while the receiver lives (delivery.rs, admit and try_direct
\* under one lock).
ImplementsMailbox == Mailbox!Spec

\* A drainer thread owns whatever is deferred: nothing sits in the spill
\* queue or the latch without a thread that will deliver it, and there is
\* never a second thread (drainer_running latch of DeferredQueue).
DeferredIsOwned ==
  /\ (spill # <<>> \/ latched \/ inFlightLane # None) => drainerRunning
  /\ drainerRunning => thread # "none"

\* The wake of a non-empty generation of keyed values is never lost: while
\* wake_pending suppresses further wakes, one is on its way to the owner or
\* the emit that owes it has not returned, and a later refused wake never
\* leaves a value whose producer was told Coalesced with no wake to come
\* (emit_coalesced).
WakeInFlight ==
  \/ \E i \in DOMAIN channel : channel[i] = Wake
  \/ \E i \in DOMAIN spill : spill[i] = Wake
  \/ hand = Wake
  \/ latched
  \/ emitter # None
  \/ owner \in {"wakeSeen", "drainWake"}
CoalescedIsAnnounced ==
  (\E i \in DOMAIN buffer : outcome[buffer[i]] = "coalesced") => wakePending
WakeIsNeverLost ==
  /\ rxOpen /\ wakePending => WakeInFlight
  /\ CoalescedIsAnnounced

\* Work that is queued or in the drainer's hand leaves the reserve to
\* control events, and the spill queue keeps its bound with the event in
\* hand counted (has_capacity, complete_in_flight).
NonControlHeld ==
  Cardinality({i \in DOMAIN spill : LaneOf(spill[i]) # "control"})
    + (IF inFlightLane \in {None, "control"} THEN 0 ELSE 1)
ReserveIsKept ==
  /\ Len(spill) + (IF inFlightLane = None THEN 0 ELSE 1) <= SpillCap
  /\ NonControlHeld + ControlReserve <= SpillCap \/ NonControlHeld = 0

\* After the daemon's shutdown drain nothing accepted is left anywhere: each
\* event was received, or was a keyed value displaced before it was drained
\* (drain_daemon_shutdown_ingress).
ShutdownLosesNothing ==
  owner = "done" =>
    /\ buffer = <<>> /\ channel = <<>> /\ spill = <<>> /\ ~latched /\ thread = "none"
    /\ \A e \in Events : outcome[e] \in {"enqueued", "deferred"} => e \in received

\* An accepted one-shot value leaves the buffer only to the owner, to a newer
\* accepted value of its own key, or with the owner's queue itself
\* (LatestEventClass::Protected).
ProtectedStays ==
  \A i \in DOMAIN buffer :
    LET e == buffer[i] IN
      Class(e) = "protected" /\ outcome[e] = "coalesced" =>
        \/ e \in {buffer'[j] : j \in DOMAIN buffer'}
        \/ e \in received'
        \/ ~rxOpen
        \/ \E j \in DOMAIN buffer' :
             Key[buffer'[j]] = Key[e] /\ outcome'[buffer'[j]] = "coalesced"
ProtectedIsNeverRevoked == [][ProtectedStays]_vars

\* An event accepted into the channel or the spill queue reaches the owner
\* unless the owner goes away.
AcceptedIsReceived ==
  \A e \in Events :
    outcome[e] \in {"enqueued", "deferred"} ~> (e \in received \/ ~rxOpen)

\* A buffered accepted value is drained or displaced: its wake arrives.
CoalescedIsDrained ==
  \A e \in Events :
    outcome[e] = "coalesced" /\ e \in {buffer[i] : i \in DOMAIN buffer}
      ~> (e \notin {buffer[i] : i \in DOMAIN buffer} \/ ~rxOpen)

\* A shutdown drain ends although producers keep their sender handles.
ShutdownEnds == owner = "draining" ~> owner = "done"
=============================================================================
