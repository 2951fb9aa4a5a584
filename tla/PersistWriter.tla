--------------------------- MODULE PersistWriter ----------------------------
(***************************************************************************)
(* The persistence of one store: the handle that accepts snapshots         *)
(* (persist/handle.rs), the background writer (persist.rs, run_actor), the *)
(* ordered fallback of an orderly quit (persist/ordered_fallback.rs), the  *)
(* panic hook with its shadow of what is not durable yet (persist/         *)
(* panic_shadow.rs, panic_hook.rs), and recovery (persist/recovery.rs).    *)
(*                                                                         *)
(* A snapshot is the order in which it was accepted; a later process has a *)
(* greater epoch, so its orders are greater.  On disk a store has          *)
(*   store     the snapshot in the file itself,                            *)
(*   sidecars  immutable snapshots that an intent may name,                *)
(*   journal   the greatest committed order and at most one candidate, an  *)
(*             intent above it; 0 stands for none.                         *)
(* Every file is replaced atomically in one directory.  A replacement      *)
(* succeeds and is synced, fails before its effect, or fails after it,     *)
(* visible but not synced: a loss of power may then bring back what was    *)
(* there, until a later sync of the directory.                             *)
(***************************************************************************)
EXTENDS Naturals, FiniteSets

CONSTANTS MaxOrder,   \* bound: snapshots accepted by all processes
          MaxFaults,  \* bound: replacements that fail
          Losable     \* power is lost only up to this many failures

ASSUME BoundsAssumption == {MaxOrder, MaxFaults, Losable} \subseteq Nat

VARIABLES disk,       \* what is visible: store, sidecars, journal
          risk,       \* what a loss of power may undo
          faults,     \* failed replacements so far
          phase,      \* of the process: down, loading, up
          accepted,   \* the order accepted last, by any process
          born,       \* the same when the process started
          open,       \* SnapshotAdmission::Open
          pending,    \* PendingQueue: newest accepted operation not taken
          latest,     \* PendingQueue.latest_accepted
          inflight,   \* SharedInflight
          shadow,     \* PanicShadow: newest operation not durable yet
          sealed,     \* PanicShadowPhase::Sealed
          actor,      \* the writer task: its request and where it is in it
          ledger,     \* CompletionLedger
          job,        \* a durable write in progress, for each writer
          promised    \* history: greatest order somebody was told is durable

memory == <<accepted, born, open, pending, latest, inflight, shadow, sealed,
            actor, ledger>>
vars == <<disk, risk, faults, phase, memory, job, promised>>

Writers == {"actor", "fallback", "hook", "loader"}
Orders == 1 .. MaxOrder
Nothing == [order |-> 0, journaled |-> FALSE]
Resting == [op |-> 0, goal |-> "write", at |-> "rest", journaled |-> FALSE,
            created |-> FALSE]
Idle == [request |-> "none", target |-> 0, stage |-> "rest"]
Settled == [journals |-> {}, stores |-> {}, sidecars |-> {}]
Greater(a, b) == IF a > b THEN a ELSE b

Init ==
    /\ disk = [store |-> 0, sidecars |-> {},
               journal |-> [frontier |-> 0, candidate |-> 0]]
    /\ risk = Settled
    /\ faults = 0
    /\ phase = "up"
    /\ accepted = 0 /\ born = 0
    /\ open = TRUE
    /\ pending = Nothing
    /\ latest = 0 /\ inflight = 0 /\ shadow = 0
    /\ sealed = FALSE
    /\ actor = Idle
    /\ ledger = [frontier |-> 0, exact |-> {}]
    /\ job = [w \in Writers |-> Resting]
    /\ promised = 0

-----------------------------------------------------------------------------
(* The disk.                                                               *)

\* A slot once everything up to an order is settled (clear_through), and once
\* exactly that order is (remove_inflight_if_order).
Through(slot, order) == IF slot <= order THEN 0 ELSE slot
Except(slot, order) == IF slot = order THEN 0 ELSE slot

\* parse_journal_state of the compacted journal and one more record.
Recorded(order) ==
    LET j == disk.journal IN
    IF order > Greater(j.frontier, j.candidate)
    THEN [j EXCEPT !.candidate = order] ELSE j
Committed(order) ==
    LET f == Greater(disk.journal.frontier, order) IN
    [frontier |-> f, candidate |-> Through(disk.journal.candidate, f)]

\* verify_intent_state.
IsCurrent(j, order) == j.candidate = order
IsSuperseded(j, order) ==
    j.candidate # order /\ (j.frontier >= order \/ j.candidate > order)

\* Fallible steps end well, or count as a failure.
Ways == {way \in {"ok", "before", "after"} : way = "ok" \/ faults < MaxFaults}
Count(way) == faults' = faults + (IF way = "ok" THEN 0 ELSE 1)

\* write_immutable_sidecar: a sidecar that is there is neither written nor
\* synced again.
PutSidecar(order, way) ==
    IF order \in disk.sidecars
    THEN way = "ok" /\ UNCHANGED <<disk, risk>>
    ELSE /\ disk' = IF way = "before" THEN disk
                    ELSE [disk EXCEPT !.sidecars = @ \cup {order}]
         /\ risk' = CASE way = "ok" -> Settled
                      [] way = "before" -> risk
                      [] way = "after" -> [risk EXCEPT !.sidecars = @ \cup {order}]

\* cleanup_journal_sidecars*_locked: after a confirmed replacement the visible
\* candidate keeps its sidecar; after a failed one the previous one does too.
\* Variant: only what the journal shows is kept.
RetainedObserved(previous, observed, way) == {observed.candidate}
Retained(previous, observed, way) ==
    IF way = "ok" THEN {observed.candidate}
    ELSE {previous.candidate, observed.candidate}

\* replace_journal_with_record_locked.
ReplaceJournal(desired, way) ==
    LET observed == IF way = "before" THEN disk.journal ELSE desired IN
    /\ disk' = [disk EXCEPT !.journal = observed,
                  !.sidecars = @ \cap Retained(disk.journal, observed, way)]
    /\ risk' = CASE way = "ok" -> Settled
                 [] way = "before" -> risk
                 [] way = "after" -> [risk EXCEPT !.journals = @ \cup {disk.journal}]

ReplaceStore(order, way) ==
    /\ disk' = IF way = "before" THEN disk ELSE [disk EXCEPT !.store = order]
    /\ risk' = CASE way = "ok" -> Settled
                 [] way = "before" -> risk
                 [] way = "after" -> [risk EXCEPT !.stores = @ \cup {disk.store}]

-----------------------------------------------------------------------------
(* One durable write, by any of the writers, under the intent lock of the  *)
(* store: the sidecar, the intent, the store, the commit.                  *)

Moves(w, at) == job' = [job EXCEPT ![w].at = at]
Holds(w) == job[w].at \in {"intent", "store", "commit"}
LockFree == \A w \in Writers : ~Holds(w)

\* acquire_intent_lock gives up after a while.
LockTimesOut(w) ==
    /\ job[w].at \in {"sidecar", "verify"} /\ ~LockFree
    /\ Moves(w, "failed")
    /\ UNCHANGED <<disk, risk, faults, phase, memory, promised>>

\* With the lock, prepare_journal_record.
Prepare(w) ==
    /\ job[w].at = "sidecar" /\ LockFree
    /\ \E way \in Ways :
         /\ PutSidecar(job[w].op, way)
         /\ Count(way)
         /\ job' = [job EXCEPT ![w].at = IF way = "ok" THEN "intent" ELSE "failed",
                               ![w].created = job[w].op \notin disk.sidecars]
    /\ UNCHANGED <<phase, memory, promised>>

\* write_journal_intent_if_current finds that the operation was replaced in
\* the queue while its sidecar was written.
Stale(w) ==
    /\ job[w].at = "intent" /\ job[w].goal = "journal"
    /\ pending.order # job[w].op
    /\ disk' = IF job[w].created
               THEN [disk EXCEPT !.sidecars = @ \ {job[w].op}] ELSE disk
    /\ Moves(w, "failed")
    /\ UNCHANGED <<risk, faults, phase, memory, promised>>

\* The record replaces the journal; a newer one found there settles the
\* operation.
Intend(w) ==
    /\ job[w].at = "intent"
    /\ job[w].goal = "journal" => pending.order = job[w].op
    /\ \E way \in Ways :
         /\ ReplaceJournal(Recorded(job[w].op), way)
         /\ Count(way)
         /\ Moves(w, IF way # "ok" THEN "failed"
                     ELSE IF IsSuperseded(Recorded(job[w].op), job[w].op)
                             \/ job[w].goal = "journal"
                     THEN "done" ELSE "store")
    /\ UNCHANGED <<phase, memory, promised>>

\* write_operation_durable_using with an intent written earlier.
Verify(w) ==
    /\ job[w].at = "verify" /\ LockFree
    /\ Moves(w, IF IsCurrent(disk.journal, job[w].op) THEN "store"
                ELSE IF IsSuperseded(disk.journal, job[w].op) THEN "done"
                ELSE "failed")
    /\ UNCHANGED <<disk, risk, faults, phase, memory, promised>>

WriteStore(w) ==
    /\ job[w].at = "store"
    /\ \E way \in Ways :
         /\ ReplaceStore(job[w].op, way)
         /\ Count(way)
         /\ Moves(w, IF way = "ok" THEN "commit" ELSE "failed")
    /\ UNCHANGED <<phase, memory, promised>>

\* commit_journal_generation_locked.
Commit(w) ==
    /\ job[w].at = "commit"
    /\ \E way \in Ways :
         /\ ReplaceJournal(Committed(job[w].op), way)
         /\ Count(way)
         /\ Moves(w, IF way = "ok" THEN "done" ELSE "failed")
    /\ UNCHANGED <<phase, memory, promised>>

-----------------------------------------------------------------------------
(* The handle.                                                             *)

\* A new order replaces the pending operation and enters the panic shadow.
Accept ==
    /\ accepted < MaxOrder
    /\ accepted' = accepted + 1
    /\ pending' = [order |-> accepted + 1, journaled |-> FALSE]
    /\ latest' = accepted + 1
    /\ shadow' = accepted + 1

\* queue_snapshot.
Save ==
    /\ phase = "up" /\ open /\ ~sealed
    /\ Accept
    /\ UNCHANGED <<disk, risk, faults, phase, born, open, inflight, sealed,
                   actor, ledger, job, promised>>

\* seal_with_snapshots: the owner's last snapshot closes admission.
Seal ==
    /\ phase = "up" /\ open
    /\ open' = FALSE
    /\ IF sealed THEN UNCHANGED <<accepted, pending, latest, shadow>> ELSE Accept
    /\ UNCHANGED <<disk, risk, faults, phase, born, inflight, sealed,
                   actor, ledger, job, promised>>

-----------------------------------------------------------------------------
(* The writer task.                                                        *)

ActorIs(stage) == phase = "up" /\ actor.stage = stage /\ job["actor"].at = "rest"

\* A flush, a flush of one target, a wake-up for new work, or a timer.
Take ==
    /\ ActorIs("rest")
    /\ \/ actor' = [request |-> "flush", target |-> 0, stage |-> "journal"]
       \/ \E o \in born + 1 .. latest :
            actor' = [request |-> "target", target |-> o, stage |-> "journal"]
       \/ /\ pending # Nothing
          /\ actor' = [request |-> "dirty", target |-> 0, stage |-> "journal"]
       \/ /\ pending # Nothing
          /\ actor' = [request |-> "due", target |-> 0, stage |-> "write"]
    /\ UNCHANGED <<disk, risk, faults, phase, accepted, born, open, pending,
                   latest, inflight, shadow, sealed, ledger, job, promised>>

AfterJournal == IF actor.request = "dirty" THEN Idle
                ELSE [actor EXCEPT !.stage = "write"]

\* journal_pending_operations.
Journal ==
    /\ ActorIs("journal")
    /\ IF pending.order # 0 /\ ~pending.journaled
       THEN /\ job' = [job EXCEPT !["actor"] = [Resting EXCEPT
                          !.op = pending.order, !.goal = "journal", !.at = "sidecar"]]
            /\ UNCHANGED actor
       ELSE actor' = AfterJournal /\ UNCHANGED job
    /\ UNCHANGED <<disk, risk, faults, phase, accepted, born, open, pending,
                   latest, inflight, shadow, sealed, ledger, promised>>

\* The completion counts only if the operation is still the pending one.
Journaled ==
    LET a == job["actor"] IN
    /\ a.goal = "journal" /\ a.at \in {"done", "failed"}
    /\ pending' = IF a.at = "done" /\ pending.order = a.op
                  THEN [pending EXCEPT !.journaled = TRUE] ELSE pending
    /\ job' = [job EXCEPT !["actor"] = Resting]
    /\ actor' = AfterJournal
    /\ UNCHANGED <<disk, risk, faults, phase, accepted, born, open, latest,
                   inflight, shadow, sealed, ledger, promised>>

\* write_stores_with_inflight_tracking: ownership first, the queue after.
Own ==
    /\ ActorIs("write")
    /\ IF pending = Nothing
       THEN actor' = [actor EXCEPT !.stage = "answer"]
            /\ UNCHANGED <<shadow, inflight, job>>
       ELSE /\ shadow' = IF sealed THEN shadow ELSE Greater(shadow, pending.order)
            /\ inflight' = Greater(inflight, pending.order)
            /\ job' = [job EXCEPT !["actor"] = [Resting EXCEPT
                          !.op = pending.order, !.at = "owned"]]
            /\ UNCHANGED actor
    /\ UNCHANGED <<disk, risk, faults, phase, accepted, born, open, pending,
                   latest, sealed, ledger, promised>>

\* A snapshot accepted in between is left for the next turn.
TakeOperation ==
    LET a == job["actor"] IN
    /\ a.at = "owned"
    /\ IF pending.order = a.op
       THEN /\ pending' = Nothing
            /\ job' = [job EXCEPT !["actor"].at =
                          IF pending.journaled THEN "verify" ELSE "sidecar",
                                  !["actor"].journaled = pending.journaled]
            /\ UNCHANGED <<inflight, actor>>
       ELSE /\ inflight' = Except(inflight, a.op)
            /\ job' = [job EXCEPT !["actor"] = Resting]
            /\ actor' = [actor EXCEPT !.stage = "answer"]
            /\ UNCHANGED pending
    /\ UNCHANGED <<disk, risk, faults, phase, accepted, born, open, latest,
                   shadow, sealed, ledger, promised>>

\* clear_through: a newer operation stays in the shadow.
\* Variant: the whole shadow is cleared.
ClearedWhole(slot, order) == 0
Cleared(slot, order) == Through(slot, order)

Written ==
    LET a == job["actor"] IN
    /\ a.goal = "write" /\ a.at = "done"
    /\ inflight' = Except(inflight, a.op)
    /\ shadow' = Cleared(shadow, a.op)
    /\ ledger' = [frontier |-> Greater(ledger.frontier, a.op),
                  exact |-> ledger.exact \cup {a.op}]
    /\ job' = [job EXCEPT !["actor"] = Resting]
    /\ actor' = [actor EXCEPT !.stage = "answer"]
    /\ UNCHANGED <<disk, risk, faults, phase, accepted, born, open, pending,
                   latest, sealed, promised>>

\* requeue_failed_operation: unless a newer one is pending already.
WriteFailed ==
    LET a == job["actor"] IN
    /\ a.goal = "write" /\ a.at = "failed"
    /\ pending' = IF pending # Nothing THEN pending
                  ELSE [order |-> a.op, journaled |-> a.journaled]
    /\ inflight' = Except(inflight, a.op)
    /\ job' = [job EXCEPT !["actor"] = Resting]
    /\ actor' = [actor EXCEPT !.stage = "answer"]
    /\ UNCHANGED <<disk, risk, faults, phase, accepted, born, open, latest,
                   shadow, sealed, ledger, promised>>

\* CompletionLedger::outcome.
\* Variant: what the queue accepted since is not consulted.
OutcomeOfLedger(o) ==
    IF ledger.frontier > o THEN "superseded"
    ELSE IF o \in ledger.exact THEN "exact" ELSE "unconfirmed"
Outcome(o) ==
    IF latest > o /\ latest > ledger.frontier THEN "unconfirmed"
    ELSE IF ledger.frontier > o THEN "superseded"
    ELSE IF latest = o /\ ledger.frontier = o /\ o \in ledger.exact THEN "exact"
    ELSE "unconfirmed"

\* What the caller of flush or flush_target is told.
Answered ==
    CASE actor.request = "flush" /\ pending = Nothing /\ inflight = 0 -> latest
      [] actor.request = "target" /\ Outcome(actor.target) # "unconfirmed" -> actor.target
      [] OTHER -> 0
Answer ==
    /\ ActorIs("answer")
    /\ promised' = Greater(promised, Answered)
    /\ actor' = Idle
    /\ UNCHANGED <<disk, risk, faults, phase, accepted, born, open, pending,
                   latest, inflight, shadow, sealed, ledger, job>>

-----------------------------------------------------------------------------
(* The fallback of a quit whose flush was not clean, and the panic hook.   *)

Starts(w, op) == job' = [job EXCEPT ![w] = [Resting EXCEPT !.op = op, !.at = "sidecar"]]

FallbackStarts ==
    /\ phase = "up" /\ ~open /\ shadow # 0 /\ job["fallback"] = Resting
    /\ Starts("fallback", shadow)
    /\ UNCHANGED <<disk, risk, faults, phase, memory, promised>>

\* fallback_newest_owned; its caller may have given up waiting.
FallbackEnds ==
    LET f == job["fallback"] IN
    /\ f.at \in {"done", "failed"}
    /\ job' = [job EXCEPT !["fallback"] = Resting]
    /\ \/ /\ f.at = "done"
          /\ pending' = IF pending.order = f.op THEN Nothing ELSE pending
          /\ inflight' = Except(inflight, f.op)
          /\ shadow' = Cleared(shadow, f.op)
          /\ promised' = Greater(promised, f.op)
       \/ UNCHANGED <<pending, inflight, shadow, promised>>
    /\ UNCHANGED <<disk, risk, faults, phase, accepted, born, open, latest,
                   sealed, actor, ledger>>

\* install_panic_flush: the shadow is sealed once, its operation written.
Panic ==
    /\ phase = "up" /\ ~sealed
    /\ sealed' = TRUE
    /\ IF shadow = 0 THEN Moves("hook", "done") ELSE Starts("hook", shadow)
    /\ UNCHANGED <<disk, risk, faults, phase, accepted, born, open, pending,
                   latest, inflight, shadow, actor, ledger, promised>>

\* The process is gone with everything it knew.
Die ==
    /\ phase' = "down"
    /\ open' = TRUE /\ sealed' = FALSE
    /\ pending' = Nothing
    /\ latest' = 0 /\ inflight' = 0 /\ shadow' = 0
    /\ actor' = Idle
    /\ ledger' = [frontier |-> 0, exact |-> {}]
    /\ job' = [w \in Writers |-> Resting]
    /\ UNCHANGED <<accepted, born>>

\* After the hook the process aborts; the hook wrote all that was accepted.
PanicEnds ==
    /\ job["hook"].at \in {"done", "failed"}
    /\ promised' = IF job["hook"].at = "done" THEN Greater(promised, latest)
                   ELSE promised
    /\ Die
    /\ UNCHANGED <<disk, risk, faults>>

-----------------------------------------------------------------------------
(* The end of a process, and the start of the next.                        *)

Crash ==
    /\ phase # "down"
    /\ Die
    /\ UNCHANGED <<disk, risk, faults, promised>>

\* The disk that a loss of power may leave.
Disks ==
    IF faults > Losable THEN {disk}
    ELSE {[journal |-> j, store |-> s, sidecars |-> disk.sidecars \ lost] :
            j \in {disk.journal} \cup risk.journals,
            s \in {disk.store} \cup risk.stores,
            lost \in SUBSET risk.sidecars}

PowerLoss ==
    /\ risk # Settled
    /\ disk' \in Disks
    /\ risk' = Settled
    /\ Die
    /\ UNCHANGED <<faults, promised>>

Readable(d) == d.journal.candidate \in d.sidecars \cup {0}
Loaded(d) == IF d.journal.candidate = 0 THEN d.store ELSE d.journal.candidate

\* load_with_journal_recovery: a candidate is used, and stays the candidate;
\* the configuration installs and settles it (install_and_settle).
Start ==
    /\ phase = "down" /\ Readable(disk)
    /\ born' = accepted
    /\ \/ phase' = "up" /\ UNCHANGED job
       \/ /\ disk.journal.candidate # 0
          /\ phase' = "loading"
          /\ job' = [job EXCEPT !["loader"] = [Resting EXCEPT
                        !.op = disk.journal.candidate, !.at = "store"]]
    /\ UNCHANGED <<disk, risk, faults, accepted, open, pending, latest, inflight,
                   shadow, sealed, actor, ledger, promised>>

StartEnds ==
    /\ job["loader"].at \in {"done", "failed"}
    /\ phase' = "up"
    /\ job' = [job EXCEPT !["loader"] = Resting]
    /\ UNCHANGED <<disk, risk, faults, memory, promised>>

Next ==
    \/ Save \/ Seal
    \/ Take \/ Journal \/ Journaled \/ Own \/ TakeOperation
    \/ Written \/ WriteFailed \/ Answer
    \/ FallbackStarts \/ FallbackEnds \/ Panic \/ PanicEnds
    \/ \E w \in Writers :
         \/ LockTimesOut(w) \/ Prepare(w) \/ Stale(w) \/ Intend(w)
         \/ Verify(w) \/ WriteStore(w) \/ Commit(w)
    \/ Crash \/ PowerLoss \/ Start \/ StartEnds

Spec == Init /\ [][Next]_vars

-----------------------------------------------------------------------------
(* Properties.                                                             *)

\* Whatever way the process or the machine ends now, the next start can read
\* the store and finds the snapshot of this order or a newer one.
Survives(order) == \A d \in Disks : Readable(d) /\ Loaded(d) >= order

\* What a flush, a targeted flush, the quit fallback or the panic hook reported
\* durable survives every crash, failed replacement and loss of power
\* (persist/ordered_fallback.rs:34, persist.rs:808).
AnsweredSurvives == Survives(promised)

\* The newest accepted snapshot is durable or owned by the panic hook at every
\* moment of its way through queue, writer and retries: a panic loses nothing
\* (persist/snapshot_state.rs:193).
PanicOwnsTheNewest ==
    phase = "up" =>
        Survives(latest) \/ shadow = latest \/ (sealed /\ job["hook"].op = latest)

\* A caller that is told its snapshot was committed exactly finds exactly it in
\* the store; a newer one is never reported so (persist/handle.rs:206).
ExactIsExact ==
    ActorIs("answer") /\ actor.request = "target" /\ Outcome(actor.target) = "exact"
        => \A d \in Disks : d.store = actor.target
=============================================================================
