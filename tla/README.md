# YuTuTui: a formal model of its core

YuTuTui is a terminal music player written in Rust. One *owner loop* (the
terminal program's, or the headless daemon's) holds the playback state; every
other thread, task and process reaches it only through bounded queues, and the
durable files are shared between processes through advisory locks. This
directory models the parts of that machinery whose correctness depends on
interleavings, capacity limits, failed I/O, retries, crashes and shutdown
order, checks them with TLC on small instances and proves the main results
with TLAPS for every value of the constants.

Paths are relative to the repository root; its main crate is `src/`.

## 1. The system and its parts

```
 mpv (child process)       remote clients   OS media callbacks   background tasks
        | JSON IPC              | socket           |                   |
  player actor            remote server       media adapters     heal, resolve, search,
 (PlayerLifecycle)      (RemoteRequests)           |             download, sync, ...
        \                       |                  |                   |
         \______________________|__________________|___________________/
                                |
                     owner event ingress  (OwnerIngress)
                                |
              owner loop: terminal App  or  daemon engine
               |  queue (PlayQueue)          |  DaemonPlayback
               |  track transitions (TrackTransition)
               |
     scrobble actor (ScrobbleQueue) --- file, lock --- other processes
               |                    \
        Last.fm, ListenBrainz        music-server bridge --- server
               |
     persistence writer (PersistWriter) --- files --- quit fallback, panic hook, recovery
     personal-state ledger, sync, downloads, recorder
```

| Component | Source | State it keeps | Operations | What is hard | What makes it correct |
|---|---|---|---|---|---|
| owner event ingress | `src/util/delivery*`, `src/util/event_policy.rs`, `src/daemon/shutdown_drain.rs` | admission flag, latest-value buffer, channel, spill queue, wake latch, drainer thread | emit under four policies, callback retry, drain, close, shutdown drain | producers, drainer and owner interleave between lock regions; threads fail to spawn; queues fill; shutdown | acceptance order is delivery order; nothing accepted is lost while the receiver lives; a reserve for control events; shutdown ends and drains |
| play queue | `src/queue.rs`, `src/queue/mutation.rs` | tracks, play order, cursor, shuffle, repeat, revision | append, insert next, drag, remove, purge, shuffle, next, previous, restore | two index-linked vectors under long edit sequences; corrupt snapshots; two owners with two removal routines | the order is a permutation; no edit moves the playing row; the owners agree |
| app track transitions | `src/app/track_transition*`, `src/app/mode_transition.rs` | one deferred plan, the loaded track, mode and stashes | prepare, admit, reject, edits that need no player | a plan waits while mpv restarts and the queue goes on changing | an admitted plan was made from this queue; what is loaded is what the queue shows |
| daemon playback engine | `src/daemon/engine*`, `src/daemon/engine/` | queue, player handle, loaded item, heal and retry marks, recovery | remote and media commands, player events, task results | events outlive their player; starts and loads fail half way; recovery timers | bounded restarts, the lost track is replayed, errors are handled until the track is left |
| scrobble queue and flusher | `src/scrobble/actor*`, `src/scrobble/queue*` | JSONL file, drop audit, lock, retained appends, unconfirmed compaction, bridge confirmations | append, retry, settle, deliver, rewrite | failed I/O on either side of its effect, crashes, several processes, two caps | no filed listen is lost; no repeat without uncertainty; an exposed event stays protected |
| terminal runtime and player delivery | `src/terminal_runtime`, `src/runtime` | player phase, startup slot, restore batch, one deferred intent | ready, closed, restart, shutdown, dispatch | start, restart and shutdown race deferred intents; a close carries no player | what is shown is what plays; a late close hits nobody; no process outlives the program; deferred intents settle |
| player actor, decks, guardian | `src/player` | IPC state, two decks, process group | load, seek, fade, close | two mpv processes per fade; a crash of the parent | one close per lifetime; no orphan process |
| remote control | `src/remote` | sessions, request registry, published state | connect, request, retry, publish | lost replies, slow readers, full tables, a replaced owner | a repeated request is applied once; what a client is told is true; the budgets balance |
| persistence writer | `src/persist*` | pending and running saves, panic shadow, completion ledger; journal, sidecars, store | save, flush, fall back, panic, recover, hand over | crash between sidecar, intent, replacement and commit; four writers of one store; ambiguous failures | what was reported durable is found again; the newest snapshot always has an owner; an exact confirmation is exact |
| personal state and sync | `src/personal_state`, `src/sync` | ledger, membership, checkpoints | record, merge, compact, pair, recover | concurrent devices, interrupted commits | merges commute; a checkpoint never loses an acknowledged record |
| music-server bridge | `src/open_subsonic` | durable rows, tombstones, playlists in creation | accept, submit, acknowledge, retire | crash between stages; ambiguous answers | exactly once per listen |
| transfer, downloads, recorder | `src/transfer`, `src/download*`, `src/recorder` | job checkpoints, children, outboxes | start, resume, cancel | kill and resume | no lost result, no adopted foreign file |
| everything else | see `components` in `PROJECT.json` | | | sequential, presentation, or pure I/O | |

`PROJECT.json` lists every component with its status, and under `hazards` what
is hard to test in this code, at its line, with the properties that watch it.

## 2. Modules

| Module | What it is |
|---|---|
| `OwnerMailbox` | abstract specification: one FIFO mailbox |
| `OwnerIngress` | the ingress as the code has it; `Mailbox` maps it to `OwnerMailbox` |
| `OwnerIngress_proofs` | type correctness, ownership of deferred events, the refinement, wakes, one-shot values, shutdown, the reserve |
| `PlayList` | abstract specification: a list and a place in it |
| `PlayQueue` | the queue as the code has it: songs, order, cursor, and `prepare_*` mutations |
| `PlayQueue_proofs` | the order stays a permutation, edits refine `PlayList`, the removals agree, a lap meets every track |
| `TrackTransition` | extends PlayQueue: the deferred plan and its guard |
| `TrackTransition_proofs` | the guard identifies the whole queue; a mode switch keeps the live queue; the loaded track is current |
| `DaemonPlayback` | the daemon engine; uses `PlayQueue` for its queue edits |
| `DaemonPlayback_proofs` | bounded restarts, the lost track is replayed, refused commands, a sound queue, running stays current, nothing drops out of hand |
| `ScrobbleQueue` | the durable scrobble queue, its lock and one actor per process |
| `ScrobbleQueue_proofs` | type correctness, no filed listen lost, no repeat without uncertainty, exposed events protected, acknowledgements in order, markers fit |
| `RemoteRequests` | one-shot commands: clients that repeat, handlers, the registry of identities, the owner |
| `RemoteRequests_proofs` | at most one execution, what a client is told is true, the budgets balance |
| `PersistWriter` | one store: accepted snapshots, the writer, the quit fallback, the panic hook, the disk and recovery |
| `PersistWriter_proofs` | what was reported durable survives, the newest snapshot has an owner, exact reports are exact |
| `PlayerLifecycle` | the terminal owner's one player: startup slot, replacement, restore batch, deferred intent, latch |
| `PlayerLifecycle_proofs` | no process left, closes are the live player's own, what is shown is what plays |
| `MC...` | instances for TLC |

### Owner event ingress

`EmitMustDeliver`, `EmitDirect`, `EmitKeyed` and their continuations follow one
`emit` each, split where the code leaves a lock: `emit_coalesced` takes the
buffer lock, then the channel, then the deferred lock, so other threads act in
between. `Admit` is `admit_owned`; `DrainerPop`, `DrainerSend`,
`DrainerComplete` and `DrainerMarkClosed` are the drainer thread, whose event
in flight has left the queue but still counts against the capacity.
`StartDrainer` may fail. The owner loop is `OwnerReceive` with `OwnerDrain`; the
shutdown drain is `CloseAdmission`, `ObserveEmpty`, `ObserveIdle`,
`ConfirmEmpty`, `CloseReceiver`. Each event is emitted once; a callback may be
retried or cancelled while it waits.

### Play queue and track transitions

A queue is `[songs, order, cursor, shuffle, repeat]` with positions from 1; a
shuffle is any order that keeps the current row. Each mutator is an operator
from queues to queues (or to the set of possible queues), each prepared mutation
returns the queue and the playback decision the code returns. `Commit` mints a
revision exactly when the code does. `TrackTransition` keeps one plan with what
its guard compares, and `base`, a history copy of the queue it was made from.

### Daemon playback engine

A handler is an operator from the engine to the set of its outcomes, because
starts and loads may fail at each of their `?`. Players have a lifetime number;
their events wait in `inbox` behind commands, so they can outlive the player.
Heals, resolves and recovery timers are `tasks`, finished in any order.

### Scrobble queue

A process is a record: where it is between two awaits or two I/O operations
(`at`), its retained appends, the entries and services of the flush in hand, the
answers whose rewrite is not confirmed, the confirmations of the bridge and the
handles given out. Every I/O step has the outcomes the code distinguishes:
success, failure before its effect, failure after its effect, and for an append
a torn line. A crash resets the process; the file, the audit and what the
services have taken stay. Two ghosts record what was promised: `past.filed`
(obligations whose append was confirmed) and `past.exposed` (events handed to
the bridge), both without what was legitimately given up.

### Remote requests

Attempt `i` of client `c` is served by the handler `<<c, i>>`. `ReadRequest`
with `Begin` is the connection handler up to `CommandDeduper::begin`; `Emit`,
`EmitRefused` and `ForgetUnadmitted` are the three places where it leaves the
registry's lock, so that a retry may join an entry that is just being refused.
An entry is named by the handler that inserted it: an identity that was removed
and inserted again has another entry, which is what `Arc::ptr_eq` compares in
the code. `Complete` is `complete_retained` with its tiers. Budgets count
entries; bytes are not modelled. `Respond` joins the recheck of the admission
flag with the write of the answer. `DropRequest` stands for the connection limit
and for read errors. A client of a server without retained outcomes does not
repeat (it is no `Repeaters`). `Restart` is the end of the owner process and the
start of another one, which knows no identity.

### Persistence writer

A snapshot is the order in which it was accepted. Each write of a store takes
four steps on disk, each with the outcomes success, failure before and failure
after its effect: sidecar (`PutSidecar`), intent and commit (`ReplaceJournal`),
the file itself (`ReplaceStore`). `actor`, `fallback`, `hook` and `loader` are
the four writers that may be at different steps of the same store; the file lock
serializes them between intent and commit. `Accept` and `Save` are the handle;
`Take` to `Answered` are `run_actor`, split wherever the code leaves the lock of
the pending queue or of the shadow. `risk` keeps, for each kind of file, what a
loss of power may bring back until the directory is synced. `Panic`, `Die`,
`Crash` and `PowerLoss` end a process at any step; `Start` recovers.

### Player lifecycle

`life` is `RuntimePlayerLifecycle`, `startup` the slot of
`player_startup.rs`, `turn` the place of the owner loop in its select. A player
is one of two numbers, because one automatic restart is all there is; what the
commands sent so far make it play is `told`. `AdmitIntent`, `DeferIntent`,
`HandleClosed`, `FinishTurn`, `Install` and `StartFailed` are the owner's
handlers, `Spawn`, `Connect` and `StartupFails` the startup task, `ActorCloses`
and `ConductorNotices` the two sources of a `TransportClosed`, `Signal`,
`BeginShutdown` and `ReapStartup` the end. Which intents a plan holds exactly is
`TrackTransition`'s business: here a waiting plan may have gone stale at any
time, and that the loaded track is the current one when the restore batch is
built is its `LoadedIsCurrent`.

## 3. What each run checks

Every property has a mutant in `PROJECT.json`: a plausible bug in a mapped
definition that breaks it under the same configuration.

| Run | States | Shows |
|---|---|---|
| `ingress` | 2,715,799 | the mailbox refinement, the control reserve, wakes, one-shot values and the shutdown drain, with one channel slot, one spill slot, two buffer slots and seven events of every policy |
| `ingress_live` | 138,125 | what is accepted is received, what is coalesced is drained, the shutdown drain ends |
| `play_queue` | 5,736 | shape, abstract list, agreement of the three removals (the App's two and the daemon's), one lap meets every track |
| `track_transition` | 173,214 | a plan's guard identifies its queue, the loaded track is current, a mode switch keeps the live queue |
| `daemon` | 453,400 | refusals, recovery and resumes keep what runs and what the queue shows together; a failed track always has somebody who moves on, unless a load was refused |
| `daemon_recovery` | 278,460 | the restarts of one loss stay within the attempts; heals and recoveries end |
| `late_terminal` | violation | an end-of-file of a replaced player ends its successor's file |
| `scrobble` | 1,054,266 | nothing filed is lost, nothing is repeated without uncertainty, exposed events stay protected, protected markers fit, no early source acknowledgement |
| `retried_append` | violation | a retried append may conflict with its first line and block the queue |
| `remote_requests` | 2,606,056 | a command is executed at most once, what a client is told is true, the registry's budgets balance |
| `persist` | 4,609,828 | what was reported durable is found after any crash, the newest snapshot has an owner, an exact confirmation is exact |
| `player_lifecycle` | 19,727 | what is shown plays, no late close hits the replacement, no process is left; deferred intents and dead players are dealt with |

### The properties

*Ingress.* `ImplementsMailbox` is the refinement of `OwnerMailbox`.
`DeferredIsOwned`: what is deferred has a drainer thread. `ReserveIsKept`: work
never uses the slots kept for control events. `WakeIsNeverLost`: a value
accepted into the buffer is announced by a wake that somebody still owes. `ProtectedIsNeverRevoked`: an accepted one-shot value
is not given up for telemetry. `ShutdownLosesNothing`: the drain ends with
nothing accepted left behind. Liveness: `AcceptedIsReceived`,
`CoalescedIsDrained`, `ShutdownEnds`.

*Queue.* `QueueShape`, `EditsKeepThePlace` (refinement of `PlayList`, edit by
edit), `RemovalsAgree` (the App's and the daemon's), `OneLapMeetsEveryTrack`.

*Transitions.* `PlanGuardIsExact`: revision, cursor, current id and repeat
identify everything the plan read. `LoadedIsCurrent`, `SwitchKeepsLiveQueue`.

*Daemon.* `OnlyResumeSplits`, `RefusalKeepsQueueOrLeavesNoPlayer`,
`RecoveryReplaysTheLost`, `OnlyRefusalDropsTheTrack`, `RestartsAreBounded`,
`HealSettles`, `RecoverySettles`.

*Scrobbling.* `FiledIsNeverLost`: a filed obligation stays in the file until it
was taken or refused by its service, aged, handed to the bridge or audited as
dropped. `OnlyUncertaintyRepeats`: a service sees a listen twice only after a
lost answer or a crash between answer and rewrite, never after failed appends
and rewrites alone. `ExposedIsProtected`: what the bridge may have accepted is
marked on disk. `SourceFollowsBridge`: the acknowledgement that removes a marker
never precedes the one that promotes it. `ProtectedFit`: markers that no cap may
evict fit the cap, beyond which the file could no longer be loaded.

*Remote requests.* `AppliedOnce`: no command is executed twice, whatever was
lost, evicted, expired, refused or restarted between two attempts.
`VerdictIsTrue`: what a client is finally told is and stays true; it needs the
rule that a second answer counts only when it replays the first.
`BudgetsBalance`: the counters agree with the entries on every path, and the
room reserved at admission is there at completion, so a command that was
executed is never forgotten for lack of room.

*Persistence.* `AnsweredSurvives`: whatever disk a crash may leave, recovery
reads it and finds the newest snapshot that was reported durable, or a newer
one. `PanicOwnsTheNewest`: a panic at any moment finds the newest accepted
snapshot in the shadow, or it is already durable. `ExactIsExact`: a
confirmation for one order is never given for another.

*Player.* `ShownIsPlayed`: a live player was told to play what the App shows,
through restarts, replays and deferred intents. `NoStaleClose`: while a player
is live, every close on its way is its own. `PlayersAreReaped`: a running
process is held by the lifecycle or the slot, and none is left after the
teardown. Liveness: `DeferredSettles`, `DeadIsNoticed`.

### The findings

1. `late_terminal`: events of a player carry a file number that starts at 0 in
   every player, so a late one passes for its successor's.
2. `retried_append`: the overflow drop edits a retained entry whose first append
   is ambiguous; the retry writes another line under the same id, which the
   strict load refuses, and the queue is stuck.

### Observations without a run of their own

* The guard of a deferred cursor move compares revision, cursor and ids, not the
  repeat mode (`src/queue.rs:320`), and a repeat change mints no revision: a
  Next planned at the end of the queue is admitted after repeat-all was turned
  on.
* `TransportClosed` carries no lifetime. In the daemon
  (`src/daemon/engine/transport.rs:193`) a close that waits in the loop's queue
  while a command or a heal replaces the player retires the replacement. In the
  terminal program `NoStaleClose` holds because a startup takes its turn only
  when the queue of events is empty; one window of a few instructions is left
  between the look at `intentional_close` and the emission, which the model joins.
* The documentation of `TransportClosed` (`src/player/mod.rs:392`) promises at
  most one per actor lifetime; the conductor emits a second. A replacement that
  dies before it is ready has its close swallowed as a repetition, "Player
  connection restored" is shown, and the first command makes the conductor
  notice (`DeadIsNoticed`).
* `src/remote/requests.rs:50` takes 60 s of retention to outlast two attempts of
  22.5 s. `src/remote/mod.rs:36` and `:82` give export and sync commands reply
  windows of five and ten minutes; for those, at most once rests on a lost reply
  closing the connection at once. `RetentionAssumption` is the comment's.
* Two ambiguous failures and a loss of power are beyond the persistence
  protocol: with `Losable = 2`, `AnsweredSurvives` fails, when a second writer
  finds the sidecar of a failed directory sync and does not sync it again, or when two
  failed journal replacements in a row retire the sidecar that an older journal,
  which may be the durable one, still names. The comment at `src/persist.rs:808`
  means to keep it until a later confirmed write.

### Bounds and why they are enough

* Ingress: capacities 1 and 2 make full, reserved and empty states one step
  apart; two events of each interacting kind give every order of acceptance;
  one drainer exists at a time by construction of the code. `ingress_live` has
  two works of one lane, for the order behind a stuck drainer.
* Queue: three ids, tracks repeated, a cap of three and a block longer than the
  cap; four edits in a row (`MaxRev = 5`). Every index shift occurs with rows
  before, at and after the cursor.
* Transitions: two tracks, one never playable, two revisions while a plan waits:
  the guard compares one plan with the queue, so one plan is enough.
* Daemon: two players and two files per player for late events, four players in
  `daemon_recovery` so that replacements die repeatedly; `MaxFiles` and
  `MaxLives` are refused loads and failed starts, which the code allows at any
  time, so the bound adds no behaviour.
* Scrobbling: two processes, two listens against caps of one: every flush that
  sees two listens must evict. `MaxFaults = 2` combines any two failures.
  `BatchMax = 1` splits a backlog into chunks. `AppendFaults` is `torn` and
  `after` (a failure before the line is a retry that changes nothing but the
  lock, which `after` holds too). One service, which has the two-week rule;
  what lies beyond it is a free choice of each flush (`Horizons`).
  Processes are interchangeable, so they are a symmetry set.
* Remote: two clients and two interchangeable identities give every meeting of
  a repeated, a foreign and a fresh request; caps of one and two make the
  registry full with one outcome; a retention of three ticks against attempts of
  one is the smallest that keeps the assumption, and the clock reaches expiry.
  One owner replacement.
* Persistence: three snapshots (one running, one waiting, one newer), two
  failures, any number of crashes; power is lost after at most one failure
  (`Losable = 1`, see the observations).
* Player: two songs, four intents; there is only one replacement in the code, so
  two players are all there are.

`CHECK_DEADLOCK FALSE` stands where the system may stop: events are emitted
once, bounds end the rest.

### Fairness

Three specifications state fairness. `OwnerIngress!FairSpec`: weak fairness
of the drainer thread, of a started `emit`, of the owner loop's steps and of the
shutdown drain once admission is closed; the operating system schedules runnable
threads, and none of these waits for an event that may not come. No fairness is assumed of producers or of the start of
a shutdown. `DaemonPlayback!LiveSpec`: weak fairness of handling the loop's
queue and of finishing a background task; both are loops or tasks with timeouts.
No fairness of players, commands or successes is assumed.
`PlayerLifecycle!FairSpec`: weak fairness of the startup task (it has a
timeout), of the owner loop and of each player's actor and conductor threads;
none of users, signals or deaths. The scrobble queue has
no liveness property yet: a flush depends on timers and on services that may
never answer.

## 4. What is proved

All proofs are checked by TLAPS with SMT, Zenon and LS4 only.

`OwnerIngress_proofs`, for any events, policies and capacities
(`IngressAssumption`):

* `TypeCorrect`: `Spec => []TypeOK`.
* `DeferredAlwaysOwned`: `Spec => []DeferredIsOwned`. The inductive invariant is
  `Inv == TypeOK /\ DeferredShape /\ OwnerShape`. `DeferredShape` is needed
  because ownership is not inductive alone: it ties the drainer flag, the
  thread's position, the event in flight and the closed flag together.
* `IngressIsMailbox`: `Spec => ImplementsMailbox`. Initial states map to the
  empty mailbox and every step to `Accept`, `Take`, `Abandon` or a stutter. The
  mapping puts channel, event in flight and spill queue in a row and the latched
  wake at its sequence point inside it (`QueueOf`); lemmas about `QueueOf` say
  how an append, a latch and a pop change it.
* `WakeNeverLost`: `Spec => []WakeIsNeverLost`. `WakeOwed` adds that a wake
  which counts as pending is in channel, flight, latch or spill queue, and that
  between the two locks of `emit_coalesced` nothing in the buffer is promised
  yet.
* `ProtectedNeverRevoked`: `Spec => ProtectedIsNeverRevoked`, an action property:
  the only step that takes a value out of the buffer for another is `EmitKeyed`,
  whose victim is never a protected one, or is replaced by a newer value of its
  own key.
* `ShutdownIsLossless`: `Spec => []ShutdownLosesNothing`, from `Drained`, which
  says for each stage of the drain what it has established: no admission, then
  an idle deferred side, then an empty channel, then an empty buffer.
* `ReserveHolds`: `Spec => []ReserveIsKept`, from `ReserveExact`, which counts the
  event in flight.

`PlayQueue_proofs`, for any tracks, blocks, caps and snapshots, corrupt ones
included:

* `ShapeIsKept`: `Spec => []QueueShape`. The inductive invariant is `Sound(q)`,
  the first-order form of a permutation: every entry of the order is an index,
  none occurs twice, and they are as many as the tracks. Each edit has a lemma
  (`InsertedIsSound`, `RemovePosIs`, `MoveItemIs`, `RebuildOrderIs`, ...). The
  loop of a removal is a recursive function; `Swept` is its loop invariant,
  carried from the last row to the first by a least counterexample.
* `EditsRefinePlayList`: `Spec => EditsKeepThePlace`. Each edit is a step of
  `PlayList`: `PutBehind` (a block is inserted), `Cut` (rows go), `Rearranged`
  (the rest of the order is permuted) and `PutInstead` (the list is replaced)
  say of the two index vectors what `PlayList` says of one list. `Swept` also
  follows the tracks that stay, `Placed` the cursor, and
  `KeptPosition` counts that the row which had k removed rows before it is k
  places further up.
* `RemovalsAlwaysAgree`: `Spec => []RemovalsAgree`: purge, range removal and the
  daemon's removal are each computed on their own and found to be the same cut.
* `LapsMeetEveryTrack`: `Spec => []OneLapMeetsEveryTrack`, with the walk in closed
  form (`WalkIs`).

`TrackTransition_proofs`, for any tracks, caps and snapshots:

* `PlanGuardExact`: `TrackSpec => []PlanGuardIsExact`. The invariant says that
  the waiting plan's revision is at most the queue's and that equal revisions
  mean equal songs, order and shuffle (`PlanIsDated`); it is inductive because
  every change of those mints a fresh revision.
* `SwitchKeepsQueue`: `TrackSpec => SwitchKeepsLiveQueue`, from the same
  invariant: the snapshot the switch stashes was taken at a queue that its guard
  shows is the live one.
* `LoadedTrackIsShown`: `TrackSpec => []LoadedIsCurrent`. `PlayInv` adds that
  the queue, the plan's base and its result are sound and that the plan's song
  is the one at its target (`PlanIsSound`), and that what is stashed is a queue;
  the immediate edits keep the current track by the lemmas of
  `PlayQueue_proofs` (`CutKeepsCurrent` and its kin).

`DaemonPlayback_proofs`, for any tracks, limits and numbers of players, files
and failures (`DaemonAssumption`) and any persisted sessions that are queues,
sound or not (`SnapshotAssumption`): `RestartsStayBounded`,
`TheLostTrackIsReplayed` and `RefusalsAreClean` (`RestartsAreBounded`,
`RecoveryReplaysTheLost` and `RefusalKeepsQueueOrLeavesNoPlayer`). A handler is a
set of outcomes, so the argument is about outcomes: `Follows` says what any
handler but the recovery's may do to the recovery and to the number of players,
`Refuses` what a refused command may leave, `Attempted` what one attempt may do;
each is shown for the loads and carried up through every command, event and task
result (`StepsAre`). The bound is inductive only with `Counted`: no player has
been started while the recovery is armed, and at most one for each attempt.

* `EngineStaysWhole`: `Spec => []WholeInv`, the engine's queue is sound, whatever
  commands, events and restored sessions it meets, and its player is one or none.
* `RunningStaysCurrent`: `Spec => OnlyResumeSplits`. `Loads` says what a load
  may leave (what was playing with its track, or the queue and the player in
  agreement), `Keeps` what a handler may; both rest on what the queue operations
  keep current. `PlayQueue_proofs` is instantiated for the queue inside the
  engine (`Q`), so its lemmas are cited and not repeated; the `Same...` lemmas say
  that this instance and the one in the specification define the same operators.
* `NothingDropsOutOfHand`: `Spec => OnlyRefusalDropsTheTrack`. The property
  speaks of events and task results on their way, so the invariant (`HandInv`) is
  about those. `Told` says of the live player: if its transport has ended, its
  close is queued; its events carry files in the order they were sent, none newer
  than the last; and if it has stopped and any of its events are queued, its close
  or the end of its last file is among them. The last part is what lets a handler
  drop the event of an earlier file (`TailHand`); it holds although
  `event_is_current` compares the file and not the lifetime. `Idle` says that
  nothing is loaded during a recovery, so a failed attempt owes nothing. `Goes`
  says what a handler may do to the player (drop it, leave it, send it one more
  file, start another), which keeps `Told`; and every handler ends `Running`
  (nothing loaded, or playing while the transport lasts), `Waits` (all of it left
  alone), begins a task for the track (`Chases`), or is a refused command.

`ScrobbleQueue_proofs`, for any processes, services, caps, batch sizes, append
faults and numbers of listens and faults (`CapsAssumption`):

* `TypeCorrect`: `Spec => []TypeOK`, from the inductive `Base`, which the other
  three theorems use too. `Base` adds to the types who may hold the lock
  (`LockHeld`, `AcksRest`), that nothing is known of a listen to come (`Known`),
  and where a retained append may show up: in one process only (`PendApart`), on
  disk only as the oldest retained while its process holds the lock
  (`PendUnfiled`), and in no flush or answer (`PendUnsent`).
* `NoListenLost`: `Spec => []FiledIsNeverLost`. The invariant is not inductive
  alone, because the next rewrite replaces the file by what a flush holds:
  `Filed` asks the same of the entries of every flush (`FiledInFlush`) and that
  unconfirmed answers are real ones (`AnswersReal`).
* `SentOnce`: `Spec => []OnlyUncertaintyRepeats`. `Once` says where a taken
  listen may still be owed: in no retained append, in no flush, and in the file
  only while its answer waits for a rewrite, whose lock keeps every flush out.
* `ExposedStaysProtected`: `Spec => []ExposedIsProtected`, from `Replayable`,
  which asks the same of the entries of every flush.
* `SourceFollows`: `Spec => []SourceFollowsBridge`. `Following` says what a handle
  that was given out and a confirmation that was received mean for the lines on
  disk, for the entries of every flush and for what is still retained
  (`SeenStarted`, `PromisedDurable`, `SendsStarted`).
* `ProtectedAlwaysFit`: `Spec => []ProtectedFit`, from `Fitting`: the markers fit
  in the file and in every flush, and no retained append holds one. The cap
  keeps the newest, and `NewestCount` says how many those are.

The argument is split by what a step does: lemmas `StrippedIs`, `CappedIs`,
`CompactedIs`, `StartedIs` and their kin say what each pass over the entries
keeps, owes and protects; one `...Is` lemma per action says what it does to
process, file and history; `Quiet` and `Still` name the steps that cannot
disturb a promise, so that only the five that write the file need an argument
of their own.

`PlayerLifecycle_proofs`, for any songs and number of intents
(`PlayerAssumption`): `NoPlayerLeft`, `ClosesAreOwn` and `PlayerFollowsApp`
(`PlayersAreReaped`, `NoStaleClose` and `ShownIsPlayed`), from one inductive
invariant. `SlotFits` ties slot, lifecycle and processes together, `PhaseFits`
what the lifecycle says to the latch and the turn, `CloseFits` says whose closes
may be on their way in each phase, and `RestoreFits` that the batch which a
replacement will replay makes a fresh process play what the App shows; none of
the three properties is inductive without them.

`RemoteRequests_proofs`, for any clients, identities, capacities and times with
`RetentionAssumption` (two attempts end before an outcome expires),
`ExecutedAssumption` and `NoneAssumption` (answers, refusals and None are
distinct): `CommandAppliedOnce` and `VerdictsAreTrue` (`AppliedOnce` and
`VerdictIsTrue`), from one inductive invariant whose parts are the reasons:

* `Deadlines` and `Retained`: whatever may still ask for an identity was sent
  within one attempt of the outcome's record or repeats within another, so that
  no record it needs has expired (`PurgeKeeps`, where the assumption is used).
* `Identities`: one entry per identity, pending without a record or completed
  with one; an admitted command always finds its own entry.
* `Once`: while a request may still reach the registry of the owner it was
  written for, that registry knows that the command ran; a replaced owner does
  not accept its token.
* `Refusals`: a refusal that its client would believe, whether in an entry that
  is about to leave or on the wire, is a refusal for ever (`NeverRuns`).

Steps are grouped by what they may disturb: `Ends` (a handler answers or dies),
`Joins` and `Inserts` (the three ways of `begin`), `Leaves` (a client gives up an
attempt), `OwnerTakes` (the owner runs or drops a command); each group is shown
once to keep all promises. The capacities play no part in these two.
`BudgetsAlwaysBalance` (`BudgetsBalance`) is about them: `Balance` says that each
counter is a cardinality, of the identities without an outcome or of the
outcomes of a tier, and that what is pending still fits beside what is complete.

`PersistWriter_proofs`, for any numbers of snapshots, processes, failures and
crashes. The visible journal only grows: its level, the greatest order it knows
of, never falls, and a loss of power brings back only a journal that was visible
since. A snapshot is *covered* when every journal that may come back is at its
level (`Covered`).

* `AnswersSurvive`: `AnsweredSurvives`. `Settling`: whoever says that a snapshot
  is durable says it of a covered one. `Recoverable`: a candidate never lacks its
  sidecar. The store is never behind the frontier, so a covered snapshot or a
  newer one is what the next start loads.
* `NewestIsOwned`: `PanicOwnsTheNewest`. `Tracking`: the newest order is covered, or
  it is pending or in flight, and in the shadow or already the hook's.
* `ExactReportsAreExact`: `ExactIsExact`, from `Exactness` and `Holding`, which says
  that the lock has one holder and what that one knows of the disk.

The first two have `Losable <= 1` as a hypothesis, a loss of power after at most
one failed replacement; with two, `Recoverable` cannot be kept, and
`AnsweredSurvives` fails (see the observations).

Every invariant and every action property that the passing runs check is proved.
Only model-checked are the liveness properties, which are out of the prover's
reach.
Induction is used in one form only: the library's induction theorems take an
operator as a parameter, which the provers cannot instantiate, but that a set of
numbers has a least element is first-order (`LeastNumber`), and a least
counterexample serves for the recursive function of `RemoveRows`.

## 5. What is not modelled

* Ingress: the deadlines of callback retries are a nondeterministic give-up.
* Queue: serialization, display helpers and the randomness of the shuffle.
* Transitions: the recorder, self-heal, video, theme and Local-deck guards of
  the plan, and the listening signals its commit records.
* Daemon: queue revisions and their conflict answers, pause, volume, seek and
  speed, the cookie-check resolve, the bookkeeping of autoplay requests, radio
  and local modes, the startup gate on persisted state, and the shutdown of the
  loop (which may drop a handler at an await).
* Scrobbling: notices (`QueueDropped`, `QueueStalled`), the counts and batch ids
  of the audit (it is a set here, so a loss that is recorded twice under two
  different batches is not visible), health, backoff and the authorization latch
  (a service is nondeterministically passed over), flush timers, now-playing,
  love, the deferred re-announcement, the read limits of 40,000 lines and
  192 MiB, listens accepted by the shutdown drain although the inbox is paused,
  and the branch for protected markers in append memory, which holds
  none. An invalid submission is dropped by the code and counted as given up.
* Remote: byte budgets, read-only commands (they bypass the registry), clients
  of protocol versions without identities, sessions and their use of the same
  registry, wire settlement, publication, the endpoint lease.
* Persistence: other stores (each has its own queue slot, journal and lock),
  size limits, read errors, records from before generations, deletion of the
  romanization cache, personal-state commits (other tables of the same writer),
  the fallback that only tests use, the writer lease between processes, failed
  epoch allocations, event notifications, timers (a due write may start at any
  time), the length of the completion history, a lost blocking task.
* Player: the standby deck of a crossfade, mpv's own reports of pause (one that
  is overtaken by a newer command before the transport is lost makes the restore
  use the older value), intents that are refused as busy (they change nothing),
  a destination the restore finds unplayable, volume, speed and filters;
  restarts for cache safety take the same path; quit and terminal failures are
  the latch too.
* The components listed as `not_modelled` in `PROJECT.json`, with their reasons.

## 6. Plan

In this order; each item names the source and the property it is for.

1. `ReportHandoff`: ScrobbleQueue's source journal with the owner's retry queue
   (`src/runtime/open_subsonic_bridge.rs`), the bridge store
   (`src/open_subsonic/bridge_store.rs`) and the server: one listen, one report.
2. The deck conductor and guardian (`src/player`), the command barrier
   (`src/util/command_barrier.rs`), the recorder's durable job, transfer
   checkpoints, the ledger's reducer as a join.
3. Sessions of the remote server and the writer lease of the persistence.
4. Liveness of the scrobble flush under its timers; the daemon loop's shutdown,
   which may drop a handler at an await.
