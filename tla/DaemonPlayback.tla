--------------------------- MODULE DaemonPlayback ---------------------------
(***************************************************************************)
(* daemon/engine.rs with transport.rs, delivery.rs, load_retry.rs and      *)
(* media_session.rs: the headless playback owner.  One loop takes remote   *)
(* and media commands, the events of the mpv it owns and the results of    *)
(* its background tasks, one at a time, and runs each handler to its end.  *)
(* An mpv lifetime may end at any moment and its events wait in the loop's *)
(* queue behind commands, so they can outlive it.                          *)
(*                                                                         *)
(* A handler is an operator from the engine before it to the set of its    *)
(* outcomes: the engine after it and whether it succeeded.  Commands come  *)
(* in at any moment, which is what being queued in any order with the      *)
(* events amounts to.  Queue edits are those of PlayQueue, whose revisions *)
(* are left out here.                                                      *)
(***************************************************************************)
EXTENDS Naturals, Sequences, FiniteSets, SequencesExt, FiniteSetsExt

CONSTANTS
  VideoIds, Playable, Blocks, Snapshots, NoSong, MaxLen,  \* see PlayQueue
  NoPlayer,
  ErrorClasses,     \* bound: the classes of playback errors that occur
  EditKinds,        \* bound: the queue edits that are asked for
  MaxErrors,        \* MAX_CONSECUTIVE_PLAY_ERRORS
  MaxAttempts,      \* TRANSPORT_RECOVERY_MAX_ATTEMPTS
  MaxLives,         \* bound: players that start, all later starts fail
  MaxFiles,         \* bound: loads one player admits, it refuses the others
  MaxFailures       \* bound: player transports that fail

ASSUME DaemonAssumption ==
  /\ ErrorClasses \subseteq {"loading", "source", "format", "other"}
  /\ EditKinds \subseteq {"move", "clear", "repeat", "shuffle"}
  /\ MaxErrors \in Nat
  /\ MaxAttempts \in Nat \ {0}
  /\ MaxLives \in Nat /\ MaxFiles \in Nat /\ MaxFailures \in Nat
  /\ NoSong \notin VideoIds
  /\ Playable \subseteq VideoIds
  /\ Blocks \subseteq Seq(VideoIds)
  /\ MaxLen \in Nat \ {0}
  /\ NoPlayer \notin [life : Nat, file : Nat, playing : BOOLEAN, up : BOOLEAN]

VARIABLES
  d,                \* the engine's playback state
  inbox,            \* player events in the loop's queue
  tasks,            \* background tasks whose result is not handled yet
  errors,           \* consecutive_play_errors
  tried,            \* heal_attempted and load_retry.attempted
  restarts          \* history: players started by the recovery since it was armed

vars == <<d, inbox, tasks, errors, tried, restarts>>

PQ == INSTANCE PlayQueue WITH q <- d.queue, rev <- 0, nextRev <- 0, MaxRev <- 0
PlayingId(c) == PQ!Current(c)

ASSUME SnapshotAssumption == Snapshots \subseteq PQ!Queues

Armed == [state |-> "Armed", id |-> NoSong, gen |-> 0, attempts |-> 0]
Disarmed == [state |-> "Disarmed", id |-> NoSong, gen |-> 0, attempts |-> 0]
Recovering(id, gen) == [state |-> "Recovering", id |-> id, gen |-> gen, attempts |-> 0]

Did(e) == [d |-> e, ok |-> TRUE]
Failed(e) == [d |-> e, ok |-> FALSE]

-----------------------------------------------------------------------------
(* Players and loads. *)

\* stop_playback
Stop(e) ==
  [e EXCEPT !.player = NoPlayer, !.loaded = NoSong, !.progressed = FALSE,
            !.heal = NoSong, !.retry = NoSong, !.rec = Armed]

\* ensure_player: a pending re-pin drops the old player first; the start or
\* the setup of a new one may fail.
EnsurePlayer(e) ==
  LET f == IF e.repin THEN [e EXCEPT !.player = NoPlayer, !.repin = FALSE] ELSE e
      started == [f EXCEPT !.lives = @ + 1,
                           !.player = [life |-> f.lives + 1, file |-> 0,
                                       playing |-> FALSE, up |-> TRUE]]
  IN IF f.player # NoPlayer THEN {Did(f)}
     ELSE {Failed(f)} \cup {Did(g) : g \in {h \in {started} : h.lives <= MaxLives}}

\* A load is refused (full or closed), or admitted under a new generation; a
\* dying transport may still take it.
SendLoad(e) ==
  {Failed(e)} \cup
  {Did(f) : f \in {g \in {[e EXCEPT !.player.file = @ + 1,
                                    !.player.playing = e.player.up]} :
                     g.player.file <= MaxFiles}}

\* Every load first drops a pending heal or load retry.
Superseding(e) == [e EXCEPT !.heal = NoSong, !.retry = NoSong]

\* An ordinary load starts a new logical item and re-arms the recovery; the
\* replay of a recovery may resume at a position.
Sent(e) == {r \in SendLoad(Superseding(e)) : r.ok}
Refused(e) == {r \in SendLoad(Superseding(e)) : ~r.ok}

OrdinaryLoads(e) ==
  Refused(e) \cup
  {Did([r.d EXCEPT !.loaded = PlayingId(e.queue), !.rec = Armed,
                   !.spent = FALSE, !.progressed = FALSE]) : r \in Sent(e)}

RecoveryLoads(e) ==
  Refused(e) \cup
  {Did([f.d EXCEPT !.loaded = PlayingId(e.queue), !.rec = Disarmed,
                   !.progressed = resumed]) : f \in Sent(e), resumed \in BOOLEAN}

CanLoad(e) == PlayingId(e.queue) \in Playable

LoadOrdinary(e) == IF CanLoad(e) THEN OrdinaryLoads(e) ELSE {Did(Stop(e))}

\* Variant: the replacement replays whatever is current.
LoadRecoveryAnyTrack(e) ==
  IF ~CanLoad(e) THEN {Did(Stop(e))} ELSE RecoveryLoads(e)

\* A replacement player only replays the track whose transport was lost.
LoadRecovery(e) ==
  CASE ~CanLoad(e)                          -> {Did(Stop(e))}
    [] CanLoad(e) /\ e.rec.id = PlayingId(e.queue) -> RecoveryLoads(e)
    [] OTHER                                -> {Failed(Superseding(e))}

Then(outcomes, Step(_)) ==
  UNION {IF r.ok THEN Step(r.d) ELSE {r} : r \in outcomes}

\* load_current
LoadCurrent(e) == Then(EnsurePlayer(e), LoadOrdinary)

\* Variant: a failure is only noted.
OrStopNever(outcomes) == outcomes

\* A failure of the automatic paths stops playback.
OrStop(outcomes) == {IF r.ok THEN r ELSE Failed(Stop(r.d)) : r \in outcomes}

\* Variant: a refused load leaves the queue where the command moved it.
LoadOrRestoreNever(e, moved) == LoadCurrent([e EXCEPT !.queue = moved])

\* load_current_or_restore_queue: the caller has moved the queue; a refused
\* load puts it back, a player that does not start does not.
LoadOrRestore(e, moved) ==
  Then(EnsurePlayer([e EXCEPT !.queue = moved]),
       LAMBDA f : {IF r.ok THEN r ELSE Failed([r.d EXCEPT !.queue = e.queue]) :
                     r \in LoadOrdinary(f)})

-----------------------------------------------------------------------------
(* Automatic recovery of the transport. *)

\* Variant: a close during a recovery starts another one.
BeginAgain(e) ==
  CASE e.loaded # NoSong -> Recovering(e.loaded, e.recGen + 1)
    [] e.loaded = NoSong -> Armed

\* TransportRecoveryState::begin
Begin(e) ==
  CASE e.rec.state = "Armed" /\ e.loaded # NoSong ->
         Recovering(e.loaded, e.recGen + 1)
    [] e.rec.state = "Armed" /\ e.loaded = NoSong -> Armed
    [] OTHER -> Disarmed

MayAttempt(e, gen) ==
  e.rec.state = "Recovering" /\ e.rec.gen = gen /\ e.rec.attempts < MaxAttempts

\* attempt_transport_recovery
AttemptRecovery(e, gen) ==
  IF MayAttempt(e, gen)
    THEN Then(EnsurePlayer([e EXCEPT !.rec.attempts = @ + 1]), LoadRecovery)
    ELSE {Did(e)}

\* Variant: a failed attempt is not repeated.
RetryOfNever(r, gen) == {}

\* The generations a failed attempt of gen schedules a retry for.
RetryOf(r, gen) == IF ~r.ok /\ MayAttempt(r.d, gen) THEN {gen} ELSE {}

\* handle_transport_closed and handle_cache_safety_recycle: whichever player
\* is live is retired.
TransportClosed(e) ==
  IF e.player = NoPlayer THEN e
  ELSE [e EXCEPT !.player = NoPlayer, !.loaded = NoSong, !.progressed = FALSE,
                 !.recGen = @ + 1, !.rec = Begin(e)]

-----------------------------------------------------------------------------
(* Remote and media commands. *)

NextTrack(e) ==
  LET pos == PQ!PlanNext(e.queue, e.queue.cursor, FALSE)
  IN CASE e.queue.order = <<>>  -> {Failed(e)}
       [] pos # PQ!NoPos        -> LoadOrRestore(e, PQ!AtCursor(e.queue, pos))
       [] OTHER                 -> {Failed(Stop(e))}

PrevTrack(e) ==
  IF e.queue.order = <<>> THEN {Failed(e)}
  ELSE LoadOrRestore(e, PQ!AtCursor(e.queue, PQ!PlanPrev(e.queue, e.queue.cursor)))

QueuePlay(e) ==
  UNION {LoadOrRestore(e, PQ!AtCursor(e.queue, pos)) : pos \in DOMAIN e.queue.order}

\* A removal that leaves another track to play loads it.
Removed(e, removal) ==
  CASE removal.playback = "Unchanged"    -> {Did([e EXCEPT !.queue = removal.queue])}
    [] removal.playback = "LoadSelected" -> LoadOrRestore(e, removal.queue)
    [] removal.playback = "Stop"         -> {Did(Stop([e EXCEPT !.queue = removal.queue]))}

QueueRemove(e) ==
  UNION {Removed(e, PQ!DaemonRemove(e.queue, pos)) : pos \in DOMAIN e.queue.order}

\* ban_current: a purge that continues with the first playable survivor.
FirstPlayableAfter(removal) ==
  IF removal.playback # "LoadSelected" THEN removal
  ELSE LET found == PQ!FirstPlayable(removal.queue, removal.queue.cursor)
       IN [queue |-> PQ!AtCursor(removal.queue, found.target),
           playback |-> IF found.kind = "Load" THEN "LoadSelected" ELSE "Stop"]

BanCurrent(e) ==
  UNION {Removed(e, FirstPlayableAfter(PQ!Purge(e.queue, ids))) :
           ids \in {s \in SUBSET VideoIds : PlayingId(e.queue) \in s}}

Fits(e, more) == PQ!Fitting(e.queue, more) # <<>>

SearchAndPlay(e) ==
  UNION {LoadOrRestore(e, PQ!PlayNow(e.queue, more)) : more \in {m \in Blocks : Fits(e, m)}}

\* search_and_enqueue and the autoplay picks: an idle engine plays them.
Appended(e, more) ==
  UNION {IF e.loaded = NoSong
           THEN LoadOrRestore(e, PQ!AtCursor(c, Len(e.queue.order) + 1))
           ELSE {Did([e EXCEPT !.queue = c])} : c \in PQ!Extend(e.queue, more)}

Enqueue(e) ==
  (UNION {Appended(e, more) : more \in {m \in Blocks : Fits(e, m)}})
    \cup {Did([e EXCEPT !.queue = PQ!InsertAfterCurrent(e.queue, more)]) :
            more \in {m \in Blocks : Fits(e, m) /\ e.loaded # NoSong}}

\* A pause of the loaded track changes nothing here.
TogglePause(e) ==
  IF e.queue.order # <<>> /\ e.loaded # PlayingId(e.queue) THEN LoadCurrent(e) ELSE {}

\* MediaCommand::OpenUri does not keep the old queue on a failure.
OpenUri(e) ==
  UNION {OrStop(LoadOrRestore(e, PQ!PlayNow(e.queue, more))) :
           more \in {m \in Blocks : Fits(e, m)}}

MediaStop(e) ==
  IF PlayingId(e.queue) # NoSong \/ e.loaded # NoSong THEN {Did(Stop(e))} ELSE {}

\* resume_session replaces the queue by the persisted one under a live player.
Restorable(e) == UNION {PQ!RestoreSnapshot(e.queue, s) : s \in Snapshots}
ResumeSession(e) ==
  UNION {LET f == [e EXCEPT !.queue = c, !.progressed = FALSE]
         IN IF PlayingId(c) = NoSong THEN {Failed(f)} ELSE LoadCurrent(f) :
           c \in Restorable(e)}

\* Edits that never touch the playing track.
Edited(c, kind) ==
  CASE kind = "move" ->
         {PQ!MoveItem(c, from, to) : from, to \in DOMAIN c.order}
    [] kind = "clear"   -> {PQ!ClearUpcoming(c)}
    [] kind = "shuffle" -> PQ!SetShuffle(c, ~c.shuffle)
    [] kind = "repeat"  -> {PQ!WithRepeat(c, mode) : mode \in PQ!Repeats}

EditQueue(e) ==
  {Did([e EXCEPT !.queue = c]) : c \in UNION {Edited(e.queue, kind) : kind \in EditKinds}}

\* The commands whose refusal the client is told of.
PlaybackCommands(e) ==
  UNION {NextTrack(e), PrevTrack(e), QueuePlay(e), QueueRemove(e), BanCurrent(e),
         SearchAndPlay(e), Enqueue(e), TogglePause(e)}

\* The recovery is armed by a normal load or a stop.
Recount(automatic) ==
  restarts' = CASE d'.rec.state = "Armed" -> 0
                [] d'.rec.state # "Armed" /\ automatic -> restarts + d'.lives - d.lives
                [] OTHER -> restarts

Handled(outcomes) ==
  /\ \E r \in outcomes : d' = r.d
  /\ UNCHANGED <<inbox, tasks, errors, tried>>
  /\ Recount(FALSE)

Play == Handled(PlaybackCommands(d))
Media == Handled(OpenUri(d) \cup MediaStop(d))
Resume == Handled(ResumeSession(d))
Edit == Handled(EditQueue(d))

-----------------------------------------------------------------------------
(* What the players do. *)

\* The running file ends or fails; its player reports it once.
FileEnds ==
  /\ d.player # NoPlayer /\ d.player.playing /\ d.player.up
  /\ d' = [d EXCEPT !.player.playing = FALSE]
  /\ \E kind \in {"Eof", "Error"} :
       inbox' = Append(inbox, [kind |-> kind, life |-> d.player.life, file |-> d.player.file])
  /\ UNCHANGED <<tasks, errors, tried, restarts>>

\* The transport ends, or the cache can no longer be proven safe: the last
\* event of the lifetime.
TransportFails ==
  /\ d.player # NoPlayer /\ d.player.up
  /\ d.recGen < MaxFailures
  /\ d' = [d EXCEPT !.player.up = FALSE, !.player.playing = FALSE]
  /\ inbox' = Append(inbox, [kind |-> "Closed", life |-> d.player.life, file |-> d.player.file])
  /\ UNCHANGED <<tasks, errors, tried, restarts>>

\* TimePos > 0 of the running file.
Progress ==
  /\ d.player # NoPlayer /\ d.player.playing
  /\ d' = [d EXCEPT !.progressed = TRUE]
  /\ errors' = 0
  /\ tried' = [tried EXCEPT !.retry = @ \ {PlayingId(d.queue)}]
  /\ UNCHANGED <<inbox, tasks, restarts>>

-----------------------------------------------------------------------------
(* Player events and task results. *)

\* advance_after_end; a crossfade starts it before the end.
AdvanceAfterEnd(e) ==
  LET pos == PQ!PlanNext(e.queue, e.queue.cursor, TRUE)
  IN IF pos = PQ!NoPos THEN {Did(Stop(e))}
     ELSE OrStop(LoadCurrent([e EXCEPT !.queue = PQ!AtCursor(@, pos)]))

CrossfadeDue ==
  /\ d.player # NoPlayer /\ d.player.playing
  /\ d.loaded = PlayingId(d.queue)
  /\ Handled(AdvanceAfterEnd(d))

Task(kind, id, of) == [kind |-> kind, id |-> id, of |-> of]

\* handle_playback_error, for an error of one of the classes that the two
\* classifiers tell apart.  Tracks that yt-dlp does not resolve and the
\* cooldown of the heal can make it skip instead of retry or heal.
RecoverSource(e, class) ==
  /\ class \in {"loading", "source"}
  /\ e.progressed /\ ~e.spent
  /\ e.player # NoPlayer /\ e.loaded # NoSong /\ e.loaded = PlayingId(e.queue)
  /\ \E r \in SendLoad(e) : r.ok /\ d' = [r.d EXCEPT !.spent = TRUE]
  /\ UNCHANGED <<errors, tried>>

BeginLoadRetry(e, class, rest) ==
  /\ class = "loading" /\ ~e.progressed
  /\ e.heal = NoSong /\ e.retry = NoSong
  /\ PlayingId(e.queue) \in VideoIds \ tried.retry
  /\ tried' = [tried EXCEPT !.retry = @ \cup {PlayingId(e.queue)}]
  /\ d' = [e EXCEPT !.retry = PlayingId(e.queue)]
  /\ tasks' = rest \cup {Task("Resolve", PlayingId(e.queue),
                              <<e.player.life, e.player.file>>)}
  /\ UNCHANGED errors

BeginHeal(e, class, rest) ==
  /\ class = "format"
  /\ e.heal = NoSong
  /\ PlayingId(e.queue) \in VideoIds \ tried.heal
  /\ tried' = [tried EXCEPT !.heal = @ \cup {PlayingId(e.queue)}]
  /\ d' = [e EXCEPT !.heal = PlayingId(e.queue)]
  /\ tasks' = rest \cup {Task("Heal", PlayingId(e.queue), <<>>)}
  /\ UNCHANGED errors

Skipped(e, count) ==
  LET pos == PQ!PlanNext(e.queue, e.queue.cursor, FALSE)
  IN IF count <= MaxErrors /\ pos # PQ!NoPos
       THEN OrStop(LoadCurrent([e EXCEPT !.queue = PQ!AtCursor(@, pos)]))
       ELSE {Did(Stop(e))}

SkipOrStop(e) ==
  /\ errors' = Min({errors + 1, MaxErrors + 1})
  /\ \E r \in Skipped(e, errors + 1) : d' = r.d
  /\ UNCHANGED tried

PlaybackError(e, class, rest) ==
  \/ RecoverSource(e, class) /\ tasks' = rest
  \/ BeginLoadRetry(e, class, rest)
  \/ BeginHeal(e, class, rest)
  \/ SkipOrStop(e) /\ tasks' = rest

\* event_is_current compares the file generation and not the lifetime.
IsCurrent(event) == d.player # NoPlayer /\ event.file = d.player.file

OnTransportClosed ==
  LET closed == TransportClosed(d)
      gen == closed.recGen
  IN IF d.player # NoPlayer /\ closed.rec.state = "Recovering"
       THEN \E r \in AttemptRecovery(closed, gen) :
              /\ d' = r.d
              /\ tasks' = tasks \cup {Task("Retry", NoSong, <<g>>) : g \in RetryOf(r, gen)}
       ELSE d' = closed /\ tasks' = tasks

HandlePlayerEvent ==
  /\ inbox # <<>>
  /\ inbox' = Tail(inbox)
  /\ LET event == Head(inbox)
     IN CASE event.kind = "Closed" -> OnTransportClosed /\ UNCHANGED <<errors, tried>>
          [] event.kind = "Eof" /\ IsCurrent(event) ->
               /\ \E r \in AdvanceAfterEnd(d) : d' = r.d
               /\ UNCHANGED <<tasks, errors, tried>>
          [] event.kind = "Error" /\ IsCurrent(event) ->
               \E class \in ErrorClasses :
                 PlaybackError(d, class, tasks)
          [] OTHER -> UNCHANGED <<d, tasks, errors, tried>>
  /\ Recount(Head(inbox).kind = "Closed")

\* A retry's timer fired: attempt_transport_recovery of its generation.
RetryDue ==
  \E task \in tasks :
    /\ task.kind = "Retry"
    /\ \E r \in AttemptRecovery(d, task.of[1]) :
         /\ d' = r.d
         /\ tasks' = (tasks \ {task})
                       \cup {Task("Retry", NoSong, <<g>>) : g \in RetryOf(r, task.of[1])}
    /\ UNCHANGED <<inbox, errors, tried>>
    /\ Recount(TRUE)

\* Variant: the heal stays pending.
HealOverKept(e) == e

HealOver(e) == [e EXCEPT !.heal = NoSong]

\* handle_heal_result
HealDone ==
  \E task \in tasks, updated \in BOOLEAN :
    /\ task.kind = "Heal"
    /\ LET repinned == [d EXCEPT !.repin = @ \/ updated]
           healed == HealOver(d)
           expected == d.heal = task.id
           present == PlayingId(d.queue) = task.id
           rest == tasks \ {task}
       IN CASE ~expected ->
                 d' = repinned /\ tasks' = rest /\ UNCHANGED <<errors, tried>>
            [] expected /\ ~present ->
                 /\ d' = HealOver(repinned)
                 /\ tasks' = rest
                 /\ UNCHANGED <<errors, tried>>
            [] expected /\ present /\ updated ->
                 /\ \E r \in OrStop(LoadCurrent([healed EXCEPT !.player = NoPlayer])) :
                      d' = r.d
                 /\ tasks' = rest
                 /\ UNCHANGED <<errors, tried>>
            [] OTHER -> PlaybackError(healed, "format", rest)
    /\ UNCHANGED inbox
    /\ Recount(FALSE)

\* finish_resolve_retry
ResolveDone ==
  \E task \in tasks, resolved \in BOOLEAN :
    /\ task.kind = "Resolve"
    /\ LET done == [d EXCEPT !.retry = NoSong]
           expected == d.retry = task.id
           present == PlayingId(d.queue) = task.id
           rest == tasks \ {task}
       IN CASE ~expected -> UNCHANGED <<d, errors, tried>> /\ tasks' = rest
            [] expected /\ ~present ->
                 d' = done /\ tasks' = rest /\ UNCHANGED <<errors, tried>>
            [] expected /\ present /\ resolved ->
                 /\ \E r \in OrStop(LoadCurrent(done)) : d' = r.d
                 /\ tasks' = rest
                 /\ UNCHANGED <<errors, tried>>
            [] OTHER -> PlaybackError(done, "other", rest)
    /\ UNCHANGED inbox
    /\ Recount(FALSE)

\* extend_queue_from_picks: the picks of an autoplay request.
AutoplayPicks == Handled(UNION {Appended(d, more) : more \in {m \in Blocks : Fits(d, m)}})

-----------------------------------------------------------------------------

Init ==
  /\ \E queue \in {PQ!EmptyQueue}
                    \cup UNION {PQ!RestoreSnapshot(PQ!EmptyQueue, s) : s \in Snapshots} :
       d = [queue |-> queue, player |-> NoPlayer, loaded |-> NoSong, rec |-> Armed,
            recGen |-> 0, heal |-> NoSong, retry |-> NoSong, repin |-> FALSE,
            spent |-> FALSE, progressed |-> FALSE, lives |-> 0]
  /\ inbox = <<>>
  /\ tasks = {}
  /\ errors = 0
  /\ tried = [heal |-> {}, retry |-> {}]
  /\ restarts = 0

Owner == HandlePlayerEvent \/ RetryDue \/ HealDone \/ ResolveDone

Next ==
  \/ Play
  \/ Media
  \/ Resume
  \/ Edit
  \/ AutoplayPicks
  \/ FileEnds
  \/ TransportFails
  \/ Progress
  \/ CrossfadeDue
  \/ Owner

Spec == Init /\ [][Next]_vars

\* The owner loop takes every queued event and every task finishes.
LiveSpec == Spec /\ WF_vars(HandlePlayerEvent) /\ WF_vars(RetryDue)
                 /\ WF_vars(HealDone) /\ WF_vars(ResolveDone)

-----------------------------------------------------------------------------
(* Properties *)

\* One loss of the transport restarts the player a bounded number of times
\* until a normal load or a stop, whatever retry timers of earlier losses
\* fire, replacements die and commands fail in between (transport.rs:188-190).
RestartsAreBounded == restarts <= MaxAttempts

\* What runs is what the queue shows.  Only the restored session can put them
\* on different tracks: every other refused load, failed start, late event or
\* task result leaves a running file with its own track.
RunningIsCurrent ==
  d.player # NoPlayer /\ d.player.playing => d.loaded = PlayingId(d.queue)
OnlyResumeSplits == [][RunningIsCurrent => RunningIsCurrent' \/ Resume]_vars

\* A replacement player never plays another track than the one whose
\* transport was lost, although the queue moves while it is being started.
RecoveryReplaysTheLost ==
  [][d'.rec.state = "Disarmed" /\ d.rec # d'.rec /\ d'.loaded # NoSong
       => d'.loaded \in {d.loaded, d.rec.id}]_vars

\* A refused command leaves the queue as it was (delivery_tests.rs:42), or
\* there is no player that the moved queue could disagree with: a player that
\* does not start is noticed before the queue would be restored.
RefusalKeepsQueueOrLeavesNoPlayer ==
  \A r \in PlaybackCommands(d) :
    ~r.ok => r.d.queue = d.queue \/ r.d.player = NoPlayer

\* A loaded track that does not run has someone to move on: its player's
\* event is queued, or a heal or a load retry of it is under way.  Only a
\* load that is refused or a player that is not started can lose that.
InHand ==
  \/ d.loaded = NoSong
  \/ d.player # NoPlayer /\ d.player.playing
  \/ d.player # NoPlayer /\ \E i \in DOMAIN inbox : inbox[i].life = d.player.life
  \/ \E task \in tasks :
       /\ task.id = PlayingId(d.queue)
       /\ \/ task.kind = "Heal" /\ task.id = d.heal
          \/ task.kind = "Resolve" /\ task.id = d.retry
RefusedStep ==
  \E r \in PlaybackCommands(d) \cup ResumeSession(d) : ~r.ok /\ d' = r.d
OnlyRefusalDropsTheTrack == [][InHand => InHand' \/ RefusedStep]_vars

\* A heal that is waited for ends, and a recovery is tried until it succeeds,
\* is superseded or is exhausted.
HealSettles == d.heal # NoSong ~> d.heal = NoSong
RecoverySettles == []<>~(d.rec.state = "Recovering" /\ d.rec.attempts < MaxAttempts)

\* player/mod.rs:432 "Runtime owners reject delayed telemetry and terminal
\* state after a newer Load/Stop".
Late(event) == d.player # NoPlayer /\ event.life # d.player.life
DelayedTerminalsAreRejected ==
  [][(HandlePlayerEvent /\ Head(inbox).kind # "Closed" /\ Late(Head(inbox)))
       => d' = d]_vars
=============================================================================
