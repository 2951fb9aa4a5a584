--------------------------- MODULE PlayerLifecycle ---------------------------
(* The terminal owner's one audio player: its startup slot, the single       *)
(* automatic replacement after a lost transport, the restore batch, the one  *)
(* intent deferred while no player is ready, and the shutdown latch.         *)
(* Sources: src/runtime/player_delivery.rs, src/terminal_runtime/runner.rs,  *)
(* src/terminal_runtime/runner/player_startup.rs, src/player/.               *)
EXTENDS Naturals, Sequences, SequencesExt

CONSTANTS
  Songs,      \* what a track transition may load
  NoSong,     \* nothing loaded
  None,       \* no intent, no restore batch
  MaxIntents  \* bound: intents the player or the slot takes

Playbacks == [song : Songs \union {NoSong}, paused : BOOLEAN]
Intents == [kind : {"track", "pause", "stop"}, song : Songs \union {NoSong}, paused : BOOLEAN]

ASSUME PlayerAssumption ==
  /\ NoSong \notin Songs
  /\ None \notin Playbacks \union Intents
  /\ MaxIntents \in Nat

VARIABLES
  life,      \* RuntimePlayerLifecycle
  restore,   \* the batch a queued or starting replacement will replay
  startup,   \* PlayerStartup: whose startup the slot holds, and how far it is
  mpv,       \* per player: the process and the actor that talks to it
  lane,      \* per player: the conductor's side of the command lane
  told,      \* per player: what the commands sent so far make it play
  inbox,     \* TransportClosed events on their way to the owner
  deferred,  \* PendingPlayerIntents: at most one
  app,       \* the reducer's committed playback: loaded song, paused
  latch,     \* ShutdownLatch (a signal, quit, or a terminal failure)
  turn,      \* where the owner loop is
  intents    \* intents taken so far

playerVars == <<life, restore, startup, mpv, lane, told, inbox, deferred, app,
                latch, turn, intents>>

Players == 1..2   \* the initial player and its only replacement
Silent == [song |-> NoSong, paused |-> FALSE]

Live == {"LiveInitial", "LiveReplacement"}
Deferring == {"StartingInitial", "RestartQueued", "StartingReplacement"}

\* The player the lifecycle starts, runs or ran last.
Player == IF life \in {"StartingInitial", "LiveInitial", "FailedInitial"} THEN 1 ELSE 2

-----------------------------------------------------------------------------
(* Commands *)

\* What a key press asks for: another track, the other pause state of what is
\* loaded, or a stop.
Asked ==
  {[kind |-> "track", song |-> s, paused |-> FALSE] : s \in Songs}
    \union {[kind |-> "stop", song |-> NoSong, paused |-> TRUE]}
    \union (IF app.song = NoSong THEN {}
            ELSE {[kind |-> "pause", song |-> NoSong, paused |-> ~app.paused]})

\* The reducer's half of an admitted intent. Stop leaves the App paused.
Committed(intent) ==
  [song |-> IF intent.kind = "pause" THEN app.song ELSE intent.song,
   paused |-> intent.paused]

\* The player's half: a track transition loads and clears pause, a pause is
\* absolute, and Stop leaves the pause flag of the process alone.
Played(intent, p) ==
  [song |-> IF intent.kind = "pause" THEN p.song ELSE intent.song,
   paused |-> IF intent.kind = "stop" THEN p.paused ELSE intent.paused]

\* Variant: the restore batch forgets that playback was paused.
RestoreUnpaused ==
  IF app.song = NoSong THEN None ELSE [app EXCEPT !.paused = FALSE]

\* recover_player_transport: reload what is loaded, as it was.
Restore == IF app.song = NoSong THEN None ELSE app

\* The batch is a Load and, if playback was paused, one CyclePause: it
\* toggles whatever the fresh process starts with.
Replayed(batch, p) ==
  IF batch = None THEN p
  ELSE [song |-> batch.song, paused |-> IF batch.paused THEN ~p.paused ELSE p.paused]

\* A command for a player whose actor is gone waits in the lane until the
\* conductor fails to forward it; one sent as the process dies goes either way.
LaneAfterSend(n) ==
  CASE mpv[n] = "closed" /\ lane[n] = "open" -> {"loaded"}
    [] mpv[n] = "dead" /\ lane[n] = "open"   -> {"open", "loaded"}
    [] OTHER                                 -> {lane[n]}

-----------------------------------------------------------------------------
(* The process, its actor and its conductor. *)

MpvDies(n) ==
  /\ mpv[n] = "up"
  /\ mpv' = [mpv EXCEPT ![n] = "dead"]
  /\ UNCHANGED <<life, restore, startup, lane, told, inbox, deferred, app, latch, turn, intents>>

\* run_actor's last act. A dropped handle means an intended close: no event.
\* Before the startup has connected there is no actor.
ActorCloses(n) ==
  /\ mpv[n] = "dead"
  /\ startup # [player |-> n, at |-> "connecting"]
  /\ mpv' = [mpv EXCEPT ![n] = "closed"]
  /\ inbox' = Append(inbox, n)
  /\ UNCHANGED <<life, restore, startup, lane, told, deferred, app, latch, turn, intents>>

\* forward_lead: a command that cannot be forwarded ends the conductor, with
\* a TransportClosed of its own.
ConductorNotices(n) ==
  /\ mpv[n] = "closed"
  /\ lane[n] = "loaded"
  /\ lane' = [lane EXCEPT ![n] = "closed"]
  /\ inbox' = Append(inbox, n)
  /\ UNCHANGED <<life, restore, startup, mpv, told, deferred, app, latch, turn, intents>>

-----------------------------------------------------------------------------
(* The startup task. *)

Spawn ==
  /\ startup.at = "spawning"
  /\ ~latch
  /\ startup' = [startup EXCEPT !.at = "connecting"]
  /\ mpv' = [mpv EXCEPT ![startup.player] = "up"]
  /\ UNCHANGED <<life, restore, lane, told, inbox, deferred, app, latch, turn, intents>>

Connect ==
  /\ startup.at = "connecting"
  /\ mpv[startup.player] = "up"
  /\ startup' = [startup EXCEPT !.at = "ready"]
  /\ UNCHANGED <<life, restore, mpv, lane, told, inbox, deferred, app, latch, turn, intents>>

\* The program cannot be run, IPC never answers, the startup times out, or
\* the latch was set first.
StartupFails ==
  /\ startup.at \in {"spawning", "connecting"}
  /\ startup' = [startup EXCEPT !.at = "failed"]
  /\ mpv' = [mpv EXCEPT ![startup.player] = "gone"]
  /\ UNCHANGED <<life, restore, lane, told, inbox, deferred, app, latch, turn, intents>>

\* Variant: the task is let go of, its process with it.
DetachSlot(m) == m

\* cancel_and_join: the slot is closed and its task aborted and awaited, and
\* with it goes the process it holds.
CancelSlot(m) ==
  IF startup.at = "none" THEN m ELSE [m EXCEPT ![startup.player] = "gone"]

-----------------------------------------------------------------------------
(* The owner loop. *)

Selecting == turn = "select" /\ ~latch

\* dispatch_player_intent with a live player. An intent the ended conductor
\* refuses changes nothing.
AdmitIntent(intent) ==
  /\ Selecting
  /\ intents < MaxIntents
  /\ life \in Live
  /\ lane[Player] # "closed"
  /\ app' = Committed(intent)
  /\ told' = [told EXCEPT ![Player] = Played(intent, @)]
  /\ \E after \in LaneAfterSend(Player) : lane' = [lane EXCEPT ![Player] = after]
  /\ intents' = intents + 1
  /\ UNCHANGED <<life, restore, startup, mpv, inbox, deferred, latch, turn>>

\* PendingPlayerIntents::push: a second intent is Busy and changes nothing.
DeferIntent(intent) ==
  /\ Selecting
  /\ intents < MaxIntents
  /\ life \in Deferring
  /\ deferred = None
  /\ deferred' = intent
  /\ intents' = intents + 1
  /\ UNCHANGED <<life, restore, startup, mpv, lane, told, inbox, app, latch, turn>>

\* request_restart: the one replacement is spent from its request on.
AfterClose(phase) ==
  CASE phase \in {"StartingInitial", "LiveInitial", "FailedInitial"} -> "RestartQueued"
    [] phase = "LiveReplacement" -> "FailedReplacement"
    [] OTHER                     -> phase

\* handle_player_transport_closed. The event does not say whose it is.
HandleClosed ==
  /\ Selecting
  /\ inbox # <<>>
  /\ inbox' = Tail(inbox)
  /\ life' = AfterClose(life)
  /\ restore' = IF life' = "RestartQueued" THEN Restore ELSE restore
  /\ mpv' = IF life \in Live THEN [mpv EXCEPT ![Player] = "gone"] ELSE mpv
  /\ deferred' = IF life' = "FailedReplacement" THEN None ELSE deferred
  /\ turn' = "finish"
  /\ UNCHANGED <<startup, lane, told, app, latch, intents>>

\* The end of the turn starts the replacement, unless the latch is set.
FinishTurn ==
  /\ turn = "finish"
  /\ ~latch
  /\ turn' = "select"
  /\ IF life = "RestartQueued"
       THEN /\ life' = "StartingReplacement"
            /\ mpv' = CancelSlot(mpv)
            /\ startup' = [player |-> 2, at |-> "spawning"]
       ELSE UNCHANGED <<life, mpv, startup>>
  /\ UNCHANGED <<restore, lane, told, inbox, deferred, app, latch, intents>>

\* Variant: the select does not prefer worker events to the readiness slot.
ReadyTurnUnbiased == Selecting

\* The biased select takes queued worker events before a readiness result.
ReadyTurn == Selecting /\ inbox = <<>>

\* Variant: no command greets a player that became ready.
GreetingSkipped(n) == {lane[n]}

\* handle_player_ready always sends the volume.
Greeting(n) == LaneAfterSend(n)

\* admit_player_intent: whether the deferred intent is admitted. A track
\* transition or a stop can have gone stale, and a lane whose conductor has just ended
\* refuses.
Admissions(n) ==
  CASE deferred = None -> {FALSE}
    [] deferred # None /\ (deferred.kind # "pause" \/ mpv[n] = "closed") -> BOOLEAN
    [] OTHER -> {TRUE}

\* handle_player_ready with a player: the volume, the restore batch, then the
\* deferred intent.
Install ==
  LET n == startup.player
      replayed == Replayed(restore, told[n])
  IN /\ ReadyTurn
     /\ startup.at = "ready"
     /\ startup' = [startup EXCEPT !.at = "none"]
     /\ life' = IF life = "StartingInitial" THEN "LiveInitial" ELSE "LiveReplacement"
     /\ \E after \in Greeting(n) : lane' = [lane EXCEPT ![n] = after]
     /\ \E admitted \in Admissions(n) :
          /\ app' = IF admitted THEN Committed(deferred) ELSE app
          /\ told' = [told EXCEPT ![n] = IF admitted THEN Played(deferred, replayed)
                                                     ELSE replayed]
     /\ restore' = None
     /\ deferred' = None
     /\ UNCHANGED <<mpv, inbox, latch, turn, intents>>

\* Variant: a failed startup leaves the deferred intent for the next player.
DeferredAfterFailureKept == deferred

\* reject_pending_player_intents
DeferredAfterFailure == None

\* handle_player_ready with an error.
StartFailed ==
  /\ ReadyTurn
  /\ startup.at = "failed"
  /\ startup' = [startup EXCEPT !.at = "none"]
  /\ life' = IF life = "StartingInitial" THEN "FailedInitial" ELSE "FailedReplacement"
  /\ restore' = None
  /\ deferred' = DeferredAfterFailure
  /\ UNCHANGED <<mpv, lane, told, inbox, app, latch, turn, intents>>

\* The latch is published before any process is killed.
Signal ==
  /\ ~latch
  /\ latch' = TRUE
  /\ UNCHANGED <<life, restore, startup, mpv, lane, told, inbox, deferred, app, turn, intents>>

\* begin_player_shutdown, wherever in its turn the owner sees the latch. A
\* readiness result it was about to take stays in the slot.
BeginShutdown ==
  /\ latch
  /\ turn \in {"select", "finish"}
  /\ turn' = "teardown"
  /\ life' = "Shutdown"
  /\ restore' = None
  /\ deferred' = None
  /\ mpv' = IF life \in Live THEN [mpv EXCEPT ![Player] = "gone"] ELSE mpv
  /\ UNCHANGED <<startup, lane, told, inbox, app, latch, intents>>

\* reap_player_startup, later in the teardown.
ReapStartup ==
  /\ turn = "teardown"
  /\ turn' = "over"
  /\ mpv' = CancelSlot(mpv)
  /\ startup' = [startup EXCEPT !.at = "none"]
  /\ UNCHANGED <<life, restore, lane, told, inbox, deferred, app, latch, intents>>

-----------------------------------------------------------------------------

Init ==
  /\ life = "StartingInitial"
  /\ restore = None
  /\ startup = [player |-> 1, at |-> "spawning"]
  /\ mpv = [n \in Players |-> "none"]
  /\ lane = [n \in Players |-> "open"]
  /\ told = [n \in Players |-> Silent]
  /\ inbox = <<>>
  /\ deferred = None
  /\ app = Silent
  /\ latch = FALSE
  /\ turn = "select"
  /\ intents = 0

Startup == Spawn \/ Connect \/ StartupFails
Deck(n) == ActorCloses(n) \/ ConductorNotices(n)
Owner == HandleClosed \/ FinishTurn \/ Install \/ StartFailed \/ BeginShutdown \/ ReapStartup

Next ==
  \/ Startup
  \/ Owner
  \/ Signal
  \/ \E n \in Players : MpvDies(n) \/ Deck(n)
  \/ \E intent \in Asked : AdmitIntent(intent) \/ DeferIntent(intent)

Spec == Init /\ [][Next]_playerVars

\* The startup task has a timeout, the owner loop keeps turning, and the
\* runtime schedules the actor and the conductor of a dead player.
FairSpec ==
  /\ Spec
  /\ WF_playerVars(Startup)
  /\ WF_playerVars(Owner)
  /\ \A n \in Players : WF_playerVars(Deck(n))

-----------------------------------------------------------------------------
(* Properties *)

\* What the App shows is what the player was told to play: whatever died,
\* was replayed, deferred, found stale or refused on the way, a live player
\* that is up plays the loaded song, paused exactly when the App says so.
ShownIsPlayed ==
  (life \in Live /\ mpv[Player] = "up" /\ app.song # NoSong) => told[Player] = app

\* TransportClosed carries no generation, and a player may send two; while a
\* player is live every one on its way is its own, so handling one never
\* retires a healthy replacement for the loss of its predecessor.
NoStaleClose == life \in Live => ToSet(inbox) \subseteq {Player}

\* No process outlives its owner: at most one player runs at a time, it is
\* always held by the lifecycle or by the startup slot, and none is left once
\* the teardown is over.
PlayersAreReaped ==
  \A n \in Players : mpv[n] = "up" =>
    /\ turn # "over"
    /\ \/ life \in Live /\ n = Player
       \/ startup.player = n /\ startup.at \in {"connecting", "ready"}

\* An intent taken while the player starts is answered: admitted, refused or
\* rejected, through every failure, restart and shutdown.
DeferredSettles == deferred # None ~> deferred = None

\* A live player whose process died is retired, although the only event that
\* says so may have been taken for the one of the player it replaced.
DeadIsNoticed ==
  (life \in Live /\ mpv[Player] \in {"dead", "closed"})
    ~> ~(life \in Live /\ mpv[Player] \in {"dead", "closed"})

=============================================================================
