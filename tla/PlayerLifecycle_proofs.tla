----------------------- MODULE PlayerLifecycle_proofs -----------------------
(* For any set of songs and any number of intents: no stale close, no       *)
(* process left behind, and what is shown is what was told to the player.   *)
EXTENDS PlayerLifecycle, TLAPS

Phases == {"StartingInitial", "LiveInitial", "FailedInitial", "RestartQueued",
           "StartingReplacement", "LiveReplacement", "FailedReplacement", "Shutdown"}

TypeOK ==
  /\ life \in Phases
  /\ restore \in Playbacks \union {None}
  /\ startup \in [player : Players, at : {"spawning", "connecting", "ready", "failed", "none"}]
  /\ mpv \in [Players -> {"none", "up", "dead", "closed", "gone"}]
  /\ lane \in [Players -> {"open", "loaded", "closed"}]
  /\ told \in [Players -> Playbacks]
  /\ inbox \in Seq(Players)
  /\ deferred \in Intents \union {None}
  /\ app \in Playbacks
  /\ latch \in BOOLEAN
  /\ turn \in {"select", "finish", "teardown", "over"}
  /\ intents \in Nat

\* How far the startup is says what its process can be.
SlotFits ==
  /\ startup.at = "spawning" => mpv[startup.player] = "none"
  /\ startup.at = "connecting" => mpv[startup.player] \in {"up", "dead"}
  /\ startup.at = "ready" => mpv[startup.player] \in {"up", "dead", "closed"}
  /\ startup.at = "failed" => mpv[startup.player] = "gone"

\* Each phase owns one player and one use of the startup slot.
PhaseFits ==
  /\ life \in {"StartingInitial", "LiveInitial", "FailedInitial", "RestartQueued"} =>
       startup.player = 1 /\ mpv[2] = "none"
  /\ life \in {"StartingReplacement", "LiveReplacement", "FailedReplacement"} =>
       startup.player = 2 /\ mpv[1] = "gone"
  /\ life \in {"StartingInitial", "StartingReplacement"} => startup.at # "none"
  /\ life \in {"LiveInitial", "LiveReplacement"} => startup.at = "none"
  /\ life = "FailedInitial" => startup.at = "none" /\ mpv[1] = "gone"
  /\ life = "FailedReplacement" => startup.at = "none" /\ mpv[2] = "gone"
  /\ life = "RestartQueued" => turn = "finish" /\ (startup.at = "none" => mpv[1] = "gone")
  /\ life = "Shutdown" <=> turn \in {"teardown", "over"}
  /\ turn = "over" => startup.at = "none"

\* While a player starts, what it will be told is what the App shows.
RestoreFits ==
  /\ life \in {"StartingInitial", "FailedInitial"} => app.song = NoSong /\ restore = None
  /\ life = "StartingInitial" => told[1] = Silent
  /\ life \in {"StartingInitial", "LiveInitial", "FailedInitial", "RestartQueued",
               "StartingReplacement"} => told[2] = Silent
  /\ life \in {"RestartQueued", "StartingReplacement"} => restore = Restore
  /\ deferred # None => (deferred.kind = "stop" => deferred.song = NoSong)
  /\ (life \in Live /\ app.song # NoSong) => told[Player] = app

-----------------------------------------------------------------------------

LEMMA AskedType ==
  ASSUME app \in Playbacks, NEW intent \in Asked
  PROVE  /\ intent \in Intents
         /\ intent.kind = "stop" => intent.song = NoSong
         /\ intent.kind = "pause" => app.song # NoSong
<1>1. (~app.paused) \in BOOLEAN
  OBVIOUS
<1>2. CASE \E s \in Songs : intent = [kind |-> "track", song |-> s, paused |-> FALSE]
  BY <1>2 DEF Intents
<1>3. CASE intent = [kind |-> "stop", song |-> NoSong, paused |-> TRUE]
  BY <1>3 DEF Intents
<1>4. CASE /\ app.song # NoSong
           /\ intent = [kind |-> "pause", song |-> NoSong, paused |-> ~app.paused]
  BY <1>1, <1>4 DEF Intents
<1> QED
  BY <1>2, <1>3, <1>4 DEF Asked

LEMMA CommandTypes ==
  ASSUME app \in Playbacks
  PROVE  /\ \A intent \in Intents, p \in Playbacks :
              Committed(intent) \in Playbacks /\ Played(intent, p) \in Playbacks
         /\ \A batch \in Playbacks \union {None}, p \in Playbacks : Replayed(batch, p) \in Playbacks
         /\ Restore \in Playbacks \union {None}
BY DEF Committed, Played, Replayed, Restore, Playbacks, Intents

LEMMA LaneType ==
  ASSUME TypeOK, NEW n \in Players
  PROVE  LaneAfterSend(n) \subseteq {"open", "loaded", "closed"}
BY DEF TypeOK, LaneAfterSend

LEMMA CancelType ==
  ASSUME TypeOK
  PROVE  /\ CancelSlot(mpv) \in [Players -> {"none", "up", "dead", "closed", "gone"}]
         /\ startup.at = "none" => CancelSlot(mpv) = mpv
         /\ startup.at # "none" => /\ CancelSlot(mpv)[startup.player] = "gone"
                                   /\ \A n \in Players \ {startup.player} :
                                        CancelSlot(mpv)[n] = mpv[n]
BY DEF TypeOK, CancelSlot

LEMMA PlayerType == Player \in Players
BY DEF Player, Players

LEMMA TypeInit == Init => TypeOK
<1>1. Silent \in Playbacks
  BY DEF Silent, Playbacks
<1>2. 1 \in Players /\ <<>> \in Seq(Players)
  BY DEF Players
<1>3. QED
  <2>1. Init => life \in Phases /\ restore \in Playbacks \union {None}
    BY DEF Init, Phases
  <2>2. Init => startup \in [player : Players, at : {"spawning", "connecting", "ready", "failed", "none"}]
    BY <1>2 DEF Init
  <2>3. Init => /\ mpv \in [Players -> {"none", "up", "dead", "closed", "gone"}]
                /\ lane \in [Players -> {"open", "loaded", "closed"}]
    BY DEF Init
  <2>4. Init => told \in [Players -> Playbacks] /\ app \in Playbacks
    BY <1>1 DEF Init
  <2>5. Init => /\ inbox \in Seq(Players) /\ deferred \in Intents \union {None}
                /\ turn \in {"select", "finish", "teardown", "over"}
                /\ intents \in Nat
    BY <1>2 DEF Init
  <2>6. Init => latch \in BOOLEAN
    BY DEF Init
  <2> QED
    BY <2>1, <2>2, <2>3, <2>4, <2>5, <2>6 DEF TypeOK

LEMMA TypeStep == TypeOK /\ [Next]_playerVars => TypeOK'
<1> SUFFICES ASSUME TypeOK, [Next]_playerVars PROVE TypeOK'
  OBVIOUS
<1> USE PlayerType
<1>1. CASE Startup
  BY <1>1 DEF TypeOK, Startup, Spawn, Connect, StartupFails
<1>2. CASE HandleClosed
  <2>1. Restore \in Playbacks \union {None}
    BY CommandTypes DEF TypeOK
  <2>2. Tail(inbox) \in Seq(Players)
    BY <1>2 DEF HandleClosed, TypeOK
  <2>3. AfterClose(life) \in Phases
    BY DEF AfterClose, TypeOK, Phases
  <2> QED
    BY <1>2, <2>1, <2>2, <2>3 DEF TypeOK, HandleClosed
<1>3. CASE FinishTurn
  BY <1>3, CancelType DEF TypeOK, FinishTurn, Phases, Players
<1>4. CASE Install
  <2> DEFINE n == startup.player
             replayed == Replayed(restore, told[n])
  <2>1. n \in Players /\ told[n] \in Playbacks
    BY DEF TypeOK
  <2>2. replayed \in Playbacks
    BY <2>1, CommandTypes DEF TypeOK
  <2>3. PICK after \in Greeting(n) : lane' = [lane EXCEPT ![n] = after]
    BY <1>4 DEF Install
  <2>4. after \in {"open", "loaded", "closed"}
    BY <2>1, <2>3, LaneType DEF Greeting
  <2>5. PICK admitted \in Admissions(n) :
          /\ app' = IF admitted THEN Committed(deferred) ELSE app
          /\ told' = [told EXCEPT ![n] = IF admitted THEN Played(deferred, replayed)
                                                     ELSE replayed]
    BY <1>4 DEF Install
  <2>6. admitted => deferred \in Intents
    BY DEF Admissions, TypeOK
  <2>7. app' \in Playbacks /\ told' \in [Players -> Playbacks]
    BY <2>1, <2>2, <2>5, <2>6, CommandTypes DEF TypeOK
  <2>8. /\ life' \in Phases
        /\ restore' = None /\ deferred' = None
        /\ startup' = [startup EXCEPT !.at = "none"]
        /\ UNCHANGED <<mpv, inbox, latch, turn, intents>>
    BY <1>4 DEF Install, Phases
  <2> QED
    BY <2>1, <2>3, <2>4, <2>7, <2>8 DEF TypeOK
<1>5. CASE StartFailed
  BY <1>5 DEF TypeOK, StartFailed, Phases, DeferredAfterFailure
<1>6. CASE BeginShutdown
  BY <1>6 DEF TypeOK, BeginShutdown, Phases
<1>7. CASE ReapStartup
  BY <1>7, CancelType DEF TypeOK, ReapStartup
<1>8. CASE Signal
  BY <1>8 DEF TypeOK, Signal
<1>9. ASSUME NEW n \in Players, MpvDies(n) \/ Deck(n) PROVE TypeOK'
  <2>1. Append(inbox, n) \in Seq(Players)
    BY DEF TypeOK
  <2>2. CASE MpvDies(n)
    BY <2>2 DEF TypeOK, MpvDies
  <2>3. CASE ActorCloses(n)
    BY <2>1, <2>3 DEF TypeOK, ActorCloses
  <2>4. CASE ConductorNotices(n)
    BY <2>1, <2>4 DEF TypeOK, ConductorNotices
  <2> QED
    BY <1>9, <2>2, <2>3, <2>4 DEF Deck
<1>10. ASSUME NEW intent \in Asked, AdmitIntent(intent) PROVE TypeOK'
  <2>1. intent \in Intents
    BY AskedType DEF TypeOK
  <2>2. Committed(intent) \in Playbacks /\ Played(intent, told[Player]) \in Playbacks
    BY <2>1, CommandTypes DEF TypeOK
  <2>3. PICK after \in LaneAfterSend(Player) : lane' = [lane EXCEPT ![Player] = after]
    BY <1>10 DEF AdmitIntent
  <2>4. after \in {"open", "loaded", "closed"}
    BY <2>3, LaneType
  <2> QED
    BY <1>10, <2>2, <2>3, <2>4 DEF TypeOK, AdmitIntent
<1>11. ASSUME NEW intent \in Asked, DeferIntent(intent) PROVE TypeOK'
  BY <1>11, AskedType DEF TypeOK, DeferIntent
<1>12. CASE UNCHANGED playerVars
  BY <1>12 DEF TypeOK, playerVars
<1> QED
  BY <1>1, <1>2, <1>3, <1>4, <1>5, <1>6, <1>7, <1>8, <1>9, <1>10, <1>11, <1>12 DEF Next, Owner

-----------------------------------------------------------------------------

LEMMA PhaseInit == Init => SlotFits /\ PhaseFits /\ NoStaleClose /\ PlayersAreReaped
BY DEF Init, SlotFits, PhaseFits, NoStaleClose, PlayersAreReaped, Players, Live

\* The slot, the phase and the processes move together.
LEMMA PhaseStep == TypeOK /\ SlotFits /\ PhaseFits /\ PlayersAreReaped /\ [Next]_playerVars
                     => SlotFits' /\ PhaseFits' /\ PlayersAreReaped'
<1> SUFFICES ASSUME TypeOK, SlotFits, PhaseFits, PlayersAreReaped, [Next]_playerVars
             PROVE  SlotFits' /\ PhaseFits' /\ PlayersAreReaped'
  OBVIOUS
<1> USE DEF TypeOK, SlotFits, PhaseFits, PlayersAreReaped, Players, Player, Live, Phases
<1>1. CASE Spawn
  BY <1>1 DEF Spawn
<1>2. CASE Connect
  BY <1>2 DEF Connect
<1>3. CASE StartupFails
  BY <1>3 DEF StartupFails
<1>4. CASE HandleClosed
  BY <1>4 DEF HandleClosed, Selecting, AfterClose
<1>5. CASE FinishTurn
  BY <1>5 DEF FinishTurn, CancelSlot
<1>6. CASE Install
  BY <1>6 DEF Install, ReadyTurn, Selecting
<1>7. CASE StartFailed
  BY <1>7 DEF StartFailed, ReadyTurn, Selecting
<1>8. CASE BeginShutdown
  BY <1>8 DEF BeginShutdown
<1>9. CASE ReapStartup
  BY <1>9 DEF ReapStartup, CancelSlot
<1>10. CASE Signal
  BY <1>10 DEF Signal
<1>11. ASSUME NEW n \in Players, MpvDies(n) PROVE SlotFits' /\ PhaseFits' /\ PlayersAreReaped'
  BY <1>11 DEF MpvDies
<1>12. ASSUME NEW n \in Players, ActorCloses(n) PROVE SlotFits' /\ PhaseFits' /\ PlayersAreReaped'
  BY <1>12 DEF ActorCloses
<1>13. ASSUME NEW n \in Players, ConductorNotices(n) PROVE SlotFits' /\ PhaseFits' /\ PlayersAreReaped'
  BY <1>13 DEF ConductorNotices
<1>14. ASSUME NEW intent \in Asked, AdmitIntent(intent) \/ DeferIntent(intent)
       PROVE  SlotFits' /\ PhaseFits' /\ PlayersAreReaped'
  BY <1>14 DEF AdmitIntent, DeferIntent
<1>15. CASE UNCHANGED playerVars
  BY <1>15 DEF playerVars
<1> QED
  BY <1>1, <1>2, <1>3, <1>4, <1>5, <1>6, <1>7, <1>8, <1>9, <1>10, <1>11, <1>12, <1>13, <1>14,
     <1>15 DEF Next, Startup, Owner, Deck

-----------------------------------------------------------------------------

\* NoStaleClose, entry by entry.
CloseFits == life \in Live => \A i \in 1..Len(inbox) : inbox[i] = Player

LEMMA CloseEntries == TypeOK => (NoStaleClose <=> CloseFits)
<1> SUFFICES ASSUME TypeOK PROVE NoStaleClose <=> CloseFits
  OBVIOUS
<1>1. DOMAIN inbox = 1..Len(inbox)
  BY DEF TypeOK
<1>2. ToSet(inbox) = {inbox[i] : i \in 1..Len(inbox)}
  BY <1>1 DEF ToSet
<1> QED
  BY <1>2 DEF NoStaleClose, CloseFits

LEMMA CloseStep == TypeOK /\ SlotFits /\ PhaseFits /\ CloseFits /\ [Next]_playerVars => CloseFits'
<1> SUFFICES ASSUME TypeOK, SlotFits, PhaseFits, CloseFits, [Next]_playerVars PROVE CloseFits'
  OBVIOUS
<1> USE DEF CloseFits, Player, Live
<1>1. CASE Startup
  BY <1>1 DEF Startup, Spawn, Connect, StartupFails
<1>2. CASE HandleClosed
  <2>1. life' \notin Live
    BY <1>2 DEF HandleClosed, AfterClose
  <2> QED
    BY <2>1
<1>3. CASE FinishTurn
  BY <1>3 DEF FinishTurn
<1>4. CASE Install
  <2>1. inbox = <<>> /\ inbox' = inbox
    BY <1>4 DEF Install, ReadyTurn
  <2> QED
    BY <2>1
<1>5. CASE StartFailed
  BY <1>5 DEF StartFailed
<1>6. CASE BeginShutdown
  BY <1>6 DEF BeginShutdown
<1>7. CASE ReapStartup
  BY <1>7 DEF ReapStartup
<1>8. CASE Signal
  BY <1>8 DEF Signal
<1>9. ASSUME NEW n \in Players, MpvDies(n) PROVE CloseFits'
  BY <1>9 DEF MpvDies
<1>10. ASSUME NEW n \in Players, Deck(n) PROVE CloseFits'
  <2>1. mpv[n] \in {"dead", "closed"} /\ inbox' = Append(inbox, n) /\ life' = life
    BY <1>10 DEF Deck, ActorCloses, ConductorNotices
  <2>2. life \in Live => n = Player
    BY <2>1 DEF TypeOK, PhaseFits, Players
  <2>3. \A i \in 1..Len(inbox') : inbox'[i] = n \/ (i \in 1..Len(inbox) /\ inbox'[i] = inbox[i])
    BY <2>1 DEF TypeOK
  <2> QED
    BY <2>1, <2>2, <2>3
<1>11. ASSUME NEW intent \in Asked, AdmitIntent(intent) \/ DeferIntent(intent) PROVE CloseFits'
  BY <1>11 DEF AdmitIntent, DeferIntent
<1>12. CASE UNCHANGED playerVars
  BY <1>12 DEF playerVars
<1> QED
  BY <1>1, <1>2, <1>3, <1>4, <1>5, <1>6, <1>7, <1>8, <1>9, <1>10, <1>11, <1>12 DEF Next, Owner

-----------------------------------------------------------------------------

LEMMA RestoreInit == Init => RestoreFits
BY DEF Init, RestoreFits, Silent, Players, Live, Player, Restore

\* An intent does to the App what it does to a player that shows the same.
LEMMA CommitsAgree ==
  ASSUME TypeOK, NEW intent \in Intents, NEW p \in Playbacks,
         intent.kind = "stop" => intent.song = NoSong,
         app.song # NoSong => p = app,
         Committed(intent).song # NoSong
  PROVE  Played(intent, p) = Committed(intent)
BY DEF Committed, Played

LEMMA RestoreStep == TypeOK /\ PhaseFits /\ RestoreFits /\ [Next]_playerVars => RestoreFits'
<1> SUFFICES ASSUME TypeOK, PhaseFits, RestoreFits, [Next]_playerVars PROVE RestoreFits'
  OBVIOUS
<1> USE DEF RestoreFits, Live, Player
<1>1. CASE Startup \/ ReapStartup \/ Signal
  BY <1>1 DEF Startup, Spawn, Connect, StartupFails, ReapStartup, Signal, Restore
<1>2. CASE HandleClosed
  BY <1>2 DEF HandleClosed, AfterClose, Restore, Selecting, PhaseFits
<1>3. CASE FinishTurn
  BY <1>3 DEF FinishTurn, Restore
<1>4. CASE Install
  <2> DEFINE n == startup.player
             replayed == Replayed(restore, told[n])
  <2>1. PICK admitted \in Admissions(n) :
          /\ app' = IF admitted THEN Committed(deferred) ELSE app
          /\ told' = [told EXCEPT ![n] = IF admitted THEN Played(deferred, replayed)
                                                     ELSE replayed]
    BY <1>4 DEF Install
  <2>2. /\ life \in {"StartingInitial", "StartingReplacement"}
        /\ life' = IF life = "StartingInitial" THEN "LiveInitial" ELSE "LiveReplacement"
        /\ deferred' = None
        /\ n = IF life = "StartingInitial" THEN 1 ELSE 2
        /\ n \in Players
    BY <1>4 DEF Install, ReadyTurn, Selecting, TypeOK, PhaseFits, Phases, Players
  <2>3. told[n] = Silent /\ Silent \in Playbacks
    BY <2>2 DEF Silent, Playbacks
  <2>4. replayed \in Playbacks
    BY <2>3, CommandTypes DEF TypeOK
  <2>5. app.song # NoSong => replayed = app
    <3> SUFFICES ASSUME app.song # NoSong PROVE replayed = app
      OBVIOUS
    <3>1. restore = app /\ restore # None
      BY <2>2, PlayerAssumption DEF Restore, TypeOK
    <3>2. replayed = [song |-> app.song, paused |-> IF app.paused THEN ~FALSE ELSE FALSE]
      BY <2>3, <3>1 DEF Replayed, Silent
    <3>3. app = [song |-> app.song, paused |-> app.paused] /\ app.paused \in BOOLEAN
      BY DEF TypeOK, Playbacks
    <3> QED
      BY <3>2, <3>3
  <2>6. admitted => deferred \in Intents
    BY DEF Admissions, TypeOK
  <2>7. app'.song # NoSong => told'[n] = app'
    <3>1. CASE admitted
      <4> HIDE DEF replayed
      <4>1. app' = Committed(deferred) /\ told'[n] = Played(deferred, replayed)
        BY <2>1, <2>2, <3>1 DEF TypeOK
      <4>2. deferred # None
        BY <2>6, <3>1, PlayerAssumption
      <4> QED
        BY <2>4, <2>5, <2>6, <3>1, <4>1, <4>2, CommitsAgree
    <3>2. CASE ~admitted
      <4> HIDE DEF replayed
      <4>1. app' = app /\ told'[n] = replayed
        BY <2>1, <2>2, <3>2 DEF TypeOK
      <4> QED
        BY <2>5, <4>1
    <3> QED
      BY <3>1, <3>2
  <2>8. life = "StartingInitial" => told'[2] = Silent
    BY <2>1, <2>2 DEF TypeOK, Players
  <2> QED
    BY <2>2, <2>7, <2>8
<1>5. CASE StartFailed
  BY <1>5 DEF StartFailed, DeferredAfterFailure, PhaseFits, ReadyTurn, Selecting, TypeOK, Phases
<1>6. CASE BeginShutdown
  BY <1>6 DEF BeginShutdown
<1>7. ASSUME NEW n \in Players, MpvDies(n) \/ Deck(n) PROVE RestoreFits'
  BY <1>7 DEF MpvDies, Deck, ActorCloses, ConductorNotices, Restore
<1>8. ASSUME NEW intent \in Asked, AdmitIntent(intent) PROVE RestoreFits'
  <2>1. intent \in Intents /\ (intent.kind = "stop" => intent.song = NoSong)
    BY AskedType DEF TypeOK
  <2>2. told[Player] \in Playbacks
    BY PlayerType DEF TypeOK
  <2>3. /\ app' = Committed(intent)
        /\ told' = [told EXCEPT ![Player] = Played(intent, told[Player])]
        /\ life \in Live /\ life' = life /\ UNCHANGED deferred
    BY <1>8 DEF AdmitIntent
  <2>4. app'.song # NoSong => told'[Player] = app'
    <3> HIDE DEF Player
    <3>1. told'[Player] = Played(intent, told[Player])
      BY <2>3, PlayerType DEF TypeOK
    <3>2. app.song # NoSong => told[Player] = app
      BY <2>3
    <3> QED
      BY <2>1, <2>2, <2>3, <3>1, <3>2, CommitsAgree
  <2>5. life = "LiveInitial" => told'[2] = told[2]
    BY <2>3 DEF TypeOK, Players
  <2> QED
    BY <2>3, <2>4, <2>5
<1>9. ASSUME NEW intent \in Asked, DeferIntent(intent) PROVE RestoreFits'
  BY <1>9, AskedType DEF DeferIntent, Restore, TypeOK
<1>10. CASE UNCHANGED playerVars
  BY <1>10 DEF playerVars, Restore
<1> QED
  BY <1>1, <1>2, <1>3, <1>4, <1>5, <1>6, <1>7, <1>8, <1>9, <1>10 DEF Next, Owner

-----------------------------------------------------------------------------

IInv == TypeOK /\ SlotFits /\ PhaseFits /\ PlayersAreReaped /\ CloseFits /\ RestoreFits

LEMMA IInvInit == Init => IInv
<1>1. Init => CloseFits
  BY DEF Init, CloseFits, Live
<1> QED
  BY <1>1, TypeInit, PhaseInit, RestoreInit DEF IInv

LEMMA IInvStep == IInv /\ [Next]_playerVars => IInv'
BY TypeStep, PhaseStep, CloseStep, RestoreStep DEF IInv

LEMMA Inductive == Spec => []IInv
BY IInvInit, IInvStep, PTL DEF Spec

\* No process outlives its owner, and two players never run at a time:
\* whatever fails, closes, restarts or is interrupted by the latch.
THEOREM NoPlayerLeft == Spec => []PlayersAreReaped
<1>1. IInv => PlayersAreReaped
  BY DEF IInv
<1> QED
  BY <1>1, Inductive, PTL

\* A TransportClosed taken while a player is live is that player's own, with
\* no generation in the event to tell: the biased select and the slot suffice.
THEOREM ClosesAreOwn == Spec => []NoStaleClose
<1>1. IInv => NoStaleClose
  BY CloseEntries DEF IInv
<1> QED
  BY <1>1, Inductive, PTL

\* What the App shows is what its live player was told to play, through the
\* restore batch of a replacement and the intent deferred behind it.
THEOREM PlayerFollowsApp == Spec => []ShownIsPlayed
<1>1. IInv => ShownIsPlayed
  BY DEF IInv, RestoreFits, ShownIsPlayed
<1> QED
  BY <1>1, Inductive, PTL

=============================================================================
