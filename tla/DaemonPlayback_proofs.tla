------------------------ MODULE DaemonPlayback_proofs ------------------------
(***************************************************************************)
(* What holds of the headless playback owner whatever the bounds.          *)
(*                                                                         *)
(* Every handler is an operator to a set of outcomes, so what one may do   *)
(* to the recovery is a lemma on its outcomes, stated once for each of     *)
(* the operators the handlers are put together from (Follows for the       *)
(* ordinary ones, Attempted for the recovery's own) and carried from the   *)
(* load of one track up to the commands and the events.  A step of Next is *)
(* then one of three (StepsAre): an ordinary one, an attempt at the        *)
(* recovery, or the close of a transport followed by an attempt.           *)
(*                                                                         *)
(* The bound on the restarts is not inductive by itself.  Counted ties the *)
(* players started to the state of the recovery: none while it is armed,   *)
(* at most one for each attempt while it is under way, and never more      *)
(* than MaxAttempts.                                                       *)
(*                                                                         *)
(* That a running file stays with its own track (Keeps) goes the same way, *)
(* on top of what PlayQueue_proofs shows of the queue, which is            *)
(* instantiated for the one inside the engine.                             *)
(*                                                                         *)
(* That nothing drops out of hand (HandInv) needs more of the events that  *)
(* wait in the loop's queue: Told says that a player whose transport ended *)
(* has its close there, that files are reported in the order they were     *)
(* sent, and that a player that has stopped and still has events there has *)
(* its close or the end of its last file among them.  A late event of an   *)
(* earlier file may therefore be dropped: the one that matters is behind   *)
(* it.  A handler leaves the track running (Running), leaves everything    *)
(* about it alone (Waits), begins a task for it (Chases), or is a command  *)
(* whose refusal is reported.                                              *)
(***************************************************************************)
EXTENDS DaemonPlayback, TLAPS

-----------------------------------------------------------------------------
(* Players and loads *)

\* The fields of an engine.
Fields == {"queue", "player", "loaded", "rec", "recGen", "heal", "retry", "repin",
           "spent", "progressed", "lives"}

IsEngine(e) == DOMAIN e = Fields

LEMMA StopIs ==
  ASSUME NEW e, IsEngine(e)
  PROVE  /\ IsEngine(Stop(e))
         /\ Stop(e).queue = e.queue /\ Stop(e).player = NoPlayer /\ Stop(e).loaded = NoSong
         /\ Stop(e).rec = Armed /\ Stop(e).lives = e.lives /\ Stop(e).recGen = e.recGen
BY DEF IsEngine, Fields, Stop

\* A player that is not started leaves none.
LEMMA EnsurePlayerIs ==
  ASSUME NEW e, IsEngine(e), NEW r \in EnsurePlayer(e)
  PROVE  /\ IsEngine(r.d)
         /\ r.d.queue = e.queue /\ r.d.loaded = e.loaded
         /\ r.d.rec = e.rec /\ r.d.recGen = e.recGen
         /\ r.d.lives = e.lives \/ r.d.lives = e.lives + 1
         /\ r.ok \in BOOLEAN
         /\ ~r.ok => r.d.player = NoPlayer
<1> DEFINE f == IF e.repin THEN [e EXCEPT !.player = NoPlayer, !.repin = FALSE] ELSE e
           started == [f EXCEPT !.lives = @ + 1,
                                !.player = [life |-> f.lives + 1, file |-> 0,
                                            playing |-> FALSE, up |-> TRUE]]
<1>1. /\ IsEngine(f) /\ f.queue = e.queue /\ f.loaded = e.loaded /\ f.rec = e.rec
      /\ f.recGen = e.recGen /\ f.lives = e.lives
  BY DEF IsEngine, Fields
<1>2. EnsurePlayer(e) = IF f.player # NoPlayer THEN {Did(f)}
                        ELSE {Failed(f)} \cup {Did(g) : g \in {h \in {started} : h.lives <= MaxLives}}
  BY DEF EnsurePlayer
<1> HIDE DEF f
<1>3. /\ IsEngine(started) /\ started.queue = f.queue /\ started.loaded = f.loaded
      /\ started.rec = f.rec /\ started.recGen = f.recGen /\ started.lives = f.lives + 1
  BY <1>1 DEF IsEngine, Fields
<1> HIDE DEF started
<1>4. \/ r = Did(f)
      \/ r = Failed(f) /\ f.player = NoPlayer
      \/ r = Did(started)
  BY <1>2
<1>5. ASSUME r = Did(f) PROVE r.d = f /\ r.ok = TRUE
  BY <1>5 DEF Did
<1>6. ASSUME r = Failed(f) PROVE r.d = f /\ r.ok = FALSE
  BY <1>6 DEF Failed
<1>7. ASSUME r = Did(started) PROVE r.d = started /\ r.ok = TRUE
  BY <1>7 DEF Did
<1> QED
  BY <1>1, <1>3, <1>4, <1>5, <1>6, <1>7

LEMMA SendLoadIs ==
  ASSUME NEW e, IsEngine(e), NEW r \in SendLoad(e)
  PROVE  /\ IsEngine(r.d)
         /\ r.d.queue = e.queue /\ r.d.loaded = e.loaded
         /\ r.d.rec = e.rec /\ r.d.lives = e.lives /\ r.d.recGen = e.recGen
         /\ r.ok \in BOOLEAN
<1> DEFINE g == [e EXCEPT !.player.file = @ + 1, !.player.playing = e.player.up]
<1>1. r = Failed(e) \/ r = Did(g)
  BY DEF SendLoad
<1>2. /\ IsEngine(g) /\ g.queue = e.queue /\ g.loaded = e.loaded
      /\ g.rec = e.rec /\ g.lives = e.lives /\ g.recGen = e.recGen
  BY DEF IsEngine, Fields
<1> HIDE DEF g
<1>3. (r.d = e /\ r.ok = FALSE) \/ (r.d = g /\ r.ok = TRUE)
  BY <1>1 DEF Did, Failed
<1> QED
  BY <1>2, <1>3

\* What a handler other than the recovery's may do to the recovery and to the
\* count of players started.
Follows(e, f) ==
  /\ IsEngine(f)
  /\ f.rec \in {e.rec, Armed}
  /\ f.lives = e.lives \/ f.lives = e.lives + 1
  /\ f.rec.state = "Recovering" => f.loaded \in {e.loaded, NoSong}

\* What a refused command may leave.
Refuses(e, r) == ~r.ok => r.d.queue = e.queue \/ r.d.player = NoPlayer

LEMMA SupersedingIs ==
  ASSUME NEW e, IsEngine(e)
  PROVE  /\ IsEngine(Superseding(e)) /\ Superseding(e).queue = e.queue
         /\ Superseding(e).loaded = e.loaded /\ Superseding(e).rec = e.rec
         /\ Superseding(e).lives = e.lives /\ Superseding(e).recGen = e.recGen
BY DEF IsEngine, Fields, Superseding

LEMMA LoadOrdinaryIs ==
  ASSUME NEW e, IsEngine(e), NEW r \in LoadOrdinary(e)
  PROVE  /\ IsEngine(r.d) /\ r.d.queue = e.queue
         /\ r.d.rec \in {e.rec, Armed} /\ r.d.lives = e.lives
         /\ r.d.rec.state = "Recovering" => r.d.loaded \in {e.loaded, NoSong}
         /\ r.ok \in BOOLEAN
<1>1. IsEngine(Superseding(e)) /\ Superseding(e).queue = e.queue
      /\ Superseding(e).rec = e.rec /\ Superseding(e).lives = e.lives
      /\ Superseding(e).loaded = e.loaded
  BY SupersedingIs
<1>0. Armed.state # "Recovering"
  BY DEF Armed
<1>2. CASE r = Did(Stop(e))
  <2>1. r.d = Stop(e) /\ r.ok = TRUE
    BY <1>2 DEF Did
  <2> QED
    BY <2>1, StopIs
<1>3. CASE r \in Refused(e)
  <2>1. r \in SendLoad(Superseding(e))
    BY <1>3 DEF Refused
  <2> QED
    BY <1>1, <2>1, SendLoadIs
<1>4. CASE \E s \in Sent(e) :
             r = Did([s.d EXCEPT !.loaded = PlayingId(e.queue), !.rec = Armed,
                                 !.spent = FALSE, !.progressed = FALSE])
  <2>1. PICK s \in SendLoad(Superseding(e)) :
             r = Did([s.d EXCEPT !.loaded = PlayingId(e.queue), !.rec = Armed,
                                 !.spent = FALSE, !.progressed = FALSE])
    BY <1>4 DEF Sent
  <2>2. IsEngine(s.d) /\ s.d.queue = e.queue /\ s.d.lives = e.lives
    BY <1>1, SendLoadIs
  <2>3. r.ok = TRUE /\ r.d = [s.d EXCEPT !.loaded = PlayingId(e.queue), !.rec = Armed,
                                 !.spent = FALSE, !.progressed = FALSE]
    BY <2>1 DEF Did
  <2>4. /\ IsEngine(r.d) /\ r.d.queue = s.d.queue /\ r.d.rec = Armed
        /\ r.d.lives = s.d.lives
    BY <2>2, <2>3 DEF IsEngine, Fields
  <2> QED
    BY <1>0, <2>2, <2>3, <2>4
<1>5. \/ r = Did(Stop(e))
      \/ r \in OrdinaryLoads(e)
  BY DEF LoadOrdinary
<1>6. CASE r \in OrdinaryLoads(e) /\ r \notin Refused(e)
  BY <1>4, <1>6 DEF OrdinaryLoads
<1> QED
  BY <1>2, <1>3, <1>5, <1>6

LEMMA LoadCurrentIs ==
  ASSUME NEW e, IsEngine(e), NEW r \in LoadCurrent(e)
  PROVE  /\ Follows(e, r.d)
         /\ r.ok \in BOOLEAN
         /\ Refuses(e, r)
<1>1. PICK s \in EnsurePlayer(e) : \/ s.ok /\ r \in LoadOrdinary(s.d)
                                   \/ ~s.ok /\ r = s
  BY DEF LoadCurrent, Then
<1>2. /\ IsEngine(s.d) /\ s.d.queue = e.queue /\ s.d.rec = e.rec
      /\ s.d.loaded = e.loaded
      /\ s.d.lives = e.lives \/ s.d.lives = e.lives + 1
      /\ s.ok \in BOOLEAN
      /\ ~s.ok => s.d.player = NoPlayer
  BY EnsurePlayerIs
<1>3. CASE r \in LoadOrdinary(s.d)
  BY <1>2, <1>3, LoadOrdinaryIs DEF Follows, Refuses
<1>4. CASE ~s.ok /\ r = s
  BY <1>2, <1>4 DEF Follows, Refuses
<1> QED
  BY <1>1, <1>3, <1>4

LEMMA LoadOrRestoreIs ==
  ASSUME NEW e, IsEngine(e), NEW moved, NEW r \in LoadOrRestore(e, moved)
  PROVE  /\ Follows(e, r.d)
         /\ r.ok \in BOOLEAN
         /\ Refuses(e, r)
<1> DEFINE f == [e EXCEPT !.queue = moved]
<1>1. IsEngine(f) /\ f.rec = e.rec /\ f.lives = e.lives /\ f.loaded = e.loaded
  BY DEF IsEngine, Fields
<1>2. PICK s \in EnsurePlayer(f) :
        \/ s.ok /\ \E t \in LoadOrdinary(s.d) :
                     r = IF t.ok THEN t ELSE Failed([t.d EXCEPT !.queue = e.queue])
        \/ ~s.ok /\ r = s
  BY DEF LoadOrRestore, Then
<1> HIDE DEF f
<1>3. /\ IsEngine(s.d) /\ s.d.rec = e.rec /\ s.d.loaded = e.loaded
      /\ s.d.lives = e.lives \/ s.d.lives = e.lives + 1
      /\ s.ok \in BOOLEAN
      /\ ~s.ok => s.d.player = NoPlayer
  BY <1>1, EnsurePlayerIs
<1>4. CASE ~s.ok /\ r = s
  BY <1>3, <1>4 DEF Follows, Refuses
<1>5. ASSUME NEW t \in LoadOrdinary(s.d),
             r = IF t.ok THEN t ELSE Failed([t.d EXCEPT !.queue = e.queue])
      PROVE  Follows(e, r.d) /\ r.ok \in BOOLEAN /\ Refuses(e, r)
  <2>1. /\ IsEngine(t.d) /\ t.d.rec \in {s.d.rec, Armed} /\ t.d.lives = s.d.lives
        /\ t.d.rec.state = "Recovering" => t.d.loaded \in {s.d.loaded, NoSong}
        /\ t.ok \in BOOLEAN
    BY <1>3, LoadOrdinaryIs
  <2>2. CASE t.ok
    BY <1>3, <1>5, <2>1, <2>2 DEF Follows, Refuses
  <2>3. CASE ~t.ok
    <3>1. r.d = [t.d EXCEPT !.queue = e.queue] /\ r.ok = FALSE
      BY <1>5, <2>3 DEF Failed
    <3>2. IsEngine(r.d) /\ r.d.queue = e.queue /\ r.d.rec = t.d.rec /\ r.d.lives = t.d.lives
          /\ r.d.loaded = t.d.loaded
      BY <2>1, <3>1 DEF IsEngine, Fields
    <3> QED
      BY <1>3, <2>1, <3>1, <3>2 DEF Follows, Refuses
  <2> QED
    BY <2>2, <2>3
<1> QED
  BY <1>2, <1>4, <1>5

LEMMA OrStopIs ==
  ASSUME NEW e, NEW outcomes, \A r \in outcomes : Follows(e, r.d), NEW r \in OrStop(outcomes)
  PROVE  Follows(e, r.d)
<1>1. PICK s \in outcomes : r = IF s.ok THEN s ELSE Failed(Stop(s.d))
  BY DEF OrStop
<1>2. Follows(e, s.d)
  OBVIOUS
<1>3. CASE r = Failed(Stop(s.d))
  <2>1. r.d = Stop(s.d)
    BY <1>3 DEF Failed
  <2> QED
    BY <1>2, <2>1, StopIs DEF Follows
<1> QED
  BY <1>1, <1>2, <1>3

-----------------------------------------------------------------------------
(* The commands *)

LEMMA SameFollows ==
  ASSUME NEW e, IsEngine(e)
  PROVE  Follows(e, e) /\ Follows(e, Stop(e))
BY StopIs DEF Follows

LEMMA QueueFollows ==
  ASSUME NEW e, IsEngine(e), NEW moved
  PROVE  /\ IsEngine([e EXCEPT !.queue = moved])
         /\ Follows(e, [e EXCEPT !.queue = moved])
         /\ Follows(e, Stop([e EXCEPT !.queue = moved]))
         /\ \A f : Follows([e EXCEPT !.queue = moved], f) => Follows(e, f)
<1> DEFINE g == [e EXCEPT !.queue = moved]
<1>1. IsEngine(g) /\ g.rec = e.rec /\ g.lives = e.lives /\ g.loaded = e.loaded
  BY DEF IsEngine, Fields
<1> HIDE DEF g
<1>2. Follows(e, g) /\ Follows(e, Stop(g)) /\ \A f : Follows(g, f) => Follows(e, f)
  BY <1>1, StopIs DEF Follows
<1> QED
  BY <1>1, <1>2 DEF g

\* Done or refused by a command that starts from e.
Answers(e, r) == Follows(e, r.d) /\ Refuses(e, r)

LEMMA DidAnswers ==
  ASSUME NEW e, NEW f, Follows(e, f)
  PROVE  Answers(e, Did(f))
BY DEF Answers, Refuses, Did

LEMMA RemovedIs ==
  ASSUME NEW e, IsEngine(e), NEW removal,
         removal.playback \in {"Unchanged", "LoadSelected", "Stop"},
         NEW r \in Removed(e, removal)
  PROVE  Answers(e, r)
<1>1. CASE removal.playback = "Unchanged"
  <2>1. r = Did([e EXCEPT !.queue = removal.queue])
    BY <1>1 DEF Removed
  <2> QED
    BY <2>1, QueueFollows, DidAnswers
<1>2. CASE removal.playback = "LoadSelected"
  <2>1. r \in LoadOrRestore(e, removal.queue)
    BY <1>2 DEF Removed
  <2> QED
    BY <2>1, LoadOrRestoreIs DEF Answers
<1>3. CASE removal.playback = "Stop"
  <2>1. r = Did(Stop([e EXCEPT !.queue = removal.queue]))
    BY <1>3 DEF Removed
  <2> QED
    BY <2>1, QueueFollows, DidAnswers
<1> QED
  BY <1>1, <1>2, <1>3

LEMMA AppendedIs ==
  ASSUME NEW e, IsEngine(e), NEW more, NEW r \in Appended(e, more)
  PROVE  Answers(e, r)
<1>1. PICK c \in PQ!Extend(e.queue, more) :
        \/ r \in LoadOrRestore(e, PQ!AtCursor(c, Len(e.queue.order) + 1))
        \/ r = Did([e EXCEPT !.queue = c])
  BY DEF Appended
<1>2. CASE r \in LoadOrRestore(e, PQ!AtCursor(c, Len(e.queue.order) + 1))
  BY <1>2, LoadOrRestoreIs DEF Answers
<1>3. CASE r = Did([e EXCEPT !.queue = c])
  BY <1>3, QueueFollows, DidAnswers
<1> QED
  BY <1>1, <1>2, <1>3

LEMMA PlaybackIs ==
  ASSUME NEW e, IsEngine(e), NEW r \in PlaybackCommands(e)
  PROVE  Answers(e, r)
<1>1. ASSUME NEW f, r = Failed(f), Follows(e, f), f.queue = e.queue PROVE Answers(e, r)
  BY <1>1 DEF Answers, Refuses, Failed
<1>2. ASSUME NEW moved, r \in LoadOrRestore(e, moved) PROVE Answers(e, r)
  BY <1>2, LoadOrRestoreIs DEF Answers
<1>3. Follows(e, e) /\ Follows(e, Stop(e)) /\ Stop(e).queue = e.queue
  BY SameFollows, StopIs
<1>4. CASE r \in NextTrack(e)
  <2>1. r = Failed(e) \/ r = Failed(Stop(e)) \/ \E moved : r \in LoadOrRestore(e, moved)
    BY <1>4 DEF NextTrack
  <2> QED
    BY <1>1, <1>2, <1>3, <2>1
<1>5. CASE r \in PrevTrack(e)
  <2>1. r = Failed(e) \/ \E moved : r \in LoadOrRestore(e, moved)
    BY <1>5 DEF PrevTrack
  <2> QED
    BY <1>1, <1>2, <1>3, <2>1
<1>6. CASE r \in QueuePlay(e)
  <2>1. \E moved : r \in LoadOrRestore(e, moved)
    BY <1>6 DEF QueuePlay
  <2> QED
    BY <1>2, <2>1
<1>7. CASE r \in QueueRemove(e)
  <2>1. PICK pos \in DOMAIN e.queue.order : r \in Removed(e, PQ!DaemonRemove(e.queue, pos))
    BY <1>7 DEF QueueRemove
  <2>2. PQ!DaemonRemove(e.queue, pos).playback \in {"Unchanged", "LoadSelected", "Stop"}
    BY DEF PQ!DaemonRemove
  <2> QED
    BY <2>1, <2>2, RemovedIs
<1>8. CASE r \in BanCurrent(e)
  <2>1. PICK ids \in SUBSET VideoIds : r \in Removed(e, FirstPlayableAfter(PQ!Purge(e.queue, ids)))
    BY <1>8 DEF BanCurrent
  <2>2. PQ!Purge(e.queue, ids).playback \in {"Unchanged", "LoadSelected", "Stop"}
    BY DEF PQ!Purge
  <2>3. FirstPlayableAfter(PQ!Purge(e.queue, ids)).playback \in {"Unchanged", "LoadSelected", "Stop"}
    BY <2>2 DEF FirstPlayableAfter
  <2> QED
    BY <2>1, <2>3, RemovedIs
<1>9. CASE r \in SearchAndPlay(e)
  <2>1. \E moved : r \in LoadOrRestore(e, moved)
    BY <1>9 DEF SearchAndPlay
  <2> QED
    BY <1>2, <2>1
<1>10. CASE r \in Enqueue(e)
  <2> DEFINE added == UNION {Appended(e, more) : more \in {m \in Blocks : Fits(e, m)}}
             next == {Did([e EXCEPT !.queue = PQ!InsertAfterCurrent(e.queue, more)]) :
                        more \in {m \in Blocks : Fits(e, m) /\ e.loaded # NoSong}}
  <2>0. Enqueue(e) = added \cup next
    BY DEF Enqueue
  <2>1. CASE r \in added
    <3>1. PICK more \in Blocks : r \in Appended(e, more)
      BY <2>1
    <3> QED
      BY <3>1, AppendedIs
  <2>2. CASE r \in next
    <3>1. PICK more : r = Did([e EXCEPT !.queue = PQ!InsertAfterCurrent(e.queue, more)])
      BY <2>2
    <3> DEFINE moved == PQ!InsertAfterCurrent(e.queue, more)
    <3> HIDE DEF moved
    <3>2. r = Did([e EXCEPT !.queue = moved])
      BY <3>1 DEF moved
    <3> QED
      BY <3>2, QueueFollows, DidAnswers
  <2> HIDE DEF added, next
  <2> QED
    BY <1>10, <2>0, <2>1, <2>2
<1>11. CASE r \in TogglePause(e)
  <2>1. r \in LoadCurrent(e)
    BY <1>11 DEF TogglePause
  <2> QED
    BY <2>1, LoadCurrentIs DEF Answers
<1> QED
  BY <1>4, <1>5, <1>6, <1>7, <1>8, <1>9, <1>10, <1>11 DEF PlaybackCommands

-----------------------------------------------------------------------------
(* Advances, media commands and edits *)

\* An engine that differs in nothing that Follows speaks of.
Alike(e, f) == IsEngine(f) /\ f.rec = e.rec /\ f.lives = e.lives /\ f.loaded = e.loaded

LEMMA AlikeFollows ==
  ASSUME NEW e, NEW f, Alike(e, f)
  PROVE  /\ Follows(e, f)
         /\ \A g : Follows(f, g) => Follows(e, g)
BY DEF Alike, Follows

LEMMA MovedIsAlike ==
  ASSUME NEW e, NEW f, Alike(e, f), NEW moved
  PROVE  Alike(e, [f EXCEPT !.queue = moved])
BY DEF Alike, IsEngine, Fields

LEMMA LoadStops ==
  ASSUME NEW e, NEW f, Alike(e, f), NEW r \in OrStop(LoadCurrent(f))
  PROVE  Follows(e, r.d)
<1>1. IsEngine(f)
  BY DEF Alike
<1>2. \A s \in LoadCurrent(f) : Follows(f, s.d)
  BY <1>1, LoadCurrentIs
<1>3. Follows(f, r.d)
  BY <1>2, OrStopIs
<1> QED
  BY <1>3, AlikeFollows

LEMMA AdvanceIs ==
  ASSUME NEW e, IsEngine(e), NEW r \in AdvanceAfterEnd(e)
  PROVE  Follows(e, r.d)
<1>1. CASE r = Did(Stop(e))
  <2>1. r.d = Stop(e)
    BY <1>1 DEF Did
  <2> QED
    BY <2>1, SameFollows
<1>2. CASE \E pos : r \in OrStop(LoadCurrent([e EXCEPT !.queue = PQ!AtCursor(@, pos)]))
  <2>1. PICK pos : r \in OrStop(LoadCurrent([e EXCEPT !.queue = PQ!AtCursor(@, pos)]))
    BY <1>2
  <2> DEFINE moved == PQ!AtCursor(e.queue, pos)
  <2> HIDE DEF moved
  <2>2. r \in OrStop(LoadCurrent([e EXCEPT !.queue = moved]))
    BY <2>1 DEF moved
  <2>3. Alike(e, [e EXCEPT !.queue = moved])
    BY MovedIsAlike DEF Alike
  <2> QED
    BY <2>2, <2>3, LoadStops
<1> QED
  BY <1>1, <1>2 DEF AdvanceAfterEnd

LEMMA SkippedIs ==
  ASSUME NEW e, IsEngine(e), NEW count, NEW r \in Skipped(e, count)
  PROVE  Follows(e, r.d)
<1>1. CASE r = Did(Stop(e))
  <2>1. r.d = Stop(e)
    BY <1>1 DEF Did
  <2> QED
    BY <2>1, SameFollows
<1>2. CASE \E pos : r \in OrStop(LoadCurrent([e EXCEPT !.queue = PQ!AtCursor(@, pos)]))
  <2>1. PICK pos : r \in OrStop(LoadCurrent([e EXCEPT !.queue = PQ!AtCursor(@, pos)]))
    BY <1>2
  <2> DEFINE moved == PQ!AtCursor(e.queue, pos)
  <2> HIDE DEF moved
  <2>2. r \in OrStop(LoadCurrent([e EXCEPT !.queue = moved]))
    BY <2>1 DEF moved
  <2>3. Alike(e, [e EXCEPT !.queue = moved])
    BY MovedIsAlike DEF Alike
  <2> QED
    BY <2>2, <2>3, LoadStops
<1> QED
  BY <1>1, <1>2 DEF Skipped

\* The media commands, the restored session and the edits.
LEMMA MediaIs ==
  ASSUME NEW e, IsEngine(e), NEW r \in OpenUri(e) \cup MediaStop(e)
  PROVE  Follows(e, r.d)
<1>1. CASE r \in OpenUri(e)
  <2>1. PICK more \in Blocks : r \in OrStop(LoadOrRestore(e, PQ!PlayNow(e.queue, more)))
    BY <1>1 DEF OpenUri
  <2> DEFINE moved == PQ!PlayNow(e.queue, more)
  <2> HIDE DEF moved
  <2>2. \A s \in LoadOrRestore(e, moved) : Follows(e, s.d)
    BY LoadOrRestoreIs
  <2>3. r \in OrStop(LoadOrRestore(e, moved))
    BY <2>1 DEF moved
  <2> QED
    BY <2>2, <2>3, OrStopIs
<1>2. CASE r \in MediaStop(e)
  <2>1. r.d = Stop(e)
    BY <1>2 DEF MediaStop, Did
  <2> QED
    BY <2>1, SameFollows
<1> QED
  BY <1>1, <1>2

LEMMA ResumeIs ==
  ASSUME NEW e, IsEngine(e), NEW r \in ResumeSession(e)
  PROVE  Follows(e, r.d)
<1>1. PICK c \in Restorable(e) :
        LET f == [e EXCEPT !.queue = c, !.progressed = FALSE]
        IN r \in IF PlayingId(c) = NoSong THEN {Failed(f)} ELSE LoadCurrent(f)
  BY DEF ResumeSession
<1> DEFINE f == [e EXCEPT !.queue = c, !.progressed = FALSE]
<1>2. Alike(e, f)
  BY DEF Alike, IsEngine, Fields
<1> HIDE DEF f
<1>3. CASE r = Failed(f)
  <2>1. r.d = f
    BY <1>3 DEF Failed
  <2> QED
    BY <1>2, <2>1, AlikeFollows
<1>4. CASE r \in LoadCurrent(f)
  <2>1. Follows(f, r.d)
    BY <1>2, <1>4, LoadCurrentIs DEF Alike
  <2> QED
    BY <1>2, <2>1, AlikeFollows
<1> QED
  BY <1>1, <1>3, <1>4 DEF f

LEMMA EditIs ==
  ASSUME NEW e, IsEngine(e), NEW r \in EditQueue(e)
  PROVE  Follows(e, r.d)
<1>1. PICK c : r = Did([e EXCEPT !.queue = c])
  BY DEF EditQueue
<1>2. r.d = [e EXCEPT !.queue = c]
  BY <1>1 DEF Did
<1> QED
  BY <1>2, QueueFollows

LEMMA PlaybackErrorIs ==
  ASSUME NEW e, Alike(d, e), NEW class, NEW rest, PlaybackError(e, class, rest)
  PROVE  Follows(d, d')
<1>0. IsEngine(e) /\ \A g : Follows(e, g) => Follows(d, g)
  BY AlikeFollows DEF Alike
<1>1. CASE RecoverSource(e, class)
  <2>1. PICK r \in SendLoad(e) : d' = [r.d EXCEPT !.spent = TRUE]
    BY <1>1 DEF RecoverSource
  <2>2. IsEngine(r.d) /\ r.d.rec = e.rec /\ r.d.lives = e.lives /\ r.d.loaded = e.loaded
    BY <1>0, SendLoadIs
  <2>3. Alike(e, d')
    BY <2>1, <2>2 DEF Alike, IsEngine, Fields
  <2> QED
    BY <1>0, <2>3, AlikeFollows
<1>2. CASE BeginLoadRetry(e, class, rest)
  <2>1. d' = [e EXCEPT !.retry = PlayingId(e.queue)]
    BY <1>2 DEF BeginLoadRetry
  <2>2. Alike(e, d')
    BY <1>0, <2>1 DEF Alike, IsEngine, Fields
  <2> QED
    BY <1>0, <2>2, AlikeFollows
<1>3. CASE BeginHeal(e, class, rest)
  <2>1. d' = [e EXCEPT !.heal = PlayingId(e.queue)]
    BY <1>3 DEF BeginHeal
  <2>2. Alike(e, d')
    BY <1>0, <2>1 DEF Alike, IsEngine, Fields
  <2> QED
    BY <1>0, <2>2, AlikeFollows
<1>4. CASE SkipOrStop(e)
  <2>1. PICK r \in Skipped(e, errors + 1) : d' = r.d
    BY <1>4 DEF SkipOrStop
  <2> QED
    BY <1>0, <2>1, SkippedIs
<1> QED
  BY <1>1, <1>2, <1>3, <1>4 DEF PlaybackError

-----------------------------------------------------------------------------
(* The recovery *)

RecFields == {"state", "id", "gen", "attempts"}

\* f is what an attempt at the recovery of e may leave.
Attempted(e, f) ==
  /\ IsEngine(f)
  /\ e.rec.state = "Recovering"
  /\ e.rec.attempts < MaxAttempts
  /\ f.lives = e.lives \/ f.lives = e.lives + 1
  /\ \/ f.rec = [e.rec EXCEPT !.attempts = @ + 1] /\ f.loaded = e.loaded
     \/ f.rec = Armed
     \/ f.rec = Disarmed /\ f.loaded = e.rec.id

LEMMA LoadRecoveryIs ==
  ASSUME NEW e, IsEngine(e), NEW r \in LoadRecovery(e)
  PROVE  /\ IsEngine(r.d) /\ r.d.lives = e.lives
         /\ \/ r.d.rec = e.rec /\ r.d.loaded = e.loaded
            \/ r.d.rec = Armed
            \/ r.d.rec = Disarmed /\ r.d.loaded = e.rec.id
<1>1. /\ IsEngine(Superseding(e)) /\ Superseding(e).rec = e.rec
      /\ Superseding(e).lives = e.lives /\ Superseding(e).loaded = e.loaded
  BY SupersedingIs
<1>2. CASE r = Did(Stop(e))
  <2>1. r.d = Stop(e)
    BY <1>2 DEF Did
  <2> QED
    BY <2>1, StopIs
<1>3. CASE r = Failed(Superseding(e))
  <2>1. r.d = Superseding(e)
    BY <1>3 DEF Failed
  <2> QED
    BY <1>1, <2>1
<1>4. CASE r \in RecoveryLoads(e) /\ e.rec.id = PlayingId(e.queue)
  <2>1. CASE r \in Refused(e)
    BY <1>1, <2>1, SendLoadIs DEF Refused
  <2>2. CASE r \notin Refused(e)
    <3> DEFINE Replayed(s, resumed) ==
                 Did([s.d EXCEPT !.loaded = PlayingId(e.queue), !.rec = Disarmed,
                                 !.progressed = resumed])
               admitted == {Replayed(f, resumed) : f \in Sent(e), resumed \in BOOLEAN}
    <3>0. RecoveryLoads(e) = Refused(e) \cup admitted
      BY DEF RecoveryLoads
    <3>1. PICK s \in Sent(e), resumed \in BOOLEAN :
            r = Replayed(s, resumed)
      <4>1. r \in admitted
        <5> HIDE DEF admitted
        <5> QED
          BY <1>4, <2>2, <3>0
      <4> HIDE DEF Replayed
      <4> QED
        BY <4>1
    <3>2. IsEngine(s.d) /\ s.d.lives = e.lives
      BY <1>1, SendLoadIs DEF Sent
    <3>3. r.d = [s.d EXCEPT !.loaded = PlayingId(e.queue), !.rec = Disarmed,
                            !.progressed = resumed]
      BY <3>1 DEF Did
    <3>4. IsEngine(r.d) /\ r.d.lives = e.lives /\ r.d.rec = Disarmed
          /\ r.d.loaded = PlayingId(e.queue)
      BY <3>2, <3>3 DEF IsEngine, Fields
    <3> QED
      BY <1>4, <3>4
  <2> QED
    BY <2>1, <2>2
<1>5. \/ r = Did(Stop(e))
      \/ r = Failed(Superseding(e))
      \/ r \in RecoveryLoads(e) /\ e.rec.id = PlayingId(e.queue)
  BY DEF LoadRecovery
<1> QED
  BY <1>2, <1>3, <1>4, <1>5

LEMMA AttemptIs ==
  ASSUME NEW e, IsEngine(e), DOMAIN e.rec = RecFields, NEW gen, NEW r \in AttemptRecovery(e, gen)
  PROVE  r.d = e \/ Attempted(e, r.d)
<1>1. CASE ~MayAttempt(e, gen)
  <2>1. r.d = e
    BY <1>1 DEF AttemptRecovery, Did
  <2> QED
    BY <2>1
<1>2. CASE MayAttempt(e, gen)
  <2> DEFINE f == [e EXCEPT !.rec.attempts = @ + 1]
  <2>1. PICK s \in EnsurePlayer(f) : \/ s.ok /\ r \in LoadRecovery(s.d)
                                     \/ ~s.ok /\ r = s
    BY <1>2 DEF AttemptRecovery, Then
  <2>2. /\ IsEngine(f) /\ f.lives = e.lives /\ f.loaded = e.loaded
        /\ f.rec = [e.rec EXCEPT !.attempts = @ + 1]
    BY DEF IsEngine, Fields
  <2>3. f.rec.id = e.rec.id
    BY <2>2 DEF RecFields
  <2>4. e.rec.state = "Recovering" /\ e.rec.attempts < MaxAttempts
    BY <1>2 DEF MayAttempt
  <2> HIDE DEF f
  <2>5. /\ IsEngine(s.d) /\ s.d.rec = f.rec /\ s.d.loaded = f.loaded
        /\ s.d.lives = e.lives \/ s.d.lives = e.lives + 1
    BY <2>2, EnsurePlayerIs
  <2>6. CASE r \in LoadRecovery(s.d)
    <3>1. /\ IsEngine(r.d) /\ r.d.lives = s.d.lives
          /\ \/ r.d.rec = s.d.rec /\ r.d.loaded = s.d.loaded
             \/ r.d.rec = Armed
             \/ r.d.rec = Disarmed /\ r.d.loaded = s.d.rec.id
      BY <2>5, <2>6, LoadRecoveryIs
    <3> QED
      BY <2>2, <2>3, <2>4, <2>5, <3>1 DEF Attempted
  <2>7. CASE r = s
    BY <2>2, <2>4, <2>5, <2>7 DEF Attempted
  <2> QED
    BY <2>1, <2>6, <2>7
<1> QED
  BY <1>1, <1>2

LEMMA ClosedIs ==
  ASSUME NEW e, IsEngine(e), e.player # NoPlayer
  PROVE  LET f == TransportClosed(e)
         IN /\ IsEngine(f) /\ f.lives = e.lives /\ f.loaded = NoSong
            /\ f.rec = Begin(e)
BY DEF TransportClosed, IsEngine, Fields

-----------------------------------------------------------------------------
(* The steps *)

\* The recovery and the players it started since it was armed.
Counted(rec, n) ==
  /\ DOMAIN rec = RecFields
  /\ rec.state \in {"Armed", "Recovering", "Disarmed"}
  /\ rec.attempts \in Nat
  /\ n \in Nat
  /\ rec.state = "Armed" => n = 0
  /\ rec.state = "Recovering" => n <= rec.attempts /\ rec.attempts <= MaxAttempts
  /\ n <= MaxAttempts

DaemonInv ==
  /\ IsEngine(d)
  /\ d.lives \in Nat
  /\ Counted(d.rec, restarts)

\* A step that is not the recovery's.
Ordinary ==
  /\ Follows(d, d')
  /\ \/ d'.rec.state = "Armed" /\ restarts' = 0
     \/ d'.rec = d.rec /\ restarts' = restarts

\* A step of the recovery, which starts from e.
RecoveryFrom(e) ==
  /\ d' = e \/ Attempted(e, d')
  /\ Recount(TRUE)

LEMMA HandledIsOrdinary ==
  ASSUME DaemonInv, Follows(d, d'), Recount(FALSE)
  PROVE  Ordinary
<1>1. CASE d'.rec.state = "Armed"
  BY <1>1 DEF Recount, Ordinary
<1>2. CASE d'.rec.state # "Armed"
  <2>1. d'.rec = d.rec
    BY <1>2 DEF Follows, Armed
  <2>2. restarts' = restarts
    BY <1>2 DEF Recount
  <2> QED
    BY <2>1, <2>2 DEF Ordinary
<1> QED
  BY <1>1, <1>2

LEMMA StepsAre ==
  ASSUME DaemonInv, [Next]_vars
  PROVE  \/ Ordinary
         \/ RecoveryFrom(d)
         \/ d.player # NoPlayer /\ RecoveryFrom(TransportClosed(d))
<1>0. IsEngine(d) /\ DOMAIN d.rec = RecFields /\ Alike(d, d)
  BY DEF DaemonInv, Counted, Alike
<1>1. ASSUME NEW outcomes, Handled(outcomes), \A r \in outcomes : Follows(d, r.d)
      PROVE  Ordinary
  <2>1. Follows(d, d') /\ Recount(FALSE)
    BY <1>1 DEF Handled
  <2> QED
    BY <2>1, HandledIsOrdinary
<1>2. CASE Play
  <2>1. \A r \in PlaybackCommands(d) : Follows(d, r.d)
    BY <1>0, PlaybackIs DEF Answers
  <2> QED
    BY <1>1, <1>2, <2>1 DEF Play
<1>3. CASE Media
  <2>1. \A r \in OpenUri(d) \cup MediaStop(d) : Follows(d, r.d)
    BY <1>0, MediaIs
  <2> QED
    BY <1>1, <1>3, <2>1 DEF Media
<1>4. CASE Resume
  <2>1. \A r \in ResumeSession(d) : Follows(d, r.d)
    BY <1>0, ResumeIs
  <2> QED
    BY <1>1, <1>4, <2>1 DEF Resume
<1>5. CASE Edit
  <2>1. \A r \in EditQueue(d) : Follows(d, r.d)
    BY <1>0, EditIs
  <2> QED
    BY <1>1, <1>5, <2>1 DEF Edit
<1>6. CASE AutoplayPicks
  <2> DEFINE picks == UNION {Appended(d, more) : more \in {m \in Blocks : Fits(d, m)}}
  <2>1. \A r \in picks : Follows(d, r.d)
    BY <1>0, AppendedIs DEF Answers
  <2>2. Handled(picks)
    BY <1>6 DEF AutoplayPicks
  <2> HIDE DEF picks
  <2> QED
    BY <1>1, <2>1, <2>2
<1>7. CASE CrossfadeDue
  <2>1. \A r \in AdvanceAfterEnd(d) : Follows(d, r.d)
    BY <1>0, AdvanceIs
  <2> QED
    BY <1>1, <1>7, <2>1 DEF CrossfadeDue
<1>8. CASE FileEnds \/ TransportFails \/ Progress
  <2>1. restarts' = restarts
    BY <1>8 DEF FileEnds, TransportFails, Progress
  <2>2. Alike(d, d')
    <3>1. CASE FileEnds
      <4>1. d' = [d EXCEPT !.player.playing = FALSE]
        BY <3>1 DEF FileEnds
      <4> QED
        BY <1>0, <4>1 DEF Alike, IsEngine, Fields
    <3>2. CASE TransportFails
      <4>1. d' = [d EXCEPT !.player.up = FALSE, !.player.playing = FALSE]
        BY <3>2 DEF TransportFails
      <4> QED
        BY <1>0, <4>1 DEF Alike, IsEngine, Fields
    <3>3. CASE Progress
      <4>1. d' = [d EXCEPT !.progressed = TRUE]
        BY <3>3 DEF Progress
      <4> QED
        BY <1>0, <4>1 DEF Alike, IsEngine, Fields
    <3> QED
      BY <1>8, <3>1, <3>2, <3>3
  <2> QED
    BY <2>1, <2>2, AlikeFollows DEF Ordinary, Alike
<1>9. CASE HandlePlayerEvent
  <2> DEFINE event == Head(inbox)
  <2>1. CASE event.kind = "Closed"
    <3>1. OnTransportClosed /\ Recount(TRUE)
      BY <1>9, <2>1 DEF HandlePlayerEvent
    <3>2. CASE d.player = NoPlayer
      <4>1. TransportClosed(d) = d
        BY <3>2 DEF TransportClosed
      <4>2. d' = d
        BY <3>1, <3>2, <4>1 DEF OnTransportClosed
      <4> QED
        BY <3>1, <4>2 DEF RecoveryFrom
    <3>3. CASE d.player # NoPlayer
      <4> DEFINE closed == TransportClosed(d)
      <4>1. IsEngine(closed) /\ closed.rec = Begin(d)
        BY <1>0, <3>3, ClosedIs
      <4>2. DOMAIN closed.rec = RecFields
        BY <4>1 DEF Begin, Recovering, Armed, Disarmed, RecFields
      <4>3. d' = closed \/ \E r \in AttemptRecovery(closed, closed.recGen) : d' = r.d
        BY <3>1 DEF OnTransportClosed
      <4> HIDE DEF closed
      <4>4. d' = closed \/ Attempted(closed, d')
        BY <4>1, <4>2, <4>3, AttemptIs
      <4> QED
        BY <3>1, <3>3, <4>4 DEF RecoveryFrom, closed
    <3> QED
      BY <3>2, <3>3
  <2>2. CASE event.kind # "Closed"
    <3>1. Recount(FALSE)
      BY <1>9, <2>2 DEF HandlePlayerEvent
    <3>2. \/ \E r \in AdvanceAfterEnd(d) : d' = r.d
          \/ \E class \in ErrorClasses : PlaybackError(d, class, tasks)
          \/ d' = d
      BY <1>9, <2>2 DEF HandlePlayerEvent
    <3>3. Follows(d, d')
      BY <1>0, <3>2, AdvanceIs, PlaybackErrorIs, SameFollows
    <3> QED
      BY <3>1, <3>3, HandledIsOrdinary
  <2> QED
    BY <2>1, <2>2
<1>10. CASE RetryDue
  <2>1. PICK gen : \E r \in AttemptRecovery(d, gen) : d' = r.d /\ Recount(TRUE)
    BY <1>10 DEF RetryDue
  <2> QED
    BY <1>0, <2>1, AttemptIs DEF RecoveryFrom
<1>11. CASE HealDone
  <2>1. PICK task \in tasks, updated \in BOOLEAN :
          LET repinned == [d EXCEPT !.repin = @ \/ updated]
              healed == HealOver(d)
          IN \/ d' = repinned
             \/ d' = HealOver(repinned)
             \/ \E r \in OrStop(LoadCurrent([healed EXCEPT !.player = NoPlayer])) : d' = r.d
             \/ PlaybackError(healed, "format", tasks \ {task})
    BY <1>11 DEF HealDone
  <2> DEFINE repinned == [d EXCEPT !.repin = @ \/ updated]
             healed == HealOver(d)
  <2>2. Alike(d, repinned) /\ Alike(d, HealOver(repinned)) /\ Alike(d, healed)
        /\ Alike(d, [healed EXCEPT !.player = NoPlayer])
    BY <1>0 DEF Alike, IsEngine, Fields, HealOver
  <2> HIDE DEF repinned, healed
  <2>3. Follows(d, d')
    BY <2>1, <2>2, AlikeFollows, LoadStops, PlaybackErrorIs DEF repinned, healed
  <2>4. Recount(FALSE)
    BY <1>11 DEF HealDone
  <2> QED
    BY <2>3, <2>4, HandledIsOrdinary
<1>12. CASE ResolveDone
  <2> DEFINE done == [d EXCEPT !.retry = NoSong]
  <2>1. PICK task \in tasks :
          \/ d' = d
          \/ d' = done
          \/ \E r \in OrStop(LoadCurrent(done)) : d' = r.d
          \/ PlaybackError(done, "other", tasks \ {task})
    BY <1>12 DEF ResolveDone
  <2>2. Alike(d, done)
    BY <1>0 DEF Alike, IsEngine, Fields
  <2> HIDE DEF done
  <2>3. Follows(d, d')
    BY <1>0, <2>1, <2>2, AlikeFollows, LoadStops, PlaybackErrorIs
  <2>4. Recount(FALSE)
    BY <1>12 DEF ResolveDone
  <2> QED
    BY <2>3, <2>4, HandledIsOrdinary
<1>13. CASE UNCHANGED vars
  <2>1. d' = d /\ restarts' = restarts
    BY <1>13 DEF vars
  <2> QED
    BY <1>0, <2>1, SameFollows DEF Ordinary
<1> QED
  BY <1>2, <1>3, <1>4, <1>5, <1>6, <1>7, <1>8, <1>9, <1>10, <1>11, <1>12, <1>13 DEF Next, Owner

LEMMA DaemonInvInit ==
  Init => DaemonInv
<1> SUFFICES ASSUME Init PROVE DaemonInv
  OBVIOUS
<1>1. PICK queue : d = [queue |-> queue, player |-> NoPlayer, loaded |-> NoSong, rec |-> Armed,
                        recGen |-> 0, heal |-> NoSong, retry |-> NoSong, repin |-> FALSE,
                        spent |-> FALSE, progressed |-> FALSE, lives |-> 0]
  BY DEF Init
<1>2. restarts = 0
  BY DEF Init
<1>3. IsEngine(d) /\ d.lives = 0 /\ d.rec = Armed
  BY <1>1 DEF IsEngine, Fields
<1>4. Counted(Armed, 0)
  BY DaemonAssumption DEF Counted, Armed, RecFields
<1> QED
  BY <1>2, <1>3, <1>4 DEF DaemonInv

LEMMA OrdinaryKeeps ==
  ASSUME DaemonInv, Ordinary
  PROVE  DaemonInv'
<1>1. IsEngine(d') /\ d'.lives \in Nat
  BY DEF DaemonInv, Ordinary, Follows
<1>2. CASE d'.rec = d.rec /\ restarts' = restarts
  BY <1>1, <1>2 DEF DaemonInv
<1>3. CASE d'.rec.state = "Armed" /\ restarts' = 0 /\ d'.rec # d.rec
  <2>1. d'.rec = Armed
    BY <1>3 DEF Ordinary, Follows
  <2>2. Counted(Armed, 0)
    BY DaemonAssumption DEF Counted, Armed, RecFields
  <2> QED
    BY <1>1, <1>3, <2>1, <2>2 DEF DaemonInv
<1>4. CASE d'.rec.state = "Armed" /\ restarts' = 0 /\ d'.rec = d.rec
  <2>1. Counted(d.rec, 0)
    BY <1>4, DaemonAssumption DEF DaemonInv, Counted
  <2> QED
    BY <1>1, <1>4, <2>1 DEF DaemonInv
<1> QED
  BY <1>2, <1>3, <1>4 DEF Ordinary

LEMMA RecoveryKeeps ==
  ASSUME NEW e, DaemonInv, RecoveryFrom(e), IsEngine(e), e.lives = d.lives,
         Counted(e.rec, restarts)
  PROVE  DaemonInv'
<1>0. d.lives \in Nat /\ restarts \in Nat /\ MaxAttempts \in Nat \ {0}
  BY DaemonAssumption DEF DaemonInv, Counted
<1>1. CASE d' = e
  <2>1. restarts' = 0 \/ restarts' = restarts
    BY <1>0, <1>1 DEF RecoveryFrom, Recount
  <2>2. e.rec.state = "Armed" => restarts' = 0
    BY <1>1 DEF RecoveryFrom, Recount
  <2>3. Counted(e.rec, restarts')
    BY <1>0, <2>1, <2>2 DEF Counted
  <2> QED
    BY <1>0, <1>1, <2>3 DEF DaemonInv
<1>2. CASE Attempted(e, d')
  <2>1. IsEngine(d') /\ d'.lives \in Nat /\ d'.lives \in {d.lives, d.lives + 1}
    BY <1>0, <1>2 DEF Attempted
  <2>2. e.rec.attempts \in Nat /\ e.rec.attempts < MaxAttempts /\ restarts <= e.rec.attempts
        /\ DOMAIN e.rec = RecFields /\ e.rec.state = "Recovering"
    BY <1>2 DEF Attempted, Counted
  <2>3. CASE d'.rec = [e.rec EXCEPT !.attempts = @ + 1]
    <3>1. /\ DOMAIN d'.rec = RecFields /\ d'.rec.state = "Recovering"
          /\ d'.rec.attempts = e.rec.attempts + 1
      BY <2>2, <2>3 DEF RecFields
    <3>2. restarts' = restarts + (d'.lives - d.lives)
      BY <3>1 DEF RecoveryFrom, Recount
    <3>3. restarts' \in Nat /\ restarts' <= e.rec.attempts + 1
      BY <1>0, <2>1, <2>2, <3>2
    <3>4. Counted(d'.rec, restarts')
      BY <1>0, <2>2, <3>1, <3>3 DEF Counted
    <3> QED
      BY <2>1, <3>4 DEF DaemonInv
  <2>4. CASE d'.rec = Armed
    <3>1. restarts' = 0
      BY <2>4 DEF RecoveryFrom, Recount, Armed
    <3>2. Counted(Armed, 0)
      BY <1>0 DEF Counted, Armed, RecFields
    <3> QED
      BY <2>1, <2>4, <3>1, <3>2 DEF DaemonInv
  <2>5. CASE d'.rec = Disarmed
    <3>1. restarts' = restarts + (d'.lives - d.lives)
      BY <2>5 DEF RecoveryFrom, Recount, Disarmed
    <3>2. restarts' \in Nat /\ restarts' <= MaxAttempts
      BY <1>0, <2>1, <2>2, <3>1
    <3>3. Counted(Disarmed, restarts')
      BY <3>2 DEF Counted, Disarmed, RecFields
    <3> QED
      BY <2>1, <2>5, <3>3 DEF DaemonInv
  <2> QED
    BY <1>2, <2>3, <2>4, <2>5 DEF Attempted
<1> QED
  BY <1>1, <1>2 DEF RecoveryFrom

LEMMA BeginIsCounted ==
  ASSUME DaemonInv
  PROVE  Counted(Begin(d), restarts)
<1>0. restarts \in Nat /\ restarts <= MaxAttempts /\ MaxAttempts \in Nat
  BY DaemonAssumption DEF DaemonInv, Counted
<1>1. CASE d.rec.state = "Armed"
  <2>1. restarts = 0
    BY <1>1 DEF DaemonInv, Counted
  <2>2. \A id, gen : Counted(Recovering(id, gen), 0)
    BY <1>0 DEF Counted, Recovering, RecFields
  <2>3. Counted(Armed, 0)
    BY <1>0 DEF Counted, Armed, RecFields
  <2>4. Begin(d) = Armed \/ Begin(d) = Recovering(d.loaded, d.recGen + 1)
    BY <1>1 DEF Begin
  <2> QED
    BY <2>1, <2>2, <2>3, <2>4
<1>2. CASE d.rec.state # "Armed"
  <2>1. Begin(d) = Disarmed
    BY <1>2 DEF Begin
  <2>2. Counted(Disarmed, restarts)
    BY <1>0 DEF Counted, Disarmed, RecFields
  <2> QED
    BY <2>1, <2>2
<1> QED
  BY <1>1, <1>2

LEMMA DaemonInvStep ==
  DaemonInv /\ [Next]_vars => DaemonInv'
<1> SUFFICES ASSUME DaemonInv, [Next]_vars PROVE DaemonInv'
  OBVIOUS
<1>1. CASE RecoveryFrom(d)
  BY <1>1, RecoveryKeeps DEF DaemonInv
<1>2. CASE d.player # NoPlayer /\ RecoveryFrom(TransportClosed(d))
  <2> DEFINE closed == TransportClosed(d)
  <2>1. IsEngine(closed) /\ closed.lives = d.lives /\ closed.rec = Begin(d)
    BY <1>2, ClosedIs DEF DaemonInv
  <2>2. Counted(closed.rec, restarts)
    BY <2>1, BeginIsCounted
  <2> HIDE DEF closed
  <2>3. RecoveryFrom(closed)
    BY <1>2 DEF closed
  <2> QED
    BY <2>1, <2>2, <2>3, RecoveryKeeps
<1> QED
  BY <1>1, <1>2, StepsAre, OrdinaryKeeps

-----------------------------------------------------------------------------
(* The theorems *)

\* The invariant of the engine holds of every reachable state.
LEMMA EngineHolds == Spec => []DaemonInv
<1> QED
  BY DaemonInvInit, DaemonInvStep, PTL DEF Spec

\* One loss of the transport restarts the player at most MaxAttempts times
\* until a normal load or a stop arms the recovery again, whatever retry
\* timers of earlier losses fire and whatever fails in between
\* (transport.rs:188-190).
THEOREM RestartsStayBounded == Spec => []RestartsAreBounded
<1>1. DaemonInv => RestartsAreBounded
  BY DEF DaemonInv, Counted, RestartsAreBounded
<1> QED
  BY <1>1, EngineHolds, PTL

\* Whatever a client's playback command meets, a refusal leaves the queue as
\* it was, or no player that the moved queue could disagree with
\* (delivery_tests.rs:42).
THEOREM RefusalsAreClean == Spec => []RefusalKeepsQueueOrLeavesNoPlayer
<1>1. DaemonInv => RefusalKeepsQueueOrLeavesNoPlayer
  <2> SUFFICES ASSUME DaemonInv, NEW r \in PlaybackCommands(d), ~r.ok
               PROVE  r.d.queue = d.queue \/ r.d.player = NoPlayer
    BY DEF RefusalKeepsQueueOrLeavesNoPlayer
  <2> QED
    BY PlaybackIs DEF DaemonInv, Answers, Refuses
<1> QED
  BY <1>1, EngineHolds, PTL

\* A replacement player is given the track whose transport was lost and no
\* other, although commands may move the queue between the attempts
\* (transport.rs).
THEOREM TheLostTrackIsReplayed == Spec => RecoveryReplaysTheLost
<1> DEFINE Replays == d'.rec.state = "Disarmed" /\ d.rec # d'.rec /\ d'.loaded # NoSong
                        => d'.loaded \in {d.loaded, d.rec.id}
<1>1. DaemonInv /\ [Next]_vars => Replays
  <2> SUFFICES ASSUME DaemonInv, [Next]_vars, d'.rec.state = "Disarmed",
                      d.rec # d'.rec, d'.loaded # NoSong
               PROVE  d'.loaded \in {d.loaded, d.rec.id}
    OBVIOUS
  <2>1. ~Ordinary
    BY DEF Ordinary
  <2>2. CASE RecoveryFrom(d)
    <3>1. Attempted(d, d')
      BY <2>2 DEF RecoveryFrom
    <3>2. d'.rec.state = "Recovering" \/ d'.rec = Armed \/ d'.loaded = d.rec.id
      BY <3>1 DEF Attempted, DaemonInv, Counted, RecFields
    <3> QED
      BY <3>2 DEF Armed
  <2>3. CASE d.player # NoPlayer /\ RecoveryFrom(TransportClosed(d))
    <3> DEFINE closed == TransportClosed(d)
    <3>1. closed.loaded = NoSong /\ closed.rec = Begin(d)
      BY <2>3, ClosedIs DEF DaemonInv
    <3>2. DOMAIN closed.rec = RecFields
          /\ (closed.rec.state = "Recovering" => closed.rec.id = d.loaded)
      BY <3>1 DEF Begin, Recovering, Armed, Disarmed, RecFields
    <3> HIDE DEF closed
    <3>3. RecoveryFrom(closed)
      BY <2>3 DEF closed
    <3>4. Attempted(closed, d')
      BY <3>1, <3>3 DEF RecoveryFrom
    <3>5. d'.rec.state = "Recovering" \/ d'.rec = Armed \/ d'.loaded = closed.rec.id
      BY <3>2, <3>4 DEF Attempted, RecFields
    <3> QED
      BY <3>2, <3>4, <3>5 DEF Attempted, Armed
  <2> QED
    BY <2>1, <2>2, <2>3, StepsAre
<1>2. DaemonInv /\ [Next]_vars => [Replays]_vars
  BY <1>1
<1>3. [][Next]_vars /\ []DaemonInv => [][Replays]_vars
  BY <1>2, PTL
<1> QED
  BY <1>3, EngineHolds, PTL DEF Spec, RecoveryReplaysTheLost

-----------------------------------------------------------------------------
(* The queue in the engine *)

\* What is proved of the queue, for the one in the engine.
Q == INSTANCE PlayQueue_proofs WITH q <- d.queue, rev <- 0, nextRev <- 0, MaxRev <- 0

LEMMA QueueAssumed == Q!QueueAssumption
BY DaemonAssumption, SnapshotAssumption DEF PQ!Queues, Q!Queues, PQ!Repeats, Q!Repeats, Q!QueueAssumption

\* The two instances of PlayQueue say the same of every queue.
LEMMA SameLibrary ==
  /\ \A s : PQ!Min(s) = Q!Min(s)
  /\ \A s : PQ!Max(s) = Q!Max(s)
  /\ \A s, i : PQ!RemoveAt(s, i) = Q!RemoveAt(s, i)
  /\ \A s, i, x : PQ!InsertAt(s, i, x) = Q!InsertAt(s, i, x)
  /\ \A s : PQ!ToSet(s) = Q!ToSet(s)
  /\ \A s : PQ!Cardinality(s) = Q!Cardinality(s)
  /\ \A s : PQ!SetToSeqs(s) = Q!SetToSeqs(s)
<1>1. \A s : PQ!Cardinality(s) = Q!Cardinality(s)
  BY DEF PQ!Cardinality, Q!Cardinality, PQ!IsFiniteSet, Q!IsFiniteSet
<1>2. \A s : PQ!ToSet(s) = Q!ToSet(s)
  BY DEF PQ!ToSet, Q!ToSet
<1>3. \A s : PQ!SetToSeqs(s) = Q!SetToSeqs(s)
  BY <1>1, <1>2 DEF PQ!SetToSeqs, Q!SetToSeqs
<1>4. /\ \A s : PQ!Min(s) = Q!Min(s)
      /\ \A s : PQ!Max(s) = Q!Max(s)
      /\ \A s, i : PQ!RemoveAt(s, i) = Q!RemoveAt(s, i)
      /\ \A s, i, x : PQ!InsertAt(s, i, x) = Q!InsertAt(s, i, x)
  BY DEF PQ!Min, Q!Min, PQ!Max, Q!Max, PQ!RemoveAt, Q!RemoveAt, PQ!InsertAt, Q!InsertAt
<1> QED
  BY <1>1, <1>2, <1>3, <1>4

LEMMA SameReadings ==
  /\ PQ!NoPos = Q!NoPos /\ PQ!Repeats = Q!Repeats /\ PQ!Queues = Q!Queues
  /\ PQ!EmptyQueue = Q!EmptyQueue
  /\ \A c : PQ!Size(c) = Q!Size(c)
  /\ \A c, pos : PQ!SongAt(c, pos) = Q!SongAt(c, pos)
  /\ \A c : PQ!Current(c) = Q!Current(c)
  /\ \A c, pos : PQ!AtCursor(c, pos) = Q!AtCursor(c, pos)
  /\ \A c, mode : PQ!WithRepeat(c, mode) = Q!WithRepeat(c, mode)
  /\ \A c, from, auto : PQ!PlanNext(c, from, auto) = Q!PlanNext(c, from, auto)
  /\ \A c, from : PQ!PlanPrev(c, from) = Q!PlanPrev(c, from)
  /\ \A c, from : PQ!FirstPlayable(c, from) = Q!FirstPlayable(c, from)
<1>1. /\ PQ!NoPos = Q!NoPos /\ PQ!Repeats = Q!Repeats
      /\ PQ!EmptyQueue = Q!EmptyQueue
      /\ \A c : PQ!Size(c) = Q!Size(c)
      /\ \A c, pos : PQ!SongAt(c, pos) = Q!SongAt(c, pos)
      /\ \A c, pos : PQ!AtCursor(c, pos) = Q!AtCursor(c, pos)
      /\ \A c, mode : PQ!WithRepeat(c, mode) = Q!WithRepeat(c, mode)
  BY DEF PQ!NoPos, Q!NoPos, PQ!Repeats, Q!Repeats, PQ!EmptyQueue, Q!EmptyQueue, PQ!Size, Q!Size,
         PQ!SongAt, Q!SongAt, PQ!AtCursor, Q!AtCursor, PQ!WithRepeat, Q!WithRepeat
<1>2. PQ!Queues = Q!Queues
  BY <1>1 DEF PQ!Queues, Q!Queues
<1>3. \A c : PQ!Current(c) = Q!Current(c)
  BY <1>1 DEF PQ!Current, Q!Current
<1>4. \A c, from, auto : PQ!PlanNext(c, from, auto) = Q!PlanNext(c, from, auto)
  BY <1>1 DEF PQ!PlanNext, Q!PlanNext
<1>5. \A c, from : PQ!PlanPrev(c, from) = Q!PlanPrev(c, from)
  BY <1>1 DEF PQ!PlanPrev, Q!PlanPrev
<1>6. \A c, from : PQ!Walk(c, from) = Q!Walk(c, from)
  BY <1>1 DEF PQ!Walk, Q!Walk
<1>7. \A c, from : PQ!FirstPlayable(c, from) = Q!FirstPlayable(c, from)
  BY <1>1, <1>6, SameLibrary DEF PQ!FirstPlayable, Q!FirstPlayable
<1> QED
  BY <1>1, <1>2, <1>3, <1>4, <1>5, <1>7

LEMMA SameEdits ==
  /\ \A c, more : PQ!Fitting(c, more) = Q!Fitting(c, more)
  /\ \A c, more : PQ!Extend(c, more) = Q!Extend(c, more)
  /\ \A c, more : PQ!InsertAfterCurrent(c, more) = Q!InsertAfterCurrent(c, more)
  /\ \A c, more : PQ!PlayNow(c, more) = Q!PlayNow(c, more)
  /\ \A c, from, to : PQ!MoveItem(c, from, to) = Q!MoveItem(c, from, to)
  /\ \A c, on : PQ!SetShuffle(c, on) = Q!SetShuffle(c, on)
  /\ \A c, snapshot : PQ!RestoreSnapshot(c, snapshot) = Q!RestoreSnapshot(c, snapshot)
<1>1. \A c, more : PQ!Fitting(c, more) = Q!Fitting(c, more)
  BY SameLibrary DEF PQ!Fitting, Q!Fitting
<1>2. \A c, more : PQ!NewIndices(c, more) = Q!NewIndices(c, more)
  BY <1>1 DEF PQ!NewIndices, Q!NewIndices
<1>3. \A c, indices : PQ!Shuffled(c, indices) = Q!Shuffled(c, indices)
  BY SameLibrary DEF PQ!Shuffled, Q!Shuffled
<1>4. \A c, more : PQ!Extend(c, more) = Q!Extend(c, more)
  BY <1>1, <1>2, <1>3 DEF PQ!Extend, Q!Extend
<1>5. \A c, more : PQ!InsertAfterCurrent(c, more) = Q!InsertAfterCurrent(c, more)
  BY <1>1, <1>2 DEF PQ!InsertAfterCurrent, Q!InsertAfterCurrent
<1>6. \A c, more : PQ!PlayNow(c, more) = Q!PlayNow(c, more)
  BY <1>1, <1>5 DEF PQ!PlayNow, Q!PlayNow
<1>7. \A c, from, to : PQ!MoveItem(c, from, to) = Q!MoveItem(c, from, to)
  BY SameLibrary DEF PQ!MoveItem, Q!MoveItem
<1>8. \A c, keep : PQ!RebuildOrder(c, keep) = Q!RebuildOrder(c, keep)
  BY SameLibrary DEF PQ!RebuildOrder, Q!RebuildOrder
<1>9. \A c, on : PQ!SetShuffle(c, on) = Q!SetShuffle(c, on)
  BY <1>8 DEF PQ!SetShuffle, Q!SetShuffle
<1>10. \A order, n : PQ!IsPermutation(order, n) = Q!IsPermutation(order, n)
  BY DEF PQ!IsPermutation, Q!IsPermutation
<1>11. \A c, snapshot : PQ!RestoreSnapshot(c, snapshot) = Q!RestoreSnapshot(c, snapshot)
  BY <1>8, <1>10, SameLibrary DEF PQ!RestoreSnapshot, Q!RestoreSnapshot
<1> QED
  BY <1>1, <1>4, <1>5, <1>6, <1>7, <1>9, <1>11

LEMMA SameRemovals ==
  /\ \A c, rows : PQ!RemoveRows(c, rows) = Q!RemoveRows(c, rows)
  /\ \A c : PQ!ClearUpcoming(c) = Q!ClearUpcoming(c)
  /\ \A c, pos : PQ!DaemonRemove(c, pos) = Q!DaemonRemove(c, pos)
  /\ \A c, ids : PQ!Purge(c, ids) = Q!Purge(c, ids)
<1>1. \A c, pos : PQ!RemovePos(c, pos) = Q!RemovePos(c, pos)
  <2>1. /\ \A c : PQ!Size(c) = Q!Size(c)
        /\ \A s : PQ!Min(s) = Q!Min(s)
        /\ \A s : PQ!Max(s) = Q!Max(s)
        /\ \A s, i : PQ!RemoveAt(s, i) = Q!RemoveAt(s, i)
    BY SameLibrary, SameReadings
  <2> TAKE c, pos
  <2> DEFINE rest == Q!RemoveAt(c.order, pos)
             gone == c.order[pos]
             order == [i \in 1..(Q!Size(c) - 1) |-> IF rest[i] > gone THEN rest[i] - 1 ELSE rest[i]]
             cursor == IF pos < c.cursor THEN c.cursor - 1 ELSE c.cursor
             within == Q!Min({cursor, Len(order)})
             moved(cut) == [c EXCEPT !.songs = cut, !.order = order, !.cursor = Q!Max({1, within})]
  <2>2. PQ!RemovePos(c, pos) = moved(PQ!RemoveAt(c.songs, gone))
    <3>1. PQ!Size(c) = Q!Size(c) /\ PQ!RemoveAt(c.order, pos) = rest
          /\ PQ!Min({cursor, Len(order)}) = within /\ PQ!Max({1, within}) = Q!Max({1, within})
      BY <2>1
    <3> QED
      BY <3>1, Zenon DEF PQ!RemovePos
  <2>3. Q!RemovePos(c, pos) = moved(Q!RemoveAt(c.songs, gone))
    BY Zenon DEF Q!RemovePos
  <2> QED
    BY <2>1, <2>2, <2>3
<1>2. \A c, rows : PQ!RemoveRows(c, rows) = Q!RemoveRows(c, rows)
  <2>1. \A c : PQ!Size(c) = Q!Size(c)
    BY SameReadings
  <2> TAKE c, rows
  <2>2. PQ!Size(c) = Q!Size(c)
    BY <2>1
  <2> QED
    BY <1>1, <2>2, Zenon DEF PQ!RemoveRows, Q!RemoveRows
<1>3. \A c : PQ!ClearUpcoming(c) = Q!ClearUpcoming(c)
  BY <1>2, SameReadings DEF PQ!ClearUpcoming, Q!ClearUpcoming
<1>4. \A c, pos : PQ!SelectCursor(c, pos) = Q!SelectCursor(c, pos)
  BY SameReadings DEF PQ!SelectCursor, Q!SelectCursor
<1>5. \A c, pos : PQ!DaemonRemove(c, pos) = Q!DaemonRemove(c, pos)
  BY <1>1, <1>4, SameReadings DEF PQ!DaemonRemove, Q!DaemonRemove
<1>6. \A c, ids : PQ!Purge(c, ids) = Q!Purge(c, ids)
  <2> TAKE c, ids
  <2> DEFINE rows == {pos \in DOMAIN c.order : Q!SongAt(c, pos) \in ids}
             heirs == {pos \in DOMAIN c.order \ rows : pos > c.cursor}
  <2>1. {pos \in DOMAIN c.order : PQ!SongAt(c, pos) \in ids} = rows
    BY SameReadings
  <2>2. /\ PQ!RemoveRows(c, rows) = Q!RemoveRows(c, rows)
        /\ \A r, pos : PQ!SelectCursor(r, pos) = Q!SelectCursor(r, pos)
        /\ PQ!Min(heirs) = Q!Min(heirs)
        /\ \A s : PQ!Cardinality(s) = Q!Cardinality(s)
        /\ PQ!NoPos = Q!NoPos
    BY <1>2, <1>4, SameLibrary, SameReadings
  <2> QED
    BY <2>1, <2>2, Zenon DEF PQ!Purge, Q!Purge
<1> QED
  BY <1>2, <1>3, <1>5, <1>6

-----------------------------------------------------------------------------
(* Loads keep a running file with its own track *)

PlayerFields == {"life", "file", "playing", "up"}

\* An engine with a sound queue and at most one player.
Whole(e) ==
  /\ IsEngine(e)
  /\ Q!Sound(e.queue)
  /\ e.player = NoPlayer \/ DOMAIN e.player = PlayerFields

\* What runs is what the queue shows.
Agrees(e) == e.player # NoPlayer /\ e.player.playing => e.loaded = PlayingId(e.queue)

\* f has loaded nothing since e: its player is that of e, or has not begun.
Rests(e, f) ==
  /\ f.loaded = e.loaded
  /\ f.player = NoPlayer \/ f.player = e.player \/ f.player.playing = FALSE

\* What a load makes of e.
Loads(e, r) ==
  /\ Whole(r.d)
  /\ r.ok \in BOOLEAN
  /\ r.ok => Agrees(r.d)
  /\ ~r.ok => Rests(e, r.d) /\ (r.d.queue = e.queue \/ r.d.player = NoPlayer)

LEMMA LoadsKeep ==
  ASSUME NEW e, NEW r, Loads(e, r), Agrees(e)
  PROVE  Agrees(r.d)
<1>1. CASE r.ok
  BY <1>1 DEF Loads
<1>2. CASE ~r.ok
  BY <1>2 DEF Loads, Agrees, Rests
<1> QED
  BY <1>1, <1>2

LEMMA StopWhole ==
  ASSUME NEW e, Whole(e)
  PROVE  Whole(Stop(e)) /\ Agrees(Stop(e))
BY StopIs DEF Whole, Agrees

LEMMA QueueWhole ==
  ASSUME NEW e, Whole(e), NEW c, Q!Sound(c)
  PROVE  /\ Whole([e EXCEPT !.queue = c])
         /\ [e EXCEPT !.queue = c].queue = c
         /\ [e EXCEPT !.queue = c].loaded = e.loaded
         /\ [e EXCEPT !.queue = c].player = e.player
BY DEF Whole, IsEngine, Fields

LEMMA EnsurePlayerWhole ==
  ASSUME NEW e, Whole(e), NEW r \in EnsurePlayer(e)
  PROVE  /\ Whole(r.d) /\ Rests(e, r.d) /\ r.d.queue = e.queue
         /\ r.ok \in BOOLEAN
         /\ r.ok => DOMAIN r.d.player = PlayerFields
         /\ ~r.ok => r.d.player = NoPlayer
<1> DEFINE f == IF e.repin THEN [e EXCEPT !.player = NoPlayer, !.repin = FALSE] ELSE e
           fresh == [life |-> f.lives + 1, file |-> 0, playing |-> FALSE, up |-> TRUE]
           started == [f EXCEPT !.lives = @ + 1, !.player = fresh]
<1>1. /\ IsEngine(f) /\ f.queue = e.queue /\ f.loaded = e.loaded
      /\ f.player \in {e.player, NoPlayer}
  BY DEF Whole, IsEngine, Fields
<1>2. EnsurePlayer(e) = IF f.player # NoPlayer THEN {Did(f)}
                        ELSE {Failed(f)} \cup {Did(g) : g \in {h \in {started} : h.lives <= MaxLives}}
  BY DEF EnsurePlayer
<1>3. DOMAIN fresh = PlayerFields /\ fresh.playing = FALSE
  BY DEF PlayerFields
<1> HIDE DEF f, fresh
<1>4. /\ IsEngine(started) /\ started.queue = f.queue /\ started.loaded = f.loaded
      /\ started.player = fresh
  BY <1>1 DEF IsEngine, Fields
<1> HIDE DEF started
<1>5. \/ r = Did(f) /\ f.player # NoPlayer
      \/ r = Failed(f) /\ f.player = NoPlayer
      \/ r = Did(started)
  BY <1>2
<1>6. Whole(f) /\ Rests(e, f)
  BY <1>1 DEF Whole, Rests
<1>7. Whole(started) /\ Rests(e, started)
  BY <1>1, <1>3, <1>4 DEF Whole, Rests
<1>8. ASSUME r = Did(f) PROVE r.d = f /\ r.ok = TRUE
  BY <1>8 DEF Did
<1>9. ASSUME r = Failed(f) PROVE r.d = f /\ r.ok = FALSE
  BY <1>9 DEF Failed
<1>10. ASSUME r = Did(started) PROVE r.d = started /\ r.ok = TRUE
  BY <1>10 DEF Did
<1>11. f.player # NoPlayer => DOMAIN f.player = PlayerFields
  BY <1>6 DEF Whole
<1> QED
  BY <1>1, <1>3, <1>4, <1>5, <1>6, <1>7, <1>8, <1>9, <1>10, <1>11

LEMMA SendLoadWhole ==
  ASSUME NEW e, Whole(e), DOMAIN e.player = PlayerFields, NEW r \in SendLoad(Superseding(e))
  PROVE  /\ Whole(r.d) /\ r.d.queue = e.queue /\ r.d.loaded = e.loaded
         /\ r.ok \in BOOLEAN
         /\ ~r.ok => r.d.player = e.player
<1> DEFINE s == Superseding(e)
           g == [s EXCEPT !.player.file = @ + 1, !.player.playing = s.player.up]
<1>1. /\ IsEngine(s) /\ s.queue = e.queue /\ s.loaded = e.loaded /\ s.player = e.player
  BY DEF Whole, IsEngine, Fields, Superseding
<1>2. r = Failed(s) \/ r = Did(g)
  BY DEF SendLoad
<1> HIDE DEF s
<1>3. /\ IsEngine(g) /\ g.queue = s.queue /\ g.loaded = s.loaded
      /\ DOMAIN g.player = DOMAIN s.player
  BY <1>1 DEF IsEngine, Fields
<1> HIDE DEF g
<1>4. (r.d = s /\ r.ok = FALSE) \/ (r.d = g /\ r.ok = TRUE)
  BY <1>2 DEF Did, Failed
<1> QED
  BY <1>1, <1>3, <1>4 DEF Whole

LEMMA LoadOrdinaryWhole ==
  ASSUME NEW e, Whole(e), DOMAIN e.player = PlayerFields, NEW r \in LoadOrdinary(e)
  PROVE  /\ Whole(r.d) /\ r.d.queue = e.queue
         /\ r.ok \in BOOLEAN
         /\ r.ok => Agrees(r.d)
         /\ ~r.ok => Rests(e, r.d)
<1> DEFINE Began(s) == [s.d EXCEPT !.loaded = PlayingId(e.queue), !.rec = Armed,
                                   !.spent = FALSE, !.progressed = FALSE]
<1>1. CASE r = Did(Stop(e))
  <2>1. r.d = Stop(e) /\ r.ok = TRUE /\ Stop(e).queue = e.queue
    BY <1>1, StopIs DEF Did, Whole
  <2> QED
    BY <2>1, StopWhole
<1>2. CASE r \in Refused(e)
  <2>1. r \in SendLoad(Superseding(e)) /\ ~r.ok
    BY <1>2 DEF Refused
  <2> QED
    BY <2>1, SendLoadWhole DEF Rests
<1>3. CASE \E s \in Sent(e) : r = Did(Began(s))
  <2>1. PICK s \in SendLoad(Superseding(e)) : r = Did(Began(s))
    BY <1>3 DEF Sent
  <2>2. Whole(s.d) /\ s.d.queue = e.queue
    BY SendLoadWhole
  <2>3. r.ok = TRUE /\ r.d = Began(s)
    BY <2>1 DEF Did
  <2>4. /\ IsEngine(Began(s)) /\ Began(s).queue = s.d.queue /\ Began(s).player = s.d.player
        /\ Began(s).loaded = PlayingId(e.queue)
    BY <2>2 DEF Whole, IsEngine, Fields
  <2> HIDE DEF Began
  <2> QED
    BY <2>2, <2>3, <2>4 DEF Whole, Agrees
<1>4. \/ r = Did(Stop(e))
      \/ r \in OrdinaryLoads(e)
  BY DEF LoadOrdinary
<1>5. CASE r \in OrdinaryLoads(e) /\ r \notin Refused(e)
  <2>1. r \in {Did(Began(s)) : s \in Sent(e)}
    BY <1>5 DEF OrdinaryLoads
  <2> HIDE DEF Began
  <2>2. \E s \in Sent(e) : r = Did(Began(s))
    BY <2>1
  <2> QED
    BY <1>3, <2>2
<1> QED
  BY <1>1, <1>2, <1>4, <1>5

LEMMA LoadCurrentLoads ==
  ASSUME NEW e, Whole(e), NEW r \in LoadCurrent(e)
  PROVE  Loads(e, r)
<1>1. PICK s \in EnsurePlayer(e) : \/ s.ok /\ r \in LoadOrdinary(s.d)
                                   \/ ~s.ok /\ r = s
  BY DEF LoadCurrent, Then
<1>2. /\ Whole(s.d) /\ Rests(e, s.d) /\ s.d.queue = e.queue
      /\ s.ok \in BOOLEAN
      /\ s.ok => DOMAIN s.d.player = PlayerFields
      /\ ~s.ok => s.d.player = NoPlayer
  BY EnsurePlayerWhole
<1>3. CASE s.ok /\ r \in LoadOrdinary(s.d)
  <2>1. /\ Whole(r.d) /\ r.d.queue = s.d.queue
        /\ r.ok \in BOOLEAN
        /\ r.ok => Agrees(r.d)
        /\ ~r.ok => Rests(s.d, r.d)
    BY <1>2, <1>3, LoadOrdinaryWhole
  <2> QED
    BY <1>2, <2>1 DEF Loads, Rests
<1>4. CASE ~s.ok /\ r = s
  BY <1>2, <1>4 DEF Loads
<1> QED
  BY <1>1, <1>3, <1>4

LEMMA LoadOrRestoreLoads ==
  ASSUME NEW e, Whole(e), NEW moved, Q!Sound(moved), NEW r \in LoadOrRestore(e, moved)
  PROVE  Loads(e, r)
<1> DEFINE f == [e EXCEPT !.queue = moved]
<1>1. Whole(f) /\ f.loaded = e.loaded /\ f.player = e.player
  BY QueueWhole
<1>2. PICK s \in EnsurePlayer(f) :
        \/ s.ok /\ \E t \in LoadOrdinary(s.d) :
                     r = IF t.ok THEN t ELSE Failed([t.d EXCEPT !.queue = e.queue])
        \/ ~s.ok /\ r = s
  BY DEF LoadOrRestore, Then
<1> HIDE DEF f
<1>3. /\ Whole(s.d) /\ Rests(e, s.d)
      /\ s.ok \in BOOLEAN
      /\ s.ok => DOMAIN s.d.player = PlayerFields
      /\ ~s.ok => s.d.player = NoPlayer
  BY <1>1, EnsurePlayerWhole DEF Rests
<1>4. CASE ~s.ok /\ r = s
  BY <1>3, <1>4 DEF Loads
<1>5. ASSUME s.ok, NEW t \in LoadOrdinary(s.d),
             r = IF t.ok THEN t ELSE Failed([t.d EXCEPT !.queue = e.queue])
      PROVE  Loads(e, r)
  <2>1. /\ Whole(t.d) /\ t.ok \in BOOLEAN
        /\ t.ok => Agrees(t.d)
        /\ ~t.ok => Rests(s.d, t.d)
    BY <1>3, <1>5, LoadOrdinaryWhole
  <2>2. CASE t.ok
    BY <1>5, <2>1, <2>2 DEF Loads
  <2>3. CASE ~t.ok
    <3> DEFINE back == [t.d EXCEPT !.queue = e.queue]
    <3>1. r.d = back /\ r.ok = FALSE
      BY <1>5, <2>3 DEF Failed
    <3>2. /\ Whole(back) /\ back.queue = e.queue /\ back.loaded = t.d.loaded
          /\ back.player = t.d.player
      BY <2>1, QueueWhole DEF Whole
    <3> HIDE DEF back
    <3> QED
      BY <1>3, <2>1, <2>3, <3>1, <3>2 DEF Loads, Rests
  <2> QED
    BY <2>2, <2>3
<1> QED
  BY <1>2, <1>4, <1>5

LEMMA OrStopAgrees ==
  ASSUME NEW outcomes, \A r \in outcomes : Whole(r.d) /\ (r.ok => Agrees(r.d)),
         NEW r \in OrStop(outcomes)
  PROVE  Whole(r.d) /\ Agrees(r.d)
<1>1. PICK s \in outcomes : r = IF s.ok THEN s ELSE Failed(Stop(s.d))
  BY DEF OrStop
<1>2. CASE s.ok
  BY <1>1, <1>2
<1>3. CASE ~s.ok
  <2>1. r.d = Stop(s.d)
    BY <1>1, <1>3 DEF Failed
  <2> QED
    BY <2>1, StopWhole
<1> QED
  BY <1>2, <1>3

-----------------------------------------------------------------------------
(* What the queue operations keep current *)

\* The current track of c and of r is the same.
Stays(c, r) == PlayingId(r) = PlayingId(c)

LEMMA NumbersOfQueue ==
  ASSUME NEW c, Q!Sound(c)
  PROVE  /\ Q!Size(c) \in Nat /\ Q!Size(c) = Len(c.order) /\ Q!Size(c) = Len(c.songs)
         /\ DOMAIN c.order = 1..Q!Size(c)
         /\ c.order = <<>> <=> Q!Size(c) = 0
         /\ Q!Size(c) = 0 => PlayingId(c) = NoSong
         /\ Q!Size(c) # 0 => c.cursor \in 1..Q!Size(c) /\ PlayingId(c) # NoSong
         /\ c.cursor \in Nat
<1>1. /\ Q!Size(c) \in Nat /\ Q!Size(c) = Len(c.order) /\ Q!Size(c) = Len(c.songs)
      /\ DOMAIN c.order = 1..Q!Size(c)
      /\ c.order = <<>> <=> Q!Size(c) = 0
      /\ c.cursor \in Nat
  BY QueueAssumed, Q!SoundIs DEF Q!SoundIs
<1>2. PlayingId(c) = Q!Current(c)
  BY SameReadings DEF PlayingId
<1>3. /\ Q!Size(c) = 0 => Q!Current(c) = NoSong
      /\ Q!Size(c) # 0 => c.cursor \in 1..Q!Size(c) /\ Q!Current(c) # NoSong
  BY QueueAssumed, Q!CurrentIs DEF Q!CurrentIs
<1> QED
  BY <1>1, <1>2, <1>3

LEMMA PlacesAreSound ==
  ASSUME NEW c, Q!Sound(c)
  PROVE  /\ \A pos \in DOMAIN c.order : Q!Sound(PQ!AtCursor(c, pos))
         /\ \A auto \in BOOLEAN :
              PQ!PlanNext(c, c.cursor, auto) # PQ!NoPos
                => PQ!PlanNext(c, c.cursor, auto) \in DOMAIN c.order
         /\ c.order # <<>> => PQ!PlanPrev(c, c.cursor) \in DOMAIN c.order
<1>1. \A pos \in DOMAIN c.order : Q!Sound(PQ!AtCursor(c, pos))
  BY QueueAssumed, Q!CursorSound, SameReadings, NumbersOfQueue DEF Q!CursorSound
<1>2. CASE c.cursor \in 1..Q!Size(c)
  <2>1. \A auto \in BOOLEAN :
           /\ Q!PlanNext(c, c.cursor, auto) \in 1..Q!Size(c) \cup {Q!NoPos}
           /\ Q!PlanPrev(c, c.cursor) \in 1..Q!Size(c)
    BY QueueAssumed, <1>2, Q!PlanIsPosition DEF Q!PlanIsPosition
  <2> QED
    BY <1>1, <2>1, SameReadings, NumbersOfQueue
<1>3. CASE c.cursor \notin 1..Q!Size(c)
  <2>1. \A auto : PQ!PlanNext(c, c.cursor, auto) = PQ!NoPos
    BY <1>3, NumbersOfQueue DEF PQ!PlanNext
  <2> QED
    BY <1>1, <1>3, <2>1, NumbersOfQueue
<1> QED
  BY <1>2, <1>3

LEMMA SameShown ==
  ASSUME NEW c, Q!Sound(c), NEW r, Q!Sound(r), Q!Size(c) # 0, Q!Size(r) # 0,
         Q!Ordered(r)[r.cursor] = Q!Ordered(c)[c.cursor]
  PROVE  Stays(c, r)
BY QueueAssumed, Q!SameTrackShown, SameReadings DEF Q!SameTrackShown, Stays, PlayingId

LEMMA BlocksAreSound ==
  ASSUME NEW c, Q!Sound(c), NEW more \in Blocks, PQ!Fitting(c, more) # <<>>
  PROVE  /\ Q!Sound(PQ!PlayNow(c, more))
         /\ Q!Sound(PQ!InsertAfterCurrent(c, more))
         /\ PlayingId(c) # NoSong => Stays(c, PQ!InsertAfterCurrent(c, more))
         /\ \A r \in PQ!Extend(c, more) :
              /\ Q!Sound(r)
              /\ PlayingId(c) # NoSong => Stays(c, r)
              /\ Len(c.order) + 1 \in DOMAIN r.order
<1> DEFINE n == Len(Q!Fitting(c, more))
<1>0. more \in Seq(VideoIds) /\ Q!Fitting(c, more) # <<>>
  BY DaemonAssumption, SameEdits
<1>1. n \in Nat /\ n # 0
  BY <1>0, QueueAssumed, Q!FittingIs DEF Q!FittingIs
<1>2. Q!Sound(PQ!PlayNow(c, more))
  BY <1>0, QueueAssumed, Q!PlayNowIs, SameEdits DEF Q!PlayNowIs
<1>3. /\ Q!Sound(PQ!InsertAfterCurrent(c, more))
      /\ PlayingId(c) # NoSong => Stays(c, PQ!InsertAfterCurrent(c, more))
  <2> DEFINE r == Q!InsertAfterCurrent(c, more)
             at == IF Q!Size(c) = 0 THEN 0 ELSE c.cursor
  <2>1. /\ Q!Sound(r)
        /\ Q!Size(r) = Q!Size(c) + n
        /\ r.cursor = c.cursor
        /\ \A i \in 1..at : Q!Ordered(r)[i] = Q!Ordered(c)[i]
    BY <1>0, QueueAssumed, Q!InsertAfterIs DEF Q!InsertAfterIs
  <2> HIDE DEF r
  <2>2. ASSUME PlayingId(c) # NoSong PROVE Stays(c, r)
    <3>1. Q!Size(c) \in Nat \ {0} /\ c.cursor \in 1..at
      BY <2>2, NumbersOfQueue
    <3> QED
      BY <1>1, <2>1, <3>1, SameShown
  <2> QED
    BY <2>1, <2>2, SameEdits DEF r
<1>4. ASSUME NEW r \in PQ!Extend(c, more)
      PROVE  /\ Q!Sound(r)
             /\ PlayingId(c) # NoSong => Stays(c, r)
             /\ Len(c.order) + 1 \in DOMAIN r.order
  <2>1. /\ Q!Sound(r)
        /\ Q!Size(r) = Q!Size(c) + n
        /\ r.cursor = c.cursor
        /\ \A i \in 1..Q!Size(c) : Q!Ordered(r)[i] = Q!Ordered(c)[i]
    <3>1. r \in Q!Extend(c, more)
      BY SameEdits
    <3> QED
      BY <1>0, <3>1, QueueAssumed, Q!ExtendIs DEF Q!ExtendIs
  <2>2. ASSUME PlayingId(c) # NoSong PROVE Stays(c, r)
    <3>1. Q!Size(c) \in Nat \ {0} /\ c.cursor \in 1..Q!Size(c)
      BY <2>2, NumbersOfQueue
    <3> QED
      BY <1>1, <2>1, <3>1, SameShown
  <2>3. /\ DOMAIN r.order = 1..(Q!Size(c) + n)
        /\ Q!Size(c) \in Nat /\ Len(c.order) = Q!Size(c)
    BY <2>1, NumbersOfQueue
  <2> QED
    BY <1>1, <2>1, <2>2, <2>3
<1> QED
  BY <1>2, <1>3, <1>4

LEMMA EditsStay ==
  ASSUME NEW c, Q!Sound(c), NEW kind \in {"move", "clear", "repeat", "shuffle"},
         NEW r \in Edited(c, kind)
  PROVE  Q!Sound(r) /\ Stays(c, r)
<1>1. CASE kind = "move"
  <2>1. PICK from \in DOMAIN c.order, to \in DOMAIN c.order : r = PQ!MoveItem(c, from, to)
    BY <1>1 DEF Edited
  <2>2. from \in 1..Q!Size(c) /\ to \in 1..Q!Size(c) /\ Q!Size(c) # 0
    BY NumbersOfQueue
  <2>3. r = Q!MoveItem(c, from, to)
    BY <2>1, SameEdits
  <2>4. Q!Sound(r) /\ Q!Size(r) = Q!Size(c) /\ Q!Ordered(r)[r.cursor] = Q!Ordered(c)[c.cursor]
    BY <2>2, <2>3, QueueAssumed, Q!MoveItemIs DEF Q!MoveItemIs
  <2> QED
    BY <2>2, <2>4, SameShown
<1>2. CASE kind = "clear"
  <2>1. r = Q!ClearUpcoming(c)
    BY <1>2, SameRemovals DEF Edited
  <2>2. CASE c.cursor < Q!Size(c)
    <3>1. Q!Sound(r) /\ Q!Cut(c, r, (c.cursor + 1)..Q!Size(c))
      BY <2>1, <2>2, QueueAssumed, Q!ClearUpcomingIs DEF Q!ClearUpcomingIs
    <3>2. c.cursor \notin (c.cursor + 1)..Q!Size(c) /\ Q!Size(c) # 0
      BY <2>2, NumbersOfQueue
    <3>3. Q!Size(r) # 0 /\ Q!Ordered(r)[r.cursor] = Q!Ordered(c)[c.cursor]
      BY <3>1, <3>2, QueueAssumed, Q!CutKeepsCurrent DEF Q!CutKeepsCurrent
    <3> QED
      BY <3>1, <3>2, <3>3, SameShown
  <2>3. CASE ~(c.cursor < Q!Size(c))
    <3>1. r = c
      BY <2>1, <2>3, QueueAssumed, Q!NoneUpcoming DEF Q!NoneUpcoming
    <3> QED
      BY <3>1 DEF Stays
  <2> QED
    BY <2>2, <2>3
<1>3. CASE kind = "repeat"
  <2>1. PICK mode \in Q!Repeats : r = Q!WithRepeat(c, mode)
    BY <1>3, SameReadings DEF Edited
  <2>2. Q!Sound(r) /\ Q!Current(r) = Q!Current(c)
    BY <2>1, QueueAssumed, Q!RepeatSound DEF Q!RepeatSound
  <2> QED
    BY <2>2, SameReadings DEF Stays, PlayingId
<1>4. CASE kind = "shuffle"
  <2>1. r \in Q!SetShuffle(c, ~c.shuffle)
    BY <1>4, SameEdits DEF Edited
  <2>2. (~c.shuffle) \in BOOLEAN
    OBVIOUS
  <2>3. /\ Q!Sound(r) /\ Q!Size(r) = Q!Size(c)
        /\ Q!Size(c) # 0 => Q!Ordered(r)[r.cursor] = Q!Ordered(c)[c.cursor]
    BY <2>1, <2>2, QueueAssumed, Q!SetShuffleIs DEF Q!SetShuffleIs
  <2>4. CASE Q!Size(c) = 0
    BY <2>3, <2>4, NumbersOfQueue DEF Stays
  <2>5. CASE Q!Size(c) # 0
    BY <2>3, <2>5, SameShown
  <2> QED
    BY <2>3, <2>4, <2>5
<1> QED
  BY <1>1, <1>2, <1>3, <1>4

LEMMA CutShows ==
  ASSUME NEW c, Q!Sound(c), NEW r, Q!Sound(r), NEW rows, Q!Cut(c, r, rows), c.cursor \notin rows,
         Q!Size(c) # 0
  PROVE  Stays(c, r)
<1>1. Q!Size(r) # 0 /\ Q!Ordered(r)[r.cursor] = Q!Ordered(c)[c.cursor]
  BY QueueAssumed, Q!CutKeepsCurrent DEF Q!CutKeepsCurrent
<1> QED
  BY <1>1, SameShown

LEMMA DaemonRemoveIs ==
  ASSUME NEW c, Q!Sound(c), NEW pos \in DOMAIN c.order
  PROVE  LET removal == PQ!DaemonRemove(c, pos)
         IN /\ Q!Sound(removal.queue)
            /\ removal.playback = "Unchanged" => Stays(c, removal.queue)
<1> DEFINE removal == Q!DaemonRemove(c, pos)
<1>1. pos \in 1..Q!Size(c) /\ pos <= pos /\ Q!Size(c) # 0
  BY NumbersOfQueue
<1>2. removal = Q!RemoveRange(c, pos, pos)
  BY <1>1, QueueAssumed, Q!DaemonRemoves DEF Q!DaemonRemoves
<1> HIDE DEF removal
<1>3. /\ Q!Sound(removal.queue)
      /\ Q!Cut(c, removal.queue, pos..pos)
      /\ removal.playback = "Unchanged" => c.cursor \notin pos..pos
  BY <1>1, <1>2, QueueAssumed, Q!RemoveRangeIs DEF Q!RemoveRangeIs
<1>4. removal.playback = "Unchanged" => Stays(c, removal.queue)
  BY <1>1, <1>3, CutShows
<1>5. PQ!DaemonRemove(c, pos) = removal
  BY SameRemovals DEF removal
<1> QED
  BY <1>3, <1>4, <1>5

\* A ban always takes the current row.
LEMMA BanIs ==
  ASSUME NEW c, Q!Sound(c), NEW ids \in SUBSET VideoIds, PlayingId(c) \in ids
  PROVE  LET removal == FirstPlayableAfter(PQ!Purge(c, ids))
         IN Q!Sound(removal.queue) /\ removal.playback # "Unchanged"
<1> DEFINE purge == Q!Purge(c, ids)
           rows == Q!Purged(c, ids)
<1>1. PlayingId(c) # NoSong
  BY DaemonAssumption
<1>2. c.cursor \in DOMAIN c.order /\ Q!SongAt(c, c.cursor) \in ids
  BY <1>1, NumbersOfQueue, SameReadings DEF PlayingId, PQ!Current, PQ!SongAt
<1>3. c.cursor \in rows
  BY <1>2 DEF Q!Purged
<1>4. /\ Q!Sound(purge.queue)
      /\ Q!Cut(c, purge.queue, rows)
      /\ purge.playback = "Unchanged" => c.cursor \notin rows
  BY <1>3, QueueAssumed, Q!PurgeIs DEF Q!PurgeIs
<1>5. purge.playback \in {"LoadSelected", "Stop"}
  <2>1. purge.playback \in {"Unchanged", "LoadSelected", "Stop"}
    BY DEF Q!Purge
  <2> QED
    BY <1>3, <1>4, <2>1
<1>6. PQ!Purge(c, ids) = purge
  BY SameRemovals
<1>7. ASSUME purge.playback = "LoadSelected" PROVE Q!Size(purge.queue) # 0
  <2>1. \E pos \in DOMAIN c.order : pos \notin rows
    BY <1>7, Zenon DEF Q!Purge, Q!Purged
  <2> HIDE DEF purge, rows
  <2>2. \E pos \in 1..Q!Size(c) : pos \notin rows
    BY <2>1, NumbersOfQueue
  <2> QED
    BY <1>4, <2>2, QueueAssumed, Q!CutLeaves DEF Q!CutLeaves
<1> HIDE DEF purge, rows
<1>8. CASE purge.playback = "LoadSelected"
  <2> DEFINE found == PQ!FirstPlayable(purge.queue, purge.queue.cursor)
  <2>1. purge.queue.cursor \in 1..Q!Size(purge.queue)
    BY <1>4, <1>7, <1>8, NumbersOfQueue
  <2>2. found.target \in DOMAIN purge.queue.order
    BY <1>4, <2>1, QueueAssumed, Q!FirstPlayableIs, SameReadings, NumbersOfQueue
       DEF Q!FirstPlayableIs
  <2>3. FirstPlayableAfter(purge)
          = [queue |-> PQ!AtCursor(purge.queue, found.target),
             playback |-> IF found.kind = "Load" THEN "LoadSelected" ELSE "Stop"]
    BY <1>8 DEF FirstPlayableAfter
  <2> HIDE DEF found
  <2>4. Q!Sound(PQ!AtCursor(purge.queue, found.target))
    BY <1>4, <2>2, PlacesAreSound
  <2> QED
    BY <1>6, <2>3, <2>4
<1>9. CASE purge.playback = "Stop"
  <2>1. FirstPlayableAfter(purge) = purge
    BY <1>9 DEF FirstPlayableAfter
  <2> QED
    BY <1>4, <1>6, <1>9, <2>1
<1> QED
  BY <1>5, <1>8, <1>9

-----------------------------------------------------------------------------
(* Whole handlers *)

\* What a handler may make of e: a running file stays with its own track.
Keeps(e, f) == Whole(f) /\ (Agrees(e) => Agrees(f))

\* An engine with the queue and the load of e, and with its player or none.
Same(e, f) ==
  /\ IsEngine(f)
  /\ f.queue = e.queue /\ f.loaded = e.loaded
  /\ f.player \in {e.player, NoPlayer}

LEMMA SameKeeps ==
  ASSUME NEW e, Whole(e), NEW f, Same(e, f)
  PROVE  /\ Keeps(e, f)
         /\ \A g : Keeps(f, g) => Keeps(e, g)
<1>1. Whole(f) /\ (Agrees(e) => Agrees(f))
  BY DEF Whole, Agrees, Same
<1> QED
  BY <1>1 DEF Keeps

LEMMA LoadsKeeps ==
  ASSUME NEW e, NEW r, Loads(e, r)
  PROVE  Keeps(e, r.d)
BY LoadsKeep DEF Loads, Keeps

LEMMA StopKeeps ==
  ASSUME NEW e, Whole(e)
  PROVE  Keeps(e, Stop(e)) /\ Keeps(e, e)
BY StopWhole DEF Keeps

\* A queue that shows the same track, or one that nothing of is loaded.
LEMMA QueueKeeps ==
  ASSUME NEW e, Whole(e), NEW c, Q!Sound(c), e.loaded = PlayingId(e.queue) => Stays(e.queue, c)
  PROVE  Keeps(e, [e EXCEPT !.queue = c])
<1> DEFINE f == [e EXCEPT !.queue = c]
<1>1. Whole(f) /\ f.queue = c /\ f.loaded = e.loaded /\ f.player = e.player
  BY QueueWhole
<1> HIDE DEF f
<1>2. Agrees(e) => Agrees(f)
  BY <1>1 DEF Agrees, Stays
<1>3. Keeps(e, f)
  BY <1>1, <1>2 DEF Keeps
<1> QED
  BY <1>3 DEF f

LEMMA RemovedKeeps ==
  ASSUME NEW e, Whole(e), NEW removal, Q!Sound(removal.queue),
         removal.playback = "Unchanged" => Stays(e.queue, removal.queue),
         removal.playback \in {"Unchanged", "LoadSelected", "Stop"},
         NEW r \in Removed(e, removal)
  PROVE  Keeps(e, r.d)
<1>1. CASE removal.playback = "Unchanged"
  <2>1. r.d = [e EXCEPT !.queue = removal.queue]
    BY <1>1 DEF Removed, Did
  <2> QED
    BY <1>1, <2>1, QueueKeeps
<1>2. CASE removal.playback = "LoadSelected"
  <2>1. r \in LoadOrRestore(e, removal.queue)
    BY <1>2 DEF Removed
  <2> QED
    BY <2>1, LoadOrRestoreLoads, LoadsKeeps
<1>3. CASE removal.playback = "Stop"
  <2> DEFINE f == [e EXCEPT !.queue = removal.queue]
  <2>1. r.d = Stop(f)
    BY <1>3 DEF Removed, Did
  <2>2. Whole(f)
    BY QueueWhole
  <2> HIDE DEF f
  <2> QED
    BY <2>1, <2>2, StopWhole DEF Keeps
<1> QED
  BY <1>1, <1>2, <1>3

LEMMA AppendedKeeps ==
  ASSUME NEW e, Whole(e), NEW more \in Blocks, Fits(e, more), NEW r \in Appended(e, more)
  PROVE  Keeps(e, r.d)
<1>0. Q!Sound(e.queue) /\ PQ!Fitting(e.queue, more) # <<>>
  BY DEF Whole, Fits
<1>1. PICK c \in PQ!Extend(e.queue, more) :
        r \in IF e.loaded = NoSong
                THEN LoadOrRestore(e, PQ!AtCursor(c, Len(e.queue.order) + 1))
                ELSE {Did([e EXCEPT !.queue = c])}
  BY DEF Appended
<1>2. /\ Q!Sound(c)
      /\ PlayingId(e.queue) # NoSong => Stays(e.queue, c)
      /\ Len(e.queue.order) + 1 \in DOMAIN c.order
  BY <1>0, BlocksAreSound
<1>3. CASE e.loaded = NoSong
  <2> DEFINE moved == PQ!AtCursor(c, Len(e.queue.order) + 1)
  <2>1. Q!Sound(moved) /\ r \in LoadOrRestore(e, moved)
    BY <1>1, <1>2, <1>3, PlacesAreSound
  <2> HIDE DEF moved
  <2> QED
    BY <2>1, LoadOrRestoreLoads, LoadsKeeps
<1>4. CASE e.loaded # NoSong
  <2>1. r.d = [e EXCEPT !.queue = c]
    BY <1>1, <1>4 DEF Did
  <2> QED
    BY <1>2, <1>4, <2>1, QueueKeeps
<1> QED
  BY <1>3, <1>4

LEMMA EnqueueKeeps ==
  ASSUME NEW e, Whole(e), NEW r \in Enqueue(e)
  PROVE  Keeps(e, r.d)
<1> DEFINE added == UNION {Appended(e, more) : more \in {m \in Blocks : Fits(e, m)}}
           Behind(more) == Did([e EXCEPT !.queue = PQ!InsertAfterCurrent(e.queue, more)])
           next == {Behind(more) : more \in {m \in Blocks : Fits(e, m) /\ e.loaded # NoSong}}
<1>1. Enqueue(e) = added \cup next
  BY DEF Enqueue
<1>2. CASE r \in added
  <2>1. PICK more \in Blocks : Fits(e, more) /\ r \in Appended(e, more)
    BY <1>2
  <2> QED
    BY <2>1, AppendedKeeps
<1>3. CASE r \in next
  <2> HIDE DEF Behind
  <2>1. PICK more \in Blocks : Fits(e, more) /\ e.loaded # NoSong /\ r = Behind(more)
    BY <1>3
  <2> DEFINE moved == PQ!InsertAfterCurrent(e.queue, more)
  <2>2. r.d = [e EXCEPT !.queue = moved]
    BY <2>1 DEF Behind, Did
  <2>3. Q!Sound(moved) /\ (PlayingId(e.queue) # NoSong => Stays(e.queue, moved))
    BY <2>1, BlocksAreSound DEF Whole, Fits
  <2> HIDE DEF moved
  <2> QED
    BY <2>1, <2>2, <2>3, QueueKeeps
<1> HIDE DEF added, next
<1> QED
  BY <1>1, <1>2, <1>3

LEMMA PlaybackKeeps ==
  ASSUME NEW e, Whole(e), NEW r \in PlaybackCommands(e)
  PROVE  Keeps(e, r.d)
<1>0. Q!Sound(e.queue)
  BY DEF Whole
<1>1. Keeps(e, Stop(e)) /\ Keeps(e, e)
  BY StopKeeps
<1>2. ASSUME NEW moved, Q!Sound(moved), r \in LoadOrRestore(e, moved) PROVE Keeps(e, r.d)
  BY <1>2, LoadOrRestoreLoads, LoadsKeeps
<1>3. ASSUME NEW pos \in DOMAIN e.queue.order, r \in LoadOrRestore(e, PQ!AtCursor(e.queue, pos))
      PROVE  Keeps(e, r.d)
  BY <1>0, <1>2, <1>3, PlacesAreSound
<1>4. CASE r \in NextTrack(e)
  <2> DEFINE pos == PQ!PlanNext(e.queue, e.queue.cursor, FALSE)
  <2>1. \/ r = Failed(e) \/ r = Failed(Stop(e))
        \/ pos # PQ!NoPos /\ r \in LoadOrRestore(e, PQ!AtCursor(e.queue, pos))
    BY <1>4 DEF NextTrack
  <2>2. pos # PQ!NoPos => pos \in DOMAIN e.queue.order
    BY <1>0, PlacesAreSound
  <2> HIDE DEF pos
  <2> QED
    BY <1>1, <1>3, <2>1, <2>2 DEF Failed
<1>5. CASE r \in PrevTrack(e)
  <2> DEFINE pos == PQ!PlanPrev(e.queue, e.queue.cursor)
  <2>1. \/ r = Failed(e)
        \/ e.queue.order # <<>> /\ r \in LoadOrRestore(e, PQ!AtCursor(e.queue, pos))
    BY <1>5 DEF PrevTrack
  <2>2. e.queue.order # <<>> => pos \in DOMAIN e.queue.order
    BY <1>0, PlacesAreSound
  <2> HIDE DEF pos
  <2> QED
    BY <1>1, <1>3, <2>1, <2>2 DEF Failed
<1>6. CASE r \in QueuePlay(e)
  <2>1. PICK pos \in DOMAIN e.queue.order : r \in LoadOrRestore(e, PQ!AtCursor(e.queue, pos))
    BY <1>6 DEF QueuePlay
  <2> QED
    BY <1>3, <2>1
<1>7. CASE r \in QueueRemove(e)
  <2>1. PICK pos \in DOMAIN e.queue.order : r \in Removed(e, PQ!DaemonRemove(e.queue, pos))
    BY <1>7 DEF QueueRemove
  <2> DEFINE removal == PQ!DaemonRemove(e.queue, pos)
  <2>2. removal.playback \in {"Unchanged", "LoadSelected", "Stop"}
    BY DEF PQ!DaemonRemove
  <2>3. /\ Q!Sound(removal.queue)
        /\ removal.playback = "Unchanged" => Stays(e.queue, removal.queue)
    BY <1>0, DaemonRemoveIs
  <2> HIDE DEF removal
  <2>4. r \in Removed(e, removal)
    BY <2>1 DEF removal
  <2> QED
    BY <2>2, <2>3, <2>4, RemovedKeeps
<1>8. CASE r \in BanCurrent(e)
  <2>1. PICK ids \in SUBSET VideoIds : /\ PlayingId(e.queue) \in ids
                                       /\ r \in Removed(e, FirstPlayableAfter(PQ!Purge(e.queue, ids)))
    BY <1>8 DEF BanCurrent
  <2> DEFINE removal == FirstPlayableAfter(PQ!Purge(e.queue, ids))
  <2>2. PQ!Purge(e.queue, ids).playback \in {"Unchanged", "LoadSelected", "Stop"}
    BY DEF PQ!Purge
  <2>3. removal.playback \in {"Unchanged", "LoadSelected", "Stop"}
    BY <2>2 DEF FirstPlayableAfter
  <2>4. Q!Sound(removal.queue) /\ removal.playback # "Unchanged"
    BY <1>0, <2>1, BanIs
  <2> HIDE DEF removal
  <2>5. r \in Removed(e, removal)
    BY <2>1 DEF removal
  <2> QED
    BY <2>3, <2>4, <2>5, RemovedKeeps
<1>9. CASE r \in SearchAndPlay(e)
  <2>1. PICK more \in Blocks : Fits(e, more) /\ r \in LoadOrRestore(e, PQ!PlayNow(e.queue, more))
    BY <1>9 DEF SearchAndPlay
  <2>2. Q!Sound(PQ!PlayNow(e.queue, more))
    BY <1>0, <2>1, BlocksAreSound DEF Fits
  <2> QED
    BY <1>2, <2>1, <2>2
<1>10. CASE r \in Enqueue(e)
  BY <1>10, EnqueueKeeps
<1>11. CASE r \in TogglePause(e)
  <2>1. r \in LoadCurrent(e)
    BY <1>11 DEF TogglePause
  <2> QED
    BY <2>1, LoadCurrentLoads, LoadsKeeps
<1> QED
  BY <1>4, <1>5, <1>6, <1>7, <1>8, <1>9, <1>10, <1>11 DEF PlaybackCommands

-----------------------------------------------------------------------------
(* Automatic loads, the session and the recovery *)

LEMMA LoadStopKeeps ==
  ASSUME NEW e, Whole(e), NEW r \in OrStop(LoadCurrent(e))
  PROVE  Whole(r.d) /\ Agrees(r.d)
<1>1. \A s \in LoadCurrent(e) : Whole(s.d) /\ (s.ok => Agrees(s.d))
  BY LoadCurrentLoads DEF Loads
<1> QED
  BY <1>1, OrStopAgrees

\* The move of the cursor before an automatic load.
LEMMA MoveStopKeeps ==
  ASSUME NEW e, Whole(e), NEW pos \in DOMAIN e.queue.order,
         NEW r \in OrStop(LoadCurrent([e EXCEPT !.queue = PQ!AtCursor(@, pos)]))
  PROVE  Keeps(e, r.d)
<1> DEFINE moved == PQ!AtCursor(e.queue, pos)
<1>1. Q!Sound(moved)
  BY PlacesAreSound DEF Whole
<1>2. r \in OrStop(LoadCurrent([e EXCEPT !.queue = moved]))
  OBVIOUS
<1> HIDE DEF moved
<1>3. Whole([e EXCEPT !.queue = moved])
  BY <1>1, QueueWhole
<1> QED
  BY <1>2, <1>3, LoadStopKeeps DEF Keeps

LEMMA AdvanceKeeps ==
  ASSUME NEW e, Whole(e), NEW r \in AdvanceAfterEnd(e)
  PROVE  Keeps(e, r.d)
<1> DEFINE pos == PQ!PlanNext(e.queue, e.queue.cursor, TRUE)
<1>1. CASE r = Did(Stop(e))
  BY <1>1, StopKeeps DEF Did
<1>2. CASE pos # PQ!NoPos /\ r \in OrStop(LoadCurrent([e EXCEPT !.queue = PQ!AtCursor(@, pos)]))
  <2>1. pos \in DOMAIN e.queue.order
    BY <1>2, PlacesAreSound DEF Whole
  <2> HIDE DEF pos
  <2> QED
    BY <1>2, <2>1, MoveStopKeeps
<1> QED
  BY <1>1, <1>2 DEF AdvanceAfterEnd

LEMMA SkippedKeeps ==
  ASSUME NEW e, Whole(e), NEW count, NEW r \in Skipped(e, count)
  PROVE  Keeps(e, r.d)
<1> DEFINE pos == PQ!PlanNext(e.queue, e.queue.cursor, FALSE)
<1>1. CASE r = Did(Stop(e))
  BY <1>1, StopKeeps DEF Did
<1>2. CASE pos # PQ!NoPos /\ r \in OrStop(LoadCurrent([e EXCEPT !.queue = PQ!AtCursor(@, pos)]))
  <2>1. pos \in DOMAIN e.queue.order
    BY <1>2, PlacesAreSound DEF Whole
  <2> HIDE DEF pos
  <2> QED
    BY <1>2, <2>1, MoveStopKeeps
<1> QED
  BY <1>1, <1>2 DEF Skipped

LEMMA MediaKeeps ==
  ASSUME NEW e, Whole(e), NEW r \in OpenUri(e) \cup MediaStop(e)
  PROVE  Keeps(e, r.d)
<1>1. CASE r \in OpenUri(e)
  <2>1. PICK more \in Blocks : /\ Fits(e, more)
                               /\ r \in OrStop(LoadOrRestore(e, PQ!PlayNow(e.queue, more)))
    BY <1>1 DEF OpenUri
  <2> DEFINE moved == PQ!PlayNow(e.queue, more)
  <2>2. Q!Sound(moved)
    BY <2>1, BlocksAreSound DEF Whole, Fits
  <2>3. r \in OrStop(LoadOrRestore(e, moved))
    BY <2>1
  <2> HIDE DEF moved
  <2>4. \A s \in LoadOrRestore(e, moved) : Whole(s.d) /\ (s.ok => Agrees(s.d))
    BY <2>2, LoadOrRestoreLoads DEF Loads
  <2> QED
    BY <2>3, <2>4, OrStopAgrees DEF Keeps
<1>2. CASE r \in MediaStop(e)
  <2>1. r.d = Stop(e)
    BY <1>2 DEF MediaStop, Did
  <2> QED
    BY <2>1, StopKeeps
<1> QED
  BY <1>1, <1>2

LEMMA EditKeeps ==
  ASSUME NEW e, Whole(e), NEW r \in EditQueue(e)
  PROVE  Keeps(e, r.d)
<1>1. PICK kind \in EditKinds, c \in UNION {Edited(e.queue, k) : k \in EditKinds} :
        /\ c \in Edited(e.queue, kind)
        /\ r = Did([e EXCEPT !.queue = c])
  BY DEF EditQueue
<1>2. kind \in {"move", "clear", "repeat", "shuffle"}
  BY DaemonAssumption
<1>3. Q!Sound(c) /\ Stays(e.queue, c)
  BY <1>1, <1>2, EditsStay DEF Whole
<1>4. r.d = [e EXCEPT !.queue = c]
  BY <1>1 DEF Did
<1> QED
  BY <1>3, <1>4, QueueKeeps

\* A restored session may leave a running file with another track current.
LEMMA ResumeWhole ==
  ASSUME NEW e, Whole(e), NEW r \in ResumeSession(e)
  PROVE  Whole(r.d)
<1>1. PICK c \in Restorable(e) :
        LET f == [e EXCEPT !.queue = c, !.progressed = FALSE]
        IN r \in IF PlayingId(c) = NoSong THEN {Failed(f)} ELSE LoadCurrent(f)
  BY DEF ResumeSession
<1>2. Q!Sound(c)
  <2>1. PICK s \in Snapshots : c \in PQ!RestoreSnapshot(e.queue, s)
    BY DEF Restorable
  <2>2. s \in Q!Queues /\ c \in Q!RestoreSnapshot(e.queue, s)
    BY <2>1, SnapshotAssumption, SameReadings, SameEdits
  <2> QED
    BY <2>2, QueueAssumed, Q!RestoreIs DEF Q!RestoreIs
<1> DEFINE f == [e EXCEPT !.queue = c, !.progressed = FALSE]
<1>3. IsEngine(f) /\ f.queue = c /\ f.player = e.player
  BY DEF Whole, IsEngine, Fields
<1>4. r \in IF PlayingId(c) = NoSong THEN {Failed(f)} ELSE LoadCurrent(f)
  BY <1>1
<1> HIDE DEF f
<1>5. Whole(f)
  BY <1>2, <1>3 DEF Whole
<1>6. CASE r = Failed(f)
  BY <1>5, <1>6 DEF Failed
<1>7. CASE r \in LoadCurrent(f)
  BY <1>5, <1>7, LoadCurrentLoads DEF Loads
<1> QED
  BY <1>4, <1>6, <1>7

LEMMA PlaybackErrorKeeps ==
  ASSUME NEW e, Whole(e), NEW class, NEW rest, PlaybackError(e, class, rest)
  PROVE  Keeps(e, d')
<1>1. CASE RecoverSource(e, class)
  <2> DEFINE g == [e EXCEPT !.player.file = @ + 1, !.player.playing = e.player.up]
  <2>1. PICK r \in SendLoad(e) : r.ok /\ d' = [r.d EXCEPT !.spent = TRUE]
    BY <1>1 DEF RecoverSource
  <2>2. e.player # NoPlayer /\ e.loaded = PlayingId(e.queue)
    BY <1>1 DEF RecoverSource
  <2>3. r.d = g
    <3>1. r = Failed(e) \/ r = Did(g)
      BY DEF SendLoad
    <3>2. Failed(e).ok = FALSE
      BY DEF Failed
    <3> QED
      BY <2>1, <3>1, <3>2 DEF Did
  <2>4. /\ IsEngine(g) /\ g.queue = e.queue /\ g.loaded = e.loaded
        /\ DOMAIN g.player = PlayerFields
    BY <2>2 DEF Whole, IsEngine, Fields
  <2> HIDE DEF g
  <2>5. IsEngine(d') /\ d'.queue = g.queue /\ d'.loaded = g.loaded /\ d'.player = g.player
    BY <2>1, <2>3, <2>4 DEF IsEngine, Fields
  <2> QED
    BY <2>2, <2>4, <2>5 DEF Keeps, Whole, Agrees
<1>2. CASE BeginLoadRetry(e, class, rest)
  <2>1. d' = [e EXCEPT !.retry = PlayingId(e.queue)]
    BY <1>2 DEF BeginLoadRetry
  <2>2. Same(e, d')
    BY <2>1 DEF Same, Whole, IsEngine, Fields
  <2> QED
    BY <2>2, SameKeeps
<1>3. CASE BeginHeal(e, class, rest)
  <2>1. d' = [e EXCEPT !.heal = PlayingId(e.queue)]
    BY <1>3 DEF BeginHeal
  <2>2. Same(e, d')
    BY <2>1 DEF Same, Whole, IsEngine, Fields
  <2> QED
    BY <2>2, SameKeeps
<1>4. CASE SkipOrStop(e)
  <2>1. PICK r \in Skipped(e, errors + 1) : d' = r.d
    BY <1>4 DEF SkipOrStop
  <2> QED
    BY <2>1, SkippedKeeps
<1> QED
  BY <1>1, <1>2, <1>3, <1>4 DEF PlaybackError

LEMMA LoadRecoveryKeeps ==
  ASSUME NEW e, Whole(e), DOMAIN e.player = PlayerFields, NEW r \in LoadRecovery(e)
  PROVE  /\ Whole(r.d) /\ r.d.queue = e.queue
         /\ Agrees(r.d) \/ Rests(e, r.d)
<1> DEFINE Replayed(s, resumed) ==
             Did([s.d EXCEPT !.loaded = PlayingId(e.queue), !.rec = Disarmed,
                             !.progressed = resumed])
           admitted == {Replayed(f, resumed) : f \in Sent(e), resumed \in BOOLEAN}
<1>1. CASE r = Did(Stop(e))
  <2>1. r.d = Stop(e) /\ Stop(e).queue = e.queue
    BY <1>1, StopIs DEF Did, Whole
  <2> QED
    BY <2>1, StopWhole
<1>2. CASE r = Failed(Superseding(e))
  <2>1. r.d = Superseding(e)
    BY <1>2 DEF Failed
  <2>2. /\ IsEngine(Superseding(e)) /\ Superseding(e).queue = e.queue
        /\ Superseding(e).loaded = e.loaded /\ Superseding(e).player = e.player
    BY DEF Whole, IsEngine, Fields, Superseding
  <2> QED
    BY <2>1, <2>2 DEF Whole, Rests
<1>3. CASE r \in Refused(e)
  <2>1. r \in SendLoad(Superseding(e)) /\ ~r.ok
    BY <1>3 DEF Refused
  <2> QED
    BY <2>1, SendLoadWhole DEF Rests
<1>4. CASE r \in admitted
  <2> HIDE DEF Replayed
  <2>1. PICK s \in Sent(e), resumed \in BOOLEAN : r = Replayed(s, resumed)
    BY <1>4
  <2> DEFINE f == [s.d EXCEPT !.loaded = PlayingId(e.queue), !.rec = Disarmed,
                              !.progressed = resumed]
  <2>2. Whole(s.d) /\ s.d.queue = e.queue
    BY SendLoadWhole DEF Sent
  <2>3. r.d = f
    BY <2>1 DEF Did, Replayed
  <2>4. /\ IsEngine(f) /\ f.queue = s.d.queue /\ f.player = s.d.player
        /\ f.loaded = PlayingId(e.queue)
    BY <2>2 DEF Whole, IsEngine, Fields
  <2> HIDE DEF f
  <2> QED
    BY <2>2, <2>3, <2>4 DEF Whole, Agrees
<1>5. \/ r = Did(Stop(e))
      \/ r = Failed(Superseding(e))
      \/ r \in Refused(e) \cup admitted
  <2>1. \/ r = Did(Stop(e))
        \/ r = Failed(Superseding(e))
        \/ r \in RecoveryLoads(e)
    BY DEF LoadRecovery
  <2>2. RecoveryLoads(e) = Refused(e) \cup admitted
    BY DEF RecoveryLoads
  <2> HIDE DEF admitted
  <2> QED
    BY <2>1, <2>2
<1> HIDE DEF admitted
<1> QED
  BY <1>1, <1>2, <1>3, <1>4, <1>5

LEMMA AttemptKeeps ==
  ASSUME NEW e, Whole(e), NEW gen, NEW r \in AttemptRecovery(e, gen)
  PROVE  Keeps(e, r.d)
<1>1. CASE ~MayAttempt(e, gen)
  <2>1. r.d = e
    BY <1>1 DEF AttemptRecovery, Did
  <2> QED
    BY <2>1, StopKeeps
<1>2. CASE MayAttempt(e, gen)
  <2> DEFINE f == [e EXCEPT !.rec.attempts = @ + 1]
  <2>1. PICK s \in EnsurePlayer(f) : \/ s.ok /\ r \in LoadRecovery(s.d)
                                     \/ ~s.ok /\ r = s
    BY <1>2 DEF AttemptRecovery, Then
  <2>2. Same(e, f)
    BY DEF Same, Whole, IsEngine, Fields
  <2> HIDE DEF f
  <2>3. Keeps(e, f) /\ Whole(f) /\ \A g : Keeps(f, g) => Keeps(e, g)
    BY <2>2, SameKeeps DEF Keeps
  <2>4. /\ Whole(s.d) /\ Rests(f, s.d) /\ s.d.queue = f.queue
        /\ s.ok => DOMAIN s.d.player = PlayerFields
    BY <2>3, EnsurePlayerWhole
  <2>5. CASE s.ok /\ r \in LoadRecovery(s.d)
    <3>1. /\ Whole(r.d) /\ r.d.queue = s.d.queue
          /\ Agrees(r.d) \/ Rests(s.d, r.d)
      BY <2>4, <2>5, LoadRecoveryKeeps
    <3>2. Agrees(f) => Agrees(r.d)
      BY <2>4, <3>1 DEF Agrees, Rests
    <3> QED
      BY <2>3, <3>1, <3>2 DEF Keeps
  <2>6. CASE r = s
    <3>1. Agrees(f) => Agrees(r.d)
      BY <2>4, <2>6 DEF Agrees, Rests
    <3> QED
      BY <2>3, <2>4, <2>6, <3>1 DEF Keeps
  <2> QED
    BY <2>1, <2>5, <2>6
<1> QED
  BY <1>1, <1>2

LEMMA ClosedKeeps ==
  ASSUME NEW e, Whole(e)
  PROVE  Whole(TransportClosed(e)) /\ (Agrees(e) => Agrees(TransportClosed(e)))
<1> DEFINE f == [e EXCEPT !.player = NoPlayer, !.loaded = NoSong, !.progressed = FALSE,
                          !.recGen = @ + 1, !.rec = Begin(e)]
<1>1. CASE e.player = NoPlayer
  <2>1. TransportClosed(e) = e
    BY <1>1 DEF TransportClosed
  <2> QED
    BY <2>1
<1>2. CASE e.player # NoPlayer
  <2>1. TransportClosed(e) = f
    BY <1>2 DEF TransportClosed
  <2>2. IsEngine(f) /\ f.queue = e.queue /\ f.player = NoPlayer
    BY DEF Whole, IsEngine, Fields
  <2> HIDE DEF f
  <2> QED
    BY <2>1, <2>2 DEF Whole, Agrees
<1> QED
  BY <1>1, <1>2

-----------------------------------------------------------------------------
(* Steps that keep what runs current *)

\* One player event, from the loop's queue.
LEMMA EventKeeps ==
  ASSUME Whole(d), HandlePlayerEvent
  PROVE  Keeps(d, d')
<1> DEFINE event == Head(inbox)
<1>1. CASE event.kind = "Closed"
  <2> DEFINE closed == TransportClosed(d)
  <2>1. OnTransportClosed
    BY <1>1 DEF HandlePlayerEvent
  <2>2. d' = closed \/ \E r \in AttemptRecovery(closed, closed.recGen) : d' = r.d
    BY <2>1 DEF OnTransportClosed
  <2>3. Keeps(d, closed)
    BY ClosedKeeps DEF Keeps
  <2> HIDE DEF closed
  <2>4. Keeps(closed, d')
    BY <2>2, <2>3, AttemptKeeps, StopKeeps DEF Keeps
  <2> QED
    BY <2>3, <2>4 DEF Keeps
<1>2. CASE event.kind # "Closed"
  <2>1. \/ \E r \in AdvanceAfterEnd(d) : d' = r.d
        \/ \E class \in ErrorClasses : PlaybackError(d, class, tasks)
        \/ d' = d
    BY <1>2 DEF HandlePlayerEvent
  <2> QED
    BY <2>1, AdvanceKeeps, PlaybackErrorKeeps, StopKeeps
<1> QED
  BY <1>1, <1>2

\* The result of a heal and of a second resolution.
LEMMA ResultKeeps ==
  ASSUME Whole(d), HealDone \/ ResolveDone
  PROVE  Keeps(d, d')
<1>0. IsEngine(d)
  BY DEF Whole
<1>1. CASE HealDone
  <2>1. PICK task \in tasks, updated \in BOOLEAN :
          LET repinned == [d EXCEPT !.repin = @ \/ updated]
              healed == HealOver(d)
          IN \/ d' = repinned
             \/ d' = HealOver(repinned)
             \/ \E r \in OrStop(LoadCurrent([healed EXCEPT !.player = NoPlayer])) : d' = r.d
             \/ PlaybackError(healed, "format", tasks \ {task})
    BY <1>1 DEF HealDone
  <2> DEFINE repinned == [d EXCEPT !.repin = @ \/ updated]
             healed == HealOver(d)
             stopped == [healed EXCEPT !.player = NoPlayer]
  <2>2. /\ Same(d, repinned) /\ Same(d, HealOver(repinned)) /\ Same(d, healed)
        /\ Same(d, stopped)
    BY <1>0 DEF Same, IsEngine, Fields, HealOver
  <2>3. \/ d' = repinned
        \/ d' = HealOver(repinned)
        \/ \E r \in OrStop(LoadCurrent(stopped)) : d' = r.d
        \/ PlaybackError(healed, "format", tasks \ {task})
    BY <2>1
  <2> HIDE DEF repinned, healed, stopped
  <2>4. Keeps(d, stopped) /\ Keeps(d, healed) /\ \A g : Keeps(healed, g) => Keeps(d, g)
    BY <2>2, SameKeeps
  <2> QED
    BY <2>2, <2>3, <2>4, SameKeeps, LoadStopKeeps, PlaybackErrorKeeps DEF Keeps
<1>2. CASE ResolveDone
  <2> DEFINE done == [d EXCEPT !.retry = NoSong]
  <2>1. PICK task \in tasks :
          \/ d' = d
          \/ d' = done
          \/ \E r \in OrStop(LoadCurrent(done)) : d' = r.d
          \/ PlaybackError(done, "other", tasks \ {task})
    BY <1>2 DEF ResolveDone
  <2>2. Same(d, done)
    BY <1>0 DEF Same, IsEngine, Fields
  <2> HIDE DEF done
  <2>3. Keeps(d, done) /\ \A g : Keeps(done, g) => Keeps(d, g)
    BY <2>2, SameKeeps
  <2> QED
    BY <2>1, <2>3, StopKeeps, LoadStopKeeps, PlaybackErrorKeeps DEF Keeps
<1> QED
  BY <1>1, <1>2

\* What the player does by itself.
LEMMA PlayerKeeps ==
  ASSUME Whole(d), FileEnds \/ TransportFails \/ Progress
  PROVE  Keeps(d, d')
<1>0. IsEngine(d) /\ d.player # NoPlayer /\ DOMAIN d.player = PlayerFields
  BY DEF Whole, FileEnds, TransportFails, Progress
<1>1. CASE FileEnds
  <2>1. d' = [d EXCEPT !.player.playing = FALSE]
    BY <1>1 DEF FileEnds
  <2>2. /\ IsEngine(d') /\ d'.queue = d.queue /\ DOMAIN d'.player = PlayerFields
        /\ d'.player.playing = FALSE
    BY <1>0, <2>1 DEF IsEngine, Fields, PlayerFields
  <2> QED
    BY <2>2 DEF Keeps, Whole, Agrees
<1>2. CASE TransportFails
  <2>1. d' = [d EXCEPT !.player.up = FALSE, !.player.playing = FALSE]
    BY <1>2 DEF TransportFails
  <2>2. /\ IsEngine(d') /\ d'.queue = d.queue /\ DOMAIN d'.player = PlayerFields
        /\ d'.player.playing = FALSE
    BY <1>0, <2>1 DEF IsEngine, Fields, PlayerFields
  <2> QED
    BY <2>2 DEF Keeps, Whole, Agrees
<1>3. CASE Progress
  <2>1. d' = [d EXCEPT !.progressed = TRUE]
    BY <1>3 DEF Progress
  <2>2. Same(d, d')
    BY <1>0, <2>1 DEF Same, IsEngine, Fields
  <2> QED
    BY <2>2, SameKeeps
<1> QED
  BY <1>1, <1>2, <1>3

LEMMA StepKeeps ==
  ASSUME Whole(d), [Next]_vars
  PROVE  \/ Keeps(d, d')
         \/ Resume /\ Whole(d')
<1>1. ASSUME NEW outcomes, Handled(outcomes), \A r \in outcomes : Keeps(d, r.d)
      PROVE  Keeps(d, d')
  BY <1>1 DEF Handled
<1>2. CASE Play
  BY <1>1, <1>2, PlaybackKeeps DEF Play
<1>3. CASE Media
  <2>1. \A r \in OpenUri(d) \cup MediaStop(d) : Keeps(d, r.d)
    BY MediaKeeps
  <2> QED
    BY <1>1, <1>3, <2>1 DEF Media
<1>4. CASE Resume
  <2>1. PICK r \in ResumeSession(d) : d' = r.d
    BY <1>4 DEF Resume, Handled
  <2> QED
    BY <1>4, <2>1, ResumeWhole
<1>5. CASE Edit
  BY <1>1, <1>5, EditKeeps DEF Edit
<1>6. CASE AutoplayPicks
  <2> DEFINE picks == UNION {Appended(d, more) : more \in {m \in Blocks : Fits(d, m)}}
  <2>1. \A r \in picks : Keeps(d, r.d)
    BY AppendedKeeps
  <2>2. Handled(picks)
    BY <1>6 DEF AutoplayPicks
  <2> HIDE DEF picks
  <2> QED
    BY <1>1, <2>1, <2>2
<1>7. CASE CrossfadeDue
  BY <1>1, <1>7, AdvanceKeeps DEF CrossfadeDue
<1>8. CASE FileEnds \/ TransportFails \/ Progress
  BY <1>8, PlayerKeeps
<1>9. CASE HandlePlayerEvent
  BY <1>9, EventKeeps
<1>10. CASE RetryDue
  <2>1. PICK gen : \E r \in AttemptRecovery(d, gen) : d' = r.d
    BY <1>10 DEF RetryDue
  <2> QED
    BY <2>1, AttemptKeeps
<1>11. CASE HealDone \/ ResolveDone
  BY <1>11, ResultKeeps
<1>12. CASE UNCHANGED vars
  <2>1. d' = d
    BY <1>12 DEF vars
  <2> QED
    BY <2>1, StopKeeps
<1> QED
  BY <1>2, <1>3, <1>4, <1>5, <1>6, <1>7, <1>8, <1>9, <1>10, <1>11, <1>12 DEF Next, Owner

LEMMA WholeInit == Init => Whole(d)
<1> SUFFICES ASSUME Init PROVE Whole(d)
  OBVIOUS
<1>1. PICK queue \in {PQ!EmptyQueue} \cup UNION {PQ!RestoreSnapshot(PQ!EmptyQueue, s) : s \in Snapshots} :
        d = [queue |-> queue, player |-> NoPlayer, loaded |-> NoSong, rec |-> Armed,
             recGen |-> 0, heal |-> NoSong, retry |-> NoSong, repin |-> FALSE,
             spent |-> FALSE, progressed |-> FALSE, lives |-> 0]
  BY DEF Init
<1>2. CASE queue = PQ!EmptyQueue
  <2>1. Q!Sound(queue)
    BY <1>2, QueueAssumed, Q!EmptyIsSound, SameReadings DEF Q!EmptyIsSound
  <2> QED
    BY <1>1, <2>1 DEF Whole, IsEngine, Fields
<1>3. CASE queue # PQ!EmptyQueue
  <2>1. PICK s \in Snapshots : queue \in PQ!RestoreSnapshot(PQ!EmptyQueue, s)
    BY <1>3
  <2>2. s \in Q!Queues /\ queue \in Q!RestoreSnapshot(PQ!EmptyQueue, s)
    BY <2>1, SnapshotAssumption, SameReadings, SameEdits
  <2>3. Q!Sound(queue)
    BY <2>2, QueueAssumed, Q!RestoreIs DEF Q!RestoreIs
  <2> QED
    BY <1>1, <2>3 DEF Whole, IsEngine, Fields
<1> QED
  BY <1>2, <1>3

WholeInv == Whole(d)

\* The engine's queue stays sound whatever it is asked to do, and it has at
\* most one player (QueueShape of the queue, inside the engine).
THEOREM EngineStaysWhole == Spec => []WholeInv
<1>1. Init => WholeInv
  BY WholeInit DEF WholeInv
<1>2. WholeInv /\ [Next]_vars => WholeInv'
  BY StepKeeps DEF WholeInv, Keeps
<1> QED
  BY <1>1, <1>2, PTL DEF Spec

\* OnlyResumeSplits: refused loads, failed starts, removals, edits, late
\* events and task results all leave a running file with its own track; only
\* resume_session, which replaces the queue under a live player, can put the
\* two on different tracks.
THEOREM RunningStaysCurrent == Spec => OnlyResumeSplits
<1>1. WholeInv /\ [Next]_vars => [RunningIsCurrent => RunningIsCurrent' \/ Resume]_vars
  <2> SUFFICES ASSUME WholeInv, [Next]_vars, RunningIsCurrent
               PROVE  RunningIsCurrent' \/ Resume
    OBVIOUS
  <2>1. \A e : Agrees(e) <=> (e.player # NoPlayer /\ e.player.playing => e.loaded = PlayingId(e.queue))
    BY DEF Agrees
  <2>2. Agrees(d) /\ (Agrees(d') => RunningIsCurrent')
    BY <2>1 DEF RunningIsCurrent
  <2> QED
    BY <2>2, StepKeeps DEF WholeInv, Keeps
<1> QED
  BY <1>1, EngineStaysWhole, PTL DEF Spec, OnlyResumeSplits

-----------------------------------------------------------------------------
(* What a handler does to the player *)

Players == [life : Nat, file : Nat, playing : BOOLEAN, up : BOOLEAN]

\* An engine whose player is one of those it started.
Fit(e) ==
  /\ IsEngine(e)
  /\ e.lives \in Nat
  /\ e.player # NoPlayer => e.player \in Players /\ e.player.life <= e.lives

\* The player of e with one more file.
Again(e) == [e.player EXCEPT !.file = @ + 1, !.playing = e.player.up]

\* What a handler may do to the player: drop it, leave it, send it a file, or
\* start another.
Goes(e, f) ==
  \/ f.player = NoPlayer /\ f.lives \in {e.lives, e.lives + 1}
  \/ f.player = e.player /\ f.lives = e.lives
  \/ e.player # NoPlayer /\ f.player = Again(e) /\ f.lives = e.lives
  \/ /\ f.lives = e.lives + 1
     /\ f.player \in Players /\ f.player.life = f.lives /\ f.player.up = TRUE

\* Nothing is loaded, or what is plays while its transport lasts.
Running(e) ==
  \/ e.loaded = NoSong
  \/ e.player # NoPlayer /\ e.player.playing = e.player.up

\* The same is loaded, shown and waited for.
Waits(e, f) ==
  /\ f.player = e.player /\ f.loaded = e.loaded
  /\ f.heal = e.heal /\ f.retry = e.retry
  /\ PlayingId(e.queue) # NoSong => Stays(e.queue, f.queue)

LEMMA NoPlayerIsNone == NoPlayer \notin Players
BY DaemonAssumption DEF Players

LEMMA AgainIs ==
  ASSUME NEW e, e.player \in Players
  PROVE  /\ Again(e) \in Players /\ Again(e) # NoPlayer
         /\ Again(e).life = e.player.life /\ Again(e).file = e.player.file + 1
         /\ Again(e).up = e.player.up /\ Again(e).playing = e.player.up
<1> DEFINE n == e.player.file + 1
           next == [e.player EXCEPT !.file = n, !.playing = e.player.up]
<1>1. n \in Nat /\ e.player.up \in BOOLEAN
  BY DEF Players
<1>2. Again(e) = next
  BY DEF Again
<1> HIDE DEF n
<1>3. /\ next \in Players
      /\ next.life = e.player.life /\ next.file = n
      /\ next.up = e.player.up /\ next.playing = e.player.up
  BY <1>1 DEF Players
<1> HIDE DEF next
<1> QED
  BY <1>2, <1>3, NoPlayerIsNone DEF n

LEMMA GoesFit ==
  ASSUME NEW e, Fit(e), NEW f, IsEngine(f), Goes(e, f)
  PROVE  Fit(f)
<1>1. e.lives \in Nat /\ f.lives \in Nat /\ e.lives <= f.lives
  BY DEF Fit, Goes
<1>2. ASSUME f.player # NoPlayer PROVE f.player \in Players /\ f.player.life <= f.lives
  <2>1. CASE f.player = e.player
    BY <1>1, <1>2, <2>1 DEF Fit, Goes, Players
  <2>2. CASE e.player # NoPlayer /\ f.player = Again(e)
    BY <1>1, <2>2, AgainIs DEF Fit, Players
  <2>3. CASE f.player \in Players /\ f.player.life = f.lives
    BY <1>1, <2>3
  <2> QED
    BY <1>2, <2>1, <2>2, <2>3 DEF Goes
<1> QED
  BY <1>1, <1>2 DEF Fit

\* A player that was there or is started, and what is sent to it.
Starts(e, f) ==
  \/ f.player \in {e.player, NoPlayer} /\ f.lives = e.lives
  \/ /\ f.lives = e.lives + 1
     /\ f.player \in Players /\ f.player.life = f.lives /\ f.player.up = TRUE

Sends(e, f) ==
  /\ f.lives = e.lives
  /\ \/ f.player \in {e.player, NoPlayer}
     \/ e.player # NoPlayer /\ f.player = Again(e)

LEMMA StartsThenSends ==
  ASSUME NEW e, Fit(e), NEW f, Starts(e, f), NEW g, Sends(f, g)
  PROVE  Goes(e, g)
<1>1. CASE f.player \in {e.player, NoPlayer} /\ f.lives = e.lives
  BY <1>1 DEF Sends, Goes, Again
<1>2. CASE f.lives = e.lives + 1 /\ f.player \in Players /\ f.player.life = f.lives /\ f.player.up = TRUE
  <2>1. f.player # NoPlayer
    BY <1>2, NoPlayerIsNone
  <2>2. CASE g.player \in {f.player, NoPlayer}
    BY <1>2, <2>2 DEF Sends, Goes
  <2>3. CASE g.player = Again(f)
    BY <1>2, <2>3, AgainIs DEF Sends, Goes
  <2> QED
    BY <2>2, <2>3 DEF Sends
<1> QED
  BY <1>1, <1>2 DEF Starts

LEMMA StartsGoes ==
  ASSUME NEW e, NEW f, Starts(e, f)
  PROVE  Goes(e, f)
BY DEF Starts, Goes

\* An engine that differs in nothing that Goes speaks of.
LEMMA StillGoes ==
  ASSUME NEW e, NEW f, f.player = e.player, f.lives = e.lives
  PROVE  /\ Goes(e, f)
         /\ \A g : Goes(f, g) => Goes(e, g)
BY DEF Goes, Again

LEMMA StopGoes ==
  ASSUME NEW e, IsEngine(e)
  PROVE  Goes(e, Stop(e)) /\ Running(Stop(e)) /\ Sends(e, Stop(e))
BY StopIs DEF Goes, Running, Sends

LEMMA EnsurePlayerStarts ==
  ASSUME NEW e, Fit(e), NEW r \in EnsurePlayer(e)
  PROVE  /\ Starts(e, r.d) /\ IsEngine(r.d)
         /\ r.d.queue = e.queue /\ r.d.loaded = e.loaded
         /\ r.ok \in BOOLEAN
         /\ r.ok => r.d.player \in Players
         /\ ~r.ok => r.d.player = NoPlayer
<1> DEFINE f == IF e.repin THEN [e EXCEPT !.player = NoPlayer, !.repin = FALSE] ELSE e
           fresh == [life |-> f.lives + 1, file |-> 0, playing |-> FALSE, up |-> TRUE]
           started == [f EXCEPT !.lives = @ + 1, !.player = fresh]
<1>1. /\ IsEngine(f) /\ f.queue = e.queue /\ f.loaded = e.loaded /\ f.lives = e.lives
      /\ f.player \in {e.player, NoPlayer}
  BY DEF Fit, IsEngine, Fields
<1>2. EnsurePlayer(e) = IF f.player # NoPlayer THEN {Did(f)}
                        ELSE {Failed(f)} \cup {Did(g) : g \in {h \in {started} : h.lives <= MaxLives}}
  BY DEF EnsurePlayer
<1>3. f.player # NoPlayer => f.player \in Players
  BY <1>1 DEF Fit
<1>4. fresh \in Players /\ fresh.life = e.lives + 1 /\ fresh.up = TRUE
  BY <1>1 DEF Players, Fit
<1> HIDE DEF f, fresh
<1>5. /\ IsEngine(started) /\ started.queue = f.queue /\ started.loaded = f.loaded
      /\ started.player = fresh /\ started.lives = f.lives + 1
  BY <1>1 DEF IsEngine, Fields
<1> HIDE DEF started
<1>6. \/ r = Did(f) /\ f.player # NoPlayer
      \/ r = Failed(f) /\ f.player = NoPlayer
      \/ r = Did(started)
  BY <1>2
<1>7. Starts(e, f)
  BY <1>1 DEF Starts
<1>8. Starts(e, started)
  BY <1>1, <1>4, <1>5 DEF Starts
<1>9. ASSUME r = Did(f) PROVE r.d = f /\ r.ok = TRUE
  BY <1>9 DEF Did
<1>10. ASSUME r = Failed(f) PROVE r.d = f /\ r.ok = FALSE
  BY <1>10 DEF Failed
<1>11. ASSUME r = Did(started) PROVE r.d = started /\ r.ok = TRUE
  BY <1>11 DEF Did
<1> QED
  BY <1>1, <1>3, <1>4, <1>5, <1>6, <1>7, <1>8, <1>9, <1>10, <1>11

LEMMA SendLoadSends ==
  ASSUME NEW e, IsEngine(e), e.player \in Players, NEW r \in SendLoad(e)
  PROVE  /\ Sends(e, r.d) /\ IsEngine(r.d)
         /\ r.d.queue = e.queue /\ r.d.loaded = e.loaded
         /\ r.ok \in BOOLEAN
         /\ r.ok => r.d.player = Again(e)
<1> DEFINE g == [e EXCEPT !.player.file = @ + 1, !.player.playing = e.player.up]
<1>1. r = Failed(e) \/ r = Did(g)
  BY DEF SendLoad
<1>2. /\ IsEngine(g) /\ g.queue = e.queue /\ g.loaded = e.loaded /\ g.lives = e.lives
      /\ g.player = Again(e)
  BY DEF IsEngine, Fields, Players, Again
<1> HIDE DEF g
<1>3. (r.d = e /\ r.ok = FALSE) \/ (r.d = g /\ r.ok = TRUE)
  BY <1>1 DEF Did, Failed
<1>4. e.player # NoPlayer
  BY NoPlayerIsNone
<1> QED
  BY <1>2, <1>3, <1>4 DEF Sends

\* A player that was sent a file runs it while its transport lasts.
LEMMA SentRuns ==
  ASSUME NEW e, e.player \in Players, NEW f, f.player = Again(e)
  PROVE  Running(f)
BY AgainIs DEF Running

LEMMA SupersedingSends ==
  ASSUME NEW e, IsEngine(e), e.player \in Players, NEW r \in SendLoad(Superseding(e))
  PROVE  /\ Sends(e, r.d) /\ IsEngine(r.d)
         /\ r.d.queue = e.queue /\ r.d.loaded = e.loaded
         /\ r.ok \in BOOLEAN
         /\ r.ok => r.d.player = Again(e)
<1> DEFINE s == Superseding(e)
<1>1. /\ IsEngine(s) /\ s.queue = e.queue /\ s.loaded = e.loaded /\ s.player = e.player
      /\ s.lives = e.lives
  BY DEF IsEngine, Fields, Superseding
<1> HIDE DEF s
<1>2. /\ Sends(s, r.d) /\ IsEngine(r.d)
      /\ r.d.queue = s.queue /\ r.d.loaded = s.loaded
      /\ r.ok \in BOOLEAN
      /\ r.ok => r.d.player = Again(s)
  BY <1>1, SendLoadSends DEF s
<1> QED
  BY <1>1, <1>2 DEF Sends, Again

LEMMA LoadOrdinarySends ==
  ASSUME NEW e, IsEngine(e), e.player \in Players, NEW r \in LoadOrdinary(e)
  PROVE  /\ Sends(e, r.d) /\ IsEngine(r.d)
         /\ r.ok \in BOOLEAN
         /\ r.ok => Running(r.d)
<1> DEFINE Began(s) == [s.d EXCEPT !.loaded = PlayingId(e.queue), !.rec = Armed,
                                   !.spent = FALSE, !.progressed = FALSE]
<1>1. CASE r = Did(Stop(e))
  <2>1. r.d = Stop(e) /\ r.ok = TRUE
    BY <1>1 DEF Did
  <2> QED
    BY <2>1, StopGoes, StopIs
<1>2. CASE r \in Refused(e)
  BY <1>2, SupersedingSends DEF Refused
<1>3. CASE \E s \in Sent(e) : r = Did(Began(s))
  <2>1. PICK s \in SendLoad(Superseding(e)) : s.ok /\ r = Did(Began(s))
    BY <1>3 DEF Sent
  <2>2. IsEngine(s.d) /\ Sends(e, s.d) /\ s.d.player = Again(e)
    BY <2>1, SupersedingSends
  <2>3. r.ok = TRUE /\ r.d = Began(s)
    BY <2>1 DEF Did
  <2>4. IsEngine(Began(s)) /\ Began(s).player = s.d.player /\ Began(s).lives = s.d.lives
    BY <2>2 DEF IsEngine, Fields
  <2> HIDE DEF Began
  <2>5. Running(r.d)
    BY <2>2, <2>3, <2>4, SentRuns
  <2> QED
    BY <2>2, <2>3, <2>4, <2>5 DEF Sends
<1>4. \/ r = Did(Stop(e))
      \/ r \in OrdinaryLoads(e)
  BY DEF LoadOrdinary
<1>5. CASE r \in OrdinaryLoads(e) /\ r \notin Refused(e)
  <2>1. r \in {Did(Began(s)) : s \in Sent(e)}
    BY <1>5 DEF OrdinaryLoads
  <2> HIDE DEF Began
  <2>2. \E s \in Sent(e) : r = Did(Began(s))
    BY <2>1
  <2> QED
    BY <1>3, <2>2
<1> QED
  BY <1>1, <1>2, <1>4, <1>5

\* What a load makes of e.
Leads(e, r) ==
  /\ IsEngine(r.d) /\ Goes(e, r.d)
  /\ r.ok \in BOOLEAN
  /\ r.ok => Running(r.d)

LEMMA LoadCurrentLeads ==
  ASSUME NEW e, Fit(e), NEW r \in LoadCurrent(e)
  PROVE  Leads(e, r)
<1>1. PICK s \in EnsurePlayer(e) : \/ s.ok /\ r \in LoadOrdinary(s.d)
                                   \/ ~s.ok /\ r = s
  BY DEF LoadCurrent, Then
<1>2. /\ Starts(e, s.d) /\ IsEngine(s.d) /\ s.ok \in BOOLEAN
      /\ s.ok => s.d.player \in Players
  BY EnsurePlayerStarts
<1>3. CASE s.ok /\ r \in LoadOrdinary(s.d)
  BY <1>2, <1>3, LoadOrdinarySends, StartsThenSends DEF Leads
<1>4. CASE ~s.ok /\ r = s
  BY <1>2, <1>4, StartsGoes DEF Leads
<1> QED
  BY <1>1, <1>3, <1>4

LEMMA LoadOrRestoreLeads ==
  ASSUME NEW e, Fit(e), NEW moved, NEW r \in LoadOrRestore(e, moved)
  PROVE  Leads(e, r)
<1> DEFINE f == [e EXCEPT !.queue = moved]
<1>1. Fit(f) /\ f.player = e.player /\ f.lives = e.lives
  BY DEF Fit, IsEngine, Fields
<1>2. PICK s \in EnsurePlayer(f) :
        \/ s.ok /\ \E t \in LoadOrdinary(s.d) :
                     r = IF t.ok THEN t ELSE Failed([t.d EXCEPT !.queue = e.queue])
        \/ ~s.ok /\ r = s
  BY DEF LoadOrRestore, Then
<1> HIDE DEF f
<1>3. /\ Starts(f, s.d) /\ IsEngine(s.d) /\ s.ok \in BOOLEAN
      /\ s.ok => s.d.player \in Players
  BY <1>1, EnsurePlayerStarts
<1>4. \A g : Goes(f, g) => Goes(e, g)
  BY <1>1, StillGoes
<1>5. CASE ~s.ok /\ r = s
  BY <1>3, <1>4, <1>5, StartsGoes DEF Leads
<1>6. ASSUME s.ok, NEW t \in LoadOrdinary(s.d),
             r = IF t.ok THEN t ELSE Failed([t.d EXCEPT !.queue = e.queue])
      PROVE  Leads(e, r)
  <2>1. Sends(s.d, t.d) /\ IsEngine(t.d) /\ t.ok \in BOOLEAN /\ (t.ok => Running(t.d))
    BY <1>3, <1>6, LoadOrdinarySends
  <2>2. Goes(e, t.d)
    BY <1>1, <1>3, <1>4, <2>1, StartsThenSends
  <2>3. CASE t.ok
    BY <1>6, <2>1, <2>2, <2>3 DEF Leads
  <2>4. CASE ~t.ok
    <3> DEFINE back == [t.d EXCEPT !.queue = e.queue]
    <3>1. r.d = back /\ r.ok = FALSE
      BY <1>6, <2>4 DEF Failed
    <3>2. IsEngine(back) /\ back.player = t.d.player /\ back.lives = t.d.lives
      BY <2>1 DEF IsEngine, Fields
    <3> HIDE DEF back
    <3>3. Goes(e, back)
      BY <2>2, <3>2 DEF Goes
    <3> QED
      BY <3>1, <3>2, <3>3 DEF Leads
  <2> QED
    BY <2>3, <2>4
<1> QED
  BY <1>2, <1>5, <1>6

LEMMA OrStopLeads ==
  ASSUME NEW e, NEW outcomes, \A r \in outcomes : Leads(e, r), NEW r \in OrStop(outcomes)
  PROVE  IsEngine(r.d) /\ Goes(e, r.d) /\ Running(r.d)
<1>1. PICK s \in outcomes : r = IF s.ok THEN s ELSE Failed(Stop(s.d))
  BY DEF OrStop
<1>2. Leads(e, s)
  OBVIOUS
<1>3. CASE s.ok
  BY <1>1, <1>2, <1>3 DEF Leads
<1>4. CASE ~s.ok
  <2>1. r.d = Stop(s.d)
    BY <1>1, <1>4 DEF Failed
  <2>2. Stop(s.d).player = NoPlayer /\ Stop(s.d).lives = s.d.lives /\ IsEngine(Stop(s.d))
        /\ Running(Stop(s.d))
    BY <1>2, StopIs, StopGoes DEF Leads
  <2> QED
    BY <1>2, <2>1, <2>2 DEF Leads, Goes
<1> QED
  BY <1>3, <1>4

-----------------------------------------------------------------------------
(* Handlers that keep or move what is in hand *)

\* What a command makes of e: done, it leaves the track that is loaded in hand.
Minds(e, r) ==
  /\ IsEngine(r.d) /\ Goes(e, r.d)
  /\ r.ok => Running(r.d) \/ Waits(e, r.d)

LEMMA LeadsMinds ==
  ASSUME NEW e, NEW r, Leads(e, r)
  PROVE  Minds(e, r)
BY DEF Leads, Minds

LEMMA FailedMinds ==
  ASSUME NEW e, IsEngine(e)
  PROVE  Minds(e, Failed(e)) /\ Minds(e, Failed(Stop(e))) /\ Minds(e, Did(Stop(e)))
<1>1. Failed(e).d = e /\ Failed(e).ok = FALSE /\ Failed(Stop(e)).d = Stop(e)
      /\ Failed(Stop(e)).ok = FALSE /\ Did(Stop(e)).d = Stop(e)
  BY DEF Failed, Did
<1>2. Goes(e, e)
  BY DEF Goes
<1> QED
  BY <1>1, <1>2, StopGoes, StopIs DEF Minds

LEMMA QueueMinds ==
  ASSUME NEW e, IsEngine(e), NEW c, PlayingId(e.queue) # NoSong => Stays(e.queue, c)
  PROVE  Minds(e, Did([e EXCEPT !.queue = c]))
<1> DEFINE f == [e EXCEPT !.queue = c]
<1>1. /\ IsEngine(f) /\ f.queue = c /\ f.player = e.player /\ f.lives = e.lives
      /\ f.loaded = e.loaded /\ f.heal = e.heal /\ f.retry = e.retry
  BY DEF IsEngine, Fields
<1> HIDE DEF f
<1>2. Waits(e, f) /\ Goes(e, f)
  BY <1>1 DEF Waits, Goes
<1>3. Did(f).d = f
  BY DEF Did
<1>4. Minds(e, Did(f))
  BY <1>1, <1>2, <1>3 DEF Minds
<1> QED
  BY <1>4 DEF f

LEMMA RemovedMinds ==
  ASSUME NEW e, Fit(e), NEW removal,
         removal.playback = "Unchanged" => Stays(e.queue, removal.queue),
         removal.playback \in {"Unchanged", "LoadSelected", "Stop"},
         NEW r \in Removed(e, removal)
  PROVE  Minds(e, r)
<1>0. IsEngine(e)
  BY DEF Fit
<1>1. CASE removal.playback = "Unchanged"
  <2>1. r = Did([e EXCEPT !.queue = removal.queue])
    BY <1>1 DEF Removed
  <2> QED
    BY <1>0, <1>1, <2>1, QueueMinds
<1>2. CASE removal.playback = "LoadSelected"
  <2>1. r \in LoadOrRestore(e, removal.queue)
    BY <1>2 DEF Removed
  <2> QED
    BY <2>1, LoadOrRestoreLeads, LeadsMinds
<1>3. CASE removal.playback = "Stop"
  <2> DEFINE f == [e EXCEPT !.queue = removal.queue]
  <2>1. r = Did(Stop(f))
    BY <1>3 DEF Removed
  <2>2. IsEngine(f) /\ f.player = e.player /\ f.lives = e.lives
    BY <1>0 DEF IsEngine, Fields
  <2> HIDE DEF f
  <2>3. Minds(f, r)
    BY <2>1, <2>2, FailedMinds
  <2>4. Running(r.d)
    BY <2>1, <2>2, StopGoes DEF Did
  <2> QED
    BY <2>2, <2>3, <2>4, StillGoes DEF Minds
<1> QED
  BY <1>1, <1>2, <1>3

LEMMA AppendedMinds ==
  ASSUME NEW e, Whole(e), Fit(e), NEW more \in Blocks, Fits(e, more), NEW r \in Appended(e, more)
  PROVE  Minds(e, r)
<1>0. IsEngine(e) /\ Q!Sound(e.queue) /\ PQ!Fitting(e.queue, more) # <<>>
  BY DEF Whole, Fits
<1>1. PICK c \in PQ!Extend(e.queue, more) :
        \/ r \in LoadOrRestore(e, PQ!AtCursor(c, Len(e.queue.order) + 1))
        \/ r = Did([e EXCEPT !.queue = c])
  BY DEF Appended
<1>2. PlayingId(e.queue) # NoSong => Stays(e.queue, c)
  BY <1>0, BlocksAreSound
<1> QED
  BY <1>0, <1>1, <1>2, LoadOrRestoreLeads, LeadsMinds, QueueMinds

LEMMA EnqueueMinds ==
  ASSUME NEW e, Whole(e), Fit(e), NEW r \in Enqueue(e)
  PROVE  Minds(e, r)
<1> DEFINE added == UNION {Appended(e, more) : more \in {m \in Blocks : Fits(e, m)}}
           Behind(more) == Did([e EXCEPT !.queue = PQ!InsertAfterCurrent(e.queue, more)])
           next == {Behind(more) : more \in {m \in Blocks : Fits(e, m) /\ e.loaded # NoSong}}
<1>1. Enqueue(e) = added \cup next
  BY DEF Enqueue
<1>2. CASE r \in added
  <2>1. PICK more \in Blocks : Fits(e, more) /\ r \in Appended(e, more)
    BY <1>2
  <2> QED
    BY <2>1, AppendedMinds
<1>3. CASE r \in next
  <2> HIDE DEF Behind
  <2>1. PICK more \in Blocks : Fits(e, more) /\ r = Behind(more)
    BY <1>3
  <2> DEFINE moved == PQ!InsertAfterCurrent(e.queue, more)
  <2>2. r = Did([e EXCEPT !.queue = moved])
    BY <2>1 DEF Behind
  <2>3. PlayingId(e.queue) # NoSong => Stays(e.queue, moved)
    BY <2>1, BlocksAreSound DEF Whole, Fits
  <2>4. IsEngine(e)
    BY DEF Whole
  <2> HIDE DEF moved
  <2> QED
    BY <2>2, <2>3, <2>4, QueueMinds
<1> HIDE DEF added, next
<1> QED
  BY <1>1, <1>2, <1>3

LEMMA PlaybackMinds ==
  ASSUME NEW e, Whole(e), Fit(e), NEW r \in PlaybackCommands(e)
  PROVE  Minds(e, r)
<1>0. IsEngine(e) /\ Q!Sound(e.queue)
  BY DEF Whole
<1>1. Minds(e, Failed(e)) /\ Minds(e, Failed(Stop(e)))
  BY <1>0, FailedMinds
<1>2. ASSUME NEW moved, r \in LoadOrRestore(e, moved) PROVE Minds(e, r)
  BY <1>2, LoadOrRestoreLeads, LeadsMinds
<1>4. CASE r \in NextTrack(e)
  <2>1. r = Failed(e) \/ r = Failed(Stop(e)) \/ \E moved : r \in LoadOrRestore(e, moved)
    BY <1>4 DEF NextTrack
  <2> QED
    BY <1>1, <1>2, <2>1
<1>5. CASE r \in PrevTrack(e)
  <2>1. r = Failed(e) \/ \E moved : r \in LoadOrRestore(e, moved)
    BY <1>5 DEF PrevTrack
  <2> QED
    BY <1>1, <1>2, <2>1
<1>6. CASE r \in QueuePlay(e) \/ r \in SearchAndPlay(e)
  <2>1. \E moved : r \in LoadOrRestore(e, moved)
    BY <1>6 DEF QueuePlay, SearchAndPlay
  <2> QED
    BY <1>2, <2>1
<1>7. CASE r \in QueueRemove(e)
  <2>1. PICK pos \in DOMAIN e.queue.order : r \in Removed(e, PQ!DaemonRemove(e.queue, pos))
    BY <1>7 DEF QueueRemove
  <2> DEFINE removal == PQ!DaemonRemove(e.queue, pos)
  <2>2. removal.playback \in {"Unchanged", "LoadSelected", "Stop"}
    BY DEF PQ!DaemonRemove
  <2>3. removal.playback = "Unchanged" => Stays(e.queue, removal.queue)
    BY <1>0, DaemonRemoveIs
  <2>4. r \in Removed(e, removal)
    BY <2>1
  <2> HIDE DEF removal
  <2> QED
    BY <2>2, <2>3, <2>4, RemovedMinds
<1>8. CASE r \in BanCurrent(e)
  <2>1. PICK ids \in SUBSET VideoIds : /\ PlayingId(e.queue) \in ids
                                       /\ r \in Removed(e, FirstPlayableAfter(PQ!Purge(e.queue, ids)))
    BY <1>8 DEF BanCurrent
  <2> DEFINE removal == FirstPlayableAfter(PQ!Purge(e.queue, ids))
  <2>2. PQ!Purge(e.queue, ids).playback \in {"Unchanged", "LoadSelected", "Stop"}
    BY DEF PQ!Purge
  <2>3. removal.playback \in {"Unchanged", "LoadSelected", "Stop"}
    BY <2>2 DEF FirstPlayableAfter
  <2>4. removal.playback # "Unchanged"
    BY <1>0, <2>1, BanIs
  <2>5. r \in Removed(e, removal)
    BY <2>1
  <2> HIDE DEF removal
  <2> QED
    BY <2>3, <2>4, <2>5, RemovedMinds
<1>10. CASE r \in Enqueue(e)
  BY <1>10, EnqueueMinds
<1>11. CASE r \in TogglePause(e)
  <2>1. r \in LoadCurrent(e)
    BY <1>11 DEF TogglePause
  <2> QED
    BY <2>1, LoadCurrentLeads, LeadsMinds
<1> QED
  BY <1>4, <1>5, <1>6, <1>7, <1>8, <1>10, <1>11 DEF PlaybackCommands

LEMMA EditMinds ==
  ASSUME NEW e, Whole(e), NEW r \in EditQueue(e)
  PROVE  IsEngine(r.d) /\ Goes(e, r.d) /\ Waits(e, r.d)
<1>1. PICK kind \in EditKinds, c \in UNION {Edited(e.queue, k) : k \in EditKinds} :
        /\ c \in Edited(e.queue, kind)
        /\ r = Did([e EXCEPT !.queue = c])
  BY DEF EditQueue
<1>2. kind \in {"move", "clear", "repeat", "shuffle"}
  BY DaemonAssumption
<1>3. Stays(e.queue, c)
  BY <1>1, <1>2, EditsStay DEF Whole
<1>4. r.d = [e EXCEPT !.queue = c]
  BY <1>1 DEF Did
<1>5. /\ IsEngine(r.d) /\ r.d.queue = c /\ r.d.player = e.player /\ r.d.lives = e.lives
      /\ r.d.loaded = e.loaded /\ r.d.heal = e.heal /\ r.d.retry = e.retry
  BY <1>4 DEF Whole, IsEngine, Fields
<1> QED
  BY <1>3, <1>5 DEF Waits, Goes

\* The handlers that stop when their load fails.
Ends(e, f) == IsEngine(f) /\ Goes(e, f) /\ Running(f)

LEMMA StopEnds ==
  ASSUME NEW e, IsEngine(e)
  PROVE  Ends(e, Stop(e))
BY StopGoes, StopIs DEF Ends

LEMMA LoadStopEnds ==
  ASSUME NEW e, Fit(e), NEW r \in OrStop(LoadCurrent(e))
  PROVE  Ends(e, r.d)
<1>1. \A s \in LoadCurrent(e) : Leads(e, s)
  BY LoadCurrentLeads
<1> QED
  BY <1>1, OrStopLeads DEF Ends

LEMMA MoveStopEnds ==
  ASSUME NEW e, Fit(e), NEW pos,
         NEW r \in OrStop(LoadCurrent([e EXCEPT !.queue = PQ!AtCursor(@, pos)]))
  PROVE  Ends(e, r.d)
<1> DEFINE moved == PQ!AtCursor(e.queue, pos)
           f == [e EXCEPT !.queue = moved]
<1>1. r \in OrStop(LoadCurrent(f))
  OBVIOUS
<1> HIDE DEF moved
<1>2. Fit(f) /\ f.player = e.player /\ f.lives = e.lives
  BY DEF Fit, IsEngine, Fields
<1> HIDE DEF f
<1> QED
  BY <1>1, <1>2, LoadStopEnds, StillGoes DEF Ends

LEMMA AdvanceEnds ==
  ASSUME NEW e, Fit(e), NEW r \in AdvanceAfterEnd(e)
  PROVE  Ends(e, r.d)
<1>1. CASE r = Did(Stop(e))
  BY <1>1, StopEnds DEF Did, Fit
<1>2. CASE \E pos : r \in OrStop(LoadCurrent([e EXCEPT !.queue = PQ!AtCursor(@, pos)]))
  BY <1>2, MoveStopEnds
<1> QED
  BY <1>1, <1>2 DEF AdvanceAfterEnd

LEMMA SkippedEnds ==
  ASSUME NEW e, Fit(e), NEW count, NEW r \in Skipped(e, count)
  PROVE  Ends(e, r.d)
<1>1. CASE r = Did(Stop(e))
  BY <1>1, StopEnds DEF Did, Fit
<1>2. CASE \E pos : r \in OrStop(LoadCurrent([e EXCEPT !.queue = PQ!AtCursor(@, pos)]))
  BY <1>2, MoveStopEnds
<1> QED
  BY <1>1, <1>2 DEF Skipped

LEMMA MediaEnds ==
  ASSUME NEW e, Fit(e), NEW r \in OpenUri(e) \cup MediaStop(e)
  PROVE  Ends(e, r.d)
<1>1. CASE r \in OpenUri(e)
  <2>1. PICK more \in Blocks : r \in OrStop(LoadOrRestore(e, PQ!PlayNow(e.queue, more)))
    BY <1>1 DEF OpenUri
  <2> DEFINE moved == PQ!PlayNow(e.queue, more)
  <2> HIDE DEF moved
  <2>2. \A s \in LoadOrRestore(e, moved) : Leads(e, s)
    BY LoadOrRestoreLeads
  <2>3. r \in OrStop(LoadOrRestore(e, moved))
    BY <2>1 DEF moved
  <2> QED
    BY <2>2, <2>3, OrStopLeads DEF Ends
<1>2. CASE r \in MediaStop(e)
  <2>1. r.d = Stop(e)
    BY <1>2 DEF MediaStop, Did
  <2> QED
    BY <2>1, StopEnds DEF Fit
<1> QED
  BY <1>1, <1>2

LEMMA ResumeLeads ==
  ASSUME NEW e, Fit(e), NEW r \in ResumeSession(e)
  PROVE  Leads(e, r)
<1>1. PICK c \in Restorable(e) :
        LET f == [e EXCEPT !.queue = c, !.progressed = FALSE]
        IN r \in IF PlayingId(c) = NoSong THEN {Failed(f)} ELSE LoadCurrent(f)
  BY DEF ResumeSession
<1> DEFINE f == [e EXCEPT !.queue = c, !.progressed = FALSE]
<1>2. Fit(f) /\ f.player = e.player /\ f.lives = e.lives
  BY DEF Fit, IsEngine, Fields
<1>3. r = Failed(f) \/ r \in LoadCurrent(f)
  BY <1>1
<1> HIDE DEF f
<1>4. \A g : Goes(f, g) => Goes(e, g)
  BY <1>2, StillGoes
<1>5. CASE r = Failed(f)
  <2>1. r.d = f /\ r.ok = FALSE
    BY <1>5 DEF Failed
  <2> QED
    BY <1>2, <2>1, StillGoes DEF Leads, Fit
<1>6. CASE r \in LoadCurrent(f)
  BY <1>2, <1>4, <1>6, LoadCurrentLeads DEF Leads
<1> QED
  BY <1>3, <1>5, <1>6

-----------------------------------------------------------------------------
(* Errors and attempts *)

\* While a lost transport is being recovered nothing is loaded.
Idle(e) == e.rec.state = "Recovering" => e.loaded = NoSong

LEMMA IdleStep ==
  ASSUME DaemonInv, Idle(d), [Next]_vars
  PROVE  Idle(d')
<1>1. CASE Ordinary
  <2>1. /\ d'.rec \in {d.rec, Armed}
        /\ d'.rec.state = "Recovering" => d'.loaded \in {d.loaded, NoSong}
    BY <1>1 DEF Ordinary, Follows
  <2> QED
    BY <2>1 DEF Idle, Armed
<1>2. ASSUME NEW e, Idle(e), RecoveryFrom(e) PROVE Idle(d')
  <2>1. CASE d' = e
    BY <1>2, <2>1
  <2>2. CASE Attempted(e, d')
    BY <1>2, <2>2 DEF Attempted, Idle, Armed, Disarmed
  <2> QED
    BY <1>2, <2>1, <2>2 DEF RecoveryFrom
<1>3. CASE d.player # NoPlayer /\ RecoveryFrom(TransportClosed(d))
  <2>1. TransportClosed(d).loaded = NoSong
    BY <1>3, ClosedIs DEF DaemonInv
  <2> QED
    BY <1>2, <1>3, <2>1 DEF Idle
<1> QED
  BY <1>1, <1>2, <1>3, StepsAre

\* A task that was begun for the track that is shown, and that is waited for.
Awaited(e, task) ==
  /\ task.id = PlayingId(e.queue) /\ task.id \in VideoIds
  /\ \/ task.kind = "Heal" /\ task.id = e.heal
     \/ task.kind = "Resolve" /\ task.id = e.retry

\* What is done about a playback error: it goes on, or a task is begun.
Chases(e, f, rest, after) ==
  /\ IsEngine(f) /\ Goes(e, f)
  /\ \/ Running(f) /\ after = rest
     \/ \E task : Awaited(f, task) /\ after = rest \cup {task}

LEMMA ErrorChases ==
  ASSUME NEW e, Fit(e), NEW class, NEW rest, PlaybackError(e, class, rest)
  PROVE  Chases(e, d', rest, tasks')
<1>0. IsEngine(e)
  BY DEF Fit
<1>1. CASE RecoverSource(e, class) /\ tasks' = rest
  <2>1. PICK r \in SendLoad(e) : r.ok /\ d' = [r.d EXCEPT !.spent = TRUE]
    BY <1>1 DEF RecoverSource
  <2>2. e.player \in Players
    BY <1>1 DEF RecoverSource, Fit
  <2>3. IsEngine(r.d) /\ Sends(e, r.d) /\ r.d.player = Again(e)
    BY <1>0, <2>1, <2>2, SendLoadSends
  <2>4. IsEngine(d') /\ d'.player = r.d.player /\ d'.lives = r.d.lives
    BY <2>1, <2>3 DEF IsEngine, Fields
  <2>5. Running(d')
    BY <2>2, <2>3, <2>4, SentRuns
  <2>6. Goes(e, d')
    BY <2>3, <2>4 DEF Sends, Goes
  <2> QED
    BY <1>1, <2>4, <2>5, <2>6 DEF Chases
<1>2. CASE BeginLoadRetry(e, class, rest)
  <2> DEFINE task == Task("Resolve", PlayingId(e.queue), <<e.player.life, e.player.file>>)
  <2>1. /\ d' = [e EXCEPT !.retry = PlayingId(e.queue)]
        /\ tasks' = rest \cup {task}
        /\ PlayingId(e.queue) \in VideoIds
    BY <1>2 DEF BeginLoadRetry
  <2>2. /\ IsEngine(d') /\ d'.queue = e.queue /\ d'.player = e.player /\ d'.lives = e.lives
        /\ d'.retry = PlayingId(e.queue)
    BY <1>0, <2>1 DEF IsEngine, Fields
  <2>3. task.kind = "Resolve" /\ task.id = PlayingId(e.queue)
    BY DEF Task
  <2> HIDE DEF task
  <2>4. Awaited(d', task)
    BY <2>1, <2>2, <2>3 DEF Awaited
  <2> QED
    BY <2>1, <2>2, <2>4, StillGoes DEF Chases
<1>3. CASE BeginHeal(e, class, rest)
  <2> DEFINE task == Task("Heal", PlayingId(e.queue), <<>>)
  <2>1. /\ d' = [e EXCEPT !.heal = PlayingId(e.queue)]
        /\ tasks' = rest \cup {task}
        /\ PlayingId(e.queue) \in VideoIds
    BY <1>3 DEF BeginHeal
  <2>2. /\ IsEngine(d') /\ d'.queue = e.queue /\ d'.player = e.player /\ d'.lives = e.lives
        /\ d'.heal = PlayingId(e.queue)
    BY <1>0, <2>1 DEF IsEngine, Fields
  <2>3. task.kind = "Heal" /\ task.id = PlayingId(e.queue)
    BY DEF Task
  <2> HIDE DEF task
  <2>4. Awaited(d', task)
    BY <2>1, <2>2, <2>3 DEF Awaited
  <2> QED
    BY <2>1, <2>2, <2>4, StillGoes DEF Chases
<1>4. CASE SkipOrStop(e) /\ tasks' = rest
  <2>1. PICK r \in Skipped(e, errors + 1) : d' = r.d
    BY <1>4 DEF SkipOrStop
  <2>2. Ends(e, d')
    BY <2>1, SkippedEnds
  <2> QED
    BY <1>4, <2>2 DEF Chases, Ends
<1> QED
  BY <1>1, <1>2, <1>3, <1>4 DEF PlaybackError

LEMMA LoadRecoverySends ==
  ASSUME NEW e, IsEngine(e), e.player \in Players, NEW r \in LoadRecovery(e)
  PROVE  /\ Sends(e, r.d) /\ IsEngine(r.d)
         /\ Running(r.d) \/ r.d.loaded = e.loaded
<1> DEFINE Replayed(s, resumed) ==
             Did([s.d EXCEPT !.loaded = PlayingId(e.queue), !.rec = Disarmed,
                             !.progressed = resumed])
           admitted == {Replayed(f, resumed) : f \in Sent(e), resumed \in BOOLEAN}
<1>1. CASE r = Did(Stop(e))
  <2>1. r.d = Stop(e)
    BY <1>1 DEF Did
  <2> QED
    BY <2>1, StopGoes, StopIs
<1>2. CASE r = Failed(Superseding(e))
  <2>1. r.d = Superseding(e)
    BY <1>2 DEF Failed
  <2>2. /\ IsEngine(Superseding(e)) /\ Superseding(e).lives = e.lives
        /\ Superseding(e).loaded = e.loaded /\ Superseding(e).player = e.player
    BY DEF IsEngine, Fields, Superseding
  <2> QED
    BY <2>1, <2>2 DEF Sends
<1>3. CASE r \in Refused(e)
  BY <1>3, SupersedingSends DEF Refused
<1>4. CASE r \in admitted
  <2> HIDE DEF Replayed
  <2>1. PICK s \in Sent(e), resumed \in BOOLEAN : r = Replayed(s, resumed)
    BY <1>4
  <2> DEFINE f == [s.d EXCEPT !.loaded = PlayingId(e.queue), !.rec = Disarmed,
                              !.progressed = resumed]
  <2>2. IsEngine(s.d) /\ Sends(e, s.d) /\ s.d.player = Again(e)
    BY SupersedingSends DEF Sent
  <2>3. r.d = f
    BY <2>1 DEF Did, Replayed
  <2>4. IsEngine(f) /\ f.player = s.d.player /\ f.lives = s.d.lives
    BY <2>2 DEF IsEngine, Fields
  <2> HIDE DEF f
  <2>5. Running(f)
    BY <2>2, <2>4, SentRuns
  <2> QED
    BY <2>2, <2>3, <2>4, <2>5 DEF Sends
<1>5. \/ r = Did(Stop(e))
      \/ r = Failed(Superseding(e))
      \/ r \in Refused(e) \cup admitted
  <2>1. \/ r = Did(Stop(e))
        \/ r = Failed(Superseding(e))
        \/ r \in RecoveryLoads(e)
    BY DEF LoadRecovery
  <2>2. RecoveryLoads(e) = Refused(e) \cup admitted
    BY DEF RecoveryLoads
  <2> HIDE DEF admitted
  <2> QED
    BY <2>1, <2>2
<1> HIDE DEF admitted
<1> QED
  BY <1>1, <1>2, <1>3, <1>4, <1>5

\* An attempt that does not load leaves nothing loaded, as it found it.
LEMMA AttemptEnds ==
  ASSUME NEW e, Fit(e), Idle(e), NEW gen, NEW r \in AttemptRecovery(e, gen)
  PROVE  r.d = e \/ Ends(e, r.d)
<1>1. CASE ~MayAttempt(e, gen)
  <2>1. r.d = e
    BY <1>1 DEF AttemptRecovery, Did
  <2> QED
    BY <2>1
<1>2. CASE MayAttempt(e, gen)
  <2> DEFINE f == [e EXCEPT !.rec.attempts = @ + 1]
  <2>1. PICK s \in EnsurePlayer(f) : \/ s.ok /\ r \in LoadRecovery(s.d)
                                     \/ ~s.ok /\ r = s
    BY <1>2 DEF AttemptRecovery, Then
  <2>2. Fit(f) /\ f.player = e.player /\ f.lives = e.lives /\ f.loaded = e.loaded
    BY DEF Fit, IsEngine, Fields
  <2>3. e.loaded = NoSong
    BY <1>2 DEF MayAttempt, Idle
  <2> HIDE DEF f
  <2>4. /\ Starts(f, s.d) /\ IsEngine(s.d) /\ s.d.loaded = NoSong
        /\ s.ok => s.d.player \in Players
    BY <2>2, <2>3, EnsurePlayerStarts
  <2>5. \A g : Goes(f, g) => Goes(e, g)
    BY <2>2, StillGoes
  <2>6. CASE s.ok /\ r \in LoadRecovery(s.d)
    <3>1. Sends(s.d, r.d) /\ IsEngine(r.d) /\ (Running(r.d) \/ r.d.loaded = NoSong)
      BY <2>4, <2>6, LoadRecoverySends
    <3>2. Goes(e, r.d)
      BY <2>2, <2>4, <2>5, <3>1, StartsThenSends
    <3> QED
      BY <3>1, <3>2 DEF Ends, Running
  <2>7. CASE r = s
    BY <2>4, <2>5, <2>7, StartsGoes DEF Ends, Running
  <2> QED
    BY <2>1, <2>6, <2>7
<1> QED
  BY <1>1, <1>2

LEMMA ClosedEnds ==
  ASSUME NEW e, Fit(e), e.player # NoPlayer
  PROVE  Ends(e, TransportClosed(e)) /\ TransportClosed(e).player = NoPlayer
         /\ TransportClosed(e).loaded = NoSong /\ TransportClosed(e).lives = e.lives
<1> DEFINE f == TransportClosed(e)
<1>1. IsEngine(f) /\ f.player = NoPlayer /\ f.loaded = NoSong /\ f.lives = e.lives
  BY DEF TransportClosed, Fit, IsEngine, Fields
<1> HIDE DEF f
<1>2. Ends(e, f) /\ f.player = NoPlayer /\ f.loaded = NoSong /\ f.lives = e.lives
  BY <1>1 DEF Ends, Goes, Running
<1> QED
  BY <1>2 DEF f

-----------------------------------------------------------------------------
(* What the loop's queue holds of a player *)

Events == [kind : {"Closed", "Eof", "Error"}, life : Nat, file : Nat]

\* The events of player p, by their places in the loop's queue.
Own(p, box) == {i \in DOMAIN box : box[i].life = p.life}

\* What the queue holds of player p: the end of its transport, files in the
\* order they were sent, and, if it runs none and has reported anything, the
\* end of the last one.
Reported(p, box) ==
  /\ ~p.up => \E i \in Own(p, box) : box[i].kind = "Closed"
  /\ \A i \in Own(p, box) : box[i].file <= p.file
  /\ \A i, j \in Own(p, box) : i < j => box[i].file <= box[j].file
  /\ ~p.playing /\ Own(p, box) # {}
       => \E i \in Own(p, box) : box[i].kind = "Closed" \/ box[i].file = p.file

Told(e, box) ==
  /\ box \in Seq(Events)
  /\ \A i \in DOMAIN box : box[i].life <= e.lives
  /\ e.player # NoPlayer => Reported(e.player, box)

LEMMA EventsAre ==
  ASSUME NEW box \in Seq(Events)
  PROVE  \A i \in DOMAIN box : /\ box[i].life \in Nat /\ box[i].file \in Nat
                               /\ box[i].kind \in {"Closed", "Eof", "Error"}
<1> TAKE i \in DOMAIN box
<1>1. box[i] \in Events
  OBVIOUS
<1> QED
  BY <1>1 DEF Events

LEMMA ToldGoes ==
  ASSUME NEW e, Fit(e), NEW box, Told(e, box), NEW f, Goes(e, f)
  PROVE  Told(f, box)
<1>1. e.lives \in Nat /\ f.lives \in Nat /\ e.lives <= f.lives
  BY DEF Fit, Goes
<1>2. \A i \in DOMAIN box : box[i].life \in Nat /\ box[i].file \in Nat /\ box[i].life <= e.lives
  BY EventsAre DEF Told
<1>3. CASE f.player = NoPlayer \/ f.player = e.player
  BY <1>1, <1>2, <1>3 DEF Told
<1>4. CASE e.player # NoPlayer /\ f.player = Again(e)
  <2> DEFINE p == e.player
             g == Again(e)
  <2>1. /\ p \in Players
        /\ g.life = p.life /\ g.file = p.file + 1 /\ g.up = p.up /\ g.playing = p.up
    BY <1>4, AgainIs DEF Fit
  <2>2. Reported(p, box) /\ p.file \in Nat
    BY <1>4, <2>1 DEF Told, Players
  <2> HIDE DEF p, g
  <2>3. Own(g, box) = Own(p, box)
    BY <2>1 DEF Own
  <2>4. \A i \in Own(p, box) : box[i].file \in Nat
    BY <1>2 DEF Own
  <2>5. Reported(g, box)
    BY <2>1, <2>2, <2>3, <2>4 DEF Reported
  <2> QED
    BY <1>1, <1>2, <1>4, <2>5 DEF Told, g
<1>5. CASE f.lives = e.lives + 1 /\ f.player.life = f.lives /\ f.player.up = TRUE
  <2>1. Own(f.player, box) = {}
    BY <1>1, <1>2, <1>5 DEF Own
  <2>2. Reported(f.player, box)
    BY <1>5, <2>1 DEF Reported
  <2> QED
    BY <1>1, <1>2, <2>2 DEF Told
<1> QED
  BY <1>3, <1>4, <1>5 DEF Goes

LEMMA ToldTail ==
  ASSUME NEW e, Fit(e), NEW box, Told(e, box), box # <<>>,
         e.player # NoPlayer => Head(box).kind # "Closed"
  PROVE  Told(e, Tail(box))
<1> DEFINE rest == Tail(box)
           n == Len(box)
<1>1. box \in Seq(Events) /\ n \in Nat \ {0} /\ DOMAIN box = 1..n
  BY DEF Told
<1>2. /\ rest \in Seq(Events) /\ DOMAIN rest = 1..(n - 1)
      /\ \A i \in DOMAIN rest : i + 1 \in DOMAIN box /\ rest[i] = box[i + 1]
      /\ \A i \in DOMAIN box : i = 1 \/ (i - 1 \in DOMAIN rest /\ rest[i - 1] = box[i])
  BY <1>1
<1>3. Head(box) = box[1]
  BY <1>1
<1> HIDE DEF rest, n
<1>4. \A i \in DOMAIN box : box[i].life \in Nat /\ box[i].file \in Nat
  BY <1>1, EventsAre
<1>5. \A i \in DOMAIN rest : rest[i].life <= e.lives
  BY <1>2 DEF Told
<1>6. ASSUME e.player # NoPlayer PROVE Reported(e.player, rest)
  <2> DEFINE p == e.player
  <2>1. Reported(p, box) /\ box[1].kind # "Closed" /\ p.file \in Nat
    BY <1>3, <1>6 DEF Told, Fit, Players
  <2> HIDE DEF p
  <2>2. \A i \in Own(p, rest) : i + 1 \in Own(p, box) /\ rest[i] = box[i + 1] /\ i \in Nat
    BY <1>1, <1>2 DEF Own
  <2>3. \A i \in Own(p, box) : i # 1 => i - 1 \in Own(p, rest) /\ rest[i - 1] = box[i]
    BY <1>2 DEF Own
  <2>4. ~p.up => \E i \in Own(p, rest) : rest[i].kind = "Closed"
    BY <2>1, <2>3 DEF Reported
  <2>5. \A i \in Own(p, rest) : rest[i].file <= p.file
    BY <2>1, <2>2 DEF Reported
  <2>6. \A i, j \in Own(p, rest) : i < j => rest[i].file <= rest[j].file
    <3> SUFFICES ASSUME NEW i \in Own(p, rest), NEW j \in Own(p, rest), i < j
                 PROVE  rest[i].file <= rest[j].file
      OBVIOUS
    <3>1. i + 1 < j + 1 /\ i + 1 \in Own(p, box) /\ j + 1 \in Own(p, box)
      BY <2>2
    <3> QED
      BY <2>1, <2>2, <3>1 DEF Reported
  <2>7. ASSUME ~p.playing, Own(p, rest) # {}
        PROVE  \E i \in Own(p, rest) : rest[i].kind = "Closed" \/ rest[i].file = p.file
    <3>1. PICK j \in Own(p, rest) : TRUE
      BY <2>7
    <3>2. PICK i \in Own(p, box) : box[i].kind = "Closed" \/ box[i].file = p.file
      BY <2>1, <2>2, <2>7, <3>1 DEF Reported
    <3>3. CASE i # 1
      BY <2>3, <3>2, <3>3
    <3>4. CASE i = 1
      <4>1. box[1].file = p.file /\ 1 \in Own(p, box)
        BY <2>1, <3>2, <3>4
      <4>2. j + 1 \in Own(p, box) /\ 1 < j + 1 /\ rest[j] = box[j + 1]
        <5>1. j + 1 \in Own(p, box) /\ rest[j] = box[j + 1] /\ j \in DOMAIN rest
          BY <2>2, <3>1 DEF Own
        <5> QED
          BY <1>1, <1>2, <5>1
      <4>3. box[1].file <= box[j + 1].file /\ box[j + 1].file <= p.file
        BY <2>1, <4>1, <4>2 DEF Reported
      <4>4. box[j + 1].file = p.file
        BY <1>4, <2>1, <4>1, <4>2, <4>3 DEF Own
      <4> QED
        BY <3>1, <4>2, <4>4
    <3> QED
      BY <3>3, <3>4
  <2>8. Reported(p, rest)
    BY <2>4, <2>5, <2>6, <2>7 DEF Reported
  <2> QED
    BY <2>8 DEF p
<1> QED
  BY <1>2, <1>5, <1>6 DEF Told, rest

\* A player that ends its file, or its transport, says so last.
LEMMA ToldAppend ==
  ASSUME NEW e, Fit(e), e.player # NoPlayer, NEW box, Told(e, box), NEW f, Fit(f),
         f.lives = e.lives,
         f.player # NoPlayer, f.player.life = e.player.life, f.player.file = e.player.file,
         NEW kind \in {"Closed", "Eof", "Error"},
         f.player.up = e.player.up \/ kind = "Closed"
  PROVE  Told(f, Append(box, [kind |-> kind, life |-> e.player.life, file |-> e.player.file]))
<1> DEFINE event == [kind |-> kind, life |-> e.player.life, file |-> e.player.file]
           more == Append(box, event)
           n == Len(box)
<1>1. /\ e.player.life \in Nat /\ e.player.file \in Nat /\ e.player.life <= e.lives
      /\ e.lives \in Nat
  BY DEF Fit, Players
<1>2. event \in Events /\ event.life = e.player.life /\ event.file = e.player.file /\ event.kind = kind
  BY <1>1 DEF Events
<1> HIDE DEF event
<1>3. box \in Seq(Events) /\ n \in Nat /\ DOMAIN box = 1..n
  BY DEF Told
<1>4. /\ more \in Seq(Events) /\ DOMAIN more = 1..(n + 1)
      /\ \A i \in 1..n : more[i] = box[i]
      /\ more[n + 1] = event
  BY <1>2, <1>3
<1> HIDE DEF more, n
<1>5. \A i \in DOMAIN more : more[i].life <= f.lives
  BY <1>1, <1>2, <1>3, <1>4 DEF Told
<1> DEFINE p == f.player
<1>6. Own(p, more) = Own(e.player, box) \cup {n + 1}
  BY <1>2, <1>3, <1>4 DEF Own
<1>7. Reported(e.player, box)
  BY DEF Told
<1>8. Own(e.player, box) \subseteq 1..n
  BY <1>3 DEF Own
<1>9. p.up = e.player.up \/ kind = "Closed"
  OBVIOUS
<1>10. p.file = e.player.file
  OBVIOUS
<1> HIDE DEF p
<1>11. n + 1 \in Own(p, more) /\ more[n + 1].kind = kind /\ more[n + 1].file = p.file
  BY <1>2, <1>4, <1>6, <1>10
<1>12. ~p.up => \E i \in Own(p, more) : more[i].kind = "Closed"
  <2>1. CASE kind = "Closed"
    BY <1>11, <2>1
  <2>2. CASE kind # "Closed"
    BY <1>4, <1>6, <1>7, <1>8, <1>9, <2>2 DEF Reported
  <2> QED
    BY <2>1, <2>2
<1>13. \A i \in Own(p, more) : more[i].file <= p.file
  <2> SUFFICES ASSUME NEW i \in Own(p, more) PROVE more[i].file <= p.file
    OBVIOUS
  <2>1. CASE i = n + 1
    BY <1>1, <1>10, <1>11, <2>1
  <2>2. CASE i \in Own(e.player, box)
    BY <1>4, <1>7, <1>8, <1>10, <2>2 DEF Reported
  <2> QED
    BY <1>6, <2>1, <2>2
<1>14. \A i, j \in Own(p, more) : i < j => more[i].file <= more[j].file
  <2> SUFFICES ASSUME NEW i \in Own(p, more), NEW j \in Own(p, more), i < j
               PROVE  more[i].file <= more[j].file
    OBVIOUS
  <2>1. CASE j = n + 1
    BY <1>11, <1>13, <2>1
  <2>2. CASE j # n + 1
    <3>1. j \in Own(e.player, box) /\ i \in Own(e.player, box)
      BY <1>3, <1>6, <1>8, <2>2
    <3> QED
      BY <1>4, <1>7, <1>8, <3>1 DEF Reported
  <2> QED
    BY <2>1, <2>2
<1>15. Reported(p, more)
  BY <1>11, <1>12, <1>13, <1>14 DEF Reported
<1> QED
  BY <1>4, <1>5, <1>15 DEF Told, p, more, event

-----------------------------------------------------------------------------
(* Commands and the player's own steps *)

\* InHand, of engine e with queue box and tasks ts.
InHandOf(e, box, ts) ==
  \/ e.loaded = NoSong
  \/ e.player # NoPlayer /\ e.player.playing
  \/ e.player # NoPlayer /\ \E i \in DOMAIN box : box[i].life = e.player.life
  \/ \E task \in ts :
       /\ task.id = PlayingId(e.queue)
       /\ \/ task.kind = "Heal" /\ task.id = e.heal
          \/ task.kind = "Resolve" /\ task.id = e.retry

TasksKnown(ts) == \A task \in ts : task.kind \in {"Heal", "Resolve"} => task.id \in VideoIds

HandInv ==
  /\ Whole(d)
  /\ DaemonInv
  /\ Idle(d)
  /\ Fit(d)
  /\ Told(d, inbox)
  /\ TasksKnown(tasks)

LEMMA RunningHand ==
  ASSUME NEW f, Fit(f), NEW box, Told(f, box), Running(f), NEW ts
  PROVE  InHandOf(f, box, ts)
<1>1. CASE f.loaded = NoSong
  BY <1>1 DEF InHandOf
<1>2. CASE f.player # NoPlayer /\ f.player.playing = f.player.up
  <2>1. f.player.up \in BOOLEAN
    BY <1>2 DEF Fit, Players
  <2>2. CASE f.player.up = TRUE
    BY <1>2, <2>2 DEF InHandOf
  <2>3. CASE f.player.up = FALSE
    <3>1. \E i \in Own(f.player, box) : box[i].kind = "Closed"
      BY <1>2, <2>3 DEF Told, Reported
    <3> QED
      BY <1>2, <3>1 DEF Own, InHandOf
  <2> QED
    BY <2>1, <2>2, <2>3
<1> QED
  BY <1>1, <1>2 DEF Running

LEMMA WaitsHand ==
  ASSUME NEW e, NEW f, Waits(e, f), NEW box, NEW ts, TasksKnown(ts), InHandOf(e, box, ts)
  PROVE  InHandOf(f, box, ts)
<1>1. CASE \E task \in ts :
             /\ task.id = PlayingId(e.queue)
             /\ \/ task.kind = "Heal" /\ task.id = e.heal
                \/ task.kind = "Resolve" /\ task.id = e.retry
  <2>1. PICK task \in ts :
          /\ task.id = PlayingId(e.queue)
          /\ \/ task.kind = "Heal" /\ task.id = e.heal
             \/ task.kind = "Resolve" /\ task.id = e.retry
    BY <1>1
  <2>2. PlayingId(e.queue) # NoSong
    BY <2>1, DaemonAssumption DEF TasksKnown
  <2>3. task.id = PlayingId(f.queue) /\ f.heal = e.heal /\ f.retry = e.retry
    BY <2>1, <2>2 DEF Waits, Stays
  <2> QED
    BY <2>1, <2>3 DEF InHandOf
<1>2. CASE \/ e.loaded = NoSong
           \/ e.player # NoPlayer /\ e.player.playing
           \/ e.player # NoPlayer /\ \E i \in DOMAIN box : box[i].life = e.player.life
  BY <1>2 DEF InHandOf, Waits
<1> QED
  BY <1>1, <1>2 DEF InHandOf

\* An event that is not of the file that was sent last takes nothing out of hand.
LEMMA TailHand ==
  ASSUME NEW e, Fit(e), NEW box, Told(e, box), box # <<>>, NEW ts, InHandOf(e, box, ts),
         e.player # NoPlayer => Head(box).kind # "Closed" /\ Head(box).file # e.player.file
  PROVE  InHandOf(e, Tail(box), ts)
<1> DEFINE rest == Tail(box)
<1>1. CASE e.player # NoPlayer /\ ~e.player.playing /\ Own(e.player, box) # {}
  <2>1. PICK i \in Own(e.player, box) : box[i].kind = "Closed" \/ box[i].file = e.player.file
    BY <1>1 DEF Told, Reported
  <2>2. box \in Seq(Events) /\ i \in DOMAIN box /\ Head(box) = box[1]
    BY <2>1 DEF Told, Own
  <2>3. i # 1
    BY <1>1, <2>1, <2>2
  <2>4. i - 1 \in DOMAIN rest /\ rest[i - 1] = box[i]
    BY <2>2, <2>3
  <2> HIDE DEF rest
  <2>5. rest[i - 1].life = e.player.life
    BY <2>1, <2>4 DEF Own
  <2> QED
    BY <1>1, <2>4, <2>5 DEF InHandOf, rest
<1>2. CASE ~(e.player # NoPlayer /\ ~e.player.playing /\ Own(e.player, box) # {})
  <2> HIDE DEF rest
  <2> QED
    BY <1>2 DEF InHandOf, Own, rest
<1> QED
  BY <1>1, <1>2

\* What a step must do.
Serves ==
  /\ Fit(d') /\ Told(d', inbox') /\ TasksKnown(tasks')
  /\ InHandOf(d, inbox, tasks) => InHandOf(d', inbox', tasks') \/ RefusedStep

LEMMA HandledServes ==
  ASSUME HandInv, NEW outcomes, Handled(outcomes),
         \A r \in outcomes :
           /\ IsEngine(r.d) /\ Goes(d, r.d)
           /\ \/ Running(r.d)
              \/ Waits(d, r.d)
              \/ ~r.ok /\ r \in PlaybackCommands(d) \cup ResumeSession(d)
  PROVE  Serves
<1>1. PICK r \in outcomes : d' = r.d
  BY DEF Handled
<1>2. inbox' = inbox /\ tasks' = tasks
  BY DEF Handled
<1>3. Fit(d') /\ Told(d', inbox)
  BY <1>1, GoesFit, ToldGoes DEF HandInv
<1>4. TasksKnown(tasks)
  BY DEF HandInv
<1>5. CASE Running(r.d)
  BY <1>1, <1>2, <1>3, <1>4, <1>5, RunningHand DEF Serves
<1>6. CASE Waits(d, r.d)
  BY <1>1, <1>2, <1>3, <1>4, <1>6, WaitsHand DEF Serves
<1>7. CASE ~r.ok /\ r \in PlaybackCommands(d) \cup ResumeSession(d)
  <2>1. RefusedStep
    BY <1>1, <1>7 DEF RefusedStep
  <2> QED
    BY <1>2, <1>3, <1>4, <2>1 DEF Serves
<1> QED
  BY <1>1, <1>5, <1>6, <1>7

LEMMA CommandsServe ==
  ASSUME HandInv, Play \/ Media \/ Resume \/ Edit \/ AutoplayPicks \/ CrossfadeDue
  PROVE  Serves
<1>0. Whole(d) /\ Fit(d)
  BY DEF HandInv
<1>1. ASSUME NEW r \in PlaybackCommands(d)
      PROVE  /\ IsEngine(r.d) /\ Goes(d, r.d)
             /\ \/ Running(r.d) \/ Waits(d, r.d)
                \/ ~r.ok /\ r \in PlaybackCommands(d) \cup ResumeSession(d)
  BY <1>0, PlaybackMinds DEF Minds
<1>2. CASE Play
  BY <1>1, <1>2, HandledServes DEF Play
<1>3. CASE Media
  <2>1. \A r \in OpenUri(d) \cup MediaStop(d) : IsEngine(r.d) /\ Goes(d, r.d) /\ Running(r.d)
    BY <1>0, MediaEnds DEF Ends
  <2> QED
    BY <1>3, <2>1, HandledServes DEF Media
<1>4. CASE Resume
  <2>1. \A r \in ResumeSession(d) : /\ IsEngine(r.d) /\ Goes(d, r.d)
                                    /\ Running(r.d) \/ ~r.ok
    BY <1>0, ResumeLeads DEF Leads
  <2> QED
    BY <1>4, <2>1, HandledServes DEF Resume
<1>5. CASE Edit
  <2>1. \A r \in EditQueue(d) : IsEngine(r.d) /\ Goes(d, r.d) /\ Waits(d, r.d)
    BY <1>0, EditMinds
  <2> QED
    BY <1>5, <2>1, HandledServes DEF Edit
<1>6. CASE AutoplayPicks
  <2> DEFINE picks == UNION {Appended(d, more) : more \in {m \in Blocks : Fits(d, m)}}
  <2>1. picks \subseteq PlaybackCommands(d)
    BY DEF PlaybackCommands, Enqueue
  <2>2. Handled(picks)
    BY <1>6 DEF AutoplayPicks
  <2> HIDE DEF picks
  <2> QED
    BY <1>1, <2>1, <2>2, HandledServes
<1>7. CASE CrossfadeDue
  <2>1. \A r \in AdvanceAfterEnd(d) : IsEngine(r.d) /\ Goes(d, r.d) /\ Running(r.d)
    BY <1>0, AdvanceEnds DEF Ends
  <2> QED
    BY <1>7, <2>1, HandledServes DEF CrossfadeDue
<1> QED
  BY <1>2, <1>3, <1>4, <1>5, <1>6, <1>7

LEMMA PlayerServes ==
  ASSUME HandInv, FileEnds \/ TransportFails \/ Progress
  PROVE  Serves
<1>0. /\ IsEngine(d) /\ d.player # NoPlayer /\ d.player \in Players /\ Fit(d)
      /\ Told(d, inbox) /\ TasksKnown(tasks) /\ tasks' = tasks
  BY DEF HandInv, Fit, FileEnds, TransportFails, Progress
<1>1. ASSUME NEW kind \in {"Closed", "Eof", "Error"},
             inbox' = Append(inbox, [kind |-> kind, life |-> d.player.life, file |-> d.player.file]),
             IsEngine(d'), d'.lives = d.lives, d'.player \in Players,
             d'.player.life = d.player.life, d'.player.file = d.player.file,
             d'.player.up = d.player.up \/ kind = "Closed"
      PROVE  Serves
  <2> DEFINE event == [kind |-> kind, life |-> d.player.life, file |-> d.player.file]
  <2>1. d'.player # NoPlayer
    BY <1>1, NoPlayerIsNone
  <2>2. Fit(d')
    BY <1>0, <1>1 DEF Fit
  <2>3. Told(d', inbox')
    BY <1>0, <1>1, <2>1, <2>2, ToldAppend
  <2>4. Len(inbox) + 1 \in DOMAIN inbox' /\ inbox'[Len(inbox) + 1] = event
    BY <1>0, <1>1 DEF Told
  <2>5. event.life = d'.player.life
    BY <1>1
  <2> HIDE DEF event
  <2>6. InHandOf(d', inbox', tasks')
    BY <2>1, <2>4, <2>5 DEF InHandOf
  <2> QED
    BY <1>0, <2>2, <2>3, <2>6 DEF Serves
<1>2. CASE FileEnds
  <2>1. PICK kind \in {"Eof", "Error"} :
          inbox' = Append(inbox, [kind |-> kind, life |-> d.player.life, file |-> d.player.file])
    BY <1>2 DEF FileEnds
  <2>2. d' = [d EXCEPT !.player.playing = FALSE]
    BY <1>2 DEF FileEnds
  <2>3. /\ IsEngine(d') /\ d'.lives = d.lives
        /\ d'.player = [d.player EXCEPT !.playing = FALSE]
    BY <1>0, <2>2 DEF IsEngine, Fields
  <2>4. /\ d'.player \in Players /\ d'.player.life = d.player.life
        /\ d'.player.file = d.player.file /\ d'.player.up = d.player.up
    BY <1>0, <2>3 DEF Players
  <2> QED
    BY <1>1, <2>1, <2>3, <2>4
<1>3. CASE TransportFails
  <2>1. inbox' = Append(inbox, [kind |-> "Closed", life |-> d.player.life, file |-> d.player.file])
    BY <1>3 DEF TransportFails
  <2>2. d' = [d EXCEPT !.player.up = FALSE, !.player.playing = FALSE]
    BY <1>3 DEF TransportFails
  <2>3. /\ IsEngine(d') /\ d'.lives = d.lives
        /\ d'.player = [d.player EXCEPT !.up = FALSE, !.playing = FALSE]
    BY <1>0, <2>2 DEF IsEngine, Fields
  <2>4. /\ d'.player \in Players /\ d'.player.life = d.player.life
        /\ d'.player.file = d.player.file
    BY <1>0, <2>3 DEF Players
  <2> QED
    BY <1>1, <2>1, <2>3, <2>4
<1>4. CASE Progress
  <2>1. d' = [d EXCEPT !.progressed = TRUE] /\ d.player.playing /\ inbox' = inbox
    BY <1>4 DEF Progress
  <2>2. IsEngine(d') /\ d'.lives = d.lives /\ d'.player = d.player
    BY <1>0, <2>1 DEF IsEngine, Fields
  <2>3. Fit(d') /\ Told(d', inbox')
    BY <1>0, <2>1, <2>2 DEF Fit, Told
  <2>4. InHandOf(d', inbox', tasks')
    BY <1>0, <2>1, <2>2 DEF InHandOf
  <2> QED
    BY <1>0, <2>3, <2>4 DEF Serves
<1> QED
  BY <1>2, <1>3, <1>4

-----------------------------------------------------------------------------
(* Events and task results *)

\* A handler that went on from engine e, with nothing else in the queue than e knew.
LEMMA EndsServes ==
  ASSUME NEW e, Fit(e), Told(e, inbox'), TasksKnown(tasks'), Ends(e, d')
  PROVE  Serves
<1>1. Fit(d') /\ Told(d', inbox') /\ Running(d')
  BY GoesFit, ToldGoes DEF Ends
<1> QED
  BY <1>1, RunningHand DEF Serves

LEMMA ChasesServes ==
  ASSUME NEW e, Fit(e), Told(e, inbox'), NEW rest, TasksKnown(rest),
         Chases(e, d', rest, tasks')
  PROVE  Serves
<1>1. CASE Running(d') /\ tasks' = rest
  BY <1>1, EndsServes DEF Ends, Chases
<1>2. CASE \E task : Awaited(d', task) /\ tasks' = rest \cup {task}
  <2>1. PICK task : Awaited(d', task) /\ tasks' = rest \cup {task}
    BY <1>2
  <2>2. Fit(d') /\ Told(d', inbox')
    BY GoesFit, ToldGoes DEF Chases
  <2>3. TasksKnown(tasks')
    BY <2>1 DEF TasksKnown, Awaited
  <2>4. InHandOf(d', inbox', tasks')
    BY <2>1 DEF InHandOf, Awaited
  <2> QED
    BY <2>2, <2>3, <2>4 DEF Serves
<1> QED
  BY <1>1, <1>2 DEF Chases

LEMMA RetriesKnown ==
  ASSUME NEW ts, TasksKnown(ts), NEW gens
  PROVE  TasksKnown(ts \cup {Task("Retry", NoSong, <<g>>) : g \in gens})
BY DEF TasksKnown, Task

\* What is still loaded and shown is in hand as long as what is waited for is
\* under way.
LEMMA StillInHand ==
  ASSUME NEW e, NEW box, NEW ts, InHandOf(e, box, ts),
         NEW f, f.player = e.player, f.loaded = e.loaded, f.queue = e.queue,
         NEW us,
         \A task \in ts :
           /\ task.id = PlayingId(e.queue)
           /\ \/ task.kind = "Heal" /\ task.id = e.heal
              \/ task.kind = "Resolve" /\ task.id = e.retry
           => /\ task \in us
              /\ \/ task.kind = "Heal" /\ task.id = f.heal
                 \/ task.kind = "Resolve" /\ task.id = f.retry
  PROVE  InHandOf(f, box, us)
BY DEF InHandOf

LEMMA EventServes ==
  ASSUME HandInv, HandlePlayerEvent
  PROVE  Serves
<1> DEFINE event == Head(inbox)
<1>0. /\ Fit(d) /\ Told(d, inbox) /\ TasksKnown(tasks)
      /\ inbox # <<>> /\ inbox' = Tail(inbox)
  BY DEF HandInv, HandlePlayerEvent
<1>1. CASE event.kind = "Closed" /\ d.player # NoPlayer
  <2> DEFINE closed == TransportClosed(d)
  <2>1. OnTransportClosed
    BY <1>1 DEF HandlePlayerEvent
  <2>2. /\ Ends(d, closed) /\ closed.player = NoPlayer
        /\ closed.loaded = NoSong /\ closed.lives = d.lives
    BY <1>0, <1>1, ClosedEnds
  <2>3. \/ d' = closed /\ tasks' = tasks
        \/ \E r \in AttemptRecovery(closed, closed.recGen) :
             /\ d' = r.d
             /\ tasks' = tasks \cup {Task("Retry", NoSong, <<g>>) : g \in RetryOf(r, closed.recGen)}
    BY <2>1 DEF OnTransportClosed
  <2> HIDE DEF closed
  <2>4. Fit(closed) /\ Told(closed, inbox)
    BY <1>0, <2>2, GoesFit, ToldGoes DEF Ends
  <2>5. Told(closed, inbox')
    BY <1>0, <2>2, <2>4, ToldTail
  <2>6. Idle(closed) /\ Ends(closed, closed)
    BY <2>2, <2>4 DEF Idle, Ends, Goes, Running
  <2>7. CASE d' = closed /\ tasks' = tasks
    BY <1>0, <2>4, <2>5, <2>6, <2>7, EndsServes
  <2>8. CASE \E r \in AttemptRecovery(closed, closed.recGen) :
               /\ d' = r.d
               /\ tasks' = tasks \cup {Task("Retry", NoSong, <<g>>) : g \in RetryOf(r, closed.recGen)}
    <3>1. PICK r \in AttemptRecovery(closed, closed.recGen) :
            /\ d' = r.d
            /\ tasks' = tasks \cup {Task("Retry", NoSong, <<g>>) : g \in RetryOf(r, closed.recGen)}
      BY <2>8
    <3>2. TasksKnown(tasks')
      BY <1>0, <3>1, RetriesKnown
    <3>3. Ends(closed, d')
      BY <2>4, <2>6, <3>1, AttemptEnds
    <3> QED
      BY <2>4, <2>5, <3>2, <3>3, EndsServes
  <2> QED
    BY <2>3, <2>7, <2>8
<1>2. ASSUME d' = d, tasks' = tasks,
             d.player # NoPlayer => event.kind # "Closed" /\ event.file # d.player.file
      PROVE  Serves
  <2>1. Told(d, inbox')
    BY <1>0, <1>2, ToldTail
  <2>2. InHandOf(d, inbox, tasks) => InHandOf(d, inbox', tasks)
    BY <1>0, <1>2, TailHand
  <2> QED
    BY <1>0, <1>2, <2>1, <2>2 DEF Serves
<1>3. CASE event.kind = "Closed" /\ d.player = NoPlayer
  <2>1. OnTransportClosed
    BY <1>3 DEF HandlePlayerEvent
  <2>2. d' = d /\ tasks' = tasks
    BY <1>3, <2>1 DEF OnTransportClosed, TransportClosed
  <2> QED
    BY <1>2, <1>3, <2>2
<1>4. CASE event.kind # "Closed"
  <2>1. Told(d, inbox')
    BY <1>0, <1>4, ToldTail
  <2>2. event.kind \in {"Eof", "Error"}
    <3>1. inbox \in Seq(Events) /\ 1 \in DOMAIN inbox /\ event = inbox[1]
      BY <1>0 DEF Told
    <3> HIDE DEF event
    <3> QED
      BY <1>4, <3>1, EventsAre
  <2>3. \/ (\E r \in AdvanceAfterEnd(d) : d' = r.d) /\ tasks' = tasks
        \/ \E class \in ErrorClasses : PlaybackError(d, class, tasks)
        \/ d' = d /\ tasks' = tasks /\ ~IsCurrent(event)
    BY <1>4, <2>2 DEF HandlePlayerEvent
  <2>4. CASE (\E r \in AdvanceAfterEnd(d) : d' = r.d) /\ tasks' = tasks
    BY <1>0, <2>1, <2>4, AdvanceEnds, EndsServes
  <2>5. CASE \E class \in ErrorClasses : PlaybackError(d, class, tasks)
    BY <1>0, <2>1, <2>5, ErrorChases, ChasesServes
  <2>6. CASE d' = d /\ tasks' = tasks /\ ~IsCurrent(event)
    BY <1>2, <1>4, <2>6 DEF IsCurrent
  <2> QED
    BY <2>3, <2>4, <2>5, <2>6
<1> QED
  BY <1>1, <1>3, <1>4

LEMMA RetryServes ==
  ASSUME HandInv, RetryDue
  PROVE  Serves
<1>0. Fit(d) /\ Idle(d) /\ Told(d, inbox) /\ TasksKnown(tasks) /\ inbox' = inbox
  BY DEF HandInv, RetryDue
<1>1. PICK task \in tasks :
        /\ task.kind = "Retry"
        /\ \E r \in AttemptRecovery(d, task.of[1]) :
             /\ d' = r.d
             /\ tasks' = (tasks \ {task})
                           \cup {Task("Retry", NoSong, <<g>>) : g \in RetryOf(r, task.of[1])}
  BY DEF RetryDue
<1>2. PICK r \in AttemptRecovery(d, task.of[1]) :
        /\ d' = r.d
        /\ tasks' = (tasks \ {task})
                      \cup {Task("Retry", NoSong, <<g>>) : g \in RetryOf(r, task.of[1])}
  BY <1>1
<1>3. TasksKnown(tasks \ {task})
  BY <1>0 DEF TasksKnown
<1>4. TasksKnown(tasks')
  BY <1>2, <1>3, RetriesKnown
<1>5. CASE Ends(d, d')
  BY <1>0, <1>4, <1>5, EndsServes
<1>6. CASE d' = d
  <2>1. tasks \ {task} \subseteq tasks'
    BY <1>2
  <2>2. InHandOf(d, inbox, tasks) => InHandOf(d, inbox, tasks')
    BY <1>1, <2>1, StillInHand
  <2> QED
    BY <1>0, <1>4, <1>6, <2>2 DEF Serves
<1> QED
  BY <1>0, <1>2, <1>5, <1>6, AttemptEnds

LEMMA HealServes ==
  ASSUME HandInv, HealDone
  PROVE  Serves
<1>0. Fit(d) /\ IsEngine(d) /\ Told(d, inbox) /\ TasksKnown(tasks) /\ inbox' = inbox
  BY DEF HandInv, Fit, HealDone
<1>1. PICK task \in tasks, updated \in BOOLEAN :
        /\ task.kind = "Heal"
        /\ LET repinned == [d EXCEPT !.repin = @ \/ updated]
               healed == HealOver(d)
               rest == tasks \ {task}
           IN \/ d.heal # task.id /\ d' = repinned /\ tasks' = rest
              \/ /\ d.heal = task.id /\ PlayingId(d.queue) # task.id
                 /\ d' = HealOver(repinned) /\ tasks' = rest
              \/ /\ \E r \in OrStop(LoadCurrent([healed EXCEPT !.player = NoPlayer])) : d' = r.d
                 /\ tasks' = rest
              \/ PlaybackError(healed, "format", rest)
  BY DEF HealDone
<1> DEFINE repinned == [d EXCEPT !.repin = @ \/ updated]
           over == HealOver(repinned)
           healed == HealOver(d)
           stopped == [healed EXCEPT !.player = NoPlayer]
           rest == tasks \ {task}
<1>2. /\ Fit(repinned) /\ repinned.player = d.player /\ repinned.lives = d.lives
      /\ repinned.queue = d.queue /\ repinned.loaded = d.loaded
      /\ repinned.heal = d.heal /\ repinned.retry = d.retry
  BY <1>0 DEF Fit, IsEngine, Fields
<1>3. /\ Fit(healed) /\ healed.player = d.player /\ healed.lives = d.lives
  BY <1>0 DEF Fit, IsEngine, Fields, HealOver
<1>4. /\ Fit(stopped) /\ stopped.player = NoPlayer /\ stopped.lives = d.lives
  BY <1>0 DEF Fit, IsEngine, Fields, HealOver
<1>5. \/ d.heal # task.id /\ d' = repinned /\ tasks' = rest
      \/ /\ d.heal = task.id /\ PlayingId(d.queue) # task.id
         /\ d' = over /\ tasks' = rest
      \/ (\E r \in OrStop(LoadCurrent(stopped)) : d' = r.d) /\ tasks' = rest
      \/ PlaybackError(healed, "format", rest)
  BY <1>1
<1>6. TasksKnown(rest)
  BY <1>0 DEF TasksKnown
<1> HIDE DEF repinned
<1>7. /\ Fit(over) /\ over.player = d.player /\ over.lives = d.lives
      /\ over.queue = d.queue /\ over.loaded = d.loaded /\ over.retry = d.retry
  BY <1>2 DEF Fit, IsEngine, Fields, HealOver
<1> HIDE DEF over, healed, stopped
<1>8. /\ Told(repinned, inbox) /\ Told(over, inbox) /\ Told(healed, inbox)
      /\ Told(stopped, inbox)
  <2>1. Goes(d, repinned) /\ Goes(d, over) /\ Goes(d, healed)
    BY <1>2, <1>3, <1>7, StillGoes
  <2>2. Goes(d, stopped)
    BY <1>4 DEF Goes
  <2> QED
    BY <1>0, <2>1, <2>2, ToldGoes
<1>9. CASE d.heal # task.id /\ d' = repinned /\ tasks' = rest
  <2>1. InHandOf(d, inbox, tasks) => InHandOf(repinned, inbox, rest)
    BY <1>1, <1>2, <1>9, StillInHand
  <2> QED
    BY <1>0, <1>2, <1>6, <1>8, <1>9, <2>1 DEF Serves
<1>10. CASE /\ d.heal = task.id /\ PlayingId(d.queue) # task.id
            /\ d' = over /\ tasks' = rest
  <2>1. InHandOf(d, inbox, tasks) => InHandOf(over, inbox, rest)
    BY <1>1, <1>7, <1>10, StillInHand
  <2> QED
    BY <1>0, <1>6, <1>7, <1>8, <1>10, <2>1 DEF Serves
<1>11. CASE (\E r \in OrStop(LoadCurrent(stopped)) : d' = r.d) /\ tasks' = rest
  BY <1>0, <1>4, <1>6, <1>8, <1>11, LoadStopEnds, EndsServes
<1>12. CASE PlaybackError(healed, "format", rest)
  BY <1>0, <1>3, <1>6, <1>8, <1>12, ErrorChases, ChasesServes
<1> QED
  BY <1>5, <1>9, <1>10, <1>11, <1>12

LEMMA ResolveServes ==
  ASSUME HandInv, ResolveDone
  PROVE  Serves
<1>0. Fit(d) /\ IsEngine(d) /\ Told(d, inbox) /\ TasksKnown(tasks) /\ inbox' = inbox
  BY DEF HandInv, Fit, ResolveDone
<1>1. PICK task \in tasks, resolved \in BOOLEAN :
        /\ task.kind = "Resolve"
        /\ LET done == [d EXCEPT !.retry = NoSong]
               rest == tasks \ {task}
           IN \/ d.retry # task.id /\ d' = d /\ tasks' = rest
              \/ /\ d.retry = task.id /\ PlayingId(d.queue) # task.id
                 /\ d' = done /\ tasks' = rest
              \/ (\E r \in OrStop(LoadCurrent(done)) : d' = r.d) /\ tasks' = rest
              \/ PlaybackError(done, "other", rest)
  BY DEF ResolveDone
<1> DEFINE done == [d EXCEPT !.retry = NoSong]
           rest == tasks \ {task}
<1>2. /\ Fit(done) /\ done.player = d.player /\ done.lives = d.lives
      /\ done.queue = d.queue /\ done.loaded = d.loaded /\ done.heal = d.heal
  BY <1>0 DEF Fit, IsEngine, Fields
<1>3. \/ d.retry # task.id /\ d' = d /\ tasks' = rest
      \/ /\ d.retry = task.id /\ PlayingId(d.queue) # task.id
         /\ d' = done /\ tasks' = rest
      \/ (\E r \in OrStop(LoadCurrent(done)) : d' = r.d) /\ tasks' = rest
      \/ PlaybackError(done, "other", rest)
  BY <1>1
<1>4. TasksKnown(rest)
  BY <1>0 DEF TasksKnown
<1> HIDE DEF done
<1>5. Told(done, inbox)
  BY <1>0, <1>2, StillGoes, ToldGoes
<1>6. CASE d.retry # task.id /\ d' = d /\ tasks' = rest
  <2>1. InHandOf(d, inbox, tasks) => InHandOf(d, inbox, rest)
    BY <1>1, <1>6, StillInHand
  <2> QED
    BY <1>0, <1>4, <1>6, <2>1 DEF Serves
<1>7. CASE /\ d.retry = task.id /\ PlayingId(d.queue) # task.id
           /\ d' = done /\ tasks' = rest
  <2>1. InHandOf(d, inbox, tasks) => InHandOf(done, inbox, rest)
    BY <1>1, <1>2, <1>7, StillInHand
  <2> QED
    BY <1>0, <1>2, <1>4, <1>5, <1>7, <2>1 DEF Serves
<1>8. CASE (\E r \in OrStop(LoadCurrent(done)) : d' = r.d) /\ tasks' = rest
  BY <1>0, <1>2, <1>4, <1>5, <1>8, LoadStopEnds, EndsServes
<1>9. CASE PlaybackError(done, "other", rest)
  BY <1>0, <1>2, <1>4, <1>5, <1>9, ErrorChases, ChasesServes
<1> QED
  BY <1>3, <1>6, <1>7, <1>8, <1>9

LEMMA HandInvInit == Init => HandInv
<1> SUFFICES ASSUME Init PROVE HandInv
  OBVIOUS
<1>1. Whole(d) /\ DaemonInv
  BY WholeInit, DaemonInvInit
<1>2. /\ d.player = NoPlayer /\ d.loaded = NoSong /\ d.lives = 0
      /\ inbox = <<>> /\ tasks = {}
  BY DEF Init
<1>3. IsEngine(d)
  BY <1>1 DEF Whole
<1> QED
  BY <1>1, <1>2, <1>3 DEF HandInv, Fit, Idle, Told, TasksKnown

LEMMA HandInvStep ==
  ASSUME HandInv, [Next]_vars
  PROVE  HandInv' /\ Serves
<1>1. Whole(d')
  BY StepKeeps DEF HandInv, Keeps
<1>2. DaemonInv'
  BY DaemonInvStep DEF HandInv
<1>3. Idle(d')
  BY IdleStep DEF HandInv
<1>4. Serves
  <2>1. CASE UNCHANGED vars
    <3>1. d' = d /\ inbox' = inbox /\ tasks' = tasks
      BY <2>1 DEF vars
    <3>2. Fit(d) /\ Told(d, inbox) /\ TasksKnown(tasks)
      BY DEF HandInv
    <3> QED
      BY <3>1, <3>2 DEF Serves
  <2> QED
    BY <2>1, CommandsServe, PlayerServes, EventServes, RetryServes, HealServes,
       ResolveServes DEF Next, Owner
<1>5. HandInv'
  <2>1. Fit(d') /\ Told(d', inbox') /\ TasksKnown(tasks')
    BY <1>4 DEF Serves
  <2> QED
    BY <1>1, <1>2, <1>3, <2>1 DEF HandInv
<1> QED
  BY <1>4, <1>5

\* OnlyRefusalDropsTheTrack: whatever order ends, closes, refusals, retry
\* timers and task results are handled in, a loaded track that does not run
\* has an event, a heal or a load retry that will take it further; only a
\* command that was answered with a failure can leave it without one.
THEOREM NothingDropsOutOfHand == Spec => OnlyRefusalDropsTheTrack
<1>1. Init => HandInv
  BY HandInvInit
<1>2. HandInv /\ [Next]_vars => HandInv'
  BY HandInvStep
<1>3. HandInv /\ [Next]_vars => [InHand => InHand' \/ RefusedStep]_vars
  <2> SUFFICES ASSUME HandInv, [Next]_vars, InHand
               PROVE  InHand' \/ RefusedStep
    OBVIOUS
  <2>1. InHandOf(d, inbox, tasks)
    BY DEF InHand, InHandOf
  <2>2. InHandOf(d', inbox', tasks') \/ RefusedStep
    BY <2>1, HandInvStep DEF Serves
  <2>3. InHandOf(d', inbox', tasks') => InHand'
    BY DEF InHand, InHandOf
  <2> QED
    BY <2>2, <2>3
<1> QED
  BY <1>1, <1>2, <1>3, PTL DEF Spec, OnlyRefusalDropsTheTrack
=============================================================================
