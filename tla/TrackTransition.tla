--------------------------- MODULE TrackTransition ---------------------------
(***************************************************************************)
(* app/track_transition.rs, its queue_removal.rs and mode_transition.rs,   *)
(* with queue/mutation.rs: how the terminal App changes the playing track. *)
(* A command only prepares a plan from the queue it sees.  The plan waits  *)
(* while the player starts or restarts (at most one does), and meanwhile   *)
(* every edit that needs no player command goes on.  When the player takes *)
(* the plan's commands the reducer commits it; a plan whose guard no       *)
(* longer holds is rejected and changes nothing.                           *)
(***************************************************************************)
EXTENDS PlayQueue

CONSTANT None

VARIABLES
  plan,             \* the deferred TrackTransitionPlan, or None
  loaded,           \* the id whose load the player accepted, or NoSong
  mode,             \* radio_dedicated_mode
  stash             \* the queue each mode left behind, or None

trackVars == <<q, rev, nextRev, plan, loaded, mode, stash>>

Modes == {"Normal", "Radio"}
OtherMode(m) == IF m = "Normal" THEN "Radio" ELSE "Normal"

TrackMoves == {"Next", "AutoNext", "Previous", "Stay", "MoveTo"}

\* Equal in every field.
SameQueue(c, d) ==
  /\ c.songs = d.songs
  /\ c.order = d.order
  /\ c.cursor = d.cursor
  /\ c.shuffle = d.shuffle
  /\ c.repeat = d.repeat

-----------------------------------------------------------------------------
(* Preparation. *)

FirstCursor(c, move, pos) ==
  CASE move = "Next"     -> PlanNext(c, c.cursor, FALSE)
    [] move = "AutoNext" -> PlanNext(c, c.cursor, TRUE)
    [] move = "Previous" -> PlanPrev(c, c.cursor)
    [] move = "Stay"     -> IF Current(c) = NoSong THEN NoPos ELSE c.cursor
    [] move = "MoveTo"   -> IF pos \in DOMAIN c.order THEN pos ELSE NoPos

\* Load the first playable track from there, or end playback.
Outcome(c, first) ==
  IF first = NoPos THEN [kind |-> "End", target |-> NoPos] ELSE FirstPlayable(c, first)

\* A plan that makes outcome happen in result; its guard is what it read of q.
PlanFor(result, outcome, edits, move, pos, switches) ==
  [rev |-> rev, cursor |-> q.cursor, id |-> Current(q), repeat |-> q.repeat,
   edits |-> edits,
   result |-> IF outcome.target = NoPos THEN result ELSE AtCursor(result, outcome.target),
   kind |-> outcome.kind, target |-> outcome.target,
   song |-> IF outcome.kind = "Load" THEN SongAt(result, outcome.target) ELSE NoSong,
   move |-> move, pos |-> pos,
   loaded |-> loaded, switches |-> switches, mode |-> mode, awaited |-> stash[OtherMode(mode)],
   base |-> q]

Prepare(p) ==
  /\ plan = None
  /\ plan' = p
  /\ UNCHANGED <<q, rev, nextRev, loaded, mode, stash>>

\* prepare_track_transition: Stay and MoveTo without a target do nothing.
PrepareMove(move, pos) ==
  LET first == FirstCursor(q, move, pos)
  IN /\ first = NoPos => move \notin {"Stay", "MoveTo"}
     /\ Prepare(PlanFor(q, Outcome(q, first), FALSE, move, pos, FALSE))

\* prepare_queue_mutation_track_transition.
PrepareEdit(result, switches) ==
  LET first == IF result.songs = <<>> THEN NoPos ELSE result.cursor
  IN Prepare(PlanFor(result, Outcome(result, first), TRUE, "Edit", 1, switches))

PrepareReplace ==
  \E songs \in Blocks, override \in {"keep", "on", "off"} :
    \E start \in 1..Max({1, Len(songs)}) :
      \E c \in Replacement(q, songs, start, override) : PrepareEdit(c, FALSE)

PreparePlayNow ==
  \E more \in Blocks : Fitting(q, more) # <<>> /\ PrepareEdit(PlayNow(q, more), FALSE)

PrepareIdleEnqueue ==
  \E more \in Blocks : \E c \in Extend(q, more) :
    /\ loaded = NoSong
    /\ Fitting(q, more) # <<>>
    /\ PrepareEdit(AtCursor(c, Size(q) + 1), FALSE)

\* apply_queue_removal for a removal that takes the current track.
PrepareRemoval(removal) ==
  \/ /\ removal.playback = "LoadSelected"
     /\ PrepareEdit(removal.queue, FALSE)
  \/ /\ removal.playback = "Stop"
     /\ Prepare(PlanFor(removal.queue, [kind |-> "End", target |-> NoPos],
                        TRUE, "Edit", 1, FALSE))

PrepareRemove ==
  \E lo, hi \in DOMAIN q.order : lo <= hi /\ PrepareRemoval(RemoveRange(q, lo, hi))

PreparePurge ==
  \E ids \in SUBSET VideoIds :
    /\ \E pos \in DOMAIN q.order : SongAt(q, pos) \in ids
    /\ PrepareRemoval(Purge(q, ids))

\* The other mode's queue, or an empty one the first time.
PrepareModeSwitch ==
  LET target == stash[OtherMode(mode)]
  IN \E c \in RestoreSnapshot(q, IF target = None THEN EmptyQueue ELSE target) :
       PrepareEdit(c, TRUE)

\* media_stop: nothing to stop in an empty idle player.
PrepareStop ==
  /\ Current(q) # NoSong \/ loaded # NoSong
  /\ Prepare(PlanFor(q, [kind |-> "Stop",
                        target |-> IF Current(q) = NoSong THEN NoPos ELSE q.cursor],
                     FALSE, "Stop", 1, FALSE))

-----------------------------------------------------------------------------
(* Admission. *)

\* Variant: the repeat mode is left out of the guard of an edit.
GuardHoldsAnyRepeat(p) ==
  /\ rev = p.rev
  /\ q.cursor = p.cursor
  /\ Current(q) = p.id
  /\ ~p.edits /\ p.target # NoPos => p.target \in DOMAIN q.order
  /\ p.move = "Stop" => loaded = p.loaded
  /\ p.switches => mode = p.mode /\ stash[OtherMode(mode)] = p.awaited

\* Variant: the plan is taken to be current whenever the same track plays.
GuardHoldsSameTrack(p) ==
  /\ Current(q) = p.id
  /\ p.edits => q.repeat = p.repeat
  /\ ~p.edits /\ p.target # NoPos => p.target \in DOMAIN q.order
  /\ p.move = "Stop" => loaded = p.loaded
  /\ p.switches => mode = p.mode /\ stash[OtherMode(mode)] = p.awaited

\* track_transition_is_current: planned_transition_matches for a cursor move,
\* mutation_matches, which also compares the repeat mode, for an edit; a stop
\* also names the loaded track.
GuardHolds(p) ==
  /\ rev = p.rev
  /\ q.cursor = p.cursor
  /\ Current(q) = p.id
  /\ p.edits => q.repeat = p.repeat
  /\ ~p.edits /\ p.target # NoPos => p.target \in DOMAIN q.order
  /\ p.move = "Stop" => loaded = p.loaded
  /\ p.switches => mode = p.mode /\ stash[OtherMode(mode)] = p.awaited

\* The player took the commands and commit_track_transition ran.
Admit ==
  /\ plan # None
  /\ GuardHolds(plan)
  /\ CASE plan.edits          -> Commit(plan.result)
       [] ~plan.edits /\ plan.target # NoPos -> Keep(AtCursor(q, plan.target))
       [] OTHER               -> Keep(q)
  /\ loaded' = plan.song
  /\ IF plan.switches
       THEN /\ mode' = OtherMode(mode)
            /\ stash' = [m \in Modes |-> IF m = mode THEN plan.base ELSE None]
       ELSE UNCHANGED <<mode, stash>>
  /\ plan' = None

\* Stale, or the player could not be started: reject_track_transition.
Reject ==
  /\ plan # None
  /\ plan' = None
  /\ UNCHANGED <<q, rev, nextRev, loaded, mode, stash>>

\* Edits that need no player command take effect at once.
EagerRemove ==
  \E lo, hi \in DOMAIN q.order :
    /\ lo <= hi
    /\ RemoveRange(q, lo, hi).playback = "Unchanged"
    /\ Commit(RemoveRange(q, lo, hi).queue)

EagerPurge ==
  \E ids \in SUBSET VideoIds :
    /\ \E pos \in DOMAIN q.order : SongAt(q, pos) \in ids
    /\ Purge(q, ids).playback = "Unchanged"
    /\ Commit(Purge(q, ids).queue)

EagerEdit ==
  /\ \/ ExtendTracks
     \/ loaded # NoSong /\ InsertNextTracks
     \/ MoveTrack
     \/ DropUpcoming
     \/ ChangeShuffle
     \/ ChangeRepeat
     \/ EagerRemove
     \/ EagerPurge
  /\ UNCHANGED <<plan, loaded, mode, stash>>

\* Bootstrap: an empty queue, or the session's queues restored.
TrackInit ==
  /\ \/ q = EmptyQueue
     \/ \E snapshot \in Snapshots : q \in RestoreSnapshot(EmptyQueue, snapshot)
  /\ rev = 1
  /\ nextRev = 2
  /\ plan = None
  /\ loaded = NoSong
  /\ mode = "Normal"
  /\ \E left \in Snapshots \cup {None} :
       stash = [m \in Modes |-> IF m = "Radio" THEN left ELSE None]

PrepareTransition ==
  \/ \E move \in TrackMoves \ {"MoveTo"} : PrepareMove(move, 1)
  \/ \E pos \in DOMAIN q.order : PrepareMove("MoveTo", pos)
  \/ PrepareReplace
  \/ PreparePlayNow
  \/ PrepareIdleEnqueue
  \/ PrepareRemove
  \/ PreparePurge
  \/ PrepareModeSwitch
  \/ PrepareStop

TrackNext ==
  \/ PrepareTransition
  \/ Admit
  \/ Reject
  \/ EagerEdit

TrackSpec == TrackInit /\ [][TrackNext]_trackVars

-----------------------------------------------------------------------------
(* Properties *)

\* What plays is what the queue shows: whatever was edited between preparing
\* a plan and admitting it, a loaded track is the queue's current one.
LoadedIsCurrent == loaded # NoSong => loaded = Current(q)

\* A plan whose guard holds was prepared from this very queue, although the
\* guard compares four scalars and neither the tracks, nor the play order,
\* nor the shuffle flag (mutation.rs:389, "the exact queue identity captured
\* during preparation").
PlanGuardIsExact ==
  plan # None /\ GuardHolds(plan) =>
    /\ SameQueue(WithRepeat(q, plan.base.repeat), plan.base)
    /\ plan.edits => SameQueue(q, plan.base)

\* Switching modes keeps the queue that is left, as it is when the switch
\* commits and not as it was when the switch was asked for.
SwitchKeepsLiveQueue ==
  [][mode' # mode => SameQueue(stash'[mode], q)]_trackVars
=============================================================================
