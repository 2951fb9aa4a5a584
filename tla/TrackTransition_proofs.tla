----------------------- MODULE TrackTransition_proofs -----------------------
(***************************************************************************)
(* For any tracks, caps, blocks and snapshots: a deferred plan whose guard *)
(* holds was prepared from this very queue, a mode switch keeps the live   *)
(* queue, and what plays is what the queue shows.  The first two need      *)
(* nothing of what the edits compute: every step either mints a revision   *)
(* above all earlier ones or leaves tracks, order and shuffle alone.  The  *)
(* third rests on what PlayQueue_proofs says of each edit.                 *)
(***************************************************************************)
EXTENDS TrackTransition, PlayQueue_proofs

\* The part of a queue that a revision identifies.
SameContents(c, d) ==
  /\ c.songs = d.songs
  /\ c.order = d.order
  /\ c.shuffle = d.shuffle

Revisions ==
  /\ rev \in Nat
  /\ nextRev \in Nat
  /\ rev < nextRev

\* A plan carries what it read; under its own revision nothing but cursor and
\* repeat can have changed.
PlanIsDated ==
  plan # None =>
    /\ plan.rev \in Nat
    /\ plan.rev < nextRev
    /\ plan.cursor = plan.base.cursor
    /\ plan.repeat = plan.base.repeat
    /\ plan.switches => plan.edits
    /\ plan.rev = rev => SameContents(q, plan.base)

GuardInv == Revisions /\ PlanIsDated /\ mode \in Modes

\* A step mints a revision, or keeps the contents under the current one.
Minted == rev' = nextRev /\ nextRev' = nextRev + 1
Untouched == UNCHANGED <<rev, nextRev>> /\ SameContents(q', q)

LEMMA KeepRepeat == \A m : Keep(WithRepeat(q, m)) => Untouched
  BY DEF Keep, WithRepeat, Untouched, SameContents

LEMMA KeepCursor == \A pos : Keep(AtCursor(q, pos)) => Untouched
  BY DEF Keep, AtCursor, Untouched, SameContents

LEMMA KeepAll == Keep(q) => Untouched
  BY DEF Keep, Untouched, SameContents

LEMMA CommitMints == \A c : Commit(c) => Minted
  BY DEF Commit, Minted

LEMMA EditMintsOrKeeps ==
  ASSUME EagerEdit
  PROVE  (Minted \/ Untouched) /\ UNCHANGED <<plan, loaded, mode, stash>>
<1>1. UNCHANGED <<plan, loaded, mode, stash>>
  BY DEF EagerEdit
<1>2. CASE ExtendTracks
  BY <1>1, <1>2, CommitMints DEF ExtendTracks
<1>3. CASE InsertNextTracks
  BY <1>1, <1>3, CommitMints DEF InsertNextTracks
<1>4. CASE MoveTrack
  BY <1>1, <1>4, CommitMints DEF MoveTrack
<1>5. CASE DropUpcoming
  BY <1>1, <1>5, CommitMints DEF DropUpcoming
<1>6. CASE ChangeShuffle
  BY <1>1, <1>6, CommitMints DEF ChangeShuffle
<1>7. CASE ChangeRepeat
  BY <1>1, <1>7, KeepRepeat DEF ChangeRepeat
<1>8. CASE EagerRemove
  BY <1>1, <1>8, CommitMints DEF EagerRemove
<1>9. CASE EagerPurge
  BY <1>1, <1>9, CommitMints DEF EagerPurge
<1> QED
  BY <1>2, <1>3, <1>4, <1>5, <1>6, <1>7, <1>8, <1>9 DEF EagerEdit

\* Every preparation is a PlanFor; only an edit switches modes.
Dated(p) ==
  /\ p.rev = rev
  /\ p.cursor = q.cursor
  /\ p.repeat = q.repeat
  /\ p.base = q
  /\ p.switches => p.edits

LEMMA PlanForIsDated ==
  \A result, outcome, edits, move, pos, switches :
    (switches => edits)
      => Dated(PlanFor(result, outcome, edits, move, pos, switches))
  BY DEF PlanFor, Dated

LEMMA PrepareIsDated ==
  ASSUME PrepareTransition
  PROVE  /\ Dated(plan')
         /\ UNCHANGED <<q, rev, nextRev, loaded, mode, stash>>
<1>1. \A result, outcome, edits, move, pos, switches :
        (switches => edits)
          /\ Prepare(PlanFor(result, outcome, edits, move, pos, switches))
        => Dated(plan') /\ UNCHANGED <<q, rev, nextRev, loaded, mode, stash>>
  BY PlanForIsDated DEF Prepare
<1>2. \A move, pos : PrepareMove(move, pos)
        => Dated(plan') /\ UNCHANGED <<q, rev, nextRev, loaded, mode, stash>>
  BY <1>1 DEF PrepareMove
<1>3. \A result, switches : PrepareEdit(result, switches)
        => Dated(plan') /\ UNCHANGED <<q, rev, nextRev, loaded, mode, stash>>
  BY <1>1 DEF PrepareEdit
<1>4. \A removal : PrepareRemoval(removal)
        => Dated(plan') /\ UNCHANGED <<q, rev, nextRev, loaded, mode, stash>>
  BY <1>1, <1>3 DEF PrepareRemoval
<1>5. CASE \E move \in TrackMoves \ {"MoveTo"} : PrepareMove(move, 1)
  BY <1>2, <1>5
<1>6. CASE \E pos \in DOMAIN q.order : PrepareMove("MoveTo", pos)
  BY <1>2, <1>6
<1>7. CASE PrepareReplace
  BY <1>3, <1>7 DEF PrepareReplace
<1>8. CASE PreparePlayNow
  BY <1>3, <1>8 DEF PreparePlayNow
<1>9. CASE PrepareIdleEnqueue
  BY <1>3, <1>9 DEF PrepareIdleEnqueue
<1>10. CASE PrepareRemove
  BY <1>4, <1>10 DEF PrepareRemove
<1>11. CASE PreparePurge
  BY <1>4, <1>11 DEF PreparePurge
<1>12. CASE PrepareModeSwitch
  BY <1>3, <1>12 DEF PrepareModeSwitch
<1>13. CASE PrepareStop
  BY <1>1, <1>13 DEF PrepareStop
<1> QED
  BY <1>5, <1>6, <1>7, <1>8, <1>9, <1>10, <1>11, <1>12, <1>13 DEF PrepareTransition

LEMMA AdmitMintsOrKeeps ==
  ASSUME Admit
  PROVE  (Minted \/ Untouched) /\ plan' = None
<1>1. CASE plan.edits
  BY <1>1, CommitMints DEF Admit
<1>2. CASE ~plan.edits /\ plan.target # NoPos
  BY <1>2, KeepCursor DEF Admit
<1>3. CASE ~plan.edits /\ ~(plan.target # NoPos)
  BY <1>3, KeepAll DEF Admit
<1> QED
  BY <1>1, <1>2, <1>3 DEF Admit

LEMMA AdmitModes ==
  ASSUME GuardInv, Admit
  PROVE  mode' \in Modes
  BY DEF Admit, GuardInv, Modes, OtherMode

-----------------------------------------------------------------------------

LEMMA GuardInvInit == TrackInit => GuardInv
  BY DEF TrackInit, GuardInv, Revisions, PlanIsDated, Modes

LEMMA GuardInvStep ==
  ASSUME GuardInv, [TrackNext]_trackVars
  PROVE  GuardInv'
<1>1. Minted \/ Untouched => Revisions'
  BY DEF GuardInv, Revisions, Minted, Untouched
<1>2. (Minted \/ Untouched) /\ plan' = plan => PlanIsDated'
  <2>1. ASSUME Minted, plan' = plan PROVE PlanIsDated'
    BY <2>1 DEF GuardInv, Revisions, PlanIsDated, Minted
  <2>2. ASSUME Untouched, plan' = plan PROVE PlanIsDated'
    BY <2>2 DEF GuardInv, PlanIsDated, Untouched, SameContents
  <2> QED
    BY <2>1, <2>2
<1>3. CASE PrepareTransition
  <2>1. Dated(plan') /\ UNCHANGED <<q, rev, nextRev, mode>>
    BY <1>3, PrepareIsDated
  <2>2. Revisions' /\ mode' \in Modes
    BY <2>1 DEF GuardInv, Revisions
  <2>3. PlanIsDated'
    BY <2>1 DEF PlanIsDated, Dated, SameContents, GuardInv, Revisions
  <2> QED
    BY <2>2, <2>3 DEF GuardInv
<1>4. CASE Admit
  BY <1>1, <1>4, AdmitMintsOrKeeps, AdmitModes DEF GuardInv, PlanIsDated
<1>5. CASE Reject
  BY <1>5 DEF Reject, GuardInv, Revisions, PlanIsDated
<1>6. CASE EagerEdit
  BY <1>1, <1>2, <1>6, EditMintsOrKeeps DEF GuardInv
<1>7. CASE UNCHANGED trackVars
  BY <1>7 DEF trackVars, GuardInv, Revisions, PlanIsDated, SameContents
<1> QED
  BY <1>3, <1>4, <1>5, <1>6, <1>7 DEF TrackNext

\* What the scalars of the guard say under the invariant.
LEMMA GuardSeesQueue ==
  ASSUME GuardInv, plan # None, GuardHolds(plan)
  PROVE  /\ SameContents(q, plan.base)
         /\ q.cursor = plan.base.cursor
         /\ plan.edits => q.repeat = plan.base.repeat
  BY DEF GuardInv, PlanIsDated, GuardHolds

LEMMA GuardIsExact == GuardInv => PlanGuardIsExact
<1> SUFFICES ASSUME GuardInv, plan # None, GuardHolds(plan)
             PROVE  /\ SameQueue(WithRepeat(q, plan.base.repeat), plan.base)
                    /\ plan.edits => SameQueue(q, plan.base)
  BY DEF PlanGuardIsExact
<1> QED
  BY GuardSeesQueue DEF SameQueue, SameContents, WithRepeat

\* A plan whose guard holds was prepared from this very queue: the four
\* scalars that planned_transition_matches and mutation_matches compare
\* identify tracks, play order and shuffle (PlanGuardIsExact).
THEOREM PlanGuardExact == TrackSpec => []PlanGuardIsExact
<1>1. TrackSpec => []GuardInv
  BY GuardInvInit, GuardInvStep, PTL DEF TrackSpec
<1> QED
  BY <1>1, GuardIsExact, PTL

\* The queue a mode switch stashes, a snapshot taken when the switch was asked
\* for (ModeSwitchPlan::outgoing_queue), is the live queue at its commit.
THEOREM SwitchKeepsQueue == TrackSpec => SwitchKeepsLiveQueue
<1>1. TrackSpec => []GuardInv
  BY GuardInvInit, GuardInvStep, PTL DEF TrackSpec
<1>2. ASSUME GuardInv, [TrackNext]_trackVars
      PROVE  [mode' # mode => SameQueue(stash'[mode], q)]_trackVars
  <2> SUFFICES ASSUME mode' # mode
               PROVE  SameQueue(stash'[mode], q)
    OBVIOUS
  <2>1. Admit
    <3>1. ~PrepareTransition
      BY PrepareIsDated
    <3>2. ~Reject /\ ~UNCHANGED trackVars
      BY DEF Reject, trackVars
    <3>3. ~EagerEdit
      BY EditMintsOrKeeps
    <3> QED
      BY <1>2, <3>1, <3>2, <3>3 DEF TrackNext
  <2>2. plan.switches /\ stash'[mode] = plan.base
    BY <1>2, <2>1 DEF Admit, GuardInv
  <2>3. plan.edits /\ GuardHolds(plan) /\ plan # None
    BY <1>2, <2>1, <2>2 DEF Admit, GuardInv, PlanIsDated
  <2> QED
    BY <1>2, <2>2, <2>3, GuardSeesQueue DEF SameQueue, SameContents
<1> QED
  BY <1>1, <1>2, PTL DEF TrackSpec, SwitchKeepsLiveQueue

-----------------------------------------------------------------------------
(* What plays is what the queue shows. *)

\* A plan's result is a sound queue, and its song is what that queue shows.
PlanIsSound(p) ==
  /\ Sound(p.base)
  /\ p.edits => Sound(p.result) /\ p.song \in {NoSong, Current(p.result)}
  /\ ~p.edits => \/ p.song = NoSong
                 \/ p.target # NoPos /\ p.song = SongAt(p.base, p.target)

PlayInv ==
  /\ Sound(q)
  /\ plan # None => PlanIsSound(plan)
  /\ \A m \in Modes : stash[m] # None => stash[m] \in Queues
  /\ LoadedIsCurrent

\* Where playback starts in c, or that it ends.
IsOutcome(c, outcome) ==
  /\ outcome.target \in 1..Size(c) \cup {NoPos}
  /\ outcome.kind = "Load" => outcome.target \in 1..Size(c)

LEMMA OutcomeIs ==
  ASSUME NEW c, Sound(c), NEW first \in 1..Size(c) \cup {NoPos}
  PROVE  IsOutcome(c, Outcome(c, first))
<1>1. CASE first = NoPos
  <2>1. Outcome(c, first) = [kind |-> "End", target |-> NoPos]
    BY <1>1 DEF Outcome
  <2> QED
    BY <2>1 DEF IsOutcome
<1>2. CASE first # NoPos
  <2>1. Outcome(c, first) = FirstPlayable(c, first)
    BY <1>2 DEF Outcome
  <2> QED
    BY <1>2, <2>1, FirstPlayableIs DEF IsOutcome
<1> QED
  BY <1>1, <1>2

LEMMA PlanForIsSound ==
  ASSUME Sound(q), NEW result, Sound(result), NEW outcome, IsOutcome(result, outcome),
         NEW edits \in BOOLEAN, ~edits => result = q,
         NEW move, NEW pos, NEW switches
  PROVE  PlanIsSound(PlanFor(result, outcome, edits, move, pos, switches))
<1> DEFINE p == PlanFor(result, outcome, edits, move, pos, switches)
<1>1. /\ p.base = q /\ p.edits = edits /\ p.target = outcome.target
      /\ p.result = IF outcome.target = NoPos THEN result ELSE AtCursor(result, outcome.target)
      /\ p.song = IF outcome.kind = "Load" THEN SongAt(result, outcome.target) ELSE NoSong
  BY DEF PlanFor
<1> HIDE DEF p
<1>2. Size(result) = Len(result.songs)
  BY SoundIs
<1>3. Sound(p.result)
  BY <1>1, <1>2, CursorSound DEF IsOutcome
<1>4. outcome.kind = "Load" => outcome.target # NoPos
  <2>1. Size(result) \in Nat
    BY SoundIs
  <2> QED
    BY <2>1 DEF IsOutcome, NoPos
<1>5. outcome.kind = "Load" => p.song = Current(p.result)
  BY <1>1, <1>4, CursorShows
<1>6. edits => p.song \in {NoSong, Current(p.result)}
  BY <1>1, <1>5
<1>7. ~edits => p.song = NoSong \/ (p.target # NoPos /\ p.song = SongAt(p.base, p.target))
  BY <1>1, <1>4
<1> QED
  BY <1>1, <1>3, <1>6, <1>7 DEF PlanIsSound, p

LEMMA FirstCursorIs ==
  ASSUME NEW c, Sound(c), NEW move \in TrackMoves, NEW pos
  PROVE  FirstCursor(c, move, pos) \in 1..Size(c) \cup {NoPos}
<1>1. DOMAIN c.order = 1..Size(c)
  BY SoundIs
<1>2. CASE move = "Next" \/ move = "AutoNext" \/ move = "Previous"
  <2>1. FirstCursor(c, move, pos) \in
          {PlanNext(c, c.cursor, FALSE), PlanNext(c, c.cursor, TRUE), PlanPrev(c, c.cursor)}
    BY <1>2 DEF FirstCursor
  <2>2. CASE c.cursor \in 1..Size(c)
    BY <2>1, <2>2, PlanIsPosition
  <2>3. CASE c.cursor \notin 1..Size(c)
    <3>1. PlanNext(c, c.cursor, FALSE) = NoPos /\ PlanNext(c, c.cursor, TRUE) = NoPos
          /\ PlanPrev(c, c.cursor) = NoPos
      BY <1>1, <2>3 DEF PlanNext, PlanPrev
    <3> QED
      BY <2>1, <3>1
  <2> QED
    BY <2>2, <2>3
<1>3. CASE move = "Stay"
  <2>1. FirstCursor(c, move, pos) = IF Current(c) = NoSong THEN NoPos ELSE c.cursor
    BY <1>3 DEF FirstCursor
  <2> QED
    BY <2>1, CurrentIs
<1>4. CASE move = "MoveTo"
  <2>1. FirstCursor(c, move, pos) = IF pos \in DOMAIN c.order THEN pos ELSE NoPos
    BY <1>4 DEF FirstCursor
  <2> QED
    BY <1>1, <2>1
<1> QED
  BY <1>2, <1>3, <1>4 DEF TrackMoves

\* What is prepared is sound.
LEMMA PrepareIsSound ==
  ASSUME Sound(q), \A m \in Modes : stash[m] # None => stash[m] \in Queues,
         mode \in Modes, PrepareTransition
  PROVE  PlanIsSound(plan')
<1>1. ASSUME NEW move \in TrackMoves, NEW pos, PrepareMove(move, pos)
      PROVE  PlanIsSound(plan')
  <2> DEFINE outcome == Outcome(q, FirstCursor(q, move, pos))
  <2>1. IsOutcome(q, outcome)
    BY FirstCursorIs, OutcomeIs
  <2>2. plan' = PlanFor(q, outcome, FALSE, move, pos, FALSE)
    BY <1>1 DEF PrepareMove, Prepare
  <2> HIDE DEF outcome
  <2> QED
    BY <2>1, <2>2, PlanForIsSound
<1>2. ASSUME NEW result, Sound(result), NEW switches, PrepareEdit(result, switches)
      PROVE  PlanIsSound(plan')
  <2> DEFINE first == IF result.songs = <<>> THEN NoPos ELSE result.cursor
             outcome == Outcome(result, first)
  <2>1. first \in 1..Size(result) \cup {NoPos}
    BY <1>2, SoundIs, CurrentIs
  <2> HIDE DEF first
  <2>2. IsOutcome(result, outcome)
    BY <1>2, <2>1, OutcomeIs
  <2>3. plan' = PlanFor(result, outcome, TRUE, "Edit", 1, switches)
    BY <1>2 DEF PrepareEdit, Prepare, first
  <2> HIDE DEF outcome
  <2> QED
    BY <1>2, <2>2, <2>3, PlanForIsSound
<1>3. ASSUME NEW removal, Sound(removal.queue), PrepareRemoval(removal)
      PROVE  PlanIsSound(plan')
  <2>1. CASE PrepareEdit(removal.queue, FALSE)
    BY <1>2, <1>3, <2>1
  <2>2. CASE Prepare(PlanFor(removal.queue, [kind |-> "End", target |-> NoPos],
                             TRUE, "Edit", 1, FALSE))
    <3> DEFINE outcome == [kind |-> "End", target |-> NoPos]
    <3>1. IsOutcome(removal.queue, outcome)
      BY DEF IsOutcome
    <3>2. plan' = PlanFor(removal.queue, outcome, TRUE, "Edit", 1, FALSE)
      BY <2>2 DEF Prepare
    <3> HIDE DEF outcome
    <3> QED
      BY <1>3, <3>1, <3>2, PlanForIsSound
  <2> QED
    BY <1>3, <2>1, <2>2 DEF PrepareRemoval
<1>4. DOMAIN q.order = 1..Size(q) /\ Size(q) \in Nat
  BY SoundIs
<1>5. CASE \E move \in TrackMoves \ {"MoveTo"} : PrepareMove(move, 1)
  BY <1>1, <1>5
<1>6. CASE \E pos \in DOMAIN q.order : PrepareMove("MoveTo", pos)
  BY <1>1, <1>6 DEF TrackMoves
<1>7. CASE PrepareReplace
  <2>1. PICK songs \in Blocks, override \in {"keep", "on", "off"} :
          \E start \in 1..Max({1, Len(songs)}) :
            \E c \in Replacement(q, songs, start, override) : PrepareEdit(c, FALSE)
    BY <1>7 DEF PrepareReplace
  <2>2. PICK start \in 1..Max({1, Len(songs)}) :
          \E c \in Replacement(q, songs, start, override) : PrepareEdit(c, FALSE)
    BY <2>1
  <2>3. PICK c \in Replacement(q, songs, start, override) : PrepareEdit(c, FALSE)
    BY <2>2
  <2>4. songs \in Seq(VideoIds) /\ Len(songs) \in Nat
    BY BlockIs
  <2>5. Max({1, Len(songs)}) \in Nat
    BY <2>4, MaxPair
  <2>6. start \in Nat /\ 1 <= start
    BY <2>5
  <2>7. Sound(c)
    BY <2>4, <2>6, ReplacementIs
  <2> QED
    BY <1>2, <2>3, <2>7
<1>8. CASE PreparePlayNow
  <2>1. PICK more \in Blocks : PrepareEdit(PlayNow(q, more), FALSE)
    BY <1>8 DEF PreparePlayNow
  <2>2. Sound(PlayNow(q, more))
    BY BlockIs, PlayNowIs
  <2> QED
    BY <1>2, <2>1, <2>2
<1>9. CASE PrepareIdleEnqueue
  <2>1. PICK more \in Blocks : \E c \in Extend(q, more) :
          Fitting(q, more) # <<>> /\ PrepareEdit(AtCursor(c, Size(q) + 1), FALSE)
    BY <1>9 DEF PrepareIdleEnqueue
  <2>2. PICK c \in Extend(q, more) :
          Fitting(q, more) # <<>> /\ PrepareEdit(AtCursor(c, Size(q) + 1), FALSE)
    BY <2>1
  <2>3. more \in Seq(VideoIds)
    BY BlockIs
  <2>4. Sound(c) /\ Size(c) = Size(q) + Len(Fitting(q, more))
    BY <2>3, ExtendIs
  <2>5. Len(c.songs) = Size(c)
    BY <2>4, SoundIs
  <2>6. Len(Fitting(q, more)) \in Nat \ {0}
    BY <2>2, <2>3, SizeGrows
  <2>7. Size(q) + 1 \in 1..Len(c.songs)
    BY <1>4, <2>4, <2>5, <2>6
  <2>8. Sound(AtCursor(c, Size(q) + 1))
    BY <2>4, <2>7, CursorSound
  <2> QED
    BY <1>2, <2>2, <2>8
<1>10. CASE PrepareRemove
  <2>1. PICK lo \in 1..Size(q), hi \in 1..Size(q) :
          lo <= hi /\ PrepareRemoval(RemoveRange(q, lo, hi))
    BY <1>4, <1>10 DEF PrepareRemove
  <2>2. Sound(RemoveRange(q, lo, hi).queue)
    BY <2>1, RemoveRangeIs
  <2> QED
    BY <1>3, <2>1, <2>2
<1>11. CASE PreparePurge
  <2>1. PICK ids \in SUBSET VideoIds :
          /\ \E pos \in DOMAIN q.order : SongAt(q, pos) \in ids
          /\ PrepareRemoval(Purge(q, ids))
    BY <1>11 DEF PreparePurge
  <2>2. Purged(q, ids) # {}
    BY <2>1 DEF Purged
  <2>3. Sound(Purge(q, ids).queue)
    BY <2>2, PurgeIs
  <2> QED
    BY <1>3, <2>1, <2>3
<1>12. CASE PrepareModeSwitch
  <2> DEFINE target == stash[OtherMode(mode)]
             from == IF target = None THEN EmptyQueue ELSE target
  <2>1. PICK c \in RestoreSnapshot(q, from) : PrepareEdit(c, TRUE)
    BY <1>12 DEF PrepareModeSwitch
  <2>2. OtherMode(mode) \in Modes
    BY DEF OtherMode, Modes
  <2>3. EmptyQueue \in Queues
    BY EmptyIsSound DEF Sound
  <2>4. from \in Queues
    BY <2>2, <2>3
  <2> HIDE DEF from
  <2>5. Sound(c)
    BY <2>4, RestoreIs
  <2> QED
    BY <1>2, <2>1, <2>5
<1>13. CASE PrepareStop
  <2> DEFINE outcome == [kind |-> "Stop",
                         target |-> IF Current(q) = NoSong THEN NoPos ELSE q.cursor]
  <2>1. plan' = PlanFor(q, outcome, FALSE, "Stop", 1, FALSE)
    BY <1>13 DEF PrepareStop, Prepare
  <2>2. IsOutcome(q, outcome)
    BY CurrentIs DEF IsOutcome
  <2> HIDE DEF outcome
  <2> QED
    BY <2>1, <2>2, PlanForIsSound
<1> QED
  BY <1>5, <1>6, <1>7, <1>8, <1>9, <1>10, <1>11, <1>12, <1>13 DEF PrepareTransition

\* The edits that take effect at once leave the current track alone.
LEMMA EagerKeepsCurrent ==
  ASSUME Sound(q), Size(q) # 0, EagerEdit
  PROVE  Current(q') = Current(q)
<1>0. DOMAIN q.order = 1..Size(q) /\ Size(q) \in Nat /\ q.cursor \in 1..Size(q)
  BY SoundIs, CurrentIs
<1>1. CASE ExtendTracks
  <2>1. PICK more \in Blocks : \E c \in Extend(q, more) : Fitting(q, more) # <<>> /\ q' = c
    BY <1>1 DEF ExtendTracks, Commit
  <2>2. more \in Seq(VideoIds)
    BY BlockIs
  <2>3. Len(Fitting(q, more)) \in Nat \ {0}
    BY <2>1, <2>2, SizeGrows
  <2>4. /\ Sound(q') /\ Size(q') = Size(q) + Len(Fitting(q, more)) /\ q'.cursor = q.cursor
        /\ \A i \in 1..Size(q) : Ordered(q')[i] = Ordered(q)[i]
    BY <2>1, <2>2, ExtendIs
  <2> QED
    BY <1>0, <2>3, <2>4, SameTrackShown
<1>2. CASE InsertNextTracks
  <2>1. PICK more \in Blocks : Fitting(q, more) # <<>> /\ q' = InsertAfterCurrent(q, more)
    BY <1>2 DEF InsertNextTracks, Commit
  <2>2. more \in Seq(VideoIds)
    BY BlockIs
  <2>3. Len(Fitting(q, more)) \in Nat \ {0}
    BY <2>1, <2>2, SizeGrows
  <2>4. /\ Sound(q') /\ Size(q') = Size(q) + Len(Fitting(q, more)) /\ q'.cursor = q.cursor
        /\ \A i \in 1..q.cursor : Ordered(q')[i] = Ordered(q)[i]
    BY <2>1, <2>2, InsertAfterIs
  <2> QED
    BY <1>0, <2>3, <2>4, SameTrackShown
<1>3. CASE MoveTrack
  <2>1. PICK from \in 1..Size(q), to \in 1..Size(q) : q' = MoveItem(q, from, to)
    BY <1>0, <1>3 DEF MoveTrack, Commit
  <2>2. Sound(q') /\ Size(q') = Size(q) /\ Ordered(q')[q'.cursor] = Ordered(q)[q.cursor]
    BY <2>1, MoveItemIs
  <2> QED
    BY <2>2, SameTrackShown
<1>4. CASE DropUpcoming
  <2>1. q.cursor < Size(q) /\ q' = ClearUpcoming(q)
    BY <1>4 DEF DropUpcoming, Commit
  <2>2. Sound(q') /\ Cut(q, q', (q.cursor + 1)..Size(q))
    BY <2>1, ClearUpcomingIs
  <2>3. q.cursor \notin (q.cursor + 1)..Size(q)
    BY <1>0
  <2>4. Size(q') # 0 /\ Ordered(q')[q'.cursor] = Ordered(q)[q.cursor]
    BY <2>2, <2>3, CutKeepsCurrent
  <2> QED
    BY <2>2, <2>4, SameTrackShown
<1>5. CASE ChangeShuffle
  <2>1. PICK c \in SetShuffle(q, ~q.shuffle) : q' = c
    BY <1>5 DEF ChangeShuffle, Commit
  <2>2. (~q.shuffle) \in BOOLEAN
    OBVIOUS
  <2>3. Sound(q') /\ Size(q') = Size(q) /\ Ordered(q')[q'.cursor] = Ordered(q)[q.cursor]
    BY <2>1, <2>2, SetShuffleIs
  <2> QED
    BY <2>3, SameTrackShown
<1>6. CASE ChangeRepeat
  <2>1. PICK m \in Repeats : q' = WithRepeat(q, m)
    BY <1>6 DEF ChangeRepeat, Keep
  <2> QED
    BY <2>1, RepeatSound
<1>7. CASE EagerRemove
  <2>1. PICK lo \in 1..Size(q), hi \in 1..Size(q) :
          /\ lo <= hi
          /\ RemoveRange(q, lo, hi).playback = "Unchanged"
          /\ q' = RemoveRange(q, lo, hi).queue
    BY <1>0, <1>7 DEF EagerRemove, Commit
  <2>2. Sound(q') /\ Cut(q, q', lo..hi) /\ q.cursor \notin lo..hi
    BY <2>1, RemoveRangeIs
  <2>3. Size(q') # 0 /\ Ordered(q')[q'.cursor] = Ordered(q)[q.cursor]
    BY <2>2, CutKeepsCurrent
  <2> QED
    BY <2>2, <2>3, SameTrackShown
<1>8. CASE EagerPurge
  <2>1. PICK ids \in SUBSET VideoIds :
          /\ \E pos \in DOMAIN q.order : SongAt(q, pos) \in ids
          /\ Purge(q, ids).playback = "Unchanged"
          /\ q' = Purge(q, ids).queue
    BY <1>8 DEF EagerPurge, Commit
  <2>2. Purged(q, ids) # {}
    BY <2>1 DEF Purged
  <2>3. Sound(q') /\ Cut(q, q', Purged(q, ids)) /\ q.cursor \notin Purged(q, ids)
    BY <2>1, <2>2, PurgeIs
  <2>4. Size(q') # 0 /\ Ordered(q')[q'.cursor] = Ordered(q)[q.cursor]
    BY <2>3, CutKeepsCurrent
  <2> QED
    BY <2>3, <2>4, SameTrackShown
<1> QED
  BY <1>1, <1>2, <1>3, <1>4, <1>5, <1>6, <1>7, <1>8 DEF EagerEdit

LEMMA EagerIsSound ==
  ASSUME Sound(q), EagerEdit
  PROVE  Sound(q')
<1>1. CASE EagerRemove
  <2>1. RemoveTracks
    BY <1>1 DEF EagerRemove, RemoveTracks
  <2> QED
    BY <2>1, RemoveSteps DEF Removing
<1>2. CASE EagerPurge
  <2>1. PurgeTracks
    BY <1>2 DEF EagerPurge, PurgeTracks
  <2> QED
    BY <2>1, RemoveSteps DEF Removing
<1>3. CASE ~EagerRemove /\ ~EagerPurge
  <2>1. Next
    BY <1>3 DEF EagerEdit, Next, Inserting, Removing, Arranging
  <2> QED
    BY <2>1, SoundStep
<1> QED
  BY <1>1, <1>2, <1>3

LEMMA AdmitIsSound ==
  ASSUME PlayInv, GuardInv, Admit
  PROVE  Sound(q') /\ (loaded' # NoSong => loaded' = Current(q'))
<1>1. /\ Sound(q) /\ PlanIsSound(plan) /\ GuardHolds(plan) /\ loaded' = plan.song
      /\ SameContents(q, plan.base)
  BY GuardSeesQueue DEF PlayInv, Admit
<1>2. CASE plan.edits
  <2>1. q' = plan.result
    BY <1>2 DEF Admit, Commit
  <2> QED
    BY <1>1, <1>2, <2>1 DEF PlanIsSound
<1>3. CASE ~plan.edits /\ plan.target # NoPos
  <2>1. q' = AtCursor(q, plan.target) /\ plan.target \in DOMAIN q.order
    BY <1>1, <1>3 DEF Admit, Keep, GuardHolds
  <2>2. DOMAIN q.order = 1..Len(q.songs)
    BY <1>1, SoundIs
  <2>3. Sound(q')
    BY <1>1, <2>1, <2>2, CursorSound
  <2>4. Current(q') = SongAt(q, plan.target)
    BY <2>1, CursorShows
  <2>5. SongAt(q, plan.target) = SongAt(plan.base, plan.target)
    BY <1>1 DEF SameContents, SongAt
  <2>6. plan.song = NoSong \/ plan.song = SongAt(plan.base, plan.target)
    BY <1>1, <1>3 DEF PlanIsSound
  <2> QED
    BY <1>1, <2>3, <2>4, <2>5, <2>6
<1>4. CASE ~plan.edits /\ ~(plan.target # NoPos)
  <2>1. q' = q
    BY <1>4 DEF Admit, Keep
  <2>2. plan.song = NoSong
    BY <1>1, <1>4 DEF PlanIsSound
  <2> QED
    BY <1>1, <2>1, <2>2
<1> QED
  BY <1>2, <1>3, <1>4

LEMMA PlayInvInit == TrackInit => PlayInv
<1> SUFFICES ASSUME TrackInit PROVE PlayInv
  OBVIOUS
<1>1. EmptyQueue \in Queues /\ Sound(EmptyQueue) /\ Snapshots \subseteq Queues
  BY EmptyIsSound, QueueAssumption DEF Sound
<1>2. Sound(q)
  <2>1. CASE q = EmptyQueue
    BY <1>1, <2>1
  <2>2. CASE \E snapshot \in Snapshots : q \in RestoreSnapshot(EmptyQueue, snapshot)
    BY <1>1, <2>2, RestoreIs
  <2> QED
    BY <2>1, <2>2 DEF TrackInit
<1>3. \A m \in Modes : stash[m] # None => stash[m] \in Queues
  BY <1>1 DEF TrackInit
<1> QED
  BY <1>2, <1>3 DEF TrackInit, PlayInv, LoadedIsCurrent

LEMMA PlayInvIf ==
  ASSUME Sound(q'), plan' # None => PlanIsSound(plan'),
         \A m \in Modes : stash'[m] # None => stash'[m] \in Queues,
         loaded' # NoSong => loaded' = Current(q')
  PROVE  PlayInv'
<1>1. Sound(q)' <=> Sound(q')
  BY DEF Sound, Queues, IsPermutation
<1>2. LoadedIsCurrent' <=> (loaded' # NoSong => loaded' = Current(q'))
  BY DEF LoadedIsCurrent, Current, SongAt
<1>3. PlanIsSound(plan)' <=> PlanIsSound(plan')
  BY DEF PlanIsSound, Current, SongAt, Sound, Queues, IsPermutation
<1>4. (\A m \in Modes : stash[m] # None => stash[m] \in Queues)'
        <=> \A m \in Modes : stash'[m] # None => stash'[m] \in Queues
  BY DEF Modes, Queues
<1> QED
  BY <1>1, <1>2, <1>3, <1>4 DEF PlayInv

LEMMA PlayInvStep ==
  ASSUME PlayInv, GuardInv, [TrackNext]_trackVars
  PROVE  PlayInv'
<1>0. /\ Sound(q) /\ mode \in Modes
      /\ loaded # NoSong => loaded = Current(q)
      /\ \A m \in Modes : stash[m] # None => stash[m] \in Queues
      /\ plan # None => PlanIsSound(plan)
  BY DEF PlayInv, GuardInv, LoadedIsCurrent
<1>1. CASE PrepareTransition
  <2>1. UNCHANGED <<q, loaded, stash>>
    BY <1>1, PrepareIsDated
  <2>2. PlanIsSound(plan')
    BY <1>0, <1>1, PrepareIsSound
  <2> QED
    BY <1>0, <2>1, <2>2, PlayInvIf
<1>2. CASE Admit
  <2>1. Sound(q') /\ (loaded' # NoSong => loaded' = Current(q'))
    BY <1>2, AdmitIsSound
  <2>2. plan' = None
    BY <1>2 DEF Admit
  <2>3. \A m \in Modes : stash'[m] # None => stash'[m] \in Queues
    <3>1. CASE plan.switches
      <4>1. stash' = [m \in Modes |-> IF m = mode THEN plan.base ELSE None]
        BY <1>2, <3>1 DEF Admit
      <4>2. plan.base \in Queues
        BY <1>0, <1>2 DEF Admit, PlanIsSound, Sound
      <4> QED
        BY <4>1, <4>2
    <3>2. CASE ~plan.switches
      BY <1>0, <1>2, <3>2 DEF Admit
    <3> QED
      BY <3>1, <3>2
  <2> QED
    BY <2>1, <2>2, <2>3, PlayInvIf
<1>3. CASE Reject
  <2>1. plan' = None /\ UNCHANGED <<q, loaded, stash>>
    BY <1>3 DEF Reject
  <2> QED
    BY <1>0, <2>1, PlayInvIf
<1>4. CASE EagerEdit
  <2>1. UNCHANGED <<plan, loaded, stash>>
    BY <1>4 DEF EagerEdit
  <2>2. Sound(q')
    BY <1>0, <1>4, EagerIsSound
  <2>3. loaded' # NoSong => loaded' = Current(q')
    <3> SUFFICES ASSUME loaded' # NoSong PROVE loaded' = Current(q')
      OBVIOUS
    <3>1. loaded = Current(q) /\ Current(q) # NoSong /\ loaded' = loaded
      BY <1>0, <2>1
    <3>2. Size(q) # 0
      BY <1>0, <3>1, CurrentIs
    <3> QED
      BY <1>0, <1>4, <3>1, <3>2, EagerKeepsCurrent
  <2> QED
    BY <1>0, <2>1, <2>2, <2>3, PlayInvIf
<1>5. CASE UNCHANGED trackVars
  <2>1. UNCHANGED <<q, plan, loaded, stash>>
    BY <1>5 DEF trackVars
  <2> QED
    BY <1>0, <2>1, PlayInvIf
<1> QED
  BY <1>1, <1>2, <1>3, <1>4, <1>5 DEF TrackNext

\* What plays is the track the queue shows as current: whatever was edited
\* between preparing a plan and the reducer's commit of it, and although edits
\* that need no player command never look at what is loaded.
THEOREM LoadedTrackIsShown == TrackSpec => []LoadedIsCurrent
<1>1. TrackSpec => []GuardInv
  BY GuardInvInit, GuardInvStep, PTL DEF TrackSpec
<1>2. TrackSpec => []PlayInv
  BY <1>1, PlayInvInit, PlayInvStep, PTL DEF TrackSpec
<1>3. PlayInv => LoadedIsCurrent
  BY DEF PlayInv
<1> QED
  BY <1>2, <1>3, PTL
=============================================================================
