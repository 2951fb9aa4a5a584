------------------------------ MODULE PlayQueue ------------------------------
(***************************************************************************)
(* queue.rs and queue/mutation.rs: the play queue that the terminal App    *)
(* and the daemon engine each own one of.  A queue keeps its tracks in the *)
(* order they were added, a permutation of their indices that is the play  *)
(* order, and a cursor into that permutation; every edit has to keep the   *)
(* three in step.  Positions are one more than the code's, and the cursor  *)
(* of an empty queue, 0 in the code, is 1.  The shuffle is a               *)
(* nondeterministic choice: operators that draw from the RNG return the    *)
(* set of the queues they may leave.                                       *)
(*                                                                         *)
(* A track is its video id; tracks with one id may be queued twice.        *)
(***************************************************************************)
EXTENDS Naturals, Sequences, FiniteSets, SequencesExt

CONSTANTS
  VideoIds,
  Playable,         \* the ids whose playback URL the load accepts
  Blocks,           \* the track lists that callers hand over
  Snapshots,        \* persisted queues, possibly corrupt
  NoSong,           \* Option::None of a video id
  MaxLen,           \* MAX_QUEUE_LEN
  MaxRev            \* bound of the exploration: the last revision minted

Repeats == {"Off", "All", "One"}
NoPos == 0          \* Option::None of a position
Queues == [songs : Seq(VideoIds), order : Seq(Nat), cursor : Nat \ {0},
           shuffle : BOOLEAN, repeat : Repeats]

ASSUME QueueAssumption ==
  /\ Playable \subseteq VideoIds
  /\ NoSong \notin VideoIds
  /\ Blocks \subseteq Seq(VideoIds)
  /\ Snapshots \subseteq Queues
  /\ MaxLen \in Nat \ {0}
  /\ MaxRev \in Nat

VARIABLES
  q,                \* Queue without its rev and RNG
  rev,              \* Queue::rev
  nextRev           \* QUEUE_REV, the process-wide revision source

queueVars == <<q, rev, nextRev>>

-----------------------------------------------------------------------------
(* Reading a queue. *)

EmptyQueue ==
  [songs |-> <<>>, order |-> <<>>, cursor |-> 1, shuffle |-> FALSE, repeat |-> "Off"]

Size(c) == Len(c.order)

SongAt(c, pos) == IF pos \in DOMAIN c.order THEN c.songs[c.order[pos]] ELSE NoSong

Current(c) == SongAt(c, c.cursor)

AtCursor(c, pos) ==
  [songs |-> c.songs, order |-> c.order, cursor |-> pos,
   shuffle |-> c.shuffle, repeat |-> c.repeat]

WithRepeat(c, mode) ==
  [songs |-> c.songs, order |-> c.order, cursor |-> c.cursor,
   shuffle |-> c.shuffle, repeat |-> mode]

\* The tracks in play order.
Ordered(c) == [pos \in DOMAIN c.order |-> c.songs[c.order[pos]]]

\* Variant: the last track counts as the end.
PlanNextStopsEarly(c, from, auto) ==
  IF from \notin DOMAIN c.order THEN NoPos
  ELSE IF auto /\ c.repeat = "One" THEN from
  ELSE IF from + 1 < Size(c) THEN from + 1
  ELSE IF c.repeat = "All" THEN 1 ELSE NoPos

PlanNext(c, from, auto) ==
  IF from \notin DOMAIN c.order THEN NoPos
  ELSE IF auto /\ c.repeat = "One" THEN from
  ELSE IF from < Size(c) THEN from + 1
  ELSE IF c.repeat = "All" THEN 1 ELSE NoPos

PlanPrev(c, from) ==
  IF from \notin DOMAIN c.order THEN NoPos
  ELSE IF from > 1 THEN from - 1
  ELSE IF c.repeat = "All" THEN Size(c) ELSE from

\* The positions a walk of manual nexts visits, one pass at most.
Walk(c, from) ==
  [i \in 1..(IF c.repeat = "All" THEN Size(c) ELSE Size(c) + 1 - from) |->
     ((from + i - 2) % Size(c)) + 1]

\* The first track on the walk that loads; if none does, playback ends with
\* the cursor on the last one examined.
FirstPlayable(c, from) ==
  LET walk == Walk(c, from)
      hits == {i \in DOMAIN walk : SongAt(c, walk[i]) \in Playable}
  IN IF hits = {}
       THEN [kind |-> "End", target |-> walk[Len(walk)]]
       ELSE [kind |-> "Load", target |-> walk[Min(hits)]]

-----------------------------------------------------------------------------
(* Editing a queue.  None of these operators mints a revision. *)

Fitting(c, more) == SubSeq(more, 1, Min({Len(more), MaxLen - Len(c.songs)}))

\* The indices the fitting part of a block gets.
NewIndices(c, more) ==
  [i \in 1..Len(Fitting(c, more)) |-> Len(c.songs) + i]

\* The orders that index i first in, when a shuffle may follow.
Shuffled(c, indices) ==
  IF c.shuffle THEN SetToSeqs(ToSet(indices)) ELSE {indices}

Extend(c, more) ==
  {[c EXCEPT !.songs = @ \o Fitting(c, more), !.order = @ \o block] :
     block \in Shuffled(c, NewIndices(c, more))}

InsertAfterCurrent(c, more) ==
  LET at == IF c.order = <<>> THEN 0 ELSE c.cursor
  IN [c EXCEPT !.songs = @ \o Fitting(c, more),
               !.order = SubSeq(@, 1, at) \o NewIndices(c, more)
                           \o SubSeq(@, at + 1, Len(@))]

\* play_now_many also makes the first inserted track current.
PlayNow(c, more) ==
  LET inserted == InsertAfterCurrent(c, more)
  IN IF c.order = <<>> \/ Fitting(c, more) = <<>>
       THEN inserted
       ELSE [inserted EXCEPT !.cursor = @ + 1]

RemovePos(c, pos) ==
  LET gone == c.order[pos]
      order == [i \in 1..(Size(c) - 1) |->
                  LET index == RemoveAt(c.order, pos)[i]
                  IN IF index > gone THEN index - 1 ELSE index]
      cursor == IF pos < c.cursor THEN c.cursor - 1 ELSE c.cursor
  IN [c EXCEPT !.songs = RemoveAt(@, gone), !.order = order,
               !.cursor = Max({1, Min({cursor, Len(order)})})]

\* The loops of the range removal and of the purge, highest position first:
\* left[i] is what is left once the last i positions have been visited.
RemoveRows(c, rows) ==
  LET left[i \in 0..Size(c)] ==
        IF i = 0 THEN c
        ELSE LET pos == Size(c) + 1 - i
             IN IF pos \in rows THEN RemovePos(left[i - 1], pos) ELSE left[i - 1]
  IN left[Size(c)]

\* Variant: a track dropped exactly on the current row does not push it down.
MoveItemOffByOne(c, from, to) ==
  [c EXCEPT
     !.order = InsertAt(RemoveAt(@, from), to, c.order[from]),
     !.cursor = CASE @ = from             -> to
                  [] from < @ /\ to >= @  -> @ - 1
                  [] from > @ /\ to < @   -> @ + 1
                  [] OTHER                -> @]

MoveItem(c, from, to) ==
  [c EXCEPT
     !.order = InsertAt(RemoveAt(@, from), to, c.order[from]),
     !.cursor = CASE @ = from             -> to
                  [] from < @ /\ to >= @  -> @ - 1
                  [] from > @ /\ to <= @  -> @ + 1
                  [] OTHER                -> @]

ClearUpcoming(c) == RemoveRows(c, (c.cursor + 1)..Size(c))

\* keep is an index into songs: it plays first, or keeps its natural place.
RebuildOrder(c, keep) ==
  LET indices == [i \in 1..Len(c.songs) |-> i]
  IN CASE c.songs = <<>> -> {[c EXCEPT !.order = <<>>, !.cursor = 1]}
       [] c.songs # <<>> /\ c.shuffle ->
            {[c EXCEPT !.order = o, !.cursor = 1] :
               o \in {p \in SetToSeqs(1..Len(c.songs)) : p[1] = keep}}
       [] OTHER ->
            {[c EXCEPT !.order = indices, !.cursor = Min({keep, Len(c.songs)})]}

SetShuffle(c, on) ==
  IF on = c.shuffle \/ c.order = <<>> THEN {[c EXCEPT !.shuffle = on]}
  ELSE RebuildOrder([c EXCEPT !.shuffle = on], c.order[c.cursor])

\* replace_without_revision: start is clamped into what fits.
Replaced(c, songs, start) ==
  LET kept == SubSeq(songs, 1, Min({Len(songs), MaxLen}))
  IN RebuildOrder([c EXCEPT !.songs = kept], Min({start, Max({1, Len(kept)})}))

\* prepare_replacement: an optional shuffle flag is applied afterwards.
Replacement(c, songs, start, override) ==
  IF override = "keep" THEN Replaced(c, songs, start)
  ELSE UNION {SetShuffle(r, override = "on") : r \in Replaced(c, songs, start)}

\* Variant: only the length and the bounds of the persisted order are checked.
IsPermutationByBounds(order, n) ==
  /\ Len(order) = n
  /\ \A i \in 1..n : order[i] \in 1..n

IsPermutation(order, n) ==
  /\ Len(order) = n
  /\ \A i \in 1..n : order[i] \in 1..n
  /\ \A i, j \in 1..n : order[i] = order[j] => i = j

RestoreSnapshot(c, snapshot) ==
  LET kept == SubSeq(snapshot.songs, 1, Min({Len(snapshot.songs), MaxLen}))
      n == Len(kept)
      restored == [snapshot EXCEPT !.songs = kept]
      cursor == Max({1, Min({snapshot.cursor, n})})
  IN IF IsPermutation(snapshot.order, n)
       THEN {[restored EXCEPT !.cursor = cursor]}
       ELSE RebuildOrder(restored, cursor)

-----------------------------------------------------------------------------
(* Removals that may take the playing track: the queue that remains and    *)
(* what playback has to do about it.                                       *)

SelectCursor(c, pos) == IF pos = NoPos THEN c ELSE AtCursor(c, pos)

RemoveRange(c, first, last) ==
  LET lo == Min({first, Size(c)})
      hi == Min({last, Size(c)})
      playback == IF c.cursor \notin lo..hi THEN "Unchanged"
                  ELSE IF hi < Size(c) \/ (lo > 1 /\ c.repeat = "All")
                    THEN "LoadSelected" ELSE "Stop"
      selected == IF playback # "LoadSelected" THEN NoPos
                  ELSE IF hi < Size(c) THEN lo ELSE 1
  IN [queue |-> SelectCursor(RemoveRows(c, lo..hi), selected), playback |-> playback]

Purge(c, ids) ==
  LET rows == {pos \in DOMAIN c.order : SongAt(c, pos) \in ids}
      heirs == {pos \in DOMAIN c.order \ rows : pos > c.cursor}
      playback == IF c.cursor \notin rows THEN "Unchanged"
                  ELSE IF heirs # {} \/ (rows # DOMAIN c.order /\ c.repeat = "All")
                    THEN "LoadSelected" ELSE "Stop"
      selected == IF playback # "LoadSelected" THEN NoPos
                  ELSE IF heirs # {}
                    THEN Min(heirs) - Cardinality({r \in rows : r < Min(heirs)})
                    ELSE 1
  IN [queue |-> SelectCursor(RemoveRows(c, rows), selected), playback |-> playback]

\* Variant: the daemon stops at the end of the queue even under repeat-all.
DaemonRemoveNoWrap(c, pos) ==
  LET selected == IF pos = c.cursor /\ pos < Size(c) THEN pos ELSE NoPos
      playback == IF pos # c.cursor THEN "Unchanged"
                  ELSE IF selected # NoPos THEN "LoadSelected" ELSE "Stop"
  IN [queue |-> SelectCursor(RemovePos(c, pos), selected), playback |-> playback]

\* DaemonEngine::queue_remove: one row, and where playback continues.
DaemonRemove(c, pos) ==
  LET selected == IF pos # c.cursor \/ Size(c) = 1 THEN NoPos
                  ELSE IF pos < Size(c) THEN pos
                  ELSE IF c.repeat = "All" THEN 1 ELSE NoPos
      playback == IF pos # c.cursor THEN "Unchanged"
                  ELSE IF selected # NoPos THEN "LoadSelected" ELSE "Stop"
  IN [queue |-> SelectCursor(RemovePos(c, pos), selected), playback |-> playback]

-----------------------------------------------------------------------------
(* The owner's queue. *)

Init ==
  /\ q = EmptyQueue
  /\ rev = 1
  /\ nextRev = 2

\* Variant: an edit that keeps the play order does not count as one.
CommitIfVisible(c) ==
  /\ nextRev <= MaxRev
  /\ q' = c
  /\ IF Ordered(c) = Ordered(q)
       THEN UNCHANGED <<rev, nextRev>>
       ELSE rev' = nextRev /\ nextRev' = nextRev + 1

\* Every edit mints one revision from the process-wide source.
Commit(c) ==
  /\ nextRev <= MaxRev
  /\ q' = c
  /\ rev' = nextRev
  /\ nextRev' = nextRev + 1

\* A cursor move or a repeat change is not a queue change.
Keep(c) ==
  /\ q' = c
  /\ UNCHANGED <<rev, nextRev>>

ExtendTracks ==
  \E more \in Blocks : \E c \in Extend(q, more) :
    Fitting(q, more) # <<>> /\ Commit(c)

\* search_and_enqueue and prepare_idle_enqueue while nothing is loaded.
EnqueueIdle ==
  \E more \in Blocks : \E c \in Extend(q, more) :
    Fitting(q, more) # <<>> /\ Commit(AtCursor(c, Size(q) + 1))

InsertNextTracks ==
  \E more \in Blocks : Fitting(q, more) # <<>> /\ Commit(InsertAfterCurrent(q, more))

PlayTracksNow ==
  \E more \in Blocks : Fitting(q, more) # <<>> /\ Commit(PlayNow(q, more))

ReplaceTracks ==
  \E songs \in Blocks, override \in {"keep", "on", "off"} :
    \E start \in 1..Max({1, Len(songs)}) :
      \E c \in Replacement(q, songs, start, override) : Commit(c)

RestoreTracks ==
  \E snapshot \in Snapshots : \E c \in RestoreSnapshot(q, snapshot) : Commit(c)

RemoveTracks ==
  \E lo, hi \in DOMAIN q.order : lo <= hi /\ Commit(RemoveRange(q, lo, hi).queue)

RemoveTrack ==
  \E pos \in DOMAIN q.order : Commit(DaemonRemove(q, pos).queue)

PurgeTracks ==
  \E ids \in SUBSET VideoIds :
    /\ \E pos \in DOMAIN q.order : SongAt(q, pos) \in ids
    /\ Commit(Purge(q, ids).queue)

MoveTrack ==
  \E from, to \in DOMAIN q.order : from # to /\ Commit(MoveItem(q, from, to))

DropUpcoming == q.cursor < Size(q) /\ Commit(ClearUpcoming(q))

ChangeShuffle == \E c \in SetShuffle(q, ~q.shuffle) : Commit(c)

ChangeRepeat == \E mode \in Repeats : Keep(WithRepeat(q, mode))

StepNext ==
  \E auto \in BOOLEAN : PlanNext(q, q.cursor, auto) # NoPos
    /\ Keep(AtCursor(q, PlanNext(q, q.cursor, auto)))

StepPrev ==
  /\ q.order # <<>>
  /\ Keep(AtCursor(q, PlanPrev(q, q.cursor)))

JumpTo == \E pos \in DOMAIN q.order : Keep(AtCursor(q, pos))

Inserting == ExtendTracks \/ EnqueueIdle \/ InsertNextTracks \/ PlayTracksNow
Removing == RemoveTracks \/ RemoveTrack \/ PurgeTracks \/ DropUpcoming
Arranging == MoveTrack \/ ChangeShuffle
Moving == StepNext \/ StepPrev \/ JumpTo

Next ==
  \/ Inserting
  \/ Removing
  \/ Arranging
  \/ Moving
  \/ ReplaceTracks
  \/ RestoreTracks
  \/ ChangeRepeat

Spec == Init /\ [][Next]_queueVars

-----------------------------------------------------------------------------
(* Properties *)

\* The play order is a permutation of the tracks, the cursor points at an
\* entry, and the hard cap holds: after any sequence of edits, shuffles,
\* removals and restores of corrupt snapshots no track is lost from the play
\* order or played twice, and no index is out of bounds.
QueueShape ==
  /\ q \in Queues
  /\ Len(q.order) = Len(q.songs)
  /\ ToSet(q.order) = 1..Len(q.songs)
  /\ q.cursor \in DOMAIN q.order \/ (q.order = <<>> /\ q.cursor = 1)
  /\ Len(q.songs) <= MaxLen

\* What a listener sees of the queue is a list with a place in it; each group
\* of edits does to (play order, cursor) exactly what PlayList says, although
\* the code edits two index-linked vectors: an insertion, a removal of many
\* rows, a drag or a shuffle never moves the place to another track.
PL == INSTANCE PlayList WITH list <- Ordered(q), place <- q.cursor
EditsKeepThePlace ==
  [][/\ Inserting => PL!Insert
     /\ Removing => PL!Delete
     /\ Arranging => PL!Arrange
     /\ Moving => PL!Jump
     /\ ReplaceTracks => PL!Replace]_queueVars

\* The implementations of "remove rows" agree: purging the ids of the rows
\* lo..hi, when those ids are queued nowhere else, leaves the queue and the
\* playback decision that removing the range leaves; and removing one row
\* through the daemon leaves what removing it through the App does.
RemovalsAgree ==
  /\ \A lo, hi \in DOMAIN q.order :
       LET ids == {SongAt(q, pos) : pos \in lo..hi}
       IN (lo <= hi /\ \A pos \in DOMAIN q.order \ (lo..hi) : SongAt(q, pos) \notin ids)
            => Purge(q, ids) = RemoveRange(q, lo, hi)
  /\ \A pos \in DOMAIN q.order : DaemonRemove(q, pos) = RemoveRange(q, pos, pos)

\* A shuffled or edited queue plays every entry: from any place, one lap of
\* manual nexts under repeat-all meets each position once, and the walk that
\* looks for a playable track sees what those nexts would visit.
OneLapMeetsEveryTrack ==
  \A from \in DOMAIN q.order :
    LET walk == Walk(q, from)
    IN /\ walk[1] = from
       /\ \A i \in 1..(Len(walk) - 1) : walk[i + 1] = PlanNext(q, walk[i], FALSE)
       /\ q.repeat = "All" => ToSet(walk) = DOMAIN q.order
       /\ q.repeat # "All" => walk[Len(walk)] = Size(q)

=============================================================================
