------------------------------ MODULE PlayList ------------------------------
(***************************************************************************)
(* What the play queue is to a listener: a list of tracks and a place in   *)
(* it.  The place is one more than the cursor the code shows, and is 1     *)
(* when the list is empty.  Each action says what a group of edits does to *)
(* the pair; PlayQueue is shown to do just that (EditsKeepThePlace).       *)
(***************************************************************************)
EXTENDS Naturals, Sequences, FiniteSets, SequencesExt

CONSTANTS
  Blocks,               \* the track lists callers hand over
  MaxLen                \* the hard cap

VARIABLES list, place

\* m lists the members of S from the least to the greatest.
Enumerates(m, S) ==
  /\ \A i, j \in DOMAIN m : i < j => m[i] < m[j]
  /\ ToSet(m) = S

\* The lists that hold the tracks of s in some order.
SameTracks(s, t) ==
  /\ Len(s) = Len(t)
  /\ \E p \in SetToSeqs(DOMAIN s) : \A i \in DOMAIN s : t[i] = s[p[i]]

\* A non-empty part of one block goes behind the place or at the end, in any
\* order; the place stays, or becomes the first inserted track.
Insert ==
  \E block \in Blocks, at \in {place, Len(list)} :
  LET n == Len(list') - Len(list) IN
    /\ at <= Len(list)
    /\ n \in 1..Len(block)
    /\ SubSeq(list', 1, at) = SubSeq(list, 1, at)
    /\ SubSeq(list', at + n + 1, Len(list')) = SubSeq(list, at + 1, Len(list))
    /\ SameTracks(SubSeq(block, 1, n), SubSeq(list', at + 1, at + n))
    /\ place' = at + 1 \/ place' = place

\* Some rows disappear.  The place stays on its track; if that is gone it is
\* on the first survivor after it, or else wraps to the first or ends on the
\* last one.
Delete ==
  \E rows \in SUBSET DOMAIN list :
    LET kept == DOMAIN list \ rows
        after == {r \in kept : r >= place}
    IN /\ rows # {}
       /\ \E m \in [DOMAIN list' -> kept] :
            /\ Enumerates(m, kept)
            /\ \A i \in DOMAIN m : list'[i] = list[m[i]]
            /\ IF after # {} THEN place' \in DOMAIN m /\ m[place'] = Min(after)
               ELSE place' \in {1, IF list' = <<>> THEN 1 ELSE Len(list')}

\* The tracks are the same ones in another order, and the place is on the
\* same track.
Arrange ==
  /\ SameTracks(list, list')
  /\ list # <<>> => list'[place'] = list[place]

\* Only the place changes, to a row that exists.
Jump ==
  /\ list' = list
  /\ place' \in DOMAIN list

\* The whole list is one of the callers' blocks, cut at the cap.
Replace ==
  \E block \in Blocks :
    /\ Len(list') = Min({Len(block), MaxLen})
    /\ SameTracks(SubSeq(block, 1, Len(list')), list')
    /\ list' # <<>> => place' \in DOMAIN list'
=============================================================================
