--------------------------- MODULE ScrobbleQueue ---------------------------
(* The durable scrobble queue (scrobble/queue.rs) and the actors that fill   *)
(* and drain it (scrobble/actor.rs): one JSONL file, one advisory lock, one  *)
(* actor per process.  A listen is appended before any network attempt; a    *)
(* flush loads the file, settles the acknowledgements of the music-server    *)
(* bridge, caps it, marks every exact submission started, exposes those to   *)
(* the bridge, delivers to the external services chunk by chunk and rewrites *)
(* the file after each.  Any append or rewrite can fail before or after its  *)
(* effect, a process can die between any two steps, a reply can be lost.     *)
(*                                                                           *)
(* A listen is its number: numbers grow in the order compact() sorts by.     *)
EXTENDS Integers, Sequences, FiniteSets

CONSTANTS
  Processes,     \* processes that share the data directory
  Free,          \* the lock when nobody holds it
  Lanes,         \* the external services, in the order a flush serves them
  Aging,         \* the services that ignore listens past two weeks
  QueueCap,      \* listens that may owe an external service
  ExactCap,      \* listens that may owe the music server
  BatchMax,      \* listens in one submission
  AppendFaults,  \* how an append may fail: "before", "torn", "after" its line
  MaxListens,    \* bound of the model: listens
  MaxFaults      \* bound of the model: failed I/O, lost replies, crashes

Listens == 1..MaxListens
Services == {Lanes[i] : i \in DOMAIN Lanes}

ASSUME CapsAssumption ==
  /\ QueueCap \in Nat \ {0} /\ ExactCap \in Nat \ {0} /\ BatchMax \in Nat \ {0}
  /\ MaxListens \in Nat /\ MaxFaults \in Nat
  /\ AppendFaults \subseteq {"before", "torn", "after"}
  /\ Aging \subseteq Services /\ "exact" \notin Services
  /\ Lanes \in Seq(Services)
  /\ Free \notin Processes \X {"append", "flush"}

VARIABLES
  file,     \* scrobble-queue.jsonl: its lines, and whether one is malformed
  audit,    \* the drop audit: <<listen, "generic" / "exact" / "scope">>
  lock,     \* holder of the advisory lock and what it holds it for
  actors,   \* the memory of each process
  heard,    \* listens so far
  sent,     \* what each service has of each listen: "none", "taken", "unsure"
            \* (taken, but nobody is left to know it) or "twice"
  faults,   \* faults so far
  past      \* history: obligations filed, and events exposed, and not excused

disk == <<file, audit>>
world == <<heard, sent>>
vars == <<file, audit, lock, actors, heard, sent, faults, past>>

Markers == {"none", "pending", "started", "durable"}
Entry == [id : Listens, pending : SUBSET Services, exact : Markers]

Idle == [at |-> "idle", pend |-> {}, entries |-> {}, lanes |-> <<>>, acks |-> {},
         confirms |-> {}, handles |-> [i \in Listens |-> "none"]]

Init ==
  /\ file = [lines |-> {}, torn |-> FALSE]
  /\ audit = {}
  /\ lock = Free
  /\ actors = [p \in Processes |-> Idle]
  /\ heard = 0 /\ faults = 0
  /\ sent = [s \in Services |-> [i \in Listens |-> "none"]]
  /\ past = [filed |-> {}, exposed |-> {}]

-----------------------------------------------------------------------------
(* Entries and files *)

Owes(e) == e.pending # {} \/ e.exact # "none"
OwesExact(e) == e.exact # "none"
IsStarted(e) == e.exact \in {"started", "durable"}
Ids(S) == {e.id : e \in S}
Generic(S) == {e \in S : e.pending # {}}
Exact(S) == {e \in S : OwesExact(e)}

\* An entry that owes these services, or carries this marker, instead of its own.
Owed(e, services) == [id |-> e.id, pending |-> services, exact |-> e.exact]
Marked(e, marker) == [id |-> e.id, pending |-> e.pending, exact |-> marker]

Oldest(I, n) == {i \in I : Cardinality({j \in I : j < i}) < n}
Newest(I, n) == {i \in I : Cardinality({j \in I : j > i}) < n}
Excess(S, cap) == IF Cardinality(S) > cap THEN Cardinality(S) - cap ELSE 0

\* A load takes duplicate lines once and fails closed on anything else.
OneLinePerListen == \A e, f \in file.lines : e.id = f.id => e = f
Readable ==
  /\ ~file.torn
  /\ OneLinePerListen
  /\ Cardinality({e \in file.lines : IsStarted(e)}) <= ExactCap

\* How far back the aging services may have stopped listening.
Horizons == {0} \cup {e.id : e \in {f \in file.lines : f.pending \cap Aging # {}}}
\* The entries that still owe something when listens up to old are too old.
Aged(e, old) == Owed(e, IF e.id <= old THEN e.pending \ Aging ELSE e.pending)
Living(S, old) == {e \in {Aged(f, old) : f \in S} : Owes(e)}

\* What a cap gives up: the newest exact markers that were not handed off, and
\* the oldest listens of the external services.
EvictedExact(S) ==
  Newest(Ids({e \in Exact(S) : ~IsStarted(e)}), Excess(Exact(S), ExactCap))
EvictedGeneric(S) == Oldest(Ids(Generic(S)), Excess(Generic(S), QueueCap))
Drops(S) == (EvictedGeneric(S) \X {"generic"}) \cup (EvictedExact(S) \X {"exact"})

\* The entry without the obligations it loses.
Without(e, generic, exact) ==
  [id |-> e.id,
   pending |-> IF e.id \in generic THEN {} ELSE e.pending,
   exact |-> IF e.id \in exact THEN "none" ELSE e.exact]
Capped(S) == {e \in {Without(f, EvictedGeneric(S), EvictedExact(S)) : f \in S} : Owes(e)}

\* The entries once the services in acks were served.
StrippedWhole(S, acks) == {e \in S : \A s \in Services : <<e.id, s>> \notin acks}
Stripped(S, acks) ==
  {e \in {Owed(f, {s \in f.pending : <<f.id, s>> \notin acks}) : f \in S} : Owes(e)}

Obligations(e) ==
  ({e.id} \X e.pending) \cup (IF OwesExact(e) THEN {<<e.id, "exact">>} ELSE {})

-----------------------------------------------------------------------------
(* Steps *)

Become(p, a) == actors' = [actors EXCEPT ![p] = a]
GiveUp(p) == Become(p, [actors[p] EXCEPT !.at = "idle"])

\* The outcomes of an I/O step, every fault charged to the bound.
Ways(kinds) == {"ok"} \cup (IF faults < MaxFaults THEN kinds ELSE {})
Charge(way) == faults' = IF way = "ok" THEN faults ELSE faults + 1
RewriteWays == Ways({"before", "after"})

\* An atomic replacement of the file, when the way it went reached the disk.
Replace(way, lines) ==
  file' = IF way = "before" THEN file ELSE [lines |-> lines, torn |-> FALSE]
\* A durable audit record, likewise.
Record(way, drops) == audit' = IF way = "before" THEN audit ELSE audit \cup drops

\* Retained appends are a set: their order is the listens' own.
Overflows(a) == Drops(a.pend) # {}
MayAppend(p) == lock = Free \/ lock = <<p, "append">>

\* Appends follow a listen, and open a flush unless a compaction comes first;
\* when nothing is left to append the flush goes on to settle the journal.
\* "flush" and "settle" are a flush on its way, "idle" also one that starts.
Appending(p) ==
  /\ actors[p].pend # {}
  /\ actors[p].at \in {"listen", "flush"} \/ (actors[p].at = "idle" /\ actors[p].acks = {})
Settling(p) ==
  \/ actors[p].at = "settle"
  \/ actors[p].at = "idle" /\ actors[p].acks = {} /\ actors[p].pend = {}
Onward(a) == [a EXCEPT !.at = IF @ = "listen" THEN (IF a.pend = {} THEN "idle" ELSE @)
                              ELSE IF a.pend = {} THEN "settle" ELSE "flush"]

\* A listen crosses its threshold; the append follows in the same handler.
Listen(p, services, exact) ==
  LET a == actors[p] IN
  /\ a.at = "idle"
  /\ Cardinality(Generic(a.pend)) <= QueueCap
  /\ Cardinality(Exact(a.pend)) <= ExactCap
  /\ heard < MaxListens
  /\ services # {} \/ exact
  /\ heard' = heard + 1
  /\ Become(p, [a EXCEPT !.at = "listen",
       !.pend = @ \cup {[id |-> heard + 1, pending |-> services,
                         exact |-> IF exact THEN "pending" ELSE "none"]}])
  /\ UNCHANGED <<disk, lock, sent, faults, past>>

\* Another process, or this one's own unconfirmed compaction, owns the queue.
AppendBusy(p) ==
  /\ Appending(p)
  /\ ~MayAppend(p)
  /\ GiveUp(p)
  /\ UNCHANGED <<disk, lock, world, faults, past>>

\* Too much is retained in memory: the loss is audited, then installed.
DropOverflow(p) ==
  LET a == actors[p] IN
  /\ Appending(p)
  /\ MayAppend(p)
  /\ Overflows(a)
  /\ lock' = <<p, "append">>
  /\ \E way \in RewriteWays :
       /\ Charge(way)
       /\ Record(way, Drops(a.pend))
       /\ IF way = "ok"
            THEN Become(p, Onward([a EXCEPT !.pend = Capped(@)]))
            ELSE GiveUp(p)
  /\ UNCHANGED <<file, world, past>>

\* The lock survives a failed append and ends with a confirmed one.
HeldAfterReleased(p, way) == Free
HeldAfter(p, way) == IF way = "ok" THEN Free ELSE <<p, "append">>

\* The oldest retained listen goes first.
FileEntry(p, e) ==
  LET a == actors[p] IN
  /\ Appending(p)
  /\ MayAppend(p)
  /\ ~Overflows(a)
  /\ \A f \in a.pend : e.id <= f.id
  /\ \E way \in Ways(AppendFaults) :
       /\ Charge(way)
       /\ file' = [lines |-> IF way \in {"ok", "after"} THEN file.lines \cup {e} ELSE file.lines,
                   torn |-> file.torn \/ way = "torn"]
       /\ lock' = HeldAfter(p, way)
       /\ IF way = "ok"
            THEN /\ Become(p, Onward([a EXCEPT !.pend = @ \ {e}]))
                 /\ past' = [past EXCEPT !.filed = @ \cup Obligations(e)]
            ELSE GiveUp(p) /\ UNCHANGED past
  /\ UNCHANGED <<audit, world>>

\* The lock of an unconfirmed compaction ends with its confirmed rewrite.
CompactionLockReleased(way) == Free
CompactionLock(way) == IF way = "ok" THEN Free ELSE lock

\* A flush recovers an unconfirmed compaction before it appends.
RetryCompaction(p) ==
  LET a == actors[p] IN
  /\ a.at = "idle" /\ a.acks # {}
  /\ UNCHANGED <<audit, world, past>>
  /\ \/ /\ ~Readable
        /\ GiveUp(p)
        /\ UNCHANGED <<file, lock, faults>>
     \/ /\ Readable
        /\ \E way \in RewriteWays :
             /\ Charge(way)
             /\ Replace(way, Stripped(file.lines, a.acks))
             /\ lock' = CompactionLock(way)
             /\ IF way = "ok" THEN Become(p, Onward([a EXCEPT !.acks = {}])) ELSE GiveUp(p)

\* Confirmations of one stage for listens that still owe the music server.
Confirmed(a, stage) == {e.id : e \in {f \in Exact(file.lines) : <<f.id, stage>> \in a.confirms}}
\* A source acknowledgement that overtakes the marker it finishes: the flush
\* would send it back, but SourceFollowsBridge says it never gets one.
EarlySource(a) ==
  \E e \in Exact(file.lines) :
    e.exact # "durable" /\ <<e.id, "source">> \in a.confirms /\ <<e.id, "scope">> \notin a.confirms

\* The file's entries with the bridge's confirmations applied.
Advanced(a, e) ==
  Marked(e, IF e.id \in Confirmed(a, "scope") \cup Confirmed(a, "source") THEN "none"
            ELSE IF e.id \in Confirmed(a, "bridge") THEN "durable" ELSE e.exact)
Compacted(a, old) == Living({Advanced(a, e) : e \in file.lines}, old)

Start(e) == Marked(e, IF e.exact = "pending" THEN "started" ELSE e.exact)
StartedUncapped(S) == {Start(e) : e \in S}
Started(S) == {Start(e) : e \in Capped(S)}

\* Whether the journal changes before an exact event may be exposed.
MustCommitCapsOnly(a, S) == Drops(S) # {}
MustCommit(a, S) == a.confirms # {} \/ Drops(S) # {} \/ Started(S) # Capped(S)

\* Handles of exact events: kept while the marker is, given out when exposed.
AnnouncedEarly(a, entries, pruned) ==
  [i \in Listens |->
     IF i \notin Ids(Exact(entries)) THEN (IF pruned THEN "none" ELSE a.handles[i])
     ELSE IF \E e \in entries : e.id = i /\ IsStarted(e) THEN "durable" ELSE a.handles[i]]
Announced(a, entries, pruned) ==
  [i \in Listens |->
     IF i \notin Ids(Exact(entries)) THEN (IF pruned THEN "none" ELSE a.handles[i])
     ELSE IF a.handles[i] = "none"
       THEN IF \E e \in entries : e.id = i /\ e.exact = "durable" THEN "durable" ELSE "open"
     ELSE IF <<i, "bridge">> \in a.confirms THEN "durable" ELSE a.handles[i]]

SettleBusy(p) ==
  /\ Settling(p)
  /\ lock # Free
  /\ GiveUp(p)
  /\ UNCHANGED <<disk, lock, world, faults, past>>

\* Nothing is written for a file that cannot be read.
SettleUnreadable(p) ==
  /\ Settling(p)
  /\ lock = Free
  /\ ~Readable
  /\ GiveUp(p)
  /\ UNCHANGED <<disk, lock, world, faults, past>>

\* Retired markers are audited before anything else.
RetireScopes(a) == Confirmed(a, "scope") \X {"scope"}

SettleAuditFails(p, old) ==
  LET a == actors[p]
      drops == Drops(Compacted(a, old)) IN
  /\ Settling(p) /\ lock = Free /\ Readable
  /\ faults < MaxFaults
  /\ faults' = faults + 1
  /\ \/ /\ RetireScopes(a) # {}
        /\ audit' \in {audit, audit \cup RetireScopes(a)}
     \/ /\ ~EarlySource(a)
        /\ drops # {}
        /\ audit' \in {audit \cup RetireScopes(a), audit \cup RetireScopes(a) \cup drops}
  /\ GiveUp(p)
  /\ UNCHANGED <<file, lock, world, past>>

\* Commit the journal, then expose the surviving exact events to the bridge.
Settle(p, old) ==
  LET a == actors[p]
      loaded == Compacted(a, old)
      entries == Started(loaded)
      must == MustCommit(a, loaded) IN
  /\ Settling(p) /\ lock = Free /\ Readable
  /\ ~EarlySource(a)
  /\ audit' = audit \cup RetireScopes(a) \cup Drops(loaded)
  /\ \E way \in IF must THEN RewriteWays ELSE {"ok"} :
       /\ Charge(way)
       /\ IF must THEN Replace(way, entries) ELSE UNCHANGED file
       /\ LET done == IF way = "before" THEN {} ELSE Confirmed(a, "source") IN
          past' = [filed |-> past.filed \ (((1..old) \X Aging) \cup (done \X {"exact"})),
                   exposed |-> IF way = "ok" THEN (past.exposed \ done) \cup Ids(Exact(entries))
                                            ELSE past.exposed \ done]
       /\ IF way = "ok"
            THEN /\ lock' = <<p, "flush">>
                 /\ Become(p, [a EXCEPT !.at = "send", !.entries = entries, !.lanes = Lanes,
                      !.confirms = {},
                      !.handles = Announced(a, entries, must)])
            ELSE GiveUp(p) /\ UNCHANGED lock
  /\ UNCHANGED world

\* The lanes still open are a suffix of Lanes: one that is not ready, refuses or
\* is owed nothing more is passed over for good in this flush.
From(lanes, n) == SubSeq(lanes, n, Len(lanes))
Chunk(a, s) == Oldest({e.id : e \in {f \in a.entries : s \in f.pending}}, BatchMax)

\* What a service has of a listen it takes; known says whether the actor learns it.
After(had, known) ==
  IF had = "none" THEN (IF known THEN "taken" ELSE "unsure")
  ELSE IF had = "unsure" THEN "unsure" ELSE "twice"
Taken(s, I, known) ==
  [t \in Services |-> [i \in Listens |->
     IF t = s /\ i \in I THEN After(sent[t][i], known) ELSE sent[t][i]]]
\* The answers in acks die with the actor that remembers them.
Forgotten(acks) ==
  [s \in Services |-> [i \in Listens |->
     IF <<i, s>> \in acks /\ sent[s][i] = "taken" THEN "unsure" ELSE sent[s][i]]]

\* The service takes the chunk and its answer is lost.
ReplyLost(p, n) ==
  LET a == actors[p]
      s == a.lanes[n] IN
  /\ a.at = "send"
  /\ Chunk(a, s) # {}
  /\ faults < MaxFaults
  /\ faults' = faults + 1
  /\ sent' = Taken(s, Chunk(a, s), FALSE)
  /\ Become(p, [a EXCEPT !.lanes = From(@, n + 1)])
  /\ UNCHANGED <<disk, lock, heard, past>>

\* After a chunk is answered, a failed rewrite keeps the lock and the answer.
Unconfirmed(a, acks) == [a EXCEPT !.at = "idle", !.acks = acks, !.entries = {}, !.lanes = <<>>]

Deliver(p, n) ==
  LET a == actors[p]
      s == a.lanes[n]
      acks == Chunk(a, s) \X {s}
      rest == Stripped(a.entries, acks) IN
  /\ a.at = "send"
  /\ acks # {}
  /\ \/ sent' = Taken(s, Chunk(a, s), TRUE) /\ UNCHANGED past
     \/ past' = [past EXCEPT !.filed = @ \ acks] /\ UNCHANGED sent
  /\ \E way \in RewriteWays :
       /\ Charge(way)
       /\ Replace(way, rest)
       /\ Become(p, IF way = "ok" THEN [a EXCEPT !.entries = rest, !.lanes = From(@, n)]
                                  ELSE Unconfirmed(a, acks))
  /\ UNCHANGED <<audit, lock, heard>>

\* The last rewrite of a flush; a failed one leaves the rest to the next flush.
Finish(p) ==
  LET a == actors[p]
      over == [a EXCEPT !.at = "idle", !.entries = {}, !.lanes = <<>>] IN
  /\ a.at = "send"
  /\ lock' = Free
  /\ \E way \in RewriteWays :
       /\ Charge(way)
       /\ Replace(way, a.entries)
       /\ Become(p, IF way = "ok" THEN [over EXCEPT !.handles = Announced(a, a.entries, TRUE)]
                                  ELSE over)
  /\ UNCHANGED <<audit, world, past>>

\* Shutdown drops a flush that awaits a service; its own flush may follow.
Cancel(p) ==
  /\ actors[p].at = "send"
  /\ Become(p, [actors[p] EXCEPT !.at = "idle", !.entries = {}, !.lanes = <<>>])
  /\ lock' = Free
  /\ UNCHANGED <<disk, world, faults, past>>

\* A confirmation replaces what waits for the same listen.
Superseding(confirms, i, stage) == {c \in confirms : c[1] # i} \cup {<<i, stage>>}

\* The owner of the bridge confirms a stage of an exact event it was given; a
\* retirement outdoes what waits, and nothing that waits is asked for twice.
Confirm(p, i, stage) ==
  LET a == actors[p]
      waiting == {c[1] : c \in a.confirms} IN
  /\ a.at = "idle"
  /\ \/ stage = "bridge" /\ a.handles[i] = "open" /\ i \notin waiting
     \/ stage = "source" /\ a.handles[i] = "durable" /\ i \notin waiting
     \/ stage = "scope" /\ a.handles[i] # "none" /\ <<i, stage>> \notin a.confirms
  /\ i \in waiting \/ Cardinality(waiting) < ExactCap
  /\ Become(p, [a EXCEPT !.confirms = Superseding(@, i, stage)])
  /\ UNCHANGED <<disk, lock, heard, sent, faults, past>>

\* The process dies and starts again: the file is all it remembers.
Crash(p) ==
  /\ faults < MaxFaults
  /\ faults' = faults + 1
  /\ sent' = Forgotten(actors[p].acks)
  /\ Become(p, Idle)
  /\ lock' = IF lock \in {<<p, "append">>, <<p, "flush">>} THEN Free ELSE lock
  /\ UNCHANGED <<disk, heard, past>>

Retain(p) == AppendBusy(p) \/ DropOverflow(p) \/ \E e \in actors[p].pend : FileEntry(p, e)
Journal(p) ==
  \/ RetryCompaction(p)
  \/ SettleBusy(p) \/ SettleUnreadable(p)
  \/ \E old \in Horizons : SettleAuditFails(p, old) \/ Settle(p, old)
Submit(p) ==
  \/ \E n \in DOMAIN actors[p].lanes : ReplyLost(p, n) \/ Deliver(p, n)
  \/ Finish(p) \/ Cancel(p)

Next ==
  \/ \E p \in Processes :
       \/ \E services \in SUBSET Services, exact \in BOOLEAN : Listen(p, services, exact)
       \/ Retain(p) \/ Journal(p) \/ Submit(p) \/ Crash(p)
       \/ \E i \in Listens, stage \in {"bridge", "source", "scope"} : Confirm(p, i, stage)

Spec == Init /\ [][Next]_vars

-----------------------------------------------------------------------------
(* Properties *)

TypeOK ==
  /\ file.lines \subseteq Entry /\ file.torn \in BOOLEAN
  /\ audit \subseteq Listens \X {"generic", "exact", "scope"}
  /\ lock \in {Free} \cup (Processes \X {"append", "flush"})
  /\ \A p \in Processes :
       LET a == actors[p] IN
       /\ a.at \in {"idle", "listen", "flush", "settle", "send"}
       /\ a.pend \subseteq Entry /\ a.entries \subseteq Entry
       /\ a.acks \subseteq Listens \X Services
       /\ a.handles \in [Listens -> {"none", "open", "durable"}]
       /\ a.acks # {} \/ a.at = "send" => lock = <<p, "flush">>
  /\ heard <= MaxListens

\* A listen whose append was confirmed owes each of its services until the
\* service has taken or refused it, it is too old, or its loss was audited; it
\* owes the music server until the bridge has it, or its loss was audited
\* (queue.rs:3-9, actor.rs:1192-1202).
Accounted(i, k) ==
  \/ \E e \in file.lines : <<i, k>> \in Obligations(e)
  \/ k \in Services /\ (sent[k][i] # "none" \/ <<i, "generic">> \in audit)
  \/ k = "exact" /\ (<<i, "exact">> \in audit \/ <<i, "scope">> \in audit)
FiledIsNeverLost == \A o \in past.filed : Accounted(o[1], o[2])

\* A service takes a listen twice only if an answer was lost or a process died
\* between the answer and the rewrite: failed appends and rewrites, at any
\* point, in any process, never repeat a submission (actor.rs:244-250, 744-748).
OnlyUncertaintyRepeats == \A s \in Services, i \in Listens : sent[s][i] # "twice"

\* What was exposed to the bridge stays marked as started on disk, whatever
\* crashes, caps and failed rewrites follow, until the bridge acknowledged it
\* or its account was retired: a restart replays it (queue.rs:159-163, actor.rs:1211-1213).
ExposedIsProtected ==
  \A i \in past.exposed :
    \/ \E e \in file.lines : e.id = i /\ IsStarted(e)
    \/ <<i, "scope">> \in audit

\* No owner acknowledges the end of a handoff whose middle is not on disk yet,
\* although several owners may hold handles of one event from before and after
\* a crash: the check at actor.rs:1151-1171 never has to send one back.
SourceFollowsBridge == \A p \in Processes : ~EarlySource(actors[p])

\* Markers that no cap may evict never outgrow the cap, at which every later
\* load would refuse the file (queue.rs:545-563).
ProtectedFit == Cardinality({e \in file.lines : IsStarted(e)}) <= ExactCap

\* The claim of retry_pending_appends: the retried entry keeps its identity and
\* a load takes its two lines for one (actor.rs:744-748).
RetriedAppendIsOneLine == OneLinePerListen
=============================================================================
