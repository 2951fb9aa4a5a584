------------------------ MODULE PersistWriter_proofs ------------------------
(***************************************************************************)
(* Theorems about PersistWriter, for any number of snapshots, processes,   *)
(* failed replacements and crashes: what was reported durable survives,    *)
(* the newest snapshot is never without an owner, and an exact report is   *)
(* exact.  A loss of power is allowed up to the first failed replacement   *)
(* (Losable <= 1); where that is needed it is a hypothesis.                *)
(*                                                                         *)
(* The argument.  The visible journal only grows: its level, the greatest  *)
(* order it knows of, never falls, and a power loss can only bring back a  *)
(* journal that was visible since.  A snapshot is covered when every       *)
(* journal that may come back is at its level; whoever says that a         *)
(* snapshot is durable says it of a covered one.  The store is never older *)
(* than the frontier, and a candidate always has its sidecar, so a covered *)
(* snapshot or a newer one is what the next start loads.                   *)
(***************************************************************************)
EXTENDS PersistWriter, TLAPS

Level(j) == Greater(j.frontier, j.candidate)
Journals == {disk.journal} \cup risk.journals
Stores == {disk.store} \cup risk.stores
Covered == {o \in Nat : \A j \in Journals : o <= Level(j)}

-----------------------------------------------------------------------------
(* The inductive invariant.                                                *)

JournalType == [frontier : Nat, candidate : Nat]
Stages == {"rest", "owned", "sidecar", "verify", "intent", "store", "commit",
           "done", "failed"}
JobType == [op : Nat, goal : {"write", "journal"}, at : Stages,
            journaled : BOOLEAN, created : BOOLEAN]

DiskTypes ==
    /\ disk \in [store : Nat, sidecars : SUBSET Nat, journal : JournalType]
    /\ risk \in [journals : SUBSET JournalType, stores : SUBSET Nat, sidecars : SUBSET Nat]
    /\ faults \in Nat
MemoryTypes ==
    /\ phase \in {"down", "loading", "up"}
    /\ accepted \in Nat /\ born \in Nat
    /\ open \in BOOLEAN /\ sealed \in BOOLEAN
    /\ pending \in [order : Nat, journaled : BOOLEAN]
    /\ latest \in Nat /\ inflight \in Nat /\ shadow \in Nat
    /\ actor \in [request : {"none", "flush", "target", "dirty", "due"}, target : Nat,
                  stage : {"rest", "journal", "write", "answer"}]
    /\ ledger \in [frontier : Nat, exact : SUBSET Nat]
    /\ job \in [Writers -> JobType]
    /\ promised \in Nat
Types == DiskTypes /\ MemoryTypes

\* No order on disk or in memory is newer than the newest accepted one.
Bounded ==
    /\ \A j \in Journals : j.candidate <= accepted
    /\ \A s \in Stores : disk.journal.frontier <= s /\ s <= accepted
    /\ \A w \in Writers : job[w].op <= accepted
    /\ latest \in {0, accepted}
    /\ pending.order <= latest
    /\ shadow <= latest
    /\ job["actor"].op <= latest
    /\ \A o \in ledger.exact : 0 < o /\ o <= latest

\* The journals that may be visible after a loss of power.
Journaling ==
    /\ \A j \in Journals : j.candidate = 0 \/ j.frontier < j.candidate
    /\ \A j \in risk.journals : j.frontier <= disk.journal.frontier
    /\ faults = 0 => risk = Settled

\* The intent lock, and what its holder knows of the disk.
Holding ==
    /\ \A v, w \in Writers : Holds(v) /\ Holds(w) => v = w
    /\ \A w \in Writers :
         LET a == job[w] IN
         /\ Holds(w) => a.op # 0
         /\ a.at = "intent" => a.op \in disk.sidecars
         /\ a.at \in {"store", "commit"} => disk.journal.candidate = a.op
         /\ a.at = "commit" => risk = Settled /\ disk.store = a.op

\* Which writer works when.
Working ==
    /\ \A w \in Writers :
         LET a == job[w] IN
         /\ a.at \in {"owned", "sidecar", "verify", "failed"} => a.op # 0
         /\ w = "actor" /\ a.at # "rest" => a.op # 0
         /\ a.at = "rest" => a = Resting
         /\ a.at = "verify" => a.journaled
         /\ w # "actor" => a.goal = "write" /\ a.at # "owned"
         /\ a.at = "owned" => a.goal = "write"
    /\ phase # "loading" => job["loader"] = Resting
    /\ phase # "up" =>
         /\ \A w \in Writers \ {"loader"} : job[w] = Resting
         /\ pending = Nothing /\ latest = 0 /\ inflight = 0 /\ shadow = 0
         /\ ~sealed
         /\ ledger = [frontier |-> 0, exact |-> {}]
    /\ ~sealed => job["hook"] = Resting
    /\ pending.order = 0 => pending = Nothing
    /\ inflight # 0 => /\ job["actor"].goal = "write" /\ job["actor"].at # "rest"
                       /\ inflight = job["actor"].op

\* What is settled is covered.
Settling ==
    /\ promised \in Covered
    /\ ledger.frontier \in Covered
    /\ pending.journaled => pending.order \in Covered
    /\ \A w \in Writers : job[w].at = "done" \/ job[w].journaled => job[w].op \in Covered

\* The writer has lost sight of an operation only if a newer one is pending,
\* or it is covered.
Tracking ==
    LET a == job["actor"] IN
    /\ a.goal = "write" /\ a.at # "rest" => inflight = a.op \/ a.op \in Covered
    /\ a.goal = "write" /\ a.at = "owned" => pending.order >= a.op \/ a.op \in Covered
    /\ a.goal = "write" /\ a.at \notin {"rest", "owned"} /\ pending.order # 0 =>
         a.op < pending.order
    /\ latest \in Covered \/ pending.order = latest \/ inflight = latest
    /\ latest \in Covered \/ (IF sealed THEN job["hook"].op = latest ELSE shadow = latest)

\* A snapshot with none accepted after it is settled by its own commit.
Exactness ==
    /\ latest # 0 /\ latest \in ledger.exact => latest <= disk.journal.frontier
    /\ LET a == job["actor"] IN
         a.goal = "write" /\ a.at = "done" /\ a.op = accepted =>
           accepted <= disk.journal.frontier

IInv == /\ Types /\ Bounded /\ Journaling /\ Holding /\ Working
        /\ Settling /\ Tracking /\ Exactness

\* A candidate never lacks its sidecar: the visible one, and as long as power
\* may be lost, any other that may come back.  A writer that created a sidecar
\* may remove it until it writes the intent.
Recoverable ==
    /\ disk.journal.candidate \in disk.sidecars \cup {0}
    /\ faults <= Losable =>
         \A j \in Journals : j.candidate \in (disk.sidecars \ risk.sidecars) \cup {0}
    /\ \A w \in Writers :
         job[w].at = "intent" /\ job[w].created =>
           risk = Settled /\ disk.journal.candidate # job[w].op

-----------------------------------------------------------------------------
(* The disk.                                                               *)

\* The greater of two orders.
LEMMA GreaterIs ==
    ASSUME NEW a \in Nat, NEW b \in Nat
    PROVE  /\ Greater(a, b) \in Nat /\ a <= Greater(a, b) /\ b <= Greater(a, b)
           /\ Greater(a, b) \in {a, b}
BY DEF Greater

\* Recording an intent never lowers the journal, keeps its frontier and reaches
\* the order; unless that is superseded, it is the candidate.
LEMMA RecordedIs ==
    ASSUME DiskTypes, NEW o \in Nat
    PROVE  /\ Recorded(o) \in JournalType
           /\ Recorded(o).frontier = disk.journal.frontier
           /\ Recorded(o).candidate \in {disk.journal.candidate, o}
           /\ Recorded(o).candidate # disk.journal.candidate =>
                Recorded(o).frontier < Recorded(o).candidate
           /\ Level(disk.journal) <= Level(Recorded(o))
           /\ o <= Level(Recorded(o))
           /\ o # 0 /\ ~IsSuperseded(Recorded(o), o) => Recorded(o).candidate = o
BY DEF Recorded, DiskTypes, JournalType, Level, Greater, IsSuperseded

\* Committing its candidate settles the journal at that order.
LEMMA CommittedIs ==
    ASSUME DiskTypes, NEW o \in Nat, disk.journal.candidate = o
    PROVE  /\ Committed(o) \in JournalType
           /\ Committed(o).candidate = 0
           /\ disk.journal.frontier <= Committed(o).frontier
           /\ Committed(o).frontier \in {disk.journal.frontier, o}
           /\ Level(disk.journal) <= Level(Committed(o))
           /\ o <= Committed(o).frontier
BY DEF Committed, DiskTypes, JournalType, Level, Greater, Through

\* A step that leaves the disk alone.
LEMMA DiskFrame ==
    ASSUME UNCHANGED <<disk, risk, faults>>
    PROVE  /\ Journals' = Journals /\ Stores' = Stores /\ Covered' = Covered
           /\ DiskTypes => DiskTypes'
           /\ Journaling => Journaling'
BY DEF Journals, Stores, Covered, DiskTypes, Journaling

\* Nothing is always covered.
LEMMA ZeroCovered ==
    ASSUME DiskTypes
    PROVE  0 \in Covered
<1>1. ASSUME NEW j \in JournalType PROVE 0 <= Level(j)
  BY DEF JournalType, Level, Greater
<1>2. Journals \subseteq JournalType
  BY DEF Journals, DiskTypes
<1> QED
  BY <1>1, <1>2 DEF Covered

\* What is older than a covered order is covered.
LEMMA CoveredDown ==
    ASSUME NEW o \in Covered, NEW p \in Nat, p <= o, DiskTypes
    PROVE  p \in Covered
<1>1. ASSUME NEW j \in JournalType PROVE Level(j) \in Nat
  BY DEF JournalType, Level, Greater
<1>2. Journals \subseteq JournalType
  BY DEF Journals, DiskTypes
<1> QED
  BY <1>1, <1>2 DEF Covered

\* A replacement of the journal by one that is at least as high leaves every
\* covered order covered; after a confirmed one nothing else can come back.
LEMMA ReplaceJournalIs ==
    ASSUME IInv, NEW way \in Ways, NEW j \in JournalType, ReplaceJournal(j, way), Count(way),
           Level(disk.journal) <= Level(j), disk.journal.frontier <= j.frontier,
           j.candidate = 0 \/ j.frontier < j.candidate
    PROVE  /\ DiskTypes' /\ Journaling' /\ Covered \subseteq Covered'
           /\ Journals' \subseteq Journals \cup {j}
           /\ Stores' \subseteq Stores /\ disk'.store = disk.store
           /\ disk'.journal \in {disk.journal, j}
           /\ way = "ok" => Journals' = {j} /\ disk'.journal = j /\ risk' = Settled
<1>1. /\ disk'.store = disk.store /\ disk'.sidecars \subseteq disk.sidecars
      /\ disk' \in [store : Nat, sidecars : SUBSET Nat, journal : JournalType]
      /\ disk'.journal = IF way = "before" THEN disk.journal ELSE j
  BY DEF ReplaceJournal, IInv, Types, DiskTypes
<1>2. /\ risk' \in [journals : SUBSET JournalType, stores : SUBSET Nat, sidecars : SUBSET Nat]
      /\ way = "ok" => risk' = Settled /\ risk'.journals = {} /\ risk'.stores = {}
      /\ way = "before" => risk' = risk
      /\ way = "after" => risk'.journals = risk.journals \cup {disk.journal}
                          /\ risk'.stores = risk.stores
  BY DEF ReplaceJournal, Settled, IInv, Types, DiskTypes, Ways
<1>3. faults \in Nat /\ faults' \in Nat /\ (way # "ok" => faults' # 0)
      /\ (way = "ok" => faults' = faults)
  BY DEF Count, IInv, Types, DiskTypes
<1>4. way \in {"ok", "before", "after"}
  BY DEF Ways
<1>5. /\ Journals' \subseteq Journals \cup {j} /\ Stores' \subseteq Stores
      /\ way = "ok" => Journals' = {j}
  BY <1>1, <1>2, <1>4 DEF Journals, Stores
<1>6. \A i \in JournalType : Level(i) \in Nat
  BY DEF Level, Greater, JournalType
<1>7. Covered \subseteq Covered'
  <2>1. disk.journal \in JournalType /\ disk.journal \in Journals
    BY DEF IInv, Types, DiskTypes, Journals
  <2> QED
    BY <1>5, <1>6, <2>1 DEF Covered
<1>8. Journaling'
  <2>1. \A i \in Journals' : i.candidate = 0 \/ i.frontier < i.candidate
    BY <1>5 DEF IInv, Journaling
  <2>2. \A i \in risk'.journals : i.frontier <= disk'.journal.frontier
    <3>1. /\ \A i \in risk.journals : i \in JournalType /\ i.frontier <= disk.journal.frontier
          /\ disk.journal \in JournalType
      BY DEF IInv, Journaling, Types, DiskTypes
    <3> QED
      BY <1>1, <1>2, <1>4, <3>1 DEF JournalType
  <2>3. faults' = 0 => risk' = Settled
    BY <1>2, <1>3
  <2> QED
    BY <2>1, <2>2, <2>3 DEF Journaling
<1> QED
  BY <1>1, <1>2, <1>3, <1>4, <1>5, <1>7, <1>8 DEF DiskTypes

\* A replacement of the store.
LEMMA ReplaceStoreIs ==
    ASSUME IInv, NEW way \in Ways, NEW o \in Nat, ReplaceStore(o, way), Count(way)
    PROVE  /\ DiskTypes' /\ Journaling' /\ Covered \subseteq Covered'
           /\ Journals' \subseteq Journals /\ Stores' \subseteq Stores \cup {o}
           /\ disk'.journal = disk.journal /\ disk'.sidecars = disk.sidecars
           /\ way = "ok" => disk'.store = o /\ risk' = Settled
<1>1. /\ disk'.journal = disk.journal /\ disk'.sidecars = disk.sidecars
      /\ disk' \in [store : Nat, sidecars : SUBSET Nat, journal : JournalType]
      /\ disk'.store = IF way = "before" THEN disk.store ELSE o
  BY DEF ReplaceStore, IInv, Types, DiskTypes
<1>2. /\ risk' \in [journals : SUBSET JournalType, stores : SUBSET Nat, sidecars : SUBSET Nat]
      /\ way = "ok" => risk' = Settled /\ risk'.journals = {} /\ risk'.stores = {}
      /\ way = "before" => risk' = risk
      /\ way = "after" => risk'.journals = risk.journals
                          /\ risk'.stores = risk.stores \cup {disk.store}
  BY DEF ReplaceStore, Settled, IInv, Types, DiskTypes, Ways
<1>3. faults \in Nat /\ faults' \in Nat /\ (way # "ok" => faults' # 0)
      /\ (way = "ok" => faults' = faults)
  BY DEF Count, IInv, Types, DiskTypes
<1>4. way \in {"ok", "before", "after"}
  BY DEF Ways
<1>5. Journals' \subseteq Journals /\ Stores' \subseteq Stores \cup {o}
  BY <1>1, <1>2, <1>4 DEF Journals, Stores
<1>6. Covered \subseteq Covered'
  BY <1>5 DEF Covered
<1>7. Journaling'
  BY <1>1, <1>2, <1>3, <1>4, <1>5 DEF IInv, Journaling, Journals
<1> QED
  BY <1>1, <1>2, <1>3, <1>4, <1>5, <1>6, <1>7 DEF DiskTypes

-----------------------------------------------------------------------------
(* Jobs.                                                                   *)

\* A writer at rest.
LEMMA RestingIs ==
    /\ Resting \in JobType /\ Resting.at = "rest" /\ Resting.op = 0
    /\ Resting.goal = "write" /\ Resting.journaled = FALSE
BY DEF Resting, JobType, Stages

\* A step of one writer leaves the others alone.
LEMMA JobUpdate ==
    ASSUME job \in [Writers -> JobType], NEW w \in Writers, NEW a \in JobType,
           job' = [job EXCEPT ![w] = a]
    PROVE  /\ job' \in [Writers -> JobType]
           /\ job'[w] = a
           /\ \A v \in Writers \ {w} : job'[v] = job[v]
OBVIOUS
-----------------------------------------------------------------------------
(* The handle.                                                             *)

\* A new snapshot is newer than everything, pending and in the shadow.
LEMMA AcceptStep ==
    ASSUME IInv, Accept, ~sealed, phase = "up", open' \in BOOLEAN,
           UNCHANGED <<disk, risk, faults, phase, born, inflight, sealed, actor,
                       ledger, job, promised>>
    PROVE  IInv'
<1>1. DiskTypes' /\ Journaling' /\ Journals' = Journals /\ Stores' = Stores
      /\ Covered' = Covered
  BY DiskFrame DEF IInv, Types
<1>2. /\ accepted' = accepted + 1 /\ latest' = accepted + 1 /\ accepted \in Nat
      /\ pending' = [order |-> accepted + 1, journaled |-> FALSE]
      /\ pending'.order = accepted + 1 /\ pending'.journaled = FALSE
      /\ shadow' = accepted + 1
  BY DEF Accept, IInv, Types, MemoryTypes
<1>3. MemoryTypes'
  BY <1>2 DEF IInv, Types, MemoryTypes
<1>4. Bounded'
  <2>1. \A j \in Journals' : j.candidate <= accepted'
    BY <1>1, <1>2 DEF IInv, Bounded, Types, DiskTypes, Journals, JournalType
  <2>2. \A s \in Stores' : disk'.journal.frontier <= s /\ s <= accepted'
    BY <1>1, <1>2 DEF IInv, Bounded, Types, DiskTypes, Stores, JournalType
  <2>3. \A w \in Writers : job'[w].op <= accepted'
    BY <1>2 DEF IInv, Bounded, Types, MemoryTypes, JobType
  <2>4. \A o \in ledger'.exact : 0 < o /\ o <= latest'
    BY <1>2 DEF IInv, Bounded, Types, MemoryTypes
  <2>5. job'["actor"].op <= latest'
    BY <1>2, <2>3 DEF Writers
  <2> QED
    BY <1>2, <2>1, <2>2, <2>3, <2>4, <2>5 DEF Bounded
<1>5. Holding'
  BY DEF IInv, Holding, Holds
<1>6. Working'
  BY <1>2 DEF IInv, Working
<1>7. Settling'
  BY <1>1, <1>2 DEF IInv, Settling
<1>8. Tracking'
  <2>1. job["actor"].op <= accepted /\ job["actor"].op \in Nat
    BY DEF IInv, Bounded, Types, MemoryTypes, JobType, Writers
  <2> QED
    BY <1>1, <1>2, <2>1 DEF IInv, Tracking
<1>9. Exactness'
  <2>1. accepted + 1 \notin ledger.exact /\ job["actor"].op # accepted + 1
    BY <1>2 DEF IInv, Bounded, Types, MemoryTypes, JobType, Writers
  <2> QED
    BY <1>2, <2>1 DEF Exactness
<1> QED
  BY <1>1, <1>3, <1>4, <1>5, <1>6, <1>7, <1>8, <1>9 DEF IInv, Types

\* queue_snapshot.
LEMMA SaveStep ==
    ASSUME IInv, Save
    PROVE  IInv'
BY AcceptStep DEF Save, IInv, Types, MemoryTypes

\* seal_with_snapshots.
LEMMA SealStep ==
    ASSUME IInv, Seal
    PROVE  IInv'
<1>1. UNCHANGED <<disk, risk, faults>>
  BY DEF Seal
<1>2. DiskTypes' /\ Journaling'
  BY <1>1, DiskFrame DEF IInv, Types
<1>3. Journals' = Journals /\ Stores' = Stores /\ Covered' = Covered
  BY <1>1, DiskFrame
<1>4. CASE sealed
  <2>1. UNCHANGED <<disk, risk, faults, phase, accepted, born, pending, latest,
                    inflight, shadow, sealed, actor, ledger, job, promised>>
        /\ open' = FALSE
    BY <1>4 DEF Seal
  <2>2. MemoryTypes'
    BY <2>1 DEF IInv, Types, MemoryTypes
  <2>3. Bounded' /\ Holding' /\ Working' /\ Settling' /\ Tracking' /\ Exactness'
    BY <2>1, <1>3 DEF IInv, Bounded, Holding, Holds, Working, Settling, Tracking, Exactness
  <2> QED
    BY <1>2, <2>2, <2>3 DEF IInv, Types
<1>5. CASE ~sealed
  <2>1. Accept /\ phase = "up" /\ open' = FALSE
        /\ UNCHANGED <<disk, risk, faults, phase, born, inflight, sealed, actor,
                       ledger, job, promised>>
    BY <1>5 DEF Seal
  <2> QED
    BY <1>5, <2>1, AcceptStep
<1> QED
  BY <1>4, <1>5

-----------------------------------------------------------------------------
(* The writer task.                                                        *)

\* The writer takes a request: it only changes where it is.
LEMMA TakeStep ==
    ASSUME IInv, Take
    PROVE  IInv'
<1>1. UNCHANGED <<disk, risk, faults>>
  BY DEF Take
<1>2. DiskTypes' /\ Journaling'
  BY <1>1, DiskFrame DEF IInv, Types
<1>3. Journals' = Journals /\ Stores' = Stores /\ Covered' = Covered
  BY <1>1, DiskFrame
<1>4. UNCHANGED <<phase, accepted, born, open, pending, latest, inflight, shadow,
                  sealed, ledger, job, promised>>
  BY DEF Take
<1>5. actor' \in [request : {"none", "flush", "target", "dirty", "due"}, target : Nat,
                  stage : {"rest", "journal", "write", "answer"}]
  BY DEF Take, IInv, Types, MemoryTypes
<1>6. MemoryTypes'
  BY <1>4, <1>5 DEF IInv, Types, MemoryTypes
<1>7. Bounded' /\ Holding' /\ Working' /\ Settling' /\ Tracking' /\ Exactness'
  BY <1>1, <1>3, <1>4
     DEF IInv, Bounded, Holding, Holds, Working, Settling, Tracking, Exactness
<1> QED
  BY <1>2, <1>6, <1>7 DEF IInv, Types

\* The writer starts to journal the pending operation.
LEMMA JournalStep ==
    ASSUME IInv, Journal
    PROVE  IInv'
<1>1. UNCHANGED <<disk, risk, faults>>
  BY DEF Journal
<1>2. DiskTypes' /\ Journaling'
  BY <1>1, DiskFrame DEF IInv, Types
<1>3. Journals' = Journals /\ Stores' = Stores /\ Covered' = Covered
  BY <1>1, DiskFrame
<1>4. UNCHANGED <<phase, accepted, born, open, pending, latest, inflight,
                  shadow, sealed, ledger, promised>> /\ phase = "up"
      /\ job["actor"].at = "rest"
  BY DEF Journal, ActorIs
<1>5. CASE pending.order # 0 /\ ~pending.journaled
  <2> DEFINE a == [op |-> pending.order, goal |-> "journal", at |-> "sidecar",
                   journaled |-> FALSE, created |-> FALSE]
  <2>1. UNCHANGED actor /\ job' = [job EXCEPT !["actor"] = a]
    BY <1>5 DEF Journal, Resting
  <2>2. a \in JobType /\ job \in [Writers -> JobType] /\ "actor" \in Writers
    BY DEF IInv, Types, MemoryTypes, JobType, Stages, Writers
  <2> HIDE DEF a
  <2>3. /\ job' \in [Writers -> JobType] /\ job'["actor"] = a
        /\ \A v \in Writers \ {"actor"} : job'[v] = job[v]
    BY <2>1, <2>2, JobUpdate
  <2>4. /\ a.op = pending.order /\ a.goal = "journal" /\ a.at = "sidecar"
        /\ a.journaled = FALSE /\ a.created = FALSE
    BY DEF a
  <2>5. MemoryTypes'
    BY <1>4, <2>1, <2>3 DEF IInv, Types, MemoryTypes
  <2>6. Bounded'
    BY <1>1, <1>3, <1>4, <2>3, <2>4 DEF IInv, Types, MemoryTypes, Bounded
  <2>7. Holding'
    BY <1>1, <2>3, <2>4 DEF IInv, Holding, Holds
  <2>8. Working'
    BY <1>4, <1>5, <2>3, <2>4 DEF IInv, Working, Writers
  <2>9. Settling'
    BY <1>3, <1>4, <2>3, <2>4 DEF IInv, Settling
  <2>10. Tracking'
    BY <1>3, <1>4, <1>5, <2>3, <2>4 DEF IInv, Tracking, Working, Writers
  <2>11. Exactness'
    BY <1>1, <1>4, <2>3, <2>4 DEF IInv, Exactness
  <2> QED
    BY <1>2, <2>5, <2>6, <2>7, <2>8, <2>9, <2>10, <2>11 DEF IInv, Types
<1>6. CASE ~(pending.order # 0 /\ ~pending.journaled)
  <2>1. UNCHANGED job /\ actor' = AfterJournal
    BY <1>6 DEF Journal
  <2>2. MemoryTypes'
    BY <1>4, <2>1 DEF IInv, Types, MemoryTypes, AfterJournal, Idle
  <2>3. Bounded' /\ Holding' /\ Working' /\ Settling' /\ Tracking' /\ Exactness'
    BY <1>1, <1>3, <1>4, <2>1
       DEF IInv, Bounded, Holding, Holds, Working, Settling, Tracking, Exactness
  <2> QED
    BY <1>2, <2>2, <2>3 DEF IInv, Types
<1> QED
  BY <1>5, <1>6

\* The writer owns the operation before the queue lets it go.
LEMMA OwnStep ==
    ASSUME IInv, Own
    PROVE  IInv'
<1>1. UNCHANGED <<disk, risk, faults>>
  BY DEF Own
<1>2. DiskTypes' /\ Journaling'
  BY <1>1, DiskFrame DEF IInv, Types
<1>3. Journals' = Journals /\ Stores' = Stores /\ Covered' = Covered
  BY <1>1, DiskFrame
<1>4. UNCHANGED <<phase, accepted, born, open, pending, latest, sealed, ledger,
                  promised>> /\ phase = "up" /\ job["actor"].at = "rest"
  BY DEF Own, ActorIs
<1>5. CASE pending # Nothing
  <2> DEFINE a == [op |-> pending.order, goal |-> "write", at |-> "owned",
                   journaled |-> FALSE, created |-> FALSE]
  <2>1. UNCHANGED actor /\ job' = [job EXCEPT !["actor"] = a]
    BY <1>5 DEF Own, Resting
  <2>2. a \in JobType /\ job \in [Writers -> JobType] /\ "actor" \in Writers
    BY DEF IInv, Types, MemoryTypes, JobType, Stages, Writers
  <2>3. /\ a.op = pending.order /\ a.goal = "write" /\ a.at = "owned"
        /\ a.journaled = FALSE /\ a.created = FALSE
    OBVIOUS
  <2> HIDE DEF a
  <2>4. /\ job' \in [Writers -> JobType] /\ job'["actor"] = a
        /\ \A v \in Writers \ {"actor"} : job'[v] = job[v]
    BY <2>1, <2>2, JobUpdate
  <2>5. inflight = 0
    BY <1>4 DEF IInv, Working
  <2>6. inflight' = pending.order
    BY <1>5, <2>5, GreaterIs DEF Own, IInv, Types, MemoryTypes, Greater
  <2>7. pending.order # 0 /\ pending.order \in Nat /\ pending.order <= latest /\ latest \in Nat
        /\ shadow \in Nat /\ shadow <= latest
    BY <1>5 DEF IInv, Working, Types, MemoryTypes, Bounded
  <2>8. /\ shadow' \in Nat /\ shadow' <= latest
        /\ sealed => shadow' = shadow
        /\ ~sealed /\ shadow = latest => shadow' = latest
    BY <1>5, <2>7 DEF Own, Greater
  <2>9. MemoryTypes'
    BY <1>4, <2>1, <2>4, <2>6, <2>7, <2>8 DEF IInv, Types, MemoryTypes
  <2>10. Bounded'
    BY <1>1, <1>3, <1>4, <2>3, <2>4, <2>7, <2>8 DEF IInv, Types, MemoryTypes, Bounded
  <2>11. Holding'
    BY <1>1, <2>3, <2>4 DEF IInv, Holding, Holds
  <2>12. Working'
    BY <1>4, <1>5, <2>3, <2>4, <2>6, <2>7 DEF IInv, Working, Writers
  <2>13. Settling'
    BY <1>3, <1>4, <2>3, <2>4 DEF IInv, Settling
  <2>14. Tracking'
    BY <1>3, <1>4, <1>5, <2>3, <2>4, <2>5, <2>6, <2>7, <2>8 DEF IInv, Tracking, Working, Writers
  <2>15. Exactness'
    BY <1>1, <1>4, <2>3, <2>4 DEF IInv, Exactness
  <2> QED
    BY <1>2, <2>9, <2>10, <2>11, <2>12, <2>13, <2>14, <2>15 DEF IInv, Types
<1>6. CASE pending = Nothing
  <2>1. UNCHANGED <<job, shadow, inflight>> /\ actor' = [actor EXCEPT !.stage = "answer"]
    BY <1>6 DEF Own
  <2>2. MemoryTypes'
    BY <1>4, <2>1 DEF IInv, Types, MemoryTypes
  <2>3. Bounded' /\ Holding' /\ Working' /\ Settling' /\ Tracking' /\ Exactness'
    BY <1>1, <1>3, <1>4, <2>1
       DEF IInv, Bounded, Holding, Holds, Working, Settling, Tracking, Exactness
  <2> QED
    BY <1>2, <2>2, <2>3 DEF IInv, Types
<1> QED
  BY <1>5, <1>6

\* The journaled flag is set for the operation that was journaled only, which
\* is covered then.
LEMMA JournaledStep ==
    ASSUME IInv, Journaled
    PROVE  IInv'
<1>1. UNCHANGED <<disk, risk, faults>>
  BY DEF Journaled
<1>2. DiskTypes' /\ Journaling'
  BY <1>1, DiskFrame DEF IInv, Types
<1>3. Journals' = Journals /\ Stores' = Stores /\ Covered' = Covered
  BY <1>1, DiskFrame
<1>4. /\ UNCHANGED <<phase, accepted, born, open, latest, inflight, shadow, sealed,
                     ledger, promised>>
      /\ job["actor"].goal = "journal" /\ job["actor"].at \in {"done", "failed"}
  BY DEF Journaled
<1>5. /\ job' \in [Writers -> JobType] /\ job'["actor"] = Resting
      /\ \A v \in Writers \ {"actor"} : job'[v] = job[v]
  BY JobUpdate, RestingIs DEF Journaled, IInv, Types, MemoryTypes, Writers
<1>6. /\ pending'.order = pending.order /\ pending' \in [order : Nat, journaled : BOOLEAN]
      /\ pending'.journaled =>
           (pending.journaled \/ (job["actor"].at = "done" /\ pending.order = job["actor"].op))
      /\ pending = Nothing => pending' = Nothing
  <2>1. pending = Nothing => pending.order # job["actor"].op
    BY <1>4 DEF IInv, Working, Nothing, Writers
  <2> QED
    <3>1. CASE job["actor"].at = "done" /\ pending.order = job["actor"].op
      BY <2>1, <3>1 DEF Journaled, IInv, Types, MemoryTypes
    <3>2. CASE ~(job["actor"].at = "done" /\ pending.order = job["actor"].op)
      <4>1. pending' = pending
        BY <3>2 DEF Journaled
      <4>2. pending \in [order : Nat, journaled : BOOLEAN]
        BY DEF IInv, Types, MemoryTypes
      <4> QED
        BY <4>1, <4>2
    <3> QED
      BY <3>1, <3>2
<1>7. MemoryTypes'
  BY <1>4, <1>5, <1>6 DEF IInv, Types, MemoryTypes, Journaled, AfterJournal, Idle
<1>8. Bounded'
  BY <1>1, <1>3, <1>4, <1>5, <1>6, RestingIs DEF IInv, Types, MemoryTypes, Bounded
<1>9. Holding'
  BY <1>1, <1>5, RestingIs DEF IInv, Holding, Holds
<1>10. Working'
  BY <1>4, <1>5, <1>6, RestingIs DEF IInv, Working, Writers
<1>11. Settling'
  BY <1>3, <1>4, <1>5, <1>6, RestingIs DEF IInv, Settling, Writers
<1>12. Tracking'
  BY <1>3, <1>4, <1>5, <1>6, RestingIs DEF IInv, Tracking, Writers
<1>13. Exactness'
  BY <1>1, <1>4, <1>5, RestingIs DEF IInv, Exactness
<1> QED
  BY <1>2, <1>7, <1>8, <1>9, <1>10, <1>11, <1>12, <1>13 DEF IInv, Types

\* The operation leaves the queue, or a newer one is pending and it is dropped.
LEMMA TakeOperationStep ==
    ASSUME IInv, TakeOperation
    PROVE  IInv'
<1>1. UNCHANGED <<disk, risk, faults>>
  BY DEF TakeOperation
<1>2. DiskTypes' /\ Journaling'
  BY <1>1, DiskFrame DEF IInv, Types
<1>3. Journals' = Journals /\ Stores' = Stores /\ Covered' = Covered
  BY <1>1, DiskFrame
<1>4. /\ UNCHANGED <<phase, accepted, born, open, latest, shadow, sealed, ledger,
                     promised>>
      /\ job["actor"].at = "owned" /\ job["actor"].goal = "write"
      /\ job["actor"] \in JobType /\ "actor" \in Writers /\ job["actor"].op # 0
      /\ job \in [Writers -> JobType] /\ pending \in [order : Nat, journaled : BOOLEAN]
  BY DEF TakeOperation, IInv, Types, MemoryTypes, Working, Writers
<1>5. CASE pending.order = job["actor"].op
  <2> DEFINE a == [job["actor"] EXCEPT
                     !.at = IF pending.journaled THEN "verify" ELSE "sidecar",
                     !.journaled = pending.journaled]
  <2>1. UNCHANGED <<inflight, actor>> /\ pending' = Nothing
        /\ job' = [job EXCEPT !["actor"] = a]
    BY <1>4, <1>5 DEF TakeOperation
  <2>2. /\ a.op = job["actor"].op /\ a.goal = "write" /\ a.at \in {"verify", "sidecar"}
        /\ a.at = "verify" => a.journaled
        /\ a.journaled = pending.journaled /\ a \in JobType
    BY <1>4 DEF JobType, Stages
  <2> HIDE DEF a
  <2>3. /\ job' \in [Writers -> JobType] /\ job'["actor"] = a
        /\ \A v \in Writers \ {"actor"} : job'[v] = job[v]
    BY <1>4, <2>1, <2>2, JobUpdate
  <2>4. pending'.order = 0 /\ pending'.journaled = FALSE
        /\ pending' \in [order : Nat, journaled : BOOLEAN]
    BY <2>1 DEF Nothing
  <2>5. MemoryTypes'
    BY <1>4, <2>1, <2>3, <2>4 DEF IInv, Types, MemoryTypes
  <2>6. Bounded'
    BY <1>1, <1>3, <1>4, <2>2, <2>3, <2>4 DEF IInv, Types, MemoryTypes, Bounded
  <2>7. Holding'
    BY <1>1, <1>4, <2>2, <2>3 DEF IInv, Holding, Holds
  <2>8. Working'
    BY <1>4, <2>1, <2>2, <2>3, <2>4 DEF IInv, Working, Writers
  <2>9. Settling'
    BY <1>3, <1>4, <1>5, <2>2, <2>3, <2>4 DEF IInv, Settling
  <2>10. Tracking'
    BY <1>3, <1>4, <1>5, <2>1, <2>2, <2>3, <2>4 DEF IInv, Tracking, Writers
  <2>11. Exactness'
    BY <1>1, <1>4, <2>2, <2>3 DEF IInv, Exactness
  <2> QED
    BY <1>2, <2>5, <2>6, <2>7, <2>8, <2>9, <2>10, <2>11 DEF IInv, Types
<1>6. CASE pending.order # job["actor"].op
  <2>1. /\ UNCHANGED pending /\ actor' = [actor EXCEPT !.stage = "answer"]
        /\ inflight' = Except(inflight, job["actor"].op)
        /\ job' = [job EXCEPT !["actor"] = Resting]
    BY <1>6 DEF TakeOperation
  <2>2. /\ job' \in [Writers -> JobType] /\ job'["actor"] = Resting
        /\ \A v \in Writers \ {"actor"} : job'[v] = job[v]
    BY <1>4, <2>1, JobUpdate, RestingIs
  <2>3. inflight' = 0
    BY <2>1 DEF Except, IInv, Working
  <2>4. MemoryTypes'
    BY <1>4, <2>1, <2>2, <2>3 DEF IInv, Types, MemoryTypes
  <2>5. Bounded'
    BY <1>1, <1>3, <1>4, <2>1, <2>2, RestingIs DEF IInv, Types, MemoryTypes, Bounded
  <2>6. Holding'
    BY <1>1, <2>2, RestingIs DEF IInv, Holding, Holds
  <2>7. Working'
    BY <1>4, <2>1, <2>2, <2>3, RestingIs DEF IInv, Working, Writers
  <2>8. Settling'
    BY <1>3, <1>4, <2>1, <2>2, RestingIs DEF IInv, Settling, Writers
  <2>9. Tracking'
    <3>1. latest \in Covered \/ pending.order = latest
      <4>1. inflight = latest => latest = 0 \/ latest = job["actor"].op
        BY DEF IInv, Working
      <4>2. pending.order <= latest /\ pending.order \in Nat /\ latest \in Nat
        BY DEF IInv, Bounded, Types, MemoryTypes
      <4> QED
        BY <1>4, <1>6, <4>1, <4>2, ZeroCovered DEF IInv, Tracking, Types
    <3> QED
      BY <1>3, <1>4, <2>1, <2>2, <3>1, RestingIs DEF IInv, Tracking, Writers
  <2>10. Exactness'
    BY <1>1, <1>4, <2>2, RestingIs DEF IInv, Exactness
  <2> QED
    BY <1>2, <2>4, <2>5, <2>6, <2>7, <2>8, <2>9, <2>10 DEF IInv, Types
<1> QED
  BY <1>5, <1>6

\* A write that is done is covered, so that whatever it clears is covered.
LEMMA WrittenStep ==
    ASSUME IInv, Written
    PROVE  IInv'
<1>1. UNCHANGED <<disk, risk, faults>>
  BY DEF Written
<1>2. DiskTypes' /\ Journaling'
  BY <1>1, DiskFrame DEF IInv, Types
<1>3. Journals' = Journals /\ Stores' = Stores /\ Covered' = Covered
  BY <1>1, DiskFrame
<1>4. /\ UNCHANGED <<phase, accepted, born, open, pending, latest, sealed, promised>>
      /\ job["actor"].at = "done" /\ job["actor"].goal = "write"
      /\ job["actor"].op \in Nat /\ job["actor"].op <= latest /\ latest \in Nat
      /\ job["actor"].op \in Covered /\ shadow \in Nat /\ shadow <= latest
      /\ job["actor"].op # 0
      /\ job' = [job EXCEPT !["actor"] = Resting]
      /\ actor' = [actor EXCEPT !.stage = "answer"]
  BY DEF Written, Working, IInv, Types, MemoryTypes, JobType, Bounded, Settling, Writers
<1>5. /\ job' \in [Writers -> JobType] /\ job'["actor"] = Resting
      /\ \A v \in Writers \ {"actor"} : job'[v] = job[v]
  BY <1>4, JobUpdate, RestingIs DEF Written, IInv, Types, MemoryTypes, Writers
<1>6. inflight' = 0
  BY DEF Written, Except, IInv, Working
<1>7. /\ shadow' \in Nat /\ shadow' <= latest
      /\ shadow = latest => shadow' = latest \/ latest \in Covered
  <2>1. shadow <= job["actor"].op => shadow \in Covered
    BY <1>4, CoveredDown DEF IInv, Types
  <2> QED
    BY <1>4, <2>1 DEF Written, Cleared, Through
<1>8. /\ ledger'.frontier \in Covered /\ ledger'.frontier \in Nat
      /\ ledger'.exact = ledger.exact \cup {job["actor"].op}
      /\ ledger' \in [frontier : Nat, exact : SUBSET Nat]
  <2>1. ledger \in [frontier : Nat, exact : SUBSET Nat] /\ ledger.frontier \in Covered
    BY DEF IInv, Types, MemoryTypes, Settling
  <2>2. /\ Greater(ledger.frontier, job["actor"].op) \in Nat
        /\ Greater(ledger.frontier, job["actor"].op) \in Covered
    BY <1>4, <2>1, GreaterIs
  <2> QED
    BY <1>4, <2>1, <2>2 DEF Written
<1>9. MemoryTypes'
  BY <1>4, <1>5, <1>6, <1>7, <1>8 DEF IInv, Types, MemoryTypes
<1>10. Bounded'
  BY <1>1, <1>3, <1>4, <1>5, <1>7, <1>8, RestingIs DEF IInv, Types, MemoryTypes, Bounded
<1>11. Holding'
  BY <1>1, <1>5, RestingIs DEF IInv, Holding, Holds
<1>12. Working'
  <2>1. phase = "up"
    BY <1>4, RestingIs DEF IInv, Working, Writers
  <2> QED
    BY <1>4, <1>5, <1>6, <2>1, RestingIs DEF IInv, Working, Writers
<1>13. Settling'
  BY <1>3, <1>4, <1>5, <1>8, RestingIs DEF IInv, Settling, Writers
<1>14. Tracking'
  <2>1. inflight = latest => latest \in Covered
    BY <1>4, ZeroCovered DEF IInv, Working, Types
  <2> QED
    BY <1>3, <1>4, <1>5, <1>7, <2>1, RestingIs DEF IInv, Tracking, Writers
<1>15. Exactness'
  BY <1>1, <1>4, <1>5, <1>8, RestingIs DEF IInv, Exactness, Bounded
<1> QED
  BY <1>2, <1>9, <1>10, <1>11, <1>12, <1>13, <1>14, <1>15 DEF IInv, Types

\* A failed operation goes back, unless a newer one is pending.
LEMMA WriteFailedStep ==
    ASSUME IInv, WriteFailed
    PROVE  IInv'
<1>1. UNCHANGED <<disk, risk, faults>>
  BY DEF WriteFailed
<1>2. DiskTypes' /\ Journaling'
  BY <1>1, DiskFrame DEF IInv, Types
<1>3. Journals' = Journals /\ Stores' = Stores /\ Covered' = Covered
  BY <1>1, DiskFrame
<1>4. /\ UNCHANGED <<phase, accepted, born, open, latest, shadow, sealed, ledger, promised>>
      /\ job["actor"].at = "failed" /\ job["actor"].goal = "write"
      /\ job["actor"].op \in Nat /\ job["actor"].op <= latest /\ latest \in Nat
      /\ job["actor"].op # 0 /\ job["actor"].journaled \in BOOLEAN
      /\ job["actor"].journaled => job["actor"].op \in Covered
      /\ job' = [job EXCEPT !["actor"] = Resting]
      /\ actor' = [actor EXCEPT !.stage = "answer"]
  BY DEF WriteFailed, IInv, Types, MemoryTypes, JobType, Bounded, Settling, Working, Writers
<1>5. /\ job' \in [Writers -> JobType] /\ job'["actor"] = Resting
      /\ \A v \in Writers \ {"actor"} : job'[v] = job[v]
  BY <1>4, JobUpdate, RestingIs DEF WriteFailed, IInv, Types, MemoryTypes, Writers
<1>6. inflight' = 0
  BY DEF WriteFailed, Except, IInv, Working
<1>7. /\ pending \in [order : Nat, journaled : BOOLEAN] /\ pending.order <= latest
      /\ pending.order = 0 => pending = Nothing
  BY DEF IInv, Types, MemoryTypes, Bounded, Working
<1>8. /\ pending' \in [order : Nat, journaled : BOOLEAN] /\ pending'.order <= latest
      /\ pending'.order # 0
      /\ pending'.journaled => pending'.order \in Covered
      /\ inflight = latest \/ pending.order = latest => pending'.order = latest \/ latest \in Covered
  <2>1. CASE pending = Nothing
    <3>1. pending' = [order |-> job["actor"].op, journaled |-> job["actor"].journaled]
      BY <2>1 DEF WriteFailed
    <3>2. pending.order = 0
      BY <2>1 DEF Nothing
    <3>3. inflight = latest => latest = job["actor"].op \/ latest = 0
      BY DEF IInv, Working
    <3> QED
      BY <1>4, <1>7, <3>1, <3>2, <3>3, ZeroCovered DEF IInv, Types
  <2>2. CASE pending # Nothing
    <3>1. pending' = pending /\ pending.order # 0
      BY <1>7, <2>2 DEF WriteFailed
    <3>2. job["actor"].op < pending.order
      BY <1>4, <3>1 DEF IInv, Tracking
    <3>3. inflight = latest => latest = job["actor"].op \/ latest = 0
      BY DEF IInv, Working
    <3> QED
      BY <1>4, <1>7, <3>1, <3>2, <3>3, ZeroCovered DEF IInv, Types, Settling
  <2> QED
    BY <2>1, <2>2
<1>9. MemoryTypes'
  BY <1>4, <1>5, <1>6, <1>8 DEF IInv, Types, MemoryTypes
<1>10. Bounded'
  BY <1>1, <1>3, <1>4, <1>5, <1>8, RestingIs DEF IInv, Types, MemoryTypes, Bounded
<1>11. Holding'
  BY <1>1, <1>5, RestingIs DEF IInv, Holding, Holds
<1>12. Working'
  <2>1. phase = "up"
    BY <1>4, RestingIs DEF IInv, Working, Writers
  <2> QED
    BY <1>4, <1>5, <1>6, <1>8, <2>1, RestingIs DEF IInv, Working, Writers
<1>13. Settling'
  BY <1>3, <1>4, <1>5, <1>8, RestingIs DEF IInv, Settling, Writers
<1>14. Tracking'
  BY <1>3, <1>4, <1>5, <1>8, RestingIs DEF IInv, Tracking, Writers
<1>15. Exactness'
  BY <1>1, <1>4, <1>5, RestingIs DEF IInv, Exactness
<1> QED
  BY <1>2, <1>9, <1>10, <1>11, <1>12, <1>13, <1>14, <1>15 DEF IInv, Types

\* Nobody is told that an order is durable unless it is covered.
LEMMA AnswerStep ==
    ASSUME IInv, Answer
    PROVE  IInv'
<1>1. UNCHANGED <<disk, risk, faults>>
  BY DEF Answer
<1>2. DiskTypes' /\ Journaling'
  BY <1>1, DiskFrame DEF IInv, Types
<1>3. Journals' = Journals /\ Stores' = Stores /\ Covered' = Covered
  BY <1>1, DiskFrame
<1>4. /\ UNCHANGED <<phase, accepted, born, open, pending, latest, inflight, shadow,
                     sealed, ledger, job>>
      /\ actor' = Idle /\ promised' = Greater(promised, Answered)
  BY DEF Answer
<1>5. Answered \in Covered /\ Answered \in Nat
  <2>1. CASE actor.request = "flush" /\ pending = Nothing /\ inflight = 0
    <3>1. Answered = latest
      BY <2>1 DEF Answered
    <3>2. pending.order = 0
      BY <2>1 DEF Nothing
    <3> QED
      BY <2>1, <3>1, <3>2, ZeroCovered DEF IInv, Types, MemoryTypes, Tracking
  <2>2. CASE /\ ~(actor.request = "flush" /\ pending = Nothing /\ inflight = 0)
             /\ actor.request = "target" /\ Outcome(actor.target) # "unconfirmed"
    <3>1. Answered = actor.target
      BY <2>2 DEF Answered
    <3>2. actor.target \in Nat /\ ledger.frontier \in Nat /\ ledger.frontier \in Covered
      BY DEF IInv, Types, MemoryTypes, Settling
    <3>3. actor.target <= ledger.frontier
      BY <2>2, <3>2 DEF Outcome
    <3> QED
      BY <3>1, <3>2, <3>3, CoveredDown DEF IInv, Types
  <2>3. CASE /\ ~(actor.request = "flush" /\ pending = Nothing /\ inflight = 0)
             /\ ~(actor.request = "target" /\ Outcome(actor.target) # "unconfirmed")
    BY <2>3, ZeroCovered DEF Answered, IInv, Types
  <2> QED
    BY <2>1, <2>2, <2>3
<1>6. promised' \in Covered /\ promised' \in Nat
  BY <1>4, <1>5, GreaterIs DEF IInv, Types, MemoryTypes, Settling
<1>7. MemoryTypes'
  BY <1>4, <1>6 DEF IInv, Types, MemoryTypes, Idle
<1>8. Bounded' /\ Holding' /\ Working' /\ Tracking' /\ Exactness'
  BY <1>1, <1>3, <1>4 DEF IInv, Bounded, Holding, Holds, Working, Tracking, Exactness
<1>9. Settling'
  BY <1>3, <1>4, <1>6 DEF IInv, Settling
<1> QED
  BY <1>2, <1>7, <1>8, <1>9 DEF IInv, Types

-----------------------------------------------------------------------------
(* The fallback and the panic hook.                                        *)

\* The fallback takes what the shadow holds.
LEMMA FallbackStartsStep ==
    ASSUME IInv, FallbackStarts
    PROVE  IInv'
<1>1. UNCHANGED <<disk, risk, faults>>
  BY DEF FallbackStarts
<1>2. DiskTypes' /\ Journaling'
  BY <1>1, DiskFrame DEF IInv, Types
<1>3. Journals' = Journals /\ Stores' = Stores /\ Covered' = Covered
  BY <1>1, DiskFrame
<1>4. /\ UNCHANGED <<phase, accepted, born, open, pending, latest, inflight, shadow,
                     sealed, actor, ledger, promised>>
      /\ phase = "up" /\ shadow # 0 /\ job["fallback"] = Resting
      /\ job \in [Writers -> JobType] /\ "fallback" \in Writers
      /\ shadow \in Nat /\ shadow <= latest /\ latest \in {0, accepted} /\ accepted \in Nat
  BY DEF FallbackStarts, memory, IInv, Types, MemoryTypes, Writers, Bounded
<1> DEFINE a == [Resting EXCEPT !.op = shadow, !.at = "sidecar"]
<1>5. job' = [job EXCEPT !["fallback"] = a]
  BY DEF FallbackStarts, Starts
<1>6. a \in JobType /\ a.op = shadow /\ a.goal = "write" /\ a.at = "sidecar" /\ ~a.journaled
  BY <1>4 DEF Resting, JobType, Stages
<1> HIDE DEF a
<1>7. /\ job' \in [Writers -> JobType] /\ job'["fallback"] = a
      /\ \A v \in Writers \ {"fallback"} : job'[v] = job[v]
      /\ job'["actor"] = job["actor"] /\ job'["hook"] = job["hook"]
      /\ job'["loader"] = job["loader"]
  BY <1>4, <1>5, <1>6, JobUpdate DEF Writers
<1>8. MemoryTypes'
  BY <1>4, <1>7 DEF IInv, Types, MemoryTypes
<1>9. Bounded'
  BY <1>1, <1>3, <1>4, <1>6, <1>7 DEF IInv, Types, MemoryTypes, Bounded
<1>10. Holding'
  BY <1>1, <1>6, <1>7 DEF IInv, Holding, Holds
<1>11. Working'
  BY <1>4, <1>6, <1>7 DEF IInv, Working, Writers
<1>12. Settling'
  BY <1>3, <1>4, <1>6, <1>7 DEF IInv, Settling
<1>13. Tracking'
  BY <1>3, <1>4, <1>7 DEF IInv, Tracking
<1>14. Exactness'
  BY <1>1, <1>4, <1>7 DEF IInv, Exactness
<1> QED
  BY <1>2, <1>8, <1>9, <1>10, <1>11, <1>12, <1>13, <1>14 DEF IInv, Types

\* The fallback clears only what it made covered.
LEMMA FallbackEndsStep ==
    ASSUME IInv, FallbackEnds
    PROVE  IInv'
<1>1. UNCHANGED <<disk, risk, faults>>
  BY DEF FallbackEnds
<1>2. DiskTypes' /\ Journaling'
  BY <1>1, DiskFrame DEF IInv, Types
<1>3. Journals' = Journals /\ Stores' = Stores /\ Covered' = Covered
  BY <1>1, DiskFrame
<1>4. /\ UNCHANGED <<phase, accepted, born, open, latest, sealed, actor, ledger>>
      /\ job["fallback"].at \in {"done", "failed"}
      /\ job' = [job EXCEPT !["fallback"] = Resting]
      /\ job \in [Writers -> JobType] /\ "fallback" \in Writers /\ "actor" \in Writers
  BY DEF FallbackEnds, IInv, Types, MemoryTypes, Writers
<1>5. /\ job' \in [Writers -> JobType] /\ job'["fallback"] = Resting
      /\ \A v \in Writers \ {"fallback"} : job'[v] = job[v]
      /\ job'["actor"] = job["actor"] /\ job'["hook"] = job["hook"]
  BY <1>4, JobUpdate, RestingIs DEF Writers
<1>6. /\ pending \in [order : Nat, journaled : BOOLEAN] /\ pending.order <= latest
      /\ pending.order = 0 => pending = Nothing
      /\ job["fallback"].op \in Nat /\ shadow \in Nat /\ shadow <= latest
      /\ job["actor"].op \in Nat /\ latest \in Nat
      /\ job["fallback"].at = "done" => job["fallback"].op \in Covered
      /\ inflight \in Nat
  BY <1>4 DEF IInv, Types, MemoryTypes, JobType, Bounded, Working, Settling
<1>7. /\ pending' \in [order : Nat, journaled : BOOLEAN]
      /\ pending' = pending \/ (pending' = Nothing /\ pending.order \in Covered)
      /\ inflight' = inflight \/ (inflight' = 0 /\ inflight \in Covered)
      /\ shadow' = shadow \/ (shadow' = 0 /\ shadow \in Covered)
      /\ promised' \in Nat /\ promised' \in Covered
  <2>1. promised \in Nat /\ promised \in Covered
    BY DEF IInv, Types, MemoryTypes, Settling
  <2>2. CASE UNCHANGED <<pending, inflight, shadow, promised>>
    BY <1>6, <2>1, <2>2
  <2>3. CASE /\ job["fallback"].at = "done"
             /\ pending' = IF pending.order = job["fallback"].op THEN Nothing ELSE pending
             /\ inflight' = Except(inflight, job["fallback"].op)
             /\ shadow' = Cleared(shadow, job["fallback"].op)
             /\ promised' = Greater(promised, job["fallback"].op)
    <3>1. Nothing \in [order : Nat, journaled : BOOLEAN]
      BY DEF Nothing
    <3>2. /\ pending' \in [order : Nat, journaled : BOOLEAN]
          /\ pending' = pending \/ (pending' = Nothing /\ pending.order \in Covered)
      BY <1>6, <2>3, <3>1
    <3>3. inflight' = inflight \/ (inflight' = 0 /\ inflight \in Covered)
      BY <1>6, <2>3 DEF Except
    <3>4. shadow' = shadow \/ (shadow' = 0 /\ shadow \in Covered)
      BY <1>6, <2>3, CoveredDown DEF Cleared, Through, IInv, Types
    <3>5. promised' \in Nat /\ promised' \in Covered
      BY <1>6, <2>1, <2>3, GreaterIs
    <3> QED
      BY <3>2, <3>3, <3>4, <3>5
  <2> QED
    BY <2>2, <2>3 DEF FallbackEnds
<1>8. Nothing.order = 0 /\ Nothing.journaled = FALSE
  BY DEF Nothing
<1>9. MemoryTypes'
  BY <1>4, <1>5, <1>6, <1>7 DEF IInv, Types, MemoryTypes
<1>10. Bounded'
  BY <1>1, <1>3, <1>4, <1>5, <1>6, <1>7, <1>8, RestingIs DEF IInv, Types, MemoryTypes, Bounded
<1>11. Holding'
  BY <1>1, <1>5, RestingIs DEF IInv, Holding, Holds
<1>12. Working'
  <2>1. phase = "up"
    BY <1>4, RestingIs DEF IInv, Working
  <2> QED
    BY <1>4, <1>5, <1>6, <1>7, <1>8, <2>1, RestingIs DEF IInv, Working, Writers
<1>13. Settling'
  BY <1>3, <1>4, <1>5, <1>7, <1>8, RestingIs DEF IInv, Settling, Writers
<1>14. Tracking'
  <2>1. pending.order \in Covered /\ job["actor"].op <= pending.order => job["actor"].op \in Covered
    BY <1>6, CoveredDown DEF IInv, Types
  <2>2. /\ job["actor"].goal = "write" /\ job["actor"].at # "rest" =>
             inflight' = job["actor"].op \/ job["actor"].op \in Covered
        /\ job["actor"].goal = "write" /\ job["actor"].at = "owned" =>
             pending'.order >= job["actor"].op \/ job["actor"].op \in Covered
    BY <1>6, <1>7, <1>8, <2>1 DEF IInv, Tracking
  <2>3. latest \in Covered \/ pending'.order = latest \/ inflight' = latest
    BY <1>6, <1>7, <1>8 DEF IInv, Tracking
  <2>4. latest \in Covered \/ (IF sealed THEN job["hook"].op = latest ELSE shadow' = latest)
    BY <1>6, <1>7 DEF IInv, Tracking
  <2>5. job["actor"].goal = "write" /\ job["actor"].at \notin {"rest", "owned"} /\ pending'.order # 0
          => job["actor"].op < pending'.order
    BY <1>6, <1>7, <1>8 DEF IInv, Tracking
  <2> QED
    BY <1>3, <1>4, <1>5, <2>2, <2>3, <2>4, <2>5 DEF Tracking
<1>15. Exactness'
  BY <1>1, <1>4, <1>5 DEF IInv, Exactness
<1> QED
  BY <1>2, <1>9, <1>10, <1>11, <1>12, <1>13, <1>14, <1>15 DEF IInv, Types

\* The hook takes what the shadow holds, and the shadow is sealed.
LEMMA PanicStep ==
    ASSUME IInv, Panic
    PROVE  IInv'
<1>1. UNCHANGED <<disk, risk, faults>>
  BY DEF Panic
<1>2. DiskTypes' /\ Journaling'
  BY <1>1, DiskFrame DEF IInv, Types
<1>3. Journals' = Journals /\ Stores' = Stores /\ Covered' = Covered
  BY <1>1, DiskFrame
<1>4. /\ UNCHANGED <<phase, accepted, born, open, pending, latest, inflight, shadow,
                     actor, ledger, promised>>
      /\ phase = "up" /\ ~sealed /\ sealed' = TRUE
      /\ job["hook"] = Resting
      /\ job \in [Writers -> JobType] /\ "hook" \in Writers
      /\ shadow \in Nat /\ shadow <= latest /\ latest \in {0, accepted} /\ accepted \in Nat
  BY DEF Panic, IInv, Types, MemoryTypes, Working, Writers, Bounded
<1>5. PICK a \in JobType :
        /\ job' = [job EXCEPT !["hook"] = a]
        /\ a.op = shadow /\ a.goal = "write" /\ ~a.journaled
        /\ a.at = IF shadow = 0 THEN "done" ELSE "sidecar"
  <2>1. CASE shadow = 0
    <3> DEFINE b == [Resting EXCEPT !.at = "done"]
    <3>1. job' = [job EXCEPT !["hook"] = b]
      BY <1>4, <2>1 DEF Panic, Moves
    <3>2. b \in JobType /\ b.op = 0 /\ b.goal = "write" /\ ~b.journaled /\ b.at = "done"
      BY DEF Resting, JobType, Stages
    <3> QED
      BY <2>1, <3>1, <3>2
  <2>2. CASE shadow # 0
    <3> DEFINE b == [op |-> shadow, goal |-> "write", at |-> "sidecar",
                     journaled |-> FALSE, created |-> FALSE]
    <3>1. job' = [job EXCEPT !["hook"] = b]
      BY <2>2 DEF Panic, Starts, Resting
    <3>2. b \in JobType
      BY <1>4 DEF JobType, Stages
    <3> QED
      BY <2>2, <3>1, <3>2
  <2> QED
    BY <2>1, <2>2
<1>6. /\ job' \in [Writers -> JobType] /\ job'["hook"] = a
      /\ \A v \in Writers \ {"hook"} : job'[v] = job[v]
      /\ job'["actor"] = job["actor"] /\ job'["loader"] = job["loader"]
  BY <1>4, <1>5, JobUpdate DEF Writers
<1>7. MemoryTypes'
  BY <1>4, <1>6 DEF IInv, Types, MemoryTypes
<1>8. Bounded'
  BY <1>1, <1>3, <1>4, <1>5, <1>6 DEF IInv, Types, MemoryTypes, Bounded
<1>9. Holding'
  BY <1>1, <1>5, <1>6 DEF IInv, Holding, Holds
<1>10. Working'
  BY <1>4, <1>5, <1>6 DEF IInv, Working, Writers
<1>11. Settling'
  BY <1>3, <1>4, <1>5, <1>6, ZeroCovered DEF IInv, Types, Settling
<1>12. Tracking'
  BY <1>3, <1>4, <1>5, <1>6 DEF IInv, Tracking
<1>13. Exactness'
  BY <1>1, <1>4, <1>6 DEF IInv, Exactness
<1> QED
  BY <1>2, <1>7, <1>8, <1>9, <1>10, <1>11, <1>12, <1>13 DEF IInv, Types

-----------------------------------------------------------------------------
(* One durable write.                                                      *)

Doing == {"sidecar", "verify", "intent", "store", "commit"}

\* What a writer's step on the disk leaves true of the memory.
LEMMA WriterMoves ==
    ASSUME IInv, NEW w \in Writers, NEW a \in JobType,
           job' = [job EXCEPT ![w] = a], UNCHANGED <<phase, memory, promised>>,
           job[w].at \in Doing, a.at \in {"intent", "store", "commit", "done", "failed"},
           a.op = job[w].op, a.goal = job[w].goal, a.journaled = job[w].journaled,
           Covered \subseteq Covered', a.at = "done" => a.op \in Covered'
    PROVE  MemoryTypes' /\ Working' /\ Settling' /\ Tracking'
<1>1. /\ job' \in [Writers -> JobType] /\ job'[w] = a
      /\ \A v \in Writers \ {w} : job'[v] = job[v]
  BY JobUpdate DEF IInv, Types, MemoryTypes
<1>2. UNCHANGED <<accepted, born, open, pending, latest, inflight, shadow, sealed,
                  actor, ledger, phase, promised>>
  BY DEF memory
<1>3. MemoryTypes'
  BY <1>1, <1>2 DEF IInv, Types, MemoryTypes
<1>4. a.op # 0
  BY DEF Doing, IInv, Working, Holding, Holds
<1>5. job[w] # Resting
  BY RestingIs DEF Doing
<1>6. Working'
  BY <1>1, <1>2, <1>4, <1>5, RestingIs DEF IInv, Working, Doing, Writers
<1>7. Settling'
  BY <1>1, <1>2 DEF IInv, Settling
<1>8. Tracking'
  BY <1>1, <1>2 DEF IInv, Tracking, Doing, Writers
<1> QED
  BY <1>3, <1>6, <1>7, <1>8

\* The holder of the intent lock is alone, so that only it need know the disk.
LEMMA HolderMoves ==
    ASSUME IInv, NEW w \in Writers, NEW a \in JobType,
           job' = [job EXCEPT ![w] = a], Holds(w) \/ LockFree,
           a.at \in {"intent", "store", "commit"} => a.op # 0,
           a.at = "intent" => a.op \in disk'.sidecars,
           a.at \in {"store", "commit"} => disk'.journal.candidate = a.op,
           a.at = "commit" => risk' = Settled /\ disk'.store = a.op
    PROVE  Holding'
<1>1. /\ job' \in [Writers -> JobType] /\ job'[w] = a
      /\ \A v \in Writers \ {w} : job'[v] = job[v]
  BY JobUpdate DEF IInv, Types, MemoryTypes
<1>2. \A v \in Writers \ {w} : ~Holds(v)
  BY DEF IInv, Holding, LockFree
<1> QED
  BY <1>1, <1>2 DEF Holding, Holds

\* A step that leaves the frontier and every accepted order in its bounds.
LEMMA WriterBounded ==
    ASSUME IInv, NEW w \in Writers, NEW a \in JobType, DiskTypes',
           job' = [job EXCEPT ![w] = a], UNCHANGED <<phase, memory, promised>>,
           a.op = job[w].op,
           \A j \in Journals' : j \in Journals \/ j.candidate <= accepted,
           \A s \in Stores' : disk'.journal.frontier <= s /\ s <= accepted,
           disk.journal.frontier <= disk'.journal.frontier
    PROVE  Bounded'
<1>1. /\ job' \in [Writers -> JobType] /\ job'[w] = a
      /\ \A v \in Writers \ {w} : job'[v] = job[v]
  BY JobUpdate DEF IInv, Types, MemoryTypes
<1>2. UNCHANGED <<accepted, pending, latest, shadow, ledger>>
  BY DEF memory
<1> QED
  BY <1>1, <1>2 DEF IInv, Bounded

\* A step that only raises the frontier.
LEMMA WriterExact ==
    ASSUME IInv, NEW w \in Writers, NEW a \in JobType, DiskTypes',
           job' = [job EXCEPT ![w] = a], UNCHANGED <<phase, memory, promised>>,
           disk.journal.frontier <= disk'.journal.frontier,
           a.goal = "write" /\ a.at = "done" /\ a.op = accepted => accepted <= disk'.journal.frontier
    PROVE  Exactness'
<1>1. /\ job' \in [Writers -> JobType] /\ job'[w] = a
      /\ \A v \in Writers \ {w} : job'[v] = job[v]
  BY JobUpdate DEF IInv, Types, MemoryTypes
<1>2. UNCHANGED <<accepted, latest, ledger>> /\ accepted \in Nat /\ latest \in Nat
  BY DEF memory, IInv, Types, MemoryTypes
<1>3. disk.journal.frontier \in Nat /\ disk'.journal.frontier \in Nat
  BY DEF IInv, Types, DiskTypes, JournalType
<1> QED
  BY <1>1, <1>2, <1>3 DEF IInv, Exactness, Writers

\* A writer gives up on the lock.
LEMMA LockTimesOutStep ==
    ASSUME IInv, NEW w \in Writers, LockTimesOut(w)
    PROVE  IInv'
<1> DEFINE a == [job[w] EXCEPT !.at = "failed"]
<1>1. /\ UNCHANGED <<disk, risk, faults, phase, memory, promised>>
      /\ job' = [job EXCEPT ![w] = a] /\ job[w].at \in {"sidecar", "verify"}
  BY DEF LockTimesOut, Moves
<1>2. /\ a \in JobType /\ a.at = "failed" /\ a.op = job[w].op /\ a.goal = job[w].goal
      /\ a.journaled = job[w].journaled
  BY DEF IInv, Types, MemoryTypes, JobType, Stages
<1> HIDE DEF a
<1>3. DiskTypes' /\ Journaling' /\ Journals' = Journals /\ Stores' = Stores /\ Covered' = Covered
  BY <1>1, DiskFrame DEF IInv, Types
<1>4. disk.journal.frontier <= disk'.journal.frontier
  BY <1>1 DEF IInv, Types, DiskTypes, JournalType
<1>5. MemoryTypes' /\ Working' /\ Settling' /\ Tracking'
  BY <1>1, <1>2, <1>3, WriterMoves DEF Doing
<1>6. Bounded'
  BY <1>1, <1>2, <1>3, <1>4, WriterBounded DEF IInv, Bounded, memory
<1>7. Holding'
  BY <1>1, <1>2, JobUpdate DEF IInv, Types, MemoryTypes, Holding, Holds
<1>8. Exactness'
  BY <1>1, <1>2, <1>3, <1>4, WriterExact
<1> QED
  BY <1>3, <1>5, <1>6, <1>7, <1>8 DEF IInv, Types

\* The sidecar.
LEMMA PrepareStep ==
    ASSUME IInv, NEW w \in Writers, Prepare(w)
    PROVE  IInv'
<1>1. PICK way \in Ways :
        /\ PutSidecar(job[w].op, way) /\ Count(way)
        /\ job' = [job EXCEPT ![w].at = IF way = "ok" THEN "intent" ELSE "failed",
                              ![w].created = job[w].op \notin disk.sidecars]
  BY DEF Prepare
<1> DEFINE a == [job[w] EXCEPT !.at = IF way = "ok" THEN "intent" ELSE "failed",
                               !.created = job[w].op \notin disk.sidecars]
<1>2. /\ UNCHANGED <<phase, memory, promised>> /\ job[w].at = "sidecar" /\ LockFree
      /\ job' = [job EXCEPT ![w] = a] /\ job[w] \in JobType
  BY <1>1 DEF Prepare, IInv, Types, MemoryTypes
<1>3. /\ a \in JobType /\ a.at = (IF way = "ok" THEN "intent" ELSE "failed")
      /\ a.op = job[w].op /\ a.goal = job[w].goal /\ a.journaled = job[w].journaled
  BY <1>2 DEF JobType, Stages
<1> HIDE DEF a
<1>4. job[w].op \in Nat /\ job[w].op # 0
  BY <1>2 DEF JobType, IInv, Working
<1>5. /\ disk'.journal = disk.journal /\ disk'.store = disk.store
      /\ disk' \in [store : Nat, sidecars : SUBSET Nat, journal : JournalType]
      /\ way = "ok" => job[w].op \in disk'.sidecars
  BY <1>1, <1>4 DEF PutSidecar, IInv, Types, DiskTypes, Ways
<1>6. /\ risk' \in [journals : SUBSET JournalType, stores : SUBSET Nat, sidecars : SUBSET Nat]
      /\ risk'.journals \subseteq risk.journals /\ risk'.stores \subseteq risk.stores
      /\ risk' = risk \/ risk' = Settled \/ way # "ok"
  BY <1>1, <1>4 DEF PutSidecar, Settled, IInv, Types, DiskTypes, Ways
<1>7. faults \in Nat /\ faults' \in Nat /\ (way # "ok" => faults' # 0)
      /\ (way = "ok" => faults' = faults)
  BY <1>1 DEF Count, IInv, Types, DiskTypes
<1>8. DiskTypes' /\ Journals' \subseteq Journals /\ Stores' \subseteq Stores
  BY <1>5, <1>6, <1>7 DEF DiskTypes, Journals, Stores
<1>9. Journaling'
  BY <1>5, <1>6, <1>7, <1>8 DEF IInv, Journaling
<1>10. Covered \subseteq Covered'
  BY <1>8 DEF Covered
<1>11. disk.journal.frontier <= disk'.journal.frontier
  BY <1>5 DEF IInv, Types, DiskTypes, JournalType
<1>12. MemoryTypes' /\ Working' /\ Settling' /\ Tracking'
  BY <1>2, <1>3, <1>10, WriterMoves DEF Doing
<1>13. Bounded'
  <2>1. \A s \in Stores' : disk'.journal.frontier <= s /\ s <= accepted
    BY <1>5, <1>8 DEF IInv, Bounded
  <2> QED
    BY <1>2, <1>3, <1>8, <1>11, <2>1, WriterBounded
<1>14. Holding'
  BY <1>2, <1>3, <1>4, <1>5, HolderMoves
<1>15. Exactness'
  BY <1>2, <1>3, <1>8, <1>11, WriterExact
<1> QED
  BY <1>8, <1>9, <1>12, <1>13, <1>14, <1>15 DEF IInv, Types

\* The intent of a replaced operation is dropped.
LEMMA StaleStep ==
    ASSUME IInv, NEW w \in Writers, Stale(w)
    PROVE  IInv'
<1> DEFINE a == [job[w] EXCEPT !.at = "failed"]
<1>1. /\ UNCHANGED <<risk, faults, phase, memory, promised>>
      /\ job' = [job EXCEPT ![w] = a] /\ job[w].at = "intent"
  BY DEF Stale, Moves
<1>2. /\ a \in JobType /\ a.at = "failed" /\ a.op = job[w].op /\ a.goal = job[w].goal
      /\ a.journaled = job[w].journaled
  BY DEF IInv, Types, MemoryTypes, JobType, Stages
<1> HIDE DEF a
<1>3. /\ disk'.journal = disk.journal /\ disk'.store = disk.store
      /\ disk' \in [store : Nat, sidecars : SUBSET Nat, journal : JournalType]
  BY DEF Stale, IInv, Types, DiskTypes
<1>4. DiskTypes' /\ Journals' = Journals /\ Stores' = Stores
  BY <1>1, <1>3 DEF IInv, Types, DiskTypes, Journals, Stores
<1>5. Journaling' /\ Covered' = Covered
  BY <1>1, <1>3, <1>4 DEF IInv, Journaling, Covered
<1>6. disk.journal.frontier <= disk'.journal.frontier
  BY <1>3 DEF IInv, Types, DiskTypes, JournalType
<1>7. MemoryTypes' /\ Working' /\ Settling' /\ Tracking'
  BY <1>1, <1>2, <1>5, WriterMoves DEF Doing
<1>8. Bounded'
  <2>1. \A s \in Stores' : disk'.journal.frontier <= s /\ s <= accepted
    BY <1>3, <1>4 DEF IInv, Bounded
  <2> QED
    BY <1>1, <1>2, <1>4, <1>6, <2>1, WriterBounded
<1>9. Holding'
  BY <1>1, <1>2, HolderMoves DEF Holds
<1>10. Exactness'
  BY <1>1, <1>2, <1>4, <1>6, WriterExact
<1> QED
  BY <1>4, <1>5, <1>7, <1>8, <1>9, <1>10 DEF IInv, Types

\* The intent: the operation is the candidate, or a newer one covers it.
LEMMA IntendStep ==
    ASSUME IInv, NEW w \in Writers, Intend(w)
    PROVE  IInv'
<1> DEFINE j == Recorded(job[w].op)
           next == IF IsSuperseded(j, job[w].op) \/ job[w].goal = "journal"
                   THEN "done" ELSE "store"
<1>1. PICK way \in Ways :
        /\ ReplaceJournal(j, way) /\ Count(way)
        /\ Moves(w, IF way # "ok" THEN "failed" ELSE next)
  BY DEF Intend
<1> DEFINE a == [job[w] EXCEPT !.at = IF way # "ok" THEN "failed" ELSE next]
<1>2. /\ UNCHANGED <<phase, memory, promised>> /\ job[w].at = "intent"
      /\ job' = [job EXCEPT ![w] = a] /\ job[w] \in JobType
  BY <1>1 DEF Intend, Moves, IInv, Types, MemoryTypes
<1>3. /\ a \in JobType /\ a.at = (IF way # "ok" THEN "failed" ELSE next)
      /\ a.op = job[w].op /\ a.goal = job[w].goal /\ a.journaled = job[w].journaled
      /\ a.op \in Nat
  BY <1>2 DEF JobType, Stages
<1>4. a.op # 0 /\ a.op <= accepted
  BY <1>2, <1>3 DEF IInv, Holding, Holds, Bounded
<1>5. /\ j \in JournalType /\ j.frontier = disk.journal.frontier
      /\ j.candidate \in {disk.journal.candidate, a.op}
      /\ j.candidate # disk.journal.candidate => j.frontier < j.candidate
      /\ Level(disk.journal) <= Level(j) /\ a.op <= Level(j)
      /\ ~IsSuperseded(j, a.op) => j.candidate = a.op
  BY <1>3, <1>4, RecordedIs DEF IInv, Types
<1>6. j.candidate = 0 \/ j.frontier < j.candidate
  BY <1>5 DEF IInv, Journaling, Journals
<1>7. a.at = IF way # "ok" THEN "failed"
             ELSE IF IsSuperseded(j, a.op) \/ a.goal = "journal" THEN "done" ELSE "store"
  BY <1>3
<1> HIDE DEF a, j, next
<1>8. disk.journal \in JournalType /\ disk.journal.frontier <= j.frontier
      /\ disk.journal.candidate <= accepted
  BY <1>5 DEF IInv, Types, DiskTypes, JournalType, Bounded, Journals
<1>9. /\ DiskTypes' /\ Journaling' /\ Covered \subseteq Covered'
      /\ Journals' \subseteq Journals \cup {j}
      /\ Stores' \subseteq Stores /\ disk'.store = disk.store
      /\ disk'.journal \in {disk.journal, j}
      /\ way = "ok" => Journals' = {j} /\ disk'.journal = j /\ risk' = Settled
  BY <1>1, <1>5, <1>6, <1>8, ReplaceJournalIs
<1>10. a.at = "done" => a.op \in Covered'
  BY <1>3, <1>5, <1>7, <1>9 DEF Covered
<1>11. MemoryTypes' /\ Working' /\ Settling' /\ Tracking'
  BY <1>2, <1>3, <1>7, <1>9, <1>10, WriterMoves DEF Doing
<1>12. disk'.journal.frontier = disk.journal.frontier
  BY <1>5, <1>9
<1>13. disk.journal.frontier <= disk'.journal.frontier
  BY <1>8, <1>12 DEF JournalType
<1>14. Bounded'
  <2>1. \A s \in Stores' : disk'.journal.frontier <= s /\ s <= accepted
    BY <1>9, <1>12 DEF IInv, Bounded
  <2>2. \A i \in Journals' : i \in Journals \/ i.candidate <= accepted
    BY <1>4, <1>5, <1>8, <1>9
  <2> QED
    BY <1>2, <1>3, <1>9, <1>13, <2>1, <2>2, WriterBounded
<1>15. Holding'
  BY <1>2, <1>3, <1>4, <1>5, <1>7, <1>9, HolderMoves DEF Holds
<1>16. Exactness'
  <2>1. accepted \in Nat /\ j.frontier \in Nat /\ j.candidate \in Nat
    BY <1>5 DEF IInv, Types, MemoryTypes, JournalType
  <2>2. a.goal = "write" /\ a.at = "done" /\ a.op = accepted => accepted <= disk'.journal.frontier
    BY <1>4, <1>5, <1>7, <1>8, <1>9, <2>1 DEF IsSuperseded
  <2> QED
    BY <1>2, <1>3, <1>9, <1>13, <2>2, WriterExact
<1> QED
  BY <1>9, <1>11, <1>14, <1>15, <1>16 DEF IInv, Types

\* An intent that was written earlier is the candidate or superseded.
LEMMA VerifyStep ==
    ASSUME IInv, NEW w \in Writers, Verify(w)
    PROVE  IInv'
<1> DEFINE j == disk.journal
           next == IF IsCurrent(j, job[w].op) THEN "store"
                   ELSE IF IsSuperseded(j, job[w].op) THEN "done" ELSE "failed"
           a == [job[w] EXCEPT !.at = next]
<1>1. /\ UNCHANGED <<disk, risk, faults, phase, memory, promised>>
      /\ job' = [job EXCEPT ![w] = a] /\ job[w].at = "verify" /\ LockFree
      /\ job[w] \in JobType
  BY DEF Verify, Moves, IInv, Types, MemoryTypes
<1>2. /\ a \in JobType /\ a.op = job[w].op /\ a.goal = job[w].goal
      /\ a.journaled = job[w].journaled
      /\ a.at = IF IsCurrent(j, a.op) THEN "store"
                ELSE IF IsSuperseded(j, a.op) THEN "done" ELSE "failed"
  BY <1>1 DEF JobType, Stages
<1> HIDE DEF a, next
<1>3. DiskTypes' /\ Journaling' /\ Journals' = Journals /\ Stores' = Stores /\ Covered' = Covered
  BY <1>1, DiskFrame DEF IInv, Types
<1>4. a.op \in Covered /\ a.op # 0 /\ a.op <= accepted
  BY <1>1, <1>2 DEF IInv, Working, Settling, Bounded
<1>5. disk.journal.frontier <= disk'.journal.frontier
  BY <1>1 DEF IInv, Types, DiskTypes, JournalType
<1>6. MemoryTypes' /\ Working' /\ Settling' /\ Tracking'
  BY <1>1, <1>2, <1>3, <1>4, WriterMoves DEF Doing
<1>7. Bounded'
  BY <1>1, <1>2, <1>3, <1>5, WriterBounded DEF IInv, Bounded, memory
<1>8. Holding'
  BY <1>1, <1>2, <1>4, HolderMoves DEF IsCurrent
<1>9. Exactness'
  <2>1. j \in JournalType /\ j.candidate <= accepted /\ accepted \in Nat
    BY DEF IInv, Types, DiskTypes, Bounded, Journals, MemoryTypes
  <2>2. a.at = "done" /\ a.op = accepted => accepted <= disk'.journal.frontier
    BY <1>1, <1>2, <2>1 DEF IsSuperseded, JournalType
  <2> QED
    BY <1>1, <1>2, <1>3, <1>5, <2>2, WriterExact
<1> QED
  BY <1>3, <1>6, <1>7, <1>8, <1>9 DEF IInv, Types

\* The store, written with its candidate above the frontier.
LEMMA WriteStoreStep ==
    ASSUME IInv, NEW w \in Writers, WriteStore(w)
    PROVE  IInv'
<1>1. PICK way \in Ways :
        /\ ReplaceStore(job[w].op, way) /\ Count(way)
        /\ Moves(w, IF way = "ok" THEN "commit" ELSE "failed")
  BY DEF WriteStore
<1> DEFINE a == [job[w] EXCEPT !.at = IF way = "ok" THEN "commit" ELSE "failed"]
<1>2. /\ UNCHANGED <<phase, memory, promised>> /\ job[w].at = "store"
      /\ job' = [job EXCEPT ![w] = a] /\ job[w] \in JobType
  BY <1>1 DEF WriteStore, Moves, IInv, Types, MemoryTypes
<1>3. /\ a \in JobType /\ a.at = (IF way = "ok" THEN "commit" ELSE "failed")
      /\ a.op = job[w].op /\ a.goal = job[w].goal /\ a.journaled = job[w].journaled
      /\ a.op \in Nat
  BY <1>2 DEF JobType, Stages
<1> HIDE DEF a
<1>4. a.op # 0 /\ a.op <= accepted /\ disk.journal.candidate = a.op
      /\ disk.journal.frontier < a.op /\ disk.journal \in JournalType
  BY <1>2, <1>3 DEF IInv, Holding, Holds, Bounded, Journaling, Journals, Types, DiskTypes
<1>5. /\ DiskTypes' /\ Journaling' /\ Covered \subseteq Covered'
      /\ Journals' \subseteq Journals /\ Stores' \subseteq Stores \cup {a.op}
      /\ disk'.journal = disk.journal
      /\ way = "ok" => disk'.store = a.op /\ risk' = Settled
  BY <1>1, <1>3, ReplaceStoreIs
<1>6. disk.journal.frontier <= disk'.journal.frontier
  BY <1>4, <1>5 DEF JournalType
<1>7. MemoryTypes' /\ Working' /\ Settling' /\ Tracking'
  BY <1>2, <1>3, <1>5, WriterMoves DEF Doing
<1>8. Bounded'
  <2>1. \A s \in Stores' : disk'.journal.frontier <= s /\ s <= accepted
    BY <1>3, <1>4, <1>5 DEF IInv, Bounded, JournalType
  <2> QED
    BY <1>2, <1>3, <1>5, <1>6, <2>1, WriterBounded
<1>9. Holding'
  BY <1>2, <1>3, <1>4, <1>5, HolderMoves DEF Holds
<1>10. Exactness'
  BY <1>2, <1>3, <1>5, <1>6, WriterExact
<1> QED
  BY <1>5, <1>7, <1>8, <1>9, <1>10 DEF IInv, Types

\* The commit, of what the store holds already.
LEMMA CommitStep ==
    ASSUME IInv, NEW w \in Writers, Commit(w)
    PROVE  IInv'
<1> DEFINE j == Committed(job[w].op)
<1>1. PICK way \in Ways :
        /\ ReplaceJournal(j, way) /\ Count(way)
        /\ Moves(w, IF way = "ok" THEN "done" ELSE "failed")
  BY DEF Commit
<1> DEFINE a == [job[w] EXCEPT !.at = IF way = "ok" THEN "done" ELSE "failed"]
<1>2. /\ UNCHANGED <<phase, memory, promised>> /\ job[w].at = "commit"
      /\ job' = [job EXCEPT ![w] = a] /\ job[w] \in JobType
  BY <1>1 DEF Commit, Moves, IInv, Types, MemoryTypes
<1>3. /\ a \in JobType /\ a.at = (IF way = "ok" THEN "done" ELSE "failed")
      /\ a.op = job[w].op /\ a.goal = job[w].goal /\ a.journaled = job[w].journaled
      /\ a.op \in Nat
  BY <1>2 DEF JobType, Stages
<1>4. /\ a.op # 0 /\ a.op <= accepted /\ disk.journal.candidate = a.op
      /\ disk.store = a.op /\ risk = Settled
  BY <1>2, <1>3 DEF IInv, Holding, Holds, Bounded
<1>5. /\ j \in JournalType /\ j.candidate = 0 /\ disk.journal.frontier <= j.frontier
      /\ j.frontier \in {disk.journal.frontier, a.op}
      /\ Level(disk.journal) <= Level(j) /\ a.op <= j.frontier
  BY <1>3, <1>4, CommittedIs DEF IInv, Types
<1> HIDE DEF a, j
<1>6. /\ DiskTypes' /\ Journaling' /\ Covered \subseteq Covered'
      /\ Journals' \subseteq Journals \cup {j}
      /\ Stores' \subseteq Stores /\ disk'.store = disk.store
      /\ disk'.journal \in {disk.journal, j}
      /\ way = "ok" => Journals' = {j} /\ disk'.journal = j /\ risk' = Settled
  BY <1>1, <1>5, ReplaceJournalIs
<1>7. a.op <= Level(j)
  BY <1>3, <1>5, GreaterIs DEF Level, JournalType
<1>8. a.at = "done" => a.op \in Covered'
  BY <1>3, <1>6, <1>7 DEF Covered
<1>9. MemoryTypes' /\ Working' /\ Settling' /\ Tracking'
  BY <1>2, <1>3, <1>6, <1>8, WriterMoves DEF Doing
<1>10. disk.journal \in JournalType /\ disk.journal.frontier < a.op /\ accepted \in Nat
  BY <1>4 DEF IInv, Types, DiskTypes, MemoryTypes, Journaling, Journals
<1>11. disk.journal.frontier <= disk'.journal.frontier
  BY <1>5, <1>6, <1>10 DEF JournalType
<1>12. Bounded'
  <2>1. Stores = {a.op}
    BY <1>4 DEF Stores, Settled
  <2>2. disk'.journal.frontier <= a.op
    BY <1>3, <1>5, <1>6, <1>10 DEF JournalType
  <2>3. \A s \in Stores' : disk'.journal.frontier <= s /\ s <= accepted
    BY <1>4, <1>6, <2>1, <2>2
  <2>4. \A i \in Journals' : i \in Journals \/ i.candidate <= accepted
    BY <1>5, <1>6, <1>10
  <2> QED
    BY <1>2, <1>3, <1>6, <1>11, <2>3, <2>4, WriterBounded
<1>13. Holding'
  BY <1>2, <1>3, HolderMoves DEF Holds
<1>14. Exactness'
  BY <1>2, <1>3, <1>5, <1>6, <1>11, WriterExact
<1> QED
  BY <1>6, <1>9, <1>12, <1>13, <1>14 DEF IInv, Types

-----------------------------------------------------------------------------
(* The end of a process, and the start of the next.                        *)

\* A process that ends knows nothing any more.
LEMMA DieStep ==
    ASSUME IInv, Die, promised' \in Nat, promised' \in Covered', 0 \in Covered'
    PROVE  MemoryTypes' /\ Holding' /\ Working' /\ Settling' /\ Tracking' /\ Exactness'
<1>1. /\ \A w \in Writers : job'[w] = Resting
      /\ job' \in [Writers -> JobType] /\ "actor" \in Writers
  BY RestingIs DEF Die, Writers
<1>2. Nothing \in [order : Nat, journaled : BOOLEAN] /\ Nothing.order = 0
      /\ Nothing.journaled = FALSE
  BY DEF Nothing
<1>3. MemoryTypes'
  BY <1>1, <1>2 DEF Die, IInv, Types, MemoryTypes, Idle
<1>4. Holding'
  BY <1>1, RestingIs DEF Holding, Holds
<1>5. Working'
  BY <1>1, <1>2, RestingIs DEF Working, Die, Writers
<1>6. Settling'
  BY <1>1, <1>2, RestingIs DEF Settling, Die
<1>7. Tracking'
  BY <1>1, <1>2, RestingIs DEF Tracking, Die
<1>8. Exactness'
  BY <1>1, RestingIs DEF Exactness, Die
<1> QED
  BY <1>3, <1>4, <1>5, <1>6, <1>7, <1>8

\* What comes back after its end is among what was at risk.
LEMMA DieBounded ==
    ASSUME IInv, Die, Journals' \subseteq Journals, Stores' \subseteq Stores,
           disk'.journal.frontier <= disk.journal.frontier, DiskTypes'
    PROVE  Bounded'
<1>1. /\ \A w \in Writers : job'[w] = Resting
      /\ "actor" \in Writers /\ accepted' = accepted /\ accepted \in Nat
      /\ latest' = 0 /\ shadow' = 0 /\ pending'.order = 0 /\ ledger'.exact = {}
  BY DEF Die, Writers, Nothing, IInv, Types, MemoryTypes
<1>2. \A s \in Stores : s \in Nat
  BY DEF IInv, Types, DiskTypes, Stores
<1>3. \A s \in Stores' : disk'.journal.frontier <= s /\ s <= accepted
  BY <1>1, <1>2 DEF IInv, Types, DiskTypes, JournalType, Bounded
<1>4. \A j \in Journals' : j.candidate <= accepted
  BY DEF IInv, Bounded
<1> QED
  BY <1>1, <1>3, <1>4, RestingIs DEF Bounded

\* The process ends.
LEMMA CrashStep ==
    ASSUME IInv, Crash
    PROVE  IInv'
<1>1. UNCHANGED <<disk, risk, faults>>
  BY DEF Crash
<1>2. DiskTypes' /\ Journaling'
  BY <1>1, DiskFrame DEF IInv, Types
<1>3. Journals' = Journals /\ Stores' = Stores /\ Covered' = Covered
  BY <1>1, DiskFrame
<1>4. promised' = promised /\ Die
  BY DEF Crash
<1>5. promised' \in Nat /\ promised' \in Covered'
  BY <1>3, <1>4 DEF IInv, Types, MemoryTypes, Settling
<1>6. Bounded'
  BY <1>1, <1>2, <1>3, <1>4, DieBounded DEF IInv, Types, DiskTypes, JournalType
<1> QED
  BY <1>2, <1>3, <1>4, <1>5, <1>6, ZeroCovered, DieStep DEF IInv, Types

\* The process ends after its hook, which covered the newest order if it is done.
LEMMA PanicEndsStep ==
    ASSUME IInv, PanicEnds
    PROVE  IInv'
<1>1. UNCHANGED <<disk, risk, faults>>
  BY DEF PanicEnds
<1>2. DiskTypes' /\ Journaling'
  BY <1>1, DiskFrame DEF IInv, Types
<1>3. Journals' = Journals /\ Stores' = Stores /\ Covered' = Covered
  BY <1>1, DiskFrame
<1>4. Die
  BY DEF PanicEnds
<1>5. promised' \in Nat /\ promised' \in Covered'
  <2>1. promised \in Nat /\ promised \in Covered /\ latest \in Nat
    BY DEF IInv, Types, MemoryTypes, Settling
  <2>2. job["hook"].at = "done" => latest \in Covered
    <3>1. job["hook"].at = "done" => sealed /\ job["hook"].op \in Covered
      BY RestingIs DEF IInv, Working, Settling, Writers
    <3> QED
      BY <3>1 DEF IInv, Tracking
  <2> QED
    BY <1>3, <2>1, <2>2, GreaterIs DEF PanicEnds
<1>6. Bounded'
  BY <1>1, <1>2, <1>3, <1>4, DieBounded DEF IInv, Types, DiskTypes, JournalType
<1> QED
  BY <1>2, <1>3, <1>4, <1>5, <1>6, ZeroCovered, DieStep DEF IInv, Types

\* A loss of power brings back a journal and a store that were at risk.
LEMMA PowerLossStep ==
    ASSUME IInv, PowerLoss
    PROVE  IInv'
<1>1. /\ disk' \in Disks /\ risk' = Settled /\ Die /\ UNCHANGED <<faults, promised>>
  BY DEF PowerLoss
<1>2. /\ disk' \in [store : Nat, sidecars : SUBSET Nat, journal : JournalType]
      /\ disk'.journal \in Journals /\ disk'.store \in Stores
  BY <1>1 DEF Disks, IInv, Types, DiskTypes, Journals, Stores
<1>3. Settled.journals = {} /\ Settled.stores = {} /\ Settled.sidecars = {}
  BY DEF Settled
<1>4. DiskTypes'
  BY <1>1, <1>2 DEF DiskTypes, Settled, IInv, Types
<1>5. Journals' = {disk'.journal} /\ Stores' = {disk'.store}
  BY <1>1, <1>3 DEF Journals, Stores
<1>6. Covered \subseteq Covered'
  BY <1>2, <1>5 DEF Covered
<1>7. Journaling'
  BY <1>1, <1>2, <1>3, <1>5 DEF IInv, Journaling
<1>8. disk'.journal.frontier <= disk.journal.frontier
  BY <1>2 DEF IInv, Journaling, Journals, Types, DiskTypes, JournalType
<1>9. Bounded'
  BY <1>1, <1>2, <1>4, <1>5, <1>8, DieBounded
<1>10. MemoryTypes' /\ Holding' /\ Working' /\ Settling' /\ Tracking' /\ Exactness'
  BY <1>1, <1>6, ZeroCovered, DieStep DEF IInv, Types, MemoryTypes, Settling
<1> QED
  BY <1>4, <1>7, <1>9, <1>10 DEF IInv, Types

\* The next process starts, and may install its candidate.
LEMMA StartStep ==
    ASSUME IInv, Start
    PROVE  IInv'
<1>1. UNCHANGED <<disk, risk, faults>>
  BY DEF Start
<1>2. DiskTypes' /\ Journaling'
  BY <1>1, DiskFrame DEF IInv, Types
<1>3. Journals' = Journals /\ Stores' = Stores /\ Covered' = Covered
  BY <1>1, DiskFrame
<1>4. /\ UNCHANGED <<accepted, open, pending, latest, inflight, shadow, sealed,
                     actor, ledger, promised>>
      /\ phase = "down" /\ born' = accepted
  BY DEF Start
<1>5. job \in [Writers -> JobType] /\ \A w \in Writers : job[w] = Resting
  BY <1>4 DEF IInv, Types, MemoryTypes, Working
<1>6. CASE phase' = "up" /\ UNCHANGED job
  <2>1. MemoryTypes'
    BY <1>4, <1>6 DEF IInv, Types, MemoryTypes
  <2>2. Working'
    BY <1>4, <1>5, <1>6 DEF IInv, Working
  <2>3. Bounded' /\ Holding' /\ Settling' /\ Tracking' /\ Exactness'
    BY <1>1, <1>3, <1>4, <1>6 DEF IInv, Bounded, Holding, Holds, Settling, Tracking, Exactness
  <2> QED
    BY <1>2, <2>1, <2>2, <2>3 DEF IInv, Types
<1>7. CASE ~(phase' = "up" /\ UNCHANGED job)
  <2> DEFINE a == [op |-> disk.journal.candidate, goal |-> "write", at |-> "store",
                   journaled |-> FALSE, created |-> FALSE]
  <2>1. /\ disk.journal.candidate # 0 /\ phase' = "loading"
        /\ job' = [job EXCEPT !["loader"] = a]
    BY <1>7 DEF Start, Resting
  <2>2. a \in JobType /\ disk.journal.candidate <= accepted
    BY DEF JobType, Stages, IInv, Types, DiskTypes, JournalType, Bounded, Journals
  <2>3. /\ a.op = disk.journal.candidate /\ a.goal = "write" /\ a.at = "store"
        /\ a.journaled = FALSE /\ a.created = FALSE
    OBVIOUS
  <2> HIDE DEF a
  <2>4. /\ job' \in [Writers -> JobType] /\ job'["loader"] = a
        /\ \A v \in Writers \ {"loader"} : job'[v] = Resting
        /\ job'["actor"] = Resting /\ job'["hook"] = Resting
    BY <1>5, <2>1, <2>2, JobUpdate DEF Writers
  <2>5. MemoryTypes'
    BY <1>4, <2>1, <2>4 DEF IInv, Types, MemoryTypes
  <2>6. Bounded'
    BY <1>1, <1>3, <1>4, <1>5, <2>2, <2>3, <2>4, RestingIs DEF IInv, Bounded, Writers
  <2>7. Holding'
    BY <1>1, <2>1, <2>3, <2>4, RestingIs DEF Holding, Holds
  <2>8. Working'
    BY <1>4, <2>1, <2>3, <2>4, RestingIs DEF IInv, Working, Writers
  <2>9. Settling'
    BY <1>3, <1>4, <2>3, <2>4, RestingIs DEF IInv, Settling
  <2>10. Tracking'
    BY <1>3, <1>4, <1>5, <2>4, RestingIs DEF IInv, Tracking, Writers
  <2>11. Exactness'
    BY <1>1, <1>4, <2>4, RestingIs DEF IInv, Exactness
  <2> QED
    BY <1>2, <2>5, <2>6, <2>7, <2>8, <2>9, <2>10, <2>11 DEF IInv, Types
<1> QED
  BY <1>6, <1>7

\* The candidate is installed, or stays.
LEMMA StartEndsStep ==
    ASSUME IInv, StartEnds
    PROVE  IInv'
<1>1. UNCHANGED <<disk, risk, faults>>
  BY DEF StartEnds
<1>2. DiskTypes' /\ Journaling'
  BY <1>1, DiskFrame DEF IInv, Types
<1>3. Journals' = Journals /\ Stores' = Stores /\ Covered' = Covered
  BY <1>1, DiskFrame
<1>4. /\ UNCHANGED memory /\ UNCHANGED promised /\ phase' = "up"
      /\ job["loader"].at \in {"done", "failed"}
      /\ job' = [job EXCEPT !["loader"] = Resting]
      /\ job \in [Writers -> JobType] /\ "loader" \in Writers
  BY DEF StartEnds, IInv, Types, MemoryTypes, Writers
<1>5. /\ job' \in [Writers -> JobType] /\ job'["loader"] = Resting
      /\ \A v \in Writers \ {"loader"} : job'[v] = job[v]
      /\ job'["actor"] = job["actor"] /\ job'["hook"] = job["hook"]
  BY <1>4, RestingIs, JobUpdate DEF Writers
<1>6. UNCHANGED <<accepted, born, open, pending, latest, inflight, shadow, sealed,
                  actor, ledger>>
  BY <1>4 DEF memory
<1>7. MemoryTypes'
  BY <1>4, <1>5, <1>6 DEF IInv, Types, MemoryTypes
<1>8. Bounded'
  BY <1>1, <1>3, <1>5, <1>6, RestingIs DEF IInv, Types, MemoryTypes, Bounded
<1>9. Holding'
  BY <1>1, <1>5, RestingIs DEF IInv, Holding, Holds
<1>10. Working'
  BY <1>4, <1>5, <1>6, RestingIs DEF IInv, Working, Writers
<1>11. Settling'
  BY <1>3, <1>4, <1>5, <1>6, RestingIs DEF IInv, Settling
<1>12. Tracking'
  BY <1>3, <1>5, <1>6 DEF IInv, Tracking
<1>13. Exactness'
  BY <1>1, <1>5, <1>6 DEF IInv, Exactness
<1> QED
  BY <1>2, <1>7, <1>8, <1>9, <1>10, <1>11, <1>12, <1>13 DEF IInv, Types

-----------------------------------------------------------------------------
(* The invariant holds.                                                    *)

\* The initial state.
LEMMA InitInv ==
    ASSUME Init
    PROVE  IInv /\ Recoverable
<1>1. /\ disk.store = 0 /\ disk.sidecars = {}
      /\ disk.journal = [frontier |-> 0, candidate |-> 0]
      /\ disk.journal.frontier = 0 /\ disk.journal.candidate = 0
      /\ risk = Settled /\ risk.journals = {} /\ risk.stores = {} /\ risk.sidecars = {}
      /\ faults = 0
  BY DEF Init, Settled
<1>2. /\ \A w \in Writers : job[w] = Resting
      /\ job \in [Writers -> JobType] /\ "actor" \in Writers
      /\ pending = Nothing /\ pending.order = 0 /\ pending.journaled = FALSE
      /\ accepted = 0 /\ latest = 0 /\ inflight = 0 /\ shadow = 0 /\ ~sealed
      /\ ledger = [frontier |-> 0, exact |-> {}] /\ ledger.frontier = 0 /\ ledger.exact = {}
      /\ phase = "up" /\ promised = 0 /\ born = 0 /\ open = TRUE /\ actor = Idle
      /\ sealed = FALSE
  BY RestingIs DEF Init, Nothing, Writers
<1>3. Journals = {disk.journal} /\ Stores = {0}
  BY <1>1 DEF Journals, Stores
<1>4. DiskTypes
  BY <1>1 DEF DiskTypes, JournalType, Init, Settled
<1>5. MemoryTypes
  BY <1>2 DEF MemoryTypes, Nothing, Idle
<1>6. 0 \in Covered
  BY <1>4, ZeroCovered
<1>7. Bounded
  BY <1>1, <1>2, <1>3, RestingIs DEF Bounded
<1>8. Journaling
  BY <1>1, <1>3 DEF Journaling
<1>9. Holding
  BY <1>2, RestingIs DEF Holding, Holds
<1>10. Working
  BY <1>2, RestingIs DEF Working, Writers
<1>11. Settling
  BY <1>2, <1>6, RestingIs DEF Settling
<1>12. Tracking
  BY <1>2, <1>6, RestingIs DEF Tracking
<1>13. Exactness
  BY <1>2, RestingIs DEF Exactness
<1>14. Recoverable
  BY <1>1, <1>2, <1>3, RestingIs DEF Recoverable
<1> QED
  BY <1>4, <1>5, <1>7, <1>8, <1>9, <1>10, <1>11, <1>12, <1>13, <1>14 DEF IInv, Types

\* A step that changes nothing.
LEMMA StutterStep ==
    ASSUME IInv, UNCHANGED vars
    PROVE  IInv'
<1>1. /\ UNCHANGED <<disk, risk, faults>>
      /\ UNCHANGED <<phase, accepted, born, open, pending, latest, inflight, shadow,
                     sealed, actor, ledger, job, promised>>
  BY DEF vars, memory
<1>2. DiskTypes' /\ Journaling' /\ Journals' = Journals /\ Stores' = Stores /\ Covered' = Covered
  BY <1>1, DiskFrame DEF IInv, Types
<1>3. MemoryTypes'
  BY <1>1 DEF IInv, Types, MemoryTypes
<1>4. Bounded' /\ Holding' /\ Working' /\ Settling' /\ Tracking' /\ Exactness'
  BY <1>1, <1>2 DEF IInv, Bounded, Holding, Holds, Working, Settling, Tracking, Exactness
<1> QED
  BY <1>2, <1>3, <1>4 DEF IInv, Types

\* Every step keeps the invariant.
LEMMA NextStep ==
    ASSUME IInv, [Next]_vars
    PROVE  IInv'
<1>1. CASE Save
  BY <1>1, SaveStep
<1>2. CASE Seal
  BY <1>2, SealStep
<1>3. CASE Take
  BY <1>3, TakeStep
<1>4. CASE Journal
  BY <1>4, JournalStep
<1>5. CASE Journaled
  BY <1>5, JournaledStep
<1>6. CASE Own
  BY <1>6, OwnStep
<1>7. CASE TakeOperation
  BY <1>7, TakeOperationStep
<1>8. CASE Written
  BY <1>8, WrittenStep
<1>9. CASE WriteFailed
  BY <1>9, WriteFailedStep
<1>10. CASE Answer
  BY <1>10, AnswerStep
<1>11. CASE FallbackStarts
  BY <1>11, FallbackStartsStep
<1>12. CASE FallbackEnds
  BY <1>12, FallbackEndsStep
<1>13. CASE Panic
  BY <1>13, PanicStep
<1>14. CASE PanicEnds
  BY <1>14, PanicEndsStep
<1>15. CASE \E w \in Writers : \/ LockTimesOut(w) \/ Prepare(w) \/ Stale(w) \/ Intend(w)
                               \/ Verify(w) \/ WriteStore(w) \/ Commit(w)
  BY <1>15, LockTimesOutStep, PrepareStep, StaleStep, IntendStep, VerifyStep,
     WriteStoreStep, CommitStep
<1>16. CASE Crash
  BY <1>16, CrashStep
<1>17. CASE PowerLoss
  BY <1>17, PowerLossStep
<1>18. CASE Start
  BY <1>18, StartStep
<1>19. CASE StartEnds
  BY <1>19, StartEndsStep
<1>20. CASE UNCHANGED vars
  BY <1>20, StutterStep
<1> QED
  BY <1>1, <1>2, <1>3, <1>4, <1>5, <1>6, <1>7, <1>8, <1>9, <1>10, <1>11, <1>12, <1>13,
     <1>14, <1>15, <1>16, <1>17, <1>18, <1>19, <1>20 DEF Next

-----------------------------------------------------------------------------
(* A candidate keeps its sidecar.                                          *)

\* A step that leaves the disk alone and creates no intent.
LEMMA RecoverableFrame ==
    ASSUME Recoverable, UNCHANGED <<disk, risk, faults>>,
           \A w \in Writers : job'[w].at = "intent" => job'[w] = job[w]
    PROVE  Recoverable'
BY DEF Recoverable, Journals

\* The actions of the memory leave the disk alone, and bring no writer to its
\* intent.
LEMMA MemoryRecoverable ==
    ASSUME IInv, Recoverable,
           \/ Save \/ Seal \/ Take \/ Journal \/ Journaled \/ Own \/ TakeOperation
           \/ Written \/ WriteFailed \/ Answer \/ FallbackStarts \/ FallbackEnds
           \/ Panic \/ PanicEnds \/ Crash \/ Start \/ StartEnds \/ UNCHANGED vars
    PROVE  Recoverable'
<1>1. job \in [Writers -> JobType]
  BY DEF IInv, Types, MemoryTypes
<1>2. CASE Save \/ Seal \/ Take \/ Answer \/ UNCHANGED vars
  BY <1>2, RecoverableFrame DEF Save, Seal, Take, Answer, vars
<1>3. CASE Journaled \/ Written \/ WriteFailed \/ FallbackEnds \/ StartEnds
  <2>1. UNCHANGED <<disk, risk, faults>>
    BY <1>3 DEF Journaled, Written, WriteFailed, FallbackEnds, StartEnds
  <2>2. \E w \in Writers : job' = [job EXCEPT ![w] = Resting]
    BY <1>3 DEF Journaled, Written, WriteFailed, FallbackEnds, StartEnds, Writers
  <2> QED
    BY <1>1, <2>1, <2>2, RestingIs, RecoverableFrame
<1>4. CASE Crash \/ PanicEnds
  <2>1. UNCHANGED <<disk, risk, faults>> /\ \A w \in Writers : job'[w] = Resting
    BY <1>4 DEF Crash, PanicEnds, Die
  <2> QED
    BY <2>1, RestingIs, RecoverableFrame
<1>5. CASE Journal
  BY <1>1, <1>5, RecoverableFrame DEF Journal, Resting
<1>6. CASE Own
  BY <1>1, <1>6, RecoverableFrame DEF Own, Resting
<1>7. CASE TakeOperation
  BY <1>1, <1>7, RestingIs, RecoverableFrame DEF TakeOperation, JobType
<1>8. CASE FallbackStarts
  BY <1>1, <1>8, RecoverableFrame DEF FallbackStarts, Starts, Resting
<1>9. CASE Panic
  BY <1>1, <1>9, RecoverableFrame DEF Panic, Moves, Starts, Resting, JobType
<1>10. CASE Start
  BY <1>1, <1>10, RecoverableFrame DEF Start, Resting
<1> QED
  BY <1>2, <1>3, <1>4, <1>5, <1>6, <1>7, <1>8, <1>9, <1>10

\* Where power may still be lost, a failure is the first one.
LEMMA FirstFault ==
    ASSUME IInv, Losable <= 1, NEW way \in Ways, Count(way), faults' <= Losable, way # "ok"
    PROVE  faults = 0 /\ risk = Settled
<1>1. faults \in Nat /\ faults' = faults + 1 /\ Losable \in Nat
  BY BoundsAssumption DEF Count, IInv, Types, DiskTypes
<1> QED
  BY <1>1 DEF IInv, Journaling

\* Replacing the journal keeps the sidecars of what it replaces and of what it
\* shows.
LEMMA ReplaceRecoverable ==
    ASSUME IInv, Recoverable, Losable <= 1, NEW w \in Writers, Holds(w),
           NEW way \in Ways, NEW j \in JournalType, ReplaceJournal(j, way), Count(way),
           j.candidate \in disk.sidecars \cup {0},
           NEW a \in JobType, job' = [job EXCEPT ![w] = a], a.at # "intent"
    PROVE  Recoverable'
<1>1. /\ disk'.journal = (IF way = "before" THEN disk.journal ELSE j)
      /\ disk'.sidecars = disk.sidecars \cap
           (IF way = "ok" THEN {disk'.journal.candidate}
            ELSE {disk.journal.candidate, disk'.journal.candidate})
  BY DEF ReplaceJournal, Retained, IInv, Types, DiskTypes
<1>2. /\ way = "ok" => risk' = Settled
      /\ way = "before" => risk' = risk
      /\ way = "after" => risk' = [risk EXCEPT !.journals = @ \cup {disk.journal}]
      /\ way \in {"ok", "before", "after"}
  BY DEF ReplaceJournal, Ways
<1>3. disk'.journal.candidate \in disk'.sidecars \cup {0}
  BY <1>1 DEF Recoverable
<1>4. ASSUME faults' <= Losable, NEW i \in Journals'
      PROVE  i.candidate \in (disk'.sidecars \ risk'.sidecars) \cup {0}
  <2>1. CASE way = "ok"
    BY <1>2, <1>3, <1>4, <2>1 DEF Journals, Settled
  <2>2. CASE way # "ok"
    <3>1. risk = Settled
      BY <1>4, <2>2, FirstFault
    <3>2. risk.journals = {} /\ risk.sidecars = {}
      BY <3>1 DEF Settled
    <3>3. risk'.sidecars = {} /\ risk'.journals \subseteq {disk.journal}
      BY <1>2, <2>2, <3>2 DEF IInv, Types, DiskTypes
    <3>4. disk.journal.candidate \in disk'.sidecars \cup {0}
      BY <1>1, <2>2 DEF Recoverable
    <3> QED
      BY <1>3, <1>4, <3>3, <3>4 DEF Journals
  <2> QED
    BY <2>1, <2>2
<1>5. \A v \in Writers : job'[v].at # "intent"
  <2>1. \A v \in Writers \ {w} : ~Holds(v) /\ job'[v] = job[v]
    BY DEF IInv, Holding, Types, MemoryTypes
  <2>2. job'[w] = a
    BY JobUpdate DEF IInv, Types, MemoryTypes
  <2> QED
    BY <2>1, <2>2 DEF Holds
<1> QED
  BY <1>3, <1>4, <1>5 DEF Recoverable

\* Every step of a writer keeps the sidecars of the candidates.
LEMMA WriterRecoverable ==
    ASSUME IInv, Recoverable, Losable <= 1, NEW w \in Writers,
           \/ LockTimesOut(w) \/ Prepare(w) \/ Stale(w) \/ Intend(w)
           \/ Verify(w) \/ WriteStore(w) \/ Commit(w)
    PROVE  Recoverable'
<1>1. job \in [Writers -> JobType] /\ job[w] \in JobType /\ disk.journal \in JournalType
  BY DEF IInv, Types, MemoryTypes, DiskTypes
<1>2. CASE LockTimesOut(w) \/ Verify(w)
  BY <1>1, <1>2, RecoverableFrame DEF LockTimesOut, Verify, Moves, JobType
<1>3. CASE Prepare(w)
  <2>1. PICK way \in Ways :
          /\ PutSidecar(job[w].op, way) /\ Count(way)
          /\ job' = [job EXCEPT ![w].at = IF way = "ok" THEN "intent" ELSE "failed",
                                ![w].created = job[w].op \notin disk.sidecars]
    BY <1>3 DEF Prepare
  <2>2. /\ job[w].op # 0 /\ \A v \in Writers : ~Holds(v)
    BY <1>3 DEF Prepare, LockFree, IInv, Working
  <2>3. \A v \in Writers \ {w} : job'[v].at # "intent"
    BY <1>1, <2>1, <2>2 DEF Holds
  <2>4. /\ job'[w].op = job[w].op
        /\ job'[w].at = "intent" => way = "ok"
        /\ job'[w].created <=> job[w].op \notin disk.sidecars
    BY <1>1, <2>1 DEF JobType
  <2>5. CASE job[w].op \in disk.sidecars
    <3>1. way = "ok" /\ UNCHANGED <<disk, risk>> /\ faults' = faults
      BY <2>1, <2>5 DEF PutSidecar, Count, IInv, Types, DiskTypes
    <3> QED
      BY <2>3, <2>4, <2>5, <3>1 DEF Recoverable, Journals
  <2>6. CASE job[w].op \notin disk.sidecars
    <3>1. /\ disk'.journal = disk.journal
          /\ disk'.sidecars = IF way = "before" THEN disk.sidecars
                              ELSE disk.sidecars \cup {job[w].op}
          /\ way = "ok" => risk' = Settled
          /\ way = "before" => risk' = risk
          /\ way = "after" => risk' = [risk EXCEPT !.sidecars = @ \cup {job[w].op}]
          /\ way \in {"ok", "before", "after"}
      BY <2>1, <2>6 DEF PutSidecar, Ways, IInv, Types, DiskTypes
    <3>2. disk.journal.candidate # job[w].op
      BY <2>2, <2>6 DEF Recoverable
    <3>3. disk'.journal.candidate \in disk'.sidecars \cup {0}
      BY <3>1 DEF Recoverable
    <3>4. ASSUME faults' <= Losable, NEW i \in Journals'
          PROVE  i.candidate \in (disk'.sidecars \ risk'.sidecars) \cup {0}
      <4>1. CASE way = "ok"
        BY <3>1, <3>3, <3>4, <4>1 DEF Journals, Settled
      <4>2. CASE way # "ok"
        <5>1. risk = Settled
          BY <2>1, <3>4, <4>2, FirstFault
        <5>2. risk.journals = {} /\ risk.sidecars = {}
          BY <5>1 DEF Settled
        <5>3. risk'.journals = {} /\ risk'.sidecars \subseteq {job[w].op}
          BY <3>1, <4>2, <5>2 DEF IInv, Types, DiskTypes
        <5> QED
          BY <3>1, <3>2, <3>3, <3>4, <5>3 DEF Journals
      <4> QED
        BY <4>1, <4>2
    <3> QED
      BY <2>3, <2>4, <3>1, <3>2, <3>3, <3>4 DEF Recoverable
  <2> QED
    BY <2>5, <2>6
<1>4. CASE Stale(w)
  <2>1. /\ disk'.journal = disk.journal /\ UNCHANGED <<risk, faults>>
        /\ disk'.sidecars = IF job[w].created THEN disk.sidecars \ {job[w].op}
                            ELSE disk.sidecars
        /\ job[w].at = "intent" /\ Journals' = Journals
    BY <1>4 DEF Stale, IInv, Types, DiskTypes, Journals
  <2>2. \A v \in Writers : job'[v].at # "intent"
    <3>1. \A v \in Writers \ {w} : ~Holds(v)
      BY <2>1 DEF IInv, Holding, Holds
    <3> QED
      BY <1>1, <1>4, <3>1 DEF Stale, Moves, JobType, Holds
  <2>3. CASE job[w].created
    <3>1. risk = Settled /\ disk.journal.candidate # job[w].op
      BY <2>1, <2>3 DEF Recoverable
    <3>2. Journals = {disk.journal} /\ risk.sidecars = {}
      BY <3>1 DEF Journals, Settled
    <3> QED
      BY <2>1, <2>2, <2>3, <3>1, <3>2 DEF Recoverable
  <2>4. CASE ~job[w].created
    BY <2>1, <2>2, <2>4 DEF Recoverable
  <2> QED
    BY <2>3, <2>4
<1>5. CASE Intend(w)
  <2> DEFINE j == Recorded(job[w].op)
  <2>1. PICK way \in Ways :
          /\ ReplaceJournal(j, way) /\ Count(way)
          /\ Moves(w, IF way # "ok" THEN "failed"
                      ELSE IF IsSuperseded(j, job[w].op) \/ job[w].goal = "journal"
                      THEN "done" ELSE "store")
    BY <1>5 DEF Intend
  <2>2. job[w].at = "intent" /\ Holds(w) /\ job[w].op \in disk.sidecars /\ job[w].op \in Nat
    BY <1>1, <1>5 DEF Intend, Holds, IInv, Holding, JobType
  <2>3. j \in JournalType /\ j.candidate \in disk.sidecars \cup {0}
    BY <2>2, RecordedIs DEF IInv, Types, Recoverable
  <2>4. PICK to \in {"failed", "done", "store"} : job' = [job EXCEPT ![w].at = to]
    BY <2>1 DEF Moves
  <2> DEFINE a == [job[w] EXCEPT !.at = to]
  <2>5. a \in JobType /\ a.at # "intent" /\ job' = [job EXCEPT ![w] = a]
    BY <1>1, <2>4 DEF JobType, Stages
  <2> HIDE DEF j, a
  <2> QED
    BY <2>1, <2>2, <2>3, <2>5, ReplaceRecoverable
<1>6. CASE WriteStore(w)
  <2>1. PICK way \in Ways :
          /\ ReplaceStore(job[w].op, way) /\ Count(way)
          /\ Moves(w, IF way = "ok" THEN "commit" ELSE "failed")
    BY <1>6 DEF WriteStore
  <2>2. /\ disk'.journal = disk.journal /\ disk'.sidecars = disk.sidecars
        /\ risk' = Settled \/ (risk'.journals = risk.journals /\ risk'.sidecars = risk.sidecars)
        /\ faults <= faults'
    BY <2>1 DEF ReplaceStore, Ways, Count, IInv, Types, DiskTypes
  <2>3. \A v \in Writers : job'[v].at # "intent"
    <3>1. \A v \in Writers \ {w} : ~Holds(v)
      BY <1>6 DEF WriteStore, IInv, Holding, Holds
    <3> QED
      BY <1>1, <2>1, <3>1 DEF Moves, JobType, Holds
  <2>4. faults' <= Losable => faults <= Losable
    BY <2>1, <2>2, BoundsAssumption DEF Count, IInv, Types, DiskTypes
  <2> QED
    BY <2>2, <2>3, <2>4 DEF Recoverable, Journals, Settled
<1>7. CASE Commit(w)
  <2> DEFINE j == Committed(job[w].op)
  <2>1. PICK way \in Ways :
          /\ ReplaceJournal(j, way) /\ Count(way)
          /\ Moves(w, IF way = "ok" THEN "done" ELSE "failed")
    BY <1>7 DEF Commit
  <2>2. job[w].at = "commit" /\ Holds(w) /\ disk.journal.candidate = job[w].op /\ job[w].op \in Nat
    BY <1>1, <1>7 DEF Commit, Holds, IInv, Holding, JobType
  <2>3. j \in JournalType /\ j.candidate \in disk.sidecars \cup {0}
    BY <2>2, CommittedIs DEF IInv, Types
  <2>4. PICK to \in {"failed", "done"} : job' = [job EXCEPT ![w].at = to]
    BY <2>1 DEF Moves
  <2> DEFINE a == [job[w] EXCEPT !.at = to]
  <2>5. a \in JobType /\ a.at # "intent" /\ job' = [job EXCEPT ![w] = a]
    BY <1>1, <2>4 DEF JobType, Stages
  <2> HIDE DEF j, a
  <2> QED
    BY <2>1, <2>2, <2>3, <2>5, ReplaceRecoverable
<1> QED
  BY <1>2, <1>3, <1>4, <1>5, <1>6, <1>7

\* Every disk that a loss of power may leave can be read.
LEMMA DisksAreReadable ==
    ASSUME IInv, Recoverable, NEW d \in Disks
    PROVE  /\ d.journal \in Journals /\ d.store \in Stores
           /\ d.journal.candidate \in d.sidecars \cup {0}
<1>1. CASE faults > Losable
  <2>1. d = disk
    BY <1>1 DEF Disks
  <2> QED
    BY <2>1 DEF Journals, Stores, Recoverable
<1>2. CASE ~(faults > Losable)
  <2>1. PICK j \in Journals, s \in Stores, lost \in SUBSET risk.sidecars :
          d = [journal |-> j, store |-> s, sidecars |-> disk.sidecars \ lost]
    BY <1>2 DEF Disks, Journals, Stores
  <2>2. faults <= Losable
    BY <1>2, BoundsAssumption DEF IInv, Types, DiskTypes
  <2>3. j.candidate \in (disk.sidecars \ risk.sidecars) \cup {0}
    BY <2>2 DEF Recoverable
  <2> QED
    BY <2>1, <2>3
<1> QED
  BY <1>1, <1>2

\* A loss of power leaves a disk that can be read.
LEMMA PowerLossRecoverable ==
    ASSUME IInv, Recoverable, PowerLoss
    PROVE  Recoverable'
<1>1. /\ disk' \in Disks /\ risk' = Settled /\ UNCHANGED faults
      /\ \A w \in Writers : job'[w] = Resting
  BY DEF PowerLoss, Die
<1>2. Journals' = {disk'.journal} /\ risk'.sidecars = {}
  BY <1>1 DEF Journals, Settled
<1>3. disk'.journal.candidate \in disk'.sidecars \cup {0}
  BY <1>1, DisksAreReadable
<1> QED
  BY <1>1, <1>2, <1>3, RestingIs DEF Recoverable

\* Every step keeps the sidecars of the candidates.
LEMMA RecoverableStep ==
    ASSUME IInv, Recoverable, Losable <= 1, [Next]_vars
    PROVE  Recoverable'
BY MemoryRecoverable, WriterRecoverable, PowerLossRecoverable DEF Next

-----------------------------------------------------------------------------
(* The theorems.                                                           *)

\* A covered order survives: what the next start loads is never older.
LEMMA CoveredSurvives ==
    ASSUME IInv, Recoverable, NEW o \in Covered
    PROVE  Survives(o)
<1> SUFFICES ASSUME NEW d \in Disks
             PROVE  Readable(d) /\ Loaded(d) >= o
  BY DEF Survives
<1>1. /\ d.journal \in Journals /\ d.store \in Stores
      /\ d.journal.candidate \in d.sidecars \cup {0}
  BY DisksAreReadable
<1>2. /\ d.journal \in JournalType /\ d.store \in Nat /\ disk.journal \in JournalType
      /\ o <= Level(d.journal) /\ o \in Nat
  BY <1>1 DEF IInv, Types, DiskTypes, Journals, Stores, Covered
<1>3. /\ d.journal.candidate = 0 \/ d.journal.frontier < d.journal.candidate
      /\ d.journal.frontier <= disk.journal.frontier
      /\ disk.journal.frontier <= d.store
  BY <1>1, <1>2 DEF IInv, Journaling, Bounded, Journals, JournalType
<1> QED
  BY <1>1, <1>2, <1>3 DEF Readable, Loaded, Level, Greater, JournalType

\* The inductive invariant.
THEOREM InvariantHolds == Spec => []IInv
<1>1. Init => IInv
  BY InitInv
<1>2. IInv /\ [Next]_vars => IInv'
  BY NextStep
<1> QED
  BY <1>1, <1>2, PTL DEF Spec

\* The next start can always read the store, as long as power is lost only up to
\* the first failed replacement (persist/recovery.rs, load_with_journal_recovery).
THEOREM CandidatesKeepTheirSidecars == Losable <= 1 /\ Spec => []Recoverable
<1> SUFFICES ASSUME Losable <= 1
             PROVE  Spec => []Recoverable
  OBVIOUS
<1>1. Init => Recoverable
  BY InitInv
<1>2. IInv /\ Recoverable /\ [Next]_vars => Recoverable'
  BY RecoverableStep
<1> QED
  BY <1>1, <1>2, InvariantHolds, PTL DEF Spec

\* What a flush, a targeted flush, the quit fallback or the panic hook reported
\* durable survives every crash, failed replacement and loss of power, whatever
\* order the writers worked in (persist/ordered_fallback.rs:34, persist.rs:808).
THEOREM AnswersSurvive == Losable <= 1 /\ Spec => []AnsweredSurvives
<1>1. IInv /\ Recoverable => AnsweredSurvives
  BY CoveredSurvives DEF AnsweredSurvives, IInv, Settling
<1> QED
  BY <1>1, InvariantHolds, CandidatesKeepTheirSidecars, PTL

\* At every moment of its way the newest accepted snapshot is durable or the
\* panic hook's to write (persist/snapshot_state.rs:193).
THEOREM NewestIsOwned == Losable <= 1 /\ Spec => []PanicOwnsTheNewest
<1>1. IInv /\ Recoverable => PanicOwnsTheNewest
  BY CoveredSurvives DEF PanicOwnsTheNewest, IInv, Tracking
<1> QED
  BY <1>1, InvariantHolds, CandidatesKeepTheirSidecars, PTL

\* Who is told that its snapshot was committed exactly finds exactly it in the
\* store, on every disk that a loss of power may leave, however many
\* replacements failed (persist/handle.rs:206).
THEOREM ExactReportsAreExact == Spec => []ExactIsExact
<1>1. ASSUME IInv, Outcome(actor.target) = "exact"
      PROVE  \A d \in Disks : d.store = actor.target
  <2>1. actor.target = latest /\ latest \in ledger.exact
    BY <1>1 DEF Outcome
  <2>2. latest = accepted /\ accepted <= disk.journal.frontier /\ accepted \in Nat
    BY <1>1, <2>1 DEF IInv, Bounded, Exactness, Types, MemoryTypes
  <2>3. disk.journal \in JournalType /\ Stores \subseteq Nat
    BY <1>1 DEF IInv, Types, DiskTypes, Stores
  <2>4. \A s \in Stores : s = accepted
    BY <1>1, <2>2, <2>3 DEF IInv, Bounded, JournalType
  <2>5. \A d \in Disks : d.store \in Stores
    BY DEF Disks, Stores
  <2> QED
    BY <2>1, <2>2, <2>4, <2>5
<1>2. IInv => ExactIsExact
  BY <1>1 DEF ExactIsExact
<1> QED
  BY <1>2, InvariantHolds, PTL
=============================================================================
