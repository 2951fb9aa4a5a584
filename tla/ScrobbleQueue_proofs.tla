----------------------- MODULE ScrobbleQueue_proofs -----------------------
(* Type correctness of ScrobbleQueue, and the promises of the queue: no     *)
(* filed listen is lost, none is submitted twice without uncertainty, what  *)
(* the bridge was shown stays protected on disk, the stages of a handoff    *)
(* are confirmed in their order, and protected markers always fit the cap.  *)
EXTENDS ScrobbleQueue, SequenceTheorems, FunctionTheorems, FiniteSetTheorems, TLAPS

-----------------------------------------------------------------------------
(* Types *)

Stages == {"bridge", "source", "scope"}
ActorTypes ==
  [at : {"idle", "listen", "flush", "settle", "send"},
   pend : SUBSET Entry, entries : SUBSET Entry, lanes : Seq(Services),
   acks : SUBSET (Listens \X Services), confirms : SUBSET (Listens \X Stages),
   handles : [Listens -> {"none", "open", "durable"}]]

Types ==
  /\ file \in [lines : SUBSET Entry, torn : BOOLEAN]
  /\ audit \subseteq Listens \X {"generic", "exact", "scope"}
  /\ lock \in {Free} \cup (Processes \X {"append", "flush"})
  /\ actors \in [Processes -> ActorTypes]
  /\ heard \in 0..MaxListens
  /\ sent \in [Services -> [Listens -> {"none", "taken", "unsure", "twice"}]]
  /\ faults \in Nat
  /\ past \in [filed : SUBSET (Listens \X (Services \cup {"exact"})),
               exposed : SUBSET Listens]

\* An entry of S that owes i to k; what Obligations lists.
Owing(S, i, k) == \E e \in S : e.id = i /\ (k \in e.pending \/ (k = "exact" /\ OwesExact(e)))
\* An entry of S that no cap may take from the bridge.
Shielded(S, i) == \E e \in S : e.id = i /\ IsStarted(e)

LEMMA ObligationsAre ==
  ASSUME NEW e \in Entry, NEW i, NEW k
  PROVE  <<i, k>> \in Obligations(e)
           <=> e.id = i /\ (k \in e.pending \/ (k = "exact" /\ OwesExact(e)))
BY DEF Obligations

LEMMA ObligationsType ==
  ASSUME NEW e \in Entry
  PROVE  Obligations(e) \subseteq Listens \X (Services \cup {"exact"})
BY DEF Obligations, Entry

-----------------------------------------------------------------------------
(* The operators on sets of entries *)

LEMMA OldestSubset == ASSUME NEW I, NEW n PROVE Oldest(I, n) \subseteq I
BY DEF Oldest

LEMMA NewestSubset == ASSUME NEW I, NEW n PROVE Newest(I, n) \subseteq I
BY DEF Newest

\* Stripping the services that answered takes nothing else away.
LEMMA StrippedIs ==
  ASSUME NEW S \in SUBSET Entry, NEW acks
  PROVE  /\ Stripped(S, acks) \subseteq Entry
         /\ \A f \in Stripped(S, acks) :
              \E e \in S : /\ f.id = e.id /\ f.exact = e.exact
                           /\ \A s : s \in f.pending <=> s \in e.pending /\ <<e.id, s>> \notin acks
<1> DEFINE Left(e) == {s \in e.pending : <<e.id, s>> \notin acks}
           F(e) == Owed(e, Left(e))
<1>1. \A e \in S : /\ F(e) \in Entry /\ F(e).id = e.id /\ F(e).exact = e.exact
                   /\ F(e).pending = Left(e)
  <2> SUFFICES ASSUME NEW e \in S PROVE F(e) \in Entry /\ F(e).id = e.id
                /\ F(e).exact = e.exact /\ F(e).pending = Left(e)
    OBVIOUS
  <2>1. Left(e) \in SUBSET Services
    BY DEF Entry
  <2> HIDE DEF Left
  <2> QED BY <2>1 DEF Entry, Owed
<1>2. Stripped(S, acks) = {g \in {F(e) : e \in S} : Owes(g)}
  BY DEF Stripped
<1>3. \A f \in Stripped(S, acks) : \E e \in S : f = F(e)
  <2> HIDE DEF F, Left
  <2> QED BY <1>2
<1>5. \A f \in Stripped(S, acks) : f \in Entry
  <2> HIDE DEF F, Left
  <2> QED BY <1>1, <1>3
<1>6. \A e, s : s \in Left(e) <=> s \in e.pending /\ <<e.id, s>> \notin acks
  OBVIOUS
<1>7. \A f \in Stripped(S, acks) : \E e \in S :
        /\ f.id = e.id /\ f.exact = e.exact
        /\ \A s : s \in f.pending <=> s \in e.pending /\ <<e.id, s>> \notin acks
  <2> HIDE DEF F, Left
  <2> QED BY <1>1, <1>3, <1>6
<1> QED BY <1>5, <1>7

LEMMA StrippedHas ==
  ASSUME NEW S, NEW acks, NEW e \in S,
         Owes(Owed(e, {s \in e.pending : <<e.id, s>> \notin acks}))
  PROVE  Owed(e, {s \in e.pending : <<e.id, s>> \notin acks}) \in Stripped(S, acks)
BY DEF Stripped

LEMMA StrippedKeeps ==
  ASSUME NEW S \in SUBSET Entry, NEW acks \in SUBSET (Listens \X Services),
         NEW i, NEW k, Owing(S, i, k), <<i, k>> \notin acks
  PROVE  Owing(Stripped(S, acks), i, k)
<1>1. PICK e \in S : e.id = i /\ (k \in e.pending \/ (k = "exact" /\ OwesExact(e)))
  BY DEF Owing
<1> DEFINE f == Owed(e, {s \in e.pending : <<e.id, s>> \notin acks})
<1>2. f.id = e.id /\ f.exact = e.exact /\ f.pending = {s \in e.pending : <<e.id, s>> \notin acks}
  BY DEF Owed
<1>3. Owes(f) /\ (k \in f.pending \/ (k = "exact" /\ OwesExact(f)))
  BY <1>1, <1>2 DEF Owes, OwesExact
<1>4. f \in Stripped(S, acks)
  BY <1>3, StrippedHas
<1> QED BY <1>1, <1>2, <1>3, <1>4 DEF Owing

LEMMA StrippedOwes ==
  ASSUME NEW S \in SUBSET Entry, NEW acks, NEW i, NEW k, Owing(Stripped(S, acks), i, k)
  PROVE  Owing(S, i, k) /\ (k \in Services => <<i, k>> \notin acks)
<1>1. PICK f \in Stripped(S, acks) : f.id = i /\ (k \in f.pending \/ (k = "exact" /\ OwesExact(f)))
  BY DEF Owing
<1>2. PICK e \in S : /\ f.id = e.id /\ f.exact = e.exact
                     /\ \A s : s \in f.pending <=> s \in e.pending /\ <<e.id, s>> \notin acks
  BY StrippedIs
<1>3. k \in Services => k # "exact"
  BY CapsAssumption
<1> QED BY <1>1, <1>2, <1>3 DEF Owing, OwesExact

LEMMA StrippedShields ==
  ASSUME NEW S \in SUBSET Entry, NEW acks, NEW i, Shielded(S, i)
  PROVE  Shielded(Stripped(S, acks), i)
<1>1. PICK e \in S : e.id = i /\ IsStarted(e)
  BY DEF Shielded
<1> DEFINE f == Owed(e, {s \in e.pending : <<e.id, s>> \notin acks})
<1>2. f.id = e.id /\ f.exact = e.exact
  BY DEF Owed
<1>3. Owes(f) /\ IsStarted(f)
  BY <1>1, <1>2 DEF Owes, IsStarted
<1>4. f \in Stripped(S, acks)
  BY <1>3, StrippedHas
<1> QED BY <1>1, <1>2, <1>3, <1>4 DEF Shielded

\* A cap gives up what the audit will list, and nothing that is started.
LEMMA CappedIs ==
  ASSUME NEW S \in SUBSET Entry
  PROVE  /\ Capped(S) \subseteq Entry
         /\ \A f \in Capped(S) :
              \E e \in S : /\ f.id = e.id
                           /\ f.pending = {} \/ f.pending = e.pending
                           /\ f.exact = "none" \/ f.exact = e.exact
         /\ \A e \in S : LET f == Without(e, EvictedGeneric(S), EvictedExact(S)) IN
              Owes(f) => f \in Capped(S)
<1> DEFINE F(e) == Without(e, EvictedGeneric(S), EvictedExact(S))
<1>1. \A e \in S : /\ F(e) \in Entry /\ F(e).id = e.id
                   /\ F(e).pending = {} \/ F(e).pending = e.pending
                   /\ F(e).exact = "none" \/ F(e).exact = e.exact
  BY DEF Without, Entry, Markers
<1>2. Capped(S) = {g \in {F(e) : e \in S} : Owes(g)}
  BY DEF Capped
<1> HIDE DEF F
<1>3. \A f \in Capped(S) : \E e \in S : f = F(e)
  BY <1>2
<1>4. \A e \in S : Owes(F(e)) => F(e) \in Capped(S)
  BY <1>2
<1>5. \A f \in Capped(S) : f \in Entry
  BY <1>1, <1>3
<1>6. \A f \in Capped(S) : \E e \in S :
        /\ f.id = e.id
        /\ f.pending = {} \/ f.pending = e.pending
        /\ f.exact = "none" \/ f.exact = e.exact
  BY <1>1, <1>3
<1>7. \A e \in S : Owes(Without(e, EvictedGeneric(S), EvictedExact(S)))
                   => Without(e, EvictedGeneric(S), EvictedExact(S)) \in Capped(S)
  BY <1>4 DEF F
<1> QED BY <1>5, <1>6, <1>7

LEMMA CappedKeeps ==
  ASSUME NEW S \in SUBSET Entry, NEW i, NEW k \in Services \cup {"exact"}, Owing(S, i, k)
  PROVE  \/ Owing(Capped(S), i, k)
         \/ k \in Services /\ <<i, "generic">> \in Drops(S)
         \/ k = "exact" /\ <<i, "exact">> \in Drops(S)
<1>1. PICK e \in S : e.id = i /\ (k \in e.pending \/ (k = "exact" /\ OwesExact(e)))
  BY DEF Owing
<1> DEFINE G == EvictedGeneric(S)
           X == EvictedExact(S)
           f == Without(e, G, X)
<1>2. f.id = i /\ (i \notin G => f.pending = e.pending) /\ (i \notin X => f.exact = e.exact)
  BY <1>1 DEF Without
<1>3. (i \in G => <<i, "generic">> \in Drops(S)) /\ (i \in X => <<i, "exact">> \in Drops(S))
  BY DEF Drops
<1> HIDE DEF f, G, X
<1>4. "exact" \notin e.pending
  BY CapsAssumption DEF Entry
<1>5. CASE k \in e.pending /\ i \notin G
  <2>1. f.pending = e.pending /\ Owes(f)
    BY <1>2, <1>5 DEF Owes
  <2>2. f \in Capped(S)
    BY <2>1, CappedIs DEF f, G, X
  <2> QED BY <2>1, <2>2, <1>2, <1>5 DEF Owing
<1>6. CASE k = "exact" /\ OwesExact(e) /\ i \notin X
  <2>1. OwesExact(f) /\ Owes(f)
    BY <1>2, <1>6 DEF Owes, OwesExact
  <2>2. f \in Capped(S)
    BY <2>1, CappedIs DEF f, G, X
  <2> QED BY <2>1, <2>2, <1>2, <1>6 DEF Owing
<1> QED BY <1>1, <1>3, <1>4, <1>5, <1>6

LEMMA CappedOwes ==
  ASSUME NEW S \in SUBSET Entry, NEW i, NEW k, Owing(Capped(S), i, k)
  PROVE  Owing(S, i, k)
<1>1. PICK f \in Capped(S) : f.id = i /\ (k \in f.pending \/ (k = "exact" /\ OwesExact(f)))
  BY DEF Owing
<1>2. PICK e \in S : /\ f.id = e.id
                     /\ f.pending = {} \/ f.pending = e.pending
                     /\ f.exact = "none" \/ f.exact = e.exact
  BY CappedIs
<1> QED BY <1>1, <1>2 DEF Owing, OwesExact

LEMMA CappedUnique ==
  ASSUME NEW S \in SUBSET Entry, \A e, f \in S : e.id = f.id => e = f
  PROVE  \A e, f \in Capped(S) : e.id = f.id => e = f
<1> DEFINE F(e) == Without(e, EvictedGeneric(S), EvictedExact(S))
<1>1. \A e \in S : F(e).id = e.id
  BY DEF Without
<1>2. Capped(S) \subseteq {F(e) : e \in S}
  BY DEF Capped
<1> HIDE DEF F
<1> QED BY <1>1, <1>2

\* With one entry per listen, a started one survives the cap.
LEMMA CappedShields ==
  ASSUME NEW S \in SUBSET Entry, NEW i, Shielded(S, i),
         \A e, f \in S : e.id = f.id => e = f
  PROVE  Shielded(Capped(S), i)
<1>1. PICK e \in S : e.id = i /\ IsStarted(e)
  BY DEF Shielded
<1> DEFINE f == Without(e, EvictedGeneric(S), EvictedExact(S))
<1>2. i \notin Ids({d \in Exact(S) : ~IsStarted(d)})
  BY <1>1 DEF Ids, Exact
<1>3. i \notin EvictedExact(S)
  BY <1>2, NewestSubset DEF EvictedExact
<1>4. f.id = i /\ f.exact = e.exact
  BY <1>1, <1>3 DEF Without
<1>5. IsStarted(f) /\ Owes(f)
  BY <1>1, <1>4 DEF IsStarted, Owes
<1>6. f \in Capped(S)
  BY <1>5, CappedIs
<1> QED BY <1>4, <1>5, <1>6 DEF Shielded

\* Marking an entry started changes neither what it owes nor whom.
LEMMA StartedIs ==
  ASSUME NEW S \in SUBSET Entry
  PROVE  /\ Started(S) \subseteq Entry
         /\ \A f \in Started(S) : OwesExact(f) => IsStarted(f)
         /\ \A i, k : Owing(Started(S), i, k) <=> Owing(Capped(S), i, k)
         /\ \A i : Shielded(Capped(S), i) => Shielded(Started(S), i)
<1>1. /\ Capped(S) \subseteq Entry
      /\ \A e \in Capped(S) : /\ Start(e) \in Started(S)
                              /\ Start(e).id = e.id /\ Start(e).pending = e.pending
                              /\ OwesExact(Start(e)) <=> OwesExact(e)
                              /\ IsStarted(e) => IsStarted(Start(e))
                              /\ OwesExact(Start(e)) => IsStarted(Start(e))
                              /\ Start(e) \in Entry
  BY CappedIs DEF Started, Start, Marked, Entry, Markers, OwesExact, IsStarted
<1>2. \A f \in Started(S) : \E e \in Capped(S) : f = Start(e)
  BY DEF Started
<1>3. Started(S) \subseteq Entry /\ \A f \in Started(S) : OwesExact(f) => IsStarted(f)
  BY <1>1, <1>2
<1>4. ASSUME NEW i, NEW k PROVE Owing(Started(S), i, k) <=> Owing(Capped(S), i, k)
  BY <1>1, <1>2 DEF Owing
<1>5. ASSUME NEW i, Shielded(Capped(S), i) PROVE Shielded(Started(S), i)
  BY <1>1, <1>5 DEF Shielded
<1> QED BY <1>3, <1>4, <1>5

LEMMA IdsShrink ==
  ASSUME NEW S \in SUBSET Entry, NEW acks
  PROVE  /\ Ids(Stripped(S, acks)) \subseteq Ids(S)
         /\ Ids(Capped(S)) \subseteq Ids(S)
         /\ Ids(Started(S)) \subseteq Ids(S)
<1>1. Ids(Stripped(S, acks)) \subseteq Ids(S)
  <2>1. \A f \in Stripped(S, acks) : \E e \in S : f.id = e.id
    BY StrippedIs
  <2> QED BY <2>1 DEF Ids
<1>2. Ids(Capped(S)) \subseteq Ids(S)
  BY CappedIs DEF Ids
<1>3. \A f \in Started(S) : \E e \in Capped(S) : f.id = e.id
  BY DEF Started, Start, Marked
<1>4. Ids(Started(S)) \subseteq Ids(Capped(S))
  BY <1>3 DEF Ids
<1> QED BY <1>1, <1>2, <1>4

-----------------------------------------------------------------------------
(* What settling makes of the file *)

LEMMA CompactedIs ==
  ASSUME Types, NEW a \in ActorTypes, NEW old
  PROVE  /\ Compacted(a, old) \subseteq Entry
         /\ \A f \in Compacted(a, old) :
              \E e \in file.lines : f = Aged(Advanced(a, e), old)
         /\ \A e \in file.lines : LET f == Aged(Advanced(a, e), old) IN
              /\ f.id = e.id
              /\ f.pending = e.pending \/ (e.id <= old /\ f.pending = e.pending \ Aging)
              /\ f.exact = Advanced(a, e).exact
              /\ Owes(f) => f \in Compacted(a, old)
<1> DEFINE F(e) == Aged(Advanced(a, e), old)
<1>1. \A e \in file.lines : Advanced(a, e).id = e.id /\ Advanced(a, e).pending = e.pending
                            /\ Advanced(a, e).exact \in Markers
  <2> SUFFICES ASSUME NEW e \in file.lines
               PROVE  Advanced(a, e).id = e.id /\ Advanced(a, e).pending = e.pending
                      /\ Advanced(a, e).exact \in Markers
    OBVIOUS
  <2>1. e \in Entry
    BY DEF Types
  <2> QED BY <2>1 DEF Advanced, Marked, Entry, Markers
<1>2. \A e \in file.lines :
        /\ F(e).id = e.id /\ F(e).exact = Advanced(a, e).exact
        /\ F(e).pending = e.pending \/ (e.id <= old /\ F(e).pending = e.pending \ Aging)
  BY <1>1 DEF Aged, Owed
<1>3. \A e \in file.lines : F(e) \in Entry
  <2> SUFFICES ASSUME NEW e \in file.lines PROVE F(e) \in Entry
    OBVIOUS
  <2>1. e \in Entry
    BY DEF Types
  <2>2. e.id \in Listens /\ e.pending \in SUBSET Services
    BY <2>1 DEF Entry
  <2> QED BY <1>1, <2>2 DEF Aged, Owed, Entry
<1> DEFINE A == {Advanced(a, e) : e \in file.lines}
<1>4. Compacted(a, old) = {g \in {Aged(b, old) : b \in A} : Owes(g)}
  BY DEF Compacted, Living
<1>5. \A f \in Compacted(a, old) : \E e \in file.lines : f = F(e)
  <2> SUFFICES ASSUME NEW f \in Compacted(a, old) PROVE \E e \in file.lines : f = F(e)
    OBVIOUS
  <2>1. PICK b \in A : f = Aged(b, old)
    BY <1>4
  <2>2. PICK e \in file.lines : b = Advanced(a, e)
    OBVIOUS
  <2> QED BY <2>1, <2>2
<1>6. \A e \in file.lines : Owes(F(e)) => F(e) \in Compacted(a, old)
  <2> SUFFICES ASSUME NEW e \in file.lines, Owes(F(e)) PROVE F(e) \in Compacted(a, old)
    OBVIOUS
  <2>1. Advanced(a, e) \in A
    OBVIOUS
  <2> QED BY <1>4, <2>1
<1> HIDE DEF F
<1>7. \A f \in Compacted(a, old) : f \in Entry
  BY <1>3, <1>5
<1>8. \A e \in file.lines :
        /\ F(e).id = e.id
        /\ F(e).pending = e.pending \/ (e.id <= old /\ F(e).pending = e.pending \ Aging)
        /\ F(e).exact = Advanced(a, e).exact
        /\ Owes(F(e)) => F(e) \in Compacted(a, old)
  BY <1>2, <1>6
<1> QED BY <1>5, <1>7, <1>8 DEF F

\* Markers advance only by a confirmation for a listen that carries one.
LEMMA AdvancedIs ==
  ASSUME Types, OneLinePerListen, NEW a \in ActorTypes, NEW e \in file.lines
  PROVE  /\ Advanced(a, e).exact \in {e.exact, "none", "durable"}
         /\ e.exact = "none" => Advanced(a, e).exact = "none"
         /\ a.confirms = {} => Advanced(a, e).exact = e.exact
         /\ Advanced(a, e).exact = "none" => \/ e.exact = "none"
                                             \/ e.id \in Confirmed(a, "scope")
                                             \/ e.id \in Confirmed(a, "source")
<1>1. \A stage : e.id \in Confirmed(a, stage) => OwesExact(e) /\ a.confirms # {}
  BY DEF Confirmed, Exact, OneLinePerListen
<1> QED BY <1>1 DEF Advanced, Marked, OwesExact

LEMMA CompactedUnique ==
  ASSUME Types, OneLinePerListen, NEW a \in ActorTypes, NEW old
  PROVE  \A e, f \in Compacted(a, old) : e.id = f.id => e = f
BY CompactedIs DEF OneLinePerListen

LEMMA CompactedKeeps ==
  ASSUME Types, OneLinePerListen, NEW a \in ActorTypes, NEW old,
         NEW i, NEW k \in Services \cup {"exact"}, Owing(file.lines, i, k)
  PROVE  \/ Owing(Compacted(a, old), i, k)
         \/ k \in Aging /\ i <= old
         \/ k = "exact" /\ i \in Confirmed(a, "scope") \cup Confirmed(a, "source")
<1>1. PICK e \in file.lines : e.id = i /\ (k \in e.pending \/ (k = "exact" /\ OwesExact(e)))
  BY DEF Owing
<1> DEFINE f == Aged(Advanced(a, e), old)
<1>2. /\ f.id = i
      /\ f.pending = e.pending \/ (i <= old /\ f.pending = e.pending \ Aging)
      /\ f.exact = Advanced(a, e).exact
      /\ Owes(f) => f \in Compacted(a, old)
  BY <1>1, CompactedIs
<1> HIDE DEF f
<1>3. CASE k \in e.pending /\ ~(k \in Aging /\ i <= old)
  <2>1. k \in f.pending
    BY <1>2, <1>3
  <2> QED BY <1>2, <2>1 DEF Owing, Owes
<1>4. CASE k = "exact" /\ OwesExact(e) /\ i \notin Confirmed(a, "scope") \cup Confirmed(a, "source")
  <2>1. OwesExact(f)
    BY <1>1, <1>2, <1>4, AdvancedIs DEF OwesExact
  <2> QED BY <1>2, <1>4, <2>1 DEF Owing, Owes, OwesExact
<1> QED BY <1>1, <1>3, <1>4

LEMMA CompactedOwes ==
  ASSUME Types, NEW a \in ActorTypes, NEW old, NEW i, NEW k \in Services,
         Owing(Compacted(a, old), i, k)
  PROVE  Owing(file.lines, i, k)
<1>0. k # "exact"
  BY CapsAssumption
<1>1. PICK f \in Compacted(a, old) : f.id = i /\ k \in f.pending
  BY <1>0 DEF Owing
<1>2. PICK e \in file.lines : f = Aged(Advanced(a, e), old)
  BY CompactedIs
<1>3. f.id = e.id /\ (f.pending = e.pending \/ f.pending = e.pending \ Aging)
  BY <1>2, CompactedIs
<1>4. e.id = i /\ k \in e.pending
  BY <1>1, <1>3
<1> QED BY <1>4 DEF Owing

LEMMA CompactedShields ==
  ASSUME Types, OneLinePerListen, NEW a \in ActorTypes, NEW old, NEW i,
         Shielded(file.lines, i), i \notin Confirmed(a, "scope"), i \notin Confirmed(a, "source")
  PROVE  Shielded(Compacted(a, old), i)
<1>1. PICK e \in file.lines : e.id = i /\ IsStarted(e)
  BY DEF Shielded
<1> DEFINE f == Aged(Advanced(a, e), old)
<1>2. f.id = i /\ f.exact = Advanced(a, e).exact /\ (Owes(f) => f \in Compacted(a, old))
  BY <1>1, CompactedIs
<1> HIDE DEF f
<1>3. IsStarted(f)
  BY <1>1, <1>2, AdvancedIs DEF IsStarted
<1> QED BY <1>2, <1>3 DEF Shielded, IsStarted, Owes

LEMMA CompactedIds ==
  ASSUME Types, NEW a \in ActorTypes, NEW old
  PROVE  Ids(Compacted(a, old)) \subseteq Ids(file.lines)
BY CompactedIs DEF Ids

-----------------------------------------------------------------------------
(* From the file to the entries a flush sends *)

LEMMA SettledType ==
  ASSUME Types, NEW a \in ActorTypes, NEW old
  PROVE  /\ Started(Compacted(a, old)) \subseteq Entry
         /\ Ids(Started(Compacted(a, old))) \subseteq Ids(file.lines)
BY CompactedIs, StartedIs, CompactedIds, IdsShrink

LEMMA SettledKeeps ==
  ASSUME Types, OneLinePerListen, NEW a \in ActorTypes, NEW old,
         NEW i, NEW k \in Services \cup {"exact"}, Owing(file.lines, i, k)
  PROVE  \/ Owing(Started(Compacted(a, old)), i, k)
         \/ k \in Aging /\ i <= old
         \/ k = "exact" /\ i \in Confirmed(a, "scope") \cup Confirmed(a, "source")
         \/ k \in Services /\ <<i, "generic">> \in Drops(Compacted(a, old))
         \/ k = "exact" /\ <<i, "exact">> \in Drops(Compacted(a, old))
BY CompactedIs, CompactedKeeps, CappedKeeps, StartedIs

LEMMA SettledOwes ==
  ASSUME Types, NEW a \in ActorTypes, NEW old, NEW i, NEW k \in Services,
         Owing(Started(Compacted(a, old)), i, k)
  PROVE  Owing(file.lines, i, k)
BY CompactedIs, CompactedOwes, CappedOwes, StartedIs

LEMMA SettledShields ==
  ASSUME Types, OneLinePerListen, NEW a \in ActorTypes, NEW old, NEW i,
         Shielded(file.lines, i), i \notin Confirmed(a, "scope"), i \notin Confirmed(a, "source")
  PROVE  Shielded(Started(Compacted(a, old)), i)
BY CompactedIs, CompactedUnique, CompactedShields, CappedShields, StartedIs

\* What a flush exposes without a rewrite was started on disk already.
LEMMA UncommittedShields ==
  ASSUME Types, OneLinePerListen, NEW a \in ActorTypes, NEW old,
         ~MustCommit(a, Compacted(a, old)),
         NEW i \in Ids(Exact(Started(Compacted(a, old))))
  PROVE  Shielded(file.lines, i)
<1> DEFINE C == Compacted(a, old)
<1>1. a.confirms = {} /\ Started(C) = Capped(C) /\ C \subseteq Entry
  BY CompactedIs DEF MustCommit
<1>2. PICK f \in Started(C) : f.id = i /\ OwesExact(f) /\ IsStarted(f)
  BY <1>1, StartedIs DEF Ids, Exact
<1> HIDE DEF C
<1>3. PICK g \in C : f.id = g.id /\ (f.exact = "none" \/ f.exact = g.exact)
  BY <1>1, <1>2, CappedIs
<1>4. PICK e \in file.lines : g = Aged(Advanced(a, e), old)
  BY CompactedIs DEF C
<1>5. g.id = e.id /\ g.exact = e.exact
  BY <1>1, <1>4, CompactedIs, AdvancedIs
<1>6. e.id = i /\ IsStarted(e)
  BY <1>2, <1>3, <1>5 DEF OwesExact, IsStarted
<1> QED BY <1>6 DEF Shielded

LEMMA StartedShields ==
  ASSUME NEW S \in SUBSET Entry, NEW i \in Ids(Exact(Started(S)))
  PROVE  Shielded(Started(S), i)
BY StartedIs DEF Ids, Exact, Shielded

-----------------------------------------------------------------------------
(* Who may hold what: the part of the invariant the promises rest on *)

\* The lock stays with the process that sends, or has answers to write.
LockHeld ==
  \A p \in Processes :
    actors[p].acks # {} \/ actors[p].at = "send" => lock = <<p, "flush">>
AcksRest ==
  \A p \in Processes : actors[p].at \in {"flush", "settle", "send"} => actors[p].acks = {}

\* Nothing is known of a listen that has not happened.
Known ==
  /\ \A e \in file.lines : e.id <= heard
  /\ \A p \in Processes :
       /\ \A e \in actors[p].pend : e.id <= heard
       /\ \A e \in actors[p].entries : e.id <= heard
       /\ \A c \in actors[p].acks : c[1] <= heard
  /\ \A s \in Services, i \in Listens : sent[s][i] # "none" => i <= heard

\* A listen is retained once, by one process.
PendApart ==
  \A p, q \in Processes : \A e \in actors[p].pend, f \in actors[q].pend :
    e.id = f.id => p = q /\ e = f
\* A retained listen is on disk only if it is the one whose append is uncertain.
PendUnfiled ==
  \A p \in Processes : \A e \in actors[p].pend :
    e.id \in Ids(file.lines)
      => lock = <<p, "append">> /\ \A f \in actors[p].pend : e.id <= f.id
\* What is retained is not being sent, and has not been answered.
PendUnsent ==
  \A p, q \in Processes : \A e \in actors[p].pend :
    /\ e.id \notin Ids(actors[q].entries)
    /\ \A c \in actors[q].acks : c[1] # e.id

Base == Types /\ LockHeld /\ AcksRest /\ Known /\ PendApart /\ PendUnfiled /\ PendUnsent

LEMMA Becomes ==
  ASSUME Types, NEW p \in Processes, NEW b \in ActorTypes, Become(p, b)
  PROVE  /\ actors' \in [Processes -> ActorTypes]
         /\ actors'[p] = b
         /\ \A q \in Processes \ {p} : actors'[q] = actors[q]
BY DEF Types, Become

\* A step of one process keeps Base when it keeps the locks of the others, and
\* only files what it retained or was sending, and only sends what was on disk.
LEMMA BaseStep ==
  ASSUME Base, Types', NEW p \in Processes, NEW b \in ActorTypes, Become(p, b),
         heard' = heard,
         \A q \in Processes \ {p} : lock \in {<<q, "append">>, <<q, "flush">>} => lock' = lock,
         b.acks # {} \/ b.at = "send" => lock' = <<p, "flush">>,
         b.at \in {"flush", "settle", "send"} => b.acks = {},
         \A e \in b.pend : \E f \in actors[p].pend : e.id = f.id,
         \A e, f \in b.pend : e.id = f.id => e = f,
         \A e \in file'.lines :
           e.id \in Ids(file.lines) \cup Ids(actors[p].entries) \cup Ids(actors[p].pend),
         \A e \in b.pend : e.id \in Ids(file'.lines)
           => lock' = <<p, "append">> /\ \A f \in b.pend : e.id <= f.id,
         \A e \in b.entries : \/ e.id \in Ids(actors[p].entries)
                              \/ lock = Free /\ e.id \in Ids(file.lines),
         \A c \in b.acks : c \in actors[p].acks \/ c[1] \in Ids(actors[p].entries),
         \A s \in Services, i \in Listens : sent'[s][i] # "none" => i <= heard
  PROVE  Base'
<1>1. /\ actors'[p] = b
      /\ \A q \in Processes \ {p} : actors'[q] = actors[q]
  BY Becomes DEF Base
<1>2. LockHeld'
  BY <1>1 DEF Base, LockHeld
<1>3. AcksRest'
  BY <1>1 DEF Base, AcksRest
<1>4. Known'
  <2>1. \A e \in file'.lines : e.id <= heard
    BY DEF Base, Known, Ids
  <2>2. \A e \in b.pend : e.id <= heard
    BY DEF Base, Known
  <2>3. \A e \in b.entries : e.id <= heard
    BY DEF Base, Known, Ids
  <2>4. \A c \in b.acks : c[1] <= heard
    BY DEF Base, Known, Ids
  <2> QED BY <1>1, <2>1, <2>2, <2>3, <2>4 DEF Base, Known
<1>5. PendApart'
  BY <1>1 DEF Base, PendApart
<1>6. PendUnfiled'
  <2> SUFFICES ASSUME NEW q \in Processes, NEW e \in actors'[q].pend, e.id \in Ids(file'.lines)
               PROVE  lock' = <<q, "append">> /\ \A f \in actors'[q].pend : e.id <= f.id
    BY DEF PendUnfiled
  <2>1. CASE q = p
    BY <1>1, <2>1
  <2>2. CASE q # p
    <3>1. e \in actors[q].pend
      BY <1>1, <2>2
    <3>2. e.id \notin Ids(actors[p].entries)
      BY <3>1 DEF Base, PendUnsent
    <3>3. e.id \notin Ids(actors[p].pend)
      BY <2>2, <3>1 DEF Base, PendApart, Ids
    <3>4. e.id \in Ids(file.lines)
      BY <3>2, <3>3 DEF Ids
    <3>5. lock = <<q, "append">> /\ \A f \in actors[q].pend : e.id <= f.id
      BY <3>1, <3>4 DEF Base, PendUnfiled
    <3> QED BY <1>1, <2>2, <3>5
  <2> QED BY <2>1, <2>2
<1>7. PendUnsent'
  <2> SUFFICES ASSUME NEW o \in Processes, NEW q \in Processes, NEW e \in actors'[o].pend
               PROVE  /\ e.id \notin Ids(actors'[q].entries)
                      /\ \A c \in actors'[q].acks : c[1] # e.id
    BY DEF PendUnsent
  <2>1. PICK f \in actors[o].pend : e.id = f.id
    BY <1>1
  <2>2. /\ \A r \in Processes : f.id \notin Ids(actors[r].entries)
        /\ \A r \in Processes : \A c \in actors[r].acks : c[1] # f.id
    BY <2>1 DEF Base, PendUnsent
  <2>3. lock = Free => f.id \notin Ids(file.lines)
    BY <2>1, CapsAssumption DEF Base, PendUnfiled
  <2>4. CASE q = p
    <3>1. e.id \notin Ids(b.entries)
      BY <2>1, <2>2, <2>3 DEF Ids
    <3>2. \A c \in b.acks : c[1] # e.id
      BY <2>1, <2>2
    <3> QED BY <1>1, <2>4, <3>1, <3>2
  <2>5. CASE q # p
    BY <1>1, <2>1, <2>2, <2>5
  <2> QED BY <2>4, <2>5
<1> QED BY <1>2, <1>3, <1>4, <1>5, <1>6, <1>7 DEF Base

-----------------------------------------------------------------------------
(* Every action keeps Base *)

LEMMA ActorIs ==
  ASSUME Types, NEW p \in Processes
  PROVE  /\ actors[p] \in ActorTypes
         /\ [actors[p] EXCEPT !.at = "idle"] \in ActorTypes
<1>1. actors[p] \in ActorTypes
  BY DEF Types
<1> QED BY <1>1 DEF ActorTypes

LEMMA LocksDiffer ==
  ASSUME NEW p \in Processes
  PROVE  <<p, "append">> # Free /\ <<p, "flush">> # Free /\ <<p, "append">> # <<p, "flush">>
BY CapsAssumption

LEMMA OnwardIs ==
  ASSUME NEW a \in ActorTypes
  PROVE  /\ Onward(a) \in ActorTypes
         /\ Onward(a).pend = a.pend /\ Onward(a).entries = a.entries
         /\ Onward(a).lanes = a.lanes /\ Onward(a).acks = a.acks
         /\ Onward(a).confirms = a.confirms /\ Onward(a).handles = a.handles
         /\ Onward(a).at # "send"
         /\ a.at = "listen" => Onward(a).at \in {"idle", "listen"}
BY DEF Onward, ActorTypes

LEMMA FaultsType ==
  ASSUME Types, NEW way, Charge(way)
  PROVE  faults' \in Nat
BY DEF Types, Charge

\* A step that only gives up, and may leave a record in the audit.
LEMMA GiveUpBase ==
  ASSUME Base, NEW p \in Processes, GiveUp(p), UNCHANGED <<file, lock, world, past>>,
         faults' \in Nat, audit' \subseteq Listens \X {"generic", "exact", "scope"}
  PROVE  Base'
<1> DEFINE b == [actors[p] EXCEPT !.at = "idle"]
<1>1. b \in ActorTypes /\ Become(p, b)
  BY ActorIs DEF Base, GiveUp
<1>2. /\ b.pend = actors[p].pend /\ b.entries = actors[p].entries
      /\ b.acks = actors[p].acks /\ b.at = "idle"
  BY ActorIs DEF Base, ActorTypes
<1>3. Types'
  BY <1>1, Becomes DEF Base, Types, world
<1> HIDE DEF b
<1>4. b.acks # {} \/ b.at = "send" => lock' = <<p, "flush">>
  BY <1>2 DEF Base, LockHeld
<1>5. \A e, f \in b.pend : e.id = f.id => e = f
  BY <1>2 DEF Base, PendApart
<1>6. \A e \in b.pend : e.id \in Ids(file'.lines)
        => lock' = <<p, "append">> /\ \A f \in b.pend : e.id <= f.id
  BY <1>2 DEF Base, PendUnfiled
<1>7. \A s \in Services, i \in Listens : sent'[s][i] # "none" => i <= heard
  BY DEF Base, Known, world
<1>8. heard' = heard /\ file' = file /\ lock' = lock
  BY DEF world
<1>9. /\ \A e \in file'.lines : e.id \in Ids(file.lines)
      /\ \A e \in b.entries : e.id \in Ids(actors[p].entries)
  BY <1>2, <1>8 DEF Ids
<1> QED BY <1>1, <1>2, <1>3, <1>4, <1>5, <1>6, <1>7, <1>8, <1>9, BaseStep

LEMMA ListenBase ==
  ASSUME Base, NEW p \in Processes, NEW services \in SUBSET Services, NEW exact \in BOOLEAN,
         Listen(p, services, exact)
  PROVE  Base'
<1> DEFINE d == [id |-> heard + 1, pending |-> services,
                 exact |-> IF exact THEN "pending" ELSE "none"]
           b == [actors[p] EXCEPT !.at = "listen", !.pend = @ \cup {d}]
<1>1. d \in Entry
  BY CapsAssumption DEF Base, Types, Listen, Entry, Markers, Listens
<1>2. actors[p] \in ActorTypes
  BY ActorIs DEF Base
<1>3. Become(p, b) /\ heard' = heard + 1 /\ actors[p].at = "idle" /\ heard < MaxListens
      /\ UNCHANGED <<file, audit, lock, sent, faults, past>>
  BY DEF Listen, disk
<1> HIDE DEF d
<1>4. b \in ActorTypes
  BY <1>1, <1>2 DEF ActorTypes
<1>5. /\ b.at = "listen" /\ b.pend = actors[p].pend \cup {d}
      /\ b.entries = actors[p].entries /\ b.acks = actors[p].acks
  BY <1>2 DEF ActorTypes
<1>6. d.id = heard + 1 /\ heard \in Nat
  BY DEF d, Base, Types
<1> HIDE DEF b
<1>7. actors'[p] = b /\ \A q \in Processes \ {p} : actors'[q] = actors[q]
  BY <1>3, <1>4, Becomes DEF Base
<1>8. Types'
  BY <1>3, <1>4, <1>6, Becomes, CapsAssumption DEF Base, Types
<1>9. LockHeld'
  BY <1>3, <1>5, <1>7 DEF Base, LockHeld
<1>10. AcksRest'
  BY <1>5, <1>7 DEF Base, AcksRest
<1>11. Known'
  <2>1. \A e \in file.lines : e.id \in Int /\ e.id <= heard + 1
    BY <1>6 DEF Base, Types, Known, Entry, Listens
  <2>2. \A q \in Processes :
          /\ \A e \in actors[q].pend : e.id <= heard + 1
          /\ \A e \in actors[q].entries : e.id <= heard + 1
          /\ \A c \in actors[q].acks : c[1] <= heard + 1
    <3> SUFFICES ASSUME NEW q \in Processes
                 PROVE  /\ \A e \in actors[q].pend : e.id <= heard + 1
                        /\ \A e \in actors[q].entries : e.id <= heard + 1
                        /\ \A c \in actors[q].acks : c[1] <= heard + 1
      OBVIOUS
    <3>1. /\ actors[q].pend \subseteq Entry /\ actors[q].entries \subseteq Entry
          /\ actors[q].acks \subseteq Listens \X Services
      BY ActorIs DEF Base, ActorTypes
    <3>2. /\ \A e \in Entry : e.id \in Int
          /\ \A c \in Listens \X Services : c[1] \in Int
      BY DEF Entry, Listens
    <3> QED BY <1>6, <3>1, <3>2 DEF Base, Known
  <2>3. \A s \in Services, i \in Listens : sent[s][i] # "none" => i <= heard + 1
    BY <1>6 DEF Base, Known, Listens
  <2>4. d.id <= heard + 1
    BY <1>6
  <2>5. \A e \in actors'[p].pend : e.id <= heard + 1
    BY <1>5, <1>7, <2>2, <2>4
  <2>6. heard' = heard + 1 /\ file' = file /\ sent' = sent
    BY <1>3
  <2>7. \A q \in Processes :
          /\ \A e \in actors'[q].pend : e.id <= heard'
          /\ \A e \in actors'[q].entries : e.id <= heard'
          /\ \A c \in actors'[q].acks : c[1] <= heard'
    BY <1>5, <1>7, <2>2, <2>5, <2>6
  <2>8. \A e \in file'.lines : e.id <= heard'
    BY <2>1, <2>6
  <2>9. \A s \in Services, i \in Listens : sent'[s][i] # "none" => i <= heard'
    BY <2>3, <2>6
  <2> QED BY <2>7, <2>8, <2>9 DEF Known
<1>12. PendApart'
  <2>1. \A q \in Processes : \A e \in actors[q].pend : e.id # d.id
    BY <1>6, ActorIs DEF Base, Known, ActorTypes, Entry, Listens
  <2> QED BY <1>5, <1>7, <2>1 DEF Base, PendApart
<1>13. PendUnfiled'
  <2>1. d.id \notin Ids(file.lines)
    BY <1>6 DEF Base, Known, Types, Entry, Listens, Ids
  <2>2. \A e \in actors[p].pend : e.id <= d.id
    <3> SUFFICES ASSUME NEW e \in actors[p].pend PROVE e.id <= d.id
      OBVIOUS
    <3>1. e.id <= heard
      BY DEF Base, Known
    <3>2. e \in Entry
      BY ActorIs DEF Base, ActorTypes
    <3>3. e.id \in Int
      BY <3>2 DEF Entry, Listens
    <3> QED BY <1>6, <3>1, <3>3
  <2> QED BY <1>3, <1>5, <1>7, <2>1, <2>2 DEF Base, PendUnfiled
<1>14. PendUnsent'
  <2>1. \A q \in Processes : d.id \notin Ids(actors[q].entries)
    BY <1>6, ActorIs DEF Base, Known, ActorTypes, Entry, Listens, Ids
  <2>2. \A q \in Processes : \A c \in actors[q].acks : c[1] # d.id
    BY <1>6, ActorIs DEF Base, Known, ActorTypes, Listens
  <2> QED BY <1>5, <1>7, <2>1, <2>2 DEF Base, PendUnsent
<1> QED BY <1>8, <1>9, <1>10, <1>11, <1>12, <1>13, <1>14 DEF Base

\* A process may append only when it has no answers to write.
LEMMA AppendMeans ==
  ASSUME Base, NEW p \in Processes, Appending(p), MayAppend(p)
  PROVE  /\ actors[p].acks = {} /\ actors[p].at # "send" /\ lock # <<p, "flush">>
         /\ \A q \in Processes \ {p} : lock \notin {<<q, "append">>, <<q, "flush">>}
BY LocksDiffer DEF Base, LockHeld, Appending, MayAppend

LEMMA DropsType ==
  ASSUME NEW S \in SUBSET Entry
  PROVE  Drops(S) \subseteq Listens \X {"generic", "exact", "scope"}
<1>1. Ids(S) \subseteq Listens
  BY DEF Ids, Entry
<1>2. EvictedGeneric(S) \subseteq Ids(Generic(S)) /\ Ids(Generic(S)) \subseteq Ids(S)
  BY OldestSubset DEF EvictedGeneric, Ids, Generic
<1>3. /\ EvictedExact(S) \subseteq Ids({e \in Exact(S) : ~IsStarted(e)})
      /\ Ids({e \in Exact(S) : ~IsStarted(e)}) \subseteq Ids(S)
  BY NewestSubset DEF EvictedExact, Ids, Exact
<1>4. EvictedGeneric(S) \subseteq Listens /\ EvictedExact(S) \subseteq Listens
  BY <1>1, <1>2, <1>3
<1> QED BY <1>4 DEF Drops

LEMMA DropOverflowIs ==
  ASSUME Base, NEW p \in Processes, DropOverflow(p)
  PROVE  LET a == actors[p] IN
         /\ faults' \in Nat /\ audit' \subseteq Listens \X {"generic", "exact", "scope"}
         /\ \E b \in ActorTypes :
              /\ Become(p, b) /\ b.at # "send" /\ b.acks = {} /\ b.entries = a.entries
              /\ b.pend \in {a.pend, Capped(a.pend)}
<1> DEFINE a == actors[p]
           P == Capped(a.pend)
           c == [a EXCEPT !.pend = P]
<1>1. a \in ActorTypes /\ a.pend \in SUBSET Entry
  BY ActorIs DEF Base, ActorTypes
<1>2. a.acks = {} /\ a.at # "send"
  BY AppendMeans DEF DropOverflow
<1>3. PICK way : /\ Charge(way)
                 /\ Record(way, Drops(a.pend))
                 /\ IF way = "ok" THEN Become(p, Onward(c)) ELSE GiveUp(p)
  BY DEF DropOverflow
<1>4. audit' \subseteq Listens \X {"generic", "exact", "scope"} /\ faults' \in Nat
  BY <1>1, <1>3, DropsType, FaultsType DEF Base, Types, Record
<1>5. P \in SUBSET Entry
  BY <1>1, CappedIs
<1> HIDE DEF P
<1>6. c \in ActorTypes /\ c.pend = P /\ c.acks = {} /\ c.entries = a.entries
  BY <1>1, <1>2, <1>5 DEF ActorTypes
<1> HIDE DEF c
<1>7. CASE way = "ok"
  <2>1. Become(p, Onward(c))
    BY <1>3, <1>7
  <2>2. \E b \in ActorTypes :
          /\ Become(p, b) /\ b.at # "send" /\ b.acks = {} /\ b.entries = a.entries
          /\ b.pend \in {a.pend, P}
    BY <1>6, <2>1, OnwardIs
  <2> QED BY <1>4, <2>2 DEF P
<1>8. CASE way # "ok"
  <2> DEFINE b == [a EXCEPT !.at = "idle"]
  <2>1. b \in ActorTypes /\ Become(p, b)
    BY <1>3, <1>8, ActorIs DEF Base, GiveUp
  <2>2. b.at # "send" /\ b.acks = {} /\ b.entries = a.entries /\ b.pend = a.pend
    BY <1>1, <1>2 DEF ActorTypes
  <2> HIDE DEF b
  <2> QED BY <1>4, <2>1, <2>2
<1> QED BY <1>7, <1>8

LEMMA DropOverflowBase ==
  ASSUME Base, NEW p \in Processes, DropOverflow(p)
  PROVE  Base'
<1> DEFINE a == actors[p]
<1>1. a.pend \in SUBSET Entry
  BY ActorIs DEF Base, ActorTypes
<1>2. /\ Appending(p) /\ MayAppend(p) /\ lock' = <<p, "append">>
      /\ file' = file /\ heard' = heard /\ sent' = sent /\ past' = past
  BY DEF DropOverflow, world
<1>3. /\ a.acks = {} /\ a.at # "send" /\ lock # <<p, "flush">>
      /\ \A q \in Processes \ {p} : lock \notin {<<q, "append">>, <<q, "flush">>}
  BY <1>2, AppendMeans
<1>4. PICK b \in ActorTypes :
        /\ Become(p, b) /\ b.at # "send" /\ b.acks = {} /\ b.entries = a.entries
        /\ b.pend \in {a.pend, Capped(a.pend)}
  BY DropOverflowIs
<1>5. faults' \in Nat /\ audit' \subseteq Listens \X {"generic", "exact", "scope"}
  BY DropOverflowIs
<1>6. Types'
  BY <1>2, <1>4, <1>5, Becomes DEF Base, Types
<1>7. \A e, f \in a.pend : e.id = f.id => e = f
  BY DEF Base, PendApart
<1>8. /\ \A e \in b.pend : \E f \in a.pend : e.id = f.id
      /\ \A e, f \in b.pend : e.id = f.id => e = f
  <2>1. CASE b.pend = a.pend
    BY <1>7, <2>1
  <2>2. CASE b.pend = Capped(a.pend)
    <3>1. \A e \in Capped(a.pend) : \E f \in a.pend : e.id = f.id
      BY <1>1, CappedIs
    <3>2. \A e, f \in Capped(a.pend) : e.id = f.id => e = f
      BY <1>1, <1>7, CappedUnique
    <3> QED BY <2>2, <3>1, <3>2
  <2> QED BY <1>4, <2>1, <2>2
<1>9. \A e \in b.pend : e.id \in Ids(file'.lines)
        => lock' = <<p, "append">> /\ \A f \in b.pend : e.id <= f.id
  BY <1>2, <1>8 DEF Base, PendUnfiled
<1>10. \A s \in Services, i \in Listens : sent'[s][i] # "none" => i <= heard
  BY <1>2 DEF Base, Known
<1>11. /\ \A e \in file'.lines : e.id \in Ids(file.lines)
       /\ \A e \in b.entries : e.id \in Ids(a.entries)
  BY <1>2, <1>4 DEF Ids
<1> QED BY <1>2, <1>3, <1>4, <1>6, <1>8, <1>9, <1>10, <1>11, BaseStep

\* What a replacement leaves on disk.
LEMMA ReplaceIs ==
  ASSUME Types, NEW lines \in SUBSET Entry, NEW way, Replace(way, lines)
  PROVE  /\ file' \in [lines : SUBSET Entry, torn : BOOLEAN]
         /\ way = "before" => file' = file
         /\ way # "before" => file'.lines = lines
BY DEF Types, Replace

LEMMA FileEntryIs ==
  ASSUME Base, NEW p \in Processes, NEW d \in actors[p].pend, FileEntry(p, d)
  PROVE  LET a == actors[p] IN
         /\ Appending(p) /\ MayAppend(p) /\ \A f \in a.pend : d.id <= f.id
         /\ audit' = audit /\ heard' = heard /\ sent' = sent /\ faults' \in Nat
         /\ \E way :
              /\ file' = [lines |-> IF way \in {"ok", "after"} THEN file.lines \cup {d} ELSE file.lines,
                          torn |-> file.torn \/ way = "torn"]
              /\ lock' = IF way = "ok" THEN Free ELSE <<p, "append">>
              /\ past' = IF way = "ok" THEN [past EXCEPT !.filed = @ \cup Obligations(d)] ELSE past
              /\ \E b \in ActorTypes :
                   /\ Become(p, b) /\ b.at # "send" /\ b.acks = {} /\ b.entries = a.entries
                   /\ b.pend = IF way = "ok" THEN a.pend \ {d} ELSE a.pend
<1> DEFINE a == actors[p]
           c == [a EXCEPT !.pend = @ \ {d}]
<1>1. a \in ActorTypes
  BY ActorIs DEF Base
<1>2. /\ Appending(p) /\ MayAppend(p) /\ \A f \in a.pend : d.id <= f.id
      /\ audit' = audit /\ heard' = heard /\ sent' = sent
  BY DEF FileEntry, world
<1>3. a.acks = {} /\ a.at # "send"
  BY <1>2, AppendMeans
<1>4. PICK way :
        /\ Charge(way)
        /\ file' = [lines |-> IF way \in {"ok", "after"} THEN file.lines \cup {d} ELSE file.lines,
                    torn |-> file.torn \/ way = "torn"]
        /\ lock' = HeldAfter(p, way)
        /\ IF way = "ok"
             THEN /\ Become(p, Onward(c))
                  /\ past' = [past EXCEPT !.filed = @ \cup Obligations(d)]
             ELSE GiveUp(p) /\ UNCHANGED past
  BY DEF FileEntry
<1>5. faults' \in Nat
  BY <1>4, FaultsType DEF Base
<1>6. lock' = IF way = "ok" THEN Free ELSE <<p, "append">>
  BY <1>4 DEF HeldAfter
<1>7. past' = IF way = "ok" THEN [past EXCEPT !.filed = @ \cup Obligations(d)] ELSE past
  BY <1>4
<1>8. \E b \in ActorTypes :
        /\ Become(p, b) /\ b.at # "send" /\ b.acks = {} /\ b.entries = a.entries
        /\ b.pend = IF way = "ok" THEN a.pend \ {d} ELSE a.pend
  <2>1. CASE way = "ok"
    <3>1. c \in ActorTypes /\ c.pend = a.pend \ {d} /\ c.acks = {} /\ c.entries = a.entries
      BY <1>1, <1>3 DEF ActorTypes
    <3> HIDE DEF c
    <3>2. Become(p, Onward(c))
      BY <1>4, <2>1
    <3> QED BY <2>1, <3>1, <3>2, OnwardIs
  <2>2. CASE way # "ok"
    <3> DEFINE b == [a EXCEPT !.at = "idle"]
    <3>1. b \in ActorTypes /\ Become(p, b)
      BY <1>4, <2>2, ActorIs DEF Base, GiveUp
    <3>2. b.at # "send" /\ b.acks = {} /\ b.entries = a.entries /\ b.pend = a.pend
      BY <1>1, <1>3 DEF ActorTypes
    <3> HIDE DEF b
    <3> QED BY <2>2, <3>1, <3>2
  <2> QED BY <2>1, <2>2
<1> QED BY <1>2, <1>4, <1>5, <1>6, <1>7, <1>8

LEMMA FileEntryBase ==
  ASSUME Base, NEW p \in Processes, NEW d \in actors[p].pend, FileEntry(p, d)
  PROVE  Base'
<1> DEFINE a == actors[p]
<1>1. a \in ActorTypes /\ a.pend \subseteq Entry /\ d \in Entry
  BY ActorIs DEF Base, ActorTypes
<1>2. /\ Appending(p) /\ MayAppend(p) /\ \A f \in a.pend : d.id <= f.id
      /\ audit' = audit /\ heard' = heard /\ sent' = sent /\ faults' \in Nat
  BY FileEntryIs
<1>3. /\ a.acks = {} /\ a.at # "send" /\ lock # <<p, "flush">>
      /\ \A q \in Processes \ {p} : lock \notin {<<q, "append">>, <<q, "flush">>}
  BY <1>2, AppendMeans
<1>4. PICK way :
        /\ file' = [lines |-> IF way \in {"ok", "after"} THEN file.lines \cup {d} ELSE file.lines,
                    torn |-> file.torn \/ way = "torn"]
        /\ lock' = IF way = "ok" THEN Free ELSE <<p, "append">>
        /\ past' = IF way = "ok" THEN [past EXCEPT !.filed = @ \cup Obligations(d)] ELSE past
        /\ \E b \in ActorTypes :
             /\ Become(p, b) /\ b.at # "send" /\ b.acks = {} /\ b.entries = a.entries
             /\ b.pend = IF way = "ok" THEN a.pend \ {d} ELSE a.pend
  BY FileEntryIs
<1>5. PICK b \in ActorTypes :
        /\ Become(p, b) /\ b.at # "send" /\ b.acks = {} /\ b.entries = a.entries
        /\ b.pend = IF way = "ok" THEN a.pend \ {d} ELSE a.pend
  BY <1>4
<1>6. /\ file' \in [lines : SUBSET Entry, torn : BOOLEAN]
      /\ file'.lines \subseteq file.lines \cup {d}
  BY <1>1, <1>4 DEF Base, Types
<1>7. past' \in [filed : SUBSET (Listens \X (Services \cup {"exact"})), exposed : SUBSET Listens]
  BY <1>1, <1>4, ObligationsType DEF Base, Types
<1>8. Types'
  BY <1>2, <1>4, <1>5, <1>6, <1>7, Becomes DEF Base, Types
<1>9. \A e, f \in a.pend : e.id = f.id => e = f
  BY DEF Base, PendApart
<1>10. \A e \in b.pend : e.id \in Ids(file'.lines)
         => lock' = <<p, "append">> /\ \A f \in b.pend : e.id <= f.id
  <2> SUFFICES ASSUME NEW e \in b.pend, e.id \in Ids(file'.lines)
               PROVE  lock' = <<p, "append">> /\ \A f \in b.pend : e.id <= f.id
    OBVIOUS
  <2>1. e \in a.pend
    BY <1>5
  <2>2. e.id = d.id \/ e.id \in Ids(file.lines)
    BY <1>6 DEF Ids
  <2>3. e.id \in Ids(file.lines) => e.id <= d.id
    BY <2>1 DEF Base, PendUnfiled
  <2>4. e.id \in Int /\ d.id \in Int /\ d.id <= e.id
    BY <1>1, <1>2, <2>1 DEF Entry, Listens
  <2>5. e = d
    BY <1>9, <2>1, <2>2, <2>3, <2>4
  <2>6. way # "ok"
    BY <1>5, <2>5
  <2> QED BY <1>2, <1>4, <1>5, <2>5, <2>6
<1>11. \A s \in Services, i \in Listens : sent'[s][i] # "none" => i <= heard
  BY <1>2 DEF Base, Known
<1>12. /\ \A e \in file'.lines : e.id \in Ids(file.lines) \cup Ids(a.pend)
       /\ \A e \in b.entries : e.id \in Ids(a.entries)
  BY <1>5, <1>6 DEF Ids
<1>13. b.pend \subseteq a.pend
  BY <1>5
<1> QED BY <1>2, <1>3, <1>5, <1>8, <1>9, <1>10, <1>11, <1>12, <1>13, BaseStep

LEMMA RetryCompactionIs ==
  ASSUME Base, NEW p \in Processes, RetryCompaction(p)
  PROVE  LET a == actors[p] IN
         /\ lock = <<p, "flush">> /\ UNCHANGED <<audit, heard, sent, past>> /\ faults' \in Nat
         /\ \/ GiveUp(p) /\ UNCHANGED <<file, lock>>
            \/ \E way :
                 /\ Replace(way, Stripped(file.lines, a.acks))
                 /\ lock' = IF way = "ok" THEN Free ELSE lock
                 /\ \E b \in ActorTypes :
                      /\ Become(p, b) /\ b.at # "send" /\ b.entries = a.entries /\ b.pend = a.pend
                      /\ IF way = "ok" THEN b.acks = {} ELSE b.acks = a.acks /\ b.at = "idle"
<1> DEFINE a == actors[p]
           c == [a EXCEPT !.acks = {}]
<1>1. a \in ActorTypes
  BY ActorIs DEF Base
<1>2. /\ a.at = "idle" /\ a.acks # {}
      /\ audit' = audit /\ heard' = heard /\ sent' = sent /\ past' = past
  BY DEF RetryCompaction, world
<1>3. lock = <<p, "flush">>
  BY <1>2 DEF Base, LockHeld
<1>4. CASE GiveUp(p) /\ UNCHANGED <<file, lock, faults>>
  BY <1>2, <1>3, <1>4 DEF Base, Types
<1>5. CASE \E way : /\ Charge(way)
                    /\ Replace(way, Stripped(file.lines, a.acks))
                    /\ lock' = CompactionLock(way)
                    /\ IF way = "ok" THEN Become(p, Onward(c)) ELSE GiveUp(p)
  <2>1. PICK way : /\ Charge(way)
                   /\ Replace(way, Stripped(file.lines, a.acks))
                   /\ lock' = CompactionLock(way)
                   /\ IF way = "ok" THEN Become(p, Onward(c)) ELSE GiveUp(p)
    BY <1>5
  <2>2. faults' \in Nat
    BY <2>1, FaultsType DEF Base
  <2>3. lock' = IF way = "ok" THEN Free ELSE lock
    BY <2>1 DEF CompactionLock
  <2>4. \E b \in ActorTypes :
          /\ Become(p, b) /\ b.at # "send" /\ b.entries = a.entries /\ b.pend = a.pend
          /\ IF way = "ok" THEN b.acks = {} ELSE b.acks = a.acks /\ b.at = "idle"
    <3>1. CASE way = "ok"
      <4>1. c \in ActorTypes /\ c.pend = a.pend /\ c.acks = {} /\ c.entries = a.entries
        BY <1>1 DEF ActorTypes
      <4> HIDE DEF c
      <4>2. Become(p, Onward(c))
        BY <2>1, <3>1
      <4> QED BY <3>1, <4>1, <4>2, OnwardIs
    <3>2. CASE way # "ok"
      <4> DEFINE b == [a EXCEPT !.at = "idle"]
      <4>1. b \in ActorTypes /\ Become(p, b)
        BY <2>1, <3>2, ActorIs DEF Base, GiveUp
      <4>2. b.at = "idle" /\ b.acks = a.acks /\ b.entries = a.entries /\ b.pend = a.pend
        BY <1>1 DEF ActorTypes
      <4> HIDE DEF b
      <4> QED BY <3>2, <4>1, <4>2
    <3> QED BY <3>1, <3>2
  <2> HIDE DEF c
  <2> QED BY <1>2, <1>3, <2>1, <2>2, <2>3, <2>4
<1> QED BY <1>4, <1>5 DEF RetryCompaction

LEMMA RetryCompactionBase ==
  ASSUME Base, NEW p \in Processes, RetryCompaction(p)
  PROVE  Base'
<1> DEFINE a == actors[p]
<1>1. lock = <<p, "flush">> /\ UNCHANGED <<audit, heard, sent, past>> /\ faults' \in Nat
  BY RetryCompactionIs
<1>2. CASE GiveUp(p) /\ UNCHANGED <<file, lock>>
  BY <1>1, <1>2, GiveUpBase DEF Base, Types, world
<1>3. ASSUME NEW way, Replace(way, Stripped(file.lines, a.acks)),
             lock' = IF way = "ok" THEN Free ELSE lock,
             NEW b \in ActorTypes, Become(p, b), b.at # "send", b.entries = a.entries, b.pend = a.pend,
             IF way = "ok" THEN b.acks = {} ELSE b.acks = a.acks /\ b.at = "idle"
      PROVE  Base'
  <2>1. /\ Stripped(file.lines, a.acks) \subseteq Entry
        /\ Ids(Stripped(file.lines, a.acks)) \subseteq Ids(file.lines)
    BY StrippedIs, IdsShrink DEF Base, Types
  <2>2. /\ file' \in [lines : SUBSET Entry, torn : BOOLEAN]
        /\ file'.lines = file.lines \/ file'.lines = Stripped(file.lines, a.acks)
    BY <1>3, <2>1, ReplaceIs DEF Base
  <2>3. \A e \in file'.lines : e.id \in Ids(file.lines)
    BY <2>1, <2>2 DEF Ids
  <2>4. Types'
    BY <1>1, <1>3, <2>2, Becomes DEF Base, Types
  <2>5. \A q \in Processes \ {p} : lock \in {<<q, "append">>, <<q, "flush">>} => lock' = lock
    BY <1>1
  <2>6. /\ b.acks # {} \/ b.at = "send" => lock' = <<p, "flush">>
        /\ b.at \in {"flush", "settle", "send"} => b.acks = {}
    BY <1>1, <1>3
  <2>7. /\ \A e, f \in b.pend : e.id = f.id => e = f
        /\ \A e \in b.pend : e.id \notin Ids(file'.lines)
    BY <1>1, <1>3, <2>3, LocksDiffer DEF Base, PendApart, PendUnfiled, Ids
  <2>8. \A s \in Services, i \in Listens : sent'[s][i] # "none" => i <= heard
    BY <1>1 DEF Base, Known
  <2>9. \A e \in b.entries : e.id \in Ids(a.entries)
    BY <1>3 DEF Ids
  <2>10. \A x \in b.acks : x \in a.acks
    BY <1>3
  <2> QED BY <1>1, <1>3, <2>3, <2>4, <2>5, <2>6, <2>7, <2>8, <2>9, <2>10, BaseStep
<1> QED BY <1>2, <1>3, RetryCompactionIs

-----------------------------------------------------------------------------
(* Settling *)

LEMMA SettlingMeans ==
  ASSUME Base, NEW p \in Processes, Settling(p)
  PROVE  actors[p].acks = {} /\ actors[p].at # "send"
BY DEF Base, AcksRest, Settling

LEMMA ScopesType ==
  ASSUME Types, NEW a \in ActorTypes
  PROVE  RetireScopes(a) \subseteq Listens \X {"generic", "exact", "scope"}
BY DEF RetireScopes, Confirmed, Exact, Types, Entry

LEMMA SettleAuditFailsBase ==
  ASSUME Base, NEW p \in Processes, NEW old, SettleAuditFails(p, old)
  PROVE  Base'
<1> DEFINE a == actors[p]
           drops == Drops(Compacted(a, old))
<1>1. a \in ActorTypes
  BY ActorIs DEF Base
<1>2. /\ RetireScopes(a) \subseteq Listens \X {"generic", "exact", "scope"}
      /\ drops \subseteq Listens \X {"generic", "exact", "scope"}
  BY <1>1, ScopesType, CompactedIs, DropsType DEF Base
<1> HIDE DEF drops
<1>3. audit' \subseteq audit \cup RetireScopes(a) \cup drops
  BY DEF SettleAuditFails, drops
<1>4. audit' \subseteq Listens \X {"generic", "exact", "scope"} /\ faults' \in Nat
  BY <1>2, <1>3 DEF Base, Types, SettleAuditFails
<1> QED BY <1>4, GiveUpBase DEF SettleAuditFails

\* Settling goes one of three ways: nothing is written, the rewrite is all that
\* happens, or the flush goes on to send what the file now holds.
LEMMA SettleIs ==
  ASSUME Base, NEW p \in Processes, NEW old, Settle(p, old)
  PROVE  LET a == actors[p]
             loaded == Compacted(a, old)
             entries == Started(loaded)
             must == MustCommit(a, loaded) IN
         /\ Settling(p) /\ lock = Free /\ Readable /\ ~EarlySource(a)
         /\ audit' = audit \cup RetireScopes(a) \cup Drops(loaded)
         /\ heard' = heard /\ sent' = sent /\ faults' \in Nat
         /\ \E way :
              /\ IF must THEN Replace(way, entries) ELSE way = "ok" /\ file' = file
              /\ LET done == IF way = "before" THEN {} ELSE Confirmed(a, "source") IN
                   past' = [filed |-> past.filed \ (((1..old) \X Aging) \cup (done \X {"exact"})),
                            exposed |-> IF way = "ok" THEN (past.exposed \ done) \cup Ids(Exact(entries))
                                                     ELSE past.exposed \ done]
              /\ \E b \in ActorTypes :
                   /\ Become(p, b) /\ b.pend = a.pend /\ b.acks = {}
                   /\ IF way = "ok"
                        THEN b.at = "send" /\ b.entries = entries /\ lock' = <<p, "flush">>
                        ELSE b.at = "idle" /\ b.entries = a.entries /\ lock' = lock
<1> DEFINE a == actors[p]
           loaded == Compacted(a, old)
           entries == Started(loaded)
           must == MustCommit(a, loaded)
<1>1. a \in ActorTypes
  BY ActorIs DEF Base
<1>2. entries \subseteq Entry
  BY <1>1, SettledType DEF Base
<1> DEFINE c == [a EXCEPT !.at = "send", !.entries = entries, !.lanes = Lanes,
                   !.confirms = {}, !.handles = Announced(a, entries, must)]
           Past(way) ==
             LET done == IF way = "before" THEN {} ELSE Confirmed(a, "source") IN
             past' = [filed |-> past.filed \ (((1..old) \X Aging) \cup (done \X {"exact"})),
                      exposed |-> IF way = "ok" THEN (past.exposed \ done) \cup Ids(Exact(entries))
                                               ELSE past.exposed \ done]
<1>3. PICK way \in IF must THEN RewriteWays ELSE {"ok"} :
        /\ Charge(way)
        /\ IF must THEN Replace(way, entries) ELSE UNCHANGED file
        /\ Past(way)
        /\ IF way = "ok" THEN lock' = <<p, "flush">> /\ Become(p, c)
                         ELSE GiveUp(p) /\ UNCHANGED lock
  BY DEF Settle
<1> HIDE DEF loaded, entries, must, Past
<1>4. /\ Settling(p) /\ lock = Free /\ Readable /\ ~EarlySource(a)
      /\ audit' = audit \cup RetireScopes(a) \cup Drops(loaded)
      /\ heard' = heard /\ sent' = sent
  BY DEF Settle, loaded, world
<1>5. faults' \in Nat
  BY <1>3, FaultsType DEF Base
<1>6. Announced(a, entries, must) \in [Listens -> {"none", "open", "durable"}]
  BY <1>1 DEF Announced, ActorTypes
<1>7. a.acks = {}
  BY <1>4, SettlingMeans
<1>8. \E b \in ActorTypes :
        /\ Become(p, b) /\ b.pend = a.pend /\ b.acks = {}
        /\ IF way = "ok" THEN b.at = "send" /\ b.entries = entries /\ lock' = <<p, "flush">>
                         ELSE b.at = "idle" /\ b.entries = a.entries /\ lock' = lock
  <2>1. CASE way = "ok"
    <3>1. c \in ActorTypes /\ c.at = "send" /\ c.entries = entries /\ c.pend = a.pend /\ c.acks = {}
      <4> DEFINE H == Announced(a, entries, must)
                 E == entries
      <4>1. H \in [Listens -> {"none", "open", "durable"}] /\ E \in SUBSET Entry
        BY <1>2, <1>6
      <4>2. Lanes \in Seq(Services)
        BY CapsAssumption
      <4> HIDE DEF H, E
      <4> DEFINE d == [a EXCEPT !.at = "send", !.entries = E, !.lanes = Lanes,
                         !.confirms = {}, !.handles = H]
      <4>3. d \in ActorTypes /\ d.at = "send" /\ d.entries = E /\ d.pend = a.pend /\ d.acks = a.acks
        BY <1>1, <4>1, <4>2 DEF ActorTypes
      <4> HIDE DEF d
      <4>4. c = d
        BY DEF H, E, d
      <4> HIDE DEF c
      <4> QED BY <1>7, <4>3, <4>4 DEF E
    <3> HIDE DEF c
    <3> QED BY <1>3, <2>1, <3>1
  <2>2. CASE way # "ok"
    <3> DEFINE b == [a EXCEPT !.at = "idle"]
    <3>1. b \in ActorTypes /\ Become(p, b) /\ lock' = lock
      BY <1>3, <2>2, ActorIs DEF Base, GiveUp
    <3>2. b.at = "idle" /\ b.acks = {} /\ b.entries = a.entries /\ b.pend = a.pend
      BY <1>1, <1>7 DEF ActorTypes
    <3> HIDE DEF b
    <3> QED BY <2>2, <3>1, <3>2
  <2> QED BY <2>1, <2>2
<1>9. \E w :
        /\ IF must THEN Replace(w, entries) ELSE w = "ok" /\ file' = file
        /\ Past(w)
        /\ \E b \in ActorTypes :
             /\ Become(p, b) /\ b.pend = a.pend /\ b.acks = {}
             /\ IF w = "ok" THEN b.at = "send" /\ b.entries = entries /\ lock' = <<p, "flush">>
                            ELSE b.at = "idle" /\ b.entries = a.entries /\ lock' = lock
  BY <1>3, <1>8
<1> USE DEF loaded, entries, must, Past
<1> QED BY <1>4, <1>5, <1>9

LEMMA SettleBase ==
  ASSUME Base, NEW p \in Processes, NEW old, Settle(p, old)
  PROVE  Base'
<1> DEFINE a == actors[p]
           loaded == Compacted(a, old)
           entries == Started(loaded)
<1>1. a \in ActorTypes
  BY ActorIs DEF Base
<1>2. entries \subseteq Entry /\ Ids(entries) \subseteq Ids(file.lines)
  BY <1>1, SettledType DEF Base
<1>3. /\ RetireScopes(a) \subseteq Listens \X {"generic", "exact", "scope"}
      /\ Drops(loaded) \subseteq Listens \X {"generic", "exact", "scope"}
  BY <1>1, ScopesType, CompactedIs, DropsType DEF Base
<1>4. /\ Settling(p) /\ lock = Free
      /\ audit' = audit \cup RetireScopes(a) \cup Drops(loaded)
      /\ heard' = heard /\ sent' = sent /\ faults' \in Nat
  BY SettleIs
<1> DEFINE Done(way) == IF way = "before" THEN {} ELSE Confirmed(a, "source")
<1>5. PICK way :
        /\ IF MustCommit(a, loaded) THEN Replace(way, entries) ELSE way = "ok" /\ file' = file
        /\ past' = [filed |-> past.filed \ (((1..old) \X Aging) \cup (Done(way) \X {"exact"})),
                    exposed |-> IF way = "ok" THEN (past.exposed \ Done(way)) \cup Ids(Exact(entries))
                                             ELSE past.exposed \ Done(way)]
        /\ \E b \in ActorTypes :
             /\ Become(p, b) /\ b.pend = a.pend /\ b.acks = {}
             /\ IF way = "ok"
                  THEN b.at = "send" /\ b.entries = entries /\ lock' = <<p, "flush">>
                  ELSE b.at = "idle" /\ b.entries = a.entries /\ lock' = lock
  BY SettleIs
<1>6. PICK b \in ActorTypes :
        /\ Become(p, b) /\ b.pend = a.pend /\ b.acks = {}
        /\ IF way = "ok" THEN b.at = "send" /\ b.entries = entries /\ lock' = <<p, "flush">>
                         ELSE b.at = "idle" /\ b.entries = a.entries /\ lock' = lock
  BY <1>5
<1> HIDE DEF entries, loaded, Done
<1>7. /\ file' \in [lines : SUBSET Entry, torn : BOOLEAN]
      /\ file'.lines = file.lines \/ file'.lines = entries
  BY <1>2, <1>5, ReplaceIs DEF Base, Types
<1>8. past' \in [filed : SUBSET (Listens \X (Services \cup {"exact"})), exposed : SUBSET Listens]
  <2>1. Ids(Exact(entries)) \subseteq Listens
    BY <1>2 DEF Ids, Exact, Entry
  <2> QED BY <1>5, <2>1 DEF Base, Types
<1>9. Types'
  <2>1. lock' \in {Free} \cup (Processes \X {"append", "flush"})
    BY <1>4, <1>6
  <2> QED BY <1>3, <1>4, <1>6, <1>7, <1>8, <2>1, Becomes DEF Base, Types
<1>10. /\ \A e \in file'.lines : e.id \in Ids(file.lines)
       /\ \A e \in b.entries : e.id \in Ids(a.entries) \/ e.id \in Ids(file.lines)
  BY <1>2, <1>6, <1>7 DEF Ids
<1>11. /\ \A e, f \in b.pend : e.id = f.id => e = f
       /\ \A e \in b.pend : e.id \notin Ids(file'.lines)
  BY <1>4, <1>6, <1>10, LocksDiffer DEF Base, PendApart, PendUnfiled, Ids
<1>12. \A s \in Services, i \in Listens : sent'[s][i] # "none" => i <= heard
  BY <1>4 DEF Base, Known
<1>13. \A q \in Processes \ {p} : lock \notin {<<q, "append">>, <<q, "flush">>}
  BY <1>4, LocksDiffer
<1>14. b.acks # {} \/ b.at = "send" => lock' = <<p, "flush">>
  BY <1>6
<1> QED BY <1>4, <1>6, <1>9, <1>10, <1>11, <1>12, <1>13, <1>14, BaseStep

-----------------------------------------------------------------------------
(* Sending *)

LEMMA ChunkIs ==
  ASSUME NEW a \in ActorTypes, NEW s
  PROVE  /\ Chunk(a, s) \subseteq Ids(a.entries)
         /\ Chunk(a, s) \subseteq Listens
         /\ \A i \in Chunk(a, s) : Owing(a.entries, i, s)
<1> DEFINE I == {e.id : e \in {f \in a.entries : s \in f.pending}}
<1>1. Chunk(a, s) \subseteq I
  BY OldestSubset DEF Chunk
<1>2. \A i \in I : i \in Ids(a.entries) /\ Owing(a.entries, i, s)
  BY DEF Ids, Owing
<1>3. I \subseteq Listens
  BY DEF ActorTypes, Entry
<1> QED BY <1>1, <1>2, <1>3

\* Service s takes the listens of I for the first time, and then has one of
\* outcomes of them, or again.
Serves(s, I, outcomes) ==
  /\ sent' \in [Services -> [Listens -> {"none", "taken", "unsure", "twice"}]]
  /\ \A t \in Services, i \in Listens : ~(t = s /\ i \in I) => sent'[t][i] = sent[t][i]
  /\ \A t \in Services, i \in Listens : t = s /\ i \in I =>
       \/ sent'[t][i] \in outcomes
       \/ sent'[t][i] = "twice" /\ sent[t][i] \in {"taken", "twice"}

LEMMA LostServes ==
  ASSUME Types, NEW s, NEW I, sent' = Taken(s, I, FALSE)
  PROVE  Serves(s, I, {"unsure"})
BY DEF Types, Taken, After, Serves

LEMMA AnsweredServes ==
  ASSUME Types, NEW s, NEW I, sent' = Taken(s, I, TRUE)
  PROVE  Serves(s, I, {"taken", "unsure"})
BY DEF Types, Taken, After, Serves

LEMMA ForgottenIs ==
  ASSUME Types, NEW acks, sent' = Forgotten(acks)
  PROVE  /\ sent' \in [Services -> [Listens -> {"none", "taken", "unsure", "twice"}]]
         /\ \A s \in Services, i \in Listens :
              sent'[s][i] = IF <<i, s>> \in acks /\ sent[s][i] = "taken" THEN "unsure" ELSE sent[s][i]
BY DEF Types, Forgotten

LEMMA FromType ==
  ASSUME NEW lanes \in Seq(Services), NEW n \in 1..(Len(lanes) + 1)
  PROVE  From(lanes, n) \in Seq(Services)
<1>1. Len(lanes) \in Nat
  BY LenProperties
<1>2. \A i \in n..Len(lanes) : lanes[i] \in Services
  BY <1>1, ElementOfSeq
<1> QED BY <1>1, <1>2, SubSeqProperties DEF From

\* A process that sends holds the lock, and has nothing retained on disk.
LEMMA SendingMeans ==
  ASSUME Base, NEW p \in Processes, actors[p].at = "send"
  PROVE  /\ lock = <<p, "flush">> /\ actors[p].acks = {}
         /\ \A q \in Processes \ {p} : lock \notin {<<q, "append">>, <<q, "flush">>}
         /\ \A e \in actors[p].pend :
              e.id \notin Ids(file.lines) /\ e.id \notin Ids(actors[p].entries)
         /\ \A e, f \in actors[p].pend : e.id = f.id => e = f
         /\ \A q \in Processes \ {p} : actors[q].acks = {} /\ actors[q].at # "send"
<1>1. lock = <<p, "flush">> /\ actors[p].acks = {}
  BY DEF Base, LockHeld, AcksRest
<1>2. \A q \in Processes \ {p} : lock \notin {<<q, "append">>, <<q, "flush">>}
  BY <1>1
<1>3. \A e \in actors[p].pend :
        e.id \notin Ids(file.lines) /\ e.id \notin Ids(actors[p].entries)
  BY <1>1, LocksDiffer DEF Base, PendUnfiled, PendUnsent
<1>4. \A q \in Processes \ {p} : actors[q].acks = {} /\ actors[q].at # "send"
  BY <1>2 DEF Base, LockHeld
<1> QED BY <1>1, <1>2, <1>3, <1>4 DEF Base, PendApart

LEMMA ReplyLostIs ==
  ASSUME Base, NEW p \in Processes, NEW n \in DOMAIN actors[p].lanes, ReplyLost(p, n)
  PROVE  LET a == actors[p] IN
         /\ a.at = "send" /\ UNCHANGED <<file, audit, lock, heard, past>> /\ faults' \in Nat
         /\ \E s, I :
              /\ I \subseteq Ids(a.entries) /\ \A i \in I : Owing(a.entries, i, s)
              /\ Serves(s, I, {"unsure"})
         /\ \E b \in ActorTypes :
              /\ Become(p, b) /\ b.at = "send" /\ b.pend = a.pend
              /\ b.entries = a.entries /\ b.acks = a.acks
<1> DEFINE a == actors[p]
           s == a.lanes[n]
           L == From(a.lanes, n + 1)
           b == [a EXCEPT !.lanes = L]
           I == Chunk(a, s)
<1>1. a \in ActorTypes /\ a.lanes \in Seq(Services)
  BY ActorIs DEF Base, ActorTypes
<1>2. n \in 1..Len(a.lanes) /\ Len(a.lanes) \in Nat
  BY <1>1, LenProperties
<1>3. L \in Seq(Services)
  BY <1>1, <1>2, FromType
<1>4. /\ a.at = "send" /\ Become(p, b) /\ file' = file /\ audit' = audit /\ lock' = lock
      /\ heard' = heard /\ past' = past /\ faults' = faults + 1
      /\ sent' = Taken(s, I, FALSE)
  BY DEF ReplyLost, disk
<1>5. I \subseteq Ids(a.entries) /\ \A i \in I : Owing(a.entries, i, s)
  BY <1>1, ChunkIs
<1> HIDE DEF L, I, s
<1>6. /\ b \in ActorTypes /\ b.at = "send" /\ b.pend = a.pend
      /\ b.entries = a.entries /\ b.acks = a.acks
  BY <1>1, <1>3, <1>4 DEF ActorTypes
<1>7. Serves(s, I, {"unsure"})
  BY <1>4, LostServes, Zenon DEF Base
<1>8. faults' \in Nat
  BY <1>4 DEF Base, Types
<1> HIDE DEF b
<1> QED BY <1>4, <1>5, <1>6, <1>7, <1>8

LEMMA ReplyLostBase ==
  ASSUME Base, NEW p \in Processes, NEW n \in DOMAIN actors[p].lanes, ReplyLost(p, n)
  PROVE  Base'
<1> DEFINE a == actors[p]
<1>1. a.at = "send" /\ UNCHANGED <<file, audit, lock, heard, past>> /\ faults' \in Nat
  BY ReplyLostIs
<1>2. PICK s, I : I \subseteq Ids(a.entries) /\ Serves(s, I, {"unsure"})
  BY ReplyLostIs
<1>3. PICK b \in ActorTypes :
        /\ Become(p, b) /\ b.at = "send" /\ b.pend = a.pend
        /\ b.entries = a.entries /\ b.acks = a.acks
  BY ReplyLostIs
<1>4. Types'
  BY <1>1, <1>2, <1>3, Becomes DEF Base, Types, Serves
<1>5. /\ lock = <<p, "flush">> /\ a.acks = {}
      /\ \A e \in a.pend : e.id \notin Ids(file.lines)
      /\ \A e, f \in a.pend : e.id = f.id => e = f
  BY <1>1, SendingMeans
<1>6. \A t \in Services, i \in Listens : sent'[t][i] # "none" => i <= heard
  <2>1. \A i \in Ids(a.entries) : i <= heard
    BY DEF Base, Known, Ids
  <2> QED BY <1>2, <2>1 DEF Base, Known, Serves
<1>7. /\ \A e \in file'.lines : e.id \in Ids(file.lines)
      /\ \A e \in b.entries : e.id \in Ids(a.entries)
  BY <1>1, <1>3 DEF Ids
<1> QED BY <1>1, <1>3, <1>4, <1>5, <1>6, <1>7, BaseStep

\* The actor once a chunk was answered and its rewrite failed.
LEMMA UnconfirmedIs ==
  ASSUME NEW a \in ActorTypes, NEW acks \in SUBSET (Listens \X Services)
  PROVE  LET b == Unconfirmed(a, acks) IN
         /\ b \in ActorTypes /\ b.at = "idle" /\ b.pend = a.pend
         /\ b.entries = {} /\ b.acks = acks
<1>1. <<>> \in Seq(Services)
  BY EmptySeq
<1> QED BY <1>1 DEF Unconfirmed, ActorTypes

LEMMA DeliverIs ==
  ASSUME Base, NEW p \in Processes, NEW n \in DOMAIN actors[p].lanes, Deliver(p, n)
  PROVE  LET a == actors[p] IN
         /\ a.at = "send" /\ UNCHANGED <<audit, lock, heard>> /\ faults' \in Nat
         /\ \E s \in Services, I \in SUBSET Listens, way \in RewriteWays :
              LET rest == Stripped(a.entries, I \X {s}) IN
              /\ I \subseteq Ids(a.entries) /\ \A i \in I : Owing(a.entries, i, s)
              /\ \/ Serves(s, I, {"taken", "unsure"}) /\ past' = past
                 \/ past' = [past EXCEPT !.filed = @ \ (I \X {s})] /\ sent' = sent
              /\ Replace(way, rest)
              /\ \E b \in ActorTypes :
                   /\ Become(p, b) /\ b.pend = a.pend
                   /\ IF way = "ok" THEN b.at = "send" /\ b.entries = rest /\ b.acks = {}
                                    ELSE b.at = "idle" /\ b.entries = {} /\ b.acks = I \X {s}
<1> DEFINE a == actors[p]
           s == a.lanes[n]
           L == From(a.lanes, n)
           I == Chunk(a, s)
           acks == I \X {s}
           rest == Stripped(a.entries, acks)
           c == [a EXCEPT !.entries = rest, !.lanes = L]
<1>1. a \in ActorTypes /\ a.lanes \in Seq(Services) /\ a.entries \subseteq Entry
  BY ActorIs DEF Base, ActorTypes
<1>2. n \in 1..Len(a.lanes) /\ Len(a.lanes) \in Nat
  BY <1>1, LenProperties
<1>3. L \in Seq(Services) /\ s \in Services
  BY <1>1, <1>2, FromType, ElementOfSeq
<1>4. I \subseteq Ids(a.entries) /\ I \subseteq Listens /\ \A i \in I : Owing(a.entries, i, s)
  BY <1>1, ChunkIs
<1>5. /\ a.at = "send" /\ audit' = audit /\ lock' = lock /\ heard' = heard
      /\ \/ sent' = Taken(s, I, TRUE) /\ past' = past
         \/ past' = [past EXCEPT !.filed = @ \ acks] /\ sent' = sent
  BY DEF Deliver
<1>6. PICK way \in RewriteWays :
        /\ Charge(way)
        /\ Replace(way, rest)
        /\ Become(p, IF way = "ok" THEN c ELSE Unconfirmed(a, acks))
  BY DEF Deliver
<1>7. rest \subseteq Entry
  BY <1>1, StrippedIs
<1> HIDE DEF L, I, s, rest
<1>8. \/ Serves(s, I, {"taken", "unsure"}) /\ past' = past
      \/ past' = [past EXCEPT !.filed = @ \ acks] /\ sent' = sent
  <2>1. CASE sent' = Taken(s, I, TRUE) /\ past' = past
    BY <2>1, AnsweredServes, Zenon DEF Base
  <2> QED BY <1>5, <2>1, Zenon
<1>9. acks \in SUBSET (Listens \X Services)
  BY <1>3, <1>4
<1>10. a.acks = {}
  BY <1>5, SendingMeans
<1>11. c \in ActorTypes /\ c.at = "send" /\ c.pend = a.pend /\ c.entries = rest /\ c.acks = {}
  BY <1>1, <1>3, <1>5, <1>7, <1>10 DEF ActorTypes
<1> HIDE DEF acks, c
<1>12. \E b \in ActorTypes :
        /\ Become(p, b) /\ b.pend = a.pend
        /\ IF way = "ok" THEN b.at = "send" /\ b.entries = rest /\ b.acks = {}
                         ELSE b.at = "idle" /\ b.entries = {} /\ b.acks = acks
  <2>1. CASE way = "ok"
    BY <1>6, <1>11, <2>1
  <2>2. CASE way # "ok"
    <3> DEFINE u == Unconfirmed(a, acks)
    <3>1. u \in ActorTypes /\ u.at = "idle" /\ u.pend = a.pend /\ u.entries = {} /\ u.acks = acks
      BY <1>1, <1>9, UnconfirmedIs
    <3>2. Become(p, u)
      BY <1>6, <2>2
    <3> HIDE DEF u
    <3> QED BY <2>2, <3>1, <3>2
  <2> QED BY <2>1, <2>2
<1>13. faults' \in Nat
  BY <1>6, FaultsType DEF Base
<1>14. \E r \in Services, J \in SUBSET Listens, w \in RewriteWays :
        LET left == Stripped(a.entries, J \X {r}) IN
         /\ J \subseteq Ids(a.entries) /\ \A i \in J : Owing(a.entries, i, r)
         /\ \/ Serves(r, J, {"taken", "unsure"}) /\ past' = past
            \/ past' = [past EXCEPT !.filed = @ \ (J \X {r})] /\ sent' = sent
         /\ Replace(w, left)
         /\ \E b \in ActorTypes :
              /\ Become(p, b) /\ b.pend = a.pend
              /\ IF w = "ok" THEN b.at = "send" /\ b.entries = left /\ b.acks = {}
                             ELSE b.at = "idle" /\ b.entries = {} /\ b.acks = J \X {r}
  <2> s \in Services /\ I \in SUBSET Listens /\ way \in RewriteWays
    BY <1>3, <1>4, <1>6
  <2> WITNESS s \in Services, I \in SUBSET Listens, way \in RewriteWays
  <2> QED BY <1>4, <1>6, <1>8, <1>12, Zenon DEF rest, acks
<1> QED BY <1>5, <1>13, <1>14

LEMMA DeliverBase ==
  ASSUME Base, NEW p \in Processes, NEW n \in DOMAIN actors[p].lanes, Deliver(p, n)
  PROVE  Base'
<1> DEFINE a == actors[p]
<1>1. a.at = "send" /\ UNCHANGED <<audit, lock, heard>> /\ faults' \in Nat
  BY DeliverIs
<1>2. PICK s \in Services, I \in SUBSET Listens, way \in RewriteWays :
        LET rest == Stripped(a.entries, I \X {s}) IN
        /\ I \subseteq Ids(a.entries) /\ \A i \in I : Owing(a.entries, i, s)
        /\ \/ Serves(s, I, {"taken", "unsure"}) /\ past' = past
           \/ past' = [past EXCEPT !.filed = @ \ (I \X {s})] /\ sent' = sent
        /\ Replace(way, rest)
        /\ \E b \in ActorTypes :
             /\ Become(p, b) /\ b.pend = a.pend
             /\ IF way = "ok" THEN b.at = "send" /\ b.entries = rest /\ b.acks = {}
                              ELSE b.at = "idle" /\ b.entries = {} /\ b.acks = I \X {s}
  BY DeliverIs
<1> DEFINE rest == Stripped(a.entries, I \X {s})
<1>3. PICK b \in ActorTypes :
        /\ Become(p, b) /\ b.pend = a.pend
        /\ IF way = "ok" THEN b.at = "send" /\ b.entries = rest /\ b.acks = {}
                         ELSE b.at = "idle" /\ b.entries = {} /\ b.acks = I \X {s}
  BY <1>2
<1>4. a.entries \in SUBSET Entry
  BY ActorIs DEF Base, ActorTypes
<1>5. rest \subseteq Entry /\ Ids(rest) \subseteq Ids(a.entries)
  BY <1>4, StrippedIs, IdsShrink
<1>6. Replace(way, rest)
  BY <1>2
<1> HIDE DEF rest
<1>7. /\ file' \in [lines : SUBSET Entry, torn : BOOLEAN]
      /\ file'.lines = file.lines \/ file'.lines = rest
  BY <1>5, <1>6, ReplaceIs DEF Base, Types
<1>8. Types'
  <2>1. sent' \in [Services -> [Listens -> {"none", "taken", "unsure", "twice"}]]
    BY <1>2 DEF Base, Types, Serves
  <2>2. past' \in [filed : SUBSET (Listens \X (Services \cup {"exact"})), exposed : SUBSET Listens]
    BY <1>2 DEF Base, Types
  <2>3. actors' \in [Processes -> ActorTypes]
    BY <1>3, Becomes DEF Base
  <2> QED BY <1>1, <1>7, <2>1, <2>2, <2>3 DEF Base, Types
<1>9. /\ lock = <<p, "flush">> /\ a.acks = {}
      /\ \A e \in a.pend : e.id \notin Ids(file.lines) /\ e.id \notin Ids(a.entries)
      /\ \A e, f \in a.pend : e.id = f.id => e = f
  BY <1>1, SendingMeans
<1>10. \A t \in Services, i \in Listens : sent'[t][i] # "none" => i <= heard
  <2>1. \A i \in Ids(a.entries) : i <= heard
    BY DEF Base, Known, Ids
  <2>2. I \subseteq Ids(a.entries) /\ (Serves(s, I, {"taken", "unsure"}) \/ sent' = sent)
    BY <1>2
  <2> QED BY <2>1, <2>2 DEF Base, Known, Serves
<1>11. /\ \A e \in file'.lines : e.id \in Ids(file.lines) \cup Ids(a.entries)
       /\ \A e \in b.entries : e.id \in Ids(a.entries)
  BY <1>3, <1>5, <1>7 DEF Ids
<1>12. \A e \in b.pend : e.id \notin Ids(file'.lines)
  BY <1>3, <1>5, <1>7, <1>9
<1>13. \A c \in b.acks : c[1] \in Ids(a.entries)
  BY <1>2, <1>3
<1>14. /\ b.acks # {} \/ b.at = "send" => lock' = <<p, "flush">>
       /\ b.at \in {"flush", "settle", "send"} => b.acks = {}
  BY <1>1, <1>3, <1>9
<1> QED BY <1>1, <1>3, <1>8, <1>9, <1>10, <1>11, <1>12, <1>13, <1>14, BaseStep

LEMMA FinishIs ==
  ASSUME Base, NEW p \in Processes, Finish(p)
  PROVE  LET a == actors[p] IN
         /\ a.at = "send" /\ UNCHANGED <<audit, heard, sent, past>> /\ lock' = Free /\ faults' \in Nat
         /\ \E way : Replace(way, a.entries)
         /\ \E b \in ActorTypes :
              /\ Become(p, b) /\ b.at = "idle" /\ b.pend = a.pend
              /\ b.entries = {} /\ b.acks = {}
<1> DEFINE a == actors[p]
           over == [a EXCEPT !.at = "idle", !.entries = {}, !.lanes = <<>>]
           H == Announced(a, a.entries, TRUE)
           c == [over EXCEPT !.handles = H]
<1>1. a \in ActorTypes
  BY ActorIs DEF Base
<1>2. /\ a.at = "send" /\ lock' = Free
      /\ audit' = audit /\ heard' = heard /\ sent' = sent /\ past' = past
  BY DEF Finish, world
<1>3. PICK way \in RewriteWays :
        /\ Charge(way)
        /\ Replace(way, a.entries)
        /\ Become(p, IF way = "ok" THEN c ELSE over)
  BY DEF Finish
<1>4. H \in [Listens -> {"none", "open", "durable"}]
  BY <1>1 DEF Announced, ActorTypes
<1> HIDE DEF H
<1>5. a.acks = {}
  BY <1>2, SendingMeans
<1>6. over \in ActorTypes /\ over.at = "idle" /\ over.pend = a.pend /\ over.entries = {} /\ over.acks = {}
  <2>1. <<>> \in Seq(Services)
    BY EmptySeq
  <2> QED BY <1>1, <1>5, <2>1 DEF ActorTypes
<1> HIDE DEF over
<1>7. c \in ActorTypes /\ c.at = "idle" /\ c.pend = a.pend /\ c.entries = {} /\ c.acks = {}
  BY <1>4, <1>6 DEF ActorTypes
<1> HIDE DEF c
<1>8. faults' \in Nat
  BY <1>3, FaultsType DEF Base
<1>9. \E b \in ActorTypes :
        /\ Become(p, b) /\ b.at = "idle" /\ b.pend = a.pend
        /\ b.entries = {} /\ b.acks = {}
  BY <1>3, <1>6, <1>7
<1> QED BY <1>2, <1>3, <1>8, <1>9

LEMMA CancelIs ==
  ASSUME Base, NEW p \in Processes, Cancel(p)
  PROVE  LET a == actors[p] IN
         /\ a.at = "send" /\ UNCHANGED <<file, audit, heard, sent, faults, past>> /\ lock' = Free
         /\ \E b \in ActorTypes :
              /\ Become(p, b) /\ b.at = "idle" /\ b.pend = a.pend
              /\ b.entries = {} /\ b.acks = {}
<1> DEFINE a == actors[p]
           b == [a EXCEPT !.at = "idle", !.entries = {}, !.lanes = <<>>]
<1>1. a \in ActorTypes
  BY ActorIs DEF Base
<1>2. /\ a.at = "send" /\ lock' = Free /\ Become(p, b)
      /\ UNCHANGED <<file, audit, heard, sent, faults, past>>
  BY DEF Cancel, disk, world
<1>3. a.acks = {}
  BY <1>2, SendingMeans
<1>4. b \in ActorTypes /\ b.at = "idle" /\ b.pend = a.pend /\ b.entries = {} /\ b.acks = {}
  <2>1. <<>> \in Seq(Services)
    BY EmptySeq
  <2> QED BY <1>1, <1>3, <2>1 DEF ActorTypes
<1> HIDE DEF b
<1> QED BY <1>2, <1>4

\* Both leave the process idle and the lock free.
LEMMA OverBase ==
  ASSUME Base, NEW p \in Processes, actors[p].at = "send",
         UNCHANGED <<audit, heard, sent, past>>, lock' = Free, faults' \in Nat,
         file' \in [lines : SUBSET Entry, torn : BOOLEAN],
         file'.lines \in {file.lines, actors[p].entries},
         NEW b \in ActorTypes, Become(p, b), b.at = "idle", b.pend = actors[p].pend,
         b.entries = {}, b.acks = {}
  PROVE  Base'
<1> DEFINE a == actors[p]
<1>1. Types'
  BY Becomes DEF Base, Types
<1>2. /\ lock = <<p, "flush">>
      /\ \A e \in a.pend : e.id \notin Ids(file.lines) /\ e.id \notin Ids(a.entries)
      /\ \A e, f \in a.pend : e.id = f.id => e = f
  BY SendingMeans
<1>3. /\ \A e \in file'.lines : e.id \in Ids(file.lines) \cup Ids(a.entries)
      /\ \A e \in b.pend : e.id \notin Ids(file'.lines)
  BY <1>2 DEF Ids
<1>4. \A t \in Services, i \in Listens : sent'[t][i] # "none" => i <= heard
  BY DEF Base, Known
<1> QED BY <1>1, <1>2, <1>3, <1>4, BaseStep

LEMMA FinishBase ==
  ASSUME Base, NEW p \in Processes, Finish(p)
  PROVE  Base'
<1>1. PICK way : Replace(way, actors[p].entries)
  BY FinishIs
<1>2. actors[p].entries \in SUBSET Entry
  BY ActorIs DEF Base, ActorTypes
<1>3. file' \in [lines : SUBSET Entry, torn : BOOLEAN] /\ file'.lines \in {file.lines, actors[p].entries}
  BY <1>1, <1>2, ReplaceIs DEF Base
<1> QED BY <1>3, FinishIs, OverBase

LEMMA CancelBase ==
  ASSUME Base, NEW p \in Processes, Cancel(p)
  PROVE  Base'
<1>1. file' \in [lines : SUBSET Entry, torn : BOOLEAN] /\ file'.lines = file.lines /\ faults' \in Nat
  BY CancelIs DEF Base, Types
<1> QED BY <1>1, CancelIs, OverBase

-----------------------------------------------------------------------------
(* Confirmations and crashes *)

LEMMA ConfirmIs ==
  ASSUME Base, NEW p \in Processes, NEW i \in Listens, NEW stage \in Stages, Confirm(p, i, stage)
  PROVE  LET a == actors[p] IN
         /\ UNCHANGED <<file, audit, lock, heard, sent, faults, past>>
         /\ \E b \in ActorTypes :
              /\ Become(p, b) /\ b.at = a.at /\ b.pend = a.pend
              /\ b.entries = a.entries /\ b.acks = a.acks
<1> DEFINE a == actors[p]
           C == Superseding(a.confirms, i, stage)
           b == [a EXCEPT !.confirms = C]
<1>1. a \in ActorTypes
  BY ActorIs DEF Base
<1>2. Become(p, b) /\ UNCHANGED <<file, audit, lock, heard, sent, faults, past>>
  BY DEF Confirm, disk
<1>3. C \in SUBSET (Listens \X Stages)
  BY <1>1 DEF Superseding, ActorTypes
<1> HIDE DEF C
<1>4. /\ b \in ActorTypes /\ b.at = a.at /\ b.pend = a.pend
      /\ b.entries = a.entries /\ b.acks = a.acks
  BY <1>1, <1>3 DEF ActorTypes
<1> HIDE DEF b
<1> QED BY <1>2, <1>4

LEMMA ConfirmBase ==
  ASSUME Base, NEW p \in Processes, NEW i \in Listens, NEW stage \in Stages, Confirm(p, i, stage)
  PROVE  Base'
<1> DEFINE a == actors[p]
<1>1. UNCHANGED <<file, audit, lock, heard, sent, faults, past>>
  BY ConfirmIs
<1>2. PICK b \in ActorTypes :
        /\ Become(p, b) /\ b.at = a.at /\ b.pend = a.pend
        /\ b.entries = a.entries /\ b.acks = a.acks
  BY ConfirmIs
<1>3. Types'
  BY <1>1, <1>2, Becomes DEF Base, Types
<1>4. /\ b.acks # {} \/ b.at = "send" => lock' = <<p, "flush">>
      /\ b.at \in {"flush", "settle", "send"} => b.acks = {}
  BY <1>1, <1>2 DEF Base, LockHeld, AcksRest
<1>5. /\ \A e, f \in b.pend : e.id = f.id => e = f
      /\ \A e \in b.pend : e.id \in Ids(file'.lines)
           => lock' = <<p, "append">> /\ \A f \in b.pend : e.id <= f.id
  BY <1>1, <1>2 DEF Base, PendApart, PendUnfiled
<1>6. \A s \in Services, j \in Listens : sent'[s][j] # "none" => j <= heard
  BY <1>1 DEF Base, Known
<1>7. /\ \A e \in file'.lines : e.id \in Ids(file.lines)
      /\ \A e \in b.entries : e.id \in Ids(a.entries)
  BY <1>1, <1>2 DEF Ids
<1> QED BY <1>1, <1>2, <1>3, <1>4, <1>5, <1>6, <1>7, BaseStep

LEMMA IdleIs ==
  /\ Idle \in ActorTypes /\ Idle.at = "idle" /\ Idle.pend = {}
  /\ Idle.entries = {} /\ Idle.acks = {}
<1>1. <<>> \in Seq(Services)
  BY EmptySeq
<1> QED BY <1>1 DEF Idle, ActorTypes

LEMMA CrashBase ==
  ASSUME Base, NEW p \in Processes, Crash(p)
  PROVE  Base'
<1>1. /\ faults' = faults + 1 /\ sent' = Forgotten(actors[p].acks) /\ Become(p, Idle)
      /\ lock' = IF lock \in {<<p, "append">>, <<p, "flush">>} THEN Free ELSE lock
      /\ UNCHANGED <<file, audit, heard, past>>
  BY DEF Crash, disk
<1> DEFINE acks == actors[p].acks
<1>2. sent' = Forgotten(acks)
  BY <1>1
<1> HIDE DEF acks
<1>3. /\ sent' \in [Services -> [Listens -> {"none", "taken", "unsure", "twice"}]]
      /\ \A s \in Services, i \in Listens :
           sent'[s][i] = IF <<i, s>> \in acks /\ sent[s][i] = "taken" THEN "unsure" ELSE sent[s][i]
  BY <1>2, ForgottenIs DEF Base
<1>4. Types'
  <2>1. faults' \in Nat /\ lock' \in {Free} \cup (Processes \X {"append", "flush"})
    BY <1>1 DEF Base, Types
  <2>2. actors' \in [Processes -> ActorTypes]
    BY <1>1, IdleIs, Becomes DEF Base
  <2> QED BY <1>1, <1>3, <2>1, <2>2 DEF Base, Types
<1>5. \A q \in Processes \ {p} : lock \in {<<q, "append">>, <<q, "flush">>} => lock' = lock
  BY <1>1
<1>6. \A s \in Services, i \in Listens : sent'[s][i] # "none" => i <= heard
  BY <1>3 DEF Base, Known
<1>7. \A e \in file'.lines : e.id \in Ids(file.lines)
  BY <1>1 DEF Ids
<1> QED BY <1>1, <1>4, <1>5, <1>6, <1>7, IdleIs, BaseStep

LEMMA GaveUpBase ==
  ASSUME Base, NEW p \in Processes, GiveUp(p), UNCHANGED <<file, audit, lock, heard, sent, faults, past>>
  PROVE  Base'
BY GiveUpBase DEF Base, Types, world

-----------------------------------------------------------------------------
(* The steps of the specification *)

\* A step is one of these, or changes nothing.
LEMMA Steps ==
  ASSUME Next
  PROVE  \E p \in Processes :
           \/ \E services \in SUBSET Services, exact \in BOOLEAN : Listen(p, services, exact)
           \/ AppendBusy(p)
           \/ DropOverflow(p)
           \/ \E e \in actors[p].pend : FileEntry(p, e)
           \/ RetryCompaction(p)
           \/ SettleBusy(p)
           \/ SettleUnreadable(p)
           \/ \E old \in Horizons : SettleAuditFails(p, old)
           \/ \E old \in Horizons : Settle(p, old)
           \/ \E n \in DOMAIN actors[p].lanes : ReplyLost(p, n)
           \/ \E n \in DOMAIN actors[p].lanes : Deliver(p, n)
           \/ Finish(p)
           \/ Cancel(p)
           \/ \E i \in Listens, stage \in Stages : Confirm(p, i, stage)
           \/ Crash(p)
BY Zenon DEF Next, Retain, Journal, Submit, Stages

LEMMA BaseInit == Init => Base
<1> SUFFICES ASSUME Init PROVE Base
  OBVIOUS
<1>1. \A p \in Processes : actors[p] = Idle
  BY DEF Init
<1>2. \A p \in Processes :
        /\ actors[p] \in ActorTypes /\ actors[p].at = "idle"
        /\ actors[p].pend = {} /\ actors[p].entries = {} /\ actors[p].acks = {}
  BY <1>1, IdleIs
<1>3. Types
  BY <1>2, CapsAssumption DEF Init, Types
<1>4. Known
  BY <1>2 DEF Init, Known
<1> QED BY <1>2, <1>3, <1>4 DEF Base, LockHeld, AcksRest, PendApart, PendUnfiled, PendUnsent

LEMMA BaseNext == Base /\ [Next]_vars => Base'
<1> SUFFICES ASSUME Base, [Next]_vars PROVE Base'
  OBVIOUS
<1>1. CASE UNCHANGED vars
  BY <1>1 DEF vars, Base, Types, LockHeld, AcksRest, Known, PendApart, PendUnfiled, PendUnsent
<1>2. CASE Next
  <2>1. PICK p \in Processes :
           \/ \E services \in SUBSET Services, exact \in BOOLEAN : Listen(p, services, exact)
           \/ AppendBusy(p)
           \/ DropOverflow(p)
           \/ \E e \in actors[p].pend : FileEntry(p, e)
           \/ RetryCompaction(p)
           \/ SettleBusy(p)
           \/ SettleUnreadable(p)
           \/ \E old \in Horizons : SettleAuditFails(p, old)
           \/ \E old \in Horizons : Settle(p, old)
           \/ \E n \in DOMAIN actors[p].lanes : ReplyLost(p, n)
           \/ \E n \in DOMAIN actors[p].lanes : Deliver(p, n)
           \/ Finish(p)
           \/ Cancel(p)
           \/ \E i \in Listens, stage \in Stages : Confirm(p, i, stage)
           \/ Crash(p)
    BY <1>2, Steps
  <2>2. ASSUME NEW services \in SUBSET Services, NEW exact \in BOOLEAN, Listen(p, services, exact)
        PROVE  Base'
    BY <2>2, ListenBase
  <2>3. CASE AppendBusy(p)
    BY <2>3, GaveUpBase DEF AppendBusy, disk, world
  <2>4. CASE DropOverflow(p)
    BY <2>4, DropOverflowBase
  <2>5. ASSUME NEW e \in actors[p].pend, FileEntry(p, e) PROVE Base'
    BY <2>5, FileEntryBase
  <2>6. CASE RetryCompaction(p)
    BY <2>6, RetryCompactionBase
  <2>7. CASE SettleBusy(p)
    BY <2>7, GaveUpBase DEF SettleBusy, disk, world
  <2>8. CASE SettleUnreadable(p)
    BY <2>8, GaveUpBase DEF SettleUnreadable, disk, world
  <2>9. ASSUME NEW old \in Horizons, SettleAuditFails(p, old) PROVE Base'
    BY <2>9, SettleAuditFailsBase
  <2>10. ASSUME NEW old \in Horizons, Settle(p, old) PROVE Base'
    BY <2>10, SettleBase
  <2>11. ASSUME NEW n \in DOMAIN actors[p].lanes, ReplyLost(p, n) PROVE Base'
    BY <2>11, ReplyLostBase
  <2>12. ASSUME NEW n \in DOMAIN actors[p].lanes, Deliver(p, n) PROVE Base'
    BY <2>12, DeliverBase
  <2>13. CASE Finish(p)
    BY <2>13, FinishBase
  <2>14. CASE Cancel(p)
    BY <2>14, CancelBase
  <2>15. ASSUME NEW i \in Listens, NEW stage \in Stages, Confirm(p, i, stage) PROVE Base'
    BY <2>15, ConfirmBase
  <2>16. CASE Crash(p)
    BY <2>16, CrashBase
  <2> QED BY <2>1, <2>2, <2>3, <2>4, <2>5, <2>6, <2>7, <2>8, <2>9, <2>10, <2>11, <2>12,
             <2>13, <2>14, <2>15, <2>16, Zenon
<1> QED BY <1>1, <1>2

LEMMA BaseAlways == Spec => []Base
BY BaseInit, BaseNext, PTL DEF Spec

\* The state of the queue is well typed, and the lock is with the process that
\* sends or has answers to write (actor.rs:1074-1095, 1253-1258).
THEOREM TypeCorrect == Spec => []TypeOK
<1>1. Base => TypeOK
  BY DEF Base, Types, LockHeld, ActorTypes, TypeOK
<1> QED BY <1>1, BaseAlways, PTL

-----------------------------------------------------------------------------
(* Steps that leave the file alone *)

\* A quiet step changes neither the file nor what was promised, forgets no
\* delivery and no record, and starts no flush.
Quiet(p) ==
  /\ file' = file /\ past' = past /\ audit \subseteq audit'
  /\ \A s \in Services, i \in Listens : sent[s][i] # "none" => sent'[s][i] # "none"
  /\ \A q \in Processes :
       /\ actors'[q].at = "send" => actors[q].at = "send" /\ actors'[q].entries = actors[q].entries
       /\ actors'[q].acks \subseteq actors[q].acks

\* A still step is a quiet one that changes no service, keeps every answer and
\* retains nothing new.
Still(p) ==
  /\ Quiet(p) /\ sent' = sent
  /\ \A q \in Processes :
       /\ actors'[q].acks = actors[q].acks
       /\ Ids(actors'[q].pend) \subseteq Ids(actors[q].pend)

LEMMA BecomesStill ==
  ASSUME Base, NEW p \in Processes, NEW b \in ActorTypes, Become(p, b),
         file' = file, past' = past, audit \subseteq audit', sent' = sent,
         b.at = "send" => actors[p].at = "send" /\ b.entries = actors[p].entries,
         b.acks = actors[p].acks, Ids(b.pend) \subseteq Ids(actors[p].pend)
  PROVE  Still(p)
BY Becomes DEF Base, Still, Quiet

LEMMA GiveUpStill ==
  ASSUME Base, NEW p \in Processes, GiveUp(p),
         file' = file, past' = past, audit \subseteq audit', sent' = sent
  PROVE  Still(p)
<1> DEFINE b == [actors[p] EXCEPT !.at = "idle"]
<1>1. b \in ActorTypes /\ Become(p, b)
  BY ActorIs DEF Base, GiveUp
<1>2. b.at # "send" /\ b.acks = actors[p].acks /\ b.pend = actors[p].pend
  BY ActorIs DEF Base, ActorTypes
<1> HIDE DEF b
<1> QED BY <1>1, <1>2, BecomesStill

LEMMA DropOverflowStill ==
  ASSUME Base, NEW p \in Processes, DropOverflow(p)
  PROVE  Still(p)
<1>1. /\ file' = file /\ sent' = sent /\ past' = past /\ actors[p].pend \in SUBSET Entry
  BY ActorIs DEF DropOverflow, world, Base, ActorTypes
<1>2. audit \subseteq audit'
  BY DEF DropOverflow, Record
<1>3. PICK b \in ActorTypes :
        /\ Become(p, b) /\ b.at # "send" /\ b.acks = {} /\ b.entries = actors[p].entries
        /\ b.pend \in {actors[p].pend, Capped(actors[p].pend)}
  BY DropOverflowIs
<1>4. Ids(b.pend) \subseteq Ids(actors[p].pend)
  BY <1>1, <1>3, IdsShrink
<1>5. actors[p].acks = {}
  BY AppendMeans DEF DropOverflow
<1> QED BY <1>1, <1>2, <1>3, <1>4, <1>5, BecomesStill

LEMMA ConfirmStill ==
  ASSUME Base, NEW p \in Processes, NEW i \in Listens, NEW stage \in Stages, Confirm(p, i, stage)
  PROVE  Still(p)
<1>1. UNCHANGED <<file, audit, lock, heard, sent, faults, past>>
  BY ConfirmIs
<1>2. PICK b \in ActorTypes :
        /\ Become(p, b) /\ b.at = actors[p].at /\ b.pend = actors[p].pend
        /\ b.entries = actors[p].entries /\ b.acks = actors[p].acks
  BY ConfirmIs
<1> QED BY <1>1, <1>2, BecomesStill

LEMMA CancelStill ==
  ASSUME Base, NEW p \in Processes, Cancel(p)
  PROVE  Still(p)
<1>1. actors[p].at = "send" /\ UNCHANGED <<file, audit, heard, sent, faults, past>>
  BY CancelIs
<1>2. PICK b \in ActorTypes :
        /\ Become(p, b) /\ b.at = "idle" /\ b.pend = actors[p].pend
        /\ b.entries = {} /\ b.acks = {}
  BY CancelIs
<1>3. actors[p].acks = {}
  BY <1>1, SendingMeans
<1> QED BY <1>1, <1>2, <1>3, BecomesStill

\* A listen is retained under a number nobody has seen.
LEMMA ListenQuiet ==
  ASSUME Base, NEW p \in Processes, NEW services \in SUBSET Services, NEW exact \in BOOLEAN,
         Listen(p, services, exact)
  PROVE  /\ Quiet(p) /\ sent' = sent /\ heard' = heard + 1
         /\ \A q \in Processes :
              /\ actors'[q].acks = actors[q].acks
              /\ Ids(actors'[q].pend) \subseteq Ids(actors[q].pend) \cup {heard + 1}
<1> DEFINE d == [id |-> heard + 1, pending |-> services,
                 exact |-> IF exact THEN "pending" ELSE "none"]
           b == [actors[p] EXCEPT !.at = "listen", !.pend = @ \cup {d}]
<1>1. d \in Entry /\ d.id = heard + 1
  BY CapsAssumption DEF Base, Types, Listen, Entry, Markers, Listens
<1>2. actors[p] \in ActorTypes
  BY ActorIs DEF Base
<1>3. Become(p, b) /\ heard' = heard + 1
      /\ UNCHANGED <<file, audit, lock, sent, faults, past>>
  BY DEF Listen, disk
<1> HIDE DEF d
<1>4. /\ b \in ActorTypes /\ b.at = "listen" /\ b.pend = actors[p].pend \cup {d}
      /\ b.acks = actors[p].acks
  BY <1>1, <1>2 DEF ActorTypes
<1> HIDE DEF b
<1>5. actors'[p] = b /\ \A q \in Processes \ {p} : actors'[q] = actors[q]
  BY <1>3, <1>4, Becomes DEF Base
<1>6. Ids(b.pend) \subseteq Ids(actors[p].pend) \cup {heard + 1}
  BY <1>1, <1>4 DEF Ids
<1> QED BY <1>3, <1>4, <1>5, <1>6 DEF Quiet

LEMMA ReplyLostQuiet ==
  ASSUME Base, NEW p \in Processes, NEW n \in DOMAIN actors[p].lanes, ReplyLost(p, n)
  PROVE  /\ Quiet(p)
         /\ \A q \in Processes :
              /\ actors'[q].acks = actors[q].acks
              /\ actors'[q].pend = actors[q].pend
<1>1. UNCHANGED <<file, audit, lock, heard, past>>
  BY ReplyLostIs
<1>2. PICK s, I : Serves(s, I, {"unsure"})
  BY ReplyLostIs
<1>3. PICK b \in ActorTypes :
        /\ Become(p, b) /\ b.at = "send" /\ b.pend = actors[p].pend
        /\ b.entries = actors[p].entries /\ b.acks = actors[p].acks
  BY ReplyLostIs
<1>4. actors[p].at = "send"
  BY ReplyLostIs
<1>5. \A t \in Services, i \in Listens : sent[t][i] # "none" => sent'[t][i] # "none"
  BY <1>2 DEF Serves
<1>6. actors'[p] = b /\ \A q \in Processes \ {p} : actors'[q] = actors[q]
  BY <1>3, Becomes DEF Base
<1> QED BY <1>1, <1>3, <1>4, <1>5, <1>6 DEF Quiet

LEMMA CrashIs ==
  ASSUME Base, NEW p \in Processes, Crash(p)
  PROVE  /\ Quiet(p)
         /\ \A s \in Services, i \in Listens :
              sent'[s][i] = IF <<i, s>> \in actors[p].acks /\ sent[s][i] = "taken"
                              THEN "unsure" ELSE sent[s][i]
         /\ actors'[p].acks = {} /\ actors'[p].pend = {}
         /\ \A q \in Processes \ {p} : actors'[q] = actors[q]
<1> DEFINE acks == actors[p].acks
<1>1. /\ sent' = Forgotten(acks) /\ Become(p, Idle)
      /\ UNCHANGED <<file, audit, heard, past>>
  BY DEF Crash, disk
<1>2. actors'[p] = Idle /\ \A q \in Processes \ {p} : actors'[q] = actors[q]
  BY <1>1, IdleIs, Becomes DEF Base
<1> HIDE DEF acks
<1>3. \A s \in Services, i \in Listens :
        sent'[s][i] = IF <<i, s>> \in acks /\ sent[s][i] = "taken" THEN "unsure" ELSE sent[s][i]
  BY <1>1, ForgottenIs DEF Base
<1>4. Quiet(p)
  BY <1>1, <1>2, <1>3, IdleIs DEF Quiet
<1> QED BY <1>2, <1>3, <1>4, IdleIs DEF acks

-----------------------------------------------------------------------------
(* No filed listen is lost *)

\* Why i no longer owes k, in terms of what outlives every process.
Excused(i, k) ==
  \/ k \in Services /\ (sent[k][i] # "none" \/ <<i, "generic">> \in audit)
  \/ k = "exact" /\ (<<i, "exact">> \in audit \/ <<i, "scope">> \in audit)

\* Each obligation filed is in the file, and in what a flush will write there
\* again, or excused; answers nobody wrote yet are those of a service.
Debts == Services \cup {"exact"}
FiledInFile ==
  \A i \in Listens, k \in Debts : <<i, k>> \in past.filed => Owing(file.lines, i, k) \/ Excused(i, k)
FiledInFlush ==
  \A p \in Processes : actors[p].at = "send" =>
    \A i \in Listens, k \in Debts :
      <<i, k>> \in past.filed => Owing(actors[p].entries, i, k) \/ Excused(i, k)
AnswersReal ==
  \A p \in Processes, i \in Listens, s \in Services :
    <<i, s>> \in actors[p].acks /\ <<i, s>> \in past.filed => sent[s][i] # "none"
Filed == FiledInFile /\ FiledInFlush /\ AnswersReal

LEMMA ExcusedStays ==
  ASSUME audit \subseteq audit', NEW i \in Listens, NEW k, Excused(i, k),
         \A s \in Services, j \in Listens : sent[s][j] # "none" => sent'[s][j] # "none"
  PROVE  Excused(i, k)'
BY DEF Excused

LEMMA QuietFiled ==
  ASSUME Filed, NEW p, Quiet(p)
  PROVE  Filed'
<1>1. \A i \in Listens, k \in Debts : Excused(i, k) => Excused(i, k)'
  BY ExcusedStays DEF Quiet
<1>2. FiledInFile'
  BY <1>1 DEF Filed, FiledInFile, Quiet
<1>3. FiledInFlush'
  BY <1>1 DEF Filed, FiledInFlush, Quiet
<1>4. AnswersReal'
  BY DEF Filed, AnswersReal, Quiet
<1> QED BY <1>2, <1>3, <1>4 DEF Filed

LEMMA FileEntryFiled ==
  ASSUME Base, Filed, NEW p \in Processes, NEW d \in actors[p].pend, FileEntry(p, d)
  PROVE  Filed'
<1>1. d \in Entry
  BY ActorIs DEF Base, ActorTypes
<1>2. Appending(p) /\ MayAppend(p) /\ audit' = audit /\ sent' = sent
  BY FileEntryIs
<1>3. PICK way :
        /\ file' = [lines |-> IF way \in {"ok", "after"} THEN file.lines \cup {d} ELSE file.lines,
                    torn |-> file.torn \/ way = "torn"]
        /\ lock' = IF way = "ok" THEN Free ELSE <<p, "append">>
        /\ past' = IF way = "ok" THEN [past EXCEPT !.filed = @ \cup Obligations(d)] ELSE past
        /\ \E b \in ActorTypes :
             /\ Become(p, b) /\ b.at # "send" /\ b.acks = {} /\ b.entries = actors[p].entries
             /\ b.pend = IF way = "ok" THEN actors[p].pend \ {d} ELSE actors[p].pend
  BY FileEntryIs
<1>4. PICK b \in ActorTypes : Become(p, b) /\ b.at # "send" /\ b.acks = {}
  BY <1>3
<1>5. \A q \in Processes : actors'[q].at # "send" /\ actors'[q].acks = {}
  <2>1. actors'[p] = b /\ \A q \in Processes \ {p} : actors'[q] = actors[q]
    BY <1>4, Becomes DEF Base
  <2>2. \A q \in Processes \ {p} : actors[q].at # "send" /\ actors[q].acks = {}
    BY <1>2, AppendMeans DEF Base, LockHeld
  <2> QED BY <1>4, <2>1, <2>2
<1>6. FiledInFile'
  <2> SUFFICES ASSUME NEW i \in Listens, NEW k \in Debts, <<i, k>> \in past'.filed
               PROVE  Owing(file'.lines, i, k) \/ Excused(i, k)'
    BY DEF FiledInFile
  <2>1. CASE <<i, k>> \in past.filed
    <3>1. Owing(file.lines, i, k) \/ Excused(i, k)
      BY <2>1 DEF Filed, FiledInFile
    <3>2. file.lines \subseteq file'.lines
      BY <1>3
    <3>3. Owing(file.lines, i, k) => Owing(file'.lines, i, k)
      BY <3>2 DEF Owing
    <3>4. Excused(i, k) => Excused(i, k)'
      BY <1>2 DEF Excused
    <3> QED BY <3>1, <3>3, <3>4
  <2>2. CASE <<i, k>> \notin past.filed
    <3>1. way = "ok" /\ <<i, k>> \in Obligations(d)
      BY <1>3, <2>2 DEF Base, Types
    <3>2. d \in file'.lines
      BY <1>3, <3>1
    <3>3. d.id = i /\ (k \in d.pending \/ (k = "exact" /\ OwesExact(d)))
      BY <1>1, <3>1, ObligationsAre
    <3> QED BY <3>2, <3>3 DEF Owing
  <2> QED BY <2>1, <2>2
<1> QED BY <1>5, <1>6 DEF Filed, FiledInFlush, AnswersReal

LEMMA RetryCompactionFiled ==
  ASSUME Base, Filed, NEW p \in Processes, RetryCompaction(p)
  PROVE  Filed'
<1> DEFINE a == actors[p]
<1>1. lock = <<p, "flush">> /\ UNCHANGED <<audit, heard, sent, past>>
  BY RetryCompactionIs
<1>2. CASE GiveUp(p) /\ UNCHANGED <<file, lock>>
  BY <1>1, <1>2, GiveUpStill, QuietFiled DEF Still
<1>3. ASSUME NEW way, Replace(way, Stripped(file.lines, a.acks)),
             NEW b \in ActorTypes, Become(p, b), b.at # "send",
             IF way = "ok" THEN b.acks = {} ELSE b.acks = a.acks /\ b.at = "idle"
      PROVE  Filed'
  <2>1. file.lines \in SUBSET Entry /\ a.acks \in SUBSET (Listens \X Services)
    BY ActorIs DEF Base, Types, ActorTypes
  <2>2. file'.lines = file.lines \/ file'.lines = Stripped(file.lines, a.acks)
    BY <1>3, <2>1, StrippedIs, ReplaceIs DEF Base
  <2>3. \A q \in Processes : actors'[q].at # "send" /\ actors'[q].acks \subseteq actors[q].acks
    <3>1. actors'[p] = b /\ \A q \in Processes \ {p} : actors'[q] = actors[q]
      BY <1>3, Becomes DEF Base
    <3>2. \A q \in Processes \ {p} : actors[q].at # "send"
      BY <1>1 DEF Base, LockHeld
    <3> QED BY <1>3, <3>1, <3>2
  <2>4. FiledInFile'
    <3> SUFFICES ASSUME NEW i \in Listens, NEW k \in Debts, <<i, k>> \in past.filed
                 PROVE  Owing(file'.lines, i, k) \/ Excused(i, k)'
      BY <1>1 DEF FiledInFile
    <3>1. Owing(file.lines, i, k) \/ Excused(i, k)
      BY DEF Filed, FiledInFile
    <3>2. CASE Excused(i, k)
      BY <1>1, <3>2 DEF Excused
    <3>3. CASE Owing(file.lines, i, k) /\ <<i, k>> \notin a.acks
      BY <2>1, <2>2, <3>3, StrippedKeeps
    <3>4. CASE <<i, k>> \in a.acks
      <4>1. k \in Services
        BY <2>1, <3>4
      <4>2. sent[k][i] # "none"
        BY <3>4, <4>1 DEF Filed, AnswersReal
      <4> QED BY <1>1, <4>1, <4>2 DEF Excused
    <3> QED BY <3>1, <3>2, <3>3, <3>4
  <2>5. AnswersReal'
    BY <1>1, <2>3 DEF Filed, AnswersReal
  <2> QED BY <2>3, <2>4, <2>5 DEF Filed, FiledInFlush
<1> QED BY <1>2, <1>3, RetryCompactionIs

LEMMA SettleFiled ==
  ASSUME Base, Filed, NEW p \in Processes, NEW old \in Horizons, Settle(p, old)
  PROVE  Filed'
<1> DEFINE a == actors[p]
           loaded == Compacted(a, old)
           entries == Started(loaded)
           Done(way) == IF way = "before" THEN {} ELSE Confirmed(a, "source")
<1>1. a \in ActorTypes
  BY ActorIs DEF Base
<1>2. /\ lock = Free /\ OneLinePerListen
      /\ audit' = audit \cup RetireScopes(a) \cup Drops(loaded) /\ sent' = sent
  BY SettleIs DEF Readable
<1>3. PICK way :
        /\ IF MustCommit(a, loaded) THEN Replace(way, entries) ELSE way = "ok" /\ file' = file
        /\ past' = [filed |-> past.filed \ (((1..old) \X Aging) \cup (Done(way) \X {"exact"})),
                    exposed |-> IF way = "ok" THEN (past.exposed \ Done(way)) \cup Ids(Exact(entries))
                                             ELSE past.exposed \ Done(way)]
        /\ \E b \in ActorTypes :
             /\ Become(p, b) /\ b.acks = {}
             /\ IF way = "ok" THEN b.at = "send" /\ b.entries = entries ELSE b.at = "idle"
  BY SettleIs
<1>4. PICK b \in ActorTypes :
        /\ Become(p, b) /\ b.acks = {}
        /\ IF way = "ok" THEN b.at = "send" /\ b.entries = entries ELSE b.at = "idle"
  BY <1>3
<1>5. old \in Nat
  BY DEF Horizons, Base, Types, Entry, Listens
<1>6. entries \in SUBSET Entry
  BY <1>1, SettledType DEF Base
<1>7. /\ file'.lines = file.lines \/ (way # "before" /\ file'.lines = entries)
  BY <1>3, <1>6, ReplaceIs DEF Base
<1>8. actors'[p] = b /\ \A q \in Processes \ {p} : actors'[q].at # "send" /\ actors'[q].acks = {}
  <2>1. actors'[p] = b /\ \A q \in Processes \ {p} : actors'[q] = actors[q]
    BY <1>4, Becomes DEF Base
  <2>2. \A q \in Processes \ {p} : actors[q].at # "send" /\ actors[q].acks = {}
    BY <1>2, LocksDiffer DEF Base, LockHeld
  <2> QED BY <2>1, <2>2
<1>9. ASSUME NEW i \in Listens, NEW k \in Debts, <<i, k>> \in past'.filed
      PROVE  /\ Owing(file.lines, i, k) \/ Excused(i, k)'
             /\ way # "before" => Owing(entries, i, k) \/ Excused(i, k)'
  <2>1. <<i, k>> \in past.filed /\ ~(k \in Aging /\ i <= old) /\ ~(k = "exact" /\ i \in Done(way))
    <3> HIDE DEF Done
    <3> QED BY <1>3, <1>5, <1>9 DEF Listens
  <2>2. Owing(file.lines, i, k) \/ Excused(i, k)
    BY <2>1 DEF Filed, FiledInFile
  <2>3. CASE Excused(i, k)
    <3>1. Excused(i, k)'
      BY <1>2, <2>3 DEF Excused
    <3> QED BY <3>1
  <2>4. CASE Owing(file.lines, i, k)
    <3>1. \/ Owing(entries, i, k)
          \/ k \in Aging /\ i <= old
          \/ k = "exact" /\ i \in Confirmed(a, "scope") \cup Confirmed(a, "source")
          \/ k \in Services /\ <<i, "generic">> \in Drops(loaded)
          \/ k = "exact" /\ <<i, "exact">> \in Drops(loaded)
      BY <1>1, <1>2, <2>4, SettledKeeps DEF Base, Debts
    <3>2. CASE k \in Services /\ <<i, "generic">> \in Drops(loaded)
      <4>1. Excused(i, k)'
        BY <1>2, <3>2 DEF Excused
      <4> QED BY <2>4, <4>1
    <3>3. CASE k = "exact" /\ <<i, "exact">> \in Drops(loaded)
      <4>1. Excused(i, k)'
        BY <1>2, <3>3 DEF Excused
      <4> QED BY <2>4, <4>1
    <3>4. CASE k = "exact" /\ i \in Confirmed(a, "scope")
      <4>1. <<i, "scope">> \in audit'
        BY <1>2, <3>4 DEF RetireScopes
      <4>2. Excused(i, k)'
        BY <3>4, <4>1 DEF Excused
      <4> QED BY <2>4, <4>2
    <3>5. CASE k = "exact" /\ i \in Confirmed(a, "source")
      BY <2>1, <2>4, <3>5
    <3>6. CASE Owing(entries, i, k)
      BY <2>4, <3>6
    <3> QED BY <2>1, <3>1, <3>2, <3>3, <3>4, <3>5, <3>6
  <2> QED BY <2>2, <2>3, <2>4
<1> HIDE DEF entries, loaded
<1>10. FiledInFile'
  BY <1>7, <1>9 DEF FiledInFile
<1>11. FiledInFlush'
  <2> SUFFICES ASSUME NEW q \in Processes, actors'[q].at = "send",
                      NEW i \in Listens, NEW k \in Debts, <<i, k>> \in past'.filed
               PROVE  Owing(actors'[q].entries, i, k) \/ Excused(i, k)'
    BY DEF FiledInFlush
  <2>1. q = p /\ way = "ok" /\ actors'[q].entries = entries
    BY <1>4, <1>8
  <2> QED BY <1>9, <2>1
<1>12. AnswersReal'
  BY <1>4, <1>8 DEF AnswersReal
<1> QED BY <1>10, <1>11, <1>12 DEF Filed

LEMMA DeliverFiled ==
  ASSUME Base, Filed, NEW p \in Processes, NEW n \in DOMAIN actors[p].lanes, Deliver(p, n)
  PROVE  Filed'
<1> DEFINE a == actors[p]
<1>1. a.at = "send" /\ UNCHANGED <<audit, lock, heard>>
  BY DeliverIs
<1>2. PICK s \in Services, I \in SUBSET Listens, way \in RewriteWays :
        LET rest == Stripped(a.entries, I \X {s}) IN
        /\ I \subseteq Ids(a.entries) /\ \A i \in I : Owing(a.entries, i, s)
        /\ \/ Serves(s, I, {"taken", "unsure"}) /\ past' = past
           \/ past' = [past EXCEPT !.filed = @ \ (I \X {s})] /\ sent' = sent
        /\ Replace(way, rest)
        /\ \E b \in ActorTypes :
             /\ Become(p, b) /\ b.pend = a.pend
             /\ IF way = "ok" THEN b.at = "send" /\ b.entries = rest /\ b.acks = {}
                              ELSE b.at = "idle" /\ b.entries = {} /\ b.acks = I \X {s}
  BY DeliverIs
<1> DEFINE acks == I \X {s}
           rest == Stripped(a.entries, acks)
<1>3. PICK b \in ActorTypes :
        /\ Become(p, b)
        /\ IF way = "ok" THEN b.at = "send" /\ b.entries = rest /\ b.acks = {}
                         ELSE b.at = "idle" /\ b.entries = {} /\ b.acks = acks
  BY <1>2
<1>4. a.entries \in SUBSET Entry /\ acks \in SUBSET (Listens \X Services)
  BY ActorIs DEF Base, ActorTypes
<1>5. file'.lines = file.lines \/ file'.lines = rest
  BY <1>2, <1>4, StrippedIs, ReplaceIs DEF Base
<1>6. actors'[p] = b /\ \A q \in Processes \ {p} : actors'[q].at # "send" /\ actors'[q].acks = {}
  BY <1>1, <1>3, Becomes, SendingMeans DEF Base
<1>7. past'.filed \subseteq past.filed
  BY <1>2 DEF Base, Types
<1>8. \A i \in Listens, t \in Services : sent[t][i] # "none" => sent'[t][i] # "none"
  BY <1>2 DEF Serves
<1>9. \A i \in I : <<i, s>> \in past'.filed => sent'[s][i] # "none"
  BY <1>2 DEF Serves, Base, Types
<1>10. ASSUME NEW i \in Listens, NEW k \in Debts, <<i, k>> \in past'.filed
       PROVE  /\ Owing(file.lines, i, k) \/ Excused(i, k)'
              /\ Owing(rest, i, k) \/ Excused(i, k)'
  <2>1. <<i, k>> \in past.filed
    BY <1>7, <1>10
  <2>2. Excused(i, k) => Excused(i, k)'
    BY <1>1, <1>8 DEF Excused
  <2>3. Owing(file.lines, i, k) \/ Excused(i, k)
    BY <2>1 DEF Filed, FiledInFile
  <2>4. Owing(a.entries, i, k) \/ Excused(i, k)
    BY <1>1, <2>1 DEF Filed, FiledInFlush
  <2>5. CASE <<i, k>> \in acks
    <3>1. k \in Services /\ sent'[k][i] # "none"
      BY <1>9, <1>10, <2>5
    <3>2. Excused(i, k)'
      BY <3>1 DEF Excused
    <3> QED BY <3>2
  <2>6. CASE <<i, k>> \notin acks
    <3>1. Owing(a.entries, i, k) => Owing(rest, i, k)
      BY <1>4, <2>6, StrippedKeeps
    <3> QED BY <2>2, <2>3, <2>4, <3>1
  <2> QED BY <2>5, <2>6
<1> HIDE DEF rest
<1>11. FiledInFile'
  BY <1>5, <1>10 DEF FiledInFile
<1>12. FiledInFlush'
  <2> SUFFICES ASSUME NEW q \in Processes, actors'[q].at = "send",
                      NEW i \in Listens, NEW k \in Debts, <<i, k>> \in past'.filed
               PROVE  Owing(actors'[q].entries, i, k) \/ Excused(i, k)'
    BY DEF FiledInFlush
  <2>1. q = p /\ actors'[q].entries = rest
    BY <1>3, <1>6
  <2> QED BY <1>10, <2>1
<1>13. AnswersReal'
  <2> SUFFICES ASSUME NEW q \in Processes, NEW i \in Listens, NEW t \in Services,
                      <<i, t>> \in actors'[q].acks, <<i, t>> \in past'.filed
               PROVE  sent'[t][i] # "none"
    BY DEF AnswersReal
  <2>1. <<i, t>> \in acks
    BY <1>3, <1>6
  <2> QED BY <1>9, <2>1
<1> QED BY <1>11, <1>12, <1>13 DEF Filed

LEMMA FinishFiled ==
  ASSUME Base, Filed, NEW p \in Processes, Finish(p)
  PROVE  Filed'
<1> DEFINE a == actors[p]
<1>1. a.at = "send" /\ UNCHANGED <<audit, heard, sent, past>>
  BY FinishIs
<1>2. PICK way : Replace(way, a.entries)
  BY FinishIs
<1>3. PICK b \in ActorTypes : Become(p, b) /\ b.at = "idle" /\ b.acks = {}
  BY FinishIs
<1>4. a.entries \in SUBSET Entry
  BY ActorIs DEF Base, ActorTypes
<1>5. file'.lines = file.lines \/ file'.lines = a.entries
  BY <1>2, <1>4, ReplaceIs DEF Base
<1>6. \A q \in Processes : actors'[q].at # "send" /\ actors'[q].acks = {}
  BY <1>1, <1>3, Becomes, SendingMeans DEF Base
<1>7. FiledInFile'
  BY <1>1, <1>5 DEF Filed, FiledInFile, FiledInFlush, Excused
<1> QED BY <1>6, <1>7 DEF Filed, FiledInFlush, AnswersReal

\* Either a step is quiet, or it is one of the five that write the file.
LEMMA StepsOrQuiet ==
  ASSUME Base, Next
  PROVE  \E p \in Processes :
           \/ Quiet(p)
           \/ \E e \in actors[p].pend : FileEntry(p, e)
           \/ RetryCompaction(p)
           \/ \E old \in Horizons : Settle(p, old)
           \/ \E n \in DOMAIN actors[p].lanes : Deliver(p, n)
           \/ Finish(p)
<1>1. PICK p \in Processes :
           \/ \E services \in SUBSET Services, exact \in BOOLEAN : Listen(p, services, exact)
           \/ AppendBusy(p)
           \/ DropOverflow(p)
           \/ \E e \in actors[p].pend : FileEntry(p, e)
           \/ RetryCompaction(p)
           \/ SettleBusy(p)
           \/ SettleUnreadable(p)
           \/ \E old \in Horizons : SettleAuditFails(p, old)
           \/ \E old \in Horizons : Settle(p, old)
           \/ \E n \in DOMAIN actors[p].lanes : ReplyLost(p, n)
           \/ \E n \in DOMAIN actors[p].lanes : Deliver(p, n)
           \/ Finish(p)
           \/ Cancel(p)
           \/ \E i \in Listens, stage \in Stages : Confirm(p, i, stage)
           \/ Crash(p)
  BY Steps
<1>2. ASSUME NEW services \in SUBSET Services, NEW exact \in BOOLEAN, Listen(p, services, exact)
      PROVE  Quiet(p)
  BY <1>2, ListenQuiet
<1>3. AppendBusy(p) \/ SettleBusy(p) \/ SettleUnreadable(p) => Quiet(p)
  BY GiveUpStill DEF AppendBusy, SettleBusy, SettleUnreadable, disk, world, Still
<1>4. ASSUME NEW old \in Horizons, SettleAuditFails(p, old) PROVE Quiet(p)
  <2>1. audit \subseteq audit'
    BY <1>4 DEF SettleAuditFails
  <2> QED BY <1>4, <2>1, GiveUpStill DEF SettleAuditFails, world, Still
<1>5. DropOverflow(p) \/ Cancel(p) => Quiet(p)
  BY DropOverflowStill, CancelStill DEF Still
<1>6. ASSUME NEW i \in Listens, NEW stage \in Stages, Confirm(p, i, stage) PROVE Quiet(p)
  BY <1>6, ConfirmStill DEF Still
<1>7. ASSUME NEW n \in DOMAIN actors[p].lanes, ReplyLost(p, n) PROVE Quiet(p)
  BY <1>7, ReplyLostQuiet
<1>8. Crash(p) => Quiet(p)
  BY CrashIs
<1> QED BY <1>1, <1>2, <1>3, <1>4, <1>5, <1>6, <1>7, <1>8, Zenon

LEMMA FiledNext == Base /\ Filed /\ [Next]_vars => Filed'
<1> SUFFICES ASSUME Base, Filed, [Next]_vars PROVE Filed'
  OBVIOUS
<1>1. CASE UNCHANGED vars
  BY <1>1 DEF vars, Filed, FiledInFile, FiledInFlush, AnswersReal, Excused
<1>2. CASE Next
  <2>1. PICK p \in Processes :
           \/ Quiet(p)
           \/ \E e \in actors[p].pend : FileEntry(p, e)
           \/ RetryCompaction(p)
           \/ \E old \in Horizons : Settle(p, old)
           \/ \E n \in DOMAIN actors[p].lanes : Deliver(p, n)
           \/ Finish(p)
    BY <1>2, StepsOrQuiet
  <2>2. Quiet(p) => Filed'
    BY QuietFiled
  <2>3. ASSUME NEW e \in actors[p].pend, FileEntry(p, e) PROVE Filed'
    BY <2>3, FileEntryFiled
  <2>4. RetryCompaction(p) => Filed'
    BY RetryCompactionFiled
  <2>5. ASSUME NEW old \in Horizons, Settle(p, old) PROVE Filed'
    BY <2>5, SettleFiled
  <2>6. ASSUME NEW n \in DOMAIN actors[p].lanes, Deliver(p, n) PROVE Filed'
    BY <2>6, DeliverFiled
  <2>7. Finish(p) => Filed'
    BY FinishFiled
  <2> QED BY <2>1, <2>2, <2>3, <2>4, <2>5, <2>6, <2>7, Zenon
<1> QED BY <1>1, <1>2

\* A listen whose append was confirmed owes its services and the music server
\* until they have it, refused it, or its loss was audited, whatever fails
\* (queue.rs:3-9, actor.rs:1192-1202).
THEOREM NoListenLost == Spec => []FiledIsNeverLost
<1>1. Init => Filed
  <2> SUFFICES ASSUME Init PROVE Filed
    OBVIOUS
  <2>1. \A p \in Processes : actors[p].at = "idle" /\ actors[p].acks = {}
    BY IdleIs DEF Init
  <2> QED BY <2>1 DEF Init, Filed, FiledInFile, FiledInFlush, AnswersReal
<1>2. Base /\ Filed => FiledIsNeverLost
  <2> SUFFICES ASSUME Base, Filed, NEW o \in past.filed PROVE Accounted(o[1], o[2])
    BY DEF FiledIsNeverLost
  <2>1. PICK i \in Listens, k \in Debts : o = <<i, k>>
    BY DEF Base, Types, Debts
  <2>2. Owing(file.lines, i, k) \/ Excused(i, k)
    BY <2>1 DEF Filed, FiledInFile
  <2>3. CASE Excused(i, k)
    BY <2>1, <2>3 DEF Excused, Accounted
  <2>4. CASE Owing(file.lines, i, k)
    <3>1. PICK e \in file.lines : e.id = i /\ (k \in e.pending \/ (k = "exact" /\ OwesExact(e)))
      BY <2>4 DEF Owing
    <3>2. e \in Entry
      BY DEF Base, Types
    <3>3. <<i, k>> \in Obligations(e)
      BY <3>1, <3>2, ObligationsAre
    <3> QED BY <2>1, <3>3 DEF Accounted
  <2> QED BY <2>2, <2>3, <2>4
<1> QED BY <1>1, <1>2, BaseAlways, FiledNext, PTL DEF Spec

-----------------------------------------------------------------------------
(* No listen is submitted twice without uncertainty *)

\* A listen that a service has, and the actor knows it, is retained nowhere, is
\* owed on disk only while its answer waits for a rewrite, and is owed by no
\* flush.
TakenNotRetained ==
  \A s \in Services, i \in Listens : sent[s][i] = "taken" =>
    \A p \in Processes : i \notin Ids(actors[p].pend)
TakenAnswered ==
  \A s \in Services, i \in Listens : sent[s][i] = "taken" /\ Owing(file.lines, i, s) =>
    \E p \in Processes : <<i, s>> \in actors[p].acks
TakenNotSent ==
  \A s \in Services, i \in Listens : sent[s][i] = "taken" =>
    \A p \in Processes : actors[p].at = "send" => ~Owing(actors[p].entries, i, s)
Once == OnlyUncertaintyRepeats /\ TakenNotRetained /\ TakenAnswered /\ TakenNotSent

LEMMA StillOnce ==
  ASSUME Once, NEW p, Still(p)
  PROVE  Once'
<1>1. OnlyUncertaintyRepeats'
  BY DEF Once, OnlyUncertaintyRepeats, Still
<1>2. TakenNotRetained'
  BY DEF Once, TakenNotRetained, Still
<1>3. TakenAnswered'
  BY DEF Once, TakenAnswered, Still, Quiet
<1>4. TakenNotSent'
  BY DEF Once, TakenNotSent, Still, Quiet
<1> QED BY <1>1, <1>2, <1>3, <1>4 DEF Once

LEMMA ListenOnce ==
  ASSUME Base, Once, NEW p \in Processes, NEW services \in SUBSET Services, NEW exact \in BOOLEAN,
         Listen(p, services, exact)
  PROVE  Once'
<1>1. /\ Quiet(p) /\ sent' = sent
      /\ \A q \in Processes :
           /\ actors'[q].acks = actors[q].acks
           /\ Ids(actors'[q].pend) \subseteq Ids(actors[q].pend) \cup {heard + 1}
  BY ListenQuiet
<1>2. \A s \in Services, i \in Listens : sent[s][i] = "taken" => i # heard + 1
  <2> SUFFICES ASSUME NEW s \in Services, NEW i \in Listens, sent[s][i] = "taken" PROVE i # heard + 1
    OBVIOUS
  <2>1. i <= heard /\ heard \in Nat /\ i \in Int
    BY DEF Base, Known, Types, Listens
  <2> QED BY <2>1
<1>3. OnlyUncertaintyRepeats'
  BY <1>1 DEF Once, OnlyUncertaintyRepeats
<1>4. TakenNotRetained'
  BY <1>1, <1>2 DEF Once, TakenNotRetained
<1>5. TakenAnswered'
  BY <1>1 DEF Once, TakenAnswered, Quiet
<1>6. TakenNotSent'
  BY <1>1 DEF Once, TakenNotSent, Quiet
<1> QED BY <1>3, <1>4, <1>5, <1>6 DEF Once

LEMMA ReplyLostOnce ==
  ASSUME Base, Once, NEW p \in Processes, NEW n \in DOMAIN actors[p].lanes, ReplyLost(p, n)
  PROVE  Once'
<1>1. Quiet(p) /\ \A q \in Processes : actors'[q].acks = actors[q].acks /\ actors'[q].pend = actors[q].pend
  BY ReplyLostQuiet
<1>2. PICK s, I : /\ \A i \in I : Owing(actors[p].entries, i, s)
                  /\ Serves(s, I, {"unsure"})
  BY ReplyLostIs
<1>3. actors[p].at = "send"
  BY ReplyLostIs
<1>4. \A t \in Services, i \in Listens :
        /\ sent'[t][i] # "twice"
        /\ sent'[t][i] = "taken" => sent[t][i] = "taken"
  <2> SUFFICES ASSUME NEW t \in Services, NEW i \in Listens
               PROVE  sent'[t][i] # "twice" /\ (sent'[t][i] = "taken" => sent[t][i] = "taken")
    OBVIOUS
  <2>1. sent[t][i] # "twice"
    BY DEF Once, OnlyUncertaintyRepeats
  <2>2. t = s /\ i \in I => sent[t][i] # "taken"
    BY <1>2, <1>3 DEF Once, TakenNotSent
  <2> QED BY <1>2, <2>1, <2>2 DEF Serves
<1>5. OnlyUncertaintyRepeats'
  BY <1>4 DEF OnlyUncertaintyRepeats
<1>6. TakenNotRetained'
  BY <1>1, <1>4 DEF Once, TakenNotRetained
<1>7. TakenAnswered'
  BY <1>1, <1>4 DEF Once, TakenAnswered, Quiet
<1>8. TakenNotSent'
  BY <1>1, <1>4 DEF Once, TakenNotSent, Quiet
<1> QED BY <1>5, <1>6, <1>7, <1>8 DEF Once

LEMMA CrashOnce ==
  ASSUME Base, Once, NEW p \in Processes, Crash(p)
  PROVE  Once'
<1>1. /\ Quiet(p)
      /\ \A s \in Services, i \in Listens :
           sent'[s][i] = IF <<i, s>> \in actors[p].acks /\ sent[s][i] = "taken"
                           THEN "unsure" ELSE sent[s][i]
      /\ actors'[p].acks = {} /\ actors'[p].pend = {}
      /\ \A q \in Processes \ {p} : actors'[q] = actors[q]
  BY CrashIs
<1>2. \A s \in Services, i \in Listens :
        /\ sent'[s][i] = "taken" => sent[s][i] = "taken" /\ <<i, s>> \notin actors[p].acks
        /\ sent'[s][i] = "twice" => sent[s][i] = "twice"
  BY <1>1
<1>3. OnlyUncertaintyRepeats'
  BY <1>2 DEF Once, OnlyUncertaintyRepeats
<1>4. TakenNotRetained'
  BY <1>1, <1>2 DEF Once, TakenNotRetained, Ids
<1>5. TakenAnswered'
  <2> SUFFICES ASSUME NEW s \in Services, NEW i \in Listens, sent'[s][i] = "taken", Owing(file'.lines, i, s)
               PROVE  \E q \in Processes : <<i, s>> \in actors'[q].acks
    BY DEF TakenAnswered
  <2>1. PICK q \in Processes : <<i, s>> \in actors[q].acks
    BY <1>1, <1>2 DEF Once, TakenAnswered, Quiet
  <2>2. q # p
    BY <1>2, <2>1
  <2> QED BY <1>1, <2>1, <2>2
<1>6. TakenNotSent'
  BY <1>1, <1>2 DEF Once, TakenNotSent, Quiet
<1> QED BY <1>3, <1>4, <1>5, <1>6 DEF Once

LEMMA FileEntryOnce ==
  ASSUME Base, Once, NEW p \in Processes, NEW d \in actors[p].pend, FileEntry(p, d)
  PROVE  Once'
<1>1. Appending(p) /\ MayAppend(p) /\ sent' = sent
  BY FileEntryIs
<1>2. \A q \in Processes : actors[q].acks = {} /\ actors[q].at # "send"
  BY <1>1, AppendMeans DEF Base, LockHeld
<1>3. PICK way :
        /\ file' = [lines |-> IF way \in {"ok", "after"} THEN file.lines \cup {d} ELSE file.lines,
                    torn |-> file.torn \/ way = "torn"]
        /\ lock' = IF way = "ok" THEN Free ELSE <<p, "append">>
        /\ past' = IF way = "ok" THEN [past EXCEPT !.filed = @ \cup Obligations(d)] ELSE past
        /\ \E b \in ActorTypes :
             /\ Become(p, b) /\ b.at # "send" /\ b.acks = {} /\ b.entries = actors[p].entries
             /\ b.pend = IF way = "ok" THEN actors[p].pend \ {d} ELSE actors[p].pend
  BY FileEntryIs
<1>4. PICK b \in ActorTypes : Become(p, b) /\ b.at # "send" /\ b.pend \subseteq actors[p].pend
  BY <1>3
<1>5. \A q \in Processes :
        /\ actors'[q].at # "send"
        /\ Ids(actors'[q].pend) \subseteq Ids(actors[q].pend)
  <2>1. actors'[p] = b /\ \A q \in Processes \ {p} : actors'[q] = actors[q]
    BY <1>4, Becomes DEF Base
  <2>2. Ids(b.pend) \subseteq Ids(actors[p].pend)
    BY <1>4 DEF Ids
  <2> QED BY <1>2, <1>4, <2>1, <2>2
<1>6. OnlyUncertaintyRepeats'
  BY <1>1 DEF Once, OnlyUncertaintyRepeats
<1>7. TakenNotRetained'
  BY <1>1, <1>5 DEF Once, TakenNotRetained
<1>8. TakenAnswered'
  <2> SUFFICES ASSUME NEW s \in Services, NEW i \in Listens, sent'[s][i] = "taken", Owing(file'.lines, i, s)
               PROVE  FALSE
    BY DEF TakenAnswered
  <2>1. ~Owing(file.lines, i, s)
    BY <1>1, <1>2 DEF Once, TakenAnswered
  <2>2. file'.lines \subseteq file.lines \cup {d}
    BY <1>3
  <2>3. d.id = i
    BY <2>1, <2>2 DEF Owing
  <2>4. i \in Ids(actors[p].pend)
    BY <2>3 DEF Ids
  <2> QED BY <1>1, <2>4 DEF Once, TakenNotRetained
<1>9. TakenNotSent'
  BY <1>5 DEF TakenNotSent
<1> QED BY <1>6, <1>7, <1>8, <1>9 DEF Once

LEMMA RetryCompactionOnce ==
  ASSUME Base, Once, NEW p \in Processes, RetryCompaction(p)
  PROVE  Once'
<1> DEFINE a == actors[p]
<1>1. lock = <<p, "flush">> /\ UNCHANGED <<audit, heard, sent, past>>
  BY RetryCompactionIs
<1>2. CASE GiveUp(p) /\ UNCHANGED <<file, lock>>
  BY <1>1, <1>2, GiveUpStill, StillOnce
<1>3. ASSUME NEW way, Replace(way, Stripped(file.lines, a.acks)),
             NEW b \in ActorTypes, Become(p, b), b.at # "send", b.pend = a.pend,
             IF way = "ok" THEN b.acks = {} ELSE b.acks = a.acks /\ b.at = "idle"
      PROVE  Once'
  <2>1. file.lines \in SUBSET Entry
    BY DEF Base, Types
  <2>2. IF way = "before" THEN file' = file ELSE file'.lines = Stripped(file.lines, a.acks)
    BY <1>3, <2>1, StrippedIs, ReplaceIs DEF Base
  <2>3. actors'[p] = b /\ \A q \in Processes \ {p} : actors'[q] = actors[q]
    BY <1>3, Becomes DEF Base
  <2>4. \A q \in Processes \ {p} : actors[q].at # "send" /\ actors[q].acks = {}
    BY <1>1 DEF Base, LockHeld
  <2>5. OnlyUncertaintyRepeats'
    BY <1>1 DEF Once, OnlyUncertaintyRepeats
  <2>6. TakenNotRetained'
    BY <1>1, <1>3, <2>3 DEF Once, TakenNotRetained
  <2>7. TakenAnswered'
    <3> SUFFICES ASSUME NEW s \in Services, NEW i \in Listens, sent[s][i] = "taken", Owing(file'.lines, i, s)
                 PROVE  \E q \in Processes : <<i, s>> \in actors'[q].acks
      BY <1>1 DEF TakenAnswered
    <3>1. CASE way = "before"
      <4>1. PICK q \in Processes : <<i, s>> \in actors[q].acks
        BY <2>2, <3>1 DEF Once, TakenAnswered
      <4>2. q = p
        BY <2>4, <4>1
      <4> QED BY <1>3, <2>3, <3>1, <4>1, <4>2
    <3>2. CASE way # "before"
      <4>1. Owing(file.lines, i, s) /\ <<i, s>> \notin a.acks
        BY <2>1, <2>2, <3>2, StrippedOwes
      <4> QED BY <2>4, <4>1 DEF Once, TakenAnswered
    <3> QED BY <3>1, <3>2
  <2>8. TakenNotSent'
    BY <1>3, <2>3, <2>4 DEF TakenNotSent
  <2> QED BY <2>5, <2>6, <2>7, <2>8 DEF Once
<1> QED BY <1>2, <1>3, RetryCompactionIs

LEMMA SettleOnce ==
  ASSUME Base, Once, NEW p \in Processes, NEW old \in Horizons, Settle(p, old)
  PROVE  Once'
<1> DEFINE a == actors[p]
           loaded == Compacted(a, old)
           entries == Started(loaded)
           Done(way) == IF way = "before" THEN {} ELSE Confirmed(a, "source")
<1>1. a \in ActorTypes
  BY ActorIs DEF Base
<1>2. lock = Free /\ sent' = sent
  BY SettleIs
<1>3. PICK way :
        /\ IF MustCommit(a, loaded) THEN Replace(way, entries) ELSE way = "ok" /\ file' = file
        /\ past' = [filed |-> past.filed \ (((1..old) \X Aging) \cup (Done(way) \X {"exact"})),
                    exposed |-> IF way = "ok" THEN (past.exposed \ Done(way)) \cup Ids(Exact(entries))
                                             ELSE past.exposed \ Done(way)]
        /\ \E b \in ActorTypes :
             /\ Become(p, b) /\ b.pend = a.pend /\ b.acks = {}
             /\ IF way = "ok"
                  THEN b.at = "send" /\ b.entries = entries /\ lock' = <<p, "flush">>
                  ELSE b.at = "idle" /\ b.entries = a.entries /\ lock' = lock
  BY SettleIs
<1>4. PICK b \in ActorTypes :
        /\ Become(p, b) /\ b.pend = a.pend /\ b.acks = {}
        /\ IF way = "ok" THEN b.at = "send" /\ b.entries = entries ELSE b.at = "idle"
  BY <1>3
<1>5. entries \in SUBSET Entry
  BY <1>1, SettledType DEF Base
<1>6. file'.lines = file.lines \/ file'.lines = entries
  BY <1>3, <1>5, ReplaceIs DEF Base
<1>7. \A q \in Processes : actors[q].at # "send" /\ actors[q].acks = {}
  BY <1>2, LocksDiffer DEF Base, LockHeld
<1>8. actors'[p] = b /\ \A q \in Processes \ {p} : actors'[q] = actors[q]
  BY <1>4, Becomes DEF Base
<1>9. \A s \in Services, i \in Listens : sent[s][i] = "taken" =>
        ~Owing(file.lines, i, s) /\ ~Owing(entries, i, s)
  <2> SUFFICES ASSUME NEW s \in Services, NEW i \in Listens, sent[s][i] = "taken"
               PROVE  ~Owing(file.lines, i, s) /\ ~Owing(entries, i, s)
    OBVIOUS
  <2>1. ~Owing(file.lines, i, s)
    BY <1>7 DEF Once, TakenAnswered
  <2> QED BY <1>1, <2>1, SettledOwes DEF Base
<1> HIDE DEF entries, loaded
<1>10. OnlyUncertaintyRepeats'
  BY <1>2 DEF Once, OnlyUncertaintyRepeats
<1>11. TakenNotRetained'
  BY <1>2, <1>4, <1>8 DEF Once, TakenNotRetained
<1>12. TakenAnswered'
  BY <1>2, <1>6, <1>9 DEF TakenAnswered
<1>13. TakenNotSent'
  BY <1>2, <1>4, <1>7, <1>8, <1>9 DEF TakenNotSent
<1> QED BY <1>10, <1>11, <1>12, <1>13 DEF Once

LEMMA DeliverOnce ==
  ASSUME Base, Once, NEW p \in Processes, NEW n \in DOMAIN actors[p].lanes, Deliver(p, n)
  PROVE  Once'
<1> DEFINE a == actors[p]
<1>1. a.at = "send"
  BY DeliverIs
<1>2. PICK s \in Services, I \in SUBSET Listens, way \in RewriteWays :
        LET rest == Stripped(a.entries, I \X {s}) IN
        /\ I \subseteq Ids(a.entries) /\ \A i \in I : Owing(a.entries, i, s)
        /\ \/ Serves(s, I, {"taken", "unsure"}) /\ past' = past
           \/ past' = [past EXCEPT !.filed = @ \ (I \X {s})] /\ sent' = sent
        /\ Replace(way, rest)
        /\ \E b \in ActorTypes :
             /\ Become(p, b) /\ b.pend = a.pend
             /\ IF way = "ok" THEN b.at = "send" /\ b.entries = rest /\ b.acks = {}
                              ELSE b.at = "idle" /\ b.entries = {} /\ b.acks = I \X {s}
  BY DeliverIs
<1> DEFINE acks == I \X {s}
           rest == Stripped(a.entries, acks)
<1>3. PICK b \in ActorTypes :
        /\ Become(p, b) /\ b.pend = a.pend
        /\ IF way = "ok" THEN b.at = "send" /\ b.entries = rest /\ b.acks = {}
                         ELSE b.at = "idle" /\ b.entries = {} /\ b.acks = acks
  BY <1>2
<1>4. a.entries \in SUBSET Entry /\ acks \in SUBSET (Listens \X Services)
  BY ActorIs DEF Base, ActorTypes
<1>5. IF way = "before" THEN file' = file ELSE file'.lines = rest
  BY <1>2, <1>4, StrippedIs, ReplaceIs DEF Base
<1>6. \A q \in Processes : actors[q].acks = {}
  BY <1>1, SendingMeans
<1>7. actors'[p] = b /\ \A q \in Processes \ {p} : actors'[q] = actors[q] /\ actors'[q].at # "send"
  BY <1>1, <1>3, Becomes, SendingMeans DEF Base
<1>8. \A t \in Services, i \in Listens :
        /\ sent'[t][i] # "twice"
        /\ sent'[t][i] = "taken" => sent[t][i] = "taken" \/ <<i, t>> \in acks
  <2> SUFFICES ASSUME NEW t \in Services, NEW i \in Listens
               PROVE  /\ sent'[t][i] # "twice"
                      /\ sent'[t][i] = "taken" => sent[t][i] = "taken" \/ <<i, t>> \in acks
    OBVIOUS
  <2>1. sent[t][i] # "twice"
    BY DEF Once, OnlyUncertaintyRepeats
  <2>2. t = s /\ i \in I => sent[t][i] # "taken"
    BY <1>1, <1>2 DEF Once, TakenNotSent
  <2>3. Serves(s, I, {"taken", "unsure"}) \/ sent' = sent
    BY <1>2
  <2> QED BY <2>1, <2>2, <2>3 DEF Serves
<1>9. \A t \in Services, i \in Listens :
        (sent[t][i] = "taken" \/ <<i, t>> \in acks) => ~Owing(rest, i, t)
  <2> SUFFICES ASSUME NEW t \in Services, NEW i \in Listens,
                      sent[t][i] = "taken" \/ <<i, t>> \in acks, Owing(rest, i, t)
               PROVE  FALSE
    OBVIOUS
  <2>1. Owing(a.entries, i, t) /\ <<i, t>> \notin acks
    BY <1>4, StrippedOwes
  <2> QED BY <1>1, <2>1 DEF Once, TakenNotSent
<1> HIDE DEF rest
<1>10. OnlyUncertaintyRepeats'
  BY <1>8 DEF OnlyUncertaintyRepeats
<1>11. TakenNotRetained'
  <2> SUFFICES ASSUME NEW t \in Services, NEW i \in Listens, sent'[t][i] = "taken", NEW q \in Processes
               PROVE  i \notin Ids(actors'[q].pend)
    BY DEF TakenNotRetained
  <2>1. actors'[q].pend = actors[q].pend
    BY <1>3, <1>7
  <2>2. CASE sent[t][i] = "taken"
    BY <2>1, <2>2 DEF Once, TakenNotRetained
  <2>3. CASE <<i, t>> \in acks
    <3>1. i \in Ids(a.entries)
      BY <1>2, <2>3
    <3>2. \A e \in actors[q].pend : e.id \notin Ids(a.entries)
      BY DEF Base, PendUnsent
    <3> QED BY <2>1, <3>1, <3>2 DEF Ids
  <2> QED BY <1>8, <2>2, <2>3
<1>12. TakenAnswered'
  <2> SUFFICES ASSUME NEW t \in Services, NEW i \in Listens, sent'[t][i] = "taken", Owing(file'.lines, i, t)
               PROVE  \E q \in Processes : <<i, t>> \in actors'[q].acks
    BY DEF TakenAnswered
  <2>1. way = "before" /\ Owing(file.lines, i, t)
    BY <1>5, <1>8, <1>9
  <2>2. sent[t][i] # "taken"
    BY <1>6, <2>1 DEF Once, TakenAnswered
  <2>3. <<i, t>> \in acks
    BY <1>8, <2>2
  <2> QED BY <1>3, <1>7, <2>1, <2>3
<1>13. TakenNotSent'
  <2> SUFFICES ASSUME NEW t \in Services, NEW i \in Listens, sent'[t][i] = "taken",
                      NEW q \in Processes, actors'[q].at = "send"
               PROVE  ~Owing(actors'[q].entries, i, t)
    BY DEF TakenNotSent
  <2>1. actors'[q].entries = rest
    BY <1>3, <1>7
  <2> QED BY <1>8, <1>9, <2>1
<1> QED BY <1>10, <1>11, <1>12, <1>13 DEF Once

LEMMA FinishOnce ==
  ASSUME Base, Once, NEW p \in Processes, Finish(p)
  PROVE  Once'
<1> DEFINE a == actors[p]
<1>1. a.at = "send" /\ UNCHANGED <<audit, heard, sent, past>>
  BY FinishIs
<1>2. PICK way : Replace(way, a.entries)
  BY FinishIs
<1>3. PICK b \in ActorTypes : Become(p, b) /\ b.at = "idle" /\ b.pend = a.pend
  BY FinishIs
<1>4. a.entries \in SUBSET Entry
  BY ActorIs DEF Base, ActorTypes
<1>5. file'.lines = file.lines \/ file'.lines = a.entries
  BY <1>2, <1>4, ReplaceIs DEF Base
<1>6. \A q \in Processes : actors[q].acks = {}
  BY <1>1, SendingMeans
<1>7. actors'[p] = b /\ \A q \in Processes \ {p} : actors'[q] = actors[q] /\ actors'[q].at # "send"
  BY <1>1, <1>3, Becomes, SendingMeans DEF Base
<1>8. OnlyUncertaintyRepeats'
  BY <1>1 DEF Once, OnlyUncertaintyRepeats
<1>9. TakenNotRetained'
  BY <1>1, <1>3, <1>7 DEF Once, TakenNotRetained
<1>10. TakenAnswered'
  BY <1>1, <1>5, <1>6 DEF Once, TakenAnswered, TakenNotSent
<1>11. TakenNotSent'
  BY <1>3, <1>7 DEF TakenNotSent
<1> QED BY <1>8, <1>9, <1>10, <1>11 DEF Once

LEMMA OnceNext == Base /\ Once /\ [Next]_vars => Once'
<1> SUFFICES ASSUME Base, Once, [Next]_vars PROVE Once'
  OBVIOUS
<1>1. CASE UNCHANGED vars
  BY <1>1 DEF vars, Once, OnlyUncertaintyRepeats, TakenNotRetained, TakenAnswered, TakenNotSent
<1>2. CASE Next
  <2>1. PICK p \in Processes :
           \/ \E services \in SUBSET Services, exact \in BOOLEAN : Listen(p, services, exact)
           \/ AppendBusy(p)
           \/ DropOverflow(p)
           \/ \E e \in actors[p].pend : FileEntry(p, e)
           \/ RetryCompaction(p)
           \/ SettleBusy(p)
           \/ SettleUnreadable(p)
           \/ \E old \in Horizons : SettleAuditFails(p, old)
           \/ \E old \in Horizons : Settle(p, old)
           \/ \E n \in DOMAIN actors[p].lanes : ReplyLost(p, n)
           \/ \E n \in DOMAIN actors[p].lanes : Deliver(p, n)
           \/ Finish(p)
           \/ Cancel(p)
           \/ \E i \in Listens, stage \in Stages : Confirm(p, i, stage)
           \/ Crash(p)
    BY <1>2, Steps
  <2>2. Still(p) => Once'
    BY StillOnce
  <2>3. ASSUME NEW services \in SUBSET Services, NEW exact \in BOOLEAN, Listen(p, services, exact)
        PROVE  Once'
    BY <2>3, ListenOnce
  <2>4. AppendBusy(p) \/ SettleBusy(p) \/ SettleUnreadable(p) => Still(p)
    BY GiveUpStill DEF AppendBusy, SettleBusy, SettleUnreadable, disk, world
  <2>5. DropOverflow(p) \/ Cancel(p) => Still(p)
    BY DropOverflowStill, CancelStill
  <2>6. ASSUME NEW e \in actors[p].pend, FileEntry(p, e) PROVE Once'
    BY <2>6, FileEntryOnce
  <2>7. RetryCompaction(p) => Once'
    BY RetryCompactionOnce
  <2>8. ASSUME NEW old \in Horizons, SettleAuditFails(p, old) PROVE Still(p)
    <3>1. audit \subseteq audit'
      BY <2>8 DEF SettleAuditFails
    <3> QED BY <2>8, <3>1, GiveUpStill DEF SettleAuditFails, world
  <2>9. ASSUME NEW old \in Horizons, Settle(p, old) PROVE Once'
    BY <2>9, SettleOnce
  <2>10. ASSUME NEW n \in DOMAIN actors[p].lanes, ReplyLost(p, n) PROVE Once'
    BY <2>10, ReplyLostOnce
  <2>11. ASSUME NEW n \in DOMAIN actors[p].lanes, Deliver(p, n) PROVE Once'
    BY <2>11, DeliverOnce
  <2>12. Finish(p) => Once'
    BY FinishOnce
  <2>13. ASSUME NEW i \in Listens, NEW stage \in Stages, Confirm(p, i, stage) PROVE Still(p)
    BY <2>13, ConfirmStill
  <2>14. Crash(p) => Once'
    BY CrashOnce
  <2> QED BY <2>1, <2>2, <2>3, <2>4, <2>5, <2>6, <2>7, <2>8, <2>9, <2>10, <2>11, <2>12,
             <2>13, <2>14, Zenon
<1> QED BY <1>1, <1>2

\* A service takes a listen twice only if an answer was lost or a process died
\* holding one: no failed append or rewrite, at any point, in any process,
\* repeats a submission (actor.rs:244-250, 744-748).
THEOREM SentOnce == Spec => []OnlyUncertaintyRepeats
<1>1. Init => Once
  <2> SUFFICES ASSUME Init PROVE Once
    OBVIOUS
  <2>1. \A s \in Services, i \in Listens : sent[s][i] = "none"
    BY DEF Init
  <2> QED BY <2>1 DEF Once, OnlyUncertaintyRepeats, TakenNotRetained, TakenAnswered, TakenNotSent
<1>2. Once => OnlyUncertaintyRepeats
  BY DEF Once
<1> QED BY <1>1, <1>2, BaseAlways, OnceNext, PTL DEF Spec

-----------------------------------------------------------------------------
(* What was exposed stays protected *)

\* Each exposed event is started in the file, and in what a flush will write
\* there again, unless its account was retired.
Safe(S, i) == Shielded(S, i) \/ <<i, "scope">> \in audit
Replayable ==
  /\ \A i \in past.exposed : Safe(file.lines, i)
  /\ \A p \in Processes : actors[p].at = "send" =>
       \A i \in past.exposed : Safe(actors[p].entries, i)

LEMMA QuietReplayable ==
  ASSUME Replayable, NEW p, Quiet(p)
  PROVE  Replayable'
BY DEF Replayable, Quiet, Safe

LEMMA FileEntryReplayable ==
  ASSUME Base, Replayable, NEW p \in Processes, NEW d \in actors[p].pend, FileEntry(p, d)
  PROVE  Replayable'
<1>1. Appending(p) /\ MayAppend(p) /\ audit' = audit
  BY FileEntryIs
<1>2. PICK way :
        /\ file' = [lines |-> IF way \in {"ok", "after"} THEN file.lines \cup {d} ELSE file.lines,
                    torn |-> file.torn \/ way = "torn"]
        /\ lock' = IF way = "ok" THEN Free ELSE <<p, "append">>
        /\ past' = IF way = "ok" THEN [past EXCEPT !.filed = @ \cup Obligations(d)] ELSE past
        /\ \E b \in ActorTypes :
             /\ Become(p, b) /\ b.at # "send" /\ b.acks = {} /\ b.entries = actors[p].entries
             /\ b.pend = IF way = "ok" THEN actors[p].pend \ {d} ELSE actors[p].pend
  BY FileEntryIs
<1>3. PICK b \in ActorTypes : Become(p, b) /\ b.at # "send"
  BY <1>2
<1>4. \A q \in Processes : actors'[q].at # "send"
  <2>1. actors'[p] = b /\ \A q \in Processes \ {p} : actors'[q] = actors[q]
    BY <1>3, Becomes DEF Base
  <2>2. \A q \in Processes \ {p} : actors[q].at # "send"
    BY <1>1, AppendMeans DEF Base, LockHeld
  <2> QED BY <1>3, <2>1, <2>2
<1>5. file.lines \subseteq file'.lines /\ past'.exposed = past.exposed
  BY <1>2 DEF Base, Types
<1> QED BY <1>1, <1>4, <1>5 DEF Replayable, Safe, Shielded

LEMMA RetryCompactionReplayable ==
  ASSUME Base, Replayable, NEW p \in Processes, RetryCompaction(p)
  PROVE  Replayable'
<1> DEFINE a == actors[p]
<1>1. lock = <<p, "flush">> /\ UNCHANGED <<audit, heard, sent, past>>
  BY RetryCompactionIs
<1>2. CASE GiveUp(p) /\ UNCHANGED <<file, lock>>
  BY <1>1, <1>2, GiveUpStill, QuietReplayable DEF Still
<1>3. ASSUME NEW way, Replace(way, Stripped(file.lines, a.acks)),
             NEW b \in ActorTypes, Become(p, b), b.at # "send"
      PROVE  Replayable'
  <2>1. file.lines \in SUBSET Entry
    BY DEF Base, Types
  <2>2. file'.lines = file.lines \/ file'.lines = Stripped(file.lines, a.acks)
    BY <1>3, <2>1, StrippedIs, ReplaceIs DEF Base
  <2>3. \A i \in past.exposed : Safe(file'.lines, i)
    BY <2>1, <2>2, StrippedShields DEF Replayable, Safe
  <2>4. \A q \in Processes : actors'[q].at # "send"
    BY <1>1, <1>3, Becomes DEF Base, LockHeld
  <2> QED BY <1>1, <2>3, <2>4 DEF Replayable, Safe
<1> QED BY <1>2, <1>3, RetryCompactionIs

LEMMA SettleReplayable ==
  ASSUME Base, Replayable, NEW p \in Processes, NEW old \in Horizons, Settle(p, old)
  PROVE  Replayable'
<1> DEFINE a == actors[p]
           loaded == Compacted(a, old)
           entries == Started(loaded)
           Done(way) == IF way = "before" THEN {} ELSE Confirmed(a, "source")
<1>1. a \in ActorTypes /\ loaded \in SUBSET Entry /\ entries \in SUBSET Entry
  BY ActorIs, CompactedIs, SettledType DEF Base
<1>2. /\ lock = Free /\ OneLinePerListen
      /\ audit' = audit \cup RetireScopes(a) \cup Drops(loaded)
  BY SettleIs DEF Readable
<1>3. PICK way :
        /\ IF MustCommit(a, loaded) THEN Replace(way, entries) ELSE way = "ok" /\ file' = file
        /\ past' = [filed |-> past.filed \ (((1..old) \X Aging) \cup (Done(way) \X {"exact"})),
                    exposed |-> IF way = "ok" THEN (past.exposed \ Done(way)) \cup Ids(Exact(entries))
                                             ELSE past.exposed \ Done(way)]
        /\ \E b \in ActorTypes :
             /\ Become(p, b)
             /\ IF way = "ok" THEN b.at = "send" /\ b.entries = entries ELSE b.at = "idle"
  BY SettleIs
<1>4. PICK b \in ActorTypes :
        /\ Become(p, b)
        /\ IF way = "ok" THEN b.at = "send" /\ b.entries = entries ELSE b.at = "idle"
  BY <1>3
<1>5. actors'[p] = b /\ \A q \in Processes \ {p} : actors'[q].at # "send"
  BY <1>2, <1>4, Becomes, LocksDiffer DEF Base, LockHeld
<1>6. \/ file'.lines = file.lines /\ (way = "before" \/ ~MustCommit(a, loaded))
      \/ file'.lines = entries /\ way # "before"
  BY <1>1, <1>3, ReplaceIs DEF Base
<1>7. \A i \in Confirmed(a, "scope") : <<i, "scope">> \in audit'
  BY <1>2 DEF RetireScopes
<1>8. ASSUME NEW i \in past.exposed, i \notin Done(way)
      PROVE  Safe(file.lines, i)' /\ (way = "ok" => Shielded(entries, i) \/ <<i, "scope">> \in audit')
  <2>1. Shielded(file.lines, i) \/ <<i, "scope">> \in audit
    BY DEF Replayable, Safe
  <2>2. CASE <<i, "scope">> \in audit'
    BY <2>2 DEF Safe
  <2>3. CASE Shielded(file.lines, i) /\ <<i, "scope">> \notin audit'
    <3>1. way # "before" => Shielded(entries, i)
      BY <1>1, <1>2, <1>7, <1>8, <2>3, SettledShields DEF Base
    <3> HIDE DEF entries
    <3> QED BY <1>6, <2>3, <3>1 DEF Safe
  <2> QED BY <1>2, <2>1, <2>2, <2>3
<1>9. ASSUME way = "ok", NEW i \in Ids(Exact(entries))
      PROVE  Safe(file.lines, i)' /\ Shielded(entries, i)
  <2>1. Shielded(entries, i)
    BY <1>1, <1>9, StartedShields
  <2>2. ~MustCommit(a, loaded) => Shielded(file.lines, i)
    BY <1>1, <1>2, <1>9, UncommittedShields DEF Base
  <2> HIDE DEF entries, loaded
  <2> QED BY <1>6, <1>9, <2>1, <2>2 DEF Safe
<1> HIDE DEF entries, loaded, Done
<1>10. \A i \in past'.exposed :
         /\ i \in past.exposed \ Done(way) \/ (way = "ok" /\ i \in Ids(Exact(entries)))
  BY <1>3
<1>11. \A i \in past'.exposed : Safe(file.lines, i)'
  BY <1>8, <1>9, <1>10
<1>12. ASSUME NEW q \in Processes, actors'[q].at = "send", NEW i \in past'.exposed
       PROVE  Safe(actors[q].entries, i)'
  <2>1. q = p /\ way = "ok" /\ actors'[q].entries = entries
    BY <1>4, <1>5, <1>12
  <2>2. Shielded(entries, i) \/ <<i, "scope">> \in audit'
    BY <1>8, <1>9, <1>10, <2>1
  <2> QED BY <2>1, <2>2 DEF Safe
<1> QED BY <1>11, <1>12 DEF Replayable

LEMMA DeliverReplayable ==
  ASSUME Base, Replayable, NEW p \in Processes, NEW n \in DOMAIN actors[p].lanes, Deliver(p, n)
  PROVE  Replayable'
<1> DEFINE a == actors[p]
<1>1. a.at = "send" /\ UNCHANGED <<audit, lock, heard>>
  BY DeliverIs
<1>2. PICK s \in Services, I \in SUBSET Listens, way \in RewriteWays :
        LET rest == Stripped(a.entries, I \X {s}) IN
        /\ I \subseteq Ids(a.entries) /\ \A i \in I : Owing(a.entries, i, s)
        /\ \/ Serves(s, I, {"taken", "unsure"}) /\ past' = past
           \/ past' = [past EXCEPT !.filed = @ \ (I \X {s})] /\ sent' = sent
        /\ Replace(way, rest)
        /\ \E b \in ActorTypes :
             /\ Become(p, b) /\ b.pend = a.pend
             /\ IF way = "ok" THEN b.at = "send" /\ b.entries = rest /\ b.acks = {}
                              ELSE b.at = "idle" /\ b.entries = {} /\ b.acks = I \X {s}
  BY DeliverIs
<1> DEFINE acks == I \X {s}
           rest == Stripped(a.entries, acks)
<1>3. PICK b \in ActorTypes :
        /\ Become(p, b)
        /\ IF way = "ok" THEN b.at = "send" /\ b.entries = rest ELSE b.at = "idle"
  BY <1>2
<1>4. a.entries \in SUBSET Entry
  BY ActorIs DEF Base, ActorTypes
<1>5. file'.lines = file.lines \/ file'.lines = rest
  BY <1>2, <1>4, StrippedIs, ReplaceIs DEF Base
<1>6. actors'[p] = b /\ \A q \in Processes \ {p} : actors'[q].at # "send"
  BY <1>1, <1>3, Becomes, SendingMeans DEF Base
<1>7. past'.exposed = past.exposed
  BY <1>2 DEF Base, Types
<1>8. \A i \in past.exposed : Safe(file.lines, i) /\ Safe(rest, i)
  BY <1>1, <1>4, StrippedShields DEF Replayable, Safe
<1> HIDE DEF rest
<1> QED BY <1>1, <1>3, <1>5, <1>6, <1>7, <1>8 DEF Replayable, Safe

LEMMA FinishReplayable ==
  ASSUME Base, Replayable, NEW p \in Processes, Finish(p)
  PROVE  Replayable'
<1> DEFINE a == actors[p]
<1>1. a.at = "send" /\ UNCHANGED <<audit, heard, sent, past>>
  BY FinishIs
<1>2. PICK way : Replace(way, a.entries)
  BY FinishIs
<1>3. PICK b \in ActorTypes : Become(p, b) /\ b.at = "idle"
  BY FinishIs
<1>4. a.entries \in SUBSET Entry
  BY ActorIs DEF Base, ActorTypes
<1>5. file'.lines = file.lines \/ file'.lines = a.entries
  BY <1>2, <1>4, ReplaceIs DEF Base
<1>6. \A q \in Processes : actors'[q].at # "send"
  BY <1>1, <1>3, Becomes, SendingMeans DEF Base
<1> QED BY <1>1, <1>5, <1>6 DEF Replayable, Safe

LEMMA ReplayableNext == Base /\ Replayable /\ [Next]_vars => Replayable'
<1> SUFFICES ASSUME Base, Replayable, [Next]_vars PROVE Replayable'
  OBVIOUS
<1>1. CASE UNCHANGED vars
  BY <1>1 DEF vars, Replayable, Safe
<1>2. CASE Next
  <2>1. PICK p \in Processes :
           \/ Quiet(p)
           \/ \E e \in actors[p].pend : FileEntry(p, e)
           \/ RetryCompaction(p)
           \/ \E old \in Horizons : Settle(p, old)
           \/ \E n \in DOMAIN actors[p].lanes : Deliver(p, n)
           \/ Finish(p)
    BY <1>2, StepsOrQuiet
  <2>2. Quiet(p) => Replayable'
    BY QuietReplayable
  <2>3. ASSUME NEW e \in actors[p].pend, FileEntry(p, e) PROVE Replayable'
    BY <2>3, FileEntryReplayable
  <2>4. RetryCompaction(p) => Replayable'
    BY RetryCompactionReplayable
  <2>5. ASSUME NEW old \in Horizons, Settle(p, old) PROVE Replayable'
    BY <2>5, SettleReplayable
  <2>6. ASSUME NEW n \in DOMAIN actors[p].lanes, Deliver(p, n) PROVE Replayable'
    BY <2>6, DeliverReplayable
  <2>7. Finish(p) => Replayable'
    BY FinishReplayable
  <2> QED BY <2>1, <2>2, <2>3, <2>4, <2>5, <2>6, <2>7, Zenon
<1> QED BY <1>1, <1>2

\* What was exposed to the bridge stays marked as started on disk until the
\* bridge acknowledged it or its account was retired, whatever crashes, caps
\* and failed rewrites follow (queue.rs:159-163, actor.rs:1211-1213).
THEOREM ExposedStaysProtected == Spec => []ExposedIsProtected
<1>1. Init => Replayable
  BY DEF Init, Replayable
<1>2. Replayable => ExposedIsProtected
  BY DEF Replayable, Safe, Shielded, ExposedIsProtected
<1> QED BY <1>1, <1>2, BaseAlways, ReplayableNext, PTL DEF Spec

-----------------------------------------------------------------------------
(* The end of a handoff follows its middle *)

\* An actor that was given a handle of i, or has a confirmation for it; and one
\* that was told the marker is durable, or has the end of its handoff.
Seen(a, i) == a.handles[i] # "none" \/ \E stage \in Stages : <<i, stage>> \in a.confirms
Promised(a, i) == a.handles[i] = "durable" \/ <<i, "source">> \in a.confirms
OnlyDurable(S, i) == \A e \in S : e.id = i => e.exact \in {"none", "durable"}
NonePending(S, i) == \A e \in S : e.id = i => e.exact # "pending"

\* What was seen was started on disk and is retained by nobody; what was
\* promised is durable on disk, and in what a flush will write there again.
SeenStarted ==
  \A p \in Processes, i \in Listens : Seen(actors[p], i) =>
    /\ i <= heard /\ NonePending(file.lines, i)
    /\ \A q \in Processes : i \notin Ids(actors[q].pend)
PromisedDurable ==
  \A p \in Processes, i \in Listens : Promised(actors[p], i) =>
    /\ OnlyDurable(file.lines, i)
    /\ \A q \in Processes : actors[q].at = "send" => OnlyDurable(actors[q].entries, i)
SendsStarted ==
  \A p \in Processes : actors[p].at = "send" =>
    /\ actors[p].confirms = {}
    /\ \A e \in actors[p].entries : e.exact # "pending"
    /\ \A e, f \in actors[p].entries : e.id = f.id => e = f
Following == SeenStarted /\ PromisedDurable /\ SendsStarted

\* The marker of e comes from that of a line of S for the same listen, and goes
\* no step back.
Descends(e, S) ==
  \E f \in S : /\ e.id = f.id
               /\ f.exact \in {"none", "durable"} => e.exact \in {"none", "durable"}
               /\ f.exact # "pending" => e.exact # "pending"
\* What a process may write: the file's lines, and what it sends.
Sources(p) == file.lines \cup (IF actors[p].at = "send" THEN actors[p].entries ELSE {})

LEMMA FollowStep ==
  ASSUME Base, Base', Following, NEW p \in Processes, NEW b,
         actors'[p] = b, \A q \in Processes \ {p} : actors'[q] = actors[q],
         heard' \in {heard, heard + 1},
         \A j \in Ids(b.pend) : j \in Ids(actors[p].pend) \/ j = heard + 1,
         \A i \in Listens : Seen(b, i) =>
           \/ Seen(actors[p], i)
           \/ /\ (lock = Free /\ i \in Ids(file.lines)) \/ i \in Ids(actors[p].entries)
              /\ NonePending(file'.lines, i),
         \A e \in file'.lines : e.id \in Ids(actors[p].pend) \/ Descends(e, Sources(p)),
         b.at = "send" =>
           /\ b.confirms = {}
           /\ \A e \in b.entries : e.exact # "pending" /\ Descends(e, Sources(p))
           /\ \A e, f \in b.entries : e.id = f.id => e = f,
         \A i \in Listens : Promised(b, i) /\ ~Promised(actors[p], i) =>
           /\ OnlyDurable(file'.lines, i)
           /\ b.at = "send" => OnlyDurable(b.entries, i)
           /\ \A q \in Processes \ {p} : actors[q].at # "send"
  PROVE  Following'
<1>0. heard \in Nat /\ \A i \in Listens : i \in Int
  BY DEF Base, Types, Listens
<1>1. ASSUME NEW q \in Processes, NEW i \in Listens, Seen(actors[q], i)
      PROVE  /\ i <= heard' /\ NonePending(file.lines, i)'
             /\ \A o \in Processes : i \notin Ids(actors'[o].pend)
  <2>1. /\ i <= heard /\ NonePending(file.lines, i)
        /\ \A o \in Processes : i \notin Ids(actors[o].pend)
    BY <1>1 DEF Following, SeenStarted
  <2>2. NonePending(Sources(p), i)
    BY <2>1 DEF Following, SendsStarted, Sources, NonePending
  <2>3. NonePending(file.lines, i)'
    <3> SUFFICES ASSUME NEW e \in file'.lines, e.id = i PROVE e.exact # "pending"
      BY DEF NonePending
    <3>1. Descends(e, Sources(p))
      BY <2>1
    <3> QED BY <2>2, <3>1 DEF Descends, NonePending
  <2>4. i # heard + 1
    BY <1>0, <2>1
  <2>5. i <= heard'
    BY <1>0, <2>1
  <2> QED BY <2>1, <2>3, <2>4, <2>5
<1>2. SeenStarted'
  <2> SUFFICES ASSUME NEW q \in Processes, NEW i \in Listens, Seen(actors'[q], i)
               PROVE  /\ i <= heard' /\ NonePending(file.lines, i)'
                      /\ \A o \in Processes : i \notin Ids(actors'[o].pend)
    BY DEF SeenStarted
  <2>1. CASE Seen(actors[q], i)
    BY <1>1, <2>1
  <2>2. CASE ~Seen(actors[q], i)
    <3>1. /\ q = p /\ NonePending(file.lines, i)'
          /\ (lock = Free /\ i \in Ids(file.lines)) \/ i \in Ids(actors[p].entries)
      BY <2>2
    <3>2. i <= heard /\ i # heard + 1
      BY <1>0, <3>1 DEF Base, Known, Ids
    <3>3. \A o \in Processes : i \notin Ids(actors[o].pend)
      BY <3>1, CapsAssumption DEF Base, PendUnfiled, PendUnsent, Ids
    <3>4. i <= heard'
      BY <1>0, <3>2
    <3> QED BY <3>1, <3>2, <3>3, <3>4
  <2> QED BY <2>1, <2>2
<1>3. PromisedDurable'
  <2> SUFFICES ASSUME NEW q \in Processes, NEW i \in Listens, Promised(actors'[q], i)
               PROVE  /\ OnlyDurable(file.lines, i)'
                      /\ \A o \in Processes : actors'[o].at = "send" => OnlyDurable(actors'[o].entries, i)
    BY DEF PromisedDurable
  <2>1. CASE Promised(actors[q], i)
    <3>1. /\ OnlyDurable(file.lines, i)
          /\ \A o \in Processes : actors[o].at = "send" => OnlyDurable(actors[o].entries, i)
      BY <2>1 DEF Following, PromisedDurable
    <3>2. OnlyDurable(Sources(p), i)
      BY <3>1 DEF Sources, OnlyDurable
    <3>3. Seen(actors[q], i)
      BY <2>1 DEF Promised, Seen, Stages
    <3>4. i \notin Ids(actors[p].pend)
      BY <3>3 DEF Following, SeenStarted
    <3>5. \A e : e.id = i /\ Descends(e, Sources(p)) => e.exact \in {"none", "durable"}
      BY <3>2 DEF Descends, OnlyDurable
    <3>6. OnlyDurable(file.lines, i)'
      BY <3>4, <3>5 DEF OnlyDurable
    <3>7. b.at = "send" => OnlyDurable(b.entries, i)
      BY <3>5 DEF OnlyDurable
    <3> QED BY <3>1, <3>6, <3>7
  <2>2. CASE ~Promised(actors[q], i)
    <3>1. q = p
      BY <2>2
    <3> QED BY <2>2, <3>1
  <2> QED BY <2>1, <2>2
<1>4. SendsStarted'
  BY DEF Following, SendsStarted
<1> QED BY <1>2, <1>3, <1>4 DEF Following

\* The steps that leave handles and confirmations alone.
Telling(p) == actors'[p].confirms = actors[p].confirms /\ actors'[p].handles = actors[p].handles

LEMMA BecomesTelling ==
  ASSUME Types, NEW p \in Processes, NEW b, Become(p, b),
         b.confirms = actors[p].confirms, b.handles = actors[p].handles
  PROVE  Telling(p)
BY DEF Types, Become, Telling

LEMMA GiveUpTelling ==
  ASSUME Types, NEW p \in Processes, GiveUp(p)
  PROVE  Telling(p)
<1>1. actors[p] \in ActorTypes
  BY ActorIs
<1> QED BY <1>1, BecomesTelling DEF GiveUp, ActorTypes

LEMMA RetainTelling ==
  ASSUME Types, NEW p \in Processes,
         DropOverflow(p) \/ (\E e \in actors[p].pend : FileEntry(p, e))
  PROVE  Telling(p)
<1> DEFINE a == actors[p]
           c(S) == [a EXCEPT !.pend = S]
<1>1. a \in ActorTypes
  BY ActorIs
<1>2. ASSUME NEW S \in SUBSET Entry, Become(p, Onward(c(S))) PROVE Telling(p)
  <2>1. c(S) \in ActorTypes /\ c(S).confirms = a.confirms /\ c(S).handles = a.handles
    BY <1>1 DEF ActorTypes
  <2> HIDE DEF c
  <2>2. Onward(c(S)).confirms = a.confirms /\ Onward(c(S)).handles = a.handles
    BY <2>1, OnwardIs
  <2> QED BY <1>2, <2>2, BecomesTelling
<1>3. a.pend \in SUBSET Entry /\ Capped(a.pend) \in SUBSET Entry
  BY <1>1, CappedIs DEF ActorTypes
<1>4. ASSUME DropOverflow(p) PROVE Telling(p)
  <2>1. Become(p, Onward(c(Capped(a.pend)))) \/ GiveUp(p)
    BY <1>4 DEF DropOverflow
  <2> QED BY <1>2, <1>3, <2>1, GiveUpTelling
<1>5. ASSUME NEW e \in a.pend, FileEntry(p, e) PROVE Telling(p)
  <2>1. Become(p, Onward(c(a.pend \ {e}))) \/ GiveUp(p)
    BY <1>5 DEF FileEntry
  <2>2. a.pend \ {e} \in SUBSET Entry
    BY <1>3
  <2> QED BY <1>2, <2>1, <2>2, GiveUpTelling
<1> QED BY <1>4, <1>5

LEMMA RetryTelling ==
  ASSUME Types, NEW p \in Processes, RetryCompaction(p)
  PROVE  Telling(p)
<1> DEFINE a == actors[p]
           c == [a EXCEPT !.acks = {}]
<1>1. a \in ActorTypes
  BY ActorIs
<1>2. Become(p, Onward(c)) \/ GiveUp(p)
  BY DEF RetryCompaction
<1>3. c \in ActorTypes /\ c.confirms = a.confirms /\ c.handles = a.handles
  BY <1>1 DEF ActorTypes
<1> HIDE DEF c
<1>4. Onward(c).confirms = a.confirms /\ Onward(c).handles = a.handles
  BY <1>3, OnwardIs
<1> QED BY <1>2, <1>4, BecomesTelling, GiveUpTelling

LEMMA SubmitTelling ==
  ASSUME Types, NEW p \in Processes,
         \/ \E n \in DOMAIN actors[p].lanes : ReplyLost(p, n) \/ Deliver(p, n)
         \/ Cancel(p)
  PROVE  Telling(p)
<1> DEFINE a == actors[p]
<1>1. a \in ActorTypes
  BY ActorIs
<1>2. ASSUME NEW n, ReplyLost(p, n) PROVE Telling(p)
  <2> DEFINE L == From(a.lanes, n + 1)
  <2>1. Become(p, [a EXCEPT !.lanes = L])
    BY <1>2 DEF ReplyLost
  <2> HIDE DEF L
  <2> QED BY <1>1, <2>1, BecomesTelling DEF ActorTypes
<1>3. ASSUME NEW n, Deliver(p, n) PROVE Telling(p)
  <2> DEFINE acks == Chunk(a, a.lanes[n]) \X {a.lanes[n]}
             rest == Stripped(a.entries, acks)
             L == From(a.lanes, n)
  <2>1. Become(p, [a EXCEPT !.entries = rest, !.lanes = L]) \/ Become(p, Unconfirmed(a, acks))
    BY <1>3, Zenon DEF Deliver
  <2> HIDE DEF acks, rest, L
  <2>2. CASE Become(p, [a EXCEPT !.entries = rest, !.lanes = L])
    BY <1>1, <2>2, BecomesTelling DEF ActorTypes
  <2>3. CASE Become(p, Unconfirmed(a, acks))
    BY <1>1, <2>3, BecomesTelling DEF ActorTypes, Unconfirmed
  <2> QED BY <2>1, <2>2, <2>3
<1>4. ASSUME Cancel(p) PROVE Telling(p)
  BY <1>1, <1>4, BecomesTelling DEF Cancel, ActorTypes
<1> QED BY <1>2, <1>3, <1>4

LEMMA DescendsSelf ==
  ASSUME NEW S, NEW e \in S PROVE Descends(e, S)
BY DEF Descends

LEMMA DescendsWider ==
  ASSUME NEW S, NEW T, S \subseteq T, NEW e, Descends(e, S) PROVE Descends(e, T)
BY DEF Descends

LEMMA StrippedDescends ==
  ASSUME NEW S \in SUBSET Entry, NEW acks, NEW f \in Stripped(S, acks)
  PROVE  Descends(f, S)
<1>1. PICK e \in S : f.id = e.id /\ f.exact = e.exact
  BY StrippedIs
<1> QED BY <1>1 DEF Descends

LEMMA StrippedUnique ==
  ASSUME NEW S \in SUBSET Entry, \A e, f \in S : e.id = f.id => e = f, NEW acks
  PROVE  \A e, f \in Stripped(S, acks) : e.id = f.id => e = f
<1> DEFINE F(e) == Owed(e, {s \in e.pending : <<e.id, s>> \notin acks})
<1>1. \A e \in S : F(e).id = e.id
  BY DEF Owed
<1>2. Stripped(S, acks) \subseteq {F(e) : e \in S}
  BY DEF Stripped
<1> HIDE DEF F
<1> QED BY <1>1, <1>2

LEMMA QuietFollows ==
  ASSUME Base, Base', Following, NEW p \in Processes, NEW b, Become(p, b),
         Quiet(p), Telling(p), heard' \in {heard, heard + 1},
         Ids(actors'[p].pend) \subseteq Ids(actors[p].pend) \cup {heard + 1}
  PROVE  Following'
<1> DEFINE a == actors[p]
           c == actors'[p]
<1>1. \A q \in Processes \ {p} : actors'[q] = actors[q]
  BY DEF Become, Base, Types
<1>2. file' = file /\ c.confirms = a.confirms /\ c.handles = a.handles
      /\ (c.at = "send" => a.at = "send" /\ c.entries = a.entries)
  BY DEF Quiet, Telling
<1>3. \A i \in Listens : (Seen(c, i) => Seen(a, i)) /\ (Promised(c, i) => Promised(a, i))
  BY <1>2 DEF Seen, Promised
<1>4. \A e \in file'.lines : Descends(e, Sources(p))
  BY <1>2, DescendsSelf DEF Sources
<1>5. c.at = "send" =>
        /\ c.confirms = {}
        /\ \A e \in c.entries : e.exact # "pending" /\ Descends(e, Sources(p))
        /\ \A e, f \in c.entries : e.id = f.id => e = f
  BY <1>2, DescendsSelf DEF Following, SendsStarted, Sources
<1> HIDE DEF c
<1>6. \A j \in Ids(c.pend) : j \in Ids(a.pend) \/ j = heard + 1
  BY DEF c
<1>7. c = actors'[p]
  BY DEF c
<1> QED BY <1>1, <1>3, <1>4, <1>5, <1>6, <1>7, FollowStep

LEMMA StillFollows ==
  ASSUME Base, Base', Following, NEW p \in Processes, NEW b, Become(p, b),
         Still(p), Telling(p), heard' = heard
  PROVE  Following'
<1>1. Ids(actors'[p].pend) \subseteq Ids(actors[p].pend) \cup {heard + 1}
  BY DEF Still
<1> QED BY <1>1, QuietFollows DEF Still

LEMMA FileEntryFollows ==
  ASSUME Base, Base', Following, NEW p \in Processes, NEW d \in actors[p].pend, FileEntry(p, d)
  PROVE  Following'
<1>1. PICK way :
        /\ file' = [lines |-> IF way \in {"ok", "after"} THEN file.lines \cup {d} ELSE file.lines,
                    torn |-> file.torn \/ way = "torn"]
        /\ lock' = IF way = "ok" THEN Free ELSE <<p, "append">>
        /\ past' = IF way = "ok" THEN [past EXCEPT !.filed = @ \cup Obligations(d)] ELSE past
        /\ \E b \in ActorTypes :
             /\ Become(p, b) /\ b.at # "send" /\ b.acks = {} /\ b.entries = actors[p].entries
             /\ b.pend = IF way = "ok" THEN actors[p].pend \ {d} ELSE actors[p].pend
  BY FileEntryIs
<1>2. PICK b \in ActorTypes :
        /\ Become(p, b) /\ b.at # "send"
        /\ b.pend = IF way = "ok" THEN actors[p].pend \ {d} ELSE actors[p].pend
  BY <1>1
<1>3. actors'[p] = b /\ \A q \in Processes \ {p} : actors'[q] = actors[q]
  BY <1>2, Becomes DEF Base
<1>4. b.confirms = actors[p].confirms /\ b.handles = actors[p].handles
  BY <1>3, RetainTelling DEF Telling, Base
<1>5. \A i \in Listens : /\ Seen(b, i) => Seen(actors[p], i)
                         /\ Promised(b, i) => Promised(actors[p], i)
  BY <1>4 DEF Seen, Promised
<1>6. \A e \in file'.lines : e.id \in Ids(actors[p].pend) \/ Descends(e, Sources(p))
  <2>1. \A e \in file'.lines : e \in file.lines \/ e = d
    BY <1>1
  <2>2. \A e \in file.lines : Descends(e, Sources(p))
    BY DescendsSelf DEF Sources
  <2> QED BY <2>1, <2>2 DEF Ids
<1>7. heard' = heard
  BY FileEntryIs
<1>8. \A j \in Ids(b.pend) : j \in Ids(actors[p].pend)
  BY <1>2 DEF Ids
<1> QED BY <1>2, <1>3, <1>5, <1>6, <1>7, <1>8, FollowStep

LEMMA RetryCompactionFollows ==
  ASSUME Base, Base', Following, NEW p \in Processes, RetryCompaction(p)
  PROVE  Following'
<1> DEFINE a == actors[p]
<1>1. heard' = heard /\ sent' = sent /\ past' = past /\ audit' = audit
  BY RetryCompactionIs
<1>2. Telling(p)
  BY RetryTelling DEF Base
<1>3. CASE GiveUp(p) /\ UNCHANGED <<file, lock>>
  <2>1. Still(p)
    BY <1>1, <1>3, GiveUpStill
  <2> QED BY <1>1, <1>2, <1>3, <2>1, StillFollows DEF GiveUp
<1>4. ASSUME NEW way, Replace(way, Stripped(file.lines, a.acks)),
             NEW b \in ActorTypes, Become(p, b), b.at # "send", b.pend = a.pend
      PROVE  Following'
  <2>1. file.lines \in SUBSET Entry
    BY DEF Base, Types
  <2>2. file'.lines = file.lines \/ file'.lines = Stripped(file.lines, a.acks)
    BY <1>4, <2>1, StrippedIs, ReplaceIs DEF Base
  <2>3. \A e \in file'.lines : Descends(e, Sources(p))
    BY <2>1, <2>2, StrippedDescends, DescendsSelf, DescendsWider DEF Sources
  <2>4. actors'[p] = b /\ \A q \in Processes \ {p} : actors'[q] = actors[q]
    BY <1>4, Becomes DEF Base
  <2>5. \A i \in Listens : (Seen(b, i) => Seen(a, i)) /\ (Promised(b, i) => Promised(a, i))
    BY <1>2, <2>4 DEF Seen, Promised, Telling
  <2> QED BY <1>1, <1>4, <2>3, <2>4, <2>5, FollowStep
<1> QED BY <1>3, <1>4, RetryCompactionIs

LEMMA DeliverFollows ==
  ASSUME Base, Base', Following, NEW p \in Processes, NEW n \in DOMAIN actors[p].lanes, Deliver(p, n)
  PROVE  Following'
<1> DEFINE a == actors[p]
<1>1. a.at = "send" /\ heard' = heard
  BY DeliverIs
<1>2. PICK s \in Services, I \in SUBSET Listens, way \in RewriteWays :
        LET rest == Stripped(a.entries, I \X {s}) IN
        /\ I \subseteq Ids(a.entries) /\ \A i \in I : Owing(a.entries, i, s)
        /\ \/ Serves(s, I, {"taken", "unsure"}) /\ past' = past
           \/ past' = [past EXCEPT !.filed = @ \ (I \X {s})] /\ sent' = sent
        /\ Replace(way, rest)
        /\ \E b \in ActorTypes :
             /\ Become(p, b) /\ b.pend = a.pend
             /\ IF way = "ok" THEN b.at = "send" /\ b.entries = rest /\ b.acks = {}
                              ELSE b.at = "idle" /\ b.entries = {} /\ b.acks = I \X {s}
  BY DeliverIs
<1> DEFINE acks == I \X {s}
           rest == Stripped(a.entries, acks)
<1>3. PICK b \in ActorTypes :
        /\ Become(p, b) /\ b.pend = a.pend
        /\ IF way = "ok" THEN b.at = "send" /\ b.entries = rest ELSE b.at = "idle"
  BY <1>2
<1>4. a.entries \in SUBSET Entry
  BY ActorIs DEF Base, ActorTypes
<1>5. file'.lines = file.lines \/ file'.lines = rest
  BY <1>2, <1>4, StrippedIs, ReplaceIs DEF Base
<1>6. actors'[p] = b /\ \A q \in Processes \ {p} : actors'[q] = actors[q]
  BY <1>3, Becomes DEF Base
<1>7. b.confirms = a.confirms /\ b.handles = a.handles
  BY <1>6, SubmitTelling DEF Base, Telling
<1>8. \A i \in Listens : (Seen(b, i) => Seen(a, i)) /\ (Promised(b, i) => Promised(a, i))
  BY <1>7 DEF Seen, Promised
<1>9. \A e \in rest : Descends(e, Sources(p)) /\ e.exact # "pending"
  <2> SUFFICES ASSUME NEW e \in rest PROVE Descends(e, Sources(p)) /\ e.exact # "pending"
    OBVIOUS
  <2>1. Descends(e, a.entries)
    BY <1>4, StrippedDescends
  <2>2. a.entries \subseteq Sources(p)
    BY <1>1 DEF Sources
  <2>3. \A f \in a.entries : f.exact # "pending"
    BY <1>1 DEF Following, SendsStarted
  <2> QED BY <2>1, <2>2, <2>3, DescendsWider DEF Descends
<1>10. \A e, f \in rest : e.id = f.id => e = f
  <2>1. \A e, f \in a.entries : e.id = f.id => e = f
    BY <1>1 DEF Following, SendsStarted
  <2> QED BY <1>4, <2>1, StrippedUnique
<1> HIDE DEF rest
<1>11. \A e \in file'.lines : Descends(e, Sources(p))
  BY <1>5, <1>9, DescendsSelf DEF Sources
<1>12. a.confirms = {}
  BY <1>1 DEF Following, SendsStarted
<1>13. b.at = "send" =>
         /\ b.confirms = {}
         /\ \A e \in b.entries : e.exact # "pending" /\ Descends(e, Sources(p))
         /\ \A e, f \in b.entries : e.id = f.id => e = f
  BY <1>3, <1>7, <1>9, <1>10, <1>12
<1> QED BY <1>1, <1>3, <1>6, <1>8, <1>11, <1>13, FollowStep

LEMMA StartedUnique ==
  ASSUME NEW S \in SUBSET Entry, \A e, f \in S : e.id = f.id => e = f
  PROVE  \A e, f \in Started(S) : e.id = f.id => e = f
<1>1. \A e, f \in Capped(S) : e.id = f.id => e = f
  BY CappedUnique
<1>2. \A e \in Capped(S) : Start(e).id = e.id
  BY DEF Start, Marked
<1>3. \A f \in Started(S) : \E e \in Capped(S) : f = Start(e)
  BY DEF Started
<1> QED BY <1>1, <1>2, <1>3

\* What a flush makes of a line: where its marker comes from.
LEMMA SettledFrom ==
  ASSUME Types, OneLinePerListen, NEW a \in ActorTypes, NEW old,
         NEW f \in Started(Compacted(a, old))
  PROVE  /\ f.exact # "pending"
         /\ \E e \in file.lines :
              /\ f.id = e.id
              /\ e.exact = "none" => f.exact = "none"
              /\ \/ f.exact = "none"
                 \/ f.exact = Advanced(a, e).exact
                 \/ f.exact = "started" /\ Advanced(a, e).exact = "pending"
<1> DEFINE C == Compacted(a, old)
<1>1. C \in SUBSET Entry
  BY CompactedIs
<1> HIDE DEF C
<1>2. f.exact # "pending"
  BY <1>1, StartedIs DEF C, OwesExact, IsStarted
<1>3. PICK g \in Capped(C) : f = Start(g)
  BY DEF Started, C
<1>4. PICK h \in C : g.id = h.id /\ (g.exact = "none" \/ g.exact = h.exact)
  BY <1>1, CappedIs
<1>5. PICK e \in file.lines : h = Aged(Advanced(a, e), old)
  BY CompactedIs DEF C
<1>6. h.id = e.id /\ h.exact = Advanced(a, e).exact
  BY <1>5, CompactedIs
<1>7. f.id = g.id /\ f.exact = IF g.exact = "pending" THEN "started" ELSE g.exact
  BY <1>3 DEF Start, Marked
<1>8. e.exact = "none" => Advanced(a, e).exact = "none"
  BY AdvancedIs
<1> QED BY <1>2, <1>4, <1>6, <1>7, <1>8

LEMMA SettledDescends ==
  ASSUME Types, OneLinePerListen, NEW a \in ActorTypes, NEW old,
         NEW f \in Started(Compacted(a, old))
  PROVE  Descends(f, file.lines)
<1>1. f.exact # "pending"
  BY SettledFrom
<1>2. PICK e \in file.lines :
        /\ f.id = e.id
        /\ e.exact = "none" => f.exact = "none"
        /\ \/ f.exact = "none"
           \/ f.exact = Advanced(a, e).exact
           \/ f.exact = "started" /\ Advanced(a, e).exact = "pending"
  BY SettledFrom
<1>3. Advanced(a, e).exact \in {e.exact, "none", "durable"}
  BY AdvancedIs
<1> QED BY <1>1, <1>2, <1>3 DEF Descends

\* Settling as its actor sees it: given up with nothing told, or gone on to
\* send, with the handles announced and the confirmations used up.
LEMMA SettleTells ==
  ASSUME Types, NEW p \in Processes, NEW old, Settle(p, old)
  PROVE  LET a == actors[p]
             loaded == Compacted(a, old)
             entries == Started(loaded)
             must == MustCommit(a, loaded) IN
         \/ /\ Telling(p) /\ actors'[p].at = "idle" /\ actors'[p].pend = a.pend
            /\ file' = file \/ file'.lines = entries
         \/ /\ actors'[p].at = "send" /\ actors'[p].entries = entries
            /\ actors'[p].pend = a.pend /\ actors'[p].confirms = {}
            /\ actors'[p].handles = Announced(a, entries, must)
            /\ IF must THEN file'.lines = entries ELSE file' = file
<1> DEFINE a == actors[p]
           loaded == Compacted(a, old)
           entries == Started(loaded)
           must == MustCommit(a, loaded)
           H == Announced(a, entries, must)
           c == [a EXCEPT !.at = "send", !.entries = entries, !.lanes = Lanes,
                   !.confirms = {}, !.handles = H]
<1>1. a \in ActorTypes
  BY ActorIs
<1>2. PICK way :
        /\ IF must THEN Replace(way, entries) ELSE way = "ok" /\ UNCHANGED file
        /\ IF way = "ok" THEN Become(p, c) ELSE GiveUp(p)
  BY DEF Settle
<1> HIDE DEF entries, H, must, loaded
<1>3. (file' = file /\ (way = "before" \/ ~must)) \/ file'.lines = entries
  BY <1>2 DEF Replace
<1>4. CASE way = "ok"
  <2>1. actors'[p] = c
    BY <1>2, <1>4 DEF Become, Types
  <2>2. c.at = "send" /\ c.entries = entries /\ c.pend = a.pend /\ c.confirms = {} /\ c.handles = H
    BY <1>1 DEF ActorTypes
  <2>3. IF must THEN file'.lines = entries ELSE file' = file
    BY <1>2, <1>4 DEF Replace
  <2> HIDE DEF c
  <2> QED BY <2>1, <2>2, <2>3 DEF entries, H, must, loaded
<1>5. CASE way # "ok"
  <2>1. Become(p, [a EXCEPT !.at = "idle"])
    BY <1>2, <1>5 DEF GiveUp
  <2>2. actors'[p].at = "idle" /\ actors'[p].pend = a.pend
    BY <1>1, <2>1 DEF Become, Types, ActorTypes
  <2>3. Telling(p)
    BY <1>2, <1>5, GiveUpTelling
  <2> QED BY <1>3, <2>2, <2>3 DEF entries, loaded
<1> QED BY <1>4, <1>5

\* Whoever is given a handle of i finds i started on disk; whoever is told that
\* i is durable finds it durable there and in what the flush sends.
LEMMA AnnouncedStarted ==
  ASSUME Types, OneLinePerListen, NEW a \in ActorTypes, NEW old, NEW i \in Listens,
         NEW lines, lines = IF MustCommit(a, Compacted(a, old))
                              THEN Started(Compacted(a, old)) ELSE file.lines,
         i \in Ids(Exact(Started(Compacted(a, old))))
  PROVE  i \in Ids(file.lines) /\ NonePending(lines, i)
<1> DEFINE C == Compacted(a, old)
           E == Started(C)
<1>1. i \in Ids(file.lines)
  BY SettledType DEF Ids, Exact
<1>2. \A f \in E : f.exact # "pending"
  BY SettledFrom
<1>3. CASE MustCommit(a, C)
  BY <1>1, <1>2, <1>3 DEF NonePending
<1>4. CASE ~MustCommit(a, C)
  <2>1. Shielded(file.lines, i)
    BY <1>4, UncommittedShields
  <2> QED BY <1>1, <1>4, <2>1 DEF Shielded, IsStarted, NonePending, OneLinePerListen
<1> QED BY <1>3, <1>4

LEMMA AnnouncedDurable ==
  ASSUME Types, OneLinePerListen, NEW a \in ActorTypes, NEW old, NEW i \in Listens,
         NEW lines, lines = IF MustCommit(a, Compacted(a, old))
                              THEN Started(Compacted(a, old)) ELSE file.lines,
         Announced(a, Started(Compacted(a, old)), MustCommit(a, Compacted(a, old)))[i] = "durable",
         a.handles[i] # "durable"
  PROVE  OnlyDurable(lines, i) /\ OnlyDurable(Started(Compacted(a, old)), i)
<1> DEFINE C == Compacted(a, old)
           E == Started(C)
           must == MustCommit(a, C)
<1>1. \A e, f \in E : e.id = f.id => e = f
  BY CompactedIs, CompactedUnique, StartedUnique
<1>2. ~must => a.confirms = {}
  BY DEF MustCommit
<1>3. \A f \in E : \E e \in file.lines :
        /\ f.id = e.id
        /\ e.exact = "none" => f.exact = "none"
        /\ f.exact = "none" \/ f.exact = Advanced(a, e).exact
             \/ (f.exact = "started" /\ Advanced(a, e).exact = "pending")
  BY SettledFrom
<1> HIDE DEF C, E, must
<1>4. /\ i \in Ids(Exact(E))
      /\ \/ \E e \in E : e.id = i /\ e.exact = "durable"
         \/ <<i, "bridge">> \in a.confirms
  BY DEF Announced, E, must, C
<1>5. PICK f \in E : f.id = i /\ f.exact # "none"
  BY <1>4 DEF Ids, Exact, OwesExact
<1>6. PICK e \in file.lines :
        /\ f.id = e.id
        /\ e.exact = "none" => f.exact = "none"
        /\ f.exact = "none" \/ f.exact = Advanced(a, e).exact
             \/ (f.exact = "started" /\ Advanced(a, e).exact = "pending")
  BY <1>3
<1>7. f.exact = "durable"
  <2>1. CASE \E g \in E : g.id = i /\ g.exact = "durable"
    BY <1>1, <1>5, <2>1
  <2>2. CASE <<i, "bridge">> \in a.confirms
    <3>1. e \in Exact(file.lines) /\ e.id = i
      BY <1>5, <1>6 DEF Exact, OwesExact
    <3>2. i \in Confirmed(a, "bridge")
      BY <2>2, <3>1 DEF Confirmed
    <3>3. Advanced(a, e).exact \in {"none", "durable"}
      BY <3>1, <3>2 DEF Advanced, Marked
    <3> QED BY <1>5, <1>6, <3>3
  <2> QED BY <1>4, <2>1, <2>2
<1>8. OnlyDurable(E, i)
  BY <1>1, <1>5, <1>7 DEF OnlyDurable
<1>9. CASE must
  BY <1>8, <1>9 DEF E, C, must
<1>10. CASE ~must
  <2>1. Advanced(a, e).exact = e.exact
    BY <1>2, <1>10, AdvancedIs
  <2>2. e.exact = "durable"
    BY <1>6, <1>7, <2>1
  <2>3. OnlyDurable(file.lines, i)
    BY <1>5, <1>6, <2>2 DEF OnlyDurable, OneLinePerListen
  <2> QED BY <1>8, <1>10, <2>3 DEF E, C, must
<1> QED BY <1>9, <1>10

LEMMA SettleFollows ==
  ASSUME Base, Base', Following, NEW p \in Processes, NEW old \in Horizons, Settle(p, old)
  PROVE  Following'
<1> DEFINE a == actors[p]
           c == actors'[p]
           loaded == Compacted(a, old)
           entries == Started(loaded)
           must == MustCommit(a, loaded)
<1>1. a \in ActorTypes
  BY ActorIs DEF Base
<1>2. lock = Free /\ OneLinePerListen /\ heard' = heard
  BY SettleIs DEF Readable
<1>3. \A q \in Processes \ {p} : actors'[q] = actors[q] /\ actors[q].at # "send"
  <2>1. \E b : Become(p, b)
    BY DEF Settle, GiveUp
  <2>2. \A q \in Processes \ {p} : actors'[q] = actors[q]
    BY <2>1 DEF Become, Base, Types
  <2> QED BY <1>2, <2>2, LocksDiffer DEF Base, LockHeld
<1>4. \A f \in entries : Descends(f, Sources(p)) /\ f.exact # "pending"
  BY <1>1, <1>2, SettledDescends, SettledFrom, DescendsWider DEF Base, Sources
<1>5. \A e, f \in entries : e.id = f.id => e = f
  BY <1>1, <1>2, CompactedIs, CompactedUnique, StartedUnique DEF Base
<1>6. \A f \in file.lines : Descends(f, Sources(p))
  BY DescendsSelf DEF Sources
<1>7. CASE /\ Telling(p) /\ c.at = "idle" /\ c.pend = a.pend
           /\ file' = file \/ file'.lines = entries
  <2>1. \A i \in Listens : (Seen(c, i) => Seen(a, i)) /\ (Promised(c, i) => Promised(a, i))
    BY <1>7 DEF Telling, Seen, Promised
  <2>2. \A e \in file'.lines : Descends(e, Sources(p))
    BY <1>4, <1>6, <1>7
  <2> HIDE DEF c, entries
  <2>3. c = actors'[p]
    BY DEF c
  <2> QED BY <1>2, <1>3, <1>7, <2>1, <2>2, <2>3, FollowStep
<1>8. CASE /\ c.at = "send" /\ c.entries = entries
           /\ c.pend = a.pend /\ c.confirms = {}
           /\ c.handles = Announced(a, entries, must)
           /\ IF must THEN file'.lines = entries ELSE file' = file
  <2>1. file'.lines = IF must THEN entries ELSE file.lines
    BY <1>8
  <2>2. ASSUME NEW i \in Listens, Seen(c, i), ~Seen(a, i)
        PROVE  i \in Ids(file.lines) /\ NonePending(file'.lines, i)
    <3>1. a.handles[i] = "none" /\ c.handles[i] # "none"
      BY <1>8, <2>2 DEF Seen
    <3>2. i \in Ids(Exact(entries))
      BY <1>8, <3>1 DEF Announced
    <3> QED BY <1>1, <1>2, <2>1, <3>2, AnnouncedStarted DEF Base
  <2>3. ASSUME NEW i \in Listens, Promised(c, i), ~Promised(a, i)
        PROVE  OnlyDurable(file'.lines, i) /\ OnlyDurable(entries, i)
    <3>1. a.handles[i] # "durable" /\ Announced(a, entries, must)[i] = "durable"
      BY <1>8, <2>3 DEF Promised
    <3> QED BY <1>1, <1>2, <2>1, <3>1, AnnouncedDurable DEF Base
  <2>4. \A e \in file'.lines : Descends(e, Sources(p))
    BY <1>4, <1>6, <2>1
  <2> HIDE DEF c, entries, must
  <2>5. c = actors'[p]
    BY DEF c
  <2>6. \A i \in Listens : Seen(c, i) =>
          \/ Seen(a, i)
          \/ /\ (lock = Free /\ i \in Ids(file.lines)) \/ i \in Ids(a.entries)
             /\ NonePending(file'.lines, i)
    BY <1>2, <2>2
  <2>7. \A i \in Listens : Promised(c, i) /\ ~Promised(a, i) =>
          /\ OnlyDurable(file'.lines, i)
          /\ c.at = "send" => OnlyDurable(c.entries, i)
          /\ \A q \in Processes \ {p} : actors[q].at # "send"
    BY <1>3, <1>8, <2>3
  <2>8. c.at = "send" =>
          /\ c.confirms = {}
          /\ \A e \in c.entries : e.exact # "pending" /\ Descends(e, Sources(p))
          /\ \A e, f \in c.entries : e.id = f.id => e = f
    BY <1>4, <1>5, <1>8
  <2> QED BY <1>2, <1>3, <1>8, <2>4, <2>5, <2>6, <2>7, <2>8, FollowStep
<1>9. \/ /\ Telling(p) /\ c.at = "idle" /\ c.pend = a.pend
         /\ file' = file \/ file'.lines = entries
      \/ /\ c.at = "send" /\ c.entries = entries
         /\ c.pend = a.pend /\ c.confirms = {}
         /\ c.handles = Announced(a, entries, must)
         /\ IF must THEN file'.lines = entries ELSE file' = file
  BY SettleTells DEF Base
<1> QED BY <1>7, <1>8, <1>9

LEMMA FinishFollows ==
  ASSUME Base, Base', Following, NEW p \in Processes, Finish(p)
  PROVE  Following'
<1> DEFINE a == actors[p]
           c == actors'[p]
           over == [a EXCEPT !.at = "idle", !.entries = {}, !.lanes = <<>>]
           H == Announced(a, a.entries, TRUE)
           done == [over EXCEPT !.handles = H]
<1>1. a \in ActorTypes /\ a.at = "send" /\ heard' = heard
  BY ActorIs, FinishIs DEF Base
<1>2. a.confirms = {} /\ (\A e \in a.entries : e.exact # "pending")
      /\ (\A e, f \in a.entries : e.id = f.id => e = f)
  BY <1>1 DEF Following, SendsStarted
<1>3. PICK way : /\ Replace(way, a.entries)
                 /\ Become(p, IF way = "ok" THEN done ELSE over)
  BY DEF Finish
<1>4. file'.lines = IF way = "before" THEN file.lines ELSE a.entries
  BY <1>3 DEF Replace
<1>5. \A e \in file'.lines : Descends(e, Sources(p))
  BY <1>1, <1>4, DescendsSelf DEF Sources
<1>6. /\ c = IF way = "ok" THEN done ELSE over
      /\ \A q \in Processes \ {p} : actors'[q] = actors[q] /\ actors[q].at # "send"
  BY <1>1, <1>3, SendingMeans DEF Become, Base, Types
<1> HIDE DEF H
<1>7. /\ c.at = "idle" /\ c.pend = a.pend /\ c.confirms = a.confirms
      /\ c.handles = IF way = "ok" THEN H ELSE a.handles
  BY <1>1, <1>6 DEF ActorTypes
<1>8. ASSUME NEW i \in Listens, Seen(c, i), ~Seen(a, i)
      PROVE  i \in Ids(a.entries) /\ NonePending(file'.lines, i)
  <2>1. way = "ok" /\ H[i] # "none" /\ a.handles[i] = "none"
    BY <1>7, <1>8 DEF Seen
  <2>2. i \in Ids(Exact(a.entries))
    BY <2>1 DEF H, Announced
  <2> QED BY <1>2, <1>4, <2>1, <2>2 DEF Ids, Exact, NonePending
<1>9. ASSUME NEW i \in Listens, Promised(c, i), ~Promised(a, i)
      PROVE  OnlyDurable(file'.lines, i)
  <2>1. way = "ok" /\ H[i] = "durable" /\ a.handles[i] # "durable"
    BY <1>7, <1>9 DEF Promised
  <2>2. \E e \in a.entries : e.id = i /\ e.exact = "durable"
    BY <1>2, <2>1 DEF H, Announced
  <2> QED BY <1>2, <1>4, <2>1, <2>2 DEF OnlyDurable
<1> HIDE DEF c
<1>10. c = actors'[p]
  BY DEF c
<1>11. \A i \in Listens : Seen(c, i) =>
         \/ Seen(a, i)
         \/ /\ (lock = Free /\ i \in Ids(file.lines)) \/ i \in Ids(a.entries)
            /\ NonePending(file'.lines, i)
  BY <1>8
<1>12. \A i \in Listens : Promised(c, i) /\ ~Promised(a, i) =>
         /\ OnlyDurable(file'.lines, i)
         /\ c.at = "send" => OnlyDurable(c.entries, i)
         /\ \A q \in Processes \ {p} : actors[q].at # "send"
  BY <1>6, <1>7, <1>9
<1> QED BY <1>1, <1>5, <1>6, <1>7, <1>10, <1>11, <1>12, FollowStep

LEMMA ConfirmFollows ==
  ASSUME Base, Base', Following, NEW p \in Processes, NEW i \in Listens, NEW stage \in Stages,
         Confirm(p, i, stage)
  PROVE  Following'
<1> DEFINE a == actors[p]
           C == Superseding(a.confirms, i, stage)
           b == [a EXCEPT !.confirms = C]
<1>1. a \in ActorTypes
  BY ActorIs DEF Base
<1>2. /\ Become(p, b) /\ file' = file /\ heard' = heard /\ a.at = "idle"
      /\ a.handles[i] # "none" /\ (stage = "source" => a.handles[i] = "durable")
  BY DEF Confirm, disk, Stages
<1>3. \A c \in C : c \in a.confirms \/ c = <<i, stage>>
  BY DEF Superseding
<1> HIDE DEF C
<1>4. b.at = "idle" /\ b.pend = a.pend /\ b.handles = a.handles /\ b.confirms = C
  BY <1>1, <1>2 DEF ActorTypes
<1>5. actors'[p] = b /\ \A q \in Processes \ {p} : actors'[q] = actors[q]
  BY <1>2 DEF Become, Base, Types
<1> HIDE DEF b
<1>6. \A j \in Listens : (Seen(b, j) => Seen(a, j)) /\ (Promised(b, j) => Promised(a, j))
  BY <1>2, <1>3, <1>4 DEF Seen, Promised
<1>7. \A e \in file'.lines : Descends(e, Sources(p))
  BY <1>2, DescendsSelf DEF Sources
<1> QED BY <1>2, <1>4, <1>5, <1>6, <1>7, FollowStep

LEMMA CrashFollows ==
  ASSUME Base, Base', Following, NEW p \in Processes, Crash(p)
  PROVE  Following'
<1>1. actors'[p] = Idle /\ \A q \in Processes \ {p} : actors'[q] = actors[q]
  BY DEF Crash, Become, Base, Types
<1>2. file' = file /\ heard' = heard
  BY DEF Crash, disk
<1>3. /\ Idle.at = "idle" /\ Ids(Idle.pend) = {}
      /\ \A i \in Listens : ~Seen(Idle, i) /\ ~Promised(Idle, i)
  BY DEF Idle, Ids, Seen, Promised
<1>4. \A e \in file'.lines : Descends(e, Sources(p))
  BY <1>2, DescendsSelf DEF Sources
<1> QED BY <1>1, <1>2, <1>3, <1>4, FollowStep

LEMMA FollowingNext == Base /\ Base' /\ Following /\ [Next]_vars => Following'
<1> SUFFICES ASSUME Base, Base', Following, [Next]_vars PROVE Following'
  OBVIOUS
<1>1. CASE UNCHANGED vars
  BY <1>1 DEF vars, Following, SeenStarted, PromisedDurable, SendsStarted, NonePending, OnlyDurable
<1>2. CASE Next
  <2>1. PICK p \in Processes :
           \/ \E services \in SUBSET Services, exact \in BOOLEAN : Listen(p, services, exact)
           \/ AppendBusy(p)
           \/ DropOverflow(p)
           \/ \E e \in actors[p].pend : FileEntry(p, e)
           \/ RetryCompaction(p)
           \/ SettleBusy(p)
           \/ SettleUnreadable(p)
           \/ \E old \in Horizons : SettleAuditFails(p, old)
           \/ \E old \in Horizons : Settle(p, old)
           \/ \E n \in DOMAIN actors[p].lanes : ReplyLost(p, n)
           \/ \E n \in DOMAIN actors[p].lanes : Deliver(p, n)
           \/ Finish(p)
           \/ Cancel(p)
           \/ \E i \in Listens, stage \in Stages : Confirm(p, i, stage)
           \/ Crash(p)
    BY <1>2, Steps
  <2>2. ASSUME NEW services \in SUBSET Services, NEW exact \in BOOLEAN, Listen(p, services, exact)
        PROVE  Following'
    <3> DEFINE d == [id |-> heard + 1, pending |-> services,
                     exact |-> IF exact THEN "pending" ELSE "none"]
               b == [actors[p] EXCEPT !.at = "listen", !.pend = @ \cup {d}]
    <3>1. actors[p] \in ActorTypes
      BY ActorIs DEF Base
    <3>2. Become(p, b)
      BY <2>2 DEF Listen
    <3> HIDE DEF d
    <3>3. b.confirms = actors[p].confirms /\ b.handles = actors[p].handles
      BY <3>1 DEF ActorTypes
    <3> HIDE DEF b
    <3>4. Telling(p)
      BY <3>2, <3>3, BecomesTelling DEF Base
    <3>5. Quiet(p) /\ heard' = heard + 1
          /\ Ids(actors'[p].pend) \subseteq Ids(actors[p].pend) \cup {heard + 1}
      BY <2>2, ListenQuiet
    <3> QED BY <3>2, <3>4, <3>5, QuietFollows
  <2>3. ASSUME AppendBusy(p) \/ SettleBusy(p) \/ SettleUnreadable(p)
               \/ \E old \in Horizons : SettleAuditFails(p, old)
        PROVE  Following'
    <3>1. /\ GiveUp(p) /\ file' = file /\ past' = past /\ sent' = sent /\ heard' = heard
          /\ audit \subseteq audit'
      BY <2>3 DEF AppendBusy, SettleBusy, SettleUnreadable, SettleAuditFails, disk, world
    <3> QED BY <3>1, GiveUpStill, GiveUpTelling, StillFollows DEF GiveUp, Base
  <2>4. ASSUME DropOverflow(p) PROVE Following'
    <3>1. \E b : Become(p, b)
      BY <2>4, DropOverflowIs
    <3>2. heard' = heard
      BY <2>4 DEF DropOverflow, world
    <3> QED BY <2>4, <3>1, <3>2, DropOverflowStill, RetainTelling, StillFollows DEF Base
  <2>5. ASSUME Cancel(p) PROVE Following'
    <3>1. \E b : Become(p, b)
      BY <2>5, CancelIs
    <3>2. heard' = heard
      BY <2>5 DEF Cancel, world
    <3> QED BY <2>5, <3>1, <3>2, CancelStill, SubmitTelling, StillFollows DEF Base
  <2>6. ASSUME NEW n \in DOMAIN actors[p].lanes, ReplyLost(p, n) PROVE Following'
    <3>1. \E b : Become(p, b)
      BY <2>6, ReplyLostIs
    <3>2. heard' = heard
      BY <2>6, ReplyLostIs
    <3>3. Quiet(p) /\ Ids(actors'[p].pend) \subseteq Ids(actors[p].pend) \cup {heard + 1}
      BY <2>6, ReplyLostQuiet
    <3>4. Telling(p)
      BY <2>6, SubmitTelling DEF Base
    <3> QED BY <3>1, <3>2, <3>3, <3>4, QuietFollows
  <2>7. ASSUME NEW e \in actors[p].pend, FileEntry(p, e) PROVE Following'
    BY <2>7, FileEntryFollows
  <2>8. RetryCompaction(p) => Following'
    BY RetryCompactionFollows
  <2>9. ASSUME NEW old \in Horizons, Settle(p, old) PROVE Following'
    BY <2>9, SettleFollows
  <2>10. ASSUME NEW n \in DOMAIN actors[p].lanes, Deliver(p, n) PROVE Following'
    BY <2>10, DeliverFollows
  <2>11. Finish(p) => Following'
    BY FinishFollows
  <2>12. ASSUME NEW i \in Listens, NEW stage \in Stages, Confirm(p, i, stage) PROVE Following'
    BY <2>12, ConfirmFollows
  <2>13. Crash(p) => Following'
    BY CrashFollows
  <2> QED BY <2>1, <2>2, <2>3, <2>4, <2>5, <2>6, <2>7, <2>8, <2>9, <2>10, <2>11, <2>12,
             <2>13, Zenon
<1> QED BY <1>1, <1>2

LEMMA FollowingInit == Init => Following
<1> SUFFICES ASSUME Init PROVE Following
  OBVIOUS
<1>1. \A p \in Processes : /\ actors[p].at = "idle"
                           /\ \A i \in Listens : ~Seen(actors[p], i) /\ ~Promised(actors[p], i)
  BY DEF Init, Idle, Seen, Promised
<1> QED BY <1>1 DEF Following, SeenStarted, PromisedDurable, SendsStarted

\* No owner acknowledges the end of a handoff whose middle is not on disk yet,
\* although several owners may hold handles of one event from before and after
\* a crash: the check at actor.rs:1151-1171 never has to send one back.
THEOREM SourceFollows == Spec => []SourceFollowsBridge
<1>1. Base /\ Following => SourceFollowsBridge
  <2> SUFFICES ASSUME Base, Following, NEW p \in Processes, EarlySource(actors[p]) PROVE FALSE
    BY DEF SourceFollowsBridge
  <2>1. PICK e \in Exact(file.lines) :
          e.exact # "durable" /\ <<e.id, "source">> \in actors[p].confirms
    BY DEF EarlySource
  <2>2. e.id \in Listens /\ e \in file.lines /\ e.exact # "none"
    BY <2>1 DEF Exact, OwesExact, Base, Types, Entry
  <2>3. OnlyDurable(file.lines, e.id)
    BY <2>1, <2>2 DEF Following, PromisedDurable, Promised
  <2> QED BY <2>1, <2>2, <2>3 DEF OnlyDurable
<1> QED BY <1>1, FollowingInit, BaseAlways, FollowingNext, PTL DEF Spec

-----------------------------------------------------------------------------
(* What no cap may evict never outgrows the cap *)

StartedOf(S) == {e \in S : IsStarted(e)}
Unique(S) == \A e, f \in S : e.id = f.id => e = f
Fits(S) == IsFiniteSet(StartedOf(S)) /\ Cardinality(StartedOf(S)) <= ExactCap

\* The started lines fit on disk, and in what a flush will write there again;
\* what is retained was never started.
Fitting ==
  /\ Fits(file.lines)
  /\ \A p \in Processes : actors[p].at = "send" => Fits(actors[p].entries)
  /\ \A p \in Processes : \A e \in actors[p].pend : ~IsStarted(e)

\* The n newest of at least n numbers are n: how many are newer numbers them.
LEMMA NewestCount ==
  ASSUME NEW U \in SUBSET Int, IsFiniteSet(U), NEW n \in Nat, n <= Cardinality(U)
  PROVE  Cardinality(Newest(U, n)) = n
<1> DEFINE m == Cardinality(U)
           Above(i) == {j \in U : j > i}
           r == [i \in U |-> Cardinality(Above(i))]
           N == {i \in U : r[i] < n}
           g == [i \in N |-> r[i]]
<1>0. m \in Nat
  BY FS_CardinalityType
<1>1. ASSUME NEW i \in U
      PROVE  IsFiniteSet(Above(i)) /\ Cardinality(Above(i)) \in 0..(m - 1)
  <2>1. Above(i) \in SUBSET (U \ {i})
    OBVIOUS
  <2>2. IsFiniteSet(U \ {i}) /\ Cardinality(U \ {i}) = m - 1
    BY FS_RemoveElement
  <2>3. IsFiniteSet(Above(i)) /\ Cardinality(Above(i)) <= Cardinality(U \ {i})
    BY <2>1, <2>2, FS_Subset
  <2>4. Cardinality(Above(i)) \in Nat
    BY <2>3, FS_CardinalityType
  <2> QED BY <1>0, <2>2, <2>3, <2>4
<1>2. ASSUME NEW i \in U, NEW j \in U, i < j PROVE Cardinality(Above(i)) # Cardinality(Above(j))
  <2>0. i \in Int /\ j \in Int /\ \A k \in U : k \in Int
    OBVIOUS
  <2>1. Above(j) \in SUBSET Above(i) /\ j \in Above(i) /\ j \notin Above(j)
    <3>1. (\A k \in U : k > j => k > i) /\ j > i /\ ~(j > j)
      BY <1>2, <2>0
    <3> QED BY <3>1, Zenon
  <2>2. Above(i) # Above(j)
    BY <2>1
  <2> HIDE DEF Above
  <2> QED BY <1>1, <2>1, <2>2, FS_Subset
<1> HIDE DEF Above
<1>3. /\ r \in [U -> 0..(m - 1)]
      /\ \A i, j \in U : r[i] = r[j] => i = j
  <2>1. \A i, j \in U : i < j => r[i] # r[j]
    BY <1>2
  <2> QED BY <1>1, <2>1
<1>4. r \in Injection(U, 0..(m - 1))
  BY <1>3, Fun_IsInj
<1>5. IsFiniteSet(0..(m - 1)) /\ Cardinality(0..(m - 1)) = m
  <2> HIDE DEF m
  <2>1. 0 \in Int /\ m - 1 \in Int /\ (IF 0 > m - 1 THEN 0 ELSE (m - 1) - 0 + 1) = m
    BY <1>0
  <2> QED BY <2>1, FS_Interval
<1>6. r \in Surjection(U, 0..(m - 1))
  BY <1>4, <1>5, FS_Injection
<1>7. \A k \in 0..(m - 1) : \E i \in U : r[i] = k
  BY <1>6 DEF Surjection
<1>8. Newest(U, n) = N
  BY DEF Newest, Above
<1> HIDE DEF r
<1>9. g \in [N -> 0..(n - 1)] /\ (\A i, j \in N : g[i] = g[j] => i = j)
  <2>1. \A i \in N : i \in U /\ r[i] \in 0..(n - 1)
    BY <1>0, <1>3
  <2>2. \A i \in N : g[i] = r[i]
    OBVIOUS
  <2> QED BY <1>3, <2>1, <2>2
<1>10. \A k \in 0..(n - 1) : \E i \in N : g[i] = k
  <2> SUFFICES ASSUME NEW k \in 0..(n - 1) PROVE \E i \in N : g[i] = k
    OBVIOUS
  <2>1. k \in 0..(m - 1)
    BY <1>0
  <2>2. PICK i \in U : r[i] = k
    BY <1>7, <2>1
  <2> QED BY <2>2
<1> HIDE DEF N, g
<1>11. g \in Bijection(N, 0..(n - 1))
  BY <1>9, <1>10, Fun_IsBij
<1>12. IsFiniteSet(N)
  BY FS_Subset DEF N
<1>13. Cardinality(0..(n - 1)) = Cardinality(N)
  BY <1>11, <1>12, FS_Bijection DEF ExistsBijection
<1>14. Cardinality(0..(n - 1)) = n
  BY FS_Interval
<1> QED BY <1>8, <1>13, <1>14

\* Entries for different listens are as many as their listens.
LEMMA IdsCount ==
  ASSUME NEW S \in SUBSET Entry, Unique(S)
  PROVE  IsFiniteSet(S) /\ IsFiniteSet(Ids(S)) /\ Cardinality(Ids(S)) = Cardinality(S)
<1> DEFINE f == [e \in S |-> e.id]
<1>1. Ids(S) \subseteq Listens
  BY DEF Ids, Entry
<1>2. IsFiniteSet(Listens)
  BY CapsAssumption, FS_Interval DEF Listens
<1>3. IsFiniteSet(Ids(S))
  BY <1>1, <1>2, FS_Subset
<1>4. f \in [S -> Ids(S)] /\ (\A e, d \in S : f[e] = f[d] => e = d) /\ (\A i \in Ids(S) : \E e \in S : f[e] = i)
  BY DEF Ids, Unique
<1>5. f \in Injection(S, Ids(S)) /\ f \in Surjection(S, Ids(S))
  BY <1>4, Fun_IsInj, Fun_IsSurj
<1> HIDE DEF f
<1>6. IsFiniteSet(S) /\ Cardinality(S) = Cardinality(Ids(S))
  BY <1>3, <1>5, FS_Injection
<1> QED BY <1>3, <1>6

LEMMA FitsById ==
  ASSUME NEW S \in SUBSET Entry, Unique(S)
  PROVE  /\ IsFiniteSet(Ids(StartedOf(S)))
         /\ Fits(S) <=> Cardinality(Ids(StartedOf(S))) <= ExactCap
<1>1. StartedOf(S) \in SUBSET Entry /\ Unique(StartedOf(S))
  BY DEF StartedOf, Unique
<1> QED BY <1>1, IdsCount DEF Fits

\* A cap brings a file whose started lines fit down to what fits, all of it
\* started: the newest that are not started make the excess.
LEMMA StartedFits ==
  ASSUME NEW S \in SUBSET Entry, Unique(S), Fits(S)
  PROVE  Fits(Started(S))
<1> DEFINE X == Exact(S)
           P == StartedOf(S)
           R == {e \in Exact(S) : ~IsStarted(e)}
           I == Ids(X)
           U == Ids(R)
           n == Excess(X, ExactCap)
           E == EvictedExact(S)
           T == StartedOf(Started(S))
<1>1. X \in SUBSET Entry /\ P \in SUBSET Entry /\ R \in SUBSET Entry
      /\ Unique(X) /\ Unique(P) /\ Unique(R)
  BY DEF Exact, StartedOf, Unique
<1>2. /\ IsFiniteSet(X) /\ IsFiniteSet(I) /\ Cardinality(I) = Cardinality(X)
      /\ IsFiniteSet(P) /\ IsFiniteSet(Ids(P)) /\ Cardinality(Ids(P)) = Cardinality(P)
      /\ IsFiniteSet(U)
  BY <1>1, IdsCount
<1>3. I = Ids(P) \cup U
  BY DEF Ids, Exact, StartedOf, IsStarted, OwesExact
<1>4. Ids(P) \cap U = {}
  BY DEF Ids, Exact, StartedOf, Unique
<1>5. E = Newest(U, n) /\ E \subseteq U
  BY NewestSubset DEF EvictedExact
<1>6. Ids(T) \subseteq I \ E
  <2> SUFFICES ASSUME NEW f \in T PROVE f.id \in I /\ f.id \notin E
    BY DEF Ids
  <2>1. f \in Started(S) /\ IsStarted(f)
    BY DEF StartedOf
  <2>2. PICK g \in Capped(S) : f = Start(g)
    BY <2>1 DEF Started
  <2>3. PICK e \in S : g = Without(e, EvictedGeneric(S), E)
    BY DEF Capped
  <2>4. g.id = e.id /\ g.exact = IF e.id \in E THEN "none" ELSE e.exact
    BY <2>3 DEF Without
  <2>5. f.id = g.id /\ g.exact # "none"
    BY <2>1, <2>2 DEF Start, Marked, IsStarted
  <2>6. e.exact # "none" /\ e.id \notin E
    BY <2>4, <2>5
  <2> HIDE DEF E
  <2> QED BY <2>4, <2>5, <2>6 DEF Ids, Exact, OwesExact
<1>7. T \in SUBSET Entry /\ Unique(T)
  BY StartedIs, StartedUnique DEF StartedOf, Unique
<1>8. IsFiniteSet(T) /\ Cardinality(Ids(T)) = Cardinality(T)
  BY <1>7, IdsCount
<1>9. Cardinality(P) <= ExactCap
  BY DEF Fits
<1> HIDE DEF X, P, R, I, U, n, E, T
<1>10. /\ Cardinality(I) \in Nat /\ Cardinality(Ids(P)) \in Nat /\ Cardinality(U) \in Nat
       /\ ExactCap \in Nat
  BY <1>2, FS_CardinalityType, CapsAssumption
<1>11. Cardinality(I) = Cardinality(Ids(P)) + Cardinality(U)
  <2>1. Cardinality(Ids(P) \cup U) = Cardinality(Ids(P)) + Cardinality(U) - Cardinality(Ids(P) \cap U)
    BY <1>2, FS_Union
  <2>2. Cardinality(Ids(P) \cap U) = 0
    BY <1>4, FS_EmptySet
  <2> QED BY <1>3, <1>10, <2>1, <2>2
<1>12. IsFiniteSet(I \ E) /\ Cardinality(I \ E) <= ExactCap
  <2>1. IsFiniteSet(I \ E) /\ Cardinality(I \ E) = Cardinality(I) - Cardinality(I \cap E)
    BY <1>2, FS_Difference
  <2>2. I \cap E = E
    BY <1>3, <1>5
  <2>3. CASE Cardinality(X) <= ExactCap
    <3>1. IsFiniteSet(I \cap E)
      BY <1>2, FS_Intersection
    <3>2. Cardinality(I \cap E) \in Nat
      BY <3>1, FS_CardinalityType
    <3> QED BY <1>2, <1>10, <2>1, <2>3, <3>2
  <2>4. CASE Cardinality(X) > ExactCap
    <3>1. n = Cardinality(I) - ExactCap
      BY <1>2, <2>4 DEF n, Excess
    <3>2. n \in Nat /\ n <= Cardinality(U)
      BY <1>2, <1>9, <1>10, <1>11, <2>4, <3>1
    <3>3. U \in SUBSET Int
      BY <1>1 DEF U, Ids, Entry, Listens
    <3>4. Cardinality(E) = n
      BY <1>2, <1>5, <3>2, <3>3, NewestCount
    <3>5. Cardinality(I \cap E) = n
      BY <2>2, <3>4
    <3>6. Cardinality(I) - n = ExactCap
      BY <1>10, <3>1
    <3>7. Cardinality(I \ E) = ExactCap
      BY <2>1, <3>5, <3>6
    <3> QED BY <1>10, <2>1, <3>7
  <2> QED BY <1>2, <1>10, <2>3, <2>4
<1>13. Cardinality(Ids(T)) <= Cardinality(I \ E)
  BY <1>6, <1>12, FS_Subset
<1>14. Cardinality(T) <= ExactCap
  BY <1>8, <1>10, <1>12, <1>13, FS_CardinalityType
<1> QED BY <1>8, <1>14 DEF Fits, T

\* Served entries fit where they fitted before they were served.
LEMMA StrippedFits ==
  ASSUME NEW S \in SUBSET Entry, NEW acks, Fits(S)
  PROVE  Fits(Stripped(S, acks))
<1> DEFINE F(e) == Owed(e, {s \in e.pending : <<e.id, s>> \notin acks})
           A == StartedOf(Stripped(S, acks))
           B == StartedOf(S)
           g == [f \in A |-> CHOOSE e \in B : f = F(e)]
<1>1. \A f \in Stripped(S, acks) : \E e \in S : f = F(e)
  BY DEF Stripped
<1>2. \A e : F(e).exact = e.exact
  BY DEF Owed
<1> HIDE DEF F
<1>3. \A f \in A : \E e \in B : f = F(e)
  BY <1>1, <1>2 DEF StartedOf, IsStarted
<1>4. g \in [A -> B] /\ (\A f \in A : f = F(g[f]))
  BY <1>3
<1> HIDE DEF g
<1>5. g \in Injection(A, B)
  BY <1>4, Fun_IsInj
<1>6. IsFiniteSet(B) /\ Cardinality(B) <= ExactCap
  BY DEF Fits
<1> HIDE DEF A, B
<1>7. IsFiniteSet(A) /\ Cardinality(A) <= Cardinality(B)
  BY <1>5, <1>6, FS_Injection
<1>8. Cardinality(A) \in Nat /\ Cardinality(B) \in Nat /\ ExactCap \in Nat
  BY <1>6, <1>7, FS_CardinalityType, CapsAssumption
<1>9. Cardinality(A) <= ExactCap
  BY <1>6, <1>7, <1>8
<1> QED BY <1>7, <1>9 DEF Fits, A

\* A confirmation finds the marker started: applying it starts nothing.
LEMMA CompactedFits ==
  ASSUME Types, OneLinePerListen, NEW a \in ActorTypes, NEW old, Fits(file.lines),
         \A i \in Listens : Seen(a, i) => NonePending(file.lines, i)
  PROVE  Fits(Compacted(a, old))
<1> DEFINE C == Compacted(a, old)
<1>1. file.lines \in SUBSET Entry /\ Unique(file.lines)
  BY DEF Types, Unique, OneLinePerListen
<1>2. C \in SUBSET Entry /\ Unique(C)
  BY CompactedIs, CompactedUnique DEF Unique
<1>3. Ids(StartedOf(C)) \subseteq Ids(StartedOf(file.lines))
  <2> SUFFICES ASSUME NEW f \in StartedOf(C) PROVE f.id \in Ids(StartedOf(file.lines))
    BY DEF Ids
  <2>1. PICK e \in file.lines : f = Aged(Advanced(a, e), old)
    BY CompactedIs DEF StartedOf
  <2>2. f.id = e.id /\ f.exact = Advanced(a, e).exact /\ IsStarted(f)
    BY <2>1, CompactedIs DEF StartedOf
  <2>3. IsStarted(e)
    <3>1. CASE f.exact = e.exact
      BY <2>2, <3>1 DEF IsStarted
    <3>2. CASE f.exact # e.exact
      <4>1. e.exact # "none" /\ e.id \in Confirmed(a, "bridge")
        BY <2>2, <3>2, AdvancedIs DEF IsStarted, Advanced, Marked
      <4>2. <<e.id, "bridge">> \in a.confirms
        BY <4>1 DEF Confirmed
      <4>3. e.id \in Listens /\ e.exact \in Markers
        BY <1>1 DEF Entry
      <4>4. e.exact # "pending"
        BY <4>2, <4>3 DEF Seen, Stages, NonePending
      <4> QED BY <4>1, <4>3, <4>4 DEF Markers, IsStarted
    <3> QED BY <3>1, <3>2
  <2> QED BY <2>2, <2>3 DEF Ids, StartedOf
<1> HIDE DEF C
<1>4. /\ IsFiniteSet(Ids(StartedOf(C))) /\ IsFiniteSet(Ids(StartedOf(file.lines)))
      /\ Fits(C) <=> Cardinality(Ids(StartedOf(C))) <= ExactCap
      /\ Cardinality(Ids(StartedOf(file.lines))) <= ExactCap
  BY <1>1, <1>2, FitsById
<1>5. Cardinality(Ids(StartedOf(C))) <= Cardinality(Ids(StartedOf(file.lines)))
  BY <1>3, <1>4, FS_Subset
<1>6. Cardinality(Ids(StartedOf(C))) \in Nat /\ Cardinality(Ids(StartedOf(file.lines))) \in Nat
      /\ ExactCap \in Nat
  BY <1>4, FS_CardinalityType, CapsAssumption
<1>7. Cardinality(Ids(StartedOf(C))) <= ExactCap
  BY <1>4, <1>5, <1>6
<1> QED BY <1>4, <1>7 DEF C

\* The step of one process keeps the fit when what it writes and what it goes
\* on to send fit.
LEMMA FittingStep ==
  ASSUME Base, Fitting, NEW p \in Processes, NEW b, actors'[p] = b,
         \A q \in Processes \ {p} : actors'[q] = actors[q],
         Fits(file'.lines), b.at = "send" => Fits(b.entries),
         \A e \in b.pend : ~IsStarted(e)
  PROVE  Fitting'
BY DEF Fitting

LEMMA QuietFits ==
  ASSUME Base, Fitting, NEW p \in Processes, NEW b, Become(p, b), Quiet(p),
         \A e \in actors'[p].pend : ~IsStarted(e)
  PROVE  Fitting'
<1>1. \A q \in Processes \ {p} : actors'[q] = actors[q]
  BY DEF Become, Base, Types
<1>2. /\ file' = file
      /\ actors'[p].at = "send" => actors[p].at = "send" /\ actors'[p].entries = actors[p].entries
  BY DEF Quiet
<1> QED BY <1>1, <1>2 DEF Fitting

LEMMA FittingNext == Base /\ Following /\ Fitting /\ [Next]_vars => Fitting'
<1> SUFFICES ASSUME Base, Following, Fitting, [Next]_vars PROVE Fitting'
  OBVIOUS
<1>1. CASE UNCHANGED vars
  BY <1>1 DEF vars, Fitting
<1>2. CASE Next
  <2>1. PICK p \in Processes :
           \/ \E services \in SUBSET Services, exact \in BOOLEAN : Listen(p, services, exact)
           \/ AppendBusy(p)
           \/ DropOverflow(p)
           \/ \E e \in actors[p].pend : FileEntry(p, e)
           \/ RetryCompaction(p)
           \/ SettleBusy(p)
           \/ SettleUnreadable(p)
           \/ \E old \in Horizons : SettleAuditFails(p, old)
           \/ \E old \in Horizons : Settle(p, old)
           \/ \E n \in DOMAIN actors[p].lanes : ReplyLost(p, n)
           \/ \E n \in DOMAIN actors[p].lanes : Deliver(p, n)
           \/ Finish(p)
           \/ Cancel(p)
           \/ \E i \in Listens, stage \in Stages : Confirm(p, i, stage)
           \/ Crash(p)
    BY <1>2, Steps
  <2> DEFINE a == actors[p]
  <2>a. /\ a \in ActorTypes /\ file.lines \in SUBSET Entry
        /\ a.pend \in SUBSET Entry /\ a.entries \in SUBSET Entry
        /\ Fits(file.lines) /\ (a.at = "send" => Fits(a.entries))
        /\ \A e \in a.pend : ~IsStarted(e)
    BY ActorIs DEF Base, Types, ActorTypes, Fitting
  <2>b. ASSUME NEW b, Become(p, b)
        PROVE  actors'[p] = b /\ \A q \in Processes \ {p} : actors'[q] = actors[q]
    BY <2>b DEF Become, Base, Types
  <2>2. ASSUME NEW services \in SUBSET Services, NEW exact \in BOOLEAN, Listen(p, services, exact)
        PROVE  Fitting'
    <3> DEFINE d == [id |-> heard + 1, pending |-> services,
                     exact |-> IF exact THEN "pending" ELSE "none"]
               b == [a EXCEPT !.at = "listen", !.pend = @ \cup {d}]
    <3>1. Become(p, b) /\ Quiet(p)
      BY <2>2, ListenQuiet DEF Listen
    <3>2. ~IsStarted(d)
      BY DEF IsStarted
    <3> HIDE DEF d
    <3>3. b.pend = a.pend \cup {d}
      BY <2>a DEF ActorTypes
    <3> HIDE DEF b
    <3>4. \A e \in actors'[p].pend : ~IsStarted(e)
      BY <2>a, <2>b, <3>1, <3>2, <3>3
    <3> QED BY <3>1, <3>4, QuietFits
  <2>3. ASSUME AppendBusy(p) \/ SettleBusy(p) \/ SettleUnreadable(p)
               \/ \E old \in Horizons : SettleAuditFails(p, old)
        PROVE  Fitting'
    <3>1. GiveUp(p) /\ file' = file /\ past' = past /\ sent' = sent /\ audit \subseteq audit'
      BY <2>3 DEF AppendBusy, SettleBusy, SettleUnreadable, SettleAuditFails, disk, world
    <3>2. Quiet(p)
      BY <3>1, GiveUpStill DEF Still
    <3>3. actors'[p].pend = a.pend
      BY <2>a, <2>b, <3>1 DEF GiveUp, ActorTypes
    <3> QED BY <2>a, <3>1, <3>2, <3>3, QuietFits DEF GiveUp
  <2>4. ASSUME DropOverflow(p) PROVE Fitting'
    <3>1. PICK b \in ActorTypes :
            /\ Become(p, b) /\ b.at # "send" /\ b.acks = {} /\ b.entries = a.entries
            /\ b.pend \in {a.pend, Capped(a.pend)}
      BY <2>4, DropOverflowIs
    <3>2. \A e \in Capped(a.pend) : ~IsStarted(e)
      BY <2>a, CappedIs DEF IsStarted
    <3>3. Quiet(p)
      BY <2>4, DropOverflowStill DEF Still
    <3> QED BY <2>a, <2>b, <3>1, <3>2, <3>3, QuietFits
  <2>5. ASSUME NEW d \in a.pend, FileEntry(p, d) PROVE Fitting'
    <3>1. PICK way :
            /\ file' = [lines |-> IF way \in {"ok", "after"} THEN file.lines \cup {d} ELSE file.lines,
                        torn |-> file.torn \/ way = "torn"]
            /\ lock' = IF way = "ok" THEN Free ELSE <<p, "append">>
            /\ past' = IF way = "ok" THEN [past EXCEPT !.filed = @ \cup Obligations(d)] ELSE past
            /\ \E b \in ActorTypes :
                 /\ Become(p, b) /\ b.at # "send" /\ b.acks = {} /\ b.entries = a.entries
                 /\ b.pend = IF way = "ok" THEN a.pend \ {d} ELSE a.pend
      BY <2>5, FileEntryIs
    <3>2. PICK b \in ActorTypes :
            /\ Become(p, b) /\ b.at # "send"
            /\ b.pend = IF way = "ok" THEN a.pend \ {d} ELSE a.pend
      BY <3>1
    <3>3. StartedOf(file'.lines) = StartedOf(file.lines)
      BY <2>a, <3>1 DEF StartedOf
    <3>4. Fits(file'.lines)
      BY <2>a, <3>3 DEF Fits
    <3> QED BY <2>a, <2>b, <3>2, <3>4, FittingStep
  <2>6. ASSUME RetryCompaction(p) PROVE Fitting'
    <3>1. CASE GiveUp(p) /\ UNCHANGED <<file, lock>>
      <4>1. audit' = audit /\ sent' = sent /\ past' = past
        BY <2>6, RetryCompactionIs
      <4>2. Quiet(p)
        BY <3>1, <4>1, GiveUpStill DEF Still
      <4>3. actors'[p].pend = a.pend
        BY <2>a, <2>b, <3>1 DEF GiveUp, ActorTypes
      <4> QED BY <2>a, <3>1, <4>2, <4>3, QuietFits DEF GiveUp
    <3>2. ASSUME NEW way, Replace(way, Stripped(file.lines, a.acks)),
                 NEW b \in ActorTypes, Become(p, b), b.at # "send", b.pend = a.pend
          PROVE  Fitting'
      <4>1. file'.lines = file.lines \/ file'.lines = Stripped(file.lines, a.acks)
        BY <2>a, <3>2, StrippedIs, ReplaceIs DEF Base
      <4>2. Fits(file'.lines)
        BY <2>a, <4>1, StrippedFits
      <4> QED BY <2>a, <2>b, <3>2, <4>2, FittingStep
    <3> QED BY <2>6, <3>1, <3>2, RetryCompactionIs
  <2>7. ASSUME NEW old \in Horizons, Settle(p, old) PROVE Fitting'
    <3> DEFINE loaded == Compacted(a, old)
               entries == Started(loaded)
    <3>1. OneLinePerListen
      BY <2>7, SettleIs DEF Readable
    <3>2. \A i \in Listens : Seen(a, i) => NonePending(file.lines, i)
      BY DEF Following, SeenStarted
    <3>3. Fits(loaded)
      BY <2>a, <3>1, <3>2, CompactedFits DEF Base
    <3>4. loaded \in SUBSET Entry /\ Unique(loaded)
      BY <2>a, <3>1, CompactedIs, CompactedUnique DEF Base, Unique
    <3> HIDE DEF loaded
    <3>5. Fits(entries)
      BY <3>3, <3>4, StartedFits
    <3> HIDE DEF entries
    <3>6. /\ file' = file \/ file'.lines = entries
          /\ actors'[p].at = "send" => actors'[p].entries = entries
          /\ actors'[p].pend = a.pend
      BY <2>7, SettleTells DEF entries, loaded, Base
    <3>7. \E b : Become(p, b)
      BY <2>7 DEF Settle, GiveUp
    <3>8. \A q \in Processes \ {p} : actors'[q] = actors[q]
      BY <2>b, <3>7
    <3> QED BY <2>a, <3>5, <3>6, <3>8, FittingStep
  <2>8. ASSUME NEW n \in DOMAIN a.lanes, ReplyLost(p, n) PROVE Fitting'
    <3>1. Quiet(p) /\ actors'[p].pend = a.pend
      BY <2>8, ReplyLostQuiet
    <3>2. \E b : Become(p, b)
      BY <2>8, ReplyLostIs
    <3> QED BY <2>a, <3>1, <3>2, QuietFits
  <2>9. ASSUME NEW n \in DOMAIN a.lanes, Deliver(p, n) PROVE Fitting'
    <3>1. PICK s \in Services, I \in SUBSET Listens, way \in RewriteWays :
            LET rest == Stripped(a.entries, I \X {s}) IN
            /\ I \subseteq Ids(a.entries) /\ \A i \in I : Owing(a.entries, i, s)
            /\ \/ Serves(s, I, {"taken", "unsure"}) /\ past' = past
               \/ past' = [past EXCEPT !.filed = @ \ (I \X {s})] /\ sent' = sent
            /\ Replace(way, rest)
            /\ \E b \in ActorTypes :
                 /\ Become(p, b) /\ b.pend = a.pend
                 /\ IF way = "ok" THEN b.at = "send" /\ b.entries = rest /\ b.acks = {}
                                  ELSE b.at = "idle" /\ b.entries = {} /\ b.acks = I \X {s}
      BY <2>9, DeliverIs
    <3> DEFINE acks == I \X {s}
               rest == Stripped(a.entries, acks)
    <3>2. PICK b \in ActorTypes :
            /\ Become(p, b) /\ b.pend = a.pend
            /\ IF way = "ok" THEN b.at = "send" /\ b.entries = rest ELSE b.at = "idle"
      BY <3>1
    <3>3. file'.lines = file.lines \/ file'.lines = rest
      BY <2>a, <3>1, StrippedIs, ReplaceIs DEF Base
    <3>4. a.at = "send"
      BY <2>9, DeliverIs
    <3>5. Fits(rest)
      BY <2>a, <3>4, StrippedFits
    <3> HIDE DEF rest
    <3>6. Fits(file'.lines) /\ (b.at = "send" => Fits(b.entries))
      BY <2>a, <3>2, <3>3, <3>5
    <3> QED BY <2>a, <2>b, <3>2, <3>6, FittingStep
  <2>10. ASSUME Finish(p) PROVE Fitting'
    <3>1. PICK way : Replace(way, a.entries)
      BY <2>10, FinishIs
    <3>2. PICK b \in ActorTypes : Become(p, b) /\ b.at = "idle" /\ b.pend = a.pend
      BY <2>10, FinishIs
    <3>3. a.at = "send" /\ (file'.lines = file.lines \/ file'.lines = a.entries)
      BY <2>a, <2>10, <3>1, FinishIs, ReplaceIs DEF Base
    <3> QED BY <2>a, <2>b, <3>2, <3>3, FittingStep
  <2>11. ASSUME Cancel(p) PROVE Fitting'
    <3>1. PICK b \in ActorTypes : Become(p, b) /\ b.at = "idle" /\ b.pend = a.pend
      BY <2>11, CancelIs
    <3>2. Quiet(p)
      BY <2>11, CancelStill DEF Still
    <3> QED BY <2>a, <2>b, <3>1, <3>2, QuietFits
  <2>12. ASSUME NEW i \in Listens, NEW stage \in Stages, Confirm(p, i, stage) PROVE Fitting'
    <3>1. PICK b \in ActorTypes : Become(p, b) /\ b.at = a.at /\ b.pend = a.pend
      BY <2>12, ConfirmIs
    <3>2. Quiet(p)
      BY <2>12, ConfirmStill DEF Still
    <3> QED BY <2>a, <2>b, <3>1, <3>2, QuietFits
  <2>13. ASSUME Crash(p) PROVE Fitting'
    <3>1. Quiet(p) /\ actors'[p].pend = {}
      BY <2>13, CrashIs
    <3> QED BY <2>13, <3>1, QuietFits DEF Crash
  <2> QED BY <2>1, <2>2, <2>3, <2>4, <2>5, <2>6, <2>7, <2>8, <2>9, <2>10, <2>11, <2>12,
             <2>13, Zenon
<1> QED BY <1>1, <1>2

\* Markers that no cap may evict never outgrow the cap, whatever order the
\* bridge confirms in and however often owners restart: no load refuses the
\* file for them (queue.rs:545-563).
THEOREM ProtectedAlwaysFit == Spec => []ProtectedFit
<1>1. Init => Fitting
  <2> SUFFICES ASSUME Init PROVE Fitting
    OBVIOUS
  <2>1. StartedOf(file.lines) = {}
    BY DEF Init, StartedOf
  <2>2. \A p \in Processes : actors[p].at = "idle" /\ actors[p].pend = {}
    BY DEF Init, Idle
  <2> QED BY <2>1, <2>2, FS_EmptySet, CapsAssumption DEF Fitting, Fits
<1>2. Fitting => ProtectedFit
  BY DEF Fitting, Fits, StartedOf, ProtectedFit
<1> QED BY <1>1, <1>2, FollowingInit, BaseAlways, FollowingNext, FittingNext, PTL DEF Spec
=============================================================================
