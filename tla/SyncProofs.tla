------------------------------ MODULE SyncProofs ------------------------------
(***************************************************************************)
(* A sync writes what its caller confirmed and nothing else, empties no      *)
(* category, loses no alias, leaves alone what another tool has read, and    *)
(* says truthfully what it did, for any items, values and categories.  What  *)
(* it rests on is that whatever nobody else has changed is as the sync read  *)
(* it or as one of its steps left it.                                       *)
(***************************************************************************)
EXTENDS Sync, FiniteSetTheorems, SequenceTheorems, TLAPS

(* An array lists none of its items twice. *)
Distinct(s) == \A m, n \in 1..Len(s) : s[m] = s[n] => m = n
Listing(c)  == {s \in Seq(Of(c)) : Distinct(s)}

TableItems == {i \in Items : i.cat \in Tables}
Shapes == [table : [TableItems -> Values \cup {Missing}], hosts : Listing("local_dns"),
           cnames : {s \in Listing("cname") : Takes("cname", s)}]

Asks    == [mode : Modes, cats : SUBSET Categories, prune : BOOLEAN]
Reports == [done : SUBSET StepSet, failed : SUBSET StepSet, restarted : BOOLEAN, error : BOOLEAN]
Tools   == [pc : {"idle", "read", "write"}, on : SUBSET Items, read : Seq(Shapes)]

Typed ==
  /\ hole \in [Sides -> Shapes] /\ pc \in Places /\ ask \in Asks
  /\ toRead \in SUBSET (Categories \X Sides) /\ seen \in [Sides -> [Items -> AnyValue]]
  /\ shown \in [prune : BOOLEAN, steps : SUBSET StepSet]
  /\ todo \subseteq StepSet /\ report \in Reports /\ current \in Listing("cname")
  /\ ended \in BOOLEAN /\ fresh \in BOOLEAN /\ due \in BOOLEAN /\ restarted \in BOOLEAN
  /\ tool \in Tools /\ dirty \subseteq Items /\ stale \subseteq Items /\ edits \in 0..MaxEdits

(* What was read of a Pi-hole is what one may hold. *)
Plausible(f) ==
  /\ \A i \in Items : f[i] \in IF i.cat \in Arrays THEN {Missing, Here} ELSE Values \cup {Missing}
  /\ \A i, j \in Of("cname") :
       f[i] # Missing /\ f[j] # Missing /\ i # j => i.name.alias # j.name.alias

SeenWell == \A side \in Sides : Plausible(seen[side])

Early == {"idle", "read", "decide"}

(* What is left to do, done and failed is the plan, which the caller saw, and *)
(* which wipes nothing; the CNAME records are all left, or none is.           *)
PlanKept ==
  /\ pc # "read" => toRead = {}
  /\ pc \in Early => todo = {} /\ report = NoReport
  /\ pc \notin Early =>
       /\ Plan = shown.steps
       /\ ask.prune => PruneWipes = {}
       /\ todo \cup report.done \cup report.failed = Plan
       /\ CnameSteps \in {{}, {s \in Plan : s.item.cat = "cname"}}
  /\ pc \in {"cname_read", "cname_write"} => CnameSteps # {}
  /\ pc = "done" => todo = {}

(* What nobody else has changed is as it was read, or as a step left it. *)
LeftAlone(i) ==
  /\ (\A s \in report.done \cup report.failed : s.item # i) =>
       Held(Target)[i] = seen["target"][i]
  /\ \A s \in report.done : s.item = i => Held(Target)[i] = s.to

AsRead ==
  pc # "idle" =>
    \A i \in Items \ dirty :
      i.cat \in ask.cats /\ <<i.cat, "target">> \notin toRead => LeftAlone(i)

(* The tool and the sync never hold one lock. *)
Locked ==
  /\ tool.pc # "idle" => tool.on \in Locks
  /\ tool.pc = "write" => Len(tool.read) = 1
  /\ SyncHolds /\ tool.pc # "idle" => tool.on # Of("cname")
  /\ pc = "cname_write" => stale \cap Of("cname") \subseteq dirty

(* Records that wait for a restart are the sync's concern until it has said so. *)
Waiting ==
  /\ pc \in {"wait", "uncertain"} /\ restarted => fresh
  /\ ~fresh => pc \in {"wait", "uncertain", "restart"} \/ report.error
  /\ report.restarted => fresh /\ CnameSteps = {} /\ ~SyncHolds
  /\ pc \in {"wait", "uncertain", "restart"} => CnameSteps = {}

IInv == Typed /\ SeenWell /\ PlanKept /\ AsRead /\ Locked /\ ReadsHold /\ Waiting

----------------------------------------------------------------------------
(* Sequences *)

LEMMA CountTo ==
  ASSUME NEW n \in Nat
  PROVE  IsFiniteSet(1..n) /\ Cardinality(1..n) = n
<1>1. IsFiniteSet(1..n) /\ Cardinality(1..n) = IF 1 > n THEN 0 ELSE n - 1 + 1
  BY FS_Interval
<1> QED
  BY <1>1

LEMMA ElementsOf ==
  ASSUME NEW S, NEW s \in Seq(S)
  PROVE  /\ Elements(s) \subseteq S /\ \A n \in 1..Len(s) : s[n] \in Elements(s)
         /\ \A e \in Elements(s) : \E n \in 1..Len(s) : s[n] = e
  BY DEF Elements

(* What is left of a sequence, in its order: the n-th that is left is there.  *)
LEMMA WithoutIs ==
  ASSUME NEW S, NEW s \in Seq(S), NEW gone
  PROVE  /\ Without(s, gone) \in Seq(S) /\ Elements(Without(s, gone)) = Elements(s) \ gone
         /\ Distinct(s) => Distinct(Without(s, gone))
<1> DEFINE left == {n \in 1..Len(s) : s[n] \notin gone}
           upto(n) == {k \in left : k <= n}
           rank == [n \in left |-> Cardinality(upto(n))]
           all == Cardinality(left)
           at(m) == CHOOSE n \in left : Cardinality(upto(n)) = m
           w == Without(s, gone)
<1>1. Len(s) \in Nat /\ left \subseteq 1..Len(s) /\ left \subseteq Nat
  OBVIOUS
<1>2. IsFiniteSet(left) /\ all \in Nat
  <2>1. IsFiniteSet(1..Len(s))
    BY <1>1, FS_Interval
  <2> QED
    BY <1>1, <2>1, FS_Subset, FS_CardinalityType
<1>3. \A n \in left : upto(n) \in SUBSET left /\ n \in upto(n)
  BY <1>1
<1>4. ASSUME NEW n \in left
      PROVE  IsFiniteSet(upto(n)) /\ rank[n] = Cardinality(upto(n)) /\ rank[n] \in 1..all
  <2>1. upto(n) \in SUBSET left /\ upto(n) # {}
    BY <1>3
  <2> HIDE DEF upto, left
  <2>2. IsFiniteSet(upto(n)) /\ Cardinality(upto(n)) <= all
    BY <1>2, <2>1, FS_Subset
  <2>3. Cardinality(upto(n)) \in Nat /\ Cardinality(upto(n)) # 0
    BY <2>1, <2>2, FS_CardinalityType, FS_EmptySet
  <2> QED
    BY <1>2, <2>2, <2>3
<1>5. ASSUME NEW m \in left, NEW n \in left, m < n PROVE rank[m] < rank[n]
  <2>1. upto(m) \in SUBSET upto(n) /\ n \in upto(n) /\ n \notin upto(m)
    BY <1>1, <1>5
  <2> HIDE DEF upto, left
  <2>2. Cardinality(upto(m)) <= Cardinality(upto(n)) /\ Cardinality(upto(m)) # Cardinality(upto(n))
    <3>1. IsFiniteSet(upto(n)) /\ upto(m) # upto(n)
      BY <1>4, <2>1
    <3> QED
      BY <2>1, <3>1, FS_Subset
  <2> QED
    BY <1>2, <1>4, <2>2
<1> HIDE DEF left, upto
<1>6. \A m, n \in left : rank[m] = rank[n] => m = n
  <2> SUFFICES ASSUME NEW m \in left, NEW n \in left, m # n PROVE rank[m] # rank[n]
    OBVIOUS
  <2>1. m < n \/ n < m
    BY <1>1
  <2>2. rank[m] \in Int /\ rank[n] \in Int
    BY <1>2, <1>4
  <2>3. CASE m < n
    <3>1. rank[m] < rank[n]
      BY <1>5, <2>3
    <3> HIDE DEF rank
    <3> QED
      BY <2>2, <3>1
  <2>4. CASE n < m
    <3>1. rank[n] < rank[m]
      BY <1>5, <2>4
    <3> HIDE DEF rank
    <3> QED
      BY <2>2, <3>1
  <2> QED
    BY <2>1, <2>3, <2>4
<1>7. \A m \in 1..all : \E n \in left : rank[n] = m
  <2>1. rank \in Injection(left, 1..all)
    <3>1. rank \in [left -> 1..all]
      BY <1>4
    <3> HIDE DEF rank
    <3> QED
      BY <1>6, <3>1 DEF Injection, IsInjective
  <2>2. IsFiniteSet(1..all) /\ Cardinality(1..all) = all
    <3> HIDE DEF all
    <3> QED
      BY <1>2, CountTo
  <2> HIDE DEF rank
  <2>3. rank \in Surjection(left, 1..all)
    BY <2>1, <2>2, FS_Injection
  <2> QED
    BY <2>3 DEF Surjection
<1>8. \A m \in 1..all : at(m) \in left /\ rank[at(m)] = m
  BY <1>7
<1>9. \A n \in left : rank[n] \in 1..all /\ at(rank[n]) = n
  <2>1. ASSUME NEW n \in left PROVE rank[n] \in 1..all /\ at(rank[n]) \in left /\ rank[at(rank[n])] = rank[n]
    BY <1>4, <1>8
  <2> HIDE DEF rank, at
  <2> QED
    BY <1>6, <2>1
<1>10. w = [m \in 1..all |-> s[at(m)]]
  BY DEF Without, left, upto
<1> HIDE DEF rank, at, all, w
<1>11. \A m \in 1..all : s[at(m)] \in S /\ s[at(m)] \notin gone /\ at(m) \in 1..Len(s)
  BY <1>8 DEF left
<1>12. w \in Seq(S) /\ Len(w) = all
  BY <1>2, <1>10, <1>11
<1>13. Elements(w) = Elements(s) \ gone
  <2>1. ASSUME NEW e \in Elements(w) PROVE e \in Elements(s) \ gone
    <3>1. PICK m \in 1..all : e = s[at(m)]
      BY <1>10, <1>12 DEF Elements
    <3> QED
      BY <1>11, <3>1 DEF Elements
  <2>2. ASSUME NEW e \in Elements(s) \ gone PROVE e \in Elements(w)
    <3>1. PICK n \in left : e = s[n]
      BY DEF Elements, left
    <3>2. rank[n] \in 1..all /\ w[rank[n]] = e
      BY <1>9, <1>10, <3>1
    <3> QED
      BY <1>12, <3>2 DEF Elements
  <2> QED
    BY <2>1, <2>2
<1>14. ASSUME Distinct(s) PROVE Distinct(w)
  <2> SUFFICES ASSUME NEW m \in 1..all, NEW n \in 1..all, w[m] = w[n] PROVE m = n
    BY <1>12 DEF Distinct
  <2>1. s[at(m)] = s[at(n)]
    BY <1>10
  <2>2. at(m) = at(n)
    BY <1>11, <1>14, <2>1 DEF Distinct
  <2> QED
    BY <1>8, <2>2
<1> QED
  BY <1>12, <1>13, <1>14 DEF w

LEMMA ConcatIs ==
  ASSUME NEW S, NEW s \in Seq(S), NEW t \in Seq(S)
  PROVE  /\ s \o t \in Seq(S) /\ Elements(s \o t) = Elements(s) \cup Elements(t)
         /\ Distinct(s) /\ Distinct(t) /\ Elements(s) \cap Elements(t) = {} => Distinct(s \o t)
<1>1. /\ s \o t \in Seq(S) /\ Len(s \o t) = Len(s) + Len(t) /\ Len(s) \in Nat /\ Len(t) \in Nat
      /\ \A n \in 1..(Len(s) + Len(t)) : (s \o t)[n] = IF n <= Len(s) THEN s[n] ELSE t[n - Len(s)]
  BY ConcatProperties
<1> DEFINE c == s \o t
<1> HIDE DEF c
<1>2. /\ Len(c) = Len(s) + Len(t) /\ Len(s) \in Nat /\ Len(t) \in Nat
      /\ \A n \in 1..Len(c) : n <= Len(s) => n \in 1..Len(s) /\ c[n] = s[n]
      /\ \A n \in 1..Len(c) :
           n > Len(s) => n - Len(s) \in 1..Len(t) /\ c[n] = t[n - Len(s)]
      /\ \A n \in 1..Len(s) : n \in 1..Len(c) /\ c[n] = s[n]
      /\ \A n \in 1..Len(t) : n + Len(s) \in 1..Len(c) /\ c[n + Len(s)] = t[n]
  BY <1>1 DEF c
<1>3. Elements(c) = Elements(s) \cup Elements(t)
  <2>1. ASSUME NEW n \in 1..Len(c) PROVE c[n] \in Elements(s) \cup Elements(t)
    <3>1. CASE n <= Len(s)
      BY <1>2, <3>1 DEF Elements
    <3>2. CASE n > Len(s)
      BY <1>2, <3>2 DEF Elements
    <3> QED
      BY <1>2, <3>1, <3>2
  <2>2. ASSUME NEW n \in 1..Len(s) PROVE s[n] \in Elements(c)
    BY <1>2 DEF Elements
  <2>3. ASSUME NEW n \in 1..Len(t) PROVE t[n] \in Elements(c)
    BY <1>2 DEF Elements
  <2> QED
    BY <2>1, <2>2, <2>3 DEF Elements
<1>4. ASSUME Distinct(s), Distinct(t), Elements(s) \cap Elements(t) = {} PROVE Distinct(c)
  <2> SUFFICES ASSUME NEW m \in 1..Len(c), NEW n \in 1..Len(c), c[m] = c[n] PROVE m = n
    BY DEF Distinct
  <2>1. \A k \in 1..Len(s), l \in 1..Len(t) : s[k] # t[l]
    BY <1>4 DEF Elements
  <2>2. CASE m <= Len(s) /\ n <= Len(s)
    BY <1>2, <1>4, <2>2 DEF Distinct
  <2>3. CASE m > Len(s) /\ n > Len(s)
    <3>1. /\ m - Len(s) \in 1..Len(t) /\ n - Len(s) \in 1..Len(t)
          /\ t[m - Len(s)] = t[n - Len(s)]
      BY <1>2, <2>3
    <3>2. m - Len(s) = n - Len(s)
      BY <1>4, <3>1 DEF Distinct
    <3>3. m \in Int /\ n \in Int /\ Len(s) \in Int
      BY <1>2
    <3> QED
      BY <3>2, <3>3
  <2>4. ASSUME m <= Len(s), n > Len(s) PROVE FALSE
    <3>1. m \in 1..Len(s) /\ c[m] = s[m]
      BY <1>2, <2>4
    <3>2. n - Len(s) \in 1..Len(t) /\ c[n] = t[n - Len(s)]
      BY <1>2, <2>4
    <3> QED
      BY <2>1, <3>1, <3>2
  <2>5. ASSUME n <= Len(s), m > Len(s) PROVE FALSE
    <3>1. n \in 1..Len(s) /\ c[n] = s[n]
      BY <1>2, <2>5
    <3>2. m - Len(s) \in 1..Len(t) /\ c[m] = t[m - Len(s)]
      BY <1>2, <2>5
    <3> QED
      BY <2>1, <3>1, <3>2
  <2> QED
    BY <1>2, <2>2, <2>3, <2>4, <2>5
<1> QED
  BY <1>1, <1>3, <1>4 DEF c

LEMMA AppendIs ==
  ASSUME NEW S, NEW s \in Seq(S), NEW i \in S
  PROVE  /\ AppendUnique(s, i) \in Seq(S) /\ Elements(AppendUnique(s, i)) = Elements(s) \cup {i}
         /\ Distinct(s) => Distinct(AppendUnique(s, i))
<1>1. CASE i \in Elements(s)
  BY <1>1 DEF AppendUnique
<1>2. CASE i \notin Elements(s)
  <2>1. AppendUnique(s, i) = Append(s, i)
    BY <1>2 DEF AppendUnique
  <2>2. /\ Append(s, i) \in Seq(S) /\ Len(Append(s, i)) = Len(s) + 1 /\ Len(s) \in Nat
        /\ \A n \in 1..(Len(s) + 1) : Append(s, i)[n] = IF n = Len(s) + 1 THEN i ELSE s[n]
    BY AppendProperties
  <2>3. Elements(Append(s, i)) = Elements(s) \cup {i}
    BY <2>2 DEF Elements
  <2>4. ASSUME Distinct(s) PROVE Distinct(Append(s, i))
    <3>1. \A n \in 1..Len(s) : s[n] # i
      BY <1>2 DEF Elements
    <3> QED
      BY <2>2, <2>4, <3>1 DEF Distinct
  <2> QED
    BY <2>1, <2>2, <2>3, <2>4
<1> QED
  BY <1>1, <1>2

LEMMA ArrangementIs ==
  ASSUME NEW T, IsFiniteSet(T), NEW a \in Arrangements(T)
  PROVE  a \in Seq(T) /\ Elements(a) = T /\ Distinct(a)
<1> DEFINE n == Cardinality(T)
<1>1. n \in Nat /\ a \in [1..n -> T] /\ Elements(a) = T
  BY FS_CardinalityType DEF Arrangements
<1>2. a \in Seq(T) /\ Len(a) = n
  BY <1>1
<1>3. IsFiniteSet(1..n) /\ Cardinality(1..n) = n
  <2> HIDE DEF n
  <2> QED
    BY <1>1, CountTo
<1> HIDE DEF n
<1>4. a \in Surjection(1..n, T)
  BY <1>1, <1>2 DEF Surjection, Elements
<1>5. a \in Injection(1..n, T)
  BY <1>3, <1>4, FS_SurjSameCardinalityImpliesInj DEF n
<1> QED
  BY <1>1, <1>2, <1>5 DEF Injection, IsInjective, Distinct

LEMMA ListingIs ==
  ASSUME NEW T, NEW s \in Seq(T), Distinct(s)
  PROVE  s \in Arrangements(Elements(s))
<1> DEFINE n == Len(s)
<1>1. n \in Nat /\ s \in [1..n -> Elements(s)]
  BY DEF Elements
<1> HIDE DEF n
<1>2. s \in Injection(1..n, Elements(s)) /\ s \in Surjection(1..n, Elements(s))
  BY <1>1 DEF Injection, IsInjective, Surjection, Distinct, Elements, n
<1>3. ExistsBijection(1..n, Elements(s))
  BY <1>2 DEF ExistsBijection, Bijection
<1>4. Cardinality(Elements(s)) = n
  BY <1>1, <1>3, FS_CountingElements
<1> QED
  BY <1>1, <1>4 DEF Arrangements

----------------------------------------------------------------------------
(* What requests do to a Pi-hole *)

LEMMA CategoryIs ==
  ASSUME NEW i \in Items
  PROVE  /\ i.cat \in Categories /\ (i.cat \in Tables <=> i.cat \notin Arrays) /\ i \in Of(i.cat)
         /\ i.cat \in Arrays => i.cat = "local_dns" \/ i.cat = "cname"
  BY SyncAssumption DEF Categories, Tables, Arrays, Of

LEMMA LinesAre ==
  ASSUME NEW h \in Shapes, NEW c \in Arrays
  PROVE  /\ Lines(h, c) \in Listing(c) /\ Takes(c, Lines(h, c)) /\ Of(c) \subseteq Items
         /\ Elements(Lines(h, c)) \subseteq Of(c)
<1>1. h.hosts \in Listing("local_dns") /\ h.cnames \in Listing("cname") /\ Takes("cname", h.cnames)
  BY DEF Shapes
<1>2. c = "local_dns" \/ c = "cname"
  BY DEF Arrays
<1>3. Lines(h, c) \in Listing(c) /\ Takes(c, Lines(h, c))
  BY <1>1, <1>2 DEF Lines, Takes
<1>4. Lines(h, c) \in Seq(Of(c))
  BY <1>3 DEF Listing
<1> QED
  BY <1>3, <1>4, ElementsOf DEF Of

LEMMA HeldIs ==
  ASSUME NEW h \in Shapes, NEW i \in Items
  PROVE  /\ i.cat \in Tables => Held(h)[i] = h.table[i] /\ h.table[i] \in Values \cup {Missing}
         /\ i.cat \in Arrays => Held(h)[i] = IF i \in Elements(Lines(h, i.cat)) THEN Here ELSE Missing
         /\ Has(h, i) <=> Held(h)[i] # Missing
<1>1. h.table \in [TableItems -> Values \cup {Missing}]
  BY DEF Shapes
<1>2. Held(h)[i] = IF ~Has(h, i) THEN Missing ELSE IF i.cat \in Arrays THEN Here ELSE h.table[i]
  BY DEF Held, GetEntry
<1>3. CASE i.cat \in Arrays
  BY <1>2, <1>3, CategoryIs, SyncAssumption DEF Has, GetLine
<1>4. CASE i.cat \in Tables
  <2>1. i.cat \notin Arrays /\ i \in TableItems
    BY <1>4, CategoryIs DEF TableItems
  <2> QED
    BY <1>1, <1>2, <2>1 DEF Has, GetEntry
<1> QED
  BY <1>3, <1>4, CategoryIs

LEMMA HeldPlausible ==
  ASSUME NEW h \in Shapes
  PROVE  Plausible(Held(h)) /\ Held(h) \in [Items -> AnyValue]
<1>1. ASSUME NEW i \in Items
      PROVE  /\ Held(h)[i] \in IF i.cat \in Arrays THEN {Missing, Here} ELSE Values \cup {Missing}
             /\ Held(h)[i] \in AnyValue
  BY HeldIs, CategoryIs DEF AnyValue
<1>2. ASSUME NEW i \in Of("cname"), NEW j \in Of("cname"), i # j,
             Held(h)[i] # Missing, Held(h)[j] # Missing
      PROVE  i.name.alias # j.name.alias
  <2>1. i \in Items /\ j \in Items /\ i.cat = "cname" /\ j.cat = "cname" /\ "cname" \in Arrays
    BY DEF Of, Arrays
  <2>2. i \in Elements(Lines(h, "cname")) /\ j \in Elements(Lines(h, "cname"))
    BY <1>2, <2>1, HeldIs
  <2>3. Takes("cname", Lines(h, "cname"))
    BY <2>1, LinesAre
  <2> QED
    BY <1>2, <2>2, <2>3 DEF Takes
<1>3. Held(h) = [i \in Items |-> Held(h)[i]]
  BY DEF Held
<1> QED
  BY <1>1, <1>2, <1>3 DEF Plausible

LEMMA EntriesAre ==
  ASSUME NEW h \in Shapes, NEW S, NEW v \in Values \cup {Missing}
  PROVE  /\ WithEntries(h, S, v) \in Shapes
         /\ \A i \in Items : Held(WithEntries(h, S, v))[i] =
              IF i.cat \in Tables /\ i \in S THEN v ELSE Held(h)[i]
         /\ \A c \in Arrays : Lines(WithEntries(h, S, v), c) = Lines(h, c)
<1> DEFINE k == WithEntries(h, S, v)
           f == [i \in TableItems |-> IF i \in S THEN v ELSE h.table[i]]
<1>1. h.table \in [TableItems -> Values \cup {Missing}]
  BY DEF Shapes
<1>2. k = [h EXCEPT !.table = f] /\ f \in [TableItems -> Values \cup {Missing}]
  BY <1>1 DEF WithEntries
<1> HIDE DEF k, f
<1>3. k \in Shapes /\ k.table = f /\ k.hosts = h.hosts /\ k.cnames = h.cnames
  BY <1>2 DEF Shapes
<1>4. \A c \in Arrays : Lines(k, c) = Lines(h, c)
  BY <1>3 DEF Lines
<1>5. ASSUME NEW i \in Items
      PROVE  Held(k)[i] = IF i.cat \in Tables /\ i \in S THEN v ELSE Held(h)[i]
  <2>1. CASE i.cat \in Arrays
    BY <1>3, <1>4, <2>1, HeldIs, CategoryIs
  <2>2. CASE i.cat \in Tables
    <3>1. Held(k)[i] = f[i] /\ Held(h)[i] = h.table[i] /\ i \in TableItems
      BY <1>3, <2>2, HeldIs DEF TableItems
    <3> QED
      BY <2>2, <3>1 DEF f
  <2> QED
    BY <2>1, <2>2, CategoryIs
<1> QED
  BY <1>3, <1>4, <1>5 DEF k

LEMMA ArraysAre ==
  ASSUME NEW h \in Shapes, NEW c \in Arrays, NEW s \in Listing(c), Takes(c, s)
  PROVE  /\ WithLines(h, c, s) \in Shapes /\ Lines(WithLines(h, c, s), c) = s
         /\ \A i \in Items : Held(WithLines(h, c, s))[i] =
              IF i.cat = c THEN IF i \in Elements(s) THEN Here ELSE Missing ELSE Held(h)[i]
         /\ \A d \in Arrays \ {c} : Lines(WithLines(h, c, s), d) = Lines(h, d)
<1> DEFINE k == WithLines(h, c, s)
<1>1. c = "local_dns" \/ c = "cname"
  BY DEF Arrays
<1>2. /\ k \in Shapes /\ k.table = h.table /\ Lines(k, c) = s
      /\ \A d \in Arrays \ {c} : Lines(k, d) = Lines(h, d)
  <2>1. CASE c = "local_dns"
    <3>1. k = [h EXCEPT !.hosts = s]
      BY <2>1 DEF WithLines
    <3>2. k \in Shapes /\ k.table = h.table /\ k.hosts = s /\ k.cnames = h.cnames
      BY <2>1, <3>1 DEF Shapes
    <3> HIDE DEF k
    <3> QED
      BY <2>1, <3>2 DEF Lines, Arrays
  <2>2. CASE c = "cname"
    <3>1. k = [h EXCEPT !.cnames = s]
      BY <2>2 DEF WithLines
    <3>2. k \in Shapes /\ k.table = h.table /\ k.cnames = s /\ k.hosts = h.hosts
      BY <2>2, <3>1 DEF Shapes
    <3> HIDE DEF k
    <3> QED
      BY <2>2, <3>2 DEF Lines, Arrays
  <2> QED
    BY <1>1, <2>1, <2>2
<1> HIDE DEF k
<1>3. ASSUME NEW i \in Items
      PROVE  Held(k)[i] = IF i.cat = c THEN IF i \in Elements(s) THEN Here ELSE Missing ELSE Held(h)[i]
  <2>1. CASE i.cat = c
    BY <1>2, <2>1, HeldIs
  <2>2. CASE i.cat \in Tables
    BY <1>2, <2>2, HeldIs, CategoryIs
  <2>3. CASE i.cat \in Arrays \ {c}
    BY <1>2, <2>3, HeldIs
  <2> QED
    BY <2>1, <2>2, <2>3, CategoryIs
<1> QED
  BY <1>2, <1>3 DEF k

LEMMA ReplacedIs ==
  ASSUME NEW h \in Shapes, NEW c \in Arrays, NEW s \in Listing(c)
  PROVE  /\ Replaced(h, c, s).ok \in BOOLEAN /\ Replaced(h, c, s).hole \in Shapes
         /\ Replaced(h, c, s).ok =>
              Takes(c, s) /\ Replaced(h, c, s).hole = WithLines(h, c, s)
         /\ ~Replaced(h, c, s).ok => Replaced(h, c, s).hole = h
<1>1. CASE Takes(c, s)
  BY <1>1, ArraysAre DEF Replaced, Done
<1>2. CASE ~Takes(c, s)
  BY <1>2 DEF Replaced, Refused
<1> QED
  BY <1>1, <1>2

(* A request about i alone, which leaves it at v if it is done. *)
OnlyAt(r, h, i, v) ==
  /\ r.hole \in Shapes /\ r.ok \in BOOLEAN
  /\ \A j \in Items : j # i => Held(r.hole)[j] = Held(h)[j]
  /\ Held(r.hole)[i] \in {v, Held(h)[i]}
  /\ r.ok => Held(r.hole)[i] = v

LEMMA PutLineIs ==
  ASSUME NEW h \in Shapes, NEW i \in Items, i.cat \in Arrays
  PROVE  OnlyAt(PutLine(h, i), h, i, Here)
<1> DEFINE s == Lines(h, i.cat)
           t == AppendUnique(s, i)
<1>1. s \in Listing(i.cat) /\ s \in Seq(Of(i.cat)) /\ Distinct(s) /\ i \in Of(i.cat)
  BY LinesAre, CategoryIs DEF Listing
<1> HIDE DEF s
<1>2. t \in Listing(i.cat) /\ Elements(t) = Elements(s) \cup {i}
  BY <1>1, AppendIs DEF Listing
<1> HIDE DEF t
<1>3. PutLine(h, i) = Replaced(h, i.cat, t)
  BY DEF PutLine, s, t
<1>4. CASE PutLine(h, i).ok
  <2>1. Takes(i.cat, t) /\ PutLine(h, i).hole = WithLines(h, i.cat, t)
    BY <1>2, <1>3, <1>4, ReplacedIs
  <2>2. ASSUME NEW j \in Items
        PROVE  Held(PutLine(h, i).hole)[j] =
                 IF j.cat = i.cat THEN IF j \in Elements(t) THEN Here ELSE Missing ELSE Held(h)[j]
    BY <1>2, <2>1, ArraysAre
  <2>3. ASSUME NEW j \in Items, j # i PROVE Held(PutLine(h, i).hole)[j] = Held(h)[j]
    BY <1>2, <2>2, <2>3, HeldIs DEF s
  <2> QED
    BY <1>2, <1>3, <2>2, <2>3, ReplacedIs DEF OnlyAt
<1>5. CASE ~PutLine(h, i).ok
  BY <1>2, <1>3, <1>5, ReplacedIs DEF OnlyAt
<1> QED
  BY <1>4, <1>5

LEMMA DeleteLineIs ==
  ASSUME NEW h \in Shapes, NEW i \in Items, i.cat \in Arrays
  PROVE  OnlyAt(DeleteLine(h, i), h, i, Missing)
<1> DEFINE s == Lines(h, i.cat)
           t == RemoveValue(s, i)
<1>1. /\ s \in Listing(i.cat) /\ s \in Seq(Of(i.cat)) /\ Distinct(s) /\ Takes(i.cat, s)
      /\ i \in Of(i.cat)
  BY LinesAre, CategoryIs DEF Listing
<1> HIDE DEF s
<1>2. t \in Listing(i.cat) /\ Elements(t) = Elements(s) \ {i}
  BY <1>1, WithoutIs DEF Listing, RemoveValue
<1>3. Takes(i.cat, t)
  BY <1>1, <1>2 DEF Takes
<1> HIDE DEF t
<1>4. DeleteLine(h, i).ok = TRUE /\ DeleteLine(h, i).hole = WithLines(h, i.cat, t)
  BY DEF DeleteLine, Done, s, t
<1>5. ASSUME NEW j \in Items
      PROVE  Held(DeleteLine(h, i).hole)[j] =
               IF j.cat = i.cat THEN IF j \in Elements(t) THEN Here ELSE Missing ELSE Held(h)[j]
  BY <1>2, <1>3, <1>4, ArraysAre
<1>6. DeleteLine(h, i).hole \in Shapes
  BY <1>2, <1>3, <1>4, ArraysAre
<1>7. ASSUME NEW j \in Items, j # i PROVE Held(DeleteLine(h, i).hole)[j] = Held(h)[j]
  BY <1>2, <1>5, <1>7, HeldIs DEF s
<1> QED
  BY <1>2, <1>4, <1>5, <1>6, <1>7 DEF OnlyAt

LEMMA EntryRequests ==
  ASSUME NEW h \in Shapes, NEW i \in Items, i.cat \in Tables, NEW v \in Values
  PROVE  /\ OnlyAt(Put(h, i, v), h, i, v)
         /\ OnlyAt(Delete(h, i), h, i, Missing)
         /\ OnlyAt(BatchDelete(h, {i}), h, i, Missing)
         /\ OnlyAt(Post(h, i.cat, {i}, v), h, i, v)
<1>1. ASSUME NEW w \in Values \cup {Missing} PROVE OnlyAt(Done(WithEntries(h, {i}, w)), h, i, w)
  BY EntriesAre DEF OnlyAt, Done
<1>2. ASSUME NEW w PROVE Held(h)[i] \in {w, Held(h)[i]} /\ OnlyAt(Refused(h), h, i, w)
  BY DEF OnlyAt, Refused
<1>3. OnlyAt(Put(h, i, v), h, i, v) /\ OnlyAt(BatchDelete(h, {i}), h, i, Missing)
  BY <1>1 DEF Put, BatchDelete
<1>4. OnlyAt(Delete(h, i), h, i, Missing)
  BY <1>1, <1>2 DEF Delete
<1>5. OnlyAt(Post(h, i.cat, {i}, v), h, i, v)
  <2>1. CASE h.table[i] = Missing
    <3>1. {j \in {i} : h.table[j] = Missing} = {i}
      BY <2>1
    <3> QED
      BY <1>1, <3>1 DEF Post, PostRules, PostOthers
  <2>2. CASE h.table[i] # Missing
    <3>1. {j \in {i} : h.table[j] = Missing} = {}
      BY <2>2
    <3> QED
      BY <1>1, <1>2, <3>1 DEF Post, PostRules, PostOthers
  <2> QED
    BY <2>1, <2>2
<1> QED
  BY <1>3, <1>4, <1>5

LEMMA EditsAre ==
  ASSUME NEW h \in Shapes, NEW r \in Edits(h)
  PROVE  r.hole \in Shapes
<1>1. PICK i \in Items :
        r \in IF i.cat \in Arrays THEN {PutLine(h, i), DeleteLine(h, i)}
              ELSE {BatchDelete(h, {i})} \cup {Post(h, i.cat, {i}, v) : v \in Values}
                   \cup {Put(h, i, v) : v \in {w \in Values : Has(h, i)}}
                   \cup {Rename(h, i, j, h.table[i]) :
                           j \in {k \in Of("groups") : i.cat = "groups" /\ Has(h, i)}}
  BY DEF Edits
<1>2. CASE i.cat \in Arrays
  BY <1>1, <1>2, PutLineIs, DeleteLineIs DEF OnlyAt
<1>3. CASE i.cat \in Tables
  <2>1. i.cat \notin Arrays
    BY <1>3, CategoryIs
  <2>2. CASE r = BatchDelete(h, {i})
    BY <2>2, EntriesAre DEF BatchDelete, Done
  <2>3. ASSUME NEW v \in Values, r = Post(h, i.cat, {i}, v) \/ r = Put(h, i, v)
        PROVE  r.hole \in Shapes
    BY <1>3, <2>3, EntryRequests DEF OnlyAt
  <2>4. ASSUME NEW j \in Items, r = Rename(h, i, j, h.table[i]) PROVE r.hole \in Shapes
    <3>1. h.table[i] \in Values \cup {Missing}
      BY <1>3, HeldIs
    <3>2. WithEntries(h, {i}, Missing) \in Shapes
      BY EntriesAre
    <3>3. WithEntries(WithEntries(h, {i}, Missing), {j}, h.table[i]) \in Shapes
      BY <3>1, <3>2, EntriesAre
    <3> QED
      BY <2>4, <3>3 DEF Rename, Done
  <2> QED
    BY <1>1, <2>1, <2>2, <2>3, <2>4 DEF Of
<1> QED
  BY <1>2, <1>3, CategoryIs

(* A lock is the entry, or the array, that its items are. *)
LEMMA LocksAre ==
  ASSUME NEW l \in Locks, NEW i \in l
  PROVE  i \in Items /\ l = LockOf(i) /\ (i.cat = "cname" <=> l = Of("cname"))
<1>1. PICK j \in Items : l = LockOf(j)
  BY DEF Locks
<1>2. CASE j.cat \in Arrays
  BY <1>1, <1>2 DEF LockOf, Of
<1>3. CASE j.cat \notin Arrays
  <2>1. i = j /\ l = {i} /\ i \in Items /\ i.cat # "cname"
    BY <1>1, <1>3 DEF LockOf, Arrays
  <2> QED
    BY <1>1, <2>1 DEF Of
<1> QED
  BY <1>2, <1>3

LEMMA OwnLock ==
  ASSUME NEW i \in Items
  PROVE  /\ i \in LockOf(i) /\ LockOf(i) \in Locks
         /\ i.cat = "cname" <=> LockOf(i) = Of("cname")
<1>1. i \in LockOf(i) /\ LockOf(i) \in Locks
  BY DEF LockOf, Locks, Of
<1> QED
  BY <1>1, LocksAre

LEMMA ToolResultsAre ==
  ASSUME Typed, tool.pc = "write", tool.on \in Locks, Len(tool.read) = 1, NEW r \in ToolResults
  PROVE  /\ r.hole \in Shapes
         /\ tool.on # Of("cname") => r.hole.cnames = Target.cnames
<1> DEFINE then == tool.read[1]
<1>1. Target \in Shapes /\ then \in Shapes
  BY DEF Typed, Target, Sides, Tools
<1>2. PICK i \in tool.on :
        r \in IF i.cat \in Arrays
              THEN {Patch(Target, i.cat, RemoveValue(Lines(then, i.cat), i))}
              ELSE {Put(Target, i, v) : v \in {w \in Values : Has(then, i)}}
  BY DEF ToolResults
<1>3. i \in Items /\ (tool.on # Of("cname") => i.cat # "cname")
  BY LocksAre
<1> HIDE DEF then
<1>4. CASE i.cat \in Arrays
  <2> DEFINE s == Lines(then, i.cat)
             t == RemoveValue(s, i)
  <2>1. s \in Seq(Of(i.cat)) /\ Distinct(s)
    BY <1>1, <1>4, LinesAre DEF Listing
  <2> HIDE DEF s
  <2>2. t \in Listing(i.cat)
    BY <2>1, WithoutIs DEF Listing, RemoveValue
  <2> HIDE DEF t
  <2>3. r = Replaced(Target, i.cat, t)
    BY <1>2, <1>4 DEF Patch, s, t
  <2>4. r.hole \in Shapes /\ (r.hole = Target \/ r.hole = WithLines(Target, i.cat, t))
    BY <1>1, <1>4, <2>2, <2>3, ReplacedIs
  <2>5. ASSUME i.cat # "cname" PROVE WithLines(Target, i.cat, t).cnames = Target.cnames
    <3>1. i.cat = "local_dns"
      BY <1>4, <2>5 DEF Arrays
    <3>2. WithLines(Target, i.cat, t) = [Target EXCEPT !.hosts = t]
      BY <3>1 DEF WithLines
    <3> QED
      BY <1>1, <3>2 DEF Shapes
  <2> QED
    BY <1>3, <2>4, <2>5
<1>5. CASE i.cat \in Tables
  <2>1. i.cat \notin Arrays
    BY <1>3, <1>5, CategoryIs
  <2>2. PICK v \in Values : r = Put(Target, i, v)
    BY <1>2, <2>1
  <2>3. WithEntries(Target, {i}, v) \in Shapes /\ "cname" \in Arrays /\ r.hole = WithEntries(Target, {i}, v)
    BY <1>1, <2>2, EntriesAre DEF Put, Done, Arrays
  <2>4. r.hole.cnames = Target.cnames
    BY <1>1, <2>3 DEF WithEntries, Shapes
  <2> QED
    BY <2>3, <2>4
<1> QED
  BY <1>3, <1>4, <1>5, CategoryIs

----------------------------------------------------------------------------
(* The plan, and the requests of its steps *)

LEMMA PlanIs ==
  ASSUME Typed, SeenWell, NEW s \in Plan
  PROVE  /\ s \in StepSet /\ s.item \in Items /\ s.item.cat \in ask.cats
         /\ s.to = IF s.action = "delete" THEN Missing ELSE seen["source"][s.item]
         /\ s = Step(s.action, s.item)
         /\ s.action = "add" =>
              seen["source"][s.item] # Missing /\ seen["target"][s.item] = Missing
         /\ s.action = "update" =>
              /\ seen["source"][s.item] # Missing /\ seen["target"][s.item] # Missing
              /\ s.item.cat \in Tables
         /\ s.action = "delete" =>
              /\ seen["source"][s.item] = Missing /\ seen["target"][s.item] # Missing
              /\ ask.prune /\ s.item \in Differing("delete")
<1>1. PICK kind \in {"add", "update", "delete"} :
        s \in Steps(kind) /\ (kind = "delete" => ask.prune)
  BY DEF Plan
<1>2. PICK i \in Differing(kind) : s = Step(kind, i)
  BY <1>1 DEF Steps
<1>3. s.action = kind /\ s.item = i /\ s = Step(s.action, s.item)
  BY <1>2 DEF Step
<1>4. /\ i \in Items /\ i.cat \in ask.cats
      /\ kind = "add" => seen["source"][i] # Missing /\ seen["target"][i] = Missing
      /\ kind = "update" => /\ seen["source"][i] # Missing /\ seen["target"][i] # Missing
                            /\ seen["source"][i] # seen["target"][i]
      /\ kind = "delete" => seen["source"][i] = Missing /\ seen["target"][i] # Missing
  BY <1>2 DEF Differing
<1>5. seen["source"][i] \in AnyValue /\ seen["target"][i] \in AnyValue /\ Missing \in AnyValue
  BY <1>4 DEF Typed, AnyValue, Sides
<1>6. s \in StepSet /\ s.to = IF kind = "delete" THEN Missing ELSE seen["source"][i]
  BY <1>2, <1>4, <1>5 DEF Step, StepSet
<1>7. kind = "update" => i.cat \in Tables
  BY <1>4, CategoryIs DEF SeenWell, Plausible, Sides
<1> QED
  BY <1>1, <1>2, <1>3, <1>4, <1>6, <1>7

(* An item has one step at most, and one if it differs and is to change. *)
LEMMA OneStepEach ==
  ASSUME Typed, SeenWell
  PROVE  /\ Plan \subseteq StepSet
         /\ \A s, t \in Plan : s.item = t.item => s = t
         /\ \A i \in Items :
              i.cat \in ask.cats /\ seen["source"][i] # seen["target"][i]
                /\ (seen["source"][i] = Missing => ask.prune) => \E s \in Plan : s.item = i
<1>1. ASSUME NEW s \in Plan, NEW t \in Plan, s.item = t.item PROVE s = t
  <2>1. s.action \in {"add", "update", "delete"} /\ t.action \in {"add", "update", "delete"}
    BY PlanIs DEF StepSet
  <2>2. s.action = t.action
    BY <1>1, <2>1, PlanIs
  <2> QED
    BY <1>1, <2>2, PlanIs
<1>2. ASSUME NEW i \in Items, i.cat \in ask.cats, seen["source"][i] # seen["target"][i],
             seen["source"][i] = Missing => ask.prune
      PROVE  \E s \in Plan : s.item = i
  <2>1. \E kind \in {"add", "update", "delete"} :
          i \in Differing(kind) /\ (kind = "delete" => ask.prune)
    BY <1>2 DEF Differing
  <2>2. PICK kind \in {"add", "update", "delete"} :
          i \in Differing(kind) /\ (kind = "delete" => ask.prune)
    BY <2>1
  <2>3. Step(kind, i) \in Plan /\ Step(kind, i).item = i
    BY <2>2 DEF Plan, Steps, Step
  <2> QED
    BY <2>3
<1> QED
  BY <1>1, <1>2, PlanIs

LEMMA RunOfIs ==
  ASSUME Typed, SeenWell, NEW s \in Plan, s.item.cat # "cname"
  PROVE  OnlyAt(RunOf(s), Target, s.item, s.to)
<1> DEFINE i == s.item
<1>1. Target \in Shapes /\ i \in Items /\ s.action \in {"add", "update", "delete"}
  BY PlanIs DEF Typed, Target, Sides, StepSet
<1>2. s.action = "delete" => s.to = Missing
  BY PlanIs
<1>3. s.action = "update" => i.cat \in Tables
  BY PlanIs
<1>4. s.action # "delete" => s.to = seen["source"][i] /\ s.to # Missing
  BY <1>1, PlanIs
<1>5. i.cat = "local_dns" \/ (i.cat \in Tables /\ i.cat # "local_dns")
  BY <1>1, CategoryIs DEF Arrays
<1>6. s.action # "delete" => s.to \in IF i.cat \in Arrays THEN {Here} ELSE Values
  BY <1>1, <1>4 DEF SeenWell, Plausible, Sides
<1> HIDE DEF i
<1>7. CASE i.cat = "local_dns"
  <2>1. i.cat \in Arrays /\ i.cat \notin Tables
    BY <1>7 DEF Arrays, Tables
  <2>2. CASE s.action = "add"
    <3>1. RunOf(s) = PutLine(Target, i) /\ s.to = Here
      BY <1>6, <1>7, <2>1, <2>2 DEF RunOf, i
    <3> QED
      BY <1>1, <2>1, <3>1, PutLineIs DEF i
  <2>3. CASE s.action = "delete"
    <3>1. RunOf(s) = DeleteLine(Target, i)
      BY <1>7, <2>1, <2>3 DEF RunOf, i
    <3> QED
      BY <1>1, <1>2, <2>1, <2>3, <3>1, DeleteLineIs DEF i
  <2> QED
    BY <1>1, <1>3, <2>1, <2>2, <2>3
<1>8. CASE i.cat \in Tables /\ i.cat # "local_dns"
  <2>1. i.cat \notin Arrays
    BY <1>1, <1>8, CategoryIs
  <2>2. CASE s.action = "add"
    <3>1. RunOf(s) = Post(Target, i.cat, {i}, s.to) /\ s.to \in Values
      BY <1>6, <1>8, <2>1, <2>2 DEF RunOf, i
    <3> QED
      BY <1>1, <1>8, <3>1, EntryRequests DEF i
  <2>3. CASE s.action = "update"
    <3>1. RunOf(s) = Put(Target, i, s.to) /\ s.to \in Values
      BY <1>6, <1>8, <2>1, <2>3 DEF RunOf, i
    <3> QED
      BY <1>1, <1>8, <3>1, EntryRequests DEF i
  <2>4. CASE s.action = "delete"
    <3>1. RunOf(s) = Delete(Target, i)
      BY <1>8, <2>4 DEF RunOf, i
    <3>2. Delete(Target, i) = IF Held(Target)[i] = Missing THEN Refused(Target)
                              ELSE Done(WithEntries(Target, {i}, Missing))
      BY <1>1, <1>8, HeldIs DEF Delete
    <3>3. OnlyAt(Refused(Target), Target, i, Missing)
      BY <1>1 DEF OnlyAt, Refused
    <3>4. OnlyAt(Done(WithEntries(Target, {i}, Missing)), Target, i, Missing)
      BY <1>1, <1>8, EntriesAre DEF OnlyAt, Done
    <3> QED
      BY <1>2, <2>4, <3>1, <3>2, <3>3, <3>4 DEF i
  <2> QED
    BY <1>1, <2>2, <2>3, <2>4
<1> QED
  BY <1>5, <1>7, <1>8

(* The records to save have what the steps add and nothing of what they        *)
(* delete, and are otherwise what was read.                                   *)
LEMMA NextRecordsAre ==
  ASSUME Typed, SeenWell, PlanKept, pc = "cname_write", NEW r \in NextRecords
  PROVE  /\ r \in Listing("cname")
         /\ \A s \in CnameSteps : s.to = IF s.item \in Elements(r) THEN Here ELSE Missing
         /\ \A i \in Of("cname") :
              (\A s \in CnameSteps : s.item # i) => (i \in Elements(r) <=> i \in Elements(current))
<1> DEFINE del == CnamesTo("delete")
           new == CnamesTo("add")
           kept == Without(current, del)
<1>1. CnameSteps \subseteq Plan /\ \A s \in CnameSteps : s.item.cat = "cname"
  BY DEF PlanKept, CnameSteps, Early
<1>2. ASSUME NEW s \in CnameSteps
      PROVE  /\ s.item \in Of("cname") /\ s.action \in {"add", "delete"}
             /\ s.to = IF s.action = "add" THEN Here ELSE Missing
  <2>1. s \in StepSet /\ s.item \in Items /\ s.item.cat = "cname" /\ "cname" \in Arrays
    BY <1>1, PlanIs DEF Arrays
  <2>2. s.action \in {"add", "delete"}
    BY <1>1, <2>1, PlanIs, CategoryIs DEF StepSet
  <2>3. seen["source"][s.item] \in {Missing, Here}
    BY <2>1 DEF SeenWell, Plausible, Sides
  <2>4. s.to = IF s.action = "add" THEN Here ELSE Missing
    BY <1>1, <2>2, <2>3, PlanIs
  <2> QED
    BY <2>1, <2>2, <2>4 DEF Of
<1>3. new \subseteq Of("cname") /\ IsFiniteSet(new)
  <2>1. new \subseteq Of("cname") /\ new \subseteq Items
    BY <1>2 DEF CnamesTo, Of
  <2> QED
    BY <2>1, SyncAssumption, FS_Subset
<1>4. /\ \A s \in CnameSteps : s.action = "add" => s.item \in new /\ s.item \notin del
      /\ \A s \in CnameSteps : s.action = "delete" => s.item \in del /\ s.item \notin new
  <2>1. ASSUME NEW s \in CnameSteps, NEW t \in CnameSteps, s.item = t.item PROVE s.action = t.action
    BY <1>1, <2>1, OneStepEach
  <2> QED
    BY <2>1 DEF CnamesTo
<1>5. current \in Seq(Of("cname")) /\ Distinct(current)
  BY DEF Typed, Listing
<1> HIDE DEF del, new
<1>6. /\ kept \in Seq(Of("cname")) /\ Distinct(kept)
      /\ Elements(kept) = Elements(current) \ del
  BY <1>5, WithoutIs
<1> HIDE DEF kept
<1>7. PICK a \in Arrangements(new \ Elements(kept)) : r = kept \o a
  BY DEF NextRecords, Added, kept, del, new
<1>8. /\ a \in Seq(Of("cname")) /\ Distinct(a)
      /\ Elements(a) = new \ Elements(kept)
  <2>1. IsFiniteSet(new \ Elements(kept))
    BY <1>3, FS_Subset
  <2>2. a \in Seq(new \ Elements(kept)) /\ Distinct(a) /\ Elements(a) = new \ Elements(kept)
    BY <1>7, <2>1, ArrangementIs
  <2> QED
    BY <1>3, <2>2, SeqMonotonic
<1>9. r \in Listing("cname") /\ Elements(r) = (Elements(current) \ del) \cup new
  BY <1>6, <1>7, <1>8, ConcatIs DEF Listing
<1>10. ASSUME NEW s \in CnameSteps
       PROVE  s.to = IF s.item \in Elements(r) THEN Here ELSE Missing
  BY <1>2, <1>4, <1>9
<1>11. ASSUME NEW i \in Of("cname"), \A s \in CnameSteps : s.item # i
       PROVE  i \in Elements(r) <=> i \in Elements(current)
  <2>1. i \notin del /\ i \notin new
    BY <1>11 DEF del, new, CnamesTo
  <2> QED
    BY <1>9, <2>1
<1> QED
  BY <1>9, <1>10, <1>11

(* What is held of the records when they are saved. *)
LEMMA SavedIs ==
  ASSUME NEW h \in Shapes, NEW r \in Listing("cname"), Patch(h, "cname", r).ok,
         NEW k, k = Patch(h, "cname", r).hole
  PROVE  /\ k \in Shapes /\ Lines(k, "cname") = r
         /\ \A i \in Items : Held(k)[i] =
              IF i.cat = "cname" THEN IF i \in Elements(r) THEN Here ELSE Missing ELSE Held(h)[i]
<1>1. "cname" \in Arrays
  BY DEF Arrays
<1>2. Takes("cname", r) /\ k = WithLines(h, "cname", r)
  BY <1>1, ReplacedIs DEF Patch
<1> QED
  BY <1>1, <1>2, ArraysAre

----------------------------------------------------------------------------
(* The first state *)

LEMMA HolesAre == Holes \subseteq Shapes
<1>1. ASSUME NEW c \in {"local_dns", "cname"}, NEW s \in UNION {Arrangements(S) : S \in SUBSET Of(c)}
      PROVE  s \in Listing(c)
  <2>1. PICK S \in SUBSET Of(c) : s \in Arrangements(S)
    OBVIOUS
  <2>2. IsFiniteSet(S)
    <3>1. S \subseteq Items
      BY DEF Of
    <3> QED
      BY <3>1, SyncAssumption, FS_Subset
  <2>3. s \in Seq(S) /\ Distinct(s)
    BY <2>1, <2>2, ArrangementIs
  <2> QED
    BY <2>3, SeqMonotonic DEF Listing
<1> SUFFICES ASSUME NEW h \in Holes PROVE h \in Shapes
  OBVIOUS
<1>2. /\ h = [table |-> h.table, hosts |-> h.hosts, cnames |-> h.cnames]
      /\ h.table \in [TableItems -> Values \cup {Missing}]
      /\ h.hosts \in UNION {Arrangements(S) : S \in SUBSET Of("local_dns")}
      /\ h.cnames \in UNION {Arrangements(S) : S \in SUBSET Of("cname")}
      /\ Takes("cname", h.cnames)
  BY DEF Holes, TableItems
<1>3. h.hosts \in Listing("local_dns") /\ h.cnames \in Listing("cname")
  BY <1>1, <1>2
<1> QED
  BY <1>2, <1>3 DEF Shapes

LEMMA EmptyListing == <<>> \in Listing("cname")
  BY DEF Listing, Distinct

LEMMA UnreadPlausible == Plausible(Unread) /\ Unread \in [Items -> AnyValue]
  BY DEF Plausible, Unread, AnyValue, Of

LEMMA First == Init => IInv
<1> SUFFICES ASSUME Init PROVE IInv
  OBVIOUS
<1> USE DEF Init
<1>1. Typed
  <2>1. hole \in [Sides -> Shapes]
    BY HolesAre
  <2>2. ask \in Asks /\ report \in Reports /\ tool \in Tools
    BY DEF NoAsk, Asks, Modes, NoReport, Reports, NoTool, Tools
  <2>3. seen \in [Sides -> [Items -> AnyValue]]
    BY UnreadPlausible
  <2>4. pc \in Places /\ edits \in 0..MaxEdits
    BY SyncAssumption DEF Places
  <2>5. shown \in [prune : BOOLEAN, steps : SUBSET StepSet]
    BY DEF NotShown
  <2> QED
    BY <2>1, <2>2, <2>3, <2>4, <2>5, EmptyListing DEF Typed
<1>2. SeenWell
  BY UnreadPlausible DEF SeenWell
<1>3. PlanKept
  BY DEF PlanKept, Early
<1>4. Locked /\ ReadsHold /\ AsRead
  BY DEF Locked, ReadsHold, AsRead, NoTool, SyncHolds
<1>5. Waiting
  BY DEF Waiting, NoReport
<1> QED
  BY <1>1, <1>2, <1>3, <1>4, <1>5 DEF IInv

----------------------------------------------------------------------------
(* Types *)

LEMMA TypedKept ==
  ASSUME Typed, SeenWell, PlanKept, Locked, Next
  PROVE  Typed'
<1> USE DEF callVars, applyVars, ftlVars, otherVars
<1>0. Target \in Shapes /\ Unread \in [Items -> AnyValue]
  BY UnreadPlausible DEF Typed, Target, Sides
<1>a. ASSUME Return, UNCHANGED shown PROVE Typed'
  <2>1. NoAsk \in Asks /\ NoReport \in Reports
    BY DEF NoAsk, Asks, Modes, NoReport, Reports
  <2> QED
    BY <1>a, <1>0, <2>1, EmptyListing DEF Typed, Return, Places
<1>b. ASSUME NEW k \in Shapes, SetTarget(k) PROVE hole' \in [Sides -> Shapes]
  BY <1>b DEF Typed, SetTarget
<1>c. ASSUME NEW S \in SUBSET StepSet, Tell(S, {}) \/ Tell({}, S) PROVE report' \in Reports
  <2>1. /\ report \in Reports /\ report.done \cup S \in SUBSET StepSet
        /\ report.failed \cup S \in SUBSET StepSet
    BY DEF Typed, Reports
  <2>2. \/ report' = [report EXCEPT !.done = @ \cup S, !.failed = @ \cup {}]
        \/ report' = [report EXCEPT !.done = @ \cup {}, !.failed = @ \cup S]
    BY <1>c DEF Tell
  <2> HIDE DEF StepSet
  <2> QED
    BY <2>1, <2>2 DEF Reports
<1>d. CnameSteps \in SUBSET StepSet /\ (pc \notin Early => todo \subseteq Plan)
  BY DEF Typed, CnameSteps, PlanKept
<1>e. ASSUME NEW r \in NextRecords, pc = "cname_write", Patch(Target, "cname", r).ok
      PROVE  Patch(Target, "cname", r).hole \in Shapes
  BY <1>0, <1>e, NextRecordsAre, SavedIs
<1>1. ASSUME NEW mode \in Modes, NEW cats \in Askable, NEW p \in BOOLEAN, Begin(mode, cats, p)
      PROVE  Typed'
  <2>1. cats \in SUBSET Categories
    BY SyncAssumption
  <2> QED
    BY <1>1, <2>1 DEF Typed, Begin, Asks, Places
<1>2. CASE EndContext \/ Snapshot \/ LockCNAMEs \/ NoRestartSeen \/ Finish \/ FtlRestarts
  BY <1>2 DEF Typed, EndContext, Snapshot, LockCNAMEs, NoRestartSeen, Finish, FtlRestarts, Places
<1>3. ASSUME NEW c \in Categories, NEW x \in Sides, ReadSide(c, x) PROVE Typed'
  <2>1. Held(hole[x]) \in [Items -> AnyValue]
    BY HeldPlausible DEF Typed
  <2>2. seen' \in [Sides -> [Items -> AnyValue]]
    BY <1>3, <2>1 DEF Typed, ReadSide
  <2> QED
    BY <1>3, <2>2 DEF Typed, ReadSide, Places
<1>4. CASE ReadFails \/ Refuse \/ ShowDiff \/ Decline \/ SnapshotFails \/ Answer
  BY <1>4, <1>a DEF ReadFails, Refuse, ShowDiff, Decline, SnapshotFails, Answer
<1>5. CASE Show
  <2>1. Plan \subseteq StepSet /\ ask.prune \in BOOLEAN
    BY OneStepEach DEF Typed, Asks
  <2>2. shown' \in [prune : BOOLEAN, steps : SUBSET StepSet]
    BY <1>5, <2>1 DEF Show
  <2>3. NoAsk \in Asks /\ NoReport \in Reports
    BY DEF NoAsk, Asks, Modes, NoReport, Reports
  <2> QED
    BY <1>5, <1>0, <2>2, <2>3, EmptyListing DEF Typed, Show, Return, Places
<1>6. CASE Confirm
  BY <1>6, OneStepEach DEF Typed, Confirm, Places
<1>7. ASSUME NEW s \in todo, RunStep(s) PROVE Typed'
  <2>1. s \in Plan /\ {s} \in SUBSET StepSet
    BY <1>7, <1>d DEF RunStep, Early, Typed
  <2>2. RunOf(s).hole \in Shapes
    BY <1>7, <2>1, RunOfIs DEF OnlyAt, RunStep
  <2>3. hole' \in [Sides -> Shapes]
    BY <1>7, <1>b, <2>2 DEF RunStep, Typed
  <2>4. report' \in Reports
    BY <1>7, <1>c, <2>1 DEF RunStep
  <2> QED
    BY <1>7, <2>3, <2>4 DEF Typed, RunStep
<1>8. CASE Abandon
  <2>1. report' \in Reports
    BY <1>8, <1>c DEF Abandon, Typed
  <2> QED
    BY <1>8, <2>1 DEF Typed, Abandon
<1>9. CASE ReadCNAMEs
  <2>1. Target.cnames \in Listing("cname")
    BY <1>0 DEF Shapes
  <2>2. report' \in Reports
    BY <1>9, <1>c, <1>d DEF ReadCNAMEs, Record, Typed
  <2> QED
    BY <1>9, <2>1, <2>2 DEF Typed, ReadCNAMEs, Record, Places
<1>10. CASE NothingToWrite \/ CNAMEsRefused
  <2>1. report' \in Reports
    BY <1>10, <1>c, <1>d DEF NothingToWrite, CNAMEsRefused, Record
  <2> QED
    BY <1>10, <2>1 DEF Typed, NothingToWrite, CNAMEsRefused, Record, Places
<1>11. CASE WriteCNAMEs
  <2>1. report' \in Reports
    BY <1>11, <1>c, <1>d DEF WriteCNAMEs, Record
  <2>2. hole' \in [Sides -> Shapes]
    BY <1>11, <1>b, <1>e DEF WriteCNAMEs, Save
  <2>3. fresh' \in BOOLEAN /\ due' \in BOOLEAN
    BY <1>11 DEF WriteCNAMEs, Save, Typed
  <2> QED
    BY <1>11, <2>1, <2>2, <2>3 DEF Typed, WriteCNAMEs, Record, Places
<1>12. CASE CNAMEsUncertain
  <2>1. report' \in Reports
    BY <1>12, <1>c, <1>d DEF CNAMEsUncertain, Record
  <2>2. hole' \in [Sides -> Shapes]
    BY <1>12, <1>b, <1>e DEF CNAMEsUncertain, Save, Typed
  <2>3. fresh' \in BOOLEAN /\ due' \in BOOLEAN
    BY <1>12 DEF CNAMEsUncertain, Save, Typed
  <2> QED
    BY <1>12, <2>1, <2>2, <2>3 DEF Typed, CNAMEsUncertain, Record, Places
<1>13. CASE Restarted \/ WaitFails
  BY <1>13 DEF Typed, Restarted, WaitFails, Places, Reports
<1>14. CASE AskRestart
  <2>1. report' \in Reports
    BY <1>14 DEF Typed, AskRestart, Reports
  <2>2. due' \in BOOLEAN /\ restarted' \in BOOLEAN
    BY <1>14 DEF Typed, AskRestart
  <2> QED
    BY <1>14, <2>1, <2>2 DEF Typed, AskRestart, Places
<1>15. ASSUME NEW l \in Locks, ToolLock(l) PROVE Typed'
  <2>1. l \in SUBSET Items
    BY DEF Locks, LockOf, Of
  <2> QED
    BY <1>15, <2>1 DEF Typed, ToolLock, Tools
<1>16. CASE ToolRead
  <2>1. <<Target>> \in Seq(Shapes)
    BY <1>0
  <2> QED
    BY <1>16, <2>1 DEF Typed, ToolRead, Tools
<1>n. NoTool \in Tools
  BY DEF NoTool, Tools
<1>17. CASE ToolWrite
  <2>1. tool.on \in Locks /\ tool.pc = "write" /\ Len(tool.read) = 1
    BY <1>17 DEF ToolWrite, Locked
  <2>2. hole' \in [Sides -> Shapes]
    BY <1>17, <1>b, <2>1, ToolResultsAre DEF ToolWrite
  <2>3. dirty' \subseteq Items /\ due' \in BOOLEAN
    BY <1>17 DEF ToolWrite, Typed, Changed, Restarts
  <2> QED
    BY <1>17, <1>n, <2>2, <2>3 DEF Typed, ToolWrite
<1>18. CASE ToolFails
  BY <1>18, <1>n DEF Typed, ToolFails
<1>19. ASSUME NEW x \in Sides, Elsewhere(x) PROVE Typed'
  <2>1. hole[x] \in Shapes
    BY DEF Typed
  <2>2. hole' \in [Sides -> Shapes]
    BY <1>19, <2>1, EditsAre DEF Elsewhere, Typed
  <2>3. dirty' \subseteq Items /\ stale' \subseteq Items /\ due' \in BOOLEAN
    BY <1>19 DEF Elsewhere, Typed, Changed, Restarts
  <2>4. edits' \in 0..MaxEdits
    BY <1>19, SyncAssumption DEF Elsewhere, Typed
  <2> QED
    BY <1>19, <2>2, <2>3, <2>4 DEF Typed, Elsewhere
<1> QED
  BY <1>1, <1>2, <1>3, <1>4, <1>5, <1>6, <1>7, <1>8, <1>9, <1>10, <1>11, <1>12, <1>13, <1>14,
     <1>15, <1>16, <1>17, <1>18, <1>19 DEF Next

----------------------------------------------------------------------------
(* What the sync's own writes do to the target *)

LEMMA TargetTyped ==
  ASSUME Typed
  PROVE  Target \in Shapes /\ hole["source"] \in Shapes /\ report \in Reports /\ DOMAIN hole = Sides
  BY DEF Typed, Target, Sides

LEMMA TellIs ==
  ASSUME Typed, NEW D, NEW F, Tell(D, F)
  PROVE  /\ report'.done = report.done \cup D /\ report'.failed = report.failed \cup F
         /\ report'.restarted = report.restarted /\ report'.error = report.error
  BY TargetTyped DEF Tell, Reports

LEMMA RunStepDoes ==
  ASSUME Typed, SeenWell, PlanKept, NEW s \in todo, RunStep(s)
  PROVE  /\ s \in Plan /\ s.item \in Items /\ s.item.cat # "cname"
         /\ \A i \in Items : i # s.item => TargetAfter[i] = Held(Target)[i]
         /\ TargetAfter[s.item] \in {s.to, Held(Target)[s.item]}
         /\ \/ /\ report'.done = report.done \cup {s} /\ report'.failed = report.failed
               /\ TargetAfter[s.item] = s.to
            \/ report'.done = report.done /\ report'.failed = report.failed \cup {s}
<1>1. s \in Plan /\ s.item.cat # "cname"
  BY DEF RunStep, PlanKept, Early
<1>2. s.item \in Items
  BY <1>1, PlanIs
<1>3. OnlyAt(RunOf(s), Target, s.item, s.to)
  BY <1>1, RunOfIs
<1>4. \/ /\ report'.done = report.done \cup {s} /\ report'.failed = report.failed
         /\ hole'["target"] = RunOf(s).hole /\ RunOf(s).ok
      \/ /\ report'.done = report.done /\ report'.failed = report.failed \cup {s}
         /\ hole'["target"] \in {RunOf(s).hole, Target}
  <2>1. ASSUME Tell({s}, {})
        PROVE  report'.done = report.done \cup {s} /\ report'.failed = report.failed
    BY <2>1, TellIs
  <2>2. ASSUME Tell({}, {s})
        PROVE  report'.done = report.done /\ report'.failed = report.failed \cup {s}
    BY <2>2, TellIs
  <2>3. ASSUME SetTarget(RunOf(s).hole) PROVE hole'["target"] = RunOf(s).hole
    BY <2>3, TargetTyped DEF SetTarget, Sides
  <2>4. CASE Tell({s}, {}) /\ SetTarget(RunOf(s).hole) /\ RunOf(s).ok
    BY <2>1, <2>3, <2>4
  <2>5. CASE Tell({}, {s}) /\ SetTarget(RunOf(s).hole)
    BY <2>2, <2>3, <2>5
  <2>6. CASE Tell({}, {s}) /\ UNCHANGED hole
    BY <2>2, <2>6 DEF Target
  <2> QED
    BY <2>4, <2>5, <2>6 DEF RunStep
<1>5. CASE hole'["target"] = RunOf(s).hole
  BY <1>1, <1>2, <1>3, <1>4, <1>5 DEF OnlyAt, TargetAfter
<1>6. CASE hole'["target"] = Target
  BY <1>1, <1>2, <1>3, <1>4, <1>6 DEF OnlyAt, TargetAfter
<1> QED
  BY <1>4, <1>5, <1>6

LEMMA SaveDoes ==
  ASSUME Typed, SeenWell, PlanKept, ReadsHold, WriteCNAMEs \/ CNAMEsUncertain
  PROVE  /\ \A i \in Items : i.cat # "cname" => TargetAfter[i] = Held(Target)[i]
         /\ \/ hole' = hole /\ CNAMEsUncertain
            \/ /\ \A s \in CnameSteps : TargetAfter[s.item] = s.to
               /\ \A i \in Of("cname") \ stale :
                    (\A s \in CnameSteps : s.item # i) => TargetAfter[i] = Held(Target)[i]
<1>1. pc = "cname_write"
  BY DEF WriteCNAMEs, CNAMEsUncertain
<1>2. CASE hole' = hole /\ CNAMEsUncertain
  BY <1>2 DEF TargetAfter, Target
<1>3. CASE \E r \in NextRecords :
             Patch(Target, "cname", r).ok /\ SetTarget(Patch(Target, "cname", r).hole)
  <2>1. PICK r \in NextRecords :
          Patch(Target, "cname", r).ok /\ SetTarget(Patch(Target, "cname", r).hole)
    BY <1>3
  <2>2. r \in Listing("cname")
    BY <1>1, NextRecordsAre
  <2>3. hole'["target"] = Patch(Target, "cname", r).hole
    BY <2>1, TargetTyped DEF SetTarget, Sides
  <2>4. \A i \in Items : TargetAfter[i] =
          IF i.cat = "cname" THEN IF i \in Elements(r) THEN Here ELSE Missing ELSE Held(Target)[i]
    BY <2>1, <2>2, <2>3, TargetTyped, SavedIs DEF TargetAfter
  <2>5. ASSUME NEW s \in CnameSteps PROVE TargetAfter[s.item] = s.to
    <3>1. s \in Plan /\ s.item.cat = "cname"
      BY <1>1 DEF CnameSteps, PlanKept, Early
    <3>2. s.item \in Items
      BY <3>1, PlanIs
    <3> QED
      BY <1>1, <2>4, <3>1, <3>2, NextRecordsAre
  <2>6. ASSUME NEW i \in Of("cname") \ stale, \A s \in CnameSteps : s.item # i
        PROVE  TargetAfter[i] = Held(Target)[i]
    <3>1. i \in Items /\ i.cat = "cname" /\ i.cat \in Arrays
      BY DEF Of, Arrays
    <3>2. i \in Elements(r) <=> i \in Elements(current)
      BY <1>1, <2>6, NextRecordsAre
    <3>3. Held(Target)[i] # Missing <=> i \in Elements(current)
      BY <1>1, <3>1, HeldIs, TargetTyped DEF ReadsHold
    <3>4. Held(Target)[i] \in {Here, Missing}
      BY <3>1, HeldIs, TargetTyped
    <3> QED
      BY <2>4, <3>1, <3>2, <3>3, <3>4
  <2> QED
    BY <2>4, <2>5, <2>6
<1> QED
  BY <1>2, <1>3 DEF WriteCNAMEs, CNAMEsUncertain, Save

(* The tool writes no alias's record while the sync holds their lock. *)
LEMMA ToolWriteDoes ==
  ASSUME Typed, Locked, ToolWrite
  PROVE  /\ hole'["target"] \in Shapes
         /\ pc # "idle" => dirty' = dirty \cup {i \in Items : TargetAfter[i] # Held(Target)[i]}
         /\ SyncHolds => Lines(hole'["target"], "cname") = Lines(Target, "cname")
<1>1. tool.pc = "write" /\ tool.on \in Locks /\ Len(tool.read) = 1
  BY DEF ToolWrite, Locked
<1>2. PICK r \in ToolResults :
        /\ SetTarget(r.hole)
        /\ dirty' = IF pc = "idle" THEN {} ELSE dirty \cup Changed(r.hole)
  BY DEF ToolWrite
<1>3. hole'["target"] = r.hole /\ r.hole \in Shapes
  BY <1>1, <1>2, TargetTyped, ToolResultsAre DEF SetTarget, Sides
<1>4. SyncHolds => r.hole.cnames = Target.cnames
  BY <1>1, ToolResultsAre DEF Locked
<1> QED
  BY <1>2, <1>3, <1>4 DEF Changed, TargetAfter, Lines

LEMMA ElsewhereDoes ==
  ASSUME Typed, NEW x \in Sides, Elsewhere(x)
  PROVE  /\ hole'["target"] \in Shapes
         /\ pc # "idle" => dirty' = dirty \cup {i \in Items : TargetAfter[i] # Held(Target)[i]}
         /\ stale' = stale \cup ({i \in Items : TargetAfter[i] # Held(Target)[i]} \cap Borrowed)
<1>1. PICK r \in Edits(hole[x]) :
        /\ hole' = [hole EXCEPT ![x] = r.hole]
        /\ IF x = "source" THEN UNCHANGED <<dirty, stale, due>>
           ELSE /\ dirty' = IF pc = "idle" THEN {} ELSE dirty \cup Changed(r.hole)
                /\ stale' = stale \cup (Changed(r.hole) \cap Borrowed)
  BY DEF Elsewhere
<1>2. CASE x = "source"
  <2>1. hole'["target"] = Target
    BY <1>1, <1>2, TargetTyped DEF Target, Sides
  <2> QED
    BY <1>1, <1>2, <2>1, TargetTyped DEF TargetAfter
<1>3. CASE x = "target"
  <2>1. hole'["target"] = r.hole /\ hole[x] = Target
    BY <1>1, <1>3, TargetTyped DEF Target, Sides
  <2> QED
    BY <1>1, <1>3, <2>1, TargetTyped, EditsAre DEF TargetAfter, Changed
<1> QED
  BY <1>2, <1>3 DEF Sides

----------------------------------------------------------------------------
(* What a step is about *)

(* What was asked for and read changes only at the ends of a call, and as it  *)
(* reads.                                                                     *)
LEMMA CallSteps ==
  ASSUME Next
  PROVE  \/ \E mode \in Modes, cats \in Askable, p \in BOOLEAN : Begin(mode, cats, p)
         \/ \E c \in Categories, x \in Sides : ReadSide(c, x)
         \/ Return
         \/ UNCHANGED <<ask, seen, toRead, shown>>
<1> USE DEF callVars
<1>1. CASE EndContext \/ Snapshot \/ LockCNAMEs \/ NoRestartSeen \/ Finish \/ FtlRestarts
             \/ Confirm \/ Abandon \/ ReadCNAMEs \/ NothingToWrite \/ WriteCNAMEs \/ CNAMEsRefused
  BY <1>1 DEF EndContext, Snapshot, LockCNAMEs, NoRestartSeen, Finish, FtlRestarts, Confirm,
              Abandon, ReadCNAMEs, NothingToWrite, WriteCNAMEs, CNAMEsRefused
<1>2. CASE CNAMEsUncertain \/ Restarted \/ WaitFails \/ AskRestart \/ ToolRead \/ ToolWrite
             \/ ToolFails \/ (\E s \in todo : RunStep(s)) \/ (\E l \in Locks : ToolLock(l))
             \/ (\E x \in Sides : Elsewhere(x))
  BY <1>2 DEF CNAMEsUncertain, Restarted, WaitFails, AskRestart, ToolRead, ToolWrite, ToolFails,
              RunStep, ToolLock, Elsewhere
<1>3. CASE ReadFails \/ Refuse \/ ShowDiff \/ Show \/ Decline \/ SnapshotFails \/ Answer
  BY <1>3 DEF ReadFails, Refuse, ShowDiff, Show, Decline, SnapshotFails, Answer
<1> QED
  BY <1>1, <1>2, <1>3 DEF Next

(* The target changes by the sync's writes and by those of others. *)
LEMMA HoleSteps ==
  ASSUME Next
  PROVE  \/ UNCHANGED hole
         \/ \E s \in todo : RunStep(s)
         \/ WriteCNAMEs \/ CNAMEsUncertain \/ ToolWrite
         \/ \E x \in Sides : Elsewhere(x)
<1>1. CASE EndContext \/ Snapshot \/ LockCNAMEs \/ NoRestartSeen \/ Finish \/ FtlRestarts
             \/ Confirm \/ Abandon \/ ReadCNAMEs \/ NothingToWrite \/ CNAMEsRefused
  BY <1>1 DEF EndContext, Snapshot, LockCNAMEs, NoRestartSeen, Finish, FtlRestarts, Confirm,
              Abandon, ReadCNAMEs, NothingToWrite, CNAMEsRefused
<1>2. CASE Restarted \/ WaitFails \/ AskRestart \/ ToolRead
             \/ ToolFails \/ (\E l \in Locks : ToolLock(l))
             \/ (\E mode \in Modes, cats \in Askable, p \in BOOLEAN : Begin(mode, cats, p))
             \/ (\E c \in Categories, x \in Sides : ReadSide(c, x))
  BY <1>2 DEF Restarted, WaitFails, AskRestart, ToolRead, ToolFails, ToolLock, Begin, ReadSide
<1>3. CASE ReadFails \/ Refuse \/ ShowDiff \/ Show \/ Decline \/ SnapshotFails \/ Answer
  BY <1>3 DEF ReadFails, Refuse, ShowDiff, Show, Decline, SnapshotFails, Answer, Return
<1> QED
  BY <1>1, <1>2, <1>3 DEF Next

LEMMA SeenWellKept ==
  ASSUME Typed, SeenWell, Next
  PROVE  SeenWell'
<1>1. CASE UNCHANGED seen
  BY <1>1 DEF SeenWell, Plausible
<1>2. CASE Return
  <2>1. \A side \in Sides : seen'[side] = Unread
    BY <1>2 DEF Return
  <2> QED
    BY <2>1, UnreadPlausible DEF SeenWell
<1>3. ASSUME NEW c \in Categories, NEW x \in Sides, ReadSide(c, x) PROVE SeenWell'
  <2> DEFINE f == Held(hole[x])
             g == [i \in Items |-> IF i.cat = c THEN f[i] ELSE seen[x][i]]
  <2>1. Plausible(f) /\ Plausible(seen[x])
    BY HeldPlausible DEF Typed, SeenWell
  <2>2. seen' = [seen EXCEPT ![x] = g] /\ DOMAIN seen = Sides
    BY <1>3 DEF ReadSide, Typed
  <2> HIDE DEF f
  <2>3. Plausible(g)
    <3>1. ASSUME NEW i \in Items
          PROVE  g[i] \in IF i.cat \in Arrays THEN {Missing, Here} ELSE Values \cup {Missing}
      BY <2>1 DEF Plausible
    <3>2. ASSUME NEW i \in Of("cname"), NEW j \in Of("cname"), i # j, g[i] # Missing, g[j] # Missing
          PROVE  i.name.alias # j.name.alias
      BY <2>1, <3>2 DEF Plausible, Of
    <3> HIDE DEF g
    <3> QED
      BY <3>1, <3>2 DEF Plausible
  <2> HIDE DEF g
  <2> QED
    BY <2>2, <2>3 DEF SeenWell
<1>4. ASSUME NEW mode \in Modes, NEW cats \in Askable, NEW p \in BOOLEAN, Begin(mode, cats, p)
      PROVE  UNCHANGED seen
  BY <1>4 DEF Begin
<1> QED
  BY <1>1, <1>2, <1>3, <1>4, CallSteps

----------------------------------------------------------------------------
(* Locks *)

LEMMA LockedKept ==
  ASSUME Typed, Locked, Next
  PROVE  Locked'
<1> USE DEF otherVars, SyncHolds
<1>1. CASE Confirm \/ Snapshot \/ Finish \/ FtlRestarts \/ EndContext \/ NoRestartSeen
             \/ (\E mode \in Modes, cats \in Askable, p \in BOOLEAN : Begin(mode, cats, p))
  BY <1>1 DEF Locked, Confirm, Snapshot, Finish, FtlRestarts, EndContext, NoRestartSeen, Begin
<1>2. CASE Return
  BY <1>2 DEF Locked, Return
<1>3. ASSUME NEW c \in Categories, NEW x \in Sides, ReadSide(c, x) PROVE Locked'
  BY <1>3 DEF Locked, ReadSide
<1>4. CASE Abandon \/ NothingToWrite \/ CNAMEsRefused \/ WriteCNAMEs \/ CNAMEsUncertain
             \/ Restarted \/ WaitFails \/ AskRestart \/ (\E s \in todo : RunStep(s))
  BY <1>4 DEF Locked, Abandon, NothingToWrite, CNAMEsRefused, WriteCNAMEs, CNAMEsUncertain,
              Restarted, WaitFails, AskRestart, RunStep
<1>5. CASE LockCNAMEs
  BY <1>5 DEF Locked, LockCNAMEs, LockFree
<1>6. CASE ReadCNAMEs
  BY <1>6 DEF Locked, ReadCNAMEs
<1>7. ASSUME NEW l \in Locks, ToolLock(l) PROVE Locked'
  BY <1>7 DEF Locked, ToolLock, LockFree, Typed, Tools
<1>8. CASE ToolRead
  <2>1. /\ tool'.pc = "write" /\ tool'.on = tool.on /\ tool'.read = <<Target>> /\ tool.pc = "read"
        /\ stale' \subseteq stale /\ UNCHANGED <<pc, dirty>>
    BY <1>8 DEF ToolRead, Typed, Tools
  <2> QED
    BY <2>1 DEF Locked
<1>9. CASE ToolWrite
  <2>1. tool' = NoTool /\ UNCHANGED <<pc, stale>> /\ (pc # "idle" => dirty \subseteq dirty')
    BY <1>9, ToolWriteDoes DEF ToolWrite
  <2> QED
    BY <2>1 DEF Locked, NoTool
<1>10. CASE ToolFails
  BY <1>10 DEF Locked, ToolFails, NoTool
<1>11. ASSUME NEW x \in Sides, Elsewhere(x) PROVE Locked'
  <2>1. UNCHANGED <<pc, tool>>
    BY <1>11 DEF Elsewhere
  <2>2. pc = "cname_write" => stale' \cap Of("cname") \subseteq dirty'
    BY <1>11, ElsewhereDoes DEF Locked
  <2> QED
    BY <2>1, <2>2 DEF Locked
<1>12. CASE ReadFails \/ Refuse \/ ShowDiff \/ Show \/ Decline \/ SnapshotFails \/ Answer
  BY <1>12, <1>2 DEF ReadFails, Refuse, ShowDiff, Show, Decline, SnapshotFails, Answer
<1> QED
  BY <1>1, <1>3, <1>4, <1>5, <1>6, <1>7, <1>8, <1>9, <1>10, <1>11, <1>12 DEF Next

(* What the tool has read, and the records the sync has read. *)
ToolsReadHolds ==
  tool.pc = "write" =>
    \A i \in Items \ stale : LockOf(i) = tool.on => Held(Target)[i] = Held(tool.read[1])[i]

SyncsReadHolds ==
  pc = "cname_write" => \A i \in Of("cname") \ stale : Has(Target, i) <=> i \in Elements(current)

LEMMA ToolsReadKept ==
  ASSUME Typed, SeenWell, PlanKept, Locked, ReadsHold, Next
  PROVE  ToolsReadHolds'
<1> USE DEF otherVars
<1>0. ToolsReadHolds
  BY DEF ReadsHold, ToolsReadHolds
<1>a. CASE UNCHANGED <<hole, tool, stale>>
  BY <1>a, <1>0 DEF ToolsReadHolds, Target
<1>b. ASSUME UNCHANGED <<tool, stale>>,
             \A i \in Items : LockOf(i) = tool.on => TargetAfter[i] = Held(Target)[i]
      PROVE  ToolsReadHolds'
  <2>1. (Held(Target))' = TargetAfter
    BY DEF Target, TargetAfter, Held, Has, GetLine, GetEntry, Lines
  <2>2. (Held(tool.read[1]))' = Held(tool.read[1])
    BY <1>b
  <2> QED
    BY <1>0, <1>b, <2>1, <2>2 DEF ToolsReadHolds
<1>1. CASE Confirm \/ Snapshot \/ Finish \/ FtlRestarts \/ EndContext \/ NoRestartSeen
             \/ (\E mode \in Modes, cats \in Askable, p \in BOOLEAN : Begin(mode, cats, p))
             \/ (\E c \in Categories, x \in Sides : ReadSide(c, x))
             \/ LockCNAMEs \/ Abandon \/ NothingToWrite \/ CNAMEsRefused
             \/ Restarted \/ WaitFails \/ AskRestart
  BY <1>1, <1>a DEF Confirm, Snapshot, Finish, FtlRestarts, EndContext, NoRestartSeen, Begin,
                ReadSide, LockCNAMEs, Abandon, NothingToWrite, CNAMEsRefused, Restarted,
                WaitFails, AskRestart
<1>2. CASE ReadFails \/ Refuse \/ ShowDiff \/ Show \/ Decline \/ SnapshotFails \/ Answer
  <2>1. Return
    BY <1>2 DEF ReadFails, Refuse, ShowDiff, Show, Decline, SnapshotFails, Answer
  <2> QED
    BY <1>a, <2>1 DEF Return
<1>3. CASE ReadCNAMEs
  <2>1. /\ UNCHANGED <<hole, tool>> /\ stale \subseteq stale' \cup Of("cname")
        /\ tool.pc # "idle" => tool.on # Of("cname")
    BY <1>3 DEF ReadCNAMEs, Locked, SyncHolds
  <2>2. \A i \in Items : tool.pc # "idle" /\ LockOf(i) = tool.on => i \notin Of("cname")
    BY <2>1, OwnLock DEF Of
  <2>3. \A i \in Items \ stale' : tool.pc # "idle" /\ LockOf(i) = tool.on => i \in Items \ stale
    BY <2>1, <2>2
  <2>4. UNCHANGED Held(Target) /\ UNCHANGED Held(tool.read[1])
    BY <2>1 DEF Target
  <2> QED
    BY <1>0, <2>1, <2>3, <2>4 DEF ToolsReadHolds
<1>4. CASE ToolWrite \/ ToolFails \/ (\E l \in Locks : ToolLock(l))
  <2>1. tool'.pc # "write"
    <3>1. CASE ToolWrite \/ ToolFails
      BY <3>1 DEF ToolWrite, ToolFails, NoTool
    <3>2. ASSUME NEW l \in Locks, ToolLock(l) PROVE tool'.pc = "read"
      BY <3>2 DEF ToolLock, Typed, Tools
    <3> QED
      BY <1>4, <3>1, <3>2
  <2> QED
    BY <2>1 DEF ToolsReadHolds
<1>5. CASE ToolRead
  <2>1. tool'.read = <<Target>> /\ UNCHANGED hole
    BY <1>5 DEF ToolRead, Typed, Tools
  <2>2. (tool.read[1])' = Target /\ Target' = Target
    BY <2>1 DEF Target
  <2> QED
    BY <2>2 DEF ToolsReadHolds
<1>6. ASSUME NEW s \in todo, RunStep(s) PROVE ToolsReadHolds'
  <2>1. CASE tool.pc # "write"
    BY <1>6, <2>1 DEF RunStep, ToolsReadHolds
  <2>2. CASE tool.pc = "write"
    <3>1. tool.on # LockOf(s.item) /\ UNCHANGED <<tool, stale>>
      BY <1>6, <2>2 DEF RunStep, LockFree
    <3>2. \A i \in Items : LockOf(i) = tool.on => TargetAfter[i] = Held(Target)[i]
      BY <1>6, <3>1, RunStepDoes
    <3> QED
      BY <1>b, <3>1, <3>2
  <2> QED
    BY <2>1, <2>2
<1>7. CASE WriteCNAMEs \/ CNAMEsUncertain
  <2>1. pc = "cname_write" /\ UNCHANGED <<tool, stale>>
    BY <1>7 DEF WriteCNAMEs, CNAMEsUncertain
  <2>2. CASE tool.pc # "write"
    BY <2>1, <2>2 DEF ToolsReadHolds
  <2>3. CASE tool.pc = "write"
    <3>1. tool.on # Of("cname")
      BY <2>1, <2>3 DEF Locked, SyncHolds
    <3>2. \A i \in Items : LockOf(i) = tool.on => i.cat # "cname"
      BY <3>1, OwnLock
    <3>3. \A i \in Items : LockOf(i) = tool.on => TargetAfter[i] = Held(Target)[i]
      BY <1>7, <3>2, SaveDoes
    <3> QED
      BY <1>b, <2>1, <3>3
  <2> QED
    BY <2>2, <2>3
<1>8. ASSUME NEW x \in Sides, Elsewhere(x) PROVE ToolsReadHolds'
  <2>1. UNCHANGED tool
    BY <1>8 DEF Elsewhere
  <2>2. CASE tool.pc # "write"
    BY <2>1, <2>2 DEF ToolsReadHolds
  <2>3. CASE tool.pc = "write"
    <3>1. tool.on \subseteq Borrowed
      BY <2>3 DEF Borrowed
    <3>2. stale' = stale \cup ({i \in Items : TargetAfter[i] # Held(Target)[i]} \cap Borrowed)
      BY <1>8, ElsewhereDoes
    <3>3. ASSUME NEW i \in Items \ stale', LockOf(i) = tool.on
          PROVE  i \notin stale /\ TargetAfter[i] = Held(Target)[i]
      <4>1. i \in tool.on
        BY <3>3, OwnLock
      <4> QED
        BY <3>1, <3>2, <4>1
    <3>4. (Held(Target))' = TargetAfter /\ (Held(tool.read[1]))' = Held(tool.read[1])
      BY <2>1 DEF Target, TargetAfter, Held, Has, GetLine, GetEntry, Lines
    <3> QED
      BY <1>0, <2>1, <2>3, <3>3, <3>4 DEF ToolsReadHolds
  <2> QED
    BY <2>2, <2>3
<1> QED
  BY <1>1, <1>2, <1>3, <1>4, <1>5, <1>6, <1>7, <1>8 DEF Next

LEMMA SyncsReadKept ==
  ASSUME Typed, SeenWell, PlanKept, Locked, ReadsHold, Next
  PROVE  SyncsReadHolds'
<1> USE DEF otherVars, callVars, applyVars, ftlVars
<1>0. SyncsReadHolds
  BY DEF ReadsHold, SyncsReadHolds
<1>a. ASSUME NEW h \in Shapes, NEW i \in Of("cname")
      PROVE  /\ i \in Items /\ (Has(h, i) <=> i \in Elements(Lines(h, "cname")))
             /\ Has(h, i) <=> Held(h)[i] # Missing
  <2>1. i \in Items /\ i.cat = "cname" /\ i.cat \in Arrays
    BY DEF Of, Arrays
  <2> QED
    BY <2>1, HeldIs DEF Has, GetLine
<1>b. hole'["target"] = Target'
  BY DEF Target
<1>c. CASE pc' # "cname_write"
  BY <1>c DEF SyncsReadHolds
<1>d. CASE pc' = pc /\ UNCHANGED <<hole, current, stale>>
  BY <1>0, <1>d DEF SyncsReadHolds, Target
<1>1. CASE Confirm \/ Snapshot \/ Finish \/ NoRestartSeen
             \/ (\E mode \in Modes, cats \in Askable, p \in BOOLEAN : Begin(mode, cats, p))
             \/ (\E c \in Categories, x \in Sides : ReadSide(c, x))
             \/ LockCNAMEs \/ Abandon \/ NothingToWrite \/ CNAMEsRefused \/ WriteCNAMEs
             \/ CNAMEsUncertain \/ Restarted \/ WaitFails \/ AskRestart \/ (\E s \in todo : RunStep(s))
  BY <1>1, <1>c DEF Confirm, Snapshot, Finish, NoRestartSeen, Begin, ReadSide, LockCNAMEs, Abandon,
                NothingToWrite, CNAMEsRefused, WriteCNAMEs, CNAMEsUncertain, Restarted, WaitFails,
                AskRestart, RunStep
<1>2. CASE ReadFails \/ Refuse \/ ShowDiff \/ Show \/ Decline \/ SnapshotFails \/ Answer
  BY <1>2, <1>c DEF ReadFails, Refuse, ShowDiff, Show, Decline, SnapshotFails, Answer, Return
<1>3. CASE EndContext \/ FtlRestarts \/ ToolFails \/ (\E l \in Locks : ToolLock(l))
  BY <1>3, <1>d DEF EndContext, FtlRestarts, ToolFails, ToolLock
<1>4. CASE ReadCNAMEs
  <2>1. CASE current' = Target.cnames
    <3>1. UNCHANGED hole
      BY <1>4 DEF ReadCNAMEs
    <3>2. Target' = Target /\ Target \in Shapes /\ Lines(Target, "cname") = Target.cnames
      BY <3>1, TargetTyped DEF Target, Lines
    <3> QED
      BY <1>a, <2>1, <3>2 DEF SyncsReadHolds
  <2>2. CASE pc' = "apply"
    BY <1>c, <2>2
  <2> QED
    BY <1>4, <2>1, <2>2 DEF ReadCNAMEs
<1>5. CASE ToolRead
  <2>1. UNCHANGED <<hole, pc, current>> /\ stale' = {i \in stale : LockOf(i) # tool.on} /\ tool.pc # "idle"
    BY <1>5 DEF ToolRead
  <2>2. pc = "cname_write" => tool.on # Of("cname")
    BY <2>1 DEF Locked, SyncHolds
  <2>3. \A i \in Of("cname") : LockOf(i) = Of("cname")
    BY OwnLock DEF Of
  <2>4. pc = "cname_write" => \A i \in Of("cname") \ stale' : i \in Of("cname") \ stale
    BY <2>1, <2>2, <2>3
  <2>5. Target' = Target
    BY <2>1 DEF Target
  <2> QED
    BY <1>0, <2>1, <2>4, <2>5 DEF SyncsReadHolds
<1>6. CASE ToolWrite
  <2>1. UNCHANGED <<pc, current, stale>>
    BY <1>6 DEF ToolWrite
  <2>2. CASE pc = "cname_write"
    <3>1. Lines(Target', "cname") = Lines(Target, "cname") /\ Target' \in Shapes /\ Target \in Shapes
      BY <1>6, <1>b, <2>2, ToolWriteDoes, TargetTyped DEF SyncHolds
    <3>2. \A i \in Of("cname") : Has(Target', i) <=> Has(Target, i)
      BY <1>a, <3>1
    <3> QED
      BY <1>0, <2>1, <2>2, <3>2 DEF SyncsReadHolds
  <2> QED
    BY <1>c, <2>1, <2>2
<1>7. ASSUME NEW x \in Sides, Elsewhere(x) PROVE SyncsReadHolds'
  <2>1. UNCHANGED <<pc, current>>
    BY <1>7 DEF Elsewhere
  <2>2. CASE pc = "cname_write"
    <3>1. Target' \in Shapes /\ Target \in Shapes /\ Held(Target') = TargetAfter
      BY <1>7, <1>b, ElsewhereDoes, TargetTyped DEF TargetAfter
    <3>2. Of("cname") \subseteq Borrowed
      BY <2>2 DEF Borrowed
    <3>3. \A i \in Of("cname") \ stale' : i \notin stale /\ TargetAfter[i] = Held(Target)[i]
      BY <1>7, <1>a, <3>1, <3>2, ElsewhereDoes
    <3>4. \A i \in Of("cname") \ stale' : Has(Target', i) <=> Has(Target, i)
      BY <1>a, <3>1, <3>3
    <3> QED
      BY <1>0, <2>1, <2>2, <3>3, <3>4 DEF SyncsReadHolds
  <2> QED
    BY <1>c, <2>1, <2>2
<1> QED
  BY <1>1, <1>2, <1>3, <1>4, <1>5, <1>6, <1>7 DEF Next

----------------------------------------------------------------------------
(* The plan *)

LEMMA RecordIs ==
  ASSUME Typed, NEW well \in BOOLEAN, Record(well)
  PROVE  /\ todo' = todo \ CnameSteps /\ CnameSteps' = {}
         /\ report'.done \cup report'.failed = report.done \cup report.failed \cup CnameSteps
         /\ report'.done = report.done \cup (IF well THEN CnameSteps ELSE {})
         /\ report.failed \subseteq report'.failed
         /\ report'.restarted = report.restarted /\ report'.error = report.error
<1>1. todo' = todo \ CnameSteps
  BY DEF Record
<1>2. CnameSteps' = {}
  BY <1>1 DEF CnameSteps
<1>3. CASE well
  <2>1. Tell(CnameSteps, {})
    BY <1>3 DEF Record
  <2> QED
    BY <1>1, <1>2, <1>3, <2>1, TellIs
<1>4. CASE ~well
  <2>1. Tell({}, CnameSteps)
    BY <1>4 DEF Record
  <2> QED
    BY <1>1, <1>2, <1>4, <2>1, TellIs
<1> QED
  BY <1>3, <1>4

LEMMA PlanStays ==
  ASSUME Typed, PlanKept, Next
  PROVE  PlanKept'
<1> USE DEF callVars, applyVars
<1>a. ASSUME UNCHANGED <<ask, seen>> PROVE Plan' = Plan /\ PruneWipes' = PruneWipes
  BY <1>a DEF Plan, PruneWipes, Steps, Step, Differing
<1>b. ASSUME UNCHANGED <<ask, seen, toRead, shown, todo>>, pc \notin Early, pc' \notin Early,
             report'.done = report.done, report'.failed = report.failed,
             pc' \in {"cname_read", "cname_write"} => CnameSteps # {}, pc' = "done" => todo = {}
      PROVE  PlanKept'
  <2>1. CnameSteps' = CnameSteps
    BY <1>b DEF CnameSteps
  <2> QED
    BY <1>a, <1>b, <2>1 DEF PlanKept, Early
<1>c. CASE UNCHANGED <<ask, seen, toRead, shown, todo, report, pc>>
  <2>1. CnameSteps' = CnameSteps
    BY <1>c DEF CnameSteps
  <2> QED
    BY <1>a, <1>c, <2>1 DEF PlanKept
<1>d. ASSUME NEW well \in BOOLEAN, Record(well), UNCHANGED <<ask, seen, toRead, shown>>,
             pc \in {"cname_read", "cname_write"}, pc' \in {"apply", "wait", "uncertain"}
      PROVE  PlanKept'
  <2>1. /\ todo' = todo \ CnameSteps /\ CnameSteps' = {} /\ CnameSteps \subseteq todo
        /\ report'.done \cup report'.failed = report.done \cup report.failed \cup CnameSteps
    BY <1>d, RecordIs DEF CnameSteps
  <2>2. todo \cup report.done \cup report.failed = Plan /\ pc \notin Early /\ pc' \notin Early
    BY <1>d DEF PlanKept, Early
  <2>3. todo' \cup report'.done \cup report'.failed = Plan
    BY <2>1, <2>2
  <2> QED
    BY <1>a, <1>d, <2>1, <2>2, <2>3 DEF PlanKept
<1>1. CASE FtlRestarts \/ EndContext \/ ToolRead \/ ToolWrite \/ ToolFails
             \/ (\E l \in Locks : ToolLock(l)) \/ (\E x \in Sides : Elsewhere(x))
  BY <1>1, <1>c DEF FtlRestarts, EndContext, ToolRead, ToolWrite, ToolFails, ToolLock, Elsewhere
<1>2. CASE ReadFails \/ Refuse \/ ShowDiff \/ Show \/ Decline \/ SnapshotFails \/ Answer
  <2>1. Return
    BY <1>2 DEF ReadFails, Refuse, ShowDiff, Show, Decline, SnapshotFails, Answer
  <2> QED
    BY <2>1 DEF Return, PlanKept, Early
<1>3. CASE \E mode \in Modes, cats \in Askable, p \in BOOLEAN : Begin(mode, cats, p)
  BY <1>3 DEF Begin, PlanKept, Early
<1>4. ASSUME NEW c \in Categories, NEW x \in Sides, ReadSide(c, x) PROVE PlanKept'
  BY <1>4 DEF ReadSide, PlanKept, Early
<1>5. CASE Confirm
  <2>1. Plan = shown.steps /\ (ask.prune => PruneWipes = {}) /\ pc = "decide"
    BY <1>5 DEF Confirm, Confirmed, Token, MayGoOn
  <2>2. /\ todo' = Plan /\ UNCHANGED <<ask, seen, toRead, shown, report>> /\ toRead = {}
        /\ report = NoReport /\ pc' \in {"snapshot", "apply"}
    BY <1>5, <2>1 DEF Confirm, PlanKept, Early
  <2>3. CnameSteps' = {s \in Plan : s.item.cat = "cname"}
    BY <2>2 DEF CnameSteps
  <2>4. todo' \cup report'.done \cup report'.failed = Plan
    BY <2>2 DEF NoReport
  <2> QED
    BY <1>a, <2>1, <2>2, <2>3, <2>4 DEF PlanKept, Early
<1>6. CASE Snapshot \/ NoRestartSeen \/ LockCNAMEs \/ Finish
  BY <1>6, <1>b DEF Snapshot, NoRestartSeen, LockCNAMEs, Finish, Early
<1>7. ASSUME NEW s \in todo, RunStep(s) PROVE PlanKept'
  <2>1. /\ todo' = todo \ {s} /\ s.item.cat # "cname" /\ pc = "apply"
        /\ UNCHANGED <<pc, ask, seen, toRead, shown>>
    BY <1>7 DEF RunStep
  <2>2. report'.done \cup report'.failed = report.done \cup report.failed \cup {s}
    <3>1. Tell({s}, {}) \/ Tell({}, {s})
      BY <1>7 DEF RunStep
    <3> QED
      BY <3>1, TellIs
  <2>3. CnameSteps' = CnameSteps
    BY <2>1 DEF CnameSteps
  <2>4. todo' \cup report'.done \cup report'.failed = todo \cup report.done \cup report.failed
    BY <2>1, <2>2
  <2> QED
    BY <1>a, <2>1, <2>3, <2>4 DEF PlanKept, Early
<1>8. CASE Abandon
  <2>1. /\ todo' = {} /\ pc = "apply" /\ UNCHANGED <<pc, ask, seen, toRead, shown>> /\ Tell({}, todo)
    BY <1>8 DEF Abandon
  <2>2. report'.done \cup report'.failed = report.done \cup report.failed \cup todo
    BY <2>1, TellIs
  <2>3. CnameSteps' = {}
    BY <2>1 DEF CnameSteps
  <2>4. todo' \cup report'.done \cup report'.failed = todo \cup report.done \cup report.failed
    BY <2>1, <2>2
  <2> QED
    BY <1>a, <2>1, <2>3, <2>4 DEF PlanKept, Early
<1>9. CASE ReadCNAMEs
  <2>1. CASE Record(FALSE) /\ pc' = "apply"
    BY <1>9, <1>d, <2>1 DEF ReadCNAMEs
  <2>2. CASE UNCHANGED <<todo, report>> /\ pc' = "cname_write"
    <3>1. CnameSteps # {}
      BY <1>9 DEF ReadCNAMEs, PlanKept
    <3> QED
      BY <1>9, <1>b, <2>2, <3>1 DEF ReadCNAMEs, Early
  <2> QED
    BY <1>9, <2>1, <2>2 DEF ReadCNAMEs
<1>10. CASE NothingToWrite \/ CNAMEsRefused \/ WriteCNAMEs \/ CNAMEsUncertain
  BY <1>10, <1>d DEF NothingToWrite, CNAMEsRefused, WriteCNAMEs, CNAMEsUncertain
<1>11. CASE Restarted \/ WaitFails \/ AskRestart
  <2>1. report'.done = report.done /\ report'.failed = report.failed
    BY <1>11, TargetTyped DEF Restarted, WaitFails, AskRestart, Reports
  <2> QED
    BY <1>11, <1>b, <2>1 DEF Restarted, WaitFails, AskRestart, Early
<1> QED
  BY <1>1, <1>2, <1>3, <1>4, <1>5, <1>6, <1>7, <1>8, <1>9, <1>10, <1>11 DEF Next

----------------------------------------------------------------------------
(* Restarts *)

LEMMA WaitingKept ==
  ASSUME Typed, PlanKept, Waiting, Next
  PROVE  Waiting'
<1> USE DEF callVars, applyVars, ftlVars, otherVars, SyncHolds
<1>0. pc \in Early => fresh /\ ~report.restarted
  BY DEF PlanKept, Waiting, NoReport, Early
<1>a. CnameSteps # {} /\ pc \in Places => ~report.restarted
  BY DEF Waiting
<1>b. ASSUME UNCHANGED <<report, fresh>>, CnameSteps' \subseteq CnameSteps \/ ~report.restarted,
             UNCHANGED restarted,
             pc' \in {"apply", "done", "snapshot", "read", "decide"},
             pc \notin {"wait", "uncertain", "restart"}
      PROVE  Waiting'
  BY <1>b DEF Waiting
<1>c. CASE UNCHANGED <<report, fresh, restarted, todo, pc>>
  <2>1. CnameSteps' = CnameSteps
    BY <1>c DEF CnameSteps
  <2> QED
    BY <1>c, <2>1 DEF Waiting
<1>1. CASE EndContext \/ ToolRead \/ ToolWrite \/ ToolFails
             \/ (\E l \in Locks : ToolLock(l)) \/ (\E x \in Sides : Elsewhere(x))
  BY <1>1, <1>c DEF EndContext, ToolRead, ToolWrite, ToolFails, ToolLock, Elsewhere
<1>2. CASE ReadFails \/ Refuse \/ ShowDiff \/ Show \/ Decline \/ SnapshotFails \/ Answer
  <2>1. Return
    BY <1>2 DEF ReadFails, Refuse, ShowDiff, Show, Decline, SnapshotFails, Answer
  <2> QED
    BY <2>1 DEF Return, Waiting, NoReport
<1>3. CASE \/ \E mode \in Modes, cats \in Askable, p \in BOOLEAN : Begin(mode, cats, p)
           \/ \E c \in Categories, x \in Sides : ReadSide(c, x)
           \/ Confirm
  <2>1. /\ UNCHANGED <<report, fresh, restarted>> /\ pc \in Early
        /\ pc' \in {"apply", "snapshot", "read", "decide"}
    <3>1. ASSUME NEW mode \in Modes, NEW cats \in Askable, NEW p \in BOOLEAN, Begin(mode, cats, p)
          PROVE  UNCHANGED <<report, fresh, restarted>> /\ pc = "idle" /\ pc' = "read"
      BY <3>1 DEF Begin
    <3>2. ASSUME NEW c \in Categories, NEW x \in Sides, ReadSide(c, x)
          PROVE  UNCHANGED <<report, fresh, restarted>> /\ pc = "read" /\ pc' \in {"read", "decide"}
      BY <3>2 DEF ReadSide
    <3>3. CASE Confirm
      BY <3>3 DEF Confirm, MayGoOn, Early
    <3> QED
      BY <1>3, <3>1, <3>2, <3>3 DEF Early
  <2> QED
    BY <1>0, <1>b, <2>1 DEF Early
<1>4. CASE Snapshot \/ Finish \/ \E s \in todo : RunStep(s)
  <2>1. CnameSteps' \subseteq CnameSteps /\ UNCHANGED <<fresh, restarted>>
    BY <1>4 DEF Snapshot, Finish, RunStep, CnameSteps
  <2>2. report'.restarted = report.restarted /\ report'.error = report.error
    BY <1>4, TellIs DEF Snapshot, Finish, RunStep
  <2>3. pc \in {"snapshot", "apply"} /\ pc' \in {"apply", "done"}
    BY <1>4 DEF Snapshot, Finish, RunStep
  <2> QED
    BY <2>1, <2>2, <2>3 DEF Waiting
<1>5. CASE Abandon
  <2>1. /\ todo' = {} /\ UNCHANGED <<pc, fresh, restarted>> /\ Tell({}, todo)
    BY <1>5 DEF Abandon
  <2>2. CnameSteps' = {}
    BY <2>1 DEF CnameSteps
  <2>3. report'.restarted = report.restarted /\ report'.error = report.error
    BY <2>1, TellIs
  <2> QED
    BY <2>1, <2>2, <2>3 DEF Waiting
<1>6. CASE LockCNAMEs
  <2>1. CnameSteps # {} /\ pc = "apply" /\ pc' = "cname_read" /\ UNCHANGED <<report, fresh, restarted, todo>>
    BY <1>6 DEF LockCNAMEs
  <2> QED
    BY <2>1 DEF Waiting
<1>7. CASE ReadCNAMEs \/ NothingToWrite \/ CNAMEsRefused \/ WriteCNAMEs \/ CNAMEsUncertain
  <2>1. /\ pc \in {"cname_read", "cname_write"} /\ ~report.restarted
        /\ fresh \/ report.error
    BY <1>7 DEF ReadCNAMEs, NothingToWrite, CNAMEsRefused, WriteCNAMEs, CNAMEsUncertain, Waiting
  <2>2. CASE UNCHANGED <<todo, report, fresh, restarted>> /\ pc' = "cname_write"
    BY <2>1, <2>2 DEF Waiting
  <2>3. ASSUME NEW well \in BOOLEAN, Record(well), pc' \in {"apply", "wait", "uncertain"},
               pc' = "apply" => fresh' = fresh, pc' # "apply" => restarted' = FALSE
        PROVE  Waiting'
    <3>1. CnameSteps' = {} /\ report'.restarted = report.restarted /\ report'.error = report.error
      BY <2>3, RecordIs
    <3> QED
      BY <2>1, <2>3, <3>1 DEF Waiting
  <2> QED
    BY <1>7, <2>2, <2>3 DEF ReadCNAMEs, NothingToWrite, CNAMEsRefused, WriteCNAMEs, CNAMEsUncertain
<1>8. CASE Restarted
  <2>1. /\ pc \in {"wait", "uncertain"} /\ restarted /\ pc' = "apply" /\ UNCHANGED <<todo, fresh, restarted>>
        /\ report'.restarted = TRUE
    BY <1>8, TargetTyped DEF Restarted, Reports
  <2>2. fresh /\ CnameSteps = {} /\ CnameSteps' = CnameSteps
    BY <2>1 DEF Waiting, CnameSteps
  <2> QED
    BY <2>1, <2>2 DEF Waiting
<1>9. CASE WaitFails \/ NoRestartSeen \/ AskRestart
  <2>1. /\ pc \in {"wait", "uncertain", "restart"} /\ UNCHANGED <<todo, fresh>>
        /\ \/ pc' \in {"wait", "restart"} /\ report' = report /\ (pc' = "wait" => restarted' = FALSE)
           \/ pc' = "apply" /\ report' = [report EXCEPT !.error = TRUE]
    BY <1>9 DEF WaitFails, NoRestartSeen, AskRestart
  <2>2. ~report.restarted /\ CnameSteps = {} /\ CnameSteps' = CnameSteps
    BY <2>1 DEF Waiting, CnameSteps
  <2>3. CASE pc' \in {"wait", "restart"} /\ report' = report /\ (pc' = "wait" => restarted' = FALSE)
    BY <2>1, <2>2, <2>3 DEF Waiting
  <2>4. CASE pc' = "apply" /\ report' = [report EXCEPT !.error = TRUE]
    <3>1. report'.error = TRUE /\ report'.restarted = report.restarted
      BY <2>4, TargetTyped DEF Reports
    <3> QED
      BY <2>2, <2>4, <3>1 DEF Waiting
  <2> QED
    BY <2>1, <2>3, <2>4
<1>10. CASE FtlRestarts
  <2>1. fresh' = TRUE /\ UNCHANGED <<pc, todo, report>>
    BY <1>10 DEF FtlRestarts
  <2>2. CnameSteps' = CnameSteps
    BY <2>1 DEF CnameSteps
  <2> QED
    BY <2>1, <2>2 DEF Waiting
<1> QED
  BY <1>1, <1>2, <1>3, <1>4, <1>5, <1>6, <1>7, <1>8, <1>9, <1>10 DEF Next

----------------------------------------------------------------------------
(* What nobody else has changed *)

LEMMA AsReadKept ==
  ASSUME Typed, SeenWell, PlanKept, AsRead, Locked, ReadsHold, Next
  PROVE  AsRead'
<1> USE DEF callVars, applyVars, ftlVars, otherVars
<1> DEFINE Concerns(i) == i.cat \in ask.cats /\ <<i.cat, "target">> \notin toRead
<1>0. Held(Target)' = TargetAfter
  BY DEF Target, TargetAfter, Held, Has, GetLine, GetEntry, Lines
<1>a. ASSUME UNCHANGED <<ask, seen, toRead>>, pc # "idle", dirty \subseteq dirty',
             report'.done = report.done, report.failed \subseteq report'.failed,
             \A i \in Items \ dirty' : TargetAfter[i] = Held(Target)[i]
      PROVE  AsRead'
  <2> SUFFICES ASSUME NEW i \in Items \ dirty', Concerns(i) PROVE LeftAlone(i)'
    BY <1>a DEF AsRead
  <2>1. i \in Items \ dirty /\ LeftAlone(i)
    BY <1>a DEF AsRead
  <2>2. TargetAfter[i] = Held(Target)[i]
    BY <1>a
  <2> QED
    BY <1>a, <1>0, <2>1, <2>2 DEF LeftAlone
<1>b. ASSUME UNCHANGED <<hole, ask, seen, toRead, dirty>>, pc = "idle" => pc' = "idle",
             report'.done = report.done, report.failed \subseteq report'.failed
      PROVE  AsRead'
  <2>1. TargetAfter = Held(Target)
    BY <1>b DEF TargetAfter, Target
  <2> QED
    BY <1>a, <1>b, <2>1 DEF AsRead
<1>1. CASE \E mode \in Modes, cats \in Askable, p \in BOOLEAN : Begin(mode, cats, p)
  <2>1. \A i \in Items : i.cat \in ask'.cats => <<i.cat, "target">> \in toRead'
    BY <1>1 DEF Begin, Sides
  <2> QED
    BY <2>1 DEF AsRead
<1>2. CASE ReadFails \/ Refuse \/ ShowDiff \/ Show \/ Decline \/ SnapshotFails \/ Answer
  <2>1. Return
    BY <1>2 DEF ReadFails, Refuse, ShowDiff, Show, Decline, SnapshotFails, Answer
  <2> QED
    BY <2>1 DEF Return, AsRead
<1>3. ASSUME NEW c \in Categories, NEW x \in Sides, ReadSide(c, x) PROVE AsRead'
  <2>1. /\ report = NoReport /\ UNCHANGED <<hole, ask, report>> /\ pc = "read"
        /\ toRead' = toRead \ {<<c, x>>}
        /\ dirty' = IF x = "target" THEN dirty \ Of(c) ELSE dirty
    BY <1>3 DEF ReadSide, PlanKept, Early
  <2>2. seen' = [seen EXCEPT ![x] =
                   [i \in Items |-> IF i.cat = c THEN Held(hole[x])[i] ELSE seen[x][i]]]
    BY <1>3 DEF ReadSide
  <2>3. DOMAIN seen = Sides /\ TargetAfter = Held(Target)
    BY <2>1 DEF Typed, TargetAfter, Target
  <2> SUFFICES ASSUME NEW i \in Items \ dirty', i.cat \in ask.cats, <<i.cat, "target">> \notin toRead'
               PROVE  LeftAlone(i)'
    BY <2>1 DEF AsRead
  <2>4. report'.done = {} /\ report'.failed = {}
    BY <2>1 DEF NoReport
  <2>5. CASE x = "target" /\ i.cat = c
    <3>1. seen'["target"][i] = Held(Target)[i]
      BY <2>2, <2>3, <2>5 DEF Target, Sides
    <3> QED
      BY <1>0, <2>3, <2>4, <3>1 DEF LeftAlone
  <2>6. CASE x # "target" \/ i.cat # c
    <3>1. i \notin dirty /\ <<i.cat, "target">> \notin toRead
      BY <2>1, <2>6 DEF Of
    <3>2. LeftAlone(i)
      BY <2>1, <3>1 DEF AsRead
    <3>3. Held(Target)[i] = seen["target"][i]
      BY <2>1, <3>2 DEF LeftAlone, NoReport
    <3>4. seen'["target"][i] = seen["target"][i]
      BY <2>2, <2>3, <2>6 DEF Sides
    <3> QED
      BY <1>0, <2>3, <2>4, <3>3, <3>4 DEF LeftAlone
  <2> QED
    BY <2>5, <2>6
<1>4. CASE EndContext \/ Snapshot \/ LockCNAMEs \/ NoRestartSeen \/ Finish \/ FtlRestarts
             \/ Confirm \/ ToolRead \/ ToolFails \/ (\E l \in Locks : ToolLock(l))
  <2>1. CASE EndContext \/ Snapshot \/ LockCNAMEs \/ NoRestartSeen \/ Finish \/ FtlRestarts
    BY <2>1, <1>b DEF EndContext, Snapshot, LockCNAMEs, NoRestartSeen, Finish, FtlRestarts
  <2>2. CASE Confirm
    BY <2>2, <1>b DEF Confirm, MayGoOn
  <2>3. CASE ToolRead \/ ToolFails \/ (\E l \in Locks : ToolLock(l))
    BY <2>3, <1>b DEF ToolRead, ToolFails, ToolLock
  <2> QED
    BY <1>4, <2>1, <2>2, <2>3
<1>5. CASE Restarted \/ WaitFails \/ AskRestart
  <2>1. report'.done = report.done /\ report'.failed = report.failed
    BY <1>5, TargetTyped DEF Restarted, WaitFails, AskRestart, Reports
  <2> QED
    BY <1>5, <1>b, <2>1 DEF Restarted, WaitFails, AskRestart
<1>6. CASE Abandon
  <2>1. report'.done = report.done /\ report.failed \subseteq report'.failed
    BY <1>6, TellIs DEF Abandon
  <2> QED
    BY <1>6, <1>b, <2>1 DEF Abandon
<1>7. CASE CNAMEsRefused \/ (ReadCNAMEs /\ Record(FALSE))
  <2>1. report'.done = report.done /\ report.failed \subseteq report'.failed
    BY <1>7, RecordIs DEF CNAMEsRefused
  <2> QED
    BY <1>7, <1>b, <2>1 DEF CNAMEsRefused, ReadCNAMEs
<1>8. CASE ReadCNAMEs /\ UNCHANGED <<todo, report>>
  BY <1>8, <1>b DEF ReadCNAMEs
<1>9. CASE ToolWrite
  <2>1. UNCHANGED <<pc, ask, seen, toRead, report>>
    BY <1>9 DEF ToolWrite
  <2>2. CASE pc = "idle"
    BY <2>1, <2>2 DEF AsRead
  <2>3. CASE pc # "idle"
    <3>1. dirty \subseteq dirty' /\ \A i \in Items \ dirty' : TargetAfter[i] = Held(Target)[i]
      BY <1>9, <2>3, ToolWriteDoes
    <3> QED
      BY <1>a, <2>1, <2>3, <3>1
  <2> QED
    BY <2>2, <2>3
<1>10. ASSUME NEW x \in Sides, Elsewhere(x) PROVE AsRead'
  <2>1. UNCHANGED <<pc, ask, seen, toRead, report>>
    BY <1>10 DEF Elsewhere
  <2>2. CASE pc = "idle"
    BY <2>1, <2>2 DEF AsRead
  <2>3. CASE pc # "idle"
    <3>1. dirty \subseteq dirty' /\ \A i \in Items \ dirty' : TargetAfter[i] = Held(Target)[i]
      BY <1>10, <2>3, ElsewhereDoes
    <3> QED
      BY <1>a, <2>1, <2>3, <3>1
  <2> QED
    BY <2>2, <2>3
<1>11. ASSUME NEW s \in todo, RunStep(s) PROVE AsRead'
  <2>1. UNCHANGED <<pc, ask, seen, toRead, dirty>> /\ pc = "apply"
    BY <1>11 DEF RunStep
  <2>2. /\ s \in Plan /\ s.item \in Items
        /\ \A i \in Items : i # s.item => TargetAfter[i] = Held(Target)[i]
        /\ TargetAfter[s.item] \in {s.to, Held(Target)[s.item]}
        /\ \/ /\ report'.done = report.done \cup {s} /\ report'.failed = report.failed
              /\ TargetAfter[s.item] = s.to
           \/ report'.done = report.done /\ report'.failed = report.failed \cup {s}
    BY <1>11, RunStepDoes
  <2> SUFFICES ASSUME NEW i \in Items \ dirty, Concerns(i) PROVE LeftAlone(i)'
    BY <2>1 DEF AsRead
  <2>3. LeftAlone(i)
    BY <2>1 DEF AsRead
  <2>4. CASE i # s.item
    <3>1. TargetAfter[i] = Held(Target)[i]
      BY <2>2, <2>4
    <3>2. \A t : t.item = i => /\ t \in report'.done <=> t \in report.done
                               /\ t \in report'.failed <=> t \in report.failed
      BY <2>2, <2>4
    <3> QED
      BY <1>0, <2>1, <2>3, <3>1, <3>2 DEF LeftAlone
  <2>5. CASE i = s.item
    <3>1. s \in report'.done \cup report'.failed
      BY <2>2
    <3>2. ASSUME NEW t \in report'.done, t.item = i PROVE t = s
      <4>1. t \in Plan
        BY <2>1, <2>2 DEF PlanKept, Early
      <4> QED
        BY <2>2, <2>5, <3>2, <4>1, OneStepEach
    <3>3. s \in report'.done => TargetAfter[i] = s.to
      BY <2>2, <2>3, <2>5 DEF LeftAlone
    <3> QED
      BY <1>0, <2>5, <3>1, <3>2, <3>3 DEF LeftAlone
  <2> QED
    BY <2>4, <2>5
<1>12. ASSUME NEW well \in BOOLEAN, Record(well), pc = "cname_write", pc' # "idle",
              UNCHANGED <<ask, seen, toRead, dirty>>,
              \A i \in Items : i.cat # "cname" => TargetAfter[i] = Held(Target)[i],
              \/ ~well /\ UNCHANGED hole
              \/ /\ \A s \in CnameSteps : TargetAfter[s.item] = s.to \/ s.item \in dirty
                 /\ \A i \in Of("cname") \ stale :
                      (\A s \in CnameSteps : s.item # i) => TargetAfter[i] = Held(Target)[i]
       PROVE  AsRead'
  <2>1. /\ CnameSteps \subseteq Plan /\ CnameSteps = {s \in Plan : s.item.cat = "cname"}
        /\ report.done \subseteq Plan /\ report.failed \subseteq Plan
    BY <1>12 DEF PlanKept, Early, CnameSteps
  <2>2. /\ report'.done = report.done \cup (IF well THEN CnameSteps ELSE {})
        /\ report.failed \subseteq report'.failed
        /\ report'.done \cup report'.failed = report.done \cup report.failed \cup CnameSteps
    BY <1>12, RecordIs
  <2>3. CASE ~well /\ UNCHANGED hole
    BY <1>12, <1>b, <2>2, <2>3
  <2>4. CASE /\ \A s \in CnameSteps : TargetAfter[s.item] = s.to \/ s.item \in dirty
             /\ \A i \in Of("cname") \ stale :
                  (\A s \in CnameSteps : s.item # i) => TargetAfter[i] = Held(Target)[i]
    <3> SUFFICES ASSUME NEW i \in Items \ dirty, Concerns(i) PROVE LeftAlone(i)'
      BY <1>12 DEF AsRead
    <3>1. LeftAlone(i)
      BY <1>12 DEF AsRead
    <3>2. i \in Of("cname") => i \notin stale
      BY <1>12 DEF Locked
    <3>3. CASE \A s \in CnameSteps : s.item # i
      <4>1. TargetAfter[i] = Held(Target)[i]
        BY <1>12, <2>4, <3>2, <3>3 DEF Of
      <4>2. /\ \A s \in report'.done : s.item = i => s \in report.done
            /\ \A s \in report'.done \cup report'.failed : s.item = i => s \in report.done \cup report.failed
            /\ \A s \in report.done \cup report.failed : s \in report'.done \cup report'.failed
        BY <2>2, <3>3
      <4> QED
        BY <1>0, <1>12, <3>1, <4>1, <4>2 DEF LeftAlone
    <3>4. ASSUME NEW s \in CnameSteps, s.item = i PROVE LeftAlone(i)'
      <4>1. TargetAfter[i] = s.to /\ s \in report'.done \cup report'.failed
        BY <2>2, <2>4, <3>4
      <4>2. ASSUME NEW t \in report'.done, t.item = i PROVE t = s
        <5>1. t \in Plan /\ s \in Plan
          BY <2>1, <2>2
        <5> QED
          BY <3>4, <4>2, <5>1, OneStepEach
      <4> QED
        BY <1>0, <3>4, <4>1, <4>2 DEF LeftAlone
    <3> QED
      BY <3>3, <3>4
  <2> QED
    BY <1>12, <2>3, <2>4
<1>13. CASE WriteCNAMEs \/ CNAMEsUncertain
  <2>1. \E well \in BOOLEAN : Record(well) /\ (CNAMEsUncertain => ~well)
    BY <1>13 DEF WriteCNAMEs, CNAMEsUncertain
  <2>2. PICK well \in BOOLEAN : Record(well) /\ (CNAMEsUncertain => ~well)
    BY <2>1
  <2>3. pc = "cname_write" /\ pc' # "idle" /\ UNCHANGED <<ask, seen, toRead, dirty>>
    BY <1>13 DEF WriteCNAMEs, CNAMEsUncertain
  <2> QED
    BY <1>12, <1>13, <2>2, <2>3, SaveDoes
<1>14. CASE NothingToWrite
  <2>1. /\ Record(TRUE) /\ pc = "cname_write" /\ pc' # "idle" /\ current \in NextRecords
        /\ UNCHANGED <<hole, ask, seen, toRead, dirty>>
    BY <1>14 DEF NothingToWrite
  <2>2. TargetAfter = Held(Target)
    BY <2>1 DEF TargetAfter, Target
  <2>3. ASSUME NEW s \in CnameSteps, s.item \notin dirty PROVE TargetAfter[s.item] = s.to
    <3>1. s \in Plan /\ s.item.cat = "cname"
      BY <2>1 DEF CnameSteps, PlanKept, Early
    <3>2. s.item \in Items /\ s.item \in Of("cname") /\ s.item.cat \in Arrays
      BY <3>1, PlanIs DEF Of, Arrays
    <3>3. s.to = IF s.item \in Elements(current) THEN Here ELSE Missing
      BY <2>1, NextRecordsAre
    <3>4. s.item \notin stale
      BY <2>1, <2>3, <3>2 DEF Locked
    <3>5. Held(Target)[s.item] # Missing <=> s.item \in Elements(current)
      BY <2>1, <3>2, <3>4, HeldIs, TargetTyped DEF ReadsHold
    <3>6. Held(Target)[s.item] \in {Here, Missing}
      BY <3>2, HeldIs, TargetTyped
    <3> QED
      BY <2>2, <3>3, <3>5, <3>6
  <2> QED
    BY <1>12, <2>1, <2>2, <2>3
<1> QED
  BY <1>1, <1>2, <1>3, <1>4, <1>5, <1>6, <1>7, <1>8, <1>9, <1>10, <1>11, <1>13, <1>14
     DEF Next, ReadCNAMEs

----------------------------------------------------------------------------
(* The invariant *)

LEMMA Stutters == ASSUME IInv, UNCHANGED vars PROVE IInv'
<1>1. UNCHANGED <<hole, pc, ask, seen, toRead, shown, ended, todo, report, current, fresh, due,
                  restarted, tool, dirty, stale, edits>>
  BY DEF vars, callVars, applyVars, ftlVars, otherVars
<1>2. Typed' /\ SeenWell' /\ Locked'
  BY <1>1 DEF IInv, Typed, SeenWell, Plausible, Locked, SyncHolds
<1>3. Plan' = Plan /\ PruneWipes' = PruneWipes /\ CnameSteps' = CnameSteps /\ Held(Target)' = Held(Target)
  BY <1>1 DEF Plan, PruneWipes, Steps, Step, Differing, CnameSteps, Held, Target, Has, GetLine,
              GetEntry, Lines
<1>4. PlanKept' /\ Waiting'
  BY <1>1, <1>3 DEF IInv, PlanKept, Waiting, SyncHolds
<1>5. AsRead'
  BY <1>1, <1>3 DEF IInv, AsRead, LeftAlone
<1>6. ReadsHold'
  <2>1. Target' = Target
    BY <1>1 DEF Target
  <2> QED
    BY <1>1, <1>3, <2>1 DEF IInv, ReadsHold
<1> QED
  BY <1>2, <1>4, <1>5, <1>6 DEF IInv

LEMMA Inductive == IInv /\ [Next]_vars => IInv'
<1>1. ASSUME IInv, Next PROVE IInv'
  <2>1. Typed' /\ SeenWell' /\ PlanKept' /\ AsRead' /\ Locked' /\ Waiting'
    BY <1>1, TypedKept, SeenWellKept, PlanStays, AsReadKept, LockedKept, WaitingKept DEF IInv
  <2>2. ReadsHold'
    BY <1>1, ToolsReadKept, SyncsReadKept DEF IInv, ReadsHold, ToolsReadHolds, SyncsReadHolds
  <2> QED
    BY <2>1, <2>2 DEF IInv
<1> QED
  BY <1>1, Stutters

(* At every moment of a sync, what is left to do and what is done is the plan *)
(* its caller saw, and what nobody else has changed is as it was read or as a  *)
(* step left it (sync.go, ApplyPlan).                                         *)
THEOREM Invariance == Spec => []IInv
  BY First, Inductive, PTL DEF Spec

(* Among the rest, neither Pi-hole's arrays ever list a record twice.         *)
THEOREM TypeCorrect == Spec => []TypeOK
<1>1. Shapes \subseteq Holes
  <2>1. ASSUME NEW c \in Categories, NEW s \in Listing(c)
        PROVE  s \in UNION {Arrangements(S) : S \in SUBSET Of(c)}
    <3>1. s \in Arrangements(Elements(s)) /\ Elements(s) \subseteq Of(c)
      BY ListingIs, ElementsOf DEF Listing
    <3> QED
      BY <3>1
  <2> SUFFICES ASSUME NEW h \in Shapes PROVE h \in Holes
    OBVIOUS
  <2>2. h.hosts \in Listing("local_dns") /\ h.cnames \in Listing("cname") /\ Takes("cname", h.cnames)
    BY DEF Shapes
  <2>3. /\ h.hosts \in UNION {Arrangements(S) : S \in SUBSET Of("local_dns")}
        /\ h.cnames \in UNION {Arrangements(S) : S \in SUBSET Of("cname")}
    BY <2>1, <2>2 DEF Categories
  <2>4. /\ h = [table |-> h.table, hosts |-> h.hosts, cnames |-> h.cnames]
        /\ h.table \in [{i \in Items : i.cat \in Tables} -> Values \cup {Missing}]
    BY DEF Shapes, TableItems
  <2> QED
    BY <2>2, <2>3, <2>4 DEF Holes
<1>2. IInv => TypeOK
  <2> SUFFICES ASSUME IInv PROVE TypeOK
    OBVIOUS
  <2>1. hole \in [Sides -> Holes]
    BY <1>1 DEF IInv, Typed
  <2>2. /\ shown.prune \in BOOLEAN /\ shown.steps \subseteq StepSet
        /\ report.done \cup report.failed \subseteq StepSet
        /\ report.restarted \in BOOLEAN /\ report.error \in BOOLEAN
    BY DEF IInv, Typed, Reports
  <2>3. tool.pc \in {"idle", "read", "write"} /\ <<fresh, due, restarted>> \in BOOLEAN \X BOOLEAN \X BOOLEAN
    BY DEF IInv, Typed, Tools
  <2> QED
    BY <2>1, <2>2, <2>3 DEF IInv, Typed, TypeOK, Asks
<1> QED
  BY <1>2, Invariance, PTL

(* When every step is reported applied, the target is as the source was read, *)
(* wherever nobody else has changed it (tools/sync.go, in_sync).              *)
THEOREM SyncTruthful == Spec => []InSyncTruthful
<1>1. IInv => InSyncTruthful
  <2> SUFFICES ASSUME IInv, pc = "done", report.failed = {}, NEW i \in Items \ dirty, i.cat \in ask.cats
               PROVE  Held(Target)[i] =
                        IF seen["source"][i] = Missing /\ ~ask.prune THEN seen["target"][i]
                        ELSE seen["source"][i]
    BY DEF InSyncTruthful
  <2>1. Typed /\ SeenWell /\ report.done = Plan /\ LeftAlone(i)
    BY DEF IInv, PlanKept, AsRead, Early
  <2>2. ASSUME NEW s \in Plan, s.item = i
        PROVE  Held(Target)[i] = seen["source"][i] /\ (seen["source"][i] = Missing => ask.prune)
    <3>1. Held(Target)[i] = s.to
      BY <2>1, <2>2 DEF LeftAlone
    <3> QED
      BY <2>1, <2>2, <3>1, PlanIs DEF StepSet
  <2>3. CASE \A s \in Plan : s.item # i
    <3>1. Held(Target)[i] = seen["target"][i]
      BY <2>1, <2>3 DEF LeftAlone
    <3>2. seen["source"][i] = seen["target"][i] \/ (seen["source"][i] = Missing /\ ~ask.prune)
      BY <2>1, <2>3, OneStepEach
    <3> QED
      BY <3>1, <3>2
  <2> QED
    BY <2>2, <2>3
<1> QED
  BY <1>1, Invariance, PTL

(* What a tool or the sync has read to write it back is still so when it is   *)
(* written: no sync writes in between (sync.go, runLocked).                   *)
THEOREM ReadsKept == Spec => []ReadsHold
<1>1. IInv => ReadsHold
  BY DEF IInv
<1> QED
  BY <1>1, Invariance, PTL

(* Records a sync saved are served when it ends, or it says that they may not *)
(* be (sync.go, applyCNAMEs and restartAfterSync).                            *)
THEOREM RestartsTold == Spec => []ServedOrSaid
<1>1. IInv => ServedOrSaid
  BY DEF IInv, Waiting, ServedOrSaid
<1> QED
  BY <1>1, Invariance, PTL

----------------------------------------------------------------------------
(* What the sync writes *)

(* A write of the sync is a step's, or that of the CNAME records. *)
LEMMA SyncWritesAre ==
  ASSUME IInv, Next, SyncWrites
  PROVE  (\E s \in todo : RunStep(s)) \/ WriteCNAMEs \/ CNAMEsUncertain
<1>1. ~ToolWrite
  BY DEF ToolWrite, SyncWrites, NoTool
<1>2. ASSUME NEW x \in Sides, Elsewhere(x) PROVE FALSE
  <2>1. edits \in Int /\ edits' = edits + 1 /\ edits' = edits
    BY <1>2, SyncAssumption DEF Elsewhere, SyncWrites, IInv, Typed
  <2> QED
    BY <2>1
<1> QED
  BY <1>1, <1>2, HoleSteps DEF SyncWrites

(* It changes an item, but for those overtaken, by a step of the plan. *)
LEMMA WritesPlanned ==
  ASSUME IInv, Next, SyncWrites, NEW i \in Items \ Overtaken, TargetAfter[i] # Held(Target)[i]
  PROVE  \E s \in Plan : s.item = i /\ s.to = TargetAfter[i]
<1>0. Typed /\ SeenWell /\ PlanKept /\ ReadsHold
  BY DEF IInv
<1>1. ASSUME NEW s \in todo, RunStep(s) PROVE \E t \in Plan : t.item = i /\ t.to = TargetAfter[i]
  BY <1>0, <1>1, RunStepDoes
<1>2. CASE WriteCNAMEs \/ CNAMEsUncertain
  <2>1. i \in Of("cname") \ stale
    BY <1>0, <1>2, SaveDoes DEF Of, Overtaken
  <2>2. hole' # hole
    BY DEF SyncWrites
  <2>3. PICK s \in CnameSteps : s.item = i
    BY <1>0, <1>2, <2>1, <2>2, SaveDoes
  <2>4. s.to = TargetAfter[i]
    BY <1>0, <1>2, <2>2, <2>3, SaveDoes
  <2>5. s \in Plan
    BY <1>0, <1>2 DEF CnameSteps, PlanKept, WriteCNAMEs, CNAMEsUncertain, Early
  <2> QED
    BY <2>3, <2>4, <2>5
<1> QED
  BY <1>1, <1>2, SyncWritesAre

(* The plan was shown, and wipes nothing. *)
LEMMA PlanShown ==
  ASSUME IInv, Next, SyncWrites
  PROVE  Plan = shown.steps /\ (ask.prune => PruneWipes = {})
<1>1. pc \in {"apply", "cname_write"}
  BY SyncWritesAre DEF RunStep, WriteCNAMEs, CNAMEsUncertain
<1> QED
  BY <1>1 DEF IInv, PlanKept, Early

(* A sync changes the target only by steps its caller saw, to the values shown *)
(* (sync.go, Token).                                                          *)
THEOREM ConfirmedOnly == Spec => OnlyConfirmed
<1> DEFINE Shown == SyncWrites =>
      \A i \in Items \ Overtaken : TargetAfter[i] # Held(Target)[i] =>
        \E s \in shown.steps : s.item = i /\ s.to = TargetAfter[i]
<1>1. IInv /\ [Next]_vars => [Shown]_vars
  <2> SUFFICES ASSUME IInv, Next, SyncWrites, NEW i \in Items \ Overtaken,
                      TargetAfter[i] # Held(Target)[i]
               PROVE  \E s \in shown.steps : s.item = i /\ s.to = TargetAfter[i]
    OBVIOUS
  <2> QED
    BY PlanShown, WritesPlanned
<1> QED
  BY <1>1, Invariance, PTL DEF Spec, OnlyConfirmed

(* A sync deletes nothing of a category in which the source had nothing       *)
(* (sync.go, PruneWipes).                                                     *)
THEOREM NothingEmptied == Spec => NeverEmptied
<1> DEFINE Offered == SyncWrites =>
      \A i \in Items \ Overtaken :
        TargetAfter[i] = Missing /\ Held(Target)[i] # Missing =>
          \E j \in Of(i.cat) : seen["source"][j] # Missing
<1>1. IInv /\ [Next]_vars => [Offered]_vars
  <2> SUFFICES ASSUME IInv, Next, SyncWrites, NEW i \in Items \ Overtaken,
                      TargetAfter[i] = Missing, Held(Target)[i] # Missing
               PROVE  \E j \in Of(i.cat) : seen["source"][j] # Missing
    OBVIOUS
  <2>1. PICK s \in Plan : s.item = i /\ s.to = Missing
    BY WritesPlanned
  <2>2. i \in Differing("delete") /\ ask.prune /\ i.cat \in ask.cats
    BY <2>1, PlanIs DEF IInv, StepSet
  <2>3. i.cat \notin PruneWipes
    BY <2>2, PlanShown
  <2> QED
    BY <2>2, <2>3 DEF PruneWipes
<1> QED
  BY <1>1, Invariance, PTL DEF Spec, NeverEmptied

(* No write of a sync takes an alias from the target that both Pi-holes have  *)
(* (sync.go, applyCNAMEs).                                                    *)
THEOREM AliasesKept == Spec => AliasesStay
<1> DEFINE Stay == SyncWrites =>
      \A a \in AliasesIn(seen["source"], Items) :
        a \in AliasesIn(Held(Target), Items \ Overtaken) => a \in AliasesIn(TargetAfter, Items)
<1>1. IInv /\ [Next]_vars => [Stay]_vars
  <2> SUFFICES ASSUME IInv, Next, SyncWrites, NEW a \in AliasesIn(seen["source"], Items),
                      a \in AliasesIn(Held(Target), Items \ Overtaken)
               PROVE  a \in AliasesIn(TargetAfter, Items)
    OBVIOUS
  <2>1. PICK j \in Items : j.cat = "cname" /\ seen["source"][j] # Missing /\ a = j.name.alias
    BY DEF AliasesIn
  <2>2. PICK i \in Items \ Overtaken : i.cat = "cname" /\ Held(Target)[i] # Missing /\ a = i.name.alias
    BY DEF AliasesIn
  <2>3. Typed /\ SeenWell /\ PlanKept /\ ReadsHold /\ hole' # hole
    BY DEF IInv, SyncWrites
  <2>4. ASSUME NEW k \in Items, k.cat = "cname", TargetAfter[k] # Missing, a = k.name.alias
        PROVE  a \in AliasesIn(TargetAfter, Items)
    BY <2>4 DEF AliasesIn
  <2>5. ASSUME NEW s \in todo, RunStep(s) PROVE TargetAfter[i] = Held(Target)[i]
    BY <2>2, <2>3, <2>5, RunStepDoes
  <2>6. CASE WriteCNAMEs \/ CNAMEsUncertain
    <3>1. CASE TargetAfter[i] = Held(Target)[i]
      BY <2>2, <2>4, <3>1
    <3>2. CASE TargetAfter[i] # Held(Target)[i]
      <4>1. PICK s \in Plan : s.item = i /\ s.to = TargetAfter[i]
        BY <3>2, WritesPlanned
      <4>2. CASE s.action # "delete"
        <5>1. TargetAfter[i] # Missing
          BY <2>3, <4>1, <4>2, PlanIs DEF StepSet
        <5> QED
          BY <2>2, <2>4, <5>1
      <4>3. CASE s.action = "delete"
        <5>1. /\ seen["source"][i] = Missing /\ seen["target"][i] # Missing
              /\ "cname" \in ask.cats /\ i # j
          BY <2>1, <2>2, <2>3, <4>1, <4>3, PlanIs
        <5>2. seen["target"][j] = Missing
          BY <2>1, <2>2, <2>3, <5>1 DEF SeenWell, Plausible, Of, Sides
        <5>3. PICK t \in Plan : t.item = j
          BY <2>1, <2>3, <5>1, <5>2, OneStepEach
        <5>4. t.to # Missing
          BY <2>1, <2>3, <5>3, PlanIs
        <5>5. pc = "cname_write" /\ CnameSteps # {}
          BY <2>3, <2>6 DEF WriteCNAMEs, CNAMEsUncertain, PlanKept
        <5>6. t \in CnameSteps
          BY <2>1, <2>3, <5>3, <5>5 DEF PlanKept, Early
        <5>7. TargetAfter[j] = t.to
          BY <2>3, <2>6, <5>3, <5>6, SaveDoes
        <5> QED
          BY <2>1, <2>4, <5>4, <5>7
      <4> QED
        BY <4>2, <4>3
    <3> QED
      BY <3>1, <3>2
  <2> QED
    BY <2>2, <2>4, <2>5, <2>6, SyncWritesAre
<1> QED
  BY <1>1, Invariance, PTL DEF Spec, AliasesStay
=============================================================================
