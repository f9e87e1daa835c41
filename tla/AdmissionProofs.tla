--------------------------- MODULE AdmissionProofs ---------------------------
(***************************************************************************)
(* No client spends more than its budget or that of another, none is        *)
(* complained about too often, none is forgotten but a stranger, and no     *)
(* table outgrows its bound, for any rate and any number of addresses,      *)
(* sessions and requests.  What it rests on is that a client spends only    *)
(* when it is seen, so that what it had spent when it was last seen was due *)
(* then already, and that two entries never have one bucket, though a       *)
(* request may hold that of a dropped one.                                  *)
(***************************************************************************)
EXTENDS Admission, FiniteSetTheorems, SequenceTheorems, TLAPS

(* The functions from a part of S to T. *)
Partial(S, T) == UNION {[D -> T] : D \in SUBSET S}

Buckets  == [limiter : Ids, lastSeen : Int]
Entries  == [limiter : Ids, lastSeen : Int, sessions : Partial(Sessions, Buckets)]
Refusals == [units : 0..Factor * FailBurst, lastSeen : Int, lastWarn : Int]

Calls ==
  [pc : {"gone", "penalise", "lookup", "ceiling", "share"}, key : Keys, owner : Keys,
   token : BOOLEAN, sid : Sessions \cup {NoSession}, ceiling : Ids \cup {NoBucket},
   share : Ids \cup {NoBucket}]

Typed ==
  /\ limited \in BOOLEAN /\ now \in Nat
  /\ req \in [Requests -> Calls]
  /\ table \in Partial(Keys, Entries) /\ failures \in Partial(Keys, Refusals)
  /\ ceiling \in [Ids -> 0..Factor * Burst] /\ share \in [Ids -> 0..Burst]
  /\ passed \in [Keys -> Nat] /\ shared \in [Keys -> [Sessions -> Nat]]
  /\ warned \in [Keys -> Int] /\ displaced \subseteq Keys

(* No table outgrows its bound. *)
Bounded(tab, max) == IsFiniteSet(DOMAIN tab) /\ Cardinality(DOMAIN tab) <= max

SmallTables ==
  /\ Bounded(table, MaxTracked) /\ Bounded(failures, MaxTracked)
  /\ \A k \in DOMAIN table : Bounded(table[k].sessions, MaxSessions)

(* An address is seen whenever one of its sessions is. *)
SeenInOrder ==
  \A k \in DOMAIN table :
    /\ table[k].lastSeen <= now
    /\ \A s \in DOMAIN table[k].sessions : table[k].sessions[s].lastSeen <= table[k].lastSeen

(* Each address has its bucket, and so has each session. *)
OwnCeilings ==
  \A j, k \in DOMAIN table : table[j].limiter = table[k].limiter => j = k

OwnShares ==
  \A j, k \in DOMAIN table :
    \A s \in DOMAIN table[j].sessions, u \in DOMAIN table[k].sessions :
      table[j].sessions[s].limiter = table[k].sessions[u].limiter => j = k /\ s = u

(* What a request is to be charged to is that of its address and its session, *)
(* seen in this very moment, or nobody's, its address having been dropped.    *)
HoldsCeiling(r) ==
  LET k == req[r].key
      i == req[r].ceiling IN
  \/ k \in DOMAIN table /\ table[k].limiter = i /\ table[k].lastSeen = now
  \/ k \in displaced /\ \A j \in DOMAIN table : table[j].limiter # i

HoldsShare(r) ==
  LET k == req[r].key
      s == req[r].sid
      i == req[r].share IN
  \/ /\ k \in DOMAIN table /\ s \in DOMAIN table[k].sessions
     /\ table[k].sessions[s].limiter = i /\ table[k].sessions[s].lastSeen = now
  \/ k \in displaced /\ \A j \in DOMAIN table : \A u \in DOMAIN table[j].sessions :
                          table[j].sessions[u].limiter # i

Charging(r) ==
  /\ req[r].pc \in {"lookup", "ceiling", "share"} => req[r].token
  /\ req[r].pc = "ceiling" => req[r].ceiling \in Ids /\ HoldsCeiling(r)
  /\ req[r].pc \in {"ceiling", "share"} /\ req[r].share # NoBucket =>
       req[r].share \in Ids /\ req[r].sid \in Sessions /\ HoldsShare(r)
  /\ req[r].pc = "share" => req[r].share # NoBucket

InFlight == \A r \in Requests : Charging(r)

(* What an address has, and what each of its sessions has, and had.           *)
CeilingOf(k)  == IF k \in DOMAIN table THEN ceiling[table[k].limiter] ELSE Factor * Burst
ShareOf(k, s) ==
  IF k \in DOMAIN table /\ s \in DOMAIN table[k].sessions
  THEN share[table[k].sessions[s].limiter] ELSE Burst

(* What is due by a time, Turnover times over: a burst, and what every        *)
(* Turnover ticks add to it.                                                 *)
Due(burst, renewed, at) == Turnover * burst + renewed * at

Budgets ==
  \A k \in Keys \ displaced :
    /\ Turnover * (passed[k] * Cost + CeilingOf(k)) <= Due(Factor * Burst, Factor * Renewed, now)
    /\ \A s \in Sessions :
         Turnover * (shared[k][s] * Cost + ShareOf(k, s)) <= Due(Burst, Renewed, now)

(* What an address was let through was due when it was last seen: for want of *)
(* more, a bucket that is dropped for being idle may be made anew and full.   *)
SpentWhenSeen ==
  \A k \in DOMAIN table \ displaced :
    /\ Turnover * (passed[k] * Cost) <= Due(Factor * Burst, Factor * Renewed, table[k].lastSeen)
    /\ \A s \in DOMAIN table[k].sessions :
         Turnover * (shared[k][s] * Cost) <= Due(Burst, Renewed, table[k].sessions[s].lastSeen)

(* The limiter of refused requests remembers its last complaint as long as it *)
(* matters.                                                                  *)
Complaints ==
  /\ \A k \in DOMAIN failures : failures[k].lastWarn <= failures[k].lastSeen /\ failures[k].lastSeen <= now
  /\ \A k \in Keys \ displaced :
       \/ now - warned[k] > WarnGap
       \/ k \in DOMAIN failures /\ failures[k].lastWarn = warned[k]

MainInv == SeenInOrder /\ OwnCeilings /\ OwnShares /\ InFlight

IInv ==
  /\ Typed /\ SmallTables /\ ChargedToOwner /\ MainInv /\ SpentWhenSeen
  /\ Budgets /\ BudgetsKept /\ Complaints

----------------------------------------------------------------------------
(* Arithmetic *)

LEMMA Numbers ==
  /\ Rate \in Nat /\ Burst \in Nat /\ Cost \in Nat /\ Factor \in Nat /\ FailRate \in Nat
  /\ FailBurst \in Nat /\ MaxTracked \in Nat /\ MaxSessions \in Nat /\ 1 <= MaxTracked
  /\ IdleTtl \in Nat /\ WarnGap \in Nat /\ WarnGap <= IdleTtl
  /\ NoBucket = 0 /\ NoBucket \notin Ids /\ NoSession \notin Sessions
  BY AdmissionAssumption DEF NoBucket

LEMMA ProductType == \A m, n \in Nat : m * n \in Nat
  OBVIOUS

LEMMA Monotone ==
  ASSUME NEW n \in Nat, NEW x \in Int, NEW y \in Int, x <= y
  PROVE  n * x <= n * y
<1>1. y - x \in Nat
  OBVIOUS
<1>2. n * (y - x) \in Nat
  BY <1>1, ProductType
<1>3. n * (y - x) = n * y - n * x
  OBVIOUS
<1>4. n * x \in Int /\ n * y \in Int
  OBVIOUS
<1> QED
  BY <1>2, <1>3, <1>4

LEMMA Times ==
  ASSUME NEW n \in Int, NEW x \in Int, NEW y \in Int
  PROVE  n * (x + y) = n * x + n * y /\ n * (x - y) = n * x - n * y /\ n * x \in Int /\ n * y \in Int
  OBVIOUS

LEMMA Commutes == \A x, y \in Int : x * y = y * x
  OBVIOUS

(* What Turnover ticks add is at least a burst and what they earn: in a       *)
(* session's bucket, and in a ceiling.                                       *)
LEMMA Turns ==
  /\ Turnover \in Nat /\ Turnover = IdleTtl + 1
  /\ Renewed \in Nat /\ Burst <= Renewed /\ Turnover * Rate <= Renewed
  /\ Factor * Renewed \in Nat /\ Factor * Burst <= Factor * Renewed
  /\ Turnover * (Factor * Rate) <= Factor * Renewed
<1>1. Turnover \in Nat /\ Turnover = IdleTtl + 1
  BY Numbers DEF Turnover
<1>2. Turnover * Rate \in Nat
  BY <1>1, Numbers, ProductType
<1>3. Renewed \in Nat /\ Burst <= Renewed /\ Turnover * Rate <= Renewed
  BY <1>2, Numbers DEF Renewed
<1>4. Factor * Renewed \in Nat
  BY <1>3, Numbers, ProductType
<1>5. Factor * Burst <= Factor * Renewed
  BY <1>3, Numbers, Monotone
<1>6. Factor * (Turnover * Rate) <= Factor * Renewed
  BY <1>2, <1>3, Numbers, Monotone
<1>7. ASSUME NEW x \in Int, NEW y \in Int, NEW z \in Int PROVE x * (y * z) = y * (x * z)
  OBVIOUS
<1>8. Factor * (Turnover * Rate) = Turnover * (Factor * Rate)
  BY <1>1, <1>7, Numbers
<1> QED
  BY <1>1, <1>3, <1>4, <1>5, <1>6, <1>8

(* What was spent is no more than what was spent and is left. *)
LEMMA SpentIsDue ==
  ASSUME NEW used \in Int, NEW left \in Nat, NEW due \in Int, Turnover * (used + left) <= due
  PROVE  Turnover * used <= due
<1>1. Turnover * used <= Turnover * (used + left)
  BY Turns, Monotone
<1>2. Turnover * used \in Int /\ Turnover * (used + left) \in Int
  BY Turns
<1> QED
  BY <1>1, <1>2

LEMMA DueType ==
  ASSUME NEW burst \in Nat, NEW renewed \in Nat, NEW at \in Int
  PROVE  Due(burst, renewed, at) \in Int
<1>1. Turnover * burst \in Int /\ renewed * at \in Int
  BY Turns
<1> QED
  BY <1>1 DEF Due

(* By the time an entry is idle, a full bucket is due. *)
LEMMA IdleIsDue ==
  ASSUME NEW burst \in Nat, NEW renewed \in Nat, burst <= renewed, NEW used \in Int,
         NEW seen \in Int, NEW at \in Int, at - seen > IdleTtl,
         Turnover * used <= Due(burst, renewed, seen)
  PROVE  Turnover * (used + burst) <= Due(burst, renewed, at)
<1>1. Turnover \in Nat /\ Turnover <= at - seen
  BY Turns, Numbers
<1>2. Turnover * burst <= Turnover * renewed
  BY <1>1, Monotone
<1>3. renewed * Turnover <= renewed * (at - seen)
  BY <1>1, Monotone
<1>4. /\ Turnover * (used + burst) = Turnover * used + Turnover * burst
      /\ Turnover * used \in Int /\ Turnover * burst \in Int
  BY <1>1, Times
<1>5. renewed * (at - seen) = renewed * at - renewed * seen /\ renewed * at \in Int /\ renewed * seen \in Int
  BY Times
<1>6. renewed * Turnover = Turnover * renewed /\ Turnover * renewed \in Int
  BY <1>1, Commutes
<1>7. Turnover * used <= Turnover * burst + renewed * seen
  BY DEF Due
<1> QED
  BY <1>2, <1>3, <1>4, <1>5, <1>6, <1>7 DEF Due

(* A tick adds no more than it makes due. *)
LEMMA TickIsDue ==
  ASSUME NEW rate \in Nat, NEW burst \in Nat, NEW renewed \in Nat, Turnover * rate <= renewed,
         NEW used \in Int, NEW left \in Int, NEW more \in Int, more <= left + rate,
         NEW at \in Int, Turnover * (used + left) <= Due(burst, renewed, at)
  PROVE  Turnover * (used + more) <= Due(burst, renewed, at + 1)
<1>1. Turnover * (used + more) <= Turnover * ((used + left) + rate)
  BY Turns, Monotone
<1>2. /\ Turnover * ((used + left) + rate) = Turnover * (used + left) + Turnover * rate
      /\ Turnover * (used + left) \in Int /\ Turnover * rate \in Int
  BY Turns, Times
<1>3. renewed * (at + 1) = renewed * at + renewed * 1 /\ renewed * at \in Int /\ renewed * 1 = renewed
  BY Times
<1>4. Turnover * burst \in Int /\ Turnover * (used + more) \in Int
  BY Turns
<1>5. Turnover * (used + left) <= Turnover * burst + renewed * at
  BY DEF Due
<1> QED
  BY <1>1, <1>2, <1>3, <1>4, <1>5 DEF Due

LEMMA OneMore == ASSUME NEW n \in Int PROVE (n + 1) * Cost = n * Cost + Cost /\ n * Cost \in Int
  BY Numbers

LEMMA FullCeiling == Factor * Burst \in Nat /\ Factor * Rate \in Nat /\ Factor * FailBurst \in Nat
                     /\ Factor * FailRate \in Nat
  BY Numbers, ProductType

----------------------------------------------------------------------------
(* Tables *)

LEMMA PartialIs ==
  ASSUME NEW S, NEW T, NEW f
  PROVE  f \in Partial(S, T) <=>
           /\ f = [x \in DOMAIN f |-> f[x]] /\ DOMAIN f \subseteq S
           /\ \A x \in DOMAIN f : f[x] \in T
  BY DEF Partial

LEMMA EmptyTable == ASSUME NEW S, NEW T PROVE <<>> \in Partial(S, T) /\ DOMAIN <<>> = {}
<1>1. <<>> \in [{} -> T] /\ DOMAIN <<>> = {}
  OBVIOUS
<1> QED
  BY <1>1 DEF Partial

LEMMA WithType ==
  ASSUME NEW S, NEW T, NEW f \in Partial(S, T), NEW k \in S, NEW e \in T
  PROVE  /\ With(f, k, e) \in Partial(S, T) /\ DOMAIN With(f, k, e) = DOMAIN f \cup {k}
         /\ With(f, k, e)[k] = e
         /\ \A j \in DOMAIN f : j # k => With(f, k, e)[j] = f[j]
  BY PartialIs DEF With

LEMMA WithoutType ==
  ASSUME NEW S, NEW T, NEW f \in Partial(S, T), NEW k
  PROVE  /\ Without(f, k) \in Partial(S, T) /\ DOMAIN Without(f, k) = DOMAIN f \ {k}
         /\ \A j \in DOMAIN f \ {k} : Without(f, k)[j] = f[j]
  BY PartialIs DEF Without

LEMMA PartType ==
  ASSUME NEW S, NEW T, NEW f \in Partial(S, T), NEW D \in SUBSET DOMAIN f
  PROVE  [x \in D |-> f[x]] \in Partial(S, T)
  BY PartialIs

(* A table with room for k does not outgrow its bound by it. *)
LEMMA Grows ==
  ASSUME NEW f, NEW k, NEW max \in Nat, Bounded(f, max), k \in DOMAIN f \/ Cardinality(DOMAIN f) < max
  PROVE  IsFiniteSet(DOMAIN f \cup {k}) /\ Cardinality(DOMAIN f \cup {k}) <= max
<1>1. IsFiniteSet(DOMAIN f) /\ Cardinality(DOMAIN f) <= max /\ Cardinality(DOMAIN f) \in Nat
  BY FS_CardinalityType DEF Bounded
<1>2. /\ IsFiniteSet(DOMAIN f \cup {k})
      /\ Cardinality(DOMAIN f \cup {k}) =
           IF k \in DOMAIN f THEN Cardinality(DOMAIN f) ELSE Cardinality(DOMAIN f) + 1
  BY <1>1, FS_AddElement
<1> QED
  BY <1>1, <1>2

LEMMA Shrinks ==
  ASSUME NEW f, NEW D, D \subseteq DOMAIN f, NEW max \in Nat, Bounded(f, max)
  PROVE  IsFiniteSet(D) /\ Cardinality(D) <= max
<1>1. IsFiniteSet(DOMAIN f) /\ Cardinality(DOMAIN f) <= max /\ Cardinality(DOMAIN f) \in Nat
  BY FS_CardinalityType DEF Bounded
<1>2. IsFiniteSet(D) /\ Cardinality(D) <= Cardinality(DOMAIN f) /\ Cardinality(D) \in Nat
  BY <1>1, FS_Subset, FS_CardinalityType
<1> QED
  BY <1>1, <1>2

(* Room drops nothing, or one other entry. *)
LEMMA RoomIs ==
  ASSUME NEW S, NEW T, NEW f \in Partial(S, T), NEW k \in S, Bounded(f, MaxTracked),
         NEW tab \in Room(f, k)
  PROVE  /\ tab \in Partial(S, T) /\ DOMAIN tab \subseteq DOMAIN f
         /\ \A j \in DOMAIN tab : tab[j] = f[j]
         /\ k \in DOMAIN f => tab = f
         /\ IsFiniteSet(DOMAIN tab \cup {k}) /\ Cardinality(DOMAIN tab \cup {k}) <= MaxTracked
<1>1. CASE k \in DOMAIN f \/ Cardinality(DOMAIN f) < MaxTracked
  <2>1. tab = f
    BY <1>1 DEF Room
  <2> QED
    BY <1>1, <2>1, Grows, Numbers
<1>2. CASE ~(k \in DOMAIN f \/ Cardinality(DOMAIN f) < MaxTracked)
  <2>1. PICK j \in Oldest(f) : tab = Without(f, j)
    BY <1>2 DEF Room
  <2>2. j \in DOMAIN f
    BY DEF Oldest
  <2>3. /\ tab \in Partial(S, T) /\ DOMAIN tab = DOMAIN f \ {j}
        /\ \A x \in DOMAIN f \ {j} : tab[x] = f[x]
    BY <2>1, WithoutType
  <2>4. IsFiniteSet(DOMAIN f) /\ Cardinality(DOMAIN f) <= MaxTracked /\ Cardinality(DOMAIN f) \in Nat
    BY FS_CardinalityType DEF Bounded
  <2>5. IsFiniteSet(DOMAIN tab) /\ Cardinality(DOMAIN tab) = Cardinality(DOMAIN f) - 1
    BY <2>2, <2>3, <2>4, FS_RemoveElement
  <2>6. Bounded(tab, MaxTracked) /\ Cardinality(DOMAIN tab) < MaxTracked
    BY <2>4, <2>5, Numbers DEF Bounded
  <2> QED
    BY <1>2, <2>3, <2>6, Grows, Numbers
<1> QED
  BY <1>1, <1>2

LEMMA RoomInTable ==
  ASSUME table \in Partial(Keys, Entries), Bounded(table, MaxTracked),
         NEW k \in Keys, NEW tab \in Room(table, k)
  PROVE  /\ tab \in Partial(Keys, Entries) /\ DOMAIN tab \subseteq DOMAIN table
         /\ \A j \in DOMAIN tab : tab[j] = table[j]
         /\ k \in DOMAIN table => tab = table
         /\ IsFiniteSet(DOMAIN tab \cup {k}) /\ Cardinality(DOMAIN tab \cup {k}) <= MaxTracked
  BY RoomIs, Zenon

LEMMA RoomInFailures ==
  ASSUME failures \in Partial(Keys, Refusals), Bounded(failures, MaxTracked),
         NEW k \in Keys, NEW tab \in Room(failures, k)
  PROVE  /\ tab \in Partial(Keys, Refusals) /\ DOMAIN tab \subseteq DOMAIN failures
         /\ \A j \in DOMAIN tab : tab[j] = failures[j]
         /\ k \in DOMAIN failures => tab = failures
         /\ IsFiniteSet(DOMAIN tab \cup {k}) /\ Cardinality(DOMAIN tab \cup {k}) <= MaxTracked
  BY RoomIs, Zenon

----------------------------------------------------------------------------
(* Whom a request is charged to *)

(* The last entry of the chain that is no trusted proxy's is the client: the  *)
(* proxies wrote it and what comes after it.                                 *)
LEMMA ChargedToClient ==
  ASSUME NEW client \in Addresses \ Trusted, NEW sent \in Forged, NEW route \in Routes
  PROVE  ChargedKey(client, sent, route) = KeyOf[client]
<1>1. route \in Seq(Trusted)
  BY AdmissionAssumption
<1>2. CASE route = <<>>
  BY <1>2 DEF ChargedKey, ClientIP
<1>3. CASE route # <<>>
  <2> DEFINE chain == sent \o <<client>> \o SubSeq(route, 1, Len(route) - 1)
             own   == Len(sent) + 1
  <2>1. Len(route) \in Nat /\ Len(route) > 0 /\ route[Len(route)] \in Trusted
    BY <1>1, <1>3
  <2> DEFINE S == {sent[n] : n \in 1..Len(sent)} \cup {client} \cup Trusted
  <2>2. sent \in Seq(S) /\ <<client>> \in Seq(S) /\ route \in Seq(S)
    <3>1. sent \in Seq({sent[n] : n \in 1..Len(sent)})
      BY AdmissionAssumption
    <3>2. {sent[n] : n \in 1..Len(sent)} \subseteq S /\ Trusted \subseteq S /\ client \in S
      OBVIOUS
    <3> HIDE DEF S
    <3>3. sent \in Seq(S)
      BY <3>1, <3>2, SeqMonotonic
    <3>4. route \in Seq(S)
      BY <1>1, <3>2, SeqMonotonic
    <3> QED
      BY <3>2, <3>3, <3>4
  <2> HIDE DEF S
  <2>3. Len(sent) \in Nat
    BY <2>2
  <2> DEFINE tail == SubSeq(route, 1, Len(route) - 1)
  <2>4. /\ tail \in Seq(S) /\ Len(tail) = Len(route) - 1
        /\ \A n \in 1..Len(tail) : tail[n] \in Trusted
    <3>1. \A n \in 1..(Len(route) - 1) : route[n] \in Trusted
      BY <1>1, <2>1
    <3>2. /\ tail \in Seq(Trusted)
          /\ Len(tail) = IF 1 <= Len(route) - 1 THEN Len(route) - 1 - 1 + 1 ELSE 0
      BY <2>1, <3>1, SubSeqProperties
    <3>3. tail \in Seq(S)
      BY <3>2, SeqMonotonic DEF S
    <3> HIDE DEF tail
    <3>4. \A n \in 1..Len(tail) : tail[n] \in Trusted
      BY <3>2, ElementOfSeq
    <3>5. Len(tail) = Len(route) - 1
      <4> HIDE DEF chain, own
      <4>1. \A L \in Nat : L > 0 => (IF 1 <= L - 1 THEN L - 1 - 1 + 1 ELSE 0) = L - 1
        OBVIOUS
      <4> QED
        BY <2>1, <3>2, <4>1
    <3> QED
      BY <3>3, <3>4, <3>5
  <2> HIDE DEF tail
  <2>5. /\ Len(chain) = own + Len(tail) /\ chain[own] = client
        /\ \A n \in 1..Len(chain) : n > own => chain[n] \in Trusted
    <3>1. sent \o <<client>> \in Seq(S) /\ Len(sent \o <<client>>) = own
      BY <2>2
    <3>2. (sent \o <<client>>)[own] = client
      BY <2>2, <2>3
    <3>3. Len((sent \o <<client>>) \o tail) = own + Len(tail)
      <4> DEFINE front == sent \o <<client>>
      <4> HIDE DEF front
      <4>1. front \in Seq(S) /\ tail \in Seq(S) => Len(front \o tail) = Len(front) + Len(tail)
        BY ConcatProperties
      <4> QED
        BY <2>4, <3>1, <4>1 DEF front
    <3>4. ((sent \o <<client>>) \o tail)[own] = client
      <4>1. own \in 1..(own + Len(tail))
        BY <2>3, <2>4
      <4> QED
        BY <2>4, <3>1, <3>2, <4>1, ConcatProperties
    <3>5. ASSUME NEW n \in 1..(own + Len(tail)), n > own
          PROVE  ((sent \o <<client>>) \o tail)[n] = tail[n - own] /\ n - own \in 1..Len(tail)
      <4>1. \A i \in 1..(own + Len(tail)) :
              ((sent \o <<client>>) \o tail)[i] =
                 IF i <= own THEN (sent \o <<client>>)[i] ELSE tail[i - own]
        BY <2>4, <3>1, ConcatProperties
      <4>2. Len(tail) \in Nat
        BY <2>4
      <4> QED
        BY <2>3, <3>5, <4>1, <4>2
    <3>6. chain = (sent \o <<client>>) \o tail
      BY DEF tail
    <3> QED
      BY <2>4, <3>3, <3>4, <3>5, <3>6
  <2> HIDE DEF chain
  <2>6. Len(tail) \in Nat
    BY <2>1, <2>4
  <2> DEFINE untrusted == {n \in 1..Len(chain) : chain[n] \notin Trusted}
  <2>7. own \in untrusted /\ \A n \in untrusted : own >= n
    BY <2>3, <2>5, <2>6
  <2>8. Max(untrusted) = own
    <3>1. \A n \in untrusted : n \in Int
      BY <2>3, <2>5, <2>6
    <3> HIDE DEF untrusted
    <3>2. ASSUME NEW m \in untrusted, \A n \in untrusted : m >= n PROVE m = own
      BY <2>7, <3>1, <3>2
    <3> QED
      BY <2>7, <3>2 DEF Max
  <2>9. ClientIP(route[Len(route)], chain) = client
    BY <2>1, <2>5, <2>7, <2>8 DEF ClientIP
  <2> QED
    BY <1>3, <2>9 DEF ChargedKey, chain
<1> QED
  BY <1>2, <1>3

LEMMA ChargesAreOwn == \A c \in Charges : c[1] \in Keys /\ c[1] = c[2]
  BY ChargedToClient DEF Charges, Keys

LEMMA GoneType == Gone \in Calls /\ Gone.pc = "gone" /\ Gone.key = Gone.owner
<1>1. (CHOOSE k \in Keys : TRUE) \in Keys
  BY AdmissionAssumption DEF Keys
<1> QED
  BY <1>1 DEF Gone, Calls

----------------------------------------------------------------------------
(* What the lookup of a request finds and makes *)

LEMMA SharesInUse ==
  /\ \A k \in DOMAIN table : \A s \in DOMAIN table[k].sessions :
       table[k].sessions[s].limiter \in UsedShares
  /\ \A r \in InUse : req[r].share \in UsedShares
<1> DEFINE Of(k) == {table[k].sessions[s].limiter : s \in DOMAIN table[k].sessions}
           all   == UNION {Of(k) : k \in DOMAIN table}
           held  == {req[r].share : r \in InUse}
<1>1. UsedShares = all \cup held
  BY DEF UsedShares
<1>2. ASSUME NEW k \in DOMAIN table, NEW s \in DOMAIN table[k].sessions
      PROVE  table[k].sessions[s].limiter \in all
  <2>1. table[k].sessions[s].limiter \in Of(k)
    OBVIOUS
  <2> HIDE DEF Of
  <2> QED
    BY <2>1
<1>3. \A r \in InUse : req[r].share \in held
  OBVIOUS
<1> HIDE DEF all, held
<1> QED
  BY <1>1, <1>2, <1>3

LEMMA NewNames ==
  ASSUME NamesLeft
  PROVE  /\ NewCeiling \in Ids \ UsedCeilings /\ NewShare \in Ids \ UsedShares
  BY DEF NamesLeft, NewCeiling, NewShare

(* The entry of the request's address is in the table, new or seen now. *)
LookedUp(r, tab, own, new) ==
  LET k == req[r].key
      s == req[r].sid IN
  /\ table' = [j \in DOMAIN table' |-> table'[j]] /\ DOMAIN table' = DOMAIN tab \cup {k}
  /\ \A j \in DOMAIN tab : j # k => table'[j] = table[j]
  /\ table'[k].lastSeen = now
  /\ table'[k] \in [limiter : Ids, lastSeen : {now}, sessions : {table'[k].sessions}]
  /\ IF k \in DOMAIN table
     THEN tab = table /\ table'[k].limiter = table[k].limiter /\ own = table[k].sessions /\ ceiling' = ceiling
     ELSE /\ table'[k].limiter = NewCeiling /\ own = <<>>
          /\ ceiling' = [ceiling EXCEPT ![NewCeiling] = Factor * Burst]
  /\ displaced' = displaced \cup (DOMAIN table \ DOMAIN tab)
  /\ req' = [req EXCEPT ![r] = [@ EXCEPT !.pc = "ceiling", !.ceiling = table'[k].limiter,
                                        !.share = req'[r].share]]
  /\ \/ new = "no" /\ table'[k].sessions = own /\ share' = share /\ req'[r].share = NoBucket
     \/ /\ new = "has" /\ s \in DOMAIN own /\ share' = share
        /\ table'[k].sessions = [own EXCEPT ![s].lastSeen = now]
        /\ req'[r].share = own[s].limiter
     \/ /\ new = "add" /\ s \in Sessions \ DOMAIN own /\ Cardinality(DOMAIN own) < MaxSessions
        /\ share' = [share EXCEPT ![NewShare] = Burst]
        /\ table'[k].sessions = With(own, s, [limiter |-> NewShare, lastSeen |-> now])
        /\ req'[r].share = NewShare

LEMMA LookupIs ==
  ASSUME IInv, NEW r \in Requests, Lookup(r)
  PROVE  \E tab \in Room(table, req[r].key) : \E own \in Partial(Sessions, Buckets) :
           \E new \in {"no", "has", "add"} : LookedUp(r, tab, own, new)
<1> DEFINE k == req[r].key
           s == req[r].sid
           entry == [limiter |-> NewCeiling, lastSeen |-> now, sessions |-> <<>>]
<1>1. /\ req \in [Requests -> Calls] /\ req[r] \in Calls /\ k \in Keys
      /\ s \in Sessions \cup {NoSession} /\ table \in Partial(Keys, Entries) /\ now \in Int
      /\ Bounded(table, MaxTracked)
  BY DEF IInv, Typed, Calls, SmallTables
<1>2. NewCeiling \in Ids \ UsedCeilings /\ NewShare \in Ids \ UsedShares
  BY NewNames DEF Lookup
<1>3. PICK tab \in Room(table, k) :
        LET t   == EntryFor(tab, k, entry)
            own == t[k].sessions
            has == s \in DOMAIN own
            add == s # NoSession /\ ~has /\ Cardinality(DOMAIN own) < MaxSessions IN
        /\ table' = [t EXCEPT ![k].sessions =
                       IF has THEN [own EXCEPT ![s].lastSeen = now]
                       ELSE IF add THEN With(own, s, [limiter |-> NewShare, lastSeen |-> now])
                       ELSE own]
        /\ ceiling' = IF k \in DOMAIN tab THEN ceiling
                      ELSE [ceiling EXCEPT ![NewCeiling] = Factor * Burst]
        /\ share' = IF add THEN [share EXCEPT ![NewShare] = Burst] ELSE share
        /\ displaced' = displaced \cup (DOMAIN table \ DOMAIN tab)
        /\ req' = [req EXCEPT ![r].pc = "ceiling", ![r].ceiling = t[k].limiter,
                     ![r].share = IF has \/ add THEN table'[k].sessions[s].limiter ELSE NoBucket]
  BY DEF Lookup, Displaced
<1> DEFINE t   == EntryFor(tab, k, entry)
           own == t[k].sessions
           has == s \in DOMAIN own
           add == s # NoSession /\ ~has /\ Cardinality(DOMAIN own) < MaxSessions
           kept == IF has THEN [own EXCEPT ![s].lastSeen = now]
                   ELSE IF add THEN With(own, s, [limiter |-> NewShare, lastSeen |-> now])
                   ELSE own
<1> HIDE DEF k, s, entry
<1>4. /\ tab \in Partial(Keys, Entries) /\ DOMAIN tab \subseteq DOMAIN table
      /\ \A j \in DOMAIN tab : tab[j] = table[j]
      /\ k \in DOMAIN table => tab = table
  BY <1>1, RoomInTable
<1>5. entry \in Entries
  BY <1>1, <1>2, EmptyTable DEF entry, Entries
<1>6. /\ t \in Partial(Keys, Entries) /\ DOMAIN t = DOMAIN tab \cup {k}
      /\ \A j \in DOMAIN tab : j # k => t[j] = table[j]
      /\ IF k \in DOMAIN table THEN t[k] = [table[k] EXCEPT !.lastSeen = now] ELSE t[k] = entry
  <2>1. CASE k \in DOMAIN table
    <3>1. t = [table EXCEPT ![k].lastSeen = now] /\ tab = table
      BY <1>4, <2>1 DEF EntryFor
    <3>2. [table[k] EXCEPT !.lastSeen = now] \in Entries
      <4>1. table[k] \in Entries
        BY <1>1, <2>1, PartialIs
      <4> QED
        BY <1>1, <4>1 DEF Entries
    <3> HIDE DEF t
    <3>3. t \in Partial(Keys, Entries)
      <4>1. table \in [DOMAIN table -> Entries] /\ DOMAIN table \subseteq Keys
        BY <1>1, PartialIs
      <4>2. t \in [DOMAIN table -> Entries]
        BY <2>1, <3>1, <3>2, <4>1
      <4> QED
        BY <4>1, <4>2 DEF Partial
    <3> QED
      BY <2>1, <3>1, <3>3
  <2>2. CASE k \notin DOMAIN table
    <3>1. t = With(tab, k, entry)
      BY <1>4, <2>2 DEF EntryFor
    <3> HIDE DEF t
    <3>2. /\ t \in Partial(Keys, Entries) /\ DOMAIN t = DOMAIN tab \cup {k} /\ t[k] = entry
          /\ \A j \in DOMAIN tab : j # k => t[j] = tab[j]
      <4>1. tab \in Partial(Keys, Entries) /\ k \in Keys
        BY <1>1, <1>4
      <4>2. /\ With(tab, k, entry) \in Partial(Keys, Entries)
            /\ DOMAIN With(tab, k, entry) = DOMAIN tab \cup {k} /\ With(tab, k, entry)[k] = entry
            /\ \A j \in DOMAIN tab : j # k => With(tab, k, entry)[j] = tab[j]
        <5> DEFINE D == DOMAIN tab \cup {k}
        <5>1. tab \in [DOMAIN tab -> Entries] /\ DOMAIN tab \subseteq Keys
          BY <4>1, PartialIs
        <5>2. With(tab, k, entry) \in [D -> Entries] /\ D \subseteq Keys
          BY <1>5, <4>1, <5>1 DEF With
        <5> QED
          BY <5>2 DEF Partial, With
      <4> QED
        BY <3>1, <4>2
    <3> QED
      BY <1>4, <2>2, <3>2
  <2> QED
    BY <2>1, <2>2
<1>7. own \in Partial(Sessions, Buckets)
  <2> HIDE DEF t
  <2>1. t[k] \in Entries
    BY <1>6, PartialIs
  <2> QED
    BY <2>1 DEF Entries
<1>8. /\ table' = [j \in DOMAIN table' |-> table'[j]]
      /\ table'[k] \in [limiter : Ids, lastSeen : {now}, sessions : {table'[k].sessions}]
      /\ DOMAIN table' = DOMAIN tab \cup {k} /\ \A j \in DOMAIN tab : j # k => table'[j] = table[j]
      /\ table'[k].lastSeen = now /\ table'[k].sessions = kept /\ table'[k].limiter = t[k].limiter
  <2>1. table' = [t EXCEPT ![k].sessions = kept]
    BY <1>3
  <2> HIDE DEF t, kept
  <2>2. t[k].lastSeen = now /\ t[k] \in Entries
    <3>1. CASE k \in DOMAIN table
      <4>1. table[k] \in Entries
        BY <1>1, <3>1, PartialIs
      <4> QED
        BY <1>1, <1>6, <3>1, <4>1 DEF Entries
    <3>2. CASE k \notin DOMAIN table
      BY <1>5, <1>6, <3>2 DEF entry
    <3> QED
      BY <3>1, <3>2
  <2>3. table'[k] = [t[k] EXCEPT !.sessions = kept]
    BY <1>6, <2>1
  <2>4. table' = [j \in DOMAIN table' |-> table'[j]]
    <3>1. t = [j \in DOMAIN t |-> t[j]]
      BY <1>6, PartialIs
    <3> QED
      BY <2>1, <3>1
  <2> QED
    BY <1>6, <2>1, <2>2, <2>3, <2>4 DEF Entries
<1>9. IF k \in DOMAIN table
      THEN tab = table /\ table'[k].limiter = table[k].limiter /\ own = table[k].sessions /\ ceiling' = ceiling
      ELSE /\ table'[k].limiter = NewCeiling /\ own = <<>>
           /\ ceiling' = [ceiling EXCEPT ![NewCeiling] = Factor * Burst]
  <2> HIDE DEF t
  <2>1. CASE k \in DOMAIN table
    <3>1. table[k] \in Entries
      BY <1>1, <2>1, PartialIs
    <3>2. t[k].limiter = table[k].limiter /\ t[k].sessions = table[k].sessions
      BY <1>6, <2>1, <3>1 DEF Entries
    <3>3. ceiling' = ceiling
      BY <1>3, <1>4, <2>1
    <3> QED
      BY <1>4, <1>8, <2>1, <3>2, <3>3
  <2>2. CASE k \notin DOMAIN table
    <3>1. t[k].limiter = NewCeiling /\ t[k].sessions = <<>>
      BY <1>6, <2>2 DEF entry
    <3>2. ceiling' = [ceiling EXCEPT ![NewCeiling] = Factor * Burst]
      BY <1>3, <1>4, <2>2
    <3> QED
      BY <1>8, <2>2, <3>1, <3>2
  <2> QED
    BY <2>1, <2>2
<1>10. /\ req' = [req EXCEPT ![r] = [@ EXCEPT !.pc = "ceiling", !.ceiling = t[k].limiter,
                                             !.share = req'[r].share]]
       /\ displaced' = displaced \cup (DOMAIN table \ DOMAIN tab)
       /\ req'[r].share = IF has \/ add THEN kept[s].limiter ELSE NoBucket
       /\ share' = IF add THEN [share EXCEPT ![NewShare] = Burst] ELSE share
  <2>1. /\ req' = [req EXCEPT ![r].pc = "ceiling", ![r].ceiling = t[k].limiter,
                     ![r].share = IF has \/ add THEN table'[k].sessions[s].limiter ELSE NoBucket]
        /\ share' = IF add THEN [share EXCEPT ![NewShare] = Burst] ELSE share
        /\ displaced' = displaced \cup (DOMAIN table \ DOMAIN tab)
    BY <1>3
  <2> HIDE DEF t, own, has, add, kept
  <2> QED
    BY <1>1, <1>8, <2>1 DEF Calls
<1>11. \/ kept = own /\ share' = share /\ req'[r].share = NoBucket
       \/ /\ s \in DOMAIN own /\ share' = share
          /\ kept = [own EXCEPT ![s].lastSeen = now] /\ req'[r].share = own[s].limiter
       \/ /\ s \in Sessions \ DOMAIN own /\ Cardinality(DOMAIN own) < MaxSessions
          /\ share' = [share EXCEPT ![NewShare] = Burst]
          /\ kept = With(own, s, [limiter |-> NewShare, lastSeen |-> now])
          /\ req'[r].share = NewShare
  <2>1. CASE has
    <3>1. own[s] \in Buckets
      BY <1>7, <2>1, PartialIs
    <3>2. kept = [own EXCEPT ![s].lastSeen = now] /\ ~add
      BY <2>1
    <3> HIDE DEF own, kept, add
    <3>3. kept[s].limiter = own[s].limiter
      BY <2>1, <3>1, <3>2 DEF Buckets
    <3> QED
      BY <1>10, <2>1, <3>2, <3>3
  <2>2. CASE ~has /\ add
    <3>1. [limiter |-> NewShare, lastSeen |-> now] \in Buckets /\ s \in Sessions
      BY <1>1, <1>2, <2>2 DEF Buckets
    <3>2. kept = With(own, s, [limiter |-> NewShare, lastSeen |-> now])
      BY <2>2
    <3>3. /\ share' = [share EXCEPT ![NewShare] = Burst] /\ req'[r].share = kept[s].limiter
      BY <1>10, <2>2
    <3>4. s \notin DOMAIN own /\ Cardinality(DOMAIN own) < MaxSessions
      BY <2>2
    <3> HIDE DEF own, kept, has, add
    <3>5. With(own, s, [limiter |-> NewShare, lastSeen |-> now])[s] = [limiter |-> NewShare, lastSeen |-> now]
      BY DEF With
    <3> QED
      BY <3>1, <3>2, <3>3, <3>4, <3>5
  <2>3. CASE ~has /\ ~add
    <3>1. kept = own
      BY <2>3
    <3> HIDE DEF own, kept, add, has
    <3> QED
      BY <1>10, <2>3, <3>1
  <2> QED
    BY <2>1, <2>2, <2>3
<1>12. \E new \in {"no", "has", "add"} : LookedUp(r, tab, own, new)
  <2> HIDE DEF own, kept, t, has, add
  <2> USE DEF k, s
  <2> QED
    BY <1>8, <1>9, <1>10, <1>11 DEF LookedUp
<1> HIDE DEF own
<1> QED
  BY <1>7, <1>12 DEF k

(* What a refused request does to its limiter. *)
Refused(r, tab) ==
  LET k == req[r].key
      last == IF k \in DOMAIN failures THEN failures[k].lastWarn ELSE Never IN
  /\ failures' = [j \in DOMAIN failures' |-> failures'[j]] /\ DOMAIN failures' = DOMAIN tab \cup {k}
  /\ \A j \in DOMAIN tab : j # k => failures'[j] = failures[j]
  /\ failures'[k] \in Refusals /\ failures'[k].lastSeen = now
  /\ \/ failures'[k].lastWarn = last /\ warned' = warned
     \/ /\ now - last > WarnGap /\ failures'[k].lastWarn = now
        /\ warned' = [warned EXCEPT ![k] = now]

LEMMA PenaliseIs ==
  ASSUME IInv, NEW r \in Requests, Penalise(r)
  PROVE  \E tab \in Room(failures, req[r].key) :
           Refused(r, tab) /\ displaced' = displaced \cup (DOMAIN failures \ DOMAIN tab)
<1> DEFINE k == req[r].key
           new == [units |-> Factor * FailBurst, lastSeen |-> now, lastWarn |-> Never]
<1>1. /\ k \in Keys /\ failures \in Partial(Keys, Refusals) /\ now \in Int /\ Never \in Int
      /\ Bounded(failures, MaxTracked)
  <2>1. req[r] \in Calls
    BY DEF IInv, Typed
  <2> QED
    BY <2>1, Numbers DEF IInv, Typed, Calls, SmallTables, Never
<1>2. PICK tab \in Room(failures, k) :
        LET f == EntryFor(tab, k, new) IN
        /\ displaced' = displaced \cup (DOMAIN failures \ DOMAIN tab)
        /\ IF f[k].units >= Cost
           THEN /\ failures' = [f EXCEPT ![k].units = @ - Cost]
                /\ UNCHANGED warned
           ELSE IF now - f[k].lastWarn > WarnGap
           THEN failures' = [f EXCEPT ![k].lastWarn = now] /\ warned' = [warned EXCEPT ![k] = now]
           ELSE failures' = f /\ UNCHANGED warned
  BY DEF Penalise, Displaced, Noted
<1> DEFINE f == EntryFor(tab, k, new)
           last == IF k \in DOMAIN failures THEN failures[k].lastWarn ELSE Never
<1> HIDE DEF k, new
<1>3. /\ tab \in Partial(Keys, Refusals) /\ DOMAIN tab \subseteq DOMAIN failures
      /\ \A j \in DOMAIN tab : tab[j] = failures[j]
      /\ k \in DOMAIN failures => tab = failures
  BY <1>1, RoomInFailures
<1>4. new \in Refusals /\ new.lastSeen = now /\ new.lastWarn = Never
  BY <1>1, FullCeiling DEF new, Refusals
<1>5. /\ DOMAIN f = DOMAIN tab \cup {k} /\ \A j \in DOMAIN tab : j # k => f[j] = failures[j]
      /\ f[k] \in Refusals /\ f[k].lastSeen = now /\ f[k].lastWarn = last
      /\ f = [j \in DOMAIN f |-> f[j]]
  <2>1. CASE k \in DOMAIN failures
    <3>1. f = [failures EXCEPT ![k].lastSeen = now] /\ tab = failures
      BY <1>3, <2>1 DEF EntryFor
    <3>2. failures[k] \in Refusals /\ failures = [j \in DOMAIN failures |-> failures[j]]
      BY <1>1, <2>1, PartialIs
    <3>3. /\ [failures[k] EXCEPT !.lastSeen = now] \in Refusals
          /\ [failures[k] EXCEPT !.lastSeen = now].lastSeen = now
          /\ [failures[k] EXCEPT !.lastSeen = now].lastWarn = failures[k].lastWarn
      BY <1>1, <3>2 DEF Refusals
    <3> HIDE DEF f
    <3> QED
      BY <2>1, <3>1, <3>2, <3>3
  <2>2. CASE k \notin DOMAIN failures
    <3>1. f = With(tab, k, new)
      BY <1>3, <2>2 DEF EntryFor
    <3> HIDE DEF f
    <3> QED
      BY <1>3, <1>4, <2>2, <3>1 DEF With
  <2> QED
    BY <2>1, <2>2
<1> HIDE DEF f
<1>6. CASE f[k].units >= Cost
  <2>1. failures' = [f EXCEPT ![k].units = @ - Cost] /\ warned' = warned
    BY <1>2, <1>6 DEF f
  <2>2. LET e == [f[k] EXCEPT !.units = @ - Cost] IN
        e \in Refusals /\ e.lastSeen = now /\ e.lastWarn = last
    <3>1. f[k].units - Cost \in 0..Factor * FailBurst
      BY <1>5, <1>6, FullCeiling, Numbers DEF Refusals
    <3> QED
      BY <1>5, <3>1 DEF Refusals
  <2>3. /\ failures' = [j \in DOMAIN failures' |-> failures'[j]] /\ DOMAIN failures' = DOMAIN f
        /\ failures'[k] = [f[k] EXCEPT !.units = @ - Cost] /\ \A j \in DOMAIN f : j # k => failures'[j] = f[j]
    BY <1>5, <2>1
  <2> QED
    BY <1>2, <1>5, <2>1, <2>2, <2>3 DEF Refused, k
<1>7. CASE f[k].units < Cost /\ now - f[k].lastWarn > WarnGap
  <2>1. failures' = [f EXCEPT ![k].lastWarn = now] /\ warned' = [warned EXCEPT ![k] = now]
    <3>1. ~(f[k].units >= Cost)
      BY <1>5, <1>7, Numbers DEF Refusals
    <3> QED
      BY <1>2, <1>7, <3>1 DEF f
  <2>2. LET e == [f[k] EXCEPT !.lastWarn = now] IN
        e \in Refusals /\ e.lastSeen = now /\ e.lastWarn = now
    BY <1>1, <1>5 DEF Refusals
  <2>3. /\ failures' = [j \in DOMAIN failures' |-> failures'[j]] /\ DOMAIN failures' = DOMAIN f
        /\ failures'[k] = [f[k] EXCEPT !.lastWarn = now] /\ \A j \in DOMAIN f : j # k => failures'[j] = f[j]
    BY <1>5, <2>1
  <2> QED
    BY <1>2, <1>5, <1>7, <2>1, <2>2, <2>3 DEF Refused, k
<1>8. CASE f[k].units < Cost /\ ~(now - f[k].lastWarn > WarnGap)
  <2>1. failures' = f /\ warned' = warned
    <3>1. ~(f[k].units >= Cost)
      BY <1>5, <1>8, Numbers DEF Refusals
    <3> QED
      BY <1>2, <1>8, <3>1 DEF f
  <2> QED
    BY <1>2, <1>5, <2>1 DEF Refused, k
<1>9. f[k].units >= Cost \/ f[k].units < Cost
  BY <1>5, Numbers DEF Refusals
<1> QED
  BY <1>6, <1>7, <1>8, <1>9

----------------------------------------------------------------------------
(* The steps *)

LEMMA EntryIs ==
  ASSUME Typed, NEW k \in DOMAIN table
  PROVE  /\ k \in Keys /\ table[k] \in Entries
         /\ table[k].limiter \in Ids /\ table[k].lastSeen \in Int
         /\ ceiling[table[k].limiter] \in 0..Factor * Burst
         /\ table[k].sessions \in Partial(Sessions, Buckets)
         /\ \A s \in DOMAIN table[k].sessions :
              /\ s \in Sessions /\ table[k].sessions[s] \in Buckets
              /\ table[k].sessions[s].limiter \in Ids
              /\ table[k].sessions[s].lastSeen \in Int
              /\ share[table[k].sessions[s].limiter] \in 0..Burst
<1>1. k \in Keys /\ table[k] \in Entries
  BY PartialIs DEF Typed
<1>2. /\ table[k].limiter \in Ids /\ table[k].lastSeen \in Int
      /\ table[k].sessions \in Partial(Sessions, Buckets)
  BY <1>1 DEF Entries
<1>3. ceiling[table[k].limiter] \in 0..Factor * Burst
  BY <1>2 DEF Typed
<1>4. ASSUME NEW s \in DOMAIN table[k].sessions
      PROVE  s \in Sessions /\ table[k].sessions[s] \in Buckets
  BY <1>2, PartialIs
<1>5. ASSUME NEW s \in DOMAIN table[k].sessions
      PROVE  /\ table[k].sessions[s].limiter \in Ids
             /\ table[k].sessions[s].lastSeen \in Int
             /\ share[table[k].sessions[s].limiter] \in 0..Burst
  BY <1>4 DEF Typed, Buckets
<1> QED
  BY <1>1, <1>2, <1>3, <1>4, <1>5

(* A step that leaves the limiter of admitted requests alone. *)
Limiters == SeenInOrder /\ OwnCeilings /\ OwnShares /\ SpentWhenSeen /\ Budgets /\ BudgetsKept

LEMMA LimiterAlone ==
  ASSUME Limiters, UNCHANGED <<limiterVars, passed, shared, now>>, displaced \subseteq displaced'
  PROVE  /\ Limiters'
         /\ \A r \in Requests : Charging(r) /\ req'[r] = req[r] => Charging(r)'
<1> USE DEF limiterVars
<1>1. SeenInOrder' /\ OwnCeilings' /\ OwnShares' /\ SpentWhenSeen'
  BY DEF Limiters, SeenInOrder, OwnCeilings, OwnShares, SpentWhenSeen
<1>2. Budgets' /\ BudgetsKept'
  BY DEF Limiters, Budgets, BudgetsKept, CeilingOf, ShareOf
<1>3. ASSUME NEW r \in Requests, Charging(r), req'[r] = req[r] PROVE Charging(r)'
  <2>1. HoldsCeiling(r) => HoldsCeiling(r)'
    BY <1>3 DEF HoldsCeiling
  <2>2. HoldsShare(r) => HoldsShare(r)'
    BY <1>3 DEF HoldsShare
  <2> QED
    BY <1>3, <2>1, <2>2 DEF Charging
<1> QED
  BY <1>1, <1>2, <1>3 DEF Limiters

(* A step that leaves the other one alone. *)
LEMMA FailuresAlone ==
  ASSUME Complaints, UNCHANGED <<failures, warned, now>>, displaced \subseteq displaced'
  PROVE  Complaints'
  BY DEF Complaints

LEMMA Arriving ==
  ASSUME IInv, NEW r \in Requests, NEW allowed \in BOOLEAN, NEW token \in BOOLEAN,
         NEW s \in Sessions \cup {NoSession}, Arrive(r, allowed, token, s)
  PROVE  IInv'
<1>1. PICK c \in Charges :
        req' = [req EXCEPT ![r] = [Gone EXCEPT !.pc = Admits(allowed, token),
                                     !.key = c[1], !.owner = c[2],
                                     !.token = token, !.sid = s]]
  BY DEF Arrive
<1>2. /\ UNCHANGED <<limited, limiterVars, failures, sweeping, now, historyVars>>
      /\ Admits(allowed, token) # "gone"
  BY DEF Arrive
<1> DEFINE new == [Gone EXCEPT !.pc = Admits(allowed, token), !.key = c[1], !.owner = c[2],
                               !.token = token, !.sid = s]
<1>3. c[1] \in Keys /\ c[1] = c[2]
  BY ChargesAreOwn
<1>4. Admits(allowed, token) \in {"penalise", "lookup"} /\ (Admits(allowed, token) = "lookup" => token)
  BY <1>2 DEF Admits
<1>5. /\ new \in Calls /\ new.pc \in {"penalise", "lookup"} /\ new.key = new.owner
      /\ (new.pc = "lookup" => new.token)
  BY <1>3, <1>4, GoneType DEF Calls
<1> HIDE DEF new
<1>6. req' = [req EXCEPT ![r] = new] /\ req \in [Requests -> Calls]
  BY <1>1 DEF new, IInv, Typed
<1>7. Typed' /\ SmallTables'
  BY <1>2, <1>5, <1>6 DEF IInv, Typed, SmallTables, limiterVars, historyVars, Bounded
<1>8. ChargedToOwner'
  BY <1>5, <1>6 DEF IInv, ChargedToOwner
<1>9. /\ Limiters' /\ \A x \in Requests : Charging(x) /\ req'[x] = req[x] => Charging(x)'
  BY <1>2, LimiterAlone DEF IInv, MainInv, Limiters, historyVars
<1>10. InFlight'
  <2>1. Charging(r)'
    BY <1>5, <1>6 DEF Charging
  <2>2. ASSUME NEW x \in Requests, x # r PROVE Charging(x)'
    BY <1>6, <1>9, <2>2 DEF IInv, MainInv, InFlight
  <2> QED
    BY <2>1, <2>2 DEF InFlight
<1>11. Complaints'
  BY <1>2, FailuresAlone DEF IInv, historyVars
<1> QED
  BY <1>7, <1>8, <1>9, <1>10, <1>11 DEF IInv, MainInv, Limiters

(* A request that is done. *)
LEMMA Leaving ==
  ASSUME NEW r \in Requests, req \in [Requests -> Calls], ChargedToOwner,
         req' = [req EXCEPT ![r] = Gone]
  PROVE  req' \in [Requests -> Calls] /\ ChargedToOwner' /\ Charging(r)'
<1>1. req'[r] = Gone /\ \A x \in Requests : x # r => req'[x] = req[x]
  OBVIOUS
<1>2. req' \in [Requests -> Calls] /\ ChargedToOwner'
  BY <1>1, GoneType DEF ChargedToOwner
<1>3. Charging(r)'
  BY <1>1, GoneType DEF Charging
<1> QED
  BY <1>2, <1>3

LEMMA Penalising ==
  ASSUME IInv, NEW r \in Requests, Penalise(r)
  PROVE  IInv'
<1> DEFINE k == req[r].key
<1>1. PICK tab \in Room(failures, k) :
        Refused(r, tab) /\ displaced' = displaced \cup (DOMAIN failures \ DOMAIN tab)
  BY PenaliseIs, Zenon
<1>2. /\ UNCHANGED <<limited, limiterVars, sweeping, now, passed, shared>>
      /\ req' = [req EXCEPT ![r] = Gone]
  BY DEF Penalise
<1>3. /\ req \in [Requests -> Calls] /\ k \in Keys /\ failures \in Partial(Keys, Refusals)
      /\ now \in Int /\ Bounded(failures, MaxTracked) /\ WarnGap \in Nat /\ warned \in [Keys -> Int]
      /\ displaced \subseteq Keys
  <2>1. req[r] \in Calls
    BY DEF IInv, Typed
  <2> QED
    BY <2>1, Numbers DEF IInv, Typed, Calls, SmallTables
<1> HIDE DEF k
<1>4. /\ DOMAIN tab \subseteq DOMAIN failures /\ (k \in DOMAIN failures => tab = failures)
      /\ IsFiniteSet(DOMAIN tab \cup {k}) /\ Cardinality(DOMAIN tab \cup {k}) <= MaxTracked
  BY <1>3, RoomInFailures
<1>5. DOMAIN failures \subseteq Keys /\ \A j \in DOMAIN failures : failures[j] \in Refusals
  BY <1>3, PartialIs
<1>6. /\ failures' = [j \in DOMAIN failures' |-> failures'[j]]
      /\ DOMAIN failures' = DOMAIN tab \cup {k}
      /\ \A j \in DOMAIN tab : j # k => failures'[j] = failures[j]
      /\ failures'[k] \in Refusals /\ failures'[k].lastSeen = now
  BY <1>1 DEF Refused, k
<1>7. LET last == IF k \in DOMAIN failures THEN failures[k].lastWarn ELSE Never IN
      \/ failures'[k].lastWarn = last /\ warned' = warned
      \/ /\ now - last > WarnGap /\ failures'[k].lastWarn = now
         /\ warned' = [warned EXCEPT ![k] = now]
  BY <1>1 DEF Refused, k
<1>8. /\ failures' \in Partial(Keys, Refusals) /\ warned' \in [Keys -> Int] /\ displaced' \subseteq Keys
      /\ Bounded(failures', MaxTracked)
  <2>1. failures' \in Partial(Keys, Refusals)
    <3>1. DOMAIN failures' \subseteq Keys /\ \A j \in DOMAIN failures' : failures'[j] \in Refusals
      BY <1>3, <1>4, <1>5, <1>6
    <3> QED
      BY <1>6, <3>1, PartialIs
  <2>2. warned' \in [Keys -> Int] /\ displaced' \subseteq Keys
    BY <1>1, <1>3, <1>5, <1>7
  <2> QED
    BY <1>4, <1>6, <2>1, <2>2 DEF Bounded
<1>9. req' \in [Requests -> Calls] /\ ChargedToOwner' /\ Charging(r)'
  BY <1>2, <1>3, Leaving DEF IInv
<1>10. Typed' /\ SmallTables'
  BY <1>2, <1>8, <1>9 DEF IInv, Typed, SmallTables, limiterVars, Bounded
<1>11. /\ Limiters' /\ \A x \in Requests : Charging(x) /\ req'[x] = req[x] => Charging(x)'
  BY <1>1, <1>2, LimiterAlone DEF IInv, MainInv, Limiters
<1>12. InFlight'
  BY <1>2, <1>3, <1>9, <1>11 DEF IInv, MainInv, InFlight
<1>13. Complaints'
  <2> USE <1>2
  <2>1. now' = now /\ Complaints /\ Never \in Int /\ now - Never > WarnGap
    BY <1>3 DEF IInv, Typed, Never
  <2>2. ASSUME NEW j \in DOMAIN failures'
        PROVE  failures'[j].lastWarn <= failures'[j].lastSeen /\ failures'[j].lastSeen <= now
    <3>1. CASE j = k
      <4>1. k \in DOMAIN failures => failures[k].lastWarn <= now /\ failures[k].lastWarn \in Int
        BY <1>3, <1>5, <2>1 DEF Complaints, Refusals
      <4>2. Never <= now
        BY <1>3, <2>1 DEF IInv, Typed, Never
      <4> QED
        BY <1>3, <1>6, <1>7, <2>1, <3>1, <4>1, <4>2
    <3>2. CASE j # k
      BY <1>4, <1>6, <2>1, <3>2 DEF Complaints
    <3> QED
      BY <3>1, <3>2
  <2>3. ASSUME NEW j \in Keys \ displaced'
        PROVE  \/ now - warned'[j] > WarnGap
               \/ j \in DOMAIN failures' /\ failures'[j].lastWarn = warned'[j]
    <3>1. /\ j \notin displaced /\ (j \in DOMAIN failures => j \in DOMAIN tab)
          /\ \/ now - warned[j] > WarnGap
             \/ j \in DOMAIN failures /\ failures[j].lastWarn = warned[j]
      <4>1. j \in Keys \ displaced /\ j \notin DOMAIN failures \ DOMAIN tab
        BY <1>1, <2>3
      <4> QED
        BY <2>1, <4>1 DEF Complaints
    <3>2. CASE j # k
      BY <1>3, <1>6, <1>7, <3>1, <3>2
    <3>3. CASE j = k /\ warned' = warned
      BY <1>6, <1>7, <3>1, <3>3
    <3>4. CASE j = k /\ warned' = [warned EXCEPT ![k] = now] /\ failures'[k].lastWarn = now
      BY <1>3, <1>6, <3>4
    <3> QED
      BY <1>7, <3>2, <3>3, <3>4
  <2> QED
    BY <2>1, <2>2, <2>3 DEF Complaints
<1> QED
  BY <1>9, <1>10, <1>11, <1>12, <1>13 DEF IInv, MainInv, Limiters

(* An entry that is dropped for being idle has no complaint to remember. *)
LEMMA SweepingFailures ==
  ASSUME IInv, SweepFailures
  PROVE  IInv'
<1>1. /\ failures' = [k \in {j \in DOMAIN failures : ~Idle(failures[j].lastSeen)} |-> failures[k]]
      /\ UNCHANGED <<limited, req, limiterVars, sweeping, now, historyVars>>
  BY DEF SweepFailures
<1> DEFINE D == {j \in DOMAIN failures : ~Idle(failures[j].lastSeen)}
<1>2. /\ failures \in Partial(Keys, Refusals) /\ now \in Int /\ warned \in [Keys -> Int]
      /\ Bounded(failures, MaxTracked)
  BY DEF IInv, Typed, SmallTables
<1>3. D \subseteq DOMAIN failures /\ D \in SUBSET DOMAIN failures
  OBVIOUS
<1>4. IsFiniteSet(D) /\ Cardinality(D) <= MaxTracked
  BY <1>2, <1>3, Shrinks, Numbers
<1>5. failures' \in Partial(Keys, Refusals) /\ DOMAIN failures' = D /\ \A k \in D : failures'[k] = failures[k]
  BY <1>1, <1>2, PartType
<1>6. Typed' /\ SmallTables'
  BY <1>1, <1>4, <1>5 DEF IInv, Typed, SmallTables, limiterVars, historyVars, Bounded
<1>7. /\ Limiters' /\ \A x \in Requests : Charging(x) /\ req'[x] = req[x] => Charging(x)'
  BY <1>1, LimiterAlone DEF IInv, MainInv, Limiters, historyVars
<1>8. ChargedToOwner' /\ InFlight'
  BY <1>1, <1>7 DEF IInv, MainInv, InFlight, ChargedToOwner
<1>9. Complaints'
  <2>1. Complaints /\ now' = now /\ warned' = warned /\ displaced' = displaced
    BY <1>1 DEF IInv, historyVars
  <2>2. ASSUME NEW k \in Keys \ displaced, k \in DOMAIN failures \ D, failures[k].lastWarn = warned[k]
        PROVE  now - warned[k] > WarnGap
    <3>1. now - failures[k].lastSeen > IdleTtl /\ failures[k].lastWarn <= failures[k].lastSeen
      BY <2>1, <2>2 DEF Idle, Complaints
    <3>2. failures[k].lastSeen \in Int /\ failures[k].lastWarn \in Int
      <4>1. failures[k] \in Refusals
        BY <1>2, <2>2, PartialIs
      <4> QED
        BY <4>1 DEF Refusals
    <3> QED
      BY <1>2, <2>2, <3>1, <3>2, Numbers
  <2> HIDE DEF D
  <2> QED
    BY <1>3, <1>5, <2>1, <2>2 DEF Complaints
<1> QED
  BY <1>6, <1>7, <1>8, <1>9 DEF IInv, MainInv, Limiters

LEMMA Standing ==
  ASSUME IInv, Stop \/ UNCHANGED vars
  PROVE  IInv'
<1>1. UNCHANGED <<limited, req, limiterVars, failures, now, historyVars>>
  BY DEF Stop, vars
<1>2. Typed' /\ SmallTables'
  BY <1>1 DEF IInv, Typed, SmallTables, limiterVars, historyVars, Bounded
<1>3. /\ Limiters' /\ \A x \in Requests : Charging(x) /\ req'[x] = req[x] => Charging(x)'
  BY <1>1, LimiterAlone DEF IInv, MainInv, Limiters, historyVars
<1>4. ChargedToOwner' /\ InFlight' /\ Complaints'
  BY <1>1, <1>3, FailuresAlone DEF IInv, MainInv, InFlight, ChargedToOwner, historyVars
<1> QED
  BY <1>2, <1>3, <1>4 DEF IInv, MainInv, Limiters

(* When an entry is dropped for being idle, a full bucket is due to it. *)
LEMMA Sweeping ==
  ASSUME IInv, Sweep
  PROVE  IInv'
<1> DEFINE D     == {j \in DOMAIN table : ~Idle(table[j].lastSeen)}
           S(k)  == {u \in DOMAIN table[k].sessions : ~Idle(table[k].sessions[u].lastSeen)}
           own(k) == [s \in S(k) |-> table[k].sessions[s]]
<1>1. /\ table' = [k \in D |-> [table[k] EXCEPT !.sessions = own(k)]]
      /\ UNCHANGED <<limited, req, ceiling, share, failures, sweeping, now, historyVars>>
  BY DEF Sweep
<1>2. /\ table \in Partial(Keys, Entries) /\ now \in Nat /\ SmallTables /\ Typed /\ Limiters
      /\ InFlight
  BY DEF IInv, Typed, MainInv, Limiters
<1>3. ASSUME NEW k \in D
      PROVE  /\ k \in DOMAIN table' /\ k \in DOMAIN table /\ ~Idle(table[k].lastSeen)
             /\ table'[k] = [table[k] EXCEPT !.sessions = own(k)]
             /\ table'[k].limiter = table[k].limiter /\ table'[k].lastSeen = table[k].lastSeen
             /\ table'[k].sessions = own(k) /\ table'[k] \in Entries
             /\ Bounded(table'[k].sessions, MaxSessions)
  <2>1. k \in DOMAIN table /\ ~Idle(table[k].lastSeen)
    OBVIOUS
  <2>2. table[k] \in Entries /\ table[k].sessions \in Partial(Sessions, Buckets)
    BY <1>2, <2>1, EntryIs
  <2>3. table'[k] = [table[k] EXCEPT !.sessions = own(k)] /\ k \in DOMAIN table'
    BY <1>1
  <2>4. S(k) \in SUBSET DOMAIN table[k].sessions /\ DOMAIN own(k) = S(k)
    OBVIOUS
  <2>5. own(k) \in Partial(Sessions, Buckets)
    BY <2>2, <2>4, PartType
  <2>6. Bounded(own(k), MaxSessions)
    <3>1. Bounded(table[k].sessions, MaxSessions)
      BY <1>2, <2>1 DEF SmallTables
    <3>2. IsFiniteSet(S(k)) /\ Cardinality(S(k)) <= MaxSessions
      BY <2>4, <3>1, Shrinks, Numbers
    <3> QED
      BY <2>4, <3>2 DEF Bounded
  <2> HIDE DEF own, S
  <2> QED
    BY <2>1, <2>2, <2>3, <2>5, <2>6 DEF Entries
<1>4. DOMAIN table' = D /\ table' = [k \in DOMAIN table' |-> table'[k]]
  BY <1>1
<1>5. ASSUME NEW k \in D, NEW s
      PROVE  s \in DOMAIN table'[k].sessions <=>
               s \in DOMAIN table[k].sessions /\ ~Idle(table[k].sessions[s].lastSeen)
  BY <1>3
<1>6. ASSUME NEW k \in D, NEW s \in DOMAIN table'[k].sessions
      PROVE  s \in DOMAIN table[k].sessions /\ table'[k].sessions[s] = table[k].sessions[s]
  BY <1>3
<1>7. D \subseteq DOMAIN table
  OBVIOUS
<1> HIDE DEF D, S, own
<1>8. table' \in Partial(Keys, Entries)
  <2>1. DOMAIN table \subseteq Keys
    BY <1>2, PartialIs
  <2> QED
    BY <1>3, <1>4, <1>7, <2>1, PartialIs
<1>9. Typed'
  BY <1>1, <1>2, <1>8 DEF Typed, historyVars
<1>10. SmallTables'
  <2>1. Bounded(table, MaxTracked) /\ Bounded(failures', MaxTracked)
    BY <1>1, <1>2 DEF SmallTables, Bounded
  <2>2. IsFiniteSet(D) /\ Cardinality(D) <= MaxTracked
    BY <1>7, <2>1, Shrinks, Numbers
  <2> QED
    BY <1>3, <1>4, <2>1, <2>2 DEF SmallTables, Bounded
<1>11. ChargedToOwner' /\ Complaints'
  BY <1>1, FailuresAlone DEF IInv, ChargedToOwner, historyVars
<1>12. SeenInOrder' /\ OwnCeilings'
  <2>1. SeenInOrder /\ now' = now /\ OwnCeilings
    BY <1>1, <1>2 DEF Limiters
  <2>2. SeenInOrder'
    BY <1>3, <1>4, <1>6, <2>1 DEF SeenInOrder
  <2>3. OwnCeilings'
    BY <1>3, <1>4, <2>1 DEF OwnCeilings
  <2> QED
    BY <2>2, <2>3
<1>13. OwnShares'
  BY <1>2, <1>4, <1>6, <1>7 DEF Limiters, OwnShares
<1>14. ASSUME NEW n \in Int, n = now PROVE ~Idle(n)
  BY <1>2, <1>14, Numbers DEF Idle
<1>15. InFlight'
  <2> SUFFICES ASSUME NEW r \in Requests, Charging(r) PROVE Charging(r)'
    BY <1>2 DEF InFlight
  <2>1. req' = req /\ now' = now /\ displaced' = displaced
    BY <1>1 DEF historyVars
  <2>2. HoldsCeiling(r) => HoldsCeiling(r)'
    <3>1. CASE req[r].key \in DOMAIN table /\ table[req[r].key].limiter = req[r].ceiling
               /\ table[req[r].key].lastSeen = now
      <4>1. req[r].key \in D
        BY <1>2, <1>14, <3>1 DEF D
      <4> QED
        BY <1>3, <2>1, <3>1, <4>1 DEF HoldsCeiling
    <3>2. CASE req[r].key \in displaced /\ \A j \in DOMAIN table : table[j].limiter # req[r].ceiling
      BY <1>3, <1>4, <1>7, <2>1, <3>2 DEF HoldsCeiling
    <3> QED
      BY <3>1, <3>2 DEF HoldsCeiling
  <2>3. HoldsShare(r) => HoldsShare(r)'
    <3> DEFINE k == req[r].key
               s == req[r].sid
    <3>1. CASE /\ k \in DOMAIN table /\ s \in DOMAIN table[k].sessions
               /\ table[k].sessions[s].limiter = req[r].share /\ table[k].sessions[s].lastSeen = now
      <4>1. table[k].lastSeen = now
        <5>1. table[k].sessions[s].lastSeen <= table[k].lastSeen /\ table[k].lastSeen <= now
          BY <1>2, <3>1 DEF Limiters, SeenInOrder
        <5>2. table[k].lastSeen \in Int
          BY <1>2, <3>1, EntryIs
        <5> QED
          BY <1>2, <3>1, <5>1, <5>2
      <4>2. k \in D /\ ~Idle(table[k].sessions[s].lastSeen)
        BY <1>2, <1>14, <3>1, <4>1 DEF D
      <4>3. s \in DOMAIN table'[k].sessions
        BY <1>5, <3>1, <4>2
      <4>4. table'[k].sessions[s] = table[k].sessions[s]
        BY <1>6, <4>2, <4>3
      <4> QED
        BY <1>4, <2>1, <3>1, <4>2, <4>3, <4>4 DEF HoldsShare
    <3>2. CASE /\ k \in displaced
               /\ \A j \in DOMAIN table : \A u \in DOMAIN table[j].sessions :
                    table[j].sessions[u].limiter # req[r].share
      BY <1>4, <1>6, <1>7, <2>1, <3>2 DEF HoldsShare
    <3> QED
      BY <3>1, <3>2 DEF HoldsShare
  <2> QED
    BY <2>1, <2>2, <2>3 DEF Charging
<1>16. SpentWhenSeen'
  <2>1. passed' = passed /\ shared' = shared /\ displaced' = displaced
    BY <1>1 DEF historyVars
  <2> QED
    BY <1>2, <1>3, <1>4, <1>6, <1>7, <2>1 DEF Limiters, SpentWhenSeen
<1>17. ASSUME NEW k \in (DOMAIN table \ D) \ displaced
       PROVE  Turnover * (passed[k] * Cost + Factor * Burst) <= Due(Factor * Burst, Factor * Renewed, now)
  <2>1. now - table[k].lastSeen > IdleTtl /\ table[k].lastSeen \in Int /\ k \in Keys
    BY <1>2, EntryIs DEF D, Idle
  <2>2. passed[k] * Cost \in Int
    BY <1>2, <2>1, ProductType, Numbers DEF Typed
  <2>3. Turnover * (passed[k] * Cost) <= Due(Factor * Burst, Factor * Renewed, table[k].lastSeen)
    BY <1>2 DEF Limiters, SpentWhenSeen
  <2> QED
    BY <1>2, <2>1, <2>2, <2>3, IdleIsDue, FullCeiling, Turns
<1>18. ASSUME NEW k \in DOMAIN table \ displaced, NEW s \in DOMAIN table[k].sessions,
              k \notin D \/ Idle(table[k].sessions[s].lastSeen)
       PROVE  Turnover * (shared[k][s] * Cost + Burst) <= Due(Burst, Renewed, now)
  <2> DEFINE seen == table[k].sessions[s].lastSeen
  <2>1. table[k].lastSeen \in Int /\ seen \in Int /\ k \in Keys /\ s \in Sessions
    BY <1>2, EntryIs
  <2>2. seen <= table[k].lastSeen
    BY <1>2 DEF Limiters, SeenInOrder
  <2>3. now - seen > IdleTtl
    <3>1. k \notin D => now - table[k].lastSeen > IdleTtl
      BY DEF D, Idle
    <3>2. Idle(seen) => now - seen > IdleTtl
      BY DEF Idle
    <3> HIDE DEF seen
    <3>3. k \notin D \/ Idle(seen)
      BY <1>18 DEF seen
    <3> QED
      BY <1>2, <2>1, <2>2, <3>1, <3>2, <3>3, Numbers
  <2>4. Turnover * (shared[k][s] * Cost) <= Due(Burst, Renewed, seen)
    BY <1>2 DEF Limiters, SpentWhenSeen
  <2>5. shared[k][s] * Cost \in Int
    <3>1. shared[k][s] \in Nat
      BY <1>2, <2>1 DEF Typed
    <3> QED
      BY <3>1, ProductType, Numbers
  <2>6. Burst \in Nat /\ Renewed \in Nat /\ Burst <= Renewed /\ now \in Int
    BY <1>2, Numbers, Turns
  <2> HIDE DEF seen
  <2> QED
    BY <2>1, <2>3, <2>4, <2>5, <2>6, IdleIsDue
<1>19. Budgets'
  <2>1. /\ passed' = passed /\ shared' = shared /\ displaced' = displaced /\ now' = now
        /\ ceiling' = ceiling /\ share' = share
    BY <1>1 DEF historyVars
  <2>2. ASSUME NEW k \in Keys \ displaced
        PROVE  Turnover * (passed[k] * Cost + CeilingOf(k)') <= Due(Factor * Burst, Factor * Renewed, now)
    <3>1. CASE k \in DOMAIN table \ D
      <4>1. CeilingOf(k)' = Factor * Burst
        BY <1>4, <3>1 DEF CeilingOf
      <4> QED
        BY <1>17, <3>1, <4>1
    <3>2. CASE k \notin DOMAIN table \ D
      <4>1. CeilingOf(k)' = CeilingOf(k)
        BY <1>3, <1>4, <1>7, <2>1, <3>2 DEF CeilingOf
      <4> QED
        BY <1>2, <4>1 DEF Limiters, Budgets
    <3> QED
      BY <3>1, <3>2
  <2>3. ASSUME NEW k \in Keys \ displaced, NEW s \in Sessions
        PROVE  Turnover * (shared[k][s] * Cost + ShareOf(k, s)') <= Due(Burst, Renewed, now)
    <3>1. CASE /\ k \in DOMAIN table /\ s \in DOMAIN table[k].sessions
               /\ (k \notin D \/ Idle(table[k].sessions[s].lastSeen))
      <4>1. ~(k \in DOMAIN table' /\ s \in DOMAIN table'[k].sessions)
        BY <1>4, <1>5, <3>1
      <4>2. ShareOf(k, s)' = Burst
        BY <4>1 DEF ShareOf
      <4> QED
        BY <1>18, <3>1, <4>2
    <3>2. CASE k \in D /\ s \in DOMAIN table'[k].sessions
      <4>1. ShareOf(k, s)' = ShareOf(k, s)
        BY <1>4, <1>6, <1>7, <2>1, <3>2 DEF ShareOf
      <4> QED
        BY <1>2, <4>1 DEF Limiters, Budgets
    <3>3. CASE ~(k \in DOMAIN table /\ s \in DOMAIN table[k].sessions)
      <4>1. ~(k \in DOMAIN table' /\ s \in DOMAIN table'[k].sessions)
        BY <1>4, <1>6, <1>7, <3>3
      <4>2. ShareOf(k, s)' = ShareOf(k, s)
        BY <3>3, <4>1 DEF ShareOf
      <4> QED
        BY <1>2, <4>2 DEF Limiters, Budgets
    <3>4. k \in D /\ s \in DOMAIN table[k].sessions /\ ~Idle(table[k].sessions[s].lastSeen)
            => s \in DOMAIN table'[k].sessions
      BY <1>5
    <3> QED
      BY <3>1, <3>2, <3>3, <3>4
  <2> QED
    BY <2>1, <2>2, <2>3 DEF Budgets
<1>20. BudgetsKept'
  <2>1. passed' = passed /\ ceiling' = ceiling
    BY <1>1 DEF historyVars
  <2> QED
    BY <1>2, <1>3, <1>4, <1>7, <2>1 DEF Limiters, BudgetsKept
<1> QED
  BY <1>9, <1>10, <1>11, <1>12, <1>13, <1>15, <1>16, <1>19, <1>20 DEF IInv, MainInv

(* What a tick does to a bucket. *)
LEMMA RefilledIs ==
  ASSUME NEW rate \in Nat, NEW burst \in Nat, NEW units \in 0..burst
  PROVE  /\ Refilled(units, rate, burst) \in 0..burst
         /\ units <= Refilled(units, rate, burst) /\ Refilled(units, rate, burst) <= units + rate
  BY DEF Refilled

LEMMA Ticking ==
  ASSUME IInv, Tick
  PROVE  IInv'
<1>1. /\ InUse = {} /\ now' = now + 1
      /\ ceiling' = [i \in Ids |-> Refilled(ceiling[i], Factor * Rate, Factor * Burst)]
      /\ share' = [i \in Ids |-> Refilled(share[i], Rate, Burst)]
      /\ failures' = [k \in DOMAIN failures |->
            [failures[k] EXCEPT !.units = Refilled(@, Factor * FailRate, Factor * FailBurst)]]
      /\ UNCHANGED <<limited, req, table, sweeping, historyVars>>
  BY DEF Tick
<1>2. Typed /\ SmallTables /\ Limiters /\ Complaints /\ InFlight /\ ChargedToOwner
  BY DEF IInv, MainInv, Limiters
<1>3. now \in Nat /\ now' \in Nat /\ now' = now + 1
  BY <1>1, <1>2 DEF Typed
<1>4. ASSUME NEW i \in Ids
      PROVE  /\ ceiling[i] \in 0..Factor * Burst /\ share[i] \in 0..Burst
             /\ ceiling'[i] \in 0..Factor * Burst /\ share'[i] \in 0..Burst
             /\ ceiling[i] <= ceiling'[i] /\ ceiling'[i] <= ceiling[i] + Factor * Rate
             /\ share'[i] <= share[i] + Rate
  <2>1. ceiling[i] \in 0..Factor * Burst /\ share[i] \in 0..Burst
    BY <1>2 DEF Typed
  <2>2. /\ ceiling'[i] = Refilled(ceiling[i], Factor * Rate, Factor * Burst)
        /\ share'[i] = Refilled(share[i], Rate, Burst)
    BY <1>1
  <2>3. Factor * Burst \in Nat /\ Factor * Rate \in Nat /\ Rate \in Nat /\ Burst \in Nat
    BY FullCeiling, Numbers
  <2>4. /\ ceiling'[i] \in 0..Factor * Burst
        /\ ceiling[i] <= ceiling'[i] /\ ceiling'[i] <= ceiling[i] + Factor * Rate
    BY <2>1, <2>2, <2>3, RefilledIs, Zenon
  <2>5. /\ share'[i] \in 0..Burst /\ share'[i] <= share[i] + Rate
    BY <2>1, <2>2, <2>3, RefilledIs, Zenon
  <2> QED
    BY <2>1, <2>4, <2>5
<1>5. /\ failures' \in Partial(Keys, Refusals) /\ DOMAIN failures' = DOMAIN failures
      /\ \A k \in DOMAIN failures : /\ failures'[k].lastSeen = failures[k].lastSeen
                                    /\ failures'[k].lastWarn = failures[k].lastWarn
                                    /\ failures[k].lastSeen \in Int
  <2>1. DOMAIN failures \subseteq Keys /\ \A k \in DOMAIN failures : failures[k] \in Refusals
    BY <1>2, PartialIs DEF Typed
  <2>2. ASSUME NEW e \in Refusals
        PROVE  LET new == [e EXCEPT !.units = Refilled(@, Factor * FailRate, Factor * FailBurst)] IN
               /\ new \in Refusals /\ new.lastSeen = e.lastSeen /\ new.lastWarn = e.lastWarn
               /\ e.lastSeen \in Int
    <3>1. e.units \in 0..Factor * FailBurst
      BY DEF Refusals
    <3>2. Refilled(e.units, Factor * FailRate, Factor * FailBurst) \in 0..Factor * FailBurst
      BY <3>1, RefilledIs, FullCeiling
    <3> QED
      BY <3>2 DEF Refusals
  <2>3. \A k \in DOMAIN failures : failures'[k] =
          [failures[k] EXCEPT !.units = Refilled(@, Factor * FailRate, Factor * FailBurst)]
    BY <1>1
  <2>4. DOMAIN failures' = DOMAIN failures /\ failures' = [k \in DOMAIN failures' |-> failures'[k]]
    BY <1>1
  <2>5. \A k \in DOMAIN failures : /\ failures'[k] \in Refusals
                                   /\ failures'[k].lastSeen = failures[k].lastSeen
                                   /\ failures'[k].lastWarn = failures[k].lastWarn
                                   /\ failures[k].lastSeen \in Int
    BY <2>1, <2>2, <2>3
  <2> QED
    BY <2>1, <2>4, <2>5, PartialIs
<1>6. /\ req' = req /\ table' = table /\ limited' = limited /\ passed' = passed /\ shared' = shared
      /\ warned' = warned /\ displaced' = displaced
  BY <1>1 DEF historyVars
<1>7. ceiling' \in [Ids -> 0..Factor * Burst] /\ share' \in [Ids -> 0..Burst]
  BY <1>1, <1>4
<1>8. Typed' /\ SmallTables' /\ ChargedToOwner'
  BY <1>2, <1>3, <1>5, <1>6, <1>7 DEF Typed, SmallTables, Bounded, ChargedToOwner
<1>9. SeenInOrder' /\ OwnCeilings' /\ OwnShares'
  <2>1. \A k \in DOMAIN table : table[k].lastSeen \in Int
    BY <1>2, EntryIs
  <2>2. SeenInOrder'
    BY <1>2, <1>3, <1>6, <2>1 DEF Limiters, SeenInOrder
  <2> QED
    BY <1>2, <1>6, <2>2 DEF Limiters, OwnCeilings, OwnShares
<1>10. InFlight'
  <2> SUFFICES ASSUME NEW r \in Requests PROVE Charging(r)'
    BY DEF InFlight
  <2>1. req[r].pc \notin {"ceiling", "share"}
    BY <1>1 DEF InUse
  <2> QED
    BY <1>2, <1>6, <2>1 DEF InFlight, Charging
<1>11. SpentWhenSeen'
  BY <1>2, <1>6 DEF Limiters, SpentWhenSeen
<1>12. Budgets'
  <2>1. ASSUME NEW k \in Keys
        PROVE  CeilingOf(k) \in Int /\ CeilingOf(k)' \in Int /\ CeilingOf(k)' <= CeilingOf(k) + Factor * Rate
    <3>1. CASE k \in DOMAIN table
      <4>1. table[k].limiter \in Ids
        BY <1>2, <3>1, EntryIs
      <4> QED
        BY <1>4, <1>6, <3>1, <4>1 DEF CeilingOf
    <3>2. CASE k \notin DOMAIN table
      BY <1>6, <3>2, FullCeiling DEF CeilingOf
    <3> QED
      BY <3>1, <3>2
  <2>2. ASSUME NEW k \in Keys, NEW s \in Sessions
        PROVE  ShareOf(k, s) \in Int /\ ShareOf(k, s)' \in Int /\ ShareOf(k, s)' <= ShareOf(k, s) + Rate
    <3>1. CASE k \in DOMAIN table /\ s \in DOMAIN table[k].sessions
      <4>1. table[k].sessions[s].limiter \in Ids
        BY <1>2, <3>1, EntryIs
      <4> QED
        BY <1>4, <1>6, <3>1, <4>1 DEF ShareOf
    <3>2. CASE ~(k \in DOMAIN table /\ s \in DOMAIN table[k].sessions)
      BY <1>6, <3>2, Numbers DEF ShareOf
    <3> QED
      BY <3>1, <3>2
  <2>3. ASSUME NEW k \in Keys \ displaced
        PROVE  Turnover * (passed[k] * Cost + CeilingOf(k)') <= Due(Factor * Burst, Factor * Renewed, now + 1)
    <3>1. Turnover * (passed[k] * Cost + CeilingOf(k)) <= Due(Factor * Burst, Factor * Renewed, now)
      BY <1>2 DEF Limiters, Budgets
    <3>2. passed[k] * Cost \in Int
      BY <1>2, Numbers DEF Typed
    <3> QED
      BY <1>3, <2>1, <3>1, <3>2, TickIsDue, FullCeiling, Turns
  <2>4. ASSUME NEW k \in Keys \ displaced, NEW s \in Sessions
        PROVE  Turnover * (shared[k][s] * Cost + ShareOf(k, s)') <= Due(Burst, Renewed, now + 1)
    <3>1. Turnover * (shared[k][s] * Cost + ShareOf(k, s)) <= Due(Burst, Renewed, now)
      BY <1>2 DEF Limiters, Budgets
    <3>2. shared[k][s] * Cost \in Int
      BY <1>2, Numbers DEF Typed
    <3>3. Rate \in Nat /\ Burst \in Nat /\ Renewed \in Nat /\ Turnover * Rate <= Renewed
      BY Numbers, Turns
    <3>4. ShareOf(k, s) \in Int /\ ShareOf(k, s)' \in Int /\ ShareOf(k, s)' <= ShareOf(k, s) + Rate /\ now \in Int
      BY <1>3, <2>2
    <3> QED
      BY <3>1, <3>2, <3>3, <3>4, TickIsDue
  <2> QED
    BY <1>3, <1>6, <2>3, <2>4 DEF Budgets
<1>13. BudgetsKept'
  <2>1. ASSUME NEW k \in DOMAIN table
        PROVE  ceiling'[table[k].limiter] + passed[k] * Cost >= Factor * Burst
    <3>1. table[k].limiter \in Ids /\ k \in Keys
      BY <1>2, EntryIs
    <3>2. ceiling[table[k].limiter] + passed[k] * Cost >= Factor * Burst
      BY <1>2 DEF Limiters, BudgetsKept
    <3>3. passed[k] * Cost \in Int
      BY <1>2, <3>1, Numbers DEF Typed
    <3> QED
      BY <1>4, <3>1, <3>2, <3>3, FullCeiling
  <2> QED
    BY <1>6, <2>1 DEF BudgetsKept
<1>14. Complaints'
  <2>1. \A k \in Keys : warned[k] \in Int
    BY <1>2 DEF Typed
  <2> QED
    BY <1>2, <1>3, <1>5, <1>6, <2>1, Numbers DEF Complaints
<1> QED
  BY <1>8, <1>9, <1>10, <1>11, <1>12, <1>13, <1>14 DEF IInv, MainInv

(* A charge leaves the tables alone, and whose each bucket is. *)
LEMMA TablesAlone ==
  ASSUME MainInv, UNCHANGED <<table, now>>, displaced \subseteq displaced'
  PROVE  /\ SeenInOrder' /\ OwnCeilings' /\ OwnShares'
         /\ \A r \in Requests : req'[r] = req[r] => Charging(r)'
         /\ \A r \in Requests : req'[r].key = req[r].key /\ req'[r].sid = req[r].sid
                                /\ req'[r].share = req[r].share /\ HoldsShare(r) => HoldsShare(r)'
<1>1. SeenInOrder' /\ OwnCeilings' /\ OwnShares'
  BY DEF MainInv, SeenInOrder, OwnCeilings, OwnShares
<1>2. ASSUME NEW r \in Requests, req'[r].key = req[r].key, req'[r].sid = req[r].sid,
             req'[r].share = req[r].share, HoldsShare(r)
      PROVE  HoldsShare(r)'
  BY <1>2 DEF HoldsShare
<1>3. ASSUME NEW r \in Requests, req'[r] = req[r] PROVE Charging(r)'
  <2>1. HoldsCeiling(r) => HoldsCeiling(r)'
    BY <1>3 DEF HoldsCeiling
  <2>2. HoldsShare(r) => HoldsShare(r)'
    BY <1>2, <1>3
  <2> QED
    BY <1>3, <2>1, <2>2 DEF MainInv, InFlight, Charging
<1> QED
  BY <1>1, <1>2, <1>3

(* A token is taken from the address's own ceiling, or from one that nobody   *)
(* has any more.                                                             *)
LEMMA ChargingCeiling ==
  ASSUME IInv, NEW r \in Requests, ChargeCeiling(r)
  PROVE  IInv'
<1> DEFINE i == req[r].ceiling
           k == req[r].key
           rest == IF req[r].share = NoBucket THEN Gone ELSE [req[r] EXCEPT !.pc = "share"]
<1>1. /\ req[r].pc = "ceiling"
      /\ UNCHANGED <<limited, table, share, failures, sweeping, now, shared, warned, displaced>>
  BY DEF ChargeCeiling
<1>2. Typed /\ SmallTables /\ Limiters /\ Complaints /\ MainInv /\ ChargedToOwner
  BY DEF IInv, MainInv, Limiters
<1>3. Charging(r) /\ req \in [Requests -> Calls] /\ req[r] \in Calls
  BY <1>2 DEF MainInv, InFlight, Typed
<1>4. i \in Ids /\ k \in Keys /\ req[r].token /\ HoldsCeiling(r)
  BY <1>1, <1>3 DEF Charging, Calls
<1>5. Complaints'
  BY <1>1, <1>2, FailuresAlone
<1>6. CASE ~(ceiling[i] >= Cost)
  <2>1. req' = [req EXCEPT ![r] = Gone] /\ UNCHANGED <<ceiling, passed>>
    BY <1>6 DEF ChargeCeiling
  <2>2. req' \in [Requests -> Calls] /\ ChargedToOwner' /\ Charging(r)'
    BY <1>2, <1>3, <2>1, Leaving
  <2>3. Typed' /\ SmallTables'
    BY <1>1, <1>2, <2>1, <2>2 DEF Typed, SmallTables, Bounded
  <2>4. /\ Limiters' /\ \A x \in Requests : Charging(x) /\ req'[x] = req[x] => Charging(x)'
    BY <1>1, <1>2, <2>1, LimiterAlone DEF limiterVars
  <2>5. InFlight'
    BY <1>2, <1>3, <2>1, <2>2, <2>4 DEF MainInv, InFlight
  <2> QED
    BY <1>5, <2>2, <2>3, <2>4, <2>5 DEF IInv, MainInv, Limiters
<1>7. CASE ceiling[i] >= Cost
  <2>1. /\ ceiling' = [ceiling EXCEPT ![i] = @ - Cost] /\ req' = [req EXCEPT ![r] = rest]
        /\ passed' = [passed EXCEPT ![k] = @ + 1]
    BY <1>4, <1>7 DEF ChargeCeiling
  <2>2. /\ ceiling[i] \in 0..Factor * Burst /\ ceiling[i] - Cost \in 0..Factor * Burst
        /\ ceiling \in [Ids -> 0..Factor * Burst] /\ passed \in [Keys -> Nat]
    <3>1. ceiling[i] \in 0..Factor * Burst
      BY <1>2, <1>4 DEF Typed
    <3> QED
      BY <1>2, <1>7, <3>1, FullCeiling, Numbers DEF Typed
  <2>3. /\ rest \in Calls /\ rest.key = rest.owner
        /\ rest = Gone \/ (/\ rest.pc = "share" /\ rest.token /\ rest.share # NoBucket
                           /\ rest.key = k /\ rest.sid = req[r].sid /\ rest.share = req[r].share
                           /\ req[r].share # NoBucket)
    <3>1. CASE req[r].share = NoBucket
      BY <3>1, GoneType
    <3>2. CASE req[r].share # NoBucket
      <4>1. req[r].key = req[r].owner
        BY <1>2 DEF ChargedToOwner
      <4> QED
        BY <1>3, <1>4, <3>2, <4>1 DEF Calls
    <3> QED
      BY <3>1, <3>2
  <2> HIDE DEF i, k, rest
  <2>4. /\ ceiling'[i] = ceiling[i] - Cost /\ \A j \in Ids : j # i => ceiling'[j] = ceiling[j]
        /\ ceiling' \in [Ids -> 0..Factor * Burst]
        /\ passed'[k] = passed[k] + 1 /\ \A j \in Keys : j # k => passed'[j] = passed[j]
        /\ passed' \in [Keys -> Nat]
    BY <1>4, <2>1, <2>2
  <2>5. /\ req'[r] = rest /\ \A x \in Requests : x # r => req'[x] = req[x]
        /\ req' \in [Requests -> Calls]
    BY <1>3, <2>1, <2>3
  <2>6. Typed' /\ SmallTables' /\ ChargedToOwner'
    BY <1>1, <1>2, <2>3, <2>4, <2>5 DEF Typed, SmallTables, Bounded, ChargedToOwner
  <2>7. /\ SeenInOrder' /\ OwnCeilings' /\ OwnShares'
        /\ \A x \in Requests : req'[x] = req[x] => Charging(x)'
        /\ \A x \in Requests : req'[x].key = req[x].key /\ req'[x].sid = req[x].sid
                               /\ req'[x].share = req[x].share /\ HoldsShare(x) => HoldsShare(x)'
    BY <1>1, <1>2, TablesAlone
  <2>8. Charging(r)'
    <3>1. CASE rest = Gone
      BY <2>5, <3>1, GoneType DEF Charging
    <3>2. CASE rest # Gone
      <4>1. /\ req'[r].pc = "share" /\ req'[r].token /\ req'[r].share # NoBucket
            /\ req'[r].key = req[r].key /\ req'[r].sid = req[r].sid /\ req'[r].share = req[r].share
        BY <2>3, <2>5, <3>2 DEF k
      <4>2. req[r].share \in Ids /\ req[r].sid \in Sessions /\ HoldsShare(r)
        BY <1>1, <1>3, <4>1 DEF Charging
      <4>3. HoldsShare(r)'
        BY <2>7, <4>1, <4>2
      <4> QED
        BY <4>1, <4>2, <4>3 DEF Charging
    <3> QED
      BY <3>1, <3>2
  <2>9. InFlight'
    BY <2>5, <2>7, <2>8 DEF InFlight
  <2>10. ASSUME NEW j \in DOMAIN table
         PROVE  /\ j \in Keys /\ table[j].limiter \in Ids /\ ceiling[table[j].limiter] \in 0..Factor * Burst
                /\ table[j].lastSeen \in Int
                /\ table[j].limiter = i => j = k /\ table[j].lastSeen = now
                /\ j = k => table[j].limiter = i \/ k \in displaced
    <3>1. /\ j \in Keys /\ table[j].limiter \in Ids /\ ceiling[table[j].limiter] \in 0..Factor * Burst
          /\ table[j].lastSeen \in Int
      BY <1>2, EntryIs
    <3>2. CASE k \in DOMAIN table /\ table[k].limiter = i /\ table[k].lastSeen = now
      BY <1>2, <3>1, <3>2 DEF MainInv, OwnCeilings
    <3>3. CASE k \in displaced /\ \A x \in DOMAIN table : table[x].limiter # i
      BY <3>1, <3>3
    <3> QED
      BY <1>4, <3>2, <3>3 DEF HoldsCeiling, i, k
  <2>13. (passed[k] + 1) * Cost = passed[k] * Cost + Cost /\ passed[k] * Cost \in Int
    BY <1>4, <2>2, OneMore
  <2>14. ASSUME NEW j \in Keys \ displaced
         PROVE  passed'[j] * Cost + CeilingOf(j)' = passed[j] * Cost + CeilingOf(j)
    <3>1. CASE j # k
      <4>1. CeilingOf(j)' = CeilingOf(j)
        BY <1>1, <2>4, <2>10, <3>1 DEF CeilingOf
      <4> QED
        BY <2>4, <3>1, <4>1
    <3>2. CASE j = k
      <4>1. k \in DOMAIN table /\ table[k].limiter = i
        BY <1>4, <2>14, <3>2 DEF HoldsCeiling, i, k
      <4>2. CeilingOf(j) = ceiling[i] /\ CeilingOf(j)' = ceiling[i] - Cost
        BY <1>1, <2>4, <3>2, <4>1 DEF CeilingOf
      <4> QED
        BY <2>2, <2>4, <2>13, <3>2, <4>2, Numbers, FullCeiling
    <3> QED
      BY <3>1, <3>2
  <2>15. Budgets'
    <3>1. \A j \in Keys, s \in Sessions : ShareOf(j, s)' = ShareOf(j, s)
      BY <1>1 DEF ShareOf
    <3> QED
      BY <1>1, <1>2, <2>14, <3>1 DEF Limiters, Budgets
  <2>11. SpentWhenSeen'
    <3>1. ASSUME NEW j \in DOMAIN table \ displaced
          PROVE  Turnover * (passed'[j] * Cost) <= Due(Factor * Burst, Factor * Renewed, table[j].lastSeen)
      <4>1. CASE j # k
        BY <1>2, <2>4, <2>10, <4>1 DEF Limiters, SpentWhenSeen
      <4>2. CASE j = k
        <5>1. table[j].lastSeen = now /\ CeilingOf(j)' = ceiling[i] - Cost
          BY <1>1, <2>4, <2>10, <4>2 DEF CeilingOf
        <5>2. Turnover * (passed'[j] * Cost + CeilingOf(j)') <= Due(Factor * Burst, Factor * Renewed, now)
          BY <1>1, <2>10, <2>15 DEF Budgets
        <5>3. passed'[j] * Cost \in Int /\ CeilingOf(j)' \in Nat /\ now \in Int
          BY <1>2, <1>4, <2>2, <2>4, <4>2, <5>1, ProductType, Numbers, FullCeiling DEF Typed
        <5>4. Due(Factor * Burst, Factor * Renewed, now) \in Int
          BY <5>3, DueType, FullCeiling, Turns
        <5> QED
          BY <5>1, <5>2, <5>3, <5>4, SpentIsDue
      <4> QED
        BY <4>1, <4>2
    <3>2. \A j \in DOMAIN table \ displaced : \A s \in DOMAIN table[j].sessions :
            Turnover * (shared[j][s] * Cost) <= Due(Burst, Renewed, table[j].sessions[s].lastSeen)
      BY <1>2 DEF Limiters, SpentWhenSeen
    <3> QED
      BY <1>1, <3>1, <3>2 DEF SpentWhenSeen
  <2>16. BudgetsKept'
    <3>1. ASSUME NEW j \in DOMAIN table
          PROVE  ceiling'[table[j].limiter] + passed'[j] * Cost >= Factor * Burst
      <4>1. ceiling[table[j].limiter] + passed[j] * Cost >= Factor * Burst
        BY <1>2 DEF Limiters, BudgetsKept
      <4>2. CASE table[j].limiter = i
        <5>1. j = k
          BY <2>10, <4>2
        <5> QED
          BY <2>2, <2>4, <2>13, <4>1, <4>2, <5>1, Numbers, FullCeiling
      <4>3. CASE table[j].limiter # i /\ j # k
        BY <2>4, <2>10, <4>1, <4>3
      <4>4. CASE table[j].limiter # i /\ j = k
        BY <2>4, <2>10, <2>13, <4>1, <4>4, Numbers, FullCeiling
      <4> QED
        BY <4>2, <4>3, <4>4
    <3> QED
      BY <1>1, <3>1 DEF BudgetsKept
  <2> QED
    BY <1>5, <2>6, <2>7, <2>9, <2>11, <2>15, <2>16 DEF IInv, MainInv
<1> QED
  BY <1>6, <1>7

LEMMA ChargingShare ==
  ASSUME IInv, NEW r \in Requests, ChargeShare(r)
  PROVE  IInv'
<1> DEFINE i == req[r].share
           k == req[r].key
           s == req[r].sid
<1>1. /\ req[r].pc = "share" /\ req' = [req EXCEPT ![r] = Gone]
      /\ UNCHANGED <<limited, table, ceiling, failures, sweeping, now, passed, warned, displaced>>
  BY DEF ChargeShare
<1>2. Typed /\ SmallTables /\ Limiters /\ Complaints /\ MainInv /\ ChargedToOwner
  BY DEF IInv, MainInv, Limiters
<1>3. Charging(r) /\ req \in [Requests -> Calls] /\ req[r] \in Calls
  BY <1>2 DEF MainInv, InFlight, Typed
<1>4. i \in Ids /\ k \in Keys /\ s \in Sessions /\ HoldsShare(r)
  BY <1>1, <1>3 DEF Charging, Calls
<1>5. Complaints'
  BY <1>1, <1>2, FailuresAlone
<1>6. req' \in [Requests -> Calls] /\ ChargedToOwner' /\ Charging(r)'
  BY <1>1, <1>2, <1>3, Leaving
<1>7. CASE ~(share[i] >= Cost)
  <2>1. UNCHANGED <<share, shared>>
    BY <1>7 DEF ChargeShare
  <2>2. Typed' /\ SmallTables'
    BY <1>1, <1>2, <1>6, <2>1 DEF Typed, SmallTables, Bounded
  <2>3. /\ Limiters' /\ \A x \in Requests : Charging(x) /\ req'[x] = req[x] => Charging(x)'
    BY <1>1, <1>2, <2>1, LimiterAlone DEF limiterVars
  <2>4. InFlight'
    BY <1>1, <1>2, <1>3, <1>6, <2>3 DEF MainInv, InFlight
  <2> QED
    BY <1>5, <1>6, <2>2, <2>3, <2>4 DEF IInv, MainInv, Limiters
<1>8. CASE share[i] >= Cost
  <2>1. /\ share' = [share EXCEPT ![i] = @ - Cost]
        /\ shared' = [shared EXCEPT ![k][s] = @ + 1]
    BY <1>8 DEF ChargeShare
  <2>2. /\ share[i] \in 0..Burst /\ share[i] - Cost \in 0..Burst
        /\ share \in [Ids -> 0..Burst] /\ shared \in [Keys -> [Sessions -> Nat]]
    <3>1. share[i] \in 0..Burst
      BY <1>2, <1>4 DEF Typed
    <3> QED
      BY <1>2, <1>8, <3>1, Numbers DEF Typed
  <2> HIDE DEF i, k, s
  <2>3. /\ share'[i] = share[i] - Cost /\ \A j \in Ids : j # i => share'[j] = share[j]
        /\ share' \in [Ids -> 0..Burst]
    BY <1>4, <2>1, <2>2
  <2>4. /\ shared'[k][s] = shared[k][s] + 1 /\ shared' \in [Keys -> [Sessions -> Nat]]
        /\ \A j \in Keys, u \in Sessions : ~(j = k /\ u = s) => shared'[j][u] = shared[j][u]
    <3>1. shared[k] \in [Sessions -> Nat]
      BY <1>4, <2>2
    <3>2. shared' = [shared EXCEPT ![k] = [shared[k] EXCEPT ![s] = shared[k][s] + 1]]
      BY <2>1
    <3>3. [shared[k] EXCEPT ![s] = shared[k][s] + 1] \in [Sessions -> Nat]
      BY <1>4, <3>1
    <3> QED
      BY <1>4, <2>2, <3>1, <3>2, <3>3
  <2>5. Typed' /\ SmallTables'
    BY <1>1, <1>2, <1>6, <2>3, <2>4 DEF Typed, SmallTables, Bounded
  <2>6. /\ SeenInOrder' /\ OwnCeilings' /\ OwnShares'
        /\ \A x \in Requests : req'[x] = req[x] => Charging(x)'
    BY <1>1, <1>2, TablesAlone
  <2>7. InFlight'
    BY <1>1, <1>3, <1>6, <2>6 DEF InFlight
  <2>8. ASSUME NEW j \in DOMAIN table, NEW u \in DOMAIN table[j].sessions
        PROVE  LET e == table[j].sessions[u] IN
               /\ e.limiter \in Ids /\ share[e.limiter] \in 0..Burst /\ e.lastSeen \in Int
               /\ e.limiter = i => j = k /\ u = s /\ e.lastSeen = now
               /\ j \in Keys /\ u \in Sessions
    <3> DEFINE e == table[j].sessions[u]
    <3>1. /\ e.limiter \in Ids /\ share[e.limiter] \in 0..Burst /\ e.lastSeen \in Int
          /\ j \in Keys /\ u \in Sessions
      BY <1>2, EntryIs
    <3>2. CASE /\ k \in DOMAIN table /\ s \in DOMAIN table[k].sessions
               /\ table[k].sessions[s].limiter = i /\ table[k].sessions[s].lastSeen = now
      <4>1. e.limiter = i => j = k /\ u = s
        BY <1>2, <3>2 DEF MainInv, OwnShares
      <4> QED
        BY <3>1, <3>2, <4>1
    <3>3. CASE \A x \in DOMAIN table : \A y \in DOMAIN table[x].sessions :
                 table[x].sessions[y].limiter # i
      BY <3>1, <3>3
    <3> QED
      BY <1>4, <3>2, <3>3 DEF HoldsShare, i, k, s
  <2>11. (shared[k][s] + 1) * Cost = shared[k][s] * Cost + Cost /\ shared[k][s] * Cost \in Int
    BY <1>4, <2>2, OneMore
  <2>12. ASSUME NEW j \in Keys \ displaced, NEW u \in Sessions
         PROVE  shared'[j][u] * Cost + ShareOf(j, u)' = shared[j][u] * Cost + ShareOf(j, u)
    <3>1. CASE ~(j = k /\ u = s)
      <4>1. ShareOf(j, u)' = ShareOf(j, u)
        <5>1. j \in DOMAIN table /\ u \in DOMAIN table[j].sessions =>
                share'[table[j].sessions[u].limiter] = share[table[j].sessions[u].limiter]
          BY <2>3, <2>8, <3>1
        <5> QED
          BY <1>1, <5>1 DEF ShareOf
      <4> QED
        BY <2>4, <3>1, <4>1
    <3>2. CASE j = k /\ u = s
      <4>1. k \in DOMAIN table /\ s \in DOMAIN table[k].sessions /\ table[k].sessions[s].limiter = i
        BY <1>4, <2>12, <3>2 DEF HoldsShare, i, k, s
      <4>2. ShareOf(j, u) = share[i] /\ ShareOf(j, u)' = share[i] - Cost
        BY <1>1, <2>3, <3>2, <4>1 DEF ShareOf
      <4> QED
        BY <2>2, <2>4, <2>11, <3>2, <4>2, Numbers
    <3> QED
      BY <3>1, <3>2
  <2>13. Budgets' /\ BudgetsKept'
    <3>1. \A j \in Keys : CeilingOf(j)' = CeilingOf(j)
      BY <1>1 DEF CeilingOf
    <3>2. Budgets'
      BY <1>1, <1>2, <2>12, <3>1 DEF Limiters, Budgets
    <3> QED
      BY <1>1, <1>2, <3>2 DEF Limiters, BudgetsKept
  <2>14. SpentWhenSeen'
    <3>1. ASSUME NEW j \in DOMAIN table \ displaced, NEW u \in DOMAIN table[j].sessions
          PROVE  Turnover * (shared'[j][u] * Cost) <= Due(Burst, Renewed, table[j].sessions[u].lastSeen)
      <4>1. CASE ~(j = k /\ u = s)
        <5>1. shared'[j][u] = shared[j][u]
          BY <2>4, <2>8, <4>1
        <5> QED
          BY <1>2, <5>1 DEF Limiters, SpentWhenSeen
      <4>2. CASE j = k /\ u = s
        <5>1. table[j].sessions[u].limiter = i /\ table[j].sessions[u].lastSeen = now
          BY <1>4, <3>1, <4>2 DEF HoldsShare, i, k, s
        <5>2. ShareOf(j, u)' = share[i] - Cost
          BY <1>1, <2>3, <3>1, <5>1, <1>4 DEF ShareOf
        <5>3. Turnover * (shared'[j][u] * Cost + ShareOf(j, u)') <= Due(Burst, Renewed, now)
          BY <1>1, <2>8, <2>13 DEF Budgets
        <5>4. shared'[j][u] * Cost \in Int /\ ShareOf(j, u)' \in Nat /\ now \in Int
          <6>1. shared'[j][u] \in Nat
            BY <1>4, <2>4, <4>2
          <6> QED
            BY <1>2, <2>2, <5>2, <6>1, ProductType, Numbers DEF Typed
        <5>5. Due(Burst, Renewed, now) \in Int
          BY <5>4, DueType, Numbers, Turns
        <5> QED
          BY <5>1, <5>3, <5>4, <5>5, SpentIsDue
      <4> QED
        BY <4>1, <4>2
    <3>2. \A j \in DOMAIN table \ displaced :
            Turnover * (passed[j] * Cost) <= Due(Factor * Burst, Factor * Renewed, table[j].lastSeen)
      BY <1>2 DEF Limiters, SpentWhenSeen
    <3> QED
      BY <1>1, <3>1, <3>2 DEF SpentWhenSeen
  <2> QED
    BY <1>5, <1>6, <2>5, <2>6, <2>7, <2>13, <2>14 DEF IInv, MainInv
<1> QED
  BY <1>7, <1>8

(* What the sessions of an address are after a lookup. *)
SessionsAre(r, own) ==
  LET k   == req[r].key
      s   == req[r].sid
      all == table'[k].sessions IN
  /\ all \in Partial(Sessions, Buckets) /\ Bounded(all, MaxSessions)
  /\ DOMAIN own \subseteq DOMAIN all
  /\ \A u \in DOMAIN all :
       \/ /\ u \in DOMAIN own /\ all[u].limiter = own[u].limiter
          /\ all[u].lastSeen = own[u].lastSeen \/ all[u].lastSeen = now
       \/ /\ u \notin DOMAIN own /\ u = s /\ all[u].limiter = NewShare /\ all[u].lastSeen = now
          /\ share' = [share EXCEPT ![NewShare] = Burst]
  /\ share' = share \/ share' = [share EXCEPT ![NewShare] = Burst]
  /\ \/ req'[r].share = NoBucket
     \/ /\ req'[r].share \in Ids /\ s \in DOMAIN all /\ s \in Sessions
        /\ all[s].limiter = req'[r].share /\ all[s].lastSeen = now

LEMMA SessionsLookedUp ==
  ASSUME Typed, SmallTables, NEW r \in Requests, NEW tab, NEW own \in Partial(Sessions, Buckets),
         NEW new \in {"no", "has", "add"}, LookedUp(r, tab, own, new), NamesLeft
  PROVE  SessionsAre(r, own)
<1> DEFINE k   == req[r].key
           s   == req[r].sid
           all == table'[k].sessions
<1>1. now \in Int /\ NewShare \in Ids /\ own \in [DOMAIN own -> Buckets] /\ DOMAIN own \subseteq Sessions
  BY NewNames, PartialIs DEF Typed
<1>2. Bounded(own, MaxSessions)
  <2>1. CASE k \in DOMAIN table
    BY <2>1 DEF LookedUp, SmallTables
  <2>2. CASE k \notin DOMAIN table
    <3>1. own = <<>> /\ DOMAIN own = {}
      BY <2>2 DEF LookedUp
    <3> QED
      BY <3>1, FS_EmptySet, Numbers DEF Bounded
  <2> QED
    BY <2>1, <2>2
<1>3. CASE new = "no"
  <2>1. all = own /\ share' = share /\ req'[r].share = NoBucket
    BY <1>3 DEF LookedUp
  <2> HIDE DEF all, k, s
  <2> QED
    BY <1>2, <2>1 DEF all, k, s, SessionsAre
<1>4. CASE new = "has"
  <2>1. s \in DOMAIN own /\ share' = share /\ all = [own EXCEPT ![s].lastSeen = now]
        /\ req'[r].share = own[s].limiter
    BY <1>4 DEF LookedUp
  <2> HIDE DEF all, k, s
  <2>2. /\ own[s] \in Buckets /\ [own[s] EXCEPT !.lastSeen = now] \in Buckets
        /\ [own[s] EXCEPT !.lastSeen = now].limiter = own[s].limiter
        /\ [own[s] EXCEPT !.lastSeen = now].lastSeen = now /\ own[s].limiter \in Ids
    BY <1>1, <2>1 DEF Buckets
  <2>3. /\ all \in [DOMAIN own -> Buckets] /\ all[s] = [own[s] EXCEPT !.lastSeen = now]
        /\ \A u \in DOMAIN own : u # s => all[u] = own[u]
    BY <1>1, <2>1, <2>2
  <2>4. DOMAIN all = DOMAIN own /\ all \in Partial(Sessions, Buckets)
    BY <1>1, <2>3 DEF Partial
  <2>5. Bounded(all, MaxSessions)
    BY <1>2, <2>4 DEF Bounded
  <2>6. ASSUME NEW u \in DOMAIN all
        PROVE  /\ u \in DOMAIN own /\ all[u].limiter = own[u].limiter
               /\ all[u].lastSeen = own[u].lastSeen \/ all[u].lastSeen = now
    BY <2>2, <2>3, <2>4
  <2>7. req'[r].share \in Ids /\ s \in DOMAIN all /\ s \in Sessions
        /\ all[s].limiter = req'[r].share /\ all[s].lastSeen = now
    BY <1>1, <2>1, <2>2, <2>3, <2>4
  <2> QED
    BY <2>1, <2>4, <2>5, <2>6, <2>7 DEF all, k, s, SessionsAre
<1>5. CASE new = "add"
  <2> DEFINE e == [limiter |-> NewShare, lastSeen |-> now]
  <2>1. /\ s \in Sessions \ DOMAIN own /\ Cardinality(DOMAIN own) < MaxSessions
        /\ share' = [share EXCEPT ![NewShare] = Burst] /\ all = With(own, s, e)
        /\ req'[r].share = NewShare
    BY <1>5 DEF LookedUp
  <2>2. e \in Buckets /\ e.limiter = NewShare /\ e.lastSeen = now
    BY <1>1 DEF Buckets
  <2> HIDE DEF all, k, s, e
  <2>3. /\ all \in Partial(Sessions, Buckets) /\ DOMAIN all = DOMAIN own \cup {s} /\ all[s] = e
        /\ \A u \in DOMAIN own : u # s => all[u] = own[u]
    <3>1. all = [u \in DOMAIN own \cup {s} |-> IF u = s THEN e ELSE own[u]]
      BY <2>1 DEF With
    <3>2. all \in [DOMAIN own \cup {s} -> Buckets] /\ DOMAIN own \cup {s} \subseteq Sessions
      BY <1>1, <2>1, <2>2, <3>1
    <3> QED
      BY <3>1, <3>2 DEF Partial
  <2>4. Bounded(all, MaxSessions)
    <3>1. IsFiniteSet(DOMAIN own \cup {s}) /\ Cardinality(DOMAIN own \cup {s}) <= MaxSessions
      BY <1>2, <2>1, Grows, Numbers
    <3> QED
      BY <2>3, <3>1 DEF Bounded
  <2>5. ASSUME NEW u \in DOMAIN all
        PROVE  \/ u \in DOMAIN own /\ all[u] = own[u]
               \/ u \notin DOMAIN own /\ u = s /\ all[u] = e
    BY <2>1, <2>3
  <2> QED
    BY <1>1, <2>1, <2>2, <2>3, <2>4, <2>5 DEF all, k, s, SessionsAre
<1> QED
  BY <1>3, <1>4, <1>5

(* A lookup gives no entry the bucket of another, nor one that a request      *)
(* still holds, and takes from none what it had.                             *)
LEMMA LookingUp ==
  ASSUME IInv, NEW r \in Requests, Lookup(r)
  PROVE  IInv'
<1> DEFINE k == req[r].key
           s == req[r].sid
<1>1. PICK tab \in Room(table, k), own \in Partial(Sessions, Buckets), new \in {"no", "has", "add"} :
        LookedUp(r, tab, own, new)
  BY LookupIs, Zenon
<1>2. /\ UNCHANGED <<limited, failures, sweeping, now, passed, shared, warned>>
      /\ req[r].pc = "lookup" /\ NamesLeft
  BY DEF Lookup
<1>3. Typed /\ SmallTables /\ Limiters /\ Complaints /\ MainInv /\ ChargedToOwner
  BY DEF IInv, MainInv, Limiters
<1>4. /\ req \in [Requests -> Calls] /\ req[r] \in Calls /\ k \in Keys /\ now \in Nat
      /\ table \in Partial(Keys, Entries) /\ DOMAIN table \subseteq Keys
      /\ ceiling \in [Ids -> 0..Factor * Burst] /\ share \in [Ids -> 0..Burst]
      /\ Bounded(table, MaxTracked) /\ displaced \subseteq Keys
  <2>1. req \in [Requests -> Calls] /\ req[r] \in Calls
    BY <1>3 DEF Typed
  <2>2. k \in Keys
    BY <2>1 DEF Calls
  <2> QED
    BY <1>3, <2>1, <2>2, PartialIs DEF Typed, SmallTables
<1>5. NewCeiling \in Ids \ UsedCeilings /\ NewShare \in Ids \ UsedShares
  BY <1>2, NewNames
<1>6. /\ DOMAIN tab \subseteq DOMAIN table /\ \A j \in DOMAIN tab : tab[j] = table[j]
      /\ k \in DOMAIN table => tab = table
      /\ IsFiniteSet(DOMAIN tab \cup {k}) /\ Cardinality(DOMAIN tab \cup {k}) <= MaxTracked
  BY <1>4, RoomInTable
<1>7. /\ table' = [j \in DOMAIN table' |-> table'[j]] /\ DOMAIN table' = DOMAIN tab \cup {k}
      /\ \A j \in DOMAIN tab : j # k => table'[j] = table[j]
      /\ table'[k].lastSeen = now
      /\ table'[k] \in [limiter : Ids, lastSeen : {now}, sessions : {table'[k].sessions}]
      /\ displaced' = displaced \cup (DOMAIN table \ DOMAIN tab)
  BY <1>1 DEF LookedUp
<1>8. /\ req' = [req EXCEPT ![r] = [@ EXCEPT !.pc = "ceiling", !.ceiling = table'[k].limiter,
                                          !.share = req'[r].share]]
      /\ k \in DOMAIN table =>
           tab = table /\ table'[k].limiter = table[k].limiter /\ own = table[k].sessions /\ ceiling' = ceiling
      /\ k \notin DOMAIN table =>
           /\ table'[k].limiter = NewCeiling /\ own = <<>>
           /\ ceiling' = [ceiling EXCEPT ![NewCeiling] = Factor * Burst]
  BY <1>1 DEF LookedUp
<1> DEFINE all == table'[k].sessions
<1>9. /\ all \in Partial(Sessions, Buckets) /\ Bounded(all, MaxSessions)
      /\ DOMAIN own \subseteq DOMAIN all
      /\ \A u \in DOMAIN all :
           \/ /\ u \in DOMAIN own /\ all[u].limiter = own[u].limiter
              /\ all[u].lastSeen = own[u].lastSeen \/ all[u].lastSeen = now
           \/ /\ u \notin DOMAIN own /\ u = s /\ all[u].limiter = NewShare /\ all[u].lastSeen = now
              /\ share' = [share EXCEPT ![NewShare] = Burst]
      /\ share' = share \/ share' = [share EXCEPT ![NewShare] = Burst]
      /\ \/ req'[r].share = NoBucket
         \/ /\ req'[r].share \in Ids /\ s \in DOMAIN all /\ s \in Sessions
            /\ all[s].limiter = req'[r].share /\ all[s].lastSeen = now
  <2>1. SessionsAre(r, own)
    BY <1>1, <1>2, <1>3, SessionsLookedUp
  <2> QED
    BY <2>1 DEF SessionsAre
<1>10. Complaints'
  BY <1>2, <1>3, <1>7, FailuresAlone
<1> HIDE DEF k, s, all
<1>11. ASSUME NEW j \in DOMAIN table
       PROVE  /\ table[j].limiter \in Ids /\ table[j].lastSeen \in Int /\ table[j] \in Entries
              /\ ceiling[table[j].limiter] \in 0..Factor * Burst
              /\ table[j].limiter # NewCeiling
              /\ \A u \in DOMAIN table[j].sessions :
                   LET e == table[j].sessions[u] IN
                   e.limiter \in Ids /\ e.lastSeen \in Int /\ e.limiter # NewShare /\ share[e.limiter] \in 0..Burst
  <2>1. table[j].limiter # NewCeiling
    BY <1>5 DEF UsedCeilings
  <2>2. ASSUME NEW u \in DOMAIN table[j].sessions PROVE table[j].sessions[u].limiter # NewShare
    BY <1>5, SharesInUse
  <2> QED
    BY <1>3, <2>1, <2>2, EntryIs
(* What each entry was before, *)
<1>12. ASSUME NEW j \in DOMAIN table'
       PROVE  /\ \/ /\ j \in DOMAIN table /\ table'[j].limiter = table[j].limiter
                    /\ ceiling'[table'[j].limiter] = ceiling[table[j].limiter]
                 \/ /\ j \notin DOMAIN table /\ j = k /\ table'[j].limiter = NewCeiling
                    /\ ceiling'[table'[j].limiter] = Factor * Burst
              /\ \/ table'[j].lastSeen = now
                 \/ j \in DOMAIN table /\ table'[j].lastSeen = table[j].lastSeen
  <2>1. CASE j # k
    <3>1. j \in DOMAIN tab /\ j \in DOMAIN table /\ table'[j] = table[j]
      BY <1>6, <1>7, <2>1
    <3>2. ceiling'[table[j].limiter] = ceiling[table[j].limiter]
      <4>1. table[j].limiter \in Ids /\ table[j].limiter # NewCeiling
        BY <1>11, <3>1
      <4> QED
        BY <1>4, <1>8, <4>1
    <3> QED
      BY <3>1, <3>2
  <2>2. CASE j = k
    BY <1>4, <1>5, <1>7, <1>8, <2>2
  <2> QED
    BY <2>1, <2>2
(* and each session. *)
<1>13. ASSUME NEW j \in DOMAIN table', NEW u \in DOMAIN table'[j].sessions
       PROVE  LET e == table'[j].sessions[u] IN
              /\ \/ /\ j \in DOMAIN table /\ u \in DOMAIN table[j].sessions
                    /\ e.limiter = table[j].sessions[u].limiter
                    /\ share'[e.limiter] = share[e.limiter]
                 \/ /\ ~(j \in DOMAIN table /\ u \in DOMAIN table[j].sessions)
                    /\ j = k /\ u = s /\ e.limiter = NewShare /\ share'[e.limiter] = Burst
              /\ \/ e.lastSeen = now
                 \/ /\ j \in DOMAIN table /\ u \in DOMAIN table[j].sessions
                    /\ e.lastSeen = table[j].sessions[u].lastSeen
  <2> DEFINE e == table'[j].sessions[u]
  <2>1. ASSUME NEW i \in Ids, i # NewShare PROVE share'[i] = share[i]
    BY <1>4, <1>9, <2>1
  <2>2. CASE j # k
    <3>1. j \in DOMAIN table /\ table'[j] = table[j]
      BY <1>6, <1>7, <2>2
    <3>2. u \in DOMAIN table[j].sessions
      BY <3>1
    <3>3. e = table[j].sessions[u] /\ table[j].sessions[u].limiter \in Ids
          /\ table[j].sessions[u].limiter # NewShare
      BY <1>11, <3>1, <3>2
    <3> QED
      BY <2>1, <3>1, <3>2, <3>3
  <2>3. CASE j = k
    <3>1. u \in DOMAIN all /\ e = all[u]
      BY <2>3 DEF all
    <3>2. CASE /\ u \in DOMAIN own /\ all[u].limiter = own[u].limiter
               /\ all[u].lastSeen = own[u].lastSeen \/ all[u].lastSeen = now
      <4>1. k \in DOMAIN table /\ own = table[k].sessions
        BY <1>8, <3>2, EmptyTable
      <4>2. table[k].sessions[u].limiter \in Ids /\ table[k].sessions[u].limiter # NewShare
        BY <1>11, <3>2, <4>1
      <4>3. share'[table[k].sessions[u].limiter] = share[table[k].sessions[u].limiter]
        BY <2>1, <4>2
      <4> QED
        BY <2>3, <3>1, <3>2, <4>1, <4>3
    <3>3. CASE /\ u \notin DOMAIN own /\ u = s /\ all[u].limiter = NewShare /\ all[u].lastSeen = now
               /\ share' = [share EXCEPT ![NewShare] = Burst]
      <4>1. share'[NewShare] = Burst
        BY <1>4, <1>5, <3>3
      <4>2. ~(j \in DOMAIN table /\ u \in DOMAIN table[j].sessions)
        BY <1>8, <2>3, <3>3
      <4> QED
        BY <2>3, <3>1, <3>3, <4>1, <4>2
    <3> QED
      BY <1>9, <3>1, <3>2, <3>3
  <2> QED
    BY <2>2, <2>3
(* What was there and is kept. *)
<1>14. ASSUME NEW j \in DOMAIN tab
       PROVE  /\ j \in DOMAIN table' /\ j \in DOMAIN table
              /\ DOMAIN table[j].sessions \subseteq DOMAIN table'[j].sessions
  <2>1. CASE j # k
    BY <1>6, <1>7, <2>1
  <2>2. CASE j = k
    BY <1>6, <1>7, <1>8, <1>9, <2>2 DEF all
  <2> QED
    BY <2>1, <2>2
<1>15. Typed'
  <2>1. table' \in Partial(Keys, Entries)
    <3>1. ASSUME NEW j \in DOMAIN table' PROVE j \in Keys /\ table'[j] \in Entries
      <4>1. CASE j = k
        <5>1. all \in Partial(Sessions, Buckets) /\ now \in Int
          BY <1>4, <1>9
        <5> QED
          BY <1>4, <1>7, <4>1, <5>1 DEF Entries, all
      <4>2. CASE j # k
        BY <1>4, <1>6, <1>7, <1>11, <4>2
      <4> QED
        BY <4>1, <4>2
    <3> QED
      BY <1>7, <3>1, PartialIs
  <2>2. ceiling' \in [Ids -> 0..Factor * Burst] /\ share' \in [Ids -> 0..Burst]
    <3>1. Factor * Burst \in 0..Factor * Burst /\ Burst \in 0..Burst
      BY FullCeiling, Numbers
    <3>2. ceiling' \in [Ids -> 0..Factor * Burst]
      BY <1>4, <1>8, <3>1
    <3>3. share' \in [Ids -> 0..Burst]
      BY <1>4, <1>9, <3>1
    <3> QED
      BY <3>2, <3>3
  <2>3. req' \in [Requests -> Calls]
    <3>1. table'[k].limiter \in Ids /\ req'[r].share \in Ids \cup {NoBucket}
      BY <1>7, <1>9
    <3>2. [req[r] EXCEPT !.pc = "ceiling", !.ceiling = table'[k].limiter, !.share = req'[r].share] \in Calls
      BY <1>4, <3>1 DEF Calls
    <3> QED
      BY <1>4, <1>8, <3>2
  <2>4. displaced' \subseteq Keys
    BY <1>4, <1>7
  <2> QED
    BY <1>2, <1>3, <2>1, <2>2, <2>3, <2>4 DEF Typed
<1>16. SmallTables'
  <2>1. ASSUME NEW j \in DOMAIN table' PROVE Bounded(table'[j].sessions, MaxSessions)
    <3>1. CASE j = k
      BY <1>9, <3>1 DEF all
    <3>2. CASE j # k
      BY <1>3, <1>6, <1>7, <3>2 DEF SmallTables
    <3> QED
      BY <3>1, <3>2
  <2> QED
    BY <1>2, <1>3, <1>6, <1>7, <2>1 DEF SmallTables, Bounded
<1>17. /\ req'[r].key = k /\ req'[r].owner = req[r].owner /\ req'[r].token = req[r].token
       /\ req'[r].sid = s /\ req'[r].pc = "ceiling" /\ req'[r].ceiling = table'[k].limiter
       /\ \A x \in Requests : x # r => req'[x] = req[x]
  <2>1. /\ \A x \in Requests : x # r => req'[x] = req[x]
        /\ req'[r] = [req[r] EXCEPT !.pc = "ceiling", !.ceiling = table'[k].limiter,
                                    !.share = req'[r].share]
    BY <1>4, <1>8
  <2> QED
    BY <1>4, <2>1 DEF Calls, k, s
<1>18. ChargedToOwner'
  BY <1>3, <1>17 DEF ChargedToOwner, k
<1>19. SeenInOrder'
  <2>1. ASSUME NEW j \in DOMAIN table' PROVE table'[j].lastSeen <= now
    BY <1>3, <1>4, <1>12 DEF Limiters, SeenInOrder
  <2>2. ASSUME NEW j \in DOMAIN table', NEW u \in DOMAIN table'[j].sessions
        PROVE  table'[j].sessions[u].lastSeen <= table'[j].lastSeen
    <3>1. CASE j # k
      BY <1>3, <1>6, <1>7, <3>1 DEF Limiters, SeenInOrder
    <3>2. CASE j = k
      <4>1. table'[j].sessions[u].lastSeen <= now
        <5>1. CASE table'[j].sessions[u].lastSeen = now
          BY <1>4, <5>1
        <5>2. CASE /\ j \in DOMAIN table /\ u \in DOMAIN table[j].sessions
                   /\ table'[j].sessions[u].lastSeen = table[j].sessions[u].lastSeen
          <6>1. table[j].sessions[u].lastSeen <= table[j].lastSeen /\ table[j].lastSeen <= now
            BY <1>3, <5>2 DEF Limiters, SeenInOrder
          <6>2. table[j].sessions[u].lastSeen \in Int /\ table[j].lastSeen \in Int
            BY <1>11, <5>2
          <6> QED
            BY <1>4, <5>2, <6>1, <6>2
        <5> QED
          BY <1>13, <5>1, <5>2
      <4> QED
        BY <1>7, <3>2, <4>1
    <3> QED
      BY <3>1, <3>2
  <2> QED
    BY <1>2, <2>1, <2>2 DEF SeenInOrder
<1>20. OwnCeilings'
  <2> SUFFICES ASSUME NEW i \in DOMAIN table', NEW j \in DOMAIN table',
                      table'[i].limiter = table'[j].limiter
               PROVE  i = j
    BY DEF OwnCeilings
  <2>1. CASE i \in DOMAIN table /\ j \in DOMAIN table
    <3>1. table'[i].limiter = table[i].limiter /\ table'[j].limiter = table[j].limiter
      BY <1>12, <2>1
    <3> QED
      BY <1>3, <2>1, <3>1 DEF Limiters, OwnCeilings
  <2>2. CASE ~(i \in DOMAIN table /\ j \in DOMAIN table)
    BY <1>11, <1>12, <2>2
  <2> QED
    BY <2>1, <2>2
<1>21. OwnShares'
  <2> SUFFICES ASSUME NEW i \in DOMAIN table', NEW j \in DOMAIN table',
                      NEW u \in DOMAIN table'[i].sessions, NEW v \in DOMAIN table'[j].sessions,
                      table'[i].sessions[u].limiter = table'[j].sessions[v].limiter
               PROVE  i = j /\ u = v
    BY DEF OwnShares
  <2> DEFINE Was(x, y) == x \in DOMAIN table /\ y \in DOMAIN table[x].sessions
  <2>1. CASE Was(i, u) /\ Was(j, v)
    <3>1. /\ table'[i].sessions[u].limiter = table[i].sessions[u].limiter
          /\ table'[j].sessions[v].limiter = table[j].sessions[v].limiter
      BY <1>13, <2>1
    <3>2. table[i].sessions[u].limiter = table[j].sessions[v].limiter => i = j /\ u = v
      BY <1>3, <2>1 DEF Limiters, OwnShares
    <3> QED
      BY <2>1, <3>1, <3>2
  <2>2. CASE Was(i, u) /\ ~Was(j, v)
    BY <1>11, <1>13, <2>2
  <2>3. CASE ~Was(i, u) /\ Was(j, v)
    BY <1>11, <1>13, <2>3
  <2>4. CASE ~Was(i, u) /\ ~Was(j, v)
    BY <1>13, <2>4
  <2> QED
    BY <2>1, <2>2, <2>3, <2>4
<1>22. Budgets' /\ BudgetsKept'
  <2>1. passed' = passed /\ shared' = shared /\ now' = now /\ displaced \subseteq displaced'
    BY <1>2, <1>7
  <2>2. ASSUME NEW j \in Keys \ displaced' PROVE CeilingOf(j)' = CeilingOf(j)
    <3>1. j \in DOMAIN table => j \in DOMAIN table'
      BY <1>7, <1>14, <2>2
    <3> QED
      BY <1>12, <3>1 DEF CeilingOf
  <2>3. ASSUME NEW j \in Keys \ displaced', NEW u \in Sessions PROVE ShareOf(j, u)' = ShareOf(j, u)
    <3>1. j \in DOMAIN table /\ u \in DOMAIN table[j].sessions =>
            j \in DOMAIN table' /\ u \in DOMAIN table'[j].sessions
      BY <1>7, <1>14, <2>3
    <3> QED
      BY <1>13, <3>1 DEF ShareOf
  <2>4. Budgets'
    BY <1>3, <2>1, <2>2, <2>3 DEF Limiters, Budgets
  <2>5. ASSUME NEW j \in DOMAIN table'
        PROVE  ceiling'[table'[j].limiter] + passed[j] * Cost >= Factor * Burst
    <3>1. CASE j \in DOMAIN table
      BY <1>3, <1>12, <3>1 DEF Limiters, BudgetsKept
    <3>2. CASE j \notin DOMAIN table
      <4>1. passed[j] \in Nat
        BY <1>3, <1>4, <1>12, <3>2 DEF Typed
      <4>2. passed[j] * Cost \in Nat
        BY <4>1, ProductType, Numbers
      <4> QED
        BY <1>12, <3>2, <4>2, FullCeiling
    <3> QED
      BY <3>1, <3>2
  <2> QED
    BY <2>1, <2>4, <2>5 DEF BudgetsKept
<1>23. SpentWhenSeen'
  <2>1. passed' = passed /\ shared' = shared /\ now' = now /\ displaced \subseteq displaced' /\ now \in Int
    BY <1>2, <1>4, <1>7
  <2>2. ASSUME NEW j \in DOMAIN table' \ displaced'
        PROVE  Turnover * (passed[j] * Cost) <= Due(Factor * Burst, Factor * Renewed, table'[j].lastSeen)
    <3>1. CASE table'[j].lastSeen = now
      <4>1. j \in Keys /\ CeilingOf(j)' \in Nat
        BY <1>4, <1>6, <1>7, <1>11, <1>12, FullCeiling DEF CeilingOf
      <4>2. passed[j] * Cost \in Int
        BY <1>3, <4>1, ProductType, Numbers DEF Typed
      <4>3. Turnover * (passed[j] * Cost + CeilingOf(j)') <= Due(Factor * Burst, Factor * Renewed, now)
        BY <1>22, <2>1, <4>1 DEF Budgets
      <4>4. Due(Factor * Burst, Factor * Renewed, now) \in Int
        BY <2>1, DueType, FullCeiling, Turns
      <4> QED
        BY <3>1, <4>1, <4>2, <4>3, <4>4, SpentIsDue
    <3>2. CASE j \in DOMAIN table /\ table'[j].lastSeen = table[j].lastSeen
      BY <1>3, <2>1, <3>2 DEF Limiters, SpentWhenSeen
    <3> QED
      BY <1>12, <3>1, <3>2
  <2>3. ASSUME NEW j \in DOMAIN table' \ displaced', NEW u \in DOMAIN table'[j].sessions
        PROVE  Turnover * (shared[j][u] * Cost) <= Due(Burst, Renewed, table'[j].sessions[u].lastSeen)
    <3> DEFINE e == table'[j].sessions[u]
    <3>1. CASE e.lastSeen = now
      <4>1. j \in Keys /\ u \in Sessions
        <5>1. j \in Keys /\ table'[j] \in Entries
          BY <1>15, PartialIs DEF Typed
        <5>2. table'[j].sessions \in Partial(Sessions, Buckets)
          BY <5>1 DEF Entries
        <5> QED
          BY <5>1, <5>2, PartialIs
      <4>2. ShareOf(j, u)' = share'[e.limiter] /\ share'[e.limiter] \in Nat
        BY <1>11, <1>13, Numbers DEF ShareOf
      <4>3. shared[j][u] * Cost \in Int
        <5>1. shared[j][u] \in Nat
          BY <1>3, <4>1 DEF Typed
        <5> QED
          BY <5>1, ProductType, Numbers
      <4>4. Turnover * (shared[j][u] * Cost + ShareOf(j, u)') <= Due(Burst, Renewed, now)
        BY <1>22, <2>1, <4>1 DEF Budgets
      <4>5. Due(Burst, Renewed, now) \in Int
        BY <2>1, DueType, Numbers, Turns
      <4> QED
        BY <3>1, <4>2, <4>3, <4>4, <4>5, SpentIsDue
    <3>2. CASE /\ j \in DOMAIN table /\ u \in DOMAIN table[j].sessions
               /\ e.lastSeen = table[j].sessions[u].lastSeen
      BY <1>3, <2>1, <3>2 DEF Limiters, SpentWhenSeen
    <3> QED
      BY <1>13, <3>1, <3>2
  <2> QED
    BY <2>1, <2>2, <2>3 DEF SpentWhenSeen
<1>24. Charging(r)'
  <2>1. Charging(r)
    BY <1>3 DEF MainInv, InFlight
  <2>2. req[r].token
    BY <1>2, <2>1 DEF Charging
  <2>3. HoldsCeiling(r)'
    BY <1>2, <1>7, <1>17 DEF HoldsCeiling
  <2>4. req'[r].share # NoBucket => req'[r].share \in Ids /\ s \in Sessions /\ HoldsShare(r)'
    BY <1>2, <1>7, <1>9, <1>17 DEF HoldsShare, all
  <2> QED
    BY <1>7, <1>17, <2>2, <2>3, <2>4 DEF Charging
<1>25. ASSUME NEW x \in Requests, x # r PROVE Charging(x)'
  <2>1. req'[x] = req[x] /\ Charging(x) /\ req[x] \in Calls
    BY <1>3, <1>17, <1>25 DEF MainInv, InFlight, Typed
  <2> DEFINE i == req[x].key
  <2>2. ASSUME req[x].pc = "ceiling", HoldsCeiling(x) PROVE HoldsCeiling(x)'
    <3>1. req[x].ceiling # NewCeiling
      <4>1. x \in InUse
        BY <2>2 DEF InUse
      <4> QED
        BY <1>5, <4>1 DEF UsedCeilings
    <3>2. CASE i \in DOMAIN tab /\ table[i].limiter = req[x].ceiling /\ table[i].lastSeen = now
      BY <1>2, <1>12, <1>14, <2>1, <3>2 DEF HoldsCeiling
    <3>3. CASE i \in DOMAIN table \ DOMAIN tab /\ table[i].limiter = req[x].ceiling
      <4>1. i \in displaced' /\ i \notin DOMAIN table'
        BY <1>6, <1>7, <3>3
      <4>2. ASSUME NEW j \in DOMAIN table' PROVE table'[j].limiter # req[x].ceiling
        BY <1>3, <1>12, <3>1, <3>3, <4>1, <4>2 DEF Limiters, OwnCeilings
      <4> QED
        BY <2>1, <4>1, <4>2 DEF HoldsCeiling
    <3>4. CASE i \in displaced /\ \A j \in DOMAIN table : table[j].limiter # req[x].ceiling
      BY <1>7, <1>12, <2>1, <3>1, <3>4 DEF HoldsCeiling
    <3> QED
      BY <2>2, <3>2, <3>3, <3>4 DEF HoldsCeiling
  <2>3. ASSUME req[x].pc \in {"ceiling", "share"}, HoldsShare(x) PROVE HoldsShare(x)'
    <3> DEFINE u == req[x].sid
               Had(j, v) == j \in DOMAIN table /\ v \in DOMAIN table[j].sessions
    <3>1. req[x].share # NewShare
      <4>1. x \in InUse
        BY <2>3 DEF InUse
      <4> QED
        BY <1>5, <4>1, SharesInUse
    <3>2. CASE /\ i \in DOMAIN tab /\ Had(i, u) /\ table[i].sessions[u].limiter = req[x].share
               /\ table[i].sessions[u].lastSeen = now
      <4>1. i \in DOMAIN table' /\ u \in DOMAIN table'[i].sessions
        BY <1>14, <3>2
      <4>2. table'[i].sessions[u].limiter = req[x].share /\ table'[i].sessions[u].lastSeen = now
        BY <1>13, <3>2, <4>1
      <4> QED
        BY <1>2, <2>1, <4>1, <4>2 DEF HoldsShare
    <3>3. CASE i \in DOMAIN table \ DOMAIN tab /\ Had(i, u) /\ table[i].sessions[u].limiter = req[x].share
      <4>1. i \in displaced' /\ i \notin DOMAIN table'
        BY <1>6, <1>7, <3>3
      <4>2. ASSUME NEW j \in DOMAIN table', NEW v \in DOMAIN table'[j].sessions
            PROVE  table'[j].sessions[v].limiter # req[x].share
        <5>1. CASE Had(j, v) /\ table'[j].sessions[v].limiter = table[j].sessions[v].limiter
          BY <1>3, <3>3, <4>1, <5>1 DEF Limiters, OwnShares
        <5>2. CASE table'[j].sessions[v].limiter = NewShare
          BY <3>1, <5>2
        <5> QED
          BY <1>13, <5>1, <5>2
      <4> QED
        BY <2>1, <4>1, <4>2 DEF HoldsShare
    <3>4. CASE /\ i \in displaced
               /\ \A j \in DOMAIN table : \A v \in DOMAIN table[j].sessions :
                    table[j].sessions[v].limiter # req[x].share
      <4>1. ASSUME NEW j \in DOMAIN table', NEW v \in DOMAIN table'[j].sessions
            PROVE  table'[j].sessions[v].limiter # req[x].share
        BY <1>13, <3>1, <3>4
      <4> QED
        BY <1>7, <2>1, <3>4, <4>1 DEF HoldsShare
    <3> QED
      BY <2>3, <3>2, <3>3, <3>4 DEF HoldsShare
  <2> QED
    BY <2>1, <2>2, <2>3 DEF Charging
<1>26. InFlight'
  BY <1>24, <1>25 DEF InFlight
<1> QED
  BY <1>10, <1>15, <1>16, <1>18, <1>19, <1>20, <1>21, <1>23, <1>22, <1>26 DEF IInv, MainInv

----------------------------------------------------------------------------
(* The theorems *)

LEMMA Initially == Init => IInv
<1> SUFFICES ASSUME Init PROVE IInv
  OBVIOUS
<1>1. /\ table = <<>> /\ failures = <<>> /\ DOMAIN table = {} /\ DOMAIN failures = {}
      /\ table \in Partial(Keys, Entries) /\ failures \in Partial(Keys, Refusals)
  BY EmptyTable DEF Init
<1>2. /\ limited \in BOOLEAN /\ now = 0 /\ req = [r \in Requests |-> Gone]
      /\ ceiling = [i \in Ids |-> Factor * Burst] /\ share = [i \in Ids |-> Burst]
      /\ passed = [k \in Keys |-> 0] /\ shared = [k \in Keys |-> [s \in Sessions |-> 0]]
      /\ warned = [k \in Keys |-> Never] /\ displaced = {}
  BY DEF Init
<1>3. Typed
  <2>1. Never \in Int
    BY Numbers DEF Never
  <2>2. ceiling \in [Ids -> 0..Factor * Burst] /\ share \in [Ids -> 0..Burst]
    BY <1>2, FullCeiling, Numbers
  <2>3. req \in [Requests -> Calls]
    BY <1>2, GoneType
  <2> QED
    BY <1>1, <1>2, <2>1, <2>2, <2>3 DEF Typed
<1>4. SmallTables
  <2>1. Cardinality({}) = 0 /\ IsFiniteSet({})
    BY FS_EmptySet
  <2> QED
    BY <1>1, <2>1, Numbers DEF SmallTables, Bounded
<1>5. ChargedToOwner /\ InFlight
  BY <1>2, GoneType DEF ChargedToOwner, InFlight, Charging
<1>6. SeenInOrder /\ OwnCeilings /\ OwnShares /\ SpentWhenSeen /\ BudgetsKept
  BY <1>1 DEF SeenInOrder, OwnCeilings, OwnShares, SpentWhenSeen, BudgetsKept
<1>7. Budgets
  <2>1. 0 * Cost = 0 /\ (Factor * Renewed) * 0 = 0 /\ Renewed * 0 = 0
    BY Turns, Numbers
  <2>2. \A k \in Keys : CeilingOf(k) = Factor * Burst /\ \A s \in Sessions : ShareOf(k, s) = Burst
    BY <1>1 DEF CeilingOf, ShareOf
  <2>3. /\ Turnover * (0 + Factor * Burst) <= Turnover * (Factor * Burst) + 0
        /\ Turnover * (0 + Burst) <= Turnover * Burst + 0
    <3>1. 0 + Factor * Burst = Factor * Burst /\ 0 + Burst = Burst
      BY FullCeiling, Numbers
    <3>2. Turnover * (Factor * Burst) \in Int /\ Turnover * Burst \in Int
      BY FullCeiling, Numbers, Turns
    <3> QED
      BY <3>1, <3>2
  <2> QED
    BY <1>2, <2>1, <2>2, <2>3 DEF Budgets, Due
<1>8. Complaints
  BY <1>1, <1>2, Numbers DEF Complaints, Never
<1> QED
  BY <1>3, <1>4, <1>5, <1>6, <1>7, <1>8 DEF IInv, MainInv

(* What was let through is within what is due. *)
LEMMA WithinDue ==
  ASSUME IInv, NEW k \in Keys \ displaced
  PROVE  /\ Turnover * (passed[k] * Cost) <= Factor * (Turnover * Burst + Renewed * now)
         /\ \A s \in Sessions : Turnover * (shared[k][s] * Cost) <= Turnover * Burst + Renewed * now
<1>1. /\ Turnover * (passed[k] * Cost + CeilingOf(k)) <= Due(Factor * Burst, Factor * Renewed, now)
      /\ \A s \in Sessions : Turnover * (shared[k][s] * Cost + ShareOf(k, s)) <= Due(Burst, Renewed, now)
  BY DEF IInv, Budgets
<1>2. Typed /\ now \in Nat /\ passed[k] \in Nat /\ \A s \in Sessions : shared[k][s] \in Nat
  BY DEF IInv, Typed
<1>3. CeilingOf(k) \in Nat
  <2>1. CASE k \in DOMAIN table
    BY <1>2, <2>1, EntryIs, FullCeiling DEF CeilingOf
  <2>2. CASE k \notin DOMAIN table
    BY <2>2, FullCeiling DEF CeilingOf
  <2> QED
    BY <2>1, <2>2
<1>4. ASSUME NEW s \in Sessions PROVE ShareOf(k, s) \in Nat
  <2>1. CASE k \in DOMAIN table /\ s \in DOMAIN table[k].sessions
    BY <1>2, <2>1, EntryIs, Numbers DEF ShareOf
  <2>2. CASE ~(k \in DOMAIN table /\ s \in DOMAIN table[k].sessions)
    BY <2>2, Numbers DEF ShareOf
  <2> QED
    BY <2>1, <2>2
<1>5. Due(Factor * Burst, Factor * Renewed, now) = Factor * (Turnover * Burst + Renewed * now)
  <2>1. Turnover \in Int /\ Burst \in Int /\ Renewed \in Int /\ now \in Int /\ Factor \in Int
    BY <1>2, Turns, Numbers
  <2>2. Factor * (Turnover * Burst + Renewed * now) = Factor * (Turnover * Burst) + Factor * (Renewed * now)
    BY <2>1
  <2>3. Factor * (Turnover * Burst) = Turnover * (Factor * Burst)
    BY <2>1
  <2>4. Factor * (Renewed * now) = (Factor * Renewed) * now
    BY <2>1
  <2> QED
    BY <2>2, <2>3, <2>4 DEF Due
<1>6. /\ Due(Factor * Burst, Factor * Renewed, now) \in Int /\ Due(Burst, Renewed, now) \in Int
      /\ passed[k] * Cost \in Int /\ \A s \in Sessions : shared[k][s] * Cost \in Int
  <2>1. Due(Factor * Burst, Factor * Renewed, now) \in Int /\ Due(Burst, Renewed, now) \in Int
    <3>1. now \in Int
      BY <1>2
    <3>2. Factor * Burst \in Nat /\ Factor * Renewed \in Nat /\ Burst \in Nat /\ Renewed \in Nat
      BY FullCeiling, Turns, Numbers
    <3> QED
      BY <3>1, <3>2, DueType
  <2>2. passed[k] * Cost \in Nat /\ \A s \in Sessions : shared[k][s] * Cost \in Nat
    BY <1>2, ProductType, Numbers
  <2> QED
    BY <2>1, <2>2
<1>7. Turnover * (passed[k] * Cost) <= Factor * (Turnover * Burst + Renewed * now)
  BY <1>1, <1>3, <1>5, <1>6, SpentIsDue
<1>8. ASSUME NEW s \in Sessions PROVE Turnover * (shared[k][s] * Cost) <= Turnover * Burst + Renewed * now
  <2>1. Turnover * (shared[k][s] * Cost) <= Due(Burst, Renewed, now)
    BY <1>1, <1>4, <1>6, SpentIsDue
  <2> QED
    BY <2>1 DEF Due
<1> QED
  BY <1>7, <1>8

LEMMA Inductive == IInv /\ [Next]_vars => IInv'
<1> SUFFICES ASSUME IInv, [Next]_vars PROVE IInv'
  OBVIOUS
<1>1. ASSUME NEW r \in Requests, NEW x \in Presented, NEW s \in Sessions \cup {NoSession},
             Arrive(r, x[1], x[2], s)
      PROVE  IInv'
  <2>1. x[1] \in BOOLEAN /\ x[2] \in BOOLEAN
    <3>1. PICK h \in Headers, o \in Headers, c \in Credentials :
            x = <<OriginPasses(h, o), Authentic(c)>>
      BY DEF Presented
    <3>2. OriginPasses(h, o) \in BOOLEAN /\ Authentic(c) \in BOOLEAN
      BY Zenon DEF OriginPasses, Authentic
    <3> QED
      BY <3>1, <3>2
  <2> QED
    BY <1>1, <2>1, Arriving
<1>2. ASSUME NEW r \in Requests, Penalise(r) PROVE IInv'
  BY <1>2, Penalising
<1>3. ASSUME NEW r \in Requests, Lookup(r) PROVE IInv'
  BY <1>3, LookingUp
<1>4. ASSUME NEW r \in Requests, ChargeCeiling(r) PROVE IInv'
  BY <1>4, ChargingCeiling
<1>5. ASSUME NEW r \in Requests, ChargeShare(r) PROVE IInv'
  BY <1>5, ChargingShare
<1>6. CASE Tick
  BY <1>6, Ticking
<1>7. CASE Sweep
  BY <1>7, Sweeping
<1>8. CASE SweepFailures
  BY <1>8, SweepingFailures
<1>9. CASE Stop \/ UNCHANGED vars
  BY <1>9, Standing
<1> QED
  BY <1>1, <1>2, <1>3, <1>4, <1>5, <1>6, <1>7, <1>8, <1>9 DEF Next

(* ratelimit.go as a whole: nothing that requests, ticks, sweeps and the      *)
(* shutdown do between them breaks the invariant.                            *)
THEOREM Invariance == Spec => []IInv
<1>1. Init => IInv
  BY Initially
<1>2. IInv /\ [Next]_vars => IInv'
  BY Inductive
<1> QED
  BY <1>1, <1>2, PTL DEF Spec

(* ratelimit.go 270-300, 333-360: neither a flood of addresses nor one of     *)
(* session ids outgrows the tables, and no bucket holds more than a burst.    *)
THEOREM BoundedTables == Spec => []TablesBounded
<1>1. IInv => TablesBounded
  BY DEF IInv, SmallTables, Bounded, Typed, TablesBounded
<1> QED
  BY <1>1, Invariance, PTL

(* ratelimit.go, ClientIP: whatever chain of trusted proxies a request came   *)
(* by, and whatever its client wrote, its client is charged for it.           *)
THEOREM ChargedRight == Spec => []ChargedToOwner
<1>1. IInv => ChargedToOwner
  BY DEF IInv
<1> QED
  BY <1>1, Invariance, PTL

(* ratelimit.go, allow and evictIdle: whatever the rate, and however often its *)
(* buckets are dropped for being idle and made anew, an address that was      *)
(* never dropped for want of room gets no more than its burst and what is     *)
(* renewed in every Turnover ticks, and so does each of its sessions.         *)
THEOREM BudgetsObeyed == Spec => []BudgetsHold
<1>1. IInv => BudgetsHold
  BY WithinDue DEF BudgetsHold
<1> QED
  BY <1>1, Invariance, PTL

(* README, PIHOLE_RATE_LIMIT: if an idle bucket is full by the time it is     *)
(* dropped, an address gets no more than its burst and its rate, and so does  *)
(* each of its sessions.  At 10 requests a minute and more it is.             *)
THEOREM RateKeptIfRefilled ==
  ASSUME Turnover * Rate >= Burst
  PROVE  Spec => []RateKept
<1>1. ASSUME IInv PROVE RateKept
  <2>1. Renewed = Turnover * Rate
    BY DEF Renewed
  <2>2. now \in Nat /\ \A k \in Keys : passed[k] \in Nat /\ \A s \in Sessions : shared[k][s] \in Nat
    BY <1>1 DEF IInv, Typed
  <2>3. Turnover * (Burst + Rate * now) = Turnover * Burst + Renewed * now
    BY <2>1, <2>2, Turns, Numbers
  <2>4. ASSUME NEW x \in Nat, NEW y \in Nat, Turnover * x <= Turnover * y PROVE x <= y
    <3> SUFFICES ASSUME ~(x <= y) PROVE FALSE
      OBVIOUS
    <3>1. Turnover * (y + 1) <= Turnover * x
      BY Turns, Monotone
    <3>2. Turnover * (y + 1) = Turnover * y + Turnover * 1 /\ Turnover * 1 = Turnover /\ Turnover * y \in Int
      BY Turns, Times
    <3>3. Turnover * x \in Int /\ Turnover > 0
      BY Turns, Numbers
    <3> QED
      BY <2>4, <3>1, <3>2, <3>3, Turns
  <2>5. Rate * now \in Nat /\ Burst + Rate * now \in Nat
    BY <2>2, Numbers, ProductType
  <2>6. ASSUME NEW k \in Keys \ displaced
        PROVE  passed[k] * Cost <= Factor * (Burst + Rate * now)
    <3>1. Turnover * (passed[k] * Cost) <= Factor * (Turnover * (Burst + Rate * now))
      BY <1>1, <2>3, WithinDue
    <3>2. ASSUME NEW x \in Int, NEW y \in Int, NEW z \in Int PROVE x * (y * z) = y * (x * z)
      OBVIOUS
    <3>3. Factor * (Turnover * (Burst + Rate * now)) = Turnover * (Factor * (Burst + Rate * now))
      BY <2>5, <3>2, Turns, Numbers
    <3>4. passed[k] * Cost \in Nat /\ Factor * (Burst + Rate * now) \in Nat
      BY <2>2, <2>5, Numbers, ProductType
    <3> QED
      BY <2>4, <3>1, <3>3, <3>4
  <2>7. ASSUME NEW k \in Keys \ displaced, NEW s \in Sessions
        PROVE  shared[k][s] * Cost <= Burst + Rate * now
    <3>1. Turnover * (shared[k][s] * Cost) <= Turnover * (Burst + Rate * now)
      BY <1>1, <2>3, WithinDue
    <3>2. shared[k][s] * Cost \in Nat
      BY <2>2, Numbers, ProductType
    <3> QED
      BY <2>4, <2>5, <3>1, <3>2
  <2> QED
    BY <2>6, <2>7 DEF RateKept
<1>2. IInv => RateKept
  BY <1>1
<1> QED
  BY <1>2, Invariance, PTL

(* main.go, the order of the middleware: what is missing from the ceiling of  *)
(* an address went to its requests with the token.                           *)
THEOREM BudgetsSafe == Spec => []BudgetsKept
<1>1. IInv => BudgetsKept
  BY DEF IInv
<1> QED
  BY <1>1, Invariance, PTL

(* ratelimit.go, Penalise and evictIdle: two complaints about an address are  *)
(* further apart than authWarnInterval, though its entry may be dropped for   *)
(* being idle and made anew in between.                                      *)
THEOREM ComplaintsSpaced == Spec => ComplaintsApart
<1> DEFINE Apart == \A k \in Keys \ displaced' :
                      warned'[k] # warned[k] => warned'[k] - warned[k] > WarnGap
<1>1. ASSUME IInv, NEW r \in Requests, Penalise(r) PROVE Apart
  <2> SUFFICES ASSUME NEW k \in Keys \ displaced', warned'[k] # warned[k]
               PROVE  warned'[k] - warned[k] > WarnGap
    OBVIOUS
  <2>1. PICK tab \in Room(failures, req[r].key) :
          Refused(r, tab) /\ displaced' = displaced \cup (DOMAIN failures \ DOMAIN tab)
    BY <1>1, PenaliseIs, Zenon
  <2> DEFINE last == IF req[r].key \in DOMAIN failures THEN failures[req[r].key].lastWarn ELSE Never
  <2>2. now - last > WarnGap /\ warned' = [warned EXCEPT ![req[r].key] = now]
    BY <2>1 DEF Refused
  <2>3. k = req[r].key /\ warned'[k] = now
    BY <1>1, <2>2 DEF IInv, Typed
  <2>4. k \in Keys \ displaced
    BY <2>1
  <2>5. now - warned[k] > WarnGap \/ (k \in DOMAIN failures /\ failures[k].lastWarn = warned[k])
    BY <1>1, <2>4 DEF IInv, Complaints
  <2> QED
    BY <2>2, <2>3, <2>5
<1>2. ASSUME \/ \E r \in Requests :
                  \/ \E x \in Presented, s \in Sessions \cup {NoSession} : Arrive(r, x[1], x[2], s)
                  \/ Lookup(r) \/ ChargeCeiling(r) \/ ChargeShare(r)
             \/ Tick \/ Sweep \/ SweepFailures \/ Stop \/ UNCHANGED vars
      PROVE  UNCHANGED warned
  BY <1>2 DEF Arrive, Lookup, ChargeCeiling, ChargeShare, Tick, Sweep, SweepFailures, Stop, vars,
              historyVars
<1>3. ASSUME IInv, [Next]_vars PROVE Apart
  <2>1. CASE \E r \in Requests : Penalise(r)
    BY <1>1, <1>3, <2>1
  <2>2. CASE UNCHANGED warned
    BY <2>2
  <2> QED
    BY <1>2, <1>3, <2>1, <2>2 DEF Next
<1>4. IInv /\ [Next]_vars => [Apart]_vars
  BY <1>3
<1> QED
  BY <1>4, Invariance, PTL DEF Spec, ComplaintsApart

----------------------------------------------------------------------------
(* Who is forgotten *)

(* An entry was last seen when its limiter last heard of its address. *)
Hears ==
  /\ heard \in [main : [Keys -> Int], failures : [Keys -> Int]]
  /\ \A k \in DOMAIN table : table[k].lastSeen = heard.main[k]
  /\ \A k \in DOMAIN failures : failures[k].lastSeen = heard.failures[k]

(* What is dropped to make room is older than all the entries that are kept   *)
(* and the one that is to come, and they are as many as there is room for.    *)
LEMMA OldestIsStranger ==
  ASSUME NEW tab, DOMAIN tab \subseteq Keys, IsFiniteSet(DOMAIN tab),
         NEW said \in [Keys -> Int], now \in Int,
         \A j \in DOMAIN tab : tab[j].lastSeen = said[j] /\ said[j] <= now,
         NEW k \in Keys, NEW kept \in Room(tab, k), NEW j \in DOMAIN tab \ DOMAIN kept
  PROVE  MayForget([said EXCEPT ![k] = now], j)
<1> DEFINE later  == [said EXCEPT ![k] = now]
           others == (DOMAIN tab \ {j}) \cup {k}
           asLate == {i \in Keys \ {j} : later[i] >= later[j]}
<1>1. ~(k \in DOMAIN tab \/ Cardinality(DOMAIN tab) < MaxTracked)
  BY DEF Room
<1>2. PICK x \in Oldest(tab) : kept = Without(tab, x)
  BY <1>1 DEF Room
<1>3. j \in Oldest(tab) /\ j # k
  <2>1. DOMAIN kept = DOMAIN tab \ {x}
    BY <1>2 DEF Without
  <2> QED
    BY <1>1, <1>2, <2>1
<1>4. later[k] = now /\ \A i \in DOMAIN tab : later[i] = said[i]
  BY <1>1
<1>5. ASSUME NEW i \in others PROVE i \in asLate
  <2>1. CASE i = k
    BY <1>3, <1>4, <2>1
  <2>2. CASE i # k
    <3>1. i \in DOMAIN tab /\ i # j /\ i \in Keys
      BY <2>2
    <3>2. said[j] <= said[i] /\ said[i] \in Int /\ said[j] \in Int
      BY <1>3, <3>1 DEF Oldest
    <3> QED
      BY <1>4, <3>1, <3>2
  <2> QED
    BY <2>1, <2>2
<1> HIDE DEF later
<1>6. Cardinality(others) = Cardinality(DOMAIN tab) /\ Cardinality(others) \in Nat
  <2>1. Cardinality(DOMAIN tab) \in Nat
    BY FS_CardinalityType
  <2>2. IsFiniteSet(DOMAIN tab \ {j}) /\ Cardinality(DOMAIN tab \ {j}) = Cardinality(DOMAIN tab) - 1
    BY FS_RemoveElement
  <2>3. IsFiniteSet(others) /\ Cardinality(others) = Cardinality(DOMAIN tab \ {j}) + 1
    BY <1>1, <2>2, FS_AddElement
  <2> QED
    BY <2>1, <2>2, <2>3
<1>7. IsFiniteSet(asLate)
  <2>1. IsFiniteSet(Keys)
    <3> DEFINE f == [a \in Addresses |-> KeyOf[a]]
    <3>1. f \in [Addresses -> Keys] /\ \A y \in Keys : \E a \in Addresses : f[a] = y
      BY DEF Keys
    <3>2. f \in Surjection(Addresses, Keys)
      BY <3>1 DEF Surjection
    <3> HIDE DEF f
    <3> QED
      BY <3>2, AdmissionAssumption, FS_Surjection
  <2> QED
    BY <2>1, FS_Subset
<1>8. Cardinality(others) <= Cardinality(asLate) /\ Cardinality(asLate) \in Nat
  BY <1>5, <1>7, FS_Subset, FS_CardinalityType
<1>9. Cardinality(asLate) >= MaxTracked
  <2>1. Cardinality(DOMAIN tab) >= MaxTracked
    BY <1>1, <1>6, Numbers
  <2> QED
    BY <1>6, <1>8, <2>1, Numbers
<1> QED
  BY <1>9 DEF MayForget, later

(* What a lookup drops, and when its limiter has heard of whom. *)
LEMMA LookupHears ==
  ASSUME IInv, Hears, NEW r \in Requests, Lookup(r)
  PROVE  Hears' /\ \A j \in DOMAIN table \ DOMAIN table' : MayForget(heard'.main, j)
<1> DEFINE k == req[r].key
<1>1. PICK tab \in Room(table, k), own \in Partial(Sessions, Buckets), new \in {"no", "has", "add"} :
        LookedUp(r, tab, own, new)
  BY LookupIs, Zenon
<1>2. failures' = failures /\ heard' = [heard EXCEPT !.main[k] = now]
  BY DEF Lookup
<1>3. /\ k \in Keys /\ table \in Partial(Keys, Entries) /\ now \in Int /\ Bounded(table, MaxTracked)
      /\ DOMAIN table \subseteq Keys /\ DOMAIN failures \subseteq Keys
  <2>1. req[r] \in Calls
    BY DEF IInv, Typed
  <2> QED
    BY <2>1, PartialIs DEF IInv, Typed, Calls, SmallTables
<1>4. DOMAIN tab \subseteq DOMAIN table /\ \A j \in DOMAIN tab : tab[j] = table[j]
  BY <1>3, RoomInTable
<1>5. /\ DOMAIN table' = DOMAIN tab \cup {k} /\ table'[k].lastSeen = now
      /\ \A j \in DOMAIN tab : j # k => table'[j] = table[j]
  BY <1>1 DEF LookedUp
<1> HIDE DEF k
<1>6. /\ heard.main \in [Keys -> Int] /\ heard'.main = [heard.main EXCEPT ![k] = now]
      /\ heard'.failures = heard.failures /\ heard' \in [main : [Keys -> Int], failures : [Keys -> Int]]
  BY <1>2, <1>3 DEF Hears
<1>7. ASSUME NEW j \in DOMAIN table' PROVE table'[j].lastSeen = heard'.main[j]
  <2>1. CASE j = k
    BY <1>3, <1>5, <1>6, <2>1
  <2>2. CASE j # k
    BY <1>3, <1>4, <1>5, <1>6, <2>2 DEF Hears
  <2> QED
    BY <2>1, <2>2
<1>8. ASSUME NEW j \in DOMAIN table \ DOMAIN table' PROVE MayForget(heard'.main, j)
  <2>1. j \in DOMAIN table \ DOMAIN tab
    BY <1>5
  <2>2. \A i \in DOMAIN table : table[i].lastSeen = heard.main[i] /\ heard.main[i] <= now
    BY DEF Hears, IInv, MainInv, SeenInOrder
  <2>3. IsFiniteSet(DOMAIN table)
    BY <1>3 DEF Bounded
  <2> QED
    BY <1>3, <1>6, <2>1, <2>2, <2>3, OldestIsStranger
<1> QED
  BY <1>2, <1>6, <1>7, <1>8 DEF Hears

(* And a refused request. *)
LEMMA PenaliseHears ==
  ASSUME IInv, Hears, NEW r \in Requests, Penalise(r)
  PROVE  Hears' /\ \A j \in DOMAIN failures \ DOMAIN failures' : MayForget(heard'.failures, j)
<1> DEFINE k == req[r].key
<1>1. PICK tab \in Room(failures, k) : Refused(r, tab)
  BY PenaliseIs, Zenon
<1>2. table' = table /\ heard' = [heard EXCEPT !.failures[k] = now]
  BY DEF Penalise, limiterVars
<1>3. /\ k \in Keys /\ failures \in Partial(Keys, Refusals) /\ now \in Int /\ Bounded(failures, MaxTracked)
      /\ DOMAIN table \subseteq Keys /\ DOMAIN failures \subseteq Keys
  <2>1. req[r] \in Calls
    BY DEF IInv, Typed
  <2> QED
    BY <2>1, PartialIs DEF IInv, Typed, Calls, SmallTables
<1>4. DOMAIN tab \subseteq DOMAIN failures /\ \A j \in DOMAIN tab : tab[j] = failures[j]
  BY <1>3, RoomInFailures
<1>5. /\ DOMAIN failures' = DOMAIN tab \cup {k} /\ failures'[k].lastSeen = now
      /\ \A j \in DOMAIN tab : j # k => failures'[j] = failures[j]
  BY <1>1 DEF Refused
<1> HIDE DEF k
<1>6. /\ heard.failures \in [Keys -> Int] /\ heard'.failures = [heard.failures EXCEPT ![k] = now]
      /\ heard'.main = heard.main /\ heard' \in [main : [Keys -> Int], failures : [Keys -> Int]]
  BY <1>2, <1>3 DEF Hears
<1>7. ASSUME NEW j \in DOMAIN failures' PROVE failures'[j].lastSeen = heard'.failures[j]
  <2>1. CASE j = k
    BY <1>3, <1>5, <1>6, <2>1
  <2>2. CASE j # k
    BY <1>3, <1>4, <1>5, <1>6, <2>2 DEF Hears
  <2> QED
    BY <2>1, <2>2
<1>8. ASSUME NEW j \in DOMAIN failures \ DOMAIN failures' PROVE MayForget(heard'.failures, j)
  <2>1. j \in DOMAIN failures \ DOMAIN tab
    BY <1>5
  <2>2. \A i \in DOMAIN failures : failures[i].lastSeen = heard.failures[i] /\ heard.failures[i] <= now
    BY DEF Hears, IInv, Complaints
  <2>3. IsFiniteSet(DOMAIN failures)
    BY <1>3 DEF Bounded
  <2> QED
    BY <1>3, <1>6, <2>1, <2>2, <2>3, OldestIsStranger
<1> QED
  BY <1>2, <1>6, <1>7, <1>8 DEF Hears

Forgotten ==
  /\ \A k \in DOMAIN table \ DOMAIN table' : MayForget(heard'.main, k)
  /\ \A k \in DOMAIN failures \ DOMAIN failures' : MayForget(heard'.failures, k)

LEMMA ForgettingStep == IInv /\ Hears /\ [Next]_vars => Hears' /\ Forgotten
<1> SUFFICES ASSUME IInv, Hears, [Next]_vars PROVE Hears' /\ Forgotten
  OBVIOUS
<1>1. ASSUME NEW r \in Requests, Lookup(r) PROVE Hears' /\ Forgotten
  <2>1. failures' = failures
    BY <1>1 DEF Lookup
  <2> QED
    BY <1>1, <2>1, LookupHears DEF Forgotten
<1>2. ASSUME NEW r \in Requests, Penalise(r) PROVE Hears' /\ Forgotten
  <2>1. table' = table
    BY <1>2 DEF Penalise, limiterVars
  <2> QED
    BY <1>2, <2>1, PenaliseHears DEF Forgotten
<1>3. CASE Sweep
  <2>1. /\ heard' = heard /\ failures' = failures
        /\ DOMAIN table' = {j \in DOMAIN table : ~Idle(table[j].lastSeen)}
        /\ \A k \in DOMAIN table' : table'[k].lastSeen = table[k].lastSeen
    <3>1. \A k \in DOMAIN table : table[k] \in Entries
      BY PartialIs DEF IInv, Typed
    <3> QED
      BY <1>3, <3>1 DEF Sweep, historyVars, Entries
  <2> QED
    BY <2>1 DEF Hears, Forgotten, MayForget
<1>4. CASE SweepFailures
  <2>1. /\ heard' = heard /\ table' = table
        /\ failures' = [k \in {j \in DOMAIN failures : ~Idle(failures[j].lastSeen)} |-> failures[k]]
    BY <1>4 DEF SweepFailures, historyVars, limiterVars
  <2> QED
    BY <2>1 DEF Hears, Forgotten, MayForget
<1>5. CASE Tick
  <2>1. /\ heard' = heard /\ table' = table /\ DOMAIN failures' = DOMAIN failures
        /\ \A k \in DOMAIN failures : failures'[k].lastSeen = failures[k].lastSeen
    <3>1. \A k \in DOMAIN failures : failures[k] \in Refusals
      BY PartialIs DEF IInv, Typed
    <3> QED
      BY <1>5, <3>1 DEF Tick, historyVars, Refusals
  <2> QED
    BY <2>1 DEF Hears, Forgotten
<1>6. ASSUME \/ \E r \in Requests :
                  \/ \E x \in Presented, s \in Sessions \cup {NoSession} : Arrive(r, x[1], x[2], s)
                  \/ ChargeCeiling(r) \/ ChargeShare(r)
             \/ Stop \/ UNCHANGED vars
      PROVE  Hears' /\ Forgotten
  <2>1. UNCHANGED <<table, failures, heard>>
    BY <1>6 DEF Arrive, ChargeCeiling, ChargeShare, Stop, vars, limiterVars, historyVars
  <2> QED
    BY <2>1 DEF Hears, Forgotten
<1> QED
  BY <1>1, <1>2, <1>3, <1>4, <1>5, <1>6 DEF Next

(* ratelimit.go, evictOldestLocked and evictIdle: an address that is dropped   *)
(* was idle, or since its last request as many others made one as there is    *)
(* room for, however large the tables and the number of addresses are.        *)
THEOREM StrangersForgotten == Spec => ForgetsStrangers
<1>1. Init => Hears
  <2> SUFFICES ASSUME Init PROVE Hears
    OBVIOUS
  <2>1. DOMAIN table = {} /\ DOMAIN failures = {} /\ Never \in Int
    BY EmptyTable, Numbers DEF Init, Never
  <2>2. heard = [main |-> [k \in Keys |-> Never], failures |-> [k \in Keys |-> Never]]
    BY DEF Init
  <2> QED
    BY <2>1, <2>2 DEF Hears
<1>2. IInv /\ Hears /\ [Next]_vars => Hears' /\ [Forgotten]_vars
  BY ForgettingStep
<1> QED
  BY <1>1, <1>2, Invariance, PTL DEF Spec, ForgetsStrangers, Forgotten
=============================================================================
