----------------------------- MODULE ReadsProofs -----------------------------
(***************************************************************************)
(* Proofs about Reads: what each of the seven reading subjects promises,   *)
(* for every number of rows, friends, players and moments. Each subject    *)
(* has an inductive invariant of its own, as it shares nothing with the    *)
(* others; a step of another subject leaves it at rest.                    *)
(***************************************************************************)
EXTENDS Reads, FiniteSetTheorems, WellFoundedInduction, TLAPS

-----------------------------------------------------------------------------
(* Ranks. An ORDER BY is a strict order R of the rows S, as a set of pairs; *)
(* the rank of a row is how many come before it.                           *)

StrictOrder(R, S) ==
  /\ \A x \in S : <<x, x>> \notin R
  /\ \A x, y, z \in S : (<<x, y>> \in R /\ <<y, z>> \in R) => <<x, z>> \in R
  /\ \A x, y \in S : x # y => (<<x, y>> \in R \/ <<y, x>> \in R)

Rank(R, S, x) == Cardinality({y \in S : <<y, x>> \in R})

\* A row has fewer before it than there are rows, and more than any that comes before it.
LEMMA RankGrows ==
  ASSUME NEW R, NEW S, IsFiniteSet(S), StrictOrder(R, S), NEW x \in S
  PROVE  /\ Rank(R, S, x) \in Nat /\ Rank(R, S, x) < Cardinality(S)
         /\ \A y \in S : <<y, x>> \in R => Rank(R, S, y) < Rank(R, S, x)
<1> DEFINE before(y) == {z \in S : <<z, y>> \in R}
<1>1. \A y \in S : before(y) \in SUBSET S /\ y \notin before(y)
  BY DEF StrictOrder
<1>2. ASSUME NEW T, IsFiniteSet(T), NEW U \in SUBSET T, NEW y \in T, y \notin U
      PROVE  Cardinality(U) \in Nat /\ Cardinality(T) \in Nat /\ Cardinality(U) < Cardinality(T)
  <2>1. /\ IsFiniteSet(U) /\ Cardinality(U) <= Cardinality(T)
        /\ Cardinality(T) = Cardinality(U) => T = U
    BY <1>2, FS_Subset
  <2>2. Cardinality(U) \in Nat /\ Cardinality(T) \in Nat
    BY <1>2, <2>1, FS_CardinalityType
  <2> QED
    BY <1>2, <2>1, <2>2
<1>3. ASSUME NEW y \in S, <<y, x>> \in R
      PROVE  Cardinality(before(y)) < Cardinality(before(x))
  <2>1. before(y) \in SUBSET before(x)
    BY <1>3 DEF StrictOrder
  <2>2. y \in before(x) /\ y \notin before(y)
    BY <1>1, <1>3
  <2>3. IsFiniteSet(before(x))
    <3>1. before(x) \in SUBSET S
      OBVIOUS
    <3> HIDE DEF before
    <3> QED
      BY <3>1, FS_Subset
  <2> HIDE DEF before
  <2> QED
    BY <1>2, <2>1, <2>2, <2>3
<1>4. Rank(R, S, x) = Cardinality(before(x)) /\ \A y \in S : Rank(R, S, y) = Cardinality(before(y))
  BY DEF Rank
<1> HIDE DEF before
<1>5. Cardinality(before(x)) \in Nat /\ Cardinality(before(x)) < Cardinality(S)
  BY <1>1, <1>2
<1> QED
  BY <1>3, <1>4, <1>5

\* The ranks are 0 up to one less than the number of rows, each of one row.
LEMMA RankBijection ==
  ASSUME NEW R, NEW S, IsFiniteSet(S), StrictOrder(R, S)
  PROVE  /\ Cardinality(S) \in Nat
         /\ [x \in S |-> Rank(R, S, x)] \in Bijection(S, 0 .. Cardinality(S) - 1)
<1> DEFINE f == [x \in S |-> Rank(R, S, x)]
           n == Cardinality(S)
<1>1. n \in Nat
  BY FS_CardinalityType
<1>2. \A x \in S : Rank(R, S, x) \in 0 .. n - 1
  <2> SUFFICES ASSUME NEW x \in S
               PROVE  Rank(R, S, x) \in 0 .. n - 1
    OBVIOUS
  <2>1. Rank(R, S, x) \in Nat /\ Rank(R, S, x) < n
    BY RankGrows
  <2> QED
    BY <1>1, <2>1
<1>3. ASSUME NEW x \in S, NEW y \in S, Rank(R, S, x) = Rank(R, S, y)
      PROVE  x = y
  <2>1. Rank(R, S, x) \in Nat /\ Rank(R, S, y) \in Nat
    BY RankGrows
  <2>2. <<x, y>> \notin R
    BY <1>3, <2>1, RankGrows
  <2>3. <<y, x>> \notin R
    BY <1>3, <2>1, RankGrows
  <2> QED
    BY <2>2, <2>3 DEF StrictOrder
<1>4. f \in Injection(S, 0 .. n - 1)
  BY <1>2, <1>3 DEF Injection, IsInjective
<1>5. IsFiniteSet(0 .. n - 1) /\ Cardinality(0 .. n - 1) = n
  <2>1. IsFiniteSet(0 .. n - 1)
        /\ Cardinality(0 .. n - 1) = IF 0 > n - 1 THEN 0 ELSE n - 1 - 0 + 1
    BY <1>1, FS_Interval
  <2> QED
    BY <1>1, <2>1
<1> HIDE DEF f
<1>6. f \in Surjection(S, 0 .. n - 1)
  BY <1>4, <1>5, FS_Injection
<1> QED
  BY <1>1, <1>4, <1>6 DEF f, Bijection

\* Between two ranks there are as many rows as numbers.
LEMMA RankSlice ==
  ASSUME NEW R, NEW S, IsFiniteSet(S), StrictOrder(R, S),
         NEW a \in Nat, NEW b \in Nat, a <= b, b <= Cardinality(S)
  PROVE  /\ IsFiniteSet({x \in S : a <= Rank(R, S, x) /\ Rank(R, S, x) < b})
         /\ Cardinality({x \in S : a <= Rank(R, S, x) /\ Rank(R, S, x) < b}) = b - a
         /\ {Rank(R, S, x) : x \in {y \in S : a <= Rank(R, S, y) /\ Rank(R, S, y) < b}} = a .. b - 1
<1> DEFINE slice == {x \in S : a <= Rank(R, S, x) /\ Rank(R, S, x) < b}
           n == Cardinality(S)
           f == [x \in S |-> Rank(R, S, x)]
           g == [x \in slice |-> Rank(R, S, x)]
<1>1. n \in Nat /\ f \in Bijection(S, 0 .. n - 1)
  BY RankBijection
<1>2. /\ \A x \in S : Rank(R, S, x) \in 0 .. n - 1
      /\ \A x, y \in S : Rank(R, S, x) = Rank(R, S, y) => x = y
      /\ \A i \in 0 .. n - 1 : \E x \in S : Rank(R, S, x) = i
  BY <1>1 DEF Bijection, Injection, Surjection, IsInjective
<1>3. \A x \in slice : Rank(R, S, x) \in a .. b - 1
  BY <1>1, <1>2
<1>4. \A i \in a .. b - 1 : \E x \in slice : Rank(R, S, x) = i
  <2> SUFFICES ASSUME NEW i \in a .. b - 1
               PROVE  \E x \in slice : Rank(R, S, x) = i
    OBVIOUS
  <2>1. i \in 0 .. n - 1 /\ a <= i /\ i < b
    BY <1>1
  <2>2. PICK x \in S : Rank(R, S, x) = i
    BY <1>2, <2>1
  <2> QED
    BY <2>1, <2>2
<1>5. g \in Bijection(slice, a .. b - 1)
  BY <1>2, <1>3, <1>4 DEF Bijection, Injection, Surjection, IsInjective
<1>6. IsFiniteSet(slice)
  <2>1. slice \in SUBSET S
    OBVIOUS
  <2> HIDE DEF slice
  <2> QED
    BY <2>1, FS_Subset
<1>7. {Rank(R, S, x) : x \in slice} = a .. b - 1
  BY <1>3, <1>4
<1> HIDE DEF slice, g
<1>8. Cardinality(a .. b - 1) = Cardinality(slice)
  <2>1. ExistsBijection(slice, a .. b - 1)
    BY <1>5 DEF ExistsBijection
  <2> QED
    BY <1>6, <2>1, FS_Bijection
<1>9. Cardinality(a .. b - 1) = b - a
  <2>1. Cardinality(a .. b - 1) = IF a > b - 1 THEN 0 ELSE b - 1 - a + 1
    BY FS_Interval
  <2> QED
    BY <2>1
<1> QED
  BY <1>6, <1>7, <1>8, <1>9 DEF slice

\* A stretch of places holds as many rows as it is long.
LEMMA RankCount ==
  ASSUME NEW R, NEW S, IsFiniteSet(S), StrictOrder(R, S),
         NEW a \in Nat, NEW n \in Nat, a + n <= Cardinality(S)
  PROVE  Cardinality({x \in S : a <= Rank(R, S, x) /\ Rank(R, S, x) < a + n}) = n
<1>1. PICK b \in Nat : b = a + n /\ a <= b /\ b - a = n
  <2>1. a + n \in Nat /\ a <= a + n /\ (a + n) - a = n
    OBVIOUS
  <2> QED
    BY <2>1
<1>2. b <= Cardinality(S)
  BY <1>1
<1> DEFINE slice == {x \in S : a <= Rank(R, S, x) /\ Rank(R, S, x) < b}
<1>3. IsFiniteSet(slice) /\ Cardinality(slice) = b - a
  BY <1>1, <1>2, RankSlice
<1>4. slice = {x \in S : a <= Rank(R, S, x) /\ Rank(R, S, x) < a + n}
  BY <1>1
<1> QED
  BY <1>1, <1>3, <1>4

\* The first n places hold n rows.
LEMMA RankTop ==
  ASSUME NEW R, NEW S, IsFiniteSet(S), StrictOrder(R, S), NEW n \in Nat, n <= Cardinality(S)
  PROVE  /\ IsFiniteSet({x \in S : Rank(R, S, x) < n})
         /\ Cardinality({x \in S : Rank(R, S, x) < n}) = n
<1>1. PICK a \in Nat : a = 0 /\ a <= n /\ n - a = n
  OBVIOUS
<1> DEFINE slice == {x \in S : a <= Rank(R, S, x) /\ Rank(R, S, x) < n}
<1>2. IsFiniteSet(slice) /\ Cardinality(slice) = n - a
  BY <1>1, RankSlice
<1>3. \A x \in S : Rank(R, S, x) \in Nat
  BY RankGrows
<1>4. slice = {x \in S : Rank(R, S, x) < n}
  BY <1>1, <1>3
<1> HIDE DEF slice
<1> QED
  BY <1>1, <1>2, <1>4

-----------------------------------------------------------------------------
(* Least and greatest.                                                     *)

\* The least of a set of natural numbers.
LEMMA MinOfNats ==
  ASSUME NEW S \in SUBSET Nat, S # {}
  PROVE  Min(S) \in S /\ \A x \in S : Min(S) <= x
<1>1. PICK m \in S : \A x \in S : ~ (<<x, m>> \in OpToRel(<, Nat))
  BY NatLessThanWellFounded, WFMin
<1>2. \A x \in S : ~ (x < m)
  BY <1>1 DEF OpToRel
<1>3. \A x \in S : m <= x
  BY <1>2
<1> QED
  BY <1>3 DEF Min

\* The lesser of two.
LEMMA MinOfTwo ==
  ASSUME NEW a \in Int, NEW b \in Int
  PROVE  Min({a, b}) = IF a <= b THEN a ELSE b
<1> DEFINE m == IF a <= b THEN a ELSE b
<1>1. m \in {a, b} /\ \A y \in {a, b} : m <= y
  OBVIOUS
<1>2. \A x \in {a, b} : (\A y \in {a, b} : x <= y) => x = m
  OBVIOUS
<1> QED
  BY <1>1, <1>2 DEF Min

\* The greater of two.
LEMMA MaxOfTwo ==
  ASSUME NEW a \in Int, NEW b \in Int
  PROVE  Max({a, b}) = IF a >= b THEN a ELSE b
<1> DEFINE m == IF a >= b THEN a ELSE b
<1>1. m \in {a, b} /\ \A y \in {a, b} : m >= y
  OBVIOUS
<1>2. \A x \in {a, b} : (\A y \in {a, b} : x >= y) => x = m
  OBVIOUS
<1> QED
  BY <1>1, <1>2 DEF Max

-----------------------------------------------------------------------------
(* The XP curve.                                                           *)

\* levelFromXp answers a level for every amount of XP.
LEMMA LevelType ==
  ASSUME NEW a \in Nat
  PROVE  LevelFromXp(a) \in Nat
<1> DEFINE fit == {n \in 1 .. (a \div XpStep) : XpStep * (n * n) <= a}
<1>1. IsFiniteSet(1 .. (a \div XpStep))
  BY FS_Interval DEF XpStep
<1>2. Cardinality(fit) \in Nat
  <2>1. fit \in SUBSET (1 .. (a \div XpStep))
    OBVIOUS
  <2> QED
    BY <1>1, <2>1, FS_Subset, FS_CardinalityType
<1> QED
  BY <1>2 DEF LevelFromXp, Root, MIN_LEVEL

-----------------------------------------------------------------------------
(* The activity feed.                                                      *)

FeedEntries ==
  {x \in [stream : {"completed", "started", "achievement", "deleted"}, id : Activities, at : Nat] :
     x.stream = "achievement" <=> x.id \notin QuestRows}

Writes ==
  {v \in [step : {"check", "stamp", "commit"}, row : Activities,
          stream : {"completed", "started", "achievement"}, at : Nat] :
     v.stream = "achievement" <=> v.row \notin QuestRows}

NewerThan(x, S) == Cardinality({y \in S : Before(y, x)})

NewestOrder(S) == {pair \in S \X S : Before(pair[1], pair[2])}

Readers ==
  [step : 0 .. 6, limit : Nat, from : SUBSET Friends, rows : SUBSET FeedEntries, cursor : 0 .. Start,
   more : BOOLEAN, given : SUBSET FeedEntries, page : SUBSET FeedEntries, cursors : SUBSET Nat,
   first : SUBSET FeedEntries, changed : SUBSET Activities, overtaken : SUBSET Activities,
   between : SUBSET FeedEntries]

TimesTaken ==
  /\ moment \in Nat /\ moment <= LastMoment
  /\ friends \in SUBSET Friends
  /\ writing \in [Writers -> Writes \cup {Idle, Done}]
  /\ \A w \in Writers : writing[w] \in Writes => writing[w].at <= moment
  /\ activity \in [Activities -> FeedEntries \cup {Nothing}]
  /\ \A i \in Activities : activity[i] \in FeedEntries => activity[i].id = i /\ activity[i].at <= moment

\* Nothing is handed out before the reader begins, and its limit is what it asked for.
ReaderType ==
  /\ reader \in Readers
  /\ IsFiniteSet(reader.rows)
  /\ reader.step # 0 => reader.more /\ reader.page = {}
  /\ reader.step # 0 \/ reader.cursor # Start => reader.limit \in 1 .. 100
  /\ (reader.step = 0 /\ reader.cursor = Start /\ reader.more) => reader.first = {} /\ HandedOut = {}

FeedType == TimesTaken /\ ReaderType

ReadSoFar(stream) == \E s \in 1 .. 5 : s < reader.step /\ Streams[s] = stream

\* A row shows what it showed when it was read, unless it has changed; and an older
\* moment than then only when it was overtaken.
RowsKnown ==
  /\ \A x \in reader.first : /\ activity[x.id] \in FeedEntries
                             /\ x.id \notin reader.changed => activity[x.id] = x
  /\ \A x \in reader.rows : /\ ReadSoFar(x.stream)
                            /\ x.id \notin reader.changed => activity[x.id] = x
  /\ \A x \in reader.rows \cup HandedOut :
       activity[x.id] \in FeedEntries /\ (x.id \in reader.overtaken \/ x.at <= activity[x.id].at)
  /\ \A x \in reader.between, y \in reader.first : x.id = y.id => x.id \in reader.changed

\* What is handed out is not behind the cursor, what is read is; a row can be both when it
\* was overtaken only.
CursorParts ==
  /\ \A c \in reader.cursors : reader.cursor <= c
  /\ reader.more => \A y \in HandedOut : reader.cursor <= y.at
  /\ \A x \in reader.rows : x.at < reader.cursor
  /\ \A x \in reader.rows, y \in HandedOut : x.id = y.id => x.id \in reader.overtaken
  /\ \A x \in reader.page, y \in reader.given : x.id = y.id => x.at < y.at /\ x.id \in reader.overtaken

\* A row is read in both streams of quests when it was restarted between the two queries.
ReadOnce ==
  /\ reader.step = 2 => \A x \in reader.rows : activity[x.id].stream # "started" \/ RestartedBetween(x.id)
  /\ \A x, y \in reader.rows : (x.id = y.id /\ x # y) => RestartedBetween(x.id)
  /\ \A x, y \in reader.page : (x.id = y.id /\ x # y) => RestartedBetween(x.id)

\* Row i is among the rows read, or the page is full without it.
Taken(i) ==
  \/ \E y \in reader.rows : y.id = i
  \/ reader.limit < NewerThan(activity[i], reader.rows)
  \/ i \in reader.changed /\ reader.limit < Cardinality(reader.rows)

\* What becomes of a row there was at first.
Accounted(x) ==
  \/ \E y \in HandedOut : y.id = x.id
  \/ x.id \notin reader.changed /\ x.at \in reader.cursors
  \/ x.id \in reader.changed /\ reader.cursor <= activity[x.id].at
  \/ ~ reader.more /\ CompletedBetween(x.id)
  \/ x.id \in reader.overtaken
  \/ /\ reader.more /\ activity[x.id].at < reader.cursor
     /\ ReadSoFar(activity[x.id].stream) => CompletedBetween(x.id) \/ Taken(x.id)

DueAhead ==
  /\ reader.step # 0 => friends \subseteq reader.from
  /\ \A x \in Due : Accounted(x)

FeedInv == FeedType /\ RowsKnown /\ CursorParts /\ ReadOnce /\ DueAhead

\* A stream is read further than a page is long.
LEMMA StreamsLong ==
  ASSUME NEW limit \in 1 .. 100
  PROVE  PerStream(limit) \in Nat /\ limit < PerStream(limit)
<1> DEFINE a == limit + 60
           b == limit * 12
           c == IF a >= b THEN a ELSE b
<1>2. a \in Int /\ b \in Int /\ c \in Nat /\ limit < c
  OBVIOUS
<1>3. Max({a, b}) = c
  <2> HIDE DEF a, b
  <2> QED
    BY <1>2, MaxOfTwo
<1> HIDE DEF a, b, c
<1>4. Min({500, c}) = IF 500 <= c THEN 500 ELSE c
  BY <1>2, MinOfTwo
<1> QED
  BY <1>2, <1>3, <1>4 DEF PerStream, a, b

\* Each stream is read once, the completed quests first, and no deleted row.
LEMMA StreamsRead ==
  /\ DOMAIN Streams = 1 .. 5 /\ Len(Streams) = 5
  /\ Streams[1] = "completed" /\ Streams[2] = "started" /\ Streams[3] = "achievement"
  /\ \A s \in 1 .. 5 : Streams[s] # "deleted"
  /\ \A s, t \in 1 .. 5 : Streams[s] = Streams[t] => s = t
  /\ \A s \in 1 .. 5 : (Streams[s] = "completed" => s = 1) /\ (Streams[s] = "started" => s = 2)
<1>1. DOMAIN Streams = 1 .. 5 /\ Len(Streams) = 5
  BY DEF Streams
<1>2. /\ Streams[1] = "completed" /\ Streams[2] = "started" /\ Streams[3] = "achievement"
      /\ Streams[4] = "levelUp" /\ Streams[5] = "visit"
  BY DEF Streams
<1>3. \A s \in 1 .. 5 : s = 1 \/ s = 2 \/ s = 3 \/ s = 4 \/ s = 5
  OBVIOUS
<1>4. \A s \in 1 .. 5 : Streams[s] # "deleted"
  BY <1>2, <1>3
<1>5. \A s \in 1 .. 5 : (Streams[s] = "completed" => s = 1) /\ (Streams[s] = "started" => s = 2)
  BY <1>2, <1>3
<1>6. \A s, t \in 1 .. 5 : Streams[s] = Streams[t] => s = t
  BY <1>2, <1>3
<1> QED
  BY <1>1, <1>2, <1>4, <1>5, <1>6

\* The rows a page is made of.
FeedRows == {x \in FeedEntries : x.stream # "deleted"}

\* Newest first is an order of the rows read, of which no two tie.
LEMMA NewestOrdered ==
  ASSUME NEW S \in SUBSET FeedRows
  PROVE  /\ StrictOrder(NewestOrder(S), S)
         /\ \A x \in S : Rank(NewestOrder(S), S, x) = NewerThan(x, S)
<1>1. \A x \in S : /\ x.at \in Nat /\ x.id \in Nat
                   /\ x \in [stream : {"completed", "started", "achievement", "deleted"}, id : Activities, at : Nat]
                   /\ x.stream \in {"completed", "started", "achievement"}
                   /\ x.stream = "achievement" <=> x.id \notin QuestRows
  BY FeedBoundsAssumption DEF FeedEntries, FeedRows
<1>2. \A x, y \in S : (x.at = y.at /\ x.id = y.id /\ x.stream = y.stream) => x = y
  BY <1>1
<1>3. \A x \in S : ~ Before(x, x)
  BY <1>1 DEF Before
<1>4. \A x, y, z \in S : Before(x, y) /\ Before(y, z) => Before(x, z)
  BY <1>1 DEF Before
<1>5. \A x, y \in S : x # y => Before(x, y) \/ Before(y, x)
  BY <1>1, <1>2 DEF Before
<1>6. \A x, y \in S : <<x, y>> \in NewestOrder(S) <=> Before(x, y)
  BY DEF NewestOrder
<1>7. StrictOrder(NewestOrder(S), S)
  BY <1>3, <1>4, <1>5, <1>6 DEF StrictOrder
<1>8. ASSUME NEW x \in S
      PROVE  Rank(NewestOrder(S), S, x) = NewerThan(x, S)
  <2>1. {y \in S : <<y, x>> \in NewestOrder(S)} = {y \in S : Before(y, x)}
    BY <1>6
  <2> QED
    BY <2>1 DEF Rank, NewerThan
<1> QED
  BY <1>7, <1>8

\* The newest n of more than n rows are n, and newer than any row they leave out.
LEMMA NewestTaken ==
  ASSUME NEW S \in SUBSET FeedRows, IsFiniteSet(S), NEW n \in Nat, NEW x \in S, x \notin Newest(n, S)
  PROVE  /\ IsFiniteSet(Newest(n, S)) /\ Cardinality(Newest(n, S)) = n
         /\ \A y \in Newest(n, S) : Before(y, x)
<1> DEFINE R == NewestOrder(S)
           rank(y) == Rank(R, S, y)
<1>1. StrictOrder(R, S) /\ \A y \in S : rank(y) = NewerThan(y, S)
  BY NewestOrdered
<1> HIDE DEF R
<1>2. \A y \in S : /\ rank(y) \in Nat /\ rank(y) < Cardinality(S)
                   /\ \A z \in S : <<z, y>> \in R => rank(z) < rank(y)
  BY <1>1, RankGrows
<1>3. Newest(n, S) = {y \in S : rank(y) < n}
  BY <1>1 DEF Newest, NewerThan
<1>4. n <= rank(x) /\ n <= Cardinality(S)
  <2>1. ~ (rank(x) < n) /\ Cardinality(S) \in Nat
    BY <1>2, <1>3, FS_CardinalityType
  <2> HIDE DEF rank
  <2> QED
    BY <1>2, <2>1
<1>5. /\ IsFiniteSet({y \in S : Rank(R, S, y) < n})
      /\ Cardinality({y \in S : Rank(R, S, y) < n}) = n
  <2>1. StrictOrder(R, S) /\ n <= Cardinality(S)
    BY <1>1, <1>4
  <2> QED
    BY <2>1, RankTop
<1>6. ASSUME NEW y \in Newest(n, S)
      PROVE  Before(y, x)
  <2>1. y \in S /\ rank(y) < n
    BY <1>3
  <2> HIDE DEF rank
  <2>2. rank(y) < rank(x)
    BY <1>2, <1>4, <2>1
  <2>3. y # x /\ <<x, y>> \notin R
    BY <1>2, <2>1, <2>2
  <2>4. <<y, x>> \in R
    BY <1>1, <2>1, <2>3 DEF StrictOrder
  <2> QED
    BY <2>4 DEF R, NewestOrder
<1> QED
  BY <1>3, <1>5, <1>6
\* The more rows are read, the more of them may be newer.
LEMMA NewerCounted ==
  ASSUME NEW T, IsFiniteSet(T), NEW S \in SUBSET T, NEW x
  PROVE  /\ NewerThan(x, S) \in Nat /\ NewerThan(x, T) \in Nat /\ Cardinality(T) \in Nat
         /\ NewerThan(x, S) <= NewerThan(x, T) /\ NewerThan(x, T) <= Cardinality(T)
<1> DEFINE now == {y \in T : Before(y, x)}
           then == {y \in S : Before(y, x)}
<1>1. now \in SUBSET T /\ then \in SUBSET now
  OBVIOUS
<1>2. NewerThan(x, T) = Cardinality(now) /\ NewerThan(x, S) = Cardinality(then)
  BY DEF NewerThan
<1> HIDE DEF now, then
<1>3. IsFiniteSet(now) /\ Cardinality(now) <= Cardinality(T)
  BY <1>1, FS_Subset
<1>4. IsFiniteSet(then) /\ Cardinality(then) <= Cardinality(now)
  BY <1>1, <1>3, FS_Subset
<1> QED
  BY <1>2, <1>3, <1>4, FS_CardinalityType

\* The rows there are can be counted, and none is newer than the clock.
LEMMA ExistingKnown ==
  ASSUME TimesTaken
  PROVE  /\ IsFiniteSet(Existing) /\ Existing \in SUBSET FeedEntries
         /\ \A x \in Existing : activity[x.id] = x /\ x.at \in Nat /\ x.at < Start
         /\ \A i \in Activities : activity[i] \in FeedEntries => activity[i] \in Existing /\ activity[i].id = i
<1> DEFINE written == {j \in Activities : activity[j] # Nothing}
           f == [i \in written |-> activity[i]]
<1>1. Nothing \notin FeedEntries
  BY DEF Nothing, FeedEntries
<1>2. \A i \in written : /\ activity[i] \in FeedEntries /\ activity[i].id = i
                         /\ activity[i].at <= moment
  BY DEF TimesTaken
<1>3. IsFiniteSet(written)
  <2>1. written \in SUBSET Activities
    OBVIOUS
  <2> HIDE DEF written
  <2> QED
    BY <2>1, FS_Subset, FeedBoundsAssumption
<1>4. Existing = {activity[i] : i \in written}
  BY DEF Existing
<1>5. \A x \in Existing : activity[x.id] = x /\ x \in FeedEntries /\ x.at <= moment
  <2> HIDE DEF written
  <2> QED
    BY <1>2, <1>4
<1>6. IsFiniteSet(Existing)
  <2>1. f \in Surjection(written, Existing)
    BY <1>4 DEF Surjection
  <2> HIDE DEF written, f
  <2> QED
    BY <1>3, <2>1, FS_Surjection
<1>7. \A x \in Existing : x.at \in Nat /\ x.at < Start
  <2>1. \A x \in Existing : x.at \in Nat
    BY <1>5 DEF FeedEntries
  <2>2. moment \in Nat /\ moment <= LastMoment /\ LastMoment \in Nat
    BY FeedBoundsAssumption DEF TimesTaken
  <2> QED
    BY <1>5, <2>1, <2>2 DEF Start
<1>8. \A i \in Activities : activity[i] \in FeedEntries => activity[i] \in Existing /\ activity[i].id = i
  BY <1>1, <1>2, <1>4
<1> QED
  BY <1>5, <1>6, <1>7, <1>8

\* A reader that has read nothing misses nothing.
LEMMA FeedStarts ==
  FeedInit => FeedInv
<1> SUFFICES ASSUME FeedInit
             PROVE  FeedInv
  OBVIOUS
<1>1. /\ moment = FirstMoment /\ friends = Friends /\ writing = [w \in Writers |-> Idle]
      /\ \A i \in Activities : activity[i] \in Shown(i) \cup {Nothing}
      /\ reader = NewReader
  BY DEF FeedInit
<1>2. Nothing \notin FeedEntries /\ Idle \notin Writes
  BY DEF Nothing, FeedEntries, Idle, Writes
<1>3. FirstMoment \in Nat /\ LastMoment \in Nat /\ FirstMoment <= LastMoment
  BY FeedBoundsAssumption
<1>4. \A i \in Activities : activity[i] \in FeedEntries \cup {Nothing}
                            /\ (activity[i] # Nothing => activity[i].id = i /\ activity[i].at <= moment)
  <2> SUFFICES ASSUME NEW i \in Activities, activity[i] # Nothing
               PROVE  activity[i] \in FeedEntries /\ activity[i].id = i /\ activity[i].at <= moment
    OBVIOUS
  <2>1. activity[i] \in Shown(i)
    BY <1>1
  <2>2. activity[i] \in [stream : {"completed", "started", "achievement"}, id : {i}, at : 0 .. FirstMoment]
        /\ (activity[i].stream = "achievement" <=> i \notin QuestRows)
    BY <2>1 DEF Shown
  <2> QED
    BY <1>1, <1>3, <2>2 DEF FeedEntries
<1>5. activity \in [Activities -> FeedEntries \cup {Nothing}]
  <2>1. activity \in [Activities -> UNION {Shown(i) \cup {Nothing} : i \in Activities}]
    BY DEF FeedInit
  <2> QED
    BY <1>4, <2>1
<1>6. TimesTaken
  BY <1>1, <1>2, <1>3, <1>4, <1>5 DEF TimesTaken
<1>7. /\ reader.rows = {} /\ reader.given = {} /\ reader.page = {} /\ reader.first = {} /\ reader.step = 0
      /\ reader.cursor = Start /\ reader.cursors = {} /\ reader.between = {}
  BY <1>1 DEF NewReader
<1>8. HandedOut = {} /\ Due = {}
  BY <1>7 DEF HandedOut, Due
<1>9. ReaderType
  <2>1. reader \in Readers
    BY <1>1, <1>3 DEF NewReader, Start, Readers
  <2> QED
    BY <1>7, <1>8, <2>1, FS_EmptySet DEF ReaderType
<1> QED
  BY <1>6, <1>7, <1>8, <1>9 DEF FeedInv, FeedType, RowsKnown, CursorParts, ReadOnce, DueAhead

\* A row comes to show x: what was read of it before stays, as changed or as overtaken.
LEMMA RowShown ==
  ASSUME FeedInv, ~ Finished, NEW x \in FeedEntries, x.at <= moment, TimesTaken',
         activity[x.id].stream # "deleted", Show(x), UNCHANGED friends
  PROVE  FeedInv'
<1>1. /\ TimesTaken /\ ReaderType /\ RowsKnown /\ CursorParts /\ ReadOnce /\ DueAhead
      /\ reader \in Readers
  BY DEF FeedInv, FeedType, ReaderType
<1> DEFINE i == x.id
           fresh == activity[i] = Nothing
           changed == IF fresh THEN reader.changed ELSE reader.changed \cup {i}
           overtaken == IF fresh \/ activity[i].at <= x.at THEN reader.overtaken
                        ELSE reader.overtaken \cup {i}
           between == IF Between THEN reader.between \cup {x} ELSE reader.between
<1>2. /\ i \in Activities /\ x.at \in Nat
      /\ activity'[i] = x
      /\ \A j \in Activities : j # i => activity'[j] = activity[j]
      /\ \A j \in Activities : activity[j] \in FeedEntries =>
           activity[j].at \in Nat /\ activity'[j] \in FeedEntries /\ activity'[j].at \in Nat
      /\ Nothing \notin FeedEntries
  <2>1. i \in Activities /\ x.at \in Nat /\ Nothing \notin FeedEntries
    BY DEF FeedEntries, Nothing
  <2>2. activity' = [activity EXCEPT ![x.id] = x] /\ activity \in [Activities -> FeedEntries \cup {Nothing}]
    BY <1>1 DEF Show, TimesTaken
  <2>3. activity'[i] = x /\ \A j \in Activities : j # i => activity'[j] = activity[j]
    BY <2>1, <2>2
  <2>4. \A y \in FeedEntries : y.at \in Nat
    BY DEF FeedEntries
  <2> QED
    BY <2>1, <2>3, <2>4
<1>3. CASE reader.step = 0 /\ reader.cursor = Start
  <2>1. reader' = reader
    BY <1>3 DEF Show
  <2>2. reader.more
    BY <1>3 DEF Finished
  <2>3. reader.first = {} /\ HandedOut = {} /\ reader.given = {} /\ reader.page = {}
    BY <1>1, <1>3, <2>2 DEF ReaderType, HandedOut
  <2>4. reader.rows = {}
    BY <1>1, <1>3 DEF RowsKnown, ReadSoFar
  <2>5. HandedOut' = {} /\ Due' = {}
    BY <2>1, <2>3 DEF HandedOut, Due
  <2>6. FeedType'
    BY <1>1, <2>1, <2>3, <2>5 DEF FeedType, ReaderType, Readers
  <2>7. RowsKnown' /\ ReadOnce'
    BY <2>1, <2>3, <2>4, <2>5 DEF RowsKnown, ReadOnce
  <2>8. CursorParts'
    BY <1>1, <2>1, <2>3, <2>4, <2>5 DEF CursorParts
  <2>9. DueAhead'
    BY <1>3, <2>1, <2>5 DEF DueAhead
  <2> QED
    BY <2>6, <2>7, <2>8, <2>9 DEF FeedInv
<1>4. CASE ~ (reader.step = 0 /\ reader.cursor = Start)
  <2>1. reader' = [reader EXCEPT !.changed = changed, !.overtaken = overtaken, !.between = between]
    BY <1>1, <1>4 DEF Show, Readers
  <2>2. /\ changed \in SUBSET Activities /\ overtaken \in SUBSET Activities
        /\ between \in SUBSET FeedEntries
        /\ reader.changed \subseteq changed /\ reader.overtaken \subseteq overtaken
        /\ reader.between \subseteq between
        /\ changed \subseteq reader.changed \cup {i}
        /\ between \subseteq reader.between \cup {x}
        /\ (reader.step = 2 => x \in between)
        /\ (activity[i] \in FeedEntries => i \in changed)
        /\ (activity[i] \in FeedEntries => i \in overtaken \/ activity[i].at <= x.at)
    <3>1. reader.changed \in SUBSET Activities /\ reader.overtaken \in SUBSET Activities
          /\ reader.between \in SUBSET FeedEntries
      BY <1>1 DEF Readers
    <3> QED
      BY <1>2, <3>1 DEF Between
  <2> HIDE DEF changed, overtaken, between
  <2>3. /\ reader'.step = reader.step /\ reader'.limit = reader.limit /\ reader'.from = reader.from
        /\ reader'.rows = reader.rows /\ reader'.cursor = reader.cursor /\ reader'.more = reader.more
        /\ reader'.given = reader.given /\ reader'.page = reader.page
        /\ reader'.cursors = reader.cursors /\ reader'.first = reader.first
        /\ reader'.changed = changed /\ reader'.overtaken = overtaken /\ reader'.between = between
    BY <1>1, <2>1 DEF Readers
  <2>4. HandedOut' = HandedOut /\ \A stream : ReadSoFar(stream)' <=> ReadSoFar(stream)
    BY <2>3 DEF HandedOut, ReadSoFar
  <2>5. /\ \A j : CompletedBetween(j) => CompletedBetween(j)'
        /\ \A j : RestartedBetween(j) => RestartedBetween(j)'
        /\ (reader.step = 2 /\ x.stream = "completed") => CompletedBetween(i)'
        /\ (reader.step = 2 /\ x.stream = "started") => RestartedBetween(i)'
    BY <2>2, <2>3 DEF CompletedBetween, RestartedBetween
  <2>6. reader' \in Readers
    BY <1>1, <2>1, <2>2 DEF Readers
  <2>7. FeedType'
    BY <1>1, <2>3, <2>4, <2>6 DEF FeedType, ReaderType
  <2>8. RowsKnown'
    <3>1. \A y \in reader.first : activity'[y.id] \in FeedEntries /\ (y.id \notin changed => activity'[y.id] = y)
      <4>1. \A y \in reader.first : y.id \in Activities
        BY <1>1 DEF Readers, FeedEntries
      <4> QED
        BY <1>1, <1>2, <2>2, <4>1 DEF RowsKnown
    <3>2. \A y \in reader.rows \cup HandedOut : y.id \in Activities /\ y.at \in Nat
      BY <1>1 DEF Readers, FeedEntries, HandedOut
    <3>3. \A y \in reader.rows : y.id \notin changed => activity'[y.id] = y
      BY <1>1, <1>2, <2>2, <3>2 DEF RowsKnown
    <3>4. ASSUME NEW y \in reader.rows \cup HandedOut
          PROVE  activity'[y.id] \in FeedEntries /\ (y.id \in overtaken \/ y.at <= activity'[y.id].at)
      <4>1. /\ activity[y.id] \in FeedEntries /\ (y.id \in reader.overtaken \/ y.at <= activity[y.id].at)
            /\ y.id \in Activities /\ y.at \in Nat
        BY <1>1, <3>2 DEF RowsKnown
      <4>2. CASE y.id # i
        BY <1>2, <2>2, <4>1, <4>2
      <4>3. CASE y.id = i
        <5>1. activity[i].at \in Nat /\ activity'[y.id] = x
          BY <1>2, <4>1, <4>3
        <5>2. i \in overtaken \/ activity[i].at <= x.at
          BY <2>2, <4>1, <4>3
        <5> QED
          BY <1>2, <2>2, <4>1, <4>3, <5>1, <5>2
      <4> QED
        BY <4>2, <4>3
    <3>5. \A y \in between, z \in reader.first : y.id = z.id => y.id \in changed
      <4>1. \A z \in reader.first : activity[z.id] \in FeedEntries
        BY <1>1 DEF RowsKnown
      <4> QED
        BY <1>1, <2>2, <4>1 DEF RowsKnown
    <3> QED
      BY <1>1, <2>3, <2>4, <3>1, <3>3, <3>4, <3>5 DEF RowsKnown
  <2>9. CursorParts'
    BY <1>1, <2>2, <2>3, <2>4 DEF CursorParts
  <2>10. ReadOnce'
    <3>1. ASSUME reader.step = 2, NEW y \in reader.rows
          PROVE  activity'[y.id].stream # "started" \/ RestartedBetween(y.id)'
      <4>1. y.id \in Activities
        BY <1>1 DEF Readers, FeedEntries
      <4>2. activity[y.id].stream # "started" \/ RestartedBetween(y.id)
        BY <1>1, <3>1 DEF ReadOnce
      <4> QED
        BY <1>2, <2>5, <3>1, <4>1, <4>2
    <3>2. \A y, z \in reader.rows : (y.id = z.id /\ y # z) => RestartedBetween(y.id)'
      BY <1>1, <2>5 DEF ReadOnce
    <3>3. \A y, z \in reader.page : (y.id = z.id /\ y # z) => RestartedBetween(y.id)'
      BY <1>1, <2>5 DEF ReadOnce
    <3> QED
      BY <2>3, <3>1, <3>2, <3>3 DEF ReadOnce
  <2>11. \A j : Taken(j)' <=> \/ \E y \in reader.rows : y.id = j
                              \/ reader.limit < NewerThan(activity'[j], reader.rows)
                              \/ j \in changed /\ reader.limit < Cardinality(reader.rows)
    BY <2>3 DEF Taken, NewerThan, Before
  <2>12. ASSUME NEW y \in Due'
         PROVE  Accounted(y)'
    <3>1. /\ y \in reader.first /\ FriendOf[y.id] \in friends /\ activity'[y.id].stream # "deleted"
          /\ y.id \in Activities /\ activity[y.id] \in FeedEntries
          /\ y.id \notin reader.changed => activity[y.id] = y
      <4>1. y \in reader.first /\ FriendOf[y.id] \in friends /\ activity'[y.id].stream # "deleted"
        BY <2>3 DEF Due
      <4>2. y.id \in Activities
        BY <1>1, <4>1 DEF Readers, FeedEntries
      <4> QED
        BY <1>1, <4>1, <4>2 DEF RowsKnown
    <3>2. y \in Due
      BY <1>2, <3>1 DEF Due
    <3>3. Accounted(y)
      BY <1>1, <3>2 DEF DueAhead
    <3>4. CASE y.id # i
      <4>1. activity'[y.id] = activity[y.id] /\ (y.id \in changed <=> y.id \in reader.changed)
        BY <1>2, <2>2, <3>1, <3>4
      <4>2. Taken(y.id) => Taken(y.id)'
        BY <2>11, <4>1 DEF Taken
      <4> QED
        BY <2>2, <2>3, <2>4, <2>5, <3>3, <4>1, <4>2 DEF Accounted
    <3>5. CASE y.id = i
      <4>1. i \in changed /\ activity'[i] = x /\ activity[i].at \in Nat /\ reader.cursor \in Nat
        <5>1. activity[i] \in FeedEntries
          BY <3>1, <3>5
        <5>2. reader.cursor \in Nat
          BY <1>1, FeedBoundsAssumption DEF Readers, Start
        <5> QED
          BY <1>2, <2>2, <5>1, <5>2
      <4>2. CASE i \in overtaken
        BY <2>3, <3>5, <4>2 DEF Accounted
      <4>3. CASE i \notin overtaken
        <5>1. activity[i].at <= x.at
          BY <2>2, <3>1, <3>5, <4>3
        <5>2. CASE \E z \in HandedOut : z.id = i
          BY <2>4, <3>5, <5>2 DEF Accounted
        <5>3. CASE reader.cursor <= x.at
          BY <2>3, <3>5, <4>1, <5>3 DEF Accounted
        <5>4. CASE i \notin reader.changed /\ y.at \in reader.cursors
          <6>1. activity[i] = y /\ reader.cursor <= y.at
            BY <1>1, <3>1, <3>5, <5>4 DEF CursorParts
          <6>2. reader.cursor <= x.at
            BY <1>2, <4>1, <5>1, <6>1
          <6> QED
            BY <5>3, <6>2
        <5>5. CASE reader.cursor <= activity[i].at
          <6>1. reader.cursor <= x.at
            BY <1>2, <4>1, <5>1, <5>5
          <6> QED
            BY <5>3, <6>1
        <5>6. CASE ~ reader.more /\ CompletedBetween(i)
          BY <2>3, <2>5, <3>5, <5>6 DEF Accounted
        <5>7. CASE /\ reader.more /\ ~ (reader.cursor <= x.at)
                   /\ ReadSoFar(activity[i].stream) => CompletedBetween(i) \/ Taken(i)
          <6>1. x.at < reader.cursor
            BY <1>2, <4>1, <5>7
          <6>2. ASSUME ReadSoFar(x.stream)
                PROVE  CompletedBetween(i)' \/ Taken(i)'
            <7>1. CASE CompletedBetween(i)
              BY <2>5, <7>1
            <7>2. CASE Taken(i)
              <8>1. /\ NewerThan(activity[i], reader.rows) \in Nat /\ Cardinality(reader.rows) \in Nat
                    /\ NewerThan(activity[i], reader.rows) <= Cardinality(reader.rows)
                <9>1. IsFiniteSet(reader.rows)
                  BY <1>1 DEF ReaderType
                <9> QED
                  BY <9>1, NewerCounted
              <8>2. reader.limit \in Nat
                BY <1>1 DEF Readers
              <8>3. \/ \E z \in reader.rows : z.id = i
                    \/ reader.limit < Cardinality(reader.rows)
                BY <7>2, <8>1, <8>2 DEF Taken
              <8> QED
                BY <2>11, <4>1, <8>3
            <7>3. CASE ~ ReadSoFar(activity[i].stream)
              <8>1. PICK s \in 1 .. 5 : s < reader.step /\ Streams[s] = x.stream
                BY <6>2 DEF ReadSoFar
              <8>2. activity[i].stream # x.stream
                BY <7>3, <8>1 DEF ReadSoFar
              <8>3. activity[i].id = i
                BY <1>1, <3>1, <3>5 DEF TimesTaken
              <8>4. /\ activity[i].stream \in {"completed", "started", "achievement"}
                    /\ x.stream \in {"completed", "started", "achievement"}
                    /\ activity[i].stream = "achievement" <=> x.stream = "achievement"
                <9>1. x.stream # "deleted" /\ activity[i].stream # "deleted"
                  BY <1>2, <3>1, <3>5
                <9> QED
                  BY <3>1, <3>5, <8>3, <9>1 DEF FeedEntries
              <8>5. \/ x.stream = "completed" /\ activity[i].stream = "started"
                    \/ x.stream = "started" /\ activity[i].stream = "completed"
                BY <8>2, <8>4
              <8>6. reader.step \in Nat
                BY <1>1 DEF Readers
              <8>7. x.stream = "completed" /\ reader.step = 2
                <9>1. x.stream = "started" => s = 2
                  BY <8>1, StreamsRead
                <9>2. activity[i].stream = "completed" => ~ (1 < reader.step)
                  BY <7>3, StreamsRead DEF ReadSoFar
                <9>3. x.stream # "started"
                  BY <8>1, <8>5, <8>6, <9>1, <9>2
                <9>4. activity[i].stream = "started" => ~ (2 < reader.step)
                  BY <7>3, StreamsRead DEF ReadSoFar
                <9>5. x.stream = "completed" /\ activity[i].stream = "started"
                  BY <8>5, <9>3
                <9>6. s = 1
                  BY <8>1, <9>5, StreamsRead
                <9> QED
                  BY <8>1, <8>6, <9>4, <9>5, <9>6
              <8> QED
                BY <2>5, <8>7
            <7> QED
              BY <5>7, <7>1, <7>2, <7>3
          <6> QED
            BY <2>3, <2>4, <3>5, <4>1, <5>7, <6>1, <6>2 DEF Accounted
        <5>8. \/ \E z \in HandedOut : z.id = i
              \/ i \notin reader.changed /\ y.at \in reader.cursors
              \/ reader.cursor <= activity[i].at
              \/ ~ reader.more /\ CompletedBetween(i)
              \/ reader.more /\ (ReadSoFar(activity[i].stream) => CompletedBetween(i) \/ Taken(i))
          BY <2>2, <3>3, <3>5, <4>3 DEF Accounted
        <5> QED
          BY <5>2, <5>3, <5>4, <5>5, <5>6, <5>7, <5>8
      <4> QED
        BY <4>2, <4>3
    <3> QED
      BY <3>4, <3>5
  <2>13. DueAhead'
    BY <1>1, <2>3, <2>12 DEF DueAhead
  <2> QED
    BY <2>7, <2>8, <2>9, <2>10, <2>13 DEF FeedInv
<1> QED
  BY <1>3, <1>4

\* A friend less, a write gone on or a moment later, the rest being as it was.
LEMMA FeedRests ==
  ASSUME FeedInv, TimesTaken', UNCHANGED activity, UNCHANGED reader, friends' \subseteq friends
  PROVE  FeedInv'
<1>1. ReaderType /\ RowsKnown /\ CursorParts /\ ReadOnce /\ DueAhead
  BY DEF FeedInv, FeedType
<1>2. HandedOut' = HandedOut /\ \A x : ReadSoFar(x)' <=> ReadSoFar(x)
  BY DEF HandedOut, ReadSoFar
<1>3. \A i : /\ CompletedBetween(i)' <=> CompletedBetween(i)
             /\ RestartedBetween(i)' <=> RestartedBetween(i)
             /\ Taken(i)' <=> Taken(i)
  BY DEF CompletedBetween, RestartedBetween, Taken, NewerThan, Before
<1>4. ReaderType'
  BY <1>1, <1>2 DEF ReaderType, Readers, Start
<1>5. RowsKnown' /\ CursorParts' /\ ReadOnce'
  BY <1>1, <1>2, <1>3 DEF RowsKnown, CursorParts, ReadOnce
<1>6. Due' \subseteq Due
  BY DEF Due
<1>7. \A x : Accounted(x)' <=> Accounted(x)
  BY <1>2, <1>3 DEF Accounted
<1>8. DueAhead'
  BY <1>1, <1>6, <1>7 DEF DueAhead
<1> QED
  BY <1>4, <1>5, <1>8 DEF FeedInv, FeedType

\* A write goes on: it is one of the writes there are, with a time that has come.
LEMMA WriteGoesOn ==
  ASSUME TimesTaken, NEW w \in Writers, NEW write \in Writes \cup {Done},
         write \in Writes => write.at <= moment, writing' = [writing EXCEPT ![w] = write]
  PROVE  /\ writing' \in [Writers -> Writes \cup {Idle, Done}]
         /\ \A v \in Writers : writing'[v] \in Writes => writing'[v].at <= moment
<1>1. writing \in [Writers -> Writes \cup {Idle, Done}]
      /\ \A v \in Writers : writing[v] \in Writes => writing[v].at <= moment
  BY DEF TimesTaken
<1>2. writing'[w] = write /\ \A v \in Writers : v # w => writing'[v] = writing[v]
  BY <1>1
<1>3. writing' \in [Writers -> Writes \cup {Idle, Done}]
  BY <1>1
<1> QED
  BY <1>1, <1>2, <1>3

\* What friends do meanwhile.
LEMMA FriendsGoOn ==
  ASSUME FeedInv, ~ Finished, NEW w \in Writers,
         \/ StartQuestRow(w) \/ BeginCompletion(w) \/ CheckStarted(w)
         \/ FindLocked(w) \/ StampUnlock(w) \/ Abandon(w) \/ CommitWrite(w)
  PROVE  FeedInv'
<1>1. TimesTaken /\ moment \in Nat
  BY DEF FeedInv, FeedType, TimesTaken
<1>2. Done \notin Writes /\ Idle \notin Writes /\ Idle.step = "idle" /\ Done.step = "done"
  BY DEF Done, Idle, Writes
<1>3. writing[w] \in Writes \cup {Idle, Done} /\ (writing[w] \in Writes => writing[w].at <= moment)
  BY <1>1 DEF TimesTaken
<1>4. ASSUME NEW write \in Writes \cup {Done}, write \in Writes => write.at <= moment, Proceed(w, write)
      PROVE  FeedInv'
  <2>1. writing' = [writing EXCEPT ![w] = write] /\ UNCHANGED <<moment, friends, activity, reader>>
    BY <1>4 DEF Proceed
  <2>2. TimesTaken'
    <3>1. /\ writing' \in [Writers -> Writes \cup {Idle, Done}]
          /\ \A v \in Writers : writing'[v] \in Writes => writing'[v].at <= moment
      BY <1>1, <1>4, <2>1, WriteGoesOn
    <3> QED
      BY <1>1, <2>1, <3>1 DEF TimesTaken
  <2> QED
    BY <2>1, <2>2, FeedRests
<1>5. ASSUME NEW write \in Writes \cup {Done}, write \in Writes => write.at <= moment, Begin(w, write)
      PROVE  FeedInv'
  BY <1>4, <1>5 DEF Begin, Proceed
<1>6. CASE StartQuestRow(w)
  <2>1. PICK i \in QuestRows :
          Begin(w, [step |-> "commit", row |-> i, stream |-> "started", at |-> moment])
    BY <1>6 DEF StartQuestRow
  <2>2. [step |-> "commit", row |-> i, stream |-> "started", at |-> moment] \in Writes
    BY <1>1, FeedBoundsAssumption DEF Writes
  <2> QED
    BY <1>1, <1>5, <2>1, <2>2
<1>7. CASE BeginCompletion(w)
  <2>1. PICK i \in QuestRows :
          Begin(w, [step |-> "check", row |-> i, stream |-> "completed", at |-> moment])
    BY <1>7 DEF BeginCompletion
  <2>2. [step |-> "check", row |-> i, stream |-> "completed", at |-> moment] \in Writes
    BY <1>1, FeedBoundsAssumption DEF Writes
  <2> QED
    BY <1>1, <1>5, <2>1, <2>2
<1>8. CASE CheckStarted(w)
  <2>1. writing[w] \in Writes
    BY <1>2, <1>3, <1>8 DEF CheckStarted
  <2>2. [writing[w] EXCEPT !.step = "commit"] \in Writes /\ [writing[w] EXCEPT !.step = "commit"].at = writing[w].at
    BY <2>1 DEF Writes
  <2> QED
    BY <1>3, <1>4, <1>8, <2>1, <2>2 DEF CheckStarted
<1>9. CASE FindLocked(w)
  <2>1. PICK i \in Activities \ QuestRows :
          Begin(w, [step |-> "stamp", row |-> i, stream |-> "achievement", at |-> moment])
    BY <1>9 DEF FindLocked
  <2>2. [step |-> "stamp", row |-> i, stream |-> "achievement", at |-> moment] \in Writes
    BY <1>1 DEF Writes
  <2> QED
    BY <1>1, <1>5, <2>1, <2>2
<1>10. CASE StampUnlock(w)
  <2>1. writing[w] \in Writes
    BY <1>2, <1>3, <1>10 DEF StampUnlock
  <2> DEFINE write == [writing[w] EXCEPT !.step = "commit", !.at = moment]
  <2>2. write \in Writes /\ write.at = moment
    BY <1>1, <2>1 DEF Writes
  <2>3. Proceed(w, write)
    BY <1>10 DEF StampUnlock
  <2> HIDE DEF write
  <2>4. write \in Writes \cup {Done} /\ write.at <= moment
    BY <1>1, <2>2
  <2> QED
    BY <1>4, <2>3, <2>4
<1>11. CASE Abandon(w)
  BY <1>2, <1>4, <1>11 DEF Abandon
<1>12. CASE CommitWrite(w)
  <2>1. writing[w] \in Writes
    BY <1>2, <1>3, <1>12 DEF CommitWrite
  <2>2. PICK x \in FeedEntries :
          x = [stream |-> writing[w].stream, id |-> writing[w].row, at |-> writing[w].at]
    BY <2>1 DEF FeedEntries, Writes
  <2>3. /\ x.id = writing[w].row /\ x.at <= moment /\ x.id \in Activities
        /\ Show(x) /\ activity[x.id].stream # "deleted"
        /\ writing' = [writing EXCEPT ![w] = Done] /\ UNCHANGED <<moment, friends>>
    BY <1>3, <1>12, <2>1, <2>2 DEF CommitWrite, Writes
  <2>4. TimesTaken'
    <3>1. /\ writing' \in [Writers -> Writes \cup {Idle, Done}]
          /\ \A v \in Writers : writing'[v] \in Writes => writing'[v].at <= moment
      BY <1>1, <1>2, <2>3, WriteGoesOn
    <3>2. activity' = [activity EXCEPT ![x.id] = x] /\ activity \in [Activities -> FeedEntries \cup {Nothing}]
      BY <1>1, <2>3 DEF Show, TimesTaken
    <3>3. activity' \in [Activities -> FeedEntries \cup {Nothing}]
      BY <3>2
    <3>4. \A i \in Activities : activity'[i] \in FeedEntries => activity'[i].id = i /\ activity'[i].at <= moment
      BY <1>1, <2>3, <3>2 DEF TimesTaken
    <3> QED
      BY <1>1, <2>3, <3>1, <3>3, <3>4 DEF TimesTaken
  <2> QED
    BY <2>3, <2>4, RowShown
<1> QED
  BY <1>6, <1>7, <1>8, <1>9, <1>10, <1>11, <1>12

\* A deleted row shows its last moment still, but in no stream.
LEMMA RowDeleted ==
  ASSUME FeedInv, ~ Finished, DeleteRow
  PROVE  FeedInv'
<1>1. TimesTaken
  BY DEF FeedInv, FeedType
<1>2. PICK i \in QuestRows : /\ activity[i].stream \in {"started", "completed"}
                             /\ Show([activity[i] EXCEPT !.stream = "deleted"])
                             /\ UNCHANGED <<moment, friends, writing>>
  BY DEF DeleteRow
<1>3. activity[i] \in FeedEntries /\ i \in Activities /\ activity[i].id = i /\ activity[i].at <= moment
  <2>1. i \in Activities /\ Nothing.stream = "none"
    BY FeedBoundsAssumption DEF Nothing
  <2>2. activity[i] \in FeedEntries \cup {Nothing} /\ activity[i] # Nothing
    BY <1>1, <1>2, <2>1 DEF TimesTaken
  <2> QED
    BY <1>1, <2>1, <2>2 DEF TimesTaken
<1>4. PICK x \in FeedEntries : /\ x = [activity[i] EXCEPT !.stream = "deleted"]
                               /\ x.id = i /\ x.at = activity[i].at
  BY <1>2, <1>3 DEF FeedEntries
<1>5. Show(x) /\ activity[x.id].stream # "deleted" /\ x.at <= moment
  BY <1>2, <1>3, <1>4
<1>6. TimesTaken'
  <2>1. activity' = [activity EXCEPT ![x.id] = x] /\ activity \in [Activities -> FeedEntries \cup {Nothing}]
    BY <1>1, <1>5 DEF Show, TimesTaken
  <2>2. activity' \in [Activities -> FeedEntries \cup {Nothing}]
    BY <2>1
  <2>3. \A j \in Activities : activity'[j] \in FeedEntries => activity'[j].id = j /\ activity'[j].at <= moment
    BY <1>1, <1>3, <1>4, <1>5, <2>1 DEF TimesTaken
  <2> QED
    BY <1>1, <1>2, <2>2, <2>3 DEF TimesTaken
<1> QED
  BY <1>2, <1>5, <1>6, RowShown

\* ReadFriends: a page of nobody is the end, the first page begins with what is there.
LEMMA FriendsRead ==
  ASSUME FeedInv, ReadFriends
  PROVE  FeedInv'
<1>1. /\ TimesTaken /\ ReaderType /\ RowsKnown /\ CursorParts /\ ReadOnce /\ DueAhead
      /\ reader \in Readers
  BY DEF FeedInv, FeedType, ReaderType
<1>2. /\ reader.step = 0 /\ reader.more
      /\ UNCHANGED moment /\ UNCHANGED friends /\ UNCHANGED activity /\ UNCHANGED writing
  BY DEF ReadFriends
<1> DEFINE first == IF reader.cursor = Start THEN Existing ELSE reader.first
           given == reader.given \cup reader.page
           anyone == friends # {}
<1>3. PICK limit \in (IF reader.cursor = Start THEN PageLimits ELSE {reader.limit}) :
        reader' = IF friends = {}
                  THEN [[reader EXCEPT !.limit = limit, !.given = given, !.page = {}, !.between = {},
                                       !.first = first] EXCEPT !.more = FALSE]
                  ELSE [[reader EXCEPT !.limit = limit, !.given = given, !.page = {}, !.between = {},
                                       !.first = first] EXCEPT !.step = 1, !.from = friends]
  BY <1>1 DEF ReadFriends, Readers
<1>4. limit \in 1 .. 100
  BY <1>1, <1>3, FeedBoundsAssumption DEF ReaderType
<1>5. /\ given \in SUBSET FeedEntries /\ first \in SUBSET FeedEntries
      /\ \A y \in first : activity[y.id] \in FeedEntries /\ (y.id \notin reader.changed => activity[y.id] = y)
      /\ (reader.cursor = Start => first = Existing)
      /\ (reader.cursor # Start => first = reader.first)
  <2>1. given \in SUBSET FeedEntries /\ reader.first \in SUBSET FeedEntries
    BY <1>1 DEF Readers
  <2>2. Existing \in SUBSET FeedEntries /\ \A y \in Existing : activity[y.id] = y
    BY <1>1, ExistingKnown
  <2> QED
    BY <1>1, <2>1, <2>2 DEF RowsKnown
<1> HIDE DEF first, given
<1>6. /\ (anyone => reader'.step = 1 /\ reader'.more) /\ (~ anyone => reader'.step = 0 /\ ~ reader'.more)
      /\ reader'.limit = limit /\ reader'.rows = reader.rows /\ reader'.cursor = reader.cursor
      /\ reader'.given = given /\ reader'.page = {} /\ reader'.cursors = reader.cursors
      /\ reader'.first = first /\ reader'.changed = reader.changed
      /\ reader'.overtaken = reader.overtaken /\ reader'.between = {}
      /\ (anyone => reader'.from = friends)
  BY <1>1, <1>2, <1>3 DEF Readers
<1>7. reader' \in Readers
  <2>1. friends \in SUBSET Friends /\ limit \in Nat /\ 1 \in 0 .. 6
    BY <1>1, <1>4 DEF TimesTaken
  <2> QED
    BY <1>1, <1>3, <1>5, <2>1 DEF Readers
<1>8. reader.rows = {}
  BY <1>1, <1>2 DEF RowsKnown, ReadSoFar
<1>9. HandedOut' = HandedOut /\ \A stream : ~ ReadSoFar(stream)'
  BY <1>6 DEF HandedOut, given, ReadSoFar
<1>10. TimesTaken'
  BY <1>1, <1>2 DEF TimesTaken
<1>11. ReaderType'
  <2>1. IsFiniteSet(reader'.rows)
    BY <1>6, <1>8, FS_EmptySet
  <2>2. reader'.page = {} /\ reader'.limit \in 1 .. 100
    BY <1>4, <1>6
  <2>3. reader'.step # 0 => reader'.more
    BY <1>6
  <2>4. reader'.more => reader'.step # 0
    BY <1>6
  <2> QED
    BY <1>7, <2>1, <2>2, <2>3, <2>4 DEF ReaderType
<1>12. RowsKnown'
  BY <1>1, <1>2, <1>5, <1>6, <1>8, <1>9 DEF RowsKnown
<1>13. CursorParts'
  BY <1>1, <1>2, <1>6, <1>8, <1>9 DEF CursorParts
<1>14. ReadOnce'
  BY <1>6, <1>8 DEF ReadOnce
<1>15. ASSUME NEW x \in Due'
       PROVE  Accounted(x)'
  <2>1. x \in first /\ FriendOf[x.id] \in friends /\ activity[x.id].stream # "deleted" /\ anyone
    BY <1>2, <1>6 DEF Due
  <2>2. CASE reader.cursor = Start
    <3>1. activity[x.id].at < reader.cursor
      BY <1>1, <1>5, <2>1, <2>2, ExistingKnown
    <3> QED
      BY <1>2, <1>6, <1>9, <2>1, <3>1 DEF Accounted
  <2>3. CASE reader.cursor # Start
    <3>1. Accounted(x)
      BY <1>1, <1>5, <2>1, <2>3 DEF DueAhead, Due
    <3> QED
      BY <1>2, <1>6, <1>9, <2>1, <3>1 DEF Accounted
  <2> QED
    BY <2>2, <2>3
<1>16. DueAhead'
  BY <1>2, <1>6, <1>15 DEF DueAhead
<1> QED
  BY <1>10, <1>11, <1>12, <1>13, <1>14, <1>16 DEF FeedInv, FeedType

\* ReadStream: what is due of the stream is taken, or more is that is newer.
LEMMA StreamRead ==
  ASSUME FeedInv, ReadStream
  PROVE  FeedInv'
<1>1. /\ TimesTaken /\ ReaderType /\ RowsKnown /\ CursorParts /\ ReadOnce /\ DueAhead
      /\ reader \in Readers
  BY DEF FeedInv, FeedType, ReaderType
<1> DEFINE stream == Streams[reader.step]
           base == {x \in Existing : /\ x.stream = stream /\ FriendOf[x.id] \in reader.from
                                     /\ Older(x, reader.cursor)}
           n == PerStream(reader.limit)
           found == Newest(n, base)
           read == reader.rows \cup found
<1>2. /\ reader.step \in 1 .. 5 /\ reader.limit \in 1 .. 100 /\ reader.more
      /\ UNCHANGED moment /\ UNCHANGED friends /\ UNCHANGED activity /\ UNCHANGED writing
      /\ reader' = [reader EXCEPT !.step = reader.step + 1, !.rows = read]
  <2>1. reader.step \in 1 .. 5
    BY StreamsRead DEF ReadStream
  <2> QED
    BY <1>1, <2>1 DEF ReadStream, Found, ReaderType, Readers
<1>3. /\ base \in SUBSET Existing /\ base \in SUBSET FeedRows /\ IsFiniteSet(base)
      /\ found \in SUBSET base
      /\ \A x \in base : x.stream = stream /\ x.at < reader.cursor
  <2>1. base \in SUBSET Existing /\ \A x \in base : x.stream = stream /\ x.at < reader.cursor
    BY DEF Older
  <2>2. found \in SUBSET base
    BY DEF Newest
  <2>3. stream # "deleted"
    BY <1>2, StreamsRead
  <2> HIDE DEF base, found, stream
  <2>4. base \in SUBSET FeedRows
    BY <1>1, <2>1, <2>3, ExistingKnown DEF FeedRows
  <2> QED
    BY <1>1, <2>1, <2>2, <2>4, ExistingKnown, FS_Subset
<1>4. n \in Nat /\ reader.limit < n /\ reader.limit \in Nat
  BY <1>2, StreamsLong
<1>5. \A x \in Existing : (x.stream = stream /\ FriendOf[x.id] \in reader.from /\ x.at < reader.cursor) => x \in base
  BY DEF Older
<1> HIDE DEF stream, base, n, found
<1>6. \A x \in found : /\ x \in FeedEntries /\ activity[x.id] = x /\ x.at \in Nat
                       /\ x.stream = stream /\ x.at < reader.cursor
  BY <1>1, <1>3, ExistingKnown
<1>7. IsFiniteSet(found) /\ IsFiniteSet(reader.rows) /\ IsFiniteSet(read)
  <2>1. IsFiniteSet(found) /\ IsFiniteSet(reader.rows)
    BY <1>1, <1>3, FS_Subset DEF ReaderType
  <2> QED
    BY <2>1, FS_Union
<1>8. read \in SUBSET FeedEntries /\ reader.rows \in SUBSET read
  BY <1>1, <1>6 DEF Readers
<1>9. \A x \in read : x \in reader.rows \/ x \in found
  OBVIOUS
<1>10. found \in SUBSET read
  OBVIOUS
<1> HIDE DEF read
<1>11. /\ reader'.step = reader.step + 1 /\ reader'.rows = read /\ reader'.more = reader.more
       /\ reader'.limit = reader.limit /\ reader'.from = reader.from
       /\ reader'.given = reader.given /\ reader'.page = reader.page
       /\ reader'.first = reader.first /\ reader'.cursor = reader.cursor
       /\ reader'.cursors = reader.cursors /\ reader'.changed = reader.changed
       /\ reader'.overtaken = reader.overtaken /\ reader'.between = reader.between
  BY <1>1, <1>2 DEF Readers
<1>12. /\ HandedOut' = HandedOut
       /\ \A s : ReadSoFar(s)' <=> ReadSoFar(s) \/ s = stream
       /\ \A i : CompletedBetween(i)' <=> CompletedBetween(i)
       /\ \A i : RestartedBetween(i)' <=> RestartedBetween(i)
  <2>1. \A s : ReadSoFar(s)' <=> ReadSoFar(s) \/ s = stream
    <3>1. \A t \in 1 .. 5 : t < reader.step + 1 <=> (t < reader.step \/ t = reader.step)
      BY <1>2
    <3> QED
      BY <1>2, <1>11, <3>1 DEF ReadSoFar, stream
  <2> QED
    BY <1>11, <2>1 DEF HandedOut, CompletedBetween, RestartedBetween
<1>13. TimesTaken'
  BY <1>1, <1>2 DEF TimesTaken
<1>14. ReaderType'
  <2>1. reader' \in Readers
    <3>1. reader.step + 1 \in 0 .. 6
      BY <1>2
    <3> QED
      BY <1>1, <1>2, <1>8, <3>1 DEF Readers
  <2>2. reader'.step # 0 /\ reader'.more /\ reader'.page = {} /\ reader'.limit \in 1 .. 100
    BY <1>1, <1>2, <1>11 DEF ReaderType
  <2>3. IsFiniteSet(reader'.rows)
    BY <1>7, <1>11
  <2> QED
    BY <2>1, <2>2, <2>3 DEF ReaderType
<1>15. RowsKnown'
  <2>1. \A x \in read : ReadSoFar(x.stream)' /\ (x.id \notin reader.changed => activity[x.id] = x)
    BY <1>1, <1>6, <1>9, <1>12 DEF RowsKnown
  <2>2. \A x \in read \cup HandedOut :
          activity[x.id] \in FeedEntries /\ (x.id \in reader.overtaken \/ x.at <= activity[x.id].at)
    <3>1. \A x \in found : activity[x.id] \in FeedEntries /\ x.at <= activity[x.id].at
      BY <1>6
    <3> QED
      BY <1>1, <1>9, <3>1 DEF RowsKnown
  <2> QED
    BY <1>1, <1>2, <1>11, <1>12, <2>1, <2>2 DEF RowsKnown
<1>16. CursorParts'
  <2>1. ASSUME NEW x \in found, NEW y \in HandedOut, x.id = y.id
        PROVE  x.id \in reader.overtaken
    <3>1. activity[y.id] = x /\ x.at < reader.cursor /\ x.at \in Nat
      BY <1>6, <2>1
    <3>2. reader.cursor <= y.at /\ (y.id \in reader.overtaken \/ y.at <= activity[y.id].at)
      BY <1>1, <1>2 DEF CursorParts, RowsKnown
    <3>3. reader.cursor \in Int /\ y.at \in Nat
      <4>1. y \in FeedEntries
        BY <1>1 DEF HandedOut, Readers
      <4>2. reader.cursor \in 0 .. Start
        BY <1>1 DEF Readers
      <4> QED
        BY <4>1, <4>2 DEF FeedEntries
    <3> QED
      BY <2>1, <3>1, <3>2, <3>3
  <2>2. \A x \in read, y \in HandedOut : x.id = y.id => x.id \in reader.overtaken
    BY <1>1, <1>9, <2>1 DEF CursorParts
  <2>3. \A x \in read : x.at < reader.cursor
    BY <1>1, <1>6, <1>9 DEF CursorParts
  <2> QED
    BY <1>1, <1>11, <1>12, <2>2, <2>3 DEF CursorParts
<1>17. ReadOnce'
  <2>1. ASSUME reader.step + 1 = 2, NEW x \in read
        PROVE  activity[x.id].stream # "started"
    <3>1. reader.step = 1
      BY <1>2, <2>1
    <3>2. reader.rows = {}
      BY <1>1, <3>1 DEF RowsKnown, ReadSoFar
    <3>3. x \in found /\ stream = "completed"
      BY <1>9, <3>1, <3>2, StreamsRead DEF stream
    <3> QED
      BY <1>6, <3>3
  <2>2. ASSUME NEW x \in reader.rows, NEW y \in found, x.id = y.id
        PROVE  RestartedBetween(x.id)
    <3>1. PICK s \in 1 .. 5 : s < reader.step /\ Streams[s] = x.stream
      BY <1>1 DEF RowsKnown, ReadSoFar
    <3>2. Streams[s] # stream /\ stream # "deleted" /\ x.stream # "deleted"
      BY <1>2, <3>1, StreamsRead DEF stream
    <3>3. y.stream = stream /\ activity[x.id] = y
      BY <1>6, <2>2
    <3>4. /\ x.stream \in {"completed", "started", "achievement"}
          /\ y.stream \in {"completed", "started", "achievement"}
          /\ x.stream = "achievement" <=> y.stream = "achievement"
      <4>1. x \in FeedEntries /\ y \in FeedEntries
        BY <1>1, <1>6 DEF Readers
      <4> QED
        BY <2>2, <3>2, <3>3, <4>1 DEF FeedEntries
    <3>5. x.stream # y.stream
      BY <3>1, <3>2, <3>3
    <3>6. \/ x.stream = "completed" /\ y.stream = "started"
          \/ x.stream = "started" /\ y.stream = "completed"
      BY <3>4, <3>5
    <3>7. y.stream = "started" /\ reader.step = 2
      <4>1. y.stream = "completed" => reader.step = 1
        BY <1>2, <3>3, StreamsRead DEF stream
      <4>2. y.stream = "started" => reader.step = 2
        BY <1>2, <3>3, StreamsRead DEF stream
      <4>3. reader.step # 1
        BY <1>2, <3>1
      <4> QED
        BY <3>6, <4>1, <4>2, <4>3
    <3> QED
      BY <1>1, <3>3, <3>7 DEF ReadOnce
  <2>3. ASSUME NEW x \in found, NEW y \in found, x.id = y.id
        PROVE  x = y
    BY <1>6, <2>3
  <2>4. \A x, y \in read : (x.id = y.id /\ x # y) => RestartedBetween(x.id)
    <3> SUFFICES ASSUME NEW x \in read, NEW y \in read, x.id = y.id, x # y
                 PROVE  RestartedBetween(x.id)
      OBVIOUS
    <3>1. CASE x \in reader.rows /\ y \in reader.rows
      BY <1>1, <3>1 DEF ReadOnce
    <3>2. CASE x \in reader.rows /\ y \in found
      BY <2>2, <3>2
    <3>3. CASE x \in found /\ y \in reader.rows
      <4>1. RestartedBetween(y.id)
        BY <2>2, <3>3
      <4> QED
        BY <4>1
    <3>4. CASE x \in found /\ y \in found
      BY <2>3, <3>4
    <3> QED
      BY <1>9, <3>1, <3>2, <3>3, <3>4
  <2> QED
    BY <1>1, <1>2, <1>11, <1>12, <2>1, <2>4 DEF ReadOnce
<1>18. \A i : Taken(i)' <=> \/ \E y \in read : y.id = i
                            \/ reader.limit < NewerThan(activity[i], read)
                            \/ i \in reader.changed /\ reader.limit < Cardinality(read)
  BY <1>2, <1>11 DEF Taken, NewerThan, Before
<1>19. ASSUME NEW i, Taken(i)
       PROVE  Taken(i)'
  <2>1. /\ NewerThan(activity[i], reader.rows) \in Nat /\ NewerThan(activity[i], read) \in Nat
        /\ NewerThan(activity[i], reader.rows) <= NewerThan(activity[i], read)
    BY <1>7, <1>8, NewerCounted
  <2>2. /\ Cardinality(reader.rows) \in Nat /\ Cardinality(read) \in Nat
        /\ Cardinality(reader.rows) <= Cardinality(read)
    BY <1>7, <1>8, FS_Subset, FS_CardinalityType
  <2>3. reader.limit < NewerThan(activity[i], reader.rows) => reader.limit < NewerThan(activity[i], read)
    BY <1>4, <2>1
  <2>4. reader.limit < Cardinality(reader.rows) => reader.limit < Cardinality(read)
    BY <1>4, <2>2
  <2> QED
    BY <1>8, <1>18, <1>19, <2>3, <2>4 DEF Taken
<1>20. ASSUME NEW x \in base, x \notin found
       PROVE  reader.limit < NewerThan(x, read)
  <2>1. Cardinality(found) = n /\ \A y \in found : Before(y, x)
    BY <1>3, <1>4, <1>20, NewestTaken DEF found
  <2> DEFINE newer == {y \in read : Before(y, x)}
  <2>2. found \in SUBSET newer /\ newer \in SUBSET read
    BY <1>10, <2>1
  <2>3. NewerThan(x, read) = Cardinality(newer)
    BY DEF NewerThan
  <2> HIDE DEF newer
  <2>4. IsFiniteSet(newer)
    BY <1>7, <2>2, FS_Subset
  <2>5. Cardinality(found) <= Cardinality(newer) /\ Cardinality(newer) \in Nat
    BY <2>2, <2>4, FS_Subset, FS_CardinalityType
  <2> QED
    BY <1>4, <2>1, <2>3, <2>5
<1>21. ASSUME NEW x \in Due'
       PROVE  Accounted(x)'
  <2>1. /\ x \in Due /\ x \in reader.first /\ FriendOf[x.id] \in reader.from
        /\ x.id \in Activities /\ activity[x.id] \in FeedEntries
    <3>1. x \in Due
      BY <1>2, <1>11 DEF Due
    <3>2. FriendOf[x.id] \in friends /\ x \in reader.first
      BY <3>1 DEF Due
    <3>3. x.id \in Activities
      BY <1>1, <3>2 DEF Readers, FeedEntries
    <3> QED
      BY <1>1, <1>2, <3>1, <3>2, <3>3 DEF DueAhead, RowsKnown
  <2>2. Accounted(x)
    BY <1>1, <2>1 DEF DueAhead
  <2>3. ASSUME reader.more, activity[x.id].at < reader.cursor, activity[x.id].stream = stream
        PROVE  Taken(x.id)'
    <3>1. activity[x.id] \in Existing /\ activity[x.id].id = x.id
      BY <1>1, <2>1, ExistingKnown
    <3>2. activity[x.id] \in base
      BY <1>5, <2>1, <2>3, <3>1
    <3>3. CASE activity[x.id] \in found
      BY <1>10, <1>18, <3>1, <3>3
    <3>4. CASE activity[x.id] \notin found
      BY <1>18, <1>20, <3>2, <3>4
    <3> QED
      BY <3>3, <3>4
  <2>4. Taken(x.id) => Taken(x.id)'
    BY <1>19
  <2> QED
    BY <1>2, <1>11, <1>12, <2>2, <2>3, <2>4 DEF Accounted
<1>22. DueAhead'
  BY <1>1, <1>2, <1>11, <1>21 DEF DueAhead
<1> QED
  BY <1>13, <1>14, <1>15, <1>16, <1>17, <1>22 DEF FeedInv, FeedType

\* Merge: what is cut off the page is not newer than its oldest row.
LEMMA PageMerged ==
  ASSUME FeedInv, Merge
  PROVE  FeedInv'
<1>1. /\ TimesTaken /\ ReaderType /\ RowsKnown /\ CursorParts /\ ReadOnce /\ DueAhead
      /\ reader \in Readers
  BY DEF FeedInv, FeedType, ReaderType
<1> DEFINE limit == reader.limit
           page == Newest(limit, reader.rows)
           more == Cardinality(reader.rows) > limit
           oldest == Min({x.at : x \in page})
           cursor == IF more THEN oldest ELSE reader.cursor
           cursors == IF more THEN reader.cursors \cup {oldest} ELSE reader.cursors
<1>2. /\ reader.step = 6 /\ reader.more
      /\ UNCHANGED moment /\ UNCHANGED friends /\ UNCHANGED activity /\ UNCHANGED writing
      /\ reader' = [reader EXCEPT !.step = 0, !.from = {}, !.rows = {}, !.more = more,
                      !.page = page, !.cursor = cursor, !.cursors = cursors]
  BY <1>1, StreamsRead DEF Merge, ReaderType, Readers
<1>3. /\ IsFiniteSet(reader.rows) /\ reader.rows \in SUBSET FeedEntries
      /\ Cardinality(reader.rows) \in Nat /\ limit \in Nat /\ 1 <= limit
      /\ reader.cursor \in Nat /\ reader.cursor <= Start /\ reader.cursors \in SUBSET Nat
  <2>1. IsFiniteSet(reader.rows) /\ limit \in 1 .. 100
    BY <1>1, <1>2 DEF ReaderType
  <2>2. reader.rows \in SUBSET FeedEntries /\ reader.cursor \in 0 .. Start /\ reader.cursors \in SUBSET Nat
    BY <1>1 DEF Readers
  <2>3. Start \in Nat
    BY FeedBoundsAssumption DEF Start
  <2>4. limit \in Nat /\ 1 <= limit /\ Cardinality(reader.rows) \in Nat
    <3>1. \A k \in 1 .. 100 : k \in Nat /\ 1 <= k
      OBVIOUS
    <3>2. Cardinality(reader.rows) \in Nat
      BY <2>1, FS_CardinalityType
    <3> QED
      BY <2>1, <3>1, <3>2
  <2>5. reader.cursor \in Nat /\ reader.cursor <= Start
    BY <2>2, <2>3
  <2> QED
    BY <2>1, <2>2, <2>4, <2>5
<1>4. reader.rows \in SUBSET FeedRows
  BY <1>1, <1>3, StreamsRead DEF RowsKnown, ReadSoFar, FeedRows
<1>5. page \in SUBSET reader.rows
  BY DEF Newest
<1>6. \A x \in reader.rows : x.at \in Nat /\ x.at < reader.cursor /\ x.id \in Activities
  BY <1>1, <1>3 DEF CursorParts, FeedEntries
<1> HIDE DEF page, limit
<1>7. ASSUME NEW x \in reader.rows, x \notin page
      PROVE  limit <= NewerThan(x, reader.rows) /\ more
  <2>1. NewerThan(x, reader.rows) \in Nat /\ NewerThan(x, reader.rows) < Cardinality(reader.rows)
    BY <1>3, <1>4, NewestOrdered, RankGrows
  <2>2. ~ (NewerThan(x, reader.rows) < limit)
    BY <1>7 DEF page, Newest, NewerThan
  <2> QED
    BY <1>3, <2>1, <2>2
<1>8. ASSUME more
      PROVE  /\ oldest \in Nat /\ oldest < reader.cursor
             /\ \A x \in page : oldest <= x.at
             /\ \E x \in page : oldest = x.at
  <2>1. page # {}
    <3>1. reader.rows # {}
      BY <1>3, <1>8, FS_EmptySet
    <3>2. ASSUME page = {}
          PROVE  FALSE
      <4>1. PICK x \in reader.rows : TRUE
        BY <3>1
      <4>2. x \notin Newest(limit, reader.rows)
        BY <3>2 DEF page
      <4>3. Cardinality(page) = limit
        BY <1>3, <1>4, <4>2, NewestTaken DEF page
      <4> QED
        BY <1>3, <3>2, <4>3, FS_EmptySet
    <3> QED
      BY <3>2
  <2> DEFINE moments == {x.at : x \in page}
  <2>2. moments \in SUBSET Nat /\ moments # {}
    BY <1>5, <1>6, <2>1
  <2>3. oldest = Min(moments)
    OBVIOUS
  <2>4. oldest \in moments /\ \A m \in moments : oldest <= m
    <3> HIDE DEF moments, oldest
    <3> QED
      BY <2>2, <2>3, MinOfNats
  <2> HIDE DEF oldest
  <2>5. PICK x \in page : oldest = x.at
    BY <2>4
  <2>6. \A y \in page : oldest <= y.at
    BY <2>4
  <2> QED
    BY <1>5, <1>6, <2>5, <2>6
<1>9. ASSUME more, NEW x \in FeedEntries, limit <= NewerThan(x, reader.rows)
      PROVE  x.at <= oldest
  <2>1. PICK y \in page : oldest = y.at
    BY <1>8, <1>9
  <2>2. y \in reader.rows /\ y.at \in Nat /\ x.at \in Nat
    BY <1>5, <1>6 DEF FeedEntries
  <2> SUFFICES ASSUME y.at < x.at
               PROVE  FALSE
    BY <2>1, <2>2
  <2> DEFINE overX == {z \in reader.rows : Before(z, x)}
             overY == {z \in reader.rows : Before(z, y)}
  <2>3. overX \in SUBSET overY
    <3>1. \A z \in reader.rows : Before(z, x) => z.at > x.at \/ z.at = x.at
      BY DEF Before
    <3>2. \A z \in reader.rows : z.at > y.at => Before(z, y)
      BY DEF Before
    <3> QED
      BY <1>6, <2>2, <3>1, <3>2
  <2>4. overY \in SUBSET reader.rows
    OBVIOUS
  <2>5. NewerThan(x, reader.rows) = Cardinality(overX)
    BY DEF NewerThan
  <2>6. NewerThan(y, reader.rows) = Cardinality(overY)
    BY DEF NewerThan
  <2> HIDE DEF overX, overY
  <2>7. IsFiniteSet(overY) /\ IsFiniteSet(overX) /\ Cardinality(overX) <= Cardinality(overY)
    BY <1>3, <2>3, <2>4, FS_Subset
  <2>8. Cardinality(overY) < limit
    BY <2>6 DEF page, Newest, NewerThan
  <2> QED
    BY <1>3, <1>9, <2>5, <2>7, <2>8, FS_CardinalityType
<1>10. ASSUME limit < Cardinality(reader.rows)
       PROVE  more
  BY <1>3, <1>10
<1> HIDE DEF more, oldest, cursor, cursors
<1>11. /\ page \in SUBSET FeedEntries /\ more \in BOOLEAN
       /\ cursor \in 0 .. Start /\ cursors \in SUBSET Nat
  <2>1. page \in SUBSET FeedEntries
    BY <1>3, <1>5
  <2>2. more \in BOOLEAN
    BY DEF more
  <2>3. Start \in Nat
    BY FeedBoundsAssumption DEF Start
  <2>4. cursor \in 0 .. Start
    BY <1>3, <1>8, <2>3 DEF cursor
  <2>5. cursors \in SUBSET Nat
    BY <1>3, <1>8 DEF cursors
  <2> QED
    BY <2>1, <2>2, <2>4, <2>5
<1>12. /\ reader'.step = 0 /\ reader'.from = {} /\ reader'.rows = {} /\ reader'.more = more
       /\ reader'.given = reader.given /\ reader'.page = page /\ reader'.limit = reader.limit
       /\ reader'.first = reader.first /\ reader'.cursor = cursor
       /\ reader'.cursors = cursors /\ reader'.changed = reader.changed
       /\ reader'.overtaken = reader.overtaken /\ reader'.between = reader.between
  BY <1>1, <1>2 DEF Readers
<1>13. /\ HandedOut' = HandedOut \cup page /\ reader.given \subseteq HandedOut
       /\ \A s : ~ ReadSoFar(s)'
       /\ \A i : CompletedBetween(i)' <=> CompletedBetween(i)
       /\ \A i : RestartedBetween(i)' <=> RestartedBetween(i)
  <2>1. reader.page = {}
    BY <1>1, <1>2 DEF ReaderType
  <2> QED
    BY <1>12, <2>1 DEF HandedOut, ReadSoFar, CompletedBetween, RestartedBetween
<1>14. TimesTaken'
  BY <1>1, <1>2 DEF TimesTaken
<1>15. more => cursor = oldest /\ cursor < reader.cursor /\ cursor \in Nat
  BY <1>8 DEF cursor
<1>16. ReaderType'
  <2>1. reader' \in Readers
    <3>1. 0 \in 0 .. 6
      OBVIOUS
    <3> QED
      BY <1>1, <1>2, <1>11, <3>1 DEF Readers
  <2>2. more => cursor # Start
    BY <1>3, <1>15, FeedBoundsAssumption DEF Start
  <2>3. reader'.limit \in 1 .. 100
    BY <1>1, <1>2, <1>12 DEF ReaderType
  <2> QED
    BY <1>12, <2>1, <2>2, <2>3, FS_EmptySet DEF ReaderType
<1>17. RowsKnown'
  BY <1>1, <1>2, <1>5, <1>12, <1>13 DEF RowsKnown
<1>18. \A y \in HandedOut : reader.cursor <= y.at /\ y.at \in Nat
  BY <1>1, <1>2 DEF CursorParts, HandedOut, Readers, FeedEntries
<1>19. CursorParts'
  <2>1. ASSUME NEW c \in cursors
        PROVE  cursor <= c
    <3>1. CASE c \in reader.cursors
      <4>1. reader.cursor <= c /\ c \in Nat
        BY <1>1, <1>3, <3>1 DEF CursorParts
      <4> QED
        BY <1>3, <1>15, <4>1 DEF cursor
    <3>2. CASE c \notin reader.cursors
      <4>1. more /\ c = oldest
        BY <2>1, <3>2 DEF cursors
      <4> QED
        BY <1>15, <4>1
    <3> QED
      BY <3>1, <3>2
  <2>2. ASSUME more, NEW y \in HandedOut \cup page
        PROVE  cursor <= y.at
    <3>1. cursor = oldest /\ oldest \in Nat /\ cursor < reader.cursor /\ \A x \in page : oldest <= x.at
      BY <1>8, <1>15, <2>2
    <3> QED
      BY <1>3, <1>18, <3>1
  <2>3. ASSUME NEW x \in page, NEW y \in reader.given, x.id = y.id
        PROVE  x.at < y.at /\ x.id \in reader.overtaken
    <3>1. x \in reader.rows /\ y \in HandedOut
      BY <1>5, <1>13
    <3>2. x.at < reader.cursor /\ x.at \in Nat /\ reader.cursor <= y.at /\ y.at \in Nat
      BY <1>6, <1>18, <3>1
    <3> QED
      BY <1>1, <1>3, <2>3, <3>1, <3>2 DEF CursorParts
  <2> QED
    BY <1>12, <1>13, <2>1, <2>2, <2>3 DEF CursorParts
<1>20. ReadOnce'
  BY <1>1, <1>5, <1>12, <1>13 DEF ReadOnce
<1>21. ASSUME NEW x \in Due'
       PROVE  Accounted(x)'
  <2>1. /\ x \in reader.first /\ x.id \in Activities /\ activity[x.id] \in FeedEntries
        /\ activity[x.id].stream # "deleted" /\ activity[x.id].at \in Nat
        /\ x.id \notin reader.changed => activity[x.id] = x
    <3>1. x \in reader.first /\ activity[x.id].stream # "deleted"
      BY <1>2, <1>12 DEF Due
    <3>2. x.id \in Activities
      BY <1>1, <3>1 DEF Readers, FeedEntries
    <3>3. activity[x.id] \in FeedEntries /\ (x.id \notin reader.changed => activity[x.id] = x)
      BY <1>1, <3>1 DEF RowsKnown
    <3> QED
      BY <3>1, <3>2, <3>3 DEF FeedEntries
  <2>2. Accounted(x)
    BY <1>1, <1>2, <1>12 DEF DueAhead, Due
  <2>3. ReadSoFar(activity[x.id].stream)
    <3>1. activity[x.id].stream \in {"completed", "started", "achievement"}
      BY <2>1 DEF FeedEntries
    <3>2. 1 < reader.step /\ 2 < reader.step /\ 3 < reader.step
      BY <1>2
    <3> QED
      BY <3>1, <3>2, StreamsRead DEF ReadSoFar
  <2>4. CASE \E y \in HandedOut : y.id = x.id
    BY <1>13, <2>4 DEF Accounted
  <2>5. CASE x.id \notin reader.changed /\ x.at \in reader.cursors
    <3>1. x.at \in cursors
      BY <2>5 DEF cursors
    <3> QED
      BY <1>12, <2>5, <3>1 DEF Accounted
  <2>6. CASE x.id \in reader.overtaken
    BY <1>12, <2>6 DEF Accounted
  <2>7. CASE x.id \in reader.changed /\ more
    <3>1. cursor \in Nat
      BY <1>15, <2>7
    <3>2. cursor <= activity[x.id].at \/ activity[x.id].at < cursor
      BY <2>1, <3>1
    <3> QED
      BY <1>2, <1>12, <1>13, <2>7, <3>2 DEF Accounted
  <2>8. CASE x.id \in reader.changed /\ ~ more /\ reader.cursor <= activity[x.id].at
    <3>1. cursor = reader.cursor
      BY <2>8 DEF cursor
    <3> QED
      BY <1>2, <1>12, <2>8, <3>1 DEF Accounted
  <2>9. CASE ~ more /\ CompletedBetween(x.id)
    BY <1>12, <1>13, <2>9 DEF Accounted
  <2>10. ASSUME Taken(x.id), x.id \notin reader.changed \/ ~ more
         PROVE  Accounted(x)'
    <3>1. NewerThan(activity[x.id], reader.rows) \in Nat
          /\ NewerThan(activity[x.id], reader.rows) <= Cardinality(reader.rows)
      BY <1>3, NewerCounted
    <3>2. \/ \E y \in page : y.id = x.id
          \/ x.id \notin reader.changed /\ more /\ limit <= NewerThan(activity[x.id], reader.rows)
      <4>1. CASE \E y \in reader.rows : y.id = x.id
        <5>1. PICK y \in reader.rows : y.id = x.id
          BY <4>1
        <5>2. CASE y \notin page
          <6>1. more /\ limit <= NewerThan(y, reader.rows)
            BY <1>7, <5>2
          <6>2. x.id \notin reader.changed
            BY <2>10, <6>1
          <6>3. activity[y.id] = y
            BY <1>1, <5>1, <6>2 DEF RowsKnown
          <6>4. activity[x.id] = y
            BY <5>1, <6>3
          <6> QED
            BY <6>1, <6>2, <6>4
        <5> QED
          BY <5>1, <5>2
      <4>2. CASE limit < NewerThan(activity[x.id], reader.rows)
        <5>1. limit < Cardinality(reader.rows) /\ limit <= NewerThan(activity[x.id], reader.rows)
          BY <1>3, <3>1, <4>2
        <5>2. more
          BY <1>10, <5>1
        <5> QED
          BY <2>10, <5>1, <5>2
      <4>3. CASE x.id \in reader.changed /\ limit < Cardinality(reader.rows)
        BY <1>10, <2>10, <4>3
      <4> QED
        BY <2>10, <4>1, <4>2, <4>3 DEF Taken, limit
    <3>3. CASE \E y \in page : y.id = x.id
      BY <1>13, <3>3 DEF Accounted
    <3>4. CASE x.id \notin reader.changed /\ more /\ limit <= NewerThan(activity[x.id], reader.rows)
      <4>1. activity[x.id].at <= oldest /\ activity[x.id] = x
        BY <1>9, <2>1, <3>4
      <4>2. oldest \in Nat /\ cursor = oldest /\ oldest \in cursors
        BY <1>8, <3>4 DEF cursor, cursors
      <4>3. x.at \in cursors \/ activity[x.id].at < cursor
        BY <2>1, <4>1, <4>2
      <4> QED
        BY <1>2, <1>12, <1>13, <3>4, <4>3 DEF Accounted
    <3> QED
      BY <3>2, <3>3, <3>4
  <2>11. CASE CompletedBetween(x.id)
    <3>1. x.id \in reader.changed
      BY <1>1, <2>1, <2>11 DEF RowsKnown, CompletedBetween
    <3> QED
      BY <2>7, <2>9, <2>11, <3>1
  <2> QED
    <3>1. Taken(x.id) => Accounted(x)'
      BY <2>7, <2>10
    <3>2. x.id \in reader.changed /\ reader.cursor <= activity[x.id].at => Accounted(x)'
      BY <2>7, <2>8
    <3> QED
      BY <2>2, <2>3, <2>4, <2>5, <2>6, <2>11, <3>1, <3>2 DEF Accounted
<1>22. DueAhead'
  BY <1>12, <1>21 DEF DueAhead
<1> QED
  BY <1>14, <1>16, <1>17, <1>19, <1>20, <1>22 DEF FeedInv, FeedType

\* The steps of the feed keep its invariant.
LEMMA FeedGoesOn ==
  FeedInv /\ [FeedNext]_feedVars => FeedInv'
<1> SUFFICES ASSUME FeedInv, [FeedNext]_feedVars
             PROVE  FeedInv'
  OBVIOUS
<1>1. TimesTaken
  BY DEF FeedInv, FeedType
<1>2. CASE UNCHANGED feedVars
  <2>1. TimesTaken'
    BY <1>1, <1>2 DEF TimesTaken, feedVars
  <2> QED
    BY <1>2, <2>1, FeedRests DEF feedVars
<1>3. CASE FeedNext
  <2>1. ~ Finished
    BY <1>3 DEF FeedNext
  <2>2. ASSUME NEW w \in Writers,
               \/ StartQuestRow(w) \/ BeginCompletion(w) \/ CheckStarted(w)
               \/ FindLocked(w) \/ StampUnlock(w) \/ Abandon(w) \/ CommitWrite(w)
        PROVE  FeedInv'
    BY <2>1, <2>2, FriendsGoOn
  <2>3. CASE DeleteRow
    BY <2>1, <2>3, RowDeleted
  <2>4. CASE Unfriend
    <3>1. TimesTaken' /\ UNCHANGED activity /\ UNCHANGED reader /\ friends' \subseteq friends
      BY <1>1, <2>4 DEF Unfriend, TimesTaken
    <3> QED
      BY <3>1, FeedRests
  <2>5. CASE FeedTick
    <3>1. /\ UNCHANGED friends /\ UNCHANGED activity /\ UNCHANGED writing /\ UNCHANGED reader
          /\ moment < LastMoment /\ moment' = moment + 1 /\ moment \in Nat /\ LastMoment \in Nat
      BY <1>1, <2>5, FeedBoundsAssumption DEF FeedTick, TimesTaken
    <3>2. moment' \in Nat /\ moment' <= LastMoment /\ \A n \in Nat : n <= moment => n <= moment'
      BY <3>1
    <3>3. \A w \in Writers : writing[w] \in Writes => writing[w].at \in Nat
      BY DEF Writes
    <3>4. \A i \in Activities : activity[i] \in FeedEntries => activity[i].at \in Nat
      BY DEF FeedEntries
    <3>5. TimesTaken'
      BY <1>1, <3>1, <3>2, <3>3, <3>4 DEF TimesTaken
    <3> QED
      BY <3>1, <3>5, FeedRests
  <2>6. CASE ReadFriends
    BY <2>6, FriendsRead
  <2>7. CASE ReadStream
    BY <2>7, StreamRead
  <2>8. CASE Merge
    BY <2>8, PageMerged
  <2> QED
    BY <1>3, <2>2, <2>3, <2>4, <2>5, <2>6, <2>7, <2>8 DEF FeedNext
<1> QED
  BY <1>2, <1>3

\* Paging by the cursor loses nothing that is due but what is named, and doubles nothing
\* but what was overtaken or restarted.
LEMMA FeedFollows ==
  FeedInv => FeedPaging
<1> SUFFICES ASSUME FeedInv
             PROVE  FeedPaging
  OBVIOUS
<1>1. CursorParts /\ ReadOnce /\ DueAhead
  BY DEF FeedInv
<1>2. ASSUME Finished, NEW x \in Due
      PROVE  \/ \E y \in HandedOut : y.id = x.id
             \/ x.id \notin reader.changed /\ x.at \in reader.cursors
             \/ x.id \in reader.changed /\ activity[x.id].at >= reader.cursor
             \/ CompletedBetween(x.id) \/ x.id \in reader.overtaken
  <2>1. Accounted(x) /\ ~ reader.more
    BY <1>1, <1>2 DEF DueAhead, Finished
  <2>2. reader.cursor <= activity[x.id].at <=> activity[x.id].at >= reader.cursor
    OBVIOUS
  <2> QED
    BY <2>1, <2>2 DEF Accounted
<1> QED
  BY <1>1, <1>2 DEF CursorParts, ReadOnce, FeedPaging

-----------------------------------------------------------------------------
(* The leaderboard.                                                        *)

Ranking(S) == {pair \in S \X S : Ahead(pair[1], pair[2])}

LookupSteps == {"idle", "top", "mine", "answered"}

Entries == [rank : Nat, user : Players, xp : Nat]

LeaderboardType ==
  /\ day \in Nat
  /\ active \in SUBSET Players
  /\ xp \in [Players -> Nat]
  /\ DOMAIN done = Players /\ \A u \in Players : IsFiniteSet(done[u])
  /\ lookup.step \in LookupSteps
  /\ lookup.step # "idle" =>
       /\ DOMAIN lookup = {"step", "scope", "period", "viewer", "asked", "since", "entries",
                           "mine", "changed"}
       /\ lookup = [f \in DOMAIN lookup |-> lookup[f]]
       /\ lookup.viewer \in Players /\ lookup.asked \in Nat

Listed == {e \in {Row(u, Ranked(lookup.scope)) : u \in Ranked(lookup.scope)} : e.rank <= TopLimit}

\* The entries have the first ranks; until something changes they are the ranking as it is.
EntriesRanked ==
  lookup.step \in {"mine", "answered"} =>
    /\ {e.rank : e \in lookup.entries} = 1 .. Cardinality(lookup.entries)
    /\ Cardinality({e.user : e \in lookup.entries}) = Cardinality(lookup.entries)
    /\ (lookup.step = "mine" /\ ~ lookup.changed) =>
         /\ lookup.entries = Listed
         /\ \A e \in lookup.entries : e.user # lookup.viewer
    /\ (lookup.step = "answered" /\ lookup.mine \notin lookup.entries \cup {NoEntry}) =>
         lookup.changed \/ (lookup.mine.rank > TopLimit /\ Cardinality(lookup.entries) = TopLimit)

AskedSince ==
  (lookup.step # "idle" /\ lookup.period = "WEEK") => lookup.since = Monday(lookup.asked)

LeaderboardInv == LeaderboardType /\ EntriesRanked /\ AskedSince

\* The Monday of a day is the first day of its week.
LEMMA MondayStartsWeek ==
  ASSUME NEW c \in Nat, NEW d \in Nat, d <= c
  PROVE  (d >= Monday(c)) <=> SameWeek(d, c)
BY DEF Monday, WeekDay, SameWeek

\* ORDER BY xp DESC, level DESC, createdAt ASC leaves no two users in one place.
LEMMA RankingStrict ==
  ASSUME LeaderboardType, NEW S \in SUBSET Players
  PROVE  IsFiniteSet(S) /\ StrictOrder(Ranking(S), S)
         /\ \A u \in S : Score(u) \in Nat /\ Rank(Ranking(S), S, u) = Cardinality({p \in S : Ahead(p, u)})
<1>1. IsFiniteSet(S)
  BY LeaderboardAssumption, FS_Subset
<1>2. ASSUME NEW u \in Players
      PROVE  Score(u) \in Nat /\ LevelFromXp(xp[u]) \in Nat /\ u \in Nat
  <2>1. xp[u] \in Nat /\ u \in Nat /\ IsFiniteSet(done[u])
    BY LeaderboardAssumption DEF LeaderboardType
  <2>2. LevelFromXp(xp[u]) \in Nat
    BY <2>1, LevelType
  <2> DEFINE scored == {c \in done[u] : c[1] >= lookup.since}
  <2>3. Cardinality(scored) \in Nat
    <3>1. scored \in SUBSET done[u]
      OBVIOUS
    <3> HIDE DEF scored
    <3> QED
      BY <2>1, <3>1, FS_Subset, FS_CardinalityType
  <2>4. Score(u) = IF lookup.period = "ALL_TIME" THEN xp[u] ELSE Cardinality(scored) * QUEST_XP
    BY DEF Score
  <2> HIDE DEF scored
  <2>5. Cardinality(scored) * QUEST_XP \in Nat
    BY <2>3, LeaderboardAssumption
  <2> QED
    BY <2>1, <2>2, <2>4, <2>5
<1>3. \A u \in S : Score(u) \in Nat /\ LevelFromXp(xp[u]) \in Nat /\ u \in Nat
  BY <1>2
<1> DEFINE level(u) == LevelFromXp(xp[u])
<1>4. \A p, q : Ahead(p, q) <=>
        \/ Score(p) > Score(q)
        \/ Score(p) = Score(q) /\ level(p) > level(q)
        \/ Score(p) = Score(q) /\ level(p) = level(q) /\ p < q
  BY DEF Ahead
<1>5. \A u \in S : Score(u) \in Nat /\ level(u) \in Nat /\ u \in Nat
  BY <1>3
<1> HIDE DEF level
<1>6. \A x \in S : ~ Ahead(x, x)
  BY <1>4, <1>5
<1>7. \A x, y, z \in S : Ahead(x, y) /\ Ahead(y, z) => Ahead(x, z)
  BY <1>4, <1>5
<1>8. \A x, y \in S : x # y => Ahead(x, y) \/ Ahead(y, x)
  BY <1>4, <1>5
<1>9. \A x, y \in S : <<x, y>> \in Ranking(S) <=> Ahead(x, y)
  BY DEF Ranking
<1>10. StrictOrder(Ranking(S), S)
  BY <1>6, <1>7, <1>8, <1>9 DEF StrictOrder
<1>11. ASSUME NEW u \in S
       PROVE  Rank(Ranking(S), S, u) = Cardinality({p \in S : Ahead(p, u)})
  <2>1. {y \in S : <<y, u>> \in Ranking(S)} = {p \in S : Ahead(p, u)}
    BY <1>9
  <2> QED
    BY <2>1 DEF Rank
<1> QED
  BY <1>1, <1>3, <1>10, <1>11

\* The top of a ranking has the first ranks, one each, up to the limit or the last user.
LEMMA TopRanked ==
  ASSUME LeaderboardType, NEW S \in SUBSET Players, NEW top,
         top = {e \in {Row(u, S) : u \in S} : e.rank <= TopLimit}
  PROVE  /\ {e.rank : e \in top} = 1 .. Cardinality(top)
         /\ Cardinality({e.user : e \in top}) = Cardinality(top)
         /\ \A u \in S : Row(u, S) \notin top =>
              Row(u, S).rank > TopLimit /\ Cardinality(top) = TopLimit
<1> DEFINE rank(u) == Rank(Ranking(S), S, u)
           n == Cardinality(S)
           b == IF n < TopLimit THEN n ELSE TopLimit
           slice == {u \in S : 0 <= rank(u) /\ rank(u) < b}
<1>1. IsFiniteSet(S) /\ StrictOrder(Ranking(S), S) /\ n \in Nat
  BY RankingStrict, FS_CardinalityType
<1>2. TopLimit \in Nat
  BY LeaderboardAssumption
<1>3. b \in Nat /\ b <= n /\ 0 <= b /\ b <= TopLimit /\ (TopLimit <= n => b = TopLimit)
  BY <1>1, <1>2
<1>4. IsFiniteSet(slice) /\ Cardinality(slice) = b /\ {rank(u) : u \in slice} = 0 .. b - 1
  <2> HIDE DEF b, n
  <2>1. b - 0 = b
    BY <1>3
  <2> QED
    BY <1>1, <1>3, <2>1, RankSlice DEF n
<1>5. \A u \in S : /\ rank(u) \in Nat /\ rank(u) < n
                   /\ Row(u, S).rank = 1 + rank(u) /\ Row(u, S).user = u
  BY <1>1, RankGrows, RankingStrict DEF Row
<1>6. \A u \in S : Row(u, S).rank <= TopLimit <=> rank(u) < b
  <2> HIDE DEF rank, n
  <2> QED
    BY <1>1, <1>2, <1>5
<1>7. top = {Row(u, S) : u \in slice}
  <2> HIDE DEF rank, b, n
  <2>1. \A u \in S : u \in slice <=> rank(u) < b
    BY <1>3, <1>5
  <2> HIDE DEF slice
  <2>2. slice \in SUBSET S
    BY DEF slice
  <2> QED
    BY <1>6, <2>1, <2>2
<1>8. \A u \in slice : u \in S
  OBVIOUS
<1> HIDE DEF rank, b, n, slice
<1>9. {e.user : e \in top} = slice
  BY <1>5, <1>7, <1>8
<1>10. Cardinality(top) = b
  <2> DEFINE f == [u \in slice |-> Row(u, S)]
  <2>1. f \in Bijection(slice, top)
    BY <1>5, <1>7, <1>8 DEF Bijection, Injection, Surjection, IsInjective
  <2> HIDE DEF f
  <2>2. ExistsBijection(slice, top)
    BY <2>1 DEF ExistsBijection
  <2> QED
    BY <1>4, <2>2, FS_Bijection
<1>11. {e.rank : e \in top} = 1 .. b
  <2>1. \A u \in slice : rank(u) \in 0 .. b - 1
    BY <1>4
  <2>2. \A i \in 0 .. b - 1 : \E u \in slice : rank(u) = i
    BY <1>4
  <2>3. \A e \in top : e.rank \in 1 .. b
    <3> SUFFICES ASSUME NEW u \in slice
                 PROVE  Row(u, S).rank \in 1 .. b
      BY <1>7
    <3> QED
      BY <1>3, <1>5, <1>8, <2>1
  <2>4. ASSUME NEW i \in 1 .. b
        PROVE  \E e \in top : e.rank = i
    <3>1. i - 1 \in 0 .. b - 1
      BY <1>3
    <3>2. PICK u \in slice : rank(u) = i - 1
      BY <2>2, <3>1
    <3>3. Row(u, S).rank = i
      BY <1>5, <1>8, <3>2
    <3> QED
      BY <1>7, <3>3
  <2> QED
    BY <2>3, <2>4
<1>12. ASSUME NEW u \in S, Row(u, S) \notin top
       PROVE  Row(u, S).rank > TopLimit /\ b = TopLimit
  <2>1. ~ (rank(u) < b)
    BY <1>3, <1>5, <1>7, <1>12 DEF slice
  <2>2. TopLimit <= n
    BY <1>1, <1>2, <1>5, <2>1 DEF b
  <2> QED
    BY <1>1, <1>2, <1>3, <1>5, <2>1, <2>2
<1> QED
  BY <1>4, <1>9, <1>10, <1>11, <1>12

\* A query that has read nothing agrees with itself.
LEMMA LeaderboardStarts ==
  LeaderboardInit => LeaderboardInv
<1> SUFFICES ASSUME LeaderboardInit
             PROVE  LeaderboardInv
  OBVIOUS
<1>1. LeaderboardType
  BY LeaderboardAssumption, FS_EmptySet
     DEF LeaderboardInit, LeaderboardType, NewLookup, LookupSteps, Days
<1> QED
  BY <1>1 DEF LeaderboardInit, LeaderboardInv, EntriesRanked, AskedSince, NewLookup

\* What goes on meanwhile is noticed, and leaves what the query has read.
LEMMA LeaderboardChanges ==
  ASSUME LeaderboardInv, LeaderboardType', lookup' = [lookup EXCEPT !.changed = TRUE]
  PROVE  LeaderboardInv'
<1>1. CASE lookup.step = "idle"
  <2>1. lookup'.step = "idle"
    BY <1>1
  <2> QED
    BY <2>1 DEF LeaderboardInv, EntriesRanked, AskedSince
<1>2. CASE lookup.step # "idle"
  <2>1. /\ lookup'.step = lookup.step /\ lookup'.entries = lookup.entries
        /\ lookup'.mine = lookup.mine /\ lookup'.changed = TRUE
        /\ lookup'.period = lookup.period /\ lookup'.since = lookup.since
        /\ lookup'.asked = lookup.asked
    BY <1>2 DEF LeaderboardInv, LeaderboardType
  <2>2. EntriesRanked'
    BY <2>1 DEF LeaderboardInv, EntriesRanked
  <2>3. AskedSince'
    BY <2>1 DEF LeaderboardInv, AskedSince, Monday, WeekDay
  <2> QED
    BY <2>2, <2>3 DEF LeaderboardInv
<1> QED
  BY <1>1, <1>2

\* One more completion is still finitely many.
LEMMA CompletionsFinite ==
  ASSUME LeaderboardType, NEW u \in Players, NEW c
  PROVE  IsFiniteSet(done[u] \cup {c})
<1>1. IsFiniteSet(done[u])
  BY DEF LeaderboardType
<1> QED
  BY <1>1, FS_AddElement

\* The type of the query goes with a step that flags the change.
LEMMA LookupChanges ==
  ASSUME LeaderboardType, lookup' = [lookup EXCEPT !.changed = TRUE]
  PROVE  /\ lookup'.step \in LookupSteps
         /\ lookup'.step # "idle" =>
              /\ DOMAIN lookup' = {"step", "scope", "period", "viewer", "asked", "since",
                                   "entries", "mine", "changed"}
              /\ lookup' = [f \in DOMAIN lookup' |-> lookup'[f]]
              /\ lookup'.viewer \in Players /\ lookup'.asked \in Nat
<1>1. CASE lookup.step = "idle"
  BY <1>1 DEF LeaderboardType
<1>2. CASE lookup.step # "idle"
  BY <1>2 DEF LeaderboardType
<1> QED
  BY <1>1, <1>2

\* ReadTop: what the statement lists are the first ranks.
LEMMA RankingRead ==
  ASSUME LeaderboardInv, ReadTop
  PROVE  LeaderboardInv'
<1>1. lookup.step = "top" /\ LeaderboardType
  BY DEF ReadTop, LeaderboardInv
<1> DEFINE own == {e \in Listed : e.user = lookup.viewer}
<1>2. /\ lookup' = [lookup EXCEPT !.entries = Listed, !.changed = FALSE,
                      !.step = IF own = {} THEN "mine" ELSE "answered",
                      !.mine = IF own = {} THEN NoEntry ELSE CHOOSE e \in own : TRUE]
      /\ UNCHANGED <<day, active, xp, done>>
  BY DEF ReadTop, Listed
<1> HIDE DEF own
<1>3. /\ lookup'.entries = Listed /\ lookup'.changed = FALSE
      /\ lookup'.step = IF own = {} THEN "mine" ELSE "answered"
      /\ lookup'.mine = IF own = {} THEN NoEntry ELSE CHOOSE e \in own : TRUE
      /\ lookup'.scope = lookup.scope /\ lookup'.period = lookup.period
      /\ lookup'.viewer = lookup.viewer /\ lookup'.asked = lookup.asked
      /\ lookup'.since = lookup.since /\ DOMAIN lookup' = DOMAIN lookup
      /\ lookup' = [f \in DOMAIN lookup' |-> lookup'[f]]
  BY <1>1, <1>2 DEF LeaderboardType
<1>4. UNCHANGED <<day, active, xp, done>>
  BY <1>2
<1>5. LeaderboardType'
  BY <1>1, <1>3, <1>4 DEF LeaderboardType, LookupSteps, Days
<1>6. \A u : Score(u)' = Score(u)
  BY <1>3, <1>4 DEF Score
<1>7. \A p, q : Ahead(p, q)' <=> Ahead(p, q)
  BY <1>4, <1>6 DEF Ahead
<1>8. Listed' = Listed
  <2>1. Ranked(lookup.scope)' = Ranked(lookup.scope)
    BY <1>3, <1>4 DEF Ranked
  <2> QED
    BY <1>6, <1>7, <2>1 DEF Listed, Row
<1>9. /\ {e.rank : e \in Listed} = 1 .. Cardinality(Listed)
      /\ Cardinality({e.user : e \in Listed}) = Cardinality(Listed)
  <2>1. Ranked(lookup.scope) \in SUBSET Players
    BY <1>1 DEF LeaderboardType, Ranked
  <2> QED
    BY <1>1, <2>1, TopRanked DEF Listed
<1>10. EntriesRanked'
  <2>1. CASE own = {}
    BY <1>3, <1>8, <1>9, <2>1 DEF EntriesRanked, own
  <2>2. CASE own # {}
    <3>1. lookup'.mine \in Listed
      BY <1>3, <2>2 DEF own
    <3> QED
      BY <1>3, <1>9, <2>2, <3>1 DEF EntriesRanked
  <2> QED
    BY <2>1, <2>2
<1>11. AskedSince'
  BY <1>1, <1>3 DEF AskedSince, LeaderboardInv, Monday, WeekDay
<1> QED
  BY <1>5, <1>10, <1>11 DEF LeaderboardInv

\* ReadMine: a viewer who was not among the entries comes after the last of them.
LEMMA MineRead ==
  ASSUME LeaderboardInv, ReadMine
  PROVE  LeaderboardInv'
<1> DEFINE users == Ranked(lookup.scope)
<1>1. /\ lookup.step = "mine" /\ LeaderboardType
      /\ lookup' = [lookup EXCEPT !.step = "answered",
           !.mine = IF lookup.viewer \in users THEN Row(lookup.viewer, users) ELSE NoEntry]
      /\ UNCHANGED <<day, active, xp, done>>
  BY DEF ReadMine, LeaderboardInv, RankedForViewer
<1> HIDE DEF users
<1>2. /\ lookup'.step = "answered" /\ lookup'.entries = lookup.entries
      /\ lookup'.mine = IF lookup.viewer \in users THEN Row(lookup.viewer, users) ELSE NoEntry
      /\ lookup'.changed = lookup.changed
      /\ lookup'.scope = lookup.scope /\ lookup'.period = lookup.period
      /\ lookup'.viewer = lookup.viewer /\ lookup'.asked = lookup.asked
      /\ lookup'.since = lookup.since /\ DOMAIN lookup' = DOMAIN lookup
      /\ lookup' = [f \in DOMAIN lookup' |-> lookup'[f]]
  BY <1>1 DEF LeaderboardType
<1>3. UNCHANGED <<day, active, xp, done>>
  BY <1>1
<1>4. LeaderboardType'
  BY <1>1, <1>2, <1>3 DEF LeaderboardType, LookupSteps, Days
<1>5. ASSUME lookup'.mine \notin lookup.entries \cup {NoEntry}, ~ lookup.changed
      PROVE  lookup'.mine.rank > TopLimit /\ Cardinality(lookup.entries) = TopLimit
  <2>1. lookup.viewer \in users /\ lookup'.mine = Row(lookup.viewer, users)
    BY <1>2, <1>5
  <2>2. lookup.entries = {e \in {Row(u, users) : u \in users} : e.rank <= TopLimit}
    BY <1>1, <1>5 DEF LeaderboardInv, EntriesRanked, Listed, users
  <2>3. users \in SUBSET Players
    BY <1>1 DEF users, Ranked, LeaderboardType
  <2>4. Row(lookup.viewer, users) \notin lookup.entries
    BY <1>5, <2>1
  <2> QED
    BY <1>1, <2>1, <2>2, <2>3, <2>4, TopRanked
<1>6. EntriesRanked'
  BY <1>1, <1>2, <1>5 DEF LeaderboardInv, EntriesRanked
<1>7. AskedSince'
  BY <1>1, <1>2 DEF AskedSince, LeaderboardInv, Monday, WeekDay
<1> QED
  BY <1>4, <1>6, <1>7 DEF LeaderboardInv

\* A step that leaves the query alone, and the tables too but for the day, changes nothing.
LEMMA ScoresRest ==
  ASSUME UNCHANGED <<active, xp, done, lookup>>
  PROVE  (EntriesRanked <=> EntriesRanked') /\ (AskedSince <=> AskedSince')
<1>1. UNCHANGED active /\ UNCHANGED xp /\ UNCHANGED done /\ UNCHANGED lookup
  OBVIOUS
<1>2. \A u : Score(u)' = Score(u)
  BY <1>1 DEF Score
<1>3. \A p, q : Ahead(p, q)' <=> Ahead(p, q)
  BY <1>1, <1>2 DEF Ahead
<1>4. Listed' = Listed
  BY <1>1, <1>2, <1>3 DEF Listed, Row, Ranked
<1> QED
  BY <1>1, <1>4 DEF EntriesRanked, AskedSince, Monday, WeekDay

\* The steps of the leaderboard keep its invariant.
LEMMA LeaderboardGoesOn ==
  LeaderboardInv /\ [LeaderboardNext]_leaderboardVars => LeaderboardInv'
<1> SUFFICES ASSUME LeaderboardInv, [LeaderboardNext]_leaderboardVars
             PROVE  LeaderboardInv'
  OBVIOUS
<1>0. LeaderboardType
  BY DEF LeaderboardInv
<1>1. CASE FinishQuest
  <2>0. PICK u \in Players : \E c :
          /\ xp' = [xp EXCEPT ![u] = @ + QUEST_XP]
          /\ done' = [done EXCEPT ![u] = done[u] \cup {c}]
          /\ lookup' = [lookup EXCEPT !.changed = TRUE]
          /\ UNCHANGED <<day, active>>
    BY <1>1 DEF FinishQuest, Changing
  <2>1. PICK c :
          /\ xp' = [xp EXCEPT ![u] = @ + QUEST_XP]
          /\ done' = [done EXCEPT ![u] = done[u] \cup {c}]
          /\ lookup' = [lookup EXCEPT !.changed = TRUE]
          /\ UNCHANGED <<day, active>>
    BY <2>0
  <2>2. IsFiniteSet(done[u] \cup {c})
    BY <1>0, CompletionsFinite
  <2>3. DOMAIN done' = Players /\ \A v \in Players : IsFiniteSet(done'[v])
    BY <1>0, <2>1, <2>2 DEF LeaderboardType
  <2>4. xp' \in [Players -> Nat]
    BY <1>0, <2>1, LeaderboardAssumption DEF LeaderboardType
  <2>5. UNCHANGED <<day, active>>
    BY <2>1
  <2>6. lookup' = [lookup EXCEPT !.changed = TRUE]
    BY <2>1
  <2>7. LeaderboardType'
    BY <1>0, <2>3, <2>4, <2>5, <2>6, LookupChanges DEF LeaderboardType, Days
  <2> QED
    BY <2>6, <2>7, LeaderboardChanges
<1>2. CASE GrantBonus
  <2>1. PICK u \in Players :
          /\ xp' = [xp EXCEPT ![u] = @ + QUEST_XP]
          /\ lookup' = [lookup EXCEPT !.changed = TRUE]
          /\ UNCHANGED <<day, active, done>>
    BY <1>2 DEF GrantBonus, Changing
  <2>4. xp' \in [Players -> Nat]
    BY <1>0, <2>1, LeaderboardAssumption DEF LeaderboardType
  <2>5. UNCHANGED <<day, active, done>>
    BY <2>1
  <2>6. lookup' = [lookup EXCEPT !.changed = TRUE]
    BY <2>1
  <2>7. LeaderboardType'
    BY <1>0, <2>4, <2>5, <2>6, LookupChanges DEF LeaderboardType, Days
  <2> QED
    BY <2>6, <2>7, LeaderboardChanges
<1>3. CASE Suspend
  <2>1. active' \in SUBSET Players /\ UNCHANGED <<day, xp, done>>
    BY <1>0, <1>3 DEF Suspend, LeaderboardType
  <2>2. lookup' = [lookup EXCEPT !.changed = TRUE]
    BY <1>3 DEF Suspend, Changing
  <2>3. LeaderboardType'
    BY <1>0, <2>1, <2>2, LookupChanges DEF LeaderboardType, Days
  <2> QED
    BY <2>2, <2>3, LeaderboardChanges
<1>4. CASE LeaderboardTick
  <2>1. UNCHANGED <<active, xp, done, lookup>> /\ day < LastDay /\ day' = day + 1
    BY <1>4 DEF LeaderboardTick
  <2>2. LeaderboardType'
    BY <1>0, <2>1, LeaderboardAssumption DEF LeaderboardType, Days
  <2> QED
    BY <2>1, <2>2, ScoresRest DEF LeaderboardInv
<1>5. CASE ReceiveLookup
  <2>1. PICK scope \in Scopes, period \in Periods, viewer \in Players :
       lookup' = [step |-> "top", scope |-> scope, period |-> period, viewer |-> viewer,
                  asked |-> day, since |-> PeriodStart(period, day),
                  entries |-> {}, mine |-> NoEntry, changed |-> FALSE]
    BY <1>5 DEF ReceiveLookup
  <2>2. UNCHANGED <<day, active, xp, done>>
    BY <1>5 DEF ReceiveLookup
  <2>3. LeaderboardType'
    BY <1>0, <2>1, <2>2 DEF LeaderboardType, LookupSteps, Days
  <2>4. PeriodStart("WEEK", day) = Monday(day)
    BY DEF PeriodStart
  <2>5. AskedSince'
    BY <2>1, <2>4 DEF AskedSince, Monday, WeekDay
  <2>6. EntriesRanked'
    BY <2>1 DEF EntriesRanked
  <2> QED
    BY <2>3, <2>5, <2>6 DEF LeaderboardInv
<1>6. CASE ReadTop
  BY <1>6, RankingRead
<1>7. CASE ReadMine
  BY <1>7, MineRead
<1>8. CASE UNCHANGED leaderboardVars
  <2>1. UNCHANGED <<active, xp, done, lookup>> /\ UNCHANGED day
    BY <1>8 DEF leaderboardVars
  <2>2. LeaderboardType'
    BY <1>0, <2>1 DEF LeaderboardType, Days
  <2> QED
    BY <2>1, <2>2, ScoresRest DEF LeaderboardInv
<1> QED
  BY <1>1, <1>2, <1>3, <1>4, <1>5, <1>6, <1>7, <1>8 DEF LeaderboardNext

\* The entries and the viewer's own rank make one ranking of the period.
LEMMA LeaderboardFollows ==
  LeaderboardInv => LeaderboardAgrees
<1> SUFFICES ASSUME LeaderboardInv, lookup.step \in {"mine", "answered"}
             PROVE  LeaderboardAgrees
  BY DEF LeaderboardAgrees
<1>1. ASSUME lookup.period = "WEEK", NEW d \in Days, d <= lookup.asked
      PROVE  (d >= lookup.since) <=> SameWeek(d, lookup.asked)
  <2>1. lookup.since = Monday(lookup.asked) /\ lookup.asked \in Nat /\ d \in Nat
    BY <1>1, LeaderboardAssumption DEF LeaderboardInv, AskedSince, LeaderboardType, Days
  <2> QED
    BY <1>1, <2>1, MondayStartsWeek
<1> QED
  BY <1>1 DEF LeaderboardInv, EntriesRanked, LeaderboardAgrees

-----------------------------------------------------------------------------
(* The metrics of the business portal.                                     *)

WindowNames == {"current", "previous"}

Reports ==
  [step: {"reading", "answered", "ranked"}, now: Nat, period: {"MONTH", "DAYS"},
   there: SUBSET (CompletionRows \X Nat),
   window: [WindowNames -> [start: Int, endExclusive: Int]],
   read: [WindowNames -> SUBSET (CompletionRows \X Nat)],
   left: SUBSET WindowNames,
   top: SUBSET [quest: Nat, completions: SUBSET (CompletionRows \X Nat)]]

WindowStart(period, now) == IF period = "MONTH" THEN MonthBegin ELSE now - PeriodLength

\* A completion that was taken back does not come back with its old time: what is
\* stamped after the owner asked carries a later one.
TakenBack(x) ==
  (x[2] < report.now /\ completedAt[x[1]] # x[2]) =>
    /\ completedAt[x[1]] = None \/ completedAt[x[1]] >= report.now
    /\ stamped[x[1]] = None \/ stamped[x[1]] >= report.now

\* A window that has been read holds what it should of what was there.
WindowRead(name) ==
  /\ \A x \in report.read[name] : Within(x[2], report.window[name])
  /\ name \notin report.left =>
       \A x \in report.there :
         (completedAt[x[1]] = x[2] /\ Within(x[2], report.window[name])) => x \in report.read[name]

TopRead(e) ==
  /\ \A x \in report.read["current"] :
       (QuestOf[x[1]] = e.quest /\ completedAt[x[1]] = x[2]
          /\ x[2] >= WindowStart(report.period, time)) => x \in e.completions
  /\ \A x \in e.completions \cap report.there :
       x[2] < report.now => x \in report.read["current"]

PortalType ==
  /\ time \in Nat
  /\ completedAt \in [CompletionRows -> Nat \cup {None}]
  /\ stamped \in [CompletionRows -> Nat \cup {None}]
  /\ report = [step |-> "idle"] \/ report \in Reports

ReportInv ==
  /\ FirstReport <= report.now /\ report.now <= time
  /\ report.window = CurrentAndPreviousWindow(report.period, report.now)
  /\ \A x \in report.there \cup report.read["current"] \cup report.read["previous"] : TakenBack(x)
  /\ \A name \in WindowNames : WindowRead(name)
  /\ report.step # "reading" => report.left = {}
  /\ report.step # "ranked" => report.top = {}
  /\ \A e \in report.top : TopRead(e)

PortalInv ==
  /\ PortalType
  /\ \A c \in CompletionRows : stamped[c] # None => completedAt[c] = None
  /\ report.step # "idle" => ReportInv

\* The windows of a period: the current one ends now, the one before it where that begins.
LEMMA WindowShape ==
  ASSUME NEW period \in {"MONTH", "DAYS"}, NEW now \in Nat, FirstReport <= now
  PROVE  /\ WindowStart(period, now) \in Int /\ WindowStart(period, now) <= now
         /\ CurrentAndPreviousWindow(period, now).current
              = [start |-> WindowStart(period, now), endExclusive |-> now]
         /\ CurrentAndPreviousWindow(period, now).previous
              = [start        |-> WindowStart(period, now) - (now - WindowStart(period, now)),
                 endExclusive |-> WindowStart(period, now)]
         /\ CurrentAndPreviousWindow(period, now)
              \in [WindowNames -> [start: Int, endExclusive: Int]]
<1> DEFINE start == WindowStart(period, now)
<1>1. start \in Int /\ start <= now
  BY PortalAssumption DEF WindowStart
<1>2. Max({0, now - start}) = now - start
  <2> DEFINE m == now - start
  <2>1. m \in Int /\ m >= 0
    BY <1>1
  <2> HIDE DEF m
  <2>2. \A x \in {0, m} : (\A y \in {0, m} : x >= y) => x = m
    BY <2>1
  <2>3. m \in {0, m} /\ \A y \in {0, m} : m >= y
    BY <2>1
  <2>4. Max({0, m}) = m
    BY <2>2, <2>3 DEF Max
  <2> QED
    BY <2>4 DEF m
<1>3. CurrentAndPreviousWindow(period, now)
        = [current  |-> [start |-> start, endExclusive |-> now],
           previous |-> [start |-> start - (now - start), endExclusive |-> start]]
  BY <1>2, Zenon DEF CurrentAndPreviousWindow, WindowStart
<1> HIDE DEF start
<1>4. CurrentAndPreviousWindow(period, now) \in [WindowNames -> [start: Int, endExclusive: Int]]
  BY <1>1, <1>3 DEF WindowNames
<1> QED
  BY <1>1, <1>3, <1>4 DEF start

\* A portal that has been asked for nothing tells nothing.
LEMMA PortalStarts ==
  PortalInit => PortalInv
BY PortalAssumption DEF PortalInit, PortalInv, PortalType, None

\* What a report holds of the reports' types.
LEMMA ReportType ==
  ASSUME PortalType, report.step # "idle"
  PROVE  /\ report \in Reports
         /\ report.read["current"] \subseteq CompletionRows \X Nat
         /\ report.read["previous"] \subseteq CompletionRows \X Nat
         /\ report.there \subseteq CompletionRows \X Nat
BY DEF PortalType, Reports, WindowNames

\* Later, a window begins no earlier.
LEMMA WindowMoves ==
  ASSUME NEW period, NEW now \in Nat, NEW later \in Nat, now <= later
  PROVE  /\ WindowStart(period, now) \in Int /\ WindowStart(period, later) \in Int
         /\ WindowStart(period, now) <= WindowStart(period, later)
<1>1. MonthBegin \in Int /\ PeriodLength \in Int
  BY PortalAssumption
<1> QED
  BY <1>1 DEF WindowStart

\* The windows of a report, of one length, and that what is within is before now.
LEMMA WindowsOfReport ==
  ASSUME PortalType, report.step # "idle", ReportInv
  PROVE  LET start == WindowStart(report.period, report.now)
         IN  /\ start \in Int /\ start <= report.now /\ report.now \in Nat
             /\ report.window["current"].start = start
             /\ report.window["current"].endExclusive = report.now
             /\ report.window["previous"].start = start - (report.now - start)
             /\ report.window["previous"].endExclusive = start
             /\ \A name \in WindowNames, at \in Nat :
                  Within(at, report.window[name]) => at < report.now
<1> DEFINE start == WindowStart(report.period, report.now)
<1>1. report.period \in {"MONTH", "DAYS"} /\ report.now \in Nat /\ FirstReport <= report.now
  BY ReportType DEF Reports, ReportInv
<1>2. report.window = CurrentAndPreviousWindow(report.period, report.now)
  BY DEF ReportInv
<1>3. /\ start \in Int /\ start <= report.now
      /\ report.window["current"] = [start |-> start, endExclusive |-> report.now]
      /\ report.window["previous"]
           = [start |-> start - (report.now - start), endExclusive |-> start]
  BY <1>1, <1>2, WindowShape
<1> HIDE DEF start
<1>4. /\ report.window["current"].start = start
      /\ report.window["current"].endExclusive = report.now
      /\ report.window["previous"].start = start - (report.now - start)
      /\ report.window["previous"].endExclusive = start
  BY <1>3
<1>5. \A name \in WindowNames, at \in Nat :
        Within(at, report.window[name]) => at < report.now
  BY <1>1, <1>3, <1>4 DEF Within, WindowNames
<1> QED
  BY <1>1, <1>3, <1>4, <1>5 DEF start

\* While the report rests, so does what it has read; only the completions and the clock
\* may have moved, and none of them to an earlier time.
LEMMA ReportKept ==
  ASSUME PortalInv, UNCHANGED report, PortalType', time <= time', report.step # "idle",
         \A c \in CompletionRows :
           /\ completedAt'[c] \in {completedAt[c], None, stamped[c]}
           /\ stamped'[c] \in {stamped[c], None, time}
  PROVE  ReportInv'
<1> USE DEF PortalInv
<1>1. ReportInv
  OBVIOUS
<1>2. report \in Reports /\ time \in Nat /\ time' \in Nat
  BY DEF PortalType
<1>3. report.now \in Nat /\ report.now <= time /\ FirstReport <= report.now
  BY <1>1, <1>2 DEF ReportInv, Reports
<1>4. ASSUME NEW x \in CompletionRows \X Nat, TakenBack(x)
      PROVE  TakenBack(x)'
  <2> DEFINE c == x[1]
  <2>1. c \in CompletionRows /\ x[2] \in Nat
    OBVIOUS
  <2>2. /\ completedAt[c] \in Nat \cup {None} /\ stamped[c] \in Nat \cup {None}
        /\ stamped[c] # None => completedAt[c] = None
    BY <2>1 DEF PortalType
  <2>3. /\ completedAt'[c] \in {completedAt[c], None, stamped[c]}
        /\ stamped'[c] \in {stamped[c], None, time}
    BY <2>1
  <2>4. x[2] < report.now =>
          (completedAt[c] # x[2] =>
            /\ completedAt[c] = None \/ completedAt[c] >= report.now
            /\ stamped[c] = None \/ stamped[c] >= report.now)
    BY <1>4 DEF TakenBack
  <2> QED
    BY <1>2, <1>3, <2>1, <2>2, <2>3, <2>4 DEF TakenBack, None
<1>5. ASSUME NEW x \in CompletionRows \X Nat, TakenBack(x), x[2] < report.now,
             completedAt'[x[1]] = x[2]
      PROVE  completedAt[x[1]] = x[2]
  <2>1. x[1] \in CompletionRows /\ x[2] \in Nat
    OBVIOUS
  <2> QED
    BY <1>3, <1>5, <2>1 DEF TakenBack, None, PortalType
<1>6. \A x \in report.there \cup report.read["current"] \cup report.read["previous"] :
        TakenBack(x)'
  BY <1>1, <1>4, ReportType DEF ReportInv
<1>7. ASSUME NEW name \in WindowNames
      PROVE  WindowRead(name)'
  <2>1. WindowRead(name)
    BY <1>1 DEF ReportInv
  <2>2. ASSUME NEW x \in report.there, Within(x[2], report.window[name])
        PROVE  x[2] < report.now
    <3>1. x \in CompletionRows \X Nat /\ x[2] \in Nat
      BY ReportType
    <3> QED
      BY <1>1, <2>2, <3>1, WindowsOfReport
  <2>3. ASSUME NEW x \in report.there, name \notin report.left, completedAt'[x[1]] = x[2],
               Within(x[2], report.window[name])
        PROVE  x \in report.read[name]
    <3>1. TakenBack(x) /\ x \in CompletionRows \X Nat
      BY <1>1, ReportType DEF ReportInv
    <3>2. completedAt[x[1]] = x[2]
      BY <1>5, <2>2, <2>3, <3>1
    <3> QED
      BY <2>1, <2>3, <3>2 DEF WindowRead
  <2> QED
    BY <2>1, <2>3 DEF WindowRead, Within
<1>8. ASSUME NEW e \in report.top
      PROVE  TopRead(e)'
  <2>1. TopRead(e)
    BY <1>1 DEF ReportInv
  <2>2. ASSUME NEW x \in report.read["current"], QuestOf[x[1]] = e.quest,
               completedAt'[x[1]] = x[2], x[2] >= WindowStart(report.period, time')
        PROVE  x \in e.completions
    <3>1. TakenBack(x) /\ x \in CompletionRows \X Nat /\ x[2] \in Nat
      BY <1>1, ReportType DEF ReportInv
    <3>2. x[2] < report.now
      <4>1. WindowRead("current")
        BY <1>1 DEF ReportInv, WindowNames
      <4> QED
        BY <1>1, <3>1, <4>1, WindowsOfReport DEF WindowRead, WindowNames
    <3>3. completedAt[x[1]] = x[2]
      BY <1>5, <2>2, <3>1, <3>2
    <3>4. WindowStart(report.period, time) <= WindowStart(report.period, time')
          /\ WindowStart(report.period, time) \in Int /\ WindowStart(report.period, time') \in Int
      BY <1>2, WindowMoves
    <3> QED
      BY <2>1, <2>2, <3>1, <3>3, <3>4 DEF TopRead
  <2> QED
    BY <2>1, <2>2 DEF TopRead
<1>9. report.now <= time'
  BY <1>2, <1>3 DEF PortalType
<1>10. /\ report.window = CurrentAndPreviousWindow(report.period, report.now)
       /\ report.step # "reading" => report.left = {}
       /\ report.step # "ranked" => report.top = {}
  BY <1>1 DEF ReportInv
<1> QED
  BY <1>3, <1>6, <1>7, <1>8, <1>9, <1>10 DEF ReportInv

\* Completions that begin, commit and are deleted, and the clock, keep PortalInv.
LEMMA PortalPlayed ==
  ASSUME PortalInv, Stamp \/ CommitCompletion \/ DeleteCompletion \/ PortalTick
  PROVE  PortalInv'
<1> USE DEF PortalInv
<1>1. /\ UNCHANGED report /\ time <= time' /\ time' \in Nat
      /\ completedAt' \in [CompletionRows -> Nat \cup {None}]
      /\ stamped' \in [CompletionRows -> Nat \cup {None}]
      /\ \A c \in CompletionRows :
           /\ completedAt'[c] \in {completedAt[c], None, stamped[c]}
           /\ stamped'[c] \in {stamped[c], None, time}
           /\ stamped'[c] # None => completedAt'[c] = None
  <2> USE DEF PortalType
  <2>1. CASE Stamp
    BY <2>1 DEF Stamp
  <2>2. CASE CommitCompletion
    BY <2>2 DEF CommitCompletion
  <2>3. CASE DeleteCompletion
    BY <2>3 DEF DeleteCompletion
  <2>4. CASE PortalTick
    BY <2>4 DEF PortalTick
  <2> QED
    BY <2>1, <2>2, <2>3, <2>4
<1>2. PortalType'
  BY <1>1 DEF PortalType
<1>3. report'.step # "idle" => ReportInv'
  BY <1>1, <1>2, ReportKept
<1> QED
  BY <1>1, <1>2, <1>3

\* getMetrics takes its two windows from the clock, and has counted neither.
LEMMA PortalReceives ==
  ASSUME PortalInv, ReceiveReport
  PROVE  PortalInv'
<1> USE DEF PortalInv
<1>1. PICK period \in {"MONTH", "DAYS"} :
        report' = [step |-> "reading", now |-> time,
                   period |-> period, there |-> {<<c, completedAt[c]>> : c \in Completed},
                   window |-> CurrentAndPreviousWindow(period, time),
                   read |-> [current |-> {}, previous |-> {}],
                   left |-> {"current", "previous"}, top |-> {}]
  BY DEF ReceiveReport
<1>2. /\ time \in Nat /\ FirstReport <= time /\ report.step = "idle"
      /\ UNCHANGED <<time, completedAt, stamped>>
  BY DEF ReceiveReport, PortalType
<1> DEFINE there == {<<c, completedAt[c]>> : c \in Completed}
<1>3. there \in SUBSET (CompletionRows \X Nat)
  BY DEF PortalType, Completed
<1>4. \A x \in there : completedAt[x[1]] = x[2]
  OBVIOUS
<1> HIDE DEF there
<1>5. CurrentAndPreviousWindow(period, time) \in [WindowNames -> [start: Int, endExclusive: Int]]
  BY <1>2, WindowShape
<1>6. [current |-> {}, previous |-> {}] \in [WindowNames -> SUBSET (CompletionRows \X Nat)]
  BY DEF WindowNames
<1>7. /\ report'.step = "reading" /\ report'.now = time /\ report'.period = period
      /\ report'.there = there /\ report'.window = CurrentAndPreviousWindow(period, time)
      /\ report'.read["current"] = {} /\ report'.read["previous"] = {}
      /\ report'.left = WindowNames /\ report'.top = {}
  BY <1>1 DEF there, WindowNames
<1>8. report' \in Reports
  BY <1>1, <1>2, <1>3, <1>5, <1>6 DEF Reports, there, WindowNames
<1>9. PortalType'
  BY <1>2, <1>8 DEF PortalType
<1>10. \A x \in report'.there \cup report'.read["current"] \cup report'.read["previous"] :
         TakenBack(x)'
  BY <1>2, <1>4, <1>7 DEF TakenBack
<1>11. \A name \in WindowNames : WindowRead(name)'
  BY <1>7 DEF WindowRead, WindowNames
<1>12. ReportInv'
  BY <1>2, <1>7, <1>10, <1>11 DEF ReportInv
<1> QED
  BY <1>2, <1>9, <1>12

\* Each count is of one window, at a moment of its own.
LEMMA PortalCounts ==
  ASSUME PortalInv, CountQuestCompletions
  PROVE  PortalInv'
<1> USE DEF PortalInv
<1>1. PICK name \in WindowNames :
        /\ report.step = "reading" /\ name \in report.left
        /\ report' = [report EXCEPT !.left = @ \ {name},
             !.read = [@ EXCEPT ![name] = CompletedIn(report.window[name])]]
        /\ UNCHANGED <<time, completedAt, stamped>>
  BY DEF CountQuestCompletions, WindowNames
<1>2. /\ report \in Reports /\ ReportInv /\ report.step = "reading" /\ name \in report.left
      /\ UNCHANGED <<time, completedAt, stamped>>
  BY <1>1 DEF PortalType
<1> DEFINE counted == CompletedIn(report.window[name])
           read    == [report.read EXCEPT ![name] = counted]
<1>3. counted \in SUBSET (CompletionRows \X Nat)
  BY DEF CompletedIn, Completed, PortalType
<1>4. \A x \in counted : completedAt[x[1]] = x[2] /\ Within(x[2], report.window[name])
  BY DEF CompletedIn
<1>5. \A x \in CompletionRows \X Nat :
        (completedAt[x[1]] = x[2] /\ Within(x[2], report.window[name])) => x \in counted
  <2> SUFFICES ASSUME NEW c \in CompletionRows, NEW t \in Nat, completedAt[c] = t,
                      Within(t, report.window[name])
               PROVE  <<c, t>> \in counted
    OBVIOUS
  <2>1. c \in Completed
    BY DEF Completed, None
  <2> QED
    BY <2>1 DEF CompletedIn
<1>6. report' = [report EXCEPT !.left = @ \ {name}, !.read = read]
  BY <1>1, Zenon DEF counted, read
<1> HIDE DEF counted
<1>7. read \in [WindowNames -> SUBSET (CompletionRows \X Nat)]
      /\ \A n \in WindowNames : read[n] = IF n = name THEN counted ELSE report.read[n]
  BY <1>2, <1>3 DEF Reports
<1> HIDE DEF read
<1>8. /\ report' \in Reports
      /\ report'.read = read /\ report'.left = report.left \ {name}
      /\ report'.step = "reading" /\ report'.now = report.now /\ report'.period = report.period
      /\ report'.there = report.there /\ report'.window = report.window
      /\ report'.top = report.top
  BY <1>2, <1>6, <1>7 DEF Reports
<1>9. PortalType'
  BY <1>2, <1>8 DEF PortalType
<1>10. \A x \in report'.there \cup report'.read["current"] \cup report'.read["previous"] :
         TakenBack(x)'
  <2>1. \A x \in report.there \cup report.read["current"] \cup report.read["previous"] :
          TakenBack(x)
    BY <1>2 DEF ReportInv
  <2> QED
    BY <1>2, <1>4, <1>7, <1>8, <2>1 DEF TakenBack, WindowNames
<1>11. ASSUME NEW n \in WindowNames
       PROVE  WindowRead(n)'
  <2>1. WindowRead(n)
    BY <1>2 DEF ReportInv
  <2>2. CASE n = name
    BY <1>2, <1>4, <1>5, <1>7, <1>8, <2>2, ReportType DEF WindowRead, Within
  <2>3. CASE n # name
    BY <1>2, <1>7, <1>8, <2>1, <2>3 DEF WindowRead, Within
  <2> QED
    BY <2>2, <2>3
<1>12. report.top = {}
  BY <1>2 DEF ReportInv
<1>13. ReportInv'
  BY <1>2, <1>8, <1>10, <1>11, <1>12 DEF ReportInv
<1> QED
  BY <1>2, <1>9, <1>13

\* The answer puts the two counts together as they are.
LEMMA PortalAnswers ==
  ASSUME PortalInv, Answer
  PROVE  PortalInv'
<1> USE DEF PortalInv
<1>1. /\ report \in Reports /\ ReportInv /\ report.step = "reading" /\ report.left = {}
      /\ report' = [report EXCEPT !.step = "answered"]
      /\ UNCHANGED <<time, completedAt, stamped>>
  BY DEF Answer, PortalType
<1>2. /\ report' \in Reports /\ report'.step = "answered"
      /\ report'.read = report.read /\ report'.left = report.left /\ report'.top = report.top
      /\ report'.now = report.now /\ report'.period = report.period
      /\ report'.there = report.there /\ report'.window = report.window
  BY <1>1 DEF Reports
<1>3. PortalType'
  BY <1>1, <1>2 DEF PortalType
<1>4. ReportInv'
  BY <1>1, <1>2 DEF ReportInv, TakenBack, WindowRead, Within, TopRead
<1> QED
  BY <1>1, <1>3, <1>4

\* listTopQuests reads the current window again, at its own moment.
LEMMA PortalRanks ==
  ASSUME PortalInv, ListTopQuests
  PROVE  PortalInv'
<1> USE DEF PortalInv
<1> DEFINE window    == CurrentAndPreviousWindow(report.period, time).current
           ofQuest(q) == {x \in CompletedIn(window) : QuestOf[x[1]] = q}
           entries   == {[quest |-> q, completions |-> ofQuest(q)] :
                           q \in {QuestOf[c] : c \in CompletionRows}}
           top       == {e \in entries :
                           Cardinality({d \in entries : TopFirst(d, e)}) < TopQuestLimit}
<1>1. /\ report \in Reports /\ ReportInv /\ report.step = "answered"
      /\ UNCHANGED <<time, completedAt, stamped>>
  BY DEF ListTopQuests, PortalType
<1>2. report' = [report EXCEPT !.step = "ranked", !.top = top]
  BY DEF ListTopQuests
<1>3. \A e \in top : \E q \in Nat : e = [quest |-> q, completions |-> ofQuest(q)]
  BY PortalAssumption
<1>4. CompletedIn(window) \in SUBSET (CompletionRows \X Nat)
  BY DEF CompletedIn, Completed, PortalType
<1>5. \A x \in CompletedIn(window) : completedAt[x[1]] = x[2] /\ Within(x[2], window)
  BY DEF CompletedIn
<1>6. \A x \in CompletionRows \X Nat :
        (completedAt[x[1]] = x[2] /\ Within(x[2], window)) => x \in CompletedIn(window)
  <2> SUFFICES ASSUME NEW c \in CompletionRows, NEW t \in Nat, completedAt[c] = t,
                      Within(t, window)
               PROVE  <<c, t>> \in CompletedIn(window)
    OBVIOUS
  <2>1. c \in Completed
    BY DEF Completed, None
  <2> QED
    BY <2>1 DEF CompletedIn
<1>7. top \in SUBSET [quest: Nat, completions: SUBSET (CompletionRows \X Nat)]
  <2>1. \A q : ofQuest(q) \in SUBSET (CompletionRows \X Nat)
    BY <1>4
  <2> HIDE DEF ofQuest, top
  <2> QED
    BY <1>3, <2>1
<1>8. /\ report.now \in Nat /\ time \in Nat /\ FirstReport <= report.now /\ report.now <= time
      /\ report.period \in {"MONTH", "DAYS"}
  BY <1>1 DEF ReportInv, Reports, PortalType
<1>9. window = [start |-> WindowStart(report.period, time), endExclusive |-> time]
  <2>1. FirstReport \in Int
    BY PortalAssumption
  <2>2. FirstReport <= time
    BY <1>8, <2>1
  <2> QED
    BY <1>8, <2>2, WindowShape
<1> HIDE DEF top, window
<1>10. /\ report' \in Reports /\ report'.step = "ranked"
       /\ report'.read = report.read /\ report'.left = report.left /\ report'.top = top
       /\ report'.now = report.now /\ report'.period = report.period
       /\ report'.there = report.there /\ report'.window = report.window
  BY <1>1, <1>2, <1>7 DEF Reports
<1>11. PortalType'
  BY <1>1, <1>10 DEF PortalType
<1>12. /\ \A x \in report.there \cup report.read["current"] \cup report.read["previous"] :
            TakenBack(x)'
       /\ \A name \in WindowNames : WindowRead(name)'
  BY <1>1, <1>10 DEF ReportInv, TakenBack, WindowRead, Within
<1>13. ASSUME NEW e \in top
       PROVE  TopRead(e)'
  <2>1. PICK q \in Nat : e = [quest |-> q, completions |-> ofQuest(q)]
    BY <1>3
  <2>2. e.quest = q /\ e.completions = ofQuest(q)
    BY <2>1
  <2>3. /\ WindowStart(report.period, report.now) <= WindowStart(report.period, time)
        /\ WindowStart(report.period, report.now) \in Int
        /\ WindowStart(report.period, time) \in Int
    BY <1>8, WindowMoves
  <2>4. ASSUME NEW x \in report.read["current"], QuestOf[x[1]] = q, completedAt[x[1]] = x[2],
               x[2] >= WindowStart(report.period, time)
        PROVE  x \in ofQuest(q)
    <3>1. x \in CompletionRows \X Nat /\ x[2] \in Nat
      BY <1>1, ReportType
    <3>2. Within(x[2], report.window["current"])
      BY <1>1 DEF ReportInv, WindowRead, WindowNames
    <3>3. x[2] < report.now
      BY <1>1, <3>1, <3>2, WindowsOfReport DEF WindowNames
    <3>4. Within(x[2], window)
      BY <1>8, <1>9, <2>3, <2>4, <3>1, <3>3 DEF Within
    <3> QED
      BY <1>6, <2>4, <3>1, <3>4
  <2>5. ASSUME NEW x \in ofQuest(q), x \in report.there, x[2] < report.now
        PROVE  x \in report.read["current"]
    <3>1. x \in CompletionRows \X Nat /\ x[2] \in Nat /\ completedAt[x[1]] = x[2]
          /\ Within(x[2], window)
      BY <1>4, <1>5
    <3>2. /\ report.window["current"].start = WindowStart(report.period, report.now)
          /\ report.window["current"].endExclusive = report.now
      BY <1>1, WindowsOfReport
    <3>3. Within(x[2], report.window["current"])
      BY <1>8, <1>9, <2>3, <2>5, <3>1, <3>2 DEF Within
    <3>4. WindowRead("current") /\ "current" \notin report.left
      BY <1>1 DEF ReportInv, WindowNames
    <3> QED
      BY <2>5, <3>1, <3>3, <3>4 DEF WindowRead
  <2> HIDE DEF ofQuest
  <2> QED
    BY <1>1, <1>10, <2>2, <2>4, <2>5 DEF TopRead
<1>14. ReportInv'
  BY <1>1, <1>8, <1>10, <1>12, <1>13 DEF ReportInv
<1> QED
  BY <1>1, <1>11, <1>14

\* The steps of the portal keep PortalInv.
LEMMA PortalGoesOn ==
  PortalInv /\ [PortalNext]_portalVars => PortalInv'
<1> SUFFICES ASSUME PortalInv, [PortalNext]_portalVars
             PROVE  PortalInv'
  OBVIOUS
<1>1. CASE UNCHANGED portalVars
  BY <1>1 DEF portalVars, PortalInv, PortalType, ReportInv, TakenBack, WindowRead, TopRead, Within
<1> QED
  BY <1>1, PortalPlayed, PortalReceives, PortalCounts, PortalAnswers, PortalRanks DEF PortalNext

\* Every window having been read, the metrics are those of the moment they were asked for.
LEMMA PortalFollows ==
  PortalInv => PortalAsOfNow
<1> SUFFICES ASSUME PortalInv, report.step \in {"answered", "ranked"}
             PROVE  PortalAsOfNow
  BY DEF PortalAsOfNow
<1> DEFINE current  == report.window.current
           previous == report.window.previous
           counted  == report.read.current \cup report.read.previous
           moved    == CurrentAndPreviousWindow(report.period, time).current.start
           start    == WindowStart(report.period, report.now)
<1>1. PortalType /\ ReportInv /\ report.step # "idle" /\ report \in Reports
  BY DEF PortalInv, PortalType
<1>2. /\ start \in Int /\ start <= report.now /\ report.now \in Nat
      /\ current.start = start /\ current.endExclusive = report.now
      /\ previous.start = start - (report.now - start) /\ previous.endExclusive = start
  BY <1>1, WindowsOfReport
<1>3. WindowRead("current") /\ WindowRead("previous") /\ report.left = {}
  BY <1>1 DEF ReportInv, WindowNames
<1>4. /\ report.there \subseteq CompletionRows \X Nat
      /\ report.read.current \subseteq CompletionRows \X Nat
      /\ report.read.previous \subseteq CompletionRows \X Nat
  BY <1>1, ReportType
<1>5. moved = WindowStart(report.period, time)
  <2>1. time \in Nat /\ FirstReport <= time /\ report.period \in {"MONTH", "DAYS"}
    <3>1. FirstReport \in Int
      BY PortalAssumption
    <3> QED
      BY <1>1, <1>2, <3>1 DEF PortalType, ReportInv, Reports
  <2>2. CurrentAndPreviousWindow(report.period, time).current
          = [start |-> WindowStart(report.period, time), endExclusive |-> time]
    BY <2>1, WindowShape
  <2> QED
    BY <2>2
<1> HIDE DEF start, moved
<1>6. \A x \in report.there :
        (completedAt[x[1]] = x[2] /\ x[2] < report.now /\ previous.start <= x[2]) =>
          x \in (IF x[2] >= current.start THEN report.read.current ELSE report.read.previous)
  <2> SUFFICES ASSUME NEW x \in report.there, completedAt[x[1]] = x[2], x[2] < report.now,
                      previous.start <= x[2]
               PROVE  x \in (IF x[2] >= current.start THEN report.read.current
                             ELSE report.read.previous)
    OBVIOUS
  <2>1. x[2] \in Nat
    BY <1>4
  <2>2. CASE x[2] >= current.start
    <3>1. Within(x[2], report.window["current"])
      BY <1>2, <2>1, <2>2 DEF Within
    <3> QED
      BY <1>3, <2>2, <3>1 DEF WindowRead
  <2>3. CASE ~ (x[2] >= current.start)
    <3>1. Within(x[2], report.window["previous"])
      BY <1>2, <2>1, <2>3 DEF Within
    <3> QED
      BY <1>3, <2>3, <3>1 DEF WindowRead
  <2> QED
    BY <2>2, <2>3
<1>7. \A x \in report.read.current : x[2] \in Nat /\ start <= x[2] /\ x[2] < report.now
  BY <1>2, <1>3, <1>4 DEF WindowRead, Within
<1>8. \A x \in report.read.previous : x[2] \in Nat /\ x[2] < start
  BY <1>2, <1>3, <1>4 DEF WindowRead, Within
<1>9. (\A x \in counted : x[2] < report.now) /\ report.read.current \cap report.read.previous = {}
  BY <1>2, <1>7, <1>8
<1>10. current.start = previous.endExclusive
       /\ current.endExclusive - current.start = previous.endExclusive - previous.start
  BY <1>2
<1>11. \A e \in report.top :
         /\ \A x \in report.read.current :
              (QuestOf[x[1]] = e.quest /\ completedAt[x[1]] = x[2] /\ x[2] >= moved) =>
                x \in e.completions
         /\ \A x \in e.completions \cap report.there :
              x[2] < report.now => x \in report.read.current
  BY <1>1, <1>5 DEF ReportInv, TopRead
<1> QED
  BY <1>6, <1>9, <1>10, <1>11 DEF PortalAsOfNow, moved

-----------------------------------------------------------------------------
(* The listings.                                                           *)

OrderOfRows(tie) == {pair \in rows \X rows : Precedes(pair[1], pair[2], tie)}

\* The places the client has been to, and the rows it has.
Reached == Skip(client.page, client.limit) + (IF client.step = "count" THEN client.limit ELSE 0)

Received == Seen \cup client.items

PagesBegun == client.page # 1 \/ client.step = "count"

Clients ==
  [step : {"ask", "count", "end"}, page : Nat \ {0}, limit : Nat, items : SUBSET Ids,
   first : SUBSET Ids, held : Seq(SUBSET Ids), came : BOOLEAN, left : BOOLEAN,
   rose : SUBSET Ids, sank : SUBSET Ids, split : SUBSET Ids]

ListingType ==
  /\ listing \in ByTime \cup UserSorts
  /\ rows \in SUBSET Ids
  /\ value \in [Ids -> 1 .. MaxValue]
  /\ changes \in Nat
  /\ client \in Clients
  /\ client.step # "count" => client.items = {}
  /\ client.page = 1 + Len(client.held)
  /\ PagesBegun => client.limit # 0

\* What was there from the start is received or still ahead in any order, if nothing left
\* or sank.
StillAhead ==
  (~ client.left /\ client.sank = {}) =>
    /\ client.first \subseteq rows
    /\ \A i \in client.first \ (client.rose \cup client.split) :
         i \in Received \/ \A tie \in TieBreaks : Reached <= Place(i, tie)

\* What is received stays behind in any order, if nothing came or rose.
LeftBehind ==
  (~ client.came /\ client.rose = {}) =>
    /\ \A m, n \in DOMAIN client.held :
         m # n => client.held[m] \cap client.held[n] \subseteq client.sank \cup client.split
    /\ client.items \cap Seen \subseteq client.sank \cup client.split
    /\ \A i \in (Received \cap rows) \ (client.sank \cup client.split) :
         \A tie \in TieBreaks : Place(i, tie) < Reached

\* At rest the client has full pages, the one it reads included if there are rows enough.
PagesFull ==
  (~ client.came /\ ~ client.left /\ client.rose = {} /\ client.sank = {}) =>
    /\ \A n \in DOMAIN client.held : Cardinality(client.held[n]) = client.limit
    /\ (client.step = "count" /\ Reached <= Cardinality(rows)) =>
         Cardinality(client.items) = client.limit

GoesThrough == client.step # "end" /\ PagesBegun

ListingInv ==
  /\ ListingType /\ PagesComplete
  /\ GoesThrough => StillAhead /\ LeftBehind /\ PagesFull

\* Any rows can be counted.
LEMMA SomeRows ==
  ASSUME NEW S \in SUBSET Ids, NEW T \in SUBSET S
  PROVE  IsFiniteSet(T) /\ Cardinality(T) \in Nat
<1>1. IsFiniteSet(Ids)
  BY ListingAssumption, FS_Interval DEF Ids
<1>2. T \in SUBSET Ids
  OBVIOUS
<1> QED
  BY <1>1, <1>2, FS_Subset, FS_CardinalityType

\* Each way to break ties puts the rows one after the other.
LEMMA RowsOrdered ==
  ASSUME ListingType, NEW tie \in TieBreaks
  PROVE  /\ IsFiniteSet(rows) /\ Cardinality(rows) \in Nat
         /\ StrictOrder(OrderOfRows(tie), rows)
         /\ \A i \in rows : Rank(OrderOfRows(tie), rows, i) = Place(i, tie)
         /\ \A i : Place(i, tie) \in Nat
<1>1. IsFiniteSet(rows) /\ Cardinality(rows) \in Nat
  BY SomeRows DEF ListingType
<1>2. \A i \in rows : value[i] \in Int /\ tie[i] \in Int
  <2>1. \A i \in rows : value[i] \in 1 .. MaxValue /\ i \in Ids
    BY DEF ListingType
  <2>2. \A i \in Ids : tie[i] \in Int
    BY ListingAssumption DEF TieBreaks, ById, AnyOrder, Ids
  <2>3. MaxValue \in Int
    BY ListingAssumption
  <2> QED
    BY <2>1, <2>2, <2>3
<1>3. \A i, j \in rows : tie[i] = tie[j] => i = j
  BY DEF TieBreaks, ById, AnyOrder, IsInjective, ListingType
<1>4. StrictOrder(OrderOfRows(tie), rows)
  BY <1>2, <1>3 DEF StrictOrder, OrderOfRows, Precedes, Sooner
<1>5. ASSUME NEW i \in rows
      PROVE  Rank(OrderOfRows(tie), rows, i) = Place(i, tie)
  <2>1. {y \in rows : <<y, i>> \in OrderOfRows(tie)} = {j \in rows : Precedes(j, i, tie)}
    BY DEF OrderOfRows
  <2> QED
    BY <2>1 DEF Rank, Place
<1>6. ASSUME NEW i
      PROVE  Place(i, tie) \in Nat
  BY SomeRows DEF Place, ListingType
<1> QED
  BY <1>1, <1>4, <1>5, <1>6

\* A page that is appended is received.
LEMMA SeenGrows ==
  ASSUME ListingType, client'.held = Append(client.held, client.items)
  PROVE  Seen' = Seen \cup client.items
<1>1. client.held \in Seq(SUBSET Ids) /\ client.items \in SUBSET Ids
  BY DEF ListingType, Clients
<1>2. Range(client'.held) = Range(client.held) \cup {client.items}
  <2>1. /\ DOMAIN client'.held = 1 .. Len(client.held) + 1
        /\ DOMAIN client.held = 1 .. Len(client.held)
        /\ \A n \in 1 .. Len(client.held) : client'.held[n] = client.held[n]
        /\ client'.held[Len(client.held) + 1] = client.items
        /\ Len(client.held) \in Nat
    BY <1>1
  <2> QED
    BY <2>1 DEF Range
<1> QED
  BY <1>2 DEF Seen

\* A client that has asked for no page misses none of the rows.
LEMMA ListingStarts ==
  ListingInit => ListingInv
<1> SUFFICES ASSUME ListingInit
             PROVE  ListingInv
  OBVIOUS
<1>1. ListingType
  BY ListingAssumption DEF ListingInit, ListingType, Clients, PagesBegun
<1> QED
  BY <1>1 DEF ListingInit, ListingInv, PagesComplete, GoesThrough, PagesBegun

-----------------------------------------------------------------------------
(* The rows change.                                                        *)

\* What came before a row and still does puts it no further forward.
LEMMA PlaceGrows ==
  ASSUME NEW i, NEW tie, rows' \in SUBSET Ids, rows \subseteq rows',
         \A j \in rows : Precedes(j, i, tie) => Precedes(j, i, tie)'
  PROVE  Place(i, tie) <= Place(i, tie)'
<1> DEFINE now  == {j \in rows' : Precedes(j, i, tie)'}
           then == {j \in rows : Precedes(j, i, tie)}
<1>1. then \in SUBSET now
  OBVIOUS
<1>2. IsFiniteSet(now)
  BY SomeRows
<1>3. Place(i, tie) = Cardinality(then) /\ Place(i, tie)' = Cardinality(now)
  BY DEF Place
<1> HIDE DEF now, then
<1> QED
  BY <1>1, <1>2, <1>3, FS_Subset

\* What comes before a row and did so already puts it no further back.
LEMMA PlaceFalls ==
  ASSUME NEW i, NEW tie, rows \in SUBSET Ids, rows' \subseteq rows,
         \A j \in rows' : Precedes(j, i, tie)' => Precedes(j, i, tie)
  PROVE  Place(i, tie)' <= Place(i, tie)
<1> DEFINE now  == {j \in rows' : Precedes(j, i, tie)'}
           then == {j \in rows : Precedes(j, i, tie)}
<1>1. now \in SUBSET then
  OBVIOUS
<1>2. IsFiniteSet(then)
  BY SomeRows
<1>3. Place(i, tie) = Cardinality(then) /\ Place(i, tie)' = Cardinality(now)
  BY DEF Place
<1> HIDE DEF now, then
<1> QED
  BY <1>1, <1>2, <1>3, FS_Subset

\* A change of the rows that is noted for what it does to their places.
LEMMA RowsMove ==
  ASSUME ListingInv, ListingType', client.step # "end", UNCHANGED listing,
         UNCHANGED <<client.step, client.page, client.limit, client.items, client.first,
                     client.held, client.split>>,
         client.came => client'.came, client.left => client'.left,
         client.rose \subseteq client'.rose, client.sank \subseteq client'.sank,
         client'.came \/ client'.left \/ client'.rose # {} \/ client'.sank # {},
         (~ client'.left /\ client'.sank = {}) =>
           /\ rows \subseteq rows'
           /\ \A i \in rows \ client'.rose, tie \in TieBreaks : Place(i, tie) <= Place(i, tie)',
         (~ client'.came /\ client'.rose = {}) =>
           /\ rows' \subseteq rows
           /\ \A i \in rows' \ client'.sank, tie \in TieBreaks : Place(i, tie)' <= Place(i, tie)
  PROVE  ListingInv'
<1>1. /\ client'.step = client.step /\ client'.page = client.page /\ client'.limit = client.limit
      /\ client'.items = client.items /\ client'.first = client.first /\ client'.held = client.held
      /\ client'.split = client.split
  OBVIOUS
<1>2. Seen' = Seen /\ Received' = Received
  BY <1>1 DEF Seen, Received
<1>3. Reached' = Reached /\ Reached \in Int
  BY <1>1 DEF Reached, Skip, ListingInv, ListingType, Clients
<1>4. /\ TieBreaks' = TieBreaks
      /\ \A tie \in TieBreaks, i \in rows : Place(i, tie) \in Nat
      /\ \A tie \in TieBreaks, i \in rows' : Place(i, tie)' \in Nat
      /\ \A tie \in TieBreaks, i \in rows' : Place(i, tie) \in Nat
      /\ \A tie \in TieBreaks, i \in rows : Place(i, tie)' \in Nat
  <2>1. TieBreaks' = TieBreaks
    BY DEF TieBreaks, ById, AnyOrder
  <2>2. rows \in SUBSET Ids /\ rows' \in SUBSET Ids
    BY DEF ListingInv, ListingType
  <2>3. \A tie, i : Place(i, tie) \in Nat /\ Place(i, tie)' \in Nat
    BY <2>2, SomeRows DEF Place
  <2> QED
    BY <2>1, <2>3
<1>5. PagesComplete'
  BY <1>1 DEF PagesComplete
<1>6. GoesThrough' <=> GoesThrough
  BY <1>1 DEF GoesThrough, PagesBegun
<1>7. ASSUME StillAhead
      PROVE  StillAhead'
  <2> SUFFICES ASSUME ~ client'.left, client'.sank = {}
               PROVE  /\ client.first \subseteq rows'
                      /\ \A i \in client.first \ (client'.rose \cup client.split) :
                           i \in Received \/ \A tie \in TieBreaks : Reached <= Place(i, tie)'
    BY <1>1, <1>2, <1>3, <1>4 DEF StillAhead
  <2>1. /\ client.first \subseteq rows
        /\ \A i \in client.first \ (client.rose \cup client.split) :
             i \in Received \/ \A tie \in TieBreaks : Reached <= Place(i, tie)
    BY <1>7 DEF StillAhead
  <2>2. /\ rows \subseteq rows'
        /\ \A i \in rows \ client'.rose, tie \in TieBreaks : Place(i, tie) <= Place(i, tie)'
    OBVIOUS
  <2> QED
    BY <1>3, <1>4, <2>1, <2>2
<1>8. ASSUME LeftBehind
      PROVE  LeftBehind'
  <2> SUFFICES ASSUME ~ client'.came, client'.rose = {}
               PROVE  /\ \A m, n \in DOMAIN client.held :
                           m # n => client.held[m] \cap client.held[n]
                                      \subseteq client'.sank \cup client.split
                      /\ client.items \cap Seen \subseteq client'.sank \cup client.split
                      /\ \A i \in (Received \cap rows') \ (client'.sank \cup client.split) :
                           \A tie \in TieBreaks : Place(i, tie)' < Reached
    BY <1>1, <1>2, <1>3, <1>4 DEF LeftBehind
  <2>1. /\ \A m, n \in DOMAIN client.held :
             m # n => client.held[m] \cap client.held[n] \subseteq client.sank \cup client.split
        /\ client.items \cap Seen \subseteq client.sank \cup client.split
        /\ \A i \in (Received \cap rows) \ (client.sank \cup client.split) :
             \A tie \in TieBreaks : Place(i, tie) < Reached
    BY <1>8 DEF LeftBehind
  <2>2. /\ rows' \subseteq rows
        /\ \A i \in rows' \ client'.sank, tie \in TieBreaks : Place(i, tie)' <= Place(i, tie)
    OBVIOUS
  <2>3. \A i \in (Received \cap rows') \ (client'.sank \cup client.split) :
           \A tie \in TieBreaks : Place(i, tie)' < Reached
    BY <1>3, <1>4, <2>1, <2>2
  <2>4. client.sank \cup client.split \subseteq client'.sank \cup client.split
    OBVIOUS
  <2> QED
    BY <2>1, <2>3, <2>4
<1>9. PagesFull'
  BY DEF PagesFull
<1> QED
  BY <1>5, <1>6, <1>7, <1>8, <1>9 DEF ListingInv

\* A row that comes into the listing puts none of the others further forward.
LEMMA RowComes ==
  ASSUME ListingInv, AddRow
  PROVE  ListingInv'
<1>0. ListingType
  BY DEF ListingInv
<1>1. PICK i \in Ids \ rows, v \in 1 .. MaxValue :
        rows' = rows \cup {i} /\ value' = [value EXCEPT ![i] = v]
  BY DEF AddRow
<1>2. /\ client.step # "end" /\ PagesBegun /\ changes' = changes + 1
      /\ client' = [client EXCEPT !.came = TRUE] /\ UNCHANGED listing
  BY <1>0 DEF AddRow, Change, PagesBegun, ListingType, Clients
<1>3. /\ UNCHANGED <<client.step, client.page, client.limit, client.items, client.first,
                     client.held, client.split, client.left, client.rose, client.sank>>
      /\ client'.came /\ client' \in Clients
  BY <1>0, <1>2 DEF ListingType, Clients
<1>4. value' \in [Ids -> 1 .. MaxValue] /\ rows' \in SUBSET Ids /\ changes' \in Nat
  BY <1>0, <1>1, <1>2 DEF ListingType
<1>5. ListingType'
  BY <1>0, <1>2, <1>3, <1>4 DEF ListingType, Ids, PagesBegun
<1>6. ASSUME NEW k \in rows, NEW tie \in TieBreaks
      PROVE  Place(k, tie) <= Place(k, tie)'
  <2>1. \A j \in rows : value'[j] = value[j]
    BY <1>0, <1>1 DEF ListingType
  <2>2. \A j \in rows : Precedes(j, k, tie) => Precedes(j, k, tie)'
    BY <1>2, <1>6, <2>1 DEF Precedes, Sooner
  <2> QED
    BY <1>1, <1>4, <2>2, PlaceGrows
<1>7. rows \subseteq rows'
  BY <1>1
<1> QED
  BY <1>2, <1>3, <1>5, <1>6, <1>7, RowsMove

\* A row that leaves puts none of the others further back.
LEMMA RowLeaves ==
  ASSUME ListingInv, RemoveRow
  PROVE  ListingInv'
<1>0. ListingType
  BY DEF ListingInv
<1>1. PICK i \in rows : rows' = rows \ {i}
  BY DEF RemoveRow
<1>2. /\ client.step # "end" /\ PagesBegun /\ changes' = changes + 1
      /\ client' = [client EXCEPT !.left = TRUE] /\ UNCHANGED <<listing, value>>
  BY <1>0 DEF RemoveRow, Change, PagesBegun, ListingType, Clients
<1>3. /\ UNCHANGED <<client.step, client.page, client.limit, client.items, client.first,
                     client.held, client.split, client.came, client.rose, client.sank>>
      /\ client'.left /\ client' \in Clients
  BY <1>0, <1>2 DEF ListingType, Clients
<1>4. rows' \in SUBSET Ids /\ changes' \in Nat
  BY <1>0, <1>1, <1>2 DEF ListingType
<1>5. ListingType'
  BY <1>0, <1>2, <1>3, <1>4 DEF ListingType, Ids, PagesBegun
<1>6. ASSUME NEW k, NEW tie
      PROVE  Place(k, tie)' <= Place(k, tie)
  <2>1. \A j : Precedes(j, k, tie)' => Precedes(j, k, tie)
    BY <1>2 DEF Precedes, Sooner
  <2>2. rows \in SUBSET Ids
    BY <1>0 DEF ListingType
  <2> QED
    BY <1>1, <2>1, <2>2, PlaceFalls
<1>7. rows' \subseteq rows
  BY <1>1
<1> QED
  BY <1>2, <1>3, <1>5, <1>6, <1>7, RowsMove

\* A row that rises goes past others, and they come later for it; one that sinks lets
\* them pass.
LEMMA ListingRowMoves ==
  ASSUME ListingInv, NEW r \in rows, NEW v \in 1 .. MaxValue, Revalue(r, v)
  PROVE  ListingInv'
<1>0. ListingType
  BY DEF ListingInv
<1>1. /\ client.step # "end" /\ PagesBegun /\ changes' = changes + 1 /\ v # value[r]
      /\ value' = [value EXCEPT ![r] = v] /\ UNCHANGED listing /\ UNCHANGED rows
  BY <1>0 DEF Revalue, Change, PagesBegun, ListingType, Clients
<1>2. client' = IF Sooner(v, value[r]) THEN [client EXCEPT !.rose = client.rose \cup {r}]
                ELSE [client EXCEPT !.sank = client.sank \cup {r}]
  BY <1>0 DEF Revalue, ListingType, Clients
<1>3. /\ UNCHANGED <<client.step, client.page, client.limit, client.items, client.first,
                     client.held, client.split, client.came, client.left>>
      /\ client' \in Clients
      /\ Sooner(v, value[r]) => client'.rose = client.rose \cup {r} /\ client'.sank = client.sank
      /\ ~ Sooner(v, value[r]) => client'.sank = client.sank \cup {r} /\ client'.rose = client.rose
  BY <1>0, <1>2 DEF ListingType, Clients
<1>4. value' \in [Ids -> 1 .. MaxValue] /\ rows' \in SUBSET Ids /\ changes' \in Nat
  BY <1>0, <1>1 DEF ListingType
<1>5. ListingType'
  BY <1>0, <1>1, <1>3, <1>4 DEF ListingType, Ids, PagesBegun
<1>6. \A j \in rows : /\ value[j] \in Int /\ value'[j] \in Int
                      /\ value'[j] = IF j = r THEN v ELSE value[j]
  <2>1. MaxValue \in Int
    BY ListingAssumption
  <2> QED
    BY <1>0, <1>1, <1>4, <2>1 DEF ListingType
<1>7. ASSUME Sooner(v, value[r]), NEW k \in rows, k # r, NEW tie
      PROVE  Place(k, tie) <= Place(k, tie)'
  <2>1. \A j \in rows : Precedes(j, k, tie) => Precedes(j, k, tie)'
    BY <1>1, <1>6, <1>7 DEF Precedes, Sooner
  <2> QED
    BY <1>1, <1>4, <2>1, PlaceGrows
<1>8. ASSUME ~ Sooner(v, value[r]), NEW k \in rows, k # r, NEW tie
      PROVE  Place(k, tie)' <= Place(k, tie)
  <2>1. \A j \in rows : Precedes(j, k, tie)' => Precedes(j, k, tie)
    BY <1>1, <1>6, <1>8 DEF Precedes, Sooner
  <2> QED
    BY <1>1, <1>4, <2>1, PlaceFalls
<1>9. CASE Sooner(v, value[r])
  <2>1. client'.rose # {} /\ r \in client'.rose /\ client'.sank = client.sank
        /\ client.rose \subseteq client'.rose
    BY <1>3, <1>9
  <2>2. \A i \in rows \ client'.rose, tie \in TieBreaks : Place(i, tie) <= Place(i, tie)'
    BY <1>7, <1>9, <2>1
  <2> QED
    BY <1>1, <1>3, <1>5, <2>1, <2>2, RowsMove
<1>10. CASE ~ Sooner(v, value[r])
  <2>1. client'.sank # {} /\ r \in client'.sank /\ client'.rose = client.rose
        /\ client.sank \subseteq client'.sank
    BY <1>3, <1>10
  <2>2. \A i \in rows' \ client'.sank, tie \in TieBreaks : Place(i, tie)' <= Place(i, tie)
    BY <1>1, <1>8, <1>10, <2>1
  <2> QED
    BY <1>1, <1>3, <1>5, <2>1, <2>2, RowsMove
<1> QED
  BY <1>9, <1>10

-----------------------------------------------------------------------------
(* A page of a listing.                                                    *)

\* There is an order of the rows of one time.
LEMMA AnyOrderThere ==
  AnyOrder # {}
<1>1. ById \in AnyOrder
  BY DEF ById, AnyOrder, IsInjective
<1> QED
  BY <1>1

\* buildPaginationMeta goes on as long as there are rows after the page.
LEMMA PagesCounted ==
  ASSUME NEW page \in Nat \ {0}, NEW limit \in Nat \ {0}, NEW total \in Nat
  PROVE  /\ Skip(page, limit) \in Nat /\ Skip(page + 1, limit) = Skip(page, limit) + limit
         /\ HasNext(page, limit, total) <=> Skip(page, limit) + limit < total
<1> DEFINE q == (total + limit - 1) \div limit
<1>1. /\ q \in Nat /\ q * limit <= total + limit - 1
      /\ total + limit - 1 < q * limit + limit
  OBVIOUS
<1>2. TotalPages(limit, total) = IF 1 >= q THEN 1 ELSE q
  BY <1>1, MaxOfTwo DEF TotalPages
<1> HIDE DEF q
<1>3. HasNext(page, limit, total) <=> page < q
  BY <1>1, <1>2 DEF HasNext
<1>4. ASSUME page < q
      PROVE  page * limit < total
  <2>1. \A a, b \in Nat, c \in Nat : a < b => a * c + c <= b * c
    OBVIOUS
  <2>2. page * limit + limit <= q * limit
    BY <1>1, <1>4, <2>1
  <2>3. page * limit \in Nat /\ q * limit \in Nat
    BY <1>1
  <2> QED
    BY <1>1, <2>2, <2>3
<1>5. ASSUME ~ (page < q)
      PROVE  ~ (page * limit < total)
  <2>1. \A a, b \in Nat, c \in Nat : a <= b => a * c <= b * c
    OBVIOUS
  <2>2. q * limit <= page * limit
    BY <1>1, <1>5, <2>1
  <2>3. page * limit \in Nat /\ q * limit \in Nat
    BY <1>1
  <2> QED
    BY <1>1, <2>2, <2>3
<1>6. (page - 1) * limit \in Nat /\ (page - 1) * limit + limit = page * limit /\ page + 1 - 1 = page
  <2>1. \A a, c \in Nat : a * c + c = (a + 1) * c /\ a * c \in Nat
    OBVIOUS
  <2>2. page - 1 \in Nat /\ (page - 1) + 1 = page
    OBVIOUS
  <2> QED
    BY <2>1, <2>2
<1> QED
  BY <1>3, <1>4, <1>5, <1>6 DEF Skip

\* ReadPage: the page takes the places up from the last one the client had.
LEMMA PageRead ==
  ASSUME ListingInv, ReadPage
  PROVE  ListingInv'
<1>0. ListingType /\ client.step = "ask" /\ UNCHANGED tableVars
  BY DEF ListingInv, ReadPage
<1>1. PICK limit \in (IF client.page = 1 THEN Limits ELSE {client.limit}) :
      \E tie \in TieBreaks :
        client' = [[client EXCEPT !.step = "count", !.limit = limit,
                      !.first = IF client.page = 1 THEN rows ELSE client.first,
                      !.split = client.split \cup SplitAt(Skip(client.page, limit) + limit)]
                   EXCEPT !.items = {i \in rows : /\ Skip(client.page, limit) <= Place(i, tie)
                                                 /\ Place(i, tie) < Skip(client.page, limit) + limit}]
  BY <1>0 DEF ReadPage, ListingType, Clients
<1> DEFINE skip  == Skip(client.page, limit)
           first == IF client.page = 1 THEN rows ELSE client.first
           split == client.split \cup SplitAt(skip + limit)
           page(tie) == {i \in rows : skip <= Place(i, tie) /\ Place(i, tie) < skip + limit}
<1>2. PICK tie \in TieBreaks :
        client' = [[client EXCEPT !.step = "count", !.limit = limit, !.first = first, !.split = split]
                   EXCEPT !.items = page(tie)]
  BY <1>1
<1> DEFINE items == page(tie)
<1>3. limit \in Nat \ {0} /\ (client.page # 1 => limit = client.limit)
  <2>1. \A l \in Limits : l \in Nat \ {0}
    BY ListingAssumption
  <2>2. client.limit \in Nat /\ (client.page # 1 => client.limit # 0)
    BY <1>0 DEF ListingType, Clients, PagesBegun
  <2> QED
    BY <1>1, <2>1, <2>2
<1>4. rows \in SUBSET Ids /\ items \in SUBSET Ids /\ first \in SUBSET Ids /\ split \in SUBSET Ids
  <2>1. rows \in SUBSET Ids /\ client.first \in SUBSET Ids /\ client.split \in SUBSET Ids
    BY <1>0 DEF ListingType, Clients
  <2> QED
    BY <2>1 DEF SplitAt
<1>5. /\ skip \in Nat
      /\ items = {i \in rows : skip <= Place(i, tie) /\ Place(i, tie) < skip + limit}
      /\ client.page = 1 => skip = 0 /\ client.held = <<>>
  <2>1. client.page \in Nat \ {0} /\ client.page = 1 + Len(client.held)
        /\ client.held \in Seq(SUBSET Ids)
    BY <1>0 DEF ListingType, Clients
  <2>2. client.page = 1 => skip = 0 * limit
    BY DEF Skip
  <2>3. client.page = 1 => client.held = <<>>
    BY <2>1
  <2>4. 0 * limit = 0
    BY <1>3
  <2>5. skip \in Nat
    BY <1>3, <2>1, PagesCounted, 0 \in Nat
  <2> QED
    BY <2>2, <2>3, <2>4, <2>5
<1>7. \A i \in rows \ split :
        \/ \A t \in TieBreaks : ~ (Place(i, t) < skip + limit)
        \/ \A t \in TieBreaks : ~ (skip + limit <= Place(i, t))
  BY DEF SplitAt
<1>6. client.split \subseteq split
  OBVIOUS
<1>6a. first = (IF client.page = 1 THEN rows ELSE client.first)
  OBVIOUS
<1> HIDE DEF items, first, split, page
<1>8. client' = [[client EXCEPT !.step = "count", !.limit = limit, !.first = first, !.split = split]
                 EXCEPT !.items = items]
  BY <1>2 DEF items
<1>9. /\ client'.step = "count" /\ client'.limit = limit /\ client'.items = items
      /\ client'.page = client.page /\ client'.held = client.held /\ client'.first = first
      /\ client'.split = split /\ client'.came = client.came /\ client'.left = client.left
      /\ client'.rose = client.rose /\ client'.sank = client.sank /\ client' \in Clients
  BY <1>0, <1>3, <1>4, <1>8 DEF ListingType, Clients
<1>10. UNCHANGED listing /\ UNCHANGED rows /\ UNCHANGED value /\ UNCHANGED changes
  BY <1>0 DEF tableVars
<1>11. ListingType'
  BY <1>0, <1>3, <1>9, <1>10 DEF ListingType, Ids, PagesBegun
<1>12. /\ TieBreaks' = TieBreaks
       /\ \A i, t : Place(i, t)' = Place(i, t)
       /\ \A i, t : Place(i, t) \in Nat
  <2>1. \A i, t : Place(i, t) \in Nat
    BY <1>4, SomeRows DEF Place
  <2> QED
    BY <1>10, <2>1 DEF Place, Precedes, Sooner, TieBreaks, ById, AnyOrder
<1>13. Seen' = Seen /\ Received' = Seen \cup items
  BY <1>9 DEF Seen, Received
<1>14. Reached' = skip + limit
  BY <1>9 DEF Reached, Skip
<1>15. client.page = 1 => Seen = {}
  BY <1>5 DEF Seen, Range
<1>16. client.page # 1 => StillAhead /\ LeftBehind /\ PagesFull /\ Reached = skip /\ Received = Seen
  <2>1. client.items = {} /\ client.page \in Nat
    BY <1>0 DEF ListingType, Clients
  <2>2. client.page # 1 => Reached = skip
    <3>1. client.page # 1 => limit = client.limit
      BY <1>3
    <3> HIDE DEF skip
    <3>2. client.page # 1 => Reached = skip + 0
      BY <1>0, <3>1 DEF Reached, skip
    <3> QED
      BY <1>5, <3>2
  <2> QED
    BY <1>0, <2>1, <2>2 DEF ListingInv, GoesThrough, PagesBegun, Received
<1> HIDE DEF skip
<1>17. \A i \in rows \ split : (\A t \in TieBreaks : skip <= Place(i, t)) =>
         i \in items \/ \A t \in TieBreaks : skip + limit <= Place(i, t)
  <2> SUFFICES ASSUME NEW i \in rows \ split, \A t \in TieBreaks : skip <= Place(i, t),
                      i \notin items
               PROVE  \A t \in TieBreaks : skip + limit <= Place(i, t)
    OBVIOUS
  <2>1. skip <= Place(i, tie) /\ ~ (Place(i, tie) < skip + limit)
    BY <1>5
  <2>2. skip + limit <= Place(i, tie)
    BY <1>3, <1>5, <1>12, <2>1
  <2>3. \A t \in TieBreaks : ~ (Place(i, t) < skip + limit)
    BY <1>7, <2>2
  <2> QED
    BY <1>3, <1>5, <1>12, <2>3
<1>18. \A i \in items \ split : \A t \in TieBreaks : Place(i, t) < skip + limit
  <2> SUFFICES ASSUME NEW i \in items \ split
               PROVE  \A t \in TieBreaks : Place(i, t) < skip + limit
    OBVIOUS
  <2>1. i \in rows \ split /\ Place(i, tie) < skip + limit
    BY <1>5
  <2>2. \A t \in TieBreaks : ~ (skip + limit <= Place(i, t))
    BY <1>7, <2>1
  <2> QED
    BY <1>3, <1>5, <1>12, <2>2
<1>19. StillAhead'
  <2> SUFFICES ASSUME ~ client.left, client.sank = {}
               PROVE  /\ first \subseteq rows
                      /\ \A i \in first \ (client.rose \cup split) :
                           \/ i \in Seen \cup items
                           \/ \A t \in TieBreaks : skip + limit <= Place(i, t)
    BY <1>9, <1>10, <1>12, <1>13, <1>14 DEF StillAhead
  <2>1. CASE client.page = 1
    <3>1. \A i \in rows : \A t \in TieBreaks : skip <= Place(i, t)
      BY <1>5, <1>12, <2>1
    <3> QED
      BY <1>17, <1>6a, <2>1, <3>1
  <2>2. CASE client.page # 1
    <3>1. /\ first \subseteq rows
          /\ \A i \in first \ (client.rose \cup client.split) :
               i \in Seen \/ \A t \in TieBreaks : skip <= Place(i, t)
      BY <1>16, <1>6a, <2>2 DEF StillAhead
    <3> QED
      BY <1>17, <1>6, <3>1
  <2> QED
    BY <2>1, <2>2
<1>20. LeftBehind'
  <2> SUFFICES ASSUME ~ client.came, client.rose = {}
               PROVE  /\ \A m, n \in DOMAIN client.held :
                           m # n => client.held[m] \cap client.held[n]
                                      \subseteq client.sank \cup split
                      /\ items \cap Seen \subseteq client.sank \cup split
                      /\ \A i \in ((Seen \cup items) \cap rows) \ (client.sank \cup split) :
                           \A t \in TieBreaks : Place(i, t) < skip + limit
    BY <1>9, <1>10, <1>12, <1>13, <1>14 DEF LeftBehind
  <2>1. \A i \in items : i \in rows /\ skip <= Place(i, tie)
    BY <1>5
  <2>2. CASE client.page = 1
    <3>1. client.held = <<>> /\ Seen = {}
      BY <1>5, <1>15, <2>2
    <3> QED
      BY <1>18, <3>1
  <2>3. CASE client.page # 1
    <3>1. /\ \A m, n \in DOMAIN client.held :
               m # n => client.held[m] \cap client.held[n] \subseteq client.sank \cup client.split
          /\ \A i \in (Seen \cap rows) \ (client.sank \cup client.split) :
               \A t \in TieBreaks : Place(i, t) < skip
      BY <1>16, <2>3 DEF LeftBehind
    <3>2. items \cap Seen \subseteq client.sank \cup split
      <4> SUFFICES ASSUME NEW i \in items, i \in Seen, i \notin client.sank \cup split
                   PROVE  FALSE
        OBVIOUS
      <4>1. i \in (Seen \cap rows) \ (client.sank \cup client.split)
        BY <1>6, <2>1
      <4>2. Place(i, tie) < skip
        BY <3>1, <4>1
      <4> QED
        BY <1>5, <1>12, <2>1, <4>2
    <3>3. \A i \in (Seen \cap rows) \ (client.sank \cup split) :
            \A t \in TieBreaks : Place(i, t) < skip + limit
      <4> SUFFICES ASSUME NEW i \in (Seen \cap rows) \ (client.sank \cup split), NEW t \in TieBreaks
                   PROVE  Place(i, t) < skip + limit
        OBVIOUS
      <4>1. Place(i, t) < skip
        BY <1>6, <3>1
      <4> QED
        BY <1>3, <1>5, <1>12, <4>1
    <3> QED
      BY <1>18, <1>6, <3>1, <3>2, <3>3
  <2> QED
    BY <2>2, <2>3
<1>21. skip + limit <= Cardinality(rows) => Cardinality(items) = limit
  <2> SUFFICES ASSUME skip + limit <= Cardinality(rows)
               PROVE  Cardinality(items) = limit
    OBVIOUS
  <2>1. IsFiniteSet(rows) /\ StrictOrder(OrderOfRows(tie), rows)
    BY <1>0, RowsOrdered
  <2>2. items = {i \in rows : /\ skip <= Rank(OrderOfRows(tie), rows, i)
                              /\ Rank(OrderOfRows(tie), rows, i) < skip + limit}
    BY <1>0, <1>5, RowsOrdered
  <2>3. limit \in Nat /\ skip \in Nat
    BY <1>3, <1>5
  <2>4. Cardinality({i \in rows : skip <= Rank(OrderOfRows(tie), rows, i)
                                  /\ Rank(OrderOfRows(tie), rows, i) < skip + limit}) = limit
    BY <2>1, <2>3, RankCount
  <2> QED
    BY <2>2, <2>4
<1>22. PagesFull'
  <2>1. CASE client.page = 1
    BY <1>5, <1>9, <1>10, <1>14, <1>21, <2>1 DEF PagesFull
  <2>2. CASE client.page # 1
    BY <1>3, <1>9, <1>10, <1>14, <1>16, <1>21, <2>2 DEF PagesFull
  <2> QED
    BY <2>1, <2>2
<1>23. PagesComplete'
  BY <1>9 DEF PagesComplete
<1> QED
  BY <1>11, <1>19, <1>20, <1>22, <1>23 DEF ListingInv

\* CountRows: the client goes on unless it has reached the last place.
LEMMA RowsCounted ==
  ASSUME ListingInv, CountRows
  PROVE  ListingInv'
<1> DEFINE on == HasNext(client.page, client.limit, Cardinality(rows))
<1>0. ListingType /\ client.step = "count" /\ UNCHANGED tableVars
  BY DEF ListingInv, CountRows
<1>1. client' = [client EXCEPT !.items = {}, !.page = client.page + 1,
                   !.held = Append(client.held, client.items),
                   !.step = IF on THEN "ask" ELSE "end"]
  BY <1>0 DEF CountRows, ListingType, Clients
<1> HIDE DEF on
<1>2. /\ client'.items = {} /\ client'.page = client.page + 1
      /\ client'.held = Append(client.held, client.items)
      /\ client'.step = (IF on THEN "ask" ELSE "end")
      /\ client'.limit = client.limit /\ client'.first = client.first
      /\ client'.came = client.came /\ client'.left = client.left /\ client'.rose = client.rose
      /\ client'.sank = client.sank /\ client'.split = client.split
  BY <1>0, <1>1 DEF ListingType, Clients
<1>3. UNCHANGED listing /\ UNCHANGED rows /\ UNCHANGED value /\ UNCHANGED changes
  BY <1>0 DEF tableVars
<1>4. /\ client.items \in SUBSET Ids /\ client.held \in Seq(SUBSET Ids)
      /\ client.limit \in Nat \ {0} /\ client.page \in Nat \ {0}
      /\ client.page = 1 + Len(client.held)
  BY <1>0 DEF ListingType, Clients, PagesBegun
<1>5. /\ client'.held \in Seq(SUBSET Ids) /\ Len(client'.held) = Len(client.held) + 1
      /\ DOMAIN client'.held = 1 .. Len(client.held) + 1
      /\ DOMAIN client.held = 1 .. Len(client.held)
      /\ \A n \in DOMAIN client.held : client'.held[n] = client.held[n]
      /\ client'.held[Len(client.held) + 1] = client.items
      /\ Len(client.held) \in Nat
  BY <1>2, <1>4
<1>6. ListingType'
  <2>1. client' \in Clients
    <3> DEFINE held == Append(client.held, client.items)
               step == IF on THEN "ask" ELSE "end"
               page == client.page + 1
    <3>1. held \in Seq(SUBSET Ids) /\ step \in {"ask", "count", "end"} /\ page \in Nat \ {0}
      BY <1>2, <1>4, <1>5
    <3>2. client' = [client EXCEPT !.items = {}, !.page = page, !.held = held, !.step = step]
      BY <1>1
    <3> HIDE DEF held, step, page
    <3> QED
      BY <1>0, <3>1, <3>2 DEF ListingType, Clients
  <2> QED
    BY <1>0, <1>2, <1>3, <1>4, <1>5, <2>1 DEF ListingType, Ids
<1>7. Seen' = Received /\ Received' = Received
  BY <1>0, <1>2, SeenGrows DEF Received
<1>8. /\ TieBreaks' = TieBreaks
      /\ \A i, t : Place(i, t)' = Place(i, t)
  BY <1>3 DEF Place, Precedes, Sooner, TieBreaks, ById, AnyOrder
<1>9. /\ IsFiniteSet(rows) /\ Cardinality(rows) \in Nat
      /\ \A i \in rows, t \in TieBreaks : Place(i, t) \in Nat /\ Place(i, t) < Cardinality(rows)
  <2>1. IsFiniteSet(rows) /\ Cardinality(rows) \in Nat
    BY <1>0, SomeRows DEF ListingType
  <2>2. ASSUME NEW i \in rows, NEW t \in TieBreaks
        PROVE  Place(i, t) \in Nat /\ Place(i, t) < Cardinality(rows)
    BY <1>0, RowsOrdered, RankGrows
  <2> QED
    BY <2>1, <2>2
<1>10. /\ Reached = Skip(client.page, client.limit) + client.limit /\ Reached \in Nat
       /\ on <=> Reached < Cardinality(rows)
  <2>1. Skip(client.page, client.limit) \in Nat
    BY <1>4, PagesCounted, 0 \in Nat
  <2>2. on <=> Skip(client.page, client.limit) + client.limit < Cardinality(rows)
    BY <1>4, <1>9, PagesCounted DEF on
  <2>3. Reached = Skip(client.page, client.limit) + client.limit
    BY <1>0 DEF Reached
  <2> QED
    BY <1>4, <2>1, <2>2, <2>3
<1>11. on => Reached' = Reached
  <2>1. on => Reached' = Skip(client.page + 1, client.limit) + 0
    BY <1>2 DEF Reached, Skip
  <2>2. /\ Skip(client.page + 1, client.limit) = Skip(client.page, client.limit) + client.limit
        /\ Skip(client.page, client.limit) \in Nat
    BY <1>4, <1>9, PagesCounted
  <2> QED
    BY <1>4, <1>10, <2>1, <2>2
<1>12. StillAhead /\ LeftBehind /\ PagesFull
  BY <1>0 DEF ListingInv, GoesThrough, PagesBegun
<1>13. on => StillAhead'
  BY <1>2, <1>3, <1>7, <1>8, <1>11, <1>12 DEF StillAhead
<1>14. ASSUME ~ client.came, client.rose = {}
       PROVE  \A m, n \in DOMAIN client'.held :
                m # n => client'.held[m] \cap client'.held[n] \subseteq client.sank \cup client.split
  <2>1. /\ \A m, n \in DOMAIN client.held :
             m # n => client.held[m] \cap client.held[n] \subseteq client.sank \cup client.split
        /\ client.items \cap Seen \subseteq client.sank \cup client.split
    BY <1>12, <1>14 DEF LeftBehind
  <2>2. \A n \in DOMAIN client.held : client.held[n] \subseteq Seen
    BY DEF Seen, Range
  <2>3. \A n \in DOMAIN client.held :
          client.items \cap client.held[n] \subseteq client.sank \cup client.split
    BY <2>1, <2>2
  <2>4. \A n \in DOMAIN client'.held : n \in DOMAIN client.held \/ n = Len(client.held) + 1
    BY <1>5
  <2> QED
    BY <1>5, <2>1, <2>3, <2>4
<1>15. on => LeftBehind'
  BY <1>2, <1>3, <1>7, <1>8, <1>11, <1>12, <1>14 DEF LeftBehind
<1>16. ASSUME ~ client.came, ~ client.left, client.rose = {}, client.sank = {}
       PROVE  /\ \A n \in DOMAIN client.held : Cardinality(client.held[n]) = client.limit
              /\ on => Cardinality(client.items) = client.limit
  BY <1>0, <1>9, <1>10, <1>12, <1>16 DEF PagesFull
<1>17. on => PagesFull'
  <2>1. \A n \in DOMAIN client'.held : n \in DOMAIN client.held \/ n = Len(client.held) + 1
    BY <1>5
  <2> QED
    BY <1>2, <1>5, <1>16, <2>1 DEF PagesFull
<1>18. PagesComplete'
  <2> SUFFICES ASSUME ~ on
               PROVE  PagesComplete'
    BY <1>2 DEF PagesComplete
  <2>1. (~ client.left /\ client.sank = {}) =>
          client.first \ (client.rose \cup client.split) \subseteq Received
    <3>1. \A i \in rows, t \in TieBreaks : ~ (Reached <= Place(i, t))
      BY <1>9, <1>10
    <3>2. TieBreaks # {}
      BY <1>0, AnyOrderThere DEF TieBreaks
    <3> QED
      BY <1>12, <3>1, <3>2 DEF StillAhead
  <2>2. (~ client.came /\ ~ client.left /\ client.rose = {} /\ client.sank = {}) =>
          \A n \in DOMAIN client'.held :
            n < Len(client'.held) => Cardinality(client'.held[n]) = client'.limit
    <3>1. \A n \in DOMAIN client'.held : n < Len(client'.held) => n \in DOMAIN client.held
      BY <1>5
    <3> QED
      BY <1>2, <1>5, <1>16, <3>1
  <2> QED
    BY <1>2, <1>7, <1>14, <2>1, <2>2 DEF PagesComplete
<1>19. GoesThrough' => on
  BY <1>2 DEF GoesThrough
<1> QED
  BY <1>6, <1>13, <1>15, <1>17, <1>18, <1>19 DEF ListingInv

\* The steps of the listings keep their invariant.
LEMMA ListingGoesOn ==
  ListingInv /\ [ListingNext]_listingVars => ListingInv'
<1> SUFFICES ASSUME ListingInv, [ListingNext]_listingVars
             PROVE  ListingInv'
  OBVIOUS
<1>1. CASE AddRow
  BY <1>1, RowComes
<1>2. CASE RemoveRow
  BY <1>2, RowLeaves
<1>3. CASE ChangeXp \/ StampAgain
  BY <1>3, ListingRowMoves DEF ChangeXp, StampAgain
<1>4. CASE ListQuests \/ ListUsers \/ GetQuestHistory \/ ListBusinesses \/ ListNotifications
  BY <1>4, PageRead DEF ListQuests, ListUsers, GetQuestHistory, ListBusinesses, ListNotifications
<1>5. CASE CountRows
  BY <1>5, RowsCounted
<1>6. CASE UNCHANGED listingVars
  <2>1. /\ UNCHANGED listing /\ UNCHANGED rows /\ UNCHANGED value /\ UNCHANGED changes
        /\ UNCHANGED client
    BY <1>6 DEF listingVars, tableVars
  <2>2. TieBreaks' = TieBreaks /\ \A i, t : Place(i, t)' = Place(i, t)
    BY <2>1 DEF Place, Precedes, Sooner, TieBreaks, ById, AnyOrder
  <2>3. Seen' = Seen /\ Received' = Received /\ Reached' = Reached /\ (GoesThrough' <=> GoesThrough)
    BY <2>1 DEF Seen, Received, Reached, Skip, GoesThrough, PagesBegun
  <2>4. ListingType' /\ (PagesComplete' <=> PagesComplete)
    BY <2>1, <2>3 DEF ListingInv, ListingType, Ids, PagesBegun, PagesComplete
  <2>5. (StillAhead' <=> StillAhead) /\ (LeftBehind' <=> LeftBehind) /\ (PagesFull' <=> PagesFull)
    BY <2>1, <2>2, <2>3 DEF StillAhead, LeftBehind, PagesFull
  <2> QED
    BY <2>3, <2>4, <2>5 DEF ListingInv
<1> QED
  BY <1>1, <1>2, <1>3, <1>4, <1>5, <1>6 DEF ListingNext

\* The invariant holds at the end of the pages too.
LEMMA ListingFollows ==
  ListingInv => PagesComplete
BY DEF ListingInv

-----------------------------------------------------------------------------
(* Presence.                                                               *)

\* A ping is on its way for one step of the clock at most, and lastSeenAt is never
\* older than the last request by more than a ping is put off for, nor newer than it
\* by more than the ping was on its way.
PresenceInv ==
  /\ halfMinute \in Nat /\ lastSeenAt \in Int /\ lastRequest \in Int /\ startedAt \in Int
  /\ pinging \subseteq {halfMinute - 1, halfMinute}
  /\ lastRequest <= lastSeenAt + PING
  /\ lastSeenAt - 1 <= lastRequest

\* A user that was never seen is not taken to be online.
LEMMA PresenceStarts ==
  PresenceInit => PresenceInv
BY PresenceAssumption DEF PresenceInit, PresenceInv, NeverSeen

\* The steps of the presence keep PresenceInv.
LEMMA PresenceGoesOn ==
  PresenceInv /\ [PresenceNext]_presenceVars => PresenceInv'
<1> SUFFICES ASSUME PresenceInv, [PresenceNext]_presenceVars
             PROVE  PresenceInv'
  OBVIOUS
<1> USE PresenceAssumption DEF PresenceInv
<1>1. CASE Request
  BY <1>1 DEF Request
<1>2. CASE Ping
  <2>1. PICK came \in pinging :
          /\ pinging' = pinging \ {came}
          /\ lastSeenAt' = IF PingDue THEN halfMinute ELSE lastSeenAt
          /\ lastRequest' = IF came > lastRequest THEN came ELSE lastRequest
          /\ UNCHANGED <<halfMinute, startedAt>>
    BY <1>2 DEF Ping
  <2>2. came \in {halfMinute - 1, halfMinute}
    OBVIOUS
  <2> QED
    BY <2>1, <2>2 DEF PingDue
<1>3. CASE LosePings
  BY <1>3 DEF LosePings
<1>4. CASE PresenceTick
  <2>1. pinging \subseteq {halfMinute}
    BY <1>4 DEF PresenceTick
  <2> QED
    BY <1>4, <2>1 DEF PresenceTick
<1>5. CASE StartQuest
  BY <1>5 DEF StartQuest
<1>6. CASE EndQuest
  BY <1>6 DEF EndQuest, NeverSeen
<1>7. CASE UNCHANGED presenceVars
  BY <1>7 DEF presenceVars
<1> QED
  BY <1>1, <1>2, <1>3, <1>4, <1>5, <1>6, <1>7 DEF PresenceNext

\* The status that is shown is true of the last request, but for the tolerated while.
LEMMA PresenceFollows ==
  PresenceInv => PresenceTrue
BY PresenceAssumption DEF PresenceInv, PresenceTrue, Status

-----------------------------------------------------------------------------
(* A user's statistics.                                                    *)

PlayStatuses == {"none", "STARTED", "COMPLETED"}
Happenings   == {"begun", "finished", "lost"}

StatsRecords ==
  [step: {"reading", "answered"}, questsDone: Nat, there: [PlayedQuests -> PlayStatuses],
   read: Seq(Nat \cup [Categories -> Nat]), meanwhile: [Happenings -> SUBSET PlayedQuests]]

UserStatsType ==
  /\ completion \in [PlayedQuests -> PlayStatuses]
  /\ questsDone \in Nat
  /\ stats = [step |-> "idle"] \/ stats \in StatsRecords

WereThere     == {q \in PlayedQuests : stats.there[q] # "none"}
WereCompleted == {q \in PlayedQuests : stats.there[q] = "COMPLETED"}
Begun         == stats.meanwhile["begun"]
DoneMeanwhile == stats.meanwhile["finished"]
Lost          == stats.meanwhile["lost"]

\* What a quest's row may have become since the call began.
QuestTraced(q) ==
  /\ completion[q] # "none" => q \in WereThere \cup Begun
  /\ completion[q] = "COMPLETED" => q \in WereCompleted \cup DoneMeanwhile
  /\ q \in WereThere \ Lost => completion[q] # "none"
  /\ q \in WereCompleted \ Lost => completion[q] = "COMPLETED"

\* The quests counted as started: what was there and is not among them is completed by
\* now, and what is completed of them was so meanwhile.
CountedStarted(S) ==
  /\ \A q \in WereThere \ Lost : q \in S \/ completion[q] = "COMPLETED"
  /\ \A q \in S : completion[q] = "COMPLETED" => q \in DoneMeanwhile
  /\ S \subseteq WereThere \cup Begun

BothCounted ==
  /\ stats.read[1] \in Nat /\ stats.read[2] \in Nat
  /\ stats.read[1] + stats.read[2] >= Cardinality(WereThere \ Lost)
  /\ stats.read[1] + stats.read[2] <= Cardinality(WereThere \cup Begun) + Cardinality(DoneMeanwhile)
  /\ stats.read[2] <= stats.questsDone + Cardinality(DoneMeanwhile)

CategoriesCounted ==
  \A c \in Categories :
    /\ stats.read[3][c] \in Nat
    /\ stats.read[3][c] >= Cardinality({q \in WereCompleted : CategoryOf[q] = c} \ Lost)

StatsInv ==
  /\ Cardinality(WereCompleted) <= stats.questsDone
  /\ Len(stats.read) \in 0 .. 3 /\ (stats.step = "answered" <=> Len(stats.read) = 3)
  /\ stats.step = "reading" => \A q \in PlayedQuests : QuestTraced(q)
  /\ Len(stats.read) = 1 =>
       \E S \in SUBSET PlayedQuests : stats.read[1] = Cardinality(S) /\ CountedStarted(S)
  /\ Len(stats.read) >= 2 => BothCounted
  /\ Len(stats.read) = 3 => CategoriesCounted

UserStatsInv ==
  /\ UserStatsType
  /\ Cardinality(In("COMPLETED")) <= questsDone
  /\ stats.step # "idle" => StatsInv

\* Sets of quests are finite.
LEMMA QuestSets ==
  /\ \A S \in SUBSET PlayedQuests : IsFiniteSet(S) /\ Cardinality(S) \in Nat
  /\ \A S, T \in SUBSET PlayedQuests : S \subseteq T => Cardinality(S) <= Cardinality(T)
<1>1. IsFiniteSet(PlayedQuests)
  BY UserStatsAssumption DEF PlayedQuests
<1>2. ASSUME NEW S \in SUBSET PlayedQuests
      PROVE  IsFiniteSet(S) /\ Cardinality(S) \in Nat
  BY <1>1, FS_Subset, FS_CardinalityType
<1>3. ASSUME NEW S \in SUBSET PlayedQuests, NEW T \in SUBSET PlayedQuests, S \subseteq T
      PROVE  Cardinality(S) <= Cardinality(T)
  BY <1>2, <1>3, FS_Subset
<1> QED
  BY <1>2, <1>3

\* Nothing is counted before the first statement.
LEMMA UserStatsStarts ==
  UserStatsInit => UserStatsInv
<1> SUFFICES ASSUME UserStatsInit
             PROVE  UserStatsInv
  OBVIOUS
<1>1. In("COMPLETED") = {}
  BY DEF UserStatsInit, In
<1>2. Cardinality(In("COMPLETED")) = 0
  BY <1>1, FS_EmptySet
<1> QED
  BY <1>2 DEF UserStatsInit, UserStatsInv, UserStatsType, PlayStatuses

\* The sets a call keeps are sets of quests.
LEMMA StatsSets ==
  ASSUME stats \in StatsRecords
  PROVE  /\ WereThere \in SUBSET PlayedQuests /\ WereCompleted \in SUBSET PlayedQuests
         /\ Begun \in SUBSET PlayedQuests /\ DoneMeanwhile \in SUBSET PlayedQuests
         /\ Lost \in SUBSET PlayedQuests /\ WereCompleted \subseteq WereThere
         /\ stats.questsDone \in Nat
BY DEF StatsRecords, WereThere, WereCompleted, Begun, DoneMeanwhile, Lost, Happenings

\* What happens to a quest during a call is kept; the rest of the call is as it was.
LEMMA MeanwhileKept ==
  ASSUME stats \in StatsRecords, stats.step = "reading", NEW what \in Happenings,
         NEW q \in PlayedQuests, Meanwhile(what, q)
  PROVE  /\ stats' \in StatsRecords
         /\ stats'.step = stats.step /\ stats'.questsDone = stats.questsDone
         /\ stats'.read = stats.read
         /\ WereThere' = WereThere /\ WereCompleted' = WereCompleted
         /\ Begun' = (IF what = "begun" THEN Begun \cup {q} ELSE Begun)
         /\ DoneMeanwhile' = (IF what = "finished" THEN DoneMeanwhile \cup {q} ELSE DoneMeanwhile)
         /\ Lost' = (IF what = "lost" THEN Lost \cup {q} ELSE Lost)
<1> DEFINE now == Happened(stats.meanwhile, what, q)
<1>1. stats' = [stats EXCEPT !.meanwhile = now]
  BY DEF Meanwhile
<1>2. /\ now \in [Happenings -> SUBSET PlayedQuests]
      /\ \A h \in Happenings :
           now[h] = IF h = what THEN stats.meanwhile[h] \cup {q} ELSE stats.meanwhile[h]
  BY DEF StatsRecords, Happened
<1> HIDE DEF now
<1>3. /\ stats' \in StatsRecords /\ stats'.there = stats.there /\ stats'.meanwhile = now
      /\ stats'.step = stats.step /\ stats'.questsDone = stats.questsDone
      /\ stats'.read = stats.read
  BY <1>1, <1>2 DEF StatsRecords
<1> QED
  BY <1>2, <1>3 DEF WereThere, WereCompleted, Begun, DoneMeanwhile, Lost, Happenings

\* A step of the player: a row begins, is completed and counted, or is lost.
RowMoves(q, what, status) ==
  /\ completion' = [completion EXCEPT ![q] = status]
  /\ what = "begun"    => completion[q] = "none" /\ status = "STARTED" /\ questsDone' = questsDone
  /\ what = "finished" => completion[q] = "STARTED" /\ status = "COMPLETED" /\ questsDone' = questsDone + 1
  /\ what = "lost"     => completion[q] # "none" /\ status \in {"none", "STARTED"} /\ questsDone' = questsDone
  /\ Meanwhile(what, q)

\* Whatever the player does meanwhile moves one quest's row, in one of three ways.
LEMMA PlayerMoves ==
  ASSUME UserStatsType, StartCompletion \/ RestartCompletion \/ FinishCompletion \/ DeletePlayedQuest
  PROVE  \E q \in PlayedQuests, what \in Happenings, status \in PlayStatuses :
           RowMoves(q, what, status)
<1>1. CASE StartCompletion
  <2>1. PICK q \in In("none") : /\ completion' = [completion EXCEPT ![q] = "STARTED"]
                                /\ Meanwhile("begun", q)
                                /\ questsDone' = questsDone
    BY <1>1 DEF StartCompletion
  <2>2. q \in PlayedQuests /\ RowMoves(q, "begun", "STARTED")
    BY <2>1 DEF In, RowMoves
  <2> QED
    BY <2>2 DEF Happenings, PlayStatuses
<1>2. CASE RestartCompletion
  <2>1. PICK q \in In("COMPLETED") : /\ completion' = [completion EXCEPT ![q] = "STARTED"]
                                     /\ Meanwhile("lost", q)
                                     /\ questsDone' = questsDone
    BY <1>2 DEF RestartCompletion
  <2>2. q \in PlayedQuests /\ RowMoves(q, "lost", "STARTED")
    BY <2>1 DEF In, RowMoves
  <2> QED
    BY <2>2 DEF Happenings, PlayStatuses
<1>3. CASE FinishCompletion
  <2>1. PICK q \in In("STARTED") : /\ completion' = [completion EXCEPT ![q] = "COMPLETED"]
                                   /\ questsDone' = questsDone + 1
                                   /\ Meanwhile("finished", q)
    BY <1>3 DEF FinishCompletion
  <2>2. q \in PlayedQuests /\ RowMoves(q, "finished", "COMPLETED")
    BY <2>1 DEF In, RowMoves
  <2> QED
    BY <2>2 DEF Happenings, PlayStatuses
<1>4. CASE DeletePlayedQuest
  <2>1. PICK q \in In("STARTED") \cup In("COMPLETED") :
           /\ completion' = [completion EXCEPT ![q] = "none"]
           /\ Meanwhile("lost", q)
           /\ questsDone' = questsDone
    BY <1>4 DEF DeletePlayedQuest
  <2>2. q \in PlayedQuests /\ RowMoves(q, "lost", "none")
    BY <2>1 DEF In, RowMoves
  <2> QED
    BY <2>2 DEF Happenings, PlayStatuses
<1> QED
  BY <1>1, <1>2, <1>3, <1>4

\* However the player plays on, UserStatsInv stays.
LEMMA PlayerKeeps ==
  ASSUME UserStatsInv, NEW q \in PlayedQuests, NEW what \in Happenings, NEW status \in PlayStatuses,
         RowMoves(q, what, status)
  PROVE  UserStatsInv'
<1>1. /\ UserStatsType /\ (stats.step # "idle" => StatsInv)
      /\ completion \in [PlayedQuests -> PlayStatuses] /\ questsDone \in Nat
  BY DEF UserStatsInv, UserStatsType
<1>2. /\ completion' \in [PlayedQuests -> PlayStatuses]
      /\ questsDone' \in Nat
      /\ \A r \in PlayedQuests : completion'[r] = IF r = q THEN status ELSE completion[r]
      /\ what = "begun" => completion[q] = "none" /\ status = "STARTED"
      /\ what = "finished" => completion[q] = "STARTED" /\ status = "COMPLETED"
      /\ what = "lost" => completion[q] # "none" /\ status \in {"none", "STARTED"}
  BY <1>1 DEF RowMoves, Happenings
<1>3. Cardinality(In("COMPLETED")') <= questsDone'
  <2>1. In("COMPLETED") \in SUBSET PlayedQuests /\ In("COMPLETED")' \in SUBSET PlayedQuests
    BY DEF In
  <2>2. Cardinality(In("COMPLETED")) <= questsDone
    BY DEF UserStatsInv
  <2>3. CASE what = "finished"
    <3>1. In("COMPLETED")' = In("COMPLETED") \cup {q}
      BY <1>2, <2>3 DEF In
    <3>2. Cardinality(In("COMPLETED")') <= Cardinality(In("COMPLETED")) + 1
      BY <2>1, <3>1, QuestSets, FS_AddElement
    <3>3. questsDone' = questsDone + 1
      BY <2>3 DEF RowMoves
    <3> QED
      BY <1>1, <2>1, <2>2, <3>2, <3>3, QuestSets
  <2>4. CASE what # "finished"
    <3>1. In("COMPLETED")' \subseteq In("COMPLETED")
      BY <1>2, <2>4 DEF In, Happenings
    <3>2. questsDone' = questsDone
      BY <2>4 DEF RowMoves, Happenings
    <3> QED
      BY <1>1, <2>1, <2>2, <3>1, <3>2, QuestSets
  <2> QED
    BY <2>3, <2>4
<1>4. CASE stats.step # "reading"
  <2>1. stats' = stats
    BY <1>4 DEF RowMoves, Meanwhile
  <2>2. UserStatsType'
    BY <1>1, <1>2, <2>1 DEF UserStatsType
  <2>3. stats.step # "idle" => stats.step = "answered"
    BY <1>1, <1>4 DEF UserStatsType, StatsRecords
  <2>4. stats'.step # "idle" => StatsInv'
    BY <1>1, <1>4, <2>1, <2>3
       DEF StatsInv, BothCounted, CategoriesCounted, WereThere, WereCompleted, Begun,
           DoneMeanwhile, Lost
  <2> QED
    BY <1>3, <2>2, <2>4 DEF UserStatsInv
<1>5. CASE stats.step = "reading"
  <2>1. stats \in StatsRecords /\ StatsInv
    BY <1>1, <1>5 DEF UserStatsType
  <2>2. /\ stats' \in StatsRecords
        /\ stats'.step = stats.step /\ stats'.questsDone = stats.questsDone
        /\ stats'.read = stats.read
        /\ WereThere' = WereThere /\ WereCompleted' = WereCompleted
        /\ Begun' = (IF what = "begun" THEN Begun \cup {q} ELSE Begun)
        /\ DoneMeanwhile' = (IF what = "finished" THEN DoneMeanwhile \cup {q} ELSE DoneMeanwhile)
        /\ Lost' = (IF what = "lost" THEN Lost \cup {q} ELSE Lost)
    BY <1>5, <2>1, MeanwhileKept DEF RowMoves
  <2>3. UserStatsType'
    BY <1>2, <2>2 DEF UserStatsType
  <2>4. \A r \in PlayedQuests : QuestTraced(r)
    BY <1>5, <2>1 DEF StatsInv
  <2>5. ASSUME NEW r \in PlayedQuests
        PROVE  QuestTraced(r)'
    <3>1. QuestTraced(r) /\ WereCompleted \subseteq WereThere
      BY <2>1, <2>4, StatsSets
    <3> QED
      BY <1>2, <2>2, <3>1 DEF QuestTraced, Happenings
  <2>6. ASSUME NEW S \in SUBSET PlayedQuests, CountedStarted(S)
        PROVE  CountedStarted(S)'
    <3>1. /\ \A r \in WereThere \ Lost : r \in S \/ completion[r] = "COMPLETED"
          /\ \A r \in S : completion[r] = "COMPLETED" => r \in DoneMeanwhile
          /\ S \subseteq WereThere \cup Begun
      BY <2>6 DEF CountedStarted
    <3>2. \A r \in WereThere : r \in PlayedQuests
      BY DEF WereThere
    <3>3. \A r \in (WereThere \ Lost)' : r \in S \/ completion'[r] = "COMPLETED"
      BY <1>2, <2>2, <3>1, <3>2 DEF Happenings
    <3>4. \A r \in S : completion'[r] = "COMPLETED" => r \in DoneMeanwhile'
      BY <1>2, <2>2, <3>1 DEF Happenings
    <3>5. S \subseteq (WereThere \cup Begun)'
      BY <2>2, <3>1
    <3> QED
      BY <3>3, <3>4, <3>5 DEF CountedStarted
  <2>7. Len(stats.read) >= 2 => BothCounted'
    <3> SUFFICES ASSUME Len(stats.read) >= 2
                 PROVE  BothCounted'
      OBVIOUS
    <3>1. BothCounted
      BY <2>1 DEF StatsInv
    <3>2. /\ WereThere \ Lost \in SUBSET PlayedQuests /\ (WereThere \ Lost)' \in SUBSET PlayedQuests
          /\ (WereThere \ Lost)' \subseteq WereThere \ Lost
          /\ WereThere \cup Begun \in SUBSET PlayedQuests
          /\ (WereThere \cup Begun)' \in SUBSET PlayedQuests
          /\ WereThere \cup Begun \subseteq (WereThere \cup Begun)'
          /\ DoneMeanwhile \in SUBSET PlayedQuests /\ DoneMeanwhile' \in SUBSET PlayedQuests
          /\ DoneMeanwhile \subseteq DoneMeanwhile'
      BY <2>1, <2>2, StatsSets
    <3>3. /\ Cardinality((WereThere \ Lost)') <= Cardinality(WereThere \ Lost)
          /\ Cardinality(WereThere \cup Begun) <= Cardinality((WereThere \cup Begun)')
          /\ Cardinality(DoneMeanwhile) <= Cardinality(DoneMeanwhile')
          /\ Cardinality(WereThere \ Lost) \in Nat /\ Cardinality((WereThere \ Lost)') \in Nat
          /\ Cardinality(WereThere \cup Begun) \in Nat
          /\ Cardinality((WereThere \cup Begun)') \in Nat
          /\ Cardinality(DoneMeanwhile) \in Nat /\ Cardinality(DoneMeanwhile') \in Nat
      BY <3>2, QuestSets
    <3>4. stats.questsDone \in Nat
      BY <2>1, StatsSets
    <3>5. stats'.read = stats.read /\ stats'.questsDone = stats.questsDone
      BY <2>2
    <3>6. /\ stats.read[1] \in Nat /\ stats.read[2] \in Nat
          /\ stats.read[1] + stats.read[2] >= Cardinality(WereThere \ Lost)
          /\ stats.read[1] + stats.read[2]
               <= Cardinality(WereThere \cup Begun) + Cardinality(DoneMeanwhile)
          /\ stats.read[2] <= stats.questsDone + Cardinality(DoneMeanwhile)
      BY <3>1 DEF BothCounted
    <3>7. stats.read[1] + stats.read[2] >= Cardinality((WereThere \ Lost)')
      BY <3>3, <3>6
    <3>8. stats.read[1] + stats.read[2]
            <= Cardinality((WereThere \cup Begun)') + Cardinality(DoneMeanwhile')
      BY <3>3, <3>6
    <3>9. stats.read[2] <= stats.questsDone + Cardinality(DoneMeanwhile')
      <4>1. \A a, b, c, d \in Nat : (a <= b + c /\ c <= d) => a <= b + d
        OBVIOUS
      <4> QED
        BY <3>3, <3>4, <3>6, <4>1
    <3> QED
      BY <3>5, <3>6, <3>7, <3>8, <3>9 DEF BothCounted
  <2>8. Len(stats.read) # 3
    BY <1>5, <2>1 DEF StatsInv
  <2>9. StatsInv'
    <3>1. Len(stats.read) = 1 =>
            \E S \in SUBSET PlayedQuests : stats.read[1] = Cardinality(S) /\ CountedStarted(S)'
      BY <2>1, <2>6 DEF StatsInv
    <3>2. Cardinality(WereCompleted) <= stats.questsDone /\ Len(stats.read) \in 0 .. 3
          /\ (stats.step = "answered" <=> Len(stats.read) = 3)
      BY <2>1 DEF StatsInv
    <3> QED
      BY <2>2, <2>5, <2>7, <2>8, <3>1, <3>2 DEF StatsInv
  <2> QED
    BY <1>3, <2>3, <2>9 DEF UserStatsInv
<1> QED
  BY <1>4, <1>5

\* The first statement reads the user's counter, and the completions are as they are then.
LEMMA UserRowRead ==
  ASSUME UserStatsInv, ReadUserRow
  PROVE  UserStatsInv'
<1>1. /\ UserStatsType /\ Cardinality(In("COMPLETED")) <= questsDone
      /\ UNCHANGED <<completion, questsDone>>
  BY DEF UserStatsInv, ReadUserRow
<1>2. stats' = [step |-> "reading", questsDone |-> questsDone, there |-> completion,
                read |-> <<>>, meanwhile |-> [begun |-> {}, finished |-> {}, lost |-> {}]]
  BY DEF ReadUserRow
<1>3. [begun |-> {}, finished |-> {}, lost |-> {}] \in [Happenings -> SUBSET PlayedQuests]
  BY DEF Happenings
<1>4. stats' \in StatsRecords
  BY <1>1, <1>2, <1>3 DEF StatsRecords, UserStatsType
<1>5. /\ stats'.step = "reading" /\ stats'.read = <<>> /\ stats'.there = completion
      /\ stats'.questsDone = questsDone
      /\ Begun' = {} /\ DoneMeanwhile' = {} /\ Lost' = {}
  BY <1>2 DEF Begun, DoneMeanwhile, Lost
<1>6. /\ WereThere' = {q \in PlayedQuests : completion[q] # "none"}
      /\ WereCompleted' = In("COMPLETED")
  BY <1>5 DEF WereThere, WereCompleted, In
<1>7. \A q \in PlayedQuests : QuestTraced(q)'
  BY <1>1, <1>5, <1>6 DEF QuestTraced, In
<1>8. Len(<<>>) = 0
  OBVIOUS
<1>9. StatsInv'
  BY <1>1, <1>5, <1>6, <1>7, <1>8 DEF StatsInv
<1>10. UserStatsType' /\ In("COMPLETED")' = In("COMPLETED")
  BY <1>1, <1>4 DEF UserStatsType, In
<1> QED
  BY <1>1, <1>9, <1>10 DEF UserStatsInv

\* What the two counts of one quest amount to: S was counted as started, C as completed.
LEMMA BothCountsAgree ==
  ASSUME stats \in StatsRecords, \A q \in PlayedQuests : QuestTraced(q),
         Cardinality(WereCompleted) <= stats.questsDone,
         NEW S \in SUBSET PlayedQuests, CountedStarted(S)
  PROVE  LET C == In("COMPLETED")
         IN  /\ Cardinality(S) \in Nat /\ Cardinality(C) \in Nat
             /\ Cardinality(S) + Cardinality(C) >= Cardinality(WereThere \ Lost)
             /\ Cardinality(S) + Cardinality(C)
                  <= Cardinality(WereThere \cup Begun) + Cardinality(DoneMeanwhile)
             /\ Cardinality(C) <= stats.questsDone + Cardinality(DoneMeanwhile)
<1> DEFINE C == In("COMPLETED")
<1>1. C \in SUBSET PlayedQuests /\ \A q \in PlayedQuests : q \in C <=> completion[q] = "COMPLETED"
  BY DEF In
<1>2. /\ WereThere \ Lost \subseteq S \cup C
      /\ S \cup C \subseteq WereThere \cup Begun
      /\ S \cap C \subseteq DoneMeanwhile
      /\ C \subseteq WereCompleted \cup DoneMeanwhile
  BY <1>1, StatsSets DEF CountedStarted, QuestTraced
<1> HIDE DEF C
<1>3. /\ Cardinality(S \cup C) = Cardinality(S) + Cardinality(C) - Cardinality(S \cap C)
      /\ Cardinality(WereCompleted \cup DoneMeanwhile)
           = Cardinality(WereCompleted) + Cardinality(DoneMeanwhile)
             - Cardinality(WereCompleted \cap DoneMeanwhile)
  BY <1>1, QuestSets, StatsSets, FS_Union
<1>4. /\ WereThere \ Lost \in SUBSET PlayedQuests /\ WereThere \cup Begun \in SUBSET PlayedQuests
      /\ S \cup C \in SUBSET PlayedQuests /\ S \cap C \in SUBSET PlayedQuests
      /\ WereCompleted \cup DoneMeanwhile \in SUBSET PlayedQuests
      /\ WereCompleted \cap DoneMeanwhile \in SUBSET PlayedQuests
      /\ WereCompleted \in SUBSET PlayedQuests /\ DoneMeanwhile \in SUBSET PlayedQuests
      /\ stats.questsDone \in Nat
  BY <1>1, StatsSets
<1>5. /\ Cardinality(WereThere \ Lost) <= Cardinality(S \cup C)
      /\ Cardinality(S \cup C) <= Cardinality(WereThere \cup Begun)
      /\ Cardinality(S \cap C) <= Cardinality(DoneMeanwhile)
      /\ Cardinality(C) <= Cardinality(WereCompleted \cup DoneMeanwhile)
  BY <1>1, <1>2, <1>4, QuestSets
<1>6. /\ Cardinality(S) \in Nat /\ Cardinality(C) \in Nat
      /\ Cardinality(WereThere \ Lost) \in Nat /\ Cardinality(WereThere \cup Begun) \in Nat
      /\ Cardinality(S \cup C) \in Nat /\ Cardinality(S \cap C) \in Nat
      /\ Cardinality(WereCompleted \cup DoneMeanwhile) \in Nat
      /\ Cardinality(WereCompleted \cap DoneMeanwhile) \in Nat
      /\ Cardinality(WereCompleted) \in Nat /\ Cardinality(DoneMeanwhile) \in Nat
  BY <1>1, <1>4, QuestSets
<1>7. Cardinality(S) + Cardinality(C) >= Cardinality(WereThere \ Lost)
  BY <1>3, <1>5, <1>6
<1>8. Cardinality(S) + Cardinality(C)
        <= Cardinality(WereThere \cup Begun) + Cardinality(DoneMeanwhile)
  BY <1>3, <1>5, <1>6
<1>9. Cardinality(C) <= stats.questsDone + Cardinality(DoneMeanwhile)
  <2>1. \A a, b, c, d, e, f \in Nat : (a <= b /\ b = c + d - e /\ c <= f) => a <= f + d
    OBVIOUS
  <2> QED
    BY <1>3, <1>4, <1>5, <1>6, <2>1
<1> QED
  BY <1>6, <1>7, <1>8, <1>9 DEF C

\* What a statement counts is kept as the next of the values.
LEMMA StatementAppends ==
  ASSUME UserStatsInv, ReadStatement
  PROVE  LET n     == Len(stats.read) + 1
             count == IF n = 3 THEN ByCategory
                      ELSE IF n = 2 THEN Cardinality(In("COMPLETED"))
                      ELSE Cardinality(In("STARTED"))
         IN  /\ stats \in StatsRecords /\ StatsInv /\ stats.step = "reading" /\ n \in 1 .. 3
             /\ UNCHANGED <<completion, questsDone>>
             /\ stats' \in StatsRecords
             /\ stats'.step = (IF n = 3 THEN "answered" ELSE "reading")
             /\ Len(stats'.read) = n /\ stats'.read[n] = count
             /\ \A i \in 1 .. n - 1 : stats'.read[i] = stats.read[i]
             /\ stats'.questsDone = stats.questsDone
             /\ WereThere' = WereThere /\ WereCompleted' = WereCompleted
             /\ Begun' = Begun /\ DoneMeanwhile' = DoneMeanwhile /\ Lost' = Lost
<1> DEFINE n     == Len(stats.read) + 1
           count == IF n = 3 THEN ByCategory
                    ELSE IF n = 2 THEN Cardinality(In("COMPLETED"))
                    ELSE Cardinality(In("STARTED"))
           V     == Nat \cup [Categories -> Nat]
<1>1. /\ stats \in StatsRecords /\ StatsInv /\ stats.step = "reading"
      /\ UNCHANGED <<completion, questsDone>>
  BY DEF UserStatsInv, UserStatsType, ReadStatement
<1>2. n \in 1 .. 3
  <2>1. Len(stats.read) \in 0 .. 3 /\ (Len(stats.read) = 3 => stats.step = "answered")
    BY <1>1 DEF StatsInv
  <2>2. Len(stats.read) \in 0 .. 2
    BY <1>1, <2>1
  <2>3. \A k \in 0 .. 2 : k + 1 \in 1 .. 3
    OBVIOUS
  <2> QED
    BY <2>2, <2>3
<1>3. count \in V
  <2>1. Cardinality(In("COMPLETED")) \in Nat /\ Cardinality(In("STARTED")) \in Nat
    BY QuestSets DEF In
  <2>2. ByCategory \in [Categories -> Nat]
    BY QuestSets DEF In, ByCategory
  <2> QED
    BY <2>1, <2>2
<1>4. count = IF Statements[n] = "byCategory" THEN ByCategory ELSE Cardinality(In(Statements[n]))
  <2>1. n = 1 \/ n = 2 \/ n = 3
    BY <1>2
  <2>2. Statements[1] = "STARTED" /\ Statements[2] = "COMPLETED" /\ Statements[3] = "byCategory"
    BY DEF Statements
  <2> HIDE DEF n
  <2> QED
    BY <2>1, <2>2
<1>5. Len(Statements) = 3
  BY DEF Statements
<1>6. stats' = [stats EXCEPT !.read = Append(stats.read, count),
                  !.step = IF n = 3 THEN "answered" ELSE stats.step]
  <2>1. stats' = [stats EXCEPT !.read = Append(stats.read,
                      IF Statements[n] = "byCategory" THEN ByCategory
                      ELSE Cardinality(In(Statements[n]))),
                    !.step = IF n = Len(Statements) THEN "answered" ELSE stats.step]
    BY DEF ReadStatement
  <2> QED
    BY <1>4, <1>5, <2>1
<1> HIDE DEF count, V
<1>7. /\ stats.read \in Seq(V) /\ Append(stats.read, count) \in Seq(V)
      /\ Len(Append(stats.read, count)) = n /\ Append(stats.read, count)[n] = count
      /\ \A i \in 1 .. n - 1 : Append(stats.read, count)[i] = stats.read[i]
  <2>1. stats.read \in Seq(V)
    BY <1>1 DEF StatsRecords, V
  <2> QED
    BY <1>3, <2>1
<1> HIDE DEF n
<1>8. /\ stats' \in StatsRecords /\ stats'.read = Append(stats.read, count)
      /\ stats'.step = (IF n = 3 THEN "answered" ELSE "reading")
      /\ stats'.questsDone = stats.questsDone /\ stats'.there = stats.there
      /\ stats'.meanwhile = stats.meanwhile
  BY <1>1, <1>6, <1>7 DEF StatsRecords, V
<1>9. /\ WereThere' = WereThere /\ WereCompleted' = WereCompleted
      /\ Begun' = Begun /\ DoneMeanwhile' = DoneMeanwhile /\ Lost' = Lost
  BY <1>8 DEF WereThere, WereCompleted, Begun, DoneMeanwhile, Lost
<1> QED
  BY <1>1, <1>2, <1>7, <1>8, <1>9 DEF n, count

\* Each further statement counts the completions of one status at its own moment.
LEMMA StatementKeeps ==
  ASSUME UserStatsInv, ReadStatement
  PROVE  UserStatsInv'
<1> DEFINE n == Len(stats.read) + 1
<1>1. /\ stats \in StatsRecords /\ StatsInv /\ stats.step = "reading" /\ n \in 1 .. 3
      /\ UNCHANGED <<completion, questsDone>> /\ UserStatsType
      /\ Cardinality(In("COMPLETED")) <= questsDone
  BY StatementAppends DEF UserStatsInv
<1>2. /\ stats' \in StatsRecords
      /\ stats'.step = (IF n = 3 THEN "answered" ELSE "reading")
      /\ Len(stats'.read) = n
      /\ \A i \in 1 .. n - 1 : stats'.read[i] = stats.read[i]
      /\ stats'.questsDone = stats.questsDone
      /\ WereThere' = WereThere /\ WereCompleted' = WereCompleted
      /\ Begun' = Begun /\ DoneMeanwhile' = DoneMeanwhile /\ Lost' = Lost
  BY StatementAppends
<1>3. /\ n = 1 => stats'.read[1] = Cardinality(In("STARTED"))
      /\ n = 2 => stats'.read[2] = Cardinality(In("COMPLETED"))
      /\ n = 3 => stats'.read[3] = ByCategory
  BY <1>1, StatementAppends
<1> HIDE DEF n
<1>4. UserStatsType' /\ In("COMPLETED")' = In("COMPLETED")
  BY <1>1, <1>2 DEF UserStatsType, In
<1>5. /\ Cardinality(WereCompleted) <= stats.questsDone
      /\ \A q \in PlayedQuests : QuestTraced(q)
  BY <1>1 DEF StatsInv
<1>6. \A q \in PlayedQuests : QuestTraced(q)'
  BY <1>1, <1>2, <1>5 DEF QuestTraced
<1>7. CASE n = 1
  <2>1. CountedStarted(In("STARTED"))'
    <3>1. /\ completion \in [PlayedQuests -> PlayStatuses]
          /\ WereThere \subseteq PlayedQuests
      BY <1>1, StatsSets DEF UserStatsType
    <3>2. CountedStarted(In("STARTED"))
      BY <1>5, <3>1 DEF CountedStarted, QuestTraced, In, PlayStatuses
    <3>3. In("STARTED")' = In("STARTED")
      BY <1>1 DEF In
    <3> QED
      BY <1>1, <1>2, <3>2, <3>3 DEF CountedStarted
  <2>2. In("STARTED")' = In("STARTED") /\ In("STARTED") \in SUBSET PlayedQuests
    BY <1>1 DEF In
  <2>3. StatsInv'
    BY <1>2, <1>3, <1>5, <1>6, <1>7, <2>1, <2>2 DEF StatsInv
  <2> QED
    BY <1>1, <1>4, <2>3 DEF UserStatsInv
<1>8. CASE n = 2
  <2>1. PICK S \in SUBSET PlayedQuests : stats.read[1] = Cardinality(S) /\ CountedStarted(S)
    <3>1. Len(stats.read) = 1
      <4>1. Len(stats.read) \in 0 .. 3
        BY <1>1 DEF StatsInv
      <4>2. \A k \in 0 .. 3 : k + 1 = 2 => k = 1
        OBVIOUS
      <4> QED
        BY <1>8, <4>1, <4>2 DEF n
    <3> QED
      BY <1>1, <3>1 DEF StatsInv
  <2>2. stats'.read[1] = Cardinality(S) /\ stats'.read[2] = Cardinality(In("COMPLETED"))
    BY <1>2, <1>3, <1>8, <2>1
  <2>3. /\ Cardinality(S) \in Nat /\ Cardinality(In("COMPLETED")) \in Nat
        /\ Cardinality(S) + Cardinality(In("COMPLETED")) >= Cardinality(WereThere \ Lost)
        /\ Cardinality(S) + Cardinality(In("COMPLETED"))
             <= Cardinality(WereThere \cup Begun) + Cardinality(DoneMeanwhile)
        /\ Cardinality(In("COMPLETED")) <= stats.questsDone + Cardinality(DoneMeanwhile)
    BY <1>1, <1>5, <2>1, BothCountsAgree
  <2>4. BothCounted'
    BY <1>2, <2>2, <2>3 DEF BothCounted
  <2>5. StatsInv'
    BY <1>2, <1>5, <1>6, <1>8, <2>4 DEF StatsInv
  <2> QED
    BY <1>1, <1>4, <2>5 DEF UserStatsInv
<1>9. CASE n = 3
  <2>1. BothCounted
    <3>1. Len(stats.read) >= 2
      BY <1>1, <1>9 DEF n, StatsInv
    <3> QED
      BY <1>1, <3>1 DEF StatsInv
  <2>2. BothCounted'
    <3>1. stats'.read[1] = stats.read[1] /\ stats'.read[2] = stats.read[2]
      BY <1>2, <1>9
    <3> QED
      BY <1>2, <2>1, <3>1 DEF BothCounted
  <2>3. ASSUME NEW c \in Categories
        PROVE  /\ ByCategory[c] \in Nat
               /\ ByCategory[c] >= Cardinality({q \in WereCompleted : CategoryOf[q] = c} \ Lost)
    <3> DEFINE now    == {q \in In("COMPLETED") : CategoryOf[q] = c}
               before == {q \in WereCompleted : CategoryOf[q] = c} \ Lost
    <3>1. ByCategory[c] = Cardinality(now)
      BY DEF ByCategory
    <3>2. now \in SUBSET PlayedQuests /\ before \in SUBSET PlayedQuests /\ before \subseteq now
      BY <1>1, <1>5, StatsSets DEF In, QuestTraced
    <3> HIDE DEF now, before
    <3>3. Cardinality(before) <= Cardinality(now)
          /\ Cardinality(now) \in Nat /\ Cardinality(before) \in Nat
      BY <3>2, QuestSets
    <3> QED
      BY <3>1, <3>3 DEF before
  <2>4. CategoriesCounted'
    BY <1>2, <1>3, <1>9, <2>3 DEF CategoriesCounted
  <2>5. StatsInv'
    BY <1>2, <1>5, <1>6, <1>9, <2>2, <2>4 DEF StatsInv
  <2> QED
    BY <1>1, <1>4, <2>5 DEF UserStatsInv
<1> QED
  BY <1>1, <1>7, <1>8, <1>9

\* The steps of the user's statistics keep UserStatsInv.
LEMMA UserStatsGoesOn ==
  UserStatsInv /\ [UserStatsNext]_userStatsVars => UserStatsInv'
<1> SUFFICES ASSUME UserStatsInv, [UserStatsNext]_userStatsVars
             PROVE  UserStatsInv'
  OBVIOUS
<1>1. CASE StartCompletion \/ RestartCompletion \/ FinishCompletion \/ DeletePlayedQuest
  BY <1>1, PlayerMoves, PlayerKeeps DEF UserStatsInv
<1>2. CASE UNCHANGED userStatsVars
  BY <1>2 DEF userStatsVars, UserStatsInv, UserStatsType, StatsInv, QuestTraced, CountedStarted,
              BothCounted, CategoriesCounted, WereThere, WereCompleted, Begun, DoneMeanwhile,
              Lost, In
<1> QED
  BY <1>1, <1>2, UserRowRead, StatementKeeps DEF UserStatsNext

\* Once all is counted, StatsInv says what the counts amount to.
LEMMA UserStatsFollows ==
  UserStatsInv => StatsCountAll
<1> SUFFICES ASSUME UserStatsInv, stats.step = "answered"
             PROVE  StatsCountAll
  BY DEF StatsCountAll
<1>1. stats \in StatsRecords /\ StatsInv
  BY DEF UserStatsInv, UserStatsType
<1>2. BothCounted /\ CategoriesCounted
  BY <1>1 DEF StatsInv
<1>3. /\ Result("STARTED") = stats.read[1] /\ Result("COMPLETED") = stats.read[2]
      /\ Result("byCategory") = stats.read[3]
  <2>1. /\ DOMAIN Statements = 1 .. 3
        /\ Statements[1] = "STARTED" /\ Statements[2] = "COMPLETED" /\ Statements[3] = "byCategory"
    BY DEF Statements
  <2>2. /\ (CHOOSE n \in DOMAIN Statements : Statements[n] = "STARTED") = 1
        /\ (CHOOSE n \in DOMAIN Statements : Statements[n] = "COMPLETED") = 2
        /\ (CHOOSE n \in DOMAIN Statements : Statements[n] = "byCategory") = 3
    BY <2>1
  <2> QED
    BY <2>2 DEF Result
<1>4. \A c \in Categories :
        stats.read[3][c]
          >= Cardinality({q \in PlayedQuests : stats.there[q] = "COMPLETED" /\ CategoryOf[q] = c} \ Lost)
  <2> SUFFICES ASSUME NEW c \in Categories
               PROVE  stats.read[3][c]
                        >= Cardinality({q \in PlayedQuests : stats.there[q] = "COMPLETED"
                                                             /\ CategoryOf[q] = c} \ Lost)
    OBVIOUS
  <2>1. {q \in PlayedQuests : stats.there[q] = "COMPLETED" /\ CategoryOf[q] = c}
          = {q \in WereCompleted : CategoryOf[q] = c}
    BY DEF WereCompleted
  <2> QED
    BY <1>2, <2>1 DEF CategoriesCounted
<1> QED
  BY <1>2, <1>3, <1>4 DEF StatsCountAll, BothCounted, WereThere, Begun, DoneMeanwhile, Lost

-----------------------------------------------------------------------------
(* The quests nearby.                                                      *)

Searches ==
  [step: {"listed", "mapped"}, center: Spots, radius: Radii, filtered: BOOLEAN,
   asked: SUBSET MapQuests, inBox: Nat, kinds: SUBSET Kinds,
   pins: SUBSET [kind: Kinds, refId: MapQuests \cup Spots, at: Spots, distance: Nat],
   listed: SUBSET MapQuests]

\* The quests asked for that have a location within the radius, and those with one in the
\* box.
NearQuests == {q \in search.asked : \E s \in places[q] : InCircle(s)}

BoxedQuests == {q \in search.asked : \E s \in places[q] : InSearchBox(s)}

ListedNear ==
  /\ search.listed \subseteq NearQuests \cap BoxedQuests
  /\ Cardinality((NearQuests \cap BoxedQuests) \ search.listed)
       <= Max({0, search.inBox - BOX_LIMIT})

QuestPins   == {pin \in search.pins : pin.kind = "QUEST"}
ClosePins   == {pin \in QuestPins : pin.distance <= search.radius}
CloseQuests == {pin.refId : pin \in ClosePins}

MapAgrees ==
  ("QUEST" \in search.kinds /\ Cardinality(QuestPins) < PIN_LIMIT) =>
    /\ search.listed \cap onMap \subseteq {pin.refId : pin \in QuestPins}
    /\ \A q \in search.listed \cap onMap :
         (\E s \in places[q] : InCircle(s) /\ InSearchBox(s)) => q \in CloseQuests
    /\ Max({0, search.inBox - BOX_LIMIT}) = 0 => search.asked \cap CloseQuests \subseteq search.listed

NearbyInv ==
  /\ places \in [MapQuests -> SUBSET Spots]
  /\ onMap \in SUBSET MapQuests
  /\ \A q \in onMap : places[q] # {}
  /\ search = NoSearch \/ search \in Searches
  /\ search.step # "idle" =>
       /\ \A q \in search.asked : places[q] # {} /\ (search.filtered => q \in Hard)
       /\ ListedNear
  /\ search.step = "mapped" => MapAgrees

\* A limited read takes all that is found or as many as the limit.
LEMMA TakeShape ==
  ASSUME NEW found, IsFiniteSet(found), NEW limit \in Nat, NEW taken \in Take(limit, found)
  PROVE  /\ taken \subseteq found /\ IsFiniteSet(taken)
         /\ Cardinality(found) \in Nat
         /\ Cardinality(taken) = IF limit <= Cardinality(found) THEN limit ELSE Cardinality(found)
<1>1. Cardinality(found) \in Nat
  BY FS_CardinalityType
<1>2. taken \in SUBSET found /\ Cardinality(taken) = Min({limit, Cardinality(found)})
  BY DEF Take, kSubset
<1> QED
  BY <1>1, <1>2, MinOfTwo, FS_Subset

\* The nearest location is within the radius just when one is.
LEMMA NearestWithin ==
  ASSUME places \in [MapQuests -> SUBSET Spots], NEW q \in MapQuests, places[q] # {},
         NEW center \in Spots, NEW radius \in Nat
  PROVE  Nearest(q, center) <= radius <=> \E s \in places[q] : Haversine[center][s] <= radius
<1> DEFINE D == {Haversine[center][s] : s \in places[q]}
<1>1. D \in SUBSET Nat /\ D # {}
  BY NearbyAssumption
<1>2. Min(D) \in D /\ \A x \in D : Min(D) <= x
  <2> HIDE DEF D
  <2> QED
    BY <1>1, MinOfNats
<1>3. Nearest(q, center) = Min(D)
  BY DEF Nearest
<1>4. ASSUME NEW s \in places[q], Haversine[center][s] <= radius
      PROVE  Min(D) <= radius
  <2>1. Haversine[center][s] \in D
    OBVIOUS
  <2>2. Min(D) \in Nat /\ Haversine[center][s] \in Nat /\ Min(D) <= Haversine[center][s]
    BY <1>1, <1>2, <2>1
  <2> QED
    BY <1>4, <2>2
<1> QED
  BY <1>2, <1>3, <1>4

\* Nothing is listed before the first search.
LEMMA NearbyStarts ==
  NearbyInit => NearbyInv
BY DEF NearbyInit, NearbyInv, NoSearch

\* Before the map is opened, quests may be created, published and withdrawn.
LEMMA NearbyPlayed ==
  ASSUME NearbyInv, CreateOnMap \/ PublishOnMap \/ WithdrawFromMap
  PROVE  NearbyInv'
<1>1. CASE CreateOnMap
  <2>1. PICK q \in MapQuests, spots \in kSubset(1, Spots) \cup kSubset(2, Spots) :
          places[q] = {} /\ places' = [places EXCEPT ![q] = spots]
    BY <1>1 DEF CreateOnMap
  <2>2. spots \in SUBSET Spots
    BY DEF kSubset
  <2>3. search' = NoSearch /\ onMap' = onMap
    BY <1>1 DEF CreateOnMap
  <2>4. search'.step = "idle"
    BY <2>3 DEF NoSearch
  <2>5. /\ places \in [MapQuests -> SUBSET Spots] /\ onMap \in SUBSET MapQuests
        /\ \A r \in onMap : places[r] # {}
    BY DEF NearbyInv
  <2>6. /\ places' \in [MapQuests -> SUBSET Spots]
        /\ \A r \in onMap' : places'[r] # {}
    BY <2>1, <2>2, <2>3, <2>5
  <2> QED
    BY <2>3, <2>4, <2>5, <2>6 DEF NearbyInv
<1>2. CASE PublishOnMap \/ WithdrawFromMap
  <2>1. /\ places' = places /\ search' = search /\ search.step # "mapped"
        /\ onMap' \in SUBSET MapQuests
        /\ \A r \in onMap' : places[r] # {}
    BY <1>2 DEF PublishOnMap, WithdrawFromMap, NearbyInv
  <2> QED
    BY <2>1 DEF NearbyInv, ListedNear, NearQuests, BoxedQuests, InCircle, InSearchBox
<1> QED
  BY <1>1, <1>2

\* listNearby loses of the near quests in the box no more than the limit of the box cuts off.
LEMMA NearbyLists ==
  ASSUME NearbyInv, ListNearby
  PROVE  NearbyInv'
<1>1. PICK center \in Spots, radius \in Radii, filtered \in BOOLEAN :
        \E candidates \in Take(BOX_LIMIT,
             WithinBoundingBox(filtered, BoundingBox(center, radius))) :
          search' = [step |-> "listed", center |-> center, radius |-> radius,
            filtered |-> filtered, asked |-> Asked(filtered),
            inBox |-> Cardinality(WithinBoundingBox(filtered, BoundingBox(center, radius))),
            kinds |-> {}, pins |-> {},
            listed |-> {q \in candidates : Nearest(q, center) <= radius}]
  BY DEF ListNearby
<1> DEFINE inBox == WithinBoundingBox(filtered, BoundingBox(center, radius))
<1>2. PICK candidates \in Take(BOX_LIMIT, inBox) :
        search' = [step |-> "listed", center |-> center, radius |-> radius,
          filtered |-> filtered, asked |-> Asked(filtered),
          inBox |-> Cardinality(inBox), kinds |-> {}, pins |-> {},
          listed |-> {q \in candidates : Nearest(q, center) <= radius}]
  BY <1>1
<1>3. /\ places \in [MapQuests -> SUBSET Spots] /\ onMap \in SUBSET MapQuests
      /\ \A q \in onMap : places[q] # {}
      /\ places' = places /\ onMap' = onMap
  BY DEF NearbyInv, ListNearby
<1>4. /\ Asked(filtered) \in SUBSET MapQuests
      /\ \A q \in Asked(filtered) : places[q] # {} /\ (filtered => q \in Hard)
  BY <1>3 DEF Asked
<1>5. inBox \subseteq Asked(filtered)
  BY DEF WithinBoundingBox
<1>6. IsFiniteSet(inBox)
  <2>1. inBox \in SUBSET MapQuests
    BY <1>4, <1>5
  <2> HIDE DEF inBox
  <2> QED
    BY <2>1, NearbyAssumption, FS_Subset
<1> DEFINE near   == {q \in inBox : Nearest(q, center) <= radius}
           listed == {q \in candidates : Nearest(q, center) <= radius}
<1>7. radius \in Nat
  BY NearbyAssumption
<1>8. near = {q \in Asked(filtered) : \E s \in places[q] : Haversine[center][s] <= radius}
             \cap {q \in Asked(filtered) : \E s \in places[q] : InBox(s, BoundingBox(center, radius))}
  <2>1. \A q \in Asked(filtered) :
          Nearest(q, center) <= radius <=> \E s \in places[q] : Haversine[center][s] <= radius
    BY <1>3, <1>4, <1>7, NearestWithin
  <2> QED
    BY <2>1 DEF WithinBoundingBox
<1> HIDE DEF inBox
<1>9. /\ candidates \subseteq inBox /\ IsFiniteSet(candidates) /\ Cardinality(inBox) \in Nat
      /\ Cardinality(candidates)
           = IF BOX_LIMIT <= Cardinality(inBox) THEN BOX_LIMIT ELSE Cardinality(inBox)
  BY <1>6, NearbyAssumption, TakeShape
<1>10. listed \subseteq near
  BY <1>9
<1>11. Cardinality(near \ listed) <= Max({0, Cardinality(inBox) - BOX_LIMIT})
  <2>1. near \ listed \subseteq inBox \ candidates
    OBVIOUS
  <2>2. /\ IsFiniteSet(inBox \ candidates)
        /\ Cardinality(inBox \ candidates)
             = Cardinality(inBox) - Cardinality(inBox \cap candidates)
    BY <1>6, FS_Difference
  <2>3. inBox \cap candidates = candidates
    BY <1>9
  <2> HIDE DEF near, listed
  <2>4. Cardinality(near \ listed) <= Cardinality(inBox \ candidates)
        /\ Cardinality(near \ listed) \in Nat /\ Cardinality(inBox \ candidates) \in Nat
    BY <2>1, <2>2, FS_Subset, FS_CardinalityType
  <2>5. Max({0, Cardinality(inBox) - BOX_LIMIT})
          = IF 0 >= Cardinality(inBox) - BOX_LIMIT THEN 0 ELSE Cardinality(inBox) - BOX_LIMIT
    BY <1>9, NearbyAssumption, MaxOfTwo
  <2>6. \A n, m, l \in Nat :
          n <= m - (IF l <= m THEN l ELSE m) => n <= (IF 0 >= m - l THEN 0 ELSE m - l)
    OBVIOUS
  <2>7. BOX_LIMIT \in Nat
    BY NearbyAssumption
  <2>8. Cardinality(near \ listed)
          <= Cardinality(inBox) - (IF BOX_LIMIT <= Cardinality(inBox) THEN BOX_LIMIT
                                   ELSE Cardinality(inBox))
    BY <1>9, <2>2, <2>3, <2>4
  <2> QED
    BY <1>9, <2>4, <2>5, <2>6, <2>7, <2>8
<1> HIDE DEF near, listed
<1>12. search' = [step |-> "listed", center |-> center, radius |-> radius,
          filtered |-> filtered, asked |-> Asked(filtered),
          inBox |-> Cardinality(inBox), kinds |-> {}, pins |-> {}, listed |-> listed]
  BY <1>2 DEF listed
<1>13. listed \in SUBSET MapQuests
  BY <1>4, <1>5, <1>10 DEF near
<1>14. search' \in Searches
  BY <1>4, <1>9, <1>12, <1>13 DEF Searches
<1>15. /\ search'.step = "listed" /\ search'.center = center /\ search'.radius = radius
       /\ search'.filtered = filtered /\ search'.asked = Asked(filtered)
       /\ search'.inBox = Cardinality(inBox) /\ search'.listed = listed
  BY <1>12
<1>16. NearQuests' \cap BoxedQuests' = near
  BY <1>3, <1>8, <1>15 DEF NearQuests, BoxedQuests, InCircle, InSearchBox
<1>17. ListedNear'
  BY <1>10, <1>11, <1>15, <1>16 DEF ListedNear
<1> QED
  BY <1>3, <1>4, <1>14, <1>15, <1>17 DEF NearbyInv

\* A pin for each of the rows.
LEMMA PinsOfRows ==
  ASSUME NEW found \in SUBSET (MapQuests \X Spots), NEW kind, IsFiniteSet(found)
  PROVE  IsFiniteSet(Pins(kind, found)) /\ Cardinality(found) <= Cardinality(Pins(kind, found))
<1> DEFINE pin(x) == [kind |-> kind, refId |-> x[1], at |-> x[2],
                      distance |-> Haversine[search.center][x[2]]]
           f == [x \in found |-> pin(x)]
<1>1. Pins(kind, found) = {pin(x) : x \in found}
  BY DEF Pins
<1>2. f \in Surjection(found, Pins(kind, found))
  BY <1>1 DEF Surjection
<1>3. \A x, y \in found : pin(x) = pin(y) => x = y
  <2> SUFFICES ASSUME NEW x \in found, NEW y \in found, pin(x) = pin(y)
               PROVE  x = y
    OBVIOUS
  <2>1. pin(x).refId = x[1] /\ pin(x).at = x[2] /\ pin(y).refId = y[1] /\ pin(y).at = y[2]
    OBVIOUS
  <2>2. x[1] = y[1] /\ x[2] = y[2]
    BY <2>1
  <2> QED
    BY <2>2
<1> HIDE DEF pin
<1>4. f \in Injection(found, Pins(kind, found))
  BY <1>2, <1>3 DEF Injection, Surjection, IsInjective
<1> HIDE DEF f
<1>5. IsFiniteSet(Pins(kind, found))
  BY <1>2, FS_Surjection
<1> QED
  BY <1>4, <1>5, FS_Injection

\* getPinsInBounds shows the close quests, unless its limit cuts pins off.
LEMMA NearbyMaps ==
  ASSUME NearbyInv, GetPinsInBounds
  PROVE  NearbyInv'
<1> DEFINE bounds  == BoundingBox(search.center, search.radius)
           quests  == {x \in Asked(search.filtered) \X Spots :
                         x[2] \in places[x[1]] /\ InBox(x[2], bounds)}
           businesses == {<<s, s>> : s \in {t \in VerifiedSpots : InBox(t, bounds)}}
<1>1. PICK asked \in SUBSET Kinds :
        \E questRows \in (IF "QUEST" \in ParseKinds(asked) THEN Take(PIN_LIMIT, quests) ELSE {{}}),
           businessRows \in (IF "BUSINESS" \in ParseKinds(asked) /\ ~ search.filtered
                             THEN Take(PIN_LIMIT, businesses) ELSE {{}}) :
          search' = [search EXCEPT !.step = "mapped", !.kinds = ParseKinds(asked),
            !.pins = Pins("QUEST", questRows) \cup Pins("BUSINESS", businessRows)]
  BY DEF GetPinsInBounds
<1> DEFINE kinds == ParseKinds(asked)
<1>1a. PICK questRows \in (IF "QUEST" \in kinds THEN Take(PIN_LIMIT, quests) ELSE {{}}),
           businessRows \in (IF "BUSINESS" \in kinds /\ ~ search.filtered
                             THEN Take(PIN_LIMIT, businesses) ELSE {{}}) :
        search' = [search EXCEPT !.step = "mapped", !.kinds = kinds,
          !.pins = Pins("QUEST", questRows) \cup Pins("BUSINESS", businessRows)]
  BY <1>1
<1> DEFINE pins  == Pins("QUEST", questRows) \cup Pins("BUSINESS", businessRows)
<1>2. /\ places \in [MapQuests -> SUBSET Spots] /\ onMap \in SUBSET MapQuests
      /\ \A q \in onMap : places[q] # {}
      /\ places' = places /\ onMap' = onMap /\ search.step = "listed"
  BY DEF NearbyInv, GetPinsInBounds
<1>3. /\ search \in Searches /\ ListedNear
      /\ \A q \in search.asked : places[q] # {} /\ (search.filtered => q \in Hard)
  BY <1>2 DEF NearbyInv, NoSearch
<1>4. /\ search.center \in Spots /\ search.radius \in Radii /\ search.filtered \in BOOLEAN
      /\ search.asked \in SUBSET MapQuests /\ search.radius \in Nat
  <2>1. /\ search.center \in Spots /\ search.radius \in Radii /\ search.filtered \in BOOLEAN
        /\ search.asked \in SUBSET MapQuests
    BY <1>3 DEF Searches
  <2>2. search.radius \in Nat
    BY <2>1, NearbyAssumption
  <2> QED
    BY <2>1, <2>2
<1>5. /\ Asked(search.filtered) \in SUBSET MapQuests
      /\ \A q \in search.asked \cap onMap : q \in Asked(search.filtered)
      /\ Asked(search.filtered) \subseteq onMap
  BY <1>2, <1>3 DEF Asked
<1>6. kinds \in SUBSET Kinds
  BY DEF ParseKinds
<1>7. quests \in SUBSET (MapQuests \X Spots) /\ IsFiniteSet(quests)
  <2>1. quests \in SUBSET (MapQuests \X Spots)
    BY <1>5
  <2>2. IsFiniteSet(MapQuests \X Spots)
    BY NearbyAssumption, FS_Product
  <2> HIDE DEF quests
  <2> QED
    BY <2>1, <2>2, FS_Subset
<1>8. businesses \in SUBSET (Spots \X Spots) /\ businessRows \in SUBSET (Spots \X Spots)
  <2>1. businesses \in SUBSET (Spots \X Spots)
    BY NearbyAssumption
  <2> HIDE DEF businesses
  <2>2. businessRows \subseteq businesses
    BY DEF Take, kSubset
  <2> QED
    BY <2>1, <2>2
<1>9. /\ questRows \in SUBSET quests /\ IsFiniteSet(questRows)
      /\ ("QUEST" \in kinds /\ Cardinality(questRows) < PIN_LIMIT) => questRows = quests
  <2> HIDE DEF quests
  <2>1. CASE "QUEST" \in kinds
    <3>1. PIN_LIMIT \in Nat
      BY NearbyAssumption
    <3>2. /\ questRows \subseteq quests /\ IsFiniteSet(questRows) /\ Cardinality(quests) \in Nat
          /\ Cardinality(questRows)
               = IF PIN_LIMIT <= Cardinality(quests) THEN PIN_LIMIT ELSE Cardinality(quests)
      BY <1>7, <2>1, <3>1, TakeShape
    <3>3. Cardinality(questRows) < PIN_LIMIT => Cardinality(questRows) = Cardinality(quests)
      BY <3>1, <3>2
    <3> QED
      BY <1>7, <3>2, <3>3, FS_Subset
  <2>2. CASE "QUEST" \notin kinds
    BY <2>2, FS_EmptySet
  <2> QED
    BY <2>1, <2>2
<1> HIDE DEF quests, businesses, kinds
<1>10. questRows \in SUBSET (MapQuests \X Spots)
  BY <1>7, <1>9
<1>11. \A a, b \in Spots : Haversine[a][b] \in Nat
  BY NearbyAssumption
<1>12. pins \in SUBSET [kind: Kinds, refId: MapQuests \cup Spots, at: Spots, distance: Nat]
  BY <1>4, <1>8, <1>10, <1>11 DEF Pins, Kinds
<1>13. search' = [search EXCEPT !.step = "mapped", !.kinds = kinds, !.pins = pins]
  BY <1>1a
<1>14. {pin \in pins : pin.kind = "QUEST"} = Pins("QUEST", questRows)
  BY DEF Pins
<1> HIDE DEF pins
<1>15. /\ search' \in Searches /\ search'.step = "mapped"
       /\ search'.kinds = kinds /\ search'.pins = pins
       /\ search'.center = search.center /\ search'.radius = search.radius
       /\ search'.asked = search.asked /\ search'.inBox = search.inBox
       /\ search'.listed = search.listed /\ search'.filtered = search.filtered
  BY <1>3, <1>6, <1>12, <1>13 DEF Searches
<1>16. NearQuests' = NearQuests /\ BoxedQuests' = BoxedQuests
  BY <1>2, <1>15 DEF NearQuests, BoxedQuests, InCircle, InSearchBox
<1>17. ListedNear'
  BY <1>3, <1>15, <1>16 DEF ListedNear
<1>18. QuestPins' = Pins("QUEST", questRows)
  BY <1>14, <1>15 DEF QuestPins
<1>19. ASSUME NEW q \in MapQuests
       PROVE  /\ q \in {pin.refId : pin \in QuestPins'} <=> \E x \in questRows : x[1] = q
              /\ q \in CloseQuests' <=>
                   \E x \in questRows : x[1] = q /\ Haversine[search.center][x[2]] <= search.radius
  <2> DEFINE pin(x) == [kind |-> "QUEST", refId |-> x[1], at |-> x[2],
                        distance |-> Haversine[search.center][x[2]]]
  <2>1. QuestPins' = {pin(x) : x \in questRows}
    BY <1>18 DEF Pins
  <2>2. \A x : pin(x).refId = x[1] /\ pin(x).distance = Haversine[search.center][x[2]]
    OBVIOUS
  <2> HIDE DEF pin
  <2>3. CloseQuests' = {p.refId : p \in {d \in QuestPins' : d.distance <= search.radius}}
    BY <1>15 DEF CloseQuests, ClosePins
  <2> QED
    BY <2>1, <2>2, <2>3
<1>20. ASSUME "QUEST" \in kinds, Cardinality(QuestPins') < PIN_LIMIT
       PROVE  questRows = quests
  <2>1. Cardinality(questRows) <= Cardinality(QuestPins')
        /\ Cardinality(questRows) \in Nat /\ Cardinality(QuestPins') \in Nat
    BY <1>9, <1>10, <1>18, PinsOfRows, FS_CardinalityType
  <2>2. PIN_LIMIT \in Nat
    BY NearbyAssumption
  <2>3. Cardinality(questRows) < PIN_LIMIT
    BY <1>20, <2>1, <2>2
  <2> QED
    BY <1>9, <1>20, <2>3
<1>21. \A q \in MapQuests, s \in Spots :
         <<q, s>> \in quests <=> q \in Asked(search.filtered) /\ s \in places[q] /\ InSearchBox(s)
  BY DEF quests, InSearchBox
<1>22. ASSUME "QUEST" \in kinds, Cardinality(QuestPins') < PIN_LIMIT,
              NEW q \in search.listed \cap onMap
       PROVE  /\ q \in {pin.refId : pin \in QuestPins'}
              /\ (\E s \in places[q] : InCircle(s) /\ InSearchBox(s)) => q \in CloseQuests'
  <2>1. /\ q \in MapQuests /\ q \in Asked(search.filtered)
        /\ \E s \in places[q] : InSearchBox(s)
        /\ \A s \in places[q] : s \in Spots
    BY <1>2, <1>3, <1>4, <1>5, <1>22 DEF ListedNear, BoxedQuests
  <2>2. \A s \in places[q] : InSearchBox(s) => <<q, s>> \in questRows
    BY <1>20, <1>21, <1>22, <2>1
  <2>3. \A s : <<q, s>>[1] = q /\ <<q, s>>[2] = s
    OBVIOUS
  <2>4. q \in {pin.refId : pin \in QuestPins'}
    <3>1. PICK s \in places[q] : InSearchBox(s)
      BY <2>1
    <3>2. <<q, s>> \in questRows /\ <<q, s>>[1] = q
      BY <2>2, <2>3, <3>1
    <3>3. \E x \in questRows : x[1] = q
      BY <3>2
    <3> QED
      BY <1>19, <2>1, <3>3
  <2>5. (\E s \in places[q] : InCircle(s) /\ InSearchBox(s)) => q \in CloseQuests'
    BY <1>19, <2>1, <2>2, <2>3 DEF InCircle
  <2> QED
    BY <2>4, <2>5
<1>23. ASSUME "QUEST" \in kinds, Cardinality(QuestPins') < PIN_LIMIT,
              Max({0, search.inBox - BOX_LIMIT}) = 0
       PROVE  search.asked \cap CloseQuests' \subseteq search.listed
  <2>1. search.asked \cap CloseQuests' \subseteq NearQuests \cap BoxedQuests
    <3> SUFFICES ASSUME NEW q \in search.asked, q \in CloseQuests'
                 PROVE  q \in NearQuests \cap BoxedQuests
      OBVIOUS
    <3>1. q \in MapQuests
      BY <1>4
    <3>2. PICK x \in questRows : x[1] = q /\ Haversine[search.center][x[2]] <= search.radius
      BY <1>19, <3>1
    <3>3. x[2] \in places[q] /\ InSearchBox(x[2])
      BY <1>20, <1>23, <3>2 DEF quests, InSearchBox
    <3> QED
      BY <3>2, <3>3 DEF NearQuests, BoxedQuests, InCircle
  <2>2. IsFiniteSet((NearQuests \cap BoxedQuests) \ search.listed)
    <3>1. (NearQuests \cap BoxedQuests) \ search.listed \in SUBSET MapQuests
      BY <1>4 DEF NearQuests
    <3> QED
      BY <3>1, NearbyAssumption, FS_Subset
  <2>3. /\ Cardinality((NearQuests \cap BoxedQuests) \ search.listed)
             <= Max({0, search.inBox - BOX_LIMIT})
        /\ Cardinality((NearQuests \cap BoxedQuests) \ search.listed) \in Nat
    BY <1>3, <2>2, FS_CardinalityType DEF ListedNear
  <2>4. Cardinality((NearQuests \cap BoxedQuests) \ search.listed) = 0
    BY <1>23, <2>3
  <2>5. (NearQuests \cap BoxedQuests) \ search.listed = {}
    BY <2>2, <2>4, FS_EmptySet
  <2> QED
    BY <2>1, <2>5
<1>24. MapAgrees'
  BY <1>2, <1>15, <1>16, <1>22, <1>23 DEF MapAgrees, InCircle, InSearchBox
<1> QED
  BY <1>2, <1>3, <1>15, <1>17, <1>24 DEF NearbyInv

\* The steps of the list and the map keep NearbyInv.
LEMMA NearbyGoesOn ==
  NearbyInv /\ [NearbyNext]_nearbyVars => NearbyInv'
<1> SUFFICES ASSUME NearbyInv, [NearbyNext]_nearbyVars
             PROVE  NearbyInv'
  OBVIOUS
<1>1. CASE UNCHANGED nearbyVars
  BY <1>1 DEF nearbyVars, NearbyInv, ListedNear, NearQuests, BoxedQuests, InCircle,
              InSearchBox, MapAgrees, QuestPins, ClosePins, CloseQuests
<1> QED
  BY <1>1, NearbyPlayed, NearbyLists, NearbyMaps DEF NearbyNext

\* The list holds those nearby, and the map agrees with it.
LEMMA NearbyFollows ==
  NearbyInv => NearestListed
BY DEF NearbyInv, NearestListed, ListedNear, MapAgrees, NearQuests, BoxedQuests, QuestPins,
       ClosePins, CloseQuests

-----------------------------------------------------------------------------
(* The subjects together.                                                  *)

\* A step of Reads is one of this subject or leaves it at rest.
LEMMA FeedAmongReads ==
  FeedInv /\ [Next]_allVars => FeedInv'
<1> SUFFICES ASSUME FeedInv, [Next]_allVars
             PROVE  FeedInv'
  OBVIOUS
<1>1. [FeedNext]_feedVars
  BY DEF Next, allVars
<1> QED
  BY <1>1, FeedGoesOn

\* A step of Reads is one of this subject or leaves it at rest.
LEMMA LeaderboardAmongReads ==
  LeaderboardInv /\ [Next]_allVars => LeaderboardInv'
<1> SUFFICES ASSUME LeaderboardInv, [Next]_allVars
             PROVE  LeaderboardInv'
  OBVIOUS
<1>1. [LeaderboardNext]_leaderboardVars
  BY DEF Next, allVars
<1> QED
  BY <1>1, LeaderboardGoesOn

\* A step of Reads is one of this subject or leaves it at rest.
LEMMA PortalAmongReads ==
  PortalInv /\ [Next]_allVars => PortalInv'
<1> SUFFICES ASSUME PortalInv, [Next]_allVars
             PROVE  PortalInv'
  OBVIOUS
<1>1. [PortalNext]_portalVars
  BY DEF Next, allVars
<1> QED
  BY <1>1, PortalGoesOn

\* A step of Reads is one of this subject or leaves it at rest.
LEMMA ListingAmongReads ==
  ListingInv /\ [Next]_allVars => ListingInv'
<1> SUFFICES ASSUME ListingInv, [Next]_allVars
             PROVE  ListingInv'
  OBVIOUS
<1>1. [ListingNext]_listingVars
  BY DEF Next, allVars
<1> QED
  BY <1>1, ListingGoesOn

\* A step of Reads is one of this subject or leaves it at rest.
LEMMA PresenceAmongReads ==
  PresenceInv /\ [Next]_allVars => PresenceInv'
<1> SUFFICES ASSUME PresenceInv, [Next]_allVars
             PROVE  PresenceInv'
  OBVIOUS
<1>1. [PresenceNext]_presenceVars
  BY DEF Next, allVars
<1> QED
  BY <1>1, PresenceGoesOn

\* A step of Reads is one of this subject or leaves it at rest.
LEMMA UserStatsAmongReads ==
  UserStatsInv /\ [Next]_allVars => UserStatsInv'
<1> SUFFICES ASSUME UserStatsInv, [Next]_allVars
             PROVE  UserStatsInv'
  OBVIOUS
<1>1. [UserStatsNext]_userStatsVars
  BY DEF Next, allVars
<1> QED
  BY <1>1, UserStatsGoesOn

\* A step of Reads is one of this subject or leaves it at rest.
LEMMA NearbyAmongReads ==
  NearbyInv /\ [Next]_allVars => NearbyInv'
<1> SUFFICES ASSUME NearbyInv, [Next]_allVars
             PROVE  NearbyInv'
  OBVIOUS
<1>1. [NearbyNext]_nearbyVars
  BY DEF Next, allVars
<1> QED
  BY <1>1, NearbyGoesOn

\* The pages of a feed lose nothing that is due but what is named, and hand out twice only
\* what was overtaken or restarted, for every number of friends, rows and writers, whatever
\* these stamp and commit, and in which order, between the five queries.
THEOREM FeedPagesAll == Spec => []FeedPaging
<1>1. Init => FeedInv
  BY FeedStarts DEF Init
<1>2. FeedInv /\ [Next]_allVars => FeedInv'
  BY FeedAmongReads
<1>3. FeedInv => FeedPaging
  BY FeedFollows
<1> QED
  BY <1>1, <1>2, <1>3, PTL DEF Spec

\* The entries take the first ranks and the viewer comes after them, for every number of
\* players, limit and calendar; weekly scores are of the week of the query.
THEOREM LeaderboardOneRanking == Spec => []LeaderboardAgrees
<1>1. Init => LeaderboardInv
  BY LeaderboardStarts DEF Init
<1>2. LeaderboardInv /\ [Next]_allVars => LeaderboardInv'
  BY LeaderboardAmongReads
<1>3. LeaderboardInv => LeaderboardAgrees
  BY LeaderboardFollows
<1> QED
  BY <1>1, <1>2, <1>3, PTL DEF Spec

\* Counted at two moments, the metrics of the portal are still those of the moment the owner
\* asked, for every number of completions and quests and whatever commits in between.
THEOREM PortalOfItsWindows == Spec => []PortalAsOfNow
<1>1. Init => PortalInv
  BY PortalStarts DEF Init
<1>2. PortalInv /\ [Next]_allVars => PortalInv'
  BY PortalAmongReads
<1>3. PortalInv => PortalAsOfNow
  BY PortalFollows
<1> QED
  BY <1>1, <1>2, <1>3, PTL DEF Spec

\* A client that follows hasNext misses no row and gets none twice but those that moved or
\* were moved, for every number of rows, limit and order, ties included.
THEOREM ListingPagesAll == Spec => []PagesComplete
<1>1. Init => ListingInv
  BY ListingStarts DEF Init
<1>2. ListingInv /\ [Next]_allVars => ListingInv'
  BY ListingAmongReads
<1>3. ListingInv => PagesComplete
  BY ListingFollows
<1> QED
  BY <1>1, <1>2, <1>3, PTL DEF Spec

\* Offline and online are true of the last request but for the tolerated delays, for all of
\* these delays and every order of requests, pings and lost pings.
THEOREM PresenceOfTheLastRequest == Spec => []PresenceTrue
<1>1. Init => PresenceInv
  BY PresenceStarts DEF Init
<1>2. PresenceInv /\ [Next]_allVars => PresenceInv'
  BY PresenceAmongReads
<1>3. PresenceInv => PresenceTrue
  BY PresenceFollows
<1> QED
  BY <1>1, <1>2, <1>3, PTL DEF Spec

\* The statements of the statistics leave no quest of the player out but those deleted or
\* started over in between, for every number of quests and categories.
THEOREM StatisticsCountAll == Spec => []StatsCountAll
<1>1. Init => UserStatsInv
  BY UserStatsStarts DEF Init
<1>2. UserStatsInv /\ [Next]_allVars => UserStatsInv'
  BY UserStatsAmongReads
<1>3. UserStatsInv => StatsCountAll
  BY UserStatsFollows
<1> QED
  BY <1>1, <1>2, <1>3, PTL DEF Spec

\* The list holds of the quests within the radius those in the box but for what its limit
\* cuts off, and the map agrees with it, whatever the trigonometry makes of the box.
THEOREM NearbyFindsAll == Spec => []NearestListed
<1>1. Init => NearbyInv
  BY NearbyStarts DEF Init
<1>2. NearbyInv /\ [Next]_allVars => NearbyInv'
  BY NearbyAmongReads
<1>3. NearbyInv => NearestListed
  BY NearbyFollows
<1> QED
  BY <1>1, <1>2, <1>3, PTL DEF Spec
=============================================================================
