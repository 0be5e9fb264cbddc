-------------------------- MODULE PublicStatsProofs --------------------------
(***************************************************************************)
(* What ratings, updates and deletions that overlap leave in the catalogue *)
(* and how old the statistics are that are answered beside them, for any   *)
(* users, quests, scores, calls and life of the cache.                     *)
(*                                                                         *)
(* A sum is what SumFunction makes of the scores, and nothing is asked of  *)
(* it but that it is the same for the same scores.                         *)
(***************************************************************************)
EXTENDS PublicStats, FiniteSetTheorems, WellFoundedInduction, TLAPS

Ratings == [Users \X Quests -> Scores \cup {0}]

Sums   == {0} \cup {Sum(table, q) : table \in Ratings, q \in Quests}
Counts == {0} \cup {Cardinality(RowsOf(table, q)) : table \in Ratings, q \in Quests}

Rows ==
  [slug : Slugs, author : Users, status : Statuses, dated : BOOLEAN, pinned : BOOLEAN,
   ratingSum : Sums, ratingCount : Counts]

CreateCalls == [call : {"create"}, step : {"write"}, user : Users, slug : Slugs]
UpdateCalls == [call : {"update"}, step : {"write"}, quest : Quests, status : Statuses,
                date : BOOLEAN]
DeleteCalls == [call : {"delete"}, step : {"write"}, quest : Quests]
RateCalls   == [call : {"rate"}, step : {"rate", "aggregate", "write"}, row : Users \X Quests,
                score : Scores \cup {0}, wrote : BOOLEAN, sum : Sums, count : Counts,
                outdated : BOOLEAN]

Calls == CreateCalls \cup UpdateCalls \cup DeleteCalls \cup RateCalls

CallTable == request \in [Requests -> Calls \cup {Idle, Done}]

\* Types of the catalogue, in which sums and counts are those of some ratings.
CatalogueTyped ==
  /\ quest \in [Quests -> Rows \cup {Unused, Deleted}]
  /\ rating \in Ratings
  /\ overtaken \subseteq Quests
  /\ CallTable

-----------------------------------------------------------------------------
(* Rows, calls and ratings.                                                *)

LEMMA ExistingType ==
  ASSUME CatalogueTyped, NEW q \in Quests
  PROVE  /\ Unused \notin Rows /\ Deleted \notin Rows /\ Unused # Deleted
         /\ q \in Existing <=> quest[q] \in Rows
<1>1. Unused \notin Rows /\ Deleted \notin Rows
  BY DEF Unused, Deleted, Rows
<1>2. Unused.status # Deleted.status
  BY DEF Unused, Deleted
<1> QED
  BY <1>1, <1>2 DEF CatalogueTyped, Existing

\* A call is at a statement of its own kind.
LEMMA CallKind ==
  ASSUME CallTable, NEW r \in Requests
  PROVE  /\ At(r, "create", "write") => request[r] \in CreateCalls
         /\ At(r, "update", "write") => request[r] \in UpdateCalls
         /\ At(r, "delete", "write") => request[r] \in DeleteCalls
         /\ \A step \in {"rate", "aggregate", "write"} : At(r, "rate", step) => request[r] \in RateCalls
<1>1. Idle.step = "idle" /\ Done.step = "done"
  BY DEF Idle, Done
<1>2. request[r] \in Calls \cup {Idle, Done}
  BY DEF CallTable
<1>3. /\ \A c \in CreateCalls : c.call = "create"
      /\ \A c \in UpdateCalls : c.call = "update"
      /\ \A c \in DeleteCalls : c.call = "delete"
      /\ \A c \in RateCalls : c.call = "rate"
  BY DEF CreateCalls, UpdateCalls, DeleteCalls, RateCalls
<1> QED
  BY <1>1, <1>2, <1>3 DEF At, Calls

LEMMA CallFields ==
  /\ \A c \in RateCalls : /\ c.row \in Users \X Quests /\ c.row[2] \in Quests
                          /\ c.step \in {"rate", "aggregate", "write"} /\ c.call = "rate"
                          /\ c.score \in Scores \cup {0} /\ c.wrote \in BOOLEAN
                          /\ c.sum \in Sums /\ c.count \in Counts /\ c.outdated \in BOOLEAN
  /\ \A c \in UpdateCalls : c.quest \in Quests /\ c.status \in Statuses /\ c.date \in BOOLEAN
  /\ \A c \in DeleteCalls : c.quest \in Quests
  /\ \A c \in CreateCalls : c.user \in Users /\ c.slug \in Slugs
  /\ \A c \in Calls : c.step \in {"rate", "aggregate", "write"}
<1>1. \A c \in RateCalls : c.row \in Users \X Quests
  BY DEF RateCalls
<1>2. \A row \in Users \X Quests : row[2] \in Quests
  OBVIOUS
<1> QED
  BY <1>1, <1>2 DEF RateCalls, UpdateCalls, DeleteCalls, CreateCalls, Calls

\* Two tables that agree on a quest have the same rows, count and sum of it.
LEMMA SameRows ==
  ASSUME NEW s \in Ratings, NEW t \in Ratings, NEW q \in Quests,
         \A k \in Users \X Quests : k[2] = q => s[k] = t[k]
  PROVE  RowsOf(s, q) = RowsOf(t, q) /\ Sum(s, q) = Sum(t, q)
<1>1. RowsOf(s, q) = RowsOf(t, q)
  BY DEF RowsOf, Ratings
<1>2. \A k \in RowsOf(s, q) : s[k] = t[k]
  BY DEF RowsOf, Ratings
<1>3. [k \in RowsOf(s, q) |-> s[k]] = [k \in RowsOf(t, q) |-> t[k]]
  BY <1>1, <1>2
<1> QED
  BY <1>1, <1>3 DEF Sum

LEMMA NoRows ==
  ASSUME NEW t \in Ratings, NEW q \in Quests, \A k \in Users \X Quests : k[2] = q => t[k] = 0
  PROVE  Cardinality(RowsOf(t, q)) = 0 /\ Sum(t, q) = 0
<1>1. RowsOf(t, q) = {}
  BY DEF RowsOf, Ratings
<1> QED
  BY <1>1, FS_EmptySet DEF Sum

\* What a transaction sees is a table of ratings, that of the others but for its own row.
LEMMA SeenType ==
  ASSUME CatalogueTyped, NEW r \in Requests, request[r] \in RateCalls
  PROVE  /\ SeenBy(r) \in Ratings
         /\ \A k \in Users \X Quests : k # request[r].row => SeenBy(r)[k] = rating[k]
         /\ ~ request[r].wrote => SeenBy(r) = rating
BY CallFields DEF SeenBy, CatalogueTyped, Ratings

-----------------------------------------------------------------------------
(* What a statement does.                                                  *)

\* r alone is changed, to this.
Turns(r, c) ==
  /\ request'[r] = c /\ c \in Calls \cup {Idle, Done}
  /\ \A s \in Requests : s # r => request'[s] = request[s]
  /\ CallTable'

SameTables == UNCHANGED <<quest, rating, overtaken>>

Begins(r) ==
  /\ SameTables /\ request[r] = Idle /\ Turns(r, request'[r])
  /\ \/ request'[r] \in CreateCalls \cup DeleteCalls
     \/ /\ request'[r] \in UpdateCalls /\ request'[r].quest \in Existing
        /\ request'[r].date = Dates(request'[r].quest, request'[r].status)
     \/ /\ request'[r] \in RateCalls /\ request'[r].row[2] \in Existing
        /\ request'[r].step = "rate"

Fails(r) == SameTables /\ Turns(r, Done)

CreatesQuest(r) ==
  /\ UNCHANGED <<rating, overtaken>> /\ Turns(r, Done)
  /\ \E q \in Quests, slug \in Slugs, author \in Users :
       quest[q] = Unused /\ quest' = [quest EXCEPT ![q] = Draft(slug, author)]

Updates(r) ==
  /\ UNCHANGED <<rating, overtaken>> /\ Turns(r, Done)
  /\ request[r] \in UpdateCalls /\ request[r].step = "write" /\ request[r].quest \in Existing
  /\ \E row \in Rows :
       /\ quest' = [quest EXCEPT ![request[r].quest] = row]
       /\ row.status = request[r].status
       /\ row.dated = (quest[request[r].quest].dated \/ request[r].date)
       /\ row.ratingSum = quest[request[r].quest].ratingSum
       /\ row.ratingCount = quest[request[r].quest].ratingCount

Deletes(r) ==
  /\ Turns(r, Done) /\ request[r] \in DeleteCalls
  /\ quest' = [quest EXCEPT ![request[r].quest] = Deleted]
  /\ rating' \in Ratings
  /\ \A k \in Users \X Quests : k[2] # request[r].quest => rating'[k] = rating[k]
  /\ \A k \in Users \X Quests : rating'[k] \in {rating[k], 0}
  /\ overtaken' = overtaken \ {request[r].quest}

Writes(r) ==
  /\ SameTables /\ Turns(r, request'[r]) /\ request[r] \in RateCalls
  /\ request'[r] \in RateCalls /\ request'[r].step = "aggregate"
  /\ request'[r].row = request[r].row

Aggregates(r) ==
  /\ SameTables /\ Turns(r, request'[r]) /\ request[r] \in RateCalls
  /\ request'[r] \in RateCalls /\ request'[r].step = "write"
  /\ request'[r].row = request[r].row /\ request'[r].score = request[r].score
  /\ request'[r].wrote = request[r].wrote
  /\ request'[r].sum = Sum(SeenBy(r), request[r].row[2])
  /\ request'[r].count = Cardinality(RowsOf(SeenBy(r), request[r].row[2]))

\* The commit of r, which marks the aggregates of the quest that others hold.
Commits(r) ==
  /\ request[r] \in RateCalls /\ request[r].step = "write" /\ request[r].row[2] \in Existing
  /\ rating' = SeenBy(r)
  /\ \E row \in Rows :
       /\ quest' = [quest EXCEPT ![request[r].row[2]] = row]
       /\ row.status = quest[request[r].row[2]].status /\ row.dated = quest[request[r].row[2]].dated
       /\ row.ratingSum = request[r].sum /\ row.ratingCount = request[r].count
  /\ request'[r] = Done /\ CallTable'
  /\ \A s \in Requests \ {r} :
       \/ request'[s] = request[s]
       \/ /\ request[s] \in RateCalls /\ request'[s] \in RateCalls
          /\ request'[s].row = request[s].row /\ request'[s].outdated
  /\ \A s \in Requests \ {r} :
       (request[r].wrote /\ At(s, "rate", "write") /\ request[s].row[2] = request[r].row[2])
         => request'[s].outdated
  /\ overtaken' = IF request[r].outdated THEN overtaken \cup {request[r].row[2]}
                  ELSE overtaken \ {request[r].row[2]}

LEMMA TurnsEnd ==
  ASSUME CallTable, NEW r \in Requests, End(r)
  PROVE  Turns(r, Done)
BY DEF CallTable, End, Turns

LEMMA TurnsCall ==
  ASSUME CallTable, NEW r \in Requests, NEW c \in Calls, request' = [request EXCEPT ![r] = c]
  PROVE  Turns(r, c) /\ request'[r] = c
BY DEF CallTable, Turns

LEMMA CreateMoves ==
  ASSUME CatalogueTyped, NEW r \in Requests, ReceiveCreate(r) \/ Create(r)
  PROVE  Begins(r) \/ Fails(r) \/ CreatesQuest(r)
<1>1. CASE ReceiveCreate(r)
  <2>1. PICK u \in Moderators \cup Owners, slug \in Slugs :
          /\ request[r] = Idle /\ SameTables
          /\ request' = [request EXCEPT ![r] =
               [call |-> "create", step |-> "write", user |-> u, slug |-> slug]]
    BY <1>1 DEF ReceiveCreate, SameTables
  <2>2. [call |-> "create", step |-> "write", user |-> u, slug |-> slug] \in CreateCalls
    BY RolesAssumption DEF CreateCalls
  <2> QED
    BY <2>1, <2>2, TurnsCall DEF CatalogueTyped, Begins, Calls
<1>2. CASE Create(r)
  <2>1. request[r] \in CreateCalls /\ Turns(r, Done) /\ UNCHANGED <<rating, overtaken>>
    BY <1>2, CallKind, TurnsEnd DEF Create, CatalogueTyped
  <2>2. request[r].user \in Users /\ request[r].slug \in Slugs
    BY <2>1, CallFields
  <2>3. \/ UNCHANGED quest
        \/ \E q \in Quests : /\ quest[q] = Unused
                             /\ quest' = [quest EXCEPT ![q] = Draft(request[r].slug, request[r].user)]
    BY <1>2 DEF Create
  <2> QED
    BY <2>1, <2>2, <2>3 DEF Fails, SameTables, CreatesQuest
<1> QED
  BY <1>1, <1>2

LEMMA UpdateMoves ==
  ASSUME CatalogueTyped, NEW r \in Requests, ReceiveUpdate(r) \/ Update(r)
  PROVE  Begins(r) \/ Fails(r) \/ Updates(r)
<1>1. CASE ReceiveUpdate(r)
  <2>1. PICK u \in Users, q \in Existing, status \in Statuses :
          /\ request[r] = Idle /\ SameTables
          /\ request' = [request EXCEPT ![r] =
               [call |-> "update", step |-> "write", quest |-> q, status |-> status,
                date |-> Dates(q, status)]]
    BY <1>1 DEF ReceiveUpdate, SameTables
  <2> DEFINE c == [call |-> "update", step |-> "write", quest |-> q, status |-> status,
                   date |-> Dates(q, status)]
  <2>2. Dates(q, status) \in BOOLEAN /\ q \in Quests
    BY DEF Dates, Existing
  <2>3. c \in UpdateCalls /\ c.quest = q /\ c.status = status /\ c.date = Dates(q, status)
    BY <2>2 DEF UpdateCalls
  <2> HIDE DEF c
  <2>4. Turns(r, c) /\ request'[r] = c
    BY <2>1, <2>3, TurnsCall DEF c, CatalogueTyped, Calls
  <2> QED
    BY <2>1, <2>3, <2>4 DEF Begins
<1>2. CASE Update(r)
  <2>1. request[r] \in UpdateCalls /\ request[r].step = "write"
        /\ Turns(r, Done) /\ UNCHANGED <<rating, overtaken>>
    BY <1>2, CallKind, TurnsEnd DEF Update, CatalogueTyped, At
  <2>2. /\ request[r].quest \in Quests /\ request[r].status \in Statuses
        /\ request[r].date \in BOOLEAN
    BY <2>1, CallFields
  <2>3. CASE request[r].quest \notin Existing
    BY <1>2, <2>1, <2>3 DEF Update, Fails, SameTables
  <2>4. CASE request[r].quest \in Existing
    <3> DEFINE q == request[r].quest
               row == Updated(quest[q], request[r])
    <3>1. quest[q] \in Rows
      BY <2>2, <2>4, ExistingType
    <3>2. /\ row \in Rows /\ row.status = request[r].status
          /\ row.dated = (quest[q].dated \/ request[r].date)
          /\ row.ratingSum = quest[q].ratingSum /\ row.ratingCount = quest[q].ratingCount
      BY <2>2, <3>1 DEF Rows, Updated
    <3>3. quest' = [quest EXCEPT ![q] = row]
      BY <1>2, <2>4 DEF Update
    <3> HIDE DEF row
    <3> QED
      BY <2>1, <2>4, <3>2, <3>3 DEF Updates
  <2> QED
    BY <2>3, <2>4
<1> QED
  BY <1>1, <1>2

LEMMA DeleteMoves ==
  ASSUME CatalogueTyped, NEW r \in Requests, ReceiveDelete(r) \/ Delete(r)
  PROVE  Begins(r) \/ Deletes(r)
<1>1. CASE ReceiveDelete(r)
  <2>1. PICK u \in Users, q \in Existing :
          /\ request[r] = Idle /\ SameTables
          /\ request' = [request EXCEPT ![r] = [call |-> "delete", step |-> "write", quest |-> q]]
    BY <1>1 DEF ReceiveDelete, SameTables
  <2>2. [call |-> "delete", step |-> "write", quest |-> q] \in DeleteCalls
    BY DEF DeleteCalls, Existing
  <2> QED
    BY <2>1, <2>2, TurnsCall DEF CatalogueTyped, Begins, Calls
<1>2. CASE Delete(r)
  <2> DEFINE q == request[r].quest
  <2>1. request[r] \in DeleteCalls /\ Turns(r, Done) /\ q \in Quests
    BY <1>2, CallKind, CallFields, TurnsEnd DEF Delete, CatalogueTyped
  <2>2. /\ quest' = [quest EXCEPT ![q] = Deleted] /\ overtaken' = overtaken \ {q}
        /\ rating' = [k \in DOMAIN rating |-> IF k[2] = q THEN 0 ELSE rating[k]]
    BY <1>2 DEF Delete
  <2>3. DOMAIN rating = Users \X Quests /\ \A k \in Users \X Quests : rating[k] \in Scores \cup {0}
    BY DEF CatalogueTyped, Ratings
  <2>4. rating' = [k \in Users \X Quests |-> IF k[2] = q THEN 0 ELSE rating[k]]
    BY <2>2, <2>3
  <2>5. rating' \in Ratings
    BY <2>3, <2>4 DEF Ratings
  <2>6. /\ \A k \in Users \X Quests : k[2] # q => rating'[k] = rating[k]
        /\ \A k \in Users \X Quests : rating'[k] \in {rating[k], 0}
    BY <2>4
  <2> QED
    BY <2>1, <2>2, <2>5, <2>6 DEF Deletes
<1> QED
  BY <1>1, <1>2

LEMMA ReceiveRateMoves ==
  ASSUME CatalogueTyped, NEW r \in Requests, ReceiveRate(r)
  PROVE  Begins(r)
<1>1. PICK u \in Users, q \in Existing, score \in Scores \cup {0} :
        /\ request[r] = Idle /\ SameTables
        /\ request' = [request EXCEPT ![r] =
             [call |-> "rate", step |-> "rate", row |-> <<u, q>>, score |-> score, wrote |-> FALSE,
              sum |-> 0, count |-> 0, outdated |-> FALSE]]
  BY DEF ReceiveRate, SameTables
<1> DEFINE c == [call |-> "rate", step |-> "rate", row |-> <<u, q>>, score |-> score,
                 wrote |-> FALSE, sum |-> 0, count |-> 0, outdated |-> FALSE]
<1>2. q \in Quests /\ <<u, q>> \in Users \X Quests /\ <<u, q>>[2] = q
  BY DEF Existing
<1>3. 0 \in Sums /\ 0 \in Counts
  BY DEF Sums, Counts
<1>4. c \in RateCalls /\ c.row = <<u, q>> /\ c.step = "rate"
  BY <1>2, <1>3 DEF RateCalls
<1> HIDE DEF c
<1>5. Turns(r, c) /\ request'[r] = c
  BY <1>1, <1>4, TurnsCall DEF c, CatalogueTyped, Calls
<1> QED
  BY <1>1, <1>2, <1>4, <1>5 DEF Begins

LEMMA WriteRatingMoves ==
  ASSUME CatalogueTyped, NEW r \in Requests, WriteRating(r)
  PROVE  Fails(r) \/ Writes(r)
<1>1. request[r] \in RateCalls /\ SameTables
  BY CallKind DEF WriteRating, CatalogueTyped, SameTables
<1>2. CASE request[r].row[2] \notin Existing
  <2>1. End(r)
    BY <1>2 DEF WriteRating
  <2> QED
    BY <1>1, <2>1, TurnsEnd DEF Fails, CatalogueTyped
<1>3. CASE request[r].row[2] \in Existing
  <2> DEFINE writes == request[r].score > 0 \/ rating[request[r].row] > 0
             c == [request[r] EXCEPT !.step = "aggregate", !.wrote = writes]
  <2>1. request' = [request EXCEPT ![r] = c]
    BY <1>3 DEF WriteRating
  <2>2. writes \in BOOLEAN
    OBVIOUS
  <2> HIDE DEF writes
  <2>3. c \in RateCalls /\ c.step = "aggregate" /\ c.row = request[r].row
    BY <1>1, <2>2 DEF RateCalls
  <2> HIDE DEF c
  <2>4. Turns(r, c) /\ request'[r] = c
    BY <2>1, <2>3, TurnsCall DEF CatalogueTyped, Calls
  <2> QED
    BY <1>1, <2>3, <2>4 DEF Writes
<1> QED
  BY <1>2, <1>3

LEMMA AggregateMoves ==
  ASSUME CatalogueTyped, NEW r \in Requests, Aggregate(r)
  PROVE  Aggregates(r)
<1>1. request[r] \in RateCalls /\ SameTables
  BY CallKind DEF Aggregate, CatalogueTyped, SameTables
<1> DEFINE sum == Sum(SeenBy(r), request[r].row[2])
           count == Cardinality(RowsOf(SeenBy(r), request[r].row[2]))
           c == [request[r] EXCEPT !.step = "write", !.sum = sum, !.count = count]
<1>2. request' = [request EXCEPT ![r] = c]
  BY DEF Aggregate
<1>3. sum \in Sums /\ count \in Counts
  BY <1>1, SeenType, CallFields DEF Sums, Counts
<1> HIDE DEF sum, count
<1>4. /\ c \in RateCalls /\ c.step = "write" /\ c.row = request[r].row
      /\ c.score = request[r].score /\ c.wrote = request[r].wrote
      /\ c.sum = sum /\ c.count = count
  BY <1>1, <1>3 DEF RateCalls
<1> HIDE DEF c
<1>5. Turns(r, c) /\ request'[r] = c
  BY <1>2, <1>4, TurnsCall DEF CatalogueTyped, Calls
<1>6. sum = Sum(SeenBy(r), request[r].row[2])
      /\ count = Cardinality(RowsOf(SeenBy(r), request[r].row[2]))
  BY DEF sum, count
<1> QED
  BY <1>1, <1>4, <1>5, <1>6 DEF Aggregates

LEMMA RollbackMoves ==
  ASSUME CatalogueTyped, NEW r \in Requests, Rollback(r)
  PROVE  Fails(r)
BY TurnsEnd DEF Rollback, Fails, SameTables, CatalogueTyped

\* The marks that the commit of r leaves on the others' calls.
LEMMA CommitMarks ==
  ASSUME CatalogueTyped, NEW r \in Requests, WriteQuest(r)
  PROVE  /\ request'[r] = Done /\ CallTable'
         /\ \A s \in Requests \ {r} :
              \/ request'[s] = request[s]
              \/ /\ request[s] \in RateCalls /\ request'[s] \in RateCalls
                 /\ request'[s].row = request[s].row /\ request'[s].outdated
         /\ \A s \in Requests \ {r} :
              (request[r].wrote /\ At(s, "rate", "write") /\ request[s].row[2] = request[r].row[2])
                => request'[s].outdated
<1> DEFINE marked(s) == /\ request[r].wrote /\ At(s, "rate", "write")
                        /\ request[s].row[2] = request[r].row[2]
           mark(s) == [request[s] EXCEPT !.outdated = TRUE]
<1>1. request' = [s \in Requests |->
        IF s = r THEN Done ELSE IF marked(s) THEN mark(s) ELSE request[s]]
  BY DEF WriteQuest
<1>2. \A s \in Requests : marked(s) => request[s] \in RateCalls
  BY CallKind DEF CatalogueTyped
<1>3. ASSUME NEW s \in Requests, request[s] \in RateCalls
      PROVE  mark(s) \in RateCalls /\ mark(s).row = request[s].row /\ mark(s).outdated
  BY <1>3 DEF RateCalls
<1>4. \A s \in Requests : request[s] \in Calls \cup {Idle, Done}
  BY DEF CatalogueTyped, CallTable
<1>5. RateCalls \subseteq Calls
  BY DEF Calls
<1> HIDE DEF marked, mark
<1>6. CallTable'
  BY <1>1, <1>2, <1>3, <1>4, <1>5 DEF CallTable
<1>7. \A s \in Requests \ {r} : marked(s) => request'[s] = mark(s)
  BY <1>1
<1>8. \A s \in Requests \ {r} : ~ marked(s) => request'[s] = request[s]
  BY <1>1
<1>9. request'[r] = Done
  BY <1>1
<1>10. ASSUME NEW s \in Requests \ {r}
       PROVE  \/ request'[s] = request[s]
              \/ /\ request[s] \in RateCalls /\ request'[s] \in RateCalls
                 /\ request'[s].row = request[s].row /\ request'[s].outdated
  BY <1>2, <1>3, <1>7, <1>8
<1>11. ASSUME NEW s \in Requests \ {r}, request[r].wrote, At(s, "rate", "write"),
              request[s].row[2] = request[r].row[2]
       PROVE  request'[s].outdated
  <2>1. marked(s)
    BY <1>11 DEF marked
  <2> QED
    BY <1>2, <1>3, <1>7, <2>1
<1> QED
  BY <1>6, <1>9, <1>10, <1>11

LEMMA CommitMoves ==
  ASSUME CatalogueTyped, NEW r \in Requests, WriteQuest(r)
  PROVE  Commits(r)
<1>1. request[r] \in RateCalls /\ request[r].step = "write" /\ request[r].row[2] \in Existing
  BY CallKind DEF WriteQuest, CatalogueTyped, At
<1>2. /\ request[r].sum \in Sums /\ request[r].count \in Counts
      /\ request[r].row[2] \in Quests
  BY <1>1, CallFields
<1> DEFINE q == request[r].row[2]
           row == [quest[q] EXCEPT !.ratingSum = request[r].sum, !.ratingCount = request[r].count]
<1>3. quest' = [quest EXCEPT ![q] = row]
  BY DEF WriteQuest
<1>4. quest[q] \in Rows
  BY <1>1, <1>2, ExistingType
<1>5. /\ row \in Rows /\ row.status = quest[q].status /\ row.dated = quest[q].dated
      /\ row.ratingSum = request[r].sum /\ row.ratingCount = request[r].count
  BY <1>2, <1>4 DEF Rows
<1>6. /\ rating' = SeenBy(r)
      /\ overtaken' = IF request[r].outdated THEN overtaken \cup {q} ELSE overtaken \ {q}
  BY DEF WriteQuest
<1> HIDE DEF row
<1>7. \E w \in Rows :
        /\ quest' = [quest EXCEPT ![q] = w]
        /\ w.status = quest[q].status /\ w.dated = quest[q].dated
        /\ w.ratingSum = request[r].sum /\ w.ratingCount = request[r].count
  BY <1>3, <1>5
<1> HIDE DEF q
<1> QED
  BY <1>1, <1>6, <1>7, CommitMarks DEF Commits, q

\* Every statement does one of these things.
LEMMA CatalogueMoves ==
  ASSUME CatalogueTyped, CatalogueNext
  PROVE  \E r \in Requests :
           \/ Begins(r) \/ Fails(r) \/ CreatesQuest(r) \/ Updates(r) \/ Deletes(r)
           \/ Writes(r) \/ Aggregates(r) \/ Commits(r)
<1>1. PICK r \in Requests :
        \/ ReceiveCreate(r) \/ Create(r)
        \/ ReceiveUpdate(r) \/ Update(r)
        \/ ReceiveDelete(r) \/ Delete(r)
        \/ ReceiveRate(r) \/ WriteRating(r) \/ Aggregate(r) \/ WriteQuest(r) \/ Rollback(r)
  BY DEF CatalogueNext
<1> QED
  BY <1>1, CreateMoves, UpdateMoves, DeleteMoves, ReceiveRateMoves, WriteRatingMoves,
     AggregateMoves, RollbackMoves, CommitMoves

-----------------------------------------------------------------------------
(* The catalogue's invariant.                                              *)

\* Nothing waits to update or rate a quest that was never created.
NamesInv ==
  \A r \in Requests :
    /\ request[r] \in UpdateCalls => quest[request[r].quest] # Unused
    /\ request[r] \in RateCalls => quest[request[r].row[2]] # Unused

NoneRated(table, q) == \A k \in Users \X Quests : k[2] = q => table[k] = 0

\* There are no ratings before the quest.
EmptyInv == \A q \in Quests : quest[q] = Unused => NoneRated(rating, q)

\* A call that holds the aggregate of a quest, with no rating committed since.
Holds(r) ==
  /\ request[r] \in RateCalls /\ request[r].step = "write" /\ ~ request[r].outdated
  /\ request[r].row[2] \in Existing

AggregateOf(r, table) ==
  /\ request[r].sum = Sum(table, request[r].row[2])
  /\ request[r].count = Cardinality(RowsOf(table, request[r].row[2]))

\* What such a call is about to write is what the quest's ratings are when it commits.
SumInv == \A r \in Requests : Holds(r) => AggregateOf(r, SeenBy(r))

\* An update that is about to publish a quest brings the date, or the quest has it.
DateInv ==
  \A r \in Requests :
    request[r] \in UpdateCalls /\ request[r].quest \in Existing /\ request[r].status = "PUBLISHED"
      => request[r].date \/ quest[request[r].quest].dated

CatalogueInv ==
  CatalogueTyped /\ NamesInv /\ EmptyInv /\ SumInv /\ RatingsAgree /\ DateInv /\ PublishedDated

LEMMA DraftType ==
  ASSUME NEW slug \in Slugs, NEW author \in Users
  PROVE  /\ Draft(slug, author) \in Rows /\ Draft(slug, author).status = "DRAFT"
         /\ Draft(slug, author).ratingSum = 0 /\ Draft(slug, author).ratingCount = 0
<1>1. 0 \in Sums /\ 0 \in Counts
  BY DEF Sums, Counts
<1> QED
  BY <1>1 DEF Draft, Rows, Statuses

LEMMA Kinds ==
  /\ \A c \in Calls \cup {Idle, Done} :
       /\ c \in CreateCalls \cup DeleteCalls \cup {Idle, Done}
          => c \notin UpdateCalls /\ c \notin RateCalls
       /\ ~ (c \in UpdateCalls /\ c \in RateCalls)
  /\ Idle # Done /\ Idle \notin Calls /\ Done \notin Calls
<1>1. Idle.step = "idle" /\ Done.step = "done"
  BY DEF Idle, Done
<1>2. /\ \A c \in CreateCalls : c.call = "create"
      /\ \A c \in UpdateCalls : c.call = "update"
      /\ \A c \in DeleteCalls : c.call = "delete"
      /\ \A c \in RateCalls : c.call = "rate"
  BY DEF CreateCalls, UpdateCalls, DeleteCalls, RateCalls
<1>3. Idle \notin Calls /\ Done \notin Calls /\ Idle # Done
  BY <1>1, CallFields
<1> QED
  BY <1>2, <1>3 DEF Calls

\* A row is put in the place of quest q, or q is deleted.
LEMMA QuestPut ==
  ASSUME CatalogueTyped, NEW q \in Quests, NEW row \in Rows \cup {Deleted},
         quest' = [quest EXCEPT ![q] = row]
  PROVE  /\ quest' \in [Quests -> Rows \cup {Unused, Deleted}]
         /\ quest'[q] = row /\ \A p \in Quests : p # q => quest'[p] = quest[p]
         /\ quest'[q] # Unused
         /\ \A p \in Quests : p # q => (p \in Existing' <=> p \in Existing)
         /\ q \in Existing' <=> row \in Rows
<1>1. Unused \notin Rows /\ Deleted \notin Rows /\ Unused # Deleted
  BY ExistingType
<1>2. /\ quest' \in [Quests -> Rows \cup {Unused, Deleted}]
      /\ quest'[q] = row /\ \A p \in Quests : p # q => quest'[p] = quest[p]
  BY DEF CatalogueTyped
<1>3. Existing' = {p \in Quests : quest'[p] \notin {Unused, Deleted}}
  BY DEF Existing, Quests
<1> QED
  BY <1>1, <1>2, <1>3 DEF Existing

\* What a step does to the quests: nothing, or it creates, changes or deletes one of them.
LEMMA QuestMoves ==
  ASSUME CatalogueTyped, NEW r \in Requests,
         \/ Begins(r) \/ Fails(r) \/ CreatesQuest(r) \/ Updates(r) \/ Deletes(r)
         \/ Writes(r) \/ Aggregates(r) \/ Commits(r)
  PROVE  /\ quest' \in [Quests -> Rows \cup {Unused, Deleted}]
         /\ \A q \in Quests : quest[q] # Unused => quest'[q] # Unused
         /\ \A q \in Quests : quest'[q] = Unused => quest[q] = Unused
         /\ \A q \in Existing' : quest[q] # Unused => q \in Existing
<1>1. CASE SameTables
  <2>1. Existing' = Existing
    BY <1>1 DEF SameTables, Existing, Quests
  <2> QED
    BY <1>1, <2>1 DEF SameTables, CatalogueTyped
<1>2. ASSUME NEW q \in Quests, NEW row \in Rows \cup {Deleted}, quest' = [quest EXCEPT ![q] = row],
             row \in Rows => quest[q] = Unused \/ q \in Existing
      PROVE  /\ quest' \in [Quests -> Rows \cup {Unused, Deleted}]
             /\ \A p \in Quests : quest[p] # Unused => quest'[p] # Unused
             /\ \A p \in Quests : quest'[p] = Unused => quest[p] = Unused
             /\ \A p \in Existing' : quest[p] # Unused => p \in Existing
  <2>1. Existing' \subseteq Quests
    BY DEF Existing, Quests
  <2> QED
    BY <1>2, <2>1, QuestPut
<1>3. CASE CreatesQuest(r)
  BY <1>2, <1>3, DraftType DEF CreatesQuest
<1>4. CASE Updates(r)
  BY <1>2, <1>4, CallFields DEF Updates
<1>5. CASE Deletes(r)
  BY <1>2, <1>5, CallFields, ExistingType DEF Deletes
<1>6. CASE Commits(r)
  BY <1>2, <1>6, CallFields DEF Commits
<1> QED
  BY <1>1, <1>3, <1>4, <1>5, <1>6 DEF Begins, Fails, Writes, Aggregates

LEMMA TypedStep ==
  ASSUME CatalogueTyped, NEW r \in Requests,
         \/ Begins(r) \/ Fails(r) \/ CreatesQuest(r) \/ Updates(r) \/ Deletes(r)
         \/ Writes(r) \/ Aggregates(r) \/ Commits(r)
  PROVE  CatalogueTyped'
<1>1. quest' \in [Quests -> Rows \cup {Unused, Deleted}]
  BY QuestMoves
<1>2. CallTable'
  BY DEF Begins, Fails, CreatesQuest, Updates, Deletes, Writes, Aggregates, Commits, Turns
<1>3. rating' \in Ratings
  <2>1. CASE Commits(r)
    BY <2>1, SeenType DEF Commits
  <2> QED
    BY <2>1 DEF Begins, Fails, CreatesQuest, Updates, Deletes, Writes, Aggregates, SameTables,
                CatalogueTyped
<1>4. overtaken' \subseteq Quests
  <2>1. CASE Commits(r)
    BY <2>1, CallFields DEF Commits, CatalogueTyped
  <2> QED
    BY <2>1 DEF Begins, Fails, CreatesQuest, Updates, Deletes, Writes, Aggregates, SameTables,
                CatalogueTyped
<1> QED
  BY <1>1, <1>2, <1>3, <1>4 DEF CatalogueTyped

LEMMA NamesStep ==
  ASSUME CatalogueTyped, NamesInv, NEW r \in Requests,
         \/ Begins(r) \/ Fails(r) \/ CreatesQuest(r) \/ Updates(r) \/ Deletes(r)
         \/ Writes(r) \/ Aggregates(r) \/ Commits(r)
  PROVE  NamesInv'
<1>1. ASSUME NEW s \in Requests, request'[s] \in UpdateCalls
      PROVE  request'[s].quest \in Quests /\ quest[request'[s].quest] # Unused
  <2>1. request'[s].quest \in Quests
    BY <1>1, CallFields
  <2>2. CASE request'[s] = request[s]
    BY <1>1, <2>1, <2>2 DEF NamesInv
  <2>3. CASE request'[s] # request[s]
    <3>1. Begins(r) /\ s = r
      BY <1>1, <2>3, Kinds DEF Begins, Fails, CreatesQuest, Updates, Deletes, Writes, Aggregates,
                               Commits, Turns, Calls
    <3>2. request'[s].quest \in Existing
      BY <1>1, <3>1, Kinds DEF Begins, Calls
    <3> QED
      BY <2>1, <3>2 DEF Existing
  <2> QED
    BY <2>2, <2>3
<1>2. ASSUME NEW s \in Requests, request'[s] \in RateCalls
      PROVE  request'[s].row[2] \in Quests /\ quest[request'[s].row[2]] # Unused
  <2>1. request'[s].row[2] \in Quests
    BY <1>2, CallFields
  <2>2. CASE request[s] \in RateCalls /\ request'[s].row = request[s].row
    BY <2>1, <2>2 DEF NamesInv
  <2>3. CASE ~ (request[s] \in RateCalls /\ request'[s].row = request[s].row)
    <3>1. Begins(r) /\ s = r
      BY <1>2, <2>3, Kinds DEF Begins, Fails, CreatesQuest, Updates, Deletes, Writes, Aggregates,
                               Commits, Turns, Calls
    <3>2. request'[s].row[2] \in Existing
      BY <1>2, <3>1, Kinds DEF Begins, Calls
    <3> QED
      BY <2>1, <3>2 DEF Existing
  <2> QED
    BY <2>2, <2>3
<1>3. \A q \in Quests : quest[q] # Unused => quest'[q] # Unused
  BY QuestMoves
<1>4. NamesInv' =
        (\A s \in Requests :
           /\ request'[s] \in UpdateCalls => quest'[request'[s].quest] # Unused
           /\ request'[s] \in RateCalls => quest'[request'[s].row[2]] # Unused)
  BY DEF NamesInv
<1> QED
  BY <1>1, <1>2, <1>3, <1>4

LEMMA EmptyStep ==
  ASSUME CatalogueTyped, EmptyInv, NEW r \in Requests,
         \/ Begins(r) \/ Fails(r) \/ CreatesQuest(r) \/ Updates(r) \/ Deletes(r)
         \/ Writes(r) \/ Aggregates(r) \/ Commits(r)
  PROVE  EmptyInv'
<1>1. ASSUME NEW q \in Quests, quest[q] = Unused
      PROVE  NoneRated(rating', q)
  <2>1. \A k \in Users \X Quests : k[2] = q => rating[k] = 0
    BY <1>1 DEF EmptyInv, NoneRated
  <2>2. CASE Commits(r)
    <3>1. request[r].row[2] # q
      BY <1>1, <2>2 DEF Commits, Existing
    <3>2. rating' = SeenBy(r) /\ request[r] \in RateCalls
      BY <2>2 DEF Commits
    <3> QED
      BY <2>1, <3>1, <3>2, SeenType DEF NoneRated
  <2>3. CASE Deletes(r)
    BY <2>1, <2>3 DEF Deletes, NoneRated
  <2>4. CASE rating' = rating
    BY <2>1, <2>4 DEF NoneRated
  <2> QED
    BY <2>2, <2>3, <2>4 DEF Begins, Fails, CreatesQuest, Updates, Writes, Aggregates, SameTables
<1>2. \A q \in Quests : quest'[q] = Unused => NoneRated(rating', q)
  BY <1>1, QuestMoves
<1>3. EmptyInv' = (\A q \in Quests : quest'[q] = Unused => NoneRated(rating', q))
  BY DEF EmptyInv, NoneRated
<1> QED
  BY <1>2, <1>3

\* The rows a transaction sees of a quest change only where those of the quest do.
LEMMA SeenKeeps ==
  ASSUME CatalogueTyped, CatalogueTyped', NEW s \in Requests, request[s] \in RateCalls,
         request'[s] = request[s], NEW q \in Quests,
         \A k \in Users \X Quests : k[2] = q => rating'[k] = rating[k]
  PROVE  /\ SeenBy(s)' \in Ratings
         /\ RowsOf(SeenBy(s)', q) = RowsOf(SeenBy(s), q) /\ Sum(SeenBy(s)', q) = Sum(SeenBy(s), q)
<1>1. SeenBy(s) \in Ratings
  BY SeenType
<1>2. /\ rating \in Ratings /\ rating' \in Ratings
      /\ request[s].row \in Users \X Quests /\ request[s].score \in Scores \cup {0}
  BY CallFields DEF CatalogueTyped
<1>3. SeenBy(s)' = IF request[s].wrote THEN [rating' EXCEPT ![request[s].row] = request[s].score]
                   ELSE rating'
  BY DEF SeenBy
<1>4. SeenBy(s)' \in Ratings
  BY <1>2, <1>3 DEF Ratings
<1>5. \A k \in Users \X Quests : k[2] = q => SeenBy(s)'[k] = SeenBy(s)[k]
  BY <1>2, <1>3 DEF SeenBy, Ratings
<1> QED
  BY <1>1, <1>4, <1>5, SameRows

\* The ratings of a quest change by the commit of one of them, or with the quest.
LEMMA RatingMoves ==
  ASSUME CatalogueTyped, NEW r \in Requests,
         \/ Begins(r) \/ Fails(r) \/ CreatesQuest(r) \/ Updates(r) \/ Deletes(r)
         \/ Writes(r) \/ Aggregates(r) \/ Commits(r),
         NEW q \in Quests, q \in Existing'
  PROVE  \/ \A k \in Users \X Quests : k[2] = q => rating'[k] = rating[k]
         \/ Commits(r) /\ request[r].wrote /\ request[r].row[2] = q
<1>1. CASE Deletes(r)
  <2>1. request[r].quest \in Quests
    BY <1>1, CallFields DEF Deletes
  <2>2. request[r].quest # q
    BY <1>1, <2>1, QuestPut, ExistingType DEF Deletes
  <2> QED
    BY <1>1, <2>2 DEF Deletes
<1>2. CASE Commits(r)
  <2>1. rating' = SeenBy(r) /\ request[r] \in RateCalls
    BY <1>2 DEF Commits
  <2> QED
    BY <1>2, <2>1, SeenType
<1>3. CASE rating' = rating
  BY <1>3
<1> QED
  BY <1>1, <1>2, <1>3 DEF Begins, Fails, CreatesQuest, Updates, Writes, Aggregates, SameTables

LEMMA SumStep ==
  ASSUME CatalogueTyped, NamesInv, SumInv, NEW r \in Requests,
         \/ Begins(r) \/ Fails(r) \/ CreatesQuest(r) \/ Updates(r) \/ Deletes(r)
         \/ Writes(r) \/ Aggregates(r) \/ Commits(r)
  PROVE  SumInv'
<1>1. CatalogueTyped'
  BY TypedStep
<1> SUFFICES ASSUME NEW s \in Requests, Holds(s)'
             PROVE  AggregateOf(s, SeenBy(s))'
  BY DEF SumInv
<1>2. /\ request'[s] \in RateCalls /\ request'[s].step = "write" /\ ~ request'[s].outdated
      /\ request'[s].row[2] \in Existing' /\ request'[s].row[2] \in Quests
  BY CallFields DEF Holds
<1>3. CASE request'[s] = request[s]
  <2> DEFINE q == request[s].row[2]
  <2>1. request[s] \in RateCalls /\ q \in Quests /\ q \in Existing'
    BY <1>2, <1>3
  <2>2. q \in Existing
    BY <2>1, QuestMoves DEF NamesInv
  <2>3. Holds(s)
    BY <1>2, <1>3, <2>1, <2>2 DEF Holds
  <2>4. AggregateOf(s, SeenBy(s))
    BY <2>3 DEF SumInv
  <2>5. ~ (Commits(r) /\ request[r].wrote /\ request[r].row[2] = q)
    <3> SUFFICES ASSUME Commits(r), request[r].wrote, request[r].row[2] = q
                 PROVE  FALSE
      OBVIOUS
    <3>1. s # r
      BY <2>1, <1>3, Kinds DEF Commits, Calls
    <3>2. At(s, "rate", "write")
      BY <1>2, <1>3, CallFields DEF At
    <3> QED
      BY <1>2, <3>1, <3>2 DEF Commits
  <2>6. \A k \in Users \X Quests : k[2] = q => rating'[k] = rating[k]
    BY <2>1, <2>5, RatingMoves
  <2>7. /\ RowsOf(SeenBy(s)', q) = RowsOf(SeenBy(s), q)
        /\ Sum(SeenBy(s)', q) = Sum(SeenBy(s), q)
    BY <1>1, <1>3, <2>1, <2>6, SeenKeeps
  <2>8. AggregateOf(s, SeenBy(s))' =
          (/\ request'[s].sum = Sum(SeenBy(s)', request'[s].row[2])
           /\ request'[s].count = Cardinality(RowsOf(SeenBy(s)', request'[s].row[2])))
    BY DEF AggregateOf
  <2> QED
    BY <1>3, <2>4, <2>7, <2>8 DEF AggregateOf
<1>4. CASE request'[s] # request[s]
  <2>1. Aggregates(r) /\ s = r
    BY <1>2, <1>4, Kinds DEF Begins, Fails, CreatesQuest, Updates, Deletes, Writes, Aggregates,
                             Commits, Turns, Calls
  <2>2. SeenBy(r)' = SeenBy(r)
    BY <2>1 DEF Aggregates, SeenBy, SameTables
  <2>3. AggregateOf(r, SeenBy(r))' =
          (/\ request'[r].sum = Sum(SeenBy(r)', request'[r].row[2])
           /\ request'[r].count = Cardinality(RowsOf(SeenBy(r)', request'[r].row[2])))
    BY DEF AggregateOf
  <2> QED
    BY <2>1, <2>2, <2>3 DEF Aggregates
<1> QED
  BY <1>3, <1>4

LEMMA AgreeStep ==
  ASSUME CatalogueInv, NEW r \in Requests,
         \/ Begins(r) \/ Fails(r) \/ CreatesQuest(r) \/ Updates(r) \/ Deletes(r)
         \/ Writes(r) \/ Aggregates(r) \/ Commits(r)
  PROVE  RatingsAgree'
<1>1. CatalogueTyped /\ CatalogueTyped' /\ rating \in Ratings /\ rating' \in Ratings
  BY TypedStep DEF CatalogueInv, CatalogueTyped
<1> SUFFICES ASSUME NEW q \in Quests, q \in Existing', q \notin overtaken'
             PROVE  /\ quest'[q].ratingCount = Cardinality(RowsOf(rating', q))
                    /\ quest'[q].ratingSum = Sum(rating', q)
  <2>1. Existing' \subseteq Quests
    BY DEF Existing, Quests
  <2> QED
    BY <2>1 DEF RatingsAgree
<1>2. CASE Commits(r) /\ request[r].row[2] = q
  <2>1. /\ request[r] \in RateCalls /\ request[r].step = "write" /\ q \in Existing
        /\ rating' = SeenBy(r) /\ ~ request[r].outdated
    BY <1>2 DEF Commits
  <2>2. AggregateOf(r, SeenBy(r))
    BY <1>2, <2>1 DEF CatalogueInv, SumInv, Holds
  <2>3. PICK row \in Rows : /\ quest' = [quest EXCEPT ![q] = row]
                            /\ row.ratingSum = request[r].sum /\ row.ratingCount = request[r].count
    BY <1>2 DEF Commits
  <2>4. quest'[q] = row
    BY <1>1, <2>3 DEF CatalogueTyped
  <2> QED
    BY <1>2, <2>1, <2>2, <2>3, <2>4 DEF AggregateOf
<1>3. CASE ~ (Commits(r) /\ request[r].row[2] = q)
  <2>1. RowsOf(rating', q) = RowsOf(rating, q) /\ Sum(rating', q) = Sum(rating, q)
    BY <1>1, <1>3, RatingMoves, SameRows
  <2>2. CASE quest[q] = Unused
    <3>1. CreatesQuest(r)
      BY <1>1, <2>2, QuestPut, CallFields
      DEF Begins, Fails, Updates, Deletes, Writes, Aggregates, Commits, SameTables, Existing
    <3>2. PICK p \in Quests, slug \in Slugs, author \in Users :
            quest[p] = Unused /\ quest' = [quest EXCEPT ![p] = Draft(slug, author)]
      BY <3>1 DEF CreatesQuest
    <3>3. p = q
      BY <1>1, <2>2, <3>2, DraftType, QuestPut DEF Existing
    <3>4. quest'[q] = Draft(slug, author)
      BY <1>1, <3>2, <3>3 DEF CatalogueTyped
    <3>5. Cardinality(RowsOf(rating, q)) = 0 /\ Sum(rating, q) = 0
      BY <1>1, <2>2, NoRows DEF CatalogueInv, EmptyInv, NoneRated
    <3> QED
      BY <2>1, <3>4, <3>5, DraftType
  <2>3. CASE quest[q] # Unused
    <3>1. q \in Existing
      BY <1>1, <2>3, QuestMoves
    <3>2. q \notin overtaken
      <4>1. CASE Commits(r)
        BY <1>3, <4>1 DEF Commits
      <4>2. CASE Deletes(r)
        <5>1. request[r].quest \in Quests
          BY <4>2, CallFields DEF Deletes
        <5>2. request[r].quest # q
          BY <1>1, <4>2, <5>1, QuestPut, ExistingType DEF Deletes
        <5> QED
          BY <4>2, <5>2 DEF Deletes
      <4> QED
        BY <4>1, <4>2 DEF Begins, Fails, CreatesQuest, Updates, Writes, Aggregates, SameTables
    <3>3. quest[q].ratingCount = Cardinality(RowsOf(rating, q)) /\ quest[q].ratingSum = Sum(rating, q)
      BY <3>1, <3>2 DEF CatalogueInv, RatingsAgree
    <3>4. quest'[q].ratingCount = quest[q].ratingCount /\ quest'[q].ratingSum = quest[q].ratingSum
      <4>1. CASE Updates(r)
        <5>1. PICK row \in Rows :
                /\ quest' = [quest EXCEPT ![request[r].quest] = row]
                /\ row.ratingSum = quest[request[r].quest].ratingSum
                /\ row.ratingCount = quest[request[r].quest].ratingCount
          BY <4>1 DEF Updates
        <5>2. request[r].quest \in Quests
          BY <4>1, CallFields DEF Updates
        <5>3. \/ quest'[q] = quest[q]
              \/ q = request[r].quest /\ quest'[q] = row
          BY <1>1, <5>1, <5>2, QuestPut
        <5> QED
          BY <5>1, <5>3
      <4>2. CASE Deletes(r)
        BY <1>1, <4>2, QuestPut, ExistingType, CallFields DEF Deletes
      <4>3. CASE Commits(r)
        <5>1. PICK row \in Rows : quest' = [quest EXCEPT ![request[r].row[2]] = row]
          BY <4>3 DEF Commits
        <5>2. request[r].row[2] \in Quests /\ request[r].row[2] # q
          BY <1>3, <4>3, CallFields DEF Commits
        <5>3. quest'[q] = quest[q]
          BY <1>1, <5>1, <5>2, QuestPut
        <5> QED
          BY <5>3
      <4>4. CASE CreatesQuest(r)
        <5>1. PICK p \in Quests, slug \in Slugs, author \in Users :
                quest[p] = Unused /\ quest' = [quest EXCEPT ![p] = Draft(slug, author)]
          BY <4>4 DEF CreatesQuest
        <5> QED
          BY <1>1, <2>3, <5>1, DraftType, QuestPut
      <4> QED
        BY <4>1, <4>2, <4>3, <4>4 DEF Begins, Fails, Writes, Aggregates, SameTables
    <3> QED
      BY <2>1, <3>3, <3>4
  <2> QED
    BY <2>2, <2>3
<1> QED
  BY <1>2, <1>3

LEMMA DateStep ==
  ASSUME CatalogueInv, NEW r \in Requests,
         \/ Begins(r) \/ Fails(r) \/ CreatesQuest(r) \/ Updates(r) \/ Deletes(r)
         \/ Writes(r) \/ Aggregates(r) \/ Commits(r)
  PROVE  /\ \A q \in Existing' : quest[q] # Unused => (quest[q].dated => quest'[q].dated)
         /\ DateInv' /\ PublishedDated'
<1>1. CatalogueTyped /\ CatalogueTyped' /\ Existing' \subseteq Quests
  BY TypedStep DEF CatalogueInv, Existing, Quests
\* The row that quest q has now.
<1>2. ASSUME NEW q \in Existing'
      PROVE  \/ quest[q] = Unused /\ quest'[q].status = "DRAFT"
             \/ /\ q \in Existing /\ quest'[q].status = quest[q].status
                /\ quest'[q].dated = quest[q].dated
             \/ /\ q \in Existing /\ Updates(r) /\ q = request[r].quest
                /\ quest'[q].status = request[r].status
                /\ quest'[q].dated = (quest[q].dated \/ request[r].date)
  <2>1. q \in Quests
    BY <1>1
  <2>2. CASE CreatesQuest(r)
    <3>1. PICK p \in Quests, slug \in Slugs, author \in Users :
            quest[p] = Unused /\ quest' = [quest EXCEPT ![p] = Draft(slug, author)]
      BY <2>2 DEF CreatesQuest
    <3> QED
      BY <1>1, <2>1, <3>1, DraftType, QuestPut
  <2>3. CASE Updates(r)
    <3>1. PICK row \in Rows :
            /\ quest' = [quest EXCEPT ![request[r].quest] = row]
            /\ row.status = request[r].status
            /\ row.dated = (quest[request[r].quest].dated \/ request[r].date)
      BY <2>3 DEF Updates
    <3>2. request[r].quest \in Quests /\ request[r].quest \in Existing
      BY <2>3, CallFields DEF Updates
    <3>3. CASE q = request[r].quest
      <4>1. quest'[q] = row
        BY <1>1, <3>1, <3>2, <3>3, QuestPut
      <4> QED
        BY <2>3, <3>1, <3>2, <3>3, <4>1
    <3>4. CASE q # request[r].quest
      BY <1>1, <2>1, <3>1, <3>2, <3>4, QuestPut
    <3> QED
      BY <3>3, <3>4
  <2>4. CASE Deletes(r)
    <3>1. request[r].quest \in Quests
      BY <2>4, CallFields DEF Deletes
    <3>2. request[r].quest # q
      BY <1>1, <2>4, <3>1, QuestPut, ExistingType DEF Deletes
    <3> QED
      BY <1>1, <2>1, <2>4, <3>1, <3>2, QuestPut DEF Deletes
  <2>5. CASE Commits(r)
    <3>1. PICK row \in Rows :
            /\ quest' = [quest EXCEPT ![request[r].row[2]] = row]
            /\ row.status = quest[request[r].row[2]].status
            /\ row.dated = quest[request[r].row[2]].dated
      BY <2>5 DEF Commits
    <3>2. request[r].row[2] \in Quests /\ request[r].row[2] \in Existing
      BY <2>5, CallFields DEF Commits
    <3>3. CASE q = request[r].row[2]
      <4>1. quest'[q] = row
        BY <1>1, <3>1, <3>2, <3>3, QuestPut
      <4> QED
        BY <3>1, <3>2, <3>3, <4>1
    <3>4. CASE q # request[r].row[2]
      BY <1>1, <2>1, <3>1, <3>2, <3>4, QuestPut
    <3> QED
      BY <3>3, <3>4
  <2>6. CASE SameTables
    <3>1. Existing' = Existing /\ quest' = quest
      BY <2>6 DEF SameTables, Existing, Quests
    <3> QED
      BY <3>1
  <2> QED
    BY <2>2, <2>3, <2>4, <2>5, <2>6 DEF Begins, Fails, Writes, Aggregates
<1>3. \A q \in Existing' : quest[q] # Unused => (quest[q].dated => quest'[q].dated)
  <2> SUFFICES ASSUME NEW q \in Existing', quest[q] # Unused, quest[q].dated
               PROVE  quest'[q].dated
    OBVIOUS
  <2> QED
    BY <1>2
<1>4. PublishedDated'
  <2> SUFFICES ASSUME NEW q \in Existing', quest'[q].status = "PUBLISHED"
               PROVE  quest'[q].dated
    BY DEF PublishedDated, Published
  <2>1. CASE /\ q \in Existing /\ quest'[q].status = quest[q].status
             /\ quest'[q].dated = quest[q].dated
    BY <2>1 DEF CatalogueInv, PublishedDated, Published
  <2>2. CASE /\ q \in Existing /\ Updates(r) /\ q = request[r].quest
             /\ quest'[q].status = request[r].status
             /\ quest'[q].dated = (quest[q].dated \/ request[r].date)
    <3>1. request[r].date \/ quest[q].dated
      BY <2>2 DEF Updates, CatalogueInv, DateInv
    <3> QED
      BY <2>2, <3>1
  <2> QED
    BY <1>2, <2>1, <2>2
<1>5. DateInv'
  <2> SUFFICES ASSUME NEW s \in Requests, request'[s] \in UpdateCalls,
                      request'[s].quest \in Existing', request'[s].status = "PUBLISHED"
               PROVE  request'[s].date \/ quest'[request'[s].quest].dated
    BY DEF DateInv
  <2>1. CASE request'[s] = request[s]
    <3>1. quest[request[s].quest] # Unused
      BY <2>1 DEF CatalogueInv, NamesInv
    <3>2. request[s].quest \in Existing
      BY <1>1, <2>1, <3>1, QuestMoves
    <3>3. request[s].date \/ quest[request[s].quest].dated
      BY <2>1, <3>2 DEF CatalogueInv, DateInv
    <3> QED
      BY <1>3, <2>1, <3>1, <3>3
  <2>2. CASE request'[s] # request[s]
    <3>1. Begins(r) /\ s = r
      BY <2>2, Kinds DEF Begins, Fails, CreatesQuest, Updates, Deletes, Writes, Aggregates,
                         Commits, Turns, Calls
    <3>2. /\ request'[s].date = Dates(request'[s].quest, request'[s].status)
          /\ quest' = quest
      BY <3>1, Kinds DEF Begins, Calls, SameTables
    <3> QED
      BY <3>2 DEF Dates
  <2> QED
    BY <2>1, <2>2
<1> QED
  BY <1>3, <1>4, <1>5

\* The catalogue's invariant is kept by every statement, and by steps that leave it alone.
LEMMA CatalogueStep ==
  ASSUME CatalogueInv, CatalogueNext \/ UNCHANGED catalogueVars
  PROVE  CatalogueInv'
<1>1. CASE CatalogueNext
  <2>1. PICK r \in Requests :
          \/ Begins(r) \/ Fails(r) \/ CreatesQuest(r) \/ Updates(r) \/ Deletes(r)
          \/ Writes(r) \/ Aggregates(r) \/ Commits(r)
    BY <1>1, CatalogueMoves DEF CatalogueInv
  <2>2. CatalogueTyped' /\ NamesInv' /\ EmptyInv' /\ SumInv'
    BY <2>1, TypedStep, NamesStep, EmptyStep, SumStep DEF CatalogueInv
  <2>3. RatingsAgree' /\ DateInv' /\ PublishedDated'
    BY <2>1, AgreeStep, DateStep
  <2> QED
    BY <2>2, <2>3 DEF CatalogueInv
<1>2. CASE UNCHANGED catalogueVars
  <2>1. Existing' = Existing
    BY <1>2 DEF catalogueVars, Existing, Quests
  <2>2. CatalogueTyped' /\ NamesInv' /\ EmptyInv' /\ DateInv'
    BY <1>2, <2>1 DEF catalogueVars, CatalogueInv, CatalogueTyped, CallTable, NamesInv, EmptyInv,
                      NoneRated, DateInv
  <2>3. SumInv'
    BY <1>2, <2>1 DEF catalogueVars, CatalogueInv, SumInv, Holds, AggregateOf, SeenBy
  <2>4. RatingsAgree' /\ PublishedDated'
    BY <1>2, <2>1 DEF catalogueVars, CatalogueInv, RatingsAgree, PublishedDated, Published
  <2> QED
    BY <2>2, <2>3, <2>4 DEF CatalogueInv
<1> QED
  BY <1>1, <1>2

LEMMA CatalogueStart ==
  ASSUME CatalogueInit
  PROVE  CatalogueInv
<1>1. PICK slug \in Slugs, author \in Moderators \cup Owners, status \in Statuses,
           pinned \in BOOLEAN :
        quest = [q \in Quests |->
          IF q # 1 THEN Unused
          ELSE Earlier(slug, author, status, pinned)]
  BY DEF CatalogueInit
<1> DEFINE first == Earlier(slug, author, status, pinned)
<1>2. /\ Draft(slug, author) \in Rows
      /\ Draft(slug, author).ratingSum = 0 /\ Draft(slug, author).ratingCount = 0
  BY RolesAssumption, DraftType
<1>3. /\ first \in Rows /\ first.status = status /\ first.dated = (status = "PUBLISHED")
      /\ first.ratingSum = 0 /\ first.ratingCount = 0
  BY <1>2 DEF Rows, Earlier
<1> HIDE DEF first
<1>4. quest = [q \in Quests |-> IF q # 1 THEN Unused ELSE first]
  BY <1>1 DEF first
<1>5. quest \in [Quests -> Rows \cup {Unused, Deleted}]
  BY <1>3, <1>4
<1>6. rating \in Ratings /\ \A k \in Users \X Quests : rating[k] = 0
  BY DEF CatalogueInit, Ratings
<1>7. overtaken \subseteq Quests /\ CallTable /\ \A r \in Requests : request[r] = Idle
  BY DEF CatalogueInit, CallTable
<1>8. CatalogueTyped
  BY <1>5, <1>6, <1>7 DEF CatalogueTyped
<1>9. Existing \subseteq {1} /\ \A q \in Existing : quest[q] = first
  BY <1>4 DEF Existing
<1>10. NamesInv /\ SumInv /\ DateInv
  BY <1>7, Kinds DEF NamesInv, SumInv, DateInv, Holds, Calls
<1>11. EmptyInv
  BY <1>6 DEF EmptyInv, NoneRated
<1>12. RatingsAgree
  <2>1. \A q \in Quests : Cardinality(RowsOf(rating, q)) = 0 /\ Sum(rating, q) = 0
    BY <1>6, NoRows
  <2> QED
    BY <1>3, <1>9, <2>1 DEF RatingsAgree, Existing
<1>13. PublishedDated
  BY <1>3, <1>9 DEF PublishedDated, Published
<1> QED
  BY <1>8, <1>10, <1>11, <1>12, <1>13 DEF CatalogueInv

-----------------------------------------------------------------------------
(* The statistics.                                                         *)

Counters == (SUBSET Quests) \cup {{NoQuest}}

ReadRecords == [step : {"pinned", "rated", "any", "load", "store", "answered"}, since : Times,
                counted : Counters, featured : Quests \cup {NoQuest}]

\* The set of published quests was S at a moment from since on.
SeenSince(S, since) == \E t \in Times : since <= t /\ S \in history[t]

\* A featured quest was published at such a moment, and none is featured if at one there was none.
FeaturedSince(featured, since) ==
  IF featured = NoQuest THEN SeenSince({}, since)
  ELSE \E S \in SUBSET Quests : featured \in S /\ SeenSince(S, since)

\* The history goes on to the present.
HistoryInv ==
  /\ clock \in Times
  /\ history \in [Times -> SUBSET SUBSET Quests]
  /\ Published \in history[clock]

\* What a call has read so far is of its own time; an answer may be that of an earlier one.
Sound(read) ==
  /\ read.since <= clock
  /\ read.step \in {"pinned", "rated", "any"} => read.featured = NoQuest
  /\ read.step = "load" => read.featured # NoQuest
  /\ read.step # "answered" => read.counted = {NoQuest} \/ SeenSince(read.counted, read.since)
  /\ read.step \in {"load", "store"} => FeaturedSince(read.featured, read.since)
  /\ read.step = "answered" =>
       \E s \in Times : /\ read.since < s + CACHE_TTL_MS
                        /\ SeenSince(read.counted, s) /\ FeaturedSince(read.featured, s)

ReadsInv ==
  /\ call \in [StatsCalls -> ReadRecords \cup {NewCall, Failed}]
  /\ \A c \in StatsCalls : call[c] \in ReadRecords => Sound(call[c])

\* What the cache holds was read from CACHE_TTL_MS before it expires on.
CacheInv ==
  \/ cache = Nothing
  \/ \E s \in Times :
       /\ cache.expiresAt = s + CACHE_TTL_MS /\ cache.counted \in Counters
       /\ cache.featured \in Quests \cup {NoQuest}
       /\ SeenSince(cache.counted, s) /\ FeaturedSince(cache.featured, s)

Inv == CatalogueInv /\ HistoryInv /\ ReadsInv /\ CacheInv

LEMMA NewestExists ==
  ASSUME Published # {}
  PROVE  Newest # {}
<1> DEFINE Distances == {MaxQuests - q : q \in Published}
<1>1. Published \subseteq Quests /\ MaxQuests \in Nat
  BY QuestsAssumption DEF Published, Existing
<1>2. Distances \subseteq Nat /\ Distances # {}
  <2>1. \A q \in Published : MaxQuests - q \in Nat
    BY <1>1 DEF Quests
  <2>2. PICK q \in Published : TRUE
    OBVIOUS
  <2> QED
    BY <2>1, <2>2
<1>3. PICK d \in Distances : \A e \in Distances : ~ (<<e, d>> \in OpToRel(<, Nat))
  <2> HIDE DEF Distances
  <2> QED
    BY <1>2, NatLessThanWellFounded, WFMin
<1>4. \A e \in Distances : ~ (e < d)
  BY <1>2, <1>3 DEF OpToRel
<1>5. PICK q \in Published : d = MaxQuests - q
  OBVIOUS
<1>6. \A p \in Published : ~ (MaxQuests - p < d)
  BY <1>4
<1>7. \A p \in Published : p <= q
  BY <1>1, <1>5, <1>6 DEF Quests
<1> QED
  BY <1>5, <1>7 DEF Newest

LEMMA FoundIsPublished ==
  ASSUME NEW step \in {"pinned", "rated", "any"}
  PROVE  /\ Found(step) \subseteq Published
         /\ step = "any" /\ Found(step) = {} => Published = {}
<1>1. CASE step = "pinned"
  BY <1>1 DEF Found, Pinned
<1>2. CASE step = "rated"
  BY <1>2 DEF Found, BestRated
<1>3. CASE step = "any"
  <2>1. Found(step) = Newest
    BY <1>3 DEF Found
  <2> QED
    BY <2>1, NewestExists DEF Newest
<1> QED
  BY <1>1, <1>2, <1>3

\* What has been seen stays in the history, to which the present is added.
LEMMA HistoryStep ==
  ASSUME HistoryInv, CatalogueInv', clock' \in Times,
         history' = [history EXCEPT ![clock'] = @ \cup {Published'}]
  PROVE  /\ HistoryInv'
         /\ \A S, since : SeenSince(S, since) => SeenSince(S, since)'
         /\ \A featured, since : FeaturedSince(featured, since) => FeaturedSince(featured, since)'
<1>1. Published' \subseteq Quests
  BY DEF Published, Existing, Quests
<1>2. /\ history' \in [Times -> SUBSET SUBSET Quests] /\ Published' \in history'[clock']
      /\ \A t \in Times : history[t] \subseteq history'[t]
  BY <1>1 DEF HistoryInv
<1>3. \A S, since : SeenSince(S, since) => SeenSince(S, since)'
  BY <1>2 DEF SeenSince
<1>4. \A featured, since : FeaturedSince(featured, since) => FeaturedSince(featured, since)'
  BY <1>3 DEF FeaturedSince
<1> QED
  BY <1>2, <1>3, <1>4 DEF HistoryInv

LEMMA StatsFields ==
  /\ \A read \in ReadRecords : /\ read.since \in Times /\ read.counted \in Counters
                         /\ read.featured \in Quests \cup {NoQuest}
                         /\ read.step \in {"pinned", "rated", "any", "load", "store", "answered"}
  /\ NewCall \notin ReadRecords /\ Failed \notin ReadRecords
  /\ NewCall.step = "idle" /\ Failed.step = "failed"
BY DEF ReadRecords, NewCall, Failed

LEMMA PresentSeen ==
  ASSUME HistoryInv, NEW since \in Times, since <= clock
  PROVE  /\ SeenSince(Published, since)
         /\ \A q \in Published : q \in Quests /\ q # NoQuest /\ FeaturedSince(q, since)
<1>1. SeenSince(Published, since)
  BY DEF HistoryInv, SeenSince
<1>2. Published \subseteq Quests
  BY DEF Published, Existing
<1>3. \A q \in Quests : q # NoQuest
  BY DEF Quests, NoQuest
<1>4. \A q \in Published : FeaturedSince(q, since)
  BY <1>1, <1>2, <1>3 DEF FeaturedSince
<1> QED
  BY <1>1, <1>2, <1>3, <1>4

\* A call of the statistics has become this one, and what it has read is sound.
Answers(c, read) ==
  /\ call' = [call EXCEPT ![c] = read]
  /\ read \in ReadRecords \cup {NewCall, Failed}
  /\ read \in ReadRecords => Sound(read)

LEMMA ReceiveAnswers ==
  ASSUME HistoryInv, ReadsInv, CacheInv, NEW c \in StatsCalls, Receive(c)
  PROVE  \E read : Answers(c, read)
<1>1. clock \in Times /\ clock \in Nat
  BY TimesAssumption DEF HistoryInv, Times
<1>2. CASE clock < cache.expiresAt
  <2> DEFINE read == [step |-> "answered", since |-> clock, counted |-> cache.counted,
                      featured |-> cache.featured]
  <2>1. call' = [call EXCEPT ![c] = read]
    BY <1>2 DEF Receive
  <2>2. cache # Nothing
    BY <1>1, <1>2 DEF Nothing
  <2>3. PICK s \in Times :
          /\ cache.expiresAt = s + CACHE_TTL_MS /\ cache.counted \in Counters
          /\ cache.featured \in Quests \cup {NoQuest}
          /\ SeenSince(cache.counted, s) /\ FeaturedSince(cache.featured, s)
    BY <2>2 DEF CacheInv
  <2>4. /\ read \in ReadRecords /\ read.step = "answered" /\ read.since = clock
        /\ read.counted = cache.counted /\ read.featured = cache.featured
    BY <1>1, <2>3 DEF ReadRecords
  <2> HIDE DEF read
  <2>5. Sound(read)
    BY <1>1, <1>2, <2>3, <2>4 DEF Sound
  <2> QED
    BY <2>1, <2>4, <2>5 DEF Answers
<1>3. CASE ~ (clock < cache.expiresAt)
  <2> DEFINE read == [step |-> "pinned", since |-> clock, counted |-> {NoQuest},
                      featured |-> NoQuest]
  <2>1. call' = [call EXCEPT ![c] = read]
    BY <1>3 DEF Receive
  <2> HIDE DEF read
  <2>2. {NoQuest} \in Counters
    BY DEF Counters
  <2>3. /\ read \in ReadRecords /\ read.step = "pinned" /\ read.since = clock
        /\ read.counted = {NoQuest} /\ read.featured = NoQuest
    BY <1>1, <2>2 DEF ReadRecords, read
  <2>4. Sound(read)
    BY <1>1, <2>3 DEF Sound
  <2> QED
    BY <2>1, <2>3, <2>4 DEF Answers
<1> QED
  BY <1>2, <1>3

LEMMA LoadCountsAnswers ==
  ASSUME HistoryInv, ReadsInv, NEW c \in StatsCalls, LoadCounts(c)
  PROVE  \E read : Answers(c, read)
<1> DEFINE read == [call[c] EXCEPT !.counted = Published]
<1>1. call' = [call EXCEPT ![c] = read]
  BY DEF LoadCounts
<1>2. call[c].step \in {"pinned", "rated", "any", "load", "store"}
  BY DEF LoadCounts
<1>3. call[c] \in ReadRecords /\ Sound(call[c])
  BY <1>2, StatsFields DEF ReadsInv
<1>4. Published \in Counters
  BY DEF Counters, Published, Existing
<1>5. /\ read \in ReadRecords /\ read.step = call[c].step /\ read.since = call[c].since
      /\ read.counted = Published /\ read.featured = call[c].featured
  BY <1>3, <1>4 DEF ReadRecords
<1>6. SeenSince(Published, call[c].since)
  BY <1>3, PresentSeen, StatsFields DEF Sound
<1> HIDE DEF read
<1>7. Sound(read)
  BY <1>2, <1>3, <1>5, <1>6 DEF Sound
<1> QED
  BY <1>1, <1>5, <1>7 DEF Answers

\* A call goes on to a step at which what it has read is sound.
LEMMA GotoAnswers ==
  ASSUME ReadsInv, NEW c \in StatsCalls, call[c] \in ReadRecords,
         NEW step \in {"rated", "any", "store", "answered"}, Goto(c, step),
         step \in {"rated", "any"} => call[c].featured = NoQuest,
         step = "store" => FeaturedSince(call[c].featured, call[c].since),
         step = "answered" =>
           /\ SeenSince(call[c].counted, call[c].since)
           /\ FeaturedSince(call[c].featured, call[c].since),
         call[c].step # "answered"
  PROVE  \E read : Answers(c, read)
<1> DEFINE read == [call[c] EXCEPT !.step = step]
<1>1. call' = [call EXCEPT ![c] = read]
  BY DEF Goto
<1>2. /\ read \in ReadRecords /\ read.step = step /\ read.since = call[c].since
      /\ read.counted = call[c].counted /\ read.featured = call[c].featured
  BY DEF ReadRecords
<1>3. Sound(call[c]) /\ call[c].since \in Times
  BY StatsFields DEF ReadsInv
<1>4. call[c].since < call[c].since + CACHE_TTL_MS
  BY <1>3, TimesAssumption DEF Times
<1> HIDE DEF read
<1>5. Sound(read)
  BY <1>2, <1>3, <1>4 DEF Sound
<1> QED
  BY <1>1, <1>2, <1>5 DEF Answers

LEMMA ChooseFeaturedAnswers ==
  ASSUME HistoryInv, ReadsInv, NEW c \in StatsCalls, ChooseFeatured(c)
  PROVE  \E read : Answers(c, read)
<1> DEFINE step == call[c].step
<1>1. step \in {"pinned", "rated", "any"}
  BY DEF ChooseFeatured
<1>2. /\ call[c] \in ReadRecords /\ Sound(call[c])
      /\ call[c].since \in Times /\ call[c].since <= clock /\ call[c].featured = NoQuest
  BY <1>1, StatsFields DEF ReadsInv, Sound
<1>3. CASE Found(step) = {}
  <2>1. Goto(c, After(step))
    BY <1>3 DEF ChooseFeatured
  <2>2. After(step) \in {"rated", "any", "store"} /\ (After(step) = "store" => step = "any")
    BY <1>1 DEF After
  <2>3. step = "any" => FeaturedSince(NoQuest, call[c].since)
    BY <1>2, <1>3, FoundIsPublished, PresentSeen DEF FeaturedSince
  <2> QED
    BY <1>1, <1>2, <2>1, <2>2, <2>3, GotoAnswers
<1>4. CASE Found(step) # {}
  <2>1. PICK q \in Found(step) :
          call' = [call EXCEPT ![c] = [@ EXCEPT !.step = "load", !.featured = q]]
    BY <1>4 DEF ChooseFeatured
  <2> DEFINE read == [call[c] EXCEPT !.step = "load", !.featured = q]
  <2>2. call' = [call EXCEPT ![c] = read]
    BY <2>1
  <2>3. q \in Quests /\ q # NoQuest /\ FeaturedSince(q, call[c].since)
    BY <1>1, <1>2, FoundIsPublished, PresentSeen
  <2>4. /\ read \in ReadRecords /\ read.step = "load" /\ read.since = call[c].since
        /\ read.counted = call[c].counted /\ read.featured = q
    BY <1>2, <2>3 DEF ReadRecords
  <2> HIDE DEF read
  <2>5. Sound(read)
    BY <1>1, <1>2, <2>3, <2>4 DEF Sound
  <2> QED
    BY <2>2, <2>4, <2>5 DEF Answers
<1> QED
  BY <1>3, <1>4

LEMMA LoadFeaturedAnswers ==
  ASSUME ReadsInv, NEW c \in StatsCalls, LoadFeatured(c)
  PROVE  \E read : Answers(c, read)
<1>1. call[c].step = "load"
  BY DEF LoadFeatured
<1>2. call[c] \in ReadRecords /\ Sound(call[c])
  BY <1>1, StatsFields DEF ReadsInv
<1>3. CASE Goto(c, "store")
  BY <1>1, <1>2, <1>3, GotoAnswers DEF Sound
<1>4. CASE call' = [call EXCEPT ![c] = Failed]
  BY <1>4, StatsFields DEF Answers
<1> QED
  BY <1>3, <1>4 DEF LoadFeatured

LEMMA StoreAnswers ==
  ASSUME ReadsInv, NEW c \in StatsCalls, Store(c)
  PROVE  (\E read : Answers(c, read)) /\ cache' # Nothing /\
         \E s \in Times :
           /\ cache'.expiresAt = s + CACHE_TTL_MS /\ cache'.counted \in Counters
           /\ cache'.featured \in Quests \cup {NoQuest}
           /\ SeenSince(cache'.counted, s) /\ FeaturedSince(cache'.featured, s)
<1>1. call[c].step = "store" /\ call[c].counted # {NoQuest} /\ Goto(c, "answered")
  BY DEF Store
<1>2. call[c] \in ReadRecords /\ Sound(call[c])
  BY <1>1, StatsFields DEF ReadsInv
<1>3. /\ SeenSince(call[c].counted, call[c].since) /\ FeaturedSince(call[c].featured, call[c].since)
      /\ call[c].since \in Times /\ call[c].counted \in Counters
      /\ call[c].featured \in Quests \cup {NoQuest}
  BY <1>1, <1>2, StatsFields DEF Sound
<1>4. \E read : Answers(c, read)
  BY <1>1, <1>2, <1>3, GotoAnswers
<1>5. /\ cache'.expiresAt = call[c].since + CACHE_TTL_MS /\ cache'.counted = call[c].counted
      /\ cache'.featured = call[c].featured
  BY DEF Store, ExpiresAt
<1>6. cache' # Nothing
  BY <1>3, <1>5, TimesAssumption DEF Nothing, Times
<1> QED
  BY <1>3, <1>4, <1>5, <1>6

\* What is kept while time passes and the history grows.
LEMMA SoundKeeps ==
  ASSUME HistoryInv, CatalogueInv', clock' \in Times, clock <= clock',
         history' = [history EXCEPT ![clock'] = @ \cup {Published'}],
         NEW read \in ReadRecords, Sound(read)
  PROVE  Sound(read)'
<1>1. /\ \A S, since : SeenSince(S, since) => SeenSince(S, since)'
      /\ \A featured, since : FeaturedSince(featured, since) => FeaturedSince(featured, since)'
  BY HistoryStep
<1>2. read.since \in Nat /\ clock \in Nat /\ clock' \in Nat
  BY StatsFields, TimesAssumption DEF HistoryInv, Times
<1>3. read.since <= clock'
  BY <1>2 DEF Sound
<1> QED
  BY <1>1, <1>3 DEF Sound

LEMMA StatsStep ==
  ASSUME Inv, CatalogueInv', clock' \in Times, clock <= clock',
         history' = [history EXCEPT ![clock'] = @ \cup {Published'}],
         Statistics \/ UNCHANGED statsVars
  PROVE  HistoryInv' /\ ReadsInv' /\ CacheInv'
<1>1. /\ HistoryInv' /\ HistoryInv /\ ReadsInv /\ CacheInv
      /\ \A S, since : SeenSince(S, since) => SeenSince(S, since)'
      /\ \A featured, since : FeaturedSince(featured, since) => FeaturedSince(featured, since)'
  BY HistoryStep DEF Inv
<1>2. ASSUME cache' = cache
      PROVE  CacheInv'
  BY <1>1, <1>2 DEF CacheInv
<1>3. ASSUME NEW c \in StatsCalls, NEW read, Answers(c, read)
      PROVE  ReadsInv'
  <2>1. call' \in [StatsCalls -> ReadRecords \cup {NewCall, Failed}]
    BY <1>1, <1>3 DEF Answers, ReadsInv
  <2>2. ASSUME NEW d \in StatsCalls, call'[d] \in ReadRecords
        PROVE  Sound(call'[d])
    BY <1>1, <1>3, <2>2 DEF Answers, ReadsInv
  <2>3. \A x \in ReadRecords : Sound(x) => Sound(x)'
    BY <1>1, SoundKeeps
  <2> QED
    BY <2>1, <2>2, <2>3 DEF ReadsInv
<1>4. CASE UNCHANGED statsVars
  <2>1. \A x \in ReadRecords : Sound(x) => Sound(x)'
    BY <1>1, SoundKeeps
  <2> QED
    BY <1>1, <1>2, <1>4, <2>1 DEF statsVars, ReadsInv
<1>5. CASE Statistics
  <2>1. PICK c \in StatsCalls :
          Receive(c) \/ LoadCounts(c) \/ ChooseFeatured(c) \/ LoadFeatured(c) \/ Store(c)
    BY <1>5 DEF Statistics
  <2>2. \E read : Answers(c, read)
    BY <1>1, <2>1, ReceiveAnswers, LoadCountsAnswers, ChooseFeaturedAnswers, LoadFeaturedAnswers,
       StoreAnswers
  <2>3. CacheInv'
    <3>1. CASE Store(c)
      BY <1>1, <3>1, StoreAnswers DEF CacheInv
    <3>2. CASE cache' = cache
      BY <1>2, <3>2
    <3> QED
      BY <2>1, <3>1, <3>2 DEF Receive, LoadCounts, ChooseFeatured, LoadFeatured
  <2> QED
    BY <1>1, <1>3, <2>2, <2>3
<1> QED
  BY <1>4, <1>5

LEMMA Starts ==
  ASSUME Init
  PROVE  Inv
<1>1. CatalogueInv
  BY CatalogueStart DEF Init
<1>2. 0 \in Times
  BY TimesAssumption DEF Times
<1>3. Published \in SUBSET Quests
  BY DEF Published, Existing
<1>4. HistoryInv
  <2>1. clock = 0 /\ history = [t \in Times |-> IF t = 0 THEN {Published} ELSE {}]
    BY DEF Init
  <2>2. \A t \in Times : history[t] \in SUBSET SUBSET Quests
    BY <1>3, <2>1
  <2> QED
    BY <1>2, <2>1, <2>2 DEF HistoryInv
<1>5. ReadsInv
  BY StatsFields DEF Init, ReadsInv
<1>6. CacheInv
  BY DEF Init, CacheInv
<1> QED
  BY <1>1, <1>4, <1>5, <1>6 DEF Inv

LEMMA Steps ==
  ASSUME Inv, [Next]_vars
  PROVE  Inv'
<1>1. CASE Next
  <2>1. CatalogueNext \/ UNCHANGED catalogueVars
    BY <1>1 DEF Next, Tick
  <2>2. CatalogueInv'
    BY <2>1, CatalogueStep DEF Inv
  <2>3. Statistics \/ UNCHANGED statsVars
    BY <1>1 DEF Next, Tick
  <2>4. clock \in Times
    BY DEF Inv, HistoryInv
  <2>5. clock' \in Times /\ clock <= clock'
    <3>1. CASE clock' = clock
      BY <2>4, <3>1, TimesAssumption DEF Times
    <3>2. CASE Tick
      BY <2>4, <3>2, TimesAssumption DEF Tick, Times
    <3> QED
      BY <1>1, <3>1, <3>2 DEF Next
  <2>6. history' = [history EXCEPT ![clock'] = @ \cup {Published'}]
    BY <1>1 DEF Next
  <2>7. HistoryInv' /\ ReadsInv' /\ CacheInv'
    BY <2>2, <2>3, <2>5, <2>6, StatsStep
  <2> QED
    BY <2>2, <2>7 DEF Inv
<1>2. CASE UNCHANGED vars
  <2>1. UNCHANGED catalogueVars /\ UNCHANGED <<clock, cache, call, history>>
    BY <1>2 DEF vars, statsVars
  <2>2. CatalogueInv'
    BY <2>1, CatalogueStep DEF Inv
  <2>3. Published' = Published
    BY <2>1 DEF catalogueVars, Published, Existing, Quests
  <2>4. HistoryInv' /\ ReadsInv' /\ CacheInv'
    BY <2>1, <2>3 DEF Inv, HistoryInv, ReadsInv, CacheInv, Sound, SeenSince, FeaturedSince
  <2> QED
    BY <2>2, <2>4 DEF Inv
<1> QED
  BY <1>1, <1>2

\* The invariant of the catalogue and the statistics beside it: what each call of
\* quests.service.ts has read of a quest is still so, or marked as overtaken, and what
\* stats.service.ts has read, cached or answered was so at a moment in the history.
THEOREM StatsInductive == Spec => []Inv
<1>1. Init => Inv
  BY Starts
<1>2. Inv /\ [Next]_vars => Inv'
  BY Steps
<1> QED
  BY <1>1, <1>2, PTL DEF Spec

\* ratingCount and ratingAvg are those of the quest's ratings, however ratings, changes of
\* them, updates and deletions overlap, unless an aggregate was overtaken by a commit
\* (rate and unrate, quests.service.ts).
THEOREM CountsAgree == Spec => []RatingsAgree
<1>1. Inv => RatingsAgree
  BY DEF Inv, CatalogueInv
<1> QED
  BY <1>1, StatsInductive, PTL

\* No interleaving of updates leaves a published quest without publishedAt (update,
\* quests.service.ts).
THEOREM DateStays == Spec => []PublishedDated
<1>1. Inv => PublishedDated
  BY DEF Inv, CatalogueInv
<1> QED
  BY <1>1, StatsInductive, PTL

\* No answer of getPublicStats is older than CACHE_TTL_MS, its featured quest included,
\* whichever of several reloads stores last (stats.service.ts).
THEOREM AnswersFresh == Spec => []StatsFresh
<1>1. ASSUME Inv
      PROVE  StatsFresh
  <2> SUFFICES ASSUME NEW c \in StatsCalls, call[c].step = "answered"
               PROVE  /\ call[c].counted \in Lately(c)
                      /\ IF call[c].featured = NoQuest THEN {} \in Lately(c)
                         ELSE call[c].featured \in UNION Lately(c)
    BY DEF StatsFresh
  <2>1. call[c] \in ReadRecords /\ Sound(call[c])
    BY <1>1, StatsFields DEF Inv, ReadsInv
  <2>2. PICK s \in Times :
          /\ call[c].since < s + CACHE_TTL_MS
          /\ SeenSince(call[c].counted, s) /\ FeaturedSince(call[c].featured, s)
    BY <2>1 DEF Sound
  <2>3. ASSUME NEW S, SeenSince(S, s)
        PROVE  S \in Lately(c)
    <3>1. PICK t \in Times : s <= t /\ S \in history[t]
      BY <2>3 DEF SeenSince
    <3>2. call[c].since \in Nat /\ s \in Nat /\ t \in Nat /\ CACHE_TTL_MS \in Nat
      BY <2>1, StatsFields, TimesAssumption DEF Times
    <3>3. call[c].since < t + CACHE_TTL_MS
      BY <2>2, <3>1, <3>2
    <3> QED
      BY <3>1, <3>3 DEF Lately
  <2> QED
    BY <2>2, <2>3 DEF FeaturedSince
<1> QED
  BY <1>1, StatsInductive, PTL
=============================================================================
