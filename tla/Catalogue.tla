----------------------------- MODULE Catalogue -----------------------------
(***************************************************************************)
(* The quest catalogue and its ratings: create, update, delete, rate and   *)
(* unrate of quests.service.ts. The first three read and then write        *)
(* outside any transaction. rate and unrate are READ COMMITTED             *)
(* transactions of three statements: the caller's rating, the aggregate    *)
(* over the quest's ratings, and the quest row. The last of them and the   *)
(* commit are one action, since nothing happens in between.                *)
(*                                                                         *)
(* A delete waits for the ratings being written; where PostgreSQL instead  *)
(* finds it in a deadlock with one of them, the rating is rolled back.     *)
(***************************************************************************)
EXTENDS Integers, FiniteSets, Functions

CONSTANTS
  Users,
  Moderators,  \* the users of role ADMIN or MODERATOR
  Owners,      \* the users of role BUSINESS_OWNER
  Slugs,
  Scores,
  Requests,
  MaxQuests    \* bound: the ids quests are given, from 1 upwards

ASSUME RolesAssumption == Moderators \subseteq Users /\ Owners \subseteq Users
ASSUME ScoresAssumption == Scores \subseteq Nat \ {0}
ASSUME QuestsAssumption == MaxQuests \in Nat \ {0}

VARIABLES
  quest,     \* quest[q] : row q, Unused before it exists and Deleted after
  rating,    \* rating[<<u, q>>] : the score u gave q, 0 if there is no row
  request,
  overtaken  \* the quests whose last rating aggregated before another one committed;
             \* for the properties

catalogueVars == <<quest, rating, request, overtaken>>

Quests == 1 .. MaxQuests

Statuses == {"DRAFT", "PUBLISHED", "ARCHIVED"}

Unused  == [status |-> "unused"]
Deleted == [status |-> "deleted"]
Idle    == [step |-> "idle"]

Existing == {q \in Quests : quest[q] \notin {Unused, Deleted}}

Published == {q \in Existing : quest[q].status = "PUBLISHED"}

\* ratingAvg is kept as the sum it is the average of; a pinned quest has a featuredAt.
Draft(slug, author) ==
  [slug |-> slug, author |-> author, status |-> "DRAFT", dated |-> FALSE, pinned |-> FALSE,
   ratingSum |-> 0, ratingCount |-> 0]

QuestRows ==
  [slug : Slugs, author : Users, status : Statuses, dated : BOOLEAN, pinned : BOOLEAN,
   ratingSum : Nat, ratingCount : Nat]

Earlier(slug, author, status, pinned) ==
  [Draft(slug, author) EXCEPT !.status = status, !.dated = (status = "PUBLISHED"),
                              !.pinned = pinned]

\* To start with there is one quest: a draft, an archived draft, or one that is
\* published and perhaps pinned. The calls make the other kinds of it.
CatalogueInit ==
  /\ \E slug \in Slugs, author \in Moderators \cup Owners, status \in Statuses, pinned \in BOOLEAN :
       /\ pinned => status = "PUBLISHED"
       /\ quest = [q \in Quests |->
            IF q # 1 THEN Unused
            ELSE Earlier(slug, author, status, pinned)]
  /\ rating = [k \in Users \X Quests |-> 0]
  /\ request = [r \in Requests |-> Idle]
  /\ overtaken = {}

At(r, call, step) == request[r].step = step /\ request[r].call = call

\* A call that has ended keeps nothing.
Done == [step |-> "done"]

End(r) == request' = [request EXCEPT ![r] = Done]

Running(r) == request[r] \notin {Idle, Done}

-----------------------------------------------------------------------------
(* create, update and delete.                                              *)

\* Only some roles may create; findBySlug has found nothing.
ReceiveCreate(r) ==
  \E u \in Moderators \cup Owners, slug \in Slugs :
    /\ request[r] = Idle
    /\ \A q \in Existing : quest[q].slug # slug
    /\ request' = [request EXCEPT ![r] =
         [call |-> "create", step |-> "write", user |-> u, slug |-> slug]]
    /\ UNCHANGED <<quest, rating, overtaken>>

\* The unique slug may have been taken since, and the insert then fails.
Create(r) ==
  /\ At(r, "create", "write")
  /\ IF \E q \in Existing : quest[q].slug = request[r].slug
     THEN UNCHANGED quest
     ELSE \E q \in Quests :
            /\ quest[q] = Unused /\ \A p \in 1 .. q - 1 : quest[p] # Unused
            /\ quest' = [quest EXCEPT ![q] = Draft(request[r].slug, request[r].user)]
  /\ End(r)
  /\ UNCHANGED <<rating, overtaken>>

\* assertCanMutate
CanMutate(u, q) == u \in Moderators \/ quest[q].author = u

\* Faulty variant: the date is for the first publication of a draft.
DatesDraft(q, status) == status = "PUBLISHED" /\ quest[q].status = "DRAFT"

Dates(q, status) == status = "PUBLISHED" /\ ~ quest[q].dated

\* An update that names no status leaves all of this as it is.
ReceiveUpdate(r) ==
  \E u \in Users, q \in Existing, status \in Statuses :
    /\ request[r] = Idle
    /\ CanMutate(u, q)
    /\ request' = [request EXCEPT ![r] =
         [call |-> "update", step |-> "write", quest |-> q, status |-> status,
          date |-> Dates(q, status)]]
    /\ UNCHANGED <<quest, rating, overtaken>>

Updated(row, update) ==
  [row EXCEPT !.status = update.status, !.dated = row.dated \/ update.date]

\* An update of a row that is gone throws.
Update(r) ==
  /\ At(r, "update", "write")
  /\ LET q == request[r].quest
     IN  quest' = IF q \notin Existing THEN quest
                  ELSE [quest EXCEPT ![q] = Updated(quest[q], request[r])]
  /\ End(r)
  /\ UNCHANGED <<rating, overtaken>>

ReceiveDelete(r) ==
  \E u \in Users, q \in Existing :
    /\ request[r] = Idle
    /\ CanMutate(u, q)
    /\ request' = [request EXCEPT ![r] = [call |-> "delete", step |-> "write", quest |-> q]]
    /\ UNCHANGED <<quest, rating, overtaken>>

\* The rows an open transaction has written of a quest's ratings.
Written(q) ==
  {k \in Users \X {q} :
     \E r \in Requests : Running(r) /\ request[r].call = "rate"
                           /\ request[r].wrote /\ request[r].row = k}

\* The ratings go with the quest (onDelete: Cascade).
Delete(r) ==
  /\ At(r, "delete", "write")
  /\ LET q == request[r].quest
     IN  /\ q \in Existing => Written(q) = {}
         /\ quest' = [quest EXCEPT ![q] = Deleted]
         /\ rating' = [k \in DOMAIN rating |-> IF k[2] = q THEN 0 ELSE rating[k]]
         /\ overtaken' = overtaken \ {q}
  /\ End(r)

-----------------------------------------------------------------------------
(* rate and unrate; a score of 0 stands for the latter.                    *)

ReceiveRate(r) ==
  \E u \in Users, q \in Existing, score \in Scores \cup {0} :
    /\ request[r] = Idle
    /\ request' = [request EXCEPT ![r] =
         [call |-> "rate", step |-> "rate", row |-> <<u, q>>, score |-> score, wrote |-> FALSE,
          sum |-> 0, count |-> 0, outdated |-> FALSE]]
    /\ UNCHANGED <<quest, rating, overtaken>>

\* The upsert, or deleteMany, which writes nothing when it finds no row. A row somebody
\* else is writing is waited for. Without the quest a new row violates its foreign key,
\* and there is nothing to delete.
WriteRating(r) ==
  /\ At(r, "rate", "rate")
  /\ LET q == request[r].row[2]
         writes == request[r].score > 0 \/ rating[request[r].row] > 0
     IN  /\ writes => request[r].row \notin Written(q)
         /\ IF q \in Existing
            THEN request' = [request EXCEPT ![r] = [@ EXCEPT !.step = "aggregate", !.wrote = writes]]
            ELSE End(r)
  /\ UNCHANGED <<quest, rating, overtaken>>

\* The quest's ratings as r's transaction sees them: what is committed, and its own.
SeenBy(r) ==
  IF request[r].wrote THEN [rating EXCEPT ![request[r].row] = request[r].score] ELSE rating

\* The rows a query finds for quest q in a table of ratings.
RowsOf(table, q) == {k \in DOMAIN table : k[2] = q /\ table[k] > 0}

\* The average of no rating is null.
Sum(table, q) ==
  IF RowsOf(table, q) = {} THEN 0 ELSE SumFunction([k \in RowsOf(table, q) |-> table[k]])

\* Faulty variant: the aggregate is read outside the transaction.
AggregateCommitted(r) ==
  /\ At(r, "rate", "aggregate")
  /\ request' = [request EXCEPT ![r] = [@ EXCEPT !.step = "write",
       !.sum = Sum(rating, request[r].row[2]),
       !.count = Cardinality(RowsOf(rating, request[r].row[2]))]]
  /\ UNCHANGED <<quest, rating, overtaken>>

Aggregate(r) ==
  /\ At(r, "rate", "aggregate")
  /\ request' = [request EXCEPT ![r] = [@ EXCEPT !.step = "write",
       !.sum = Sum(SeenBy(r), request[r].row[2]),
       !.count = Cardinality(RowsOf(SeenBy(r), request[r].row[2]))]]
  /\ UNCHANGED <<quest, rating, overtaken>>

\* The quest row and the commit. Aggregates of the quest that others hold miss it.
WriteQuest(r) ==
  /\ At(r, "rate", "write")
  /\ LET q == request[r].row[2]
     IN  /\ q \in Existing
         /\ rating' = SeenBy(r)
         /\ quest' = [quest EXCEPT ![q] = [@ EXCEPT !.ratingSum = request[r].sum,
                                                    !.ratingCount = request[r].count]]
         /\ request' = [s \in Requests |->
              IF s = r THEN Done
              ELSE IF request[r].wrote /\ At(s, "rate", "write") /\ request[s].row[2] = q
              THEN [request[s] EXCEPT !.outdated = TRUE]
              ELSE request[s]]
         /\ overtaken' = IF request[r].outdated THEN overtaken \cup {q} ELSE overtaken \ {q}

\* A rating's transaction rolls back: time-out, a deadlock, or the process ends.
Rollback(r) ==
  /\ request[r].step \in {"aggregate", "write"} /\ request[r].call = "rate"
  /\ End(r)
  /\ UNCHANGED <<quest, rating, overtaken>>

CatalogueNext ==
  \E r \in Requests :
    \/ ReceiveCreate(r) \/ Create(r)
    \/ ReceiveUpdate(r) \/ Update(r)
    \/ ReceiveDelete(r) \/ Delete(r)
    \/ ReceiveRate(r) \/ WriteRating(r) \/ Aggregate(r) \/ WriteQuest(r) \/ Rollback(r)

-----------------------------------------------------------------------------
(* Properties.                                                             *)

CatalogueTypeOK ==
  /\ \A q \in Quests : quest[q] \in QuestRows \cup {Unused, Deleted}
  /\ rating \in [Users \X Quests -> Scores \cup {0}]
  /\ overtaken \subseteq Quests
  /\ \A r \in Requests :
       Running(r) /\ request[r].call = "rate" =>
         /\ request[r].row \in Users \X Quests /\ request[r].score \in Scores \cup {0}
         /\ request[r].count \in 0 .. Cardinality(Users) /\ request[r].sum \in Nat

\* ratingCount and ratingAvg are those of the quest's ratings, once a rating has
\* been written that no other one overtook between its aggregate and its commit.
RatingsAgree ==
  \A q \in Existing \ overtaken :
    /\ quest[q].ratingCount = Cardinality(RowsOf(rating, q))
    /\ quest[q].ratingSum = Sum(rating, q)

\* A published quest has its date of publication, whatever updates ran at once.
PublishedDated == \A q \in Published : quest[q].dated
=============================================================================
