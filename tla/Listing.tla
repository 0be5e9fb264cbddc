------------------------------ MODULE Listing ------------------------------
(***************************************************************************)
(* The listings in pages: quests, users by five sorts, a user's quest      *)
(* history, businesses and notifications. Each reads a page by skip and    *)
(* take and counts the rows with a second statement (READ COMMITTED: a     *)
(* snapshot each), and buildPaginationMeta tells the client whether to go  *)
(* on. Meanwhile rows come, leave and move. But for the users, nothing     *)
(* tells rows apart that have the same time: a query may return them in    *)
(* any order, and the next in another.                                     *)
(***************************************************************************)
EXTENDS Integers, Sequences, FiniteSetsExt, Functions

CONSTANTS
  MaxRows,       \* bound: the ids of rows, from 1 upwards
  MaxValue,      \* bound: what rows are sorted by, from 1 upwards
  MaxChanges,    \* bound: how often the rows change meanwhile
  Limits         \* the limits a client may ask for

ASSUME ListingAssumption ==
  MaxRows \in Nat /\ MaxValue \in Nat \ {0} /\ MaxChanges \in Nat /\ Limits \subseteq 1 .. 100

\* By createdAt, the user's startedAt and completedAt; and UserListSort.
ByTime == {"quests", "businesses", "notifications", "startedHistory", "completedHistory"}

UserSorts == {"XP_DESC", "XP_ASC", "LEVEL_DESC", "USERNAME_ASC", "CREATED_DESC"}

Histories == {"startedHistory", "completedHistory"}

VARIABLES
  listing,  \* the one that is asked for
  rows,     \* the ids of the rows it lists
  value,    \* value[i] : what row i is sorted by, a number for its place among the values
  changes,  \* how often they changed
  client    \* the client that goes through the pages

tableVars   == <<listing, rows, value, changes>>
listingVars == <<tableVars, client>>

Ids == 1 .. MaxRows

\* "held" tells page by page what the client got. For the properties: "first" are the
\* rows there were when it began; "came" and "left" tell whether rows did since, "rose"
\* and "sank" are those that moved, "split" those that shared their time across the end
\* of a page.
ListingInit ==
  /\ listing \in ByTime \cup UserSorts
  /\ rows \in SUBSET Ids
  /\ value \in [Ids -> 1 .. MaxValue]
  /\ changes = 0
  /\ client = [step |-> "ask", page |-> 1, limit |-> 0, items |-> {}, first |-> {}, held |-> <<>>,
               came |-> FALSE, left |-> FALSE, rose |-> {}, sank |-> {}, split |-> {}]

-----------------------------------------------------------------------------
(* The order.                                                              *)

\* Whether a row of value v comes before one of value w.
Sooner(v, w) == IF listing \in {"XP_ASC", "USERNAME_ASC"} THEN v < w ELSE v > w

\* userListOrderBy goes on by id, the other queries do not say how they go on.
ById == [i \in Ids |-> i]

AnyOrder == {tie \in [Ids -> Ids] : IsInjective(tie)}

TieBreaks == IF listing \in UserSorts THEN {ById} ELSE AnyOrder

Precedes(i, j, tie) ==
  Sooner(value[i], value[j]) \/ (value[i] = value[j] /\ tie[i] < tie[j])

-----------------------------------------------------------------------------
(* What happens to the rows while the client goes through them.            *)

Change ==
  /\ client.page > 1 \/ client.step = "count"
  /\ client.step # "end" /\ changes < MaxChanges
  /\ changes' = changes + 1

\* A quest is published, where its age puts it; a user registers or comes to match the
\* search; a business or a notification is created; a quest is started or completed. The
\* order in which rows are seen is not that of their times, which are taken earlier.
AddRow ==
  /\ Change
  /\ \E i \in Ids \ rows, v \in 1 .. MaxValue :
       /\ listing \in Histories \/ v = value[i]
       /\ rows' = rows \cup {i}
       /\ value' = [value EXCEPT ![i] = v]
  /\ client' = [client EXCEPT !.came = TRUE]
  /\ UNCHANGED listing

\* A quest is deleted or taken back; a completion goes with its quest or on to another
\* status; a user or a business no longer matches the search. Notifications stay.
RemoveRow ==
  /\ Change /\ listing # "notifications"
  /\ \E i \in rows : rows' = rows \ {i}
  /\ client' = [client EXCEPT !.left = TRUE]
  /\ UNCHANGED <<listing, value>>

\* Row i gets value v, and a new place.
Revalue(i, v) ==
  /\ Change /\ v # value[i]
  /\ value' = [value EXCEPT ![i] = v]
  /\ client' = IF Sooner(v, value[i]) THEN [client EXCEPT !.rose = @ \cup {i}]
               ELSE [client EXCEPT !.sank = @ \cup {i}]
  /\ UNCHANGED <<listing, rows>>

\* XP and with it the level grow by an award; the absolute write of a referral, and a
\* level that was computed from an earlier reading, make them fall again.
ChangeXp ==
  /\ listing \in {"XP_DESC", "XP_ASC", "LEVEL_DESC"}
  /\ \E i \in rows, v \in 1 .. MaxValue : Revalue(i, v)

\* A quest that is started is started again, or two calls complete it: its row gets
\* another time, an older one if they commit in the other order.
StampAgain ==
  /\ listing \in Histories
  /\ \E i \in rows, v \in 1 .. MaxValue : Revalue(i, v)

-----------------------------------------------------------------------------
(* One page.                                                               *)

\* Faulty variant: pages counted from 0.
SkipFromZero(page, limit) == page * limit

Skip(page, limit) == (page - 1) * limit

Place(i, tie) == Cardinality({j \in rows : Precedes(j, i, tie)})

\* The rows that may be on either side of the end of a page, sharing their time with
\* others across it.
SplitAt(end) ==
  {i \in rows : /\ \E tie \in TieBreaks : Place(i, tie) < end
                /\ \E tie \in TieBreaks : end <= Place(i, tie)}

\* findMany. The client keeps to the limit it began with.
ReadPage ==
  /\ client.step = "ask"
  /\ \E limit \in (IF client.page = 1 THEN Limits ELSE {client.limit}) :
       LET skip == Skip(client.page, limit)
           asks == [client EXCEPT !.step = "count", !.limit = limit,
                      !.first = IF client.page = 1 THEN rows ELSE @,
                      !.split = @ \cup SplitAt(skip + limit)]
       IN  \E tie \in TieBreaks :
             client' = [asks EXCEPT
               !.items = {i \in rows : skip <= Place(i, tie) /\ Place(i, tie) < skip + limit}]
  /\ UNCHANGED tableVars

ListQuests == listing = "quests" /\ ReadPage

ListUsers == listing \in UserSorts /\ ReadPage

GetQuestHistory == listing \in Histories /\ ReadPage

ListBusinesses == listing = "businesses" /\ ReadPage

ListNotifications == listing = "notifications" /\ ReadPage

\* buildPaginationMeta
TotalPages(limit, total) == Max({1, (total + limit - 1) \div limit})

HasNext(page, limit, total) == page < TotalPages(limit, total)

\* The count comes second, and may count what the page has not seen.
CountRows ==
  /\ client.step = "count"
  /\ client' = [client EXCEPT !.items = {}, !.page = @ + 1, !.held = Append(@, client.items),
       !.step = IF HasNext(client.page, client.limit, Cardinality(rows)) THEN "ask" ELSE "end"]
  /\ UNCHANGED tableVars

ListingNext ==
  \/ AddRow \/ RemoveRow \/ ChangeXp \/ StampAgain
  \/ ListQuests \/ ListUsers \/ GetQuestHistory \/ ListBusinesses \/ ListNotifications
  \/ CountRows

-----------------------------------------------------------------------------
(* Properties.                                                             *)

Seen == UNION Range(client.held)

\* A client that goes on while hasNext says so has missed none, at the end, of the rows
\* there were at first, but those that rose or shared their time across the end of a
\* page, unless rows left or sank and moved others to a page it had been to. It has got
\* none twice, but those that sank or shared their time so, unless rows came in or rose.
\* Were the rows at rest, every page but the last was full.
PagesComplete ==
  client.step = "end" =>
    /\ (~ client.left /\ client.sank = {}) =>
         client.first \ (client.rose \cup client.split) \subseteq Seen
    /\ (~ client.came /\ client.rose = {}) =>
         \A m, n \in DOMAIN client.held :
           m # n => client.held[m] \cap client.held[n] \subseteq client.sank \cup client.split
    /\ (~ client.came /\ ~ client.left /\ client.rose = {} /\ client.sank = {}) =>
         \A n \in DOMAIN client.held :
           n < Len(client.held) => Cardinality(client.held[n]) = client.limit
=============================================================================
