-------------------------------- MODULE Feed --------------------------------
(***************************************************************************)
(* activityFeed of friendships.service.ts and a client that pages through  *)
(* it by meta.nextCursor, while friends go on being active. The five       *)
(* queries of a page are in one READ COMMITTED transaction: each sees what *)
(* has committed by then, so activities come and change between them. A    *)
(* write takes its time before it commits, and may wait for the row: the   *)
(* order of the times is not that in which rows come to be seen.           *)
(***************************************************************************)
EXTENDS Integers, Sequences, FiniteSetsExt

CONSTANTS
  Friends,
  Activities,     \* the rows of the tables read, as numbers: the order of their ids
  QuestRows,      \* those of QuestCompletion
  FriendOf,       \* FriendOf[i] : whose row i is
  Writers,        \* bound: the writes there are, each made once
  FirstMoment,    \* when the model begins, in milliseconds
  LastMoment,     \* bound: when the clock stops
  PageLimits      \* the limits a client may ask for

ASSUME FeedBoundsAssumption ==
  /\ Activities \subseteq Nat /\ IsFiniteSet(Activities) /\ QuestRows \subseteq Activities
  /\ FriendOf \in [Activities -> Friends]
  /\ FirstMoment \in Nat /\ LastMoment \in Nat /\ FirstMoment <= LastMoment
  /\ PageLimits \subseteq 1 .. 100

VARIABLES
  moment,
  friends,   \* the accepted friends of the reader
  activity,  \* activity[i] : what row i shows in the feed, Nothing as long as it shows none
  writing,   \* writing[w] : the write that w is about to commit
  reader     \* the client: the page it waits for, what it was given, where it goes on

feedVars == <<moment, friends, activity, writing, reader>>

\* Faulty variant: a quest completed between the two queries is found by both.
StartedFirst == <<"started", "completed", "achievement", "levelUp", "visit">>

\* The streams in the order they are read.
Streams == <<"completed", "started", "achievement", "levelUp", "visit">>

Nothing == [stream |-> "none"]

Idle == [step |-> "idle"]

Done == [step |-> "done"]

Start == LastMoment + 1  \* a cursor that is not given: everything is older

\* The reader at rest. It keeps to its limit. "given" and "page" are what the earlier pages and the last one
\* held, "cursors" the cursors it has had. For the properties: "first" is what there was
\* when it began, and of the rows written since, "changed" are those there were before,
\* "overtaken" those that got an older time, "between" what was written between the two
\* queries that read quests for the last page.
NewReader ==
  [step |-> 0, limit |-> 0, from |-> {}, rows |-> {}, cursor |-> Start, more |-> TRUE,
   given |-> {}, page |-> {}, cursors |-> {},
   first |-> {}, changed |-> {}, overtaken |-> {}, between |-> {}]

Shown(i) ==
  [stream : IF i \in QuestRows THEN {"started", "completed"} ELSE {"achievement"},
   id : {i}, at : 0 .. FirstMoment]

FeedInit ==
  /\ moment = FirstMoment
  /\ friends = Friends
  /\ activity \in [Activities -> UNION {Shown(i) \cup {Nothing} : i \in Activities}]
  /\ \A i \in Activities : activity[i] \in Shown(i) \cup {Nothing}
  /\ writing = [w \in Writers |-> Idle]
  /\ reader = NewReader

-----------------------------------------------------------------------------
(* What friends do meanwhile.                                              *)

Begin(w, write) ==
  /\ writing[w] = Idle
  /\ writing' = [writing EXCEPT ![w] = write]
  /\ UNCHANGED <<moment, friends, activity, reader>>

Proceed(w, write) ==
  /\ writing' = [writing EXCEPT ![w] = write]
  /\ UNCHANGED <<moment, friends, activity, reader>>

\* start() of a quest, one that is started or completed included: the time is taken
\* before the upsert, which creates the row or, when it is its turn, updates it.
StartQuestRow(w) ==
  \E i \in QuestRows :
    Begin(w, [step |-> "commit", row |-> i, stream |-> "started", at |-> moment])

\* finalizeQuestCompletionTx takes the time, then reads the status without a lock,
BeginCompletion(w) ==
  \E i \in QuestRows :
    Begin(w, [step |-> "check", row |-> i, stream |-> "completed", at |-> moment])

CheckStarted(w) ==
  /\ writing[w].step = "check" /\ activity[writing[w].row].stream = "started"
  /\ Proceed(w, [writing[w] EXCEPT !.step = "commit"])

\* An evaluation finds an achievement locked; unlock() takes the time and overwrites the
\* row, which another evaluation may have unlocked meanwhile. A place visit and a
\* level-up are like an unlock that no other overlaps.
FindLocked(w) ==
  \E i \in Activities \ QuestRows :
    /\ activity[i] = Nothing
    /\ Begin(w, [step |-> "stamp", row |-> i, stream |-> "achievement", at |-> moment])

StampUnlock(w) ==
  /\ writing[w].step = "stamp"
  /\ Proceed(w, [writing[w] EXCEPT !.step = "commit", !.at = moment])

\* The status is another one, the transaction fails, the process ends.
Abandon(w) ==
  /\ writing[w].step \in {"check", "stamp", "commit"}
  /\ Proceed(w, Done)

Between == reader.step = 2

\* What the reader's history says of row x.id becoming x.
Show(x) ==
  /\ activity' = [activity EXCEPT ![x.id] = x]
  /\ reader' = IF reader.step = 0 /\ reader.cursor = Start THEN reader
               ELSE [reader EXCEPT
                 !.changed = IF activity[x.id] = Nothing THEN @ ELSE @ \cup {x.id},
                 !.overtaken = IF activity[x.id] = Nothing \/ activity[x.id].at <= x.at
                               THEN @ ELSE @ \cup {x.id},
                 !.between = IF Between THEN @ \cup {x} ELSE @]

CommitWrite(w) ==
  /\ writing[w].step = "commit"
  /\ activity[writing[w].row].stream # "deleted"
  /\ Show([stream |-> writing[w].stream, id |-> writing[w].row, at |-> writing[w].at])
  /\ writing' = [writing EXCEPT ![w] = Done]
  /\ UNCHANGED <<moment, friends>>

\* With a quest its completions go, for good.
DeleteRow ==
  /\ \E i \in QuestRows : /\ activity[i].stream \in {"started", "completed"}
                          /\ Show([activity[i] EXCEPT !.stream = "deleted"])
  /\ UNCHANGED <<moment, friends, writing>>

Unfriend ==
  /\ \E u \in friends : friends' = friends \ {u}
  /\ UNCHANGED <<moment, activity, writing, reader>>

FeedTick ==
  /\ moment < LastMoment
  /\ moment' = moment + 1
  /\ UNCHANGED <<friends, activity, writing, reader>>

-----------------------------------------------------------------------------
(* A page.                                                                 *)

Existing == {activity[i] : i \in {j \in Activities : activity[j] # Nothing}}

\* acceptedFriendIds; without friends the page is empty and has no next one.
ReadFriends ==
  /\ reader.step = 0 /\ reader.more
  /\ \E limit \in (IF reader.cursor = Start THEN PageLimits ELSE {reader.limit}) :
       LET asks == [reader EXCEPT !.limit = limit,
                      !.given = @ \cup reader.page, !.page = {}, !.between = {},
                      !.first = IF reader.cursor = Start THEN Existing ELSE @]
       IN  reader' = IF friends = {} THEN [asks EXCEPT !.more = FALSE]
                     ELSE [asks EXCEPT !.step = 1, !.from = friends]
  /\ UNCHANGED <<moment, friends, activity, writing>>

PerStream(limit) == Min({500, Max({limit + 60, limit * 12})})

\* Newest first; of one moment, the greater id; of one row read twice, the stream that
\* was read first. (The queries leave the ids open, which tells where a stream is cut
\* only.)
Before(x, y) ==
  \/ x.at > y.at
  \/ x.at = y.at /\ x.id > y.id
  \/ x.at = y.at /\ x.id = y.id /\ x.stream = "completed" /\ y.stream = "started"

Newest(n, rows) == {x \in rows : Cardinality({y \in rows : Before(y, x)}) < n}

Older(x, cursor) == x.at < cursor

Found(stream) ==
  Newest(PerStream(reader.limit),
         {x \in Existing : /\ x.stream = stream /\ FriendOf[x.id] \in reader.from
                           /\ Older(x, reader.cursor)})

ReadStream ==
  /\ reader.step \in DOMAIN Streams
  /\ reader' = [reader EXCEPT !.step = @ + 1, !.rows = @ \cup Found(Streams[reader.step])]
  /\ UNCHANGED <<moment, friends, activity, writing>>

\* A stream is never longer than a page and cut as well, so what was cut is on a later one.
Merge ==
  /\ reader.step = Len(Streams) + 1
  /\ LET page == Newest(reader.limit, reader.rows)
         more == Cardinality(reader.rows) > reader.limit
         oldest == Min({x.at : x \in page})
     IN  reader' = [reader EXCEPT !.step = 0, !.from = {}, !.rows = {}, !.more = more,
           !.page = page,
           !.cursor = IF more THEN oldest ELSE @,
           !.cursors = IF more THEN @ \cup {oldest} ELSE @]
  /\ UNCHANGED <<moment, friends, activity, writing>>

Finished == reader.step = 0 /\ ~ reader.more

\* Bound: all rest once the client has come to the end.
FeedNext ==
  /\ ~ Finished
  /\ \/ \E w \in Writers :
          \/ StartQuestRow(w) \/ BeginCompletion(w) \/ CheckStarted(w)
          \/ FindLocked(w) \/ StampUnlock(w) \/ Abandon(w) \/ CommitWrite(w)
     \/ DeleteRow \/ Unfriend \/ FeedTick
     \/ ReadFriends \/ ReadStream \/ Merge

-----------------------------------------------------------------------------
(* Properties.                                                             *)

\* What the reader should have by the end: of what was there when it began, the rows
\* that still are and whose owner still is a friend.
Due == {x \in reader.first : FriendOf[x.id] \in friends /\ activity[x.id].stream # "deleted"}

HandedOut == reader.given \cup reader.page

\* What happened to row i between the two queries of quests of the last page.
CompletedBetween(i) == \E x \in reader.between : x.id = i /\ x.stream = "completed"
RestartedBetween(i) == \E x \in reader.between : x.id = i /\ x.stream = "started"

\* Friends being active all the while, a client that pages to the end has been given
\* every row there was at first, but one of the very millisecond a page ended with; or
\* one that has got a time since for which it would have to begin anew; or one that was
\* completed between the queries of quests for the last page; or one on which two
\* writes committed in the other order than they took their times. Only such a row is
\* on a second page, as what it was before; and on one page twice is only one that was
\* started over between those queries.
FeedPaging ==
  /\ Finished =>
       \A x \in Due :
         \/ \E y \in HandedOut : y.id = x.id
         \/ x.id \notin reader.changed /\ x.at \in reader.cursors
         \/ x.id \in reader.changed /\ activity[x.id].at >= reader.cursor
         \/ CompletedBetween(x.id) \/ x.id \in reader.overtaken
  /\ \A x \in reader.page, y \in reader.given :
       x.id = y.id => x.at < y.at /\ x.id \in reader.overtaken
  /\ \A x, y \in reader.page : (x.id = y.id /\ x # y) => RestartedBetween(x.id)

\* friendships.controller.ts promises that meta.nextCursor leads on: the pages together
\* hold everything that was there all the time.
FeedComplete ==
  Finished => {x \in Due : x.id \notin reader.changed} \subseteq HandedOut
=============================================================================
