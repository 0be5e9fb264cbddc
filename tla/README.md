# SideQuest backend: TLA+ models and proofs

SideQuest is a NestJS service over PostgreSQL (Prisma): players start quests,
check in at their stops by GPS, complete them, collect XP, levels, streaks and
achievements, rate quests, befriend and invite each other. Several replicas of
one Node process may run; each serves many requests at a time, and every
`await` of a handler lets another request run. What is hard here is not any one
handler but what two of them do to the same rows.

This directory models those handlers in TLA+, checks the models with TLC and
proves what matters most with TLAPS. Paths below are relative to the repository
unless they end in `.tla` or `.cfg`.

## Inventory

| Component | State | Operations | Interacts with | Hard | Correct when |
|---|---|---|---|---|---|
| Quest play (`src/modules/quests/quests.service.ts`) | `QuestCompletion`, `QuestLocationCheckIn`, counters of `User` | start, complete, check-in, the shared `finalizeQuestCompletionTx` | transactions, XP curve, event bus | interleaved statements, stale reads, rollback, lost connection | records of a visit agree; the last check-in completes; one award per finished start; level worth the XP; no deadlock |
| Transactions (`src/prisma/prisma.service.ts`) | PostgreSQL's row locks | `runInTransaction` | every service | READ COMMITTED, 10 s timeout | rollback leaves nothing |
| XP curve (`src/common/gamification/xp.ts`) | none | `levelFromXp`, `xpForLevel`, `progressFromXp` | quests, achievements, invites, users | boundaries | level and threshold are inverse, monotone |
| Quest catalogue (`quests.service.ts`, `quests.repository.ts`) | `Quest`, `QuestLocation` | create, update, delete, list | quest play, statistics | check-then-create slug, `publishedAt` set twice, cascade | one slug; first publication time kept |
| Ratings (`quests.service.ts`) | `QuestRating`, `Quest.ratingAvg/ratingCount` | rate, unrate | catalogue | aggregate read before the other rating commits | stored average is that of the rows |
| Achievements (`src/modules/achievements`) | `UserAchievement`, `User.xp/level` | evaluate on three events, unlock | event bus, XP curve | overlapping evaluations, error between two definitions | one bonus per unlock; level worth the XP |
| Streaks (`quests.service.ts`, `src/modules/schedules`) | `User.streakDays/longestStreakDays` | computeStreak, nightly reset | quest play | hour windows against UTC days, cron between read and write | longest never below current |
| Friendships (`src/modules/friendships`) | `Friendship` | request, accept, block, remove | event bus, invites | opposite requests, block against accept | one row per pair; a block holds; friends agreed |
| Activity feed (`friendships.service.ts`) | none: reads `QuestCompletion`, `UserAchievement`, notifications of levels, visits | `activityFeed` by cursor | friendships | five reads that are not of one moment; rows that commit later than they are stamped; equal timestamps at a page's end | pages together hold everything, nothing twice, but for the named overlaps |
| Invites (`src/modules/invites`, `auth.service.ts` `register`) | `Invite` | create, cancel, claim in registration | users, friendships, XP | one token, two registrations; daily limit; a cancel beside a claim; absolute XP write | claimed once, together with the account; limit kept; no XP lost |
| Sessions (`src/modules/auth`) | `User.refreshTokenHash` | login, refresh, logout | users | one hash, overlapping refresh and logout, tokens of one second | an exchanged or revoked token is dead, the newest one good |
| Event bus (`src/modules/events`) | listeners in memory | emit, on, off | quests, achievements, friendships, notifications | nothing persisted, listeners not awaited | events tell only of what committed |
| Notifications (`src/modules/notifications`) | `Notification`, sockets | six listeners, send, list, mark read | event bus | failure between store and push; a list beside a push | a client that joins and lists misses nothing |
| Public statistics (`src/modules/stats`) | a cache of five minutes | `getPublicStats` | catalogue | overlapping reloads, an answer put together from several moments | no answer older than the cache allows |
| User statistics (`users.service.ts` `getStats`) | none | several reads after the user row | quest play | counts of several moments | nothing there uncounted |
| Leaderboard (`src/modules/leaderboard`) | none | top and own rank | quest play | two statements, the start of week and month | one ranking, of the period asked for |
| Business portal (`src/modules/businesses`) | none modelled | metrics and top quests of a period | quest play | two windows, late commits | each completion in one window |
| Listings and pagination (`common/responses`, five listings) | none | a page and a count | all tables | rows that come, leave, rise or sink between pages; ties no query decides | hasNext leads through everything that stayed in its place |
| Presence (`last-seen-at.interceptor.ts`, `friendships.service.ts` `listFriends`) | `User.lastSeenAt` | ping, status of a friend | every request | pings throttled, unawaited, out of order | shown as present while present |
| Map and nearby (`src/modules/map`, `geo`, `quests.service.ts` `listNearby`) | none | search by radius, pins of a viewport | catalogue | a box that is not the circle, limits before sorting | list and map agree |
| Categories, uploads, HTTP shell, seed | | reads, file I/O, a script | | | not modelled, see below |

`PROJECT.json` lists the hazards at their lines; the properties are written for
them.

## Plan

1. **Core (done).** `Gamification`, `RowLocks`, `QuestLedger` (abstract),
   `QuestPlay` (detailed), with proofs.
2. **`Progression` (done).** The writers of `User.xp` and `User.level` together:
   finalization, `unlock` and the referral bonus, on top of `RowLocks` and
   `Gamification`, with proofs.
3. **`Friendships`, `EventsBus`, `Notifications`, composed in `Social` (done).**
   Calls of two users, their events, what the listeners store and push.
4. **`Invites`, `Sessions`, `Streaks` (done).** One table or row each, under all
   the calls that read and then write it, with the clock that ends them.
5. **`Catalogue`, which `PublicStats` extends (done).** Create, update, delete and
   ratings under READ COMMITTED, with the cache that is read beside them.
6. **The calls that read, composed in `Reads` (done).** Several statements or
   several pages, while the tables are being written.
7. **Theorems about `Streaks` and `Invites` (done).** Streaks that are earned and
   spared, invites that serve one account, are cancelled for good and keep the limit.
8. **Theorems about `Social`, `Sessions`, `Catalogue` and `PublicStats` (done).**
   Each property of their runs, for any number of users, calls and quests.
9. **Theorems about the seven parts of `Reads` (done).** An invariant of its own for
   each, on lemmas about the places rows have in an order and about pages.
10. Left: action properties of the tables (what a step may never take back) where
   the invariants only say what may be there; an abstract specification of a session
   with one live token, and one of a friendship as an unordered pair, would be worth
   stating once it is settled which overlaps they must allow.

Every module takes its parameters as CONSTANTS with named assumptions, has one
action per database statement, and declares no RECURSIVE operator, so that it can
be proved about. Rows contended for are few, so instances of one or two users
and two to four concurrent requests show every pairwise race; that is the bound
of all runs.

## Modules

| Module | What it is |
|---|---|
| `Gamification.tla` | `xp.ts` as operators. `floor(sqrt(xp/100))` is the integer root: XP is a 32-bit column, so the double arithmetic is exact. |
| `RowLocks.tla` | Row locks as a transaction in READ COMMITTED meets them: `Free`, `Take`, `Release` over a function from rows to owners. PostgreSQL itself is external. |
| `QuestLedger.tla` | What a player should see: `Start`, `Finish`, `Visit`, each one atomic step. No transactions, no locks. |
| `QuestPlay.tla` | The three handlers, one action per statement, and the properties. |
| `QuestPlayMC.tla` | The instance TLC checks. |
| `QuestPlayProofs.tla` | Types, the steps of each endpoint, who holds which lock, no deadlock; what the tables and the event counters hold; `QuestPlay` implements `QuestLedger`. |
| `Progression.tla` | Awards, evaluations of achievements and referral bonuses, one action per statement, and the properties. |
| `ProgressionMC.tla` | The instance TLC checks. |
| `ProgressionProofs.tla` | The XP curve, for every XP; types, XP, levels, announcements, unlocked rows. |
| `EventsBus.tla` | Listeners at work, as a set of deliveries in the memory of a process. |
| `Friendships.tla` | request, accept, block, remove, one action per statement. |
| `Notifications.tla` | Listeners that store and push, and a client that joins and lists. |
| `Social.tla`, `SocialMC.tla` | The last three in one process that may end; the instance. |
| `SocialProofs.tla` | Types, blocks, friends who agreed, pairs, notifications that are not missed. |
| `Invites.tla`, `InvitesMC.tla` | Invites and the registrations that claim them, on top of `RowLocks`; the instance. |
| `InvitesProofs.tla` | Types, claims and their locks, cancellations, the daily limit. |
| `Sessions.tla` | The one refresh token of a user. |
| `SessionsProofs.tla` | Types, tokens that are dead after a logout or an exchange, a newest one that is not refused. |
| `Streaks.tla` | `computeStreak` in overlapping transactions, and the nightly job. |
| `StreaksProofs.tla` | Types, streaks that are earned, streaks that are spared. |
| `Catalogue.tla` | Quests and ratings. |
| `PublicStats.tla`, `PublicStatsMC.tla` | The cache of the public statistics, over `Catalogue`; the instance. |
| `PublicStatsProofs.tla` | Types, ratings that agree, dates of publication, answers that are fresh. |
| `Feed.tla`, `Leaderboard.tla`, `Portal.tla`, `Listing.tla`, `Presence.tla`, `UserStats.tla`, `Nearby.tla` | One call that reads, each with the writers it races. |
| `Reads.tla`, `ReadsMC.tla` | Those seven side by side; the instance. |
| `ReadsProofs.tla` | Places in an order; the property of each of the seven. |

### QuestPlay and the code

A request `r` is a record: the endpoint, the player, the quest, the stop, the XP
it has read, whether it has finalized, and `step`, the statement it runs next.

| Action | Code (`quests.service.ts` unless said) |
|---|---|
| `ReceiveStart`, `ReceiveComplete`, `ReceiveCheckIn` | the handler up to its first statement on the modelled tables: quest found, published, location of the quest, within the radius |
| `UpsertCompletion` | `quest-completions.repository.ts` `start`, a transaction of its own |
| `FindCheckIn`, `FindActive` | the reads before the transaction, with their early returns |
| `FindDuplicate`, `CreateCheckIn`, `PushStop`, `AddVisit`, `CountStops` | the check-in transaction, statement by statement |
| `ReadUser`, `ReadStatus`, `SetCompleted`, `AwardUser` | `finalizeQuestCompletionTx`, from either endpoint |
| `Commit` | the end of `runInTransaction`: all writes of the request appear and its locks go |
| `Emit` | the events the handler puts on the bus after the commit; the bus is synchronous, so they are one step |
| `Rollback`, `Die` | an exception in the transaction; a crash, a lost connection or the 10 s limit at any statement |
| `UpdateStatus` | `update`, which publishes and unpublishes |

Uncommitted writes are private to their transaction, so they are not variables:
the rows a request has written are locked by it (`lock`), and `WrittenRow` and
`WrittenUser` say at the commit what it leaves there. This is what READ COMMITTED
does for `{ increment }` and `{ push }`, which PostgreSQL evaluates on the newest
committed version of the locked row, and for `level`, which the handler computed
itself from `xpRead`.

Abstractions: a quest's stops and reward are constants; the distance check is a
choice; streak, distance, duration, timestamps and proof, which the same update
writes, are left out because no modelled decision reads them; `update` changes
nothing but whether the quest is published. A request that dies after its commit
keeps what it committed.

### Progression and the code

A task `t` is an award, a referral or an evaluation at work, a record of its
player, the statement it runs next (`step`), the XP and level it has read, the
definition it is at and its copy of that `UserAchievement` row. The event bus
calls listeners synchronously and their promises are dropped, so the evaluation
that an award or a referral sets off begins where the emitting task ends: the
same task goes on as an evaluation. Evaluations of other events
(`QuestLocationCheckedIn`, `FriendRequestAccepted`) start as tasks of their own.

| Action | Code |
|---|---|
| `ReadXp`, `WriteAward`, `CommitAward`, `EmitAward` | `quests.service.ts` `finalizeQuestCompletionTx` as far as it touches `User`, and the events after it |
| `ReadInviter`, `WriteBonus`, `CommitReferral`, `EmitReferral` | `invites.service.ts` `consumeReferralInviteTx` from line 221 and `emitReferralCompleted` |
| `Find`, `Measure`, `Update`, `Create`, `Continue` | `achievements.service.ts` `evaluateForUser` and `evaluateWithProgress`, one turn of the loop |
| `ReadLevel`, `Upsert`, `AddXp`, `CommitUnlock`, `ReadAfter` | `unlock`; both updates of the user row are one step, since the row is locked from the first to the commit |
| `Restart` | `quest-completions.repository.ts` `start` on a completed quest, which takes its row out of the counts |
| `Crash` | the end of a process with all its open tasks, or of one request; also what a failing `Create` comes to, because nobody handles the rejection of a listener |

Abstractions: an award and `QuestPlay`'s finalization are the same code, here
without the completion row, whose lock and status `QuestPlay` covers; that of a
last check-in owns the user row before it reads XP, so its runs are some of
those modelled. Which quest is finished is left out: an award may find its row
counted already (`newlyCompleted`), as the double award of `QuestPlay` does. The
invitee's row is new and in nobody else's hands, so a referral is modelled for
the inviter. The counts of quests, categories and locations are one metric that
moves with completions; friends and streak days are numbers that change at any
time. `history` is not in the code: it records what was granted and announced,
for the properties, and no action reads it except to extend it.

### Friendships, notifications and the code

A request `r` is a record of the call, the users, the id it has found and the
statement it runs next; `friendship` is the table, `bus` the listeners at work.

| Action | Code |
|---|---|
| `Receive` | the handler up to its first statement (`friendships.service.ts`); "elsewhere" is a call of another service that ends with an event about its own user |
| `FindNone`, `FindToAccept`, `FindToBlock`, `FindToRemove` | `findBetween` and `findById` with the checks after them |
| `CreateRow`, `UpdateStatus`, `DeleteRow` | the repository's writes, by unique key or by id |
| `EmitEvent` | `FriendRequestSent` and `FriendRequestAccepted` |
| `Create`, `CreateFails`, `Push` | a listener of `notifications.service.ts`: the row, the log of a failure, the gateway |
| `Join`, `Disconnect`, `List`, `MarkRead`, `MarkAllRead` | the socket and the client's calls |
| `Crash` | the end of the process: open requests, listeners and sockets go, tables stay |

The listeners of quests, levels and achievements store and push in the same two
steps and are the event `OwnEvent`; the listener of a friend event first reads
the other party's summary, where a failure is nobody's to handle (`Crash`).

### Invites, sessions, streaks and the code

| Module | Actions | Code |
|---|---|---|
| `Invites` | `FindUser`, `Count`, `Supersede`, `Insert` | `invites.service.ts` `createInvite` |
| | `FindInvite`, `Cancel` | `cancel` |
| | `FindUser`, `CreateUser`, `ReadToken`, `Claim`, `Commit`, `Refuse` | `auth.service.ts` `register` and `consumeReferralInviteTx` in one transaction |
| | `Die`, `Midnight` | a lost connection; the day that the limit and the expiry go by |
| `Sessions` | `ReadForLogin`, `Verify`, `ReadForRefresh`, `Sign`, `Store` | `auth.service.ts` `login`, `refresh`, `issueTokens` |
| | `Authorize`, `Clear` | `jwt.strategy.ts` and `logout` |
| | `SetStatus`, `Tick`, `Die` | the account suspended or restored by hand; seconds; an abandoned call |
| `Streaks` | `ReadUser`, `WriteUser` | the streak's part of `finalizeQuestCompletionTx`, and `computeStreak` |
| | `Rollover`, `MissRollover`, `Tick` | `streak-rollover.service.ts`, a process that is down at midnight, time |

A refresh token is a signed user, type and second, so two that are signed in one
second are equal: a token is its second. `Streaks` measures time since the last
completion in ticks, and forgets what is older than the code tells apart, so
its clock goes on for ever. What a registration pays out (friendship, XP) is in
`Progression`.

### Catalogue, public statistics and the code

| Action | Code |
|---|---|
| `ReceiveCreate`, `Create` | `findBySlug`, then the insert and its unique key |
| `ReceiveUpdate`, `Update` | the row that is read with `assertCanMutate` and the date it settles, then the update by id |
| `ReceiveDelete`, `Delete` | the same check, then the delete and its cascade |
| `ReceiveRate`, `WriteRating`, `Aggregate`, `WriteQuest`, `Rollback` | `rate` and `unrate`: upsert or delete, aggregate, write-back and commit |
| `Receive`, `LoadCounts`, `ChooseFeatured`, `LoadFeatured`, `Store` | `stats.service.ts` `getPublicStats`: cache, counters, three searches, `getById`, cache |

The code itself never writes `featuredAt`; the initial state may hold a pinned
quest all the same, because the search looks for one.

### The calls that read and the code

| Module | The call | What is written meanwhile |
|---|---|---|
| `Feed` | `friendships.service.ts` `activityFeed`: `ReadFriends`, `ReadStream` (five), `Merge`; a client follows `nextCursor` | quests started, completed, started over, achievements, each stamped, waiting and committed in any order or given up; quests deleted; friends lost |
| `Leaderboard` | `ReadTop`, `ReadMine` | quests, bonuses, suspensions, days |
| `Portal` | `CountQuestCompletions` in two windows in either order, then `ListTopQuests` | completions stamped, committed, deleted |
| `Listing` | `ListQuests`, `ListUsers`, `GetQuestHistory`, `ListBusinesses`, `ListNotifications`, each with `CountRows`; users by all five sorts, histories by `startedAt` and by `completedAt` | rows added, published, removed; XP and level rising and falling; quests stamped again |
| `Presence` | `Ping` of the interceptor, `Status` of `listFriends` | requests, quests started and ended, a process that ends |
| `UserStats` | `ReadUserRow`, `ReadStatement` (counts by status, categories) | the user's quests in any order |
| `Nearby` | `ListNearby`, then `GetPinsInBounds` of the same viewport | quests created, published, withdrawn |

Counts are kept as the set of what was counted, so that a property can say which
row is missing. A read of several statements is in READ COMMITTED also where
`$transaction` wraps it, so each statement sees its own moment.

## Runs

| Run | Result | What it shows |
|---|---|---|
| `QuestPlay.cfg` | passes, 167,644 states | all properties below |
| `QuestDoubleAward.cfg` | `FinishOnlyStarted` is violated | two overlapping `complete()` of one start both award |
| `Progression.cfg` | passes, 65,647 states | all properties of `Progression` below |
| `LevelUpMissed.cfg` | `CrossingAnnounced` is violated | an award beside a bonus crosses a level boundary without a `LevelUp` |
| `Social.cfg` | passes, 1,292,948 states | blocks, friends, pairs and notifications under three calls and a crash |
| `Invites.cfg` | passes, 641,440 states | one account per invite, the limit, cancellation |
| `Sessions.cfg` | passes, 435,436 states | which refresh tokens are good |
| `Streaks.cfg` | passes, 52,289 states | streaks are earned, spared, and end |
| `StreakStands.cfg` | `DailyQuestsCount` is violated | three days of quests and no streak of three |
| `PublicStats.cfg` | passes, 2,574,002 states | ratings, dates of publication, freshness of the cache |
| `Reads.cfg` | passes, 3,031,251 states | what each reading call owes its client |
| `FeedComplete.cfg` | `FeedComplete` is violated | the cursor of the feed loses an entry |

Bounds of `QuestPlay`: one player, one quest with two stops, reward 50, `MaxRequests` 4 (3 for
the violation). Requests of different players share no row, and requests on
different quests of one player share only the user row, so one player and one
quest make every lock contended. Two stops are the least with a last and a
not-last check-in; with four requests a quest can be started, both stops checked
in at once and a `complete()` or a second `start()` overlap them. One reward
of 50 stays on level 1 and two meet the threshold of level 2 (100) exactly. The theorems below hold without
any of these bounds.

Properties of `QuestPlay.cfg`:

- `TypeOK`: types; levels start at 1.
- `VisitsAgree`: check-in rows, `placesVisited` and `checkedInLocationIds` agree
  after every commit.
- `LastCheckInCompletes`: a quest whose every stop is checked in has been completed.
  It holds because the count (`checkInLocation`, line 337) comes after the update
  of the completion row (327), which makes concurrent check-ins of one quest wait
  for each other. Counting outside `tx` breaks it.
- `LevelNotAboveXp`: the level, computed from XP read without a lock, may lag
  behind the XP but never runs ahead of it.
- `EventsFollowCommits`: no event of what did not commit.
- `NoWaitCycle`: no deadlock among row locks. Rows are locked in the order
  check-in key, completion, user.
- `ImplementsLedger`: refinement of `QuestLedger`.
- `EveryRequestAnswered`: in the end no request is open and no lock is held.

Fairness: weak fairness of `Serve(r)` for each request. Node resumes a handler
whose statement has returned, and PostgreSQL hands a released row to a waiter;
an action stays enabled once its row is free unless another waiter takes the
row, and every request takes a row once, so weak fairness is enough. Nothing
obliges clients to call, authors to edit or processes to die.

Bounds of `Progression`: one player, whose user row every task contends for, two
tasks, and an achievement of each metric. Each task goes on as an evaluation, so
two are enough for two awards beside each other, two evaluations of which one
began with an old copy, and an award or a referral against an unlocking bonus.
The reward of 100 reaches level 2 alone; the bonus of the first achievement (200)
and the next award earn the second (150) and cross level 3 (400); the third has
a progress row that earlier evaluations may have left, so that both `Update` and
`Create` happen. Deadlock is not checked, because the bounded system may stop.

Properties of `Progression.cfg`:

- `XpAccounted`: the XP stored is the XP granted, until a referral overwrites
  it with an absolute value, and never more.
- `LevelNotAboveXp`, `LevelUpTruthful`: neither the stored level nor a `LevelUp`
  ever exceeds what the committed XP is worth. Both speak of players without a
  committed referral: a referral may take XP back that a level stands for.
- `UnlockIsFinal`: an unlocked achievement stays so, although evaluations keep
  copies of its row from before. It holds because `Update` writes one column.
- `EarnedIsUnlocked`: a player who for good has enough completions gets the
  achievement, unless a task died. Which of the overlapping evaluations sees the
  last completion is open; that one of them does follows from the order of
  commit, emission and count. Fairness is that of `Run(t)`, as above.

The finding of `LevelUpMissed.cfg`: `events.types.ts:14` says of `LevelUp`
'Emitted when a user crosses a level boundary (quest XP, achievement XP, etc.).'
An award computes the level from XP it read before its row was locked
(`quests.service.ts:496`). One that reads 100 XP, while a bonus of 200 commits before its own 100
does, stores level 2 for the 400 XP of level 3 and announces nothing; the level
stays behind until the next write of it.

What holds no property, because no document claims otherwise: two evaluations
that overlap unlock the same achievement twice and pay its bonus twice, each
bonus correctly added; and two that create the same progress row end the process.

The finding of `QuestDoubleAward.cfg`: the message at
`quests.service.ts:503` promises 'Quest must be started before it can be
completed', but status is read without a lock (498) and the row updated by key
(519). Two requests of one start both get through, and the player is awarded
twice. The ledger accordingly lets `Finish` happen from any status but "NONE":
`ImplementsLedger` says that each award is whole and none overwrites another,
not that there is one per start. A quest started again after completion is
awarded again by `complete()`, which `start` (repository, line 18) allows.

### Social

Three requests of two users: one that blocks, one that accepts beside it and one
that comes after both; `MaxIds` 3 is a row for each of them. One client, since
clients share nothing. Requests are a symmetry set: nothing names or orders them.

- `BlockStands`: a block that has answered is undone by nothing but an `accept`
  that was under way by then. `accept` writes by the id of the row it read as
  PENDING (`friendships.service.ts:50`), so such an accept does undo it; the
  property says that no later call does.
- `FriendsAgreed`: whoever shows as a friend has agreed. `block` creates a PENDING
  row before it marks it, so a row that a crash left between the two can be
  accepted: the property allows it and says there is no other way.
- `PairStoredOnce`: two directions of a pair exist only by calls that overlapped.
- `NothingMissed`: a client that has joined its room before it lists has been
  shown everything stored. A notification that was stored and not pushed is in
  the list; one stored after the list is pushed.
- `TypeOK`.

### Invites

Three calls, one inviter who may have sent an invite before, two addresses, a
limit of one a day, one midnight, after which the invite has expired. That is a
cancel beside two registrations with one token, and two creations beside each
other. `MaxInvites` 4 never runs out.

- `SingleUse`: an invite that is claimed, cancelled or superseded never gets
  another invitee, though registrations read it before (the conditional
  `updateMany`, `invites.service.ts:185`).
- `ClaimedWithAccount`: account and claim come to be together or not at all.
- `CancelHolds`: a cancelled invite serves nobody who was not registering at the
  time. `cancel` writes by id and may mark an invite CANCELLED that has just been
  accepted; the account stays.
- `DailyLimit`: exceeded only by creations that overlapped, since the count comes
  before the insert.

### Sessions

Three calls within three seconds, tokens good for two: two refreshes with one
token beside a logout or a login, and a token that expires. Properties need at
most three calls to be violated.

- `LogoutEndsChain`: after a logout no refresh succeeds but by a login or refresh
  that had not ended by then, or a later login. A refresh that was under way
  stores its hash after the logout and goes on; that is the overlap allowed.
- `ExchangedOnce`: an exchanged token is dead, unless the exchange had not ended
  or a token of the same second is equal to it.
- `RefusedIfReplaced`: the newest token is never refused.

### Streaks

Four ticks a day, the 36 and 48 hours of the code being 6 and 8; two overlapping
finalizations; streaks up to 3. The bound on the streak only stops completions.
Fairness: `WF` of `Tick` and of each `WriteUser` (time goes on, a transaction
ends) and `SF` of `Rollover`: the job competes with `MissRollover` each midnight,
and a process that keeps being up at midnight runs it one night. Nothing obliges
the player to complete anything.

- `StreakEarned`: a streak never exceeds the days on which a quest was completed,
  nor the longest streak, which overlapping finalizations each write absolutely.
- `ResetSparesActive`: the job takes no streak of somebody who completed a quest
  the day before. It looks at `lastQuestCompletedAt` alone; a finalization that
  another one overtook may set that back, and then the job is misled.
- `StreakEnds`: who stops completing quests loses the streak.

The finding of `StreakStands.cfg`: the achievement of `seed.ts:728` says
'Maintain a 3-day quest streak.', but `computeStreak` (`quests.service.ts:549`)
leaves a streak as it is for 36 hours and adds a day only between 36 and 48. A
quest at the same hour every day keeps the streak at 1.

### PublicStats

Two calls to the catalogue beside two of the statistics, two quests, two scores,
a cache good for two of the three times. Two ratings can overtake one another,
or two reloads and a change in between. Requests, calls and slugs are symmetry
sets: the model compares them for equality only.

- `RatingsAgree`: average and count are those of the ratings, unless the last
  rating took its aggregate before another one committed. That lost update the
  code allows (READ COMMITTED, no lock before the aggregate); the next rating
  mends it, which is what the property says.
- `PublishedDated`: a published quest has its date, whatever updates ran at once.
- `StatsFresh`: an answer's counters, its featured quest, or there being none,
  are each of a moment that is not older than the cache allows, also when
  several reloads store in any order. `expiresAt` counts from before the reads.

### Reads

The seven parts share no state, so a behaviour picks one (`subject`) and leaves
the rest at rest: their states add up instead of multiplying. Bounds: a feed of three
rows, one of them a quest that can be started and completed, over two milliseconds, with
two writes in flight and pages of one or two, so that a page ends within a millisecond
and a write commits between two pages or two queries of one; three players and a top of
one over a Saturday to a Monday that also begins the month's tenth; two completions of
two quests around two windows; three rows with three values and two changes, with limits
of one and two, so that rows swap, tie and pass a page's end; ten half minutes, which
is past all of `PING`, `ONLINE` and `QUESTING` (the latter two shortened, in their order); two quests, one without category; two quests
in five places, with limits below the number of rows, so that what is cut off is seen.
The writes of the feed are alike and stored nowhere but in `writing`, so they are
permuted by `SYMMETRY`.

The places are chosen for what `geo.service.ts` does on the sphere: their distances and
the sizes of their boxes are those the code's formulas give, rounded to metres and
millionths of a degree. One lies at 80 degrees north; one is within its 100 km and still
outside its box (east of it, since the width is that of a circle of latitude); one is in
the corner of the box and outside the circle; two are 2 km apart on either side of the
180th meridian, where the box does not wrap around.

- `FeedPaging`: a client that pages to the end has every row that was due, but for those
  the comment names: one in the millisecond a page ended with, one stamped again for
  which it would have to begin anew, one completed between the two queries of quests, one
  whose writes commit in the other order than they took their times. On two pages is only
  a row of the last kind (`finalizeQuestCompletionTx` takes `now` at line 492 and commits
  later, `start` before its upsert), on one page twice only one that was started over
  between the two queries. That a row of the last kind may also be missed takes three
  writes: the run has two, so this exemption is the theorem's alone.
- `LeaderboardAgrees`: the two statements make one ranking unless something changed in
  between, and a week is the ISO week. Any change between the statements is exempt.
- `PortalAsOfNow`: metrics are those of the moment they were asked for, each
  completion in one window; the top quests do not take them back.
- `PagesComplete`: a client that follows `hasNext` misses no row that was there at first
  and neither rose in the order nor tied across a page's end, unless rows left or sank;
  none comes twice but one that sank or tied so, unless rows came or rose. At rest every
  page but the last is full. What "rises" means depends on the sort: who earns XP sinks
  under `XP_ASC`, and who loses it under `XP_DESC`, and moves others to a page the client
  has been to. Only the users have a tie-break; in the four other listings rows of one
  millisecond may change places from query to query.
- `PresenceTrue`: the throttle of the ping costs at most its minute. A request whose ping
  was lost is not covered, and a ping is under way for at most a half minute of the clock.
- `StatsCountAll`: a row moving from STARTED to COMPLETED may be counted twice,
  never not at all. It holds by the order in which the counts are read.
- `NearestListed`: the list holds only quests within the radius; of those that also have a
  location in the box it lacks no more than the box held beyond its limit; map and list
  agree. It does not say that the box holds the circle, which it does not.

The finding of `FeedComplete.cfg`: `friendships.controller.ts:47` says 'pass
meta.nextCursor as cursor for the next page', but the cursor is the time of the
last entry and the next page asks for what is strictly older
(`friendships.service.ts:433`), so entries of the same millisecond that the page
had no room for are in no page.

Deadlock is not checked in `Social`, `Invites`, `Sessions`, `PublicStats`, `Reads`
and `FeedComplete`: their calls, rows and times are bounded, so they may stop.
`QuestPlay` and `Streaks` check it. Only `QuestPlay`, `Progression` and `Streaks`
assume fairness; no property of the others needs it.

## Proofs

For `QuestPlay`, for any finite number of locations and any players, quests and
requests, from the assumptions in `QuestPlay.tla`: locations are finitely many and quests
share none, rewards are naturals, `NoRequest` is no request.

1. `TypeCorrect`: `TypeOK` is inductive.
2. `StepInv`: which steps each endpoint passes (a `start` never enters a
   transaction; only `commit` and `emit` follow a finalization).
3. `LockCorrect` (`LockInv`): a request owns exactly the rows its statements so
   far have locked. `lock` and `step` are separate variables, and nothing below
   is inductive without this link.
4. `NoDeadlock`: from `LockInv` alone. The holder of a user row waits for
   nothing; then the holder of a completion, which could only wait for a user
   row, does not wait for a member of the set either; then the holder of a key.
5. `VisitsCorrect`, with `NewStopInv`: between the insert and the commit nobody
   else has the stop's key, so the stop is new when it is committed.
6. `CompletionCorrect`, with `CountInv`: what the count saw stays true until
   the commit, because the completion row is locked before the count and every
   other check-in of the quest needs it.
7. `LevelCorrect`, with `ReadInv`: XP read can only be too low; the rest is
   `LevelMonotone` of the XP curve.
8. `EventsCorrect`, with `EventInv`: emitted plus still to be emitted never
   exceeds what was counted.
9. `LedgerRefined`: the upsert is `Start`, the commit of `complete()` is
   `Finish`, the commit of a check-in is `Visit`, everything else stutters.

For the curve itself, in `ProgressionProofs.tla`: `LevelBracketsXp` (the XP lies between
the thresholds of its level and the next) and `LevelMonotone`. The integer root is the
number of roots there are below the XP, so that nothing recursive is in their way.

For `Progression`, for any players, achievements, criteria, bonuses, rewards and
number of tasks, from the assumptions in its module (definitions are a non-empty
sequence of achievements, minimums are positive, the rest naturals):

1. `TypeCorrect`: `TypeOK` is inductive.
2. `XpCorrect`: `XpAccounted` needs `ReadInv`: what a task has read never exceeds
   what is granted, nor what is stored while no referral has committed, and an
   award that has committed but not yet announced is already in the stored XP.
   Together they are inductive (`ReadStep`, `AccountStep`), on two lemmas
   about one step: what becomes of a task (`TaskStep`) and of a player's XP
   (`WritesXp`).
3. `LevelCorrect`: an award's level comes from XP that by `ReadInv` is not above
   the stored one; `LevelMonotone` does the rest.
4. `LevelUpCorrect`: each emission names a level that 2 or 3 bounds.
5. `UnlockCorrect`, with `RowInv`: a row that does not exist is not unlocked, so
   `Create` never replaces an unlocked one.

For `Streaks`, for any number of ticks in a day, windows of hours longer than a day,
number of finalizations and bound:

1. `TypeCorrect`: `TypeOK` is inductive.
2. `EarnedCorrect`, with `EarnInv`: a day on which a quest was completed is counted
   already, and until a completion of that day is written the streak leaves room for
   it. That is why a second completion of a day, which reads `lastQuestCompletedAt`
   of that day, adds nothing, and why two that both read the day before add one
   day between them. What a finalization is about to write obeys the same bounds.
3. `ResetCorrect`, with `SpareInv`: once today has seen a completion,
   `lastQuestCompletedAt` is of today or a finalization of today is still to write
   it, unless one that had been overtaken set it back. At midnight that is yesterday,
   which is what the job looks at.

For `Invites`, for any inviters, addresses, calls, invites, days, expiry and limit:

1. `TypeCorrect`: types, together with `CallInv`: which statements each kind of call
   passes, and that what had ended when a call came has ended for good. Both are
   needed at once, since a row stays a row because a call names one.
2. `SingleUseCorrect`, with `ClaimInv`: between the claim and the commit the invite is
   locked by the registration and pending. A cancellation, a superseding creation or
   another claim would have to take that lock, so only a pending row is accepted.
3. `ClaimedCorrect`, with `InviteeInv`: a pending row has no invitee, and the invitee
   of a row is the account of the registration that has succeeded with it.
4. `CancelHoldsCorrect`, with `CancelInv`: a cancellation that goes on has found the
   invite pending, so by `InviteeInv` no registration had succeeded by then; one that
   comes after it is done does not get past reading the token.
5. `DailyLimitCorrect`, with `LimitInv`: who is to insert has either still room by the
   count of the day, or another creation has inserted since the call came. Midnight
   makes room, and the insert that goes over the limit is therefore one of two that
   overlapped.

For `Social`, for any users, calls, clients and number of ids (`SocialInductive` is the
conjunction, with the types):

1. `SocialTypeCorrect`: `TypeOK`, together with `CallInv`: which statements each kind of
   call passes, and that what had ended when a call came has ended for good.
2. `BlockHolds`, with `BlockInv`: the row of a block that is done is never PENDING again,
   so an accept that came later does not get past its read, and one that is still to
   update the row came before the block had answered.
3. `FriendsHaveAgreed`, with `AgreeInv`: a row that is PENDING was created by a call of its
   requester, and if that was a block, it is still to mark the row or was cut off. What
   an accept has read as PENDING therefore has somebody who asked (`Asked`).
4. `PairStored`, with `PairInv`: each row has its creator, and who is about to insert has
   found none, so a row that is there by then is of a call that overlapped.
5. `NothingIsMissed`, with `DeliveryInv`: an event is delivered once, and a notification
   that is stored while its delivery is still on the bus is still to be pushed.

For `Sessions`, for any number of calls and seconds and any life of the tokens
(`SessionsInductive`), on the types and the same `CallInv` for its calls:

1. `LogoutEnds`, with `ChainInv`: a logout leaves no token in the column until a login or an
   overlapping refresh stores one, and only then is a later refresh accepted.
2. `TokenExchangedOnce`, with `ExchangeInv`: a token that was exchanged is in the column, or
   was when a refresh found it there, only if it was issued again.
3. `RefusedOnlyIfReplaced`, with `ReplacedInv`: the column holds the token of the last call
   that issued one until another call writes it.

For `PublicStats` and the `Catalogue` in it, for any users, roles, slugs, scores, quests,
calls, and life of the cache (`StatsInductive`). Each statement of the catalogue is first
shown to do one of eight things to the tables (`CatalogueMoves`); the invariants look at
those. A sum is whatever `SumFunction` makes of the scores: all that is used of it is
that the same scores give the same sum (`SameRows`).

1. `CountsAgree`, with `NamesInv`, `EmptyInv` and `SumInv`: as long as nobody has committed a
   rating of the quest since its aggregate, what a call is about to write is what the
   ratings will be when its own is committed. A quest that does not exist has no ratings
   and nobody waits to rate it, so one that is created starts from none.
2. `DateStays`, with `DateInv`: an update that is about to publish brings the date unless
   the quest has one already, and no write takes a date back.
3. `AnswersFresh`, with `HistoryInv`, `ReadsInv` and `CacheInv`: what a call has read was so at
   a moment since it came, what the cache holds since `CACHE_TTL_MS` before it expires.
   That the newest published quest is found if there is any (`NewestExists`) makes
   "none featured" mean that there was none.

For `Reads`, from the assumptions of the seven modules (players, quests of the map, places
and quests played are finite sets, a stream is read further than a page is long, limits
are positive, the ping is shorter than the window of ONLINE). Each part has an invariant
of its own; each action of it is a lemma, and a step of another part leaves it alone.
`ORDER BY` with `OFFSET` and `LIMIT` rests on `RankBijection` and `RankSlice`: in a strict
order on finitely many rows, the rows with between `a` and `b` before them are `b - a`
many, by a bijection and not by an induction over a sequence.

1. `FeedPagesAll`, with `FeedInv`: no row and no write is stamped later than the clock
   (`TimesTaken`); what the reader holds of a row is what it showed at some time, and a row
   whose times have only grown cannot come below the cursor again (`RowsKnown`,
   `ReadOnce`). What is due is handed out, or shares the millisecond of a cursor, or falls
   under one of the named exemptions, or is older than the cursor and either collected from
   the stream that has been read or behind more rows of it than a page takes (`DueAhead`).
   A stream is read further than a page is long, so one that is cut off cannot hide what
   the page would have had room for.
2. `LeaderboardOneRanking`, with `LeaderboardInv`: the entries have the first ranks, and
   until something changes they are the ranking of the tables as they are, so that the
   count of those ahead of the viewer fits it. `MondayStartsWeek` is the arithmetic of
   `leaderboardPeriodStartUtc`.
3. `PortalOfItsWindows`, with `PortalInv`: a window that has been read holds what it should
   of what was there when the owner asked (`WindowRead`), and a completion that is gone by
   then does not come back with its old time: what is stamped later carries a later time
   (`TakenBack`). So counting the two windows at two moments does no harm.
4. `ListingPagesAll`, with `ListingInv`: rows that come or rise only push others back, rows
   that leave or sink only move them forward. So what the client has not seen, and has
   neither risen nor lost anybody before it, is still ahead of the rows to be skipped
   (`StillAhead`), and what it has seen is behind (`LeftBehind`). With ties this is said
   of every order a query may choose: a row is ahead of a page's end in all of them, or
   behind it in all of them, or among those `SplitAt` names. `PagesCounted` is the
   arithmetic of `buildPaginationMeta`.
5. `PresenceOfTheLastRequest`, with `PresenceInv`: `lastSeenAt` lags behind the last request
   by no more than the throttle, and leads it by no more than a ping is on its way.
6. `StatisticsCountAll`, with `UserStatsInv`: a row there at first is STARTED or COMPLETED
   when its state is counted or was lost, and the order of the three statements keeps a
   row that is completed in between from falling through. Completed rows never exceed
   `questsDone`.
7. `NearbyFindsAll`, with `NearbyInv`: the rows cut off by a limit are as many as the box
   held beyond it, and the rows of a viewport below its limit are all there are. Nothing
   is assumed of distances and boxes: the theorem holds of whatever `geo.service.ts` makes
   of them.

Only model-checked: `EveryRequestAnswered`, `EarnedIsUnlocked` and `StreakEnds`,
since liveness under fairness is out of the prover's reach; and the violations. The type invariant of `PublicStats` is checked
by no run of its own: it was checked while the module was written. Its bounds on counts
and sums are about `Cardinality` and `SumFunction` over all ratings, an induction over data;
the proofs use `CatalogueTyped` in its place, in which counts and sums are those of some
ratings. Those of `Invites` and `Sessions` are proved and in no run either.

## Not modelled

- The trigonometry of `geo.service.ts`: distances and the sizes of boxes are constants of
  `Nearby`, which the run gives the values the code computes for five places. What
  `listNearby` misses for its box (off the equator it is a little narrow, it ends at the
  180th meridian, at a pole its width is a division by zero, or nearly) is left out of
  `NearestListed`; nothing in the code promises it. `QuestPlay` takes the verdict of a
  check-in's distance as a choice.
- Uploads, HTTP shell, configuration, health, Swagger: I/O, or stateless. The
  seed fills an empty database before the API runs.
- Categories: reads of a table no endpoint writes.
- Profile and avatar, creating and updating a business, onboarding: single
  statements on rows nothing else decides by. No code writes visits of a
  business, so the portal's visits are 0.
- The plain list of friends and of invites, the preview of a token, the count of
  mutual quests, the listings of achievements: single reads.
- `progressRatio` and `levelUpResult` of `xp.ts`, `complete`, `abandon` and
  `countCompletedForUser` of `quest-completions.repository.ts` and `unlock` of
  `achievements.repository.ts`: no code calls them. No code sets ABANDONED or EXPIRED.
- Passwords and signatures (`auth.service.ts`) are taken to be checked as they
  should be: right or wrong is a choice.
- Deleting a quest in `QuestPlay`: its rows go by cascade while `placesVisited`
  stays, so `VisitsAgree` speaks of quests that are not deleted. `Catalogue`,
  `Portal` and `UserStats` do delete quests.
- Changing `xpReward` while a request runs: the handler uses the value of its
  first read for both XP and level.
- Criteria of levels (`minLevel`), which measure XP and store the level as
  progress; criteria that are absent, which never earn anything.
- That a page stays what it was while rows move: a row that rises goes to a page the client
  has been to, one that sinks takes others there. `PagesComplete` excludes those; nothing
  in the code promises otherwise. Likewise the 200 candidates of `listNearby` are cut off
  before they are sorted by distance.
- `PublicStats` runs with two calls: a third one that is answered from what a late reload
  stored is in the theorem, not in the run.
- `StreakEarned` and the two properties of levels bound from above: that a streak or a
  level lags behind is not what they exclude.
