----------------------------- MODULE UserStats -----------------------------
(***************************************************************************)
(* GET /users/:id/stats: getStats of users.service.ts reads the user row   *)
(* and then, in a transaction of READ COMMITTED, counts the completions by *)
(* status and groups the completed ones by category, each with a statement *)
(* and so a snapshot of its own, while the user plays on. No code sets     *)
(* ABANDONED or EXPIRED: those two counts are 0 and left out.              *)
(***************************************************************************)
EXTENDS Integers, Sequences, FiniteSetsExt

CONSTANTS
  CategoryOf,  \* CategoryOf[q] : the slug of quest q's category, or NoCategory
  NoCategory,
  MaxDone      \* bound: the quests the user completes, over again included

ASSUME UserStatsAssumption == MaxDone \in Nat /\ IsFiniteSet(DOMAIN CategoryOf)

VARIABLES
  completion,  \* completion[q] : the status of the user's row for q, or "none"
  questsDone,  \* of the user row
  stats        \* the call: what it has read

userStatsVars == <<completion, questsDone, stats>>

PlayedQuests == DOMAIN CategoryOf
Categories   == {CategoryOf[q] : q \in PlayedQuests} \ {NoCategory}

In(status) == {q \in PlayedQuests : completion[q] = status}

UserStatsInit ==
  /\ completion = [q \in PlayedQuests |-> "none"]
  /\ questsDone = 0
  /\ stats = [step |-> "idle"]

-----------------------------------------------------------------------------
(* What goes on meanwhile. During a call "begun", "finished" and "lost"    *)
(* keep the quests whose row came, became COMPLETED, ceased to be either.  *)

Happened(meanwhile, what, q) == [meanwhile EXCEPT ![what] = @ \cup {q}]

Meanwhile(what, q) ==
  stats' = IF stats.step = "reading"
           THEN [stats EXCEPT !.meanwhile = Happened(@, what, q)]
           ELSE stats

\* start(): the row is created,
StartCompletion ==
  \E q \in In("none") :
    /\ completion' = [completion EXCEPT ![q] = "STARTED"]
    /\ Meanwhile("begun", q)
    /\ UNCHANGED questsDone

\* or one that is there taken back to STARTED.
RestartCompletion ==
  \E q \in In("COMPLETED") :
    /\ completion' = [completion EXCEPT ![q] = "STARTED"]
    /\ Meanwhile("lost", q)
    /\ UNCHANGED questsDone

\* The transaction that completes a quest counts it in the user row.
FinishCompletion ==
  \E q \in In("STARTED") :
    /\ questsDone < MaxDone
    /\ completion' = [completion EXCEPT ![q] = "COMPLETED"]
    /\ questsDone' = questsDone + 1
    /\ Meanwhile("finished", q)

DeletePlayedQuest ==
  \E q \in In("STARTED") \cup In("COMPLETED") :
    /\ completion' = [completion EXCEPT ![q] = "none"]
    /\ Meanwhile("lost", q)
    /\ UNCHANGED questsDone

-----------------------------------------------------------------------------
(* The call.                                                               *)

\* The user row comes first. "there" are the rows of that moment, for the properties.
ReadUserRow ==
  /\ stats.step = "idle"
  /\ stats' = [step |-> "reading", questsDone |-> questsDone, there |-> completion,
               read |-> <<>>,
               meanwhile |-> [begun |-> {}, finished |-> {}, lost |-> {}]]
  /\ UNCHANGED <<completion, questsDone>>

\* Faulty variant: what is completed is counted before what is started.
CompletedFirst == <<"COMPLETED", "STARTED", "byCategory">>

Statements == <<"STARTED", "COMPLETED", "byCategory">>

\* The counters: completed rows by category, those whose quest has none left out.
ByCategory == [c \in Categories |-> Cardinality({q \in In("COMPLETED") : CategoryOf[q] = c})]

ReadStatement ==
  /\ stats.step = "reading"
  /\ LET n     == Len(stats.read) + 1
         value == IF Statements[n] = "byCategory" THEN ByCategory
                  ELSE Cardinality(In(Statements[n]))
     IN  stats' = [stats EXCEPT !.read = Append(@, value),
                     !.step = IF n = Len(Statements) THEN "answered" ELSE @]
  /\ UNCHANGED <<completion, questsDone>>

Result(name) == stats.read[CHOOSE n \in DOMAIN Statements : Statements[n] = name]

UserStatsNext ==
  \/ StartCompletion \/ RestartCompletion \/ FinishCompletion \/ DeletePlayedQuest
  \/ ReadUserRow \/ ReadStatement

-----------------------------------------------------------------------------
(* Properties.                                                             *)

\* However the user plays on during the call: no row there was at its beginning goes
\* uncounted, started and completed taken together, unless it was deleted or started
\* over; one is counted in both only if it was completed meanwhile. No more is counted
\* as completed than questsDone and the completions since account for, and each category
\* counts what was completed in it at first.
StatsCountAll ==
  stats.step = "answered" =>
    LET there      == {q \in PlayedQuests : stats.there[q] # "none"}
        doneIn(c)  == {q \in PlayedQuests : stats.there[q] = "COMPLETED" /\ CategoryOf[q] = c}
        begun      == stats.meanwhile.begun
        finished   == stats.meanwhile.finished
        lost       == stats.meanwhile.lost
        counted    == Result("STARTED") + Result("COMPLETED")
    IN  /\ counted >= Cardinality(there \ lost)
        /\ counted <= Cardinality(there \cup begun) + Cardinality(finished)
        /\ Result("COMPLETED") <= stats.questsDone + Cardinality(finished)
        /\ \A c \in Categories : Result("byCategory")[c] >= Cardinality(doneIn(c) \ lost)
=============================================================================
