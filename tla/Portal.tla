------------------------------- MODULE Portal -------------------------------
(***************************************************************************)
(* GET /businesses/me/metrics: businesses.service.ts takes the time, sets  *)
(* two windows by it and reads each metric in each of them with a          *)
(* statement of its own, all at once and in any order, while quests go on  *)
(* being completed. A completion carries the time it was stamped with in   *)
(* its transaction, which commits later. Ratings are read by the same      *)
(* windows; nothing in the code writes the visits that are read too. The   *)
(* list of the business's top quests, GET /businesses/me/quests/top, sets  *)
(* its window by a time of its own.                                        *)
(***************************************************************************)
EXTENDS Integers, FiniteSetsExt

CONSTANTS
  CompletionRows,  \* users and quests of one business
  QuestOf,         \* QuestOf[c] : the quest of a row, as a number in the order of titles
  TopQuestLimit,   \* the limit of the top quests
  PortalLastTime,  \* bound: when the clock stops
  FirstReport,     \* bound: when the owner first asks
  MonthBegin,      \* when the month of that time began
  PeriodLength     \* the length of the other periods, 7, 30 or 90 days

ASSUME PortalAssumption ==
  /\ QuestOf \in [CompletionRows -> Nat] /\ TopQuestLimit \in Nat \ {0}
  /\ FirstReport \in 0 .. PortalLastTime /\ PeriodLength \in 1 .. FirstReport
  /\ MonthBegin \in 0 .. FirstReport

VARIABLES
  time,
  completedAt,  \* completedAt[c] : None unless c is COMPLETED
  stamped,      \* stamped[c] : the time an open transaction is about to write, or None
  report        \* the metrics being read

portalVars == <<time, completedAt, stamped, report>>

None == 0 - 1

PortalInit ==
  /\ time = 0
  /\ completedAt = [c \in CompletionRows |-> None]
  /\ stamped = [c \in CompletionRows |-> None]
  /\ report = [step |-> "idle"]

\* finalizeQuestCompletionTx takes the time at its beginning.
Stamp ==
  \E c \in CompletionRows :
    /\ completedAt[c] = None /\ stamped[c] = None
    /\ stamped' = [stamped EXCEPT ![c] = time]
    /\ UNCHANGED <<time, completedAt, report>>

CommitCompletion ==
  \E c \in CompletionRows :
    /\ stamped[c] # None
    /\ completedAt' = [completedAt EXCEPT ![c] = stamped[c]]
    /\ stamped' = [stamped EXCEPT ![c] = None]
    /\ UNCHANGED <<time, report>>

\* With a quest its completions are deleted; and start() takes a completed one back.
DeleteCompletion ==
  \E c \in CompletionRows :
    /\ completedAt[c] # None
    /\ completedAt' = [completedAt EXCEPT ![c] = None]
    /\ UNCHANGED <<time, stamped, report>>

PortalTick ==
  /\ time < PortalLastTime
  /\ time' = time + 1
  /\ UNCHANGED <<completedAt, stamped, report>>

\* The window up to now, and the one just before it that is as long.
CurrentAndPreviousWindow(period, now) ==
  LET start  == IF period = "MONTH" THEN MonthBegin ELSE now - PeriodLength
      length == Max({0, now - start})
  IN  [current  |-> [start |-> start, endExclusive |-> now],
       previous |-> [start |-> start - length, endExclusive |-> start]]

Completed == {c \in CompletionRows : completedAt[c] # None}

\* "there" is what was completed when the call came, kept for the properties.
ReceiveReport ==
  /\ report.step = "idle" /\ time >= FirstReport
  /\ \E period \in {"MONTH", "DAYS"} :
       report' = [step |-> "reading", now |-> time,
                  period |-> period, there |-> {<<c, completedAt[c]>> : c \in Completed},
                  window |-> CurrentAndPreviousWindow(period, time),
                  read |-> [current |-> {}, previous |-> {}],
                  left |-> {"current", "previous"}, top |-> {}]
  /\ UNCHANGED <<time, completedAt, stamped>>

\* Faulty variant: a window that holds its end.
WithinClosed(at, window) == window.start <= at /\ at <= window.endExclusive

Within(at, window) == window.start <= at /\ at < window.endExclusive

\* The rows completed in a window, kept instead of their number.
CompletedIn(window) ==
  {<<c, completedAt[c]>> : c \in {d \in Completed : Within(completedAt[d], window)}}

\* countQuestCompletions in either window.
CountQuestCompletions ==
  \E name \in {"current", "previous"} :
    /\ report.step = "reading" /\ name \in report.left
    /\ report' = [report EXCEPT !.left = @ \ {name},
         !.read = [@ EXCEPT ![name] = CompletedIn(report.window[name])]]
    /\ UNCHANGED <<time, completedAt, stamped>>

Answer ==
  /\ report.step = "reading" /\ report.left = {}
  /\ report' = [report EXCEPT !.step = "answered"]
  /\ UNCHANGED <<time, completedAt, stamped>>

\* ORDER BY visits DESC, completions DESC, title ASC; there are no visits.
TopFirst(d, e) ==
  LET dn == Cardinality(d.completions)
      en == Cardinality(e.completions)
  IN  dn > en \/ (dn = en /\ d.quest < e.quest)

\* listTopQuests: one statement, in the current window of now.
ListTopQuests ==
  /\ report.step = "answered"
  /\ LET window == CurrentAndPreviousWindow(report.period, time).current
         ofQuest(q) == {x \in CompletedIn(window) : QuestOf[x[1]] = q}
         entries == {[quest |-> q, completions |-> ofQuest(q)] :
                       q \in {QuestOf[c] : c \in CompletionRows}}
     IN  report' = [report EXCEPT !.step = "ranked",
           !.top = {e \in entries :
                      Cardinality({d \in entries : TopFirst(d, e)}) < TopQuestLimit}]
  /\ UNCHANGED <<time, completedAt, stamped>>

PortalNext ==
  \/ Stamp \/ CommitCompletion \/ DeleteCompletion \/ PortalTick
  \/ ReceiveReport \/ CountQuestCompletions \/ Answer \/ ListTopQuests

-----------------------------------------------------------------------------
(* Properties.                                                             *)

\* Quests being completed and deleted all the while, the metrics are those of the
\* moment the owner asked: what was completed before it, and has not been deleted, is
\* counted in the one window it belongs to, what has been stamped since in neither, and
\* the windows are of one length, one beginning where the other ends. The top quests the
\* owner asks for after that do not take back what the metrics counted: of a quest that
\* is among them, a completion of the current window is lost only if it was deleted or
\* the window has moved past it, and one that was missed came later.
PortalAsOfNow ==
  report.step \in {"answered", "ranked"} =>
    LET current  == report.window.current
        previous == report.window.previous
        counted  == report.read.current \cup report.read.previous
        moved    == CurrentAndPreviousWindow(report.period, time).current.start
    IN  /\ \A x \in report.there :
             (completedAt[x[1]] = x[2] /\ x[2] < report.now /\ previous.start <= x[2]) =>
               x \in (IF x[2] >= current.start THEN report.read.current ELSE report.read.previous)
        /\ \A x \in counted : x[2] < report.now
        /\ report.read.current \cap report.read.previous = {}
        /\ current.start = previous.endExclusive
        /\ current.endExclusive - current.start = previous.endExclusive - previous.start
        /\ \A e \in report.top :
             /\ \A x \in report.read.current :
                  (QuestOf[x[1]] = e.quest /\ completedAt[x[1]] = x[2] /\ x[2] >= moved) =>
                    x \in e.completions
             /\ \A x \in e.completions \cap report.there :
                  x[2] < report.now => x \in report.read.current
=============================================================================
