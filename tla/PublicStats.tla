---------------------------- MODULE PublicStats ----------------------------
(***************************************************************************)
(* GET /stats/public beside the catalogue: getPublicStats of               *)
(* stats.service.ts answers from its cache for CACHE_TTL_MS, and else      *)
(* reloads. A reload is several queries, each its own action and each      *)
(* seeing the catalogue as it is by then; several reloads may run at once. *)
(* The counters are kept as what they count, the set of published quests;  *)
(* users, completions and cities are further reads of the same kind.       *)
(***************************************************************************)
EXTENDS Catalogue

CONSTANTS
  StatsCalls,
  CACHE_TTL_MS,  \* in the units of the clock
  LastTime       \* bound: when the clock stops

ASSUME TimesAssumption == CACHE_TTL_MS \in Nat \ {0} /\ LastTime \in Nat

VARIABLES
  clock,
  cache,
  call,    \* call[c] : a call of getPublicStats, what it has read, what it has answered
  history  \* history[t] : the sets of published quests there were at time t; for the properties

statsVars == <<cache, call>>
vars == <<catalogueVars, clock, statsVars, history>>

Times == 0 .. LastTime

Nothing == [expiresAt |-> 0]

NoQuest == 0

NewCall == [step |-> "idle"]
Failed  == [step |-> "failed"]

Init ==
  /\ CatalogueInit
  /\ clock = 0
  /\ cache = Nothing
  /\ call = [c \in StatsCalls |-> NewCall]
  /\ history = [t \in Times |-> IF t = 0 THEN {Published} ELSE {}]

Goto(c, step) == call' = [call EXCEPT ![c] = [@ EXCEPT !.step = step]]

\* The time is taken first, before any query; Promise.all then starts all of them.
Receive(c) ==
  /\ call[c] = NewCall
  /\ call' = [call EXCEPT ![c] =
       IF clock < cache.expiresAt
       THEN [step |-> "answered", since |-> clock, counted |-> cache.counted,
             featured |-> cache.featured]
       ELSE [step |-> "pinned", since |-> clock, counted |-> {NoQuest},
             featured |-> NoQuest]]
  /\ UNCHANGED cache

\* loadPlatformCounts, at any moment until the answer.
LoadCounts(c) ==
  /\ call[c].step \in {"pinned", "rated", "any", "load", "store"}
  /\ call[c].counted = {NoQuest}
  /\ call' = [call EXCEPT ![c] = [@ EXCEPT !.counted = Published]]
  /\ UNCHANGED cache

\* The three searches of resolveFeaturedQuestDto, each a query that runs if the one
\* before it has found nothing.
Pinned == {q \in Published : quest[q].pinned}

BetterRated(p, q) ==
  LET left  == quest[p].ratingSum * quest[q].ratingCount
      right == quest[q].ratingSum * quest[p].ratingCount
      few == quest[q].ratingCount
      many == quest[p].ratingCount
  IN  \/ left > right
      \/ left = right /\ many > few
      \/ left = right /\ many = few /\ p >= q

BestRated ==
  LET rated == {q \in Published : quest[q].ratingCount > 0}
  IN  {q \in rated : \A p \in rated : BetterRated(q, p)}

Newest == {q \in Published : \A p \in Published : p <= q}

Found(step) ==
  CASE step = "pinned" -> Pinned
    [] step = "rated"  -> BestRated
    [] step = "any"    -> Newest

After(step) ==
  CASE step = "pinned" -> "rated"
    [] step = "rated"  -> "any"
    [] step = "any"    -> "store"

ChooseFeatured(c) ==
  /\ call[c].step \in {"pinned", "rated", "any"}
  /\ IF Found(call[c].step) = {} THEN Goto(c, After(call[c].step))
     ELSE \E q \in Found(call[c].step) :
            call' = [call EXCEPT ![c] = [@ EXCEPT !.step = "load", !.featured = q]]
  /\ UNCHANGED cache

\* getById, whatever the quest's status is by now. With the quest gone it throws, and
\* the cache stays as it is.
LoadFeatured(c) ==
  /\ call[c].step = "load"
  /\ IF call[c].featured \in Existing THEN Goto(c, "store")
     ELSE call' = [call EXCEPT ![c] = Failed]
  /\ UNCHANGED cache

\* Faulty variant: the cached answer lives from its storing on.
ExpiryFromStore(c) == clock + CACHE_TTL_MS

ExpiresAt(c) == call[c].since + CACHE_TTL_MS

Store(c) ==
  /\ call[c].step = "store" /\ call[c].counted # {NoQuest}
  /\ cache' = [expiresAt |-> ExpiresAt(c), counted |-> call[c].counted, featured |-> call[c].featured]
  /\ Goto(c, "answered")

Tick ==
  /\ clock < LastTime
  /\ clock' = clock + 1
  /\ UNCHANGED <<catalogueVars, statsVars>>

Statistics ==
  \E c \in StatsCalls :
    Receive(c) \/ LoadCounts(c) \/ ChooseFeatured(c) \/ LoadFeatured(c) \/ Store(c)

Next ==
  /\ \/ CatalogueNext /\ UNCHANGED <<clock, statsVars>>
     \/ Statistics /\ UNCHANGED <<clock, catalogueVars>>
     \/ Tick
  /\ history' = [history EXCEPT ![clock'] = @ \cup {Published'}]

Spec == Init /\ [][Next]_vars

-----------------------------------------------------------------------------
(* Properties.                                                             *)

TypeOK ==
  /\ CatalogueTypeOK
  /\ clock \in Times
  /\ cache # Nothing =>
       cache.counted \subseteq Quests /\ cache.featured \in Quests \cup {NoQuest}
  /\ \A c \in StatsCalls :
       call[c] \notin {NewCall, Failed} =>
         /\ call[c].since \in Times
         /\ call[c].counted \subseteq Quests \cup {NoQuest}
         /\ call[c].step = "answered" => NoQuest \notin call[c].counted

\* What the catalogue has been since CACHE_TTL_MS before call c came.
Lately(c) == UNION {history[t] : t \in {t \in Times : call[c].since < t + CACHE_TTL_MS}}

\* An answer is not older than CACHE_TTL_MS: its counters are those of a moment since
\* then, its featured quest was published at one, and if it features none, then at one
\* there was none. That holds though several reloads run at once and the one that
\* began first may store last.
StatsFresh ==
  \A c \in StatsCalls :
    call[c].step = "answered" =>
      /\ call[c].counted \in Lately(c)
      /\ IF call[c].featured = NoQuest THEN {} \in Lately(c)
         ELSE call[c].featured \in UNION Lately(c)
=============================================================================
