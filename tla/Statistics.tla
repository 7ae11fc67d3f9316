------------------------------ MODULE Statistics ------------------------------
(***************************************************************************)
(* The overview of a learner's statistics, on the learner's own calendar:  *)
(* statsOverview in apps/worker/src/stats/queries.ts.  Grades and undos    *)
(* come between its queries, and the offset of a zone may change on any    *)
(* day.  The counts of all reviews and of introduced words are left out.   *)
(*                                                                         *)
(* Instants count hours; a date is the number of its day, whose UTC        *)
(* midnight is 24 times it.  Retention values and difficulties, which a    *)
(* library computes from the row, are left out: a row has its due instant  *)
(* and its lapses.                                                         *)
(***************************************************************************)
EXTENDS Integers, Sequences, FiniteSets, FiniteSetsExt

CONSTANTS
  Zones,          \* [before, after, at]: offsets before and from the instant "at" on
  Clock,          \* bound: the instants at which something happens
  ServedCards,      \* cards of the active release: [key, unit]
  AliasEdges,     \* rows <<from, to>> of content_key_alias
  WordOfCard,         \* card_definition of every release: canonical key to word, a number
  Interval,       \* hours until a card is due: <<remembered, forgotten>>
  FORECAST_DAYS, STREAK_LOOKBACK_DAYS, DIFFICULT_LIMIT,
  MaxReviews      \* bound: rows of the log

ASSUME StatisticsAssumption ==
  /\ Clock \subseteq Nat /\ Interval \in Nat \X Nat
  /\ \A z \in Zones : /\ {z.before, z.after} \subseteq -12 .. 14 /\ z.at \in Nat
                      /\ z.after - z.before \in -1 .. 1          \* clocks move by an hour
  /\ \A h \in Clock : h >= 24 * (STREAK_LOOKBACK_DAYS + 2)
  /\ {FORECAST_DAYS, DIFFICULT_LIMIT} \subseteq Nat \ {0} /\ STREAK_LOOKBACK_DAYS \in Nat

VARIABLES
  zone,         \* user_settings.timezone
  now,
  review_log,   \* rows [at, card, undone, before], before the row that the grade replaced
  card_state,   \* canonical key to [due, lapses]
  request       \* the overview under way: its step and what it has read

statsVars == <<zone, now, review_log, card_state, request>>

NoRow == [due |-> 0, lapses |-> -1]
Unasked == [step |-> "idle"]

StatsInit ==
  /\ zone \in Zones /\ now \in Clock
  /\ review_log = <<>>
  /\ card_state = [c \in DOMAIN WordOfCard |-> NoRow]
  /\ request = Unasked

-------------------------------------------------------------------------------
(* The calendar of a zone.                                                 *)

ZoneOffset(i) == IF i < zone.at THEN zone.before ELSE zone.after
LocalDateKey(i) == (i + ZoneOffset(i)) \div 24

(* Fault: the offset is read once, outside the day.                        *)
OnePass(date) == 24 * date - ZoneOffset(24 * date)

(* The offset is read at UTC midnight, and again at what that gives.       *)
StartOfLocalDay(date) ==
  LET first == 24 * date - ZoneOffset(24 * date) IN 24 * date - ZoneOffset(first)

-------------------------------------------------------------------------------
(* What the rows say.                                                      *)

NotUndone(log) == {i \in DOMAIN log : ~log[i].undone}
Since(log, start) == {i \in NotUndone(log) : log[i].at >= start}
Graded(rows) == {c \in DOMAIN rows : rows[c] # NoRow}

(* Consecutive days that end today or, when today has none yet, yesterday. *)
StreakDays(days, today) ==
  LET last == IF today \in days THEN today ELSE today - 1
  IN  Cardinality({n \in 0 .. Cardinality(days) : \A k \in 0 .. n : last - k \in days})

(* The last day of the window that starts by then; overdue cards are in    *)
(* the first.                                                              *)
Bucket(due, today) ==
  Max({0} \cup {n \in 0 .. FORECAST_DAYS - 1 : due >= StartOfLocalDay(today + n)})

DueForecast(rows, today) ==
  LET inside == {c \in Graded(rows) : rows[c].due < StartOfLocalDay(today + FORECAST_DAYS)}
  IN  [n \in 0 .. FORECAST_DAYS - 1 |-> Cardinality({c \in inside : Bucket(rows[c].due, today) = n})]

Lapses(rows, word) ==
  FoldSet(LAMBDA c, sum : sum + rows[c].lapses, 0, {c \in Graded(rows) : WordOfCard[c] = word})

(* The first of the words with a lapse: more lapses first, then by key.    *)
DifficultWords(rows) ==
  LET hard == {w \in {WordOfCard[c] : c \in Graded(rows)} : Lapses(rows, w) > 0}
      before(w) == {v \in hard : \/ Lapses(rows, v) > Lapses(rows, w)
                                 \/ Lapses(rows, v) = Lapses(rows, w) /\ v < w}
  IN  {w \in hard : Cardinality(before(w)) < DIFFICULT_LIMIT}

(* LocalAliasResolver: a key that branches or comes round is left as it is.*)
EdgesFrom(key) == {e[2] : e \in {x \in AliasEdges : x[1] = key}}
AliasKeys == UNION {{e[1], e[2]} : e \in AliasEdges}
Walk[n \in Nat, key \in AliasKeys] ==
  IF EdgesFrom(key) = {} THEN {key}
  ELSE IF n = 0 \/ Cardinality(EdgesFrom(key)) > 1 THEN {}
  ELSE Walk[n - 1, CHOOSE k \in EdgesFrom(key) : TRUE]

PresentedAs(key) ==
  IF EdgesFrom(key) = {} \/ Walk[Cardinality(AliasEdges), key] = {} THEN key
  ELSE CHOOSE k \in Walk[Cardinality(AliasEdges), key] : TRUE

(* Cards of each unit of the active release, and those with a row.         *)
UnitMastery(rows) ==
  [u \in {c.unit : c \in ServedCards} |->
     LET cards == {c \in ServedCards : c.unit = u}
     IN  [total |-> Cardinality(cards),
          studied |-> Cardinality({c \in cards : PresentedAs(c.key) \in Graded(rows)})]]

-------------------------------------------------------------------------------
(* The learner.                                                            *)

Wait == /\ now' \in {t \in Clock : t > now}
        /\ UNCHANGED <<zone, review_log, card_state, request>>

Grade(c, forgotten) ==
  /\ Len(review_log) < MaxReviews
  /\ review_log' = Append(review_log, [at |-> now, card |-> c, undone |-> FALSE,
                                       before |-> card_state[c]])
  /\ card_state' = [card_state EXCEPT ![c] =
       [due |-> now + Interval[IF forgotten THEN 2 ELSE 1],
        lapses |-> IF @ = NoRow THEN 0 ELSE IF forgotten THEN @.lapses + 1 ELSE @.lapses]]
  /\ UNCHANGED <<zone, now, request>>

(* The newest review that counts: its card gets the row before back.       *)
Undo ==
  /\ NotUndone(review_log) # {}
  /\ LET i == Max(NotUndone(review_log)) IN
     /\ review_log' = [review_log EXCEPT ![i].undone = TRUE]
     /\ card_state' = [card_state EXCEPT ![review_log[i].card] = review_log[i].before]
  /\ UNCHANGED <<zone, now, request>>

-------------------------------------------------------------------------------
(* GET /api/stats/overview: the route reads the clock, each query the      *)
(* tables as they are by then.                                             *)

ReadStates ==
  /\ request.step = "idle"
  /\ request' = [step |-> "today", today |-> LocalDateKey(now), rows |-> card_state]
  /\ UNCHANGED <<zone, now, review_log, card_state>>

(* counted: history, the log that the count was taken of.                  *)
CountToday ==
  /\ request.step = "today"
  /\ request' = [step |-> "activity", today |-> request.today, rows |-> request.rows,
                 counted |-> review_log,
                 reviews_today |-> Cardinality(Since(review_log, StartOfLocalDay(request.today)))]
  /\ UNCHANGED <<zone, now, review_log, card_state>>

(* The content that the rest reads does not change.                        *)
AnswerOverview ==
  /\ request.step = "activity"
  /\ LET recent == Since(review_log, StartOfLocalDay(request.today - STREAK_LOOKBACK_DAYS))
         days == {LocalDateKey(review_log[i].at) : i \in recent}
     IN  request' = [step |-> "answered", today |-> request.today, rows |-> request.rows,
                     counted |-> request.counted, activity |-> review_log,
                     reviews_today |-> request.reviews_today,
                     streak_days |-> StreakDays(days, request.today),
                     due_forecast |-> DueForecast(request.rows, request.today),
                     difficult_words |-> DifficultWords(request.rows),
                     units |-> UnitMastery(request.rows)]
  /\ UNCHANGED <<zone, now, review_log, card_state>>

Shown == /\ request.step = "answered" /\ request' = Unasked
         /\ UNCHANGED <<zone, now, review_log, card_state>>

StatsNext ==
  \/ Wait \/ Undo \/ ReadStates \/ CountToday \/ AnswerOverview \/ Shown
  \/ \E c \in DOMAIN WordOfCard, forgotten \in BOOLEAN : Grade(c, forgotten)

StatsSpec == StatsInit /\ [][StatsNext]_statsVars

-------------------------------------------------------------------------------
(* A zone west of Greenwich whose clocks go from midnight to one o'clock:  *)
(* the second reading is that of the hour before, and the day starts an    *)
(* hour early.                                                             *)
SkipsMidnight == zone.before < 0 /\ zone.before < zone.after /\ (zone.at + zone.before) % 24 = 0

(* One east of Greenwich whose clocks go from one o'clock back to          *)
(* midnight: both readings are those of the hour after, and the day starts *)
(* at its second midnight.                                                 *)
RepeatsMidnight == zone.before > 0 /\ zone.after < zone.before /\ (zone.at + zone.before) % 24 = 1

OnDay(log, date) == {i \in NotUndone(log) : LocalDateKey(log[i].at) = date}

TodayIsLocal ==
  request.reviews_today =
    Cardinality({i \in NotUndone(request.counted) : LocalDateKey(request.counted[i].at) >= request.today})

StreakIsLocal ==
  LET start == IF OnDay(request.activity, request.today) = {} THEN 1 ELSE 0
  IN  request.streak_days =
        Cardinality({n \in start .. STREAK_LOOKBACK_DAYS :
                       \A k \in start .. n : OnDay(request.activity, request.today - k) # {}})

ForecastIsLocal ==
  \A n \in 0 .. FORECAST_DAYS - 1 :
    request.due_forecast[n] =
      Cardinality({c \in Graded(request.rows) :
                     LET day == LocalDateKey(request.rows[c].due) - request.today
                     IN  IF n = 0 THEN day <= 0 ELSE day = n})

(* The counts of today, the streak and the forecast agree with the dates   *)
(* that the learner's calendar gives to the reviews and the due instants,  *)
(* across a change of the offset on any day of the window and with grades  *)
(* and undos between the queries (stats/queries.ts:129-157, 237-290).      *)
OverviewOnTheCalendar ==
  request.step = "answered" /\ ~SkipsMidnight /\ ~RepeatsMidnight =>
    TodayIsLocal /\ StreakIsLocal /\ ForecastIsLocal

===============================================================================
