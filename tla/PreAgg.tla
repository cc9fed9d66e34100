------------------------------- MODULE PreAgg --------------------------------
(***************************************************************************)
(* Pre-aggregation: the frequencies of queries (query/frequency.rs), the     *)
(* rules made from them (rules/pre_aggregation.rs), the scheduler that runs  *)
(* rules (rules/scheduler.rs) and the router that answers queries from them  *)
(* (query/router.rs).  Every method locks its own map for one access, so two *)
(* callers interleave between a count and the rules created after it.        *)
(***************************************************************************)
EXTENDS Integers, Sequences, FiniteSets, SequencesExt, Filters

CONSTANTS
  PQueries,      \* queries: [metric, labels (a sequence), range]
  Durations,     \* the ranges remove_time_parameters recognises
  FreqWindow,    \* window_size_hours
  FreqThreshold, \* frequency_threshold, of the tracker and of the manager
  LowThreshold,  \* low_frequency_threshold, times window_size_hours
  MaxTracked,    \* max_tracked_queries
  MaxAuto,       \* max_auto_rules
  Observation,   \* observation_period_hours
  Creators,      \* callers of auto_create_rules
  Elsewhere,     \* rules the coordinator has assigned to another node
  PaTime,        \* bound on the clock
  PaAsked,       \* bound on the queries asked
  PaRules        \* bound on the rules ever created
ASSUME PreAggAssumption ==
  /\ {FreqWindow, FreqThreshold, LowThreshold, MaxTracked, MaxAuto, Observation} \subseteq Nat
  /\ {PaTime, PaAsked, PaRules} \subseteq Nat

VARIABLES
  stats,    \* normalized query -> the times of its records in the window
  askedAt,  \* normalized query -> all times it was asked (history)
  dropped,  \* normalized queries a full table has dropped (history)
  prules,   \* PreAggregationManager.rules: id -> rule
  nextRule, \* the id the next rule gets
  creator,  \* caller -> auto_create_rules in progress
  overlap,  \* two calls were between their count and their last rule (history)
  cleaner,  \* auto_cleanup_rules in progress: its copy of the rules
  srules,   \* PreAggregationScheduler.rules
  agg,      \* ids with an entry in data_store
  exec,     \* the rule execute_task is running: nothing or <<id, expr>>
  raced,    \* ids removed while they ran (history)
  told,     \* id -> the status last reported to the coordinator
  paNow
paVars == <<stats, askedAt, dropped, prules, nextRule, creator, overlap, cleaner,
            srules, agg, exec, raced, told, paNow>>
trackVars == <<stats, askedAt, dropped>>
manageVars == <<prules, nextRule, creator, overlap, cleaner>>
runVars == <<srules, agg, exec, raced, told>>

\* normalize_query: matchers in any order and every simple range are one query.
normalize_query(q) ==
  [metric |-> q.metric, labels |-> SetToSortSeq(ToSet(q.labels), <),
   range |-> IF q.range \in Durations THEN "DURATION" ELSE q.range]
Normals == {normalize_query(q) : q \in PQueries}
RuleIds == 1..PaRules
Idle == [pc |-> "idle", count |-> 0, todo |-> <<>>, made |-> 0]

PaInit ==
  /\ stats = <<>>
  /\ askedAt = [n \in Normals |-> <<>>]
  /\ dropped = {}
  /\ prules = <<>>
  /\ nextRule = 1
  /\ creator = [c \in Creators |-> Idle]
  /\ overlap = FALSE
  /\ cleaner = <<>>
  /\ srules = <<>>
  /\ agg = {}
  /\ exec = <<>>
  /\ raced = {}
  /\ told = [r \in RuleIds |-> "none"]
  /\ paNow = 1

PaTick ==
  /\ paNow < PaTime
  /\ paNow' = paNow + 1
  /\ UNCHANGED <<trackVars, manageVars, runVars>>

LogTenth == <<0, 3>>   \* log10 of the frequencies 1 and 2, over ten, in hundredths

Without(f, k) == [x \in DOMAIN f \ {k} |-> f[x]]
With(f, k, v) == [x \in DOMAIN f \cup {k} |-> IF x = k THEN v ELSE f[x]]

-----------------------------------------------------------------------------
Within(since) == {t \in Nat : t > since - FreqWindow}
cleanup_old_records(times) == Keep(times, Within(paNow))
Frequency(q) == LET n == normalize_query(q) IN IF n \in DOMAIN stats THEN Len(stats[n]) ELSE 0

\* record_query: a full table first drops what is at most half as frequent as
\* the threshold, which may be nothing.
record_query(q) ==
  LET n == normalize_query(q)
      full == n \notin DOMAIN stats /\ Cardinality(DOMAIN stats) >= MaxTracked
      kept == IF full THEN {m \in DOMAIN stats : Len(stats[m]) > FreqThreshold \div 2}
              ELSE DOMAIN stats
      before == IF n \in kept THEN stats[n] ELSE <<>>
  IN  /\ MapThenSumSet(LAMBDA m : Len(askedAt[m]), Normals) < PaAsked
      /\ stats' = With([m \in kept |-> stats[m]], n, cleanup_old_records(Append(before, paNow)))
      /\ askedAt' = [askedAt EXCEPT ![n] = Append(@, paNow)]
      /\ dropped' = dropped \cup (DOMAIN stats \ kept)
      /\ UNCHANGED <<manageVars, runVars, paNow>>

cleanup_expired ==
  LET live == {n \in DOMAIN stats : cleanup_old_records(stats[n]) # <<>>}
  IN  /\ stats' = [n \in live |-> cleanup_old_records(stats[n])]
      /\ stats' # stats
      /\ UNCHANGED <<askedAt, dropped, manageVars, runVars, paNow>>

get_high_frequency_queries == {n \in DOMAIN stats : Len(stats[n]) >= FreqThreshold}

-----------------------------------------------------------------------------
NewRule(expr, auto) == [expr |-> expr, auto |-> auto, status |-> "Active", freq |-> 0, used |-> 0]
Autos == {r \in DOMAIN prules : prules[r].auto}

create_rule(q) ==
  /\ nextRule <= PaRules
  /\ prules' = With(prules, nextRule, NewRule(q, FALSE))
  /\ nextRule' = nextRule + 1
  /\ UNCHANGED <<trackVars, creator, overlap, cleaner, runVars, paNow>>

\* update_rule with a status, and delete_rule.
SetStatus(r, status) ==
  /\ r \in DOMAIN prules /\ prules[r].status # status
  /\ prules' = [prules EXCEPT ![r].status = status]
  /\ UNCHANGED <<trackVars, nextRule, creator, overlap, cleaner, runVars, paNow>>

delete_rule(r) ==
  /\ r \in DOMAIN prules
  /\ prules' = Without(prules, r)
  /\ UNCHANGED <<trackVars, nextRule, creator, overlap, cleaner, runVars, paNow>>

update_rule_frequency(r) ==
  /\ r \in DOMAIN prules /\ prules[r].freq < Len(LogTenth)
  /\ prules' = [prules EXCEPT ![r] = [@ EXCEPT !.freq = prules[r].freq + 1, !.used = paNow]]
  /\ UNCHANGED <<trackVars, nextRule, creator, overlap, cleaner, runVars, paNow>>

\* Mutant: rules are created whatever their number.
MutAutoCreateBegin(c) ==
  /\ creator[c] = Idle
  /\ \E todo \in SetToSeqs(get_high_frequency_queries) :
       /\ todo # <<>>
       /\ creator' = [creator EXCEPT ![c] =
            [pc |-> "create", count |-> Cardinality(Autos), todo |-> todo, made |-> 0]]
  /\ overlap' = (overlap \/ \E d \in Creators \ {c} : creator[d] # Idle)
  /\ UNCHANGED <<trackVars, prules, nextRule, cleaner, runVars, paNow>>

\* auto_create_rules: the count and the frequent queries are read first ...
AutoCreateBegin(c) ==
  /\ creator[c] = Idle
  /\ Cardinality(Autos) < MaxAuto
  /\ \E todo \in SetToSeqs(get_high_frequency_queries) :
       /\ todo # <<>>
       /\ creator' = [creator EXCEPT ![c] =
            [pc |-> "create", count |-> Cardinality(Autos), todo |-> todo, made |-> 0]]
  /\ overlap' = (overlap \/ \E d \in Creators \ {c} : creator[d] # Idle)
  /\ UNCHANGED <<trackVars, prules, nextRule, cleaner, runVars, paNow>>

\* ... then a rule is created for each, one that has a rule already included.
AutoCreateOne(c) ==
  LET k == creator[c]
      last == Len(k.todo) = 1 \/ k.count + k.made + 1 >= MaxAuto
  IN  /\ k.pc = "create"
      /\ nextRule <= PaRules
      /\ prules' = With(prules, nextRule, NewRule(Head(k.todo), TRUE))
      /\ nextRule' = nextRule + 1
      /\ creator' = [creator EXCEPT ![c] =
           IF last THEN Idle ELSE [k EXCEPT !.made = @ + 1, !.todo = Tail(@)]]
      /\ UNCHANGED <<trackVars, overlap, cleaner, runVars, paNow>>

\* auto_cleanup_rules: a copy of the automatic rules, then one rule at a time.
CleanupBegin ==
  /\ cleaner = <<>>
  /\ \E ids \in SetToSeqs(Autos) :
       /\ ids # <<>>
       /\ cleaner' = [i \in DOMAIN ids |->
                        [id |-> ids[i], expr |-> prules[ids[i]].expr, used |-> prules[ids[i]].used]]
  /\ UNCHANGED <<trackVars, prules, nextRule, creator, overlap, runVars, paNow>>

CleanupOne ==
  LET r == Head(cleaner)
  IN  /\ cleaner # <<>>
      /\ cleaner' = Tail(cleaner)
      /\ prules' = IF Frequency(r.expr) < LowThreshold /\ paNow - r.used > Observation
                   THEN Without(prules, r.id) ELSE prules
      /\ UNCHANGED <<trackVars, nextRule, creator, overlap, runVars, paNow>>

-----------------------------------------------------------------------------
add_rule(r) ==
  /\ r \in DOMAIN prules /\ r \notin DOMAIN srules
  /\ srules' = With(srules, r, prules[r])
  /\ UNCHANGED <<trackVars, manageVars, agg, exec, raced, told, paNow>>

remove_rule(r) ==
  /\ r \in DOMAIN srules
  /\ srules' = Without(srules, r)
  /\ agg' = agg \ {r}
  /\ raced' = IF exec # <<>> /\ exec[1] = r THEN raced \cup {r} ELSE raced
  /\ UNCHANGED <<trackVars, manageVars, exec, told, paNow>>

\* start and execute_task: an active rule that is not another node's is run; its
\* rule is a copy, and its query cannot be read back when a range was replaced.
ExecuteBegin(r) ==
  /\ exec = <<>>
  /\ r \in DOMAIN srules /\ srules[r].status = "Active" /\ r \notin Elsewhere
  /\ exec' = <<r, srules[r].expr>>
  /\ told' = [told EXCEPT ![r] = "Running"]
  /\ UNCHANGED <<trackVars, manageVars, srules, agg, raced, paNow>>

\* The result goes to data_store without another look at the rules; a query that
\* fails leaves the old result.
ExecuteEnd ==
  /\ exec # <<>>
  /\ \/ /\ exec[2].range # "DURATION"
        /\ agg' = agg \cup {exec[1]}
        /\ told' = [told EXCEPT ![exec[1]] = "Completed"]
     \/ agg' = agg /\ told' = [told EXCEPT ![exec[1]] = "Failed"]
  /\ exec' = <<>>
  /\ UNCHANGED <<trackVars, manageVars, srules, raced, paNow>>

-----------------------------------------------------------------------------
\* calculate_match_score in hundredths; log10 of an unused rule's frequency is
\* minus infinity, and a score has to be above zero to be chosen.
calculate_match_score(rule) ==
  IF rule.freq = 0 THEN -1000
  ELSE (IF rule.auto THEN 10 ELSE 0) + LogTenth[rule.freq]
         + (IF paNow - rule.used < 1 THEN 30 ELSE IF paNow - rule.used < 24 THEN 20 ELSE 10)

MatchingRules(q) ==
  {r \in DOMAIN prules : normalize_query(prules[r].expr) = normalize_query(q)}
select_best_match(ids) ==
  {r \in ids : /\ calculate_match_score(prules[r]) > 0
               /\ \A x \in ids : calculate_match_score(prules[x]) <= calculate_match_score(prules[r])}
route(q) == select_best_match(MatchingRules(q))

\* The manager's callers, and the scheduler's beside those that make rules.
MakeRules ==
  \/ \E q \in PQueries : record_query(q) \/ create_rule(q)
  \/ \E c \in Creators : AutoCreateBegin(c) \/ AutoCreateOne(c)
ManageNext ==
  \/ PaTick
  \/ MakeRules
  \/ cleanup_expired
  \/ \E r \in RuleIds : delete_rule(r) \/ update_rule_frequency(r)
  \/ CleanupBegin \/ CleanupOne
RunNext ==
  \/ MakeRules
  \/ \E r \in RuleIds : SetStatus(r, "Inactive") \/ add_rule(r) \/ remove_rule(r) \/ ExecuteBegin(r)
  \/ ExecuteEnd
PaSpec == PaInit /\ [][ManageNext \/ RunNext]_paVars

-----------------------------------------------------------------------------
\* A query's frequency is what was asked in the window that ends with its last
\* record, never more, and exactly that unless a full table dropped it
\* (record_query, cleanup_old_records).
FrequencyExact ==
  \A n \in DOMAIN stats :
    LET last == askedAt[n][Len(askedAt[n])]
        recent(since) == Len(Keep(askedAt[n], Within(since)))
    IN  /\ Len(stats[n]) <= recent(last)
        /\ n \notin dropped => Len(stats[n]) >= recent(paNow)

\* The automatic rules pass max_auto_rules only when two calls of
\* auto_create_rules were at work together (the count is read once).
AutoRulesBounded == ~overlap => Cardinality(Autos) <= MaxAuto

\* Data is kept for a rule the scheduler no longer has only when the rule was
\* removed while it ran: execute_task stores its result without looking again.
OrphansNeedRace == agg \ DOMAIN srules \subseteq raced

\* A query is routed only to a rule of its own normal form that was counted as
\* used before: a rule fresh from auto_create_rules never answers the query it
\* was created for.
RoutedWasUsed ==
  \A q \in PQueries : \A r \in route(q) :
    normalize_query(prules[r].expr) = normalize_query(q) /\ prules[r].used > 0

\* Frequencies, automatic rules, aggregated data and routing stay consistent
\* while their callers overlap.
PreAggSound == FrequencyExact /\ AutoRulesBounded /\ OrphansNeedRace /\ RoutedWasUsed
=============================================================================
