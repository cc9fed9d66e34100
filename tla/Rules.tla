-------------------------------- MODULE Rules --------------------------------
(***************************************************************************)
(* Recording and alerting rules: RuleManager, RuleEvaluator and AlertManager *)
(* (server/src/rules).  One evaluation walks over the rules; it takes the    *)
(* alert manager's lock for one sample at a time, so new samples, the removal *)
(* of old alerts and the clock come between two of its steps.                *)
(***************************************************************************)
EXTENDS Integers, Sequences, FiniteSets, SequencesExt, Filters

CONSTANTS
  RuleFiles,    \* file -> its rules, in order
  PostedRules,  \* alert rules that are posted to the API: [name, reads]
  RSeries,      \* the series the rules read
  Window,       \* the 300 s an evaluation looks back
  PendingFor,   \* the 300 s an alert stays pending
  ExpireAfter,  \* the hour after which an alert is forgotten
  RuleTime,     \* bound on the clock
  RuleLoads,    \* bound on the files loaded
  RuleSamples,  \* bound on the samples stored
  RuleEvals     \* bound on the evaluations of one rule
ASSUME RulesAssumption ==
  /\ {Window, PendingFor, ExpireAfter} \subseteq Nat
  /\ {RuleTime, RuleLoads, RuleSamples, RuleEvals} \subseteq Nat
  /\ 0 < PendingFor
  /\ RuleFiles \in [DOMAIN RuleFiles -> Seq(UNION {ToSet(RuleFiles[f]) : f \in DOMAIN RuleFiles})]

VARIABLES
  groups,    \* the rules of all groups, in order
  source,    \* the samples of the series the rules read: [series, t, v]
  recorded,  \* name of a recording rule -> time -> how often it was written
  alerts,    \* AlertManager.alerts
  noted,     \* <<name, series>> -> the state of its last notification
  eval,      \* the evaluation: rules to come, the samples of the current one
  evals,     \* rule name -> evaluations whose query has run
  ruleNow
ruleVars == <<groups, source, recorded, alerts, noted, eval, evals, ruleNow>>

Rest == [todo |-> <<>>, rule |-> <<>>, samples |-> <<>>]
RuleNames == {r.name : r \in PostedRules \cup UNION {ToSet(RuleFiles[f]) : f \in DOMAIN RuleFiles}}
AlertKeys == RuleNames \X RSeries

RulesInit ==
  /\ groups = <<>>
  /\ source = {}
  /\ recorded = [n \in RuleNames |-> [t \in 0..RuleTime |-> 0]]
  /\ alerts = <<>>
  /\ noted = [k \in AlertKeys |-> "none"]
  /\ eval = Rest
  /\ evals = [n \in RuleNames |-> 0]
  /\ ruleNow = 0

\* load_from_file appends; a file that is loaded again has its rules twice.
load_from_file(f) ==
  /\ eval = Rest      \* evaluate_all keeps the read lock
  /\ Len(groups) + Len(RuleFiles[f]) <= RuleLoads
  /\ groups' = groups \o RuleFiles[f]
  /\ UNCHANGED <<source, recorded, alerts, noted, eval, evals, ruleNow>>

\* RuleManager::add_alert_rule, into a group of its own; whatever the query of
\* the request compares, the condition is AlertCondition::default().
handle_alerts_rules_post(p) ==
  /\ eval = Rest
  /\ Len(groups) < RuleLoads
  /\ groups' = Append(groups, [name |-> p.name, kind |-> "alert", reads |-> p.reads, cond |-> [op |-> "ne", x |-> 0]])
  /\ UNCHANGED <<source, recorded, alerts, noted, eval, evals, ruleNow>>

StoreSample(s, v) ==
  /\ Cardinality(source) < RuleSamples
  /\ source' = source \cup {[series |-> s, t |-> ruleNow, v |-> v]}
  /\ UNCHANGED <<groups, recorded, alerts, noted, eval, evals, ruleNow>>

RuleTick ==
  /\ ruleNow < RuleTime
  /\ ruleNow' = ruleNow + 1
  /\ UNCHANGED <<groups, source, recorded, alerts, noted, eval, evals>>

-----------------------------------------------------------------------------
rules_of(kind) == Keep(groups, {r \in ToSet(groups) : r.kind = kind})

evaluate_all ==
  /\ eval = Rest
  /\ groups # <<>>
  /\ \A n \in RuleNames : evals[n] < RuleEvals
  /\ eval' = [Rest EXCEPT !.todo = rules_of("record") \o rules_of("alert")]
  /\ UNCHANGED <<groups, source, recorded, alerts, noted, evals, ruleNow>>

\* The query of the next rule: the last Window of every series its matchers take.
InWindow(r) == {s \in source : s.series \in r.reads /\ ruleNow - Window <= s.t /\ s.t <= ruleNow}

\* The orders a query may answer in: series after series, whichever comes first,
\* and the samples of a series by time.
Answers(samples) ==
  {q \in SetToSeqs(samples) :
     \A i, j \in DOMAIN q : i < j /\ q[i].series = q[j].series =>
       q[i].t <= q[j].t /\ \A k \in i..j : q[k].series = q[i].series}

QueryRule ==
  LET r == Head(eval.todo)
  IN  /\ eval.todo # <<>>
      /\ eval.rule = <<>>
      /\ \E q \in Answers(InWindow(r)) :
           eval' = [eval EXCEPT !.todo = Tail(@), !.rule = <<r>>, !.samples = q]
      /\ evals' = [evals EXCEPT ![r.name] = @ + 1]
      /\ UNCHANGED <<groups, source, recorded, alerts, noted, ruleNow>>

RuleDone ==
  /\ eval.rule # <<>>
  /\ eval.samples = <<>>
  /\ eval' = [eval EXCEPT !.rule = <<>>]
  /\ UNCHANGED <<groups, source, recorded, alerts, noted, evals, ruleNow>>

\* evaluate_recording, one sample: it is written again whenever an evaluation has
\* it in its window, and all series of the result go to the series of the rule.
evaluate_recording ==
  LET r == eval.rule[1]
      s == Head(eval.samples)
  IN  /\ eval.samples # <<>>
      /\ r.kind = "record"
      /\ recorded' = [recorded EXCEPT ![r.name][s.t] = @ + 1]
      /\ eval' = [eval EXCEPT !.samples = Tail(@)]
      /\ UNCHANGED <<groups, source, alerts, noted, evals, ruleNow>>

AlertHolds(cond, v) ==
  CASE cond.op = "gt"  -> v > cond.x
    [] cond.op = "gte" -> v >= cond.x
    [] cond.op = "lt"  -> v < cond.x
    [] cond.op = "lte" -> v <= cond.x
    [] cond.op = "eq"  -> v = cond.x
    [] cond.op = "ne"  -> v # cond.x

Notify(key, state) == noted' = [noted EXCEPT ![key] = state]
AlertAt(key) == {i \in DOMAIN alerts : alerts[i].key = key}

\* Mutant: a pending alert fires at its next sample.
MutCreateAlert(key, v) ==
  IF AlertAt(key) = {}
  THEN /\ alerts' = Append(alerts, [key |-> key, state |-> "Pending", active_at |-> ruleNow,
                                    last_evaluation |-> ruleNow, value |-> v])
       /\ Notify(key, "Pending")
  ELSE LET i == CHOOSE x \in AlertAt(key) : TRUE
       IN  /\ alerts' = [alerts EXCEPT ![i].value = v, ![i].last_evaluation = ruleNow, ![i].state = "Firing"]
           /\ Notify(key, "Firing")

\* create_alert: a new alert is pending; one that is known keeps the time it
\* became active, and fires once that is PendingFor ago.  The rule's own "for" is
\* not looked at, and nothing makes an alert inactive again.
create_alert(key, v) ==
  IF AlertAt(key) = {}
  THEN /\ alerts' = Append(alerts, [key |-> key, state |-> "Pending", active_at |-> ruleNow,
                                    last_evaluation |-> ruleNow, value |-> v])
       /\ Notify(key, "Pending")
  ELSE LET i == CHOOSE x \in AlertAt(key) : TRUE
           fires == alerts[i].state = "Pending" /\ ruleNow - alerts[i].active_at >= PendingFor
           state == IF fires THEN "Firing" ELSE alerts[i].state
       IN  /\ alerts' = [alerts EXCEPT ![i] = [@ EXCEPT !.value = v, !.last_evaluation = ruleNow, !.state = state]]
           /\ IF fires THEN Notify(key, "Firing") ELSE UNCHANGED noted

evaluate_alerting ==
  LET r == eval.rule[1]
      s == Head(eval.samples)
  IN  /\ eval.samples # <<>>
      /\ r.kind = "alert"
      /\ eval' = [eval EXCEPT !.samples = Tail(@)]
      /\ IF AlertHolds(r.cond, s.v) THEN create_alert(<<r.name, s.series>>, s.v)
         ELSE UNCHANGED <<alerts, noted>>
      /\ UNCHANGED <<groups, source, recorded, evals, ruleNow>>

Expired(a) == ruleNow - a.last_evaluation > ExpireAfter

\* clean_expired_alerts: the notification it sends carries the state the alert
\* still has, pending or firing.
clean_expired_alerts ==
  /\ \E i \in DOMAIN alerts : Expired(alerts[i])
  /\ alerts' = Keep(alerts, {a \in ToSet(alerts) : ~Expired(a)})
  /\ noted' = [k \in AlertKeys |-> IF \E i \in AlertAt(k) : Expired(alerts[i])
                                   THEN alerts[CHOOSE i \in AlertAt(k) : TRUE].state ELSE noted[k]]
  /\ UNCHANGED <<groups, source, recorded, eval, evals, ruleNow>>

RulesNext ==
  \/ \E f \in DOMAIN RuleFiles : load_from_file(f)
  \/ \E p \in PostedRules : handle_alerts_rules_post(p)
  \/ \E s \in RSeries, v \in {0, 1} : StoreSample(s, v)
  \/ RuleTick
  \/ evaluate_all \/ QueryRule \/ RuleDone
  \/ evaluate_recording \/ evaluate_alerting
  \/ clean_expired_alerts
RulesSpec == RulesInit /\ [][RulesNext]_ruleVars

-----------------------------------------------------------------------------
(* What the API shows of the rules and alerts.                              *)

\* Name and kind; a rule's health is "ok" whatever its evaluations answer.
handle_rules == {<<r.name, r.kind>> : r \in ToSet(groups)}

\* Every rule is shown as inactive.
handle_alerts_rules_get == {r.name : r \in ToSet(rules_of("alert"))}

handle_alerts == {<<a.key, a.state, a.value>> : a \in ToSet(alerts)}

handle_alerts_firing == Keep(alerts, {a \in ToSet(alerts) : a.state = "Firing"})

-----------------------------------------------------------------------------
Firing(rule, s) == s.series \in rule.reads /\ AlertHolds(rule.cond, s.v)
AlertRules == {r \in ToSet(groups) : r.kind = "alert"}

\* One alert per rule and series, however evaluations and removals interleave;
\* what fires was confirmed by a sample in the window PendingFor after it became
\* active (create_alert), and its last notification says what it is.  The API
\* lists every alert once, in its state, under a rule that it lists as well.
AlertsSound ==
  /\ \A i, j \in DOMAIN alerts : alerts[i].key = alerts[j].key => i = j
  /\ \A i \in DOMAIN alerts :
       LET a == alerts[i]
       IN  /\ noted[a.key] = a.state
           /\ a.state = "Firing" => a.last_evaluation - a.active_at >= PendingFor
           /\ \E r \in AlertRules, s \in source :
                r.name = a.key[1] /\ s.series = a.key[2] /\ Firing(r, s) /\ s.t <= a.last_evaluation
  /\ Cardinality(handle_alerts) = Len(alerts)
  /\ \A a \in ToSet(handle_alerts_firing) :
       /\ <<a.key, noted[a.key], a.value>> \in handle_alerts
       /\ a.key[1] \in handle_alerts_rules_get /\ <<a.key[1], "alert">> \in handle_rules

\* Under the name of recording rules there are only samples that the series they
\* read had at those times, each at most once per evaluation: the number of copies
\* is bounded by the evaluations, and only by them (evaluate_recording).
Recorders(n) == {r \in ToSet(groups) : r.kind = "record" /\ r.name = n}
SourceAt(n, t) == {s \in source : s.t = t /\ \E r \in Recorders(n) : s.series \in r.reads}
RecordedFromSource ==
  \A n \in RuleNames, t \in 0..RuleTime : recorded[n][t] <= evals[n] * Cardinality(SourceAt(n, t))

\* What evaluations leave behind: alerts that are confirmed, and recorded
\* samples that their source had.
RulesSound == AlertsSound /\ RecordedFromSource
=============================================================================
