---------------------------- MODULE ComplianceLog -----------------------------
(***************************************************************************)
(* The compliance log and the reports made from it.  The log is a sequence  *)
(* of records [timestamp, rule, passed, ticket], one per check and cycle;   *)
(* a report counts the records of a window.  The compliance rate is the     *)
(* quotient of two of its counts and left out, as are severities, which go  *)
(* by the rule, and what a record says in words.                            *)
(***************************************************************************)
EXTENDS Integers, FiniteSets, Sequences

HardSafetyRules == {"max_daily_loss", "max_daily_loss_open_positions", "consecutive_loss_cooldown"}

\* ComplianceLogger.log_cycle: every result, passed or not.
LogCycle(log, asOf, results) ==
  log \o [i \in DOMAIN results |->
            [timestamp |-> asOf, rule |-> results[i].rule, passed |-> results[i].passed,
             ticket |-> results[i].ticket]]

\* The places of the records of a window, both of whose ends belong to it.
RecordsIn(log, since, until) ==
  {i \in DOMAIN log : since <= log[i].timestamp /\ log[i].timestamp <= until}

Violations(log, records) == {i \in records : ~log[i].passed}

HardFailures(log, records) == {i \in Violations(log, records) : log[i].rule \in HardSafetyRules}

KeyOf(record) == <<record.rule, record.ticket>>

\* sorted() is stable; a host's clock may have been set back between two cycles.
Precedes(log, i, j) ==
  \/ log[i].timestamp < log[j].timestamp
  \/ log[i].timestamp = log[j].timestamp /\ i < j

\* The one of these records that comes last before j has the key of j.
Repeats(log, records, j) ==
  \E i \in records :
    /\ Precedes(log, i, j) /\ KeyOf(log[i]) = KeyOf(log[j])
    /\ \A k \in records : ~(Precedes(log, i, k) /\ Precedes(log, k, j))

\* Mutant: every failure is counted, of every polling cycle.
EveryFailure(log, records) == Cardinality(HardFailures(log, records))

\* _count_discipline_saves: one for every key that differs from the one before.
DisciplineSaves(log, records) ==
  LET hard == HardFailures(log, records)
  IN  Cardinality({j \in hard : ~Repeats(log, hard, j)})

\* generate_report.
Report(log, since, until) ==
  LET records  == RecordsIn(log, since, until)
      violated == Violations(log, records)
  IN  [total      |-> Cardinality(records),
       passed     |-> Cardinality(records \ violated),
       violations |-> [rule \in {log[i].rule : i \in violated} |->
                         Cardinality({i \in violated : log[i].rule = rule})],
       saves      |-> DisciplineSaves(log, records)]

\* A Counter answers 0 for a key it does not have.
Count(counter, key) == IF key \in DOMAIN counter THEN counter[key] ELSE 0

\* Mutant: only the rules violated in the first report are counted.
AggregateByFirst(one, other) ==
  [total      |-> one.total + other.total,
   passed     |-> one.passed + other.passed,
   violations |-> [rule \in DOMAIN one.violations |-> one.violations[rule] + Count(other.violations, rule)],
   saves      |-> one.saves + other.saves]

\* aggregate_reports, of two.
Aggregate(one, other) ==
  [total      |-> one.total + other.total,
   passed     |-> one.passed + other.passed,
   violations |-> [rule \in DOMAIN one.violations \union DOMAIN other.violations |->
                     Count(one.violations, rule) + Count(other.violations, rule)],
   saves      |-> one.saves + other.saves]

===============================================================================
