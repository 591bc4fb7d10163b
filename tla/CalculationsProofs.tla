-------------------------- MODULE CalculationsProofs --------------------------
(***************************************************************************)
(* What the program computes, for all its inputs: the checks mean what the  *)
(* rules say; reports of adjoining windows add up, and an incident is       *)
(* counted as the statistics count it, whatever was logged; the day's       *)
(* trades are those of the deals, whatever the history.                     *)
(***************************************************************************)
EXTENDS Calculations, RuleEngineProofs

InputOK == input \in AccountSnapshot /\ DistinctTickets(input.positions)

\* What is evaluated is a snapshot of positions with distinct tickets.
LEMMA InputAlwaysOK == Spec => []InputOK
<1>1. Init => InputOK
  BY DEF Init, InputOK, NoInput, AccountSnapshot, DistinctTickets
<1>2. InputOK /\ [Next]_vars => InputOK'
  <2> SUFFICES ASSUME InputOK, [Next]_vars PROVE InputOK'
    OBVIOUS
  <2>1. CASE Evaluated
    BY <2>1, CalculationsAssumption DEF Evaluated, InputOK
  <2>2. CASE Dealt
    BY <2>2 DEF Dealt, InputOK
  <2>3. CASE Logged
    BY <2>3 DEF Logged, InputOK
  <2>4. CASE UNCHANGED vars
    BY <2>4 DEF vars, InputOK
  <2> QED
    BY <2>1, <2>2, <2>3, <2>4 DEF Next
<1> QED
  BY <1>1, <1>2, PTL DEF Spec

\* _time_in_range agrees with walking the clock from the session's start, for
\* every session and day length: exactly the positions opened outside of it
\* are flagged.
THEOREM SessionByTheClock == Spec => []SessionIsClockwise
<1>1. InputOK => SessionIsClockwise
  <2> SUFFICES ASSUME InputOK, NEW r \in RuleSet, NEW p \in ToSet(input.positions)
      PROVE (p.ticket \in FailedTickets(r, input, "trading_session"))
              = (Time(p.openTime) \notin SessionMinutes(r.start, r.end))
    BY DEF SessionIsClockwise
  <2> DEFINE ps      == input.positions
             Out(q)  == Time(q.openTime) \notin SessionMinutes(r.start, r.end)
             flagged == FailedTickets(r, input, "trading_session")
  <2>1. r \in TradingRules /\ input \in AccountSnapshot /\ DistinctTickets(ps)
    BY CalculationsAssumption DEF InputOK
  <2>2. flagged = TicketsWhere(ps, {i \in DOMAIN ps : Out(ps[i])})
    BY <2>1, FailedTicketsOfRules, SessionResults
  <2>3. PICK i \in DOMAIN ps : p = ps[i]
    BY DEF ToSet
  <2> HIDE DEF ps, Out, flagged
  <2>4. p.ticket \in flagged <=> Out(p)
    <3>1. ASSUME p.ticket \in flagged PROVE Out(p)
      <4>1. PICK j \in DOMAIN ps : Out(ps[j]) /\ ps[j].ticket = p.ticket
        BY <2>2, <3>1 DEF TicketsWhere
      <4>2. i = j
        BY <2>1, <2>3, <4>1 DEF DistinctTickets
      <4> QED
        BY <2>3, <4>1, <4>2
    <3>2. ASSUME Out(p) PROVE p.ticket \in flagged
      BY <2>2, <2>3, <3>2 DEF TicketsWhere
    <3> QED
      BY <3>1, <3>2
  <2>5. flagged = FailedTickets(r, input, "trading_session")
        /\ (Out(p) <=> Time(p.openTime) \notin SessionMinutes(r.start, r.end))
    BY DEF flagged, Out
  <2> QED
    BY <2>4, <2>5
<1> QED
  BY <1>1, InputAlwaysOK, PTL

\* check_consecutive_loss_cooldown fails exactly the positions opened after
\* the loss that completed a run of lossTrigger losses, while the pause runs,
\* whatever the day's trades.
THEOREM CooldownAfterRun == Spec => []CooldownIsTheRun
<1>1. InputOK => CooldownIsTheRun
  <2> SUFFICES ASSUME InputOK, NEW r \in RuleSet
      PROVE FailedTickets(r, input, "consecutive_loss_cooldown") =
              IF InCooldown(r, input.trades, input.asOf)
              THEN {p.ticket : p \in {p \in ToSet(input.positions) : p.openTime > Last(input.trades).closeTime}}
              ELSE {}
    BY DEF CooldownIsTheRun
  <2> DEFINE ps       == input.positions
             After(q) == q.openTime > Last(input.trades).closeTime
             places   == {i \in DOMAIN ps : After(ps[i])}
             late     == {p \in ToSet(ps) : After(p)}
  <2>1. r \in TradingRules /\ input \in AccountSnapshot
    BY CalculationsAssumption DEF InputOK
  <2>2. FailedTickets(r, input, "consecutive_loss_cooldown") =
          IF InCooldown(r, input.trades, input.asOf) THEN TicketsWhere(ps, places) ELSE {}
    BY <2>1, FailedTicketsOfRules, CooldownResults
  <2>3. TicketsWhere(ps, places) = {p.ticket : p \in late}
    <3> HIDE DEF ps, After
    <3>1. \A i \in places : ps[i] \in late
      BY DEF ToSet
    <3>2. \A p \in late : \E i \in places : p = ps[i]
      BY DEF ToSet
    <3> HIDE DEF places, late
    <3> QED
      BY <3>1, <3>2 DEF TicketsWhere
  <2> QED
    BY <2>2, <2>3
<1> QED
  BY <1>1, InputAlwaysOK, PTL

\* A tightened rule never lets pass what the looser one flagged, for any two
\* sets of rules and any snapshot.
THEOREM TighterIsStricter == Spec => []TighterFlagsMore
<1>1. InputOK => TighterFlagsMore
  <2> SUFFICES ASSUME InputOK, NEW q \in TighterPairs,
                      NEW rule \in {"max_risk_per_trade", "max_daily_loss", "consecutive_loss_cooldown",
                                    "stop_loss_required", "take_profit_required", "max_concurrent_positions",
                                    "allowed_symbol", "trading_session", "max_trades_per_day"}
      PROVE FailedTickets(q[2], input, rule) \subseteq FailedTickets(q[1], input, rule)
    BY DEF TighterFlagsMore
  <2>1. q[1] \in TradingRules /\ q[2] \in TradingRules /\ Tighter(q[1], q[2])
    BY CalculationsAssumption DEF TighterPairs
  <2> QED
    BY <2>1, TighterFlags DEF InputOK
<1> QED
  BY <1>1, InputAlwaysOK, PTL

-------------------------------------------------------------------------------
(* Reports of adjoining windows.                                            *)

LogRecord == [timestamp : Int, rule : RuleIds, passed : BOOLEAN, ticket : Nat \union {NoTicket}]

\* The order of the sort is a strict total order of the records.
LEMMA PrecedesIsOrder ==
  ASSUME NEW l \in Seq(LogRecord), NEW i \in DOMAIN l, NEW j \in DOMAIN l
  PROVE  /\ Precedes(l, i, j) => ~Precedes(l, j, i)
         /\ i # j => Precedes(l, i, j) \/ Precedes(l, j, i)
         /\ \A k \in DOMAIN l : Precedes(l, i, j) /\ Precedes(l, j, k) => Precedes(l, i, k)
<1>1. DOMAIN l \subseteq Int /\ \A k \in DOMAIN l : l[k] \in LogRecord
  OBVIOUS
<1>2. \A k \in DOMAIN l : l[k].timestamp \in Int
  BY <1>1 DEF LogRecord
<1> QED
  BY <1>1, <1>2 DEF Precedes

LEMMA LogSets ==
  ASSUME NEW l \in Seq(LogRecord), NEW X \in SUBSET DOMAIN l
  PROVE  IsFiniteSet(X) /\ Cardinality(X) \in Nat /\ (Cardinality(X) = 0 <=> X = {})
<1>1. Len(l) \in Nat /\ X \in SUBSET (1..Len(l))
  OBVIOUS
<1>2. IsFiniteSet(X) /\ Cardinality(X) \in Nat
  BY <1>1, PositionsType
<1> QED
  BY <1>2, FS_EmptySet

LEMMA Parts ==
  ASSUME NEW l \in Seq(LogRecord), NEW X \in SUBSET DOMAIN l, NEW Y \in SUBSET DOMAIN l, X \intersect Y = {}
  PROVE  Cardinality(X \union Y) = Cardinality(X) + Cardinality(Y)
<1>1. IsFiniteSet(X) /\ IsFiniteSet(Y) /\ Cardinality(X) \in Nat /\ Cardinality(Y) \in Nat
  BY LogSets
<1>2. Cardinality(X \union Y) = Cardinality(X) + Cardinality(Y) - Cardinality(X \intersect Y)
  BY <1>1, FS_Union
<1>3. Cardinality(X \intersect Y) = 0
  BY FS_EmptySet
<1> QED
  BY <1>1, <1>2, <1>3

\* Where two sets overlap, records are counted twice.
LEMMA Overlap ==
  ASSUME NEW l \in Seq(LogRecord), NEW X \in SUBSET DOMAIN l, NEW Y \in SUBSET DOMAIN l
  PROVE  Cardinality(X) + Cardinality(Y) = Cardinality(X \union Y) + Cardinality(X \intersect Y)
<1>1. IsFiniteSet(X) /\ IsFiniteSet(Y) /\ Cardinality(X) \in Nat /\ Cardinality(Y) \in Nat
      /\ Cardinality(X \intersect Y) \in Nat
  BY LogSets
<1>2. Cardinality(X \union Y) = Cardinality(X) + Cardinality(Y) - Cardinality(X \intersect Y)
  BY <1>1, FS_Union
<1> QED
  BY <1>1, <1>2

\* What is counted as an incident in a set of records.
Incidents(l, H) == {j \in H : ~Repeats(l, H, j)}

\* An initial part has its incidents in common with the whole.
LEMMA IncidentsOfPrefix ==
  ASSUME NEW l \in Seq(LogRecord), NEW H \in SUBSET DOMAIN l, NEW A \in SUBSET H,
         \A i \in A, k \in H \ A : Precedes(l, i, k)
  PROVE  Incidents(l, A) = Incidents(l, H) \intersect A
<1>1. ASSUME NEW j \in A PROVE \A i \in H : Precedes(l, i, j) => i \in A
  BY <1>1, PrecedesIsOrder
<1>2. ASSUME NEW j \in A PROVE Repeats(l, A, j) <=> Repeats(l, H, j)
  <2>1. ASSUME Repeats(l, A, j) PROVE Repeats(l, H, j)
    <3>1. PICK i \in A : /\ Precedes(l, i, j) /\ KeyOf(l[i]) = KeyOf(l[j])
                         /\ \A k \in A : ~(Precedes(l, i, k) /\ Precedes(l, k, j))
      BY <2>1 DEF Repeats
    <3>2. \A k \in H : ~(Precedes(l, i, k) /\ Precedes(l, k, j))
      BY <1>1, <1>2, <3>1
    <3> QED
      BY <3>1, <3>2 DEF Repeats
  <2>2. ASSUME Repeats(l, H, j) PROVE Repeats(l, A, j)
    <3>1. PICK i \in H : /\ Precedes(l, i, j) /\ KeyOf(l[i]) = KeyOf(l[j])
                         /\ \A k \in H : ~(Precedes(l, i, k) /\ Precedes(l, k, j))
      BY <2>2 DEF Repeats
    <3>2. i \in A
      BY <1>1, <1>2, <3>1
    <3> QED
      BY <3>1, <3>2 DEF Repeats
  <2> QED
    BY <2>1, <2>2
<1> QED
  BY <1>2 DEF Incidents

\* A final part too, but for its first record.
LEMMA IncidentsOfSuffix ==
  ASSUME NEW l \in Seq(LogRecord), NEW H \in SUBSET DOMAIN l, NEW B \in SUBSET H,
         \A i \in H \ B, k \in B : Precedes(l, i, k)
  PROVE  /\ Incidents(l, H) \intersect B \subseteq Incidents(l, B)
         /\ \A i, j \in B : Precedes(l, i, j) => (j \in Incidents(l, H) <=> j \in Incidents(l, B))
<1>1. ASSUME NEW j \in B, Repeats(l, B, j) PROVE Repeats(l, H, j)
  <2>1. PICK i \in B : /\ Precedes(l, i, j) /\ KeyOf(l[i]) = KeyOf(l[j])
                       /\ \A k \in B : ~(Precedes(l, i, k) /\ Precedes(l, k, j))
    BY <1>1 DEF Repeats
  <2>2. \A k \in H \ B : ~Precedes(l, i, k)
    BY <2>1, PrecedesIsOrder
  <2>3. \A k \in H : ~(Precedes(l, i, k) /\ Precedes(l, k, j))
    BY <2>1, <2>2
  <2> QED
    BY <2>1, <2>3 DEF Repeats
<1>2. ASSUME NEW b \in B, NEW j \in B, Precedes(l, b, j), Repeats(l, H, j) PROVE Repeats(l, B, j)
  <2>1. PICK i \in H : /\ Precedes(l, i, j) /\ KeyOf(l[i]) = KeyOf(l[j])
                       /\ \A k \in H : ~(Precedes(l, i, k) /\ Precedes(l, k, j))
    BY <1>2 DEF Repeats
  <2>2. i \in B
    BY <1>2, <2>1
  <2> QED
    BY <2>1, <2>2 DEF Repeats
<1> QED
  BY <1>1, <1>2 DEF Incidents

\* The window before a border and the one after it.
LEMMA Windows ==
  ASSUME NEW l \in Seq(LogRecord), NEW since \in Int, NEW until \in Int, NEW border \in since..until
  PROVE  LET A == RecordsIn(l, since, border)   B == RecordsIn(l, border, until)
         IN  /\ A \in SUBSET DOMAIN l /\ B \in SUBSET DOMAIN l
             /\ RecordsIn(l, since, until) = A \union B /\ RecordsIn(l, border, border) = A \intersect B
             /\ \A i \in A : \A k \in B \ A : Precedes(l, i, k)
             /\ \A i \in A \ B : \A k \in B : Precedes(l, i, k)
             /\ \A i \in A \intersect B : \A k \in B \ A : Precedes(l, i, k)
             /\ \A i, k \in A \intersect B : i < k => Precedes(l, i, k)
<1>1. \A k \in DOMAIN l : l[k] \in LogRecord
  OBVIOUS
<1>2. \A k \in DOMAIN l : l[k].timestamp \in Int
  BY <1>1 DEF LogRecord
<1> QED
  BY <1>2 DEF RecordsIn, Precedes

\* The incidents of two windows: one that goes on across the border is counted
\* twice, if no violation falls on it.
LEMMA IncidentsAddUp ==
  ASSUME NEW l \in Seq(LogRecord), NEW A \in SUBSET DOMAIN l, NEW B \in SUBSET DOMAIN l,
         \A i \in A : \A k \in B \ A : Precedes(l, i, k),
         \A i \in A \ B : \A k \in B : Precedes(l, i, k),
         \A i, k \in A \intersect B : i < k => Precedes(l, i, k)
  PROVE  LET Saves(X) == Cardinality(Incidents(l, X))
         IN  /\ Saves(A) \in Nat /\ Saves(B) \in Nat
             /\ Saves(A \union B) \in Nat /\ Saves(A \intersect B) \in Nat
             /\ (Saves(A) + Saves(B)) - (Saves(A \union B) + Saves(A \intersect B))
                  \in (IF Saves(A \intersect B) = 0 THEN {0, 1} ELSE {0})
<1> DEFINE H  == A \union B
           M  == A \intersect B
           N  == B \ A
           IA == Incidents(l, A)
           IB == Incidents(l, B)
           IH == Incidents(l, H)
           IM == Incidents(l, M)
<1>1. /\ H \in SUBSET DOMAIN l /\ M \in SUBSET DOMAIN l /\ N \in SUBSET DOMAIN l
      /\ A \in SUBSET H /\ B \in SUBSET H /\ M \in SUBSET B /\ M \in SUBSET A
      /\ H \ A = N /\ B \ M = N /\ H \ B = A \ B
  OBVIOUS
<1>2. /\ IA \in SUBSET A /\ IB \in SUBSET B /\ IH \in SUBSET H /\ IM \in SUBSET M
  BY DEF Incidents
<1>3. IA = IH \intersect A
  BY <1>1, IncidentsOfPrefix
<1>4. IM = IB \intersect M
  BY <1>1, IncidentsOfPrefix
<1>5. /\ IH \intersect B \subseteq IB
      /\ \A i, j \in B : Precedes(l, i, j) => (j \in IH <=> j \in IB)
  BY <1>1, IncidentsOfSuffix
<1>6. M # {} => IM # {}
  <2> SUFFICES ASSUME M # {} PROVE IM # {}
    OBVIOUS
  <2>1. M \in SUBSET Nat
    OBVIOUS
  <2>2. PICK m \in M : \A k \in M : m <= k
    BY <2>1, LeastNumber
  <2>3. \A k \in M : ~Precedes(l, k, m)
    <3>1. \A k \in M : k = m \/ Precedes(l, m, k)
      BY <2>1, <2>2
    <3> QED
      BY <1>1, <3>1, PrecedesIsOrder
  <2> QED
    BY <2>2, <2>3 DEF Repeats, Incidents
<1> HIDE DEF IA, IB, IH, IM, H, M, N
<1> DEFINE D == (IB \intersect N) \ IH
<1>7. IH \intersect N \subseteq IB \intersect N /\ D = (IB \intersect N) \ (IH \intersect N)
  BY <1>1, <1>5
<1>8. M # {} => D = {}
  <2>1. \A m \in M : \A j \in N : Precedes(l, m, j)
    BY <1>1 DEF M, N
  <2>2. M \subseteq B /\ N \subseteq B
    BY <1>1 DEF M, N
  <2> QED
    BY <1>5, <2>1, <2>2
<1>9. \A i, j \in D : i = j
  <2> SUFFICES ASSUME NEW i \in D, NEW j \in D, i # j PROVE FALSE
    OBVIOUS
  <2>1. i \in B /\ j \in B /\ i \in DOMAIN l /\ j \in DOMAIN l
    BY <1>1, <1>2
  <2>2. Precedes(l, i, j) \/ Precedes(l, j, i)
    BY <2>1, PrecedesIsOrder
  <2> QED
    BY <1>5, <2>1, <2>2
<1> DEFINE Size(X) == Cardinality(X)
<1>10. /\ Size(IA) \in Nat /\ Size(IB) \in Nat /\ Size(IH) \in Nat /\ Size(IM) \in Nat /\ Size(D) \in Nat
       /\ Size(IH \intersect N) \in Nat /\ Size(IB \intersect N) \in Nat
       /\ (Size(IM) = 0 <=> IM = {})
       /\ (Size(D) = 0 <=> D = {})
       /\ IA \in SUBSET DOMAIN l /\ IB \in SUBSET DOMAIN l /\ IH \in SUBSET DOMAIN l /\ IM \in SUBSET DOMAIN l
       /\ D \in SUBSET DOMAIN l /\ IH \intersect N \in SUBSET DOMAIN l /\ IB \intersect N \in SUBSET DOMAIN l
  <2>1. /\ IA \in SUBSET DOMAIN l /\ IB \in SUBSET DOMAIN l /\ IH \in SUBSET DOMAIN l /\ IM \in SUBSET DOMAIN l
        /\ D \in SUBSET DOMAIN l /\ IH \intersect N \in SUBSET DOMAIN l /\ IB \intersect N \in SUBSET DOMAIN l
    BY <1>1, <1>2
  <2> QED
    BY <2>1, LogSets
<1>11. Size(IH) = Size(IA) + Size(IH \intersect N)
  <2> DEFINE rest == IH \intersect N
  <2>1. IH = IA \union rest /\ IA \intersect rest = {} /\ rest \in SUBSET DOMAIN l
    BY <1>1, <1>2, <1>3
  <2> HIDE DEF rest
  <2>2. Cardinality(IA \union rest) = Cardinality(IA) + Cardinality(rest)
    BY <1>10, <2>1, Parts
  <2> QED
    BY <2>1, <2>2 DEF rest
<1>12. Size(IB) = Size(IM) + Size(IB \intersect N)
  <2> DEFINE rest == IB \intersect N
  <2>1. IB = IM \union rest /\ IM \intersect rest = {} /\ rest \in SUBSET DOMAIN l
    BY <1>1, <1>2, <1>4
  <2> HIDE DEF rest
  <2>2. Cardinality(IM \union rest) = Cardinality(IM) + Cardinality(rest)
    BY <1>10, <2>1, Parts
  <2> QED
    BY <2>1, <2>2 DEF rest
<1>13. Size(IB \intersect N) = Size(IH \intersect N) + Size(D)
  <2> DEFINE rest == IB \intersect N
             same == IH \intersect N
  <2>1. /\ rest = same \union D /\ same \intersect D = {}
        /\ same \in SUBSET DOMAIN l /\ D \in SUBSET DOMAIN l
    BY <1>7, <1>10
  <2> HIDE DEF rest, same, D
  <2>2. Cardinality(same \union D) = Cardinality(same) + Cardinality(D)
    BY <2>1, Parts
  <2> QED
    BY <2>1, <2>2 DEF rest, same
<1>14. Size(D) \in {0, 1}
  <2>1. CASE D = {}
    BY <1>10, <2>1
  <2>2. CASE D # {}
    <3>1. PICK d \in D : TRUE
      BY <2>2
    <3>2. D = {d}
      BY <1>9, <3>1
    <3> QED
      BY <3>2, FS_Singleton
  <2> QED
    BY <2>1, <2>2
<1>15. Size(IM) # 0 => Size(D) = 0
  BY <1>2, <1>6, <1>8, <1>10
<1> HIDE DEF D, Size
<1>16. (Size(IA) + Size(IB)) - (Size(IH) + Size(IM)) = Size(D)
  <2>1. PICK h \in Nat : h = Size(IH \intersect N)
    BY <1>10
  <2>2. PICK b \in Nat : b = Size(IB \intersect N)
    BY <1>10
  <2>3. Size(IH) = Size(IA) + h /\ Size(IB) = Size(IM) + b /\ b = h + Size(D)
    BY <1>11, <1>12, <1>13, <2>1, <2>2
  <2>4. Size(IA) \in Nat /\ Size(IM) \in Nat /\ Size(D) \in Nat
    BY <1>10
  <2> QED
    BY <2>3, <2>4
<1> QED
  BY <1>10, <1>14, <1>15, <1>16 DEF Size, IA, IB, IH, IM, H, M

ViolationsOf(l, records, rule) == {i \in Violations(l, records) : l[i].rule = rule}

\* A counter of violations counts, for every rule, those of the window.
LEMMA CountOfReport ==
  ASSUME NEW l, NEW since, NEW until, NEW rule
  PROVE  Count(Report(l, since, until).violations, rule)
           = Cardinality(ViolationsOf(l, RecordsIn(l, since, until), rule))
<1> DEFINE records == RecordsIn(l, since, until)
           Rules   == {l[i].rule : i \in Violations(l, records)}
           counter == [r \in Rules |-> Cardinality(ViolationsOf(l, records, r))]
<1>1. Report(l, since, until).violations = counter
  BY DEF Report, ViolationsOf
<1>2. CASE rule \in Rules
  BY <1>1, <1>2 DEF Count
<1>3. CASE rule \notin Rules
  <2>1. ViolationsOf(l, records, rule) = {}
    BY <1>3 DEF ViolationsOf
  <2>2. Count(counter, rule) = 0
    BY <1>3 DEF Count
  <2> QED
    BY <1>1, <2>1, <2>2, FS_EmptySet
<1> QED
  BY <1>2, <1>3

\* The log of a cycle's results, by the engine that gave them.
LEMMA LogCycleType ==
  ASSUME NEW l \in Seq(LogRecord), NEW t \in Int, NEW results \in Seq(CheckResult)
  PROVE  LogCycle(l, t, results) \in Seq(LogRecord)
<1> DEFINE new == [i \in DOMAIN results |->
                     [timestamp |-> t, rule |-> results[i].rule, passed |-> results[i].passed,
                      ticket |-> results[i].ticket]]
<1>1. DOMAIN results = 1..Len(results) /\ Len(results) \in Nat /\ \A i \in DOMAIN results : results[i] \in CheckResult
  OBVIOUS
<1>2. \A i \in DOMAIN results : new[i] \in LogRecord
  BY <1>1 DEF CheckResult, LogRecord
<1>3. new \in Seq(LogRecord)
  BY <1>1, <1>2
<1> HIDE DEF new
<1>4. l \o new \in Seq(LogRecord)
  BY <1>3
<1> QED
  BY <1>4 DEF LogCycle, new

LogOK == log \in Seq(LogRecord)

LEMMA LogAlwaysOK == Spec => []LogOK
<1>1. Init => LogOK
  BY DEF Init, LogOK
<1>2. LogOK /\ [Next]_vars => LogOK'
  <2> SUFFICES ASSUME LogOK, [Next]_vars PROVE LogOK'
    OBVIOUS
  <2>1. CASE Evaluated
    BY <2>1 DEF Evaluated, LogOK
  <2>2. CASE Dealt
    BY <2>2 DEF Dealt, LogOK
  <2>3. CASE Logged
    <3>1. PICK snap \in Cycles, t \in Instants : log' = LogCycle(log, t, Evaluate(Strict, snap))
      BY <2>3 DEF Logged
    <3>2. Strict \in TradingRules /\ snap \in AccountSnapshot /\ t \in Int
      BY CalculationsAssumption
    <3>3. Evaluate(Strict, snap) \in Seq(CheckResult)
      BY <3>2, EvaluateElements
    <3> QED
      BY <3>1, <3>2, <3>3, LogCycleType DEF LogOK
  <2>4. CASE UNCHANGED vars
    BY <2>4 DEF vars, LogOK
  <2> QED
    BY <2>1, <2>2, <2>3, <2>4 DEF Next
<1> QED
  BY <1>1, <1>2, PTL DEF Spec

LEMMA ReportsAddUp ==
  ASSUME NEW l \in Seq(LogRecord), NEW since \in Int, NEW until \in Int, NEW border \in since..until
  PROVE  LET parts == Aggregate(Report(l, since, border), Report(l, border, until))
             whole == Aggregate(Report(l, since, until), Report(l, border, border))
         IN  /\ parts.total = whole.total /\ parts.passed = whole.passed /\ parts.violations = whole.violations
             /\ parts.saves - whole.saves \in (IF Report(l, border, border).saves = 0 THEN {0, 1} ELSE {0})
<1> DEFINE A      == RecordsIn(l, since, border)
           B      == RecordsIn(l, border, until)
           H      == RecordsIn(l, since, until)
           M      == RecordsIn(l, border, border)
           RA     == Report(l, since, border)
           RB     == Report(l, border, until)
           RH     == Report(l, since, until)
           RM     == Report(l, border, border)
           parts  == Aggregate(RA, RB)
           whole  == Aggregate(RH, RM)
<1>1. /\ A \in SUBSET DOMAIN l /\ B \in SUBSET DOMAIN l
      /\ H = A \union B /\ M = A \intersect B
      /\ \A i \in A : \A k \in B \ A : Precedes(l, i, k)
      /\ \A i \in A \ B : \A k \in B : Precedes(l, i, k)
      /\ \A i, k \in A \intersect B : i < k => Precedes(l, i, k)
  BY Windows
<1>2. parts.total = whole.total
  <2>1. /\ RA.total = Cardinality(A) /\ RB.total = Cardinality(B)
        /\ RH.total = Cardinality(H) /\ RM.total = Cardinality(M)
    BY DEF Report
  <2> HIDE DEF A, B, H, M, RA, RB, RH, RM
  <2>2. Cardinality(A) + Cardinality(B) = Cardinality(A \union B) + Cardinality(A \intersect B)
    BY <1>1, Overlap
  <2> QED
    BY <1>1, <2>1, <2>2 DEF Aggregate
<1>3. parts.passed = whole.passed
  <2> DEFINE Passed(X) == X \ Violations(l, X)
  <2>1. /\ RA.passed = Cardinality(Passed(A)) /\ RB.passed = Cardinality(Passed(B))
        /\ RH.passed = Cardinality(Passed(H)) /\ RM.passed = Cardinality(Passed(M))
    BY DEF Report
  <2> HIDE DEF A, B, H, M, RA, RB, RH, RM
  <2>2. /\ Passed(A) \in SUBSET DOMAIN l /\ Passed(B) \in SUBSET DOMAIN l
        /\ Passed(A) \union Passed(B) = Passed(H) /\ Passed(A) \intersect Passed(B) = Passed(M)
    BY <1>1 DEF Violations
  <2> HIDE DEF Passed
  <2>3. Cardinality(Passed(A)) + Cardinality(Passed(B))
          = Cardinality(Passed(A) \union Passed(B)) + Cardinality(Passed(A) \intersect Passed(B))
    BY <2>2, Overlap
  <2> QED
    BY <2>1, <2>2, <2>3 DEF Aggregate
<1>4. parts.violations = whole.violations
  <2> DEFINE Of(X, rule) == ViolationsOf(l, X, rule)
             Rules(X)    == {l[i].rule : i \in Violations(l, X)}
  <2>1. ASSUME NEW rule
        PROVE /\ Count(RA.violations, rule) = Cardinality(Of(A, rule))
              /\ Count(RB.violations, rule) = Cardinality(Of(B, rule))
              /\ Count(RH.violations, rule) = Cardinality(Of(H, rule))
              /\ Count(RM.violations, rule) = Cardinality(Of(M, rule))
    BY CountOfReport
  <2>2. /\ DOMAIN RA.violations = Rules(A) /\ DOMAIN RB.violations = Rules(B)
        /\ DOMAIN RH.violations = Rules(H) /\ DOMAIN RM.violations = Rules(M)
    BY DEF Report
  <2> HIDE DEF A, B, H, M, RA, RB, RH, RM
  <2>3. Rules(A) \union Rules(B) = Rules(H) \union Rules(M)
    BY <1>1 DEF Violations
  <2>4. ASSUME NEW rule
        PROVE Count(RA.violations, rule) + Count(RB.violations, rule)
                = Count(RH.violations, rule) + Count(RM.violations, rule)
    <3>1. /\ Of(A, rule) \in SUBSET DOMAIN l /\ Of(B, rule) \in SUBSET DOMAIN l
          /\ Of(A, rule) \union Of(B, rule) = Of(H, rule) /\ Of(A, rule) \intersect Of(B, rule) = Of(M, rule)
      <4> DEFINE Has(i) == ~l[i].passed /\ l[i].rule = rule
      <4>1. \A X : Of(X, rule) = {i \in X : Has(i)}
        BY DEF ViolationsOf, Violations
      <4> HIDE DEF Has, Of
      <4> QED
        BY <1>1, <4>1
    <3> HIDE DEF Of
    <3>2. Cardinality(Of(A, rule)) + Cardinality(Of(B, rule)) = Cardinality(Of(H, rule)) + Cardinality(Of(M, rule))
      <4> DEFINE X == Of(A, rule)
                 Y == Of(B, rule)
      <4>1. X \in SUBSET DOMAIN l /\ Y \in SUBSET DOMAIN l
        BY <3>1
      <4>2. X \union Y = Of(H, rule) /\ X \intersect Y = Of(M, rule)
        BY <3>1
      <4> HIDE DEF X, Y
      <4>3. Cardinality(X) + Cardinality(Y) = Cardinality(X \union Y) + Cardinality(X \intersect Y)
        BY <4>1, Overlap
      <4> QED
        BY <4>2, <4>3 DEF X, Y
    <3> QED
      BY <2>1, <3>2
  <2> HIDE DEF Of, Rules
  <2> QED
    BY <2>2, <2>3, <2>4 DEF Aggregate
<1>5. parts.saves - whole.saves \in (IF RM.saves = 0 THEN {0, 1} ELSE {0})
  <2> DEFINE F     == HardFailures(l, A)
             G     == HardFailures(l, B)
             S(X)  == Cardinality(Incidents(l, X))
  <2>1. /\ RA.saves = S(F) /\ RB.saves = S(G)
        /\ RH.saves = S(HardFailures(l, H)) /\ RM.saves = S(HardFailures(l, M))
    BY DEF Report, DisciplineSaves, Incidents
  <2> HIDE DEF A, B, H, M, RA, RB, RH, RM
  <2>2. /\ HardFailures(l, H) = F \union G /\ HardFailures(l, M) = F \intersect G
        /\ F \in SUBSET A /\ G \in SUBSET B /\ F \ G \subseteq A \ B /\ G \ F \subseteq B \ A
    BY <1>1 DEF HardFailures, Violations
  <2> HIDE DEF F, G
  <2>3. /\ F \in SUBSET DOMAIN l /\ G \in SUBSET DOMAIN l
        /\ \A i \in F : \A k \in G \ F : Precedes(l, i, k)
        /\ \A i \in F \ G : \A k \in G : Precedes(l, i, k)
        /\ \A i, k \in F \intersect G : i < k => Precedes(l, i, k)
    BY <1>1, <2>2
  <2>4. /\ S(F) \in Nat /\ S(G) \in Nat /\ S(F \union G) \in Nat /\ S(F \intersect G) \in Nat
        /\ (S(F) + S(G)) - (S(F \union G) + S(F \intersect G))
               \in (IF S(F \intersect G) = 0 THEN {0, 1} ELSE {0})
    BY <2>3, IncidentsAddUp
  <2> HIDE DEF S
  <2>5. /\ parts.saves = S(F) + S(G) /\ whole.saves = S(F \union G) + S(F \intersect G)
        /\ RM.saves = S(F \intersect G)
    BY <2>1, <2>2 DEF Aggregate
  <2> QED
    BY <2>4, <2>5
<1> QED
  BY <1>2, <1>3, <1>4, <1>5

\* The reports of two adjoining windows of any log add up to the report of
\* both, but for the instant where they meet and an incident that goes on
\* across it, which counts once more.
THEOREM AdjoiningWindows == Spec => []WindowsAddUp
<1>1. LogOK => WindowsAddUp
  <2>1. \A t \in Instants : t \in Int
    BY CalculationsAssumption
  <2> QED
    BY <2>1, ReportsAddUp DEF WindowsAddUp, LogOK
<1> QED
  BY <1>1, LogAlwaysOK, PTL

-------------------------------------------------------------------------------
(* No cycle fails a hard-safety rule for one ticket twice.                  *)

\* The places of the failed results of hard-safety rules.
HardIn(results) == {i \in DOMAIN results : ~results[i].passed /\ results[i].rule \in HardSafetyRules}

OneEach(results) == \A i, j \in HardIn(results) : KeyOf(results[i]) = KeyOf(results[j]) => i = j

\* Nothing hard is in t after s, with which it begins.
Continues(t, s) ==
  /\ Len(s) <= Len(t) /\ \A i \in 1..Len(s) : t[i] = s[i]
  /\ \A i \in 1..Len(t) : i > Len(s) => t[i].rule \notin HardSafetyRules

LEMMA ContinuesFurther ==
  ASSUME NEW s \in Seq(CheckResult), NEW t \in Seq(CheckResult), NEW c \in Seq(CheckResult), Continues(t, s),
         \A r \in ToSet(c) : r.rule \notin HardSafetyRules
  PROVE  t \o c \in Seq(CheckResult) /\ Continues(t \o c, s)
<1> DEFINE u == t \o c
<1>1. /\ u \in Seq(CheckResult) /\ Len(u) = Len(t) + Len(c)
      /\ \A i \in 1..Len(t) + Len(c) : u[i] = IF i <= Len(t) THEN t[i] ELSE c[i - Len(t)]
  BY ConcatProperties
<1>2. Len(s) \in Nat /\ Len(t) \in Nat /\ Len(c) \in Nat /\ DOMAIN c = 1..Len(c)
  BY LenProperties
<1>3. \A i \in 1..Len(c) : c[i].rule \notin HardSafetyRules
  BY <1>2 DEF ToSet
<1> HIDE DEF u
<1>4. \A i \in 1..Len(u) : i > Len(s) => u[i].rule \notin HardSafetyRules
  <2> SUFFICES ASSUME NEW i \in 1..Len(u), i > Len(s) PROVE u[i].rule \notin HardSafetyRules
    OBVIOUS
  <2>1. CASE i <= Len(t)
    BY <1>1, <1>2, <2>1 DEF Continues
  <2>2. CASE ~(i <= Len(t))
    <3>1. i - Len(t) \in 1..Len(c) /\ u[i] = c[i - Len(t)]
      BY <1>1, <1>2, <2>2
    <3> QED
      BY <1>3, <3>1
  <2> QED
    BY <2>1, <2>2
<1>5. \A i \in 1..Len(s) : u[i] = s[i]
  BY <1>1, <1>2 DEF Continues
<1>6. Len(s) <= Len(u)
  BY <1>1, <1>2 DEF Continues
<1> QED
  BY <1>1, <1>4, <1>5, <1>6 DEF Continues, u

LEMMA ContinuesOneEach ==
  ASSUME NEW s \in Seq(CheckResult), NEW t \in Seq(CheckResult), Continues(t, s), OneEach(s)
  PROVE  OneEach(t)
<1>1. DOMAIN s = 1..Len(s) /\ DOMAIN t = 1..Len(t) /\ Len(s) \in Nat /\ Len(t) \in Nat
  OBVIOUS
<1>2. \A i \in HardIn(t) : i \in HardIn(s) /\ t[i] = s[i]
  BY <1>1 DEF HardIn, Continues
<1> QED
  BY <1>2 DEF OneEach

\* The daily loss has a result per rule.
LEMMA DailyLossOneEach ==
  ASSUME NEW rules, NEW snap
  PROVE  OneEach(CheckMaxDailyLoss(rules, snap))
<1> DEFINE check == CheckMaxDailyLoss(rules, snap)
           passed == Result("max_daily_loss", TRUE, NoTicket)
           loss   == Result("max_daily_loss", FALSE, NoTicket)
           open   == Result("max_daily_loss_open_positions", FALSE, NoTicket)
<1>1. KeyOf(loss) # KeyOf(open)
  BY DEF Result, KeyOf
<1>2. check \in {<<>>, <<passed>>, <<loss>>, <<loss, open>>}
  BY DEF CheckMaxDailyLoss
<1> HIDE DEF check, passed, loss, open
<1>3. CASE check = <<loss, open>>
  <2>1. DOMAIN check = {1, 2} /\ check[1] = loss /\ check[2] = open
    BY <1>3
  <2> QED
    BY <1>1, <2>1 DEF OneEach, HardIn, check
<1>4. CASE check \in {<<>>, <<passed>>, <<loss>>}
  <2>1. DOMAIN check \subseteq {1}
    BY <1>4
  <2> QED
    BY <2>1 DEF OneEach, HardIn, check
<1> QED
  BY <1>2, <1>3, <1>4

\* The cooldown has a result per position.
LEMMA CooldownOneEach ==
  ASSUME NEW rules \in TradingRules, NEW snap \in AccountSnapshot, DistinctTickets(snap.positions)
  PROVE  OneEach(CheckConsecutiveLossCooldown(rules, snap))
<1> DEFINE ps       == snap.positions
           id       == "consecutive_loss_cooldown"
           I        == {i \in DOMAIN ps : OpenedAfter(ps[i], Last(snap.trades).closeTime)}
           during   == Subsequence(ps, I)
           ok       == Result(id, TRUE, NoTicket)
           check    == CheckConsecutiveLossCooldown(rules, snap)
<1>1. check \in {<<>>, <<ok>>, PerPosition(id, during, {})}
  BY DEF CheckConsecutiveLossCooldown
<1>2. ps \in Seq(Position) /\ I \in SUBSET DOMAIN ps /\ Len(ps) \in Nat /\ I \in SUBSET (1..Len(ps))
  BY PositionsOfSnapshot
<1>3. DOMAIN during = 1..Cardinality(I) /\ \A k \in DOMAIN during : during[k] = ps[Kth(I, k)]
  BY DEF Subsequence
<1> HIDE DEF ps, I, ok, check, during
<1>4. \A k \in DOMAIN during : Kth(I, k) \in DOMAIN ps /\ CountUpTo(I, Kth(I, k)) = k
  BY <1>2, <1>3, KthIsPosition
<1>5. \A k, m \in DOMAIN during : during[k].ticket = during[m].ticket => k = m
  BY <1>3, <1>4 DEF DistinctTickets, ps
<1>6. CASE check = PerPosition(id, during, {})
  <2>1. DOMAIN check = DOMAIN during /\ \A k \in DOMAIN check : check[k].ticket = during[k].ticket
    BY <1>6 DEF PerPosition, Result
  <2> QED
    BY <1>5, <2>1 DEF OneEach, HardIn, KeyOf, check
<1>7. CASE check \in {<<>>, <<ok>>}
  <2>1. DOMAIN check \subseteq {1}
    BY <1>7
  <2> QED
    BY <2>1 DEF OneEach, HardIn, check
<1> QED
  BY <1>1, <1>6, <1>7

LEMMA EvaluateOneEach ==
  ASSUME NEW rules \in TradingRules, NEW snap \in AccountSnapshot, DistinctTickets(snap.positions)
  PROVE  OneEach(Evaluate(rules, snap))
<1> DEFINE c1 == CheckMaxDailyLoss(rules, snap)
           c2 == CheckConsecutiveLossCooldown(rules, snap)
           c3 == CheckMaxRiskPerTrade(rules, snap)
           c4 == CheckStopLossRequired(rules, snap)
           c5 == CheckTakeProfitRequired(rules, snap)
           c6 == CheckMaxConcurrentPositions(rules, snap)
           c7 == CheckAllowedSymbols(rules, snap)
           c8 == CheckTradingSession(rules, snap)
           c9 == CheckMaxTradesPerDay(rules, snap)
           s2 == c1 \o c2
           s3 == s2 \o c3
           s4 == s3 \o c4
           s5 == s4 \o c5
           s6 == s5 \o c6
           s7 == s6 \o c7
           s8 == s7 \o c8
           s9 == s8 \o c9
           Soft(c) == c \in Seq(CheckResult) /\ \A r \in ToSet(c) : r.rule \notin HardSafetyRules
<1>1. /\ ResultsFor(c1, {"max_daily_loss", "max_daily_loss_open_positions"})
      /\ ResultsFor(c2, {"consecutive_loss_cooldown"})
      /\ ResultsFor(c3, {"max_risk_per_trade"}) /\ ResultsFor(c4, {"stop_loss_required"})
      /\ ResultsFor(c5, {"take_profit_required"}) /\ ResultsFor(c6, {"max_concurrent_positions"})
      /\ ResultsFor(c7, {"allowed_symbol"}) /\ ResultsFor(c8, {"trading_session"})
      /\ ResultsFor(c9, {"max_trades_per_day"})
  BY DailyLossResults, CooldownResults, RiskResults, StopLossResults, TakeProfitResults, ConcurrentResults,
     SymbolResults, SessionResults, TradesResults
<1>2. OneEach(c1) /\ OneEach(c2)
  BY DailyLossOneEach, CooldownOneEach
<1>3. Evaluate(rules, snap) = s9
  BY DEF Evaluate
<1> HIDE DEF c1, c2, c3, c4, c5, c6, c7, c8, c9
<1>4. /\ Soft(c3) /\ Soft(c4) /\ Soft(c5) /\ Soft(c6) /\ Soft(c7) /\ Soft(c8) /\ Soft(c9)
      /\ c1 \in Seq(CheckResult) /\ c2 \in Seq(CheckResult)
  BY <1>1 DEF ResultsFor, HardSafetyRules
<1>5. s2 \in Seq(CheckResult) /\ OneEach(s2)
  <2>1. /\ s2 \in Seq(CheckResult) /\ Len(s2) = Len(c1) + Len(c2)
        /\ \A i \in 1..Len(c1) + Len(c2) : s2[i] = IF i <= Len(c1) THEN c1[i] ELSE c2[i - Len(c1)]
    BY <1>4, ConcatProperties
  <2>2. /\ Len(c1) \in Nat /\ Len(c2) \in Nat /\ DOMAIN c1 = 1..Len(c1) /\ DOMAIN c2 = 1..Len(c2)
        /\ DOMAIN s2 = 1..Len(s2)
    BY <1>4, <2>1, LenProperties
  <2> HIDE DEF s2
  <2>3. \A i \in HardIn(s2) :
          \/ i \in HardIn(c1) /\ s2[i] = c1[i]
          \/ i - Len(c1) \in HardIn(c2) /\ s2[i] = c2[i - Len(c1)]
    BY <2>1, <2>2 DEF HardIn
  <2>4. \A i \in HardIn(c1), j \in HardIn(c2) : KeyOf(c1[i]) # KeyOf(c2[j])
    <3>1. \A i \in DOMAIN c1 : c1[i].rule # "consecutive_loss_cooldown"
      BY <1>1 DEF ResultsFor, ToSet
    <3>2. \A j \in DOMAIN c2 : c2[j].rule = "consecutive_loss_cooldown"
      BY <1>1 DEF ResultsFor, ToSet
    <3> QED
      BY <3>1, <3>2 DEF HardIn, KeyOf
  <2>5. \A i \in HardIn(s2) : i \in Int
    BY <2>2 DEF HardIn
  <2>6. ASSUME NEW i \in HardIn(s2), NEW j \in HardIn(s2), KeyOf(s2[i]) = KeyOf(s2[j])
        PROVE i = j
    <3>1. CASE i \in HardIn(c1) /\ s2[i] = c1[i]
      BY <1>2, <2>3, <2>4, <2>6, <3>1 DEF OneEach
    <3>2. CASE i - Len(c1) \in HardIn(c2) /\ s2[i] = c2[i - Len(c1)]
      <4>1. j - Len(c1) \in HardIn(c2) /\ s2[j] = c2[j - Len(c1)]
        BY <2>3, <2>4, <2>6, <3>2
      <4>2. i - Len(c1) = j - Len(c1)
        BY <1>2, <2>6, <3>2, <4>1 DEF OneEach
      <4> QED
        BY <2>2, <2>5, <4>2
    <3> QED
      BY <2>3, <3>1, <3>2
  <2> QED
    BY <2>1, <2>6 DEF OneEach
<1> HIDE DEF s2
<1>6. Continues(s2, s2)
  <2>1. Len(s2) \in Nat
    BY <1>5
  <2> QED
    BY <2>1 DEF Continues
<1>7. s3 \in Seq(CheckResult) /\ Continues(s3, s2)
  BY <1>4, <1>5, <1>6, ContinuesFurther
<1> HIDE DEF s3
<1>8. s4 \in Seq(CheckResult) /\ Continues(s4, s2)
  BY <1>4, <1>5, <1>7, ContinuesFurther
<1> HIDE DEF s4
<1>9. s5 \in Seq(CheckResult) /\ Continues(s5, s2)
  BY <1>4, <1>5, <1>8, ContinuesFurther
<1> HIDE DEF s5
<1>10. s6 \in Seq(CheckResult) /\ Continues(s6, s2)
  BY <1>4, <1>5, <1>9, ContinuesFurther
<1> HIDE DEF s6
<1>11. s7 \in Seq(CheckResult) /\ Continues(s7, s2)
  BY <1>4, <1>5, <1>10, ContinuesFurther
<1> HIDE DEF s7
<1>12. s8 \in Seq(CheckResult) /\ Continues(s8, s2)
  BY <1>4, <1>5, <1>11, ContinuesFurther
<1> HIDE DEF s8
<1>13. s9 \in Seq(CheckResult) /\ Continues(s9, s2)
  BY <1>4, <1>5, <1>12, ContinuesFurther
<1> HIDE DEF s9
<1> QED
  BY <1>3, <1>5, <1>13, ContinuesOneEach

-------------------------------------------------------------------------------
(* A state that lasts for three cycles.                                     *)

\* What the log says of a result.
Records(record, t, result) ==
  /\ record.timestamp = t /\ KeyOf(record) = KeyOf(result)
  /\ record.rule = result.rule /\ record.passed = result.passed

\* The log of a cycle is what was logged before, and a record per result.
LEMMA LogCycleElements ==
  ASSUME NEW l \in Seq(LogRecord), NEW t \in Int, NEW results \in Seq(CheckResult)
  PROVE  LET new == LogCycle(l, t, results)
         IN  /\ new \in Seq(LogRecord) /\ Len(new) = Len(l) + Len(results)
             /\ \A i \in 1..Len(l) : new[i] = l[i]
             /\ \A i \in 1..Len(results) : Records(new[Len(l) + i], t, results[i])
<1> DEFINE add == [i \in DOMAIN results |->
                     [timestamp |-> t, rule |-> results[i].rule, passed |-> results[i].passed,
                      ticket |-> results[i].ticket]]
           new == l \o add
<1>1. DOMAIN results = 1..Len(results) /\ Len(results) \in Nat /\ \A i \in DOMAIN results : results[i] \in CheckResult
  OBVIOUS
<1>2. \A i \in DOMAIN results : add[i] \in LogRecord
  BY <1>1 DEF CheckResult, LogRecord
<1>3. add \in Seq(LogRecord) /\ Len(add) = Len(results)
  BY <1>1, <1>2
<1>4. \A i \in 1..Len(results) : Records(add[i], t, results[i])
  BY <1>1 DEF KeyOf, Records
<1>5. LogCycle(l, t, results) = new
  BY DEF LogCycle
<1> HIDE DEF add
<1>6. /\ new \in Seq(LogRecord) /\ Len(new) = Len(l) + Len(add)
      /\ \A i \in 1..Len(l) + Len(add) : new[i] = IF i <= Len(l) THEN l[i] ELSE add[i - Len(l)]
  BY <1>3, ConcatProperties
<1>7. Len(l) \in Nat
  OBVIOUS
<1> HIDE DEF new
<1>8. \A i \in 1..Len(l) : new[i] = l[i]
  BY <1>1, <1>3, <1>6, <1>7
<1>9. ASSUME NEW i \in 1..Len(results) PROVE new[Len(l) + i] = add[i]
  <2>1. Len(l) + i \in 1..Len(l) + Len(add) /\ ~(Len(l) + i <= Len(l)) /\ (Len(l) + i) - Len(l) = i
    BY <1>1, <1>3, <1>7
  <2> QED
    BY <1>6, <2>1
<1> QED
  BY <1>3, <1>4, <1>5, <1>6, <1>8, <1>9

\* What the log looks like when the same results were logged three times.
LEMMA ThreeCycles ==
  ASSUME NEW results \in Seq(CheckResult)
  PROVE  LET n == Len(results)
             thrice == LogCycle(LogCycle(LogCycle(<<>>, 1, results), 2, results), 3, results)
         IN  /\ thrice \in Seq(LogRecord) /\ n \in Nat /\ DOMAIN thrice = 1..n + n + n
             /\ \A i \in 1..n : /\ Records(thrice[i], 1, results[i])
                                /\ Records(thrice[n + i], 2, results[i])
                                /\ Records(thrice[n + n + i], 3, results[i])
<1> DEFINE n      == Len(results)
           none   == <<>>
           once   == LogCycle(none, 1, results)
           twice  == LogCycle(once, 2, results)
           thrice == LogCycle(twice, 3, results)
<1>1. n \in Nat /\ none \in Seq(LogRecord) /\ Len(none) = 0 /\ 1 \in Int /\ 2 \in Int /\ 3 \in Int
  OBVIOUS
<1> HIDE DEF none
<1>2. /\ once \in Seq(LogRecord) /\ Len(once) = Len(none) + n
      /\ \A i \in 1..n : Records(once[Len(none) + i], 1, results[i])
  BY <1>1, LogCycleElements, Zenon
<1> HIDE DEF once
<1>3. /\ twice \in Seq(LogRecord) /\ Len(twice) = Len(once) + n
      /\ \A i \in 1..Len(once) : twice[i] = once[i]
      /\ \A i \in 1..n : Records(twice[Len(once) + i], 2, results[i])
  BY <1>1, <1>2, LogCycleElements, Zenon
<1> HIDE DEF twice
<1>4. /\ thrice \in Seq(LogRecord) /\ Len(thrice) = Len(twice) + n
      /\ \A i \in 1..Len(twice) : thrice[i] = twice[i]
      /\ \A i \in 1..n : Records(thrice[Len(twice) + i], 3, results[i])
  BY <1>1, <1>3, LogCycleElements, Zenon
<1> HIDE DEF thrice
<1>5. Len(once) = n /\ Len(twice) = n + n /\ Len(thrice) = n + n + n
  BY <1>1, <1>2, <1>3, <1>4
<1>6. ASSUME NEW i \in 1..n
      PROVE  /\ Records(thrice[i], 1, results[i])
             /\ Records(thrice[n + i], 2, results[i])
             /\ Records(thrice[n + n + i], 3, results[i])
  <2>1. Records(once[i], 1, results[i])
    <3>1. Len(none) + i = i
      BY <1>1
    <3> QED
      BY <1>2, <3>1
  <2>2. once[i] = twice[i] /\ twice[i] = thrice[i] /\ twice[n + i] = thrice[n + i]
    <3>1. i \in 1..Len(once) /\ i \in 1..Len(twice) /\ n + i \in 1..Len(twice)
      BY <1>1, <1>5
    <3> QED
      BY <1>3, <1>4, <3>1
  <2> QED
    BY <1>3, <1>4, <1>5, <2>1, <2>2
<1>7. DOMAIN thrice = 1..n + n + n
  BY <1>4, <1>5
<1> QED
  BY <1>1, <1>4, <1>6, <1>7 DEF n, none, once, twice, thrice

\* Shifted or renamed one to one, a set of places has as many elements.
LEMMA SameSize ==
  ASSUME NEW l \in Seq(LogRecord), NEW X \in SUBSET DOMAIN l, NEW Y, NEW f \in [X -> Y],
         \A x, y \in X : f[x] = f[y] => x = y, \A y \in Y : \E x \in X : f[x] = y
  PROVE  IsFiniteSet(Y) /\ Cardinality(Y) = Cardinality(X)
<1>1. IsFiniteSet(X)
  BY LogSets
<1>2. f \in Bijection(X, Y)
  BY DEF Bijection, Injection, Surjection, IsInjective
<1> QED
  BY <1>1, <1>2, FS_Bijection DEF ExistsBijection

\* What three times the same results are counted as: their keys once if there
\* is one, and every time if there are more.
LEMMA LastingIncident ==
  ASSUME NEW results \in Seq(CheckResult), OneEach(results)
  PROVE  LET once   == LogCycle(<<>>, 1, results)
             keys   == Cardinality({KeyOf(once[i]) : i \in HardFailures(once, DOMAIN once)})
             thrice == LogCycle(LogCycle(once, 2, results), 3, results)
         IN  keys \in Nat /\ Report(thrice, 1, 3).saves = IF keys > 1 THEN 3 * keys ELSE keys
<1> DEFINE n       == Len(results)
           none    == <<>>
           once    == LogCycle(none, 1, results)
           thrice  == LogCycle(LogCycle(once, 2, results), 3, results)
           first   == HardIn(results)
           keys    == {KeyOf(once[i]) : i \in HardFailures(once, DOMAIN once)}
           hard    == HardFailures(thrice, RecordsIn(thrice, 1, 3))
           size    == Cardinality(first)
           Base(j) == IF j <= n THEN j ELSE IF j <= n + n THEN j - n ELSE j - (n + n)
<1>1. n \in Nat /\ first \in SUBSET (1..n) /\ DOMAIN results = 1..n
  BY DEF HardIn
<1>2. /\ once \in Seq(LogRecord) /\ DOMAIN once = 1..n
      /\ \A i \in 1..n : Records(once[i], 1, results[i])
  <2>1. none \in Seq(LogRecord) /\ Len(none) = 0 /\ 1 \in Int
    OBVIOUS
  <2> HIDE DEF none
  <2>2. /\ once \in Seq(LogRecord) /\ Len(once) = Len(none) + n
        /\ \A i \in 1..n : Records(once[Len(none) + i], 1, results[i])
    BY <2>1, LogCycleElements, Zenon
  <2> HIDE DEF once
  <2>3. DOMAIN once = 1..n
    BY <1>1, <2>1, <2>2
  <2>4. \A i \in 1..n : Len(none) + i = i
    BY <1>1, <2>1
  <2> QED
    BY <2>2, <2>3, <2>4
<1>3. Cardinality(keys) = size /\ size \in Nat
  <2> HIDE DEF once
  <2>1. HardFailures(once, DOMAIN once) = first
    BY <1>1, <1>2 DEF HardFailures, Violations, Records, HardIn
  <2> DEFINE f == [i \in first |-> KeyOf(results[i])]
  <2>2. keys = {KeyOf(results[i]) : i \in first}
    BY <1>1, <1>2, <2>1 DEF Records
  <2>3. f \in [first -> keys] /\ (\A x, y \in first : f[x] = f[y] => x = y) /\ \A y \in keys : \E x \in first : f[x] = y
    BY <2>2 DEF OneEach
  <2>4. first \in SUBSET DOMAIN once
    BY <1>1, <1>2
  <2> HIDE DEF first, keys, f
  <2>5. Cardinality(keys) = Cardinality(first)
    BY <1>2, <2>3, <2>4, SameSize
  <2> QED
    BY <1>2, <2>4, <2>5, LogSets
<1>4. /\ thrice \in Seq(LogRecord) /\ DOMAIN thrice = 1..n + n + n
      /\ \A i \in 1..n : /\ Records(thrice[i], 1, results[i])
                         /\ Records(thrice[n + i], 2, results[i])
                         /\ Records(thrice[n + n + i], 3, results[i])
  BY ThreeCycles
<1> HIDE DEF n, none, once, thrice, first, keys, hard
<1>5. ASSUME NEW j \in 1..n + n + n
      PROVE  /\ Base(j) \in 1..n
             /\ Records(thrice[j], IF j <= n THEN 1 ELSE IF j <= n + n THEN 2 ELSE 3, results[Base(j)])
  <2>1. CASE j <= n
    BY <1>1, <1>4, <2>1
  <2>2. CASE ~(j <= n) /\ j <= n + n
    <3>1. j - n \in 1..n /\ n + (j - n) = j
      BY <1>1, <2>2
    <3> QED
      BY <1>4, <2>2, <3>1
  <2>3. CASE ~(j <= n) /\ ~(j <= n + n)
    <3>1. j - (n + n) \in 1..n /\ n + n + (j - (n + n)) = j
      BY <1>1, <2>3
    <3> QED
      BY <1>4, <2>3, <3>1
  <2> QED
    BY <2>1, <2>2, <2>3
<1>6. \A i, j \in 1..n + n + n : Precedes(thrice, i, j) <=> i < j
  <2>1. \A j \in 1..n + n + n : thrice[j].timestamp = IF j <= n THEN 1 ELSE IF j <= n + n THEN 2 ELSE 3
    BY <1>5 DEF Records
  <2> HIDE DEF Base
  <2> QED
    BY <1>1, <2>1 DEF Precedes
<1>7. hard = {j \in 1..n + n + n : Base(j) \in first}
  <2>1. \A j \in 1..n + n + n :
          /\ thrice[j].timestamp \in {1, 2, 3}
          /\ thrice[j].rule = results[Base(j)].rule /\ thrice[j].passed = results[Base(j)].passed
          /\ Base(j) \in DOMAIN results
    BY <1>1, <1>5 DEF Records
  <2>2. RecordsIn(thrice, 1, 3) = 1..n + n + n
    BY <1>4, <2>1 DEF RecordsIn
  <2> HIDE DEF Base
  <2> QED
    BY <2>1, <2>2 DEF hard, HardFailures, Violations, first, HardIn
<1>8. \A i, j \in hard : KeyOf(thrice[i]) = KeyOf(thrice[j]) <=> Base(i) = Base(j)
  <2>1. \A j \in hard : KeyOf(thrice[j]) = KeyOf(results[Base(j)]) /\ Base(j) \in first
    BY <1>5, <1>7 DEF Records
  <2> HIDE DEF Base
  <2> QED
    BY <2>1 DEF OneEach, first
<1>9. hard \in SUBSET DOMAIN thrice /\ \A j \in hard : j \in 1..n + n + n
  BY <1>4, <1>7
<1>10. \A j \in hard :
         Repeats(thrice, hard, j) <=>
           \E i \in hard : i < j /\ Base(i) = Base(j) /\ \A k \in hard : ~(i < k /\ k < j)
  <2> HIDE DEF Base
  <2> QED
    BY <1>6, <1>8, <1>9 DEF Repeats
<1>11. Report(thrice, 1, 3).saves = Cardinality(Incidents(thrice, hard))
  BY DEF Report, DisciplineSaves, Incidents, hard
<1>12. first = {} => Report(thrice, 1, 3).saves = 0 /\ size = 0
  <2>1. first = {} => Incidents(thrice, hard) = {}
    BY <1>7 DEF Incidents
  <2> QED
    BY <1>11, <2>1, FS_EmptySet
<1>13. ASSUME NEW h \in first, first = {h}
       PROVE  Report(thrice, 1, 3).saves = 1 /\ size = 1
  <2>1. h \in 1..n
    BY <1>1
  <2>2. hard = {h, n + h, n + n + h}
    BY <1>1, <1>7, <1>13, <2>1
  <2>3. Base(h) = h /\ Base(n + h) = h /\ Base(n + n + h) = h
    BY <1>1, <2>1
  <2> HIDE DEF Base
  <2>4. ~Repeats(thrice, hard, h)
    <3>1. \A i \in hard : ~(i < h)
      BY <1>1, <2>1, <2>2
    <3> QED
      BY <1>10, <2>2, <3>1
  <2>5. Repeats(thrice, hard, n + h)
    <3>1. h < n + h /\ \A k \in hard : ~(h < k /\ k < n + h)
      BY <1>1, <2>1, <2>2
    <3> QED
      BY <1>10, <2>2, <2>3, <3>1
  <2>6. Repeats(thrice, hard, n + n + h)
    <3>1. n + h < n + n + h /\ \A k \in hard : ~(n + h < k /\ k < n + n + h)
      BY <1>1, <2>1, <2>2
    <3> QED
      BY <1>10, <2>2, <2>3, <3>1
  <2>7. Incidents(thrice, hard) = {h}
    BY <2>2, <2>4, <2>5, <2>6 DEF Incidents
  <2> QED
    BY <1>11, <1>13, <2>7, FS_Singleton
<1>14. ASSUME NEW g \in first, NEW h \in first, g # h
       PROVE  Report(thrice, 1, 3).saves = size + size + size /\ size > 1
  <2>1. \A i \in first : i \in 1..n /\ i \in hard /\ n + i \in hard /\ n + n + i \in hard
    BY <1>1, <1>7
  <2>2. ASSUME NEW j \in hard PROVE ~Repeats(thrice, hard, j)
    <3> SUFFICES ASSUME NEW i \in hard, i < j, Base(i) = Base(j), \A k \in hard : ~(i < k /\ k < j)
                 PROVE  FALSE
      BY <1>10, <2>2
    <3> DEFINE b == Base(i)
    <3>1. b \in first /\ b \in 1..n /\ j \in 1..n + n + n /\ i \in 1..n + n + n
      BY <1>1, <1>7, <1>9
    <3>2. PICK a \in first : a # b
      BY <1>14
    <3>3. a \in 1..n
      BY <2>1, <3>2
    <3>4. \/ i = b /\ j \in {n + b, n + n + b}
          \/ i = n + b /\ j = n + n + b
      BY <1>1, <3>1
    <3> HIDE DEF b, Base
    <3>5. CASE i = b /\ j \in {n + b, n + n + b}
      <4>1. CASE a > b
        <5>1. i < a /\ a < j
          BY <1>1, <3>1, <3>3, <3>5, <4>1
        <5> QED
          BY <2>1, <3>2, <5>1
      <4>2. CASE a < b
        <5>1. i < n + a /\ n + a < j
          BY <1>1, <3>1, <3>3, <3>5, <4>2
        <5> QED
          BY <2>1, <3>2, <5>1
      <4> QED
        BY <3>1, <3>2, <3>3, <4>1, <4>2
    <3>6. CASE i = n + b /\ j = n + n + b
      <4>1. CASE a > b
        <5>1. i < n + a /\ n + a < j
          BY <1>1, <3>1, <3>3, <3>6, <4>1
        <5> QED
          BY <2>1, <3>2, <5>1
      <4>2. CASE a < b
        <5>1. i < n + n + a /\ n + n + a < j
          BY <1>1, <3>1, <3>3, <3>6, <4>2
        <5> QED
          BY <2>1, <3>2, <5>1
      <4> QED
        BY <3>1, <3>2, <3>3, <4>1, <4>2
    <3> QED
      BY <3>4, <3>5, <3>6
  <2>3. Incidents(thrice, hard) = hard
    BY <2>2 DEF Incidents
  <2> DEFINE second == {n + i : i \in first}
             third  == {n + n + i : i \in first}
             both   == first \union second
  <2>4. /\ first \in SUBSET DOMAIN thrice /\ second \in SUBSET DOMAIN thrice /\ third \in SUBSET DOMAIN thrice
        /\ both \in SUBSET DOMAIN thrice
        /\ first \intersect second = {} /\ both \intersect third = {}
    <3>1. \A i \in first : /\ i \in DOMAIN thrice /\ n + i \in DOMAIN thrice /\ n + n + i \in DOMAIN thrice
                           /\ i <= n /\ ~(n + i <= n) /\ n + i <= n + n /\ ~(n + n + i <= n + n)
      BY <1>1, <1>4
    <3>2. \A j \in both : j <= n + n
      BY <1>1, <3>1
    <3> QED
      BY <3>1, <3>2
  <2>5. hard = both \union third
    <3>1. \A j \in 1..n + n + n : j = Base(j) \/ j = n + Base(j) \/ j = n + n + Base(j)
      BY <1>1
    <3> HIDE DEF Base
    <3>2. hard \subseteq both \union third
      BY <1>7, <3>1
    <3> QED
      BY <2>1, <3>2
  <2>6. Cardinality(second) = size /\ Cardinality(third) = size
    <3> DEFINE f == [i \in first |-> n + i]
               e == [i \in first |-> n + n + i]
    <3>1. f \in [first -> second] /\ (\A x, y \in first : f[x] = f[y] => x = y) /\ \A y \in second : \E x \in first : f[x] = y
      BY <1>1
    <3>2. e \in [first -> third] /\ (\A x, y \in first : e[x] = e[y] => x = y) /\ \A y \in third : \E x \in first : e[x] = y
      BY <1>1
    <3> HIDE DEF f, e, second, third
    <3>3. thrice \in Seq(LogRecord) /\ first \in SUBSET DOMAIN thrice
      BY <1>4, <2>4
    <3>4. Cardinality(second) = Cardinality(first)
      BY <3>1, <3>3, SameSize
    <3>5. Cardinality(third) = Cardinality(first)
      BY <3>2, <3>3, SameSize
    <3> QED
      BY <3>4, <3>5
  <2> HIDE DEF second, third
  <2>7. Cardinality(both) = Cardinality(first) + Cardinality(second)
    <3>1. /\ thrice \in Seq(LogRecord) /\ first \in SUBSET DOMAIN thrice /\ second \in SUBSET DOMAIN thrice
          /\ first \intersect second = {}
      BY <1>4, <2>4
    <3>2. Cardinality(first \union second) = Cardinality(first) + Cardinality(second)
      BY <3>1, Parts
    <3> QED
      BY <3>2
  <2> HIDE DEF both
  <2>8. Cardinality(both \union third) = Cardinality(both) + Cardinality(third)
    <3>1. /\ thrice \in Seq(LogRecord) /\ both \in SUBSET DOMAIN thrice /\ third \in SUBSET DOMAIN thrice
          /\ both \intersect third = {}
      BY <1>4, <2>4
    <3> QED
      BY <3>1, Parts
  <2>9. size # 0 /\ size # 1
    <3>1. IsFiniteSet(first)
      BY <1>4, <2>4, LogSets
    <3>2. ~ \E x : first = {x}
      BY <1>14
    <3> QED
      BY <3>1, <3>2, FS_EmptySet, FS_Singleton
  <2> QED
    BY <1>3, <1>11, <2>3, <2>5, <2>6, <2>7, <2>8, <2>9
<1> HIDE DEF size
<1>15. Report(thrice, 1, 3).saves = IF size > 1 THEN 3 * size ELSE size
  <2>1. CASE first = {}
    BY <1>12, <2>1
  <2>2. CASE \E h \in first : first = {h}
    BY <1>3, <1>13, <2>2
  <2>3. CASE \E g, h \in first : g # h
    BY <1>3, <1>14, <2>3
  <2> QED
    BY <2>1, <2>2, <2>3
<1> QED
  BY <1>3, <1>15 DEF keys, once, none, thrice

\* For every snapshot and all rules, a lasting breach counts as a discipline
\* save for each of its keys, and exactly once if it has only one.
THEOREM SavesOfLastingBreach == Spec => []SavesOfAnIncident
<1>1. InputOK => SavesOfAnIncident
  <2> SUFFICES ASSUME InputOK, NEW r \in RuleSet
      PROVE LET results == Evaluate(r, input)
                once    == LogCycle(<<>>, 1, results)
                keys    == Cardinality({KeyOf(once[i]) : i \in HardFailures(once, DOMAIN once)})
                thrice  == LogCycle(LogCycle(once, 2, results), 3, results)
                saves   == Report(thrice, 1, 3).saves
            IN  saves >= keys /\ (keys <= 1 => saves = keys)
    BY DEF SavesOfAnIncident
  <2>1. r \in TradingRules
    BY CalculationsAssumption
  <2> DEFINE results == Evaluate(r, input)
  <2>2. results \in Seq(CheckResult) /\ OneEach(results)
    BY <2>1, EvaluateElements, EvaluateOneEach DEF InputOK
  <2> HIDE DEF results
  <2>3. LET once    == LogCycle(<<>>, 1, results)
            keys    == Cardinality({KeyOf(once[i]) : i \in HardFailures(once, DOMAIN once)})
            thrice  == LogCycle(LogCycle(once, 2, results), 3, results)
        IN  keys \in Nat /\ Report(thrice, 1, 3).saves = IF keys > 1 THEN 3 * keys ELSE keys
    BY <2>2, LastingIncident
  <2> DEFINE once   == LogCycle(<<>>, 1, results)
             keys   == Cardinality({KeyOf(once[i]) : i \in HardFailures(once, DOMAIN once)})
             saves  == Report(LogCycle(LogCycle(once, 2, results), 3, results), 1, 3).saves
  <2>4. keys \in Nat /\ saves = IF keys > 1 THEN 3 * keys ELSE keys
    BY <2>3
  <2>5. saves >= keys /\ (keys <= 1 => saves = keys)
    <3> HIDE DEF keys, saves
    <3> QED
      BY <2>4
  <2> QED
    BY <2>5 DEF results
<1> QED
  BY <1>1, InputAlwaysOK, PTL

-------------------------------------------------------------------------------
(* Sums of the profits at some places of a list.                            *)

\* The profits of the places in I, and none at the others.
At(items, I) == [i \in 1..Len(items) |-> [profit |-> IF i \in I THEN items[i].profit ELSE 0]]

ProfitAt(items, I) == TotalProfit(At(items, I))

LEMMA AtPlaces ==
  ASSUME NEW items, HasProfits(items), NEW I
  PROVE  /\ Len(At(items, I)) = Len(items) /\ HasProfits(At(items, I))
         /\ \A i \in 1..Len(items) : At(items, I)[i].profit = IF i \in I THEN items[i].profit ELSE 0
<1>1. Len(At(items, I)) = Len(items)
  BY DEF At, HasProfits
<1>2. \A i \in 1..Len(items) : At(items, I)[i].profit = IF i \in I THEN items[i].profit ELSE 0
  BY DEF At
<1> QED
  BY <1>1, <1>2 DEF HasProfits

\* The profits of two sets of places without a common one add up.
LEMMA ProfitOfParts ==
  ASSUME NEW items, HasProfits(items), NEW I, NEW J, I \intersect J = {}
  PROVE  ProfitAt(items, I \union J) = ProfitAt(items, I) + ProfitAt(items, J)
<1> DEFINE n == Len(items)
           a == At(items, I)
           b == At(items, J)
           c == At(items, I \union J)
<1>1. PICK f : SumsOf(a, f) /\ ProfitAt(items, I) = f[n]
  BY AtPlaces, TotalIsLastSum DEF ProfitAt
<1>2. PICK g : SumsOf(b, g) /\ ProfitAt(items, J) = g[n]
  BY AtPlaces, TotalIsLastSum DEF ProfitAt
<1>3. PICK h : SumsOf(c, h) /\ ProfitAt(items, I \union J) = h[n]
  BY AtPlaces, TotalIsLastSum DEF ProfitAt
<1>4. n \in Nat /\ Len(a) = n /\ Len(b) = n /\ Len(c) = n
  BY AtPlaces DEF HasProfits
<1>5. \A i \in 1..n : /\ a[i].profit \in Int /\ b[i].profit \in Int
                      /\ c[i].profit = a[i].profit + b[i].profit
  <2> SUFFICES ASSUME NEW i \in 1..n
               PROVE  /\ a[i].profit \in Int /\ b[i].profit \in Int
                      /\ c[i].profit = a[i].profit + b[i].profit
    OBVIOUS
  <2>1. items[i].profit \in Int /\ ~(i \in I /\ i \in J)
    BY DEF HasProfits
  <2>2. /\ a[i].profit = IF i \in I THEN items[i].profit ELSE 0
        /\ b[i].profit = IF i \in J THEN items[i].profit ELSE 0
        /\ c[i].profit = IF i \in I \union J THEN items[i].profit ELSE 0
    BY AtPlaces
  <2> QED
    BY <2>1, <2>2
<1> HIDE DEF n, a, b, c
<1> DEFINE S == {i \in 0..n : h[i] = f[i] + g[i]}
<1>6. 0 \in S
  BY <1>1, <1>2, <1>3, <1>4 DEF SumsOf
<1>7. ASSUME NEW i \in 1..n, i - 1 \in S PROVE i \in S
  <2>1. i \in 0..n /\ i - 1 \in 0..n
    BY <1>4
  <2>2. f[i] = f[i - 1] + a[i].profit /\ g[i] = g[i - 1] + b[i].profit /\ h[i] = h[i - 1] + c[i].profit
    BY <1>1, <1>2, <1>3, <1>4 DEF SumsOf
  <2>3. f[i - 1] \in Int /\ g[i - 1] \in Int
    BY <1>1, <1>2, <1>4, <2>1 DEF SumsOf
  <2>4. h[i - 1] = f[i - 1] + g[i - 1]
    BY <1>7
  <2>5. h[i] = f[i] + g[i]
    BY <1>5, <2>2, <2>3, <2>4
  <2> QED
    BY <2>1, <2>5
<1> HIDE DEF S
<1>8. n \in S
  <2>1. \A i \in 0..n : i \in S
    BY <1>4, <1>6, <1>7, UpTo
  <2> QED
    BY <1>4, <2>1
<1> QED
  BY <1>1, <1>2, <1>3, <1>8 DEF S

LEMMA ProfitOfOne ==
  ASSUME NEW items, HasProfits(items), NEW x \in 1..Len(items)
  PROVE  ProfitAt(items, {x}) = items[x].profit
<1> DEFINE n == Len(items)
           a == At(items, {x})
<1>1. PICK f : SumsOf(a, f) /\ ProfitAt(items, {x}) = f[n]
  BY AtPlaces, TotalIsLastSum DEF ProfitAt
<1>2. n \in Nat /\ Len(a) = n /\ x \in 1..n /\ items[x].profit \in Int
  BY AtPlaces DEF HasProfits
<1>3. \A i \in 1..n : a[i].profit = IF i = x THEN items[x].profit ELSE 0
  BY AtPlaces
<1> HIDE DEF n, a
<1> DEFINE S == {i \in 0..n : f[i] = IF x <= i THEN items[x].profit ELSE 0}
<1>4. 0 \in S
  BY <1>1, <1>2 DEF SumsOf
<1>5. ASSUME NEW i \in 1..n, i - 1 \in S PROVE i \in S
  <2>1. i \in 0..n /\ x \in Int
    BY <1>2
  <2>2. f[i] = f[i - 1] + a[i].profit
    BY <1>1, <1>2 DEF SumsOf
  <2>3. f[i - 1] = IF x <= i - 1 THEN items[x].profit ELSE 0
    BY <1>5
  <2>4. f[i] = IF x <= i THEN items[x].profit ELSE 0
    BY <1>2, <1>3, <2>1, <2>2, <2>3
  <2> QED
    BY <2>1, <2>4
<1> HIDE DEF S
<1>6. n \in S
  <2>1. \A i \in 0..n : i \in S
    BY <1>2, <1>4, <1>5, UpTo
  <2> QED
    BY <1>2, <2>1
<1> QED
  BY <1>1, <1>2, <1>6 DEF S, n

LEMMA ProfitOfNone ==
  ASSUME NEW items, HasProfits(items)
  PROVE  ProfitAt(items, {}) = 0
<1> DEFINE none == {}
<1>1. ProfitAt(items, none) \in Int
  BY AtPlaces, TotalProfitType DEF ProfitAt
<1>2. none \union none = none /\ none \intersect none = {}
  OBVIOUS
<1> HIDE DEF none
<1>3. ProfitAt(items, none \union none) = ProfitAt(items, none) + ProfitAt(items, none)
  BY <1>2, ProfitOfParts
<1>4. PICK x \in Int : x = ProfitAt(items, none)
  BY <1>1
<1>5. x + x = x
  BY <1>2, <1>3, <1>4
<1>6. x = 0
  BY <1>5
<1> QED
  BY <1>4, <1>6 DEF none

\* The k-th of the list is what is at place[k] of the items, no place twice.
ListOf(list, items, place) ==
  /\ Len(list) \in Nat /\ place \in [1..Len(list) -> 1..Len(items)]
  /\ \A k, l \in 1..Len(list) : place[k] = place[l] => k = l
  /\ \A k \in 1..Len(list) : list[k].profit = items[place[k]].profit

\* However the places are listed, their profits have the same sum.
LEMMA ProfitOfList ==
  ASSUME NEW items, HasProfits(items), NEW list, NEW place, ListOf(list, items, place)
  PROVE  TotalProfit(list) = ProfitAt(items, {place[k] : k \in 1..Len(list)})
<1> DEFINE m         == Len(list)
           Placed(i) == {place[k] : k \in 1..i}
<1>1. HasProfits(list) /\ m \in Nat
  <2>1. \A k \in 1..m : place[k] \in 1..Len(items) /\ list[k].profit = items[place[k]].profit
    BY DEF ListOf
  <2> QED
    BY <2>1 DEF HasProfits, ListOf
<1>2. PICK f : SumsOf(list, f) /\ TotalProfit(list) = f[m]
  BY <1>1, TotalIsLastSum
<1>3. Placed(0) = {}
  OBVIOUS
<1>4. ASSUME NEW i \in 1..m
      PROVE  Placed(i) = Placed(i - 1) \union {place[i]} /\ Placed(i - 1) \intersect {place[i]} = {}
  <2>1. 1..i = (1..(i - 1)) \union {i} /\ \A k \in 1..(i - 1) : k \in 1..m /\ k # i
    OBVIOUS
  <2>2. \A k \in 1..(i - 1) : place[k] # place[i]
    BY <2>1 DEF ListOf
  <2> QED
    BY <2>1, <2>2
<1> HIDE DEF Placed, m
<1> DEFINE S == {i \in 0..m : f[i] = ProfitAt(items, Placed(i))}
<1>5. 0 \in S
  <2>1. f[0] = 0 /\ 0 \in 0..m
    BY <1>1, <1>2 DEF SumsOf
  <2>2. ProfitAt(items, {}) = 0
    BY ProfitOfNone
  <2>3. ProfitAt(items, Placed(0)) = 0
    BY <1>3, <2>2
  <2> QED
    BY <2>1, <2>3
<1>6. ASSUME NEW i \in 1..m, i - 1 \in S PROVE i \in S
  <2>1. i \in 0..m
    BY <1>1
  <2>2. f[i] = f[i - 1] + items[place[i]].profit
    BY <1>2 DEF SumsOf, ListOf, m
  <2>3. place[i] \in 1..Len(items)
    BY DEF ListOf, m
  <2>4. ProfitAt(items, {place[i]}) = items[place[i]].profit
    BY <2>3, ProfitOfOne
  <2>5. ProfitAt(items, Placed(i)) = ProfitAt(items, Placed(i - 1)) + ProfitAt(items, {place[i]})
    BY <1>4, ProfitOfParts
  <2> QED
    BY <1>6, <2>1, <2>2, <2>4, <2>5
<1> HIDE DEF S
<1>7. m \in S
  <2>1. \A i \in 0..m : i \in S
    BY <1>1, <1>5, <1>6, UpTo
  <2> QED
    BY <1>1, <2>1
<1> QED
  BY <1>2, <1>7 DEF S, Placed, m

-------------------------------------------------------------------------------
(* Places in an order.                                                      *)

IsOrderOf(R, I) ==
  \A i, j \in I : /\ <<i, j>> \in R => <<j, i>> \notin R
                  /\ i # j => <<i, j>> \in R \/ <<j, i>> \in R
                  /\ \A k \in I : <<i, j>> \in R /\ <<j, k>> \in R => <<i, k>> \in R

\* Those of I that R puts before i.
Before(I, R, i) == {j \in I : <<j, i>> \in R}

\* Everything in I has a rank of its own, and the ranks have no gaps.
LEMMA RankIsBijective ==
  ASSUME NEW n \in Nat, NEW I \in SUBSET (1..n), NEW R, IsOrderOf(R, I)
  PROVE  /\ Cardinality(I) \in Nat
         /\ \A i \in I : Cardinality(Before(I, R, i)) \in 0..(Cardinality(I) - 1)
         /\ \A i, j \in I : <<i, j>> \in R => Cardinality(Before(I, R, i)) < Cardinality(Before(I, R, j))
         /\ \A k \in 1..Cardinality(I) : \E i \in I : Cardinality(Before(I, R, i)) = k - 1
<1> DEFINE m == Cardinality(I)
<1>1. IsFiniteSet(I) /\ m \in Nat
  BY PositionsType
<1>2. ASSUME NEW X \in SUBSET I, NEW Y \in SUBSET X, X # Y
      PROVE  Cardinality(X) \in Nat /\ Cardinality(Y) \in Nat /\ Cardinality(Y) < Cardinality(X)
  <2>1. IsFiniteSet(X)
    BY <1>1, FS_Subset
  <2>2. IsFiniteSet(Y) /\ Cardinality(Y) <= Cardinality(X) /\ (Cardinality(X) = Cardinality(Y) => X = Y)
    BY <2>1, FS_Subset
  <2>3. Cardinality(X) \in Nat /\ Cardinality(Y) \in Nat
    BY <2>1, <2>2, FS_CardinalityType
  <2> QED
    BY <1>2, <2>2, <2>3
<1>3. ASSUME NEW i \in I PROVE Cardinality(Before(I, R, i)) \in 0..(m - 1)
  <2>1. Before(I, R, i) \in SUBSET I /\ i \notin Before(I, R, i)
    BY DEF Before, IsOrderOf
  <2>2. I \in SUBSET I /\ Before(I, R, i) # I
    BY <2>1
  <2> QED
    BY <1>1, <1>2, <2>1, <2>2
<1>4. ASSUME NEW i \in I, NEW j \in I, <<i, j>> \in R
      PROVE  Cardinality(Before(I, R, i)) < Cardinality(Before(I, R, j))
  <2>1. i \in Before(I, R, j) /\ i \notin Before(I, R, i)
    BY <1>4 DEF Before, IsOrderOf
  <2>2. Before(I, R, i) \in SUBSET Before(I, R, j) /\ Before(I, R, j) \in SUBSET I
    BY <1>4 DEF Before, IsOrderOf
  <2>3. Before(I, R, j) # Before(I, R, i)
    BY <2>1
  <2> QED
    BY <1>2, <2>2, <2>3
<1>5. ASSUME NEW k \in 1..m PROVE \E i \in I : Cardinality(Before(I, R, i)) = k - 1
  <2> DEFINE T    == 0..(m - 1)
             rank == [i \in I |-> Cardinality(Before(I, R, i))]
  <2>1. rank \in [I -> T] /\ \A i \in I : rank[i] = Cardinality(Before(I, R, i))
    BY <1>3
  <2>2. \A i, j \in I : rank[i] = rank[j] => i = j
    <3> SUFFICES ASSUME NEW i \in I, NEW j \in I, rank[i] = rank[j], i # j PROVE FALSE
      OBVIOUS
    <3>1. <<i, j>> \in R \/ <<j, i>> \in R
      BY DEF IsOrderOf
    <3>2. rank[i] < rank[j] \/ rank[j] < rank[i]
      BY <1>4, <2>1, <3>1
    <3>3. rank[i] \in Int
      BY <2>1
    <3> QED
      BY <3>2, <3>3
  <2>3. IsFiniteSet(T) /\ Cardinality(T) = m
    <3>1. 0 \in Int /\ m - 1 \in Int
      BY <1>1
    <3>2. IsFiniteSet(T) /\ Cardinality(T) = IF 0 > m - 1 THEN 0 ELSE (m - 1) - 0 + 1
      BY <3>1, FS_Interval
    <3> QED
      BY <1>1, <3>2
  <2>4. k - 1 \in T
    BY <1>1
  <2> HIDE DEF T, rank, m
  <2>5. rank \in Injection(I, T)
    BY <2>1, <2>2 DEF Injection, IsInjective
  <2>6. rank \in Surjection(I, T)
    BY <2>3, <2>5, FS_Injection DEF m
  <2> QED
    BY <2>1, <2>4, <2>6 DEF Surjection
<1> QED
  BY <1>1, <1>3, <1>4, <1>5

\* Ranked lists what is in I, in the order R.
LEMMA RankedIsListing ==
  ASSUME NEW n \in Nat, NEW I \in SUBSET (1..n), NEW R, IsOrderOf(R, I)
  PROVE  /\ \A k \in 1..Cardinality(I) : Ranked(I, R, k) \in I
         /\ \A k, l \in 1..Cardinality(I) : k < l => <<Ranked(I, R, k), Ranked(I, R, l)>> \in R
         /\ \A i \in I : \E k \in 1..Cardinality(I) : Ranked(I, R, k) = i
<1>1. ASSUME NEW k \in 1..Cardinality(I)
      PROVE  Ranked(I, R, k) \in I /\ Cardinality(Before(I, R, Ranked(I, R, k))) = k - 1
  <2>1. \E i \in I : Cardinality(Before(I, R, i)) = k - 1
    BY RankIsBijective
  <2> QED
    BY <2>1, Zenon DEF Ranked, Before
<1>2. ASSUME NEW k \in 1..Cardinality(I), NEW l \in 1..Cardinality(I), k < l
      PROVE  <<Ranked(I, R, k), Ranked(I, R, l)>> \in R
  <2> DEFINE i == Ranked(I, R, k)
             j == Ranked(I, R, l)
  <2>1. i \in I /\ j \in I /\ Cardinality(Before(I, R, i)) = k - 1 /\ Cardinality(Before(I, R, j)) = l - 1
    BY <1>1
  <2> HIDE DEF i, j
  <2>2. i # j
    BY <1>2, <2>1
  <2>3. ~(<<j, i>> \in R)
    <3>1. <<j, i>> \in R => Cardinality(Before(I, R, j)) < Cardinality(Before(I, R, i))
      BY <2>1, RankIsBijective
    <3> QED
      BY <1>2, <2>1, <3>1
  <2>4. <<i, j>> \in R
    BY <2>1, <2>2, <2>3 DEF IsOrderOf
  <2> QED
    BY <2>4 DEF i, j
<1>3. ASSUME NEW i \in I PROVE \E k \in 1..Cardinality(I) : Ranked(I, R, k) = i
  <2> DEFINE k == Cardinality(Before(I, R, i)) + 1
             j == Ranked(I, R, k)
  <2>1. k \in 1..Cardinality(I) /\ Cardinality(Before(I, R, i)) = k - 1
    <3>1. Cardinality(I) \in Nat /\ Cardinality(Before(I, R, i)) \in 0..(Cardinality(I) - 1)
      BY RankIsBijective
    <3> QED
      BY <3>1
  <2> HIDE DEF k
  <2>2. j \in I /\ Cardinality(Before(I, R, j)) = k - 1
    BY <1>1, <2>1
  <2> HIDE DEF j
  <2>3. ~(<<i, j>> \in R) /\ ~(<<j, i>> \in R)
    <3>1. /\ <<i, j>> \in R => Cardinality(Before(I, R, i)) < Cardinality(Before(I, R, j))
          /\ <<j, i>> \in R => Cardinality(Before(I, R, j)) < Cardinality(Before(I, R, i))
      BY <2>2, RankIsBijective
    <3> QED
      BY <2>1, <2>2, <3>1
  <2>4. i = j
    BY <2>2, <2>3 DEF IsOrderOf
  <2> QED
    BY <2>1, <2>4 DEF j
<1> QED
  BY <1>1, <1>2, <1>3

-------------------------------------------------------------------------------
(* The day's trades of a history of deals.                                  *)

Deal == [position : 1..2, entry : {leg.entry : leg \in Legs}, time : Int, profit : Int]

DealsOK == deals \in Seq(Deal)

LEMMA DealsAlwaysOK == Spec => []DealsOK
<1>1. Init => DealsOK
  BY DEF Init, DealsOK
<1>2. DealsOK /\ [Next]_vars => DealsOK'
  <2> SUFFICES ASSUME DealsOK, [Next]_vars PROVE DealsOK'
    OBVIOUS
  <2>1. CASE Evaluated
    BY <2>1 DEF Evaluated, DealsOK
  <2>2. CASE Dealt
    <3>1. PICK p \in 1..2, t \in DealTimes, leg \in Legs :
            deals' = Append(deals, [position |-> p, entry |-> leg.entry, time |-> t, profit |-> leg.profit])
      BY <2>2 DEF Dealt
    <3>2. t \in Int /\ leg.profit \in Int
      BY CalculationsAssumption
    <3>3. [position |-> p, entry |-> leg.entry, time |-> t, profit |-> leg.profit] \in Deal
      BY <3>2 DEF Deal
    <3> QED
      BY <3>1, <3>3 DEF DealsOK
  <2>3. CASE Logged
    BY <2>3 DEF Logged, DealsOK
  <2>4. CASE UNCHANGED vars
    BY <2>4 DEF vars, DealsOK
  <2> QED
    BY <2>1, <2>2, <2>3, <2>4 DEF Next
<1> QED
  BY <1>1, <1>2, PTL DEF Spec

\* A non-empty set of positions has a least element, and Min returns it.
LEMMA LeastPosition ==
  ASSUME NEW n \in Nat, NEW S \in SUBSET (1..n), S # {}
  PROVE  Min(S) \in S
<1>1. S \in SUBSET Nat
  OBVIOUS
<1>2. PICK m \in S : \A i \in S : m <= i
  BY <1>1, LeastNumber
<1> QED
  BY <1>2, Zenon DEF Min

\* What is known of the closing legs of a position.
LEMMA PartsOfPosition ==
  ASSUME NEW d \in Seq(Deal), NEW closing \in SUBSET DOMAIN d, NEW i \in closing
  PROVE  /\ Max(PartsOf(d, closing, i)) \in PartsOf(d, closing, i)
         /\ \A j \in PartsOf(d, closing, i) : j <= Max(PartsOf(d, closing, i))
         /\ Min(PartsOf(d, closing, i)) \in PartsOf(d, closing, i)
<1>1. Len(d) \in Nat /\ PartsOf(d, closing, i) \in SUBSET (1..Len(d)) /\ i \in PartsOf(d, closing, i)
  BY DEF PartsOf
<1> QED
  BY <1>1, GreatestPosition, LeastPosition

\* One part of each position is kept, and of those that are not a later one is.
LEMMA LastPartsOfDeals ==
  ASSUME NEW d \in Seq(Deal), NEW closing \in SUBSET DOMAIN d
  PROVE  /\ LastParts(d, closing) = closing \ {i \in closing : \E j \in closing : i < j /\ d[i].position = d[j].position}
         /\ \A i, j \in LastParts(d, closing) : d[i].position = d[j].position => i = j
         /\ \A i \in closing : \E j \in LastParts(d, closing) : d[j].position = d[i].position
<1> DEFINE Part(i) == PartsOf(d, closing, i)
           last    == LastParts(d, closing)
<1>1. \A i \in closing : i \in Int
  OBVIOUS
<1>2. ASSUME NEW i \in closing, NEW j \in closing, d[i].position = d[j].position
      PROVE  Part(i) = Part(j)
  BY <1>2 DEF PartsOf
<1>3. ASSUME NEW i \in closing
      PROVE  (i \in last) <=> ~ \E j \in closing : i < j /\ d[i].position = d[j].position
  <2> DEFINE m == Max(Part(i))
  <2>1. m \in closing /\ d[m].position = d[i].position
        /\ \A j \in closing : d[j].position = d[i].position => j <= m
    BY PartsOfPosition DEF PartsOf
  <2>2. (i \in last) <=> (i = m)
    BY DEF LastParts
  <2>3. i \in Part(i)
    BY DEF PartsOf
  <2>4. i <= m /\ m \in Int /\ i \in Int
    BY <1>1, <2>1
  <2> HIDE DEF m, last, Part
  <2>5. CASE i = m
    <3>1. \A j \in closing : d[i].position = d[j].position => ~(i < j)
      BY <1>1, <2>1, <2>4, <2>5
    <3> QED
      BY <2>2, <2>5, <3>1
  <2>6. CASE i # m
    <3>1. i < m
      BY <2>4, <2>6
    <3> QED
      BY <2>1, <2>2, <2>6, <3>1
  <2> QED
    BY <2>5, <2>6
<1>4. last \subseteq closing
  BY DEF LastParts
<1>5. ASSUME NEW i \in last, NEW j \in last, d[i].position = d[j].position PROVE i = j
  <2>1. i = Max(Part(i)) /\ j = Max(Part(j))
    BY DEF LastParts
  <2>2. Part(i) = Part(j)
    BY <1>2, <1>4, <1>5
  <2> QED
    BY <2>1, <2>2
<1>6. ASSUME NEW i \in closing PROVE \E j \in last : d[j].position = d[i].position
  <2> DEFINE m == Max(Part(i))
  <2>1. m \in closing /\ d[m].position = d[i].position
    BY PartsOfPosition DEF PartsOf
  <2>2. Part(m) = Part(i)
    BY <1>2, <2>1
  <2>3. m = Max(Part(m))
    BY <2>2
  <2>4. m \in last
    BY <2>1, <2>3 DEF LastParts
  <2> QED
    BY <2>1, <2>4
<1>7. last = closing \ {i \in closing : \E j \in closing : i < j /\ d[i].position = d[j].position}
  <2> HIDE DEF last
  <2> QED
    BY <1>3, <1>4
<1> QED
  BY <1>5, <1>6, <1>7

\* The sort by close time puts the trades kept into an order.
LEMMA CloseTimeIsOrder ==
  ASSUME NEW d \in Seq(Deal), NEW closing \in SUBSET DOMAIN d
  PROVE  IsOrderOf(ByCloseTime(d, closing), LastParts(d, closing))
<1> DEFINE last  == LastParts(d, closing)
           at(i) == Inserted(d, closing, i)
           R     == ByCloseTime(d, closing)
<1>1. last \subseteq closing
  BY DEF LastParts
<1>2. \A i \in closing : d[i].time \in Int /\ at(i) \in Int /\ d[at(i)].position = d[i].position
  <2> SUFFICES ASSUME NEW i \in closing
               PROVE  d[i].time \in Int /\ at(i) \in Int /\ d[at(i)].position = d[i].position
    OBVIOUS
  <2>1. d[i] \in Deal
    OBVIOUS
  <2>2. at(i) \in closing /\ d[at(i)].position = d[i].position
    BY PartsOfPosition DEF PartsOf, Inserted
  <2>3. at(i) \in Int
    BY <2>2
  <2> QED
    BY <2>1, <2>2, <2>3 DEF Deal
<1>3. \A i, j \in last : at(i) = at(j) => i = j
  BY <1>1, <1>2, LastPartsOfDeals
<1> DEFINE Sorts(i, j) ==
             \/ d[i].time < d[j].time
             \/ d[i].time = d[j].time /\ at(i) < at(j)
<1>4. \A i, j \in closing : <<i, j>> \in R <=> Sorts(i, j)
  BY DEF ByCloseTime
<1> HIDE DEF last, at, R
<1>5. ASSUME NEW i \in last, NEW j \in last
      PROVE  /\ <<i, j>> \in R => <<j, i>> \notin R
             /\ i # j => <<i, j>> \in R \/ <<j, i>> \in R
             /\ \A k \in last : <<i, j>> \in R /\ <<j, k>> \in R => <<i, k>> \in R
  <2>1. i \in closing /\ j \in closing
    BY <1>1
  <2>2. Sorts(i, j) => ~Sorts(j, i)
    BY <1>2, <2>1
  <2>3. i # j => Sorts(i, j) \/ Sorts(j, i)
    BY <1>2, <1>3, <2>1
  <2>4. ASSUME NEW k \in last, Sorts(i, j), Sorts(j, k) PROVE Sorts(i, k)
    <3>1. k \in closing
      BY <1>1
    <3>2. /\ d[i].time \in Int /\ d[j].time \in Int /\ d[k].time \in Int
          /\ at(i) \in Int /\ at(j) \in Int /\ at(k) \in Int
      BY <1>2, <2>1, <3>1
    <3> QED
      BY <2>4, <3>2
  <2> HIDE DEF Sorts
  <2>5. \A k \in last : k \in closing
    BY <1>1
  <2> QED
    BY <1>4, <2>1, <2>2, <2>3, <2>4, <2>5
<1>6. IsOrderOf(R, last)
  BY <1>5 DEF IsOrderOf
<1> QED
  BY <1>6 DEF last, R

LEMMA ProfitsOfDeals ==
  ASSUME NEW d \in Seq(Deal)
  PROVE  HasProfits(d)
<1>1. \A i \in 1..Len(d) : d[i] \in Deal
  OBVIOUS
<1>2. \A i \in 1..Len(d) : d[i].profit \in Int
  BY <1>1 DEF Deal
<1> QED
  BY <1>2 DEF HasProfits

LEMMA ProfitOfSubsequence ==
  ASSUME NEW d \in Seq(Deal), NEW I \in SUBSET DOMAIN d
  PROVE  TotalProfit(Subsequence(d, I)) = ProfitAt(d, I)
<1> DEFINE m     == Cardinality(I)
           list  == Subsequence(d, I)
           place == [k \in 1..m |-> Kth(I, k)]
<1>1. Len(d) \in Nat /\ I \in SUBSET (1..Len(d)) /\ HasProfits(d)
  BY ProfitsOfDeals
<1>2. Len(list) = m /\ m \in Nat
  BY SubsequenceType
<1>3. \A k \in 1..m : Kth(I, k) \in I /\ CountUpTo(I, Kth(I, k)) = k
  BY <1>1, KthIsPosition
<1>4. \A i \in I : CountUpTo(I, i) \in 1..m /\ Kth(I, CountUpTo(I, i)) = i
  BY <1>1, KthIsPosition, CountIsBijective
<1>5. place \in [1..m -> 1..Len(d)] /\ \A k \in 1..m : place[k] = Kth(I, k)
  BY <1>1, <1>3
<1>6. \A k \in 1..m : list[k].profit = d[place[k]].profit
  BY <1>5 DEF Subsequence
<1> HIDE DEF list, place, m
<1>7. \A k, l \in 1..m : place[k] = place[l] => k = l
  BY <1>3, <1>5
<1>8. {place[k] : k \in 1..m} = I
  BY <1>3, <1>4, <1>5
<1>9. ListOf(list, d, place)
  BY <1>2, <1>5, <1>6, <1>7 DEF ListOf
<1>10. TotalProfit(list) = ProfitAt(d, {place[k] : k \in 1..Len(list)})
  BY <1>1, <1>9, ProfitOfList
<1> QED
  BY <1>2, <1>8, <1>10 DEF list

\* The day's trades of any history: one for each position closed in the day,
\* in the order of their close times, their profits those of the last parts.
LEMMA TradesOfDay ==
  ASSUME NEW d \in Seq(Deal), NEW midnight
  PROVE  LET today  == ClosingDeals(d, midnight)
             trades == ClosedTradesToday(d, midnight)
         IN  /\ Tickets(trades) = {d[i].position : i \in today}
             /\ \A i, j \in DOMAIN trades : i < j =>
                  trades[i].ticket # trades[j].ticket /\ trades[i].closeTime <= trades[j].closeTime
             /\ TotalProfit(trades) = ProfitAt(d, LastParts(d, today))
<1> DEFINE today  == ClosingDeals(d, midnight)
           trades == ClosedTradesToday(d, midnight)
           last   == LastParts(d, today)
           R      == ByCloseTime(d, today)
           m      == Cardinality(last)
           place  == [k \in 1..m |-> Ranked(last, R, k)]
<1>0. today \in SUBSET DOMAIN d
  BY DEF ClosingDeals
<1>1. Len(d) \in Nat /\ last \in SUBSET (1..Len(d)) /\ last \subseteq today
  BY <1>0 DEF LastParts
<1>2. IsOrderOf(R, last)
  BY <1>0, CloseTimeIsOrder
<1>3. m \in Nat
  BY <1>1, PositionsType
<1>4. ASSUME NEW q \in R PROVE d[q[1]].time <= d[q[2]].time
  <2>1. q[1] \in DOMAIN d /\ q[2] \in DOMAIN d /\ (d[q[1]].time < d[q[2]].time \/ d[q[1]].time = d[q[2]].time)
    BY <1>0, <1>4 DEF ByCloseTime
  <2>2. d[q[1]] \in Deal /\ d[q[2]] \in Deal
    BY <2>1
  <2>3. d[q[1]].time \in Int /\ d[q[2]].time \in Int
    BY <2>2 DEF Deal
  <2> QED
    BY <2>1, <2>3
<1>5. /\ DOMAIN trades = 1..m
      /\ \A k \in 1..m : /\ trades[k].ticket = d[place[k]].position
                         /\ trades[k].closeTime = d[place[k]].time
                         /\ trades[k].profit = d[place[k]].profit
  BY DEF ClosedTradesToday, TradeOfDeal
<1>6. Len(trades) = m
  BY <1>3 DEF ClosedTradesToday
<1>7. \A k \in 1..m : place[k] = Ranked(last, R, k)
  OBVIOUS
<1> HIDE DEF trades, last, R, place
<1>8. /\ \A k \in 1..m : place[k] \in last
      /\ \A k, l \in 1..m : k < l => <<place[k], place[l]>> \in R
      /\ \A i \in last : \E k \in 1..m : place[k] = i
  <2>1. /\ \A k \in 1..m : Ranked(last, R, k) \in last
        /\ \A k, l \in 1..m : k < l => <<Ranked(last, R, k), Ranked(last, R, l)>> \in R
        /\ \A i \in last : \E k \in 1..m : Ranked(last, R, k) = i
    BY <1>1, <1>2, RankedIsListing
  <2> QED
    BY <1>7, <2>1
<1> HIDE DEF m, today
<1>9. \A k, l \in 1..m : place[k] = place[l] => k = l
  <2> SUFFICES ASSUME NEW k \in 1..m, NEW l \in 1..m, place[k] = place[l], k < l PROVE FALSE
    OBVIOUS
  <2> QED
    BY <1>2, <1>8 DEF IsOrderOf
<1>10. Tickets(trades) = {d[i].position : i \in today}
  <2>1. Tickets(trades) = {d[i].position : i \in last}
    BY <1>5, <1>8 DEF Tickets
  <2>2. \A i \in today : \E j \in last : d[j].position = d[i].position
    BY <1>0, LastPartsOfDeals DEF last
  <2> QED
    BY <1>1, <2>1, <2>2
<1>11. ASSUME NEW k \in 1..m, NEW l \in 1..m, k < l
       PROVE  trades[k].ticket # trades[l].ticket /\ trades[k].closeTime <= trades[l].closeTime
  <2>1. place[k] # place[l]
    BY <1>9, <1>11
  <2>2. d[place[k]].position # d[place[l]].position
    BY <1>0, <1>8, <2>1, LastPartsOfDeals DEF last
  <2>3. d[place[k]].time <= d[place[l]].time
    BY <1>4, <1>8, <1>11
  <2> QED
    BY <1>5, <2>2, <2>3
<1>12. TotalProfit(trades) = ProfitAt(d, last)
  <2>1. ListOf(trades, d, place)
    <3>1. place \in [1..m -> 1..Len(d)]
      BY <1>1, <1>8 DEF place
    <3> QED
      BY <1>3, <1>5, <1>6, <1>9, <3>1 DEF ListOf
  <2>2. HasProfits(d)
    BY ProfitsOfDeals
  <2>3. TotalProfit(trades) = ProfitAt(d, {place[k] : k \in 1..Len(trades)})
    BY <2>1, <2>2, ProfitOfList
  <2>4. {place[k] : k \in 1..m} = last
    BY <1>8
  <2> QED
    BY <1>6, <2>3, <2>4
<1> QED
  BY <1>5, <1>10, <1>11, <1>12 DEF last, trades, today

\* For every history of deals _get_closed_trades_today makes one trade of every
\* position closed today, in the order of their close times, and if none was
\* closed in parts their result is the one of the day.
THEOREM TradesOfTheDay == Spec => []DayOfDeals
<1>1. DealsOK => DayOfDeals
  <2> SUFFICES ASSUME DealsOK PROVE DayOfDeals
    OBVIOUS
  <2> DEFINE d       == deals
             trades  == ClosedTradesToday(d, Midnight)
             today   == ClosingDeals(d, Midnight)
             whole   == \A i, j \in today : d[i].position = d[j].position => i = j
             last    == LastParts(d, today)
  <2>1. d \in Seq(Deal) /\ today \in SUBSET DOMAIN d
    BY DEF DealsOK, ClosingDeals
  <2>2. /\ Tickets(trades) = {d[i].position : i \in today}
        /\ \A i, j \in DOMAIN trades : i < j =>
             trades[i].ticket # trades[j].ticket /\ trades[i].closeTime <= trades[j].closeTime
        /\ TotalProfit(trades) = ProfitAt(d, last)
    BY <2>1, TradesOfDay
  <2>3. whole => last = today
    <3> HIDE DEF d, last, today
    <3>1. last = today \ {i \in today : \E j \in today : i < j /\ d[i].position = d[j].position}
      BY <2>1, LastPartsOfDeals DEF last
    <3>2. \A i \in today : i \in Int
      BY <2>1
    <3> QED
      BY <3>1, <3>2
  <2> HIDE DEF d, trades, today, last
  <2>4. TotalProfit(Subsequence(d, today)) = ProfitAt(d, today)
    BY <2>1, ProfitOfSubsequence
  <2>5. whole => TotalProfit(trades) = TotalProfit(Subsequence(d, today))
    BY <2>2, <2>3, <2>4
  <2> QED
    BY <2>2, <2>5 DEF DayOfDeals, ClosingDeals, d, trades, today
<1> QED
  BY <1>1, DealsAlwaysOK, PTL

===============================================================================
