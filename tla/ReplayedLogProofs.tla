-------------------------- MODULE ReplayedLogProofs --------------------------
(* What follows from ReplayedLog, for every log.                             *)
EXTENDS ReplayedLog, TLAPS

\* Types hold, and what is forgotten was carried out.
THEOREM TypeCorrect ==
  ASSUME Sensible
  PROVE  Spec => []TypeOK
<1>1. Init => TypeOK
  BY DEF Sensible, Init, TypeOK
<1>2. TypeOK /\ [Next]_vars => TypeOK'
  BY DEF TypeOK, Next, vars, Send, Execute, Forget, StartAgain
<1> QED
  BY <1>1, <1>2, PTL DEF Spec

\* A longer log has the same beginnings.
LEMMA OutcomeStable ==
  ASSUME TypeOK, TypeOK', NEW v \in Values, NEW n \in 0..Len(log), IsOutcome(v, n),
         \A j \in 1..n : log'[j] = log[j]
  PROVE  IsOutcome(v, n)'
<1>1. CASE v = Default /\ \A j \in 1..n : log[j] = Nothing
  BY <1>1 DEF IsOutcome
<1>2. CASE \E k \in 1..n : /\ log[k] = v /\ v # Nothing
                           /\ \A j \in (k+1)..n : log[j] = Nothing
  <2>1. PICK k \in 1..n : /\ log[k] = v /\ v # Nothing
                          /\ \A j \in (k+1)..n : log[j] = Nothing
    BY <1>2
  <2>2. \A j \in (k+1)..n : j \in 1..n
    OBVIOUS
  <2>3. log'[k] = v /\ \A j \in (k+1)..n : log'[j] = Nothing
    BY <2>1, <2>2
  <2> QED
    BY <2>1, <2>3 DEF IsOutcome
<1> QED
  BY <1>1, <1>2 DEF IsOutcome

\* A message carried out leaves its own effect, or none.
LEMMA OutcomeNext ==
  ASSUME TypeOK, NEW n \in 0..(Len(log) - 1)
  PROVE  /\ log[n + 1] # Nothing => IsOutcome(log[n + 1], n + 1)
         /\ \A v \in Values : log[n + 1] = Nothing /\ IsOutcome(v, n) => IsOutcome(v, n + 1)
<1>1. log[n + 1] # Nothing => IsOutcome(log[n + 1], n + 1)
  BY DEF IsOutcome, TypeOK
<1>2. ASSUME NEW v \in Values, log[n + 1] = Nothing, IsOutcome(v, n)
      PROVE  IsOutcome(v, n + 1)
  <2>1. CASE v = Default /\ \A j \in 1..n : log[j] = Nothing
    <3>1. \A j \in 1..(n + 1) : j = n + 1 \/ j \in 1..n
      OBVIOUS
    <3> QED
      BY <1>2, <2>1, <3>1 DEF IsOutcome
  <2>2. CASE \E k \in 1..n : /\ log[k] = v /\ v # Nothing
                             /\ \A j \in (k+1)..n : log[j] = Nothing
    <3>1. PICK k \in 1..n : /\ log[k] = v /\ v # Nothing
                            /\ \A j \in (k+1)..n : log[j] = Nothing
      BY <2>2
    <3>2. k \in 1..(n + 1) /\ \A j \in (k+1)..(n + 1) : j = n + 1 \/ j \in (k+1)..n
      OBVIOUS
    <3> QED
      BY <1>2, <3>1, <3>2 DEF IsOutcome
  <2> QED
    BY <1>2, <2>1, <2>2 DEF IsOutcome
<1> QED
  BY <1>1, <1>2

LEMMA NeverBehindStep ==
  ASSUME TypeOK, TypeOK', NeverBehind, [Next]_vars
  PROVE  NeverBehind'
<1>1. PICK n \in at..Len(log) : IsOutcome(value, n)
  BY DEF NeverBehind
<1>2. n \in 0..Len(log) /\ value \in Values
  BY DEF TypeOK
<1>3. ASSUME NEW effect \in Values \union {Nothing}, Send(effect)
      PROVE  NeverBehind'
  <2>1. n \in at'..Len(log') /\ value' = value /\ \A j \in 1..n : log'[j] = log[j]
    BY <1>2, <1>3 DEF Send, TypeOK
  <2>2. IsOutcome(value, n)'
    BY <1>1, <1>2, <2>1, OutcomeStable
  <2> QED
    BY <2>1, <2>2 DEF NeverBehind
<1>4. CASE Execute
  <2>1. log' = log /\ at' = at + 1 /\ at' \in 0..Len(log) /\ at \in 0..(Len(log) - 1)
    BY <1>4 DEF Execute, TypeOK
  <2>2. CASE log[at + 1] # Nothing
    <3>1. value' = log[at + 1]
      BY <1>4, <2>1, <2>2 DEF Execute
    <3>2. IsOutcome(value', at + 1)
      BY <2>1, <2>2, <3>1, OutcomeNext
    <3> QED
      BY <2>1, <3>2 DEF NeverBehind, IsOutcome
  <2>3. CASE log[at + 1] = Nothing /\ n > at
    <3>1. value' = value /\ n \in at'..Len(log')
      BY <1>4, <2>1, <2>3 DEF Execute
    <3> QED
      BY <1>1, <2>1, <3>1 DEF NeverBehind, IsOutcome
  <2>4. CASE log[at + 1] = Nothing /\ n = at
    <3>1. value' = value
      BY <1>4, <2>1, <2>4 DEF Execute
    <3>2. IsOutcome(value, at + 1)
      BY <1>1, <1>2, <2>1, <2>4, OutcomeNext
    <3> QED
      BY <2>1, <3>1, <3>2 DEF NeverBehind, IsOutcome
  <2> QED
    BY <1>2, <2>1, <2>2, <2>3, <2>4 DEF TypeOK
<1>5. CASE Forget \/ UNCHANGED vars
  BY <1>1, <1>5 DEF Forget, vars, NeverBehind, IsOutcome
<1>6. CASE StartAgain
  <2>1. n \in at'..Len(log') /\ log' = log /\ value' = value
    BY <1>2, <1>6 DEF StartAgain, TypeOK
  <2> QED
    BY <1>1, <2>1 DEF NeverBehind, IsOutcome
<1> QED
  BY <1>3, <1>4, <1>5, <1>6 DEF Next

\* The setting is always what some beginning of the log, no shorter than what
\* was carried out, leaves behind.
THEOREM StaysAhead ==
  ASSUME Sensible
  PROVE  Spec => []NeverBehind
<1>1. Init => NeverBehind
  <2> SUFFICES ASSUME Init PROVE NeverBehind
    OBVIOUS
  <2>1. 0 \in at..Len(log) /\ IsOutcome(value, 0)
    BY DEF Init, IsOutcome
  <2> QED
    BY <2>1 DEF NeverBehind
<1>2. TypeOK /\ TypeOK' /\ NeverBehind /\ [Next]_vars => NeverBehind'
  BY NeverBehindStep
<1> QED
  BY <1>1, <1>2, TypeCorrect, PTL DEF Spec

\* Once all is carried out the newest command decides, however often the log
\* was replayed.
THEOREM Convergence ==
  ASSUME Sensible
  PROVE  Spec => []Converged
<1>1. TypeOK /\ NeverBehind => Converged
  <2> SUFFICES ASSUME TypeOK, NeverBehind, at = Len(log) PROVE IsOutcome(value, Len(log))
    BY DEF Converged
  <2>1. PICK n \in at..Len(log) : IsOutcome(value, n)
    BY DEF NeverBehind
  <2>2. n = Len(log)
    BY DEF TypeOK
  <2> QED
    BY <2>1, <2>2
<1> QED
  BY <1>1, TypeCorrect, StaysAhead, PTL

===============================================================================
