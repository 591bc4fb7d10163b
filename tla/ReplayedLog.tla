----------------------------- MODULE ReplayedLog -----------------------------
(***************************************************************************)
(* What commands sent over a queue that redelivers promise for one         *)
(* setting: they are carried out in the order in which they were sent, and *)
(* only after that forgotten by the queue; whoever carries them out may    *)
(* start again, but never later than at the first that is not forgotten.   *)
(***************************************************************************)
EXTENDS Integers, Sequences

CONSTANTS
  Values,  \* what the setting can be
  Default, \* what it is before any command
  Nothing  \* the effect of a message that is no command for this setting

\* What the theorems ask of the constants; whoever instantiates this module
\* sees to it.
Sensible == Default \in Values /\ Nothing \notin Values

VARIABLES
  log,       \* the effect of every message ever sent
  forgotten, \* how many of them the queue no longer delivers
  at,        \* how many were carried out since the last start
  value      \* the setting

vars == <<log, forgotten, at, value>>

Init == log = <<>> /\ forgotten = 0 /\ at = 0 /\ value = Default

Send(effect) ==
  /\ log' = Append(log, effect)
  /\ UNCHANGED <<forgotten, at, value>>

Execute ==
  /\ at < Len(log)
  /\ at' = at + 1
  /\ value' = IF log[at'] = Nothing THEN value ELSE log[at']
  /\ UNCHANGED <<log, forgotten>>

Forget ==
  /\ forgotten' = at
  /\ UNCHANGED <<log, at, value>>

StartAgain ==
  /\ at' = forgotten
  /\ UNCHANGED <<log, forgotten, value>>

Next == (\E effect \in Values \union {Nothing} : Send(effect)) \/ Execute \/ Forget \/ StartAgain

Spec == Init /\ [][Next]_vars

-------------------------------------------------------------------------------
(* v is what the first n messages leave behind.                             *)
IsOutcome(v, n) ==
  \/ \E k \in 1..n : /\ log[k] = v /\ v # Nothing
                     /\ \A j \in (k+1)..n : log[j] = Nothing
  \/ v = Default /\ \A j \in 1..n : log[j] = Nothing

TypeOK ==
  /\ log \in Seq(Values \union {Nothing})
  /\ at \in 0..Len(log) /\ forgotten \in 0..at
  /\ value \in Values

\* Whatever was replayed, the setting is one that some beginning of the log
\* leaves behind, and one no shorter than what was carried out.
NeverBehind == \E n \in at..Len(log) : IsOutcome(value, n)

\* When all was carried out, the newest command decides.
Converged == at = Len(log) => IsOutcome(value, Len(log))

===============================================================================
