--------------------------- MODULE CommandBotProofs ---------------------------
(* Theorems about CommandBot for every set of accounts, users and updates,   *)
(* every batch size, and any number of restarts and failing writes.          *)
EXTENDS CommandBot, TLAPS

\* No account is listed twice among those a command has still to change, all
\* of them are meant by it, and none is left outside a command.
TodoOK ==
  /\ IsInjective(todo)
  /\ todo # <<>> => Taken > confirmed /\ \A a \in ToSet(todo) : IsFor(inbox[Taken], a)
  /\ pc \in {"head", "wait", "batch"} => todo = <<>>

\* In a running bot all that was taken is carried out, but for what is left of
\* the command in hand.
Progress ==
  Running =>
    \A i \in 1..Taken : \A a \in Accounts :
      IsFor(inbox[i], a) => <<i, a>> \in executed \/ (i = Taken /\ a \in ToSet(todo))

Inv == TypeOK /\ TodoOK /\ Progress /\ AtLeastOnce

-------------------------------------------------------------------------------

LEMMA Bounds == MaxBatch \in Nat /\ MaxStarts \in Nat /\ MaxFailures \in Nat
  BY CommandBotAssumption

\* The accounts an update is carried out for are those it is meant for, each
\* of them once.
LEMMA TargetsAreMeant ==
  ASSUME NEW u \in Updates
  PROVE  /\ Targets(u) \in Seq(Accounts) /\ IsInjective(Targets(u))
         /\ \A a \in Accounts : a \in ToSet(Targets(u)) <=> IsFor(u, a)
<1>1. CASE u.command \in {"pause", "resume"} /\ Authorized(u) /\ u.token = "all"
  BY <1>1, CommandBotAssumption DEF Targets, Resolve, IsFor, Accounts
<1>2. CASE u.command \in {"pause", "resume"} /\ Authorized(u) /\ u.token \in Accounts
  <2>1. u.token # "all" /\ Targets(u) = <<u.token>>
    BY <1>2, CommandBotAssumption DEF Targets, Resolve
  <2>2. <<u.token>> \in Seq(Accounts) /\ IsInjective(<<u.token>>) /\ ToSet(<<u.token>>) = {u.token}
    BY <1>2 DEF IsInjective, ToSet
  <2> QED
    BY <1>2, <2>1, <2>2 DEF IsFor
<1>3. CASE ~(u.command \in {"pause", "resume"} /\ Authorized(u) /\ u.token \in Accounts \union {"all"})
  <2>1. Targets(u) = <<>>
    BY <1>3 DEF Targets, Resolve
  <2>2. \A a \in Accounts : ~IsFor(u, a)
    BY <1>3 DEF IsFor
  <2>3. <<>> \in Seq(Accounts) /\ IsInjective(<<>>) /\ ToSet(<<>>) = {}
    BY DEF IsInjective, ToSet
  <2> QED
    BY <2>1, <2>2, <2>3
<1> QED
  BY <1>1, <1>2, <1>3

\* Of a list without duplicates the tail holds all but the head.
LEMMA TailOf ==
  ASSUME NEW s \in Seq(Accounts), s # <<>>, IsInjective(s)
  PROVE  /\ Tail(s) \in Seq(Accounts) /\ IsInjective(Tail(s))
         /\ Head(s) \in Accounts /\ Head(s) \in ToSet(s)
         /\ ToSet(Tail(s)) = ToSet(s) \ {Head(s)}
<1>1. /\ Tail(s) \in Seq(Accounts) /\ Head(s) = s[1] /\ 1 \in DOMAIN s
      /\ Len(Tail(s)) = Len(s) - 1 /\ \A i \in 1..Len(Tail(s)) : Tail(s)[i] = s[i + 1]
      /\ DOMAIN Tail(s) = 1..Len(Tail(s)) /\ DOMAIN s = 1..Len(s) /\ Len(s) \in Nat
  OBVIOUS
<1>2. IsInjective(Tail(s))
  BY <1>1 DEF IsInjective
<1>3. \A x \in ToSet(Tail(s)) : x \in ToSet(s) /\ x # Head(s)
  BY <1>1 DEF IsInjective, ToSet
<1>4. ASSUME NEW x \in ToSet(s), x # Head(s)
      PROVE  x \in ToSet(Tail(s))
  <2>1. PICK i \in DOMAIN s : x = s[i]
    BY <1>4 DEF ToSet
  <2>2. i - 1 \in 1..Len(Tail(s)) /\ Tail(s)[i - 1] = x
    BY <1>1, <1>4, <2>1
  <2> QED
    BY <1>1, <2>2 DEF ToSet
<1>5. Head(s) \in Accounts /\ Head(s) \in ToSet(s)
  BY <1>1 DEF ToSet
<1> QED
  BY <1>1, <1>2, <1>3, <1>4, <1>5

-------------------------------------------------------------------------------

LEMMA InvInit == Init => Inv
<1> SUFFICES ASSUME Init PROVE Inv
  OBVIOUS
<1>1. Taken = 0 /\ Len(inbox) = 0
  BY DEF Init, Taken
<1>2. TypeOK
  <2>1. inbox \in Seq(Updates) /\ todo \in Seq(Accounts)
    BY DEF Init
  <2>2. switch \in [Accounts -> Switch]
    BY DEF Init, Switch
  <2>3. starts \in 0..MaxStarts /\ failures \in 0..MaxFailures
    BY Bounds DEF Init
  <2>4. stop \in BOOLEAN
    BY DEF Init
  <2>5. /\ executed \subseteq (1..Len(inbox)) \X Accounts /\ answered \subseteq 1..Len(inbox)
        /\ pc = "head" /\ offset = 0 /\ confirmed = 0 /\ Taken \in confirmed..Len(inbox)
    BY <1>1 DEF Init
  <2> QED
    BY <2>1, <2>2, <2>3, <2>4, <2>5 DEF TypeOK
<1>3. TodoOK /\ Progress /\ AtLeastOnce
  BY <1>1 DEF Init, TodoOK, Progress, AtLeastOnce, IsInjective
<1> QED
  BY <1>2, <1>3 DEF Inv

LEMMA SendStep ==
  ASSUME Inv, NEW update \in Updates, Send(update)
  PROVE  Inv'
<1>1. /\ Len(inbox') = Len(inbox) + 1 /\ inbox' \in Seq(Updates)
      /\ \A i \in 1..Len(inbox) : inbox'[i] = inbox[i]
      /\ UNCHANGED <<confirmed, bot, switch, starts, failures, executed, answered>>
  BY DEF Inv, TypeOK, Send
<1>2. Taken' = Taken /\ Taken \in confirmed..Len(inbox) /\ confirmed \in Nat
  BY <1>1 DEF Inv, TypeOK, Taken, bot
<1>3. TypeOK'
  BY <1>1, <1>2 DEF Inv, TypeOK, bot
<1>4. \A i \in 1..Len(inbox) : \A a : IsFor(inbox[i], a)' = IsFor(inbox[i], a)
  BY <1>1 DEF IsFor, Authorized
<1>5. TodoOK'
  BY <1>1, <1>2, <1>4 DEF Inv, TodoOK, bot
<1>6. Progress' /\ AtLeastOnce'
  <2>1. \A i \in 1..Len(inbox) : Executed(i)' = Executed(i)
    BY <1>1, <1>4 DEF Executed
  <2>2. (1..confirmed) \union answered \subseteq 1..Len(inbox) /\ 1..Taken \subseteq 1..Len(inbox)
    BY <1>2 DEF Inv, TypeOK
  <2>3. AtLeastOnce'
    BY <1>1, <2>1, <2>2 DEF Inv, AtLeastOnce
  <2>4. Progress'
    BY <1>1, <1>2, <1>4, <2>2 DEF Inv, Progress, Running, bot
  <2> QED
    BY <2>3, <2>4
<1> QED
  BY <1>3, <1>5, <1>6 DEF Inv

\* Asking, quitting, ending a batch, dying and being told to stop only move pc.
LEMMA ControlStep ==
  ASSUME Inv, Ask \/ Quit \/ EndBatch \/ Stop \/ Crash \/ ApplyFails
  PROVE  Inv'
<1>1. /\ UNCHANGED <<inbox, confirmed, offset, last, todo, switch, starts, executed, answered>>
      /\ pc' \in {"head", "wait", "ended", "down", pc} /\ (Running' => Running)
      /\ pc' \in {"head", "wait", "batch"} => pc \in {"head", "wait", "batch"}
      /\ pc' = "batch" => pc = "batch"
      /\ pc' = "dispatch" => pc = "dispatch"
  BY DEF Ask, Quit, EndBatch, Stop, Crash, ApplyFails, Running
<1>stop. stop' \in BOOLEAN
  BY DEF Inv, TypeOK, Ask, Quit, EndBatch, Stop, Crash, ApplyFails
<1>failed. failures' \in 0..MaxFailures
  BY Bounds DEF Inv, TypeOK, Ask, Quit, EndBatch, Stop, Crash, ApplyFails
<1>2. Taken' = Taken /\ \A i, a : IsFor(inbox[i], a)' = IsFor(inbox[i], a)
  BY <1>1 DEF Taken, IsFor, Authorized
<1>3. TypeOK'
  BY <1>1, <1>2, <1>stop, <1>failed DEF Inv, TypeOK
<1>4. TodoOK' /\ Progress' /\ AtLeastOnce'
  BY <1>1, <1>2 DEF Inv, TodoOK, Progress, AtLeastOnce, Executed
<1> QED
  BY <1>3, <1>4 DEF Inv

\* What Telegram forgets was taken, and between two commands that is carried out.
LEMMA DeliverStep ==
  ASSUME Inv, Deliver \/ Lost
  PROVE  Inv'
<1>1. /\ UNCHANGED <<inbox, offset, todo, stop, switch, starts, failures, executed, answered>>
      /\ pc = "wait" /\ pc' \in {"head", "batch"} /\ confirmed' \in {confirmed, Taken}
      /\ last' \in {last, BatchEnd} /\ (pc' = "batch" => last' = BatchEnd)
  BY DEF Deliver, Lost
<1>2. todo = <<>> /\ Running /\ Running'
  BY <1>1 DEF Inv, TodoOK, Running
<1>3. Taken' = Taken /\ confirmed' \in 0..Taken /\ Taken \in 0..Len(inbox)
  BY <1>1 DEF Inv, TypeOK, Taken
<1>4. BatchEnd \in Taken..Len(inbox)
  BY <1>3, Bounds DEF BatchEnd, Inv, TypeOK
<1>5. TypeOK'
  BY <1>1, <1>3, <1>4 DEF Inv, TypeOK
<1>6. \A i, a : IsFor(inbox[i], a)' = IsFor(inbox[i], a)
  BY <1>1 DEF IsFor, Authorized
<1>7. TodoOK'
  BY <1>1, <1>2 DEF Inv, TodoOK
<1>8. ToSet(todo) = {}
  BY <1>2 DEF ToSet
<1>9. \A i \in 1..Taken : Executed(i)
  BY <1>2, <1>8 DEF Inv, Progress, Executed
<1>10. Progress' /\ AtLeastOnce'
  BY <1>1, <1>2, <1>3, <1>6, <1>9 DEF Inv, Progress, AtLeastOnce, Executed
<1> QED
  BY <1>5, <1>7, <1>10 DEF Inv

LEMMA TakeStep ==
  ASSUME Inv, Take
  PROVE  Inv'
<1> DEFINE u == inbox[Taken + 1]
<1>1. /\ UNCHANGED <<inbox, confirmed, last, stop, switch, starts, failures, executed, answered>>
      /\ pc = "batch" /\ pc' \in {"batch", "dispatch"} /\ Taken < last /\ todo' = Targets(u)
      /\ offset' = Taken + 2 /\ (pc' = "batch" => u.command = "chatter")
  BY DEF Take
<1>2. /\ last \in Taken..Len(inbox) /\ Taken \in confirmed..Len(inbox) /\ confirmed \in Nat
      /\ Taken + 1 \in 1..Len(inbox) /\ u \in Updates
  BY <1>1 DEF Inv, TypeOK, Taken
<1>3. Taken' = Taken + 1
  BY <1>1, <1>2 DEF Taken
<1>4. /\ Targets(u) \in Seq(Accounts) /\ IsInjective(Targets(u))
      /\ \A a \in Accounts : a \in ToSet(Targets(u)) <=> IsFor(u, a)
  BY <1>2, TargetsAreMeant
<1>5. TypeOK'
  BY <1>1, <1>2, <1>3, <1>4 DEF Inv, TypeOK
<1>6. \A i, a : IsFor(inbox[i], a)' = IsFor(inbox[i], a)
  BY <1>1 DEF IsFor, Authorized
<1>7. \A a \in ToSet(Targets(u)) : a \in Accounts
  BY <1>4 DEF ToSet
<1>8. TodoOK'
  <2>1. u.command = "chatter" => Targets(u) = <<>>
    BY DEF Targets
  <2> QED
    BY <1>1, <1>2, <1>3, <1>4, <1>6, <1>7, <2>1 DEF TodoOK
<1>9. \A i \in 1..Taken : Executed(i)
  <2>1. todo = <<>> /\ Running
    BY <1>1 DEF Inv, TodoOK, Running
  <2>2. ToSet(todo) = {}
    BY <2>1 DEF ToSet
  <2> QED
    BY <2>1, <2>2 DEF Inv, Progress, Executed
<1>10. \A i \in 1..(Taken + 1) : i \in 1..Taken \/ i = Taken + 1
  BY <1>2
<1>11. Progress'
  BY <1>1, <1>3, <1>4, <1>6, <1>9, <1>10 DEF Progress, Executed
<1>12. AtLeastOnce'
  BY <1>1, <1>6 DEF Inv, AtLeastOnce, Executed
<1> QED
  BY <1>5, <1>8, <1>11, <1>12 DEF Inv

LEMMA ApplyStep ==
  ASSUME Inv, Apply
  PROVE  Inv'
<1>1. /\ UNCHANGED <<inbox, confirmed, pc, offset, last, stop, starts, failures, answered>>
      /\ pc = "dispatch" /\ todo # <<>> /\ todo' = Tail(todo)
      /\ executed' = executed \union {<<Taken, Head(todo)>>}
      /\ switch' = [switch EXCEPT ![Head(todo)] = Setting(inbox[Taken])]
  BY DEF Apply
<1>2. /\ Tail(todo) \in Seq(Accounts) /\ IsInjective(Tail(todo))
      /\ Head(todo) \in Accounts
      /\ ToSet(Tail(todo)) = ToSet(todo) \ {Head(todo)}
  BY <1>1, TailOf DEF Inv, TypeOK, TodoOK
<1>3. Taken' = Taken /\ Taken \in 1..Len(inbox)
  BY <1>1 DEF Inv, TypeOK, Taken
<1>4. TypeOK'
  BY <1>1, <1>2, <1>3 DEF Inv, TypeOK, Setting, Switch
<1>5. \A i, a : IsFor(inbox[i], a)' = IsFor(inbox[i], a)
  BY <1>1 DEF IsFor, Authorized
<1>6. TodoOK'
  BY <1>1, <1>2, <1>3, <1>5 DEF Inv, TodoOK
<1>7. Progress' /\ AtLeastOnce'
  BY <1>1, <1>2, <1>3, <1>5 DEF Inv, Progress, AtLeastOnce, Executed, Running
<1> QED
  BY <1>4, <1>6, <1>7 DEF Inv

LEMMA ReplyStep ==
  ASSUME Inv, Reply
  PROVE  Inv'
<1>1. /\ UNCHANGED <<inbox, confirmed, offset, last, todo, stop, switch, starts, failures, executed>>
      /\ pc = "dispatch" /\ pc' \in {"batch", "dispatch"} /\ todo = <<>>
      /\ answered' \subseteq answered \union {Taken}
  BY DEF Reply
<1>2. Taken' = Taken /\ Taken \in 1..Len(inbox)
  BY <1>1 DEF Inv, TypeOK, Taken
<1>3. Executed(Taken)
  <2>1. ToSet(todo) = {}
    BY <1>1 DEF ToSet
  <2> QED
    BY <1>1, <1>2, <2>1 DEF Inv, Progress, Executed, Running
<1>4. \A i, a : IsFor(inbox[i], a)' = IsFor(inbox[i], a)
  BY <1>1 DEF IsFor, Authorized
<1>5. TypeOK'
  <2>1. answered' \subseteq 1..Len(inbox)
    BY <1>1, <1>2 DEF Inv, TypeOK
  <2> QED
    BY <1>1, <1>2, <2>1 DEF Inv, TypeOK
<1>6. TodoOK' /\ Progress' /\ AtLeastOnce'
  BY <1>1, <1>2, <1>3, <1>4 DEF Inv, TodoOK, Progress, AtLeastOnce, Executed, Running
<1> QED
  BY <1>5, <1>6 DEF Inv

LEMMA StartStep ==
  ASSUME Inv, Start
  PROVE  Inv'
<1>1. /\ UNCHANGED <<inbox, confirmed, switch, failures, executed, answered>>
      /\ pc' = "head" /\ offset' = 0 /\ last' = 0 /\ todo' = <<>> /\ stop' = FALSE
      /\ starts' = starts + 1 /\ starts < MaxStarts
  BY DEF Start
<1>2. Taken' = confirmed /\ confirmed \in 0..Len(inbox)
  BY <1>1 DEF Inv, TypeOK, Taken
<1>3. TypeOK'
  <2>1. stop' \in BOOLEAN
    BY <1>1
  <2>2. starts' \in 0..MaxStarts
    BY <1>1, Bounds DEF Inv, TypeOK
  <2>3. todo' \in Seq(Accounts)
    BY <1>1
  <2>4. offset' \in Nat /\ pc' = "head" /\ Taken' \in confirmed'..Len(inbox')
    BY <1>1, <1>2
  <2> QED
    BY <1>1, <2>1, <2>2, <2>3, <2>4 DEF Inv, TypeOK
<1>4. \A i, a : IsFor(inbox[i], a)' = IsFor(inbox[i], a)
  BY <1>1 DEF IsFor, Authorized
<1>5. TodoOK'
  BY <1>1 DEF TodoOK, IsInjective
<1>6. Progress' /\ AtLeastOnce'
  BY <1>1, <1>2, <1>4 DEF Inv, Progress, AtLeastOnce, Executed
<1> QED
  BY <1>3, <1>5, <1>6 DEF Inv

LEMMA InvStep == Inv /\ [Next]_vars => Inv'
<1>1. ASSUME Inv, UNCHANGED vars PROVE Inv'
  <2>1. Taken' = Taken /\ \A i, a : IsFor(inbox[i], a)' = IsFor(inbox[i], a)
    BY <1>1 DEF vars, bot, Taken, IsFor, Authorized
  <2> QED
    BY <1>1, <2>1 DEF Inv, TypeOK, TodoOK, Progress, AtLeastOnce, Executed, Running, vars, bot
<1> QED
  BY <1>1, SendStep, ControlStep, DeliverStep, TakeStep, ApplyStep, ReplyStep, StartStep
     DEF Next, Poll, Handle

THEOREM Inductive == Spec => []Inv
  BY InvInit, InvStep, PTL DEF Spec

\* Types hold in every reachable state.
THEOREM TypeCorrect == Spec => []TypeOK
  BY Inductive, PTL DEF Inv

\* An update that Telegram forgot, or whose sender was answered, was carried
\* out for every account it names.
THEOREM NothingIsLost == Spec => []AtLeastOnce
  BY Inductive, PTL DEF Inv

-------------------------------------------------------------------------------
(* The refinement: every step is, for every account, a step of ReplayedLog.  *)

LEMMA ReplayInit ==
  ASSUME Init, NEW a \in Accounts
  PROVE  Replay(a)!Init
<1>1. Taken = 0 /\ inbox = <<>> /\ ToSet(todo) = {} /\ confirmed = 0 /\ switch[a] = "active"
  BY DEF Init, Taken, ToSet
<1> QED
  BY <1>1 DEF Replay!Init, Effects, Cursor

LEMMA EffectsStable ==
  ASSUME NEW a \in Accounts, inbox' = inbox
  PROVE  Effects(a)' = Effects(a)
  BY DEF Effects, IsFor, Authorized, Setting

LEMMA SettingIsSwitch == ASSUME NEW u PROVE Setting(u) \in Switch /\ Setting(u) # Nothing
  BY CommandBotAssumption DEF Setting, Switch

LEMMA ReplaySend ==
  ASSUME Inv, NEW a \in Accounts, NEW update \in Updates, Send(update)
  PROVE  Replay(a)!Next
<1> DEFINE effect == IF IsFor(update, a) THEN Setting(update) ELSE Nothing
<1>1. /\ inbox' = Append(inbox, update) /\ inbox \in Seq(Updates)
      /\ UNCHANGED <<confirmed, bot, switch>>
  BY DEF Send, Inv, TypeOK
<1>2. UNCHANGED <<confirmed, Cursor(a), switch[a]>>
  BY <1>1 DEF Cursor, Taken, bot
<1>3. effect \in Switch \union {Nothing}
  BY SettingIsSwitch
<1>4. Effects(a)' = Append(Effects(a), effect)
  <2>1. DOMAIN inbox = 1..Len(inbox) /\ DOMAIN inbox' = 1..(Len(inbox) + 1) /\ Len(inbox) \in Nat
    BY <1>1
  <2>2. Effects(a) \in Seq(Switch \union {Nothing}) /\ Len(Effects(a)) = Len(inbox)
    BY <2>1, SettingIsSwitch DEF Effects
  <2>3. Effects(a)' = [i \in 1..(Len(inbox) + 1) |-> IF i = Len(inbox) + 1 THEN effect ELSE Effects(a)[i]]
    BY <1>1, <2>1 DEF Effects, IsFor, Authorized, Setting
  <2> QED
    BY <1>3, <2>2, <2>3
<1> QED
  BY <1>2, <1>3, <1>4 DEF Replay!Next, Replay!Send

\* Forgetting happens between two commands, where the cursor is all that was taken.
LEMMA ReplayDeliver ==
  ASSUME Inv, NEW a \in Accounts, Deliver \/ Lost
  PROVE  Replay(a)!Next \/ UNCHANGED Replay(a)!vars
<1>1. /\ UNCHANGED <<inbox, offset, todo, switch>> /\ todo = <<>>
      /\ confirmed' \in {confirmed, Taken}
  BY DEF Deliver, Lost, Inv, TodoOK
<1>2. ToSet(todo) = {}
  BY <1>1 DEF ToSet
<1>3. Cursor(a) = Taken /\ Cursor(a)' = Taken
  BY <1>1, <1>2 DEF Cursor, Taken
<1> QED
  BY <1>1, <1>3, EffectsStable DEF Replay!Next, Replay!Forget, Replay!vars

\* An update not meant for the account is behind it as soon as it is taken.
LEMMA ReplayTake ==
  ASSUME Inv, NEW a \in Accounts, Take
  PROVE  Replay(a)!Next \/ UNCHANGED Replay(a)!vars
<1> DEFINE u == inbox[Taken + 1]
<1>1. /\ UNCHANGED <<inbox, confirmed, switch>> /\ pc = "batch" /\ todo = <<>>
      /\ Taken < last /\ todo' = Targets(u) /\ offset' = Taken + 2
  BY DEF Take, Inv, TodoOK
<1>2. /\ Taken \in Nat /\ Taken + 1 \in 1..Len(inbox) /\ u \in Updates
      /\ DOMAIN inbox = 1..Len(inbox) /\ Len(inbox) \in Nat
  BY <1>1 DEF Inv, TypeOK
<1>3. Taken' = Taken + 1
  BY <1>1, <1>2 DEF Taken
<1>4. Cursor(a) = Taken
  BY <1>1 DEF Cursor, ToSet
<1>5. CASE IsFor(u, a)
  <2>1. a \in ToSet(todo')
    BY <1>1, <1>2, <1>5, TargetsAreMeant
  <2>2. Cursor(a)' = Cursor(a)
    BY <1>2, <1>3, <1>4, <2>1 DEF Cursor
  <2> QED
    BY <1>1, <2>2, EffectsStable DEF Replay!vars
<1>6. CASE ~IsFor(u, a)
  <2>1. a \notin ToSet(todo')
    BY <1>1, <1>2, <1>6, TargetsAreMeant
  <2>2. Cursor(a)' = Cursor(a) + 1
    BY <1>3, <1>4, <2>1 DEF Cursor
  <2>3. Effects(a)[Taken + 1] = Nothing /\ Len(Effects(a)) = Len(inbox)
    BY <1>2, <1>6 DEF Effects
  <2> QED
    BY <1>1, <1>2, <1>4, <2>2, <2>3, EffectsStable DEF Replay!Next, Replay!Execute
<1> QED
  BY <1>5, <1>6

LEMMA ReplayApply ==
  ASSUME Inv, NEW a \in Accounts, Apply
  PROVE  Replay(a)!Next \/ UNCHANGED Replay(a)!vars
<1>1. /\ UNCHANGED <<inbox, confirmed, offset>> /\ pc = "dispatch" /\ todo # <<>>
      /\ todo' = Tail(todo) /\ switch' = [switch EXCEPT ![Head(todo)] = Setting(inbox[Taken])]
  BY DEF Apply
<1>2. /\ Head(todo) \in ToSet(todo)
      /\ ToSet(Tail(todo)) = ToSet(todo) \ {Head(todo)}
  BY <1>1, TailOf DEF Inv, TypeOK, TodoOK
<1>3. Taken' = Taken /\ Taken \in 1..Len(inbox) /\ IsFor(inbox[Taken], Head(todo))
  BY <1>1, <1>2 DEF Inv, TypeOK, TodoOK, Taken
<1>4. DOMAIN inbox = 1..Len(inbox) /\ Len(inbox) \in Nat
  BY DEF Inv, TypeOK
<1>5. CASE a = Head(todo)
  <2>1. Cursor(a) = Taken - 1 /\ Cursor(a)' = Taken
    BY <1>1, <1>2, <1>3, <1>5 DEF Cursor
  <2>2. switch'[a] = Setting(inbox[Taken])
    BY <1>1, <1>5 DEF Inv, TypeOK
  <2>3. Effects(a)[Taken] = switch'[a] /\ switch'[a] # Nothing /\ Len(Effects(a)) = Len(inbox)
    BY <1>3, <1>4, <1>5, <2>2, SettingIsSwitch DEF Effects
  <2> QED
    BY <1>1, <1>3, <1>4, <2>1, <2>3, EffectsStable DEF Replay!Next, Replay!Execute
<1>6. CASE a # Head(todo)
  <2>1. Cursor(a)' = Cursor(a)
    BY <1>1, <1>2, <1>3, <1>6 DEF Cursor
  <2>2. switch'[a] = switch[a]
    BY <1>1, <1>6 DEF Inv, TypeOK
  <2> QED
    BY <1>1, <2>1, <2>2, EffectsStable DEF Replay!vars
<1> QED
  BY <1>5, <1>6

LEMMA ReplayStart ==
  ASSUME Inv, NEW a \in Accounts, Start
  PROVE  Replay(a)!Next
<1>1. UNCHANGED <<inbox, confirmed, switch>> /\ offset' = 0 /\ todo' = <<>>
  BY DEF Start
<1>2. Cursor(a)' = confirmed
  BY <1>1 DEF Cursor, Taken, ToSet
<1> QED
  BY <1>1, <1>2, EffectsStable DEF Replay!Next, Replay!StartAgain

LEMMA ReplayControl ==
  ASSUME NEW a \in Accounts,
         Ask \/ Quit \/ EndBatch \/ Stop \/ Crash \/ ApplyFails \/ Reply \/ UNCHANGED vars
  PROVE  UNCHANGED Replay(a)!vars
<1>1. UNCHANGED <<inbox, confirmed, offset, todo, switch>>
  BY DEF Ask, Quit, EndBatch, Stop, Crash, ApplyFails, Reply, vars, bot
<1> QED
  BY <1>1, EffectsStable DEF Replay!vars, Cursor, Taken

LEMMA ReplayStep ==
  ASSUME Inv, [Next]_vars, NEW a \in Accounts
  PROVE  Replay(a)!Next \/ UNCHANGED Replay(a)!vars
  BY ReplaySend, ReplayDeliver, ReplayTake, ReplayApply, ReplayStart, ReplayControl
     DEF Next, Poll, Handle

\* For every account the bot is a ReplayedLog.
THEOREM Implements == Spec => IsReplayedLog
<1>1. Init => \A a \in Accounts : Replay(a)!Init
  BY ReplayInit
<1>2. Inv /\ [Next]_vars => \A a \in Accounts : Replay(a)!Next \/ UNCHANGED Replay(a)!vars
  BY ReplayStep
<1> QED
  BY <1>1, <1>2, Inductive, PTL DEF Spec, IsReplayedLog

-------------------------------------------------------------------------------
(* The newest command decides: what is proved of ReplayedLog, for a log given  *)
(* as a sequence, since facts about an instance per account cannot be cited.   *)

\* v is what the first n of the effects leave behind, for some n from at on.
Outcome(log, v, n) ==
  \/ \E k \in 1..n : /\ log[k] = v /\ v # Nothing
                     /\ \A j \in (k+1)..n : log[j] = Nothing
  \/ v = "active" /\ \A j \in 1..n : log[j] = Nothing

Ahead(log, at, v) == \E n \in at..Len(log) : Outcome(log, v, n)

LEMMA AheadOfLonger ==
  ASSUME NEW S, NEW log \in Seq(S), NEW e \in S, NEW at \in 0..Len(log), NEW v, Ahead(log, at, v)
  PROVE  Ahead(Append(log, e), at, v)
<1>1. PICK n \in at..Len(log) : Outcome(log, v, n)
  BY DEF Ahead
<1>2. n \in at..Len(Append(log, e)) /\ \A j \in 1..n : Append(log, e)[j] = log[j]
  OBVIOUS
<1>3. Outcome(Append(log, e), v, n)
  BY <1>1, <1>2 DEF Outcome
<1> QED
  BY <1>2, <1>3 DEF Ahead

LEMMA AheadOfNext ==
  ASSUME NEW S, NEW log \in Seq(S), NEW at \in 0..(Len(log) - 1), NEW v, Ahead(log, at, v),
         NEW w, w = IF log[at + 1] = Nothing THEN v ELSE log[at + 1]
  PROVE  Ahead(log, at + 1, w)
<1>1. PICK n \in at..Len(log) : Outcome(log, v, n)
  BY DEF Ahead
<1>2. Len(log) \in Nat /\ at + 1 \in 1..Len(log)
  OBVIOUS
<1>3. CASE log[at + 1] # Nothing
  <2>1. Outcome(log, w, at + 1)
    BY <1>2, <1>3 DEF Outcome
  <2> QED
    BY <1>2, <2>1 DEF Ahead
<1>4. CASE log[at + 1] = Nothing /\ n > at
  BY <1>1, <1>2, <1>4 DEF Ahead
<1>5. CASE log[at + 1] = Nothing /\ n = at
  <2>1. \A j \in 1..(at + 1) : j = at + 1 \/ j \in 1..at
    BY <1>2
  <2>2. \A k \in 1..at : k \in 1..(at + 1) /\ \A j \in (k + 1)..(at + 1) : j = at + 1 \/ j \in (k + 1)..at
    BY <1>2
  <2>3. Outcome(log, v, at + 1)
    BY <1>1, <1>5, <2>1, <2>2 DEF Outcome
  <2> QED
    BY <1>2, <1>5, <2>3 DEF Ahead
<1> QED
  BY <1>2, <1>3, <1>4, <1>5

Abreast == \A a \in Accounts : Ahead(Effects(a), Cursor(a), switch[a])

LEMMA ViewTypes ==
  ASSUME Inv, NEW a \in Accounts
  PROVE  /\ Effects(a) \in Seq(Switch \union {Nothing}) /\ Len(Effects(a)) = Len(inbox)
         /\ Cursor(a) \in confirmed..Len(inbox) /\ confirmed \in Nat /\ Len(inbox) \in Nat
<1>1. DOMAIN inbox = 1..Len(inbox) /\ Len(inbox) \in Nat
  BY DEF Inv, TypeOK
<1>2. Effects(a) \in Seq(Switch \union {Nothing}) /\ Len(Effects(a)) = Len(inbox)
  BY <1>1, SettingIsSwitch DEF Effects
<1>3. a \in ToSet(todo) => Taken > confirmed
  BY DEF Inv, TodoOK, ToSet
<1>4. Taken \in confirmed..Len(inbox) /\ confirmed \in Nat
  BY DEF Inv, TypeOK
<1> QED
  BY <1>1, <1>2, <1>3, <1>4 DEF Cursor

LEMMA AbreastStep ==
  ASSUME Inv, Abreast, [Next]_vars
  PROVE  Abreast'
<1> SUFFICES ASSUME NEW a \in Accounts
             PROVE  Ahead(Effects(a)', Cursor(a)', switch'[a])
  BY DEF Abreast, Ahead, Outcome
<1>1. Ahead(Effects(a), Cursor(a), switch[a])
  BY DEF Abreast
<1>2. /\ Effects(a) \in Seq(Switch \union {Nothing}) /\ Cursor(a) \in 0..Len(Effects(a))
      /\ Cursor(a) \in confirmed..Len(Effects(a)) /\ confirmed \in Nat /\ Len(Effects(a)) \in Nat
  BY ViewTypes
<1>3. CASE \E effect \in Switch \union {Nothing} : Replay(a)!Send(effect)
  BY <1>1, <1>2, <1>3, AheadOfLonger DEF Replay!Send
<1>4. CASE Replay(a)!Execute
  <2>1. /\ Cursor(a) \in 0..(Len(Effects(a)) - 1) /\ Effects(a)' = Effects(a) /\ Cursor(a)' = Cursor(a) + 1
        /\ switch'[a] = IF Effects(a)[Cursor(a) + 1] = Nothing THEN switch[a] ELSE Effects(a)[Cursor(a) + 1]
    BY <1>2, <1>4 DEF Replay!Execute
  <2> QED
    BY <1>1, <1>2, <2>1, AheadOfNext
<1>5. CASE Replay(a)!Forget \/ UNCHANGED Replay(a)!vars
  BY <1>1, <1>5 DEF Replay!Forget, Replay!vars
<1>6. CASE Replay(a)!StartAgain
  BY <1>1, <1>2, <1>6 DEF Replay!StartAgain, Ahead
<1> QED
  BY <1>3, <1>4, <1>5, <1>6, ReplayStep DEF Replay!Next

\* Whatever was lost, redelivered or cut off by a crash on the way there: once
\* all is handled, every switch is as the newest authorised command for it says.
THEOREM NewestCommandDecides == Spec => []NewestDecides
<1>1. Init => Abreast
  <2> SUFFICES ASSUME Init, NEW a \in Accounts PROVE Ahead(Effects(a), Cursor(a), switch[a])
    BY DEF Abreast
  <2>1. Replay(a)!Init
    BY ReplayInit
  <2>2. Cursor(a) = 0 /\ Len(Effects(a)) = 0 /\ switch[a] = "active"
    BY <2>1 DEF Replay!Init
  <2>3. 0 \in 0..0 /\ Outcome(Effects(a), "active", 0)
    BY DEF Outcome
  <2> QED
    BY <2>2, <2>3 DEF Ahead
<1>2. Inv /\ Abreast /\ [Next]_vars => Abreast'
  BY AbreastStep
<1>3. Inv /\ Abreast => NewestDecides
  <2> SUFFICES ASSUME Inv, Abreast, pc \in {"head", "wait"}, Taken = Len(inbox), NEW a \in Accounts
               PROVE  Replay(a)!IsOutcome(switch[a], Len(inbox))
    BY DEF NewestDecides
  <2>1. Cursor(a) = Len(inbox)
    BY DEF Inv, TodoOK, Cursor, ToSet
  <2>2. Len(Effects(a)) = Len(inbox) /\ Len(inbox) \in Nat
    BY ViewTypes
  <2>3. PICK n \in Cursor(a)..Len(Effects(a)) : Outcome(Effects(a), switch[a], n)
    BY DEF Abreast, Ahead
  <2>4. n = Len(inbox)
    BY <2>1, <2>2, <2>3
  <2> QED
    BY <2>3, <2>4 DEF Outcome, Replay!IsOutcome
<1> QED
  BY <1>1, <1>2, <1>3, Inductive, PTL DEF Spec

===============================================================================
