--------------------------- MODULE ControlProofs ----------------------------
(***************************************************************************)
(* Control, proved for every number of workers, every YAML file, every     *)
(* queue size and however far the workers count.                           *)
(***************************************************************************)
EXTENDS Control, TLAPS

-----------------------------------------------------------------------------
(* The inductive invariant.                                                *)

\* No other entry of the file names the core of worker w.
Alone(w) == \A v \in Thread : coreOf[v] = coreOf[w] => v = w

\* The responses in pending_stats about the core of worker w.
PendingOf(w) == {k \in DOMAIN pending : pending[k].core = coreOf[w]}

\* Responses are of the worker whose queue they are in, and pending_stats is
\* filled and emptied once a round.
Rounds ==
  /\ \A w \in Thread : \A i \in DOMAIN responses[w] : responses[w][i].core = coreOf[w]
  /\ \A k \in DOMAIN pending : \E w \in Thread : pending[k].core = coreOf[w]
  /\ cpc = "collect" => Len(pending) < cpos /\ (setBack \/ fresh = {})
  /\ cpc \notin {"collect", "print", "panicked"} => pending = <<>>

\* On the way from the map to worker w, through pending_stats and its
\* response queue, counters do not go down.
CountsGoUp(w) ==
  LET Before(n) ==
        /\ n <= count[w]
        /\ \A i \in DOMAIN responses[w] : n <= responses[w][i].count
  IN  /\ coreOf[w] \in DOMAIN seen =>
           /\ Before(seen[coreOf[w]])
           /\ \A k \in PendingOf(w) : seen[coreOf[w]] <= pending[k].count
      /\ \A k \in PendingOf(w) : Before(pending[k].count)
      /\ \A i, j \in DOMAIN responses[w] :
           i <= j => responses[w][i].count <= responses[w][j].count
      /\ \A i \in DOMAIN responses[w] : responses[w][i].count <= count[w]

\* Worker w is heard of at most once a round, and the map's entry is then from
\* an earlier one.
OncePerRound(w) ==
  /\ \A k, l \in PendingOf(w) : k = l
  /\ cpc = "collect" /\ w >= cpos => PendingOf(w) = {}
  /\ cpc = "print" /\ ~setBack /\ PendingOf(w) # {} => coreOf[w] \notin fresh

\* The inductive invariant.
ControlInv ==
  /\ ControlTypeOK /\ Rounds /\ PanicsExplained
  /\ \A w \in Thread : Alone(w) => CountsGoUp(w) /\ OncePerRound(w)

-----------------------------------------------------------------------------
(* Queues.                                                                 *)

\* Pushing adds at the end, or not at all.
LEMMA Push ==
  ASSUME NEW S, NEW s \in Seq(S), NEW e \in S, Len(s) <= QueueSize
  PROVE  /\ Pushed(s, e) \in Seq(S) /\ Len(Pushed(s, e)) <= QueueSize
         /\ \A i \in DOMAIN Pushed(s, e) :
              \/ i \in DOMAIN s /\ Pushed(s, e)[i] = s[i]
              \/ Pushed(s, e)[i] = e /\ \A j \in DOMAIN Pushed(s, e) : j <= i
<1>1. CASE Len(s) < QueueSize
  <2>1. Append(s, e) \in Seq(S) /\ Len(Append(s, e)) = Len(s) + 1
    OBVIOUS
  <2>2. \A i \in 1 .. Len(s) : Append(s, e)[i] = s[i]
    OBVIOUS
  <2>3. Append(s, e)[Len(s) + 1] = e
    OBVIOUS
  <2>4. DOMAIN s = 1 .. Len(s) /\ DOMAIN Append(s, e) = 1 .. Len(s) + 1 /\ Len(s) \in Nat
    BY <2>1
  <2> QED BY <1>1, <2>1, <2>2, <2>3, <2>4, ControlAssumption DEF Pushed
<1>2. CASE ~(Len(s) < QueueSize)
  BY <1>2 DEF Pushed
<1> QED BY <1>1, <1>2

\* What is left when the first element is taken.
LEMMA Rest ==
  ASSUME NEW S, NEW s \in Seq(S), s # <<>>
  PROVE  /\ Len(s) \in Nat /\ Len(s) >= 1 /\ 1 \in DOMAIN s
         /\ Head(s) = s[1] /\ Head(s) \in S
         /\ Tail(s) \in Seq(S) /\ Len(Tail(s)) = Len(s) - 1
         /\ Tail(s) = SubSeq(s, 2, Len(s))
         /\ \A i \in DOMAIN Tail(s) : i + 1 \in DOMAIN s /\ Tail(s)[i] = s[i + 1] /\ i \in Nat /\ i >= 1
<1>1. Len(s) \in Nat /\ Len(s) >= 1 /\ DOMAIN s = 1 .. Len(s)
  OBVIOUS
<1>2. Tail(s) \in Seq(S) /\ Len(Tail(s)) = Len(s) - 1 /\ DOMAIN Tail(s) = 1 .. Len(s) - 1
  BY <1>1
<1>3. Tail(s) = SubSeq(s, 2, Len(s))
  BY <1>1
<1>4. \A i \in 1 .. Len(s) - 1 : Tail(s)[i] = s[i + 1]
  BY <1>1
<1>5. Head(s) = s[1] /\ Head(s) \in S
  BY <1>1
<1> QED BY <1>1, <1>2, <1>3, <1>4, <1>5

\* Adding one element to pending_stats.
LEMMA Add ==
  ASSUME NEW S, NEW s \in Seq(S), NEW e \in S
  PROVE  /\ s \o <<e>> \in Seq(S) /\ Len(s \o <<e>>) = Len(s) + 1
         /\ \A i \in DOMAIN (s \o <<e>>) :
              \/ i \in DOMAIN s /\ (s \o <<e>>)[i] = s[i]
              \/ i = Len(s) + 1 /\ (s \o <<e>>)[i] = e
<1>1. s \o <<e>> = Append(s, e)
  OBVIOUS
<1>2. Append(s, e) \in Seq(S) /\ Len(Append(s, e)) = Len(s) + 1
  OBVIOUS
<1>3. \A i \in 1 .. Len(s) : Append(s, e)[i] = s[i]
  OBVIOUS
<1>4. Append(s, e)[Len(s) + 1] = e
  OBVIOUS
<1>5. DOMAIN s = 1 .. Len(s) /\ DOMAIN Append(s, e) = 1 .. Len(s) + 1 /\ Len(s) \in Nat
  BY <1>2
<1> QED BY <1>1, <1>2, <1>3, <1>4, <1>5

LEMMA QueueType == QueueSize \in Nat /\ QueueSize >= 1
BY ControlAssumption

LEMMA ThreadType == 1 \in Thread /\ N \in Nat /\ \A w \in Thread : w \in Nat /\ w <= N
BY ControlAssumption DEF Thread

-----------------------------------------------------------------------------
(* The steps that leave the way of the counters alone.                     *)

\* All that the invariant says but for types.
RoundsOK ==
  /\ Rounds /\ PanicsExplained
  /\ \A w \in Thread : Alone(w) => CountsGoUp(w) /\ OncePerRound(w)

LEMMA InvParts == (ControlInv <=> ControlTypeOK /\ RoundsOK) /\ (ControlInv' <=> ControlTypeOK' /\ RoundsOK')
BY DEF ControlInv, RoundsOK

\* Every counter, wherever it is, is a natural number.
LEMMA StatsType ==
  ASSUME NEW s \in Seq(Stats), NEW i \in DOMAIN s
  PROVE  s[i] \in Stats /\ s[i].count \in Nat /\ s[i].core \in Core
<1>1. s[i] \in Stats
  OBVIOUS
<1> QED BY <1>1 DEF Stats

LEMMA CountTypes ==
  ASSUME ControlInv
  PROVE  /\ \A c \in DOMAIN seen : seen[c] \in Nat
         /\ \A k \in DOMAIN pending : pending[k].count \in Nat
         /\ \A v \in Thread : \A i \in DOMAIN responses[v] : responses[v][i].count \in Nat
         /\ \A v \in Thread : count[v] \in Nat
<1>1. /\ pending \in Seq(Stats) /\ \A v \in Thread : responses[v] \in Seq(Stats)
      /\ \A c \in DOMAIN seen : seen[c] \in Nat
      /\ \A v \in Thread : count[v] \in Nat
  BY DEF ControlInv, ControlTypeOK
<1> QED BY <1>1, StatsType

\* Neither the controller nor what workers counted or answered changes.
LEMMA QuietKeeps ==
  ASSUME RoundsOK, UNCHANGED <<coreOf, responses, count, ctlVars>>
  PROVE  RoundsOK'
BY DEF RoundsOK, Rounds, PanicsExplained, Alone, CountsGoUp, OncePerRound, PendingOf, ctlVars

LEMMA PollKeeps ==
  ASSUME ControlInv, NEW w \in Thread, PollCommand(w) PROVE ControlInv'
<1>1. RoundsOK'
  BY QuietKeeps, InvParts DEF PollCommand
<1>2. CASE commands[w] = <<>>
  <2>1. ControlTypeOK'
    BY <1>2 DEF ControlInv, ControlTypeOK, PollCommand, ctlVars
  <2> QED BY <1>1, <2>1, InvParts
<1>3. CASE commands[w] # <<>>
  <2>1. commands[w] \in Seq(Command) /\ Len(commands[w]) <= QueueSize
    BY DEF ControlInv, ControlTypeOK
  <2>2. /\ commands' = [commands EXCEPT ![w] = Tail(commands[w])]
        /\ wpc' = [wpc EXCEPT ![w] = AfterCommand(Head(commands[w]))]
    BY <1>3 DEF PollCommand
  <2>3. Tail(commands[w]) \in Seq(Command) /\ Len(Tail(commands[w])) = Len(commands[w]) - 1
        /\ Len(commands[w]) \in Nat
    BY <1>3, <2>1, Rest
  <2>4. AfterCommand(Head(commands[w])) \in {"exited", "answer"}
    BY DEF AfterCommand
  <2>5. /\ commands' \in [Thread -> Seq(Command)]
        /\ \A v \in Thread : Len(commands'[v]) <= QueueSize
    <3>1. Len(Tail(commands[w])) <= QueueSize
      BY <2>1, <2>3, QueueType
    <3> QED BY <2>2, <2>3, <3>1 DEF ControlInv, ControlTypeOK
  <2>6. wpc' \in [Thread -> {"poll", "answer", "work", "exited", "panicked"}]
    BY <2>2, <2>4 DEF ControlInv, ControlTypeOK
  <2>7. ControlTypeOK'
    BY <2>5, <2>6 DEF ControlInv, ControlTypeOK, PollCommand, ctlVars
  <2> QED BY <1>1, <2>7, InvParts
<1> QED BY <1>2, <1>3

LEMMA WorkerPanicKeeps ==
  ASSUME ControlInv, NEW w \in Thread, WorkerPanic(w) PROVE ControlInv'
<1>1. RoundsOK'
  BY QuietKeeps, InvParts DEF WorkerPanic
<1>2. ControlTypeOK'
  BY DEF ControlInv, ControlTypeOK, WorkerPanic, ctlVars
<1> QED BY <1>1, <1>2, InvParts

LEMMA CtrlCKeeps == ASSUME ControlInv, CtrlC PROVE ControlInv'
<1>1. RoundsOK'
  BY QuietKeeps, InvParts DEF CtrlC, wkVars
<1>2. ControlTypeOK'
  BY DEF ControlInv, ControlTypeOK, CtrlC, ctlVars, wkVars
<1> QED BY <1>1, <1>2, InvParts

LEMMA JoinKeeps == ASSUME ControlInv, Join PROVE ControlInv'
<1>1. RoundsOK'
  BY QuietKeeps, InvParts DEF Join, wkVars
<1>2. ControlTypeOK'
  <2>1. joining' \in 0 .. N + 1
    <3>1. joining \in 0 .. N + 1 /\ joining <= N /\ joining' = joining + 1
      BY DEF ControlInv, ControlTypeOK, Join
    <3> QED BY <3>1, ThreadType
  <2> QED BY <2>1 DEF ControlInv, ControlTypeOK, Join, ctlVars, wkVars
<1> QED BY <1>1, <1>2, InvParts

LEMMA StutterKeeps == ASSUME ControlInv, UNCHANGED vars PROVE ControlInv'
<1>1. RoundsOK'
  BY QuietKeeps, InvParts DEF vars, wkVars
<1>2. ControlTypeOK'
  BY DEF ControlInv, ControlTypeOK, vars, ctlVars, wkVars
<1> QED BY <1>1, <1>2, InvParts

-----------------------------------------------------------------------------
(* The workers.                                                            *)

LEMMA AnswerKeeps ==
  ASSUME ControlInv, NEW w \in Thread, Answer(w) PROVE ControlInv'
<1> DEFINE m == [core |-> coreOf[w], count |-> count[w]]
           old == responses[w]
           new == Pushed(old, m)
<1>1. old \in Seq(Stats) /\ Len(old) <= QueueSize
  BY DEF ControlInv, ControlTypeOK
<1>2. m \in Stats
  BY ControlAssumption DEF ControlInv, ControlTypeOK, Stats
<1>3. /\ new \in Seq(Stats) /\ Len(new) <= QueueSize
      /\ \A i \in DOMAIN new :
           \/ i \in DOMAIN old /\ new[i] = old[i]
           \/ new[i] = m /\ \A j \in DOMAIN new : j <= i
  BY <1>1, <1>2, Push
<1>4. /\ responses' = [responses EXCEPT ![w] = new]
      /\ wpc' = [wpc EXCEPT ![w] = "work"]
      /\ UNCHANGED <<coreOf, commands, count, ctlVars, exit, joining>>
  BY DEF Answer, Answered
<1> HIDE DEF new, old
<1>5. responses'[w] = new /\ \A v \in Thread \ {w} : responses'[v] = responses[v]
  BY <1>4 DEF ControlInv, ControlTypeOK
<1>6. ControlTypeOK'
  <2>1. /\ responses' \in [Thread -> Seq(Stats)]
        /\ \A v \in Thread : Len(responses'[v]) <= QueueSize
    BY <1>3, <1>4, <1>5 DEF ControlInv, ControlTypeOK
  <2> QED BY <1>4, <2>1 DEF ControlInv, ControlTypeOK, ctlVars
<1>7. Rounds'
  <2>1. \A v \in Thread : \A i \in DOMAIN (responses'[v]) : responses'[v][i].core = coreOf[v]
    <3> SUFFICES ASSUME NEW v \in Thread, NEW i \in DOMAIN (responses'[v])
                 PROVE  responses'[v][i].core = coreOf[v]
      OBVIOUS
    <3>1. CASE v = w
      BY <1>3, <1>5, <3>1 DEF old, ControlInv, Rounds
    <3>2. CASE v # w
      BY <1>5, <3>2 DEF ControlInv, Rounds
    <3> QED BY <3>1, <3>2
  <2> QED BY <1>4, <2>1 DEF ControlInv, Rounds, ctlVars
<1>8. PanicsExplained'
  BY <1>4 DEF ControlInv, PanicsExplained, ctlVars
<1>9. ASSUME NEW v \in Thread, Alone(v)' PROVE CountsGoUp(v)' /\ OncePerRound(v)'
  <2>1. CountsGoUp(v) /\ OncePerRound(v)
    BY <1>4, <1>9 DEF ControlInv, Alone
  <2>2. OncePerRound(v)'
    BY <1>4, <2>1 DEF OncePerRound, PendingOf, ctlVars
  <2>3. CASE v # w
    BY <1>4, <1>5, <2>1, <2>2, <2>3 DEF CountsGoUp, PendingOf, ctlVars
  <2>4. CASE v = w
    <3>1. /\ count[w] \in Nat
          /\ \A i \in DOMAIN new : new[i].count = count[w] \/ (i \in DOMAIN old /\ new[i] = old[i])
      <4>1. count[w] \in Nat /\ m.count = count[w]
        BY DEF ControlInv, ControlTypeOK
      <4> QED BY <1>3, <4>1
    <3>2. ASSUME NEW n, n <= count[w], \A i \in DOMAIN old : n <= old[i].count
          PROVE  \A i \in DOMAIN new : n <= new[i].count
      BY <3>1, <3>2
    <3>3. \A i \in DOMAIN old : old[i].count <= count[w]
      BY <2>1, <2>4 DEF CountsGoUp, old
    <3>4. \A i \in DOMAIN new : new[i].count <= count[w]
      BY <3>1, <3>3
    <3>5. ASSUME NEW i \in DOMAIN new, NEW j \in DOMAIN new, i <= j
          PROVE  new[i].count <= new[j].count
      <4>1. CASE new[j] = m
        BY <3>4, <4>1
      <4>2. CASE new[j] # m
        <5>1. j \in DOMAIN old /\ new[j] = old[j]
          BY <1>3, <4>2
        <5>2. i \in DOMAIN old /\ new[i] = old[i]
          <6>1. i \in Int /\ j \in Int
            BY <1>3
          <6>2. CASE \A k \in DOMAIN new : k <= i
            BY <3>5, <4>2, <5>1, <6>1, <6>2, <1>3
          <6> QED BY <1>3, <6>2
        <5> QED BY <2>1, <2>4, <3>5, <5>1, <5>2 DEF CountsGoUp, old
      <4> QED BY <4>1, <4>2
    <3>6. PendingOf(v)' = PendingOf(v)
      BY <1>4 DEF PendingOf, ctlVars
    <3>7. CountsGoUp(v)'
      BY <1>4, <1>5, <2>1, <2>4, <3>2, <3>4, <3>5, <3>6 DEF CountsGoUp, old, ctlVars
    <3> QED BY <2>2, <3>7
  <2> QED BY <2>3, <2>4
<1> QED BY <1>6, <1>7, <1>8, <1>9 DEF ControlInv

LEMMA WorkKeeps ==
  ASSUME ControlInv, NEW w \in Thread, Work(w) PROVE ControlInv'
<1>1. PICK n \in 0 .. 1 : count[w] + n <= MaxCount[w] /\ count' = [count EXCEPT ![w] = @ + n]
  BY DEF Work
<1>2. /\ wpc' = [wpc EXCEPT ![w] = "poll"]
      /\ UNCHANGED <<coreOf, commands, responses, ctlVars, exit, joining>>
  BY DEF Work
<1>3. count \in [Thread -> Nat] /\ \A v \in Thread : count[v] <= MaxCount[v]
  BY DEF ControlInv, ControlTypeOK
<1>4. /\ count' \in [Thread -> Nat] /\ \A v \in Thread : count'[v] <= MaxCount[v]
      /\ \A v \in Thread : count[v] <= count'[v]
  BY <1>1, <1>3
<1>5. ControlTypeOK'
  BY <1>2, <1>4 DEF ControlInv, ControlTypeOK, ctlVars
<1>6. Rounds' /\ PanicsExplained'
  BY <1>2 DEF ControlInv, Rounds, PanicsExplained, ctlVars
<1>7. ASSUME NEW v \in Thread, Alone(v)' PROVE CountsGoUp(v)' /\ OncePerRound(v)'
  <2>1. CountsGoUp(v) /\ OncePerRound(v)
    BY <1>2, <1>7 DEF ControlInv, Alone
  <2>2. OncePerRound(v)'
    BY <1>2, <2>1 DEF OncePerRound, PendingOf, ctlVars
  <2>3. PendingOf(v)' = PendingOf(v)
    BY <1>2 DEF PendingOf, ctlVars
  <2>4. /\ \A c \in DOMAIN seen : seen[c] \in Nat
        /\ \A k \in DOMAIN pending : pending[k].count \in Nat
        /\ \A i \in DOMAIN responses[v] : responses[v][i].count \in Nat
        /\ count[v] \in Nat /\ count'[v] \in Nat
    BY <1>3, <1>4, CountTypes
  <2>5. ASSUME NEW x \in Nat, x <= count[v] PROVE x <= count'[v]
    BY <1>4, <2>4, <2>5
  <2>6. CountsGoUp(v)'
    BY <1>2, <2>1, <2>3, <2>4, <2>5 DEF CountsGoUp, PendingOf, ctlVars
  <2> QED BY <2>2, <2>6
<1> QED BY <1>5, <1>6, <1>7 DEF ControlInv

-----------------------------------------------------------------------------
(* The controller, while pending_stats is empty.                           *)

LEMMA IdleKeeps ==
  ASSUME RoundsOK, pending = <<>>, UNCHANGED <<coreOf, responses, count, pending>>,
         seen' = seen \/ DOMAIN seen' = {}, cpc' # "panicked",
         cpc' = "collect" => cpos' = 1 /\ (setBack' \/ fresh' = {})
  PROVE  RoundsOK'
<1>1. /\ Len(pending) = 0 /\ DOMAIN pending = {}
      /\ \A w \in Thread : PendingOf(w) = {} /\ PendingOf(w)' = {}
  BY DEF PendingOf
<1>2. Rounds'
  BY <1>1 DEF RoundsOK, Rounds
<1>3. PanicsExplained'
  BY DEF PanicsExplained
<1>4. ASSUME NEW w \in Thread, Alone(w)' PROVE CountsGoUp(w)' /\ OncePerRound(w)'
  <2>1. CountsGoUp(w)
    BY <1>4 DEF RoundsOK, Alone
  <2>2. CountsGoUp(w)'
    BY <1>1, <2>1 DEF CountsGoUp
  <2>3. OncePerRound(w)'
    BY <1>1 DEF OncePerRound
  <2> QED BY <2>2, <2>3
<1> QED BY <1>2, <1>3, <1>4 DEF RoundsOK

\* pending_stats is empty outside of a round.
LEMMA NothingPending ==
  ASSUME ControlInv, cpc \notin {"collect", "print", "panicked"} PROVE pending = <<>>
BY DEF ControlInv, Rounds

\* The next worker, if there is one.
LEMMA AdvanceType ==
  ASSUME ControlInv, NEW then, Advance(then)
  PROVE  cpos' \in Thread /\ cpc' \in {cpc, then}
<1>1. cpos \in Thread
  BY DEF ControlInv, ControlTypeOK
<1> QED BY <1>1, ThreadType DEF Advance, Thread

LEMMA SleepKeeps == ASSUME ControlInv, Sleep PROVE ControlInv'
<1>1. pending = <<>> /\ (setBack \/ fresh' = {})
  BY NothingPending DEF Sleep
<1>2. RoundsOK'
  BY <1>1, IdleKeeps, InvParts DEF Sleep, wkVars
<1>3. ControlTypeOK'
  BY ThreadType DEF ControlInv, ControlTypeOK, Sleep, wkVars
<1> QED BY <1>2, <1>3, InvParts

LEMMA PrintedKeeps == ASSUME ControlInv, Printed PROVE ControlInv'
<1>1. cpc' \in {"tell exit", "ask"}
  BY DEF Printed
<1>2. RoundsOK'
  BY <1>1, IdleKeeps, InvParts DEF Printed, wkVars
<1>3. ControlTypeOK'
  BY <1>1 DEF ControlInv, ControlTypeOK, Printed, wkVars
<1> QED BY <1>2, <1>3, InvParts

\* A command is pushed, or refused.
LEMMA PushCommand ==
  ASSUME ControlInv, NEW c \in Command,
         commands' = [commands EXCEPT ![cpos] = Pushed(@, c)]
  PROVE  /\ commands' \in [Thread -> Seq(Command)]
         /\ \A w \in Thread : Len(commands'[w]) <= QueueSize
<1>1. /\ cpos \in Thread /\ commands \in [Thread -> Seq(Command)]
      /\ \A w \in Thread : Len(commands[w]) <= QueueSize
  BY DEF ControlInv, ControlTypeOK
<1>2. Pushed(commands[cpos], c) \in Seq(Command) /\ Len(Pushed(commands[cpos], c)) <= QueueSize
  BY <1>1, Push
<1> QED BY <1>1, <1>2

LEMMA AskKeeps == ASSUME ControlInv, Ask PROVE ControlInv'
<1>1. pending = <<>> /\ cpc = "ask"
  BY NothingPending DEF Ask
<1>2. cpos' \in Thread /\ cpc' \in {"ask", "sleep"}
  BY <1>1, AdvanceType DEF Ask
<1>3. RoundsOK'
  BY <1>1, <1>2, IdleKeeps, InvParts DEF Ask, wkVars
<1>4. /\ commands' \in [Thread -> Seq(Command)]
      /\ \A w \in Thread : Len(commands'[w]) <= QueueSize
  BY PushCommand DEF Ask, Command
<1>5. ControlTypeOK'
  BY <1>2, <1>4 DEF ControlInv, ControlTypeOK, Ask, wkVars
<1> QED BY <1>3, <1>5, InvParts

LEMMA TellExitKeeps == ASSUME ControlInv, TellExit PROVE ControlInv'
<1>1. pending = <<>> /\ cpc = "tell exit"
  BY NothingPending DEF TellExit
<1>2. cpos' \in Thread /\ cpc' \in {"tell exit", "done"}
  BY <1>1, AdvanceType DEF TellExit
<1>3. (seen' = seen /\ fresh' = fresh) \/ (DOMAIN seen' = {} /\ fresh' = {})
  BY DEF TellExit, MapDropped, NoStats
<1>4. RoundsOK'
  BY <1>1, <1>2, <1>3, IdleKeeps, InvParts DEF TellExit, wkVars
<1>5. /\ commands' \in [Thread -> Seq(Command)]
      /\ \A w \in Thread : Len(commands'[w]) <= QueueSize
  BY PushCommand DEF TellExit, Command
<1>6. /\ DOMAIN seen' \subseteq Core /\ \A c \in DOMAIN seen' : seen'[c] \in Nat
      /\ fresh' \subseteq Core
  BY <1>3 DEF ControlInv, ControlTypeOK
<1>7. ControlTypeOK'
  BY <1>2, <1>5, <1>6 DEF ControlInv, ControlTypeOK, TellExit, wkVars
<1> QED BY <1>4, <1>7, InvParts

-----------------------------------------------------------------------------
(* The clock.                                                              *)

\* After it was set back any panic is explained.
LEMMA ClockKeeps == ASSUME ControlInv, ClockSetBack PROVE ControlInv'
<1>1. /\ setBack' = TRUE /\ fresh' = DOMAIN seen
      /\ UNCHANGED <<coreOf, commands, responses, wkVars, cpc, cpos, pending, seen,
                     exit, joining>>
  BY DEF ClockSetBack
<1>2. ControlTypeOK'
  BY <1>1 DEF ControlInv, ControlTypeOK, wkVars
<1>3. Rounds' /\ PanicsExplained'
  BY <1>1 DEF ControlInv, Rounds, PanicsExplained
<1>4. ASSUME NEW w \in Thread, Alone(w)' PROVE CountsGoUp(w)' /\ OncePerRound(w)'
  BY <1>1, <1>4 DEF ControlInv, Alone, CountsGoUp, OncePerRound, PendingOf, wkVars
<1> QED BY <1>2, <1>3, <1>4 DEF ControlInv

-----------------------------------------------------------------------------
(* A round: the oldest response of each worker, then the rows.             *)

\* Where the next worker is asked, or the round is over.
LEMMA CollectAdvances ==
  ASSUME ControlInv, Collect
  PROVE  /\ cpos \in Thread /\ cpos' \in Thread /\ cpc = "collect"
         /\ (cpc' = "collect" /\ cpos' = cpos + 1) \/ (cpc' = "print" /\ cpos = N)
<1>1. cpos \in Thread /\ cpc = "collect" /\ Advance("print")
  BY DEF ControlInv, ControlTypeOK, Collect
<1> QED BY <1>1, ThreadType DEF Advance, Thread

LEMMA CollectMoves ==
  ASSUME Collect, NEW n, n = Len(Taken(responses[cpos]))
  PROVE  /\ pending' = pending \o Taken(responses[cpos])
         /\ responses' = [responses EXCEPT
              ![cpos] = SubSeq(responses[cpos], n + 1, Len(responses[cpos]))]
BY DEF Collect

\* The queue is empty: nothing changes but the position.
LEMMA CollectNothing ==
  ASSUME ControlInv, Collect, responses[cpos] = <<>> PROVE ControlInv'
<1> DEFINE w == cpos
<1>1. /\ w \in Thread /\ cpos' \in Thread /\ cpc = "collect"
      /\ (cpc' = "collect" /\ cpos' = w + 1) \/ (cpc' = "print" /\ w = N)
  BY CollectAdvances
<1>2. pending \in Seq(Stats) /\ responses \in [Thread -> Seq(Stats)]
  BY DEF ControlInv, ControlTypeOK
<1>3. pending' = pending /\ responses' = responses
  <2>1. Taken(responses[w]) = <<>>
    BY DEF Taken
  <2>2. pending' = pending \o <<>> /\ pending \o <<>> = pending
    BY <1>2, <2>1 DEF Collect
  <2>3. SubSeq(<<>>, 1, 0) = <<>> /\ Len(<<>>) = 0
    OBVIOUS
  <2>4. responses' = [responses EXCEPT ![w] = SubSeq(<<>>, 1, 0)]
    <3>1. Len(Taken(responses[w])) = 0 /\ 0 + 1 = 1 /\ Len(responses[w]) = 0
      BY <2>1, <2>3
    <3> QED BY <3>1, CollectMoves
  <2>5. responses' = responses
    BY <1>1, <1>2, <2>3, <2>4
  <2> QED BY <2>2, <2>5
<1>4. UNCHANGED <<coreOf, commands, wkVars, seen, fresh, setBack, exit, joining>>
  BY DEF Collect
<1>5. ControlTypeOK'
  BY <1>1, <1>3, <1>4 DEF ControlInv, ControlTypeOK, wkVars
<1>6. Rounds'
  <2>1. Len(pending) < cpos /\ (setBack \/ fresh = {}) /\ Len(pending) \in Nat /\ w \in Nat
    BY <1>1, <1>2, ThreadType DEF ControlInv, Rounds
  <2>2. cpc' = "collect" => Len(pending') < cpos' /\ (setBack' \/ fresh' = {})
    BY <1>1, <1>3, <1>4, <2>1
  <2> QED BY <1>1, <1>3, <1>4, <2>2 DEF ControlInv, Rounds
<1>7. PanicsExplained'
  BY <1>1 DEF PanicsExplained
<1>8. ASSUME NEW v \in Thread, Alone(v)' PROVE CountsGoUp(v)' /\ OncePerRound(v)'
  <2>1. CountsGoUp(v) /\ OncePerRound(v) /\ PendingOf(v)' = PendingOf(v)
    BY <1>3, <1>4, <1>8 DEF ControlInv, Alone, PendingOf
  <2>2. CountsGoUp(v)'
    BY <1>3, <1>4, <2>1 DEF CountsGoUp, wkVars
  <2>3. setBack \/ fresh = {}
    BY <1>1 DEF ControlInv, Rounds
  <2>4. v \in Nat /\ w \in Nat /\ (v >= w + 1 => v >= w)
    BY <1>1, ThreadType
  <2>5. OncePerRound(v)'
    BY <1>1, <1>4, <2>1, <2>3, <2>4 DEF OncePerRound
  <2> QED BY <2>2, <2>5
<1> QED BY <1>5, <1>6, <1>7, <1>8 DEF ControlInv

\* The oldest response goes to the end of pending_stats.
LEMMA CollectOne ==
  ASSUME ControlInv, Collect, responses[cpos] # <<>> PROVE ControlInv'
<1> DEFINE w == cpos
           old == responses[w]
           e == Head(old)
           rest == Tail(old)
<1>1. /\ w \in Thread /\ cpos' \in Thread /\ cpc = "collect"
      /\ (cpc' = "collect" /\ cpos' = w + 1) \/ (cpc' = "print" /\ w = N)
  BY CollectAdvances
<1>2. /\ pending \in Seq(Stats) /\ responses \in [Thread -> Seq(Stats)]
      /\ old \in Seq(Stats) /\ Len(old) <= QueueSize
  BY <1>1 DEF ControlInv, ControlTypeOK
<1>3. /\ Len(old) \in Nat /\ Len(old) >= 1 /\ 1 \in DOMAIN old
      /\ e = old[1] /\ e \in Stats
      /\ rest \in Seq(Stats) /\ Len(rest) = Len(old) - 1
      /\ rest = SubSeq(old, 2, Len(old))
      /\ \A i \in DOMAIN rest : i + 1 \in DOMAIN old /\ rest[i] = old[i + 1] /\ i \in Nat /\ i >= 1
  BY <1>2, Rest
<1>4. pending' = pending \o <<e>> /\ responses' = [responses EXCEPT ![w] = rest]
  <2>1. Taken(old) = <<e>> /\ Len(<<e>>) = 1
    BY DEF Taken
  <2>2. responses' = [responses EXCEPT ![w] = SubSeq(old, 1 + 1, Len(old))]
    BY <2>1, CollectMoves
  <2>3. pending' = pending \o Taken(old)
    BY CollectMoves
  <2>4. 1 + 1 = 2
    OBVIOUS
  <2> QED BY <1>3, <2>1, <2>2, <2>3, <2>4
<1>5. UNCHANGED <<coreOf, commands, wkVars, seen, fresh, setBack, exit, joining>>
  BY DEF Collect
<1>6. /\ pending' \in Seq(Stats) /\ Len(pending') = Len(pending) + 1
      /\ \A k \in DOMAIN pending' :
           \/ k \in DOMAIN pending /\ pending'[k] = pending[k]
           \/ k = Len(pending) + 1 /\ pending'[k] = e
  BY <1>2, <1>3, <1>4, Add
<1>7. responses'[w] = rest /\ \A v \in Thread \ {w} : responses'[v] = responses[v]
  BY <1>1, <1>2, <1>4
<1>8. e.core = coreOf[w]
  BY <1>1, <1>3 DEF ControlInv, Rounds
<1>9. Len(pending) < w /\ Len(pending) \in Nat /\ w \in Nat /\ w <= N /\ (setBack \/ fresh = {})
  BY <1>1, <1>2, ThreadType DEF ControlInv, Rounds
<1> HIDE DEF old, e, rest
<1>10. ControlTypeOK'
  <2>1. /\ responses' \in [Thread -> Seq(Stats)]
        /\ \A v \in Thread : Len(responses'[v]) <= QueueSize
    <3>1. Len(rest) <= QueueSize
      BY <1>2, <1>3, QueueType
    <3> QED BY <1>2, <1>3, <1>4, <1>7, <3>1 DEF ControlInv, ControlTypeOK
  <2>2. pending' \in Seq(Stats) /\ Len(pending') <= N
    BY <1>6, <1>9, ThreadType
  <2> QED BY <1>1, <1>5, <2>1, <2>2 DEF ControlInv, ControlTypeOK, wkVars
<1>11. Rounds'
  <2>1. \A v \in Thread : \A i \in DOMAIN (responses'[v]) : responses'[v][i].core = coreOf[v]
    <3> SUFFICES ASSUME NEW v \in Thread, NEW i \in DOMAIN (responses'[v])
                 PROVE  responses'[v][i].core = coreOf[v]
      OBVIOUS
    <3>1. CASE v = w
      <4>1. \A j \in DOMAIN old : old[j].core = coreOf[w]
        BY <1>1 DEF old, ControlInv, Rounds
      <4> QED BY <1>3, <1>7, <3>1, <4>1
    <3>2. CASE v # w
      BY <1>7, <3>2 DEF ControlInv, Rounds
    <3> QED BY <3>1, <3>2
  <2>2. \A k \in DOMAIN pending' : \E v \in Thread : pending'[k].core = coreOf[v]
    BY <1>1, <1>6, <1>8 DEF ControlInv, Rounds
  <2>3. cpc' = "collect" => Len(pending') < cpos'
    BY <1>1, <1>6, <1>9
  <2> QED BY <1>1, <1>5, <1>9, <2>1, <2>2, <2>3 DEF Rounds
<1>12. PanicsExplained'
  BY <1>1 DEF PanicsExplained
<1>13. ASSUME NEW v \in Thread, Alone(v)' PROVE CountsGoUp(v)' /\ OncePerRound(v)'
  <2>1. CountsGoUp(v) /\ OncePerRound(v) /\ (coreOf[w] = coreOf[v] => v = w) /\ v \in Nat
    BY <1>1, <1>5, <1>13, ThreadType DEF ControlInv, Alone
  <2>2. CASE v # w
    <3>1. /\ \A k \in PendingOf(v)' : k \in PendingOf(v) /\ pending'[k] = pending[k]
      BY <1>5, <1>6, <1>8, <2>1, <2>2 DEF PendingOf
    <3>2. CountsGoUp(v)'
      BY <1>5, <1>7, <2>1, <2>2, <3>1 DEF CountsGoUp, wkVars
    <3>3. OncePerRound(v)'
      <4>1. v >= cpos' /\ cpc' = "collect" => v >= w
        BY <1>1, <1>9, <2>1
      <4> QED BY <1>1, <1>5, <1>9, <2>1, <3>1, <4>1 DEF OncePerRound
    <3> QED BY <3>2, <3>3
  <2>3. CASE v = w
    <3>1. PendingOf(v) = {}
      BY <1>1, <1>9, <2>1, <2>3 DEF OncePerRound
    <3>2. \A k \in PendingOf(v)' : k = Len(pending) + 1 /\ pending'[k] = e
      BY <1>5, <1>6, <3>1 DEF PendingOf
    <3>3. \A i \in DOMAIN rest : i + 1 \in DOMAIN old /\ rest[i] = old[i + 1] /\ 1 <= i + 1
      BY <1>3
    <3>4. /\ \A i, j \in DOMAIN old : i <= j => old[i].count <= old[j].count
          /\ \A i \in DOMAIN old : old[i].count <= count[v]
          /\ coreOf[v] \in DOMAIN seen =>
               /\ seen[coreOf[v]] <= count[v]
               /\ \A i \in DOMAIN old : seen[coreOf[v]] <= old[i].count
      BY <2>1, <2>3 DEF CountsGoUp, old
    <3>5. \A i \in DOMAIN rest : e.count <= rest[i].count /\ rest[i].count <= count[v]
      BY <1>3, <3>3, <3>4
    <3>6. ASSUME NEW i \in DOMAIN rest, NEW j \in DOMAIN rest, i <= j
          PROVE  rest[i].count <= rest[j].count
      <4>1. i + 1 <= j + 1 /\ i + 1 \in DOMAIN old /\ j + 1 \in DOMAIN old
        BY <1>3, <3>6
      <4> QED BY <1>3, <3>4, <4>1
    <3>7. e.count <= count[v]
      BY <1>3, <3>4
    <3>8. coreOf[v] \in DOMAIN seen =>
            seen[coreOf[v]] <= e.count /\ \A i \in DOMAIN rest : seen[coreOf[v]] <= rest[i].count
      BY <1>3, <3>3, <3>4
    <3>9. CountsGoUp(v)'
      BY <1>5, <1>7, <2>3, <3>2, <3>4, <3>5, <3>6, <3>7, <3>8 DEF CountsGoUp, wkVars
    <3>10. OncePerRound(v)'
      <4>1. ~(cpc' = "collect" /\ v >= cpos')
        BY <1>1, <1>9, <2>1, <2>3
      <4> QED BY <1>5, <1>9, <3>2, <4>1 DEF OncePerRound
    <3> QED BY <3>9, <3>10
  <2> QED BY <2>2, <2>3
<1> QED BY <1>10, <1>11, <1>12, <1>13 DEF ControlInv

LEMMA CollectKeeps == ASSUME ControlInv, Collect PROVE ControlInv'
BY CollectNothing, CollectOne

\* The two ways PrintNext can go.
DiffFails(m) ==
  /\ m.core \in DOMAIN seen /\ (DiffPanics(m) \/ DiffMayPanic(m))
  /\ cpc' = "panicked" /\ seen' = NoStats /\ fresh' = {}
  /\ UNCHANGED pending

RowPrinted(m) ==
  /\ seen' = [c \in DOMAIN seen \cup {m.core} |-> IF c = m.core THEN m.count ELSE seen[c]]
  /\ fresh' = fresh \cup {m.core}
  /\ pending' = Tail(pending)
  /\ UNCHANGED cpc

LEMMA PrintNextCases ==
  ASSUME PrintNext
  PROVE  /\ cpc = "print" /\ pending # <<>>
         /\ DiffFails(Head(pending)) \/ RowPrinted(Head(pending))
         /\ UNCHANGED <<coreOf, commands, responses, wkVars, cpos, setBack, exit, joining>>
BY DEF PrintNext, DiffFails, RowPrinted, MapDropped

\* The first row is of a worker; of one alone on its core it follows the
\* map's entry, which is of an earlier round.
LEMMA FirstRow ==
  ASSUME ControlInv, cpc = "print", pending # <<>>
  PROVE  /\ Head(pending) = pending[1] /\ 1 \in DOMAIN pending /\ Head(pending) \in Stats
         /\ \E v \in Thread : Head(pending).core = coreOf[v]
         /\ \A v \in Thread : Head(pending).core = coreOf[v] =>
              /\ 1 \in PendingOf(v)
              /\ Alone(v) /\ ~setBack => ~DiffMayPanic(Head(pending))
              /\ Alone(v) /\ coreOf[v] \in DOMAIN seen => ~DiffPanics(Head(pending))
<1>1. pending \in Seq(Stats)
  BY DEF ControlInv, ControlTypeOK
<1>2. Head(pending) = pending[1] /\ 1 \in DOMAIN pending /\ Head(pending) \in Stats
  BY <1>1, Rest
<1>3. \E v \in Thread : Head(pending).core = coreOf[v]
  BY <1>2 DEF ControlInv, Rounds
<1>4. ASSUME NEW v \in Thread, Head(pending).core = coreOf[v]
      PROVE  /\ 1 \in PendingOf(v)
             /\ Alone(v) /\ ~setBack => ~DiffMayPanic(Head(pending))
             /\ Alone(v) /\ coreOf[v] \in DOMAIN seen => ~DiffPanics(Head(pending))
  <2>1. 1 \in PendingOf(v)
    BY <1>2, <1>4 DEF PendingOf
  <2>2. ASSUME Alone(v), ~setBack PROVE ~DiffMayPanic(Head(pending))
    BY <1>4, <2>1, <2>2 DEF ControlInv, OncePerRound, DiffMayPanic
  <2>3. ASSUME Alone(v), coreOf[v] \in DOMAIN seen PROVE ~DiffPanics(Head(pending))
    <3>1. seen[coreOf[v]] <= pending[1].count
      BY <2>1, <2>3 DEF ControlInv, CountsGoUp
    <3>2. seen[coreOf[v]] \in Nat /\ pending[1].count \in Nat
      BY <1>2, <2>3, CountTypes
    <3> QED BY <1>2, <1>4, <3>1, <3>2 DEF DiffPanics
  <2> QED BY <2>1, <2>2, <2>3
<1> QED BY <1>2, <1>3, <1>4

LEMMA DiffFailsKeeps ==
  ASSUME ControlInv, PrintNext, DiffFails(Head(pending)) PROVE ControlInv'
<1> DEFINE m == Head(pending)
<1>1. /\ cpc = "print" /\ pending # <<>>
      /\ UNCHANGED <<coreOf, commands, responses, wkVars, cpos, setBack, exit, joining>>
  BY PrintNextCases
<1>2. /\ m.core \in DOMAIN seen /\ (DiffPanics(m) \/ DiffMayPanic(m))
      /\ cpc' = "panicked" /\ DOMAIN seen' = {} /\ fresh' = {} /\ pending' = pending
  BY DEF DiffFails, NoStats
<1>3. ControlTypeOK'
  BY <1>1, <1>2 DEF ControlInv, ControlTypeOK, wkVars
<1>4. Rounds'
  BY <1>1, <1>2 DEF ControlInv, Rounds
<1>5. PanicsExplained'
  <2> SUFFICES ASSUME ~setBack
               PROVE  \E v, w \in Thread : v # w /\ coreOf[v] = m.core /\ coreOf[w] = m.core
    BY <1>1, <1>2 DEF PanicsExplained
  <2>1. PICK v \in Thread : m.core = coreOf[v]
    BY <1>1, FirstRow
  <2>2. ~Alone(v)
    BY <1>1, <1>2, <2>1, FirstRow
  <2> QED BY <2>1, <2>2 DEF Alone
<1>6. ASSUME NEW v \in Thread, Alone(v)' PROVE CountsGoUp(v)' /\ OncePerRound(v)'
  <2>1. CountsGoUp(v) /\ OncePerRound(v) /\ PendingOf(v)' = PendingOf(v)
    BY <1>1, <1>2, <1>6 DEF ControlInv, Alone, PendingOf
  <2>2. CountsGoUp(v)'
    BY <1>1, <1>2, <2>1 DEF CountsGoUp, wkVars
  <2>3. OncePerRound(v)'
    BY <1>2, <2>1 DEF OncePerRound
  <2> QED BY <2>2, <2>3
<1> QED BY <1>3, <1>4, <1>5, <1>6 DEF ControlInv

LEMMA RowPrintedKeeps ==
  ASSUME ControlInv, PrintNext, RowPrinted(Head(pending)) PROVE ControlInv'
<1> DEFINE m == Head(pending)
<1>1. /\ cpc = "print" /\ cpc' = "print" /\ pending # <<>>
      /\ UNCHANGED <<coreOf, commands, responses, wkVars, cpos, setBack, exit, joining>>
  BY PrintNextCases DEF RowPrinted
<1>2. /\ DOMAIN seen' = DOMAIN seen \cup {m.core} /\ seen'[m.core] = m.count
      /\ \A c \in DOMAIN seen \ {m.core} : seen'[c] = seen[c]
      /\ fresh' = fresh \cup {m.core} /\ pending' = Tail(pending)
  BY DEF RowPrinted
<1>3. /\ m = pending[1] /\ m \in Stats /\ m.core \in Core /\ m.count \in Nat
  BY <1>1, FirstRow DEF Stats
<1>4. pending \in Seq(Stats) /\ Len(pending) <= N
  BY DEF ControlInv, ControlTypeOK
<1>5. /\ pending' \in Seq(Stats) /\ Len(pending') = Len(pending) - 1 /\ Len(pending) \in Nat
      /\ \A k \in DOMAIN pending' :
           /\ k + 1 \in DOMAIN pending /\ pending'[k] = pending[k + 1] /\ k \in Nat /\ k >= 1
  BY <1>1, <1>2, <1>4, Rest
<1> HIDE DEF m
<1>6. ControlTypeOK'
  <2>1. Len(pending') <= N
    BY <1>4, <1>5, ThreadType
  <2>2. /\ DOMAIN seen' \subseteq Core /\ \A c \in DOMAIN seen' : seen'[c] \in Nat
        /\ fresh' \subseteq Core
    BY <1>2, <1>3 DEF ControlInv, ControlTypeOK
  <2> QED BY <1>1, <1>5, <2>1, <2>2 DEF ControlInv, ControlTypeOK, wkVars
<1>7. Rounds' /\ PanicsExplained'
  <2>1. \A k \in DOMAIN pending' : \E v \in Thread : pending'[k].core = coreOf[v]
    BY <1>5 DEF ControlInv, Rounds
  <2> QED BY <1>1, <2>1 DEF ControlInv, Rounds, PanicsExplained
<1>8. ASSUME NEW v \in Thread, Alone(v)' PROVE CountsGoUp(v)' /\ OncePerRound(v)'
  <2>1. CountsGoUp(v) /\ OncePerRound(v)
    BY <1>1, <1>8 DEF ControlInv, Alone
  <2>2. \A k \in PendingOf(v)' : k + 1 \in PendingOf(v) /\ pending'[k] = pending[k + 1] /\ k \in Nat /\ k >= 1
    BY <1>1, <1>5 DEF PendingOf
  <2>3. CASE coreOf[v] = m.core
    <3>1. 1 \in PendingOf(v) /\ pending[1] = m
      BY <1>1, <1>3, <2>3, FirstRow DEF m
    <3>2. PendingOf(v)' = {}
      <4> SUFFICES ASSUME NEW k \in PendingOf(v)' PROVE FALSE
        OBVIOUS
      <4>1. k + 1 = 1 /\ k \in Nat /\ k >= 1
        BY <2>1, <2>2, <3>1 DEF OncePerRound
      <4> QED BY <4>1
    <3>3. m.count <= count[v] /\ \A i \in DOMAIN responses[v] : m.count <= responses[v][i].count
      BY <2>1, <3>1 DEF CountsGoUp
    <3>4. CountsGoUp(v)'
      BY <1>1, <1>2, <2>1, <2>3, <3>2, <3>3 DEF CountsGoUp, wkVars
    <3>5. OncePerRound(v)'
      BY <3>2 DEF OncePerRound
    <3> QED BY <3>4, <3>5
  <2>4. CASE coreOf[v] # m.core
    <3>1. coreOf[v] \in DOMAIN seen' => coreOf[v] \in DOMAIN seen /\ seen'[coreOf[v]] = seen[coreOf[v]]
      BY <1>2, <2>4
    <3>2. CountsGoUp(v)'
      BY <1>1, <2>1, <2>2, <3>1 DEF CountsGoUp, wkVars
    <3>3. \A k, l \in PendingOf(v)' : k = l
      <4> SUFFICES ASSUME NEW k \in PendingOf(v)', NEW l \in PendingOf(v)' PROVE k = l
        OBVIOUS
      <4>1. k + 1 = l + 1 /\ k \in Nat /\ l \in Nat
        BY <2>1, <2>2 DEF OncePerRound
      <4> QED BY <4>1
    <3>4. OncePerRound(v)'
      BY <1>1, <1>2, <2>1, <2>2, <2>4, <3>3 DEF OncePerRound
    <3> QED BY <3>2, <3>4
  <2> QED BY <2>3, <2>4
<1> QED BY <1>6, <1>7, <1>8 DEF ControlInv

-----------------------------------------------------------------------------
(* The invariant.                                                          *)

LEMMA ControlInit == Init => ControlInv
<1> SUFFICES ASSUME Init PROVE ControlInv
  OBVIOUS
<1>1. ControlTypeOK
  <2>1. <<>> \in Seq(Command) /\ <<>> \in Seq(Stats) /\ Len(<<>>) = 0
    OBVIOUS
  <2>2. /\ commands \in [Thread -> Seq(Command)] /\ responses \in [Thread -> Seq(Stats)]
        /\ \A w \in Thread : Len(commands[w]) <= QueueSize /\ Len(responses[w]) <= QueueSize
    BY <2>1, QueueType DEF Init
  <2>3. count \in [Thread -> Nat] /\ \A w \in Thread : count[w] <= MaxCount[w]
    BY ControlAssumption DEF Init
  <2>4. pending \in Seq(Stats) /\ Len(pending) <= N /\ joining \in 0 .. N + 1 /\ cpos \in Thread
    BY <2>1, ThreadType DEF Init
  <2>5. wpc \in [Thread -> {"poll", "answer", "work", "exited", "panicked"}]
    BY DEF Init
  <2> QED BY <2>2, <2>3, <2>4, <2>5 DEF Init, ControlTypeOK, NoStats
<1>2. DOMAIN <<>> = {}
  OBVIOUS
<1>3. Rounds /\ PanicsExplained
  BY <1>2 DEF Init, Rounds, PanicsExplained
<1>4. ASSUME NEW w \in Thread PROVE CountsGoUp(w) /\ OncePerRound(w)
  BY <1>2 DEF Init, CountsGoUp, OncePerRound, PendingOf, NoStats
<1> QED BY <1>1, <1>3, <1>4 DEF ControlInv

LEMMA ControlStep == ControlInv /\ [Next]_vars => ControlInv'
<1> SUFFICES ASSUME ControlInv, [Next]_vars PROVE ControlInv'
  OBVIOUS
<1>1. ASSUME NEW w \in Thread, WorkerStep(w) \/ WorkerPanic(w) PROVE ControlInv'
  BY <1>1, PollKeeps, AnswerKeeps, WorkKeeps, WorkerPanicKeeps DEF WorkerStep
<1>2. CASE PrintNext
  BY <1>2, PrintNextCases, DiffFailsKeeps, RowPrintedKeeps
<1>3. CASE ControllerStep
  BY <1>2, <1>3, SleepKeeps, CollectKeeps, PrintedKeeps, AskKeeps, TellExitKeeps DEF ControllerStep
<1>4. CASE ClockSetBack \/ CtrlC \/ Join
  BY <1>4, ClockKeeps, CtrlCKeeps, JoinKeeps
<1>5. CASE UNCHANGED vars
  BY <1>5, StutterKeeps
<1> QED BY <1>1, <1>3, <1>4, <1>5 DEF Next

\* Whatever is dropped at full queues and whichever thread is ahead, the
\* counters of a worker alone on its core reach the map in order, at most one
\* a round.
THEOREM ControlInvariant == Spec => []ControlInv
BY ControlInit, ControlStep, PTL DEF Spec

\* No queue between the controller and its workers holds more than its size,
\* and pending_stats at most one response of each worker.
THEOREM QueuesBounded == Spec => []ControlTypeOK
BY ControlInvariant, PTL DEF ControlInv

\* diff panics only when the clock was set back or two workers share a core.
THEOREM DiffPanicsExplained == Spec => []PanicsExplained
BY ControlInvariant, PTL DEF ControlInv
=============================================================================
