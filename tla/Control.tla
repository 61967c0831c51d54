------------------------------- MODULE Control -------------------------------
(***************************************************************************)
(* The threads of l2fwd-2link-multicore.rs and what they say to each       *)
(* other: do_controller asks every do_worker for its counters once a       *)
(* second and tells it to exit after CTRL-C, through two rtrb ring buffers *)
(* of two entries per worker; main joins them all.  rxdrop.rs has the same *)
(* threads and queues.                                                     *)
(*                                                                         *)
(* What a worker does to its links is one step here, Work (Worker models   *)
(* it); its four counters are one, of which only the order matters.        *)
(***************************************************************************)
EXTENDS Integers, Sequences, FiniteSets

CONSTANTS
  N,         \* number of workers, one for each entry of the YAML file
  Core,      \* CPU cores
  YamlFile,  \* the files considered: functions that give each entry its core
  QueueSize, \* capacity of the command and response queues
  MaxCount   \* MaxCount[w]: bound on the counter of worker w

Thread == 1 .. N

ASSUME ControlAssumption ==
  /\ N \in Nat \ {0} /\ QueueSize \in Nat \ {0} /\ MaxCount \in [Thread -> Nat]
  /\ YamlFile \subseteq [Thread -> Core]

VARIABLES
  coreOf,    \* coreOf[w]: the core of worker w; the file may repeat one
  commands,  \* commands[w]: the command queue of worker w, oldest first
  responses, \* responses[w]: its response queue
  wpc,       \* what worker w does next
  count,     \* stats of worker w: packets so far
  cpc,       \* what the controller does next
  cpos,      \* the worker whose queues it is at
  pending,   \* pending_stats
  seen,      \* map: the last stats of each core it heard of
  fresh,     \* cores whose entry in the map is less than a second old by the
             \* system clock, or later than it
  setBack,   \* the system clock was set back
  exit,      \* the flag the CTRL-C handler sets
  joining    \* what main waits for: 0 the controller, w worker w, N + 1 nothing

ctlVars == <<cpc, cpos, pending, seen, fresh, setBack>>
wkVars  == <<wpc, count>>
vars    == <<coreOf, commands, responses, wkVars, ctlVars, exit, joining>>

Command   == {"Exit", "GetStats"}
Stats     == [core : Core, count : Nat]
Stopped(w) == wpc[w] \in {"exited", "panicked"}

\* Producer::push: refused when the queue is full.
Pushed(queue, m) == IF Len(queue) < QueueSize THEN Append(queue, m) ELSE queue

-----------------------------------------------------------------------------
(* A worker.                                                               *)

\* Mutated: the break leaves the match, not the loop.
AfterCommand_Continues(c) == IF c = "Exit" THEN "work" ELSE "answer"

\* What a command makes the worker do next.
AfterCommand(c) == IF c = "Exit" THEN "exited" ELSE "answer"

\* The command poll at the top of the loop.
PollCommand(w) ==
  /\ wpc[w] = "poll"
  /\ \/ /\ commands[w] = <<>>
        /\ wpc' = [wpc EXCEPT ![w] = "work"]
        /\ UNCHANGED commands
     \/ /\ commands[w] # <<>>
        /\ commands' = [commands EXCEPT ![w] = Tail(@)]
        /\ wpc' = [wpc EXCEPT ![w] = AfterCommand(Head(commands[w]))]
  /\ UNCHANGED <<coreOf, responses, count, ctlVars, exit, joining>>

\* Mutated: the answer is not sent.
Answered_Not(queue, m) == queue

\* The response queue after the worker answered; refused, it is lost.
Answered(queue, m) == Pushed(queue, m)

Answer(w) ==
  /\ wpc[w] = "answer"
  /\ responses' = [responses EXCEPT
       ![w] = Answered(@, [core |-> coreOf[w], count |-> count[w]])]
  /\ wpc' = [wpc EXCEPT ![w] = "work"]
  /\ UNCHANGED <<coreOf, commands, count, ctlVars, exit, joining>>

\* Both links are serviced: some packets, or none.
Work(w) ==
  /\ wpc[w] = "work"
  /\ \E n \in 0 .. 1 :
       /\ count[w] + n <= MaxCount[w]
       /\ count' = [count EXCEPT ![w] = @ + n]
  /\ wpc' = [wpc EXCEPT ![w] = "poll"]
  /\ UNCHANGED <<coreOf, commands, responses, ctlVars, exit, joining>>

\* An incomplete initial fill or a fatal sendto ends the thread.
WorkerPanic(w) ==
  /\ wpc[w] \in {"poll", "work"}
  /\ wpc' = [wpc EXCEPT ![w] = "panicked"]
  /\ UNCHANGED <<coreOf, commands, responses, count, ctlVars, exit, joining>>

WorkerStep(w) == PollCommand(w) \/ Answer(w) \/ Work(w)

-----------------------------------------------------------------------------
(* The controller.                                                         *)

\* Mutated: less than a second.
Sleep_TooShort ==
  /\ cpc = "sleep"
  /\ cpc' = "collect" /\ cpos' = 1
  /\ UNCHANGED <<coreOf, commands, responses, wkVars, pending, seen, fresh, setBack, exit, joining>>

\* thread::sleep: a second passes, also by the system clock.  Once that was
\* set back it may take longer to reach the times in the map again.
Sleep ==
  /\ cpc = "sleep"
  /\ fresh' = {} \/ (setBack /\ fresh' = fresh)
  /\ cpc' = "collect" /\ cpos' = 1
  /\ UNCHANGED <<coreOf, commands, responses, wkVars, pending, seen, setBack, exit, joining>>

\* After worker cpos comes the next one, or the state `then'.
Advance(then) ==
  IF cpos < N THEN cpos' = cpos + 1 /\ UNCHANGED cpc
  ELSE cpos' = 1 /\ cpc' = then

\* Mutated: all the responses there are.
Taken_All(queue) == queue

\* Consumer::pop, once: the oldest response, if there is one.
Taken(queue) == IF queue = <<>> THEN <<>> ELSE <<Head(queue)>>

Collect ==
  LET msgs == Taken(responses[cpos])
  IN  /\ cpc = "collect"
      /\ pending' = pending \o msgs
      /\ responses' = [responses EXCEPT
           ![cpos] = SubSeq(@, Len(msgs) + 1, Len(@))]
      /\ Advance("print")
      /\ UNCHANGED <<coreOf, commands, wkVars, seen, fresh, setBack, exit, joining>>

\* StatState::diff panics when a counter went down (the subtraction, in a
\* build with overflow checks).  When the map's entry is from this same second
\* it divides by zero, as for a core heard of twice at a time, unless printing
\* took that long; when it is later than the clock, duration_since fails.
DiffPanics(m) == m.count < seen[m.core]
DiffMayPanic(m) == m.core \in fresh

\* The map is gone when do_controller ends.
NoStats    == [c \in {} |-> 0]
MapDropped == seen' = NoStats /\ fresh' = {}

\* A core not heard of before has no row.
PrintNext ==
  /\ cpc = "print" /\ pending # <<>>
  /\ LET m == Head(pending)
         known == m.core \in DOMAIN seen
     IN  \/ /\ known /\ (DiffPanics(m) \/ DiffMayPanic(m))
            /\ cpc' = "panicked" /\ MapDropped
            /\ UNCHANGED pending
         \/ /\ known => ~DiffPanics(m)
            /\ seen' = [c \in DOMAIN seen \cup {m.core} |->
                          IF c = m.core THEN m.count ELSE seen[c]]
            /\ fresh' = fresh \cup {m.core}
            /\ pending' = Tail(pending)
            /\ UNCHANGED cpc
  /\ UNCHANGED <<coreOf, commands, responses, wkVars, cpos, setBack, exit, joining>>

\* pending_stats is empty; the flag decides what the workers are told.
Printed ==
  /\ cpc = "print" /\ pending = <<>>
  /\ cpc' = IF exit THEN "tell exit" ELSE "ask"
  /\ UNCHANGED <<coreOf, commands, responses, wkVars, cpos, pending, seen, fresh, setBack, exit, joining>>

\* A refused GetStats is only printed.
Ask ==
  /\ cpc = "ask"
  /\ commands' = [commands EXCEPT ![cpos] = Pushed(@, "GetStats")]
  /\ Advance("sleep")
  /\ UNCHANGED <<coreOf, responses, wkVars, pending, seen, fresh, setBack, exit, joining>>

\* A refused Exit is only printed, too; the controller's work is done.
TellExit ==
  /\ cpc = "tell exit"
  /\ commands' = [commands EXCEPT ![cpos] = Pushed(@, "Exit")]
  /\ Advance("done")
  /\ IF cpc' = "done" THEN MapDropped ELSE UNCHANGED <<seen, fresh>>
  /\ UNCHANGED <<coreOf, responses, wkVars, pending, setBack, exit, joining>>

ControllerStep == Sleep \/ Collect \/ PrintNext \/ Printed \/ Ask \/ TellExit

-----------------------------------------------------------------------------
(* The clock, CTRL-C, and main.                                            *)

\* Every time in the map is now in the future, or not yet a second ago.  An
\* empty map does not mind.
ClockSetBack ==
  /\ ~setBack /\ setBack' = TRUE
  /\ DOMAIN seen # {}
  /\ fresh' = DOMAIN seen
  /\ UNCHANGED <<coreOf, commands, responses, wkVars, cpc, cpos, pending, seen,
                 exit, joining>>

CtrlC ==
  /\ ~exit /\ exit' = TRUE
  /\ UNCHANGED <<coreOf, commands, responses, wkVars, ctlVars, joining>>

\* join returns when the thread ended, whether it panicked or not.
Join ==
  /\ joining <= N
  /\ IF joining = 0 THEN cpc \in {"done", "panicked"} ELSE Stopped(joining)
  /\ joining' = joining + 1
  /\ UNCHANGED <<coreOf, commands, responses, wkVars, ctlVars, exit>>

-----------------------------------------------------------------------------
Init ==
  /\ coreOf \in YamlFile
  /\ commands = [w \in Thread |-> <<>>] /\ responses = [w \in Thread |-> <<>>]
  /\ wpc = [w \in Thread |-> "poll"] /\ count = [w \in Thread |-> 0]
  /\ cpc = "sleep" /\ cpos = 1
  /\ pending = <<>> /\ seen = NoStats /\ fresh = {}
  /\ setBack = FALSE /\ exit = FALSE /\ joining = 0

Next ==
  \/ \E w \in Thread : WorkerStep(w) \/ WorkerPanic(w)
  \/ ControllerStep \/ ClockSetBack \/ CtrlC \/ Join

Spec == Init /\ [][Next]_vars

\* Every thread is scheduled; when is up to the scheduler.
Fairness ==
  /\ \A w \in Thread : WF_vars(WorkerStep(w))
  /\ WF_vars(ControllerStep) /\ WF_vars(Join)

FairSpec == Spec /\ Fairness

-----------------------------------------------------------------------------
(* Properties.                                                             *)

\* No queue holds more than its size, and pending_stats, emptied each second,
\* at most one response of each worker.
ControlTypeOK ==
  /\ commands \in [Thread -> Seq(Command)] /\ responses \in [Thread -> Seq(Stats)]
  /\ \A w \in Thread : Len(commands[w]) <= QueueSize /\ Len(responses[w]) <= QueueSize
  /\ wpc \in [Thread -> {"poll", "answer", "work", "exited", "panicked"}]
  /\ count \in [Thread -> Nat] /\ \A w \in Thread : count[w] <= MaxCount[w]
  /\ cpc \in {"sleep", "collect", "print", "ask", "tell exit", "done", "panicked"}
  /\ cpos \in Thread /\ pending \in Seq(Stats) /\ Len(pending) <= N
  /\ DOMAIN seen \subseteq Core /\ \A c \in DOMAIN seen : seen[c] \in Nat
  /\ fresh \subseteq Core /\ coreOf \in YamlFile
  /\ setBack \in BOOLEAN /\ exit \in BOOLEAN /\ joining \in 0 .. N + 1

\* diff neither divides by zero nor subtracts below it, because each core's
\* counters come in order and once a second; the controller panics only when
\* the clock was set back, or when two entries of the YAML file name the same
\* core, over that core's counters.
PanicsExplained ==
  cpc = "panicked" =>
    \/ setBack
    \/ \E v, w \in Thread :
         v # w /\ coreOf[v] = Head(pending).core /\ coreOf[w] = Head(pending).core

Heard(w) == \E k \in DOMAIN pending : pending[k].core = coreOf[w]

\* While a worker runs, the controller hears of it again and again, although
\* commands and responses are dropped whenever a queue is full.
StatsKeepComing == \A w \in Thread : []<>(exit \/ cpc = "panicked" \/ Stopped(w) \/ Heard(w))

Told(w) == \E k \in DOMAIN commands[w] : commands[w][k] = "Exit"

\* When every worker that runs was told to exit, main returns: commands ahead
\* of Exit do not hold it up, nor does a response queue nobody reads any more.
ExitCompletes ==
  cpc = "done" /\ (\A w \in Thread : Told(w) \/ Stopped(w)) ~> joining = N + 1

\* "CTRL-C to exit", "Tell the worker threads to exit if CTRL-C": the program
\* ends after CTRL-C.
CtrlCExits == exit ~> joining = N + 1
=============================================================================
