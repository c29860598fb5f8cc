------------------------------ MODULE Children ------------------------------
(***************************************************************************)
(* How RepoDNA runs another program: Git (runner.rs of repodna-git), a     *)
(* plugin (process.rs of repodna-plugin), a command of the project         *)
(* (execute.rs of repodna-project) or a local AI program (command.rs of    *)
(* repodna-ai). Each gives the child pipes, serves them from threads, and  *)
(* stops the child at a deadline or a cancellation; they differ in who     *)
(* watches and in what is waited for. The child reads, prints and exits as *)
(* it likes, and may leave a descendant that keeps its pipes open.         *)
(*                                                                         *)
(* Data is counted in units; Room is what a pipe holds.                    *)
(***************************************************************************)
EXTENDS Naturals

CONSTANTS
  Styles,       \* which of the four are run
  Input,        \* units written to the child's standard input
  Output,       \* most units it prints on each of its outputs
  Room,         \* units a pipe holds
  MaxKept,      \* max_output_bytes, MAX_STDERR, MAX_STDOUT
  MaxSteps,     \* most steps (`a && b`) of a project command
  Descendants   \* TRUE: the child may start a process of its own

AllStyles == {"git", "plugin", "command", "provider"}
Pipes == {"out", "err"}

(* A child ignores its input, reads all of it before it prints, after it   *)
(* has printed, or as it comes.                                            *)
Habits == {"deaf", "hears first", "prints first", "either"}

ASSUME ChildrenAssumption ==
  /\ Styles \subseteq AllStyles
  /\ Input \in Nat
  /\ Output \in Nat
  /\ Room \in Nat \ {0}
  /\ MaxKept \in Nat \ {0}
  /\ MaxSteps \in Nat \ {0}
  /\ Descendants \in BOOLEAN

VARIABLES
  style,     \* which of the four runs it
  main,      \* where the thread that runs it is
  watchdog,  \* where the watchdog of the Git runner is
  expired,   \* what the watchdog found when it fired (`timed_out`)
  steps,     \* steps of the command that are left, with this one
  signals,   \* "cancel": the token is set; "deadline": the time is up
  child,     \* the child process
  habit,     \* what it does with its input, and in which order
  helper,    \* its descendant, which has its pipes
  in,        \* units in the pipe of its standard input
  pipe,      \* units in the pipes of its outputs
  toWrite,   \* units the writer has yet to write
  writer,    \* the writer's thread
  toPrint,   \* units the child has yet to print
  reader,    \* the readers of its outputs
  got,       \* units they have read
  consumed,  \* whether the consumer of Git's output is content
  verdict    \* what is returned

setting == <<style, steps, signals>>
watching == <<watchdog, expired>>
ending == <<main, verdict>>
program == <<child, habit, helper, toPrint>>
feeding == <<in, toWrite, writer>>
reading == <<pipe, reader, got, consumed>>
vars == <<style, main, watchdog, expired, steps, signals, child, habit, helper,
          in, toWrite, writer, toPrint, pipe, reader, got, consumed, verdict>>

Alive == helper = "alive"
Dead == child \in {"exited", "failed", "broken", "killed"}

(* No process holds the other end. *)
AtEnd(q) == pipe[q] = 0 /\ Dead /\ ~Alive
Unread == Dead /\ ~Alive

Running == main \notin {"starting", "spawning"}
Printed == \A q \in Pipes : toPrint[q] = 0
Heard == in = 0 /\ writer = "over"

(***************************************************************************)
(* The decisions of the code, preceded by the mutations of them that the   *)
(* properties must notice.                                                 *)
(***************************************************************************)

(* A thread of its own reads each output to the end, whatever the writer   *)
(* does and however much of it is kept.                                    *)
Reads_AfterWriting(q) == reader[q] = "reading" /\ writer = "over"
Reads(q) == reader[q] = "reading"

(* After the child's end: what main waits for, and whether it gives up.    *)
Waits_ForOutput == {"out"}
Waits == {"out", "err"}
WaitsForWriter == style \in {"git", "plugin"}
GivesUp_Never == FALSE
GivesUp == style = "provider"

(* Who looks at the token before the start. *)
TestsToken == style \in {"git", "command"}

(* Before it returns, a killed child's output is waited for or not.        *)
ReturnsAtOnce == style \in {"plugin", "provider"}

(* What the child's end means, once nobody watches any more. *)
GitVerdict_StatusFirst ==
  IF child # "exited" THEN "failed"
  ELSE IF "cancel" \in signals THEN "cancelled"
  ELSE IF expired = "yes" THEN "timeout" ELSE consumed
GitVerdict ==
  IF "cancel" \in signals THEN "cancelled"
  ELSE IF expired = "yes" THEN "timeout"
  ELSE IF child # "exited" THEN "failed" ELSE consumed

(* More came than is kept. *)
Exceeded == got["out"] > MaxKept

Verdict ==
  CASE style = "git"      -> GitVerdict
    [] style = "plugin"   -> IF child = "exited" /\ ~Exceeded THEN "ok" ELSE "failed"
    [] style = "provider" -> IF child = "exited" /\ got["out"] > 0 THEN "ok" ELSE "failed"
    [] style = "command"  -> IF child = "exited" THEN "ok" ELSE "failed"

-----------------------------------------------------------------------------

Nothing == [q \in Pipes |-> 0]

Init ==
  /\ style \in Styles
  /\ steps \in IF style = "command" THEN 1..MaxSteps ELSE {1}
  /\ main = IF TestsToken THEN "starting" ELSE "spawning"
  /\ watchdog = "none"
  /\ expired = "no"
  /\ signals = {}
  /\ child = "none"
  /\ habit \in IF style = "command" THEN {"deaf"} ELSE Habits
  /\ helper = "none"
  /\ in = 0
  /\ pipe = Nothing
  /\ toWrite = 0
  /\ writer = "over"
  /\ toPrint = Nothing
  /\ reader = [q \in Pipes |-> "over"]
  /\ got = Nothing
  /\ consumed = "ok"
  /\ verdict = "none"

Return(v) == main' = "returned" /\ verdict' = v

(* Git and the steps of a project command are not started once they are    *)
(* cancelled.                                                              *)
StartCancelled ==
  /\ main = "starting"
  /\ "cancel" \in signals
  /\ Return("cancelled")
  /\ UNCHANGED <<setting, watching, program, feeding, reading>>

Proceed ==
  /\ main = "starting"
  /\ "cancel" \notin signals
  /\ main' = "spawning"
  /\ UNCHANGED <<setting, watching, verdict, program, feeding, reading>>

CannotStart ==
  /\ main = "spawning"
  /\ Return("failed")
  /\ UNCHANGED <<setting, watching, program, feeding, reading>>

(* Git is given input by some callers, a project command by none. *)
Inputs ==
  CASE style = "git"     -> {0, Input}
    [] style = "command" -> {0}
    [] OTHER             -> {Input}

(* A cancellation since the test is not noticed here. *)
Start(input, output) ==
  /\ main = "spawning"
  /\ child' = "running"
  /\ toWrite' = input
  /\ writer' = IF input = 0 THEN "over" ELSE "writing"
  /\ toPrint' = output
  /\ reader' = [q \in Pipes |-> "reading"]
  /\ main' = IF style = "git" THEN "consuming" ELSE "polling"
  /\ watchdog' = IF style = "git" THEN "watching" ELSE "none"
  /\ UNCHANGED <<setting, expired, verdict, habit, helper, in, pipe, got,
                 consumed>>

(* The time of a project command runs from before its first step, that of  *)
(* the others from the start of the child.                                 *)
Signal(s) ==
  /\ main # "returned"
  /\ s = "deadline" => Running \/ style = "command"
  /\ signals' = signals \cup {s}
  /\ UNCHANGED <<style, steps, watching, ending, program, feeding, reading>>

-----------------------------------------------------------------------------
(* The child, and the process it may leave behind.                         *)

Hear ==
  /\ child = "running"
  /\ habit # "deaf"
  /\ habit = "prints first" => Printed
  /\ in > 0
  /\ in' = in - 1
  /\ UNCHANGED <<setting, watching, ending, program, toWrite, writer, reading>>

(* Printing into a pipe that nobody reads any more ends the child. *)
Emit(q) ==
  /\ child = "running"
  /\ toPrint[q] > 0
  /\ habit = "hears first" => Heard
  /\ IF reader[q] = "over"
     THEN /\ child' = "broken"
          /\ UNCHANGED <<pipe, toPrint>>
     ELSE /\ pipe[q] < Room
          /\ pipe' = [pipe EXCEPT ![q] = @ + 1]
          /\ toPrint' = [toPrint EXCEPT ![q] = @ - 1]
          /\ UNCHANGED child
  /\ UNCHANGED <<setting, watching, ending, habit, helper, feeding, reader,
                 got, consumed>>

Exit(status) ==
  /\ child = "running"
  /\ Printed
  /\ habit # "deaf" => Heard
  /\ child' = status
  /\ UNCHANGED <<setting, watching, ending, habit, helper, feeding, reading,
                 toPrint>>

Fork ==
  /\ Descendants
  /\ child = "running"
  /\ helper = "none"
  /\ helper' = "alive"
  /\ UNCHANGED <<setting, watching, ending, child, habit, feeding, reading,
                 toPrint>>

HelperEnds ==
  /\ Alive
  /\ helper' = "gone"
  /\ UNCHANGED <<setting, watching, ending, child, habit, feeding, reading,
                 toPrint>>

-----------------------------------------------------------------------------
(* The threads that serve its pipes.                                       *)

Write ==
  /\ writer = "writing"
  /\ toWrite > 0
  /\ in < Room
  /\ ~Unread
  /\ in' = in + 1
  /\ toWrite' = toWrite - 1
  /\ UNCHANGED <<setting, watching, ending, program, writer, reading>>

(* All is written, or nobody can read it: the pipe is closed. *)
EndWriting ==
  /\ writer = "writing"
  /\ toWrite = 0 \/ Unread
  /\ writer' = "over"
  /\ UNCHANGED <<setting, watching, ending, program, in, toWrite, reading>>

(* The Git runner consumes the output itself, and lets go of the errors    *)
(* after MAX_STDERR; the others read on after what they keep.              *)
ByThread(q) == ~(style = "git" /\ q = "out")
LetsGo(q) == style = "git" /\ q = "err" /\ got[q] + 1 >= MaxKept

Receive(q) ==
  /\ pipe[q] > 0
  /\ pipe' = [pipe EXCEPT ![q] = @ - 1]
  /\ got' = [got EXCEPT ![q] = @ + 1]

Read(q) ==
  /\ ByThread(q)
  /\ Reads(q)
  /\ Receive(q)
  /\ reader' = [reader EXCEPT ![q] = IF LetsGo(q) THEN "over" ELSE "reading"]
  /\ UNCHANGED <<setting, watching, ending, program, feeding, consumed>>

EndReading(q) ==
  /\ ByThread(q)
  /\ reader[q] = "reading"
  /\ AtEnd(q)
  /\ reader' = [reader EXCEPT ![q] = "over"]
  /\ UNCHANGED <<setting, watching, ending, program, feeding, pipe, got,
                 consumed>>

-----------------------------------------------------------------------------
(* stream_with_input: consume, wait, join, and tell why it ended.          *)

Consume ==
  /\ main = "consuming"
  /\ Reads("out")
  /\ Receive("out")
  /\ UNCHANGED <<setting, watching, ending, program, feeding, reader,
                 consumed>>

(* At the end of the output, or when it cannot be understood. *)
EndConsuming(content) ==
  /\ main = "consuming"
  /\ content = "ok" => AtEnd("out")
  /\ consumed' = content
  /\ reader' = [reader EXCEPT !["out"] = "over"]
  /\ main' = "waiting"
  /\ UNCHANGED <<setting, watching, verdict, program, feeding, pipe, got>>

Wait ==
  /\ main = "waiting"
  /\ Dead
  /\ main' = "joining"
  /\ UNCHANGED <<setting, watching, verdict, program, feeding, reading>>

(* It looks at the time and then at the token: of two signals that come    *)
(* together either may be the one it notices.                              *)
Fire ==
  /\ watchdog = "watching"
  /\ signals # {}
  /\ \/ expired' = "yes" /\ "deadline" \in signals
     \/ expired' = "no" /\ "cancel" \in signals
  /\ watchdog' = "killing"
  /\ UNCHANGED <<setting, ending, program, feeding, reading>>

Strike == child' = IF child = "running" THEN "killed" ELSE child

WatchdogKills ==
  /\ watchdog = "killing"
  /\ Strike
  /\ watchdog' = "over"
  /\ UNCHANGED <<setting, expired, ending, habit, helper, feeding, reading,
                 toPrint>>

(* main drops the sender before it joins. *)
EndWatching ==
  /\ watchdog = "watching"
  /\ main = "joining"
  /\ watchdog' = "over"
  /\ UNCHANGED <<setting, expired, ending, program, feeding, reading>>

-----------------------------------------------------------------------------
(* The others look every few milliseconds whether the child has exited,    *)
(* and only if it has not, whether it must be stopped.                     *)

Poll ==
  /\ main = "polling"
  /\ main' = IF Dead THEN "joining" ELSE "checking"
  /\ UNCHANGED <<setting, watching, verdict, program, feeding, reading>>

Reason(s) == IF s = "cancel" THEN "cancelled" ELSE "timeout"

(* Here too either of two signals may be the one that is noticed. *)
Check ==
  /\ main = "checking"
  /\ \/ signals = {} /\ main' = "polling" /\ UNCHANGED verdict
     \/ \E s \in signals : main' = "killing" /\ verdict' = Reason(s)
  /\ UNCHANGED <<setting, watching, program, feeding, reading>>

Kill ==
  /\ main = "killing"
  /\ Strike
  /\ main' = IF ReturnsAtOnce THEN "returned" ELSE "joining"
  /\ UNCHANGED <<setting, watching, verdict, habit, helper, feeding, reading,
                 toPrint>>

-----------------------------------------------------------------------------
(* Joining. The output of a local AI program is waited for two seconds at  *)
(* most (DRAIN_AFTER_EXIT).                                                *)

Served ==
  /\ watchdog \in {"none", "over"}
  /\ WaitsForWriter => writer = "over"
  /\ GivesUp \/ \A q \in Waits : reader[q] = "over"

MoreToDo_OffByOne == verdict = "none" /\ Verdict = "ok" /\ steps > 0
MoreToDo == verdict = "none" /\ Verdict = "ok" /\ steps > 1

Finish ==
  /\ main = "joining"
  /\ Served
  /\ ~MoreToDo
  /\ Return(IF verdict = "none" THEN Verdict ELSE verdict)
  /\ UNCHANGED <<setting, watching, program, feeding, reading>>

(* `a && b`: the next step is a new child with new pipes and readers. *)
NextStep ==
  /\ main = "joining"
  /\ Served
  /\ MoreToDo
  /\ steps' = steps - 1
  /\ main' = "starting"
  /\ child' = "none"
  /\ helper' = "none"
  /\ got' = Nothing
  /\ in' = 0
  /\ UNCHANGED <<style, signals, watching, verdict, habit, toWrite, writer,
                 pipe, reader, consumed, toPrint>>

-----------------------------------------------------------------------------

Amounts(most) == [Pipes -> 0..most]

Child ==
  \/ Hear
  \/ \E q \in Pipes : Emit(q)
  \/ \E status \in {"exited", "failed"} : Exit(status)

Main ==
  \/ StartCancelled \/ Proceed
  \/ \E input \in Inputs, output \in Amounts(Output) : Start(input, output)
  \/ Consume \/ EndConsuming("ok") \/ Wait
  \/ Poll \/ Check \/ Kill
  \/ Finish \/ NextStep

Watchdog == Fire \/ WatchdogKills \/ EndWatching
Writer == Write \/ EndWriting
Reader(q) == Read(q) \/ EndReading(q)

Next ==
  \/ Child \/ Fork \/ HelperEnds
  \/ \E s \in {"cancel", "deadline"} : Signal(s)
  \/ CannotStart \/ EndConsuming("failed") \/ Main
  \/ Watchdog \/ Writer
  \/ \E q \in Pipes : Reader(q)

(* The threads of RepoDNA run. Nothing makes the child get on with its     *)
(* work, a signal arrive or a descendant end.                              *)
Fairness ==
  /\ WF_vars(Main) /\ WF_vars(Watchdog) /\ WF_vars(Writer)
  /\ \A q \in Pipes : WF_vars(Reader(q))

Spec == Init /\ [][Next]_vars /\ Fairness

-----------------------------------------------------------------------------
(* Properties.                                                             *)

Verdicts == {"ok", "failed", "cancelled", "timeout"}

(* Every variable has its type; a pipe never holds more than it can. *)
TypeOK ==
  /\ style \in Styles /\ steps \in 1..MaxSteps
  /\ main \in {"starting", "spawning", "consuming", "waiting", "polling",
              "checking", "killing", "joining", "returned"}
  /\ watchdog \in {"none", "watching", "killing", "over"}
  /\ expired \in {"no", "yes"}
  /\ signals \subseteq {"cancel", "deadline"}
  /\ child \in {"none", "running", "exited", "failed", "broken", "killed"}
  /\ habit \in Habits
  /\ helper \in {"none", "alive", "gone"}
  /\ in \in 0..Room /\ pipe \in Amounts(Room)
  /\ toWrite \in 0..Input /\ writer \in {"writing", "over"}
  /\ toPrint \in Amounts(Output)
  /\ reader \in [Pipes -> {"reading", "over"}]
  /\ got \in Amounts(Output)
  /\ consumed \in {"ok", "failed"}
  /\ verdict \in Verdicts \cup {"none"}

(* What a caller is told is why the run ended, however the child's end,    *)
(* the deadline, the cancellation and the watchdog fell together: success  *)
(* only of a child that exited by itself, a timeout or a cancellation only *)
(* if there was one, and nothing else of a child that was killed. No child *)
(* is left behind running.                                                 *)
VerdictIsTrue ==
  main = "returned" =>
    /\ child # "running"
    /\ verdict = "ok" => child = "exited"
    /\ verdict = "timeout" => "deadline" \in signals
    /\ verdict = "cancelled" => "cancel" \in signals
    /\ child = "killed" => verdict \in {"timeout", "cancelled"}

(* A run that succeeds hands over everything the child printed: all that   *)
(* Git wrote to its output, a plugin's output if it is within the limit,   *)
(* both outputs of a project command.                                      *)
OkIsWhole ==
  main = "returned" /\ verdict = "ok" =>
    /\ style # "provider" => pipe["out"] = 0
    /\ style = "plugin" => got["out"] <= MaxKept
    /\ style = "command" => pipe["err"] = 0

(* Once the time is up or the token is set, the run ends, even if the      *)
(* child hangs and its pipes are full; but for a descendant that keeps     *)
(* them open, which only the local AI programs are not waited for.         *)
LimitEndsRun ==
  (signals # {}) ~> (main = "returned" \/ (Alive /\ style # "provider"))

(* A child that gets on with its work never waits for RepoDNA while        *)
(* RepoDNA waits for it, in whichever order it reads and prints: the run   *)
(* ends without the help of a limit.                                       *)
WillingEnds ==
  WF_vars(Child) => <>(main = "returned" \/ Alive)

(* What the documentation says: the time limit and the cancellation end    *)
(* the run.                                                                *)
LimitAlwaysEndsRun == (signals # {}) ~> (main = "returned")

=============================================================================
