--------------------------- MODULE ChildrenProof ---------------------------
(***************************************************************************)
(* Proofs about Children for all four ways of running a program, any       *)
(* amount of data, any size of the pipes and any number of steps, with the *)
(* deadline, the cancellation and the child's end at any moment.           *)
(***************************************************************************)
EXTENDS Children, Integers, TLAPS

(* What a child was to print is read, in its pipe, unprinted, or gone.     *)
Accounts == \A q \in Pipes : got[q] + pipe[q] + toPrint[q] <= Output

(* Which style has which threads; only a project command has more steps.   *)
Styled ==
  /\ style # "command" => steps = 1
  /\ style = "command" => writer = "over"
  /\ style = "git" => main \notin {"polling", "checking", "killing"}
  /\ style # "git" => main \notin {"consuming", "waiting"} /\ watchdog = "none"

(* Before a start nothing is left of the step before.                      *)
Clean ==
  main \in {"starting", "spawning"} =>
    /\ child = "none" /\ helper = "none" /\ in = 0 /\ writer = "over" /\ verdict = "none"
    /\ \A q \in Pipes : pipe[q] = 0 /\ got[q] = 0 /\ reader[q] = "over"

Placed ==
  /\ main = "joining" => Dead
  /\ main = "returned" => child # "running" /\ verdict # "none"
  /\ main \notin {"starting", "spawning", "returned"} => child # "none"

(* A timeout and a cancellation are never told, and no child is killed,    *)
(* without a reason.                                                       *)
Reasons ==
  /\ expired = "yes" \/ verdict = "timeout" => "deadline" \in signals
  /\ verdict = "cancelled" => "cancel" \in signals
  /\ style = "git" /\ (watchdog = "killing" \/ child = "killed") =>
       expired = "yes" \/ "cancel" \in signals
  /\ style # "git" /\ (main = "killing" \/ child = "killed") =>
       verdict \in {"timeout", "cancelled"}
  /\ main # "returned" => verdict \in {"none", "timeout", "cancelled"}
  /\ style = "git" /\ main # "returned" => verdict = "none"

(* Who has read an output to its end has left nothing in it.               *)
Drained(q) == pipe[q] = 0 /\ child # "running"
Drains ==
  /\ style # "git" => \A q \in Pipes : reader[q] = "over" => Drained(q)
  /\ style = "git" /\ consumed = "ok" /\ reader["out"] = "over" => Drained("out")

(* What was waited for before a run succeeded stays as it was then.        *)
Settled ==
  main = "returned" =>
    /\ verdict = "ok" =>
         /\ child = "exited"
         /\ style # "provider" => reader["out"] = "over"
         /\ style = "git" => consumed = "ok"
         /\ style \in {"plugin", "command"} => reader["err"] = "over"
         /\ style = "plugin" => got["out"] <= MaxKept
    /\ child = "killed" => verdict \in {"timeout", "cancelled"}

IInv == /\ TypeOK /\ Accounts /\ Styled /\ Clean /\ Placed /\ Reasons /\ Drains /\ Settled

-----------------------------------------------------------------------------
LEMMA StyledStep == IInv /\ [Next]_vars => Styled'
<1> SUFFICES ASSUME IInv, [Next]_vars PROVE Styled'
  OBVIOUS
<1>0. Styled /\ TypeOK
  BY DEF IInv
<1>1. CASE StartCancelled
  BY <1>0, <1>1 DEF StartCancelled, Return, setting, watching, ending, program, feeding,
     reading, Styled, Inputs, MoreToDo, TypeOK
<1>2. CASE Proceed
  BY <1>0, <1>2 DEF Proceed, setting, watching, ending, program, feeding, reading, Styled,
     Inputs, MoreToDo, TypeOK
<1>3. CASE CannotStart
  BY <1>0, <1>3 DEF CannotStart, Return, setting, watching, ending, program, feeding, reading,
     Styled, Inputs, MoreToDo, TypeOK
<1>4. CASE \E input \in Inputs, output \in Amounts(Output) : Start(input, output)
  BY <1>0, <1>4 DEF Start, setting, Styled, Inputs, MoreToDo, TypeOK
<1>5. CASE \E s \in {"cancel", "deadline"} : Signal(s)
  BY <1>0, <1>5 DEF Signal, setting, watching, ending, program, feeding, reading, Styled,
     Inputs, MoreToDo, TypeOK
<1>6. CASE Hear
  BY <1>0, <1>6 DEF Hear, setting, watching, ending, program, feeding, reading, Styled, Inputs,
     MoreToDo, TypeOK
<1>7. CASE \E q \in Pipes : Emit(q)
  BY <1>0, <1>7 DEF Emit, setting, watching, ending, program, feeding, reading, Styled, Inputs,
     MoreToDo, TypeOK
<1>8. CASE \E status \in {"exited", "failed"} : Exit(status)
  BY <1>0, <1>8 DEF Exit, setting, watching, ending, program, feeding, reading, Styled, Inputs,
     MoreToDo, TypeOK
<1>9. CASE Fork \/ HelperEnds
  BY <1>0, <1>9 DEF Fork, HelperEnds, setting, watching, ending, program, feeding, reading,
     Styled, Inputs, MoreToDo, TypeOK
<1>10. CASE Write \/ EndWriting
  BY <1>0, <1>10 DEF Write, EndWriting, setting, watching, ending, program, feeding, reading,
     Styled, Inputs, MoreToDo, TypeOK
<1>11. CASE \E q \in Pipes : Read(q)
  BY <1>0, <1>11 DEF Read, Receive, setting, watching, ending, program, feeding, reading,
     Styled, Inputs, MoreToDo, TypeOK
<1>12. CASE \E q \in Pipes : EndReading(q)
  BY <1>0, <1>12 DEF EndReading, setting, watching, ending, program, feeding, reading, Styled,
     Inputs, MoreToDo, TypeOK
<1>13. CASE Consume
  BY <1>0, <1>13 DEF Consume, Receive, setting, watching, ending, program, feeding, reading,
     Styled, Inputs, MoreToDo, TypeOK
<1>14. CASE \E content \in {"ok", "failed"} : EndConsuming(content)
  BY <1>0, <1>14 DEF EndConsuming, setting, watching, ending, program, feeding, reading, Styled,
     Inputs, MoreToDo, TypeOK
<1>15. CASE Wait
  BY <1>0, <1>15 DEF Wait, setting, watching, ending, program, feeding, reading, Styled, Inputs,
     MoreToDo, TypeOK
<1>16. CASE Fire
  BY <1>0, <1>16 DEF Fire, setting, watching, ending, program, feeding, reading, Styled, Inputs,
     MoreToDo, TypeOK
<1>17. CASE WatchdogKills
  BY <1>0, <1>17 DEF WatchdogKills, Strike, setting, watching, ending, program, feeding,
     reading, Styled, Inputs, MoreToDo, TypeOK
<1>18. CASE EndWatching
  BY <1>0, <1>18 DEF EndWatching, setting, watching, ending, program, feeding, reading, Styled,
     Inputs, MoreToDo, TypeOK
<1>19. CASE Poll
  BY <1>0, <1>19 DEF Poll, setting, watching, ending, program, feeding, reading, Styled, Inputs,
     MoreToDo, TypeOK
<1>20. CASE Check
  BY <1>0, <1>20 DEF Check, setting, watching, ending, program, feeding, reading, Styled,
     Inputs, MoreToDo, TypeOK
<1>21. CASE Kill
  BY <1>0, <1>21 DEF Kill, Strike, setting, watching, ending, program, feeding, reading, Styled,
     Inputs, MoreToDo, TypeOK
<1>22. CASE Finish
  BY <1>0, <1>22 DEF Finish, Return, setting, watching, ending, program, feeding, reading,
     Styled, Inputs, MoreToDo, TypeOK
<1>23. CASE NextStep
  BY <1>0, <1>23 DEF NextStep, setting, watching, ending, program, feeding, reading, Styled,
     Inputs, MoreToDo, TypeOK
<1>24. CASE UNCHANGED vars
  BY <1>0, <1>24 DEF vars, Styled, Inputs, MoreToDo, TypeOK
<1> QED BY <1>1, <1>2, <1>3, <1>4, <1>5, <1>6, <1>7, <1>8, <1>9, <1>10, <1>11, <1>12, <1>13,
   <1>14, <1>15, <1>16, <1>17, <1>18, <1>19, <1>20, <1>21, <1>22, <1>23, <1>24 DEF Next, Child,
   Main, Watchdog, Writer, Reader

LEMMA CleanStep == IInv /\ [Next]_vars => Clean'
<1> SUFFICES ASSUME IInv, [Next]_vars PROVE Clean'
  OBVIOUS
<1>0. TypeOK /\ Styled /\ Clean /\ Placed /\ Reasons /\ Drains
  BY DEF IInv
<1>1. CASE StartCancelled
  BY <1>0, <1>1 DEF StartCancelled, Return, setting, watching, ending, program, feeding,
     reading, Clean, Placed, Styled
<1>2. CASE Proceed
  BY <1>0, <1>2 DEF Proceed, setting, watching, ending, program, feeding, reading, Clean,
     Placed, Styled
<1>3. CASE CannotStart
  BY <1>0, <1>3 DEF CannotStart, Return, setting, watching, ending, program, feeding, reading,
     Clean, Placed, Styled
<1>4. CASE \E input \in Inputs, output \in Amounts(Output) : Start(input, output)
  BY <1>0, <1>4 DEF Start, setting, Clean, Placed, Styled
<1>5. CASE \E s \in {"cancel", "deadline"} : Signal(s)
  BY <1>0, <1>5 DEF Signal, setting, watching, ending, program, feeding, reading, Clean, Placed,
     Styled
<1>6. CASE Hear
  BY <1>0, <1>6 DEF Hear, setting, watching, ending, program, feeding, reading, Clean, Placed,
     Styled
<1>7. CASE \E q \in Pipes : Emit(q)
  BY <1>0, <1>7 DEF Emit, setting, watching, ending, program, feeding, reading, Clean, Placed,
     Styled
<1>8. CASE \E status \in {"exited", "failed"} : Exit(status)
  BY <1>0, <1>8 DEF Exit, setting, watching, ending, program, feeding, reading, Clean, Placed,
     Styled
<1>9. CASE Fork \/ HelperEnds
  BY <1>0, <1>9 DEF Fork, HelperEnds, Alive, setting, watching, ending, program, feeding,
     reading, Clean
<1>10. CASE Write \/ EndWriting
  BY <1>0, <1>10 DEF Write, EndWriting, setting, watching, ending, program, feeding, reading,
     Clean, Placed, Styled
<1>11. CASE \E q \in Pipes : Read(q)
  BY <1>0, <1>11 DEF Read, Receive, setting, watching, ending, program, feeding, reading, Clean,
     Placed, Styled
<1>12. CASE \E q \in Pipes : EndReading(q)
  BY <1>0, <1>12 DEF EndReading, setting, watching, ending, program, feeding, reading, Clean,
     Placed, Styled
<1>13. CASE Consume
  BY <1>0, <1>13 DEF Consume, Receive, setting, watching, ending, program, feeding, reading,
     Clean, Placed, Styled
<1>14. CASE \E content \in {"ok", "failed"} : EndConsuming(content)
  BY <1>0, <1>14 DEF EndConsuming, setting, watching, ending, program, feeding, reading, Clean,
     Placed, Styled
<1>15. CASE Wait
  BY <1>0, <1>15 DEF Wait, setting, watching, ending, program, feeding, reading, Clean, Placed,
     Styled
<1>16. CASE Fire
  BY <1>0, <1>16 DEF Fire, setting, watching, ending, program, feeding, reading, Clean, Placed,
     Styled
<1>17. CASE WatchdogKills
  BY <1>0, <1>17 DEF WatchdogKills, Strike, setting, watching, ending, program, feeding,
     reading, Clean, Placed, Styled
<1>18. CASE EndWatching
  BY <1>0, <1>18 DEF EndWatching, setting, watching, ending, program, feeding, reading, Clean,
     Placed, Styled
<1>19. CASE Poll
  BY <1>0, <1>19 DEF Poll, setting, watching, ending, program, feeding, reading, Clean, Placed,
     Styled
<1>20. CASE Check
  BY <1>0, <1>20 DEF Check, setting, watching, ending, program, feeding, reading, Clean, Placed,
     Styled
<1>21. CASE Kill
  BY <1>0, <1>21 DEF Kill, Strike, setting, watching, ending, program, feeding, reading, Clean,
     Placed, Styled
<1>22. CASE Finish
  BY <1>0, <1>22 DEF Finish, Return, setting, watching, ending, program, feeding, reading,
     Clean, Placed, Styled
<1>23. CASE NextStep
  <2>1. main' = "starting" /\ child' = "none" /\ helper' = "none" /\ in' = 0
    BY <1>23 DEF NextStep
  <2>2. style = "command" /\ verdict = "none"
    BY <1>0, <1>23 DEF NextStep, MoreToDo, Styled
  <2>3. \A q \in Pipes : reader[q] = "over" /\ pipe[q] = 0
    BY <1>0, <1>23, <2>2 DEF NextStep, Served, GivesUp, Waits, Pipes, Drains, Drained
  <2>4. UNCHANGED <<pipe, reader, writer, verdict>> /\ got' = Nothing
    BY <1>23 DEF NextStep
  <2> QED BY <1>0, <2>1, <2>2, <2>3, <2>4 DEF Clean, Styled, Nothing
<1>24. CASE UNCHANGED vars
  BY <1>0, <1>24 DEF vars, Clean, Placed, Styled
<1> QED BY <1>1, <1>2, <1>3, <1>4, <1>5, <1>6, <1>7, <1>8, <1>9, <1>10, <1>11, <1>12, <1>13,
   <1>14, <1>15, <1>16, <1>17, <1>18, <1>19, <1>20, <1>21, <1>22, <1>23, <1>24 DEF Next, Child,
   Main, Watchdog, Writer, Reader

LEMMA PlacedStep == IInv /\ [Next]_vars => Placed'
<1> SUFFICES ASSUME IInv, [Next]_vars PROVE Placed'
  OBVIOUS
<1>0. TypeOK /\ Styled /\ Clean /\ Placed /\ Reasons
  BY DEF IInv
<1>1. CASE StartCancelled
  BY <1>0, <1>1 DEF StartCancelled, Return, setting, watching, ending, program, feeding,
     reading, Clean, Placed, Styled, Reasons, Dead
<1>2. CASE Proceed
  BY <1>0, <1>2 DEF Proceed, setting, watching, ending, program, feeding, reading, Clean,
     Placed, Styled, Reasons, Dead
<1>3. CASE CannotStart
  BY <1>0, <1>3 DEF CannotStart, Return, setting, watching, ending, program, feeding, reading,
     Clean, Placed, Styled, Reasons, Dead
<1>4. CASE \E input \in Inputs, output \in Amounts(Output) : Start(input, output)
  BY <1>0, <1>4 DEF Start, setting, Clean, Placed, Styled, Reasons, Dead
<1>5. CASE \E s \in {"cancel", "deadline"} : Signal(s)
  BY <1>0, <1>5 DEF Signal, setting, watching, ending, program, feeding, reading, Clean, Placed,
     Styled, Reasons, Dead
<1>6. CASE Hear
  BY <1>0, <1>6 DEF Hear, setting, watching, ending, program, feeding, reading, Clean, Placed,
     Styled, Reasons, Dead
<1>7. CASE \E q \in Pipes : Emit(q)
  BY <1>0, <1>7 DEF Emit, setting, watching, ending, program, feeding, reading, Clean, Placed,
     Styled, Reasons, Dead
<1>8. CASE \E status \in {"exited", "failed"} : Exit(status)
  BY <1>0, <1>8 DEF Exit, setting, watching, ending, program, feeding, reading, Clean, Placed,
     Styled, Reasons, Dead
<1>9. CASE Fork \/ HelperEnds
  BY <1>0, <1>9 DEF Fork, HelperEnds, setting, watching, ending, program, feeding, reading,
     Clean, Placed, Styled, Reasons, Dead
<1>10. CASE Write \/ EndWriting
  BY <1>0, <1>10 DEF Write, EndWriting, setting, watching, ending, program, feeding, reading,
     Clean, Placed, Styled, Reasons, Dead
<1>11. CASE \E q \in Pipes : Read(q)
  BY <1>0, <1>11 DEF Read, Receive, setting, watching, ending, program, feeding, reading, Clean,
     Placed, Styled, Reasons, Dead
<1>12. CASE \E q \in Pipes : EndReading(q)
  BY <1>0, <1>12 DEF EndReading, setting, watching, ending, program, feeding, reading, Clean,
     Placed, Styled, Reasons, Dead
<1>13. CASE Consume
  BY <1>0, <1>13 DEF Consume, Receive, setting, watching, ending, program, feeding, reading,
     Clean, Placed, Styled, Reasons, Dead
<1>14. CASE \E content \in {"ok", "failed"} : EndConsuming(content)
  BY <1>0, <1>14 DEF EndConsuming, setting, watching, ending, program, feeding, reading, Clean,
     Placed, Styled, Reasons, Dead
<1>15. CASE Wait
  BY <1>0, <1>15 DEF Wait, setting, watching, ending, program, feeding, reading, Clean, Placed,
     Styled, Reasons, Dead
<1>16. CASE Fire
  BY <1>0, <1>16 DEF Fire, setting, watching, ending, program, feeding, reading, Clean, Placed,
     Styled, Reasons, Dead
<1>17. CASE WatchdogKills
  BY <1>0, <1>17 DEF WatchdogKills, Strike, setting, watching, ending, program, feeding,
     reading, Clean, Placed, Styled, Reasons, Dead
<1>18. CASE EndWatching
  BY <1>0, <1>18 DEF EndWatching, setting, watching, ending, program, feeding, reading, Clean,
     Placed, Styled, Reasons, Dead
<1>19. CASE Poll
  BY <1>0, <1>19 DEF Poll, setting, watching, ending, program, feeding, reading, Clean, Placed,
     Styled, Reasons, Dead
<1>20. CASE Check
  BY <1>0, <1>20 DEF Check, setting, watching, ending, program, feeding, reading, Clean, Placed,
     Styled, Reasons, Dead
<1>21. CASE Kill
  BY <1>0, <1>21 DEF Kill, Strike, ReturnsAtOnce, setting, watching, ending, program, feeding,
     reading, Clean, Placed, Styled, Reasons, Dead, TypeOK
<1>22. CASE Finish
  <2>1. Verdict # "none"
    BY <1>0, ChildrenAssumption DEF Verdict, GitVerdict, TypeOK, AllStyles
  <2> QED BY <1>0, <1>22, <2>1 DEF Finish, Return, program, Placed, Dead
<1>23. CASE NextStep
  BY <1>0, <1>23 DEF NextStep, setting, watching, ending, program, feeding, reading, Clean,
     Placed, Styled, Reasons, Dead
<1>24. CASE UNCHANGED vars
  BY <1>0, <1>24 DEF vars, Clean, Placed, Styled, Reasons, Dead
<1> QED BY <1>1, <1>2, <1>3, <1>4, <1>5, <1>6, <1>7, <1>8, <1>9, <1>10, <1>11, <1>12, <1>13,
   <1>14, <1>15, <1>16, <1>17, <1>18, <1>19, <1>20, <1>21, <1>22, <1>23, <1>24 DEF Next, Child,
   Main, Watchdog, Writer, Reader

LEMMA ReasonsStep == IInv /\ [Next]_vars => Reasons'
<1> SUFFICES ASSUME IInv, [Next]_vars PROVE Reasons'
  OBVIOUS
<1>0. TypeOK /\ Styled /\ Clean /\ Placed /\ Reasons
  BY DEF IInv
<1>1. CASE StartCancelled
  BY <1>0, <1>1 DEF StartCancelled, Return, setting, watching, ending, program, feeding,
     reading, Clean, Placed, Styled, Reasons, Dead, Reason
<1>2. CASE Proceed
  BY <1>0, <1>2 DEF Proceed, setting, watching, ending, program, feeding, reading, Clean,
     Placed, Styled, Reasons, Dead, Reason
<1>3. CASE CannotStart
  BY <1>0, <1>3 DEF CannotStart, Return, setting, watching, ending, program, feeding, reading,
     Clean, Placed, Styled, Reasons, Dead, Reason
<1>4. CASE \E input \in Inputs, output \in Amounts(Output) : Start(input, output)
  BY <1>0, <1>4 DEF Start, setting, Clean, Placed, Styled, Reasons, Dead, Reason
<1>5. CASE \E s \in {"cancel", "deadline"} : Signal(s)
  BY <1>0, <1>5 DEF Signal, setting, watching, ending, program, feeding, reading, Clean, Placed,
     Styled, Reasons, Dead, Reason
<1>6. CASE Hear
  BY <1>0, <1>6 DEF Hear, setting, watching, ending, program, feeding, reading, Clean, Placed,
     Styled, Reasons, Dead, Reason
<1>7. CASE \E q \in Pipes : Emit(q)
  BY <1>0, <1>7 DEF Emit, setting, watching, ending, program, feeding, reading, Clean, Placed,
     Styled, Reasons, Dead, Reason
<1>8. CASE \E status \in {"exited", "failed"} : Exit(status)
  BY <1>0, <1>8 DEF Exit, setting, watching, ending, program, feeding, reading, Clean, Placed,
     Styled, Reasons, Dead, Reason
<1>9. CASE Fork \/ HelperEnds
  BY <1>0, <1>9 DEF Fork, HelperEnds, setting, watching, ending, program, feeding, reading,
     Clean, Placed, Styled, Reasons, Dead, Reason
<1>10. CASE Write \/ EndWriting
  BY <1>0, <1>10 DEF Write, EndWriting, setting, watching, ending, program, feeding, reading,
     Clean, Placed, Styled, Reasons, Dead, Reason
<1>11. CASE \E q \in Pipes : Read(q)
  BY <1>0, <1>11 DEF Read, Receive, setting, watching, ending, program, feeding, reading, Clean,
     Placed, Styled, Reasons, Dead, Reason
<1>12. CASE \E q \in Pipes : EndReading(q)
  BY <1>0, <1>12 DEF EndReading, setting, watching, ending, program, feeding, reading, Clean,
     Placed, Styled, Reasons, Dead, Reason
<1>13. CASE Consume
  BY <1>0, <1>13 DEF Consume, Receive, setting, watching, ending, program, feeding, reading,
     Clean, Placed, Styled, Reasons, Dead, Reason
<1>14. CASE \E content \in {"ok", "failed"} : EndConsuming(content)
  BY <1>0, <1>14 DEF EndConsuming, setting, watching, ending, program, feeding, reading, Clean,
     Placed, Styled, Reasons, Dead, Reason
<1>15. CASE Wait
  BY <1>0, <1>15 DEF Wait, setting, watching, ending, program, feeding, reading, Clean, Placed,
     Styled, Reasons, Dead, Reason
<1>16. CASE Fire
  BY <1>0, <1>16 DEF Fire, setting, watching, ending, program, feeding, reading, Clean, Placed,
     Styled, Reasons, Dead, Reason
<1>17. CASE WatchdogKills
  BY <1>0, <1>17 DEF WatchdogKills, Strike, setting, watching, ending, program, feeding,
     reading, Clean, Placed, Styled, Reasons, Dead, Reason
<1>18. CASE EndWatching
  BY <1>0, <1>18 DEF EndWatching, setting, watching, ending, program, feeding, reading, Clean,
     Placed, Styled, Reasons, Dead, Reason
<1>19. CASE Poll
  BY <1>0, <1>19 DEF Poll, setting, watching, ending, program, feeding, reading, Clean, Placed,
     Styled, Reasons, Dead, Reason
<1>20. CASE Check
  <2>1. CASE UNCHANGED verdict /\ main' = "polling"
    BY <1>0, <1>20, <2>1 DEF Check, setting, watching, program, Styled, Reasons
  <2>2. ASSUME NEW s \in signals, verdict' = Reason(s)
        PROVE  Reasons'
    <3>1. s \in {"cancel", "deadline"}
      BY <1>0 DEF TypeOK
    <3> QED BY <1>0, <1>20, <2>2, <3>1 DEF Check, setting, watching, program, Styled, Reasons,
            Reason
  <2> QED BY <1>20, <2>1, <2>2 DEF Check
<1>21. CASE Kill
  BY <1>0, <1>21 DEF Kill, Strike, setting, watching, ending, program, feeding, reading, Clean,
     Placed, Styled, Reasons, Dead, Reason
<1>22. CASE Finish
  <2>1. /\ Verdict \in Verdicts
        /\ Verdict = "timeout" => expired = "yes"
        /\ Verdict = "cancelled" => "cancel" \in signals
    BY <1>0, ChildrenAssumption DEF Verdict, GitVerdict, TypeOK, AllStyles, Verdicts
  <2>2. /\ main' = "returned" /\ verdict' = IF verdict = "none" THEN Verdict ELSE verdict
        /\ main = "joining" /\ UNCHANGED <<style, signals, watchdog, expired, child>>
    BY <1>22 DEF Finish, Return, setting, watching, program
  <2>3. style # "git" /\ child = "killed" => verdict' \in {"timeout", "cancelled"}
    BY <1>0, <2>2 DEF Reasons
  <2> QED BY <1>0, <2>1, <2>2, <2>3 DEF Reasons
<1>23. CASE NextStep
  BY <1>0, <1>23 DEF NextStep, setting, watching, ending, program, feeding, reading, Clean,
     Placed, Styled, Reasons, Dead, Reason
<1>24. CASE UNCHANGED vars
  BY <1>0, <1>24 DEF vars, Clean, Placed, Styled, Reasons, Dead, Reason
<1> QED BY <1>1, <1>2, <1>3, <1>4, <1>5, <1>6, <1>7, <1>8, <1>9, <1>10, <1>11, <1>12, <1>13,
   <1>14, <1>15, <1>16, <1>17, <1>18, <1>19, <1>20, <1>21, <1>22, <1>23, <1>24 DEF Next, Child,
   Main, Watchdog, Writer, Reader

LEMMA DrainsStep == IInv /\ [Next]_vars => Drains'
<1> SUFFICES ASSUME IInv, [Next]_vars PROVE Drains'
  OBVIOUS
<1>0. TypeOK /\ Styled /\ Clean /\ Placed /\ Drains
  BY DEF IInv
<1>1. CASE StartCancelled
  BY <1>0, <1>1 DEF StartCancelled, Return, setting, watching, ending, program, feeding,
     reading, Clean, Placed, Styled, Drains, Drained, AtEnd, Dead
<1>2. CASE Proceed
  BY <1>0, <1>2 DEF Proceed, setting, watching, ending, program, feeding, reading, Clean,
     Placed, Styled, Drains, Drained, AtEnd, Dead
<1>3. CASE CannotStart
  BY <1>0, <1>3 DEF CannotStart, Return, setting, watching, ending, program, feeding, reading,
     Clean, Placed, Styled, Drains, Drained, AtEnd, Dead
<1>4. CASE \E input \in Inputs, output \in Amounts(Output) : Start(input, output)
  BY <1>0, <1>4 DEF Start, setting, Pipes, Drains, Drained
<1>5. CASE \E s \in {"cancel", "deadline"} : Signal(s)
  BY <1>0, <1>5 DEF Signal, setting, watching, ending, program, feeding, reading, Clean, Placed,
     Styled, Drains, Drained, AtEnd, Dead
<1>6. CASE Hear
  BY <1>0, <1>6 DEF Hear, setting, watching, ending, program, feeding, reading, Clean, Placed,
     Styled, Drains, Drained, AtEnd, Dead
<1>7. CASE \E q \in Pipes : Emit(q)
  BY <1>0, <1>7 DEF Emit, setting, watching, ending, program, feeding, reading, Clean, Placed,
     Styled, Drains, Drained, AtEnd, Dead
<1>8. CASE \E status \in {"exited", "failed"} : Exit(status)
  BY <1>0, <1>8 DEF Exit, setting, watching, ending, program, feeding, reading, Clean, Placed,
     Styled, Drains, Drained, AtEnd, Dead
<1>9. CASE Fork \/ HelperEnds
  BY <1>0, <1>9 DEF Fork, HelperEnds, setting, watching, ending, program, feeding, reading,
     Clean, Placed, Styled, Drains, Drained, AtEnd, Dead
<1>10. CASE Write \/ EndWriting
  BY <1>0, <1>10 DEF Write, EndWriting, setting, watching, ending, program, feeding, reading,
     Clean, Placed, Styled, Drains, Drained, AtEnd, Dead
<1>11. CASE \E q \in Pipes : Read(q)
  <2> SUFFICES ASSUME NEW q \in Pipes, Read(q) PROVE Drains'
    BY <1>11
  <2>1. /\ pipe[q] > 0 /\ pipe' = [pipe EXCEPT ![q] = @ - 1] /\ reader[q] = "reading"
        /\ reader' = [reader EXCEPT ![q] = IF LetsGo(q) THEN "over" ELSE "reading"]
        /\ UNCHANGED <<style, child, consumed>> /\ ~(style = "git" /\ q = "out")
    BY DEF Read, Receive, Reads, ByThread, setting, program
  <2>2. style # "git" => ~LetsGo(q)
    BY DEF LetsGo
  <2>3. pipe \in [Pipes -> 0..Room] /\ reader \in [Pipes -> {"reading", "over"}]
    BY <1>0 DEF TypeOK, Amounts
  <2> QED BY <1>0, <2>1, <2>2, <2>3 DEF Drains, Drained, Pipes
<1>12. CASE \E q \in Pipes : EndReading(q)
  BY <1>0, <1>12 DEF EndReading, setting, watching, ending, program, feeding, reading, Clean,
     Placed, Styled, Drains, Drained, AtEnd, Dead
<1>13. CASE Consume
  BY <1>0, <1>13 DEF Consume, Receive, setting, watching, ending, program, feeding, reading,
     Clean, Placed, Styled, Drains, Drained, AtEnd, Dead
<1>14. CASE \E content \in {"ok", "failed"} : EndConsuming(content)
  BY <1>0, <1>14 DEF EndConsuming, setting, watching, ending, program, feeding, reading, Clean,
     Placed, Styled, Drains, Drained, AtEnd, Dead
<1>15. CASE Wait
  BY <1>0, <1>15 DEF Wait, setting, watching, ending, program, feeding, reading, Clean, Placed,
     Styled, Drains, Drained, AtEnd, Dead
<1>16. CASE Fire
  BY <1>0, <1>16 DEF Fire, setting, watching, ending, program, feeding, reading, Clean, Placed,
     Styled, Drains, Drained, AtEnd, Dead
<1>17. CASE WatchdogKills
  BY <1>0, <1>17 DEF WatchdogKills, Strike, setting, watching, ending, program, feeding,
     reading, Clean, Placed, Styled, Drains, Drained, AtEnd, Dead
<1>18. CASE EndWatching
  BY <1>0, <1>18 DEF EndWatching, setting, watching, ending, program, feeding, reading, Clean,
     Placed, Styled, Drains, Drained, AtEnd, Dead
<1>19. CASE Poll
  BY <1>0, <1>19 DEF Poll, setting, watching, ending, program, feeding, reading, Clean, Placed,
     Styled, Drains, Drained, AtEnd, Dead
<1>20. CASE Check
  BY <1>0, <1>20 DEF Check, setting, watching, ending, program, feeding, reading, Clean, Placed,
     Styled, Drains, Drained, AtEnd, Dead
<1>21. CASE Kill
  BY <1>0, <1>21 DEF Kill, Strike, setting, watching, ending, program, feeding, reading, Clean,
     Placed, Styled, Drains, Drained, AtEnd, Dead
<1>22. CASE Finish
  BY <1>0, <1>22 DEF Finish, Return, setting, watching, ending, program, feeding, reading,
     Clean, Placed, Styled, Drains, Drained, AtEnd, Dead
<1>23. CASE NextStep
  BY <1>0, <1>23 DEF NextStep, setting, watching, ending, program, feeding, reading, Clean,
     Placed, Styled, Drains, Drained, AtEnd, Dead
<1>24. CASE UNCHANGED vars
  BY <1>0, <1>24 DEF vars, Clean, Placed, Styled, Drains, Drained, AtEnd, Dead
<1> QED BY <1>1, <1>2, <1>3, <1>4, <1>5, <1>6, <1>7, <1>8, <1>9, <1>10, <1>11, <1>12, <1>13,
   <1>14, <1>15, <1>16, <1>17, <1>18, <1>19, <1>20, <1>21, <1>22, <1>23, <1>24 DEF Next, Child,
   Main, Watchdog, Writer, Reader

LEMMA SettledStep == IInv /\ [Next]_vars => Settled'
<1> SUFFICES ASSUME IInv, [Next]_vars PROVE Settled'
  OBVIOUS
<1>0. TypeOK /\ Styled /\ Clean /\ Placed /\ Reasons /\ Drains /\ Settled
  BY DEF IInv
<1>1. CASE StartCancelled
  BY <1>0, <1>1 DEF StartCancelled, Return, setting, watching, ending, program, feeding,
     reading, Clean, Placed, Styled, Drains, Drained, Settled, Reasons
<1>2. CASE Proceed
  BY <1>0, <1>2 DEF Proceed, setting, watching, ending, program, feeding, reading, Clean,
     Placed, Styled, Drains, Drained, Settled, Reasons
<1>3. CASE CannotStart
  BY <1>0, <1>3 DEF CannotStart, Return, setting, watching, ending, program, feeding, reading,
     Clean, Placed, Styled, Drains, Drained, Settled, Reasons
<1>4. CASE \E input \in Inputs, output \in Amounts(Output) : Start(input, output)
  BY <1>0, <1>4 DEF Start, setting, Clean, Placed, Styled, Drains, Drained, Settled, Reasons
<1>5. CASE \E s \in {"cancel", "deadline"} : Signal(s)
  BY <1>0, <1>5 DEF Signal, setting, watching, ending, program, feeding, reading, Clean, Placed,
     Styled, Drains, Drained, Settled, Reasons
<1>6. CASE Hear
  BY <1>0, <1>6 DEF Hear, setting, watching, ending, program, feeding, reading, Clean, Placed,
     Styled, Drains, Drained, Settled, Reasons
<1>7. CASE \E q \in Pipes : Emit(q)
  BY <1>0, <1>7 DEF Emit, setting, watching, ending, program, feeding, reading, Clean, Placed,
     Styled, Drains, Drained, Settled, Reasons
<1>8. CASE \E status \in {"exited", "failed"} : Exit(status)
  BY <1>0, <1>8 DEF Exit, setting, watching, ending, program, feeding, reading, Clean, Placed,
     Styled, Drains, Drained, Settled, Reasons
<1>9. CASE Fork \/ HelperEnds
  BY <1>0, <1>9 DEF Fork, HelperEnds, setting, watching, ending, program, feeding, reading,
     Clean, Placed, Styled, Drains, Drained, Settled, Reasons
<1>10. CASE Write \/ EndWriting
  BY <1>0, <1>10 DEF Write, EndWriting, setting, watching, ending, program, feeding, reading,
     Clean, Placed, Styled, Drains, Drained, Settled, Reasons
<1>11. CASE \E q \in Pipes : Read(q)
  BY <1>0, <1>11 DEF Read, Receive, setting, watching, ending, program, feeding, reading, Clean,
     Placed, Styled, Drains, Drained, Settled, Reasons
<1>12. CASE \E q \in Pipes : EndReading(q)
  BY <1>0, <1>12 DEF EndReading, setting, watching, ending, program, feeding, reading, Clean,
     Placed, Styled, Drains, Drained, Settled, Reasons
<1>13. CASE Consume
  BY <1>0, <1>13 DEF Consume, Receive, setting, watching, ending, program, feeding, reading,
     Clean, Placed, Styled, Drains, Drained, Settled, Reasons
<1>14. CASE \E content \in {"ok", "failed"} : EndConsuming(content)
  BY <1>0, <1>14 DEF EndConsuming, setting, watching, ending, program, feeding, reading, Clean,
     Placed, Styled, Drains, Drained, Settled, Reasons
<1>15. CASE Wait
  BY <1>0, <1>15 DEF Wait, setting, watching, ending, program, feeding, reading, Clean, Placed,
     Styled, Drains, Drained, Settled, Reasons
<1>16. CASE Fire
  BY <1>0, <1>16 DEF Fire, setting, watching, ending, program, feeding, reading, Clean, Placed,
     Styled, Drains, Drained, Settled, Reasons
<1>17. CASE WatchdogKills
  BY <1>0, <1>17 DEF WatchdogKills, Strike, setting, watching, ending, program, feeding,
     reading, Clean, Placed, Styled, Drains, Drained, Settled, Reasons
<1>18. CASE EndWatching
  BY <1>0, <1>18 DEF EndWatching, setting, watching, ending, program, feeding, reading, Clean,
     Placed, Styled, Drains, Drained, Settled, Reasons
<1>19. CASE Poll
  BY <1>0, <1>19 DEF Poll, setting, watching, ending, program, feeding, reading, Clean, Placed,
     Styled, Drains, Drained, Settled, Reasons
<1>20. CASE Check
  BY <1>0, <1>20 DEF Check, setting, watching, ending, program, feeding, reading, Clean, Placed,
     Styled, Drains, Drained, Settled, Reasons
<1>21. CASE Kill
  BY <1>0, <1>21 DEF Kill, Strike, setting, watching, ending, program, feeding, reading, Clean,
     Placed, Styled, Drains, Drained, Settled, Reasons
<1>22. CASE Finish
  <2>1. /\ main = "joining" /\ verdict' = IF verdict = "none" THEN Verdict ELSE verdict
        /\ UNCHANGED <<style, child, reader, consumed, got, expired, signals>>
    BY <1>22 DEF Finish, Return, program, reading, setting, watching
  <2>2. verdict \in {"none", "timeout", "cancelled"} /\ (style = "git" => verdict = "none")
    BY <1>0, <2>1 DEF Reasons
  <2>3. ASSUME verdict' = "ok"
        PROVE  /\ child = "exited"
               /\ style # "provider" => reader["out"] = "over"
               /\ style = "git" => consumed = "ok"
               /\ style \in {"plugin", "command"} => reader["err"] = "over"
               /\ style = "plugin" => got["out"] <= MaxKept
    <3>1. Verdict = "ok" /\ style \in AllStyles
      BY <1>0, <2>1, <2>2, <2>3, ChildrenAssumption DEF TypeOK
    <3>2. child = "exited" /\ (style = "git" => consumed = "ok")
      BY <3>1 DEF Verdict, GitVerdict, AllStyles
    <3>3. style = "plugin" => ~(got["out"] > MaxKept)
      BY <3>1 DEF Verdict, Exceeded
    <3>4. got["out"] \in Nat /\ MaxKept \in Nat
      BY <1>0, ChildrenAssumption DEF TypeOK, Amounts, Pipes
    <3>5. style # "provider" => reader["out"] = "over" /\ reader["err"] = "over"
      BY <1>22 DEF Finish, Served, GivesUp, Waits
    <3> QED BY <3>2, <3>3, <3>4, <3>5
  <2>4. ASSUME child = "killed" PROVE verdict' \in {"timeout", "cancelled"}
    <3>1. CASE style = "git"
      BY <1>0, <2>1, <2>2, <2>4, <3>1 DEF Reasons, Verdict, GitVerdict
    <3>2. CASE style # "git"
      BY <1>0, <2>1, <2>4, <3>2 DEF Reasons
    <3> QED BY <3>1, <3>2
  <2> QED BY <2>1, <2>3, <2>4 DEF Settled
<1>23. CASE NextStep
  BY <1>0, <1>23 DEF NextStep, setting, watching, ending, program, feeding, reading, Clean,
     Placed, Styled, Drains, Drained, Settled, Reasons
<1>24. CASE UNCHANGED vars
  BY <1>0, <1>24 DEF vars, Clean, Placed, Styled, Drains, Drained, Settled, Reasons
<1> QED BY <1>1, <1>2, <1>3, <1>4, <1>5, <1>6, <1>7, <1>8, <1>9, <1>10, <1>11, <1>12, <1>13,
   <1>14, <1>15, <1>16, <1>17, <1>18, <1>19, <1>20, <1>21, <1>22, <1>23, <1>24 DEF Next, Child,
   Main, Watchdog, Writer, Reader

LEMMA AccountsStep == IInv /\ [Next]_vars => Accounts'
<1> SUFFICES ASSUME IInv, [Next]_vars PROVE Accounts'
  OBVIOUS
<1>0. TypeOK /\ Accounts /\ Clean /\ Output \in Nat /\ Room \in Nat
  BY ChildrenAssumption DEF IInv
<1>1. CASE StartCancelled
  BY <1>0, <1>1 DEF StartCancelled, Return, setting, watching, ending, program, feeding,
     reading, Accounts, Clean, TypeOK, Amounts, Pipes
<1>2. CASE Proceed
  BY <1>0, <1>2 DEF Proceed, setting, watching, ending, program, feeding, reading, Accounts,
     Clean, TypeOK, Amounts, Pipes
<1>3. CASE CannotStart
  BY <1>0, <1>3 DEF CannotStart, Return, setting, watching, ending, program, feeding, reading,
     Accounts, Clean, TypeOK, Amounts, Pipes
<1>4. CASE \E input \in Inputs, output \in Amounts(Output) : Start(input, output)
  BY <1>0, <1>4 DEF Start, setting, Accounts, Clean, TypeOK, Amounts, Pipes
<1>5. CASE \E s \in {"cancel", "deadline"} : Signal(s)
  BY <1>0, <1>5 DEF Signal, setting, watching, ending, program, feeding, reading, Accounts,
     Clean, TypeOK, Amounts, Pipes
<1>6. CASE Hear
  BY <1>0, <1>6 DEF Hear, setting, watching, ending, program, feeding, reading, Accounts, Clean,
     TypeOK, Amounts, Pipes
<1>7. CASE \E q \in Pipes : Emit(q)
  <2> SUFFICES ASSUME NEW q \in Pipes, Emit(q) PROVE Accounts'
    BY <1>7
  <2>1. pipe \in [Pipes -> Nat] /\ toPrint \in [Pipes -> Nat] /\ got \in [Pipes -> Nat]
    BY <1>0 DEF TypeOK, Amounts
  <2>2. CASE UNCHANGED <<pipe, toPrint, got>>
    BY <1>0, <2>2 DEF Accounts
  <2>3. CASE /\ pipe' = [pipe EXCEPT ![q] = @ + 1] /\ toPrint' = [toPrint EXCEPT ![q] = @ - 1]
             /\ toPrint[q] > 0 /\ got' = got
    <3> SUFFICES ASSUME NEW r \in Pipes PROVE got[r] + pipe'[r] + toPrint'[r] <= Output
      BY <2>3 DEF Accounts
    <3>1. got[r] + pipe[r] + toPrint[r] <= Output
      BY <1>0 DEF Accounts
    <3>2. pipe'[r] + toPrint'[r] = pipe[r] + toPrint[r]
      BY <2>1, <2>3
    <3>3. pipe'[r] \in Nat /\ toPrint'[r] \in Int /\ got[r] \in Nat
      BY <2>1, <2>3
    <3> QED BY <1>0, <2>1, <3>1, <3>2, <3>3
  <2> QED BY <2>2, <2>3 DEF Emit
<1>8. CASE \E status \in {"exited", "failed"} : Exit(status)
  BY <1>0, <1>8 DEF Exit, setting, watching, ending, program, feeding, reading, Accounts, Clean,
     TypeOK, Amounts, Pipes
<1>9. CASE Fork \/ HelperEnds
  BY <1>0, <1>9 DEF Fork, HelperEnds, setting, watching, ending, program, feeding, reading,
     Accounts, Clean, TypeOK, Amounts, Pipes
<1>10. CASE Write \/ EndWriting
  BY <1>0, <1>10 DEF Write, EndWriting, setting, watching, ending, program, feeding, reading,
     Accounts, Clean, TypeOK, Amounts, Pipes
<1>11. CASE \E q \in Pipes : Read(q)
  BY <1>0, <1>11 DEF Read, Receive, setting, watching, ending, program, feeding, reading,
     Accounts, Clean, TypeOK, Amounts, Pipes
<1>12. CASE \E q \in Pipes : EndReading(q)
  BY <1>0, <1>12 DEF EndReading, setting, watching, ending, program, feeding, reading, Accounts,
     Clean, TypeOK, Amounts, Pipes
<1>13. CASE Consume
  BY <1>0, <1>13 DEF Consume, Receive, setting, watching, ending, program, feeding, reading,
     Accounts, Clean, TypeOK, Amounts, Pipes
<1>14. CASE \E content \in {"ok", "failed"} : EndConsuming(content)
  BY <1>0, <1>14 DEF EndConsuming, setting, watching, ending, program, feeding, reading,
     Accounts, Clean, TypeOK, Amounts, Pipes
<1>15. CASE Wait
  BY <1>0, <1>15 DEF Wait, setting, watching, ending, program, feeding, reading, Accounts,
     Clean, TypeOK, Amounts, Pipes
<1>16. CASE Fire
  BY <1>0, <1>16 DEF Fire, setting, watching, ending, program, feeding, reading, Accounts,
     Clean, TypeOK, Amounts, Pipes
<1>17. CASE WatchdogKills
  BY <1>0, <1>17 DEF WatchdogKills, Strike, setting, watching, ending, program, feeding,
     reading, Accounts, Clean, TypeOK, Amounts, Pipes
<1>18. CASE EndWatching
  BY <1>0, <1>18 DEF EndWatching, setting, watching, ending, program, feeding, reading,
     Accounts, Clean, TypeOK, Amounts, Pipes
<1>19. CASE Poll
  BY <1>0, <1>19 DEF Poll, setting, watching, ending, program, feeding, reading, Accounts,
     Clean, TypeOK, Amounts, Pipes
<1>20. CASE Check
  BY <1>0, <1>20 DEF Check, setting, watching, ending, program, feeding, reading, Accounts,
     Clean, TypeOK, Amounts, Pipes
<1>21. CASE Kill
  BY <1>0, <1>21 DEF Kill, Strike, setting, watching, ending, program, feeding, reading,
     Accounts, Clean, TypeOK, Amounts, Pipes
<1>22. CASE Finish
  BY <1>0, <1>22 DEF Finish, Return, setting, watching, ending, program, feeding, reading,
     Accounts, Clean, TypeOK, Amounts, Pipes
<1>23. CASE NextStep
  <2> SUFFICES ASSUME NEW q \in Pipes PROVE got'[q] + pipe'[q] + toPrint'[q] <= Output
    BY DEF Accounts
  <2>1. got'[q] = 0 /\ pipe'[q] = pipe[q] /\ toPrint'[q] = toPrint[q]
    BY <1>23 DEF NextStep, Nothing
  <2>2. /\ got[q] \in Nat /\ pipe[q] \in Nat /\ toPrint[q] \in Nat
        /\ got[q] + pipe[q] + toPrint[q] <= Output
    BY <1>0 DEF TypeOK, Amounts, Accounts
  <2> QED BY <1>0, <2>1, <2>2
<1>24. CASE UNCHANGED vars
  BY <1>0, <1>24 DEF vars, Accounts, Clean, TypeOK, Amounts, Pipes
<1> QED BY <1>1, <1>2, <1>3, <1>4, <1>5, <1>6, <1>7, <1>8, <1>9, <1>10, <1>11, <1>12, <1>13,
   <1>14, <1>15, <1>16, <1>17, <1>18, <1>19, <1>20, <1>21, <1>22, <1>23, <1>24 DEF Next, Child,
   Main, Watchdog, Writer, Reader

(* The types, of words, of numbers and of what each output has.            *)
Words ==
  /\ style \in Styles /\ habit \in Habits /\ signals \subseteq {"cancel", "deadline"}
  /\ main \in {"starting", "spawning", "consuming", "waiting", "polling",
              "checking", "killing", "joining", "returned"}
  /\ watchdog \in {"none", "watching", "killing", "over"} /\ expired \in {"no", "yes"}
  /\ child \in {"none", "running", "exited", "failed", "broken", "killed"}
  /\ helper \in {"none", "alive", "gone"} /\ writer \in {"writing", "over"}
  /\ consumed \in {"ok", "failed"} /\ verdict \in Verdicts \cup {"none"}

Numbers == steps \in 1..MaxSteps /\ in \in 0..Room /\ toWrite \in 0..Input

Outputs ==
  /\ pipe \in Amounts(Room) /\ toPrint \in Amounts(Output) /\ got \in Amounts(Output)
  /\ reader \in [Pipes -> {"reading", "over"}]

LEMMA WordsStep == IInv /\ [Next]_vars => Words'
<1> SUFFICES ASSUME IInv, [Next]_vars PROVE Words'
  OBVIOUS
<1>0. Words
  BY DEF IInv, TypeOK, Words
<1>1. CASE StartCancelled
  BY <1>0, <1>1 DEF StartCancelled, Return, setting, watching, ending, program, feeding,
     reading, Words, Verdicts
<1>2. CASE Proceed
  BY <1>0, <1>2 DEF Proceed, setting, watching, ending, program, feeding, reading, Words,
     Verdicts
<1>3. CASE CannotStart
  BY <1>0, <1>3 DEF CannotStart, Return, setting, watching, ending, program, feeding, reading,
     Words, Verdicts
<1>4. CASE \E input \in Inputs, output \in Amounts(Output) : Start(input, output)
  BY <1>0, <1>4 DEF Start, setting, Words, Verdicts
<1>5. CASE \E s \in {"cancel", "deadline"} : Signal(s)
  BY <1>0, <1>5 DEF Signal, setting, watching, ending, program, feeding, reading, Words,
     Verdicts
<1>6. CASE Hear
  BY <1>0, <1>6, ZenonT(40) DEF Hear, setting, watching, ending, program, feeding, reading,
     Words, Verdicts
<1>7. CASE \E q \in Pipes : Emit(q)
  BY <1>0, <1>7 DEF Emit, setting, watching, ending, program, feeding, reading, Words, Verdicts
<1>8. CASE \E status \in {"exited", "failed"} : Exit(status)
  BY <1>0, <1>8 DEF Exit, setting, watching, ending, program, feeding, reading, Words, Verdicts
<1>9. CASE Fork \/ HelperEnds
  BY <1>0, <1>9 DEF Fork, HelperEnds, setting, watching, ending, program, feeding, reading,
     Words, Verdicts
<1>10. CASE Write \/ EndWriting
  BY <1>0, <1>10 DEF Write, EndWriting, setting, watching, ending, program, feeding, reading,
     Words, Verdicts
<1>11. CASE \E q \in Pipes : Read(q)
  BY <1>0, <1>11 DEF Read, Receive, setting, watching, ending, program, feeding, reading, Words,
     Verdicts
<1>12. CASE \E q \in Pipes : EndReading(q)
  BY <1>0, <1>12 DEF EndReading, setting, watching, ending, program, feeding, reading, Words,
     Verdicts
<1>13. CASE Consume
  BY <1>0, <1>13 DEF Consume, Receive, setting, watching, ending, program, feeding, reading,
     Words, Verdicts
<1>14. CASE \E content \in {"ok", "failed"} : EndConsuming(content)
  BY <1>0, <1>14 DEF EndConsuming, setting, watching, ending, program, feeding, reading, Words,
     Verdicts
<1>15. CASE Wait
  BY <1>0, <1>15 DEF Wait, setting, watching, ending, program, feeding, reading, Words, Verdicts
<1>16. CASE Fire
  BY <1>0, <1>16 DEF Fire, setting, watching, ending, program, feeding, reading, Words, Verdicts
<1>17. CASE WatchdogKills
  BY <1>0, <1>17 DEF WatchdogKills, Strike, setting, watching, ending, program, feeding,
     reading, Words, Verdicts
<1>18. CASE EndWatching
  BY <1>0, <1>18 DEF EndWatching, setting, watching, ending, program, feeding, reading, Words,
     Verdicts
<1>19. CASE Poll
  BY <1>0, <1>19 DEF Poll, setting, watching, ending, program, feeding, reading, Words, Verdicts
<1>20. CASE Check
  BY <1>0, <1>20 DEF Check, Reason, setting, watching, ending, program, feeding, reading, Words,
     Verdicts
<1>21. CASE Kill
  BY <1>0, <1>21 DEF Kill, Strike, setting, watching, ending, program, feeding, reading, Words,
     Verdicts
<1>22. CASE Finish
  <2>1. Verdict \in Verdicts
    BY <1>0, ChildrenAssumption DEF Verdict, GitVerdict, Words, AllStyles, Verdicts
  <2> QED BY <1>0, <1>22, <2>1 DEF Finish, Return, setting, watching, program, feeding,
          reading, Words
<1>23. CASE NextStep
  BY <1>0, <1>23 DEF NextStep, setting, watching, ending, program, feeding, reading, Words,
     Verdicts
<1>24. CASE UNCHANGED vars
  BY <1>0, <1>24 DEF vars, Words, Verdicts
<1> QED BY <1>1, <1>2, <1>3, <1>4, <1>5, <1>6, <1>7, <1>8, <1>9, <1>10, <1>11, <1>12, <1>13,
   <1>14, <1>15, <1>16, <1>17, <1>18, <1>19, <1>20, <1>21, <1>22, <1>23, <1>24 DEF Next, Child,
   Main, Watchdog, Writer, Reader

LEMMA NumbersStep == IInv /\ [Next]_vars => Numbers'
<1> SUFFICES ASSUME IInv, [Next]_vars PROVE Numbers'
  OBVIOUS
<1>0. Numbers /\ Input \in Nat /\ Room \in Nat \ {0} /\ MaxSteps \in Nat
  BY ChildrenAssumption DEF IInv, TypeOK, Numbers
<1>1. CASE StartCancelled
  BY <1>0, <1>1 DEF StartCancelled, Return, setting, watching, ending, program, feeding,
     reading, Numbers
<1>2. CASE Proceed
  BY <1>0, <1>2 DEF Proceed, setting, watching, ending, program, feeding, reading, Numbers
<1>3. CASE CannotStart
  BY <1>0, <1>3 DEF CannotStart, Return, setting, watching, ending, program, feeding, reading,
     Numbers
<1>4. CASE \E input \in Inputs, output \in Amounts(Output) : Start(input, output)
  BY <1>0, <1>4 DEF Start, Inputs, setting, Numbers
<1>5. CASE \E s \in {"cancel", "deadline"} : Signal(s)
  BY <1>0, <1>5 DEF Signal, setting, watching, ending, program, feeding, reading, Numbers
<1>6. CASE Hear
  <2>1. in \in 0..Room /\ in > 0 /\ in' = in - 1 /\ UNCHANGED <<steps, toWrite>>
    BY <1>0, <1>6 DEF Hear, setting, Numbers
  <2>2. in' \in 0..Room
    BY <1>0, <2>1
  <2> QED BY <1>0, <2>1, <2>2 DEF Numbers
<1>7. CASE \E q \in Pipes : Emit(q)
  BY <1>0, <1>7 DEF Emit, setting, watching, ending, program, feeding, reading, Numbers
<1>8. CASE \E status \in {"exited", "failed"} : Exit(status)
  BY <1>0, <1>8 DEF Exit, setting, watching, ending, program, feeding, reading, Numbers
<1>9. CASE Fork \/ HelperEnds
  BY <1>0, <1>9 DEF Fork, HelperEnds, setting, watching, ending, program, feeding, reading,
     Numbers
<1>10. CASE Write \/ EndWriting
  BY <1>0, <1>10 DEF Write, EndWriting, setting, watching, ending, program, feeding, reading,
     Numbers
<1>11. CASE \E q \in Pipes : Read(q)
  BY <1>0, <1>11 DEF Read, Receive, setting, watching, ending, program, feeding, reading,
     Numbers
<1>12. CASE \E q \in Pipes : EndReading(q)
  BY <1>0, <1>12 DEF EndReading, setting, watching, ending, program, feeding, reading, Numbers
<1>13. CASE Consume
  BY <1>0, <1>13 DEF Consume, Receive, setting, watching, ending, program, feeding, reading,
     Numbers
<1>14. CASE \E content \in {"ok", "failed"} : EndConsuming(content)
  BY <1>0, <1>14 DEF EndConsuming, setting, watching, ending, program, feeding, reading, Numbers
<1>15. CASE Wait
  BY <1>0, <1>15 DEF Wait, setting, watching, ending, program, feeding, reading, Numbers
<1>16. CASE Fire
  BY <1>0, <1>16 DEF Fire, setting, watching, ending, program, feeding, reading, Numbers
<1>17. CASE WatchdogKills
  BY <1>0, <1>17 DEF WatchdogKills, Strike, setting, watching, ending, program, feeding,
     reading, Numbers
<1>18. CASE EndWatching
  BY <1>0, <1>18 DEF EndWatching, setting, watching, ending, program, feeding, reading, Numbers
<1>19. CASE Poll
  BY <1>0, <1>19 DEF Poll, setting, watching, ending, program, feeding, reading, Numbers
<1>20. CASE Check
  BY <1>0, <1>20 DEF Check, setting, watching, ending, program, feeding, reading, Numbers
<1>21. CASE Kill
  BY <1>0, <1>21 DEF Kill, Strike, setting, watching, ending, program, feeding, reading, Numbers
<1>22. CASE Finish
  BY <1>0, <1>22 DEF Finish, Return, setting, watching, ending, program, feeding, reading,
     Numbers
<1>23. CASE NextStep
  BY <1>0, <1>23 DEF NextStep, MoreToDo, Numbers
<1>24. CASE UNCHANGED vars
  BY <1>0, <1>24 DEF vars, Numbers
<1> QED BY <1>1, <1>2, <1>3, <1>4, <1>5, <1>6, <1>7, <1>8, <1>9, <1>10, <1>11, <1>12, <1>13,
   <1>14, <1>15, <1>16, <1>17, <1>18, <1>19, <1>20, <1>21, <1>22, <1>23, <1>24 DEF Next, Child,
   Main, Watchdog, Writer, Reader

LEMMA ReceiveTypes ==
  ASSUME Outputs, Accounts, Output \in Nat, Room \in Nat, NEW q \in Pipes, Receive(q)
  PROVE  pipe' \in Amounts(Room) /\ got' \in Amounts(Output)
<1>1. pipe[q] \in 0..Room /\ toPrint[q] \in Nat /\ got[q] \in 0..Output
  BY DEF Outputs, Amounts
<1>2. pipe[q] > 0 /\ got[q] + pipe[q] + toPrint[q] <= Output
  BY DEF Receive, Accounts
<1>3. pipe[q] - 1 \in 0..Room /\ got[q] + 1 \in 0..Output
  BY <1>1, <1>2
<1> QED BY <1>3 DEF Receive, Outputs, Amounts

LEMMA OutputsStep == IInv /\ [Next]_vars => Outputs'
<1> SUFFICES ASSUME IInv, [Next]_vars PROVE Outputs'
  OBVIOUS
<1>0. Outputs /\ Accounts /\ Output \in Nat /\ Room \in Nat
  BY ChildrenAssumption DEF IInv, TypeOK, Outputs
<1>1. CASE StartCancelled
  BY <1>0, <1>1 DEF StartCancelled, Return, setting, watching, ending, program, feeding,
     reading, Outputs
<1>2. CASE Proceed
  BY <1>0, <1>2 DEF Proceed, setting, watching, ending, program, feeding, reading, Outputs
<1>3. CASE CannotStart
  BY <1>0, <1>3 DEF CannotStart, Return, setting, watching, ending, program, feeding, reading,
     Outputs
<1>4. CASE \E input \in Inputs, output \in Amounts(Output) : Start(input, output)
  BY <1>0, <1>4 DEF Start, Outputs, Amounts
<1>5. CASE \E s \in {"cancel", "deadline"} : Signal(s)
  BY <1>0, <1>5 DEF Signal, setting, watching, ending, program, feeding, reading, Outputs
<1>6. CASE Hear
  BY <1>0, <1>6 DEF Hear, setting, watching, ending, program, feeding, reading, Outputs
<1>7. CASE \E q \in Pipes : Emit(q)
  <2> SUFFICES ASSUME NEW q \in Pipes, Emit(q) PROVE Outputs'
    BY <1>7
  <2>1. CASE UNCHANGED <<pipe, toPrint, got, reader>>
    BY <1>0, <2>1 DEF Outputs
  <2>2. CASE /\ pipe[q] < Room /\ pipe' = [pipe EXCEPT ![q] = @ + 1]
             /\ toPrint[q] > 0 /\ toPrint' = [toPrint EXCEPT ![q] = @ - 1]
             /\ UNCHANGED <<got, reader>>
    <3>1. pipe[q] \in 0..Room /\ toPrint[q] \in 0..Output
      BY <1>0 DEF Outputs, Amounts
    <3>2. pipe[q] + 1 \in 0..Room /\ toPrint[q] - 1 \in 0..Output
      BY <1>0, <2>2, <3>1
    <3> QED BY <1>0, <2>2, <3>2 DEF Outputs, Amounts
  <2> QED BY <2>1, <2>2 DEF Emit
<1>8. CASE \E status \in {"exited", "failed"} : Exit(status)
  BY <1>0, <1>8 DEF Exit, setting, watching, ending, program, feeding, reading, Outputs
<1>9. CASE Fork \/ HelperEnds
  BY <1>0, <1>9 DEF Fork, HelperEnds, setting, watching, ending, program, feeding, reading,
     Outputs
<1>10. CASE Write \/ EndWriting
  BY <1>0, <1>10 DEF Write, EndWriting, setting, watching, ending, program, feeding, reading,
     Outputs
<1>11. CASE \E q \in Pipes : Read(q)
  <2> SUFFICES ASSUME NEW q \in Pipes, Read(q) PROVE Outputs'
    BY <1>11
  <2>1. Receive(q) /\ UNCHANGED toPrint /\ reader' \in [Pipes -> {"reading", "over"}]
    BY <1>0 DEF Read, program, Outputs
  <2> QED BY <1>0, <2>1, ReceiveTypes DEF Outputs
<1>12. CASE \E q \in Pipes : EndReading(q)
  BY <1>0, <1>12 DEF EndReading, setting, watching, ending, program, feeding, reading, Outputs
<1>13. CASE Consume
  <2>1. "out" \in Pipes /\ Receive("out") /\ UNCHANGED <<toPrint, reader>>
    BY <1>13 DEF Consume, program, Pipes
  <2> QED BY <1>0, <2>1, ReceiveTypes DEF Outputs
<1>14. CASE \E content \in {"ok", "failed"} : EndConsuming(content)
  BY <1>0, <1>14 DEF EndConsuming, program, Outputs, Pipes
<1>15. CASE Wait
  BY <1>0, <1>15 DEF Wait, setting, watching, ending, program, feeding, reading, Outputs
<1>16. CASE Fire
  BY <1>0, <1>16 DEF Fire, setting, watching, ending, program, feeding, reading, Outputs
<1>17. CASE WatchdogKills
  BY <1>0, <1>17 DEF WatchdogKills, Strike, setting, watching, ending, program, feeding,
     reading, Outputs
<1>18. CASE EndWatching
  BY <1>0, <1>18 DEF EndWatching, setting, watching, ending, program, feeding, reading, Outputs
<1>19. CASE Poll
  BY <1>0, <1>19 DEF Poll, setting, watching, ending, program, feeding, reading, Outputs
<1>20. CASE Check
  BY <1>0, <1>20 DEF Check, setting, watching, ending, program, feeding, reading, Outputs
<1>21. CASE Kill
  BY <1>0, <1>21 DEF Kill, Strike, setting, watching, ending, program, feeding, reading, Outputs
<1>22. CASE Finish
  BY <1>0, <1>22 DEF Finish, Return, setting, watching, ending, program, feeding, reading,
     Outputs
<1>23. CASE NextStep
  BY <1>0, <1>23 DEF NextStep, Nothing, Outputs, Amounts
<1>24. CASE UNCHANGED vars
  BY <1>0, <1>24 DEF vars, Outputs
<1> QED BY <1>1, <1>2, <1>3, <1>4, <1>5, <1>6, <1>7, <1>8, <1>9, <1>10, <1>11, <1>12, <1>13,
   <1>14, <1>15, <1>16, <1>17, <1>18, <1>19, <1>20, <1>21, <1>22, <1>23, <1>24 DEF Next, Child,
   Main, Watchdog, Writer, Reader

LEMMA TypeStep == IInv /\ [Next]_vars => TypeOK'
BY WordsStep, NumbersStep, OutputsStep DEF TypeOK, Words, Numbers, Outputs

-----------------------------------------------------------------------------
LEMMA InitEstablishes == Init => IInv
<1> SUFFICES ASSUME Init PROVE IInv
  OBVIOUS
<1>1. /\ MaxSteps \in Nat \ {0} /\ Output \in Nat /\ Room \in Nat /\ Input \in Nat
      /\ "deaf" \in Habits
  BY ChildrenAssumption DEF Habits
<1>2. TypeOK
  <2>1. pipe \in Amounts(Room) /\ toPrint \in Amounts(Output) /\ got \in Amounts(Output)
    BY <1>1 DEF Init, Nothing, Amounts
  <2>2. steps \in 1..MaxSteps /\ habit \in Habits
    BY <1>1 DEF Init
  <2>3. main \in {"starting", "spawning"} /\ reader \in [Pipes -> {"reading", "over"}]
    BY DEF Init
  <2> QED BY <1>1, <2>1, <2>2, <2>3 DEF Init, TypeOK
<1>3. Accounts
  BY <1>1 DEF Init, Accounts, Nothing
<1>4. Styled /\ Clean /\ Placed /\ Reasons
  BY DEF Init, Styled, Clean, Placed, Reasons, Nothing
<1>5. Drains /\ Settled
  BY DEF Init, Drains, Drained, Settled, Nothing, Pipes
<1> QED BY <1>2, <1>3, <1>4, <1>5 DEF IInv

LEMMA Invariance == Spec => []IInv
<1>1. IInv /\ [Next]_vars => IInv'
  BY TypeStep, AccountsStep, StyledStep, CleanStep, PlacedStep, ReasonsStep, DrainsStep,
     SettledStep DEF IInv
<1> QED BY <1>1, InitEstablishes, PTL DEF Spec

(* The parts of a run keep their types, and no pipe holds more than it can,*)
(* for any amount of data.                                                 *)
THEOREM TypeCorrect == Spec => []TypeOK
<1>1. IInv => TypeOK
  BY DEF IInv
<1> QED BY <1>1, Invariance, PTL

(* However the child's end, the deadline, the cancellation and the         *)
(* watchdog fall together, a caller is told of success only for a child    *)
(* that exited by itself, of a timeout or a cancellation only if there was *)
(* one, and of one of these whenever the child was killed.                 *)
THEOREM VerdictIsTold == Spec => []VerdictIsTrue
<1>1. IInv => VerdictIsTrue
  BY DEF IInv, VerdictIsTrue, Placed, Reasons, Settled
<1> QED BY <1>1, Invariance, PTL

(* "Keep draining so the process never blocks on a full pipe": a run that  *)
(* succeeds has read all that its child printed, for any size of the pipes,*)
(* whatever is kept of it.                                                 *)
THEOREM SuccessIsWhole == Spec => []OkIsWhole
<1>1. IInv => OkIsWhole
  BY ChildrenAssumption DEF IInv, TypeOK, AllStyles, OkIsWhole, Drains, Drained, Settled, Pipes
<1> QED BY <1>1, Invariance, PTL
=============================================================================
