-------------------------- MODULE RunControlProofs --------------------------
(***************************************************************************)
(* Proofs about RunControl, for every run-number limit, queue capacity and *)
(* length of run: the safety properties of the control, and that it        *)
(* implements RunService.  Each part of the inductive invariant has one    *)
(* lemma, with one step per action.                                        *)
(***************************************************************************)
EXTENDS RunControl, SequenceTheorems, TLAPS

(* The first element of a queue, and what is left when it is taken.        *)
LEMMA HeadAndTail ==
  ASSUME NEW S, NEW s \in Seq(S), s # << >>
  PROVE  /\ Head(s) \in S /\ Head(s) = s[1] /\ Len(s) \in Nat \ {0}
         /\ Tail(s) \in Seq(S) /\ Len(Tail(s)) = Len(s) - 1
         /\ \A i \in 1 .. Len(Tail(s)) : Tail(s)[i] = s[i + 1]
         /\ Len(s) = 1 => Tail(s) = << >>
<1>1. /\ Len(s) \in Nat \ {0} /\ Head(s) = s[1] /\ Head(s) \in S
      /\ Tail(s) \in Seq(S) /\ Len(Tail(s)) = Len(s) - 1
      /\ \A i \in 1 .. Len(Tail(s)) : Tail(s)[i] = s[i + 1]
  OBVIOUS
<1>2. ASSUME Len(s) = 1 PROVE Tail(s) = << >>
  <2>1. Tail(s) \in Seq(S) /\ Len(Tail(s)) = 0
    BY <1>1, <1>2
  <2> QED BY <2>1, EmptySeq
<1> QED BY <1>1, <1>2

(* What is left of a queue after its first n elements.                     *)
LEMMA Suffix ==
  \A s \in Seq(0 .. RunIDLimit) : \A n \in 0 .. Len(s) :
    /\ SubSeq(s, n + 1, Len(s)) \in Seq(0 .. RunIDLimit)
    /\ Len(SubSeq(s, n + 1, Len(s))) = Len(s) - n
    /\ \A i \in 1 .. Len(s) - n : SubSeq(s, n + 1, Len(s))[i] = s[n + i]
<1> TAKE s \in Seq(0 .. RunIDLimit)
<1> TAKE n \in 0 .. Len(s)
<1>1. \A i \in n + 1 .. Len(s) : i \in 1 .. Len(s)
  OBVIOUS
<1>2. \A i \in 1 .. Len(s) : s[i] \in 0 .. RunIDLimit
  BY ElementOfSeq
<1> QED BY <1>1, <1>2, SubSeqProperties

(* What a batch leaves scheduled is a suffix of what was scheduled.        *)
LEMMA BatchLeavesSuffix ==
  ASSUME TypeOK, AdvanceBatch
  PROVE  /\ scheduled' \in Seq(0 .. RunIDLimit)
         /\ \A i \in 1 .. Len(scheduled') :
              \E j \in 1 .. Len(scheduled) : scheduled'[i] = scheduled[j]
<1>1. scheduled \in Seq(0 .. RunIDLimit) /\ Len(scheduled) \in Nat
  BY DEF TypeOK
<1>2. ASSUME NEW n \in 0 .. Len(scheduled), Executed(n)
      PROVE  /\ scheduled' \in Seq(0 .. RunIDLimit)
             /\ \A i \in 1 .. Len(scheduled') :
                  \E j \in 1 .. Len(scheduled) : scheduled'[i] = scheduled[j]
  <2>1. scheduled' = SubSeq(scheduled, n + 1, Len(scheduled))
    BY <1>2 DEF Executed
  <2>2. /\ scheduled' \in Seq(0 .. RunIDLimit)
        /\ Len(scheduled') = Len(scheduled) - n
        /\ \A i \in 1 .. Len(scheduled) - n : scheduled'[i] = scheduled[n + i]
    <3>1. /\ SubSeq(scheduled, n + 1, Len(scheduled)) \in Seq(0 .. RunIDLimit)
          /\ Len(SubSeq(scheduled, n + 1, Len(scheduled))) = Len(scheduled) - n
          /\ \A i \in 1 .. Len(scheduled) - n :
               SubSeq(scheduled, n + 1, Len(scheduled))[i] = scheduled[n + i]
      BY <1>1, <1>2, Suffix
    <3> QED BY <2>1, <3>1
  <2>3. \A i \in 1 .. Len(scheduled) - n : n + i \in 1 .. Len(scheduled)
    BY <1>1, <1>2
  <2> QED BY <2>2, <2>3
<1>3. (\E n \in 0 .. Len(scheduled) : Executed(n)) \/ scheduled' = scheduled
  BY <1>1 DEF AdvanceBatch, AdvanceCancelled, AdvanceToEnd,
     AdvanceToEventLimit, AdvancePartly
<1> QED BY <1>1, <1>2, <1>3


(* Type correctness. *)
LEMMA TypesKept ==
  ASSUME IInv, [Next]_vars
  PROVE  TypeOK'
<1> USE RunControlAssumption DEF IInv, TypeOK, NoRun, Runs, Request, Points,
     controllerVars, ownerVars, publicVars, Goto
<1>1. CASE Boot
  <2>1. frame' \in [status : Statuses, run : 0 .. RunIDLimit] /\ topology' \in 0 .. RunIDLimit
    BY <1>1 DEF Boot, Exit, Publish, PublishFails
  <2>2. scheduled' \in Seq(0 .. RunIDLimit)
    <3>1. scheduled' = << >> \/ scheduled' = scheduled
      BY <1>1 DEF Boot, Exit
    <3> QED BY <3>1, EmptySeq, ZenonT(60)
  <2>3. world' \in 0 .. RunIDLimit /\ pc' \in Points
    BY <1>1 DEF Boot, Exit
  <2> QED BY <1>1, <2>1, <2>2, <2>3 DEF Boot
<1>2. CASE SelectDone
  BY <1>2 DEF SelectDone, Exit
<1>3. CASE SelectStop
  BY <1>3 DEF SelectStop
<1>4. CASE SelectStart
  <2>1. Head(starts) \in Request /\ Tail(starts) \in Seq(Request)
    BY <1>4, HeadAndTail DEF SelectStart
  <2> QED BY <1>4, <2>1 DEF SelectStart
<1>5. CASE ContextForRun
  BY <1>5 DEF ContextForRun
<1>6. CASE CheckCancelled
  BY <1>6 DEF CheckCancelled, Done
<1>7. CASE PrepareStart
  BY <1>7 DEF PrepareStart
<1>8. CASE RejectStart
  BY <1>8 DEF RejectStart, FinishRun
<1>9. CASE PublishReject
  <2>1. frame' \in [status : Statuses, run : 0 .. RunIDLimit] /\ topology' \in 0 .. RunIDLimit
    BY <1>9 DEF PublishReject, Exit, Publish, PublishFails
  <2>2. scheduled' \in Seq(0 .. RunIDLimit)
    <3>1. scheduled' = << >> \/ scheduled' = scheduled
      BY <1>9 DEF PublishReject, Exit
    <3> QED BY <3>1, EmptySeq, ZenonT(60)
  <2>3. world' \in 0 .. RunIDLimit /\ pc' \in Points
    BY <1>9 DEF PublishReject, Exit
  <2> QED BY <1>9, <2>1, <2>2, <2>3 DEF PublishReject
<1>10. CASE Recheck
  BY <1>10 DEF Recheck, Done
<1>11. CASE Begin
  BY <1>11 DEF Begin, Statuses
<1>12. CASE Launch
  <2>1. frame' \in [status : Statuses, run : 0 .. RunIDLimit] /\ topology' \in 0 .. RunIDLimit
    BY <1>12 DEF Launch, Exit, Publish, PublishFails
  <2>2. scheduled' \in Seq(0 .. RunIDLimit)
    <3>1. scheduled' = << >> \/ scheduled' = scheduled
      BY <1>12 DEF Launch, Exit
    <3> QED BY <3>1, EmptySeq, ZenonT(60)
  <2>3. world' \in 0 .. RunIDLimit /\ pc' \in Points
    BY <1>12 DEF Launch, Exit
  <2> QED BY <1>12, <2>1, <2>2, <2>3 DEF Launch
<1>13. CASE RunLoop
  <2>1. scheduled \o commands \in Seq(0 .. RunIDLimit) /\ << >> \in Seq(0 .. RunIDLimit)
    OBVIOUS
  <2>2. "failed" \in Statuses
    BY DEF Statuses
  <2> QED BY <1>13, <2>1, <2>2, ZenonT(60) DEF RunLoop, Return
<1>14. CASE AdvanceBatch
  <2>1. [status |-> status, run |-> runID] \in [status : Statuses, run : 0 .. RunIDLimit]
    OBVIOUS
  <2>2. frame' \in [status : Statuses, run : 0 .. RunIDLimit] /\ topology' \in 0 .. RunIDLimit
    BY <1>14, <2>1 DEF AdvanceBatch, AdvanceCancelled, AdvanceToEnd,
       AdvanceToEventLimit, AdvancePartly, Publish, PublishFails
  <2>3. scheduled' \in Seq(0 .. RunIDLimit)
    BY <1>14, BatchLeavesSuffix
  <2>4. work' \in 0 .. MaxBatches /\ result' \in Statuses /\ pc' \in Points
    BY <1>14, SMTT(60) DEF AdvanceBatch, AdvanceCancelled, AdvanceToEnd,
       AdvanceToEventLimit, AdvancePartly, Return, Statuses, Points
  <2> QED BY <1>14, <2>2, <2>3, <2>4 DEF AdvanceBatch
<1>15. CASE Pace
  <2>1. commands # << >> =>
          /\ Append(scheduled, Head(commands)) \in Seq(0 .. RunIDLimit)
          /\ Tail(commands) \in Seq(0 .. RunIDLimit)
    BY HeadAndTail
  <2>2. "failed" \in Statuses
    BY DEF Statuses
  <2> QED BY <1>15, <2>1, <2>2, ZenonT(60) DEF Pace, Return
<1>16. CASE Ended
  <2>1. scheduled' \in Seq(0 .. RunIDLimit)
    <3>1. scheduled' = << >> \/ scheduled' = scheduled
      BY <1>16 DEF Ended, Exit
    <3> QED BY <3>1, EmptySeq, ZenonT(60)
  <2>2. world' \in 0 .. RunIDLimit /\ pc' \in Points
    BY <1>16 DEF Ended, Exit
  <2> QED BY <1>16, <2>1, <2>2 DEF Ended
<1>17. CASE CancelCheck
  <2>1. scheduled' \in Seq(0 .. RunIDLimit)
    <3>1. scheduled' = << >> \/ scheduled' = scheduled
      BY <1>17 DEF CancelCheck, Exit
    <3> QED BY <3>1, EmptySeq, ZenonT(60)
  <2>2. world' \in 0 .. RunIDLimit /\ pc' \in Points
    BY <1>17 DEF CancelCheck, Exit
  <2> QED BY <1>17, <2>1, <2>2 DEF CancelCheck
<1>18. CASE Settle
  <2>1. [record EXCEPT !.status = status] \in
          [run : 0 .. RunIDLimit, status : Statuses \cup {"none", "accepted"}]
    OBVIOUS
  <2> QED BY <1>18, <2>1 DEF Settle
<1>19. CASE Release
  BY <1>19 DEF Release, FinishRun
<1>20. CASE PublishEnd
  <2>1. frame' \in [status : Statuses, run : 0 .. RunIDLimit] /\ topology' \in 0 .. RunIDLimit
    BY <1>20 DEF PublishEnd, Exit, Publish, PublishFails
  <2>2. scheduled' \in Seq(0 .. RunIDLimit)
    <3>1. scheduled' = << >> \/ scheduled' = scheduled
      BY <1>20 DEF PublishEnd, Exit
    <3> QED BY <3>1, EmptySeq, ZenonT(60)
  <2>3. world' \in 0 .. RunIDLimit /\ pc' \in Points
    BY <1>20 DEF PublishEnd, Exit
  <2> QED BY <1>20, <2>1, <2>2, <2>3 DEF PublishEnd
<1>21. CASE ForgetRun
  BY <1>21 DEF ForgetRun, NoRecord, Statuses
<1>22. CASE ClearFinish
  BY <1>22 DEF ClearFinish, FinishRun
<1>23. CASE AcknowledgeStop
  <2>1. frame' \in [status : Statuses, run : 0 .. RunIDLimit] /\ topology' \in 0 .. RunIDLimit
    BY <1>23 DEF AcknowledgeStop, Exit, Publish, PublishFails
  <2>2. scheduled' \in Seq(0 .. RunIDLimit)
    <3>1. scheduled' = << >> \/ scheduled' = scheduled
      BY <1>23 DEF AcknowledgeStop, Exit
    <3> QED BY <3>1, EmptySeq, ZenonT(60)
  <2>3. world' \in 0 .. RunIDLimit /\ pc' \in Points
    BY <1>23 DEF AcknowledgeStop, Exit
  <2> QED BY <1>23, <2>1, <2>2, <2>3 DEF AcknowledgeStop
<1>24. CASE \E legacy \in BOOLEAN : Start(legacy)
  BY <1>24 DEF Start, Statuses
<1>25. CASE Stop
  BY <1>25 DEF Stop
<1>26. CASE Command
  BY <1>26 DEF Command
<1>27. CASE ServiceShutdown
  BY <1>27 DEF ServiceShutdown
<1>28. CASE UNCHANGED vars
  BY <1>28 DEF vars
<1> QED BY <1>1, <1>2, <1>3, <1>4, <1>5, <1>6, <1>7, <1>8, <1>9, <1>10,
     <1>11, <1>12, <1>13, <1>14, <1>15, <1>16, <1>17, <1>18, <1>19, <1>20,
     <1>21, <1>22, <1>23, <1>24, <1>25, <1>26, <1>27, <1>28 DEF Next, Owner, Environment

(* The Stop signal: never lost, never sent twice; what a cancellation means. *)
LEMMA StopsKept ==
  ASSUME IInv, [Next]_vars
  PROVE  StopNeverBlocks' /\ StopIsNotLost' /\ CancelInv'
<1> USE RunControlAssumption DEF IInv, TypeOK, StopNeverBlocks, StopIsNotLost,
     CancelInv, OwnerHoldsItsContext, NoRun, Runs, controllerVars, ownerVars, publicVars, Goto
<1>1. CASE Boot
  BY <1>1 DEF Boot, Exit, Publish, PublishFails
<1>2. CASE SelectDone
  BY <1>2 DEF SelectDone, Exit
<1>3. CASE SelectStop
  BY <1>3 DEF SelectStop
<1>4. CASE SelectStart
  BY <1>4 DEF SelectStart
<1>5. CASE ContextForRun
  BY <1>5 DEF ContextForRun
<1>6. CASE CheckCancelled
  BY <1>6 DEF CheckCancelled, Done
<1>7. CASE PrepareStart
  BY <1>7 DEF PrepareStart
<1>8. CASE RejectStart
  BY <1>8 DEF RejectStart, FinishRun
<1>9. CASE PublishReject
  BY <1>9 DEF PublishReject, Exit, Publish, PublishFails
<1>10. CASE Recheck
  BY <1>10 DEF Recheck, Done
<1>11. CASE Begin
  BY <1>11 DEF Begin
<1>12. CASE Launch
  BY <1>12 DEF Launch, Exit, Publish, PublishFails
<1>13. CASE RunLoop
  BY <1>13 DEF RunLoop, Done, Return
<1>14. CASE AdvanceBatch
  BY <1>14 DEF AdvanceBatch, AdvanceCancelled, AdvanceToEnd,
     AdvanceToEventLimit, AdvancePartly, Done, Return, Publish, PublishFails
<1>15. CASE Pace
  BY <1>15 DEF Pace, Done, Return
<1>16. CASE Ended
  BY <1>16 DEF Ended, Exit
<1>17. CASE CancelCheck
  BY <1>17 DEF CancelCheck, Done, Exit
<1>18. CASE Settle
  BY <1>18 DEF Settle
<1>19. CASE Release
  BY <1>19 DEF Release, FinishRun
<1>20. CASE PublishEnd
  BY <1>20 DEF PublishEnd, Exit, Publish, PublishFails
<1>21. CASE ForgetRun
  BY <1>21 DEF ForgetRun
<1>22. CASE ClearFinish
  BY <1>22 DEF ClearFinish, FinishRun
<1>23. CASE AcknowledgeStop
  <2>1. /\ stops' = 0 /\ stopping' = FALSE /\ pc' \in {"select", "exited"}
        /\ UNCHANGED <<runCtx, nextRunID, cancelled, serviceDone>>
    BY <1>23 DEF AcknowledgeStop, Exit
  <2>2. runCtx \notin cancelled
    BY <1>23 DEF AcknowledgeStop, Exit, SlotInv
  <2> QED BY <2>1, <2>2
<1>24. CASE \E legacy \in BOOLEAN : Start(legacy)
  BY <1>24 DEF Start
<1>25. CASE Stop
  BY <1>25 DEF Stop
<1>26. CASE Command
  BY <1>26 DEF Command
<1>27. CASE ServiceShutdown
  BY <1>27 DEF ServiceShutdown
<1>28. CASE UNCHANGED vars
  BY <1>28 DEF vars
<1> QED BY <1>1, <1>2, <1>3, <1>4, <1>5, <1>6, <1>7, <1>8, <1>9, <1>10,
     <1>11, <1>12, <1>13, <1>14, <1>15, <1>16, <1>17, <1>18, <1>19, <1>20,
     <1>21, <1>22, <1>23, <1>24, <1>25, <1>26, <1>27, <1>28 DEF Next, Owner, Environment

(* The reservation: one queued start or one request in the owner's hands. *)
LEMMA SlotsKept ==
  ASSUME IInv, [Next]_vars
  PROVE  SlotInv' /\ OwnerHoldsItsContext'
<1> USE RunControlAssumption DEF IInv, TypeOK, StopNeverBlocks, CancelInv,
     SlotInv, Free, OwnerHoldsItsContext, NoRun, Runs, Request, controllerVars, ownerVars, publicVars, Goto
<1>1. CASE Boot
  BY <1>1 DEF Boot, Exit, Publish, PublishFails
<1>2. CASE SelectDone
  BY <1>2 DEF SelectDone, Exit
<1>3. CASE SelectStop
  BY <1>3 DEF SelectStop
<1>4. CASE SelectStart
  <2>1. Head(starts) = starts[1] /\ Tail(starts) = << >>
    BY <1>4, HeadAndTail DEF SelectStart
  <2> QED BY <1>4, <2>1 DEF SelectStart
<1>5. CASE ContextForRun
  BY <1>5 DEF ContextForRun
<1>6. CASE CheckCancelled
  BY <1>6 DEF CheckCancelled, Done
<1>7. CASE PrepareStart
  BY <1>7 DEF PrepareStart
<1>8. CASE RejectStart
  BY <1>8 DEF RejectStart, FinishRun
<1>9. CASE PublishReject
  BY <1>9 DEF PublishReject, Exit, Publish, PublishFails
<1>10. CASE Recheck
  BY <1>10 DEF Recheck, Done
<1>11. CASE Begin
  BY <1>11 DEF Begin
<1>12. CASE Launch
  BY <1>12 DEF Launch, Exit, Publish, PublishFails
<1>13. CASE RunLoop
  BY <1>13 DEF RunLoop, Done, Return
<1>14. CASE AdvanceBatch
  BY <1>14 DEF AdvanceBatch, AdvanceCancelled, AdvanceToEnd,
     AdvanceToEventLimit, AdvancePartly, Done, Return, Publish, PublishFails
<1>15. CASE Pace
  BY <1>15 DEF Pace, Done, Return
<1>16. CASE Ended
  BY <1>16 DEF Ended, Exit
<1>17. CASE CancelCheck
  BY <1>17 DEF CancelCheck, Done, Exit
<1>18. CASE Settle
  BY <1>18 DEF Settle
<1>19. CASE Release
  BY <1>19 DEF Release, FinishRun
<1>20. CASE PublishEnd
  BY <1>20 DEF PublishEnd, Exit, Publish, PublishFails
<1>21. CASE ForgetRun
  BY <1>21 DEF ForgetRun
<1>22. CASE ClearFinish
  BY <1>22 DEF ClearFinish, FinishRun
<1>23. CASE AcknowledgeStop
  BY <1>23 DEF AcknowledgeStop, Exit, Publish, PublishFails
<1>24. CASE \E legacy \in BOOLEAN : Start(legacy)
  <2>1. PICK legacy \in BOOLEAN : Start(legacy)
    BY <1>24
  <2>2. /\ starts' # << >> /\ Len(starts') = 1 /\ starts'[1].run = runCtx'
        /\ runCtx' # NoRun /\ pc' = pc
    BY <2>1 DEF Start
  <2>3. pc \in Free \cup {"forget", "finish", "exited"}
    BY <2>1 DEF Start, Points
  <2> QED BY <2>2, <2>3
<1>25. CASE Stop
  BY <1>25 DEF Stop
<1>26. CASE Command
  BY <1>26 DEF Command
<1>27. CASE ServiceShutdown
  BY <1>27 DEF ServiceShutdown
<1>28. CASE UNCHANGED vars
  BY <1>28 DEF vars
<1> QED BY <1>1, <1>2, <1>3, <1>4, <1>5, <1>6, <1>7, <1>8, <1>9, <1>10,
     <1>11, <1>12, <1>13, <1>14, <1>15, <1>16, <1>17, <1>18, <1>19, <1>20,
     <1>21, <1>22, <1>23, <1>24, <1>25, <1>26, <1>27, <1>28 DEF Next, Owner, Environment

(* Commands: the queue is emptied whenever its run is released. *)
LEMMA CommandsKept ==
  ASSUME IInv, [Next]_vars
  PROVE  CommandsStayInTheirRun'
<1> USE DEF CommandsStayInTheirRun, controllerVars, ownerVars, publicVars, Goto
<1>0. /\ CommandsStayInTheirRun
      /\ commands \in Seq(0 .. RunIDLimit) /\ scheduled \in Seq(0 .. RunIDLimit)
      /\ runCtx = NoRun => commands = << >>
      /\ pc \in {"loop", "advance", "pace"} => world = runCtx
      /\ pc = "launch" => runID \in 0 .. RunIDLimit
  BY DEF IInv, TypeOK, SlotInv, OwnerHoldsItsContext, LaunchedInv
<1> USE <1>0
<1>1. CASE Boot
  <2>1. scheduled' = << >> \/ UNCHANGED <<world, scheduled>>
    BY <1>1 DEF Boot, Exit
  <2> QED BY <1>1, <2>1 DEF Boot
<1>2. CASE SelectDone
  BY <1>2 DEF SelectDone, Exit
<1>3. CASE SelectStop
  BY <1>3 DEF SelectStop
<1>4. CASE SelectStart
  BY <1>4 DEF SelectStart
<1>5. CASE ContextForRun
  BY <1>5 DEF ContextForRun
<1>6. CASE CheckCancelled
  BY <1>6 DEF CheckCancelled, Done
<1>7. CASE PrepareStart
  BY <1>7 DEF PrepareStart
<1>8. CASE RejectStart
  BY <1>8 DEF RejectStart, FinishRun
<1>9. CASE PublishReject
  <2>1. scheduled' = << >> \/ UNCHANGED <<world, scheduled>>
    BY <1>9 DEF PublishReject, Exit
  <2> QED BY <1>9, <2>1 DEF PublishReject
<1>10. CASE Recheck
  BY <1>10 DEF Recheck, Done
<1>11. CASE Begin
  BY <1>11 DEF Begin
<1>12. CASE Launch
  <2>1. scheduled' = << >> \/ UNCHANGED <<world, scheduled>>
    BY <1>12 DEF Launch, Exit
  <2> QED BY <1>12, <2>1 DEF Launch
<1>13. CASE RunLoop
  <2>1. world = runCtx
    BY <1>13 DEF RunLoop, Return
  <2>2. \A i \in 1 .. Len(scheduled \o commands) : (scheduled \o commands)[i] = world
    BY <2>1
  <2>3. UNCHANGED <<world, runCtx>>
    BY <1>13 DEF RunLoop
  <2>4. CASE scheduled' = scheduled \o commands /\ commands' = << >>
    BY <2>2, <2>3, <2>4
  <2>5. CASE UNCHANGED <<commands, scheduled>>
    BY <2>3, <2>5
  <2> QED BY <1>13, <2>4, <2>5 DEF RunLoop
<1>14. CASE AdvanceBatch
  <2>1. world' = world /\ UNCHANGED <<commands, runCtx>>
    BY <1>14 DEF AdvanceBatch
  <2> QED BY <1>14, <2>1, BatchLeavesSuffix DEF IInv
<1>15. CASE Pace
  <2>1. world = runCtx
    BY <1>15 DEF Pace, Return
  <2>2. commands # << >> =>
          /\ Head(commands) = commands[1] /\ Len(commands) \in Nat \ {0}
          /\ Len(Tail(commands)) = Len(commands) - 1
          /\ \A i \in 1 .. Len(Tail(commands)) : Tail(commands)[i] = commands[i + 1]
    BY HeadAndTail
  <2>3. CASE commands # << >> /\ commands' = Tail(commands)
             /\ scheduled' = Append(scheduled, Head(commands))
    <3>1. \A i \in 1 .. Len(commands') : commands'[i] = runCtx'
      BY <1>15, <2>2, <2>3 DEF Pace
    <3>2. /\ Len(scheduled') = Len(scheduled) + 1
          /\ \A i \in 1 .. Len(scheduled) : scheduled'[i] = scheduled[i]
          /\ scheduled'[Len(scheduled) + 1] = commands[1]
      BY <2>2, <2>3, HeadAndTail
    <3>3. world' = world /\ commands[1] = world
      BY <1>15, <2>1, <2>2, <2>3 DEF Pace
    <3> QED BY <3>1, <3>2, <3>3
  <2>4. CASE UNCHANGED <<commands, scheduled>>
    BY <1>15, <2>4 DEF Pace
  <2> QED BY <1>15, <2>3, <2>4 DEF Pace
<1>16. CASE Ended
  <2>1. scheduled' = << >> \/ UNCHANGED <<world, scheduled>>
    BY <1>16 DEF Ended, Exit
  <2> QED BY <1>16, <2>1 DEF Ended
<1>17. CASE CancelCheck
  <2>1. scheduled' = << >> \/ UNCHANGED <<world, scheduled>>
    BY <1>17 DEF CancelCheck, Exit
  <2> QED BY <1>17, <2>1 DEF CancelCheck
<1>18. CASE Settle
  BY <1>18 DEF Settle
<1>19. CASE Release
  BY <1>19 DEF Release, FinishRun
<1>20. CASE PublishEnd
  <2>1. scheduled' = << >> \/ UNCHANGED <<world, scheduled>>
    BY <1>20 DEF PublishEnd, Exit
  <2> QED BY <1>20, <2>1 DEF PublishEnd
<1>21. CASE ForgetRun
  BY <1>21 DEF ForgetRun
<1>22. CASE ClearFinish
  BY <1>22 DEF ClearFinish, FinishRun
<1>23. CASE AcknowledgeStop
  <2>1. scheduled' = << >> \/ UNCHANGED <<world, scheduled>>
    BY <1>23 DEF AcknowledgeStop, Exit
  <2> QED BY <1>23, <2>1 DEF AcknowledgeStop
<1>24. CASE \E legacy \in BOOLEAN : Start(legacy)
  BY <1>24 DEF Start
<1>25. CASE Stop
  BY <1>25 DEF Stop
<1>26. CASE Command
  BY <1>26 DEF Command
<1>27. CASE ServiceShutdown
  BY <1>27 DEF ServiceShutdown
<1>28. CASE UNCHANGED vars
  BY <1>28 DEF vars
<1> QED BY <1>1, <1>2, <1>3, <1>4, <1>5, <1>6, <1>7, <1>8, <1>9, <1>10,
     <1>11, <1>12, <1>13, <1>14, <1>15, <1>16, <1>17, <1>18, <1>19, <1>20,
     <1>21, <1>22, <1>23, <1>24, <1>25, <1>26, <1>27, <1>28 DEF Next, Owner, Environment

(* What the record, the frame and the graph show at every point. *)
LEMMA ViewsKept ==
  ASSUME IInv, [Next]_vars
  PROVE  WaitingInv' /\ LaunchedInv' /\ ClearingInv'
<1> USE RunControlAssumption DEF IInv, TypeOK, StopNeverBlocks, CancelInv,
     SlotInv, Free, OwnerHoldsItsContext, WaitingInv, LaunchedInv,
     ClearingInv, OwnerRecord, NoRecord, Idle, NoRun, Runs, Request,
     controllerVars, ownerVars, publicVars, Goto
<1>1. CASE Boot
  BY <1>1 DEF Boot, Exit, Publish, PublishFails
<1>2. CASE SelectDone
  BY <1>2 DEF SelectDone, Exit
<1>3. CASE SelectStop
  BY <1>3 DEF SelectStop
<1>4. CASE SelectStart
  <2>1. Head(starts) = starts[1]
    BY <1>4, HeadAndTail DEF SelectStart
  <2> QED BY <1>4, <2>1 DEF SelectStart
<1>5. CASE ContextForRun
  BY <1>5 DEF ContextForRun
<1>6. CASE CheckCancelled
  BY <1>6 DEF CheckCancelled, Done
<1>7. CASE PrepareStart
  BY <1>7 DEF PrepareStart
<1>8. CASE RejectStart
  BY <1>8 DEF RejectStart, FinishRun
<1>9. CASE PublishReject
  BY <1>9 DEF PublishReject, Exit, Publish, PublishFails
<1>10. CASE Recheck
  BY <1>10 DEF Recheck, Done
<1>11. CASE Begin
  BY <1>11 DEF Begin
<1>12. CASE Launch
  BY <1>12 DEF Launch, Exit, Publish, PublishFails
<1>13. CASE RunLoop
  BY <1>13 DEF RunLoop, Done, Return
<1>14. CASE AdvanceBatch
  BY <1>14 DEF AdvanceBatch, AdvanceCancelled, AdvanceToEnd,
     AdvanceToEventLimit, AdvancePartly, Done, Return, Publish, PublishFails
<1>15. CASE Pace
  BY <1>15 DEF Pace, Done, Return
<1>16. CASE Ended
  BY <1>16 DEF Ended, Exit
<1>17. CASE CancelCheck
  BY <1>17 DEF CancelCheck, Done, Exit
<1>18. CASE Settle
  <2>1. record = [run |-> runID, status |-> "running"]
    BY <1>18 DEF Settle
  <2>2. record' = [run |-> runID, status |-> status]
    BY <1>18, <2>1 DEF Settle
  <2> QED BY <1>18, <2>2 DEF Settle
<1>19. CASE Release
  BY <1>19 DEF Release, FinishRun
<1>20. CASE PublishEnd
  BY <1>20 DEF PublishEnd, Exit, Publish, PublishFails
<1>21. CASE ForgetRun
  BY <1>21 DEF ForgetRun
<1>22. CASE ClearFinish
  BY <1>22 DEF ClearFinish, FinishRun
<1>23. CASE AcknowledgeStop
  BY <1>23 DEF AcknowledgeStop, Exit, Publish, PublishFails
<1>24. CASE \E legacy \in BOOLEAN : Start(legacy)
  BY <1>24 DEF Start
<1>25. CASE Stop
  BY <1>25 DEF Stop
<1>26. CASE Command
  BY <1>26 DEF Command
<1>27. CASE ServiceShutdown
  BY <1>27 DEF ServiceShutdown
<1>28. CASE UNCHANGED vars
  BY <1>28 DEF vars
<1> QED BY <1>1, <1>2, <1>3, <1>4, <1>5, <1>6, <1>7, <1>8, <1>9, <1>10,
     <1>11, <1>12, <1>13, <1>14, <1>15, <1>16, <1>17, <1>18, <1>19, <1>20,
     <1>21, <1>22, <1>23, <1>24, <1>25, <1>26, <1>27, <1>28 DEF Next, Owner, Environment

(* The run shown last is older than the one reserved.                      *)
LEMMA FreshKept ==
  ASSUME IInv, [Next]_vars
  PROVE  FreshInv'
<1> USE RunControlAssumption DEF IInv, TypeOK, CancelInv, SlotInv, Free,
     OwnerHoldsItsContext, LaunchedInv, FreshInv, NoRun, Runs,
     controllerVars, ownerVars, publicVars, Goto
<1>1. CASE Boot
  BY <1>1 DEF Boot, Exit
<1>2. CASE SelectDone
  BY <1>2 DEF SelectDone, Exit
<1>3. CASE SelectStop
  BY <1>3 DEF SelectStop
<1>4. CASE SelectStart
  BY <1>4 DEF SelectStart
<1>5. CASE ContextForRun
  BY <1>5 DEF ContextForRun
<1>6. CASE CheckCancelled
  BY <1>6 DEF CheckCancelled
<1>7. CASE PrepareStart
  BY <1>7 DEF PrepareStart
<1>8. CASE RejectStart
  BY <1>8 DEF RejectStart, FinishRun
<1>9. CASE PublishReject
  BY <1>9 DEF PublishReject, Exit
<1>10. CASE Recheck
  BY <1>10 DEF Recheck
<1>11. CASE Begin
  BY <1>11 DEF Begin
<1>12. CASE Launch
  BY <1>12 DEF Launch, Exit
<1>13. CASE RunLoop
  BY <1>13 DEF RunLoop, Return
<1>14. CASE AdvanceBatch
  BY <1>14 DEF AdvanceBatch, AdvanceCancelled, AdvanceToEnd,
     AdvanceToEventLimit, AdvancePartly, Return
<1>15. CASE Pace
  BY <1>15 DEF Pace, Return
<1>16. CASE Ended
  BY <1>16 DEF Ended, Exit
<1>17. CASE CancelCheck
  BY <1>17 DEF CancelCheck, Exit
<1>18. CASE Settle
  BY <1>18 DEF Settle
<1>19. CASE Release
  BY <1>19 DEF Release, FinishRun
<1>20. CASE PublishEnd
  BY <1>20 DEF PublishEnd, Exit
<1>21. CASE ForgetRun
  BY <1>21 DEF ForgetRun
<1>22. CASE ClearFinish
  BY <1>22 DEF ClearFinish, FinishRun
<1>23. CASE AcknowledgeStop
  BY <1>23 DEF AcknowledgeStop, Exit
<1>24. CASE \E legacy \in BOOLEAN : Start(legacy)
  BY <1>24 DEF Start
<1>25. CASE Stop
  BY <1>25 DEF Stop
<1>26. CASE Command
  BY <1>26 DEF Command
<1>27. CASE ServiceShutdown
  BY <1>27 DEF ServiceShutdown
<1>28. CASE UNCHANGED vars
  BY <1>28 DEF vars
<1> QED BY <1>1, <1>2, <1>3, <1>4, <1>5, <1>6, <1>7, <1>8, <1>9, <1>10,
     <1>11, <1>12, <1>13, <1>14, <1>15, <1>16, <1>17, <1>18, <1>19, <1>20,
     <1>21, <1>22, <1>23, <1>24, <1>25, <1>26, <1>27, <1>28 DEF Next, Owner, Environment

(* Every part together.                                                    *)
LEMMA InvariantKept == IInv /\ [Next]_vars => IInv'
BY TypesKept, StopsKept, SlotsKept, CommandsKept, ViewsKept, FreshKept DEF IInv

LEMMA InitiallyInvariant == Init => IInv
<1> SUFFICES ASSUME Init PROVE IInv
  OBVIOUS
<1> USE RunControlAssumption DEF Init, NoRun, NoRecord, Idle
<1>1. TypeOK
  <2>1. /\ request \in Request
        /\ record \in [run : 0 .. RunIDLimit,
                       status : Statuses \cup {"none", "accepted"}]
        /\ frame \in [status : Statuses, run : 0 .. RunIDLimit]
    BY DEF Request, Runs, Statuses
  <2>2. /\ starts \in Seq(Request) /\ commands \in Seq(0 .. RunIDLimit)
        /\ scheduled \in Seq(0 .. RunIDLimit)
    BY EmptySeq
  <2>3. pc \in Points /\ status \in Statuses /\ result \in Statuses
    BY DEF Points, Statuses
  <2>4. /\ nextRunID \in 0 .. RunIDLimit /\ runCtx \in 0 .. RunIDLimit
        /\ ownerCtx \in 0 .. RunIDLimit /\ runID \in 0 .. RunIDLimit
        /\ world \in 0 .. RunIDLimit /\ topology \in 0 .. RunIDLimit
        /\ work \in 0 .. MaxBatches
    OBVIOUS
  <2>5. /\ cancelled \subseteq Runs /\ stops \in {0, 1}
        /\ stopping \in BOOLEAN /\ serviceDone \in BOOLEAN
    OBVIOUS
  <2> HIDE DEF Init, NoRun, NoRecord, Idle
  <2> QED BY <2>1, <2>2, <2>3, <2>4, <2>5 DEF TypeOK
<1>2. StopNeverBlocks /\ StopIsNotLost /\ CancelInv /\ SlotInv /\ OwnerHoldsItsContext
  BY DEF StopNeverBlocks, StopIsNotLost, CancelInv, SlotInv, Free, OwnerHoldsItsContext
<1>3. CommandsStayInTheirRun
  BY DEF CommandsStayInTheirRun
<1>4. WaitingInv /\ LaunchedInv /\ ClearingInv
  BY DEF WaitingInv, LaunchedInv, ClearingInv, OwnerRecord, Free
<1>5. FreshInv
  BY DEF FreshInv
<1> QED BY <1>1, <1>2, <1>3, <1>4, <1>5 DEF IInv

(* At every program point of the owner, the reservation, the queues and    *)
(* the three public views are as IInv says.                                *)
THEOREM ControlInvariant == Spec => []IInv
BY InitiallyInvariant, InvariantKept, PTL DEF Spec

(* Sending the Stop signal under the mutex never blocks                    *)
(* (run_controller.go:90), and an accepted Stop is never forgotten.        *)
THEOREM StopIsSound == Spec => [](StopNeverBlocks /\ StopIsNotLost)
<1>1. IInv => StopNeverBlocks /\ StopIsNotLost
  BY DEF IInv
<1> QED BY <1>1, ControlInvariant, PTL

(* The start queue is empty whenever a start can be admitted, so its "queue*)
(* full" branch is dead, and the owner never sees a nil or foreign context.*)
THEOREM ReservationIsSound == Spec => [](StartSlotIsFree /\ OwnerHoldsItsContext)
<1>1. IInv => StartSlotIsFree /\ OwnerHoldsItsContext
  BY DEF IInv, SlotInv, StartSlotIsFree
<1> QED BY <1>1, ControlInvariant, PTL

(* No command accepted for one run is queued for, or scheduled in, another *)
(* run's world (run_controller.go:211).                                    *)
THEOREM CommandIsolation == Spec => []CommandsStayInTheirRun
<1>1. IInv => CommandsStayInTheirRun
  BY DEF IInv
<1> QED BY <1>1, ControlInvariant, PTL

(* The record, the last frame and the graph name the run being advanced,   *)
(* and agree with one another between runs.                                *)
THEOREM ViewsAgree == Spec => [](RunningIsWhatIsShown /\ QuiescentAgreement)
<1>1. IInv => RunningIsWhatIsShown
  BY DEF IInv, TypeOK, OwnerHoldsItsContext, LaunchedInv, RunningIsWhatIsShown
<1>2. IInv => QuiescentAgreement
  BY DEF IInv, WaitingInv, Free, OwnerRecord, NoRecord, Idle, QuiescentAgreement
<1> QED BY <1>1, <1>2, ControlInvariant, PTL

(* Ending a Stop leaves nothing of the old run (run_controller.go:220).    *)
THEOREM StopClears == Spec => StopLeavesNothing
<1> DEFINE Clean ==
      stopping /\ ~stopping' =>
       \/ pc' = "exited"
       \/ /\ frame' = Idle /\ topology' = NoRun /\ record' = NoRecord
          /\ world' = NoRun /\ scheduled' = << >> /\ runCtx' = NoRun
          /\ starts' = << >> /\ commands' = << >> /\ stops' = 0
<1>1. ASSUME IInv, [Next]_vars PROVE [Clean]_vars
  <2>1. SUFFICES ASSUME stopping, ~stopping', pc' # "exited" PROVE Clean
    OBVIOUS
  <2>2. AcknowledgeStop
    BY <1>1, <2>1 DEF Next, Owner, Environment, vars, controllerVars, Boot,
       SelectDone, SelectStop, SelectStart, ContextForRun, CheckCancelled,
       PrepareStart, RejectStart, PublishReject, Recheck, Begin, Launch,
       RunLoop, AdvanceBatch, Pace, Ended, CancelCheck, Settle, Release,
       PublishEnd, ForgetRun, ClearFinish, FinishRun, Start, Stop, Command,
       ServiceShutdown
  <2>3. pc = "acknowledge"
    BY <2>2 DEF AcknowledgeStop, Exit, Goto
  <2>4. /\ runCtx = NoRun /\ starts = << >> /\ commands = << >>
        /\ record = NoRecord /\ world = NoRun /\ scheduled = << >>
        /\ status = "idle" /\ runID = NoRun
    BY <1>1, <2>3 DEF IInv, SlotInv, Free, ClearingInv
  <2> QED BY <2>1, <2>2, <2>4 DEF AcknowledgeStop, Exit, Goto, Publish, Idle
<1> QED BY <1>1, ControlInvariant, PTL DEF Spec, StopLeavesNothing

(* A step of finishRun releases the reserved slot, or changes nothing the  *)
(* service promise speaks of.                                              *)
LEMMA ReleaseRefines ==
  ASSUME IInv, FinishRun, UNCHANGED <<frame, serviceDone>>,
         record.run = runCtx => record.status \in {"finished", "failed"} \/ runCtx = NoRun,
         (pc' = "exited") = (pc = "exited")
  PROVE  [Service!Next]_(Service!vars)
<1>1. CASE runCtx = NoRun
  BY <1>1 DEF FinishRun, Service!vars, NoRun
<1>2. CASE runCtx # NoRun
  <2>1. Service!Release
    BY <1>2 DEF FinishRun, Service!Release, NoRun
  <2> QED BY <2>1 DEF Service!Next, Service!Work
<1> QED BY <1>1, <1>2

(* Leaving the owner loop with the last frame in place closes the service. *)
LEMMA ExitRefines ==
  ASSUME pc' = "exited", UNCHANGED <<nextRunID, runCtx, record, frame>>,
         stopping' \in {stopping, FALSE}
  PROVE  [Service!Next]_(Service!vars)
<1>1. Service!Close
  BY DEF Service!Close
<1> QED BY <1>1 DEF Service!Next

(* Publishing what is already shown is no step of the service.             *)
LEMMA StepRefines ==
  ASSUME IInv, [Next]_vars
  PROVE  [Service!Next]_(Service!vars)
<1> USE DEF controllerVars, ownerVars, publicVars, Goto
<1>1. CASE Boot
  <2>1. CASE pc' = "exited"
    BY <1>1, <2>1, ExitRefines DEF Boot, Exit, PublishFails
  <2>2. CASE pc' # "exited"
    BY <1>1, <2>2 DEF Boot, Exit, Publish, IInv, WaitingInv, Service!vars
  <2> QED BY <2>1, <2>2
<1>2. CASE SelectDone
  BY <1>2, ExitRefines DEF SelectDone, Exit
<1>3. CASE SelectStop \/ SelectStart \/ ContextForRun \/ CheckCancelled
           \/ PrepareStart \/ Recheck \/ RunLoop \/ Pace
  BY <1>3 DEF SelectStop, SelectStart, ContextForRun, CheckCancelled,
     PrepareStart, Recheck, RunLoop, Pace, Return, Service!vars
<1>4. CASE RejectStart \/ Release \/ ClearFinish
  <2>1. record.run = runCtx => record.status \in {"finished", "failed"} \/ runCtx = NoRun
    BY <1>4 DEF RejectStart, Release, ClearFinish, IInv, WaitingInv, LaunchedInv,
       ClearingInv, OwnerRecord, NoRecord, NoRun
  <2> QED BY <1>4, <2>1, ReleaseRefines DEF RejectStart, Release, ClearFinish
<1>5. CASE PublishReject
  <2>1. CASE pc' = "exited"
    BY <1>5, <2>1, ExitRefines DEF PublishReject, Exit, PublishFails
  <2>2. CASE pc' # "exited"
    BY <1>5, <2>2 DEF PublishReject, Exit, Publish, IInv, WaitingInv, Service!vars
  <2> QED BY <2>1, <2>2
<1>6. CASE Launch
  <2>1. CASE pc' = "exited"
    BY <1>6, <2>1, ExitRefines DEF Launch, Exit, PublishFails
  <2>2. CASE pc' # "exited"
    <3>1. /\ runCtx = runID /\ runCtx # NoRun /\ status = "running"
          /\ record = [run |-> runID, status |-> "running"]
      BY <1>6 DEF Launch, Exit, IInv, OwnerHoldsItsContext, LaunchedInv
    <3>2. Service!ShowRunning
      BY <1>6, <2>2, <3>1 DEF Launch, Exit, Publish, Service!ShowRunning, NoRun
    <3> QED BY <3>2 DEF Service!Next, Service!Work
  <2> QED BY <2>1, <2>2
<1>7. CASE AdvanceBatch
  <2>1. UNCHANGED frame
    BY <1>7 DEF AdvanceBatch, AdvanceCancelled, AdvanceToEnd,
       AdvanceToEventLimit, AdvancePartly, Return, Publish, PublishFails, IInv,
       LaunchedInv
  <2>2. pc # "exited" /\ pc' # "exited"
    BY <1>7 DEF AdvanceBatch, AdvanceCancelled, AdvanceToEnd,
       AdvanceToEventLimit, AdvancePartly, Return
  <2> QED BY <1>7, <2>1, <2>2 DEF AdvanceBatch, Service!vars
<1>8. CASE Ended \/ CancelCheck
  <2>1. CASE pc' = "exited"
    BY <1>8, <2>1, ExitRefines DEF Ended, CancelCheck, Exit
  <2>2. CASE pc' # "exited"
    BY <1>8, <2>2 DEF Ended, CancelCheck, Exit, Service!vars
  <2> QED BY <2>1, <2>2
<1>9. CASE PublishEnd
  <2>1. CASE pc' = "exited"
    BY <1>9, <2>1, ExitRefines DEF PublishEnd, Exit, PublishFails
  <2>2. CASE pc' # "exited"
    <3>1. status \in {"finished", "failed"} /\ frame = [status |-> "running", run |-> runID]
      BY <1>9 DEF PublishEnd, Exit, IInv, LaunchedInv
    <3>2. \/ record = [run |-> runID, status |-> status]
          \/ record.run > runID
      BY <1>9 DEF PublishEnd, Exit, IInv, TypeOK, WaitingInv, LaunchedInv, SlotInv,
         Free, OwnerRecord, FreshInv, NoRun
    <3>3. Service!ShowEnd
      BY <1>9, <2>2, <3>1, <3>2 DEF PublishEnd, Exit, Publish, Service!ShowEnd
    <3> QED BY <3>3 DEF Service!Next, Service!Work
  <2> QED BY <2>1, <2>2
<1>10. CASE AcknowledgeStop
  <2>1. CASE pc' = "exited"
    BY <1>10, <2>1, ExitRefines DEF AcknowledgeStop, Exit, PublishFails
  <2>2. CASE pc' # "exited"
    <3>1. /\ runCtx = NoRun /\ status = "idle" /\ runID = NoRun
          /\ record = NoRecord /\ (stopping \/ serviceDone)
      BY <1>10 DEF AcknowledgeStop, Exit, IInv, SlotInv, ClearingInv, CancelInv
    <3>2. Service!Clear
      BY <1>10, <2>2, <3>1 DEF AcknowledgeStop, Exit, Publish, Service!Clear,
         Service!Idle, Service!NoRecord, NoRecord, NoRun
    <3> QED BY <3>2 DEF Service!Next, Service!Work
  <2> QED BY <2>1, <2>2
<1>11. CASE \E legacy \in BOOLEAN : Start(legacy)
  <2>1. ASSUME NEW legacy \in BOOLEAN, Start(legacy)
        PROVE  Service!Admit(~legacy)
    BY <2>1 DEF Start, Service!Admit, NoRun
  <2> QED BY <1>11, <2>1 DEF Service!Next
<1>12. CASE Stop
  <2>1. Service!RequestStop
    BY <1>12 DEF Stop, Service!RequestStop
  <2> QED BY <2>1 DEF Service!Next
<1>13. CASE Command
  BY <1>13 DEF Command, Service!vars
<1>14. CASE ServiceShutdown
  <2>1. Service!Close
    BY <1>14 DEF ServiceShutdown, Service!Close
  <2> QED BY <2>1 DEF Service!Next
<1>15. CASE UNCHANGED vars
  BY <1>15 DEF vars, Service!vars
<1>16. CASE Begin
  <2>1. /\ runCtx = request.run /\ runCtx # NoRun
        /\ record.run # runCtx \/ record.status = "accepted"
    BY <1>16 DEF Begin, IInv, TypeOK, OwnerHoldsItsContext, WaitingInv,
       OwnerRecord, FreshInv, NoRecord, NoRun
  <2>2. record' = [run |-> runCtx, status |-> "running"]
    BY <1>16, <2>1 DEF Begin, IInv, WaitingInv
  <2>3. Service!RecordRunning
    BY <1>16, <2>1, <2>2 DEF Begin, Service!RecordRunning, NoRun
  <2> QED BY <2>3 DEF Service!Next, Service!Work
<1>17. CASE Settle
  <2>1. /\ runCtx = runID /\ runCtx # NoRun /\ status \in {"finished", "failed"}
        /\ record = [run |-> runID, status |-> "running"] /\ frame = record
    BY <1>17 DEF Settle, IInv, LaunchedInv, FreshInv
  <2>2. record' = [run |-> runCtx, status |-> status]
    BY <1>17, <2>1 DEF Settle
  <2>3. Service!RecordEnd
    BY <1>17, <2>1, <2>2 DEF Settle, Service!RecordEnd, NoRun
  <2> QED BY <2>3 DEF Service!Next, Service!Work
<1>18. CASE ForgetRun
  <2>1. Service!Forget
    BY <1>18 DEF ForgetRun, IInv, CancelInv, Service!Forget, Service!NoRecord,
       NoRecord, NoRun
  <2> QED BY <2>1 DEF Service!Next, Service!Work
<1> QED BY <1>1, <1>2, <1>3, <1>4, <1>5, <1>6, <1>7, <1>8, <1>9, <1>10, <1>11,
     <1>12, <1>13, <1>14, <1>15, <1>16, <1>17, <1>18 DEF Next, Owner, Environment

(* The controller and the owner, step by step, do only what RunService     *)
(* promises: starts one at a time and in order, none during a Stop, and    *)
(* frames that show only the reserved run as running.                      *)
THEOREM Refinement == Spec => ImplementsService
<1>1. Init => Service!Init
  BY DEF Init, Service!Init, Service!Idle, Service!NoRecord, Idle, NoRecord, NoRun
<1> QED BY <1>1, ControlInvariant, StepRefines, PTL
     DEF Spec, ImplementsService, Service!Spec
=============================================================================
