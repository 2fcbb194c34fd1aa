----------------------------- MODULE HubProofs -----------------------------
(***************************************************************************)
(* Proofs about the two ends of the WebSocket, which share no state here:  *)
(* about Hub, for any number of connections, any channel capacity and any  *)
(* bound on frames and rejections, and about Browser, for any number of    *)
(* runs, waiting frames and troubles.  The inductive invariants are        *)
(* Hub!IInv and Browser!BrowserInv; one lemma per part says that every     *)
(* step keeps it.                                                          *)
(***************************************************************************)
EXTENDS Hub, Browser, SequenceTheorems, TLAPS

(* Type correctness.  That told stays within its bound needs ReportInv,    *)
(* that latest does needs GraphInv.                                        *)
LEMMA TypesKept ==
  ASSUME IInv, [Next]_vars
  PROVE  TypeOK'
<1> USE HubAssumption DEF IInv, TypeOK, Frames, Nothing, HubPoints,
     ServePoints, WriterPoints, publisherVars, hubVars, clientVars, frameVars, errorVars
<1>1. CASE BroadcastCheck
  BY <1>1 DEF BroadcastCheck
<1>2. CASE StoreLatest
  <2>1. latest + 1 \in Frames
    BY <1>2 DEF StoreLatest, GraphInv
  <2>2. needs' \in [Frames -> 0 .. MaxFrames]
    BY <1>2, <2>1 DEF StoreLatest
  <2> QED BY <1>2, <2>1, <2>2, SMTT(60) DEF StoreLatest
<1>3. CASE WakeHub
  BY <1>3 DEF WakeHub
<1>4. CASE PublishTopology
  BY <1>4, SMTT(60) DEF PublishTopology
<1>5. CASE HubWakes
  BY <1>5 DEF HubWakes
<1>6. CASE HubCancelled
  BY <1>6 DEF HubCancelled
<1>7. CASE LoadLatest
  BY <1>7 DEF LoadLatest
<1>8. CASE QueueDone
  BY <1>8 DEF QueueDone
<1>9. CASE SendFirst
  <2>1. CASE outgoing' = outgoing
    BY <1>9, <2>1 DEF SendFirst
  <2>2. CASE outgoing' = [outgoing EXCEPT ![target] = loaded]
    <3>1. outgoing \in [Clients -> 0 .. MaxFrames] /\ loaded \in 0 .. MaxFrames
      OBVIOUS
    <3>2. outgoing' \in [Clients -> 0 .. MaxFrames]
      <4> HIDE DEF IInv
      <4> QED BY <2>2, <3>1, Zenon
    <3> QED BY <1>9, <3>2 DEF SendFirst
  <2> QED BY <1>9, <2>1, <2>2 DEF SendFirst
<1>10. CASE Drain
  <2>1. /\ outgoing \in [Clients -> 0 .. MaxFrames] /\ 0 \in 0 .. MaxFrames
        /\ outgoing' = [outgoing EXCEPT ![target] = 0]
    BY <1>10 DEF Drain
  <2>2. outgoing' \in [Clients -> 0 .. MaxFrames]
    <3> HIDE DEF IInv
    <3> QED BY <2>1, Zenon
  <2> QED BY <1>10, <2>2 DEF Drain
<1>11. CASE Resend
  BY <1>11 DEF Resend
<1>12. CASE HubReturns
  BY <1>12 DEF HubReturns
<1>13. CASE Cancel
  BY <1>13 DEF Cancel
<1>14. ASSUME NEW c \in Clients, HubRegisters(c) PROVE TypeOK'
  BY <1>14 DEF HubRegisters
<1>15. ASSUME NEW c \in Clients, HubUnregisters(c) PROVE TypeOK'
  BY <1>15 DEF HubUnregisters
<1>16. ASSUME NEW c \in Clients, QueueLatest(c) PROVE TypeOK'
  BY <1>16 DEF QueueLatest
<1>17. ASSUME NEW c \in Clients, HubStops(c) PROVE TypeOK'
  BY <1>17 DEF HubStops
<1>18. ASSUME NEW c \in Clients, RegisterAfterDone(c) PROVE TypeOK'
  BY <1>18 DEF RegisterAfterDone, HandlerStops
<1>19. ASSUME NEW c \in Clients, ReportRejection(c) PROVE TypeOK'
  <2>1. serve' \in [Clients -> ServePoints] /\ stopped' \in [Clients -> BOOLEAN]
    BY <1>19, ZenonT(60) DEF ReportRejection, HandlerStops, HandlerGoes
  <2>2. errors[c] \in 0 .. ErrorCapacity
    OBVIOUS
  <2>3. CASE errors' = errors
    BY <1>19, <2>1, <2>3, ZenonT(60) DEF ReportRejection, HandlerStops, HandlerGoes
  <2>4. CASE errors[c] < ErrorCapacity /\ errors' = [errors EXCEPT ![c] = errors[c] + 1]
    <3>1. errors[c] + 1 \in 0 .. ErrorCapacity
      BY <2>2, <2>4, SMTT(60)
    <3>2. errors' \in [Clients -> 0 .. ErrorCapacity]
      BY <2>4, <3>1
    <3> QED BY <1>19, <2>1, <3>2, ZenonT(60) DEF ReportRejection, HandlerStops, HandlerGoes
  <2> QED BY <1>19, <2>3, <2>4 DEF ReportRejection
<1>20. ASSUME NEW c \in Clients, ReadClosed(c) PROVE TypeOK'
  BY <1>20, SMTT(60) DEF ReadClosed, HandlerStops
<1>21. ASSUME NEW c \in Clients, LeaveAfterDone(c) PROVE TypeOK'
  BY <1>21 DEF LeaveAfterDone, HandlerGoes
<1>22. ASSUME NEW c \in Clients, WriterDone(c) PROVE TypeOK'
  BY <1>22, SMTT(60) DEF WriterDone, WriterReturns
<1>23. ASSUME NEW c \in Clients, TakeError(c) PROVE TypeOK'
  <2>1. errors[c] \in 0 .. ErrorCapacity /\ errors[c] > 0
    BY <1>23 DEF TakeError
  <2>2. errors[c] - 1 \in 0 .. ErrorCapacity
    BY <2>1, SMTT(60)
  <2>3. errors' = [errors EXCEPT ![c] = errors[c] - 1]
    BY <1>23 DEF TakeError
  <2>4. errors' \in [Clients -> 0 .. ErrorCapacity]
    BY <2>2, <2>3
  <2>5. writer' \in [Clients -> WriterPoints]
    BY <1>23 DEF TakeError, WriterGoes
  <2> QED BY <1>23, <2>4, <2>5, ZenonT(60) DEF TakeError, WriterGoes
<1>24. ASSUME NEW c \in Clients, TakeFrame(c) PROVE TypeOK'
  <2>1. outgoing' \in [Clients -> 0 .. MaxFrames]
    BY <1>24 DEF TakeFrame, WriterGoes
  <2>2. holding' \in [Clients -> 0 .. MaxFrames]
    BY <1>24 DEF TakeFrame, WriterGoes
  <2>3. writer' \in [Clients -> WriterPoints]
    BY <1>24 DEF TakeFrame, WriterGoes
  <2> QED BY <1>24, <2>1, <2>2, <2>3, SMTT(60) DEF TakeFrame, WriterGoes
<1>25. ASSUME NEW c \in Clients, WriteErrorFrame(c) PROVE TypeOK'
  <2>1. /\ told[c] \in 0 .. MaxRejections /\ errors[c] \in 0 .. ErrorCapacity
        /\ rejected[c] \in 0 .. MaxRejections
    OBVIOUS
  <2>2. told[c] + errors[c] + (IF serve[c] = "report" THEN 1 ELSE 0) + 1 <= rejected[c]
    BY <1>25 DEF WriteErrorFrame, ReportInv
  <2>3. told[c] + 1 \in 0 .. MaxRejections
    <3> HIDE DEF IInv
    <3> QED BY <2>1, <2>2
  <2>4. told' = [told EXCEPT ![c] = told[c] + 1]
    BY <1>25 DEF WriteErrorFrame
  <2>5. told' \in [Clients -> 0 .. MaxRejections]
    BY <2>3, <2>4
  <2>6. writer' \in [Clients -> WriterPoints]
    BY <1>25 DEF WriteErrorFrame, WriterGoes
  <2> QED BY <1>25, <2>5, <2>6, ZenonT(60) DEF WriteErrorFrame, WriterGoes
<1>26. ASSUME NEW c \in Clients, WriteSnapshot(c) PROVE TypeOK'
  <2>1. seen' \in [Clients -> 0 .. MaxFrames]
    BY <1>26 DEF WriteSnapshot, WriterGoes
  <2>2. holding' \in [Clients -> 0 .. MaxFrames]
    BY <1>26 DEF WriteSnapshot, WriterGoes
  <2>3. writer' \in [Clients -> WriterPoints]
    BY <1>26 DEF WriteSnapshot, WriterGoes
  <2> QED BY <1>26, <2>1, <2>2, <2>3, ZenonT(60) DEF WriteSnapshot, WriterGoes
<1>27. ASSUME NEW c \in Clients, WriteFails(c) PROVE TypeOK'
  <2>1. holding' \in [Clients -> 0 .. MaxFrames]
    BY <1>27 DEF WriteFails, WriterReturns
  <2>2. writer' \in [Clients -> WriterPoints] /\ stopped' \in [Clients -> BOOLEAN]
    BY <1>27 DEF WriteFails, WriterReturns
  <2> QED BY <1>27, <2>1, <2>2, ZenonT(60) DEF WriteFails, WriterReturns
<1>28. ASSUME NEW c \in Clients, Connect(c) PROVE TypeOK'
  BY <1>28 DEF Connect, HandlerGoes
<1>29. ASSUME NEW c \in Clients, AbandonRegister(c) PROVE TypeOK'
  BY <1>29, SMTT(60) DEF AbandonRegister, HandlerStops
<1>30. ASSUME NEW c \in Clients, RejectCommand(c) PROVE TypeOK'
  <2>1. rejected[c] \in 0 .. MaxRejections /\ rejected[c] < MaxRejections
    BY <1>30 DEF RejectCommand
  <2>2. rejected[c] + 1 \in 0 .. MaxRejections
    <3> HIDE DEF IInv
    <3> QED BY <2>1
  <2>3. rejected' = [rejected EXCEPT ![c] = rejected[c] + 1]
    BY <1>30 DEF RejectCommand
  <2>4. rejected' \in [Clients -> 0 .. MaxRejections]
    BY <2>2, <2>3
  <2>5. serve' \in [Clients -> ServePoints]
    BY <1>30 DEF RejectCommand, HandlerGoes
  <2> QED BY <1>30, <2>4, <2>5, ZenonT(60) DEF RejectCommand, HandlerGoes
<1>31. ASSUME NEW c \in Clients, ReadFails(c) PROVE TypeOK'
  BY <1>31, SMTT(60) DEF ReadFails, HandlerStops
<1>32. ASSUME NEW c \in Clients, PingFails(c) PROVE TypeOK'
  BY <1>32, ZenonT(60) DEF PingFails, WriterReturns
<1>33. CASE UNCHANGED vars
  BY <1>33, SMTT(60) DEF vars
<1>34. CASE UNCHANGED vars
  BY <1>34, <1>33 DEF vars
<1> QED BY <1>1, <1>2, <1>3, <1>4, <1>5, <1>6, <1>7, <1>8, <1>9, <1>10, <1>11,
     <1>12, <1>13, <1>14, <1>15, <1>16, <1>17, <1>18, <1>19, <1>20, <1>21,
     <1>22, <1>23, <1>24, <1>25, <1>26, <1>27, <1>28, <1>29, <1>30, <1>31,
     <1>32, <1>33, <1>34
     DEF Next, Publisher, HubSteps, Handler, Writer, Environment

(* Frames stay in order, and the second attempt of queueLatest finds room. *)
LEMMA OrderKept ==
  ASSUME IInv, [Next]_vars
  PROVE  (FramesInOrder /\ ResendInv)'
<1> USE HubAssumption DEF IInv, TypeOK, FramesInOrder, ResendInv,
     Frames, Nothing, Queueing, publisherVars, hubVars, clientVars, frameVars, errorVars
<1>1. CASE StoreLatest
  BY <1>1 DEF StoreLatest
<1>2. CASE HubWakes
  BY <1>2 DEF HubWakes
<1>3. CASE HubCancelled
  BY <1>3 DEF HubCancelled
<1>4. CASE LoadLatest
  <2>1. /\ loaded' = latest /\ hub' \in {"queue", "select"}
        /\ UNCHANGED <<latest, outgoing, holding, seen, writer>>
    BY <1>4 DEF LoadLatest
  <2>2. ASSUME NEW c \in Clients
        PROVE  seen[c] <= latest /\ holding[c] <= latest /\ outgoing[c] <= latest
    <3>1. /\ seen[c] \in Int /\ holding[c] \in Int /\ outgoing[c] \in Int
          /\ loaded \in Int /\ latest \in Int
      BY <2>2
    <3>2. /\ seen[c] <= loaded /\ holding[c] <= loaded /\ outgoing[c] <= loaded
          /\ loaded <= latest
      BY <2>2
    <3> HIDE DEF IInv
    <3> QED BY <3>1, <3>2
  <2> QED BY <2>1, <2>2
<1>5. CASE QueueDone
  BY <1>5 DEF QueueDone
<1>6. CASE SendFirst
  <2>1. CASE UNCHANGED outgoing
    BY <1>6, <2>1 DEF SendFirst
  <2>2. CASE outgoing' = [outgoing EXCEPT ![target] = loaded] /\ hub' = "queue"
    <3>1. ASSUME NEW c \in Clients
          PROVE  outgoing'[c] = outgoing[c] \/ outgoing'[c] = loaded
      BY <2>2, <3>1
    <3> QED BY <1>6, <2>2, <3>1 DEF SendFirst
  <2> QED BY <1>6, <2>1, <2>2 DEF SendFirst
<1>7. CASE Drain
  BY <1>7 DEF Drain
<1>8. CASE Resend
  BY <1>8 DEF Resend
<1>9. CASE HubReturns
  BY <1>9 DEF HubReturns
<1>10. ASSUME NEW c \in Clients, HubRegisters(c) PROVE (FramesInOrder /\ ResendInv)'
  BY <1>10 DEF HubRegisters
<1>11. ASSUME NEW c \in Clients, QueueLatest(c) PROVE (FramesInOrder /\ ResendInv)'
  BY <1>11 DEF QueueLatest
<1>12. ASSUME NEW c \in Clients, WriterDone(c) PROVE (FramesInOrder /\ ResendInv)'
  BY <1>12 DEF WriterDone, WriterReturns
<1>13. ASSUME NEW c \in Clients, TakeError(c) PROVE (FramesInOrder /\ ResendInv)'
  BY <1>13 DEF TakeError, WriterGoes
<1>14. ASSUME NEW c \in Clients, TakeFrame(c) PROVE (FramesInOrder /\ ResendInv)'
  BY <1>14 DEF TakeFrame, WriterGoes
<1>15. ASSUME NEW c \in Clients, WriteErrorFrame(c) PROVE (FramesInOrder /\ ResendInv)'
  BY <1>15 DEF WriteErrorFrame, WriterGoes
<1>16. ASSUME NEW c \in Clients, WriteSnapshot(c) PROVE (FramesInOrder /\ ResendInv)'
  <2>1. ASSUME NEW d \in Clients, d # c
        PROVE  seen'[d] = seen[d] /\ holding'[d] = holding[d] /\ writer'[d] = writer[d]
    BY <1>16, <2>1 DEF WriteSnapshot, WriterGoes
  <2>2. seen'[c] = holding[c] /\ holding'[c] = Nothing /\ writer'[c] = "select"
    BY <1>16 DEF WriteSnapshot, WriterGoes
  <2>3. UNCHANGED <<latest, loaded, outgoing, hub, target>>
    BY <1>16 DEF WriteSnapshot, WriterGoes
  <2>4. FramesInOrder'
    <3> SUFFICES ASSUME NEW d \in Clients
                 PROVE  /\ seen'[d] <= loaded /\ holding'[d] <= loaded
                        /\ outgoing[d] # Nothing =>
                             seen'[d] <= outgoing[d] /\ holding'[d] <= outgoing[d]
                        /\ writer'[d] = "writingFrame" =>
                             holding'[d] # Nothing /\ seen'[d] <= holding'[d]
      BY <2>3
    <3>1. CASE d = c
      BY <1>16, <2>2, <3>1, SMTT(60) DEF WriteSnapshot
    <3>2. CASE d # c
      BY <2>1, <3>2
    <3> QED BY <3>1, <3>2
  <2> QED BY <2>3, <2>4
<1>17. ASSUME NEW c \in Clients, WriteFails(c) PROVE (FramesInOrder /\ ResendInv)'
  BY <1>17 DEF WriteFails, WriterReturns
<1>18. ASSUME NEW c \in Clients, PingFails(c) PROVE (FramesInOrder /\ ResendInv)'
  BY <1>18 DEF PingFails, WriterReturns
<1>19. CASE UNCHANGED <<latest, loaded, seen, holding, outgoing, writer, hub, target>>
  BY <1>19
<1>20. CASE UNCHANGED vars
  BY <1>20, <1>19 DEF vars
<1>21. CASE BroadcastCheck \/ WakeHub \/ PublishTopology \/ Cancel
  BY <1>21, <1>19 DEF BroadcastCheck, WakeHub, PublishTopology, Cancel
<1>22. ASSUME NEW c \in Clients,
             \/ HubUnregisters(c) \/ HubStops(c) \/ RegisterAfterDone(c)
             \/ ReportRejection(c) \/ ReadClosed(c) \/ LeaveAfterDone(c)
             \/ Connect(c) \/ AbandonRegister(c) \/ RejectCommand(c)
             \/ ReadFails(c)
      PROVE  (FramesInOrder /\ ResendInv)'
  BY <1>22, <1>19 DEF HubUnregisters, HubStops, RegisterAfterDone,
     ReportRejection, ReadClosed, LeaveAfterDone, Connect, AbandonRegister,
     RejectCommand, ReadFails, HandlerGoes, HandlerStops
<1> QED BY <1>1, <1>2, <1>3, <1>4, <1>5, <1>6, <1>7, <1>8, <1>9, <1>10, <1>11,
     <1>12, <1>13, <1>14, <1>15, <1>16, <1>17, <1>18, <1>19, <1>20, <1>21,
     <1>22
     DEF Next, Publisher, HubSteps, Handler, Writer, Environment

(* Graph definitions stay in order.                                        *)
LEMMA GraphsKept ==
  ASSUME IInv, [Next]_vars
  PROVE  GraphInv'
<1> USE HubAssumption DEF IInv, TypeOK, GraphInv, Frames, Nothing, publisherVars, hubVars, clientVars, frameVars, errorVars
<1>1. CASE BroadcastCheck
  BY <1>1 DEF BroadcastCheck
<1>2. CASE StoreLatest
  BY <1>2 DEF StoreLatest
<1>3. CASE WakeHub
  BY <1>3 DEF WakeHub
<1>4. CASE PublishTopology
  BY <1>4 DEF PublishTopology
<1>5. CASE UNCHANGED <<latest, topology, needs, publisher>>
  BY <1>5
<1>6. CASE UNCHANGED vars
  BY <1>6, <1>5 DEF vars
<1>7. CASE HubWakes \/ HubCancelled \/ LoadLatest \/ QueueDone
           \/ SendFirst \/ Drain \/ Resend \/ HubReturns
           \/ Cancel
  BY <1>7, <1>5 DEF HubWakes, HubCancelled, LoadLatest, QueueDone, SendFirst,
     Drain, Resend, HubReturns, Cancel
<1>8. ASSUME NEW c \in Clients,
             \/ HubRegisters(c) \/ HubUnregisters(c) \/ QueueLatest(c)
             \/ HubStops(c) \/ RegisterAfterDone(c) \/ ReportRejection(c)
             \/ ReadClosed(c) \/ LeaveAfterDone(c) \/ WriterDone(c)
             \/ TakeError(c) \/ TakeFrame(c) \/ WriteErrorFrame(c)
             \/ WriteSnapshot(c) \/ WriteFails(c) \/ Connect(c)
             \/ AbandonRegister(c) \/ RejectCommand(c) \/ ReadFails(c)
             \/ PingFails(c)
      PROVE  GraphInv'
  BY <1>8, <1>5 DEF HubRegisters, HubUnregisters, QueueLatest, HubStops,
     RegisterAfterDone, ReportRejection, ReadClosed, LeaveAfterDone,
     WriterDone, TakeError, TakeFrame, WriteErrorFrame, WriteSnapshot,
     WriteFails, Connect, AbandonRegister, RejectCommand, ReadFails,
     PingFails, HandlerGoes, HandlerStops, WriterGoes, WriterReturns
<1> QED BY <1>1, <1>2, <1>3, <1>4, <1>5, <1>6, <1>7, <1>8
     DEF Next, Publisher, HubSteps, Handler, Writer, Environment

(* Rejections are accounted for.                                           *)
LEMMA ReportsKept ==
  ASSUME IInv, [Next]_vars
  PROVE  (ReportInv /\ RejectionIsNotLost)'
<1> USE HubAssumption DEF IInv, TypeOK, ReportInv,
     RejectionIsNotLost, ServePoints, WriterPoints, publisherVars, hubVars, clientVars, frameVars, errorVars
<1>1. ASSUME NEW c \in Clients, HubRegisters(c) PROVE (ReportInv /\ RejectionIsNotLost)'
  BY <1>1 DEF HubRegisters
<1>2. ASSUME NEW c \in Clients, HubUnregisters(c) PROVE (ReportInv /\ RejectionIsNotLost)'
  BY <1>2 DEF HubUnregisters
<1>3. ASSUME NEW c \in Clients, HubStops(c) PROVE (ReportInv /\ RejectionIsNotLost)'
  BY <1>3 DEF HubStops
<1>4. ASSUME NEW c \in Clients, RegisterAfterDone(c) PROVE (ReportInv /\ RejectionIsNotLost)'
  BY <1>4 DEF RegisterAfterDone, HandlerStops
<1>5. ASSUME NEW c \in Clients, ReportRejection(c) PROVE (ReportInv /\ RejectionIsNotLost)'
  BY <1>5 DEF ReportRejection, HandlerStops, HandlerGoes
<1>6. ASSUME NEW c \in Clients, ReadClosed(c) PROVE (ReportInv /\ RejectionIsNotLost)'
  BY <1>6 DEF ReadClosed, HandlerStops
<1>7. ASSUME NEW c \in Clients, LeaveAfterDone(c) PROVE (ReportInv /\ RejectionIsNotLost)'
  BY <1>7 DEF LeaveAfterDone, HandlerGoes
<1>8. ASSUME NEW c \in Clients, WriterDone(c) PROVE (ReportInv /\ RejectionIsNotLost)'
  BY <1>8 DEF WriterDone, WriterReturns
<1>9. ASSUME NEW c \in Clients, TakeError(c) PROVE (ReportInv /\ RejectionIsNotLost)'
  BY <1>9 DEF TakeError, WriterGoes
<1>10. ASSUME NEW c \in Clients, TakeFrame(c) PROVE (ReportInv /\ RejectionIsNotLost)'
  BY <1>10 DEF TakeFrame, WriterGoes
<1>11. ASSUME NEW c \in Clients, WriteErrorFrame(c) PROVE (ReportInv /\ RejectionIsNotLost)'
  BY <1>11 DEF WriteErrorFrame, WriterGoes
<1>12. ASSUME NEW c \in Clients, WriteSnapshot(c) PROVE (ReportInv /\ RejectionIsNotLost)'
  BY <1>12 DEF WriteSnapshot, WriterGoes
<1>13. ASSUME NEW c \in Clients, WriteFails(c) PROVE (ReportInv /\ RejectionIsNotLost)'
  BY <1>13 DEF WriteFails, WriterReturns
<1>14. ASSUME NEW c \in Clients, Connect(c) PROVE (ReportInv /\ RejectionIsNotLost)'
  BY <1>14 DEF Connect, HandlerGoes
<1>15. ASSUME NEW c \in Clients, AbandonRegister(c) PROVE (ReportInv /\ RejectionIsNotLost)'
  BY <1>15 DEF AbandonRegister, HandlerStops
<1>16. ASSUME NEW c \in Clients, RejectCommand(c) PROVE (ReportInv /\ RejectionIsNotLost)'
  BY <1>16 DEF RejectCommand, HandlerGoes
<1>17. ASSUME NEW c \in Clients, ReadFails(c) PROVE (ReportInv /\ RejectionIsNotLost)'
  BY <1>17 DEF ReadFails, HandlerStops
<1>18. ASSUME NEW c \in Clients, PingFails(c) PROVE (ReportInv /\ RejectionIsNotLost)'
  BY <1>18 DEF PingFails, WriterReturns
<1>19. CASE UNCHANGED <<told, errors, rejected, serve, writer, stopped>>
  BY <1>19
<1>20. CASE UNCHANGED vars
  BY <1>20, <1>19 DEF vars
<1>21. CASE BroadcastCheck \/ StoreLatest \/ WakeHub \/ PublishTopology
           \/ HubWakes \/ HubCancelled \/ LoadLatest \/ QueueDone
           \/ SendFirst \/ Drain \/ Resend \/ HubReturns
           \/ Cancel
  BY <1>21, <1>19 DEF BroadcastCheck, StoreLatest, WakeHub, PublishTopology,
     HubWakes, HubCancelled, LoadLatest, QueueDone, SendFirst, Drain, Resend,
     HubReturns, Cancel
<1>22. ASSUME NEW c \in Clients,
             \/ QueueLatest(c)
      PROVE  (ReportInv /\ RejectionIsNotLost)'
  BY <1>22, <1>19 DEF QueueLatest
<1> QED BY <1>1, <1>2, <1>3, <1>4, <1>5, <1>6, <1>7, <1>8, <1>9, <1>10, <1>11,
     <1>12, <1>13, <1>14, <1>15, <1>16, <1>17, <1>18, <1>19, <1>20, <1>21,
     <1>22
     DEF Next, Publisher, HubSteps, Handler, Writer, Environment

(* The newest frame stays on its way to every connection.                  *)
LEMMA NewestKept ==
  ASSUME IInv, [Next]_vars
  PROVE  NewestIsOnItsWay'
<1> USE HubAssumption DEF IInv, TypeOK, NewestIsOnItsWay, Carried,
     FramesInOrder, ResendInv, Nothing, Queueing, HubPoints, publisherVars, hubVars, clientVars, frameVars, errorVars
<1>1. CASE BroadcastCheck
  BY <1>1 DEF BroadcastCheck
<1>2. CASE StoreLatest
  BY <1>2 DEF StoreLatest
<1>3. CASE WakeHub
  BY <1>3 DEF WakeHub
<1>4. CASE PublishTopology
  BY <1>4 DEF PublishTopology
<1>5. CASE HubWakes
  BY <1>5 DEF HubWakes
<1>6. CASE HubCancelled
  BY <1>6 DEF HubCancelled
<1>7. CASE LoadLatest
  BY <1>7 DEF LoadLatest
<1>8. CASE QueueDone
  BY <1>8 DEF QueueDone
<1>9. CASE SendFirst
  BY <1>9 DEF SendFirst
<1>10. CASE Drain
  BY <1>10 DEF Drain
<1>11. CASE Resend
  BY <1>11 DEF Resend
<1>12. CASE HubReturns
  BY <1>12 DEF HubReturns
<1>13. ASSUME NEW c \in Clients, HubRegisters(c) PROVE NewestIsOnItsWay'
  BY <1>13 DEF HubRegisters
<1>14. ASSUME NEW c \in Clients, HubUnregisters(c) PROVE NewestIsOnItsWay'
  BY <1>14 DEF HubUnregisters
<1>15. ASSUME NEW c \in Clients, QueueLatest(c) PROVE NewestIsOnItsWay'
  BY <1>15 DEF QueueLatest
<1>16. ASSUME NEW c \in Clients, HubStops(c) PROVE NewestIsOnItsWay'
  BY <1>16 DEF HubStops
<1>17. ASSUME NEW c \in Clients, RegisterAfterDone(c) PROVE NewestIsOnItsWay'
  BY <1>17 DEF RegisterAfterDone, HandlerStops
<1>18. ASSUME NEW c \in Clients, ReportRejection(c) PROVE NewestIsOnItsWay'
  BY <1>18 DEF ReportRejection, HandlerStops, HandlerGoes
<1>19. ASSUME NEW c \in Clients, ReadClosed(c) PROVE NewestIsOnItsWay'
  BY <1>19 DEF ReadClosed, HandlerStops
<1>20. ASSUME NEW c \in Clients, LeaveAfterDone(c) PROVE NewestIsOnItsWay'
  BY <1>20 DEF LeaveAfterDone, HandlerGoes
<1>21. ASSUME NEW c \in Clients, WriterDone(c) PROVE NewestIsOnItsWay'
  BY <1>21 DEF WriterDone, WriterReturns
<1>22. ASSUME NEW c \in Clients, TakeError(c) PROVE NewestIsOnItsWay'
  BY <1>22 DEF TakeError, WriterGoes
<1>23. ASSUME NEW c \in Clients, TakeFrame(c) PROVE NewestIsOnItsWay'
  BY <1>23 DEF TakeFrame, WriterGoes
<1>24. ASSUME NEW c \in Clients, WriteErrorFrame(c) PROVE NewestIsOnItsWay'
  BY <1>24 DEF WriteErrorFrame, WriterGoes
<1>25. ASSUME NEW c \in Clients, WriteSnapshot(c) PROVE NewestIsOnItsWay'
  BY <1>25 DEF WriteSnapshot, WriterGoes
<1>26. ASSUME NEW c \in Clients, WriteFails(c) PROVE NewestIsOnItsWay'
  BY <1>26 DEF WriteFails, WriterReturns
<1>27. ASSUME NEW c \in Clients, Connect(c) PROVE NewestIsOnItsWay'
  BY <1>27 DEF Connect, HandlerGoes
<1>28. ASSUME NEW c \in Clients, AbandonRegister(c) PROVE NewestIsOnItsWay'
  BY <1>28 DEF AbandonRegister, HandlerStops
<1>29. ASSUME NEW c \in Clients, RejectCommand(c) PROVE NewestIsOnItsWay'
  BY <1>29 DEF RejectCommand, HandlerGoes
<1>30. ASSUME NEW c \in Clients, ReadFails(c) PROVE NewestIsOnItsWay'
  BY <1>30 DEF ReadFails, HandlerStops
<1>31. ASSUME NEW c \in Clients, PingFails(c) PROVE NewestIsOnItsWay'
  BY <1>31 DEF PingFails, WriterReturns
<1>32. CASE UNCHANGED <<latest, wake, publisher, done, hub, clients, todo, target, loaded,
                   stopped, outgoing, holding, seen>>
  BY <1>32
<1>33. CASE UNCHANGED vars
  BY <1>33, <1>32 DEF vars
<1>34. CASE Cancel
  BY <1>34, <1>32 DEF Cancel
<1> QED BY <1>1, <1>2, <1>3, <1>4, <1>5, <1>6, <1>7, <1>8, <1>9, <1>10, <1>11,
     <1>12, <1>13, <1>14, <1>15, <1>16, <1>17, <1>18, <1>19, <1>20, <1>21,
     <1>22, <1>23, <1>24, <1>25, <1>26, <1>27, <1>28, <1>29, <1>30, <1>31,
     <1>32, <1>33, <1>34
     DEF Next, Publisher, HubSteps, Handler, Writer, Environment

LEMMA InvariantKept == IInv /\ [Next]_vars => IInv'
BY TypesKept, OrderKept, GraphsKept, ReportsKept, NewestKept DEF IInv

LEMMA InitiallyInvariant == Init => IInv
<1> SUFFICES ASSUME Init PROVE IInv
  OBVIOUS
<1> USE HubAssumption DEF Init, Nothing, Frames
<1>1. TypeOK
  <2>1. /\ serve \in [Clients -> ServePoints] /\ writer \in [Clients -> WriterPoints]
        /\ stopped \in [Clients -> BOOLEAN]
    BY DEF ServePoints, WriterPoints
  <2>2. /\ outgoing \in [Clients -> 0 .. MaxFrames]
        /\ holding \in [Clients -> 0 .. MaxFrames]
        /\ seen \in [Clients -> 0 .. MaxFrames]
        /\ needs \in [Frames -> 0 .. MaxFrames]
    OBVIOUS
  <2>3. /\ errors \in [Clients -> 0 .. ErrorCapacity]
        /\ rejected \in [Clients -> 0 .. MaxRejections]
        /\ told \in [Clients -> 0 .. MaxRejections]
    OBVIOUS
  <2>4. /\ latest \in 0 .. MaxFrames /\ topology \in 0 .. MaxFrames
        /\ loaded \in 0 .. MaxFrames /\ wake \in {0, 1}
    OBVIOUS
  <2>5. /\ hub \in HubPoints /\ target \in Clients \cup {Nobody}
        /\ publisher \in {"idle", "check", "store", "wake", "failed"}
        /\ cancelled \in BOOLEAN /\ done \in BOOLEAN
        /\ clients \subseteq Clients /\ todo \subseteq Clients
    BY DEF HubPoints
  <2> HIDE DEF Init, Frames
  <2> QED BY <2>1, <2>2, <2>3, <2>4, <2>5 DEF TypeOK
<1>2. FramesInOrder /\ ResendInv /\ NewestIsOnItsWay
  BY DEF FramesInOrder, ResendInv, Queueing, NewestIsOnItsWay
<1>3. GraphInv
  BY DEF GraphInv
<1>4. ReportInv /\ RejectionIsNotLost
  BY DEF ReportInv, RejectionIsNotLost
<1> QED BY <1>1, <1>2, <1>3, <1>4 DEF IInv

(* The invariant the results below rest on.                                *)
THEOREM HubInvariant == Spec => []IInv
BY InitiallyInvariant, InvariantKept, PTL DEF Spec

(* No wake-up is lost, however the publisher, the hub and the writers      *)
(* interleave (hub.go:62-74, 116-130, 145-149).                            *)
THEOREM NoLostWakeup == Spec => []NewestIsOnItsWay
<1>1. IInv => NewestIsOnItsWay
  BY DEF IInv
<1> QED BY <1>1, HubInvariant, PTL

(* No rejection of a live connection's command is lost (hub.go:183-189).   *)
THEOREM NoLostRejection == Spec => []RejectionIsNotLost
<1>1. IInv => RejectionIsNotLost
  BY DEF IInv
<1> QED BY <1>1, HubInvariant, PTL

(* A browser can fetch the graph of every frame it has (topology.go:16).   *)
THEOREM GraphBeforeFrame == Spec => []SeenGraphIsPublished
<1>1. IInv => SeenGraphIsPublished
  BY DEF IInv, TypeOK, FramesInOrder, GraphInv, SeenGraphIsPublished, Nothing
<1> QED BY <1>1, HubInvariant, PTL

(* No browser is shown an older frame after a newer one (hub.go:53-75).    *)
THEOREM OrderedFrames == Spec => FramesNeverGoBack
<1>1. ASSUME IInv, [Next]_vars PROVE [\A c \in Clients : seen[c] <= seen'[c]]_vars
  <2>1. CASE UNCHANGED seen
    BY <1>1, <2>1 DEF IInv, TypeOK
  <2>2. ASSUME NEW c \in Clients, WriteSnapshot(c)
        PROVE  \A d \in Clients : seen[d] <= seen'[d]
    BY <1>1, <2>2 DEF IInv, TypeOK, FramesInOrder, WriteSnapshot
  <2>3. UNCHANGED seen \/ \E c \in Clients : WriteSnapshot(c)
    BY <1>1 DEF Next, Publisher, HubSteps, Handler, Writer, Environment, vars,
       publisherVars, hubVars, clientVars, frameVars, errorVars, BroadcastCheck,
       StoreLatest, WakeHub, PublishTopology, HubWakes, HubCancelled,
       LoadLatest, QueueDone, SendFirst, Drain, Resend, HubReturns, Cancel,
       HubRegisters, HubUnregisters, QueueLatest, HubStops, RegisterAfterDone,
       ReportRejection, ReadClosed, LeaveAfterDone, WriterDone, TakeError,
       TakeFrame, WriteErrorFrame, WriteFails, Connect, AbandonRegister,
       RejectCommand, ReadFails, PingFails, HandlerGoes, HandlerStops,
       WriterGoes, WriterReturns
  <2> QED BY <2>1, <2>2, <2>3
<1> QED BY <1>1, HubInvariant, PTL DEF Spec, FramesNeverGoBack

-----------------------------------------------------------------------------
(* The browser at the other end.                                          *)

(* Everything the server and its users do but a restart.                   *)
ServerMoves ==
  \/ Server!Work \/ (\E document \in BOOLEAN : Server!Admit(document))
  \/ Server!RequestStop \/ UNCHANGED serverVars

(* A step either belongs to the service and its users, or restarts it, or  *)
(* leaves it alone.                                                        *)
LEMMA ServerMovesOrRestarts ==
  ASSUME [BrowserNext]_browserVars
  PROVE  ServerMoves \/ ServerRestarts
<1>1. CASE ServiceWorks
  BY <1>1 DEF ServiceWorks, ServerMoves
<1>2. CASE OthersStart
  BY <1>2 DEF OthersStart, ServerMoves
<1>3. CASE OthersStop
  BY <1>3 DEF OthersStop, ServerMoves
<1>4. CASE StartServed
  BY <1>4 DEF StartServed, ServerMoves
<1>5. CASE StopArrives
  BY <1>5 DEF StopArrives, ServerMoves
<1>6. CASE ConnectionLost \/ Open \/ CloseEvent \/ Snapshot \/ Effect
  BY <1>6 DEF ConnectionLost, Open, CloseEvent, Snapshot, Effect, ServerMoves
<1>7. CASE Receipt \/ StartRefused \/ FetchServed \/ FetchDone
  BY <1>7 DEF Receipt, StartRefused, FetchServed, FetchDone, ServerMoves
<1>8. CASE ClickStart \/ StartFails \/ ClickStop \/ FetchFails \/ Refresh
  BY <1>8 DEF ClickStart, StartFails, ClickStop, FetchFails, Refresh, ServerMoves
<1>9. CASE UNCHANGED browserVars
  BY <1>9 DEF browserVars, ServerMoves
<1> QED
  BY <1>1, <1>2, <1>3, <1>4, <1>5, <1>6, <1>7, <1>8, <1>9 DEF BrowserNext, Machinery

(* The steps of the service, with the definitions of RunService expanded.  *)
LEMMA ServerKept ==
  ASSUME ServerInv, ServerMoves
  PROVE  ServerInv'
<1> USE BrowserAssumption DEF ServerInv, Numbers, RunFrames
<1>1. CASE \E document \in BOOLEAN : Server!Admit(document)
  BY <1>1, SMTT(60) DEF Server!Admit
<1>2. CASE Server!RequestStop
  BY <1>2 DEF Server!RequestStop
<1>3. CASE Server!RecordRunning
  BY <1>3 DEF Server!RecordRunning
<1>4. CASE Server!ShowRunning
  BY <1>4 DEF Server!ShowRunning
<1>5. CASE Server!RecordEnd
  BY <1>5 DEF Server!RecordEnd
<1>6. CASE Server!ShowEnd
  BY <1>6 DEF Server!ShowEnd
<1>7. CASE Server!Release
  BY <1>7 DEF Server!Release
<1>8. CASE Server!Forget
  BY <1>8 DEF Server!Forget, Server!NoRecord
<1>9. CASE Server!Clear
  <2>1. /\ admitted' = admitted /\ slot' = slot /\ record' = record
        /\ record.run = 0 /\ record.status = "none"
        /\ stopRequested' = FALSE
        /\ shown' = [run |-> 0, status |-> "idle"]
    BY <1>9 DEF Server!Clear, Server!NoRecord, Server!Idle
  <2>2. shown' \in RunFrames /\ shown'.run = 0 /\ shown'.run <= admitted'
    BY <2>1
  <2> QED BY <2>1, <2>2
<1>10. CASE UNCHANGED serverVars
  BY <1>10 DEF serverVars
<1> QED
  BY <1>1, <1>2, <1>3, <1>4, <1>5, <1>6, <1>7, <1>8, <1>9, <1>10
  DEF ServerMoves, Server!Work

(* What the steps of the service do to a number.                           *)
LEMMA KnownKept ==
  ASSUME ServerInv, ServerMoves, NEW run \in Nat, Known(run)
  PROVE  run <= admitted' /\ (run # 0 /\ run # shown'.run => run # slot')
<1> USE BrowserAssumption DEF ServerInv, Numbers, RunFrames, Known
<1>1. CASE \E document \in BOOLEAN : Server!Admit(document)
  BY <1>1, SMTT(60) DEF Server!Admit
<1>2. CASE Server!RequestStop \/ Server!RecordRunning \/ Server!RecordEnd \/ Server!Forget
  BY <1>2 DEF Server!RequestStop, Server!RecordRunning, Server!RecordEnd, Server!Forget
<1>4. CASE Server!ShowRunning
  BY <1>4 DEF Server!ShowRunning
<1>6. CASE Server!ShowEnd
  BY <1>6 DEF Server!ShowEnd
<1>7. CASE Server!Release
  BY <1>7 DEF Server!Release
<1>9. CASE Server!Clear
  BY <1>9 DEF Server!Clear
<1>10. CASE UNCHANGED serverVars
  BY <1>10 DEF serverVars
<1> QED
  BY <1>1, <1>2, <1>4, <1>6, <1>7, <1>9, <1>10 DEF ServerMoves, Server!Work

(* A run that was known and is no longer shown is not shown again.         *)
LEMMA LeftForGood ==
  ASSUME ServerInv, ServerMoves, NEW run \in Nat, Known(run), run # 0, run # shown.run
  PROVE  run # shown'.run
<1> USE BrowserAssumption DEF ServerInv, Numbers, RunFrames, Known
<1>1. CASE \E document \in BOOLEAN : Server!Admit(document)
  BY <1>1, SMTT(60) DEF Server!Admit
<1>2. CASE Server!RequestStop \/ Server!RecordRunning \/ Server!RecordEnd \/ Server!Forget
  BY <1>2 DEF Server!RequestStop, Server!RecordRunning, Server!RecordEnd, Server!Forget
<1>4. CASE Server!ShowRunning
  BY <1>4 DEF Server!ShowRunning
<1>6. CASE Server!ShowEnd
  BY <1>6 DEF Server!ShowEnd
<1>7. CASE Server!Release
  BY <1>7 DEF Server!Release
<1>9. CASE Server!Clear
  BY <1>9 DEF Server!Clear, Server!Idle
<1>10. CASE UNCHANGED serverVars
  BY <1>10 DEF serverVars
<1> QED
  BY <1>1, <1>2, <1>4, <1>6, <1>7, <1>9, <1>10 DEF ServerMoves, Server!Work

(* Still ahead of the frames, or something else is shown.                  *)
LEMMA AheadUntilShown ==
  ASSUME ServerInv, ServerMoves, AheadOfFrames, shown.run # 0,
         shown'.run = shown.run
  PROVE  AheadOfFrames'
<1> USE BrowserAssumption DEF ServerInv, Numbers, RunFrames, AheadOfFrames
<1>1. CASE \E document \in BOOLEAN : Server!Admit(document)
  BY <1>1, SMTT(60) DEF Server!Admit
<1>2. CASE Server!RequestStop
  BY <1>2 DEF Server!RequestStop
<1>3. CASE Server!RecordRunning
  BY <1>3 DEF Server!RecordRunning
<1>4. CASE Server!ShowRunning
  BY <1>4 DEF Server!ShowRunning
<1>5. CASE Server!RecordEnd
  BY <1>5 DEF Server!RecordEnd
<1>6. CASE Server!ShowEnd
  BY <1>6 DEF Server!ShowEnd
<1>7. CASE Server!Release
  BY <1>7 DEF Server!Release
<1>8. CASE Server!Forget
  BY <1>8 DEF Server!Forget, Server!NoRecord
<1>9. CASE Server!Clear
  BY <1>9 DEF Server!Clear, Server!Idle
<1>10. CASE UNCHANGED serverVars
  BY <1>10 DEF serverVars
<1> QED
  BY <1>1, <1>2, <1>3, <1>4, <1>5, <1>6, <1>7, <1>8, <1>9, <1>10
  DEF ServerMoves, Server!Work

(* The same for a run that a later frame has left.                         *)
LEMMA BeforeKept ==
  ASSUME ServerInv, ServerMoves, NEW a \in Nat, NEW b \in Nat, Known(a), Before(a, b)
  PROVE  a # 0 /\ a # b => a # shown'.run
<1>1. CASE a # 0 /\ a # b
  BY <1>1, LeftForGood DEF Before
<1> QED BY <1>1

(* A document that fits a known run fits it until something else is shown. *)
LEMMA FitsKept ==
  ASSUME ServerInv, ServerMoves, NEW document \in Nat, NEW run \in Nat,
         run # 0, Known(run), Fits(document, run)
  PROVE  document = run \/ run # shown'.run \/ AheadOfFrames'
<1>1. CASE document # run /\ run = shown'.run
  <2>1. run = shown.run
    BY <1>1, LeftForGood
  <2>2. AheadOfFrames
    BY <1>1, <2>1 DEF Fits
  <2> QED BY <1>1, <2>1, <2>2, AheadUntilShown
<1> QED BY <1>1

(* A request whose phase, receipt, observations or origin changed.         *)
LEMMA RequestUpdates ==
  ASSUME NEW s \in Requests, NEW p \in {"none", "sent", "answered", "refused", "accepted"},
         NEW n \in Numbers, NEW o \in SUBSET (Numbers \ {0}), NEW l \in BOOLEAN
  PROVE  /\ [s EXCEPT !.phase = p] \in Requests
         /\ [s EXCEPT !.lost = l] \in Requests
         /\ [s EXCEPT !.phase = p, !.lost = l] \in Requests
         /\ [s EXCEPT !.phase = p, !.run = n] \in Requests
         /\ [s EXCEPT !.phase = p, !.observed = o] \in Requests
BY DEF Requests

LEMMA RequestObserves ==
  ASSUME NEW s \in Requests, NEW o \in SUBSET (Numbers \ {0})
  PROVE  [s EXCEPT !.observed = o] \in Requests
BY DEF Requests

(* A read that loses its receipt or is answered.                           *)
LEMMA ReadUpdates ==
  ASSUME NEW r \in Reads, NEW n \in Numbers
  PROVE  /\ [r EXCEPT !.accepted = n] \in Reads
         /\ [r EXCEPT !.phase = "answered", !.answer = n] \in Reads
BY DEF Reads

(* The initial values of the hook.                                         *)
LEMMA NothingTyped ==
  /\ 0 \in Numbers /\ NoStart \in Requests /\ NoFetch \in Reads /\ NoView \in Views
<1>1. 0 \in Numbers
  BY BrowserAssumption DEF Numbers
<1> QED BY <1>1 DEF NoStart, Requests, NoFetch, Reads, NoView, Views

(* The runs of frames are numbers.                                         *)
LEMMA ViewsAreNumbered ==
  ASSUME NEW v \in Views
  PROVE  v.run \in Numbers
BY NothingTyped DEF Views, RunFrames, NoView

LEMMA FramesAreNumbered ==
  ASSUME NEW s \in Seq(RunFrames), NEW i \in DOMAIN s
  PROVE  s[i] \in RunFrames /\ s[i].run \in Numbers /\ s[i].run \in Nat
<1>1. s[i] \in RunFrames
  OBVIOUS
<1>2. Numbers \subseteq Nat
  BY BrowserAssumption DEF Numbers
<1> QED BY <1>1, <1>2 DEF RunFrames

(* The waiting frames after a broadcast: the last one is new.              *)
LastIs(old, new, frame) ==
  /\ new \in Seq(RunFrames) /\ Len(new) \in 1 .. PipeCapacity /\ new[Len(new)] = frame
  /\ \A i \in DOMAIN new : i # Len(new) => i \in DOMAIN old /\ new[i] = old[i]

(* The hub replaces the frame that waits, or sends one more.               *)
LEMMA Replaced ==
  ASSUME NEW old \in Seq(RunFrames), old # << >>, Len(old) <= PipeCapacity,
         NEW frame \in RunFrames, NEW new, new = [old EXCEPT ![Len(old)] = frame]
  PROVE  LastIs(old, new, frame)
<1>1. Len(old) \in Nat /\ DOMAIN old = 1 .. Len(old)
  OBVIOUS
<1>2. Len(old) # 0
  BY EmptySeq
<1>3. PICK n \in Nat : n = Len(old) /\ n # 0
  BY <1>1, <1>2
<1>4. DOMAIN new = 1 .. n
  BY <1>1, <1>3
<1>5. \A i \in 1 .. n : new[i] = IF i = n THEN frame ELSE old[i]
  BY <1>1, <1>3
<1>6. \A i \in 1 .. n : old[i] \in RunFrames
  BY <1>1, <1>3
<1>7. new \in [1 .. n -> RunFrames]
  BY <1>1, <1>3, <1>6
<1>8. new \in Seq(RunFrames) /\ Len(new) = n
  BY <1>7
<1>9. n \in 1 .. PipeCapacity /\ n \in 1 .. n
  BY <1>3, BrowserAssumption
<1> QED BY <1>1, <1>3, <1>4, <1>5, <1>8, <1>9 DEF LastIs

LEMMA Appended ==
  ASSUME NEW old \in Seq(RunFrames), Len(old) < PipeCapacity,
         NEW frame \in RunFrames, NEW new, new = Append(old, frame)
  PROVE  LastIs(old, new, frame)
<1>1. new \in Seq(RunFrames) /\ Len(new) = Len(old) + 1 /\ DOMAIN new = 1 .. Len(old) + 1
  OBVIOUS
<1>2. \A i \in 1 .. Len(old) : new[i] = old[i]
  OBVIOUS
<1>3. new[Len(old) + 1] = frame
  OBVIOUS
<1>4. DOMAIN old = 1 .. Len(old)
  OBVIOUS
<1>5. PICK n \in Nat : n = Len(old)
  OBVIOUS
<1>6. n + 1 \in 1 .. PipeCapacity
  BY <1>5, BrowserAssumption
<1>7. \A i \in 1 .. n + 1 : i # n + 1 => i \in 1 .. n
  BY <1>5
<1> QED BY <1>1, <1>2, <1>3, <1>4, <1>5, <1>6, <1>7 DEF LastIs

LEMMA BroadcastReplacesOrAppends ==
  ASSUME pipe \in Seq(RunFrames), Len(pipe) <= PipeCapacity,
         NEW frame \in RunFrames, Broadcast(frame)
  PROVE  IF alive /\ socket # "closed" THEN LastIs(pipe, pipe', frame) ELSE pipe' = pipe
<1>1. CASE ~alive \/ socket = "closed"
  BY <1>1 DEF Broadcast
<1>2. CASE alive /\ socket # "closed" /\ pipe # << >> /\ pipe' = [pipe EXCEPT ![Len(pipe)] = frame]
  <2>1. LastIs(pipe, pipe', frame)
    BY <1>2, Replaced
  <2> QED BY <1>2, <2>1
<1>3. CASE alive /\ socket # "closed" /\ Len(pipe) < PipeCapacity /\ pipe' = Append(pipe, frame)
  <2>1. LastIs(pipe, pipe', frame)
    BY <1>3, Appended
  <2> QED BY <1>3, <2>1
<1> QED BY <1>1, <1>2, <1>3 DEF Broadcast

(* What a step of the service leaves in the pipe.                          *)
LEMMA ServicePipe ==
  ASSUME pipe \in Seq(RunFrames), Len(pipe) <= PipeCapacity, shown' \in RunFrames,
         ServiceWorks
  PROVE  \/ alive /\ socket # "closed" /\ LastIs(pipe, pipe', shown')
         \/ (alive => shown' = shown \/ socket = "closed") /\ pipe' = pipe
<1>1. CASE Server!ShowRunning \/ Server!ShowEnd \/ Server!Clear
  <2>1. Broadcast(shown')
    BY <1>1 DEF ServiceWorks
  <2> QED BY <2>1, BroadcastReplacesOrAppends
<1>2. CASE ~(Server!ShowRunning \/ Server!ShowEnd \/ Server!Clear)
  <2>1. pipe' = pipe /\ Server!Work
    BY <1>2 DEF ServiceWorks
  <2>2. shown' = shown
    BY <1>2, <2>1 DEF Server!Work, Server!RecordRunning, Server!RecordEnd,
       Server!Release, Server!Forget
  <2> QED BY <2>1, <2>2
<1> QED BY <1>1, <1>2

(* The browser takes the first frame; the last one stays the last.         *)
LEMMA FrameTaken ==
  ASSUME NEW s \in Seq(RunFrames), s # << >>, Len(s) <= PipeCapacity
  PROVE  /\ Head(s) \in RunFrames /\ Head(s) = s[1] /\ 1 \in DOMAIN s
         /\ Tail(s) \in Seq(RunFrames) /\ Len(Tail(s)) <= PipeCapacity
         /\ \A i \in DOMAIN Tail(s) : i + 1 \in DOMAIN s /\ Tail(s)[i] = s[i + 1]
         /\ IF Tail(s) = << >> THEN s[1] = s[Len(s)]
            ELSE Tail(s)[Len(Tail(s))] = s[Len(s)]
<1>1. Len(s) \in Nat \ {0} /\ DOMAIN s = 1 .. Len(s)
  BY EmptySeq
<1>2. Head(s) = s[1]
  OBVIOUS
<1>3. Tail(s) \in Seq(RunFrames) /\ Len(Tail(s)) = Len(s) - 1
  OBVIOUS
<1>4. \A i \in 1 .. Len(Tail(s)) : Tail(s)[i] = s[i + 1]
  BY HeadTailProperties
<1>5. DOMAIN Tail(s) = 1 .. Len(Tail(s))
  BY <1>3
<1>6. PICK n \in Nat : n + 1 = Len(s) /\ n = Len(Tail(s))
  <2>1. PICK m \in Nat \ {0} : m = Len(s)
    BY <1>1
  <2>2. m - 1 \in Nat /\ (m - 1) + 1 = m
    BY <2>1
  <2> QED BY <1>3, <2>1, <2>2
<1>7. 1 \in 1 .. n + 1 /\ n <= PipeCapacity
  BY <1>6, BrowserAssumption
<1>8. \A i \in 1 .. n : i + 1 \in 1 .. n + 1
  OBVIOUS
<1>9. Tail(s) = << >> <=> n = 0
  BY <1>3, <1>6, EmptySeq
<1>10. n # 0 => n \in 1 .. n
  OBVIOUS
<1>11. s[1] \in RunFrames
  BY <1>1, <1>6, <1>7
<1>12. Len(Tail(s)) <= PipeCapacity
  BY <1>6, <1>7
<1>13. IF Tail(s) = << >> THEN s[1] = s[Len(s)] ELSE Tail(s)[Len(Tail(s))] = s[Len(s)]
  BY <1>4, <1>6, <1>9, <1>10
<1>14. \A i \in DOMAIN Tail(s) : i + 1 \in DOMAIN s /\ Tail(s)[i] = s[i + 1]
  BY <1>1, <1>4, <1>5, <1>6, <1>8
<1>15. 1 \in DOMAIN s
  BY <1>1, <1>6, <1>7
<1> QED BY <1>2, <1>3, <1>11, <1>12, <1>13, <1>14, <1>15

(* Types of the browser and its connection.                                *)
LEMMA BrowserTypesKept ==
  ASSUME BrowserTypeOK, ServerInv, ServerInv', [BrowserNext]_browserVars
  PROVE  BrowserTypeOK'
<1> USE DEF BrowserTypeOK
<1>a. Trouble => troubles' \in 0 .. MaxTroubles
  BY BrowserAssumption DEF Trouble
<1>b. shown \in RunFrames /\ shown' \in RunFrames /\ record.run \in Numbers
      /\ admitted' \in Numbers
  BY BrowserAssumption DEF ServerInv, Numbers
<1>c. << >> \in Seq(RunFrames) /\ Len(<< >>) <= PipeCapacity
  <2>1. << >> \in Seq(RunFrames) /\ Len(<< >>) = 0
    BY EmptySeq
  <2> QED BY <2>1, BrowserAssumption
<1>d. <<shown>> \in Seq(RunFrames) /\ Len(<<shown>>) <= PipeCapacity
  <2>1. <<shown>> \in Seq(RunFrames) /\ Len(<<shown>>) = 1
    BY <1>b
  <2> QED BY <2>1, BrowserAssumption
<1>1. CASE ServiceWorks
  <2>1. pipe' \in Seq(RunFrames) /\ Len(pipe') <= PipeCapacity
    BY <1>1, <1>b, ServicePipe DEF LastIs
  <2> QED BY <1>1, <2>1 DEF ServiceWorks, hookVars, effectVars
<1>2. CASE OthersStart
  BY <1>2 DEF OthersStart, linkVars, hookVars, effectVars
<1>3. CASE OthersStop
  BY <1>3, <1>a DEF OthersStop, linkVars, hookVars, effectVars
<1>4. CASE ConnectionLost
  BY <1>4, <1>a DEF ConnectionLost, Dies, effectVars
<1>5. CASE ServerRestarts
  <2>1. Orphan(start) \in Requests
    <3>1. start \in Requests /\ "refused" \in {"none", "sent", "answered", "refused", "accepted"}
      OBVIOUS
    <3>2. StartPending \in BOOLEAN
      BY DEF StartPending
    <3> QED BY <3>1, <3>2, RequestUpdates DEF Orphan
  <2> QED BY <1>5, <1>a, <2>1 DEF ServerRestarts, Dies, effectVars
<1>6. CASE Open
  BY <1>6, <1>d, NothingTyped DEF Open
<1>7. CASE CloseEvent
  BY <1>7, <1>c, NothingTyped DEF CloseEvent, effectVars
<1>8. CASE Snapshot
  <2> DEFINE frame == Head(pipe)
  <2>1. frame \in RunFrames /\ Tail(pipe) \in Seq(RunFrames) /\ Len(Tail(pipe)) <= PipeCapacity
    BY <1>8, FrameTaken DEF Snapshot
  <2>2. /\ start' = IF MatchesStart(frame) THEN NoStart ELSE Observed(frame)
        /\ fetch' = IF MatchesStart(frame) THEN [fetch EXCEPT !.accepted = 0] ELSE fetch
        /\ view' = frame /\ connected' = TRUE /\ pipe' = Tail(pipe)
        /\ bumped' = (bumped \/ IdleRefreshes(frame))
        /\ stopPending' = (stopPending /\ frame.status # "idle")
    BY <1>8 DEF Snapshot
  <2> HIDE DEF frame
  <2>3. Observed(frame) \in Requests
    <3>1. CASE start.phase \notin {"sent", "answered"} \/ frame.run = 0
      BY <3>1 DEF Observed
    <3>2. CASE ~(start.phase \notin {"sent", "answered"} \/ frame.run = 0)
      <4> DEFINE o == start.observed \cup {frame.run}
      <4>1. o \in SUBSET (Numbers \ {0})
        BY <3>2, <2>1 DEF RunFrames, Requests
      <4>2. Observed(frame) = [start EXCEPT !.observed = o]
        BY <3>2 DEF Observed, Requests
      <4>3. start \in Requests
        OBVIOUS
      <4> HIDE DEF o, BrowserTypeOK
      <4> QED BY <4>1, <4>2, <4>3, RequestObserves
    <3> QED BY <3>1, <3>2
  <2>4. start' \in Requests
    BY <2>2, <2>3, NothingTyped
  <2>5. fetch' \in Reads
    BY <2>2, ReadUpdates, NothingTyped
  <2>6. view' \in Views
    BY <2>1, <2>2 DEF Views
  <2>7. bumped' \in BOOLEAN /\ stopPending' \in BOOLEAN
    BY <2>2 DEF IdleRefreshes
  <2>8. pipe' \in Seq(RunFrames) /\ Len(pipe') <= PipeCapacity
    BY <2>1, <2>2
  <2>9. UNCHANGED <<socket, alive, stopSent, troubles, currentRun, runError, ranWith>>
    BY <1>8 DEF Snapshot
  <2> QED BY <2>2, <2>4, <2>5, <2>6, <2>7, <2>8, <2>9
<1>9. CASE Effect
  <2>1. LatestRun \in Numbers /\ AcceptedRun \in Numbers
    BY NothingTyped, ViewsAreNumbered DEF LatestRun, AcceptedRun, Requests
  <2>2. fetch' \in Reads
    BY <1>9, <2>1, NothingTyped DEF Effect, Reads
  <2>3. ranWith' \in [connected : BOOLEAN, view : Views]
    BY <1>9 DEF Effect, Dependencies
  <2> QED BY <1>9, <2>2, <2>3 DEF Effect, linkVars, hookVars
<1>10. CASE StartServed
  <2>1. start' \in Requests
    <3>1. CASE start' = [start EXCEPT !.phase = "answered", !.run = admitted']
      BY <3>1, <1>b, RequestUpdates
    <3>2. CASE start' = [start EXCEPT !.phase = "refused"]
      BY <3>2, RequestUpdates
    <3> QED BY <1>10, <3>1, <3>2 DEF StartServed
  <2> QED BY <1>10, <2>1 DEF StartServed, linkVars, effectVars
<1>11. CASE Receipt
  <2>1. Received(start) \in Requests
    <3>1. {} \in SUBSET (Numbers \ {0})
      OBVIOUS
    <3> QED BY <3>1, RequestUpdates, NothingTyped DEF Received
  <2> QED BY <1>11, <2>1 DEF Receipt, linkVars
<1>12. CASE StartRefused
  BY <1>12, NothingTyped DEF StartRefused, linkVars, effectVars
<1>13. CASE StopArrives
  BY <1>13 DEF StopArrives, hookVars, effectVars
<1>14. CASE FetchServed
  <2>1. fetch' \in Reads
    BY <1>14, <1>b, ReadUpdates DEF FetchServed
  <2> QED BY <1>14, <2>1 DEF FetchServed, linkVars, hookVars
<1>15. CASE FetchDone
  <2>1. start' \in Requests /\ currentRun' \in Numbers /\ runError' \in BOOLEAN
    BY <1>15, NothingTyped DEF FetchDone, Reads
  <2> QED BY <1>15, <2>1, NothingTyped DEF FetchDone, linkVars
<1>16. CASE ClickStart
  <2>1. start' \in Requests
    <3>1. (~alive) \in BOOLEAN
      BY Zenon
    <3> QED BY <1>16, <3>1, NothingTyped, RequestUpdates DEF ClickStart
  <2> QED BY <1>16, <2>1 DEF ClickStart, linkVars, effectVars
<1>17. CASE StartFails
  BY <1>17, <1>a, NothingTyped DEF StartFails, linkVars, effectVars
<1>18. CASE ClickStop
  BY <1>18 DEF ClickStop, effectVars
<1>19. CASE FetchFails
  BY <1>19, <1>a, NothingTyped DEF FetchFails, linkVars
<1>20. CASE Refresh
  BY <1>20, <1>a DEF Refresh, linkVars, hookVars
<1>21. CASE UNCHANGED browserVars
  BY <1>21 DEF browserVars, linkVars, hookVars, effectVars
<1> QED
  BY <1>1, <1>2, <1>3, <1>4, <1>5, <1>6, <1>7, <1>8, <1>9, <1>10, <1>11, <1>12, <1>13,
     <1>14, <1>15, <1>16, <1>17, <1>18, <1>19, <1>20, <1>21 DEF BrowserNext, Machinery

(* The steps of the server that the hub does not see, or that change       *)
(* nothing it sends, keep what is known of the frames.                     *)
LEMMA FramesStill ==
  ASSUME BrowserTypeOK, ServerInv, FramesInv, ServerMoves, SameServer' => SameServer,
         UNCHANGED <<pipe, connected, view>>
  PROVE  FramesInv'
<1>1. \A i \in DOMAIN pipe : pipe[i].run \in Nat
  BY FramesAreNumbered DEF BrowserTypeOK
<1>2. view.run \in Nat
  BY BrowserAssumption, ViewsAreNumbered DEF BrowserTypeOK, Numbers
<1>3. CASE SameServer
  <2>1. ASSUME NEW i \in DOMAIN pipe PROVE Known(pipe[i].run)'
    <3>1. Known(pipe[i].run)
      BY <1>3 DEF FramesInv
    <3> QED BY <1>1, <3>1, KnownKept DEF Known
  <2>2. ASSUME connected PROVE Known(view.run)'
    <3>1. Known(view.run)
      BY <1>3, <2>2 DEF FramesInv
    <3> QED BY <1>2, <3>1, KnownKept DEF Known
  <2> QED BY <2>1, <2>2 DEF FramesInv
<1> QED BY <1>3 DEF FramesInv

(* Every step keeps FramesInv: what the browser holds of this server is    *)
(* known.                                                                  *)
LEMMA FramesKept ==
  ASSUME BrowserInv, ServerInv', [BrowserNext]_browserVars
  PROVE  FramesInv'
<1> USE DEF BrowserInv
<1>t. BrowserTypeOK /\ ServerInv /\ FramesInv /\ ServerInv'
  OBVIOUS
<1>m. CASE ServerMoves /\ (SameServer' => SameServer) /\ UNCHANGED <<pipe, connected, view>>
  BY <1>m, <1>t, FramesStill
<1>1. CASE ServiceWorks
  <2>1. /\ ServerMoves /\ UNCHANGED <<connected, view>>
        /\ SameServer' = SameServer
    BY <1>1 DEF ServiceWorks, ServerMoves, hookVars, SameServer
  <2>2. shown' \in RunFrames /\ shown'.run <= admitted'
    BY DEF ServerInv
  <2>3. CASE pipe' = pipe
    BY <1>m, <2>1, <2>3
  <2>4. CASE alive /\ LastIs(pipe, pipe', shown')
    <3>1. SameServer
      BY <2>4 DEF SameServer
    <3>2. ASSUME NEW i \in DOMAIN pipe' PROVE Known(pipe[i].run)'
      <4>1. CASE i = Len(pipe')
        BY <2>2, <2>4, <4>1 DEF LastIs, Known
      <4>2. CASE i # Len(pipe')
        <5>1. i \in DOMAIN pipe /\ pipe'[i] = pipe[i]
          BY <2>4, <4>2 DEF LastIs
        <5>2. pipe[i].run \in Nat /\ Known(pipe[i].run)
          BY <3>1, <5>1, FramesAreNumbered DEF BrowserTypeOK, FramesInv
        <5> QED BY <2>1, <5>1, <5>2, KnownKept DEF Known
      <4> QED BY <4>1, <4>2
    <3>3. ASSUME connected PROVE Known(view.run)'
      <4>1. view.run \in Nat /\ Known(view.run)
        BY <3>1, <3>3, BrowserAssumption, ViewsAreNumbered DEF BrowserTypeOK, FramesInv, Numbers
      <4> QED BY <2>1, <4>1, KnownKept DEF Known
    <3> QED BY <2>1, <3>2, <3>3 DEF FramesInv
  <2> QED BY <1>1, <2>2, <2>3, <2>4, ServicePipe DEF BrowserTypeOK
<1>2. CASE OthersStart
  BY <1>2, <1>m DEF OthersStart, ServerMoves, linkVars, hookVars, SameServer
<1>3. CASE OthersStop
  BY <1>3, <1>m DEF OthersStop, ServerMoves, linkVars, hookVars, SameServer
<1>4. CASE ConnectionLost
  BY <1>4, <1>m DEF ConnectionLost, Dies, ServerMoves, SameServer
<1>5. CASE ServerRestarts
  <2>1. ~SameServer'
    <3>1. start' = Orphan(start) /\ alive' = FALSE /\ start \in Requests
      BY <1>5 DEF ServerRestarts, Dies, BrowserTypeOK
    <3>2. CASE start.phase = "sent"
      BY <3>1, <3>2 DEF Orphan, Requests, SameServer
    <3>3. CASE start.phase # "sent"
      BY <3>1, <3>3 DEF Orphan, Requests, SameServer, StartPending
    <3> QED BY <3>2, <3>3
  <2> QED BY <2>1 DEF FramesInv
<1>6. CASE Open
  <2>1. pipe' = <<shown>> /\ connected' = FALSE /\ UNCHANGED serverVars
    BY <1>6 DEF Open
  <2>2. Known(shown.run)
    BY DEF ServerInv, Known
  <2>3. ASSUME NEW i \in DOMAIN pipe' PROVE Known(pipe[i].run)'
    <3>1. pipe'[i] = shown
      BY <2>1
    <3> QED BY <2>1, <2>2, <3>1 DEF Known, serverVars
  <2> QED BY <2>1, <2>3 DEF FramesInv
<1>7. CASE CloseEvent
  <2>1. pipe' = << >> /\ connected' = FALSE
    BY <1>7 DEF CloseEvent
  <2> QED BY <2>1 DEF FramesInv
<1>8. CASE Snapshot
  <2> DEFINE frame == Head(pipe)
  <2>1. /\ frame = pipe[1] /\ 1 \in DOMAIN pipe
        /\ \A i \in DOMAIN Tail(pipe) : i + 1 \in DOMAIN pipe /\ Tail(pipe)[i] = pipe[i + 1]
    BY <1>8, FrameTaken DEF Snapshot, BrowserTypeOK
  <2>2. /\ start' = IF MatchesStart(frame) THEN NoStart ELSE Observed(frame)
        /\ view' = frame /\ pipe' = Tail(pipe) /\ UNCHANGED serverVars /\ alive' = alive
    BY <1>8 DEF Snapshot
  <2> HIDE DEF frame
  <2>3. SameServer' => SameServer
    BY <2>2 DEF SameServer, Observed, NoStart, BrowserTypeOK, Requests
  <2>4. CASE SameServer
    <3>1. \A i \in DOMAIN pipe : Known(pipe[i].run)
      BY <2>4 DEF FramesInv
    <3>2. ASSUME NEW i \in DOMAIN pipe' PROVE Known(pipe[i].run)'
      <4>1. Known(pipe[i + 1].run) /\ pipe'[i] = pipe[i + 1]
        BY <2>1, <2>2, <3>1
      <4> QED BY <2>2, <4>1 DEF Known, serverVars
    <3>3. Known(view.run)'
      BY <2>1, <2>2, <3>1 DEF Known, serverVars
    <3> QED BY <3>2, <3>3 DEF FramesInv
  <2> QED BY <2>3, <2>4 DEF FramesInv
<1>9. CASE Effect \/ FetchServed \/ ClickStop \/ FetchFails \/ Refresh
  BY <1>9, <1>m DEF Effect, FetchServed, ClickStop, FetchFails, Refresh, linkVars,
    hookVars, ServerMoves, SameServer
<1>10. CASE StartServed
  <2>1. SameServer' => SameServer
    BY <1>10 DEF StartServed, linkVars, SameServer, BrowserTypeOK, Requests
  <2> QED BY <1>10, <1>m, <2>1 DEF StartServed, linkVars, ServerMoves
<1>11. CASE Receipt
  <2>1. SameServer' => SameServer
    BY <1>11 DEF Receipt, Received, NoStart, linkVars, SameServer, BrowserTypeOK, Requests
  <2> QED BY <1>11, <1>m, <2>1 DEF Receipt, linkVars, ServerMoves
<1>12. CASE StartRefused \/ StartFails
  <2>1. SameServer' => SameServer
    BY <1>12 DEF StartRefused, StartFails, NoStart, linkVars, SameServer
  <2> QED BY <1>12, <1>m, <2>1 DEF StartRefused, StartFails, linkVars, ServerMoves
<1>13. CASE StopArrives
  BY <1>13, <1>m DEF StopArrives, ServerMoves, hookVars, SameServer
<1>15. CASE FetchDone
  <2>1. SameServer' => SameServer
    BY <1>15 DEF FetchDone, NoStart, linkVars, SameServer
  <2> QED BY <1>15, <1>m, <2>1 DEF FetchDone, linkVars, ServerMoves
<1>16. CASE ClickStart
  <2>1. SameServer' => SameServer
    BY <1>16 DEF ClickStart, NoStart, linkVars, SameServer, BrowserTypeOK
  <2> QED BY <1>16, <1>m, <2>1 DEF ClickStart, linkVars, ServerMoves
<1>21. CASE UNCHANGED browserVars
  BY <1>21, <1>m DEF browserVars, linkVars, hookVars, ServerMoves, SameServer
<1> QED
  BY <1>1, <1>2, <1>3, <1>4, <1>5, <1>6, <1>7, <1>8, <1>9, <1>10, <1>11, <1>12, <1>13,
     <1>15, <1>16, <1>21 DEF BrowserNext, Machinery

(* LinkInv depends on what is shown, not on the rest of the server.        *)
LEMMA LinkStill ==
  ASSUME LinkInv, alive' => alive, UNCHANGED <<shown, socket, pipe, connected, view>>
  PROVE  LinkInv'
BY DEF LinkInv, Before

(* Every step keeps LinkInv: the last frame on its way is the one that is  *)
(* shown, and frames leave a run for good.                                 *)
LEMMA LinkKept ==
  ASSUME BrowserInv, [BrowserNext]_browserVars
  PROVE  LinkInv'
<1> USE DEF BrowserInv
<1>t. BrowserTypeOK /\ ServerInv /\ FramesInv /\ LinkInv
  OBVIOUS
<1>m. CASE (alive' => alive) /\ UNCHANGED <<shown, socket, pipe, connected, view>>
  BY <1>m, <1>t, LinkStill
<1>1. CASE ServiceWorks
  <2>1. ServerMoves /\ UNCHANGED <<connected, view, socket, alive>>
    BY <1>1 DEF ServiceWorks, ServerMoves, hookVars
  <2>2. shown' \in RunFrames
    BY <2>1, ServerKept DEF ServerInv
  <2>3. CASE ~alive
    BY <2>1, <2>3 DEF LinkInv
  <2>4. CASE alive /\ pipe' = pipe /\ shown' = shown
    BY <1>m, <2>1, <2>4
  <2>5. CASE alive /\ LastIs(pipe, pipe', shown')
    <3>1. /\ socket = "open"
          /\ \A i, j \in DOMAIN pipe : i < j => Before(pipe[i].run, pipe[j].run)
          /\ connected => \A i \in DOMAIN pipe : Before(view.run, pipe[i].run)
          /\ \A i \in DOMAIN pipe : Known(pipe[i].run)
          /\ connected => Known(view.run)
      BY <2>5 DEF LinkInv, FramesInv, SameServer
    <3>2. pipe' # << >> /\ pipe'[Len(pipe')] = shown'
          /\ pipe' \in Seq(RunFrames) /\ Len(pipe') \in Nat
          /\ DOMAIN pipe' = 1 .. Len(pipe')
      BY <2>5, EmptySeq DEF LastIs
    <3>3. ASSUME NEW i \in DOMAIN pipe', NEW j \in DOMAIN pipe', i < j
          PROVE  Before(pipe[i].run, pipe[j].run)'
      <4>1. i # Len(pipe')
        <5>1. PICK n \in Nat : n = Len(pipe')
          BY <3>2
        <5> QED BY <3>2, <3>3, <5>1
      <4>2. i \in DOMAIN pipe /\ pipe'[i] = pipe[i]
        BY <2>5, <4>1 DEF LastIs
      <4>3. CASE j = Len(pipe')
        BY <3>2, <4>3 DEF Before
      <4>4. CASE j # Len(pipe')
        <5>1. j \in DOMAIN pipe /\ pipe'[j] = pipe[j]
          BY <2>5, <4>4 DEF LastIs
        <5>2. Before(pipe[i].run, pipe[j].run) /\ Known(pipe[i].run)
          BY <3>1, <3>3, <4>2, <5>1
        <5>3. pipe[i].run \in Nat /\ pipe[j].run \in Nat
          BY <4>2, <5>1, FramesAreNumbered DEF BrowserTypeOK
        <5>4. pipe[i].run # 0 /\ pipe[i].run # pipe[j].run => pipe[i].run # shown'.run
          BY <2>1, <5>2, <5>3, BeforeKept
        <5> QED BY <4>2, <5>1, <5>4 DEF Before
      <4> QED BY <4>3, <4>4
    <3>4. ASSUME connected, NEW i \in DOMAIN pipe'
          PROVE  Before(view.run, pipe[i].run)'
      <4>1. CASE i = Len(pipe')
        BY <2>1, <3>2, <4>1 DEF Before
      <4>2. CASE i # Len(pipe')
        <5>1. i \in DOMAIN pipe /\ pipe'[i] = pipe[i]
          BY <2>5, <4>2 DEF LastIs
        <5>2. Before(view.run, pipe[i].run) /\ Known(view.run)
          BY <3>1, <3>4, <5>1
        <5>3. view.run \in Nat /\ pipe[i].run \in Nat
          BY <5>1, FramesAreNumbered, ViewsAreNumbered, BrowserAssumption
          DEF BrowserTypeOK, Numbers
        <5>4. view.run # 0 /\ view.run # pipe[i].run => view.run # shown'.run
          BY <2>1, <5>2, <5>3, BeforeKept
        <5> QED BY <2>1, <5>1, <5>4 DEF Before
      <4> QED BY <4>1, <4>2
    <3> QED BY <2>1, <3>1, <3>2, <3>3, <3>4 DEF LinkInv
  <2> QED BY <1>1, <2>2, <2>3, <2>4, <2>5, ServicePipe DEF BrowserTypeOK, LinkInv
<1>2. CASE OthersStart
  BY <1>2, <1>m DEF OthersStart, Server!Admit, linkVars, hookVars
<1>3. CASE OthersStop
  BY <1>3, <1>m DEF OthersStop, Server!RequestStop, linkVars, hookVars
<1>4. CASE ConnectionLost \/ ServerRestarts
  BY <1>4 DEF ConnectionLost, ServerRestarts, Dies, LinkInv
<1>6. CASE Open
  <2>1. socket' = "open" /\ connected' = FALSE /\ pipe' = <<shown>> /\ shown' = shown
    BY <1>6 DEF Open, serverVars
  <2>2. pipe' # << >> /\ Len(pipe') = 1 /\ DOMAIN pipe' = {1} /\ pipe'[1] = shown'
    BY <2>1
  <2>3. \A i, j \in DOMAIN pipe' : ~(i < j)
    BY <2>2
  <2> QED BY <2>1, <2>2, <2>3 DEF LinkInv
<1>7. CASE CloseEvent
  BY <1>7 DEF CloseEvent, LinkInv
<1>8. CASE Snapshot
  <2>1. /\ Head(pipe) = pipe[1] /\ 1 \in DOMAIN pipe
        /\ \A i \in DOMAIN Tail(pipe) : i + 1 \in DOMAIN pipe /\ Tail(pipe)[i] = pipe[i + 1]
        /\ IF Tail(pipe) = << >> THEN pipe[1] = pipe[Len(pipe)]
           ELSE Tail(pipe)[Len(Tail(pipe))] = pipe[Len(pipe)]
        /\ DOMAIN Tail(pipe) = 1 .. Len(Tail(pipe)) /\ Len(Tail(pipe)) \in Nat
    BY <1>8, FrameTaken DEF Snapshot, BrowserTypeOK
  <2>2. /\ view' = Head(pipe) /\ connected' = TRUE /\ pipe' = Tail(pipe)
        /\ UNCHANGED <<shown, socket, alive>> /\ pipe # << >>
    BY <1>8 DEF Snapshot, serverVars
  <2>3. CASE alive
    <3>1. /\ socket = "open" /\ pipe[Len(pipe)] = shown
          /\ \A i, j \in DOMAIN pipe : i < j => Before(pipe[i].run, pipe[j].run)
      BY <2>2, <2>3 DEF LinkInv
    <3>2. IF pipe' = << >> THEN connected' /\ view' = shown' ELSE pipe'[Len(pipe')] = shown'
      BY <2>1, <2>2, <3>1
    <3>3. ASSUME NEW i \in DOMAIN pipe', NEW j \in DOMAIN pipe', i < j
          PROVE  Before(pipe[i].run, pipe[j].run)'
      <4>1. /\ i + 1 \in DOMAIN pipe /\ pipe'[i] = pipe[i + 1]
            /\ j + 1 \in DOMAIN pipe /\ pipe'[j] = pipe[j + 1]
        BY <2>1, <2>2
      <4>2. i + 1 < j + 1
        BY <2>1, <2>2, <3>3
      <4>3. Before(pipe[i + 1].run, pipe[j + 1].run)
        BY <3>1, <4>1, <4>2
      <4> QED BY <2>2, <4>1, <4>3 DEF Before
    <3>4. ASSUME NEW i \in DOMAIN pipe' PROVE Before(view.run, pipe[i].run)'
      <4>1. i + 1 \in DOMAIN pipe /\ pipe'[i] = pipe[i + 1] /\ 1 < i + 1
        BY <2>1, <2>2
      <4>2. Before(pipe[1].run, pipe[i + 1].run)
        BY <2>1, <3>1, <4>1
      <4> QED BY <2>1, <2>2, <4>1, <4>2 DEF Before
    <3> QED BY <2>2, <3>1, <3>2, <3>3, <3>4 DEF LinkInv
  <2> QED BY <2>2, <2>3 DEF LinkInv
<1>9. CASE Effect \/ FetchServed \/ ClickStop \/ FetchFails \/ Refresh \/ FetchDone
  BY <1>9, <1>m DEF Effect, FetchServed, ClickStop, FetchFails, Refresh, FetchDone, linkVars,
    hookVars, serverVars
<1>10. CASE StartServed
  BY <1>10, <1>m DEF StartServed, Server!Admit, linkVars, serverVars
<1>11. CASE Receipt \/ StartRefused \/ StartFails \/ ClickStart
  BY <1>11, <1>m DEF Receipt, StartRefused, StartFails, ClickStart, linkVars, serverVars
<1>13. CASE StopArrives
  BY <1>13, <1>m DEF StopArrives, Server!RequestStop, hookVars, serverVars
<1>21. CASE UNCHANGED browserVars
  BY <1>21, <1>m DEF browserVars, linkVars, hookVars, serverVars
<1> QED
  BY <1>1, <1>2, <1>3, <1>4, <1>6, <1>7, <1>8, <1>9, <1>10, <1>11, <1>13,
     <1>21 DEF BrowserNext, Machinery

Reading == alive /\ ~bumped /\ ranWith.connected

ReadFor(run) ==
  /\ connected /\ Known(run) /\ Before(run, view.run)
  /\ \A i \in DOMAIN pipe : Before(run, pipe[i].run)
  /\ run # 0 =>
       /\ fetch.phase # "none" => fetch.asked = run
       /\ fetch.phase = "answered" => Fits(fetch.answer, run)
       /\ fetch.phase = "none" => runError \/ Fits(currentRun, run)

(* ReadInv as an implication between two named facts.                      *)
LEMMA ReadMeans ==
  ReadInv <=> (Reading => ReadFor(ranWith.view.run))
BY DEF ReadInv, Reading, ReadFor

LEMMA ReadMeansNext ==
  ReadInv' <=> (Reading' => ReadFor(ranWith.view.run)')
BY ReadMeans, PTL

(* Every frame in the pipe was there, or is the one that is shown.         *)
OnlyNew(old, new, frame) ==
  \A i \in DOMAIN new : new[i] = frame \/ (i \in DOMAIN old /\ new[i] = old[i])

(* The read stays as it is while the server works.                         *)
LEMMA ReadStill ==
  ASSUME BrowserTypeOK, ServerInv, ReadInv, ServerMoves, Reading' => Reading,
         UNCHANGED <<ranWith, fetch, connected, view, currentRun>>,
         runError => runError', OnlyNew(pipe, pipe', shown')
  PROVE  ReadInv'
<1>1. CASE Reading
  <2> DEFINE run == ranWith.view.run
  <2>1. run \in Nat /\ view.run \in Nat /\ fetch.answer \in Nat /\ currentRun \in Nat
    BY ViewsAreNumbered, BrowserAssumption DEF BrowserTypeOK, Numbers, Reads
  <2>2. ReadFor(run)
    BY <1>1, ReadMeans
  <2>3. run' = run
    OBVIOUS
  <2> HIDE DEF run
  <2>4. Known(run) /\ Before(run, view.run)
    BY <2>2 DEF ReadFor
  <2>5. run <= admitted' /\ (run # 0 /\ run # shown'.run => run # slot')
    BY <2>1, <2>4, KnownKept
  <2>6. run # 0 /\ run # view.run => run # shown'.run
    BY <2>1, <2>4, BeforeKept
  <2>7. ASSUME NEW i \in DOMAIN pipe'
        PROVE  run # 0 /\ run # pipe'[i].run => run # shown'.run
    <3>1. CASE pipe'[i] = shown'
      BY <3>1
    <3>2. CASE i \in DOMAIN pipe /\ pipe'[i] = pipe[i]
      <4>1. Before(run, pipe[i].run) /\ pipe[i].run \in Nat
        BY <2>2, <3>2, FramesAreNumbered DEF ReadFor, BrowserTypeOK
      <4> QED BY <2>1, <2>4, <3>2, <4>1, BeforeKept
    <3> QED BY <3>1, <3>2 DEF OnlyNew
  <2>8. ASSUME run # 0, fetch.phase = "answered"
        PROVE  fetch.answer = run \/ run # shown'.run \/ AheadOfFrames'
    <3>1. Fits(fetch.answer, run)
      BY <2>2, <2>8 DEF ReadFor
    <3> QED BY <2>1, <2>4, <2>8, <3>1, FitsKept
  <2>9. ASSUME run # 0, fetch.phase = "none", ~runError
        PROVE  currentRun = run \/ run # shown'.run \/ AheadOfFrames'
    <3>1. Fits(currentRun, run)
      BY <2>2, <2>9 DEF ReadFor
    <3> QED BY <2>1, <2>4, <2>9, <3>1, FitsKept
  <2>10. /\ connected'
         /\ run # 0 /\ fetch'.phase # "none" => fetch'.asked = run
    BY <2>2 DEF ReadFor
  <2>11. ReadFor(run)'
    BY <2>3, <2>5, <2>6, <2>7, <2>8, <2>9, <2>10 DEF ReadFor, Known, Before, Fits
  <2> QED BY <2>11, ReadMeansNext DEF run
<1> QED BY <1>1, ReadMeansNext

(* Every step keeps ReadInv: a read that was asked for a shown run ends    *)
(* with its document, or something else is about to be shown.              *)
LEMMA ReadKept ==
  ASSUME BrowserInv, [BrowserNext]_browserVars
  PROVE  ReadInv'
<1> USE DEF BrowserInv
<1>t. BrowserTypeOK /\ ServerInv /\ FramesInv /\ LinkInv /\ ReadInv
  OBVIOUS
<1>s. OnlyNew(pipe, pipe, shown')
  BY DEF OnlyNew
<1>m. CASE /\ ServerMoves /\ (Reading' => Reading)
           /\ UNCHANGED <<ranWith, fetch, connected, view, currentRun>>
           /\ (runError => runError') /\ pipe' = pipe
  BY <1>m, <1>t, <1>s, ReadStill
<1>r. /\ ranWith.view.run \in Nat /\ view.run \in Nat
  BY ViewsAreNumbered, BrowserAssumption DEF BrowserTypeOK, Numbers
<1>1. CASE ServiceWorks
  <2>1. /\ ServerMoves
        /\ UNCHANGED <<ranWith, fetch, connected, view, currentRun, runError, bumped, alive>>
    BY <1>1 DEF ServiceWorks, ServerMoves, hookVars, effectVars
  <2>2. shown' \in RunFrames
    BY <2>1, ServerKept DEF ServerInv
  <2>3. OnlyNew(pipe, pipe', shown')
    <3>1. CASE pipe' = pipe
      BY <1>s, <3>1
    <3>2. CASE LastIs(pipe, pipe', shown')
      BY <3>2 DEF LastIs, OnlyNew
    <3> QED BY <1>1, <2>2, <3>1, <3>2, ServicePipe DEF BrowserTypeOK
  <2> QED BY <1>t, <2>1, <2>3, ReadStill DEF Reading
<1>2. CASE OthersStart
  BY <1>2, <1>m DEF OthersStart, ServerMoves, linkVars, hookVars, effectVars, Reading
<1>3. CASE OthersStop
  BY <1>3, <1>m DEF OthersStop, ServerMoves, linkVars, hookVars, effectVars, Reading
<1>4. CASE ConnectionLost \/ ServerRestarts
  BY <1>4 DEF ConnectionLost, ServerRestarts, Dies, ReadInv
<1>6. CASE Open
  BY <1>6 DEF Open, ReadInv
<1>7. CASE CloseEvent
  BY <1>7 DEF CloseEvent, ReadInv
<1>8. CASE Snapshot
  <2>1. /\ Head(pipe) = pipe[1] /\ 1 \in DOMAIN pipe
        /\ \A i \in DOMAIN Tail(pipe) : i + 1 \in DOMAIN pipe /\ Tail(pipe)[i] = pipe[i + 1]
    BY <1>8, FrameTaken DEF Snapshot, BrowserTypeOK
  <2>2. /\ view' = Head(pipe) /\ connected' = TRUE /\ pipe' = Tail(pipe)
        /\ fetch' = fetch \/ fetch' = [fetch EXCEPT !.accepted = 0]
        /\ bumped' = (bumped \/ IdleRefreshes(Head(pipe)))
        /\ UNCHANGED <<serverVars, alive, currentRun, runError, ranWith>>
    BY <1>8 DEF Snapshot
  <2>3. /\ fetch'.phase = fetch.phase /\ fetch'.asked = fetch.asked
        /\ fetch'.answer = fetch.answer
    BY <2>2 DEF BrowserTypeOK, Reads
  <2>4. CASE Reading
    <3> DEFINE run == ranWith.view.run
    <3>1. ReadFor(run) /\ run' = run
      BY <2>2, <2>4, ReadMeans
    <3> HIDE DEF run
    <3>2. \A i \in DOMAIN pipe : Before(run, pipe[i].run)
      BY <3>1 DEF ReadFor
    <3>3. Before(run, view'.run)
      BY <2>1, <2>2, <3>2
    <3>4. \A i \in DOMAIN pipe' : Before(run, pipe'[i].run)
      BY <2>1, <2>2, <3>2
    <3>5. ReadFor(run)'
      BY <2>2, <2>3, <3>1, <3>3, <3>4 DEF ReadFor, Known, Before, Fits, AheadOfFrames, serverVars
    <3> QED BY <3>5, ReadMeansNext DEF run
  <2> QED BY <2>2, <2>4, ReadMeansNext DEF Reading
<1>9. CASE Effect
  <2>1. /\ ranWith' = Dependencies
        /\ connected => /\ fetch'.phase = "sent" /\ fetch'.asked = view.run
        /\ UNCHANGED <<serverVars, alive, pipe, connected, view>>
    BY <1>9 DEF Effect, linkVars, hookVars, LatestRun
  <2>2. CASE Reading'
    <3> DEFINE run == view.run
    <3>1. connected /\ alive /\ ranWith'.view = view
      BY <2>1, <2>2 DEF Reading, Dependencies
    <3>2. /\ Known(run) /\ \A i \in DOMAIN pipe : Before(run, pipe[i].run)
      BY <3>1 DEF FramesInv, SameServer, LinkInv
    <3>3. ReadFor(ranWith.view.run)'
      BY <2>1, <3>1, <3>2 DEF ReadFor, Known, Before, serverVars
    <3> QED BY <3>3, ReadMeansNext
  <2> QED BY <2>2, ReadMeansNext
<1>10. CASE StartServed
  BY <1>10, <1>m DEF StartServed, ServerMoves, linkVars, effectVars, Reading
<1>11. CASE Receipt
  <2>1. bumped'
    BY <1>11 DEF Receipt
  <2> QED BY <2>1 DEF ReadInv
<1>12. CASE StartRefused \/ StartFails \/ ClickStart
  BY <1>12, <1>m DEF StartRefused, StartFails, ClickStart, linkVars, effectVars, ServerMoves,
    Reading
<1>13. CASE StopArrives
  BY <1>13, <1>m DEF StopArrives, ServerMoves, hookVars, effectVars, Reading
<1>14. CASE ClickStop
  BY <1>14, <1>m DEF ClickStop, ServerMoves, effectVars, Reading
<1>15. CASE FetchServed
  <2>1. /\ fetch.phase = "sent" /\ fetch'.phase = "answered" /\ fetch'.asked = fetch.asked
        /\ fetch'.answer = record.run
        /\ UNCHANGED <<serverVars, alive, pipe, connected, view, ranWith, bumped,
                       currentRun, runError>>
    BY <1>15 DEF FetchServed, linkVars, hookVars, BrowserTypeOK, Reads
  <2>2. CASE Reading
    <3> DEFINE run == ranWith.view.run
    <3>1. ReadFor(run) /\ run' = run
      BY <2>1, <2>2, ReadMeans
    <3> HIDE DEF run
    <3>2. run # 0 => Fits(record.run, run)
      BY DEF Fits, AheadOfFrames, ServerInv, RunFrames
    <3>3. ReadFor(run)'
      BY <2>1, <3>1, <3>2 DEF ReadFor, Known, Before, Fits, AheadOfFrames, serverVars
    <3> QED BY <3>3, ReadMeansNext DEF run
  <2> QED BY <2>1, <2>2, ReadMeansNext DEF Reading
<1>16. CASE FetchDone
  <2>1. /\ fetch.phase = "answered" /\ fetch' = NoFetch
        /\ IF Stale THEN UNCHANGED <<currentRun, runError>>
           ELSE currentRun' = fetch.answer /\ runError' = FALSE
        /\ UNCHANGED <<serverVars, alive, pipe, connected, view, ranWith, bumped>>
    BY <1>16 DEF FetchDone, linkVars
  <2>2. CASE Reading
    <3> DEFINE run == ranWith.view.run
    <3>1. ReadFor(run) /\ run' = run
      BY <2>1, <2>2, ReadMeans
    <3> HIDE DEF run
    <3>2. /\ connected /\ Before(run, view.run)
          /\ run # 0 => fetch.asked = run /\ Fits(fetch.answer, run)
      BY <2>1, <3>1 DEF ReadFor
    <3>3. run # 0 => runError' \/ Fits(currentRun', run)
      <4>1. CASE Stale /\ run # 0
        <5>1. run # view.run
          BY <3>2, <4>1 DEF Stale, LatestRun
        <5> QED BY <3>2, <4>1, <5>1 DEF Before, Fits
      <4>2. CASE ~Stale
        BY <2>1, <3>2, <4>2
      <4> QED BY <4>1, <4>2
    <3>4. fetch'.phase = "none"
      BY <2>1 DEF NoFetch
    <3>5. ReadFor(run)'
      BY <2>1, <3>1, <3>3, <3>4 DEF ReadFor, Known, Before, Fits, AheadOfFrames, serverVars
    <3> QED BY <3>5, ReadMeansNext DEF run
  <2> QED BY <2>1, <2>2, ReadMeansNext DEF Reading
<1>17. CASE FetchFails
  <2>1. /\ fetch' = NoFetch /\ runError' = TRUE
        /\ UNCHANGED <<serverVars, alive, pipe, connected, view, ranWith, bumped>>
    BY <1>17 DEF FetchFails, linkVars
  <2>2. CASE Reading
    <3> DEFINE run == ranWith.view.run
    <3>1. ReadFor(run) /\ run' = run
      BY <2>1, <2>2, ReadMeans
    <3> HIDE DEF run
    <3>2. fetch'.phase = "none"
      BY <2>1 DEF NoFetch
    <3>3. ReadFor(run)'
      BY <2>1, <3>1, <3>2 DEF ReadFor, Known, Before, serverVars
    <3> QED BY <3>3, ReadMeansNext DEF run
  <2> QED BY <2>1, <2>2, ReadMeansNext DEF Reading
<1>18. CASE Refresh
  BY <1>18 DEF Refresh, ReadInv
<1>21. CASE UNCHANGED browserVars
  BY <1>21, <1>m DEF browserVars, linkVars, hookVars, effectVars, ServerMoves, Reading
<1> QED
  BY <1>1, <1>2, <1>3, <1>4, <1>6, <1>7, <1>8, <1>9, <1>10, <1>11, <1>12, <1>13, <1>14,
     <1>15, <1>16, <1>17, <1>18, <1>21 DEF BrowserNext, Machinery

(* A run that no longer waits to be launched never waits again.            *)
LEMMA NotAcceptedAgain ==
  ASSUME ServerInv, ServerMoves, NEW run \in Nat, run <= admitted,
         record # [run |-> run, status |-> "accepted"]
  PROVE  record' # [run |-> run, status |-> "accepted"]
<1> USE BrowserAssumption DEF ServerInv, Numbers, RunFrames
<1>1. CASE \E document \in BOOLEAN : Server!Admit(document)
  BY <1>1, SMTT(60) DEF Server!Admit
<1>2. CASE Server!RequestStop \/ Server!ShowRunning \/ Server!ShowEnd \/ Server!Release \/ Server!Clear
  BY <1>2 DEF Server!RequestStop, Server!ShowRunning, Server!ShowEnd, Server!Release, Server!Clear
<1>3. CASE Server!RecordRunning
  BY <1>3 DEF Server!RecordRunning
<1>4. CASE Server!RecordEnd
  BY <1>4 DEF Server!RecordEnd
<1>5. CASE Server!Forget
  BY <1>5 DEF Server!Forget, Server!NoRecord
<1>6. CASE UNCHANGED serverVars
  BY <1>6 DEF serverVars
<1> QED
  BY <1>1, <1>2, <1>3, <1>4, <1>5, <1>6 DEF ServerMoves, Server!Work

ReceiptIsOurs ==
  start.phase \in {"answered", "accepted"} /\ ~start.lost => start.run <= admitted

ObservedAreKnown ==
  start.phase \in {"sent", "answered"} /\ ~start.lost =>
    \A run \in start.observed : Known(run)

ReadBelongs ==
  fetch.accepted # 0 =>
    /\ start.phase = "accepted" /\ start.run = fetch.accepted
    /\ fetch.phase = "answered" /\ fetch.answer # fetch.accepted /\ ~start.lost =>
         record # [run |-> fetch.accepted, status |-> "accepted"]

(* StartInv as a conjunction of three named facts.                         *)
LEMMA StartMeans ==
  StartInv <=> ReceiptIsOurs /\ ObservedAreKnown /\ ReadBelongs
BY DEF StartInv, ReceiptIsOurs, ObservedAreKnown, ReadBelongs

LEMMA StartMeansNext ==
  StartInv' <=> ReceiptIsOurs' /\ ObservedAreKnown' /\ ReadBelongs'
BY StartMeans, PTL

LEMMA StartTyped ==
  ASSUME BrowserTypeOK
  PROVE  /\ start.run \in Nat /\ fetch.accepted \in Nat
         /\ \A run \in start.observed : run \in Nat
BY BrowserAssumption DEF BrowserTypeOK, Requests, Reads, Numbers

(* The request and the read stay as they are while the server works.       *)
LEMMA StartStill ==
  ASSUME BrowserTypeOK, ServerInv, StartInv, ServerMoves, start' = start, fetch' = fetch
  PROVE  StartInv'
<1>t. /\ start.run \in Nat /\ fetch.accepted \in Nat
      /\ \A run \in start.observed : run \in Nat
  BY StartTyped
<1>i. ReceiptIsOurs /\ ObservedAreKnown /\ ReadBelongs
  BY StartMeans
<1>b. admitted <= admitted' /\ admitted \in Nat /\ admitted' \in Nat
  <2>1. admitted \in Nat
    BY BrowserAssumption DEF ServerInv, Numbers
  <2>2. admitted' \in Nat
    BY ServerKept, BrowserAssumption DEF ServerInv, Numbers
  <2>3. CASE \E document \in BOOLEAN : Server!Admit(document)
    BY <2>1, <2>3 DEF Server!Admit
  <2>4. CASE ~\E document \in BOOLEAN : Server!Admit(document)
    <3>1. admitted' = admitted
      BY <2>4 DEF ServerMoves, Server!Work, Server!RequestStop, Server!ShowRunning,
        Server!ShowEnd, Server!Release, Server!Clear, Server!RecordRunning,
        Server!RecordEnd, Server!Forget, serverVars
    <3> QED BY <2>1, <3>1
  <2> QED BY <2>1, <2>2, <2>3, <2>4
<1>1. ReceiptIsOurs'
  BY <1>t, <1>i, <1>b DEF ReceiptIsOurs
<1>2. ASSUME start.phase \in {"sent", "answered"}, ~start.lost, NEW run \in start.observed
      PROVE  run <= admitted' /\ (run # 0 /\ run # shown'.run => run # slot')
  <2>1. Known(run) /\ run \in Nat
    BY <1>t, <1>i, <1>2 DEF ObservedAreKnown
  <2> QED BY <2>1, KnownKept
<1>3. ObservedAreKnown'
  BY <1>2 DEF ObservedAreKnown, Known
<1>4. ASSUME fetch.accepted # 0
      PROVE  /\ start.phase = "accepted" /\ start.run = fetch.accepted
             /\ fetch.phase = "answered" /\ fetch.answer # fetch.accepted /\ ~start.lost =>
                  record' # [run |-> fetch.accepted, status |-> "accepted"]
  <2>1. start.phase = "accepted" /\ start.run = fetch.accepted
    BY <1>i, <1>4 DEF ReadBelongs
  <2>2. ASSUME fetch.phase = "answered", fetch.answer # fetch.accepted, ~start.lost
        PROVE  record' # [run |-> fetch.accepted, status |-> "accepted"]
    <3>1. /\ record # [run |-> fetch.accepted, status |-> "accepted"]
          /\ fetch.accepted <= admitted
      BY <1>i, <1>4, <2>1, <2>2 DEF ReadBelongs, ReceiptIsOurs
    <3> QED BY <1>t, <3>1, NotAcceptedAgain
  <2> QED BY <2>1, <2>2
<1>5. ReadBelongs'
  BY <1>4 DEF ReadBelongs
<1> QED BY <1>1, <1>3, <1>5, StartMeansNext

(* Every step keeps StartInv: a receipt names a run of this server, and a  *)
(* read that may acknowledge it belongs to it.                             *)
LEMMA StartKept ==
  ASSUME BrowserInv, [BrowserNext]_browserVars
  PROVE  StartInv'
<1> USE DEF BrowserInv
<1>t. BrowserTypeOK /\ ServerInv /\ FramesInv /\ StartInv
  OBVIOUS
<1>i. ReceiptIsOurs /\ ObservedAreKnown /\ ReadBelongs
  BY StartMeans
<1>r. start \in Requests /\ fetch \in Reads
  BY DEF BrowserTypeOK
<1>m. CASE ServerMoves /\ start' = start /\ fetch' = fetch
  BY <1>m, <1>t, StartStill
<1>1. CASE ServiceWorks \/ OthersStart \/ OthersStop \/ StopArrives
  BY <1>1, <1>m DEF ServiceWorks, OthersStart, OthersStop, StopArrives, ServerMoves, hookVars,
    effectVars
<1>2. CASE ConnectionLost \/ Open \/ CloseEvent \/ ClickStop \/ Refresh
  BY <1>2, <1>m DEF ConnectionLost, Dies, Open, CloseEvent, ClickStop, Refresh, ServerMoves,
    hookVars, effectVars
<1>3. CASE ServerRestarts
  <2>1. start' = Orphan(start) /\ fetch' = fetch
    BY <1>3 DEF ServerRestarts, Dies, effectVars
  <2>2. CASE start.phase = "sent"
    <3>1. start'.phase = "refused" /\ fetch.accepted = 0
      BY <1>i, <1>r, <2>1, <2>2 DEF Orphan, Requests, ReadBelongs
    <3> QED BY <2>1, <3>1, StartMeansNext DEF ReceiptIsOurs, ObservedAreKnown, ReadBelongs
  <2>3. CASE start.phase # "sent"
    <3>1. /\ start'.phase = start.phase /\ start'.run = start.run
          /\ start'.lost = StartPending
      BY <1>r, <2>1, <2>3 DEF Orphan, Requests
    <3> QED BY <1>i, <2>1, <3>1, StartMeansNext DEF ReceiptIsOurs, ObservedAreKnown, ReadBelongs,
      StartPending
  <2> QED BY <2>2, <2>3
<1>4. CASE Snapshot
  <2> DEFINE frame == Head(pipe)
  <2>1. frame = pipe[1] /\ 1 \in DOMAIN pipe
    BY <1>4, FrameTaken DEF Snapshot, BrowserTypeOK
  <2>2. /\ start' = IF MatchesStart(frame) THEN NoStart ELSE Observed(frame)
        /\ fetch' = IF MatchesStart(frame) THEN [fetch EXCEPT !.accepted = 0] ELSE fetch
        /\ UNCHANGED serverVars
    BY <1>4 DEF Snapshot
  <2>3. SameServer => Known(frame.run)
    BY <2>1 DEF FramesInv
  <2> HIDE DEF frame
  <2>4. CASE MatchesStart(frame)
    <3>1. start'.phase = "none" /\ fetch'.accepted = 0
      BY <1>r, <2>2, <2>4 DEF NoStart, Reads
    <3> QED BY <3>1, StartMeansNext DEF ReceiptIsOurs, ObservedAreKnown, ReadBelongs
  <2>5. CASE ~MatchesStart(frame) /\ Observed(frame) = start
    BY <1>m, <2>2, <2>5 DEF ServerMoves
  <2>6. CASE /\ ~MatchesStart(frame) /\ start.phase \in {"sent", "answered"}
             /\ Observed(frame) = [start EXCEPT !.observed = @ \cup {frame.run}]
    <3>1. /\ start'.phase = start.phase /\ start'.run = start.run /\ start'.lost = start.lost
          /\ start'.observed = start.observed \cup {frame.run} /\ fetch' = fetch
      BY <1>r, <2>2, <2>6 DEF Requests
    <3>2. ReceiptIsOurs' /\ ReadBelongs'
      BY <1>i, <2>2, <3>1 DEF ReceiptIsOurs, ReadBelongs, serverVars
    <3>3. ASSUME ~start.lost, NEW run \in start'.observed PROVE Known(run)
      <4>1. SameServer
        BY <2>6, <3>3 DEF SameServer
      <4>2. CASE run = frame.run
        BY <2>3, <4>1, <4>2
      <4>3. CASE run \in start.observed
        BY <1>i, <2>6, <3>3, <4>3 DEF ObservedAreKnown
      <4> QED BY <3>1, <3>3, <4>2, <4>3
    <3>4. ObservedAreKnown'
      BY <2>2, <3>1, <3>3 DEF ObservedAreKnown, Known, serverVars
    <3> QED BY <3>2, <3>4, StartMeansNext
  <2> QED BY <2>4, <2>5, <2>6 DEF Observed
<1>5. CASE Effect
  <2>1. /\ UNCHANGED <<start, serverVars>>
        /\ fetch'.accepted # 0 => fetch'.phase = "sent" /\ fetch'.accepted = AcceptedRun
    BY <1>5 DEF Effect, NoFetch, hookVars
  <2>2. AcceptedRun # 0 => start.phase = "accepted" /\ start.run = AcceptedRun
    BY DEF AcceptedRun
  <2>3. ReceiptIsOurs' /\ ObservedAreKnown'
    BY <1>i, <2>1 DEF ReceiptIsOurs, ObservedAreKnown, Known, serverVars
  <2>4. ReadBelongs'
    BY <2>1, <2>2 DEF ReadBelongs
  <2> QED BY <2>3, <2>4, StartMeansNext
<1>6. CASE StartServed
  <2>1. start.phase = "sent" /\ fetch' = fetch /\ fetch.accepted = 0
    BY <1>6, <1>i DEF StartServed, effectVars, ReadBelongs
  <2>2. CASE start' = [start EXCEPT !.phase = "refused"]
    <3>1. start'.phase = "refused"
      BY <1>r, <2>2 DEF Requests
    <3> QED BY <2>1, <3>1, StartMeansNext DEF ReceiptIsOurs, ObservedAreKnown, ReadBelongs
  <2>3. CASE Server!Admit(TRUE) /\ start' = [start EXCEPT !.phase = "answered", !.run = admitted']
    <3>1. /\ start'.phase = "answered" /\ start'.run = admitted' /\ start'.lost = start.lost
          /\ start'.observed = start.observed
      BY <1>r, <2>3 DEF Requests
    <3>2. ServerMoves
      BY <2>3 DEF ServerMoves
    <3>3. admitted' \in Nat
      BY <3>2, ServerKept, BrowserAssumption DEF ServerInv, Numbers
    <3>4. ASSUME ~start.lost, NEW run \in start.observed
          PROVE  run <= admitted' /\ (run # 0 /\ run # shown'.run => run # slot')
      <4>1. Known(run) /\ run \in Nat
        BY <1>i, <2>1, <3>4, StartTyped DEF ObservedAreKnown
      <4> QED BY <3>2, <4>1, KnownKept
    <3>5. ObservedAreKnown'
      BY <3>1, <3>4 DEF ObservedAreKnown, Known
    <3>6. ReceiptIsOurs' /\ ReadBelongs'
      BY <2>1, <3>1, <3>3 DEF ReceiptIsOurs, ReadBelongs
    <3> QED BY <3>5, <3>6, StartMeansNext
  <2> QED BY <1>6, <2>2, <2>3 DEF StartServed
<1>7. CASE Receipt
  <2>1. /\ start.phase = "answered" /\ start' = Received(start) /\ fetch' = fetch
        /\ UNCHANGED serverVars /\ fetch.accepted = 0
    BY <1>7, <1>i DEF Receipt, ReadBelongs
  <2>2. CASE start' = NoStart
    BY <2>1, <2>2, StartMeansNext DEF NoStart, ReceiptIsOurs, ObservedAreKnown, ReadBelongs
  <2>3. CASE start' = [start EXCEPT !.phase = "accepted", !.observed = {}]
    <3>1. start'.phase = "accepted" /\ start'.run = start.run /\ start'.lost = start.lost
      BY <1>r, <2>3 DEF Requests
    <3> QED BY <1>i, <2>1, <3>1, StartMeansNext DEF ReceiptIsOurs, ObservedAreKnown, ReadBelongs,
      serverVars
  <2> QED BY <2>1, <2>2, <2>3 DEF Received
<1>8. CASE StartRefused \/ StartFails
  <2>1. start' = NoStart /\ fetch' = fetch /\ fetch.accepted = 0
    BY <1>8, <1>i DEF StartRefused, StartFails, effectVars, ReadBelongs
  <2> QED BY <2>1, StartMeansNext DEF NoStart, ReceiptIsOurs, ObservedAreKnown, ReadBelongs
<1>9. CASE FetchServed
  <2>1. /\ start' = start /\ UNCHANGED serverVars /\ fetch'.accepted = fetch.accepted
        /\ fetch'.answer = record.run
    BY <1>9, <1>r DEF FetchServed, hookVars, Reads
  <2>2. ReceiptIsOurs' /\ ObservedAreKnown'
    BY <1>i, <2>1 DEF ReceiptIsOurs, ObservedAreKnown, Known, serverVars
  <2>3. ReadBelongs'
    BY <1>i, <2>1 DEF ReadBelongs, serverVars
  <2> QED BY <2>2, <2>3, StartMeansNext
<1>10. CASE FetchDone \/ FetchFails
  <2>1. /\ fetch'.accepted = 0 /\ UNCHANGED serverVars
        /\ start' = start \/ start' = NoStart
    BY <1>10 DEF FetchDone, FetchFails, NoFetch
  <2>2. CASE start' = NoStart
    BY <2>1, <2>2, StartMeansNext DEF NoStart, ReceiptIsOurs, ObservedAreKnown, ReadBelongs
  <2>3. CASE start' = start
    BY <1>i, <2>1, <2>3, StartMeansNext DEF ReceiptIsOurs, ObservedAreKnown, Known, ReadBelongs,
      serverVars
  <2> QED BY <2>1, <2>2, <2>3
<1>11. CASE ClickStart
  <2>1. /\ start' = [NoStart EXCEPT !.phase = "sent", !.lost = ~alive]
        /\ fetch' = fetch /\ fetch.accepted = 0
    BY <1>11, <1>i DEF ClickStart, effectVars, ReadBelongs, StartPending
  <2>2. start'.phase = "sent" /\ start'.observed = {}
    BY <2>1 DEF NoStart
  <2> QED BY <2>1, <2>2, StartMeansNext DEF ReceiptIsOurs, ObservedAreKnown, ReadBelongs
<1>12. CASE UNCHANGED browserVars
  BY <1>12, <1>m DEF browserVars, hookVars, effectVars, ServerMoves
<1> QED
  BY <1>1, <1>2, <1>3, <1>4, <1>5, <1>6, <1>7, <1>8, <1>9, <1>10, <1>11, <1>12
  DEF BrowserNext, Machinery

(* A process that has just started has shown and recorded nothing.         *)
LEMMA NothingOfAServer ==
  admitted = 0 /\ slot = 0 /\ stopRequested = FALSE
    /\ record = [run |-> 0, status |-> "none"] /\ shown = [run |-> 0, status |-> "idle"]
    => ServerInv
<1> SUFFICES ASSUME admitted = 0, slot = 0, stopRequested = FALSE,
                    record = [run |-> 0, status |-> "none"],
                    shown = [run |-> 0, status |-> "idle"]
             PROVE  ServerInv
  OBVIOUS
<1>1. record.run = 0 /\ record.status = "none" /\ shown.run = 0 /\ shown.run <= admitted
  OBVIOUS
<1>2. admitted \in Numbers /\ slot \in 0 .. admitted /\ 0 \in 0 .. admitted
      /\ stopRequested \in BOOLEAN
  <2>1. 0 \in 0 .. 0
    OBVIOUS
  <2> QED BY <2>1, NothingTyped, Zenon
<1>3. shown \in RunFrames
  BY NothingTyped DEF RunFrames
<1>4. record \in [run : 0 .. admitted, status : {"none", "accepted", "running", "finished"}]
  BY <1>2
<1> QED BY <1>1, <1>2, <1>3, <1>4 DEF ServerInv

(* The invariant holds initially, after a restart of the service, and      *)
(* after every step.                                                       *)
LEMMA BrowserStarts ==
  BrowserInit => BrowserInv
<1> SUFFICES ASSUME BrowserInit PROVE BrowserInv
  OBVIOUS
<1> USE BrowserAssumption, NothingTyped DEF BrowserInit
<1>1. ServerInv
  <2>1. record = [run |-> 0, status |-> "none"] /\ shown = [run |-> 0, status |-> "idle"]
    BY DEF Server!NoRecord, Server!Idle, NoRecord
  <2>2. admitted = 0 /\ slot = 0 /\ stopRequested = FALSE
    OBVIOUS
  <2> QED BY <2>1, <2>2, NothingOfAServer DEF BrowserInit
<1>2. BrowserTypeOK
  <2>1. pipe \in Seq(RunFrames) /\ Len(pipe) <= PipeCapacity
    <3>1. << >> \in Seq(RunFrames) /\ Len(<< >>) = 0
      BY EmptySeq
    <3> QED BY <3>1
  <2>2. 0 \in 0 .. MaxTroubles
    OBVIOUS
  <2> QED BY <2>1, <2>2 DEF BrowserTypeOK, Dependencies
<1>3. FramesInv
  BY DEF FramesInv, SameServer, NoStart
<1>4. LinkInv
  BY DEF LinkInv
<1>5. ReadInv
  BY DEF ReadInv
<1>6. StartInv
  BY DEF StartInv, NoStart, NoFetch
<1> QED BY <1>1, <1>2, <1>3, <1>4, <1>5, <1>6 DEF BrowserInv

LEMMA RestartIsClean ==
  ASSUME ServerRestarts
  PROVE  ServerInv'
<1>1. /\ admitted' = 0 /\ slot' = 0 /\ stopRequested' = FALSE
      /\ record' = [run |-> 0, status |-> "none"] /\ shown' = [run |-> 0, status |-> "idle"]
  BY DEF ServerRestarts, Server!NoRecord, Server!Idle, NoRecord
<1>2. (admitted = 0 /\ slot = 0 /\ stopRequested = FALSE
         /\ record = [run |-> 0, status |-> "none"] /\ shown = [run |-> 0, status |-> "idle"]
         => ServerInv)'
  BY NothingOfAServer, PTL
<1> QED BY <1>1, <1>2

LEMMA BrowserKept ==
  BrowserInv /\ [BrowserNext]_browserVars => BrowserInv'
<1> SUFFICES ASSUME BrowserInv, [BrowserNext]_browserVars PROVE BrowserInv'
  OBVIOUS
<1>1. ServerInv'
  BY ServerMovesOrRestarts, ServerKept, RestartIsClean DEF BrowserInv
<1>2. BrowserTypeOK'
  BY <1>1, BrowserTypesKept DEF BrowserInv
<1>3. FramesInv'
  BY <1>1, FramesKept
<1>4. LinkInv' /\ ReadInv' /\ StartInv'
  BY LinkKept, ReadKept, StartKept
<1> QED BY <1>1, <1>2, <1>3, <1>4 DEF BrowserInv

(* The inductive invariant of the browser and the service.                 *)
LEMMA BrowserInvHolds ==
  BrowserSpec => []BrowserInv
BY BrowserStarts, BrowserKept, PTL DEF BrowserSpec

(* At rest the read belongs to the frame, and nothing is ahead of it.      *)
LEMMA TheDocumentFits ==
  BrowserInv => DocumentFitsTheRun
<1> SUFFICES ASSUME BrowserInv, AtRest, view.run # 0 PROVE currentRun = view.run
  BY DEF DocumentFitsTheRun
<1>1. /\ alive /\ pipe = << >> /\ connected /\ ~bumped /\ ranWith = Dependencies
      /\ fetch.phase = "none" /\ ~runError /\ slot = 0 /\ ~stopRequested
  BY DEF AtRest, EffectDue
<1>2. view = shown
  BY <1>1 DEF BrowserInv, LinkInv
<1>3. ranWith.connected /\ ranWith.view = view
  BY <1>1 DEF Dependencies
<1>4. Fits(currentRun, view.run)
  BY <1>1, <1>3 DEF BrowserInv, ReadInv
<1> QED BY <1>1, <1>2, <1>4 DEF Fits, AheadOfFrames

(* Once everything has arrived, the document shown next to a run is that   *)
(* run's: coalesced frames, late answers, aborted reads, lost connections  *)
(* and restarts of the server under the same run numbers included          *)
(* (useSimulation: currentRun, runRefresh, connectionEpoch).               *)
THEOREM DocumentAlwaysFits ==
  BrowserSpec => []BrowserIsSound
BY BrowserInvHolds, TheDocumentFits, PTL DEF BrowserIsSound

(* A run whose record still says accepted is neither shown nor known.      *)
LEMMA AcceptedIsUnknown ==
  ASSUME ServerInv, NEW run, record = [run |-> run, status |-> "accepted"]
  PROVE  ~Known(run)
BY DEF ServerInv, Known

(* Only a frame or a read that knows what became of the run ends its       *)
(* Start: both would make the run known.                                   *)
LEMMA AckIsTrue ==
  ASSUME BrowserInv, [BrowserNext]_browserVars,
         start.phase \in {"answered", "accepted"}, ~start.lost,
         troubles' = troubles, start'.phase = "none"
  PROVE  record # [run |-> start.run, status |-> "accepted"]
<1> USE DEF BrowserInv
<1>1. SUFFICES ASSUME record = [run |-> start.run, status |-> "accepted"] PROVE FALSE
  OBVIOUS
<1>2. ~Known(start.run)
  BY <1>1, AcceptedIsUnknown
<1>3. SameServer
  BY DEF SameServer
<1>4. start \in Requests /\ troubles \in Nat
  BY BrowserAssumption DEF BrowserTypeOK
<1>5. ~Trouble
  BY <1>4 DEF Trouble
<1>6. start' # start
  OBVIOUS
<1>7. CASE Snapshot
  <2> DEFINE frame == Head(pipe)
  <2>1. frame = pipe[1] /\ 1 \in DOMAIN pipe
    BY <1>7, FrameTaken DEF Snapshot, BrowserTypeOK
  <2>2. Known(frame.run)
    BY <1>3, <2>1 DEF FramesInv
  <2>3. start' = IF MatchesStart(frame) THEN NoStart ELSE Observed(frame)
    BY <1>7 DEF Snapshot
  <2> HIDE DEF frame
  <2>4. ~MatchesStart(frame)
    BY <1>2, <2>2 DEF MatchesStart
  <2>5. Observed(frame).phase = start.phase
    BY <1>4 DEF Observed, Requests
  <2> QED BY <2>3, <2>4, <2>5
<1>8. CASE Receipt
  <2>1. start.run \notin start.observed
    BY <1>2, <1>8 DEF Receipt, StartInv
  <2>2. start'.phase = "accepted"
    BY <1>4, <1>8, <2>1 DEF Receipt, Received, Requests
  <2> QED BY <2>2
<1>9. CASE FetchDone
  <2>1. fetch.phase = "answered" /\ fetch.accepted # 0 /\ Acknowledged(fetch.accepted)
    BY <1>6, <1>9 DEF FetchDone
  <2>2. start.run = fetch.accepted
    BY <2>1 DEF StartInv
  <2>3. ~(connected /\ view.run = fetch.accepted)
    BY <1>2, <1>3, <2>2 DEF FramesInv
  <2>4. fetch.answer # fetch.accepted
    BY <2>1, <2>3 DEF Acknowledged
  <2> QED BY <1>1, <2>1, <2>2, <2>4 DEF StartInv
<1>10. CASE StartServed \/ StartRefused \/ ClickStart
  BY <1>10 DEF StartServed, StartRefused, ClickStart, StartPending
<1>11. CASE OthersStop \/ ConnectionLost \/ ServerRestarts \/ StartFails \/ FetchFails \/ Refresh
  BY <1>5, <1>11 DEF OthersStop, ConnectionLost, ServerRestarts, Dies, StartFails, FetchFails,
    Refresh
<1>12. CASE ServiceWorks \/ OthersStart \/ StopArrives \/ FetchServed \/ Effect
  BY <1>6, <1>12 DEF ServiceWorks, OthersStart, StopArrives, FetchServed, Effect, hookVars
<1>13. CASE Open \/ CloseEvent \/ ClickStop
  BY <1>6, <1>13 DEF Open, CloseEvent, ClickStop
<1>14. CASE UNCHANGED browserVars
  BY <1>6, <1>14 DEF browserVars, hookVars
<1> QED
  BY <1>7, <1>8, <1>9, <1>10, <1>11, <1>12, <1>13, <1>14 DEF BrowserNext, Machinery

(* A pending Start never ends while the record of its run still says       *)
(* accepted (httpStartAcknowledged and handleSnapshot: no idle frame,      *)
(* frame of another run or document read before the receipt acknowledges   *)
(* it).                                                                    *)
THEOREM AcknowledgementsAreTrue ==
  BrowserSpec => NoFalseAck
<1>1. BrowserInv /\ [BrowserNext]_browserVars =>
        [start.phase \in {"answered", "accepted"} /\ ~start.lost
           /\ troubles' = troubles /\ start'.phase = "none" =>
           record # [run |-> start.run, status |-> "accepted"]]_browserVars
  BY AckIsTrue
<1> QED BY <1>1, BrowserInvHolds, PTL DEF BrowserSpec, NoFalseAck
=============================================================================
