------------------------- MODULE DownloadTaskProofs -------------------------
(***************************************************************************)
(* For every number of workers, segments, chunks, retries, commands and    *)
(* outages: IInv is an inductive invariant of DownloadTask, it implies the *)
(* safety invariants that the runs check, and with it every step of a task *)
(* is a step of ResumableTransfer or leaves that alone.                    *)
(*                                                                         *)
(* One lemma for each part of IInv shows that every step preserves it,     *)
(* with one step per action.                                               *)
(***************************************************************************)
EXTENDS DownloadTaskInv, TLAPS

USE TaskAssumption
    DEF Segments, vars, flagVars, stateVars, runVars, workerVars, fileVars,
        apiVars, netVars, StopRequested, Full, UpdateRow, Goto, Command,
        Active, Holds

-----------------------------------------------------------------------------
(* Types.                                                                    *)

\* No more is written than was there.
LEMMA WrittenBounds ==
  ASSUME NEW n \in Nat PROVE Written(n) \subseteq Nat
  BY DEF Written

\* The flags stay Boolean.
LEMMA FlagsStep == ASSUME TypeOK, [Next]_vars PROVE FlagsTyped'
  <1> USE DEF TypeOK, FlagsTyped, SegmentsTyped
  <1>1. CASE StartDownload BY <1>1 DEF StartDownload
  <1>2. CASE PauseDownload BY <1>2 DEF PauseDownload
  <1>3. CASE CancelDownload BY <1>3 DEF CancelDownload
  <1>4. CASE ResumeDownload BY <1>4 DEF ResumeDownload
  <1>5. CASE RelaunchRunner BY <1>5 DEF RelaunchRunner, Relaunched
  <1>6. CASE WriteRow BY <1>6 DEF WriteRow
  <1>7. CASE StopService BY <1>7 DEF StopService
  <1>8. CASE ServiceStopped BY <1>8 DEF ServiceStopped
  <1>9. CASE NetworkLost BY <1>9 DEF NetworkLost
  <1>10. CASE NetworkRestored BY <1>10 DEF NetworkRestored
  <1>11. CASE BeginRun BY <1>11 DEF BeginRun
  <1>12. CASE JoinWorkers BY <1>12 DEF JoinWorkers, AllExited
  <1>13. CASE CheckCancel BY <1>13 DEF CheckCancel
  <1>14. CASE RemoveParts BY <1>14 DEF RemoveParts
  <1>15. CASE OpenOutput BY <1>15 DEF OpenOutput
  <1>16. CASE MergeSegment BY <1>16 DEF MergeSegment
  <1>17. CASE MergeDone BY <1>17 DEF MergeDone
  <1>18. CASE FinishRun BY <1>18 DEF FinishRun, Released
  <1>19. ASSUME NEW w \in Workers, Worker(w) PROVE FlagsTyped'
    <2>1. CASE ClaimSegment(w) BY <2>1 DEF ClaimSegment, NoneLeft, AfterClaim
    <2>2. CASE CheckPart(w) BY <2>2 DEF CheckPart
    <2>3. CASE ReceiveChunk(w) BY <2>3 DEF ReceiveChunk
    <2>4. CASE TransferFails(w) BY <2>4 DEF TransferFails
    <2>5. CASE TransferSucceeds(w) BY <2>5 DEF TransferSucceeds, RangeReceived
    <2>6. CASE AfterFailure(w) BY <2>6 DEF AfterFailure
    <2>7. CASE CountFailure(w) BY <2>7 DEF CountFailure, Counted
    <2>8. CASE CompareRetries(w) BY <2>8 DEF CompareRetries
    <2>9. CASE GiveUp(w) BY <2>9 DEF GiveUp
    <2>10. CASE Reconnect(w) BY <2>10 DEF Reconnect
    <2>11. CASE BackOff(w) BY <2>11 DEF BackOff, MayRetry
    <2>12. CASE FinishSegment(w) BY <2>12 DEF FinishSegment
    <2> QED BY <1>19, <2>1, <2>2, <2>3, <2>4, <2>5, <2>6, <2>7, <2>8, <2>9,
           <2>10, <2>11, <2>12 DEF Worker
  <1>20. CASE UNCHANGED vars
    BY <1>20
  <1> QED BY <1>1, <1>2, <1>3, <1>4, <1>5, <1>6, <1>7, <1>8, <1>9, <1>10,
         <1>11, <1>12, <1>13, <1>14, <1>15, <1>16, <1>17, <1>18, <1>19, <1>20
         DEF Next, Runner, Stopped

\* Every thread stays at a place it has, every status a word it can be.
LEMMA PlacesStep == ASSUME TypeOK, [Next]_vars PROVE PlacesTyped'
  <1> USE DEF TypeOK, PlacesTyped, RunnerPlaces, WorkerPlaces, ApiPlaces,
             RowStatuses
  <1>1. CASE StartDownload BY <1>1 DEF StartDownload
  <1>2. CASE PauseDownload BY <1>2 DEF PauseDownload
  <1>3. CASE CancelDownload BY <1>3 DEF CancelDownload
  <1>4. CASE ResumeDownload BY <1>4 DEF ResumeDownload
  <1>5. CASE RelaunchRunner BY <1>5 DEF RelaunchRunner, Relaunched
  <1>6. CASE WriteRow BY <1>6 DEF WriteRow
  <1>7. CASE StopService BY <1>7 DEF StopService
  <1>8. CASE ServiceStopped BY <1>8 DEF ServiceStopped
  <1>9. CASE NetworkLost BY <1>9 DEF NetworkLost
  <1>10. CASE NetworkRestored BY <1>10 DEF NetworkRestored
  <1>11. CASE BeginRun BY <1>11 DEF BeginRun
  <1>12. CASE JoinWorkers BY <1>12 DEF JoinWorkers, AllExited
  <1>13. CASE CheckCancel BY <1>13 DEF CheckCancel
  <1>14. CASE RemoveParts BY <1>14 DEF RemoveParts
  <1>15. CASE OpenOutput BY <1>15 DEF OpenOutput
  <1>16. CASE MergeSegment BY <1>16 DEF MergeSegment
  <1>17. CASE MergeDone BY <1>17 DEF MergeDone
  <1>18. CASE FinishRun BY <1>18 DEF FinishRun, Released
  <1>19. ASSUME NEW w \in Workers, Worker(w) PROVE PlacesTyped'
    <2>1. CASE ClaimSegment(w)
      <3>1. CASE ~ok \/ StopRequested \/ NoneLeft
        BY <2>1, <3>1 DEF ClaimSegment
      <3>2. CASE ~(~ok \/ StopRequested \/ NoneLeft)
        BY <2>1, <3>2 DEF ClaimSegment
      <3> QED BY <3>1, <3>2
    <2>2. CASE CheckPart(w) BY <2>2 DEF CheckPart
    <2>3. CASE ReceiveChunk(w) BY <2>3 DEF ReceiveChunk
    <2>4. CASE TransferFails(w) BY <2>4 DEF TransferFails
    <2>5. CASE TransferSucceeds(w) BY <2>5 DEF TransferSucceeds, RangeReceived
    <2>6. CASE AfterFailure(w)
      <3>1. CASE StopRequested BY <2>6, <3>1 DEF AfterFailure
      <3>2. CASE ~StopRequested
        BY <2>6, <3>2 DEF AfterFailure
      <3> QED BY <3>1, <3>2
    <2>7. CASE CountFailure(w) BY <2>7 DEF CountFailure, Counted
    <2>8. CASE CompareRetries(w) BY <2>8 DEF CompareRetries
    <2>9. CASE GiveUp(w) BY <2>9 DEF GiveUp
    <2>10. CASE Reconnect(w) BY <2>10 DEF Reconnect
    <2>11. CASE BackOff(w) BY <2>11 DEF BackOff, MayRetry
    <2>12. CASE FinishSegment(w) BY <2>12 DEF FinishSegment
    <2> QED BY <1>19, <2>1, <2>2, <2>3, <2>4, <2>5, <2>6, <2>7, <2>8, <2>9,
           <2>10, <2>11, <2>12 DEF Worker
  <1>20. CASE UNCHANGED vars
    BY <1>20
  <1> QED BY <1>1, <1>2, <1>3, <1>4, <1>5, <1>6, <1>7, <1>8, <1>9, <1>10,
         <1>11, <1>12, <1>13, <1>14, <1>15, <1>16, <1>17, <1>18, <1>19, <1>20
         DEF Next, Runner, Stopped

\* The counters stay in their ranges.
LEMMA CountersStep == ASSUME TypeOK, [Next]_vars PROVE CountersTyped'
  <1> USE DEF TypeOK, CountersTyped
  <1>1. CASE StartDownload BY <1>1 DEF StartDownload
  <1>2. CASE PauseDownload BY <1>2 DEF PauseDownload
  <1>3. CASE CancelDownload BY <1>3 DEF CancelDownload
  <1>4. CASE ResumeDownload BY <1>4 DEF ResumeDownload
  <1>5. CASE RelaunchRunner BY <1>5 DEF RelaunchRunner, Relaunched
  <1>6. CASE WriteRow BY <1>6 DEF WriteRow
  <1>7. CASE StopService BY <1>7 DEF StopService
  <1>8. CASE ServiceStopped BY <1>8 DEF ServiceStopped
  <1>9. CASE NetworkLost BY <1>9 DEF NetworkLost
  <1>10. CASE NetworkRestored BY <1>10 DEF NetworkRestored
  <1>11. CASE BeginRun BY <1>11 DEF BeginRun
  <1>12. CASE JoinWorkers BY <1>12 DEF JoinWorkers, AllExited
  <1>13. CASE CheckCancel BY <1>13 DEF CheckCancel
  <1>14. CASE RemoveParts BY <1>14 DEF RemoveParts
  <1>15. CASE OpenOutput BY <1>15 DEF OpenOutput
  <1>16. CASE MergeSegment BY <1>16 DEF MergeSegment
  <1>17. CASE MergeDone BY <1>17 DEF MergeDone
  <1>18. CASE FinishRun BY <1>18 DEF FinishRun, Released
  <1>19. ASSUME NEW w \in Workers, Worker(w) PROVE CountersTyped'
    <2>1. CASE ClaimSegment(w) BY <2>1 DEF ClaimSegment, NoneLeft, AfterClaim
    <2>2. CASE CheckPart(w) BY <2>2 DEF CheckPart
    <2>3. CASE ReceiveChunk(w) BY <2>3 DEF ReceiveChunk
    <2>4. CASE TransferFails(w) BY <2>4 DEF TransferFails
    <2>5. CASE TransferSucceeds(w) BY <2>5 DEF TransferSucceeds, RangeReceived
    <2>6. CASE AfterFailure(w)
      <3>1. CASE StopRequested BY <2>6, <3>1 DEF AfterFailure
      <3>2. CASE ~StopRequested
        BY <2>6, <3>2 DEF AfterFailure
      <3> QED BY <3>1, <3>2
    <2>7. CASE CountFailure(w) BY <2>7 DEF CountFailure, Counted
    <2>8. CASE CompareRetries(w) BY <2>8 DEF CompareRetries
    <2>9. CASE GiveUp(w) BY <2>9 DEF GiveUp
    <2>10. CASE Reconnect(w) BY <2>10 DEF Reconnect
    <2>11. CASE BackOff(w) BY <2>11 DEF BackOff, MayRetry
    <2>12. CASE FinishSegment(w) BY <2>12 DEF FinishSegment
    <2> QED BY <1>19, <2>1, <2>2, <2>3, <2>4, <2>5, <2>6, <2>7, <2>8, <2>9,
           <2>10, <2>11, <2>12 DEF Worker
  <1>20. CASE UNCHANGED vars
    BY <1>20
  <1> QED BY <1>1, <1>2, <1>3, <1>4, <1>5, <1>6, <1>7, <1>8, <1>9, <1>10,
         <1>11, <1>12, <1>13, <1>14, <1>15, <1>16, <1>17, <1>18, <1>19, <1>20
         DEF Next, Runner, Stopped

\* No index leaves the plan and no part file outgrows its segment.
LEMMA SegmentsStep == ASSUME TypeOK, [Next]_vars PROVE SegmentsTyped'
  <1> USE DEF TypeOK, SegmentsTyped
  <1>1. CASE StartDownload BY <1>1 DEF StartDownload
  <1>2. CASE PauseDownload BY <1>2 DEF PauseDownload
  <1>3. CASE CancelDownload BY <1>3 DEF CancelDownload
  <1>4. CASE ResumeDownload BY <1>4 DEF ResumeDownload
  <1>5. CASE RelaunchRunner BY <1>5 DEF RelaunchRunner, Relaunched
  <1>6. CASE WriteRow BY <1>6 DEF WriteRow
  <1>7. CASE StopService BY <1>7 DEF StopService
  <1>8. CASE ServiceStopped BY <1>8 DEF ServiceStopped
  <1>9. CASE NetworkLost BY <1>9 DEF NetworkLost
  <1>10. CASE NetworkRestored BY <1>10 DEF NetworkRestored
  <1>11. CASE BeginRun BY <1>11 DEF BeginRun
  <1>12. CASE JoinWorkers BY <1>12 DEF JoinWorkers, AllExited
  <1>13. CASE CheckCancel BY <1>13 DEF CheckCancel
  <1>14. CASE RemoveParts BY <1>14 DEF RemoveParts
  <1>15. CASE OpenOutput
    <2>1. CASE finalFile' = [s \in Segments |-> 0] /\ mergeNext' = 1
      BY <1>15, <2>1 DEF OpenOutput
    <2>2. CASE UNCHANGED <<finalFile, mergeNext>>
      BY <1>15, <2>2 DEF OpenOutput
    <2> QED BY <1>15, <2>1, <2>2 DEF OpenOutput
  <1>16. CASE MergeSegment
    <2>1. mergeNext \in Segments
      BY <1>16 DEF MergeSegment
    <2>2. CASE mergeNext' = mergeNext + 1
      <3>1. /\ part' = [part EXCEPT ![mergeNext] = 0]
            /\ UNCHANGED <<nextSegment, claimed>>
        BY <1>16, <2>1, <2>2 DEF MergeSegment
      <3>2. part' \in [Segments -> Nat] /\ finalFile' \in [Segments -> Nat]
        <4>1. PICK n \in Written(part[mergeNext]) :
                finalFile' = [finalFile EXCEPT ![mergeNext] = n]
          BY <1>16, <2>1, <2>2 DEF MergeSegment
        <4>2. n \in Nat
          BY <2>1, WrittenBounds
        <4> QED BY <2>1, <3>1, <4>1, <4>2
      <3>3. \A s \in Segments : part'[s] <= SegmentSize[s]
        BY <2>1, <3>1
      <3>4. mergeNext' \in 1..(NumSegments + 1)
        BY <2>1, <2>2
      <3> QED BY <3>1, <3>2, <3>3, <3>4
    <2>3. CASE UNCHANGED <<finalFile, part, mergeNext>>
      BY <1>16, <2>3 DEF MergeSegment
    <2> QED BY <1>16, <2>2, <2>3 DEF MergeSegment
  <1>17. CASE MergeDone BY <1>17 DEF MergeDone
  <1>18. CASE FinishRun BY <1>18 DEF FinishRun, Released
  <1>19. ASSUME NEW w \in Workers, Worker(w) PROVE SegmentsTyped'
    <2>1. CASE ClaimSegment(w)
      <3>1. CASE ~ok \/ StopRequested \/ NoneLeft
        BY <2>1, <3>1 DEF ClaimSegment
      <3>2. CASE ~(~ok \/ StopRequested \/ NoneLeft)
        <4>1. nextSegment \in Segments
          BY <3>2 DEF NoneLeft
        <4>2. /\ claimed' = [claimed EXCEPT ![w] = nextSegment]
              /\ nextSegment' = nextSegment + 1
              /\ UNCHANGED <<mergeNext, part, finalFile>>
          BY <2>1, <3>2 DEF ClaimSegment, AfterClaim
        <4>3. claimed' \in [Workers -> Segments]
          BY <4>1, <4>2
        <4>4. nextSegment' \in 1..(NumSegments + 1)
          BY <4>1, <4>2
        <4> QED BY <4>2, <4>3, <4>4
      <3> QED BY <3>1, <3>2
    <2>2. CASE CheckPart(w) BY <2>2 DEF CheckPart
    <2>3. CASE ReceiveChunk(w)
      <3>1. /\ claimed[w] \in Segments
            /\ part[claimed[w]] # SegmentSize[claimed[w]]
            /\ part' = [part EXCEPT ![claimed[w]] = part[claimed[w]] + 1]
        BY <2>3 DEF ReceiveChunk
      <3>2. part[claimed[w]] \in Nat /\ SegmentSize[claimed[w]] \in Nat
        BY <3>1
      <3>3. part[claimed[w]] + 1 <= SegmentSize[claimed[w]]
        BY SMTT(30), <3>1, <3>2
      <3>4. part' \in [Segments -> Nat]
        BY SMTT(30), <3>1, <3>2
      <3>5. \A s \in Segments : part'[s] <= SegmentSize[s]
        BY <3>1, <3>3
      <3> QED BY <2>3, <3>4, <3>5 DEF ReceiveChunk
    <2>4. CASE TransferFails(w) BY <2>4 DEF TransferFails
    <2>5. CASE TransferSucceeds(w) BY <2>5 DEF TransferSucceeds, RangeReceived
    <2>6. CASE AfterFailure(w) BY <2>6 DEF AfterFailure
    <2>7. CASE CountFailure(w) BY <2>7 DEF CountFailure, Counted
    <2>8. CASE CompareRetries(w) BY <2>8 DEF CompareRetries
    <2>9. CASE GiveUp(w) BY <2>9 DEF GiveUp
    <2>10. CASE Reconnect(w) BY <2>10 DEF Reconnect
    <2>11. CASE BackOff(w) BY <2>11 DEF BackOff, MayRetry
    <2>12. CASE FinishSegment(w) BY <2>12 DEF FinishSegment
    <2> QED BY <1>19, <2>1, <2>2, <2>3, <2>4, <2>5, <2>6, <2>7, <2>8, <2>9,
           <2>10, <2>11, <2>12 DEF Worker
  <1>20. CASE UNCHANGED vars
    BY <1>20
  <1> QED BY <1>1, <1>2, <1>3, <1>4, <1>5, <1>6, <1>7, <1>8, <1>9, <1>10,
         <1>11, <1>12, <1>13, <1>14, <1>15, <1>16, <1>17, <1>18, <1>19, <1>20
         DEF Next, Runner, Stopped

\* Types are preserved.
LEMMA TypeStep == ASSUME TypeOK, [Next]_vars PROVE TypeOK'
  BY FlagsStep, PlacesStep, CountersStep, SegmentsStep DEF TypeOK

-----------------------------------------------------------------------------
(* The workers.                                                              *)

\* Workers exist only between BeginRun and the join.
LEMMA WorkersJoinedStep ==
  ASSUME TypeOK, WorkersJoined, RunReported, [Next]_vars
  PROVE  WorkersJoined'
  <1> USE DEF TypeOK, PlacesTyped, WorkerPlaces, WorkersJoined
  <1>1. CASE StartDownload BY <1>1 DEF StartDownload, RunReported
  <1>2. CASE PauseDownload BY <1>2 DEF PauseDownload
  <1>3. CASE CancelDownload BY <1>3 DEF CancelDownload
  <1>4. CASE ResumeDownload BY <1>4 DEF ResumeDownload
  <1>5. CASE RelaunchRunner BY <1>5 DEF RelaunchRunner, Relaunched
  <1>6. CASE WriteRow BY <1>6 DEF WriteRow
  <1>7. CASE StopService BY <1>7 DEF StopService
  <1>8. CASE ServiceStopped BY <1>8 DEF ServiceStopped
  <1>9. CASE NetworkLost BY <1>9 DEF NetworkLost
  <1>10. CASE NetworkRestored BY <1>10 DEF NetworkRestored
  <1>11. CASE BeginRun BY <1>11 DEF BeginRun
  <1>12. CASE JoinWorkers BY <1>12 DEF JoinWorkers, AllExited
  <1>13. CASE CheckCancel BY <1>13 DEF CheckCancel
  <1>14. CASE RemoveParts BY <1>14 DEF RemoveParts
  <1>15. CASE OpenOutput BY <1>15 DEF OpenOutput
  <1>16. CASE MergeSegment BY <1>16 DEF MergeSegment
  <1>17. CASE MergeDone BY <1>17 DEF MergeDone
  <1>18. CASE FinishRun BY <1>18 DEF FinishRun, Released
  <1>19. ASSUME NEW w \in Workers, Worker(w) PROVE WorkersJoined'
    <2>1. CASE ClaimSegment(w)
      <3>1. CASE ~ok \/ StopRequested \/ NoneLeft
        BY <2>1, <3>1 DEF ClaimSegment
      <3>2. CASE ~(~ok \/ StopRequested \/ NoneLeft)
        BY <2>1, <3>2 DEF ClaimSegment
      <3> QED BY <3>1, <3>2
    <2>2. CASE CheckPart(w) BY <2>2 DEF CheckPart
    <2>3. CASE ReceiveChunk(w) BY <2>3 DEF ReceiveChunk
    <2>4. CASE TransferFails(w) BY <2>4 DEF TransferFails
    <2>5. CASE TransferSucceeds(w) BY <2>5 DEF TransferSucceeds, RangeReceived
    <2>6. CASE AfterFailure(w)
      <3>1. CASE StopRequested BY <2>6, <3>1 DEF AfterFailure
      <3>2. CASE ~StopRequested
        BY <2>6, <3>2 DEF AfterFailure
      <3> QED BY <3>1, <3>2
    <2>7. CASE CountFailure(w) BY <2>7 DEF CountFailure, Counted
    <2>8. CASE CompareRetries(w) BY <2>8 DEF CompareRetries
    <2>9. CASE GiveUp(w) BY <2>9 DEF GiveUp
    <2>10. CASE Reconnect(w) BY <2>10 DEF Reconnect
    <2>11. CASE BackOff(w) BY <2>11 DEF BackOff, MayRetry
    <2>12. CASE FinishSegment(w) BY <2>12 DEF FinishSegment
    <2> QED BY <1>19, <2>1, <2>2, <2>3, <2>4, <2>5, <2>6, <2>7, <2>8, <2>9,
           <2>10, <2>11, <2>12 DEF Worker
  <1>20. CASE UNCHANGED vars
    BY <1>20
  <1> QED BY <1>1, <1>2, <1>3, <1>4, <1>5, <1>6, <1>7, <1>8, <1>9, <1>10,
         <1>11, <1>12, <1>13, <1>14, <1>15, <1>16, <1>17, <1>18, <1>19, <1>20
         DEF Next, Runner, Stopped

\* What a worker holds has been handed out; what it says is done is full.
LEMMA ClaimsStep ==
  ASSUME TypeOK, WorkersJoined, ClaimsHandedOut, [Next]_vars
  PROVE  ClaimsHandedOut'
  <1> USE DEF TypeOK, PlacesTyped, SegmentsTyped, WorkersJoined, ClaimsHandedOut
  <1>1. CASE StartDownload BY <1>1 DEF StartDownload
  <1>2. CASE PauseDownload BY <1>2 DEF PauseDownload
  <1>3. CASE CancelDownload BY <1>3 DEF CancelDownload
  <1>4. CASE ResumeDownload BY <1>4 DEF ResumeDownload
  <1>5. CASE RelaunchRunner BY <1>5 DEF RelaunchRunner, Relaunched
  <1>6. CASE WriteRow BY <1>6 DEF WriteRow
  <1>7. CASE StopService BY <1>7 DEF StopService
  <1>8. CASE ServiceStopped BY <1>8 DEF ServiceStopped
  <1>9. CASE NetworkLost BY <1>9 DEF NetworkLost
  <1>10. CASE NetworkRestored BY <1>10 DEF NetworkRestored
  <1>11. CASE BeginRun BY <1>11 DEF BeginRun
  <1>12. CASE JoinWorkers BY <1>12 DEF JoinWorkers, AllExited
  <1>13. CASE CheckCancel BY <1>13 DEF CheckCancel
  <1>14. CASE RemoveParts BY <1>14 DEF RemoveParts
  <1>15. CASE OpenOutput BY <1>15 DEF OpenOutput
  <1>16. CASE MergeSegment BY <1>16 DEF MergeSegment
  <1>17. CASE MergeDone BY <1>17 DEF MergeDone
  <1>18. CASE FinishRun BY <1>18 DEF FinishRun, Released
  <1>19. ASSUME NEW w \in Workers, Worker(w) PROVE ClaimsHandedOut'
    <2>1. CASE ClaimSegment(w)
      <3>1. CASE ~ok \/ StopRequested \/ NoneLeft
        <4>1. /\ worker' = [worker EXCEPT ![w] = "exit"]
              /\ UNCHANGED <<claimed, nextSegment, part>>
          BY <2>1, <3>1 DEF ClaimSegment
        <4> QED BY <4>1
      <3>2. CASE ~(~ok \/ StopRequested \/ NoneLeft)
        <4>1. /\ worker' = [worker EXCEPT ![w] = "check"]
              /\ claimed' = [claimed EXCEPT ![w] = nextSegment]
              /\ nextSegment' = nextSegment + 1
              /\ UNCHANGED part
          BY <2>1, <3>2 DEF ClaimSegment, AfterClaim
        <4>2. claimed'[w] = nextSegment /\ worker'[w] = "check"
          BY <4>1
        <4>3. \A v \in Workers : v # w =>
                claimed'[v] = claimed[v] /\ worker'[v] = worker[v]
          BY <4>1
        <4>4. nextSegment \in Int /\ claimed \in [Workers -> Int]
          OBVIOUS
        <4> HIDE DEF TypeOK, PlacesTyped, SegmentsTyped
        <4> QED BY <4>1, <4>2, <4>3, <4>4
      <3> QED BY <3>1, <3>2
    <2>2. CASE CheckPart(w) BY <2>2 DEF CheckPart
    <2>3. CASE ReceiveChunk(w) BY <2>3 DEF ReceiveChunk
    <2>4. CASE TransferFails(w) BY <2>4 DEF TransferFails
    <2>5. CASE TransferSucceeds(w) BY <2>5 DEF TransferSucceeds, RangeReceived
    <2>6. CASE AfterFailure(w)
      <3>1. CASE StopRequested
        <4>1. /\ worker' = [worker EXCEPT ![w] = "exit"]
              /\ UNCHANGED <<claimed, nextSegment, part>>
          BY <2>6, <3>1 DEF AfterFailure
        <4> QED BY <4>1
      <3>2. CASE ~StopRequested
        <4>1. /\ worker[w] = "notFetched"
              /\ worker' = [worker EXCEPT ![w] = "count"]
              /\ UNCHANGED <<claimed, nextSegment, part>>
          BY <2>6, <3>2 DEF AfterFailure
        <4> QED BY <4>1
      <3> QED BY <3>1, <3>2
    <2>7. CASE CountFailure(w) BY <2>7 DEF CountFailure, Counted
    <2>8. CASE CompareRetries(w) BY <2>8 DEF CompareRetries
    <2>9. CASE GiveUp(w) BY <2>9 DEF GiveUp
    <2>10. CASE Reconnect(w) BY <2>10 DEF Reconnect
    <2>11. CASE BackOff(w) BY <2>11 DEF BackOff, MayRetry
    <2>12. CASE FinishSegment(w) BY <2>12 DEF FinishSegment
    <2> QED BY <1>19, <2>1, <2>2, <2>3, <2>4, <2>5, <2>6, <2>7, <2>8, <2>9,
           <2>10, <2>11, <2>12 DEF Worker
  <1>20. CASE UNCHANGED vars
    BY <1>20
  <1> QED BY <1>1, <1>2, <1>3, <1>4, <1>5, <1>6, <1>7, <1>8, <1>9, <1>10,
         <1>11, <1>12, <1>13, <1>14, <1>15, <1>16, <1>17, <1>18, <1>19, <1>20
         DEF Next, Runner, Stopped

\* A worker takes a segment no other worker has: the shared index is beyond
\* all that are held.
LEMMA ExclusiveStep ==
  ASSUME TypeOK, ClaimsHandedOut, SegmentExclusive, [Next]_vars
  PROVE  SegmentExclusive'
  <1> USE DEF TypeOK, PlacesTyped, SegmentsTyped, SegmentExclusive
  <1>1. CASE StartDownload BY <1>1 DEF StartDownload
  <1>2. CASE PauseDownload BY <1>2 DEF PauseDownload
  <1>3. CASE CancelDownload BY <1>3 DEF CancelDownload
  <1>4. CASE ResumeDownload BY <1>4 DEF ResumeDownload
  <1>5. CASE RelaunchRunner BY <1>5 DEF RelaunchRunner, Relaunched
  <1>6. CASE WriteRow BY <1>6 DEF WriteRow
  <1>7. CASE StopService BY <1>7 DEF StopService
  <1>8. CASE ServiceStopped BY <1>8 DEF ServiceStopped
  <1>9. CASE NetworkLost BY <1>9 DEF NetworkLost
  <1>10. CASE NetworkRestored BY <1>10 DEF NetworkRestored
  <1>11. CASE BeginRun BY <1>11 DEF BeginRun
  <1>12. CASE JoinWorkers BY <1>12 DEF JoinWorkers, AllExited
  <1>13. CASE CheckCancel BY <1>13 DEF CheckCancel
  <1>14. CASE RemoveParts BY <1>14 DEF RemoveParts
  <1>15. CASE OpenOutput BY <1>15 DEF OpenOutput
  <1>16. CASE MergeSegment BY <1>16 DEF MergeSegment
  <1>17. CASE MergeDone BY <1>17 DEF MergeDone
  <1>18. CASE FinishRun BY <1>18 DEF FinishRun, Released
  <1>19. ASSUME NEW w \in Workers, Worker(w) PROVE SegmentExclusive'
    <2>1. CASE ClaimSegment(w)
      <3>1. CASE ~ok \/ StopRequested \/ NoneLeft
        <4>1. /\ worker' = [worker EXCEPT ![w] = "exit"]
              /\ UNCHANGED <<claimed, nextSegment, part>>
          BY <2>1, <3>1 DEF ClaimSegment
        <4> QED BY <4>1
      <3>2. CASE ~(~ok \/ StopRequested \/ NoneLeft)
        <4>1. /\ worker' = [worker EXCEPT ![w] = "check"]
              /\ claimed' = [claimed EXCEPT ![w] = nextSegment]
              /\ nextSegment' = nextSegment + 1
              /\ UNCHANGED part
          BY <2>1, <3>2 DEF ClaimSegment, AfterClaim
        <4>2. claimed'[w] = nextSegment /\ worker'[w] = "check"
          BY <4>1
        <4>3. \A v \in Workers : v # w =>
                claimed'[v] = claimed[v] /\ worker'[v] = worker[v]
          BY <4>1
        <4>4. nextSegment \in Int /\ claimed \in [Workers -> Int]
          OBVIOUS
        <4> HIDE DEF TypeOK, PlacesTyped, SegmentsTyped
        <4>5. \A v \in Workers : v # w /\ Active(v) => claimed'[v] # claimed'[w]
          BY <4>2, <4>3, <4>4 DEF ClaimsHandedOut
        <4> QED BY <4>2, <4>3, <4>5
      <3> QED BY <3>1, <3>2
    <2>2. CASE CheckPart(w) BY <2>2 DEF CheckPart
    <2>3. CASE ReceiveChunk(w) BY <2>3 DEF ReceiveChunk
    <2>4. CASE TransferFails(w) BY <2>4 DEF TransferFails
    <2>5. CASE TransferSucceeds(w) BY <2>5 DEF TransferSucceeds, RangeReceived
    <2>6. CASE AfterFailure(w)
      <3>1. CASE StopRequested
        <4>1. /\ worker' = [worker EXCEPT ![w] = "exit"]
              /\ UNCHANGED <<claimed, nextSegment, part>>
          BY <2>6, <3>1 DEF AfterFailure
        <4> QED BY <4>1
      <3>2. CASE ~StopRequested
        <4>1. /\ worker[w] = "notFetched"
              /\ worker' = [worker EXCEPT ![w] = "count"]
              /\ UNCHANGED <<claimed, nextSegment, part>>
          BY <2>6, <3>2 DEF AfterFailure
        <4> QED BY <4>1
      <3> QED BY <3>1, <3>2
    <2>7. CASE CountFailure(w) BY <2>7 DEF CountFailure, Counted
    <2>8. CASE CompareRetries(w) BY <2>8 DEF CompareRetries
    <2>9. CASE GiveUp(w) BY <2>9 DEF GiveUp
    <2>10. CASE Reconnect(w) BY <2>10 DEF Reconnect
    <2>11. CASE BackOff(w) BY <2>11 DEF BackOff, MayRetry
    <2>12. CASE FinishSegment(w) BY <2>12 DEF FinishSegment
    <2> QED BY <1>19, <2>1, <2>2, <2>3, <2>4, <2>5, <2>6, <2>7, <2>8, <2>9,
           <2>10, <2>11, <2>12 DEF Worker
  <1>20. CASE UNCHANGED vars
    BY <1>20
  <1> QED BY <1>1, <1>2, <1>3, <1>4, <1>5, <1>6, <1>7, <1>8, <1>9, <1>10,
         <1>11, <1>12, <1>13, <1>14, <1>15, <1>16, <1>17, <1>18, <1>19, <1>20
         DEF Next, Runner, Stopped

\* A worker that finds nothing more to claim leaves nothing behind.
LEMMA NothingDroppedStep ==
  ASSUME TypeOK, ClaimsHandedOut, NothingDropped, [Next]_vars
  PROVE  NothingDropped'
  <1> USE DEF TypeOK, PlacesTyped, SegmentsTyped, NothingDropped
  <1>1. CASE StartDownload
    <2>1. runner' # "joinWorkers"
      BY <1>1 DEF StartDownload
    <2> QED BY <2>1
  <1>2. CASE PauseDownload BY <1>2 DEF PauseDownload
  <1>3. CASE CancelDownload BY <1>3 DEF CancelDownload
  <1>4. CASE ResumeDownload BY <1>4 DEF ResumeDownload
  <1>5. CASE RelaunchRunner BY <1>5 DEF RelaunchRunner, Relaunched
  <1>6. CASE WriteRow BY <1>6 DEF WriteRow
  <1>7. CASE StopService BY <1>7 DEF StopService
  <1>8. CASE ServiceStopped BY <1>8 DEF ServiceStopped
  <1>9. CASE NetworkLost BY <1>9 DEF NetworkLost
  <1>10. CASE NetworkRestored BY <1>10 DEF NetworkRestored
  <1>11. CASE BeginRun BY <1>11 DEF BeginRun
  <1>12. CASE JoinWorkers BY <1>12 DEF JoinWorkers, AllExited
  <1>13. CASE CheckCancel BY <1>13 DEF CheckCancel
  <1>14. CASE RemoveParts BY <1>14 DEF RemoveParts
  <1>15. CASE OpenOutput BY <1>15 DEF OpenOutput
  <1>16. CASE MergeSegment BY <1>16 DEF MergeSegment
  <1>17. CASE MergeDone BY <1>17 DEF MergeDone
  <1>18. CASE FinishRun BY <1>18 DEF FinishRun, Released
  <1>19. ASSUME NEW w \in Workers, Worker(w) PROVE NothingDropped'
    <2>1. CASE ClaimSegment(w)
      <3>1. CASE ~ok \/ StopRequested \/ NoneLeft
        <4>1. /\ worker' = [worker EXCEPT ![w] = "exit"]
              /\ UNCHANGED <<claimed, nextSegment, runner, ok, part, flagVars>>
          BY <2>1, <3>1 DEF ClaimSegment
        <4> QED BY <2>1, <3>1, <4>1 DEF NoneLeft, ClaimSegment
      <3>2. CASE ~(~ok \/ StopRequested \/ NoneLeft)
        <4>1. /\ worker[w] = "claim"
              /\ worker' = [worker EXCEPT ![w] = "check"]
              /\ claimed' = [claimed EXCEPT ![w] = nextSegment]
              /\ nextSegment' = nextSegment + 1
              /\ UNCHANGED <<runner, ok, part, flagVars>>
          BY <2>1, <3>2 DEF ClaimSegment, AfterClaim
        <4>2. ASSUME runner = "joinWorkers", NEW v \in Workers
              PROVE  worker'[v] # "exit"
          BY <3>2, <4>1, <4>2 DEF NoneLeft
        <4>3. ASSUME runner = "joinWorkers",
                     NEW s \in Segments, s < nextSegment + 1, ~Full(s)
              PROVE  \E v \in Workers : /\ worker'[v] \notin {"claim", "exit"}
                                        /\ claimed'[v] = s
          <5>1. CASE s = nextSegment
            BY <4>1, <5>1
          <5>2. CASE s < nextSegment
            <6>1. PICK v \in Workers : Holds(v, s)
              BY <3>2, <4>3, <5>2
            <6>2. v # w
              BY <4>1, <6>1
            <6> QED BY <4>1, <6>1, <6>2
          <5> QED BY <4>3, <5>1, <5>2
        <4> HIDE DEF TypeOK, PlacesTyped, SegmentsTyped
        <4> QED BY <4>1, <4>2, <4>3
      <3> QED BY <3>1, <3>2
    <2>2. CASE CheckPart(w) BY <2>2 DEF CheckPart
    <2>3. CASE ReceiveChunk(w) BY ZenonT(40), <2>3 DEF ReceiveChunk
    <2>4. CASE TransferFails(w) BY <2>4 DEF TransferFails
    <2>5. CASE TransferSucceeds(w) BY <2>5 DEF TransferSucceeds, RangeReceived
    <2>6. CASE AfterFailure(w)
      <3>1. CASE StopRequested BY <2>6, <3>1 DEF AfterFailure
      <3>2. CASE ~StopRequested
        BY ZenonT(40), <2>6, <3>2 DEF AfterFailure
      <3> QED BY <3>1, <3>2
    <2>7. CASE CountFailure(w) BY <2>7 DEF CountFailure, Counted
    <2>8. CASE CompareRetries(w) BY <2>8 DEF CompareRetries
    <2>9. CASE GiveUp(w) BY <2>9 DEF GiveUp
    <2>10. CASE Reconnect(w) BY <2>10 DEF Reconnect
    <2>11. CASE BackOff(w) BY <2>11 DEF BackOff, MayRetry
    <2>12. CASE FinishSegment(w) BY SMTT(40), <2>12 DEF FinishSegment, ClaimsHandedOut
    <2> QED BY <1>19, <2>1, <2>2, <2>3, <2>4, <2>5, <2>6, <2>7, <2>8, <2>9,
           <2>10, <2>11, <2>12 DEF Worker
  <1>20. CASE UNCHANGED vars
    BY <1>20
  <1> QED BY <1>1, <1>2, <1>3, <1>4, <1>5, <1>6, <1>7, <1>8, <1>9, <1>10,
         <1>11, <1>12, <1>13, <1>14, <1>15, <1>16, <1>17, <1>18, <1>19, <1>20
         DEF Next, Runner, Stopped

-----------------------------------------------------------------------------
(* The runner.                                                               *)

\* The join of the workers, the looks at the two requests and the merge loop
\* establish one after the other what the merge and the report rest on.
LEMMA MergeProgressStep ==
  ASSUME TypeOK, WorkersJoined, NothingDropped, MergeProgress, [Next]_vars
  PROVE  MergeProgress'
  <1> USE DEF TypeOK, SegmentsTyped, MergeProgress, Delivered
  <1>1. CASE StartDownload
    <2>1. runner' = "begin"
      BY <1>1 DEF StartDownload
    <2> QED BY <2>1
  <1>2. CASE PauseDownload BY <1>2 DEF PauseDownload
  <1>3. CASE CancelDownload BY <1>3 DEF CancelDownload
  <1>4. CASE ResumeDownload BY <1>4 DEF ResumeDownload
  <1>5. CASE RelaunchRunner BY <1>5 DEF RelaunchRunner, Relaunched
  <1>6. CASE WriteRow BY <1>6 DEF WriteRow
  <1>7. CASE StopService BY <1>7 DEF StopService
  <1>8. CASE ServiceStopped BY <1>8 DEF ServiceStopped
  <1>9. CASE NetworkLost BY <1>9 DEF NetworkLost
  <1>10. CASE NetworkRestored BY <1>10 DEF NetworkRestored
  <1>11. CASE BeginRun BY <1>11 DEF BeginRun
  <1>12. CASE JoinWorkers
    <2>1. CASE pauseRequested BY <1>12, <2>1 DEF JoinWorkers
    <2>2. CASE ~pauseRequested
      <3>1. runner' = "checkCancel" /\ UNCHANGED <<cancelRequested, ok, part>>
        BY <1>12, <2>2 DEF JoinWorkers
      <3>2. ASSUME ~cancelRequested, ok PROVE \A s \in Segments : Full(s)
        <4>1. nextSegment > NumSegments
          BY <1>12, <2>2, <3>2 DEF JoinWorkers, AllExited, NothingDropped
        <4>2. \A s \in Segments : s < nextSegment
          BY <4>1
        <4> QED
          BY <1>12, <2>2, <3>2, <4>2 DEF JoinWorkers, AllExited, NothingDropped
      <3> QED BY <3>1, <3>2
    <2> QED BY <2>1, <2>2
  <1>13. CASE CheckCancel BY <1>13 DEF CheckCancel
  <1>14. CASE RemoveParts BY <1>14 DEF RemoveParts
  <1>15. CASE OpenOutput
    <2>1. CASE /\ finalFile' = [s \in Segments |-> 0]
               /\ mergeNext' = 1 /\ runner' = "merge" /\ UNCHANGED ok
      BY <1>15, <2>1 DEF OpenOutput
    <2>2. CASE ok' = FALSE /\ runner' = "finish"
      BY <2>2
    <2> QED BY <1>15, <2>1, <2>2 DEF OpenOutput
  <1>16. CASE MergeSegment
    <2>1. /\ runner = "merge" /\ mergeNext \in Segments
          /\ part[mergeNext] = SegmentSize[mergeNext]
      BY <1>16 DEF MergeSegment
    <2>2. CASE mergeNext' = mergeNext + 1
      <3>1. /\ part' = [part EXCEPT ![mergeNext] = 0]
            /\ UNCHANGED <<ok, runner>>
        <4> HIDE DEF MergeProgress
        <4> QED BY <1>16, <2>1, <2>2 DEF MergeSegment
      <3>2. ASSUME ~DiskFills, NEW s \in Segments, s <= mergeNext
            PROVE  finalFile'[s] = SegmentSize[s]
        <4>1. \A t \in Segments : t < mergeNext => finalFile[t] = SegmentSize[t]
          BY <2>1, <3>2
        <4> HIDE DEF MergeProgress
        <4>2. finalFile' = [finalFile EXCEPT ![mergeNext] = part[mergeNext]]
          BY <1>16, <2>1, <2>2, <3>2, <4>1 DEF MergeSegment, Written
        <4> QED BY <2>1, <3>2, <4>1, <4>2
      <3> QED BY <2>1, <2>2, <3>1, <3>2
    <2>3. CASE ok' = FALSE /\ runner' = "finish"
      BY <2>3
    <2> QED BY <1>16, <2>2, <2>3 DEF MergeSegment
  <1>17. CASE MergeDone BY <1>17 DEF MergeDone
  <1>18. CASE FinishRun BY <1>18 DEF FinishRun, Released
  <1>19. ASSUME NEW w \in Workers, Worker(w) PROVE MergeProgress'
    <2>1. CASE ClaimSegment(w) BY <2>1 DEF ClaimSegment, NoneLeft, AfterClaim
    <2>2. CASE CheckPart(w) BY <2>2 DEF CheckPart
    <2>3. CASE ReceiveChunk(w) BY SMTT(30), <2>3 DEF ReceiveChunk
    <2>4. CASE TransferFails(w) BY <2>4 DEF TransferFails
    <2>5. CASE TransferSucceeds(w) BY <2>5 DEF TransferSucceeds, RangeReceived
    <2>6. CASE AfterFailure(w) BY <2>6 DEF AfterFailure
    <2>7. CASE CountFailure(w) BY <2>7 DEF CountFailure, Counted
    <2>8. CASE CompareRetries(w) BY <2>8 DEF CompareRetries
    <2>9. CASE GiveUp(w) BY <2>9 DEF GiveUp, WorkersJoined
    <2>10. CASE Reconnect(w) BY <2>10 DEF Reconnect
    <2>11. CASE BackOff(w) BY <2>11 DEF BackOff, MayRetry
    <2>12. CASE FinishSegment(w) BY <2>12 DEF FinishSegment
    <2> QED BY <1>19, <2>1, <2>2, <2>3, <2>4, <2>5, <2>6, <2>7, <2>8, <2>9,
           <2>10, <2>11, <2>12 DEF Worker
  <1>20. CASE UNCHANGED vars
    BY <1>20
  <1> QED BY <1>1, <1>2, <1>3, <1>4, <1>5, <1>6, <1>7, <1>8, <1>9, <1>10,
         <1>11, <1>12, <1>13, <1>14, <1>15, <1>16, <1>17, <1>18, <1>19, <1>20
         DEF Next, Runner, Stopped

\* What is reported of a run is true of it until the next command.
LEMMA RunReportedStep ==
  ASSUME TypeOK, WorkersJoined, MergeProgress, RunReported, [Next]_vars
  PROVE  RunReported'
  <1> USE DEF TypeOK, RunReported, Delivered, TransfersAccounted
  <1>1. CASE StartDownload
    <2>1. runner = "idle" /\ activeTransfers = 0
      BY <1>1 DEF StartDownload
    <2> QED BY <1>1, <2>1 DEF StartDownload
  <1>2. CASE PauseDownload BY <1>2 DEF PauseDownload
  <1>3. CASE CancelDownload BY <1>3 DEF CancelDownload
  <1>4. CASE ResumeDownload BY <1>4 DEF ResumeDownload
  <1>5. CASE RelaunchRunner BY <1>5 DEF RelaunchRunner, Relaunched
  <1>6. CASE WriteRow BY <1>6 DEF WriteRow
  <1>7. CASE StopService BY <1>7 DEF StopService
  <1>8. CASE ServiceStopped BY <1>8 DEF ServiceStopped
  <1>9. CASE NetworkLost BY <1>9 DEF NetworkLost
  <1>10. CASE NetworkRestored BY <1>10 DEF NetworkRestored
  <1>11. CASE BeginRun BY <1>11 DEF BeginRun
  <1>12. CASE JoinWorkers BY <1>12 DEF JoinWorkers, AllExited
  <1>13. CASE CheckCancel BY <1>13 DEF CheckCancel
  <1>14. CASE RemoveParts BY <1>14 DEF RemoveParts
  <1>15. CASE OpenOutput BY <1>15 DEF OpenOutput
  <1>16. CASE MergeSegment BY <1>16 DEF MergeSegment
  <1>17. CASE MergeDone BY <1>17 DEF MergeDone
  <1>18. CASE FinishRun BY <1>18 DEF FinishRun, Released, MergeProgress
  <1>19. ASSUME NEW w \in Workers, Worker(w) PROVE RunReported'
    <2>1. CASE ClaimSegment(w) BY <2>1 DEF ClaimSegment, NoneLeft, AfterClaim
    <2>2. CASE CheckPart(w) BY <2>2 DEF CheckPart
    <2>3. CASE ReceiveChunk(w) BY <2>3 DEF ReceiveChunk
    <2>4. CASE TransferFails(w) BY <2>4 DEF TransferFails
    <2>5. CASE TransferSucceeds(w) BY <2>5 DEF TransferSucceeds, RangeReceived
    <2>6. CASE AfterFailure(w) BY <2>6 DEF AfterFailure
    <2>7. CASE CountFailure(w) BY <2>7 DEF CountFailure, Counted
    <2>8. CASE CompareRetries(w) BY <2>8 DEF CompareRetries
    <2>9. CASE GiveUp(w) BY <2>9 DEF GiveUp
    <2>10. CASE Reconnect(w) BY <2>10 DEF Reconnect
    <2>11. CASE BackOff(w) BY <2>11 DEF BackOff, MayRetry
    <2>12. CASE FinishSegment(w) BY <2>12 DEF FinishSegment
    <2> QED BY <1>19, <2>1, <2>2, <2>3, <2>4, <2>5, <2>6, <2>7, <2>8, <2>9,
           <2>10, <2>11, <2>12 DEF Worker
  <1>20. CASE UNCHANGED vars
    BY <1>20
  <1> QED BY <1>1, <1>2, <1>3, <1>4, <1>5, <1>6, <1>7, <1>8, <1>9, <1>10,
         <1>11, <1>12, <1>13, <1>14, <1>15, <1>16, <1>17, <1>18, <1>19, <1>20
         DEF Next, Runner, Stopped

\* What is left of the part files is left for good: no worker is there to bring one
\* back, and only a resume, which starts a new run, takes back a pause.
LEMMA PartsSettledStep ==
  ASSUME TypeOK, WorkersJoined, MergeProgress, RunReported, PartsSettled, [Next]_vars
  PROVE  PartsSettled'
  <1>1. ASSUME UNCHANGED <<isFinished, runner, ok, mergeNext, part, tempFilePath>>,
               pauseRequested => pauseRequested'
        PROVE  PartsSettled'
    BY <1>1 DEF PartsSettled, OnlyPauseKeepsParts, Tidied, BrokenOff
  <1>2. ASSUME runner' \in {"begin", "joinWorkers", "checkCancel", "removeCancelled",
                            "removeFailed", "openOutput"},
               ~isFinished'
        PROVE  PartsSettled'
    BY <1>2 DEF PartsSettled, OnlyPauseKeepsParts
  <1>3. isFinished => runner = "idle" BY DEF RunReported
  <1>4. CASE \/ PauseDownload \/ CancelDownload \/ ResumeDownload \/ WriteRow
            \/ StopService \/ ServiceStopped \/ NetworkLost \/ NetworkRestored
            \/ UNCHANGED vars
    <2>1. /\ UNCHANGED <<isFinished, runner, ok, mergeNext, part, tempFilePath>>
          /\ pauseRequested => pauseRequested'
      BY <1>4 DEF PauseDownload, CancelDownload, ResumeDownload, WriteRow, StopService,
                  ServiceStopped, NetworkLost, NetworkRestored
    <2> QED BY <1>1, <2>1
  <1>5. CASE StartDownload
    <2>1. runner' = "begin" /\ UNCHANGED isFinished /\ ~isFinished
      BY <1>5 DEF StartDownload, RunReported
    <2> QED BY <1>2, <2>1
  <1>6. CASE RelaunchRunner
    <2>1. CASE isRunning
      <3>1. /\ UNCHANGED <<isFinished, runner, ok, mergeNext, part, tempFilePath>>
            /\ UNCHANGED pauseRequested
        BY <1>6, <2>1 DEF RelaunchRunner
      <3> QED BY <1>1, <3>1
    <2>2. CASE ~isRunning
      <3>1. runner' = "begin" /\ isFinished' = FALSE
        BY <1>6, <2>2 DEF RelaunchRunner, Relaunched
      <3> QED BY <1>2, <3>1
    <2> QED BY <2>1, <2>2
  <1>7. CASE BeginRun
    <2>1. runner' = "joinWorkers" /\ isFinished' = FALSE BY <1>7 DEF BeginRun
    <2> QED BY <1>2, <2>1
  <1>8. CASE JoinWorkers
    <2>1. /\ runner = "joinWorkers" /\ UNCHANGED <<isFinished, pauseRequested>>
          /\ runner' = IF pauseRequested THEN "keepParts" ELSE "checkCancel"
      BY <1>8 DEF JoinWorkers
    <2>2. ~isFinished' BY <1>3, <2>1
    <2> QED BY <2>1, <2>2 DEF PartsSettled, OnlyPauseKeepsParts
  <1>9. CASE CheckCancel
    <2>1. /\ runner = "checkCancel" /\ UNCHANGED isFinished
          /\ runner' \in {"removeCancelled", "removeFailed", "openOutput"}
      BY <1>9 DEF CheckCancel
    <2> QED BY <1>2, <1>3, <2>1
  <1>10. CASE RemoveParts
    <2>1. /\ runner \in {"removeCancelled", "removeFailed"} /\ UNCHANGED <<isFinished, tempFilePath>>
          /\ part' = [s \in Segments |-> IF tempFilePath[s] THEN 0 ELSE part[s]]
          /\ runner' \in {"finishCancelled", "finish"}
      BY <1>10 DEF RemoveParts
    <2>2. Tidied' BY <2>1 DEF Tidied
    <2>3. ~isFinished' BY <1>3, <2>1
    <2> QED BY <2>1, <2>2, <2>3 DEF PartsSettled, OnlyPauseKeepsParts
  <1>11. CASE OpenOutput
    <2>1. /\ runner = "openOutput" /\ UNCHANGED <<isFinished, part>>
          /\ \/ mergeNext' = 1 /\ runner' = "merge"
             \/ ok' = FALSE /\ runner' = "finish"
      BY <1>11 DEF OpenOutput
    <2>2. ~isFinished' BY <1>3, <2>1
    <2>3. 1 \in Segments /\ \A s \in Segments : s \in Nat /\ s >= 1 OBVIOUS
    <2>4. CASE mergeNext' = 1 /\ runner' = "merge"
      <3>1. \A s \in Segments : ~(s < mergeNext') BY <2>3, <2>4
      <3> QED BY <2>2, <2>4, <3>1 DEF PartsSettled, OnlyPauseKeepsParts
    <2>5. CASE ok' = FALSE /\ runner' = "finish"
      <3>1. \A s \in Segments : part'[s] = SegmentSize[s] BY <2>1 DEF MergeProgress
      <3>2. BrokenOff(1)' BY <2>3, <3>1 DEF BrokenOff
      <3>3. Tidied' BY <2>3, <2>5, <3>2 DEF Tidied
      <3> QED BY <2>2, <2>5, <3>3 DEF PartsSettled, OnlyPauseKeepsParts
    <2> QED BY <2>1, <2>4, <2>5
  <1>12. CASE MergeSegment
    <2>1. /\ runner = "merge" /\ UNCHANGED <<isFinished, tempFilePath>>
          /\ mergeNext \in Nat /\ mergeNext \in Segments
          /\ \A s \in Segments : s < mergeNext => part[s] = 0
          /\ \A s \in mergeNext..NumSegments : part[s] = SegmentSize[s]
      BY <1>12 DEF MergeSegment, PartsSettled, MergeProgress, TypeOK, SegmentsTyped
    <2>2. ~isFinished' BY <1>3, <2>1
    <2>3. CASE /\ part' = [part EXCEPT ![mergeNext] = 0]
              /\ mergeNext' = mergeNext + 1 /\ UNCHANGED runner
      <3>1. \A s \in Segments : s < mergeNext' => part'[s] = 0
        BY <2>1, <2>3 DEF TypeOK, SegmentsTyped
      <3> QED BY <2>1, <2>2, <2>3, <3>1 DEF PartsSettled, OnlyPauseKeepsParts
    <2>4. CASE ok' = FALSE /\ runner' = "finish" /\ UNCHANGED part
      <3>1. \A s \in Segments : s >= mergeNext => s \in mergeNext..NumSegments BY <2>1
      <3>2. \A s \in Segments : IF s < mergeNext THEN part'[s] = 0 ELSE part'[s] = SegmentSize[s]
        BY <2>1, <2>4, <3>1
      <3>3. Tidied' BY <2>1, <2>4, <3>2 DEF Tidied, BrokenOff
      <3> QED BY <2>2, <2>4, <3>3 DEF PartsSettled, OnlyPauseKeepsParts
    <2> QED BY <1>12, <2>3, <2>4 DEF MergeSegment
  <1>13. CASE MergeDone
    <2>1. /\ runner = "merge" /\ mergeNext > NumSegments /\ runner' = "finish"
          /\ UNCHANGED <<isFinished, part, tempFilePath>>
      BY <1>13 DEF MergeDone
    <2>2. \A s \in Segments : s < mergeNext BY <2>1 DEF TypeOK, SegmentsTyped
    <2>3. Tidied' BY <2>1, <2>2 DEF Tidied, PartsSettled
    <2>4. ~isFinished' BY <1>3, <2>1
    <2> QED BY <2>1, <2>3, <2>4 DEF PartsSettled, OnlyPauseKeepsParts
  <1>14. CASE FinishRun
    <2>1. /\ runner \in {"keepParts", "finishCancelled", "finish"} /\ runner' = "idle"
          /\ UNCHANGED <<pauseRequested, ok, mergeNext, part, tempFilePath>>
      BY <1>14 DEF FinishRun
    <2>2. pauseRequested' \/ Tidied' BY <2>1 DEF PartsSettled, Tidied, BrokenOff
    <2> QED BY <2>1, <2>2 DEF PartsSettled, OnlyPauseKeepsParts
  <1>15. ASSUME NEW w \in Workers, Worker(w) PROVE PartsSettled'
    <2>1. worker[w] # "exit" /\ UNCHANGED <<runner, isFinished>>
      BY <1>15 DEF Worker, ClaimSegment, CheckPart, ReceiveChunk, TransferFails,
           TransferSucceeds, AfterFailure, CountFailure, CompareRetries, GiveUp,
           Reconnect, BackOff, FinishSegment
    <2>2. runner = "joinWorkers" BY <2>1 DEF WorkersJoined
    <2> QED BY <1>2, <1>3, <2>1, <2>2
  <1> QED BY <1>4, <1>5, <1>6, <1>7, <1>8, <1>9, <1>10, <1>11, <1>12, <1>13, <1>14, <1>15
         DEF Next, Runner, Stopped

-----------------------------------------------------------------------------
(* The theorems.                                                             *)

\* The inductive invariant holds of a task that has just been created or recovered.
LEMMA InitInv == Init => IInv
  <1> SUFFICES ASSUME Init PROVE IInv
    OBVIOUS
  <1>1. FlagsTyped
    BY DEF Init, FlagsTyped
  <1>2. PlacesTyped
    BY DEF Init, PlacesTyped, RunnerPlaces, WorkerPlaces, ApiPlaces, RowStatuses
  <1>3. CountersTyped
    BY DEF Init, CountersTyped
  <1>4. SegmentsTyped
    <2>1. ASSUME NEW n \in UNION {0..SegmentSize[s] : s \in Segments}
          PROVE  n \in Nat
      <3>1. PICK s \in Segments : n \in 0..SegmentSize[s]
        OBVIOUS
      <3> QED BY <3>1
    <2>2. part \in [Segments -> Nat]
      BY <2>1 DEF Init
    <2>3. 1 \in Segments
      OBVIOUS
    <2>4. /\ claimed = [w \in Workers |-> 1]
          /\ finalFile = [s \in Segments |-> 0]
          /\ nextSegment = 1 /\ mergeNext = 1
          /\ \A s \in Segments : part[s] <= SegmentSize[s]
      BY DEF Init
    <2> QED BY <2>2, <2>3, <2>4 DEF SegmentsTyped
  <1>5. WorkersJoined /\ ClaimsHandedOut /\ SegmentExclusive
    BY DEF Init, WorkersJoined, ClaimsHandedOut, SegmentExclusive
  <1>6. NothingDropped /\ MergeProgress
    BY DEF Init, NothingDropped, MergeProgress
  <1>7. RunReported
    BY DEF Init, RunReported, TransfersAccounted
  <1>8. PartsSettled
    BY DEF Init, PartsSettled, OnlyPauseKeepsParts
  <1> QED BY <1>1, <1>2, <1>3, <1>4, <1>5, <1>6, <1>7, <1>8 DEF IInv, TypeOK

\* Each step of the task preserves the inductive invariant.
LEMMA StepInv == IInv /\ [Next]_vars => IInv'
  BY TypeStep, WorkersJoinedStep, ClaimsStep, ExclusiveStep, NothingDroppedStep,
     MergeProgressStep, RunReportedStep, PartsSettledStep DEF IInv

\* IInv holds in every state the engine's threads can reach, in any order of
\* their steps.
THEOREM InvHolds == Spec => []IInv
  BY InitInv, StepInv, PTL DEF Spec

\* The shared index of ClaimSegment stays in range and no part file outgrows its
\* segment.
THEOREM TypesHold == Spec => []TypeOK
  <1>1. IInv => TypeOK
    BY DEF IInv
  <1> QED BY <1>1, InvHolds, PTL

\* No part file ever has two writers: ClaimSegment hands every segment to one
\* worker of a run, and no worker outlives its run.
THEOREM OneWriter == Spec => []SegmentExclusive
  <1>1. IInv => SegmentExclusive
    BY DEF IInv
  <1> QED BY <1>1, InvHolds, PTL

\* runTask merges only what is whole: a worker that left early is never mistaken
\* for one that had finished.
THEOREM MergesWhole == Spec => []MergeOnlyWhole
  <1>1. IInv => MergeOnlyWhole
    BY DEF IInv, MergeProgress, MergeOnlyWhole
  <1> QED BY <1>1, InvHolds, PTL

\* Unless the disk fills up, what runTask reports as completed has every byte of
\* every segment in the final file.
THEOREM CompletedWhole == ASSUME ~DiskFills PROVE Spec => []CompletedIsWhole
  <1>1. IInv => CompletedIsWhole
    BY DEF IInv, RunReported, Delivered, CompletedIsWhole
  <1> QED BY <1>1, InvHolds, PTL

\* waitForDownload returns only when no thread of the run is left.
THEOREM FinishedQuiet == Spec => []FinishedIsQuiet
  <1>1. IInv => FinishedIsQuiet
    BY DEF IInv, WorkersJoined, RunReported, FinishedIsQuiet
  <1> QED BY <1>1, InvHolds, PTL

\* Once a run that nobody asked to pause is over, part files are left only if the
\* merge broke off, and then what it has not merged is whole (the ends of runTask).
THEOREM OnlyPauseLeaves == Spec => []OnlyPauseKeepsParts
  <1>1. IInv => OnlyPauseKeepsParts
    BY DEF IInv, PartsSettled
  <1> QED BY <1>1, InvHolds, PTL

\* activeTransfers counts the launched runs that have not ended.
THEOREM TransfersCounted == Spec => []TransfersAccounted
  <1>1. IInv => TransfersAccounted
    BY DEF IInv, RunReported
  <1> QED BY <1>1, InvHolds, PTL

\* What a step does to the part files, given the invariant.
LEMMA PartsStep == ASSUME IInv, ~DiskFills, [Next]_vars PROVE BytesKept
  <1> USE DEF BytesKept
  <1>1. part \in [Segments -> Nat]
    BY DEF IInv, TypeOK, SegmentsTyped
  <1>2. CASE RemoveParts
    BY <1>1, <1>2 DEF RemoveParts, IInv, WorkersJoined, MergeProgress
  <1>3. CASE MergeSegment
    <2>1. /\ runner = "merge" /\ mergeNext \in Segments
          /\ part[mergeNext] = SegmentSize[mergeNext]
      BY <1>3 DEF MergeSegment, IInv, TypeOK, SegmentsTyped, MergeProgress
    <2>2. finalFile \in [Segments -> Nat]
      BY DEF IInv, TypeOK, SegmentsTyped
    <2>3. \A w \in Workers : worker[w] = "exit"
      BY <2>1 DEF IInv, WorkersJoined
    <2>4. CASE UNCHANGED <<finalFile, part, mergeNext>>
      BY <1>1, <2>4
    <2>5. CASE mergeNext' = mergeNext + 1
      <3>1. part' = [part EXCEPT ![mergeNext] = 0]
        BY <1>3, <2>1, <2>5 DEF MergeSegment
      <3>2. \A t \in Segments : t < mergeNext => finalFile[t] = SegmentSize[t]
        BY <2>1 DEF IInv, MergeProgress, Delivered
      <3>3. finalFile' = [finalFile EXCEPT ![mergeNext] = part[mergeNext]]
        BY <1>3, <2>1, <2>5, <3>2 DEF MergeSegment, Written
      <3> QED BY <1>1, <2>1, <2>2, <2>3, <3>1, <3>3
    <2> QED BY <1>3, <2>4, <2>5 DEF MergeSegment
  <1>4. ASSUME NEW w \in Workers, ReceiveChunk(w) PROVE BytesKept
    <2>1. claimed[w] \in Segments
      BY DEF IInv, TypeOK, SegmentsTyped
    <2> QED BY <1>1, <1>4, <2>1 DEF ReceiveChunk
  <1>5. CASE UNCHANGED part
    BY <1>1, <1>5
  <1>6. Next => \/ RemoveParts \/ MergeSegment \/ UNCHANGED part
                \/ \E w \in Workers : ReceiveChunk(w)
    <2>1. Runner => RemoveParts \/ MergeSegment \/ UNCHANGED part
      BY DEF Runner, BeginRun, JoinWorkers, CheckCancel, OpenOutput, MergeDone,
             FinishRun
    <2>2. ASSUME NEW w \in Workers, Worker(w)
          PROVE  ReceiveChunk(w) \/ UNCHANGED part
      BY <2>2 DEF Worker, ClaimSegment, CheckPart, TransferFails,
             TransferSucceeds, AfterFailure, CountFailure, CompareRetries,
             GiveUp, Reconnect, BackOff, FinishSegment
    <2> QED
      BY <2>1, <2>2 DEF Next, StartDownload, PauseDownload, CancelDownload,
             ResumeDownload, RelaunchRunner, WriteRow, StopService,
             ServiceStopped, NetworkLost, NetworkRestored, Stopped
  <1> QED BY <1>2, <1>3, <1>4, <1>5, <1>6

\* A part file shrinks only after the workers are gone, and only when the
\* download was cancelled or failed or its bytes are in the final file, unless
\* the disk fills up.
THEOREM BytesSurvive == ASSUME ~DiskFills PROVE Spec => NoByteLost
  <1>1. IInv /\ [Next]_vars => [BytesKept]_vars
    BY PartsStep
  <1> QED BY <1>1, InvHolds, PTL DEF Spec, NoByteLost

-----------------------------------------------------------------------------
(* One task of the engine implements ResumableTransfer, for every value of   *)
(* the constants, as long as the disk does not fill up while the final file  *)
(* is written.                                                               *)

HIDE DEF Active, Holds

\* The initial states of the task are those of the transfer.
LEMMA InitMaps == Init => Transfer!Init
  BY DEF Init, Transfer!Init, Transfer!Segments, Phase, Reported

\* What the invariant says of the mapped state.
LEMMA Quiet ==
  ASSUME IInv
  PROVE  /\ Reported => runner = "idle"
         /\ part \in [Segments -> Nat] /\ finalFile \in [Segments -> Nat]
         /\ Transfer!Segments = Segments
         /\ Reported \in BOOLEAN /\ ok \in BOOLEAN
  BY DEF IInv, TypeOK, FlagsTyped, SegmentsTyped, RunReported, Reported,
         Transfer!Segments

\* Part files within their segments, in the words of ResumableTransfer.
LEMMA Bounded ==
  ASSUME NEW f \in [Segments -> Nat], \A s \in Segments : f[s] <= SegmentSize[s]
  PROVE  f \in [Segments -> UNION {0..SegmentSize[s] : s \in Segments}]
  <1>1. \A s \in Segments : f[s] \in 0..SegmentSize[s] BY SMT
  <1>2. \A s \in Segments : f[s] \in UNION {0..SegmentSize[t] : t \in Segments}
    BY <1>1, Zenon
  <1> QED BY <1>2

\* Every step of the task is a step of the transfer or leaves it alone.
LEMMA StepMaps ==
  ASSUME IInv, IInv', ~DiskFills, [Next]_vars
  PROVE  [Transfer!Next]_(Transfer!transferVars)
  <1> USE Quiet DEF Phase, Reported, Transfer!transferVars
  <1>1. CASE StartDownload
    <2>1. Transfer!Start
      BY <1>1 DEF StartDownload, Transfer!Start, IInv, RunReported
    <2> QED BY <2>1 DEF Transfer!Next
  <1>2. CASE PauseDownload \/ CancelDownload
    BY <1>2 DEF PauseDownload, CancelDownload, Transfer!Withdraw, Transfer!Next
  <1>3. CASE JoinWorkers
    BY <1>3 DEF JoinWorkers
  <1>4. CASE RelaunchRunner
    <2>1. Transfer!Start \/ UNCHANGED Transfer!transferVars
      BY <1>4 DEF RelaunchRunner, Relaunched, Transfer!Start
    <2> QED BY <2>1 DEF Transfer!Next
  <1>0. /\ part' \in [Transfer!Segments ->
                       UNION {0..SegmentSize[s] : s \in Transfer!Segments}]
        /\ part \in [Segments -> Nat] /\ part' \in [Segments -> Nat]
        /\ Transfer!Segments = Segments
    <2>1. /\ part' \in [Segments -> Nat]
          /\ \A s \in Segments : part'[s] <= SegmentSize[s]
      BY DEF IInv, TypeOK, SegmentsTyped
    <2>2. part' \in [Segments -> UNION {0..SegmentSize[s] : s \in Segments}]
      BY <2>1, Bounded
    <2> QED BY <2>2, <2>1
  <1>5. CASE RemoveParts
    <2>1. Phase = "fetching" /\ Phase' = "ending"
      BY <1>5 DEF RemoveParts, IInv, MergeProgress
    <2>2. \A s \in Segments : part'[s] \in {0, part[s]}
      BY <1>5, <1>0 DEF RemoveParts
    <2>3. Transfer!Abandon
      BY <1>0, <1>5, <2>1, <2>2 DEF RemoveParts, Transfer!Abandon
    <2> QED BY <2>3 DEF Transfer!Next
  <1>6. CASE OpenOutput
    <2>0. /\ UNCHANGED <<part, statusMessage>>
          /\ Phase = "fetching"
          /\ \A s \in Segments : part[s] = SegmentSize[s]
      BY <1>6 DEF OpenOutput, IInv, MergeProgress
    <2>1. CASE runner' = "merge" /\ finalFile' = [s \in Segments |-> 0]
      <3>1. Transfer!BeginDelivery
        BY <1>0, <2>0, <2>1 DEF Transfer!BeginDelivery, Transfer!Whole
      <3> QED BY <3>1 DEF Transfer!Next
    <2>2. CASE runner' = "finish" /\ ~ok' /\ UNCHANGED finalFile
      <3>1. Transfer!Abandon
        BY <1>0, <2>0, <2>2 DEF Transfer!Abandon
      <3> QED BY <3>1 DEF Transfer!Next
    <2> QED BY <1>6, <2>1, <2>2 DEF OpenOutput
  <1>7. CASE MergeSegment
    <2>0. /\ runner = "merge" /\ Phase = "delivering"
          /\ UNCHANGED statusMessage
          /\ mergeNext \in Segments /\ part[mergeNext] = SegmentSize[mergeNext]
      BY <1>7 DEF MergeSegment, IInv, TypeOK, SegmentsTyped, MergeProgress
    <2>1. CASE mergeNext' = mergeNext + 1
      <3>1. part' = [part EXCEPT ![mergeNext] = 0] /\ UNCHANGED <<ok, runner>>
        BY <1>7, <2>0, <2>1 DEF MergeSegment
      <3>2. \A t \in Segments : t < mergeNext => finalFile[t] = SegmentSize[t]
        BY <2>0 DEF IInv, MergeProgress, Delivered
      <3>3. finalFile' = [finalFile EXCEPT ![mergeNext] = part[mergeNext]]
        BY <1>7, <2>0, <2>1, <3>2 DEF MergeSegment, Written
      <3>4. Transfer!Deliver(mergeNext)
        BY <2>0, <3>1, <3>3 DEF Transfer!Deliver
      <3> QED BY <1>0, <2>0, <3>4 DEF Transfer!Next
    <2>2. CASE runner' = "finish" /\ ~ok' /\ UNCHANGED <<part, finalFile>>
      <3>1. Transfer!BreakOff
        BY <2>0, <2>2 DEF Transfer!BreakOff
      <3> QED BY <3>1 DEF Transfer!Next
    <2> QED BY <1>7, <2>1, <2>2 DEF MergeSegment
  <1>8. CASE FinishRun
    <2>1. Transfer!Suspend \/ Transfer!End \/ Transfer!Complete
      BY <1>8 DEF FinishRun, Transfer!Suspend, Transfer!End, Transfer!Complete,
             Transfer!Whole, IInv, TypeOK, SegmentsTyped, MergeProgress, Delivered
    <2> QED BY <2>1 DEF Transfer!Next
  <1>9. ASSUME NEW w \in Workers, ReceiveChunk(w) PROVE Transfer!Next
    <2>1. claimed[w] \in Segments /\ part[claimed[w]] < SegmentSize[claimed[w]]
      <3>1. claimed[w] \in Segments /\ \A s \in Segments : part[s] <= SegmentSize[s]
        BY DEF IInv, TypeOK, SegmentsTyped
      <3>2. part[claimed[w]] # SegmentSize[claimed[w]]
        BY <1>9 DEF ReceiveChunk
      <3>3. part[claimed[w]] \in Nat /\ SegmentSize[claimed[w]] \in Nat
        BY <3>1, Quiet
      <3> HIDE Quiet
      <3>4. part[claimed[w]] <= SegmentSize[claimed[w]]
        BY <3>1
      <3> QED BY <3>1, <3>2, <3>3, <3>4
    <2>2. runner = "joinWorkers"
      BY <1>9 DEF ReceiveChunk, IInv, WorkersJoined
    <2>3. Transfer!Fetch(claimed[w])
      BY <1>9, <2>1, <2>2 DEF ReceiveChunk, Transfer!Fetch
    <2> QED BY <1>0, <2>1, <2>3 DEF Transfer!Next
  <1>10. ASSUME NEW w \in Workers, GiveUp(w) \/ Reconnect(w)
         PROVE  UNCHANGED Transfer!transferVars
    <2>1. runner = "joinWorkers" BY <1>10 DEF GiveUp, Reconnect, IInv, WorkersJoined
    <2> QED BY <1>10, <2>1 DEF GiveUp, Reconnect
  <1>11. CASE \/ WriteRow \/ StopService \/ ServiceStopped \/ ResumeDownload
              \/ NetworkLost \/ NetworkRestored
              \/ BeginRun \/ CheckCancel \/ MergeDone
    BY <1>11 DEF WriteRow, StopService, ServiceStopped, ResumeDownload,
                 NetworkLost, NetworkRestored, BeginRun, CheckCancel, MergeDone,
                 IInv, MergeProgress
  <1>12. ASSUME NEW w \in Workers,
                \/ ClaimSegment(w) \/ CheckPart(w) \/ TransferFails(w)
                \/ TransferSucceeds(w) \/ AfterFailure(w) \/ CountFailure(w)
                \/ CompareRetries(w) \/ BackOff(w) \/ FinishSegment(w)
         PROVE  UNCHANGED Transfer!transferVars
    BY <1>12 DEF ClaimSegment, CheckPart, TransferFails, TransferSucceeds,
                 AfterFailure, CountFailure, CompareRetries, BackOff, FinishSegment
  <1>13. CASE UNCHANGED vars
    BY <1>13
  <1> QED 
    BY <1>1, <1>2, <1>3, <1>4, <1>5, <1>6, <1>7, <1>8, <1>9, <1>10, <1>11,
       <1>12, <1>13 DEF Next, Runner, Worker, Stopped

\* Whatever is commanded and whatever fails, what runTask and its workers do to
\* the part files, the final file and the report of completion is what
\* ResumableTransfer allows.
THEOREM TaskRefines == ASSUME ~DiskFills PROVE Spec => ImplementsTransfer
  <1>1. IInv /\ IInv' /\ [Next]_vars => [Transfer!Next]_(Transfer!transferVars)
    BY StepMaps
  <1> QED
    BY <1>1, InitMaps, InvHolds, PTL DEF Spec, Transfer!Spec, ImplementsTransfer
=============================================================================
